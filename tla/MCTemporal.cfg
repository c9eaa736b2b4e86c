\* Two gates, three attempts in hand at once, two faults, one
\* decision beside the workflow.
SPECIFICATION FairSpec
CONSTANTS
    Attempts = {a1, a2, a3}
    None = None
    Gone = Gone
    Gates = 2
    MaxSignals = 3
    MaxFaults = 2
    MaxOthers = 1
INVARIANTS
    OneGrantPerSignal
    ReturnsWhenDone
PROPERTIES
    HeardGatePassed
    ExecutionAnswered
CHECK_DEADLOCK FALSE
