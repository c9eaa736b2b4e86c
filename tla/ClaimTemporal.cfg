\* Two gates, three attempts in hand at once, two faults.
SPECIFICATION FairSpec
CONSTANTS
    Attempts = {a1, a2, a3}
    None = None
    Gone = Gone
    Gates = 2
    MaxSignals = 3
    MaxFaults = 2
    MaxOthers = 0
PROPERTIES
    ApprovedGatePassed
CHECK_DEADLOCK FALSE
