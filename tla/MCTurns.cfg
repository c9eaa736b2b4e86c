\* Follow-up turns, refused inputs, provider failures, the budget; structured
\* output and memory recall.
SPECIFICATION Spec
CONSTANTS
    Drivers = {d1, d2, d3}
    Humans = {}
    Nobody = Nobody
    Inputs = {hello, more, bad}
    NoInput = NoInput
    BlockedInputs = {bad}
    Tools = {"search"}
    Irreversible = {}
    Mode <- AllAutonomous
    Replies <- TurnReplies
    Texts = {"valid", "invalid"}
    BadArguments = {"f0"}
    Contents = {"ok"}
    MaxSteps = 4
    BudgetCalls = 3
    HasSchema = TRUE
    HasMemory = TRUE
    Leased = TRUE
    DecideAttempts = 5
    Stalls = FALSE
    MayCrash = TRUE
    MayCancel = FALSE
    MayTimeOut = FALSE
    StoreFailsFor = {}
    MaxFailures = 1
SYMMETRY ActorSymmetry
INVARIANTS
    ReturnedIsSettled
PROPERTIES
    AppendsAreLegal
    WireLegal
    RefusalHolds
CHECK_DEADLOCK FALSE
