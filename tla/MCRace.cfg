\* Two processes drive one run on a store without leases, and may die.
SPECIFICATION FairSpec
CONSTANTS
    Drivers = {d1, d2}
    Humans = {}
    Nobody = Nobody
    Inputs = {hello}
    NoInput = NoInput
    BlockedInputs = {}
    Tools = {"search", "pay"}
    Irreversible = {"pay"}
    Mode <- AllAutonomous
    Replies <- WorkReplies
    Texts = {"valid"}
    BadArguments = {}
    Contents = {"ok"}
    MaxSteps = 2
    BudgetCalls = 9
    HasSchema = FALSE
    HasMemory = FALSE
    Leased = FALSE
    DecideAttempts = 5
    Stalls = FALSE
    MayCrash = TRUE
    MayCancel = FALSE
    MayTimeOut = FALSE
    StoreFailsFor = {d1, d2}
    MaxFailures = 0
INVARIANTS
    TypeOK
    KeyStable
PROPERTIES
    AppendsAreLegal
    ProtocolKept
    DriversEnd
CHECK_DEADLOCK FALSE
