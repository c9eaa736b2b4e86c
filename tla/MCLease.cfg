\* Three processes over a store with leases: crashes, closed streams, late tools.
SPECIFICATION Spec
CONSTANTS
    Drivers = {d1, d2, d3}
    Humans = {}
    Nobody = Nobody
    Inputs = {hello}
    NoInput = NoInput
    BlockedInputs = {}
    Tools = {"search", "pay"}
    Irreversible = {"pay"}
    Mode <- AllAutonomous
    Replies <- WorkReplies
    Texts = {"valid"}
    BadArguments = {}
    Contents = {"ok"}
    MaxSteps = 2
    BudgetCalls = 9
    HasSchema = FALSE
    HasMemory = FALSE
    Leased = TRUE
    DecideAttempts = 5
    Stalls = FALSE
    MayCrash = TRUE
    MayCancel = TRUE
    MayTimeOut = TRUE
    StoreFailsFor = {d1, d2, d3}
    MaxFailures = 0
SYMMETRY ActorSymmetry
INVARIANTS
    IrreversibleOnce
    OneLiveDriver
    OnlyOrphansDisowned
PROPERTIES
    RecordedNeverRedone
    StepRecordLands
CHECK_DEADLOCK FALSE
