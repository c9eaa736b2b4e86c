\* Two invocations, one after the other; a guardrail raises in the first.
SPECIFICATION Spec
CONSTANTS
    Drivers = {d1, d2}
    Humans = {}
    Nobody = Nobody
    Inputs = {hello}
    NoInput = NoInput
    BlockedInputs = {}
    Tools = {"search", "pay"}
    Irreversible = {"pay"}
    Mode <- AllAutonomous
    Replies <- WorkReplies
    Texts = {"valid"}
    BadArguments = {}
    Contents = {"ok"}
    MaxSteps = 2
    BudgetCalls = 9
    HasSchema = FALSE
    HasMemory = FALSE
    Leased = TRUE
    DecideAttempts = 5
    Stalls = FALSE
    MayCrash = FALSE
    MayCancel = FALSE
    MayTimeOut = FALSE
    StoreFailsFor = {}
    MaxFailures = 1
INVARIANT KeyNeverMoves
CHECK_DEADLOCK FALSE
