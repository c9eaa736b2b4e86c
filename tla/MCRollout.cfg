\* Two humans decide while two processes drive; approvals and shadow proposals,
\* then a structured answer that both deliver.  Without a lease a process that
\* dies is one that takes no further step.
SPECIFICATION Spec
CONSTANTS
    Drivers = {d1, d2}
    Humans = {h1, h2}
    Nobody = Nobody
    Inputs = {hello}
    NoInput = NoInput
    BlockedInputs = {}
    Tools = {"search", "pay", "mail"}
    Irreversible = {"pay"}
    Mode <- RolloutMode
    Replies <- RolloutReplies
    Texts = {"valid"}
    BadArguments = {}
    Contents = {"ok"}
    MaxSteps = 2
    BudgetCalls = 9
    HasSchema = TRUE
    HasMemory = FALSE
    Leased = FALSE
    DecideAttempts = 2
    Stalls = FALSE
    MayCrash = FALSE
    MayCancel = FALSE
    MayTimeOut = FALSE
    StoreFailsFor = {h1, h2}
    MaxFailures = 0
SYMMETRY ActorSymmetry
INVARIANTS
    EffectsAreLicensed
PROPERTIES
    AppendsAreLegal
CHECK_DEADLOCK FALSE
