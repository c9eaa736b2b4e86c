\* Three siblings over a pool of two threads, one of which may be lost; two or
\* three model steps, retried once and interrupted or failed once.
SPECIFICATION ExecutorSpec
CONSTANTS
    hung = hung
    quick = quick
    remote = remote
    Calls = {hung, quick, remote}
    Store = Store
    Policy <- ThreePolicies
    Hangs = {hung}
    Raises = {"rate_limit", "permanent"}
    PoolSize = 2
    GuardsRaise = TRUE
    BadHints = TRUE
    BadFallbacks = TRUE
    MayCancel = TRUE
    Models = {"claude", "gpt", "llama"}
    Routes <- AllRoutes
    Adapter <- Adapters
    Answers <- ThreeModels
    Objects <- JsonObjects
    Prices <- PriceTable
    MaxTokens = 8
    MaxUsd = 17
    ModelRetries = 1
    StepLimit = 3
    MaxResumes = 1
INVARIANTS
    OneAttemptAtATime
    GivesUpWhenSpent
    StreamedAsBlocking
    ChargedOnce
    BudgetTrue
PROPERTIES
    ToolsFiled
    HeardIsRecorded
    ModelStepEnds
CHECK_DEADLOCK FALSE
