\* Three writers in two processes; the one of the first two drives.
SPECIFICATION FairSqliteSpec
CONSTANTS
    w1 = w1
    w2 = w2
    w3 = w3
    web = web
    cli = cli
    Writers = {w1, w2, w3}
    Events = {e1, e2}
    Processes = {web, cli}
    ProcessOf <- Placed
    Leasing = {web}
    NoRow = NoRow
    MaxLength = 4
INVARIANTS
    LogDense
    ViewIsPrefix
PROPERTIES
    LedgerKept
    ProtocolKept
    LockFreed
CHECK_DEADLOCK FALSE
