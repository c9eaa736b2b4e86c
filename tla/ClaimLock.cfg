\* Conflicts in one process, against a second writer in another.
SPECIFICATION SqliteSpec
CONSTANTS
    w1 = w1
    w2 = w2
    w3 = w3
    web = web
    cli = cli
    Writers = {w1, w2, w3}
    Events = {e1, e2}
    Processes = {web, cli}
    ProcessOf <- Placed
    Leasing = {web}
    NoRow = NoRow
    MaxLength = 4
INVARIANT SecondWriterWaits
CHECK_DEADLOCK FALSE
