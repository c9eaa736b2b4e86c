\* Three evaluations, five model calls' worth of scenarios.
SPECIFICATION Spec
CONSTANTS
    old = old
    new = new
    lean = lean
    nightly = nightly
    build = build
    refund = refund
    greet = greet
    forbids = forbids
    asserts = asserts
    judged = judged
    brief = brief
    Jobs = {old, new, lean}
    Baseline = old
    Prefix <- MCPrefix
    Suite <- MCSuite
    Runs <- MCRuns
    Checks <- MCChecks
    Dimension <- MCDimension
    Faults <- MCFaults
    MaxDrop <- MCMaxDrop
INVARIANTS
    MeasuresOwn
    FullyMeasured
    ProfileTrue
    RegressionsNamed
    FewRunsWarned
CHECK_DEADLOCK FALSE
