CONSTANTS
    lib = lib
    doc = doc
    Nobody = Nobody
    Articles = {lib, doc}
    Workers = {w1, w2}
    Editors = {e1}
    Imports <- ChainImports
    Broken <- NothingBroken
    Flaky = FALSE
    CliStates = {TRUE}
    Ops = {"update", "delete"}
    Impatient = TRUE
    Seeded = {lib, doc}
    FirstWarmUp = FALSE
    Failing = {"commit", "clear", "link", "hook", "succeed", "fail", "reload",
               "invalidate", "drop", "requeue", "walk", "enqueue", "sweep"}
    MaxAttempts = 3
    MaxRevision = 2
    MaxRequests = 1
    MaxCrashes = 0
SPECIFICATION Spec
INVARIANTS
    CompilingOwned
    StaleOnlyIfDisturbed
    DeletedLeavesNothing
SYMMETRY Symm
CHECK_DEADLOCK FALSE
