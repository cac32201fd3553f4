CONSTANTS
    lib = lib
    doc = doc
    Nobody = Nobody
    Articles = {lib, doc}
    Workers = {w1}
    Editors = {e1}
    Imports <- CyclicImports
    Broken <- NothingBroken
    Flaky = TRUE
    CliStates = {TRUE, FALSE}
    Ops = {"update"}
    Impatient = FALSE
    Seeded = {lib, doc}
    FirstWarmUp = FALSE
    Failing = {"store", "warm"}
    MaxAttempts = 2
    MaxRevision = 2
    MaxRequests = 1
    MaxCrashes = 1
SPECIFICATION FairSpec
INVARIANTS
    CompilingOwned
PROPERTIES
    Quiesces
CHECK_DEADLOCK FALSE
