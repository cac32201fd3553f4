CONSTANTS
    lib = lib
    doc = doc
    Nobody = Nobody
    Articles = {lib, doc}
    Workers = {w1}
    Editors = {e1}
    Imports <- CyclicImports
    Broken <- DocBroken
    Flaky = FALSE
    CliStates = {TRUE}
    Ops = {"create", "update", "delete", "recompile", "view", "retag"}
    Impatient = TRUE
    Seeded = {lib}
    FirstWarmUp = FALSE
    Failing = {"clear", "look"}
    MaxAttempts = 3
    MaxRevision = 2
    MaxRequests = 3
    MaxCrashes = 0
SPECIFICATION Spec
INVARIANTS
    PublishedSound
PROPERTIES
    Publishes
CHECK_DEADLOCK FALSE
