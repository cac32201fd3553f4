CONSTANTS
    nav = nav
    page = page
    Articles = {nav, page}
    Includes <- TurningIncludes
    Handlers = {h1, h2}
    Ops = {"create", "update", "retitle", "retag", "tags", "delete", "view", "warm"}
    Impatient = TRUE
    Seeded = {nav}
    MaxRevision = 2
    MaxRequests = 3
    MaxCrashes = 1
SPECIFICATION FairSpec
INVARIANTS
    
    
    PagesOfAPiece
    DeletedLeavesNothing
PROPERTIES
    HandlersEnd
CHECK_DEADLOCK FALSE
