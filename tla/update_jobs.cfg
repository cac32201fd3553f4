CONSTANTS
    Nothing = Nothing
    Versions = {v1, v2}
    Installed = v1
    Size = 3
    Files = {f1, f2, f3, f4, f5, f6, f7}
    Handlers = {h1}
    MaxDownloadRetries = 3
    MaxRequests = 3
    MaxPrev = 3
    MaxCrashes = 2
SPECIFICATION FairSpec
INVARIANTS
    InstalledWhole
    Bootable
    RunningKept
PROPERTIES
    UpdateEnds
CHECK_DEADLOCK FALSE
