CONSTANTS
    mine = mine
    Home = home
    Pages = {home}
    Clients = {f1}
    Sunset = sunset
    Custom = {mine}
    Contents = {c1}
    People = {boss, reader}
    Managers = {boss}
    Slots = {s1, s2}
    Forms <- MCForms
    Mixes <- MCMixes
    MaxRequests = 3
    MaxCrashes = 1
SPECIFICATION Spec
INVARIANTS
    
    
    RecordsHaveFiles
    HomeFollows
SYMMETRY SlotSymmetry
CHECK_DEADLOCK FALSE
