CONSTANTS
    Articles = {a1}
    NoPage = none
    Pages = {a1}
    Clients = {f1}
    Titles = {t1}
    Users = {u1, u2}
    Admins = {u2}
    Slots = {s1, s2}
    MaxRequests = 3
    MaxTime = 2
    Calls = {"comment", "rate", "unrate", "update", "restore", "delete", "create", "compile", "render", "get", "open", "reply", "close"}
SPECIFICATION Spec
INVARIANTS
    RepliesCounted
    RemarksBelong
    PagesFollow
    NotModifiedHolds
CHECK_DEADLOCK FALSE
