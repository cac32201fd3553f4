CONSTANTS
    root = root
    ann = ann
    bob = bob
    b1 = b1
    b2 = b2
    Names = {root, ann, bob}
    Root = root
    NoName = noName
    Staff <- MCStaff
    SignedIn <- MCSignedIn
    Browsers = {b1, b2}
    Slots = {s1, s2}
    Passkeys = {k1}
    KeyPrefix <- MCKeyPrefix
    MaxKeys = 1
    MaxIds = 3
    MaxPasswords = 4
    MaxRequests = 4
    SessionMaxAge = 1
    MaxFailuresPerUserIP = 1
    MaxFailuresPerIP = 3
    WindowSeconds = 2
    LockoutThreshold = 3
    LockoutDuration = 1
    Calls = {"read", "create", "role", "delete", "kick", "force", "immediate", "password", "profile", "newkey", "delkey"}
    MaxTime = 2
SPECIFICATION Spec
INVARIANTS
    OwnerRemains
    RolesAsGranted
    KicksHold
SYMMETRY SlotSymmetry
CHECK_DEADLOCK FALSE
