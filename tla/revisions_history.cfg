CONSTANTS
    one = one
    two = two
    three = three
    Nothing = Nothing
    Articles = {a1}
    Writers = {w1, w2}
    Contents = {one, two, three}
    Titles = {t1, t2}
    Bulky <- BulkyRewrite
    SnapshotEveryN = 4
    Connections = 2
    Ops = {"create", "update", "restore", "delete"}
    MaxSeq = 3
SPECIFICATION FairSpec
INVARIANTS
    ChainLinked
    SeqsNeverCollide
    HistoryRebuilds
    ShortRebuilds
    RestoresTheTarget
PROPERTIES
    KeepsVersions
    Served
