SPECIFICATION Spec
CONSTANTS
    a = a
    b = b
    v1 = v1
    v2 = v2
    None = None
    Holders = {a, b}
    Keys = {1, 2, 3, 4, 5, 6}
    Values = {v1, v2}
    Collate <- MCCollate
    MaxKeys = 2
    MaxJobs = 1
    MaxDepth = 3
    Offers <- MCOffers
    Room <- MCRoom
INVARIANTS
    NodesOK
    RangesFind
PROPERTIES
    KeepsDictionary
CHECK_DEADLOCK FALSE
