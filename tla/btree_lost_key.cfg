SPECIFICATION Spec
CONSTANTS
    a = a
    b = b
    v1 = v1
    v2 = v2
    None = None
    Holders = {a}
    Keys = {1, 2, 3, 4, 5, 6, 7, 8, 9, 10}
    Values = {v1, v2}
    Collate <- SameCollate
    MaxKeys = 2
    MaxJobs = 1
    MaxDepth = 5
    Offers <- MCOffers
    Room <- LostKeyRoom
INVARIANTS
    EntriesAreFound
CHECK_DEADLOCK FALSE
