SPECIFICATION FairSpec
CONSTANTS
    c1 = c1
    c2 = c2
    k1 = k1
    h1 = h1
    p1 = p1
    p2 = p2
    None = None
    Calls = {c1, c2}
    Keys = {k1}
    KeyOf <- MCKeyOf
    HashOf <- MCHashOf
    Hashes = {h1}
    Peers = {p1, p2}
    Fanout = 1
    Satisfied = 2
INVARIANTS
    TypeOK
    OneFetchPerHash
    JoinersHaveLeader
    AskedOnce
PROPERTIES
    GetsSettle
    KeepsPromise
CHECK_DEADLOCK FALSE
