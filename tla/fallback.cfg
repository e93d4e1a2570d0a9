SPECIFICATION FairSpec
CONSTANTS
    c1 = c1
    c2 = c2
    h1 = h1
    f1 = f1
    f2 = f2
    None = None
    Calls = {c1, c2}
    Hashes = {h1}
    HashOf <- MCHashOf
    Fallbacks = {f1, f2}
INVARIANT TypeOK
PROPERTIES
    GetsSettle
    LateDataIsCached
CHECK_DEADLOCK FALSE
