SPECIFICATION FairSpec
CONSTANTS
    s1 = s1
    s2 = s2
    p1 = p1
    p2 = p2
    p3 = p3
    g1 = g1
    h1 = h1
    WriteServers = {s1, s2}
    ReadServers = {s1, s2}
    First = s1
    Puts = {p1, p2, p3}
    Gets = {g1}
    Hashes = {h1}
    HashOf <- MCHashOf
    Large = {h1}
    MaxAttempts = 2
    MaxFaults = 2
INVARIANTS
    AnswersAreTrue
PROPERTIES
    PutsSettle
    RetriesFind
CHECK_DEADLOCK FALSE
