SPECIFICATION FairSpec
CONSTANTS
    small = small
    large = large
    c1 = c1
    c2 = c2
    None = None
    Hashes = {small, large}
    Calls = {c1, c2}
    FragmentsOf <- MCFragmentsOf
    TheirRequestsSize = 1
    MaxPendingReassemblies = 0
    MaxStored = 1
INVARIANTS
    TypeOK
    TimerPerRequest
    OwnCallKnown
    JoinedCallGetsData
    TheirRequestsBounded
PROPERTIES
    RememberedUntilAnswered
    OwnCallSettles
    KeepsPromise
CHECK_DEADLOCK FALSE
