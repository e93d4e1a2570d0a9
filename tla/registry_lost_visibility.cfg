SPECIFICATION Spec
CONSTANTS
    h1 = h1
    h2 = h2
    c1 = c1
    s1 = s1
    s2 = s2
    None = None
    Hashes = {h1, h2}
    ContentKeys = {c1}
    KeysFor <- MCKeysFor
    Labels = {}
    Offered <- VisibilityOffered
    Accounts = {"alice"}
    TreeNames = {"docs"}
    TreeKeys <- MCTreeKeys
    Slots = {s1, s2}
    MaxTime = 1
    MaxWrites = 2
    MaxReloads = 1
    SlowStart = FALSE
    QuotaErrors = FALSE
SYMMETRY Symmetry
PROPERTIES
    CleanVisibilityWasPublished
CHECK_DEADLOCK FALSE
