SPECIFICATION SubscribersFairSpec
CONSTANTS
    None = None
    Hashes = {"h1"}
    ContentKeys = {}
    KeysFor <- NoKeys
    Labels = {}
    Offered <- BareOffered
    Accounts = {"alice"}
    TreeNames = {"docs", "pics"}
    TreeKeys <- AllTrees
    Slots = {1}
    MaxTime = 0
    MaxWrites = 2
    MaxReloads = 1
    SlowStart = FALSE
    QuotaErrors = FALSE
    Listeners = {"view"}
    Callers = {"loader"}
INVARIANTS
    WaitsOnlyForAbsent
PROPERTIES
    DirtyEventuallyPublished
CHECK_DEADLOCK FALSE
