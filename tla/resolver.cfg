SPECIFICATION FairSpec
CONSTANTS
    w = w
    r = r
    Devices <- MCDevices
    Writers = {w}
    Stoppers = {r}
    Skew <- MCSkew
    Roots = {"r1"}
    Window = 2
    MaxTime = 3
    MaxEvents = 2
PROPERTIES
    ViewsNeverGoBack
    SubscribersCatchUp
    ListsCatchUpOrDelete
CHECK_DEADLOCK FALSE
