CONSTANTS
    e1 = e1
    e2 = e2
    e3 = e3
    e4 = e4
    e5 = e5
    e6 = e6
    e7 = e7
    NbCore = 2
    Event = {e1, e2, e3}
    source <- CrossSource
    dest <- CrossDest
    call <- AllPush
    bucket_size <- CrossWidth
    qos <- AllGuaranteed
    MaxRingEvents = 2
    MaxCreated = 3
    MaxHops <- RelayE3
    MayThrow = TRUE
SPECIFICATION Spec
INVARIANTS EventsAccountedFor
PROPERTIES StopTerminates EventsSettle
CHECK_DEADLOCK FALSE
