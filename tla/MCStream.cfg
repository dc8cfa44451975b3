CONSTANTS
    e1 = e1
    e2 = e2
    e3 = e3
    e4 = e4
    e5 = e5
    e6 = e6
    e7 = e7
    NbCore = 2
    Event = {e1, e2, e3, e4, e5, e6, e7}
    source <- StreamSource
    dest <- StreamDest
    call <- StreamCall
    bucket_size <- StreamWidth
    qos <- StreamQos
    MaxRingEvents = 2
    MaxCreated = 3
    MaxHops <- NoRelay
    MayThrow = FALSE
SPECIFICATION Spec
CONSTRAINT OneOther
INVARIANTS EventsAccountedFor PushesArriveInOrder
PROPERTIES GuaranteedUnlessDead
CHECK_DEADLOCK FALSE
