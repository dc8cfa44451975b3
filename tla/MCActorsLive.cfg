SPECIFICATION FairSpec
CONSTANTS
    o1 = o1
    o2 = o2
    None = None
    Obj = {o1, o2}
    Service = {}
    MaxId = 2
    NbService = 0
    Initial = {o1}
    Outcomes = {"true", "false", "suspended"}
    CoroKill = TRUE
    Aware = TRUE
    StashCap = 1
    MaxEvents = 1
PROPERTIES CoreWindsDown ActivationEnds
CHECK_DEADLOCK FALSE
