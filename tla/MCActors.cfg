SPECIFICATION Spec
CONSTANTS
    o1 = o1
    o2 = o2
    o3 = o3
    None = None
    Obj = {o1, o2, o3}
    Service = {}
    MaxId = 2
    NbService = 0
    Initial = {o1}
    Outcomes = {"true", "false"}
    CoroKill = FALSE
    Aware = TRUE
    StashCap = 2
    MaxEvents = 3
SYMMETRY Perms
INVARIANTS   StashKeepsOrder
CHECK_DEADLOCK FALSE
