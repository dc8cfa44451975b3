SPECIFICATION Spec
CONSTANTS
    a1 = a1
    a2 = a2
    a3 = a3
    x = x
    y = y
    Actor = {a1, a2, a3}
    Core <- MCCore
    Call = {x, y}
    Plans <- MCPlans
    Destroyable = {"ask", "retry", "stream"}
    Rounds = 2
    Attempts = 2
    Threshold = 1
    CacheCap = 1
    Chunks = 2
    StreamCap = 1
    MaxKills = 1
INVARIANTS RepliesMatch StreamIsWhole EffectsAreOnce
PROPERTIES CallsEnd
CHECK_DEADLOCK FALSE
