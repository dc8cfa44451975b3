CONSTANTS
    Coroutine = {c1, c2, c3, c4}
    Kind = {"semaphore", "mutex", "rw_lock", "barrier", "event", "auto_event", "latch"}
    Permits = 2
    Expected = 3
    Count = 2
    Reclaim = {"parked", "woken"}
    Droppable = {"mutex", "rw_lock", "barrier", "event", "auto_event", "latch"}
SPECIFICATION Spec
INVARIANTS  HandlesAreLive 
PROPERTIES SignalSurvivesReclaim WaitersAreServed
CHECK_DEADLOCK FALSE
