SPECIFICATION Spec
CONSTANTS
    Count = 3
    Strategies = {"one_for_one", "one_for_all", "rest_for_one"}
    MaxRestarts = 2
    Window = TRUE
    MaxStops = 3
INVARIANTS SlotsAreServed
PROPERTIES NoOrphans
CHECK_DEADLOCK FALSE
