CONSTANTS
    N = 3
    Need = 2
    Mode = {"when_all", "when_any", "timeout", "cancellable", "sleep", "join_all", "join_any", "join_all_for", "quorum"}
    Suspends <- MCSuspends
    ResetWhen = "idle"
SPECIFICATION TasksSpec
INVARIANTS FramesAreTracked OutcomeIsTrue
PROPERTIES EverythingEnds
CHECK_DEADLOCK FALSE
