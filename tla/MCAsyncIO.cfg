CONSTANTS
    c1 = c1
    c2 = c2
    c3 = c3
    None = None
    Conn = {c1, c2, c3}
    SndBuf = 1
    Mode <- Modes
    HasDeadline <- Deadlines
    MaxRounds = 1
    Script <- Scripts
    MaxSessions = 1
    MaxMessage = 3
    Bucket = 2
    MaxRead = 4
    MaxWrite = 3
    ReplySize = 2
    MaxPublished <- Published
SPECIFICATION IOSpec
CONSTRAINT Alone
INVARIANTS SessionsAreServed  ConnectAnswersOnce
 
CHECK_DEADLOCK FALSE
