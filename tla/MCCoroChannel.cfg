CONSTANTS
    k1 = k1
    k2 = k2
    s1 = s1
    s2 = s2
    s3 = s3
    Channel = {k1, k2}
    Sender = {s1, s2, s3}
    Receiver = {r}
    Dest <- Two
    Capacity <- Sizes
    MaxSends <- Sends
    MaxWaits <- Waits
    Reclaim = {"parked", "woken receiver"}
    Stale = Stale
SPECIFICATION ChannelSpec
INVARIANTS NothingLost 
PROPERTIES SenderOrder 
CHECK_DEADLOCK FALSE
