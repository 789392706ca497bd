SPECIFICATION MCFairSpec
CONSTANTS
    Producers = {p1, p2}
    Owner = p1
    MaxMessages = 3
    Modes = {"async", "blocking", "sync"}
    SpuriousWakeups = TRUE
    SendsDuringShutdown = FALSE
    MaxSends = 3
    MaxInits = 2
    Worker = worker
    Free = free
INVARIANT TypeOK
INVARIANT NothingIsLost
INVARIANT NoLostWakeup
PROPERTY Fifo
PROPERTY Progress
