CONSTANTS
    Producers = {p1, p2}
    Owner = p1
    MaxMessages = 3
    Modes = {"async", "sync"}
    SpuriousWakeups = FALSE
    SendsDuringShutdown = TRUE
    MaxSends = 2
    MaxInits = 2
    Worker = worker
    Free = free
SPECIFICATION MCSpec
INVARIANT DrainedOnExit
