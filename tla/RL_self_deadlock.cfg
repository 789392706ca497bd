\* What the thread waits for never comes, and the bound on tickets ends a run.
SPECIFICATION Spec
CONSTANTS
    Threads = {t1, t2}
    NoThread = NoThread
    Width = 4
    MaxDepth = 2
    MaxTickets = 3
CHECK_DEADLOCK FALSE
INVARIANT NoSelfDeadlock
