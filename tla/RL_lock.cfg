\* Nested calls may leave a thread waiting for itself (see RL_self_deadlock):
\* the system may stop, and the properties hold all the same.
SPECIFICATION FairSpec
CONSTANTS
    Threads = {t1, t2, t3}
    NoThread = NoThread
    Width = 4
    MaxDepth = 2
    MaxTickets = 6
CHECK_DEADLOCK FALSE
INVARIANT MutualExclusion
INVARIANT LockWordsAreSound
PROPERTY FirstComeFirstServed
PROPERTY EveryWaiterEnters
