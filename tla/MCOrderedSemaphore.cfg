SPECIFICATION FairSpec
CONSTANTS
    Lockers = {l1, l2, l3}
    RawUsers = {r1}
    InitCapacity = 2
    Resizes = {1, 2, 3}
    Priorities = {0, 1}
    MaxDebt = 2
    MaxValue = 3
INVARIANT TypeOK
INVARIANT QueueDiscipline
INVARIANT NeverOverfull
INVARIANT FreeSemaphoreServes
PROPERTY GrantInOrder
PROPERTY LocksAccounted
PROPERTY LockServed
CHECK_DEADLOCK FALSE
