SPECIFICATION Spec
CONSTANTS
    Lockers = {l1, l2, l3, l4}
    RawUsers = {}
    InitCapacity = 2
    Resizes = {}
    Priorities = {0}
    MaxDebt = 0
    MaxValue = 2
INVARIANT BlocksOnlyIfUnavailable
