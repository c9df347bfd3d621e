CONSTANTS
    AddressSpace = 6
    Targets = {t1, t2, t3}
    Sizes = {1, 2, 3, 5}
    Bases = {0, 2}
    NoTarget = none
    MaxRanges = 3
SPECIFICATION Spec
INVARIANTS DecodesToOwner DmiMatchesRoute
CHECK_DEADLOCK FALSE
