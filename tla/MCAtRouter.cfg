CONSTANTS
    N = 2
    Blocking = {0}
    Targets = {"t1", "t2"}
    Payloads = {1, 2, 3}
    Accesses <- MCAccesses
    Hub = hub
    Hole = "hole"
    None = none
SPECIFICATION FairSpec
INVARIANTS TypeOK AnsweredOnceToOwner UnusedAfterReturn BoundedBypass ResponseExclusion
PROPERTY Drains
CHECK_DEADLOCK FALSE
