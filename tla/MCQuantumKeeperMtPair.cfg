SPECIFICATION Spec
CONSTANTS
    NumClients = 2
    Quantum = 1
    FreeStep = 1
    Increments = {1}
    Durations = {0, 1}
    Events = {1}
    Tasking = {1}
    Finishing = {2}
    ChannelSize = 2
    MaxTime = 1
INVARIANT TypeOK
INVARIANT NoReportLeftBehind
INVARIANT WindowFollowsSlowest
PROPERTY TaskNeverEarly
CHECK_DEADLOCK FALSE
