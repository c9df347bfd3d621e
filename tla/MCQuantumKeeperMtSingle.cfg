SPECIFICATION FairSpec
CONSTANTS
    NumClients = 1
    Quantum = 1
    FreeStep = 1
    Increments = {1, 2}
    Durations = {0, 1}
    Events = {1}
    Tasking = {1}
    Finishing = {1}
    ChannelSize = 2
    MaxTime = 2
PROPERTY SyncEnds
PROPERTY TasksComplete
PROPERTY KernelNotStuck
CHECK_DEADLOCK FALSE
