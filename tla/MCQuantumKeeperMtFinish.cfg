SPECIFICATION FairSpec
CONSTANTS
    NumClients = 2
    Quantum = 1
    FreeStep = 1
    Increments = {2}
    Durations = {0}
    Events = {}
    Tasking = {}
    Finishing = {1}
    ChannelSize = 1
    MaxTime = 2
PROPERTY SyncCompletes
