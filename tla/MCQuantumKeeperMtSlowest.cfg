SPECIFICATION Spec
CONSTANTS
    NumClients = 2
    Quantum = 1
    FreeStep = 1
    Increments = {1}
    Durations = {0}
    Events = {}
    Tasking = {}
    Finishing = {}
    ChannelSize = 1
    MaxTime = 1
INVARIANT SystemCSlowest
