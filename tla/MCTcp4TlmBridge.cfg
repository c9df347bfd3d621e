SPECIFICATION FairSpec
CONSTANTS
    Workloads = {{"cli"}, {"srv"}, {"cli", "srv"}}
    Ops = {"read", "posted"}
    Failing = {"read"}
    SrvLatencies = {0, 1}
    CliLatencies = {0, 1}
    FirstAccess = 1
    SyncPeriod = 1
    StampQueue = 1
    MaxAccesses = 3
    MaxTime = 2
INVARIANT TypeOK
INVARIANT OneTaskAtATime
INVARIANT ResponseBelongs
INVARIANT ServerNotAhead
PROPERTY ExecutedOnTime
PROPERTY AccessCompletes
PROPERTY HandshakeCompletes
PROPERTY ShutdownArrives
CHECK_DEADLOCK FALSE
