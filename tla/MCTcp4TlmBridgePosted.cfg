SPECIFICATION FairSpec
CONSTANTS
    Workloads = {{"cli"}}
    Ops = {"read", "write", "posted"}
    Failing = {"posted"}
    SrvLatencies = {0}
    CliLatencies = {0, 1}
    FirstAccess = 1
    SyncPeriod = 2
    StampQueue = 3
    MaxAccesses = 2
    MaxTime = 3
INVARIANT ResponseBelongs
CHECK_DEADLOCK FALSE
