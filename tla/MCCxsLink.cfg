CONSTANTS
    Sizes = {1, 5, 20}
    BucketSize = 2
    Buckets = 4
    UInt = 32
    SizeT = 64
    MaxCredit = 3
    BurstLen = 2
    MaxPackets = 4
    MaxResets = 1
SPECIFICATION FairSpec
INVARIANTS CreditsConserved DeliveredInOrder
PROPERTY PacketArrives
CHECK_DEADLOCK FALSE
