SPECIFICATION FairSpec
CONSTANTS
    Values = {v1, v2}
    Capacity = 3
    Raw = Raw
INVARIANT TypeOK
INVARIANT NoClash
PROPERTY FrontAfterSize
PROPERTY ImplementsFifo
PROPERTY PushCompletes
