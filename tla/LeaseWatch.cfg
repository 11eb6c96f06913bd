SPECIFICATION Spec
CONSTANTS
    e1 = e1
    e2 = e2
    Id = {e1, e2}
    Ttl <- MCTtl
    Unknown = Unknown
    MaxTime = 3
    MaxVersion = 2
    MaxFaults = 1
CHECK_DEADLOCK FALSE
INVARIANT TypeOK
INVARIANT TimerCoversLeases
PROPERTY ViewCatchesUp
