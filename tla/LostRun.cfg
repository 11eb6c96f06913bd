SPECIFICATION Spec
CONSTANTS
    n1 = n1
    n2 = n2
    s1 = s1
    s2 = s2
    Node = {n1}
    Subject = {s1, s2}
    Whole = Whole
    DayLength = 3
    Interval = 1
    QueuedLease = 1
    RunningLease = 1
    HandlerTimeout = 0
    BaseRetryDelay = 1
    MaxRetryDelay = 1
    MaxLadderSteps = 2
    PruneAge = 6
    KeepEndedRuns = 1
    IdOf <- MCIdOf
    BoundedAttempts = 1
    Legacy = FALSE
    MaxTime = 5
    MaxRuns = 2
    MaxFaults = 1
PROPERTY LostRunsEnd
