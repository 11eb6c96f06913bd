SPECIFICATION Safe
CONSTANTS
    n1 = n1
    n2 = n2
    s1 = s1
    s2 = s2
    Node = {n1, n2}
    Subject = {s1, s2}
    Whole = Whole
    DayLength = 1
    Interval = 1
    QueuedLease = 1
    RunningLease = 1
    HandlerTimeout = 0
    BaseRetryDelay = 1
    MaxRetryDelay = 1
    MaxLadderSteps = 2
    PruneAge = 2
    KeepEndedRuns = 2
    IdOf <- MCIdOf
    BoundedAttempts = 2
    Legacy = FALSE
    MaxTime = 5
    MaxRuns = 2
    MaxFaults = 1
SYMMETRY MCSymmetry
INVARIANTS TypeOK OneActiveRun WorkersOwnTheirRun NoOverlap RunsEndTruthfully SuccessCounts LadderHasCause
PROPERTIES CreatedWhenDue ServedOnce
