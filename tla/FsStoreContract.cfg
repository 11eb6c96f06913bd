CONSTANTS
    one = one
    third = third
    other = other
    content = content
    draft = draft
    note = note
    task = task
    Id = {one, other, third}
    Face <- MCFace
    Implicit = content
    Type = {note, task}
    Fold <- MCNoFold
    RenameTo <- MCRenameTo
    MaxFiles = 3
    MaxEdges = 1
    MaxMarks = 2
    MaxFaults = 0
    MaxInFlight = 1
SPECIFICATION Running
SYMMETRY MCSymmetry
PROPERTY ImplementsMemStore
PROPERTY OnlyPurgeTakesHidden
PROPERTY OnlyStaleChecksReachMarks
