CONSTANTS
    one = one
    third = third
    other = other
    content = content
    draft = draft
    note = note
    task = task
    Id = {one, other}
    Face <- MCFace
    Implicit = content
    Type = {note}
    Fold <- MCNoFold
    RenameTo <- MCRenameTo
    MaxFiles = 2
    MaxEdges = 1
    MaxMarks = 1
    MaxFaults = 0
    MaxInFlight = 0
SPECIFICATION Spec
INVARIANT LiveNeverListed
