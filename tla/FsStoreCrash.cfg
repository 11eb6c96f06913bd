CONSTANTS
    one = one
    third = third
    other = other
    content = content
    draft = draft
    note = note
    task = task
    Id = {one, third, other}
    Face <- MCFace
    Implicit = content
    Type = {note}
    Fold <- MCNoFold
    RenameTo <- MCRenameTo
    MaxFiles = 3
    MaxEdges = 1
    MaxMarks = 2
    MaxFaults = 0
    MaxInFlight = 0
SPECIFICATION Spec
SYMMETRY MCSymmetry
INVARIANT TypeOK
INVARIANT ReopenAgrees
INVARIANT EdgesHaveEnds
