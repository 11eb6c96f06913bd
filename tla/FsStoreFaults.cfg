CONSTANTS
    one = one
    third = third
    other = other
    content = content
    draft = draft
    note = note
    task = task
    Id = {one, other}
    Face <- MCFace
    Implicit = content
    Type = {note, task}
    Fold <- MCNoFold
    RenameTo <- MCRenameTo
    MaxFiles = 2
    MaxEdges = 1
    MaxMarks = 2
    MaxFaults = 1
    MaxInFlight = 0
SPECIFICATION Spec
SYMMETRY MCSymmetry
INVARIANT LiveXorMarked
INVARIANT MarksAreListed
PROPERTY MarkEndsWhole
PROPERTY RenameKeepsFaces
