CONSTANTS
    one = one
    third = third
    other = other
    content = content
    draft = draft
    note = note
    task = task
    Id = {one, third, other}
    Face = {content}
    Implicit = content
    Type = {note}
    Fold <- MCNoFold
    RenameTo <- MCRenameTo
    MaxFiles = 3
    MaxEdges = 3
    MaxMarks = 3
    MaxFaults = 0
    MaxInFlight = 0
SPECIFICATION Spec
SYMMETRY MCSymmetry
INVARIANT HeldByFirstMark
INVARIANT LiveEdgesAvoidMarks
