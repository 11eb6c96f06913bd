SPECIFICATION Spec
CONSTANTS
    a = a
    b = b
    c = c
    content = content
    note = note
    alice = alice
    bob = bob
    Nobody = Nobody
    Id = {a, b, c}
    Face = {content}
    Implicit = content
    Type = {note}
    Fold <- MCFold
    RenameTo <- MCRenameTo
    Rank <- MCRank
    User = {alice}
    Delay = 1
    CoMark = 0
    MaxTime = 3
    MaxEdges = 2
    MaxFaults = 0
INVARIANT OwnershipHolds
