SPECIFICATION Spec
CONSTANTS
    e1 = e1
    e2 = e2
    k1 = k1
    k2 = k2
    h1 = h1
    h2 = h2
    busy = busy
    done = done
    Id = {e1, e2}
    Identity = {k1, k2}
    Hash = {h1, h2}
    Status = {busy, done}
    NoLease = NoLease
    Ttl <- MCTtl
    MaxPerStore = 2
    MaxPerIdentity = 1
    MaxTime = 2
    MaxVersion = 6
    MaxFaults = 2
SYMMETRY MCSymmetry
INVARIANTS TypeOK VersionAboveTokens CapsHold
PROPERTIES TokensIncrease VersionGrows LiveLeaseStays ChangesMoveVersion ImplementsLeaseTable
