----------------------------- MODULE MCKvLease -----------------------------
\* Small instances of KvLease for TLC.
EXTENDS KvLeaseContract, TLC

CONSTANTS e1, e2, k1, k2, h1, h2, busy, done

MCTtl == {1, 2}
MCSymmetry == Permutations({e1, e2}) \cup Permutations({k1, k2})
                \cup Permutations({h1, h2}) \cup Permutations({busy, done})

=============================================================================
