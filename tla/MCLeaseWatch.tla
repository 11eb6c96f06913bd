---------------------------- MODULE MCLeaseWatch ----------------------------
\* LeaseWatch for TLC: leases of two lifetimes, so that a renewal can shorten one.
EXTENDS LeaseWatch

CONSTANTS e1, e2

MCTtl == {1, 2}

=============================================================================
