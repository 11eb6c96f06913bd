-------------------------- MODULE KvLeaseContract --------------------------
(***************************************************************************)
(* The lease store in one document keeps what its interface promises:      *)
(* KvLease implements LeaseTable.  The table is the document's leases; its *)
(* two values, the damage to either, the load that repairs them and the    *)
(* ways a write ends do not show.                                          *)
(***************************************************************************)
EXTENDS KvLease

Table == INSTANCE LeaseTable
           WITH leases <- doc.leases, issued <- top, forgotten <- exposed

\* "Implementations ... must apply each method atomically" (lease.go): whatever
\* was lost before it and whatever time it carries, a call makes of the leases
\* what the interface says of its method, and nothing else.
ImplementsLeaseTable == Table!Spec

=============================================================================
