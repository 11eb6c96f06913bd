--------------------------- MODULE FsStoreContract ---------------------------
(***************************************************************************)
(* Between an open and a crash, and without I/O faults (MaxFaults = 0),    *)
(* the file store is the memory store: every operation changes its index   *)
(* and its marks as the same operation of MemStore changes the maps, or    *)
(* leaves them alone.  So the in-memory store that the tests of other      *)
(* packages run on answers as the store they ship with.                    *)
(***************************************************************************)
EXTENDS FsStore

\* A running store: the operations, without a crash or a reopen.
Running == Init /\ [][EntityStep \/ RelationStep \/ SoftDeleteStep]_vars

\* The index and the marks as the maps of the memory store.
Index == [live |-> live, edges |-> edges, at |-> markedAt,
          ents |-> famEnts, rels |-> famEdges]

Memory == INSTANCE MemStore WITH maps <- Index

\* The two backends agree on what every call does, whatever came before it
\* (BUG-3RCWNS: "the backends must agree on identity", memstore.go): faces,
\* incident and hidden edges, and which mark holds an edge.
ImplementsMemStore == Memory!Spec

=============================================================================
