----------------------------- MODULE MCFsStore -----------------------------
(***************************************************************************)
(* FsStore for TLC: ids that are not case variants of each other, renames  *)
(* to any other id.                                                        *)
(***************************************************************************)
EXTENDS FsStoreContract, TLC

CONSTANTS one, third, other, content, draft, note, task

MCFace == {content, draft}
MCNoFold == [i \in Id |-> i]
MCRenameTo == [i \in Id |-> Id \ {i}]

\* The ids are interchangeable, and so are the types.
MCSymmetry == Permutations(Id) \cup Permutations(Type)
=============================================================================
