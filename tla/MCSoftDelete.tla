---------------------------- MODULE MCSoftDelete ----------------------------
(***************************************************************************)
(* SoftDelete for TLC: entities of one face and one type, ids that are not *)
(* case variants of each other, renames to any other id.                   *)
(***************************************************************************)
EXTENDS SoftDelete, TLC, SequencesExt

CONSTANTS a, b, c, content, note, alice, bob

MCFold == [i \in Id |-> i]
MCRenameTo == [i \in Id |-> Id \ {i}]
MCRank == [i \in Id |-> IF i = a THEN 1 ELSE IF i = b THEN 2 ELSE 3]

-----------------------------------------------------------------------------
(* A transaction over several families is written in one step; here it is  *)
(* compared with the store's methods called one after the other.           *)

Links == {[from |-> a, face |-> content, to |-> b],
          [from |-> a, face |-> content, to |-> c],
          [from |-> b, face |-> content, to |-> c]}

Row(i) == {[id |-> i, face |-> content, type |-> note]}

\* The maps in which the ids of M are marked, and each link is held by the mark
\* of one of its ends, live if neither is marked, or absent.
Placed(M, where) ==
    [live |-> UNION {Row(i) : i \in Id \ M},
     edges |-> {e \in Links : where[e] = "live"},
     at |-> [i \in Id |-> IF i \in M THEN 1 ELSE 0],
     ents |-> [i \in Id |-> IF i \in M THEN Row(i) ELSE {}],
     rels |-> [i \in Id |-> {e \in Links : where[e] = i}]]

SmallMaps ==
    UNION {{Placed(M, where) :
              where \in {w \in [Links -> M \cup {"live", "absent"}] :
                           \A e \in Links : /\ w[e] \in M => On(e, w[e])
                                            /\ w[e] = "live" => Clear(e, M)}} :
            M \in SUBSET Id}

InTurn(op(_, _), g, S) ==
    FoldLeft(op, g, SetToSortSeq(S, LAMBDA i, j : MCRank[i] < MCRank[j]))

ASSUME AllInTurn ==
    \A g \in SmallMaps : \A S \in SUBSET Id :
        /\ WithoutAll(g, S) = InTurn(Without, g, S)
        /\ S \cap MarkedIds(g) = {} =>
             MarkAll(g, S, 2) = InTurn(LAMBDA h, i : Marked(h, i, 2), g, S)
        /\ S \subseteq MarkedIds(g) => UnmarkAll(g, S) = InTurn(Unmarked, g, S)
=============================================================================
