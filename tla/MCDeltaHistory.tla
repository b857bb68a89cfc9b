-------------------------- MODULE MCDeltaHistory --------------------------
(* Two sections of two cells, three vectors: one more than the sections,   *)
(* so that a copy always finds a free identity.  Three grids make          *)
(* histories in which either cell, or both, or none changes.               *)
EXTENDS DeltaHistory, TLC

CONSTANTS c1, c2, a, b

MCObserved == {[c \in Cells |-> a], [c \in Cells |-> b], (c1 :> a @@ c2 :> b)}

(* Exchanging the atoms together with the cells maps MCObserved to itself. *)
Exchange == c1 :> c2 @@ c2 :> c1 @@ a :> b @@ b :> a
Same == [x \in {c1, c2, a, b} |-> x]

Symmetry == {p @@ q : p \in Permutations(Arcs), q \in {Same, Exchange}}
=============================================================================
