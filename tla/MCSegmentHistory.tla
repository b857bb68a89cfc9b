------------------------- MODULE MCSegmentHistory -------------------------
(* A segment of two sections, of two grids each, with tile entities at two *)
(* positions.  The slices hold none, one or two tile entities, the last of *)
(* them two at the same position.                                          *)
EXTENDS SegmentHistory

CONSTANTS a, b, p, q

MCUpdates == [1..2 -> {a, b}] \cup [1..1 -> {a, b}]

At(position, entity) == [pos |-> position, te |-> entity]

MCSlices == {<<>>, <<At(p, a)>>, <<At(q, a)>>, <<At(p, b), At(q, a)>>,
             <<At(p, a), At(p, b)>>}

MCTimes == 1..4
=============================================================================
