----------------------------- MODULE MCGridCoder -----------------------------
(* Two by two segments of two sections, three cells along each side: every *)
(* kind of border between cells occurs, and the fast path.                 *)
EXTENDS GridCoder

Uniformly(atom) == [cell \in Cells |-> atom]

(* Layers, stripes and scattered atoms *)
Layers == [cell \in Cells |-> IF cell < 9 THEN 4 ELSE 0]
Stripes == [cell \in Cells |-> IF cell % 3 = 1 THEN 4 ELSE 2]
Scattered == [cell \in Cells |-> (((cell * cell) \div 5) + cell) % 5]
Mostly == [cell \in Cells |-> IF cell = 26 THEN 4 ELSE 2]
Others == [cell \in Cells |-> 6 + (((cell * 7) \div 4) % 3)]

Kind(k) ==
  CASE k = 0 -> Absent
    [] k = 1 -> Uniformly(2)
    [] k = 2 -> Layers
    [] k = 3 -> Stripes
    [] k = 4 -> Scattered
    [] k = 5 -> Others
    [] k = 6 -> Mostly

(* Different neighbours for every kind of section *)
MCRegions ==
  {[section \in Sections |-> Kind(((section * step) + first) % 6)] : step \in {1, 5}, first \in 0..5}
    \cup {[section \in Sections |-> Kind(4 + (section % 2))],
         [section \in Sections |-> Kind(6)]}
=============================================================================
