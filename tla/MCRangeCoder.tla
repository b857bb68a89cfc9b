----------------------------- MODULE MCRangeCoder -----------------------------
(* Words of three bytes of four values, probabilities in eighths: the      *)
(* extremes, which are clamped, a small, an even and a large one.          *)
EXTENDS RangeCoder
=============================================================================
