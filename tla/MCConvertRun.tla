--------------------------- MODULE MCConvertRun ---------------------------
(* Two sources of the same name in two directories share the output o2;    *)
(* so do two others, of which one cannot be converted, the output o1.      *)
EXTENDS ConvertRun

CONSTANTS s1, s2, s3, s4, o1, o2

MCOutputOf == [s \in {s1, s2, s3, s4} |-> IF s \in {s1, s4} THEN o1 ELSE o2]
=============================================================================
