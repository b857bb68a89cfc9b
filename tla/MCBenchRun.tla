---------------------------- MODULE MCBenchRun ----------------------------
(* Files on either side of each of the limits of the pool, and one for     *)
(* each way a file can fail.                                               *)
EXTENDS BenchRun

File(name, size, kind) ==
  [name |-> name, bytes |-> 1, voxels |-> size, readable |-> TRUE,
   frame |-> [kind |-> kind, size |-> size, all |-> size],
   well_formed |-> TRUE, slices |-> TRUE, encodes |-> TRUE, faithful |-> TRUE,
   encoded |-> [bytes |-> 1, size |-> size, decodes |-> TRUE, slices |-> TRUE,
                modeled |-> TRUE]]

Whole(name) == File(name, 2, "sized")
Large(name) == [File(name, 4, "sized") EXCEPT !.encoded.bytes = 2, !.encoded.size = 3]
Small(name) == File(name, 1, "sized")
Older(name) == [File(name, 2, "unsized") EXCEPT !.encoded.modeled = FALSE]

(* Its first frame has two bytes; a buffer of four has room for all three. *)
Joined(name) == [File(name, 2, "several") EXCEPT !.slices = FALSE, !.frame.all = 3]

MCDirectories ==
  {<<Large("a"), Joined("b"), [Whole("c") EXCEPT !.readable = FALSE]>>,
   <<[Whole("a") EXCEPT !.faithful = FALSE], Older("b")>>,
   <<[Whole("a") EXCEPT !.well_formed = FALSE], Small("b")>>,
   <<File("a", 2, "damaged"), [Large("b") EXCEPT !.encoded.decodes = FALSE]>>,
   <<[Whole("a") EXCEPT !.encodes = FALSE], Whole("b")>>}
=============================================================================
