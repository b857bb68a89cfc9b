-------------------------- MODULE SectionHistory --------------------------
(***************************************************************************)
(* What the delta storage of a region promises, with none of its           *)
(* representation: every section has a history, a list of full snapshots,  *)
(* newest first.  A history only changes by recording a newer, different   *)
(* snapshot, by being overwritten with another section's history, or by a  *)
(* reload that forgets its oldest snapshots.                               *)
(***************************************************************************)
EXTENDS Integers, Sequences

CONSTANTS Sections, Cells, Atoms, Times

VARIABLE history

Grids == [Cells -> Atoms]

Snapshots == [timestamp: Times, grid: Grids]

Newest(s) == history[s][1]

Init == history = [s \in Sections |-> <<>>]

(***************************************************************************)
(* A snapshot is recorded only if it is newer than the newest one and      *)
(* differs from it, and then every older snapshot is still there.          *)
(***************************************************************************)
Record(s) ==
  /\ Len(history'[s]) = Len(history[s]) + 1
  /\ history' = [history EXCEPT ![s] = <<history'[s][1]>> \o @]
  /\ history'[s][1] \in Snapshots
  /\ history[s] # <<>> => /\ history'[s][1].timestamp > Newest(s).timestamp
                          /\ history'[s][1].grid # Newest(s).grid

CopyFrom(s, other) == history' = [history EXCEPT ![s] = history[other]]

(***************************************************************************)
(* A reload keeps the newest snapshots of every section, the same bound    *)
(* for all; a section with fewer keeps them all.                           *)
(***************************************************************************)
Forget(kept) ==
  history' = [s \in Sections |->
                SubSeq(history[s], 1,
                       IF kept < Len(history[s]) THEN kept ELSE Len(history[s]))]

Next ==
  \/ \E s \in Sections : Record(s)
  \/ \E s, other \in Sections : CopyFrom(s, other)
  \/ \E s \in Sections : \E kept \in 0..Len(history[s]) : Forget(kept)

Spec == Init /\ [][Next]_history

=============================================================================
