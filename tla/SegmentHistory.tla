-------------------------- MODULE SegmentHistory --------------------------
(***************************************************************************)
(* The recorded past of one segment (a chunk): region/segment.rs, its      *)
(* tile entities (region/tile_entities.rs), its states                     *)
(* (region/segment_info.rs), the reads they share                          *)
(* (region/delta_sequence.rs, time_utils.rs).                              *)
(*                                                                         *)
(* A recorder observes the segment now and then and hands what it saw to   *)
(* update_sections and to the two insert_snapshots.  The observations may  *)
(* arrive in any order of their timestamps, and one that changes nothing   *)
(* leaves no trace.  A section is taken here for the full snapshots that   *)
(* DeltaHistory is shown to store; tile entities keep their delta form.    *)
(***************************************************************************)
EXTENDS Integers, Sequences, FiniteSets

CONSTANTS
  SectionCount,  \* sections of the segment
  Updates,       \* what update_sections may be given: a grid per section,
                 \* for all the sections or for the first ones only
  Positions,     \* positions of tile entities
  Entities,      \* what a tile entity at a position may be
  Slices,        \* the lists of tile entities the recorder may hand over,
                 \* sequences of [pos, te], a position may occur twice
  Erase,         \* the delta of a position that held no tile entity
  StateTypes,    \* SegmentStateType
  Times,         \* timestamps of observations and of reads
  MaxCalls       \* bound: observations in all

ASSUME ParametersOK ==
  /\ SectionCount \in Nat \ {0}
  /\ \A update \in Updates : Len(update) \in 1..SectionCount
  /\ Slices \subseteq Seq([pos: Positions, te: Entities])
  /\ Erase \notin Entities
  /\ Times \subseteq Int
  /\ MaxCalls \in Nat

Sections == 1..SectionCount

VARIABLES
  sections,        \* section -> full snapshots, newest first
  reverse_deltas,  \* of DeltaTileEntityData: latest list and reverse deltas
  states,          \* of SegmentInfo: newest first
  seen             \* history variable: the observations in their order, of
                   \* every section those that covered it

vars == <<sections, reverse_deltas, states, seen>>

-----------------------------------------------------------------------------
(* Reading: the loops of the three snapshot_before, and find_nearest       *)

(* Where a search for time t stops: at the first snapshot not newer than   *)
(* t, or at the oldest.                                                    *)
StopsAt(history, t) ==
  CHOOSE k \in DOMAIN history :
    /\ history[k].timestamp <= t \/ k = Len(history)
    /\ \A j \in 1..(k - 1) : history[j].timestamp > t

DistanceMutant(t, u) == u - t

Distance(t, u) == IF t < u THEN u - t ELSE t - u

(* The timestamp nearest to t, the newer of two that are equally near; t   *)
(* itself if there is none.                                                *)
FindNearestTimestamp(history, t) ==
  IF history = <<>>
  THEN t
  ELSE LET distance(k) == Distance(t, history[k].timestamp)
           nearest == CHOOSE k \in DOMAIN history :
                        /\ \A j \in DOMAIN history : distance(k) <= distance(j)
                        /\ \A j \in 1..(k - 1) : distance(k) < distance(j)
       IN  history[nearest].timestamp

SectionBefore(s, t) == sections[s][StopsAt(sections[s], t)].grid

StateBefore(t) == states[StopsAt(states, t)].state_type

(* A list of tile entities with a delta applied to it.                     *)
Applied(delta, list) ==
  LET erased == {p \in DOMAIN delta : delta[p] = Erase}
  IN  [p \in (DOMAIN list \cup DOMAIN delta) \ erased |->
         IF p \in DOMAIN delta THEN delta[p] ELSE list[p]]

NoTileEntities == [p \in {} |-> Erase]

(* reconstruct_tile_entities, and the list a read has after k deltas.      *)
TileEntityLists ==
  LET list[k \in 0..Len(reverse_deltas)] ==
        IF k = 0 THEN NoTileEntities
                 ELSE Applied(reverse_deltas[k].deltas, list[k - 1])
  IN  list

TileEntitiesBefore(t) == TileEntityLists[StopsAt(reverse_deltas, t)]

-----------------------------------------------------------------------------
(* Recording                                                               *)

CallsMade == seen.calls

SavesMutant(history, t, value) ==
  \/ history = <<>>
  \/ t > history[1].timestamp /\ \A k \in DOMAIN history : value # history[k].grid

(* What insert_snapshot of a section takes.                                *)
Saves(history, t, value) ==
  \/ history = <<>>
  \/ t > history[1].timestamp /\ value # history[1].grid

(* A section's rejection does not keep the others from being updated; the  *)
(* sections beyond the end of the update are left alone.                   *)
UpdateSections(t, update) ==
  /\ CallsMade < MaxCalls
  /\ sections' =
       [s \in Sections |->
          IF s <= Len(update) /\ Saves(sections[s], t, update[s])
          THEN <<[timestamp |-> t, grid |-> update[s]]>> \o sections[s]
          ELSE sections[s]]
  /\ seen' = [seen EXCEPT
                !.calls = @ + 1,
                !.updates = [s \in Sections |->
                               IF s <= Len(update)
                               THEN Append(@[s], [timestamp |-> t, grid |-> update[s]])
                               ELSE @[s]]]
  /\ UNCHANGED <<reverse_deltas, states>>

PositionsOf(slice) == {slice[i].pos : i \in DOMAIN slice}

(* The map a slice is collected into: the last one at a position stays.    *)
ListOf(slice) ==
  [p \in PositionsOf(slice) |->
     LET last == CHOOSE i \in DOMAIN slice :
                   /\ slice[i].pos = p
                   /\ \A j \in (i + 1)..Len(slice) : slice[j].pos # p
     IN  slice[last].te]

(* The reverse delta from a slice to the list before it: positions that    *)
(* are new, that some entity of the slice differs at, or that are gone.    *)
ReverseDeltaMutant(latest, slice) ==
  [p \in {q \in DOMAIN latest : \/ q \notin PositionsOf(slice)
                                \/ \E i \in DOMAIN slice : /\ slice[i].pos = q
                                                           /\ slice[i].te # latest[q]} |->
     latest[p]]

ReverseDelta(latest, slice) ==
  LET new == PositionsOf(slice) \ DOMAIN latest
      gone == DOMAIN latest \ PositionsOf(slice)
      changed == {p \in DOMAIN latest :
                    \E i \in DOMAIN slice : slice[i].pos = p /\ slice[i].te # latest[p]}
  IN  [p \in new \cup changed \cup gone |-> IF p \in new THEN Erase ELSE latest[p]]

Recorded(t, slice) ==
  <<[timestamp |-> t, deltas |-> ListOf(slice)],
    [timestamp |-> reverse_deltas[1].timestamp,
     deltas |-> ReverseDelta(reverse_deltas[1].deltas, slice)]>>
  \o Tail(reverse_deltas)

InsertTileEntities(t, slice) ==
  /\ CallsMade < MaxCalls
  /\ reverse_deltas' =
       IF reverse_deltas = <<>>
       THEN <<[timestamp |-> t, deltas |-> ListOf(slice)]>>
       ELSE IF /\ t > reverse_deltas[1].timestamp
               /\ DOMAIN ReverseDelta(reverse_deltas[1].deltas, slice) # {}
            THEN Recorded(t, slice)
            ELSE reverse_deltas
  /\ seen' = [seen EXCEPT !.calls = @ + 1,
                          !.slices = Append(@, [timestamp |-> t, slice |-> slice])]
  /\ UNCHANGED <<sections, states>>

NewStateMutant(t, type) ==
  \/ states = <<>>
  \/ type # states[1].state_type

NewState(t, type) ==
  \/ states = <<>>
  \/ t > states[1].timestamp /\ type # states[1].state_type

InsertState(t, type) ==
  /\ CallsMade < MaxCalls
  /\ states' = IF NewState(t, type)
               THEN <<[timestamp |-> t, state_type |-> type]>> \o states
               ELSE states
  /\ seen' = [seen EXCEPT !.calls = @ + 1,
                          !.states = Append(@, [timestamp |-> t, state_type |-> type])]
  /\ UNCHANGED <<sections, reverse_deltas>>

Init ==
  /\ sections = [s \in Sections |-> <<>>]
  /\ reverse_deltas = <<>>
  /\ states = <<>>
  /\ seen = [calls |-> 0, updates |-> [s \in Sections |-> <<>>],
             slices |-> <<>>, states |-> <<>>]

Next ==
  \E t \in Times :
    \/ \E update \in Updates : UpdateSections(t, update)
    \/ \E slice \in Slices : InsertTileEntities(t, slice)
    \/ \E type \in StateTypes : InsertState(t, type)

Spec == Init /\ [][Next]_vars

-----------------------------------------------------------------------------
(* Properties                                                              *)

(* The observations of section s. *)
UpdatesOf(s) == seen.updates[s]

InOrder(observations) ==
  \A i, j \in DOMAIN observations :
    i < j => observations[i].timestamp < observations[j].timestamp

(* i is the last of the observations that were made at t or before it. *)
IsLastBy(observations, t, i) ==
  /\ observations[i].timestamp <= t
  /\ \A j \in (i + 1)..Len(observations) : observations[j].timestamp > t

(***************************************************************************)
(* A recorder whose observations arrive in the order of their timestamps   *)
(* reads back, for any time, exactly what it last saw at or before that    *)
(* time: skipping the observations that changed nothing loses nothing.     *)
(***************************************************************************)
CutIsObserved ==
  \A t \in Times :
    /\ \A s \in Sections :
         InOrder(UpdatesOf(s)) =>
           \A i \in DOMAIN UpdatesOf(s) :
             IsLastBy(UpdatesOf(s), t, i) => SectionBefore(s, t) = UpdatesOf(s)[i].grid
    /\ InOrder(seen.slices) =>
         \A i \in DOMAIN seen.slices :
           IsLastBy(seen.slices, t, i) => TileEntitiesBefore(t) = ListOf(seen.slices[i].slice)
    /\ InOrder(seen.states) =>
         \A i \in DOMAIN seen.states :
           IsLastBy(seen.states, t, i) => StateBefore(t) = seen.states[i].state_type

(* The history holds a snapshot a read at t may answer with. *)
Covers(history, t) == history # <<>> /\ history[Len(history)].timestamp <= t

(***************************************************************************)
(* In whatever order the observations arrive, a read of a time the history *)
(* covers never returns what was seen only later than that time.           *)
(***************************************************************************)
NothingFromTheFuture ==
  \A t \in Times :
    /\ \A s \in Sections :
         Covers(sections[s], t) =>
           \E i \in DOMAIN UpdatesOf(s) :
             /\ UpdatesOf(s)[i].timestamp <= t
             /\ UpdatesOf(s)[i].grid = SectionBefore(s, t)
    /\ Covers(reverse_deltas, t) =>
         \E i \in DOMAIN seen.slices :
           /\ seen.slices[i].timestamp <= t
           /\ ListOf(seen.slices[i].slice) = TileEntitiesBefore(t)
    /\ Covers(states, t) =>
         \E i \in DOMAIN seen.states :
           /\ seen.states[i].timestamp <= t
           /\ seen.states[i].state_type = StateBefore(t)

(***************************************************************************)
(* snapshot_from answers with something that was seen at the time it chose *)
(* and no recorded snapshot is nearer to the asked time; of two that are   *)
(* equally near it is the newer.                                           *)
(***************************************************************************)
NearestIsObserved ==
  \A s \in Sections, t \in Times :
    sections[s] # <<>> =>
      LET nearest == FindNearestTimestamp(sections[s], t)
      IN  /\ \E i \in DOMAIN UpdatesOf(s) :
               /\ UpdatesOf(s)[i].timestamp = nearest
               /\ UpdatesOf(s)[i].grid = SectionBefore(s, nearest)
          /\ \A k \in DOMAIN sections[s] :
               LET other == sections[s][k].timestamp
               IN  /\ (nearest - t) * (nearest - t) <= (other - t) * (other - t)
                   /\ t - nearest = other - t => nearest >= other

(***************************************************************************)
(* Recording rewrites the newest entry of a history (into a reverse delta) *)
(* and still never changes the answer for a time before the newest         *)
(* snapshot, the new one or the one before it.                             *)
(***************************************************************************)
PastIsImmutable ==
  [][/\ \A s \in Sections : \A t \in Times :
          (/\ sections'[s] # sections[s]
           /\ sections[s] # <<>>
           /\ t < sections'[s][1].timestamp \/ t < sections[s][1].timestamp)
             => SectionBefore(s, t)' = SectionBefore(s, t)
     /\ \A t \in Times :
          (/\ reverse_deltas' # reverse_deltas
           /\ reverse_deltas # <<>>
           /\ t < reverse_deltas'[1].timestamp \/ t < reverse_deltas[1].timestamp)
             => TileEntitiesBefore(t)' = TileEntitiesBefore(t)
     /\ \A t \in Times :
          (/\ states' # states
           /\ states # <<>>
           /\ t < states'[1].timestamp \/ t < states[1].timestamp)
             => StateBefore(t)' = StateBefore(t)
    ]_vars

=============================================================================
