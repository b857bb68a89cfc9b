--------------------------- MODULE DeltaHistory ---------------------------
(***************************************************************************)
(* The delta storage of a region: region/delta.rs, its loading from the    *)
(* reference format (read_section_group) and snapshot_before.              *)
(*                                                                         *)
(* A section is a PackedDeltaData: a reference to a shared, immutable      *)
(* vector of snapshots (Arc<Vec<..>>) and the range of it that belongs to  *)
(* the section.  The first snapshot of the range is the latest grid in     *)
(* full, the others are reverse deltas: a cell of the k-th one holds what  *)
(* the cell was at that time if the (k-1)-th differs there, and            *)
(* STATE_UNCHANGED otherwise.                                              *)
(*                                                                         *)
(* Sections share vectors: a new segment's sections all refer to one empty *)
(* vector, a clone refers to its origin's, and all the sections of a       *)
(* loaded group refer to slices of one vector.  An insertion must therefore*)
(* first make the section the only owner of its vector (copy on write).    *)
(*                                                                         *)
(* The packing of a snapshot into palette indices is left out: a snapshot  *)
(* is its timestamp and its cells.                                         *)
(***************************************************************************)
EXTENDS Integers, Sequences, FiniteSets

CONSTANTS
  SectionCount,     \* sections of the group, numbered in file order
  Arcs,             \* identities of the shared vectors
  Cells,            \* positions in a section's grid
  Atoms,            \* values of a cell
  Observed,         \* the grids the recorder may hand to insert_snapshot
  STATE_UNCHANGED,  \* the delta marker (0xFFFF)
  Times,            \* timestamps of snapshots and of reads
  Limits,           \* values of max_deltas a reader is made with, 0 for all
  MaxLength         \* bound: snapshots one section may hold

(***************************************************************************)
(* No cell holds the marker: an atom equal to it would be taken for an     *)
(* unchanged cell.  The code does not enforce this.                        *)
(***************************************************************************)
ASSUME MarkerIsNoAtom == STATE_UNCHANGED \notin Atoms

ASSUME ParametersOK ==
  /\ SectionCount \in Nat \ {0}
  /\ Times \subseteq Int
  /\ Observed \subseteq [Cells -> Atoms]
  /\ Limits \subseteq Nat
  /\ MaxLength \in Nat \ {0}

Sections == 1..SectionCount
Grids == [Cells -> Atoms]
Deltas == [Cells -> Atoms \cup {STATE_UNCHANGED}]
PackedSnapshots == [timestamp: Times, data: Deltas]
Ranges == [start: Nat, end: Nat]

VARIABLES
  vectors,    \* contents of every vector; a vector nobody refers to is freed
  storage,    \* the vector a section refers to
  range,      \* the slice of it that is the section's
  inserting,  \* sections in insert_snapshot, past ensure_owned_storage
  reader,     \* the running call of snapshot_before
  loader,     \* the running call of read_section_group
  truth       \* history variable: the full snapshots of every section

vars == <<vectors, storage, range, inserting, reader, loader, truth>>

-----------------------------------------------------------------------------
(* Reading a section                                                       *)

SnapshotsOf(s) == SubSeq(vectors[storage[s]], range[s].start + 1, range[s].end)

(* unpack_delta_into: what the delta holds, or the newer grid where it     *)
(* holds nothing.                                                          *)
UnpackDeltaInto(delta, grid) ==
  [c \in Cells |-> IF delta[c] = STATE_UNCHANGED THEN grid[c] ELSE delta[c]]

(* raw.rs: all the full snapshots of a section, rebuilt from the deltas.    *)
ReconstructHistory(s) ==
  LET deltas == SnapshotsOf(s)
      current[k \in DOMAIN deltas] ==
        IF k = 1 THEN deltas[1].data
                 ELSE UnpackDeltaInto(deltas[k].data, current[k - 1])
  IN  [k \in DOMAIN deltas |->
         [timestamp |-> deltas[k].timestamp, grid |-> current[k]]]

NoReader == [section |-> 0]
NoLoader == [next |-> 0]
Idle == reader = NoReader /\ loader = NoLoader

Borrowed(s) == s = reader.section

(* snapshot_before unpacks the latest snapshot and returns at once if the  *)
(* asked time is not before it ...                                         *)
SnapshotBefore(s, t) ==
  /\ Idle
  /\ s \notin inserting
  /\ SnapshotsOf(s) # <<>>
  /\ LET latest == SnapshotsOf(s)[1]
     IN  reader' = [section |-> s, time |-> t, at |-> 1, grid |-> latest.data,
                    done |-> t >= latest.timestamp \/ Len(SnapshotsOf(s)) = 1]
  /\ UNCHANGED <<vectors, storage, range, inserting, loader, truth>>

ReachesMutant(t, delta) == t > delta.timestamp

(* ... and otherwise goes back delta by delta until it has applied one     *)
(* that is not newer than the asked time.                                  *)
Reaches(t, delta) == t >= delta.timestamp

StepBack ==
  /\ reader # NoReader
  /\ ~reader.done
  /\ LET at == reader.at + 1
         delta == SnapshotsOf(reader.section)[at]
     IN  reader' = [reader EXCEPT
                      !.at = at,
                      !.grid = UnpackDeltaInto(delta.data, @),
                      !.done = \/ Reaches(reader.time, delta)
                               \/ at = Len(SnapshotsOf(reader.section))]
  /\ UNCHANGED <<vectors, storage, range, inserting, loader, truth>>

Return ==
  /\ reader # NoReader
  /\ reader.done
  /\ reader' = NoReader
  /\ UNCHANGED <<vectors, storage, range, inserting, loader, truth>>

-----------------------------------------------------------------------------
(* Inserting a snapshot                                                    *)

(* Arc::strong_count *)
StrongCount(arc) == Cardinality({s \in Sections : storage[s] = arc})

IsFree(arc) == \A s \in Sections : storage[s] # arc

(* Dropping the last reference to a vector frees it. *)
Collected(contents, refs) ==
  [arc \in Arcs |-> IF \E s \in Sections : refs[s] = arc THEN contents[arc] ELSE <<>>]

NeedsCopyMutant(s) ==
  \/ range[s].start # 0
  \/ range[s].end # Len(vectors[storage[s]])

NeedsCopy(s) ==
  \/ range[s].start # 0
  \/ range[s].end # Len(vectors[storage[s]])
  \/ StrongCount(storage[s]) > 1

OwnedRangeMutant(s) == range[s]

OwnedRange(s) == [start |-> 0, end |-> Len(SnapshotsOf(s))]

(* ensure_owned_storage, the first thing insert_snapshot does, whatever    *)
(* becomes of the insertion.                                               *)
EnsureOwnedStorage(s) ==
  /\ loader = NoLoader
  /\ s \notin inserting
  /\ ~Borrowed(s)
  /\ inserting' = inserting \cup {s}
  /\ IF NeedsCopy(s)
     THEN \E arc \in Arcs :
            /\ IsFree(arc)
            /\ storage' = [storage EXCEPT ![s] = arc]
            /\ vectors' = Collected([vectors EXCEPT ![arc] = SnapshotsOf(s)], storage')
            /\ range' = [range EXCEPT ![s] = OwnedRange(s)]
     ELSE UNCHANGED <<vectors, storage, range>>
  /\ UNCHANGED <<reader, loader, truth>>

ReverseDeltaMutant(previous, new) ==
  [c \in Cells |-> IF new[c] # previous[c] THEN new[c] ELSE STATE_UNCHANGED]

(* The reverse delta that replaces the previous latest grid. *)
ReverseDelta(previous, new) ==
  [c \in Cells |-> IF new[c] # previous[c] THEN previous[c] ELSE STATE_UNCHANGED]

InsertedMutant(vector, t, grid) ==
  <<[timestamp |-> t, data |-> grid],
    [timestamp |-> t, data |-> ReverseDelta(vector[1].data, grid)]>>
  \o Tail(vector)

(* The vector after a newer, different snapshot went in front. *)
Inserted(vector, t, grid) ==
  <<[timestamp |-> t, data |-> grid],
    [timestamp |-> vector[1].timestamp, data |-> ReverseDelta(vector[1].data, grid)]>>
  \o Tail(vector)

(* insert_snapshot after ensure_owned_storage, through Arc::get_mut.       *)
InsertFirst(s, t, grid) ==
  /\ s \in inserting
  /\ vectors[storage[s]] = <<>>
  /\ vectors' = [vectors EXCEPT ![storage[s]] = <<[timestamp |-> t, data |-> grid]>>]
  /\ range' = [range EXCEPT ![s] = [start |-> 0, end |-> 1]]
  /\ truth' = [truth EXCEPT ![s] = <<[timestamp |-> t, grid |-> grid]>>]
  /\ inserting' = inserting \ {s}
  /\ UNCHANGED <<storage, reader, loader>>

InsertNewer(s, t, grid) ==
  LET vector == vectors[storage[s]]
  IN  /\ s \in inserting
      /\ vector # <<>>
      /\ t > vector[1].timestamp
      /\ grid # vector[1].data
      /\ Len(vector) < MaxLength
      /\ vectors' = [vectors EXCEPT ![storage[s]] = Inserted(vector, t, grid)]
      /\ range' = [range EXCEPT ![s] = [start |-> 0, end |-> Len(vector) + 1]]
      /\ truth' = [truth EXCEPT ![s] = <<[timestamp |-> t, grid |-> grid]>> \o @]
      /\ inserting' = inserting \ {s}
      /\ UNCHANGED <<storage, reader, loader>>

(* SnapshotOlderThanLatest and NoChangesMade leave the vector alone.       *)
RejectSnapshot(s, t, grid) ==
  LET vector == vectors[storage[s]]
  IN  /\ s \in inserting
      /\ vector # <<>>
      /\ t <= vector[1].timestamp \/ grid = vector[1].data
      /\ inserting' = inserting \ {s}
      /\ UNCHANGED <<vectors, storage, range, reader, loader, truth>>

-----------------------------------------------------------------------------
(* Sharing: clones, and loading a group written to a file                  *)

(* The derived Clone, assigned over section s. *)
CloneFrom(s, origin) ==
  /\ loader = NoLoader
  /\ {s, origin} \cap inserting = {}
  /\ ~Borrowed(s)
  /\ storage' = [storage EXCEPT ![s] = storage[origin]]
  /\ range' = [range EXCEPT ![s] = range[origin]]
  /\ vectors' = Collected(vectors, storage')
  /\ truth' = [truth EXCEPT ![s] = truth[origin]]
  /\ UNCHANGED <<inserting, reader, loader>>

(* How many of a section's snapshots the reader keeps: the newest          *)
(* maxDeltas, or all of them if maxDeltas is 0.                            *)
Kept(count, maxDeltas) ==
  IF maxDeltas # 0 /\ maxDeltas < count THEN maxDeltas ELSE count

(* The region is written to a file and read again with a limit on the      *)
(* snapshots per section; the sections it had are replaced at the end.     *)
StartLoading(maxDeltas) ==
  /\ Idle
  /\ inserting = {}
  /\ loader' = [next |-> 1, maxDeltas |-> maxDeltas, shared |-> <<>>,
                ranges |-> [s \in Sections |-> [start |-> 0, end |-> 0]]]
  /\ UNCHANGED <<vectors, storage, range, inserting, reader, truth>>

LoadSection ==
  /\ loader # NoLoader
  /\ loader.next \in Sections
  /\ LET s == loader.next
         kept == Kept(Len(SnapshotsOf(s)), loader.maxDeltas)
         start == Len(loader.shared)
     IN  loader' = [loader EXCEPT
                      !.next = s + 1,
                      !.shared = @ \o SubSeq(SnapshotsOf(s), 1, kept),
                      !.ranges = [@ EXCEPT ![s] = [start |-> start, end |-> start + kept]]]
  /\ UNCHANGED <<vectors, storage, range, inserting, reader, truth>>

FinishLoading ==
  /\ loader # NoLoader
  /\ loader.next = SectionCount + 1
  /\ \E arc \in Arcs :
       /\ IsFree(arc)
       /\ storage' = [s \in Sections |-> arc]
       /\ vectors' = Collected([vectors EXCEPT ![arc] = loader.shared], storage')
  /\ range' = loader.ranges
  /\ truth' = [s \in Sections |->
                 SubSeq(truth[s], 1, Kept(Len(truth[s]), loader.maxDeltas))]
  /\ loader' = NoLoader
  /\ UNCHANGED <<inserting, reader>>

-----------------------------------------------------------------------------
(* DeltaSections::new: all sections share one empty vector.                *)
Init ==
  /\ vectors = [arc \in Arcs |-> <<>>]
  /\ \E arc \in Arcs : storage = [s \in Sections |-> arc]
  /\ range = [s \in Sections |-> [start |-> 0, end |-> 0]]
  /\ inserting = {}
  /\ reader = NoReader
  /\ loader = NoLoader
  /\ truth = [s \in Sections |-> <<>>]

Next ==
  \/ \E s \in Sections : EnsureOwnedStorage(s)
  \/ \E s \in Sections, t \in Times, grid \in Observed :
       \/ InsertFirst(s, t, grid)
       \/ InsertNewer(s, t, grid)
       \/ RejectSnapshot(s, t, grid)
  \/ \E s, origin \in Sections : CloneFrom(s, origin)
  \/ \E maxDeltas \in Limits : StartLoading(maxDeltas)
  \/ LoadSection
  \/ FinishLoading
  \/ \E s \in Sections, t \in Times : SnapshotBefore(s, t)
  \/ StepBack
  \/ Return

Spec == Init /\ [][Next]_vars

-----------------------------------------------------------------------------
(* Properties                                                              *)

Readers == [section: Sections, time: Times, at: Nat \ {0}, grid: Grids, done: BOOLEAN]

Loaders == [next: 1..(SectionCount + 1), maxDeltas: Nat,
            shared: Seq(PackedSnapshots), ranges: [Sections -> Ranges]]

FullSnapshots == [timestamp: Times, grid: Grids]

(***************************************************************************)
(* Types, and every section's range lies in the vector it refers to, so    *)
(* that slicing it in snapshots() cannot panic.                            *)
(***************************************************************************)
TypeOK ==
  /\ vectors \in [Arcs -> Seq(PackedSnapshots)]
  /\ storage \in [Sections -> Arcs]
  /\ range \in [Sections -> Ranges]
  /\ \A s \in Sections : /\ range[s].start <= range[s].end
                         /\ range[s].end <= Len(vectors[storage[s]])
  /\ inserting \subseteq Sections
  /\ reader \in Readers \cup {NoReader}
  /\ loader \in Loaders \cup {NoLoader}
  /\ truth \in [Sections -> Seq(FullSnapshots)]

(***************************************************************************)
(* Arc::get_mut(..).expect("uniquely owned after ensure") never panics:    *)
(* from ensure_owned_storage to the end of the insertion nobody else       *)
(* refers to the section's vector, and the section owns all of it.         *)
(***************************************************************************)
GetMutSucceeds ==
  \A s \in inserting :
    /\ \A other \in Sections \ {s} : storage[other] # storage[s]
    /\ range[s] = [start |-> 0, end |-> Len(vectors[storage[s]])]

(* view is the delta form of the full snapshots, newest first. *)
Stores(view, snapshots) ==
  /\ Len(view) = Len(snapshots)
  /\ \A k \in 1..Len(snapshots) :
       /\ view[k].timestamp = snapshots[k].timestamp
       /\ snapshots[k].grid =
            IF k = 1 THEN view[1].data
                     ELSE UnpackDeltaInto(view[k].data, snapshots[k - 1].grid)

(***************************************************************************)
(* No snapshot is lost, invented or altered: the vector stores, for every  *)
(* section, its newest snapshot in full and for each older one the delta   *)
(* that leads back to it from the next newer.                              *)
(***************************************************************************)
StoresTheTruth == \A s \in Sections : Stores(SnapshotsOf(s), truth[s])

(* Insertions only ever put newer snapshots in front. *)
NewestFirst ==
  \A s \in Sections : \A i, j \in 1..Len(truth[s]) :
    i < j => truth[s][i].timestamp > truth[s][j].timestamp

(* Where a call of snapshot_before is in the history of its section. *)
ReaderFollows ==
  reader # NoReader =>
    LET snapshots == truth[reader.section]
    IN  /\ loader = NoLoader
        /\ reader.section \notin inserting
        /\ reader.at \in 1..Len(snapshots)
        /\ reader.grid = snapshots[reader.at].grid
        /\ \A k \in 1..(reader.at - 1) : snapshots[k].timestamp > reader.time
        /\ IF reader.done
           THEN snapshots[reader.at].timestamp <= reader.time \/ reader.at = Len(snapshots)
           ELSE snapshots[reader.at].timestamp > reader.time /\ reader.at # Len(snapshots)

(* What a loader has read are the sections' newest snapshots. *)
LoaderSlices ==
  loader # NoLoader =>
    /\ inserting = {}
    /\ reader = NoReader
    /\ \A s \in Sections : s < loader.next =>
         LET slice == loader.ranges[s]
             count == Len(SnapshotsOf(s))
         IN  /\ slice.start <= slice.end
             /\ slice.end <= Len(loader.shared)
             /\ SubSeq(loader.shared, slice.start + 1, slice.end)
                  = SubSeq(SnapshotsOf(s), 1, Kept(count, loader.maxDeltas))

(***************************************************************************)
(* What snapshot_before returns for a time: the newest snapshot that is    *)
(* not newer than it, and the oldest one if all are.                       *)
(***************************************************************************)
ReadIsHistorical ==
  reader # NoReader =>
    (reader.done =>
       LET snapshots == truth[reader.section]
           found == snapshots[reader.at]
       IN  /\ reader.at \in 1..Len(snapshots)
           /\ reader.grid = found.grid
           /\ \A k \in 1..Len(snapshots) :
                IF found.timestamp <= reader.time
                THEN snapshots[k].timestamp <= reader.time
                       => snapshots[k].timestamp <= found.timestamp
                ELSE /\ snapshots[k].timestamp > reader.time
                     /\ found.timestamp <= snapshots[k].timestamp)

(***************************************************************************)
(* Copy on write: starting an insertion changes what no section holds, and *)
(* finishing one changes what its own section holds and no other, whoever  *)
(* shares a vector with it.                                                *)
(***************************************************************************)
InsertionIsIsolated ==
  [][/\ inserting' \ inserting # {} =>
          \A s \in Sections : SnapshotsOf(s)' = SnapshotsOf(s)
     /\ \A s \in inserting \ inserting' :
          \A other \in Sections \ {s} : SnapshotsOf(other)' = SnapshotsOf(other)
    ]_vars

(***************************************************************************)
(* The rebuilt histories behave as the abstract histories do.              *)
(***************************************************************************)
Histories ==
  INSTANCE SectionHistory WITH history <- [s \in Sections |-> ReconstructHistory(s)]

ImplementsHistories == Histories!Spec

=============================================================================
