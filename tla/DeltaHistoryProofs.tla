------------------------ MODULE DeltaHistoryProofs ------------------------
(* Proofs about DeltaHistory, for every value of its constants. *)
EXTENDS DeltaHistory, NaturalSets, TLAPS, SequenceTheorems, FiniteSetTheorems

-----------------------------------------------------------------------------
(* The delta form                                                          *)

(* Applying the reverse delta to the newer grid gives the older one back,  *)
(* because no cell of the older one holds the marker.                      *)
LEMMA ReverseDeltaLeadsBack ==
  ASSUME NEW previous \in Grids, NEW new \in Grids
  PROVE  /\ ReverseDelta(previous, new) \in Deltas
         /\ UnpackDeltaInto(ReverseDelta(previous, new), new) = previous
BY MarkerIsNoAtom DEF Grids, Deltas, ReverseDelta, UnpackDeltaInto

(* Going back through a delta stays within the grids. *)
LEMMA UnpackedIsGrid ==
  ASSUME NEW delta \in Deltas, NEW grid \in Grids
  PROVE  UnpackDeltaInto(delta, grid) \in Grids
BY DEF Grids, Deltas, UnpackDeltaInto

(* The vector an insertion leaves behind. *)
LEMMA InsertedShape ==
  ASSUME NEW vector \in Seq(PackedSnapshots), vector # <<>>, vector[1].data \in Grids,
         NEW t \in Times, NEW grid \in Grids
  PROVE  /\ Inserted(vector, t, grid) \in Seq(PackedSnapshots)
         /\ Len(Inserted(vector, t, grid)) = Len(vector) + 1
         /\ Inserted(vector, t, grid)[1] = [timestamp |-> t, data |-> grid]
         /\ Inserted(vector, t, grid)[2] =
              [timestamp |-> vector[1].timestamp,
               data |-> ReverseDelta(vector[1].data, grid)]
         /\ \A k \in 3..(Len(vector) + 1) : Inserted(vector, t, grid)[k] = vector[k - 1]
<1> DEFINE first == [timestamp |-> t, data |-> grid]
           second == [timestamp |-> vector[1].timestamp,
                      data |-> ReverseDelta(vector[1].data, grid)]
           front == <<first, second>>
<1>1. Len(vector) \in Nat \ {0} /\ vector[1] \in PackedSnapshots
  BY EmptySeq, ElementOfSeq, LenProperties
<1>2. first \in PackedSnapshots
  BY DEF PackedSnapshots, Grids, Deltas
<1>3. second \in PackedSnapshots
  BY <1>1, ReverseDeltaLeadsBack DEF PackedSnapshots
<1>4. front \in Seq(PackedSnapshots) /\ Len(front) = 2
      /\ front[1] = first /\ front[2] = second
  BY <1>2, <1>3
<1> DEFINE rest == Tail(vector)
<1>5. /\ rest \in Seq(PackedSnapshots)
      /\ Len(rest) = Len(vector) - 1
      /\ \A i \in 1..Len(rest) : rest[i] = vector[i + 1]
  BY HeadTailProperties
<1>6. Inserted(vector, t, grid) = front \o rest
  BY DEF Inserted
<1> HIDE DEF front, rest
<1>7. /\ front \o rest \in Seq(PackedSnapshots)
      /\ Len(front \o rest) = Len(front) + Len(rest)
      /\ \A i \in 1..Len(front) + Len(rest) :
           (front \o rest)[i] = IF i <= Len(front) THEN front[i] ELSE rest[i - Len(front)]
  BY <1>4, <1>5, ConcatProperties
<1>8. ASSUME NEW k \in 3..(Len(vector) + 1)
      PROVE  (front \o rest)[k] = vector[k - 1]
  <2>1. k \in 1..Len(front) + Len(rest) /\ k > Len(front) /\ k - 2 \in 1..Len(rest)
    BY <1>1, <1>4, <1>5
  <2>2. (front \o rest)[k] = rest[k - 2]
    BY <2>1, <1>4, <1>7
  <2>3. QED
    BY <1>1, <1>5, <2>1, <2>2
<1>9. QED
  BY <1>1, <1>4, <1>5, <1>6, <1>7, <1>8

(* An insertion keeps the delta form: what was stored is one step deeper.  *)
LEMMA InsertedStores ==
  ASSUME NEW view \in Seq(PackedSnapshots), NEW snapshots \in Seq(FullSnapshots),
         Stores(view, snapshots), view # <<>>,
         NEW t \in Times, NEW grid \in Grids
  PROVE  Stores(Inserted(view, t, grid), <<[timestamp |-> t, grid |-> grid]>> \o snapshots)
<1> DEFINE new == [timestamp |-> t, grid |-> grid]
           vector == Inserted(view, t, grid)
           deeper == <<new>> \o snapshots
<1>1. /\ Len(view) \in Nat \ {0} /\ Len(snapshots) = Len(view)
      /\ snapshots[1] \in FullSnapshots /\ view[1].data = snapshots[1].grid
      /\ view[1].timestamp = snapshots[1].timestamp
  BY EmptySeq, ElementOfSeq, LenProperties DEF Stores
<1>2. view[1].data \in Grids
  BY <1>1 DEF FullSnapshots
<1>3. <<new>> \in Seq(FullSnapshots) /\ Len(<<new>>) = 1
  BY DEF FullSnapshots
<1> HIDE DEF new
<1>4. /\ Len(deeper) = Len(snapshots) + 1
      /\ deeper[1] = new
      /\ \A k \in 2..(Len(snapshots) + 1) : deeper[k] = snapshots[k - 1]
  BY <1>1, <1>3, ConcatProperties
<1>5. /\ Len(vector) = Len(view) + 1
      /\ vector[1] = [timestamp |-> t, data |-> grid]
      /\ vector[2] = [timestamp |-> view[1].timestamp,
                      data |-> ReverseDelta(view[1].data, grid)]
      /\ \A k \in 3..(Len(view) + 1) : vector[k] = view[k - 1]
  BY <1>2, InsertedShape
<1> HIDE DEF vector, deeper
<1>6. ASSUME NEW k \in 1..Len(deeper)
      PROVE  /\ vector[k].timestamp = deeper[k].timestamp
             /\ deeper[k].grid = IF k = 1 THEN vector[1].data
                                 ELSE UnpackDeltaInto(vector[k].data, deeper[k - 1].grid)
  <2>1. CASE k = 1
    BY <2>1, <1>4, <1>5 DEF new
  <2>2. CASE k = 2
    <3>1. UnpackDeltaInto(ReverseDelta(view[1].data, grid), grid) = view[1].data
      BY <1>2, ReverseDeltaLeadsBack
    <3>2. deeper[2] = snapshots[1] /\ deeper[1].grid = grid
      BY <1>1, <1>4 DEF new
    <3>3. QED
      BY <2>2, <3>1, <3>2, <1>1, <1>5
  <2>3. CASE k \in 3..Len(deeper)
    <3>1. /\ k - 1 \in 2..Len(snapshots) /\ deeper[k] = snapshots[k - 1]
          /\ deeper[k - 1] = snapshots[(k - 1) - 1] /\ vector[k] = view[k - 1]
      BY <2>3, <1>1, <1>4, <1>5
    <3>2. ASSUME NEW m \in 2..Len(snapshots)
          PROVE  /\ view[m].timestamp = snapshots[m].timestamp
                 /\ snapshots[m].grid = UnpackDeltaInto(view[m].data, snapshots[m - 1].grid)
      <4>1. m \in 1..Len(snapshots) /\ m # 1
        BY <1>1
      <4>2. QED
        BY <4>1 DEF Stores
    <3>3. /\ view[k - 1].timestamp = snapshots[k - 1].timestamp
          /\ snapshots[k - 1].grid =
               UnpackDeltaInto(view[k - 1].data, snapshots[(k - 1) - 1].grid)
      BY <3>1, <3>2
    <3>4. k # 1
      BY <2>3
    <3>5. QED
      BY <3>1, <3>3, <3>4
  <2>4. QED
    BY <1>1, <1>4, <2>1, <2>2, <2>3
<1>7. QED
  BY <1>1, <1>4, <1>5, <1>6 DEF Stores, vector, deeper, new

(* The newest snapshots of a stored history store the newest ones.         *)
LEMMA PrefixStores ==
  ASSUME NEW view \in Seq(PackedSnapshots), NEW snapshots \in Seq(FullSnapshots),
         Stores(view, snapshots), NEW n \in 0..Len(view)
  PROVE  Stores(SubSeq(view, 1, n), SubSeq(snapshots, 1, n))
<1>1. Len(view) \in Nat /\ Len(snapshots) = Len(view)
  BY LenProperties DEF Stores
<1>2. /\ Len(SubSeq(view, 1, n)) = n
      /\ \A k \in 1..n : SubSeq(view, 1, n)[k] = view[k]
  BY <1>1, SubSeqProperties
<1>3. /\ Len(SubSeq(snapshots, 1, n)) = n
      /\ \A k \in 1..n : SubSeq(snapshots, 1, n)[k] = snapshots[k]
  BY <1>1, SubSeqProperties
<1> DEFINE v == SubSeq(view, 1, n)
           h == SubSeq(snapshots, 1, n)
<1>4. ASSUME NEW k \in 1..n
      PROVE  /\ v[k].timestamp = h[k].timestamp
             /\ h[k].grid = IF k = 1 THEN v[1].data
                            ELSE UnpackDeltaInto(v[k].data, h[k - 1].grid)
  <2>1. /\ k \in 1..Len(snapshots) /\ v[k] = view[k] /\ h[k] = snapshots[k]
        /\ v[1] = view[1] /\ (k # 1 => h[k - 1] = snapshots[k - 1])
    BY <1>1, <1>2, <1>3
  <2>2. QED
    BY <2>1 DEF Stores
<1>5. QED
  BY <1>2, <1>3, <1>4 DEF Stores

-----------------------------------------------------------------------------
(* Sections and the vectors they refer to                                  *)

(* The sections of a group are finitely many.                              *)
LEMMA SectionsFinite == IsFiniteSet(Sections)
BY FS_Interval, ParametersOK DEF Sections

(* A vector two sections refer to has a reference count above one.         *)
LEMMA SharedIsCounted ==
  ASSUME NEW s \in Sections, NEW other \in Sections \ {s}, storage[other] = storage[s]
  PROVE  StrongCount(storage[s]) > 1
<1> DEFINE owners == {x \in Sections : storage[x] = storage[s]}
<1>1. owners \subseteq Sections /\ {s, other} \subseteq owners
  OBVIOUS
<1>2. IsFiniteSet(owners) /\ Cardinality(owners) \in Nat
  BY <1>1, SectionsFinite, FS_Subset, FS_CardinalityType
<1>3. Cardinality({s}) = 1 /\ IsFiniteSet({s})
  BY FS_Singleton
<1>4. Cardinality({s} \cup {other}) = 2
  BY <1>3, FS_AddElement
<1>5. {s, other} = {s} \cup {other}
  OBVIOUS
<1>6. Cardinality({s, other}) <= Cardinality(owners)
  BY <1>1, <1>2, FS_Subset
<1>7. QED
  BY <1>2, <1>4, <1>5, <1>6 DEF StrongCount

(* A slice of a vector, by its elements.                                   *)
LEMMA Slice ==
  ASSUME NEW S, NEW vector \in Seq(S), NEW start \in Nat, NEW end \in Nat,
         start <= end, end <= Len(vector)
  PROVE  /\ SubSeq(vector, start + 1, end) \in Seq(S)
         /\ Len(SubSeq(vector, start + 1, end)) = end - start
         /\ end - start \in Nat
         /\ \A k \in 1..(end - start) :
              SubSeq(vector, start + 1, end)[k] = vector[start + k]
<1> DEFINE m == start + 1
<1>1. m \in Int /\ end \in Int /\ Len(vector) \in Nat
  BY LenProperties
<1>2. \A i \in m..end : vector[i] \in S
  BY <1>1, ElementOfSeq
<1>3. m = start + 1
  OBVIOUS
<1> HIDE DEF m
<1>4. /\ SubSeq(vector, m, end) \in Seq(S)
      /\ Len(SubSeq(vector, m, end)) = IF m <= end THEN end - m + 1 ELSE 0
      /\ \A i \in 1..(end - m + 1) : SubSeq(vector, m, end)[i] = vector[m + i - 1]
  BY <1>1, <1>2, SubSeqProperties
<1>5. Len(SubSeq(vector, m, end)) = end - start /\ end - start \in Nat
  BY <1>3, <1>4
<1>6. ASSUME NEW k \in 1..(end - start)
      PROVE  SubSeq(vector, m, end)[k] = vector[start + k]
  <2>1. k \in 1..(end - m + 1) /\ m + k - 1 = start + k
    BY <1>3
  <2>2. QED
    BY <1>4, <2>1
<1>7. QED
  BY <1>3, <1>4, <1>5, <1>6

(* What a section holds is a slice of a vector.                            *)
LEMMA ViewProperties ==
  ASSUME TypeOK, NEW s \in Sections
  PROVE  /\ SnapshotsOf(s) \in Seq(PackedSnapshots)
         /\ Len(SnapshotsOf(s)) = range[s].end - range[s].start
         /\ Len(SnapshotsOf(s)) \in Nat
<1>1. /\ vectors[storage[s]] \in Seq(PackedSnapshots)
      /\ range[s].start \in Nat /\ range[s].end \in Nat
      /\ range[s].start <= range[s].end /\ range[s].end <= Len(vectors[storage[s]])
  BY DEF TypeOK, Ranges
<1>2. QED
  BY <1>1, Slice DEF SnapshotsOf

(* A section that owns all of its vector sees the vector.                  *)
LEMMA WholeVector ==
  ASSUME NEW vector \in Seq(PackedSnapshots)
  PROVE  SubSeq(vector, 0 + 1, Len(vector)) = vector
BY SubSeqFull, LenProperties

-----------------------------------------------------------------------------
(* What every step does to what the sections hold                          *)

(* A section for which insert_snapshot ensured ownership.                  *)
LEMMA OwnedVector ==
  ASSUME TypeOK, GetMutSucceeds, NEW s \in inserting
  PROVE  /\ s \in Sections
         /\ vectors[storage[s]] \in Seq(PackedSnapshots)
         /\ SnapshotsOf(s) = vectors[storage[s]]
<1>1. s \in Sections /\ vectors[storage[s]] \in Seq(PackedSnapshots)
  BY DEF TypeOK
<1>2. range[s].start = 0 /\ range[s].end = Len(vectors[storage[s]])
  <2>1. range[s] = [start |-> 0, end |-> Len(vectors[storage[s]])]
    BY Zenon DEF GetMutSucceeds
  <2>2. QED
    BY <2>1
<1>3. QED
  BY <1>1, <1>2, WholeVector DEF SnapshotsOf

(* A vector that keeps its owner is not freed.                             *)
LEMMA CollectedKeeps ==
  ASSUME NEW contents, NEW refs \in [Sections -> Arcs], NEW s \in Sections
  PROVE  Collected(contents, refs)[refs[s]] = contents[refs[s]]
BY DEF Collected

(* Freeing vectors leaves sequences of snapshots.                          *)
LEMMA CollectedType ==
  ASSUME NEW contents \in [Arcs -> Seq(PackedSnapshots)], NEW refs \in [Sections -> Arcs]
  PROVE  Collected(contents, refs) \in [Arcs -> Seq(PackedSnapshots)]
BY EmptySeq DEF Collected

(* What ensure_owned_storage does: no section's snapshots change, and      *)
(* section s ends up with a vector of its own.                             *)
LEMMA EnsureOwnedEffect ==
  ASSUME TypeOK, GetMutSucceeds, NEW s \in Sections, EnsureOwnedStorage(s)
  PROVE  /\ TypeOK'
         /\ GetMutSucceeds'
         /\ \A o \in Sections : SnapshotsOf(o)' = SnapshotsOf(o)
<1> USE DEF EnsureOwnedStorage
<1>0. SnapshotsOf(s) \in Seq(PackedSnapshots) /\ Len(SnapshotsOf(s)) \in Nat
  BY ViewProperties
<1>1. CASE ~NeedsCopy(s)
  <2>1. UNCHANGED <<vectors, storage, range, truth, reader, loader>>
        /\ inserting' = inserting \cup {s}
    BY <1>1
  <2>2. TypeOK'
    BY <2>1 DEF TypeOK
  <2>3. range[s] = [start |-> 0, end |-> Len(vectors[storage[s]])]
    BY <1>1 DEF NeedsCopy, TypeOK, Ranges
  <2>4. ASSUME NEW o \in Sections \ {s}
        PROVE  storage[o] # storage[s]
    BY <1>1, SharedIsCounted DEF NeedsCopy
  <2>5. GetMutSucceeds'
    BY <2>1, <2>3, <2>4 DEF GetMutSucceeds, TypeOK
  <2>6. QED
    BY <2>1, <2>2, <2>5 DEF SnapshotsOf
<1>2. CASE NeedsCopy(s)
  <2>1. PICK arc \in Arcs :
          /\ IsFree(arc)
          /\ storage' = [storage EXCEPT ![s] = arc]
          /\ vectors' = Collected([vectors EXCEPT ![arc] = SnapshotsOf(s)], storage')
          /\ range' = [range EXCEPT ![s] = OwnedRange(s)]
    BY <1>2
  <2>2. inserting' = inserting \cup {s} /\ UNCHANGED <<truth, reader, loader>>
    BY <1>2
  <2> DEFINE copied == [vectors EXCEPT ![arc] = SnapshotsOf(s)]
  <2>3. storage' \in [Sections -> Arcs] /\ range' \in [Sections -> Ranges]
    BY <2>1, <1>0 DEF TypeOK, Ranges, OwnedRange
  <2>4. copied \in [Arcs -> Seq(PackedSnapshots)] /\ copied[arc] = SnapshotsOf(s)
        /\ \A other \in Arcs \ {arc} : copied[other] = vectors[other]
    BY <1>0 DEF TypeOK
  <2>a. vectors' = Collected(copied, storage')
    BY <2>1
  <2> HIDE DEF copied
  <2>5. vectors' \in [Arcs -> Seq(PackedSnapshots)]
    BY <2>3, <2>4, <2>a, CollectedType
  <2>b. \A o \in Sections : vectors'[storage'[o]] = copied[storage'[o]]
    BY <2>3, <2>a, CollectedKeeps
  <2>6. storage'[s] = arc /\ vectors'[storage'[s]] = SnapshotsOf(s)
        /\ range'[s] = [start |-> 0, end |-> Len(SnapshotsOf(s))]
    BY <2>1, <2>4, <2>b DEF TypeOK, OwnedRange
  <2>7. ASSUME NEW o \in Sections \ {s}
        PROVE  /\ storage'[o] = storage[o] /\ storage[o] # arc
               /\ vectors'[storage'[o]] = vectors[storage[o]]
               /\ range'[o] = range[o]
    <3>1. storage'[o] = storage[o] /\ storage[o] # arc /\ range'[o] = range[o]
      BY <2>1 DEF TypeOK, IsFree
    <3>2. QED
      BY <3>1, <2>4, <2>b DEF TypeOK
  <2>c. range'[s].start = 0 /\ range'[s].end = Len(SnapshotsOf(s))
    BY <2>6
  <2>8. ASSUME NEW o \in Sections
        PROVE  /\ range'[o].start <= range'[o].end
               /\ range'[o].end <= Len(vectors'[storage'[o]])
    <3>1. CASE o = s
      BY <3>1, <1>0, <2>6, <2>c
    <3>2. CASE o # s
      BY <3>2, <2>7 DEF TypeOK
    <3>3. QED
      BY <3>1, <3>2
  <2>9. TypeOK'
    BY <2>2, <2>3, <2>5, <2>8 DEF TypeOK
  <2>10. SnapshotsOf(s)' = SnapshotsOf(s)
    BY <1>0, <2>6, <2>c, WholeVector DEF SnapshotsOf
  <2>11. \A o \in Sections \ {s} : SnapshotsOf(o)' = SnapshotsOf(o)
    BY <2>7 DEF SnapshotsOf
  <2>12. GetMutSucceeds'
    <3>1. ASSUME NEW i \in inserting, i # s
          PROVE  /\ \A o \in Sections \ {i} : storage'[o] # storage'[i]
                 /\ range'[i] = [start |-> 0, end |-> Len(vectors'[storage'[i]])]
      BY <3>1, <2>6, <2>7 DEF GetMutSucceeds, TypeOK
    <3>2. \A o \in Sections \ {s} : storage'[o] # storage'[s]
      BY <2>6, <2>7
    <3>3. QED
      BY <2>2, <2>6, <3>1, <3>2 DEF GetMutSucceeds
  <2>13. QED
    BY <2>9, <2>10, <2>11, <2>12
<1>3. QED
  BY <1>1, <1>2

(* Writing through Arc::get_mut: the section sees the new vector, and      *)
(* nobody else does.                                                       *)
LEMMA WriteThroughEffect ==
  ASSUME TypeOK, GetMutSucceeds, NEW s \in inserting,
         NEW vector \in Seq(PackedSnapshots), NEW length, length = Len(vector),
         vectors' = [vectors EXCEPT ![storage[s]] = vector],
         range' = [range EXCEPT ![s] = [start |-> 0, end |-> length]],
         inserting' = inserting \ {s},
         UNCHANGED storage
  PROVE  /\ vectors' \in [Arcs -> Seq(PackedSnapshots)]
         /\ range' \in [Sections -> Ranges]
         /\ \A o \in Sections : /\ range'[o].start <= range'[o].end
                                /\ range'[o].end <= Len(vectors'[storage'[o]])
         /\ GetMutSucceeds'
         /\ SnapshotsOf(s)' = vector
         /\ \A o \in Sections \ {s} : SnapshotsOf(o)' = SnapshotsOf(o)
<1>1. s \in Sections /\ length \in Nat /\ storage \in [Sections -> Arcs]
  BY LenProperties DEF TypeOK
<1>2. vectors' \in [Arcs -> Seq(PackedSnapshots)] /\ range' \in [Sections -> Ranges]
  BY <1>1 DEF TypeOK, Ranges
<1>3. /\ vectors'[storage'[s]] = vector
      /\ range'[s] = [start |-> 0, end |-> length]
  BY <1>1 DEF TypeOK
<1>4. range'[s].start = 0 /\ range'[s].end = length
  BY <1>3
<1>5. ASSUME NEW o \in Sections \ {s}
      PROVE  /\ vectors'[storage'[o]] = vectors[storage[o]]
             /\ range'[o] = range[o]
  <2>1. storage[o] # storage[s]
    BY DEF GetMutSucceeds
  <2>2. QED
    BY <1>1, <2>1 DEF TypeOK
<1>6. ASSUME NEW o \in Sections
      PROVE  /\ range'[o].start <= range'[o].end
             /\ range'[o].end <= Len(vectors'[storage'[o]])
  <2>1. CASE o = s
    BY <2>1, <1>1, <1>3, <1>4
  <2>2. CASE o # s
    BY <2>2, <1>5 DEF TypeOK
  <2>3. QED
    BY <2>1, <2>2
<1>7. GetMutSucceeds'
  BY <1>5 DEF GetMutSucceeds, TypeOK
<1>8. SnapshotsOf(s)' = vector
  BY <1>3, <1>4, WholeVector DEF SnapshotsOf
<1>9. \A o \in Sections \ {s} : SnapshotsOf(o)' = SnapshotsOf(o)
  BY <1>5 DEF SnapshotsOf
<1>10. QED
  BY <1>2, <1>6, <1>7, <1>8, <1>9

(* The first insertion into a section changes that section's snapshots     *)
(* only.                                                                   *)
LEMMA InsertFirstEffect ==
  ASSUME TypeOK, GetMutSucceeds, NEW s \in Sections, NEW t \in Times, NEW grid \in Grids,
         InsertFirst(s, t, grid)
  PROVE  /\ TypeOK'
         /\ GetMutSucceeds'
         /\ SnapshotsOf(s) = <<>>
         /\ SnapshotsOf(s)' = <<[timestamp |-> t, data |-> grid]>>
         /\ \A o \in Sections \ {s} : SnapshotsOf(o)' = SnapshotsOf(o)
<1> USE DEF InsertFirst
<1> DEFINE vector == <<[timestamp |-> t, data |-> grid]>>
<1>1. vector \in Seq(PackedSnapshots) /\ Len(vector) = 1
  BY DEF PackedSnapshots, Grids, Deltas
<1>2. /\ vectors' = [vectors EXCEPT ![storage[s]] = vector]
      /\ range' = [range EXCEPT ![s] = [start |-> 0, end |-> 1]]
      /\ UNCHANGED <<storage, reader, loader>>
      /\ inserting' = inserting \ {s} /\ s \in inserting
  OBVIOUS
<1>3. truth' \in [Sections -> Seq(FullSnapshots)]
  <2>1. <<[timestamp |-> t, grid |-> grid]>> \in Seq(FullSnapshots)
    BY DEF FullSnapshots
  <2>2. QED
    BY <2>1 DEF TypeOK
<1> HIDE DEF vector
<1>4. /\ vectors' \in [Arcs -> Seq(PackedSnapshots)]
      /\ range' \in [Sections -> Ranges]
      /\ \A o \in Sections : /\ range'[o].start <= range'[o].end
                             /\ range'[o].end <= Len(vectors'[storage'[o]])
      /\ GetMutSucceeds'
      /\ SnapshotsOf(s)' = vector
      /\ \A o \in Sections \ {s} : SnapshotsOf(o)' = SnapshotsOf(o)
  BY <1>1, <1>2, WriteThroughEffect
<1>5. TypeOK'
  BY <1>2, <1>3, <1>4 DEF TypeOK
<1>6. SnapshotsOf(s) = <<>>
  BY OwnedVector
<1>7. QED
  BY <1>4, <1>5, <1>6 DEF vector

(* A newer snapshot in front changes its section's snapshots only.         *)
LEMMA InsertNewerEffect ==
  ASSUME TypeOK, GetMutSucceeds, StoresTheTruth,
         NEW s \in Sections, NEW t \in Times, NEW grid \in Grids,
         InsertNewer(s, t, grid)
  PROVE  /\ TypeOK'
         /\ GetMutSucceeds'
         /\ SnapshotsOf(s) # <<>>
         /\ t > SnapshotsOf(s)[1].timestamp
         /\ grid # SnapshotsOf(s)[1].data
         /\ SnapshotsOf(s)' = Inserted(SnapshotsOf(s), t, grid)
         /\ \A o \in Sections \ {s} : SnapshotsOf(o)' = SnapshotsOf(o)
<1> DEFINE vector == vectors[storage[s]]
           longer == Inserted(vector, t, grid)
<1>1. /\ s \in inserting /\ vector # <<>>
      /\ t > vector[1].timestamp /\ grid # vector[1].data
      /\ vectors' = [vectors EXCEPT ![storage[s]] = longer]
      /\ range' = [range EXCEPT ![s] = [start |-> 0, end |-> Len(vector) + 1]]
      /\ truth' = [truth EXCEPT ![s] = <<[timestamp |-> t, grid |-> grid]>> \o @]
      /\ inserting' = inserting \ {s}
      /\ UNCHANGED <<storage, reader, loader>>
  BY DEF InsertNewer
<1>2. vector \in Seq(PackedSnapshots) /\ SnapshotsOf(s) = vector
  BY <1>1, OwnedVector
<1>3. vector[1].data \in Grids
  <2>1. Len(vector) \in Nat \ {0} /\ truth[s] \in Seq(FullSnapshots)
    BY <1>1, <1>2, EmptySeq DEF TypeOK
  <2>2. Len(vector) = Len(truth[s]) /\ truth[s][1].grid = vector[1].data
    BY <1>2, <2>1 DEF StoresTheTruth, Stores
  <2>3. truth[s][1] \in FullSnapshots
    BY <2>1, <2>2, ElementOfSeq
  <2>4. QED
    BY <2>2, <2>3 DEF FullSnapshots
<1> HIDE DEF vector
<1>4. longer \in Seq(PackedSnapshots) /\ Len(vector) + 1 = Len(longer)
  <2>1. vector # <<>> /\ vector \in Seq(PackedSnapshots)
    BY <1>1, <1>2
  <2>2. /\ Inserted(vector, t, grid) \in Seq(PackedSnapshots)
        /\ Len(Inserted(vector, t, grid)) = Len(vector) + 1
    BY <2>1, <1>3, InsertedShape, Zenon
  <2>3. QED
    BY <2>2
<1>5. truth' \in [Sections -> Seq(FullSnapshots)]
  <2>1. <<[timestamp |-> t, grid |-> grid]>> \in Seq(FullSnapshots)
    BY DEF FullSnapshots
  <2>2. <<[timestamp |-> t, grid |-> grid]>> \o truth[s] \in Seq(FullSnapshots)
    BY <2>1, ConcatProperties DEF TypeOK
  <2>3. QED
    BY <1>1, <2>2 DEF TypeOK
<1> HIDE DEF longer
<1>6. /\ vectors' \in [Arcs -> Seq(PackedSnapshots)]
      /\ range' \in [Sections -> Ranges]
      /\ \A o \in Sections : /\ range'[o].start <= range'[o].end
                             /\ range'[o].end <= Len(vectors'[storage'[o]])
      /\ GetMutSucceeds'
      /\ SnapshotsOf(s)' = longer
      /\ \A o \in Sections \ {s} : SnapshotsOf(o)' = SnapshotsOf(o)
  BY <1>1, <1>4, WriteThroughEffect
<1>7. TypeOK'
  BY <1>1, <1>5, <1>6 DEF TypeOK
<1>8. QED
  BY <1>1, <1>2, <1>6, <1>7 DEF longer

(* A clone has its origin's snapshots, and no other section's change.      *)
LEMMA CloneEffect ==
  ASSUME TypeOK, GetMutSucceeds, NEW s \in Sections, NEW origin \in Sections,
         CloneFrom(s, origin)
  PROVE  /\ TypeOK'
         /\ GetMutSucceeds'
         /\ SnapshotsOf(s)' = SnapshotsOf(origin)
         /\ \A o \in Sections \ {s} : SnapshotsOf(o)' = SnapshotsOf(o)
<1>0. /\ storage' = [storage EXCEPT ![s] = storage[origin]]
      /\ range' = [range EXCEPT ![s] = range[origin]]
      /\ vectors' = Collected(vectors, storage')
      /\ truth' = [truth EXCEPT ![s] = truth[origin]]
      /\ UNCHANGED <<inserting, reader, loader>>
      /\ {s, origin} \cap inserting = {}
  BY DEF CloneFrom
<1>1. /\ storage' \in [Sections -> Arcs] /\ range' \in [Sections -> Ranges]
      /\ truth' \in [Sections -> Seq(FullSnapshots)]
  BY <1>0 DEF TypeOK
<1>2. vectors' \in [Arcs -> Seq(PackedSnapshots)]
  BY <1>0, <1>1, CollectedType DEF TypeOK
<1>3. \A o \in Sections : vectors'[storage'[o]] = vectors[storage'[o]]
  <2>1. \A o \in Sections : Collected(vectors, storage')[storage'[o]] = vectors[storage'[o]]
    BY <1>1, CollectedKeeps, Zenon
  <2>2. QED
    BY <1>0, <2>1, Zenon
<1>4. /\ storage'[s] = storage[origin] /\ range'[s] = range[origin]
      /\ \A o \in Sections \ {s} : storage'[o] = storage[o] /\ range'[o] = range[o]
  BY <1>0 DEF TypeOK
<1>5. TypeOK'
  <2>1. ASSUME NEW o \in Sections
        PROVE  /\ range'[o].start <= range'[o].end
               /\ range'[o].end <= Len(vectors'[storage'[o]])
    <3>1. PICK p \in Sections : range'[o] = range[p] /\ storage'[o] = storage[p]
      BY <1>4
    <3>2. vectors'[storage'[o]] = vectors[storage[p]]
      BY <1>3, <3>1
    <3>3. QED
      BY <3>1, <3>2 DEF TypeOK
  <2>2. QED
    BY <1>0, <1>1, <1>2, <2>1 DEF TypeOK
<1>6. GetMutSucceeds'
  <2>1. ASSUME NEW i \in inserting
        PROVE  /\ \A o \in Sections \ {i} : storage'[o] # storage'[i]
               /\ range'[i] = [start |-> 0, end |-> Len(vectors'[storage'[i]])]
    <3>1. i \in Sections \ {s} /\ i # origin
      BY <1>0 DEF TypeOK
    <3>2. storage'[i] = storage[i] /\ range'[i] = range[i]
          /\ vectors'[storage'[i]] = vectors[storage[i]]
      BY <1>3, <1>4, <3>1
    <3>3. ASSUME NEW o \in Sections \ {i}
          PROVE  storage'[o] # storage'[i]
      <4>1. PICK p \in Sections \ {i} : storage'[o] = storage[p]
        BY <1>4, <3>1
      <4>2. QED
        BY <4>1, <3>2 DEF GetMutSucceeds
    <3>4. QED
      BY <3>2, <3>3 DEF GetMutSucceeds
  <2>2. QED
    BY <1>0, <2>1 DEF GetMutSucceeds
<1>7. SnapshotsOf(s)' = SnapshotsOf(origin)
  <2>1. vectors'[storage'[s]] = vectors[storage'[s]]
    BY <1>3
  <2>2. storage'[s] = storage[origin] /\ range'[s] = range[origin]
    BY <1>4
  <2>3. QED
    BY <2>1, <2>2 DEF SnapshotsOf
<1>8. \A o \in Sections \ {s} : SnapshotsOf(o)' = SnapshotsOf(o)
  BY <1>3, <1>4 DEF SnapshotsOf
<1>9. QED
  BY <1>5, <1>6, <1>7, <1>8

(* The reader keeps at most what there is.                                 *)
LEMMA KeptBounds ==
  ASSUME NEW count \in Nat, NEW maxDeltas \in Nat
  PROVE  Kept(count, maxDeltas) \in 0..count
BY DEF Kept

(* A slice of a vector is still there when the vector grows at the end.    *)
LEMMA SliceOfConcat ==
  ASSUME NEW S, NEW v \in Seq(S), NEW w \in Seq(S), NEW start \in Nat, NEW end \in Nat,
         start <= end, end <= Len(v)
  PROVE  SubSeq(v \o w, start + 1, end) = SubSeq(v, start + 1, end)
<1> DEFINE whole == v \o w
           left == SubSeq(whole, start + 1, end)
           right == SubSeq(v, start + 1, end)
<1>1. Len(v) \in Nat /\ Len(w) \in Nat
  BY LenProperties
<1>2. /\ whole \in Seq(S) /\ Len(whole) = Len(v) + Len(w)
      /\ \A i \in 1..Len(v) + Len(w) :
           whole[i] = IF i <= Len(v) THEN v[i] ELSE w[i - Len(v)]
  BY ConcatProperties
<1> HIDE DEF whole
<1>3. /\ left \in Seq(S) /\ Len(left) = end - start
      /\ \A k \in 1..(end - start) : left[k] = whole[start + k]
  BY <1>1, <1>2, Slice
<1>4. /\ right \in Seq(S) /\ Len(right) = end - start /\ end - start \in Nat
      /\ \A k \in 1..(end - start) : right[k] = v[start + k]
  BY <1>1, Slice
<1> HIDE DEF left, right
<1>5. ASSUME NEW k \in 1..(end - start)
      PROVE  left[k] = right[k]
  <2>1. start + k \in 1..Len(v) + Len(w) /\ start + k <= Len(v)
    BY <1>1
  <2>2. whole[start + k] = v[start + k]
    BY <1>2, <2>1
  <2>3. QED
    BY <1>3, <1>4, <2>2
<1>6. QED
  BY <1>3, <1>4, <1>5, SeqEqual DEF left, right, whole

(* The slice that has just been appended is what was appended.             *)
LEMMA LastSlice ==
  ASSUME NEW S, NEW v \in Seq(S), NEW w \in Seq(S)
  PROVE  SubSeq(v \o w, Len(v) + 1, Len(v) + Len(w)) = w
<1> DEFINE whole == v \o w
           start == Len(v)
           end == Len(v) + Len(w)
           left == SubSeq(whole, start + 1, end)
<1>1. Len(v) \in Nat /\ Len(w) \in Nat
  BY LenProperties
<1>2. /\ whole \in Seq(S) /\ Len(whole) = Len(v) + Len(w)
      /\ \A i \in 1..Len(v) + Len(w) :
           whole[i] = IF i <= Len(v) THEN v[i] ELSE w[i - Len(v)]
  BY ConcatProperties
<1> HIDE DEF whole
<1>3. start \in Nat /\ end \in Nat /\ start <= end /\ end <= Len(whole)
      /\ end - start = Len(w)
  BY <1>1, <1>2
<1> HIDE DEF start, end
<1>4. /\ left \in Seq(S) /\ Len(left) = end - start
      /\ \A k \in 1..(end - start) : left[k] = whole[start + k]
  BY <1>2, <1>3, Slice
<1> HIDE DEF left
<1>5. ASSUME NEW k \in 1..Len(w)
      PROVE  left[k] = w[k]
  <2>1. start + k \in 1..Len(v) + Len(w) /\ ~(start + k <= Len(v))
        /\ (start + k) - Len(v) = k
    BY <1>1 DEF start
  <2>2. whole[start + k] = w[k]
    BY <1>2, <2>1
  <2>3. QED
    BY <1>3, <1>4, <2>2
<1>6. left = w
  BY <1>3, <1>4, <1>5, SeqEqual
<1>7. QED
  BY <1>6 DEF left, whole, start, end

-----------------------------------------------------------------------------
(* The inductive invariant                                                 *)

(***************************************************************************)
(* StoresTheTruth and ReadIsHistorical are not inductive alone: the first  *)
(* needs GetMutSucceeds (nobody else sees an insertion), the second needs  *)
(* to know how far a running call has come, and both need the slices a     *)
(* loader has collected to be those of the sections.                       *)
(***************************************************************************)
IInv ==
  /\ TypeOK
  /\ GetMutSucceeds
  /\ StoresTheTruth
  /\ NewestFirst
  /\ ReaderFollows
  /\ LoaderSlices

(* What the newest stored snapshot is, in both forms.                      *)
LEMMA NewestStored ==
  ASSUME TypeOK, StoresTheTruth, NEW s \in Sections
  PROVE  /\ truth[s] \in Seq(FullSnapshots)
         /\ Len(truth[s]) \in Nat
         /\ Len(SnapshotsOf(s)) = Len(truth[s])
         /\ SnapshotsOf(s) # <<>> => /\ 1 \in 1..Len(truth[s])
                                    /\ truth[s][1] \in FullSnapshots
                                    /\ SnapshotsOf(s)[1].timestamp = truth[s][1].timestamp
                                    /\ SnapshotsOf(s)[1].data = truth[s][1].grid
<1>1. truth[s] \in Seq(FullSnapshots) /\ Len(truth[s]) \in Nat
  BY LenProperties DEF TypeOK
<1>2. Stores(SnapshotsOf(s), truth[s])
  BY DEF StoresTheTruth
<1>3. Len(SnapshotsOf(s)) = Len(truth[s])
  BY <1>2 DEF Stores
<1>4. ASSUME SnapshotsOf(s) # <<>>
      PROVE  /\ 1 \in 1..Len(truth[s])
             /\ truth[s][1] \in FullSnapshots
             /\ SnapshotsOf(s)[1].timestamp = truth[s][1].timestamp
             /\ SnapshotsOf(s)[1].data = truth[s][1].grid
  <2>1. Len(SnapshotsOf(s)) \in Nat \ {0}
    BY <1>4, ViewProperties, EmptySeq
  <2>2. 1 \in 1..Len(truth[s])
    BY <1>1, <1>3, <2>1
  <2>3. QED
    BY <1>1, <1>2, <2>2, ElementOfSeq DEF Stores
<1>5. QED
  BY <1>1, <1>3, <1>4

(* A step that changes what no section holds nor its history.              *)
LEMMA ViewsKept ==
  ASSUME StoresTheTruth, NewestFirst, UNCHANGED truth,
         \A s \in Sections : SnapshotsOf(s)' = SnapshotsOf(s)
  PROVE  StoresTheTruth' /\ NewestFirst'
BY DEF StoresTheTruth, NewestFirst

(* ensure_owned_storage preserves the invariant.                           *)
LEMMA EnsureOwnedKeeps ==
  ASSUME IInv, NEW s \in Sections, EnsureOwnedStorage(s)
  PROVE  IInv'
<1>1. /\ UNCHANGED <<reader, loader, truth>> /\ inserting' = inserting \cup {s}
      /\ loader = NoLoader /\ reader.section # s
  BY DEF EnsureOwnedStorage, Borrowed
<1>2. /\ TypeOK' /\ GetMutSucceeds'
      /\ \A o \in Sections : SnapshotsOf(o)' = SnapshotsOf(o)
  BY EnsureOwnedEffect DEF IInv
<1>3. StoresTheTruth' /\ NewestFirst'
  BY <1>1, <1>2, ViewsKept DEF IInv
<1>4. ReaderFollows'
  BY <1>1 DEF IInv, ReaderFollows
<1>5. LoaderSlices'
  BY <1>1 DEF LoaderSlices
<1>6. QED
  BY <1>2, <1>3, <1>4, <1>5 DEF IInv

(* Only a call that runs can be disturbed, and its section is not inserted *)
(* into.                                                                   *)
LEMMA ReaderUndisturbed ==
  ASSUME IInv, NEW s \in Sections, reader.section # s,
         UNCHANGED <<reader, loader>>, inserting' \subseteq inserting,
         truth' \in [Sections -> Seq(FullSnapshots)],
         \A o \in Sections \ {s} : truth'[o] = truth[o]
  PROVE  ReaderFollows'
<1>1. CASE reader = NoReader
  BY <1>1 DEF ReaderFollows
<1>2. CASE reader # NoReader
  <2>1. reader.section \in Sections \ {s}
    BY <1>2 DEF IInv, TypeOK, Readers
  <2>2. truth'[reader.section] = truth[reader.section]
    BY <2>1
  <2>3. QED
    BY <2>2, <1>2 DEF IInv, ReaderFollows
<1>3. QED
  BY <1>1, <1>2

(* A section in an insertion is not borrowed, and nothing is loading.      *)
LEMMA InsertingExcludes ==
  ASSUME IInv, NEW s \in inserting
  PROVE  /\ s \in Sections
         /\ reader.section # s
         /\ loader = NoLoader
<1>1. s \in Sections /\ loader = NoLoader
  BY DEF IInv, TypeOK, LoaderSlices
<1>2. reader.section # s
  <2>1. CASE reader = NoReader
    <3>1. reader.section = 0
      BY <2>1 DEF NoReader
    <3>2. QED
      BY <1>1, <3>1 DEF Sections
  <2>2. CASE reader # NoReader
    BY <2>2 DEF IInv, ReaderFollows
  <2>3. QED
    BY <2>1, <2>2
<1>3. QED
  BY <1>1, <1>2

(* A first insertion preserves the invariant.                              *)
LEMMA InsertFirstKeeps ==
  ASSUME IInv, NEW s \in Sections, NEW t \in Times, NEW grid \in Grids,
         InsertFirst(s, t, grid)
  PROVE  IInv'
<1> DEFINE packed == [timestamp |-> t, data |-> grid]
           full == [timestamp |-> t, grid |-> grid]
<1>1. /\ s \in inserting /\ UNCHANGED <<reader, loader>>
      /\ inserting' = inserting \ {s}
      /\ truth' = [truth EXCEPT ![s] = <<full>>]
  BY DEF InsertFirst
<1>2. /\ TypeOK' /\ GetMutSucceeds'
      /\ SnapshotsOf(s)' = <<packed>>
      /\ \A o \in Sections \ {s} : SnapshotsOf(o)' = SnapshotsOf(o)
  BY InsertFirstEffect DEF IInv
<1>3. truth'[s] = <<full>> /\ \A o \in Sections \ {s} : truth'[o] = truth[o]
  BY <1>1 DEF IInv, TypeOK
<1>4. Stores(<<packed>>, <<full>>)
  BY DEF Stores
<1>5. StoresTheTruth'
  <2>1. ASSUME NEW o \in Sections
        PROVE  Stores(SnapshotsOf(o)', truth'[o])
    <3>1. CASE o = s
      BY <3>1, <1>2, <1>3, <1>4
    <3>2. CASE o # s
      BY <3>2, <1>2, <1>3 DEF IInv, StoresTheTruth
    <3>3. QED
      BY <3>1, <3>2
  <2>2. QED
    BY <2>1 DEF StoresTheTruth
<1>6. NewestFirst'
  <2>1. ASSUME NEW o \in Sections, NEW i \in 1..Len(truth'[o]), NEW j \in 1..Len(truth'[o]),
               i < j
        PROVE  truth'[o][i].timestamp > truth'[o][j].timestamp
    <3>1. CASE o = s
      BY <3>1, <2>1, <1>3
    <3>2. CASE o # s
      BY <3>2, <2>1, <1>3 DEF IInv, NewestFirst
    <3>3. QED
      BY <3>1, <3>2
  <2>2. QED
    BY <2>1 DEF NewestFirst
<1>7. reader.section # s /\ loader = NoLoader
  BY <1>1, InsertingExcludes
<1>8. ReaderFollows'
  <2>1. truth' \in [Sections -> Seq(FullSnapshots)] /\ inserting' \subseteq inserting
    BY <1>1, <1>2 DEF TypeOK
  <2>2. QED
    BY <2>1, <1>1, <1>3, <1>7, ReaderUndisturbed
<1>9. LoaderSlices'
  BY <1>1, <1>7 DEF LoaderSlices
<1>10. QED
  BY <1>2, <1>5, <1>6, <1>8, <1>9 DEF IInv

(* A newer snapshot in front of a history that is newest first.            *)
LEMMA NewestFirstGrows ==
  ASSUME NEW snapshots \in Seq(FullSnapshots), NEW new \in FullSnapshots,
         snapshots # <<>>, new.timestamp > snapshots[1].timestamp,
         \A i, j \in 1..Len(snapshots) :
           i < j => snapshots[i].timestamp > snapshots[j].timestamp
  PROVE  \A i, j \in 1..Len(<<new>> \o snapshots) :
           i < j => (<<new>> \o snapshots)[i].timestamp > (<<new>> \o snapshots)[j].timestamp
<1> DEFINE longer == <<new>> \o snapshots
<1>1. Len(snapshots) \in Nat \ {0}
  BY EmptySeq
<1>2. <<new>> \in Seq(FullSnapshots) /\ Len(<<new>>) = 1
  OBVIOUS
<1>3. /\ Len(longer) = Len(snapshots) + 1
      /\ longer[1] = new
      /\ \A k \in 2..(Len(snapshots) + 1) : longer[k] = snapshots[k - 1]
  BY <1>1, <1>2, ConcatProperties
<1>4. new.timestamp \in Int /\ \A k \in 1..Len(snapshots) : snapshots[k].timestamp \in Int
  <2>1. \A k \in 1..Len(snapshots) : snapshots[k] \in FullSnapshots
    BY ElementOfSeq
  <2>2. QED
    BY <2>1, ParametersOK DEF FullSnapshots
<1> HIDE DEF longer
<1>5. ASSUME NEW i \in 1..Len(longer), NEW j \in 1..Len(longer), i < j
      PROVE  longer[i].timestamp > longer[j].timestamp
  <2>1. j - 1 \in 1..Len(snapshots) /\ longer[j] = snapshots[j - 1]
    BY <1>1, <1>3, <1>5
  <2>2. CASE i = 1
    <3>1. snapshots[1].timestamp >= snapshots[j - 1].timestamp
      <4>1. CASE j - 1 = 1
        BY <4>1, <1>1, <1>4
      <4>2. CASE 1 < j - 1
        BY <4>2, <2>1, <1>1, <1>4
      <4>3. QED
        BY <2>1, <4>1, <4>2
    <3>2. 1 \in 1..Len(snapshots)
      BY <1>1
    <3>3. QED
      BY <2>1, <2>2, <3>1, <3>2, <1>3, <1>4
  <2>3. CASE i # 1
    <3>1. i - 1 \in 1..Len(snapshots) /\ longer[i] = snapshots[i - 1] /\ i - 1 < j - 1
      BY <2>3, <1>1, <1>3, <1>5
    <3>2. QED
      BY <2>1, <3>1
  <2>4. QED
    BY <2>2, <2>3
<1>6. QED
  BY <1>5 DEF longer

(* The insertion of a newer snapshot preserves the invariant.              *)
LEMMA InsertNewerKeeps ==
  ASSUME IInv, NEW s \in Sections, NEW t \in Times, NEW grid \in Grids,
         InsertNewer(s, t, grid)
  PROVE  IInv'
<1> DEFINE full == [timestamp |-> t, grid |-> grid]
<1>1. /\ s \in inserting /\ UNCHANGED <<reader, loader>>
      /\ inserting' = inserting \ {s}
      /\ truth' = [truth EXCEPT ![s] = <<full>> \o @]
  BY DEF InsertNewer
<1>2. /\ TypeOK' /\ GetMutSucceeds'
      /\ SnapshotsOf(s) # <<>> /\ t > SnapshotsOf(s)[1].timestamp
      /\ SnapshotsOf(s)' = Inserted(SnapshotsOf(s), t, grid)
      /\ \A o \in Sections \ {s} : SnapshotsOf(o)' = SnapshotsOf(o)
  BY InsertNewerEffect DEF IInv
<1>3. truth'[s] = <<full>> \o truth[s] /\ \A o \in Sections \ {s} : truth'[o] = truth[o]
  BY <1>1 DEF IInv, TypeOK
<1>4. /\ truth[s] \in Seq(FullSnapshots) /\ SnapshotsOf(s) \in Seq(PackedSnapshots)
      /\ Stores(SnapshotsOf(s), truth[s])
  BY ViewProperties DEF IInv, TypeOK, StoresTheTruth
<1>5. Stores(Inserted(SnapshotsOf(s), t, grid), <<full>> \o truth[s])
  BY <1>2, <1>4, InsertedStores
<1> HIDE DEF full
<1>6. StoresTheTruth'
  <2>1. ASSUME NEW o \in Sections
        PROVE  Stores(SnapshotsOf(o)', truth'[o])
    <3>1. CASE o = s
      BY <3>1, <1>2, <1>3, <1>5
    <3>2. CASE o # s
      BY <3>2, <1>2, <1>3 DEF IInv, StoresTheTruth
    <3>3. QED
      BY <3>1, <3>2
  <2>2. QED
    BY <2>1 DEF StoresTheTruth
<1>7. NewestFirst'
  <2>1. /\ truth[s] # <<>> /\ full \in FullSnapshots
        /\ full.timestamp > truth[s][1].timestamp
    <3>1. SnapshotsOf(s)[1].timestamp = truth[s][1].timestamp /\ 1 \in 1..Len(truth[s])
      BY <1>2, NewestStored DEF IInv
    <3>2. QED
      BY <1>2, <1>4, <3>1, EmptySeq DEF full, FullSnapshots
  <2>2. \A i, j \in 1..Len(<<full>> \o truth[s]) :
          i < j => (<<full>> \o truth[s])[i].timestamp > (<<full>> \o truth[s])[j].timestamp
    <3>1. \A i, j \in 1..Len(truth[s]) : i < j => truth[s][i].timestamp > truth[s][j].timestamp
      BY DEF IInv, NewestFirst
    <3>2. QED
      BY <1>4, <2>1, <3>1, NewestFirstGrows
  <2>3. ASSUME NEW o \in Sections
        PROVE  \A i, j \in 1..Len(truth'[o]) :
                 i < j => truth'[o][i].timestamp > truth'[o][j].timestamp
    <3>1. CASE o = s
      BY <3>1, <2>2, <1>3
    <3>2. CASE o # s
      BY <3>2, <1>3 DEF IInv, NewestFirst
    <3>3. QED
      BY <3>1, <3>2
  <2>4. QED
    BY <2>3 DEF NewestFirst
<1>8. reader.section # s /\ loader = NoLoader
  BY <1>1, InsertingExcludes
<1>9. ReaderFollows'
  <2>1. truth' \in [Sections -> Seq(FullSnapshots)] /\ inserting' \subseteq inserting
    BY <1>1, <1>2 DEF TypeOK
  <2>2. QED
    BY <2>1, <1>1, <1>3, <1>8, ReaderUndisturbed
<1>10. LoaderSlices'
  BY <1>1, <1>8 DEF LoaderSlices
<1>11. QED
  BY <1>2, <1>6, <1>7, <1>9, <1>10 DEF IInv

(* A rejected insertion preserves the invariant.                           *)
LEMMA RejectKeeps ==
  ASSUME IInv, NEW s \in Sections, NEW t, NEW grid, RejectSnapshot(s, t, grid)
  PROVE  IInv'
<1>1. /\ UNCHANGED <<vectors, storage, range, reader, loader, truth>>
      /\ inserting' = inserting \ {s} /\ s \in inserting
  BY DEF RejectSnapshot
<1>2. \A o \in Sections : SnapshotsOf(o)' = SnapshotsOf(o)
  BY <1>1 DEF SnapshotsOf
<1>3. TypeOK' /\ GetMutSucceeds'
  BY <1>1 DEF IInv, TypeOK, GetMutSucceeds
<1>4. StoresTheTruth' /\ NewestFirst'
  BY <1>1, <1>2, ViewsKept DEF IInv
<1>5. ReaderFollows'
  BY <1>1 DEF IInv, ReaderFollows
<1>6. LoaderSlices'
  BY <1>1, InsertingExcludes DEF LoaderSlices
<1>7. QED
  BY <1>3, <1>4, <1>5, <1>6 DEF IInv

(* Cloning preserves the invariant.                                        *)
LEMMA CloneKeeps ==
  ASSUME IInv, NEW s \in Sections, NEW origin \in Sections, CloneFrom(s, origin)
  PROVE  IInv'
<1>1. /\ UNCHANGED <<inserting, reader, loader>> /\ loader = NoLoader
      /\ truth' = [truth EXCEPT ![s] = truth[origin]] /\ reader.section # s
  BY DEF CloneFrom, Borrowed
<1>2. /\ TypeOK' /\ GetMutSucceeds'
      /\ SnapshotsOf(s)' = SnapshotsOf(origin)
      /\ \A o \in Sections \ {s} : SnapshotsOf(o)' = SnapshotsOf(o)
  BY CloneEffect DEF IInv
<1>3. truth'[s] = truth[origin] /\ \A o \in Sections \ {s} : truth'[o] = truth[o]
  BY <1>1 DEF IInv, TypeOK
<1>4. ASSUME NEW o \in Sections
      PROVE  \E p \in Sections : SnapshotsOf(o)' = SnapshotsOf(p) /\ truth'[o] = truth[p]
  BY <1>2, <1>3
<1>5. StoresTheTruth'
  <2>1. ASSUME NEW o \in Sections
        PROVE  Stores(SnapshotsOf(o)', truth'[o])
    <3>1. PICK p \in Sections : SnapshotsOf(o)' = SnapshotsOf(p) /\ truth'[o] = truth[p]
      BY <1>4
    <3>2. QED
      BY <3>1 DEF IInv, StoresTheTruth
  <2>2. QED
    BY <2>1 DEF StoresTheTruth
<1>6. NewestFirst'
  BY <1>3 DEF IInv, NewestFirst
<1>7. ReaderFollows'
  <2>1. truth' \in [Sections -> Seq(FullSnapshots)] /\ inserting' \subseteq inserting
    BY <1>1, <1>2 DEF TypeOK
  <2>2. QED
    BY <2>1, <1>1, <1>3, ReaderUndisturbed
<1>8. LoaderSlices'
  BY <1>1 DEF LoaderSlices
<1>9. QED
  BY <1>2, <1>5, <1>6, <1>7, <1>8 DEF IInv

(* The start of a load preserves the invariant.                            *)
LEMMA StartLoadingKeeps ==
  ASSUME IInv, NEW maxDeltas \in Limits, StartLoading(maxDeltas)
  PROVE  IInv'
<1>1. /\ UNCHANGED <<vectors, storage, range, inserting, reader, truth>>
      /\ reader = NoReader /\ inserting = {}
      /\ loader' = [next |-> 1, maxDeltas |-> maxDeltas, shared |-> <<>>,
                    ranges |-> [s \in Sections |-> [start |-> 0, end |-> 0]]]
  BY DEF StartLoading, Idle
<1>2. \A o \in Sections : SnapshotsOf(o)' = SnapshotsOf(o)
  BY <1>1 DEF SnapshotsOf
<1>3. loader' \in Loaders /\ loader'.next = 1
  BY <1>1, ParametersOK DEF Loaders, Ranges
<1>4. TypeOK' /\ GetMutSucceeds'
  BY <1>1, <1>3 DEF IInv, TypeOK, GetMutSucceeds
<1>5. StoresTheTruth' /\ NewestFirst'
  BY <1>1, <1>2, ViewsKept DEF IInv
<1>6. ReaderFollows'
  BY <1>1 DEF ReaderFollows
<1>7. LoaderSlices'
  BY <1>1, <1>3 DEF LoaderSlices, Sections
<1>8. QED
  BY <1>4, <1>5, <1>6, <1>7 DEF IInv

(* Loading one section of a group preserves the invariant.                 *)
LEMMA LoadSectionKeeps ==
  ASSUME IInv, LoadSection
  PROVE  IInv'
<1> DEFINE s == loader.next
           count == Len(SnapshotsOf(s))
           kept == Kept(count, loader.maxDeltas)
           newest == SubSeq(SnapshotsOf(s), 1, kept)
           start == Len(loader.shared)
           slice == [start |-> start, end |-> start + kept]
<1>1. /\ UNCHANGED <<vectors, storage, range, inserting, reader, truth>>
      /\ loader # NoLoader /\ s \in Sections
      /\ loader' = [loader EXCEPT !.next = s + 1,
                                  !.shared = @ \o newest,
                                  !.ranges = [@ EXCEPT ![s] = slice]]
  BY DEF LoadSection
<1>2. loader \in Loaders
  BY <1>1 DEF IInv, TypeOK
<1>3. /\ SnapshotsOf(s) \in Seq(PackedSnapshots) /\ count \in Nat
      /\ kept \in 0..count
  BY <1>1, <1>2, ViewProperties, KeptBounds DEF IInv, Loaders
<1>4. newest \in Seq(PackedSnapshots) /\ Len(newest) = kept
  <2> HIDE DEF kept
  <2>1. /\ 0 \in Nat /\ kept \in Nat /\ 0 <= kept /\ kept <= Len(SnapshotsOf(s))
        /\ 0 + 1 = 1 /\ kept - 0 = kept
    BY <1>3
  <2>2. /\ SubSeq(SnapshotsOf(s), 0 + 1, kept) \in Seq(PackedSnapshots)
        /\ Len(SubSeq(SnapshotsOf(s), 0 + 1, kept)) = kept - 0
    BY <1>3, <2>1, Slice
  <2>3. QED
    BY <2>1, <2>2
<1> HIDE DEF newest, kept
<1>5. /\ loader.shared \in Seq(PackedSnapshots) /\ start \in Nat
      /\ loader.shared \o newest \in Seq(PackedSnapshots)
      /\ Len(loader.shared \o newest) = start + kept
  BY <1>2, <1>4, ConcatProperties, LenProperties DEF Loaders
<1>6. /\ loader'.next = s + 1 /\ loader'.maxDeltas = loader.maxDeltas
      /\ loader'.shared = loader.shared \o newest
      /\ loader'.ranges = [loader.ranges EXCEPT ![s] = slice]
  BY <1>1, <1>2 DEF Loaders
<1>7. slice \in Ranges
  BY <1>3, <1>5 DEF Ranges
<1> HIDE DEF slice
<1>8. loader' \in Loaders
  <2>1. loader.ranges \in [Sections -> Ranges] /\ s \in 1..SectionCount
    BY <1>1, <1>2 DEF Loaders, Sections
  <2>2. loader'.ranges \in [Sections -> Ranges]
    BY <1>6, <1>7, <2>1
  <2>3. s + 1 \in 1..(SectionCount + 1)
    BY <2>1, ParametersOK
  <2>4. QED
    BY <1>1, <1>2, <1>5, <1>6, <2>2, <2>3 DEF Loaders
<1>9. TypeOK' /\ GetMutSucceeds'
  BY <1>1, <1>8 DEF IInv, TypeOK, GetMutSucceeds
<1>10. \A o \in Sections : SnapshotsOf(o)' = SnapshotsOf(o)
  BY <1>1 DEF SnapshotsOf
<1>11. StoresTheTruth' /\ NewestFirst'
  BY <1>1, <1>10, ViewsKept DEF IInv
<1>12. inserting = {} /\ reader = NoReader
  BY <1>1 DEF IInv, LoaderSlices
<1>13. ReaderFollows'
  BY <1>1, <1>12 DEF ReaderFollows
<1>14. ASSUME NEW o \in Sections, o < loader'.next
       PROVE  LET r == loader'.ranges[o]
              IN  /\ r.start <= r.end /\ r.end <= Len(loader'.shared)
                  /\ SubSeq(loader'.shared, r.start + 1, r.end)
                       = SubSeq(SnapshotsOf(o), 1, Kept(Len(SnapshotsOf(o)), loader'.maxDeltas))
  <2>1. CASE o = s
    <3>1. loader'.ranges[s] = slice /\ slice.start = start /\ slice.end = start + kept
      BY <1>1, <1>2, <1>6 DEF Loaders, slice
    <3>2. SubSeq(loader.shared \o newest, start + 1, start + kept) = newest
      BY <1>4, <1>5, LastSlice
    <3>3. QED
      BY <2>1, <3>1, <3>2, <1>3, <1>5, <1>6 DEF newest, kept
  <2>2. CASE o # s
    <3> DEFINE r == loader.ranges[o]
    <3>1. loader'.ranges[o] = r /\ r \in Ranges
      BY <2>2, <1>2, <1>6 DEF Loaders
    <3>2. o < loader.next
      BY <2>2, <1>1, <1>6, <1>14 DEF Sections
    <3>3. /\ r.start <= r.end /\ r.end <= Len(loader.shared)
          /\ SubSeq(loader.shared, r.start + 1, r.end)
               = SubSeq(SnapshotsOf(o), 1, Kept(Len(SnapshotsOf(o)), loader.maxDeltas))
      BY <3>2, <1>1 DEF IInv, LoaderSlices
    <3> HIDE DEF r
    <3>4. r.start \in Nat /\ r.end \in Nat
      BY <3>1 DEF Ranges
    <3>5. SubSeq(loader.shared \o newest, r.start + 1, r.end)
            = SubSeq(loader.shared, r.start + 1, r.end)
      BY <3>3, <3>4, <1>4, <1>5, SliceOfConcat
    <3>6. r.end <= Len(loader'.shared)
      BY <3>3, <3>4, <1>3, <1>5, <1>6
    <3>7. QED
      BY <3>1, <3>3, <3>5, <3>6, <1>6
  <2>3. QED
    BY <2>1, <2>2
<1>15. LoaderSlices'
  BY <1>1, <1>10, <1>12, <1>14 DEF LoaderSlices
<1>16. QED
  BY <1>9, <1>11, <1>13, <1>15 DEF IInv

(* The loaded sections hold the newest snapshots of the ones they replace. *)
LEMMA FinishLoadingEffect ==
  ASSUME IInv, FinishLoading
  PROVE  /\ TypeOK'
         /\ \A s \in Sections :
              SnapshotsOf(s)' =
                SubSeq(SnapshotsOf(s), 1, Kept(Len(SnapshotsOf(s)), loader.maxDeltas))
<1>1. PICK arc \in Arcs :
        /\ storage' = [s \in Sections |-> arc]
        /\ vectors' = Collected([vectors EXCEPT ![arc] = loader.shared], storage')
  BY DEF FinishLoading
<1>2. /\ loader # NoLoader /\ loader.next = SectionCount + 1
      /\ range' = loader.ranges /\ loader' = NoLoader
      /\ truth' = [s \in Sections |->
                     SubSeq(truth[s], 1, Kept(Len(truth[s]), loader.maxDeltas))]
      /\ UNCHANGED <<inserting, reader>>
  BY DEF FinishLoading
<1> DEFINE contents == [vectors EXCEPT ![arc] = loader.shared]
<1>3. loader \in Loaders
  BY <1>2 DEF IInv, TypeOK
<1>4. /\ loader.shared \in Seq(PackedSnapshots) /\ loader.ranges \in [Sections -> Ranges]
      /\ loader.maxDeltas \in Nat
  BY <1>3 DEF Loaders
<1>5. contents \in [Arcs -> Seq(PackedSnapshots)] /\ contents[arc] = loader.shared
  BY <1>4 DEF IInv, TypeOK
<1>6. storage' \in [Sections -> Arcs] /\ \A s \in Sections : storage'[s] = arc
  BY <1>1
<1>7. vectors' = Collected(contents, storage')
  BY <1>1
<1> HIDE DEF contents
<1>8. vectors' \in [Arcs -> Seq(PackedSnapshots)]
  BY <1>5, <1>6, <1>7, CollectedType
<1>9. \A s \in Sections : vectors'[storage'[s]] = loader.shared
  <2>1. \A s \in Sections : vectors'[storage'[s]] = contents[storage'[s]]
    BY <1>6, <1>7, CollectedKeeps
  <2>2. QED
    BY <2>1, <1>5, <1>6
<1>10. ASSUME NEW s \in Sections
       PROVE  /\ range'[s] = loader.ranges[s]
              /\ range'[s].start <= range'[s].end
              /\ range'[s].end <= Len(loader.shared)
              /\ SubSeq(loader.shared, range'[s].start + 1, range'[s].end)
                   = SubSeq(SnapshotsOf(s), 1, Kept(Len(SnapshotsOf(s)), loader.maxDeltas))
  <2>1. s < loader.next
    BY <1>2, ParametersOK DEF Sections
  <2>2. QED
    BY <1>2, <2>1 DEF IInv, LoaderSlices
<1>11. truth' \in [Sections -> Seq(FullSnapshots)]
  <2>1. ASSUME NEW s \in Sections
        PROVE  SubSeq(truth[s], 1, Kept(Len(truth[s]), loader.maxDeltas)) \in Seq(FullSnapshots)
    <3> DEFINE n == Kept(Len(truth[s]), loader.maxDeltas)
    <3>1. truth[s] \in Seq(FullSnapshots) /\ Len(truth[s]) \in Nat
      BY LenProperties DEF IInv, TypeOK
    <3>2. n \in 0..Len(truth[s])
      BY <1>4, <3>1, KeptBounds
    <3> HIDE DEF n
    <3>3. /\ \A i \in 1..n : truth[s][i] \in FullSnapshots
          /\ n \in Int
      BY <3>1, <3>2, ElementOfSeq
    <3>4. SubSeq(truth[s], 1, n) \in Seq(FullSnapshots)
      BY <3>3, SubSeqProperties
    <3>5. QED
      BY <3>4 DEF n
  <2>2. QED
    BY <1>2, <2>1
<1>12. TypeOK'
  <2>1. inserting' \subseteq Sections /\ reader' \in Readers \cup {NoReader}
        /\ loader' \in Loaders \cup {NoLoader} /\ range' \in [Sections -> Ranges]
    BY <1>2, <1>4 DEF IInv, TypeOK
  <2>2. QED
    BY <1>6, <1>8, <1>9, <1>10, <1>11, <2>1 DEF TypeOK
<1>13. ASSUME NEW s \in Sections
       PROVE  SnapshotsOf(s)' =
                SubSeq(SnapshotsOf(s), 1, Kept(Len(SnapshotsOf(s)), loader.maxDeltas))
  <2>1. SnapshotsOf(s)' = SubSeq(loader.shared, range'[s].start + 1, range'[s].end)
    BY <1>9 DEF SnapshotsOf
  <2>2. QED
    BY <1>10, <2>1
<1>14. QED
  BY <1>12, <1>13

(* Handing the loaded slices to the sections preserves the invariant.      *)
LEMMA FinishLoadingKeeps ==
  ASSUME IInv, FinishLoading
  PROVE  IInv'
<1>1. /\ loader # NoLoader /\ loader' = NoLoader
      /\ truth' = [s \in Sections |->
                     SubSeq(truth[s], 1, Kept(Len(truth[s]), loader.maxDeltas))]
      /\ UNCHANGED <<inserting, reader>>
  BY DEF FinishLoading
<1>2. /\ TypeOK'
      /\ \A s \in Sections :
           SnapshotsOf(s)' =
             SubSeq(SnapshotsOf(s), 1, Kept(Len(SnapshotsOf(s)), loader.maxDeltas))
  BY FinishLoadingEffect
<1>3. inserting = {} /\ reader = NoReader /\ loader.maxDeltas \in Nat
  BY <1>1 DEF IInv, LoaderSlices, TypeOK, Loaders
<1>4. GetMutSucceeds' /\ ReaderFollows' /\ LoaderSlices'
  BY <1>1, <1>3 DEF GetMutSucceeds, ReaderFollows, LoaderSlices
<1>5. ASSUME NEW s \in Sections
      PROVE  \E n \in 0..Len(SnapshotsOf(s)) :
               /\ SnapshotsOf(s)' = SubSeq(SnapshotsOf(s), 1, n)
               /\ truth'[s] = SubSeq(truth[s], 1, n)
               /\ n \in 0..Len(truth[s])
  <2> DEFINE n == Kept(Len(SnapshotsOf(s)), loader.maxDeltas)
  <2>1. Len(SnapshotsOf(s)) = Len(truth[s]) /\ Len(SnapshotsOf(s)) \in Nat
    BY NewestStored DEF IInv
  <2>2. n \in 0..Len(SnapshotsOf(s))
    BY <1>3, <2>1, KeptBounds
  <2>3. SnapshotsOf(s)' = SubSeq(SnapshotsOf(s), 1, n) /\ truth'[s] = SubSeq(truth[s], 1, n)
    BY <1>1, <1>2, <2>1
  <2>4. QED
    BY <2>1, <2>2, <2>3
<1>6. StoresTheTruth'
  <2>1. ASSUME NEW s \in Sections
        PROVE  Stores(SnapshotsOf(s)', truth'[s])
    <3>1. PICK n \in 0..Len(SnapshotsOf(s)) :
            SnapshotsOf(s)' = SubSeq(SnapshotsOf(s), 1, n) /\ truth'[s] = SubSeq(truth[s], 1, n)
      BY <1>5
    <3>2. /\ SnapshotsOf(s) \in Seq(PackedSnapshots) /\ truth[s] \in Seq(FullSnapshots)
          /\ Stores(SnapshotsOf(s), truth[s])
      BY ViewProperties DEF IInv, TypeOK, StoresTheTruth
    <3>3. Stores(SubSeq(SnapshotsOf(s), 1, n), SubSeq(truth[s], 1, n))
      BY <3>2, PrefixStores
    <3>4. QED
      BY <3>1, <3>3
  <2>2. QED
    BY <2>1 DEF StoresTheTruth
<1>7. NewestFirst'
  <2>1. ASSUME NEW s \in Sections
        PROVE  \A i, j \in 1..Len(truth'[s]) :
                 i < j => truth'[s][i].timestamp > truth'[s][j].timestamp
    <3>1. PICK n \in 0..Len(truth[s]) : truth'[s] = SubSeq(truth[s], 1, n)
      BY <1>5
    <3>2. truth[s] \in Seq(FullSnapshots) /\ Len(truth[s]) \in Nat
      BY NewestStored DEF IInv
    <3>3. /\ \A i \in 1..n : truth[s][i] \in FullSnapshots
          /\ n \in Int /\ n - 1 + 1 = n
      BY <3>2, ElementOfSeq
    <3>4. /\ Len(truth'[s]) = n
          /\ \A i \in 1..n : truth'[s][i] = truth[s][i]
      BY <3>1, <3>2, <3>3, SubSeqProperties
    <3>5. QED
      BY <3>2, <3>4 DEF IInv, NewestFirst
  <2>2. QED
    BY <2>1 DEF NewestFirst
<1>8. QED
  BY <1>2, <1>4, <1>6, <1>7 DEF IInv

(* The first step of snapshot_before preserves the invariant.              *)
LEMMA SnapshotBeforeKeeps ==
  ASSUME IInv, NEW s \in Sections, NEW t \in Times, SnapshotBefore(s, t)
  PROVE  IInv'
<1> DEFINE latest == SnapshotsOf(s)[1]
<1>1. /\ UNCHANGED <<vectors, storage, range, inserting, loader, truth>>
      /\ loader = NoLoader /\ s \notin inserting /\ SnapshotsOf(s) # <<>>
      /\ reader' = [section |-> s, time |-> t, at |-> 1, grid |-> latest.data,
                    done |-> t >= latest.timestamp \/ Len(SnapshotsOf(s)) = 1]
  BY DEF SnapshotBefore, Idle
<1>2. /\ Len(truth[s]) \in Nat /\ Len(SnapshotsOf(s)) = Len(truth[s])
      /\ 1 \in 1..Len(truth[s]) /\ truth[s][1] \in FullSnapshots
      /\ latest.timestamp = truth[s][1].timestamp /\ latest.data = truth[s][1].grid
  BY <1>1, NewestStored DEF IInv
<1>3. t \in Int /\ truth[s][1].timestamp \in Int /\ truth[s][1].grid \in Grids
  BY <1>2, ParametersOK DEF FullSnapshots
<1> HIDE DEF latest
<1>4. /\ reader'.section = s /\ reader'.time = t /\ reader'.at = 1
      /\ reader'.grid = truth[s][1].grid
      /\ reader'.done = (t >= truth[s][1].timestamp \/ Len(truth[s]) = 1)
  BY <1>1, <1>2
<1>5. reader' \in Readers
  BY <1>1, <1>2, <1>3 DEF Readers
<1>6. TypeOK' /\ GetMutSucceeds'
  BY <1>1, <1>5 DEF IInv, TypeOK, GetMutSucceeds
<1>7. \A o \in Sections : SnapshotsOf(o)' = SnapshotsOf(o)
  BY <1>1 DEF SnapshotsOf
<1>8. StoresTheTruth' /\ NewestFirst'
  BY <1>1, <1>7, ViewsKept DEF IInv
<1>9. ReaderFollows'
  <2> DEFINE first == truth[s][1]
  <2>1. /\ reader'.done => (first.timestamp <= t \/ Len(truth[s]) = 1)
        /\ ~reader'.done => ~(t >= first.timestamp \/ Len(truth[s]) = 1)
    BY <1>4, t >= first.timestamp <=> first.timestamp <= t, Zenon
  <2>2. ~(t >= first.timestamp \/ Len(truth[s]) = 1)
          => first.timestamp > t /\ 1 # Len(truth[s])
    BY <1>3
  <2>3. IF reader'.done THEN first.timestamp <= t \/ 1 = Len(truth[s])
                        ELSE first.timestamp > t /\ 1 # Len(truth[s])
    BY <2>1, <2>2
  <2>4. \A k \in 1..(reader'.at - 1) : truth[s][k].timestamp > t
    BY <1>4
  <2>5. QED
    BY <1>1, <1>2, <1>4, <2>3, <2>4 DEF ReaderFollows
<1>10. LoaderSlices'
  BY <1>1 DEF LoaderSlices
<1>11. QED
  BY <1>6, <1>8, <1>9, <1>10 DEF IInv

(* Applying one delta in snapshot_before preserves the invariant.          *)
LEMMA StepBackKeeps ==
  ASSUME IInv, StepBack
  PROVE  IInv'
<1> DEFINE s == reader.section
           at == reader.at + 1
           delta == SnapshotsOf(s)[at]
<1>1. /\ UNCHANGED <<vectors, storage, range, inserting, loader, truth>>
      /\ reader # NoReader /\ ~reader.done
      /\ reader' = [reader EXCEPT !.at = at,
                                  !.grid = UnpackDeltaInto(delta.data, @),
                                  !.done = \/ Reaches(reader.time, delta)
                                           \/ at = Len(SnapshotsOf(s))]
  BY DEF StepBack
<1>2. reader \in Readers /\ s \in Sections
  BY <1>1 DEF IInv, TypeOK, Readers
<1>3. /\ loader = NoLoader /\ s \notin inserting
      /\ reader.at \in 1..Len(truth[s]) /\ reader.at # Len(truth[s])
      /\ reader.grid = truth[s][reader.at].grid
      /\ truth[s][reader.at].timestamp > reader.time
      /\ \A k \in 1..(reader.at - 1) : truth[s][k].timestamp > reader.time
  BY <1>1 DEF IInv, ReaderFollows
<1>4. /\ truth[s] \in Seq(FullSnapshots) /\ Len(truth[s]) \in Nat
      /\ Len(SnapshotsOf(s)) = Len(truth[s])
  BY <1>2, NewestStored DEF IInv
<1>5. at \in 1..Len(truth[s]) /\ at # 1 /\ at - 1 = reader.at /\ at \in Nat \ {0}
  BY <1>2, <1>3, <1>4 DEF Readers
<1>6. /\ delta.timestamp = truth[s][at].timestamp
      /\ truth[s][at].grid = UnpackDeltaInto(delta.data, truth[s][at - 1].grid)
  <2> HIDE DEF at
  <2>1. Stores(SnapshotsOf(s), truth[s])
    BY <1>2 DEF IInv, StoresTheTruth
  <2>2. QED
    BY <2>1, <1>5 DEF Stores
<1>7. truth[s][at] \in FullSnapshots /\ reader.time \in Int
  BY <1>2, <1>4, <1>5, ElementOfSeq, ParametersOK DEF Readers
<1>8. truth[s][at].timestamp \in Int /\ truth[s][at].grid \in Grids
  BY <1>7, ParametersOK DEF FullSnapshots
<1> HIDE DEF delta, at
<1>9. /\ reader'.section = s /\ reader'.time = reader.time /\ reader'.at = at
      /\ reader'.grid = truth[s][at].grid
      /\ reader'.done = (reader.time >= truth[s][at].timestamp \/ at = Len(truth[s]))
  BY <1>1, <1>2, <1>3, <1>4, <1>5, <1>6 DEF Readers, Reaches
<1>10. reader' \in Readers
  BY <1>1, <1>2, <1>5, <1>8, <1>9 DEF Readers
<1>11. TypeOK' /\ GetMutSucceeds'
  BY <1>1, <1>10 DEF IInv, TypeOK, GetMutSucceeds
<1>12. \A o \in Sections : SnapshotsOf(o)' = SnapshotsOf(o)
  BY <1>1 DEF SnapshotsOf
<1>13. StoresTheTruth' /\ NewestFirst'
  BY <1>1, <1>12, ViewsKept DEF IInv
<1>14. ReaderFollows'
  <2>1. \A k \in 1..(at - 1) : truth[s][k].timestamp > reader.time
    <3>1. ASSUME NEW k \in 1..(at - 1)
          PROVE  truth[s][k].timestamp > reader.time
      <4>1. k = reader.at \/ k \in 1..(reader.at - 1)
        BY <1>5
      <4>2. QED
        BY <4>1, <1>3
    <3>2. QED
      BY <3>1
  <2> DEFINE reached == truth[s][at]
             time == reader.time
  <2>2. time >= reached.timestamp <=> reached.timestamp <= time
    BY <1>7, <1>8
  <2>3. /\ reader'.done => (reached.timestamp <= time \/ at = Len(truth[s]))
        /\ ~reader'.done => ~(reached.timestamp <= time \/ at = Len(truth[s]))
    BY <1>9, <2>2, Zenon
  <2>4. ~(reached.timestamp <= time \/ at = Len(truth[s]))
          => reached.timestamp > time /\ at # Len(truth[s])
    BY <1>7, <1>8
  <2>5. IF reader'.done THEN reached.timestamp <= time \/ at = Len(truth[s])
                        ELSE reached.timestamp > time /\ at # Len(truth[s])
    BY <2>3, <2>4
  <2>6. \A k \in 1..(reader'.at - 1) : truth[s][k].timestamp > time
    BY <1>9, <2>1
  <2> HIDE DEF reached, time, s
  <2>7. QED
    BY <1>1, <1>3, <1>5, <1>9, <2>5, <2>6 DEF ReaderFollows, reached, time, s
<1>15. LoaderSlices'
  BY <1>1, <1>3 DEF LoaderSlices
<1>16. QED
  BY <1>11, <1>13, <1>14, <1>15 DEF IInv

(* The return of snapshot_before preserves the invariant.                  *)
LEMMA ReturnKeeps ==
  ASSUME IInv, Return
  PROVE  IInv'
<1>1. /\ UNCHANGED <<vectors, storage, range, inserting, loader, truth>>
      /\ reader # NoReader /\ reader' = NoReader
  BY DEF Return
<1>2. \A o \in Sections : SnapshotsOf(o)' = SnapshotsOf(o)
  BY <1>1 DEF SnapshotsOf
<1>3. TypeOK' /\ GetMutSucceeds'
  BY <1>1 DEF IInv, TypeOK, GetMutSucceeds
<1>4. StoresTheTruth' /\ NewestFirst'
  BY <1>1, <1>2, ViewsKept DEF IInv
<1>5. ReaderFollows' /\ LoaderSlices'
  BY <1>1 DEF IInv, ReaderFollows, LoaderSlices
<1>6. QED
  BY <1>3, <1>4, <1>5 DEF IInv

(* A step that changes nothing preserves the invariant.                    *)
LEMMA StutterKeeps ==
  ASSUME IInv, UNCHANGED vars
  PROVE  IInv'
<1>1. UNCHANGED <<vectors, storage, range, inserting, reader, loader, truth>>
  BY DEF vars
<1>2. \A o \in Sections : SnapshotsOf(o)' = SnapshotsOf(o)
  BY <1>1 DEF SnapshotsOf
<1>3. StoresTheTruth' /\ NewestFirst'
  BY <1>1, <1>2, ViewsKept DEF IInv
<1>4. TypeOK' /\ GetMutSucceeds'
  BY <1>1 DEF IInv, TypeOK, GetMutSucceeds
<1>5. ReaderFollows'
  BY <1>1 DEF IInv, ReaderFollows
<1>6. LoaderSlices'
  BY <1>1, <1>2 DEF IInv, LoaderSlices
<1>7. QED
  BY <1>3, <1>4, <1>5, <1>6 DEF IInv

(* A new segment satisfies the invariant.                                  *)
LEMMA InitEstablishes == Init => IInv
<1> SUFFICES ASSUME Init PROVE IInv
  OBVIOUS
<1>1. PICK arc \in Arcs : storage = [s \in Sections |-> arc]
  BY DEF Init
<1>2. /\ vectors = [a \in Arcs |-> <<>>]
      /\ range = [s \in Sections |-> [start |-> 0, end |-> 0]]
      /\ inserting = {} /\ reader = NoReader /\ loader = NoLoader
      /\ truth = [s \in Sections |-> <<>>]
  BY DEF Init
<1>3. TypeOK
  BY <1>1, <1>2, EmptySeq DEF TypeOK, Ranges
<1>4. ASSUME NEW s \in Sections
      PROVE  SnapshotsOf(s) = <<>> /\ truth[s] = <<>>
  <2>1. range[s].start = 0 /\ range[s].end = 0 /\ 0 < 0 + 1
    BY <1>2
  <2>2. SnapshotsOf(s) = SubSeq(vectors[storage[s]], 0 + 1, 0)
    BY <2>1 DEF SnapshotsOf
  <2>3. SnapshotsOf(s) = <<>>
    BY <2>2, SubSeqEmpty
  <2>4. QED
    BY <2>3, <1>2
<1>5. StoresTheTruth /\ NewestFirst
  BY <1>4 DEF StoresTheTruth, NewestFirst, Stores
<1>6. GetMutSucceeds /\ ReaderFollows /\ LoaderSlices
  BY <1>2 DEF GetMutSucceeds, ReaderFollows, LoaderSlices
<1>7. QED
  BY <1>3, <1>5, <1>6 DEF IInv

(* What a recorder hands over are full grids.                              *)
LEMMA ObservedAreGrids == Observed \subseteq Grids
BY ParametersOK DEF Grids

(* Every step preserves the invariant.                                     *)
LEMMA NextKeeps == IInv /\ [Next]_vars => IInv'
<1> SUFFICES ASSUME IInv, [Next]_vars PROVE IInv'
  OBVIOUS
<1>1. ASSUME NEW s \in Sections, EnsureOwnedStorage(s) PROVE IInv'
  BY <1>1, EnsureOwnedKeeps
<1>2. ASSUME NEW s \in Sections, NEW t \in Times, NEW grid \in Observed,
             \/ InsertFirst(s, t, grid)
             \/ InsertNewer(s, t, grid)
             \/ RejectSnapshot(s, t, grid)
      PROVE  IInv'
  <2>1. grid \in Grids
    BY ObservedAreGrids
  <2>2. QED
    BY <1>2, <2>1, InsertFirstKeeps, InsertNewerKeeps, RejectKeeps
<1>3. ASSUME NEW s \in Sections, NEW origin \in Sections, CloneFrom(s, origin)
      PROVE  IInv'
  BY <1>3, CloneKeeps
<1>4. ASSUME NEW maxDeltas \in Limits, StartLoading(maxDeltas) PROVE IInv'
  BY <1>4, StartLoadingKeeps
<1>5. CASE LoadSection
  BY <1>5, LoadSectionKeeps
<1>6. CASE FinishLoading
  BY <1>6, FinishLoadingKeeps
<1>7. ASSUME NEW s \in Sections, NEW t \in Times, SnapshotBefore(s, t) PROVE IInv'
  BY <1>7, SnapshotBeforeKeeps
<1>8. CASE StepBack
  BY <1>8, StepBackKeeps
<1>9. CASE Return
  BY <1>9, ReturnKeeps
<1>10. CASE UNCHANGED vars
  BY <1>10, StutterKeeps
<1>11. QED
  BY <1>1, <1>2, <1>3, <1>4, <1>5, <1>6, <1>7, <1>8, <1>9, <1>10 DEF Next

(* The inductive invariant holds in every reachable state.                 *)
LEMMA Invariance == Spec => []IInv
BY InitEstablishes, NextKeeps, PTL DEF Spec

-----------------------------------------------------------------------------
(* Theorems                                                                *)

(* Every slice lies in its vector, whatever is shared with whom.           *)
THEOREM TypeCorrect == Spec => []TypeOK
BY Invariance, PTL DEF IInv

(* insert_snapshot's Arc::get_mut never panics.                            *)
THEOREM ExclusiveInsertion == Spec => []GetMutSucceeds
BY Invariance, PTL DEF IInv

(* The reverse deltas of every section are those of all it recorded.       *)
THEOREM HistoryIsStored == Spec => []StoresTheTruth
BY Invariance, PTL DEF IInv

(* snapshot_before returns the snapshot that was current at the time.      *)
THEOREM ReadsAreHistorical == Spec => []ReadIsHistorical
<1>1. IInv => ReadIsHistorical
  <2> SUFFICES ASSUME IInv, reader # NoReader, reader.done
               PROVE  LET snapshots == truth[reader.section]
                          found == snapshots[reader.at]
                      IN  /\ reader.at \in 1..Len(snapshots)
                          /\ reader.grid = found.grid
                          /\ \A k \in 1..Len(snapshots) :
                               IF found.timestamp <= reader.time
                               THEN snapshots[k].timestamp <= reader.time
                                      => snapshots[k].timestamp <= found.timestamp
                               ELSE /\ snapshots[k].timestamp > reader.time
                                    /\ found.timestamp <= snapshots[k].timestamp
    BY DEF ReadIsHistorical
  <2> DEFINE s == reader.section
             at == reader.at
  <2>1. s \in Sections /\ reader.time \in Int
    BY ParametersOK DEF IInv, TypeOK, Readers
  <2>2. /\ at \in 1..Len(truth[s]) /\ reader.grid = truth[s][at].grid
        /\ \A k \in 1..(at - 1) : truth[s][k].timestamp > reader.time
        /\ truth[s][at].timestamp <= reader.time \/ at = Len(truth[s])
    BY DEF IInv, ReaderFollows
  <2>3. truth[s] \in Seq(FullSnapshots) /\ Len(truth[s]) \in Nat
    BY <2>1, NewestStored DEF IInv
  <2>4. \A k \in 1..Len(truth[s]) : truth[s][k].timestamp \in Int
    <3>1. \A k \in 1..Len(truth[s]) : truth[s][k] \in FullSnapshots
      BY <2>3, ElementOfSeq
    <3>2. QED
      BY <3>1, ParametersOK DEF FullSnapshots
  <2>5. \A i, j \in 1..Len(truth[s]) : i < j => truth[s][i].timestamp > truth[s][j].timestamp
    BY <2>1 DEF IInv, NewestFirst
  <2> HIDE DEF s, at
  <2>6. ASSUME NEW k \in 1..Len(truth[s])
        PROVE  IF truth[s][at].timestamp <= reader.time
               THEN truth[s][k].timestamp <= reader.time
                      => truth[s][k].timestamp <= truth[s][at].timestamp
               ELSE /\ truth[s][k].timestamp > reader.time
                    /\ truth[s][at].timestamp <= truth[s][k].timestamp
    <3>1. CASE k < at
      <4>1. truth[s][k].timestamp > reader.time
        BY <3>1, <2>2, <2>3
      <4>2. truth[s][k].timestamp > truth[s][at].timestamp
        BY <3>1, <2>2, <2>5
      <4>3. QED
        BY <4>1, <4>2, <2>1, <2>2, <2>4
    <3>2. CASE k = at
      BY <3>2, <2>1, <2>2, <2>4
    <3>3. CASE k > at
      <4>1. truth[s][at].timestamp > truth[s][k].timestamp /\ at # Len(truth[s])
        BY <3>3, <2>2, <2>3, <2>5
      <4>2. QED
        BY <4>1, <2>1, <2>2, <2>4
    <3>4. QED
      BY <3>1, <3>2, <3>3, <2>2, <2>3
  <2>7. QED
    BY <2>2, <2>6 DEF s, at
<1>2. QED
  BY <1>1, Invariance, PTL

(* Insertions change the contents of no section but their own.             *)
THEOREM InsertionIsolated == Spec => InsertionIsIsolated
<1> DEFINE Isolated ==
             /\ inserting' \ inserting # {} =>
                  \A s \in Sections : SnapshotsOf(s)' = SnapshotsOf(s)
             /\ \A s \in inserting \ inserting' :
                  \A other \in Sections \ {s} : SnapshotsOf(other)' = SnapshotsOf(other)
<1>1. ASSUME IInv, Next PROVE Isolated
  <2>1. ASSUME NEW s \in Sections, EnsureOwnedStorage(s) PROVE Isolated
    <3>1. inserting' = inserting \cup {s}
      BY <2>1 DEF EnsureOwnedStorage
    <3>2. \A o \in Sections : SnapshotsOf(o)' = SnapshotsOf(o)
      BY <1>1, <2>1, EnsureOwnedEffect DEF IInv
    <3>3. QED
      BY <3>1, <3>2
  <2>2. ASSUME NEW s \in Sections, NEW t \in Times, NEW grid \in Observed,
               \/ InsertFirst(s, t, grid)
               \/ InsertNewer(s, t, grid)
               \/ RejectSnapshot(s, t, grid)
        PROVE  Isolated
    <3>1. grid \in Grids
      BY ObservedAreGrids
    <3>2. inserting' = inserting \ {s}
      BY <2>2 DEF InsertFirst, InsertNewer, RejectSnapshot
    <3>3. \A o \in Sections \ {s} : SnapshotsOf(o)' = SnapshotsOf(o)
      <4>1. CASE InsertFirst(s, t, grid)
        BY <1>1, <3>1, <4>1, InsertFirstEffect DEF IInv
      <4>2. CASE InsertNewer(s, t, grid)
        BY <1>1, <3>1, <4>2, InsertNewerEffect DEF IInv
      <4>3. CASE RejectSnapshot(s, t, grid)
        BY <4>3 DEF RejectSnapshot, SnapshotsOf
      <4>4. QED
        BY <2>2, <4>1, <4>2, <4>3
    <3>4. QED
      BY <3>2, <3>3
  <2>3. ASSUME UNCHANGED inserting PROVE Isolated
    BY <2>3
  <2>4. ASSUME NEW s \in Sections, NEW origin \in Sections, CloneFrom(s, origin)
        PROVE  UNCHANGED inserting
    BY <2>4 DEF CloneFrom
  <2>5. ASSUME NEW maxDeltas \in Limits, StartLoading(maxDeltas) PROVE UNCHANGED inserting
    BY <2>5 DEF StartLoading
  <2>6. LoadSection \/ FinishLoading => UNCHANGED inserting
    BY DEF LoadSection, FinishLoading
  <2>7. ASSUME NEW s \in Sections, NEW t \in Times, SnapshotBefore(s, t)
        PROVE  UNCHANGED inserting
    BY <2>7 DEF SnapshotBefore
  <2>8. StepBack \/ Return => UNCHANGED inserting
    BY DEF StepBack, Return
  <2> HIDE DEF Isolated
  <2>9. QED
    BY <1>1, <2>1, <2>2, <2>3, <2>4, <2>5, <2>6, <2>7, <2>8 DEF Next
<1>2. IInv /\ [Next]_vars => [Isolated]_vars
  BY <1>1
<1>3. QED
  BY <1>2, Invariance, PTL DEF Spec, InsertionIsIsolated

-----------------------------------------------------------------------------
(* The delta storage implements the abstract histories of SectionHistory:  *)
(* what is rebuilt from the deltas of a section is the history it          *)
(* recorded, and every step maps to a step of a history or to none.        *)

(* What reconstruct_history rebuilds from the deltas of a section is what  *)
(* the section recorded.                                                   *)
LEMMA RebuiltIsTrue ==
  ASSUME TypeOK, StoresTheTruth, NEW s \in Sections
  PROVE  ReconstructHistory(s) = truth[s]
<1> DEFINE deltas == SnapshotsOf(s)
           snapshots == truth[s]
           n == Len(snapshots)
           Rebuilds(c) == c = [k \in DOMAIN deltas |->
                                 IF k = 1 THEN deltas[1].data
                                          ELSE UnpackDeltaInto(deltas[k].data, c[k - 1])]
           current == CHOOSE c : Rebuilds(c)
           grids == [k \in DOMAIN deltas |-> snapshots[k].grid]
<1>1. /\ snapshots \in Seq(FullSnapshots) /\ n \in Nat /\ Len(deltas) = n
      /\ deltas \in Seq(PackedSnapshots) /\ DOMAIN deltas = 1..n /\ DOMAIN snapshots = 1..n
  BY NewestStored, ViewProperties, LenProperties
<1>2. \A k \in 1..n : /\ deltas[k].timestamp = snapshots[k].timestamp
                      /\ snapshots[k].grid =
                           IF k = 1 THEN deltas[1].data
                                    ELSE UnpackDeltaInto(deltas[k].data, snapshots[k - 1].grid)
  BY DEF StoresTheTruth, Stores
<1>3. ReconstructHistory(s) =
        [k \in DOMAIN deltas |-> [timestamp |-> deltas[k].timestamp, grid |-> current[k]]]
  BY DEF ReconstructHistory
<1> HIDE DEF deltas, snapshots, n
<1>4. \A k \in 1..n : k # 1 => k - 1 \in 1..n
  BY <1>1
<1>5. Rebuilds(grids)
  BY <1>1, <1>2, <1>4
<1>6. Rebuilds(current)
  BY <1>5
<1> HIDE DEF current
<1>7. \A k \in 1..n :
        current[k] = IF k = 1 THEN deltas[1].data
                              ELSE UnpackDeltaInto(deltas[k].data, current[k - 1])
  BY <1>1, <1>6
<1> HIDE DEF Rebuilds, grids
<1> DEFINE agreed == {k \in 1..n : current[k] = snapshots[k].grid}
<1>8. 1 \in Nat /\ (1 <= n => 1 \in agreed)
  BY <1>1, <1>2, <1>7
<1>9. ASSUME NEW k \in 1..(n - 1), k \in agreed
      PROVE  k + 1 \in agreed
  <2>1. k + 1 \in 1..n /\ k + 1 # 1 /\ (k + 1) - 1 = k
    BY <1>1
  <2>2. current[k + 1] = UnpackDeltaInto(deltas[k + 1].data, current[k])
    BY <1>7, <2>1
  <2>3. snapshots[k + 1].grid = UnpackDeltaInto(deltas[k + 1].data, snapshots[k].grid)
    BY <1>2, <2>1
  <2> QED BY <1>9, <2>1, <2>2, <2>3
<1> HIDE DEF agreed
<1>10. 1..n \subseteq agreed
  BY <1>1, <1>8, <1>9, AllUpTo
<1>11. \A k \in 1..n : current[k] = snapshots[k].grid
  BY <1>10 DEF agreed
<1>12. ASSUME NEW k \in 1..n
       PROVE  snapshots[k] = [timestamp |-> deltas[k].timestamp, grid |-> current[k]]
  <2>1. snapshots[k] \in FullSnapshots
    BY <1>1, ElementOfSeq
  <2> QED BY <1>2, <1>11, <2>1 DEF FullSnapshots
<1>13. snapshots = [k \in 1..n |-> snapshots[k]]
  BY <1>1
<1> QED BY <1>1, <1>3, <1>12, <1>13 DEF deltas, snapshots

(* The abstract state a concrete one stands for.                           *)
Rebuilt == [s \in Sections |-> ReconstructHistory(s)]

(* It is what the sections recorded.                                       *)
LEMMA RebuiltAreTrue ==
  IInv => /\ Rebuilt = truth
          /\ truth \in [Sections -> Seq(FullSnapshots)]
<1> SUFFICES ASSUME IInv
             PROVE  /\ Rebuilt = truth
                    /\ truth \in [Sections -> Seq(FullSnapshots)]
  OBVIOUS
<1>1. \A s \in Sections : ReconstructHistory(s) = truth[s]
  BY RebuiltIsTrue DEF IInv
<1>2. truth \in [Sections -> Seq(FullSnapshots)]
  BY DEF IInv, TypeOK
<1> QED BY <1>1, <1>2 DEF Rebuilt

(* The same after a step.                                                  *)
LEMMA RebuiltStayTrue == IInv' => Rebuilt' = truth'
<1> DEFINE True == Rebuilt = truth
<1>1. IInv => True
  BY RebuiltAreTrue
<1> HIDE DEF True
<1>2. IInv' => True'
  BY <1>1, PTL
<1> QED BY <1>2 DEF True

-----------------------------------------------------------------------------
(* Steps as steps of the histories                                         *)

(* A snapshot put in front of a history, as an abstract step.              *)
LEMMA PutInFront ==
  ASSUME IInv, IInv', NEW s \in Sections, NEW new \in FullSnapshots,
         truth' = [truth EXCEPT ![s] = <<new>> \o @],
         truth[s] # <<>> => /\ new.timestamp > truth[s][1].timestamp
                            /\ new.grid # truth[s][1].grid
  PROVE  Histories!Record(s)
<1>1. /\ Rebuilt = truth /\ Rebuilt' = truth'
      /\ truth \in [Sections -> Seq(FullSnapshots)]
  BY RebuiltAreTrue, RebuiltStayTrue
<1>2. <<new>> \in Seq(FullSnapshots) /\ Len(<<new>>) = 1 /\ <<new>>[1] = new
  OBVIOUS
<1>3. truth[s] \in Seq(FullSnapshots) /\ Len(truth[s]) \in Nat
  BY <1>1, LenProperties
<1>4. truth'[s] = <<new>> \o truth[s]
  BY <1>1
<1>5. Len(truth'[s]) = Len(truth[s]) + 1 /\ truth'[s][1] = new
  BY <1>2, <1>3, <1>4, ConcatProperties
<1>6. new \in Histories!Snapshots
  BY DEF FullSnapshots, Grids, Histories!Snapshots, Histories!Grids
<1>7. truth' = [truth EXCEPT ![s] = <<truth'[s][1]>> \o @]
  BY <1>5
<1> QED BY <1>1, <1>5, <1>6, <1>7 DEF Histories!Record, Histories!Newest, Rebuilt

(* Every step of the storage is a step of the abstract histories or none.  *)
LEMMA StepsImplement ==
  ASSUME IInv, IInv', [Next]_vars
  PROVE  [Histories!Next]_[s \in Sections |-> ReconstructHistory(s)]
<1> DEFINE Abstract == Histories!Next \/ Rebuilt' = Rebuilt
<1>0. /\ Rebuilt = truth /\ Rebuilt' = truth'
      /\ truth \in [Sections -> Seq(FullSnapshots)]
  BY RebuiltAreTrue, RebuiltStayTrue
<1>1. ASSUME UNCHANGED truth PROVE Abstract
  BY <1>0, <1>1
<1>2. ASSUME NEW s \in Sections, NEW t \in Times, NEW grid \in Observed,
             InsertFirst(s, t, grid)
      PROVE  Abstract
  <2> DEFINE new == [timestamp |-> t, grid |-> grid]
  <2>1. grid \in Grids /\ new \in FullSnapshots
    BY ObservedAreGrids DEF FullSnapshots
  <2>2. SnapshotsOf(s) = <<>>
    BY <1>2, <2>1, InsertFirstEffect DEF IInv
  <2>3. Len(truth[s]) = 0 /\ truth[s] \in Seq(FullSnapshots)
    BY <2>2, NewestStored DEF IInv
  <2>4. truth[s] = <<>>
    BY <2>3, EmptySeq
  <2>5. truth' = [truth EXCEPT ![s] = <<new>>] /\ <<new>> = <<new>> \o <<>>
    BY <1>2 DEF InsertFirst
  <2> HIDE DEF new
  <2>6. truth' = [truth EXCEPT ![s] = <<new>> \o @]
    BY <2>4, <2>5
  <2>7. Histories!Record(s)
    BY <2>1, <2>4, <2>6, PutInFront
  <2> QED BY <2>7 DEF Histories!Next
<1>3. ASSUME NEW s \in Sections, NEW t \in Times, NEW grid \in Observed,
             InsertNewer(s, t, grid)
      PROVE  Abstract
  <2> DEFINE new == [timestamp |-> t, grid |-> grid]
  <2>1. grid \in Grids /\ new \in FullSnapshots /\ new.timestamp = t /\ new.grid = grid
    BY ObservedAreGrids DEF FullSnapshots
  <2>2. /\ SnapshotsOf(s) # <<>>
        /\ t > SnapshotsOf(s)[1].timestamp
        /\ grid # SnapshotsOf(s)[1].data
    BY <1>3, <2>1, InsertNewerEffect DEF IInv
  <2>3. t > truth[s][1].timestamp /\ grid # truth[s][1].grid
    BY <2>2, NewestStored DEF IInv
  <2>4. truth' = [truth EXCEPT ![s] = <<new>> \o @]
    BY <1>3 DEF InsertNewer
  <2> HIDE DEF new
  <2>5. Histories!Record(s)
    BY <2>1, <2>3, <2>4, PutInFront
  <2> QED BY <2>5 DEF Histories!Next
<1>4. ASSUME NEW s \in Sections, NEW origin \in Sections, CloneFrom(s, origin)
      PROVE  Abstract
  <2>1. truth' = [truth EXCEPT ![s] = truth[origin]]
    BY <1>4 DEF CloneFrom
  <2>2. Histories!CopyFrom(s, origin)
    BY <1>0, <2>1 DEF Histories!CopyFrom, Rebuilt
  <2> QED BY <2>2 DEF Histories!Next
<1>5. ASSUME FinishLoading PROVE Abstract
  <2> DEFINE kept == loader.maxDeltas
  <2>1. /\ truth' = [s \in Sections |-> SubSeq(truth[s], 1, Kept(Len(truth[s]), kept))]
        /\ loader # NoLoader
    BY <1>5 DEF FinishLoading
  <2>2. kept \in Nat
    BY <2>1 DEF IInv, TypeOK, Loaders
  <2>3. \A s \in Sections : truth[s] \in Seq(FullSnapshots) /\ Len(truth[s]) \in Nat
    BY <1>0, LenProperties
  <2> HIDE DEF kept
  <2>4. CASE \E s \in Sections : kept # 0 /\ kept <= Len(truth[s])
    <3>1. PICK s \in Sections : kept # 0 /\ kept \in 0..Len(truth[s])
      BY <2>2, <2>3, <2>4
    <3>2. \A n \in Nat : Kept(n, kept) = IF kept < n THEN kept ELSE n
      BY <3>1 DEF Kept
    <3>3. truth' = [o \in Sections |->
                      SubSeq(truth[o], 1, IF kept < Len(truth[o]) THEN kept
                                                                ELSE Len(truth[o]))]
      BY <2>1, <2>3, <3>2
    <3>4. Histories!Forget(kept)
      BY <1>0, <3>3 DEF Histories!Forget, Rebuilt
    <3>5. kept \in 0..Len(Rebuilt[s])
      BY <1>0, <3>1
    <3> QED BY <3>4, <3>5 DEF Histories!Next, Rebuilt
  <2>5. CASE ~ \E s \in Sections : kept # 0 /\ kept <= Len(truth[s])
    <3>1. \A s \in Sections : Kept(Len(truth[s]), kept) = Len(truth[s])
      BY <2>2, <2>3, <2>5 DEF Kept
    <3>2. \A s \in Sections : SubSeq(truth[s], 1, Len(truth[s])) = truth[s]
      BY <2>3, SubSeqFull
    <3>3. truth' = [s \in Sections |-> truth[s]]
      BY <2>1, <3>1, <3>2
    <3> QED BY <1>0, <3>3
  <2> QED BY <2>4, <2>5
<1>6. ASSUME NEW s \in Sections, NEW t \in Times, NEW grid \in Observed,
             RejectSnapshot(s, t, grid)
      PROVE  UNCHANGED truth
  BY <1>6 DEF RejectSnapshot
<1>7. ASSUME \/ \E s \in Sections : EnsureOwnedStorage(s)
             \/ \E maxDeltas \in Limits : StartLoading(maxDeltas)
             \/ \E s \in Sections, t \in Times : SnapshotBefore(s, t)
             \/ LoadSection \/ StepBack \/ Return \/ UNCHANGED vars
      PROVE  UNCHANGED truth
  BY <1>7 DEF EnsureOwnedStorage, StartLoading, SnapshotBefore, LoadSection, StepBack,
              Return, vars
<1> HIDE DEF Abstract
<1>8. Abstract
  <2> DEFINE Inserts(s, t, grid) == \/ InsertFirst(s, t, grid)
                                    \/ InsertNewer(s, t, grid)
                                    \/ RejectSnapshot(s, t, grid)
  <2>1. ASSUME NEW s \in Sections, NEW t \in Times, NEW grid \in Observed,
               Inserts(s, t, grid)
        PROVE  Abstract
    BY <1>1, <1>2, <1>3, <1>6, <2>1
  <2>2. CASE \E s \in Sections, t \in Times, grid \in Observed : Inserts(s, t, grid)
    BY <2>1, <2>2
  <2>3. CASE \E s, origin \in Sections : CloneFrom(s, origin)
    BY <1>4, <2>3
  <2> QED BY <1>1, <1>5, <1>7, <2>2, <2>3 DEF Next
<1> QED BY <1>8 DEF Abstract, Rebuilt

-----------------------------------------------------------------------------
(* The refinement                                                          *)

(* The rebuilt histories of a region's sections behave as the abstract     *)
(* histories do: only recording a newer, different snapshot, copying and   *)
(* reloading change them.                                                  *)
THEOREM DeltasImplementHistories == Spec => ImplementsHistories
<1>1. Init => Histories!Init
  <2> SUFFICES ASSUME Init PROVE Histories!Init
    OBVIOUS
  <2>1. IInv /\ truth = [s \in Sections |-> <<>>]
    BY InitEstablishes DEF Init
  <2> QED BY <2>1, RebuiltAreTrue DEF Histories!Init, Rebuilt
<1>2. IInv /\ IInv' /\ [Next]_vars
        => [Histories!Next]_[s \in Sections |-> ReconstructHistory(s)]
  BY StepsImplement
<1> QED BY <1>1, <1>2, Invariance, PTL DEF Spec, ImplementsHistories, Histories!Spec

=============================================================================
