------------------------ MODULE RegionExportProofs ------------------------
(***************************************************************************)
(* Proofs about RegionExport, for regions, sectors and payloads of any     *)
(* size: what a written region holds, and that an export fails only for a  *)
(* cause.                                                                  *)
(*                                                                         *)
(* The chunks that are staged are those of the segments visited so far     *)
(* that are not passed over, each at the index of the tables that belongs  *)
(* to the segment's coordinates.  What is laid out of them lies behind the *)
(* tables, each write behind the one before it, and ends where the next    *)
(* one would begin.                                                        *)
(***************************************************************************)
EXTENDS RegionExport, NaturalSets, FiniteSetTheorems, SequenceTheorems, TLAPS

(* The place that the segment of an index has in the tables.               *)
TableIndex(i) == IndexOf(XOf(i), ZOf(i))

Live == phase \notin {"Failed", "Skipped"}

(* Segments that have been staged or passed over, and table places that    *)
(* finish() is done with.                                                  *)
Visited(i) ==
  \/ phase = "stage" /\ i < at
  \/ phase \in {"finish", "write", "Written"}

Laid(i) ==
  \/ phase = "finish" /\ i < at
  \/ phase \in {"write", "Written"}

Placed == {i \in DOMAIN chunks : Laid(i)}

Payloads == {ChunkValue(i, file.segments[i]) : i \in Indices}

Writes == [offset: Nat, payload: Payloads, length: Nat]

Types ==
  /\ phase \in {"open", "stage", "finish", "write"} \cup Outcomes
  /\ at \in Indices
  /\ phase = "open" => at = 0
  /\ DOMAIN chunks \subseteq Indices
  /\ \A i \in DOMAIN chunks : chunks[i].size \in Nat /\ chunks[i].payload \in Payloads
  /\ sector_offset \in Nat
  /\ offsets \in [Indices -> [offset: Nat, count: Nat]]
  /\ chunk_writes \in Seq(Writes)
  /\ offered \in [Indices -> Nat]

StagedAre ==
  \A i \in Indices :
    /\ TableIndex(i) \in DOMAIN chunks <=> Visited(i) /\ ~IsPassedOver(file.segments[i])
    /\ TableIndex(i) \in DOMAIN chunks =>
         /\ chunks[TableIndex(i)].payload = ChunkValue(i, file.segments[i])
         /\ chunks[TableIndex(i)].size = offered[i]

Sectors(write) == DivCeil(write.length, SECTOR_SIZE)

NextSectorOf(write) == write.offset + Sectors(write)

WritesAreApart ==
  /\ sector_offset >= 2
  /\ \A k \in DOMAIN chunk_writes :
       /\ chunk_writes[k].offset >= 2
       /\ NextSectorOf(chunk_writes[k]) <= sector_offset
  /\ \A j, k \in DOMAIN chunk_writes :
       j < k => NextSectorOf(chunk_writes[j]) <= chunk_writes[k].offset

(* The tables name places of three bytes. *)
OffsetsFit ==
  /\ phase \in {"open", "stage"} => sector_offset = 2
  /\ phase = "finish" => sector_offset <= 2 + 255 * at

(* The entry of the table is the place of a write of the chunk.            *)
IsWrittenAs(i, k) ==
  /\ chunk_writes[k].payload = chunks[i].payload
  /\ chunk_writes[k].length >= 1
  /\ offsets[i] = [offset |-> chunk_writes[k].offset, count |-> Sectors(chunk_writes[k])]

TableIsRight ==
  /\ \A i \in Placed : \E k \in DOMAIN chunk_writes : IsWrittenAs(i, k)
  /\ \A i \in Indices \ Placed : offsets[i] = NoEntry

WritesAreCounted == Len(chunk_writes) = Cardinality(Placed)

(* The inductive invariant.                                                *)
IInv ==
  /\ Types
  /\ Live => /\ StagedAre
             /\ WritesAreApart
             /\ OffsetsFit
             /\ TableIsRight
             /\ WritesAreCounted
  /\ phase = "Written" => disk = Bytes
  /\ FailsForACause

-----------------------------------------------------------------------------
(* Coordinates and indices                                                 *)

LEMMA CoordinatesOf ==
  ASSUME NEW i \in Indices
  PROVE  /\ XOf(i) \in Coordinates
         /\ ZOf(i) \in Coordinates
         /\ i = XOf(i) * REGION_SIDE + ZOf(i)
BY ParametersOK, SMTT(30) DEF Indices, XOf, ZOf, Coordinates

LEMMA IndexOfCoordinates ==
  ASSUME NEW x \in Coordinates, NEW z \in Coordinates
  PROVE  /\ x * REGION_SIDE + z \in Indices
         /\ XOf(x * REGION_SIDE + z) = x
         /\ ZOf(x * REGION_SIDE + z) = z
BY ParametersOK, SMTT(30) DEF Indices, XOf, ZOf, Coordinates

(* The tables transpose the region. *)
LEMMA TableIndexTransposes ==
  ASSUME NEW i \in Indices
  PROVE  TableIndex(i) \in Indices /\ TableIndex(TableIndex(i)) = i
<1>1. XOf(i) \in Coordinates /\ ZOf(i) \in Coordinates /\ i = XOf(i) * REGION_SIDE + ZOf(i)
  BY CoordinatesOf
<1>2. TableIndex(i) = ZOf(i) * REGION_SIDE + XOf(i)
  BY DEF TableIndex, IndexOf
<1>3. /\ TableIndex(i) \in Indices
      /\ XOf(TableIndex(i)) = ZOf(i)
      /\ ZOf(TableIndex(i)) = XOf(i)
  BY <1>1, <1>2, IndexOfCoordinates
<1>4. TableIndex(TableIndex(i)) = XOf(i) * REGION_SIDE + ZOf(i)
  BY <1>3 DEF TableIndex, IndexOf
<1> QED BY <1>1, <1>3, <1>4

-----------------------------------------------------------------------------
(* Sectors                                                                 *)

LEMMA SectorsSuffice ==
  ASSUME NEW n \in Nat
  PROVE  /\ DivCeil(n, SECTOR_SIZE) \in Nat
         /\ n <= DivCeil(n, SECTOR_SIZE) * SECTOR_SIZE
         /\ n >= 1 => DivCeil(n, SECTOR_SIZE) >= 1
BY ParametersOK, SMTT(30) DEF DivCeil

LEMMA ManySectorsAreLong ==
  ASSUME NEW size \in Nat, SectorCount(size) >= 256
  PROVE  size > 255 * SECTOR_SIZE - 5
BY ParametersOK, SMTT(30) DEF SectorCount, OnDisk, DivCeil

(* What fits its sectors ends where the sectors do.                        *)
LEMMA EndsBefore ==
  ASSUME NEW offset \in Nat, NEW count \in Nat, NEW length \in Nat, NEW next \in Nat,
         length <= count * SECTOR_SIZE, offset + count <= next
  PROVE  offset * SECTOR_SIZE + length <= next * SECTOR_SIZE
<1>1. SECTOR_SIZE \in Nat
  BY ParametersOK
<1>2. PICK d \in Nat : next = (offset + count) + d
  <2>1. next - (offset + count) \in Nat
    OBVIOUS
  <2> QED BY <2>1
<1>3. next * SECTOR_SIZE = offset * SECTOR_SIZE + count * SECTOR_SIZE + d * SECTOR_SIZE
  BY <1>1, <1>2, SMTT(30)
<1>4. d * SECTOR_SIZE \in Nat /\ offset * SECTOR_SIZE \in Nat /\ count * SECTOR_SIZE \in Nat
  BY <1>1
<1> QED BY <1>3, <1>4

LEMMA IndicesAreFinite ==
  /\ IsFiniteSet(Indices)
  /\ \A S \in SUBSET Indices : IsFiniteSet(S) /\ Cardinality(S) \in Nat
<1>1. REGION_SIDE * REGION_SIDE - 1 \in Int
  BY ParametersOK
<1>2. IsFiniteSet(Indices)
  BY <1>1, FS_Interval DEF Indices
<1> QED BY <1>2, FS_Subset, FS_CardinalityType

-----------------------------------------------------------------------------
(* The steps                                                               *)

LEMMA LastIndex ==
  /\ 0 \in Indices
  /\ \A i \in Indices :
       /\ i \in Nat /\ ~(i < 0)
       /\ 2 + 255 * (i + 1) < Places
       /\ i + 1 \notin Indices => \A j \in Indices : j <= i
<1>1. REGION_SIDE * REGION_SIDE \in Nat /\ REGION_SIDE * REGION_SIDE >= 1
  BY ParametersOK, SMTT(30)
<1> DEFINE count == REGION_SIDE * REGION_SIDE
<1>2. count \in Nat /\ count >= 1 /\ 2 + 255 * count < Places /\ Indices = 0..(count - 1)
  BY <1>1, ParametersOK DEF Indices
<1>3. Places \in Nat
  BY DEF Places
<1> HIDE DEF count
<1> QED BY <1>2, <1>3

(* Advance goes to the next index, or to the next phase after the last.    *)
LEMMA AdvanceVisits ==
  ASSUME Types, Advance
  PROVE  /\ at' \in Indices
         /\ phase = "stage" =>
              /\ phase' \in {"stage", "finish"}
              /\ \A i \in Indices : Visited(i)' <=> Visited(i) \/ i = at
              /\ \A i \in Indices : ~Laid(i)'
              /\ phase' = "finish" => at' = 0
         /\ phase = "finish" =>
              /\ phase' \in {"finish", "write"}
              /\ \A i \in Indices : Visited(i)' <=> Visited(i)
              /\ \A i \in Indices : Laid(i)' <=> Laid(i) \/ i = at
              /\ phase' = "finish" => at' = at + 1
<1>1. at \in Indices /\ at \in Nat
  BY LastIndex DEF Types
<1>2. CASE at + 1 \in Indices
  <2>1. at' = at + 1 /\ phase' = phase
    BY <1>2 DEF Advance
  <2>2. \A i \in Indices : i < at + 1 <=> i < at \/ i = at
    BY <1>1, LastIndex
  <2> QED BY <1>2, <2>1, <2>2 DEF Visited, Laid
<1>3. CASE at + 1 \notin Indices
  <2>1. at' = 0 /\ phase' = IF phase = "stage" THEN "finish" ELSE "write"
    BY <1>3 DEF Advance
  <2>2. \A i \in Indices : (i < at \/ i = at) /\ ~(i < 0)
    BY <1>1, <1>3, LastIndex
  <2> QED BY <2>1, <2>2, LastIndex DEF Visited, Laid
<1> QED BY <1>2, <1>3

(* No export has begun.                                                    *)
LEMMA InitEstablishes ==
  ASSUME Init
  PROVE  IInv
<1> USE DEF Init, Live
<1>1. phase = "open" /\ chunks = <<>> /\ chunk_writes = <<>> /\ DOMAIN chunks = {}
  OBVIOUS
<1>2. NoEntry = [offset |-> 0, count |-> 0]
  BY DEF NoEntry, Entry, Places
<1>3. Types
  BY <1>1, <1>2, LastIndex DEF Types
<1>4. Placed = {}
  BY <1>1 DEF Placed
<1>5. StagedAre
  BY <1>1 DEF StagedAre, Visited
<1>6. WritesAreApart /\ OffsetsFit
  BY <1>1 DEF WritesAreApart, OffsetsFit
<1>7. TableIsRight
  BY <1>4 DEF TableIsRight
<1>8. WritesAreCounted
  BY <1>1, <1>4, FS_EmptySet DEF WritesAreCounted
<1> QED BY <1>1, <1>3, <1>5, <1>6, <1>7, <1>8 DEF IInv, FailsForACause

(* What is said of the layout as long as it is not touched.                *)
Layout == WritesAreApart /\ OffsetsFit /\ TableIsRight /\ WritesAreCounted

LEMMA NothingIsLaidYet ==
  ASSUME Types, Layout, phase \in {"open", "stage"}
  PROVE  /\ Placed = {}
         /\ chunk_writes = <<>>
         /\ \A i \in Indices : offsets[i] = NoEntry
<1>1. Placed = {}
  BY DEF Placed, Laid
<1>2. Len(chunk_writes) = 0
  BY <1>1, FS_EmptySet DEF Layout, WritesAreCounted
<1> QED BY <1>1, <1>2 DEF Layout, TableIsRight, Types

LEMMA LayoutStaysEmpty ==
  ASSUME Types, Layout, phase \in {"open", "stage"}, phase' \in {"stage", "finish"},
         phase' = "finish" => at' = 0, DOMAIN chunks' \subseteq Indices,
         UNCHANGED <<sector_offset, offsets, chunk_writes>>
  PROVE  Layout'
<1>1. chunk_writes' = <<>> /\ \A i \in Indices : offsets'[i] = NoEntry'
  BY NothingIsLaidYet DEF NoEntry
<1>2. Placed' = {}
  BY LastIndex DEF Placed, Laid
<1>3. WritesAreApart' /\ WritesAreCounted'
  BY <1>1, <1>2, FS_EmptySet DEF Layout, WritesAreApart, WritesAreCounted
<1>4. OffsetsFit'
  BY DEF Layout, OffsetsFit
<1>5. TableIsRight'
  BY <1>1, <1>2 DEF TableIsRight
<1> QED BY <1>3, <1>4, <1>5 DEF Layout

(* Opening the source.                                                     *)
LEMMA OpenKeeps ==
  ASSUME IInv, Open
  PROVE  IInv'
<1> USE DEF Open
<1>1. Types'
  BY DEF IInv, Types, writer, Outcomes, Payloads, ChunkValue, Writes
<1>2. CASE phase' = "stage"
  <2>1. Layout
    BY DEF IInv, Live, Layout
  <2>2. Layout'
    BY <1>1, <1>2, <2>1, LayoutStaysEmpty DEF IInv, Types, writer
  <2>3. StagedAre'
    <3>1. StagedAre /\ phase = "open" /\ at' = 0
      BY DEF IInv, Live, Types
    <3> HIDE DEF Open
    <3>2. ASSUME NEW i \in Indices
          PROVE  ~Visited(i) /\ ~Visited(i)'
      <4>1. ~(i < at')
        BY <3>1, LastIndex
      <4> QED BY <1>2, <3>1, <4>1 DEF Visited
    <3>3. UNCHANGED <<file, chunks, offered>>
      BY DEF writer, Open
    <3> QED BY <3>1, <3>2, <3>3 DEF StagedAre
  <2> QED BY <1>1, <1>2, <2>2, <2>3 DEF IInv, Layout, FailsForACause
<1>3. CASE phase' = "Skipped"
  BY <1>1, <1>3 DEF IInv, Live, FailsForACause
<1>4. CASE phase' = "Failed"
  BY <1>1, <1>4 DEF IInv, Live, FailsForACause, IsRefused
<1> QED BY <1>2, <1>3, <1>4

LEMMA IsLive ==
  ASSUME IInv, Live
  PROVE  Types /\ StagedAre /\ Layout
BY DEF IInv, Layout

LEMMA LiveAgain ==
  ASSUME Types', StagedAre', Layout', phase' \in {"stage", "finish", "write"}
  PROVE  IInv'
BY DEF IInv, Layout, FailsForACause

(* A failed export.                                                        *)
LEMMA FailKeeps ==
  ASSUME Types', phase' = "Failed", FailsForACause'
  PROVE  IInv'
BY DEF IInv, Live

(* A chunk left out.                                                       *)
LEMMA PassOverKeeps ==
  ASSUME IInv, PassOver
  PROVE  IInv'
<1>1. phase = "stage" /\ Advance /\ IsPassedOver(file.segments[at])
      /\ UNCHANGED <<file, writer, disk, offered>>
  BY DEF PassOver
<1>2. Types /\ StagedAre /\ Layout
  BY <1>1, IsLive DEF Live
<1>3. UNCHANGED <<chunks, sector_offset, offsets, chunk_writes>>
  BY <1>1 DEF writer
<1>4. Types'
  BY <1>1, <1>2, <1>3, AdvanceVisits DEF Types, Payloads, ChunkValue, Writes
<1>5. Layout'
  BY <1>1, <1>2, <1>3, <1>4, AdvanceVisits, LayoutStaysEmpty DEF Types
<1>6. StagedAre'
  <2> SUFFICES ASSUME NEW i \in Indices
               PROVE  /\ TableIndex(i) \in DOMAIN chunks
                           <=> Visited(i)' /\ ~IsPassedOver(file.segments[i])
                      /\ TableIndex(i) \in DOMAIN chunks =>
                           /\ chunks[TableIndex(i)].payload = ChunkValue(i, file.segments[i])
                           /\ chunks[TableIndex(i)].size = offered[i]
    BY <1>1, <1>3 DEF StagedAre, ChunkValue
  <2>1. Visited(i)' <=> Visited(i) \/ i = at
    BY <1>1, <1>2, AdvanceVisits
  <2> QED BY <1>1, <1>2, <2>1 DEF StagedAre
<1> QED BY <1>1, <1>2, <1>4, <1>5, <1>6, AdvanceVisits, LiveAgain

(* Tile entities that are no NBT.                                          *)
LEMMA RefuseTileEntityKeeps ==
  ASSUME IInv, RefuseTileEntity
  PROVE  IInv'
<1> USE DEF RefuseTileEntity
<1>1. Types /\ UNCHANGED <<file, at, chunks, sector_offset, offsets, chunk_writes, offered>>
  BY DEF IInv, writer
<1>2. Types'
  BY <1>1 DEF Types, Payloads, ChunkValue, Writes, Outcomes
<1>3. \E i \in {j \in Indices : ~IsPassedOver(file.segments[j])} : HasBadNbt(file.segments[i])
  BY <1>1 DEF Types
<1>4. FailsForACause'
  BY <1>1, <1>3 DEF FailsForACause
<1> QED BY <1>2, <1>4, FailKeeps

(* A chunk that cannot be serialized.                                      *)
LEMMA RefuseChunkKeeps ==
  ASSUME IInv, RefuseChunk
  PROVE  IInv'
<1> USE DEF RefuseChunk
<1>1. Types /\ UNCHANGED <<file, at, chunks, sector_offset, offsets, chunk_writes, offered>>
  BY DEF IInv, writer
<1>2. Types'
  BY <1>1 DEF Types, Payloads, ChunkValue, Writes, Outcomes
<1>3. \E i \in {j \in Indices : ~IsPassedOver(file.segments[j])} : HasUnwritableNbt(file.segments[i])
  BY <1>1 DEF Types
<1>4. FailsForACause'
  BY <1>1, <1>3 DEF FailsForACause
<1> QED BY <1>2, <1>4, FailKeeps

(* A chunk is staged.                                                      *)
LEMMA WriteChunkKeeps ==
  ASSUME IInv, NEW size \in PayloadSizes, WriteChunk(size)
  PROVE  IInv'
<1> DEFINE segment == file.segments[at]
           chunk == [timestamp |-> McaTimestamp(segment),
                     payload |-> ChunkValue(at, segment), size |-> size]
           index == TableIndex(at)
<1>1. /\ phase = "stage" /\ ~IsPassedOver(segment) /\ ~HasBadNbt(segment)
      /\ offered' = [offered EXCEPT ![at] = size]
      /\ UNCHANGED <<file, sector_offset, offsets, chunk_writes>>
  BY DEF WriteChunk
<1>2. Types /\ StagedAre /\ Layout /\ at \in Indices /\ size \in Nat
  BY <1>1, IsLive, ParametersOK DEF Live, Types
<1>3. index \in Indices
  BY <1>2, TableIndexTransposes
<1>4. offered' \in [Indices -> Nat]
  BY <1>1, <1>2 DEF Types
<1>5. CASE size >= MAX_PAYLOAD_BYTES
  <2>1. phase' = "Failed" /\ UNCHANGED <<at, chunks>>
    BY <1>5 DEF WriteChunk
  <2>2. Types'
    BY <1>1, <1>2, <1>4, <2>1 DEF Types, Payloads, ChunkValue, Writes, Outcomes
  <2>3. offered'[at] > 255 * SECTOR_SIZE - 5
    <3>1. offered'[at] = size
      BY <1>1, <1>2 DEF Types
    <3> QED BY <1>2, <1>5, <3>1, ParametersOK
  <2>4. FailsForACause'
    BY <1>1, <1>2, <2>1, <2>3 DEF FailsForACause
  <2> QED BY <2>1, <2>2, <2>4, FailKeeps
<1>6. CASE ~(size >= MAX_PAYLOAD_BYTES)
  <2>1. Advance /\ Stage(index, chunk)
    BY <1>6 DEF WriteChunk, TableIndex
  <2>2. /\ DOMAIN chunks' = DOMAIN chunks \cup {index}
        /\ chunks'[index] = chunk
        /\ \A i \in DOMAIN chunks : i # index => chunks'[i] = chunks[i]
    BY <2>1 DEF Stage
  <2>3. chunk.size \in Nat /\ chunk.payload \in Payloads
    BY <1>2 DEF Payloads
  <2>4. Types'
    <3>1. \A i \in DOMAIN chunks' : chunks'[i].size \in Nat /\ chunks'[i].payload \in Payloads
      BY <1>2, <2>2, <2>3 DEF Types
    <3>2. Payloads' = Payloads /\ Writes' = Writes
      BY <1>1 DEF Payloads, ChunkValue, Writes
    <3>3. phase' \in {"stage", "finish"} /\ at' \in Indices
      BY <1>1, <1>2, <2>1, AdvanceVisits
    <3> HIDE DEF chunk, index
    <3> QED BY <1>1, <1>2, <1>3, <1>4, <2>2, <3>1, <3>2, <3>3 DEF Types
  <2>5. Layout'
    BY <1>1, <1>2, <2>1, <2>4, AdvanceVisits, LayoutStaysEmpty DEF Types
  <2>6. StagedAre'
    <3> SUFFICES ASSUME NEW i \in Indices
                 PROVE  /\ TableIndex(i) \in DOMAIN chunks'
                             <=> Visited(i)' /\ ~IsPassedOver(file.segments[i])
                        /\ TableIndex(i) \in DOMAIN chunks' =>
                             /\ chunks'[TableIndex(i)].payload = ChunkValue(i, file.segments[i])
                             /\ chunks'[TableIndex(i)].size = offered'[i]
      BY <1>1 DEF StagedAre, ChunkValue
    <3>1. Visited(i)' <=> Visited(i) \/ i = at
      BY <1>1, <1>2, <2>1, AdvanceVisits
    <3>2. CASE i = at
      <4>1. offered'[at] = size
        BY <1>1, <1>2 DEF Types
      <4> QED BY <1>1, <2>2, <3>1, <3>2, <4>1
    <3>3. CASE i # at
      <4>1. TableIndex(i) # index
        BY <1>2, <3>3, TableIndexTransposes
      <4>2. TableIndex(i) \in DOMAIN chunks' <=> TableIndex(i) \in DOMAIN chunks
        BY <2>2, <4>1
      <4>3. TableIndex(i) \in DOMAIN chunks => chunks'[TableIndex(i)] = chunks[TableIndex(i)]
        BY <2>2, <4>1
      <4>4. offered'[i] = offered[i]
        BY <1>1, <1>2, <3>3 DEF Types
      <4> HIDE DEF index
      <4> QED BY <1>2, <3>1, <3>3, <4>2, <4>3, <4>4 DEF StagedAre
    <3> QED BY <3>2, <3>3
  <2> QED BY <1>1, <1>2, <2>1, <2>4, <2>5, <2>6, AdvanceVisits, LiveAgain
<1> QED BY <1>5, <1>6

(* An index with no chunk.                                                 *)
LEMMA SkipEmptyKeeps ==
  ASSUME IInv, SkipEmpty
  PROVE  IInv'
<1>1. phase = "finish" /\ Advance /\ at \notin DOMAIN chunks
      /\ UNCHANGED <<file, writer, disk, offered>>
  BY DEF SkipEmpty
<1>2. Types /\ StagedAre /\ Layout
  BY <1>1, IsLive DEF Live
<1>3. UNCHANGED <<chunks, sector_offset, offsets, chunk_writes>>
  BY <1>1 DEF writer
<1>4. Types'
  BY <1>1, <1>2, <1>3, AdvanceVisits DEF Types, Payloads, ChunkValue, Writes
<1>5. StagedAre'
  <2>1. \A i \in Indices : Visited(i)' <=> Visited(i)
    BY <1>1, <1>2, AdvanceVisits
  <2> QED BY <1>1, <1>2, <1>3, <2>1 DEF StagedAre, ChunkValue
<1>6. Layout'
  <2>1. \A i \in Indices : Laid(i)' <=> Laid(i) \/ i = at
    BY <1>1, <1>2, AdvanceVisits
  <2>2. Placed' = Placed
    BY <1>1, <1>2, <1>3, <2>1 DEF Placed, Types
  <2>3. WritesAreApart' /\ WritesAreCounted'
    BY <1>2, <1>3, <2>2 DEF Layout, WritesAreApart, WritesAreCounted, NextSectorOf, Sectors
  <2>4. OffsetsFit'
    <3>1. at \in Nat /\ sector_offset \in Nat /\ sector_offset <= 2 + 255 * at
      BY <1>1, <1>2, LastIndex DEF Layout, OffsetsFit, Types
    <3>2. phase' \in {"finish", "write"} /\ (phase' = "finish" => at' = at + 1)
      BY <1>1, <1>2, AdvanceVisits
    <3> QED BY <1>3, <3>1, <3>2 DEF OffsetsFit
  <2>5. TableIsRight'
    BY <1>2, <1>3, <2>2 DEF Layout, TableIsRight, IsWrittenAs, NoEntry, Sectors
  <2> QED BY <2>3, <2>4, <2>5 DEF Layout
<1> QED BY <1>1, <1>2, <1>4, <1>5, <1>6, AdvanceVisits, LiveAgain

(* A chunk of too many sectors.                                            *)
LEMMA RefuseSectorsKeeps ==
  ASSUME IInv, RefuseSectors
  PROVE  IInv'
<1> USE DEF RefuseSectors
<1>1. Types /\ StagedAre
      /\ UNCHANGED <<file, at, chunks, sector_offset, offsets, chunk_writes, offered>>
  BY IsLive DEF Live, writer
<1>2. Types'
  BY <1>1 DEF Types, Payloads, ChunkValue, Writes, Outcomes
<1> DEFINE i == TableIndex(at)
<1>3. at \in Indices /\ i \in Indices /\ TableIndex(i) = at
  BY <1>1, TableIndexTransposes DEF Types
<1>4. ~IsPassedOver(file.segments[i]) /\ offered[i] = chunks[at].size
  BY <1>1, <1>3 DEF StagedAre
<1>5. offered[i] > 255 * SECTOR_SIZE - 5
  BY <1>1, <1>4, ManySectorsAreLong DEF Types
<1>6. FailsForACause'
  BY <1>1, <1>3, <1>4, <1>5 DEF FailsForACause
<1> QED BY <1>2, <1>6, FailKeeps

(* The next chunk is written where the last one's sectors end.             *)
LEMMA PlaceKeeps ==
  ASSUME IInv, Place
  PROVE  IInv'
<1> DEFINE entry == chunks[at]
           count == SectorCount(entry.size)
           last == [offset |-> sector_offset, payload |-> entry.payload,
                    length |-> OnDisk(entry.size)]
<1>1. /\ phase = "finish" /\ at \in DOMAIN chunks /\ count < 256 /\ Advance
      /\ offsets' = [offsets EXCEPT ![at] = Entry(sector_offset, count)]
      /\ chunk_writes' = Append(chunk_writes, last)
      /\ sector_offset' = sector_offset + count
      /\ UNCHANGED <<file, chunks, disk, offered>>
  BY DEF Place
<1>2. Types /\ StagedAre /\ Layout /\ at \in Indices /\ at \in Nat
  BY <1>1, IsLive, LastIndex DEF Live, Types
<1>3. /\ entry.size \in Nat /\ entry.payload \in Payloads /\ OnDisk(entry.size) \in Nat
      /\ OnDisk(entry.size) >= 1
  BY <1>1, <1>2 DEF Types, OnDisk
<1>4. count \in Nat /\ count >= 1 /\ Sectors(last) = count
  BY <1>3, SectorsSuffice DEF SectorCount, Sectors
<1>5. /\ sector_offset \in Nat /\ sector_offset <= 2 + 255 * at
      /\ sector_offset >= 2
  BY <1>1, <1>2 DEF Types, Layout, OffsetsFit, WritesAreApart
<1>6. Entry(sector_offset, count) = [offset |-> sector_offset, count |-> count]
  <2>1. sector_offset < Places /\ Places \in Nat
    <3>1. 2 + 255 * (at + 1) < Places /\ Places \in Nat
      BY <1>2, LastIndex DEF Places
    <3> QED BY <1>2, <1>5, <3>1
  <2>2. sector_offset % Places = sector_offset
    BY <1>5, <2>1, SMT
  <2>3. count % 256 = count
    <3>1. count \in 0..255
      <4>1. count < 256
        BY <1>1
      <4> QED BY <1>4, <4>1
    <3> HIDE DEF count
    <3> QED BY <3>1, SMT
  <2> QED BY <2>2, <2>3 DEF Entry
<1> HIDE DEF count, last
<1>7. /\ last \in Writes
      /\ last.offset = sector_offset /\ last.payload = entry.payload /\ last.length >= 1
  BY <1>3, <1>5 DEF last, Writes
<1>8. /\ Len(chunk_writes') = Len(chunk_writes) + 1
      /\ DOMAIN chunk_writes' = DOMAIN chunk_writes \cup {Len(chunk_writes) + 1}
      /\ DOMAIN chunk_writes = 1..Len(chunk_writes)
      /\ chunk_writes'[Len(chunk_writes) + 1] = last
      /\ \A k \in DOMAIN chunk_writes : chunk_writes'[k] = chunk_writes[k]
      /\ Len(chunk_writes) \in Nat
  <2>1. chunk_writes \in Seq(Writes)
    BY <1>2 DEF Types
  <2> QED BY <1>1, <1>7, <2>1
<1>9. Types'
  <2>1. Payloads' = Payloads /\ Writes' = Writes
    BY <1>1 DEF Payloads, ChunkValue, Writes
  <2>2. chunk_writes' \in Seq(Writes)
    BY <1>1, <1>2, <1>7 DEF Types
  <2>3. offsets' \in [Indices -> [offset: Nat, count: Nat]]
    BY <1>1, <1>2, <1>4, <1>5, <1>6 DEF Types
  <2>4. sector_offset' \in Nat
    BY <1>1, <1>4, <1>5
  <2>5. phase' \in {"finish", "write"} /\ at' \in Indices
    BY <1>1, <1>2, AdvanceVisits
  <2> QED BY <1>1, <1>2, <2>1, <2>2, <2>3, <2>4, <2>5 DEF Types
<1>10. StagedAre'
  <2>1. \A i \in Indices : Visited(i)' <=> Visited(i)
    BY <1>1, <1>2, AdvanceVisits
  <2> QED BY <1>1, <1>2, <2>1 DEF StagedAre, ChunkValue
<1>11. at \notin Placed /\ Placed' = Placed \cup {at} /\ Placed \in SUBSET Indices
  <2>1. \A i \in Indices : Laid(i)' <=> Laid(i) \/ i = at
    BY <1>1, <1>2, AdvanceVisits
  <2>2. ~Laid(at)
    BY <1>1, <1>2 DEF Laid
  <2> QED BY <1>1, <1>2, <2>1, <2>2 DEF Placed, Types
<1>12. WritesAreApart'
  <2>1. \A k \in DOMAIN chunk_writes :
          /\ NextSectorOf(chunk_writes[k]) = chunk_writes[k].offset + Sectors(chunk_writes[k])
          /\ NextSectorOf(chunk_writes[k]) \in Nat
          /\ NextSectorOf(chunk_writes[k]) <= sector_offset
          /\ chunk_writes[k].offset >= 2
    <3> SUFFICES ASSUME NEW k \in DOMAIN chunk_writes
                 PROVE  /\ NextSectorOf(chunk_writes[k]) \in Nat
                        /\ NextSectorOf(chunk_writes[k]) <= sector_offset
                        /\ chunk_writes[k].offset >= 2
      BY DEF NextSectorOf
    <3>1. chunk_writes[k].offset \in Nat /\ chunk_writes[k].length \in Nat
      <4>1. chunk_writes[k] \in Writes
        BY <1>2 DEF Types
      <4> QED BY <4>1 DEF Writes
    <3>2. Sectors(chunk_writes[k]) \in Nat
      BY <3>1, SectorsSuffice DEF Sectors
    <3> QED BY <1>2, <3>1, <3>2 DEF Layout, WritesAreApart, NextSectorOf
  <2>2. NextSectorOf(last) = sector_offset'
    BY <1>1, <1>4, <1>7 DEF NextSectorOf
  <2>3. sector_offset <= sector_offset' /\ sector_offset' \in Nat
    BY <1>1, <1>4, <1>5
  <2>4. ASSUME NEW k \in DOMAIN chunk_writes'
        PROVE  chunk_writes'[k].offset >= 2 /\ NextSectorOf(chunk_writes'[k]) <= sector_offset'
    BY <1>5, <1>7, <1>8, <2>1, <2>2, <2>3
  <2>5. ASSUME NEW j \in DOMAIN chunk_writes', NEW k \in DOMAIN chunk_writes', j < k
        PROVE  NextSectorOf(chunk_writes'[j]) <= chunk_writes'[k].offset
    <3>1. j \in DOMAIN chunk_writes
      BY <1>8, <2>5
    <3>2. CASE k \in DOMAIN chunk_writes
      BY <1>2, <1>8, <2>5, <3>1, <3>2 DEF Layout, WritesAreApart
    <3>3. CASE k = Len(chunk_writes) + 1
      BY <1>7, <1>8, <2>1, <3>1, <3>3
    <3> QED BY <1>8, <3>2, <3>3
  <2>6. sector_offset' >= 2
    BY <1>5, <2>3
  <2> QED BY <2>4, <2>5, <2>6 DEF WritesAreApart, NextSectorOf, Sectors
<1>13. OffsetsFit'
  <2>1. phase' \in {"finish", "write"} /\ (phase' = "finish" => at' = at + 1)
    BY <1>1, <1>2, AdvanceVisits
  <2>2. sector_offset' <= 2 + 255 * (at + 1)
    BY <1>1, <1>2, <1>4, <1>5
  <2> QED BY <2>1, <2>2 DEF OffsetsFit
<1>14. TableIsRight'
  <2>1. ASSUME NEW i \in Placed'
        PROVE  \E k \in DOMAIN chunk_writes' : IsWrittenAs(i, k)'
    <3>1. CASE i = at
      <4>1. offsets'[at] = [offset |-> sector_offset, count |-> count]
        BY <1>1, <1>2, <1>6 DEF Types
      <4>2. PICK k \in DOMAIN chunk_writes' : chunk_writes'[k] = last
        BY <1>8
      <4>3. IsWrittenAs(i, k)'
        BY <1>1, <1>4, <1>7, <3>1, <4>1, <4>2 DEF IsWrittenAs, Sectors
      <4> QED BY <4>3
    <3>2. CASE i \in Placed
      <4>1. PICK k \in DOMAIN chunk_writes : IsWrittenAs(i, k)
        BY <1>2, <3>2 DEF Layout, TableIsRight
      <4>2. offsets'[i] = offsets[i] /\ chunk_writes'[k] = chunk_writes[k]
        BY <1>1, <1>2, <1>8, <1>11, <3>2 DEF Types
      <4>3. IsWrittenAs(i, k)'
        BY <1>1, <4>1, <4>2 DEF IsWrittenAs, Sectors
      <4> QED BY <1>8, <4>3
    <3> QED BY <1>11, <3>1, <3>2
  <2>2. ASSUME NEW i \in Indices \ Placed'
        PROVE  offsets'[i] = NoEntry
    BY <1>1, <1>2, <1>11, <2>2 DEF Layout, TableIsRight, Types
  <2> QED BY <2>1, <2>2 DEF TableIsRight, NoEntry
<1>15. WritesAreCounted'
  <2>1. IsFiniteSet(Placed) /\ Cardinality(Placed) \in Nat
    BY <1>11, IndicesAreFinite
  <2>2. Cardinality(Placed \cup {at}) = Cardinality(Placed) + 1
    BY <1>11, <2>1, FS_AddElement
  <2> QED BY <1>2, <1>8, <1>11, <2>2 DEF Layout, WritesAreCounted
<1> QED BY <1>1, <1>2, <1>9, <1>10, <1>12, <1>13, <1>14, <1>15, AdvanceVisits, LiveAgain
        DEF Layout

(* A chunk is laid out after the others.                                   *)
LEMMA WriteKeeps ==
  ASSUME IInv, Write
  PROVE  IInv'
<1>1. /\ phase = "write" /\ phase' = "Written" /\ disk' = Bytes
      /\ UNCHANGED <<file, at, chunks, sector_offset, offsets, timestamps, chunk_writes, offered>>
  BY DEF Write, writer
<1>2. Types /\ StagedAre /\ Layout
  BY <1>1, IsLive DEF Live
<1>3. Types'
  BY <1>1, <1>2 DEF Types, Payloads, ChunkValue, Writes, Outcomes
<1>4. \A i \in Indices : (Visited(i)' <=> Visited(i)) /\ (Laid(i)' <=> Laid(i))
  BY <1>1 DEF Visited, Laid
<1>5. Placed' = Placed
  BY <1>1, <1>2, <1>4 DEF Placed, Types
<1>6. StagedAre'
  BY <1>1, <1>2, <1>4 DEF StagedAre, ChunkValue
<1>7. Layout'
  BY <1>1, <1>2, <1>5 DEF Layout, WritesAreApart, NextSectorOf, Sectors, OffsetsFit,
                          TableIsRight, IsWrittenAs, NoEntry, WritesAreCounted
<1>8. disk' = Bytes'
  BY <1>1 DEF Bytes
<1> QED BY <1>1, <1>3, <1>6, <1>7, <1>8 DEF IInv, Layout, FailsForACause

(* At the end every exported segment has one write.                        *)
LEMMA AllAreWritten ==
  ASSUME Types, StagedAre, Layout, phase = "write"
  PROVE  Len(chunk_writes) = Cardinality({i \in Indices : ~IsPassedOver(file.segments[i])})
<1> DEFINE exported == {i \in Indices : ~IsPassedOver(file.segments[i])}
           f == [i \in exported |-> TableIndex(i)]
<1>1. Placed = DOMAIN chunks
  BY DEF Placed, Laid
<1>2. \A i \in Indices : TableIndex(i) \in DOMAIN chunks <=> i \in exported
  BY DEF StagedAre, Visited
<1>3. f \in Injection(exported, DOMAIN chunks)
  <2>1. f \in [exported -> DOMAIN chunks]
    BY <1>2
  <2>2. \A i, j \in exported : f[i] = f[j] => i = j
    BY TableIndexTransposes
  <2> QED BY <2>1, <2>2 DEF Injection, IsInjective
<1>4. f \in Surjection(exported, DOMAIN chunks)
  <2>1. f \in [exported -> DOMAIN chunks]
    BY <1>2
  <2>2. ASSUME NEW e \in DOMAIN chunks
        PROVE  \E i \in exported : f[i] = e
    <3>1. e \in Indices
      BY DEF Types
    <3>2. TableIndex(e) \in Indices /\ TableIndex(TableIndex(e)) = e
      BY <3>1, TableIndexTransposes
    <3> QED BY <1>2, <3>2
  <2> QED BY <2>1, <2>2 DEF Surjection
<1>5. IsFiniteSet(exported)
  BY IndicesAreFinite
<1>6. Cardinality(DOMAIN chunks) = Cardinality(exported)
  <2>1. ExistsBijection(exported, DOMAIN chunks)
    BY <1>3, <1>4 DEF ExistsBijection, Bijection
  <2> QED BY <1>5, <2>1, FS_Bijection
<1> QED BY <1>1, <1>6 DEF Layout, WritesAreCounted

(* The disk fails.                                                         *)
LEMMA FailToWriteKeeps ==
  ASSUME IInv, FailToWrite
  PROVE  IInv'
<1>1. /\ phase = "write" /\ phase' = "Failed"
      /\ UNCHANGED <<file, at, chunks, sector_offset, offsets, chunk_writes, offered>>
  BY DEF FailToWrite, writer
<1>2. Types /\ StagedAre /\ Layout
  BY <1>1, IsLive DEF Live
<1>3. Types'
  BY <1>1, <1>2 DEF Types, Payloads, ChunkValue, Writes, Outcomes
<1>4. Len(chunk_writes) = Cardinality({i \in Indices : ~IsPassedOver(file.segments[i])})
  BY <1>1, <1>2, AllAreWritten
<1>5. FailsForACause'
  BY <1>1, <1>4 DEF FailsForACause
<1> QED BY <1>1, <1>3, <1>5, FailKeeps

(* A step that changes nothing.                                            *)
LEMMA StutterKeeps ==
  ASSUME IInv, UNCHANGED vars
  PROVE  IInv'
<1>1. UNCHANGED <<file, phase, at, chunks, sector_offset, offsets, timestamps, chunk_writes,
                  disk, offered>>
  BY DEF vars, writer
<1>2. Types'
  BY <1>1 DEF IInv, Types, Payloads, ChunkValue, Writes
<1>3. Placed' = Placed /\ \A i \in Indices : Visited(i)' <=> Visited(i)
  BY <1>1 DEF Placed, Laid, Visited
<1>4. StagedAre => StagedAre'
  BY <1>1, <1>3 DEF StagedAre, ChunkValue
<1>5. Layout => Layout'
  BY <1>1, <1>3 DEF Layout, WritesAreApart, NextSectorOf, Sectors, OffsetsFit, TableIsRight,
                    IsWrittenAs, NoEntry, WritesAreCounted
<1>6. FailsForACause'
  BY <1>1 DEF IInv, FailsForACause, IsRefused
<1>7. phase' = "Written" => disk' = Bytes'
  BY <1>1 DEF IInv, Bytes
<1> QED BY <1>1, <1>2, <1>4, <1>5, <1>6, <1>7 DEF IInv, Live, Layout

(* Every step preserves the invariant.                                     *)
LEMMA NextKeeps ==
  ASSUME IInv, [Next]_vars
  PROVE  IInv'
BY OpenKeeps, PassOverKeeps, RefuseTileEntityKeeps, RefuseChunkKeeps, WriteChunkKeeps, SkipEmptyKeeps,
   RefuseSectorsKeeps, PlaceKeeps, WriteKeeps, FailToWriteKeeps, StutterKeeps DEF Next

(* The inductive invariant holds in every reachable state.                 *)
LEMMA Invariance == Spec => []IInv
<1>1. Init => IInv
  BY InitEstablishes
<1>2. IInv /\ [Next]_vars => IInv'
  BY NextKeeps
<1> QED BY <1>1, <1>2, PTL DEF Spec

-----------------------------------------------------------------------------
(* The theorems                                                            *)

(***************************************************************************)
(* Every export that fails has a cause: what write_chunk or finish refuses *)
(* is a chunk that is too large, whatever else is in the region.           *)
(***************************************************************************)
THEOREM FailuresHaveCauses == Spec => []FailsForACause
<1>1. IInv => FailsForACause
  BY DEF IInv
<1> QED BY <1>1, Invariance, PTL

(* A reader of the file finds each write as a whole. *)
LEMMA WritesDoNotOverlap ==
  ASSUME Types, Layout, NEW k \in DOMAIN chunk_writes
  PROVE  /\ chunk_writes[k].length <= Sectors(chunk_writes[k]) * SECTOR_SIZE
         /\ EndOf(chunk_writes[k]) <= sector_offset * SECTOR_SIZE
         /\ \A j \in DOMAIN chunk_writes :
              j # k => ~Overlap(chunk_writes[j], chunk_writes[k])
<1> DEFINE w(n) == chunk_writes[n]
<1>1. ASSUME NEW n \in DOMAIN chunk_writes
      PROVE  /\ w(n).offset \in Nat /\ w(n).length \in Nat /\ Sectors(w(n)) \in Nat
             /\ w(n).length <= Sectors(w(n)) * SECTOR_SIZE
  <2>1. w(n) \in Writes
    BY DEF Types
  <2>2. w(n).offset \in Nat /\ w(n).length \in Nat
    BY <2>1 DEF Writes
  <2> QED BY <2>2, SectorsSuffice DEF Sectors
<1>2. ASSUME NEW n \in DOMAIN chunk_writes, NEW next \in Nat, NextSectorOf(w(n)) <= next
      PROVE  EndOf(w(n)) <= next * SECTOR_SIZE
  BY <1>1, <1>2, EndsBefore DEF EndOf, StartOf, NextSectorOf
<1>3. EndOf(w(k)) <= sector_offset * SECTOR_SIZE
  BY <1>2 DEF Types, Layout, WritesAreApart
<1>4. ASSUME NEW i \in DOMAIN chunk_writes, NEW j \in DOMAIN chunk_writes, i < j
      PROVE  EndOf(w(i)) <= StartOf(w(j))
  <2>1. NextSectorOf(w(i)) <= w(j).offset
    BY <1>4 DEF Layout, WritesAreApart
  <2> QED BY <1>1, <1>2, <2>1 DEF StartOf
<1>5. ASSUME NEW n \in DOMAIN chunk_writes
      PROVE  StartOf(w(n)) \in Nat /\ EndOf(w(n)) \in Nat
  <2>1. SECTOR_SIZE \in Nat
    BY ParametersOK
  <2> QED BY <1>1, <2>1 DEF StartOf, EndOf
<1>6. ASSUME NEW j \in DOMAIN chunk_writes, j # k
      PROVE  ~Overlap(w(j), w(k))
  <2>1. j \in Nat /\ k \in Nat
    BY DEF Types
  <2>2. CASE j < k
    BY <1>4, <1>5, <2>2 DEF Overlap
  <2>3. CASE k < j
    BY <1>4, <1>5, <2>3 DEF Overlap
  <2> QED BY <1>6, <2>1, <2>2, <2>3
<1> QED BY <1>1, <1>3, <1>6

(***************************************************************************)
(* A written region holds, for every coordinate, the state of the segment  *)
(* there, in bytes of its own behind the tables, or no entry if the        *)
(* segment is one that the export passes over.                             *)
(***************************************************************************)
THEOREM WrittenRegionIsWhole == Spec => []WrittenIsWhole
<1>1. ASSUME IInv
      PROVE  WrittenIsWhole
  <2> SUFFICES ASSUME phase = "Written", NEW x \in Coordinates, NEW z \in Coordinates
               PROVE  IF IsPassedOver(SegmentAt(x, z))
                      THEN ~HoldsChunk(disk, x, z)
                      ELSE ReadsBack(disk, x, z,
                             [xPos |-> file.rx * REGION_SIDE + x,
                              zPos |-> file.rz * REGION_SIDE + z,
                              sections |-> SectionSnapshots(SegmentAt(x, z)),
                              block_entities |-> TileEntitiesOf(SegmentAt(x, z))])
    BY DEF WrittenIsWhole, IsPassedOver
  <2> DEFINE i == x * REGION_SIDE + z
             e == z * REGION_SIDE + x
             segment == file.segments[i]
  <2>1. Types /\ StagedAre /\ Layout /\ disk = Bytes
    BY <1>1, IsLive DEF Live, IInv
  <2>2. i \in Indices /\ XOf(i) = x /\ ZOf(i) = z /\ TableIndex(i) = e /\ e \in Indices
    <3>1. i \in Indices /\ XOf(i) = x /\ ZOf(i) = z
      BY IndexOfCoordinates
    <3>2. TableIndex(i) = e
      BY <3>1 DEF TableIndex, IndexOf
    <3> QED BY <3>1, <3>2, TableIndexTransposes
  <2>3. /\ disk.offsets = offsets /\ disk.chunk_writes = chunk_writes
        /\ disk.length = sector_offset * SECTOR_SIZE
    BY <2>1 DEF Bytes
  <2>4. SegmentAt(x, z) = segment
    BY DEF SegmentAt
  <2> HIDE DEF i, e
  <2>5. CASE IsPassedOver(segment)
    <3>1. e \notin Placed
      BY <2>1, <2>2, <2>5 DEF StagedAre, Placed
    <3>2. offsets[e] = NoEntry
      BY <2>1, <2>2, <3>1 DEF Layout, TableIsRight
    <3>3. ~HoldsChunk(disk, x, z)
      BY <2>3, <3>2 DEF HoldsChunk, e
    <3> QED BY <2>4, <2>5, <3>3
  <2>6. CASE ~IsPassedOver(segment)
    <3>1. e \in Placed /\ chunks[e].payload = ChunkValue(i, segment)
      BY <2>1, <2>2, <2>6 DEF StagedAre, Visited, Placed, Laid
    <3>2. PICK k \in DOMAIN chunk_writes : IsWrittenAs(e, k)
      BY <2>1, <3>1 DEF Layout, TableIsRight
    <3>3. /\ offsets[e].offset = chunk_writes[k].offset
          /\ offsets[e].count = Sectors(chunk_writes[k])
          /\ chunk_writes[k].payload = ChunkValue(i, segment)
      BY <3>1, <3>2 DEF IsWrittenAs
    <3>4. chunk_writes[k].offset >= 2
      BY <2>1 DEF Layout, WritesAreApart
    <3>5. ReadsBack(disk, x, z, ChunkValue(i, segment))
      BY <2>1, <2>3, <3>3, <3>4, WritesDoNotOverlap DEF ReadsBack, e
    <3> QED BY <2>2, <2>4, <2>6, <3>5 DEF ChunkValue
  <2> QED BY <2>4, <2>5, <2>6
<1> QED BY <1>1, Invariance, PTL

-----------------------------------------------------------------------------
(* The times of a segment                                                  *)

(* The elements of a concatenation. *)
LEMMA ConcatenatedRange ==
  ASSUME NEW s, NEW u, IsSequence(s), IsSequence(u)
  PROVE  /\ IsSequence(s \o u)
         /\ Range(s \o u) = Range(s) \cup Range(u)
<1> DEFINE S == Range(s) \cup Range(u)
<1>1. s \in Seq(S) /\ u \in Seq(S)
  <2>1. s \in Seq(Range(s)) /\ u \in Seq(Range(u)) /\ Range(s) \subseteq S /\ Range(u) \subseteq S
    BY DEF IsSequence
  <2> QED BY <2>1, SeqMonotonic
<1> HIDE DEF S
<1>2. s \o u \in Seq(S) /\ Range(s \o u) = Range(s) \cup Range(u)
  BY <1>1, ConcatProperties, RangeConcatenation
<1> QED BY <1>2, SeqOfRange DEF IsSequence

LEMMA ConcatenatedTimes ==
  ASSUME NEW s \in Seq(Int), NEW u \in Seq(Int)
  PROVE  /\ s \o u \in Seq(Int)
         /\ Range(s \o u) = Range(s) \cup Range(u)
BY ConcatProperties, RangeConcatenation

Times(history) == {entry.timestamp : entry \in Range(history)}

(* The timestamps of a history, as get_available_timestamps collects them. *)
LEMMA TimesOfHistory ==
  ASSUME NEW history, IsHistory(history)
  PROVE  TimesOf(history) \in Seq(Int) /\ Range(TimesOf(history)) = Times(history)
<1> DEFINE n == Len(history)
<1>1. /\ history \in Seq(Range(history)) /\ n \in Nat /\ DOMAIN history = 1..n
      /\ Range(history) = {history[k] : k \in 1..n}
  BY LenProperties, RangeEquality DEF IsHistory, IsSequence
<1> HIDE DEF n
<1>2. \A k \in 1..n : history[k].timestamp \in Int
  BY <1>1 DEF IsHistory
<1>3. TimesOf(history) = [k \in 1..n |-> history[k].timestamp]
  BY <1>1 DEF TimesOf
<1>4. TimesOf(history) \in Seq(Int) /\ Len(TimesOf(history)) = n
  BY <1>1, <1>2, <1>3
<1>5. Range(TimesOf(history)) = {TimesOf(history)[k] : k \in 1..n}
  BY <1>4, RangeEquality
<1>6. Range(TimesOf(history)) = {history[k].timestamp : k \in 1..n}
  BY <1>3, <1>5
<1>7. Times(history) = {history[k].timestamp : k \in 1..n}
  BY <1>1 DEF Times
<1> QED BY <1>4, <1>6, <1>7

(* Those of the sections, of any number of them.                           *)
LEMMA TimesOfSections ==
  ASSUME NEW sections, IsSequence(sections),
         \A history \in Range(sections) : IsHistory(history)
  PROVE  /\ AllTimesOf(sections) \in Seq(Int)
         /\ Range(AllTimesOf(sections)) = UNION {Times(history) : history \in Range(sections)}
<1> DEFINE n == Len(sections)
           Collects(f) == f = [s \in 0..n |-> IF s = 0 THEN <<>>
                                              ELSE f[s - 1] \o TimesOf(sections[s])]
           upto == CHOOSE f : Collects(f)
           step == [k \in 1..n |-> [times \in Seq(Int) |-> times \o TimesOf(sections[k])]]
<1>1. /\ sections \in Seq(Range(sections)) /\ n \in Nat
      /\ Range(sections) = {sections[k] : k \in 1..n}
  BY LenProperties, RangeEquality DEF IsSequence
<1>2. AllTimesOf(sections) = upto[n]
  BY DEF AllTimesOf
<1> HIDE DEF n
<1>3. \A k \in 1..n : /\ TimesOf(sections[k]) \in Seq(Int)
                      /\ Range(TimesOf(sections[k])) = Times(sections[k])
  BY <1>1, TimesOfHistory
<1>4. step \in [1..n -> [Seq(Int) -> Seq(Int)]]
  BY <1>3, ConcatenatedTimes
<1>5. <<>> \in Seq(Int) /\ Range(<<>>) = {}
  BY EmptySeq DEF Range
<1> HIDE DEF step
<1>6. PICK f \in [0..n -> Seq(Int)] :
        f[0] = <<>> /\ \A k \in 1..n : f[k] = step[k][f[k - 1]]
  <2> DEFINE Values == Seq(Int)
             empty == <<>>
  <2>1. n \in Nat /\ empty \in Values /\ step \in StepsUpTo(n, Values)
    BY <1>1, <1>4, <1>5 DEF StepsUpTo
  <2> HIDE DEF Values, empty, Collects, upto
  <2>2. \E f : IsRecursion(f, n, Values, empty, step)
    BY <2>1, RecursionExists
  <2> QED BY <2>2 DEF Values, empty, IsRecursion
<1>7. Collects(f)
  <2>1. \A k \in 0..n : k = 0 \/ (k \in 1..n /\ k - 1 \in 0..n)
    BY <1>1
  <2>2. \A k \in 1..n : k - 1 \in 0..n => step[k][f[k - 1]] = f[k - 1] \o TimesOf(sections[k])
    BY DEF step
  <2>3. \A k \in 0..n : f[k] = IF k = 0 THEN <<>> ELSE f[k - 1] \o TimesOf(sections[k])
    BY <1>6, <2>1, <2>2
  <2> QED BY <1>6, <2>3
<1>8. Collects(upto)
  BY <1>7
<1> HIDE DEF upto
<1> DEFINE Good == {k \in 0..n :
                      /\ upto[k] \in Seq(Int)
                      /\ Range(upto[k]) = UNION {Times(sections[j]) : j \in 1..k}}
<1>9. 0 \in Good
  <2>1. 0 \in 0..n /\ 1..0 = {}
    BY <1>1
  <2>2. upto[0] = <<>>
    BY <1>8, <2>1
  <2> QED BY <1>5, <2>1, <2>2
<1>10. ASSUME NEW k \in 0..(n - 1), k \in Good
       PROVE  k + 1 \in Good
  <2>1. k + 1 \in 0..n /\ k + 1 \in 1..n /\ k + 1 # 0 /\ (k + 1) - 1 = k
        /\ 1..(k + 1) = 1..k \cup {k + 1}
    BY <1>1
  <2>2. upto[k + 1] = upto[k] \o TimesOf(sections[k + 1])
    BY <1>8, <2>1
  <2>3. /\ upto[k + 1] \in Seq(Int)
        /\ Range(upto[k + 1]) = Range(upto[k]) \cup Times(sections[k + 1])
    BY <1>3, <1>10, <2>1, <2>2, ConcatenatedTimes
  <2>4. UNION {Times(sections[j]) : j \in 1..(k + 1)}
          = (UNION {Times(sections[j]) : j \in 1..k}) \cup Times(sections[k + 1])
    BY <2>1
  <2> QED BY <1>10, <2>1, <2>3, <2>4
<1> HIDE DEF Good
<1>11. 0..n \subseteq Good
  BY <1>1, <1>9, <1>10, AllUpTo
<1>12. n \in Good
  BY <1>1, <1>11
<1>13. UNION {Times(sections[j]) : j \in 1..n} = UNION {Times(h) : h \in Range(sections)}
  BY <1>1
<1> QED BY <1>2, <1>12, <1>13 DEF Good

(* The timestamps an export considers are all that were recorded.          *)
LEMMA AllRecordedAreAvailable ==
  ASSUME NEW segment, IsSegment(segment)
  PROVE  /\ AvailableTimestamps(segment) \in Seq(Int)
         /\ Range(AvailableTimestamps(segment)) = Recorded(segment)
         /\ Range(AllTimesOf(segment.block_sections)) \subseteq Recorded(segment)
<1> DEFINE blocks == segment.block_sections
           biomes == segment.biome_sections
           tiles == segment.tile_entities
<1>1. /\ IsSequence(blocks) /\ IsSequence(biomes) /\ IsHistory(tiles)
      /\ \A h \in Range(blocks) : IsHistory(h)
      /\ \A h \in Range(biomes) : IsHistory(h)
  BY DEF IsSegment
<1>2. AvailableTimestamps(segment) = TimesOf(tiles) \o AllTimesOf(blocks) \o AllTimesOf(biomes)
  BY DEF AvailableTimestamps
<1>3. Recorded(segment) = Range(AllTimesOf(blocks \o biomes) \o TimesOf(tiles))
  BY DEF Recorded
<1> HIDE DEF blocks, biomes, tiles
<1>4. IsSequence(blocks \o biomes) /\ Range(blocks \o biomes) = Range(blocks) \cup Range(biomes)
  BY <1>1, ConcatenatedRange
<1>5. /\ TimesOf(tiles) \in Seq(Int) /\ Range(TimesOf(tiles)) = Times(tiles)
      /\ AllTimesOf(blocks) \in Seq(Int)
      /\ Range(AllTimesOf(blocks)) = UNION {Times(h) : h \in Range(blocks)}
      /\ AllTimesOf(biomes) \in Seq(Int)
      /\ Range(AllTimesOf(biomes)) = UNION {Times(h) : h \in Range(biomes)}
      /\ AllTimesOf(blocks \o biomes) \in Seq(Int)
      /\ Range(AllTimesOf(blocks \o biomes))
           = UNION {Times(h) : h \in Range(blocks) \cup Range(biomes)}
  <2>1. \A h \in Range(blocks \o biomes) : IsHistory(h)
    BY <1>1, <1>4
  <2>2. /\ AllTimesOf(blocks \o biomes) \in Seq(Int)
        /\ Range(AllTimesOf(blocks \o biomes)) = UNION {Times(h) : h \in Range(blocks \o biomes)}
    BY <1>4, <2>1, TimesOfSections
  <2> QED BY <1>1, <1>4, <2>2, TimesOfHistory, TimesOfSections
<1>6. /\ TimesOf(tiles) \o AllTimesOf(blocks) \in Seq(Int)
      /\ Range(TimesOf(tiles) \o AllTimesOf(blocks))
           = Times(tiles) \cup (UNION {Times(h) : h \in Range(blocks)})
  BY <1>5, ConcatenatedTimes
<1>7. /\ AvailableTimestamps(segment) \in Seq(Int)
      /\ Range(AvailableTimestamps(segment))
           = (Times(tiles) \cup (UNION {Times(h) : h \in Range(blocks)}))
               \cup (UNION {Times(h) : h \in Range(biomes)})
  <2> DEFINE first == TimesOf(tiles) \o AllTimesOf(blocks)
             second == AllTimesOf(biomes)
  <2>1. first \in Seq(Int) /\ second \in Seq(Int)
    BY <1>5, <1>6
  <2>2. AvailableTimestamps(segment) = first \o second
    BY <1>2
  <2>3. /\ Range(first) = Times(tiles) \cup (UNION {Times(h) : h \in Range(blocks)})
        /\ Range(second) = UNION {Times(h) : h \in Range(biomes)}
    BY <1>5, <1>6
  <2> HIDE DEF first, second
  <2>4. first \o second \in Seq(Int) /\ Range(first \o second) = Range(first) \cup Range(second)
    BY <2>1, ConcatenatedTimes
  <2> QED BY <2>2, <2>3, <2>4
<1>8. Recorded(segment)
        = (UNION {Times(h) : h \in Range(blocks) \cup Range(biomes)}) \cup Times(tiles)
  BY <1>3, <1>5, ConcatenatedTimes
<1>9. UNION {Times(h) : h \in Range(blocks) \cup Range(biomes)}
        = (UNION {Times(h) : h \in Range(blocks)}) \cup (UNION {Times(h) : h \in Range(biomes)})
  OBVIOUS
<1> QED BY <1>5, <1>7, <1>8, <1>9 DEF blocks

-----------------------------------------------------------------------------
(* The nearest of the times                                                *)

LEMMA WrappedInside ==
  ASSUME NEW n \in Int, -(I64_MAX + 1) <= n, n <= I64_MAX
  PROVE  Wrapped(n) = n
<1> DEFINE range == 2 * (I64_MAX + 1)
           shifted == n + I64_MAX + 1
<1>1. range \in Nat /\ shifted \in Nat /\ shifted < range
  BY ParametersOK
<1>2. n = shifted - (I64_MAX + 1)
  BY ParametersOK
<1>3. Wrapped(n) = (shifted % range) - (I64_MAX + 1)
  BY DEF Wrapped
<1> HIDE DEF range, shifted
<1>4. shifted % range = shifted
  BY <1>1, SMT
<1> QED BY <1>2, <1>3, <1>4

(* How far a time of the past is away.                                     *)
LEMMA DistanceToThePast ==
  ASSUME NEW t \in Int, t <= Epoch, Epoch - t < I64_MAX
  PROVE  Distance(t) = Epoch - t
<1>1. I64_MAX \in Nat /\ Epoch \in Int
  BY ParametersOK
<1>2. Wrapped(t - Epoch) = t - Epoch
  BY <1>1, WrappedInside
<1>3. Wrapped(Epoch - t) = Epoch - t
  BY <1>1, WrappedInside
<1>4. (IF t - Epoch < 0 THEN -(t - Epoch) ELSE t - Epoch) = Epoch - t
  BY <1>1
<1> QED BY <1>2, <1>3, <1>4 DEF Distance

(* Of times of the past, the nearest to the present is the last.           *)
LEMMA NearestIsLast ==
  ASSUME NEW times \in Seq(Int), Range(times) # {},
         \A t \in Range(times) : t <= Epoch /\ Epoch - t < I64_MAX
  PROVE  /\ FindNearestTimestamp(times) \in Range(times)
         /\ \A t \in Range(times) : t <= FindNearestTimestamp(times)
<1> DEFINE n == Len(times)
           none == [t |-> Epoch, distance |-> I64_MAX]
           that(k) == [t |-> times[k], distance |-> Distance(times[k])]
           Closest(f) == f = [k \in 0..n |->
                                IF k = 0 THEN none
                                ELSE IF Distance(times[k]) < f[k - 1].distance
                                     THEN that(k)
                                     ELSE f[k - 1]]
           closest == CHOOSE f : Closest(f)
           Values == [t: Int, distance: Int]
           step == [k \in 1..n |-> [c \in Values |->
                      IF Distance(times[k]) < c.distance THEN that(k) ELSE c]]
<1>1. n \in Nat /\ Range(times) = {times[k] : k \in 1..n}
  BY LenProperties, RangeEquality
<1>2. FindNearestTimestamp(times) = closest[n].t
  BY DEF FindNearestTimestamp
<1> HIDE DEF n
<1>3. \A k \in 1..n :
        /\ times[k] \in Int
        /\ times[k] <= Epoch
        /\ Distance(times[k]) = Epoch - times[k]
        /\ Distance(times[k]) < I64_MAX
        /\ Distance(times[k]) \in Int
  <2> SUFFICES ASSUME NEW k \in 1..n
               PROVE  /\ times[k] \in Int /\ times[k] <= Epoch
                      /\ Distance(times[k]) = Epoch - times[k]
                      /\ Distance(times[k]) < I64_MAX /\ Distance(times[k]) \in Int
    OBVIOUS
  <2>1. times[k] \in Range(times) /\ Epoch \in Int
    BY <1>1, ParametersOK
  <2>2. times[k] \in Int
    BY DEF n
  <2> QED BY <2>1, <2>2, DistanceToThePast
<1>4. none \in Values /\ \A k \in 1..n : that(k) \in Values
  BY <1>3, ParametersOK
<1> HIDE DEF none, that
<1>5. step \in StepsUpTo(n, Values)
  BY <1>4 DEF StepsUpTo
<1>6. Closest(closest)
  <2> HIDE DEF step, Values, Closest, closest
  <2>1. PICK f : IsRecursion(f, n, Values, none, step)
    BY <1>1, <1>4, <1>5, RecursionExists
  <2>2. f \in [0..n -> Values] /\ f[0] = none /\ \A k \in 1..n : f[k] = step[k][f[k - 1]]
    BY <2>1 DEF IsRecursion
  <2>3. \A k \in 0..n : k = 0 \/ (k \in 1..n /\ k - 1 \in 0..n /\ k # 0)
    BY <1>1
  <2>4. \A k \in 1..n : f[k - 1] \in Values =>
          step[k][f[k - 1]] = IF Distance(times[k]) < f[k - 1].distance THEN that(k) ELSE f[k - 1]
    BY DEF step
  <2>5. \A k \in 0..n : f[k] = IF k = 0 THEN none
                               ELSE IF Distance(times[k]) < f[k - 1].distance
                                    THEN that(k)
                                    ELSE f[k - 1]
    BY <2>2, <2>3, <2>4
  <2>6. Closest(f)
    BY <2>2, <2>5 DEF Closest
  <2> QED BY <2>6 DEF closest
<1> HIDE DEF closest
<1> DEFINE Good == {k \in 1..n :
                      /\ closest[k].t \in {times[j] : j \in 1..k}
                      /\ closest[k].distance = Epoch - closest[k].t
                      /\ \A j \in 1..k : times[j] <= closest[k].t}
<1>7. 1 <= n => 1 \in Good
  <2> SUFFICES ASSUME 1 <= n
               PROVE  1 \in Good
    OBVIOUS
  <2>1. 0 \in 0..n /\ 1 \in 0..n /\ 1 \in 1..n /\ 1 - 1 = 0 /\ 1..1 = {1}
    BY <1>1
  <2>2. closest[0].distance = I64_MAX
    BY <1>6, <2>1 DEF none
  <2>3. closest[1] = that(1)
    BY <1>3, <1>6, <2>1, <2>2
  <2>4. closest[1].t = times[1] /\ closest[1].distance = Epoch - times[1] /\ times[1] \in Int
    BY <1>3, <2>1, <2>3 DEF that
  <2> QED BY <2>1, <2>4
<1>8. ASSUME NEW k \in 1..(n - 1), k \in Good
      PROVE  k + 1 \in Good
  <2>1. /\ k + 1 \in 0..n /\ k + 1 \in 1..n /\ k \in 1..n /\ k + 1 # 0 /\ (k + 1) - 1 = k
        /\ 1..(k + 1) = 1..k \cup {k + 1}
    BY <1>1
  <2>2. closest[k + 1] = IF Distance(times[k + 1]) < closest[k].distance
                         THEN that(k + 1)
                         ELSE closest[k]
    BY <1>6, <2>1
  <2>3. /\ closest[k].t \in {times[j] : j \in 1..k} /\ closest[k].t \in Int
        /\ closest[k].distance = Epoch - closest[k].t
        /\ \A j \in 1..k : times[j] \in Int /\ times[j] <= closest[k].t
    <3>1. \A j \in 1..k : j \in 1..n
      BY <1>1
    <3> QED BY <1>3, <1>8, <3>1
  <2>4. /\ times[k + 1] \in Int /\ Distance(times[k + 1]) = Epoch - times[k + 1]
        /\ Epoch \in Int
    BY <1>3, <2>1, ParametersOK
  <2>5. CASE Distance(times[k + 1]) < closest[k].distance
    <3>1. closest[k + 1].t = times[k + 1] /\ closest[k + 1].distance = Epoch - times[k + 1]
      BY <2>2, <2>4, <2>5 DEF that
    <3>2. closest[k].t <= times[k + 1]
      BY <2>3, <2>4, <2>5
    <3>3. \A j \in 1..k : times[j] <= times[k + 1]
      BY <2>3, <2>4, <3>2
    <3>4. \A j \in 1..(k + 1) : times[j] <= times[k + 1]
      BY <2>1, <2>4, <3>3
    <3> QED BY <2>1, <3>1, <3>4
  <2>6. CASE ~(Distance(times[k + 1]) < closest[k].distance)
    <3>1. closest[k + 1] = closest[k]
      BY <2>2, <2>6
    <3>2. times[k + 1] <= closest[k].t
      BY <2>3, <2>4, <2>6
    <3> QED BY <2>1, <2>3, <3>1, <3>2
  <2> QED BY <2>5, <2>6
<1>9. 1 <= n
  BY <1>1
<1>10. n \in Good
  <2> HIDE DEF Good
  <2>1. 1..n \subseteq Good
    BY <1>1, <1>7, <1>8, AllUpTo
  <2> QED BY <1>1, <1>9, <2>1
<1> QED BY <1>1, <1>2, <1>10

(* The time of a chunk is that of the last change of its segment.          *)
LEMMA ChunkTime ==
  ASSUME NEW segment, IsSegment(segment), ~IsPassedOver(segment),
         \A t \in Recorded(segment) : t <= Epoch /\ Epoch - t < I64_MAX
  PROVE  \E last \in Recorded(segment) :
           /\ \A t \in Recorded(segment) : t <= last
           /\ McaTimestamp(segment) = Clamped(last)
<1> DEFINE times == AvailableTimestamps(segment)
           blocks == segment.block_sections
<1>1. times \in Seq(Int) /\ Range(times) = Recorded(segment)
  BY AllRecordedAreAvailable
<1>2. Range(times) # {}
  <2>1. IsSequence(blocks) /\ \A h \in Range(blocks) : IsHistory(h)
    BY DEF IsSegment
  <2>2. blocks # <<>> /\ \A s \in DOMAIN blocks : blocks[s] # <<>>
    BY DEF IsPassedOver, HasUnseenSection
  <2> HIDE DEF blocks
  <2>3. 1 \in DOMAIN blocks
    BY <2>1, <2>2, EmptySeq, LenProperties DEF IsSequence
  <2>4. blocks[1] \in Range(blocks) /\ blocks[1] # <<>>
    BY <2>2, <2>3 DEF Range
  <2>5. IsSequence(blocks[1])
    BY <2>1, <2>4 DEF IsHistory
  <2>6. 1 \in DOMAIN blocks[1]
    BY <2>4, <2>5, EmptySeq, LenProperties DEF IsSequence
  <2>7. Times(blocks[1]) # {}
    BY <2>6 DEF Times, Range
  <2>8. Range(AllTimesOf(blocks)) = UNION {Times(h) : h \in Range(blocks)}
        /\ AllTimesOf(blocks) \in Seq(Int)
    BY <2>1, TimesOfSections
  <2>9. Range(AllTimesOf(blocks)) # {}
    BY <2>4, <2>7, <2>8
  <2>10. Range(AllTimesOf(blocks)) \subseteq Range(times)
    BY <1>1, AllRecordedAreAvailable DEF blocks
  <2> QED BY <2>9, <2>10
<1>3. McaTimestamp(segment) = Clamped(FindNearestTimestamp(times))
  BY DEF McaTimestamp
<1> HIDE DEF times
<1> QED BY <1>1, <1>2, <1>3, NearestIsLast

-----------------------------------------------------------------------------
(* The times in the tables                                                 *)

(* Each chunk is staged with the time of its segment, and the table has it *)
(* where finish() is done with the chunk.                                  *)
TimesAreTold ==
  /\ DOMAIN timestamps = Indices
  /\ \A i \in DOMAIN chunks :
       chunks[i].timestamp = McaTimestamp(file.segments[TableIndex(i)])
  /\ \A i \in Placed : timestamps[i] = chunks[i].timestamp

(* What is invariant beside IInv.                                          *)
TInv ==
  /\ file \in SourceFiles
  /\ Live => TimesAreTold

LEMMA TimesAtFirst ==
  ASSUME Init
  PROVE  TInv
BY DEF Init, TInv, TimesAreTold, Placed

LEMMA TimesStayTold ==
  ASSUME IInv, IInv', TInv, [Next]_vars
  PROVE  TInv'
<1>1. file' = file
  BY DEF Next, Open, PassOver, RefuseTileEntity, RefuseChunk, WriteChunk, SkipEmpty, RefuseSectors, Place,
         Write, FailToWrite, vars
<1> SUFFICES ASSUME Live'
             PROVE  TimesAreTold'
  BY <1>1 DEF TInv
<1>2. phase' \notin {"Failed", "Skipped"} /\ Types /\ Types'
  BY DEF Live, IInv
<1>3. DOMAIN chunks \subseteq Indices /\ DOMAIN chunks' \subseteq Indices
  BY <1>2 DEF Types
<1>4. CASE Open
  <2>1. phase' = "stage" /\ Live /\ UNCHANGED <<chunks, timestamps>>
    BY <1>2, <1>4 DEF Open, Live, writer
  <2>2. Placed' = {}
    BY <2>1 DEF Placed, Laid
  <2> QED BY <1>1, <2>1, <2>2 DEF TInv, TimesAreTold
<1>5. CASE PassOver
  <2>1. phase = "stage" /\ Advance /\ Live /\ UNCHANGED <<chunks, timestamps>>
    BY <1>5 DEF PassOver, Live, writer
  <2>2. Placed' = {}
    BY <1>2, <1>3, <2>1, AdvanceVisits DEF Placed
  <2> QED BY <1>1, <2>1, <2>2 DEF TInv, TimesAreTold
<1>6. ASSUME NEW size \in PayloadSizes, WriteChunk(size)
      PROVE  TimesAreTold'
  <2> DEFINE segment == file.segments[at]
             chunk == [timestamp |-> McaTimestamp(segment),
                       payload |-> ChunkValue(at, segment), size |-> size]
             index == TableIndex(at)
  <2>1. phase = "stage" /\ Live /\ Advance /\ Stage(index, chunk) /\ UNCHANGED timestamps
    BY <1>2, <1>6 DEF WriteChunk, TableIndex, Live
  <2>2. Placed' = {}
    BY <1>2, <1>3, <2>1, AdvanceVisits DEF Placed
  <2>3. /\ DOMAIN chunks' = DOMAIN chunks \cup {index}
        /\ chunks'[index] = chunk
        /\ \A i \in DOMAIN chunks : i # index => chunks'[i] = chunks[i]
    BY <2>1 DEF Stage
  <2>4. TableIndex(index) = at
    BY <1>2, TableIndexTransposes DEF Types
  <2>5. chunks'[index].timestamp = McaTimestamp(file.segments[TableIndex(index)])
    BY <2>3, <2>4
  <2> HIDE DEF index
  <2> QED BY <1>1, <2>1, <2>2, <2>3, <2>5 DEF TInv, TimesAreTold
<1>7. CASE SkipEmpty
  <2>1. /\ phase = "finish" /\ Advance /\ Live /\ at \notin DOMAIN chunks
        /\ UNCHANGED <<chunks, timestamps>>
    BY <1>7 DEF SkipEmpty, Live, writer
  <2>2. Placed' = Placed
    <3>1. \A i \in Indices : Laid(i)' <=> Laid(i) \/ i = at
      BY <1>2, <2>1, AdvanceVisits
    <3> QED BY <1>3, <2>1, <3>1 DEF Placed
  <2> QED BY <1>1, <2>1, <2>2 DEF TInv, TimesAreTold
<1>8. CASE Place
  <2>1. /\ phase = "finish" /\ Advance /\ Live /\ at \in DOMAIN chunks
        /\ timestamps' = [timestamps EXCEPT ![at] = chunks[at].timestamp]
        /\ UNCHANGED chunks
    BY <1>8 DEF Place, Live
  <2>2. Placed' = Placed \cup {at}
    <3>1. \A i \in Indices : Laid(i)' <=> Laid(i) \/ i = at
      BY <1>2, <2>1, AdvanceVisits
    <3> QED BY <1>3, <2>1, <3>1 DEF Placed
  <2>3. TimesAreTold /\ at \in Indices /\ Placed \subseteq Indices
    BY <1>3, <2>1 DEF TInv, Placed
  <2>4. \A i \in Placed \cup {at} : timestamps'[i] = chunks[i].timestamp
    BY <2>1, <2>3 DEF TimesAreTold
  <2> QED BY <1>1, <2>1, <2>2, <2>3, <2>4 DEF TimesAreTold
<1>9. CASE Write
  <2>1. /\ phase = "write" /\ phase' = "Written" /\ Live /\ UNCHANGED <<chunks, timestamps>>
    BY <1>9 DEF Write, Live, writer
  <2>2. Placed' = Placed
    BY <2>1 DEF Placed, Laid
  <2> QED BY <1>1, <2>1, <2>2 DEF TInv, TimesAreTold
<1>10. CASE UNCHANGED vars
  <2>1. Live /\ UNCHANGED <<phase, at, chunks, timestamps>>
    BY <1>10 DEF vars, writer, Live
  <2>2. Placed' = Placed
    BY <2>1 DEF Placed, Laid
  <2> QED BY <1>1, <2>1, <2>2 DEF TInv, TimesAreTold
<1> QED BY <1>2, <1>4, <1>5, <1>6, <1>7, <1>8, <1>9, <1>10
        DEF Next, RefuseTileEntity, RefuseChunk, RefuseSectors, FailToWrite

LEMMA TimesInvariance == Spec => [](IInv /\ TInv)
<1>1. Init => TInv
  BY TimesAtFirst
<1>2. IInv /\ IInv' /\ TInv /\ [Next]_vars => TInv'
  BY TimesStayTold
<1> QED BY <1>1, <1>2, Invariance, PTL DEF Spec

(***************************************************************************)
(* The time that the table of a written region gives for a chunk is that   *)
(* of the last change of anything in the chunk, provided that all its      *)
(* recorded times are of the past and less than I64_MAX before the         *)
(* present, so that no difference of the search wraps.                     *)
(***************************************************************************)
THEOREM ChunkTimesAreLastChanges == Spec => []TimestampIsLastChange
<1>1. ASSUME IInv, TInv
      PROVE  TimestampIsLastChange
  <2> SUFFICES ASSUME phase = "Written", NEW x \in Coordinates, NEW z \in Coordinates,
                      HoldsChunk(disk, x, z),
                      \A t \in Recorded(SegmentAt(x, z)) : t <= Epoch /\ Epoch - t < I64_MAX
               PROVE  \E last \in Recorded(SegmentAt(x, z)) :
                        /\ \A t \in Recorded(SegmentAt(x, z)) : t <= last
                        /\ disk.timestamps[z * REGION_SIDE + x] = Clamped(last)
    BY DEF TimestampIsLastChange
  <2> DEFINE i == x * REGION_SIDE + z
             e == z * REGION_SIDE + x
             segment == file.segments[i]
  <2>1. Types /\ StagedAre /\ Layout /\ disk = Bytes /\ TimesAreTold /\ file \in SourceFiles
    BY <1>1, IsLive DEF Live, IInv, TInv
  <2>2. i \in Indices /\ TableIndex(i) = e /\ TableIndex(e) = i /\ e \in Indices
    <3>1. i \in Indices /\ XOf(i) = x /\ ZOf(i) = z
      BY IndexOfCoordinates
    <3>2. TableIndex(i) = e
      BY <3>1 DEF TableIndex, IndexOf
    <3> QED BY <3>1, <3>2, TableIndexTransposes
  <2>3. disk.offsets = offsets /\ disk.timestamps = timestamps /\ offsets[e] # NoEntry
    BY <2>1 DEF Bytes, HoldsChunk
  <2>4. SegmentAt(x, z) = segment
    BY DEF SegmentAt
  <2> HIDE DEF i, e
  <2>5. e \in Placed /\ e \in DOMAIN chunks
    BY <2>1, <2>2, <2>3 DEF Layout, TableIsRight, Placed
  <2>6. ~IsPassedOver(segment)
    BY <2>1, <2>2, <2>5 DEF StagedAre
  <2>7. IsSegment(segment)
    BY <2>1, <2>2, <2>6, SourceFilesOK DEF IsPassedOver
  <2>8. timestamps[e] = McaTimestamp(segment)
    BY <2>1, <2>2, <2>5 DEF TimesAreTold
  <2> HIDE DEF segment
  <2>9. \E last \in Recorded(segment) :
          (\A t \in Recorded(segment) : t <= last) /\ McaTimestamp(segment) = Clamped(last)
    BY <2>4, <2>6, <2>7, ChunkTime
  <2> QED BY <2>3, <2>4, <2>8, <2>9 DEF e
<1> QED BY <1>1, TimesInvariance, PTL

=============================================================================
