--------------------------- MODULE RegionExport ---------------------------
(***************************************************************************)
(* The export of one region file: export_file of zvcr_cli/src/export.rs    *)
(* and the region writer it fills, zvcr_cli/src/anvil.rs.                  *)
(*                                                                         *)
(* The segments are visited in the region's order.  Of each, the state it  *)
(* had at the time of the export becomes a chunk; its compressed bytes are *)
(* staged with a timestamp.  When all are staged, finish() gives each of   *)
(* them whole sectors behind two tables, the one of places and the one of  *)
(* timestamps, and the file is written at once.                            *)
(*                                                                         *)
(* A section is taken for the full snapshots that DeltaHistory is shown to *)
(* store, and read as SegmentHistory reads it.  The NBT of a chunk is what *)
(* it says (position, sections, tile entities); how long its compressed    *)
(* bytes are is zlib's affair, any of PayloadSizes here.                   *)
(***************************************************************************)
EXTENDS Integers, Sequences, FiniteSets, Functions

CONSTANTS
  REGION_SIDE,        \* segments along a side of a region
  SECTOR_SIZE,        \* bytes of a sector
  MAX_PAYLOAD_BYTES,  \* write_chunk takes payloads below it
  U32_MAX,            \* the largest timestamp a table can hold
  I64_MAX,            \* the largest timestamp a history can hold
  PayloadSizes,       \* lengths of compressed chunks
  SourceFiles,        \* what export_file may be called for
  Dimension,          \* the dimension the user asked for
  Protocols,          \* protocols with a registry
  BadNbt,             \* tile entities whose bytes are no NBT
  UnwritableNbt,      \* those with NBT that cannot be serialized in a chunk
  Erase,              \* the delta of a position that held no tile entity
  Epoch,              \* when the export was started
  None

(* What three bytes can name.                                              *)
Places == 256 * 256 * 256

ASSUME ParametersOK ==
  /\ REGION_SIDE \in Nat \ {0}
  /\ SECTOR_SIZE \in Nat \ {0}
  /\ 2 + 255 * (REGION_SIDE * REGION_SIDE) < Places
  /\ PayloadSizes \subseteq Nat
  /\ MAX_PAYLOAD_BYTES \in Nat
  /\ MAX_PAYLOAD_BYTES > 255 * SECTOR_SIZE - 5
  /\ I64_MAX \in Nat
  /\ Epoch \in 0..I64_MAX

Coordinates == 0..(REGION_SIDE - 1)
Indices == 0..(REGION_SIDE * REGION_SIDE - 1)

IsSequence(s) == s \in Seq(Range(s))

IsHistory(history) ==
  IsSequence(history) /\ \A entry \in Range(history) : entry.timestamp \in Int

(* The sections of a segment, and the histories of each, are lists.        *)
IsSegment(segment) ==
  /\ IsSequence(segment.block_sections)
  /\ IsSequence(segment.biome_sections)
  /\ \A history \in Range(segment.block_sections) \cup Range(segment.biome_sections) :
       IsHistory(history)
  /\ IsHistory(segment.tile_entities)

ASSUME SourceFilesOK ==
  \A source \in SourceFiles : \A i \in Indices :
    source.segments[i] # None => IsSegment(source.segments[i])

VARIABLES
  file,    \* the source and what it holds
  phase,   \* where export_file is, or its outcome
  at,      \* the segment, then the chunk it is at
  chunks,  \* of AnvilRegionWriter: the chunks staged, by their index
  sector_offset, offsets, timestamps, chunk_writes,  \* of finish()
  disk,    \* the file at out_path, or None
  offered  \* history variable: the payload lengths given to write_chunk

writer == <<chunks, sector_offset, offsets, timestamps, chunk_writes>>
vars == <<file, phase, at, writer, disk, offered>>

Outcomes == {"Skipped", "Failed", "Written"}

Finished == phase \in Outcomes

-----------------------------------------------------------------------------
(* The chunk of a segment                                                  *)

(* A segment's past, read with the operators of SegmentHistory.            *)
Past(segment) ==
  INSTANCE SegmentHistory WITH
    sections <- segment.block_sections \o segment.biome_sections,
    reverse_deltas <- segment.tile_entities,
    states <- <<>>, seen <- <<>>,
    SectionCount <- Len(segment.block_sections \o segment.biome_sections),
    Updates <- {}, Positions <- {}, Entities <- {}, Slices <- {},
    StateTypes <- {}, Times <- {}, MaxCalls <- 0

(* For a section without a snapshot, section_snapshots returns nothing.    *)
HasUnseenSection(segment) ==
  \/ \E s \in DOMAIN segment.block_sections : segment.block_sections[s] = <<>>
  \/ \E s \in DOMAIN segment.biome_sections : segment.biome_sections[s] = <<>>

(* The grids of all sections at the time of the export, blocks first.      *)
SectionSnapshots(segment) ==
  [s \in DOMAIN (segment.block_sections \o segment.biome_sections) |->
     Past(segment)!SectionBefore(s, Epoch)]

TileEntitiesOf(segment) ==
  IF segment.tile_entities = <<>>
  THEN Past(segment)!NoTileEntities
  ELSE Past(segment)!TileEntitiesBefore(Epoch)

TimesOf(history) == [k \in DOMAIN history |-> history[k].timestamp]

AllTimesOf(sections) ==
  LET upto[s \in 0..Len(sections)] ==
        IF s = 0 THEN <<>> ELSE upto[s - 1] \o TimesOf(sections[s])
  IN  upto[Len(sections)]

AvailableTimestampsMutant(segment) ==
  TimesOf(segment.tile_entities) \o AllTimesOf(segment.block_sections)

(* In the order of the code, which decides between two that are as near.   *)
AvailableTimestamps(segment) ==
  TimesOf(segment.tile_entities)
  \o AllTimesOf(segment.block_sections)
  \o AllTimesOf(segment.biome_sections)

(* A difference of two i64, wrapped as a release build wraps it.           *)
Wrapped(n) ==
  LET range == 2 * (I64_MAX + 1)
  IN  ((n + I64_MAX + 1) % range) - (I64_MAX + 1)

(* abs() of the least i64 is that number itself.                           *)
Distance(t) ==
  LET difference == Wrapped(t - Epoch)
  IN  Wrapped(IF difference < 0 THEN -difference ELSE difference)

(* The loop of find_nearest_timestamp: the first of the nearest, or Epoch  *)
(* if none is nearer than I64_MAX.                                         *)
FindNearestTimestamp(times) ==
  LET closest[k \in 0..Len(times)] ==
        IF k = 0 THEN [t |-> Epoch, distance |-> I64_MAX]
        ELSE IF Distance(times[k]) < closest[k - 1].distance
             THEN [t |-> times[k], distance |-> Distance(times[k])]
             ELSE closest[k - 1]
  IN  closest[Len(times)].t

Clamped(t) == IF t < 0 THEN 0 ELSE IF t > U32_MAX THEN U32_MAX ELSE t

McaTimestamp(segment) == Clamped(FindNearestTimestamp(AvailableTimestamps(segment)))

XOf(idx) == idx \div REGION_SIDE

ZOf(idx) == idx % REGION_SIDE

ChunkValue(idx, segment) ==
  [xPos |-> file.rx * REGION_SIDE + XOf(idx),
   zPos |-> file.rz * REGION_SIDE + ZOf(idx),
   sections |-> SectionSnapshots(segment),
   block_entities |-> TileEntitiesOf(segment)]

-----------------------------------------------------------------------------
(* Staging                                                                 *)

IsRefused ==
  \/ ~file.named
  \/ ~file.readable
  \/ file.protocol \notin Protocols
  \/ file.dimension # Dimension

(* The checks before the first segment: the name, an output that is there, *)
(* then the file, its protocol and its dimension.                          *)
Open ==
  /\ phase = "open"
  /\ phase' = IF file.named /\ disk # None THEN "Skipped"
              ELSE IF IsRefused THEN "Failed"
              ELSE "stage"
  /\ UNCHANGED <<file, at, writer, disk, offered>>

(* The three continue of the loop.                                         *)
IsPassedOver(segment) ==
  segment # None =>
    \/ segment.block_sections = <<>>
    \/ HasUnseenSection(segment)

HasAny(segment, entities) ==
  LET list == TileEntitiesOf(segment)
  IN  \E pos \in DOMAIN list : list[pos] \in entities

HasBadNbt(segment) == HasAny(segment, BadNbt)

HasUnwritableNbt(segment) == HasAny(segment, UnwritableNbt)

Advance ==
  /\ at' = IF at + 1 \in Indices THEN at + 1 ELSE 0
  /\ phase' = IF at + 1 \in Indices THEN phase
              ELSE IF phase = "stage" THEN "finish" ELSE "write"

PassOver ==
  /\ phase = "stage"
  /\ IsPassedOver(file.segments[at])
  /\ Advance
  /\ UNCHANGED <<file, writer, disk, offered>>

RefuseTileEntity ==
  /\ phase = "stage"
  /\ ~IsPassedOver(file.segments[at])
  /\ HasBadNbt(file.segments[at])
  /\ phase' = "Failed"
  /\ UNCHANGED <<file, at, writer, disk, offered>>

(* root_compound_to_bytes fails.  What follows it, compressing into memory,*)
(* can only fail as a write into a Vec can: never.                         *)
RefuseChunk ==
  /\ phase = "stage"
  /\ ~IsPassedOver(file.segments[at])
  /\ ~HasBadNbt(file.segments[at])
  /\ HasUnwritableNbt(file.segments[at])
  /\ phase' = "Failed"
  /\ UNCHANGED <<file, at, writer, disk, offered>>

(* write_chunk: the index of the tables is not the one of the region.      *)
IndexOfMutant(x, z) == x * REGION_SIDE + z

IndexOf(x, z) == z * REGION_SIDE + x

Stage(index, entry) ==
  chunks' = [i \in DOMAIN chunks \cup {index} |-> IF i = index THEN entry ELSE chunks[i]]

WriteChunk(size) ==
  LET segment == file.segments[at]
  IN  /\ phase = "stage"
      /\ ~IsPassedOver(segment)
      /\ ~HasBadNbt(segment)
      /\ ~HasUnwritableNbt(segment)
      /\ offered' = [offered EXCEPT ![at] = size]
      /\ IF size >= MAX_PAYLOAD_BYTES
         THEN phase' = "Failed" /\ UNCHANGED <<at, chunks>>
         ELSE /\ Stage(IndexOf(XOf(at), ZOf(at)),
                       [timestamp |-> McaTimestamp(segment),
                        payload |-> ChunkValue(at, segment),
                        size |-> size])
              /\ Advance
      /\ UNCHANGED <<file, sector_offset, offsets, timestamps, chunk_writes, disk>>

-----------------------------------------------------------------------------
(* Laying out the file                                                     *)

DivCeil(n, d) == (n + d - 1) \div d

(* The length of the payload and the kind of compression precede it.       *)
OnDisk(size) == size + 5

SectorCount(size) == DivCeil(OnDisk(size), SECTOR_SIZE)

SkipEmpty ==
  /\ phase = "finish"
  /\ at \notin DOMAIN chunks
  /\ Advance
  /\ UNCHANGED <<file, writer, disk, offered>>

RefuseSectorsMutant ==
  /\ phase = "finish"
  /\ at \in DOMAIN chunks
  /\ SectorCount(chunks[at].size) >= 255
  /\ phase' = "Failed"
  /\ UNCHANGED <<file, at, writer, disk, offered>>

RefuseSectors ==
  /\ phase = "finish"
  /\ at \in DOMAIN chunks
  /\ SectorCount(chunks[at].size) >= 256
  /\ phase' = "Failed"
  /\ UNCHANGED <<file, at, writer, disk, offered>>

(* An entry of the table: three bytes of place, one of length.             *)
Entry(offset, count) == [offset |-> offset % Places, count |-> count % 256]

NoEntry == Entry(0, 0)

Place ==
  LET entry == chunks[at]
  IN  /\ phase = "finish"
      /\ at \in DOMAIN chunks
      /\ SectorCount(entry.size) < 256
      /\ offsets' = [offsets EXCEPT ![at] = Entry(sector_offset, SectorCount(entry.size))]
      /\ timestamps' = [timestamps EXCEPT ![at] = entry.timestamp]
      /\ chunk_writes' = Append(chunk_writes,
                                [offset |-> sector_offset, payload |-> entry.payload,
                                 length |-> OnDisk(entry.size)])
      /\ sector_offset' = sector_offset + SectorCount(entry.size)
      /\ Advance
      /\ UNCHANGED <<file, chunks, disk, offered>>

(* What finish() returns; the writes are made in their order.              *)
Bytes ==
  [length |-> sector_offset * SECTOR_SIZE,
   offsets |-> offsets, timestamps |-> timestamps, chunk_writes |-> chunk_writes]

Write ==
  /\ phase = "write"
  /\ disk' = Bytes
  /\ phase' = "Written"
  /\ UNCHANGED <<file, at, writer, offered>>

(* create_dir_all or write fails, the latter after the file was created.   *)
FailToWrite ==
  /\ phase = "write"
  /\ disk' \in {None, "torn"}
  /\ phase' = "Failed"
  /\ UNCHANGED <<file, at, writer, offered>>

Init ==
  /\ file \in SourceFiles
  /\ phase = "open"
  /\ at = 0
  /\ chunks = <<>>
  /\ sector_offset = 2
  /\ offsets = [i \in Indices |-> NoEntry]
  /\ timestamps = [i \in Indices |-> 0]
  /\ chunk_writes = <<>>
  /\ disk \in {None, "present"}
  /\ offered = [i \in Indices |-> 0]

Next ==
  \/ Open
  \/ PassOver
  \/ RefuseTileEntity
  \/ RefuseChunk
  \/ \E size \in PayloadSizes : WriteChunk(size)
  \/ SkipEmpty
  \/ RefuseSectors
  \/ Place
  \/ Write
  \/ FailToWrite

Spec == Init /\ [][Next]_vars

-----------------------------------------------------------------------------
(* Properties                                                              *)

(* What a reader of region files finds for the chunk at x, z: the bytes at *)
(* the place the table names, as long as no later write is over them.      *)
StartOf(write) == write.offset * SECTOR_SIZE

EndOf(write) == StartOf(write) + write.length

Overlap(w, u) == StartOf(w) < EndOf(u) /\ StartOf(u) < EndOf(w)

HoldsChunk(bytes, x, z) == bytes.offsets[z * REGION_SIDE + x] # NoEntry

ReadsBack(bytes, x, z, payload) ==
  LET entry == bytes.offsets[z * REGION_SIDE + x]
      writes == bytes.chunk_writes
  IN  \E k \in DOMAIN writes :
        /\ writes[k].offset = entry.offset
        /\ writes[k].payload = payload
        /\ entry.offset >= 2
        /\ writes[k].length <= entry.count * SECTOR_SIZE
        /\ EndOf(writes[k]) <= bytes.length
        /\ \A j \in DOMAIN writes : j # k => ~Overlap(writes[j], writes[k])

SegmentAt(x, z) == file.segments[x * REGION_SIDE + z]

(***************************************************************************)
(* A written region holds, where a reader looks for the chunk at x, z, the *)
(* state of exactly that segment at the time of the export, whole and      *)
(* under its own coordinates; no chunk's bytes run into another's, a table *)
(* or the end of the file.  A chunk is missing only if the segment has no  *)
(* sections or one of them was never seen: a failing chunk never leaves a  *)
(* region without it.                                                      *)
(***************************************************************************)
WrittenIsWhole ==
  phase = "Written" =>
    \A x, z \in Coordinates :
      LET segment == SegmentAt(x, z)
      IN  IF \/ segment = None
             \/ segment.block_sections = <<>>
             \/ HasUnseenSection(segment)
          THEN ~HoldsChunk(disk, x, z)
          ELSE ReadsBack(disk, x, z,
                 [xPos |-> file.rx * REGION_SIDE + x, zPos |-> file.rz * REGION_SIDE + z,
                  sections |-> SectionSnapshots(segment),
                  block_entities |-> TileEntitiesOf(segment)])

Recorded(segment) ==
  LET times == AllTimesOf(segment.block_sections \o segment.biome_sections)
               \o TimesOf(segment.tile_entities)
  IN  Range(times)

(***************************************************************************)
(* The timestamp of a chunk whose past ended before the export is the time *)
(* of the last change of anything in it, blocks, biomes or tile entities,  *)
(* as far as a table can hold it; provided that no recorded time is so far *)
(* from the present that their difference leaves an i64.                   *)
(***************************************************************************)
TimestampIsLastChange ==
  phase = "Written" =>
    \A x, z \in Coordinates :
      HoldsChunk(disk, x, z) =>
        LET recorded == Recorded(SegmentAt(x, z))
        IN  (\A t \in recorded : t <= Epoch /\ Epoch - t < I64_MAX) =>
              \E last \in recorded :
                /\ \A t \in recorded : t <= last
                /\ disk.timestamps[z * REGION_SIDE + x] = Clamped(last)

(***************************************************************************)
(* An export fails only for a cause: a source that is refused as a whole,  *)
(* a chunk with tile entities that are no NBT or cannot be serialized, a   *)
(* chunk that needs 256 sectors or more, whichever of the two checks of    *)
(* write_chunk and finish meets it, or a file system that fails when all   *)
(* is laid out.                                                            *)
(***************************************************************************)
FailsForACause ==
  LET exported == {i \in Indices : ~IsPassedOver(file.segments[i])}
  IN  phase = "Failed" =>
        \/ IsRefused
        \/ \E i \in exported : HasBadNbt(file.segments[i]) \/ HasUnwritableNbt(file.segments[i])
        \/ \E i \in exported : offered[i] > 255 * SECTOR_SIZE - 5
        \/ Len(chunk_writes) = Cardinality(exported)

=============================================================================
