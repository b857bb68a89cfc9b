-------------------------- MODULE ReferenceCodec --------------------------
(***************************************************************************)
(* The reference file format: io/serialize/reference.                      *)
(*                                                                         *)
(* WriteHandle goes through the region snapshot by snapshot and gives      *)
(* every palette it meets the next index of its domain's palette table     *)
(* (blocks or biomes), at its first use.  The tables are complete only at  *)
(* the end, but come first in the file.  ReadHandle reads the tables, then *)
(* the segments; of every section it keeps the newest max_deltas snapshots *)
(* (all of them if it is 0), resolving their palettes' indices, and skips  *)
(* the others.  It has limits for every length; the writer has none.       *)
(*                                                                         *)
(* A file is a sequence of fields.  A reader that expects another kind of  *)
(* field than the one it is at takes its bytes for something else: the     *)
(* model has no step there (Misreads).  The bytes of a field, the header   *)
(* and the compression are left out.                                       *)
(***************************************************************************)
EXTENDS Naturals, Sequences, FiniteSets

CONSTANTS
  SlotCount,          \* segments of a region
  SectionCount,       \* sections of a segment, in either domain
  Palettes,           \* palettes with entries
  PaletteLength,      \* how many entries each has
  DIRECT_PALETTE,     \* the palette of a snapshot that holds the atoms themselves
  NoPalette,          \* stands for the palette of Data::Single
  Timestamps,
  Cells,              \* packed cells of snapshots, and single atoms
  PackedLength,       \* how many words each has, if packed
  Erase,              \* TileEntityDelta::Erase; a Put is the length of its NBT
  Regions,            \* the regions written
  MaxDeltas,          \* the values of max_deltas readers are made with
  MAX_INDIRECT_PALETTE_SIZE,
  MAX_PALETTE_TABLE_LENGTH,
  MAX_DELTA_LENGTH,
  MAX_PACKED_LENGTH,
  MAX_SEGMENT_STATES_LENGTH,
  MAX_TILE_ENTITY_LIST_LENGTH,
  MAX_TILE_ENTITY_NBT_LENGTH

Domains == {"block", "biome"}
Slots == 1..SlotCount

Snapshots ==
  [palette : Palettes \cup {DIRECT_PALETTE, NoPalette},
   timestamp : Timestamps, cells : Cells]

(* SegmentStateType: Unknown, New, Old *)
StateTypes == 0..2

(* A list of tile entity deltas, by position. *)
TileEntityLists == Seq(Nat \cup {Erase})

NoSegment == [present |-> FALSE]

PresentSegments ==
  [present : {TRUE},
   sections : [Domains -> [1..SectionCount -> Seq(Snapshots)]],
   states : Seq(StateTypes),
   tile_entities : Seq(TileEntityLists)]

FormatOK ==
  /\ SlotCount \in Nat \ {0}
  /\ SectionCount \in Nat \ {0}
  /\ PaletteLength \in [Palettes -> Nat \ {0}]
  /\ PackedLength \in [Cells -> Nat]
  /\ {DIRECT_PALETTE, NoPalette} \cap Palettes = {}
  /\ DIRECT_PALETTE # NoPalette
  /\ Erase \notin Nat
  /\ Regions \subseteq [Slots -> {NoSegment} \cup PresentSegments]
  /\ MaxDeltas \subseteq Nat
  /\ {MAX_INDIRECT_PALETTE_SIZE, MAX_PALETTE_TABLE_LENGTH, MAX_DELTA_LENGTH,
      MAX_PACKED_LENGTH, MAX_SEGMENT_STATES_LENGTH, MAX_TILE_ENTITY_LIST_LENGTH,
      MAX_TILE_ENTITY_NBT_LENGTH} \subseteq Nat

ASSUME FormatOK

VARIABLES
  region,       \* what is written
  stage,        \* "writing", "tables", "reading", "done" or "failed"
  at,           \* what is written or read next: its slot, part and snapshot
  tables,       \* the palettes by index: the writer's maps, then the reader's tables
  body,         \* the segments' fields
  file,
  pos,          \* the reader's cursor
  max_deltas,   \* the reader's limit
  delta_length, \* the length of the section the reader is in
  read          \* the region read so far

codec_vars ==
  <<region, stage, at, tables, body, file, pos, max_deltas, delta_length, read>>

(* A segment's parts, in file order: the indicator, the sections of each   *)
(* domain, its states, its tile entities.  In a section delta 0 is the     *)
(* length, delta k the k-th snapshot.                                      *)
FirstPart == 0
StatesPart == 2 * SectionCount + 1
LastPart == 2 * SectionCount + 2
DomainOf(part) == IF part <= SectionCount THEN "block" ELSE "biome"
SectionOf(part) == IF part <= SectionCount THEN part ELSE part - SectionCount

FirstPlace == [slot |-> 1, part |-> FirstPart, delta |-> 0]
NextSlot == [slot |-> at.slot + 1, part |-> FirstPart, delta |-> 0]
NextPart == [slot |-> at.slot, part |-> at.part + 1, delta |-> 0]

(* The next snapshot of a section of this length, or what follows it. *)
NextDelta(length) == IF at.delta < length THEN [at EXCEPT !.delta = @ + 1] ELSE NextPart

IsSection(place) == place.part \in 1..(StatesPart - 1)

Field(kind, value) == [kind |-> kind, value |-> value]

-----------------------------------------------------------------------------
(* Writing                                                                 *)

Writes == stage = "writing" /\ at.slot \in Slots

Write(fields, next) ==
  /\ body' = body \o fields
  /\ at' = next
  /\ UNCHANGED <<region, stage, file, pos, max_deltas, delta_length, read>>

(* The snapshots of the section at a place. *)
SnapshotsAt(place) ==
  region[place.slot].sections[DomainOf(place.part)][SectionOf(place.part)]

Entries(table) == {table[i] : i \in DOMAIN table}

(* The next index for a palette that is not in the table. *)
Extended(table, palette) ==
  IF palette \in Palettes /\ palette \notin Entries(table)
  THEN Append(table, palette)
  ELSE table

IndexOfMutant(palette, table) == Len(table) - 1

IndexOf(palette, table) == (CHOOSE i \in DOMAIN table : table[i] = palette) - 1

(* serialize_packed_snapshot; <<>> stands for the index u32::MAX *)
SnapshotFields(snapshot, table) ==
  LET single == snapshot.palette = NoPalette
      head == Field("head", [timestamp |-> snapshot.timestamp, single |-> single])
  IN  IF single
      THEN <<head, Field("atom", snapshot.cells)>>
      ELSE <<head, Field("words", snapshot.cells),
             Field("index", IF snapshot.palette = DIRECT_PALETTE THEN <<>>
                            ELSE <<IndexOf(snapshot.palette, table)>>)>>

WriteIndicator ==
  /\ Writes
  /\ at.part = FirstPart
  /\ Write(<<Field("indicator", region[at.slot].present)>>,
           IF region[at.slot].present THEN NextPart ELSE NextSlot)
  /\ UNCHANGED tables

(* serialize_packed_delta_data: the length, *)
WriteLength ==
  /\ Writes
  /\ IsSection(at)
  /\ at.delta = 0
  /\ LET length == Len(SnapshotsAt(at))
     IN  Write(<<Field("length", length)>>, NextDelta(length))
  /\ UNCHANGED tables

(* and then each snapshot. *)
WriteSnapshot ==
  /\ Writes
  /\ IsSection(at)
  /\ at.delta # 0
  /\ LET domain == DomainOf(at.part)
         snapshot == SnapshotsAt(at)[at.delta]
         table == Extended(tables[domain], snapshot.palette)
     IN  /\ tables' = [tables EXCEPT ![domain] = table]
         /\ Write(SnapshotFields(snapshot, table), NextDelta(Len(SnapshotsAt(at))))

WriteStates ==
  /\ Writes
  /\ at.part = StatesPart
  /\ Write(<<Field("states", region[at.slot].states)>>, NextPart)
  /\ UNCHANGED tables

WriteTileEntities ==
  /\ Writes
  /\ at.part = LastPart
  /\ Write(<<Field("tile_entities", region[at.slot].tile_entities)>>, NextSlot)
  /\ UNCHANGED tables

(* serialize_palette_table: the length counts every entry, those that are  *)
(* left out too.                                                           *)
IsWritten(palette) == PaletteLength[palette] # 1

TableFields(table) ==
  LET written[k \in 0..Len(table)] ==
        IF k = 0 THEN <<>>
        ELSE IF IsWritten(table[k])
             THEN Append(written[k - 1], Field("palette", table[k]))
             ELSE written[k - 1]
  IN  <<Field("table", Len(table))>> \o written[Len(table)]

WriteFile ==
  /\ stage = "writing"
  /\ at.slot = SlotCount + 1
  /\ file' = TableFields(tables["block"]) \o TableFields(tables["biome"]) \o body
  /\ stage' = "tables"
  /\ tables' = [domain \in Domains |-> <<>>]
  /\ body' = <<>>
  /\ at' = FirstPlace
  /\ UNCHANGED <<region, pos, max_deltas, delta_length, read>>

-----------------------------------------------------------------------------
(* Reading                                                                 *)

(* Fields of these kinds lie at the cursor and after it. *)
Follow(kinds) ==
  \A i \in DOMAIN kinds :
    pos + i - 1 \in DOMAIN file /\ file[pos + i - 1].kind = kinds[i]

(* The value of the i-th of them. *)
Value(i) == file[pos + i - 1].value

Stop(reason) ==
  /\ stage' = reason
  /\ UNCHANGED <<region, at, tables, body, file, pos, max_deltas, delta_length, read>>

TableFits == Value(1) <= MAX_PALETTE_TABLE_LENGTH

TableFollows ==
  /\ Follow(<<"table">>)
  /\ TableFits => \A i \in 1..Value(1) :
                    pos + i \in DOMAIN file /\ file[pos + i].kind = "palette"

(* What a palette of the table is taken for. *)
ReadPalette(palette) ==
  IF PaletteLength[palette] > MAX_INDIRECT_PALETTE_SIZE THEN DIRECT_PALETTE ELSE palette

(* deserialize_palette_table, for the blocks and then for the biomes *)
ReadTable ==
  /\ stage = "tables"
  /\ TableFollows
  /\ TableFits
  /\ LET count == Value(1)
         domain == IF pos = 1 THEN "block" ELSE "biome"
     IN  /\ tables' = [tables EXCEPT ![domain] =
                         [i \in 1..count |-> ReadPalette(file[pos + i].value)]]
         /\ pos' = pos + 1 + count
         /\ stage' = IF domain = "block" THEN "tables" ELSE "reading"
  /\ UNCHANGED <<region, at, body, file, max_deltas, delta_length, read>>

RefuseTable ==
  /\ stage = "tables"
  /\ TableFollows
  /\ ~TableFits
  /\ Stop("failed")

Reads == stage = "reading" /\ at.slot \in Slots

(* The reader goes on after this many fields. *)
Take(count, next) ==
  /\ pos' = pos + count
  /\ at' = next
  /\ UNCHANGED <<region, stage, tables, body, file, max_deltas>>

ReadIndicator ==
  /\ Reads
  /\ at.part = FirstPart
  /\ Follow(<<"indicator">>)
  /\ Take(1, IF Value(1) THEN NextPart ELSE NextSlot)
  /\ read' = IF Value(1)
             THEN [read EXCEPT ![at.slot] =
                     [present |-> TRUE,
                      sections |-> [domain \in Domains |->
                                      [section \in 1..SectionCount |-> <<>>]],
                      states |-> <<>>, tile_entities |-> <<>>]]
             ELSE read
  /\ UNCHANGED delta_length

(* read_section_group: the length of a section, *)
AtLength == Reads /\ IsSection(at) /\ at.delta = 0

LengthFits == Value(1) <= MAX_DELTA_LENGTH

ReadLength ==
  /\ AtLength
  /\ Follow(<<"length">>)
  /\ LengthFits
  /\ delta_length' = Value(1)
  /\ Take(1, NextDelta(Value(1)))
  /\ UNCHANGED read

RefuseLength ==
  /\ AtLength
  /\ Follow(<<"length">>)
  /\ ~LengthFits
  /\ Stop("failed")

(* and its snapshots, the first of which are kept. *)
AtKept ==
  Reads /\ IsSection(at) /\ at.delta # 0 /\ (max_deltas = 0 \/ at.delta <= max_deltas)

AtSkipped ==
  Reads /\ IsSection(at) /\ at.delta # 0 /\ max_deltas # 0 /\ at.delta > max_deltas

(* deserialize_packed_snapshot_value *)
KeptKinds ==
  IF Value(1).single THEN <<"head", "atom">> ELSE <<"head", "words", "index">>

KeptFollows == Follow(<<"head">>) /\ Follow(KeptKinds)

KeptFits == ~Value(1).single => PackedLength[Value(2)] <= MAX_PACKED_LENGTH

Table == tables[DomainOf(at.part)]

KeptResolves ==
  ~Value(1).single => \A i \in DOMAIN Value(3) : Value(3)[i] < Len(Table)

KeptSnapshot ==
  [palette |-> IF Value(1).single THEN NoPalette
               ELSE IF Value(3) = <<>> THEN DIRECT_PALETTE
               ELSE Table[Value(3)[1] + 1],
   timestamp |-> Value(1).timestamp,
   cells |-> Value(2)]

ReadSnapshot ==
  /\ AtKept
  /\ KeptFollows
  /\ KeptFits
  /\ KeptResolves
  /\ read' = [read EXCEPT ![at.slot].sections[DomainOf(at.part)][SectionOf(at.part)] =
                Append(@, KeptSnapshot)]
  /\ Take(Len(KeptKinds), NextDelta(delta_length))
  /\ UNCHANGED delta_length

RefuseSnapshot ==
  /\ AtKept
  /\ KeptFollows
  /\ ~KeptFits
  /\ Stop("failed")

(* skip_packed_snapshot *)
SkippedKindsMutant ==
  IF Value(1).single THEN <<"head", "atom">> ELSE <<"head", "words">>

SkippedKinds ==
  IF Value(1).single THEN <<"head", "atom">> ELSE <<"head", "words", "index">>

SkippedFollows == Follow(<<"head">>) /\ Follow(SkippedKinds)

SkippedFitsMutant == TRUE

SkippedFits == ~Value(1).single => PackedLength[Value(2)] <= MAX_PACKED_LENGTH

SkipSnapshot ==
  /\ AtSkipped
  /\ SkippedFollows
  /\ SkippedFits
  /\ Take(Len(SkippedKinds), NextDelta(delta_length))
  /\ UNCHANGED <<delta_length, read>>

RefuseSkipped ==
  /\ AtSkipped
  /\ SkippedFollows
  /\ ~SkippedFits
  /\ Stop("failed")

(* deserialize_segment_info *)
AtStates == Reads /\ at.part = StatesPart

StatesFollow ==
  Follow(<<"states">>) /\ \A i \in DOMAIN Value(1) : Value(1)[i] \in StateTypes

StatesFit == Len(Value(1)) <= MAX_SEGMENT_STATES_LENGTH

ReadStates ==
  /\ AtStates
  /\ StatesFollow
  /\ StatesFit
  /\ read' = [read EXCEPT ![at.slot].states = Value(1)]
  /\ Take(1, NextPart)
  /\ UNCHANGED delta_length

RefuseStates ==
  /\ AtStates
  /\ StatesFollow
  /\ ~StatesFit
  /\ Stop("failed")

(* deserialize_tile_entities *)
AtTileEntities == Reads /\ at.part = LastPart

ListFits(list) ==
  /\ Len(list) <= MAX_TILE_ENTITY_LIST_LENGTH
  /\ \A i \in DOMAIN list : list[i] # Erase => list[i] <= MAX_TILE_ENTITY_NBT_LENGTH

TileEntitiesFit ==
  Len(Value(1)) <= MAX_DELTA_LENGTH /\ \A i \in DOMAIN Value(1) : ListFits(Value(1)[i])

ReadTileEntities ==
  /\ AtTileEntities
  /\ Follow(<<"tile_entities">>)
  /\ TileEntitiesFit
  /\ read' = [read EXCEPT ![at.slot].tile_entities = Value(1)]
  /\ Take(1, NextSlot)
  /\ UNCHANGED delta_length

RefuseTileEntities ==
  /\ AtTileEntities
  /\ Follow(<<"tile_entities">>)
  /\ ~TileEntitiesFit
  /\ Stop("failed")

FinishReading ==
  /\ stage = "reading"
  /\ at.slot = SlotCount + 1
  /\ Stop("done")

(* The reader meets bytes it does not expect, or an index beyond the table. *)
Misreads ==
  \/ stage = "tables" /\ ~TableFollows
  \/ Reads /\ at.part = FirstPart /\ ~Follow(<<"indicator">>)
  \/ AtLength /\ ~Follow(<<"length">>)
  \/ AtKept /\ ~KeptFollows
  \/ AtKept /\ KeptFollows /\ KeptFits /\ ~KeptResolves
  \/ AtSkipped /\ ~SkippedFollows
  \/ AtStates /\ ~StatesFollow
  \/ AtTileEntities /\ ~Follow(<<"tile_entities">>)

CodecInit ==
  /\ region \in Regions
  /\ max_deltas \in MaxDeltas
  /\ stage = "writing"
  /\ at = FirstPlace
  /\ tables = [domain \in Domains |-> <<>>]
  /\ body = <<>>
  /\ file = <<>>
  /\ pos = 1
  /\ delta_length = 0
  /\ read = [slot \in Slots |-> NoSegment]

WriteStep ==
  \/ WriteIndicator
  \/ WriteLength
  \/ WriteSnapshot
  \/ WriteStates
  \/ WriteTileEntities
  \/ WriteFile

ReadStep ==
  \/ ReadTable
  \/ ReadIndicator
  \/ ReadLength
  \/ ReadSnapshot
  \/ SkipSnapshot
  \/ ReadStates
  \/ ReadTileEntities
  \/ FinishReading

Refuse ==
  \/ RefuseTable
  \/ RefuseLength
  \/ RefuseSnapshot
  \/ RefuseSkipped
  \/ RefuseStates
  \/ RefuseTileEntities

CodecNext == WriteStep \/ ReadStep \/ Refuse

CodecSpec == CodecInit /\ [][CodecNext]_codec_vars

-----------------------------------------------------------------------------
(* Properties                                                              *)

Present == {slot \in Slots : region[slot].present}

(* What a reader with the limit should make of the region. *)
AsRead(snapshot) ==
  [snapshot EXCEPT !.palette = IF @ \in Palettes THEN ReadPalette(@) ELSE @]

Newest(snapshots) ==
  LET kept == IF max_deltas = 0 \/ Len(snapshots) <= max_deltas THEN Len(snapshots)
                                                                ELSE max_deltas
  IN  [k \in 1..kept |-> AsRead(snapshots[k])]

Limited ==
  [slot \in Slots |->
     IF slot \notin Present THEN NoSegment
     ELSE [region[slot] EXCEPT
             !.sections = [domain \in Domains |->
                             [section \in 1..SectionCount |->
                                Newest(region[slot].sections[domain][section])]]]]

(***************************************************************************)
(* Reading a written region yields it, up to the limit, from exactly the   *)
(* bytes that were written for it.  Of a palette with more entries than    *)
(* indices of 8 bits can name it keeps only that it is no indirect one, as *)
(* deserialize_palette_table does.                                         *)
(***************************************************************************)
RoundTrip == stage = "done" => read = Limited /\ pos = Len(file) + 1

(* What the region has in a domain. *)
SectionsOf(segment, domain) == {segment.sections[domain][section] : section \in 1..SectionCount}

SnapshotsOf(segment, domain) ==
  UNION {{snapshots[k] : k \in DOMAIN snapshots} : snapshots \in SectionsOf(segment, domain)}

PalettesOf(domain) ==
  Palettes \cap
    UNION {{snapshot.palette : snapshot \in SnapshotsOf(region[slot], domain)} : slot \in Present}

(* A segment has a section, snapshot, state or tile entity that is too long. *)
IsTooLong(segment) ==
  \/ \E domain \in Domains :
       \/ \E snapshots \in SectionsOf(segment, domain) : Len(snapshots) > MAX_DELTA_LENGTH
       \/ \E snapshot \in SnapshotsOf(segment, domain) :
            snapshot.palette # NoPalette /\ PackedLength[snapshot.cells] > MAX_PACKED_LENGTH
  \/ Len(segment.states) > MAX_SEGMENT_STATES_LENGTH
  \/ Len(segment.tile_entities) > MAX_DELTA_LENGTH
  \/ \E i \in DOMAIN segment.tile_entities : ~ListFits(segment.tile_entities[i])

IsBeyondLimits ==
  \/ \E domain \in Domains : Cardinality(PalettesOf(domain)) > MAX_PALETTE_TABLE_LENGTH
  \/ \E slot \in Present : IsTooLong(region[slot])

(***************************************************************************)
(* The reader never takes one field for another, and refuses a written     *)
(* file only for something that is longer than it admits, which the writer *)
(* does not check.                                                         *)
(***************************************************************************)
OnlyLimitsAreRefused == ~Misreads /\ (stage = "failed" => IsBeyondLimits)

(***************************************************************************)
(* What is accepted is within every limit, also where it was skipped: a    *)
(* reader that keeps a few snapshots refuses every file that one that      *)
(* keeps them all refuses.                                                 *)
(***************************************************************************)
AcceptedIsWithinLimits == stage = "done" => ~IsBeyondLimits

(***************************************************************************)
(* What round_trip_preserves_data asserts (reference/mod.rs:179).  A       *)
(* palette of one entry, as ReferenceReader and ExperimentalReader can     *)
(* return, is counted in the table's length and then left out of it.       *)
(***************************************************************************)
RoundTripPreservesData ==
  stage \in {"done", "failed"} \/ Misreads => stage = "done" /\ read = region

=============================================================================
