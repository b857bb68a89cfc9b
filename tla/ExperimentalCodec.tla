------------------------- MODULE ExperimentalCodec -------------------------
(***************************************************************************)
(* The experimental file format: io/serialize/experimental, its writer and *)
(* its reader.                                                             *)
(*                                                                         *)
(* The writer spreads what it knows of a snapshot over separate streams    *)
(* (kinds, timestamps, atoms of uniform snapshots, local palettes, packed  *)
(* cells by their width) and joins the streams into a file.  Nothing in    *)
(* the file says which entries belong together: that follows from the      *)
(* order in which writer and reader sweep the snapshots, from counts taken *)
(* of the earlier streams, and from where the streams begin, which the     *)
(* reader finds by adding up sizes.                                        *)
(*                                                                         *)
(* ExperimentalWriter codes the newest snapshots of the block sections     *)
(* with a model (modeling); RawWriter treats them like all others.  The    *)
(* payload of the model is one field here.  A file is a sequence of        *)
(* fields, and a stream with a length of its own is one of them; a reader  *)
(* that expects another kind of field than the one it is at reads garbage, *)
(* and the model has no step there (Misreads).                             *)
(***************************************************************************)
EXTENDS Integers, Sequences, FiniteSets

CONSTANTS
  SlotCount,     \* segments of a region
  SectionCount,  \* sections of a segment
  BlockCells, BiomeCells,  \* positions in a section's grid
  Regions,       \* the regions written
  MAX_INDIRECT_PALETTE_SIZE,
  MAX_COUNT      \* snapshots of a section that its count can express (65535)

Slots == 1..SlotCount
Scans == 1..(SlotCount * SectionCount)
SlotOf(scan) == ((scan - 1) \div SectionCount) + 1
SectionOf(scan) == ((scan - 1) % SectionCount) + 1

Domains == {"block", "biome"}
CellsOf(domain) == IF domain = "block" THEN BlockCells ELSE BiomeCells

Absent == [present |-> FALSE]

(* A palette holds atoms, the empty one stands for DIRECT_PALETTE; atoms   *)
(* are numbers.                                                            *)
SingleSnapshots == [kind : {"single"}, timestamp : Int, atom : Nat]

PalettedSnapshots(domain) ==
  {snapshot \in [kind : {"paletted"}, timestamp : Int, palette : Seq(Nat),
                 values : [CellsOf(domain) -> Nat]] :
     /\ Len(snapshot.palette) <= MAX_INDIRECT_PALETTE_SIZE
     /\ snapshot.palette = <<>>
          \/ \A c \in CellsOf(domain) : snapshot.values[c] < Len(snapshot.palette)}

Histories(domain) == Seq(SingleSnapshots \cup PalettedSnapshots(domain))

(* A biome section has too few cells to need a direct snapshot.            *)
ASSUME ParametersOK ==
  /\ {SlotCount, SectionCount, MAX_INDIRECT_PALETTE_SIZE, MAX_COUNT} \subseteq Nat \ {0}
  /\ \A domain \in Domains : IsFiniteSet(CellsOf(domain)) /\ CellsOf(domain) # {}
  /\ Cardinality(BiomeCells) <= MAX_INDIRECT_PALETTE_SIZE
  /\ \A region \in Regions :
       /\ DOMAIN region = Slots
       /\ \A slot \in Slots : /\ region[slot].present \in BOOLEAN
                             /\ region[slot].present =>
                                  \A domain \in Domains, section \in 1..SectionCount :
                                    region[slot].sections[domain][section] \in Histories(domain)

VARIABLES
  region,    \* what is written
  modeling,  \* whether the newest block snapshots go through the model
  phase,     \* "metadata", "mark block", "block", "mark biome", "biome",
             \* "rest": writing; "parts", "prescan", "sweep block", "sweep
             \* biome", "tail": reading; "done" or "refused"
  todo,      \* snapshots the sweep has still to visit
  palette,   \* the global palette of the domain being written
  streams,   \* what is written so far
  file,
  pos,       \* fields the reader's main cursor has passed
  got,       \* the parts read with it, in the order of Parts
  cursors,   \* local: of the local palettes, one per bucket, and the tail
  used,      \* how many timestamps, singles and tags the sweep has used
  storage    \* domain -> slot -> snapshots, one vector per segment

vars == <<region, modeling, phase, todo, palette, streams, file,
          pos, got, cursors, used, storage>>

-----------------------------------------------------------------------------
(* The order of sweeps: all newest snapshots first, then the next newer.   *)

(* How many snapshots there are at every scan, given as a function.        *)
Positions(counts) ==
  {[level |-> level, scan |-> scan] :
     level \in 0..(MAX_COUNT - 1), scan \in {s \in Scans : counts[s] > 0}}

Visited(counts) == {p \in Positions(counts) : p.level < counts[p.scan]}

Before(p, q) == p.level < q.level \/ (p.level = q.level /\ p.scan < q.scan)

First(positions) == CHOOSE p \in positions : \A q \in positions \ {p} : Before(p, q)

(* The positions in their order. *)
Swept(positions) ==
  [k \in 1..Cardinality(positions) |->
     CHOOSE p \in positions : Cardinality({q \in positions : Before(q, p)}) = k - 1]

Ascending(numbers) ==
  [k \in 1..Cardinality(numbers) |->
     CHOOSE n \in numbers : Cardinality({x \in numbers : x < n}) = k - 1]

Joined(sequences) ==
  LET joined[k \in 0..Len(sequences)] ==
        IF k = 0 THEN <<>> ELSE joined[k - 1] \o sequences[k]
  IN  joined[Len(sequences)]

-----------------------------------------------------------------------------
(* Widths and buckets                                                      *)

BitsPerEntry(length) ==
  IF length <= 2 THEN 1 ELSE IF length <= 4 THEN 2 ELSE IF length <= 16 THEN 4
  ELSE IF length <= MAX_INDIRECT_PALETTE_SIZE THEN 8 ELSE 16

(* palette_bpe: an empty local palette marks a direct snapshot. *)
PaletteBpe(length) == IF length = 0 THEN 16 ELSE BitsPerEntry(length)

TrailingZeros(bpe) == CHOOSE n \in 0..4 : 2 ^ n = bpe

Bucket(domain, bpe) == (IF domain = "block" THEN 0 ELSE 5) + TrailingZeros(bpe)

Buckets == 0..9

(* The last bucket, of direct biome snapshots, has no part in the file.    *)
FileBuckets == 0..8

-----------------------------------------------------------------------------
(* Writing                                                                 *)

SnapshotsAt(domain, scan) ==
  LET segment == region[SlotOf(scan)]
  IN  IF segment.present THEN segment.sections[domain][SectionOf(scan)] ELSE <<>>

Counts(domain) == [scan \in Scans |-> Len(SnapshotsAt(domain, scan))]

SnapshotAt(domain, p) == SnapshotsAt(domain, p.scan)[p.level + 1]

Modeled(domain, p) == modeling /\ domain = "block" /\ p.level = 0

Fields(kind, values) == [k \in DOMAIN values |-> [kind |-> kind, value |-> values[k]]]

(* The descriptor of a section is the kind of its newest snapshot. *)
Descriptor(domain, scan) ==
  IF SnapshotsAt(domain, scan) = <<>> THEN "none" ELSE SnapshotsAt(domain, scan)[1].kind

Descriptors(domain) == Fields("descriptor", [scan \in Scans |-> Descriptor(domain, scan)])

(* A count has two bytes: more snapshots than that would come round to 0.  *)
CountFields(domain) ==
  LET counts == [scan \in Scans |-> Counts(domain)[scan] % (MAX_COUNT + 1)]
      described == Ascending({scan \in Scans : counts[scan] # 0})
  IN  Fields("count", [k \in DOMAIN described |-> counts[described[k]]])

(* write_delta_tags: the kinds of the snapshots that are not newest. *)
TagFields(domain) ==
  LET deltas == Swept({p \in Visited(Counts(domain)) : p.level > 0})
  IN  Fields("tag", [k \in DOMAIN deltas |-> SnapshotAt(domain, deltas[k]).kind])

(* Unpacking a snapshot *)
AtomOf(snapshot, value) ==
  IF snapshot.palette = <<>> THEN value ELSE snapshot.palette[value + 1]

Unpacked(domain, snapshot) ==
  [c \in CellsOf(domain) |->
     IF snapshot.kind = "single" THEN snapshot.atom ELSE AtomOf(snapshot, snapshot.values[c])]

(* What context::encode_region makes of the newest block snapshots; its    *)
(* inside is not modelled here.  The payload of a model is never empty.    *)
ModelPayload ==
  [scan \in {s \in Scans : SnapshotsAt("block", s) # <<>>} |->
     Unpacked("block", SnapshotsAt("block", scan)[1])]

TooLong == \E domain \in Domains, scan \in Scans : Counts(domain)[scan] > MAX_COUNT

(* Before a domain's snapshots are written, the atoms they use are marked. *)
Marking(domain) == IF domain = "block" THEN "mark block" ELSE "mark biome"

(* descriptors::write, and the model. *)
WriteMetadata ==
  /\ phase = "metadata"
  /\ ~TooLong
  /\ streams' =
       [streams EXCEPT
          !.metadata = Joined(<<Fields("presence", [slot \in Slots |-> region[slot].present]),
                                Descriptors("block"), Descriptors("biome"),
                                CountFields("block"), CountFields("biome"),
                                TagFields("block"), TagFields("biome")>>),
          !.model = Fields("model", <<[modeled |-> modeling,
                                       grid |-> IF modeling THEN ModelPayload ELSE <<>>]>>)]
  /\ phase' = Marking("block")
  /\ UNCHANGED <<region, modeling, todo, palette, file, pos, got, cursors, used, storage>>

(* A count does not fit into its field: the region is not written. *)
RefuseRegion ==
  /\ phase = "metadata"
  /\ TooLong
  /\ phase' = "refused"
  /\ UNCHANGED <<region, modeling, todo, palette, streams, file, pos, got, cursors,
                 used, storage>>

(* mark_global_atoms *)
MarkedAtoms(snapshot) ==
  IF snapshot.palette = <<>>
  THEN {snapshot.values[c] : c \in DOMAIN snapshot.values}
  ELSE {snapshot.palette[i] : i \in DOMAIN snapshot.palette}

IsPaletted(domain, p) == SnapshotAt(domain, p).kind = "paletted" /\ ~Modeled(domain, p)

(* finalize_palette *)
GlobalPalette(domain) ==
  Ascending(UNION {MarkedAtoms(SnapshotAt(domain, p)) :
                     p \in {q \in Visited(Counts(domain)) : IsPaletted(domain, q)}})

(* A domain's palette is written before the first of its snapshots. *)
StartDomain ==
  \E domain \in Domains :
    /\ phase = Marking(domain)
    /\ palette' = GlobalPalette(domain)
    /\ streams' = [streams EXCEPT !.global_palette =
                     @ \o Fields("palette", <<GlobalPalette(domain)>>)]
    /\ todo' = Visited(Counts(domain))
    /\ phase' = domain
    /\ UNCHANGED <<region, modeling, file, pos, got, cursors, used, storage>>

(* The values of a snapshot's cells, the most frequent first. *)
Frequency(values, x) == Cardinality({c \in DOMAIN values : values[c] = x})

Precedes(values, x, y) ==
  \/ Frequency(values, x) > Frequency(values, y)
  \/ Frequency(values, x) = Frequency(values, y) /\ x < y

Distinct(values) == {values[c] : c \in DOMAIN values}

RankOf(values, x) == Cardinality({y \in Distinct(values) : Precedes(values, y, x)})

RankedMutant(values) == Ascending(Distinct(values))

Ranked(values) ==
  [k \in 1..Cardinality(Distinct(values)) |->
     CHOOSE x \in Distinct(values) : RankOf(values, x) = k - 1]

IndexIn(atoms, atom) == (CHOOSE i \in DOMAIN atoms : atoms[i] = atom) - 1

IsDirect(snapshot) == Cardinality(Distinct(snapshot.values)) > MAX_INDIRECT_PALETTE_SIZE

(* The local palette: the places in the global palette of the atoms the    *)
(* cells hold, ranked; only these, whatever the snapshot's palette held.   *)
LocalPalette(snapshot) ==
  IF IsDirect(snapshot)
  THEN <<>>
  ELSE LET ranked == Ranked(snapshot.values)
       IN  [k \in DOMAIN ranked |-> IndexIn(palette, AtomOf(snapshot, ranked[k]))]

PackedCells(snapshot) ==
  [c \in DOMAIN snapshot.values |->
     IF IsDirect(snapshot) THEN snapshot.values[c] ELSE RankOf(snapshot.values, snapshot.values[c])]

(* global palette miss: the writer would fail. *)
PaletteMiss ==
  /\ phase \in Domains
  /\ todo # {}
  /\ IsPaletted(phase, First(todo))
  /\ LET snapshot == SnapshotAt(phase, First(todo))
     IN  /\ ~IsDirect(snapshot)
         /\ \E value \in Distinct(snapshot.values) :
              AtomOf(snapshot, value) \notin {palette[i] : i \in DOMAIN palette}

EmitSnapshot ==
  /\ phase \in Domains
  /\ todo # {}
  /\ ~PaletteMiss
  /\ LET p == First(todo)
         snapshot == SnapshotAt(phase, p)
         stamped == [streams EXCEPT !.timestamps =
                       @ \o Fields("timestamp", <<snapshot.timestamp>>)]
         bucket == Bucket(phase, PaletteBpe(Len(LocalPalette(snapshot))))
     IN  /\ todo' = todo \ {p}
         /\ streams' =
              IF Modeled(phase, p) THEN stamped
              ELSE IF snapshot.kind = "single"
              THEN [stamped EXCEPT !.singles = @ \o Fields("single", <<snapshot.atom>>)]
              ELSE [stamped EXCEPT
                      !.local_palettes = @ \o Fields("local", <<LocalPalette(snapshot)>>),
                      !.buckets[bucket] = @ \o Fields("packed", <<PackedCells(snapshot)>>)]
  /\ UNCHANGED <<region, modeling, phase, palette, file, pos, got, cursors, used, storage>>

FinishDomain ==
  /\ phase \in Domains
  /\ todo = {}
  /\ phase' = IF phase = "block" THEN Marking("biome") ELSE "rest"
  /\ UNCHANGED <<region, modeling, todo, palette, streams, file, pos, got, cursors, used, storage>>

(* A field for every present segment. *)
SegmentFields(kind, part) ==
  LET present == Ascending({slot \in Slots : region[slot].present})
  IN  Fields(kind, [k \in DOMAIN present |-> region[present[k]][part]])

(* States and tile entities, and the parts in the order of the file. *)
WriteRest ==
  /\ phase = "rest"
  /\ file' = Joined(<<streams.metadata, streams.model, streams.global_palette,
                      SegmentFields("states", "states"), streams.timestamps,
                      streams.singles, streams.local_palettes,
                      Joined([b \in 1..Cardinality(FileBuckets) |-> streams.buckets[b - 1]]),
                      SegmentFields("entities", "tile_entities")>>)
  /\ phase' = "parts"
  /\ UNCHANGED <<region, modeling, todo, palette, streams, pos, got, cursors, used, storage>>

-----------------------------------------------------------------------------
(* Reading                                                                 *)

(* count fields of the kind follow the given position. *)
Follow(kind, from, count) ==
  \A i \in (from + 1)..(from + count) : i \in DOMAIN file /\ file[i].kind = kind

ValuesAt(from, count) == [i \in 1..count |-> file[from + i].value]

(* What deserialize_region_data reads with its main cursor, in order.      *)
Parts ==
  << <<"presence", "region">>, <<"descriptor", "block">>, <<"descriptor", "biome">>,
     <<"count", "block">>, <<"count", "biome">>, <<"tag", "block">>, <<"tag", "biome">>,
     <<"model", "block">>, <<"palette", "block">>, <<"palette", "biome">>,
     <<"states", "region">>, <<"timestamp", "block">>, <<"timestamp", "biome">>,
     <<"single", "block">>, <<"single", "biome">> >>

Got(kind, domain) == got[CHOOSE k \in DOMAIN Parts : Parts[k] = <<kind, domain>>]

Present(slot) == Got("presence", "region")[slot]

PresentSlots == Ascending({slot \in Slots : Present(slot)})

HasModel == Got("model", "block")[1].modeled

Occurrences(values, x) == Cardinality({i \in DOMAIN values : values[i] = x})

(* Sections with a snapshot, up to the scan and in all. *)
DescribedUpTo(domain, scan) ==
  Cardinality({s \in 1..scan : Got("descriptor", domain)[s] # "none"})

Described(domain) == DescribedUpTo(domain, SlotCount * SectionCount)

(* read_counts: only described sections have a count in the file. *)
GotCounts(domain) ==
  [scan \in Scans |->
     IF Got("descriptor", domain)[scan] = "none"
     THEN 0
     ELSE Got("count", domain)[DescribedUpTo(domain, scan)]]

(* The sum of the counts of a set of sections. *)
CountSum(domain, scans) ==
  Cardinality({p \in Visited(GotCounts(domain)) : p.scan \in scans})

KindCountMutant(domain, kind) ==
  Occurrences(Got("tag", domain), kind) + Occurrences(Got("descriptor", domain), kind)

(* kind_count, and delta_kind_count for the blocks of a file with a model. *)
KindCount(domain, kind) ==
  Occurrences(Got("tag", domain), kind) +
    (IF domain = "block" /\ HasModel THEN 0 ELSE Occurrences(Got("descriptor", domain), kind))

PartLength(kind, domain) ==
  CASE kind = "presence"   -> SlotCount
    [] kind = "descriptor" -> Cardinality(Scans)
    [] kind = "count"      -> Described(domain)
    [] kind = "tag"        -> CountSum(domain, Scans) - Described(domain)
    [] kind = "model"      -> 1
    [] kind = "palette"    -> 1
    [] kind = "states"     -> Len(PresentSlots)
    [] kind = "timestamp"  -> CountSum(domain, Scans)
    [] kind = "single"     -> KindCount(domain, "single")

NextPart == Parts[Len(got) + 1]

NextLength == PartLength(NextPart[1], NextPart[2])

PartFollows == Follow(NextPart[1], pos, NextLength)

ReadPart ==
  /\ phase = "parts"
  /\ Len(got) < Len(Parts)
  /\ PartFollows
  /\ got' = Append(got, ValuesAt(pos, NextLength))
  /\ pos' = pos + NextLength
  /\ phase' = IF Len(got) + 1 = Len(Parts) THEN "prescan" ELSE "parts"
  /\ UNCHANGED <<region, modeling, todo, palette, streams, file, cursors, used, storage>>

(* The local palettes that follow the cursor, first of blocks, then biomes. *)
LocalCount(domain) == KindCount(domain, "paletted")

Locals == LocalCount("block") + LocalCount("biome")

DomainOfLocal(k) == IF k <= LocalCount("block") THEN "block" ELSE "biome"

(* prescan_domain and build_packed_cursors: a bucket begins after the local *)
(* palettes and the snapshots of all smaller buckets.                       *)
BucketStart(bucket) ==
  pos + Locals + Cardinality({k \in 1..Locals :
    Bucket(DomainOfLocal(k), PaletteBpe(Len(file[pos + k].value))) < bucket})

Placeholder == [kind |-> "single", atom |-> 0, timestamp |-> 0]

ScansOf(slot) == {scan \in Scans : SlotOf(scan) = slot}

(* SnapshotStorages::new: one vector for all sections of a segment.        *)
NewStorage(domain) ==
  [slot \in Slots |-> [i \in 1..CountSum(domain, ScansOf(slot)) |-> Placeholder]]

(* Where a section begins in its segment's vector *)
Start(domain, scan) == CountSum(domain, {s \in ScansOf(SlotOf(scan)) : s < scan})

Sweeping(domain) == IF domain = "block" THEN "sweep block" ELSE "sweep biome"

NothingUsed == [timestamp |-> 0, single |-> 0, tag |-> 0]

Prescan ==
  /\ phase = "prescan"
  /\ Follow("local", pos, Locals)
  /\ cursors' = [local |-> pos,
                 bucket |-> [bucket \in Buckets |-> BucketStart(bucket)],
                 tail |-> BucketStart(Cardinality(Buckets))]
  /\ storage' = [domain \in Domains |-> NewStorage(domain)]
  /\ todo' = Visited(GotCounts("block"))
  /\ used' = NothingUsed
  /\ phase' = Sweeping("block")
  /\ UNCHANGED <<region, modeling, palette, streams, file, pos, got>>

(* pack_modeled_section: atoms in the order of how often they occur; that  *)
(* of atoms occurring equally often is left to an unstable sort.           *)
Repacked(grid, timestamp) ==
  IF Cardinality(Distinct(grid)) = 1
  THEN [kind |-> "single", timestamp |-> timestamp, atom |-> Ranked(grid)[1]]
  ELSE IF Cardinality(Distinct(grid)) > MAX_INDIRECT_PALETTE_SIZE
  THEN [kind |-> "paletted", timestamp |-> timestamp, palette |-> <<>>, values |-> grid]
  ELSE [kind |-> "paletted", timestamp |-> timestamp, palette |-> Ranked(grid),
        values |-> [c \in DOMAIN grid |-> RankOf(grid, grid[c])]]

(* The snapshot the sweep of the domain is at *)
NextIsModeled(domain) == domain = "block" /\ First(todo).level = 0 /\ HasModel

NextKind(domain) ==
  IF First(todo).level = 0
  THEN Got("descriptor", domain)[First(todo).scan]
  ELSE Got("tag", domain)[used.tag + 1]

NextTimestamp(domain) == Got("timestamp", domain)[used.timestamp + 1]

NextLocal == file[cursors.local + 1].value

NextBucketMutant(domain) == Bucket("block", PaletteBpe(Len(NextLocal)))

NextBucket(domain) == Bucket(domain, PaletteBpe(Len(NextLocal)))

AtSnapshot(domain) == phase = Sweeping(domain) /\ todo # {}

PlaceMutant(domain, p) == Start(domain, p.scan) + 1

(* Where in its segment's vector a snapshot goes *)
Place(domain, p) == Start(domain, p.scan) + p.level + 1

(* The snapshot is put in place, and the sweep goes on to the next.        *)
Store(domain, snapshot, singles) ==
  LET p == First(todo)
  IN  /\ storage' = [storage EXCEPT ![domain][SlotOf(p.scan)][Place(domain, p)] = snapshot]
      /\ used' = [timestamp |-> used.timestamp + 1,
                  single |-> used.single + singles,
                  tag |-> used.tag + (IF p.level > 0 THEN 1 ELSE 0)]
      /\ todo' = todo \ {p}
      /\ UNCHANGED <<region, modeling, phase, palette, streams, file, pos, got>>

SweepModeled ==
  /\ AtSnapshot("block")
  /\ NextIsModeled("block")
  /\ Store("block", Repacked(Got("model", "block")[1].grid[First(todo).scan],
                             NextTimestamp("block")), 0)
  /\ UNCHANGED cursors

SingleFollows(domain) == used.single < Len(Got("single", domain))

SweepSingle ==
  \E domain \in Domains :
    /\ AtSnapshot(domain)
    /\ ~NextIsModeled(domain)
    /\ NextKind(domain) = "single"
    /\ SingleFollows(domain)
    /\ Store(domain, [kind |-> "single", timestamp |-> NextTimestamp(domain),
                      atom |-> Got("single", domain)[used.single + 1]], 1)
    /\ UNCHANGED cursors

(* The next local palette, and the next packed field of its bucket. *)
PalettedFollows(domain) ==
  /\ Follow("local", cursors.local, 1)
  /\ Follow("packed", cursors.bucket[NextBucket(domain)], 1)
  /\ \A i \in DOMAIN NextLocal : NextLocal[i] < Len(Got("palette", domain)[1])

Resolved(domain, local) ==
  [i \in DOMAIN local |-> Got("palette", domain)[1][local[i] + 1]]

(* read_paletted_snapshot *)
SweepPaletted ==
  \E domain \in Domains :
    /\ AtSnapshot(domain)
    /\ ~NextIsModeled(domain)
    /\ NextKind(domain) = "paletted"
    /\ PalettedFollows(domain)
    /\ Store(domain, [kind |-> "paletted", timestamp |-> NextTimestamp(domain),
                      palette |-> Resolved(domain, NextLocal),
                      values |-> file[cursors.bucket[NextBucket(domain)] + 1].value], 0)
    /\ cursors' = [cursors EXCEPT !.local = @ + 1, !.bucket[NextBucket(domain)] = @ + 1]

(* The blocks are swept before the biomes, and the tile entities read last. *)
FinishSweep ==
  \E domain \in Domains :
    /\ phase = Sweeping(domain)
    /\ todo = {}
    /\ IF domain = "block"
       THEN /\ phase' = Sweeping("biome")
            /\ todo' = Visited(GotCounts("biome"))
            /\ used' = NothingUsed
       ELSE phase' = "tail" /\ UNCHANGED <<todo, used>>
    /\ UNCHANGED <<region, modeling, palette, streams, file, pos, got, cursors, storage>>

TailFollows == Follow("entities", cursors.tail, Len(PresentSlots))

ReadTail ==
  /\ phase = "tail"
  /\ TailFollows
  /\ cursors' = [cursors EXCEPT !.tail = @ + Len(PresentSlots)]
  /\ got' = Append(got, ValuesAt(cursors.tail, Len(PresentSlots)))
  /\ phase' = "done"
  /\ UNCHANGED <<region, modeling, todo, palette, streams, file, pos, used, storage>>

(* The region read: sections share their segment's vector. *)
ReadSection(domain, scan) ==
  SubSeq(storage[domain][SlotOf(scan)],
         Start(domain, scan) + 1, Start(domain, scan) + GotCounts(domain)[scan])

(* The reader comes to something it does not expect, or beyond an end.     *)
Misreads ==
  \/ phase = "parts" /\ ~PartFollows
  \/ phase = "prescan" /\ ~Follow("local", pos, Locals)
  \/ \E domain \in Domains :
       /\ AtSnapshot(domain)
       /\ ~NextIsModeled(domain)
       /\ IF NextKind(domain) = "single" THEN ~SingleFollows(domain)
                                         ELSE ~PalettedFollows(domain)
  \/ phase = "tail" /\ ~TailFollows

Init ==
  /\ region \in Regions
  /\ modeling \in BOOLEAN
  /\ phase = "metadata"
  /\ todo = {}
  /\ palette = <<>>
  /\ streams = [metadata |-> <<>>, model |-> <<>>, global_palette |-> <<>>,
                timestamps |-> <<>>, singles |-> <<>>, local_palettes |-> <<>>,
                buckets |-> [bucket \in Buckets |-> <<>>]]
  /\ file = <<>>
  /\ pos = 0
  /\ got = <<>>
  /\ cursors = [local |-> 0, bucket |-> [bucket \in Buckets |-> 0], tail |-> 0]
  /\ used = NothingUsed
  /\ storage = [domain \in Domains |-> [slot \in Slots |-> <<>>]]

Next ==
  \/ WriteMetadata
  \/ RefuseRegion
  \/ StartDomain
  \/ EmitSnapshot
  \/ FinishDomain
  \/ WriteRest
  \/ ReadPart
  \/ Prescan
  \/ SweepModeled
  \/ SweepSingle
  \/ SweepPaletted
  \/ FinishSweep
  \/ ReadTail

Spec == Init /\ [][Next]_vars

-----------------------------------------------------------------------------
(* Properties                                                              *)

Contents(domain, snapshots) ==
  [k \in DOMAIN snapshots |->
     [timestamp |-> snapshots[k].timestamp, grid |-> Unpacked(domain, snapshots[k])]]

(***************************************************************************)
(* Reading a written region yields the snapshots of every section with     *)
(* their times and contents, whether or not the file has a model, and the  *)
(* states and tile entities of every segment.                              *)
(***************************************************************************)
RoundTrip ==
  phase = "done" =>
    /\ \A slot \in Slots : Present(slot) = region[slot].present
    /\ \A domain \in Domains, scan \in Scans :
         Contents(domain, ReadSection(domain, scan)) =
           Contents(domain, SnapshotsAt(domain, scan))
    /\ \A k \in DOMAIN PresentSlots :
         /\ Got("states", "region")[k] = region[PresentSlots[k]].states
         /\ got[Len(got)][k] = region[PresentSlots[k]].tile_entities

(***************************************************************************)
(* The writer finds every atom it needs in the global palette it wrote     *)
(* before ("global palette miss"), and the reader never takes one stream   *)
(* for another or runs beyond one.                                         *)
(***************************************************************************)
NeverFails == ~PaletteMiss /\ ~Misreads

(* Where the last field of a bucket should be *)
BucketEnd(bucket) == BucketStart(bucket + 1)

(***************************************************************************)
(* The reader's cursors leave nothing between them: each stops where the   *)
(* next stream begins, the tail at the end of the file, and what was read  *)
(* ahead of a sweep is used up by it.                                      *)
(***************************************************************************)
EveryFieldIsRead ==
  /\ \A domain \in Domains :
       phase = Sweeping(domain) /\ todo = {} =>
         /\ used.timestamp = Len(Got("timestamp", domain))
         /\ used.single = Len(Got("single", domain))
         /\ used.tag = Len(Got("tag", domain))
  /\ phase = "done" =>
       /\ cursors.local = BucketStart(0)
       /\ \A bucket \in FileBuckets : cursors.bucket[bucket] = BucketEnd(bucket)
       /\ cursors.tail = Len(file)

(***************************************************************************)
(* The sections of a segment share one vector, and no snapshot of it is    *)
(* overwritten: every place changes once, from its placeholder.            *)
(***************************************************************************)
WrittenOnce ==
  [][\A domain \in Domains, slot \in Slots :
       \A i \in DOMAIN storage[domain][slot] :
         \/ storage'[domain][slot][i] = storage[domain][slot][i]
         \/ storage[domain][slot][i] = Placeholder]_vars
=============================================================================
