# Verification of zvcr

zvcr stores the recorded history of voxel regions (32 x 32 chunks, called
segments) and writes it to files. This directory holds TLA+ models of it, the
TLC configurations that check them, and proofs checked by TLAPS.

Paths are relative to `src/crates/`; `X` stands for
`zvcr/src/io/serialize/experimental`.

- [The system](#the-system)
- [Modules and code](#modules-and-code)
- [Runs](#runs)
- [Proofs](#proofs)
- [Findings](#findings)
- [What is not modelled](#what-is-not-modelled)
- [Plan](#plan)

## The system

A recorder observes chunks and hands what it sees to a region in memory. The
region keeps the past of every chunk section as one full grid and a chain of
reverse deltas. A region is written to a file in one of two formats and read
back; the command line converts directories of such files on a pool of threads.

| component | state | operations | used by |
|---|---|---|---|
| delta storage (`zvcr/src/region/delta.rs`) | an `Arc<Vec<..>>` of snapshots, shared by sections, and the range of it that is the section's | `insert_snapshot` (copy on write), `snapshots`, `snapshot_before`, `clone` | segment, both readers |
| segment (`region/segment.rs`, `tile_entities.rs`, `segment_info.rs`) | sections, reverse deltas of tile entities, states | `update_sections`, `insert_snapshot` of each, `snapshot_before`, `find_nearest_timestamp` | recorder, export |
| palettes and bit packing (`region/palette.rs`, `packed_data.rs`) | thread-local scratch tables with stamps | build a palette, pack, unpack, merge a delta into a grid | delta storage, codecs |
| reference format (`io/serialize/reference`) | palette tables, body, cursor | `serialize_region_data`, `deserialize_region_data` with limits | command line |
| experimental format (`X/writer`, `X/reader`, `X/layout.rs`) | one stream per kind of field, cursors | columnar writer and reader | command line |
| model of the newest blocks (`X/models`) | grid, probability tables, range coder | `encode_region`, `decode_grid` | experimental format |
| buffers and compression (`io/buffer.rs`, `io/compression.rs`) | thread-local pool of buffers | take, return, slice, zstd | codecs |
| migrate and export (`zvcr_cli/src/main.rs`, `export.rs`, `progress.rs`) | files, counters, exit code | `run_all`, `migrate_one`, `export_file` | user |
| Anvil export (`zvcr_cli/src/anvil.rs`, `nbt.rs`, `packing.rs`) | sectors of a region file | `write_chunk`, `finish` | export |
| benchmark runner (`zvcr/src/bench`, `zvcr_bench`) | counters, a reporter thread with a stop flag | `run`, `bench_one` | user |
| rANS coder (`X/coders`) | — | — | a Criterion bench only |

What is hard about each, and what makes it correct:

- **Delta storage.** Sections share vectors: a new segment's sections all refer
  to one empty vector, a clone shares with its origin, all sections of a loaded
  group are slices of one vector. `insert_snapshot` must become the only owner
  first, or `Arc::get_mut(..).expect(..)` panics, or another section changes.
  The reverse delta must be taken in the right direction; otherwise only older
  snapshots, reached by several steps back, are wrong. Correct: no panic, no
  snapshot lost or altered, an insertion is invisible to all other sections, a
  read returns the newest snapshot not newer than the asked time.
- **Segment.** Observations may arrive in any order; one that changes nothing
  is not recorded; an update may cover only some sections. Tile entities have
  their own delta (new, changed, gone), built from a list that may name a
  position twice. Correct: what was observed in order can be read back for any
  time, a late observation never changes the past.
- **Reference format.** Palettes get indices while the body is written, and the
  tables precede the body in the file; the reader limits histories and skips
  the bytes of what it does not keep. The reader has a limit for every length,
  the writer none. Correct: round trip, whatever is kept or skipped, and the
  reader refuses exactly the regions that are beyond one of its limits.
- **Experimental format.** Nothing in the file says which timestamp, tag, atom
  or palette belongs to which snapshot. That follows from the order of the
  sweeps, counts of earlier streams and positions obtained by adding sizes.
  Correct: round trip, every cursor ends where the next stream starts, no
  section overwrites another's snapshots.
- **Model of the newest blocks.** Encoder and decoder must derive equal
  contexts from what the decoder already has: neighbours in causal order, a
  fast path that reads without looking at borders, a memo, a tree whose
  survivors are counted by unsigned subtraction. Correct: the same questions
  in the same order on either side, and the same grid.
- **Palettes and bit packing.** The tables that tell an atom's palette index are
  not cleared between sections; a stamp of 8 bits says which entries count, and
  comes round. Widths, words that are not full and the single-entry forms must
  agree between packing and unpacking, for grids and for deltas. Correct: what is
  unpacked is what was packed, and no old entry is taken for a new one.
- **Buffers.** Decoded sections are slices of the decompressed file. The buffer
  goes to a thread's pool with the last of them and is overwritten by a later
  file. Correct: never while a slice is alive, never memory that was allocated
  as words, never more than the pool's limits.
- **Migrate and export.** Threads race on counters and on outputs of the same
  name; outputs are written in place, runs are killed and repeated. Correct:
  exact summary and exit code, existing outputs are left alone, a successful
  run leaves complete outputs, every run ends.

- **Anvil export.** The region counts its segments along x first, the file's
  tables along z; two checks bound a chunk's size, one in bytes and one in
  sectors; timestamps are subtracted as `i64`. Correct: every chunk is found
  whole where its table entry says, apart from all others, with the time of its
  last change; a chunk is left out only if a part of it was never seen.
- **Benchmark runner.** Workers, a reporter and the main thread share counters,
  a flag and, through the pools, memory. Correct: results depend on the files
  alone, the counters agree with them, the run ends.

`PROJECT.json` lists the hazards line by line with the properties that would
notice each of them.

## Modules and code

| module | models | state in the model |
|---|---|---|
| `SectionHistory` | what the delta storage promises: lists of full snapshots | `history` |
| `DeltaHistory` | `region/delta.rs`, the merge of `packed_data.rs`, the loading of a section group (`reference/reader.rs`) | `vectors` (the Vec behind every Arc), `storage` and `range` (a PackedDeltaData), `inserting`, `reader`, `loader` (calls in progress) and the history variable `truth` |
| `DeltaHistoryProofs` | theorems about `DeltaHistory`, and that it implements `SectionHistory` | |
| `NaturalSets` | lemmas that the proofs share: induction in terms of sets, recursion, sums, quotients, powers of two, places in an order | |
| `SegmentHistory` | `region/segment.rs`, `tile_entities.rs`, `segment_info.rs`, `delta_sequence.rs`, `time_utils.rs` | `sections`, `reverse_deltas`, `states`, and the history variable `seen` |
| `ReferenceCodec` | `io/serialize/reference` | `tables`, `body`, `file`, `at` (the loops over slots, sections and snapshots), `pos`, `read`, `max_deltas`, `delta_length` |
| `ExperimentalCodec` | `X/writer`, `X/reader`, `X/layout.rs` | `streams`, `file`, `cursors`, `used`, `storage`, `palette` |
| `ExperimentalProofs` | theorems about `ExperimentalCodec` | |
| `GridCoder` | `X/models/context.rs`, `predictor.rs`, `spatial.rs` | `voxels`, `decoded`, `headers`, `file`, `run`, `miss`, `memo` and the place `at` of the walk |
| `RangeCoder` | `X/models/range.rs` | `low`, `high`, `out` of an Encoder, `low`, `high`, `code`, `pos` of a Decoder |
| `GridWalk` | one step of `GridCoder`'s walk, as a function of its state: what its actions have in common | |
| `CoderProofs` | theorems about `GridCoder` and `RangeCoder` | |
| `SectionPacking` | `region/palette.rs`, `region/packed_data.rs`, `X/pack.rs`, the emission of `X/writer/snapshots.rs`, the packing of `X/reader/sweeps.rs`, the palette marks of `X/models/context.rs`, `zvcr_cli/src/packing.rs` | the four stamped tables `scratch`, `pack`, `ranks`, `members`, and what the last call returned |
| `SectionPackingProofs` | theorems about `SectionPacking` | |
| `BufferPool` | `io/buffer.rs`, `decompress_zstd` of `io/compression.rs` | `heap`: allocated buffers with the owners of slices of them, and the threads' pools |
| `BenchRun` | `zvcr/src/bench`, over `BufferPool` | `worker` (each thread's step and result), `progress`, `results`, `stop`, `reporter`, `main` |
| `MemoryProofs` | theorems about `SegmentHistory`, and about `BenchRun` and the buffers of `BufferPool` | |
| `RegionExport` | `export_file` of `zvcr_cli/src/export.rs`, `zvcr_cli/src/anvil.rs`, `zvcr/src/time_utils.rs` | `phase`, `at` (the loops), `chunks` and the other fields of the writer, `disk`, and the history variable `offered` |
| `RegionExportProofs` | theorems about `RegionExport` | |
| `ConvertRun` | `progress.rs`, `main.rs`, `export.rs` | `disk`, `work` (where every source's job is), `recorded`, `stats`, `report` |
| `FileProofs` | theorems about `ConvertRun` and `ReferenceCodec` | |
| `MC*` | constants of the runs | |

`DeltaHistory` implements `SectionHistory`: the histories rebuilt from the
deltas (as `raw.rs` rebuilds them) are the refinement mapping. `SegmentHistory`
takes a section for the full snapshots that `DeltaHistory` is shown to store,
so the two compose through `SectionHistory`; `ReferenceCodec`'s limit on
histories is what `DeltaHistory` loads with (`Kept`), and `ExperimentalCodec`
holds the payload of `GridCoder` as one field. `GridCoder` takes from the range
coder that it returns the bits it was given (`Coded`), which is what
`RangeCoder` shows (`DecodedIsEncoded`), and from the stamped palette table that
it tells exactly the members (`SectionPacking`'s `MembersAreThePalette`).
`RegionExport` reads a segment with the operators of `SegmentHistory`, and is one
job of `ConvertRun`, which takes from it only whether it is refused, fails or
writes. `BenchRun` runs on the heap of `BufferPool`; what the codecs do with a
file is what `ReferenceCodec` and `ExperimentalCodec` show, and is a constant of
the file there.

Abstractions, in the order of the modules:

- **DeltaHistory.** A snapshot is its timestamp and its cells; packing into
  palette indices is left out. `insert_snapshot` takes two steps,
  `EnsureOwnedStorage` and one of `InsertFirst`, `InsertNewer` and
  `RejectSnapshot`, because other threads may drop, clone or read *their*
  handles in between. A handle that is being changed is borrowed mutably, so
  nobody clones, reads or overwrites that one. `snapshot_before` and
  `read_section_group` go step by step. A mutex is not part of the code:
  exclusion is the borrow checker's. Dropping the last handle frees a vector;
  `Collected` empties it, so that an identity may be used again.
- **SegmentHistory.** Each call is one step (`&mut self`). `MaxCalls` bounds
  them. Reads are operators; their loops are `StopsAt`.
- **ReferenceCodec, ExperimentalCodec.** A file is a sequence of typed fields;
  the bytes of a field are abstracted. A reader that expects another type of
  field than the one it is at has no step (`Misreads`), which the properties
  exclude. Header, compression and the refusal of malformed files are left out:
  of a written file the reference reader can refuse lengths, each of which is
  modelled, but no unknown state or palette index; that those do not occur is part
  of `OnlyLimitsAreRefused`. A palette of more than 256 entries comes back as the
  direct one (`ReadPalette`, reader.rs:62).
- **GridCoder.** A coded decision is a pair of a question and a bit. A question
  holds everything the code derives the probability from: the contexts before
  hashing, palette depth, misses. Tables and weights are updated from questions
  and bits alone; if both sides have asked the same questions and got the same
  bits, they hold the same tables. Therefore tables and weights are left out
  and the range coder is taken to return the bit that was put in (`Coded`). An
  index outside the grid, where the code's slice would panic, gives `PANIC`, which
  is no value of a cell. The stamps that tell palette members are a set; `SectionPacking` has the stamps.
- **RangeCoder.** The arithmetic is exact, for words of `BYTES` bytes of `BYTE`
  values instead of four of 256. A turn of either renormalisation loop is a step
  of its own; the loop's condition is the step's guard.
- **ConvertRun.** Per source: check the output, read and encode, open
  (truncate), write, count. A file is absent, empty, torn or the whole output
  of a source. Where two jobs write one path at a time the result may be torn.
  Faults (a kill, a failed write) are bounded by `MaxFaults`, runs by `MaxRuns`.

- **SectionPacking.** A section is packed, unpacked, repacked or marked by one
  call, a step each; the thread-local tables are the state that outlives it.
  Words are numbers of `WORD_BITS` bits, indices their digits. An atom has two
  bytes and an index at most one, as in the code, but a byte has `BYTE_BITS` bits;
  stamps take `STAMPS` values instead of 256. Exported sections have indices of
  at least `MinBits` bits: 4 for blocks, 0 for biomes.
- **BufferPool.** The slices one owner has of a buffer come and go together and
  are one reference. An address is any unused one, `CHOOSE`n, as nothing depends
  on which. `HasRoom` bounds the number of buffers. A frame is decompressed in
  one step: its buffer belongs to one thread until it is shared. Of several joined
  frames the header gives the first one's size; whether the bulk decompressor still
  succeeds depends on the buffer the pool gave (`IsDecompressedInto`).
- **BenchRun.** A file is a record of what reading, decoding and encoding it
  gives. A worker's step ends where other threads may see a difference: each
  counter, each call that takes or returns a buffer. An idle worker takes any file
  that none has begun, as rayon promises no order. Panics end the program and
  are left out, as are times.
- **RegionExport.** A chunk's NBT is what it says; the length of its compressed
  bytes is any of `PayloadSizes`. Tile entities may be no NBT (`BadNbt`), or such
  that the chunk's NBT cannot be written (`UnwritableNbt`); compression into memory
  cannot fail. Recorded times are integers, differences are
  wrapped to the width of `i64`. The file is a table, timestamps and the list of
  writes; a reader finds a chunk where no later write covers it.

The code assumes that no cell holds the delta marker 0xFFFF and checks it
nowhere; the models make it the assumption `MarkerIsNoAtom`.

## Runs

`tlc -config X.cfg M` in this directory; each takes at most about two minutes.

| run | shows | bounds, and why they suffice |
|---|---|---|
| `delta_history` | two sections sharing vectors in all the ways the code has: `get_mut` cannot panic, histories are stored, reads are historical, insertions are isolated, the refinement | 2 sections, 2 cells, 3 grids, 3 times, 3 snapshots. Sharing needs two parties; three vectors give every copy a free identity; three snapshots give a delta that is applied after another. Symmetry over vectors and over exchanging cells with atoms; the properties name neither. |
| `segment_history` | reads of sections, tile entities and states for any time against everything observed, in any order of observations | 3 observations at 4 times: a late one between, before and at the time of two others; a partial update; a list with a position twice |
| `reference_codec` | round trip, with and without a limit on snapshots; the reader refuses exactly what is beyond one of its limits, kept or skipped | 2 segments of 2 sections in 2 domains, 3 palettes met in any order, one of them too wide for an indirect one; each of the seven limits reached and exceeded by one |
| `reference_single` | finding: a palette of one entry | as before, with such a palette |
| `experimental_codec` | round trip, cursors that meet, nothing overwritten, with and without a model | 2 segments of 2 sections; uniform snapshots of either kind, palettes with unused entries, direct ones, an absent segment, a section beyond its count. Palettes of up to 3 entries give two packed widths and the direct one. |
| `grid_coder` | the decoder asks the encoder's questions, the fast path is exact, the memo fresh, the tree keeps the truth | 2 x 2 segments of 2 sections of side 3: the smallest with every border (inside, between sections on each axis, the grid's) and with cells on the fast path. 14 regions mix layers, stripes, scattered, nearly uniform and absent sections. |
| `range_coder` | the decoder returns the bits from exactly the bytes written; the interval is never empty | all sequences of up to 5 bits, each with one of 4 probabilities, over words of 3 bytes of 4 values; the interval shrinks to two words across a byte border and to a single one |
| `section_packing` | every packed section unpacks to its cells and restores deltas, in any order of calls over tables that keep old entries; the next stamp is on no entry; palette members are exact | sections of every index width, among them single, full and direct ones and one that holds the marker; palettes too long for narrow indices; bytes of 2 bits and words of 4 bytes; three stamps, so that they come round after two sections, and 3 calls |
| `bench_run` | regions keep their bytes while buffers are reused, pools are sound, results and counters exact, the run ends | 2 threads, up to 3 files in any order: sizes below, at and above `MIN_POOL_CAPACITY` and of a reused buffer, old and joined frames, each way to fail; a pool of 2; samples of 2 and of all; 12 buffers |
| `region_export` | what a written region holds, its timestamps, why an export fails | 2 x 2 segments with real sector sizes; payloads on either side of one sector, of 255 sectors and of `MAX_PAYLOAD_BYTES`; absent, empty, half-seen segments, tile entities that are no NBT or cannot be serialized; times at both ends of `i64` |
| `convert_run` | exact summary, preserved outputs, complete outputs after success, every run ends | 4 sources on 2 threads, two pairs of them sharing an output, one unusable; 3 runs, 1 fault: enough for a fault, a run over its remains and another |
| `convert_present` | finding: a torn output counts as present | 2 runs, 1 fault |

`CHECK_DEADLOCK FALSE` is set where the program really ends: the codecs finish,
the recorder makes its last bounded call, the command line has no run left.

**Fairness.** `ConvertRun` and `BenchRun` have a liveness property. For
`RunsEnd`, `FairSpec` assumes weak fairness of every source's work and of the
final report: rayon runs every job it accepted and `collect()` returns when they
have; no job waits for another. Nothing is assumed of the user who starts a run,
of kills or of failures. For `RunEnds`, each thread that can go on does
eventually, as the operating system schedules it: a worker inside `bench_one`,
the reporter, the main thread. Which worker takes the next file is left open;
that one of them does is rayon's promise. Nothing is assumed of how often the
reporter loops before the flag is set.

Every property of a passing run has a mutant in `PROJECT.json`: a plausible
mistake in the code (a dropped condition, a stale value, a swapped order),
written as an operator next to the one it replaces, under which TLC finds the
property violated.

## Proofs

Every safety property of the ten passing runs is proved. A theorem holds for every
value of the constants that the named assumptions of its model admit; TLC
evaluates these assumptions in the runs.

### Delta storage

`DeltaHistoryProofs` proves for any number of sections, vectors, cells, atoms,
timestamps and any length of histories:

| theorem | states |
|---|---|
| `TypeCorrect` | `Spec => []TypeOK`; a section's range always lies in its vector |
| `ExclusiveInsertion` | `Spec => []GetMutSucceeds`; `Arc::get_mut` never panics |
| `HistoryIsStored` | `Spec => []StoresTheTruth`; no snapshot is lost, invented or altered |
| `ReadsAreHistorical` | `Spec => []ReadIsHistorical` |
| `InsertionIsolated` | `Spec => InsertionIsIsolated`, an action property |
| `DeltasImplementHistories` | `Spec => ImplementsHistories`; `DeltaHistory` implements `SectionHistory` |

They rest on `MarkerIsNoAtom` and `ParametersOK` (types of the constants).
Finiteness of `Sections` is derived, and used where `strong_count = 1` must mean
that there is no other owner. The inductive invariant is

    IInv == TypeOK /\ GetMutSucceeds /\ StoresTheTruth
              /\ NewestFirst /\ ReaderFollows /\ LoaderSlices

None of the theorems' invariants is inductive alone. `StoresTheTruth` is kept by
`InsertNewer` only because the section owns its whole vector (`GetMutSucceeds`).
`ReadIsHistorical` speaks of a finished read; it needs that an unfinished one is
at a snapshot with the right grid and has only passed newer ones
(`ReaderFollows`), and that histories are ordered (`NewestFirst`).
`FinishLoading` replaces all sections at once and needs that the slices read so
far are the prefixes of the sections (`LoaderSlices`).

The proof goes in three layers: lemmas about the operators (`InsertedStores`: a
new snapshot in front of the reverse delta stores the longer history;
`PrefixStores`: so does a prefix; `SliceOfConcat`), one lemma on the effect of
each kind of action on what the sections see (`EnsureOwnedEffect`,
`WriteThroughEffect`, `CloneEffect`, `FinishLoadingEffect`), and one lemma per
action that it keeps `IInv`. All its parts hold in TLC's instance; the run
lists the three that say something on their own.

The refinement mapping rebuilds a history as `raw.rs` does, each grid from the
one before. That it gives the recorded history for any number of deltas
(`RebuiltIsTrue`) is an induction, made without the library's induction theorems,
whose operator parameter the provers cannot instantiate: `AllUpTo` of
`NaturalSets` takes the *set* of positions where the two agree, which holds the
first and with each the next. Then each insertion is a `Record` (`PutInFront`), a
clone a `CopyFrom`, the end of a reload a `Forget`, or nothing where no section
is cut, and all else stutters.

### Segments

`MemoryProofs` proves for any number of sections, positions, entities and
updates, and observations in any order:

| theorem | states |
|---|---|
| `CutsAreObserved` | `Spec => []CutIsObserved`; if the observations came in order, any time reads what was last seen. Those out of order are excluded here; the next and the last theorem include them |
| `ReadsAreOfThePast` | `Spec => []NothingFromTheFuture` |
| `NearestReadsAreObserved` | `Spec => []NearestIsObserved` |
| `ThePastIsKept` | `Spec => PastIsImmutable`, an action property |

The three parts of a segment keep their pasts alike, so most of the proof is
about any history and the log of observations it tells of (`Tells`): times
descend and each entry was observed; if the observations came in order, then the
newest entry is as the last of them (`TellsLast`) and a search for any time finds
what the last observation by then saw (`TellsCuts`). The inductive invariant is

    IInv == TypeOK /\ SectionsTell /\ LatestIsList /\ TileEntitiesTell /\ StatesTell

Tile entities are told as the lists that the chain of reverse deltas gives;
`LatestIsList` is needed because only the newest entry is a whole list. The
search loops are `StopsAt`, of which `SearchStops` says where it ends, and that
it can end nowhere else.

### Palettes and packing

`SectionPackingProofs` proves for sections and bytes of any size, any number of
stamps, any atoms, and any sections in any order:

| theorem | states |
|---|---|
| `StampsAreFresh` | `Spec => []NextStampIsUnused`; the stamp a table is given next is on none of its entries |
| `MembersAreExact` | `Spec => []MembersAreThePalette`; the marked atoms are those of the last palette, with their places |
| `PackingIsExact` | `Spec => []PackedIsTheSection`; what was packed, repacked or loaded unpacks to its cells, and the exported section reads as them |
| `DeltasRestore` | `Spec => []DeltaRestores`; the packed delta leads back to the older section |

The first two rest on `StampsBehind`: no entry of a table holds a stamp above the
last one given out. `NextGenerationIsNew` has the two cases, a stamp above all
others and, after it has come round, a table that was cleared.

For the other two the inductive invariant (`SectionInv`) adds that the tables
have an index where they have a stamp (`HasIndices`, `HasRanks`), and that the
packed section is one (`IsPacked`) that unpacks to the cells. The argument has
four layers:

- *bits*: fields joined to a number are its fields, and a field of a field is a
  field. Hence a word and the bytes it is made of hold the same indices, and
  a section is unpacked from either form.
- *palettes*: the first cells of a section, in any order of their atoms, list
  each atom once; an index of the width chosen for their number fits in it
  (`FirstCellsList`, `RankedByIs`, `ReorderedIs`).
- *tables*: if a table has no marks of this section, which `StampsAreFresh`
  gives, the palette it leads to is that of the first cells, and every search
  for a rank ends at the position where it was put (`FirstSeenList`,
  `RankSlotIs`, `RanksPlacedIs`). A search ends because a table has more
  positions than a palette entries.
- *actions*: `PackWithPacks`, `RepackPacks`, `PackModeledPacks` and
  `ExportedIsTheSection`, one for each way to pack.

`ParametersOK` states what this uses of the constants: the bits of a byte are a
power of two and a word has an even number of bytes (so that index widths divide
words), a section fills whole words, and the rank table is larger than a palette.
`ForeignOK` says that a section loaded from elsewhere is packed.

### Range coder

`CoderProofs` proves for bytes and words of any size, any probabilities and any
number of bits:

| theorem | states |
|---|---|
| `IntervalNeverEmpty` | `RangeSpec => []IntervalIsNeverEmpty`; neither `high - low` nor `mid + 1` leaves a word, and both parts of a divided interval have a word |
| `DecoderReturnsTheBits` | `RangeSpec => []DecodedIsEncoded` |
| `DecoderReadsTheBytes` | `RangeSpec => []NothingIsMadeUp`; every byte written is read, and none beyond them |

The invariant of the first is `0 <= low <= high < WORD` with the type of the
questions asked. `MidpointIsInside` and `ShiftedWord` carry it: words that begin
with the same byte keep their order when it is shifted out.

The word the decoder looks at depends on bits encoded later, so no invariant of
the decoder's state alone will do. The inductive one (`Kept`) says that there is
a *trail*: the sequence of intervals the encoder went through, each narrowed by a
bit or moved on by a byte; `finish` writes the `low` of the last one. While
the encoder works the trail ends at its interval. While the decoder works its
interval is an entry of the trail, and its word the one the file has there. That
this word lies in the entry's interval follows backwards from the end: a word
inside the next interval is inside this one. So the comparison with the midpoint
takes the encoder's side. The assumptions are `WordsOK`, `BytesOK` and `ProbsOK`.

### Grid coder

`CoderProofs` also proves for any number of segments and sections, any size of a
section and any contents:

| theorem | states |
|---|---|
| `NeighborsAreExact` | `Spec => []FastPathIsExact`; the fast path finds what the careful one finds, and neither takes an index outside the grid |
| `MemoStaysFresh` | `Spec => []MemoIsFresh` |
| `SurvivorsAlwaysExist` | `Spec => []SurvivorsExist` |
| `DecoderInStep` | `Spec => []InStep`; every question of the decoder is the one the encoder answered |
| `GridComesBack` | `Spec => []RoundTrip` |

The first three follow from what is true of the coder where it is (`Good`):
between two sections, or inside one, where the memo holds what was computed for
the neighbours it is keyed with, the candidates tried so far were wrong, and the
tree has gone to the half that has the cell's value.

The last two need what encoder and decoder did at equal places. As with the range
coder, the inductive invariant (`IInv`) says that there is a *trail*: the states
the encoder was in, from each of which one step leads to the next and writes what
the file has there (`TrailPart`). The encoder is at its end; the decoder is at an
entry, with the same place, run, misses and memo, having read as many decisions as
were written by then. The model is instantiated at an entry (`Moment`), so that the
encoder's question, guess and candidates of the past can be named next to the
decoder's. They are equal if the neighbours are, and those are: the decoder's grid
agrees with the encoder's on what was walked before (`DecodedPart`), and a
neighbour that exists was walked before (`NeighborsAreWalked`). This is where the
borders matter: east of a section only the cells of lower sections are there.
So the two take the same step (`TwinSteps`). At a section the header describes it
(`Describes`), so that uniform sections need no decisions.

`ParametersOK` is all that is assumed: sides are positive, a section has at most
2^16 cells, since bit depths end at 16, and regions are functions from cells to
natural numbers.

### Reference format

`FileProofs` proves for any number of segments and sections, any regions,
palettes and limits:

| theorem | states |
|---|---|
| `WrittenRegionIsRead` | `EveryPaletteIsWritten /\ CodecSpec => []RoundTrip` |
| `ReaderRefusesOnlyLimits` | `EveryPaletteIsWritten /\ CodecSpec => []OnlyLimitsAreRefused`; nothing is misread, and what is refused is beyond a limit |
| `ReaderAcceptsOnlyWithinLimits` | `EveryPaletteIsWritten /\ CodecSpec => []AcceptedIsWithinLimits`; also in what was skipped |

`EveryPaletteIsWritten` says that no palette has exactly one entry. Without it the
theorems would be false: that is the finding `reference_single`. In TLC's
passing run every palette has two or three entries.

The writer gives out indices before the tables are complete. What it wrote for a
place of the region (`FieldsAt`) depends on a table only by the indices of palettes
that are in it, and a table only grows at its end, so it stands for the same
when the table is longer (`FieldsStay`), up to the tables that come first in the file.

The inductive invariant (`CodecInv`) says that there is an *offset* for every place
of the walk through the region (an indicator, a length, a snapshot, states, tile
entities), from which on the fields of that place stand (`IsLaidOut`). The writer
puts what it writes at the offset of its place (`LaidOutFurther`), and `WriteFile`
moves all of it behind the tables (`LaidOutElsewhere`). The reader is at the offset of
its place with the writer's last tables, has read what lies before that place, kept
or skipped, and found it within the limits (`ReaderIsAt`). So it meets the
fields that were written for the place (`ReaderMeets`), and the width of what it
takes is the distance to the next offset, whether it keeps a snapshot or skips it
(`ReaderGoesOn`). Hence it ends where the file ends. What it refuses is too long
(`UnfitIsTooLong`), and when it has passed every place nothing is (`FitIsWithin`).
The offsets are a function that the invariant says exists, which TLC cannot
enumerate; TLC checks the three properties.

`FormatOK` is all that is assumed of the constants: types, and that the palette of a
snapshot with no palette is none of the others.

### Experimental format

`ExperimentalProofs` proves for any number of segments, sections, cells and
snapshots, any palettes, with the model and without:

| theorem | states |
|---|---|
| `ReaderMeetsWhatWasWritten` | `Spec => []NeverFails`; no global palette miss, and the reader takes no stream for another |
| `NothingIsLeftUnread` | `Spec => []EveryFieldIsRead` |
| `RegionComesBack` | `Spec => []RoundTrip` |
| `EachPlaceIsFilledOnce` | `Spec => WrittenOnce`, an action property |

Nothing in a file says which fields belong together, so the argument is about
order. A *tour* is the set of places of a domain's snapshots, swept in the order
`Before`; a *class* of places is the part of a tour that fills one stream (uniform
snapshots, local palettes, the packed fields of one bucket, deltas), and `At` is how
many of a class come before a place. The invariant (`IInv`) has a part for each
time of the run:

- *writing* (`WriterAt`): what was swept is always the first part of a tour, and each
  stream holds, in order, what the places of its class gave (`StreamsTell`); a sweep
  adds one field to the streams its snapshot belongs to (`SnapshotAdds`) and none to
  the others. The atoms of all that is still to be emitted are in the global palette.
- *the file* (`Layout`): there are offsets from which on each part and each bucket
  stands in the file, each as far behind the last as that one is long
  (`FileIsLaidOut`). The last bucket, which is not written, is empty: a biome section
  has too few cells for a direct snapshot (`LastBucketIsEmpty`).
- *the main cursor* (`OpeningAt`): the first parts were read as they were written.
  How long the next one is, the reader computes from those (`NextLengthIs`): the
  described sections, the sum of their counts, and the kinds among tags and descriptors
  are counted with `CountsAreGot` and `KindsAreCounted`.
- *the look ahead* (`BucketsAreFound`): from the widths of all local palettes the
  reader finds every bucket where the layout has it.
- *the sweeps* (`SweepAt`): each cursor is as far behind the start of its stream as
  places of its class were swept (`CursorsAt`), so it stands at the field of the place
  it is at (`NextIsTold`, `PalettedIsFound`). In the vectors, the places swept hold
  snapshots with the contents written, those to come a placeholder (`StoredIn`); that
  different places of a tour have different ones there, and that a section's lie
  together, is `PlacesInVector` and `SectionsFit`.
- *the end* (`TailAt`, `DoneAt`): nothing of any class is left.

A snapshot is read with another palette than it was written with: only the atoms in
use, the most frequent first. That its contents are the same is `SnapshotRestored`,
and for those that go through the model `GridRestored`.

`ParametersOK` is what is assumed: snapshots are records of the two kinds with palettes
within the limit and values within their palettes, sections have finitely many cells
and at least one, and a biome section has no more than an indirect palette has entries.
The layout's offsets are functions that the invariant says exist, which TLC cannot
enumerate; TLC checks the four properties.

### Command line

`FileProofs` proves for any sources, threads, sharing of outputs, and any
number of runs and faults:

| theorem | states |
|---|---|
| `SummaryIsExact` | `Spec => []ReportIsExact` |
| `SuccessIsWhole` | `Spec => []SuccessMeansWhole` |
| `PreservedOutputs` | `Spec => OutputsArePreserved`, an action property |

The counters are sizes of sets of recorded sources (`CountersAgree`), and their
subtraction is that of three disjoint parts (`ThreeParts`). A successful run is
whole because, undisturbed, an output that no other source shares is absent or
whole unless its own source is writing (`NothingIsTorn`). Outputs are preserved
because a source only writes what it found absent (`PresentIsSkipped`).

### Anvil export

`RegionExportProofs` proves for regions of any side, sectors and payloads of any
size:

| theorem | states |
|---|---|
| `WrittenRegionIsWhole` | `Spec => []WrittenIsWhole` |
| `FailuresHaveCauses` | `Spec => []FailsForACause` |
| `ChunkTimesAreLastChanges` | `Spec => []TimestampIsLastChange`; for chunks whose recorded times are all of the past, and near enough that no difference wraps |

The invariant says of every segment whether it was visited and what is staged
for it under its table index (`StagedAre`), that the writes follow each other
from sector 2 on without overlap (`WritesAreApart`), and that the table names
exactly them (`TableIsRight`). That an entry of three bytes holds the place
(`OffsetsFit`) needs the assumption `2 + 255 * REGION_SIDE^2 < 2^24`, and that no
cause but the sector limit remains needs `MAX_PAYLOAD_BYTES > 255 * SECTOR_SIZE
- 5`; both hold for the code's constants, for which TLC evaluates them with the
region's side made smaller.

The third theorem adds `TimesAreTold` to the invariant: each chunk is staged with
the timestamp computed from its segment, and the table has it once `finish` is done
with the chunk. That this is the last change, although the search for the nearest
time compares distances wrapped to an `i64`, holds where the property claims it, for
times of the past that an `i64` can tell from the present. `SourceFilesOK` says only
that histories are lists of entries with integer timestamps.

### Buffers and benchmark

`MemoryProofs` also proves for any number of threads, files and buffers, and pools
of any limits:

| theorem | states |
|---|---|
| `RegionsAreStable` | `BenchSpec => []RegionsKeepTheirBytes`; no buffer is overwritten while a region has slices of it |
| `NoBufferIsLost` | `BenchSpec => []BuffersAreAccounted`; the pools are sound, and what is not pooled has an owner that is at work |
| `BenchResultsAreExact` | `BenchSpec => []ResultsAreExact`; results and counters are those of the files, whatever the threads did meanwhile |

The argument about buffers is in terms of who sees which data in which buffer
(`Sees`). One lemma per operation of `BufferPool` says what it does to that
relation; the steps of a worker need no more. The invariant (`BInv`) says that the
heap is sound (`Sound`: a buffer nobody sees is in exactly one pool, emptied and of
a size the pool takes), that a worker has only the owners its step allows and each
of them sees the data of the worker's file (`OwnersAreKnown`), in one buffer
(`SeesOneBuffer`), and that a cursor about to be read has one
(`CursorsHaveBuffers`). It uses `PoolOK` (types of the limits) and `BenchOK`, by
which memory allocated as words is smaller than what a pool takes.

For the results, `RInv` says that no two workers are at one file
(`FilesAreShared`), what a worker knows of its file at its step (`Knows`), that
the results of files that are done are right (`ResultsAreRight`), and that each
counter is the sum over the files that have come past the step that adds to it
(`CountersAreRight`). A step moves one file into one such set, and `NaturalSets`
has what that does to a sum. An even sample takes distinct files
(`SampleIsSpread`); `DirectoriesOK` says that a walk of directories comes by each
path once.

### What the proofs share

`NaturalSets` holds what would be inductions, in a form the provers can use:
least elements and `AllUpTo` in terms of sets, functions defined by recursion as
sets of steps, sums over finite sets, quotients and remainders, powers of two,
and the place of an element in an order.

### Only model-checked

`RunsEnd` and `RunEnds`: liveness under fairness is beyond the prover.

## Findings

- `reference_single`: a palette with one entry, which both readers return, is
  counted in the reference format's palette table and then left out
  (`reference/writer.rs:47`): the region cannot be read back.
- `convert_present`: outputs are written in place and recognised by their
  existence (`main.rs:183`, `export.rs:251`). After a killed or failed write
  the next run reports "all outputs already present" and exits with success.

## What is not modelled

- Probability tables, mixing weights and hashes of the grid coder: arithmetic
  that is the same on both sides; the models state what it is computed from.
- zstd, NBT values, registry names, console output, times and ratios: data and
  formatting without state of the program's own.
- The rANS coder and the Criterion benches: no file contains the coder's output.
- Malformed files: readers are modelled on what the writers write.
- The bytes of a field, the header with its statistics, and the fields inside
  states and tile entities of either format: conversions without order or state.
- Undefined behaviour of `vec_u64_to_bytes` (`packed_data.rs:12`), which frees
  words as bytes: its outcomes are invisible in the state the program keeps. That
  such memory stays out of the pool is part of `PoolIsSound`.

## Plan

Done, in this order:

1. `SectionHistory`, `DeltaHistory`, `DeltaHistoryProofs`: the core.
2. `SegmentHistory`, `ReferenceCodec`, `ConvertRun`, and proofs about it.
3. `ExperimentalCodec`, `GridCoder`.
4. `RangeCoder`, and proofs about it.
5. `SectionPacking`, `SectionPackingProofs`.
6. `RegionExport`, `RegionExportProofs`.
7. `BufferPool`, `BenchRun`, and proofs about them.
8. `NaturalSets`, and the refinement in `DeltaHistoryProofs`.
9. Proofs about `SegmentHistory`; the round trip and the bytes read in
   `CoderProofs`; packing and deltas in `SectionPackingProofs`; chunk
   timestamps in `RegionExportProofs`; results of `BenchRun`.
   `MemoryProofs` holds the proofs about `SegmentHistory` and `BenchRun`.
10. `GridWalk`, and the proofs about `GridCoder` in `CoderProofs`.
11. `FileProofs`: the proofs about `ConvertRun` with those about `ReferenceCodec`.
12. `ExperimentalProofs`.

Left, with what it would add:

13. Malformed files: that both readers refuse or end, over files that are cut.
