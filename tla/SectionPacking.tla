-------------------------- MODULE SectionPacking --------------------------
(***************************************************************************)
(* How a section's cells become a palette and packed bytes, and back:      *)
(* region/palette.rs, region/packed_data.rs, the repacking of the          *)
(* experimental writer (writer/snapshots.rs, pack.rs), the packing of      *)
(* decoded blocks by its reader (reader/sweeps.rs), and the tables the     *)
(* model tells palette members by (models/context.rs).                     *)
(*                                                                         *)
(* Each of these has a table with an entry for every atom that is never    *)
(* cleared between sections.  Instead, a stamp beside each entry says for  *)
(* which section it was made.  A stamp is a byte: after 255 sections the   *)
(* stamps come round again, and only then the table is cleared.            *)
(*                                                                         *)
(* Widths keep the proportions of the code: an atom has two bytes, an      *)
(* index one byte at most, a word of a packed array several bytes.         *)
(***************************************************************************)
EXTENDS Integers, Sequences, FiniteSets

CONSTANTS
  UNPACKED_SIZE,     \* cells of a section
  BYTE_BITS,         \* 8
  WORD_BYTES,        \* 8
  STAMPS,            \* values of a stamp, 256
  STATE_UNCHANGED,   \* the atom that marks an unchanged cell in a delta
  RANK_TABLE_SLOTS,  \* positions of the reader's table
  Hash,              \* atom -> the position a search for it starts at
  Remap,             \* rank -> atom, of the model's grid
  Grids,             \* sections that are packed
  Foreign,           \* packed sections found in files
  Palettes,          \* palettes the model marks
  MinBits,           \* least widths of exported indices: 4 for blocks, 0 for biomes
  MaxCalls           \* bound: sections in all

ATOM_COUNT == 2 ^ (2 * BYTE_BITS)
MAX_INDIRECT_PALETTE_SIZE == 2 ^ BYTE_BITS
WORD_BITS == BYTE_BITS * WORD_BYTES
Atoms == 0..(ATOM_COUNT - 1)
Cells == 1..UNPACKED_SIZE
TablePositions == 0..(RANK_TABLE_SLOTS - 1)

ASSUME StampsOK == STAMPS \in Nat /\ STAMPS > 1

ASSUME ParametersOK ==
  /\ \A n \in {UNPACKED_SIZE, BYTE_BITS, WORD_BYTES, RANK_TABLE_SLOTS} : n \in Nat \ {0}
  /\ UNPACKED_SIZE % WORD_BITS = 0
  /\ \E k \in 0..BYTE_BITS : BYTE_BITS = 2 ^ k
  /\ WORD_BYTES % 2 = 0
  /\ RANK_TABLE_SLOTS > MAX_INDIRECT_PALETTE_SIZE
  /\ Hash \in [Atoms -> TablePositions]
  /\ Remap \in [Atoms -> Atoms]
  /\ Grids \subseteq [Cells -> Atoms]
  /\ Palettes \subseteq Seq(Atoms)
  /\ STATE_UNCHANGED \in Atoms
  /\ MinBits \subseteq 0..BYTE_BITS

VARIABLES
  scratch,  \* PackScratch: seen, indices, seen_gen
  pack,     \* ReusablePackScratch of the writer: the same
  members,  \* Modeler: slot_gen, slots, epoch, under the same names
  ranks,    \* GridPackScratch: the stamp, key and val of each position
  grid,     \* the cells of the section at hand
  packed,   \* the section at hand, packed
  palette,  \* history variable: the palette marked last
  calls

vars == <<scratch, pack, members, ranks, grid, packed, palette, calls>>

-----------------------------------------------------------------------------
(* Stamps                                                                  *)

NextGenerationMutant(table) ==
  [table EXCEPT !.seen_gen = (table.seen_gen + 1) % STAMPS]

(* The table for the next section: a new stamp, and at the end of the      *)
(* stamps no entry of any section.                                         *)
NextGeneration(table) ==
  LET gen == (table.seen_gen + 1) % STAMPS
  IN  IF gen = 0
      THEN [table EXCEPT !.seen = [k \in DOMAIN table.seen |-> 0], !.seen_gen = 1]
      ELSE [table EXCEPT !.seen_gen = gen]

(* The first cells of their atoms, as the loop over the cells finds them   *)
(* in a table of the new generation.                                       *)
NewCells(table, cells) ==
  {i \in Cells : /\ table.seen[cells[i]] # table.seen_gen
                 /\ \A j \in 1..(i - 1) : cells[j] # cells[i]}

Before(new, i) == Cardinality({j \in new : j < i})

(* The palette in the order of first cells; the loop ends at the atom that *)
(* makes it too long, and marks that one, too.                             *)
FirstSeen(table, cells) ==
  LET new == NewCells(table, cells)
      taken == {i \in new : Before(new, i) < MAX_INDIRECT_PALETTE_SIZE}
  IN  [k \in 1..Cardinality(taken) |->
         cells[CHOOSE i \in taken : Before(new, i) = k - 1]]

IsDirect(table, cells) ==
  Cardinality(NewCells(table, cells)) > MAX_INDIRECT_PALETTE_SIZE

MarkedAtoms(table, cells) ==
  LET new == NewCells(table, cells)
  IN  {cells[i] : i \in {j \in new : Before(new, j) <= MAX_INDIRECT_PALETTE_SIZE}}

IndexIn(seq, atom) == CHOOSE k \in DOMAIN seq : seq[k] = atom

(* The table with the section's atoms marked, and the index of each.       *)
MarkedTable(table, cells, indexed) ==
  [table EXCEPT
     !.seen = [a \in DOMAIN table.seen |->
                 IF a \in MarkedAtoms(table, cells) THEN table.seen_gen ELSE table.seen[a]],
     !.indices = [a \in DOMAIN table.indices |->
                    IF \E k \in DOMAIN indexed : indexed[k] = a
                    THEN IndexIn(indexed, a) - 1
                    ELSE table.indices[a]]]

-----------------------------------------------------------------------------
(* Bits                                                                    *)

IndexWidths == {w \in 1..BYTE_BITS : \E k \in 0..BYTE_BITS : w = 2 ^ k}

BitsPerEntryMutant(palette_length) ==
  IF palette_length > MAX_INDIRECT_PALETTE_SIZE THEN 2 * BYTE_BITS
  ELSE CHOOSE w \in IndexWidths :
         /\ palette_length <= 2 ^ w + 1
         /\ \A v \in IndexWidths : palette_length <= 2 ^ v + 1 => w <= v

BitsPerEntry(palette_length) ==
  IF palette_length > MAX_INDIRECT_PALETTE_SIZE THEN 2 * BYTE_BITS
  ELSE CHOOSE w \in IndexWidths :
         /\ palette_length <= 2 ^ w
         /\ \A v \in IndexWidths : palette_length <= 2 ^ v => w <= v

(* The n-th field of so many bits, the first in the lowest bits.           *)
Field(number, n, bits) == (number \div 2 ^ (bits * n)) % 2 ^ bits

(* The fields first..(first + count - 1) of values in one number.          *)
Joined(values, first, count, bits) ==
  LET sum[n \in 0..count] ==
        IF n = 0 THEN 0
        ELSE IF first + n - 1 > Len(values) THEN sum[n - 1]
        ELSE sum[n - 1] + (values[first + n - 1] % 2 ^ bits) * 2 ^ (bits * (n - 1))
  IN  sum[count]

DivCeil(n, d) == (n + d - 1) \div d

(* Values in words; the words' bytes, the lowest first.                    *)
PackBits(values, bits) ==
  LET entries == WORD_BITS \div bits
      words == [k \in 1..DivCeil(UNPACKED_SIZE, entries) |->
                  Joined(values, (k - 1) * entries + 1, entries, bits)]
  IN  [n \in 1..(Len(words) * WORD_BYTES) |->
         Field(words[(n - 1) \div WORD_BYTES + 1], (n - 1) % WORD_BYTES, BYTE_BITS)]

Words(bytes) ==
  [k \in 1..(Len(bytes) \div WORD_BYTES) |->
     Joined(bytes, (k - 1) * WORD_BYTES + 1, WORD_BYTES, BYTE_BITS)]

UnpackBits(bytes, bits) ==
  LET entries == WORD_BITS \div bits
      words == Words(bytes)
  IN  [i \in Cells |-> Field(words[(i - 1) \div entries + 1], (i - 1) % entries, bits)]

(* extract_indices: byte by byte, not word by word. *)
ExtractIndices(bytes, bits) ==
  LET entries == BYTE_BITS \div bits
  IN  [i \in Cells |-> Field(bytes[(i - 1) \div entries + 1], (i - 1) % entries, bits)]

PackValues(values, bits) ==
  LET entries == BYTE_BITS \div bits
  IN  [n \in 1..(UNPACKED_SIZE \div entries) |->
         Joined(values, (n - 1) * entries + 1, entries, bits)]

ExtractDirectAtoms(bytes) ==
  [i \in Cells |-> bytes[2 * i - 1] + bytes[2 * i] * 2 ^ BYTE_BITS]

PackAtomsLe(atoms) ==
  [n \in 1..(2 * UNPACKED_SIZE) |-> Field(atoms[(n + 1) \div 2], (n + 1) % 2, BYTE_BITS)]

-----------------------------------------------------------------------------
(* Packed sections                                                         *)

Single(atom) == [kind |-> "single", atom |-> atom]

Paletted(atoms, bits, bytes) ==
  [kind |-> "paletted", palette |-> atoms, bits |-> bits, bytes |-> bytes]

Direct(bytes) == Paletted(<<>>, 2 * BYTE_BITS, bytes)

AtomAt(data, i) ==
  LET slice == UnpackBits(data.bytes, data.bits)[i]
  IN  IF data.palette = <<>> THEN slice ELSE data.palette[slice + 1]

Unpack(data) ==
  [i \in Cells |-> IF data.kind = "single" THEN data.atom ELSE AtomAt(data, i)]

UnpackDeltaIntoMutant(data, base) ==
  IF data.kind = "single" THEN [i \in Cells |-> data.atom]
  ELSE [i \in Cells |-> IF AtomAt(data, i) = STATE_UNCHANGED THEN base[i] ELSE AtomAt(data, i)]

(* The packed sections that readers return: an index for every cell, of a  *)
(* width that is written, and none beyond the palette.  A foreign file may *)
(* have a palette that is too long for the narrow widths.                  *)
IsPacked(data) ==
  \/ \E atom \in Atoms : data = Single(atom)
  \/ \E bits \in IndexWidths \cup {2 * BYTE_BITS} :
       /\ data.kind = "paletted" /\ data.bits = bits
       /\ data = Paletted(data.palette, bits, data.bytes)
       /\ data.bytes \in [1..((UNPACKED_SIZE \div BYTE_BITS) * bits) -> 0..(2 ^ BYTE_BITS - 1)]
       /\ data.palette = <<>> => bits = 2 * BYTE_BITS
       /\ data.palette # <<>> =>
            /\ data.palette \in Seq(Atoms)
            /\ \A i \in Cells : UnpackBits(data.bytes, bits)[i] < Len(data.palette)

ASSUME ForeignOK == \A data \in Foreign : IsPacked(data)

(* A delta merged into the newer grid. *)
UnpackDeltaInto(data, base) ==
  IF data.kind = "single"
  THEN IF data.atom # STATE_UNCHANGED THEN [i \in Cells |-> data.atom] ELSE base
  ELSE [i \in Cells |-> IF AtomAt(data, i) = STATE_UNCHANGED THEN base[i] ELSE AtomAt(data, i)]

(* The orders of a palette by falling counts, any of them: the sort is not *)
(* stable.                                                                 *)
SortedByCount(atoms, cells) ==
  LET count(a) == Cardinality({i \in Cells : cells[i] = a})
  IN  {order \in [DOMAIN atoms -> {atoms[k] : k \in DOMAIN atoms}] :
         /\ \A k, l \in DOMAIN atoms : k # l => order[k] # order[l]
         /\ \A k \in 1..(Len(atoms) - 1) : count(order[k]) >= count(order[k + 1])}

(* pack_with: the palette, then each cell's index in it.                   *)
PackWith(cells) ==
  LET table == NextGeneration(scratch)
      first_seen == FirstSeen(table, cells)
  IN  /\ calls < MaxCalls
      /\ IF IsDirect(table, cells)
         THEN /\ scratch' = MarkedTable(table, cells, first_seen)
              /\ packed' = Direct(PackBits(cells, 2 * BYTE_BITS))
         ELSE \E sorted \in SortedByCount(first_seen, cells) :
                LET marked == MarkedTable(table, cells, sorted)
                    bits == BitsPerEntry(Len(sorted))
                IN  /\ scratch' = marked
                    /\ packed' =
                         IF Len(sorted) = 1 THEN Single(sorted[1])
                         ELSE Paletted(sorted, bits,
                                PackBits([i \in Cells |-> marked.indices[cells[i]]], bits))
      /\ grid' = cells
      /\ calls' = calls + 1
      /\ UNCHANGED <<pack, members, ranks, palette>>

(* A packed section out of a file. *)
Load(data) ==
  /\ calls < MaxCalls
  /\ packed' = data
  /\ grid' = Unpack(data)
  /\ calls' = calls + 1
  /\ UNCHANGED <<scratch, pack, members, ranks, palette>>

-----------------------------------------------------------------------------
(* Packing for an exported chunk: pack_section of zvcr_cli/src/packing.rs. *)
(* Its palette is in the order of first cells and its indices are as wide  *)
(* as the palette needs, so that fields need not fill a word.              *)

BitsPerIndex(palette_length, min_bits) ==
  LET width == CHOOSE w \in 0..WORD_BITS :
                 palette_length <= 2 ^ w /\ \A v \in 0..(w - 1) : palette_length > 2 ^ v
  IN  IF width < min_bits THEN min_bits ELSE width

FirstCells(cells) == {i \in Cells : \A j \in 1..(i - 1) : cells[j] # cells[i]}

PackSection(cells, min_bits) ==
  LET first == FirstCells(cells)
      atoms == [k \in 1..Cardinality(first) |->
                  cells[CHOOSE i \in first : Before(first, i) = k - 1]]
      bits == BitsPerIndex(Len(atoms), min_bits)
      entries == WORD_BITS \div bits
      indices == [i \in Cells |-> IndexIn(atoms, cells[i]) - 1]
  IN  IF Len(atoms) = 1
      THEN [palette |-> atoms, bits |-> 0, data |-> <<>>]
      ELSE [palette |-> atoms, bits |-> bits,
            data |-> [n \in 1..DivCeil(UNPACKED_SIZE, entries) |->
                        Joined(indices, (n - 1) * entries + 1, entries, bits)]]

(* What a reader of chunks, such as the one of the tests, makes of it.     *)
UnpackSection(chunk) ==
  LET entries == WORD_BITS \div chunk.bits
      index(i) == Field(chunk.data[(i - 1) \div entries + 1], (i - 1) % entries, chunk.bits)
  IN  [i \in Cells |-> chunk.palette[IF chunk.data = <<>> THEN 1 ELSE index(i) + 1]]

-----------------------------------------------------------------------------
(* Repacking: emit_paletted, then read_paletted_snapshot of what was       *)
(* written.  The writer's order of a palette has no ties.                  *)

(* keys[k] breaks the tie of entry k. *)
RankedBy(counts, keys) ==
  LET precedes(k, l) == \/ counts[k] > counts[l]
                        \/ counts[k] = counts[l] /\ keys[k] < keys[l]
  IN  [n \in DOMAIN counts |->
         CHOOSE k \in DOMAIN counts :
           Cardinality({l \in DOMAIN counts : precedes(l, k)}) = n - 1]

CountOf(values, value) == Cardinality({i \in Cells : values[i] = value})

(* What finish_indirect or emit_single writes for values that index atoms. *)
Emitted(values, atoms) ==
  LET used == {k \in DOMAIN atoms : CountOf(values, k - 1) # 0}
      distinct == [n \in 1..Cardinality(used) |->
                     CHOOSE k \in used : Cardinality({l \in used : l < k}) = n - 1]
      order == RankedBy([n \in DOMAIN distinct |-> CountOf(values, distinct[n] - 1)], distinct)
      rank_atoms == [n \in DOMAIN order |-> atoms[distinct[order[n]]]]
      remap == [k \in used |-> IndexIn([n \in DOMAIN order |-> distinct[order[n]]], k) - 1]
      bits == BitsPerEntry(Len(order))
  IN  IF Len(order) = 1
      THEN Paletted(rank_atoms, 1, [n \in 1..(UNPACKED_SIZE \div BYTE_BITS) |-> 0])
      ELSE Paletted(rank_atoms, bits,
                    PackValues([i \in Cells |-> remap[values[i] + 1]], bits))

EmitFromIndices ==
  /\ pack' = pack
  /\ packed' = Emitted(ExtractIndices(packed.bytes, packed.bits), packed.palette)

(* extract_direct_atoms or, with a wide palette, extract_atoms *)
WideAtoms ==
  IF packed.palette = <<>> THEN ExtractDirectAtoms(packed.bytes)
  ELSE [i \in Cells |-> AtomAt(packed, i)]

(* The atoms of a direct section, and those of a wide palette that occur,  *)
(* may be few; ties are broken by atom.                                    *)
EmitFromAtoms ==
  LET wide == WideAtoms
      table == NextGeneration(pack)
      atoms == FirstSeen(table, wide)
      marked == MarkedTable(table, wide, atoms)
      order == RankedBy([k \in DOMAIN atoms |-> CountOf(wide, atoms[k])], atoms)
      ranked == [n \in DOMAIN order |-> atoms[order[n]]]
      bits == BitsPerEntry(Len(atoms))
  IN  /\ pack' = marked
      /\ packed' =
           IF IsDirect(table, wide)
           THEN IF packed.palette = <<>> THEN packed ELSE Direct(PackAtomsLe(wide))
           ELSE IF Len(atoms) = 1
           THEN Paletted(atoms, 1, [n \in 1..(UNPACKED_SIZE \div BYTE_BITS) |-> 0])
           ELSE Paletted(ranked, bits,
                  PackValues([i \in Cells |->
                                IndexIn(order, marked.indices[wide[i]] + 1) - 1], bits))

HasNarrowPalette ==
  /\ packed.palette # <<>>
  /\ Len(packed.palette) <= MAX_INDIRECT_PALETTE_SIZE
  /\ packed.bits \in IndexWidths

Repack ==
  /\ calls < MaxCalls
  /\ packed.kind = "paletted"
  /\ IF HasNarrowPalette THEN EmitFromIndices ELSE EmitFromAtoms
  /\ calls' = calls + 1
  /\ UNCHANGED <<scratch, members, ranks, grid, palette>>

-----------------------------------------------------------------------------
(* Packing a decoded section of ranks: pack_modeled_section                *)

NextRankTable(table) ==
  LET next == NextGeneration(table)
  IN  IF next.seen_gen = 1
      THEN [next EXCEPT !.key = [at \in TablePositions |-> 0],
                        !.val = [at \in TablePositions |-> 0]]
      ELSE next

(* rank_slot: from the rank's position on, the first that is free or holds *)
(* it.  placed holds what this section has put into the table so far.      *)
RankSlot(table, placed, rank) ==
  LET ends(at) == IF at \in DOMAIN placed THEN placed[at] = rank
                  ELSE table.seen[at] # table.seen_gen \/ table.key[at] = rank
      step(d) == (Hash[rank] + d) % RANK_TABLE_SLOTS
      found == CHOOSE d \in TablePositions : ends(step(d)) /\ \A e \in 0..(d - 1) : ~ends(step(e))
  IN  step(found)

With(f, at, rank) == [p \in DOMAIN f \cup {at} |-> IF p = at THEN rank ELSE f[p]]

(* The loop over the cells, until they are all in or there are too many.   *)
RanksPlaced(table, cells) ==
  LET upto[i \in 0..UNPACKED_SIZE] ==
        IF i = 0 THEN [placed |-> [p \in {} |-> 0], first_seen |-> <<>>, direct |-> FALSE]
        ELSE LET s == upto[i - 1]
                 at == RankSlot(table, s.placed, cells[i])
             IN  IF s.direct \/ at \in DOMAIN s.placed \/ table.seen[at] = table.seen_gen THEN s
                 ELSE IF Len(s.first_seen) = MAX_INDIRECT_PALETTE_SIZE
                 THEN [s EXCEPT !.direct = TRUE]
                 ELSE [s EXCEPT !.placed = With(@, at, cells[i]),
                                !.first_seen = Append(@, cells[i])]
  IN  upto[UNPACKED_SIZE]

RankTable(table, placed, indexed) ==
  [table EXCEPT
     !.seen = [at \in DOMAIN table.seen |->
                 IF at \in DOMAIN placed THEN table.seen_gen ELSE table.seen[at]],
     !.key = [at \in TablePositions |-> IF at \in DOMAIN placed THEN placed[at] ELSE @[at]],
     !.val = [at \in TablePositions |->
                IF at \in DOMAIN placed THEN IndexIn(indexed, placed[at]) - 1 ELSE @[at]]]

PackModeled(cells) ==
  LET table == NextRankTable(ranks)
      result == RanksPlaced(table, cells)
      atoms == [i \in Cells |-> Remap[cells[i]]]
  IN  /\ calls < MaxCalls
      /\ IF result.direct
         THEN /\ ranks' = RankTable(table, result.placed, result.first_seen)
              /\ packed' = Direct(PackBits(atoms, 2 * BYTE_BITS))
         ELSE \E sorted \in SortedByCount(result.first_seen, cells) :
                LET filled == RankTable(table, result.placed, sorted)
                    bits == BitsPerEntry(Len(sorted))
                    val(rank) == filled.val[RankSlot(filled, result.placed, rank)]
                IN  /\ ranks' = filled
                    /\ packed' =
                         IF Len(sorted) = 1 THEN Single(Remap[sorted[1]])
                         ELSE Paletted([k \in DOMAIN sorted |-> Remap[sorted[k]]], bits,
                                PackBits([i \in Cells |-> val(cells[i])], bits))
      /\ grid' = atoms
      /\ calls' = calls + 1
      /\ UNCHANGED <<scratch, pack, members, palette>>

-----------------------------------------------------------------------------
(* The palette members of the model *)

MarkPaletteMutant(atoms) ==
  LET gen == (members.seen_gen + 1) % STAMPS
      marks(f, value(_)) ==
        [a \in DOMAIN f |-> IF \E k \in DOMAIN atoms : atoms[k] = a THEN value(a) ELSE f[a]]
  IN  /\ calls < MaxCalls
      /\ members' = [seen |-> marks(members.seen, LAMBDA a : gen),
                     indices |-> marks(members.indices, LAMBDA a : IndexIn(atoms, a) - 1),
                     seen_gen |-> gen]
      /\ palette' = atoms
      /\ calls' = calls + 1
      /\ UNCHANGED <<scratch, pack, ranks, grid, packed>>

MarkPalette(atoms) ==
  LET table == NextGeneration(members)
  IN  /\ calls < MaxCalls
      /\ members' =
           [table EXCEPT
              !.seen = [a \in DOMAIN table.seen |->
                          IF \E k \in DOMAIN atoms : atoms[k] = a
                          THEN table.seen_gen ELSE table.seen[a]],
              !.indices = [a \in DOMAIN table.indices |->
                             IF \E k \in DOMAIN atoms : atoms[k] = a
                             THEN IndexIn(atoms, a) - 1 ELSE table.indices[a]]]
      /\ palette' = atoms
      /\ calls' = calls + 1
      /\ UNCHANGED <<scratch, pack, ranks, grid, packed>>

IsMember(atom) == members.seen[atom] = members.seen_gen

SlotOf(atom) == members.indices[atom]

-----------------------------------------------------------------------------

NewTable(keys) ==
  [seen |-> [k \in keys |-> 0], indices |-> [k \in keys |-> 0], seen_gen |-> 0]

Init ==
  /\ scratch = NewTable(Atoms)
  /\ pack = NewTable(Atoms)
  /\ members = NewTable(Atoms)
  /\ ranks = [seen |-> [at \in TablePositions |-> 0], key |-> [at \in TablePositions |-> 0],
              val |-> [at \in TablePositions |-> 0], seen_gen |-> 0]
  /\ packed = Single(0)
  /\ grid = [i \in Cells |-> 0]
  /\ palette = <<>>
  /\ calls = 0

ReverseDelta(previous, new) ==
  [i \in Cells |-> IF new[i] # previous[i] THEN previous[i] ELSE STATE_UNCHANGED]

Packable == Grids \cup {ReverseDelta(g, h) : g, h \in Grids}

Next ==
  \/ \E cells \in Packable : PackWith(cells)
  \/ \E data \in Foreign : Load(data)
  \/ Repack
  \/ \E cells \in Grids : PackModeled(cells)
  \/ \E atoms \in Palettes : MarkPalette(atoms)

Spec == Init /\ [][Next]_vars

-----------------------------------------------------------------------------
(* Properties                                                              *)

(***************************************************************************)
(* However a section was packed, loaded or repacked, and whatever entries  *)
(* earlier sections left in the tables, unpacking gives its cells back.    *)
(* So does a reader of chunks that are exported, as blocks or as biomes,   *)
(* whose indices have at least so many bits.                               *)
(***************************************************************************)
PackedIsTheSection ==
  /\ Unpack(packed) = grid
  /\ \A min_bits \in MinBits : UnpackSection(PackSection(grid, min_bits)) = grid

(***************************************************************************)
(* A reverse delta, packed and merged into the newer grid, restores the    *)
(* older one, except for a cell of the older one that held the marker of   *)
(* unchanged cells: that one keeps the newer atom.                         *)
(***************************************************************************)
DeltaRestores ==
  \A previous, new \in Grids :
    grid = ReverseDelta(previous, new) =>
      UnpackDeltaInto(packed, new) =
        [i \in Cells |-> IF previous[i] = STATE_UNCHANGED THEN new[i] ELSE previous[i]]

(***************************************************************************)
(* The stamp of the next section is on no entry that an earlier section    *)
(* left behind, in none of the tables, also when the stamps come round.    *)
(***************************************************************************)
NextStampIsUnused ==
  \A table \in {NextGeneration(scratch), NextGeneration(pack),
                NextGeneration(members), NextGeneration(ranks)} :
    \A k \in DOMAIN table.seen : table.seen[k] # table.seen_gen

(***************************************************************************)
(* Once a palette was marked, its atoms and no others are told to be       *)
(* members, each with its place in the palette.                            *)
(***************************************************************************)
MembersAreThePalette ==
  palette # <<>> =>
    \A a \in Atoms :
      /\ IsMember(a) <=> \E k \in DOMAIN palette : palette[k] = a
      /\ IsMember(a) => palette[SlotOf(a) + 1] = a

=============================================================================
