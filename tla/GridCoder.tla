------------------------------ MODULE GridCoder ------------------------------
(***************************************************************************)
(* The coder of a region's newest blocks: models/context.rs and            *)
(* models/predictor.rs of the experimental format.                         *)
(*                                                                         *)
(* Encoder and decoder walk over the cells of all sections in one order    *)
(* and turn every cell into yes/no decisions, each coded with a            *)
(* probability that both estimate from cells and decisions before it.  The *)
(* range coder returns the bit that was encoded when it is given the same  *)
(* probability; and the probability is the same when the question is (the  *)
(* cells, the run and the table entries it depends on) and all questions   *)
(* before were.  So a decision is a pair of a question and a bit here,     *)
(* tables and weights are left out, and a hash is what it is taken of.     *)
(*                                                                         *)
(* The encoder reads the complete grid.  The decoder reads the grid it has *)
(* filled so far, which is zero elsewhere: whatever neighbours the encoder *)
(* looks at must have been decoded by then.                                *)
(***************************************************************************)
EXTENDS Integers, Sequences, FiniteSets, FiniteSetsExt

CONSTANTS
  SEGMENT_SIDE,   \* segments along x and along z
  SECTION_SIDE,   \* cells along each side of a section
  SectionCount,   \* sections of a segment
  Regions         \* the regions coded: section -> its cells' atoms, or Absent

Absent == <<>>

SIDE == SEGMENT_SIDE * SECTION_SIDE
Z_STRIDE == SIDE
Y_STRIDE == SIDE * SIDE

Cells == 0..(SECTION_SIDE * SECTION_SIDE * SECTION_SIDE - 1)
Sections == 0..(SEGMENT_SIDE * SEGMENT_SIDE * SectionCount - 1)
Voxels == 0..(Y_STRIDE * SECTION_SIDE * SectionCount - 1)

(* Bit depths go up to 16. *)
ASSUME ParametersOK ==
  /\ {SEGMENT_SIDE, SECTION_SIDE, SectionCount} \subseteq Nat \ {0}
  /\ SECTION_SIDE * SECTION_SIDE * SECTION_SIDE <= 2 ^ 16
  /\ \A r \in Regions : r \in [Sections -> {Absent} \cup [Cells -> Nat]]

NONE == 65535

(* What an index outside the grid gives: the slice's bounds check panics. *)
PANIC == 65536

VARIABLES
  region,    \* the region
  phase,     \* "build", "encode", "decode", "done"
  ranked,    \* the atoms of the region, the most frequent first
  voxels,    \* the encoder's grid of ranks
  decoded,   \* the decoder's
  headers,   \* what is written for every section besides decisions
  file,      \* the decisions written
  cursor,    \* the decisions read
  at,        \* the place in the walk
  run,       \* cells guessed right in a row
  miss,      \* voxel -> 1 when its guess was wrong
  memo       \* the contexts of the last guess

vars == <<region, phase, ranked, voxels, decoded, headers, file, cursor,
          at, run, miss, memo>>

Coding == phase \in {"encode", "decode"}

-----------------------------------------------------------------------------
(* Where things are.  Sections and cells are walked in the order of their  *)
(* numbers: along x, then z, then y.                                       *)

Along(number, side) ==
  [x |-> number % side, z |-> (number \div side) % side, y |-> number \div (side * side)]

Local == Along(at.cell, SECTION_SIDE)
Section == Along(at.section, SEGMENT_SIDE)

(* The voxel of a section's cell *)
VoxelAt(section, cell) ==
  LET s == Along(section, SEGMENT_SIDE)
      c == Along(cell, SECTION_SIDE)
  IN  (s.y * SECTION_SIDE + c.y) * Y_STRIDE + (s.z * SECTION_SIDE + c.z) * Z_STRIDE
        + s.x * SECTION_SIDE + c.x

Here == VoxelAt(at.section, at.cell)

(* section_y, origin and coordinates of the cell the walk is at *)
X == Section.x * SECTION_SIDE + Local.x
Y == Section.y * SECTION_SIDE + Local.y
Z == Section.z * SECTION_SIDE + Local.z

-----------------------------------------------------------------------------
(* The grid                                                                *)

Contents(section, cell) == IF region[section] = Absent THEN 0 ELSE region[section][cell]

(* How many cells hold the atom; absent sections count as atom 0. *)
Frequency(atom) ==
  Cardinality({p \in Sections \X Cells : Contents(p[1], p[2]) = atom})

Atoms == {Contents(p[1], p[2]) : p \in Sections \X Cells}

Sorted(set, Above(_, _)) ==
  [k \in 1..Cardinality(set) |->
     CHOOSE x \in set : Cardinality({y \in set : Above(y, x)}) = k - 1]

(* build_ranking *)
Ranking ==
  LET frequency == [atom \in Atoms |-> Frequency(atom)]
      Above(x, y) == frequency[x] > frequency[y] \/ (frequency[x] = frequency[y] /\ x < y)
  IN  Sorted(Atoms, Above)

RankOf(ranking, atom) ==
  IF \E r \in DOMAIN ranking : ranking[r] = atom
  THEN (CHOOSE r \in DOMAIN ranking : ranking[r] = atom) - 1
  ELSE NONE

SectionOfVoxel(voxel) ==
  LET x == (voxel % Z_STRIDE) \div SECTION_SIDE
      z == ((voxel \div Z_STRIDE) % SIDE) \div SECTION_SIDE
      y == (voxel \div Y_STRIDE) \div SECTION_SIDE
  IN  x + SEGMENT_SIDE * (z + SEGMENT_SIDE * y)

CellOfVoxel(voxel) ==
  LET x == (voxel % Z_STRIDE) % SECTION_SIDE
      z == ((voxel \div Z_STRIDE) % SIDE) % SECTION_SIDE
      y == (voxel \div Y_STRIDE) % SECTION_SIDE
  IN  x + SECTION_SIDE * (z + SECTION_SIDE * y)

Start == [section |-> 0, cell |-> 0, stage |-> "section",
          candidate |-> 0, partial |-> 0, bit_pos |-> 0]

NoMemo == [valid |-> FALSE]

(* encode_region: the ranking and the grid of the encoder *)
BuildGrid ==
  /\ phase = "build"
  /\ ranked' = Ranking
  /\ voxels' =
       [v \in Voxels |-> RankOf(ranked', Contents(SectionOfVoxel(v), CellOfVoxel(v)))]
  /\ phase' = "encode"
  /\ UNCHANGED <<region, decoded, headers, file, cursor, at, run, miss, memo>>

-----------------------------------------------------------------------------
(* Guessing a cell from its neighbours                                     *)

Slots == 1..12
FirstOrder == 1..9
Weight == <<3, 3, 3, 2, 2, 2, 2, 1, 1>>

(* How far back along each axis the neighbours lie. *)
Back ==
  << [x |-> 1, y |-> 0, z |-> 0], [x |-> 0, y |-> 1, z |-> 0], [x |-> 0, y |-> 0, z |-> 1],
     [x |-> 1, y |-> 0, z |-> 1], [x |-> 1, y |-> 1, z |-> 0], [x |-> 0, y |-> 1, z |-> 1],
     [x |-> 1, y |-> 1, z |-> 1], [x |-> -1, y |-> 1, z |-> 0], [x |-> -1, y |-> 1, z |-> 1],
     [x |-> 2, y |-> 0, z |-> 0], [x |-> 0, y |-> 0, z |-> 2], [x |-> 0, y |-> 2, z |-> 0] >>

East == {8, 9}

Neighbor(slot) ==
  Here - Back[slot].x - Back[slot].y * Y_STRIDE - Back[slot].z * Z_STRIDE

(* The grid the coder reads; a negative difference wraps to an index far   *)
(* beyond it.                                                              *)
Grid == IF phase = "encode" THEN voxels ELSE decoded

GridAt(voxel) == IF voxel \in Voxels THEN Grid[voxel] ELSE PANIC

EastCausalMutant == Y > 0 /\ X + 1 < SIDE

(* East of the section nothing of its own height is decoded yet. *)
EastCausal ==
  Y > 0 /\ X + 1 < SIDE /\ (Local.x < SECTION_SIDE - 1 \/ Local.y = 0)

(* gather_neighbors *)
Exists(slot) ==
  /\ X >= Back[slot].x
  /\ Y >= Back[slot].y
  /\ Z >= Back[slot].z
  /\ slot \in East => EastCausal

GatherNeighbors == [slot \in Slots |-> IF Exists(slot) THEN GridAt(Neighbor(slot)) ELSE NONE]

FastRowMutant == Section.z > 0 \/ Local.z >= 2

FastRow == (Section.y > 0 \/ Local.y >= 2) /\ (Section.z > 0 \/ Local.z >= 2)

IsFast == FastRow /\ Local.x >= 2

(* gather_neighbors_fast reads without looking where the grid ends. *)
GatherNeighborsFast ==
  LET east_causal == X + 1 < SIDE /\ (Local.x + 1 < SECTION_SIDE \/ Local.y = 0)
  IN  [slot \in Slots |->
         IF slot \in East => east_causal THEN GridAt(Neighbor(slot)) ELSE NONE]

Neighbors == IF IsFast THEN GatherNeighborsFast ELSE GatherNeighbors

(* The section's palette, its bit depth and its height *)
Palette == headers[at.section + 1].palette
PaletteBits == headers[at.section + 1].bits

IsMember(rank) == \E i \in DOMAIN Palette : Palette[i] = rank

SlotOf(rank) == (CHOOSE i \in DOMAIN Palette : Palette[i] = rank) - 1

(* The weights of the first nine neighbours that have the value *)
Support(neighbors, value) ==
  LET weights[slot \in 0..9] ==
        IF slot = 0 THEN 0
        ELSE weights[slot - 1] + (IF neighbors[slot] = value THEN Weight[slot] ELSE 0)
  IN  weights[9]

LastSlot(neighbors, value) ==
  CHOOSE slot \in FirstOrder :
    neighbors[slot] = value /\ \A later \in (slot + 1)..9 : neighbors[later] # value

(* The best supported value; of two, the one with the earlier last slot. *)
BestOf(neighbors, values) ==
  CHOOSE v \in values : \A w \in values \ {v} :
    \/ Support(neighbors, v) > Support(neighbors, w)
    \/ /\ Support(neighbors, v) = Support(neighbors, w)
       /\ LastSlot(neighbors, v) < LastSlot(neighbors, w)

(* select_primary_value: values of the section's palette come first. *)
SelectPrimaryValue(neighbors) ==
  LET seen == {neighbors[slot] : slot \in FirstOrder} \ {NONE}
      members == {v \in seen : IsMember(v)}
  IN  IF members # {} THEN BestOf(neighbors, members)
      ELSE IF seen # {} THEN BestOf(neighbors, seen) ELSE NONE

(* primary_contexts: what the tables for the guess are looked up with *)
HeadContexts(neighbors) ==
  [neighbors |-> neighbors, primary_value |-> SelectPrimaryValue(neighbors), run |-> run,
   section_y |-> Section.y, palette_bits |-> PaletteBits]

MemoMatches(neighbors) == memo.valid /\ memo.contexts.neighbors = neighbors

RememberedMutant == memo.contexts

Remembered == [memo.contexts EXCEPT !.run = run]

Contexts(neighbors) == IF MemoMatches(neighbors) THEN Remembered ELSE HeadContexts(neighbors)

PrimaryValue(neighbors) == Contexts(neighbors).primary_value

(* cluster_of: which of the nearest neighbours were guessed wrong *)
Cluster(neighbors) ==
  [slot \in 1..3 |-> IF neighbors[slot] = NONE THEN 0 ELSE miss[Neighbor(slot)]]

HeadQuestion == [kind |-> "head", contexts |-> Contexts(Neighbors), cluster |-> Cluster(Neighbors)]

Truth == voxels[Here]

(* A guess that is no member cannot be right, and is not asked about.      *)
SkipsHead(primary_value) ==
  /\ primary_value # NONE
  /\ ~IsMember(primary_value)
  /\ phase = "encode" => Truth # primary_value

-----------------------------------------------------------------------------
(* What is asked when the guess was wrong                                  *)

(* The other values of the neighbours that the palette has, each once *)
IsCandidate(neighbors, slot) ==
  /\ neighbors[slot] \notin {NONE, PrimaryValue(neighbors)}
  /\ IsMember(neighbors[slot])
  /\ \A earlier \in 1..(slot - 1) : neighbors[earlier] # neighbors[slot]

CandidateSlots ==
  LET neighbors == Neighbors
  IN  {slot \in Slots : IsCandidate(neighbors, slot)}

LaterCandidates == {slot \in CandidateSlots : slot > at.candidate}

Candidate == Neighbors[at.candidate]

CandidateQuestion ==
  IF Cardinality(CandidateSlots) = 1
  THEN [kind |-> "pointer", slot |-> at.candidate, palette_bits |-> PaletteBits]
  ELSE [kind |-> "chain", slot |-> at.candidate, candidate |-> Candidate,
        entry |-> Cardinality({slot \in CandidateSlots : slot < at.candidate}),
        mask |-> {slot \in FirstOrder : Neighbors[slot] = PrimaryValue(Neighbors)}]

ExcludedMutant ==
  [k \in {0} \cup CandidateSlots |-> IF k = 0 THEN 0 ELSE SlotOf(Neighbors[k])]

(* Palette slots the tree need not tell apart any more: that of the guess, *)
(* and those of the candidates.                                            *)
Excluded ==
  LET primary_value == PrimaryValue(Neighbors)
      neighbors == Neighbors
      guess == IF primary_value # NONE /\ IsMember(primary_value) THEN {0} ELSE {}
  IN  [k \in guess \cup CandidateSlots |->
         SlotOf(IF k = 0 THEN primary_value ELSE neighbors[k])]

Node == at.partial + 2 ^ at.bit_pos
Hi == Min({at.partial + 2 ^ (at.bit_pos + 1), Len(Palette)})

(* encode_tree counts what is left of the two halves by subtraction. *)
Left(first, last) ==
  last - first - Cardinality({k \in DOMAIN Excluded : Excluded[k] \in first..(last - 1)})

Lower == Left(at.partial, Min({Node, Hi}))
Upper == Left(Min({Node, Hi}), Hi)

TreeQuestion ==
  [kind |-> "tree", neighbors |-> Neighbors, primary_value |-> PrimaryValue(Neighbors),
   node |-> Node, bit_pos |-> at.bit_pos, section_y |-> Section.y,
   palette_bits |-> PaletteBits, balance |-> Min({Lower, Upper})]

-----------------------------------------------------------------------------
(* The walk                                                                *)

(* The encoder writes the bit that is true, the decoder takes the next.    *)
Coded(question, truth, bit) ==
  IF phase = "encode"
  THEN /\ bit = truth
       /\ file' = Append(file, [question |-> question, bit |-> bit])
       /\ UNCHANGED cursor
  ELSE /\ cursor < Len(file)
       /\ bit = file[cursor + 1].bit
       /\ cursor' = cursor + 1
       /\ UNCHANGED file

NextCell ==
  IF at.cell + 1 \in Cells
  THEN [Start EXCEPT !.section = at.section, !.cell = at.cell + 1, !.stage = "head"]
  ELSE [Start EXCEPT !.section = at.section + 1]

(* The cell has the value; the walk goes on with the next. *)
Settle(value) ==
  /\ decoded' = IF phase = "decode" THEN [decoded EXCEPT ![Here] = value] ELSE decoded
  /\ at' = NextCell

(* encode_residual, decode_residual *)
Residual ==
  [at EXCEPT !.stage = IF CandidateSlots = {} THEN "tree" ELSE "candidate",
             !.candidate = IF CandidateSlots = {} THEN 0 ELSE Min(CandidateSlots),
             !.bit_pos = PaletteBits - 1]

NextCandidate ==
  IF LaterCandidates = {} THEN [at EXCEPT !.stage = "tree"]
                          ELSE [at EXCEPT !.candidate = Min(LaterCandidates)]

Memorized ==
  IF MemoMatches(Neighbors) THEN memo
                            ELSE [valid |-> TRUE, contexts |-> HeadContexts(Neighbors)]

(* bit_depth *)
BitDepth(length) == CHOOSE bits \in 0..16 :
  2 ^ bits >= length /\ \A fewer \in 0..(bits - 1) : 2 ^ fewer < length

(* scan_section sorts the ranks by the ranks of the atoms they number.     *)
SortedPalette(ranks) ==
  LET key == [r \in ranks |-> RankOf(ranked, r)]
      Above(r, s) == key[r] < key[s] \/ (key[r] = key[s] /\ r < s)
  IN  Sorted(ranks, Above)

RanksOf(section) == {voxels[VoxelAt(section, cell)] : cell \in Cells}

Uniform(rank) == [bits |-> 0, palette |-> <<rank>>]

HeaderMutant(section) ==
  IF region[section] = Absent
  THEN Uniform(0)
  ELSE IF Cardinality(RanksOf(section)) = 1
  THEN Uniform(CHOOSE rank \in RanksOf(section) : TRUE)
  ELSE [bits |-> BitDepth(Cardinality(RanksOf(section))),
        palette |-> SortedPalette(RanksOf(section))]

(* The bit depth, and the uniform rank or the palette of the section; the  *)
(* three are streams of their own, read in the same order.                 *)
Header(section) ==
  IF region[section] = Absent
  THEN Uniform(RankOf(ranked, 0))
  ELSE IF Cardinality(RanksOf(section)) = 1
  THEN Uniform(CHOOSE rank \in RanksOf(section) : TRUE)
  ELSE [bits |-> BitDepth(Cardinality(RanksOf(section))),
        palette |-> SortedPalette(RanksOf(section))]

AtSection == at.stage = "section" /\ at.section \in Sections

EncodeSection ==
  /\ phase = "encode"
  /\ AtSection
  /\ headers' = Append(headers, Header(at.section))
  /\ IF Header(at.section).bits = 0
     THEN at' = [at EXCEPT !.section = @ + 1] /\ UNCHANGED memo
     ELSE at' = [at EXCEPT !.stage = "head"] /\ memo' = NoMemo
  /\ UNCHANGED <<region, phase, ranked, voxels, decoded, file, cursor, run, miss>>

(* What decode_grid refuses *)
HeaderIsValid(header) ==
  /\ \A i \in DOMAIN header.palette : header.palette[i] < Len(ranked)
  /\ header.bits # 0 => /\ Len(header.palette) \in 2..Cardinality(Cells)
                        /\ header.bits = BitDepth(Len(header.palette))

(* fill_uniform *)
Filled(section, rank) ==
  [v \in Voxels |-> IF SectionOfVoxel(v) = section THEN rank ELSE decoded[v]]

DecodeSection ==
  /\ phase = "decode"
  /\ AtSection
  /\ HeaderIsValid(headers[at.section + 1])
  /\ IF PaletteBits = 0
     THEN /\ decoded' = Filled(at.section, Palette[1])
          /\ at' = [at EXCEPT !.section = @ + 1]
          /\ UNCHANGED memo
     ELSE /\ at' = [at EXCEPT !.stage = "head"]
          /\ memo' = NoMemo
          /\ UNCHANGED decoded
  /\ UNCHANGED <<region, phase, ranked, voxels, headers, file, cursor, run, miss>>

(* encode_head, decode_head *)
AskHead ==
  /\ Coding
  /\ at.stage = "head"
  /\ ~SkipsHead(PrimaryValue(Neighbors))
  /\ \E bit \in {0, 1} :
       /\ Coded(HeadQuestion, IF Truth = PrimaryValue(Neighbors) THEN 1 ELSE 0, bit)
       /\ run' = IF bit = 1 THEN Min({run + 1, 255}) ELSE 0
       /\ miss' = [miss EXCEPT ![Here] = 1 - bit]
       /\ IF bit = 1 THEN Settle(PrimaryValue(Neighbors))
          ELSE at' = Residual /\ UNCHANGED decoded
  /\ memo' = Memorized
  /\ UNCHANGED <<region, phase, ranked, voxels, headers>>

SkipHead ==
  /\ Coding
  /\ at.stage = "head"
  /\ SkipsHead(PrimaryValue(Neighbors))
  /\ run' = 0
  /\ miss' = [miss EXCEPT ![Here] = 1]
  /\ memo' = Memorized
  /\ at' = Residual
  /\ UNCHANGED <<region, phase, ranked, voxels, decoded, headers, file, cursor>>

AskCandidate ==
  /\ Coding
  /\ at.stage = "candidate"
  /\ \E bit \in {0, 1} :
       /\ Coded(CandidateQuestion, IF Truth = Candidate THEN 1 ELSE 0, bit)
       /\ IF bit = 1
          THEN Settle(Candidate)
          ELSE at' = NextCandidate /\ UNCHANGED decoded
  /\ UNCHANGED <<region, phase, ranked, voxels, headers, run, miss, memo>>

AtBranch == Coding /\ at.stage = "tree" /\ at.bit_pos >= 0

(* One of the halves has nothing left. *)
Descend ==
  /\ AtBranch
  /\ Upper = 0 \/ Lower = 0
  /\ at' = [at EXCEPT !.bit_pos = @ - 1, !.partial = IF Upper = 0 THEN @ ELSE Node]
  /\ UNCHANGED <<region, phase, ranked, voxels, decoded, headers, file, cursor,
                 run, miss, memo>>

(* encode_tree, decode_tree *)
AskTree ==
  /\ AtBranch
  /\ Upper # 0 /\ Lower # 0
  /\ \E bit \in {0, 1} :
       /\ Coded(TreeQuestion,
                IF phase = "encode" THEN (SlotOf(Truth) \div 2 ^ at.bit_pos) % 2 ELSE 0, bit)
       /\ at' = [at EXCEPT !.bit_pos = @ - 1, !.partial = @ + bit * 2 ^ at.bit_pos]
  /\ UNCHANGED <<region, phase, ranked, voxels, decoded, headers, run, miss, memo>>

AtLeaf == Coding /\ at.stage = "tree" /\ at.bit_pos < 0

TakeLeaf ==
  /\ AtLeaf
  /\ at.partial < Len(Palette)
  /\ Settle(Palette[at.partial + 1])
  /\ UNCHANGED <<region, phase, ranked, voxels, headers, file, cursor, run, miss, memo>>

AtEnd == at.section \notin Sections

StartDecoding ==
  /\ phase = "encode"
  /\ AtEnd
  /\ phase' = "decode"
  /\ at' = Start
  /\ run' = 0
  /\ miss' = [v \in Voxels |-> 0]
  /\ memo' = NoMemo
  /\ UNCHANGED <<region, ranked, voxels, decoded, headers, file, cursor>>

FinishDecoding ==
  /\ phase = "decode"
  /\ AtEnd
  /\ phase' = "done"
  /\ UNCHANGED <<region, ranked, voxels, decoded, headers, file, cursor, at,
                 run, miss, memo>>

Init ==
  /\ region \in Regions
  /\ phase = "build"
  /\ ranked = <<>>
  /\ voxels = <<>>
  /\ decoded = [v \in Voxels |-> 0]
  /\ headers = <<>>
  /\ file = <<>>
  /\ cursor = 0
  /\ at = Start
  /\ run = 0
  /\ miss = [v \in Voxels |-> 0]
  /\ memo = NoMemo

Next ==
  \/ BuildGrid
  \/ EncodeSection
  \/ DecodeSection
  \/ AskHead
  \/ SkipHead
  \/ AskCandidate
  \/ Descend
  \/ AskTree
  \/ TakeLeaf
  \/ StartDecoding
  \/ FinishDecoding

Spec == Init /\ [][Next]_vars

-----------------------------------------------------------------------------
(* Properties                                                              *)

(* The question the coder asks next, if it asks one *)
Asks ==
  \/ at.stage = "head" /\ ~SkipsHead(PrimaryValue(Neighbors))
  \/ at.stage = "candidate"
  \/ AtBranch /\ Upper # 0 /\ Lower # 0

Question ==
  IF at.stage = "head" THEN HeadQuestion
  ELSE IF at.stage = "candidate" THEN CandidateQuestion ELSE TreeQuestion

(***************************************************************************)
(* The decoder always asks what the encoder answered next, of the same     *)
(* neighbours, run and misses, and refuses nothing the encoder wrote: so   *)
(* both use the same probability.                                          *)
(***************************************************************************)
InStep ==
  phase = "decode" =>
    /\ Asks => cursor < Len(file) /\ file[cursor + 1].question = Question
    /\ AtSection => HeaderIsValid(headers[at.section + 1])
    /\ AtLeaf => at.partial < Len(Palette)

(***************************************************************************)
(* Decoding yields the encoded grid, every cell of it the rank of its      *)
(* atom, from exactly the decisions that were written; as the test         *)
(* grid_roundtrip_synthetic compares them.                                 *)
(***************************************************************************)
RoundTrip ==
  phase = "done" =>
    /\ decoded = voxels
    /\ cursor = Len(file)
    /\ \A v \in Voxels :
         ranked[decoded[v] + 1] = Contents(SectionOfVoxel(v), CellOfVoxel(v))

(***************************************************************************)
(* Where the neighbours are gathered without looking at the borders of the *)
(* grid, they are those found with looking, and none of those is outside   *)
(* it: no index wraps or panics.                                           *)
(***************************************************************************)
FastPathIsExact ==
  Coding /\ at.stage = "head" =>
    /\ IsFast => GatherNeighborsFast = GatherNeighbors
    /\ \A slot \in Slots : Exists(slot) => Neighbor(slot) \in Voxels

(***************************************************************************)
(* What is remembered of a cell is what the next cell with the same        *)
(* neighbours would compute, although the run has changed in between.      *)
(***************************************************************************)
MemoIsFresh ==
  Coding /\ at.stage = "head" /\ MemoMatches(Neighbors) =>
    Remembered = HeadContexts(Neighbors)

(***************************************************************************)
(* The tree that is left when guess and candidates are excluded always has *)
(* the cell's value in it, and no count of what is left underflows.        *)
(***************************************************************************)
SurvivorsExist ==
  AtBranch =>
    /\ Lower >= 0
    /\ Upper >= 0
    /\ SlotOf(Truth) \in at.partial..(Hi - 1)
    /\ \A k \in DOMAIN Excluded : Excluded[k] # SlotOf(Truth)
=============================================================================
