------------------------ MODULE MCExperimentalCodec ------------------------
(* Two segments of two sections.  The blocks' histories hold a uniform     *)
(* snapshot of either kind, a palette with an entry no cell uses, a direct *)
(* snapshot with more atoms than a palette may have, and one of each kind  *)
(* in either order; one region has a section with more snapshots than its  *)
(* count can express.                                                      *)
EXTENDS ExperimentalCodec

Single(time, atom) == [kind |-> "single", timestamp |-> time, atom |-> atom]

Paletted(time, atoms, values) ==
  [kind |-> "paletted", timestamp |-> time, palette |-> atoms, values |-> values]

Uniform == Paletted(4, <<7, 9>>, <<1, 1, 1, 1>>)
Mixed == Paletted(3, <<5, 8, 6>>, <<2, 0, 2, 2>>)
Three == Paletted(6, <<2, 8, 9>>, <<1, 0, 2, 1>>)
Direct == Paletted(2, <<>>, <<3, 9, 6, 1>>)

BlockHistories ==
  {<<>>, <<Single(5, 3)>>, <<Mixed, Direct>>, <<Three, Single(1, 4)>>, <<Direct, Uniform>>}

BiomeHistories == {<<Paletted(2, <<1, 2>>, <<1, 0>>), Single(1, 1)>>, <<Single(3, 2)>>}

Segment(blocks, biomes, rest) ==
  [present |-> TRUE, states |-> rest, tile_entities |-> rest,
   sections |-> [domain \in Domains |-> IF domain = "block" THEN blocks ELSE biomes]]

(* The biomes of a segment do not vary freely. *)
Segments(rest) ==
  {Segment(blocks, <<biomes, CHOOSE h \in BiomeHistories : h # biomes>>, rest) :
     blocks \in [1..SectionCount -> BlockHistories], biomes \in BiomeHistories}

Late == Segment(<<<<Single(3, 1), Single(2, 1), Single(1, 1)>>, <<>>>>, <<<<>>, <<>>>>, 1)

MCRegions ==
  {<<first, second>> : first \in Segments(1) \cup {Absent}, second \in Segments(2) \cup {Absent}}
    \cup {<<Late, Absent>>}
=============================================================================
