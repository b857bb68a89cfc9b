------------------------- MODULE MCReferenceCodec -------------------------
(* Two segments of two sections in either domain.  The first one's blocks  *)
(* use three palettes in any order, one of them too wide for indices of 8  *)
(* bits, and reach one beyond each limit of the reader; the biomes share a *)
(* palette with them.  The second one finds palettes in the tables.        *)
EXTENDS ReferenceCodec

CONSTANTS p, q, wide, short, long

Of(palette, time) == [palette |-> palette, timestamp |-> time, cells |-> short]
TooLong(time) == [palette |-> DIRECT_PALETTE, timestamp |-> time, cells |-> long]

Histories ==
  {<<>>, <<Of(q, 1)>>, <<Of(p, 2), Of(NoPalette, 1)>>, <<Of(q, 2), Of(p, 1)>>,
   <<Of(wide, 2), Of(q, 1)>>, <<Of(NoPalette, 2), Of(DIRECT_PALETTE, 1)>>}

BeyondHistories ==
  {<<Of(DIRECT_PALETTE, 3), Of(q, 2), Of(p, 1)>>, <<TooLong(1)>>, <<Of(q, 2), TooLong(1)>>}

Segment(blocks, biome) ==
  [present |-> TRUE,
   sections |-> [domain \in Domains |->
                   IF domain = "block" THEN blocks
                   ELSE [section \in 1..SectionCount |-> IF section = 1 THEN biome ELSE <<Of(q, 1)>>]],
   states |-> <<1>>,
   tile_entities |-> << <<0, Erase>> >>]

Plain == {Segment(blocks, biome) :
            blocks \in [1..SectionCount -> Histories],
            biome \in {<<Of(NoPalette, 1)>>, <<Of(q, 2), Of(p, 1)>>}}

Beyond ==
  {Segment(blocks, <<>>) : blocks \in [1..SectionCount -> Histories \cup BeyondHistories]}
    \cup {[s EXCEPT !.states = <<2, 0>>] : s \in Plain}
    \cup {[s EXCEPT !.tile_entities = lists] : s \in Plain,
            lists \in {<< <<>>, <<>>, <<>> >>, << <<0, 0, Erase>> >>, << <<Erase, 2>> >>}}

Second == {NoSegment, Segment([section \in 1..SectionCount |-> <<Of(q, 2), Of(p, 1)>>], <<Of(p, 1)>>)}

MCRegions ==
  {<<first, second>> : first \in {NoSegment} \cup Plain \cup Beyond, second \in Second}

MCPaletteLength == [palette \in Palettes |-> IF palette = wide THEN 3 ELSE 2]

MCPackedLength == [cells \in Cells |-> IF cells = long THEN 2 ELSE 1]

(* One of the palettes has a single entry. *)
MCShortRegions ==
  {<<first, second>> : first \in Plain, second \in Second}

MCSingleEntry == [palette \in Palettes |-> IF palette = p THEN 1 ELSE 2]
=============================================================================
