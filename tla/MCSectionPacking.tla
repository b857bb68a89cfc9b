------------------------- MODULE MCSectionPacking -------------------------
(* Bytes of two bits, words of four of them, palettes of at most four      *)
(* atoms, sections of eight cells: every width occurs, direct sections, and*)
(* wide palettes of which few atoms occur, or too many.                    *)
EXTENDS SectionPacking

(* Searches collide, and run over the end of the table. *)
MCHash == [a \in Atoms |-> IF a < 8 THEN 4 ELSE 3]

MCRemap == [a \in Atoms |-> (a + 11) % ATOM_COUNT]

U == STATE_UNCHANGED

MCGrids ==
  {<<7, 7, 7, 7, 7, 7, 7, 7>>,
   <<7, 7, 7, 9, 7, 7, 7, 0>>,
   <<0, 7, 1, 9, 1, 7, 0, 1>>,
   <<0, 1, 2, 3, 9, U, 7, 7>>}

MCForeign ==
  {Paletted(<<5, 7, 5>>, 2, PackBits(<<2, 0, 1, 1, 2, 2, 0, 1>>, 2)),
   Paletted(<<3, 9>>, 1, PackBits(<<1, 1, 1, 1, 1, 1, 1, 1>>, 1)),
   Direct(PackBits(<<9, 9, U, 9, 0, 9, 9, 0>>, 4)),
   Direct(PackBits(<<1, 1, 1, 1, 1, 1, 1, 1>>, 4)),
   Direct(PackBits(<<1, 2, 3, 4, 5, 6, 7, 8>>, 4)),
   Paletted(<<5, U, 5, 0, 9>>, 4, PackBits(<<4, 0, 2, 3, 1, 4, 2, 0>>, 4)),
   Paletted(<<6, 2, 9, U, 8, 6>>, 4, PackBits(<<4, 0, 1, 2, 3, 4, 5, 1>>, 4))}

MCPalettes == {<<7, 9, 0>>, <<0, 1>>, <<U, 3, 7, 1, 2>>}
=============================================================================
