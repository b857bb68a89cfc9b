-------------------------- MODULE MCRegionExport --------------------------
(* Regions of two by two segments.  In the first files any segment may be  *)
(* in any of the usual states, in the others one segment is unusual; then  *)
(* come the files that are refused.                                        *)
EXTENDS RegionExport

CONSTANTS a, b, te, bad, vast, Overworld, Nether

Seen(t, grid) == [timestamp |-> t, grid |-> grid]

List(t, list) == [timestamp |-> t, deltas |-> list]

Segment(blocks, biomes, tiles) ==
  [block_sections |-> blocks, biome_sections |-> biomes, tile_entities |-> tiles]

(* Tile entities are placed at position 1. *)
Now(entity) == [p \in {1} |-> entity]

Nothing == [p \in {} |-> te]

Full == Segment(<<<<Seen(4, b), Seen(2, a)>>>>, <<<<Seen(3, a)>>>>, <<>>)

(* The biomes changed last, and a tile entity was removed. *)
WithTiles ==
  Segment(<<<<Seen(1, a)>>>>, <<<<Seen(4, b), Seen(1, a)>>>>, <<List(3, Nothing), List(2, Now(te))>>)

(* Seen after the export began, too. *)
Later == Segment(<<<<Seen(7, b), Seen(4, a)>>>>, <<<<Seen(4, a)>>>>, <<List(7, Nothing), List(2, Now(te))>>)

Unseen == Segment(<<<<Seen(4, a)>>>>, <<<<>>>>, <<>>)

Unusual ==
  {Unseen,
   Segment(<<>>, <<>>, <<>>),
   Segment(<<<<>>>>, <<<<Seen(4, a)>>>>, <<>>),
   Segment(<<<<Seen(4, a)>>>>, <<<<Seen(4, a)>>>>, <<List(3, Now(bad))>>),
   Segment(<<<<Seen(4, a)>>>>, <<<<Seen(4, a)>>>>, <<List(3, Now(vast))>>),
   Segment(<<<<Seen(4, a)>>>>, <<<<Seen(4, a)>>>>, <<List(7, Nothing), List(2, Now(bad))>>)}
  \cup {Segment(<<<<Seen(t, b)>>, <<Seen(u, a)>>>>, <<<<Seen(u, a)>>, <<Seen(u, b)>>>>, <<>>) :
          t \in {-16, -10, -9, -8, 0, 5, 15}, u \in {-11, -8, 4}}

File(named, readable, protocol, dimension, segments) ==
  [named |-> named, readable |-> readable, protocol |-> protocol, dimension |-> dimension,
   rx |-> -1, rz |-> 3, segments |-> segments]

Good(segments) == File(TRUE, TRUE, 769, Overworld, segments)

MCSourceFiles ==
  LET few == [i \in Indices |-> IF i = 1 THEN Full ELSE None]
  IN  {Good(segments) : segments \in [Indices -> {None, Full, WithTiles, Later}]}
      \cup {Good([few EXCEPT ![2] = segment]) : segment \in Unusual}
      \cup {File(FALSE, TRUE, 769, Overworld, few), File(TRUE, FALSE, 769, Overworld, few),
            File(TRUE, TRUE, 770, Overworld, few), File(TRUE, TRUE, 765, Nether, few)}
=============================================================================
