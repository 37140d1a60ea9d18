----------------------------- MODULE MCBitstream -----------------------------
(***************************************************************************)
(* A Virtex-5 and a Virtex-4 device of four clock rows, two tiles high,    *)
(* and eleven columns, two of them block RAM and one the clock's, with a   *)
(* few frames per column; and regions within clock rows, across the middle *)
(* of the chip, beside the clock column and over block RAM.  Of the        *)
(* devices that are supported the map of tiles to frames is built, with    *)
(* one clock row in each half and one tile to a clock row.                 *)
(***************************************************************************)
EXTENDS BitstreamInvariant, Devices

MCLayout == <<"IOB", "CLB", "BRAM_INT", "BRAM", "CLB", "IOB", "GCLK", "DSP48",
              "BRAM_INT", "BRAM", "IOB">>

MCFrames == [t \in TileTypes |-> IF t \in {"GCLK", "DSP48"} THEN 1
                                 ELSE IF t = "BRAM" THEN 3 ELSE 2]

MCV5 == [family |-> "Virtex5", num_rows |-> 4, frame_height |-> 2, frame_words |-> 2,
         row_layout |-> MCLayout, tile_frames |-> MCFrames, num_blk_types |-> 2,
         block_type |-> [t \in TileTypes |-> IF t = "BRAM" THEN 1 ELSE 0]]

MCV4 == [MCV5 EXCEPT !.family = "Virtex4", !.num_blk_types = 3,
         !.block_type = [t \in TileTypes |-> IF t = "BRAM" THEN 2
                                             ELSE IF t = "BRAM_INT" THEN 1 ELSE 0]]

MCSmall    == {MCV5, MCV4}
MCOnlyV4   == {MCV4}
MCLayouts  == {[d EXCEPT !.num_rows = 2, !.frame_height = 1] : d \in SupportedDevices}
MCDevices  == MCSmall \cup MCLayouts

ASSUME MCDevicesFit == \A d \in SupportedDevices : IsLaidOut(d) /\ AddressesFit(d)

\* Bound: of the supported devices, mapBitstream and no more.
MCMapOnly == dev \in MCSmall \/ phase \in {"mapBitstream", "buildGCLKItoaMap"}

\* The tiles of XDL columns x1 to x2 and clock rows r1 to r2, under every name that the
\* routing fabric has for them.
MCKinds(type) == CASE type = "CLB"      -> <<"INT", "CLBLM">>
                   [] type = "DSP48"    -> <<"INT", "DSP">>
                   [] type = "BRAM_INT" -> <<"INT", "BRAM">>
                   [] OTHER             -> <<"INT", "IOI">>

MCTilesAt(x, y) == LET kinds == MCKinds(XdlTileType(MCV5, x))
                   IN  [i \in DOMAIN kinds |-> [kind |-> kinds[i], x |-> x, y |-> y]]

MCRegion(x1, x2, r1, r2) ==
    LET width == x2 - x1 + 1
        num   == width * (r2 - r1 + 1) * 2
    IN  FlattenSeq([k \in 1 .. num |-> MCTilesAt(x1 + ((k - 1) % width),
                                                 r1 * 2 + ((k - 1) \div width))])

MCRegions == {<<>>, MCRegion(1, 2, 0, 0), MCRegion(1, 3, 1, 2), MCRegion(4, 5, 3, 3),
              MCRegion(5, 7, 2, 3), MCRegion(0, 1, 0, 1)}
MCOneRegion == {MCRegion(1, 3, 1, 2)}

ASSUME MCRegionsAreOn == \A d \in MCSmall, tiles \in MCRegions : RegionIsOn(d, tiles)
=============================================================================
