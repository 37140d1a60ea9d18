------------------------------- MODULE Devices -------------------------------
(***************************************************************************)
(* The devices that there are bitstream objects for, with the frames per   *)
(* column and the block types of their families.  Layouts are put together *)
(* from the groups of columns that they repeat.                            *)
(***************************************************************************)
EXTENDS DeviceFrames

virtex5(rows, layout) ==
    [family |-> "Virtex5", num_rows |-> rows, frame_height |-> 20, frame_words |-> 41,
     row_layout |-> FlattenSeq(layout), num_blk_types |-> 2,
     tile_frames |-> [IOB |-> 54, GCLK |-> 4, CLB |-> 36, DSP48 |-> 28, BRAM |-> 128,
                      BRAM_INT |-> 30, TRANSCV |-> 32],
     block_type |-> [t \in TileTypes |-> IF t = "BRAM" THEN 1 ELSE 0]]

virtex4(rows, layout) ==
    [family |-> "Virtex4", num_rows |-> rows, frame_height |-> 16, frame_words |-> 41,
     row_layout |-> FlattenSeq(layout), num_blk_types |-> 3,
     tile_frames |-> [IOB |-> 30, GCLK |-> 3, CLB |-> 22, DSP48 |-> 21, BRAM |-> 64,
                      BRAM_INT |-> 20, TRANSCV |-> 20],
     block_type |-> [t \in TileTypes |-> IF t = "BRAM" THEN 2
                                         ELSE IF t = "BRAM_INT" THEN 1 ELSE 0]]

\* Groups of columns, from left to right.
CLB(n)  == [i \in 1 .. n |-> "CLB"]
BRAM    == <<"BRAM_INT", "BRAM">>
IOB     == <<"IOB">>
DSP48   == <<"DSP48">>
IOBGCLK == <<"IOB", "GCLK">>
TRANSCV == <<"TRANSCV">>
DSPPair == <<"CLB", "CLB", "DSP48", "CLB", "CLB", "DSP48", "CLB", "CLB">>

xc5vfx70t == virtex5(8,
    <<IOB, CLB(4), BRAM, CLB(6), BRAM, CLB(6), BRAM, CLB(4), IOBGCLK, CLB(4), BRAM, DSPPair,
      BRAM, CLB(4), IOB, CLB(4), BRAM, TRANSCV>>)

xc5vlx50 == virtex5(6,
    <<IOB, CLB(4), BRAM, CLB(2), DSP48, CLB(8), IOBGCLK, CLB(8), BRAM, CLB(4), IOB, CLB(4)>>)

xc5vlx50t == virtex5(6,
    <<IOB, CLB(4), BRAM, CLB(2), DSP48, CLB(8), IOBGCLK, CLB(8), BRAM, CLB(4), IOB, CLB(4),
      BRAM, TRANSCV>>)

xc5vsx95t == virtex5(8,
    <<IOB, CLB(4), BRAM, DSPPair, BRAM, DSPPair, BRAM, DSPPair, BRAM, CLB(2), IOBGCLK,
      CLB(2), BRAM, DSPPair, BRAM, DSPPair, BRAM, CLB(4), IOB, CLB(4), BRAM, TRANSCV>>)

xc5vlx110t == virtex5(8,
    <<IOB, CLB(4), BRAM, CLB(10), BRAM, CLB(2), DSP48, CLB(8), IOBGCLK, CLB(12), BRAM, CLB(10),
      BRAM, CLB(4), IOB, CLB(4), BRAM, TRANSCV>>)

xc4vlx15 == virtex4(4,
    <<IOB, CLB(4), BRAM, CLB(4), DSP48, CLB(4), IOBGCLK, CLB(4), BRAM, CLB(4), BRAM, CLB(4),
      IOB>>)

xc4vlx60 == virtex4(8,
    <<IOB, CLB(4), BRAM, CLB(4), BRAM, CLB(4), DSP48, CLB(14), IOBGCLK, CLB(14), BRAM, CLB(4),
      BRAM, CLB(4), BRAM, CLB(4), IOB>>)

xc4vfx60 == virtex4(8,
    <<TRANSCV, CLB(2), BRAM, CLB(4), IOB, CLB(4), BRAM, CLB(4), BRAM, CLB(4), DSP48, CLB(4),
      BRAM, CLB(4), IOBGCLK, CLB(4), BRAM, CLB(4), DSP48, CLB(4), BRAM, CLB(4), BRAM, CLB(4),
      IOB, CLB(4), BRAM, CLB(2), TRANSCV>>)

\* The names that a bitstream object can be made with.
SupportedDevices == {xc4vlx15, xc4vfx60, xc4vlx60,
                     xc5vlx50, xc5vlx50t, xc5vsx95t, xc5vlx110t, xc5vfx70t}
=============================================================================
