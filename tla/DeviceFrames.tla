---------------------------- MODULE DeviceFrames ----------------------------
(***************************************************************************)
(* The configuration memory of a device, as class device lays it out: a    *)
(* sequence of frames, first by block type, then by clock row, the top     *)
(* half of the chip before the bottom half, then by column.  A tile has an *)
(* XDL coordinate (x counts the columns that have one, y counts tile rows  *)
(* from the bottom), a frame address and an index into the frames.         *)
(***************************************************************************)
EXTENDS Selection

TileTypes == {"IOB", "GCLK", "CLB", "DSP48", "BRAM", "BRAM_INT", "TRANSCV"}

\* A device, with the members of its class the frames depend on.
IsDevice(d) ==
    /\ d.family \in {"Virtex4", "Virtex5"}
    /\ d.num_rows \in Nat \ {0} /\ d.num_rows % 2 = 0
    /\ d.frame_height \in Nat \ {0}
    /\ d.frame_words \in Nat \ {0}
    /\ d.row_layout \in Seq(TileTypes)
    /\ d.tile_frames \in [TileTypes -> Nat \ {0}]
    /\ d.num_blk_types \in Nat \ {0}
    /\ d.block_type \in [TileTypes -> 0 .. d.num_blk_types - 1]

-----------------------------------------------------------------------------
\* Sizes.

PadFrames == 2   \* at the end of every row

FramesOf(d, tiles) == Total([i \in DOMAIN tiles |-> d.tile_frames[tiles[i]]])

\* The columns whose frames are in one block of the memory, from left to right.
InBlock(d, type)   == {t \in TileTypes : d.block_type[t] = type}
ColumnsOf(d, type) == Selected(d.row_layout, InBlock(d, type))

RowWidth(d, type) == FramesOf(d, ColumnsOf(d, type)) + PadFrames

\* get_cfg_size of one block, and of the first blocks together.
BlockSize(d, type) == RowWidth(d, type) * d.num_rows
BlockStart(d, type) == Total([i \in 1 .. type |-> BlockSize(d, i - 1)])

CfgSize(d) == BlockStart(d, d.num_blk_types)

-----------------------------------------------------------------------------
\* XDL columns: BRAM and clock columns have none of their own.

HaveXdlColumn == TileTypes \ {"BRAM", "GCLK"}

XdlLayout(d) == Selected(d.row_layout, HaveXdlColumn)

ChipWidth(d)  == Len(XdlLayout(d))
ChipHeight(d) == d.num_rows * d.frame_height

XdlTileType(d, x) == XdlLayout(d)[x + 1]

\* The XDL column left of the clock column.
GclkIndex(d) ==
    LET gclk == SelectLastInSeq(d.row_layout, LAMBDA t : t = "GCLK")
    IN  Len(Selected(SubSeq(d.row_layout, 1, gclk), HaveXdlColumn)) - 1

-----------------------------------------------------------------------------
\* Frame addresses.

NoAddress == [type |-> -1, tb |-> -1, row |-> -1, col |-> -1, mna |-> -1]

\* Clock rows count up from the middle of the chip in its top half (tb = 0), down
\* from the middle in its bottom half.
HalfAndRow(d, y) ==
    LET row == y \div d.frame_height
        half == d.num_rows \div 2
    IN  IF row + 1 > half THEN <<0, row - half>> ELSE <<1, half - row - 1>>

XdlBefore(d, x, types) == Len(Selected(SubSeq(XdlLayout(d), 1, x), types))

\* Slip: the clock column is not counted.
TilecoordToMajorUncounted(d, x, y) ==
    LET type == d.block_type[XdlTileType(d, x)]
    IN  [type |-> type, tb |-> HalfAndRow(d, y)[1], row |-> HalfAndRow(d, y)[2],
         col |-> XdlBefore(d, x, InBlock(d, type)), mna |-> 0]

\* tilecoord_to_major: the columns of the tile's block to its left, the clock column,
\* which has no XDL coordinate, among them.
TilecoordToMajor(d, x, y) ==
    LET type == d.block_type[XdlTileType(d, x)]
        gclk == IF x > GclkIndex(d) /\ type = d.block_type["GCLK"] THEN 1 ELSE 0
    IN  [type |-> type, tb |-> HalfAndRow(d, y)[1], row |-> HalfAndRow(d, y)[2],
         col |-> XdlBefore(d, x, InBlock(d, type)) + gclk, mna |-> 0]

\* bramcoord_to_major, of a BRAM_INT column: the address of the BRAM beside it.
BramcoordToMajor(d, x, y) ==
    [TilecoordToMajor(d, x, y) EXCEPT
        !.type = d.block_type["BRAM"],
        !.col  = XdlBefore(d, x, {"BRAM_INT"})]

\* frame_offset, within the block of the address and whatever its minor address.
FrameOffset(d, far) ==
    (IF far.tb = 0 THEN far.row ELSE far.row + d.num_rows \div 2) * RowWidth(d, far.type)
    + FramesOf(d, SubSeq(ColumnsOf(d, far.type), 1, far.col))

-----------------------------------------------------------------------------
\* The device itself: its frames in the order in which it takes them in and steps
\* through addresses, each with the column of the chip and the clock row it
\* configures.  A row ends in frames that configure nothing and have no address.

ClockRows(d) ==
    LET half == d.num_rows \div 2
    IN  [i \in 1 .. half |-> half + i - 1] \o [i \in 1 .. half |-> half - i]

PadFrame == [far |-> NoAddress, column |-> 0, row |-> -1]

ColumnFrames(d, type, row, column) ==
    LET half == d.num_rows \div 2
    IN  [m \in 1 .. d.tile_frames[d.row_layout[column]] |->
            [far |-> [type |-> type,
                      tb   |-> IF row < half THEN 1 ELSE 0,
                      row  |-> IF row < half THEN half - 1 - row ELSE row - half,
                      col  |-> Len(Selected(SubSeq(d.row_layout, 1, column - 1),
                                            InBlock(d, type))),
                      mna  |-> m - 1],
             column |-> column, row |-> row]]

RowFrames(d, type, row) ==
    LET Here(column) == IF d.block_type[d.row_layout[column]] = type
                        THEN ColumnFrames(d, type, row, column) ELSE <<>>
    IN  FlattenSeq([c \in DOMAIN d.row_layout |-> Here(c)])
            \o [i \in 1 .. PadFrames |-> PadFrame]

BlockFrames(d, type) ==
    FlattenSeq([i \in 1 .. d.num_rows |-> RowFrames(d, type, ClockRows(d)[i])])

\* Frame i is DeviceFrame(d)[i].
DeviceFrame(d) ==
    LET all == FlattenSeq([i \in 1 .. d.num_blk_types |-> BlockFrames(d, i - 1)])
    IN  [i \in 0 .. Len(all) - 1 |-> all[i + 1]]

-----------------------------------------------------------------------------
\* Layouts as the devices have them, on which tiles and frames are to agree: one clock column,
\* to the right of a column of the same block, the first; and block RAM, a block of its own, to
\* the right of each column of its interconnect and nowhere else.
IsLaidOut(d) ==
    /\ IsDevice(d)
    /\ \E gclk \in DOMAIN d.row_layout :
          /\ gclk > 1 /\ d.row_layout[gclk - 1] \in HaveXdlColumn
          /\ d.block_type[d.row_layout[gclk - 1]] = 0 /\ d.block_type["GCLK"] = 0
          /\ \A c \in DOMAIN d.row_layout : d.row_layout[c] = "GCLK" <=> c = gclk
    /\ \A c \in DOMAIN d.row_layout :
          /\ d.row_layout[c] = "BRAM_INT" => /\ c + 1 \in DOMAIN d.row_layout
                                             /\ d.row_layout[c + 1] = "BRAM"
          /\ d.row_layout[c] = "BRAM" => c > 1 /\ d.row_layout[c - 1] = "BRAM_INT"
    /\ \A t \in TileTypes \ {"BRAM"} : d.block_type[t] # d.block_type["BRAM"]
=============================================================================
