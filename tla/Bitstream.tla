------------------------------ MODULE Bitstream ------------------------------
(***************************************************************************)
(* The bitstream object of genPartialBitstream: it maps the tiles of its   *)
(* device to frames, loads a full bitstream packet by packet, marks the    *)
(* frames of the region's tiles and writes the marked ones, a run of       *)
(* adjoining frames at a time, as a partial bitstream.  A frame's contents *)
(* are where they came from and what reading did to them.                  *)
(***************************************************************************)
EXTENDS DeviceFrames, FiniteSets

CONSTANTS Devices,     \* the devices there are objects for
          Regions,     \* what buildPartial may be given: sequences of tile names
          CutFrames    \* bound: frames that a file cut off within its frame data may hold

ASSUME BitstreamAssumption ==
    /\ \A tiles \in Regions : tiles \in Seq(ToSet(tiles))
    /\ CutFrames \subseteq Nat

VARIABLES
    dev,             \* my_dev
    phase,           \* the call genPartialBitstream is in
    mapped,          \* tiles mapBitstream is through with, then clock rows
    findexToFaddr,   \* frame index -> frame address
    frames,          \* frame_array: frame index -> contents
    packets,         \* of the file being loaded, those not read
    address,         \* the register that the last type 1 packet named
    farRegister,     \* mRegister[eRegFAR]
    loaded,          \* what loadFile returns, and genPartialBitstream drops
    regionTiles,     \* the argument of buildPartial
    unmarked,        \* those of its tiles not looked up yet
    frameBitmap,     \* the frames whose bit is set
    scan,            \* i of writePartialFrames
    foundFrame, contigFrames, startFrame, tempFAR,
    runs,            \* what it wrote: FAR, frame count, frame data; first is history
    sizeField        \* the size in the header of the file written

fileVars  == <<packets, address, farRegister, loaded>>
markVars  == <<regionTiles, unmarked, frameBitmap>>
scanVars  == <<scan, foundFrame, contigFrames, startFrame, tempFAR, runs,
               sizeField>>
mapVars   == <<mapped, findexToFaddr>>
vars      == <<dev, phase, mapVars, frames, fileVars, markVars, scanVars>>

Frame(d) == 0 .. CfgSize(d) - 1

\* Contents of a frame: the frame of the source they are (none: memory as it was
\* allocated), whether their bits were reversed, whether tile pairs were unmangled.
Unread == [of |-> -1, reversed |-> FALSE, unmangled |-> FALSE]
Raw(f) == [of |-> f, reversed |-> FALSE, unmangled |-> FALSE]

-----------------------------------------------------------------------------
\* The frame address register.

Weight(d) == IF d.family = "Virtex5"
             THEN [mna |-> 1, col |-> 2^7, row |-> 2^15, tb |-> 2^20, type |-> 2^21]
             ELSE [mna |-> 1, col |-> 2^6, row |-> 2^14, tb |-> 2^22, type |-> 2^19]

FieldSize(d) == IF d.family = "Virtex5"
                THEN [mna |-> 2^7, col |-> 2^8, row |-> 2^5, tb |-> 2, type |-> 2^2]
                ELSE [mna |-> 2^5, col |-> 2^8, row |-> 2^5, tb |-> 2, type |-> 2^3]

StructToFar(d, a) ==
    LET w == Weight(d)
    IN  a.mna + a.col * w.col + a.row * w.row + a.tb * w.tb + a.type * w.type

FarToStruct(d, word) ==
    [field \in DOMAIN NoAddress |-> (word \div Weight(d)[field]) % FieldSize(d)[field]]

\* A device whose addresses fit the fields of the register, the minor address with the bit
\* above its own.
AddressesFit(d) ==
    /\ \A t \in TileTypes : d.tile_frames[t] <= Weight(d).col
    /\ Len(d.row_layout) <= FieldSize(d).col
    /\ d.num_rows \div 2 <= FieldSize(d).row
    /\ d.num_blk_types <= FieldSize(d).type

ASSUME DevicesAssumption == \A d \in Devices : IsLaidOut(d) /\ AddressesFit(d)

-----------------------------------------------------------------------------
\* mapBitstream.

\* Frames that have an address keep it: the tiles of a column share its frames.
BuildItoaMap(map, far, start, num) ==
    IF map[start].type # -1 THEN map
    ELSE [f \in DOMAIN map |-> IF f \in start .. start + num - 1
                               THEN [far EXCEPT !.mna = f - start] ELSE map[f]]

TileStart(d, x, y) == LET far == TilecoordToMajor(d, x, y)
                      IN  BlockStart(d, far.type) + FrameOffset(d, far)
BramStart(d, x, y) == LET far == BramcoordToMajor(d, x, y)
                      IN  BlockStart(d, far.type) + FrameOffset(d, far)

\* The k-th tile, x running fastest, and the BRAM beside a BRAM_INT tile.
MapTile(d, map, k) ==
    LET x == k % ChipWidth(d)
        y == k \div ChipWidth(d)
        tile == BuildItoaMap(map, TilecoordToMajor(d, x, y), TileStart(d, x, y),
                             d.tile_frames[XdlTileType(d, x)])
    IN  IF XdlTileType(d, x) # "BRAM_INT" THEN tile
        ELSE BuildItoaMap(tile, BramcoordToMajor(d, x, y), BramStart(d, x, y),
                          d.tile_frames["BRAM"])

\* buildGCLKItoaMap, for one clock row: the frames after those of the tile to the left
\* of the clock column, one column on.
MapClock(d, map, row) ==
    LET left  == TilecoordToMajor(d, GclkIndex(d), row * d.frame_height)
        start == FrameOffset(d, left) + d.tile_frames[XdlTileType(d, GclkIndex(d))]
    IN  [f \in DOMAIN map |->
            IF f \in start .. start + d.tile_frames["GCLK"] - 1
            THEN [left EXCEPT !.col = @ + 1, !.mna = f - start] ELSE map[f]]

-----------------------------------------------------------------------------
\* The file: what bitgen writes for the whole device, without compression.

Other            == [header |-> "other"]   \* dummies, syncs, NOPs, reserved
Register(r, v)   == [header |-> "type1", register |-> r, values |-> v]
Data(first, num) == [header |-> "type2", first |-> first, num |-> num]

FullBitstream(d) ==
    <<Other, Register("CMD", <<7>>), Register("FAR", <<0>>), Register("CMD", <<1>>), Other,
      Register("FDRI", <<>>), Data(0, CfgSize(d)), Register("CMD", <<3>>), Other>>

-----------------------------------------------------------------------------
Init ==
    /\ dev \in Devices
    /\ phase = "mapBitstream"
    /\ mapped = 0
    /\ findexToFaddr = [f \in Frame(dev) |-> NoAddress]
    /\ frames = [f \in Frame(dev) |-> Unread]
    /\ packets = <<>> /\ address = "CRC" /\ farRegister = 0 /\ loaded = FALSE
    /\ regionTiles = <<>> /\ unmarked = <<>> /\ frameBitmap = {}
    /\ scan = 0 /\ foundFrame = FALSE /\ contigFrames = 0 /\ startFrame = 0
    /\ tempFAR = 0 /\ runs = <<>> /\ sizeField = 0

MapNextTile ==
    /\ phase = "mapBitstream" /\ mapped < ChipWidth(dev) * ChipHeight(dev)
    /\ findexToFaddr' = MapTile(dev, findexToFaddr, mapped)
    /\ mapped' = mapped + 1
    /\ UNCHANGED <<dev, phase, frames, fileVars, markVars, scanVars>>

AllTilesMapped ==
    /\ phase = "mapBitstream" /\ mapped = ChipWidth(dev) * ChipHeight(dev)
    /\ mapped' = 0
    /\ phase' = "buildGCLKItoaMap"
    /\ UNCHANGED <<dev, findexToFaddr, frames, fileVars, markVars, scanVars>>

MapNextClockRow ==
    /\ phase = "buildGCLKItoaMap" /\ mapped < dev.num_rows
    /\ findexToFaddr' = MapClock(dev, findexToFaddr, mapped)
    /\ mapped' = mapped + 1
    /\ phase' = IF mapped' = dev.num_rows THEN "loadFile" ELSE phase
    /\ UNCHANGED <<dev, frames, fileVars, markVars, scanVars>>

\* readHeader: a header that is not as expected is remembered, and read past.
ReadHeader(asExpected) ==
    /\ phase = "loadFile"
    /\ loaded' = asExpected
    /\ packets' = FullBitstream(dev)
    /\ phase' = "readPackets"
    /\ UNCHANGED <<dev, mapVars, frames, address, farRegister, markVars, scanVars>>

SkipPacket ==
    /\ phase = "readPackets" /\ packets # <<>> /\ Head(packets).header = "other"
    /\ packets' = Tail(packets)
    /\ UNCHANGED <<dev, phase, mapVars, frames, address, farRegister, loaded,
                   markVars, scanVars>>

\* A write of no words selects the register for the type 2 packet that follows.
ReadRegister ==
    /\ phase = "readPackets" /\ packets # <<>> /\ Head(packets).header = "type1"
    /\ LET p == Head(packets)
       IN  /\ address' = p.register
           /\ farRegister' = IF p.register = "FAR" /\ p.values # <<>>
                             THEN Last(p.values) ELSE farRegister
    /\ packets' = Tail(packets)
    /\ UNCHANGED <<dev, phase, mapVars, frames, loaded, markVars, scanVars>>

\* Where the frames of a packet go, the minor address and the block's start left out.
LoadsAt == FrameOffset(dev, FarToStruct(dev, farRegister))

\* Slip: the Virtex-4 way for all.
PreparedAlways(f, far) == [of |-> f, reversed |-> far.tb = 0, unmangled |-> TRUE]

\* Virtex-4 frames are turned and unmangled as soon as the packet is in.
Prepared(f, far) ==
    IF dev.family = "Virtex5" THEN Raw(f)
    ELSE [of |-> f, reversed |-> far.tb = 0, unmangled |-> TRUE]

WriteFrameData ==
    /\ phase = "readPackets" /\ packets # <<>> /\ Head(packets).header = "type2"
    /\ address = "FDRI"
    /\ LET p == Head(packets)
       IN  frames' = [f \in DOMAIN frames |->
                         IF f \in LoadsAt .. LoadsAt + p.num - 1
                         THEN Prepared(p.first + f - LoadsAt, findexToFaddr[f])
                         ELSE frames[f]]
    /\ packets' = Tail(packets)
    /\ UNCHANGED <<dev, phase, mapVars, address, farRegister, loaded, markVars, scanVars>>

\* The file ends early: the stream throws, loadFile returns false, and whatever was
\* read before stays.
EndOfFile ==
    /\ phase = "readPackets" /\ packets # <<>>
    /\ loaded' = FALSE
    /\ IF Head(packets).header = "type2"
       THEN \E num \in CutFrames :
               /\ num < Head(packets).num
               /\ frames' = [f \in DOMAIN frames |->
                               IF f \in LoadsAt .. LoadsAt + num - 1
                               THEN Raw(Head(packets).first + f - LoadsAt) ELSE frames[f]]
       ELSE frames' = frames
    /\ packets' = <<>>
    /\ UNCHANGED <<dev, phase, mapVars, address, farRegister, markVars, scanVars>>

-----------------------------------------------------------------------------
\* buildPartial.

BuildPartial(tiles) ==
    /\ phase = "readPackets" /\ packets = <<>>
    /\ regionTiles' = tiles
    /\ unmarked' = tiles
    /\ phase' = "buildPartial"
    /\ UNCHANGED <<dev, mapVars, frames, fileVars, frameBitmap, scanVars>>

\* The kinds of names that mapBitstream enters in tileMap for a tile.
MappedKinds(type) ==
    CASE type = "CLB"      -> {"INT", "CLB", "CLBLL", "CLBLM"}
      [] type = "DSP48"    -> {"INT", "DSP"}
      [] type = "BRAM_INT" -> {"INT", "BRAM"}
      [] OTHER             -> {"INT"}

InTileMap(d, t) == /\ t.x \in 0 .. ChipWidth(d) - 1
                   /\ t.y \in 0 .. ChipHeight(d) - 1
                   /\ t.kind \in MappedKinds(XdlTileType(d, t.x))

TileFrames(d, t) ==
    IF t.kind = "BRAM"
    THEN BramStart(d, t.x, t.y) .. BramStart(d, t.x, t.y) + d.tile_frames["BRAM"] - 1
    ELSE TileStart(d, t.x, t.y) ..
            TileStart(d, t.x, t.y) + d.tile_frames[XdlTileType(d, t.x)] - 1

\* The clock column's frames in the tile's clock row.
ClockFrames(d, t) ==
    LET left  == TilecoordToMajor(d, GclkIndex(d), t.y)
        start == FrameOffset(d, [left EXCEPT !.col = @ + 1])
    IN  start .. start + d.tile_frames["GCLK"] - 1

\* Slip: the clock column is left as it is.
MarkedByTileOnly(d, t) == IF InTileMap(d, t) THEN TileFrames(d, t) ELSE {}

\* A name that is not in the map marks nothing.
MarkedBy(d, t) == IF InTileMap(d, t) THEN TileFrames(d, t) \cup ClockFrames(d, t) ELSE {}

MarkTile ==
    /\ phase = "buildPartial" /\ unmarked # <<>>
    /\ frameBitmap' = frameBitmap \cup MarkedBy(dev, Head(unmarked))
    /\ unmarked' = Tail(unmarked)
    /\ UNCHANGED <<dev, phase, mapVars, frames, fileVars, regionTiles, scanVars>>

StartWriting ==
    /\ phase = "buildPartial" /\ unmarked = <<>>
    /\ phase' = "writeBitstream"
    /\ UNCHANGED <<dev, mapVars, frames, fileVars, markVars, scanVars>>

-----------------------------------------------------------------------------
\* writePartialFrames, one frame at a time.

\* Slip: one frame too many.
ScanningPast == phase = "writeBitstream" /\ scan <= CfgSize(dev)

Scanning == phase = "writeBitstream" /\ scan < CfgSize(dev)

OpenRun ==
    /\ Scanning /\ ~foundFrame /\ scan \in frameBitmap
    /\ foundFrame' = TRUE
    /\ startFrame' = scan
    /\ contigFrames' = contigFrames + 1
    /\ tempFAR' = StructToFar(dev, findexToFaddr[scan])
    /\ scan' = scan + 1
    /\ UNCHANGED <<dev, phase, mapVars, frames, fileVars, markVars, runs, sizeField>>

ExtendRun ==
    /\ Scanning /\ foundFrame /\ scan \in frameBitmap
    /\ contigFrames' = contigFrames + 1
    /\ scan' = scan + 1
    /\ UNCHANGED <<dev, phase, mapVars, frames, fileVars, markVars, foundFrame,
                   startFrame, tempFAR, runs, sizeField>>

\* The run collected, as it goes into the file.
Run == [far   |-> tempFAR,
        first |-> startFrame,
        count |-> contigFrames,
        data  |-> [k \in 1 .. contigFrames |-> frames[startFrame + k - 1]]]

\* Slip: the count goes on into the next run.
CloseRunCounting ==
    /\ Scanning /\ foundFrame /\ scan \notin frameBitmap
    /\ foundFrame' = FALSE
    /\ runs' = Append(runs, Run)
    /\ scan' = scan + 1
    /\ UNCHANGED <<dev, phase, mapVars, frames, fileVars, markVars, contigFrames,
                   startFrame, tempFAR, sizeField>>

CloseRun ==
    /\ Scanning /\ foundFrame /\ scan \notin frameBitmap
    /\ foundFrame' = FALSE
    /\ runs' = Append(runs, Run)
    /\ contigFrames' = 0
    /\ scan' = scan + 1
    /\ UNCHANGED <<dev, phase, mapVars, frames, fileVars, markVars, startFrame, tempFAR,
                   sizeField>>

PassFrame ==
    /\ Scanning /\ ~foundFrame /\ scan \notin frameBitmap
    /\ scan' = scan + 1
    /\ UNCHANGED <<dev, phase, mapVars, frames, fileVars, markVars, foundFrame,
                   contigFrames, startFrame, tempFAR, runs, sizeField>>

\* Words around the runs, and before the data of each.
FixedWords == IF dev.family = "Virtex5" THEN 20 + 113 ELSE 1174 + 141
WordsOf(run) == 7 + run.count * dev.frame_words
FileWords(rs) == FixedWords + Total([k \in DOMAIN rs |-> WordsOf(rs[k])])

\* A run still open is written; then the trailer, and on Virtex-5 the size.
EndScan ==
    /\ phase = "writeBitstream" /\ scan = CfgSize(dev)
    /\ runs' = IF foundFrame THEN Append(runs, Run) ELSE runs
    /\ sizeField' = IF dev.family = "Virtex5" THEN 4 * FileWords(runs') ELSE sizeField
    /\ phase' = "closed"
    /\ UNCHANGED <<dev, mapVars, frames, fileVars, markVars, scan, foundFrame,
                   contigFrames, startFrame, tempFAR>>

Next ==
    \/ MapNextTile \/ AllTilesMapped \/ MapNextClockRow
    \/ \E asExpected \in BOOLEAN : ReadHeader(asExpected)
    \/ SkipPacket \/ ReadRegister \/ WriteFrameData \/ EndOfFile
    \/ \E tiles \in Regions : BuildPartial(tiles)
    \/ MarkTile \/ StartWriting
    \/ OpenRun \/ ExtendRun \/ CloseRun \/ PassFrame \/ EndScan

Spec == Init /\ [][Next]_vars

-----------------------------------------------------------------------------
\* Properties.

Contents == [of : Int, reversed : BOOLEAN, unmangled : BOOLEAN]

\* Types.  Every bit set and every frame written is one of the device's.
TypeOK ==
    /\ dev \in Devices
    /\ phase \in {"mapBitstream", "buildGCLKItoaMap", "loadFile", "readPackets",
                  "buildPartial", "writeBitstream", "closed"}
    /\ mapped \in Nat
    /\ DOMAIN findexToFaddr = Frame(dev) /\ DOMAIN frames = Frame(dev)
    /\ \A f \in Frame(dev) : frames[f] \in Contents
    /\ loaded \in BOOLEAN /\ farRegister \in Nat
    /\ frameBitmap \subseteq Frame(dev)
    /\ scan \in 0 .. CfgSize(dev) /\ contigFrames \in 0 .. CfgSize(dev)
    /\ foundFrame \in BOOLEAN /\ startFrame \in Frame(dev) /\ tempFAR \in Nat
    /\ \A k \in DOMAIN runs : runs[k].first \in Frame(dev)
    /\ sizeField \in Nat

\* The map that three loops build, from coordinates that skip some columns of the chip,
\* gives every frame the address under which the device knows it, and the frames that
\* pad a row none; and the words for these addresses, whose fields are or-ed together
\* without a mask, tell them all apart.
MapIsDeviceOrder ==
    phase = "loadFile" =>
        LET device    == DeviceFrame(dev)
            addressed == {f \in DOMAIN device : device[f] # PadFrame}
        IN  /\ DOMAIN device = DOMAIN findexToFaddr
            /\ \A f \in DOMAIN device : findexToFaddr[f] = device[f].far
            /\ Cardinality({StructToFar(dev, findexToFaddr[f]) : f \in addressed}) =
                  Cardinality(addressed)

\* The chip's column for the XDL column x: the one with x such columns to its left.
XdlColumn(d, x) ==
    CHOOSE c \in DOMAIN d.row_layout :
        /\ d.row_layout[c] \in HaveXdlColumn
        /\ Len(Selected(SubSeq(d.row_layout, 1, c), HaveXdlColumn)) = x + 1

\* What a partial bitstream is to configure: the columns of the region's tiles in their
\* clock rows, block RAM contents where the region has block RAMs, and the clock column
\* in the same rows.
TileKinds == {"INT", "CLB", "CLBLL", "CLBLM", "DSP", "BRAM"}
RegionFrames(d, tiles) ==
    LET device == DeviceFrame(d)
        Column(t) == XdlColumn(d, t.x) + (IF t.kind = "BRAM" THEN 1 ELSE 0)
    IN  {f \in DOMAIN device :
            /\ device[f] # PadFrame
            /\ \E k \in DOMAIN tiles :
                  /\ tiles[k].kind \in TileKinds
                  /\ device[f].row = tiles[k].y \div d.frame_height
                  /\ \/ device[f].column = Column(tiles[k])
                     \/ d.row_layout[device[f].column] = "GCLK"}

\* A region of the device: its map of names has each of these tiles.
RegionIsOn(d, tiles) ==
    \A k \in DOMAIN tiles : tiles[k].kind \in TileKinds => InTileMap(d, tiles[k])

\* A device that is sent the file: it starts where its address register points and
\* steps on frame by frame.
DeviceWrites ==
    LET device == DeviceFrame(dev)
        At(far) == CHOOSE f \in DOMAIN device :
                       device[f] # PadFrame /\ StructToFar(dev, device[f].far) = far
    IN  UNION {{[frame |-> At(runs[k].far) + j - 1, contents |-> runs[k].data[j]]
                    : j \in DOMAIN runs[k].data} : k \in DOMAIN runs}

\* From tile names to frame indices to runs to addresses and back: a device that loads
\* the partial bitstream configures exactly the frames of the region and of its clock,
\* also when the full one could not be parsed.
DeviceGetsRegion ==
    phase = "closed" => {w.frame : w \in DeviceWrites} = RegionFrames(dev, regionTiles)

\* What it configures them with is the full bitstream's own data for these frames, if
\* loading that went well.
FramesAreSource ==
    phase = "closed" /\ loaded => \A w \in DeviceWrites : w.contents = Raw(w.frame)

\* On Virtex-5, that is.
FramesAreSourceOnV5 == dev.family = "Virtex5" => FramesAreSource

\* Frames in the runs written and in the one being collected.
RunFrames(run) == run.first .. run.first + run.count - 1
Written  == UNION {RunFrames(runs[k]) : k \in DOMAIN runs}
Awaiting == IF foundFrame THEN startFrame .. scan - 1 ELSE {}

\* At any point of the scan the runs written and the run collected hold the marked
\* frames passed, and no others.
ScanKeepsBitmap == Written \cup Awaiting = frameBitmap \cap (0 .. scan - 1)

\* Runs come in the order of the frames and at least one frame apart: no frame is
\* written twice, and no two addresses are written where one would do.
RunsAreApart ==
    \A k, l \in DOMAIN runs :
        k < l => runs[k].first + runs[k].count < runs[l].first
=============================================================================
