------------------------- MODULE BitstreamInvariant -------------------------
(***************************************************************************)
(* The inductive invariants behind the safety properties of the bitstream  *)
(* object, one for each of its stages: mapping, loading, marking, and the  *)
(* scan with the runs that it writes.                                      *)
(***************************************************************************)
EXTENDS Bitstream

\* The inductive invariant behind ScanKeepsBitmap and RunsAreApart.

NothingScanned == /\ scan = 0 /\ ~foundFrame /\ contigFrames = 0
                  /\ runs = <<>>

ScanTypes ==
    /\ dev \in Devices
    /\ scan \in 0 .. CfgSize(dev)
    /\ foundFrame \in BOOLEAN
    /\ contigFrames \in Nat /\ startFrame \in Nat
    /\ runs \in Seq(ToSet(runs))
    /\ \A k \in DOMAIN runs : runs[k].first \in Nat /\ runs[k].count \in Nat

\* The count is that of the frames since the start, or zero; and the runs written end
\* before the run collected, or before the scan.
RunInProgress ==
    IF foundFrame
    THEN /\ startFrame < scan /\ contigFrames = scan - startFrame
         /\ \A k \in DOMAIN runs : runs[k].first + runs[k].count < startFrame
    ELSE /\ contigFrames = 0
         /\ \A k \in DOMAIN runs : runs[k].first + runs[k].count < scan

\* The scan only starts when the bitmap is complete, and until then has left no trace;
\* while it runs, its count and its runs fit; and both properties hold.
ScanInvariant ==
    /\ ScanTypes
    /\ phase \notin {"writeBitstream", "closed"} => NothingScanned
    /\ phase = "writeBitstream" => RunInProgress
    /\ ScanKeepsBitmap
    /\ RunsAreApart

-----------------------------------------------------------------------------
\* The inductive invariants behind MapIsDeviceOrder, DeviceGetsRegion and FramesAreSource.

\* A column of the chip in a clock row is a cell.  Those whose frames the first n tiles and
\* the first n clock rows have mapped.
CellsOfTile(d, k) ==
    LET c   == XdlColumn(d, k % ChipWidth(d))
        row == (k \div ChipWidth(d)) \div d.frame_height
    IN  {<<c, row>>} \cup (IF d.row_layout[c] = "BRAM_INT" THEN {<<c + 1, row>>} ELSE {})
TileCells(d, n)  == UNION {CellsOfTile(d, k) : k \in 0 .. n - 1}
ClockCells(d, n) == {c \in DOMAIN d.row_layout : d.row_layout[c] = "GCLK"} \X (0 .. n - 1)

\* The map that has the addresses of these cells.
AddressesOf(d, cells) ==
    LET device == DeviceFrame(d)
    IN  [f \in Frame(d) |->
            IF device[f] # PadFrame /\ <<device[f].column, device[f].row>> \in cells
            THEN device[f].far ELSE NoAddress]

\* At any point of its loops the map has the device's addresses for the cells visited.
MapInvariant ==
    LET tiles == ChipWidth(dev) * ChipHeight(dev)
    IN  /\ dev \in Devices
        /\ phase = "mapBitstream" =>
              /\ mapped \in 0 .. tiles
              /\ findexToFaddr = AddressesOf(dev, TileCells(dev, mapped))
        /\ phase = "buildGCLKItoaMap" =>
              /\ mapped \in 0 .. dev.num_rows - 1
              /\ findexToFaddr =
                    AddressesOf(dev, TileCells(dev, tiles) \cup ClockCells(dev, mapped))
        /\ phase \notin {"mapBitstream", "buildGCLKItoaMap"} =>
              findexToFaddr =
                 AddressesOf(dev, TileCells(dev, tiles) \cup ClockCells(dev, dev.num_rows))

\* Once the frame data is read, it is where the source has it, on Virtex-5.
SourceIsIn == dev.family = "Virtex5" => \A f \in Frame(dev) : frames[f] = Raw(f)

\* What is left to read is an end of the file; and reading that is not cut off, and went
\* past the frame data, has read it all.
LoadInvariant ==
    /\ dev \in Devices
    /\ loaded \in BOOLEAN /\ farRegister = 0
    /\ DOMAIN frames = Frame(dev) /\ \A f \in Frame(dev) : frames[f] \in Contents
    /\ phase = "readPackets" =>
          \E k \in 1 .. 10 : /\ packets = SubSeq(FullBitstream(dev), k, 9)
                             /\ k > 7 /\ loaded => SourceIsIn
    /\ phase \in {"buildPartial", "writeBitstream", "closed"} /\ loaded => SourceIsIn

\* The frames marked, and those that the tiles left will mark, are the whole region's.
MarksOf(d, tiles) == UNION {MarkedBy(d, tiles[k]) : k \in DOMAIN tiles}
MarkInvariant ==
    /\ dev \in Devices
    /\ phase \in {"buildPartial", "writeBitstream", "closed"} =>
          /\ unmarked \in Seq(ToSet(regionTiles))
          /\ frameBitmap \cup MarksOf(dev, unmarked) = MarksOf(dev, regionTiles)
    /\ phase \in {"writeBitstream", "closed"} => unmarked = <<>>
    /\ phase \notin {"buildPartial", "writeBitstream", "closed"} => frameBitmap = {}

\* A run has the address, and the data, of its frames as they are now.
IsOfItsFrames(run) ==
    /\ run.first \in frameBitmap /\ run.count \in Nat \ {0}
    /\ run.far = StructToFar(dev, findexToFaddr[run.first])
    /\ run.data = [k \in 1 .. run.count |-> frames[run.first + k - 1]]

RunsInvariant ==
    /\ phase = "writeBitstream" /\ foundFrame =>
          /\ startFrame \in frameBitmap
          /\ tempFAR = StructToFar(dev, findexToFaddr[startFrame])
    /\ \A k \in DOMAIN runs : IsOfItsFrames(runs[k])
    /\ phase = "closed" => scan = CfgSize(dev) /\ Awaiting \subseteq Written
    /\ contigFrames \in 0 .. CfgSize(dev) /\ startFrame \in Frame(dev)
    /\ tempFAR \in Nat /\ sizeField \in Nat

\* All of them.
IInv == MapInvariant /\ LoadInvariant /\ MarkInvariant /\ ScanInvariant /\ RunsInvariant
=============================================================================
