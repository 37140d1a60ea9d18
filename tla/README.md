# OpenPR, specified and verified

OpenPR (`src/src/openpr`) builds partially reconfigurable designs for Xilinx
Virtex-4 and Virtex-5 devices. Its program `anticore` runs between the vendor's tools: it
keeps the static design's logic and wires out of a reconfigurable region, keeps the
partial design's inside it, places the bus macros that join them, merges their clock
trees, and cuts a partial bitstream out of a full one.

This directory specifies that program in TLA+. TLC checks the specifications on small
devices, and TLAPS proves the theorems listed below for devices of any size.

## 1. The system

### Components

| Component | Source | State | Operations |
|---|---|---|---|
| project flow driver | `AntiCore.cpp`, `anticore/OpenPR.*` | the `.proj`/`.opr` project file: region, bus macro names, names of nets and files | eight commands of the project-file mode, each a fixed sequence of methods of `openPR` |
| region and mask manager | `anticore/AntiCoreBase.cpp` 26-400, 487-508, 641-776 | region vertices, mode, mask | read from `AREA_GROUP` lines, set from a project, expand, shrink, validate against clock regions, tiles inside |
| placement constraints | `AntiCoreBase.cpp` 116-143, 514-620, `ProhibitRange.hpp` | site map, ranges gathered and not written | `buildSiteMap`, `genPlaceConstraints`, `genProhibitConstraints` |
| bus macro placement | `AntiCoreV4.cpp`, `AntiCoreV5.cpp` | macro tiles, map of macro names | `genMacroPlacement`, `placeMacro` |
| route blocker | `AntiCoreBase.cpp` 782-1156 | pips of the blocking net | `blockRoutes`, `blockTileRoutes`, `blockTileRoutesPartial`, `checkEfficacy` |
| clock trees and XDL net lists | `netlist/*.cpp`, `AntiCoreBase.cpp` 1164-1197 | nets, pips, pins | read, merge, print |
| partial bitstreams | `bitstream/bitstream.cpp`, `v4_bitstream.cpp`, `v5_bitstream.cpp`, `device.cpp` | frames, frame addresses, tile map, frame bitmap | map tiles to frames, load, mark, write |
| command-line mode | `AntiCore.cpp` 57-80, `AntiCoreBase.cpp` 26-56, 404-451 | none from one process to the next but `system.ucf` and the blocked design | `s`: `blockSites`; `p`: `genPlaceConstraints`; `r`, `rp`: `importXDL`, `blockRoutes`, once or twice |
| device tables | `v4_devices.*`, `v5_devices.*`, `virtex4.*`, `virtex5.*` | constants | none |
| Torc wrappers, points, example designs | `XdlImporter.hpp`, `OpenPRTree.*`, `Point.cpp`, `res/` | none of their own | none |

### Interaction

`main` makes one `openPR` object, restores it from a project file, calls the methods of one
command and, if they returned true, saves it under the command's own `.opr` name. `openPR`
owns one `AntiCoreV4` or `AntiCoreV5`, which it tells the region and the mode, and which
looks tiles, sites and wires up in Torc's device database. Several processes of one build
communicate only through files, and those are the shared state of the system:

- the UCF: the user's `AREA_GROUP` lines are read, and `INST ... LOC` and `CONFIG PROHIBIT`
  lines are appended, never replaced;
- the PCF, which the vendor's `map` writes anew and `genLockConstraints` appends to;
- the `.opr` files, of which any may be given to any command;
- XDL designs and bit files.

### Hard behaviours

The program has one thread. What is hard to test is elsewhere:

- **Sequences of processes.** A command may run on any earlier project file, twice,
  after an edit of the region, or after a process that failed or was killed with its lines
  half appended.
- **State that is computed once.** The site map is built on first use from the
  region of that moment; the mask is only rebuilt by a change of the region, not of the
  mode; building the site map moves the region itself.
- **Edges.** Expansion is clipped at the edges of the device, shrinking is not; an upper
  bound may be one past the last tile; ranges are written on entering the next column.
- **Order.** Whether a prohibit range covers all its sites depends on the order of sites in
  the database. Runs of frames depend on the order of the bitmap.
- **Translations that must agree.** Tile name to coordinates, to frame index, to frame
  address and back, over columns that one numbering counts and the other does not.
- **The order of a constructor**: the mask is set up before the region it is set up from is moved.
- **Two calls of one method**: `rp` blocks routes twice on one object, with what the first call
  left in the database.
- **Failures that are dropped**: of `validateRegion`, `loadFile`, `writeBitstream`, of a
  blocking net that is not found.

`PROJECT.json` lists these hazards one by one, each with its line and the properties that
cover it. Where the checked properties hold whatever becomes of a hazard (pins of a copied net,
a clock net listed twice, a line too long, macros that find no tile) it has a note instead.

### What makes each component correct

- *Flow driver*: regions in project files are valid ones; re-runs agree with earlier
  runs; each command finds mask and site map of its own region; macros placed are macros
  locked; no command is silently without effect.
- *Regions*: they stay on the grid; expansion is undone.
- *Placement constraints*: every site to keep free is in a range, and in the file for as far as
  the code promises it; no macro's site is.
- *Bus macros*: on the region's edge, one place for each name.
- *Route blocker*: no wire that crosses the boundary stays usable; one that does not is
  left alone.
- *Net lists*: reading ends on every whole file; every clock net arrives with all its pips, once;
  half a statement is never merged.
- *Bitstreams*: the device configures the region's frames and no others, with their data.
- *Command-line mode*: it works on the rectangle that was asked for, in whatever order the sites
  come.

## 2. Modules

| Module | Models |
|---|---|
| `SiteRange` | sites, ranges of sites and their update (`prohibitRange`, and the step of `genPlaceConstraints` for one site) |
| `Fabric` | the tile grid and the arithmetic on regions and masks |
| `AntiCore` | one `AntiCoreV4` or `AntiCoreV5` object: its state and methods |
| `OpenPR` | the project flow: `AntiCore` composed with processes and the files they share |
| `OpenPRInvariant` | the inductive invariant of the flow |
| `MCOpenPR` | devices and regions for TLC |
| `CommandLine`, `MCCommandLine` | `main` without a project file: one `AntiCore` object per process, its constructor and one operation; and a device for it |
| `Selection` | parts and sums of sequences, in a form that can be reasoned about |
| `DeviceFrames` | configuration memory: frame indices, addresses, tile coordinates |
| `Devices` | the tables of the eight supported devices |
| `Bitstream`, `MCBitstream` | the bitstream object of `genPartialBitstream`, and devices for it |
| `BitstreamInvariant` | its inductive invariants, one for each stage |
| `NetList` | XDL lines, pins, pips, nets, net lists, their operations and their types |
| `ClockMerge`, `MCClockMerge` | one call of `mergeClockTree`: both files read line by line, the merge, the result; and small designs for it |
| `Blocking` | what blocking a boundary promises, in any order |
| `RouteBlocker`, `MCRouteBlocker` | `blockRoutes`, one call or the two of `rp`, and `checkEfficacy`, wire by wire, which implement `Blocking`; and a small device for them |
| `Induction` | lemmas: induction over the naturals by least elements, greatest indices, the prefixes of a flattened sequence |
| `AntiCoreProofs` | lemmas on regions, and on `genPlaceConstraints`: what the ranges of a tile, of a column and of a region cover |
| `DeviceFramesProofs` | lemmas on the frames of any device: where those of a column begin, and where the arithmetic of tiles finds them |
| `OpenPRProofs`, `CommandLineProofs`, `BitstreamProofs`, `RouteBlockerProofs`, `ClockMergeProofs` | theorems and the lemmas they need |

`OpenPR` and `CommandLine` compose `AntiCore` with processes and files, each for one mode of the
program: both call the same operators for regions, masks, site maps and ranges. `Bitstream`,
`ClockMerge` and `RouteBlocker` each look into one method that is a single step of `OpenPR` (and,
the last, of `CommandLine`); they are not composed with it.

The map from definitions to source lines is in `PROJECT.json`. A definition whose
comment begins with "Slip:" is not part of the model: it is a plausible mistake in the
definition after it, kept so that each property can be shown to notice one.

### How the flow model corresponds to the code

- `Launch` is `main` up to its choice of a command, `Finish` the save after it.
  `Steps` gives the methods a command calls, in their order, and `at` the one
  it is at. Each method is an action, and longer ones are several: reading a UCF is
  `OpenUcf`, one `ReadAreaGroup` per line and `CloseUcf`; `genPlaceConstraints` is
  `StartColumns`, one `BlockColumn` per column and `EndColumns`; `placeMacros` is
  `PlaceMacros`, and then `LinkMacros` or `LinkFails`. A kill can thus come between any two
  appends that matter.
- `Error` is every way to end without a save: an exception that becomes `exit(-1)`, or a
  method that returns false at once. `LinkFails` is the one failure after which a command
  goes on.
- `region`, `mode`, `mask`, `siteMap`, `macroTiles`, `busMacroMap`, `prohibitedSites` are the
  members of `AntiCoreBase` with these names. The site map is the set of its tiles, since a
  tile always comes with all its sites. The mask is uninitialized until a region is set, and
  has a value of its own for that.
- `MacroPlacement` is the virtual call: `MacroPlacementV5` and `MacroPlacementV4` are the two
  `genMacroPlacement`.
- `project` has the members of `openPR` that are serialized and change. `netWraps` stands
  for the text of `passThroughNetName` by the number of times a prefix and a suffix were put
  around it, which `BuildBlockingNet` does once more. `placed` is history.
- Where `genPlaceConstraints` runs past the grid, the look-up may yield any of `StrayTiles`
  or a tile without sites: the code asks Torc for the tile at coordinates that do not exist.

### How the command-line model corresponds to the code

- `Invoke` is `main` up to the object: whatever the arguments are, `system.ucf` is opened for
  output first, and so `InvokeOtherMode` (help, wrong arguments, a project file) empties it too.
- `Construct` is the constructor, in its order: the region, expanded to its interconnect column;
  the mask, from that region; the site map, which moves the region to and fro.
- `BlockSite` is one turn of the loop of `blockSites` for a site of the region, and takes any that
  it has not been at: the loop goes over all sites of the database in the order of their indices,
  which this code does not determine.
- `StartColumns`, `BlockColumn` and `EndColumns` are `genPlaceConstraints` as in the flow.
- `BlockRoutes` and `BlockRoutesAgain` note which mode and mask the loops of `RouteBlocker` run with.
- `Kill` may come at any point, and is also the ways the process dies by itself.

### How the bitstream model corresponds to the code

- `MapNextTile` is one turn of the two loops of `mapBitstream`, with `mapBRAM`;
  `MapNextClockRow` one of `buildGCLKItoaMap`.
- `ReadHeader`, `SkipPacket`, `ReadRegister` and `WriteFrameData` are the reading loop, by
  packets; `EndOfFile` is the exception of a stream that ends, anywhere, also within the
  data of a packet.
- `MarkTile` is one turn of `buildPartial`. A name that is not in the tile map marks
  nothing, as in the code, and the regions that TLC uses have such names.
- `OpenRun`, `ExtendRun`, `CloseRun` and `PassFrame` are the branches of the loop in
  `writePartialFrames`, one frame to a step; `EndScan` is what follows the loop.
- The bits of a frame are abstract: the number of the frame in the source file they are,
  and whether they were reversed or unmangled. Register fields have their real widths.

### How the net list model corresponds to the code

- A step reads one line. `inside` is the loop of `topLevelParser` that reads it: the outer one,
  one of the loops that copy a statement, the loop of a net, or the read of a pin's
  position. `temp` is the buffer. At the end of the file `std::getline` empties it once,
  with the end-of-file bit not yet set, and afterwards leaves it alone, and so does the model.
- A loop that reads on at the end of the file, as none of the inner ones asks for it, is a
  process that takes no further step: its state does not change, only its output grows.
- `BlankAborts` and `ShortLineAborts` are lines with fewer tokens than the code takes from them:
  the tokenizer asserts that there is one. `phase = "aborted"` is every way to die.
- A pip is `[says, source]`: its text, and the line of the file it was made from. `Pip::operator==`
  compares the pointers to a pip's two points, which only a pip and its copy in a copied net share.
  Pins compare by text, and the sets that nets keep do not take one that is equal to another.
- `printed` is what `printData` puts in the file, with how often each pip's line is there: the sets
  print their elements in no order the code determines.
- A line is `long` if the buffer of `topLevelParser` does not hold it: `getline` then fails, and
  reading ends as it does at the end of the file.
- `clearInPins` goes on from an iterator it has erased. The model lets any of the input pins
  remain, or the process die. A copied net's `configure` is what the memory held.
- `Text` is the set of tokens, any set for the proofs.
- What no property tells apart is text: the lines of designs, modules and instances are
  kept in order as they are printed.

### How the route blocker model corresponds to the code

- A step looks at one wire: `BlockWire` and `PassWire` in the loops of `blockTileRoutes`
  (static) and `blockTileRoutesPartial`, `CheckWire` in those of `checkEfficacy`. `SkipTile` and
  `LastTile` are the loops over tiles, which skip tiles outside the mask.
- `Expand[w]` is the buffer that `expandSegment` fills, `Sources[w]` that of
  `expandTilewireSourceward`, both in their order: the first pip found is the one that is used.
- `wireUsage` is Torc's. Whether `useArc` marks the two wires of an arc or their whole segments is
  not to be seen from this code, so the model has both (`usesSegments`).
- The condition on tiles with `CLK_HROW` in their type's name is `clockTiles`.
- `FindNet` looks for the net that takes the pips; without it the call returns and writes nothing.
  `Export` writes the design with the net's pips, over the file that is there.
- `BlockAgain` is the second call of `rp`: the net's pips are those of a fresh copy of the design,
  the usage is the database's, and stays. The mask stays too, as `MaskIsTheRequest` of
  `CommandLine` says.

## 3. Runs

`pass` runs finish without an error; `violation` runs show that the code does not do
what a comment in it says.

| Run | Question | Bounds |
|---|---|---|
| `flow_v5` | Do two processes, of any commands on any project files, keep to the properties of regions, masks, site maps, macros and ranges? | one AREA_GROUP out of seven, 2 processes |
| `flow_v4` | The same for ranges and macros of the Virtex-4 subclass, whose tiles have four slices out of order | 2 processes, an interior region and one a column wide, 2 macros to a direction |
| `flow_reruns` | Do longer histories with an edit agree, is the inductive invariant one, are macros locked? | 3 processes, 1 edit, commands that write no ranges |
| `command_line` | Does each operation work on the rectangle asked for, whatever the order of the sites, and does `system.ucf` never mix two invocations? | 9 by 10 tiles, 5 pairs of sites, 2 invocations, kills anywhere |
| `bitstream` | Does a device that loads the partial bitstream configure the region, with the full one's data? Does the map of tiles to frames fit the supported devices? | 2 devices, 6 regions, files cut off in the data after 0, 13 or 60 frames or between packets; the layouts of 8 real devices, for the map only, with 2 clock rows one tile high |
| `clock_merge` | Is the merged design the partial one with the static clock trees added, whatever reading does with the layout of lines, with lines too long and with files cut off? | 3 static and 3 partial designs, 1 or 2 clock nets or one listed twice, one file cut off after any line, in three ways |
| `route_blocker` | Is every wire that crosses into the masked area blocked, in whatever order, is nothing else touched, and what do the file and a second pass hold? | 4 tiles, 12 wires, 8 segments, 11 pips; 5 masks, 2 modes and both in turn, with and without a clock row and the net, any design, both kinds of usage |
| `edge_expansion` | finding: a region near an edge shrinks | 1 process |
| `block_twice` | finding: the blocking net's name is wrapped twice | 2 processes |
| `v4_locks` | finding: no Virtex-4 macro is locked | 2 processes |
| `bitstream_v4_frames` | finding: Virtex-4 frames are written as the reader turned them | 1 device, 1 region |

**Why the bounds are enough for the flow.** The device has 13 rows and 10 columns: three
clock regions of three rows with a divider row before each, so that regions of one and of
two clock regions, in the interior and at the upper and lower edge, and one that validation
must reject all exist. Margins of three tiles then reach the edge of the device for some
regions and not for others, and past the last row for one. A region one column wide and one
given by two AREA_GROUP lines exercise the hull, and the step to the interconnect column.
Two processes are what it takes for one to use the project of another; three, for one
to use a project two processes old and to re-run after a failure. Files only grow and
project files hold only what one process computed from one other project, so a fourth
process meets no kind of state the third does not; the theorems on the flow do not depend
on the bound.

**Why they are enough for bitstreams.** The devices have two clock rows in each half, so
that both halves count, in opposite directions; columns of three kinds of block, two of
them block RAM, on both sides of the clock column; columns of one, two and three frames, so
that an error by a column or by a frame shows. The regions are the empty one, one clock row,
two across the middle of the chip, one at the top, one that reaches over the clock
column, and one at the left edge in the bottom half. What the small size leaves
out is the width of the fields of an address. That the supported devices stay within it
`MapIsDeviceOrder` says for their own layouts and frame counts: a block RAM has exactly the 128
frames, or 64 on Virtex-4, that the field can count. Of these devices the run builds the map and
stops (`MCMapOnly`), as their thousands of frames are too many to scan; one clock row in each
half shows all columns, and how rows count is left to the small devices.

**Why they are enough for net lists.** The reader keeps nothing from one statement to the next
except the net it is in, and which file it reads. The designs have each kind of statement, with its
end on a line of its own, after other text, and glued to text; pins with the position on their line
and on the next; comments and blank lines in and between statements; nets in a module; a line too
long for the buffer. Of the clock nets one is in both designs, with pips of its own or without, one
in the static design only, one in neither, and one is listed twice. A net opens with a line that is
too long, in the middle of the static design and of a partial one. A file is cut after each of its
lines, with the newline, without it, and within the line.

**Why they are enough for the route blocker.** A wire meets the rest of the device through its
segment, the pips into it, and the pips that its source is a source or a sink of. There are segments
that cross each boundary between tiles, one that skips a tile, one whose sink is not the wire that
is looked at, and ones that can only drive; pips that compete for one source; and pips whose source
is itself a wire that is to be blocked later, or was already. The masks are an interior column,
areas with a boundary on one and on two sides, and one in two parts. A second call follows the first
in static mode, with the net or without. As every union of segments is a design, each way a wire can
be taken beforehand occurs. The theorems do not depend on any of this.

**Why they are enough for the command line.** A process keeps nothing of an earlier one but
`system.ucf`, so two show all that a third could. The pairs of sites give a column
and a line in the interior, with the interconnect column taken in, and one rectangle at each of
three edges; in one tile the slice that would be the first is missing, and there is a type whose sites are not at the
corners. The loop of `blockSites` takes them in every order.

**Deadlock** is not checked: a build that is done, a process that has returned, or a bound
reached, stops.

**Fairness** is assumed in `ClockMerge` only: weak fairness of the process's next step. It has one
thread that waits for no lock, message or other process, so it takes its next step as long as
it has one. `ReadsToTheEnd` rests on it. The flow moves when a user launches a process, and
nothing makes a user do so, so no liveness is claimed of it.

## 4. Properties

For the flow (`OpenPR`):

- `ProjectsHoldValidRegions`: although `setRegionVertices` drops the verdict of
  `validateRegion`, no history puts an invalid region into a project.
- `MaskServesCommand`: although `setMode` leaves the mask as it is, blocker and bitstream
  builder work on the mask of their region in their mode.
- `SiteMapIsFresh`: although it is built once, the site map is never that of another region.
- `MacrosOnBoundary`: although building the site map moves the region to and fro, macros are
  in the first and last row of an interior region.
- `SitesAreProhibited`: the ranges, written or held, cover every site of the columns
  visited that is to be kept free.
- `MarginIsWritten`: although the ranges of the last column never reach the UCF, those that do
  cover the region and the two tiles around it that the comment on the expansion promises
  (`AntiCoreBase.cpp:556`): the code expands by three. This holds also where the expansion is
  clipped, and whatever region building the site map left behind.
- `MacroSitesStayFree`: no range written covers the site of a macro of the same process.
- `RerunsAgree`: the INST lines of all runs, whole or cut short, agree while the AREA_GROUPs
  are left alone.
- `LocksCoverMacros`: what is locked includes every macro the runs behind the project placed.
- `FlowInvariant`: the inductive invariant.

For the command line (`CommandLine`):

- `CornersAreKept`: although a site may take the wrong end of its type's range for a while, the
  corner sites of the area, once seen, keep the ends they belong to.
- `RequestIsCovered`: although the constructor moves the region to and fro, what `s` prints covers
  every site of the rectangle between the two sites, of each type that has its corners there.
- `MaskIsTheRequest`: routes are blocked around that rectangle, also where the site map has since
  moved the region, and in the second pass of `rp`.
- `UcfIsTheRequest`: after any kills and in any order of operations, `system.ucf` has the lines of
  one invocation, the latest, whose ends are sites around its rectangle; and when that is done with
  `p`, they cover every site of the rectangle.
- `CommandLineInvariant`, which no run lists, is the inductive invariant.

For bitstreams (`Bitstream`): `MapIsDeviceOrder` compares the addresses that three loops
over tile coordinates enter in the map with a device described independently, column by
column (`DeviceFrame`). `DeviceGetsRegion` lets that device load the file that was written,
from its address registers alone, and compares what it configures with the columns and clock
rows of the region. `FramesAreSourceOnV5` says the data are the full bitstream's.
`ScanKeepsBitmap` and `RunsAreApart` say what the loop over the bitmap has written at
any point. The inductive invariants of `BitstreamInvariant` are in no run's list.

For net lists (`ClockMerge`). Those that compare a file with what was made of it take its
statements up to the first that opens with a line too long.

- `TypeOK` has what finding nets by name depends on: what can be found is in the list that is
  printed, and a name finds one net.
- `PartialDesignKept`: the merged design has all text and all nets of the partial one, in order and
  once, and then the clock nets it lacked, one copy for each time they are listed. A statement whose
  end the reader misses would take the next one along.
- `NetsAreWhole`: nets are printed with their pins, also those whose position is on the next
  line, and with their configuration, and clock nets with the pips of both designs.
- `ClockTreesArrive`: whatever became of the files, success means that every clock net listed was
  printed with all pips that were read for it in the static file.
- `PipsOnce`: a copied net's pips, which `mergePips` meets a second time, are printed once. The
  same pip in both files is two objects, and these may both be printed.
- `FalseIsHonest`: the merge gives up only for a clock net that the static file lacks.
- `CutIsNotMerged`: success is never reported with half a statement merged.
- `ReadsToTheEnd`: reading whole files ends.

For the route blocker (`RouteBlocker`):

- `PassedAreBlocked`: a wire that crosses into the masked area is blocked when the loop has
  passed it and ever after, although later pips change what is used.
- `OneDriver`: no pip touches a segment the design uses, or one of another pip, although only
  one wire of each segment is looked up.
- `OnlyCrossings`: nothing is used that does not belong to a crossing.
- `FileBlocks`: the router sees the file and not the database's usage. After one call, the pips in
  the file close every opening by themselves.
- `AgainAddsNothing`: a second call, with the first one's mask and usage, finds nothing to block;
  as it reads the placed design anew and overwrites the blocked one, the file it leaves blocks
  nothing.
- `ReportIsHonest`: `checkEfficacy`, which asks other questions than the blocker did, never
  reports a wire as left open for lack of sources that was not left open; in static mode
  without a clock row it finds none left open by mistake.
- `BlockerInvariant`, which no run lists, is the inductive invariant.
- `BlocksBoundary`: the refinement of `Blocking`.

## 5. Proofs

| Theorem | Module | Shows |
|---|---|---|
| `TypeCorrect` | `OpenPRProofs` | `TypeOK` |
| `FlowInvariantHolds` | `OpenPRProofs` | `FlowInvariant` |
| `ProjectsHoldValidRegionsAlways`, `MaskServesCommandAlways`, `SiteMapIsFreshAlways`, `MacrosOnBoundaryAlways` | `OpenPRProofs` | the properties of these names |
| `LocksCoverMacrosOnV5` | `OpenPRProofs` | `LocksCoverMacros`, if the family is Virtex-5 |
| `SitesInvariantHolds`, `SitesAreProhibitedOnGrid`, `MarginIsWrittenOnGrid` | `OpenPRProofs` | `SitesInvariant`; `SitesAreProhibited` and `MarginIsWritten` where `RowsOnGrid` |
| `MacroSitesStayFreeAlways` | `OpenPRProofs` | `MacroSitesStayFree` |
| `RerunInvariantHolds`, `RerunsAgreeOnV5` | `OpenPRProofs` | `RerunInvariant`; `RerunsAgree`, if the family is Virtex-5 |
| `TypeCorrect`, `CornersAreKeptAlways`, `RequestIsCoveredAlways`, `MaskIsTheRequestAlways` | `CommandLineProofs` | the properties of these names |
| `CommandLineInvariantHolds` | `CommandLineProofs` | `CommandLineInvariant` |
| `UcfInvariantHolds`, `UcfIsTheRequestOnLayout` | `CommandLineProofs` | `UcfInvariant`; `UcfIsTheRequest` |
| `ScanInvariantHolds`, `ScanKeepsBitmapAlways`, `RunsAreApartAlways` | `BitstreamProofs` | `ScanInvariant` and the properties of the scan |
| `MapInvariantHolds`, `MapIsDeviceOrderAlways` | `BitstreamProofs` | `MapInvariant`; `MapIsDeviceOrder` |
| `LoadInvariantHolds`, `MarkInvariantHolds`, `RunsInvariantHolds` | `BitstreamProofs` | the inductive invariants of these stages |
| `TypeOKAlways`, `FramesAreSourceOnV5Always` | `BitstreamProofs` | `TypeOK`, `FramesAreSourceOnV5` |
| `DeviceGetsRegionAlways` | `BitstreamProofs` | `DeviceGetsRegion`, of a region whose tiles the device has (`RegionIsOn`) |
| `TypeCorrect`, `BlockerInvariantHolds`, `PassedAreBlockedAlways`, `OneDriverAlways`, `OnlyCrossingsAlways`, `ReportIsHonestAlways`, `FileBlocksAlways`, `AgainAddsNothingAlways` | `RouteBlockerProofs` | `BlockerInvariant` and the properties of these names |
| `Implementation` | `RouteBlockerProofs` | `RouteBlocker` implements `Blocking` |
| `TypeCorrect`, `ClockTreesArriveAlways` | `ClockMergeProofs` | the properties of these names |
| `MergeInvariantHolds` | `ClockMergeProofs` | `MergeInvariant` |
| `ReadingInvariantHolds` | `ClockMergeProofs` | `ReadingInvariant` of well-formed designs |
| `CutIsNotMergedAlways`, `FalseIsHonestAlways`, `PartialDesignKeptAlways` | `ClockMergeProofs` | the properties of these names, of well-formed designs |
| `ContentsInvariantHolds` | `ClockMergeProofs` | `ContentsInvariant` of whole files of well-formed designs that repeat nothing |
| `NetsAreWholeAlways`, `PipsOnceAlways` | `ClockMergeProofs` | the properties of these names, of well-formed designs that repeat nothing |

**The flow.** The theorems hold for any grid, tile types, sites, AREA_GROUP lines, numbers of
macros, processes and edits, from the assumptions `FabricAssumption`, `AntiCoreAssumption`
and `OpenPRAssumption` (a device is larger than the margin, lines name tiles of the
grid). None of the safety properties is inductive: that a command finds the mask of its
region depends on the steps before it in the same process. `FlowInvariant` adds what a
process knows at each point: nothing is left over from an earlier process
(`FreshWhenIdle`), what was read so far is on the grid (`RegionWhileReading`), no site map
and no macro precede the region (`NothingBeforeRegion`), each step that relies on the
region comes directly after the one that sets it up (`RegionIsSetUp`), the mode
(`ModeOfCommand`), every region in memory and in project files is valid and on the grid
(`RegionsOnGrid`), the site map is either not built or that of the project's region
(`SiteMapOfProject`), and, on Virtex-5, macros placed are macros listed
except between the two steps and in a process that will not be saved (`MacrosAreListed`).
`AntiCoreProofs` has the lemmas on the geometry: expansion and shrinking stay within the
grid or one past it, in the interior they cancel, `expandRegionToINT` keeps a region on
the grid. The proof of the step has one lemma for each action.

**The ranges of placement constraints.** `genPlaceConstraints` adds the sites of a column to ranges
in the order in which the database has them, writes the ranges where a macro cuts the column, and
those that are left when it enters the next. The ranges of a set of sites are right whatever the
order was, if the set has corners: a site no other is before, and one no other is after
(`AddSiteEncloses`, `CornersCover`). `AntiCoreProofs` goes from one site to those of a tile
(`FoldTiles`, `TileSitesEnclose`), to the rows of a column between two macros (`ColumnSoFar`) and
to a whole column (`ColumnVisited`). `SitesInvariant` has it for all the columns visited:
`VisitingColumns` says that the lines written and the ranges held cover them, that the lines alone
cover all but the last of them, and of which sites the ranges held are; besides, nothing is held when a process starts, and its macros are on tiles of
its site map that have slices.
`MarginIsWritten` follows as the columns promised end before the last one visited, or at the edge of
the grid, which the visits pass by one column (`PromisedColumns`).
The hypotheses are about the layout: that each stretch of a column of a given height has its corner
sites (`ColumnsHaveCorners`), that slices are numbered as the grid is (`SlicesFollowGrid`) and that
tiles for macros have slices (`MacroTilesHaveSlices`). TLC evaluates them for the layouts it uses,
as assumptions of the MC modules. `RowsOnGrid` excludes regions past the last row, for which the
code asks the database for tiles that do not exist. The command line has no macros, so a column of
it is one stretch, of at least twice the margin, and only such need corners.

**Reruns.** The lines of two runs agree because both are computed from the AREA_GROUPs alone.
`RerunInvariant` says so of everything that outlives a process: every project, whether finished or
saved halfway, has no region or the one that the AREA_GROUPs define (`RegionsAgree`), every INST
line is one that this region's macros give, and a process that is reading the AREA_GROUPs has what
the first of them define (`ReadingAgrees`). On Virtex-5 a macro's name has its index, and so one
place; on Virtex-4, whose names finding 3 is about, several macros share one.

**The command line.** For any device, in which sites have integer coordinates and a type and
coordinates name one site, and any pairs of sites. A range ends at the right site as soon as
that site was added, for any set of sites in any order: of the two comparisons one is by
columns and one by rows, and for the corner sites both agree. `CommandLineInvariant` adds that
the region is still the constructor's while sites are added (`ObjectServesRequest`), that those
seen are the region's (`SeenSoFar`), and that all were seen when ranges are printed
(`AllPrinted`). `RequestIsCovered` follows with the lemma of `AntiCoreProofs` that in the
interior expansion and shrinking cancel. `UcfInvariant` has, of `p`, that lines are written by it
only, each between two sites around the rectangle (`LinesAreAsked`), and that the columns visited
are covered (`AskedIsWritten`), from the same lemmas of `AntiCoreProofs` as the flow.

**The bitstream.** For any devices of any number of columns, clock rows, blocks and frames per
column, any regions and any cut of the file. `DevicesAssumption` says what the code relies on:
`IsLaidOut`, that there is one clock column, to the right of a column of the first block, and block
RAM to the right of each column of its interconnect and nowhere else; and `AddressesFit`, that
counts of columns, clock rows, blocks and frames fit the fields of an address, the minor address
with the bit of Virtex-4 above its own. TLC evaluates both for the small devices and, in full size, for
the eight supported ones (`MCDevicesFit`).

*The geometry* (`DeviceFramesProofs`) is proved once. The device's memory is a flattened sequence of
sequences of sequences; `DeviceIsLaidOut` says at which index the frames of a column in a
clock row begin, as a sum over blocks, rows and columns. On the other side are the numberings that
the code steps between. `ColumnsOfXdl` gives the chip's column for an XDL column, `CountWithClock` and
`CountOfBram` that the columns counted to the left of it are those the address counts, with the one
step over the clock column, and `TileAddress`, `BramAddress` and `ClockAddress` that the code's sums
arrive at the device's frames. `CellsAreApart` says that no frame is two columns'.

*Mapping.* `MapInvariant` is about cells, a column of the chip in a clock row: after any number of
tiles the map has the device's addresses for the cells these tiles lie in, and none for others. It
is not enough to say that entries made are right, since a tile leaves an entry alone that is
there, of which only the first frame is looked at. `MapIsDeviceOrder` follows as all tiles
and clock rows together visit every cell (`MapIsComplete`); that the words differ is the
arithmetic of sums of fields that do not overlap (`WordsTellApart`).

*Loading, marking, writing.* `LoadInvariant` has the packets that are left as an end of the file, and
that past the frame data either all frames are in or `loaded` is false. `MarkInvariant` has that
the frames marked, and those that the tiles left will mark, do not change together.
For the scan, the count is the distance from the start while a run is open and 0 otherwise
(`RunInProgress`), and steps before it leave its variables alone (`NothingScanned`).
`RunsInvariant` adds that a run's address and data are those of its frames, and that it begins with
a frame that is marked. `DeviceGetsRegion` puts these together: frames marked are the region's
(`MarksAreRegion`), so a run begins at a frame with an address, which no other frame has, and
the device, which starts there and steps on, writes just the frames of the run
(`DeviceWritesRuns`). The hypothesis `RegionIsOn` is that the device has the region's tiles, which TLC
evaluates for the regions it takes (`MCRegionsAreOn`): `genPartialBitstream` takes the names from the
same device's database. A name that the device lacks marks nothing, and then the clock
column's frames are not marked on its account either. TLC has checked the inductive
invariants, too, on the small devices.

**The route blocker.** For any device, that is any wires, segments and pips that satisfy
`RouteBlockerAssumption` (segments are classes of wires, and `expandSegment` stays within
one), any masks, designs and clock rows. Usage only grows and `Enables` only shrinks with
it, so a wire once blocked stays so. `OneDriver` needs `UsageIsClosed` (usage holds whole
segments, so that one wire of a segment stands for all) and `UsageIsAccounted` (what the design
and earlier pips use is in it). `ReportIsHonest` needs that the wires passed are blocked when
counting begins, and that counting changes no usage. The refinement is by the set of openings that
are not yet blocked: it shrinks with every step, and by `PassedAreBlocked` is empty after
the last tile. `FileBlocks` needs that usage is nothing but what the design and the pips mark, and that the file has the net's pips (`FileIsNet`): then what is closed by
usage is closed by the file. `AgainAddsNothing` holds because a wire that is still enabled in the
second pass has only sources that the first found unusable, and usage only grew.

**The merge.** For any designs of any lines (`ClockMergeAssumption`: a design's statements are
sequences of lines, and put together they are one; `NetListAssumption` about `Text`), any cut and
any clock nets. `TypeOK` is inductive: each operation of `NetList` keeps `IsNetList`, and each step
of the reader that changes the net read last is in a loop that has read one. `MergeInvariant` adds
that a clock net, once merged, stays arrived: nets are only appended, pips only added, and names
never change, so a later copy or merge, also of the same name, does not undo it; and
that at the end the loop is through all of them.

**Reading.** `ReadingInvariant` relates the reader, which goes line by line, to the file as a sequence
of statements. At any moment of it there are a statement and a line in that statement
(`Place`), such that the lines up to there have been read, and the loop it is in is the one
of that statement's kind, or the outer one at the start. What has been read of
a whole file is then determined: the nets before this statement and perhaps the one it opens, by
their names and in their order, which of them can be found, and the text (`Holds`). At the end of a
file the reader is in the outer loop, and so at the start of a statement (`EndsAt`); the merge adds
the clock nets that are missing to the names (`PartialRead`). That a line closes a loop exactly if it
ends the statement is what makes a design well-formed (`IsDesign`, as XDL is defined and not as the
loops test it); of the designs that TLC merges all are but one, whose design statement
ends with a semicolon glued to a token. The theorems say nothing of that one, and TLC does.

**What nets have.** `ReadingInvariant` knows nets by their names. `ContentsInvariant` adds what is in
them, for whole files. While a file is read, each net that is complete has the pins, the
configuration and the pips of its statement (`NetsRead`), and the net read last those of the lines
read so far: a pin that is wrapped is added with the line of its position, and until then its
name is in `pinName` (`ContentsAt`). For this the reader's place must be the only one
(`PlaceIsOne`). Once both files are read, every net of the partial list has pips of its own, one
for each that the partial design has for its name, and the static ones if it is a clock net that
has been merged (`PipsMerged`). Nothing is added twice: a clock net listed again brings pips
that are there, and a copy has exactly those that `mergePips` goes on to add. The nets
past the partial design's are clock nets that it lacks (`PartialIsIn`). These theorems
are about designs in which no two nets have one name and no net has one pip twice
(`RepeatsNothing`), as netlists are: `findNet` knows the first net of a name only, and the
properties tell nets apart by their names. TLC's designs all are like that, which it checks as an assumption (`MCDesigns`).
`PipsOnce` compares numbers, of at most one pip of each file and of at most two files (`SaidByEach`).

**Induction** is over numbers, from the existence of least elements (`Induction`), as the library's
theorems take operators that the provers cannot instantiate. The folds of the community modules are
recursive functions, over sets chosen from sets, and of each that the proofs need the two
equations, at nothing and at one element more, are proved first (`FoldSitesIsDefined`, `FoldTilesIsDefined`,
`FlattenOfFirst`). `SelectSeq` has no definition that the provers can expand, which is why
`Selection` has a function of its own, `Selected`.

**Only model-checked.** Of the safety properties, what the theorems' hypotheses exclude, such as
the design with the glued semicolon. Liveness (`ReadsToTheEnd`) and `ENABLED` are out of the prover's reach, and what
the `violation` runs show is a counterexample.

## 6. Findings

1. `buildSiteMap` undoes an expansion that was clipped with a shrinking that is not
   (`AntiCoreBase.cpp:138`): a region less than three tiles from an edge comes back smaller
   (`edge_expansion`).
2. `routeBlocker` saves the full name of the blocking net as the prefix
   (`OpenPR.cpp:249`): run again on its own output, it finds no net and reports success
   (`block_twice`).
3. `placeMacros` lists macro names that end in an index, and Virtex-4 names have none
   (`OpenPR.cpp:176`; `v4_locks`).
4. The Virtex-4 reader turns and unmangles frames in place, and the writer writes them like
   that (`v4_bitstream.cpp:350`; `bitstream_v4_frames`).

Facts that contradict no text of the repository, and that the properties state as they are:

- `genPlaceConstraints` writes ranges on entering the next column, and so never those of the last
  column of its expansion by three tiles (`AntiCoreBase.cpp:559`). The comment there promises two,
  and these are written (`MarginIsWritten`); `SitesAreProhibited` counts the ranges held.
- `rp` leaves a design without blocking pips (`AntiCore.cpp:72-79`, `AgainAddsNothing`).
- Every invocation empties `system.ucf`, the help text's too (`AntiCore.cpp:37`, `UcfIsTheRequest`).
- A merge that fails leaves an output file with the text of the partial design and no nets
  (`NotInStatic`); one of which an input was cut off within a statement goes on for ever and fills
  the file with its last line (`CutIsNotMerged`).
- A clock net listed twice that the partial design lacks is copied twice (`PartialDesignKept`).
- A line of 1024 characters or more that opens a statement silently ends the reading, and the merge
  reports success (`Statements`).
- `farToStruct` of Virtex-4 masks the minor address with five bits of its six
  (`v4_bitstream.cpp:295`); nothing that follows looks at it.

`MacrosOnBoundary` and `MacroSitesStayFree` are about regions off the edges because of
finding 1 and the look-ups past the grid; `FramesAreSourceOnV5` is about one family because of
finding 4.

## 7. What is not modelled

- *`importXDL`*: what it marks as used is the design of `RouteBlocker`, any union of segments.
- *A net's `cfg`* is taken to be on its first line.
- *`insertPip`, `removePip` and `findPip` of `NetList`* and the lookup of pips by segment: nothing in
  this flow calls them.
- *Of the device tables* the chip identifiers, names and byte offsets within frames.
- *`Point`, `InPin`, `OutPin`, `XdlImporter`, `OpenPRTree`* beyond equality and printing of pins and
  pips: accessors and formatting.
- *Bitstreams other than bitgen's for the whole device.* The example's Makefile
  makes them without compression and with one write of all frames at address 0, and that is
  what `FullBitstream` is. The device that loads the result is taken to step on one frame for
  each frame of data; the extra frame that a real one's pipeline needs is neither in the
  code nor in the model.
- *Text*: wording of scripts and constraints, logging, parsing of names.
- *Torc and the vendor's tools*, beyond what the code asks of them: tile types, sites,
  `map`'s new PCF, the meaning of a PROHIBIT range. Map entries for these are external.

## 8. Plan

Done, in this order: `SiteRange`; `Fabric`; `AntiCore`; `OpenPR` with its invariant and
proofs; `DeviceFrames` and `Bitstream` with the proofs about the scan; `NetList` and `ClockMerge`;
`RouteBlocker` with `Blocking`, its invariant and the refinement; the file and the second call of
`RouteBlocker`; `CommandLine` with its proofs; long lines, repeated names and the printed design
in `ClockMerge`, and its proofs; `Devices`; the proofs about constraints, reruns and reading;
`BitstreamInvariant`, and the proofs that the map is the device's order and that the device gets
the region; the proofs about the contents of merged nets.

Next:

1. Composition: the success and failure of `BlockRoutes` and `MergeClockTree` of `OpenPR` by
   these modules, and the tiles `OpenPR` hands to `BuildPartial` as the region of `Bitstream`. An
   abstract specification of the flow, the constraint file as a set of agreeing lines,
   for `OpenPR` to implement.
