---------------------------- MODULE RouteBlocker ----------------------------
(***************************************************************************)
(* blockRoutes and checkEfficacy: tile by tile and wire by wire, give each *)
(* segment that crosses into the masked area to the blocking net, by the   *)
(* first pip into it that is still to be had; then count what is left and  *)
(* export the design.  The project flow calls it once, the command line's  *)
(* "rp" a second time, in partial mode, with the mask and the wire usage   *)
(* of the first.                                                           *)
(* A wire of a tile is <<tile, index>>, and tiles are numbered row by row. *)
(***************************************************************************)
EXTENDS Naturals, Sequences, Functions

CONSTANTS NumTiles,
          WireCount,     \* the number of wires of each tile
          Segment,       \* wire -> the wires it is one with
          Expand,        \* wire -> what expandSegment finds sourceward, in its order
          Sources,       \* wire -> the wires that pips to it come from, in order
          Masks,         \* the masks there are
          ClockRows,     \* the sets of tiles that may have CLK_HROW in their type's name
          Designs        \* the wires that the placed design may use

Tile     == 1 .. NumTiles
Tilewire == UNION {{<<t, k>> : k \in 1 .. WireCount[t]} : t \in Tile}

\* A set of wires that is made up of segments.
Closed(wires) == \A w \in wires : Segment[w] \subseteq wires

ASSUME RouteBlockerAssumption ==
    /\ NumTiles \in Nat
    /\ WireCount \in [Tile -> Nat]
    /\ Segment \in [Tilewire -> SUBSET Tilewire]
    /\ \A w \in Tilewire : w \in Segment[w] /\ \A x \in Segment[w] : Segment[x] = Segment[w]
    /\ Expand \in [Tilewire -> Seq(Tilewire)]
    /\ \A w \in Tilewire : Range(Expand[w]) \subseteq Segment[w]
    /\ Sources \in [Tilewire -> Seq(Tilewire)]
    /\ Masks \subseteq [Tile -> BOOLEAN]
    /\ ClockRows \subseteq SUBSET Tile
    /\ \A wires \in Designs : wires \subseteq Tilewire /\ Closed(wires)

VARIABLES
    mask, currentMode,
    clockTiles,        \* the tiles with CLK_HROW in their type's name
    design,            \* history: the wires used when blocking began
    usesSegments,      \* whether useArc marks segments, or the two wires only
    hasNet,            \* whether the placed design has the net to add pips to
    pass,              \* which call of blockRoutes this is
    earlier,           \* history: the pips of the first pass, in the second
    wireUsage,         \* the wires that are used
    pips,              \* what was added to the blocking net: <<source, sink>>
    phase,             \* where blockRoutes is
    tile, wire,        \* the next wire
    unusedWireCount, noSourceCount,
    file               \* the exported design: its blocking net's pips

input == <<mask, currentMode, clockTiles, design, usesSegments, hasNet, pass, earlier>>
vars  == <<input, wireUsage, pips, phase, tile, wire, unusedWireCount, noSourceCount, file>>

Init == /\ mask \in Masks
        /\ currentMode \in {"static", "partial"}
        /\ clockTiles \in ClockRows
        /\ design \in Designs
        /\ usesSegments \in BOOLEAN
        /\ hasNet \in BOOLEAN
        /\ pass = 1 /\ earlier = {}
        /\ wireUsage = design
        /\ pips = {}
        /\ phase = "find"
        /\ tile = 1 /\ wire = 1
        /\ unusedWireCount = 0 /\ noSourceCount = 0
        /\ file = [exists |-> FALSE, pips |-> {}]

-----------------------------------------------------------------------------
\* The loops, which the blocking and the counting share.

TileOf(w) == w[1]

InTile == tile \in Tile /\ mask[tile] /\ wire <= WireCount[tile]
Here   == <<tile, wire>>

\* Slip: the wires of the next tile are counted on from the last.
NextTileOnly == /\ phase \in {"block", "check"} /\ tile \in Tile /\ ~InTile
                /\ tile' = tile + 1
                /\ UNCHANGED wire

NextTile == /\ phase \in {"block", "check"} /\ tile \in Tile /\ ~InTile
            /\ tile' = tile + 1
            /\ wire' = 1

NextWire == /\ wire' = wire + 1
            /\ UNCHANGED tile

SkipTile == /\ NextTile
            /\ UNCHANGED <<input, wireUsage, pips, phase, unusedWireCount,
                           noSourceCount, file>>

LastTile == /\ phase = "block" /\ tile \notin Tile
            /\ phase' = "check"
            /\ tile' = 1 /\ wire' = 1
            /\ UNCHANGED <<input, wireUsage, pips,
                           unusedWireCount, noSourceCount, file>>

-----------------------------------------------------------------------------
\* blockTileRoutes and blockTileRoutesPartial.

\* Slip: every wire of the masked area counts.
CrossesAlways(w) == Expand[w] # <<>>

Crosses(w) == \E x \in Range(Expand[w]) : ~mask[TileOf(x)]

\* Slip: both modes look for sources outside the masked area.
EnablesOutside(source) == /\ source \notin wireUsage
                          /\ TileOf(source) \notin clockTiles
                          /\ ~mask[TileOf(source)]

\* A source that may drive a blocking pip when these wires are used.
Allows(used, source) == /\ source \notin used
                        /\ TileOf(source) \notin clockTiles
                        /\ currentMode = "partial" => ~mask[TileOf(source)]

Enables(source) == Allows(wireUsage, source)

\* The pips that reach the segment of w, as the places of sink and source in the buffers.
PipsTo(w) == UNION {{<<z, k>> : k \in DOMAIN Sources[Expand[w][z]]} : z \in DOMAIN Expand[w]}
Sink(w, at)   == Expand[w][at[1]]
Source(w, at) == Sources[Sink(w, at)][at[2]]
Before(a, b)  == a[1] < b[1] \/ (a[1] = b[1] /\ a[2] < b[2])

\* Slips: a wire that is used is not passed over; the pips of the first wire of the
\* segment are the only ones looked at.
CandidatesAlways(w) ==
    IF ~Crosses(w) THEN {} ELSE {at \in PipsTo(w) : Enables(Source(w, at))}
CandidatesOfFirst(w) ==
    IF w \in wireUsage \/ ~Crosses(w) THEN {}
    ELSE {at \in PipsTo(w) : at[1] = 1 /\ Enables(Source(w, at))}

Candidates(w) == IF w \in wireUsage \/ ~Crosses(w) THEN {}
                 ELSE {at \in PipsTo(w) : Enables(Source(w, at))}

Marked(w) == IF usesSegments THEN Segment[w] ELSE {w}

\* The first candidate is taken.
BlockWire ==
    /\ phase = "block" /\ InTile
    /\ \E at \in Candidates(Here) :
          /\ \A other \in Candidates(Here) : ~Before(other, at)
          /\ wireUsage' = wireUsage \cup Marked(Source(Here, at)) \cup Marked(Sink(Here, at))
          /\ pips' = pips \cup {<<Source(Here, at), Sink(Here, at)>>}
    /\ NextWire
    /\ UNCHANGED <<input, phase, unusedWireCount,
                   noSourceCount, file>>

\* The wire is used, its segment stays within the area, or there is no source for it.
PassWire ==
    /\ phase = "block" /\ InTile /\ Candidates(Here) = {}
    /\ NextWire
    /\ UNCHANGED <<input, wireUsage, pips, phase,
                   unusedWireCount, noSourceCount, file>>

-----------------------------------------------------------------------------
\* checkEfficacy.

Unused(w) == /\ w \notin wireUsage
             /\ \E x \in Range(Expand[w]) : ~mask[TileOf(x)] /\ x \notin wireUsage

HasSource(w) == \E x \in Range(Expand[w]) : \E s \in Range(Sources[x]) : s \notin wireUsage

CheckWire ==
    /\ phase = "check" /\ InTile
    /\ unusedWireCount' = unusedWireCount + (IF Unused(Here) THEN 1 ELSE 0)
    /\ noSourceCount' = noSourceCount + (IF Unused(Here) /\ ~HasSource(Here) THEN 1 ELSE 0)
    /\ NextWire
    /\ UNCHANGED <<input, wireUsage, pips, phase, file>>

-----------------------------------------------------------------------------
\* blockRoutes with the names of two files, around the loops.

\* Without its net it returns, having written nothing.
FindNet ==
    /\ phase = "find"
    /\ phase' = IF hasNet THEN "block" ELSE "done"
    /\ UNCHANGED <<input, wireUsage, pips, tile, wire, unusedWireCount, noSourceCount, file>>

\* Slip: the net is reset before the design is exported.
ExportAfterReset ==
    /\ phase = "check" /\ tile \notin Tile
    /\ file' = [exists |-> TRUE, pips |-> {}]
    /\ phase' = "done"
    /\ tile' = 1 /\ wire' = 1
    /\ UNCHANGED <<input, wireUsage, pips, unusedWireCount, noSourceCount>>

Export ==
    /\ phase = "check" /\ tile \notin Tile
    /\ file' = [exists |-> TRUE, pips |-> pips]
    /\ phase' = "done"
    /\ tile' = 1 /\ wire' = 1
    /\ UNCHANGED <<input, wireUsage, pips, unusedWireCount, noSourceCount>>

\* Slip: the wire usage of the first pass goes with its design.
BlockAgainAfresh ==
    /\ phase = "done" /\ pass = 1 /\ currentMode = "static"
    /\ currentMode' = "partial"
    /\ pass' = 2 /\ earlier' = pips
    /\ pips' = {} /\ wireUsage' = design
    /\ phase' = "find"
    /\ unusedWireCount' = 0 /\ noSourceCount' = 0
    /\ UNCHANGED <<mask, clockTiles, design, usesSegments, hasNet, tile, wire, file>>

\* "rp": setMode, which leaves the mask, and another call on the same two files.  The design
\* is imported anew; the wires in use are the database's, and stay.
BlockAgain ==
    /\ phase = "done" /\ pass = 1 /\ currentMode = "static"
    /\ currentMode' = "partial"
    /\ pass' = 2 /\ earlier' = pips
    /\ pips' = {}
    /\ phase' = "find"
    /\ unusedWireCount' = 0 /\ noSourceCount' = 0
    /\ UNCHANGED <<mask, clockTiles, design, usesSegments, hasNet, wireUsage, tile, wire, file>>

-----------------------------------------------------------------------------
Next == \/ FindNet
        \/ SkipTile \/ LastTile \/ BlockWire \/ PassWire \/ CheckWire
        \/ Export \/ BlockAgain

Spec == Init /\ [][Next]_vars

-----------------------------------------------------------------------------
\* Properties.

\* Types, and the loops stay on the wires of the device.
TypeOK ==
    /\ mask \in Masks
    /\ currentMode \in {"static", "partial"}
    /\ clockTiles \in ClockRows
    /\ design \in Designs
    /\ usesSegments \in BOOLEAN
    /\ hasNet \in BOOLEAN
    /\ pass \in {1, 2}
    /\ earlier \in SUBSET (Tilewire \X Tilewire)
    /\ wireUsage \in SUBSET Tilewire
    /\ pips \in SUBSET (Tilewire \X Tilewire)
    /\ phase \in {"find", "block", "check", "done"}
    /\ tile \in 1 .. NumTiles + 1
    /\ wire \in Nat \ {0}
    /\ tile \in Tile => wire \in 1 .. WireCount[tile] + 1
    /\ unusedWireCount \in Nat /\ noSourceCount \in Nat
    /\ file \in [exists : BOOLEAN, pips : SUBSET (Tilewire \X Tilewire)]

\* A wire into the masked area that a router could not use: part of its segment is used, or
\* nothing could drive it that the blocker may take.
Closes(used, w) == \/ w \in used
                   \/ \E x \in Range(Expand[w]) : x \in used
                   \/ \A x \in Range(Expand[w]) : \A s \in Range(Sources[x]) : ~Allows(used, s)
Blocked(w) == Closes(wireUsage, w)

Openings == {w \in Tilewire : mask[TileOf(w)] /\ \E x \in Range(Expand[w]) : ~mask[TileOf(x)]}

BlockedOnce == hasNet /\ (pass = 2 \/ phase \in {"check", "done"})
Passed(w) == \/ BlockedOnce
             \/ TileOf(w) < tile
             \/ TileOf(w) = tile /\ w[2] < wire

\* Every wire the blocker has been at that crosses into the masked area is blocked, and stays
\* so, although each pip it adds takes a source from wires to come and pips are taken in the
\* order of the tiles (AntiCoreBase.cpp 782-870, 877-985).
PassedAreBlocked == \A w \in Openings : Passed(w) => Blocked(w)

AllPips == pips \cup earlier

\* The blocker never drives a segment that the design uses, nor one twice, and takes no
\* source that the design uses or that a pip of its own drives or starts from, in two passes
\* or in one: if usage is by segments, as the check of one wire at line 800 takes it to be.
OneDriver ==
    usesSegments =>
        /\ \A p \in AllPips : \A w \in Range(p) : w \notin design
        /\ \A p, q \in AllPips : p # q => \A w \in Range(p), x \in Range(q) :
                                             Segment[w] # Segment[x]

\* A wire is used only for the design or for a pip, and a pip only if its segment crosses the
\* boundary: what stays within either side is left to the router.
OnlyCrossings ==
    /\ \A w \in wireUsage :
          w \in design \/ \E p \in AllPips : w \in Segment[p[1]] \cup Segment[p[2]]
    /\ \A p \in AllPips : \E w \in Openings : p[2] \in Range(Expand[w])

\* The report: segments left unused "due to lack of available source wires" are some of
\* those left unused (lines 1020-1023); and, without a clock's tiles, in static mode, they are
\* all of them: none is left "because of a bug" (line 1033).
ReportIsHonest ==
    /\ noSourceCount <= unusedWireCount
    /\ usesSegments /\ currentMode = "static" /\ clockTiles = {} =>
          noSourceCount = unusedWireCount

\* The wires that a design with these pips uses.
UsedWith(P) == design \cup UNION {Marked(p[1]) \cup Marked(p[2]) : p \in P}

\* What keeps the router out is the exported file, not the usage that blockRoutes leaves in the
\* database.  After one call the file's own pips close every opening (1148-1152).
FileBlocks ==
    phase = "done" /\ pass = 1 /\ file.exists =>
        \A w \in Openings : Closes(UsedWith(file.pips), w)

\* A second pass with the mask of the first finds nothing to block, for its sources are some of
\* the first's.  As it imports the placed design again and overwrites the blocked one, the file
\* that "rp" leaves has no blocking pip in it (AntiCore.cpp 72-79).
AgainAddsNothing ==
    pass = 2 /\ usesSegments =>
        /\ pips = {}
        /\ phase = "done" /\ hasNet => file.pips = {}

\* The inductive invariant: usage holds whole segments if it is by segments, and just what the
\* design and the pips use; the file is the net's; and the properties hold that build on it.
UsageIsClosed    == usesSegments => Closed(wireUsage)
UsageIsAccounted == wireUsage = UsedWith(AllPips)
FileIsNet        == /\ phase = "done" /\ file.exists => file.pips = pips
                    /\ pass = 1 => earlier = {} /\ (file.exists => phase = "done")
                    /\ ~hasNet => ~file.exists /\ phase \in {"find", "done"} /\ tile = 1 /\ wire = 1
BlockerInvariant ==
    /\ TypeOK
    /\ UsageIsClosed
    /\ UsageIsAccounted
    /\ FileIsNet
    /\ PassedAreBlocked
    /\ OneDriver
    /\ OnlyCrossings
    /\ ReportIsHonest
    /\ AgainAddsNothing

\* The loops do what blocking a boundary promises, and a second pass does not undo it.
Promise == INSTANCE Blocking WITH Wires    <- Tilewire,
                                  open     <- {w \in Openings : ~Blocked(w)},
                                  finished <- BlockedOnce
BlocksBoundary == Promise!Spec
=============================================================================
