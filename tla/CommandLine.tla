---------------------------- MODULE CommandLine -----------------------------
(***************************************************************************)
(* anticore without a project file: main builds an AntiCore object for the *)
(* rectangle between two named sites and performs one operation on it.     *)
(* Each invocation, in whatever mode, starts by emptying system.ucf.       *)
(*                                                                         *)
(* Operations: "s" prints PROHIBIT ranges, "p" writes them to system.ucf,  *)
(* "r" blocks the routes of top_placed.xdl, and "rp" does so twice, in     *)
(* static and then in partial mode.  main looks at the operation's prefix. *)
(***************************************************************************)
EXTENDS AntiCore

CONSTANTS Corners,          \* the tiles of the two sites a user may name
          MaxInvocations    \* bound on the processes launched

Operation == {"s", "p", "r", "rp", "other"}
Request   == [a : Tile, b : Tile, operation : Operation]

SitesIn(r) == SitesAt({t \in Tile : InRegion(r, t)})

\* A tile that a user can name a site of has sites.
ASSUME CommandLineAssumption ==
    /\ Corners \subseteq Tile \X Tile
    /\ \A c \in Corners : SitesOf[c[1]] # <<>> /\ SitesOf[c[2]] # <<>>
    /\ MaxInvocations \in Nat

VARIABLES
    phase,         \* "shell" between two processes, else where main is
    request,       \* the latest invocation's arguments (history, in the shell)
    seen,          \* the sites blockSites' loop has been at
    column,        \* the next column genPlaceConstraints visits
    stdout,        \* the PROHIBIT ranges printed
    systemUcf,     \* the PROHIBIT ranges in system.ucf
    passes,        \* history: mode and mask of every blockRoutes of this process
    invocations

processVars == <<coreVars, phase, seen, column, stdout, passes>>
vars        == <<processVars, request, systemUcf, invocations>>

NoRequest == [a |-> NoTile, b |-> NoTile, operation |-> "other"]
NoColumn  == -1

Asks(op) == request.operation = op

\* updateRegion(sliceA, sliceB): the verdict of validateRegion is dropped.
AskedRegion == ExpandRegionToINT(Span(request.a, request.b))

Init == /\ InitCore
        /\ phase = "shell" /\ request = NoRequest
        /\ seen = {} /\ column = NoColumn
        /\ stdout = {} /\ systemUcf = {}
        /\ passes = <<>>
        /\ invocations = 0

-----------------------------------------------------------------------------
\* main, up to the operation.

\* Slip: system.ucf is opened to append.
InvokeToAppend(corners, op) ==
    /\ phase = "shell" /\ invocations < MaxInvocations
    /\ request' = [a |-> corners[1], b |-> corners[2], operation |-> op]
    /\ invocations' = invocations + 1
    /\ phase' = "new"
    /\ UNCHANGED <<coreVars, seen, column, stdout, systemUcf, passes>>

Invoke(corners, op) ==
    /\ phase = "shell" /\ invocations < MaxInvocations
    /\ systemUcf' = {}
    /\ request' = [a |-> corners[1], b |-> corners[2], operation |-> op]
    /\ invocations' = invocations + 1
    /\ phase' = "new"
    /\ UNCHANGED <<coreVars, seen, column, stdout, passes>>

\* Help, wrong arguments, or a project file: OpenPR has what becomes of the last.
InvokeOtherMode ==
    /\ phase = "shell" /\ invocations < MaxInvocations
    /\ systemUcf' = {}
    /\ request' = NoRequest
    /\ invocations' = invocations + 1
    /\ UNCHANGED processVars

\* Slip: the mask is set up from the region that buildSiteMap leaves.
ConstructMaskLast ==
    /\ phase = "new"
    /\ siteMap' = SiteMapOf(AskedRegion)
    /\ region' = Rebound(AskedRegion)
    /\ mask' = MaskOf(Rebound(AskedRegion), mode)
    /\ phase' = "ready"
    /\ UNCHANGED <<mode, macroTiles, busMacroMap, prohibitedSites,
                   request, seen, column, stdout, systemUcf, passes, invocations>>

\* The constructor: the mask is set up from the region before buildSiteMap moves it.
Construct ==
    /\ phase = "new"
    /\ mask' = MaskOf(AskedRegion, mode)
    /\ siteMap' = SiteMapOf(AskedRegion)
    /\ region' = Rebound(AskedRegion)
    /\ phase' = "ready"
    /\ UNCHANGED <<mode, macroTiles, busMacroMap, prohibitedSites,
                   request, seen, column, stdout, systemUcf, passes, invocations>>

-----------------------------------------------------------------------------
\* "s": blockSites, over all sites of the database in whatever order it has them.

StartSites ==
    /\ phase = "ready" /\ Asks("s")
    /\ prohibitedSites' = NoRanges
    /\ phase' = "sites"
    /\ UNCHANGED <<region, mode, mask, siteMap, macroTiles, busMacroMap,
                   request, seen, column, stdout, systemUcf, passes, invocations>>

BlockSite(s) ==
    /\ phase = "sites" /\ s \in SitesIn(region) \ seen
    /\ seen' = seen \cup {s}
    /\ prohibitedSites' = AddSite(prohibitedSites, s)
    /\ UNCHANGED <<region, mode, mask, siteMap, macroTiles, busMacroMap,
                   phase, request, column, stdout, systemUcf, passes, invocations>>

\* All types are printed, clock buffers too.
PrintSites ==
    /\ phase = "sites" /\ seen = SitesIn(region)
    /\ stdout' = {prohibitedSites[k] : k \in DOMAIN prohibitedSites}
    /\ phase' = "done"
    /\ UNCHANGED <<coreVars, request, seen, column, systemUcf, passes, invocations>>

-----------------------------------------------------------------------------
\* "p": genPlaceConstraints, of which the object knows no macros.

StartColumns ==
    /\ phase = "ready" /\ Asks("p")
    /\ EnterPlaceConstraints
    /\ column' = region'.xMin
    /\ phase' = "columns"
    /\ UNCHANGED <<request, seen, stdout, systemUcf, passes, invocations>>

BlockColumn ==
    /\ phase = "columns" /\ column <= region.xMax
    /\ \E stray \in StrayTiles \cup {NoTile} :
          /\ PlaceConstraintsIn(column, stray)
          /\ systemUcf' = systemUcf \cup ColumnLines(column, stray)
    /\ column' = column + 1
    /\ UNCHANGED <<phase, request, seen, stdout, passes, invocations>>

EndColumns ==
    /\ phase = "columns" /\ column > region.xMax
    /\ phase' = "done"
    /\ UNCHANGED <<coreVars, request, seen, column, stdout, systemUcf, passes, invocations>>

-----------------------------------------------------------------------------
\* "r" and "rp": blockRoutes, whose loops are the module RouteBlocker.

BlockRoutes ==
    /\ phase = "ready" /\ (Asks("r") \/ Asks("rp"))
    /\ passes' = Append(passes, [mode |-> mode, mask |-> mask])
    /\ phase' = IF Asks("rp") THEN "again" ELSE "done"
    /\ UNCHANGED <<coreVars, request, seen, column, stdout, systemUcf, invocations>>

\* setMode and blockRoutes once more.
BlockRoutesAgain ==
    /\ phase = "again"
    /\ SetMode("partial")
    /\ passes' = Append(passes, [mode |-> mode', mask |-> mask])
    /\ phase' = "done"
    /\ UNCHANGED <<request, seen, column, stdout, systemUcf, invocations>>

-----------------------------------------------------------------------------
\* The process ends.

EndProcess ==
    /\ NewCore
    /\ phase' = "shell"
    /\ seen' = {} /\ column' = NoColumn
    /\ stdout' = {} /\ passes' = <<>>
    /\ UNCHANGED <<request, systemUcf, invocations>>

Finished == \/ phase = "done"
            \/ phase = "ready" /\ Asks("other")

Return == Finished /\ EndProcess

\* Killed from outside, or by itself: an architecture of neither family leaves main a
\* null pointer, and a region without sites makes "p" exit.
Kill == phase # "shell" /\ EndProcess

Next ==
    \/ \E corners \in Corners, op \in Operation : Invoke(corners, op)
    \/ InvokeOtherMode
    \/ Construct
    \/ StartSites \/ (\E s \in SitesIn(region) : BlockSite(s)) \/ PrintSites
    \/ StartColumns \/ BlockColumn \/ EndColumns
    \/ BlockRoutes \/ BlockRoutesAgain
    \/ Return \/ Kill

Spec == Init /\ [][Next]_vars

-----------------------------------------------------------------------------
\* Properties.

\* Types.  The ranges are typed by CornersAreKept, and those "p" computes with a fold by
\* UcfIsTheRequest.
TypeOK ==
    /\ region \in Region \cup {NoRegion}
    /\ mode \in Modes
    /\ mask \in MaskType
    /\ siteMap \subseteq Tile
    /\ macroTiles = {} /\ busMacroMap = {}
    /\ phase \in {"shell", "new", "ready", "sites", "columns", "again", "done"}
    /\ request \in Request \cup {NoRequest}
    /\ seen \subseteq DeviceSites
    /\ column \in {NoColumn} \cup 0 .. ColCount + 1
    /\ passes \in Seq([mode : Modes, mask : MaskType])
    /\ invocations \in 0 .. MaxInvocations

SeenOf(k) == {s \in seen : s.type = k}

\* A site can take the wrong end of the range: the comparison of one end is column by
\* column, of the other row by row, and a site that moves one end is not compared with the
\* other.  Still, whatever the order of the sites, once the corner site of the area was seen
\* its end of the range is right, and stays (AntiCoreBase.cpp 419-436).
CornersAreKept ==
    phase \in {"sites", "done"} /\ Asks("s") =>
        /\ DOMAIN prohibitedSites = {s.type : s \in seen}
        /\ \A k \in DOMAIN prohibitedSites :
              LET range == prohibitedSites[k]
              IN  /\ range \in [min : SeenOf(k), max : SeenOf(k)]
                  /\ \A c \in SeenOf(k) : /\ IsFirst(c, SitesIn(region)) => range.min = c
                                          /\ IsLast(c, SitesIn(region)) => range.max = c

\* A region at least Margin tiles away from every edge of the grid.
Interior(r) == /\ r.xMin >= Margin /\ r.xMax + Margin < ColCount
               /\ r.yMin >= Margin /\ r.yMax + Margin < RowCount

\* Although the constructor moved the region to and fro, what "s" prints covers every site of
\* the rectangle that the user named, of every type that has its corner sites there.
RequestIsCovered ==
    phase = "done" /\ Asks("s") /\ Interior(AskedRegion) =>
        \A s \in SitesIn(AskedRegion) : HasCorners(s.type, SitesIn(AskedRegion)) =>
            \E range \in stdout : Covers(range, s)

\* Each blockRoutes guards the rectangle that the user named and its interconnect column, also
\* where buildSiteMap has since moved the region (AntiCoreBase.cpp 43-52, 138).  setMode does
\* not rebuild the mask: the second pass of "rp" works on that of the first.
MaskIsTheRequest ==
    \A i \in DOMAIN passes : passes[i].mask = MaskOf(AskedRegion, "static")

\* system.ucf never mixes two invocations, whichever were killed on the way: it holds lines only
\* if the latest one asked for "p"; each is about sites of that one's region and its margin; and
\* when that is done, no site of the region is left out but the clock's.
UcfIsTheRequest ==
    LET around == ExpandRegion(AskedRegion, Margin)
    IN  /\ systemUcf # {} => Asks("p")
        /\ \A range \in systemUcf : {range.min, range.max} \subseteq SitesIn(around)
        /\ phase = "done" /\ Asks("p") /\ Interior(AskedRegion) =>
              \A s \in SitesIn(AskedRegion) :
                 s.type # "BUFGCTRL" => \E range \in systemUcf : Covers(range, s)

\* The inductive invariant: what the constructor has built is still there when it is used, and
\* what is printed are the ranges of all sites.
ObjectServesRequest ==
    /\ phase # "shell" => request \in Request
    /\ phase \in {"shell", "new"} => mode = "static"
    /\ phase \notin {"shell", "new"} => mask = MaskOf(AskedRegion, "static")
    /\ phase \in {"ready", "sites"} => region = Rebound(AskedRegion)
    /\ phase = "done" /\ Asks("s") => region = Rebound(AskedRegion)
    /\ phase = "sites" => Asks("s")
    /\ phase = "columns" => Asks("p")
    /\ phase = "again" => Asks("rp")
SeenSoFar ==
    /\ phase \in {"shell", "new", "ready"} => seen = {} /\ passes = <<>>
    /\ phase = "sites" => seen \subseteq SitesIn(region)
AllPrinted == phase = "done" /\ Asks("s") =>
                 /\ seen = SitesIn(region)
                 /\ stdout = {prohibitedSites[k] : k \in DOMAIN prohibitedSites}
CommandLineInvariant ==
    /\ TypeOK
    /\ ObjectServesRequest
    /\ SeenSoFar
    /\ AllPrinted
    /\ CornersAreKept
    /\ MaskIsTheRequest
=============================================================================
