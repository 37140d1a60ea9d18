------------------------------ MODULE AntiCore ------------------------------
(***************************************************************************)
(* One AntiCoreV4 or AntiCoreV5 object: the reconfigurable region it       *)
(* guards, its route mask, its map of sites and the bus macros it placed.  *)
(* Every operator below the state is one public method.  A method that     *)
(* writes to a constraints file is an action here, and an operator named   *)
(* ...Lines gives what it writes, for the caller that owns the file.       *)
(***************************************************************************)
EXTENDS Fabric

CONSTANTS Family,      \* "Virtex4" or "Virtex5": which subclass this is
          NumMacros,   \* bus macros per direction: the bus width over macroWidth
          StrayTiles   \* tiles that a look-up past the grid may yield

NoTile == <<-1, -1>>   \* such a look-up may also yield no tile that has sites

Margin == 3   \* tiles around the region that also lose their sites
PromisedMargin == 2   \* those that the comment on the expansion speaks of

ASSUME AntiCoreAssumption ==
    /\ RowCount > Margin /\ ColCount > Margin
    /\ Family \in {"Virtex4", "Virtex5"}
    /\ NumMacros \in Nat \ {0}
    /\ StrayTiles \subseteq Tile

VARIABLES
    region,           \* xMin, xMax, yMin, yMax
    mode,             \* currentMode
    mask,             \* mask
    siteMap,          \* the tiles siteMap has sites of; each comes with all its sites
    macroTiles,       \* macroTiles
    busMacroMap,      \* name (direction and index) and type of every placed macro
    prohibitedSites   \* site type -> range accumulated and not written yet

coreVars == <<region, mode, mask, siteMap, macroTiles, busMacroMap, prohibitedSites>>

RegionIsDefined == region.xMin # -1

-----------------------------------------------------------------------------
\* Construction, the mode and the region.

InitCore == /\ region = NoRegion
            /\ mode = "static"
            /\ mask = [t \in Tile |-> Unset]
            /\ siteMap = {}
            /\ macroTiles = {}
            /\ busMacroMap = {}
            /\ prohibitedSites = NoRanges

\* A process that ends takes its object with it; the next one starts afresh.
NewCore == /\ region' = NoRegion
           /\ mode' = "static"
           /\ mask' = [t \in Tile |-> Unset]
           /\ siteMap' = {}
           /\ macroTiles' = {}
           /\ busMacroMap' = {}
           /\ prohibitedSites' = NoRanges

SetMode(m) ==
    /\ mode' = m
    /\ UNCHANGED <<region, mask, siteMap, macroTiles, busMacroMap, prohibitedSites>>

\* Slip: setupRouteBlocker is not run again.
SetRegionVerticesOnly(v) ==
    /\ region' = v
    /\ UNCHANGED <<mode, mask, siteMap, macroTiles, busMacroMap, prohibitedSites>>

\* The verdict of validateRegion is dropped here.
SetRegionVertices(v) ==
    /\ region' = v
    /\ mask' = MaskOf(v, mode)
    /\ UNCHANGED <<mode, siteMap, macroTiles, busMacroMap, prohibitedSites>>

\* One AREA_GROUP line, the sites it names being in tiles a and b.
UpdateRegionExpand(a, b) ==
    /\ region' = ExpandRegionToINT(IF RegionIsDefined THEN Hull(region, Span(a, b))
                                                      ELSE Span(a, b))
    /\ mask' = MaskOf(region', mode)
    /\ UNCHANGED <<mode, siteMap, macroTiles, busMacroMap, prohibitedSites>>

\* The tiles getRegionTiles names.
GetRegionTiles == {t \in Tile : mask[t] = 0}

-----------------------------------------------------------------------------
\* The site map, built once, on the first call that needs it.

SiteMapOf(r) ==
    {t \in Tile : SitesOf[t] # <<>> /\ InRegion(ExpandRegion(r, Margin), t)}

\* Slip: the expansion stays.
ReboundNot(r) == ExpandRegion(r, Margin)

\* The region buildSiteMap leaves behind.
Rebound(r) == ShrinkRegion(ExpandRegion(r, Margin), Margin)

SiteMapBuilt == IF siteMap = {} THEN SiteMapOf(region) ELSE siteMap
RegionBuilt  == IF siteMap = {} THEN Rebound(region) ELSE region

-----------------------------------------------------------------------------
\* Bus macros.

MacroTileTypes == IF Family = "Virtex5" THEN {"CLBLL", "CLBLM"} ELSE {"CLB"}
NoIndex        == -1   \* V4 names carry no index

\* The layout that macros need besides.
MacroTilesHaveSlices == \A t \in Tile : TileType[t] \in MacroTileTypes => SlicesAt(t) # {}

\* Tiles of row y of the region that can hold a macro.
CandidateTiles(r, y) ==
    {<<y, c>> : c \in {c \in Col : InRegion(r, <<y, c>>)
                                   /\ TileType[<<y, c>>] \in MacroTileTypes}}

Rank(t, S)  == Cardinality({u \in S : u[2] < t[2]})
Leftmost(S) == {t \in S : Rank(t, S) < NumMacros}

\* The macros of one direction, numbered from the left.
MacrosOn(dir, S) ==
    {[name |-> [dir   |-> dir,
                index |-> IF Family = "Virtex5" THEN Rank(t, S) ELSE NoIndex],
      type |-> <<dir, TileType[t]>>,
      tile |-> t] : t \in Leftmost(S)}

TilesOf(macros) == {m.tile : m \in macros}
NamesOf(macros) == {m.name : m \in macros}

\* What genMacroPlacement places in region r: input macros in row yMin, output
\* macros in row yMax.  When those are one row, a V5 tile takes one macro, the
\* input one, and a V4 tile that takes both is recorded as the output one.
MacroPlacementV5(r) ==
    LET inputs == MacrosOn("input", CandidateTiles(r, r.yMin))
    IN  inputs \cup MacrosOn("output", CandidateTiles(r, r.yMax) \ TilesOf(inputs))

MacroPlacementV4(r) ==
    LET outputs == MacrosOn("output", CandidateTiles(r, r.yMax))
    IN  outputs \cup {m \in MacrosOn("input", CandidateTiles(r, r.yMin)) :
                         m.tile \notin TilesOf(outputs)}

MacroPlacement(r) == IF Family = "Virtex5" THEN MacroPlacementV5(r) ELSE MacroPlacementV4(r)

DefaultSite == [type |-> "SLICE", x |-> 0, y |-> 0]

\* placeMacro: the last SLICE of the tile.
PlaceMacro(t, sm) ==
    LET slices == IF t \in sm THEN SlicesAt(t) ELSE {}
    IN  CHOOSE s \in slices \cup {DefaultSite} :
            \A u \in slices : u # s => After(s, u)

\* The INST ... LOC lines.
MacroLines ==
    {[name |-> m.name, loc |-> PlaceMacro(m.tile, SiteMapBuilt)]
        : m \in MacroPlacement(RegionBuilt)}

\* A region without sites ends the program instead.
GenMacroPlacement ==
    /\ RegionIsDefined /\ SiteMapBuilt # {}
    /\ siteMap' = SiteMapBuilt
    /\ region' = RegionBuilt
    /\ LET macros == MacroPlacement(RegionBuilt)
       IN  /\ busMacroMap' = busMacroMap \cup {[name |-> m.name, type |-> m.type]
                                                  : m \in macros}
           /\ macroTiles' = macroTiles \cup TilesOf(macros)
    /\ UNCHANGED <<mode, mask, prohibitedSites>>

-----------------------------------------------------------------------------
\* PROHIBIT constraints.

\* What genProhibitConstraints writes: clock buffers are never prohibited.
Written(ranges) == {ranges[k] : k \in DOMAIN ranges \ {"BUFGCTRL"}}

Flush(acc) == [ranges |-> NoRanges, lines |-> acc.lines \cup Written(acc.ranges)]

\* Slip: a macro tile is skipped, and the ranges run on across it.
VisitTileNoCut(acc, t) ==
    IF t \notin siteMap \ macroTiles THEN acc
    ELSE [acc EXCEPT !.ranges = FoldLeft(AddSite, @, SitesOf[t])]

\* One tile of a column: a macro tile cuts the ranges, any other adds its sites.
VisitTile(acc, t) ==
    CASE t \notin siteMap -> acc
      [] t \in siteMap \cap macroTiles -> Flush(acc)
      [] OTHER -> [acc EXCEPT !.ranges = FoldLeft(AddSite, @, SitesOf[t])]

\* A tile off the grid is whatever the look-up yields.
TileAt(row, col, stray) == IF <<row, col>> \in Tile THEN <<row, col>> ELSE stray

\* One column of the region, from its top row down.  The ranges are written on
\* entering a column, so those of the last one stay in prohibitedSites.
VisitColumn(col, stray) ==
    FoldLeft(VisitTile, Flush([ranges |-> prohibitedSites, lines |-> {}]),
             [i \in 1 .. region.yMax - region.yMin + 1 |->
                 TileAt(region.yMin + i - 1, col, stray)])

\* Slip: the expansion is the one that the comment speaks of.
EnterWithPromisedMargin ==
    /\ RegionIsDefined /\ SiteMapBuilt # {}
    /\ siteMap' = SiteMapBuilt
    /\ region' = ExpandRegion(RegionBuilt, PromisedMargin)
    /\ UNCHANGED <<mode, mask, macroTiles, busMacroMap, prohibitedSites>>

\* genPlaceConstraints up to its loop.  The expansion is never undone.
EnterPlaceConstraints ==
    /\ RegionIsDefined /\ SiteMapBuilt # {}
    /\ siteMap' = SiteMapBuilt
    /\ region' = ExpandRegion(RegionBuilt, Margin)
    /\ UNCHANGED <<mode, mask, macroTiles, busMacroMap, prohibitedSites>>

ColumnLines(col, stray) == VisitColumn(col, stray).lines

PlaceConstraintsIn(col, stray) ==
    /\ prohibitedSites' = VisitColumn(col, stray).ranges
    /\ UNCHANGED <<region, mode, mask, siteMap, macroTiles, busMacroMap>>
=============================================================================
