--------------------------- MODULE AntiCoreProofs ---------------------------
(***************************************************************************)
(* What the region arithmetic and the placement of macros return, for      *)
(* every grid and every region in it; and what the ranges that             *)
(* genProhibitConstraints writes cover, for sites in any order: one site   *)
(* added to a range, the sites of a tile, the tiles of a column.           *)
(***************************************************************************)
EXTENDS AntiCore, FiniteSetTheorems, Induction

-----------------------------------------------------------------------------
\* The region.

LEMMA GridRegionIsRegion == GridRegion \subseteq Region
  BY FabricAssumption DEF GridRegion, Region, Row, Col

\* The -1 of a region that is not defined yet is in no region.
LEMMA RegionHasColumns ==
    /\ \A r \in Region : r.xMin # -1 /\ r # NoRegion
    /\ NoRegion.xMin = -1
  BY DEF Region, NoRegion

LEMMA NoRegionIsInvalid == ~ValidateRegion(NoRegion)
  BY DEF ValidateRegion, NoRegion, ValidBoundaries, Row

LEMMA SpanIsGridRegion ==
    ASSUME NEW a \in Tile, NEW b \in Tile
    PROVE  Span(a, b) \in GridRegion
  BY FabricAssumption DEF Span, GridRegion, Tile, Row, Col, Lesser, Greater

LEMMA HullIsGridRegion ==
    ASSUME NEW r \in GridRegion, NEW s \in GridRegion
    PROVE  Hull(r, s) \in GridRegion
  BY FabricAssumption DEF Hull, GridRegion, Row, Col, Lesser, Greater

\* The set that expandRegionToINT searches holds at most three columns.
LEMMA MaxOfThree ==
    ASSUME NEW n \in Int, NEW S \in SUBSET ((n - 2) .. n), S # {}
    PROVE  Max(S) \in S
  <1>1. \E x \in S : \A y \in S : x >= y
    <2>1. CASE n \in S
      BY <2>1
    <2>2. CASE n \notin S /\ n - 1 \in S
      BY <2>2
    <2>3. CASE n \notin S /\ n - 1 \notin S
      <3>1. PICK x \in S : TRUE
        OBVIOUS
      <3>2. \A y \in S : y = n - 2
        BY <2>3
      <3>3. \A y \in S : x >= y
        BY <3>2
      <3> QED BY <3>3
    <2> QED BY <2>1, <2>2, <2>3
  <1> QED BY <1>1 DEF Max

\* An interconnect column is to the left, and the rest of the region is left alone.
LEMMA ToINTMovesLeft ==
    ASSUME NEW r \in GridRegion
    PROVE  /\ ExpandRegionToINT(r) \in GridRegion
           /\ ExpandRegionToINT(r).xMin <= r.xMin
           /\ ExpandRegionToINT(r).xMax = r.xMax
           /\ ExpandRegionToINT(r).yMin = r.yMin
           /\ ExpandRegionToINT(r).yMax = r.yMax
  <1> DEFINE stops == {c \in (r.xMin - 2) .. r.xMin :
                          c = 0 \/ (c > 0 /\ TileType[<<r.yMax, c>>] = "INT")}
  <1>1. r.xMin \in Int
    BY FabricAssumption DEF GridRegion, Col
  <1>2. CASE stops = {}
    <2>1. ExpandRegionToINT(r) = r
      BY <1>2 DEF ExpandRegionToINT
    <2> HIDE DEF stops
    <2> QED BY <2>1, <1>1
  <1>3. CASE stops # {}
    <2>1. Max(stops) \in stops
      BY <1>1, <1>3, MaxOfThree
    <2>2. Max(stops) \in 0 .. r.xMin
      BY <2>1, <1>1
    <2>3. ExpandRegionToINT(r) = [r EXCEPT !.xMin = Max(stops)]
      BY <1>3 DEF ExpandRegionToINT
    <2> HIDE DEF stops
    <2>4. r \in [xMin : Col, xMax : Col, yMin : Row, yMax : Row]
      BY DEF GridRegion
    <2> QED BY <1>1, <2>2, <2>3, <2>4, FabricAssumption DEF GridRegion, Col, Row
  <1> QED BY <1>2, <1>3

LEMMA ToINTIsGridRegion ==
    ASSUME NEW r \in GridRegion
    PROVE  ExpandRegionToINT(r) \in GridRegion
  BY ToINTMovesLeft

LEMMA ExpandIsRegion ==
    ASSUME NEW r \in Region
    PROVE  ExpandRegion(r, Margin) \in Region
  BY FabricAssumption DEF ExpandRegion, Region, Margin, Lesser, Greater

\* Moved to and fro, a region of the grid keeps its rows and columns on the grid ...
LEMMA ReboundIsGridRegion ==
    ASSUME NEW r \in GridRegion
    PROVE  Rebound(r) \in GridRegion
  <1> DEFINE e == ExpandRegion(r, Margin)
             b == Rebound(r)
  <1>1. /\ r.xMin \in 0 .. ColCount - 1 /\ r.xMax \in 0 .. ColCount - 1 /\ r.xMin <= r.xMax
        /\ r.yMin \in 0 .. RowCount - 1 /\ r.yMax \in 0 .. RowCount - 1 /\ r.yMin <= r.yMax
        /\ ColCount \in Nat /\ ColCount > 3 /\ RowCount \in Nat /\ RowCount > 3
    BY FabricAssumption, AntiCoreAssumption DEF GridRegion, Row, Col, Margin
  <1>2. /\ e.xMin = Greater(0, r.xMin - 3) /\ e.xMax = Lesser(ColCount, r.xMax + 3)
        /\ e.yMin = Greater(0, r.yMin - 3) /\ e.yMax = Lesser(RowCount, r.yMax + 3)
    BY DEF ExpandRegion, Margin
  <1>3. b = [xMin |-> b.xMin, xMax |-> b.xMax, yMin |-> b.yMin, yMax |-> b.yMax]
    BY DEF Rebound, ShrinkRegion
  <1>4. /\ b.xMin = Lesser(e.xMax, e.xMin + 3) /\ b.xMax = Greater(b.xMin, e.xMax - 3)
        /\ b.yMin = Lesser(e.yMax, e.yMin + 3) /\ b.yMax = Greater(b.yMin, e.yMax - 3)
    BY DEF Rebound, ShrinkRegion, Margin
  <1> HIDE DEF e, b
  <1>5. b.xMin \in 0 .. ColCount - 1 /\ b.xMax \in 0 .. ColCount - 1 /\ b.xMin <= b.xMax
    BY <1>1, <1>2, <1>4 DEF Lesser, Greater
  <1>6. b.yMin \in 0 .. RowCount - 1 /\ b.yMax \in 0 .. RowCount - 1 /\ b.yMin <= b.yMax
    BY <1>1, <1>2, <1>4 DEF Lesser, Greater
  <1>7. b \in GridRegion
    BY <1>3, <1>5, <1>6 DEF GridRegion, Row, Col
  <1> QED BY <1>7 DEF b

\* ... and comes back to the same place if it was clear of the edges.
LEMMA InteriorRebounds ==
    ASSUME NEW r \in GridRegion,
           r.xMin >= Margin, r.xMax + Margin < ColCount,
           r.yMin >= Margin, r.yMax + Margin < RowCount
    PROVE  Rebound(r) = r
  BY FabricAssumption
  DEF Rebound, ShrinkRegion, ExpandRegion, GridRegion, Margin, Row, Col, Lesser, Greater

LEMMA MaskIsTyped ==
    ASSUME NEW r, NEW m
    PROVE  MaskOf(r, m) \in MaskType
  BY DEF MaskOf, MaskType

\* A static mask is 0 exactly in the region.
LEMMA StaticMask ==
    ASSUME NEW r
    PROVE  \A t \in Tile : MaskOf(r, "static")[t] = 0 <=> InRegion(r, t)
  BY DEF MaskOf

-----------------------------------------------------------------------------
\* Bus macros.

\* The tiles a macro may go to lie in one row of the region.
LEMMA CandidatesAreTiles ==
    ASSUME NEW r \in GridRegion, NEW y \in {r.yMin, r.yMax}
    PROVE  /\ \A t \in CandidateTiles(r, y) : /\ t \in Tile /\ t[1] = y
                                              /\ InRegion(r, t)
                                              /\ TileType[t] \in MacroTileTypes
           /\ IsFiniteSet(CandidateTiles(r, y))
  <1>1. y \in Row
    BY DEF GridRegion
  <1>2. ASSUME NEW c \in Col, InRegion(r, <<y, c>>), TileType[<<y, c>>] \in MacroTileTypes
        PROVE  <<y, c>> \in Tile
    BY <1>1 DEF Tile
  <1>3. \A t \in CandidateTiles(r, y) : \E c \in Col :
            t = <<y, c>> /\ InRegion(r, <<y, c>>) /\ TileType[<<y, c>>] \in MacroTileTypes
    BY DEF CandidateTiles
  <1>4. \A t \in CandidateTiles(r, y) : /\ t \in Tile /\ t[1] = y
                                        /\ InRegion(r, t)
                                        /\ TileType[t] \in MacroTileTypes
    <2> SUFFICES ASSUME NEW t \in CandidateTiles(r, y)
                 PROVE  /\ t \in Tile /\ t[1] = y
                        /\ InRegion(r, t)
                        /\ TileType[t] \in MacroTileTypes
      OBVIOUS
    <2>1. PICK c \in Col :
            t = <<y, c>> /\ InRegion(r, <<y, c>>) /\ TileType[<<y, c>>] \in MacroTileTypes
      BY <1>3
    <2>2. t \in Tile
      BY <2>1, <1>2
    <2>3. t[1] = y
      BY <2>1
    <2>4. InRegion(r, t) /\ TileType[t] \in MacroTileTypes
      BY ONLY <2>1, Zenon
    <2> QED BY <2>2, <2>3, <2>4
  <1>5. IsFiniteSet(CandidateTiles(r, y))
    <2>1. IsFiniteSet(Row) /\ IsFiniteSet(Col)
      BY FabricAssumption, FS_Interval DEF Row, Col
    <2>2. IsFiniteSet(Tile)
      BY <2>1, FS_Product DEF Tile
    <2>3. CandidateTiles(r, y) \in SUBSET Tile
      BY <1>4
    <2> QED BY <2>2, <2>3, FS_Subset
  <1> QED BY <1>4, <1>5

LEMMA RankIsNat ==
    ASSUME NEW S, IsFiniteSet(S), NEW t
    PROVE  Rank(t, S) \in Nat
  <1>1. IsFiniteSet({u \in S : u[2] < t[2]})
    BY FS_Subset
  <1> QED BY <1>1, FS_CardinalityType DEF Rank

\* A macro as the model records it, in a tile of set T.
Placed(T) == [name : [dir : {"input", "output"}, index : Nat \cup {NoIndex}],
              type : {"input", "output"} \X MacroTileTypes,
              tile : T]

\* V5 macros are told apart by an index, V4 macros are not.
HasItsIndex(m) == (Family = "Virtex5") => m.name.index # NoIndex

LEMMA MacrosOnARow ==
    ASSUME NEW S, IsFiniteSet(S), \A t \in S : TileType[t] \in MacroTileTypes,
           NEW dir \in {"input", "output"}
    PROVE  \A m \in MacrosOn(dir, S) : m \in Placed(S) /\ HasItsIndex(m)
  <1> SUFFICES ASSUME NEW t \in Leftmost(S)
               PROVE  LET m == [name |-> [dir |-> dir,
                                          index |-> IF Family = "Virtex5" THEN Rank(t, S)
                                                    ELSE NoIndex],
                                type |-> <<dir, TileType[t]>>,
                                tile |-> t]
                      IN  m \in Placed(S) /\ HasItsIndex(m)
    BY DEF MacrosOn
  <1>1. t \in S
    BY DEF Leftmost
  <1>2. Rank(t, S) \in Nat
    BY RankIsNat
  <1> QED BY <1>1, <1>2 DEF Placed, HasItsIndex, NoIndex

\* Wherever the region lies, its macros are in its first and last row.
LEMMA PlacementIsOnBoundary ==
    ASSUME NEW r \in GridRegion
    PROVE  \A m \in MacroPlacement(r) :
              /\ m \in Placed({t \in Tile : InRegion(r, t) /\ t[1] \in {r.yMin, r.yMax}})
              /\ HasItsIndex(m)
  <1> DEFINE top    == CandidateTiles(r, r.yMin)
             bottom == CandidateTiles(r, r.yMax)
             inputs == MacrosOn("input", top)
             edge   == {t \in Tile : InRegion(r, t) /\ t[1] \in {r.yMin, r.yMax}}
  <1>1. /\ top \subseteq edge /\ bottom \subseteq edge
        /\ \A t \in top \cup bottom : TileType[t] \in MacroTileTypes
        /\ IsFiniteSet(top) /\ IsFiniteSet(bottom)
    BY CandidatesAreTiles
  <1> HIDE DEF top, bottom, edge
  <1>2. \A m \in inputs : m \in Placed(top) /\ HasItsIndex(m)
    BY <1>1, MacrosOnARow
  <1>3. \A S \in SUBSET bottom : \A m \in MacrosOn("output", S) : m \in Placed(S) /\ HasItsIndex(m)
    <2> SUFFICES ASSUME NEW S \in SUBSET bottom
                 PROVE  \A m \in MacrosOn("output", S) : m \in Placed(S) /\ HasItsIndex(m)
      OBVIOUS
    <2>1. IsFiniteSet(S) /\ \A t \in S : TileType[t] \in MacroTileTypes
      BY <1>1, FS_Subset
    <2> QED BY <2>1, MacrosOnARow
  <1>4. \A S \in SUBSET edge : Placed(S) \subseteq Placed(edge)
    BY DEF Placed
  <1>5. \A m \in MacroPlacement(r) :
            \/ m \in inputs
            \/ m \in MacrosOn("output", bottom \ TilesOf(inputs))
            \/ m \in MacrosOn("output", bottom)
    BY DEF MacroPlacement, MacroPlacementV5, MacroPlacementV4, top, bottom
  <1>6. \A m \in MacroPlacement(r) : m \in Placed(edge) /\ HasItsIndex(m)
    <2> SUFFICES ASSUME NEW m \in MacroPlacement(r)
                 PROVE  m \in Placed(edge) /\ HasItsIndex(m)
      OBVIOUS
    <2> HIDE DEF inputs
    <2>1. CASE m \in inputs
      BY <2>1, <1>1, <1>2, <1>4
    <2>2. CASE m \in MacrosOn("output", bottom \ TilesOf(inputs))
      <3>1. bottom \ TilesOf(inputs) \in SUBSET bottom
        OBVIOUS
      <3> QED BY <2>2, <3>1, <1>1, <1>3, <1>4
    <2>3. CASE m \in MacrosOn("output", bottom)
      BY <2>3, <1>1, <1>3, <1>4
    <2> QED BY <1>5, <2>1, <2>2, <2>3 DEF inputs
  <1> QED BY <1>6 DEF edge

\* In one row of tiles, no two have one rank.
LEMMA RankOrders ==
    ASSUME NEW S, IsFiniteSet(S), \A t \in S : t[2] \in Int,
           NEW t \in S, NEW u \in S, t[2] < u[2]
    PROVE  Rank(t, S) < Rank(u, S)
  <1> DEFINE A == {v \in S : v[2] < t[2]}
             B == {v \in S : v[2] < u[2]}
  <1>1. A \subseteq B /\ t \in B /\ t \notin A
    OBVIOUS
  <1>2. IsFiniteSet(B) /\ IsFiniteSet(A)
    BY FS_Subset
  <1> HIDE DEF A, B
  <1>3. /\ Cardinality(A) \in Nat /\ Cardinality(B) \in Nat
        /\ Cardinality(A) <= Cardinality(B)
        /\ Cardinality(A) = Cardinality(B) => A = B
    BY <1>1, <1>2, FS_Subset, FS_CardinalityType
  <1>4. Cardinality(A) # Cardinality(B)
    BY <1>1, <1>3
  <1>5. Cardinality(A) < Cardinality(B)
    BY <1>3, <1>4
  <1> QED BY <1>5 DEF Rank, A, B

\* So that on a V5 a macro's name tells its tile.
LEMMA NameTellsTile ==
    ASSUME Family = "Virtex5", NEW S \in SUBSET Tile, IsFiniteSet(S),
           NEW y, \A t \in S : t[1] = y,
           NEW dir, NEW l \in MacrosOn(dir, S), NEW m \in MacrosOn(dir, S), l.name = m.name
    PROVE  l.tile = m.tile
  <1>1. \A t \in S : t \in Tile /\ t[2] \in Int /\ t = <<y, t[2]>>
    BY FabricAssumption DEF Tile, Row, Col
  <1>2. /\ l.tile \in S /\ m.tile \in S
        /\ Rank(l.tile, S) = Rank(m.tile, S)
    BY DEF MacrosOn, Leftmost
  <1>3. Rank(l.tile, S) \in Nat
    BY RankIsNat
  <1>4. ~(l.tile[2] < m.tile[2])
    <2>1. l.tile[2] < m.tile[2] => Rank(l.tile, S) < Rank(m.tile, S)
      BY <1>1, <1>2, RankOrders
    <2> QED BY <2>1, <1>2, <1>3
  <1>5. ~(m.tile[2] < l.tile[2])
    <2>1. m.tile[2] < l.tile[2] => Rank(m.tile, S) < Rank(l.tile, S)
      BY <1>1, <1>2, RankOrders
    <2> QED BY <2>1, <1>2, <1>3
  <1>6. l.tile[2] \in Int /\ m.tile[2] \in Int
    BY <1>1, <1>2
  <1>7. l.tile[2] = m.tile[2]
    BY <1>4, <1>5, <1>6
  <1> QED BY <1>1, <1>2, <1>7

LEMMA PlacementNamesAreUnique ==
    ASSUME Family = "Virtex5", NEW r \in GridRegion,
           NEW l \in MacroPlacement(r), NEW m \in MacroPlacement(r), l.name = m.name
    PROVE  l.tile = m.tile
  <1> DEFINE top    == CandidateTiles(r, r.yMin)
             inputs == MacrosOn("input", top)
             bottom == CandidateTiles(r, r.yMax) \ TilesOf(inputs)
  <1>1. /\ top \in SUBSET Tile /\ \A t \in top : t[1] = r.yMin
        /\ bottom \in SUBSET Tile /\ \A t \in bottom : t[1] = r.yMax
        /\ IsFiniteSet(top) /\ IsFiniteSet(bottom)
    BY CandidatesAreTiles, FS_Subset
  <1>2. MacroPlacement(r) = inputs \cup MacrosOn("output", bottom)
    BY DEF MacroPlacement, MacroPlacementV5
  <1> HIDE DEF top, bottom
  <1>3. /\ \A i \in inputs : i.name.dir = "input"
        /\ \A o \in MacrosOn("output", bottom) : o.name.dir = "output"
    BY DEF MacrosOn
  <1>4. CASE l \in inputs /\ m \in inputs
    BY <1>1, <1>4, NameTellsTile
  <1>5. CASE l \in MacrosOn("output", bottom) /\ m \in MacrosOn("output", bottom)
    BY <1>1, <1>5, NameTellsTile
  <1> QED BY <1>2, <1>3, <1>4, <1>5

-----------------------------------------------------------------------------
\* The ranges of the sites prohibited.

\* Extend moves one end of a range or none.
LEMMA ExtendCases ==
    ASSUME NEW S, NEW r \in [min : S, max : S], NEW s
    PROVE  /\ Extend(r, s) \in [min : S \cup {s}, max : S \cup {s}]
           /\ Before(s, r.min) => Extend(r, s).min = s /\ Extend(r, s).max = r.max
           /\ ~Before(s, r.min) => Extend(r, s).min = r.min
           /\ ~Before(s, r.min) /\ After(s, r.max) => Extend(r, s).max = s
           /\ ~After(s, r.max) => Extend(r, s).max = r.max
  BY DEF Extend

\* No site of its type comes before the first corner; no other even ties with it.
LEMMA FirstCorner ==
    ASSUME NEW area \in SUBSET DeviceSites, NEW c, IsFirst(c, area),
           NEW s \in area, s.type = c.type
    PROVE  /\ ~Before(s, c)
           /\ s # c => Before(c, s)
  <1>1. /\ c.x <= s.x /\ c.y <= s.y
        /\ s.x \in Int /\ s.y \in Int /\ c.x \in Int /\ c.y \in Int
    BY FabricAssumption DEF IsFirst
  <1>2. s # c => ~(s.x = c.x /\ s.y = c.y)
    BY FabricAssumption DEF IsFirst
  <1> QED BY <1>1, <1>2 DEF Before

\* The last corner moves the upper end, and never the lower one instead.
LEMMA LastCorner ==
    ASSUME NEW area \in SUBSET DeviceSites, NEW c, IsLast(c, area),
           NEW s \in area, s.type = c.type
    PROVE  /\ ~After(s, c)
           /\ ~Before(c, s)
           /\ s # c => After(c, s)
  <1>1. /\ c.x >= s.x /\ c.y >= s.y
        /\ s.x \in Int /\ s.y \in Int /\ c.x \in Int /\ c.y \in Int
    BY FabricAssumption DEF IsLast
  <1>2. s # c => ~(s.x = c.x /\ s.y = c.y)
    BY FabricAssumption DEF IsLast
  <1> QED BY <1>1, <1>2 DEF Before, After

\* What CornersAreKept says of one type: the range is of sites S, and right at either end
\* whose corner site is among them.
RangeKeepsCorners(range, S, area) ==
    /\ range \in [min : S, max : S]
    /\ \A c \in S : /\ IsFirst(c, area) => range.min = c
                    /\ IsLast(c, area) => range.max = c

LEMMA NewRangeKeepsCorners ==
    ASSUME NEW s, NEW area
    PROVE  RangeKeepsCorners(NewRange(s), {s}, area)
  BY DEF RangeKeepsCorners, NewRange

LEMMA ExtendKeepsCorners ==
    ASSUME NEW area \in SUBSET DeviceSites, NEW s \in area,
           NEW S \in SUBSET area, \A u \in S : u.type = s.type,
           NEW range, RangeKeepsCorners(range, S, area)
    PROVE  RangeKeepsCorners(Extend(range, s), S \cup {s}, area)
  <1>1. range \in [min : S, max : S]
    BY DEF RangeKeepsCorners
  <1>2. Extend(range, s) \in [min : S \cup {s}, max : S \cup {s}]
    BY <1>1, ExtendCases
  <1>3. /\ range.min \in area /\ range.min.type = s.type
        /\ range.max \in area /\ range.max.type = s.type
    BY <1>1
  <1>4. ASSUME NEW c \in S \cup {s}, IsFirst(c, area)
        PROVE  Extend(range, s).min = c
    <2>1. CASE c = s
      <3>1. Before(s, range.min) \/ range.min = s
        BY <1>3, <1>4, <2>1, FirstCorner
      <3>2. ~Before(s, s)
        BY <1>4, <2>1, FirstCorner
      <3> QED BY <3>1, <3>2, <2>1, <1>1, ExtendCases
    <2>2. CASE c # s
      <3>1. range.min = c /\ c.type = s.type
        BY <2>2, <1>4 DEF RangeKeepsCorners
      <3>2. ~Before(s, range.min)
        BY <3>1, <1>4, FirstCorner
      <3> QED BY <3>1, <3>2, <1>1, ExtendCases
    <2> QED BY <2>1, <2>2
  <1>5. ASSUME NEW c \in S \cup {s}, IsLast(c, area)
        PROVE  Extend(range, s).max = c
    <2>1. CASE c = s
      <3>1. ~Before(s, range.min) /\ (After(s, range.max) \/ range.max = s)
        BY <1>3, <1>5, <2>1, LastCorner
      <3>2. ~After(s, s)
        BY <1>5, <2>1, LastCorner
      <3> QED BY <3>1, <3>2, <2>1, <1>1, ExtendCases
    <2>2. CASE c # s
      <3>1. range.max = c /\ c.type = s.type
        BY <2>2, <1>5 DEF RangeKeepsCorners
      <3>2. ~After(s, range.max)
        BY <3>1, <1>5, LastCorner
      <3> QED BY <3>1, <3>2, <1>1, ExtendCases
    <2> QED BY <2>1, <2>2
  <1> QED BY <1>2, <1>4, <1>5 DEF RangeKeepsCorners

\* AddSite changes the range of the site's type, and no other.
LEMMA AddSiteValue ==
    ASSUME NEW ranges, NEW s
    PROVE  /\ DOMAIN AddSite(ranges, s) = DOMAIN ranges \cup {s.type}
           /\ \A k \in DOMAIN ranges : k # s.type => AddSite(ranges, s)[k] = ranges[k]
           /\ s.type \in DOMAIN ranges =>
                 AddSite(ranges, s)[s.type] = Extend(ranges[s.type], s)
           /\ s.type \notin DOMAIN ranges => AddSite(ranges, s)[s.type] = NewRange(s)
  BY DEF AddSite

-----------------------------------------------------------------------------
\* The ranges of a set of sites, added in any order.

OfType(k, A) == {s \in A : s.type = k}

\* One range for each type, between two sites of that type, at a corner site if there is one.
Encloses(ranges, A) ==
    /\ DOMAIN ranges = {s.type : s \in A}
    /\ \A k \in DOMAIN ranges : RangeKeepsCorners(ranges[k], OfType(k, A), A)

LEMMA NoRangesEnclose == Encloses(NoRanges, {})
  BY DEF Encloses, NoRanges

LEMMA AddSiteEncloses ==
    ASSUME NEW A \in SUBSET DeviceSites, NEW s \in DeviceSites,
           NEW ranges, Encloses(ranges, A)
    PROVE  Encloses(AddSite(ranges, s), A \cup {s})
  <1> DEFINE B    == A \cup {s}
             next == AddSite(ranges, s)
  <1>1. DOMAIN next = {u.type : u \in B}
    <2>1. {u.type : u \in B} = {u.type : u \in A} \cup {s.type}
      OBVIOUS
    <2>2. DOMAIN next = DOMAIN ranges \cup {s.type}
      BY AddSiteValue
    <2> QED BY <2>1, <2>2 DEF Encloses
  <1>2. ASSUME NEW k \in DOMAIN ranges
        PROVE  RangeKeepsCorners(ranges[k], OfType(k, A), B)
    <2>1. RangeKeepsCorners(ranges[k], OfType(k, A), A)
      BY DEF Encloses
    <2>2. \A c \in OfType(k, A) : /\ IsFirst(c, B) => IsFirst(c, A)
                                  /\ IsLast(c, B) => IsLast(c, A)
      BY DEF IsFirst, IsLast, OfType
    <2> QED BY <2>1, <2>2 DEF RangeKeepsCorners
  <1>3. ASSUME NEW k \in DOMAIN ranges, k # s.type
        PROVE  RangeKeepsCorners(next[k], OfType(k, B), B)
    <2>1. OfType(k, B) = OfType(k, A) /\ next[k] = ranges[k]
      BY <1>3, AddSiteValue DEF OfType
    <2> QED BY <2>1, <1>2
  <1>4. OfType(s.type, B) = OfType(s.type, A) \cup {s}
    BY DEF OfType
  <1>5. CASE s.type \in DOMAIN ranges
    <2>1. /\ B \in SUBSET DeviceSites /\ OfType(s.type, A) \in SUBSET B
          /\ \A u \in OfType(s.type, A) : u.type = s.type
      BY DEF OfType
    <2>2. RangeKeepsCorners(Extend(ranges[s.type], s), OfType(s.type, B), B)
      BY <1>2, <1>4, <1>5, <2>1, ExtendKeepsCorners
    <2>3. next[s.type] = Extend(ranges[s.type], s)
      BY <1>5, AddSiteValue
    <2>4. DOMAIN next = DOMAIN ranges \cup {s.type}
      BY AddSiteValue
    <2> HIDE DEF next, B
    <2>5. ASSUME NEW k \in DOMAIN next
          PROVE  RangeKeepsCorners(next[k], OfType(k, B), B)
      BY <1>3, <2>2, <2>3, <2>4
    <2>6. Encloses(next, B)
      BY <1>1, <2>5 DEF Encloses
    <2> QED BY <2>6 DEF next, B
  <1>6. CASE s.type \notin DOMAIN ranges
    <2>1. OfType(s.type, B) = {s}
      BY <1>4, <1>6 DEF Encloses, OfType
    <2>2. RangeKeepsCorners(NewRange(s), OfType(s.type, B), B)
      BY <2>1, NewRangeKeepsCorners
    <2>3. next[s.type] = NewRange(s)
      BY <1>6, AddSiteValue
    <2>4. DOMAIN next = DOMAIN ranges \cup {s.type}
      BY AddSiteValue
    <2> HIDE DEF next, B
    <2>5. ASSUME NEW k \in DOMAIN next
          PROVE  RangeKeepsCorners(next[k], OfType(k, B), B)
      BY <1>3, <2>2, <2>3, <2>4
    <2>6. Encloses(next, B)
      BY <1>1, <2>5 DEF Encloses
    <2> QED BY <2>6 DEF next, B
  <1> QED BY <1>5, <1>6

\* A type that has its corner sites in the area has a range that covers it.
LEMMA CornersCover ==
    ASSUME NEW A \in SUBSET DeviceSites, NEW ranges, Encloses(ranges, A),
           NEW s \in A, HasCorners(s.type, A)
    PROVE  s.type \in DOMAIN ranges /\ Covers(ranges[s.type], s)
  <1>1. s.type \in DOMAIN ranges
    BY DEF Encloses
  <1>2. PICK c \in A : c.type = s.type /\ IsFirst(c, A)
    BY DEF HasCorners
  <1>3. PICK d \in A : d.type = s.type /\ IsLast(d, A)
    BY DEF HasCorners
  <1>4. ranges[s.type].min = c /\ ranges[s.type].max = d
    BY <1>1, <1>2, <1>3 DEF Encloses, RangeKeepsCorners, OfType
  <1>5. /\ c.x <= s.x /\ c.y <= s.y /\ s.x <= d.x /\ s.y <= d.y
        /\ c.x \in Int /\ c.y \in Int /\ d.x \in Int /\ d.y \in Int
        /\ s.x \in Int /\ s.y \in Int
    BY <1>2, <1>3, FabricAssumption DEF IsFirst, IsLast
  <1> QED BY <1>1, <1>2, <1>4, <1>5 DEF Covers

-----------------------------------------------------------------------------
\* The sites of one tile.

SitesStep(base, seq, f, S) ==
    IF S = {} THEN base ELSE AddSite(f[S \ {Max(S)}], seq[Max(S)])

LEMMA FoldSitesIsDefined ==
    ASSUME NEW base, NEW seq
    PROVE  \A m \in Nat : \E f : f = [S \in SUBSET (1 .. m) |-> SitesStep(base, seq, f, S)]
  <1> DEFINE Defined ==
                {m \in Nat : \E f : f = [S \in SUBSET (1 .. m) |-> SitesStep(base, seq, f, S)]}
  <1>1. 0 \in Defined
    <2> DEFINE f == [S \in SUBSET (1 .. 0) |-> base]
    <2>1. SUBSET (1 .. 0) = {{}}
      OBVIOUS
    <2>2. f = [S \in SUBSET (1 .. 0) |-> SitesStep(base, seq, f, S)]
      BY <2>1 DEF SitesStep
    <2> QED BY <2>2
  <1>2. ASSUME NEW m \in Nat, m \in Defined
        PROVE  m + 1 \in Defined
    <2>1. PICK f : f = [S \in SUBSET (1 .. m) |-> SitesStep(base, seq, f, S)]
      BY <1>2
    <2> DEFINE g == [S \in SUBSET (1 .. m + 1) |-> SitesStep(base, seq, f, S)]
    <2>2. \A S \in SUBSET (1 .. m) : g[S] = f[S]
      <3>1. SUBSET (1 .. m) \subseteq SUBSET (1 .. m + 1)
        OBVIOUS
      <3> QED BY <3>1, <2>1
    <2>3. ASSUME NEW S \in SUBSET (1 .. m + 1)
          PROVE  SitesStep(base, seq, f, S) = SitesStep(base, seq, g, S)
      BY <2>2, WithoutMax DEF SitesStep
    <2>4. g = [S \in SUBSET (1 .. m + 1) |-> SitesStep(base, seq, g, S)]
      BY <2>3
    <2> HIDE DEF g
    <2>5. \E h : h = [S \in SUBSET (1 .. m + 1) |-> SitesStep(base, seq, h, S)]
      BY <2>4, Zenon
    <2> QED BY <2>5
  <1> HIDE DEF Defined
  <1>3. \A m \in Nat : m \in Defined
    BY <1>1, <1>2, SetInduction
  <1> QED BY <1>3 DEF Defined

\* The values that the fold goes through.
LEMMA FoldSites ==
    ASSUME NEW base, NEW n \in Nat, NEW seq, DOMAIN seq = 1 .. n
    PROVE  \E g : /\ g[0] = base
                  /\ \A k \in 1 .. n : g[k] = AddSite(g[k - 1], seq[k])
                  /\ g[n] = FoldLeft(AddSite, base, seq)
  <1> DEFINE iter == CHOOSE f : f = [S \in SUBSET (1 .. n) |-> SitesStep(base, seq, f, S)]
             g == [k \in 0 .. n |-> iter[1 .. k]]
  <1>1. iter = [S \in SUBSET (1 .. n) |-> SitesStep(base, seq, iter, S)]
    <2>1. \E f : f = [S \in SUBSET (1 .. n) |-> SitesStep(base, seq, f, S)]
      BY FoldSitesIsDefined
    <2> QED BY <2>1
  <1>2. FoldLeft(AddSite, base, seq) = iter[1 .. n]
    BY DEF FoldLeft, MapThenFoldSet, SitesStep
  <1> HIDE DEF iter
  <1>3. g[0] = base
    <2>1. 1 .. 0 = {} /\ {} \in SUBSET (1 .. n) /\ 0 \in 0 .. n
      OBVIOUS
    <2> QED BY <2>1, <1>1 DEF SitesStep
  <1>4. ASSUME NEW k \in 1 .. n
        PROVE  g[k] = AddSite(g[k - 1], seq[k])
    <2>1. /\ 1 .. k # {} /\ 1 .. k \in SUBSET (1 .. n)
          /\ Max(1 .. k) = k
          /\ (1 .. k) \ {Max(1 .. k)} = 1 .. (k - 1)
      BY MaxOfFirst
    <2>2. iter[1 .. k] = AddSite(iter[1 .. (k - 1)], seq[k])
      BY <1>1, <2>1 DEF SitesStep
    <2>3. k \in 0 .. n /\ k - 1 \in 0 .. n
      OBVIOUS
    <2> QED BY <2>2, <2>3
  <1>5. g[n] = FoldLeft(AddSite, base, seq)
    BY <1>2
  <1> QED BY <1>3, <1>4, <1>5

LEMMA TileSitesEnclose ==
    ASSUME NEW t \in Tile, NEW A \in SUBSET DeviceSites,
           NEW base, Encloses(base, A)
    PROVE  Encloses(FoldLeft(AddSite, base, SitesOf[t]), A \cup ToSet(SitesOf[t]))
  <1> DEFINE seq == SitesOf[t]
             n   == Len(seq)
  <1>1. seq \in Seq(DeviceSites) /\ n \in Nat /\ DOMAIN seq = 1 .. n
    BY FabricAssumption
  <1>2. ToSet(seq) = {seq[i] : i \in 1 .. n}
    BY <1>1 DEF ToSet
  <1> HIDE DEF seq, n
  <1>3. PICK g : /\ g[0] = base
                 /\ \A k \in 1 .. n : g[k] = AddSite(g[k - 1], seq[k])
                 /\ g[n] = FoldLeft(AddSite, base, seq)
    BY <1>1, FoldSites
  <1> DEFINE Area(k) == A \cup {seq[i] : i \in 1 .. k}
             S == {k \in 0 .. n : Encloses(g[k], Area(k))}
  <1>4. 0 \in S
    <2>1. Area(0) = A /\ 0 \in 0 .. n
      BY <1>1
    <2> HIDE DEF Area
    <2> QED BY <2>1, <1>3
  <1>5. ASSUME NEW k \in 0 .. n - 1, k \in S
        PROVE  k + 1 \in S
    <2>1. k + 1 \in 1 .. n /\ k + 1 \in 0 .. n /\ (k + 1) - 1 = k
      BY <1>1
    <2>2. seq[k + 1] \in DeviceSites /\ Area(k) \in SUBSET DeviceSites
      BY <1>1, <2>1
    <2>3. Area(k + 1) = Area(k) \cup {seq[k + 1]}
      BY <1>1, <2>1
    <2>4. g[k + 1] = AddSite(g[k], seq[k + 1])
      BY <2>1, <1>3
    <2>5. Encloses(g[k], Area(k))
      BY <1>5
    <2> HIDE DEF Area
    <2>6. Encloses(g[k + 1], Area(k + 1))
      BY <2>2, <2>3, <2>4, <2>5, AddSiteEncloses
    <2> QED BY <2>1, <2>6
  <1> HIDE DEF S
  <1>6. n \in S
    BY <1>1, <1>4, <1>5, IndexInduction
  <1> QED BY <1>2, <1>3, <1>6 DEF S, seq

-----------------------------------------------------------------------------
\* The tiles of one column.

TilesStep(base, seq, f, S) ==
    IF S = {} THEN base ELSE VisitTile(f[S \ {Max(S)}], seq[Max(S)])

LEMMA FoldTilesIsDefined ==
    ASSUME NEW base, NEW seq
    PROVE  \A m \in Nat : \E f : f = [S \in SUBSET (1 .. m) |-> TilesStep(base, seq, f, S)]
  <1> DEFINE Defined ==
                {m \in Nat : \E f : f = [S \in SUBSET (1 .. m) |-> TilesStep(base, seq, f, S)]}
  <1>1. 0 \in Defined
    <2> DEFINE f == [S \in SUBSET (1 .. 0) |-> base]
    <2>1. SUBSET (1 .. 0) = {{}}
      OBVIOUS
    <2>2. f = [S \in SUBSET (1 .. 0) |-> TilesStep(base, seq, f, S)]
      BY <2>1 DEF TilesStep
    <2> QED BY <2>2
  <1>2. ASSUME NEW m \in Nat, m \in Defined
        PROVE  m + 1 \in Defined
    <2>1. PICK f : f = [S \in SUBSET (1 .. m) |-> TilesStep(base, seq, f, S)]
      BY <1>2
    <2> DEFINE g == [S \in SUBSET (1 .. m + 1) |-> TilesStep(base, seq, f, S)]
    <2>2. \A S \in SUBSET (1 .. m) : g[S] = f[S]
      <3>1. SUBSET (1 .. m) \subseteq SUBSET (1 .. m + 1)
        OBVIOUS
      <3> QED BY <3>1, <2>1
    <2>3. ASSUME NEW S \in SUBSET (1 .. m + 1)
          PROVE  TilesStep(base, seq, f, S) = TilesStep(base, seq, g, S)
      BY <2>2, WithoutMax DEF TilesStep
    <2>4. g = [S \in SUBSET (1 .. m + 1) |-> TilesStep(base, seq, g, S)]
      BY <2>3
    <2> HIDE DEF g
    <2>5. \E h : h = [S \in SUBSET (1 .. m + 1) |-> TilesStep(base, seq, h, S)]
      BY <2>4, Zenon
    <2> QED BY <2>5
  <1> HIDE DEF Defined
  <1>3. \A m \in Nat : m \in Defined
    BY <1>1, <1>2, SetInduction
  <1> QED BY <1>3 DEF Defined

LEMMA FoldTiles ==
    ASSUME NEW base, NEW n \in Nat, NEW seq, DOMAIN seq = 1 .. n
    PROVE  \E g : /\ g[0] = base
                  /\ \A k \in 1 .. n : g[k] = VisitTile(g[k - 1], seq[k])
                  /\ g[n] = FoldLeft(VisitTile, base, seq)
  <1> DEFINE iter == CHOOSE f : f = [S \in SUBSET (1 .. n) |-> TilesStep(base, seq, f, S)]
             g == [k \in 0 .. n |-> iter[1 .. k]]
  <1>1. iter = [S \in SUBSET (1 .. n) |-> TilesStep(base, seq, iter, S)]
    <2>1. \E f : f = [S \in SUBSET (1 .. n) |-> TilesStep(base, seq, f, S)]
      BY FoldTilesIsDefined
    <2> QED BY <2>1
  <1>2. FoldLeft(VisitTile, base, seq) = iter[1 .. n]
    BY DEF FoldLeft, MapThenFoldSet, TilesStep
  <1> HIDE DEF iter
  <1>3. g[0] = base
    <2>1. 1 .. 0 = {} /\ {} \in SUBSET (1 .. n) /\ 0 \in 0 .. n
      OBVIOUS
    <2> QED BY <2>1, <1>1 DEF TilesStep
  <1>4. ASSUME NEW k \in 1 .. n
        PROVE  g[k] = VisitTile(g[k - 1], seq[k])
    <2>1. /\ 1 .. k # {} /\ 1 .. k \in SUBSET (1 .. n)
          /\ Max(1 .. k) = k
          /\ (1 .. k) \ {Max(1 .. k)} = 1 .. (k - 1)
      BY MaxOfFirst
    <2>2. iter[1 .. k] = VisitTile(iter[1 .. (k - 1)], seq[k])
      BY <1>1, <2>1 DEF TilesStep
    <2>3. k \in 0 .. n /\ k - 1 \in 0 .. n
      OBVIOUS
    <2> QED BY <2>2, <2>3
  <1>5. g[n] = FoldLeft(VisitTile, base, seq)
    BY <1>2
  <1> QED BY <1>3, <1>4, <1>5

\* The tiles in rows lo to hi of a column whose sites are added, ...
Free(col, stray, lo, hi) ==
    {t \in siteMap \ macroTiles : \E row \in lo .. hi : t = TileAt(row, col, stray)}

FreeSites(col, stray, lo, hi) == SitesAt(Free(col, stray, lo, hi))

\* ... the rows in which a macro cuts the ranges, ...
IsCut(row, col, stray) == TileAt(row, col, stray) \in siteMap \cap macroTiles

Uncut(col, stray, lo, hi) == \A row \in lo .. hi : ~IsCut(row, col, stray)

\* ... and the rows between two cuts.
IsSegment(col, stray, lo, hi) ==
    /\ Uncut(col, stray, lo, hi)
    /\ lo = region.yMin \/ IsCut(lo - 1, col, stray)
    /\ hi = region.yMax \/ IsCut(hi + 1, col, stray)

\* Where this holds the ranges of a column cover it.
SegmentsHaveCorners(col, stray) ==
    \A lo, hi \in region.yMin .. region.yMax : IsSegment(col, stray, lo, hi) =>
        \A s \in FreeSites(col, stray, lo, hi) :
            HasCorners(s.type, FreeSites(col, stray, lo, hi))

\* A range with both ends in uncut rows of the column, at sites of type k.
IsRangeOf(range, k, col, stray) ==
    \E lo, hi \in region.yMin .. region.yMax :
        /\ Uncut(col, stray, lo, hi)
        /\ {range.min, range.max} \subseteq OfType(k, FreeSites(col, stray, lo, hi))

\* What is known of the fold before it visits a row; the ranges it holds began in row lo.
ColumnFrom(acc, col, stray, row, lo) ==
    /\ Uncut(col, stray, lo, row - 1)
    /\ lo = region.yMin \/ IsCut(lo - 1, col, stray)
    /\ Encloses(acc.ranges, FreeSites(col, stray, lo, row - 1))
    /\ SegmentsHaveCorners(col, stray) =>
          \A s \in FreeSites(col, stray, region.yMin, lo - 1) :
              s.type # "BUFGCTRL" => \E range \in acc.lines : Covers(range, s)

LinesOf(acc, col, stray) ==
    /\ acc = [ranges |-> acc.ranges, lines |-> acc.lines]
    /\ Written(prohibitedSites) \subseteq acc.lines
    /\ \A range \in acc.lines \ Written(prohibitedSites) :
           \E k : IsRangeOf(range, k, col, stray)

ColumnSoFar(acc, col, stray, row) ==
    /\ \E lo \in region.yMin .. row : ColumnFrom(acc, col, stray, row, lo)
    /\ LinesOf(acc, col, stray)

\* Sites of tiles are sites of the device.
LEMMA SitesAtTiles ==
    ASSUME NEW T \in SUBSET Tile
    PROVE  /\ SitesAt(T) \in SUBSET DeviceSites
           /\ \A U \in SUBSET T : SitesAt(U) \subseteq SitesAt(T)
           /\ \A t \in T : SitesAt(T) = SitesAt(T \ {t}) \cup ToSet(SitesOf[t])
  BY DEF SitesAt, DeviceSites

LEMMA FreeIsOnGrid ==
    ASSUME siteMap \subseteq Tile, NEW col, NEW stray, NEW lo, NEW hi
    PROVE  /\ Free(col, stray, lo, hi) \in SUBSET Tile
           /\ FreeSites(col, stray, lo, hi) \in SUBSET DeviceSites
  BY SitesAtTiles DEF Free, FreeSites

\* Rows can be split anywhere.
LEMMA FreeSplits ==
    ASSUME NEW col, NEW stray, NEW lo \in Int, NEW mid \in Int, NEW hi \in Int,
           lo <= mid, mid <= hi + 1
    PROVE  FreeSites(col, stray, lo, hi) =
              FreeSites(col, stray, lo, mid - 1) \cup FreeSites(col, stray, mid, hi)
  <1>1. \A row : row \in lo .. hi <=> row \in lo .. mid - 1 \/ row \in mid .. hi
    OBVIOUS
  <1>2. Free(col, stray, lo, hi) = Free(col, stray, lo, mid - 1) \cup Free(col, stray, mid, hi)
    BY <1>1 DEF Free
  <1> QED BY <1>2 DEF FreeSites, SitesAt

LEMMA FreeRow ==
    ASSUME NEW col, NEW stray, NEW row \in Int
    PROVE  LET t == TileAt(row, col, stray)
           IN  FreeSites(col, stray, row, row) =
                  IF t \in siteMap \ macroTiles THEN ToSet(SitesOf[t]) ELSE {}
  <1>1. row .. row = {row}
    OBVIOUS
  <1>2. Free(col, stray, row, row) = {TileAt(row, col, stray)} \cap (siteMap \ macroTiles)
    BY <1>1 DEF Free
  <1> QED BY <1>2 DEF FreeSites, SitesAt

LEMMA NoRowsNoSites ==
    ASSUME NEW col, NEW stray, NEW lo \in Int, NEW hi \in Int, hi < lo
    PROVE  FreeSites(col, stray, lo, hi) = {} /\ Uncut(col, stray, lo, hi)
  <1>1. lo .. hi = {}
    OBVIOUS
  <1> QED BY <1>1 DEF FreeSites, Free, Uncut, SitesAt

\* Rows a segment may have.
SegmentRow == region.yMin \in Int /\ region.yMax \in Int /\ siteMap \subseteq Tile

LEMMA SkippedRow ==
    ASSUME SegmentRow, NEW col, NEW stray, NEW acc, NEW row \in region.yMin .. region.yMax,
           ColumnSoFar(acc, col, stray, row),
           TileAt(row, col, stray) \notin siteMap
    PROVE  ColumnSoFar(VisitTile(acc, TileAt(row, col, stray)), col, stray, row + 1)
  <1>1. VisitTile(acc, TileAt(row, col, stray)) = acc
    BY DEF VisitTile
  <1>2. PICK lo \in region.yMin .. row : ColumnFrom(acc, col, stray, row, lo)
    BY DEF ColumnSoFar
  <1>3. /\ row \in Int /\ lo \in Int /\ lo <= row /\ (row + 1) - 1 = row
        /\ lo \in region.yMin .. row + 1
    BY DEF SegmentRow
  <1>4. Uncut(col, stray, lo, row)
    <2>1. \A i \in lo .. row : i \in lo .. row - 1 \/ i = row
      BY <1>3
    <2> QED BY <1>2, <2>1 DEF ColumnFrom, Uncut, IsCut
  <1>5. FreeSites(col, stray, lo, row) = FreeSites(col, stray, lo, row - 1)
    <2>1. FreeSites(col, stray, row, row) = {}
      BY <1>3, FreeRow
    <2>2. FreeSites(col, stray, lo, row) =
             FreeSites(col, stray, lo, row - 1) \cup FreeSites(col, stray, row, row)
      BY <1>3, FreeSplits
    <2> QED BY <2>1, <2>2
  <1>6. ColumnFrom(acc, col, stray, row + 1, lo)
    BY <1>2, <1>3, <1>4, <1>5 DEF ColumnFrom
  <1> QED BY <1>1, <1>3, <1>6 DEF ColumnSoFar

LEMMA AddedRow ==
    ASSUME SegmentRow, NEW col, NEW stray, NEW acc, NEW row \in region.yMin .. region.yMax,
           ColumnSoFar(acc, col, stray, row),
           TileAt(row, col, stray) \in siteMap \ macroTiles
    PROVE  ColumnSoFar(VisitTile(acc, TileAt(row, col, stray)), col, stray, row + 1)
  <1> DEFINE t    == TileAt(row, col, stray)
             next == [acc EXCEPT !.ranges = FoldLeft(AddSite, @, SitesOf[t])]
  <1>1. VisitTile(acc, t) = next
    BY DEF VisitTile
  <1>2. PICK lo \in region.yMin .. row : ColumnFrom(acc, col, stray, row, lo)
    BY DEF ColumnSoFar
  <1>3. /\ row \in Int /\ lo \in Int /\ lo <= row /\ (row + 1) - 1 = row
        /\ lo \in region.yMin .. row + 1
    BY DEF SegmentRow
  <1>4. Uncut(col, stray, lo, row)
    <2>1. \A i \in lo .. row : i \in lo .. row - 1 \/ i = row
      BY <1>3
    <2> QED BY <1>2, <2>1 DEF ColumnFrom, Uncut, IsCut
  <1>5. FreeSites(col, stray, lo, row) =
           FreeSites(col, stray, lo, row - 1) \cup ToSet(SitesOf[t])
    <2>1. FreeSites(col, stray, row, row) = ToSet(SitesOf[t])
      BY <1>3, FreeRow
    <2>2. FreeSites(col, stray, lo, row) =
             FreeSites(col, stray, lo, row - 1) \cup FreeSites(col, stray, row, row)
      BY <1>3, FreeSplits
    <2> QED BY <2>1, <2>2
  <1>6. /\ next.lines = acc.lines
        /\ next.ranges = FoldLeft(AddSite, acc.ranges, SitesOf[t])
        /\ next = [ranges |-> next.ranges, lines |-> next.lines]
    <2>1. acc = [ranges |-> acc.ranges, lines |-> acc.lines]
      BY DEF ColumnSoFar, LinesOf
    <2> QED BY <2>1
  <1> HIDE DEF next
  <1>7. Encloses(next.ranges, FreeSites(col, stray, lo, row))
    <2>1. t \in Tile /\ FreeSites(col, stray, lo, row - 1) \in SUBSET DeviceSites
      BY FreeIsOnGrid DEF SegmentRow
    <2>2. Encloses(acc.ranges, FreeSites(col, stray, lo, row - 1))
      BY <1>2 DEF ColumnFrom
    <2> HIDE DEF t
    <2> QED BY <2>1, <2>2, <1>5, <1>6, TileSitesEnclose
  <1>8. ColumnFrom(next, col, stray, row + 1, lo)
    BY <1>2, <1>3, <1>4, <1>6, <1>7 DEF ColumnFrom
  <1>9. LinesOf(next, col, stray)
    BY <1>6 DEF ColumnSoFar, LinesOf
  <1> QED BY <1>1, <1>3, <1>8, <1>9 DEF ColumnSoFar

\* The ranges held are ranges of sites of the segment ...
LEMMA HeldRanges ==
    ASSUME SegmentRow, NEW col, NEW stray, NEW acc, NEW row \in region.yMin .. region.yMax + 1,
           NEW lo \in region.yMin .. row, ColumnFrom(acc, col, stray, row, lo),
           NEW k \in DOMAIN acc.ranges
    PROVE  IsRangeOf(acc.ranges[k], k, col, stray)
  <1> DEFINE A == FreeSites(col, stray, lo, row - 1)
             range == acc.ranges[k]
  <1>1. A # {} => lo \in region.yMin .. region.yMax /\ row - 1 \in region.yMin .. region.yMax
    <2>1. row - 1 < lo => A = {}
      BY NoRowsNoSites DEF SegmentRow
    <2> QED BY <2>1 DEF SegmentRow
  <1>2. range \in [min : OfType(k, A), max : OfType(k, A)]
    BY DEF ColumnFrom, Encloses, RangeKeepsCorners
  <1>3. {range.min, range.max} \subseteq OfType(k, A) /\ A # {}
    BY <1>2 DEF OfType
  <1>4. Uncut(col, stray, lo, row - 1)
    BY DEF ColumnFrom
  <1> QED BY <1>1, <1>3, <1>4 DEF IsRangeOf

\* ... and cover it when it ends.
LEMMA HeldCover ==
    ASSUME SegmentRow, NEW col, NEW stray, NEW acc, NEW row \in region.yMin .. region.yMax + 1,
           NEW lo \in region.yMin .. row, ColumnFrom(acc, col, stray, row, lo),
           row - 1 = region.yMax \/ IsCut(row, col, stray),
           SegmentsHaveCorners(col, stray),
           NEW s \in FreeSites(col, stray, lo, row - 1)
    PROVE  s.type \in DOMAIN acc.ranges /\ Covers(acc.ranges[s.type], s)
  <1> DEFINE A == FreeSites(col, stray, lo, row - 1)
  <1>1. /\ lo \in region.yMin .. region.yMax /\ row - 1 \in region.yMin .. region.yMax
        /\ (row - 1) + 1 = row
    <2>1. row - 1 < lo => A = {}
      BY NoRowsNoSites DEF SegmentRow
    <2> QED BY <2>1 DEF SegmentRow
  <1>2. Encloses(acc.ranges, A) /\ A \in SUBSET DeviceSites
    BY FreeIsOnGrid DEF ColumnFrom, SegmentRow
  <1>3. IsSegment(col, stray, lo, row - 1)
    BY <1>1 DEF IsSegment, ColumnFrom
  <1>4. HasCorners(s.type, A)
    BY <1>1, <1>3 DEF SegmentsHaveCorners
  <1> HIDE DEF A
  <1>5. s \in A
    BY DEF A
  <1> QED BY <1>2, <1>4, <1>5, CornersCover

LEMMA CutRow ==
    ASSUME SegmentRow, NEW col, NEW stray, NEW acc, NEW row \in region.yMin .. region.yMax,
           ColumnSoFar(acc, col, stray, row), IsCut(row, col, stray)
    PROVE  ColumnSoFar(VisitTile(acc, TileAt(row, col, stray)), col, stray, row + 1)
  <1> DEFINE next == Flush(acc)
  <1>1. VisitTile(acc, TileAt(row, col, stray)) = next
    BY DEF VisitTile, IsCut
  <1>2. PICK lo \in region.yMin .. row : ColumnFrom(acc, col, stray, row, lo)
    BY DEF ColumnSoFar
  <1>3. /\ row \in Int /\ lo \in Int /\ lo <= row /\ (row + 1) - 1 = row
        /\ row + 1 \in region.yMin .. row + 1
        /\ row \in region.yMin .. region.yMax + 1
        /\ region.yMin \in Int /\ region.yMin <= row /\ row <= row + 1
    BY DEF SegmentRow
  <1>4. /\ next.lines = acc.lines \cup Written(acc.ranges)
        /\ next.ranges = NoRanges
        /\ next = [ranges |-> next.ranges, lines |-> next.lines]
    BY DEF Flush
  <1> HIDE DEF next
  <1>5. FreeSites(col, stray, row + 1, row) = {} /\ Uncut(col, stray, row + 1, row)
    BY <1>3, NoRowsNoSites
  <1>6. FreeSites(col, stray, region.yMin, row) =
           FreeSites(col, stray, region.yMin, lo - 1) \cup FreeSites(col, stray, lo, row - 1)
    <2>1. FreeSites(col, stray, row, row) = {}
      BY <1>3, FreeRow DEF IsCut
    <2>2. FreeSites(col, stray, region.yMin, row) =
             FreeSites(col, stray, region.yMin, row - 1) \cup FreeSites(col, stray, row, row)
      <3> DEFINE top == region.yMin
      <3>1. top \in Int /\ row \in Int /\ top <= row /\ row <= row + 1
        BY <1>3
      <3> HIDE DEF top
      <3>2. FreeSites(col, stray, top, row) =
               FreeSites(col, stray, top, row - 1) \cup FreeSites(col, stray, row, row)
        BY <3>1, FreeSplits
      <3> QED BY <3>2 DEF top
    <2>3. FreeSites(col, stray, region.yMin, row - 1) =
             FreeSites(col, stray, region.yMin, lo - 1) \cup FreeSites(col, stray, lo, row - 1)
      BY <1>3, FreeSplits DEF SegmentRow
    <2> QED BY <2>1, <2>2, <2>3
  <1>7. ASSUME SegmentsHaveCorners(col, stray),
               NEW s \in FreeSites(col, stray, region.yMin, row), s.type # "BUFGCTRL"
        PROVE  \E range \in next.lines : Covers(range, s)
    <2>1. CASE s \in FreeSites(col, stray, region.yMin, lo - 1)
      BY <1>2, <1>4, <1>7, <2>1 DEF ColumnFrom
    <2>2. CASE s \in FreeSites(col, stray, lo, row - 1)
      <3>1. s.type \in DOMAIN acc.ranges /\ Covers(acc.ranges[s.type], s)
        BY <1>2, <1>3, <1>7, <2>2, HeldCover
      <3> QED BY <3>1, <1>4, <1>7 DEF Written
    <2> QED BY <2>1, <2>2, <1>6, <1>7
  <1>8. ColumnFrom(next, col, stray, row + 1, row + 1)
    <2>1. Encloses(next.ranges, FreeSites(col, stray, row + 1, row))
      BY <1>4, <1>5, NoRangesEnclose
    <2>2. (row + 1) - 1 = row
      BY <1>3
    <2> QED BY <2>1, <2>2, <1>5, <1>7 DEF ColumnFrom
  <1>9. LinesOf(next, col, stray)
    <2>1. \A k \in DOMAIN acc.ranges : IsRangeOf(acc.ranges[k], k, col, stray)
      BY <1>2, <1>3, HeldRanges
    <2>2. \A range \in Written(acc.ranges) : \E k : IsRangeOf(range, k, col, stray)
      BY <2>1 DEF Written
    <2>3. LinesOf(acc, col, stray)
      BY DEF ColumnSoFar
    <2> QED BY <1>4, <2>2, <2>3 DEF LinesOf
  <1> QED BY <1>1, <1>3, <1>8, <1>9 DEF ColumnSoFar

\* A column, once visited: all its lines are about uncut rows of the column, as are the ranges
\* held; together they cover what is to be prohibited, and what was held before is written.
LEMMA ColumnVisited ==
    ASSUME SegmentRow, region.yMin <= region.yMax, NEW col, NEW stray,
           NEW acc, acc = VisitColumn(col, stray)
    PROVE  /\ Written(prohibitedSites) \subseteq acc.lines
           /\ \A range \in acc.lines \ Written(prohibitedSites) :
                 \E k : IsRangeOf(range, k, col, stray)
           /\ \A k \in DOMAIN acc.ranges : IsRangeOf(acc.ranges[k], k, col, stray)
           /\ SegmentsHaveCorners(col, stray) =>
                 \A s \in FreeSites(col, stray, region.yMin, region.yMax) :
                    s.type # "BUFGCTRL" =>
                       \/ \E range \in acc.lines : Covers(range, s)
                       \/ s.type \in DOMAIN acc.ranges /\ Covers(acc.ranges[s.type], s)
  <1> DEFINE n    == region.yMax - region.yMin + 1
             base == Flush([ranges |-> prohibitedSites, lines |-> {}])
             seq  == [i \in 1 .. n |-> TileAt(region.yMin + i - 1, col, stray)]
  <1>1. n \in Nat /\ DOMAIN seq = 1 .. n
    BY DEF SegmentRow
  <1>2. acc = FoldLeft(VisitTile, base, seq)
    BY DEF VisitColumn
  <1>3. ColumnSoFar(base, col, stray, region.yMin)
    <2>1. /\ FreeSites(col, stray, region.yMin, region.yMin - 1) = {}
          /\ Uncut(col, stray, region.yMin, region.yMin - 1)
      BY NoRowsNoSites DEF SegmentRow
    <2>2. /\ base.ranges = NoRanges /\ base.lines = Written(prohibitedSites)
          /\ base = [ranges |-> base.ranges, lines |-> base.lines]
      BY DEF Flush
    <2>3. region.yMin \in region.yMin .. region.yMin
      BY DEF SegmentRow
    <2> HIDE DEF base
    <2>4. ColumnFrom(base, col, stray, region.yMin, region.yMin)
      BY <2>1, <2>2, NoRangesEnclose DEF ColumnFrom
    <2> QED BY <2>2, <2>3, <2>4 DEF ColumnSoFar, LinesOf
  <1> HIDE DEF base
  <1>4. PICK g : /\ g[0] = base
                 /\ \A k \in 1 .. n : g[k] = VisitTile(g[k - 1], seq[k])
                 /\ g[n] = FoldLeft(VisitTile, base, seq)
    <2> HIDE DEF seq, n
    <2> QED BY <1>1, FoldTiles
  <1> DEFINE S == {k \in 0 .. n : ColumnSoFar(g[k], col, stray, region.yMin + k)}
  <1>5. 0 \in S
    <2>1. region.yMin + 0 = region.yMin /\ 0 \in 0 .. n
      BY <1>1 DEF SegmentRow
    <2> QED BY <2>1, <1>3, <1>4
  <1>6. ASSUME NEW k \in 0 .. n - 1, k \in S
        PROVE  k + 1 \in S
    <2> DEFINE row == region.yMin + k
    <2>1. /\ k + 1 \in 1 .. n /\ k + 1 \in 0 .. n /\ (k + 1) - 1 = k
          /\ row \in region.yMin .. region.yMax
          /\ region.yMin + (k + 1) - 1 = row
          /\ region.yMin + (k + 1) = row + 1
      BY <1>1 DEF SegmentRow
    <2>2. ColumnSoFar(g[k], col, stray, row)
      BY <1>6
    <2>3. g[k + 1] = VisitTile(g[k], TileAt(row, col, stray))
      BY <2>1, <1>4
    <2> HIDE DEF row
    <2>4. ColumnSoFar(VisitTile(g[k], TileAt(row, col, stray)), col, stray, row + 1)
      BY <2>1, <2>2, SkippedRow, AddedRow, CutRow DEF IsCut
    <2>5. ColumnSoFar(g[k + 1], col, stray, region.yMin + (k + 1))
      BY <2>1, <2>3, <2>4
    <2> QED BY <2>1, <2>5
  <1> HIDE DEF S
  <1>7. n \in S
    <2>1. \A k \in 0 .. n : k \in S
      <3> HIDE DEF n
      <3> QED BY <1>1, <1>5, <1>6, IndexInduction
    <2> QED BY <2>1, <1>1
  <1>8. ColumnSoFar(acc, col, stray, region.yMax + 1)
    <2>1. region.yMin + n = region.yMax + 1
      BY DEF SegmentRow
    <2> QED BY <2>1, <1>2, <1>4, <1>7 DEF S
  <1>9. PICK lo \in region.yMin .. region.yMax + 1 :
            ColumnFrom(acc, col, stray, region.yMax + 1, lo)
    BY <1>8 DEF ColumnSoFar
  <1>10. PICK last \in region.yMin .. region.yMax + 1 :
             last = region.yMax + 1 /\ last - 1 = region.yMax
    BY DEF SegmentRow
  <1>11. FreeSites(col, stray, region.yMin, region.yMax) =
            FreeSites(col, stray, region.yMin, lo - 1) \cup FreeSites(col, stray, lo, region.yMax)
    <2> DEFINE top == region.yMin
               bottom == region.yMax
    <2>1. top \in Int /\ bottom \in Int /\ lo \in Int /\ top <= lo /\ lo <= bottom + 1
      BY DEF SegmentRow
    <2> HIDE DEF top, bottom
    <2>2. FreeSites(col, stray, top, bottom) =
             FreeSites(col, stray, top, lo - 1) \cup FreeSites(col, stray, lo, bottom)
      BY <2>1, FreeSplits
    <2> QED BY <2>2 DEF top, bottom
  <1>12. /\ \A k \in DOMAIN acc.ranges : IsRangeOf(acc.ranges[k], k, col, stray)
         /\ SegmentsHaveCorners(col, stray) =>
               \A s \in FreeSites(col, stray, lo, region.yMax) :
                   s.type \in DOMAIN acc.ranges /\ Covers(acc.ranges[s.type], s)
    <2>1. lo \in region.yMin .. last /\ ColumnFrom(acc, col, stray, last, lo)
      BY <1>9, <1>10
    <2>2. \A k \in DOMAIN acc.ranges : IsRangeOf(acc.ranges[k], k, col, stray)
      BY <2>1, HeldRanges
    <2>3. ASSUME SegmentsHaveCorners(col, stray),
                 NEW s \in FreeSites(col, stray, lo, last - 1)
          PROVE  s.type \in DOMAIN acc.ranges /\ Covers(acc.ranges[s.type], s)
      BY <2>1, <2>3, <1>10, HeldCover
    <2> QED BY <2>2, <2>3, <1>10
  <1>13. LinesOf(acc, col, stray)
    BY <1>8 DEF ColumnSoFar
  <1> QED BY <1>9, <1>11, <1>12, <1>13 DEF ColumnFrom, LinesOf

-----------------------------------------------------------------------------
\* The columns of a site map.

\* The rectangle whose sites are prohibited is the one the site map covers, or larger.
LEMMA WindowOfRegion ==
    ASSUME NEW r \in GridRegion, NEW b \in {r, Rebound(r)}
    PROVE  LET around == ExpandRegion(r, Margin)
               window == ExpandRegion(b, Margin)
           IN  /\ around \in Region /\ window \in Region /\ b \in GridRegion
               /\ window.xMin <= around.xMin /\ around.xMax <= window.xMax
               /\ window.yMin <= around.yMin /\ around.yMax <= window.yMax
               /\ window.xMin <= window.xMax /\ window.yMin <= window.yMax
               /\ \A t \in Tile : InRegion(b, t) => InRegion(around, t)
  <1> DEFINE around == ExpandRegion(r, Margin)
             window == ExpandRegion(b, Margin)
  <1>1. around \in Region /\ window \in Region /\ b \in GridRegion
    BY ReboundIsGridRegion, GridRegionIsRegion, ExpandIsRegion
  <1>2. /\ window.xMin <= around.xMin /\ around.xMax <= window.xMax
        /\ window.yMin <= around.yMin /\ around.yMax <= window.yMax
        /\ window.xMin <= window.xMax /\ window.yMin <= window.yMax
        /\ around.xMin <= b.xMin /\ b.xMax <= around.xMax
        /\ around.yMin <= b.yMin /\ b.yMax <= around.yMax
    <2>1. /\ r.xMin \in 0 .. ColCount - 1 /\ r.xMax \in 0 .. ColCount - 1 /\ r.xMin <= r.xMax
          /\ r.yMin \in 0 .. RowCount - 1 /\ r.yMax \in 0 .. RowCount - 1 /\ r.yMin <= r.yMax
          /\ ColCount \in Nat /\ ColCount > 3 /\ RowCount \in Nat /\ RowCount > 3
      BY FabricAssumption, AntiCoreAssumption DEF GridRegion, Row, Col, Margin
    <2>2. CASE b = r
      BY <2>1, <2>2 DEF ExpandRegion, Margin, Lesser, Greater
    <2>3. CASE b = Rebound(r)
      <3>1. /\ around.xMin = Greater(0, r.xMin - 3) /\ around.xMax = Lesser(ColCount, r.xMax + 3)
            /\ around.yMin = Greater(0, r.yMin - 3) /\ around.yMax = Lesser(RowCount, r.yMax + 3)
        BY DEF ExpandRegion, Margin
      <3>2. /\ b.xMin = Lesser(around.xMax, around.xMin + 3)
            /\ b.xMax = Greater(b.xMin, around.xMax - 3)
            /\ b.yMin = Lesser(around.yMax, around.yMin + 3)
            /\ b.yMax = Greater(b.yMin, around.yMax - 3)
        BY <2>3 DEF Rebound, ShrinkRegion, Margin
      <3>3. /\ window.xMin = Greater(0, b.xMin - 3) /\ window.xMax = Lesser(ColCount, b.xMax + 3)
            /\ window.yMin = Greater(0, b.yMin - 3) /\ window.yMax = Lesser(RowCount, b.yMax + 3)
        BY DEF ExpandRegion, Margin
      <3> HIDE DEF around, window
      <3>4. /\ window.xMin <= around.xMin /\ around.xMax <= window.xMax
            /\ window.xMin <= window.xMax
            /\ around.xMin <= b.xMin /\ b.xMax <= around.xMax
        BY <2>1, <3>1, <3>2, <3>3 DEF Lesser, Greater
      <3>5. /\ window.yMin <= around.yMin /\ around.yMax <= window.yMax
            /\ window.yMin <= window.yMax
            /\ around.yMin <= b.yMin /\ b.yMax <= around.yMax
        BY <2>1, <3>1, <3>2, <3>3 DEF Lesser, Greater
      <3> QED BY <3>4, <3>5
    <2> QED BY <2>2, <2>3
  <1>3. ASSUME NEW t \in Tile, InRegion(b, t)
        PROVE  InRegion(around, t)
    <2>1. /\ t[1] \in Int /\ t[2] \in Int
          /\ b.xMin \in Int /\ b.xMax \in Int /\ b.yMin \in Int /\ b.yMax \in Int
          /\ around.xMin \in Int /\ around.xMax \in Int
          /\ around.yMin \in Int /\ around.yMax \in Int
      BY <1>1, FabricAssumption DEF Tile, Row, Col, Region, GridRegion
    <2> HIDE DEF around
    <2> QED BY <2>1, <1>2, <1>3 DEF InRegion
  <1> QED BY <1>1, <1>2, <1>3

\* No row of lo to hi looks up a tile off the grid that has sites in the map.
OnGrid(col, stray, lo, hi) ==
    \A row \in lo .. hi : TileAt(row, col, stray) \in siteMap => <<row, col>> \in Tile

LEMMA FreeSegment ==
    ASSUME NEW r \in GridRegion, siteMap = SiteMapOf(r),
           NEW col, NEW stray, NEW lo \in Int, NEW hi \in Int,
           Uncut(col, stray, lo, hi), OnGrid(col, stray, lo, hi)
    PROVE  LET e    == ExpandRegion(r, Margin)
               rows == Greater(lo, e.yMin) .. Lesser(hi, Lesser(e.yMax, RowCount - 1))
           IN  FreeSites(col, stray, lo, hi) =
                  IF col \in Col /\ col \in e.xMin .. e.xMax
                  THEN SitesAt({<<row, col>> : row \in rows}) ELSE {}
  <1> DEFINE e    == ExpandRegion(r, Margin)
             rows == Greater(lo, e.yMin) .. Lesser(hi, Lesser(e.yMax, RowCount - 1))
             F    == Free(col, stray, lo, hi)
  <1>1. /\ e \in Region
        /\ e.yMin \in 0 .. RowCount /\ e.yMax \in 0 .. RowCount
        /\ RowCount \in Nat
    BY GridRegionIsRegion, ExpandIsRegion, FabricAssumption DEF Region
  <1> HIDE DEF e
  <1>2. \A row : row \in rows <=> /\ row \in lo .. hi
                                  /\ row \in Row
                                  /\ row \in e.yMin .. e.yMax
    BY <1>1 DEF Greater, Lesser, Row
  <1>3. \A t : t \in siteMap <=> t \in Tile /\ SitesOf[t] # <<>> /\ InRegion(e, t)
    BY DEF SiteMapOf, e
  <1>4. ASSUME NEW t \in F
        PROVE  \E row \in rows : t = <<row, col>> /\ col \in Col /\ col \in e.xMin .. e.xMax
    <2>1. PICK row \in lo .. hi : t = TileAt(row, col, stray) /\ t \in siteMap
      BY DEF Free
    <2>2. <<row, col>> \in Tile /\ t = <<row, col>>
      BY <2>1 DEF OnGrid, TileAt
    <2>3. row \in Row /\ col \in Col
      BY <2>2 DEF Tile
    <2>4. row \in e.yMin .. e.yMax /\ col \in e.xMin .. e.xMax
      BY <2>1, <2>2, <1>3 DEF InRegion
    <2> HIDE DEF rows
    <2> QED BY <2>2, <2>3, <2>4, <1>2
  <1>5. ASSUME NEW row \in rows, col \in Col, col \in e.xMin .. e.xMax
        PROVE  <<row, col>> \in F \/ SitesOf[<<row, col>>] = <<>>
    <2>1. row \in lo .. hi /\ row \in Row /\ row \in e.yMin .. e.yMax
      BY <1>2
    <2>2. <<row, col>> \in Tile /\ TileAt(row, col, stray) = <<row, col>>
      BY <2>1, <1>5 DEF Tile, TileAt
    <2>3. SitesOf[<<row, col>>] # <<>> => <<row, col>> \in siteMap
      BY <2>1, <2>2, <1>3, <1>5 DEF InRegion
    <2>4. <<row, col>> \in siteMap => <<row, col>> \notin macroTiles
      BY <2>1, <2>2 DEF Uncut, IsCut
    <2> HIDE DEF rows
    <2> QED BY <2>1, <2>2, <2>3, <2>4 DEF Free
  <1> HIDE DEF rows, F
  <1>6. CASE col \in Col /\ col \in e.xMin .. e.xMax
    <2> DEFINE T == {<<row, col>> : row \in rows}
    <2>1. F \subseteq T
      BY <1>4
    <2>2. \A t \in T : t \in F \/ SitesOf[t] = <<>>
      BY <1>5, <1>6
    <2>3. ToSet(<<>>) = {}
      BY DEF ToSet
    <2> HIDE DEF T
    <2>4. SitesAt(F) = SitesAt(T)
      BY <2>1, <2>2, <2>3 DEF SitesAt
    <2> QED BY <2>4, <1>6 DEF FreeSites, F, T, rows, e
  <1>7. CASE ~(col \in Col /\ col \in e.xMin .. e.xMax)
    <2>1. F = {}
      BY <1>4, <1>7
    <2>2. SitesAt({}) = {}
      BY DEF SitesAt
    <2> QED BY <2>1, <2>2, <1>7 DEF FreeSites, F, rows, e
  <1> QED BY <1>6, <1>7

\* On a regular layout, every run of rows between two cuts has its corner sites.
LEMMA LayoutHasCorners ==
    ASSUME ColumnsHaveCorners(0), NEW r \in GridRegion, siteMap = SiteMapOf(r),
           region.yMin \in Int, region.yMax \in Int,
           NEW col, NEW stray, OnGrid(col, stray, region.yMin, region.yMax)
    PROVE  SegmentsHaveCorners(col, stray)
  <1> SUFFICES ASSUME NEW lo \in region.yMin .. region.yMax,
                      NEW hi \in region.yMin .. region.yMax,
                      Uncut(col, stray, lo, hi),
                      NEW s \in FreeSites(col, stray, lo, hi)
               PROVE  HasCorners(s.type, FreeSites(col, stray, lo, hi))
    BY DEF SegmentsHaveCorners, IsSegment
  <1> DEFINE e      == ExpandRegion(r, Margin)
             top    == Greater(lo, e.yMin)
             bottom == Lesser(hi, Lesser(e.yMax, RowCount - 1))
             area   == SitesAt({<<row, col>> : row \in top .. bottom})
  <1>1. lo \in Int /\ hi \in Int
    OBVIOUS
  <1>2. OnGrid(col, stray, lo, hi)
    <2>1. \A row \in lo .. hi : row \in region.yMin .. region.yMax
      BY <1>1
    <2> QED BY <2>1 DEF OnGrid
  <1>3. /\ FreeSites(col, stray, lo, hi) = area
        /\ col \in Col
    BY <1>1, <1>2, FreeSegment
  <1>4. top \in Row /\ bottom \in Row /\ bottom - top >= 0
    <2>1. e \in Region
      BY GridRegionIsRegion, ExpandIsRegion
    <2>2. /\ e.yMin \in 0 .. RowCount /\ e.yMax \in 0 .. RowCount
          /\ RowCount \in Nat \ {0}
      BY <2>1, FabricAssumption DEF Region
    <2> HIDE DEF e
    <2>3. \E row : row \in top .. bottom
      <3>1. PICK t \in {<<row, col>> : row \in top .. bottom} : s \in ToSet(SitesOf[t])
        BY <1>3 DEF SitesAt
      <3> QED OBVIOUS
    <2>4. top \in Int /\ bottom \in Int /\ top >= 0 /\ bottom <= RowCount - 1
      BY <1>1, <2>2 DEF Greater, Lesser
    <2> HIDE DEF top, bottom
    <2> QED BY <2>2, <2>3, <2>4 DEF Row
  <1>5. s \in area
    BY <1>3
  <1> HIDE DEF area, top, bottom, e
  <1>6. \A u \in area : HasCorners(u.type, area)
    BY <1>3, <1>4 DEF ColumnsHaveCorners, area
  <1> QED BY <1>3, <1>5, <1>6

\* A column of the window passes every site that is to be prohibited there.
LEMMA ColumnPassesSites ==
    ASSUME NEW r \in GridRegion, siteMap = SiteMapOf(r),
           region.yMin \in Int, region.yMax \in Int,
           region.yMin <= ExpandRegion(r, Margin).yMin,
           ExpandRegion(r, Margin).yMax <= region.yMax,
           NEW t \in siteMap \ macroTiles, NEW stray
    PROVE  ToSet(SitesOf[t]) \subseteq FreeSites(t[2], stray, region.yMin, region.yMax)
  <1> DEFINE e == ExpandRegion(r, Margin)
  <1>1. e.yMin \in Int /\ e.yMax \in Int
    <2>1. e \in Region
      BY GridRegionIsRegion, ExpandIsRegion
    <2> QED BY <2>1, FabricAssumption DEF Region
  <1>2. t \in Tile /\ t[1] \in e.yMin .. e.yMax /\ t = <<t[1], t[2]>>
    BY DEF SiteMapOf, InRegion, Tile
  <1>3. t[1] \in region.yMin .. region.yMax
    BY <1>1, <1>2
  <1>4. t = TileAt(t[1], t[2], stray)
    BY <1>2 DEF TileAt
  <1> QED BY <1>3, <1>4 DEF FreeSites, Free, SitesAt

-----------------------------------------------------------------------------
\* The sites of macros.

\* After orders the sites of one type, and the default site comes after none.
LEMMA AfterOrders ==
    ASSUME NEW s \in DeviceSites, NEW u \in DeviceSites, s.type = u.type
    PROVE  /\ s # u => After(s, u) \/ After(u, s)
           /\ \A v \in DeviceSites : After(s, u) /\ After(u, v) => After(s, v)
           /\ ~After(DefaultSite, s)
  BY FabricAssumption DEF After, DefaultSite

\* placeMacro finds a slice of the tile: the one after all others.
LEMMA PlaceMacroIsSlice ==
    ASSUME NEW t \in Tile, NEW sm, t \in sm, SlicesAt(t) # {}
    PROVE  PlaceMacro(t, sm) \in SlicesAt(t)
  <1> DEFINE seq        == SitesOf[t]
             n          == Len(seq)
             upTo(k)    == {s \in {seq[i] : i \in 1 .. k} : s.type = "SLICE"}
             HasLast(k) == \E s \in upTo(k) : \A u \in upTo(k) : u # s => After(s, u)
             S          == {k \in 0 .. n : upTo(k) = {} \/ HasLast(k)}
  <1>1. seq \in Seq(DeviceSites) /\ n \in Nat /\ DOMAIN seq = 1 .. n
    BY FabricAssumption
  <1>2. SlicesAt(t) = upTo(n) /\ SlicesAt(t) \subseteq DeviceSites
    BY <1>1 DEF SlicesAt, ToSet
  <1> HIDE DEF seq, n
  <1>3. 0 \in S
    BY <1>1
  <1>4. ASSUME NEW k \in 0 .. n - 1, k \in S
        PROVE  k + 1 \in S
    <2>1. /\ k + 1 \in 0 .. n /\ k + 1 \in 1 .. n
          /\ 1 .. k + 1 = 1 .. k \cup {k + 1}
      BY <1>1
    <2>2. seq[k + 1] \in DeviceSites /\ \A s \in upTo(k) : s \in DeviceSites /\ s.type = "SLICE"
      BY <1>1, <2>1
    <2>3. CASE seq[k + 1].type # "SLICE"
      <3>1. upTo(k + 1) = upTo(k)
        BY <2>1, <2>3
      <3> HIDE DEF upTo
      <3> QED BY <2>1, <3>1, <1>4
    <2>4. CASE seq[k + 1].type = "SLICE"
      <3>1. upTo(k + 1) = upTo(k) \cup {seq[k + 1]}
        BY <2>1, <2>4
      <3> HIDE DEF upTo
      <3>2. CASE upTo(k) = {}
        <4>1. HasLast(k + 1)
          BY <3>1, <3>2
        <4> QED BY <4>1, <2>1
      <3>3. CASE upTo(k) # {}
        <4>1. PICK s \in upTo(k) : \A u \in upTo(k) : u # s => After(s, u)
          BY <3>3, <1>4
        <4>2. CASE seq[k + 1] = s \/ After(s, seq[k + 1])
          <5>1. HasLast(k + 1)
            BY <3>1, <4>1, <4>2
          <5> QED BY <5>1, <2>1
        <4>3. CASE seq[k + 1] # s /\ ~After(s, seq[k + 1])
          <5>1. After(seq[k + 1], s)
            BY <2>2, <2>4, <4>3, AfterOrders
          <5>2. \A u \in upTo(k) : After(seq[k + 1], u)
            BY <2>2, <2>4, <4>1, <5>1, AfterOrders
          <5>3. HasLast(k + 1)
            BY <3>1, <5>2
          <5> QED BY <5>3, <2>1
        <4> QED BY <4>2, <4>3
      <3> QED BY <3>2, <3>3
    <2> QED BY <2>3, <2>4
  <1> HIDE DEF S
  <1>5. n \in S
    BY <1>1, <1>3, <1>4, IndexInduction
  <1> HIDE DEF upTo
  <1>6. PICK s \in SlicesAt(t) : \A u \in SlicesAt(t) : u # s => After(s, u)
    BY <1>2, <1>5 DEF S
  <1> DEFINE site == PlaceMacro(t, sm)
  <1>7. /\ site \in SlicesAt(t) \cup {DefaultSite}
        /\ \A u \in SlicesAt(t) : u # site => After(site, u)
    BY <1>6 DEF PlaceMacro
  <1> HIDE DEF site
  <1>8. ~After(DefaultSite, s)
    <2>1. s.type = s.type /\ s \in DeviceSites
      BY <1>2
    <2> QED BY <2>1, AfterOrders
  <1>9. site = DefaultSite => site = s
    BY <1>7, <1>8
  <1> QED BY <1>7, <1>9 DEF site

\* A range of sites between two cuts leaves out the slices of every macro tile.
LEMMA RangeLeavesMacros ==
    ASSUME SlicesFollowGrid, siteMap \subseteq Tile,
           region.yMin \in Int, region.yMax \in Int,
           NEW col \in Int, NEW stray, OnGrid(col, stray, region.yMin, region.yMax),
           NEW range, NEW k, IsRangeOf(range, k, col, stray),
           NEW t \in siteMap \cap macroTiles, NEW u \in SlicesAt(t)
    PROVE  ~Covers(range, u)
  <1> SUFFICES ASSUME Covers(range, u)
               PROVE  FALSE
    OBVIOUS
  <1>1. PICK lo \in region.yMin .. region.yMax, hi \in region.yMin .. region.yMax :
            /\ Uncut(col, stray, lo, hi)
            /\ {range.min, range.max} \subseteq OfType(k, FreeSites(col, stray, lo, hi))
    BY DEF IsRangeOf
  <1>2. range.min.type = "SLICE" /\ range.max.type = "SLICE"
    BY <1>1 DEF OfType, Covers, SlicesAt
  <1>3. ASSUME NEW s \in {range.min, range.max}
        PROVE  \E row \in lo .. hi : <<row, col>> \in Tile /\ s \in SlicesAt(<<row, col>>)
    <2>1. PICK row \in lo .. hi : /\ TileAt(row, col, stray) \in siteMap
                                  /\ s \in ToSet(SitesOf[TileAt(row, col, stray)])
      BY <1>1 DEF OfType, FreeSites, Free, SitesAt
    <2>2. row \in region.yMin .. region.yMax
      BY <2>1
    <2>3. <<row, col>> \in Tile /\ TileAt(row, col, stray) = <<row, col>>
      BY <2>1, <2>2 DEF OnGrid, TileAt
    <2> QED BY <2>1, <2>3, <1>2 DEF SlicesAt
  <1>4. PICK a \in lo .. hi : <<a, col>> \in Tile /\ range.min \in SlicesAt(<<a, col>>)
    BY <1>3
  <1>5. PICK b \in lo .. hi : <<b, col>> \in Tile /\ range.max \in SlicesAt(<<b, col>>)
    BY <1>3
  <1>6. t \in Tile /\ t = <<t[1], t[2]>> /\ t[1] \in Int /\ t[2] \in Int
    BY FabricAssumption DEF Tile, Row, Col
  <1>7. /\ u.x \in Int /\ u.y \in Int
        /\ range.min.x \in Int /\ range.min.y \in Int
        /\ range.max.x \in Int /\ range.max.y \in Int
    <2>1. \A c \in Tile : SlicesAt(c) \subseteq DeviceSites
      BY DEF SlicesAt, DeviceSites, SitesAt
    <2>2. u \in DeviceSites /\ range.min \in DeviceSites /\ range.max \in DeviceSites
      BY <2>1, <1>4, <1>5, <1>6
    <2>3. \A s \in DeviceSites : s.x \in Int /\ s.y \in Int
      BY FabricAssumption
    <2> QED BY <2>2, <2>3
  <1>8. /\ range.min.x <= u.x /\ u.x <= range.max.x
        /\ range.min.y <= u.y /\ u.y <= range.max.y
    BY <1>7 DEF Covers
  <1>9. t[2] = col
    <2>1. ~(t[2] < col)
      <3>1. t[2] < col => u.x < range.min.x
        BY <1>4, <1>6 DEF SlicesFollowGrid
      <3> QED BY <3>1, <1>7, <1>8
    <2>2. ~(col < t[2])
      <3>1. col < t[2] => range.max.x < u.x
        BY <1>5, <1>6 DEF SlicesFollowGrid
      <3> QED BY <3>1, <1>7, <1>8
    <2> QED BY <2>1, <2>2, <1>6
  <1>10. b <= t[1] /\ t[1] <= a
    <2>1. ~(a < t[1])
      <3>1. a < t[1] => range.min.y > u.y
        BY <1>4, <1>6 DEF SlicesFollowGrid
      <3> QED BY <3>1, <1>7, <1>8
    <2>2. ~(t[1] < b)
      <3>1. t[1] < b => u.y > range.max.y
        BY <1>5, <1>6 DEF SlicesFollowGrid
      <3> QED BY <3>1, <1>7, <1>8
    <2> QED BY <2>1, <2>2, <1>6
  <1>11. t[1] \in lo .. hi
    BY <1>6, <1>10
  <1>12. TileAt(t[1], col, stray) = t
    BY <1>6, <1>9 DEF TileAt
  <1> QED BY <1>1, <1>11, <1>12 DEF Uncut, IsCut

-----------------------------------------------------------------------------
\* From one column to the next.

\* The rows a window visits are on the grid, or looked up to no avail.
RowsOnGrid == StrayTiles = {} \/ region.yMax < RowCount

LEMMA LookUpsOnGrid ==
    ASSUME RowsOnGrid, siteMap \subseteq Tile, region.yMin \in Nat, region.yMax \in Int,
           NEW col \in Col, NEW stray \in StrayTiles \cup {NoTile}
    PROVE  OnGrid(col, stray, region.yMin, region.yMax)
  <1>1. CASE StrayTiles = {}
    <2>1. NoTile \notin Tile
      BY DEF NoTile, Tile, Row
    <2> QED BY <1>1, <2>1 DEF OnGrid, TileAt
  <1>2. CASE region.yMax < RowCount
    <2>1. \A row \in region.yMin .. region.yMax : row \in Row
      BY <1>2, FabricAssumption DEF Row
    <2> QED BY <2>1 DEF OnGrid, Tile
  <1> QED BY <1>1, <1>2 DEF RowsOnGrid

\* The ranges held are those of one column.
HeldOf(col) == \E stray \in StrayTiles \cup {NoTile} : \A k \in DOMAIN prohibitedSites :
                   IsRangeOf(prohibitedSites[k], k, col, stray)

Held == {prohibitedSites[k] : k \in DOMAIN prohibitedSites}

\* They are written when the next column is entered, all but those of clock buffers.
LEMMA HeldIsWritten ==
    ASSUME NEW col, HeldOf(col), NEW range \in Held, range.min.type # "BUFGCTRL"
    PROVE  range \in Written(prohibitedSites)
  <1>1. PICK k \in DOMAIN prohibitedSites : range = prohibitedSites[k]
    BY DEF Held
  <1>2. PICK stray \in StrayTiles \cup {NoTile} :
            \A i \in DOMAIN prohibitedSites : IsRangeOf(prohibitedSites[i], i, col, stray)
    BY DEF HeldOf
  <1>3. IsRangeOf(range, k, col, stray)
    BY <1>1, <1>2
  <1>4. range.min.type = k
    BY <1>3 DEF IsRangeOf, OfType
  <1> QED BY <1>1, <1>4 DEF Written
=============================================================================
