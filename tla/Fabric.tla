------------------------------- MODULE Fabric -------------------------------
(***************************************************************************)
(* The device as AntiCoreBase sees it through Torc's DDB, a grid of typed  *)
(* tiles that hold sites, and the arithmetic AntiCoreBase does on the      *)
(* rectangle (xMin, xMax, yMin, yMax) that is the reconfigurable region.   *)
(* Rows grow downwards on the device, so row yMin is the TOP of a region.  *)
(***************************************************************************)
EXTENDS SiteRange

CONSTANTS RowCount,        \* rows of the tile grid
          ColCount,        \* columns of the tile grid
          TileType,        \* Torc: the type name of every tile
          SitesOf,         \* Torc: the sites of every tile, in site-index order
          TilesPerRegion   \* rows of one clock region: 21 on V5, 17 on V4

Row  == 0 .. RowCount - 1
Col  == 0 .. ColCount - 1
Tile == Row \X Col

\* The sites of some tiles.
SitesAt(tiles) == UNION {ToSet(SitesOf[t]) : t \in tiles}
DeviceSites    == SitesAt(Tile)

\* A site's name, TYPE_XxYy, is its type and coordinates.
ASSUME FabricAssumption ==
    /\ RowCount \in Nat \ {0}
    /\ ColCount \in Nat \ {0}
    /\ TilesPerRegion \in Nat \ {0, 1}
    /\ \A t \in Tile : SitesOf[t] \in Seq(DeviceSites)
    /\ \A s \in DeviceSites : s.x \in Nat /\ s.y \in Nat
    /\ \A s, u \in DeviceSites : s.type = u.type /\ s.x = u.x /\ s.y = u.y => s = u

\* Layouts on which ranges can do their work: in every so many rows of a column the sites of
\* a type have a first and a last one, the corners of a range that covers them all.
ColumnsHaveCorners(height) ==
    \A c \in Col, top, bottom \in Row : bottom - top >= height =>
        LET area == SitesAt({<<row, c>> : row \in top .. bottom})
        IN  \A s \in area : HasCorners(s.type, area)

SlicesAt(t) == {s \in ToSet(SitesOf[t]) : s.type = "SLICE"}

\* Slices are numbered from the left and from the bottom of the device.
SlicesFollowGrid ==
    \A t, u \in Tile : \A s \in SlicesAt(t), v \in SlicesAt(u) :
        /\ t[2] < u[2] => s.x < v.x
        /\ t[1] < u[1] => s.y > v.y

-----------------------------------------------------------------------------
\* The region.

\* One past the last row and column is included: expandRegion may go there.
Region == [xMin : 0 .. ColCount, xMax : 0 .. ColCount,
           yMin : 0 .. RowCount, yMax : 0 .. RowCount]

\* Regions on the grid, their corners in order: all that a UCF can define.
GridRegion == {r \in [xMin : Col, xMax : Col, yMin : Row, yMax : Row] :
                  r.xMin <= r.xMax /\ r.yMin <= r.yMax}

\* The constructor's vertices: "not defined yet".
NoRegion == [xMin |-> -1, xMax |-> -1, yMin |-> -1, yMax |-> -1]

InRegion(r, t) == /\ t[1] \in r.yMin .. r.yMax
                  /\ t[2] \in r.xMin .. r.xMax

Lesser(a, b)  == IF a < b THEN a ELSE b
Greater(a, b) == IF a > b THEN a ELSE b

\* buildValidBoundaries' tileCount on reaching a row.
TileCount[row \in Row] ==
    IF row = 0 THEN 0
    ELSE IF TileCount[row - 1] = TilesPerRegion THEN 0
    ELSE TileCount[row - 1] + 1

ValidBoundaries == {row \in Row \ {0} : TileCount[row] \in {1, TilesPerRegion}}

ValidateRegion(r) == r.yMin \in ValidBoundaries /\ r.yMax \in ValidBoundaries

\* The rectangle two tiles span.
Span(a, b) == [xMin |-> Lesser(a[2], b[2]), xMax |-> Greater(a[2], b[2]),
               yMin |-> Lesser(a[1], b[1]), yMax |-> Greater(a[1], b[1])]

\* The least rectangle over r and s.
Hull(r, s) == [xMin |-> Lesser(r.xMin, s.xMin), xMax |-> Greater(r.xMax, s.xMax),
               yMin |-> Lesser(r.yMin, s.yMin), yMax |-> Greater(r.yMax, s.yMax)]

\* expandRegionToINT: the first INT column (or column 0) at or left of xMin in
\* row yMax, unless it is more than two columns away.
ExpandRegionToINT(r) ==
    LET stops == {c \in (r.xMin - 2) .. r.xMin :
                    c = 0 \/ (c > 0 /\ TileType[<<r.yMax, c>>] = "INT")}
    IN  IF stops = {} THEN r ELSE [r EXCEPT !.xMin = Max(stops)]

\* Slip: no clipping at the edges of the grid.
ExpandUnclipped(r, k) == [xMin |-> r.xMin - k, xMax |-> r.xMax + k,
                          yMin |-> r.yMin - k, yMax |-> r.yMax + k]

\* expandRegion(k): the lower edges stop at 0, the upper ones at the COUNT.
ExpandRegion(r, k) == [xMin |-> Greater(0, r.xMin - k),
                       xMax |-> Lesser(ColCount, r.xMax + k),
                       yMin |-> Greater(0, r.yMin - k),
                       yMax |-> Lesser(RowCount, r.yMax + k)]

\* shrinkRegion(k): each lower edge first, then the upper one as far as it.
ShrinkRegion(r, k) ==
    LET x == Lesser(r.xMax, r.xMin + k)
        y == Lesser(r.yMax, r.yMin + k)
    IN  [xMin |-> x, xMax |-> Greater(x, r.xMax - k),
         yMin |-> y, yMax |-> Greater(y, r.yMax - k)]

-----------------------------------------------------------------------------
\* The mask.

Modes == {"static", "partial"}
Unset == -1        \* what allocateMask leaves in the mask: not initialized

\* setupRouteBlocker's mask.
MaskOf(r, m) ==
    [t \in Tile |-> IF InRegion(r, t) THEN IF m = "static" THEN 0 ELSE 1
                                      ELSE IF m = "static" THEN 1 ELSE 0]

MaskType == [Tile -> {0, 1, Unset}]

=============================================================================
