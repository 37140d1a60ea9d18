------------------------- MODULE CommandLineProofs --------------------------
(***************************************************************************)
(* One operation of anticore, for every device, every pair of sites a user *)
(* may name and every order of the sites in the database: what "s" prints  *)
(* and what "r" and "rp" guard is the rectangle that was asked for.        *)
(***************************************************************************)
EXTENDS CommandLine, AntiCoreProofs

LEMMA SitesAreOfDevice ==
    ASSUME NEW r
    PROVE  SitesIn(r) \subseteq DeviceSites
  BY DEF SitesIn, SitesAt, DeviceSites

-----------------------------------------------------------------------------
\* The inductive invariant.

LEMMA AskedIsGridRegion ==
    ASSUME request \in Request
    PROVE  AskedRegion \in GridRegion /\ Rebound(AskedRegion) \in GridRegion
  BY SpanIsGridRegion, ToINTIsGridRegion, ReboundIsGridRegion DEF Request, AskedRegion

LEMMA InitEstablishes == Init => CommandLineInvariant
  <1> SUFFICES ASSUME Init
               PROVE  CommandLineInvariant
    OBVIOUS
  <1> USE DEF Init, InitCore
  <1>1. TypeOK
    <2>1. mask \in MaskType
      BY DEF MaskType
    <2> QED BY <2>1, CommandLineAssumption DEF TypeOK, Modes
  <1>2. ObjectServesRequest /\ SeenSoFar /\ AllPrinted /\ CornersAreKept /\ MaskIsTheRequest
    BY DEF ObjectServesRequest, SeenSoFar, AllPrinted, CornersAreKept, MaskIsTheRequest
  <1> QED BY <1>1, <1>2 DEF CommandLineInvariant

\* A step to a phase of which the last four parts say nothing.
Silent == phase' \in {"shell", "new", "ready", "columns", "again", "done"}
          /\ (phase' = "done" => request'.operation # "s")

LEMMA SilentKeeps ==
    ASSUME Silent
    PROVE  AllPrinted' /\ CornersAreKept'
  BY DEF Silent, AllPrinted, CornersAreKept, Asks

LEMMA EndProcessKeeps ==
    ASSUME CommandLineInvariant, EndProcess
    PROVE  CommandLineInvariant'
  <1> USE DEF EndProcess, NewCore, CommandLineInvariant
  <1>1. TypeOK'
    <2>1. mask' \in MaskType
      BY DEF MaskType
    <2> QED BY <2>1 DEF TypeOK, Modes
  <1>2. ObjectServesRequest' /\ SeenSoFar' /\ MaskIsTheRequest'
    BY DEF ObjectServesRequest, SeenSoFar, MaskIsTheRequest
  <1>3. AllPrinted' /\ CornersAreKept'
    BY SilentKeeps DEF Silent
  <1> QED BY <1>1, <1>2, <1>3

LEMMA InvokeKeeps ==
    ASSUME CommandLineInvariant, NEW corners \in Corners, NEW op \in Operation,
           Invoke(corners, op)
    PROVE  CommandLineInvariant'
  <1> USE DEF Invoke, CommandLineInvariant, coreVars
  <1>1. request' \in Request
    BY CommandLineAssumption DEF Request
  <1>2. TypeOK'
    BY <1>1, CommandLineAssumption DEF TypeOK
  <1>3. ObjectServesRequest' /\ SeenSoFar'
    BY <1>1 DEF ObjectServesRequest, SeenSoFar
  <1>4. MaskIsTheRequest'
    BY DEF SeenSoFar, MaskIsTheRequest
  <1>5. AllPrinted' /\ CornersAreKept'
    BY SilentKeeps DEF Silent
  <1> QED BY <1>2, <1>3, <1>4, <1>5

LEMMA OtherModeKeeps ==
    ASSUME CommandLineInvariant, InvokeOtherMode
    PROVE  CommandLineInvariant'
  <1> USE DEF InvokeOtherMode, processVars, coreVars, CommandLineInvariant
  <1>1. TypeOK'
    BY CommandLineAssumption DEF TypeOK
  <1>2. ObjectServesRequest' /\ SeenSoFar' /\ MaskIsTheRequest'
    BY DEF ObjectServesRequest, SeenSoFar, MaskIsTheRequest
  <1>3. AllPrinted' /\ CornersAreKept'
    BY SilentKeeps DEF Silent
  <1> QED BY <1>1, <1>2, <1>3

LEMMA ConstructKeeps ==
    ASSUME CommandLineInvariant, Construct
    PROVE  CommandLineInvariant'
  <1> USE DEF Construct, CommandLineInvariant
  <1>1. request \in Request /\ mode = "static" /\ AskedRegion' = AskedRegion
    BY DEF ObjectServesRequest, AskedRegion
  <1>2. region' \in Region /\ mask' \in MaskType /\ siteMap' \subseteq Tile
    BY <1>1, AskedIsGridRegion, GridRegionIsRegion, MaskIsTyped DEF SiteMapOf
  <1>3. TypeOK'
    BY <1>2 DEF TypeOK
  <1>4. ObjectServesRequest' /\ SeenSoFar'
    BY <1>1 DEF ObjectServesRequest, SeenSoFar
  <1>5. MaskIsTheRequest'
    BY DEF SeenSoFar, MaskIsTheRequest
  <1>6. AllPrinted' /\ CornersAreKept'
    BY SilentKeeps DEF Silent
  <1> QED BY <1>3, <1>4, <1>5, <1>6

LEMMA StartSitesKeeps ==
    ASSUME CommandLineInvariant, StartSites
    PROVE  CommandLineInvariant'
  <1> USE DEF StartSites, CommandLineInvariant
  <1>1. AskedRegion' = AskedRegion
    BY DEF AskedRegion
  <1>2. TypeOK'
    BY DEF TypeOK
  <1>3. ObjectServesRequest' /\ SeenSoFar' /\ AllPrinted' /\ MaskIsTheRequest'
    BY <1>1 DEF ObjectServesRequest, SeenSoFar, AllPrinted, MaskIsTheRequest, Asks
  <1>4. CornersAreKept'
    <2>1. DOMAIN prohibitedSites' = {} /\ seen' = {}
      BY DEF NoRanges, SeenSoFar
    <2> QED BY <2>1 DEF CornersAreKept
  <1> QED BY <1>2, <1>3, <1>4

\* In terms of one range at a time.
LEMMA CornersPerType ==
    CornersAreKept <=>
        (phase \in {"sites", "done"} /\ Asks("s") =>
            /\ DOMAIN prohibitedSites = {s.type : s \in seen}
            /\ \A k \in DOMAIN prohibitedSites :
                  RangeKeepsCorners(prohibitedSites[k], SeenOf(k), SitesIn(region)))
  BY DEF CornersAreKept, RangeKeepsCorners

LEMMA BlockSiteKeeps ==
    ASSUME CommandLineInvariant, NEW s \in SitesIn(region), BlockSite(s)
    PROVE  CommandLineInvariant'
  <1> USE DEF BlockSite, CommandLineInvariant
  <1>1. AskedRegion' = AskedRegion /\ Asks("s")
    BY DEF AskedRegion, ObjectServesRequest
  <1>2. TypeOK'
    BY SitesAreOfDevice DEF TypeOK
  <1>3. ObjectServesRequest' /\ SeenSoFar' /\ AllPrinted' /\ MaskIsTheRequest'
    BY <1>1 DEF ObjectServesRequest, SeenSoFar, AllPrinted, MaskIsTheRequest, Asks
  <1>4. CornersAreKept'
    <2> DEFINE area == SitesIn(region)
               old(k) == {u \in seen : u.type = k}
               new(k) == {u \in seen' : u.type = k}
    <2>1. /\ DOMAIN prohibitedSites = {u.type : u \in seen}
          /\ \A k \in DOMAIN prohibitedSites :
                RangeKeepsCorners(prohibitedSites[k], old(k), area)
      BY <1>1, CornersPerType DEF SeenOf
    <2>2. area \in SUBSET DeviceSites /\ seen \subseteq area
      BY SitesAreOfDevice, <1>1 DEF SeenSoFar
    <2>3. /\ DOMAIN prohibitedSites' = DOMAIN prohibitedSites \cup {s.type}
          /\ DOMAIN prohibitedSites' = {u.type : u \in seen'}
      <3>1. DOMAIN prohibitedSites' = DOMAIN prohibitedSites \cup {s.type}
        BY AddSiteValue
      <3>2. {u.type : u \in seen'} = {u.type : u \in seen} \cup {s.type}
        OBVIOUS
      <3> QED BY <3>1, <3>2, <2>1
    <2>4. RangeKeepsCorners(prohibitedSites'[s.type], new(s.type), area)
      <3>1. CASE s.type \in DOMAIN prohibitedSites
        <4>1. /\ RangeKeepsCorners(prohibitedSites[s.type], old(s.type), area)
              /\ prohibitedSites'[s.type] = Extend(prohibitedSites[s.type], s)
          BY <3>1, <2>1, AddSiteValue
        <4>2. /\ old(s.type) \in SUBSET area /\ s \notin old(s.type)
              /\ \A u \in old(s.type) : u.type = s.type
              /\ new(s.type) = old(s.type) \cup {s}
          BY <2>2
        <4> QED BY <4>1, <4>2, <2>2, ExtendKeepsCorners
      <3>2. CASE s.type \notin DOMAIN prohibitedSites
        <4>1. /\ prohibitedSites'[s.type] = NewRange(s)
              /\ new(s.type) = {s}
          BY <3>2, <2>1, AddSiteValue
        <4> QED BY <4>1, NewRangeKeepsCorners
      <3> QED BY <3>1, <3>2
    <2>5. ASSUME NEW k \in DOMAIN prohibitedSites, k # s.type
          PROVE  RangeKeepsCorners(prohibitedSites'[k], new(k), area)
      <3>1. prohibitedSites'[k] = prohibitedSites[k]
        BY <2>5, AddSiteValue
      <3>2. new(k) = old(k)
        BY <2>5
      <3> HIDE DEF old, new
      <3> QED BY <3>1, <3>2, <2>1
    <2>6. \A k \in DOMAIN prohibitedSites' : RangeKeepsCorners(prohibitedSites'[k], new(k), area)
      <3> HIDE DEF new, old
      <3> QED BY <2>3, <2>4, <2>5
    <2> QED BY <2>3, <2>6 DEF CornersAreKept, RangeKeepsCorners, SeenOf
  <1> QED BY <1>2, <1>3, <1>4

LEMMA PrintSitesKeeps ==
    ASSUME CommandLineInvariant, PrintSites
    PROVE  CommandLineInvariant'
  <1> USE DEF PrintSites, CommandLineInvariant, coreVars
  <1>1. AskedRegion' = AskedRegion /\ Asks("s") /\ SitesIn(region)' = SitesIn(region)
    BY DEF AskedRegion, ObjectServesRequest, SitesIn
  <1>2. TypeOK'
    BY DEF TypeOK
  <1>3. ObjectServesRequest' /\ SeenSoFar' /\ AllPrinted' /\ MaskIsTheRequest'
    BY <1>1 DEF ObjectServesRequest, SeenSoFar, AllPrinted, MaskIsTheRequest, Asks
  <1>4. CornersAreKept'
    BY <1>1 DEF CornersAreKept, SeenOf, Asks
  <1> QED BY <1>2, <1>3, <1>4

LEMMA StartColumnsKeeps ==
    ASSUME CommandLineInvariant, StartColumns
    PROVE  CommandLineInvariant'
  <1> USE DEF StartColumns, EnterPlaceConstraints, CommandLineInvariant
  <1>1. AskedRegion' = AskedRegion /\ request \in Request /\ region = Rebound(AskedRegion)
    BY DEF AskedRegion, ObjectServesRequest
  <1>2. region \in GridRegion
    BY <1>1, AskedIsGridRegion
  <1>3. RegionBuilt \in Region
    BY <1>2, ReboundIsGridRegion, GridRegionIsRegion DEF RegionBuilt
  <1>4. region' \in Region
    BY <1>3, ExpandIsRegion
  <1>5. column' \in 0 .. ColCount + 1
    BY <1>4, FabricAssumption DEF Region
  <1>6. siteMap' \subseteq Tile
    BY DEF SiteMapBuilt, SiteMapOf, TypeOK
  <1>7. TypeOK'
    BY <1>4, <1>5, <1>6 DEF TypeOK
  <1>8. ObjectServesRequest' /\ SeenSoFar' /\ MaskIsTheRequest'
    BY <1>1 DEF ObjectServesRequest, SeenSoFar, MaskIsTheRequest, Asks
  <1>9. AllPrinted' /\ CornersAreKept'
    BY SilentKeeps DEF Silent
  <1> QED BY <1>7, <1>8, <1>9

LEMMA BlockColumnKeeps ==
    ASSUME CommandLineInvariant, BlockColumn
    PROVE  CommandLineInvariant'
  <1> USE DEF BlockColumn, PlaceConstraintsIn, CommandLineInvariant
  <1>1. AskedRegion' = AskedRegion
    BY DEF AskedRegion
  <1>2. column' \in 0 .. ColCount + 1
    <2>1. column \in Int /\ column >= -1 /\ ColCount \in Nat
      BY FabricAssumption DEF TypeOK, NoColumn
    <2>2. region.xMax \in Int /\ region.xMax <= ColCount
      <3>1. CASE region \in Region
        BY <3>1, <2>1 DEF Region
      <3>2. CASE region = NoRegion
        BY <3>2, <2>1 DEF NoRegion
      <3> QED BY <3>1, <3>2 DEF TypeOK
    <2>3. column <= region.xMax /\ column' = column + 1
      OBVIOUS
    <2> HIDE DEF BlockColumn, PlaceConstraintsIn, CommandLineInvariant
    <2> QED BY <2>1, <2>2, <2>3
  <1>3. TypeOK'
    BY <1>2 DEF TypeOK
  <1>4. ObjectServesRequest' /\ SeenSoFar' /\ MaskIsTheRequest'
    BY <1>1 DEF ObjectServesRequest, SeenSoFar, MaskIsTheRequest, Asks
  <1>5. AllPrinted' /\ CornersAreKept'
    BY SilentKeeps DEF Silent
  <1> QED BY <1>3, <1>4, <1>5

LEMMA EndColumnsKeeps ==
    ASSUME CommandLineInvariant, EndColumns
    PROVE  CommandLineInvariant'
  <1> USE DEF EndColumns, CommandLineInvariant, coreVars
  <1>1. AskedRegion' = AskedRegion /\ request'.operation # "s"
    BY DEF AskedRegion, ObjectServesRequest, Asks
  <1>2. TypeOK'
    BY DEF TypeOK
  <1>3. ObjectServesRequest' /\ SeenSoFar' /\ MaskIsTheRequest'
    BY <1>1 DEF ObjectServesRequest, SeenSoFar, MaskIsTheRequest, Asks
  <1>4. AllPrinted' /\ CornersAreKept'
    BY <1>1, SilentKeeps DEF Silent
  <1> QED BY <1>2, <1>3, <1>4

LEMMA BlockRoutesKeeps ==
    ASSUME CommandLineInvariant, BlockRoutes
    PROVE  CommandLineInvariant'
  <1> USE DEF BlockRoutes, CommandLineInvariant, coreVars
  <1>1. AskedRegion' = AskedRegion /\ request'.operation # "s"
    BY DEF AskedRegion, Asks
  <1>2. /\ passes' = <<[mode |-> mode, mask |-> mask]>>
        /\ mask = MaskOf(AskedRegion, "static")
    BY DEF SeenSoFar, ObjectServesRequest
  <1>3. TypeOK'
    BY <1>2 DEF TypeOK
  <1>4. ObjectServesRequest' /\ SeenSoFar' /\ MaskIsTheRequest'
    BY <1>1, <1>2 DEF ObjectServesRequest, SeenSoFar, MaskIsTheRequest, Asks
  <1>5. AllPrinted' /\ CornersAreKept'
    BY <1>1, SilentKeeps DEF Silent
  <1> QED BY <1>3, <1>4, <1>5

LEMMA BlockRoutesAgainKeeps ==
    ASSUME CommandLineInvariant, BlockRoutesAgain
    PROVE  CommandLineInvariant'
  <1> USE DEF BlockRoutesAgain, SetMode, CommandLineInvariant
  <1>1. AskedRegion' = AskedRegion /\ request'.operation # "s"
    BY DEF AskedRegion, Asks, ObjectServesRequest
  <1>2. mask = MaskOf(AskedRegion, "static")
    BY DEF ObjectServesRequest
  <1>3. TypeOK'
    BY DEF TypeOK, Modes
  <1>4. MaskIsTheRequest'
    <2>1. passes \in Seq([mode : Modes, mask : MaskType])
      BY DEF TypeOK
    <2>2. \A i \in DOMAIN passes' : \/ i \in DOMAIN passes /\ passes'[i] = passes[i]
                                    \/ passes'[i].mask = mask
      BY <2>1
    <2> QED BY <2>2, <1>1, <1>2 DEF MaskIsTheRequest
  <1>5. ObjectServesRequest' /\ SeenSoFar'
    BY <1>1, <1>2 DEF ObjectServesRequest, SeenSoFar, Asks
  <1>6. AllPrinted' /\ CornersAreKept'
    BY <1>1, SilentKeeps DEF Silent
  <1> QED BY <1>3, <1>4, <1>5, <1>6

LEMMA StutterKeeps ==
    ASSUME CommandLineInvariant, UNCHANGED vars
    PROVE  CommandLineInvariant'
  <1> USE DEF vars, processVars, coreVars, CommandLineInvariant
  <1>1. AskedRegion' = AskedRegion /\ SitesIn(region)' = SitesIn(region)
    BY DEF AskedRegion, SitesIn
  <1>2. TypeOK'
    BY DEF TypeOK
  <1>3. ObjectServesRequest' /\ SeenSoFar' /\ AllPrinted' /\ MaskIsTheRequest'
    BY <1>1 DEF ObjectServesRequest, SeenSoFar, AllPrinted, MaskIsTheRequest, Asks
  <1>4. CornersAreKept'
    BY <1>1 DEF CornersAreKept, SeenOf, Asks
  <1> QED BY <1>2, <1>3, <1>4

-----------------------------------------------------------------------------
\* Theorems.

\* The parts of the invariant hold together in every reachable state.
THEOREM CommandLineInvariantHolds == Spec => []CommandLineInvariant
  <1>1. CommandLineInvariant /\ [Next]_vars => CommandLineInvariant'
    <2> SUFFICES ASSUME CommandLineInvariant, [Next]_vars
                 PROVE  CommandLineInvariant'
      OBVIOUS
    <2>1. ASSUME NEW corners \in Corners, NEW op \in Operation, Invoke(corners, op)
          PROVE  CommandLineInvariant'
      BY <2>1, InvokeKeeps
    <2>2. ASSUME NEW s \in SitesIn(region), BlockSite(s)
          PROVE  CommandLineInvariant'
      BY <2>2, BlockSiteKeeps
    <2>3. CASE InvokeOtherMode
      BY <2>3, OtherModeKeeps
    <2>4. CASE Construct
      BY <2>4, ConstructKeeps
    <2>5. CASE StartSites \/ PrintSites
      BY <2>5, StartSitesKeeps, PrintSitesKeeps
    <2>6. CASE StartColumns \/ BlockColumn \/ EndColumns
      BY <2>6, StartColumnsKeeps, BlockColumnKeeps, EndColumnsKeeps
    <2>7. CASE BlockRoutes \/ BlockRoutesAgain
      BY <2>7, BlockRoutesKeeps, BlockRoutesAgainKeeps
    <2>8. CASE Return \/ Kill
      BY <2>8, EndProcessKeeps DEF Return, Kill
    <2>9. CASE UNCHANGED vars
      BY <2>9, StutterKeeps
    <2> QED BY <2>1, <2>2, <2>3, <2>4, <2>5, <2>6, <2>7, <2>8, <2>9 DEF Next
  <1> QED BY <1>1, InitEstablishes, PTL DEF Spec

\* The object, the columns visited and the passes made are always of their types.
THEOREM TypeCorrect == Spec => []TypeOK
  <1>1. CommandLineInvariant => TypeOK
    BY DEF CommandLineInvariant
  <1> QED BY <1>1, CommandLineInvariantHolds, PTL

\* Whatever the order of the sites, a corner site keeps its end of its type's range.
THEOREM CornersAreKeptAlways == Spec => []CornersAreKept
  <1>1. CommandLineInvariant => CornersAreKept
    BY DEF CommandLineInvariant
  <1> QED BY <1>1, CommandLineInvariantHolds, PTL

\* Both passes of blockRoutes guard the rectangle that was asked for.
THEOREM MaskIsTheRequestAlways == Spec => []MaskIsTheRequest
  <1>1. CommandLineInvariant => MaskIsTheRequest
    BY DEF CommandLineInvariant
  <1> QED BY <1>1, CommandLineInvariantHolds, PTL

\* Away from the edges, the printed ranges cover the rectangle that was asked for.
THEOREM RequestIsCoveredAlways == Spec => []RequestIsCovered
  <1>1. CommandLineInvariant => RequestIsCovered
    <2> SUFFICES ASSUME CommandLineInvariant, phase = "done", Asks("s"), Interior(AskedRegion),
                        NEW s \in SitesIn(AskedRegion),
                        HasCorners(s.type, SitesIn(AskedRegion))
                 PROVE  \E range \in stdout : Covers(range, s)
      BY DEF RequestIsCovered
    <2> USE DEF CommandLineInvariant
    <2>1. request \in Request /\ region = Rebound(AskedRegion)
      BY DEF ObjectServesRequest
    <2>2. region = AskedRegion
      BY <2>1, AskedIsGridRegion, InteriorRebounds DEF Interior
    <2>3. /\ seen = SitesIn(AskedRegion)
          /\ stdout = {prohibitedSites[k] : k \in DOMAIN prohibitedSites}
      BY <2>2 DEF AllPrinted
    <2>4. s.type \in DOMAIN prohibitedSites
      BY <2>3 DEF CornersAreKept
    <2>5. PICK c \in seen, d \in seen :
              /\ c.type = s.type /\ IsFirst(c, SitesIn(region))
              /\ d.type = s.type /\ IsLast(d, SitesIn(region))
      BY <2>2, <2>3 DEF HasCorners
    <2>6. prohibitedSites[s.type].min = c /\ prohibitedSites[s.type].max = d
      BY <2>4, <2>5 DEF CornersAreKept, SeenOf
    <2>7. /\ c.x <= s.x /\ c.y <= s.y /\ s.x <= d.x /\ s.y <= d.y
          /\ c.x \in Int /\ c.y \in Int /\ d.x \in Int /\ d.y \in Int
          /\ s.x \in Int /\ s.y \in Int
      BY <2>2, <2>3, <2>5, SitesAreOfDevice, FabricAssumption DEF IsFirst, IsLast
    <2>8. Covers(prohibitedSites[s.type], s)
      BY <2>5, <2>6, <2>7 DEF Covers
    <2> QED BY <2>3, <2>4, <2>8
  <1> QED BY <1>1, CommandLineInvariantHolds, PTL
-----------------------------------------------------------------------------
\* The constraints file.

\* The sites of some columns that are to be prohibited.
SitesOfColumns(cols) ==
    {s \in SitesAt({t \in siteMap : t[2] \in cols}) : s.type # "BUFGCTRL"}

\* What "p" knows while it visits the columns: those before the latest are written.
ColumnsVisited ==
    /\ region = ExpandRegion(Rebound(AskedRegion), Margin)
    /\ column \in region.xMin .. region.xMax + 1
    /\ IF column = region.xMin THEN prohibitedSites = NoRanges ELSE HeldOf(column - 1)
    /\ Interior(AskedRegion) /\ ColumnsHaveCorners(2 * Margin) =>
          /\ \A s \in SitesOfColumns(region.xMin .. column - 2) :
                \E range \in systemUcf : Covers(range, s)
          /\ \A s \in SitesOfColumns(region.xMin .. column - 1) :
                \E range \in systemUcf \cup Held : Covers(range, s)

LinesAreAsked ==
    /\ systemUcf # {} => Asks("p")
    /\ \A range \in systemUcf :
          {range.min, range.max} \subseteq SitesIn(ExpandRegion(AskedRegion, Margin))

AskedIsWritten ==
    phase = "done" /\ Asks("p") /\ Interior(AskedRegion) /\ ColumnsHaveCorners(2 * Margin) =>
        \A s \in SitesIn(AskedRegion) :
            s.type # "BUFGCTRL" => \E range \in systemUcf : Covers(range, s)

\* The inductive invariant, next to CommandLineInvariant.
UcfInvariant ==
    /\ phase \notin {"shell", "new"} => siteMap = SiteMapOf(AskedRegion) /\ siteMap # {}
    /\ phase \in {"shell", "new", "ready"} => prohibitedSites = NoRanges
    /\ phase = "new" => SitesOf[request.a] # <<>>
    /\ phase = "columns" => ColumnsVisited
    /\ LinesAreAsked
    /\ AskedIsWritten


\* A rectangle around two tiles, and what is added to it, has these tiles.
LEMMA AskedHasSites ==
    ASSUME request \in Request, SitesOf[request.a] # <<>>
    PROVE  SiteMapOf(AskedRegion) # {}
  <1> DEFINE a == request.a
             s == Span(a, request.b)
             r == AskedRegion
  <1>1. /\ a \in Tile /\ s \in GridRegion /\ r \in GridRegion
    BY SpanIsGridRegion, AskedIsGridRegion DEF Request
  <1>2. /\ s.xMin \in Nat /\ s.xMax \in Nat /\ s.yMin \in Nat /\ s.yMax \in Nat
        /\ r.xMin \in Nat /\ a[1] \in 0 .. RowCount - 1 /\ a[2] \in 0 .. ColCount - 1
        /\ RowCount \in Nat /\ ColCount \in Nat
    BY <1>1, FabricAssumption DEF GridRegion, Tile, Row, Col
  <1>3. /\ s.xMin <= a[2] /\ a[2] <= s.xMax /\ s.yMin <= a[1] /\ a[1] <= s.yMax
    <2>1. request.b[1] \in Int /\ request.b[2] \in Int
      BY FabricAssumption DEF Request, Tile, Row, Col
    <2> QED BY <1>2, <2>1 DEF Span, Lesser, Greater
  <1>4. r.xMin <= s.xMin /\ r.xMax = s.xMax /\ r.yMin = s.yMin /\ r.yMax = s.yMax
    BY <1>1, ToINTMovesLeft DEF AskedRegion
  <1> HIDE DEF a, s, r
  <1>5. InRegion(ExpandRegion(r, Margin), a)
    <2>1. ExpandRegion(r, Margin) = [xMin |-> Greater(0, r.xMin - 3),
                                     xMax |-> Lesser(ColCount, r.xMax + 3),
                                     yMin |-> Greater(0, r.yMin - 3),
                                     yMax |-> Lesser(RowCount, r.yMax + 3)]
      BY DEF ExpandRegion, Margin
    <2>2. a[1] \in Greater(0, r.yMin - 3) .. Lesser(RowCount, r.yMax + 3)
      <3>1. r.yMin <= a[1] /\ a[1] <= r.yMax /\ r.yMin \in Nat /\ r.yMax \in Nat
        BY <1>2, <1>3, <1>4
      <3> QED BY <1>2, <3>1 DEF Greater, Lesser
    <2>3. a[2] \in Greater(0, r.xMin - 3) .. Lesser(ColCount, r.xMax + 3)
      <3>1. r.xMin <= a[2] /\ a[2] <= r.xMax /\ r.xMin \in Nat /\ r.xMax \in Nat
        BY <1>2, <1>3, <1>4
      <3> QED BY <1>2, <3>1 DEF Greater, Lesser
    <2> QED BY <2>1, <2>2, <2>3 DEF InRegion
  <1> QED BY <1>1, <1>5 DEF SiteMapOf, a, r

LEMMA UcfInit == Init => UcfInvariant
  BY DEF Init, InitCore, UcfInvariant, LinesAreAsked, AskedIsWritten

\* Steps that visit no column and write no line.
LEMMA UcfQuiet ==
    ASSUME UcfInvariant, UNCHANGED <<request, systemUcf>>,
           phase' # "columns",
           phase' = "done" => ~Asks("p"),
           phase' # "new",
           phase' # "shell" => siteMap' = SiteMapOf(AskedRegion) /\ siteMap' # {},
           phase' \in {"shell", "new", "ready"} => prohibitedSites' = NoRanges
    PROVE  UcfInvariant'
  <1>1. AskedRegion' = AskedRegion
    BY DEF AskedRegion
  <1>2. LinesAreAsked' /\ AskedIsWritten'
    BY <1>1 DEF UcfInvariant, LinesAreAsked, AskedIsWritten, Asks, SitesIn
  <1> QED BY <1>1, <1>2 DEF UcfInvariant

LEMMA InvokeWritesAfresh ==
    ASSUME UcfInvariant, InvokeOtherMode \/ \E c \in Corners, op \in Operation : Invoke(c, op)
    PROVE  UcfInvariant'
  <1>1. phase = "shell" \/ InvokeOtherMode
    BY DEF Invoke
  <1>2. /\ systemUcf' = {} /\ phase' \in {"shell", "new"}
        /\ prohibitedSites' = NoRanges
    BY <1>1 DEF Invoke, InvokeOtherMode, processVars, coreVars, UcfInvariant
  <1>3. phase' = "new" => SitesOf[request'.a] # <<>>
    BY CommandLineAssumption DEF Invoke, InvokeOtherMode, processVars
  <1> QED BY <1>2, <1>3 DEF UcfInvariant, LinesAreAsked, AskedIsWritten

LEMMA StartColumnsKnows ==
    ASSUME CommandLineInvariant, UcfInvariant, StartColumns
    PROVE  UcfInvariant'
  <1>1. /\ request \in Request /\ region = Rebound(AskedRegion)
        /\ siteMap = SiteMapOf(AskedRegion) /\ siteMap # {}
        /\ prohibitedSites = NoRanges
    BY DEF StartColumns, CommandLineInvariant, ObjectServesRequest, UcfInvariant
  <1>2. /\ region' = ExpandRegion(Rebound(AskedRegion), Margin)
        /\ phase' = "columns" /\ column' = region'.xMin
        /\ UNCHANGED <<siteMap, prohibitedSites, request, systemUcf, macroTiles>>
    BY <1>1 DEF StartColumns, EnterPlaceConstraints, SiteMapBuilt, RegionBuilt
  <1>3. AskedRegion' = AskedRegion
    BY <1>2 DEF AskedRegion
  <1>4. AskedRegion \in GridRegion
    BY <1>1, AskedIsGridRegion
  <1>5. region' \in Region /\ region'.xMin <= region'.xMax
    BY <1>2, <1>4, WindowOfRegion
  <1>6. region'.xMin \in Int /\ region'.xMax \in Int
    BY <1>5, FabricAssumption DEF Region
  <1>7. ColumnsVisited'
    <2>1. column' \in region'.xMin .. region'.xMax + 1
      BY <1>2, <1>5, <1>6
    <2>2. (SitesOfColumns(region.xMin .. column - 2))' = {}
      <3>1. (region.xMin .. column - 2)' = {}
        BY <1>2, <1>6
      <3> QED BY <3>1 DEF SitesOfColumns, SitesAt
    <2>3. (SitesOfColumns(region.xMin .. column - 1))' = {}
      <3>1. (region.xMin .. column - 1)' = {}
        BY <1>2, <1>6
      <3> QED BY <3>1 DEF SitesOfColumns, SitesAt
    <2> QED BY <1>1, <1>2, <1>3, <2>1, <2>2, <2>3 DEF ColumnsVisited
  <1>8. LinesAreAsked' /\ AskedIsWritten'
    BY <1>2, <1>3 DEF UcfInvariant, LinesAreAsked, AskedIsWritten, Asks, SitesIn
  <1> QED BY <1>1, <1>2, <1>3, <1>7, <1>8 DEF UcfInvariant

LEMMA VisitedWindow ==
    ASSUME CommandLineInvariant, UcfInvariant, phase = "columns"
    PROVE  /\ AskedRegion \in GridRegion
           /\ siteMap = SiteMapOf(AskedRegion)
           /\ region = ExpandRegion(Rebound(AskedRegion), Margin) /\ region \in Region
           /\ region.yMin \in Nat /\ region.yMax \in Nat
           /\ region.xMin \in Nat /\ region.xMax \in Nat
           /\ column \in Nat /\ region.xMin <= column /\ column <= region.xMax + 1
           /\ SegmentRow /\ region.yMin <= region.yMax
           /\ region.yMin <= ExpandRegion(AskedRegion, Margin).yMin
           /\ ExpandRegion(AskedRegion, Margin).yMax <= region.yMax
  <1>1. AskedRegion \in GridRegion
    BY AskedIsGridRegion DEF CommandLineInvariant, ObjectServesRequest
  <1>2. ColumnsVisited /\ siteMap = SiteMapOf(AskedRegion)
    BY DEF UcfInvariant
  <1>3. region = ExpandRegion(Rebound(AskedRegion), Margin)
    BY <1>2 DEF ColumnsVisited
  <1>4. /\ region \in Region /\ region.yMin <= region.yMax
        /\ region.yMin <= ExpandRegion(AskedRegion, Margin).yMin
        /\ ExpandRegion(AskedRegion, Margin).yMax <= region.yMax
    BY <1>1, <1>3, WindowOfRegion
  <1>5. /\ region.yMin \in Nat /\ region.yMax \in Nat
        /\ region.xMin \in Nat /\ region.xMax \in Nat
    BY <1>4, FabricAssumption DEF Region
  <1>6. column \in Nat /\ region.xMin <= column /\ column <= region.xMax + 1
    BY <1>2, <1>5 DEF ColumnsVisited
  <1>7. SegmentRow
    BY <1>2, <1>5 DEF SegmentRow, SiteMapOf
  <1> QED BY <1>1, <1>2, <1>3, <1>4, <1>5, <1>6, <1>7

\* No macro cuts a column of a rectangle away from the edges: each range has the height of both
\* margins, and more.
LEMMA WholeColumnHasCorners ==
    ASSUME CommandLineInvariant, UcfInvariant, phase = "columns",
           Interior(AskedRegion), ColumnsHaveCorners(2 * Margin), NEW col \in Col, NEW stray
    PROVE  SegmentsHaveCorners(col, stray)
  <1> DEFINE r == AskedRegion
  <1>1. /\ r \in GridRegion /\ siteMap = SiteMapOf(r) /\ macroTiles = {}
        /\ region = ExpandRegion(Rebound(r), Margin) /\ region \in Region
    BY VisitedWindow DEF CommandLineInvariant, TypeOK
  <1>2. /\ r.xMin \in 0 .. ColCount - 1 /\ r.xMax \in 0 .. ColCount - 1
        /\ r.yMin \in 0 .. RowCount - 1 /\ r.yMax \in 0 .. RowCount - 1 /\ r.yMin <= r.yMax
        /\ ColCount \in Nat /\ RowCount \in Nat
    BY <1>1, FabricAssumption DEF GridRegion, Row, Col
  <1>3. /\ r.xMin >= 3 /\ r.xMax + 3 < ColCount
        /\ r.yMin >= 3 /\ r.yMax + 3 < RowCount
    BY DEF Interior, Margin
  <1>4. region = ExpandRegion(r, Margin)
    BY <1>1, InteriorRebounds DEF Interior
  <1> HIDE DEF r
  <1>5. region.yMin = r.yMin - 3 /\ region.yMax = r.yMax + 3
    <2>1. region.yMin = Greater(0, r.yMin - 3) /\ region.yMax = Lesser(RowCount, r.yMax + 3)
      BY <1>4 DEF ExpandRegion, Margin
    <2> QED BY <1>2, <1>3, <2>1 DEF Greater, Lesser
  <1> DEFINE area == SitesAt({<<row, col>> : row \in region.yMin .. region.yMax})
  <1>6. \A s \in area : HasCorners(s.type, area)
    <2>1. region.yMin \in Row /\ region.yMax \in Row /\ region.yMax - region.yMin >= 2 * Margin
      BY <1>2, <1>3, <1>5 DEF Row, Margin
    <2> QED BY <2>1 DEF ColumnsHaveCorners
  <1>7. \A row : ~IsCut(row, col, stray)
    BY <1>1 DEF IsCut
  <1>8. OnGrid(col, stray, region.yMin, region.yMax)
    <2>1. \A row \in region.yMin .. region.yMax : row \in Row
      BY <1>2, <1>3, <1>5 DEF Row
    <2> QED BY <2>1 DEF OnGrid, Tile
  <1>9. \A lo, hi : IsSegment(col, stray, lo, hi) => lo = region.yMin /\ hi = region.yMax
    BY <1>7 DEF IsSegment
  <1>10. \A s \in FreeSites(col, stray, region.yMin, region.yMax) :
             HasCorners(s.type, FreeSites(col, stray, region.yMin, region.yMax))
    <2>1. Uncut(col, stray, region.yMin, region.yMax)
      BY <1>7 DEF Uncut
    <2>2. /\ Greater(region.yMin, region.yMin) = region.yMin
          /\ Lesser(region.yMax, Lesser(region.yMax, RowCount - 1)) = region.yMax
          /\ region.yMin \in Int /\ region.yMax \in Int
      BY <1>2, <1>3, <1>5 DEF Greater, Lesser
    <2>3. FreeSites(col, stray, region.yMin, region.yMax) \in {area, {}}
      BY <1>1, <1>4, <1>8, <2>1, <2>2, FreeSegment
    <2> HIDE DEF area
    <2> QED BY <1>6, <2>3
  <1> QED BY <1>9, <1>10 DEF SegmentsHaveCorners

\* Only some tiles of one column come with the next one.
LEMMA NextColumnOfMap ==
    ASSUME NEW lo \in Int, NEW col \in Int, NEW s \in SitesOfColumns(lo .. col)
    PROVE  \/ s \in SitesOfColumns(lo .. col - 1)
           \/ \E t \in siteMap : t[2] = col /\ s \in ToSet(SitesOf[t])
  <1>1. PICK t \in siteMap :
            t[2] \in lo .. col /\ s \in ToSet(SitesOf[t]) /\ s.type # "BUFGCTRL"
    BY DEF SitesOfColumns, SitesAt
  <1>2. t[2] \in lo .. col - 1 \/ t[2] = col
    BY <1>1
  <1> QED BY <1>1, <1>2 DEF SitesOfColumns, SitesAt

\* What was held for the columns before is written on entering the next one.
LEMMA EarlierColumnsAreWritten ==
    ASSUME CommandLineInvariant, UcfInvariant, phase = "columns",
           Interior(AskedRegion), ColumnsHaveCorners(2 * Margin),
           NEW stray, NEW acc, acc = VisitColumn(column, stray),
           NEW s \in SitesOfColumns(region.xMin .. column - 1)
    PROVE  \E range \in systemUcf \cup acc.lines : Covers(range, s)
  <1>1. ColumnsVisited /\ SegmentRow /\ region.yMin <= region.yMax
    BY VisitedWindow DEF UcfInvariant
  <1>2. PICK range \in systemUcf \cup Held : Covers(range, s)
    BY <1>1 DEF ColumnsVisited
  <1>3. range.min.type # "BUFGCTRL"
    BY <1>2 DEF SitesOfColumns, Covers
  <1>4. range \in systemUcf \cup Written(prohibitedSites)
    <2>1. Held = {} \/ HeldOf(column - 1)
      BY <1>1 DEF ColumnsVisited, Held, NoRanges
    <2> QED BY <1>2, <1>3, <2>1, HeldIsWritten
  <1>5. Written(prohibitedSites) \subseteq acc.lines
    BY <1>1, ColumnVisited
  <1> QED BY <1>2, <1>4, <1>5

LEMMA ColumnIsCovered ==
    ASSUME CommandLineInvariant, UcfInvariant, phase = "columns", column <= region.xMax,
           Interior(AskedRegion), ColumnsHaveCorners(2 * Margin),
           NEW stray, NEW acc, acc = VisitColumn(column, stray),
           NEW s \in SitesOfColumns(region.xMin .. column)
    PROVE  \/ \E range \in systemUcf \cup acc.lines : Covers(range, s)
           \/ s.type \in DOMAIN acc.ranges /\ Covers(acc.ranges[s.type], s)
  <1>1. /\ SegmentRow /\ region.yMin <= region.yMax
        /\ region.xMin \in Int /\ column \in Int
        /\ s.type # "BUFGCTRL"
    BY VisitedWindow DEF SitesOfColumns
  <1>2. CASE s \in SitesOfColumns(region.xMin .. column - 1)
    BY <1>2, EarlierColumnsAreWritten
  <1>3. CASE s \notin SitesOfColumns(region.xMin .. column - 1)
    <2>1. PICK t \in siteMap : t[2] = column /\ s \in ToSet(SitesOf[t])
      BY <1>1, <1>3, NextColumnOfMap
    <2>2. macroTiles = {} /\ siteMap \subseteq Tile
      BY <1>1 DEF CommandLineInvariant, TypeOK, SegmentRow
    <2>3. column \in Col
      BY <2>1, <2>2 DEF Tile
    <2>4. SegmentsHaveCorners(column, stray)
      BY <2>3, WholeColumnHasCorners
    <2>5. s \in FreeSites(column, stray, region.yMin, region.yMax)
      <3>1. ToSet(SitesOf[t]) \subseteq FreeSites(t[2], stray, region.yMin, region.yMax)
        <4> DEFINE r == AskedRegion
        <4>1. /\ r \in GridRegion /\ siteMap = SiteMapOf(r)
              /\ region.yMin \in Int /\ region.yMax \in Int
              /\ region.yMin <= ExpandRegion(r, Margin).yMin
              /\ ExpandRegion(r, Margin).yMax <= region.yMax
              /\ t \in siteMap \ macroTiles
          BY <2>2, VisitedWindow
        <4> HIDE DEF r
        <4> QED BY <4>1, ColumnPassesSites
      <3> QED BY <2>1, <3>1
    <2>6. \A u \in FreeSites(column, stray, region.yMin, region.yMax) :
              u.type # "BUFGCTRL" =>
                 \/ \E range \in acc.lines : Covers(range, u)
                 \/ u.type \in DOMAIN acc.ranges /\ Covers(acc.ranges[u.type], u)
      BY <1>1, <2>4, ColumnVisited
    <2> QED BY <1>1, <2>5, <2>6
  <1> QED BY <1>2, <1>3

\* The ends of a range are at sites of the map.
LEMMA RangeIsAsked ==
    ASSUME NEW r, siteMap = SiteMapOf(r), NEW range, NEW k, NEW col, NEW stray,
           IsRangeOf(range, k, col, stray)
    PROVE  {range.min, range.max} \subseteq SitesIn(ExpandRegion(r, Margin))
  <1>1. PICK lo, hi : {range.min, range.max} \subseteq FreeSites(col, stray, lo, hi)
    BY DEF IsRangeOf, OfType
  <1>2. Free(col, stray, lo, hi) \subseteq {t \in Tile : InRegion(ExpandRegion(r, Margin), t)}
    BY DEF Free, SiteMapOf
  <1>3. FreeSites(col, stray, lo, hi) \subseteq SitesIn(ExpandRegion(r, Margin))
    BY <1>2 DEF FreeSites, SitesIn, SitesAt
  <1> QED BY <1>1, <1>3

LEMMA BlockColumnKnows ==
    ASSUME CommandLineInvariant, UcfInvariant, BlockColumn
    PROVE  UcfInvariant'
  <1>1. PICK stray \in StrayTiles \cup {NoTile} :
            /\ PlaceConstraintsIn(column, stray)
            /\ systemUcf' = systemUcf \cup ColumnLines(column, stray)
    BY DEF BlockColumn
  <1> DEFINE acc == VisitColumn(column, stray)
  <1>2. /\ prohibitedSites' = acc.ranges
        /\ systemUcf' = systemUcf \cup acc.lines
        /\ UNCHANGED <<region, siteMap, macroTiles, request>>
        /\ phase = "columns" /\ phase' = "columns"
        /\ column' = column + 1 /\ column <= region.xMax
    BY <1>1 DEF BlockColumn, PlaceConstraintsIn, ColumnLines
  <1>3. /\ siteMap = SiteMapOf(AskedRegion) /\ siteMap # {} /\ ColumnsVisited /\ Asks("p")
        /\ region.xMin \in Nat /\ region.xMax \in Nat /\ column \in Nat
        /\ region.xMin <= column
        /\ SegmentRow /\ region.yMin <= region.yMax
    BY <1>2, VisitedWindow DEF UcfInvariant, CommandLineInvariant, ObjectServesRequest
  <1>4. column' \in region.xMin .. region.xMax + 1 /\ column' # region.xMin
        /\ column' - 1 = column /\ column' - 2 = column - 1
    BY <1>2, <1>3
  <1>5. AskedRegion' = AskedRegion
    BY <1>2 DEF AskedRegion
  <1>6. /\ Written(prohibitedSites) \subseteq acc.lines
        /\ \A range \in acc.lines \ Written(prohibitedSites) :
              \E k : IsRangeOf(range, k, column, stray)
        /\ \A k \in DOMAIN acc.ranges : IsRangeOf(acc.ranges[k], k, column, stray)
    BY <1>3, ColumnVisited
  <1>7. \A range \in acc.lines : \E k, col, look : IsRangeOf(range, k, col, look)
    <2> HIDE DEF acc
    <2> TAKE range \in acc.lines
    <2>1. CASE range \in Written(prohibitedSites)
      <3>1. PICK k \in DOMAIN prohibitedSites : range = prohibitedSites[k]
        BY <2>1 DEF Written
      <3>2. HeldOf(column - 1)
        BY <1>3, <3>1 DEF ColumnsVisited, NoRanges
      <3>3. PICK look : IsRangeOf(prohibitedSites[k], k, column - 1, look)
        BY <3>2 DEF HeldOf
      <3> QED BY <3>1, <3>3
    <2>2. CASE range \notin Written(prohibitedSites)
      BY <2>2, <1>6
    <2> QED BY <2>1, <2>2
  <1>8. HeldOf(column - 1)'
    <2> HIDE DEF acc
    <2>1. \A k \in DOMAIN prohibitedSites' :
              IsRangeOf(prohibitedSites'[k], k, column' - 1, stray)
      BY <1>2, <1>4, <1>6
    <2>2. \A k \in DOMAIN prohibitedSites' :
              IsRangeOf(prohibitedSites[k], k, column - 1, stray)'
      <3> TAKE k \in DOMAIN prohibitedSites'
      <3>1. PICK lo \in region.yMin .. region.yMax, hi \in region.yMin .. region.yMax :
                /\ Uncut(column, stray, lo, hi)
                /\ {prohibitedSites'[k].min, prohibitedSites'[k].max}
                      \subseteq OfType(k, FreeSites(column, stray, lo, hi))
        BY <2>1, <1>4 DEF IsRangeOf
      <3>2. Free(column - 1, stray, lo, hi)' = Free(column, stray, lo, hi)
        BY <1>2, <1>4 DEF Free
      <3>3. Uncut(column - 1, stray, lo, hi)'
        BY <1>2, <1>4, <3>1 DEF Uncut, IsCut
      <3> QED BY <1>2, <3>1, <3>2, <3>3 DEF IsRangeOf, FreeSites, OfType
    <2> QED BY <2>2 DEF HeldOf
  <1>9. ASSUME Interior(AskedRegion), ColumnsHaveCorners(2 * Margin)
        PROVE  /\ \A s \in SitesOfColumns(region.xMin .. column - 1) :
                     \E range \in systemUcf' : Covers(range, s)
               /\ \A s \in SitesOfColumns(region.xMin .. column) :
                     \E range \in systemUcf' \cup Held' : Covers(range, s)
    <2>1. Held' = {acc.ranges[k] : k \in DOMAIN acc.ranges}
      BY <1>2 DEF Held
    <2>2. \A s \in SitesOfColumns(region.xMin .. column - 1) :
              \E range \in systemUcf \cup acc.lines : Covers(range, s)
      BY <1>2, <1>9, EarlierColumnsAreWritten
    <2>3. \A s \in SitesOfColumns(region.xMin .. column) :
              \/ \E range \in systemUcf \cup acc.lines : Covers(range, s)
              \/ s.type \in DOMAIN acc.ranges /\ Covers(acc.ranges[s.type], s)
      BY <1>2, <1>9, ColumnIsCovered
    <2> HIDE DEF acc
    <2> QED BY <1>2, <2>1, <2>2, <2>3
  <1> HIDE DEF acc
  <1>10. ColumnsVisited'
    <2>1. /\ (SitesOfColumns(region.xMin .. column - 2))'
                 = SitesOfColumns(region.xMin .. column - 1)
          /\ (SitesOfColumns(region.xMin .. column - 1))' = SitesOfColumns(region.xMin .. column)
      BY <1>2, <1>4 DEF SitesOfColumns
    <2>2. region' = ExpandRegion(Rebound(AskedRegion'), Margin)
      BY <1>2, <1>3, <1>5 DEF ColumnsVisited
    <2> QED BY <1>2, <1>4, <1>5, <1>8, <1>9, <2>1, <2>2 DEF ColumnsVisited
  <1>11. LinesAreAsked'
    <2>1. \A range \in systemUcf' :
              {range.min, range.max} \subseteq SitesIn(ExpandRegion(AskedRegion, Margin))
      <3>1. \A range \in acc.lines :
                {range.min, range.max} \subseteq SitesIn(ExpandRegion(AskedRegion, Margin))
        BY <1>3, <1>7, RangeIsAsked
      <3> QED BY <1>2, <3>1 DEF UcfInvariant, LinesAreAsked
    <2> QED BY <1>2, <1>3, <1>5, <2>1 DEF LinesAreAsked, Asks, SitesIn
  <1> QED BY <1>2, <1>3, <1>5, <1>10, <1>11 DEF UcfInvariant, AskedIsWritten

\* Of the margin's columns the last is still held when the loop ends; those asked for are not.
LEMMA EndColumnsKnows ==
    ASSUME CommandLineInvariant, UcfInvariant, EndColumns
    PROVE  UcfInvariant'
  <1> DEFINE r == AskedRegion
  <1>1. /\ phase = "columns" /\ column > region.xMax /\ phase' = "done"
        /\ UNCHANGED <<region, siteMap, request, systemUcf>>
    BY DEF EndColumns, coreVars
  <1>2. r' = r
    BY <1>1 DEF AskedRegion
  <1>3. /\ r \in GridRegion /\ siteMap = SiteMapOf(r) /\ siteMap # {} /\ ColumnsVisited
        /\ region = ExpandRegion(Rebound(r), Margin)
        /\ region.xMin \in Nat /\ region.xMax \in Nat
        /\ column \in Nat /\ column <= region.xMax + 1
    BY <1>1, VisitedWindow DEF UcfInvariant
  <1>4. ASSUME Interior(r), ColumnsHaveCorners(2 * Margin),
               NEW s \in SitesIn(r), s.type # "BUFGCTRL"
        PROVE  \E range \in systemUcf : Covers(range, s)
    <2>1. PICK t \in Tile : InRegion(r, t) /\ s \in ToSet(SitesOf[t])
      BY DEF SitesIn, SitesAt
    <2>2. region = ExpandRegion(r, Margin)
      BY <1>3, <1>4, InteriorRebounds DEF Interior
    <2>3. /\ r.xMin \in 0 .. ColCount - 1 /\ r.xMax \in 0 .. ColCount - 1
          /\ ColCount \in Nat /\ r.xMin >= 3 /\ r.xMax + 3 < ColCount
      BY <1>3, <1>4, FabricAssumption DEF GridRegion, Col, Interior, Margin
    <2>4. region.xMin = r.xMin - 3 /\ region.xMax = r.xMax + 3
      <3>1. region.xMin = Greater(0, r.xMin - 3) /\ region.xMax = Lesser(ColCount, r.xMax + 3)
        BY <2>2 DEF ExpandRegion, Margin
      <3> HIDE DEF r
      <3> QED BY <2>3, <3>1 DEF Greater, Lesser
    <2>5. t[2] \in region.xMin .. column - 2
      <3>1. t[2] \in r.xMin .. r.xMax
        BY <2>1 DEF InRegion
      <3> HIDE DEF r
      <3> QED BY <1>1, <1>3, <2>3, <2>4, <3>1
    <2>6. t \in siteMap
      <3>1. InRegion(ExpandRegion(r, Margin), t)
        BY <1>3, <2>1, WindowOfRegion
      <3>2. SitesOf[t] # <<>>
        BY <2>1 DEF ToSet
      <3> QED BY <1>3, <3>1, <3>2 DEF SiteMapOf
    <2>7. s \in SitesOfColumns(region.xMin .. column - 2)
      BY <1>4, <2>1, <2>5, <2>6 DEF SitesOfColumns, SitesAt
    <2> QED BY <1>3, <1>4, <2>7 DEF ColumnsVisited
  <1>5. LinesAreAsked'
    BY <1>1, <1>2 DEF UcfInvariant, LinesAreAsked, Asks, SitesIn
  <1>6. AskedIsWritten'
    BY <1>1, <1>2, <1>4 DEF AskedIsWritten, SitesIn
  <1> QED BY <1>1, <1>2, <1>3, <1>5, <1>6 DEF UcfInvariant

LEMMA UcfStep ==
    ASSUME CommandLineInvariant, UcfInvariant, [Next]_vars
    PROVE  UcfInvariant'
  <1> USE DEF coreVars
  <1>1. CASE InvokeOtherMode \/ \E c \in Corners, op \in Operation : Invoke(c, op)
    BY <1>1, InvokeWritesAfresh
  <1>2. CASE Construct
    <2>1. SiteMapOf(AskedRegion) # {}
      BY <1>2, AskedHasSites DEF Construct, CommandLineInvariant, ObjectServesRequest, UcfInvariant
    <2>2. prohibitedSites = NoRanges
      BY <1>2 DEF Construct, UcfInvariant
    <2> QED BY <1>2, <2>1, <2>2, UcfQuiet DEF Construct
  <1>3. CASE StartSites \/ PrintSites \/ \E s \in SitesIn(region) : BlockSite(s)
    <2>1. phase \in {"ready", "sites"} /\ phase' \in {"sites", "done"} /\ Asks("s")
          /\ UNCHANGED <<siteMap, request, systemUcf>>
      BY <1>3 DEF StartSites, PrintSites, BlockSite, CommandLineInvariant, ObjectServesRequest
    <2> QED BY <2>1, UcfQuiet DEF UcfInvariant, Asks
  <1>4. CASE StartColumns \/ BlockColumn \/ EndColumns
    BY <1>4, StartColumnsKnows, BlockColumnKnows, EndColumnsKnows
  <1>5. CASE BlockRoutes \/ BlockRoutesAgain
    <2>1. phase \in {"ready", "again"} /\ phase' \in {"again", "done"} /\ ~Asks("p")
          /\ UNCHANGED <<siteMap, request, systemUcf>>
      BY <1>5 DEF BlockRoutes, BlockRoutesAgain, SetMode, CommandLineInvariant,
                  ObjectServesRequest, Asks
    <2> QED BY <2>1, UcfQuiet DEF UcfInvariant
  <1>6. CASE Return \/ Kill
    BY <1>6, UcfQuiet DEF Return, Kill, EndProcess, NewCore
  <1>7. CASE UNCHANGED vars
    <2>1. ColumnsVisited' <=> ColumnsVisited
      BY <1>7 DEF vars, processVars, ColumnsVisited, SitesOfColumns, HeldOf, Held, IsRangeOf,
                  Uncut, IsCut, OfType, FreeSites, Free, AskedRegion
    <2> QED BY <1>7, <2>1 DEF vars, processVars, UcfInvariant, LinesAreAsked, AskedIsWritten,
                              AskedRegion, Asks, SitesIn
  <1> QED BY <1>1, <1>2, <1>3, <1>4, <1>5, <1>6, <1>7 DEF Next

\* system.ucf has the lines of the latest invocation, for each column those of all before it.
THEOREM UcfInvariantHolds == Spec => []UcfInvariant
  <1> QED BY UcfInit, UcfStep, CommandLineInvariantHolds, PTL DEF Spec

\* On a layout whose columns have their corner sites, system.ucf is the request: nothing of an
\* earlier invocation, nothing beyond the margin, and nothing left out of the rectangle.
THEOREM UcfIsTheRequestOnLayout ==
    ASSUME ColumnsHaveCorners(2 * Margin)
    PROVE  Spec => []UcfIsTheRequest
  <1>1. UcfInvariant => UcfIsTheRequest
    BY DEF UcfInvariant, LinesAreAsked, AskedIsWritten, UcfIsTheRequest
  <1> QED BY <1>1, UcfInvariantHolds, PTL
=============================================================================
