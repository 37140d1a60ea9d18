--------------------------- MODULE MCRouteBlocker ---------------------------
(***************************************************************************)
(* Four tiles in a row, the last of which may be the clock's.  Three       *)
(* segments join neighbours and one the first and the third tile; the      *)
(* others stay within a tile, and only drive.                              *)
(***************************************************************************)
EXTENDS RouteBlocker, FiniteSets

MCWireCount == <<3, 3, 4, 2>>

MCSegments ==
    {{<<1, 1>>, <<2, 1>>}, {<<2, 2>>, <<3, 1>>}, {<<3, 2>>, <<4, 1>>}, {<<1, 2>>, <<3, 3>>},
     {<<1, 3>>}, {<<2, 3>>}, {<<3, 4>>}, {<<4, 2>>}}

MCSegment == [w \in UNION MCSegments |-> CHOOSE s \in MCSegments : w \in s]

\* The wire <<2, 2>> drives its segment: sourceward there is nothing else.
MCExpand == [w \in UNION MCSegments |->
                IF w = <<2, 2>> THEN <<w>>
                ELSE IF Cardinality(MCSegment[w]) = 1 THEN <<w>>
                ELSE <<w, CHOOSE x \in MCSegment[w] : x # w>>]

MCPips == {<<<<1, 3>>, <<1, 1>>>>, <<<<1, 2>>, <<1, 1>>>>, <<<<1, 3>>, <<1, 2>>>>,
           <<<<2, 3>>, <<2, 1>>>>, <<<<2, 1>>, <<2, 2>>>>, <<<<2, 3>>, <<2, 2>>>>,
           <<<<3, 4>>, <<3, 1>>>>, <<<<3, 1>>, <<3, 2>>>>, <<<<3, 4>>, <<3, 3>>>>,
           <<<<3, 2>>, <<3, 3>>>>, <<<<4, 2>>, <<4, 1>>>>}

MCSourcesOf(w) == {p[1] : p \in {q \in MCPips : q[2] = w}}

\* The sources in the order of their indices.
MCSources == [w \in UNION MCSegments |->
                 LET all == MCSourcesOf(w)
                 IN  CHOOSE s \in [1 .. Cardinality(all) -> all] :
                        \A i, j \in DOMAIN s : i < j => s[i][2] < s[j][2]]

MCMasks     == {<<FALSE, TRUE, FALSE, FALSE>>, <<FALSE, TRUE, TRUE, FALSE>>,
                <<TRUE, FALSE, TRUE, TRUE>>, <<FALSE, TRUE, TRUE, TRUE>>,
                <<TRUE, TRUE, FALSE, FALSE>>}
MCClockRows == {{}, {4}}
MCDesigns   == {UNION used : used \in SUBSET MCSegments}
=============================================================================
