------------------------------ MODULE MCOpenPR ------------------------------
(***************************************************************************)
(* A device of 13 rows (three clock regions of three rows, with a divider  *)
(* row between them) and 10 columns, in a Virtex-5 and a Virtex-4 variant, *)
(* and the AREA_GROUPs of regions in the interior and at its edges.        *)
(***************************************************************************)
EXTENDS OpenPRInvariant

MCDivider(row) == row % 4 = 0

\* Columns: a clock column, then CLB columns with interconnect between them.
MCColumnV5 == <<"CLKC", "INT", "CLBLL", "INT", "CLBLM", "INT", "CLBLL", "INT", "CLBLM", "INT">>
MCColumnV4 == [c \in 1 .. 10 |-> IF MCColumnV5[c] \in {"CLBLL", "CLBLM"} THEN "CLB"
                                 ELSE MCColumnV5[c]]

MCTypes(columns) == [t \in (0 .. 12) \X (0 .. 9) |->
                        IF MCDivider(t[1]) THEN "HCLK" ELSE columns[t[2] + 1]]
MCTypesV5 == MCTypes(MCColumnV5)
MCTypesV4 == MCTypes(MCColumnV4)

MCSite(k, x, y) == [type |-> k, x |-> x, y |-> y]

\* Two slices side by side in a V5 CLB, four in a square in a V4 one.
MCSitesV5 == [t \in (0 .. 12) \X (0 .. 9) |->
    LET y == 12 - t[1]
    IN CASE MCTypesV5[t] \in {"CLBLL", "CLBLM"} ->
              <<MCSite("SLICE", t[2] - 2, y), MCSite("SLICE", t[2] - 1, y)>>
         [] MCTypesV5[t] = "INT" -> <<MCSite("TIEOFF", t[2], y)>>
         [] MCTypesV5[t] = "CLKC" -> <<MCSite("BUFGCTRL", 0, y)>>
         [] OTHER -> <<>>]

MCSitesV4 == [t \in (0 .. 12) \X (0 .. 9) |->
    LET y == 2 * (12 - t[1])
        x == t[2] - 2
    IN CASE MCTypesV4[t] = "CLB" ->
              <<MCSite("SLICE", x + 1, y), MCSite("SLICE", x, y + 1),
                MCSite("SLICE", x, y), MCSite("SLICE", x + 1, y + 1)>>
         [] MCTypesV4[t] = "INT" -> <<MCSite("TIEOFF", t[2], t[1])>>
         [] MCTypesV4[t] = "CLKC" -> <<MCSite("BUFGCTRL", 0, t[1])>>
         [] OTHER -> <<>>]

\* The layout of real devices, which theorems about prohibited sites suppose.
ASSUME MCLayout == ColumnsHaveCorners(0) /\ SlicesFollowGrid /\ MacroTilesHaveSlices

\* One AREA_GROUP line per pair: two corners of a range of slices.
MCMiddle  == <<<<<<7, 4>>, <<5, 6>>>>>>
MCTwoPart == <<<<<<5, 6>>, <<6, 6>>>>, <<<<7, 4>>, <<6, 4>>>>>>
MCNarrow  == <<<<<<7, 4>>, <<5, 4>>>>>>
MCTop     == <<<<<<3, 4>>, <<1, 6>>>>>>
MCTall    == <<<<<<7, 2>>, <<1, 6>>>>>>
MCBottom  == <<<<<<11, 4>>, <<9, 6>>>>>>
MCBroken  == <<<<<<7, 4>>, <<6, 6>>>>>>

MCAreas    == {MCMiddle, MCTwoPart, MCNarrow, MCTop, MCTall, MCBottom, MCBroken}
MCTwoAreas == {MCMiddle, MCNarrow}
MCEdgeAreas == {MCNarrow, MCTop}
MCOneEdge  == {MCTop}
MCJustOne  == {MCMiddle}
MCStray    == {<<11, 8>>}

\* Everything, and everything but the commands that write PROHIBIT ranges.
MCAll     == Command
MCNoSites == Command \ {"siteBlocker", "genPlaceConstraints"}
=============================================================================
