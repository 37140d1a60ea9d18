--------------------------- MODULE MCCommandLine ----------------------------
(***************************************************************************)
(* A device of 9 rows and 10 columns: interconnect and CLB columns in      *)
(* turn, a clock column on the left, one tile that lacks a slice and two   *)
(* that have an input/output site besides.                                 *)
(***************************************************************************)
EXTENDS CommandLine

MCColumns == <<"CLKC", "INT", "CLBLL", "INT", "CLBLM", "INT", "CLBLL", "INT", "CLBLM", "INT">>
MCTypes   == [t \in (0 .. 8) \X (0 .. 9) |-> MCColumns[t[2] + 1]]

MCSite(k, x, y) == [type |-> k, x |-> x, y |-> y]

MCTwoSlices(t) == <<MCSite("SLICE", t[2], 8 - t[1]), MCSite("SLICE", t[2] + 1, 8 - t[1])>>
MCTieoff(t)    == <<MCSite("TIEOFF", t[2], 8 - t[1])>>

\* The two IOBs stand across from each other: in a rectangle around both, their type has no
\* corner sites.
MCSites == [t \in (0 .. 8) \X (0 .. 9) |->
    CASE MCTypes[t] = "CLKC" -> <<MCSite("BUFGCTRL", 0, 8 - t[1])>>
      [] MCTypes[t] = "INT" -> IF t = <<4, 3>> THEN Append(MCTieoff(t), MCSite("IOB", 0, 4))
                               ELSE MCTieoff(t)
      [] t = <<5, 4>> -> Append(MCTwoSlices(t), MCSite("IOB", 1, 3))
      [] t = <<4, 4>> -> Tail(MCTwoSlices(t))
      [] OTHER -> MCTwoSlices(t)]

\* The tile without one slice is no matter in a column of the margins' height.
ASSUME MCLayout == ColumnsHaveCorners(2 * Margin) /\ ~ColumnsHaveCorners(0)

\* A column, with its interconnect added; a line; the left, the upper and the lower edge.
MCCorners == {<<<<5, 4>>, <<3, 4>>>>, <<<<5, 4>>, <<5, 6>>>>, <<<<7, 2>>, <<6, 2>>>>,
              <<<<1, 0>>, <<0, 2>>>>, <<<<8, 8>>, <<7, 8>>>>}
MCStray   == {<<7, 8>>}
=============================================================================
