---------------------------- MODULE MCClockMerge ----------------------------
(***************************************************************************)
(* Small designs for TLC: a clock net with pips in the static design, one  *)
(* with pips of its own, one without and none in the partial design; pins  *)
(* wrapped to a second line, comments, blank lines, nets within a module,  *)
(* a net that opens with a line too long; a design statement that ends in  *)
(* a glued semicolon, so that the loop goes on into the next; and a clock  *)
(* net that is listed twice.                                               *)
(***************************************************************************)
EXTENDS ClockMerge

L(first)              == [Blank EXCEPT !.first = first]
Says(first, name, at) == [Blank EXCEPT !.first = first, !.says = name, !.at = at]
Ending(line, token)   == [line EXCEPT !.rest = {token}]
Pip(name)             == Says("pip", name, NoText)
Token(name)           == Says("text", name, NoText)
End                   == L(";")

MCComment == <<L("#")>>
MCEmpty   == <<Blank>>
MCDesign  == <<L("design"), Blank, Ending(Token("cfg"), ";")>>
MCGlued   == <<L("design"), Token("cfg")>>
MCInst    == <<L("inst"), Token("cfg"), End>>
MCModule  == <<Ending(L("module"), ";"), L("inst"), End, Says("net", "clk", NoText), End,
               L("endmodule")>>

MCWide    == <<[Says("net", "wide", "cfg") EXCEPT !.long = TRUE], End>>

MCClock(name, pip1, pip2) ==
    <<Says("net", name, NoText), Says("outpin", "bufg", "O"),
      Says("inpin", "ff", NoText), Token("CK"), Pip(pip1), Pip(pip2), End>>

MCStatic1 == <<MCComment, MCDesign, MCInst, MCClock("clk", "a", "b"), MCClock("clk2", "c", "d")>>
MCStatic2 == <<MCDesign, MCModule, MCClock("clk", "a", "b")>>
MCStatic3 == <<MCClock("clk", "a", "b"), MCWide, MCClock("clk2", "c", "d")>>

MCData    == <<Says("net", "data", "cfg"), Token("cfg"), Says("inpin", "ff", "D"),
               Says("inpin", "ff", "CE"), Says("outpin", "lut", NoText), Token("O"), End>>
MCLoads   == <<Says("net", "clk", "gnd"), L("#"), Says("inpin", "ff1", "CK"), End>>

MCPartial1 == <<MCComment, MCGlued, MCInst, MCLoads, MCEmpty, MCData>>
MCPartial2 == <<MCDesign, MCInst, MCClock("clk2", "e", "f"), MCData, MCModule>>
MCPartial3 == <<MCDesign, MCWide, MCData>>

MCText           == STRING
MCStaticDesigns  == {MCStatic1, MCStatic2, MCStatic3}
MCPartialDesigns == {MCPartial1, MCPartial2, MCPartial3}
ASSUME MCDesigns == /\ \A d \in (MCStaticDesigns \cup MCPartialDesigns) \ {MCPartial1} : IsDesign(d)
                    /\ \A d \in MCStaticDesigns \cup MCPartialDesigns : RepeatsNothing(d)
MCClockNets      == {<<"clk">>, <<"clk", "clk2">>, <<"clk2", "clk2">>}
=============================================================================
