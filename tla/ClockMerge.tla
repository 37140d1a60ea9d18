----------------------------- MODULE ClockMerge -----------------------------
(***************************************************************************)
(* mergeClockTree: the process reads the static design's XDL file and the  *)
(* partial one's, line by line, adds the static clock nets' pips to the    *)
(* partial's, and prints the merged design.  Either file may have been cut *)
(* off when it was written: between lines, or within a line.               *)
(***************************************************************************)
EXTENDS NetList, Selection

CONSTANTS StaticDesigns,   \* the designs there are, as sequences of statements,
          PartialDesigns,  \* and a statement is a sequence of lines
          ClockNets        \* what clkNetNames may be: sequences of net names

ASSUME ClockMergeAssumption ==
    /\ \A d \in StaticDesigns \cup PartialDesigns :
          d \in Seq(Seq(LineType) \ {<<>>}) /\ FlattenSeq(d) \in Seq(LineType)
    /\ ClockNets \subseteq Seq(Text)

VARIABLES
    design,          \* history: what the two files would be, whole
    cut,             \* history: which one was cut off, after how many lines, and how
    clkNetNames,
    phase,           \* the constructor, or the loop, mergeClockTree is in
    pos,             \* lines read from the file of this phase
    temp,            \* the line read last
    eof,             \* the stream's eofbit
    inside,          \* the loop of topLevelParser that reads the next line
    pinName,         \* of a pin whose position is on the next line
    lists,           \* staticNetList and partialNetList
    clock,           \* i of mergeClockTree
    result           \* what mergeClockTree returned

input   == <<design, cut, clkNetNames>>
reader  == <<pos, temp, eof, inside, pinName>>
vars    == <<input, phase, reader, lists, clock, result>>

Files == {"static", "partial"}

-----------------------------------------------------------------------------
\* Files.

NotCut == [file |-> "none", kept |-> 0, end |-> "newline"]

Lines(f) == FlattenSeq(design[f])

\* The last line kept has its newline, or lacks it, or most of the line.
LastLine(line) == IF cut.end = "word"
                  THEN [Blank EXCEPT !.first = line.first,
                                     !.says = IF line.first = "text" THEN line.says ELSE @]
                  ELSE line

File(f) == IF cut.file # f THEN Lines(f)
           ELSE [i \in 1 .. cut.kept |-> IF i = cut.kept THEN LastLine(Lines(f)[i])
                                         ELSE Lines(f)[i]]

NoNewline(f) == cut.file = f /\ cut.end # "newline"

Init == /\ design \in [static : StaticDesigns, partial : PartialDesigns]
        /\ cut \in {NotCut} \cup UNION {[file : {f}, kept : 1 .. Len(Lines(f)),
                                         end : {"newline", "line", "word"}] : f \in Files}
        /\ clkNetNames \in ClockNets
        /\ phase = "static"
        /\ pos = 0 /\ temp = Blank /\ eof = FALSE /\ inside = "top" /\ pinName = NoText
        /\ lists = [f \in Files |-> EmptyList]
        /\ clock = 1
        /\ result = "none"

-----------------------------------------------------------------------------
\* Reading, a getline to a step.

Reading == phase \in Files
AtEnd   == pos = Len(File(phase))

\* The string's getline: at the end of the file the string is emptied, once; from then on
\* it is left as it is.
NextLine == IF ~AtEnd THEN File(phase)[pos + 1] ELSE IF eof THEN temp ELSE Blank

GetLine == /\ pos' = IF AtEnd THEN pos ELSE pos + 1
           /\ temp' = NextLine
           /\ eof' = (eof \/ AtEnd \/ (pos + 1 = Len(File(phase)) /\ NoNewline(phase)))

\* Slip: modules end like other statements.
ClosesWithSemicolon(loop, line) ==
    IF loop = "design" THEN HasToken(line, ";") ELSE line.first = ";"

\* Slip: a loop ends at the end of its file, where the string is empty.
ClosesAtEnd(loop, line) ==
    CASE loop = "design" -> HasToken(line, ";") \/ line = Blank
      [] loop = "module" -> HasToken(line, "endmodule")
      [] OTHER           -> line.first = ";"

\* The line that ends a loop.
Closes(loop, line) == CASE loop = "design" -> HasToken(line, ";")
                        [] loop = "module" -> HasToken(line, "endmodule")
                        [] OTHER           -> line.first = ";"

\* A loop that read the whole file goes over its last line for ever, printing it or making
\* pips and pins of it: none of what it does is seen again, and it is not a step.
Turns == Reading /\ (AtEnd /\ eof => Closes(inside, temp))

KeepMerging == UNCHANGED <<input, phase, clock, result>>

\* Dereferencing the tokenizer's end is an assertion, and the build keeps assertions.
Abort == /\ phase' = "aborted"
         /\ UNCHANGED <<input, reader, lists, clock, result>>

\* One turn of topLevelParser's outer loop; lines that open no statement are skipped.
TopLevel ==
    /\ Reading /\ inside = "top" /\ ~AtEnd /\ ~TooLong(NextLine)
    /\ GetLine
    /\ IF NextLine.first \in {"design", "module", "inst"}
       THEN /\ inside' = NextLine.first
            /\ lists' = [lists EXCEPT ![phase] = Output(@, NextLine)]
       ELSE IF NextLine.first = "net"
       THEN /\ inside' = "net"
            /\ lists' = [lists EXCEPT ![phase] = InsertNet(@, Net(NextLine))]
       ELSE UNCHANGED <<inside, lists>>
    /\ UNCHANGED pinName
    /\ KeepMerging

\* Its end: of the file, or at a line that does not fit.
EndOfFile ==
    /\ Reading /\ inside = "top" /\ (AtEnd \/ TooLong(NextLine))
    /\ phase' = IF phase = "static" THEN "partial" ELSE "merge"
    /\ pos' = 0 /\ temp' = Blank /\ eof' = FALSE
    /\ UNCHANGED <<input, inside, pinName, lists, clock, result>>

CopyStatement ==
    /\ Turns /\ inside \in {"design", "module", "inst"}
    /\ inside = "design" \/ NextLine # Blank
    /\ GetLine
    /\ lists' = [lists EXCEPT ![phase] = Output(@, NextLine)]
    /\ inside' = IF Closes(inside, NextLine) THEN "top" ELSE inside
    /\ UNCHANGED pinName
    /\ KeepMerging

\* Slip: the design loop does not expect them either.
BlankAbortsInDesign == /\ Turns /\ inside \in {"design", "module", "inst", "outpin", "inpin"}
                       /\ NextLine = Blank
                       /\ Abort

\* Blank lines are expected by the loops of designs and nets only.
BlankAborts == /\ Turns /\ inside \in {"module", "inst", "outpin", "inpin"}
               /\ NextLine = Blank
               /\ Abort

\* The loop over the lines of a net.

Update(net) == lists' = [lists EXCEPT ![phase] = UpdateLast(@, net)]

SkipInNet == /\ Turns /\ inside = "net"
             /\ NextLine.first \notin {"outpin", "inpin", "pip", ";"}
             /\ GetLine
             /\ UNCHANGED <<inside, pinName, lists>>
             /\ KeepMerging

CloseNet == /\ Turns /\ inside = "net" /\ Closes("net", NextLine)
            /\ GetLine
            /\ inside' = "top"
            /\ lists' = [lists EXCEPT ![phase] = RegisterLast(@)]
            /\ UNCHANGED pinName
            /\ KeepMerging

AddPin(kind, pin) == Update(IF kind = "inpin" THEN AddInPin(LastNet(lists[phase]), pin)
                            ELSE AddOutPin(LastNet(lists[phase]), pin))

ReadPin == /\ Turns /\ inside = "net"
           /\ NextLine.first \in {"outpin", "inpin"} /\ NextLine.says # NoText
           /\ GetLine
           /\ IF NextLine.at = NoText
              THEN /\ inside' = NextLine.first
                   /\ pinName' = NextLine.says
                   /\ UNCHANGED lists
              ELSE /\ AddPin(NextLine.first, Pin(NextLine.says, NextLine.at))
                   /\ UNCHANGED <<inside, pinName>>
           /\ KeepMerging

\* The position of a pin is the first token of the next line, whatever it is.
ReadPosition == /\ Reading /\ inside \in {"outpin", "inpin"} /\ NextLine # Blank
                /\ GetLine
                /\ AddPin(inside, Pin(pinName, Word(NextLine)))
                /\ inside' = "net"
                /\ UNCHANGED pinName
                /\ KeepMerging

ReadPip == /\ Turns /\ inside = "net"
           /\ NextLine.first = "pip" /\ NextLine.says # NoText
           /\ GetLine
           /\ Update(InsertPip(LastNet(lists[phase]), NewPip(NextLine, phase, pos + 1)))
           /\ UNCHANGED <<inside, pinName>>
           /\ KeepMerging

ShortLineAborts == /\ Turns /\ inside = "net"
                   /\ NextLine.first \in {"outpin", "inpin", "pip"} /\ NextLine.says = NoText
                   /\ Abort

-----------------------------------------------------------------------------
\* mergeClockTree, once both files are read.

NextClock == /\ clock' = clock + 1
             /\ UNCHANGED <<input, phase, reader, result>>

Return(value) == /\ phase' = "done"
                 /\ result' = value
                 /\ UNCHANGED <<input, reader, clock>>

Merging    == phase = "merge" /\ clock <= Len(clkNetNames)
InStatic   == FindNet(lists["static"], clkNetNames[clock])
InPartial  == FindNet(lists["partial"], clkNetNames[clock])
StaticNet(i) == lists["static"].netList[i]

MergeClockNet ==
    /\ Merging
    /\ \E s \in InStatic, p \in InPartial :
          lists' = [lists EXCEPT !["partial"] =
                      UpdateNet(@, p, MergePips(@.netList[p], StaticNet(s)))]
    /\ NextClock

\* A clock net that the partial design does not have.
CopyClockNet ==
    /\ Merging /\ InPartial = {}
    /\ \E s \in InStatic, configure \in BOOLEAN :
          \E net \in ClearInPins(CopyNet(StaticNet(s), configure)) :
             lists' = [lists EXCEPT !["partial"] = InsertNet(@, MergePips(net, StaticNet(s)))]
    /\ NextClock

\* clearInPins uses the element it has just freed.
ClearInPinsCrashes ==
    /\ Merging /\ InPartial = {}
    /\ \E s \in InStatic : StaticNet(s).inPins # {}
    /\ Abort

\* The output file, which has the text already, is left without nets.
NotInStatic == Merging /\ InStatic = {} /\ Return("false") /\ UNCHANGED lists

PrintNets == /\ phase = "merge" /\ clock > Len(clkNetNames)
             /\ lists' = [lists EXCEPT !["partial"] = PrintData(@)]
             /\ Return("true")

-----------------------------------------------------------------------------
Read  == \/ TopLevel \/ EndOfFile \/ CopyStatement \/ BlankAborts
         \/ SkipInNet \/ CloseNet \/ ReadPin \/ ReadPosition \/ ReadPip \/ ShortLineAborts
Merge == \/ MergeClockNet \/ CopyClockNet \/ ClearInPinsCrashes
         \/ NotInStatic \/ PrintNets

Next == Read \/ Merge

\* The process waits for nothing: it runs on as long as it has a step to take.
Spec == Init /\ [][Next]_vars /\ WF_vars(Next)
-----------------------------------------------------------------------------
\* Properties.

InputTypes ==
    /\ design \in [static : StaticDesigns, partial : PartialDesigns]
    /\ cut = NotCut \/ (cut.file \in Files /\ cut.kept \in 1 .. Len(Lines(cut.file)))
    /\ clkNetNames \in ClockNets

ReaderTypes ==
    /\ phase \in Files \cup {"merge", "done", "aborted"}
    /\ pos \in Nat /\ (Reading => pos <= Len(File(phase)))
    /\ temp \in LineType /\ eof \in BOOLEAN /\ pinName \in Text
    /\ inside \in {"top", "design", "module", "inst", "net", "outpin", "inpin"}

ListTypes ==
    /\ lists = [f \in Files |-> lists[f]]
    /\ \A f \in Files : IsNetList(lists[f])
    /\ Reading /\ inside \in {"net", "outpin", "inpin"} => lists[phase].netList # <<>>

\* Types.  What can be found by name is among the nets that are printed, one net to a name
\* (findNet hands out a net of netToPip, and only netList is deleted and printed); and the
\* loops that add to the net read last have read one.
TypeOK ==
    /\ InputTypes /\ ReaderTypes /\ ListTypes
    /\ clock \in 1 .. Len(clkNetNames) + 1
    /\ result \in {"none", "true", "false"}

\* The statements that are read of a design, as its file says them: all of them, or those
\* before the first that opens with a line longer than topLevelParser's buffer.
TooLongAt(f)  == {i \in DOMAIN design[f] : TooLong(design[f][i][1])}
Statements(f) == SubSeq(design[f], 1, IF TooLongAt(f) = {} THEN Len(design[f])
                                      ELSE Min(TooLongAt(f)) - 1)
TextsIn(d)  == {s \in Range(d) : s[1].first \in {"design", "module", "inst"}}
NetsIn(d)   == {s \in Range(d) : s[1].first = "net"}
Nets(f)     == Selected(Statements(f), NetsIn(design[f]))
NetNames(f) == [i \in DOMAIN Nets(f) |-> Nets(f)[i][1].says]
PipsOf(statement) == {line.says : line \in {l \in Range(statement) : l.first = "pip"}}
PinsOf(statement, kind) ==
    {Pin(statement[i].says, IF statement[i].at = NoText THEN statement[i + 1].says
                            ELSE statement[i].at) :
        i \in {j \in DOMAIN statement : statement[j].first = kind}}

Whole == cut = NotCut
Merged == lists["partial"].printed

ClockStatement(f, name) == {s \in Range(Nets(f)) : s[1].says = name}

\* The merged file has all text of the partial design that was read, in order, each of its
\* nets once and in order, and then the clock nets it lacked, once for each time they are
\* listed (NetList.cpp 50-220, 224-232, AntiCoreBase.cpp 1170-1193).
PartialDesignKept ==
    result = "true" /\ Whole =>
        /\ lists["partial"].text =
              FlattenSeq(Selected(Statements("partial"), TextsIn(design["partial"])))
        /\ [i \in DOMAIN Merged |-> Merged[i].name] =
              NetNames("partial") \o Selected(clkNetNames,
                                              Range(clkNetNames) \ Range(NetNames("partial")))

\* The partial design's nets have the pins and the configuration they had, and their own
\* pips; clock nets have those of both designs, whichever they are in (Net.cpp 225-233).
NetsAreWhole ==
    result = "true" /\ Whole =>
        /\ \A i \in DOMAIN Nets("partial") :
              LET s == Nets("partial")[i]
              IN  /\ Merged[i].outPins = PinsOf(s, "outpin")
                  /\ Merged[i].inPins = PinsOf(s, "inpin")
                  /\ Merged[i].cfg = s[1].at /\ Merged[i].configured = (s[1].at = "cfg")
        /\ \A i \in DOMAIN Merged :
              DOMAIN Merged[i].pips =
                 UNION {PipsOf(s) : s \in ClockStatement("partial", Merged[i].name) \cup
                                      IF Merged[i].name \in Range(clkNetNames)
                                      THEN ClockStatement("static", Merged[i].name) ELSE {}}

\* Whatever became of the files, a merge that returns true has printed every clock net that
\* was listed with all the pips that were read for it in the static file, however many nets
\* the partial design has that can or cannot be found by its name.
Texts(pips) == {p.says : p \in pips}
ClockTreesArrive ==
    result = "true" =>
        \A k \in 1 .. Len(clkNetNames) :
            \E s \in FindNet(lists["static"], clkNetNames[k]), i \in DOMAIN Merged :
                /\ Merged[i].name = clkNetNames[k]
                /\ Texts(StaticNet(s).pips) \subseteq DOMAIN Merged[i].pips

\* No pip is printed twice, unless the files both have it: a copied net already has the pips
\* that mergePips adds to it, and Pip's operator== tells them apart by their points.
PipsOnce ==
    result = "true" /\ Whole =>
        \A i \in DOMAIN Merged : \A pip \in DOMAIN Merged[i].pips :
            Merged[i].pips[pip] <= Cardinality({f \in Files :
                \E s \in ClockStatement(f, Merged[i].name) : pip \in PipsOf(s)})

\* The merge gives up only if a clock net is really not in the static file, as far as that
\* is read.
FalseIsHonest ==
    result = "false" /\ Whole => ~(Range(clkNetNames) \subseteq Range(NetNames("static")))

\* A file that was cut off within a statement is never reported as merged: the loops of
\* topLevelParser end at the end of a statement and not at the end of the file.
StatementEnds(f) == {Len(FlattenSeq(SubSeq(design[f], 1, n))) : n \in 0 .. Len(design[f])}
CutIsNotMerged ==
    result = "true" /\ cut.file \in Files =>
        \/ cut.kept \in StatementEnds(cut.file)
        \/ TooLongAt(cut.file) # {} /\ cut.kept > Len(FlattenSeq(Statements(cut.file)))

\* Statements as XDL has them: the last line ends a statement of its kind and no other line
\* does, a net has a name, and the position of a wrapped pin is on the next line.  Other lines
\* are statements of their own.
Ends(kind, line) ==
    \/ kind = "design" /\ HasToken(line, ";")
    \/ kind = "module" /\ HasToken(line, "endmodule")
    \/ kind \in {"inst", "net"} /\ line.first = ";"
Wraps(line) == line.first \in {"outpin", "inpin"} /\ line.at = NoText
IsStatement(s) ==
    LET kind == s[1].first
        last == Len(s)
    IN  IF kind \notin {"design", "module", "inst", "net"} THEN last = 1
        ELSE /\ last > 1
             /\ \A i \in 1 .. last : Ends(kind, s[i]) <=> i = last
             /\ kind = "net" => /\ s[1].says # NoText
                                /\ \A i \in 1 .. last - 1 : Wraps(s[i]) => s[i + 1].first = "text"
IsDesign(d) == \A i \in DOMAIN d : IsStatement(d[i])

\* Nor do two nets of a design have one name, or a net one pip twice.
RepeatsNothing(d) ==
    LET nets == {i \in DOMAIN d : d[i][1].first = "net"}
    IN  /\ \A i, k \in nets : d[i][1].says = d[k][1].says => i = k
        /\ \A i \in nets : \A k, l \in DOMAIN d[i] :
              d[i][k].first = "pip" /\ d[i][l].first = "pip" /\ d[i][k].says = d[i][l].says
                 => k = l

\* The inductive invariant behind ClockTreesArrive: the clock nets merged so far have arrived
\* in the list, and all of them have been merged when it is printed.
Arrived(k) ==
    \E s \in FindNet(lists["static"], clkNetNames[k]), i \in DOMAIN lists["partial"].netList :
        /\ lists["partial"].netList[i].name = clkNetNames[k]
        /\ Texts(StaticNet(s).pips) \subseteq Texts(lists["partial"].netList[i].pips)

MergeInvariant ==
    /\ TypeOK
    /\ Reading => clock = 1
    /\ phase # "done" => result = "none"
    /\ \A k \in 1 .. clock - 1 : Arrived(k)
    /\ ClockTreesArrive

\* Both files are read to their end, if they are whole: no loop of topLevelParser misses the
\* end of its statement, and no assertion fails.
ReadsToTheEnd == Whole => <>(phase = "merge")
=============================================================================
