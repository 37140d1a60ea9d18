------------------------------- MODULE NetList -------------------------------
(***************************************************************************)
(* The nets of an XDL design as the classes Net and NetList keep them, and *)
(* the lines that they are read from.  A line is its first token, which of *)
(* the tokens that matter follow, and what it says: a name, and where.     *)
(***************************************************************************)
EXTENDS Naturals, Sequences, FiniteSets

CONSTANT Text   \* what tokens there may be

NoText == "none"

ASSUME NetListAssumption == {"", NoText} \subseteq Text

Blank  == [first |-> "", rest |-> {}, says |-> NoText, at |-> NoText, long |-> FALSE]

HasToken(line, token) == token = line.first \/ token \in line.rest

\* The first token as text: lines that begin with no keyword are all first |-> "text".
Word(line) == IF line.first = "text" THEN line.says ELSE line.first

\* Longer than the buffer of topLevelParser, which stops reading there.
TooLong(line) == line.long

-----------------------------------------------------------------------------
\* Pins and pips, which a net keeps in hash sets: an element equal to one that is there is not
\* inserted.  Pins are equal if they say the same.  Pips compare the pointers to their points
\* besides, which no two pips share.

Pin(name, position) == [name |-> name, position |-> position]
NewPip(line, file, lineNumber) == [says |-> line.says, source |-> <<file, lineNumber>>]

\* Slip: pins are told apart by their instance only.
SamePinByName(p, q) == p.name = q.name

SamePin(p, q) == p.name = q.name /\ p.position = q.position
SamePip(p, q) == p.says = q.says /\ p.source = q.source

-----------------------------------------------------------------------------
\* Net.

Net(line) == [name |-> IF line.says = NoText THEN line.first ELSE line.says,
              cfg |-> line.at, configure |-> line.at = "cfg",
              outPins |-> {}, inPins |-> {}, pips |-> {}]

With(pins, pin) == IF \E p \in pins : SamePin(p, pin) THEN pins ELSE pins \cup {pin}

AddInPin(net, pin)  == [net EXCEPT !.inPins = With(@, pin)]
AddOutPin(net, pin) == [net EXCEPT !.outPins = With(@, pin)]

\* Slip: a net that has its routing is left as it is.
MergeIfUnrouted(net, other) == [net EXCEPT !.pips = IF @ = {} THEN other.pips ELSE @]

MergePips(net, other) ==
    [net EXCEPT !.pips = @ \cup {p \in other.pips : ~\E q \in net.pips : SamePip(p, q)}]
InsertPip(net, pip) == MergePips(net, [pips |-> {pip}])

\* Slip: the copy gets pips of its own.
CopyNetDeeply(other, configure) ==
    [other EXCEPT !.configure = configure,
                  !.pips = {[p EXCEPT !.source = <<"partial", @[2]>>] : p \in @}]

\* Net(const Net*) leaves configure as the memory was.
CopyNet(other, configure) == [other EXCEPT !.configure = configure]

\* clearInPins erases the element its iterator is at, and goes on from there: the first pin
\* is erased, and any others may be left.
ClearInPins(net) ==
    {[net EXCEPT !.inPins = left] :
        left \in IF net.inPins = {} THEN {{}} ELSE SUBSET net.inPins \ {net.inPins}}

\* printData, in whatever order the sets have: how often each pip's line is printed.
Printed(net) ==
    [name |-> net.name, cfg |-> net.cfg, configured |-> net.configure /\ net.cfg # NoText,
     outPins |-> net.outPins, inPins |-> net.inPins,
     pips |-> [text \in {p.says : p \in net.pips} |->
                  Cardinality({p \in net.pips : p.says = text})]]

-----------------------------------------------------------------------------
\* NetList.  Its output file gets text at once and nets when all is done: text, then printed.
\* findNet looks in netToPip, which keeps the first net of a name.

EmptyList == [text |-> <<>>, printed |-> <<>>, netList |-> <<>>, netToPip |-> {}]

Output(list, line) == [list EXCEPT !.text = Append(@, line)]

PrintData(list) ==
    [list EXCEPT !.printed = [i \in DOMAIN list.netList |-> Printed(list.netList[i])]]

FindNet(list, name) == {i \in list.netToPip : list.netList[i].name = name}

\* Slip: a net can be found and is not in the list that is printed.
InsertNetToFind(list, net) ==
    [list EXCEPT !.netToPip = @ \cup {Len(list.netList) + 1}]

InsertNet(list, net) == [list EXCEPT !.netList = Append(@, net)]

UpdateNet(list, i, net) == [list EXCEPT !.netList[i] = net]

LastNet(list) == list.netList[Len(list.netList)]
UpdateLast(list, net) == UpdateNet(list, Len(list.netList), net)

\* Slip: the test is the wrong way round.
RegisterLastIfKnown(list) ==
    IF FindNet(list, LastNet(list).name) = {} THEN list
    ELSE [list EXCEPT !.netToPip = @ \cup {Len(list.netList)}]

\* The end of a net statement.
RegisterLast(list) ==
    IF FindNet(list, LastNet(list).name) # {} THEN list
    ELSE [list EXCEPT !.netToPip = @ \cup {Len(list.netList)}]

-----------------------------------------------------------------------------
\* Types.

LineType == [first : Text, rest : SUBSET Text, says : Text, at : Text, long : BOOLEAN]
PinType  == [name : Text, position : Text]
PipType  == [says : Text, source : {"static", "partial"} \X Nat]
NetType  == [name : Text, cfg : Text, configure : BOOLEAN,
             outPins : SUBSET PinType, inPins : SUBSET PinType, pips : SUBSET PipType]

\* A list of nets in which what can be found is printed, and a name finds one net at most.
IsNetList(list) ==
    /\ list = [text |-> list.text, printed |-> list.printed,
               netList |-> list.netList, netToPip |-> list.netToPip]
    /\ list.netList \in Seq(NetType)
    /\ list.netToPip \subseteq DOMAIN list.netList
    /\ \A i, j \in list.netToPip : list.netList[i].name = list.netList[j].name => i = j
=============================================================================
