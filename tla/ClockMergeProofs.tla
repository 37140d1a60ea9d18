--------------------------- MODULE ClockMergeProofs ---------------------------
(***************************************************************************)
(* Proofs about ClockMerge, for any designs, any place where a file was    *)
(* cut off, and any list of clock nets: the types, that clock trees        *)
(* arrive, and, for designs that are well-formed, what is read of a file,  *)
(* what becomes of a partial design, and what the merged nets have.        *)
(***************************************************************************)
EXTENDS ClockMerge, Induction, FiniteSetTheorems

-----------------------------------------------------------------------------
\* Nets.

LEMMA NewNetIsNet == ASSUME NEW line \in LineType PROVE Net(line) \in NetType
  BY DEF LineType, Net, NetType

LEMMA MergedPips ==
    ASSUME NEW net \in NetType, NEW pips \in SUBSET PipType, NEW other, other.pips = pips
    PROVE  /\ MergePips(net, other) \in NetType
           /\ MergePips(net, other).name = net.name
           /\ Texts(net.pips) \cup Texts(pips) \subseteq Texts(MergePips(net, other).pips)
  <1> DEFINE new    == {p \in other.pips : ~\E q \in net.pips : SamePip(p, q)}
             merged == net.pips \cup new
  <1>1. /\ new \subseteq pips
        /\ \A p \in pips \ new : \E q \in net.pips : p.says = q.says
    BY DEF SamePip
  <1> HIDE DEF new
  <1>2. MergePips(net, other) = [net EXCEPT !.pips = merged]
    BY DEF MergePips, new
  <1>3. merged \in SUBSET PipType
    BY <1>1 DEF NetType
  <1>4. Texts(net.pips) \cup Texts(pips) \subseteq Texts(merged)
    BY <1>1 DEF Texts
  <1> HIDE DEF merged
  <1>5. /\ MergePips(net, other) \in NetType
        /\ MergePips(net, other).name = net.name
        /\ MergePips(net, other).pips = merged
    BY <1>2, <1>3 DEF NetType
  <1> QED BY <1>4, <1>5

LEMMA InsertedPip ==
    ASSUME NEW net \in NetType, NEW pip \in PipType
    PROVE  InsertPip(net, pip) \in NetType /\ InsertPip(net, pip).name = net.name
  BY MergedPips, {pip} \in SUBSET PipType DEF InsertPip

LEMMA AddedPins ==
    ASSUME NEW net \in NetType, NEW pin \in PinType
    PROVE  /\ AddInPin(net, pin) \in NetType /\ AddInPin(net, pin).name = net.name
           /\ AddOutPin(net, pin) \in NetType /\ AddOutPin(net, pin).name = net.name
  <1>1. \A pins \in SUBSET PinType : With(pins, pin) \in SUBSET PinType
    BY DEF With
  <1> QED BY <1>1 DEF AddInPin, AddOutPin, NetType

\* A copy of a net, whatever clearInPins leaves of its pins.
LEMMA CopiedNet ==
    ASSUME NEW other \in NetType, NEW configure \in BOOLEAN,
           NEW net \in ClearInPins(CopyNet(other, configure))
    PROVE  net \in NetType /\ net.name = other.name /\ net.pips = other.pips
  <1> DEFINE copy == CopyNet(other, configure)
  <1>1. /\ copy \in NetType /\ copy.name = other.name /\ copy.pips = other.pips
        /\ copy.inPins \subseteq PinType
    BY DEF CopyNet, NetType
  <1> HIDE DEF copy
  <1>2. PICK left \in SUBSET copy.inPins : net = [copy EXCEPT !.inPins = left]
    BY DEF ClearInPins, copy
  <1> QED BY <1>1, <1>2 DEF NetType

-----------------------------------------------------------------------------
\* Lists of nets.

LEMMA EmptyListIsList == IsNetList(EmptyList)
  BY DEF IsNetList, EmptyList

\* A list with other text, and one with other nets.
LEMMA OtherParts ==
    ASSUME NEW list, IsNetList(list), NEW value
    PROVE  /\ [list EXCEPT !.text = value]
                 = [text |-> value, printed |-> list.printed,
                    netList |-> list.netList, netToPip |-> list.netToPip]
           /\ [list EXCEPT !.netList = value]
                 = [text |-> list.text, printed |-> list.printed,
                    netList |-> value, netToPip |-> list.netToPip]
  BY DEF IsNetList

LEMMA OutputKeepsNets ==
    ASSUME NEW list, IsNetList(list), NEW line
    PROVE  IsNetList(Output(list, line)) /\ Output(list, line).netList = list.netList
  <1>1. Output(list, line) = [text |-> Append(list.text, line), printed |-> list.printed,
                              netList |-> list.netList, netToPip |-> list.netToPip]
    BY OtherParts, Zenon DEF Output
  <1> QED BY <1>1 DEF IsNetList

LEMMA PrintKeepsNets ==
    ASSUME NEW list, IsNetList(list)
    PROVE  /\ IsNetList(PrintData(list))
           /\ PrintData(list).netList = list.netList
           /\ PrintData(list).printed = [i \in DOMAIN list.netList |-> Printed(list.netList[i])]
  <1> DEFINE printed == [i \in DOMAIN list.netList |-> Printed(list.netList[i])]
  <1> HIDE DEF printed
  <1>1. PrintData(list) = [text |-> list.text, printed |-> printed,
                           netList |-> list.netList, netToPip |-> list.netToPip]
    BY DEF IsNetList, PrintData, printed
  <1> QED BY <1>1 DEF IsNetList, printed

LEMMA InsertedNet ==
    ASSUME NEW list, IsNetList(list), NEW net \in NetType
    PROVE  /\ IsNetList(InsertNet(list, net))
           /\ InsertNet(list, net).netList = Append(list.netList, net)
           /\ InsertNet(list, net).netList # <<>>
  <1> DEFINE nets == Append(list.netList, net)
  <1>1. /\ nets \in Seq(NetType) /\ nets # <<>>
        /\ DOMAIN list.netList \subseteq DOMAIN nets
        /\ \A i \in DOMAIN list.netList : nets[i] = list.netList[i]
    BY DEF IsNetList
  <1> HIDE DEF nets
  <1>2. InsertNet(list, net) = [text |-> list.text, printed |-> list.printed,
                                netList |-> nets, netToPip |-> list.netToPip]
    BY OtherParts, Zenon DEF InsertNet, nets
  <1>3. /\ list.netToPip \subseteq DOMAIN nets
        /\ \A i, j \in list.netToPip : nets[i].name = nets[j].name => i = j
    BY <1>1 DEF IsNetList
  <1> QED BY <1>1, <1>2, <1>3 DEF IsNetList, nets

LEMMA UpdatedNet ==
    ASSUME NEW list, IsNetList(list), NEW i \in DOMAIN list.netList,
           NEW net \in NetType, net.name = list.netList[i].name
    PROVE  /\ IsNetList(UpdateNet(list, i, net))
           /\ UpdateNet(list, i, net).netList = [list.netList EXCEPT ![i] = net]
           /\ UpdateNet(list, i, net).netList # <<>>
  <1> DEFINE nets == [list.netList EXCEPT ![i] = net]
  <1>1. /\ nets \in Seq(NetType) /\ DOMAIN nets = DOMAIN list.netList
        /\ \A j \in DOMAIN nets : nets[j].name = list.netList[j].name
        /\ nets # <<>>
    BY DEF IsNetList
  <1> HIDE DEF nets
  <1>2. UpdateNet(list, i, net) = [text |-> list.text, printed |-> list.printed,
                                   netList |-> nets, netToPip |-> list.netToPip]
    BY DEF IsNetList, UpdateNet, nets
  <1>3. /\ list.netToPip \subseteq DOMAIN nets
        /\ \A j, k \in list.netToPip : nets[j].name = nets[k].name => j = k
    BY <1>1 DEF IsNetList
  <1> QED BY <1>1, <1>2, <1>3 DEF IsNetList, nets

\* The net read last can be found from now on, unless its name finds another.
LEMMA RegisteredNet ==
    ASSUME NEW list, IsNetList(list), list.netList # <<>>
    PROVE  IsNetList(RegisterLast(list)) /\ RegisterLast(list).netList = list.netList
  <1>1. CASE FindNet(list, LastNet(list).name) # {}
    BY <1>1 DEF RegisterLast
  <1>2. CASE FindNet(list, LastNet(list).name) = {}
    <2> DEFINE n == Len(list.netList)
    <2>1. n \in DOMAIN list.netList
      BY DEF IsNetList
    <2>2. \A i \in list.netToPip : list.netList[i].name # list.netList[n].name
      BY <1>2 DEF FindNet, LastNet
    <2> HIDE DEF n
    <2>3. RegisterLast(list) = [text |-> list.text, printed |-> list.printed,
                                netList |-> list.netList,
                                netToPip |-> list.netToPip \cup {n}]
      BY <1>2 DEF IsNetList, RegisterLast, n
    <2>4. \A i, j \in list.netToPip \cup {n} :
              list.netList[i].name = list.netList[j].name => i = j
      BY <2>2 DEF IsNetList
    <2> QED BY <2>1, <2>3, <2>4 DEF IsNetList
  <1> QED BY <1>1, <1>2

-----------------------------------------------------------------------------
\* Files.

LEMMA BlankIsLine == Blank \in LineType
  BY NetListAssumption DEF Blank, LineType

LEMMA LastLineIsLine ==
    ASSUME NEW line \in LineType
    PROVE  LastLine(line) \in LineType
  <1>1. \/ LastLine(line) = line
        \/ LastLine(line) = [Blank EXCEPT !.first = line.first,
                                          !.says = IF line.first = "text" THEN line.says ELSE @]
    BY DEF LastLine
  <1>2. line.first \in Text /\ line.says \in Text /\ Blank.says \in Text
    BY BlankIsLine DEF LineType
  <1>3. \A a, b \in Text : [Blank EXCEPT !.first = a, !.says = b] \in LineType
    BY BlankIsLine DEF LineType
  <1> QED BY <1>1, <1>2, <1>3

LEMMA LinesOfFile ==
    ASSUME InputTypes, NEW f \in Files
    PROVE  File(f) \in Seq(LineType)
  <1>1. Lines(f) \in Seq(LineType)
    BY ClockMergeAssumption DEF InputTypes, Files, Lines
  <1>2. CASE cut.file # f
    BY <1>1, <1>2 DEF File
  <1>3. CASE cut.file = f
    <2> DEFINE lines == Lines(f)
               Kept(i) == IF i = cut.kept THEN LastLine(lines[i]) ELSE lines[i]
    <2>1. cut.kept \in 1 .. Len(lines)
      <3>1. f # "none"
        BY DEF Files
      <3> QED BY <1>3, <3>1 DEF InputTypes, NotCut
    <2> HIDE DEF lines
    <2>2. lines \in Seq(LineType)
      BY <1>1 DEF lines
    <2>3. \A i \in 1 .. cut.kept : Kept(i) \in LineType
      <3>1. \A line \in LineType : LastLine(line) \in LineType
        BY BlankIsLine, LastLineIsLine
      <3>2. \A i \in 1 .. cut.kept : lines[i] \in LineType
        BY <2>1, <2>2
      <3> QED BY <3>1, <3>2
    <2>4. File(f) = [i \in 1 .. cut.kept |-> Kept(i)]
      BY <1>3 DEF File, lines
    <2> HIDE DEF Kept
    <2> QED BY <2>1, <2>2, <2>3, <2>4
  <1> QED BY <1>2, <1>3

LEMMA NextLineIsLine ==
    ASSUME InputTypes, ReaderTypes, Reading
    PROVE  /\ NextLine \in LineType
           /\ (IF AtEnd THEN pos ELSE pos + 1) \in 0 .. Len(File(phase))
  <1> DEFINE file == File(phase)
  <1>1. file \in Seq(LineType) /\ pos \in 0 .. Len(file)
    BY LinesOfFile DEF Reading, ReaderTypes
  <1>2. AtEnd <=> pos = Len(file)
    BY DEF AtEnd
  <1>3. Blank \in LineType
    BY BlankIsLine
  <1>4. NextLine \in {file[pos + 1], temp, Blank} /\ (~AtEnd => NextLine = file[pos + 1])
    BY DEF NextLine
  <1> HIDE DEF file
  <1>5. ~AtEnd => file[pos + 1] \in LineType
    BY <1>1, <1>2
  <1>6. AtEnd => NextLine \in {temp, Blank}
    BY DEF NextLine
  <1>7. NextLine \in LineType
    BY <1>3, <1>4, <1>5, <1>6 DEF ReaderTypes
  <1>8. (IF AtEnd THEN pos ELSE pos + 1) \in 0 .. Len(file)
    BY <1>1, <1>2
  <1> QED BY <1>7, <1>8 DEF file

-----------------------------------------------------------------------------
\* Reading keeps the types.  The loops that add to the net read last:

NetLoops == {"net", "outpin", "inpin"}
Loops    == {"top", "design", "module", "inst"} \cup NetLoops

LEMMA InputStays == ASSUME InputTypes, UNCHANGED input PROVE InputTypes'
  BY DEF input, InputTypes, Lines

\* One list is replaced, by another list of nets.
LEMMA ListReplaced ==
    ASSUME ListTypes, NEW f \in Files, NEW new, IsNetList(new),
           lists' = [lists EXCEPT ![f] = new]
    PROVE  /\ lists' = [g \in Files |-> lists'[g]]
           /\ \A g \in Files : IsNetList(lists'[g])
           /\ lists'[f] = new /\ \A g \in Files \ {f} : lists'[g] = lists[g]
  <1>1. DOMAIN lists = Files
    BY DEF ListTypes
  <1>2. /\ DOMAIN lists' = Files /\ lists'[f] = new
        /\ \A g \in Files \ {f} : lists'[g] = lists[g]
    BY <1>1
  <1>3. lists' = [g \in Files |-> lists'[g]]
    BY <1>1
  <1>4. \A g \in Files : IsNetList(lists'[g])
    BY <1>2 DEF ListTypes
  <1> QED BY <1>2, <1>3, <1>4

\* A turn of a loop: it reads a line, and may replace the list of its phase.
LEMMA TurnKeepsTypes ==
    ASSUME TypeOK, Reading, GetLine, KeepMerging,
           inside' \in Loops, pinName' \in Text,
           NEW new, IsNetList(new), lists' = [lists EXCEPT ![phase] = new],
           inside' \in NetLoops => new.netList # <<>>
    PROVE  TypeOK'
  <1>1. phase \in Files /\ phase' = phase /\ UNCHANGED <<input, clock, result>>
    BY DEF KeepMerging, Reading
  <1>2. InputTypes'
    BY <1>1, InputStays DEF TypeOK
  <1>3. ReaderTypes'
    <2>1. /\ temp' \in LineType
          /\ pos' \in 0 .. Len(File(phase))
      BY NextLineIsLine DEF GetLine, TypeOK
    <2>2. File(phase)' = File(phase)
      BY <1>1 DEF File, Lines, LastLine, input
    <2>3. eof' \in BOOLEAN
      BY DEF GetLine, TypeOK, ReaderTypes
    <2>4. Len(File(phase)) \in Nat
      BY <1>1, LinesOfFile DEF TypeOK
    <2>5. pos' \in Nat /\ pos' <= Len(File(phase)')
      BY <2>1, <2>2, <2>4
    <2> QED BY <1>1, <2>1, <2>3, <2>5 DEF ReaderTypes, Loops, NetLoops
  <1>4. ListTypes'
    <2>1. /\ lists' = [g \in Files |-> lists'[g]]
          /\ \A g \in Files : IsNetList(lists'[g])
          /\ lists'[phase] = new
      BY <1>1, ListReplaced DEF TypeOK
    <2> QED BY <1>1, <2>1 DEF ListTypes, NetLoops
  <1>5. (clock \in 1 .. Len(clkNetNames) + 1)' /\ (result \in {"none", "true", "false"})'
    BY <1>1 DEF TypeOK, input
  <1> QED BY <1>2, <1>3, <1>4, <1>5 DEF TypeOK

\* The same, if the lists stay.
LEMMA QuietTurnKeepsTypes ==
    ASSUME TypeOK, Reading, GetLine, KeepMerging,
           inside' \in Loops, pinName' \in Text, UNCHANGED lists,
           inside' \in NetLoops => inside \in NetLoops
    PROVE  TypeOK'
  <1>1. phase \in Files /\ IsNetList(lists[phase])
    BY DEF Reading, TypeOK, ListTypes
  <1>2. lists' = [lists EXCEPT ![phase] = lists[phase]]
    <2>1. lists = [f \in Files |-> lists[f]]
      BY DEF TypeOK, ListTypes
    <2>2. lists = [lists EXCEPT ![phase] = lists[phase]]
      BY <1>1, <2>1
    <2> QED BY <2>2
  <1>3. inside' \in NetLoops => lists[phase].netList # <<>>
    BY DEF TypeOK, ListTypes, NetLoops
  <1> QED BY <1>1, <1>2, <1>3, TurnKeepsTypes

LEMMA UpdatedLast ==
    ASSUME NEW list, IsNetList(list), list.netList # <<>>,
           NEW net \in NetType, net.name = LastNet(list).name
    PROVE  IsNetList(UpdateLast(list, net)) /\ UpdateLast(list, net).netList # <<>>
  <1>1. Len(list.netList) \in DOMAIN list.netList
    BY DEF IsNetList
  <1> QED BY <1>1, UpdatedNet DEF UpdateLast, LastNet

\* What holds in every turn of a loop of a net.
LEMMA InANet ==
    ASSUME TypeOK, Reading, inside \in NetLoops
    PROVE  /\ phase \in Files /\ IsNetList(lists[phase]) /\ lists[phase].netList # <<>>
           /\ LastNet(lists[phase]) \in NetType
           /\ NextLine \in LineType
  <1>1. phase \in Files /\ IsNetList(lists[phase]) /\ lists[phase].netList # <<>>
    BY DEF Reading, TypeOK, ListTypes, NetLoops
  <1>2. Len(lists[phase].netList) \in DOMAIN lists[phase].netList
        /\ lists[phase].netList \in Seq(NetType)
    BY <1>1 DEF IsNetList
  <1>3. LastNet(lists[phase]) \in NetType
    BY <1>2 DEF LastNet
  <1> QED BY <1>1, <1>3, NextLineIsLine DEF TypeOK

\* A turn that changes the net read last and keeps its name.
LEMMA UpdateKeepsTypes ==
    ASSUME TypeOK, Reading, GetLine, KeepMerging, inside \in NetLoops, inside' \in NetLoops,
           pinName' \in Text,
           NEW net \in NetType, net.name = LastNet(lists[phase]).name, Update(net)
    PROVE  TypeOK'
  <1> DEFINE new == UpdateLast(lists[phase], net)
  <1>1. IsNetList(new) /\ new.netList # <<>>
    BY InANet, UpdatedLast
  <1>2. lists' = [lists EXCEPT ![phase] = new]
    BY DEF Update
  <1> HIDE DEF new
  <1> QED BY <1>1, <1>2, TurnKeepsTypes DEF Loops

LEMMA AddPinKeepsTypes ==
    ASSUME TypeOK, Reading, GetLine, KeepMerging, inside \in NetLoops, inside' \in NetLoops,
           pinName' \in Text,
           NEW kind, NEW pin \in PinType, AddPin(kind, pin)
    PROVE  TypeOK'
  <1> DEFINE net == IF kind = "inpin" THEN AddInPin(LastNet(lists[phase]), pin)
                    ELSE AddOutPin(LastNet(lists[phase]), pin)
  <1>1. net \in NetType /\ net.name = LastNet(lists[phase]).name
    BY InANet, AddedPins
  <1>2. Update(net)
    BY DEF AddPin
  <1> HIDE DEF net
  <1> QED BY <1>1, <1>2, UpdateKeepsTypes

LEMMA AbortKeepsTypes == ASSUME TypeOK, Abort PROVE TypeOK'
  <1>1. InputTypes'
    BY InputStays DEF TypeOK, Abort
  <1>2. ReaderTypes'
    BY DEF Abort, TypeOK, ReaderTypes, Reading, reader, Files
  <1>3. ListTypes'
    BY DEF Abort, TypeOK, ListTypes, Reading, Files
  <1> QED BY <1>1, <1>2, <1>3 DEF TypeOK, Abort, input

LEMMA TopLevelKeepsTypes == ASSUME TypeOK, TopLevel PROVE TypeOK'
  <1>1. /\ Reading /\ GetLine /\ KeepMerging /\ inside = "top"
        /\ pinName' = pinName /\ pinName \in Text /\ phase \in Files
        /\ NextLine \in LineType /\ IsNetList(lists[phase])
    BY NextLineIsLine DEF TopLevel, TypeOK, ReaderTypes, ListTypes, Reading
  <1>2. CASE NextLine.first \in {"design", "module", "inst"}
    <2> DEFINE new == Output(lists[phase], NextLine)
    <2>1. IsNetList(new)
      BY <1>1, OutputKeepsNets
    <2>2. lists' = [lists EXCEPT ![phase] = new] /\ inside' = NextLine.first
      BY <1>2 DEF TopLevel
    <2>3. inside' \in Loops /\ inside' \notin NetLoops
      BY <1>2, <2>2 DEF Loops, NetLoops
    <2> HIDE DEF new
    <2> QED BY <1>1, <2>1, <2>2, <2>3, TurnKeepsTypes
  <1>3. CASE NextLine.first = "net"
    <2> DEFINE new == InsertNet(lists[phase], Net(NextLine))
    <2>1. IsNetList(new) /\ new.netList # <<>>
      BY <1>1, NewNetIsNet, InsertedNet
    <2>2. lists' = [lists EXCEPT ![phase] = new] /\ inside' = "net"
      BY <1>3 DEF TopLevel
    <2> HIDE DEF new
    <2> QED BY <1>1, <2>1, <2>2, TurnKeepsTypes DEF Loops, NetLoops
  <1>4. CASE NextLine.first \notin {"design", "module", "inst", "net"}
    <2>1. UNCHANGED <<inside, lists>>
      BY <1>4 DEF TopLevel
    <2> QED BY <1>1, <2>1, QuietTurnKeepsTypes DEF Loops
  <1> QED BY <1>2, <1>3, <1>4

LEMMA EndOfFileKeepsTypes == ASSUME TypeOK, EndOfFile PROVE TypeOK'
  <1>1. InputTypes'
    BY InputStays DEF TypeOK, EndOfFile
  <1>2. \A f \in Files : Len(File(f)') \in Nat
    <2>1. \A f \in Files : File(f)' = File(f)
      BY DEF EndOfFile, File, Lines, LastLine, input
    <2> QED BY <2>1, LinesOfFile DEF TypeOK
  <1>3. ReaderTypes'
    <2>1. /\ phase' \in {"partial", "merge"} /\ pos' = 0 /\ temp' = Blank /\ eof' = FALSE
          /\ inside' = inside /\ pinName' = pinName
      BY DEF EndOfFile
    <2>2. Reading' => pos' <= Len(File(phase)')
      <3>1. CASE phase' = "partial"
        <4>1. File(phase)' = File("partial")'
          BY <3>1 DEF File
        <4> QED BY <1>2, <2>1, <4>1 DEF Files
      <3>2. CASE phase' = "merge"
        BY <3>2 DEF Reading, Files
      <3> QED BY <2>1, <3>1, <3>2
    <2> QED BY <2>1, <2>2, BlankIsLine DEF TypeOK, ReaderTypes, Files
  <1>4. ListTypes'
    BY DEF EndOfFile, TypeOK, ListTypes
  <1> QED BY <1>1, <1>3, <1>4 DEF TypeOK, EndOfFile, input

LEMMA CopyStatementKeepsTypes == ASSUME TypeOK, CopyStatement PROVE TypeOK'
  <1>1. /\ Reading /\ GetLine /\ KeepMerging /\ inside \in {"design", "module", "inst"}
        /\ inside' \in {inside, "top"}
        /\ pinName' = pinName /\ pinName \in Text /\ phase \in Files
        /\ IsNetList(lists[phase])
    BY DEF CopyStatement, Turns, TypeOK, ReaderTypes, ListTypes, Reading
  <1> DEFINE new == Output(lists[phase], NextLine)
  <1>2. IsNetList(new)
    BY <1>1, OutputKeepsNets
  <1>3. lists' = [lists EXCEPT ![phase] = new]
    BY DEF CopyStatement
  <1>4. inside' \in Loops /\ inside' \notin NetLoops
    BY <1>1 DEF Loops, NetLoops
  <1> HIDE DEF new
  <1> QED BY <1>1, <1>2, <1>3, <1>4, TurnKeepsTypes

LEMMA CloseNetKeepsTypes == ASSUME TypeOK, CloseNet PROVE TypeOK'
  <1>1. /\ Reading /\ GetLine /\ KeepMerging /\ inside = "net" /\ inside' = "top"
        /\ pinName' = pinName /\ pinName \in Text
    BY DEF CloseNet, Turns, TypeOK, ReaderTypes
  <1> DEFINE new == RegisterLast(lists[phase])
  <1>2. IsNetList(new)
    BY <1>1, InANet, RegisteredNet DEF NetLoops
  <1>3. lists' = [lists EXCEPT ![phase] = new]
    BY DEF CloseNet
  <1> HIDE DEF new
  <1> QED BY <1>1, <1>2, <1>3, TurnKeepsTypes DEF Loops, NetLoops

LEMMA ReadPinKeepsTypes == ASSUME TypeOK, ReadPin PROVE TypeOK'
  <1>1. /\ Reading /\ GetLine /\ KeepMerging /\ inside = "net"
        /\ NextLine.first \in {"outpin", "inpin"} /\ pinName \in Text
    BY DEF ReadPin, Turns, TypeOK, ReaderTypes
  <1>2. NextLine \in LineType
    BY <1>1, InANet DEF NetLoops
  <1>3. CASE NextLine.at = NoText
    <2>1. inside' = NextLine.first /\ pinName' = NextLine.says /\ UNCHANGED lists
      BY <1>3 DEF ReadPin
    <2>2. pinName' \in Text
      BY <1>2, <2>1 DEF LineType
    <2> QED BY <1>1, <2>1, <2>2, QuietTurnKeepsTypes DEF Loops, NetLoops
  <1>4. CASE NextLine.at # NoText
    <2>1. AddPin(NextLine.first, Pin(NextLine.says, NextLine.at)) /\ UNCHANGED <<inside, pinName>>
      BY <1>4 DEF ReadPin
    <2>2. Pin(NextLine.says, NextLine.at) \in PinType
      BY <1>2 DEF Pin, PinType, LineType
    <2>3. inside \in NetLoops /\ inside' \in NetLoops
      BY <1>1, <2>1 DEF NetLoops
    <2> QED BY <1>1, <2>1, <2>2, <2>3, AddPinKeepsTypes
  <1> QED BY <1>3, <1>4

LEMMA ReadPositionKeepsTypes == ASSUME TypeOK, ReadPosition PROVE TypeOK'
  <1>1. /\ Reading /\ GetLine /\ KeepMerging /\ inside \in NetLoops /\ inside' = "net"
        /\ pinName' = pinName /\ pinName \in Text
        /\ AddPin(inside, Pin(pinName, Word(NextLine)))
    BY DEF ReadPosition, TypeOK, ReaderTypes, NetLoops
  <1>2. NextLine \in LineType
    BY <1>1, InANet
  <1>3. Pin(pinName, Word(NextLine)) \in PinType
    BY <1>1, <1>2 DEF Pin, PinType, Word, LineType
  <1> QED BY <1>1, <1>3, AddPinKeepsTypes DEF NetLoops

LEMMA ReadPipKeepsTypes == ASSUME TypeOK, ReadPip PROVE TypeOK'
  <1> DEFINE pip == NewPip(NextLine, phase, pos + 1)
             net == InsertPip(LastNet(lists[phase]), pip)
  <1>1. /\ Reading /\ GetLine /\ KeepMerging /\ inside = "net" /\ inside' = inside
        /\ pinName' = pinName /\ pinName \in Text /\ pos \in Nat
        /\ Update(net)
    BY DEF ReadPip, Turns, TypeOK, ReaderTypes
  <1>2. NextLine \in LineType /\ phase \in Files /\ LastNet(lists[phase]) \in NetType
    BY <1>1, InANet DEF NetLoops
  <1>3. pip \in PipType
    BY <1>1, <1>2 DEF NewPip, PipType, LineType, Files
  <1> HIDE DEF pip
  <1>4. net \in NetType /\ net.name = LastNet(lists[phase]).name
    BY <1>2, <1>3, InsertedPip
  <1> HIDE DEF net
  <1> QED BY <1>1, <1>4, UpdateKeepsTypes DEF NetLoops

LEMMA ReadKeepsTypes == ASSUME TypeOK, Read PROVE TypeOK'
  <1>1. CASE BlankAborts \/ ShortLineAborts
    BY <1>1, AbortKeepsTypes DEF BlankAborts, ShortLineAborts
  <1>2. CASE SkipInNet
    <2>1. /\ Reading /\ GetLine /\ KeepMerging /\ inside = "net" /\ inside' = inside
          /\ pinName' = pinName /\ pinName \in Text /\ UNCHANGED lists
      BY <1>2 DEF SkipInNet, Turns, TypeOK, ReaderTypes
    <2> QED BY <2>1, QuietTurnKeepsTypes DEF Loops, NetLoops
  <1> QED BY <1>1, <1>2, TopLevelKeepsTypes, EndOfFileKeepsTypes, CopyStatementKeepsTypes,
             CloseNetKeepsTypes, ReadPinKeepsTypes, ReadPositionKeepsTypes, ReadPipKeepsTypes
          DEF Read

-----------------------------------------------------------------------------
\* Merging keeps the types.

LEMMA MergingKeepsTypes ==
    ASSUME TypeOK, phase = "merge", UNCHANGED <<input, reader>>,
           NEW new, IsNetList(new), lists' = [lists EXCEPT !["partial"] = new],
           phase' \in {"merge", "done"}, clock' \in 1 .. Len(clkNetNames) + 1,
           result' \in {"none", "true", "false"}
    PROVE  TypeOK'
  <1>1. InputTypes'
    BY InputStays DEF TypeOK
  <1>2. ~Reading'
    BY DEF Reading, Files
  <1>3. ReaderTypes'
    BY <1>2 DEF TypeOK, ReaderTypes, reader
  <1>4. ListTypes'
    <2>1. /\ lists' = [g \in Files |-> lists'[g]]
          /\ \A g \in Files : IsNetList(lists'[g])
      BY ListReplaced DEF TypeOK, Files
    <2> QED BY <1>2, <2>1 DEF ListTypes
  <1> QED BY <1>1, <1>3, <1>4 DEF TypeOK, input

\* The lists that are merged, and the net found in the static one.
LEMMA StaticClockNet ==
    ASSUME TypeOK, NEW s \in InStatic
    PROVE  /\ IsNetList(lists["static"]) /\ IsNetList(lists["partial"])
           /\ s \in DOMAIN lists["static"].netList
           /\ StaticNet(s) \in NetType /\ StaticNet(s).name = clkNetNames[clock]
           /\ StaticNet(s).pips \in SUBSET PipType
  <1>1. IsNetList(lists["static"]) /\ IsNetList(lists["partial"])
    BY DEF TypeOK, ListTypes, Files
  <1>2. s \in DOMAIN lists["static"].netList /\ lists["static"].netList \in Seq(NetType)
    BY <1>1 DEF InStatic, FindNet, IsNetList
  <1>3. StaticNet(s) \in NetType
    BY <1>2 DEF StaticNet
  <1> QED BY <1>1, <1>2, <1>3 DEF InStatic, FindNet, StaticNet, NetType

\* What a step that merges a clock net does to the partial list: nets keep their place, their
\* name and their pips, and one of them is or becomes the clock net with the static pips.
ClockNetMerged(s, new) ==
    /\ IsNetList(new)
    /\ \A i \in DOMAIN lists["partial"].netList :
          /\ i \in DOMAIN new.netList
          /\ new.netList[i].name = lists["partial"].netList[i].name
          /\ Texts(lists["partial"].netList[i].pips) \subseteq Texts(new.netList[i].pips)
    /\ \E i \in DOMAIN new.netList : /\ new.netList[i].name = clkNetNames[clock]
                                     /\ Texts(StaticNet(s).pips) \subseteq Texts(new.netList[i].pips)

LEMMA MergeIntoPartial ==
    ASSUME TypeOK, MergeClockNet
    PROVE  \E s \in InStatic : \E new : /\ lists' = [lists EXCEPT !["partial"] = new]
                                        /\ ClockNetMerged(s, new)
  <1> DEFINE list == lists["partial"]
  <1>1. PICK s \in InStatic, p \in InPartial :
            lists' = [lists EXCEPT !["partial"] =
                         UpdateNet(@, p, MergePips(@.netList[p], StaticNet(s)))]
    BY DEF MergeClockNet
  <1> DEFINE old == list.netList[p]
             net == MergePips(old, StaticNet(s))
             new == UpdateNet(list, p, net)
  <1>2. IsNetList(list) /\ p \in DOMAIN list.netList /\ old.name = clkNetNames[clock]
    BY StaticClockNet DEF InPartial, FindNet, IsNetList
  <1>3. old \in NetType
    BY <1>2 DEF IsNetList
  <1>4. /\ net \in NetType /\ net.name = old.name
        /\ Texts(old.pips) \cup Texts(StaticNet(s).pips) \subseteq Texts(net.pips)
    BY <1>3, StaticClockNet, MergedPips
  <1>5. lists' = [lists EXCEPT !["partial"] = new]
    BY <1>1
  <1> HIDE DEF net
  <1>6. IsNetList(new) /\ new.netList = [list.netList EXCEPT ![p] = net]
    BY <1>2, <1>4, UpdatedNet
  <1>7. list.netList \in Seq(NetType)
    BY <1>2 DEF IsNetList
  <1> HIDE DEF new, list
  <1>8. /\ DOMAIN new.netList = DOMAIN list.netList
        /\ new.netList[p] = net
        /\ \A i \in DOMAIN list.netList \ {p} : new.netList[i] = list.netList[i]
    BY <1>2, <1>6, <1>7
  <1>9. ClockNetMerged(s, new)
    BY <1>2, <1>4, <1>6, <1>8 DEF ClockNetMerged, list
  <1> QED BY <1>5, <1>9

LEMMA CopyIntoPartial ==
    ASSUME TypeOK, CopyClockNet
    PROVE  \E s \in InStatic : \E new : /\ lists' = [lists EXCEPT !["partial"] = new]
                                        /\ ClockNetMerged(s, new)
  <1> DEFINE list == lists["partial"]
  <1>0. PICK s \in InStatic, configure \in BOOLEAN :
            \E copy \in ClearInPins(CopyNet(StaticNet(s), configure)) :
              lists' = [lists EXCEPT !["partial"] = InsertNet(@, MergePips(copy, StaticNet(s)))]
    BY DEF CopyClockNet
  <1>1. PICK copy \in ClearInPins(CopyNet(StaticNet(s), configure)) :
            lists' = [lists EXCEPT !["partial"] = InsertNet(@, MergePips(copy, StaticNet(s)))]
    BY <1>0
  <1> DEFINE net == MergePips(copy, StaticNet(s))
             new == InsertNet(list, net)
  <1>2. copy \in NetType /\ copy.name = clkNetNames[clock]
    BY StaticClockNet, CopiedNet
  <1>3. /\ net \in NetType /\ net.name = clkNetNames[clock]
        /\ Texts(StaticNet(s).pips) \subseteq Texts(net.pips)
    BY <1>2, StaticClockNet, MergedPips
  <1>4. lists' = [lists EXCEPT !["partial"] = new]
    BY <1>1
  <1> HIDE DEF net
  <1>5. IsNetList(list) /\ list.netList \in Seq(NetType)
    BY StaticClockNet DEF IsNetList
  <1>6. IsNetList(new) /\ new.netList = Append(list.netList, net)
    BY <1>3, <1>5, InsertedNet
  <1> HIDE DEF new, list
  <1>7. /\ \A i \in DOMAIN list.netList :
              i \in DOMAIN new.netList /\ new.netList[i] = list.netList[i]
        /\ Len(list.netList) + 1 \in DOMAIN new.netList
        /\ new.netList[Len(list.netList) + 1] = net
    BY <1>3, <1>5, <1>6
  <1>8. ClockNetMerged(s, new)
    BY <1>3, <1>6, <1>7 DEF ClockNetMerged, list
  <1> QED BY <1>4, <1>8

-----------------------------------------------------------------------------
\* The invariant.

LEMMA InitMerge == Init => MergeInvariant
  <1> SUFFICES ASSUME Init
               PROVE  MergeInvariant
    OBVIOUS
  <1>1. InputTypes
    <2>1. cut \in {NotCut} \cup UNION {[file : {f}, kept : 1 .. Len(Lines(f)),
                                        end : {"newline", "line", "word"}] : f \in Files}
      BY DEF Init
    <2>2. CASE cut = NotCut
      BY <2>2 DEF Init, InputTypes
    <2>3. CASE cut # NotCut
      <3>1. PICK f \in Files : cut \in [file : {f}, kept : 1 .. Len(Lines(f)),
                                        end : {"newline", "line", "word"}]
        BY <2>1, <2>3
      <3>2. cut.file = f /\ cut.kept \in 1 .. Len(Lines(f))
        BY <3>1
      <3> QED BY <3>2 DEF Init, InputTypes
    <2> QED BY <2>2, <2>3
  <1>2. ReaderTypes
    <2>1. Len(File("static")) \in Nat
      BY <1>1, LinesOfFile DEF Files
    <2>2. NoText \in Text
      BY NetListAssumption
    <2>3. /\ phase = "static" /\ pos = 0 /\ temp = Blank /\ eof = FALSE
          /\ inside = "top" /\ pinName = NoText
      BY DEF Init
    <2>4. Reading => pos <= Len(File(phase))
      BY <2>1, <2>3
    <2> QED BY <2>2, <2>3, <2>4, BlankIsLine DEF ReaderTypes, Files
  <1>3. ListTypes
    <2>1. /\ lists = [f \in Files |-> EmptyList] /\ inside = "top"
      BY DEF Init
    <2> QED BY <2>1, EmptyListIsList DEF ListTypes
  <1>4. clkNetNames \in Seq(Text)
    BY ClockMergeAssumption DEF Init
  <1>5. clock = 1 /\ result = "none"
    BY DEF Init
  <1>6. TypeOK
    BY <1>1, <1>2, <1>3, <1>4, <1>5 DEF TypeOK
  <1> QED BY <1>5, <1>6 DEF MergeInvariant, ClockTreesArrive

\* As long as the files are read no clock net has been merged.
LEMMA ReadKeepsMerge == ASSUME MergeInvariant, Read PROVE MergeInvariant'
  <1>1. TypeOK'
    BY ReadKeepsTypes DEF MergeInvariant
  <1>2. /\ Reading /\ phase' # "done"
        /\ clock' = clock /\ result' = result
    BY DEF Read, TopLevel, EndOfFile, CopyStatement, BlankAborts, SkipInNet, CloseNet, ReadPin,
           ReadPosition, ReadPip, ShortLineAborts, KeepMerging, Abort, Turns, Reading, Files
  <1>3. clock' = 1 /\ result' = "none"
    BY <1>2 DEF MergeInvariant, Reading, Files
  <1> QED BY <1>1, <1>3 DEF MergeInvariant, ClockTreesArrive

LEMMA ClockStep ==
    ASSUME MergeInvariant, MergeClockNet \/ CopyClockNet
    PROVE  MergeInvariant'
  <1>1. /\ phase = "merge" /\ phase' = "merge" /\ clock' = clock + 1 /\ clock <= Len(clkNetNames)
        /\ UNCHANGED <<input, reader, result>>
    BY DEF MergeClockNet, CopyClockNet, Merging, NextClock
  <1>2. TypeOK /\ result = "none" /\ \A k \in 1 .. clock - 1 : Arrived(k)
    BY <1>1 DEF MergeInvariant
  <1>net. PICK s \in InStatic : \E new : /\ lists' = [lists EXCEPT !["partial"] = new]
                                         /\ ClockNetMerged(s, new)
    BY <1>2, MergeIntoPartial, CopyIntoPartial
  <1>3. PICK new : /\ lists' = [lists EXCEPT !["partial"] = new]
                   /\ ClockNetMerged(s, new)
    BY <1>net
  <1>4. clock \in 1 .. Len(clkNetNames) + 1 /\ Len(clkNetNames) \in Nat
    <2>1. clkNetNames \in Seq(Text)
      BY <1>2, ClockMergeAssumption DEF TypeOK, InputTypes
    <2> QED BY <1>2, <2>1 DEF TypeOK
  <1>5. TypeOK'
    <2>1. IsNetList(new) /\ lists' = [lists EXCEPT !["partial"] = new]
      BY <1>3 DEF ClockNetMerged
    <2>2. clock' \in 1 .. Len(clkNetNames) + 1
      BY <1>1, <1>4
    <2>3. phase' \in {"merge", "done", "aborted"} /\ result' \in {"none", "true", "false"}
      BY <1>1, <1>2
    <2> QED BY <1>1, <1>2, <2>1, <2>2, <2>3, MergingKeepsTypes
  <1>6. /\ lists'["partial"] = new /\ lists'["static"] = lists["static"]
        /\ clkNetNames' = clkNetNames
    BY <1>1, <1>2, <1>3, ListReplaced DEF TypeOK, Files, ClockNetMerged, input
  <1>7. \A k \in 1 .. clock - 1 : Arrived(k)'
    <2> SUFFICES ASSUME NEW k \in 1 .. clock - 1
                 PROVE  Arrived(k)'
      OBVIOUS
    <2>1. PICK t \in FindNet(lists["static"], clkNetNames[k]),
               i \in DOMAIN lists["partial"].netList :
                  /\ lists["partial"].netList[i].name = clkNetNames[k]
                  /\ Texts(StaticNet(t).pips) \subseteq Texts(lists["partial"].netList[i].pips)
      BY <1>2 DEF Arrived
    <2>2. /\ i \in DOMAIN new.netList /\ new.netList[i].name = clkNetNames[k]
          /\ Texts(StaticNet(t).pips) \subseteq Texts(new.netList[i].pips)
      BY <1>3, <2>1 DEF ClockNetMerged
    <2>3. t \in FindNet(lists["static"], clkNetNames[k])' /\ StaticNet(t)' = StaticNet(t)
      BY <1>6, <2>1 DEF FindNet, StaticNet
    <2> QED BY <1>6, <2>2, <2>3 DEF Arrived
  <1>8. \A k \in {clock} : Arrived(k)'
    <2> SUFFICES ASSUME NEW k \in {clock}
                 PROVE  Arrived(k)'
      OBVIOUS
    <2>1. PICK i \in DOMAIN new.netList :
                  /\ new.netList[i].name = clkNetNames[k]
                  /\ Texts(StaticNet(s).pips) \subseteq Texts(new.netList[i].pips)
      BY <1>3 DEF ClockNetMerged
    <2> QED BY <1>6, <2>1 DEF Arrived, FindNet, StaticNet, InStatic
  <1>9. \A k \in 1 .. clock' - 1 : Arrived(k)'
    <2>1. \A k \in 1 .. clock' - 1 : k \in 1 .. clock - 1 \/ k \in {clock}
      BY <1>1, <1>4
    <2> QED BY <1>7, <1>8, <2>1
  <1>10. phase' # "done" /\ result' = "none" /\ ~Reading'
    BY <1>1, <1>2 DEF Reading, Files
  <1> QED BY <1>5, <1>9, <1>10 DEF MergeInvariant, ClockTreesArrive

\* A printed net has its name, and a line for whatever its pips say.
LEMMA PrintedSaysPips ==
    ASSUME NEW net
    PROVE  Printed(net).name = net.name /\ DOMAIN Printed(net).pips = Texts(net.pips)
  <1> DEFINE count(text) == Cardinality({p \in net.pips : p.says = text})
  <1>1. Printed(net).name = net.name
        /\ Printed(net).pips = [text \in {p.says : p \in net.pips} |-> count(text)]
    BY DEF Printed
  <1> HIDE DEF count
  <1> QED BY <1>1 DEF Texts

\* What is printed is the list, in which every clock net has arrived.
LEMMA PrintStep == ASSUME MergeInvariant, PrintNets PROVE MergeInvariant'
  <1>1. /\ phase = "merge" /\ phase' = "done" /\ result' = "true" /\ clock' = clock
        /\ clock > Len(clkNetNames) /\ UNCHANGED <<input, reader>>
        /\ lists' = [lists EXCEPT !["partial"] = PrintData(lists["partial"])]
    BY DEF PrintNets, Return
  <1>2. TypeOK /\ \A k \in 1 .. clock - 1 : Arrived(k)
    BY DEF MergeInvariant
  <1> DEFINE old == lists["partial"].netList
             new == PrintData(lists["partial"])
  <1>3. IsNetList(lists["partial"])
    BY <1>2 DEF TypeOK, ListTypes, Files
  <1>4. IsNetList(new) /\ new.netList = old /\ new.printed = [i \in DOMAIN old |-> Printed(old[i])]
    BY <1>3, PrintKeepsNets
  <1>5. clock \in 1 .. Len(clkNetNames) + 1 /\ Len(clkNetNames) \in Nat
    <2>1. clkNetNames \in Seq(Text)
      BY <1>2, ClockMergeAssumption DEF TypeOK, InputTypes
    <2> QED BY <1>2, <2>1 DEF TypeOK
  <1> HIDE DEF new
  <1>6. TypeOK'
    <2>1. lists' = [lists EXCEPT !["partial"] = new]
      BY <1>1 DEF new
    <2> QED BY <1>1, <1>2, <1>4, <1>5, <2>1, MergingKeepsTypes
  <1>7. /\ lists'["partial"] = new /\ lists'["static"] = lists["static"]
        /\ clkNetNames' = clkNetNames
    <2>1. lists' = [lists EXCEPT !["partial"] = new]
      BY <1>1 DEF new
    <2> QED BY <1>1, <1>2, <1>4, <2>1, ListReplaced DEF TypeOK, Files, input
  <1>8. \A i \in DOMAIN old : /\ i \in DOMAIN new.printed
                              /\ new.printed[i].name = old[i].name
                              /\ DOMAIN new.printed[i].pips = Texts(old[i].pips)
    <2>1. new.printed = [i \in DOMAIN old |-> Printed(old[i])]
      BY <1>4
    <2> HIDE DEF old
    <2>2. \A i \in DOMAIN old : i \in DOMAIN new.printed /\ new.printed[i] = Printed(old[i])
      BY <2>1
    <2> QED BY <2>2, PrintedSaysPips
  <1>9. \A k \in 1 .. clock - 1 : Arrived(k)'
    BY <1>2, <1>4, <1>7 DEF Arrived, FindNet, StaticNet
  <1>10. ClockTreesArrive'
    <2> SUFFICES ASSUME NEW k \in 1 .. Len(clkNetNames)
                 PROVE  \E s \in FindNet(lists["static"], clkNetNames[k]),
                           i \in DOMAIN new.printed :
                             /\ new.printed[i].name = clkNetNames[k]
                             /\ Texts(StaticNet(s).pips) \subseteq DOMAIN new.printed[i].pips
      BY <1>7 DEF ClockTreesArrive, Merged, StaticNet
    <2>1. k \in 1 .. clock - 1
      BY <1>1, <1>5
    <2>2. PICK s \in FindNet(lists["static"], clkNetNames[k]), i \in DOMAIN old :
              /\ old[i].name = clkNetNames[k]
              /\ Texts(StaticNet(s).pips) \subseteq Texts(old[i].pips)
      BY <1>2, <2>1 DEF Arrived
    <2> QED BY <1>8, <2>2
  <1>11. ~Reading'
    BY <1>1 DEF Reading, Files
  <1> QED BY <1>1, <1>6, <1>9, <1>10, <1>11 DEF MergeInvariant

\* Giving up, and dying, leave the lists as they are.
LEMMA QuietEnd ==
    ASSUME MergeInvariant, NotInStatic \/ ClearInPinsCrashes
    PROVE  MergeInvariant'
  <1>1. /\ phase = "merge" /\ phase' \in {"done", "aborted"} /\ UNCHANGED <<input, reader, clock, lists>>
        /\ result' \in {"false", result} /\ (phase' = "aborted" => result' = result)
    BY DEF NotInStatic, ClearInPinsCrashes, Merging, Return, Abort
  <1>2. TypeOK /\ result = "none" /\ \A k \in 1 .. clock - 1 : Arrived(k)
    BY <1>1 DEF MergeInvariant
  <1>3. ~Reading' /\ clkNetNames' = clkNetNames /\ clock' = clock /\ lists' = lists
    BY <1>1 DEF Reading, Files, input
  <1>4. TypeOK'
    <2>1. InputTypes'
      BY <1>1, <1>2, InputStays DEF TypeOK
    <2>2. ReaderTypes'
      BY <1>1, <1>2, <1>3 DEF TypeOK, ReaderTypes, reader
    <2>3. ListTypes'
      BY <1>2, <1>3 DEF TypeOK, ListTypes
    <2> QED BY <1>1, <1>2, <1>3, <2>1, <2>2, <2>3 DEF TypeOK
  <1>5. \A k \in 1 .. clock' - 1 : Arrived(k)'
    BY <1>2, <1>3 DEF Arrived, StaticNet
  <1>6. ClockTreesArrive'
    BY <1>1, <1>2 DEF ClockTreesArrive
  <1> QED BY <1>1, <1>2, <1>3, <1>4, <1>5, <1>6 DEF MergeInvariant

LEMMA NextMerge == MergeInvariant /\ [Next]_vars => MergeInvariant'
  <1> SUFFICES ASSUME MergeInvariant, [Next]_vars
               PROVE  MergeInvariant'
    OBVIOUS
  <1>1. CASE Read
    BY <1>1, ReadKeepsMerge
  <1>2. CASE Merge
    BY <1>2, ClockStep, PrintStep, QuietEnd DEF Merge
  <1>3. CASE UNCHANGED vars
    <2>1. /\ UNCHANGED <<design, cut, clkNetNames, phase, pos, temp, eof, inside, pinName, lists,
                         clock, result>>
      BY <1>3 DEF vars, input, reader
    <2>2. TypeOK'
      BY <2>1 DEF MergeInvariant, TypeOK, InputTypes, ReaderTypes, ListTypes, Lines, Reading,
                  File, LastLine
    <2>3. (\A k \in 1 .. clock - 1 : Arrived(k))'
      BY <2>1 DEF MergeInvariant, Arrived, StaticNet
    <2>4. ClockTreesArrive'
      BY <2>1 DEF MergeInvariant, ClockTreesArrive, Merged, StaticNet
    <2> QED BY <2>1, <2>2, <2>3, <2>4 DEF MergeInvariant, Reading
  <1> QED BY <1>1, <1>2, <1>3 DEF Next

-----------------------------------------------------------------------------
\* Theorems.

\* The inductive invariant of mergeClockTree: the readers' lists are sound, and the clock
\* nets merged so far are in the partial design's list (AntiCoreBase.cpp 1164-1196).
THEOREM MergeInvariantHolds == Spec => []MergeInvariant
  BY InitMerge, NextMerge, PTL DEF Spec

\* Types; what findNet can find is printed, and a name finds one net at most.
THEOREM TypeCorrect == Spec => []TypeOK
  <1>1. MergeInvariant => TypeOK
    BY DEF MergeInvariant
  <1> QED BY <1>1, MergeInvariantHolds, PTL

\* A merge that returns true has printed every clock net listed with all pips that were read
\* for it in the static design, for any two files, whole or cut off (AntiCoreBase.cpp 1171-1196,
\* Net.cpp 198-206).
THEOREM ClockTreesArriveAlways == Spec => []ClockTreesArrive
  <1>1. MergeInvariant => ClockTreesArrive
    BY DEF MergeInvariant
  <1> QED BY <1>1, MergeInvariantHolds, PTL

-----------------------------------------------------------------------------
\* Where the statements of a design are in its file.

Designs == Seq(Seq(LineType) \ {<<>>})

Start(d, n) == Len(Prefix(d, n))

LEMMA PrefixIsLines ==
    ASSUME NEW d \in Designs, NEW n \in 0 .. Len(d)
    PROVE  Prefix(d, n) \in Seq(LineType) /\ Start(d, n) \in Nat
  <1> DEFINE T == {k \in Nat : k \in 0 .. Len(d) => Prefix(d, k) \in Seq(LineType)}
  <1>0. d \in Seq(Seq(LineType)) /\ Len(d) \in Nat
    BY DEF Designs
  <1>1. 0 \in T
    <2>1. Prefix(d, 0) = <<>>
      BY <1>0, PrefixSteps
    <2>2. <<>> \in Seq(LineType)
      OBVIOUS
    <2> QED BY <2>1, <2>2
  <1>2. ASSUME NEW k \in Nat, k \in T
        PROVE  k + 1 \in T
    <2> SUFFICES ASSUME k + 1 \in 0 .. Len(d)
                 PROVE  Prefix(d, k + 1) \in Seq(LineType)
      OBVIOUS
    <2>1. k \in 0 .. Len(d) - 1 /\ k \in 0 .. Len(d) /\ k + 1 \in 1 .. Len(d)
      BY <1>0
    <2>2. Prefix(d, k + 1) = Prefix(d, k) \o d[k + 1]
      BY <1>0, <2>1, PrefixSteps
    <2>3. Prefix(d, k) \in Seq(LineType) /\ d[k + 1] \in Seq(LineType)
      BY <1>0, <1>2, <2>1
    <2>4. Prefix(d, k) \o d[k + 1] \in Seq(LineType)
      <3> DEFINE p == Prefix(d, k)
                 s == d[k + 1]
      <3>1. p \in Seq(LineType) /\ s \in Seq(LineType)
        BY <2>3
      <3> HIDE DEF p, s
      <3>2. p \o s \in Seq(LineType)
        BY <3>1
      <3> QED BY <3>2 DEF p, s
    <2> QED BY <2>2, <2>4
  <1> HIDE DEF T
  <1>3. \A k \in Nat : k \in T
    BY <1>1, <1>2, SetInduction
  <1>4. Prefix(d, n) \in Seq(LineType)
    BY <1>0, <1>3 DEF T
  <1> QED BY <1>4 DEF Start

LEMMA StartSteps ==
    ASSUME NEW d \in Designs, NEW n \in 0 .. Len(d) - 1
    PROVE  /\ n + 1 \in 0 .. Len(d) /\ n + 1 \in DOMAIN d /\ n \in 0 .. Len(d)
           /\ d[n + 1] \in Seq(LineType) /\ Len(d[n + 1]) \in Nat \ {0}
           /\ Start(d, n) \in Nat /\ Start(d, n + 1) = Start(d, n) + Len(d[n + 1])
           /\ \A i \in 1 .. Start(d, n) : Prefix(d, n + 1)[i] = Prefix(d, n)[i]
           /\ \A i \in 1 .. Len(d[n + 1]) : Prefix(d, n + 1)[Start(d, n) + i] = d[n + 1][i]
  <1>0. d \in Seq(Seq(LineType)) /\ Len(d) \in Nat
    BY DEF Designs
  <1>1. n + 1 \in 0 .. Len(d) /\ n + 1 \in 1 .. Len(d) /\ n \in 0 .. Len(d)
    BY <1>0
  <1> DEFINE p == Prefix(d, n)
             s == d[n + 1]
  <1>2. p \in Seq(LineType) /\ s \in Seq(LineType) /\ s # <<>>
    BY <1>1, PrefixIsLines DEF Designs
  <1>3. Prefix(d, n + 1) = p \o s
    BY <1>0, PrefixSteps
  <1> HIDE DEF p, s
  <1>4. /\ Len(s) \in Nat \ {0} /\ Len(p) \in Nat /\ Len(p \o s) = Len(p) + Len(s)
        /\ \A i \in 1 .. Len(p) : (p \o s)[i] = p[i]
        /\ \A i \in 1 .. Len(s) : (p \o s)[Len(p) + i] = s[i]
    BY <1>2
  <1> QED BY <1>1, <1>2, <1>3, <1>4 DEF Start, p, s

LEMMA StartGrows ==
    ASSUME NEW d \in Designs, NEW n \in 0 .. Len(d), NEW m \in 0 .. Len(d), n <= m
    PROVE  /\ Start(d, n) \in Nat /\ Start(d, m) \in Nat
           /\ Start(d, n) <= Start(d, m) /\ (n < m => Start(d, n) < Start(d, m))
           /\ \A i \in 1 .. Start(d, n) : Prefix(d, m)[i] = Prefix(d, n)[i]
  <1> DEFINE Fits(k) == /\ Start(d, n) <= Start(d, k) /\ (n < k => Start(d, n) < Start(d, k))
                        /\ \A i \in 1 .. Start(d, n) : Prefix(d, k)[i] = Prefix(d, n)[i]
             T == {k \in Nat : k \in n .. Len(d) => Fits(k)}
  <1>0. Len(d) \in Nat /\ n \in Nat /\ m \in Nat /\ m \in n .. Len(d)
    BY DEF Designs
  <1>a. \A k \in 0 .. Len(d) : Start(d, k) \in Nat
    BY PrefixIsLines
  <1>b. Fits(n)
    BY <1>0, <1>a
  <1>1. 0 \in T
    <2>1. 0 \in n .. Len(d) => n = 0
      BY <1>0
    <2> QED BY <1>b, <2>1
  <1>2. ASSUME NEW k \in Nat, k \in T
        PROVE  k + 1 \in T
    <2> SUFFICES ASSUME k + 1 \in n .. Len(d)
                 PROVE  Fits(k + 1)
      OBVIOUS
    <2>1. CASE k + 1 = n
      BY <1>b, <2>1
    <2>2. CASE k + 1 # n
      <3>1. k \in n .. Len(d) /\ k \in 0 .. Len(d) - 1 /\ k \in 0 .. Len(d)
        BY <1>0, <2>2
      <3>2. Fits(k)
        BY <1>2, <3>1
      <3>3. /\ Start(d, k) \in Nat /\ Start(d, k + 1) = Start(d, k) + Len(d[k + 1])
            /\ Len(d[k + 1]) \in Nat \ {0}
            /\ \A i \in 1 .. Start(d, k) : Prefix(d, k + 1)[i] = Prefix(d, k)[i]
        BY <3>1, StartSteps
      <3>4. Start(d, n) \in Nat /\ 1 .. Start(d, n) \subseteq 1 .. Start(d, k)
        BY <1>a, <3>2, <3>3
      <3>5. Start(d, n) <= Start(d, k + 1) /\ Start(d, n) < Start(d, k + 1)
        BY <3>2, <3>3, <3>4
      <3>6. \A i \in 1 .. Start(d, n) : Prefix(d, k + 1)[i] = Prefix(d, n)[i]
        BY <3>2, <3>3, <3>4
      <3> QED BY <3>5, <3>6
    <2> QED BY <2>1, <2>2
  <1> HIDE DEF T
  <1>3. m \in T
    BY <1>0, <1>1, <1>2, SetInduction
  <1>4. Fits(m)
    BY <1>0, <1>3 DEF T
  <1> QED BY <1>a, <1>4

LEMMA LineOfStatement ==
    ASSUME NEW d \in Designs, NEW n \in 0 .. Len(d) - 1, NEW j \in 1 .. Len(d[n + 1])
    PROVE  /\ Start(d, n) + j \in 1 .. Len(FlattenSeq(d))
           /\ FlattenSeq(d)[Start(d, n) + j] = d[n + 1][j]
  <1> DEFINE m == Len(d)
  <1>0. d \in Seq(Seq(LineType)) /\ m \in Nat /\ m \in 0 .. m
    BY DEF Designs
  <1>1. Prefix(d, m) = FlattenSeq(d)
    BY <1>0, PrefixSteps
  <1>2. /\ n + 1 \in 0 .. m /\ n + 1 <= m /\ Start(d, n) \in Nat
        /\ Start(d, n + 1) = Start(d, n) + Len(d[n + 1]) /\ Len(d[n + 1]) \in Nat
        /\ Prefix(d, n + 1)[Start(d, n) + j] = d[n + 1][j]
    <2>1. n + 1 <= m
      BY <1>0
    <2> HIDE DEF m
    <2>2. /\ n + 1 \in 0 .. Len(d) /\ Start(d, n) \in Nat
          /\ Start(d, n + 1) = Start(d, n) + Len(d[n + 1]) /\ Len(d[n + 1]) \in Nat \ {0}
          /\ \A i \in 1 .. Len(d[n + 1]) : Prefix(d, n + 1)[Start(d, n) + i] = d[n + 1][i]
      BY StartSteps
    <2> QED BY <2>1, <2>2 DEF m
  <1>3. Start(d, n) + j \in 1 .. Start(d, n + 1)
    BY <1>2
  <1> HIDE DEF m
  <1>4. /\ Start(d, n + 1) <= Start(d, m) /\ Start(d, m) \in Nat /\ Start(d, n + 1) \in Nat
        /\ \A i \in 1 .. Start(d, n + 1) : Prefix(d, m)[i] = Prefix(d, n + 1)[i]
    BY <1>0, <1>2, StartGrows DEF m
  <1>5. Start(d, n) + j \in 1 .. Start(d, m)
    BY <1>2, <1>3, <1>4
  <1>6. Prefix(d, m)[Start(d, n) + j] = d[n + 1][j]
    BY <1>2, <1>3, <1>4
  <1> QED BY <1>1, <1>5, <1>6 DEF Start, m

-----------------------------------------------------------------------------
\* The place in a file that has been read.

WellFormed == \A f \in Files : IsDesign(design[f])

\* The loop that reads a statement, whichever loop within it reads the next line.
Loop(loop) == IF loop \in NetLoops THEN "net" ELSE loop

\* None of the first n statements of a file is too long, but where the file is cut off.
NoneTooLong(f, n) ==
    \A i \in 1 .. n : TooLong(design[f][i][1]) =>
                         cut.file = f /\ cut.kept = Start(design[f], i)

\* The first n statements have been read, and j lines of the next.
Place(n, j) ==
    LET d == design[phase]
        s == d[n + 1]
    IN  /\ n \in 0 .. Len(d) /\ j \in Nat /\ pos = Start(d, n) + j
        /\ NoneTooLong(phase, n)
        /\ inside = "top" => j = 0
        /\ inside # "top" =>
              /\ n < Len(d) /\ j \in 1 .. Len(s) /\ Loop(inside) = s[1].first
              /\ ~AtEnd \/ cut.file # phase => j < Len(s)
              /\ ~AtEnd => ~TooLong(s[1])
              /\ ~AtEnd /\ inside \in {"outpin", "inpin"} => s[j + 1].first = "text"
              /\ AtEnd /\ eof => ~Closes(inside, temp)

\* Where reading a file ends: at its end, or before a line that does not fit.
EndsAt(f, n) ==
    LET d == design[f]
    IN  /\ n \in 0 .. Len(d)
        /\ NoneTooLong(f, n)
        /\ \/ cut.file = f /\ cut.kept = Start(d, n)
           \/ cut.file # f /\ n = Len(d)
           \/ n < Len(d) /\ TooLong(d[n + 1][1]) /\ (cut.file = f => Start(d, n) < cut.kept)

LEMMA FileIsDesign ==
    ASSUME InputTypes, NEW f \in Files
    PROVE  /\ design[f] \in Designs /\ Lines(f) = FlattenSeq(design[f])
           /\ File(f) \in Seq(LineType) /\ Lines(f) \in Seq(LineType)
           /\ Len(File(f)) <= Len(Lines(f))
           /\ \A i \in 1 .. Len(File(f)) : /\ File(f)[i] \in {Lines(f)[i], LastLine(Lines(f)[i])}
                                           /\ i # Len(File(f)) => File(f)[i] = Lines(f)[i]
           /\ cut.file = f => Len(File(f)) = cut.kept
           /\ cut.file # f => File(f) = Lines(f)
  <1>1. design[f] \in Designs /\ Lines(f) = FlattenSeq(design[f]) /\ Lines(f) \in Seq(LineType)
    BY ClockMergeAssumption DEF InputTypes, Files, Lines, Designs
  <1>2. File(f) \in Seq(LineType)
    BY LinesOfFile
  <1>3. CASE cut.file # f
    BY <1>1, <1>2, <1>3 DEF File
  <1>4. CASE cut.file = f
    <2> DEFINE lines == Lines(f)
               Kept(i) == IF i = cut.kept THEN LastLine(lines[i]) ELSE lines[i]
    <2>1. cut.kept \in 1 .. Len(lines)
      <3>1. f # "none"
        BY DEF Files
      <3> QED BY <1>4, <3>1 DEF InputTypes, NotCut
    <2>2. File(f) = [i \in 1 .. cut.kept |-> Kept(i)]
      BY <1>4 DEF File
    <2>3. lines \in Seq(LineType)
      BY <1>1
    <2>4. \A i : /\ Kept(i) \in {lines[i], LastLine(lines[i])}
                 /\ i # cut.kept => Kept(i) = lines[i]
      OBVIOUS
    <2> HIDE DEF Kept, lines
    <2>5. cut.kept \in Nat /\ cut.kept <= Len(lines) /\ Len(File(f)) = cut.kept
      BY <2>1, <2>2, <2>3
    <2> QED BY <1>1, <1>2, <1>4, <2>2, <2>4, <2>5 DEF lines
  <1> QED BY <1>3, <1>4

\* What is left of a line has its first token, and closes no more than the line would.
LEMMA LastLineOpens ==
    ASSUME NEW line \in LineType
    PROVE  /\ LastLine(line).first = line.first
           /\ TooLong(LastLine(line)) => LastLine(line) = line
           /\ \A loop : Closes(loop, LastLine(line)) => Closes(loop, line)
  <1>1. CASE LastLine(line) = line
    BY <1>1
  <1>2. CASE LastLine(line) # line
    <2> DEFINE says == IF line.first = "text" THEN line.says ELSE Blank.says
               rest == [Blank EXCEPT !.first = line.first, !.says = says]
    <2>1. LastLine(line) = rest
      BY <1>2 DEF LastLine
    <2>2. rest.first = line.first /\ rest.rest = {} /\ rest.long = FALSE
      BY DEF Blank
    <2> HIDE DEF rest
    <2>3. \A token : HasToken(rest, token) => HasToken(line, token)
      BY <2>2 DEF HasToken
    <2>4. \A loop : Closes(loop, rest) => Closes(loop, line)
      BY <2>2, <2>3 DEF Closes
    <2> QED BY <2>1, <2>2, <2>4 DEF TooLong
  <1> QED BY <1>1, <1>2

LEMMA LoopsCloseStatements ==
    ASSUME NEW kind \in {"design", "module", "inst", "net"}
    PROVE  \A line : Ends(kind, line) <=> Closes(kind, line)
  BY DEF Ends, Closes

LEMMA BlankClosesNothing == \A loop : ~Closes(loop, Blank)
  BY DEF Closes, HasToken, Blank

LEMMA LoopsClose ==
    ASSUME NEW loop \in Loops, NEW line
    PROVE  Closes(loop, line) <=> Closes(Loop(loop), line)
  BY DEF Loops, NetLoops, Loop, Closes

\* The next line, if there is one, is the next line of the statement, or what is left of it.
LEMMA NextInPlace ==
    ASSUME TypeOK, Reading, ~AtEnd, NEW n, NEW j, Place(n, j)
    PROVE  LET d    == design[phase]
               line == d[n + 1][j + 1]
           IN  /\ n \in 0 .. Len(d) - 1 /\ j \in 0 .. Len(d[n + 1]) - 1
               /\ line \in LineType
               /\ NextLine.first = line.first
               /\ TooLong(NextLine) => TooLong(line)
               /\ \A loop : Closes(loop, NextLine) => Closes(loop, line)
               /\ pos + 1 # Len(File(phase)) => NextLine = line
               /\ cut.file # phase => NextLine = line
  <1> DEFINE d == design[phase]
             f == phase
             file == File(phase)
  <1>0. f \in Files /\ InputTypes /\ pos \in Nat /\ pos <= Len(file) /\ pos # Len(file)
    BY DEF Reading, TypeOK, ReaderTypes, AtEnd
  <1>1. /\ d \in Designs /\ Lines(f) = FlattenSeq(d)
        /\ file \in Seq(LineType) /\ Lines(f) \in Seq(LineType) /\ Len(file) <= Len(Lines(f))
        /\ \A i \in 1 .. Len(file) : /\ file[i] \in {Lines(f)[i], LastLine(Lines(f)[i])}
                                     /\ i # Len(file) => file[i] = Lines(f)[i]
        /\ cut.file # f => file = Lines(f)
    BY <1>0, FileIsDesign
  <1>2. NextLine = file[pos + 1]
    BY DEF NextLine
  <1>3. /\ n \in 0 .. Len(d) /\ j \in Nat /\ pos = Start(d, n) + j
        /\ IF inside = "top" THEN j = 0 ELSE n < Len(d) /\ j < Len(d[n + 1])
    BY DEF Place
  <1> HIDE DEF f, file
  <1>4. Len(file) \in Nat /\ pos + 1 \in 1 .. Len(file) /\ Len(Lines(f)) \in Nat /\ Len(d) \in Nat
    BY <1>0, <1>1 DEF Designs
  <1>5. n \in 0 .. Len(d) - 1
    <2>1. CASE n = Len(d)
      <3>1. inside = "top" /\ j = 0
        BY <1>3, <1>4, <2>1
      <3>2. Start(d, n) = Len(Lines(f))
        <4>1. Prefix(d, Len(d)) = FlattenSeq(d)
          <5>1. d \in Seq(Seq(LineType))
            BY <1>1 DEF Designs
          <5> QED BY <5>1, PrefixSteps
        <4> QED BY <1>1, <2>1, <4>1 DEF Start
      <3> QED BY <1>0, <1>1, <1>3, <1>4, <3>1, <3>2
    <2> QED BY <1>3, <1>4, <2>1
  <1>6. d[n + 1] \in Seq(LineType) /\ Len(d[n + 1]) \in Nat \ {0}
    BY <1>1, <1>5, StartSteps
  <1>7. j \in 0 .. Len(d[n + 1]) - 1 /\ j + 1 \in 1 .. Len(d[n + 1])
    BY <1>3, <1>6
  <1> DEFINE line == d[n + 1][j + 1]
  <1>8. line \in LineType
    BY <1>6, <1>7
  <1>9. Lines(f)[pos + 1] = line
    <2>1. FlattenSeq(d)[Start(d, n) + (j + 1)] = line
      BY <1>1, <1>5, <1>7, LineOfStatement
    <2>2. Start(d, n) \in Nat /\ Start(d, n) + (j + 1) = pos + 1
      BY <1>1, <1>3, PrefixIsLines
    <2> QED BY <1>1, <2>1, <2>2
  <1> HIDE DEF line
  <1>10. /\ NextLine \in {line, LastLine(line)}
         /\ pos + 1 # Len(file) => NextLine = line
         /\ cut.file # f => NextLine = line
    BY <1>1, <1>2, <1>4, <1>9
  <1>11. /\ NextLine.first = line.first
         /\ TooLong(NextLine) => TooLong(line)
         /\ \A loop : Closes(loop, NextLine) => Closes(loop, line)
    BY <1>8, <1>10, LastLineOpens
  <1> QED BY <1>5, <1>7, <1>8, <1>10, <1>11 DEF f, file, line

\* A whole file does not end within a statement.
LEMMA WholeGoesOn ==
    ASSUME TypeOK, Reading, inside # "top", cut.file # phase, NEW n, NEW j, Place(n, j)
    PROVE  ~AtEnd
  <1> DEFINE d == design[phase]
             m == Len(d)
  <1>1. n \in 0 .. m /\ n < m /\ j \in 1 .. Len(d[n + 1]) /\ j < Len(d[n + 1]) /\ pos = Start(d, n) + j
    BY DEF Place
  <1>2. d \in Designs /\ File(phase) = FlattenSeq(d)
    BY FileIsDesign DEF TypeOK, Reading
  <1>3. m \in Nat /\ m \in 0 .. m /\ n \in 0 .. m - 1 /\ d \in Seq(Seq(LineType))
    BY <1>1, <1>2 DEF Designs
  <1>4. Len(FlattenSeq(d)) = Start(d, m)
    BY <1>3, PrefixSteps DEF Start
  <1>5. /\ n + 1 \in 0 .. m /\ Start(d, n) \in Nat /\ Len(d[n + 1]) \in Nat
        /\ Start(d, n + 1) = Start(d, n) + Len(d[n + 1])
    BY <1>2, <1>3, StartSteps
  <1>6. Start(d, n + 1) <= Start(d, m) /\ Start(d, m) \in Nat
    <2>1. n + 1 <= m
      BY <1>3
    <2> QED BY <1>2, <1>3, <1>5, <2>1, StartGrows
  <1> HIDE DEF d, m
  <1>7. pos < Start(d, m)
    BY <1>1, <1>5, <1>6
  <1> QED BY <1>2, <1>4, <1>6, <1>7 DEF AtEnd

\* What a turn does to the place: one line on, unless the file is at its end.
LEMMA TurnMoves ==
    ASSUME TypeOK, Reading, GetLine, KeepMerging
    PROVE  /\ phase' = phase /\ design' = design /\ cut' = cut /\ clkNetNames' = clkNetNames
           /\ temp' = NextLine /\ pos' = (IF AtEnd THEN pos ELSE pos + 1)
           /\ AtEnd' <=> pos' = Len(File(phase))
           /\ AtEnd => AtEnd' /\ NextLine = IF eof THEN temp ELSE Blank
           /\ \A n : NoneTooLong(phase, n) => NoneTooLong(phase, n)'
           /\ Reading'
  <1>1. /\ phase' = phase /\ design' = design /\ cut' = cut /\ clkNetNames' = clkNetNames
        /\ temp' = NextLine /\ pos' = (IF AtEnd THEN pos ELSE pos + 1)
    BY DEF GetLine, KeepMerging, input
  <1>2. File(phase)' = File(phase)
    BY <1>1 DEF File, Lines, LastLine
  <1>3. AtEnd' <=> pos' = Len(File(phase))
    BY <1>2 DEF AtEnd
  <1>4. AtEnd => AtEnd' /\ NextLine = IF eof THEN temp ELSE Blank
    BY <1>1, <1>3 DEF AtEnd, NextLine
  <1>5. \A n : NoneTooLong(phase, n) => NoneTooLong(phase, n)'
    BY <1>1 DEF NoneTooLong
  <1> QED BY <1>1, <1>3, <1>4, <1>5 DEF Reading

\* No loop ends at the end of a file.
LEMMA NothingClosesAtEnd ==
    ASSUME TypeOK, Reading, AtEnd, inside # "top", NEW n, NEW j, Place(n, j)
    PROVE  ~Closes(inside, NextLine) /\ (NextLine # Blank => eof)
  <1>1. NextLine = IF eof THEN temp ELSE Blank
    BY DEF AtEnd, NextLine
  <1>2. eof => ~Closes(inside, temp)
    BY DEF Place
  <1> QED BY <1>1, <1>2, BlankClosesNothing

LEMMA StatementInPlace ==
    ASSUME TypeOK, WellFormed, Reading, NEW n \in 0 .. Len(design[phase]) - 1
    PROVE  LET s == design[phase][n + 1]
           IN  IsStatement(s) /\ s \in Seq(LineType) /\ Len(s) \in Nat \ {0} /\ s[1] \in LineType
  <1>1. design[phase] \in Designs /\ phase \in Files
    BY FileIsDesign DEF TypeOK, Reading
  <1> DEFINE s == design[phase][n + 1]
  <1>2. s \in Seq(LineType) /\ Len(s) \in Nat \ {0} /\ n + 1 \in DOMAIN design[phase]
    BY <1>1, StartSteps
  <1>3. IsStatement(s)
    BY <1>1, <1>2 DEF WellFormed, IsDesign
  <1> HIDE DEF s
  <1>4. s[1] \in LineType
    BY <1>2
  <1> QED BY <1>2, <1>3, <1>4 DEF s

\* A turn at the end of a file goes over the last line again.
LEMMA TurnAtEnd ==
    ASSUME TypeOK, Reading, AtEnd, inside # "top", NEW n, NEW j, Place(n, j),
           GetLine, KeepMerging, inside \in Loops, inside' \in Loops,
           Loop(inside') = Loop(inside), inside' # "top"
    PROVE  Place(n, j)'
  <1>1. /\ phase' = phase /\ design' = design /\ cut' = cut /\ pos' = pos /\ AtEnd'
        /\ temp' = NextLine
        /\ NoneTooLong(phase, n) => NoneTooLong(phase, n)'
    BY TurnMoves
  <1>2. ~Closes(inside', temp')
    BY <1>1, NothingClosesAtEnd, LoopsClose
  <1> QED BY <1>1, <1>2 DEF Place

\* A turn that reads a line of the statement, not the last.
LEMMA TurnInside ==
    ASSUME TypeOK, WellFormed, Reading, ~AtEnd, inside # "top", NEW n, NEW j, Place(n, j),
           GetLine, KeepMerging, inside \in Loops, inside' \in Loops,
           Loop(inside') = Loop(inside), inside' # "top", ~Closes(inside, NextLine),
           inside' \in {"outpin", "inpin"} => Wraps(NextLine)
    PROVE  Place(n, j + 1)'
  <1> DEFINE d    == design[phase]
             s    == d[n + 1]
             line == s[j + 1]
  <1>1. /\ phase' = phase /\ design' = design /\ cut' = cut /\ pos' = pos + 1 /\ temp' = NextLine
        /\ AtEnd' <=> pos + 1 = Len(File(phase))
        /\ NoneTooLong(phase, n) => NoneTooLong(phase, n)'
    BY TurnMoves
  <1>2. /\ n \in 0 .. Len(d) - 1 /\ j \in 0 .. Len(s) - 1
        /\ pos + 1 # Len(File(phase)) \/ cut.file # phase => NextLine = line
    BY NextInPlace
  <1>3. /\ n \in 0 .. Len(d) /\ j \in Nat /\ pos = Start(d, n) + j /\ NoneTooLong(phase, n)
        /\ Loop(inside) = s[1].first /\ ~TooLong(s[1]) /\ j \in 1 .. Len(s) /\ n < Len(d)
    BY DEF Place
  <1>4. IsStatement(s) /\ Len(s) \in Nat
    BY <1>2, StatementInPlace
  <1>5. Loop(inside) \in {"design", "module", "inst", "net"} /\ (inside' \in NetLoops => Loop(inside) = "net")
    BY DEF Loop, Loops, NetLoops
  <1>6. /\ \A i \in 1 .. Len(s) : Closes(Loop(inside), s[i]) <=> i = Len(s)
        /\ Loop(inside) = "net" =>
              \A i \in 1 .. Len(s) - 1 : Wraps(s[i]) => s[i + 1].first = "text"
    BY <1>3, <1>4, <1>5, LoopsCloseStatements DEF IsStatement
  <1>7. design[phase] \in Designs
    BY FileIsDesign DEF TypeOK, Reading
  <1>8. Start(d, n) \in Nat
    BY <1>3, <1>7, PrefixIsLines
  <1> HIDE DEF d, s, line
  <1>9. j + 1 \in 1 .. Len(s) /\ pos + 1 = Start(d, n) + (j + 1) /\ j + 1 \in Nat
    BY <1>2, <1>3, <1>4, <1>8
  <1>10. ~Closes(Loop(inside), NextLine) /\ ~Closes(inside', NextLine)
    BY LoopsClose
  <1>11. ~AtEnd' \/ cut.file # phase => j + 1 < Len(s)
    <2> SUFFICES ASSUME ~AtEnd' \/ cut.file # phase
                 PROVE  j + 1 # Len(s)
      BY <1>2, <1>4, <1>9
    <2>1. NextLine = line
      BY <1>1, <1>2
    <2> QED BY <1>6, <1>9, <1>10, <2>1 DEF line
  <1>12. ~AtEnd' /\ inside' \in {"outpin", "inpin"} => s[(j + 1) + 1].first = "text"
    <2> SUFFICES ASSUME ~AtEnd', inside' \in {"outpin", "inpin"}
                 PROVE  s[(j + 1) + 1].first = "text"
      OBVIOUS
    <2>1. NextLine = line /\ Wraps(NextLine) /\ Loop(inside) = "net"
      BY <1>1, <1>2, <1>5 DEF NetLoops
    <2>2. j + 1 \in 1 .. Len(s) - 1
      BY <1>9, <1>11, <1>4
    <2> QED BY <1>6, <2>1, <2>2 DEF line
  <1>13. n < Len(d) /\ n \in 0 .. Len(d)
    BY <1>3
  <1> QED BY <1>1, <1>3, <1>9, <1>10, <1>11, <1>12, <1>13 DEF Place, d, s

\* A turn that reads the last line.
LEMMA TurnCloses ==
    ASSUME TypeOK, WellFormed, Reading, inside # "top", NEW n, NEW j, Place(n, j),
           GetLine, KeepMerging, inside \in Loops, inside' = "top", Closes(inside, NextLine)
    PROVE  /\ Place(n + 1, 0)' /\ ~AtEnd
           /\ n \in 0 .. Len(design[phase]) - 1 /\ j + 1 = Len(design[phase][n + 1])
  <1> DEFINE d == design[phase]
             s == d[n + 1]
  <1>1. ~AtEnd
    BY NothingClosesAtEnd
  <1>2. /\ phase' = phase /\ design' = design /\ cut' = cut /\ pos' = pos + 1
    BY <1>1, TurnMoves
  <1>3. /\ n \in 0 .. Len(d) - 1 /\ j \in 0 .. Len(s) - 1
        /\ \A loop : Closes(loop, NextLine) => Closes(loop, s[j + 1])
    BY <1>1, NextInPlace
  <1>4. /\ pos = Start(d, n) + j /\ NoneTooLong(phase, n)
        /\ Loop(inside) = s[1].first /\ ~TooLong(s[1])
    BY <1>1 DEF Place
  <1>5. IsStatement(s) /\ Len(s) \in Nat
    BY <1>3, StatementInPlace
  <1>6. Loop(inside) \in {"design", "module", "inst", "net"}
    BY DEF Loop, Loops, NetLoops
  <1>7. \A i \in 1 .. Len(s) : Closes(Loop(inside), s[i]) <=> i = Len(s)
    BY <1>4, <1>5, <1>6, LoopsCloseStatements DEF IsStatement
  <1>8. design[phase] \in Designs
    BY FileIsDesign DEF TypeOK, Reading
  <1>9. n + 1 \in 0 .. Len(d) /\ Start(d, n) \in Nat /\ Start(d, n + 1) = Start(d, n) + Len(s)
    BY <1>3, <1>8, StartSteps
  <1> HIDE DEF d, s
  <1>10. j + 1 = Len(s)
    <2>1. j + 1 \in 1 .. Len(s)
      BY <1>3, <1>5
    <2>2. Closes(Loop(inside), s[j + 1])
      BY <1>3, LoopsClose
    <2> QED BY <1>7, <2>1, <2>2
  <1>11. pos + 1 = Start(d, n + 1) + 0
    BY <1>3, <1>4, <1>5, <1>9, <1>10
  <1>12. NoneTooLong(phase, n + 1)
    <2>1. \A i \in 1 .. n + 1 : i \in 1 .. n \/ i = n + 1
      BY <1>3
    <2> QED BY <1>4, <2>1 DEF NoneTooLong, d, s
  <1>13. NoneTooLong(phase, n + 1)'
    BY <1>2, <1>12 DEF NoneTooLong
  <1>14. Place(n + 1, 0)'
    BY <1>2, <1>9, <1>11, <1>13 DEF Place, d
  <1> QED BY <1>1, <1>3, <1>10, <1>14 DEF d, s

\* The first line of a statement with a loop of its own, and a line that has none.
LEMMA TurnOpens ==
    ASSUME TypeOK, WellFormed, Reading, ~AtEnd, inside = "top", NEW n, NEW j, Place(n, j),
           ~TooLong(NextLine), GetLine, KeepMerging
    PROVE  /\ n \in 0 .. Len(design[phase]) - 1 /\ j = 0
           /\ NextLine.first = design[phase][n + 1][1].first
           /\ cut.file # phase => NextLine = design[phase][n + 1][1]
           /\ NextLine.first \in {"design", "module", "inst", "net"} /\ inside' = NextLine.first
                 => Place(n, 1)'
           /\ NextLine.first \notin {"design", "module", "inst", "net"} /\ inside' = inside
                 => Place(n + 1, 0)'
  <1> DEFINE d == design[phase]
             s == d[n + 1]
  <1>1. /\ phase' = phase /\ design' = design /\ cut' = cut /\ pos' = pos + 1 /\ temp' = NextLine
        /\ AtEnd' <=> pos + 1 = Len(File(phase))
    BY TurnMoves
  <1>2. /\ n \in 0 .. Len(d) - 1
        /\ NextLine.first = s[j + 1].first
        /\ \A loop : Closes(loop, NextLine) => Closes(loop, s[j + 1])
        /\ pos + 1 # Len(File(phase)) => NextLine = s[j + 1]
        /\ cut.file # phase => NextLine = s[j + 1]
    BY NextInPlace
  <1>3. pos = Start(d, n) + j /\ NoneTooLong(phase, n) /\ j = 0
    BY DEF Place
  <1>4. IsStatement(s) /\ Len(s) \in Nat \ {0}
    BY <1>2, StatementInPlace
  <1>5. design[phase] \in Designs /\ phase \in Files
    BY FileIsDesign DEF TypeOK, Reading
  <1>6. /\ n + 1 \in 0 .. Len(d) /\ n \in 0 .. Len(d) /\ Len(d) \in Nat
        /\ Start(d, n) \in Nat /\ Start(d, n + 1) = Start(d, n) + Len(s)
    <2>1. Len(d) \in Nat
      BY <1>5 DEF Designs
    <2> QED BY <1>2, <1>5, <2>1, StartSteps
  <1> HIDE DEF d, s
  <1>7. j + 1 = 1 /\ pos + 1 = Start(d, n) + 1
    BY <1>3, <1>6
  <1>8. ASSUME NextLine.first \in {"design", "module", "inst", "net"}, inside' = NextLine.first
        PROVE  Place(n, 1)'
    <2>1. inside' = s[1].first /\ inside' = Loop(inside') /\ inside' \notin {"outpin", "inpin", "top"}
      BY <1>2, <1>7, <1>8 DEF Loop, NetLoops
    <2>2. 1 < Len(s) /\ ~Closes(inside', s[1])
      <3>1. s[1].first \in {"design", "module", "inst", "net"}
        BY <1>2, <1>7, <1>8
      <3>2. Len(s) > 1 /\ \A i \in 1 .. Len(s) : Closes(s[1].first, s[i]) <=> i = Len(s)
        BY <1>4, <3>1, LoopsCloseStatements DEF IsStatement
      <3>3. 1 \in 1 .. Len(s) /\ 1 # Len(s)
        BY <1>4, <3>2
      <3> QED BY <1>4, <2>1, <3>2, <3>3
    <2>3. ~Closes(inside', NextLine)
      BY <1>2, <1>7, <2>2
    <2>4. ~AtEnd' => ~TooLong(s[1])
      BY <1>1, <1>2, <1>7
    <2>5. n < Len(d) /\ 1 \in 1 .. Len(s) /\ 1 \in Nat
      BY <1>2, <1>4, <1>6
    <2>6. NoneTooLong(phase, n)'
      BY <1>1, <1>3 DEF NoneTooLong
    <2> QED BY <1>1, <1>6, <1>7, <2>1, <2>2, <2>3, <2>4, <2>5, <2>6 DEF Place, d, s
  <1>9. ASSUME NextLine.first \notin {"design", "module", "inst", "net"}, inside' = inside
        PROVE  Place(n + 1, 0)'
    <2>1. Len(s) = 1
      BY <1>2, <1>4, <1>7, <1>9 DEF IsStatement
    <2>2. pos + 1 = Start(d, n + 1) + 0 /\ 0 \in Nat
      BY <1>3, <1>6, <2>1
    <2>3. NoneTooLong(phase, n + 1)
      <3>1. \A i \in 1 .. n + 1 : i \in 1 .. n \/ i = n + 1
        BY <1>2, <1>6
      <3>2. TooLong(d[n + 1][1]) => cut.file = phase /\ cut.kept = Start(d, n + 1)
        <4> SUFFICES ASSUME TooLong(s[1])
                     PROVE  cut.file = phase /\ cut.kept = Start(d, n + 1)
          BY DEF s
        <4>1. NextLine # s[1]
          OBVIOUS
        <4>2. cut.file = phase /\ pos + 1 = Len(File(phase))
          BY <1>2, <1>7, <4>1
        <4>3. Len(File(phase)) = cut.kept
          BY <1>5, <4>2, FileIsDesign DEF TypeOK
        <4> QED BY <1>6, <2>2, <4>2, <4>3
      <3> QED BY <1>3, <3>1, <3>2 DEF NoneTooLong, d
    <2>4. NoneTooLong(phase, n + 1)'
      BY <1>1, <2>3 DEF NoneTooLong
    <2> QED BY <1>1, <1>6, <1>9, <2>2, <2>4 DEF Place, d
  <1> QED BY <1>2, <1>3, <1>7, <1>8, <1>9 DEF d, s

\* The end of a file.
LEMMA ReadingEnds ==
    ASSUME TypeOK, EndOfFile, NEW n, NEW j, Place(n, j)
    PROVE  EndsAt(phase, n) /\ j = 0
  <1> DEFINE f == phase
             d == design[phase]
  <1>1. /\ Reading /\ inside = "top" /\ (AtEnd \/ TooLong(NextLine))
    BY DEF EndOfFile
  <1>2. n \in 0 .. Len(d) /\ pos = Start(d, n) + j /\ NoneTooLong(f, n) /\ j = 0
    BY <1>1 DEF Place
  <1>3. /\ d \in Designs /\ Lines(f) = FlattenSeq(d) /\ f \in Files
        /\ cut.file = f => Len(File(f)) = cut.kept
        /\ cut.file # f => File(f) = Lines(f)
        /\ File(f) \in Seq(LineType)
    BY <1>1, FileIsDesign DEF TypeOK, Reading
  <1>4. Len(d) \in Nat /\ Len(d) \in 0 .. Len(d) /\ Start(d, n) \in Nat /\ pos = Start(d, n)
    BY <1>2, <1>3, PrefixIsLines DEF Designs
  <1>5. CASE AtEnd
    <2>1. pos = Len(File(f))
      BY <1>5 DEF AtEnd
    <2>2. CASE cut.file = f
      <3>1. cut.kept = Start(d, n)
        BY <1>3, <1>4, <2>1, <2>2
      <3> QED BY <1>2, <2>2, <3>1 DEF EndsAt
    <2>3. CASE cut.file # f
      <3>1. Start(d, n) = Start(d, Len(d))
        <4>1. Prefix(d, Len(d)) = FlattenSeq(d)
          <5>1. d \in Seq(Seq(LineType))
            BY <1>3 DEF Designs
          <5> QED BY <5>1, PrefixSteps
        <4> QED BY <1>3, <1>4, <2>1, <2>3, <4>1 DEF Start
      <3>2. ~(n < Len(d))
        <4> SUFFICES ASSUME n < Len(d)
                     PROVE  FALSE
          OBVIOUS
        <4>1. n <= Len(d)
          BY <1>2, <1>4
        <4>2. Start(d, n) < Start(d, Len(d))
          BY <1>2, <1>3, <1>4, <4>1, StartGrows
        <4> QED BY <1>4, <3>1, <4>2
      <3>3. n = Len(d)
        BY <1>2, <1>4, <3>2
      <3> QED BY <1>2, <2>3, <3>3 DEF EndsAt
    <2> QED BY <2>2, <2>3
  <1>6. CASE ~AtEnd
    <2>1. /\ n \in 0 .. Len(d) - 1 /\ (TooLong(NextLine) => TooLong(d[n + 1][j + 1]))
      BY <1>1, <1>6, NextInPlace
    <2>2. n < Len(d) /\ TooLong(d[n + 1][1])
      BY <1>1, <1>2, <1>4, <1>6, <2>1
    <2>3. cut.file = f => Start(d, n) < cut.kept
      <3>1. pos < Len(File(f))
        <4>1. Len(File(f)) \in Nat /\ pos <= Len(File(f)) /\ pos # Len(File(f)) /\ pos \in Nat
          BY <1>1, <1>3, <1>6 DEF TypeOK, ReaderTypes, AtEnd
        <4> QED BY <4>1
      <3> QED BY <1>3, <1>4, <3>1
    <2> QED BY <1>2, <2>2, <2>3 DEF EndsAt
  <1> QED BY <1>2, <1>5, <1>6

\* The statements of a file that is whole are those that have been read at its end.
LEMMA StatementsRead ==
    ASSUME InputTypes, NEW f \in Files, NEW n, EndsAt(f, n),
           cut.file = f => cut.kept # Start(design[f], n)
    PROVE  /\ Statements(f) = SubSeq(design[f], 1, n)
           /\ cut.file = f => TooLongAt(f) # {} /\ cut.kept > Start(design[f], n)
  <1> DEFINE d == design[f]
  <1>1. d \in Designs /\ Len(d) \in Nat /\ DOMAIN d = 1 .. Len(d) /\ SubSeq(d, 1, Len(d)) = d
    BY FileIsDesign DEF Designs
  <1>2. n \in 0 .. Len(d) /\ NoneTooLong(f, n)
    BY DEF EndsAt
  <1>3. \A i \in 1 .. n : ~TooLong(d[i][1])
    <2> SUFFICES ASSUME NEW i \in 1 .. n, TooLong(d[i][1])
                 PROVE  FALSE
      OBVIOUS
    <2>1. cut.file = f /\ cut.kept = Start(d, i)
      BY <1>2 DEF NoneTooLong
    <2>2. i \in 0 .. Len(d) /\ i <= n /\ (i = n \/ i < n)
      BY <1>1, <1>2
    <2>3. Start(d, i) <= Start(d, n) /\ Start(d, i) \in Nat /\ Start(d, n) \in Nat
      BY <1>1, <1>2, <2>2, StartGrows
    <2>4. cut.kept # Start(d, n) /\ cut.kept > Start(d, n)
      <3>1. cut.kept # Start(d, n)
        BY <2>1
      <3>2. Start(d, n) < cut.kept
        BY <2>1, <3>1 DEF EndsAt
      <3> QED BY <2>1, <2>3, <3>1, <3>2
    <2> QED BY <2>1, <2>3, <2>4
  <1>4. CASE n = Len(d) /\ cut.file # f
    <2>1. TooLongAt(f) = {}
      BY <1>1, <1>3, <1>4 DEF TooLongAt
    <2> QED BY <1>4, <2>1 DEF Statements
  <1>5. CASE n < Len(d) /\ TooLong(d[n + 1][1]) /\ (cut.file = f => Start(d, n) < cut.kept)
    <2>1. n + 1 \in TooLongAt(f) /\ \A i \in TooLongAt(f) : n + 1 <= i
      <3>1. n + 1 \in DOMAIN d
        BY <1>1, <1>2, <1>5
      <3>2. \A i \in DOMAIN d : i \in 1 .. n \/ n + 1 <= i
        BY <1>1, <1>2
      <3> QED BY <1>3, <1>5, <3>1, <3>2 DEF TooLongAt
    <2>2. \A i, k \in TooLongAt(f) : i <= k /\ k <= i => i = k
      BY <1>1 DEF TooLongAt
    <2>3. Min(TooLongAt(f)) = n + 1
      BY <2>1, <2>2 DEF Min
    <2>4. Statements(f) = SubSeq(d, 1, n)
      <3>1. (n + 1) - 1 = n /\ TooLongAt(f) # {}
        BY <1>2, <2>1
      <3> QED BY <2>3, <3>1 DEF Statements
    <2>5. cut.file = f => cut.kept > Start(d, n)
      <3>1. Start(d, n) \in Nat
        BY <1>1, <1>2, PrefixIsLines
      <3>2. cut.file = f => cut.kept \in Int
        <4>1. cut.file = f => cut.kept = Len(File(f)) /\ File(f) \in Seq(LineType)
          BY FileIsDesign
        <4> QED BY <4>1
      <3> QED BY <1>5, <3>1, <3>2
    <2> QED BY <2>1, <2>4, <2>5
  <1> QED BY <1>4, <1>5 DEF EndsAt

\* What CutIsNotMerged says of one file.
LEMMA CutAtTheEnd ==
    ASSUME InputTypes, cut.file \in Files, NEW n, EndsAt(cut.file, n)
    PROVE  \/ cut.kept \in StatementEnds(cut.file)
           \/ TooLongAt(cut.file) # {} /\ cut.kept > Len(FlattenSeq(Statements(cut.file)))
  <1> DEFINE f == cut.file
             d == design[f]
  <1>1. n \in 0 .. Len(d)
    BY DEF EndsAt
  <1>2. CASE cut.kept = Start(d, n)
    BY <1>1, <1>2 DEF StatementEnds, Start, Prefix
  <1>3. CASE cut.kept # Start(d, n)
    <2>1. Statements(f) = SubSeq(d, 1, n) /\ TooLongAt(f) # {} /\ cut.kept > Start(d, n)
      BY <1>3, StatementsRead
    <2> QED BY <2>1 DEF Start, Prefix
  <1> QED BY <1>2, <1>3

-----------------------------------------------------------------------------
\* What has been read of a design.

\* The nets and the text of its first n statements, and of j lines of the next.
NetsOf(d, n)  == Selected(SubSeq(d, 1, n), NetsIn(d))
NamesOf(d, n) == [i \in DOMAIN NetsOf(d, n) |-> NetsOf(d, n)[i][1].says]
TextOf(d, n)  == FlattenSeq(Selected(SubSeq(d, 1, n), TextsIn(d)))

NameBegun(d, n, j) == IF j > 0 /\ d[n + 1] \in NetsIn(d) THEN <<d[n + 1][1].says>> ELSE <<>>
TextBegun(d, n, j) == IF j > 0 /\ d[n + 1] \in TextsIn(d) THEN SubSeq(d[n + 1], 1, j) ELSE <<>>

ListNames(list) == [i \in DOMAIN list.netList |-> list.netList[i].name]
Findable(list)  == {list.netList[i].name : i \in list.netToPip}

\* They are in the list, and the names of the nets that are complete can be found.
Holds(list, d, n, j) ==
    /\ list.text = TextOf(d, n) \o TextBegun(d, n, j)
    /\ ListNames(list) = NamesOf(d, n) \o NameBegun(d, n, j)
    /\ Findable(list) = Range(NamesOf(d, n))

LEMMA NamesOfList ==
    ASSUME NEW list, IsNetList(list)
    PROVE  /\ ListNames(list) \in Seq(Text) /\ Len(ListNames(list)) = Len(list.netList)
           /\ \A i \in 1 .. Len(list.netList) : ListNames(list)[i] = list.netList[i].name
           /\ \A name : FindNet(list, name) # {} <=> name \in Findable(list)
  <1> DEFINE nets == list.netList
  <1>1. nets \in Seq(NetType)
    BY DEF IsNetList
  <1>2. \A i \in 1 .. Len(nets) : nets[i].name \in Text
    <2> HIDE DEF nets
    <2>1. \A i \in 1 .. Len(nets) : nets[i] \in NetType
      BY <1>1
    <2> QED BY <2>1 DEF NetType
  <1>3. \A name : FindNet(list, name) # {} <=> name \in Findable(list)
    BY DEF FindNet, Findable
  <1>4. ListNames(list) = [i \in 1 .. Len(nets) |-> nets[i].name] /\ Len(nets) \in Nat
    BY <1>1 DEF ListNames
  <1> HIDE DEF nets
  <1> QED BY <1>2, <1>3, <1>4 DEF nets

\* What one more statement adds.
LEMMA ReadStatement ==
    ASSUME NEW d \in Designs, NEW n \in 0 .. Len(d) - 1
    PROVE  /\ TextOf(d, n) \in Seq(LineType) /\ NamesOf(d, n) \in Seq(Text)
           /\ d[n + 1] \in TextsIn(d) => TextOf(d, n + 1) = TextOf(d, n) \o d[n + 1]
           /\ d[n + 1] \notin TextsIn(d) => TextOf(d, n + 1) = TextOf(d, n)
           /\ d[n + 1] \in NetsIn(d) => NamesOf(d, n + 1) = Append(NamesOf(d, n), d[n + 1][1].says)
           /\ d[n + 1] \notin NetsIn(d) => NamesOf(d, n + 1) = NamesOf(d, n)
           /\ d[n + 1][1].says \in Text
  <1> DEFINE U == Seq(LineType) \ {<<>>}
             s == d[n + 1]
             texts == Selected(SubSeq(d, 1, n), TextsIn(d))
             nets == NetsOf(d, n)
  <1>1. d \in Seq(U) /\ n \in 0 .. Len(d) /\ s \in U
    BY DEF Designs
  <1> HIDE DEF U
  <1>2. /\ texts \in Seq(U) /\ nets \in Seq(U)
        /\ s \in TextsIn(d) => Selected(SubSeq(d, 1, n + 1), TextsIn(d)) = Append(texts, s)
        /\ s \notin TextsIn(d) => Selected(SubSeq(d, 1, n + 1), TextsIn(d)) = texts
        /\ s \in NetsIn(d) => NetsOf(d, n + 1) = Append(nets, s)
        /\ s \notin NetsIn(d) => NetsOf(d, n + 1) = nets
    BY <1>1, SelectedElements, SelectedStep DEF NetsOf
  <1> HIDE DEF texts, nets, s
  <1>3. \A t \in U : t \in Seq(LineType) /\ t[1] \in LineType /\ t[1].says \in Text
    <2> SUFFICES ASSUME NEW t \in U
                 PROVE  t \in Seq(LineType) /\ t[1] \in LineType /\ t[1].says \in Text
      OBVIOUS
    <2>1. t \in Seq(LineType) /\ t # <<>>
      BY DEF U
    <2>2. t[1] \in LineType
      BY <2>1
    <2> QED BY <2>1, <2>2 DEF LineType
  <1>4. texts \in Seq(Seq(LineType)) /\ s \in Seq(LineType)
    BY <1>1, <1>2, <1>3
  <1>5. FlattenSeq(texts) \in Seq(LineType) /\ FlattenSeq(Append(texts, s)) = FlattenSeq(texts) \o s
    <2>1. texts \in Designs
      BY <1>2 DEF Designs, U
    <2>2. Len(texts) \in 0 .. Len(texts)
      BY <1>4
    <2>3. Prefix(texts, Len(texts)) \in Seq(LineType)
      BY <2>1, <2>2, PrefixIsLines
    <2> QED BY <1>4, <2>3, FlattenAppended, PrefixSteps
  <1>6. NamesOf(d, n) = [i \in 1 .. Len(nets) |-> nets[i][1].says] /\ NamesOf(d, n) \in Seq(Text)
    <2>1. \A i \in 1 .. Len(nets) : nets[i][1].says \in Text
      BY <1>2, <1>3
    <2>2. NamesOf(d, n) = [i \in 1 .. Len(nets) |-> nets[i][1].says] /\ Len(nets) \in Nat
      BY <1>2 DEF NamesOf, nets
    <2> QED BY <2>1, <2>2
  <1>7. ASSUME s \in NetsIn(d)
        PROVE  NamesOf(d, n + 1) = Append(NamesOf(d, n), s[1].says)
    <2> DEFINE more == Append(nets, s)
    <2>1. /\ DOMAIN more = 1 .. Len(nets) + 1 /\ Len(nets) \in Nat
          /\ \A i \in 1 .. Len(nets) : more[i] = nets[i]
          /\ more[Len(nets) + 1] = s
      BY <1>1, <1>2
    <2>2. NetsOf(d, n + 1) = more
      BY <1>2, <1>7
    <2> HIDE DEF more
    <2>3. NamesOf(d, n + 1) = [i \in 1 .. Len(nets) + 1 |-> more[i][1].says]
      BY <2>1, <2>2 DEF NamesOf
    <2>4. /\ Len(NamesOf(d, n)) = Len(nets)
          /\ \A i \in 1 .. Len(nets) : NamesOf(d, n)[i] = nets[i][1].says
      BY <1>6, <2>1
    <2> QED BY <1>6, <2>1, <2>3, <2>4
  <1>8. s \notin NetsIn(d) => NamesOf(d, n + 1) = NamesOf(d, n)
    BY <1>2 DEF NamesOf, nets
  <1>9. /\ s \in TextsIn(d) => TextOf(d, n + 1) = TextOf(d, n) \o s
        /\ s \notin TextsIn(d) => TextOf(d, n + 1) = TextOf(d, n)
        /\ TextOf(d, n) \in Seq(LineType)
    BY <1>2, <1>5 DEF TextOf, texts
  <1> QED BY <1>1, <1>3, <1>6, <1>7, <1>8, <1>9 DEF s

\* What each operation on a list does to its text, its names, and those that can be found.
LEMMA OutputSeen ==
    ASSUME NEW list, IsNetList(list), NEW line
    PROVE  LET new == Output(list, line)
           IN  /\ new.text = Append(list.text, line)
               /\ ListNames(new) = ListNames(list) /\ Findable(new) = Findable(list)
  <1>1. Output(list, line) = [text |-> Append(list.text, line), printed |-> list.printed,
                              netList |-> list.netList, netToPip |-> list.netToPip]
    BY OtherParts, Zenon DEF Output
  <1> QED BY <1>1 DEF ListNames, Findable

LEMMA PrintSeen ==
    ASSUME NEW list, IsNetList(list)
    PROVE  LET new == PrintData(list)
           IN  /\ new.text = list.text
               /\ ListNames(new) = ListNames(list) /\ Findable(new) = Findable(list)
               /\ [i \in DOMAIN new.printed |-> new.printed[i].name] = ListNames(list)
  <1> DEFINE printed == [i \in DOMAIN list.netList |-> Printed(list.netList[i])]
  <1>1. /\ DOMAIN printed = DOMAIN list.netList
        /\ \A i \in DOMAIN list.netList : printed[i].name = list.netList[i].name
    BY DEF Printed
  <1> HIDE DEF printed
  <1>2. PrintData(list) = [text |-> list.text, printed |-> printed,
                           netList |-> list.netList, netToPip |-> list.netToPip]
    BY DEF PrintData, IsNetList, printed
  <1> QED BY <1>1, <1>2 DEF ListNames, Findable

LEMMA InsertSeen ==
    ASSUME NEW list, IsNetList(list), NEW net \in NetType
    PROVE  LET new == InsertNet(list, net)
           IN  /\ new.text = list.text
               /\ ListNames(new) = Append(ListNames(list), net.name)
               /\ Findable(new) = Findable(list)
  <1> DEFINE nets == Append(list.netList, net)
             n    == Len(list.netList)
  <1>1. /\ DOMAIN nets = 1 .. n + 1 /\ nets[n + 1] = net /\ n \in Nat
        /\ DOMAIN list.netList = 1 .. n
        /\ \A i \in 1 .. n : nets[i] = list.netList[i]
    BY DEF IsNetList
  <1> HIDE DEF nets
  <1>2. InsertNet(list, net) = [text |-> list.text, printed |-> list.printed,
                                netList |-> nets, netToPip |-> list.netToPip]
    BY OtherParts, Zenon DEF InsertNet, nets
  <1> DEFINE new == InsertNet(list, net)
  <1>3. new.text = list.text /\ new.netList = nets /\ new.netToPip = list.netToPip
    BY <1>2
  <1> HIDE DEF new
  <1>4. Findable(new) = Findable(list)
    BY <1>1, <1>3 DEF Findable, IsNetList
  <1>5. ListNames(new) = Append(ListNames(list), net.name)
    <2>1. ListNames(new) = [i \in 1 .. n + 1 |-> nets[i].name]
      BY <1>1, <1>3 DEF ListNames
    <2>2. /\ ListNames(list) \in Seq(Text) /\ Len(ListNames(list)) = n
          /\ \A i \in 1 .. n : ListNames(list)[i] = list.netList[i].name
      BY NamesOfList
    <2> DEFINE names == ListNames(list)
    <2>3. names \in Seq(Text) /\ Len(names) = n /\ \A i \in 1 .. n : names[i] = nets[i].name
      BY <1>1, <2>2
    <2> HIDE DEF names, n
    <2>4. Append(names, net.name) = [i \in 1 .. n + 1 |-> nets[i].name]
      <3>1. Append(names, net.name)
              = [i \in 1 .. Len(names) + 1 |-> IF i = Len(names) + 1 THEN net.name ELSE names[i]]
        BY <2>3
      <3>2. \A i \in 1 .. n + 1 : (IF i = n + 1 THEN net.name ELSE names[i]) = nets[i].name
        BY <1>1, <2>3
      <3> QED BY <2>3, <3>1, <3>2
    <2> QED BY <2>1, <2>4 DEF names
  <1> QED BY <1>3, <1>4, <1>5 DEF new

LEMMA UpdateSeen ==
    ASSUME NEW list, IsNetList(list), NEW i \in DOMAIN list.netList,
           NEW net \in NetType, net.name = list.netList[i].name
    PROVE  LET new == UpdateNet(list, i, net)
           IN  /\ new.text = list.text
               /\ ListNames(new) = ListNames(list) /\ Findable(new) = Findable(list)
  <1> DEFINE nets == [list.netList EXCEPT ![i] = net]
  <1>1. /\ DOMAIN nets = DOMAIN list.netList
        /\ \A k \in DOMAIN nets : nets[k].name = list.netList[k].name
    OBVIOUS
  <1> HIDE DEF nets
  <1>2. UpdateNet(list, i, net) = [text |-> list.text, printed |-> list.printed,
                                   netList |-> nets, netToPip |-> list.netToPip]
    BY DEF UpdateNet, IsNetList, nets
  <1> DEFINE new == UpdateNet(list, i, net)
  <1>3. new.text = list.text /\ new.netList = nets /\ new.netToPip = list.netToPip
    BY <1>2
  <1> HIDE DEF new
  <1> QED BY <1>1, <1>3 DEF ListNames, Findable, IsNetList, new

LEMMA RegisterSeen ==
    ASSUME NEW list, IsNetList(list), list.netList # <<>>
    PROVE  LET new == RegisterLast(list)
           IN  /\ new.text = list.text /\ ListNames(new) = ListNames(list)
               /\ Findable(new) = Findable(list) \cup {LastNet(list).name}
  <1>1. CASE FindNet(list, LastNet(list).name) # {}
    <2>1. LastNet(list).name \in Findable(list)
      BY <1>1 DEF FindNet, Findable
    <2> QED BY <1>1, <2>1 DEF RegisterLast
  <1>2. CASE FindNet(list, LastNet(list).name) = {}
    <2> DEFINE found == list.netToPip \cup {Len(list.netList)}
               new   == RegisterLast(list)
    <2>1. new = [text |-> list.text, printed |-> list.printed,
                 netList |-> list.netList, netToPip |-> found]
      BY <1>2 DEF RegisterLast, IsNetList
    <2>2. new.text = list.text /\ new.netList = list.netList /\ new.netToPip = found
      BY <2>1
    <2> HIDE DEF new
    <2>3. Findable(new) = Findable(list) \cup {LastNet(list).name}
      BY <2>2 DEF Findable, LastNet
    <2> QED BY <2>2, <2>3 DEF ListNames, new
  <1> QED BY <1>1, <1>2

\* Reading a line of a statement, and its end.

TextKinds == {"design", "module", "inst"}

LEMMA Kinds ==
    ASSUME NEW d \in Designs, NEW n \in 0 .. Len(d) - 1
    PROVE  /\ d[n + 1] \in TextsIn(d) <=> d[n + 1][1].first \in TextKinds
           /\ d[n + 1] \in NetsIn(d) <=> d[n + 1][1].first = "net"
  <1>1. n + 1 \in DOMAIN d
    BY StartSteps
  <1> QED BY <1>1 DEF TextsIn, NetsIn, Range, TextKinds

LEMMA NothingRead ==
    ASSUME NEW d \in Designs
    PROVE  TextOf(d, 0) = <<>> /\ NamesOf(d, 0) = <<>> /\ Holds(EmptyList, d, 0, 0)
  <1>1. d \in Seq(Seq(LineType) \ {<<>>})
    BY DEF Designs
  <1>2. NetsOf(d, 0) = <<>> /\ Selected(SubSeq(d, 1, 0), TextsIn(d)) = <<>>
    BY <1>1, SelectedNone DEF NetsOf
  <1>3. TextOf(d, 0) = <<>>
    <2>1. <<>> \in Seq(Seq(LineType)) /\ SubSeq(<<>>, 1, 0) = <<>>
      OBVIOUS
    <2>2. Prefix(<<>>, 0) = <<>>
      BY <2>1, PrefixSteps
    <2> QED BY <1>2, <2>1, <2>2 DEF TextOf, Prefix
  <1>4. NamesOf(d, 0) = <<>>
    BY <1>2 DEF NamesOf
  <1>5. /\ EmptyList.text = <<>> /\ ListNames(EmptyList) = <<>> /\ Findable(EmptyList) = {}
        /\ Range(<<>>) = {} /\ <<>> \o <<>> = <<>>
    BY DEF EmptyList, ListNames, Findable, Range
  <1>6. TextBegun(d, 0, 0) = <<>> /\ NameBegun(d, 0, 0) = <<>>
    BY DEF TextBegun, NameBegun
  <1> QED BY <1>3, <1>4, <1>5, <1>6 DEF Holds

\* Between statements.
LEMMA HoldsBetween ==
    ASSUME NEW list, NEW d \in Designs, NEW n \in 0 .. Len(d)
    PROVE  /\ TextOf(d, n) \in Seq(LineType) /\ NamesOf(d, n) \in Seq(Text)
           /\ Holds(list, d, n, 0) <=> /\ list.text = TextOf(d, n)
                                       /\ ListNames(list) = NamesOf(d, n)
                                       /\ Findable(list) = Range(NamesOf(d, n))
  <1>1. TextOf(d, n) \in Seq(LineType) /\ NamesOf(d, n) \in Seq(Text)
    <2>1. CASE n \in 0 .. Len(d) - 1
      BY <2>1, ReadStatement
    <2>2. CASE n = 0
      <3>1. <<>> \in Seq(LineType) /\ <<>> \in Seq(Text)
        OBVIOUS
      <3> QED BY <2>2, <3>1, NothingRead
    <2>3. CASE n \in 1 .. Len(d)
      <3>1. n - 1 \in 0 .. Len(d) - 1 /\ (n - 1) + 1 = n
        BY <2>3 DEF Designs
      <3> DEFINE m == n - 1
      <3>2. m \in 0 .. Len(d) - 1 /\ m + 1 = n
        BY <3>1
      <3> HIDE DEF m
      <3>3. d[m + 1] \in Seq(LineType) /\ d[m + 1][1].says \in Text
        BY <3>2, StartSteps, ReadStatement
      <3>4. TextOf(d, m) \in Seq(LineType) /\ NamesOf(d, m) \in Seq(Text)
        BY <3>2, ReadStatement
      <3>5. /\ TextOf(d, m + 1) \in {TextOf(d, m), TextOf(d, m) \o d[m + 1]}
            /\ NamesOf(d, m + 1) \in {NamesOf(d, m), Append(NamesOf(d, m), d[m + 1][1].says)}
        BY <3>2, ReadStatement
      <3> DEFINE t == TextOf(d, m)
                 s == d[m + 1]
                 names == NamesOf(d, m)
      <3>6. t \in Seq(LineType) /\ s \in Seq(LineType) /\ names \in Seq(Text) /\ s[1].says \in Text
        BY <3>3, <3>4
      <3> HIDE DEF t, s, names
      <3>7. t \o s \in Seq(LineType) /\ Append(names, s[1].says) \in Seq(Text)
        BY <3>6
      <3> QED BY <3>2, <3>5, <3>6, <3>7 DEF t, s, names
    <2> QED BY <2>2, <2>3 DEF Designs
  <1>2. TextBegun(d, n, 0) = <<>> /\ NameBegun(d, n, 0) = <<>>
    BY DEF TextBegun, NameBegun
  <1> DEFINE t == TextOf(d, n)
             names == NamesOf(d, n)
  <1>3. t \in Seq(LineType) /\ names \in Seq(Text)
    BY <1>1
  <1> HIDE DEF t, names
  <1>4. t \o <<>> = t /\ names \o <<>> = names
    BY <1>3
  <1> QED BY <1>1, <1>2, <1>4 DEF Holds, t, names

\* The text of a statement is output as it is read.
LEMMA LineOfText ==
    ASSUME NEW list, IsNetList(list), NEW d \in Designs, NEW n \in 0 .. Len(d) - 1,
           NEW j \in 0 .. Len(d[n + 1]) - 1, Holds(list, d, n, j),
           d[n + 1][1].first \in TextKinds, NEW line, line = d[n + 1][j + 1]
    PROVE  /\ Holds(Output(list, line), d, n, j + 1)
           /\ j + 1 = Len(d[n + 1]) => Holds(Output(list, line), d, n + 1, 0)
  <1> DEFINE s == d[n + 1]
             t == TextOf(d, n)
             names == NamesOf(d, n)
             new == Output(list, line)
  <1>1. s \in TextsIn(d) /\ s \notin NetsIn(d)
    BY Kinds DEF TextKinds
  <1>2. t \in Seq(LineType) /\ names \in Seq(Text) /\ s \in Seq(LineType) /\ n + 1 \in 0 .. Len(d)
    BY ReadStatement, StartSteps
  <1>3. /\ new.text = Append(list.text, line)
        /\ ListNames(new) = ListNames(list) /\ Findable(new) = Findable(list)
    BY OutputSeen
  <1>4. TextOf(d, n + 1) = t \o s /\ NamesOf(d, n + 1) = names
    BY <1>1, ReadStatement
  <1>5. /\ list.text = t \o TextBegun(d, n, j)
        /\ ListNames(list) = names \o NameBegun(d, n, j)
        /\ Findable(list) = Range(names)
    BY DEF Holds
  <1>6. /\ TextBegun(d, n, j) = SubSeq(s, 1, j) /\ TextBegun(d, n, j + 1) = SubSeq(s, 1, j + 1)
        /\ NameBegun(d, n, j) = <<>> /\ NameBegun(d, n, j + 1) = <<>>
    <2>1. j > 0 \/ j = 0
      OBVIOUS
    <2>2. j + 1 > 0
      OBVIOUS
    <2>3. SubSeq(s, 1, 0) = <<>>
      BY <1>2
    <2> QED BY <1>1, <2>1, <2>2, <2>3 DEF TextBegun, NameBegun
  <1>7. j \in 0 .. Len(s) - 1 /\ line = s[j + 1]
    OBVIOUS
  <1> HIDE DEF s, t, names, new
  <1>8. t \o SubSeq(s, 1, j + 1) = Append(t \o SubSeq(s, 1, j), line)
    BY <1>2, <1>7
  <1>9. new.text = t \o SubSeq(s, 1, j + 1)
    BY <1>3, <1>5, <1>6, <1>8
  <1>10. Holds(new, d, n, j + 1)
    BY <1>3, <1>5, <1>6, <1>9 DEF Holds, t, names
  <1>11. ASSUME j + 1 = Len(s)
         PROVE  Holds(new, d, n + 1, 0)
    <2>1. SubSeq(s, 1, j + 1) = s /\ names \o <<>> = names
      BY <1>2, <1>11
    <2>2. /\ new.text = TextOf(d, n + 1) /\ ListNames(new) = NamesOf(d, n + 1)
          /\ Findable(new) = Range(NamesOf(d, n + 1))
      BY <1>3, <1>4, <1>5, <1>6, <1>9, <2>1
    <2> QED BY <1>2, <2>2, HoldsBetween
  <1> QED BY <1>10, <1>11 DEF s, new

\* A line that begins no statement is a statement, and nothing is read of it.
LEMMA LineSkipped ==
    ASSUME NEW list, NEW d \in Designs, NEW n \in 0 .. Len(d) - 1, Holds(list, d, n, 0),
           d[n + 1][1].first \notin TextKinds \cup {"net"}
    PROVE  Holds(list, d, n + 1, 0)
  <1>1. d[n + 1] \notin TextsIn(d) /\ d[n + 1] \notin NetsIn(d)
    BY Kinds
  <1>2. TextOf(d, n + 1) = TextOf(d, n) /\ NamesOf(d, n + 1) = NamesOf(d, n)
    BY <1>1, ReadStatement
  <1>3. n \in 0 .. Len(d) /\ n + 1 \in 0 .. Len(d)
    BY StartSteps
  <1> QED BY <1>2, <1>3, HoldsBetween

\* A net is in the list from its first line, and can be found by its name from its last.
LEMMA NetOpened ==
    ASSUME NEW list, IsNetList(list), NEW d \in Designs, NEW n \in 0 .. Len(d) - 1,
           Holds(list, d, n, 0), d[n + 1][1].first = "net", d[n + 1][1].says # NoText,
           NEW line, line = d[n + 1][1]
    PROVE  Holds(InsertNet(list, Net(line)), d, n, 1)
  <1> DEFINE new == InsertNet(list, Net(line))
             t == TextOf(d, n)
             names == NamesOf(d, n)
  <1>1. d[n + 1] \in NetsIn(d) /\ d[n + 1] \notin TextsIn(d)
    BY Kinds DEF TextKinds
  <1>2. line \in LineType
    <2>1. d[n + 1] \in Seq(LineType) /\ Len(d[n + 1]) \in Nat \ {0}
      BY StartSteps
    <2> QED BY <2>1
  <1>3. Net(line) \in NetType /\ Net(line).name = line.says /\ line.says \in Text
    BY <1>2, NewNetIsNet DEF Net, LineType
  <1>4. /\ new.text = list.text /\ ListNames(new) = Append(ListNames(list), line.says)
        /\ Findable(new) = Findable(list)
    BY <1>3, InsertSeen
  <1>5. n \in 0 .. Len(d)
    BY StartSteps
  <1>6. /\ t \in Seq(LineType) /\ names \in Seq(Text)
        /\ list.text = t /\ ListNames(list) = names /\ Findable(list) = Range(names)
    BY <1>5, HoldsBetween
  <1>7. TextBegun(d, n, 1) = <<>> /\ NameBegun(d, n, 1) = <<line.says>>
    BY <1>1 DEF TextBegun, NameBegun
  <1> HIDE DEF new, t, names
  <1>8. t \o <<>> = t /\ Append(names, line.says) = names \o <<line.says>>
    BY <1>3, <1>6
  <1> QED BY <1>4, <1>6, <1>7, <1>8 DEF Holds, new, t, names

LEMMA WithinNet ==
    ASSUME NEW list, NEW new, NEW d \in Designs, NEW n \in 0 .. Len(d) - 1,
           NEW j \in Nat \ {0}, Holds(list, d, n, j), d[n + 1][1].first = "net",
           new.text = list.text, ListNames(new) = ListNames(list), Findable(new) = Findable(list)
    PROVE  Holds(new, d, n, j + 1)
  <1>1. d[n + 1] \in NetsIn(d) /\ d[n + 1] \notin TextsIn(d)
    BY Kinds DEF TextKinds
  <1>2. j > 0 /\ j + 1 > 0
    OBVIOUS
  <1>3. TextBegun(d, n, j) = TextBegun(d, n, j + 1) /\ NameBegun(d, n, j) = NameBegun(d, n, j + 1)
    BY <1>1, <1>2 DEF TextBegun, NameBegun
  <1> QED BY <1>3 DEF Holds

LEMMA NetClosed ==
    ASSUME NEW list, IsNetList(list), list.netList # <<>>,
           NEW d \in Designs, NEW n \in 0 .. Len(d) - 1,
           NEW j \in Nat \ {0}, Holds(list, d, n, j), d[n + 1][1].first = "net"
    PROVE  Holds(RegisterLast(list), d, n + 1, 0)
  <1> DEFINE new == RegisterLast(list)
             t == TextOf(d, n)
             names == NamesOf(d, n)
             name == d[n + 1][1].says
  <1>1. d[n + 1] \in NetsIn(d) /\ d[n + 1] \notin TextsIn(d)
    BY Kinds DEF TextKinds
  <1>2. /\ t \in Seq(LineType) /\ names \in Seq(Text) /\ name \in Text
        /\ TextOf(d, n + 1) = t /\ NamesOf(d, n + 1) = Append(names, name)
        /\ n + 1 \in 0 .. Len(d)
    BY <1>1, ReadStatement, StartSteps
  <1>3. TextBegun(d, n, j) = <<>> /\ NameBegun(d, n, j) = <<name>>
    <2>1. j > 0
      OBVIOUS
    <2> QED BY <1>1, <2>1 DEF TextBegun, NameBegun
  <1>4. /\ list.text = t \o <<>> /\ ListNames(list) = names \o <<name>>
        /\ Findable(list) = Range(names)
    BY <1>3 DEF Holds
  <1>5. /\ new.text = list.text /\ ListNames(new) = ListNames(list)
        /\ Findable(new) = Findable(list) \cup {LastNet(list).name}
    BY RegisterSeen
  <1>6. LastNet(list).name = ListNames(list)[Len(ListNames(list))]
    <2>1. Len(list.netList) \in 1 .. Len(list.netList)
      BY DEF IsNetList
    <2>2. /\ Len(ListNames(list)) = Len(list.netList)
          /\ \A i \in 1 .. Len(list.netList) : ListNames(list)[i] = list.netList[i].name
      BY NamesOfList
    <2> QED BY <2>1, <2>2 DEF LastNet
  <1> HIDE DEF new, t, names, name
  <1>7. /\ t \o <<>> = t /\ names \o <<name>> = Append(names, name)
        /\ Append(names, name)[Len(Append(names, name))] = name
    BY <1>2
  <1>8. Range(Append(names, name)) = Range(names) \cup {name}
    <2>1. /\ DOMAIN Append(names, name) = DOMAIN names \cup {Len(names) + 1}
          /\ \A i \in DOMAIN names : Append(names, name)[i] = names[i]
          /\ Append(names, name)[Len(names) + 1] = name
      BY <1>2
    <2> QED BY <2>1 DEF Range
  <1>9. LastNet(list).name = name
    BY <1>4, <1>6, <1>7
  <1>10. /\ new.text = TextOf(d, n + 1) /\ ListNames(new) = NamesOf(d, n + 1)
         /\ Findable(new) = Range(NamesOf(d, n + 1))
    BY <1>2, <1>4, <1>5, <1>7, <1>8, <1>9
  <1>11. Holds(new, d, n + 1, 0)
    BY <1>2, <1>10, HoldsBetween
  <1> QED BY <1>11 DEF new

-----------------------------------------------------------------------------
\* The reading invariant.

\* The clock nets, of the first k, that the partial design as far as it was read has not.
Missing(n, k) == Selected(SubSeq(clkNetNames, 1, k),
                          Range(clkNetNames) \ Range(NamesOf(design["partial"], n)))

\* n statements of the file that is being read, and j lines of the next, are in its list.
SoFar(n, j) == Place(n, j) /\ (Whole => Holds(lists[phase], design[phase], n, j))

\* The static design's file has been read as far as statement n.
StaticRead(n) == EndsAt("static", n) /\ (Whole => Holds(lists["static"], design["static"], n, 0))

\* The partial design's has been, and the clock nets before clock that it lacked are added.
PartialRead(n) ==
    LET d    == design["partial"]
        list == lists["partial"]
    IN  /\ EndsAt("partial", n)
        /\ Whole => /\ list.text = TextOf(d, n)
                    /\ ListNames(list) = NamesOf(d, n) \o Missing(n, clock - 1)
                    /\ Findable(list) = Range(NamesOf(d, n))

\* Lists hold what has been read, and files are read to where EndsAt says: next to TypeOK and
\* MergeInvariant it is inductive for designs that are well-formed.
ReadingInvariant ==
    /\ Reading => \E n, j : SoFar(n, j)
    /\ phase = "static" => lists["partial"] = EmptyList
    /\ phase \in {"partial", "merge", "done"} => \E n : StaticRead(n)
    /\ phase \in {"merge", "done"} => \E n : PartialRead(n)
    /\ result = "true" => /\ clock = Len(clkNetNames) + 1
                          /\ [i \in DOMAIN Merged |-> Merged[i].name] = ListNames(lists["partial"])
    /\ result = "false" =>
          \E k \in 1 .. Len(clkNetNames) : clkNetNames[k] \notin Findable(lists["static"])
    /\ result # "none" => phase = "done"

-----------------------------------------------------------------------------
\* Every step keeps it.

\* A turn touches the list of its own file.
LEMMA TurnKeepsReading ==
    ASSUME TypeOK, Reading, ReadingInvariant, GetLine, KeepMerging,
           \A g \in Files \ {phase} : lists'[g] = lists[g],
           NEW n, NEW j, SoFar(n, j)'
    PROVE  ReadingInvariant'
  <1>1. /\ phase' = phase /\ design' = design /\ cut' = cut /\ clkNetNames' = clkNetNames
        /\ result' = result /\ clock' = clock /\ phase \in Files
    BY DEF KeepMerging, input, Reading
  <1>2. result = "none"
    BY <1>1 DEF ReadingInvariant, TypeOK, Files
  <1>3. phase' = "static" => lists'["partial"] = EmptyList
    BY <1>1 DEF ReadingInvariant, Files
  <1>4. phase' = "partial" => \E m : StaticRead(m)'
    <2> SUFFICES ASSUME phase = "partial"
                 PROVE  \E m : StaticRead(m)'
      BY <1>1
    <2>1. PICK m : StaticRead(m)
      BY DEF ReadingInvariant
    <2>2. lists'["static"] = lists["static"]
      BY DEF Files
    <2>3. EndsAt("static", m)'
      BY <1>1, <2>1 DEF StaticRead, EndsAt, NoneTooLong
    <2> QED BY <1>1, <2>1, <2>2, <2>3 DEF StaticRead, Whole
  <1> QED BY <1>1, <1>2, <1>3, <1>4 DEF ReadingInvariant, Files

LEMMA OwnList ==
    ASSUME TypeOK, Reading, NEW new, lists' = [lists EXCEPT ![phase] = new]
    PROVE  lists'[phase] = new /\ \A g \in Files \ {phase} : lists'[g] = lists[g]
  <1>1. DOMAIN lists = Files /\ phase \in Files
    BY DEF TypeOK, ListTypes, Reading
  <1> QED BY <1>1

\* The line read next, when the files are whole.
LEMMA WholeLine ==
    ASSUME TypeOK, WellFormed, Reading, Whole, NEW n, NEW j, SoFar(n, j),
           inside # "top" \/ ~AtEnd
    PROVE  /\ Holds(lists[phase], design[phase], n, j)
           /\ design[phase] \in Designs /\ IsNetList(lists[phase])
           /\ ~AtEnd /\ n \in 0 .. Len(design[phase]) - 1
           /\ j \in 0 .. Len(design[phase][n + 1]) - 1
           /\ NextLine = design[phase][n + 1][j + 1]
           /\ IsStatement(design[phase][n + 1])
           /\ inside # "top" => j \in Nat \ {0} /\ Loop(inside) = design[phase][n + 1][1].first
  <1>1. cut.file # phase /\ phase \in Files
    BY DEF Whole, NotCut, Reading, Files
  <1>2. Place(n, j) /\ Holds(lists[phase], design[phase], n, j)
    BY DEF SoFar
  <1>3. ~AtEnd
    BY <1>1, <1>2, WholeGoesOn
  <1>4. /\ n \in 0 .. Len(design[phase]) - 1
        /\ j \in 0 .. Len(design[phase][n + 1]) - 1
        /\ NextLine = design[phase][n + 1][j + 1]
    BY <1>1, <1>2, <1>3, NextInPlace
  <1>5. IsStatement(design[phase][n + 1])
    BY <1>4, StatementInPlace
  <1>6. design[phase] \in Designs /\ IsNetList(lists[phase])
    BY <1>1, FileIsDesign DEF TypeOK, ListTypes
  <1>7. inside # "top" => j \in Nat \ {0} /\ Loop(inside) = design[phase][n + 1][1].first
    BY <1>2 DEF Place
  <1> QED BY <1>2, <1>3, <1>4, <1>5, <1>6, <1>7

LEMMA TopLevelKeepsReading ==
    ASSUME TypeOK, WellFormed, ReadingInvariant, TopLevel
    PROVE  ReadingInvariant'
  <1> DEFINE d == design[phase]
  <1>1. /\ Reading /\ inside = "top" /\ ~AtEnd /\ ~TooLong(NextLine) /\ GetLine /\ KeepMerging
        /\ phase' = phase /\ design' = design /\ cut' = cut
    BY DEF TopLevel, KeepMerging, input
  <1>2. PICK n, j : SoFar(n, j)
    BY <1>1 DEF ReadingInvariant
  <1>3. /\ n \in 0 .. Len(d) - 1 /\ j = 0
        /\ NextLine.first = d[n + 1][1].first
        /\ NextLine.first \in {"design", "module", "inst", "net"} /\ inside' = NextLine.first
              => Place(n, 1)'
        /\ NextLine.first \notin {"design", "module", "inst", "net"} /\ inside' = inside
              => Place(n + 1, 0)'
    <2>1. Place(n, j)
      BY <1>2 DEF SoFar
    <2> QED BY <1>1, <2>1, TurnOpens
  <1>4. Whole => /\ Holds(lists[phase], d, n, 0)
                 /\ d \in Designs /\ IsNetList(lists[phase]) /\ NextLine = d[n + 1][1]
                 /\ IsStatement(d[n + 1]) /\ 0 \in 0 .. Len(d[n + 1]) - 1
    <2> SUFFICES ASSUME Whole
                 PROVE  /\ Holds(lists[phase], d, n, 0)
                        /\ d \in Designs /\ IsNetList(lists[phase]) /\ NextLine = d[n + 1][1]
                        /\ IsStatement(d[n + 1]) /\ 0 \in 0 .. Len(d[n + 1]) - 1
      OBVIOUS
    <2>1. /\ Holds(lists[phase], d, n, j) /\ d \in Designs /\ IsNetList(lists[phase])
          /\ NextLine = d[n + 1][j + 1] /\ IsStatement(d[n + 1])
          /\ j \in 0 .. Len(d[n + 1]) - 1
      BY <1>1, <1>2, WholeLine
    <2> QED BY <1>3, <2>1
  <1> HIDE DEF d
  <1>5. CASE NextLine.first \in TextKinds
    <2>1. inside' = NextLine.first /\ lists' = [lists EXCEPT ![phase] = Output(@, NextLine)]
      BY <1>5 DEF TopLevel, TextKinds
    <2> DEFINE new == Output(lists[phase], NextLine)
    <2>2. lists'[phase] = new /\ \A g \in Files \ {phase} : lists'[g] = lists[g]
      BY <1>1, <2>1, OwnList
    <2>3. Whole => Holds(new, d, n, 1)
      <3> SUFFICES ASSUME Whole
                   PROVE  Holds(new, d, n, 0 + 1)
        OBVIOUS
      <3>1. d[n + 1][1].first \in TextKinds /\ NextLine = d[n + 1][0 + 1]
        BY <1>3, <1>4, <1>5
      <3> QED BY <1>3, <1>4, <3>1, LineOfText
    <2> HIDE DEF new
    <2>4. SoFar(n, 1)'
      BY <1>1, <1>3, <1>5, <2>1, <2>2, <2>3 DEF SoFar, Whole, TextKinds, d
    <2> QED BY <1>1, <2>2, <2>4, TurnKeepsReading
  <1>6. CASE NextLine.first = "net"
    <2>1. inside' = "net" /\ lists' = [lists EXCEPT ![phase] = InsertNet(@, Net(NextLine))]
      BY <1>6 DEF TopLevel
    <2> DEFINE new == InsertNet(lists[phase], Net(NextLine))
    <2>2. lists'[phase] = new /\ \A g \in Files \ {phase} : lists'[g] = lists[g]
      BY <1>1, <2>1, OwnList
    <2>3. Whole => Holds(new, d, n, 1)
      <3> SUFFICES ASSUME Whole
                   PROVE  Holds(new, d, n, 1)
        OBVIOUS
      <3>1. d[n + 1][1].first = "net" /\ d[n + 1][1].says # NoText
        BY <1>3, <1>4, <1>6 DEF IsStatement
      <3> QED BY <1>3, <1>4, <3>1, NetOpened
    <2> HIDE DEF new
    <2>4. SoFar(n, 1)'
      BY <1>1, <1>3, <1>6, <2>1, <2>2, <2>3 DEF SoFar, Whole, d
    <2> QED BY <1>1, <2>2, <2>4, TurnKeepsReading
  <1>7. CASE NextLine.first \notin TextKinds \cup {"net"}
    <2>1. inside' = inside /\ lists' = lists
      BY <1>7 DEF TopLevel, TextKinds
    <2>2. Whole => Holds(lists[phase], d, n + 1, 0)
      BY <1>3, <1>4, <1>7, LineSkipped
    <2>3. SoFar(n + 1, 0)'
      BY <1>1, <1>3, <1>7, <2>1, <2>2 DEF SoFar, Whole, TextKinds, d
    <2> QED BY <1>1, <2>1, <2>3, TurnKeepsReading
  <1> QED BY <1>5, <1>6, <1>7

LEMMA EndOfFileKeepsReading ==
    ASSUME MergeInvariant, WellFormed, ReadingInvariant, EndOfFile
    PROVE  ReadingInvariant'
  <1>0. TypeOK /\ (Reading => clock = 1)
    BY DEF MergeInvariant
  <1>1. /\ Reading /\ phase \in Files /\ inside = "top" /\ inside' = "top"
        /\ phase' = (IF phase = "static" THEN "partial" ELSE "merge") /\ pos' = 0
        /\ design' = design /\ cut' = cut /\ clkNetNames' = clkNetNames /\ lists' = lists
        /\ clock' = clock /\ result' = result
    BY DEF EndOfFile, input, Reading
  <1>2. PICK n, j : SoFar(n, j)
    BY <1>1 DEF ReadingInvariant
  <1>3. EndsAt(phase, n) /\ (Whole => Holds(lists[phase], design[phase], n, 0))
    BY <1>0, <1>2, ReadingEnds DEF SoFar
  <1>4. result = "none"
    BY <1>0, <1>1 DEF ReadingInvariant, TypeOK, Files
  <1>5. \A f, m : EndsAt(f, m) => EndsAt(f, m)'
    BY <1>1 DEF EndsAt, NoneTooLong
  <1>6. Whole' <=> Whole
    BY <1>1 DEF Whole
  <1>7. CASE phase = "static"
    <2>1. StaticRead(n)'
      BY <1>1, <1>3, <1>5, <1>6, <1>7 DEF StaticRead
    <2>2. lists["partial"] = EmptyList /\ phase' = "partial"
      BY <1>1, <1>7 DEF ReadingInvariant
    <2> DEFINE d == design["partial"]
    <2>3. d \in Designs
      BY <1>0, FileIsDesign DEF TypeOK, Files
    <2>4. 0 \in 0 .. Len(d) /\ Start(d, 0) = 0
      <3>1. d \in Seq(Seq(LineType))
        BY <2>3 DEF Designs
      <3>2. Prefix(d, 0) = <<>> /\ Len(d) \in Nat
        BY <3>1, PrefixSteps
      <3> QED BY <3>2 DEF Start
    <2>5. Place(0, 0)'
      <3>1. \A i \in 1 .. 0 : FALSE
        OBVIOUS
      <3>2. NoneTooLong("partial", 0)'
        BY <3>1 DEF NoneTooLong
      <3> QED BY <1>1, <2>2, <2>4, <3>2 DEF Place
    <2>6. Holds(EmptyList, d, 0, 0)
      BY <2>3, NothingRead
    <2>7. SoFar(0, 0)'
      BY <1>1, <2>2, <2>5, <2>6 DEF SoFar
    <2> QED BY <1>1, <1>4, <2>1, <2>2, <2>7 DEF ReadingInvariant, Files
  <1>8. CASE phase = "partial"
    <2>1. \E m : StaticRead(m)'
      <3>1. PICK m : StaticRead(m)
        BY <1>8 DEF ReadingInvariant
      <3> QED BY <1>1, <1>5, <1>6, <3>1 DEF StaticRead
    <2>2. PartialRead(n)'
      <3> DEFINE d == design["partial"]
                 list == lists["partial"]
      <3>1. EndsAt("partial", n)'
        BY <1>3, <1>5, <1>8
      <3>2. d \in Designs /\ n \in 0 .. Len(d)
        BY <1>0, <1>3, <1>8, FileIsDesign DEF TypeOK, Files, EndsAt
      <3>3. Whole => /\ list.text = TextOf(d, n) /\ ListNames(list) = NamesOf(d, n)
                     /\ Findable(list) = Range(NamesOf(d, n))
        BY <1>3, <1>8, <3>2, HoldsBetween
      <3>4. clock = 1 /\ clkNetNames \in Seq(Text)
        BY <1>0, <1>1, ClockMergeAssumption DEF TypeOK, InputTypes
      <3>5. Missing(n, clock - 1) = <<>>
        <4>1. clock - 1 = 0
          BY <3>4
        <4> QED BY <3>4, <4>1, SelectedNone DEF Missing
      <3>6. NamesOf(d, n) \o <<>> = NamesOf(d, n)
        <4>1. NamesOf(d, n) \in Seq(Text)
          BY <3>2, HoldsBetween
        <4> QED BY <4>1
      <3>7. Missing(n, clock - 1)' = Missing(n, clock - 1)
        BY <1>1 DEF Missing
      <3> QED BY <1>1, <1>6, <3>1, <3>3, <3>5, <3>6, <3>7 DEF PartialRead
    <2>3. phase' = "merge" /\ result' = "none"
      BY <1>1, <1>4, <1>8
    <2> QED BY <2>1, <2>2, <2>3 DEF ReadingInvariant, Reading, Files
  <1> QED BY <1>1, <1>7, <1>8 DEF Files

LEMMA CopyStatementKeepsReading ==
    ASSUME TypeOK, WellFormed, ReadingInvariant, CopyStatement
    PROVE  ReadingInvariant'
  <1> DEFINE d   == design[phase]
             new == Output(lists[phase], NextLine)
  <1>1. /\ Reading /\ GetLine /\ KeepMerging /\ inside \in TextKinds
        /\ lists' = [lists EXCEPT ![phase] = new]
        /\ inside' = (IF Closes(inside, NextLine) THEN "top" ELSE inside)
        /\ phase' = phase /\ design' = design /\ cut' = cut
    BY DEF CopyStatement, Turns, TextKinds, KeepMerging, input
  <1>2. inside \in Loops /\ inside' \in Loops /\ inside # "top" /\ Loop(inside) = inside
    BY <1>1 DEF Loops, NetLoops, Loop, TextKinds
  <1>3. lists'[phase] = new /\ \A g \in Files \ {phase} : lists'[g] = lists[g]
    BY <1>1, OwnList
  <1>4. PICK n, j : SoFar(n, j)
    BY <1>1 DEF ReadingInvariant
  <1>5. Place(n, j)
    BY <1>4 DEF SoFar
  <1>6. Whole => /\ ~AtEnd /\ Holds(new, d, n, j + 1)
                 /\ j + 1 = Len(d[n + 1]) => Holds(new, d, n + 1, 0)
    <2> SUFFICES ASSUME Whole
                 PROVE  /\ ~AtEnd /\ Holds(new, d, n, j + 1)
                        /\ j + 1 = Len(d[n + 1]) => Holds(new, d, n + 1, 0)
      OBVIOUS
    <2>1. /\ Holds(lists[phase], d, n, j) /\ d \in Designs /\ IsNetList(lists[phase])
          /\ ~AtEnd /\ n \in 0 .. Len(d) - 1 /\ j \in 0 .. Len(d[n + 1]) - 1
          /\ NextLine = d[n + 1][j + 1] /\ Loop(inside) = d[n + 1][1].first
      BY <1>1, <1>2, <1>4, WholeLine
    <2>2. d[n + 1][1].first \in TextKinds
      BY <1>1, <1>2, <2>1
    <2> HIDE DEF d
    <2> QED BY <2>1, <2>2, LineOfText
  <1> HIDE DEF d, new
  <1>7. CASE Closes(inside, NextLine)
    <2>1. inside' = "top"
      BY <1>1, <1>7
    <2>2. Place(n + 1, 0)' /\ j + 1 = Len(d[n + 1])
      BY <1>1, <1>2, <1>5, <1>7, <2>1, TurnCloses DEF d
    <2>3. SoFar(n + 1, 0)'
      BY <1>1, <1>3, <1>6, <2>2 DEF SoFar, Whole, d
    <2> QED BY <1>1, <1>3, <2>3, TurnKeepsReading
  <1>8. CASE ~Closes(inside, NextLine)
    <2>1. inside' = inside
      BY <1>1, <1>8
    <2>2. CASE AtEnd
      <3>1. Place(n, j)'
        BY <1>1, <1>2, <1>5, <2>1, <2>2, TurnAtEnd
      <3>2. SoFar(n, j)'
        BY <1>1, <1>6, <2>2, <3>1 DEF SoFar, Whole
      <3> QED BY <1>1, <1>3, <3>2, TurnKeepsReading
    <2>3. CASE ~AtEnd
      <3>1. inside' \notin {"outpin", "inpin"}
        BY <1>1, <2>1 DEF TextKinds
      <3>2. Place(n, j + 1)'
        BY <1>1, <1>2, <1>5, <1>8, <2>1, <2>3, <3>1, TurnInside
      <3>3. SoFar(n, j + 1)'
        BY <1>1, <1>3, <1>6, <3>2 DEF SoFar, Whole, d
      <3> QED BY <1>1, <1>3, <3>3, TurnKeepsReading
    <2> QED BY <2>2, <2>3
  <1> QED BY <1>7, <1>8

\* The turns within a net leave the names of the nets as they are.
LEMMA NetTurnKeepsReading ==
    ASSUME TypeOK, WellFormed, ReadingInvariant, Reading, GetLine, KeepMerging,
           inside \in NetLoops, inside' \in NetLoops, ~AtEnd => ~Closes(inside, NextLine),
           inside' \in {"outpin", "inpin"} => Wraps(NextLine),
           NEW new, new.text = lists[phase].text, ListNames(new) = ListNames(lists[phase]),
           Findable(new) = Findable(lists[phase]),
           lists'[phase] = new, \A g \in Files \ {phase} : lists'[g] = lists[g]
    PROVE  ReadingInvariant'
  <1> DEFINE d == design[phase]
  <1>1. /\ phase' = phase /\ design' = design /\ cut' = cut
        /\ inside \in Loops /\ inside' \in Loops /\ inside # "top" /\ inside' # "top"
        /\ Loop(inside) = "net" /\ Loop(inside') = "net"
    BY DEF KeepMerging, input, Loops, NetLoops, Loop
  <1>2. PICK n, j : SoFar(n, j)
    BY DEF ReadingInvariant
  <1>3. Place(n, j)
    BY <1>2 DEF SoFar
  <1>4. Whole => ~AtEnd /\ Holds(new, d, n, j + 1)
    <2> SUFFICES ASSUME Whole
                 PROVE  ~AtEnd /\ Holds(new, d, n, j + 1)
      OBVIOUS
    <2>1. /\ Holds(lists[phase], d, n, j) /\ d \in Designs /\ ~AtEnd
          /\ n \in 0 .. Len(d) - 1 /\ j \in Nat \ {0} /\ Loop(inside) = d[n + 1][1].first
      BY <1>1, <1>2, WholeLine
    <2>2. d[n + 1][1].first = "net"
      BY <1>1, <2>1
    <2> HIDE DEF d
    <2> QED BY <2>1, <2>2, WithinNet
  <1> HIDE DEF d
  <1>5. CASE AtEnd
    <2>1. Place(n, j)'
      BY <1>1, <1>3, <1>5, TurnAtEnd
    <2>2. SoFar(n, j)'
      BY <1>1, <1>4, <1>5, <2>1 DEF SoFar, Whole
    <2> QED BY <2>2, TurnKeepsReading
  <1>6. CASE ~AtEnd
    <2>1. Place(n, j + 1)'
      BY <1>1, <1>3, <1>6, TurnInside
    <2>2. SoFar(n, j + 1)'
      BY <1>1, <1>4, <2>1 DEF SoFar, Whole, d
    <2> QED BY <2>2, TurnKeepsReading
  <1> QED BY <1>5, <1>6

LEMMA UpdateKeepsReading ==
    ASSUME TypeOK, WellFormed, ReadingInvariant, Reading, GetLine, KeepMerging,
           inside \in NetLoops, inside' = "net", ~AtEnd => ~Closes(inside, NextLine),
           NEW net \in NetType, net.name = LastNet(lists[phase]).name, Update(net)
    PROVE  ReadingInvariant'
  <1> DEFINE list == lists[phase]
             new  == UpdateLast(list, net)
  <1>1. IsNetList(list) /\ list.netList # <<>>
    BY InANet
  <1>2. Len(list.netList) \in DOMAIN list.netList
    BY <1>1 DEF IsNetList
  <1>3. /\ new.text = list.text /\ ListNames(new) = ListNames(list)
        /\ Findable(new) = Findable(list)
    BY <1>1, <1>2, UpdateSeen DEF UpdateLast, LastNet
  <1>4. lists'[phase] = new /\ \A g \in Files \ {phase} : lists'[g] = lists[g]
    BY OwnList DEF Update
  <1> HIDE DEF new
  <1>5. inside' \in NetLoops /\ inside' \notin {"outpin", "inpin"}
    BY DEF NetLoops
  <1> QED BY <1>3, <1>4, <1>5, NetTurnKeepsReading

LEMMA AddPinKeepsReading ==
    ASSUME TypeOK, WellFormed, ReadingInvariant, Reading, GetLine, KeepMerging,
           inside \in NetLoops, inside' = "net", ~AtEnd => ~Closes(inside, NextLine),
           NEW kind, NEW pin \in PinType, AddPin(kind, pin)
    PROVE  ReadingInvariant'
  <1> DEFINE net == IF kind = "inpin" THEN AddInPin(LastNet(lists[phase]), pin)
                    ELSE AddOutPin(LastNet(lists[phase]), pin)
  <1>1. net \in NetType /\ net.name = LastNet(lists[phase]).name
    BY InANet, AddedPins
  <1>2. Update(net)
    BY DEF AddPin
  <1> HIDE DEF net
  <1> QED BY <1>1, <1>2, UpdateKeepsReading

LEMMA SkipInNetKeepsReading ==
    ASSUME TypeOK, WellFormed, ReadingInvariant, SkipInNet
    PROVE  ReadingInvariant'
  <1>1. /\ Reading /\ GetLine /\ KeepMerging /\ inside = "net" /\ inside' = "net"
        /\ lists' = lists /\ ~Closes(inside, NextLine)
    BY DEF SkipInNet, Turns, Closes
  <1>2. inside \in NetLoops /\ inside' \in NetLoops /\ inside' \notin {"outpin", "inpin"}
    BY <1>1 DEF NetLoops
  <1> QED BY <1>1, <1>2, NetTurnKeepsReading

LEMMA ReadPinKeepsReading ==
    ASSUME TypeOK, WellFormed, ReadingInvariant, ReadPin
    PROVE  ReadingInvariant'
  <1>1. /\ Reading /\ GetLine /\ KeepMerging /\ inside = "net" /\ inside \in NetLoops
        /\ NextLine.first \in {"outpin", "inpin"} /\ ~Closes(inside, NextLine)
    BY DEF ReadPin, Turns, Closes, NetLoops
  <1>2. CASE NextLine.at = NoText
    <2>1. inside' = NextLine.first /\ lists' = lists
      BY <1>2 DEF ReadPin
    <2>2. inside' \in NetLoops /\ Wraps(NextLine)
      BY <1>1, <1>2, <2>1 DEF NetLoops, Wraps
    <2> QED BY <1>1, <2>1, <2>2, NetTurnKeepsReading
  <1>3. CASE NextLine.at # NoText
    <2>1. inside' = "net" /\ AddPin(NextLine.first, Pin(NextLine.says, NextLine.at))
      BY <1>1, <1>3 DEF ReadPin
    <2>2. Pin(NextLine.says, NextLine.at) \in PinType
      BY <1>1, InANet DEF Pin, PinType, LineType
    <2> QED BY <1>1, <2>1, <2>2, AddPinKeepsReading
  <1> QED BY <1>2, <1>3

LEMMA ReadPositionKeepsReading ==
    ASSUME TypeOK, WellFormed, ReadingInvariant, ReadPosition
    PROVE  ReadingInvariant'
  <1>1. /\ Reading /\ GetLine /\ KeepMerging /\ inside \in {"outpin", "inpin"} /\ inside' = "net"
        /\ AddPin(inside, Pin(pinName, Word(NextLine))) /\ pinName \in Text
    BY DEF ReadPosition, TypeOK, ReaderTypes
  <1>2. inside \in NetLoops
    BY <1>1 DEF NetLoops
  <1>3. Pin(pinName, Word(NextLine)) \in PinType
    BY <1>1, <1>2, InANet DEF Pin, PinType, Word, LineType
  <1>4. ~AtEnd => ~Closes(inside, NextLine)
    <2> SUFFICES ASSUME ~AtEnd
                 PROVE  ~Closes(inside, NextLine)
      OBVIOUS
    <2>1. PICK n, j : Place(n, j)
      BY <1>1 DEF ReadingInvariant, SoFar
    <2>2. design[phase][n + 1][j + 1].first = "text"
      BY <1>1, <2>1 DEF Place
    <2>3. NextLine.first = "text"
      BY <1>1, <2>1, <2>2, NextInPlace
    <2> QED BY <1>1, <2>3 DEF Closes
  <1> QED BY <1>1, <1>2, <1>3, <1>4, AddPinKeepsReading

LEMMA ReadPipKeepsReading ==
    ASSUME TypeOK, WellFormed, ReadingInvariant, ReadPip
    PROVE  ReadingInvariant'
  <1> DEFINE pip == NewPip(NextLine, phase, pos + 1)
             net == InsertPip(LastNet(lists[phase]), pip)
  <1>1. /\ Reading /\ GetLine /\ KeepMerging /\ inside = "net" /\ inside' = "net"
        /\ Update(net) /\ ~Closes(inside, NextLine) /\ inside \in NetLoops /\ pos \in Nat
    BY DEF ReadPip, Turns, Closes, NetLoops, TypeOK, ReaderTypes
  <1>2. NextLine \in LineType /\ phase \in Files /\ LastNet(lists[phase]) \in NetType
    BY <1>1, InANet
  <1>3. pip \in PipType
    BY <1>1, <1>2 DEF NewPip, PipType, LineType, Files
  <1> HIDE DEF pip
  <1>4. net \in NetType /\ net.name = LastNet(lists[phase]).name
    BY <1>2, <1>3, InsertedPip
  <1> HIDE DEF net
  <1> QED BY <1>1, <1>4, UpdateKeepsReading

LEMMA CloseNetKeepsReading ==
    ASSUME TypeOK, WellFormed, ReadingInvariant, CloseNet
    PROVE  ReadingInvariant'
  <1> DEFINE d    == design[phase]
             list == lists[phase]
             new  == RegisterLast(list)
  <1>1. /\ Reading /\ GetLine /\ KeepMerging /\ inside = "net" /\ inside' = "top"
        /\ Closes(inside, NextLine) /\ lists' = [lists EXCEPT ![phase] = new]
        /\ phase' = phase /\ design' = design /\ cut' = cut
    BY DEF CloseNet, Turns, KeepMerging, input
  <1>2. inside \in Loops /\ inside \in NetLoops /\ inside # "top" /\ Loop(inside) = "net"
    BY <1>1 DEF Loops, NetLoops, Loop
  <1>3. IsNetList(list) /\ list.netList # <<>>
    BY <1>1, <1>2, InANet
  <1>4. PICK n, j : SoFar(n, j)
    BY <1>1 DEF ReadingInvariant
  <1>5. Place(n + 1, 0)'
    <2>1. Place(n, j)
      BY <1>4 DEF SoFar
    <2> QED BY <1>1, <1>2, <2>1, TurnCloses
  <1>6. lists'[phase] = new /\ \A g \in Files \ {phase} : lists'[g] = lists[g]
    BY <1>1, OwnList
  <1>7. Whole => Holds(new, d, n + 1, 0)
    <2> SUFFICES ASSUME Whole
                 PROVE  Holds(new, d, n + 1, 0)
      OBVIOUS
    <2>1. /\ Holds(list, d, n, j) /\ d \in Designs /\ n \in 0 .. Len(d) - 1
          /\ j \in Nat \ {0} /\ Loop(inside) = d[n + 1][1].first
      BY <1>1, <1>2, <1>4, WholeLine
    <2>2. d[n + 1][1].first = "net"
      BY <1>2, <2>1
    <2> HIDE DEF d, list
    <2> QED BY <1>3, <2>1, <2>2, NetClosed
  <1> HIDE DEF new
  <1>8. SoFar(n + 1, 0)'
    BY <1>1, <1>5, <1>6, <1>7 DEF SoFar, Whole
  <1> QED BY <1>1, <1>6, <1>8, TurnKeepsReading

\* Nothing is claimed of a process that has aborted.
LEMMA AbortKeepsReading ==
    ASSUME ReadingInvariant, phase # "done", Abort
    PROVE  ReadingInvariant'
  <1>1. phase' = "aborted" /\ result' = result /\ result = "none"
    BY DEF Abort, ReadingInvariant
  <1> QED BY <1>1 DEF ReadingInvariant, Reading, Files

LEMMA ReadKeepsReading ==
    ASSUME MergeInvariant, WellFormed, ReadingInvariant, Read
    PROVE  ReadingInvariant'
  <1>1. TypeOK
    BY DEF MergeInvariant
  <1>2. CASE BlankAborts \/ ShortLineAborts
    <2>1. phase # "done" /\ Abort
      BY <1>2 DEF BlankAborts, ShortLineAborts, Turns, Reading, Files
    <2> QED BY <2>1, AbortKeepsReading
  <1> QED BY <1>1, <1>2, TopLevelKeepsReading, EndOfFileKeepsReading, CopyStatementKeepsReading,
             SkipInNetKeepsReading, CloseNetKeepsReading, ReadPinKeepsReading,
             ReadPositionKeepsReading, ReadPipKeepsReading
          DEF Read

\* A clock net that the partial design has not is added behind its nets.
LEMMA MissingSteps ==
    ASSUME TypeOK, NEW n, clock <= Len(clkNetNames),
           NamesOf(design["partial"], n) \in Seq(Text)
    PROVE  LET names == NamesOf(design["partial"], n)
               name  == clkNetNames[clock]
           IN  /\ name \in Range(names) => Missing(n, clock) = Missing(n, clock - 1)
               /\ name \notin Range(names) =>
                     names \o Missing(n, clock) = Append(names \o Missing(n, clock - 1), name)
  <1> DEFINE names == NamesOf(design["partial"], n)
             name  == clkNetNames[clock]
             k     == clock - 1
             S     == Range(clkNetNames) \ Range(names)
             before == Missing(n, k)
             after  == Missing(n, clock)
  <1>1. /\ clkNetNames \in Seq(Text) /\ k \in 0 .. Len(clkNetNames) - 1 /\ k + 1 = clock
        /\ k \in 0 .. Len(clkNetNames) /\ clock \in DOMAIN clkNetNames /\ name \in Text
    BY ClockMergeAssumption DEF TypeOK, InputTypes
  <1>2. name \in S <=> name \notin Range(names)
    BY <1>1 DEF Range
  <1>3. before = Selected(SubSeq(clkNetNames, 1, k), S)
    BY DEF Missing
  <1>4. after = Selected(SubSeq(clkNetNames, 1, k + 1), S)
    BY <1>1 DEF Missing
  <1> HIDE DEF S, k, before, after
  <1>5. /\ clkNetNames[k + 1] \in S => after = Append(before, clkNetNames[k + 1])
        /\ clkNetNames[k + 1] \notin S => after = before
    BY <1>1, <1>3, <1>4, SelectedStep
  <1>6. before \in Seq(Text)
    BY <1>1, <1>3, SelectedElements
  <1>7. ASSUME name \notin Range(names)
        PROVE  names \o after = Append(names \o before, name)
    <2>1. after = Append(before, name)
      BY <1>1, <1>2, <1>5, <1>7
    <2>2. names \in Seq(Text) /\ name \in Text
      BY <1>1
    <2> HIDE DEF names, name
    <2>3. /\ after \in Seq(Text) /\ Len(before) \in 0 .. Len(after) - 1
          /\ Len(before) + 1 = Len(after) /\ SubSeq(after, 1, Len(after)) = after
          /\ SubSeq(after, 1, Len(before)) = before /\ after[Len(before) + 1] = name
      BY <1>6, <2>1, <2>2
    <2>4. names \o SubSeq(after, 1, Len(before) + 1)
             = Append(names \o SubSeq(after, 1, Len(before)), after[Len(before) + 1])
      BY <2>2, <2>3
    <2> QED BY <2>3, <2>4
  <1> QED BY <1>1, <1>2, <1>5, <1>7 DEF k, before, after

\* What merging adds to the partial design's list, if the step is to be as PartialRead says.
LEMMA MergingKeepsReading ==
    ASSUME TypeOK, ReadingInvariant, Merging, NextClock,
           NEW new, lists' = [lists EXCEPT !["partial"] = new],
           new.text = lists["partial"].text, Findable(new) = Findable(lists["partial"]),
           LET name  == clkNetNames[clock]
               names == ListNames(lists["partial"])
           IN  ListNames(new) = IF name \in Findable(lists["partial"]) THEN names
                                ELSE Append(names, name)
    PROVE  ReadingInvariant'
  <1>1. /\ phase = "merge" /\ phase' = "merge" /\ design' = design /\ cut' = cut
        /\ clkNetNames' = clkNetNames /\ result' = result /\ clock' = clock + 1
        /\ clock <= Len(clkNetNames) /\ clock \in Nat
    BY DEF Merging, NextClock, input, TypeOK
  <1>2. lists'["partial"] = new /\ lists'["static"] = lists["static"]
    BY DEF TypeOK, ListTypes, Files
  <1>3. result = "none"
    BY <1>1 DEF ReadingInvariant, TypeOK
  <1>4. PICK m : StaticRead(m)
    BY <1>1 DEF ReadingInvariant
  <1>5. PICK n : PartialRead(n)
    BY <1>1 DEF ReadingInvariant
  <1>6. \A f, l : EndsAt(f, l) => EndsAt(f, l)'
    BY <1>1 DEF EndsAt, NoneTooLong
  <1>7. StaticRead(m)'
    BY <1>1, <1>2, <1>4, <1>6 DEF StaticRead, Whole
  <1> DEFINE d     == design["partial"]
             names == NamesOf(d, n)
             name  == clkNetNames[clock]
  <1>8. names \in Seq(Text)
    <2>1. d \in Designs /\ n \in 0 .. Len(d)
      BY <1>5, FileIsDesign DEF TypeOK, Files, PartialRead, EndsAt
    <2> QED BY <2>1, HoldsBetween
  <1>9. /\ name \in Range(names) => Missing(n, clock) = Missing(n, clock - 1)
        /\ name \notin Range(names) =>
              names \o Missing(n, clock) = Append(names \o Missing(n, clock - 1), name)
    BY <1>1, <1>8, MissingSteps
  <1>10. Whole => /\ new.text = TextOf(d, n) /\ Findable(new) = Range(names)
                  /\ ListNames(new) = names \o Missing(n, clock)
    BY <1>5, <1>9 DEF PartialRead
  <1>11. Missing(n, clock - 1)' = Missing(n, clock)
    <2>1. clock' - 1 = clock
      BY <1>1
    <2> QED BY <1>1, <2>1 DEF Missing
  <1>12. PartialRead(n)'
    BY <1>1, <1>2, <1>5, <1>6, <1>10, <1>11 DEF PartialRead, Whole
  <1> QED BY <1>1, <1>3, <1>7, <1>12 DEF ReadingInvariant, Reading, Files

LEMMA MergeClockNetKeepsReading ==
    ASSUME TypeOK, ReadingInvariant, MergeClockNet
    PROVE  ReadingInvariant'
  <1> DEFINE list == lists["partial"]
  <1>1. Merging /\ NextClock
    BY DEF MergeClockNet
  <1>2. PICK s \in InStatic, p \in InPartial :
           lists' = [lists EXCEPT !["partial"] =
                       UpdateNet(@, p, MergePips(@.netList[p], StaticNet(s)))]
    BY DEF MergeClockNet
  <1>3. IsNetList(list) /\ IsNetList(lists["static"])
    BY DEF TypeOK, ListTypes, Files
  <1>4. /\ p \in DOMAIN list.netList /\ list.netList[p] \in NetType /\ StaticNet(s) \in NetType
        /\ clkNetNames[clock] \in Findable(list)
    <2>1. p \in list.netToPip /\ s \in lists["static"].netToPip
          /\ list.netList[p].name = clkNetNames[clock]
      BY DEF InPartial, InStatic, FindNet
    <2> QED BY <1>3, <2>1 DEF IsNetList, StaticNet, Findable
  <1> DEFINE net == MergePips(list.netList[p], StaticNet(s))
             new == UpdateNet(list, p, net)
  <1>5. net \in NetType /\ net.name = list.netList[p].name
    <2>1. StaticNet(s).pips \in SUBSET PipType
      BY <1>4 DEF NetType
    <2> QED BY <1>4, <2>1, MergedPips
  <1>6. lists' = [lists EXCEPT !["partial"] = new]
    BY <1>2 DEF TypeOK, ListTypes, Files
  <1> HIDE DEF net
  <1>7. new.text = list.text /\ ListNames(new) = ListNames(list) /\ Findable(new) = Findable(list)
    BY <1>3, <1>4, <1>5, UpdateSeen
  <1> HIDE DEF new
  <1> QED BY <1>1, <1>4, <1>6, <1>7, MergingKeepsReading

LEMMA CopyClockNetKeepsReading ==
    ASSUME TypeOK, ReadingInvariant, CopyClockNet
    PROVE  ReadingInvariant'
  <1> DEFINE list == lists["partial"]
  <1>1. Merging /\ NextClock /\ InPartial = {}
    BY DEF CopyClockNet
  <1>2. PICK s \in InStatic, configure \in BOOLEAN :
           \E copy \in ClearInPins(CopyNet(StaticNet(s), configure)) :
              lists' = [lists EXCEPT !["partial"] = InsertNet(@, MergePips(copy, StaticNet(s)))]
    BY DEF CopyClockNet
  <1>3. PICK copy \in ClearInPins(CopyNet(StaticNet(s), configure)) :
           lists' = [lists EXCEPT !["partial"] = InsertNet(@, MergePips(copy, StaticNet(s)))]
    BY <1>2
  <1>4. IsNetList(list) /\ IsNetList(lists["static"])
    BY DEF TypeOK, ListTypes, Files
  <1>5. StaticNet(s) \in NetType /\ StaticNet(s).name = clkNetNames[clock]
    <2>1. s \in lists["static"].netToPip /\ lists["static"].netList[s].name = clkNetNames[clock]
      BY DEF InStatic, FindNet
    <2> QED BY <1>4, <2>1 DEF IsNetList, StaticNet
  <1> DEFINE net == MergePips(copy, StaticNet(s))
             new == InsertNet(list, net)
  <1>6. net \in NetType /\ net.name = clkNetNames[clock]
    <2>1. copy \in NetType /\ copy.name = StaticNet(s).name
      BY <1>5, CopiedNet
    <2>2. StaticNet(s).pips \in SUBSET PipType
      BY <1>5 DEF NetType
    <2> QED BY <1>5, <2>1, <2>2, MergedPips
  <1>7. lists' = [lists EXCEPT !["partial"] = new]
    BY <1>3 DEF TypeOK, ListTypes, Files
  <1> HIDE DEF net
  <1>8. /\ new.text = list.text /\ ListNames(new) = Append(ListNames(list), clkNetNames[clock])
        /\ Findable(new) = Findable(list)
    BY <1>4, <1>6, InsertSeen
  <1>9. clkNetNames[clock] \notin Findable(list)
    BY <1>1, <1>4, NamesOfList DEF InPartial
  <1> HIDE DEF new
  <1> QED BY <1>1, <1>7, <1>8, <1>9, MergingKeepsReading

\* The end, with the nets printed or without.
LEMMA ReturnKeepsReading ==
    ASSUME TypeOK, ReadingInvariant, NotInStatic \/ PrintNets
    PROVE  ReadingInvariant'
  <1>1. /\ phase = "merge" /\ phase' = "done" /\ design' = design /\ cut' = cut
        /\ clkNetNames' = clkNetNames /\ clock' = clock
    BY DEF NotInStatic, PrintNets, Merging, Return, input
  <1>2. PICK m : StaticRead(m)
    BY <1>1 DEF ReadingInvariant
  <1>3. PICK n : PartialRead(n)
    BY <1>1 DEF ReadingInvariant
  <1>4. /\ \A f, l : EndsAt(f, l) => EndsAt(f, l)'
        /\ Missing(n, clock - 1)' = Missing(n, clock - 1)
    BY <1>1 DEF EndsAt, NoneTooLong, Missing
  <1>5. CASE NotInStatic
    <2>1. lists' = lists /\ result' = "false" /\ InStatic = {} /\ clock <= Len(clkNetNames)
      BY <1>5 DEF NotInStatic, Return, Merging
    <2>2. clkNetNames[clock] \notin Findable(lists["static"])
      BY <2>1, NamesOfList DEF InStatic, TypeOK, ListTypes, Files
    <2>3. clock \in 1 .. Len(clkNetNames)
      BY <2>1, ClockMergeAssumption DEF TypeOK, InputTypes
    <2>4. StaticRead(m)' /\ PartialRead(n)'
      BY <1>1, <1>2, <1>3, <1>4, <2>1 DEF StaticRead, PartialRead, Whole
    <2> QED BY <1>1, <2>1, <2>2, <2>3, <2>4 DEF ReadingInvariant, Reading, Files
  <1>6. CASE PrintNets
    <2> DEFINE list == lists["partial"]
               new  == PrintData(list)
    <2>1. result' = "true" /\ clock > Len(clkNetNames) /\ lists' = [lists EXCEPT !["partial"] = new]
      BY <1>6 DEF PrintNets, Return, TypeOK, ListTypes, Files
    <2>2. lists'["partial"] = new /\ lists'["static"] = lists["static"]
      BY <2>1 DEF TypeOK, ListTypes, Files
    <2>3. clock = Len(clkNetNames) + 1
      <3> DEFINE N == Len(clkNetNames)
      <3>1. clkNetNames \in Seq(Text)
        BY ClockMergeAssumption DEF TypeOK, InputTypes
      <3>2. N \in Nat
        BY <3>1
      <3>3. clock \in 1 .. N + 1 /\ clock > N
        BY <2>1 DEF TypeOK
      <3> HIDE DEF N
      <3>4. clock = N + 1
        BY <3>2, <3>3
      <3> QED BY <3>4 DEF N
    <2>4. /\ new.text = list.text /\ ListNames(new) = ListNames(list)
          /\ Findable(new) = Findable(list)
          /\ [i \in DOMAIN new.printed |-> new.printed[i].name] = ListNames(list)
      BY PrintSeen DEF TypeOK, ListTypes, Files
    <2> HIDE DEF new
    <2>5. StaticRead(m)'
      BY <1>1, <1>2, <1>4, <2>2 DEF StaticRead, Whole
    <2>6. PartialRead(n)'
      BY <1>1, <1>3, <1>4, <2>2, <2>4 DEF PartialRead, Whole
    <2>7. [i \in DOMAIN Merged |-> Merged[i].name]' = ListNames(lists["partial"])'
      BY <2>2, <2>4 DEF Merged
    <2> QED BY <1>1, <2>1, <2>3, <2>5, <2>6, <2>7 DEF ReadingInvariant, Reading, Files
  <1> QED BY <1>5, <1>6

LEMMA NextKeepsReading ==
    ASSUME MergeInvariant, WellFormed, ReadingInvariant, [Next]_vars
    PROVE  ReadingInvariant'
  <1>1. TypeOK
    BY DEF MergeInvariant
  <1>2. CASE Read
    BY <1>2, ReadKeepsReading
  <1>3. CASE ClearInPinsCrashes
    <2>1. phase # "done" /\ Abort
      BY <1>3 DEF ClearInPinsCrashes, Merging
    <2> QED BY <2>1, AbortKeepsReading
  <1>4. CASE UNCHANGED vars
    <2>1. /\ phase' = phase /\ design' = design /\ cut' = cut /\ clkNetNames' = clkNetNames
          /\ pos' = pos /\ temp' = temp /\ eof' = eof /\ inside' = inside
          /\ lists' = lists /\ clock' = clock /\ result' = result
      BY <1>4 DEF vars, input, reader
    <2>2. /\ \A f, l : EndsAt(f, l) => EndsAt(f, l)'
          /\ \A n, k : Missing(n, k)' = Missing(n, k)
          /\ Whole' <=> Whole
      BY <2>1 DEF EndsAt, NoneTooLong, Missing, Whole
    <2>3. \A n, j : SoFar(n, j) => SoFar(n, j)'
      <3>1. AtEnd' <=> AtEnd
        BY <2>1 DEF AtEnd, File, Lines, LastLine
      <3>2. \A n, j : Place(n, j) => Place(n, j)'
        BY <2>1, <3>1 DEF Place, NoneTooLong
      <3> QED BY <2>1, <2>2, <3>2 DEF SoFar
    <2>4. \A n : (StaticRead(n) => StaticRead(n)') /\ (PartialRead(n) => PartialRead(n)')
      BY <2>1, <2>2 DEF StaticRead, PartialRead
    <2> QED BY <2>1, <2>3, <2>4 DEF ReadingInvariant, Reading, Merged
  <1> QED BY <1>1, <1>2, <1>3, <1>4, MergeClockNetKeepsReading, CopyClockNetKeepsReading,
             ReturnKeepsReading
          DEF Next, Merge

LEMMA ReadingStarts == ASSUME Init PROVE ReadingInvariant
  <1>1. /\ phase = "static" /\ pos = 0 /\ inside = "top" /\ result = "none"
        /\ lists = [f \in Files |-> EmptyList]
    BY DEF Init
  <1> DEFINE d == design["static"]
  <1>2. d \in Designs
    BY ClockMergeAssumption DEF Init, Designs
  <1>3. 0 \in 0 .. Len(d) /\ Start(d, 0) = 0
    <2>1. d \in Seq(Seq(LineType))
      BY <1>2 DEF Designs
    <2>2. Prefix(d, 0) = <<>> /\ Len(d) \in Nat
      BY <2>1, PrefixSteps
    <2> QED BY <2>2 DEF Start
  <1>4. Place(0, 0)
    <2>1. NoneTooLong("static", 0)
      BY DEF NoneTooLong
    <2> QED BY <1>1, <1>3, <2>1 DEF Place
  <1>5. Holds(EmptyList, d, 0, 0)
    BY <1>2, NothingRead
  <1>6. SoFar(0, 0)
    BY <1>1, <1>4, <1>5 DEF SoFar, Files
  <1> QED BY <1>1, <1>6 DEF ReadingInvariant, Reading, Files

\* Designs do not change, and well-formed ones are read as they are.
LEMMA ReadingStep ==
    ASSUME MergeInvariant, WellFormed => ReadingInvariant, [Next]_vars
    PROVE  WellFormed' => ReadingInvariant'
  <1>1. design' = design
    <2>1. CASE UNCHANGED vars
      BY <2>1 DEF vars, input
    <2>2. CASE Read
      BY <2>2 DEF Read, TopLevel, EndOfFile, CopyStatement, BlankAborts, SkipInNet, CloseNet,
                  ReadPin, ReadPosition, ReadPip, ShortLineAborts, KeepMerging, Abort, input
    <2>3. CASE Merge
      BY <2>3 DEF Merge, MergeClockNet, CopyClockNet, ClearInPinsCrashes, NotInStatic,
                  PrintNets, NextClock, Abort, Return, input
    <2> QED BY <2>1, <2>2, <2>3 DEF Next
  <1>2. WellFormed' <=> WellFormed
    BY <1>1 DEF WellFormed
  <1> QED BY <1>2, NextKeepsReading

\* Both files are read to where they end, or to a line that does not fit, and what has been
\* read of them is in the lists (AntiCoreBase.cpp 950-1131, NetList.cpp 50-220).
THEOREM ReadingInvariantHolds == Spec => [](WellFormed => ReadingInvariant)
  <1> DEFINE Inv == MergeInvariant /\ (WellFormed => ReadingInvariant)
  <1>1. Init => Inv
    BY InitMerge, ReadingStarts
  <1>2. Inv /\ [Next]_vars => Inv'
    BY NextMerge, ReadingStep
  <1>3. Inv => (WellFormed => ReadingInvariant)
    OBVIOUS
  <1> HIDE DEF Inv
  <1> QED BY <1>1, <1>2, <1>3, PTL DEF Spec

\* What a file that has been read whole has in it, by what its list has.
LEMMA ReadToTheEnd ==
    ASSUME TypeOK, Whole, NEW f \in Files, NEW n, EndsAt(f, n)
    PROVE  /\ NetNames(f) = NamesOf(design[f], n)
           /\ FlattenSeq(Selected(Statements(f), TextsIn(design[f]))) = TextOf(design[f], n)
  <1>1. cut.file # f
    BY DEF Whole, NotCut, Files
  <1>2. Statements(f) = SubSeq(design[f], 1, n)
    BY <1>1, StatementsRead DEF TypeOK
  <1> QED BY <1>2 DEF NetNames, Nets, NamesOf, NetsOf, TextOf

\* A file that was cut off within a statement is not reported as merged: topLevelParser's loops
\* end with their statements only (AntiCoreBase.cpp 963-1125).
THEOREM CutIsNotMergedAlways == Spec => [](WellFormed => CutIsNotMerged)
  <1>1. ASSUME TypeOK, ReadingInvariant
        PROVE  CutIsNotMerged
    <2> SUFFICES ASSUME result = "true", cut.file \in Files
                 PROVE  \/ cut.kept \in StatementEnds(cut.file)
                        \/ /\ TooLongAt(cut.file) # {}
                           /\ cut.kept > Len(FlattenSeq(Statements(cut.file)))
      BY DEF CutIsNotMerged
    <2>1. phase = "done"
      BY <1>1 DEF ReadingInvariant
    <2>2. PICK m, n : StaticRead(m) /\ PartialRead(n)
      BY <1>1, <2>1 DEF ReadingInvariant
    <2>3. \E k : EndsAt(cut.file, k)
      BY <2>2 DEF StaticRead, PartialRead, Files
    <2> QED BY <1>1, <2>3, CutAtTheEnd DEF TypeOK
  <1>2. MergeInvariant /\ (WellFormed => ReadingInvariant) => (WellFormed => CutIsNotMerged)
    BY <1>1 DEF MergeInvariant
  <1> QED BY <1>2, MergeInvariantHolds, ReadingInvariantHolds, PTL

\* A merge of whole files that gives up really lacks a clock net in the static file, as far as
\* that is read (AntiCoreBase.cpp 1177-1184).
THEOREM FalseIsHonestAlways == Spec => [](WellFormed => FalseIsHonest)
  <1>1. ASSUME TypeOK, ReadingInvariant
        PROVE  FalseIsHonest
    <2> SUFFICES ASSUME result = "false", Whole
                 PROVE  ~(Range(clkNetNames) \subseteq Range(NetNames("static")))
      BY DEF FalseIsHonest
    <2>1. PICK k \in 1 .. Len(clkNetNames) : clkNetNames[k] \notin Findable(lists["static"])
      BY <1>1 DEF ReadingInvariant
    <2>2. PICK n : StaticRead(n)
      BY <1>1 DEF ReadingInvariant
    <2> DEFINE d == design["static"]
    <2>3. NetNames("static") = NamesOf(d, n) /\ EndsAt("static", n)
      BY <1>1, <2>2, ReadToTheEnd DEF StaticRead, Files
    <2>4. Findable(lists["static"]) = Range(NamesOf(d, n))
      BY <2>2 DEF StaticRead, Holds
    <2>5. clkNetNames[k] \in Range(clkNetNames)
      BY <1>1, ClockMergeAssumption DEF TypeOK, InputTypes, Range
    <2> QED BY <2>1, <2>3, <2>4, <2>5
  <1>2. MergeInvariant /\ (WellFormed => ReadingInvariant) => (WellFormed => FalseIsHonest)
    BY <1>1 DEF MergeInvariant
  <1> QED BY <1>2, MergeInvariantHolds, ReadingInvariantHolds, PTL

\* The file merged from whole ones has all text of the partial design that was read, in order,
\* each of its nets once and in order, and then the clock nets it lacked, once for each time
\* they are listed (NetList.cpp 50-220, 224-232, AntiCoreBase.cpp 1170-1193).
THEOREM PartialDesignKeptAlways == Spec => [](WellFormed => PartialDesignKept)
  <1>1. ASSUME TypeOK, ReadingInvariant
        PROVE  PartialDesignKept
    <2> DEFINE d == design["partial"]
    <2> SUFFICES ASSUME result = "true", Whole
                 PROVE  /\ lists["partial"].text = FlattenSeq(Selected(Statements("partial"), TextsIn(d)))
                        /\ [i \in DOMAIN Merged |-> Merged[i].name] =
                              NetNames("partial") \o
                                 Selected(clkNetNames, Range(clkNetNames) \ Range(NetNames("partial")))
      BY DEF PartialDesignKept
    <2>1. /\ phase = "done" /\ clock = Len(clkNetNames) + 1
          /\ [i \in DOMAIN Merged |-> Merged[i].name] = ListNames(lists["partial"])
      BY <1>1 DEF ReadingInvariant
    <2>2. PICK n : PartialRead(n)
      BY <1>1, <2>1 DEF ReadingInvariant
    <2>3. /\ NetNames("partial") = NamesOf(d, n)
          /\ FlattenSeq(Selected(Statements("partial"), TextsIn(d))) = TextOf(d, n)
      BY <1>1, <2>2, ReadToTheEnd DEF PartialRead, Files
    <2>4. Missing(n, clock - 1) =
             Selected(clkNetNames, Range(clkNetNames) \ Range(NamesOf(d, n)))
      <3>1. clkNetNames \in Seq(Text) /\ clock - 1 = Len(clkNetNames)
        BY <1>1, <2>1, ClockMergeAssumption DEF TypeOK, InputTypes
      <3> QED BY <3>1, SelectedAll DEF Missing
    <2> QED BY <2>1, <2>2, <2>3, <2>4 DEF PartialRead
  <1>2. MergeInvariant /\ (WellFormed => ReadingInvariant) => (WellFormed => PartialDesignKept)
    BY <1>1 DEF MergeInvariant
  <1> QED BY <1>2, MergeInvariantHolds, ReadingInvariantHolds, PTL

-----------------------------------------------------------------------------
\* The contents of nets.

\* The pins and the pips of a net that j lines of its statement have: a pin is read when
\* its position is.
PinAt(s, i) == Pin(s[i].says, IF s[i].at = NoText THEN s[i + 1].says ELSE s[i].at)
PinsRead(s, kind, j) ==
    {PinAt(s, i) : i \in {k \in 1 .. j : s[k].first = kind /\ (Wraps(s[k]) => k < j)}}
PipsRead(s, j) == {s[i].says : i \in {k \in 1 .. j : s[k].first = "pip"}}

SaysOnce(pips) == \A p, q \in pips : p.says = q.says => p = q

\* A net is that of j lines of a statement.
PinsHold(net, s, j) ==
    /\ net.name = s[1].says /\ net.cfg = s[1].at /\ (net.configure <=> s[1].at = "cfg")
    /\ net.outPins = PinsRead(s, "outpin", j) /\ net.inPins = PinsRead(s, "inpin", j)
NetHolds(net, s, j) ==
    PinsHold(net, s, j) /\ Texts(net.pips) = PipsRead(s, j) /\ SaysOnce(net.pips)

\* A whole statement's pins and pips have been read with its last line.
LEMMA AllIsRead ==
    ASSUME NEW s \in Seq(LineType), s # <<>>, s[1].first = "net", IsStatement(s)
    PROVE  /\ \A kind \in {"outpin", "inpin"} : PinsRead(s, kind, Len(s)) = PinsOf(s, kind)
           /\ PipsRead(s, Len(s)) = PipsOf(s)
  <1>1. DOMAIN s = 1 .. Len(s) /\ Len(s) \in Nat \ {0}
    OBVIOUS
  <1>2. s[Len(s)].first = ";"
    <2>1. Len(s) \in 1 .. Len(s)
      BY <1>1
    <2>2. Ends("net", s[Len(s)])
      BY <2>1 DEF IsStatement
    <2> QED BY <2>2 DEF Ends
  <1>3. \A k \in 1 .. Len(s) : Wraps(s[k]) => k < Len(s)
    <2> SUFFICES ASSUME NEW k \in 1 .. Len(s), Wraps(s[k])
                 PROVE  k < Len(s)
      OBVIOUS
    <2> DEFINE last == Len(s)
    <2>1. k # last /\ k \in 1 .. last /\ last \in Nat
      BY <1>1, <1>2 DEF Wraps
    <2> HIDE DEF last
    <2>2. k < last
      BY <2>1
    <2> QED BY <2>2 DEF last
  <1>4. ASSUME NEW kind \in {"outpin", "inpin"}
        PROVE  PinsRead(s, kind, Len(s)) = PinsOf(s, kind)
    <2>1. {k \in 1 .. Len(s) : s[k].first = kind /\ (Wraps(s[k]) => k < Len(s))}
             = {k \in DOMAIN s : s[k].first = kind}
      BY <1>1, <1>3
    <2> QED BY <2>1 DEF PinsRead, PinsOf, PinAt
  <1>5. PipsRead(s, Len(s)) = PipsOf(s)
    BY <1>1 DEF PipsRead, PipsOf, Range
  <1> QED BY <1>4, <1>5

\* What the next line of a net adds.
LEMMA LineAddsPin ==
    ASSUME NEW s, NEW j \in Nat \ {0}, NEW kind \in {"outpin", "inpin"}, ~Wraps(s[j])
    PROVE  /\ s[j + 1].first # kind \/ Wraps(s[j + 1])
                 => PinsRead(s, kind, j + 1) = PinsRead(s, kind, j)
           /\ s[j + 1].first = kind /\ ~Wraps(s[j + 1])
                 => PinsRead(s, kind, j + 1) = PinsRead(s, kind, j) \cup {PinAt(s, j + 1)}
  <1> DEFINE Rows(n) == {k \in 1 .. n : s[k].first = kind /\ (Wraps(s[k]) => k < n)}
  <1>1. /\ s[j + 1].first # kind \/ Wraps(s[j + 1]) => Rows(j + 1) = Rows(j)
        /\ s[j + 1].first = kind /\ ~Wraps(s[j + 1]) => Rows(j + 1) = Rows(j) \cup {j + 1}
    <2>1. \A k \in 1 .. j + 1 : k \in 1 .. j \/ k = j + 1
      OBVIOUS
    <2>2. \A k \in 1 .. j : k \in 1 .. j + 1 /\ k < j + 1 /\ (k < j \/ k = j)
      OBVIOUS
    <2>3. j + 1 \in 1 .. j + 1 /\ ~(j + 1 < j + 1) /\ j + 1 \notin 1 .. j
      OBVIOUS
    <2> QED BY <2>1, <2>2, <2>3
  <1>2. \A n : PinsRead(s, kind, n) = {PinAt(s, i) : i \in Rows(n)}
    BY DEF PinsRead
  <1> HIDE DEF Rows
  <1>3. \A i : {PinAt(s, k) : k \in Rows(j) \cup {i}}
                 = {PinAt(s, k) : k \in Rows(j)} \cup {PinAt(s, i)}
    OBVIOUS
  <1>4. /\ PinsRead(s, kind, j) = {PinAt(s, i) : i \in Rows(j)}
        /\ PinsRead(s, kind, j + 1) = {PinAt(s, i) : i \in Rows(j + 1)}
    BY <1>2
  <1> QED BY <1>1, <1>3, <1>4

LEMMA LineAddsPosition ==
    ASSUME NEW s, NEW j \in Nat \ {0}, NEW kind \in {"outpin", "inpin"}, Wraps(s[j]),
           s[j + 1].first = "text"
    PROVE  /\ s[j].first # kind => PinsRead(s, kind, j + 1) = PinsRead(s, kind, j)
           /\ s[j].first = kind =>
                 PinsRead(s, kind, j + 1) = PinsRead(s, kind, j) \cup {PinAt(s, j)}
  <1> DEFINE Rows(n) == {k \in 1 .. n : s[k].first = kind /\ (Wraps(s[k]) => k < n)}
  <1>1. /\ s[j].first # kind => Rows(j + 1) = Rows(j)
        /\ s[j].first = kind => Rows(j + 1) = Rows(j) \cup {j}
    <2>1. \A k \in 1 .. j + 1 : k \in 1 .. j \/ k = j + 1
      OBVIOUS
    <2>2. \A k \in 1 .. j : k \in 1 .. j + 1 /\ k < j + 1 /\ (k < j \/ k = j)
      OBVIOUS
    <2>3. j \in 1 .. j /\ ~(j < j) /\ s[j + 1].first # kind
      OBVIOUS
    <2> QED BY <2>1, <2>2, <2>3
  <1>2. \A n : PinsRead(s, kind, n) = {PinAt(s, i) : i \in Rows(n)}
    BY DEF PinsRead
  <1> HIDE DEF Rows
  <1>3. \A i : {PinAt(s, k) : k \in Rows(j) \cup {i}}
                 = {PinAt(s, k) : k \in Rows(j)} \cup {PinAt(s, i)}
    OBVIOUS
  <1>4. /\ PinsRead(s, kind, j) = {PinAt(s, i) : i \in Rows(j)}
        /\ PinsRead(s, kind, j + 1) = {PinAt(s, i) : i \in Rows(j + 1)}
    BY <1>2
  <1> QED BY <1>1, <1>3, <1>4

LEMMA LineAddsPip ==
    ASSUME NEW s, NEW j \in Nat
    PROVE  /\ s[j + 1].first # "pip" => PipsRead(s, j + 1) = PipsRead(s, j)
           /\ s[j + 1].first = "pip" => PipsRead(s, j + 1) = PipsRead(s, j) \cup {s[j + 1].says}
  <1> DEFINE Rows(n) == {k \in 1 .. n : s[k].first = "pip"}
  <1>1. /\ s[j + 1].first # "pip" => Rows(j + 1) = Rows(j)
        /\ s[j + 1].first = "pip" => Rows(j + 1) = Rows(j) \cup {j + 1}
    <2>1. \A k \in 1 .. j + 1 : k \in 1 .. j \/ k = j + 1
      OBVIOUS
    <2>2. \A k \in 1 .. j : k \in 1 .. j + 1
      OBVIOUS
    <2>3. j + 1 \in 1 .. j + 1
      OBVIOUS
    <2> QED BY <2>1, <2>2, <2>3
  <1>2. /\ PipsRead(s, j) = {s[i].says : i \in Rows(j)}
        /\ PipsRead(s, j + 1) = {s[i].says : i \in Rows(j + 1)}
    BY DEF PipsRead
  <1> HIDE DEF Rows
  <1>3. {s[i].says : i \in Rows(j) \cup {j + 1}} = {s[i].says : i \in Rows(j)} \cup {s[j + 1].says}
    OBVIOUS
  <1> QED BY <1>1, <1>2, <1>3

\* The first line, which has neither.
LEMMA NetBegins ==
    ASSUME NEW s, s[1].first = "net", s[1].says # NoText
    PROVE  NetHolds(Net(s[1]), s, 1) /\ ~Wraps(s[1])
  <1>1. \A k \in 1 .. 1 : k = 1
    OBVIOUS
  <1>2. /\ PinsRead(s, "outpin", 1) = {} /\ PinsRead(s, "inpin", 1) = {}
        /\ PipsRead(s, 1) = {}
    BY <1>1 DEF PinsRead, PipsRead
  <1>3. Texts({}) = {} /\ SaysOnce({})
    BY DEF Texts, SaysOnce
  <1> QED BY <1>2, <1>3 DEF NetHolds, PinsHold, Net, Wraps

\* Nets take any pin, and any pip that says what none of theirs says.
LEMMA PinIsAdded ==
    ASSUME NEW pins \in SUBSET PinType, NEW pin \in PinType
    PROVE  With(pins, pin) = pins \cup {pin}
  <1>1. \A p \in pins : SamePin(p, pin) => p = pin
    BY DEF SamePin, PinType
  <1> QED BY <1>1 DEF With

LEMMA PipsAreMerged ==
    ASSUME NEW net \in NetType, NEW other, other.pips \in SUBSET PipType
    PROVE  MergePips(net, other) = [net EXCEPT !.pips = net.pips \cup other.pips]
  <1>1. net.pips \in SUBSET PipType
    BY DEF NetType
  <1>2. \A p \in other.pips, q \in net.pips : SamePip(p, q) <=> p = q
    BY <1>1 DEF SamePip, PipType
  <1>3. net.pips \cup {p \in other.pips : ~\E q \in net.pips : SamePip(p, q)}
           = net.pips \cup other.pips
    BY <1>2
  <1> QED BY <1>3 DEF MergePips

-----------------------------------------------------------------------------
\* The nets of a design, and places in it.

\* The statements of nets.
LEMMA NetsSeen ==
    ASSUME NEW d \in Designs, NEW n \in 0 .. Len(d)
    PROVE  NetsOf(d, n) \in Designs /\ Len(NamesOf(d, n)) = Len(NetsOf(d, n))
           /\ DOMAIN NetsOf(d, n) = 1 .. Len(NetsOf(d, n)) /\ Len(NetsOf(d, n)) \in Nat
  <1>1. NetsOf(d, n) \in Designs
    BY SelectedElements DEF Designs, NetsOf
  <1> DEFINE nets == NetsOf(d, n)
  <1>2. DOMAIN nets = 1 .. Len(nets) /\ Len(nets) \in Nat
    BY <1>1 DEF Designs
  <1> HIDE DEF nets
  <1>3. Len([i \in 1 .. Len(nets) |-> nets[i][1].says]) = Len(nets)
    BY <1>2
  <1> QED BY <1>1, <1>2, <1>3 DEF NamesOf, nets

LEMMA NetsStep ==
    ASSUME NEW d \in Designs, NEW n \in 0 .. Len(d) - 1
    PROVE  /\ d[n + 1][1].first = "net" => NetsOf(d, n + 1) = Append(NetsOf(d, n), d[n + 1])
           /\ d[n + 1][1].first # "net" => NetsOf(d, n + 1) = NetsOf(d, n)
  <1>1. d[n + 1] \in NetsIn(d) <=> d[n + 1][1].first = "net"
    BY Kinds
  <1> QED BY <1>1, SelectedStep DEF Designs, NetsOf

LEMMA NamesOnce ==
    ASSUME NEW d \in Designs, RepeatsNothing(d), NEW n \in 0 .. Len(d),
           NEW i \in DOMAIN NetsOf(d, n), NEW k \in DOMAIN NetsOf(d, n),
           NetsOf(d, n)[i][1].says = NetsOf(d, n)[k][1].says
    PROVE  i = k
  <1> DEFINE Name(m, l) == NetsOf(d, m)[l][1].says
             NetAt(l)   == d[l][1].first = "net"
             Ok(m) == /\ \A l \in DOMAIN NetsOf(d, m) :
                            \E r \in 1 .. m : NetAt(r) /\ Name(m, l) = d[r][1].says
                      /\ \A l, r \in DOMAIN NetsOf(d, m) : Name(m, l) = Name(m, r) => l = r
             T == {m \in Nat : m \in 0 .. Len(d) => Ok(m)}
  <1>0. Len(d) \in Nat /\ DOMAIN d = 1 .. Len(d)
    BY DEF Designs
  <1>1. 0 \in T
    <2>1. NetsOf(d, 0) = <<>>
      BY SelectedNone DEF Designs, NetsOf
    <2>2. DOMAIN NetsOf(d, 0) = {}
      BY <2>1
    <2> QED BY <2>2
  <1>2. ASSUME NEW m \in Nat, m \in T
        PROVE  m + 1 \in T
    <2> SUFFICES ASSUME m + 1 \in 0 .. Len(d)
                 PROVE  Ok(m + 1)
      OBVIOUS
    <2>1. m \in 0 .. Len(d) - 1 /\ m \in 0 .. Len(d) /\ m + 1 \in 1 .. m + 1 /\ m + 1 \in DOMAIN d
          /\ \A r \in 1 .. m : r \in 1 .. m + 1 /\ r # m + 1 /\ r \in DOMAIN d
      BY <1>0
    <2>2. Ok(m)
      BY <1>2, <2>1
    <2> DEFINE old == NetsOf(d, m)
               new == NetsOf(d, m + 1)
               s   == d[m + 1]
    <2>3. /\ NetAt(m + 1) => new = Append(old, s)
          /\ ~NetAt(m + 1) => new = old
      BY <2>1, NetsStep
    <2>4. DOMAIN old = 1 .. Len(old) /\ Len(old) \in Nat /\ old \in Designs
          /\ s \in Seq(LineType) \ {<<>>}
      <3>1. DOMAIN old = 1 .. Len(old) /\ Len(old) \in Nat /\ old \in Designs
        BY <2>1, NetsSeen
      <3>2. d[m + 1] \in Seq(LineType) \ {<<>>}
        <4> DEFINE U == Seq(LineType) \ {<<>>}
        <4>1. d \in Seq(U)
          BY DEF Designs
        <4> HIDE DEF U
        <4>2. d[m + 1] \in U
          BY <2>1, <4>1
        <4> QED BY <4>2 DEF U
      <3> QED BY <3>1, <3>2
    <2>5. CASE ~NetAt(m + 1)
      BY <2>1, <2>2, <2>3, <2>5
    <2>6. CASE NetAt(m + 1)
      <3> DEFINE l1 == Len(old) + 1
      <3>1. /\ DOMAIN new = DOMAIN old \cup {l1} /\ new[l1] = s
            /\ \A l \in DOMAIN old : new[l] = old[l]
        <4>1. new = Append(old, s)
          BY <2>3, <2>6
        <4> HIDE DEF old, new, s
        <4> QED BY <2>4, <4>1 DEF Designs
      <3> HIDE DEF old, new, s, l1
      <3>2. \A r \in 1 .. m : NetAt(r) => d[r][1].says # s[1].says
        BY <2>1, <2>6 DEF RepeatsNothing, s
      <3>3. \A l \in DOMAIN old : old[l][1].says # s[1].says
        BY <2>2, <3>2 DEF old
      <3>4. /\ \A l \in DOMAIN old : \E r \in 1 .. m : NetAt(r) /\ old[l][1].says = d[r][1].says
            /\ \A l, r \in DOMAIN old : old[l][1].says = old[r][1].says => l = r
        BY <2>2 DEF old
      <3>5. \A l \in DOMAIN new : \E r \in 1 .. m + 1 : NetAt(r) /\ new[l][1].says = d[r][1].says
        BY <2>1, <2>6, <3>1, <3>4 DEF s
      <3>6. \A l, r \in DOMAIN new : new[l][1].says = new[r][1].says => l = r
        BY <3>1, <3>3, <3>4
      <3> QED BY <3>5, <3>6 DEF new
    <2> QED BY <2>5, <2>6
  <1> HIDE DEF T
  <1>3. n \in T
    BY <1>0, <1>1, <1>2, SetInduction
  <1>4. Ok(n)
    BY <1>3 DEF T
  <1> QED BY <1>4

\* There is one place in a file at a time.
LEMMA PlaceIsOne ==
    ASSUME NEW d \in Designs, NEW n \in 0 .. Len(d), NEW m \in 0 .. Len(d), NEW j \in Nat, NEW k \in Nat,
           j = 0 \/ (n < Len(d) /\ j < Len(d[n + 1])),
           k = 0 \/ (m < Len(d) /\ k < Len(d[m + 1])),
           Start(d, n) + j = Start(d, m) + k
    PROVE  n = m /\ j = k
  <1>0. Len(d) \in Nat
    BY DEF Designs
  <1>1. ASSUME NEW a \in 0 .. Len(d), NEW b \in 0 .. Len(d), NEW i \in Nat, NEW l \in Nat,
               i = 0 \/ (a < Len(d) /\ i < Len(d[a + 1])), a < b
        PROVE  Start(d, a) + i # Start(d, b) + l
    <2>1. a \in 0 .. Len(d) - 1 /\ a + 1 \in 0 .. Len(d) /\ a + 1 <= b
      BY <1>0, <1>1
    <2>2. Start(d, a) \in Nat /\ Start(d, a + 1) = Start(d, a) + Len(d[a + 1])
          /\ Len(d[a + 1]) \in Nat \ {0}
      BY <2>1, StartSteps
    <2>3. Start(d, a + 1) <= Start(d, b) /\ Start(d, b) \in Nat
      BY <2>1, StartGrows
    <2>4. i < Len(d[a + 1])
      BY <1>1, <2>2
    <2> QED BY <2>2, <2>3, <2>4
  <1>2. ~(n < m) /\ ~(m < n)
    BY <1>1
  <1>3. n = m
    BY <1>0, <1>2
  <1>4. Start(d, n) \in Nat
    BY PrefixIsLines
  <1> QED BY <1>3, <1>4

-----------------------------------------------------------------------------
\* What the merge has in memory of the contents of nets.

\* A net has the pins of its statement, and it has what the statement says.
PinsAre(net, s) ==
    /\ net.name = s[1].says /\ net.cfg = s[1].at /\ (net.configure <=> s[1].at = "cfg")
    /\ net.outPins = PinsOf(s, "outpin") /\ net.inPins = PinsOf(s, "inpin")
NetIs(net, s) == PinsAre(net, s) /\ Texts(net.pips) = PipsOf(s) /\ SaysOnce(net.pips)

\* The nets of these statements are the first in a list.
NetsRead(list, nets) == \A i \in DOMAIN nets : NetIs(list.netList[i], nets[i])

\* What n statements, and j lines of the next, say of nets is in the list; a pin of which the
\* position is missing is the one whose name is kept.
ContentsAt(n, j) ==
    LET d    == design[phase]
        list == lists[phase]
        s    == d[n + 1]
    IN  /\ NetsRead(list, NetsOf(d, n))
        /\ inside \in NetLoops => NetHolds(LastNet(list), s, j)
        /\ inside = "net" => ~Wraps(s[j])
        /\ inside \in {"outpin", "inpin"} =>
              s[j].first = inside /\ Wraps(s[j]) /\ s[j].says = pinName

\* The pips that a file has for the nets of a name, those in the static list, and the clock
\* nets that have been merged.
PipTexts(f, name) == UNION {PipsOf(s) : s \in ClockStatement(f, name)}
StaticPips(name)  == UNION {StaticNet(s).pips : s \in FindNet(lists["static"], name)}
ClocksMerged      == {clkNetNames[k] : k \in 1 .. clock - 1}

\* A net of the partial list has its own pips, and the static ones if it is a clock net.
Added(name) == IF name \in ClocksMerged THEN StaticPips(name) ELSE {}
PipsMerged(net) ==
    \E own : /\ SaysOnce(own) /\ Texts(own) = PipTexts("partial", net.name)
             /\ net.pips = own \cup Added(net.name)

PartialIsIn ==
    LET nets == lists["partial"].netList
    IN  /\ DOMAIN Nets("partial") \subseteq DOMAIN nets
        /\ \A i \in DOMAIN Nets("partial") : PinsAre(nets[i], Nets("partial")[i])
        /\ \A i \in DOMAIN nets : PipsMerged(nets[i])
        /\ \A i \in DOMAIN nets : i \notin DOMAIN Nets("partial") =>
              /\ nets[i].name \in ClocksMerged
              /\ nets[i].name \notin Range(NetNames("partial"))

\* Designs that repeat nothing; and files that are whole, of designs as XDL has them.
NothingTwice == \A f \in Files : RepeatsNothing(design[f])
Orderly      == WellFormed /\ Whole /\ NothingTwice

\* The nets are what the files say of them: next to MergeInvariant and ReadingInvariant it is
\* inductive.
ContentsInvariant ==
    /\ Reading => \A n, j : Place(n, j) => ContentsAt(n, j)
    /\ phase \in {"partial", "merge", "done"} => NetsRead(lists["static"], Nets("static"))
    /\ phase \in {"merge", "done"} => PartialIsIn
    /\ result = "true" => Merged = [i \in DOMAIN lists["partial"].netList |->
                                       Printed(lists["partial"].netList[i])]

-----------------------------------------------------------------------------
\* Reading.

LEMMA AllIsHeld ==
    ASSUME NEW s \in Seq(LineType), s # <<>>, s[1].first = "net", IsStatement(s),
           NEW net, NetHolds(net, s, Len(s))
    PROVE  NetIs(net, s)
  BY AllIsRead DEF NetHolds, PinsHold, NetIs, PinsAre

\* How many nets are in a list.
LEMMA HowManyNets ==
    ASSUME NEW list, IsNetList(list), NEW d \in Designs, NEW n \in 0 .. Len(d), NEW j \in Nat,
           Holds(list, d, n, j)
    PROVE  /\ DOMAIN list.netList = 1 .. Len(list.netList) /\ Len(list.netList) \in Nat
           /\ j = 0 => Len(list.netList) = Len(NetsOf(d, n))
           /\ j > 0 /\ n < Len(d) /\ d[n + 1][1].first = "net" =>
                 Len(list.netList) = Len(NetsOf(d, n)) + 1
  <1>1. /\ NamesOf(d, n) \in Seq(Text) /\ Len(NamesOf(d, n)) = Len(NetsOf(d, n))
        /\ Len(ListNames(list)) = Len(list.netList)
    BY NetsSeen, HoldsBetween, NamesOfList
  <1>2. DOMAIN list.netList = 1 .. Len(list.netList) /\ Len(list.netList) \in Nat
    <2>1. list.netList \in Seq(NetType)
      BY DEF IsNetList
    <2> DEFINE nets == list.netList
    <2>2. nets \in Seq(NetType)
      BY <2>1
    <2> HIDE DEF nets
    <2>3. DOMAIN nets = 1 .. Len(nets) /\ Len(nets) \in Nat
      BY <2>2
    <2> QED BY <2>3 DEF nets
  <1>3. CASE j = 0
    <2>1. ListNames(list) = NamesOf(d, n)
      BY <1>3, HoldsBetween
    <2> QED BY <1>1, <1>2, <1>3, <2>1
  <1>4. CASE j > 0 /\ n < Len(d) /\ d[n + 1][1].first = "net"
    <2>1. n \in 0 .. Len(d) - 1
      BY <1>4 DEF Designs
    <2>2. d[n + 1] \in NetsIn(d) /\ d[n + 1][1].says \in Text
      BY <1>4, <2>1, Kinds, ReadStatement
    <2>3. ListNames(list) = NamesOf(d, n) \o <<d[n + 1][1].says>>
      BY <1>4, <2>2 DEF Holds, NameBegun
    <2> DEFINE names == NamesOf(d, n)
               name  == d[n + 1][1].says
    <2>4. names \in Seq(Text) /\ name \in Text
      BY <1>1, <2>2
    <2> HIDE DEF names, name
    <2>5. Len(names \o <<name>>) = Len(names) + 1
      BY <2>4
    <2> QED BY <1>1, <1>2, <1>4, <2>3, <2>5 DEF names, name
  <1>5. CASE j # 0 /\ ~(j > 0 /\ n < Len(d) /\ d[n + 1][1].first = "net")
    BY <1>2, <1>5
  <1> QED BY <1>3, <1>4, <1>5

\* What an operation on a list does to its nets.
LEMMA LastUpdated ==
    ASSUME NEW list, IsNetList(list), NEW nets, NetsRead(list, nets), NEW k \in Nat,
           DOMAIN nets = 1 .. k, Len(list.netList) = k + 1,
           NEW net \in NetType, net.name = LastNet(list).name
    PROVE  NetsRead(UpdateLast(list, net), nets) /\ LastNet(UpdateLast(list, net)) = net
  <1> DEFINE old == list.netList
             new == UpdateLast(list, net)
  <1>1. old \in Seq(NetType) /\ Len(old) = k + 1
    BY DEF IsNetList
  <1>2. Len(old) \in DOMAIN old
    <2> HIDE DEF old
    <2> QED BY <1>1
  <1>3. new.netList = [old EXCEPT ![Len(old)] = net]
    BY <1>2, UpdatedNet DEF UpdateLast, LastNet
  <1> HIDE DEF old, new
  <1>4. /\ Len(new.netList) = k + 1 /\ new.netList[k + 1] = net
        /\ \A i \in 1 .. k : new.netList[i] = old[i]
    BY <1>1, <1>3
  <1>5. NetsRead(new, nets)
    BY <1>4 DEF NetsRead, old
  <1> QED BY <1>4, <1>5 DEF LastNet, new

LEMMA LastInserted ==
    ASSUME NEW list, IsNetList(list), NEW nets, NetsRead(list, nets), NEW k \in Nat,
           DOMAIN nets = 1 .. k, Len(list.netList) = k, NEW net \in NetType
    PROVE  NetsRead(InsertNet(list, net), nets) /\ LastNet(InsertNet(list, net)) = net
  <1> DEFINE old == list.netList
             new == InsertNet(list, net)
  <1>1. old \in Seq(NetType) /\ Len(old) = k
    BY DEF IsNetList
  <1>2. new.netList = Append(old, net)
    BY InsertedNet
  <1> HIDE DEF old, new
  <1>3. /\ Len(new.netList) = k + 1 /\ new.netList[k + 1] = net
        /\ \A i \in 1 .. k : new.netList[i] = old[i]
    BY <1>1, <1>2
  <1>4. NetsRead(new, nets)
    BY <1>3 DEF NetsRead, old
  <1> QED BY <1>3, <1>4 DEF LastNet, new

LEMMA LastRead ==
    ASSUME NEW list, IsNetList(list), NEW d \in Designs, NetsRead(list, d),
           NEW s \in Seq(LineType) \ {<<>>}, Len(list.netList) = Len(d) + 1, NetIs(LastNet(list), s)
    PROVE  NetsRead(list, Append(d, s))
  <1>1. /\ DOMAIN Append(d, s) = 1 .. Len(d) + 1 /\ DOMAIN d = 1 .. Len(d) /\ Len(d) \in Nat
        /\ \A i \in 1 .. Len(d) : Append(d, s)[i] = d[i]
        /\ Append(d, s)[Len(d) + 1] = s
    BY DEF Designs
  <1> DEFINE e == Append(d, s)
  <1>2. \A i \in 1 .. Len(d) + 1 : i \in 1 .. Len(d) \/ i = Len(d) + 1
    BY <1>1
  <1> HIDE DEF e
  <1> QED BY <1>1, <1>2 DEF NetsRead, LastNet, e

\* The files do not change, nor what they would be.
LEMMA FilesStay ==
    ASSUME design' = design
    PROVE  /\ \A f : Nets(f)' = Nets(f) /\ NetNames(f)' = NetNames(f)
           /\ \A f, name : PipTexts(f, name)' = PipTexts(f, name)
  <1>1. \A f : Statements(f)' = Statements(f)
    BY DEF Statements, TooLongAt
  <1>2. \A f : Nets(f)' = Nets(f)
    BY <1>1 DEF Nets
  <1>3. \A f : NetNames(f)' = NetNames(f)
    BY <1>2 DEF NetNames
  <1>4. \A f, name : PipTexts(f, name)' = PipTexts(f, name)
    BY <1>2 DEF PipTexts, ClockStatement
  <1> QED BY <1>2, <1>3, <1>4

\* A turn touches the list of its own file, and there is one place that it leads to.
LEMMA TurnKeepsContents ==
    ASSUME TypeOK, Orderly, ReadingInvariant, ContentsInvariant, Reading, GetLine, KeepMerging,
           \A g \in Files \ {phase} : lists'[g] = lists[g],
           NEW n, NEW j, Place(n, j)', ContentsAt(n, j)'
    PROVE  ContentsInvariant'
  <1>1. /\ phase' = phase /\ design' = design /\ cut' = cut /\ result' = result /\ phase \in Files
    BY DEF KeepMerging, input, Reading
  <1>2. result = "none"
    BY <1>1 DEF ReadingInvariant, TypeOK, Files
  <1>3. phase' = "partial" => NetsRead(lists["static"], Nets("static"))'
    <2> SUFFICES ASSUME phase = "partial"
                 PROVE  NetsRead(lists["static"], Nets("static"))'
      BY <1>1
    <2>1. lists'["static"] = lists["static"] /\ Nets("static")' = Nets("static")
      BY <1>1, FilesStay DEF Files
    <2> QED BY <2>1 DEF ContentsInvariant, NetsRead
  <1>4. ASSUME NEW m, NEW k, Place(m, k)'
        PROVE  ContentsAt(m, k)'
    <2> DEFINE d == design[phase]
    <2>1. d \in Designs /\ cut.file # phase
      BY <1>1, FileIsDesign DEF TypeOK, Orderly, Whole, NotCut, Files
    <2>2. /\ n \in 0 .. Len(d) /\ m \in 0 .. Len(d) /\ j \in Nat /\ k \in Nat
          /\ pos' = Start(d, n) + j /\ pos' = Start(d, m) + k
      BY <1>1, <1>4 DEF Place
    <2>3. /\ j = 0 \/ (n < Len(d) /\ j < Len(d[n + 1]))
          /\ k = 0 \/ (m < Len(d) /\ k < Len(d[m + 1]))
      BY <1>1, <1>4, <2>1 DEF Place
    <2> HIDE DEF d
    <2>4. n = m /\ j = k
      BY <2>1, <2>2, <2>3, PlaceIsOne
    <2> QED BY <2>4
  <1> QED BY <1>1, <1>2, <1>3, <1>4 DEF ContentsInvariant, Files

\* The line that is read in a net.
LineInNet(n, j) ==
    LET d    == design[phase]
        list == lists[phase]
        s    == d[n + 1]
    IN  /\ Place(n, j) /\ ContentsAt(n, j)
        /\ ~AtEnd /\ NextLine = s[j + 1]
        /\ d \in Designs /\ n \in 0 .. Len(d) - 1 /\ j \in Nat \ {0} /\ j \in 0 .. Len(s) - 1
        /\ s \in Seq(LineType) /\ s # <<>> /\ s[1].first = "net" /\ IsStatement(s)
        /\ IsNetList(list) /\ Len(list.netList) = Len(NetsOf(d, n)) + 1
        /\ DOMAIN NetsOf(d, n) = 1 .. Len(NetsOf(d, n)) /\ Len(NetsOf(d, n)) \in Nat
        /\ NetHolds(LastNet(list), s, j)

LEMMA NextLineInNet ==
    ASSUME TypeOK, Orderly, ReadingInvariant, ContentsInvariant, Reading, inside \in NetLoops
    PROVE  \E n, j : LineInNet(n, j)
  <1>1. PICK n, j : SoFar(n, j)
    BY DEF ReadingInvariant
  <1> DEFINE d == design[phase]
             s == d[n + 1]
  <1>2. Place(n, j) /\ ContentsAt(n, j)
    BY <1>1 DEF SoFar, ContentsInvariant
  <1>3. /\ Holds(lists[phase], d, n, j) /\ d \in Designs /\ IsNetList(lists[phase])
        /\ ~AtEnd /\ n \in 0 .. Len(d) - 1 /\ j \in 0 .. Len(s) - 1
        /\ NextLine = s[j + 1] /\ IsStatement(s) /\ j \in Nat \ {0} /\ Loop(inside) = s[1].first
    BY <1>1, WholeLine DEF Orderly, NetLoops
  <1>4. s[1].first = "net"
    BY <1>3 DEF Loop
  <1>5. s \in Seq(LineType) /\ s # <<>> /\ n \in 0 .. Len(d) /\ n < Len(d) /\ j > 0
    <2>1. s \in Seq(LineType) /\ Len(s) \in Nat \ {0} /\ n \in 0 .. Len(d)
      BY <1>3, StartSteps
    <2>2. Len(d) \in Nat
      BY <1>3 DEF Designs
    <2>3. s # <<>>
      BY <2>1
    <2> QED BY <1>3, <2>1, <2>2, <2>3
  <1>6. Len(lists[phase].netList) = Len(NetsOf(d, n)) + 1
    BY <1>3, <1>4, <1>5, HowManyNets
  <1>7. DOMAIN NetsOf(d, n) = 1 .. Len(NetsOf(d, n)) /\ Len(NetsOf(d, n)) \in Nat
    BY <1>3, <1>5, NetsSeen
  <1>8. NetHolds(LastNet(lists[phase]), s, j)
    BY <1>2 DEF ContentsAt
  <1> QED BY <1>2, <1>3, <1>4, <1>5, <1>6, <1>7, <1>8 DEF LineInNet

\* A turn within a net reads the next line of it.
LEMMA NetTurnKeepsContents ==
    ASSUME TypeOK, Orderly, ReadingInvariant, ContentsInvariant, Reading, GetLine, KeepMerging,
           inside \in NetLoops, inside' \in NetLoops, NEW n, NEW j, LineInNet(n, j),
           NEW new, lists'[phase] = new, \A g \in Files \ {phase} : lists'[g] = lists[g],
           NetsRead(new, NetsOf(design[phase], n)),
           NetHolds(LastNet(new), design[phase][n + 1], j + 1),
           ~Closes(inside, NextLine),
           inside' = "net" => ~Wraps(NextLine),
           inside' \in {"outpin", "inpin"} =>
              NextLine.first = inside' /\ Wraps(NextLine) /\ NextLine.says = pinName'
    PROVE  ContentsInvariant'
  <1>1. /\ phase' = phase /\ design' = design /\ WellFormed
        /\ inside \in Loops /\ inside' \in Loops /\ inside # "top" /\ inside' # "top"
        /\ Loop(inside) = "net" /\ Loop(inside') = "net"
    BY DEF KeepMerging, input, Loops, NetLoops, Loop, Orderly
  <1>2. Place(n, j) /\ ~AtEnd /\ NextLine = design[phase][n + 1][j + 1]
    BY DEF LineInNet
  <1>3. Place(n, j + 1)'
    BY <1>1, <1>2, TurnInside
  <1>4. ContentsAt(n, j + 1)'
    BY <1>1, <1>2 DEF ContentsAt
  <1> QED BY <1>3, <1>4, TurnKeepsContents

LEMMA SkipInNetKeepsContents ==
    ASSUME TypeOK, Orderly, ReadingInvariant, ContentsInvariant, SkipInNet
    PROVE  ContentsInvariant'
  <1>1. /\ Reading /\ GetLine /\ KeepMerging /\ inside = "net" /\ inside' = "net"
        /\ lists' = lists /\ ~Closes(inside, NextLine)
        /\ NextLine.first \notin {"outpin", "inpin", "pip"}
    BY DEF SkipInNet, Turns, Closes
  <1>2. inside \in NetLoops /\ inside' \in NetLoops
    BY <1>1 DEF NetLoops
  <1>3. PICK n, j : LineInNet(n, j)
    BY <1>1, <1>2, NextLineInNet
  <1> DEFINE s == design[phase][n + 1]
             net == LastNet(lists[phase])
  <1>4. /\ NextLine = s[j + 1] /\ j \in Nat \ {0} /\ ~Wraps(s[j]) /\ NetHolds(net, s, j)
        /\ NetsRead(lists[phase], NetsOf(design[phase], n))
    BY <1>1, <1>3 DEF LineInNet, ContentsAt
  <1> HIDE DEF s, net
  <1>5. /\ \A kind \in {"outpin", "inpin"} : PinsRead(s, kind, j + 1) = PinsRead(s, kind, j)
        /\ PipsRead(s, j + 1) = PipsRead(s, j)
    BY <1>1, <1>4, LineAddsPin, LineAddsPip
  <1>6. NetHolds(net, s, j + 1)
    BY <1>4, <1>5 DEF NetHolds, PinsHold
  <1>7. ~Wraps(NextLine)
    BY <1>1 DEF Wraps
  <1> QED BY <1>1, <1>2, <1>3, <1>4, <1>6, <1>7, NetTurnKeepsContents DEF s, net

\* The net that is read last is replaced.
LEMMA UpdateKeepsContents ==
    ASSUME TypeOK, Orderly, ReadingInvariant, ContentsInvariant, Reading, GetLine, KeepMerging,
           inside \in NetLoops, inside' = "net", NEW n, NEW j, LineInNet(n, j),
           NEW net \in NetType, net.name = LastNet(lists[phase]).name, Update(net),
           NetHolds(net, design[phase][n + 1], j + 1),
           ~Closes(inside, NextLine), ~Wraps(NextLine)
    PROVE  ContentsInvariant'
  <1> DEFINE new  == UpdateLast(lists[phase], net)
             nets == NetsOf(design[phase], n)
  <1>1. lists'[phase] = new /\ \A g \in Files \ {phase} : lists'[g] = lists[g]
    BY OwnList DEF Update
  <1>2. /\ IsNetList(lists[phase]) /\ NetsRead(lists[phase], nets)
        /\ Len(nets) \in Nat /\ DOMAIN nets = 1 .. Len(nets)
        /\ Len(lists[phase].netList) = Len(nets) + 1
    BY DEF LineInNet, ContentsAt
  <1>3. NetsRead(new, nets) /\ LastNet(new) = net
    <2> HIDE DEF nets
    <2> QED BY <1>2, LastUpdated
  <1>4. inside' \in NetLoops /\ inside' \notin {"outpin", "inpin"}
    BY DEF NetLoops
  <1> HIDE DEF new
  <1> QED BY <1>1, <1>3, <1>4, NetTurnKeepsContents

\* A pin is added: that of this line, or that of the line before.
LEMMA AddPinKeepsContents ==
    ASSUME TypeOK, Orderly, ReadingInvariant, ContentsInvariant, Reading, GetLine, KeepMerging,
           inside \in NetLoops, inside' = "net", NEW n, NEW j, LineInNet(n, j),
           NEW kind \in {"outpin", "inpin"}, NEW pin \in PinType, AddPin(kind, pin),
           LET s == design[phase][n + 1]
           IN  /\ PinsRead(s, kind, j + 1) = PinsRead(s, kind, j) \cup {pin}
               /\ \A other \in {"outpin", "inpin"} \ {kind} :
                     PinsRead(s, other, j + 1) = PinsRead(s, other, j)
               /\ PipsRead(s, j + 1) = PipsRead(s, j),
           ~Closes(inside, NextLine), ~Wraps(NextLine)
    PROVE  ContentsInvariant'
  <1> DEFINE s    == design[phase][n + 1]
             last == LastNet(lists[phase])
             net  == IF kind = "inpin" THEN AddInPin(last, pin) ELSE AddOutPin(last, pin)
  <1>1. last \in NetType /\ NetHolds(last, s, j)
    BY InANet DEF LineInNet
  <1>2. net \in NetType /\ net.name = last.name
    <2> HIDE DEF last
    <2> QED BY <1>1, AddedPins
  <1>3. Update(net)
    BY DEF AddPin
  <1>4. NetHolds(net, s, j + 1)
    <2> HIDE DEF s, last
    <2>1. last.inPins \in SUBSET PinType /\ last.outPins \in SUBSET PinType
      BY <1>1 DEF NetType
    <2>2. With(last.inPins, pin) = last.inPins \cup {pin} /\ With(last.outPins, pin) = last.outPins \cup {pin}
      BY <2>1, PinIsAdded
    <2>3. CASE kind = "inpin"
      <3>1. /\ net.cfg = last.cfg /\ net.configure = last.configure /\ net.pips = last.pips
            /\ net.outPins = last.outPins /\ net.inPins = last.inPins \cup {pin}
        BY <1>1, <2>2, <2>3 DEF AddInPin, NetType
      <3> HIDE DEF net
      <3> QED BY <1>1, <1>2, <2>3, <3>1 DEF NetHolds, PinsHold, s
    <2>4. CASE kind = "outpin"
      <3>1. /\ net.cfg = last.cfg /\ net.configure = last.configure /\ net.pips = last.pips
            /\ net.inPins = last.inPins /\ net.outPins = last.outPins \cup {pin}
        BY <1>1, <2>2, <2>4 DEF AddOutPin, NetType
      <3> HIDE DEF net
      <3> QED BY <1>1, <1>2, <2>4, <3>1 DEF NetHolds, PinsHold, s
    <2> QED BY <2>3, <2>4
  <1> HIDE DEF net
  <1> QED BY <1>2, <1>3, <1>4, UpdateKeepsContents

LEMMA ReadPinKeepsContents ==
    ASSUME TypeOK, Orderly, ReadingInvariant, ContentsInvariant, ReadPin
    PROVE  ContentsInvariant'
  <1> DEFINE kind == NextLine.first
  <1>1. /\ Reading /\ GetLine /\ KeepMerging /\ inside = "net" /\ inside \in NetLoops
        /\ kind \in {"outpin", "inpin"} /\ ~Closes(inside, NextLine)
    BY DEF ReadPin, Turns, Closes, NetLoops
  <1>2. PICK n, j : LineInNet(n, j)
    BY <1>1, NextLineInNet
  <1> DEFINE s    == design[phase][n + 1]
             last == LastNet(lists[phase])
  <1>3. /\ NextLine = s[j + 1] /\ j \in Nat \ {0} /\ ~Wraps(s[j]) /\ NetHolds(last, s, j)
        /\ NetsRead(lists[phase], NetsOf(design[phase], n))
    BY <1>1, <1>2 DEF LineInNet, ContentsAt
  <1> HIDE DEF s, last
  <1>4. PipsRead(s, j + 1) = PipsRead(s, j)
    BY <1>1, <1>3, LineAddsPip
  <1>5. \A other \in {"outpin", "inpin"} \ {kind} : PinsRead(s, other, j + 1) = PinsRead(s, other, j)
    BY <1>1, <1>3, LineAddsPin
  <1>6. CASE NextLine.at = NoText
    <2>1. inside' = kind /\ pinName' = NextLine.says /\ lists' = lists
      BY <1>6 DEF ReadPin
    <2>2. inside' \in NetLoops /\ Wraps(NextLine) /\ inside' # "net"
      BY <1>1, <1>6, <2>1 DEF NetLoops, Wraps
    <2>3. PinsRead(s, kind, j + 1) = PinsRead(s, kind, j)
      BY <1>1, <1>3, <2>2, LineAddsPin
    <2>4. NetHolds(last, s, j + 1)
      BY <1>1, <1>3, <1>4, <1>5, <2>3 DEF NetHolds, PinsHold
    <2> QED BY <1>1, <1>2, <1>3, <2>1, <2>2, <2>4, NetTurnKeepsContents DEF s, last
  <1>7. CASE NextLine.at # NoText
    <2> DEFINE pin == Pin(NextLine.says, NextLine.at)
    <2>1. inside' = "net" /\ AddPin(kind, pin)
      BY <1>1, <1>7 DEF ReadPin
    <2>2. pin \in PinType
      BY <1>1, InANet DEF Pin, PinType, LineType
    <2>3. ~Wraps(NextLine) /\ pin = PinAt(s, j + 1)
      BY <1>3, <1>7 DEF Wraps, PinAt
    <2>4. PinsRead(s, kind, j + 1) = PinsRead(s, kind, j) \cup {pin}
      <3>1. s[j + 1].first = kind /\ ~Wraps(s[j + 1])
        BY <1>3, <2>3
      <3> HIDE DEF pin, kind
      <3>2. PinsRead(s, kind, j + 1) = PinsRead(s, kind, j) \cup {PinAt(s, j + 1)}
        <4>1. kind \in {"outpin", "inpin"} /\ j \in Nat \ {0} /\ ~Wraps(s[j])
          BY <1>1, <1>3
        <4>2. s[j + 1].first = kind /\ ~Wraps(s[j + 1]) =>
                 PinsRead(s, kind, j + 1) = PinsRead(s, kind, j) \cup {PinAt(s, j + 1)}
          BY <4>1, LineAddsPin
        <4> QED BY <3>1, <4>2
      <3> QED BY <2>3, <3>2
    <2> HIDE DEF pin, kind
    <2> QED BY <1>1, <1>2, <1>4, <1>5, <2>1, <2>2, <2>3, <2>4, AddPinKeepsContents DEF s
  <1> QED BY <1>6, <1>7

LEMMA ReadPositionKeepsContents ==
    ASSUME TypeOK, Orderly, ReadingInvariant, ContentsInvariant, ReadPosition
    PROVE  ContentsInvariant'
  <1> DEFINE pin == Pin(pinName, Word(NextLine))
  <1>1. /\ Reading /\ GetLine /\ KeepMerging /\ inside \in {"outpin", "inpin"} /\ inside' = "net"
        /\ AddPin(inside, pin) /\ pinName \in Text
    BY DEF ReadPosition, TypeOK, ReaderTypes
  <1>2. inside \in NetLoops
    BY <1>1 DEF NetLoops
  <1>3. pin \in PinType
    BY <1>1, <1>2, InANet DEF Pin, PinType, Word, LineType
  <1>4. PICK n, j : LineInNet(n, j)
    BY <1>1, <1>2, NextLineInNet
  <1> DEFINE s == design[phase][n + 1]
  <1>5. /\ NextLine = s[j + 1] /\ j \in Nat \ {0} /\ s[j + 1].first = "text"
        /\ s[j].first = inside /\ Wraps(s[j]) /\ s[j].says = pinName
    BY <1>1, <1>4 DEF LineInNet, ContentsAt, Place
  <1>6. ~Closes(inside, NextLine) /\ ~Wraps(NextLine)
    BY <1>1, <1>5 DEF Closes, Wraps
  <1>7. pin = PinAt(s, j)
    BY <1>5 DEF PinAt, Wraps, Word
  <1> HIDE DEF s, pin
  <1>8. PipsRead(s, j + 1) = PipsRead(s, j)
    BY <1>5, LineAddsPip
  <1>9. /\ PinsRead(s, inside, j + 1) = PinsRead(s, inside, j) \cup {pin}
        /\ \A other \in {"outpin", "inpin"} \ {inside} :
              PinsRead(s, other, j + 1) = PinsRead(s, other, j)
    BY <1>1, <1>5, <1>7, LineAddsPosition
  <1> QED BY <1>1, <1>2, <1>3, <1>4, <1>6, <1>8, <1>9, AddPinKeepsContents DEF s

LEMMA ReadPipKeepsContents ==
    ASSUME TypeOK, Orderly, ReadingInvariant, ContentsInvariant, ReadPip
    PROVE  ContentsInvariant'
  <1> DEFINE pip  == NewPip(NextLine, phase, pos + 1)
             last == LastNet(lists[phase])
             net  == InsertPip(last, pip)
  <1>1. /\ Reading /\ GetLine /\ KeepMerging /\ inside = "net" /\ inside' = "net" /\ phase \in Files
        /\ Update(net) /\ ~Closes(inside, NextLine) /\ inside \in NetLoops /\ pos \in Nat
        /\ NextLine.first = "pip"
    BY DEF ReadPip, Turns, Closes, NetLoops, TypeOK, ReaderTypes, Reading
  <1>2. NextLine \in LineType /\ last \in NetType
    BY <1>1, InANet
  <1>3. pip \in PipType /\ pip.says = NextLine.says
    BY <1>1, <1>2 DEF NewPip, PipType, LineType, Files
  <1>4. PICK n, j : LineInNet(n, j)
    BY <1>1, NextLineInNet
  <1> DEFINE d == design[phase]
             s == d[n + 1]
  <1>5. /\ NextLine = s[j + 1] /\ j \in Nat \ {0} /\ ~Wraps(s[j]) /\ NetHolds(last, s, j)
        /\ j \in 0 .. Len(s) - 1 /\ s \in Seq(LineType) /\ n \in 0 .. Len(d) - 1 /\ d \in Designs
        /\ s[1].first = "net"
    BY <1>1, <1>4 DEF LineInNet, ContentsAt
  <1>6. pip.says \notin Texts(last.pips)
    <2> SUFFICES ASSUME pip.says \in PipsRead(s, j)
                 PROVE  FALSE
      BY <1>5 DEF NetHolds
    <2>1. PICK k \in 1 .. j : s[k].first = "pip" /\ s[k].says = s[j + 1].says
      BY <1>3, <1>5 DEF PipsRead
    <2>2. k \in DOMAIN s /\ j + 1 \in DOMAIN s /\ k # j + 1
      <3> HIDE DEF s
      <3> QED BY <1>5
    <2>3. RepeatsNothing(d) /\ n + 1 \in DOMAIN d
      BY <1>1, <1>5, StartSteps DEF Orderly, NothingTwice
    <2> QED BY <1>1, <1>5, <2>1, <2>2, <2>3 DEF RepeatsNothing
  <1> HIDE DEF s, d, last, pip
  <1>7. net = [last EXCEPT !.pips = last.pips \cup {pip}]
    <2> DEFINE other == [pips |-> {pip}]
    <2>1. other.pips = {pip} /\ other.pips \in SUBSET PipType
      BY <1>3
    <2>2. InsertPip(last, pip) = MergePips(last, other)
      BY DEF InsertPip
    <2> HIDE DEF other
    <2>3. MergePips(last, other) = [last EXCEPT !.pips = last.pips \cup other.pips]
      BY <1>2, <2>1, PipsAreMerged
    <2> QED BY <2>1, <2>2, <2>3
  <1>8. net \in NetType /\ net.name = last.name
    BY <1>2, <1>3, InsertedPip
  <1>9. ~Wraps(NextLine)
    BY <1>1 DEF Wraps
  <1>10. NetHolds(net, s, j + 1)
    <2>1. /\ net.cfg = last.cfg /\ net.configure = last.configure
          /\ net.inPins = last.inPins /\ net.outPins = last.outPins
          /\ net.pips = last.pips \cup {pip}
      BY <1>2, <1>7 DEF NetType
    <2>2. \A kind \in {"outpin", "inpin"} : PinsRead(s, kind, j + 1) = PinsRead(s, kind, j)
      BY <1>1, <1>5, LineAddsPin
    <2>3. PipsRead(s, j + 1) = PipsRead(s, j) \cup {pip.says}
      BY <1>1, <1>3, <1>5, LineAddsPip
    <2>4. Texts(last.pips \cup {pip}) = Texts(last.pips) \cup {pip.says}
      BY DEF Texts
    <2>5. SaysOnce(last.pips \cup {pip})
      <3>1. SaysOnce(last.pips) /\ \A p \in last.pips : p.says # pip.says
        BY <1>5, <1>6 DEF NetHolds, Texts
      <3> QED BY <3>1 DEF SaysOnce
    <2> HIDE DEF net
    <2> QED BY <1>5, <1>8, <2>1, <2>2, <2>3, <2>4, <2>5 DEF NetHolds, PinsHold
  <1> HIDE DEF net
  <1> QED BY <1>1, <1>4, <1>8, <1>9, <1>10, UpdateKeepsContents DEF s, d, last

LEMMA CloseNetKeepsContents ==
    ASSUME TypeOK, TypeOK', Orderly, ReadingInvariant, ContentsInvariant, CloseNet
    PROVE  ContentsInvariant'
  <1> DEFINE d    == design[phase]
             list == lists[phase]
             new  == RegisterLast(list)
  <1>1. /\ Reading /\ GetLine /\ KeepMerging /\ inside = "net" /\ inside' = "top"
        /\ Closes(inside, NextLine) /\ lists' = [lists EXCEPT ![phase] = new]
        /\ phase' = phase /\ design' = design /\ cut' = cut
    BY DEF CloseNet, Turns, KeepMerging, input
  <1>2. inside \in Loops /\ inside \in NetLoops /\ inside # "top" /\ Loop(inside) = "net"
    BY <1>1 DEF Loops, NetLoops, Loop
  <1>3. IsNetList(list) /\ list.netList # <<>>
    BY <1>1, <1>2, InANet
  <1>4. PICK n, j : LineInNet(n, j)
    BY <1>1, <1>2, NextLineInNet
  <1> DEFINE s    == d[n + 1]
             nets == NetsOf(d, n)
  <1>5. /\ Place(n, j) /\ NetsRead(list, nets) /\ NetHolds(LastNet(list), s, j) /\ ~Wraps(s[j])
        /\ d \in Designs /\ n \in 0 .. Len(d) - 1 /\ j \in Nat \ {0} /\ NextLine = s[j + 1]
        /\ s \in Seq(LineType) /\ s # <<>> /\ s[1].first = "net" /\ IsStatement(s)
        /\ Len(list.netList) = Len(nets) + 1
    BY <1>1, <1>4 DEF LineInNet, ContentsAt
  <1>6. Place(n + 1, 0)' /\ j + 1 = Len(s)
    BY <1>1, <1>2, <1>5, TurnCloses DEF Orderly
  <1>7. lists'[phase] = new /\ \A g \in Files \ {phase} : lists'[g] = lists[g]
    BY <1>1, OwnList
  <1>8. new.netList = list.netList
    <2> HIDE DEF list
    <2> QED BY <1>3, RegisteredNet
  <1>9. NetIs(LastNet(list), s)
    <2> HIDE DEF s, list, d
    <2>1. s[j + 1].first = ";"
      BY <1>1, <1>5 DEF Closes
    <2>2. /\ \A kind \in {"outpin", "inpin"} : PinsRead(s, kind, j + 1) = PinsRead(s, kind, j)
          /\ PipsRead(s, j + 1) = PipsRead(s, j)
      <3>1. \A kind \in {"outpin", "inpin"} : PinsRead(s, kind, j + 1) = PinsRead(s, kind, j)
        <4> TAKE kind \in {"outpin", "inpin"}
        <4>1. s[j + 1].first # kind
          BY <2>1
        <4> QED BY <1>5, <4>1, LineAddsPin
      <3>2. PipsRead(s, j + 1) = PipsRead(s, j)
        BY <1>5, <2>1, LineAddsPip
      <3> QED BY <3>1, <3>2
    <2>3. NetHolds(LastNet(list), s, j + 1)
      BY <1>5, <2>2 DEF NetHolds, PinsHold
    <2> QED BY <1>5, <1>6, <2>3, AllIsHeld
  <1>10. NetsRead(list, NetsOf(d, n + 1))
    <2>1. NetsOf(d, n + 1) = Append(nets, s) /\ nets \in Designs
      <3>1. n \in 0 .. Len(d)
        BY <1>5, StartSteps
      <3> HIDE DEF d
      <3> QED BY <1>5, <3>1, NetsStep, NetsSeen
    <2> HIDE DEF nets, s, list
    <2>2. s \in Seq(LineType) \ {<<>>}
      BY <1>5
    <2> QED BY <1>3, <1>5, <1>9, <2>1, <2>2, LastRead
  <1>11. NetsRead(new, NetsOf(d, n + 1))
    <2> HIDE DEF new
    <2> QED BY <1>8, <1>10 DEF NetsRead
  <1> HIDE DEF new
  <1>12. ContentsAt(n + 1, 0)'
    BY <1>1, <1>7, <1>11 DEF ContentsAt, NetLoops
  <1> QED BY <1>1, <1>6, <1>7, <1>12, TurnKeepsContents

LEMMA TopLevelKeepsContents ==
    ASSUME TypeOK, TypeOK', Orderly, ReadingInvariant, ContentsInvariant, TopLevel
    PROVE  ContentsInvariant'
  <1> DEFINE d    == design[phase]
             list == lists[phase]
  <1>1. /\ Reading /\ inside = "top" /\ ~AtEnd /\ ~TooLong(NextLine) /\ GetLine /\ KeepMerging
        /\ phase' = phase /\ design' = design /\ cut' = cut /\ phase \in Files
    BY DEF TopLevel, KeepMerging, input, Reading
  <1>2. PICK n, j : SoFar(n, j)
    BY <1>1 DEF ReadingInvariant
  <1> DEFINE s    == d[n + 1]
             nets == NetsOf(d, n)
  <1>3. /\ n \in 0 .. Len(d) - 1 /\ j = 0 /\ NextLine.first = s[1].first
        /\ NextLine.first \in {"design", "module", "inst", "net"} /\ inside' = NextLine.first
              => Place(n, 1)'
        /\ NextLine.first \notin {"design", "module", "inst", "net"} /\ inside' = inside
              => Place(n + 1, 0)'
    <2>1. Place(n, j)
      BY <1>2 DEF SoFar
    <2> QED BY <1>1, <2>1, TurnOpens DEF Orderly
  <1>4. /\ Holds(list, d, n, 0) /\ d \in Designs /\ IsNetList(list) /\ NextLine = s[1]
        /\ IsStatement(s) /\ n \in 0 .. Len(d)
    <2>1. /\ Holds(list, d, n, j) /\ d \in Designs /\ IsNetList(list)
          /\ NextLine = s[j + 1] /\ IsStatement(s)
      BY <1>1, <1>2, WholeLine DEF Orderly
    <2>2. n \in 0 .. Len(d)
      BY <1>3, <2>1, StartSteps
    <2> QED BY <1>3, <2>1, <2>2
  <1>5. NetsRead(list, nets)
    <2>1. ContentsAt(n, j)
      BY <1>1, <1>2 DEF ContentsInvariant, SoFar
    <2> QED BY <2>1 DEF ContentsAt
  <1>6. /\ Len(list.netList) = Len(nets) /\ Len(nets) \in Nat /\ DOMAIN nets = 1 .. Len(nets)
    <2> HIDE DEF d, list
    <2>1. 0 \in Nat
      OBVIOUS
    <2>2. Len(list.netList) = Len(nets)
      BY <1>4, <2>1, HowManyNets
    <2> QED BY <1>4, <2>2, NetsSeen
  <1>7. CASE NextLine.first \in TextKinds
    <2> DEFINE new == Output(list, NextLine)
    <2>1. inside' = NextLine.first /\ lists' = [lists EXCEPT ![phase] = new]
      BY <1>7 DEF TopLevel, TextKinds
    <2>2. lists'[phase] = new /\ \A g \in Files \ {phase} : lists'[g] = lists[g]
      BY <1>1, <2>1, OwnList
    <2>3. new.netList = list.netList
      <3> HIDE DEF list
      <3> QED BY <1>4, OutputKeepsNets
    <2> HIDE DEF new
    <2>4. NetsRead(new, nets)
      BY <1>5, <2>3 DEF NetsRead
    <2>5. Place(n, 1)'
      BY <1>3, <1>7, <2>1 DEF TextKinds
    <2>6. inside' \notin NetLoops /\ inside' # "net"
      BY <1>7, <2>1 DEF TextKinds, NetLoops
    <2>7. ContentsAt(n, 1)'
      BY <1>1, <2>2, <2>4, <2>6 DEF ContentsAt, NetLoops
    <2> QED BY <1>1, <2>2, <2>5, <2>7, TurnKeepsContents
  <1>8. CASE NextLine.first = "net"
    <2> DEFINE net == Net(NextLine)
               new == InsertNet(list, net)
    <2>1. inside' = "net" /\ lists' = [lists EXCEPT ![phase] = new]
      BY <1>8 DEF TopLevel
    <2>2. lists'[phase] = new /\ \A g \in Files \ {phase} : lists'[g] = lists[g]
      BY <1>1, <2>1, OwnList
    <2>3. net \in NetType
      BY <1>1, NextLineIsLine, NewNetIsNet DEF TypeOK
    <2>4. s[1].first = "net" /\ s[1].says # NoText
      BY <1>4, <1>8 DEF IsStatement
    <2>5. NetHolds(net, s, 1) /\ ~Wraps(s[1])
      <3> HIDE DEF s
      <3> QED BY <1>4, <2>4, NetBegins
    <2>6. NetsRead(new, nets) /\ LastNet(new) = net
      <3> HIDE DEF nets, net, list
      <3> QED BY <1>4, <1>5, <1>6, <2>3, LastInserted
    <2> HIDE DEF new, net
    <2>7. Place(n, 1)'
      BY <1>3, <1>8, <2>1
    <2>8. ContentsAt(n, 1)'
      BY <1>1, <2>1, <2>2, <2>5, <2>6 DEF ContentsAt
    <2> QED BY <1>1, <2>2, <2>7, <2>8, TurnKeepsContents
  <1>9. CASE NextLine.first \notin TextKinds \cup {"net"}
    <2>1. inside' = inside /\ lists' = lists
      BY <1>9 DEF TopLevel, TextKinds
    <2>2. NetsOf(d, n + 1) = nets
      BY <1>3, <1>4, <1>9, NetsStep
    <2>3. Place(n + 1, 0)'
      BY <1>3, <1>9, <2>1 DEF TextKinds
    <2>4. ContentsAt(n + 1, 0)'
      BY <1>1, <1>5, <2>1, <2>2 DEF ContentsAt, NetLoops
    <2> QED BY <1>1, <2>1, <2>3, <2>4, TurnKeepsContents
  <1> QED BY <1>7, <1>8, <1>9

LEMMA CopyStatementKeepsContents ==
    ASSUME TypeOK, TypeOK', Orderly, ReadingInvariant, ContentsInvariant, CopyStatement
    PROVE  ContentsInvariant'
  <1> DEFINE d    == design[phase]
             list == lists[phase]
             new  == Output(list, NextLine)
  <1>1. /\ Reading /\ GetLine /\ KeepMerging /\ inside \in TextKinds
        /\ lists' = [lists EXCEPT ![phase] = new]
        /\ inside' = (IF Closes(inside, NextLine) THEN "top" ELSE inside)
        /\ phase' = phase /\ design' = design /\ cut' = cut
    BY DEF CopyStatement, Turns, TextKinds, KeepMerging, input
  <1>2. /\ inside \in Loops /\ inside' \in Loops /\ inside # "top" /\ Loop(inside) = inside
        /\ inside \notin NetLoops /\ inside' \notin NetLoops
    BY <1>1 DEF Loops, NetLoops, Loop, TextKinds
  <1>3. lists'[phase] = new /\ \A g \in Files \ {phase} : lists'[g] = lists[g]
    BY <1>1, OwnList
  <1>4. PICK n, j : SoFar(n, j)
    BY <1>1 DEF ReadingInvariant
  <1>5. Place(n, j) /\ ContentsAt(n, j)
    BY <1>1, <1>4 DEF SoFar, ContentsInvariant
  <1>6. /\ d \in Designs /\ IsNetList(list) /\ ~AtEnd /\ n \in 0 .. Len(d) - 1
        /\ d[n + 1][1].first \in TextKinds
    BY <1>1, <1>2, <1>4, WholeLine DEF Orderly
  <1>7. new.netList = list.netList
    <2> HIDE DEF list
    <2> QED BY <1>6, OutputKeepsNets
  <1> HIDE DEF new
  <1>8. NetsRead(new, NetsOf(d, n))
    BY <1>5, <1>7 DEF ContentsAt, NetsRead
  <1>9. CASE Closes(inside, NextLine)
    <2>1. inside' = "top"
      BY <1>1, <1>9
    <2>2. Place(n + 1, 0)'
      BY <1>1, <1>2, <1>5, <1>9, <2>1, TurnCloses DEF Orderly
    <2>3. NetsOf(d, n + 1) = NetsOf(d, n)
      <3>1. d[n + 1][1].first # "net"
        BY <1>6 DEF TextKinds
      <3> QED BY <1>6, <3>1, NetsStep
    <2>4. ContentsAt(n + 1, 0)'
      BY <1>1, <1>3, <1>8, <2>1, <2>3 DEF ContentsAt, NetLoops
    <2> QED BY <1>1, <1>3, <2>2, <2>4, TurnKeepsContents
  <1>10. CASE ~Closes(inside, NextLine)
    <2>1. inside' = inside /\ inside' \notin {"outpin", "inpin"} /\ inside' # "net"
      BY <1>1, <1>2, <1>10 DEF NetLoops
    <2>2. Place(n, j + 1)'
      BY <1>1, <1>2, <1>5, <1>6, <1>10, <2>1, TurnInside DEF Orderly
    <2>3. ContentsAt(n, j + 1)'
      BY <1>1, <1>2, <1>3, <1>8, <2>1 DEF ContentsAt
    <2> QED BY <1>1, <1>3, <2>2, <2>3, TurnKeepsContents
  <1> QED BY <1>9, <1>10

-----------------------------------------------------------------------------
\* A file that has been read, and what it has for a name.

LEMMA NetsByName ==
    ASSUME TypeOK, Orderly, NEW f \in Files, NEW n, EndsAt(f, n)
    PROVE  /\ design[f] \in Designs /\ n \in 0 .. Len(design[f]) /\ Nets(f) = NetsOf(design[f], n)
           /\ NetNames(f) = NamesOf(design[f], n)
           /\ DOMAIN Nets(f) = 1 .. Len(Nets(f)) /\ Len(Nets(f)) \in Nat
           /\ \A i \in DOMAIN Nets(f) : /\ NetNames(f)[i] = Nets(f)[i][1].says
                                        /\ PipTexts(f, Nets(f)[i][1].says) = PipsOf(Nets(f)[i])
           /\ \A i, k \in DOMAIN Nets(f) : Nets(f)[i][1].says = Nets(f)[k][1].says => i = k
           /\ \A name : name \notin Range(NetNames(f)) => PipTexts(f, name) = {}
           /\ Range(NetNames(f)) = {Nets(f)[i][1].says : i \in DOMAIN Nets(f)}
  <1> DEFINE d    == design[f]
             nets == Nets(f)
  <1>1. d \in Designs /\ n \in 0 .. Len(d) /\ RepeatsNothing(d)
    BY FileIsDesign DEF TypeOK, EndsAt, Orderly, NothingTwice
  <1>2. cut.file # f
    BY DEF Orderly, Whole, NotCut, Files
  <1>3. nets = NetsOf(d, n)
    BY <1>2, StatementsRead DEF TypeOK, Nets, NetsOf
  <1>4. DOMAIN nets = 1 .. Len(nets) /\ Len(nets) \in Nat
    BY <1>1, <1>3, NetsSeen
  <1>5. \A i, k \in DOMAIN nets : nets[i][1].says = nets[k][1].says => i = k
    BY <1>1, <1>3, NamesOnce
  <1>6. NetNames(f) = [i \in DOMAIN nets |-> nets[i][1].says] /\ NetNames(f) = NamesOf(d, n)
    BY <1>3 DEF NetNames, NamesOf
  <1>7. \A name : PipTexts(f, name) = UNION {PipsOf(s) : s \in {t \in Range(nets) : t[1].says = name}}
    BY DEF PipTexts, ClockStatement
  <1> HIDE DEF nets, d
  <1>8. Range(NetNames(f)) = {nets[i][1].says : i \in DOMAIN nets}
    BY <1>6 DEF Range
  <1>9. ASSUME NEW i \in DOMAIN nets
        PROVE  PipTexts(f, nets[i][1].says) = PipsOf(nets[i])
    <2>1. {t \in Range(nets) : t[1].says = nets[i][1].says} = {nets[i]}
      BY <1>5 DEF Range
    <2> DEFINE name == nets[i][1].says
    <2>2. PipTexts(f, name) = UNION {PipsOf(s) : s \in {t \in Range(nets) : t[1].says = name}}
      BY <1>7
    <2>3. UNION {PipsOf(s) : s \in {nets[i]}} = PipsOf(nets[i])
      OBVIOUS
    <2> QED BY <2>1, <2>2, <2>3
  <1>10. ASSUME NEW name, name \notin Range(NetNames(f))
         PROVE  PipTexts(f, name) = {}
    <2>1. {t \in Range(nets) : t[1].says = name} = {}
      BY <1>8, <1>10 DEF Range
    <2> QED BY <1>7, <2>1
  <1> QED BY <1>1, <1>3, <1>4, <1>5, <1>6, <1>8, <1>9, <1>10 DEF nets, d

\* What is in a list stays in it.
LEMMA PartialStays ==
    ASSUME PartialIsIn, design' = design, clkNetNames' = clkNetNames, clock' = clock,
           lists'["static"] = lists["static"],
           lists'["partial"].netList = lists["partial"].netList
    PROVE  PartialIsIn'
  <1>1. /\ Nets("partial")' = Nets("partial") /\ NetNames("partial")' = NetNames("partial")
        /\ \A name : PipTexts("partial", name)' = PipTexts("partial", name)
    BY FilesStay
  <1>2. /\ ClocksMerged' = ClocksMerged
        /\ \A name : StaticPips(name)' = StaticPips(name)
    BY DEF ClocksMerged, StaticPips, StaticNet
  <1>3. \A name : Added(name)' = Added(name)
    BY <1>2 DEF Added
  <1> QED BY <1>1, <1>2, <1>3 DEF PartialIsIn, PipsMerged

LEMMA EndOfFileKeepsContents ==
    ASSUME MergeInvariant, Orderly, ReadingInvariant, ContentsInvariant, EndOfFile
    PROVE  ContentsInvariant'
  <1>0. TypeOK /\ (Reading => clock = 1)
    BY DEF MergeInvariant
  <1>1. /\ Reading /\ phase \in Files /\ inside = "top" /\ inside' = "top"
        /\ phase' = (IF phase = "static" THEN "partial" ELSE "merge") /\ pos' = 0
        /\ design' = design /\ cut' = cut /\ clkNetNames' = clkNetNames /\ lists' = lists
        /\ clock' = clock /\ result' = result
    BY DEF EndOfFile, input, Reading
  <1>2. PICK n, j : SoFar(n, j)
    BY <1>1 DEF ReadingInvariant
  <1>3. EndsAt(phase, n) /\ j = 0 /\ Holds(lists[phase], design[phase], n, 0)
    BY <1>0, <1>2, ReadingEnds DEF SoFar, Orderly
  <1>4. result = "none"
    BY <1>0, <1>1 DEF ReadingInvariant, TypeOK, Files
  <1>5. NetsRead(lists[phase], Nets(phase))
    <2>1. ContentsAt(n, j)
      BY <1>1, <1>2 DEF SoFar, ContentsInvariant
    <2>2. Nets(phase) = NetsOf(design[phase], n)
      BY <1>0, <1>1, <1>3, NetsByName
    <2> QED BY <2>1, <2>2 DEF ContentsAt
  <1>6. \A f : Nets(f)' = Nets(f)
    BY <1>1, FilesStay
  <1>7. CASE phase = "static"
    <2>1. phase' = "partial" /\ NetsRead(lists["static"], Nets("static"))'
      BY <1>1, <1>5, <1>6, <1>7 DEF NetsRead
    <2>2. ASSUME NEW m, NEW k, Place(m, k)'
          PROVE  ContentsAt(m, k)'
      <3> DEFINE d == design["partial"]
      <3>1. d \in Designs
        BY <1>0, FileIsDesign DEF TypeOK, Files
      <3>2. m \in 0 .. Len(d) /\ k = 0 /\ 0 = Start(d, m) + k
        BY <1>1, <2>1, <2>2 DEF Place
      <3>3. d \in Seq(Seq(LineType)) /\ Len(d) \in Nat
        BY <3>1 DEF Designs
      <3>4. Start(d, 0) = 0 /\ 0 \in 0 .. Len(d)
        <4>1. Prefix(d, 0) = <<>>
          BY <3>3, PrefixSteps
        <4> QED BY <3>3, <4>1 DEF Start
      <3>5. m = 0
        <4> HIDE DEF d
        <4>1. 0 \in Nat /\ Start(d, 0) + 0 = Start(d, m) + 0
          BY <3>2, <3>4
        <4> QED BY <3>1, <3>2, <3>4, <4>1, PlaceIsOne
      <3>6. NetsOf(d, 0) = <<>>
        BY <3>3, SelectedNone DEF NetsOf
      <3>7. NetsRead(lists["partial"], NetsOf(d, 0))
        BY <3>6 DEF NetsRead
      <3> QED BY <1>1, <2>1, <3>2, <3>5, <3>7 DEF ContentsAt, NetLoops
    <2> QED BY <1>1, <1>4, <2>1, <2>2 DEF ContentsInvariant
  <1>8. CASE phase = "partial"
    <2> DEFINE nets == lists["partial"].netList
               stmts == Nets("partial")
    <2>1. NetsRead(lists["static"], Nets("static"))'
      BY <1>1, <1>6, <1>8 DEF ContentsInvariant, NetsRead
    <2>2. DOMAIN nets = DOMAIN stmts
      <3>1. /\ DOMAIN stmts = 1 .. Len(stmts) /\ stmts = NetsOf(design["partial"], n)
            /\ design["partial"] \in Designs /\ n \in 0 .. Len(design["partial"])
        BY <1>0, <1>3, <1>8, NetsByName DEF Files
      <3>2. IsNetList(lists["partial"]) /\ Holds(lists["partial"], design["partial"], n, 0) /\ 0 \in Nat
        BY <1>0, <1>3, <1>8 DEF TypeOK, ListTypes, Files
      <3> DEFINE list == lists["partial"]
                 d    == design["partial"]
      <3>3. DOMAIN list.netList = 1 .. Len(list.netList) /\ Len(list.netList) = Len(NetsOf(d, n))
        <4> HIDE DEF list, d
        <4> QED BY <3>1, <3>2, HowManyNets DEF list, d
      <3> QED BY <3>1, <3>3
    <2>3. \A i \in DOMAIN nets : NetIs(nets[i], stmts[i])
      BY <1>5, <1>8, <2>2 DEF NetsRead
    <2>4. \A i \in DOMAIN nets : nets[i].name = stmts[i][1].says /\ PinsAre(nets[i], stmts[i])
      BY <2>3 DEF NetIs, PinsAre
    <2>5. ASSUME NEW i \in DOMAIN nets
          PROVE  PipsMerged(nets[i])
      <3>1. PipTexts("partial", nets[i].name) = PipsOf(stmts[i])
        <4>1. PipTexts("partial", stmts[i][1].says) = PipsOf(stmts[i])
          BY <1>0, <1>3, <1>8, <2>2, NetsByName DEF Files
        <4> QED BY <2>4, <4>1
      <3>2. ClocksMerged = {}
        <4>1. \A k \in 1 .. clock - 1 : FALSE
          BY <1>0, <1>1
        <4> QED BY <4>1 DEF ClocksMerged
      <3>3. Added(nets[i].name) = {}
        BY <3>2 DEF Added
      <3>4. nets[i].pips = nets[i].pips \cup {} /\ SaysOnce(nets[i].pips)
            /\ Texts(nets[i].pips) = PipsOf(stmts[i])
        BY <2>3 DEF NetIs
      <3> QED BY <3>1, <3>3, <3>4 DEF PipsMerged
    <2>6. PartialIsIn
      BY <2>2, <2>4, <2>5 DEF PartialIsIn
    <2>7. PartialIsIn' /\ phase' = "merge"
      BY <1>1, <1>8, <2>6, PartialStays
    <2> QED BY <1>1, <1>4, <2>1, <2>7 DEF ContentsInvariant, Reading, Files
  <1> QED BY <1>1, <1>7, <1>8 DEF Files

-----------------------------------------------------------------------------
\* Merging.

\* A clock net of the static list, with its pips, becomes one that is merged.
LEMMA ClockAdded ==
    ASSUME TypeOK, Merging, NextClock, lists'["static"] = lists["static"], NEW s \in InStatic,
           NEW name, name = clkNetNames[clock], NEW pips, pips = StaticNet(s).pips
    PROVE  /\ ClocksMerged' = ClocksMerged \cup {name}
           /\ \A x : x # name => Added(x)' = Added(x)
           /\ Added(name)' = pips /\ Added(name) \in {{}, pips}
           /\ name \in ClocksMerged => Added(name) = pips
  <1>1. ClocksMerged' = ClocksMerged \cup {name}
    <2>1. clkNetNames' = clkNetNames /\ clock' = clock + 1 /\ clock \in Nat \ {0}
      BY DEF NextClock, input, TypeOK
    <2>2. \A k : k \in 1 .. clock' - 1 <=> k \in 1 .. clock - 1 \/ k = clock
      BY <2>1
    <2> QED BY <2>1, <2>2 DEF ClocksMerged
  <1>2. \A x : StaticPips(x)' = StaticPips(x)
    BY DEF StaticPips, StaticNet
  <1>3. StaticPips(name) = pips
    <2>1. IsNetList(lists["static"])
      BY StaticClockNet
    <2>2. FindNet(lists["static"], name) = {s}
      BY <2>1 DEF IsNetList, FindNet, InStatic
    <2>3. UNION {StaticNet(t).pips : t \in {s}} = StaticNet(s).pips
      OBVIOUS
    <2> QED BY <2>2, <2>3 DEF StaticPips
  <1>4. ASSUME NEW x, x # name
        PROVE  Added(x)' = Added(x)
    BY <1>1, <1>2, <1>4 DEF Added
  <1>5. Added(name)' = pips
    BY <1>1, <1>2, <1>3 DEF Added
  <1>6. Added(name) \in {{}, pips} /\ (name \in ClocksMerged => Added(name) = pips)
    BY <1>3 DEF Added
  <1> QED BY <1>1, <1>4, <1>5, <1>6

\* A step that merges a clock net, by what it makes of the partial list.
LEMMA MergingKeepsContents ==
    ASSUME TypeOK, ContentsInvariant, ReadingInvariant, Merging, NextClock,
           NEW new, lists' = [lists EXCEPT !["partial"] = new], PartialIsIn'
    PROVE  ContentsInvariant'
  <1>1. /\ phase = "merge" /\ phase' = "merge" /\ design' = design /\ result' = result
    BY DEF Merging, NextClock, input
  <1>2. lists'["static"] = lists["static"]
    BY DEF TypeOK, ListTypes, Files
  <1>3. result = "none"
    BY <1>1 DEF ReadingInvariant, TypeOK
  <1>4. NetsRead(lists["static"], Nets("static"))'
    <2>1. Nets("static")' = Nets("static")
      BY <1>1, FilesStay
    <2> QED BY <1>1, <1>2, <2>1 DEF ContentsInvariant, NetsRead
  <1> QED BY <1>1, <1>3, <1>4 DEF ContentsInvariant, Reading, Files

\* Where the partial design has a net, findNet finds it, if it finds any.
LEMMA FoundInPartial ==
    ASSUME TypeOK, Orderly, ReadingInvariant, phase = "merge", NEW name
    PROVE  FindNet(lists["partial"], name) # {} <=> name \in Range(NetNames("partial"))
  <1>1. PICK n : PartialRead(n)
    BY DEF ReadingInvariant
  <1>2. Findable(lists["partial"]) = Range(NetNames("partial"))
    BY <1>1, NetsByName DEF PartialRead, Orderly, Files
  <1>3. IsNetList(lists["partial"])
    BY DEF TypeOK, ListTypes, Files
  <1> QED BY <1>2, <1>3, NamesOfList

\* What the partial list is after a step, from what its nets are.
LEMMA PipsMergedNext ==
    ASSUME NEW net, NEW own, NEW name, NEW pips, net.name = name, SaysOnce(own),
           Texts(own) = PipTexts("partial", name), PipTexts("partial", name)' = PipTexts("partial", name),
           Added(name)' = pips, net.pips = own \cup pips
    PROVE  PipsMerged(net)'
  <1>1. Texts(own) = PipTexts("partial", net.name)' /\ net.pips = own \cup Added(net.name)'
    OBVIOUS
  <1> QED BY <1>1 DEF PipsMerged

LEMMA PartialNext ==
    ASSUME NEW nets, lists'["partial"].netList = nets,
           NEW stmts, Nets("partial")' = stmts,
           NEW names, Range(NetNames("partial"))' = names,
           NEW clocks, ClocksMerged' = clocks,
           DOMAIN stmts \subseteq DOMAIN nets,
           \A i \in DOMAIN stmts : PinsAre(nets[i], stmts[i]),
           \A i \in DOMAIN nets : PipsMerged(nets[i])',
           \A i \in DOMAIN nets : i \notin DOMAIN stmts => nets[i].name \in clocks /\ nets[i].name \notin names
    PROVE  PartialIsIn'
  BY DEF PartialIsIn

LEMMA MergeClockNetKeepsContents ==
    ASSUME TypeOK, Orderly, ReadingInvariant, ContentsInvariant, MergeClockNet
    PROVE  ContentsInvariant'
  <1>1. Merging /\ NextClock /\ phase = "merge" /\ design' = design
    BY DEF MergeClockNet, Merging, NextClock, input
  <1>2. PICK s \in InStatic, p \in InPartial :
           lists' = [lists EXCEPT !["partial"] =
                       UpdateNet(@, p, MergePips(@.netList[p], StaticNet(s)))]
    BY DEF MergeClockNet
  <1>3. PICK list, static, name, stmts, names :
           /\ list = lists["partial"] /\ static = StaticNet(s) /\ name = clkNetNames[clock]
           /\ stmts = Nets("partial") /\ names = Range(NetNames("partial"))
    OBVIOUS
  <1>4. IsNetList(list) /\ static \in NetType /\ static.pips \in SUBSET PipType
    BY <1>3, StaticClockNet
  <1>5. PICK old, pips, net, new :
           /\ old = list.netList /\ pips = static.pips /\ net = MergePips(old[p], static)
           /\ new = UpdateNet(list, p, net)
    OBVIOUS
  <1>6. p \in DOMAIN old /\ old[p] \in NetType /\ old[p].name = name
    BY <1>3, <1>4, <1>5 DEF InPartial, FindNet, IsNetList
  <1>7. net = [old[p] EXCEPT !.pips = old[p].pips \cup pips]
    BY <1>4, <1>5, <1>6, PipsAreMerged
  <1>8. /\ net.name = name /\ net.cfg = old[p].cfg /\ (net.configure <=> old[p].configure)
        /\ net.outPins = old[p].outPins /\ net.inPins = old[p].inPins
        /\ net.pips = old[p].pips \cup pips /\ net \in NetType
    <2>1. net \in NetType
      BY <1>4, <1>5, <1>6, MergedPips
    <2> QED BY <1>6, <1>7, <2>1 DEF NetType
  <1>9. lists' = [lists EXCEPT !["partial"] = new]
    BY <1>2, <1>3, <1>5 DEF TypeOK, ListTypes, Files
  <1>10. lists'["partial"] = new /\ lists'["static"] = lists["static"]
    BY <1>9 DEF TypeOK, ListTypes, Files
  <1>11. PICK nets : nets = new.netList
    OBVIOUS
  <1>12. /\ DOMAIN nets = DOMAIN old /\ nets[p] = net
         /\ \A i \in DOMAIN old \ {p} : nets[i] = old[i]
    <2>1. nets = [old EXCEPT ![p] = net]
      BY <1>4, <1>5, <1>6, <1>8, <1>11, UpdatedNet
    <2> QED BY <1>6, <2>1
  <1>13. PartialIsIn
    BY <1>1 DEF ContentsInvariant
  <1>14. /\ DOMAIN stmts \subseteq DOMAIN old
         /\ \A i \in DOMAIN stmts : PinsAre(old[i], stmts[i])
         /\ \A i \in DOMAIN old : i \notin DOMAIN stmts =>
               old[i].name \in ClocksMerged /\ old[i].name \notin names
    BY <1>3, <1>5, <1>13 DEF PartialIsIn
  <1>15. \A i \in DOMAIN old \ {p} : old[i].name # name
    <2>1. name \in names
      BY <1>1, <1>3, FoundInPartial DEF InPartial
    <2>2. \A i \in DOMAIN old : i \notin DOMAIN stmts => old[i].name # name
      BY <1>14, <2>1
    <2>3. \A i \in DOMAIN stmts : old[i].name = stmts[i][1].says
      BY <1>14 DEF PinsAre
    <2>4. \A i, k \in DOMAIN stmts : stmts[i][1].says = stmts[k][1].says => i = k
      <3>1. PICK n : PartialRead(n)
        BY <1>1 DEF ReadingInvariant
      <3> QED BY <1>3, <3>1, NetsByName DEF PartialRead, Files
    <2>5. p \in DOMAIN stmts
      BY <1>6, <2>2
    <2> QED BY <1>6, <2>2, <2>3, <2>4, <2>5
  <1>16. /\ ClocksMerged' = ClocksMerged \cup {name}
         /\ \A x : x # name => Added(x)' = Added(x)
         /\ Added(name)' = pips /\ Added(name) \in {{}, pips}
    BY <1>1, <1>3, <1>5, <1>10, ClockAdded
  <1>17. /\ Nets("partial")' = stmts /\ Range(NetNames("partial"))' = names
         /\ \A x : PipTexts("partial", x)' = PipTexts("partial", x)
    BY <1>1, <1>3, FilesStay
  <1>18. ASSUME NEW i \in DOMAIN old
         PROVE  PipsMerged(nets[i])'
    <2>1. PICK own, x : /\ x = old[i].name /\ SaysOnce(own) /\ Texts(own) = PipTexts("partial", x)
                        /\ old[i].pips = own \cup Added(x)
      BY <1>3, <1>5, <1>13 DEF PartialIsIn, PipsMerged
    <2>2. CASE i = p
      <3>1. nets[i].pips = own \cup pips /\ nets[i].name = name /\ x = name
        BY <1>6, <1>8, <1>12, <1>16, <2>1, <2>2
      <3> QED BY <1>16, <1>17, <2>1, <3>1, PipsMergedNext
    <2>3. CASE i # p
      <3>1. nets[i] = old[i] /\ Added(x)' = Added(x)
        BY <1>12, <1>15, <1>16, <2>1, <2>3
      <3>2. PICK added : added = Added(x)
        OBVIOUS
      <3> QED BY <1>17, <2>1, <3>1, <3>2, PipsMergedNext
    <2> QED BY <2>2, <2>3
  <1>19. PartialIsIn'
    <2>1. PICK clocks : clocks = ClocksMerged'
      OBVIOUS
    <2>2. \A i \in DOMAIN stmts : PinsAre(nets[i], stmts[i])
      BY <1>6, <1>8, <1>12, <1>14 DEF PinsAre
    <2>3. \A i \in DOMAIN old : nets[i].name = old[i].name
      BY <1>6, <1>8, <1>12
    <2>4. \A i \in DOMAIN nets : i \notin DOMAIN stmts => nets[i].name \in clocks /\ nets[i].name \notin names
      BY <1>12, <1>14, <1>16, <2>1, <2>3
    <2>5. lists'["partial"].netList = nets /\ DOMAIN stmts \subseteq DOMAIN nets
          /\ \A i \in DOMAIN nets : PipsMerged(nets[i])'
      BY <1>10, <1>11, <1>12, <1>14, <1>18
    <2> QED BY <1>17, <2>1, <2>2, <2>4, <2>5, PartialNext
  <1> QED BY <1>1, <1>9, <1>19, MergingKeepsContents

LEMMA CopyClockNetKeepsContents ==
    ASSUME TypeOK, Orderly, ReadingInvariant, ContentsInvariant, CopyClockNet
    PROVE  ContentsInvariant'
  <1>1. Merging /\ NextClock /\ phase = "merge" /\ design' = design /\ InPartial = {}
    BY DEF CopyClockNet, Merging, NextClock, input
  <1>2. PICK s \in InStatic, configure \in BOOLEAN :
           \E copy \in ClearInPins(CopyNet(StaticNet(s), configure)) :
              lists' = [lists EXCEPT !["partial"] = InsertNet(@, MergePips(copy, StaticNet(s)))]
    BY DEF CopyClockNet
  <1>3. PICK list, static, name, stmts, names :
           /\ list = lists["partial"] /\ static = StaticNet(s) /\ name = clkNetNames[clock]
           /\ stmts = Nets("partial") /\ names = Range(NetNames("partial"))
    OBVIOUS
  <1>4. PICK copy \in ClearInPins(CopyNet(static, configure)) :
           lists' = [lists EXCEPT !["partial"] = InsertNet(@, MergePips(copy, static))]
    BY <1>2, <1>3
  <1>5. /\ IsNetList(list) /\ static \in NetType /\ static.pips \in SUBSET PipType
        /\ static.name = name
    BY <1>3, StaticClockNet
  <1>6. PICK old, pips, net, new, nets, l :
           /\ old = list.netList /\ pips = static.pips /\ net = MergePips(copy, static)
           /\ new = InsertNet(list, net) /\ nets = new.netList /\ l = Len(old) + 1
    OBVIOUS
  <1>7. copy \in NetType /\ copy.name = name /\ copy.pips = pips
    BY <1>5, <1>6, CopiedNet
  <1>8. net \in NetType /\ net.name = name /\ net.pips = pips
    <2>1. net = [copy EXCEPT !.pips = copy.pips \cup pips]
      BY <1>5, <1>6, <1>7, PipsAreMerged
    <2>2. net \in NetType
      BY <1>5, <1>6, <1>7, MergedPips
    <2> QED BY <1>7, <2>1, <2>2 DEF NetType
  <1>9. lists' = [lists EXCEPT !["partial"] = new]
    BY <1>3, <1>4, <1>6 DEF TypeOK, ListTypes, Files
  <1>10. lists'["partial"] = new /\ lists'["static"] = lists["static"]
    BY <1>9 DEF TypeOK, ListTypes, Files
  <1>11. /\ DOMAIN nets = DOMAIN old \cup {l} /\ nets[l] = net /\ l \notin DOMAIN old
         /\ \A i \in DOMAIN old : nets[i] = old[i]
    <2>1. nets = Append(old, net) /\ old \in Seq(NetType)
      BY <1>5, <1>6, <1>8, InsertedNet DEF IsNetList
    <2> QED BY <1>6, <1>8, <2>1
  <1>12. PartialIsIn
    BY <1>1 DEF ContentsInvariant
  <1>13. name \notin names /\ PipTexts("partial", name) = {}
    <2>1. name \notin names
      BY <1>1, <1>3, FoundInPartial DEF InPartial
    <2>2. PICK n : PartialRead(n)
      BY <1>1 DEF ReadingInvariant
    <2> QED BY <1>3, <2>1, <2>2, NetsByName DEF PartialRead, Files
  <1>14. /\ ClocksMerged' = ClocksMerged \cup {name}
         /\ \A x : x # name => Added(x)' = Added(x)
         /\ Added(name)' = pips /\ (name \in ClocksMerged => Added(name) = pips)
    BY <1>1, <1>3, <1>6, <1>10, ClockAdded
  <1>15. /\ Nets("partial")' = stmts /\ Range(NetNames("partial"))' = names
         /\ \A x : PipTexts("partial", x)' = PipTexts("partial", x)
    BY <1>1, <1>3, FilesStay
  <1>16. /\ DOMAIN stmts \subseteq DOMAIN old
         /\ \A i \in DOMAIN stmts : PinsAre(old[i], stmts[i]) /\ old[i].name \in names
         /\ \A i \in DOMAIN old : i \notin DOMAIN stmts =>
               old[i].name \in ClocksMerged /\ old[i].name \notin names
    <2>1. /\ DOMAIN stmts \subseteq DOMAIN old
          /\ \A i \in DOMAIN stmts : PinsAre(old[i], stmts[i])
          /\ \A i \in DOMAIN old : i \notin DOMAIN stmts =>
                old[i].name \in ClocksMerged /\ old[i].name \notin names
      BY <1>3, <1>6, <1>12 DEF PartialIsIn
    <2>2. \A i \in DOMAIN stmts : stmts[i][1].says \in names
      BY <1>3 DEF NetNames, Range
    <2> QED BY <2>1, <2>2 DEF PinsAre
  <1>17. ASSUME NEW i \in DOMAIN old
         PROVE  PipsMerged(nets[i])'
    <2>1. PICK own, x : /\ x = old[i].name /\ SaysOnce(own) /\ Texts(own) = PipTexts("partial", x)
                        /\ old[i].pips = own \cup Added(x)
      BY <1>3, <1>6, <1>12 DEF PartialIsIn, PipsMerged
    <2>2. Added(x)' = Added(x)
      <3>1. CASE x = name
        <4>1. name \in ClocksMerged
          BY <1>13, <1>16, <2>1, <3>1
        <4> QED BY <1>14, <3>1, <4>1
      <3>2. CASE x # name
        BY <1>14, <3>2
      <3> QED BY <3>1, <3>2
    <2>3. PICK added : added = Added(x)
      OBVIOUS
    <2> QED BY <1>11, <1>15, <2>1, <2>2, <2>3, PipsMergedNext
  <1>18. PipsMerged(net)'
    <2>1. SaysOnce({}) /\ Texts({}) = {} /\ pips = {} \cup pips
      BY DEF SaysOnce, Texts
    <2> QED BY <1>8, <1>13, <1>14, <1>15, <2>1, PipsMergedNext
  <1>19. PartialIsIn'
    <2>1. PICK clocks : clocks = ClocksMerged'
      OBVIOUS
    <2>2. \A i \in DOMAIN stmts : PinsAre(nets[i], stmts[i])
      BY <1>11, <1>16
    <2>3. \A i \in DOMAIN nets : i \notin DOMAIN stmts => nets[i].name \in clocks /\ nets[i].name \notin names
      BY <1>8, <1>11, <1>13, <1>14, <1>16, <2>1
    <2>4. lists'["partial"].netList = nets /\ DOMAIN stmts \subseteq DOMAIN nets
          /\ \A i \in DOMAIN nets : PipsMerged(nets[i])'
      BY <1>6, <1>10, <1>11, <1>16, <1>17, <1>18
    <2> QED BY <1>15, <2>1, <2>2, <2>3, <2>4, PartialNext
  <1> QED BY <1>1, <1>9, <1>19, MergingKeepsContents

-----------------------------------------------------------------------------
\* Every step keeps it.

LEMMA ReturnKeepsContents ==
    ASSUME TypeOK, ReadingInvariant, ContentsInvariant, NotInStatic \/ PrintNets
    PROVE  ContentsInvariant'
  <1>1. /\ phase = "merge" /\ phase' = "done" /\ design' = design
        /\ clkNetNames' = clkNetNames /\ clock' = clock
    BY DEF NotInStatic, PrintNets, Merging, Return, input
  <1>2. NetsRead(lists["static"], Nets("static")) /\ PartialIsIn
    BY <1>1 DEF ContentsInvariant
  <1>3. \A f : Nets(f)' = Nets(f)
    BY <1>1, FilesStay
  <1>4. CASE NotInStatic
    <2>1. lists' = lists /\ result' = "false"
      BY <1>4 DEF NotInStatic, Return
    <2>2. PartialIsIn' /\ NetsRead(lists["static"], Nets("static"))'
      BY <1>1, <1>2, <1>3, <2>1, PartialStays DEF NetsRead
    <2> QED BY <1>1, <2>1, <2>2 DEF ContentsInvariant, Reading, Files
  <1>5. CASE PrintNets
    <2> DEFINE list == lists["partial"]
    <2>1. result' = "true" /\ lists' = [lists EXCEPT !["partial"] = PrintData(list)]
      BY <1>5 DEF PrintNets, Return, TypeOK, ListTypes, Files
    <2>2. lists'["partial"] = PrintData(list) /\ lists'["static"] = lists["static"]
      BY <2>1 DEF TypeOK, ListTypes, Files
    <2>3. /\ PrintData(list).netList = list.netList
          /\ PrintData(list).printed = [i \in DOMAIN list.netList |-> Printed(list.netList[i])]
      BY DEF PrintData, TypeOK, ListTypes, IsNetList, Files
    <2>4. /\ lists'["partial"].netList = list.netList
          /\ lists'["partial"].printed = [i \in DOMAIN list.netList |-> Printed(list.netList[i])]
      BY <2>2, <2>3
    <2>5. PartialIsIn' /\ NetsRead(lists["static"], Nets("static"))'
      BY <1>1, <1>2, <1>3, <2>2, <2>4, PartialStays DEF NetsRead
    <2>6. (Merged = [i \in DOMAIN lists["partial"].netList |-> Printed(lists["partial"].netList[i])])'
      BY <2>4 DEF Merged
    <2> QED BY <1>1, <2>5, <2>6 DEF ContentsInvariant, Reading, Files
  <1> QED BY <1>4, <1>5

LEMMA AbortKeepsContents ==
    ASSUME MergeInvariant, Abort, phase # "done"
    PROVE  ContentsInvariant'
  <1>1. phase' = "aborted" /\ result' = "none"
    BY DEF Abort, MergeInvariant
  <1> QED BY <1>1 DEF ContentsInvariant, Reading, Files

LEMMA NextKeepsContents ==
    ASSUME MergeInvariant, MergeInvariant', Orderly, ReadingInvariant, ContentsInvariant, [Next]_vars
    PROVE  ContentsInvariant'
  <1>1. TypeOK /\ TypeOK'
    BY DEF MergeInvariant
  <1>2. CASE Read
    <2>1. CASE BlankAborts \/ ShortLineAborts
      <3>1. Abort /\ phase # "done"
        BY <2>1 DEF BlankAborts, ShortLineAborts, Turns, Reading, Files
      <3> QED BY <3>1, AbortKeepsContents
    <2> QED BY <1>1, <1>2, <2>1, TopLevelKeepsContents, EndOfFileKeepsContents, CopyStatementKeepsContents,
               SkipInNetKeepsContents, CloseNetKeepsContents, ReadPinKeepsContents,
               ReadPositionKeepsContents, ReadPipKeepsContents
            DEF Read
  <1>3. CASE ClearInPinsCrashes
    <2>1. Abort /\ phase # "done"
      BY <1>3 DEF ClearInPinsCrashes, Merging
    <2> QED BY <2>1, AbortKeepsContents
  <1>4. CASE UNCHANGED vars
    <2>1. /\ design' = design /\ cut' = cut /\ clkNetNames' = clkNetNames /\ phase' = phase
          /\ pos' = pos /\ temp' = temp /\ eof' = eof /\ inside' = inside /\ pinName' = pinName
          /\ lists' = lists /\ clock' = clock /\ result' = result
      BY <1>4 DEF vars, input, reader
    <2>2. PartialIsIn => PartialIsIn'
      BY <2>1, PartialStays
    <2>3. (NetsRead(lists["static"], Nets("static")) => NetsRead(lists["static"], Nets("static"))')
          /\ Reading' = Reading
      BY <2>1, FilesStay DEF NetsRead, Reading
    <2>4. \A n, j : (Place(n, j)' => Place(n, j)) /\ (ContentsAt(n, j) => ContentsAt(n, j)')
      <3>1. AtEnd' = AtEnd /\ File(phase)' = File(phase)
        BY <2>1 DEF AtEnd, File, Lines, LastLine
      <3>2. ASSUME NEW n, NEW j
            PROVE  Place(n, j)' => Place(n, j)
        BY <2>1, <3>1 DEF Place, NoneTooLong
      <3>3. ASSUME NEW n, NEW j
            PROVE  ContentsAt(n, j) => ContentsAt(n, j)'
        BY <2>1 DEF ContentsAt
      <3> QED BY <3>2, <3>3
    <2>5. (result = "true" => Merged = [i \in DOMAIN lists["partial"].netList |->
                                           Printed(lists["partial"].netList[i])])
          => (result = "true" => Merged = [i \in DOMAIN lists["partial"].netList |->
                                              Printed(lists["partial"].netList[i])])'
      BY <2>1 DEF Merged
    <2> QED BY <2>1, <2>2, <2>3, <2>4, <2>5 DEF ContentsInvariant
  <1> QED BY <1>1, <1>2, <1>3, <1>4, MergeClockNetKeepsContents, CopyClockNetKeepsContents,
             ReturnKeepsContents
          DEF Next, Merge

LEMMA ContentsStarts == ASSUME Init PROVE ContentsInvariant
  <1>1. /\ phase = "static" /\ pos = 0 /\ inside = "top" /\ result = "none"
        /\ design["static"] \in Designs
    BY ClockMergeAssumption DEF Init, Designs
  <1> DEFINE d == design["static"]
  <1>2. d \in Seq(Seq(LineType)) /\ Len(d) \in Nat
    BY <1>1 DEF Designs
  <1>3. ASSUME NEW n, NEW j, Place(n, j)
        PROVE  ContentsAt(n, j)
    <2>1. n \in 0 .. Len(d) /\ j = 0 /\ 0 = Start(d, n) + j
      BY <1>1, <1>3 DEF Place
    <2>2. Start(d, 0) = 0 /\ 0 \in 0 .. Len(d)
      <3>1. Prefix(d, 0) = <<>>
        BY <1>2, PrefixSteps
      <3> QED BY <1>2, <3>1 DEF Start
    <2>3. n = 0
      <3>1. 0 \in Nat /\ Start(d, 0) + 0 = Start(d, n) + 0
        BY <2>1, <2>2
      <3> HIDE DEF d
      <3> QED BY <1>1, <2>1, <2>2, <3>1, PlaceIsOne DEF d
    <2>4. NetsOf(d, 0) = <<>>
      BY <1>2, SelectedNone DEF NetsOf
    <2> QED BY <1>1, <2>3, <2>4 DEF ContentsAt, NetsRead, NetLoops
  <1> QED BY <1>1, <1>3 DEF ContentsInvariant

\* The files are what they were.
LEMMA ContentsStep ==
    ASSUME MergeInvariant, WellFormed => ReadingInvariant, Orderly => ContentsInvariant, [Next]_vars
    PROVE  Orderly' => ContentsInvariant'
  <1>1. design' = design /\ cut' = cut
    <2>1. CASE UNCHANGED vars
      BY <2>1 DEF vars, input
    <2>2. CASE Read
      BY <2>2 DEF Read, TopLevel, EndOfFile, CopyStatement, BlankAborts, SkipInNet, CloseNet,
                  ReadPin, ReadPosition, ReadPip, ShortLineAborts, KeepMerging, Abort, input
    <2>3. CASE Merge
      BY <2>3 DEF Merge, MergeClockNet, CopyClockNet, ClearInPinsCrashes, NotInStatic,
                  PrintNets, NextClock, Abort, Return, input
    <2> QED BY <2>1, <2>2, <2>3 DEF Next
  <1>2. Orderly' <=> Orderly
    BY <1>1 DEF Orderly, NothingTwice, WellFormed, Whole
  <1>3. Orderly => WellFormed
    BY DEF Orderly
  <1> QED BY <1>2, <1>3, NextMerge, NextKeepsContents

\* Nets have what their statements say of them while files are read, and clock nets the pips of
\* both designs once they are merged (NetList.cpp 50-220, Net.cpp 225-233).
THEOREM ContentsInvariantHolds == Spec => [](Orderly => ContentsInvariant)
  <1> DEFINE Inv == /\ MergeInvariant
                    /\ WellFormed => ReadingInvariant
                    /\ Orderly => ContentsInvariant
  <1>1. Init => Inv
    BY InitMerge, ReadingStarts, ContentsStarts
  <1>2. Inv /\ [Next]_vars => Inv'
    BY NextMerge, ReadingStep, ContentsStep
  <1>3. Inv => (Orderly => ContentsInvariant)
    OBVIOUS
  <1> HIDE DEF Inv
  <1> QED BY <1>1, <1>2, <1>3, PTL DEF Spec

-----------------------------------------------------------------------------
\* The merged nets.

\* What the static list has for a name is what its file has.
LEMMA StaticTexts ==
    ASSUME TypeOK, Orderly, ReadingInvariant, ContentsInvariant, phase \in {"merge", "done"}, NEW name
    PROVE  SaysOnce(StaticPips(name)) /\ Texts(StaticPips(name)) = PipTexts("static", name)
  <1>1. PICK n : StaticRead(n)
    BY DEF ReadingInvariant
  <1> DEFINE list  == lists["static"]
             stmts == Nets("static")
             d     == design["static"]
  <1>2. IsNetList(list) /\ EndsAt("static", n) /\ Holds(list, d, n, 0)
    BY <1>1 DEF TypeOK, ListTypes, Files, StaticRead, Orderly
  <1>3. /\ d \in Designs /\ n \in 0 .. Len(d) /\ stmts = NetsOf(d, n)
        /\ DOMAIN stmts = 1 .. Len(stmts) /\ NetNames("static") = NamesOf(d, n)
        /\ \A i \in DOMAIN stmts : PipTexts("static", stmts[i][1].says) = PipsOf(stmts[i])
        /\ \A x : x \notin Range(NetNames("static")) => PipTexts("static", x) = {}
    BY <1>2, NetsByName DEF Files
  <1>4. DOMAIN list.netList = DOMAIN stmts
    <2>1. DOMAIN list.netList = 1 .. Len(list.netList) /\ Len(list.netList) = Len(NetsOf(d, n))
      <3>1. 0 \in Nat
        OBVIOUS
      <3> HIDE DEF list, d
      <3> QED BY <1>2, <1>3, <3>1, HowManyNets
    <2> QED BY <1>3, <2>1
  <1>5. NetsRead(list, stmts)
    BY DEF ContentsInvariant
  <1>6. StaticPips(name) = UNION {list.netList[s].pips : s \in FindNet(list, name)}
    BY DEF StaticPips, StaticNet
  <1>7. CASE FindNet(list, name) = {}
    <2>1. name \notin Range(NetNames("static"))
      BY <1>2, <1>3, <1>7, NamesOfList DEF Holds
    <2>2. StaticPips(name) = {}
      BY <1>6, <1>7
    <2> QED BY <1>3, <2>1, <2>2 DEF SaysOnce, Texts
  <1>8. CASE FindNet(list, name) # {}
    <2>1. PICK s \in FindNet(list, name) : TRUE
      BY <1>8
    <2>2. s \in DOMAIN list.netList /\ list.netList[s].name = name /\ FindNet(list, name) = {s}
      BY <1>2, <2>1 DEF FindNet, IsNetList
    <2>3. UNION {list.netList[t].pips : t \in {s}} = list.netList[s].pips
      OBVIOUS
    <2>4. StaticPips(name) = list.netList[s].pips
      BY <1>6, <2>2, <2>3
    <2>5. s \in DOMAIN stmts /\ NetIs(list.netList[s], stmts[s])
      BY <1>4, <1>5, <2>2 DEF NetsRead
    <2>6. stmts[s][1].says = name /\ Texts(list.netList[s].pips) = PipsOf(stmts[s])
          /\ SaysOnce(list.netList[s].pips)
      BY <2>2, <2>5 DEF NetIs, PinsAre
    <2> QED BY <1>3, <2>4, <2>5, <2>6
  <1> QED BY <1>7, <1>8

\* The partial list, when it is printed.
LEMMA WhenPrinted ==
    ASSUME MergeInvariant, Orderly, ReadingInvariant, ContentsInvariant, result = "true"
    PROVE  LET nets == lists["partial"].netList
           IN  /\ phase = "done" /\ PartialIsIn /\ ClocksMerged = Range(clkNetNames)
               /\ DOMAIN Merged = DOMAIN nets
               /\ \A i \in DOMAIN nets : Merged[i] = Printed(nets[i])
  <1>1. TypeOK
    BY DEF MergeInvariant
  <1>2. phase = "done" /\ clock = Len(clkNetNames) + 1 /\ PartialIsIn
    BY DEF ReadingInvariant, ContentsInvariant
  <1>3. ClocksMerged = Range(clkNetNames)
    <2>1. clkNetNames \in Seq(Text)
      BY <1>1, ClockMergeAssumption DEF TypeOK, InputTypes
    <2>2. clock - 1 = Len(clkNetNames) /\ DOMAIN clkNetNames = 1 .. Len(clkNetNames)
      BY <1>2, <2>1
    <2> QED BY <2>2 DEF ClocksMerged, Range
  <1>4. Merged = [i \in DOMAIN lists["partial"].netList |-> Printed(lists["partial"].netList[i])]
    BY DEF ContentsInvariant
  <1> QED BY <1>2, <1>3, <1>4

LEMMA TextsOfBoth == ASSUME NEW P, NEW Q PROVE Texts(P \cup Q) = Texts(P) \cup Texts(Q)
  BY DEF Texts

LEMMA PipsOfBoth ==
    ASSUME NEW A, NEW B
    PROVE  (UNION {PipsOf(s) : s \in A}) \cup (UNION {PipsOf(s) : s \in B})
              = UNION {PipsOf(s) : s \in A \cup B}
  <1>1. \A pip : pip \in UNION {PipsOf(s) : s \in A \cup B} <=>
                  \/ pip \in UNION {PipsOf(s) : s \in A}
                  \/ pip \in UNION {PipsOf(s) : s \in B}
    OBVIOUS
  <1> QED BY <1>1

LEMMA OneOrTwo ==
    ASSUME NEW x, NEW y
    PROVE  /\ IsFiniteSet({x} \cup {y}) /\ Cardinality({x} \cup {y}) \in {1, 2}
           /\ x # y => Cardinality({x} \cup {y}) = 2
  <1>1. IsFiniteSet({x}) /\ Cardinality({x}) = 1
    BY FS_Singleton
  <1> DEFINE S == {x}
  <1>2. IsFiniteSet(S) /\ Cardinality(S) = 1 /\ (y \in S <=> x = y)
    BY <1>1
  <1> HIDE DEF S
  <1>3. /\ IsFiniteSet(S \cup {y})
        /\ Cardinality(S \cup {y}) = IF y \in S THEN Cardinality(S) ELSE Cardinality(S) + 1
    BY <1>2, FS_AddElement
  <1>4. IsFiniteSet(S \cup {y}) /\ Cardinality(S \cup {y}) \in {1, 2}
        /\ (x # y => Cardinality(S \cup {y}) = 2)
    BY <1>2, <1>3
  <1> QED BY <1>4 DEF S

\* How often a text is printed that two sets of pips say once each.
LEMMA SaidByEach ==
    ASSUME NEW P, NEW Q, SaysOnce(P), SaysOnce(Q), NEW text,
           NEW F, F \subseteq Files, text \in Texts(P) => "partial" \in F, text \in Texts(Q) => "static" \in F
    PROVE  Cardinality({p \in P \cup Q : p.says = text}) <= Cardinality(F)
  <1> DEFINE S == {p \in P : p.says = text}
             T == {p \in Q : p.says = text}
             B == {p \in P \cup Q : p.says = text}
  <1>1. B = S \cup T
    OBVIOUS
  <1>2. (S = {} \/ \E p : S = {p}) /\ (T = {} \/ \E p : T = {p})
    BY DEF SaysOnce
  <1>3. (S # {} => "partial" \in F) /\ (T # {} => "static" \in F)
    BY DEF Texts
  <1> HIDE DEF S, T, B
  <1>4. /\ Cardinality({}) = 0 /\ \A x : IsFiniteSet({x}) /\ Cardinality({x}) = 1
    BY FS_EmptySet, FS_Singleton
  <1>5. IsFiniteSet(Files) /\ Cardinality(Files) = 2
    <2>1. Cardinality({"static"} \cup {"partial"}) = 2 /\ IsFiniteSet({"static"} \cup {"partial"})
      BY OneOrTwo
    <2>2. Files = {"static"} \cup {"partial"}
      BY DEF Files
    <2> QED BY <2>1, <2>2
  <1>6. IsFiniteSet(F) /\ Cardinality(F) \in Nat
    BY <1>5, FS_Subset, FS_CardinalityType
  <1>7. CASE S = {} /\ T = {}
    <2>1. Cardinality(B) = 0
      BY <1>1, <1>4, <1>7
    <2> QED BY <1>6, <2>1 DEF B
  <1>8. CASE S # {} /\ T # {}
    <2>1. F = Files
      BY <1>3, <1>8 DEF Files
    <2>2. PICK p, q : S = {p} /\ T = {q}
      BY <1>2, <1>8
    <2>3. Cardinality({p} \cup {q}) \in {1, 2}
      BY OneOrTwo
    <2>4. B = {p} \cup {q}
      BY <1>1, <2>2
    <2> QED BY <1>5, <2>1, <2>3, <2>4 DEF B
  <1>9. CASE (S = {} /\ T # {}) \/ (S # {} /\ T = {})
    <2>1. PICK x : S \cup T = {x}
      BY <1>2, <1>9
    <2>2. F # {}
      BY <1>3, <1>9
    <2>3. Cardinality(F) # 0
      BY <1>6, <2>2, FS_EmptySet
    <2>4. Cardinality(B) = 1
      BY <1>1, <1>4, <2>1
    <2> QED BY <1>6, <2>3, <2>4 DEF B
  <1> QED BY <1>7, <1>8, <1>9

\* The nets of the partial design have the pins and the configuration they had, and their own
\* pips; clock nets have those of both designs, and no others (Net.cpp 225-233).
THEOREM NetsAreWholeAlways == Spec => [](WellFormed /\ NothingTwice => NetsAreWhole)
  <1>1. ASSUME MergeInvariant, Orderly, ReadingInvariant, ContentsInvariant
        PROVE  NetsAreWhole
    <2> DEFINE nets == lists["partial"].netList
    <2> SUFFICES ASSUME result = "true"
                 PROVE  NetsAreWhole
      BY DEF NetsAreWhole
    <2>1. /\ phase = "done" /\ PartialIsIn /\ ClocksMerged = Range(clkNetNames)
          /\ DOMAIN Merged = DOMAIN nets
          /\ \A i \in DOMAIN nets : Merged[i] = Printed(nets[i])
      BY <1>1, WhenPrinted
    <2>2. ASSUME NEW i \in DOMAIN Nets("partial")
          PROVE  LET s == Nets("partial")[i]
                 IN  /\ Merged[i].outPins = PinsOf(s, "outpin")
                     /\ Merged[i].inPins = PinsOf(s, "inpin")
                     /\ Merged[i].cfg = s[1].at /\ Merged[i].configured = (s[1].at = "cfg")
      <3> DEFINE net == nets[i]
                 s   == Nets("partial")[i]
      <3>1. i \in DOMAIN nets /\ PinsAre(net, s)
        BY <2>1 DEF PartialIsIn
      <3>2. Merged[i] = Printed(net)
        BY <2>1, <3>1
      <3> HIDE DEF net, s
      <3>3. /\ Merged[i].outPins = net.outPins /\ Merged[i].inPins = net.inPins
            /\ Merged[i].cfg = net.cfg /\ Merged[i].configured = (net.configure /\ net.cfg # NoText)
        BY <3>2 DEF Printed
      <3>4. net.cfg = s[1].at /\ (net.configure <=> s[1].at = "cfg")
        BY <3>1 DEF PinsAre
      <3>5. (net.configure /\ net.cfg # NoText) = (s[1].at = "cfg")
        BY <3>4 DEF NoText
      <3> QED BY <3>1, <3>3, <3>4, <3>5 DEF PinsAre, s
    <2>3. ASSUME NEW i \in DOMAIN Merged
          PROVE  DOMAIN Merged[i].pips =
                    UNION {PipsOf(s) : s \in ClockStatement("partial", Merged[i].name) \cup
                                         IF Merged[i].name \in Range(clkNetNames)
                                         THEN ClockStatement("static", Merged[i].name) ELSE {}}
      <3> DEFINE net  == nets[i]
                 name == net.name
                 S    == IF name \in Range(clkNetNames) THEN ClockStatement("static", name) ELSE {}
      <3>1. Merged[i].name = name /\ DOMAIN Merged[i].pips = Texts(net.pips)
        BY <2>1, <2>3, PrintedSaysPips
      <3>2. PICK own : /\ Texts(own) = PipTexts("partial", name)
                       /\ net.pips = own \cup Added(name)
        BY <2>1, <2>3 DEF PartialIsIn, PipsMerged
      <3>3. Texts(net.pips) = PipTexts("partial", name) \cup Texts(Added(name))
        BY <3>2, TextsOfBoth
      <3>4. Texts(Added(name)) = UNION {PipsOf(s) : s \in S}
        <4>1. CASE name \in Range(clkNetNames)
          <5>1. Added(name) = StaticPips(name)
            BY <2>1, <4>1 DEF Added
          <5>2. Texts(StaticPips(name)) = PipTexts("static", name)
            BY <1>1, <2>1, StaticTexts DEF MergeInvariant
          <5> QED BY <4>1, <5>1, <5>2 DEF PipTexts
        <4>2. CASE name \notin Range(clkNetNames)
          <5>1. Added(name) = {}
            BY <2>1, <4>2 DEF Added
          <5> QED BY <4>2, <5>1 DEF Texts
        <4> QED BY <4>1, <4>2
      <3> HIDE DEF net, name, S
      <3>5. (UNION {PipsOf(s) : s \in ClockStatement("partial", name)}) \cup (UNION {PipsOf(s) : s \in S})
               = UNION {PipsOf(s) : s \in ClockStatement("partial", name) \cup S}
        BY PipsOfBoth
      <3>6. DOMAIN Merged[i].pips = UNION {PipsOf(s) : s \in ClockStatement("partial", name) \cup S}
        BY <3>1, <3>3, <3>4, <3>5 DEF PipTexts
      <3> QED BY <3>1, <3>6 DEF S
    <2> QED BY <2>2, <2>3 DEF NetsAreWhole
  <1>2. WellFormed /\ NothingTwice /\ Whole => Orderly
    BY DEF Orderly
  <1>3. ~Whole => NetsAreWhole
    BY DEF NetsAreWhole
  <1>4. /\ MergeInvariant /\ (WellFormed => ReadingInvariant) /\ (Orderly => ContentsInvariant)
        => (WellFormed /\ NothingTwice => NetsAreWhole)
    BY <1>1, <1>2, <1>3 DEF Orderly
  <1> QED BY <1>4, MergeInvariantHolds, ReadingInvariantHolds, ContentsInvariantHolds, PTL

\* No pip is printed twice, unless the files both have it: a copied net already has the pips
\* that mergePips adds to it, and Pip's operator== tells them apart by their points (Net.cpp
\* 225-233).
THEOREM PipsOnceAlways == Spec => [](WellFormed /\ NothingTwice => PipsOnce)
  <1>1. ASSUME MergeInvariant, Orderly, ReadingInvariant, ContentsInvariant
        PROVE  PipsOnce
    <2> DEFINE nets == lists["partial"].netList
    <2> SUFFICES ASSUME result = "true", NEW i \in DOMAIN Merged, NEW pip \in DOMAIN Merged[i].pips
                 PROVE  Merged[i].pips[pip] <= Cardinality({f \in Files :
                           \E s \in ClockStatement(f, Merged[i].name) : pip \in PipsOf(s)})
      BY DEF PipsOnce
    <2>1. /\ phase = "done" /\ PartialIsIn /\ i \in DOMAIN nets /\ Merged[i] = Printed(nets[i])
      BY <1>1, WhenPrinted
    <2> DEFINE net  == nets[i]
               name == net.name
               F    == {f \in Files : \E s \in ClockStatement(f, name) : pip \in PipsOf(s)}
    <2>2. Merged[i].name = name /\ pip \in Texts(net.pips)
      BY <2>1, PrintedSaysPips
    <2>3. Merged[i].pips[pip] = Cardinality({p \in net.pips : p.says = pip})
      <3> HIDE DEF net
      <3>1. Merged[i].pips = [text \in Texts(net.pips) |-> Cardinality({p \in net.pips : p.says = text})]
        BY <2>1 DEF Printed, Texts, net
      <3> QED BY <2>2, <3>1
    <2>4. PICK own : /\ SaysOnce(own) /\ Texts(own) = PipTexts("partial", name)
                     /\ net.pips = own \cup Added(name)
      BY <2>1 DEF PartialIsIn, PipsMerged
    <2>5. SaysOnce(Added(name)) /\ Texts(Added(name)) \subseteq PipTexts("static", name)
      <3>1. SaysOnce(StaticPips(name)) /\ Texts(StaticPips(name)) = PipTexts("static", name)
        BY <1>1, <2>1, StaticTexts DEF MergeInvariant
      <3>2. SaysOnce({}) /\ Texts({}) = {}
        BY DEF SaysOnce, Texts
      <3> QED BY <3>1, <3>2 DEF Added
    <2> HIDE DEF net, name
    <2>6. \A f \in Files : pip \in PipTexts(f, name) <=> f \in F
      BY DEF PipTexts
    <2>7. /\ F \subseteq Files
          /\ pip \in Texts(own) => "partial" \in F
          /\ pip \in Texts(Added(name)) => "static" \in F
      BY <2>4, <2>5, <2>6 DEF Files
    <2>8. F = {f \in Files : \E s \in ClockStatement(f, Merged[i].name) : pip \in PipsOf(s)}
      BY <2>2
    <2> HIDE DEF F
    <2>9. Cardinality({p \in own \cup Added(name) : p.says = pip}) <= Cardinality(F)
      BY <2>4, <2>5, <2>7, SaidByEach
    <2> QED BY <2>3, <2>4, <2>8, <2>9
  <1>2. WellFormed /\ NothingTwice /\ Whole => Orderly
    BY DEF Orderly
  <1>3. ~Whole => PipsOnce
    BY DEF PipsOnce
  <1>4. /\ MergeInvariant /\ (WellFormed => ReadingInvariant) /\ (Orderly => ContentsInvariant)
        => (WellFormed /\ NothingTwice => PipsOnce)
    BY <1>1, <1>2, <1>3 DEF Orderly
  <1> QED BY <1>4, MergeInvariantHolds, ReadingInvariantHolds, ContentsInvariantHolds, PTL
=============================================================================
