------------------------- MODULE RouteBlockerProofs -------------------------
(***************************************************************************)
(* Proofs about the route blocker, for any tiles, wires, pips, masks and   *)
(* designs: usage only grows, so a wire that is blocked stays so, and one  *)
(* for which no source is left does not get one back.                      *)
(***************************************************************************)
EXTENDS RouteBlocker, TLAPS

\* What is known of the wire that the loops are at.
LEMMA HereIsWire ==
    ASSUME TypeOK, InTile
    PROVE  /\ Here \in Tilewire /\ TileOf(Here) = tile /\ Here[2] = wire
           /\ mask[TileOf(Here)]
<1>1. tile \in Tile /\ wire \in 1 .. WireCount[tile] /\ mask[tile]
  <2>1. WireCount[tile] \in Nat /\ wire \in Nat \ {0} /\ wire <= WireCount[tile]
    BY RouteBlockerAssumption DEF TypeOK, InTile
  <2> QED
    BY <2>1 DEF InTile
<1>2. Here \in {<<tile, k>> : k \in 1 .. WireCount[tile]}
  BY <1>1 DEF Here
<1> QED
  BY <1>1, <1>2 DEF Here, TileOf, Tilewire

\* Wires of the buffers are wires of the device, and those of a wire's segment.
LEMMA BuffersHoldWires ==
    ASSUME NEW w \in Tilewire, NEW x \in Range(Expand[w])
    PROVE  /\ x \in Tilewire /\ x \in Segment[w] /\ Segment[x] = Segment[w]
           /\ Range(Sources[x]) \subseteq Tilewire
<1>1. x \in Segment[w]
  BY RouteBlockerAssumption
<1>2. x \in Tilewire /\ Segment[x] = Segment[w]
  BY <1>1, RouteBlockerAssumption
<1>3. Sources[x] \in Seq(Tilewire)
  BY <1>2, RouteBlockerAssumption
<1> QED
  BY <1>1, <1>2, <1>3 DEF Range

\* A place in the buffers is that of a pip to the segment of the wire.
LEMMA PipIsOfSegment ==
    ASSUME NEW w \in Tilewire, NEW at \in PipsTo(w)
    PROVE  /\ Sink(w, at) \in Range(Expand[w]) /\ Sink(w, at) \in Tilewire
           /\ Segment[Sink(w, at)] = Segment[w]
           /\ Source(w, at) \in Range(Sources[Sink(w, at)]) /\ Source(w, at) \in Tilewire
<1>1. PICK z \in DOMAIN Expand[w] : at \in {<<z, k>> : k \in DOMAIN Sources[Expand[w][z]]}
  BY DEF PipsTo
<1>2. PICK k \in DOMAIN Sources[Expand[w][z]] : at = <<z, k>>
  BY <1>1
<1>3. Sink(w, at) = Expand[w][z] /\ Source(w, at) = Sources[Expand[w][z]][k]
  BY <1>2 DEF Sink, Source
<1>4. Sink(w, at) \in Range(Expand[w])
  BY <1>3 DEF Range
<1>5. Source(w, at) \in Range(Sources[Sink(w, at)])
  BY <1>3 DEF Range
<1> QED
  BY <1>4, <1>5, BuffersHoldWires

\* And every source of a wire of the segment has its place.
LEMMA SourceHasPlace ==
    ASSUME NEW w \in Tilewire, NEW x \in Range(Expand[w]), NEW s \in Range(Sources[x])
    PROVE  \E at \in PipsTo(w) : Source(w, at) = s
<1>1. PICK z \in DOMAIN Expand[w] : x = Expand[w][z]
  BY DEF Range
<1>2. PICK k \in DOMAIN Sources[x] : s = Sources[x][k]
  BY DEF Range
<1>3. <<z, k>> \in PipsTo(w)
  BY <1>1, <1>2 DEF PipsTo
<1>4. Source(w, <<z, k>>) = s
  BY <1>1, <1>2 DEF Source, Sink
<1> QED
  BY <1>3, <1>4

\* What a candidate is.
LEMMA CandidateIsPip ==
    ASSUME TypeOK, NEW w \in Tilewire, NEW at \in Candidates(w)
    PROVE  at \in PipsTo(w) /\ Enables(Source(w, at)) /\ w \notin wireUsage /\ Crosses(w)
BY DEF Candidates

-----------------------------------------------------------------------------
LEMMA InitIsTyped == Init => TypeOK
<1> SUFFICES ASSUME Init
             PROVE  TypeOK
  OBVIOUS
<1>1. design \in SUBSET Tilewire
  BY RouteBlockerAssumption DEF Init
<1>2. /\ tile \in 1 .. NumTiles + 1 /\ wire \in Nat \ {0}
      /\ tile \in Tile => wire \in 1 .. WireCount[tile] + 1
  BY RouteBlockerAssumption DEF Init, Tile
<1>3. file \in [exists : BOOLEAN, pips : SUBSET (Tilewire \X Tilewire)]
  BY DEF Init
<1> QED
  BY <1>1, <1>2, <1>3 DEF Init, TypeOK

\* Type correctness of the loops, for any device (blockRoutes, 988-1030).
THEOREM TypeCorrect == Spec => []TypeOK
<1>1. Init => TypeOK
  BY InitIsTyped
<1>2. TypeOK /\ [Next]_vars => TypeOK'
  <2> SUFFICES ASSUME TypeOK, [Next]_vars
               PROVE  TypeOK'
    OBVIOUS
  <2> USE DEF input
  <2>1. CASE SkipTile
    BY <2>1, RouteBlockerAssumption DEF SkipTile, NextTile, TypeOK, Tile
  <2>2. CASE LastTile
    BY <2>2, RouteBlockerAssumption DEF LastTile, TypeOK, Tile
  <2>3. CASE BlockWire
    <3>1. Here \in Tilewire
      BY <2>3, HereIsWire DEF BlockWire
    <3>2. PICK at \in Candidates(Here) :
             /\ wireUsage' = wireUsage \cup Marked(Source(Here, at)) \cup Marked(Sink(Here, at))
             /\ pips' = pips \cup {<<Source(Here, at), Sink(Here, at)>>}
      BY <2>3 DEF BlockWire
    <3>3. Source(Here, at) \in Tilewire /\ Sink(Here, at) \in Tilewire
      BY <3>1, <3>2, CandidateIsPip, PipIsOfSegment
    <3>4. wireUsage' \in SUBSET Tilewire /\ pips' \in SUBSET (Tilewire \X Tilewire)
      BY <3>2, <3>3, RouteBlockerAssumption DEF Marked, TypeOK
    <3> QED
      BY <2>3, <3>4, RouteBlockerAssumption DEF BlockWire, NextWire, InTile, TypeOK, Tile
  <2>4. CASE PassWire
    BY <2>4, RouteBlockerAssumption DEF PassWire, NextWire, InTile, TypeOK, Tile
  <2>5. CASE CheckWire
    BY <2>5, RouteBlockerAssumption DEF CheckWire, NextWire, InTile, TypeOK, Tile
  <2>6. CASE FindNet
    BY <2>6 DEF FindNet, TypeOK
  <2>7. CASE Export
    BY <2>7, RouteBlockerAssumption DEF Export, TypeOK, Tile
  <2>8. CASE BlockAgain
    BY <2>8 DEF BlockAgain, TypeOK
  <2>9. CASE UNCHANGED vars
    BY <2>9 DEF vars, TypeOK
  <2> QED
    BY <2>1, <2>2, <2>3, <2>4, <2>5, <2>6, <2>7, <2>8, <2>9 DEF Next
<1> QED
  BY <1>1, <1>2, PTL DEF Spec

-----------------------------------------------------------------------------
\* A wire that is blocked stays so while usage grows.
LEMMA BlockedStays ==
    ASSUME NEW w, Blocked(w), UNCHANGED <<mask, clockTiles>>, wireUsage \subseteq wireUsage',
           currentMode' \in {currentMode, "partial"}
    PROVE  Blocked(w)'
BY DEF Blocked, Closes, Allows, TileOf

\* A wire that has just been looked at is blocked: by the pip of the first candidate,
LEMMA BlockWireBlocks ==
    ASSUME TypeOK, BlockWire, NEW w \in Tilewire, w = Here
    PROVE  Blocked(w)'
<1>1. PICK at \in Candidates(w) :
         wireUsage' = wireUsage \cup Marked(Source(w, at)) \cup Marked(Sink(w, at))
  BY DEF BlockWire
<1>2. Sink(w, at) \in Range(Expand[w]) /\ Sink(w, at) \in Tilewire
  BY CandidateIsPip, PipIsOfSegment
<1>3. Sink(w, at) \in Marked(Sink(w, at))
  BY <1>2, RouteBlockerAssumption DEF Marked
<1>4. Sink(w, at) \in wireUsage'
  BY <1>1, <1>3
<1> QED
  BY <1>2, <1>4 DEF Blocked, Closes

\* or because there is no candidate.
LEMMA PassedWireIsBlocked ==
    ASSUME TypeOK, NEW w \in Openings, Candidates(w) = {}
    PROVE  Blocked(w)
<1>1. w \in Tilewire /\ Crosses(w)
  BY DEF Openings, Crosses
<1>2. CASE w \in wireUsage
  BY <1>2 DEF Blocked, Closes
<1>3. CASE w \notin wireUsage
  <2>1. \A at \in PipsTo(w) : ~Enables(Source(w, at))
    BY <1>1, <1>3 DEF Candidates
  <2>2. \A x \in Range(Expand[w]) : \A s \in Range(Sources[x]) : ~Enables(s)
    BY <1>1, <2>1, SourceHasPlace
  <2> QED
    BY <2>2 DEF Blocked, Closes, Enables
<1> QED
  BY <1>2, <1>3

\* The only wire that the loop passes in a step on one.
LEMMA PassesHere ==
    ASSUME TypeOK, InTile, NextWire, UNCHANGED <<input, phase>>, NEW w \in Tilewire,
           Passed(w)'
    PROVE  Passed(w) \/ w = Here
<1>1. PICK t \in Tile : \E k \in 1 .. WireCount[t] : w = <<t, k>>
  BY DEF Tilewire
<1>2. PICK k \in 1 .. WireCount[t] : w = <<t, k>>
  BY <1>1
<1>3. t \in Nat /\ k \in Nat
  BY <1>2, RouteBlockerAssumption DEF Tile
<1>4. tile' = tile /\ wire' = wire + 1 /\ tile \in Nat /\ wire \in Nat
  BY DEF NextWire, TypeOK, InTile, Tile
<1> QED
  BY <1>2, <1>3, <1>4 DEF Passed, BlockedOnce, TileOf, Here, input

\* In the step to the next tile it passes none of the masked area.
LEMMA PassesNoOpening ==
    ASSUME TypeOK, NextTile, UNCHANGED <<input, phase>>, NEW w \in Openings, Passed(w)'
    PROVE  Passed(w)
<1>1. w \in Tilewire /\ mask[TileOf(w)]
  BY DEF Openings
<1>2. PICK t \in Tile : \E k \in 1 .. WireCount[t] : w = <<t, k>>
  BY <1>1 DEF Tilewire
<1>3. PICK k \in 1 .. WireCount[t] : w = <<t, k>>
  BY <1>2
<1>4. t \in Nat /\ k \in Nat /\ WireCount[t] \in Nat /\ k <= WireCount[t] /\ k >= 1
  BY <1>3, RouteBlockerAssumption DEF Tile
<1>5. tile' = tile + 1 /\ wire' = 1 /\ tile \in Nat /\ wire \in Nat /\ ~InTile /\ tile \in Tile
  BY RouteBlockerAssumption DEF NextTile, TypeOK, Tile
<1>6. BlockedOnce \/ t < tile + 1 \/ (t = tile + 1 /\ k < 1)
  BY <1>3, <1>5 DEF Passed, BlockedOnce, TileOf, input
<1>7. CASE t = tile
  <2>1. wire > WireCount[t]
    BY <1>1, <1>3, <1>4, <1>5, <1>7 DEF InTile, TileOf
  <2> QED
    BY <2>1, <1>3, <1>4, <1>5, <1>7 DEF Passed, TileOf
<1>8. CASE t # tile
  BY <1>3, <1>4, <1>5, <1>6, <1>8 DEF Passed, TileOf
<1> QED
  BY <1>7, <1>8

\* The loops end past the last tile: all wires have been passed.
LEMMA AllPassed ==
    ASSUME TypeOK, tile \notin Tile, NEW w \in Tilewire
    PROVE  Passed(w)
<1>1. PICK t \in Tile : \E k \in 1 .. WireCount[t] : w = <<t, k>>
  BY DEF Tilewire
<1>2. TileOf(w) = t
  BY <1>1 DEF TileOf
<1>3. t < tile
  BY <1>1, RouteBlockerAssumption DEF TypeOK, Tile
<1> QED
  BY <1>2, <1>3 DEF Passed

\* At the first wire of the first tile, none has been passed.
LEMMA NonePassed ==
    ASSUME tile = 1, wire = 1, ~BlockedOnce, NEW w \in Tilewire
    PROVE  ~Passed(w)
<1>1. PICK t \in Tile : \E k \in 1 .. WireCount[t] : w = <<t, k>>
  BY DEF Tilewire
<1>2. PICK k \in 1 .. WireCount[t] : w = <<t, k>>
  BY <1>1
<1>3. t \in Nat /\ t >= 1 /\ k \in Nat /\ k >= 1
  BY <1>2, RouteBlockerAssumption DEF Tile
<1> QED
  BY <1>2, <1>3 DEF Passed, TileOf

\* Each step keeps what has been passed blocked.
LEMMA StepKeepsBlocked ==
    ASSUME TypeOK, FileIsNet, PassedAreBlocked, [Next]_vars
    PROVE  PassedAreBlocked'
<1> SUFFICES ASSUME NEW w \in Openings', Passed(w)'
             PROVE  Blocked(w)'
  BY DEF PassedAreBlocked
<1>1. /\ UNCHANGED <<mask, clockTiles, design, usesSegments, hasNet>>
      /\ wireUsage \subseteq wireUsage' /\ currentMode' \in {currentMode, "partial"}
      /\ Openings' = Openings
  BY DEF Next, SkipTile, LastTile, BlockWire, PassWire, CheckWire, FindNet, Export, BlockAgain,
         vars, input, Openings, TileOf
<1>2. w \in Openings /\ w \in Tilewire
  BY <1>1 DEF Openings
<1>3. ASSUME Passed(w) PROVE Blocked(w)'
  BY <1>1, <1>2, <1>3, BlockedStays DEF PassedAreBlocked
<1>4. CASE SkipTile
  BY <1>2, <1>3, <1>4, PassesNoOpening DEF SkipTile
<1>5. CASE LastTile \/ Export
  BY <1>2, <1>3, <1>5, AllPassed DEF LastTile, Export
<1>6. CASE BlockWire
  <2>1. Passed(w) \/ w = Here
    BY <1>2, <1>6, PassesHere DEF BlockWire
  <2> QED
    BY <1>2, <1>3, <1>6, <2>1, BlockWireBlocks
<1>7. CASE PassWire
  <2>1. Passed(w) \/ w = Here
    BY <1>2, <1>7, PassesHere DEF PassWire
  <2>2. CASE w = Here
    <3>1. Blocked(w)
      BY <1>2, <1>7, <2>2, PassedWireIsBlocked DEF PassWire
    <3> QED
      BY <3>1, <1>1, <1>7, BlockedStays DEF PassWire
  <2> QED
    BY <1>3, <1>7, <2>1, <2>2 DEF PassWire
<1>8. CASE CheckWire
  <2>1. hasNet
    BY <1>8 DEF CheckWire, FileIsNet
  <2>2. Passed(w)
    BY <1>8, <2>1 DEF CheckWire, Passed, BlockedOnce
  <2> QED
    BY <1>3, <2>2
<1>9. CASE FindNet
  BY <1>3, <1>9 DEF FindNet, Passed, BlockedOnce, TileOf, input
<1>10. CASE BlockAgain
  <2>1. CASE hasNet
    BY <1>3, <1>10, <2>1 DEF BlockAgain, Passed, BlockedOnce
  <2>2. CASE ~hasNet
    <3>1. ~BlockedOnce /\ ~BlockedOnce' /\ tile = 1 /\ wire = 1 /\ UNCHANGED <<tile, wire>>
      BY <1>10, <2>2 DEF BlockAgain, BlockedOnce, FileIsNet
    <3> QED
      BY <1>3, <3>1 DEF Passed, TileOf
  <2> QED
    BY <2>1, <2>2
<1>11. CASE UNCHANGED vars
  BY <1>3, <1>11 DEF vars, input, Passed, BlockedOnce, TileOf
<1> QED
  BY <1>4, <1>5, <1>6, <1>7, <1>8, <1>9, <1>10, <1>11 DEF Next

-----------------------------------------------------------------------------
\* If usage is by segments, no segment that is used has a wire that is not.
LEMMA UnusedSegment ==
    ASSUME Closed(wireUsage), NEW w \in Tilewire, w \notin wireUsage, NEW x \in wireUsage
    PROVE  Segment[w] # Segment[x]
<1>1. Segment[x] \subseteq wireUsage
  BY DEF Closed
<1>2. w \in Segment[w]
  BY RouteBlockerAssumption
<1> QED
  BY <1>1, <1>2

\* The pip that BlockWire adds.
LEMMA NewPip ==
    ASSUME TypeOK, BlockWire
    PROVE  \E s, k \in Tilewire :
              /\ s \notin wireUsage /\ Here \notin wireUsage
              /\ Here \in Openings /\ k \in Range(Expand[Here])
              /\ k \in Segment[Here] /\ Segment[k] = Segment[Here]
              /\ s \in Range(Sources[k]) /\ Enables(s)
              /\ wireUsage' = wireUsage \cup Marked(s) \cup Marked(k)
              /\ pips' = pips \cup {<<s, k>>}
<1>1. Here \in Tilewire /\ mask[TileOf(Here)]
  BY HereIsWire DEF BlockWire
<1>2. PICK at \in Candidates(Here) :
         /\ wireUsage' = wireUsage \cup Marked(Source(Here, at)) \cup Marked(Sink(Here, at))
         /\ pips' = pips \cup {<<Source(Here, at), Sink(Here, at)>>}
  BY DEF BlockWire
<1>3. /\ at \in PipsTo(Here) /\ Enables(Source(Here, at)) /\ Here \notin wireUsage
      /\ Crosses(Here)
  BY <1>1, CandidateIsPip
<1>4. /\ Sink(Here, at) \in Tilewire /\ Source(Here, at) \in Tilewire
      /\ Sink(Here, at) \in Range(Expand[Here])
      /\ Source(Here, at) \in Range(Sources[Sink(Here, at)])
      /\ Segment[Sink(Here, at)] = Segment[Here]
  BY <1>1, <1>3, PipIsOfSegment
<1>5. Sink(Here, at) \in Segment[Here]
  BY <1>4, RouteBlockerAssumption
<1>6. Source(Here, at) \notin wireUsage
  BY <1>3 DEF Enables, Allows
<1>7. Here \in Openings
  BY <1>1, <1>3 DEF Openings, Crosses
<1> QED
  BY <1>1, <1>2, <1>3, <1>4, <1>5, <1>6, <1>7

\* The wires of one more pip.
LEMMA UsedWithOneMore ==
    ASSUME NEW P, NEW s, NEW k
    PROVE  UsedWith(P \cup {<<s, k>>}) = UsedWith(P) \cup Marked(s) \cup Marked(k)
<1> DEFINE F(p) == Marked(p[1]) \cup Marked(p[2])
<1>1. F(<<s, k>>) = Marked(s) \cup Marked(k)
  OBVIOUS
<1>2. UNION {F(p) : p \in P \cup {<<s, k>>}} = (UNION {F(p) : p \in P}) \cup F(<<s, k>>)
  <2> HIDE DEF F
  <2> QED
    OBVIOUS
<1> QED
  BY <1>1, <1>2 DEF UsedWith

\* All that the design and its pips use is among their wires.
LEMMA PipsAreUsed ==
    ASSUME TypeOK, UsageIsAccounted
    PROVE  /\ design \subseteq wireUsage
           /\ \A p \in AllPips : p \in Tilewire \X Tilewire /\ Range(p) = {p[1], p[2]}
                                 /\ Range(p) \subseteq wireUsage
<1>1. design \subseteq wireUsage
  BY DEF UsageIsAccounted, UsedWith
<1>2. ASSUME NEW p \in AllPips
      PROVE  p \in Tilewire \X Tilewire /\ Range(p) = {p[1], p[2]} /\ Range(p) \subseteq wireUsage
  <2>1. p \in Tilewire \X Tilewire
    BY DEF AllPips, TypeOK
  <2>2. Range(p) = {p[1], p[2]}
    BY <2>1 DEF Range
  <2>3. p[1] \in Marked(p[1]) /\ p[2] \in Marked(p[2])
    BY <2>1, RouteBlockerAssumption DEF Marked
  <2>4. Marked(p[1]) \cup Marked(p[2]) \subseteq wireUsage
    BY DEF UsageIsAccounted, UsedWith
  <2> QED
    BY <2>1, <2>2, <2>3, <2>4
<1> QED
  BY <1>1, <1>2

\* BlockWire leaves usage made up of segments, accounted for by pips across the boundary, and
\* each segment driven once.
LEMMA BlockWireKeepsDrivers ==
    ASSUME TypeOK, UsageIsClosed, UsageIsAccounted, OneDriver, OnlyCrossings, BlockWire
    PROVE  UsageIsClosed' /\ UsageIsAccounted' /\ OneDriver' /\ OnlyCrossings'
<1>1. PICK s, k \in Tilewire :
         /\ s \notin wireUsage /\ Here \notin wireUsage
         /\ Here \in Openings /\ k \in Range(Expand[Here])
         /\ k \in Segment[Here] /\ Segment[k] = Segment[Here]
         /\ wireUsage' = wireUsage \cup Marked(s) \cup Marked(k)
         /\ pips' = pips \cup {<<s, k>>}
  BY NewPip
<1>2. UNCHANGED input /\ Here \in Tilewire
  BY <1>1 DEF BlockWire, Openings
<1>3. AllPips' = AllPips \cup {<<s, k>>}
  BY <1>1, <1>2 DEF AllPips, input
<1>4. UsageIsClosed'
  <2> SUFFICES ASSUME usesSegments, NEW w \in wireUsage'
               PROVE  Segment[w] \subseteq wireUsage'
    BY <1>2 DEF UsageIsClosed, Closed, input
  <2>1. CASE w \in wireUsage
    BY <1>1, <2>1 DEF UsageIsClosed, Closed
  <2>2. CASE w \in Segment[s]
    BY <1>1, <2>2, RouteBlockerAssumption DEF Marked
  <2>3. CASE w \in Segment[k]
    BY <1>1, <2>3, RouteBlockerAssumption DEF Marked
  <2> QED
    BY <1>1, <2>1, <2>2, <2>3 DEF Marked
<1>5. UsageIsAccounted'
  <2>1. wireUsage' = UsedWith(AllPips \cup {<<s, k>>})
    BY <1>1, UsedWithOneMore DEF UsageIsAccounted
  <2> QED
    BY <1>2, <1>3, <2>1 DEF UsageIsAccounted, UsedWith, Marked, input
<1>6. OneDriver'
  <2> SUFFICES ASSUME usesSegments
               PROVE  /\ \A p \in AllPips' : \A w \in Range(p) : w \notin design
                      /\ \A p, q \in AllPips' : p # q =>
                            \A w \in Range(p), x \in Range(q) : Segment[w] # Segment[x]
    BY <1>2 DEF OneDriver, input
  <2>1. Closed(wireUsage) /\ k \notin wireUsage
    BY <1>1, <1>2, RouteBlockerAssumption DEF UsageIsClosed, Closed
  <2>2. Range(<<s, k>>) = {s, k}
    BY DEF Range
  <2>3. \A p \in AllPips : Range(p) \subseteq wireUsage
    BY PipsAreUsed
  <2>4. \A w \in {s, k} : w \notin design /\ \A x \in wireUsage : Segment[w] # Segment[x]
    BY <1>1, <2>1, UnusedSegment, PipsAreUsed
  <2>5. \A p \in AllPips' : \A w \in Range(p) : w \notin design
    BY <1>3, <2>2, <2>4 DEF OneDriver
  <2>6. ASSUME NEW p \in AllPips', NEW q \in AllPips', p # q, NEW w \in Range(p), NEW x \in Range(q)
        PROVE  Segment[w] # Segment[x]
    <3>1. CASE p \in AllPips /\ q \in AllPips
      BY <2>6, <3>1 DEF OneDriver
    <3>2. CASE p \in AllPips /\ q = <<s, k>>
      BY <2>2, <2>3, <2>4, <2>6, <3>2
    <3>3. CASE p = <<s, k>> /\ q \in AllPips
      BY <2>2, <2>3, <2>4, <2>6, <3>3
    <3> QED
      BY <1>3, <2>6, <3>1, <3>2, <3>3
  <2> QED
    BY <2>5, <2>6
<1>7. OnlyCrossings'
  <2>1. Openings' = Openings
    BY <1>2 DEF Openings, TileOf, input
  <2>2. ASSUME NEW w \in wireUsage', w \notin design
        PROVE  \E p \in AllPips' : w \in Segment[p[1]] \cup Segment[p[2]]
    <3>1. CASE w \in wireUsage
      BY <1>3, <2>2, <3>1 DEF OnlyCrossings
    <3>2. CASE w \in Marked(s) \cup Marked(k)
      <4>1. w \in Segment[s] \cup Segment[k]
        BY <3>2, RouteBlockerAssumption DEF Marked
      <4>2. <<s, k>> \in AllPips' /\ <<s, k>>[1] = s /\ <<s, k>>[2] = k
        BY <1>3
      <4> QED
        BY <4>1, <4>2
    <3> QED
      BY <1>1, <3>1, <3>2
  <2>3. ASSUME NEW p \in AllPips'
        PROVE  \E w \in Openings : p[2] \in Range(Expand[w])
    BY <1>1, <1>3 DEF OnlyCrossings
  <2> QED
    BY <1>2, <2>1, <2>2, <2>3 DEF OnlyCrossings, input
<1> QED
  BY <1>4, <1>5, <1>6, <1>7

\* In the second pass all openings are blocked already: there is no pip to add.
LEMMA NothingToAdd ==
    ASSUME TypeOK, UsageIsClosed, PassedAreBlocked, FileIsNet, BlockWire, pass = 2
    PROVE  ~usesSegments
<1> SUFFICES ASSUME usesSegments
             PROVE  FALSE
  OBVIOUS
<1>1. PICK s, k \in Tilewire :
         /\ Here \notin wireUsage /\ Here \in Openings /\ k \in Range(Expand[Here])
         /\ s \in Range(Sources[k]) /\ Enables(s)
  BY NewPip
<1>2. Here \in Tilewire
  BY <1>1 DEF Openings
<1>3. hasNet
  BY DEF BlockWire, FileIsNet
<1>4. Blocked(Here)
  BY <1>1, <1>3 DEF PassedAreBlocked, Passed, BlockedOnce
<1>5. PICK x \in Range(Expand[Here]) : x \in wireUsage
  BY <1>1, <1>4 DEF Blocked, Closes, Enables
<1>6. Segment[x] = Segment[Here]
  BY <1>2, BuffersHoldWires
<1> QED
  BY <1>1, <1>2, <1>5, <1>6, UnusedSegment DEF UsageIsClosed

\* When the counting has begun, a wire found unused in static mode, where there is no clock
\* tile, has no source left.
LEMMA UnusedHasNoSource ==
    ASSUME BlockerInvariant, phase = "check", InTile, Unused(Here),
           usesSegments, currentMode = "static", clockTiles = {}
    PROVE  ~HasSource(Here)
<1>1. Here \in Tilewire /\ mask[TileOf(Here)] /\ Here \notin wireUsage
  BY HereIsWire DEF Unused, BlockerInvariant
<1>2. Here \in Openings
  BY <1>1 DEF Openings, Unused
<1>3. Blocked(Here)
  BY <1>2 DEF BlockerInvariant, PassedAreBlocked, Passed, BlockedOnce, FileIsNet
<1>4. \A x \in Range(Expand[Here]) : x \notin wireUsage
  <2> SUFFICES ASSUME NEW x \in Range(Expand[Here]), x \in wireUsage
               PROVE  FALSE
    OBVIOUS
  <2>1. Segment[x] = Segment[Here]
    BY <1>1, BuffersHoldWires
  <2> QED
    BY <1>1, <2>1, UnusedSegment DEF BlockerInvariant, UsageIsClosed
<1>5. \A x \in Range(Expand[Here]) : \A s \in Range(Sources[x]) : ~Enables(s)
  BY <1>1, <1>3, <1>4 DEF Blocked, Closes, Enables
<1> QED
  BY <1>5 DEF HasSource, Enables, Allows

-----------------------------------------------------------------------------
\* The invariant is inductive.
LEMMA Initiation == Init => BlockerInvariant
<1> SUFFICES ASSUME Init
             PROVE  BlockerInvariant
  OBVIOUS
<1>1. TypeOK
  BY InitIsTyped
<1>2. AllPips = {}
  BY DEF Init, AllPips
<1>3. UsageIsClosed /\ OneDriver /\ OnlyCrossings
  BY <1>2, RouteBlockerAssumption DEF Init, UsageIsClosed, OneDriver, OnlyCrossings
<1>4. UsageIsAccounted
  BY <1>2 DEF Init, UsageIsAccounted, UsedWith
<1>5. FileIsNet /\ ReportIsHonest /\ AgainAddsNothing
  BY DEF Init, FileIsNet, ReportIsHonest, AgainAddsNothing
<1>6. PassedAreBlocked
  BY NonePassed DEF Init, PassedAreBlocked, Openings, BlockedOnce
<1> QED
  BY <1>1, <1>3, <1>4, <1>5, <1>6 DEF BlockerInvariant

LEMMA Consecution ==
    ASSUME BlockerInvariant, TypeOK', [Next]_vars
    PROVE  BlockerInvariant'
<1> USE DEF BlockerInvariant
<1>1. PassedAreBlocked'
  BY StepKeepsBlocked
<1>2. UsageIsClosed' /\ UsageIsAccounted' /\ OneDriver' /\ OnlyCrossings'
  <2>1. CASE BlockWire
    BY <2>1, BlockWireKeepsDrivers
  <2>2. CASE ~BlockWire
    <3>1. UNCHANGED <<mask, design, usesSegments, wireUsage>> /\ AllPips' = AllPips
      BY <2>2 DEF Next, SkipTile, LastTile, PassWire, CheckWire, FindNet, Export, BlockAgain,
                  vars, input, AllPips, FileIsNet
    <3>2. Openings' = Openings
      BY <3>1 DEF Openings, TileOf
    <3> QED
      BY <3>1, <3>2 DEF UsageIsClosed, Closed, UsageIsAccounted, UsedWith, Marked, OneDriver,
                        OnlyCrossings
  <2> QED
    BY <2>1, <2>2
<1>3. ReportIsHonest'
  <2>1. CASE CheckWire
    <3>1. UNCHANGED input /\ unusedWireCount \in Nat /\ noSourceCount \in Nat
      BY <2>1 DEF CheckWire, TypeOK
    <3>2. noSourceCount' <= unusedWireCount'
      BY <2>1, <3>1 DEF CheckWire, ReportIsHonest
    <3>3. ASSUME usesSegments, currentMode = "static", clockTiles = {}
          PROVE  noSourceCount' = unusedWireCount'
      <4>1. Unused(Here) => ~HasSource(Here)
        BY <2>1, <3>3, UnusedHasNoSource DEF CheckWire
      <4> QED
        BY <2>1, <3>1, <3>3, <4>1 DEF CheckWire, ReportIsHonest
    <3> QED
      BY <3>1, <3>2, <3>3 DEF ReportIsHonest, input
  <2>2. CASE BlockAgain
    BY <2>2 DEF BlockAgain, ReportIsHonest
  <2>3. CASE ~CheckWire /\ ~BlockAgain
    <3>1. UNCHANGED <<input, unusedWireCount, noSourceCount>>
      BY <2>3 DEF Next, SkipTile, LastTile, BlockWire, PassWire, FindNet, Export, vars
    <3> QED
      BY <3>1 DEF input, ReportIsHonest
  <2> QED
    BY <2>1, <2>2, <2>3
<1>4. FileIsNet'
  <2>1. CASE FindNet
    BY <2>1 DEF FindNet, FileIsNet, input
  <2>2. CASE Export
    BY <2>2 DEF Export, FileIsNet, input
  <2>3. CASE BlockAgain
    BY <2>3 DEF BlockAgain, FileIsNet
  <2>4. CASE SkipTile \/ LastTile \/ BlockWire \/ PassWire \/ CheckWire
    <3>1. phase \in {"block", "check"} /\ phase' \in {"block", "check"} /\ UNCHANGED <<input, file>>
      BY <2>4 DEF SkipTile, NextTile, LastTile, BlockWire, PassWire, CheckWire
    <3> QED
      BY <3>1 DEF FileIsNet, input
  <2>5. CASE UNCHANGED vars
    BY <2>5 DEF vars, FileIsNet, input
  <2> QED
    BY <2>1, <2>2, <2>3, <2>4, <2>5 DEF Next
<1>5. AgainAddsNothing'
  <2>1. CASE BlockWire
    <3>1. UNCHANGED <<input, phase>> /\ phase # "done"
      BY <2>1 DEF BlockWire
    <3> QED
      BY <2>1, <3>1, NothingToAdd DEF AgainAddsNothing, input
  <2>2. CASE BlockAgain
    BY <2>2 DEF BlockAgain, AgainAddsNothing
  <2>3. CASE Export
    BY <2>3 DEF Export, AgainAddsNothing, input
  <2>4. CASE FindNet
    BY <2>4 DEF FindNet, AgainAddsNothing, input
  <2>5. CASE SkipTile \/ LastTile \/ PassWire \/ CheckWire
    <3>1. phase' \in {"block", "check"} /\ UNCHANGED <<input, pips>>
      BY <2>5 DEF SkipTile, NextTile, LastTile, PassWire, CheckWire
    <3> QED
      BY <3>1 DEF AgainAddsNothing, input
  <2>6. CASE UNCHANGED vars
    BY <2>6 DEF vars, AgainAddsNothing, input
  <2> QED
    BY <2>1, <2>2, <2>3, <2>4, <2>5, <2>6 DEF Next
<1> QED
  BY <1>1, <1>2, <1>3, <1>4, <1>5

\* The inductive invariant holds (blockRoutes with all it calls, 782-1115).
THEOREM BlockerInvariantHolds == Spec => []BlockerInvariant
<1>1. TypeOK' /\ BlockerInvariant /\ [Next]_vars => BlockerInvariant'
  BY Consecution
<1> QED
  BY Initiation, <1>1, TypeCorrect, PTL DEF Spec

\* Every wire that crosses into the masked area and was looked at is blocked, on any device,
\* for any mask and design, in both modes (782-985).
THEOREM PassedAreBlockedAlways == Spec => []PassedAreBlocked
<1>1. BlockerInvariant => PassedAreBlocked
  BY DEF BlockerInvariant
<1> QED
  BY <1>1, BlockerInvariantHolds, PTL

\* No blocking pip drives what the design or another one uses (800, 842-854).
THEOREM OneDriverAlways == Spec => []OneDriver
<1>1. BlockerInvariant => OneDriver
  BY DEF BlockerInvariant
<1> QED
  BY <1>1, BlockerInvariantHolds, PTL

\* The two numbers reported fit each other (1040-1115).
THEOREM ReportIsHonestAlways == Spec => []ReportIsHonest
<1>1. BlockerInvariant => ReportIsHonest
  BY DEF BlockerInvariant
<1> QED
  BY <1>1, BlockerInvariantHolds, PTL

\* Nothing is used but for the design and for pips across the boundary (782-985).
THEOREM OnlyCrossingsAlways == Spec => []OnlyCrossings
<1>1. BlockerInvariant => OnlyCrossings
  BY DEF BlockerInvariant
<1> QED
  BY <1>1, BlockerInvariantHolds, PTL

\* The exported file closes every opening by itself, after one call (1148-1152).
THEOREM FileBlocksAlways == Spec => []FileBlocks
<1>1. BlockerInvariant => FileBlocks
  <2> SUFFICES ASSUME BlockerInvariant, phase = "done", pass = 1, file.exists, NEW w \in Openings
               PROVE  Closes(UsedWith(file.pips), w)
    BY DEF FileBlocks
  <2>1. hasNet /\ earlier = {} /\ file.pips = pips
    BY DEF BlockerInvariant, FileIsNet
  <2>2. UsedWith(file.pips) = wireUsage
    BY <2>1 DEF BlockerInvariant, UsageIsAccounted, AllPips
  <2>3. Blocked(w)
    BY <2>1 DEF BlockerInvariant, PassedAreBlocked, Passed, BlockedOnce
  <2> QED
    BY <2>2, <2>3 DEF Blocked
<1> QED
  BY <1>1, BlockerInvariantHolds, PTL

\* The second pass of "rp" adds nothing, whatever the device, and leaves a file without a
\* blocking pip (AntiCore.cpp 72-79).
THEOREM AgainAddsNothingAlways == Spec => []AgainAddsNothing
<1>1. BlockerInvariant => AgainAddsNothing
  BY DEF BlockerInvariant
<1> QED
  BY <1>1, BlockerInvariantHolds, PTL

-----------------------------------------------------------------------------
\* The loops implement Blocking: a step blocks wires and opens none, and blockTileRoutes is
\* through with the last tile only when every opening is closed.
THEOREM Implementation == Spec => BlocksBoundary
<1> DEFINE open == {w \in Openings : ~Blocked(w)}
           finished == BlockedOnce
<1>1. Init => Promise!Init
  BY DEF Init, Promise!Init, Openings, BlockedOnce
<1>2. BlockerInvariant /\ BlockerInvariant' /\ [Next]_vars =>
         [Promise!Close \/ Promise!Finish]_<<open, finished>>
  <2> SUFFICES ASSUME BlockerInvariant, BlockerInvariant', [Next]_vars
               PROVE  [Promise!Close \/ Promise!Finish]_<<open, finished>>
    OBVIOUS
  <2>0. BlockedOnce => open = {}
    BY DEF BlockerInvariant, PassedAreBlocked, Passed
  <2>1. CASE BlockWire
    <3>1. /\ UNCHANGED <<input, phase>> /\ wireUsage \subseteq wireUsage' /\ phase = "block"
      BY <2>1 DEF BlockWire
    <3>2. Openings' = Openings /\ finished' = finished
      BY <3>1 DEF Openings, input, TileOf, BlockedOnce
    <3>3. open' \in SUBSET open
      BY <3>1, <3>2, BlockedStays DEF input
    <3>4. CASE finished
      BY <2>0, <3>2, <3>3, <3>4
    <3>5. CASE ~finished
      BY <3>2, <3>3, <3>5 DEF Promise!Close
    <3> QED
      BY <3>4, <3>5
  <2>2. CASE LastTile
    <3>1. UNCHANGED <<input, wireUsage>> /\ phase' = "check" /\ hasNet
      BY <2>2 DEF LastTile, BlockerInvariant, FileIsNet
    <3>2. open' = open
      BY <3>1 DEF Openings, Blocked, Closes, Allows, input, TileOf
    <3>3. BlockedOnce'
      BY <3>1 DEF BlockedOnce, input
    <3>4. open' = {}
      BY <3>3 DEF BlockerInvariant, PassedAreBlocked, Passed
    <3> QED
      BY <3>2, <3>3, <3>4 DEF Promise!Finish
  <2>3. CASE BlockAgain
    <3>1. finished' = finished
      BY <2>3 DEF BlockAgain, BlockedOnce
    <3>2. CASE finished
      <4>1. open' = {}
        BY <3>1, <3>2 DEF BlockerInvariant, PassedAreBlocked, Passed
      <4> QED
        BY <2>0, <3>1, <3>2, <4>1
    <3>3. CASE ~finished
      <4>1. /\ UNCHANGED <<mask, clockTiles>> /\ wireUsage \subseteq wireUsage'
            /\ currentMode' = "partial"
        BY <2>3 DEF BlockAgain
      <4>2. Openings' = Openings
        BY <4>1 DEF Openings, TileOf
      <4>3. open' \in SUBSET open
        BY <4>1, <4>2, BlockedStays
      <4> QED
        BY <3>1, <3>3, <4>3 DEF Promise!Close
    <3> QED
      BY <3>2, <3>3
  <2>4. CASE FindNet \/ Export \/ SkipTile \/ PassWire \/ CheckWire \/ UNCHANGED vars
    <3>1. UNCHANGED <<input, wireUsage>> /\ finished' = finished
      BY <2>4 DEF FindNet, Export, SkipTile, PassWire, CheckWire, vars, BlockedOnce, input,
                  BlockerInvariant, FileIsNet
    <3>2. open' = open
      BY <3>1 DEF Openings, Blocked, Closes, Allows, input, TileOf
    <3> QED
      BY <3>1, <3>2
  <2> QED
    BY <2>1, <2>2, <2>3, <2>4 DEF Next
<1> QED
  BY <1>1, <1>2, BlockerInvariantHolds, PTL DEF Spec, BlocksBoundary, Promise!Spec
=============================================================================
