--------------------------- MODULE BitstreamProofs ---------------------------
(***************************************************************************)
(* Proofs about the bitstream object, for any devices that are laid out    *)
(* and whose addresses fit, any regions and any files: the map is the      *)
(* device's own; the scan writes the marked frames, each of them once; and *)
(* a device that is sent the file configures the region's frames, on       *)
(* Virtex-5 with the full bitstream's data.                                *)
(***************************************************************************)
EXTENDS BitstreamInvariant, DeviceFramesProofs, FiniteSetTheorems, SequenceTheorems

\* How many frames a device has.
LEMMA CfgSizeIsNat == \A d \in Devices : CfgSize(d) \in Nat
  BY DevicesAssumption, LayoutFacts, DeviceIsLaidOut

\* Appending keeps a sequence one over its own elements, and changes no earlier one.
LEMMA AppendRun ==
    ASSUME NEW s, s \in Seq(ToSet(s)), NEW e
    PROVE  /\ Append(s, e) \in Seq(ToSet(Append(s, e)))
           /\ DOMAIN Append(s, e) = DOMAIN s \cup {Len(s) + 1}
           /\ Len(s) + 1 \notin DOMAIN s
           /\ \A k \in DOMAIN s : Append(s, e)[k] = s[k] /\ k < Len(s) + 1 /\ k \in Nat
           /\ Append(s, e)[Len(s) + 1] = e
           /\ Len(s) \in Nat
<1> DEFINE S == ToSet(s) \cup {e}
<1>1. s \in Seq(S)
  <2>1. ToSet(s) \subseteq S
    OBVIOUS
  <2> HIDE DEF S
  <2> QED
    BY <2>1
<1>2. e \in S
  OBVIOUS
<1> HIDE DEF S
<1>3. /\ Append(s, e) \in Seq(S)
      /\ DOMAIN Append(s, e) = 1 .. Len(s) + 1
      /\ DOMAIN s = 1 .. Len(s)
      /\ Len(s) \in Nat
      /\ Len(Append(s, e)) = Len(s) + 1
      /\ \A k \in 1 .. Len(s) : Append(s, e)[k] = s[k]
      /\ Append(s, e)[Len(s) + 1] = e
  BY <1>1, <1>2
<1>4. S \subseteq ToSet(Append(s, e))
  <2>1. ToSet(s) \subseteq ToSet(Append(s, e))
    BY <1>3 DEF ToSet
  <2>2. e \in ToSet(Append(s, e))
    BY <1>3 DEF ToSet
  <2> QED
    BY <2>1, <2>2 DEF S
<1>5. Append(s, e) \in Seq(ToSet(Append(s, e)))
  BY <1>3, <1>4
<1> QED
  BY <1>3, <1>5

-----------------------------------------------------------------------------
\* Steps that come before the scan leave no trace in it.
LEMMA BeforeTheScan ==
    ASSUME ScanInvariant,
           phase \notin {"writeBitstream", "closed"},
           dev' = dev, UNCHANGED scanVars,
           phase' # "closed"
    PROVE  ScanInvariant'
<1>1. NothingScanned /\ ScanTypes
  BY DEF ScanInvariant
<1>2. UNCHANGED <<scan, foundFrame, contigFrames, startFrame, runs>>
  BY DEF scanVars
<1>3. NothingScanned' /\ ScanTypes'
  BY <1>1, <1>2 DEF NothingScanned, ScanTypes
<1>4. RunInProgress' /\ RunsAreApart'
  BY <1>3 DEF NothingScanned, RunInProgress, RunsAreApart
<1>5. ScanKeepsBitmap'
  <2>1. Written' = {} /\ Awaiting' = {}
    BY <1>3 DEF NothingScanned, Written, Awaiting
  <2>2. 0 .. scan' - 1 = {}
    BY <1>3 DEF NothingScanned
  <2> QED
    BY <2>1, <2>2 DEF ScanKeepsBitmap
<1> QED
  BY <1>3, <1>4, <1>5 DEF ScanInvariant

-----------------------------------------------------------------------------
\* A step of the scan passes one frame.
LEMMA PassOneFrame ==
    ASSUME NEW n \in Nat, NEW B
    PROVE  B \cap (0 .. n) = IF n \in B THEN (B \cap (0 .. n - 1)) \cup {n}
                                        ELSE B \cap (0 .. n - 1)
  OBVIOUS

\* The facts about the types that every step of the scan needs.
LEMMA ScanFacts ==
    ASSUME ScanInvariant, Scanning
    PROVE  /\ scan \in Nat /\ scan + 1 \in 0 .. CfgSize(dev)
           /\ CfgSize(dev) \in Nat
           /\ ScanTypes /\ RunInProgress /\ ScanKeepsBitmap /\ RunsAreApart
  BY CfgSizeIsNat DEF ScanInvariant, ScanTypes, Scanning

\* The first frame of a run.
LEMMA OpenRunStep ==
    ASSUME ScanInvariant, OpenRun
    PROVE  ScanInvariant'
<1>1. /\ dev' = dev /\ phase' = "writeBitstream" /\ frameBitmap' = frameBitmap
      /\ runs' = runs /\ scan' = scan + 1 /\ foundFrame' = TRUE /\ ~foundFrame
      /\ startFrame' = scan /\ contigFrames' = contigFrames + 1 /\ scan \in frameBitmap
      /\ Scanning
  BY DEF OpenRun, markVars, Scanning
<1>2. /\ scan \in Nat /\ scan + 1 \in 0 .. CfgSize(dev)
      /\ ScanTypes /\ RunInProgress /\ ScanKeepsBitmap /\ RunsAreApart
  BY <1>1, ScanFacts
<1>3. ScanTypes'
  BY <1>1, <1>2 DEF ScanTypes
<1>4. RunInProgress'
  BY <1>1, <1>2 DEF RunInProgress, ScanTypes
<1>5. ScanKeepsBitmap'
  <2>1. Written' = Written /\ Awaiting = {} /\ Awaiting' = {scan}
    BY <1>1, <1>2 DEF Written, Awaiting, RunFrames
  <2>2. frameBitmap \cap (0 .. scan) = (frameBitmap \cap (0 .. scan - 1)) \cup {scan}
    BY <1>1, <1>2, PassOneFrame
  <2>3. scan' - 1 = scan
    BY <1>1, <1>2
  <2> QED
    BY <1>1, <1>2, <2>1, <2>2, <2>3 DEF ScanKeepsBitmap
<1>6. RunsAreApart'
  BY <1>1, <1>2 DEF RunsAreApart
<1> QED
  BY <1>1, <1>3, <1>4, <1>5, <1>6 DEF ScanInvariant

\* A further frame of a run.
LEMMA ExtendRunStep ==
    ASSUME ScanInvariant, ExtendRun
    PROVE  ScanInvariant'
<1>1. /\ dev' = dev /\ phase' = "writeBitstream" /\ frameBitmap' = frameBitmap
      /\ runs' = runs /\ scan' = scan + 1 /\ foundFrame /\ foundFrame' = foundFrame
      /\ startFrame' = startFrame /\ contigFrames' = contigFrames + 1
      /\ scan \in frameBitmap /\ Scanning
  BY DEF ExtendRun, markVars, Scanning
<1>2. /\ scan \in Nat /\ scan + 1 \in 0 .. CfgSize(dev)
      /\ ScanTypes /\ RunInProgress /\ ScanKeepsBitmap /\ RunsAreApart
  BY <1>1, ScanFacts
<1>3. ScanTypes'
  BY <1>1, <1>2 DEF ScanTypes
<1>4. RunInProgress'
  BY <1>1, <1>2 DEF RunInProgress, ScanTypes
<1>5. ScanKeepsBitmap'
  <2>1. Written' = Written
    BY <1>1 DEF Written, RunFrames
  <2>2. Awaiting' = Awaiting \cup {scan}
    BY <1>1, <1>2 DEF Awaiting, RunInProgress, ScanTypes
  <2>3. frameBitmap \cap (0 .. scan) = (frameBitmap \cap (0 .. scan - 1)) \cup {scan}
    BY <1>1, <1>2, PassOneFrame
  <2>4. scan' - 1 = scan
    BY <1>1, <1>2
  <2> QED
    BY <1>1, <1>2, <2>1, <2>2, <2>3, <2>4 DEF ScanKeepsBitmap
<1>6. RunsAreApart'
  BY <1>1, <1>2 DEF RunsAreApart
<1> QED
  BY <1>1, <1>3, <1>4, <1>5, <1>6 DEF ScanInvariant

\* A frame that belongs to no run.
LEMMA PassFrameStep ==
    ASSUME ScanInvariant, PassFrame
    PROVE  ScanInvariant'
<1>1. /\ dev' = dev /\ phase' = "writeBitstream" /\ frameBitmap' = frameBitmap
      /\ runs' = runs /\ scan' = scan + 1 /\ ~foundFrame /\ foundFrame' = foundFrame
      /\ startFrame' = startFrame /\ contigFrames' = contigFrames
      /\ scan \notin frameBitmap /\ Scanning
  BY DEF PassFrame, markVars, Scanning
<1>2. /\ scan \in Nat /\ scan + 1 \in 0 .. CfgSize(dev)
      /\ ScanTypes /\ RunInProgress /\ ScanKeepsBitmap /\ RunsAreApart
  BY <1>1, ScanFacts
<1>3. ScanTypes'
  BY <1>1, <1>2 DEF ScanTypes
<1>4. RunInProgress'
  BY <1>1, <1>2 DEF RunInProgress, ScanTypes
<1>5. ScanKeepsBitmap'
  <2>1. Written' = Written /\ Awaiting' = {} /\ Awaiting = {}
    BY <1>1 DEF Written, Awaiting, RunFrames
  <2>2. frameBitmap \cap (0 .. scan) = frameBitmap \cap (0 .. scan - 1)
    BY <1>1, <1>2, PassOneFrame
  <2>3. scan' - 1 = scan
    BY <1>1, <1>2
  <2> QED
    BY <1>1, <1>2, <2>1, <2>2, <2>3 DEF ScanKeepsBitmap
<1>6. RunsAreApart'
  BY <1>1, <1>2 DEF RunsAreApart
<1> QED
  BY <1>1, <1>3, <1>4, <1>5, <1>6 DEF ScanInvariant

-----------------------------------------------------------------------------
\* Writing a run: its frames go from those collected to those written, and it starts
\* after the runs before it.
LEMMA AppendedRun ==
    ASSUME ScanTypes, RunInProgress, RunsAreApart, foundFrame, scan \in Nat,
           runs' = Append(runs, Run)
    PROVE  /\ runs' \in Seq(ToSet(runs'))
           /\ \A k \in DOMAIN runs' : runs'[k].first \in Nat /\ runs'[k].count \in Nat
           /\ \A k \in DOMAIN runs' : runs'[k].first + runs'[k].count <= scan
           /\ RunsAreApart'
           /\ Written' = Written \cup (startFrame .. scan - 1)
<1>1. /\ Run.first = startFrame /\ Run.count = contigFrames
      /\ startFrame \in Nat /\ contigFrames \in Nat
      /\ startFrame + contigFrames = scan
  BY DEF Run, ScanTypes, RunInProgress
<1> DEFINE new == Len(runs) + 1
<1>2. /\ runs' \in Seq(ToSet(runs'))
      /\ DOMAIN runs' = DOMAIN runs \cup {new}
      /\ new \notin DOMAIN runs
      /\ \A k \in DOMAIN runs : runs'[k] = runs[k] /\ k < new /\ k \in Nat
      /\ runs'[new] = Run
      /\ new \in Nat
  BY AppendRun DEF ScanTypes
<1>3. \A k \in DOMAIN runs : /\ runs[k].first \in Nat /\ runs[k].count \in Nat
                             /\ runs[k].first + runs[k].count < startFrame
  BY DEF ScanTypes, RunInProgress
<1> HIDE DEF new
<1>4. \A k \in DOMAIN runs' : runs'[k].first \in Nat /\ runs'[k].count \in Nat
  BY <1>1, <1>2, <1>3
<1>5. \A k \in DOMAIN runs' : runs'[k].first + runs'[k].count <= scan
  <2> SUFFICES ASSUME NEW k \in DOMAIN runs'
               PROVE  runs'[k].first + runs'[k].count <= scan
    OBVIOUS
  <2>1. CASE k = new
    BY <2>1, <1>1, <1>2
  <2>2. CASE k \in DOMAIN runs
    BY <2>2, <1>1, <1>2, <1>3
  <2> QED
    BY <2>1, <2>2, <1>2
<1>6. RunsAreApart'
  <2> SUFFICES ASSUME NEW k \in DOMAIN runs', NEW l \in DOMAIN runs', k < l
               PROVE  runs'[k].first + runs'[k].count < runs'[l].first
    BY DEF RunsAreApart
  <2>1. k \in DOMAIN runs
    BY <1>2
  <2>2. CASE l = new
    BY <2>1, <2>2, <1>1, <1>2, <1>3
  <2>3. CASE l \in DOMAIN runs
    BY <2>1, <2>3, <1>2 DEF RunsAreApart
  <2> QED
    BY <2>2, <2>3, <1>2
<1>7. Written' = Written \cup (startFrame .. scan - 1)
  <2>1. RunFrames(Run) = startFrame .. scan - 1
    BY <1>1 DEF RunFrames
  <2>2. \A f : f \in Written' <=> \E k \in DOMAIN runs' : f \in RunFrames(runs'[k])
    BY DEF Written, RunFrames
  <2>3. \A f : f \in Written <=> \E k \in DOMAIN runs : f \in RunFrames(runs[k])
    BY DEF Written
  <2>4. \A k \in DOMAIN runs : RunFrames(runs'[k]) = RunFrames(runs[k])
    BY <1>2
  <2>5. RunFrames(runs'[new]) = startFrame .. scan - 1
    BY <1>2, <2>1
  <2>6. \A f : f \in Written' <=> f \in Written \/ f \in startFrame .. scan - 1
    <3>1. \A f : (\E k \in DOMAIN runs' : f \in RunFrames(runs'[k]))
                  <=> \/ \E k \in DOMAIN runs : f \in RunFrames(runs'[k])
                      \/ f \in RunFrames(runs'[new])
      BY <1>2
    <3> QED
      BY <2>2, <2>3, <2>4, <2>5, <3>1
  <2> QED
    BY <2>6
<1> QED
  BY <1>2, <1>4, <1>5, <1>6, <1>7

\* The first frame after a run.
LEMMA CloseRunStep ==
    ASSUME ScanInvariant, CloseRun
    PROVE  ScanInvariant'
<1>1. /\ dev' = dev /\ phase' = "writeBitstream" /\ frameBitmap' = frameBitmap
      /\ runs' = Append(runs, Run) /\ scan' = scan + 1 /\ foundFrame /\ foundFrame' = FALSE
      /\ startFrame' = startFrame /\ contigFrames' = 0
      /\ scan \notin frameBitmap /\ Scanning
  BY DEF CloseRun, markVars, Scanning
<1>2. /\ scan \in Nat /\ scan + 1 \in 0 .. CfgSize(dev)
      /\ ScanTypes /\ RunInProgress /\ ScanKeepsBitmap /\ RunsAreApart
  BY <1>1, ScanFacts
<1>3. /\ runs' \in Seq(ToSet(runs'))
      /\ \A k \in DOMAIN runs' : runs'[k].first \in Nat /\ runs'[k].count \in Nat
      /\ \A k \in DOMAIN runs' : runs'[k].first + runs'[k].count <= scan
      /\ RunsAreApart'
      /\ Written' = Written \cup (startFrame .. scan - 1)
  BY <1>1, <1>2, AppendedRun
<1>4. ScanTypes'
  BY <1>1, <1>2, <1>3 DEF ScanTypes
<1>5. RunInProgress'
  BY <1>1, <1>2, <1>3 DEF RunInProgress
<1>6. ScanKeepsBitmap'
  <2>1. Awaiting = startFrame .. scan - 1 /\ Awaiting' = {}
    BY <1>1 DEF Awaiting
  <2>2. frameBitmap \cap (0 .. scan) = frameBitmap \cap (0 .. scan - 1)
    BY <1>1, <1>2, PassOneFrame
  <2>3. scan' - 1 = scan
    BY <1>1, <1>2
  <2> QED
    BY <1>1, <1>2, <1>3, <2>1, <2>2, <2>3 DEF ScanKeepsBitmap
<1> QED
  BY <1>1, <1>3, <1>4, <1>5, <1>6 DEF ScanInvariant

\* The end of the bitmap, with or without a run to write.
LEMMA EndScanStep ==
    ASSUME ScanInvariant, EndScan
    PROVE  ScanInvariant'
<1>1. /\ dev' = dev /\ phase' = "closed" /\ frameBitmap' = frameBitmap
      /\ scan' = scan /\ foundFrame' = foundFrame /\ startFrame' = startFrame
      /\ contigFrames' = contigFrames /\ phase = "writeBitstream"
      /\ runs' = IF foundFrame THEN Append(runs, Run) ELSE runs
  BY DEF EndScan, markVars
<1>2. ScanTypes /\ RunInProgress /\ ScanKeepsBitmap /\ RunsAreApart
  BY <1>1 DEF ScanInvariant
<1>3. scan \in Nat
  BY <1>2, CfgSizeIsNat DEF ScanTypes
<1>4. CASE foundFrame
  <2>1. /\ runs' \in Seq(ToSet(runs'))
        /\ \A k \in DOMAIN runs' : runs'[k].first \in Nat /\ runs'[k].count \in Nat
        /\ RunsAreApart'
        /\ Written' = Written \cup (startFrame .. scan - 1)
    BY <1>1, <1>2, <1>3, <1>4, AppendedRun
  <2>2. ScanTypes'
    BY <1>1, <1>2, <2>1 DEF ScanTypes
  <2>3. ScanKeepsBitmap'
    <3>1. Awaiting = startFrame .. scan - 1 /\ Awaiting' = Awaiting
      BY <1>1, <1>4 DEF Awaiting
    <3> QED
      BY <1>1, <1>2, <2>1, <3>1 DEF ScanKeepsBitmap
  <2> QED
    BY <1>1, <2>1, <2>2, <2>3 DEF ScanInvariant
<1>5. CASE ~foundFrame
  <2>1. runs' = runs
    BY <1>1, <1>5
  <2>2. ScanTypes' /\ RunsAreApart'
    BY <1>1, <1>2, <2>1 DEF ScanTypes, RunsAreApart
  <2>3. ScanKeepsBitmap'
    BY <1>1, <1>2, <2>1 DEF ScanKeepsBitmap, Written, Awaiting, RunFrames
  <2> QED
    BY <1>1, <2>2, <2>3 DEF ScanInvariant
<1> QED
  BY <1>4, <1>5

-----------------------------------------------------------------------------
\* The scan starts from nothing.
LEMMA StartWritingStep ==
    ASSUME ScanInvariant, StartWriting
    PROVE  ScanInvariant'
<1>1. /\ dev' = dev /\ frameBitmap' = frameBitmap /\ phase' = "writeBitstream"
      /\ UNCHANGED <<scan, foundFrame, contigFrames, startFrame, runs>>
      /\ NothingScanned /\ ScanTypes /\ ScanKeepsBitmap /\ RunsAreApart
  BY DEF StartWriting, markVars, scanVars, ScanInvariant
<1>2. ScanTypes' /\ RunsAreApart'
  BY <1>1 DEF ScanTypes, RunsAreApart
<1>3. RunInProgress'
  BY <1>1 DEF NothingScanned, RunInProgress
<1>4. ScanKeepsBitmap'
  BY <1>1 DEF ScanKeepsBitmap, Written, Awaiting, RunFrames
<1> QED
  BY <1>1, <1>2, <1>3, <1>4 DEF ScanInvariant

\* The initial states satisfy the invariant.
LEMMA InitScan == Init => ScanInvariant
<1> SUFFICES ASSUME Init PROVE ScanInvariant
  OBVIOUS
<1>1. NothingScanned /\ phase = "mapBitstream" /\ dev \in Devices /\ startFrame = 0
  BY DEF Init, NothingScanned
<1>2. ScanTypes
  <2>1. runs = <<>> /\ scan = 0 /\ contigFrames = 0 /\ foundFrame = FALSE
    BY DEF Init
  <2>2. CfgSize(dev) \in Nat
    BY <1>1, CfgSizeIsNat
  <2>3. scan \in 0 .. CfgSize(dev)
    BY <2>1, <2>2
  <2>4. runs \in Seq(ToSet(runs)) /\ DOMAIN runs = {}
    BY <2>1
  <2> QED
    BY <1>1, <2>1, <2>3, <2>4 DEF ScanTypes
<1>3. ScanKeepsBitmap
  <2>1. Written = {} /\ Awaiting = {} /\ 0 .. scan - 1 = {}
    BY <1>1 DEF NothingScanned, Written, Awaiting
  <2> QED
    BY <2>1 DEF ScanKeepsBitmap
<1>4. RunsAreApart
  BY <1>1 DEF NothingScanned, RunsAreApart
<1> QED
  BY <1>1, <1>2, <1>3, <1>4 DEF ScanInvariant

\* Every step keeps it.
LEMMA NextScan == ScanInvariant /\ [Next]_vars => ScanInvariant'
<1> SUFFICES ASSUME ScanInvariant, [Next]_vars PROVE ScanInvariant'
  OBVIOUS
<1>1. CASE MapNextTile
  BY <1>1, BeforeTheScan DEF MapNextTile
<1>2. CASE AllTilesMapped
  BY <1>2, BeforeTheScan DEF AllTilesMapped
<1>3. CASE MapNextClockRow
  BY <1>3, BeforeTheScan DEF MapNextClockRow
<1>4. CASE \E asExpected \in BOOLEAN : ReadHeader(asExpected)
  BY <1>4, BeforeTheScan DEF ReadHeader
<1>5. CASE SkipPacket
  BY <1>5, BeforeTheScan DEF SkipPacket
<1>6. CASE ReadRegister
  BY <1>6, BeforeTheScan DEF ReadRegister
<1>7. CASE WriteFrameData
  BY <1>7, BeforeTheScan DEF WriteFrameData
<1>8. CASE EndOfFile
  BY <1>8, BeforeTheScan DEF EndOfFile
<1>9. CASE \E tiles \in Regions : BuildPartial(tiles)
  BY <1>9, BeforeTheScan DEF BuildPartial
<1>10. CASE MarkTile
  BY <1>10, BeforeTheScan DEF MarkTile
<1>11. CASE UNCHANGED vars
  <2>1. UNCHANGED <<dev, phase, frameBitmap, scan, foundFrame, contigFrames,
                    startFrame, runs>>
    BY <1>11 DEF vars, markVars, scanVars
  <2> QED
    BY <2>1 DEF ScanInvariant, ScanTypes, NothingScanned, RunInProgress,
                ScanKeepsBitmap, RunsAreApart, Written, Awaiting, RunFrames
<1> QED
  BY <1>1, <1>2, <1>3, <1>4, <1>5, <1>6, <1>7, <1>8, <1>9, <1>10, <1>11,
     StartWritingStep, OpenRunStep, ExtendRunStep, CloseRunStep, PassFrameStep,
     EndScanStep DEF Next

\* The inductive invariant of the scan holds throughout.
THEOREM ScanInvariantHolds == Spec => []ScanInvariant
<1>1. Init => ScanInvariant
  BY InitScan
<1>2. ScanInvariant /\ [Next]_vars => ScanInvariant'
  BY NextScan
<1> QED
  BY <1>1, <1>2, PTL DEF Spec

\* writePartialFrames writes the marked frames it has passed and no others.
THEOREM ScanKeepsBitmapAlways == Spec => []ScanKeepsBitmap
<1>1. ScanInvariant => ScanKeepsBitmap
  BY DEF ScanInvariant
<1> QED
  BY <1>1, ScanInvariantHolds, PTL

\* It writes no frame twice, and no two addresses where one would do.
THEOREM RunsAreApartAlways == Spec => []RunsAreApart
<1>1. ScanInvariant => RunsAreApart
  BY DEF ScanInvariant
<1> QED
  BY <1>1, ScanInvariantHolds, PTL

-----------------------------------------------------------------------------
\* The map of frames to addresses.

LEMMA XdlColumnIs ==
    ASSUME NEW d, IsLaidOut(d), NEW x, NEW c, IsColumn(d, x, c)
    PROVE  XdlColumn(d, x) = c
  <1> DEFINE L == d.row_layout
             N == Len(L)
             X == HaveXdlColumn
             P(b) == L[b] \in X /\ Count(L, X, b) = x + 1
  <1>1. L \in Seq(TileTypes) /\ N \in Nat /\ DOMAIN L = 1 .. N
    BY LayoutFacts, DeviceFacts
  <1>2. \A b \in 1 .. N : L[b] \in X => Count(L, X, b) = Count(L, X, b - 1) + 1 /\ Count(L, X, b - 1) \in Nat
    <2> TAKE b \in 1 .. N
    <2> DEFINE n == b - 1
    <2>1. n \in 0 .. Len(L) - 1 /\ n \in 0 .. Len(L) /\ n + 1 = b
      BY <1>1
    <2> HIDE DEF L, X, n
    <2>2. Count(L, X, n) \in Nat /\ (L[n + 1] \in X => Count(L, X, n + 1) = Count(L, X, n) + 1)
      BY <1>1, <2>1, CountSteps
    <2> QED BY <2>1, <2>2 DEF n
  <1>3. XdlColumn(d, x) = CHOOSE b \in DOMAIN L : P(b)
    BY DEF XdlColumn, Count
  <1>4. c \in DOMAIN L /\ P(c)
    BY <1>1, <1>2 DEF IsColumn
  <1>5. x \in Nat
    BY <1>2 DEF IsColumn
  <1>6. ASSUME NEW b \in DOMAIN L, P(b)
        PROVE  b = c
    <2>1. Count(L, X, b - 1) = x
      BY <1>1, <1>2, <1>5, <1>6
    <2>2. IsColumn(d, x, b)
      BY <1>1, <1>6, <2>1 DEF IsColumn
    <2> QED BY <2>2, ColumnsOfXdl
  <1> HIDE DEF P, L
  <1> QED BY <1>3, <1>4, <1>6

\* What the map has at a frame.
LEMMA AddressesOfCells ==
    ASSUME NEW d, IsDevice(d), NEW cells
    PROVE  LET device == DeviceFrame(d)
               map == AddressesOf(d, cells)
           IN  /\ DOMAIN map = Frame(d) /\ DOMAIN device = Frame(d)
               /\ \A c \in 1 .. Len(d.row_layout), row \in 0 .. d.num_rows - 1 :
                     \A m \in 0 .. Minors(d, c) - 1 :
                        /\ CellStart(d, c, row) + m \in Frame(d)
                        /\ device[CellStart(d, c, row) + m] # PadFrame
                        /\ device[CellStart(d, c, row) + m] = FrameOf(d, c, row, m)
                        /\ map[CellStart(d, c, row) + m] =
                              IF <<c, row>> \in cells THEN FarOf(d, c, row, m) ELSE NoAddress
               /\ \A f \in Frame(d) :
                     \/ device[f] = PadFrame /\ map[f] = NoAddress
                     \/ \E c \in 1 .. Len(d.row_layout), row \in 0 .. d.num_rows - 1 :
                           \E m \in 0 .. Minors(d, c) - 1 : f = CellStart(d, c, row) + m
  <1> DEFINE device == DeviceFrame(d)
             map == AddressesOf(d, cells)
  <1>1. DOMAIN map = Frame(d) /\ DOMAIN device = Frame(d)
    BY DeviceIsLaidOut DEF AddressesOf, Frame
  <1>2. \A f \in Frame(d) : map[f] = IF device[f] # PadFrame /\ <<device[f].column, device[f].row>> \in cells
                                     THEN device[f].far ELSE NoAddress
    BY DEF AddressesOf
  <1> HIDE DEF map
  <1>3. ASSUME NEW c \in 1 .. Len(d.row_layout), NEW row \in 0 .. d.num_rows - 1,
               NEW m \in 0 .. Minors(d, c) - 1
        PROVE  /\ CellStart(d, c, row) + m \in Frame(d)
               /\ device[CellStart(d, c, row) + m] # PadFrame
               /\ device[CellStart(d, c, row) + m] = FrameOf(d, c, row, m)
               /\ map[CellStart(d, c, row) + m] =
                     IF <<c, row>> \in cells THEN FarOf(d, c, row, m) ELSE NoAddress
    <2> DEFINE f == CellStart(d, c, row) + m
    <2>1. f \in Frame(d) /\ device[f] = FrameOf(d, c, row, m)
      BY DeviceIsLaidOut DEF Frame
    <2> HIDE DEF f, device
    <2>2. device[f].column = c /\ device[f].row = row /\ device[f].far = FarOf(d, c, row, m)
      BY <2>1 DEF FrameOf
    <2>3. device[f] # PadFrame
      BY <2>2 DEF PadFrame
    <2> QED BY <1>2, <2>1, <2>2, <2>3 DEF f
  <1>4. ASSUME NEW f \in Frame(d)
        PROVE  \/ device[f] = PadFrame /\ map[f] = NoAddress
               \/ \E c \in 1 .. Len(d.row_layout), row \in 0 .. d.num_rows - 1 :
                     \E m \in 0 .. Minors(d, c) - 1 : f = CellStart(d, c, row) + m
    <2>1. \/ device[f] = PadFrame
          \/ \E c \in 1 .. Len(d.row_layout), row \in 0 .. d.num_rows - 1 :
                \E m \in 0 .. Minors(d, c) - 1 : f = CellStart(d, c, row) + m
      BY DeviceIsLaidOut DEF Frame
    <2> QED BY <1>2, <2>1
  <1> QED BY <1>1, <1>3, <1>4 DEF map

\* Addresses put where a cell's frames are add the cell to the map.
LEMMA CellAdded ==
    ASSUME NEW d, IsDevice(d), NEW cells,
           NEW c \in 1 .. Len(d.row_layout), NEW row \in 0 .. d.num_rows - 1
    PROVE  LET map   == AddressesOf(d, cells)
               start == CellStart(d, c, row)
           IN  [f \in DOMAIN map |->
                   IF f \in start .. start + Minors(d, c) - 1
                   THEN [FarOf(d, c, row, 0) EXCEPT !.mna = f - start] ELSE map[f]] =
               AddressesOf(d, cells \cup {<<c, row>>})
  <1> DEFINE map   == AddressesOf(d, cells)
             new   == AddressesOf(d, cells \cup {<<c, row>>})
             start == CellStart(d, c, row)
             n     == Minors(d, c)
             put   == [f \in DOMAIN map |->
                          IF f \in start .. start + n - 1
                          THEN [FarOf(d, c, row, 0) EXCEPT !.mna = f - start] ELSE map[f]]
  <1>1. DOMAIN map = Frame(d) /\ DOMAIN new = Frame(d)
    BY AddressesOfCells
  <1>2. start \in Nat /\ n \in Nat
    <2>1. BlockOf(d, c) \in Nat /\ n \in Nat
      BY ColumnFacts
    <2>2. BlockStart(d, BlockOf(d, c)) \in Nat
      BY <2>1, BlockStartSteps
    <2>3. CellInBlock(d, c, row) \in Nat
      BY FrameOffsetIs
    <2> QED BY <2>1, <2>2, <2>3 DEF CellStart
  <1>3. new = [f \in Frame(d) |-> new[f]]
    BY DEF AddressesOf
  <1>4. ASSUME NEW f \in Frame(d)
        PROVE  new[f] = IF f \in start .. start + n - 1
                        THEN [FarOf(d, c, row, 0) EXCEPT !.mna = f - start] ELSE map[f]
    <2>1. CASE f \in start .. start + n - 1
      <3> DEFINE m == f - start
      <3>1. m \in 0 .. n - 1 /\ f = start + m
        BY <1>2, <2>1
      <3> HIDE DEF start, m, n
      <3>2. new[f] = FarOf(d, c, row, m)
        <4>1. <<c, row>> \in cells \cup {<<c, row>>}
          OBVIOUS
        <4> QED BY <3>1, <4>1, AddressesOfCells DEF start, n
      <3>3. FarOf(d, c, row, m) = [FarOf(d, c, row, 0) EXCEPT !.mna = m]
        BY DEF FarOf
      <3> QED BY <2>1, <3>2, <3>3 DEF m
    <2>2. CASE f \notin start .. start + n - 1
      <3>1. CASE map[f] = NoAddress /\ new[f] = NoAddress
        BY <2>2, <3>1
      <3>2. CASE ~(map[f] = NoAddress /\ new[f] = NoAddress)
        <4>1. PICK c2 \in 1 .. Len(d.row_layout), row2 \in 0 .. d.num_rows - 1 :
                 \E m \in 0 .. Minors(d, c2) - 1 : f = CellStart(d, c2, row2) + m
          BY <3>2, AddressesOfCells
        <4>2. PICK m \in 0 .. Minors(d, c2) - 1 : f = CellStart(d, c2, row2) + m
          BY <4>1
        <4>3. map[f] = IF <<c2, row2>> \in cells THEN FarOf(d, c2, row2, m) ELSE NoAddress
          <5> HIDE DEF map
          <5> QED BY <4>2, AddressesOfCells DEF map
        <4>4. new[f] = IF <<c2, row2>> \in cells \cup {<<c, row>>}
                       THEN FarOf(d, c2, row2, m) ELSE NoAddress
          <5> HIDE DEF new
          <5> QED BY <4>2, AddressesOfCells DEF new
        <4>5. <<c2, row2>> # <<c, row>>
          <5> SUFFICES ASSUME c2 = c, row2 = row
                       PROVE  FALSE
            OBVIOUS
          <5>1. m \in 0 .. n - 1 /\ f = start + m
            BY <4>2
          <5> QED BY <1>2, <2>2, <5>1
        <4> HIDE DEF map, new
        <4> QED BY <2>2, <4>3, <4>4, <4>5
      <3> QED BY <3>1, <3>2
    <2> QED BY <2>1, <2>2
  <1> HIDE DEF map, new, start, n
  <1>5. put = new
    BY <1>1, <1>3, <1>4
  <1> QED BY <1>5 DEF put, map, new, start, n

\* buildItoaMap adds a cell, or finds it there.
LEMMA CellBuilt ==
    ASSUME NEW d, IsDevice(d), NEW cells,
           NEW c \in 1 .. Len(d.row_layout), NEW row \in 0 .. d.num_rows - 1
    PROVE  BuildItoaMap(AddressesOf(d, cells), FarOf(d, c, row, 0), CellStart(d, c, row), Minors(d, c))
              = AddressesOf(d, cells \cup {<<c, row>>})
  <1> DEFINE map   == AddressesOf(d, cells)
             new   == AddressesOf(d, cells \cup {<<c, row>>})
             start == CellStart(d, c, row)
             n     == Minors(d, c)
             far   == FarOf(d, c, row, 0)
             put   == [f \in DOMAIN map |->
                          IF f \in start .. start + n - 1 THEN [far EXCEPT !.mna = f - start] ELSE map[f]]
  <1>1. BuildItoaMap(map, far, start, n) = IF map[start].type # -1 THEN map ELSE put
    BY DEF BuildItoaMap
  <1>2. put = new
    BY CellAdded
  <1>3. map[start] = IF <<c, row>> \in cells THEN far ELSE NoAddress
    <2>1. 0 \in 0 .. n - 1 /\ start + 0 = start
      <3>1. BlockOf(d, c) \in Nat /\ n \in Nat /\ n > 0
        BY ColumnFacts
      <3>2. BlockStart(d, BlockOf(d, c)) \in Nat
        BY <3>1, BlockStartSteps
      <3>3. CellInBlock(d, c, row) \in Nat
        BY FrameOffsetIs
      <3>4. start \in Nat
        BY <3>2, <3>3 DEF CellStart
      <3> HIDE DEF start, n
      <3> QED BY <3>1, <3>4
    <2>2. map[start + 0] = IF <<c, row>> \in cells THEN FarOf(d, c, row, 0) ELSE NoAddress
      <3> HIDE DEF map
      <3> QED BY <2>1, AddressesOfCells DEF map
    <2> QED BY <2>1, <2>2
  <1>4. far.type \in Nat
    <2>1. far.type = BlockOf(d, c)
      BY DEF FarOf
    <2> QED BY <2>1, FrameOfType
  <1>5. NoAddress.type = -1
    BY DEF NoAddress
  <1>6. CASE <<c, row>> \in cells
    <2>1. cells \cup {<<c, row>>} = cells
      BY <1>6
    <2>2. map[start].type # -1
      BY <1>3, <1>4, <1>6
    <2>3. new = map
      BY <2>1
    <2> HIDE DEF map, new, start, far, put, n
    <2>4. BuildItoaMap(map, far, start, n) = new
      BY <1>1, <2>2, <2>3
    <2> QED BY <2>4 DEF map, new, start, far, n
  <1>7. CASE <<c, row>> \notin cells
    <2>1. ~(map[start].type # -1)
      BY <1>3, <1>5, <1>7
    <2> HIDE DEF map, new, start, far, put, n
    <2>2. BuildItoaMap(map, far, start, n) = new
      BY <1>1, <1>2, <2>1
    <2> QED BY <2>2 DEF map, new, start, far, n
  <1> QED BY <1>6, <1>7

\* mapBitstream maps a tile's column, and the block RAMs beside it.
LEMMA TileMapped ==
    ASSUME NEW d, IsLaidOut(d), NEW n \in 0 .. ChipWidth(d) * ChipHeight(d) - 1
    PROVE  MapTile(d, AddressesOf(d, TileCells(d, n)), n) = AddressesOf(d, TileCells(d, n + 1))
  <1> DEFINE w == ChipWidth(d)
             x == n % w
             y == n \div w
             row == y \div d.frame_height
             cells == TileCells(d, n)
             map == AddressesOf(d, cells)
  <1>1. IsDevice(d) /\ w \in Nat /\ ChipHeight(d) \in Nat
    BY LayoutFacts, ColumnsOfXdl, RowOfTile
  <1>2. w > 0 /\ n \in Nat
    <2>1. n \in 0 .. w * ChipHeight(d) - 1
      OBVIOUS
    <2>2. w = 0 => w * ChipHeight(d) = 0
      BY <1>1
    <2>3. w * ChipHeight(d) \in Nat
      BY <1>1
    <2> HIDE DEF w
    <2> QED BY <1>1, <2>1, <2>2, <2>3
  <1>3. x \in 0 .. w - 1 /\ y \in 0 .. ChipHeight(d) - 1
    <2>1. n \in 0 .. w * ChipHeight(d) - 1
      OBVIOUS
    <2> HIDE DEF w
    <2> QED BY <1>1, <1>2, <2>1
  <1> HIDE DEF x, y
  <1>4. PICK c : IsColumn(d, x, c)
    BY <1>3, ColumnsOfXdl
  <1>5. /\ XdlColumn(d, x) = c /\ XdlTileType(d, x) = d.row_layout[c]
        /\ c \in 1 .. Len(d.row_layout)
    <2>1. XdlColumn(d, x) = c
      BY <1>4, XdlColumnIs
    <2>2. XdlTileType(d, x) = d.row_layout[c]
      BY <1>4, ColumnsOfXdl
    <2> QED BY <1>4, <2>1, <2>2 DEF IsColumn
  <1>6. /\ TilecoordToMajor(d, x, y) = FarOf(d, c, row, 0) /\ row \in 0 .. d.num_rows - 1
        /\ TileStart(d, x, y) = CellStart(d, c, row)
    BY <1>3, <1>4, TileAddress DEF TileStart
  <1>7. CellsOfTile(d, n) = {<<c, row>>} \cup
           (IF d.row_layout[c] = "BRAM_INT" THEN {<<c + 1, row>>} ELSE {})
    BY <1>5 DEF CellsOfTile, x, y
  <1>8. TileCells(d, n + 1) = cells \cup CellsOfTile(d, n)
    <2>1. 0 .. (n + 1) - 1 = (0 .. n - 1) \cup {n}
      BY <1>2
    <2> QED BY <2>1 DEF TileCells
  <1> HIDE DEF row, cells, map
  <1> DEFINE tile == BuildItoaMap(map, TilecoordToMajor(d, x, y), TileStart(d, x, y),
                                  d.tile_frames[XdlTileType(d, x)])
             one  == cells \cup {<<c, row>>}
  <1>9. tile = AddressesOf(d, one)
    <2>1. d.tile_frames[XdlTileType(d, x)] = Minors(d, c)
      BY <1>5 DEF Minors
    <2>2. BuildItoaMap(AddressesOf(d, cells), FarOf(d, c, row, 0), CellStart(d, c, row), Minors(d, c))
              = AddressesOf(d, one)
      BY <1>1, <1>5, <1>6, CellBuilt
    <2> HIDE DEF one
    <2> QED BY <1>6, <2>1, <2>2 DEF map
  <1>10. MapTile(d, map, n) =
            IF XdlTileType(d, x) # "BRAM_INT" THEN tile
            ELSE BuildItoaMap(tile, BramcoordToMajor(d, x, y), BramStart(d, x, y), d.tile_frames["BRAM"])
    BY DEF MapTile, x, y
  <1> HIDE DEF tile, one, w
  <1>11. CASE d.row_layout[c] = "BRAM_INT"
    <2>1. /\ BramcoordToMajor(d, x, y) = FarOf(d, c + 1, row, 0)
          /\ c + 1 \in 1 .. Len(d.row_layout) /\ d.row_layout[c + 1] = "BRAM"
          /\ BramStart(d, x, y) = CellStart(d, c + 1, row)
      BY <1>3, <1>4, <1>11, BramAddress DEF BramStart, row
    <2>2. d.tile_frames["BRAM"] = Minors(d, c + 1)
      BY <2>1 DEF Minors
    <2> DEFINE b == c + 1
    <2>3. b \in 1 .. Len(d.row_layout)
      BY <2>1
    <2> HIDE DEF b
    <2>4. BuildItoaMap(AddressesOf(d, one), FarOf(d, b, row, 0), CellStart(d, b, row), Minors(d, b))
              = AddressesOf(d, one \cup {<<b, row>>})
      BY <1>1, <1>6, <2>3, CellBuilt
    <2>5. MapTile(d, map, n) = BuildItoaMap(tile, BramcoordToMajor(d, x, y), BramStart(d, x, y), d.tile_frames["BRAM"])
      BY <1>5, <1>10, <1>11
    <2>6. MapTile(d, map, n) = AddressesOf(d, one \cup {<<b, row>>})
      BY <1>9, <2>1, <2>2, <2>4, <2>5 DEF b
    <2>7. one \cup {<<b, row>>} = TileCells(d, n + 1)
      BY <1>7, <1>8, <1>11 DEF one, b
    <2> QED BY <2>6, <2>7 DEF map, cells
  <1>12. CASE d.row_layout[c] # "BRAM_INT"
    <2>1. one = TileCells(d, n + 1)
      BY <1>7, <1>8, <1>12 DEF one
    <2>2. MapTile(d, map, n) = tile
      BY <1>5, <1>10, <1>12
    <2> QED BY <1>9, <2>1, <2>2 DEF map, cells
  <1> QED BY <1>11, <1>12

\* All tiles together have every column but the clock's, in every clock row.
LEMMA AllTileCells ==
    ASSUME NEW d, IsLaidOut(d), NEW c \in 1 .. Len(d.row_layout), c # Gclk(d),
           NEW row \in 0 .. d.num_rows - 1
    PROVE  <<c, row>> \in TileCells(d, ChipWidth(d) * ChipHeight(d))
  <1> DEFINE L == d.row_layout
             w == ChipWidth(d)
             h == ChipHeight(d)
  <1>1. IsDevice(d) /\ w \in Nat /\ h \in Nat /\ Len(L) \in Nat /\ L[c] \in TileTypes
    BY LayoutFacts, ColumnsOfXdl, RowOfTile, DeviceFacts
  <1>2. PICK b \in 1 .. Len(L) : /\ L[b] \in HaveXdlColumn
                                 /\ \/ b = c
                                    \/ L[b] = "BRAM_INT" /\ c = b + 1
    <2>1. CASE L[c] = "BRAM"
      <3>1. c > 1 /\ L[c - 1] = "BRAM_INT"
        BY <2>1, LayoutFacts
      <3>2. c - 1 \in 1 .. Len(L) /\ c = (c - 1) + 1
        BY <1>1, <3>1
      <3>3. "BRAM_INT" \in HaveXdlColumn
        BY DEF HaveXdlColumn, TileTypes
      <3> QED BY <3>1, <3>2, <3>3
    <2>2. CASE L[c] # "BRAM"
      <3>1. L[c] # "GCLK"
        BY LayoutFacts
      <3> QED BY <1>1, <2>2, <3>1 DEF HaveXdlColumn
    <2> QED BY <2>1, <2>2
  <1> DEFINE x == Count(L, HaveXdlColumn, b - 1)
             y == row * d.frame_height
             k == y * w + x
  <1>3. x \in 0 .. w - 1 /\ IsColumn(d, x, b)
    BY <1>2, ColumnsOfXdl
  <1>4. y \in 0 .. h - 1 /\ y \div d.frame_height = row
    BY <1>1, RowOfTile
  <1>5. XdlColumn(d, x) = b
    BY <1>3, XdlColumnIs
  <1> HIDE DEF L, w, h, x, y
  <1>6. k % w = x /\ k \div w = y /\ k \in 0 .. w * h - 1
    <2>1. w > 0 /\ y \in Nat /\ x \in Nat
      BY <1>1, <1>3, <1>4
    <2>2. k % w = x /\ k \div w = y
      BY <1>1, <1>3, <2>1
    <2>3. (y + 1) * w <= h * w /\ (y + 1) * w = y * w + w /\ y * w \in Nat
      BY <1>1, <1>4, <2>1
    <2>4. w * h = h * w /\ w * h \in Nat
      BY <1>1
    <2> DEFINE u == y * w
               v == w * h
    <2>5. u + w <= v /\ u \in Nat /\ v \in Nat /\ k = u + x
      BY <2>3, <2>4
    <2> HIDE DEF u, v, k
    <2>6. k \in 0 .. v - 1
      BY <1>1, <1>3, <2>5
    <2> QED BY <2>2, <2>6 DEF v
  <1> HIDE DEF k
  <1>7. <<c, row>> \in CellsOfTile(d, k)
    <2>1. CellsOfTile(d, k) = {<<b, row>>} \cup (IF L[b] = "BRAM_INT" THEN {<<b + 1, row>>} ELSE {})
      BY <1>4, <1>5, <1>6 DEF CellsOfTile, w, L
    <2> QED BY <1>2, <2>1
  <1> QED BY <1>6, <1>7 DEF TileCells, w, h

\* buildGCLKItoaMap maps the clock column in a clock row.
LEMMA ClockMapped ==
    ASSUME NEW d, IsLaidOut(d), NEW cells, NEW n \in 0 .. d.num_rows - 1
    PROVE  MapClock(d, AddressesOf(d, cells \cup ClockCells(d, n)), n) =
              AddressesOf(d, cells \cup ClockCells(d, n + 1))
  <1> DEFINE L == d.row_layout
             g == Gclk(d)
             y == n * d.frame_height
             left == TilecoordToMajor(d, GclkIndex(d), y)
             next == [left EXCEPT !.col = @ + 1]
             now == cells \cup ClockCells(d, n)
             map == AddressesOf(d, now)
             start == FrameOffset(d, left) + d.tile_frames[XdlTileType(d, GclkIndex(d))]
  <1>1. IsDevice(d) /\ g \in 1 .. Len(L) /\ L[g] = "GCLK" /\ DOMAIN L = 1 .. Len(L) /\ d.num_rows \in Nat
    BY LayoutFacts, DeviceFacts
  <1>2. y \in 0 .. ChipHeight(d) - 1 /\ y \div d.frame_height = n
    BY <1>1, RowOfTile
  <1>3. next = FarOf(d, g, n, 0) /\ start = CellStart(d, g, n)
    BY <1>2, ClockAddress
  <1>4. ClockCells(d, n + 1) = ClockCells(d, n) \cup {<<g, n>>}
    <2>1. {c \in DOMAIN L : L[c] = "GCLK"} = {g}
      BY <1>1, LayoutFacts
    <2>2. 0 .. (n + 1) - 1 = (0 .. n - 1) \cup {n}
      BY <1>1
    <2> QED BY <2>1, <2>2 DEF ClockCells
  <1>5. Minors(d, g) = d.tile_frames["GCLK"]
    BY <1>1 DEF Minors
  <1>6. MapClock(d, map, n) = [f \in DOMAIN map |-> IF f \in start .. start + d.tile_frames["GCLK"] - 1
                                                    THEN [next EXCEPT !.mna = f - start] ELSE map[f]]
    BY DEF MapClock
  <1> HIDE DEF g, start, next, now, y, left
  <1>7. MapClock(d, map, n) = AddressesOf(d, now \cup {<<g, n>>})
    <2>1. [f \in DOMAIN map |-> IF f \in CellStart(d, g, n) .. CellStart(d, g, n) + Minors(d, g) - 1
                                THEN [FarOf(d, g, n, 0) EXCEPT !.mna = f - CellStart(d, g, n)] ELSE map[f]]
             = AddressesOf(d, now \cup {<<g, n>>})
      BY <1>1, CellAdded
    <2> QED BY <1>3, <1>5, <1>6, <2>1
  <1> QED BY <1>4, <1>7 DEF now

LEMMA InitMap == Init => MapInvariant
  <1> SUFFICES ASSUME Init PROVE MapInvariant
    OBVIOUS
  <1> DEFINE tiles == ChipWidth(dev) * ChipHeight(dev)
  <1>1. /\ dev \in Devices /\ phase = "mapBitstream" /\ mapped = 0
        /\ findexToFaddr = [f \in Frame(dev) |-> NoAddress]
    BY DEF Init
  <1>2. IsLaidOut(dev) /\ IsDevice(dev)
    BY <1>1, DevicesAssumption, LayoutFacts
  <1>3. mapped \in 0 .. tiles
    <2>1. ChipWidth(dev) \in Nat /\ ChipHeight(dev) \in Nat
      BY <1>2, ColumnsOfXdl, RowOfTile
    <2>2. tiles \in Nat
      BY <2>1
    <2> HIDE DEF tiles
    <2> QED BY <1>1, <2>2
  <1>4. findexToFaddr = AddressesOf(dev, TileCells(dev, mapped))
    <2>1. TileCells(dev, 0) = {}
      BY DEF TileCells
    <2>2. AddressesOf(dev, {}) = [f \in Frame(dev) |-> NoAddress]
      BY DEF AddressesOf
    <2> QED BY <1>1, <2>1, <2>2
  <1> QED BY <1>1, <1>3, <1>4 DEF MapInvariant

LEMMA NextMap == MapInvariant /\ [Next]_vars => MapInvariant'
  <1> SUFFICES ASSUME MapInvariant, [Next]_vars PROVE MapInvariant'
    OBVIOUS
  <1> DEFINE tiles == ChipWidth(dev) * ChipHeight(dev)
             Mapping == {"mapBitstream", "buildGCLKItoaMap"}
  <1>1. /\ dev \in Devices
        /\ phase = "mapBitstream" => /\ mapped \in 0 .. tiles
                                     /\ findexToFaddr = AddressesOf(dev, TileCells(dev, mapped))
        /\ phase = "buildGCLKItoaMap" =>
              /\ mapped \in 0 .. dev.num_rows - 1
              /\ findexToFaddr = AddressesOf(dev, TileCells(dev, tiles) \cup ClockCells(dev, mapped))
        /\ phase \notin Mapping =>
              findexToFaddr = AddressesOf(dev, TileCells(dev, tiles) \cup ClockCells(dev, dev.num_rows))
    BY DEF MapInvariant
  <1>2. /\ IsLaidOut(dev) /\ IsDevice(dev) /\ tiles \in Nat /\ dev.num_rows \in Nat /\ dev.num_rows > 0
    <2>1. IsLaidOut(dev) /\ IsDevice(dev)
      BY <1>1, DevicesAssumption, LayoutFacts
    <2>2. ChipWidth(dev) \in Nat /\ ChipHeight(dev) \in Nat
      BY <2>1, ColumnsOfXdl, RowOfTile
    <2>3. dev.num_rows \in Nat /\ dev.num_rows > 0
      BY <2>1 DEF IsDevice
    <2> QED BY <2>1, <2>2, <2>3
  <1>3. ASSUME dev' = dev, UNCHANGED mapVars, phase \notin Mapping, phase' \notin Mapping
        PROVE  MapInvariant'
    BY <1>1, <1>3 DEF MapInvariant, mapVars
  <1>4. ASSUME UNCHANGED <<dev, phase, mapVars>>
        PROVE  MapInvariant'
    BY <1>4 DEF MapInvariant, mapVars
  <1>5. CASE MapNextTile
    <2>1. /\ phase = "mapBitstream" /\ mapped < tiles /\ mapped' = mapped + 1
          /\ findexToFaddr' = MapTile(dev, findexToFaddr, mapped) /\ phase' = phase /\ dev' = dev
      BY <1>5 DEF MapNextTile
    <2>2. mapped \in 0 .. tiles - 1 /\ mapped + 1 \in 0 .. tiles
      BY <1>1, <1>2, <2>1
    <2>3. findexToFaddr' = AddressesOf(dev, TileCells(dev, mapped + 1))
      <3>1. MapTile(dev, AddressesOf(dev, TileCells(dev, mapped)), mapped)
               = AddressesOf(dev, TileCells(dev, mapped + 1))
        BY <1>2, <2>2, TileMapped
      <3> QED BY <1>1, <2>1, <3>1
    <2> QED BY <1>1, <2>1, <2>2, <2>3 DEF MapInvariant
  <1>6. CASE AllTilesMapped
    <2>1. /\ phase = "mapBitstream" /\ mapped = tiles /\ mapped' = 0 /\ phase' = "buildGCLKItoaMap"
          /\ findexToFaddr' = findexToFaddr /\ dev' = dev
      BY <1>6 DEF AllTilesMapped
    <2>2. TileCells(dev, tiles) \cup ClockCells(dev, 0) = TileCells(dev, tiles)
      <3>1. 0 .. 0 - 1 = {}
        OBVIOUS
      <3> QED BY <3>1 DEF ClockCells
    <2>3. 0 \in 0 .. dev.num_rows - 1
      BY <1>2
    <2> QED BY <1>1, <2>1, <2>2, <2>3 DEF MapInvariant
  <1>7. CASE MapNextClockRow
    <2>1. /\ phase = "buildGCLKItoaMap" /\ mapped < dev.num_rows /\ mapped' = mapped + 1
          /\ findexToFaddr' = MapClock(dev, findexToFaddr, mapped) /\ dev' = dev
          /\ phase' = IF mapped' = dev.num_rows THEN "loadFile" ELSE phase
      BY <1>7 DEF MapNextClockRow
    <2>2. mapped \in 0 .. dev.num_rows - 1 /\ mapped \in Nat
      BY <1>1, <1>2, <2>1
    <2> DEFINE cells == TileCells(dev, tiles)
    <2>3. findexToFaddr' = AddressesOf(dev, cells \cup ClockCells(dev, mapped + 1))
      <3>1. MapClock(dev, AddressesOf(dev, cells \cup ClockCells(dev, mapped)), mapped)
               = AddressesOf(dev, cells \cup ClockCells(dev, mapped + 1))
        <4> HIDE DEF cells
        <4> QED BY <1>2, <2>2, ClockMapped
      <3> QED BY <1>1, <2>1, <3>1
    <2>4. CASE mapped + 1 = dev.num_rows
      BY <1>1, <2>1, <2>3, <2>4 DEF MapInvariant
    <2>5. CASE mapped + 1 # dev.num_rows
      <3>1. mapped + 1 \in 0 .. dev.num_rows - 1
        BY <1>2, <2>2, <2>5
      <3> QED BY <1>1, <2>1, <2>3, <2>5, <3>1 DEF MapInvariant
    <2> QED BY <2>4, <2>5
  <1>8. CASE \E asExpected \in BOOLEAN : ReadHeader(asExpected)
    BY <1>3, <1>8 DEF ReadHeader
  <1>9. CASE SkipPacket \/ ReadRegister \/ WriteFrameData \/ EndOfFile
    BY <1>3, <1>9 DEF SkipPacket, ReadRegister, WriteFrameData, EndOfFile
  <1>10. CASE \E tiles1 \in Regions : BuildPartial(tiles1)
    BY <1>3, <1>10 DEF BuildPartial
  <1>11. CASE MarkTile \/ StartWriting \/ EndScan
    BY <1>3, <1>11 DEF MarkTile, StartWriting, EndScan
  <1>12. CASE OpenRun \/ ExtendRun \/ CloseRun \/ PassFrame
    BY <1>4, <1>12 DEF OpenRun, ExtendRun, CloseRun, PassFrame
  <1>13. CASE UNCHANGED vars
    BY <1>4, <1>13 DEF vars
  <1> QED
    BY <1>5, <1>6, <1>7, <1>8, <1>9, <1>10, <1>11, <1>12, <1>13 DEF Next

\* The inductive invariant of mapBitstream and buildGCLKItoaMap holds throughout.
THEOREM MapInvariantHolds == Spec => []MapInvariant
  <1>1. Init => MapInvariant
    BY InitMap
  <1>2. MapInvariant /\ [Next]_vars => MapInvariant'
    BY NextMap
  <1> QED BY <1>1, <1>2, PTL DEF Spec

\* Once the loops are through, the map is the device's own.
LEMMA MapIsComplete ==
    ASSUME MapInvariant, phase \notin {"mapBitstream", "buildGCLKItoaMap"}
    PROVE  /\ dev \in Devices /\ IsLaidOut(dev) /\ AddressesFit(dev) /\ IsDevice(dev)
           /\ DOMAIN findexToFaddr = Frame(dev) /\ DOMAIN DeviceFrame(dev) = Frame(dev)
           /\ \A f \in Frame(dev) : findexToFaddr[f] = DeviceFrame(dev)[f].far
  <1> DEFINE device == DeviceFrame(dev)
             tiles == ChipWidth(dev) * ChipHeight(dev)
             cells == TileCells(dev, tiles) \cup ClockCells(dev, dev.num_rows)
  <1>1. dev \in Devices /\ findexToFaddr = AddressesOf(dev, cells)
    BY DEF MapInvariant
  <1>2. IsLaidOut(dev) /\ AddressesFit(dev) /\ IsDevice(dev)
    BY <1>1, DevicesAssumption, LayoutFacts
  <1>3. \A c \in 1 .. Len(dev.row_layout), row \in 0 .. dev.num_rows - 1 : <<c, row>> \in cells
    <2> TAKE c \in 1 .. Len(dev.row_layout), row \in 0 .. dev.num_rows - 1
    <2>1. CASE c = Gclk(dev)
      <3>1. dev.row_layout[c] = "GCLK" /\ c \in DOMAIN dev.row_layout
        BY <1>2, <2>1, LayoutFacts, DeviceFacts
      <3> QED BY <3>1 DEF ClockCells
    <2>2. CASE c # Gclk(dev)
      BY <1>2, <2>2, AllTileCells
    <2> QED BY <2>1, <2>2
  <1> HIDE DEF cells
  <1>4. DOMAIN findexToFaddr = Frame(dev) /\ DOMAIN device = Frame(dev)
    BY <1>1, <1>2, AddressesOfCells
  <1>5. ASSUME NEW f \in Frame(dev)
        PROVE  findexToFaddr[f] = device[f].far
    <2>1. CASE device[f] = PadFrame /\ findexToFaddr[f] = NoAddress
      BY <2>1 DEF PadFrame
    <2>2. CASE ~(device[f] = PadFrame /\ findexToFaddr[f] = NoAddress)
      <3>1. PICK c \in 1 .. Len(dev.row_layout), row \in 0 .. dev.num_rows - 1 :
               \E m \in 0 .. Minors(dev, c) - 1 : f = CellStart(dev, c, row) + m
        BY <1>1, <1>2, <2>2, AddressesOfCells
      <3>2. PICK m \in 0 .. Minors(dev, c) - 1 : f = CellStart(dev, c, row) + m
        BY <3>1
      <3>3. /\ device[f] = FrameOf(dev, c, row, m)
            /\ findexToFaddr[f] = IF <<c, row>> \in cells THEN FarOf(dev, c, row, m) ELSE NoAddress
        BY <1>1, <1>2, <3>2, AddressesOfCells
      <3> QED BY <1>3, <3>3 DEF FrameOf
    <2> QED BY <2>1, <2>2
  <1> QED BY <1>1, <1>2, <1>4, <1>5

-----------------------------------------------------------------------------
\* The words for addresses.

\* The words, from the fields.
Word5(m, c, r, h, t) == m + c * 128 + r * 32768 + h * 1048576 + t * 2097152
Word4(m, c, r, h, t) == m + c * 64 + r * 16384 + h * 4194304 + t * 524288

LEMMA WordIs ==
    ASSUME NEW d, NEW far
    PROVE  /\ d.family = "Virtex5" =>
                StructToFar(d, far) = Word5(far.mna, far.col, far.row, far.tb, far.type)
           /\ d.family # "Virtex5" =>
                StructToFar(d, far) = Word4(far.mna, far.col, far.row, far.tb, far.type)
  <1>1. 2^7 = 128 /\ 2^15 = 32768 /\ 2^20 = 1048576 /\ 2^21 = 2097152
    OBVIOUS
  <1>2. 2^6 = 64 /\ 2^14 = 16384 /\ 2^22 = 4194304 /\ 2^19 = 524288
    OBVIOUS
  <1>3. CASE d.family = "Virtex5"
    BY <1>1, <1>3 DEF StructToFar, Weight, Word5
  <1>4. CASE d.family # "Virtex5"
    BY <1>2, <1>4 DEF StructToFar, Weight, Word4
  <1> QED BY <1>3, <1>4

\* The fields of a column's address are in range.
LEMMA FieldsInRange ==
    ASSUME NEW d, IsDevice(d), AddressesFit(d),
           NEW c \in 1 .. Len(d.row_layout), NEW row \in 0 .. d.num_rows - 1,
           NEW m \in 0 .. Minors(d, c) - 1,
           NEW far, far = FarOf(d, c, row, m)
    PROVE  /\ far.col \in 0 .. 255 /\ far.row \in 0 .. 31 /\ far.tb \in 0 .. 1
           /\ far.mna \in Nat /\ far.type \in Nat
           /\ d.family = "Virtex5" => far.mna \in 0 .. 127
           /\ d.family # "Virtex5" => far.mna \in 0 .. 63 /\ far.type \in 0 .. 7
  <1> DEFINE half == d.num_rows \div 2
             S == InBlock(d, BlockOf(d, c))
             L == d.row_layout
             n == c - 1
             blocks == d.num_blk_types
             minors == Minors(d, c)
  <1>1. far = [type |-> BlockOf(d, c), tb |-> IF row < half THEN 1 ELSE 0,
               row |-> IF row < half THEN half - 1 - row ELSE row - half,
               col |-> Count(L, S, n), mna |-> m]
    BY DEF FarOf
  <1>2. half \in Nat /\ d.num_rows = 2 * half /\ L \in Seq(TileTypes) /\ Len(L) \in Nat
    BY DeviceFacts
  <1>3. BlockOf(d, c) \in 0 .. blocks - 1 /\ minors \in Nat /\ blocks \in Nat
    BY ColumnFacts, DeviceFacts
  <1>4. Len(L) <= 256 /\ half <= 32
    <2>1. FieldSize(d).col = 2^8 /\ FieldSize(d).row = 2^5
      BY DEF FieldSize
    <2>2. 2^8 = 256 /\ 2^5 = 32
      OBVIOUS
    <2> QED BY <2>1, <2>2 DEF AddressesFit
  <1>5. Count(L, S, n) \in 0 .. 255
    <2>1. n \in 0 .. Len(L) /\ n < Len(L)
      BY <1>2
    <2> HIDE DEF L, S, n
    <2>2. Count(L, S, n) \in Nat
      BY <1>2, <2>1, CountSteps
    <2>3. Count(L, S, n) <= n
      BY <1>2, <2>1, CountAtMost
    <2> DEFINE k == Count(L, S, n)
               N == Len(L)
    <2>4. k \in Nat /\ k <= n /\ n < N /\ N <= 256 /\ n \in Nat /\ N \in Nat
      BY <1>2, <1>4, <2>1, <2>2, <2>3
    <2> HIDE DEF k, N
    <2>5. k \in 0 .. 255
      BY <2>4
    <2> QED BY <2>5 DEF k
  <1>6. minors <= Weight(d).col
    <2>1. L[c] \in TileTypes
      BY DeviceFacts
    <2> QED BY <2>1 DEF AddressesFit, Minors
  <1>7. blocks <= FieldSize(d).type
    BY DEF AddressesFit
  <1>8. m \in 0 .. minors - 1
    OBVIOUS
  <1>9. row \in 0 .. 2 * half - 1
    BY <1>2
  <1> HIDE DEF half, L, S, n, blocks, minors
  <1>10. far.col \in 0 .. 255 /\ far.row \in 0 .. 31 /\ far.tb \in 0 .. 1
    BY <1>1, <1>2, <1>4, <1>5, <1>9
  <1>11. far.mna = m /\ far.type = BlockOf(d, c)
    BY <1>1
  <1>12. far.mna \in Nat /\ far.type \in Nat
    BY <1>3, <1>8, <1>11
  <1>13. ASSUME d.family = "Virtex5"
         PROVE  far.mna \in 0 .. 127
    <2>1. Weight(d).col = 2^7
      BY <1>13 DEF Weight
    <2>2. 2^7 = 128
      OBVIOUS
    <2>3. minors <= 128
      BY <1>6, <2>1, <2>2
    <2> QED BY <1>3, <1>8, <1>11, <2>3
  <1>14. ASSUME d.family # "Virtex5"
         PROVE  far.mna \in 0 .. 63 /\ far.type \in 0 .. 7
    <2>1. Weight(d).col = 2^6 /\ FieldSize(d).type = 2^3
      BY <1>14 DEF Weight, FieldSize
    <2>2. 2^6 = 64 /\ 2^3 = 8
      OBVIOUS
    <2>3. minors <= 64 /\ blocks <= 8
      BY <1>6, <1>7, <2>1, <2>2
    <2>4. m \in 0 .. 63
      BY <1>3, <1>8, <2>3
    <2> DEFINE type == BlockOf(d, c)
    <2>5. type \in 0 .. blocks - 1
      BY <1>3
    <2> HIDE DEF type
    <2>6. type \in 0 .. 7
      BY <1>3, <2>3, <2>5
    <2> QED BY <1>11, <2>4, <2>6 DEF type
  <1> QED BY <1>10, <1>12, <1>13, <1>14

\* The words tell the addresses of a device's frames apart.
LEMMA WordsTellApart ==
    ASSUME NEW d, IsDevice(d), AddressesFit(d),
           NEW c1 \in 1 .. Len(d.row_layout), NEW row1 \in 0 .. d.num_rows - 1,
           NEW m1 \in 0 .. Minors(d, c1) - 1,
           NEW c2 \in 1 .. Len(d.row_layout), NEW row2 \in 0 .. d.num_rows - 1,
           NEW m2 \in 0 .. Minors(d, c2) - 1,
           StructToFar(d, FarOf(d, c1, row1, m1)) = StructToFar(d, FarOf(d, c2, row2, m2))
    PROVE  c1 = c2 /\ row1 = row2 /\ m1 = m2
  <1> DEFINE a == FarOf(d, c1, row1, m1)
             b == FarOf(d, c2, row2, m2)
             half == d.num_rows \div 2
             L == d.row_layout
  <1>1. /\ a.mna = b.mna /\ a.col = b.col /\ a.row = b.row /\ a.tb = b.tb /\ a.type = b.type
    <2>0. StructToFar(d, a) = StructToFar(d, b)
      OBVIOUS
    <2>1. /\ a.col \in 0 .. 255 /\ a.row \in 0 .. 31 /\ a.tb \in 0 .. 1
          /\ a.mna \in Nat /\ a.type \in Nat
          /\ d.family = "Virtex5" => a.mna \in 0 .. 127
          /\ d.family # "Virtex5" => a.mna \in 0 .. 63 /\ a.type \in 0 .. 7
      <3> HIDE DEF a
      <3> QED BY FieldsInRange DEF a
    <2>2. /\ b.col \in 0 .. 255 /\ b.row \in 0 .. 31 /\ b.tb \in 0 .. 1
          /\ b.mna \in Nat /\ b.type \in Nat
          /\ d.family = "Virtex5" => b.mna \in 0 .. 127
          /\ d.family # "Virtex5" => b.mna \in 0 .. 63 /\ b.type \in 0 .. 7
      <3> HIDE DEF b
      <3> QED BY FieldsInRange DEF b
    <2> HIDE DEF a, b
    <2>4. CASE d.family = "Virtex5"
      <3> DEFINE ma == a.mna
                 ca == a.col
                 ra == a.row
                 ha == a.tb
                 ta == a.type
                 mb == b.mna
                 cb == b.col
                 rb == b.row
                 hb == b.tb
                 tb == b.type
      <3>1. Word5(ma, ca, ra, ha, ta) = Word5(mb, cb, rb, hb, tb)
        BY <2>0, <2>4, WordIs
      <3>2. ma \in 0 .. 127 /\ ca \in 0 .. 255 /\ ra \in 0 .. 31 /\ ha \in 0 .. 1 /\ ta \in Nat
        BY <2>1, <2>4
      <3>3. mb \in 0 .. 127 /\ cb \in 0 .. 255 /\ rb \in 0 .. 31 /\ hb \in 0 .. 1 /\ tb \in Nat
        BY <2>2, <2>4
      <3> HIDE DEF ma, ca, ra, ha, ta, mb, cb, rb, hb, tb
      <3>4. ma = mb /\ ca = cb /\ ra = rb /\ ha = hb /\ ta = tb
        BY <3>1, <3>2, <3>3 DEF Word5
      <3> QED BY <3>4 DEF ma, ca, ra, ha, ta, mb, cb, rb, hb, tb
    <2>5. CASE d.family # "Virtex5"
      <3> DEFINE ma == a.mna
                 ca == a.col
                 ra == a.row
                 ha == a.tb
                 ta == a.type
                 mb == b.mna
                 cb == b.col
                 rb == b.row
                 hb == b.tb
                 tb == b.type
      <3>1. Word4(ma, ca, ra, ha, ta) = Word4(mb, cb, rb, hb, tb)
        BY <2>0, <2>5, WordIs
      <3>2. ma \in 0 .. 63 /\ ca \in 0 .. 255 /\ ra \in 0 .. 31 /\ ha \in 0 .. 1 /\ ta \in 0 .. 7
        BY <2>1, <2>5
      <3>3. mb \in 0 .. 63 /\ cb \in 0 .. 255 /\ rb \in 0 .. 31 /\ hb \in 0 .. 1 /\ tb \in 0 .. 7
        BY <2>2, <2>5
      <3> HIDE DEF ma, ca, ra, ha, ta, mb, cb, rb, hb, tb
      <3>4. ma = mb /\ ca = cb /\ ra = rb /\ ha = hb /\ ta = tb
        BY <3>1, <3>2, <3>3 DEF Word4
      <3> QED BY <3>4 DEF ma, ca, ra, ha, ta, mb, cb, rb, hb, tb
    <2> QED BY <2>4, <2>5
  <1>2. /\ a.mna = m1 /\ b.mna = m2
        /\ a.type = BlockOf(d, c1) /\ b.type = BlockOf(d, c2)
        /\ a.tb = (IF row1 < half THEN 1 ELSE 0) /\ b.tb = (IF row2 < half THEN 1 ELSE 0)
        /\ a.row = (IF row1 < half THEN half - 1 - row1 ELSE row1 - half)
        /\ b.row = (IF row2 < half THEN half - 1 - row2 ELSE row2 - half)
        /\ a.col = Count(L, InBlock(d, BlockOf(d, c1)), c1 - 1)
        /\ b.col = Count(L, InBlock(d, BlockOf(d, c2)), c2 - 1)
    BY DEF FarOf
  <1>3. half \in Nat /\ d.num_rows = 2 * half /\ L \in Seq(TileTypes)
    BY DeviceFacts
  <1> HIDE DEF a, b, half
  <1>4. row1 = row2
    <2>1. row1 \in 0 .. 2 * half - 1 /\ row2 \in 0 .. 2 * half - 1 /\ half \in Nat
      BY <1>3
    <2>2. (IF row1 < half THEN 1 ELSE 0) = (IF row2 < half THEN 1 ELSE 0)
      BY <1>1, <1>2
    <2>3. (IF row1 < half THEN half - 1 - row1 ELSE row1 - half) =
          (IF row2 < half THEN half - 1 - row2 ELSE row2 - half)
      BY <1>1, <1>2
    <2> QED BY <2>1, <2>2, <2>3
  <1>5. c1 = c2
    <2> DEFINE S == InBlock(d, BlockOf(d, c1))
    <2>1. L[c1] \in TileTypes /\ L[c2] \in TileTypes
      BY DeviceFacts
    <2>2. L[c1] \in S /\ L[c2] \in S
      BY <1>1, <1>2, <2>1 DEF InBlock, BlockOf
    <2>3. Count(L, S, c1 - 1) = Count(L, S, c2 - 1)
      BY <1>1, <1>2
    <2> HIDE DEF S
    <2> QED BY <1>3, <2>2, <2>3, CountIsOwn
  <1> QED BY <1>1, <1>2, <1>4, <1>5

\* So they do when the frames are taken for themselves.
LEMMA FramesTellApart ==
    ASSUME NEW d, IsDevice(d), AddressesFit(d),
           NEW f \in Frame(d), DeviceFrame(d)[f] # PadFrame,
           NEW g \in Frame(d), DeviceFrame(d)[g] # PadFrame,
           StructToFar(d, DeviceFrame(d)[f].far) = StructToFar(d, DeviceFrame(d)[g].far)
    PROVE  f = g
  <1> DEFINE device == DeviceFrame(d)
  <1>1. ASSUME NEW e \in Frame(d), device[e] # PadFrame
        PROVE  \E c \in 1 .. Len(d.row_layout), row \in 0 .. d.num_rows - 1 :
                  \E m \in 0 .. Minors(d, c) - 1 :
                     e = CellStart(d, c, row) + m /\ device[e].far = FarOf(d, c, row, m)
    <2>1. PICK c \in 1 .. Len(d.row_layout), row \in 0 .. d.num_rows - 1 :
             \E m \in 0 .. Minors(d, c) - 1 : e = CellStart(d, c, row) + m
      BY <1>1, DeviceIsLaidOut DEF Frame
    <2>2. PICK m \in 0 .. Minors(d, c) - 1 : e = CellStart(d, c, row) + m
      BY <2>1
    <2>3. device[e] = FrameOf(d, c, row, m)
      BY <2>2, DeviceIsLaidOut
    <2>4. device[e].far = FarOf(d, c, row, m)
      BY <2>3 DEF FrameOf
    <2> QED BY <2>2, <2>4
  <1>2. PICK c1 \in 1 .. Len(d.row_layout), row1 \in 0 .. d.num_rows - 1 :
           \E m \in 0 .. Minors(d, c1) - 1 :
              f = CellStart(d, c1, row1) + m /\ device[f].far = FarOf(d, c1, row1, m)
    BY <1>1
  <1>3. PICK m1 \in 0 .. Minors(d, c1) - 1 :
           f = CellStart(d, c1, row1) + m1 /\ device[f].far = FarOf(d, c1, row1, m1)
    BY <1>2
  <1>4. PICK c2 \in 1 .. Len(d.row_layout), row2 \in 0 .. d.num_rows - 1 :
           \E m \in 0 .. Minors(d, c2) - 1 :
              g = CellStart(d, c2, row2) + m /\ device[g].far = FarOf(d, c2, row2, m)
    BY <1>1
  <1>5. PICK m2 \in 0 .. Minors(d, c2) - 1 :
           g = CellStart(d, c2, row2) + m2 /\ device[g].far = FarOf(d, c2, row2, m2)
    BY <1>4
  <1>6. c1 = c2 /\ row1 = row2 /\ m1 = m2
    BY <1>3, <1>5, WordsTellApart
  <1> QED BY <1>3, <1>5, <1>6

-----------------------------------------------------------------------------
\* The words are as many as the addresses, when they tell these apart.
LEMMA WordsAreMany ==
    ASSUME NEW S, IsFiniteSet(S), NEW w,
           w \in [S -> {w[s] : s \in S}],
           \A s, t \in S : w[s] = w[t] => s = t
    PROVE  Cardinality({w[s] : s \in S}) = Cardinality(S)
  <1> DEFINE T == {w[s] : s \in S}
  <1>1. w \in Surjection(S, T)
    BY DEF Surjection
  <1>2. w \in Injection(S, T)
    BY DEF Injection, IsInjective
  <1> HIDE DEF T
  <1>3. Cardinality(T) = Cardinality(S) <=> w \in Injection(S, T)
    BY <1>1, FS_Surjection
  <1> QED BY <1>2, <1>3 DEF T

LEMMA MapIsOrder == ASSUME MapInvariant PROVE MapIsDeviceOrder
  <1> DEFINE device == DeviceFrame(dev)
             addressed == {f \in DOMAIN device : device[f] # PadFrame}
             w == [f \in addressed |-> StructToFar(dev, findexToFaddr[f])]
  <1> SUFFICES ASSUME phase = "loadFile"
               PROVE  /\ DOMAIN device = DOMAIN findexToFaddr
                      /\ \A f \in DOMAIN device : findexToFaddr[f] = device[f].far
                      /\ Cardinality({StructToFar(dev, findexToFaddr[f]) : f \in addressed}) =
                            Cardinality(addressed)
    BY DEF MapIsDeviceOrder
  <1>1. /\ dev \in Devices /\ IsDevice(dev) /\ AddressesFit(dev)
        /\ DOMAIN findexToFaddr = Frame(dev) /\ DOMAIN device = Frame(dev)
        /\ \A f \in Frame(dev) : findexToFaddr[f] = device[f].far
    BY MapIsComplete
  <1>2. IsFiniteSet(addressed)
    <2>1. CfgSize(dev) \in Nat
      BY <1>1, CfgSizeIsNat
    <2>2. IsFiniteSet(Frame(dev))
      <3> DEFINE n == CfgSize(dev) - 1
      <3>1. n \in Int
        BY <2>1
      <3> HIDE DEF n
      <3>2. IsFiniteSet(0 .. n)
        BY <3>1, FS_Interval
      <3> QED BY <3>2 DEF n, Frame
    <2>3. addressed \in SUBSET Frame(dev)
      BY <1>1
    <2> HIDE DEF addressed
    <2> QED BY <2>2, <2>3, FS_Subset
  <1>3. \A f, g \in addressed : w[f] = w[g] => f = g
    <2>1. SUFFICES ASSUME NEW f \in addressed, NEW g \in addressed, w[f] = w[g]
                   PROVE  f = g
      OBVIOUS
    <2>2. /\ f \in Frame(dev) /\ device[f] # PadFrame
          /\ g \in Frame(dev) /\ device[g] # PadFrame
      BY <1>1
    <2>3. StructToFar(dev, device[f].far) = StructToFar(dev, device[g].far)
      BY <1>1, <2>1, <2>2
    <2> QED BY <1>1, <2>2, <2>3, FramesTellApart
  <1>4. w \in [addressed -> {w[f] : f \in addressed}]
    OBVIOUS
  <1>5. {StructToFar(dev, findexToFaddr[f]) : f \in addressed} = {w[f] : f \in addressed}
    OBVIOUS
  <1> HIDE DEF addressed, w
  <1>6. Cardinality({w[f] : f \in addressed}) = Cardinality(addressed)
    BY <1>2, <1>3, <1>4, WordsAreMany
  <1> QED BY <1>1, <1>5, <1>6

\* Whatever the device, if it is laid out and its addresses fit: when the three loops are
\* through, every frame has the device's own address, and no two frames one word.
THEOREM MapIsDeviceOrderAlways == Spec => []MapIsDeviceOrder
  <1>1. MapInvariant => MapIsDeviceOrder
    BY MapIsOrder
  <1> QED BY <1>1, MapInvariantHolds, PTL

-----------------------------------------------------------------------------
\* Loading the full bitstream.

\* What is left of the file from its k-th packet on.
LEMMA BitstreamLeft ==
    ASSUME NEW d, NEW k \in 1 .. 10, NEW p, p = SubSeq(FullBitstream(d), k, 9)
    PROVE  /\ p = <<>> <=> k = 10
           /\ p # <<>> => /\ k \in 1 .. 9 /\ k + 1 \in 1 .. 10
                          /\ Head(p) = FullBitstream(d)[k]
                          /\ Tail(p) = SubSeq(FullBitstream(d), k + 1, 9)
           /\ FullBitstream(d) = SubSeq(FullBitstream(d), 1, 9)
  <1> DEFINE s == FullBitstream(d)
             U == {s[i] : i \in 1 .. 9}
             n == Len(s)
  <1>1. s \in Seq(U) /\ n = 9
    BY DEF FullBitstream
  <1>2. p = SubSeq(s, k, n)
    BY <1>1
  <1> HIDE DEF s, U, n
  <1>3. s = SubSeq(s, 1, 9)
    BY <1>1 DEF n
  <1>4. Len(p) = 10 - k /\ p \in Seq(U)
    <2> DEFINE N == n
    <2>0. N \in Nat /\ N = Len(s) /\ k \in 1 .. N + 1
      BY <1>1 DEF n
    <2> HIDE DEF N
    <2>1. SubSeq(s, k, N) \in Seq(U) /\ Len(SubSeq(s, k, N)) = N + 1 - k
      <3>1. \A i \in k .. N : s[i] \in U
        BY <1>1, <2>0
      <3>2. k \in Int /\ N \in Int
        BY <2>0
      <3> DEFINE q == SubSeq(s, k, N)
      <3>3. q \in Seq(U) /\ Len(q) = IF k <= N THEN N - k + 1 ELSE 0
        BY <3>1, <3>2, SubSeqProperties
      <3> HIDE DEF q
      <3>4. Len(q) = N + 1 - k
        BY <2>0, <3>3
      <3> QED BY <3>3, <3>4 DEF q
    <2> QED BY <1>1, <1>2, <2>1 DEF N
  <1>5. p = <<>> <=> k = 10
    <2>1. p = <<>> => Len(p) = 0
      BY EmptySeq
    <2>2. p # <<>> => Len(p) # 0
      <3>1. \A q \in Seq(U) : q # <<>> => Len(q) \in Nat \ {0}
        BY EmptySeq
      <3>2. p # <<>> => Len(p) \in Nat \ {0}
        BY <1>4, <3>1, Zenon
      <3> QED BY <3>2
    <2> QED BY <1>4, <2>1, <2>2
  <1>6. ASSUME k # 10
        PROVE  Head(p) = s[k] /\ Tail(p) = SubSeq(s, k + 1, 9)
    <2>1. k \in 1 .. Len(s) /\ n \in k .. Len(s)
      BY <1>1, <1>6 DEF n
    <2>2. Head(SubSeq(s, k, n)) = s[k] /\ Tail(SubSeq(s, k, n)) = SubSeq(s, k + 1, n)
      BY <1>1, <2>1, HeadTailOfSubSeq
    <2> QED BY <1>1, <1>2, <2>2
  <1> QED BY <1>3, <1>5, <1>6 DEF s

\* The packets: frame data is in the seventh, and the address it is for is zero.
LEMMA PacketsAre ==
    ASSUME NEW d, NEW k \in 1 .. 9, NEW p, p = FullBitstream(d)[k]
    PROVE  /\ p.header = "type2" <=> k = 7
           /\ k = 7 => p.first = 0 /\ p.num = CfgSize(d)
           /\ p.header = "type1" /\ p.register = "FAR" => Last(p.values) = 0
  <1>1. CASE k = 1 \/ k = 5 \/ k = 9
    <2>1. p = Other
      BY <1>1 DEF FullBitstream
    <2> QED BY <1>1, <2>1 DEF Other
  <1>2. CASE k = 2 \/ k = 4 \/ k = 8
    <2>1. p.register = "CMD" /\ p.header = "type1"
      BY <1>2 DEF FullBitstream, Register
    <2> QED BY <1>2, <2>1
  <1>3. CASE k = 3
    <2>1. p = Register("FAR", <<0>>)
      BY <1>3 DEF FullBitstream
    <2>2. Last(<<0>>) = 0
      BY DEF Last
    <2> QED BY <1>3, <2>1, <2>2 DEF Register
  <1>4. CASE k = 6
    <2>1. p.register = "FDRI" /\ p.header = "type1"
      BY <1>4 DEF FullBitstream, Register
    <2> QED BY <1>4, <2>1
  <1>5. CASE k = 7
    <2>1. p = Data(0, CfgSize(d))
      BY <1>5 DEF FullBitstream
    <2> QED BY <1>5, <2>1 DEF Data
  <1> QED BY <1>1, <1>2, <1>3, <1>4, <1>5

\* Frame data for address zero goes to the first frame.
LEMMA ZeroIsFirst ==
    ASSUME NEW d, IsDevice(d)
    PROVE  FrameOffset(d, FarToStruct(d, 0)) = 0
  <1> DEFINE far == FarToStruct(d, 0)
  <1>1. far.tb = 0 /\ far.row = 0 /\ far.type = 0 /\ far.col = 0
    <2>0. \A w \in Nat \ {0} : 0 \div w = 0 /\ 0 % w = 0
      OBVIOUS
    <2>1. far = [type |-> (0 \div Weight(d).type) % FieldSize(d).type,
                 tb   |-> (0 \div Weight(d).tb) % FieldSize(d).tb,
                 row  |-> (0 \div Weight(d).row) % FieldSize(d).row,
                 col  |-> (0 \div Weight(d).col) % FieldSize(d).col,
                 mna  |-> (0 \div Weight(d).mna) % FieldSize(d).mna]
      BY DEF FarToStruct, NoAddress
    <2>2. /\ Weight(d).type \in Nat \ {0} /\ Weight(d).tb \in Nat \ {0}
          /\ Weight(d).row \in Nat \ {0} /\ Weight(d).col \in Nat \ {0}
      BY DEF Weight
    <2>3. /\ FieldSize(d).type \in Nat \ {0} /\ FieldSize(d).tb \in Nat \ {0}
          /\ FieldSize(d).row \in Nat \ {0} /\ FieldSize(d).col \in Nat \ {0}
      BY DEF FieldSize
    <2> QED BY <2>0, <2>1, <2>2, <2>3
  <1>2. RowWidth(d, 0) \in Nat
    BY BeforeSteps
  <1>3. FramesOf(d, SubSeq(ColumnsOf(d, 0), 1, 0)) = 0
    <2>1. SubSeq(ColumnsOf(d, 0), 1, 0) = <<>>
      <3>1. ColumnsOf(d, 0) \in Seq(TileTypes)
        <4> DEFINE L == d.row_layout
                   S == InBlock(d, 0)
        <4>1. L \in Seq(TileTypes) /\ Len(L) \in Nat
          BY DeviceFacts
        <4> HIDE DEF L, S
        <4>2. Len(L) \in 0 .. Len(L)
          BY <4>1
        <4>3. Selected(SubSeq(L, 1, Len(L)), S) \in Seq(TileTypes)
          BY <4>1, <4>2, SelectedElements
        <4>4. Selected(L, S) \in Seq(TileTypes)
          BY <4>1, <4>3, SelectedAll
        <4> QED BY <4>4 DEF ColumnsOf, L, S
      <3> QED BY <3>1
    <2>2. FramesOf(d, <<>>) = Total(<<>>)
      BY DEF FramesOf
    <2> QED BY <2>1, <2>2, TotalOfNone
  <1> HIDE DEF far
  <1>4. FrameOffset(d, far) = 0 * RowWidth(d, 0) + FramesOf(d, SubSeq(ColumnsOf(d, 0), 1, 0))
    BY <1>1 DEF FrameOffset
  <1> QED BY <1>2, <1>3, <1>4 DEF far

LEMMA InitLoad == Init => LoadInvariant
  <1> SUFFICES ASSUME Init PROVE LoadInvariant
    OBVIOUS
  <1>1. /\ dev \in Devices /\ phase = "mapBitstream" /\ loaded = FALSE /\ farRegister = 0
        /\ frames = [f \in Frame(dev) |-> Unread]
    BY DEF Init
  <1>2. Unread \in Contents
    BY DEF Contents, Unread
  <1>3. DOMAIN frames = Frame(dev) /\ \A f \in Frame(dev) : frames[f] \in Contents
    BY <1>1, <1>2
  <1> QED BY <1>1, <1>3 DEF LoadInvariant

\* Frame data that was read is data.
LEMMA PreparedIsContents ==
    ASSUME NEW f \in Int, NEW far
    PROVE  /\ Raw(f) \in Contents /\ Prepared(f, far) \in Contents
           /\ dev.family = "Virtex5" => Prepared(f, far) = Raw(f)
  BY DEF Raw, Prepared, Contents

LEMMA NextLoad == LoadInvariant /\ [Next]_vars => LoadInvariant'
  <1> SUFFICES ASSUME LoadInvariant, [Next]_vars PROVE LoadInvariant'
    OBVIOUS
  <1> DEFINE After == {"buildPartial", "writeBitstream", "closed"}
             file == FullBitstream(dev)
  <1>1. /\ dev \in Devices
        /\ loaded \in BOOLEAN /\ farRegister = 0
        /\ DOMAIN frames = Frame(dev) /\ \A f \in Frame(dev) : frames[f] \in Contents
        /\ phase = "readPackets" =>
              \E k \in 1 .. 10 : packets = SubSeq(file, k, 9) /\ (k > 7 /\ loaded => SourceIsIn)
        /\ phase \in After /\ loaded => SourceIsIn
    BY DEF LoadInvariant
  <1>2. IsDevice(dev) /\ CfgSize(dev) \in Nat /\ Frame(dev) \subseteq Int
    <2>1. IsDevice(dev) /\ CfgSize(dev) \in Nat
      BY <1>1, DevicesAssumption, LayoutFacts, CfgSizeIsNat
    <2> QED BY <2>1 DEF Frame
  <1>3. LoadsAt = 0
    BY <1>1, <1>2, ZeroIsFirst DEF LoadsAt
  <1>4. ASSUME UNCHANGED <<dev, loaded, farRegister, frames>>,
               phase' # "readPackets", phase' \in After => phase \in After
        PROVE  LoadInvariant'
    <2>1. dev' = dev /\ loaded' = loaded /\ farRegister' = farRegister /\ frames' = frames
      BY <1>4
    <2>2. phase' \in After /\ loaded' => SourceIsIn'
      BY <1>1, <1>4, <2>1 DEF SourceIsIn
    <2> QED BY <1>1, <1>4, <2>1, <2>2 DEF LoadInvariant
  <1>5. ASSUME UNCHANGED <<dev, loaded, farRegister, frames, phase, packets>>
        PROVE  LoadInvariant'
    BY <1>1, <1>5 DEF LoadInvariant, SourceIsIn
  <1>6. ASSUME phase = "readPackets", packets # <<>>
        PROVE  \E k \in 1 .. 9 :
                  /\ k + 1 \in 1 .. 10 /\ (k > 7 /\ loaded => SourceIsIn)
                  /\ Head(packets) = file[k]
                  /\ Tail(packets) = SubSeq(file, k + 1, 9)
    <2>1. PICK k \in 1 .. 10 : packets = SubSeq(file, k, 9) /\ (k > 7 /\ loaded => SourceIsIn)
      BY <1>1, <1>6
    <2>2. /\ k \in 1 .. 9 /\ k + 1 \in 1 .. 10
          /\ Head(packets) = file[k] /\ Tail(packets) = SubSeq(file, k + 1, 9)
      BY <1>6, <2>1, BitstreamLeft
    <2> QED BY <2>1, <2>2
  <1> HIDE DEF file
  <1>7. ASSUME NEW k \in 1 .. 10, packets' = SubSeq(file, k, 9), phase' = "readPackets",
               dev' = dev, loaded' \in BOOLEAN, farRegister' = 0, DOMAIN frames' = Frame(dev),
               \A f \in Frame(dev) : frames'[f] \in Contents, k > 7 /\ loaded' => SourceIsIn'
        PROVE  LoadInvariant'
    BY <1>1, <1>7 DEF LoadInvariant, file
  <1>8. CASE \E asExpected \in BOOLEAN : ReadHeader(asExpected)
    <2>1. packets' = SubSeq(file, 1, 9)
      <3>1. packets' = FullBitstream(dev)
        BY <1>8 DEF ReadHeader
      <3>2. FullBitstream(dev) = SubSeq(FullBitstream(dev), 1, 9)
        <4>1. 1 \in 1 .. 10
          OBVIOUS
        <4> QED BY <4>1, BitstreamLeft
      <3> QED BY <3>1, <3>2 DEF file
    <2>2. /\ phase' = "readPackets" /\ dev' = dev /\ loaded' \in BOOLEAN
          /\ farRegister' = farRegister /\ frames' = frames
      BY <1>8 DEF ReadHeader
    <2>3. 1 \in 1 .. 10 /\ ~(1 > 7)
      OBVIOUS
    <2> QED BY <1>1, <1>7, <2>1, <2>2, <2>3
  <1>9. CASE SkipPacket
    <2>1. PICK k \in 1 .. 9 : /\ k + 1 \in 1 .. 10 /\ (k > 7 /\ loaded => SourceIsIn)
                              /\ Head(packets) = file[k]
                              /\ Tail(packets) = SubSeq(file, k + 1, 9)
      BY <1>6, <1>9 DEF SkipPacket
    <2> DEFINE n == k + 1
    <2>2. /\ Head(packets).header = "other" /\ packets' = Tail(packets) /\ phase' = "readPackets"
          /\ dev' = dev /\ loaded' = loaded /\ farRegister' = farRegister /\ frames' = frames
      BY <1>9 DEF SkipPacket
    <2>3. k # 7
      <3> DEFINE p == Head(packets)
      <3>1. p = FullBitstream(dev)[k]
        BY <2>1 DEF file
      <3> HIDE DEF p
      <3>2. p.header = "type2" <=> k = 7
        BY <3>1, PacketsAre
      <3> QED BY <2>2, <3>2 DEF p
    <2>4. n > 7 /\ loaded' => SourceIsIn'
      <3>1. n > 7 => k > 7
        BY <2>3
      <3> QED BY <2>1, <2>2, <3>1 DEF SourceIsIn
    <2>5. n \in 1 .. 10 /\ packets' = SubSeq(file, n, 9)
      BY <2>1, <2>2
    <2> HIDE DEF n
    <2> QED BY <1>1, <1>7, <2>2, <2>4, <2>5
  <1>10. CASE ReadRegister
    <2>1. PICK k \in 1 .. 9 : /\ k + 1 \in 1 .. 10 /\ (k > 7 /\ loaded => SourceIsIn)
                              /\ Head(packets) = file[k]
                              /\ Tail(packets) = SubSeq(file, k + 1, 9)
      BY <1>6, <1>10 DEF ReadRegister
    <2> DEFINE n == k + 1
               p == Head(packets)
    <2>2. /\ p.header = "type1" /\ packets' = Tail(packets) /\ phase' = "readPackets"
          /\ dev' = dev /\ loaded' = loaded /\ frames' = frames
          /\ farRegister' = IF p.register = "FAR" /\ p.values # <<>>
                            THEN Last(p.values) ELSE farRegister
      BY <1>10 DEF ReadRegister
    <2>3. p = FullBitstream(dev)[k]
      BY <2>1 DEF file
    <2> HIDE DEF p
    <2>4. /\ p.header = "type2" <=> k = 7
          /\ p.header = "type1" /\ p.register = "FAR" => Last(p.values) = 0
      BY <2>3, PacketsAre
    <2>5. k # 7 /\ farRegister' = 0
      BY <1>1, <2>2, <2>4
    <2>6. n > 7 /\ loaded' => SourceIsIn'
      <3>1. n > 7 => k > 7
        BY <2>5
      <3> QED BY <2>1, <2>2, <3>1 DEF SourceIsIn
    <2>7. n \in 1 .. 10 /\ packets' = SubSeq(file, n, 9)
      BY <2>1, <2>2
    <2> HIDE DEF n
    <2> QED BY <1>1, <1>7, <2>2, <2>5, <2>6, <2>7
  <1>11. CASE WriteFrameData
    <2>1. PICK k \in 1 .. 9 : /\ k + 1 \in 1 .. 10 /\ (k > 7 /\ loaded => SourceIsIn)
                              /\ Head(packets) = file[k]
                              /\ Tail(packets) = SubSeq(file, k + 1, 9)
      BY <1>6, <1>11 DEF WriteFrameData
    <2> DEFINE n == k + 1
               p == Head(packets)
               size == CfgSize(dev)
               read == [f \in DOMAIN frames |-> IF f \in 0 .. 0 + p.num - 1
                                                THEN Prepared(p.first + f - 0, findexToFaddr[f])
                                                ELSE frames[f]]
    <2>2. /\ p.header = "type2" /\ packets' = Tail(packets) /\ phase' = "readPackets"
          /\ dev' = dev /\ loaded' = loaded /\ farRegister' = farRegister
      BY <1>11 DEF WriteFrameData
    <2>3. frames' = read
      BY <1>3, <1>11 DEF WriteFrameData
    <2>4. p = FullBitstream(dev)[k]
      BY <2>1 DEF file
    <2> HIDE DEF p
    <2>5. k = 7 /\ p.first = 0 /\ p.num = size
      BY <2>2, <2>4, PacketsAre
    <2>6. DOMAIN frames' = Frame(dev) /\ \A f \in Frame(dev) : frames'[f] = Prepared(f, findexToFaddr[f])
      <3>1. \A f \in Frame(dev) : f \in 0 .. 0 + p.num - 1 /\ p.first + f - 0 = f
        BY <1>2, <2>5 DEF Frame
      <3> QED BY <1>1, <2>3, <3>1
    <2>7. \A f \in Frame(dev) : frames'[f] \in Contents
      BY <1>2, <2>6, PreparedIsContents
    <2>8. SourceIsIn'
      <3>1. Frame(dev') = Frame(dev)
        BY <2>2
      <3> QED BY <1>2, <2>2, <2>6, <3>1, PreparedIsContents DEF SourceIsIn
    <2>9. n \in 1 .. 10 /\ packets' = SubSeq(file, n, 9)
      BY <2>1, <2>2
    <2> HIDE DEF n
    <2> QED BY <1>1, <1>7, <2>2, <2>6, <2>7, <2>8, <2>9
  <1>12. CASE EndOfFile
    <2>1. /\ loaded' = FALSE /\ packets' = <<>> /\ phase' = "readPackets"
          /\ dev' = dev /\ farRegister' = farRegister
      BY <1>12 DEF EndOfFile
    <2>2. DOMAIN frames' = Frame(dev) /\ \A f \in Frame(dev) : frames'[f] \in Contents
      <3>1. CASE frames' = frames
        BY <1>1, <3>1
      <3>2. CASE frames' # frames
        <4> DEFINE p == Head(packets)
        <4>1. PICK k \in 1 .. 9 : p = FullBitstream(dev)[k]
          BY <1>6, <1>12 DEF EndOfFile, file
        <4>2. /\ p.header = "type2"
              /\ \E num \in CutFrames :
                    frames' = [f \in DOMAIN frames |-> IF f \in 0 .. 0 + num - 1
                                                       THEN Raw(p.first + f - 0) ELSE frames[f]]
          BY <1>3, <1>12, <3>2 DEF EndOfFile
        <4> HIDE DEF p
        <4>3. p.first = 0
          BY <4>1, <4>2, PacketsAre
        <4>4. \A f \in Frame(dev) : Raw(p.first + f - 0) \in Contents
          <5>1. \A f \in Frame(dev) : p.first + f - 0 \in Int
            BY <1>2, <4>3
          <5> QED BY <5>1, PreparedIsContents
        <4> QED BY <1>1, <4>2, <4>4
      <3> QED BY <3>1, <3>2
    <2>3. packets' = SubSeq(file, 10, 9) /\ 10 \in 1 .. 10
      <3>1. 10 \in 1 .. 10
        OBVIOUS
      <3>2. SubSeq(FullBitstream(dev), 10, 9) = <<>>
        BY <3>1, BitstreamLeft
      <3> QED BY <2>1, <3>1, <3>2 DEF file
    <2> QED BY <1>1, <1>7, <2>1, <2>2, <2>3
  <1>13. CASE \E tiles \in Regions : BuildPartial(tiles)
    <2>1. /\ phase = "readPackets" /\ packets = <<>> /\ phase' = "buildPartial"
          /\ dev' = dev /\ loaded' = loaded /\ farRegister' = farRegister /\ frames' = frames
      BY <1>13 DEF BuildPartial, fileVars
    <2>2. loaded => SourceIsIn
      <3>1. PICK k \in 1 .. 10 : packets = SubSeq(file, k, 9) /\ (k > 7 /\ loaded => SourceIsIn)
        BY <1>1, <2>1 DEF file
      <3>2. k = 10
        BY <2>1, <3>1, BitstreamLeft DEF file
      <3> QED BY <3>1, <3>2
    <2>3. SourceIsIn => SourceIsIn'
      BY <2>1 DEF SourceIsIn
    <2> QED BY <1>1, <2>1, <2>2, <2>3 DEF LoadInvariant
  <1>14. CASE MapNextTile \/ AllTilesMapped \/ MapNextClockRow
    BY <1>4, <1>14 DEF MapNextTile, AllTilesMapped, MapNextClockRow, fileVars
  <1>15. CASE MarkTile \/ StartWriting \/ OpenRun \/ ExtendRun \/ CloseRun \/ PassFrame \/ EndScan
    BY <1>4, <1>15
       DEF MarkTile, StartWriting, OpenRun, ExtendRun, CloseRun, PassFrame, EndScan, fileVars, Scanning
  <1>16. CASE UNCHANGED vars
    BY <1>5, <1>16 DEF vars, fileVars
  <1> QED
    BY <1>8, <1>9, <1>10, <1>11, <1>12, <1>13, <1>14, <1>15, <1>16 DEF Next

\* The inductive invariant of reading the full bitstream holds throughout.
THEOREM LoadInvariantHolds == Spec => []LoadInvariant
  <1>1. Init => LoadInvariant
    BY InitLoad
  <1>2. LoadInvariant /\ [Next]_vars => LoadInvariant'
    BY NextLoad
  <1> QED BY <1>1, <1>2, PTL DEF Spec

-----------------------------------------------------------------------------
\* Marking the region's frames.

\* What tiles mark is what the first of them marks, and what the others do.
LEMMA FirstMarks ==
    ASSUME NEW d, NEW U, NEW tiles \in Seq(U), tiles # <<>>
    PROVE  /\ MarksOf(d, tiles) = MarkedBy(d, Head(tiles)) \cup MarksOf(d, Tail(tiles))
           /\ Tail(tiles) \in Seq(U)
  <1> DEFINE n == Len(tiles)
             rest == Tail(tiles)
  <1>1. /\ DOMAIN tiles = 1 .. n /\ n \in Nat /\ n > 0 /\ Head(tiles) = tiles[1]
        /\ rest \in Seq(U) /\ DOMAIN rest = 1 .. n - 1
    OBVIOUS
  <1>2. \A k \in 1 .. n - 1 : rest[k] = tiles[k + 1]
    BY HeadTailProperties
  <1> HIDE DEF n, rest
  <1>3. ASSUME NEW f \in MarksOf(d, tiles)
        PROVE  f \in MarkedBy(d, Head(tiles)) \cup MarksOf(d, rest)
    <2>1. PICK k \in 1 .. n : f \in MarkedBy(d, tiles[k])
      BY <1>1 DEF MarksOf
    <2>2. CASE k = 1
      BY <1>1, <2>1, <2>2
    <2>3. CASE k # 1
      <3> DEFINE l == k - 1
      <3>1. l \in 1 .. n - 1 /\ l + 1 = k
        BY <1>1, <2>3
      <3> HIDE DEF l
      <3>2. f \in MarkedBy(d, rest[l])
        BY <1>2, <2>1, <3>1
      <3> QED BY <1>1, <3>1, <3>2 DEF MarksOf
    <2> QED BY <2>2, <2>3
  <1>4. MarkedBy(d, Head(tiles)) \subseteq MarksOf(d, tiles)
    <2>1. 1 \in 1 .. n
      BY <1>1
    <2> QED BY <1>1, <2>1 DEF MarksOf
  <1>5. ASSUME NEW f \in MarksOf(d, rest)
        PROVE  f \in MarksOf(d, tiles)
    <2>1. PICK k \in 1 .. n - 1 : f \in MarkedBy(d, rest[k])
      BY <1>1 DEF MarksOf
    <2>2. k + 1 \in 1 .. n /\ f \in MarkedBy(d, tiles[k + 1])
      BY <1>1, <1>2, <2>1
    <2> QED BY <1>1, <2>2 DEF MarksOf
  <1> QED BY <1>1, <1>3, <1>4, <1>5 DEF rest

LEMMA InitMark == Init => MarkInvariant
  BY DEF Init, MarkInvariant

LEMMA NextMark == MarkInvariant /\ [Next]_vars => MarkInvariant'
  <1> SUFFICES ASSUME MarkInvariant, [Next]_vars PROVE MarkInvariant'
    OBVIOUS
  <1> DEFINE After == {"buildPartial", "writeBitstream", "closed"}
             All == MarksOf(dev, regionTiles)
  <1>1. /\ dev \in Devices
        /\ phase \in After => /\ unmarked \in Seq(ToSet(regionTiles))
                              /\ frameBitmap \cup MarksOf(dev, unmarked) = All
        /\ phase \in {"writeBitstream", "closed"} => unmarked = <<>>
        /\ phase \notin After => frameBitmap = {}
    BY DEF MarkInvariant
  <1>2. ASSUME dev' = dev, UNCHANGED markVars, phase' \in After <=> phase \in After,
               phase' \in {"writeBitstream", "closed"} =>
                  phase \in {"writeBitstream", "closed"} \/ unmarked = <<>>
        PROVE  MarkInvariant'
    <2>1. regionTiles' = regionTiles /\ unmarked' = unmarked /\ frameBitmap' = frameBitmap
      BY <1>2 DEF markVars
    <2> QED BY <1>1, <1>2, <2>1 DEF MarkInvariant
  <1>3. CASE \E tiles \in Regions : BuildPartial(tiles)
    <2>1. PICK tiles \in Regions : BuildPartial(tiles)
      BY <1>3
    <2>2. /\ phase = "readPackets" /\ regionTiles' = tiles /\ unmarked' = tiles
          /\ phase' = "buildPartial" /\ frameBitmap' = frameBitmap /\ dev' = dev
      BY <2>1 DEF BuildPartial
    <2>3. frameBitmap' = {}
      BY <1>1, <2>2
    <2>4. tiles \in Seq(ToSet(tiles))
      BY BitstreamAssumption
    <2> QED BY <1>1, <2>2, <2>3, <2>4 DEF MarkInvariant
  <1>4. CASE MarkTile
    <2>1. /\ phase = "buildPartial" /\ phase' = phase /\ unmarked # <<>>
          /\ frameBitmap' = frameBitmap \cup MarkedBy(dev, Head(unmarked))
          /\ unmarked' = Tail(unmarked) /\ regionTiles' = regionTiles /\ dev' = dev
      BY <1>4 DEF MarkTile
    <2>2. /\ MarksOf(dev, unmarked) = MarkedBy(dev, Head(unmarked)) \cup MarksOf(dev, Tail(unmarked))
          /\ Tail(unmarked) \in Seq(ToSet(regionTiles))
      BY <1>1, <2>1, FirstMarks
    <2>3. frameBitmap' \cup MarksOf(dev, unmarked') = All
      BY <1>1, <2>1, <2>2
    <2> QED BY <1>1, <2>1, <2>2, <2>3 DEF MarkInvariant
  <1>5. CASE MapNextTile \/ AllTilesMapped \/ MapNextClockRow
    BY <1>2, <1>5 DEF MapNextTile, AllTilesMapped, MapNextClockRow
  <1>6. CASE \E asExpected \in BOOLEAN : ReadHeader(asExpected)
    BY <1>2, <1>6 DEF ReadHeader
  <1>7. CASE SkipPacket \/ ReadRegister \/ WriteFrameData \/ EndOfFile
    BY <1>2, <1>7 DEF SkipPacket, ReadRegister, WriteFrameData, EndOfFile
  <1>8. CASE StartWriting \/ EndScan
    BY <1>2, <1>8 DEF StartWriting, EndScan
  <1>9. CASE OpenRun \/ ExtendRun \/ CloseRun \/ PassFrame
    BY <1>2, <1>9 DEF OpenRun, ExtendRun, CloseRun, PassFrame, Scanning
  <1>10. CASE UNCHANGED vars
    BY <1>2, <1>10 DEF vars
  <1> QED
    BY <1>3, <1>4, <1>5, <1>6, <1>7, <1>8, <1>9, <1>10 DEF Next

\* The inductive invariant of marking holds throughout.
THEOREM MarkInvariantHolds == Spec => []MarkInvariant
  <1>1. Init => MarkInvariant
    BY InitMark
  <1>2. MarkInvariant /\ [Next]_vars => MarkInvariant'
    BY NextMark
  <1> QED BY <1>1, <1>2, PTL DEF Spec

\* The frames of a cell.
CellFrames(d, c, row) == CellStart(d, c, row) .. CellStart(d, c, row) + Minors(d, c) - 1

LEMMA CellFramesAre ==
    ASSUME NEW d, IsDevice(d), NEW c \in 1 .. Len(d.row_layout), NEW row \in 0 .. d.num_rows - 1,
           NEW f
    PROVE  f \in CellFrames(d, c, row) <=>
              /\ f \in Frame(d) /\ DeviceFrame(d)[f] # PadFrame
              /\ DeviceFrame(d)[f].column = c /\ DeviceFrame(d)[f].row = row
  <1> DEFINE device == DeviceFrame(d)
             start == CellStart(d, c, row)
             n == Minors(d, c)
  <1>1. start \in Nat /\ n \in Nat
    <2>1. BlockOf(d, c) \in Nat /\ n \in Nat
      BY ColumnFacts
    <2>2. BlockStart(d, BlockOf(d, c)) \in Nat
      BY <2>1, BlockStartSteps
    <2>3. CellInBlock(d, c, row) \in Nat
      BY FrameOffsetIs
    <2> HIDE DEF n
    <2> QED BY <2>1, <2>2, <2>3 DEF CellStart
  <1>2. ASSUME f \in CellFrames(d, c, row)
        PROVE  f \in Frame(d) /\ device[f] # PadFrame /\ device[f].column = c /\ device[f].row = row
    <2> DEFINE m == f - start
    <2>1. m \in 0 .. n - 1 /\ start + m = f
      <3>1. f \in start .. start + n - 1
        BY <1>2 DEF CellFrames
      <3> HIDE DEF start, n
      <3> QED BY <1>1, <3>1
    <2> HIDE DEF m
    <2>2. f \in Frame(d) /\ device[f] = FrameOf(d, c, row, m)
      BY <2>1, DeviceIsLaidOut DEF Frame
    <2> HIDE DEF device
    <2>3. device[f].column = c /\ device[f].row = row
      BY <2>2 DEF FrameOf
    <2>4. device[f] # PadFrame
      BY <2>3 DEF PadFrame
    <2> QED BY <2>2, <2>3, <2>4
  <1>3. ASSUME f \in Frame(d), device[f] # PadFrame, device[f].column = c, device[f].row = row
        PROVE  f \in CellFrames(d, c, row)
    <2>1. PICK b \in 1 .. Len(d.row_layout), r \in 0 .. d.num_rows - 1 :
             \E m \in 0 .. Minors(d, b) - 1 : f = CellStart(d, b, r) + m
      BY <1>3, DeviceIsLaidOut DEF Frame
    <2>2. PICK m \in 0 .. Minors(d, b) - 1 : f = CellStart(d, b, r) + m
      BY <2>1
    <2>3. device[f] = FrameOf(d, b, r, m)
      BY <2>2, DeviceIsLaidOut
    <2> HIDE DEF device
    <2>4. b = c /\ r = row
      BY <1>3, <2>3 DEF FrameOf
    <2>5. f = start + m /\ m \in 0 .. n - 1
      BY <2>2, <2>4
    <2> HIDE DEF start, n
    <2>6. f \in start .. start + n - 1
      BY <1>1, <2>5
    <2> QED BY <2>6 DEF CellFrames, start, n
  <1> QED BY <1>2, <1>3

\* The column whose frames a tile stands for.
ColumnOfTile(d, t) == XdlColumn(d, t.x) + (IF t.kind = "BRAM" THEN 1 ELSE 0)

LEMMA KindsInMap ==
    ASSUME NEW d, NEW t, InTileMap(d, t)
    PROVE  t.kind \in TileKinds /\ (t.kind = "BRAM" => XdlTileType(d, t.x) = "BRAM_INT")
  BY DEF InTileMap, MappedKinds, TileKinds

\* A tile marks its column, and the clock's, in its clock row.
LEMMA TileMarks ==
    ASSUME NEW d, IsLaidOut(d), NEW t, InTileMap(d, t)
    PROVE  LET row == t.y \div d.frame_height
           IN  /\ row \in 0 .. d.num_rows - 1
               /\ ColumnOfTile(d, t) \in 1 .. Len(d.row_layout)
               /\ Gclk(d) \in 1 .. Len(d.row_layout)
               /\ MarkedBy(d, t) =
                     CellFrames(d, ColumnOfTile(d, t), row) \cup CellFrames(d, Gclk(d), row)
  <1> DEFINE row == t.y \div d.frame_height
             gclk == Gclk(d)
             x == t.x
             y == t.y
  <1>1. IsDevice(d) /\ Len(d.row_layout) \in Nat /\ gclk \in 2 .. Len(d.row_layout)
    BY LayoutFacts, DeviceFacts
  <1>2. x \in 0 .. ChipWidth(d) - 1 /\ y \in 0 .. ChipHeight(d) - 1
    BY DEF InTileMap
  <1>3. row \in 0 .. d.num_rows - 1
    BY <1>1, <1>2, RowOfTile
  <1>4. PICK c : IsColumn(d, x, c)
    BY <1>2, ColumnsOfXdl
  <1>5. XdlColumn(d, x) = c /\ c \in 1 .. Len(d.row_layout) /\ XdlTileType(d, x) = d.row_layout[c]
    <2>1. XdlColumn(d, x) = c
      BY <1>4, XdlColumnIs
    <2>2. XdlTileType(d, x) = d.row_layout[c]
      BY <1>4, ColumnsOfXdl
    <2> QED BY <1>4, <2>1, <2>2 DEF IsColumn
  <1>6. ClockFrames(d, t) = CellFrames(d, gclk, row)
    <2> DEFINE left == TilecoordToMajor(d, GclkIndex(d), y)
               next == [left EXCEPT !.col = @ + 1]
               n == d.tile_frames["GCLK"]
    <2>1. FrameOffset(d, next) = CellStart(d, gclk, row)
      BY <1>2, ClockAddress
    <2>2. Minors(d, gclk) = n
      BY <1>1, LayoutFacts DEF Minors
    <2>3. ClockFrames(d, t) = FrameOffset(d, next) .. FrameOffset(d, next) + n - 1
      BY DEF ClockFrames
    <2> QED BY <2>1, <2>2, <2>3 DEF CellFrames
  <1>7. MarkedBy(d, t) = TileFrames(d, t) \cup CellFrames(d, gclk, row)
    BY <1>6 DEF MarkedBy
  <1>8. CASE t.kind = "BRAM"
    <2>1. d.row_layout[c] = "BRAM_INT"
      BY <1>5, <1>8, KindsInMap
    <2>2. /\ c + 1 \in 1 .. Len(d.row_layout) /\ d.row_layout[c + 1] = "BRAM"
          /\ BramStart(d, x, y) = CellStart(d, c + 1, row)
      BY <1>2, <1>4, <2>1, BramAddress DEF BramStart
    <2>3. ColumnOfTile(d, t) = c + 1
      BY <1>5, <1>8 DEF ColumnOfTile
    <2>4. TileFrames(d, t) = CellFrames(d, c + 1, row)
      BY <1>8, <2>2 DEF TileFrames, CellFrames, Minors
    <2> QED BY <1>1, <1>3, <1>7, <2>2, <2>3, <2>4
  <1>9. CASE t.kind # "BRAM"
    <2>1. TileStart(d, x, y) = CellStart(d, c, row)
      BY <1>2, <1>4, TileAddress DEF TileStart
    <2>2. ColumnOfTile(d, t) = c
      BY <1>5, <1>9 DEF ColumnOfTile
    <2>3. TileFrames(d, t) = CellFrames(d, c, row)
      BY <1>5, <1>9, <2>1 DEF TileFrames, CellFrames, Minors
    <2> QED BY <1>1, <1>3, <1>5, <1>7, <2>2, <2>3
  <1> QED BY <1>8, <1>9

\* What is marked has an address.
LEMMA MarksAreFrames ==
    ASSUME NEW d, IsLaidOut(d), NEW tiles, NEW f \in MarksOf(d, tiles)
    PROVE  f \in Frame(d) /\ DeviceFrame(d)[f] # PadFrame
  <1>1. PICK k \in DOMAIN tiles : f \in MarkedBy(d, tiles[k])
    BY DEF MarksOf
  <1> DEFINE t == tiles[k]
             row == t.y \div d.frame_height
             c == ColumnOfTile(d, t)
  <1>2. InTileMap(d, t)
    BY <1>1 DEF MarkedBy
  <1>3. /\ row \in 0 .. d.num_rows - 1 /\ c \in 1 .. Len(d.row_layout)
        /\ Gclk(d) \in 1 .. Len(d.row_layout)
        /\ f \in CellFrames(d, c, row) \cup CellFrames(d, Gclk(d), row)
    BY <1>1, <1>2, TileMarks
  <1>4. IsDevice(d)
    BY LayoutFacts
  <1> HIDE DEF row, c, t
  <1> QED BY <1>3, <1>4, CellFramesAre

\* What the tiles mark is what the region is to configure.
LEMMA MarksAreRegion ==
    ASSUME NEW d, IsLaidOut(d), NEW tiles, RegionIsOn(d, tiles)
    PROVE  MarksOf(d, tiles) = RegionFrames(d, tiles)
  <1> DEFINE device == DeviceFrame(d)
             Row(k) == tiles[k].y \div d.frame_height
             Col(k) == ColumnOfTile(d, tiles[k])
  <1>1. IsDevice(d)
    BY LayoutFacts
  <1>2. DOMAIN device = Frame(d)
    BY <1>1, DeviceIsLaidOut DEF Frame
  <1>3. RegionFrames(d, tiles) =
           {f \in Frame(d) :
               /\ device[f] # PadFrame
               /\ \E k \in DOMAIN tiles :
                     /\ tiles[k].kind \in TileKinds
                     /\ device[f].row = Row(k)
                     /\ device[f].column = Col(k) \/ d.row_layout[device[f].column] = "GCLK"}
    BY <1>2 DEF RegionFrames, ColumnOfTile, TileKinds
  <1>4. \A f \in Frame(d) : device[f] # PadFrame =>
           (device[f].column \in 1 .. Len(d.row_layout)
              /\ (d.row_layout[device[f].column] = "GCLK" <=> device[f].column = Gclk(d)))
    <2>1. SUFFICES ASSUME NEW f \in Frame(d), device[f] # PadFrame
                   PROVE  device[f].column \in 1 .. Len(d.row_layout)
      BY LayoutFacts
    <2>2. PICK c \in 1 .. Len(d.row_layout), row \in 0 .. d.num_rows - 1 :
             \E m \in 0 .. Minors(d, c) - 1 : f = CellStart(d, c, row) + m
      BY <1>1, <2>1, DeviceIsLaidOut DEF Frame
    <2>3. PICK m \in 0 .. Minors(d, c) - 1 : f = CellStart(d, c, row) + m
      BY <2>2
    <2>4. device[f] = FrameOf(d, c, row, m)
      BY <1>1, <2>3, DeviceIsLaidOut
    <2> HIDE DEF device
    <2> QED BY <2>4 DEF FrameOf
  <1>5. \A k \in DOMAIN tiles : tiles[k].kind \in TileKinds <=> InTileMap(d, tiles[k])
    BY KindsInMap DEF RegionIsOn
  <1>6. \A k \in DOMAIN tiles : InTileMap(d, tiles[k]) =>
           /\ Row(k) \in 0 .. d.num_rows - 1 /\ Col(k) \in 1 .. Len(d.row_layout)
           /\ Gclk(d) \in 1 .. Len(d.row_layout)
           /\ MarkedBy(d, tiles[k]) = CellFrames(d, Col(k), Row(k)) \cup CellFrames(d, Gclk(d), Row(k))
    BY TileMarks
  <1>7. \A k \in DOMAIN tiles : ~InTileMap(d, tiles[k]) => MarkedBy(d, tiles[k]) = {}
    BY DEF MarkedBy
  <1> HIDE DEF device, Row, Col
  <1>8. ASSUME NEW f \in MarksOf(d, tiles)
        PROVE  f \in RegionFrames(d, tiles)
    <2>1. PICK k \in DOMAIN tiles : f \in MarkedBy(d, tiles[k])
      BY DEF MarksOf
    <2>2. InTileMap(d, tiles[k])
      BY <1>7, <2>1
    <2>3. f \in CellFrames(d, Col(k), Row(k)) \/ f \in CellFrames(d, Gclk(d), Row(k))
      BY <1>6, <2>1, <2>2
    <2>4. /\ f \in Frame(d) /\ device[f] # PadFrame /\ device[f].row = Row(k)
          /\ device[f].column = Col(k) \/ device[f].column = Gclk(d)
      BY <1>1, <1>6, <2>2, <2>3, CellFramesAre DEF device
    <2> QED BY <1>3, <1>4, <1>5, <2>2, <2>4
  <1>9. ASSUME NEW f \in RegionFrames(d, tiles)
        PROVE  f \in MarksOf(d, tiles)
    <2>1. f \in Frame(d) /\ device[f] # PadFrame
      BY <1>3
    <2>2. PICK k \in DOMAIN tiles :
             /\ tiles[k].kind \in TileKinds
             /\ device[f].row = Row(k)
             /\ device[f].column = Col(k) \/ d.row_layout[device[f].column] = "GCLK"
      BY <1>3
    <2>3. InTileMap(d, tiles[k])
      BY <1>5, <2>2
    <2>4. device[f].column = Col(k) \/ device[f].column = Gclk(d)
      BY <1>4, <2>1, <2>2
    <2>5. f \in CellFrames(d, Col(k), Row(k)) \/ f \in CellFrames(d, Gclk(d), Row(k))
      BY <1>1, <1>6, <2>1, <2>2, <2>3, <2>4, CellFramesAre DEF device
    <2>6. f \in MarkedBy(d, tiles[k])
      BY <1>6, <2>3, <2>5
    <2> QED BY <2>6 DEF MarksOf
  <1> QED BY <1>8, <1>9

-----------------------------------------------------------------------------
\* The runs have the addresses and the data of their frames.

\* The word for a frame's address.
LEMMA FrameHasWord ==
    ASSUME NEW d, IsDevice(d), AddressesFit(d), NEW f \in Frame(d), DeviceFrame(d)[f] # PadFrame
    PROVE  StructToFar(d, DeviceFrame(d)[f].far) \in Nat
  <1>1. PICK c \in 1 .. Len(d.row_layout), row \in 0 .. d.num_rows - 1 :
           \E m \in 0 .. Minors(d, c) - 1 : f = CellStart(d, c, row) + m
    BY DeviceIsLaidOut DEF Frame
  <1>2. PICK m \in 0 .. Minors(d, c) - 1 : f = CellStart(d, c, row) + m
    BY <1>1
  <1> DEFINE far == FarOf(d, c, row, m)
             n == far.mna
             k == far.col
             r == far.row
             h == far.tb
             t == far.type
  <1>3. DeviceFrame(d)[f].far = far
    <2>1. DeviceFrame(d)[f] = FrameOf(d, c, row, m)
      BY <1>2, DeviceIsLaidOut
    <2> QED BY <2>1 DEF FrameOf
  <1> HIDE DEF far
  <1>4. n \in Nat /\ k \in 0 .. 255 /\ r \in 0 .. 31 /\ h \in 0 .. 1 /\ t \in Nat
    BY FieldsInRange DEF far
  <1>5. StructToFar(d, far) = Word5(n, k, r, h, t) \/ StructToFar(d, far) = Word4(n, k, r, h, t)
    BY WordIs
  <1> HIDE DEF n, k, r, h, t
  <1>6. Word5(n, k, r, h, t) \in Nat /\ Word4(n, k, r, h, t) \in Nat
    BY <1>4 DEF Word5, Word4
  <1> QED BY <1>3, <1>5, <1>6

\* A device has frames.
LEMMA FramesExist == ASSUME NEW d, IsLaidOut(d) PROVE 0 \in Frame(d)
  <1>1. IsDevice(d) /\ Gclk(d) \in 1 .. Len(d.row_layout)
    BY LayoutFacts, DeviceFacts
  <1>2. 0 \in 0 .. d.num_rows - 1
    BY <1>1, DeviceFacts
  <1>3. 0 \in 0 .. Minors(d, Gclk(d)) - 1
    BY <1>1, ColumnFacts
  <1>4. CellStart(d, Gclk(d), 0) + 0 \in 0 .. CfgSize(d) - 1 /\ CfgSize(d) \in Nat
    BY <1>1, <1>2, <1>3, DeviceIsLaidOut
  <1> DEFINE n == CfgSize(d)
             f == CellStart(d, Gclk(d), 0) + 0
  <1>5. f \in 0 .. n - 1 /\ n \in Nat
    BY <1>4
  <1> HIDE DEF n, f
  <1>6. 0 \in 0 .. n - 1
    BY <1>5
  <1> QED BY <1>6 DEF n, Frame

\* The frames marked are the device's, and none of them pads a row.
LEMMA BitmapIsFrames ==
    ASSUME MapInvariant, MarkInvariant, phase \in {"buildPartial", "writeBitstream", "closed"}
    PROVE  /\ dev \in Devices /\ IsLaidOut(dev) /\ AddressesFit(dev) /\ IsDevice(dev)
           /\ CfgSize(dev) \in Nat
           /\ frameBitmap \subseteq Frame(dev)
           /\ \A f \in frameBitmap : /\ DeviceFrame(dev)[f] # PadFrame
                                     /\ findexToFaddr[f] = DeviceFrame(dev)[f].far
                                     /\ StructToFar(dev, findexToFaddr[f]) \in Nat
           /\ phase \in {"writeBitstream", "closed"} => frameBitmap = MarksOf(dev, regionTiles)
  <1>1. /\ dev \in Devices /\ IsLaidOut(dev) /\ AddressesFit(dev) /\ IsDevice(dev)
        /\ \A f \in Frame(dev) : findexToFaddr[f] = DeviceFrame(dev)[f].far
    BY MapIsComplete
  <1>2. CfgSize(dev) \in Nat
    BY <1>1, CfgSizeIsNat
  <1>3. frameBitmap \cup MarksOf(dev, unmarked) = MarksOf(dev, regionTiles)
    BY DEF MarkInvariant
  <1>4. ASSUME NEW f \in frameBitmap
        PROVE  /\ f \in Frame(dev) /\ DeviceFrame(dev)[f] # PadFrame
               /\ findexToFaddr[f] = DeviceFrame(dev)[f].far
               /\ StructToFar(dev, findexToFaddr[f]) \in Nat
    <2>1. f \in MarksOf(dev, regionTiles)
      BY <1>3
    <2>2. f \in Frame(dev) /\ DeviceFrame(dev)[f] # PadFrame
      BY <1>1, <2>1, MarksAreFrames
    <2>3. findexToFaddr[f] = DeviceFrame(dev)[f].far
      BY <1>1, <2>2
    <2> QED BY <1>1, <2>2, <2>3, FrameHasWord
  <1>5. ASSUME phase \in {"writeBitstream", "closed"}
        PROVE  frameBitmap = MarksOf(dev, regionTiles)
    <2>1. unmarked = <<>>
      BY <1>5 DEF MarkInvariant
    <2>2. MarksOf(dev, unmarked) = {}
      BY <2>1 DEF MarksOf
    <2> QED BY <1>3, <2>2
  <1> QED BY <1>1, <1>2, <1>4, <1>5

LEMMA InitRuns == Init => RunsInvariant
  <1> SUFFICES ASSUME Init PROVE RunsInvariant
    OBVIOUS
  <1>1. /\ dev \in Devices /\ phase = "mapBitstream" /\ foundFrame = FALSE /\ contigFrames = 0
        /\ startFrame = 0 /\ tempFAR = 0 /\ runs = <<>> /\ sizeField = 0
    BY DEF Init
  <1>2. CfgSize(dev) \in Nat /\ 0 \in Frame(dev)
    BY <1>1, CfgSizeIsNat, DevicesAssumption, FramesExist
  <1>3. contigFrames \in 0 .. CfgSize(dev) /\ DOMAIN runs = {}
    BY <1>1, <1>2
  <1> QED BY <1>1, <1>2, <1>3 DEF RunsInvariant

\* The run collected, once it is written.
LEMMA RunIsOfItsFrames ==
    ASSUME ScanInvariant, RunsInvariant, phase = "writeBitstream", foundFrame
    PROVE  /\ IsOfItsFrames(Run) /\ contigFrames \in Nat
           /\ \A s : s = Append(runs, Run) =>
                 /\ \A k \in DOMAIN s : IsOfItsFrames(s[k])
                 /\ s \in Seq(ToSet(s))
  <1>1. /\ startFrame \in frameBitmap /\ tempFAR = StructToFar(dev, findexToFaddr[startFrame])
        /\ \A k \in DOMAIN runs : IsOfItsFrames(runs[k])
    BY DEF RunsInvariant
  <1>2. /\ contigFrames \in Nat /\ startFrame \in Nat /\ runs \in Seq(ToSet(runs))
        /\ startFrame < scan /\ contigFrames = scan - startFrame /\ scan \in Nat
    BY CfgSizeIsNat DEF ScanInvariant, ScanTypes, RunInProgress
  <1>3. contigFrames \in Nat \ {0}
    BY <1>2
  <1>4. IsOfItsFrames(Run)
    BY <1>1, <1>3 DEF IsOfItsFrames, Run
  <1>5. ASSUME NEW s, s = Append(runs, Run)
        PROVE  (\A k \in DOMAIN s : IsOfItsFrames(s[k])) /\ s \in Seq(ToSet(s))
    <2> DEFINE r == Run
               n == Len(runs) + 1
    <2>1. s = Append(runs, r)
      BY <1>5
    <2> HIDE DEF r
    <2>2. /\ s \in Seq(ToSet(s)) /\ DOMAIN s = DOMAIN runs \cup {n}
          /\ \A k \in DOMAIN runs : s[k] = runs[k]
          /\ s[n] = r
      BY <1>2, <2>1, AppendRun
    <2> HIDE DEF n
    <2>3. \A k \in DOMAIN s : IsOfItsFrames(s[k])
      <3>1. SUFFICES ASSUME NEW k \in DOMAIN s PROVE IsOfItsFrames(s[k])
        OBVIOUS
      <3>2. CASE k \in DOMAIN runs
        BY <1>1, <2>2, <3>2
      <3>3. CASE k = n
        <4>1. s[k] = Run
          BY <2>2, <3>3 DEF r
        <4> QED BY <1>4, <4>1
      <3> QED BY <2>2, <3>1, <3>2, <3>3
    <2> QED BY <2>2, <2>3
  <1> QED BY <1>2, <1>4, <1>5

\* A file's words can be counted.
LEMMA FileWordsAreNat ==
    ASSUME IsDevice(dev), NEW s, s \in Seq(ToSet(s)),
           \A k \in DOMAIN s : s[k].count \in Nat
    PROVE  FileWords(s) \in Nat
  <1> DEFINE t == [k \in DOMAIN s |-> WordsOf(s[k])]
             words == dev.frame_words
  <1>1. words \in Nat
    BY DEF IsDevice
  <1>2. \A k \in DOMAIN s : WordsOf(s[k]) \in Nat
    <2>1. SUFFICES ASSUME NEW k \in DOMAIN s PROVE WordsOf(s[k]) \in Nat
      OBVIOUS
    <2> DEFINE c == s[k].count
    <2>2. WordsOf(s[k]) = 7 + c * words
      BY DEF WordsOf
    <2>3. c \in Nat
      BY <2>1
    <2> HIDE DEF words, c
    <2>4. c * words \in Nat
      BY <1>1, <2>3
    <2> QED BY <2>2, <2>4
  <1>3. t \in Seq(Nat)
    <2>1. DOMAIN s = 1 .. Len(s) /\ Len(s) \in Nat
      OBVIOUS
    <2> DEFINE n == Len(s)
    <2>2. t \in [1 .. n -> Nat]
      BY <1>2, <2>1
    <2> HIDE DEF t, n
    <2>3. n \in Nat
      BY <2>1 DEF n
    <2> QED BY <2>2, <2>3
  <1> HIDE DEF t
  <1>4. Total(t) \in Nat
    BY <1>3, TotalIsNat
  <1>5. FixedWords \in Nat
    BY DEF FixedWords
  <1>6. FileWords(s) = FixedWords + Total(t)
    BY DEF FileWords, t
  <1> QED BY <1>4, <1>5, <1>6

LEMMA NextRuns ==
    MapInvariant /\ MarkInvariant /\ ScanInvariant /\ RunsInvariant /\ [Next]_vars => RunsInvariant'
  <1> SUFFICES ASSUME MapInvariant, MarkInvariant, ScanInvariant, RunsInvariant, [Next]_vars
               PROVE  RunsInvariant'
    OBVIOUS
  <1>0. ScanInvariant'
    BY NextScan
  <1>1. /\ phase = "writeBitstream" /\ foundFrame =>
              startFrame \in frameBitmap /\ tempFAR = StructToFar(dev, findexToFaddr[startFrame])
        /\ \A k \in DOMAIN runs : IsOfItsFrames(runs[k])
        /\ phase = "closed" => scan = CfgSize(dev) /\ Awaiting \subseteq Written
        /\ contigFrames \in 0 .. CfgSize(dev) /\ startFrame \in Frame(dev)
        /\ tempFAR \in Nat /\ sizeField \in Nat
    BY DEF RunsInvariant
  <1>2. CASE phase \notin {"writeBitstream", "closed"} /\ dev' = dev /\ phase' # "closed" /\ UNCHANGED scanVars
    <2>1. /\ scan' = scan /\ foundFrame' = foundFrame /\ contigFrames' = contigFrames
          /\ startFrame' = startFrame /\ tempFAR' = tempFAR /\ runs' = runs /\ sizeField' = sizeField
      BY <1>2 DEF scanVars
    <2>2. ~foundFrame /\ runs = <<>>
      BY <1>2 DEF ScanInvariant, NothingScanned
    <2>3. ~foundFrame' /\ DOMAIN runs' = {}
      BY <2>1, <2>2
    <2> QED BY <1>1, <1>2, <2>1, <2>3 DEF RunsInvariant
  <1>3. ASSUME UNCHANGED <<dev, frames, findexToFaddr, frameBitmap>>, NEW run, IsOfItsFrames(run)
        PROVE  IsOfItsFrames(run)'
    BY <1>3 DEF IsOfItsFrames
  <1>4. ASSUME phase = "writeBitstream", phase' = "writeBitstream",
               UNCHANGED <<dev, frames, findexToFaddr, frameBitmap, sizeField>>,
               \A k \in DOMAIN runs' : IsOfItsFrames(runs'[k]),
               foundFrame' => /\ startFrame' \in frameBitmap
                              /\ tempFAR' = StructToFar(dev, findexToFaddr[startFrame']),
               startFrame' \in Frame(dev), tempFAR' \in Nat
        PROVE  RunsInvariant'
    <2>1. \A k \in DOMAIN runs' : IsOfItsFrames(runs[k])'
      BY <1>4 DEF IsOfItsFrames
    <2>2. contigFrames' \in 0 .. CfgSize(dev)
      <3>1. /\ contigFrames' \in Nat /\ startFrame' \in Nat /\ scan' \in 0 .. CfgSize(dev)
            /\ foundFrame' => contigFrames' = scan' - startFrame'
            /\ ~foundFrame' => contigFrames' = 0
        BY <1>0, <1>4 DEF ScanInvariant, ScanTypes, RunInProgress
      <3>2. CfgSize(dev) \in Nat
        BY CfgSizeIsNat DEF ScanInvariant, ScanTypes
      <3> DEFINE n == CfgSize(dev)
                 c == contigFrames'
                 s == startFrame'
                 e == scan'
      <3>3. n \in Nat /\ e \in 0 .. n /\ c \in Nat /\ s \in Nat /\ (c = e - s \/ c = 0)
        <4>1. foundFrame' \in BOOLEAN
          BY <1>0 DEF ScanInvariant, ScanTypes
        <4> QED BY <1>4, <3>1, <3>2, <4>1
      <3> HIDE DEF n, c, s, e
      <3>4. c \in 0 .. n
        BY <3>3
      <3> QED BY <1>4, <3>4 DEF n, c
    <2> QED BY <1>1, <1>4, <2>1, <2>2 DEF RunsInvariant
  <1>5. CASE OpenRun
    <2>1. /\ phase = "writeBitstream" /\ scan \in frameBitmap /\ startFrame' = scan
          /\ tempFAR' = StructToFar(dev, findexToFaddr[scan]) /\ phase' = phase /\ runs' = runs
          /\ UNCHANGED <<dev, frames, findexToFaddr, frameBitmap, sizeField>>
      BY <1>5 DEF OpenRun, Scanning, mapVars, markVars
    <2>2. scan \in Frame(dev) /\ StructToFar(dev, findexToFaddr[scan]) \in Nat
      BY <2>1, BitmapIsFrames
    <2> QED BY <1>1, <1>4, <2>1, <2>2
  <1>6. CASE ExtendRun
    <2>1. /\ phase = "writeBitstream" /\ foundFrame /\ startFrame' = startFrame
          /\ tempFAR' = tempFAR /\ phase' = phase /\ runs' = runs
          /\ UNCHANGED <<dev, frames, findexToFaddr, frameBitmap, sizeField>>
      BY <1>6 DEF ExtendRun, Scanning, mapVars, markVars
    <2> QED BY <1>1, <1>4, <2>1
  <1>7. CASE PassFrame
    <2>1. /\ phase = "writeBitstream" /\ ~foundFrame /\ foundFrame' = foundFrame
          /\ startFrame' = startFrame
          /\ tempFAR' = tempFAR /\ phase' = phase /\ runs' = runs
          /\ UNCHANGED <<dev, frames, findexToFaddr, frameBitmap, sizeField>>
      BY <1>7 DEF PassFrame, Scanning, mapVars, markVars
    <2> QED BY <1>1, <1>4, <2>1
  <1>8. CASE CloseRun
    <2>1. /\ phase = "writeBitstream" /\ foundFrame /\ ~foundFrame'
          /\ startFrame' = startFrame
          /\ tempFAR' = tempFAR /\ phase' = phase /\ runs' = Append(runs, Run)
          /\ UNCHANGED <<dev, frames, findexToFaddr, frameBitmap, sizeField>>
      BY <1>8 DEF CloseRun, Scanning, mapVars, markVars
    <2>2. \A k \in DOMAIN runs' : IsOfItsFrames(runs'[k])
      BY <2>1, RunIsOfItsFrames
    <2> QED BY <1>1, <1>4, <2>1, <2>2
  <1>9. CASE EndScan
    <2>1. /\ phase = "writeBitstream" /\ phase' = "closed" /\ scan = CfgSize(dev)
          /\ runs' = IF foundFrame THEN Append(runs, Run) ELSE runs
          /\ sizeField' = IF dev.family = "Virtex5" THEN 4 * FileWords(runs') ELSE sizeField
          /\ UNCHANGED <<dev, frames, findexToFaddr, frameBitmap, scan, foundFrame,
                         contigFrames, startFrame, tempFAR>>
      BY <1>9 DEF EndScan, mapVars, markVars
    <2>2. \A k \in DOMAIN runs' : IsOfItsFrames(runs'[k])
      <3>1. CASE foundFrame
        BY <2>1, <3>1, RunIsOfItsFrames
      <3>2. CASE ~foundFrame
        BY <1>1, <2>1, <3>2
      <3> QED BY <3>1, <3>2
    <2>3. \A k \in DOMAIN runs' : IsOfItsFrames(runs[k])'
      BY <2>1, <2>2 DEF IsOfItsFrames
    <2>4. FileWords(runs') \in Nat
      <3>1. runs' \in Seq(ToSet(runs')) /\ \A k \in DOMAIN runs' : runs'[k].count \in Nat
        BY <1>0 DEF ScanInvariant, ScanTypes
      <3>2. IsDevice(dev)
        BY <2>1, BitmapIsFrames
      <3> QED BY <3>1, <3>2, FileWordsAreNat
    <2>5. sizeField' \in Nat
      <3> DEFINE n == FileWords(runs')
      <3>1. n \in Nat
        BY <2>4
      <3>2. sizeField' = 4 * n \/ sizeField' = sizeField
        BY <2>1
      <3> HIDE DEF n
      <3> QED BY <1>1, <3>1, <3>2
    <2>6. Awaiting' \subseteq Written'
      <3>1. CASE foundFrame
        <4>1. runs' = Append(runs, Run) /\ Awaiting' = startFrame .. scan - 1
          BY <2>1, <3>1 DEF Awaiting
        <4>2. ScanTypes /\ RunInProgress /\ RunsAreApart /\ scan \in Nat
          BY <2>1, CfgSizeIsNat DEF ScanInvariant, ScanTypes
        <4>3. Written' = Written \cup (startFrame .. scan - 1)
          BY <3>1, <4>1, <4>2, AppendedRun
        <4> QED BY <4>1, <4>3
      <3>2. CASE ~foundFrame
        BY <2>1, <3>2 DEF Awaiting
      <3> QED BY <3>1, <3>2
    <2> QED BY <1>1, <2>1, <2>3, <2>5, <2>6 DEF RunsInvariant
  <1>10. CASE MapNextTile \/ AllTilesMapped \/ MapNextClockRow
    BY <1>2, <1>10 DEF MapNextTile, AllTilesMapped, MapNextClockRow
  <1>11. CASE \E asExpected \in BOOLEAN : ReadHeader(asExpected)
    BY <1>2, <1>11 DEF ReadHeader
  <1>12. CASE SkipPacket \/ ReadRegister \/ WriteFrameData \/ EndOfFile
    BY <1>2, <1>12 DEF SkipPacket, ReadRegister, WriteFrameData, EndOfFile
  <1>13. CASE \E tiles \in Regions : BuildPartial(tiles)
    BY <1>2, <1>13 DEF BuildPartial
  <1>14. CASE MarkTile \/ StartWriting
    BY <1>2, <1>14 DEF MarkTile, StartWriting
  <1>15. CASE UNCHANGED vars
    <2>1. /\ UNCHANGED <<dev, phase, frames, findexToFaddr, frameBitmap>>
          /\ UNCHANGED <<scan, foundFrame, contigFrames, startFrame, tempFAR, runs, sizeField>>
      BY <1>15 DEF vars, mapVars, markVars, scanVars
    <2>2. \A k \in DOMAIN runs' : IsOfItsFrames(runs[k])'
      BY <1>1, <2>1 DEF IsOfItsFrames
    <2>3. Awaiting' = Awaiting /\ Written' = Written
      BY <2>1 DEF Awaiting, Written, RunFrames
    <2> QED BY <1>1, <2>1, <2>2, <2>3 DEF RunsInvariant
  <1> QED
    BY <1>5, <1>6, <1>7, <1>8, <1>9, <1>10, <1>11, <1>12, <1>13, <1>14, <1>15 DEF Next

\* The inductive invariant of the runs holds throughout.
THEOREM RunsInvariantHolds == Spec => []RunsInvariant
  <1>1. Init => RunsInvariant
    BY InitRuns
  <1>2. MapInvariant /\ MarkInvariant /\ ScanInvariant /\ RunsInvariant /\ [Next]_vars => RunsInvariant'
    BY NextRuns
  <1> QED BY <1>1, <1>2, MapInvariantHolds, MarkInvariantHolds, ScanInvariantHolds, PTL DEF Spec

-----------------------------------------------------------------------------
\* What the device makes of the file.

\* All the inductive invariants hold throughout.
THEOREM AllInvariantsHold == Spec => []IInv
  <1>1. MapInvariant /\ LoadInvariant /\ MarkInvariant /\ ScanInvariant /\ RunsInvariant
           => IInv
    BY DEF IInv
  <1> QED
    BY <1>1, MapInvariantHolds, LoadInvariantHolds, MarkInvariantHolds, ScanInvariantHolds,
       RunsInvariantHolds, PTL

Phases == {"mapBitstream", "buildGCLKItoaMap", "loadFile", "readPackets", "buildPartial",
           "writeBitstream", "closed"}

LEMMA TypesFollow ==
    ASSUME IInv, phase \in Phases, mapped \in Nat
    PROVE  TypeOK
  <1>1. MapInvariant /\ LoadInvariant /\ MarkInvariant /\ ScanInvariant /\ RunsInvariant
    BY DEF IInv
  <1>2. dev \in Devices /\ IsDevice(dev)
    BY <1>1, DevicesAssumption, LayoutFacts DEF MapInvariant
  <1>3. DOMAIN findexToFaddr = Frame(dev)
    <2>1. \E cells : findexToFaddr = AddressesOf(dev, cells)
      BY <1>1 DEF MapInvariant
    <2> QED BY <2>1 DEF AddressesOf
  <1>4. /\ DOMAIN frames = Frame(dev) /\ \A f \in Frame(dev) : frames[f] \in Contents
        /\ loaded \in BOOLEAN /\ farRegister \in Nat
    BY <1>1 DEF LoadInvariant
  <1>5. frameBitmap \subseteq Frame(dev)
    <2>1. CASE phase \in {"buildPartial", "writeBitstream", "closed"}
      BY <1>1, <2>1, BitmapIsFrames
    <2>2. CASE phase \notin {"buildPartial", "writeBitstream", "closed"}
      BY <1>1, <2>2 DEF MarkInvariant
    <2> QED BY <2>1, <2>2
  <1>6. scan \in 0 .. CfgSize(dev) /\ foundFrame \in BOOLEAN
    BY <1>1 DEF ScanInvariant, ScanTypes
  <1>7. /\ contigFrames \in 0 .. CfgSize(dev) /\ startFrame \in Frame(dev) /\ tempFAR \in Nat
        /\ sizeField \in Nat /\ \A k \in DOMAIN runs : runs[k].first \in frameBitmap
    BY <1>1 DEF RunsInvariant, IsOfItsFrames
  <1> QED BY <1>2, <1>3, <1>4, <1>5, <1>6, <1>7 DEF TypeOK, Phases

\* Types: the bits set, the frames written and the words counted are always the device's.
THEOREM TypeOKAlways == Spec => []TypeOK
  <1> DEFINE Typed == phase \in Phases /\ mapped \in Nat
  <1>1. Init => Typed
    BY DEF Init, Phases
  <1>2. Typed /\ [Next]_vars => Typed'
    <2> SUFFICES ASSUME Typed, [Next]_vars PROVE Typed'
      OBVIOUS
    <2>1. CASE MapNextTile \/ AllTilesMapped \/ MapNextClockRow
      BY <2>1 DEF MapNextTile, AllTilesMapped, MapNextClockRow, Phases
    <2>2. CASE \E asExpected \in BOOLEAN : ReadHeader(asExpected)
      BY <2>2 DEF ReadHeader, Phases, mapVars
    <2>3. CASE SkipPacket \/ ReadRegister \/ WriteFrameData \/ EndOfFile
      BY <2>3 DEF SkipPacket, ReadRegister, WriteFrameData, EndOfFile, mapVars
    <2>4. CASE \E tiles \in Regions : BuildPartial(tiles)
      BY <2>4 DEF BuildPartial, Phases, mapVars
    <2>5. CASE MarkTile \/ StartWriting \/ EndScan
      BY <2>5 DEF MarkTile, StartWriting, EndScan, Phases, mapVars
    <2>6. CASE OpenRun \/ ExtendRun \/ CloseRun \/ PassFrame
      BY <2>6 DEF OpenRun, ExtendRun, CloseRun, PassFrame, mapVars
    <2>7. CASE UNCHANGED vars
      BY <2>7 DEF vars, mapVars
    <2> QED BY <2>1, <2>2, <2>3, <2>4, <2>5, <2>6, <2>7 DEF Next
  <1>3. IInv /\ Typed => TypeOK
    BY TypesFollow
  <1> QED BY <1>1, <1>2, <1>3, AllInvariantsHold, PTL DEF Spec

\* The frames a device writes, from the file, are those of the runs, with the runs' data.
LEMMA DeviceWritesRuns ==
    ASSUME IInv, phase = "closed"
    PROVE  /\ \A w \in DeviceWrites : /\ w.frame \in frameBitmap /\ w.frame \in Frame(dev)
                                      /\ w.contents = frames[w.frame]
           /\ \A f \in frameBitmap : \E w \in DeviceWrites : w.frame = f
  <1> DEFINE device == DeviceFrame(dev)
             At(far) == CHOOSE f \in DOMAIN device :
                            device[f] # PadFrame /\ StructToFar(dev, device[f].far) = far
             Sent(k, j) == [frame |-> At(runs[k].far) + j - 1, contents |-> runs[k].data[j]]
  <1>1. MapInvariant /\ MarkInvariant /\ ScanInvariant /\ RunsInvariant
    BY DEF IInv
  <1>2. /\ IsDevice(dev) /\ AddressesFit(dev) /\ CfgSize(dev) \in Nat
        /\ frameBitmap \subseteq Frame(dev)
        /\ \A f \in frameBitmap : /\ device[f] # PadFrame
                                  /\ findexToFaddr[f] = device[f].far
    <2>1. phase \in {"buildPartial", "writeBitstream", "closed"}
      OBVIOUS
    <2> QED BY <1>1, <2>1, BitmapIsFrames
  <1>3. DOMAIN device = Frame(dev)
    BY <1>2, DeviceIsLaidOut DEF Frame
  <1>4. DeviceWrites = UNION {{Sent(k, j) : j \in DOMAIN runs[k].data} : k \in DOMAIN runs}
    BY DEF DeviceWrites
  <1>5. \A k \in DOMAIN runs :
           /\ runs[k].first \in frameBitmap /\ runs[k].count \in Nat \ {0}
           /\ runs[k].far = StructToFar(dev, findexToFaddr[runs[k].first])
           /\ runs[k].data = [j \in 1 .. runs[k].count |-> frames[runs[k].first + j - 1]]
    BY <1>1 DEF RunsInvariant, IsOfItsFrames
  <1>0. \A k \in DOMAIN runs : runs[k].first \in Int /\ runs[k].count \in Nat
    <2>1. Frame(dev) \subseteq Int
      BY <1>2 DEF Frame
    <2>2. \A k \in DOMAIN runs : runs[k].first \in frameBitmap /\ runs[k].count \in Nat
      BY <1>5
    <2>3. frameBitmap \subseteq Int
      BY <1>2, <2>1
    <2> QED BY <2>2, <2>3
  <1>6. \A k \in DOMAIN runs : At(runs[k].far) = runs[k].first
    <2>1. SUFFICES ASSUME NEW k \in DOMAIN runs PROVE At(runs[k].far) = runs[k].first
      OBVIOUS
    <2> DEFINE first == runs[k].first
               far == runs[k].far
               Has(f) == device[f] # PadFrame /\ StructToFar(dev, device[f].far) = far
    <2>2. first \in frameBitmap /\ far = StructToFar(dev, findexToFaddr[first])
      BY <1>5
    <2>3. first \in DOMAIN device /\ Has(first)
      BY <1>2, <1>3, <2>2
    <2> HIDE DEF first, far
    <2>4. \A f \in DOMAIN device : Has(f) => f = first
      BY <1>2, <1>3, <2>3, FramesTellApart
    <2>5. At(far) = CHOOSE f \in DOMAIN device : Has(f)
      OBVIOUS
    <2> HIDE DEF Has
    <2>6. At(far) = first
      <3> HIDE DEF At
      <3> QED BY <2>3, <2>4, <2>5
    <2> QED BY <2>6 DEF first, far
  <1> HIDE DEF At
  <1>7. Written = frameBitmap
    <2>1. Written \cup Awaiting = frameBitmap \cap (0 .. scan - 1)
      BY <1>1 DEF ScanInvariant, ScanKeepsBitmap
    <2>2. scan = CfgSize(dev) /\ Awaiting \subseteq Written
      BY <1>1 DEF RunsInvariant
    <2>3. frameBitmap \subseteq 0 .. scan - 1
      BY <1>2, <2>2 DEF Frame
    <2> QED BY <2>1, <2>2, <2>3
  <1>8. ASSUME NEW k \in DOMAIN runs, NEW j \in 1 .. runs[k].count
        PROVE  /\ runs[k].first + j - 1 \in RunFrames(runs[k])
               /\ Sent(k, j) = [frame |-> runs[k].first + j - 1,
                                contents |-> frames[runs[k].first + j - 1]]
               /\ j \in DOMAIN runs[k].data
    <2> DEFINE first == runs[k].first
               count == runs[k].count
    <2>1. first \in Int /\ count \in Nat
      BY <1>0
    <2>2. runs[k].data[j] = frames[first + j - 1] /\ j \in DOMAIN runs[k].data
      BY <1>5
    <2>3. j \in 1 .. count
      OBVIOUS
    <2>4. Sent(k, j) = [frame |-> first + j - 1, contents |-> frames[first + j - 1]]
      BY <1>6, <2>2
    <2> HIDE DEF first, count, Sent
    <2>5. first + j - 1 \in first .. first + count - 1
      BY <2>1, <2>3
    <2> QED BY <2>2, <2>4, <2>5 DEF RunFrames, first, count
  <1> HIDE DEF Sent, device
  <1>9. ASSUME NEW w \in DeviceWrites
        PROVE  w.frame \in frameBitmap /\ w.frame \in Frame(dev) /\ w.contents = frames[w.frame]
    <2>1. PICK k \in DOMAIN runs : \E j \in DOMAIN runs[k].data : w = Sent(k, j)
      BY <1>4
    <2>2. PICK j \in 1 .. runs[k].count : w = Sent(k, j)
      BY <1>5, <2>1
    <2>3. w.frame \in RunFrames(runs[k]) /\ w.contents = frames[w.frame]
      BY <1>8, <2>2
    <2>4. w.frame \in Written
      BY <2>3 DEF Written
    <2> QED BY <1>2, <1>7, <2>3, <2>4
  <1>10. ASSUME NEW f \in frameBitmap
         PROVE  \E w \in DeviceWrites : w.frame = f
    <2>1. PICK k \in DOMAIN runs : f \in RunFrames(runs[k])
      BY <1>7 DEF Written
    <2> DEFINE first == runs[k].first
               count == runs[k].count
               j == f - first + 1
    <2>2. first \in Int /\ count \in Nat /\ f \in first .. first + count - 1
      BY <1>0, <2>1 DEF RunFrames
    <2> HIDE DEF first, count
    <2>3. j \in 1 .. count /\ first + j - 1 = f
      BY <2>2
    <2> HIDE DEF j
    <2>4. Sent(k, j).frame = f /\ j \in DOMAIN runs[k].data
      BY <1>8, <2>3 DEF first, count
    <2>5. Sent(k, j) \in DeviceWrites
      BY <1>4, <2>4
    <2> QED BY <2>4, <2>5
  <1> QED BY <1>9, <1>10

\* A device that is sent the partial bitstream configures the frames of the region and of
\* its clock, and no others: for every region whose tiles the device has, and also when the
\* full bitstream could not be parsed.
THEOREM DeviceGetsRegionAlways == Spec => [](RegionIsOn(dev, regionTiles) => DeviceGetsRegion)
  <1>1. ASSUME IInv, RegionIsOn(dev, regionTiles), phase = "closed"
        PROVE  {w.frame : w \in DeviceWrites} = RegionFrames(dev, regionTiles)
    <2>1. IsLaidOut(dev) /\ frameBitmap = MarksOf(dev, regionTiles)
      <3>1. phase \in {"buildPartial", "writeBitstream", "closed"} /\ MapInvariant /\ MarkInvariant
        BY <1>1 DEF IInv
      <3> QED BY <1>1, <3>1, BitmapIsFrames
    <2>2. frameBitmap = RegionFrames(dev, regionTiles)
      BY <1>1, <2>1, MarksAreRegion
    <2>3. {w.frame : w \in DeviceWrites} = frameBitmap
      BY <1>1, DeviceWritesRuns
    <2> QED BY <2>2, <2>3
  <1>2. IInv => (RegionIsOn(dev, regionTiles) => DeviceGetsRegion)
    BY <1>1 DEF DeviceGetsRegion
  <1> QED BY <1>2, AllInvariantsHold, PTL

\* On Virtex-5 the data it configures them with is the full bitstream's own, frame for frame,
\* if loadFile did not fail.
THEOREM FramesAreSourceOnV5Always == Spec => []FramesAreSourceOnV5
  <1>1. ASSUME IInv, dev.family = "Virtex5", phase = "closed", loaded
        PROVE  \A w \in DeviceWrites : w.contents = Raw(w.frame)
    <2>1. SourceIsIn
      BY <1>1 DEF IInv, LoadInvariant
    <2>2. \A f \in Frame(dev) : frames[f] = Raw(f)
      BY <1>1, <2>1 DEF SourceIsIn
    <2> QED BY <1>1, <2>2, DeviceWritesRuns
  <1>2. IInv => FramesAreSourceOnV5
    BY <1>1 DEF FramesAreSourceOnV5, FramesAreSource
  <1> QED BY <1>2, AllInvariantsHold, PTL
=============================================================================
