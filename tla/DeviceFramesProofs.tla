-------------------------- MODULE DeviceFramesProofs --------------------------
(***************************************************************************)
(* Where a device has the frames of a column in a clock row: of one block  *)
(* of memory, in a row, in the block, and among all.                       *)
(***************************************************************************)
EXTENDS DeviceFrames, Induction

\* Addresses and frames of a device, for the sequences of them.
Address   == [type : Int, tb : Int, row : Int, col : Int, mna : Int]
FrameType == [far : Address, column : Int, row : Int]

LEMMA DeviceFacts ==
    ASSUME NEW d, IsDevice(d)
    PROVE  /\ d.row_layout \in Seq(TileTypes) /\ Len(d.row_layout) \in Nat
           /\ \A t \in TileTypes : /\ d.tile_frames[t] \in Nat /\ d.tile_frames[t] > 0
                                   /\ d.block_type[t] \in 0 .. d.num_blk_types - 1
                                   /\ d.block_type[t] \in Nat
           /\ d.num_rows \in Nat /\ d.num_blk_types \in Nat /\ d.num_blk_types > 0
           /\ d.num_rows \div 2 \in Nat /\ d.num_rows = 2 * (d.num_rows \div 2)
           /\ d.num_rows \div 2 > 0
           /\ d.frame_height \in Nat /\ d.frame_height > 0
           /\ \A c \in 1 .. Len(d.row_layout) : d.row_layout[c] \in TileTypes
  <1>1. d.row_layout \in Seq(TileTypes)
    BY DEF IsDevice
  <1>2. Len(d.row_layout) \in Nat /\ \A c \in 1 .. Len(d.row_layout) : d.row_layout[c] \in TileTypes
    BY <1>1
  <1>3. d.num_rows \in Nat /\ d.num_rows > 0 /\ d.num_rows % 2 = 0
    BY DEF IsDevice
  <1>4. /\ d.num_rows \div 2 \in Nat /\ d.num_rows = 2 * (d.num_rows \div 2)
        /\ d.num_rows \div 2 > 0
    BY <1>3
  <1>5. \A t \in TileTypes : /\ d.tile_frames[t] \in Nat /\ d.tile_frames[t] > 0
                             /\ d.block_type[t] \in 0 .. d.num_blk_types - 1
                             /\ d.num_blk_types \in Nat /\ d.num_blk_types > 0
    BY DEF IsDevice
  <1>6. \A t \in TileTypes : d.block_type[t] \in Nat
    BY <1>5
  <1> QED BY <1>1, <1>2, <1>3, <1>4, <1>5, <1>6 DEF IsDevice

-----------------------------------------------------------------------------
\* The frames of one block in a row.

\* In the columns up to the n-th.
Before(d, type, n) == FramesOf(d, Selected(SubSeq(d.row_layout, 1, n), InBlock(d, type)))

LEMMA FramesAppended ==
    ASSUME NEW d, IsDevice(d), NEW s \in Seq(TileTypes), NEW e \in TileTypes,
           NEW t, t = Append(s, e)
    PROVE  FramesOf(d, s) \in Nat /\ FramesOf(d, t) = FramesOf(d, s) + d.tile_frames[e]
  <1> DEFINE f == [i \in DOMAIN s |-> d.tile_frames[s[i]]]
             g == [i \in DOMAIN t |-> d.tile_frames[t[i]]]
  <1>1. \A u \in TileTypes : d.tile_frames[u] \in Nat
    BY DeviceFacts
  <1>2. f \in Seq(Nat)
    BY <1>1
  <1>3. g = Append(f, d.tile_frames[e])
    BY <1>1
  <1>4. d.tile_frames[e] \in Nat
    BY <1>1
  <1> HIDE DEF f, g
  <1>5. Total(f) \in Nat /\ Total(g) = Total(f) + d.tile_frames[e]
    BY <1>2, <1>3, <1>4, TotalAppended
  <1> QED BY <1>5 DEF f, g, FramesOf

LEMMA BeforeSteps ==
    ASSUME NEW d, IsDevice(d), NEW type
    PROVE  /\ Before(d, type, 0) = 0
           /\ \A n \in 0 .. Len(d.row_layout) : Before(d, type, n) \in Nat
           /\ \A n \in 0 .. Len(d.row_layout) - 1 :
                 Before(d, type, n + 1) = Before(d, type, n)
                    + (IF d.block_type[d.row_layout[n + 1]] = type
                       THEN d.tile_frames[d.row_layout[n + 1]] ELSE 0)
           /\ RowWidth(d, type) = Before(d, type, Len(d.row_layout)) + 2
           /\ RowWidth(d, type) \in Nat
  <1> DEFINE L == d.row_layout
             S == InBlock(d, type)
             Sel(n) == Selected(SubSeq(L, 1, n), S)
  <1>1. L \in Seq(TileTypes) /\ Len(L) \in Nat /\ \A c \in 1 .. Len(L) : L[c] \in TileTypes
    BY DeviceFacts
  <1> HIDE DEF L
  <1>2. ASSUME NEW n \in 0 .. Len(L)
        PROVE  Sel(n) \in Seq(TileTypes)
    BY <1>1, SelectedElements
  <1>3. Sel(0) = <<>>
    BY <1>1, SelectedNone
  <1>4. Before(d, type, 0) = 0
    <2>1. [i \in DOMAIN <<>> |-> d.tile_frames[<<>>[i]]] = <<>>
      OBVIOUS
    <2> QED BY <1>3, <2>1, TotalOfNone DEF Before, FramesOf, L
  <1>5. ASSUME NEW n \in 0 .. Len(L)
        PROVE  Before(d, type, n) \in Nat
    <2>1. "CLB" \in TileTypes
      BY DEF TileTypes
    <2> DEFINE s == Sel(n)
               t == Append(s, "CLB")
    <2>2. s \in Seq(TileTypes) /\ t = Append(s, "CLB")
      BY <1>2
    <2> HIDE DEF s, t
    <2>3. FramesOf(d, s) \in Nat
      BY <2>1, <2>2, FramesAppended
    <2> QED BY <2>3 DEF s, Before, L
  <1>6. ASSUME NEW n \in 0 .. Len(L) - 1
        PROVE  Before(d, type, n + 1) = Before(d, type, n)
                  + (IF d.block_type[L[n + 1]] = type THEN d.tile_frames[L[n + 1]] ELSE 0)
    <2> DEFINE s == Sel(n)
               t == Sel(n + 1)
               e == L[n + 1]
    <2>1. n \in 0 .. Len(L) /\ n + 1 \in 1 .. Len(L) /\ e \in TileTypes
      BY <1>1
    <2>2. (e \in S => t = Append(s, e)) /\ (e \notin S => t = s)
      BY <1>1, SelectedStep
    <2>3. s \in Seq(TileTypes)
      BY <1>2, <2>1
    <2>4. e \in S <=> d.block_type[e] = type
      BY <2>1 DEF InBlock
    <2>5. Before(d, type, n) = FramesOf(d, s) /\ Before(d, type, n + 1) = FramesOf(d, t)
      BY DEF Before, L
    <2>6. Before(d, type, n) \in Nat
      BY <1>5, <2>1
    <2> HIDE DEF s, t, e, S
    <2>7. CASE e \in S
      <3>1. t = Append(s, e)
        BY <2>2, <2>7
      <3>2. FramesOf(d, t) = FramesOf(d, s) + d.tile_frames[e]
        BY <2>1, <2>3, <3>1, FramesAppended
      <3> QED BY <2>4, <2>5, <2>7, <3>2 DEF e
    <2>8. CASE e \notin S
      <3>1. Before(d, type, n + 1) = Before(d, type, n) + 0
        BY <2>2, <2>5, <2>6, <2>8
      <3> QED BY <2>4, <2>8, <3>1 DEF e
    <2> QED BY <2>7, <2>8
  <1>7. RowWidth(d, type) = Before(d, type, Len(L)) + 2
    <2>1. Sel(Len(L)) = Selected(L, S)
      BY <1>1, SelectedAll
    <2> QED BY <2>1 DEF RowWidth, ColumnsOf, PadFrames, Before, L
  <1>8. Before(d, type, Len(L)) \in Nat
    BY <1>1, <1>5
  <1> QED BY <1>1, <1>4, <1>5, <1>6, <1>7, <1>8 DEF L

\* What the device has at a column, a clock row and a minor address.
BlockOf(d, c) == d.block_type[d.row_layout[c]]
Minors(d, c)  == d.tile_frames[d.row_layout[c]]
FarOf(d, c, row, m) ==
    [type |-> BlockOf(d, c),
     tb   |-> IF row < d.num_rows \div 2 THEN 1 ELSE 0,
     row  |-> IF row < d.num_rows \div 2 THEN d.num_rows \div 2 - 1 - row
              ELSE row - d.num_rows \div 2,
     col  |-> Count(d.row_layout, InBlock(d, BlockOf(d, c)), c - 1),
     mna  |-> m]
FrameOf(d, c, row, m) == [far |-> FarOf(d, c, row, m), column |-> c, row |-> row]

LEMMA FrameOfType ==
    ASSUME NEW d, IsDevice(d), NEW c \in 1 .. Len(d.row_layout), NEW row \in Int, NEW m \in Int
    PROVE  /\ FrameOf(d, c, row, m) \in FrameType
           /\ Count(d.row_layout, InBlock(d, BlockOf(d, c)), c - 1) \in Nat
           /\ BlockOf(d, c) \in 0 .. d.num_blk_types - 1 /\ BlockOf(d, c) \in Nat
           /\ Minors(d, c) \in Nat /\ Minors(d, c) > 0
  <1>1. /\ d.row_layout \in Seq(TileTypes) /\ d.row_layout[c] \in TileTypes
        /\ d.num_rows \div 2 \in Nat /\ d.num_blk_types \in Nat
    BY DeviceFacts
  <1>2. /\ BlockOf(d, c) \in 0 .. d.num_blk_types - 1 /\ BlockOf(d, c) \in Nat
        /\ Minors(d, c) \in Nat /\ Minors(d, c) > 0
    BY <1>1, DeviceFacts DEF BlockOf, Minors
  <1>3. c - 1 \in 0 .. Len(d.row_layout)
    BY <1>1
  <1>4. Count(d.row_layout, InBlock(d, BlockOf(d, c)), c - 1) \in Nat
    BY <1>1, <1>3, CountSteps
  <1>5. FarOf(d, c, row, m) \in Address
    BY <1>1, <1>2, <1>4 DEF FarOf, Address
  <1> QED BY <1>2, <1>4, <1>5 DEF FrameOf, FrameType

LEMMA ColumnFacts ==
    ASSUME NEW d, IsDevice(d), NEW c \in 1 .. Len(d.row_layout)
    PROVE  /\ BlockOf(d, c) \in 0 .. d.num_blk_types - 1 /\ BlockOf(d, c) \in Nat
           /\ Minors(d, c) \in Nat /\ Minors(d, c) > 0
  <1>1. 0 \in Int
    OBVIOUS
  <1> QED BY <1>1, FrameOfType

LEMMA PadFrameType == PadFrame \in FrameType
  BY DEF PadFrame, NoAddress, FrameType, Address

LEMMA ColumnFramesAre ==
    ASSUME NEW d, IsDevice(d), NEW c \in 1 .. Len(d.row_layout), NEW row \in Int
    PROVE  LET s == ColumnFrames(d, BlockOf(d, c), row, c)
           IN  /\ s \in Seq(FrameType) /\ Len(s) = Minors(d, c)
               /\ \A m \in 0 .. Minors(d, c) - 1 : s[m + 1] = FrameOf(d, c, row, m)
  <1> DEFINE s == ColumnFrames(d, BlockOf(d, c), row, c)
             n == Minors(d, c)
  <1>1. n \in Nat /\ \A m \in 1 .. n : FrameOf(d, c, row, m - 1) \in FrameType
    <2>1. n \in Nat
      BY FrameOfType
    <2> HIDE DEF n
    <2>2. ASSUME NEW m \in 1 .. n
          PROVE  FrameOf(d, c, row, m - 1) \in FrameType
      <3>1. m - 1 \in Int
        BY <2>1
      <3> QED BY <3>1, FrameOfType
    <2> QED BY <2>1, <2>2
  <1>2. s = [m \in 1 .. n |-> FrameOf(d, c, row, m - 1)]
    BY DEF ColumnFrames, FrameOf, FarOf, Count, Minors
  <1> HIDE DEF s, n
  <1>3. s \in Seq(FrameType) /\ Len(s) = n
    BY <1>1, <1>2
  <1>4. ASSUME NEW m \in 0 .. n - 1
        PROVE  s[m + 1] = FrameOf(d, c, row, m)
    <2>1. m + 1 \in 1 .. n /\ (m + 1) - 1 = m
      BY <1>1
    <2> QED BY <1>2, <2>1
  <1> QED BY <1>3, <1>4 DEF s, n

\* The columns' parts of a row.
RowParts(d, type, row) ==
    [c \in DOMAIN d.row_layout |-> IF d.block_type[d.row_layout[c]] = type
                                   THEN ColumnFrames(d, type, row, c) ELSE <<>>]

LEMMA RowPartsAre ==
    ASSUME NEW d, IsDevice(d), NEW type, NEW row \in Int
    PROVE  LET s == RowParts(d, type, row)
           IN  /\ s \in Seq(Seq(FrameType)) /\ Len(s) = Len(d.row_layout)
               /\ \A c \in 1 .. Len(d.row_layout) :
                     s[c] = IF BlockOf(d, c) = type THEN ColumnFrames(d, BlockOf(d, c), row, c)
                            ELSE <<>>
               /\ \A n \in 0 .. Len(d.row_layout) : Len(Prefix(s, n)) = Before(d, type, n)
               /\ Len(FlattenSeq(s)) = Before(d, type, Len(d.row_layout))
               /\ FlattenSeq(s) \in Seq(FrameType)
  <1> DEFINE s == RowParts(d, type, row)
             N == Len(d.row_layout)
  <1>1. N \in Nat /\ DOMAIN d.row_layout = 1 .. N
    BY DeviceFacts
  <1>2. \A c \in 1 .. N : s[c] = IF BlockOf(d, c) = type THEN ColumnFrames(d, BlockOf(d, c), row, c)
                                 ELSE <<>>
    BY <1>1 DEF RowParts, BlockOf
  <1>3. \A c \in 1 .. N : /\ s[c] \in Seq(FrameType)
                          /\ Len(s[c]) = IF BlockOf(d, c) = type THEN Minors(d, c) ELSE 0
    <2> TAKE c \in 1 .. N
    <2>1. CASE BlockOf(d, c) = type
      BY <1>2, <2>1, ColumnFramesAre
    <2>2. CASE BlockOf(d, c) # type
      <3>1. <<>> \in Seq(FrameType) /\ Len(<<>>) = 0
        OBVIOUS
      <3> QED BY <1>2, <2>2, <3>1
    <2> QED BY <2>1, <2>2
  <1>4. s \in Seq(Seq(FrameType)) /\ Len(s) = N
    <2>1. s = [c \in 1 .. N |-> s[c]]
      BY <1>1 DEF RowParts
    <2> HIDE DEF s, N
    <2> QED BY <1>1, <1>3, <2>1
  <1> HIDE DEF s
  <1> DEFINE T == {n \in Nat : n \in 0 .. N => Len(Prefix(s, n)) = Before(d, type, n)}
  <1>5. 0 \in T
    <2>1. Len(<<>>) = 0
      OBVIOUS
    <2>2. Prefix(s, 0) = <<>> /\ Before(d, type, 0) = 0
      BY <1>4, PrefixSteps, BeforeSteps
    <2> QED BY <2>1, <2>2
  <1>6. ASSUME NEW n \in Nat, n \in T
        PROVE  n + 1 \in T
    <2> SUFFICES ASSUME n + 1 \in 0 .. N
                 PROVE  Len(Prefix(s, n + 1)) = Before(d, type, n + 1)
      OBVIOUS
    <2>1. n \in 0 .. N - 1 /\ n \in 0 .. N /\ n + 1 \in 1 .. N /\ n \in n .. N
      BY <1>1
    <2> DEFINE a == Prefix(s, n)
               b == s[n + 1]
    <2>2. Prefix(s, n + 1) = a \o b
      BY <1>4, <2>1, PrefixSteps
    <2>3. a \in Seq(FrameType) /\ b \in Seq(FrameType)
      BY <1>3, <1>4, <2>1, PrefixGrows
    <2>4. Len(a) = Before(d, type, n)
      BY <1>6, <2>1
    <2>5. Len(b) = IF BlockOf(d, n + 1) = type THEN Minors(d, n + 1) ELSE 0
      BY <1>3, <2>1
    <2>6. Before(d, type, n + 1) = Before(d, type, n)
             + (IF BlockOf(d, n + 1) = type THEN Minors(d, n + 1) ELSE 0)
      BY <2>1, BeforeSteps DEF BlockOf, Minors
    <2> HIDE DEF a, b
    <2>7. Len(a \o b) = Len(a) + Len(b)
      BY <2>3
    <2> QED BY <2>2, <2>4, <2>5, <2>6, <2>7
  <1> HIDE DEF T
  <1>7. ASSUME NEW n \in 0 .. N
        PROVE  Len(Prefix(s, n)) = Before(d, type, n)
    <2>1. n \in Nat
      BY <1>1
    <2>2. n \in T
      BY <1>5, <1>6, <2>1, SetInduction
    <2> QED BY <2>2 DEF T
  <1>8. FlattenSeq(s) = Prefix(s, N) /\ N \in 0 .. N /\ N \in N .. N
    BY <1>1, <1>4, PrefixSteps
  <1>9. FlattenSeq(s) \in Seq(FrameType)
    BY <1>4, <1>8, PrefixGrows
  <1> QED BY <1>2, <1>4, <1>7, <1>8, <1>9 DEF s

\* A row of a block: each column's frames in order, and then the frames that are no column's.
LEMMA RowIsLaidOut ==
    ASSUME NEW d, IsDevice(d), NEW type, NEW row \in Int
    PROVE  LET r == RowFrames(d, type, row)
           IN  /\ r \in Seq(FrameType) /\ Len(r) = RowWidth(d, type)
               /\ \A c \in 1 .. Len(d.row_layout) : BlockOf(d, c) = type =>
                     \A m \in 0 .. Minors(d, c) - 1 :
                        /\ Before(d, type, c - 1) + m + 1 \in 1 .. RowWidth(d, type)
                        /\ r[Before(d, type, c - 1) + m + 1] = FrameOf(d, c, row, m)
               /\ \A p \in 1 .. RowWidth(d, type) :
                     \/ r[p] = PadFrame
                     \/ \E c \in 1 .. Len(d.row_layout) :
                           /\ BlockOf(d, c) = type
                           /\ \E m \in 0 .. Minors(d, c) - 1 : p = Before(d, type, c - 1) + m + 1
  <1> DEFINE s == RowParts(d, type, row)
             f == FlattenSeq(s)
             r == RowFrames(d, type, row)
             N == Len(d.row_layout)
             pad == [i \in 1 .. 2 |-> PadFrame]
  <1>1. r = f \o pad
    BY DEF RowFrames, RowParts, PadFrames
  <1>2. pad \in Seq(FrameType) /\ Len(pad) = 2 /\ pad[1] = PadFrame /\ pad[2] = PadFrame
    BY PadFrameType
  <1>3. /\ s \in Seq(Seq(FrameType)) /\ Len(s) = N
        /\ f \in Seq(FrameType) /\ Len(f) = Before(d, type, N)
    BY RowPartsAre
  <1>4. /\ N \in Nat /\ RowWidth(d, type) = Before(d, type, N) + 2
        /\ \A n \in 0 .. N : Before(d, type, n) \in Nat
    BY DeviceFacts, BeforeSteps
  <1> HIDE DEF f, r, N, pad, s
  <1>5. /\ r \in Seq(FrameType) /\ Len(r) = RowWidth(d, type)
        /\ \A p \in 1 .. Len(f) : r[p] = f[p]
        /\ r[Len(f) + 1] = PadFrame /\ r[Len(f) + 2] = PadFrame
    <2>1. /\ r \in Seq(FrameType) /\ Len(r) = Len(f) + Len(pad)
          /\ \A p \in 1 .. Len(f) : r[p] = f[p]
          /\ \A p \in 1 .. Len(pad) : r[Len(f) + p] = pad[p]
      <3>1. f \in Seq(FrameType)
        BY <1>3
      <3>2. pad \in Seq(FrameType)
        BY <1>2
      <3> QED BY <1>1, <3>1, <3>2, JoinedElements
    <2>2. 1 \in 1 .. Len(pad) /\ 2 \in 1 .. Len(pad)
      BY <1>2
    <2> QED BY <1>2, <1>3, <1>4, <2>1, <2>2
  <1>6. ASSUME NEW c \in 1 .. N, BlockOf(d, c) = type
        PROVE  /\ c - 1 \in 0 .. N - 1 /\ (c - 1) + 1 = c
               /\ Len(Prefix(s, c - 1)) = Before(d, type, c - 1)
               /\ Len(s[c]) = Minors(d, c)
               /\ \A m \in 0 .. Minors(d, c) - 1 : s[c][m + 1] = FrameOf(d, c, row, m)
    <2>1. c - 1 \in 0 .. N - 1 /\ c - 1 \in 0 .. N /\ (c - 1) + 1 = c
      BY <1>4
    <2>2. s[c] = ColumnFrames(d, BlockOf(d, c), row, c) /\ Len(Prefix(s, c - 1)) = Before(d, type, c - 1)
      BY <1>6, <2>1, RowPartsAre DEF s, N
    <2> QED BY <2>1, <2>2, ColumnFramesAre DEF N
  <1>7. ASSUME NEW c \in 1 .. N, BlockOf(d, c) = type, NEW m \in 0 .. Minors(d, c) - 1
        PROVE  /\ Before(d, type, c - 1) + m + 1 \in 1 .. RowWidth(d, type)
               /\ r[Before(d, type, c - 1) + m + 1] = FrameOf(d, c, row, m)
    <2>1. m + 1 \in 1 .. Len(s[c]) /\ Minors(d, c) \in Nat
      BY <1>6, <1>7, FrameOfType DEF N
    <2>2. /\ Len(Prefix(s, c - 1)) + (m + 1) \in 1 .. Len(FlattenSeq(s))
          /\ FlattenSeq(s)[Len(Prefix(s, c - 1)) + (m + 1)] = s[c][m + 1]
      <3>1. c - 1 \in 0 .. Len(s) - 1 /\ m + 1 \in 1 .. Len(s[(c - 1) + 1])
        BY <1>3, <1>6, <1>7, <2>1
      <3> QED BY <1>3, <1>6, <1>7, <3>1, FlatElement
    <2> DEFINE b == Before(d, type, c - 1)
    <2>3. b + (m + 1) \in 1 .. Len(f) /\ f[b + (m + 1)] = FrameOf(d, c, row, m)
      BY <1>6, <1>7, <2>2 DEF f
    <2>4. b \in Nat
      BY <1>4, <1>6, <1>7
    <2> HIDE DEF b
    <2>5. b + (m + 1) = b + m + 1
      BY <2>1, <2>4
    <2>6. Len(f) + 2 = RowWidth(d, type) /\ Len(f) \in Nat
      BY <1>3, <1>4
    <2>7. b + m + 1 \in 1 .. Len(f) /\ r[b + m + 1] = FrameOf(d, c, row, m)
      BY <1>5, <2>3, <2>5
    <2>8. b + m + 1 \in 1 .. RowWidth(d, type)
      BY <2>6, <2>7
    <2> QED BY <2>7, <2>8 DEF b
  <1>8. ASSUME NEW p \in 1 .. RowWidth(d, type), r[p] # PadFrame
        PROVE  \E c \in 1 .. N :
                  /\ BlockOf(d, c) = type
                  /\ \E m \in 0 .. Minors(d, c) - 1 : p = Before(d, type, c - 1) + m + 1
    <2>1. p \in 1 .. Len(f)
      <3>1. Len(f) \in Nat /\ RowWidth(d, type) = Len(f) + 2
        BY <1>3, <1>4
      <3>2. p = Len(f) + 1 \/ p = Len(f) + 2 \/ p \in 1 .. Len(f)
        BY <3>1
      <3> QED BY <1>5, <1>8, <3>2
    <2>2. PICK n \in 0 .. Len(s) - 1 : \E j \in 1 .. Len(s[n + 1]) : p = Len(Prefix(s, n)) + j
      BY <1>3, <2>1, FlatPlace DEF f
    <2>3. PICK j \in 1 .. Len(s[n + 1]) : p = Len(Prefix(s, n)) + j
      BY <2>2
    <2> DEFINE c == n + 1
    <2>4. c \in 1 .. N /\ n \in 0 .. N /\ c - 1 = n
      BY <1>3, <1>4
    <2>5. BlockOf(d, c) = type
      <3> SUFFICES ASSUME BlockOf(d, c) # type
                   PROVE  FALSE
        OBVIOUS
      <3>1. s[c] = <<>>
        BY <2>4, RowPartsAre DEF s, N
      <3>2. Len(<<>>) = 0
        OBVIOUS
      <3> QED BY <2>3, <3>1, <3>2
    <2>6. Len(s[c]) = Minors(d, c) /\ Len(Prefix(s, n)) = Before(d, type, c - 1)
      BY <1>6, <2>4, <2>5
    <2>7. Minors(d, c) \in Nat /\ Before(d, type, c - 1) \in Nat
      BY <1>4, <2>4, FrameOfType DEF N
    <2>8. j - 1 \in 0 .. Minors(d, c) - 1 /\ p = Before(d, type, c - 1) + (j - 1) + 1
      BY <2>3, <2>6, <2>7
    <2> QED BY <2>4, <2>5, <2>8
  <1> QED BY <1>5, <1>7, <1>8 DEF r, N

-----------------------------------------------------------------------------
\* The rows of a block.

\* How many rows of a block come before that of a clock row.
Position(d, row) == IF row >= d.num_rows \div 2 THEN row - d.num_rows \div 2
                    ELSE d.num_rows - 1 - row

LEMMA ClockRowsAre ==
    ASSUME NEW d, IsDevice(d)
    PROVE  /\ \A i \in 1 .. d.num_rows : /\ ClockRows(d)[i] \in 0 .. d.num_rows - 1
                                         /\ Position(d, ClockRows(d)[i]) = i - 1
           /\ \A row \in 0 .. d.num_rows - 1 : /\ Position(d, row) \in 0 .. d.num_rows - 1
                                               /\ ClockRows(d)[Position(d, row) + 1] = row
  <1> DEFINE h == d.num_rows \div 2
             R == d.num_rows
             a == [i \in 1 .. h |-> h + i - 1]
             b == [i \in 1 .. h |-> h - i]
             r == ClockRows(d)
  <1>1. h \in Nat /\ R \in Nat /\ R = 2 * h
    BY DeviceFacts
  <1>2. r = a \o b
    BY DEF ClockRows
  <1> HIDE DEF h, R, r
  <1>3. a \in Seq(Int) /\ Len(a) = h /\ \A i \in 1 .. h : a[i] = h + i - 1
    BY <1>1
  <1>4. b \in Seq(Int) /\ Len(b) = h /\ \A i \in 1 .. h : b[i] = h - i
    BY <1>1
  <1> HIDE DEF a, b
  <1>5. /\ \A p \in 1 .. Len(a) : r[p] = a[p]
        /\ \A p \in 1 .. Len(b) : r[Len(a) + p] = b[p]
    <2>1. a \in Seq(Int)
      BY <1>3
    <2>2. b \in Seq(Int)
      BY <1>4
    <2> QED BY <1>2, <2>1, <2>2, JoinedElements
  <1>6. ASSUME NEW i \in 1 .. R
        PROVE  IF i <= h THEN r[i] = h + i - 1 ELSE r[i] = R - i
    <2>1. CASE i <= h
      BY <1>1, <1>3, <1>5, <2>1
    <2>2. CASE ~(i <= h)
      <3>1. i - h \in 1 .. h /\ h + (i - h) = i
        BY <1>1, <2>2
      <3>2. r[i] = b[i - h]
        BY <1>3, <1>4, <1>5, <3>1
      <3> QED BY <1>1, <1>4, <2>2, <3>1, <3>2
    <2> QED BY <2>1, <2>2
  <1>7. ASSUME NEW i \in 1 .. R
        PROVE  r[i] \in 0 .. R - 1 /\ Position(d, r[i]) = i - 1
    <2>1. Position(d, r[i]) = IF r[i] >= h THEN r[i] - h ELSE R - 1 - r[i]
      BY DEF Position, h, R
    <2> QED BY <1>1, <1>6, <2>1
  <1>8. ASSUME NEW row \in 0 .. R - 1
        PROVE  Position(d, row) \in 0 .. R - 1 /\ r[Position(d, row) + 1] = row
    <2>1. Position(d, row) = IF row >= h THEN row - h ELSE R - 1 - row
      BY DEF Position, h, R
    <2>2. Position(d, row) \in 0 .. R - 1 /\ Position(d, row) + 1 \in 1 .. R
      BY <1>1, <2>1
    <2> QED BY <1>1, <1>6, <2>1, <2>2
  <1> QED BY <1>7, <1>8 DEF R, r

\* Where the frames of a column in a clock row begin in their block.
CellInBlock(d, c, row) == Position(d, row) * RowWidth(d, BlockOf(d, c)) + Before(d, BlockOf(d, c), c - 1)

\* A block: its rows, the top half of the chip before the bottom half.
LEMMA BlockIsLaidOut ==
    ASSUME NEW d, IsDevice(d), NEW type
    PROVE  LET b == BlockFrames(d, type)
           IN  /\ b \in Seq(FrameType) /\ Len(b) = BlockSize(d, type)
               /\ \A c \in 1 .. Len(d.row_layout) : BlockOf(d, c) = type =>
                     \A row \in 0 .. d.num_rows - 1 : \A m \in 0 .. Minors(d, c) - 1 :
                        /\ CellInBlock(d, c, row) + m + 1 \in 1 .. BlockSize(d, type)
                        /\ b[CellInBlock(d, c, row) + m + 1] = FrameOf(d, c, row, m)
               /\ \A p \in 1 .. BlockSize(d, type) :
                     \/ b[p] = PadFrame
                     \/ \E c \in 1 .. Len(d.row_layout), row \in 0 .. d.num_rows - 1 :
                           /\ BlockOf(d, c) = type
                           /\ \E m \in 0 .. Minors(d, c) - 1 : p = CellInBlock(d, c, row) + m + 1
  <1> DEFINE R == d.num_rows
             N == Len(d.row_layout)
             W == RowWidth(d, type)
             rows == ClockRows(d)
             s == [i \in 1 .. R |-> RowFrames(d, type, rows[i])]
             b == BlockFrames(d, type)
             g == [n \in 0 .. R |-> n * W]
  <1>1. R \in Nat /\ N \in Nat /\ W \in Nat /\ \A n \in 0 .. N : Before(d, type, n) \in Nat
    BY DeviceFacts, BeforeSteps
  <1>2. b = FlattenSeq(s)
    BY DEF BlockFrames
  <1>3. BlockSize(d, type) = W * R
    BY DEF BlockSize
  <1>4. /\ \A i \in 1 .. R : rows[i] \in 0 .. R - 1 /\ Position(d, rows[i]) = i - 1
        /\ \A row \in 0 .. R - 1 : Position(d, row) \in 0 .. R - 1 /\ rows[Position(d, row) + 1] = row
    BY ClockRowsAre
  <1>5. \A row \in 0 .. R - 1 : /\ RowFrames(d, type, row) \in Seq(FrameType)
                                /\ Len(RowFrames(d, type, row)) = W
    <2> TAKE row \in 0 .. R - 1
    <2>1. row \in Int
      OBVIOUS
    <2> QED BY <2>1, RowIsLaidOut
  <1> HIDE DEF R, N, W, rows, b
  <1>6. s \in Seq(Seq(FrameType)) /\ Len(s) = R
    BY <1>1, <1>4, <1>5
  <1>7. \A i \in 1 .. R : s[i] = RowFrames(d, type, rows[i]) /\ Len(s[i]) = W
    BY <1>4, <1>5
  <1> HIDE DEF s
  <1>8. /\ \A n \in 0 .. R : Len(Prefix(s, n)) = n * W
        /\ b \in Seq(FrameType) /\ Len(b) = R * W
    <2>1. \A n \in 0 .. R : g[n] = n * W
      OBVIOUS
    <2> HIDE DEF g
    <2>2. g[0] = 0
      BY <1>1, <2>1
    <2>3. \A n \in 0 .. Len(s) - 1 : g[n + 1] = g[n] + Len(s[n + 1])
      <3> SUFFICES ASSUME NEW n \in 0 .. R - 1
                   PROVE  g[n + 1] = g[n] + Len(s[n + 1])
        BY <1>6
      <3>1. n \in 0 .. R /\ n + 1 \in 0 .. R /\ n + 1 \in 1 .. R
        BY <1>1
      <3>2. (n + 1) * W = n * W + W
        BY <1>1
      <3> QED BY <1>7, <2>1, <3>1, <3>2
    <2>4. /\ \A n \in 0 .. Len(s) : Len(Prefix(s, n)) = g[n]
          /\ FlattenSeq(s) \in Seq(FrameType) /\ Len(FlattenSeq(s)) = g[Len(s)]
      BY <1>6, <2>2, <2>3, PrefixLengths
    <2>5. R \in 0 .. R
      BY <1>1
    <2> QED BY <1>2, <1>6, <2>1, <2>4, <2>5
  <1>9. ASSUME NEW c \in 1 .. N, BlockOf(d, c) = type, NEW row \in 0 .. R - 1,
               NEW m \in 0 .. Minors(d, c) - 1
        PROVE  /\ CellInBlock(d, c, row) + m + 1 \in 1 .. BlockSize(d, type)
               /\ b[CellInBlock(d, c, row) + m + 1] = FrameOf(d, c, row, m)
    <2> DEFINE n == Position(d, row)
               k == Before(d, type, c - 1)
               j == k + m + 1
    <2>1. /\ n \in 0 .. R - 1 /\ n + 1 \in 1 .. R /\ n \in 0 .. R /\ n * W \in Nat
          /\ rows[n + 1] = row /\ c - 1 \in 0 .. N /\ row \in Int
      BY <1>1, <1>4
    <2>2. j \in 1 .. W /\ RowFrames(d, type, row)[j] = FrameOf(d, c, row, m)
      BY <1>9, <2>1, RowIsLaidOut DEF N, W
    <2>3. k \in Nat /\ m \in Nat
      BY <1>1, <2>1, FrameOfType DEF N
    <2> HIDE DEF n, j, k
    <2>4. n * W + j \in 1 .. Len(b) /\ b[n * W + j] = FrameOf(d, c, row, m)
      <3>1. n \in 0 .. Len(s) - 1 /\ j \in 1 .. Len(s[n + 1]) /\ s[n + 1] = RowFrames(d, type, row)
        BY <1>6, <1>7, <2>1, <2>2
      <3>2. Len(Prefix(s, n)) = n * W
        BY <1>8, <2>1
      <3>3. /\ Len(Prefix(s, n)) + j \in 1 .. Len(FlattenSeq(s))
            /\ FlattenSeq(s)[Len(Prefix(s, n)) + j] = s[n + 1][j]
        BY <1>6, <3>1, FlatElement
      <3> QED BY <1>2, <2>2, <3>1, <3>2, <3>3
    <2>5. CellInBlock(d, c, row) = n * W + k
      BY <1>9 DEF CellInBlock, n, k, W
    <2>6. n * W + j = CellInBlock(d, c, row) + m + 1
      BY <2>1, <2>3, <2>5 DEF j
    <2>7. Len(b) = BlockSize(d, type)
      BY <1>1, <1>3, <1>8
    <2> QED BY <2>4, <2>6, <2>7
  <1>10. ASSUME NEW p \in 1 .. BlockSize(d, type), b[p] # PadFrame
         PROVE  \E c \in 1 .. N, row \in 0 .. R - 1 :
                   /\ BlockOf(d, c) = type
                   /\ \E m \in 0 .. Minors(d, c) - 1 : p = CellInBlock(d, c, row) + m + 1
    <2>1. Len(b) = BlockSize(d, type)
      BY <1>1, <1>3, <1>8
    <2>2. PICK n \in 0 .. Len(s) - 1 : \E j \in 1 .. Len(s[n + 1]) : p = Len(Prefix(s, n)) + j
      <3>1. p \in 1 .. Len(FlattenSeq(s))
        BY <1>2, <2>1
      <3> HIDE DEF g
      <3> QED BY <1>6, <3>1, FlatPlace
    <2>3. PICK j \in 1 .. Len(s[n + 1]) : p = Len(Prefix(s, n)) + j
      BY <2>2
    <2> DEFINE row == rows[n + 1]
    <2>4. /\ n + 1 \in 1 .. R /\ n \in 0 .. R /\ row \in 0 .. R - 1 /\ row \in Int
          /\ Position(d, row) = n /\ n \in Int /\ n * W \in Nat
      <3>1. n + 1 \in 1 .. R /\ n \in 0 .. R /\ n \in Int /\ n * W \in Nat
        BY <1>1, <1>6
      <3>2. row \in 0 .. R - 1 /\ Position(d, row) = (n + 1) - 1
        BY <1>4, <3>1
      <3> QED BY <3>1, <3>2
    <2>5. s[n + 1] = RowFrames(d, type, row) /\ Len(s[n + 1]) = W /\ Len(Prefix(s, n)) = n * W
      BY <1>7, <1>8, <2>4
    <2>6. b[p] = RowFrames(d, type, row)[j]
      <3> HIDE DEF g, row
      <3>1. FlattenSeq(s)[Len(Prefix(s, n)) + j] = s[n + 1][j]
        BY <1>6, FlatElement
      <3> QED BY <1>2, <2>3, <2>5, <3>1
    <2> HIDE DEF row
    <2>7. PICK c \in 1 .. N : /\ BlockOf(d, c) = type
                              /\ \E m \in 0 .. Minors(d, c) - 1 : j = Before(d, type, c - 1) + m + 1
      <3>1. j \in 1 .. RowWidth(d, type)
        BY <2>3, <2>5 DEF W
      <3>2. RowFrames(d, type, row)[j] # PadFrame
        BY <1>10, <2>6
      <3> QED BY <2>4, <3>1, <3>2, RowIsLaidOut DEF N
    <2>8. PICK m \in 0 .. Minors(d, c) - 1 : j = Before(d, type, c - 1) + m + 1
      BY <2>7
    <2>9. CellInBlock(d, c, row) = n * W + Before(d, type, c - 1)
      BY <2>4, <2>7 DEF CellInBlock, W
    <2>10. Before(d, type, c - 1) \in Nat /\ m \in Nat
      <3>1. c - 1 \in 0 .. N
        BY <1>1
      <3> QED BY <1>1, <3>1, FrameOfType DEF N
    <2>11. p = CellInBlock(d, c, row) + m + 1
      <3> DEFINE u == n * W
                 k == Before(d, type, c - 1)
      <3>1. u \in Nat /\ k \in Nat /\ m \in Nat
        BY <2>4, <2>10
      <3>2. p = u + j /\ j = k + m + 1 /\ CellInBlock(d, c, row) = u + k
        BY <2>3, <2>5, <2>8, <2>9
      <3> HIDE DEF u, k, g
      <3> QED BY <3>1, <3>2
    <2> QED BY <2>4, <2>7, <2>11
  <1>11. b \in Seq(FrameType) /\ Len(b) = BlockSize(d, type)
    BY <1>1, <1>3, <1>8
  <1> QED BY <1>9, <1>10, <1>11 DEF b, R, N

-----------------------------------------------------------------------------
\* The blocks of a device.

LEMMA BlockStartSteps ==
    ASSUME NEW d, IsDevice(d)
    PROVE  /\ BlockStart(d, 0) = 0
           /\ \A n \in Nat : BlockStart(d, n) \in Nat
           /\ \A n \in Nat : BlockStart(d, n + 1) = BlockStart(d, n) + BlockSize(d, n)
           /\ \A type : BlockSize(d, type) \in Nat
  <1>1. \A type : BlockSize(d, type) \in Nat
    <2> TAKE type
    <2>1. RowWidth(d, type) \in Nat /\ d.num_rows \in Nat
      BY DeviceFacts, BeforeSteps
    <2> QED BY <2>1 DEF BlockSize
  <1>2. BlockStart(d, 0) = 0
    <2>1. [i \in 1 .. 0 |-> BlockSize(d, i - 1)] = <<>>
      OBVIOUS
    <2> QED BY <2>1, TotalOfNone DEF BlockStart
  <1>3. ASSUME NEW n \in Nat
        PROVE  BlockStart(d, n) \in Nat /\ BlockStart(d, n + 1) = BlockStart(d, n) + BlockSize(d, n)
    <2> DEFINE s == [i \in 1 .. n |-> BlockSize(d, i - 1)]
               t == [i \in 1 .. n + 1 |-> BlockSize(d, i - 1)]
               e == BlockSize(d, n)
    <2>1. e \in Nat
      BY <1>1
    <2>2. s \in Seq(Nat) /\ Len(s) = n
      BY <1>1
    <2>3. t = Append(s, e)
      <3>1. t \in Seq(Nat) /\ Len(t) = n + 1
        BY <1>1
      <3>2. \A i \in 1 .. n : t[i] = s[i]
        OBVIOUS
      <3>3. t[n + 1] = e
        OBVIOUS
      <3> HIDE DEF s, t, e
      <3> QED BY <2>1, <2>2, <3>1, <3>2, <3>3
    <2> HIDE DEF s, t, e
    <2>4. Total(s) \in Nat /\ Total(t) = Total(s) + e
      BY <2>1, <2>2, <2>3, TotalAppended
    <2> QED BY <2>4 DEF BlockStart, s, t, e
  <1> QED BY <1>1, <1>2, <1>3

\* Where the frames of a column in a clock row begin, among all.
CellStart(d, c, row) == BlockStart(d, BlockOf(d, c)) + CellInBlock(d, c, row)

\* The device: its frames are those of its columns in its clock rows, and the ends of rows.
LEMMA DeviceIsLaidOut ==
    ASSUME NEW d, IsDevice(d)
    PROVE  /\ CfgSize(d) \in Nat
           /\ DOMAIN DeviceFrame(d) = 0 .. CfgSize(d) - 1
           /\ \A c \in 1 .. Len(d.row_layout), row \in 0 .. d.num_rows - 1 :
                 \A m \in 0 .. Minors(d, c) - 1 :
                    /\ CellStart(d, c, row) + m \in 0 .. CfgSize(d) - 1
                    /\ DeviceFrame(d)[CellStart(d, c, row) + m] = FrameOf(d, c, row, m)
           /\ \A f \in 0 .. CfgSize(d) - 1 :
                 \/ DeviceFrame(d)[f] = PadFrame
                 \/ \E c \in 1 .. Len(d.row_layout), row \in 0 .. d.num_rows - 1 :
                       \E m \in 0 .. Minors(d, c) - 1 : f = CellStart(d, c, row) + m
  <1> DEFINE R == d.num_rows
             N == Len(d.row_layout)
             K == d.num_blk_types
             s == [i \in 1 .. K |-> BlockFrames(d, i - 1)]
             all == FlattenSeq(s)
             g == [n \in 0 .. K |-> BlockStart(d, n)]
             size == CfgSize(d)
  <1>1. K \in Nat /\ R \in Nat /\ N \in Nat
    BY DeviceFacts
  <1>2. DeviceFrame(d) = [i \in 0 .. Len(all) - 1 |-> all[i + 1]]
    BY DEF DeviceFrame
  <1>3. size = BlockStart(d, K) /\ size \in Nat
    BY <1>1, BlockStartSteps DEF CfgSize
  <1>4. \A type : BlockFrames(d, type) \in Seq(FrameType) /\ Len(BlockFrames(d, type)) = BlockSize(d, type)
    BY BlockIsLaidOut
  <1> HIDE DEF R, N, K, size
  <1>5. s \in Seq(Seq(FrameType)) /\ Len(s) = K /\ \A i \in 1 .. K : s[i] = BlockFrames(d, i - 1)
    BY <1>1, <1>4
  <1> HIDE DEF s, all
  <1>6. /\ \A n \in 0 .. K : Len(Prefix(s, n)) = BlockStart(d, n)
        /\ all \in Seq(FrameType) /\ Len(all) = size
    <2>1. \A n \in 0 .. K : g[n] = BlockStart(d, n)
      OBVIOUS
    <2> HIDE DEF g
    <2>2. g[0] = 0
      BY <1>1, <2>1, BlockStartSteps
    <2>3. \A n \in 0 .. Len(s) - 1 : g[n + 1] = g[n] + Len(s[n + 1])
      <3> SUFFICES ASSUME NEW n \in 0 .. K - 1
                   PROVE  g[n + 1] = g[n] + Len(s[n + 1])
        BY <1>5
      <3>1. n \in 0 .. K /\ n + 1 \in 0 .. K /\ n + 1 \in 1 .. K /\ n \in Nat /\ (n + 1) - 1 = n
        BY <1>1
      <3>2. s[n + 1] = BlockFrames(d, n)
        BY <1>5, <3>1
      <3> QED BY <1>4, <2>1, <3>1, <3>2, BlockStartSteps
    <2>4. /\ \A n \in 0 .. Len(s) : Len(Prefix(s, n)) = g[n]
          /\ FlattenSeq(s) \in Seq(FrameType) /\ Len(FlattenSeq(s)) = g[Len(s)]
      BY <1>5, <2>2, <2>3, PrefixLengths
    <2>5. K \in 0 .. K
      BY <1>1
    <2> QED BY <1>3, <1>5, <2>1, <2>4, <2>5 DEF all
  <1>7. DOMAIN DeviceFrame(d) = 0 .. size - 1 /\ \A f \in 0 .. size - 1 : DeviceFrame(d)[f] = all[f + 1]
    BY <1>2, <1>6
  <1>8. ASSUME NEW c \in 1 .. N, NEW row \in 0 .. R - 1, NEW m \in 0 .. Minors(d, c) - 1
        PROVE  /\ CellStart(d, c, row) + m \in 0 .. size - 1
               /\ DeviceFrame(d)[CellStart(d, c, row) + m] = FrameOf(d, c, row, m)
    <2> DEFINE type == BlockOf(d, c)
               b == BlockFrames(d, type)
               k == CellInBlock(d, c, row)
               start == BlockStart(d, type)
               j == k + m + 1
    <2>1. /\ type \in 0 .. K - 1 /\ type \in Nat /\ type + 1 \in 1 .. K /\ type \in 0 .. K
          /\ (type + 1) - 1 = type
      <3>1. type \in 0 .. K - 1 /\ type \in Nat
        BY FrameOfType DEF N, K
      <3> HIDE DEF type
      <3> QED BY <1>1, <3>1
    <2>2. j \in 1 .. BlockSize(d, type) /\ b[j] = FrameOf(d, c, row, m)
      BY BlockIsLaidOut DEF N, R
    <2>3. s[type + 1] = b /\ Len(Prefix(s, type)) = start /\ Len(s[type + 1]) = BlockSize(d, type)
      <3>1. s[type + 1] = BlockFrames(d, (type + 1) - 1)
        BY <1>5, <2>1
      <3> QED BY <1>4, <1>6, <2>1, <3>1
    <2>4. /\ Len(Prefix(s, type)) + j \in 1 .. Len(FlattenSeq(s))
          /\ FlattenSeq(s)[Len(Prefix(s, type)) + j] = s[type + 1][j]
      <3>1. type \in 0 .. Len(s) - 1 /\ j \in 1 .. Len(s[type + 1])
        BY <1>5, <2>1, <2>2, <2>3
      <3> HIDE DEF type, j
      <3> QED BY <1>5, <3>1, FlatElement
    <2>5. k \in Int /\ start \in Nat /\ m \in Nat
      <3>1. Position(d, row) \in Nat /\ RowWidth(d, type) \in Nat
        BY ClockRowsAre, BeforeSteps DEF R
      <3>2. c - 1 \in 0 .. N
        BY <1>1
      <3>3. Before(d, type, c - 1) \in Nat
        BY <3>2, BeforeSteps DEF N
      <3>4. Position(d, row) * RowWidth(d, type) \in Nat
        BY <3>1
      <3>5. Minors(d, c) \in Nat
        BY FrameOfType DEF N
      <3> QED BY <2>1, <3>3, <3>4, <3>5, BlockStartSteps DEF CellInBlock
    <2>6. CellStart(d, c, row) = start + k
      BY DEF CellStart
    <2> HIDE DEF type, b, k, start
    <2>7. start + j \in 1 .. size /\ all[start + j] = FrameOf(d, c, row, m)
      BY <1>6, <2>2, <2>3, <2>4 DEF all
    <2>8. (CellStart(d, c, row) + m) + 1 = start + j
      BY <2>5, <2>6
    <2>9. CellStart(d, c, row) + m \in 0 .. size - 1
      BY <1>3, <2>5, <2>6, <2>7, <2>8
    <2> QED BY <1>7, <2>7, <2>8, <2>9
  <1>9. ASSUME NEW f \in 0 .. size - 1, DeviceFrame(d)[f] # PadFrame
        PROVE  \E c \in 1 .. N, row \in 0 .. R - 1 :
                  \E m \in 0 .. Minors(d, c) - 1 : f = CellStart(d, c, row) + m
    <2>1. f + 1 \in 1 .. Len(all) /\ all[f + 1] # PadFrame
      BY <1>3, <1>6, <1>7, <1>9
    <2>2. PICK n \in 0 .. Len(s) - 1 : \E j \in 1 .. Len(s[n + 1]) : f + 1 = Len(Prefix(s, n)) + j
      <3>1. f + 1 \in 1 .. Len(FlattenSeq(s))
        BY <2>1 DEF all
      <3> HIDE DEF g
      <3> QED BY <1>5, <3>1, FlatPlace
    <2>3. PICK j \in 1 .. Len(s[n + 1]) : f + 1 = Len(Prefix(s, n)) + j
      BY <2>2
    <2>4. n \in 0 .. K /\ n + 1 \in 1 .. K /\ n \in Nat /\ (n + 1) - 1 = n
      BY <1>1, <1>5
    <2>5. s[n + 1] = BlockFrames(d, n) /\ Len(Prefix(s, n)) = BlockStart(d, n)
      BY <1>5, <1>6, <2>4
    <2>6. BlockFrames(d, n)[j] # PadFrame
      <3> HIDE DEF g
      <3>1. FlattenSeq(s)[Len(Prefix(s, n)) + j] = s[n + 1][j]
        BY <1>5, FlatElement
      <3> QED BY <2>1, <2>3, <2>5, <3>1 DEF all
    <2>7. j \in 1 .. BlockSize(d, n)
      BY <1>4, <2>5
    <2>8. PICK c \in 1 .. N, row \in 0 .. R - 1 :
             /\ BlockOf(d, c) = n
             /\ \E m \in 0 .. Minors(d, c) - 1 : j = CellInBlock(d, c, row) + m + 1
      BY <2>6, <2>7, BlockIsLaidOut DEF N, R
    <2>9. PICK m \in 0 .. Minors(d, c) - 1 : j = CellInBlock(d, c, row) + m + 1
      BY <2>8
    <2>10. f = CellStart(d, c, row) + m
      <3> DEFINE k == CellInBlock(d, c, row)
                 start == BlockStart(d, n)
      <3>1. start \in Nat
        BY <2>4, BlockStartSteps
      <3>2. CellStart(d, c, row) = start + k /\ f + 1 = start + j /\ j = k + m + 1
        BY <2>3, <2>5, <2>8, <2>9 DEF CellStart
      <3>3. k \in Int /\ m \in Int
        <4>1. Position(d, row) \in Nat /\ RowWidth(d, BlockOf(d, c)) \in Nat
          BY ClockRowsAre, BeforeSteps DEF R
        <4>2. c - 1 \in 0 .. N
          BY <1>1
        <4>3. Before(d, BlockOf(d, c), c - 1) \in Nat
          BY <4>2, BeforeSteps DEF N
        <4>4. Position(d, row) * RowWidth(d, BlockOf(d, c)) \in Nat
          BY <4>1
        <4> QED BY <4>3, <4>4 DEF CellInBlock
      <3> HIDE DEF k, start, g
      <3> QED BY <3>1, <3>2, <3>3
    <2> QED BY <2>10
  <1> QED BY <1>3, <1>7, <1>8, <1>9 DEF size, R, N

\* No frame is in two columns or clock rows, or twice in one.
LEMMA CellsAreApart ==
    ASSUME NEW d, IsDevice(d),
           NEW c1 \in 1 .. Len(d.row_layout), NEW row1 \in 0 .. d.num_rows - 1,
           NEW m1 \in 0 .. Minors(d, c1) - 1,
           NEW c2 \in 1 .. Len(d.row_layout), NEW row2 \in 0 .. d.num_rows - 1,
           NEW m2 \in 0 .. Minors(d, c2) - 1,
           CellStart(d, c1, row1) + m1 = CellStart(d, c2, row2) + m2
    PROVE  c1 = c2 /\ row1 = row2 /\ m1 = m2
  <1>1. FrameOf(d, c1, row1, m1) = FrameOf(d, c2, row2, m2)
    BY DeviceIsLaidOut
  <1> QED BY <1>1 DEF FrameOf, FarOf

-----------------------------------------------------------------------------
\* Tiles of a device that is laid out as the supported ones are.

\* The clock column, and the column that XDL calls x.
Gclk(d)           == CHOOSE c \in 1 .. Len(d.row_layout) : d.row_layout[c] = "GCLK"
IsColumn(d, x, c) == /\ c \in 1 .. Len(d.row_layout) /\ d.row_layout[c] \in HaveXdlColumn
                     /\ Count(d.row_layout, HaveXdlColumn, c - 1) = x

LEMMA LayoutFacts ==
    ASSUME NEW d, IsLaidOut(d)
    PROVE  /\ IsDevice(d)
           /\ Gclk(d) \in 2 .. Len(d.row_layout)
           /\ \A c \in 1 .. Len(d.row_layout) : d.row_layout[c] = "GCLK" <=> c = Gclk(d)
           /\ d.row_layout[Gclk(d) - 1] \in HaveXdlColumn
           /\ BlockOf(d, Gclk(d) - 1) = 0 /\ BlockOf(d, Gclk(d)) = 0 /\ d.block_type["GCLK"] = 0
           /\ \A c \in 1 .. Len(d.row_layout) :
                 /\ d.row_layout[c] = "BRAM_INT" => /\ c + 1 \in 1 .. Len(d.row_layout)
                                                    /\ d.row_layout[c + 1] = "BRAM"
                 /\ d.row_layout[c] = "BRAM" => c > 1 /\ d.row_layout[c - 1] = "BRAM_INT"
           /\ \A t \in TileTypes \ {"BRAM"} : d.block_type[t] # d.block_type["BRAM"]
  <1> DEFINE L == d.row_layout
             N == Len(L)
  <1>1. IsDevice(d)
    BY DEF IsLaidOut
  <1>2. N \in Nat /\ DOMAIN L = 1 .. N
    BY <1>1, DeviceFacts
  <1>3. PICK g \in DOMAIN L : /\ g > 1 /\ L[g - 1] \in HaveXdlColumn
                              /\ d.block_type[L[g - 1]] = 0 /\ d.block_type["GCLK"] = 0
                              /\ \A c \in DOMAIN L : L[c] = "GCLK" <=> c = g
    BY DEF IsLaidOut
  <1>4. Gclk(d) = g
    BY <1>2, <1>3 DEF Gclk
  <1>5. g \in 2 .. N /\ L[g] = "GCLK"
    BY <1>2, <1>3
  <1>6. \A c \in 1 .. N : /\ L[c] = "BRAM_INT" => c + 1 \in 1 .. N /\ L[c + 1] = "BRAM"
                          /\ L[c] = "BRAM" => c > 1 /\ L[c - 1] = "BRAM_INT"
    BY <1>2 DEF IsLaidOut
  <1>7. \A t \in TileTypes \ {"BRAM"} : d.block_type[t] # d.block_type["BRAM"]
    BY DEF IsLaidOut
  <1>8. BlockOf(d, g - 1) = 0 /\ BlockOf(d, g) = 0
    BY <1>3, <1>5 DEF BlockOf
  <1> HIDE DEF L, N
  <1>9. \A c \in 1 .. N : L[c] = "GCLK" <=> c = g
    BY <1>2, <1>3
  <1> QED BY <1>1, <1>3, <1>4, <1>5, <1>6, <1>7, <1>8, <1>9 DEF L, N

\* Every column but the clock's and the block RAMs' has an XDL coordinate of its own.
LEMMA ColumnsOfXdl ==
    ASSUME NEW d, IsLaidOut(d)
    PROVE  /\ ChipWidth(d) \in Nat
           /\ \A x \in 0 .. ChipWidth(d) - 1 : \E c : IsColumn(d, x, c)
           /\ \A c \in 1 .. Len(d.row_layout) : d.row_layout[c] \in HaveXdlColumn =>
                 /\ Count(d.row_layout, HaveXdlColumn, c - 1) \in 0 .. ChipWidth(d) - 1
                 /\ IsColumn(d, Count(d.row_layout, HaveXdlColumn, c - 1), c)
           /\ \A x, c : IsColumn(d, x, c) => /\ x \in 0 .. ChipWidth(d) - 1
                                             /\ XdlTileType(d, x) = d.row_layout[c]
           /\ \A x, b, c : IsColumn(d, x, b) /\ IsColumn(d, x, c) => b = c
  <1> DEFINE L == d.row_layout
             N == Len(L)
             X == HaveXdlColumn
             s == Selected(L, X)
  <1>1. L \in Seq(TileTypes) /\ N \in Nat /\ IsDevice(d)
    BY LayoutFacts, DeviceFacts
  <1>2. XdlLayout(d) = s /\ ChipWidth(d) = Len(s)
    BY DEF XdlLayout, ChipWidth
  <1> HIDE DEF L, N, X, s
  <1>3. /\ \A n \in 0 .. N : Count(L, X, n) \in Nat
        /\ \A n \in 0 .. N - 1 : /\ L[n + 1] \in X => Count(L, X, n + 1) = Count(L, X, n) + 1
                                 /\ L[n + 1] \notin X => Count(L, X, n + 1) = Count(L, X, n)
        /\ Count(L, X, N) = Len(s)
    <2>1. L \in Seq(TileTypes)
      BY <1>1
    <2>2. \A n \in 0 .. Len(L) : Count(L, X, n) \in Nat
      BY <2>1, CountSteps
    <2>3. \A n \in 0 .. Len(L) - 1 :
             /\ L[n + 1] \in X => Count(L, X, n + 1) = Count(L, X, n) + 1
             /\ L[n + 1] \notin X => Count(L, X, n + 1) = Count(L, X, n)
      BY <2>1, CountSteps
    <2>4. Count(L, X, Len(L)) = Len(Selected(L, X))
      BY <2>1, CountSteps
    <2> QED BY <2>2, <2>3, <2>4 DEF N, s
  <1>4. Len(s) \in Nat
    <2>1. N \in 0 .. N
      BY <1>1
    <2> QED BY <1>3, <2>1
  <1>5. ASSUME NEW c \in 1 .. N, L[c] \in X
        PROVE  Count(L, X, c - 1) \in 0 .. Len(s) - 1 /\ s[Count(L, X, c - 1) + 1] = L[c]
    <2> DEFINE n == c - 1
    <2>1. n \in 0 .. N - 1 /\ n \in 0 .. N /\ n + 1 = c
      BY <1>1
    <2> HIDE DEF n
    <2>2. Count(L, X, n) + 1 \in 1 .. Len(s) /\ s[Count(L, X, n) + 1] = L[n + 1]
      BY <1>1, <1>5, <2>1, SelectedPlace DEF N, s
    <2>3. Count(L, X, n) \in Nat
      BY <1>3, <2>1
    <2> QED BY <1>4, <2>1, <2>2, <2>3 DEF n
  <1>6. ASSUME NEW x \in 0 .. Len(s) - 1
        PROVE  \E c : IsColumn(d, x, c)
    <2>1. PICK n \in 0 .. N - 1 : L[n + 1] \in X /\ Count(L, X, n) = x
      BY <1>1, SelectedFrom DEF N, s
    <2>2. n + 1 \in 1 .. N /\ (n + 1) - 1 = n
      BY <1>1
    <2>3. IsColumn(d, x, n + 1)
      BY <2>1, <2>2 DEF IsColumn, N, L, X
    <2> QED BY <2>3
  <1>7. ASSUME NEW c \in 1 .. N, L[c] \in X
        PROVE  IsColumn(d, Count(L, X, c - 1), c)
    BY <1>7 DEF IsColumn, N, L, X
  <1>8. ASSUME NEW x, NEW c, IsColumn(d, x, c)
        PROVE  x \in 0 .. Len(s) - 1 /\ XdlTileType(d, x) = L[c]
    <2>1. c \in 1 .. N /\ L[c] \in X /\ Count(L, X, c - 1) = x
      BY <1>8 DEF IsColumn, N, L, X
    <2> QED BY <1>2, <1>5, <2>1 DEF XdlTileType
  <1>9. ASSUME NEW x, NEW b, NEW c, IsColumn(d, x, b), IsColumn(d, x, c)
        PROVE  b = c
    <2>1. /\ b \in 1 .. Len(L) /\ L[b] \in X /\ Count(L, X, b - 1) = x
          /\ c \in 1 .. Len(L) /\ L[c] \in X /\ Count(L, X, c - 1) = x
      BY <1>9 DEF IsColumn, L, X
    <2> QED BY <1>1, <2>1, CountIsOwn
  <1> QED BY <1>2, <1>4, <1>5, <1>6, <1>7, <1>8, <1>9 DEF L, N, X

\* The frames of the tiles to the left of an XDL column, in the layout of all columns.
LEMMA XdlBeforeIs ==
    ASSUME NEW d, IsLaidOut(d), NEW x, NEW c, IsColumn(d, x, c), NEW types
    PROVE  XdlBefore(d, x, types) = Count(d.row_layout, HaveXdlColumn \cap types, c - 1)
  <1> DEFINE L == d.row_layout
             N == Len(L)
             X == HaveXdlColumn
             s == Selected(L, X)
             n == c - 1
  <1>1. L \in Seq(TileTypes) /\ N \in Nat /\ n \in 0 .. N /\ N \in n .. N /\ N \in 0 .. N
    BY LayoutFacts, DeviceFacts DEF IsColumn
  <1>2. Count(L, X, n) = x
    BY DEF IsColumn
  <1>3. XdlBefore(d, x, types) = Len(Selected(SubSeq(s, 1, x), types))
    BY DEF XdlBefore, XdlLayout
  <1> HIDE DEF L, N, X, s, n
  <1>4. SubSeq(s, 1, x) = Selected(SubSeq(L, 1, n), X)
    <2>1. SubSeq(Selected(SubSeq(L, 1, N), X), 1, Count(L, X, n)) = Selected(SubSeq(L, 1, n), X)
      BY <1>1, CountGrows DEF N
    <2>2. Selected(SubSeq(L, 1, N), X) = s
      BY <1>1, SelectedAll DEF N, s
    <2> QED BY <1>2, <2>1, <2>2
  <1>5. Selected(Selected(SubSeq(L, 1, n), X), types) = Selected(SubSeq(L, 1, n), X \cap types)
    BY <1>1, SelectedTwice DEF N
  <1> QED BY <1>3, <1>4, <1>5 DEF Count, L, X, n

\* Of a block other than the block RAMs', the clock column is the only one without an XDL
\* coordinate.
LEMMA CountWithClock ==
    ASSUME NEW d, IsLaidOut(d), NEW type, type # d.block_type["BRAM"],
           NEW n \in 0 .. Len(d.row_layout)
    PROVE  Count(d.row_layout, InBlock(d, type), n) =
              Count(d.row_layout, HaveXdlColumn \cap InBlock(d, type), n)
                 + (IF Gclk(d) <= n /\ d.block_type["GCLK"] = type THEN 1 ELSE 0)
  <1> DEFINE L == d.row_layout
             N == Len(L)
             S == InBlock(d, type)
             A == HaveXdlColumn \cap S
             g == Gclk(d)
             More(k) == IF g <= k /\ d.block_type["GCLK"] = type THEN 1 ELSE 0
             T == {k \in Nat : k \in 0 .. N => Count(L, S, k) = Count(L, A, k) + More(k)}
  <1>1. L \in Seq(TileTypes)
    BY LayoutFacts, DeviceFacts
  <1>2. N \in Nat /\ g \in 2 .. N /\ \A c \in 1 .. N : L[c] = "GCLK" <=> c = g
    BY <1>1, LayoutFacts
  <1>3. \A c \in 1 .. N : /\ L[c] \in S /\ c # g => L[c] \in A
                          /\ L[c] \in A => L[c] \in S /\ c # g
                          /\ c = g => (L[c] \in S <=> d.block_type["GCLK"] = type) /\ L[c] \notin A
    <2> TAKE c \in 1 .. N
    <2>1. L[c] \in TileTypes
      BY <1>1
    <2>2. "GCLK" \in TileTypes /\ "GCLK" \notin HaveXdlColumn
      BY DEF TileTypes, HaveXdlColumn
    <2>3. L[c] \in S <=> d.block_type[L[c]] = type
      BY <2>1 DEF InBlock
    <2>4. L[c] = "GCLK" <=> c = g
      BY <1>2
    <2>5. L[c] = "BRAM" => L[c] \notin S
      BY <2>3
    <2>6. L[c] # "BRAM" /\ L[c] # "GCLK" => L[c] \in HaveXdlColumn
      BY <2>1 DEF HaveXdlColumn
    <2> HIDE DEF L, S, g
    <2> QED BY <2>2, <2>3, <2>4, <2>5, <2>6
  <1>4. Count(L, S, 0) = 0 /\ Count(L, A, 0) = 0
    BY <1>1, CountSteps
  <1>5. /\ \A k \in 0 .. Len(L) - 1 : /\ L[k + 1] \in S => Count(L, S, k + 1) = Count(L, S, k) + 1
                                      /\ L[k + 1] \notin S => Count(L, S, k + 1) = Count(L, S, k)
        /\ \A k \in 0 .. Len(L) : Count(L, S, k) \in Nat
    BY <1>1, CountSteps
  <1>6. /\ \A k \in 0 .. Len(L) - 1 : /\ L[k + 1] \in A => Count(L, A, k + 1) = Count(L, A, k) + 1
                                      /\ L[k + 1] \notin A => Count(L, A, k + 1) = Count(L, A, k)
        /\ \A k \in 0 .. Len(L) : Count(L, A, k) \in Nat
    BY <1>1, CountSteps
  <1> HIDE DEF L, S, A, g
  <1>7. 0 \in T
    BY <1>2, <1>4
  <1>8. ASSUME NEW k \in Nat, k \in T
        PROVE  k + 1 \in T
    <2> SUFFICES ASSUME k + 1 \in 0 .. N
                 PROVE  Count(L, S, k + 1) = Count(L, A, k + 1) + More(k + 1)
      OBVIOUS
    <2>1. k \in 0 .. N - 1 /\ k \in 0 .. N /\ k + 1 \in 1 .. N
      BY <1>2
    <2>2. Count(L, S, k) = Count(L, A, k) + More(k) /\ Count(L, A, k) \in Nat
      BY <1>6, <1>8, <2>1
    <2>3. CASE k + 1 = g
      <3>1. More(k) = 0 /\ Count(L, A, k + 1) = Count(L, A, k)
        BY <1>2, <1>3, <1>6, <2>1, <2>3
      <3>2. CASE d.block_type["GCLK"] = type
        <4>1. Count(L, S, k + 1) = Count(L, S, k) + 1
          BY <1>3, <1>5, <2>1, <2>3, <3>2
        <4>2. More(k + 1) = 1
          BY <1>2, <2>3, <3>2
        <4> QED BY <2>2, <3>1, <4>1, <4>2
      <3>3. CASE d.block_type["GCLK"] # type
        <4>1. Count(L, S, k + 1) = Count(L, S, k)
          BY <1>3, <1>5, <2>1, <2>3, <3>3
        <4>2. More(k + 1) = 0
          BY <3>3
        <4> QED BY <2>2, <3>1, <4>1, <4>2
      <3> QED BY <3>2, <3>3
    <2>4. CASE k + 1 # g
      <3>1. More(k + 1) = More(k)
        BY <1>2, <2>1, <2>4
      <3>2. CASE L[k + 1] \in S
        <4>1. /\ Count(L, S, k + 1) = Count(L, S, k) + 1
              /\ Count(L, A, k + 1) = Count(L, A, k) + 1
          BY <1>3, <1>5, <1>6, <2>1, <2>4, <3>2
        <4>2. More(k) \in Nat
          OBVIOUS
        <4> HIDE DEF More
        <4> QED BY <2>2, <3>1, <4>1, <4>2
      <3>3. CASE L[k + 1] \notin S
        <4>1. /\ Count(L, S, k + 1) = Count(L, S, k)
              /\ Count(L, A, k + 1) = Count(L, A, k)
          BY <1>3, <1>5, <1>6, <2>1, <2>4, <3>3
        <4> QED BY <2>2, <3>1, <4>1
      <3> QED BY <3>2, <3>3
    <2> QED BY <2>3, <2>4
  <1> HIDE DEF T
  <1>9. n \in Nat
    BY LayoutFacts, DeviceFacts
  <1>10. n \in T
    BY <1>7, <1>8, <1>9, SetInduction
  <1> QED BY <1>10 DEF T, L, N, S, A, g

\* As many block RAM columns as columns of their interconnect.
LEMMA CountOfBram ==
    ASSUME NEW d, IsLaidOut(d), NEW n \in 0 .. Len(d.row_layout) - 1
    PROVE  Count(d.row_layout, InBlock(d, d.block_type["BRAM"]), n + 1) =
              Count(d.row_layout, {"BRAM_INT"}, n)
  <1> DEFINE L == d.row_layout
             N == Len(L)
             S == InBlock(d, d.block_type["BRAM"])
             A == {"BRAM_INT"}
             T == {k \in Nat : k \in 0 .. N - 1 => Count(L, S, k + 1) = Count(L, A, k)}
  <1>1. L \in Seq(TileTypes) /\ N \in Nat /\ \A c \in 1 .. N : L[c] \in TileTypes
    BY LayoutFacts, DeviceFacts
  <1>2. \A c \in 1 .. N : L[c] \in S <=> L[c] = "BRAM"
    <2> TAKE c \in 1 .. N
    <2>1. L[c] \in TileTypes /\ "BRAM" \in TileTypes
      BY <1>1 DEF TileTypes
    <2>2. L[c] # "BRAM" => d.block_type[L[c]] # d.block_type["BRAM"]
      BY <2>1, LayoutFacts
    <2> QED BY <2>1, <2>2 DEF InBlock
  <1>3. \A c \in 1 .. N : /\ L[c] = "BRAM_INT" => c + 1 \in 1 .. N /\ L[c + 1] = "BRAM"
                          /\ L[c] = "BRAM" => c > 1 /\ L[c - 1] = "BRAM_INT"
    BY LayoutFacts
  <1>4. Count(L, S, 0) = 0 /\ Count(L, A, 0) = 0
    BY <1>1, CountSteps
  <1>5. /\ \A k \in 0 .. Len(L) - 1 : /\ L[k + 1] \in S => Count(L, S, k + 1) = Count(L, S, k) + 1
                                      /\ L[k + 1] \notin S => Count(L, S, k + 1) = Count(L, S, k)
        /\ \A k \in 0 .. Len(L) : Count(L, S, k) \in Nat
    BY <1>1, CountSteps
  <1>6. /\ \A k \in 0 .. Len(L) - 1 : /\ L[k + 1] \in A => Count(L, A, k + 1) = Count(L, A, k) + 1
                                      /\ L[k + 1] \notin A => Count(L, A, k + 1) = Count(L, A, k)
        /\ \A k \in 0 .. Len(L) : Count(L, A, k) \in Nat
    BY <1>1, CountSteps
  <1> HIDE DEF L, S
  <1>7. 0 \in T
    <2> SUFFICES ASSUME 0 \in 0 .. N - 1
                 PROVE  Count(L, S, 0 + 1) = Count(L, A, 0)
      OBVIOUS
    <2>1. 1 \in 1 .. N /\ 0 + 1 = 1
      BY <1>1
    <2>2. L[1] \notin S
      BY <1>2, <1>3, <2>1
    <2> QED BY <1>4, <1>5, <2>1, <2>2
  <1>8. ASSUME NEW k \in Nat, k \in T
        PROVE  k + 1 \in T
    <2> SUFFICES ASSUME k + 1 \in 0 .. N - 1
                 PROVE  Count(L, S, (k + 1) + 1) = Count(L, A, k + 1)
      OBVIOUS
    <2>1. /\ k \in 0 .. N - 1 /\ k + 1 \in 0 .. N - 1 /\ k + 1 \in 1 .. N
          /\ (k + 1) + 1 \in 1 .. N /\ ((k + 1) + 1) - 1 = k + 1
      BY <1>1
    <2>2. L[(k + 1) + 1] \in S <=> L[k + 1] \in A
      BY <1>2, <1>3, <2>1
    <2>3. Count(L, S, k + 1) = Count(L, A, k)
      BY <1>8, <2>1
    <2> HIDE DEF A
    <2>4. CASE L[k + 1] \in A
      BY <1>5, <1>6, <2>1, <2>2, <2>3, <2>4
    <2>5. CASE L[k + 1] \notin A
      BY <1>5, <1>6, <2>1, <2>2, <2>3, <2>5
    <2> QED BY <2>4, <2>5
  <1> HIDE DEF T
  <1>9. n \in Nat
    BY LayoutFacts, DeviceFacts
  <1>10. n \in T
    BY <1>7, <1>8, <1>9, SetInduction
  <1> QED BY <1>10 DEF T, L, N, S, A

\* frame_offset finds where in its block the device has a column's frames.
LEMMA FrameOffsetIs ==
    ASSUME NEW d, IsDevice(d), NEW c \in 1 .. Len(d.row_layout), NEW row \in 0 .. d.num_rows - 1, NEW m
    PROVE  /\ FrameOffset(d, FarOf(d, c, row, m)) = CellInBlock(d, c, row)
           /\ CellInBlock(d, c, row) \in Nat
  <1> DEFINE L == d.row_layout
             N == Len(L)
             type == BlockOf(d, c)
             S == InBlock(d, type)
             far == FarOf(d, c, row, m)
             half == d.num_rows \div 2
             W == RowWidth(d, type)
             n == c - 1
  <1>1. L \in Seq(TileTypes) /\ N \in Nat /\ n \in 0 .. N /\ N \in n .. N /\ N \in 0 .. N
    BY DeviceFacts
  <1>2. far.type = type /\ far.col = Count(L, S, n)
    BY DEF FarOf
  <1>3. far.tb = (IF row < half THEN 1 ELSE 0) /\ far.row = (IF row < half THEN half - 1 - row ELSE row - half)
    BY DEF FarOf
  <1>4. /\ W \in Nat /\ half \in Nat /\ d.num_rows = 2 * half /\ Before(d, type, n) \in Nat
        /\ Position(d, row) \in Nat
    <2>1. half \in Nat /\ d.num_rows = 2 * half
      BY DeviceFacts
    <2>2. W \in Nat
      BY BeforeSteps
    <2>3. Before(d, type, n) \in Nat
      <3> HIDE DEF type, n
      <3> QED BY <1>1, BeforeSteps
    <2>4. Position(d, row) \in Nat
      BY ClockRowsAre
    <2> QED BY <2>1, <2>2, <2>3, <2>4
  <1>5. FramesOf(d, SubSeq(ColumnsOf(d, type), 1, far.col)) = Before(d, type, n)
    <2>1. SubSeq(Selected(SubSeq(L, 1, N), S), 1, Count(L, S, n)) = Selected(SubSeq(L, 1, n), S)
      <3> HIDE DEF L, S, n
      <3> QED BY <1>1, CountGrows
    <2>2. Selected(SubSeq(L, 1, N), S) = Selected(L, S)
      <3> HIDE DEF L, S
      <3> QED BY <1>1, SelectedAll
    <2> QED BY <1>2, <2>1, <2>2 DEF ColumnsOf, Before
  <1>6. (IF far.tb = 0 THEN far.row ELSE far.row + half) = Position(d, row)
    <2> HIDE DEF half, far
    <2>1. Position(d, row) = IF row >= half THEN row - half ELSE d.num_rows - 1 - row
      BY DEF Position, half
    <2> QED BY <1>3, <1>4, <2>1
  <1>7. FrameOffset(d, far) = (IF far.tb = 0 THEN far.row ELSE far.row + half) * W + Before(d, type, n)
    BY <1>2, <1>5 DEF FrameOffset
  <1>8. CellInBlock(d, c, row) = Position(d, row) * W + Before(d, type, n)
    BY DEF CellInBlock
  <1> HIDE DEF far, W, half, type, n
  <1>9. Position(d, row) * W \in Nat
    BY <1>4
  <1>10. CellInBlock(d, c, row) \in Nat
    BY <1>4, <1>8, <1>9
  <1> QED BY <1>6, <1>7, <1>8, <1>10 DEF far

\* The clock row of a tile.
LEMMA RowOfTile ==
    ASSUME NEW d, IsDevice(d)
    PROVE  /\ ChipHeight(d) \in Nat
           /\ \A y \in 0 .. ChipHeight(d) - 1 : y \div d.frame_height \in 0 .. d.num_rows - 1
           /\ \A row \in 0 .. d.num_rows - 1 : /\ row * d.frame_height \in 0 .. ChipHeight(d) - 1
                                               /\ (row * d.frame_height) \div d.frame_height = row
  <1> DEFINE R == d.num_rows
             h == d.frame_height
  <1>1. R \in Nat /\ h \in Nat /\ h > 0 /\ ChipHeight(d) = R * h
    BY DeviceFacts DEF ChipHeight
  <1> HIDE DEF R, h
  <1>2. R * h \in Nat
    BY <1>1
  <1>3. \A y \in 0 .. R * h - 1 : y \div h \in 0 .. R - 1
    BY <1>1
  <1>4. ASSUME NEW row \in 0 .. R - 1
        PROVE  row * h \in 0 .. R * h - 1 /\ (row * h) \div h = row
    <2>1. row * h \in Nat /\ (row + 1) * h <= R * h /\ (row + 1) * h = row * h + h
      BY <1>1
    <2>2. (row * h + 0) \div h = row
      BY <1>1
    <2> QED BY <1>1, <1>2, <2>1, <2>2
  <1> QED BY <1>1, <1>2, <1>3, <1>4 DEF R, h

\* Where tilecoord_to_major puts a tile is where the device has its column and clock row.
LEMMA TileAddress ==
    ASSUME NEW d, IsLaidOut(d), NEW x, NEW c, IsColumn(d, x, c), NEW y \in 0 .. ChipHeight(d) - 1
    PROVE  LET row == y \div d.frame_height
               far == TilecoordToMajor(d, x, y)
           IN  /\ far = FarOf(d, c, row, 0) /\ row \in 0 .. d.num_rows - 1
               /\ BlockStart(d, far.type) + FrameOffset(d, far) = CellStart(d, c, row)
  <1> DEFINE L == d.row_layout
             row == y \div d.frame_height
             far == TilecoordToMajor(d, x, y)
             type == BlockOf(d, c)
             S == InBlock(d, type)
             half == d.num_rows \div 2
             g == Gclk(d)
             X == HaveXdlColumn
             over == IF x > GclkIndex(d) /\ type = d.block_type["GCLK"] THEN 1 ELSE 0
  <1>1. IsDevice(d) /\ row \in 0 .. d.num_rows - 1
    BY LayoutFacts, RowOfTile
  <1>2. /\ c \in 1 .. Len(L) /\ L[c] \in X /\ L[c] \in TileTypes /\ Count(L, X, c - 1) = x
        /\ XdlTileType(d, x) = L[c]
    BY ColumnsOfXdl, <1>1, DeviceFacts DEF IsColumn
  <1>3. type # d.block_type["BRAM"]
    <2>1. L[c] \in TileTypes \ {"BRAM"}
      BY <1>2 DEF HaveXdlColumn
    <2> QED BY <2>1, LayoutFacts DEF BlockOf
  <1>4. half \in Nat /\ d.num_rows = 2 * half /\ Len(L) \in Nat /\ L \in Seq(TileTypes)
    BY <1>1, DeviceFacts
  <1>5. far = [type |-> type, tb |-> HalfAndRow(d, y)[1], row |-> HalfAndRow(d, y)[2],
               col |-> XdlBefore(d, x, S) + over, mna |-> 0]
    BY <1>2 DEF TilecoordToMajor, BlockOf
  <1>6. HalfAndRow(d, y) = IF row + 1 > half THEN <<0, row - half>> ELSE <<1, half - row - 1>>
    BY DEF HalfAndRow
  <1>7. GclkIndex(d) = Count(L, X, g) - 1
    <2> DEFINE I == {i \in 1 .. Len(L) : L[i] = "GCLK"}
    <2>1. g \in 2 .. Len(L) /\ \A i \in 1 .. Len(L) : L[i] = "GCLK" <=> i = g
      BY LayoutFacts
    <2>2. I = {g} /\ g \in Nat
      BY <1>4, <2>1
    <2>3. Max(I) = g
      BY <2>2 DEF Max
    <2>4. SelectLastInSeq(L, LAMBDA t : t = "GCLK") = g
      BY <2>2, <2>3 DEF SelectLastInSeq
    <2> QED BY <2>4 DEF GclkIndex, Count
  <1>8. XdlBefore(d, x, S) = Count(L, X \cap S, c - 1)
    BY XdlBeforeIs
  <1>9. g \in 2 .. Len(L) /\ L[g] = "GCLK" /\ c # g
    <2>1. g \in 2 .. Len(L) /\ L[g] = "GCLK"
      BY <1>4, LayoutFacts
    <2>2. "GCLK" \notin X
      BY DEF HaveXdlColumn
    <2> QED BY <1>2, <2>1, <2>2
  <1>10. x > GclkIndex(d) <=> g <= c - 1
    <2> HIDE DEF L, X, g
    <2>1. \A n \in 0 .. Len(L) : Count(L, X, n) \in Nat
      BY <1>4, CountSteps
    <2>2. CASE g < c
      <3>1. g \in 0 .. Len(L) /\ c - 1 \in g .. Len(L)
        BY <1>2, <1>4, <1>9, <2>2
      <3>2. Count(L, X, g) <= Count(L, X, c - 1)
        BY <1>4, <3>1, CountGrows
      <3>3. Count(L, X, g) \in Nat /\ Count(L, X, c - 1) \in Nat
        BY <1>4, <2>1, <3>1
      <3>4. x > GclkIndex(d)
        BY <1>2, <1>7, <3>2, <3>3
      <3> QED BY <1>2, <1>4, <1>9, <2>2, <3>4
    <2>3. CASE c < g
      <3> DEFINE n == c - 1
      <3>1. n \in 0 .. Len(L) - 1 /\ n + 1 = c /\ c \in 0 .. Len(L) /\ g \in c .. Len(L) /\ n \in 0 .. Len(L)
        BY <1>2, <1>4, <1>9, <2>3
      <3> HIDE DEF n
      <3>2. Count(L, X, n + 1) = Count(L, X, n) + 1
        BY <1>2, <1>4, <3>1, CountSteps
      <3>3. Count(L, X, c) <= Count(L, X, g)
        BY <1>4, <3>1, CountGrows
      <3>4. Count(L, X, n) \in Nat /\ Count(L, X, g) \in Nat
        BY <1>4, <1>9, <2>1, <3>1
      <3>5. ~(x > GclkIndex(d))
        BY <1>2, <1>7, <3>1, <3>2, <3>3, <3>4 DEF n
      <3> QED BY <1>2, <1>4, <1>9, <2>3, <3>5
    <2> QED BY <1>2, <1>4, <1>9, <2>2, <2>3
  <1>11. XdlBefore(d, x, S) + over = Count(L, S, c - 1)
    <2>1. c - 1 \in 0 .. Len(L)
      BY <1>2, <1>4
    <2>2. Count(L, S, c - 1) = Count(L, X \cap S, c - 1)
              + (IF g <= c - 1 /\ d.block_type["GCLK"] = type THEN 1 ELSE 0)
      BY <1>3, <2>1, CountWithClock
    <2>3. over = IF g <= c - 1 /\ d.block_type["GCLK"] = type THEN 1 ELSE 0
      BY <1>10
    <2> QED BY <1>8, <2>2, <2>3
  <1>12. far = FarOf(d, c, row, 0)
    <2> HIDE DEF L, S, type, half, over, row
    <2>1. FarOf(d, c, row, 0) = [type |-> type,
              tb |-> IF row < half THEN 1 ELSE 0,
              row |-> IF row < half THEN half - 1 - row ELSE row - half,
              col |-> Count(L, S, c - 1), mna |-> 0]
      BY DEF FarOf, L, S, type, half
    <2>2. HalfAndRow(d, y)[1] = IF row < half THEN 1 ELSE 0
      BY <1>1, <1>4, <1>6
    <2>3. HalfAndRow(d, y)[2] = IF row < half THEN half - 1 - row ELSE row - half
      BY <1>1, <1>4, <1>6
    <2> QED BY <1>5, <1>11, <2>1, <2>2, <2>3
  <1>13. far.type = type
    BY <1>12 DEF FarOf
  <1>14. FrameOffset(d, far) = CellInBlock(d, c, row)
    BY <1>1, <1>2, <1>12, FrameOffsetIs
  <1>15. BlockStart(d, far.type) + FrameOffset(d, far) = CellStart(d, c, row)
    BY <1>13, <1>14 DEF CellStart
  <1> QED BY <1>1, <1>12, <1>15

\* Where bramcoord_to_major puts a tile is where the device has the next column.
LEMMA BramAddress ==
    ASSUME NEW d, IsLaidOut(d), NEW x, NEW c, IsColumn(d, x, c), d.row_layout[c] = "BRAM_INT",
           NEW y \in 0 .. ChipHeight(d) - 1
    PROVE  LET row == y \div d.frame_height
               far == BramcoordToMajor(d, x, y)
           IN  /\ far = FarOf(d, c + 1, row, 0) /\ row \in 0 .. d.num_rows - 1
               /\ c + 1 \in 1 .. Len(d.row_layout) /\ d.row_layout[c + 1] = "BRAM"
               /\ BlockStart(d, far.type) + FrameOffset(d, far) = CellStart(d, c + 1, row)
  <1> DEFINE L == d.row_layout
             row == y \div d.frame_height
             far == BramcoordToMajor(d, x, y)
             type == BlockOf(d, c + 1)
             half == d.num_rows \div 2
  <1>1. IsDevice(d) /\ row \in 0 .. d.num_rows - 1
    BY LayoutFacts, RowOfTile
  <1>2. c \in 1 .. Len(L) /\ c + 1 \in 1 .. Len(L) /\ L[c + 1] = "BRAM" /\ Len(L) \in Nat
    BY <1>1, LayoutFacts, DeviceFacts DEF IsColumn
  <1>3. type = d.block_type["BRAM"]
    BY <1>2 DEF BlockOf
  <1>4. XdlBefore(d, x, {"BRAM_INT"}) = Count(L, InBlock(d, type), c)
    <2>1. XdlBefore(d, x, {"BRAM_INT"}) = Count(L, HaveXdlColumn \cap {"BRAM_INT"}, c - 1)
      BY XdlBeforeIs
    <2>2. HaveXdlColumn \cap {"BRAM_INT"} = {"BRAM_INT"}
      BY DEF HaveXdlColumn, TileTypes
    <2>3. c - 1 \in 0 .. Len(L) - 1 /\ (c - 1) + 1 = c
      BY <1>2
    <2>4. Count(L, InBlock(d, d.block_type["BRAM"]), (c - 1) + 1) = Count(L, {"BRAM_INT"}, c - 1)
      BY <2>3, CountOfBram
    <2> QED BY <1>3, <2>1, <2>2, <2>3, <2>4
  <1>5. TilecoordToMajor(d, x, y) = FarOf(d, c, row, 0)
    BY TileAddress
  <1>6. far = FarOf(d, c + 1, row, 0)
    <2>1. far = [FarOf(d, c, row, 0) EXCEPT !.type = type, !.col = Count(L, InBlock(d, type), c)]
      BY <1>3, <1>4, <1>5 DEF BramcoordToMajor
    <2>2. (c + 1) - 1 = c
      BY <1>2
    <2> QED BY <2>1, <2>2 DEF FarOf
  <1>7. far.type = type
    BY <1>6 DEF FarOf
  <1>8. FrameOffset(d, far) = CellInBlock(d, c + 1, row)
    BY <1>1, <1>2, <1>6, FrameOffsetIs
  <1> QED BY <1>1, <1>2, <1>6, <1>7, <1>8 DEF CellStart

\* The frames after those of the column to its left are the clock column's; so are those that
\* the address has one column on.
LEMMA ClockAddress ==
    ASSUME NEW d, IsLaidOut(d), NEW y \in 0 .. ChipHeight(d) - 1
    PROVE  LET row == y \div d.frame_height
               left == TilecoordToMajor(d, GclkIndex(d), y)
               next == [left EXCEPT !.col = @ + 1]
           IN  /\ row \in 0 .. d.num_rows - 1
               /\ next = FarOf(d, Gclk(d), row, 0)
               /\ FrameOffset(d, left) + d.tile_frames[XdlTileType(d, GclkIndex(d))] =
                     CellStart(d, Gclk(d), row)
               /\ FrameOffset(d, next) = CellStart(d, Gclk(d), row)
               /\ IsColumn(d, GclkIndex(d), Gclk(d) - 1)
  <1> DEFINE L == d.row_layout
             g == Gclk(d)
             c == g - 1
             row == y \div d.frame_height
             left == TilecoordToMajor(d, GclkIndex(d), y)
             next == [left EXCEPT !.col = @ + 1]
             S == InBlock(d, 0)
             W == RowWidth(d, 0)
             X == HaveXdlColumn
  <1>1. IsDevice(d) /\ row \in 0 .. d.num_rows - 1
    BY LayoutFacts, RowOfTile
  <1>2. L \in Seq(TileTypes) /\ Len(L) \in Nat
    BY <1>1, DeviceFacts
  <1>3. /\ g \in 2 .. Len(L) /\ L[g] = "GCLK" /\ L[c] \in X
        /\ BlockOf(d, c) = 0 /\ BlockOf(d, g) = 0
        /\ c \in 1 .. Len(L) /\ c - 1 \in 0 .. Len(L) - 1 /\ (c - 1) + 1 = c /\ c \in 0 .. Len(L) - 1 /\ c + 1 = g
        /\ g \in 1 .. Len(L)
    <2>1. /\ g \in 2 .. Len(L) /\ L[g - 1] \in X /\ BlockOf(d, g - 1) = 0 /\ BlockOf(d, g) = 0
          /\ \A i \in 1 .. Len(L) : L[i] = "GCLK" <=> i = g
      BY LayoutFacts
    <2> HIDE DEF L, X, g
    <2>2. /\ c \in 1 .. Len(L) /\ c - 1 \in 0 .. Len(L) - 1 /\ (c - 1) + 1 = c
          /\ c \in 0 .. Len(L) - 1 /\ c + 1 = g /\ g \in 1 .. Len(L)
      BY <1>2, <2>1
    <2> QED BY <2>1, <2>2
  <1>4. IsColumn(d, GclkIndex(d), c)
    <2> DEFINE I == {i \in 1 .. Len(L) : L[i] = "GCLK"}
    <2>1. \A i \in 1 .. Len(L) : L[i] = "GCLK" <=> i = g
      BY LayoutFacts
    <2>2. I = {g} /\ g \in Nat
      BY <1>2, <1>3, <2>1
    <2>3. Max(I) = g
      BY <2>2 DEF Max
    <2>4. SelectLastInSeq(L, LAMBDA t : t = "GCLK") = g
      BY <2>2, <2>3 DEF SelectLastInSeq
    <2>5. GclkIndex(d) = Count(L, X, g) - 1
      BY <2>4 DEF GclkIndex, Count
    <2>6. "GCLK" \notin X
      BY DEF HaveXdlColumn
    <2> HIDE DEF L, X, c, g
    <2>7. Count(L, X, c + 1) = Count(L, X, c)
      BY <1>2, <1>3, <2>6, CountSteps
    <2>8. Count(L, X, (c - 1) + 1) = Count(L, X, c - 1) + 1
      BY <1>2, <1>3, CountSteps
    <2>9. Count(L, X, c - 1) \in Nat
      <3>1. c - 1 \in 0 .. Len(L)
        BY <1>2, <1>3
      <3> QED BY <1>2, <3>1, CountSteps
    <2>10. Count(L, X, c - 1) = GclkIndex(d)
      BY <1>3, <2>5, <2>7, <2>8, <2>9
    <2> QED BY <1>3, <2>10 DEF IsColumn, L, X
  <1>5. left = FarOf(d, c, row, 0)
    BY <1>4, TileAddress
  <1>6. XdlTileType(d, GclkIndex(d)) = L[c]
    BY <1>4, ColumnsOfXdl
  <1>7. Count(L, S, g - 1) = Count(L, S, c - 1) + 1
    <2>1. L[c] \in TileTypes
      BY <1>1, <1>3, DeviceFacts
    <2>2. L[c] \in S
      BY <1>3, <2>1 DEF InBlock, BlockOf
    <2> HIDE DEF L, S, c
    <2>3. Count(L, S, (c - 1) + 1) = Count(L, S, c - 1) + 1
      BY <1>2, <1>3, <2>2, CountSteps
    <2> QED BY <1>3, <2>3 DEF c
  <1>8. next = FarOf(d, g, row, 0)
    <2>1. left.col = Count(L, S, c - 1)
      BY <1>3, <1>5 DEF FarOf
    <2> QED BY <1>3, <1>5, <1>7, <2>1 DEF FarOf
  <1>9. Before(d, 0, g - 1) = Before(d, 0, c - 1) + Minors(d, c)
    <2>1. Before(d, 0, (c - 1) + 1) = Before(d, 0, c - 1)
             + (IF d.block_type[L[(c - 1) + 1]] = 0 THEN d.tile_frames[L[(c - 1) + 1]] ELSE 0)
      <3> DEFINE n == c - 1
      <3>1. n \in 0 .. Len(d.row_layout) - 1
        BY <1>3
      <3> HIDE DEF n
      <3>2. Before(d, 0, n + 1) = Before(d, 0, n)
               + (IF d.block_type[d.row_layout[n + 1]] = 0 THEN d.tile_frames[d.row_layout[n + 1]] ELSE 0)
        BY <1>1, <3>1, BeforeSteps
      <3> QED BY <3>2 DEF n
    <2> QED BY <1>3, <2>1 DEF Minors, BlockOf
  <1>10. CellStart(d, g, row) = CellInBlock(d, g, row)
    <2>1. BlockStart(d, 0) = 0 /\ CellInBlock(d, g, row) \in Nat
      BY <1>1, <1>3, BlockStartSteps, FrameOffsetIs
    <2> QED BY <1>3, <2>1 DEF CellStart
  <1>11. FrameOffset(d, next) = CellStart(d, g, row)
    BY <1>1, <1>3, <1>8, <1>10, FrameOffsetIs
  <1>12. FrameOffset(d, left) + Minors(d, c) = CellStart(d, g, row)
    <2>1. FrameOffset(d, left) = CellInBlock(d, c, row)
      BY <1>1, <1>3, <1>5, FrameOffsetIs
    <2> DEFINE u == Position(d, row) * W
               b == Before(d, 0, c - 1)
               m == Minors(d, c)
    <2>2. u \in Nat /\ b \in Nat /\ m \in Nat
      <3>1. Position(d, row) \in Nat /\ W \in Nat
        BY <1>1, ClockRowsAre, BeforeSteps
      <3>2. c - 1 \in 0 .. Len(L)
        BY <1>2, <1>3
      <3>3. b \in Nat
        BY <1>1, <3>2, BeforeSteps
      <3>4. m \in Nat
        BY <1>1, <1>3, FrameOfType
      <3> HIDE DEF W, b, m
      <3> QED BY <3>1, <3>3, <3>4
    <2>3. CellInBlock(d, c, row) = u + b
      BY <1>3 DEF CellInBlock
    <2>4. CellInBlock(d, g, row) = u + (b + m)
      BY <1>3, <1>9 DEF CellInBlock
    <2> HIDE DEF u, b, m
    <2>5. FrameOffset(d, left) + m = CellStart(d, g, row)
      <3> HIDE DEF left, g, row, c
      <3> QED BY <1>10, <2>1, <2>2, <2>3, <2>4
    <2> QED BY <2>5 DEF m
  <1>13. Minors(d, c) = d.tile_frames[XdlTileType(d, GclkIndex(d))]
    BY <1>6 DEF Minors
  <1> QED BY <1>1, <1>4, <1>8, <1>11, <1>12, <1>13
=============================================================================
