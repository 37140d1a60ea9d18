------------------------------ MODULE Induction -----------------------------
(***************************************************************************)
(* Induction over data, for the proof modules.  The induction theorems of  *)
(* the library are about predicates; here the numbers that have a property *)
(* are a set, and the least number outside of it is a contradiction.       *)
(***************************************************************************)
EXTENDS Selection, WellFoundedInduction, TLAPS

LessThan == {p \in Nat \X Nat : p[1] < p[2]}

LEMMA LessThanIsWellFounded == IsWellFoundedOn(LessThan, Nat)
  <1>1. OpToRel(<, Nat) = LessThan
    BY Zenon DEF OpToRel, LessThan
  <1> QED BY <1>1, NatLessThanWellFounded

LEMMA LeastElement ==
    ASSUME NEW T \in SUBSET Nat, T # {}
    PROVE  \E x \in T : \A y \in T : x <= y
  <1>1. PICK x \in T : \A y \in T : ~(<<y, x>> \in LessThan)
    BY LessThanIsWellFounded, WFMin
  <1>2. ASSUME NEW y \in T
        PROVE  x <= y
    <2>1. x \in Nat /\ y \in Nat /\ ~(<<y, x>> \in LessThan)
      BY <1>1
    <2> QED BY <2>1 DEF LessThan
  <1> QED BY <1>2

LEMMA SetInduction ==
    ASSUME NEW S, 0 \in S, \A n \in Nat : n \in S => n + 1 \in S
    PROVE  \A n \in Nat : n \in S
  <1> SUFFICES ASSUME Nat \ S # {}
               PROVE  FALSE
    OBVIOUS
  <1>1. PICK x \in Nat \ S : \A y \in Nat \ S : x <= y
    BY LeastElement
  <1>2. x - 1 \in Nat /\ x - 1 \notin Nat \ S
    BY <1>1
  <1>3. (x - 1) + 1 \in S
    BY <1>2
  <1> QED BY <1>3

\* The same up to a bound.
LEMMA IndexInduction ==
    ASSUME NEW n \in Nat, NEW S, 0 \in S, \A i \in 0 .. n - 1 : i \in S => i + 1 \in S
    PROVE  \A i \in 0 .. n : i \in S
  <1> DEFINE T == {i \in Nat : i \in 0 .. n => i \in S}
  <1>1. 0 \in T
    OBVIOUS
  <1>2. ASSUME NEW i \in Nat, i \in T
        PROVE  i + 1 \in T
    <2>1. CASE i + 1 \in 0 .. n
      <3>1. i \in 0 .. n - 1
        BY <2>1
      <3> QED BY <3>1, <1>2
    <2>2. CASE i + 1 \notin 0 .. n
      BY <2>2
    <2> QED BY <2>1, <2>2
  <1> HIDE DEF T
  <1>3. \A i \in Nat : i \in T
    BY <1>1, <1>2, SetInduction
  <1> QED BY <1>3 DEF T

\* A set of indices has a greatest one.
LEMMA MaxOfIndices ==
    ASSUME NEW n \in Nat, NEW S \in SUBSET (0 .. n), S # {}
    PROVE  Max(S) \in S /\ \A i \in S : i <= Max(S)
  <1> DEFINE T == {n - i : i \in S}
  <1>1. T \in SUBSET Nat /\ T # {}
    <2>1. \A i \in S : i \in 0 .. n /\ n - i \in Nat
      OBVIOUS
    <2> QED BY <2>1
  <1>2. PICK x \in T : \A y \in T : x <= y
    BY <1>1, LeastElement
  <1>3. PICK m \in S : x = n - m
    BY <1>2
  <1>4. \A i \in S : m >= i
    <2> TAKE i \in S
    <2>1. n - i \in T
      OBVIOUS
    <2>2. n - m <= n - i
      BY <2>1, <1>2, <1>3
    <2>3. i \in 0 .. n /\ m \in 0 .. n
      OBVIOUS
    <2> QED BY <2>2, <2>3
  <1>5. \E y \in S : \A i \in S : y >= i
    BY <1>4
  <1> QED BY <1>5 DEF Max

\* A fold takes the greatest index off, and is defined by what is left.
LEMMA WithoutMax ==
    ASSUME NEW m \in Nat, NEW S \in SUBSET (1 .. m + 1), S # {}
    PROVE  S \ {Max(S)} \in SUBSET (1 .. m)
  <1>1. S \in SUBSET (0 .. m + 1) /\ m + 1 \in Nat
    OBVIOUS
  <1>2. Max(S) \in S /\ \A i \in S : i <= Max(S)
    BY <1>1, MaxOfIndices
  <1>3. ASSUME NEW i \in S \ {Max(S)}
        PROVE  i \in 1 .. m
    <2>1. i <= Max(S) /\ i # Max(S) /\ i \in 1 .. m + 1 /\ Max(S) \in 1 .. m + 1
      BY <1>2
    <2> QED BY <2>1
  <1> QED BY <1>3

LEMMA MaxOfFirst ==
    ASSUME NEW n \in Nat, NEW k \in 1 .. n
    PROVE  /\ 1 .. k # {} /\ 1 .. k \in SUBSET (1 .. n)
           /\ Max(1 .. k) = k
           /\ (1 .. k) \ {Max(1 .. k)} = 1 .. (k - 1)
           /\ 1 .. (k - 1) \in SUBSET (1 .. n)
  <1>1. /\ 1 .. k # {} /\ 1 .. k \in SUBSET (1 .. n) /\ 1 .. k \in SUBSET (0 .. k)
        /\ k \in Nat /\ k \in 1 .. k
    OBVIOUS
  <1>2. Max(1 .. k) \in 1 .. k /\ \A i \in 1 .. k : i <= Max(1 .. k)
    BY <1>1, MaxOfIndices
  <1>3. Max(1 .. k) = k
    BY <1>1, <1>2
  <1> QED BY <1>1, <1>3

-----------------------------------------------------------------------------
\* FlattenSeq's function.
FlatAt(f, d, i) == IF i = 1 THEN d[i] ELSE f[i - 1] \o d[i]
IsFlat(f, d, n) == f = [i \in 1 .. n |-> FlatAt(f, d, i)]

LEMMA FlatExists ==
    ASSUME NEW d, NEW n \in Nat
    PROVE  \E f : IsFlat(f, d, n)
  <1> DEFINE S == {m \in Nat : \E f : IsFlat(f, d, m)}
  <1>1. 0 \in S
    <2> DEFINE f == [i \in 1 .. 0 |-> d[i]]
    <2>1. \A i \in 1 .. 0 : FALSE
      OBVIOUS
    <2>2. IsFlat(f, d, 0)
      BY <2>1 DEF IsFlat
    <2> QED BY <2>2
  <1>2. ASSUME NEW m \in Nat, m \in S
        PROVE  m + 1 \in S
    <2>1. PICK f : IsFlat(f, d, m)
      BY <1>2
    <2> DEFINE g == [i \in 1 .. m + 1 |-> FlatAt(f, d, i)]
    <2>2. \A i \in 1 .. m : g[i] = f[i]
      <3>1. 1 .. m \subseteq 1 .. m + 1
        OBVIOUS
      <3> QED BY <2>1, <3>1 DEF IsFlat
    <2>3. \A i \in 1 .. m + 1 : i # 1 => i - 1 \in 1 .. m
      OBVIOUS
    <2>4. \A i \in 1 .. m + 1 : FlatAt(f, d, i) = FlatAt(g, d, i)
      <3> HIDE DEF g
      <3> QED BY <2>2, <2>3 DEF FlatAt
    <2>5. IsFlat(g, d, m + 1)
      BY <2>4 DEF IsFlat
    <2> QED BY <2>5
  <1> HIDE DEF S
  <1>3. n \in S
    BY <1>1, <1>2, SetInduction
  <1> QED BY <1>3 DEF S

LEMMA FlatIsUnique ==
    ASSUME NEW d, NEW n \in Nat, NEW m \in Nat, n <= m,
           NEW f, IsFlat(f, d, n), NEW g, IsFlat(g, d, m)
    PROVE  \A i \in 1 .. n : f[i] = g[i]
  <1> DEFINE S == {k \in Nat : k \in 1 .. n => f[k] = g[k]}
  <1>1. 0 \in S
    OBVIOUS
  <1>2. ASSUME NEW k \in Nat, k \in S
        PROVE  k + 1 \in S
    <2>1. CASE k + 1 \notin 1 .. n
      BY <2>1
    <2>2. CASE k + 1 \in 1 .. n
      <3>1. k + 1 \in 1 .. m /\ (k + 1 # 1 => k \in 1 .. n)
        BY <2>2
      <3>2. f[k + 1] = FlatAt(f, d, k + 1)
        BY <2>2 DEF IsFlat
      <3>3. g[k + 1] = FlatAt(g, d, k + 1)
        BY <3>1 DEF IsFlat
      <3>4. (k + 1) - 1 = k
        OBVIOUS
      <3> QED BY <1>2, <3>1, <3>2, <3>3, <3>4 DEF FlatAt
    <2> QED BY <2>1, <2>2
  <1> HIDE DEF S
  <1>3. \A k \in Nat : k \in S
    BY <1>1, <1>2, SetInduction
  <1> QED BY <1>3 DEF S

LEMMA FlattenOfFirst ==
    ASSUME NEW d, Len(d) \in Nat, NEW n \in 1 .. Len(d), NEW f, IsFlat(f, d, n)
    PROVE  FlattenSeq(SubSeq(d, 1, n)) = f[n]
  <1> DEFINE s == SubSeq(d, 1, n)
  <1>1. Len(s) = n /\ \A i \in 1 .. n : s[i] = d[i]
    OBVIOUS
  <1> HIDE DEF s
  <1>2. PICK g : IsFlat(g, s, n)
    BY FlatExists
  <1> DEFINE h == CHOOSE h : h = [i \in 1 .. Len(s) |-> IF i = 1 THEN s[i] ELSE h[i - 1] \o s[i]]
  <1>3. FlattenSeq(s) = h[n]
    BY <1>1 DEF FlattenSeq
  <1>4. IsFlat(h, s, n)
    BY <1>1, <1>2 DEF IsFlat, FlatAt
  <1> HIDE DEF h
  <1>5. IsFlat(h, d, n)
    BY <1>1, <1>4 DEF IsFlat, FlatAt
  <1>6. h[n] = f[n]
    BY <1>5, FlatIsUnique
  <1> QED BY <1>3, <1>6 DEF s

\* The sequences in d, as far as the n-th, one after the other.
Prefix(d, n) == FlattenSeq(SubSeq(d, 1, n))

LEMMA PrefixSteps ==
    ASSUME NEW S, NEW d \in Seq(Seq(S))
    PROVE  /\ Prefix(d, 0) = <<>>
           /\ \A n \in 0 .. Len(d) - 1 : Prefix(d, n + 1) = Prefix(d, n) \o d[n + 1]
           /\ Prefix(d, Len(d)) = FlattenSeq(d)
  <1>1. Prefix(d, 0) = <<>>
    <2>1. SubSeq(d, 1, 0) = <<>> /\ Len(<<>>) = 0
      OBVIOUS
    <2> QED BY <2>1 DEF Prefix, FlattenSeq
  <1>2. ASSUME NEW n \in 0 .. Len(d) - 1
        PROVE  Prefix(d, n + 1) = Prefix(d, n) \o d[n + 1]
    <2>1. n \in Nat /\ n + 1 \in 1 .. Len(d) /\ (n + 1) - 1 = n /\ Len(d) \in Nat /\ n + 1 \in Nat
      OBVIOUS
    <2>2. PICK f : IsFlat(f, d, n)
      BY <2>1, FlatExists
    <2>3. PICK g : IsFlat(g, d, n + 1)
      BY <2>1, FlatExists
    <2>4. Prefix(d, n + 1) = g[n + 1]
      BY <2>1, <2>3, FlattenOfFirst DEF Prefix
    <2>5. CASE n = 0
      <3>1. g[1] = d[1]
        BY <2>3, <2>5 DEF IsFlat, FlatAt
      <3>2. d[1] \in Seq(S)
        BY <2>1, <2>5
      <3>3. <<>> \o d[1] = d[1]
        BY <3>2
      <3> QED BY <1>1, <2>4, <2>5, <3>1, <3>3
    <2>6. CASE n # 0
      <3>1. n \in 1 .. n /\ n \in 1 .. Len(d) /\ n + 1 # 1
        BY <2>6
      <3>2. Prefix(d, n) = f[n]
        BY <3>1, <2>1, <2>2, FlattenOfFirst DEF Prefix
      <3>3. f[n] = g[n]
        <4>1. n <= n + 1 /\ n + 1 \in Nat
          BY <2>1
        <4>2. \A i \in 1 .. n : f[i] = g[i]
          BY <4>1, <2>1, <2>2, <2>3, FlatIsUnique
        <4> QED BY <4>2, <3>1
      <3>4. g[n + 1] = g[(n + 1) - 1] \o d[n + 1]
        <4>1. n + 1 \in 1 .. n + 1
          BY <2>1
        <4>2. g[n + 1] = FlatAt(g, d, n + 1)
          BY <2>3, <4>1 DEF IsFlat
        <4> QED BY <3>1, <4>2 DEF FlatAt
      <3> QED BY <2>1, <2>4, <3>2, <3>3, <3>4
    <2> QED BY <2>5, <2>6
  <1>3. Prefix(d, Len(d)) = FlattenSeq(d)
    <2>1. SubSeq(d, 1, Len(d)) = d
      OBVIOUS
    <2> QED BY <2>1 DEF Prefix
  <1> QED BY <1>1, <1>2, <1>3

LEMMA FlattenAppended ==
    ASSUME NEW S, NEW t \in Seq(Seq(S)), NEW s \in Seq(S)
    PROVE  FlattenSeq(Append(t, s)) = FlattenSeq(t) \o s
  <1> DEFINE u == Append(t, s)
             n == Len(t)
  <1>1. /\ u \in Seq(Seq(S)) /\ Len(u) = n + 1 /\ n \in 0 .. Len(u) - 1 /\ u[n + 1] = s
        /\ SubSeq(u, 1, n) = t
    OBVIOUS
  <1> HIDE DEF u, n
  <1>2. Prefix(u, n + 1) = Prefix(u, n) \o u[n + 1] /\ Prefix(u, Len(u)) = FlattenSeq(u)
    BY <1>1, PrefixSteps
  <1> QED BY <1>1, <1>2 DEF Prefix, u

-----------------------------------------------------------------------------
\* Selected, element by element.

SelectedAt(f, s, S, n) == IF n = 0 THEN <<>>
                          ELSE IF s[n] \in S THEN Append(f[n - 1], s[n])
                          ELSE f[n - 1]
IsSelected(f, s, S, m) == f = [n \in 0 .. m |-> SelectedAt(f, s, S, n)]

LEMMA SelectedExists ==
    ASSUME NEW s, NEW S, NEW m \in Nat
    PROVE  \E f : IsSelected(f, s, S, m)
  <1> DEFINE T == {k \in Nat : \E f : IsSelected(f, s, S, k)}
  <1>1. 0 \in T
    <2> DEFINE f == [n \in 0 .. 0 |-> <<>>]
    <2>1. \A n \in 0 .. 0 : SelectedAt(f, s, S, n) = <<>>
      BY DEF SelectedAt
    <2>2. IsSelected(f, s, S, 0)
      BY <2>1 DEF IsSelected
    <2> QED BY <2>2
  <1>2. ASSUME NEW k \in Nat, k \in T
        PROVE  k + 1 \in T
    <2>1. PICK f : IsSelected(f, s, S, k)
      BY <1>2
    <2> DEFINE g == [n \in 0 .. k + 1 |-> SelectedAt(f, s, S, n)]
    <2>2. \A n \in 0 .. k : g[n] = f[n]
      <3>1. 0 .. k \subseteq 0 .. k + 1
        OBVIOUS
      <3> QED BY <2>1, <3>1 DEF IsSelected
    <2>3. \A n \in 0 .. k + 1 : n # 0 => n - 1 \in 0 .. k
      OBVIOUS
    <2>4. \A n \in 0 .. k + 1 : SelectedAt(f, s, S, n) = SelectedAt(g, s, S, n)
      <3> HIDE DEF g
      <3> QED BY <2>2, <2>3 DEF SelectedAt
    <2>5. IsSelected(g, s, S, k + 1)
      BY <2>4 DEF IsSelected
    <2> QED BY <2>5
  <1> HIDE DEF T
  <1>3. m \in T
    BY <1>1, <1>2, SetInduction
  <1> QED BY <1>3 DEF T

LEMMA SelectedIsUnique ==
    ASSUME NEW s, NEW S, NEW n \in Nat, NEW m \in Nat, n <= m,
           NEW f, IsSelected(f, s, S, n), NEW g, IsSelected(g, s, S, m)
    PROVE  \A i \in 0 .. n : f[i] = g[i]
  <1> DEFINE T == {k \in Nat : k \in 0 .. n => f[k] = g[k]}
  <1>1. 0 \in T
    <2>1. 0 \in 0 .. n /\ 0 \in 0 .. m
      OBVIOUS
    <2>2. f[0] = SelectedAt(f, s, S, 0) /\ g[0] = SelectedAt(g, s, S, 0)
      BY <2>1 DEF IsSelected
    <2> QED BY <2>2 DEF SelectedAt
  <1>2. ASSUME NEW k \in Nat, k \in T
        PROVE  k + 1 \in T
    <2>1. CASE k + 1 \notin 0 .. n
      BY <2>1
    <2>2. CASE k + 1 \in 0 .. n
      <3>1. k + 1 \in 0 .. m /\ k \in 0 .. n /\ k + 1 # 0 /\ (k + 1) - 1 = k
        BY <2>2
      <3>2. f[k + 1] = SelectedAt(f, s, S, k + 1) /\ g[k + 1] = SelectedAt(g, s, S, k + 1)
        BY <2>2, <3>1 DEF IsSelected
      <3> QED BY <1>2, <3>1, <3>2 DEF SelectedAt
    <2> QED BY <2>1, <2>2
  <1> HIDE DEF T
  <1>3. \A k \in Nat : k \in T
    BY <1>1, <1>2, SetInduction
  <1> QED BY <1>3 DEF T

LEMMA SelectedOfFirst ==
    ASSUME NEW U, NEW s \in Seq(U), NEW S, NEW n \in 0 .. Len(s), NEW f, IsSelected(f, s, S, n)
    PROVE  Selected(SubSeq(s, 1, n), S) = f[n]
  <1> DEFINE t == SubSeq(s, 1, n)
  <1>1. Len(t) = n /\ (\A i \in 1 .. n : t[i] = s[i]) /\ n \in Nat /\ n \in 0 .. n
    OBVIOUS
  <1> HIDE DEF t
  <1>2. PICK g : IsSelected(g, t, S, n)
    BY <1>1, SelectedExists
  <1> DEFINE h == CHOOSE h : h = [i \in 0 .. Len(t) |-> IF i = 0 THEN <<>>
                                                        ELSE IF t[i] \in S THEN Append(h[i - 1], t[i])
                                                        ELSE h[i - 1]]
  <1>3. Selected(t, S) = h[n]
    BY <1>1 DEF Selected
  <1>4. IsSelected(h, t, S, n)
    BY <1>1, <1>2 DEF IsSelected, SelectedAt
  <1> HIDE DEF h
  <1>5. IsSelected(h, s, S, n)
    <2>1. \A i \in 0 .. n : SelectedAt(h, t, S, i) = SelectedAt(h, s, S, i)
      BY <1>1 DEF SelectedAt
    <2> QED BY <1>4, <2>1 DEF IsSelected
  <1>6. h[n] = f[n]
    BY <1>1, <1>5, SelectedIsUnique
  <1> QED BY <1>3, <1>6 DEF t

LEMMA SelectedNone ==
    ASSUME NEW U, NEW s \in Seq(U), NEW S
    PROVE  Selected(SubSeq(s, 1, 0), S) = <<>>
  <1>1. PICK f : IsSelected(f, s, S, 0)
    BY SelectedExists
  <1>2. 0 \in 0 .. Len(s) /\ 0 \in 0 .. 0
    OBVIOUS
  <1>3. f[0] = SelectedAt(f, s, S, 0)
    BY <1>1, <1>2 DEF IsSelected
  <1>4. Selected(SubSeq(s, 1, 0), S) = f[0]
    BY <1>1, <1>2, SelectedOfFirst
  <1> QED BY <1>3, <1>4 DEF SelectedAt

LEMMA SelectedStep ==
    ASSUME NEW U, NEW s \in Seq(U), NEW S, NEW n \in 0 .. Len(s) - 1
    PROVE  /\ s[n + 1] \in S => Selected(SubSeq(s, 1, n + 1), S) =
                                   Append(Selected(SubSeq(s, 1, n), S), s[n + 1])
           /\ s[n + 1] \notin S => Selected(SubSeq(s, 1, n + 1), S) =
                                      Selected(SubSeq(s, 1, n), S)
  <1>1. /\ n \in Nat /\ n + 1 \in Nat /\ n \in 0 .. Len(s) /\ n + 1 \in 0 .. Len(s)
        /\ n + 1 \in 0 .. n + 1 /\ n \in 0 .. n /\ n <= n + 1 /\ n + 1 # 0 /\ (n + 1) - 1 = n
    OBVIOUS
  <1>2. PICK f : IsSelected(f, s, S, n)
    BY <1>1, SelectedExists
  <1>3. PICK g : IsSelected(g, s, S, n + 1)
    BY <1>1, SelectedExists
  <1>4. f[n] = g[n]
    BY <1>1, <1>2, <1>3, SelectedIsUnique
  <1>5. g[n + 1] = SelectedAt(g, s, S, n + 1)
    BY <1>1, <1>3 DEF IsSelected
  <1>6. Selected(SubSeq(s, 1, n), S) = f[n]
    BY <1>1, <1>2, SelectedOfFirst
  <1>7. Selected(SubSeq(s, 1, n + 1), S) = g[n + 1]
    BY <1>1, <1>3, SelectedOfFirst
  <1> QED BY <1>1, <1>4, <1>5, <1>6, <1>7 DEF SelectedAt

LEMMA SelectedAll ==
    ASSUME NEW U, NEW s \in Seq(U), NEW S
    PROVE  Selected(SubSeq(s, 1, Len(s)), S) = Selected(s, S)
  <1>1. SubSeq(s, 1, Len(s)) = s
    OBVIOUS
  <1> QED BY <1>1

\* It is a sequence, of those among them that are in S.
LEMMA SelectedElements ==
    ASSUME NEW U, NEW s \in Seq(U), NEW S, NEW n \in 0 .. Len(s)
    PROVE  /\ Selected(SubSeq(s, 1, n), S) \in Seq(U)
           /\ Range(Selected(SubSeq(s, 1, n), S)) = {s[i] : i \in 1 .. n} \cap S
  <1> DEFINE Sel(k) == Selected(SubSeq(s, 1, k), S)
             T == {k \in Nat : k \in 0 .. Len(s) =>
                      Sel(k) \in Seq(U) /\ Range(Sel(k)) = {s[i] : i \in 1 .. k} \cap S}
  <1>1. 0 \in T
    <2>1. Sel(0) = <<>>
      BY SelectedNone
    <2>2. <<>> \in Seq(U) /\ DOMAIN <<>> = {} /\ \A i \in 1 .. 0 : FALSE
      OBVIOUS
    <2> HIDE DEF Sel
    <2>3. Range(Sel(0)) = {s[i] : i \in 1 .. 0} \cap S
      BY <2>1, <2>2 DEF Range
    <2> QED BY <2>1, <2>2, <2>3
  <1>2. ASSUME NEW k \in Nat, k \in T
        PROVE  k + 1 \in T
    <2> SUFFICES ASSUME k + 1 \in 0 .. Len(s)
                 PROVE  /\ Sel(k + 1) \in Seq(U)
                        /\ Range(Sel(k + 1)) = {s[i] : i \in 1 .. k + 1} \cap S
      OBVIOUS
    <2>1. k \in 0 .. Len(s) - 1 /\ k \in 0 .. Len(s) /\ s[k + 1] \in U
      OBVIOUS
    <2>2. /\ s[k + 1] \in S => Sel(k + 1) = Append(Sel(k), s[k + 1])
          /\ s[k + 1] \notin S => Sel(k + 1) = Sel(k)
      BY <2>1, SelectedStep
    <2>3. Sel(k) \in Seq(U) /\ Range(Sel(k)) = {s[i] : i \in 1 .. k} \cap S
      BY <1>2, <2>1
    <2> HIDE DEF Sel
    <2>4. {s[i] : i \in 1 .. k + 1} = {s[i] : i \in 1 .. k} \cup {s[k + 1]}
      <3>1. \A i : i \in 1 .. k + 1 <=> i \in 1 .. k \/ i = k + 1
        OBVIOUS
      <3> QED BY <3>1
    <2>5. Range(Append(Sel(k), s[k + 1])) = Range(Sel(k)) \cup {s[k + 1]}
      <3> DEFINE a == Sel(k)
      <3>1. a \in Seq(U)
        BY <2>3
      <3> HIDE DEF a
      <3>2. /\ DOMAIN Append(a, s[k + 1]) = DOMAIN a \cup {Len(a) + 1}
            /\ \A i \in DOMAIN a : Append(a, s[k + 1])[i] = a[i]
            /\ Append(a, s[k + 1])[Len(a) + 1] = s[k + 1]
        BY <3>1
      <3>3. Range(Append(a, s[k + 1])) = Range(a) \cup {s[k + 1]}
        BY <3>2 DEF Range
      <3> QED BY <3>3 DEF a
    <2>6. CASE s[k + 1] \in S
      <3>1. Sel(k + 1) = Append(Sel(k), s[k + 1])
        BY <2>2, <2>6
      <3>2. Append(Sel(k), s[k + 1]) \in Seq(U)
        BY <2>1, <2>3
      <3> QED BY <2>3, <2>4, <2>5, <2>6, <3>1, <3>2
    <2>7. CASE s[k + 1] \notin S
      <3>1. Sel(k + 1) = Sel(k)
        BY <2>2, <2>7
      <3> QED BY <2>3, <2>4, <2>7, <3>1
    <2> QED BY <2>6, <2>7
  <1> HIDE DEF T
  <1>3. n \in Nat /\ n \in T
    BY <1>1, <1>2, SetInduction
  <1> QED BY <1>3 DEF T

LEMMA SelectedAppended ==
    ASSUME NEW U, NEW s \in Seq(U), NEW e \in U, NEW S, NEW t, t = Append(s, e)
    PROVE  /\ Selected(s, S) \in Seq(U)
           /\ e \in S => Selected(t, S) = Append(Selected(s, S), e)
           /\ e \notin S => Selected(t, S) = Selected(s, S)
  <1> DEFINE n == Len(s)
  <1>1. /\ t \in Seq(U) /\ Len(t) = n + 1 /\ n \in 0 .. Len(t) - 1 /\ t[n + 1] = e
        /\ SubSeq(t, 1, n) = s /\ SubSeq(t, 1, n + 1) = t /\ n \in 0 .. Len(t)
    OBVIOUS
  <1> HIDE DEF n
  <1>2. /\ t[n + 1] \in S => Selected(SubSeq(t, 1, n + 1), S) =
                                Append(Selected(SubSeq(t, 1, n), S), t[n + 1])
        /\ t[n + 1] \notin S => Selected(SubSeq(t, 1, n + 1), S) = Selected(SubSeq(t, 1, n), S)
    BY <1>1, SelectedStep
  <1>3. Selected(SubSeq(t, 1, n), S) \in Seq(U)
    BY <1>1, SelectedElements
  <1> QED BY <1>1, <1>2, <1>3

\* How many of the first n elements are in S.
Count(s, S, n) == Len(Selected(SubSeq(s, 1, n), S))

LEMMA CountSteps ==
    ASSUME NEW U, NEW s \in Seq(U), NEW S
    PROVE  /\ Count(s, S, 0) = 0
           /\ \A n \in 0 .. Len(s) : Count(s, S, n) \in Nat
           /\ \A n \in 0 .. Len(s) - 1 :
                 /\ s[n + 1] \in S => Count(s, S, n + 1) = Count(s, S, n) + 1
                 /\ s[n + 1] \notin S => Count(s, S, n + 1) = Count(s, S, n)
           /\ Count(s, S, Len(s)) = Len(Selected(s, S))
  <1>1. Count(s, S, 0) = 0
    <2>1. Len(<<>>) = 0
      OBVIOUS
    <2> QED BY <2>1, SelectedNone DEF Count
  <1>2. ASSUME NEW n \in 0 .. Len(s)
        PROVE  Count(s, S, n) \in Nat /\ Selected(SubSeq(s, 1, n), S) \in Seq(U)
    <2>1. Selected(SubSeq(s, 1, n), S) \in Seq(U)
      BY SelectedElements
    <2> DEFINE t == Selected(SubSeq(s, 1, n), S)
    <2>2. t \in Seq(U)
      BY <2>1
    <2> HIDE DEF t
    <2>3. Len(t) \in Nat
      BY <2>2
    <2> QED BY <2>1, <2>3 DEF Count, t
  <1>3. ASSUME NEW n \in 0 .. Len(s) - 1
        PROVE  /\ s[n + 1] \in S => Count(s, S, n + 1) = Count(s, S, n) + 1
               /\ s[n + 1] \notin S => Count(s, S, n + 1) = Count(s, S, n)
    <2> DEFINE t == Selected(SubSeq(s, 1, n), S)
               u == Selected(SubSeq(s, 1, n + 1), S)
    <2>1. n \in 0 .. Len(s)
      OBVIOUS
    <2>2. /\ s[n + 1] \in S => u = Append(t, s[n + 1])
          /\ s[n + 1] \notin S => u = t
      BY SelectedStep
    <2>3. t \in Seq(U)
      BY <1>2, <2>1
    <2> HIDE DEF t, u
    <2>4. /\ s[n + 1] \in S => Len(u) = Len(t) + 1
          /\ s[n + 1] \notin S => Len(u) = Len(t)
      BY <2>2, <2>3
    <2> QED BY <2>4 DEF t, u, Count
  <1>4. Count(s, S, Len(s)) = Len(Selected(s, S))
    BY SelectedAll DEF Count
  <1> QED BY <1>1, <1>2, <1>3, <1>4

LEMMA CountGrows ==
    ASSUME NEW U, NEW s \in Seq(U), NEW S, NEW m \in 0 .. Len(s), NEW n \in m .. Len(s)
    PROVE  /\ Count(s, S, m) <= Count(s, S, n)
           /\ SubSeq(Selected(SubSeq(s, 1, n), S), 1, Count(s, S, m)) = Selected(SubSeq(s, 1, m), S)
  <1> DEFINE Sel(k) == Selected(SubSeq(s, 1, k), S)
             T == {k \in Nat : m + k \in 0 .. Len(s) =>
                      /\ Len(Sel(m)) <= Len(Sel(m + k))
                      /\ SubSeq(Sel(m + k), 1, Len(Sel(m))) = Sel(m)}
  <1>1. ASSUME NEW k \in 0 .. Len(s)
        PROVE  Sel(k) \in Seq(U) /\ Len(Sel(k)) \in Nat
    <2>1. Sel(k) \in Seq(U)
      BY SelectedElements
    <2> HIDE DEF Sel
    <2> QED BY <2>1
  <1>2. 0 \in T
    <2>1. m + 0 = m
      OBVIOUS
    <2>2. Sel(m) \in Seq(U)
      BY <1>1
    <2> HIDE DEF Sel
    <2> QED BY <2>1, <2>2
  <1>3. ASSUME NEW k \in Nat, k \in T
        PROVE  k + 1 \in T
    <2> SUFFICES ASSUME m + (k + 1) \in 0 .. Len(s)
                 PROVE  /\ Len(Sel(m)) <= Len(Sel(m + (k + 1)))
                        /\ SubSeq(Sel(m + (k + 1)), 1, Len(Sel(m))) = Sel(m)
      OBVIOUS
    <2> DEFINE i == m + k
    <2>1. i \in 0 .. Len(s) - 1 /\ i \in 0 .. Len(s) /\ m + (k + 1) = i + 1 /\ s[i + 1] \in U
      OBVIOUS
    <2>2. /\ s[i + 1] \in S => Sel(i + 1) = Append(Sel(i), s[i + 1])
          /\ s[i + 1] \notin S => Sel(i + 1) = Sel(i)
      BY <2>1, SelectedStep
    <2>3. Len(Sel(m)) <= Len(Sel(i)) /\ SubSeq(Sel(i), 1, Len(Sel(m))) = Sel(m)
      BY <1>3, <2>1
    <2>4. Sel(i) \in Seq(U) /\ Sel(m) \in Seq(U)
      BY <1>1, <2>1
    <2> HIDE DEF Sel, i
    <2>5. CASE s[i + 1] \in S
      <3> DEFINE a == Sel(i)
                 l == Len(Sel(m))
      <3>1. a \in Seq(U) /\ l \in Nat /\ l <= Len(a)
        BY <2>3, <2>4
      <3> HIDE DEF a, l
      <3>2. l <= Len(Append(a, s[i + 1])) /\ SubSeq(Append(a, s[i + 1]), 1, l) = SubSeq(a, 1, l)
        BY <2>1, <3>1
      <3> QED BY <2>1, <2>2, <2>3, <2>5, <3>2 DEF a, l
    <2>6. CASE s[i + 1] \notin S
      BY <2>1, <2>2, <2>3, <2>6
    <2> QED BY <2>5, <2>6
  <1> HIDE DEF T
  <1>4. n - m \in Nat /\ m + (n - m) = n
    OBVIOUS
  <1>5. n - m \in T
    BY <1>2, <1>3, <1>4, SetInduction
  <1> QED BY <1>4, <1>5 DEF T, Count

\* The element that is selected as the k-th, and the one that comes after k.
LEMMA SelectedPlace ==
    ASSUME NEW U, NEW s \in Seq(U), NEW S, NEW n \in 0 .. Len(s) - 1, s[n + 1] \in S
    PROVE  /\ Count(s, S, n) + 1 \in 1 .. Len(Selected(s, S))
           /\ Selected(s, S)[Count(s, S, n) + 1] = s[n + 1]
  <1> DEFINE t == Selected(SubSeq(s, 1, n), S)
             u == Selected(SubSeq(s, 1, n + 1), S)
             a == Selected(s, S)
             e == s[n + 1]
  <1>1. n \in 0 .. Len(s) /\ n + 1 \in 0 .. Len(s) /\ Len(s) \in (n + 1) .. Len(s) /\ e \in U
    OBVIOUS
  <1>2. u = Append(t, e)
    BY SelectedStep
  <1>3. a = Selected(SubSeq(s, 1, Len(s)), S)
    BY SelectedAll
  <1>4. t \in Seq(U) /\ a \in Seq(U)
    <2>1. Len(s) \in 0 .. Len(s)
      OBVIOUS
    <2> QED BY <1>1, <1>3, <2>1, SelectedElements
  <1>5. Len(u) <= Len(a) /\ SubSeq(a, 1, Len(u)) = u
    BY <1>1, <1>3, CountGrows DEF Count
  <1> HIDE DEF t, u, a, e
  <1>6. Len(u) = Len(t) + 1 /\ u[Len(t) + 1] = e /\ Len(t) \in Nat /\ Len(a) \in Nat
    BY <1>1, <1>2, <1>4
  <1>7. SubSeq(a, 1, Len(u))[Len(t) + 1] = a[Len(t) + 1]
    BY <1>4, <1>5, <1>6
  <1> QED BY <1>5, <1>6, <1>7 DEF t, a, e, Count

LEMMA CountAtMost ==
    ASSUME NEW U, NEW s \in Seq(U), NEW S, NEW n \in 0 .. Len(s)
    PROVE  Count(s, S, n) <= n
  <1> DEFINE T == {k \in Nat : k \in 0 .. Len(s) => Count(s, S, k) <= k}
  <1>1. 0 \in T
    <2>1. Count(s, S, 0) = 0
      BY CountSteps
    <2> QED BY <2>1
  <1>2. ASSUME NEW k \in Nat, k \in T
        PROVE  k + 1 \in T
    <2> SUFFICES ASSUME k + 1 \in 0 .. Len(s)
                 PROVE  Count(s, S, k + 1) <= k + 1
      OBVIOUS
    <2>1. k \in 0 .. Len(s) - 1 /\ k \in 0 .. Len(s)
      OBVIOUS
    <2>2. Count(s, S, k + 1) = Count(s, S, k) + 1 \/ Count(s, S, k + 1) = Count(s, S, k)
      BY <2>1, CountSteps
    <2>3. Count(s, S, k) \in Nat /\ Count(s, S, k) <= k
      BY <1>2, <2>1, CountSteps
    <2> QED BY <2>2, <2>3
  <1> HIDE DEF T
  <1>3. n \in Nat
    OBVIOUS
  <1>4. n \in T
    BY <1>1, <1>2, <1>3, SetInduction
  <1> QED BY <1>4 DEF T

LEMMA CountIsOwn ==
    ASSUME NEW U, NEW s \in Seq(U), NEW S, NEW b \in 1 .. Len(s), s[b] \in S,
           NEW c \in 1 .. Len(s), s[c] \in S, Count(s, S, b - 1) = Count(s, S, c - 1)
    PROVE  b = c
  <1>1. ASSUME NEW i \in 1 .. Len(s), s[i] \in S, NEW j \in 1 .. Len(s), i < j
        PROVE  Count(s, S, i - 1) # Count(s, S, j - 1)
    <2> DEFINE m == i - 1
               n == j - 1
    <2>1. /\ m \in 0 .. Len(s) - 1 /\ m \in 0 .. Len(s) /\ m + 1 \in 0 .. Len(s)
          /\ n \in m + 1 .. Len(s) /\ m + 1 = i
      BY <1>1
    <2> HIDE DEF m, n
    <2>2. Count(s, S, m + 1) <= Count(s, S, n)
      BY <2>1, CountGrows
    <2>3. Count(s, S, m + 1) = Count(s, S, m) + 1 /\ Count(s, S, m) \in Nat
      BY <1>1, <2>1, CountSteps
    <2>4. Count(s, S, m) # Count(s, S, n)
      BY <2>2, <2>3
    <2> QED BY <2>4 DEF m, n
  <1>2. ~(b < c) /\ ~(c < b)
    BY <1>1
  <1> QED BY <1>2

LEMMA SelectedFrom ==
    ASSUME NEW U, NEW s \in Seq(U), NEW S, NEW k \in 0 .. Len(Selected(s, S)) - 1
    PROVE  \E n \in 0 .. Len(s) - 1 : s[n + 1] \in S /\ Count(s, S, n) = k
  <1> DEFINE T == {m \in Nat : m \in 0 .. Len(s) => Count(s, S, m) <= k}
  <1> SUFFICES ASSUME \A n \in 0 .. Len(s) - 1 : s[n + 1] \in S => Count(s, S, n) # k
               PROVE  FALSE
    OBVIOUS
  <1>0. Len(s) \in Nat /\ Count(s, S, Len(s)) \in Nat /\ Count(s, S, Len(s)) = Len(Selected(s, S))
    <2>1. Len(s) \in Nat /\ Len(s) \in 0 .. Len(s)
      OBVIOUS
    <2> QED BY <2>1, CountSteps
  <1>1. 0 \in T
    BY <1>0, CountSteps
  <1>2. ASSUME NEW m \in Nat, m \in T
        PROVE  m + 1 \in T
    <2> SUFFICES ASSUME m + 1 \in 0 .. Len(s)
                 PROVE  Count(s, S, m + 1) <= k
      OBVIOUS
    <2>1. m \in 0 .. Len(s) - 1 /\ m \in 0 .. Len(s)
      OBVIOUS
    <2>2. Count(s, S, m) <= k /\ Count(s, S, m) \in Nat /\ k \in Int
      BY <1>2, <2>1, <1>0, CountSteps
    <2>3. Count(s, S, m + 1) = Count(s, S, m) + (IF s[m + 1] \in S THEN 1 ELSE 0)
      BY <2>1, CountSteps
    <2> QED BY <2>1, <2>2, <2>3
  <1> HIDE DEF T
  <1>3. Len(s) \in T
    BY <1>0, <1>1, <1>2, SetInduction
  <1> QED BY <1>0, <1>3 DEF T

\* The elements in A of which those in B are selected.
LEMMA SelectedTwice ==
    ASSUME NEW U, NEW s \in Seq(U), NEW A, NEW B, NEW n \in 0 .. Len(s)
    PROVE  Selected(Selected(SubSeq(s, 1, n), A), B) = Selected(SubSeq(s, 1, n), A \cap B)
  <1> DEFINE F(k) == Selected(SubSeq(s, 1, k), A)
             G(k) == Selected(SubSeq(s, 1, k), A \cap B)
             T == {k \in Nat : k \in 0 .. Len(s) => Selected(F(k), B) = G(k)}
  <1>1. 0 \in T
    <2>1. F(0) = <<>> /\ G(0) = <<>>
      BY SelectedNone
    <2>2. <<>> \in Seq(U) /\ SubSeq(<<>>, 1, 0) = <<>>
      OBVIOUS
    <2>3. Selected(<<>>, B) = <<>>
      BY <2>2, SelectedNone
    <2> QED BY <2>1, <2>3
  <1>2. ASSUME NEW k \in Nat, k \in T
        PROVE  k + 1 \in T
    <2> SUFFICES ASSUME k + 1 \in 0 .. Len(s)
                 PROVE  Selected(F(k + 1), B) = G(k + 1)
      OBVIOUS
    <2> DEFINE e == s[k + 1]
    <2>1. k \in 0 .. Len(s) - 1 /\ k \in 0 .. Len(s) /\ e \in U
      OBVIOUS
    <2>2. /\ e \in A => F(k + 1) = Append(F(k), e)
          /\ e \notin A => F(k + 1) = F(k)
          /\ e \in A \cap B => G(k + 1) = Append(G(k), e)
          /\ e \notin A \cap B => G(k + 1) = G(k)
      BY <2>1, SelectedStep
    <2>3. F(k) \in Seq(U)
      BY <2>1, SelectedElements
    <2>4. Selected(F(k), B) = G(k)
      BY <1>2, <2>1
    <2> HIDE DEF F, G, e
    <2> HIDE DEF T
    <2>5. CASE e \in A
      <3>1. F(k + 1) = Append(F(k), e)
        BY <2>2, <2>5
      <3>2. /\ e \in B => Selected(F(k + 1), B) = Append(Selected(F(k), B), e)
            /\ e \notin B => Selected(F(k + 1), B) = Selected(F(k), B)
        BY <2>1, <2>3, <3>1, SelectedAppended
      <3> QED BY <2>2, <2>4, <2>5, <3>2
    <2>6. CASE e \notin A
      BY <2>2, <2>4, <2>6
    <2> QED BY <2>5, <2>6
  <1> HIDE DEF T
  <1>3. n \in Nat /\ n \in T
    BY <1>1, <1>2, SetInduction
  <1> QED BY <1>3 DEF T

-----------------------------------------------------------------------------
\* Totals.

TotalStep(seq, f, S) == IF S = {} THEN 0 ELSE Plus(f[S \ {Max(S)}], seq[Max(S)])

LEMMA TotalIsDefined ==
    ASSUME NEW seq
    PROVE  \A m \in Nat : \E f : f = [S \in SUBSET (1 .. m) |-> TotalStep(seq, f, S)]
  <1> DEFINE Defined == {m \in Nat : \E f : f = [S \in SUBSET (1 .. m) |-> TotalStep(seq, f, S)]}
  <1>1. 0 \in Defined
    <2> DEFINE f == [S \in SUBSET (1 .. 0) |-> 0]
    <2>1. SUBSET (1 .. 0) = {{}}
      OBVIOUS
    <2>2. f = [S \in SUBSET (1 .. 0) |-> TotalStep(seq, f, S)]
      BY <2>1 DEF TotalStep
    <2> QED BY <2>2
  <1>2. ASSUME NEW m \in Nat, m \in Defined
        PROVE  m + 1 \in Defined
    <2>1. PICK f : f = [S \in SUBSET (1 .. m) |-> TotalStep(seq, f, S)]
      BY <1>2
    <2> DEFINE g == [S \in SUBSET (1 .. m + 1) |-> TotalStep(seq, f, S)]
    <2>2. \A S \in SUBSET (1 .. m) : g[S] = f[S]
      <3>1. SUBSET (1 .. m) \subseteq SUBSET (1 .. m + 1)
        OBVIOUS
      <3> QED BY <3>1, <2>1
    <2>3. ASSUME NEW S \in SUBSET (1 .. m + 1)
          PROVE  TotalStep(seq, f, S) = TotalStep(seq, g, S)
      BY <2>2, WithoutMax DEF TotalStep
    <2>4. g = [S \in SUBSET (1 .. m + 1) |-> TotalStep(seq, g, S)]
      BY <2>3
    <2> HIDE DEF g
    <2>5. \E h : h = [S \in SUBSET (1 .. m + 1) |-> TotalStep(seq, h, S)]
      BY <2>4, Zenon
    <2> QED BY <2>5
  <1> HIDE DEF Defined
  <1>3. \A m \in Nat : m \in Defined
    BY <1>1, <1>2, SetInduction
  <1> QED BY <1>3 DEF Defined

\* The sums that Total goes through.
LEMMA TotalSums ==
    ASSUME NEW n \in Nat, NEW seq, DOMAIN seq = 1 .. n
    PROVE  \E g : /\ g[0] = 0
                  /\ \A k \in 1 .. n : g[k] = g[k - 1] + seq[k]
                  /\ g[n] = Total(seq)
  <1> DEFINE iter == CHOOSE f : f = [S \in SUBSET (1 .. n) |-> TotalStep(seq, f, S)]
             g == [k \in 0 .. n |-> iter[1 .. k]]
  <1>1. iter = [S \in SUBSET (1 .. n) |-> TotalStep(seq, iter, S)]
    <2>1. \E f : f = [S \in SUBSET (1 .. n) |-> TotalStep(seq, f, S)]
      BY TotalIsDefined
    <2> QED BY <2>1
  <1>2. Total(seq) = iter[1 .. n]
    BY DEF Total, FoldLeft, MapThenFoldSet, TotalStep
  <1> HIDE DEF iter
  <1>3. g[0] = 0
    <2>1. 1 .. 0 = {} /\ {} \in SUBSET (1 .. n) /\ 0 \in 0 .. n
      OBVIOUS
    <2> QED BY <2>1, <1>1 DEF TotalStep
  <1>4. ASSUME NEW k \in 1 .. n
        PROVE  g[k] = g[k - 1] + seq[k]
    <2>1. /\ 1 .. k # {} /\ 1 .. k \in SUBSET (1 .. n)
          /\ Max(1 .. k) = k
          /\ (1 .. k) \ {Max(1 .. k)} = 1 .. (k - 1)
      BY MaxOfFirst
    <2>2. iter[1 .. k] = Plus(iter[1 .. (k - 1)], seq[k])
      BY <1>1, <2>1 DEF TotalStep
    <2>3. k \in 0 .. n /\ k - 1 \in 0 .. n
      OBVIOUS
    <2> QED BY <2>2, <2>3 DEF Plus
  <1>5. g[n] = Total(seq)
    BY <1>2
  <1> QED BY <1>3, <1>4, <1>5

LEMMA TotalOfNone == Total(<<>>) = 0
  <1>1. DOMAIN <<>> = 1 .. 0 /\ 0 \in Nat
    OBVIOUS
  <1> QED BY <1>1, TotalSums

LEMMA TotalAppended ==
    ASSUME NEW s \in Seq(Nat), NEW e \in Nat, NEW t, t = Append(s, e)
    PROVE  Total(s) \in Nat /\ Total(t) = Total(s) + e
  <1> DEFINE n == Len(s)
  <1>1. /\ n \in Nat /\ DOMAIN s = 1 .. n /\ DOMAIN t = 1 .. n + 1 /\ n + 1 \in Nat
        /\ t[n + 1] = e /\ \A k \in 1 .. n : t[k] = s[k] /\ s[k] \in Nat
    OBVIOUS
  <1> HIDE DEF n
  <1>2. PICK f : f[0] = 0 /\ (\A k \in 1 .. n : f[k] = f[k - 1] + s[k]) /\ f[n] = Total(s)
    BY <1>1, TotalSums
  <1>3. PICK g : /\ g[0] = 0 /\ (\A k \in 1 .. n + 1 : g[k] = g[k - 1] + t[k])
                 /\ g[n + 1] = Total(t)
    BY <1>1, TotalSums
  <1> DEFINE T == {k \in Nat : k \in 0 .. n => f[k] = g[k] /\ f[k] \in Nat}
  <1>4. 0 \in T
    BY <1>2, <1>3
  <1>5. ASSUME NEW k \in Nat, k \in T
        PROVE  k + 1 \in T
    <2> SUFFICES ASSUME k + 1 \in 0 .. n
                 PROVE  f[k + 1] = g[k + 1] /\ f[k + 1] \in Nat
      OBVIOUS
    <2>1. k \in 0 .. n /\ k + 1 \in 1 .. n /\ k + 1 \in 1 .. n + 1 /\ (k + 1) - 1 = k
      BY <1>1
    <2>2. f[k + 1] = f[k] + s[k + 1] /\ g[k + 1] = g[k] + t[k + 1]
      BY <1>2, <1>3, <2>1
    <2> QED BY <1>1, <1>5, <2>1, <2>2
  <1> HIDE DEF T
  <1>6. n \in T
    BY <1>1, <1>4, <1>5, SetInduction
  <1>7. f[n] = g[n] /\ f[n] \in Nat
    BY <1>1, <1>6 DEF T
  <1>8. g[n + 1] = g[n] + t[n + 1]
    <2>1. n + 1 \in 1 .. n + 1 /\ (n + 1) - 1 = n
      BY <1>1
    <2> QED BY <1>3, <2>1
  <1> QED BY <1>1, <1>2, <1>3, <1>7, <1>8

LEMMA TotalIsNat == ASSUME NEW s \in Seq(Nat) PROVE Total(s) \in Nat
  <1>1. Append(s, 0) = Append(s, 0) /\ 0 \in Nat
    OBVIOUS
  <1> QED BY <1>1, TotalAppended

-----------------------------------------------------------------------------
\* Where the elements of the parts are in a flattened sequence.

LEMMA JoinedElements ==
    ASSUME NEW S, NEW a \in Seq(S), NEW b \in Seq(S), NEW r, r = a \o b
    PROVE  /\ r \in Seq(S) /\ Len(r) = Len(a) + Len(b)
           /\ \A p \in 1 .. Len(a) : r[p] = a[p]
           /\ \A p \in 1 .. Len(b) : r[Len(a) + p] = b[p]
  <1>1. r \in Seq(S)
    OBVIOUS
  <1>2. Len(r) = Len(a) + Len(b)
    OBVIOUS
  <1>3. \A p \in 1 .. Len(a) : r[p] = a[p]
    OBVIOUS
  <1>4. \A p \in 1 .. Len(b) : r[Len(a) + p] = b[p]
    OBVIOUS
  <1> QED BY <1>1, <1>2, <1>3, <1>4

LEMMA PrefixGrows ==
    ASSUME NEW S, NEW d \in Seq(Seq(S)), NEW m \in 0 .. Len(d), NEW n \in m .. Len(d)
    PROVE  /\ Prefix(d, m) \in Seq(S)
           /\ Len(Prefix(d, m)) <= Len(Prefix(d, n))
           /\ SubSeq(Prefix(d, n), 1, Len(Prefix(d, m))) = Prefix(d, m)
  <1>1. ASSUME NEW k \in 0 .. Len(d)
        PROVE  Prefix(d, k) \in Seq(S)
    <2> DEFINE T == {i \in Nat : i \in 0 .. Len(d) => Prefix(d, i) \in Seq(S)}
    <2>1. 0 \in T
      <3>1. <<>> \in Seq(S)
        OBVIOUS
      <3> QED BY <3>1, PrefixSteps
    <2>2. ASSUME NEW i \in Nat, i \in T
          PROVE  i + 1 \in T
      <3> SUFFICES ASSUME i + 1 \in 0 .. Len(d)
                   PROVE  Prefix(d, i + 1) \in Seq(S)
        OBVIOUS
      <3>1. i \in 0 .. Len(d) - 1 /\ i \in 0 .. Len(d) /\ d[i + 1] \in Seq(S)
        OBVIOUS
      <3>2. Prefix(d, i + 1) = Prefix(d, i) \o d[i + 1] /\ Prefix(d, i) \in Seq(S)
        BY <2>2, <3>1, PrefixSteps
      <3> DEFINE a == Prefix(d, i)
                 b == d[i + 1]
      <3>3. a \in Seq(S) /\ b \in Seq(S)
        BY <3>1, <3>2
      <3> HIDE DEF a, b
      <3>4. a \o b \in Seq(S)
        BY <3>3
      <3> QED BY <3>2, <3>4 DEF a, b
    <2> HIDE DEF T
    <2>3. k \in Nat
      OBVIOUS
    <2>4. k \in T
      BY <2>1, <2>2, <2>3, SetInduction
    <2> QED BY <2>4 DEF T
  <1> DEFINE P(k) == Prefix(d, k)
             T == {k \in Nat : m + k \in 0 .. Len(d) =>
                      Len(P(m)) <= Len(P(m + k)) /\ SubSeq(P(m + k), 1, Len(P(m))) = P(m)}
  <1>2. P(m) \in Seq(S)
    BY <1>1
  <1>3. 0 \in T
    <2>1. m + 0 = m
      OBVIOUS
    <2> HIDE DEF P
    <2> QED BY <1>2, <2>1
  <1>4. ASSUME NEW k \in Nat, k \in T
        PROVE  k + 1 \in T
    <2> SUFFICES ASSUME m + (k + 1) \in 0 .. Len(d)
                 PROVE  /\ Len(P(m)) <= Len(P(m + (k + 1)))
                        /\ SubSeq(P(m + (k + 1)), 1, Len(P(m))) = P(m)
      OBVIOUS
    <2> DEFINE i == m + k
    <2>1. i \in 0 .. Len(d) - 1 /\ i \in 0 .. Len(d) /\ m + (k + 1) = i + 1 /\ d[i + 1] \in Seq(S)
      OBVIOUS
    <2>2. P(i + 1) = P(i) \o d[i + 1]
      BY <2>1, PrefixSteps
    <2>3. Len(P(m)) <= Len(P(i)) /\ SubSeq(P(i), 1, Len(P(m))) = P(m)
      BY <1>4, <2>1
    <2>4. P(i) \in Seq(S)
      BY <1>1, <2>1
    <2> DEFINE a == P(i)
               b == d[i + 1]
               l == Len(P(m))
    <2>5. a \in Seq(S) /\ b \in Seq(S) /\ l \in Nat /\ l <= Len(a)
      <3> HIDE DEF P
      <3> QED BY <1>2, <2>1, <2>3, <2>4
    <2> HIDE DEF a, b, l
    <2>6. l <= Len(a \o b) /\ SubSeq(a \o b, 1, l) = SubSeq(a, 1, l)
      BY <2>5
    <2> HIDE DEF P, i
    <2> QED BY <2>1, <2>2, <2>3, <2>6 DEF a, b, l
  <1> HIDE DEF T
  <1>5. n - m \in Nat /\ m + (n - m) = n
    OBVIOUS
  <1>6. n - m \in T
    BY <1>3, <1>4, <1>5, SetInduction
  <1> QED BY <1>2, <1>5, <1>6 DEF T

LEMMA FlatElement ==
    ASSUME NEW S, NEW d \in Seq(Seq(S)), NEW n \in 0 .. Len(d) - 1, NEW j \in 1 .. Len(d[n + 1])
    PROVE  /\ Len(Prefix(d, n)) + j \in 1 .. Len(FlattenSeq(d))
           /\ FlattenSeq(d)[Len(Prefix(d, n)) + j] = d[n + 1][j]
  <1> DEFINE a == Prefix(d, n)
             b == d[n + 1]
             c == Prefix(d, n + 1)
             e == FlattenSeq(d)
  <1>1. n \in 0 .. Len(d) /\ n + 1 \in 0 .. Len(d) /\ Len(d) \in n + 1 .. Len(d)
        /\ Len(d) \in n .. Len(d) /\ b \in Seq(S) /\ Len(d) \in 0 .. Len(d) /\ Len(d) \in Len(d) .. Len(d)
    OBVIOUS
  <1>2. c = a \o b /\ e = Prefix(d, Len(d))
    BY PrefixSteps
  <1>3. a \in Seq(S) /\ e \in Seq(S) /\ Len(c) <= Len(e) /\ SubSeq(e, 1, Len(c)) = c
    BY <1>1, <1>2, PrefixGrows
  <1>4. j \in 1 .. Len(b)
    OBVIOUS
  <1> HIDE DEF a, b, c, e
  <1>5. Len(a) + j \in 1 .. Len(c) /\ c[Len(a) + j] = b[j] /\ Len(c) \in Nat
    BY <1>1, <1>2, <1>3, <1>4
  <1>6. c[Len(a) + j] = e[Len(a) + j]
    <2>1. SubSeq(e, 1, Len(c))[Len(a) + j] = e[Len(a) + j]
      BY <1>3, <1>5
    <2> QED BY <1>3, <2>1
  <1>7. Len(a) + j \in 1 .. Len(e)
    BY <1>3, <1>5
  <1> QED BY <1>5, <1>6, <1>7 DEF a, b, e

LEMMA FlatPlace ==
    ASSUME NEW S, NEW d \in Seq(Seq(S)), NEW p \in 1 .. Len(FlattenSeq(d))
    PROVE  \E n \in 0 .. Len(d) - 1 : \E j \in 1 .. Len(d[n + 1]) : p = Len(Prefix(d, n)) + j
  <1> SUFFICES ASSUME \A n \in 0 .. Len(d) - 1 : \A j \in 1 .. Len(d[n + 1]) :
                         p # Len(Prefix(d, n)) + j
               PROVE  FALSE
    OBVIOUS
  <1> DEFINE l(n) == Len(Prefix(d, n))
             T == {n \in Nat : n \in 0 .. Len(d) => l(n) < p}
  <1>1. 0 \in T
    <2>1. Len(<<>>) = 0
      OBVIOUS
    <2> QED BY <2>1, PrefixSteps
  <1>2. ASSUME NEW n \in Nat, n \in T
        PROVE  n + 1 \in T
    <2> SUFFICES ASSUME n + 1 \in 0 .. Len(d)
                 PROVE  l(n + 1) < p
      OBVIOUS
    <2> DEFINE b == d[n + 1]
               a == Prefix(d, n)
    <2>1. /\ n \in 0 .. Len(d) - 1 /\ n \in 0 .. Len(d) /\ n \in n .. Len(d)
          /\ b \in Seq(S)
      OBVIOUS
    <2>2. Prefix(d, n + 1) = a \o b /\ a \in Seq(S) /\ l(n) < p
      BY <1>2, <2>1, PrefixSteps, PrefixGrows
    <2>3. \A j \in 1 .. Len(b) : p # l(n) + j
      BY <2>1
    <2> HIDE DEF a, b
    <2>4. Len(a \o b) = Len(a) + Len(b) /\ Len(a) \in Nat /\ Len(b) \in Nat
      BY <2>1, <2>2
    <2>5. p # Len(a) + (p - Len(a)) \/ p - Len(a) \notin 1 .. Len(b)
      BY <2>3 DEF a
    <2>6. Len(a) < p /\ p \in Int
      BY <2>2 DEF a
    <2> QED BY <2>2, <2>4, <2>5, <2>6
  <1> HIDE DEF T
  <1>3. Len(d) \in Nat /\ Len(d) \in 0 .. Len(d) /\ Prefix(d, Len(d)) = FlattenSeq(d)
        /\ Len(d) \in Len(d) .. Len(d)
    <2>1. Len(d) \in Nat
      OBVIOUS
    <2> QED BY <2>1, PrefixSteps
  <1>4. Len(d) \in T
    BY <1>1, <1>2, <1>3, SetInduction
  <1>5. Len(FlattenSeq(d)) < p
    BY <1>3, <1>4 DEF T
  <1>6. FlattenSeq(d) \in Seq(S)
    BY <1>3, PrefixGrows
  <1> DEFINE e == FlattenSeq(d)
  <1>7. e \in Seq(S) /\ Len(e) < p /\ p \in 1 .. Len(e)
    BY <1>5, <1>6
  <1> HIDE DEF e
  <1> QED BY <1>7

LEMMA PrefixLengths ==
    ASSUME NEW S, NEW d \in Seq(Seq(S)), NEW g, g[0] = 0,
           \A n \in 0 .. Len(d) - 1 : g[n + 1] = g[n] + Len(d[n + 1])
    PROVE  /\ \A n \in 0 .. Len(d) : Len(Prefix(d, n)) = g[n]
           /\ FlattenSeq(d) \in Seq(S) /\ Len(FlattenSeq(d)) = g[Len(d)]
  <1> DEFINE T == {n \in Nat : n \in 0 .. Len(d) => Len(Prefix(d, n)) = g[n]}
  <1>1. 0 \in T
    <2>1. Prefix(d, 0) = <<>> /\ Len(<<>>) = 0
      BY PrefixSteps
    <2> QED BY <2>1
  <1>2. ASSUME NEW n \in Nat, n \in T
        PROVE  n + 1 \in T
    <2> SUFFICES ASSUME n + 1 \in 0 .. Len(d)
                 PROVE  Len(Prefix(d, n + 1)) = g[n + 1]
      OBVIOUS
    <2>1. n \in 0 .. Len(d) - 1 /\ n \in 0 .. Len(d) /\ n + 1 \in 1 .. Len(d) /\ n \in n .. Len(d)
      OBVIOUS
    <2> DEFINE a == Prefix(d, n)
               b == d[n + 1]
               c == Prefix(d, n + 1)
    <2>2. c = a \o b
      BY <2>1, PrefixSteps
    <2>3. a \in Seq(S)
      BY <2>1, PrefixGrows
    <2>4. b \in Seq(S)
      BY <2>1
    <2>5. Len(a) = g[n] /\ g[n + 1] = g[n] + Len(b)
      BY <1>2, <2>1
    <2> HIDE DEF a, b, c
    <2>6. Len(c) = Len(a) + Len(b)
      BY <2>2, <2>3, <2>4
    <2> QED BY <2>5, <2>6 DEF c
  <1> HIDE DEF T
  <1>3. ASSUME NEW n \in 0 .. Len(d)
        PROVE  Len(Prefix(d, n)) = g[n]
    <2>1. n \in Nat
      OBVIOUS
    <2>2. n \in T
      BY <1>1, <1>2, <2>1, SetInduction
    <2> QED BY <2>2 DEF T
  <1>4. FlattenSeq(d) = Prefix(d, Len(d)) /\ Len(d) \in 0 .. Len(d) /\ Len(d) \in Len(d) .. Len(d)
    BY PrefixSteps
  <1>5. Prefix(d, Len(d)) \in Seq(S)
    BY <1>4, PrefixGrows
  <1> QED BY <1>3, <1>4, <1>5
=============================================================================
