--------------------------- MODULE PacketListProofs ---------------------------
(* Lemmas about the operators of PacketList, for lists of any length: what a   *)
(* repetition, a flattened set and the order of transmission are, one step at  *)
(* a time.  They rest on induction, which is stated with a set of numbers      *)
(* instead of a predicate.                                                     *)
EXTENDS PacketList, FiniteSetTheorems, WellFoundedInduction, TLAPS

Lists == INSTANCE SequenceTheorems

-----------------------------------------------------------------------------
(* Induction.                                                                *)

\* A set of naturals has a least element: otherwise the intervals 1 .. n would descend
\* for ever in the well-founded order of finite sets.
LEMMA LeastNumber ==
    ASSUME NEW T \in SUBSET Nat, T # {}
    PROVE  \E n \in T : \A m \in T : n <= m
  <1> DEFINE U == {1 .. n : n \in T}
             R == StrictSubsetOrdering(Nat)
             F == FiniteSubsetsOf(Nat)
  <1>1. \E x \in U : \A y \in U : ~ (<<y, x>> \in R)
    <2>1. IsWellFoundedOn(R, F)
      BY FS_StrictSubsetOrderingWellFounded
    <2>2. U \subseteq F /\ U # {}
      <3>1. ASSUME NEW n \in T PROVE IsFiniteSet(1 .. n) /\ 1 .. n \in SUBSET Nat
        <4>1. 1 \in Int /\ n \in Int
          OBVIOUS
        <4> QED
          BY <4>1, FS_Interval
      <3> QED
        BY <3>1 DEF FiniteSubsetsOf
    <2> HIDE DEF R, U, F
    <2> QED
      BY <2>1, <2>2, WFMin
  <1>2. PICK n \in T : \A m \in T : ~ (<<1 .. m, 1 .. n>> \in R)
    BY <1>1
  <1>3. ASSUME NEW m \in T, m < n PROVE FALSE
    <2>1. /\ 1 .. m \subseteq Nat /\ 1 .. n \subseteq Nat
          /\ 1 .. m \subseteq 1 .. n /\ n \in 1 .. n /\ n \notin 1 .. m
      BY <1>3
    <2> QED
      BY <2>1, <1>2 DEF StrictSubsetOrdering
  <1> QED
    BY <1>2, <1>3

\* Induction over the naturals.
LEMMA Induction ==
    ASSUME NEW S \in SUBSET Nat, 0 \in S, \A n \in S : n + 1 \in S
    PROVE  S = Nat
  <1>1. SUFFICES ASSUME Nat \ S # {} PROVE FALSE
    OBVIOUS
  <1>2. PICK n \in Nat \ S : \A m \in Nat \ S : n <= m
    BY <1>1, LeastNumber
  <1>3. n - 1 \in S
    BY <1>2
  <1> QED
    BY <1>2, <1>3

-----------------------------------------------------------------------------
(* Beginnings of sequences.                                                  *)

\* s is how t, a sequence over T, begins.
Begins(T, s, t) == \E r \in Seq(T) : t = s \o r

LEMMA BeginsCat ==
    ASSUME NEW T, NEW s \in Seq(T), NEW t \in Seq(T)
    PROVE  Begins(T, s, s \o t)
  BY DEF Begins

LEMMA BeginsAll ==
    ASSUME NEW T, NEW s \in Seq(T)
    PROVE  Begins(T, s, s)
  <1>1. <<>> \in Seq(T) /\ s = s \o <<>>
    BY Lists!EmptySeq, Lists!ConcatEmptySeq
  <1> QED
    BY <1>1 DEF Begins

LEMMA BeginsTrans ==
    ASSUME NEW T, NEW s \in Seq(T), NEW t \in Seq(T), NEW u \in Seq(T),
           Begins(T, s, t), Begins(T, t, u)
    PROVE  Begins(T, s, u)
  <1>1. PICK r \in Seq(T) : t = s \o r
    BY DEF Begins
  <1>2. PICK q \in Seq(T) : u = t \o q
    BY DEF Begins
  <1>3. u = s \o (r \o q) /\ r \o q \in Seq(T)
    BY <1>1, <1>2, Lists!ConcatAssociative, Lists!ConcatProperties
  <1> QED
    BY <1>3 DEF Begins

LEMMA BeginsAfter ==
    ASSUME NEW T, NEW s \in Seq(T), NEW t \in Seq(T), NEW u \in Seq(T), Begins(T, s, t)
    PROVE  Begins(T, u \o s, u \o t)
  <1>1. PICK r \in Seq(T) : t = s \o r
    BY DEF Begins
  <1>2. u \o t = (u \o s) \o r
    BY <1>1, Lists!ConcatAssociative
  <1> QED
    BY <1>2 DEF Begins

\* The element behind what is there already is the next of the whole.
LEMMA BeginsNext ==
    ASSUME NEW T, NEW s \in Seq(T), NEW e \in T, NEW t \in Seq(T),
           Begins(T, Append(s, e), t)
    PROVE  Len(s) < Len(t) /\ t[Len(s) + 1] = e
  <1>1. PICK r \in Seq(T) : t = Append(s, e) \o r
    BY DEF Begins
  <1>2. Append(s, e) \in Seq(T) /\ Len(Append(s, e)) = Len(s) + 1
        /\ Append(s, e)[Len(s) + 1] = e /\ Len(s) \in Nat /\ Len(r) \in Nat
    BY Lists!AppendProperties
  <1> DEFINE a == Append(s, e)
  <1>3. /\ Len(t) = Len(a) + Len(r)
        /\ \A i \in 1 .. Len(a) + Len(r) : t[i] = IF i <= Len(a) THEN a[i] ELSE r[i - Len(a)]
    <2>1. a \in Seq(T) BY <1>2
    <2> HIDE DEF a
    <2> QED BY <1>1, <2>1, Lists!ConcatProperties DEF a
  <1> QED
    BY <1>2, <1>3

-----------------------------------------------------------------------------
(* Repetition.                                                               *)

\* Dividing n * l + r by l.
LEMMA DivideMultiple ==
    ASSUME NEW n \in Nat, NEW l \in Nat \ {0}, NEW r \in 0 .. l - 1
    PROVE  (n * l + r) % l = r /\ (n * l + r) \div l = n
  <1> DEFINE a == n * l + r
  <1>1. a \in Nat /\ a \div l \in Int /\ a % l \in 0 .. l - 1 /\ a = l * (a \div l) + (a % l)
    <2>1. a \in Nat
      OBVIOUS
    <2> HIDE DEF a
    <2> QED
      BY <2>1
  <1>2. l * (a \div l - n) = r - (a % l)
    BY <1>1
  <1> DEFINE d == a \div l - n
  <1>3. d \in Int /\ l * d < l /\ l * d > - l
    BY <1>1, <1>2
  <1>4. d = 0
    <2> HIDE DEF d
    <2>1. CASE d >= 1
      <3>1. l * d >= l * 1 BY <2>1, <1>3
      <3> QED BY <3>1, <1>3
    <2>2. CASE d <= -1
      <3>1. l * d <= l * (-1) BY <2>2, <1>3
      <3> QED BY <3>1, <1>3
    <2> QED BY <2>1, <2>2, <1>3
  <1> QED
    BY <1>1, <1>2, <1>4

LEMMA RepeatType ==
    ASSUME NEW T, NEW s \in Seq(T), NEW n \in Nat
    PROVE  Repeat(s, n) \in Seq(T) /\ Len(Repeat(s, n)) = n * Len(s)
  <1>1. Len(s) \in Nat /\ n * Len(s) \in Nat
    OBVIOUS
  <1>2. ASSUME NEW m \in 1 .. n * Len(s) PROVE s[((m - 1) % Len(s)) + 1] \in T
    <2>1. Len(s) # 0
      BY <1>2
    <2>2. (m - 1) % Len(s) \in 0 .. Len(s) - 1
      BY <1>1, <2>1
    <2>3. ((m - 1) % Len(s)) + 1 \in 1 .. Len(s)
      BY <2>2, <1>1
    <2> QED
      BY <2>3, Lists!ElementOfSeq
  <1>3. Repeat(s, n) \in [1 .. n * Len(s) -> T]
    BY <1>2 DEF Repeat
  <1> QED
    BY <1>1, <1>3

LEMMA RepeatNone ==
    ASSUME NEW T, NEW s \in Seq(T)
    PROVE  Repeat(s, 0) = <<>>
  BY RepeatType

\* One more repetition is appended.
LEMMA RepeatOnce ==
    ASSUME NEW T, NEW s \in Seq(T), NEW n \in Nat
    PROVE  Repeat(s, n + 1) = Repeat(s, n) \o s
  <1> DEFINE l == Len(s)
             k == n * l
             a == Repeat(s, n)
             b == Repeat(s, n + 1)
  <1>1. l \in Nat /\ k \in Nat /\ (n + 1) * l = k + l
    OBVIOUS
  <1>2. a \in Seq(T) /\ Len(a) = k
    BY RepeatType
  <1>3. b \in Seq(T) /\ Len(b) = (n + 1) * l
    <2>1. n + 1 \in Nat
      OBVIOUS
    <2> QED
      BY <2>1, RepeatType
  <1>4. \A m \in 1 .. k : a[m] = s[((m - 1) % l) + 1]
    BY DEF Repeat
  <1>5. \A m \in 1 .. (n + 1) * l : b[m] = s[((m - 1) % l) + 1]
    BY DEF Repeat
  <1>6. ASSUME l # 0, NEW r \in 0 .. l - 1 PROVE (k + r) % l = r
    BY <1>1, <1>6, DivideMultiple
  <1> HIDE DEF l, k, a, b
  <1>7. /\ a \o s \in Seq(T) /\ Len(a \o s) = k + l
        /\ \A m \in 1 .. k + l : (a \o s)[m] = IF m <= k THEN a[m] ELSE s[m - k]
    BY <1>1, <1>2, Lists!ConcatProperties DEF l
  <1>8. ASSUME NEW m \in 1 .. k + l PROVE b[m] = (a \o s)[m]
    <2>1. b[m] = s[((m - 1) % l) + 1]
      BY <1>1, <1>5
    <2>2. CASE m <= k
      BY <2>1, <2>2, <1>1, <1>4, <1>7
    <2>3. CASE ~ (m <= k)
      <3> DEFINE r == m - 1 - k
      <3>1. l # 0 /\ r \in 0 .. l - 1 /\ m - 1 = k + r
        BY <2>3, <1>1
      <3>2. (m - 1) % l = r
        BY <3>1, <1>6
      <3>3. ((m - 1) % l) + 1 = m - k
        BY <3>2, <1>1
      <3> QED
        BY <2>1, <2>3, <3>3, <1>7
    <2> QED
      BY <2>2, <2>3
  <1>9. b = a \o s
    BY <1>1, <1>2, <1>3, <1>7, <1>8, Lists!SeqEqual
  <1> QED
    BY <1>9 DEF a, b

\* Fewer repetitions are how more of them begin.
LEMMA RepeatBegins ==
    ASSUME NEW T, NEW s \in Seq(T), NEW j \in Nat, NEW n \in Nat, j <= n
    PROVE  Begins(T, Repeat(s, j), Repeat(s, n))
  <1> DEFINE S == {m \in Nat : Begins(T, Repeat(s, j), Repeat(s, j + m))}
  <1>1. 0 \in S
    BY RepeatType, BeginsAll
  <1>2. ASSUME NEW m \in S PROVE m + 1 \in S
    <2>1. Begins(T, Repeat(s, j), Repeat(s, j + m)) /\ m \in Nat
      OBVIOUS
    <2>2. j + m \in Nat /\ (j + m) + 1 = j + (m + 1)
      BY <2>1
    <2>3. Repeat(s, (j + m) + 1) = Repeat(s, j + m) \o s
      BY <2>2, RepeatOnce
    <2>4. Repeat(s, j) \in Seq(T) /\ Repeat(s, j + m) \in Seq(T)
      BY <2>2, RepeatType
    <2>5. Repeat(s, j + m) \o s \in Seq(T)
      BY <2>4, Lists!ConcatProperties
    <2>6. Begins(T, Repeat(s, j), Repeat(s, (j + m) + 1))
      BY <2>1, <2>3, <2>4, <2>5, BeginsCat, BeginsTrans
    <2> QED
      BY <2>1, <2>2, <2>6
  <1>3. S = Nat
    <2>1. S \in SUBSET Nat
      OBVIOUS
    <2> HIDE DEF S
    <2> QED
      BY <1>1, <1>2, <2>1, Induction
  <1>4. n - j \in S
    <2>1. n - j \in Nat
      OBVIOUS
    <2> QED
      BY <2>1, <1>3
  <1>5. j + (n - j) = n
    OBVIOUS
  <1> QED
    BY <1>4, <1>5

-----------------------------------------------------------------------------
(* Flattening.                                                               *)

\* f is the recursive function FlattenSeq(s) takes its value from.
Flattens(f, s) ==
    f = [i \in 1 .. Len(s) |-> IF i = 1 THEN s[i] ELSE f[i - 1] \o s[i]]

\* There is such a function, up to each index of s.
LEMMA FlattensExists ==
    ASSUME NEW T, NEW s \in Seq(Seq(T))
    PROVE  \E f : Flattens(f, s)
  <1> DEFINE Up(n) == \E f : f = [i \in 1 .. n |-> IF i = 1 THEN s[i] ELSE f[i - 1] \o s[i]]
             S == {n \in Nat : Up(n)}
  <1>1. 0 \in S
    <2>1. Up(0)
      <3> DEFINE f == [i \in 1 .. 0 |-> s[i]]
      <3>1. f = [i \in 1 .. 0 |-> IF i = 1 THEN s[i] ELSE f[i - 1] \o s[i]]
        OBVIOUS
      <3> QED
        BY <3>1
    <2> QED
      BY <2>1
  <1>2. ASSUME NEW n \in S PROVE n + 1 \in S
    <2>1. n \in Nat
      OBVIOUS
    <2>2. PICK f : f = [i \in 1 .. n |-> IF i = 1 THEN s[i] ELSE f[i - 1] \o s[i]]
      OBVIOUS
    <2> DEFINE g == [i \in 1 .. n + 1 |->
                        IF i <= n THEN f[i] ELSE IF i = 1 THEN s[i] ELSE f[i - 1] \o s[i]]
    <2>3. g = [i \in 1 .. n + 1 |-> IF i = 1 THEN s[i] ELSE g[i - 1] \o s[i]]
      <3>1. ASSUME NEW i \in 1 .. n + 1
            PROVE  g[i] = IF i = 1 THEN s[i] ELSE g[i - 1] \o s[i]
        <4>1. CASE i <= n
          <5>1. i \in 1 .. n /\ g[i] = f[i]
            BY <2>1, <4>1
          <5>2. f[i] = IF i = 1 THEN s[i] ELSE f[i - 1] \o s[i]
            BY <2>2, <5>1
          <5>3. i # 1 => i - 1 \in 1 .. n + 1 /\ i - 1 <= n /\ g[i - 1] = f[i - 1]
            BY <2>1, <5>1
          <5> QED
            BY <5>1, <5>2, <5>3
        <4>2. CASE i = n + 1
          <5>1. g[i] = IF i = 1 THEN s[i] ELSE f[i - 1] \o s[i]
            BY <2>1, <4>2
          <5>2. i # 1 => i - 1 \in 1 .. n + 1 /\ i - 1 <= n /\ g[i - 1] = f[i - 1]
            BY <2>1, <4>2
          <5> QED
            BY <5>1, <5>2
        <4> QED
          BY <2>1, <4>1, <4>2
      <3> QED
        BY <3>1
    <2>4. Up(n + 1)
      <3> HIDE DEF g
      <3> QED
        BY <2>3
    <2> HIDE DEF Up
    <2> QED
      BY <2>1, <2>4
  <1>3. S = Nat
    <2>1. S \in SUBSET Nat
      OBVIOUS
    <2> HIDE DEF S
    <2> QED
      BY <1>1, <1>2, <2>1, Induction
  <1>4. Up(Len(s))
    <2>1. Len(s) \in Nat
      OBVIOUS
    <2> HIDE DEF Up
    <2> QED
      BY <1>3, <2>1
  <1> QED
    BY <1>4 DEF Flattens

\* Its values are sequences over the same set.
LEMMA FlattensType ==
    ASSUME NEW T, NEW s \in Seq(Seq(T)), NEW f, Flattens(f, s)
    PROVE  \A i \in 1 .. Len(s) : f[i] \in Seq(T)
  <1> DEFINE S == {n \in Nat : n \in 1 .. Len(s) => f[n] \in Seq(T)}
  <1>1. 0 \in S
    OBVIOUS
  <1>2. ASSUME NEW n \in S PROVE n + 1 \in S
    <2> SUFFICES ASSUME n + 1 \in 1 .. Len(s) PROVE f[n + 1] \in Seq(T)
      OBVIOUS
    <2>1. s[n + 1] \in Seq(T)
      BY Lists!ElementOfSeq
    <2>2. f[n + 1] = IF n + 1 = 1 THEN s[n + 1] ELSE f[(n + 1) - 1] \o s[n + 1]
      BY DEF Flattens
    <2>3. CASE n = 0
      BY <2>1, <2>2, <2>3
    <2>4. CASE n # 0
      <3>1. n \in 1 .. Len(s) /\ (n + 1) - 1 = n /\ n + 1 # 1
        BY <2>4
      <3>2. f[n] \in Seq(T) /\ f[n + 1] = f[n] \o s[n + 1]
        BY <3>1, <2>2
      <3> QED
        BY <3>2, <2>1, Lists!ConcatProperties
    <2> QED
      BY <2>3, <2>4
  <1>3. S = Nat
    <2>1. S \in SUBSET Nat
      OBVIOUS
    <2> HIDE DEF S
    <2> QED
      BY <1>1, <1>2, <2>1, Induction
  <1> QED
    BY <1>3

\* It agrees with that of a longer sequence.
LEMMA FlattensAgree ==
    ASSUME NEW T, NEW s \in Seq(Seq(T)), NEW e \in Seq(T),
           NEW f, Flattens(f, s), NEW g, Flattens(g, Append(s, e))
    PROVE  \A i \in 1 .. Len(s) : f[i] = g[i]
  <1> DEFINE S == {n \in Nat : n \in 1 .. Len(s) => f[n] = g[n]}
             a == Append(s, e)
  <1>1. 0 \in S
    OBVIOUS
  <1>2. Len(s) \in Nat /\ Len(a) = Len(s) + 1 /\ \A i \in 1 .. Len(s) : a[i] = s[i]
    BY Lists!AppendProperties
  <1>3. g = [i \in 1 .. Len(a) |-> IF i = 1 THEN a[i] ELSE g[i - 1] \o a[i]]
    BY DEF Flattens
  <1>4. f = [i \in 1 .. Len(s) |-> IF i = 1 THEN s[i] ELSE f[i - 1] \o s[i]]
    BY DEF Flattens
  <1>5. ASSUME NEW n \in S PROVE n + 1 \in S
    <2> SUFFICES ASSUME n + 1 \in 1 .. Len(s) PROVE f[n + 1] = g[n + 1]
      OBVIOUS
    <2> DEFINE m == n + 1
    <2> HIDE DEF a
    <2>1. m \in 1 .. Len(a) /\ a[m] = s[m]
      <3>1. m \in 1 .. Len(s)
        OBVIOUS
      <3> HIDE DEF m, S
      <3> QED
        BY <3>1, <1>2
    <2>2. f[n + 1] = IF n + 1 = 1 THEN s[n + 1] ELSE f[(n + 1) - 1] \o s[n + 1]
      BY <1>4
    <2>3. g[n + 1] = IF n + 1 = 1 THEN a[n + 1] ELSE g[(n + 1) - 1] \o a[n + 1]
      BY <2>1, <1>3
    <2>4. n # 0 => f[n] = g[n] /\ (n + 1) - 1 = n
      OBVIOUS
    <2> QED
      BY <2>1, <2>2, <2>3, <2>4
  <1>6. S = Nat
    <2>1. S \in SUBSET Nat
      OBVIOUS
    <2> HIDE DEF S
    <2> QED
      BY <1>1, <1>5, <2>1, Induction
  <1> QED
    BY <1>6

\* The value FlattenSeq takes.
LEMMA FlattenValue ==
    ASSUME NEW T, NEW s \in Seq(Seq(T)), s # <<>>
    PROVE  \E f : Flattens(f, s) /\ FlattenSeq(s) = f[Len(s)]
  <1> DEFINE f == CHOOSE f : f = [i \in 1 .. Len(s) |-> IF i = 1 THEN s[i] ELSE f[i - 1] \o s[i]]
  <1>1. f = [i \in 1 .. Len(s) |-> IF i = 1 THEN s[i] ELSE f[i - 1] \o s[i]]
    BY FlattensExists DEF Flattens
  <1>2. FlattenSeq(s) = f[Len(s)]
    BY DEF FlattenSeq
  <1> HIDE DEF f
  <1> QED
    BY <1>1, <1>2 DEF Flattens

LEMMA FlattenNone == FlattenSeq(<<>>) = <<>>
  BY DEF FlattenSeq

LEMMA FlattenType ==
    ASSUME NEW T, NEW s \in Seq(Seq(T))
    PROVE  FlattenSeq(s) \in Seq(T)
  <1>1. CASE s = <<>>
    BY <1>1, FlattenNone, Lists!EmptySeq
  <1>2. CASE s # <<>>
    <2>1. PICK f : Flattens(f, s) /\ FlattenSeq(s) = f[Len(s)]
      BY <1>2, FlattenValue
    <2>2. Len(s) \in 1 .. Len(s)
      BY <1>2, Lists!EmptySeq
    <2> QED
      BY <2>1, <2>2, FlattensType
  <1> QED
    BY <1>1, <1>2

\* One more sequence is appended.
LEMMA FlattenAppend ==
    ASSUME NEW T, NEW s \in Seq(Seq(T)), NEW e \in Seq(T)
    PROVE  FlattenSeq(Append(s, e)) = FlattenSeq(s) \o e
  <1> DEFINE a == Append(s, e)
  <1>1. /\ a \in Seq(Seq(T)) /\ a # <<>> /\ Len(a) = Len(s) + 1 /\ a[Len(s) + 1] = e
        /\ Len(s) \in Nat /\ \A i \in 1 .. Len(s) : a[i] = s[i]
    BY Lists!AppendProperties
  <1>2. PICK g : Flattens(g, a) /\ FlattenSeq(a) = g[Len(a)]
    <2> HIDE DEF a
    <2> QED
      BY <1>1, FlattenValue
  <1>3. g[Len(a)] = IF Len(a) = 1 THEN a[Len(a)] ELSE g[Len(a) - 1] \o a[Len(a)]
    <2>1. Len(a) \in 1 .. Len(a)
      BY <1>1
    <2> HIDE DEF a
    <2> QED
      BY <1>2, <2>1 DEF Flattens
  <1>4. CASE s = <<>>
    <2>1. Len(s) = 0
      BY <1>4
    <2>2. Len(a) = 1 /\ g[Len(a)] = e
      BY <2>1, <1>1, <1>3
    <2> QED
      BY <1>2, <1>4, <2>2, FlattenNone, Lists!ConcatEmptySeq
  <1>5. CASE s # <<>>
    <2>1. PICK f : Flattens(f, s) /\ FlattenSeq(s) = f[Len(s)]
      BY <1>5, FlattenValue
    <2>2. Len(s) \in 1 .. Len(s)
      BY <1>5, Lists!EmptySeq
    <2>3. f[Len(s)] = g[Len(s)]
      BY <1>2, <2>1, <2>2, FlattensAgree
    <2>4. g[Len(a)] = g[Len(s)] \o e
      <3>1. Len(a) # 1 /\ Len(a) - 1 = Len(s) /\ a[Len(a)] = e
        BY <1>1, <2>2
      <3> HIDE DEF a
      <3> QED
        BY <3>1, <1>3
    <2> QED
      BY <1>2, <2>1, <2>3, <2>4
  <1> QED
    BY <1>4, <1>5

-----------------------------------------------------------------------------
(* The order of transmission.                                                *)

Entry == [guid : Nat, gap : Int]

LEMMA SequencePacketsType ==
    ASSUME NEW seq \in SequenceType
    PROVE  /\ SequencePackets(seq) \in Seq(Entry)
           /\ Len(SequencePackets(seq)) = Len(seq.pkts) /\ Len(seq.pkts) \in Nat
           /\ \A p \in 1 .. Len(seq.pkts) : SequencePackets(seq)[p].guid = seq.pkts[p].guid
  <1>1. seq.pkts \in Seq(PacketType) /\ Len(seq.pkts) \in Nat /\ seq.usecDelay \in Int
    BY DEF SequenceType
  <1>2. ASSUME NEW p \in 1 .. Len(seq.pkts)
        PROVE  SequencePackets(seq)[p] \in Entry /\ SequencePackets(seq)[p].guid = seq.pkts[p].guid
    <2>1. seq.pkts[p] \in PacketType
      BY <1>1, Lists!ElementOfSeq
    <2>2. p # Len(seq.pkts) => seq.pkts[p + 1] \in PacketType
      <3>1. p # Len(seq.pkts) => p + 1 \in 1 .. Len(seq.pkts)
        BY <1>1
      <3> QED
        BY <1>1, <3>1, Lists!ElementOfSeq
    <2> QED
      BY <1>1, <2>1, <2>2 DEF SequencePackets, Entry, PacketType
  <1>3. SequencePackets(seq) \in [1 .. Len(seq.pkts) -> Entry]
    BY <1>2 DEF SequencePackets
  <1> QED
    BY <1>1, <1>2, <1>3

\* The sequences PacketsOf flattens.
SequencesOf(seqs, i, k) == [m \in 1 .. k |-> SequencePackets(seqs[i + m - 1])]

LEMMA SequencesOfType ==
    ASSUME NEW seqs \in Seq(SequenceType), NEW i \in Nat \ {0}, NEW k \in Nat,
           i + k <= Len(seqs) + 1
    PROVE  /\ SequencesOf(seqs, i, k) \in Seq(Seq(Entry)) /\ Len(SequencesOf(seqs, i, k)) = k
           /\ \A m \in 1 .. k : SequencesOf(seqs, i, k)[m] = SequencePackets(seqs[i + m - 1])
  <1>1. ASSUME NEW m \in 1 .. k PROVE SequencePackets(seqs[i + m - 1]) \in Seq(Entry)
    <2>1. i + m - 1 \in 1 .. Len(seqs)
      OBVIOUS
    <2> QED
      BY <2>1, Lists!ElementOfSeq, SequencePacketsType
  <1>2. SequencesOf(seqs, i, k) \in [1 .. k -> Seq(Entry)]
    BY <1>1 DEF SequencesOf
  <1>3. \A m \in 1 .. k : SequencesOf(seqs, i, k)[m] = SequencePackets(seqs[i + m - 1])
    BY DEF SequencesOf
  <1> QED
    BY <1>2, <1>3

LEMMA PacketsOfType ==
    ASSUME NEW seqs \in Seq(SequenceType), NEW i \in Nat \ {0}, NEW k \in Nat,
           i + k <= Len(seqs) + 1
    PROVE  PacketsOf(seqs, i, k) \in Seq(Entry)
  <1>1. SequencesOf(seqs, i, k) \in Seq(Seq(Entry))
    BY SequencesOfType
  <1>2. FlattenSeq(SequencesOf(seqs, i, k)) \in Seq(Entry)
    BY <1>1, FlattenType
  <1> QED
    BY <1>2 DEF PacketsOf, SequencesOf

LEMMA PacketsOfNone ==
    ASSUME NEW seqs, NEW i
    PROVE  PacketsOf(seqs, i, 0) = <<>>
  <1>1. [m \in 1 .. 0 |-> SequencePackets(seqs[i + m - 1])] = <<>>
    OBVIOUS
  <1> QED
    BY <1>1, FlattenNone DEF PacketsOf

LEMMA PacketsOfNext ==
    ASSUME NEW seqs \in Seq(SequenceType), NEW i \in Nat \ {0}, NEW k \in Nat,
           i + k <= Len(seqs)
    PROVE  PacketsOf(seqs, i, k + 1) = PacketsOf(seqs, i, k) \o SequencePackets(seqs[i + k])
  <1> DEFINE a == SequencesOf(seqs, i, k)
             b == SequencesOf(seqs, i, k + 1)
             e == SequencePackets(seqs[i + k])
  <1>1. /\ a \in Seq(Seq(Entry)) /\ Len(a) = k
        /\ \A m \in 1 .. k : a[m] = SequencePackets(seqs[i + m - 1])
    BY SequencesOfType
  <1>2. /\ b \in Seq(Seq(Entry)) /\ Len(b) = k + 1
        /\ \A m \in 1 .. k + 1 : b[m] = SequencePackets(seqs[i + m - 1])
    <2>1. k + 1 \in Nat /\ i + (k + 1) <= Len(seqs) + 1
      OBVIOUS
    <2> QED
      BY <2>1, SequencesOfType
  <1>3. e \in Seq(Entry)
    <2>1. i + k \in 1 .. Len(seqs)
      OBVIOUS
    <2> QED
      BY <2>1, Lists!ElementOfSeq, SequencePacketsType
  <1>4. ASSUME NEW m \in 1 .. k + 1 PROVE b[m] = IF m = k + 1 THEN e ELSE a[m]
    <2>1. CASE m = k + 1
      <3>1. i + m - 1 = i + k
        BY <2>1
      <3> HIDE DEF a, b
      <3> QED
        BY <2>1, <3>1, <1>2
    <2>2. CASE m \in 1 .. k
      <3>1. m # k + 1
        BY <2>2
      <3> HIDE DEF a, b
      <3> QED
        BY <2>2, <3>1, <1>1, <1>2
    <2> QED
      BY <2>1, <2>2
  <1>5. b = Append(a, e)
    <2> HIDE DEF a, b, e
    <2>1. /\ Append(a, e) \in Seq(Seq(Entry)) /\ Len(Append(a, e)) = k + 1
          /\ \A m \in 1 .. k : Append(a, e)[m] = a[m] 
          /\ Append(a, e)[k + 1] = e
      BY <1>1, <1>3, Lists!AppendProperties
    <2>2. ASSUME NEW m \in 1 .. k + 1 PROVE b[m] = Append(a, e)[m]
      <3>1. m = k + 1 \/ m \in 1 .. k
        OBVIOUS
      <3> QED
        BY <3>1, <2>1, <1>4
    <2> QED
      BY <1>2, <2>1, <2>2, Lists!SeqEqual
  <1>6. FlattenSeq(Append(a, e)) = FlattenSeq(a) \o e
    <2> HIDE DEF a, e
    <2> QED
      BY <1>1, <1>3, FlattenAppend
  <1> QED
    BY <1>5, <1>6 DEF PacketsOf, SequencesOf

\* Fewer sequences of a set are how more of them begin.
LEMMA PacketsOfBegins ==
    ASSUME NEW seqs \in Seq(SequenceType), NEW i \in Nat \ {0}, NEW k \in Nat,
           NEW n \in Nat, k <= n, i + n <= Len(seqs) + 1
    PROVE  Begins(Entry, PacketsOf(seqs, i, k), PacketsOf(seqs, i, n))
  <1> DEFINE Good(m) == k + m <= n => Begins(Entry, PacketsOf(seqs, i, k), PacketsOf(seqs, i, k + m))
             S == {m \in Nat : Good(m)}
  <1>1. PacketsOf(seqs, i, k) \in Seq(Entry)
    BY PacketsOfType
  <1>2. 0 \in S
    BY <1>1, BeginsAll
  <1>3. ASSUME NEW m \in S PROVE m + 1 \in S
    <2> SUFFICES ASSUME k + (m + 1) <= n
                 PROVE  Begins(Entry, PacketsOf(seqs, i, k), PacketsOf(seqs, i, k + (m + 1)))
      OBVIOUS
    <2> DEFINE q == k + m
    <2>1. q \in Nat /\ k + (m + 1) = q + 1 /\ i + q <= Len(seqs) /\ q <= n
      OBVIOUS
    <2>2. Begins(Entry, PacketsOf(seqs, i, k), PacketsOf(seqs, i, q))
      BY <2>1
    <2> HIDE DEF q
    <2>3. PacketsOf(seqs, i, q + 1) = PacketsOf(seqs, i, q) \o SequencePackets(seqs[i + q])
      BY <2>1, PacketsOfNext
    <2>4. PacketsOf(seqs, i, q) \in Seq(Entry)
      BY <2>1, PacketsOfType
    <2>5. SequencePackets(seqs[i + q]) \in Seq(Entry)
      <3>1. i + q \in 1 .. Len(seqs)
        BY <2>1
      <3> QED
        BY <3>1, Lists!ElementOfSeq, SequencePacketsType
    <2>6. PacketsOf(seqs, i, q) \o SequencePackets(seqs[i + q]) \in Seq(Entry)
      BY <2>4, <2>5, Lists!ConcatProperties
    <2>7. Begins(Entry, PacketsOf(seqs, i, k), PacketsOf(seqs, i, q + 1))
      <3>1. Begins(Entry, PacketsOf(seqs, i, q), PacketsOf(seqs, i, q + 1))
        BY <2>3, <2>4, <2>5, BeginsCat
      <3>2. PacketsOf(seqs, i, q + 1) \in Seq(Entry)
        BY <2>3, <2>6
      <3> HIDE DEF Good, S
      <3> QED
        BY <1>1, <2>2, <2>4, <3>1, <3>2, BeginsTrans
    <2> QED
      BY <2>1, <2>7
  <1>4. S = Nat
    <2>1. S \in SUBSET Nat
      OBVIOUS
    <2> HIDE DEF S
    <2> QED
      BY <1>2, <1>3, <2>1, Induction
  <1>5. Good(n - k)
    <2>1. n - k \in Nat
      OBVIOUS
    <2> HIDE DEF Good
    <2> QED
      BY <1>4, <2>1
  <1>6. k + (n - k) = n
    OBVIOUS
  <1> QED
    BY <1>5, <1>6

\* No sequence claims a set that ends behind the list.
Enclosed(seqs) ==
    /\ seqs \in Seq(SequenceType)
    /\ \A q \in 1 .. Len(seqs) : q + seqs[q].repeatSize <= Len(seqs) + 1

\* What a tiled list has to do with it.
LEMMA TiledEnclosed ==
    ASSUME NEW seqs \in Seq(SequenceType), Tiled(seqs)
    PROVE  Enclosed(seqs)
  BY DEF Tiled, TiledBy, Enclosed

LEMMA SequenceAt ==
    ASSUME NEW seqs, Enclosed(seqs), NEW i \in 1 .. Len(seqs)
    PROVE  /\ seqs[i] \in SequenceType /\ Len(seqs) \in Nat
           /\ seqs[i].repeatSize \in Nat \ {0} /\ seqs[i].repeatCount \in Nat
           /\ i + seqs[i].repeatSize \in i + 1 .. Len(seqs) + 1
           /\ SetPackets(seqs, i) \in Seq(Entry)
           /\ Repeat(SetPackets(seqs, i), seqs[i].repeatCount) \in Seq(Entry)
  <1>1. seqs \in Seq(SequenceType) /\ Len(seqs) \in Nat
    BY DEF Enclosed
  <1>2. seqs[i] \in SequenceType
    BY <1>1, Lists!ElementOfSeq
  <1>3. seqs[i].repeatSize \in Nat \ {0} /\ seqs[i].repeatCount \in Nat
    BY <1>2 DEF SequenceType
  <1>4. i + seqs[i].repeatSize <= Len(seqs) + 1
    BY DEF Enclosed
  <1>5. i \in Nat \ {0}
    OBVIOUS
  <1>6. SetPackets(seqs, i) \in Seq(Entry)
    BY <1>1, <1>3, <1>4, <1>5, PacketsOfType DEF SetPackets
  <1>7. Repeat(SetPackets(seqs, i), seqs[i].repeatCount) \in Seq(Entry)
    BY <1>3, <1>6, RepeatType
  <1>8. i + seqs[i].repeatSize \in i + 1 .. Len(seqs) + 1
    BY <1>1, <1>3, <1>4
  <1> QED
    BY <1>1, <1>2, <1>3, <1>6, <1>7, <1>8

\* One step of TransmitFrom, of a function f that knows what comes behind.
StepFrom(seqs, f, i) ==
    IF i > Len(seqs) THEN <<>>
    ELSE Repeat(SetPackets(seqs, i), seqs[i].repeatCount) \o f[i + seqs[i].repeatSize]

\* Built from the back, the function TransmitFrom takes its value from exists.
LEMMA TransmitExists ==
    ASSUME NEW seqs, Enclosed(seqs)
    PROVE  \E f : f = [i \in 1 .. Len(seqs) + 1 |-> StepFrom(seqs, f, i)]
  <1> DEFINE L == Len(seqs)
             Up(n) == \E f : f = [i \in L + 1 - n .. L + 1 |-> StepFrom(seqs, f, i)]
             S == {n \in Nat : n <= L => Up(n)}
  <1>1. L \in Nat
    BY DEF Enclosed
  <1>2. 0 \in S
    <2>1. Up(0)
      <3> DEFINE f == [i \in L + 1 - 0 .. L + 1 |-> <<>>]
      <3>1. f = [i \in L + 1 - 0 .. L + 1 |-> StepFrom(seqs, f, i)]
        <4>1. ASSUME NEW i \in L + 1 - 0 .. L + 1 PROVE StepFrom(seqs, f, i) = <<>>
          BY <1>1 DEF StepFrom
        <4> QED
          BY <4>1
      <3> HIDE DEF f
      <3> QED
        BY <3>1
    <2> HIDE DEF Up
    <2> QED
      BY <2>1
  <1>3. ASSUME NEW n \in S PROVE n + 1 \in S
    <2> SUFFICES ASSUME n + 1 <= L PROVE Up(n + 1)
      <3> HIDE DEF Up
      <3> QED
        OBVIOUS
    <2>1. n \in Nat /\ Up(n)
      <3> HIDE DEF Up
      <3> QED
        BY <1>1
    <2>2. PICK f : f = [i \in L + 1 - n .. L + 1 |-> StepFrom(seqs, f, i)]
      BY <2>1
    <2> DEFINE first == L + 1 - (n + 1)
               g == [i \in first .. L + 1 |-> IF i = first THEN StepFrom(seqs, f, i) ELSE f[i]]
    <2>3. first \in 1 .. L /\ first + 1 = L + 1 - n
      BY <1>1, <2>1
    <2>4. ASSUME NEW i \in first .. L + 1 PROVE g[i] = StepFrom(seqs, f, i)
      <3>1. CASE i = first
        BY <3>1
      <3>2. CASE i # first
        <4>1. i \in L + 1 - n .. L + 1
          BY <1>1, <2>3, <3>2
        <4>2. f[i] = StepFrom(seqs, f, i)
          BY <2>2, <4>1
        <4> QED
          BY <3>2, <4>2
      <3> QED
        BY <3>1, <3>2
    <2>5. ASSUME NEW i \in first .. L + 1 PROVE StepFrom(seqs, g, i) = StepFrom(seqs, f, i)
      <3>1. CASE i > L
        BY <3>1 DEF StepFrom
      <3>2. CASE ~ (i > L)
        <4>1. i \in 1 .. Len(seqs)
          BY <1>1, <2>3, <3>2
        <4> DEFINE next == i + seqs[i].repeatSize
        <4>2. next \in i + 1 .. L + 1
          BY <4>1, SequenceAt
        <4>3. next \in first .. L + 1 /\ next # first
          BY <4>2, <1>1, <2>3
        <4>4. g[next] = f[next]
          <5> HIDE DEF next
          <5> QED
            BY <4>3
        <4> HIDE DEF g
        <4> QED
          BY <3>2, <4>4 DEF StepFrom
      <3> QED
        BY <3>1, <3>2
    <2>6. g = [i \in first .. L + 1 |-> StepFrom(seqs, g, i)]
      <3>1. g = [i \in first .. L + 1 |-> g[i]]
        OBVIOUS
      <3> HIDE DEF g
      <3> QED
        BY <2>4, <2>5, <3>1
    <2> HIDE DEF g
    <2> QED
      BY <2>6
  <1>4. S = Nat
    <2>1. S \in SUBSET Nat
      OBVIOUS
    <2> HIDE DEF S
    <2> QED
      BY <1>2, <1>3, <2>1, Induction
  <1>5. Up(L)
    <2> HIDE DEF Up
    <2> QED
      BY <1>1, <1>4
  <1>6. L + 1 - L = 1
    BY <1>1
  <1> QED
    BY <1>5, <1>6

\* What is sent from a sequence on: its set, repeated, and what is sent from the next
\* set on; nothing from behind the last.
LEMMA TransmitStep ==
    ASSUME NEW seqs, Enclosed(seqs)
    PROVE  /\ TransmitFrom(seqs)[Len(seqs) + 1] = <<>>
           /\ \A i \in 1 .. Len(seqs) :
                 TransmitFrom(seqs)[i] = Repeat(SetPackets(seqs, i), seqs[i].repeatCount)
                                            \o TransmitFrom(seqs)[i + seqs[i].repeatSize]
  <1> DEFINE t == CHOOSE f : f = [i \in 1 .. Len(seqs) + 1 |->
                     IF i > Len(seqs) THEN <<>>
                     ELSE Repeat(SetPackets(seqs, i), seqs[i].repeatCount)
                            \o f[i + seqs[i].repeatSize]]
  <1>1. Len(seqs) \in Nat
    BY DEF Enclosed
  <1>2. t = [i \in 1 .. Len(seqs) + 1 |->
                IF i > Len(seqs) THEN <<>>
                ELSE Repeat(SetPackets(seqs, i), seqs[i].repeatCount)
                       \o t[i + seqs[i].repeatSize]]
    BY TransmitExists DEF StepFrom
  <1>3. TransmitFrom(seqs) = t
    BY DEF TransmitFrom
  <1> HIDE DEF t
  <1>4. ASSUME NEW i \in 1 .. Len(seqs) + 1
        PROVE  t[i] = IF i > Len(seqs) THEN <<>>
                      ELSE Repeat(SetPackets(seqs, i), seqs[i].repeatCount)
                              \o t[i + seqs[i].repeatSize]
    BY <1>2
  <1>5. t[Len(seqs) + 1] = <<>>
    BY <1>1, <1>4
  <1>6. ASSUME NEW i \in 1 .. Len(seqs)
        PROVE  t[i] = Repeat(SetPackets(seqs, i), seqs[i].repeatCount)
                         \o t[i + seqs[i].repeatSize]
    <2>1. i \in 1 .. Len(seqs) + 1 /\ ~ (i > Len(seqs))
      BY <1>1
    <2> QED
      BY <2>1, <1>4
  <1> QED
    BY <1>3, <1>5, <1>6

LEMMA TransmitType ==
    ASSUME NEW seqs, Enclosed(seqs)
    PROVE  /\ \A i \in 1 .. Len(seqs) + 1 : TransmitFrom(seqs)[i] \in Seq(Entry)
           /\ TransmitOrder(seqs) \in Seq(Entry)
  <1> DEFINE L == Len(seqs)
             t == TransmitFrom(seqs)
             Good(n) == \A i \in L + 1 - n .. L + 1 : i \in 1 .. L + 1 => t[i] \in Seq(Entry)
             S == {n \in Nat : Good(n)}
  <1>1. L \in Nat /\ <<>> \in Seq(Entry)
    BY DEF Enclosed
  <1>2. 0 \in S
    <2>1. ASSUME NEW i \in L + 1 - 0 .. L + 1 PROVE t[i] \in Seq(Entry)
      <3>1. i = Len(seqs) + 1
        BY <1>1
      <3> HIDE DEF t
      <3> QED
        BY <1>1, <3>1, TransmitStep DEF t
    <2> QED
      BY <2>1
  <1>3. ASSUME NEW n \in S PROVE n + 1 \in S
    <2> SUFFICES ASSUME NEW i \in L + 1 - (n + 1) .. L + 1, i \in 1 .. L + 1
                 PROVE  t[i] \in Seq(Entry)
      OBVIOUS
    <2>1. CASE i \in L + 1 - n .. L + 1
      BY <2>1
    <2>2. CASE i \notin L + 1 - n .. L + 1
      <3>1. n \in Nat /\ i \in 1 .. Len(seqs) /\ i = L - n
        BY <1>1, <2>2
      <3> DEFINE next == i + seqs[i].repeatSize
                 rs == Repeat(SetPackets(seqs, i), seqs[i].repeatCount)
      <3>2. next \in i + 1 .. L + 1 /\ rs \in Seq(Entry)
        BY <3>1, SequenceAt
      <3>3. t[i] = rs \o t[next]
        BY <3>1, TransmitStep
      <3>4. t[next] \in Seq(Entry)
        <4>1. next \in L + 1 - n .. L + 1 /\ next \in 1 .. L + 1
          BY <3>1, <3>2, <1>1
        <4> HIDE DEF next, t
        <4> QED
          BY <4>1
      <3> HIDE DEF next, rs, t
      <3> QED
        BY <3>2, <3>3, <3>4, Lists!ConcatProperties
    <2> QED
      BY <2>1, <2>2
  <1>4. S = Nat
    <2>1. S \in SUBSET Nat
      OBVIOUS
    <2> HIDE DEF S
    <2> QED
      BY <1>2, <1>3, <2>1, Induction
  <1>5. Good(L)
    <2> HIDE DEF Good
    <2> QED
      BY <1>1, <1>4
  <1>6. \A i \in 1 .. L + 1 : t[i] \in Seq(Entry)
    BY <1>1, <1>5
  <1> QED
    BY <1>1, <1>6 DEF TransmitOrder

\* The guids of a transmission and of one packet more.
LEMMA GuidsType ==
    ASSUME NEW s \in Seq(Entry)
    PROVE  Guids(s) \in Seq(Nat) /\ Len(Guids(s)) = Len(s) /\ Len(s) \in Nat
  <1>1. ASSUME NEW m \in 1 .. Len(s) PROVE s[m].guid \in Nat
    <2>1. s[m] \in Entry
      BY Lists!ElementOfSeq
    <2> QED
      BY <2>1 DEF Entry
  <1>2. Guids(s) \in [1 .. Len(s) -> Nat]
    BY <1>1 DEF Guids
  <1> QED
    BY <1>2

LEMMA GuidsAppend ==
    ASSUME NEW s \in Seq(Entry), NEW e \in Entry
    PROVE  Guids(Append(s, e)) = Append(Guids(s), e.guid)
  <1> DEFINE a == Append(s, e)
             g == Append(Guids(s), e.guid)
  <1>1. /\ a \in Seq(Entry) /\ Len(a) = Len(s) + 1 /\ Len(s) \in Nat
        /\ \A m \in 1 .. Len(s) : a[m] = s[m]
        /\ a[Len(s) + 1] = e
    BY Lists!AppendProperties
  <1>2. e.guid \in Nat
    BY DEF Entry
  <1>3. /\ g \in Seq(Nat) /\ Len(g) = Len(s) + 1
        /\ \A m \in 1 .. Len(s) : g[m] = Guids(s)[m]
        /\ g[Len(s) + 1] = e.guid
    BY <1>2, GuidsType, Lists!AppendProperties
  <1> HIDE DEF a, g
  <1>4. Guids(a) \in Seq(Nat) /\ Len(Guids(a)) = Len(a)
    BY <1>1, GuidsType
  <1>5. ASSUME NEW m \in 1 .. Len(a) PROVE Guids(a)[m] = g[m]
    <2>1. Guids(a)[m] = a[m].guid
      BY DEF Guids
    <2>2. CASE m \in 1 .. Len(s)
      <3>1. Guids(s)[m] = s[m].guid
        BY <2>2 DEF Guids
      <3> QED
        BY <2>1, <2>2, <3>1, <1>1, <1>3
    <2>3. CASE m = Len(s) + 1
      BY <2>1, <2>3, <1>1, <1>3
    <2> QED
      BY <2>2, <2>3, <1>1
  <1> QED
    BY <1>1, <1>3, <1>4, <1>5, Lists!SeqEqual DEF a, g

\* Concatenation of packets is associative.
LEMMA CatAssoc ==
    ASSUME NEW r \in Seq(Entry), NEW q \in Seq(Entry), NEW s \in Seq(Entry)
    PROVE  (r \o q) \o s = r \o (q \o s)
  BY Lists!ConcatAssociative

-----------------------------------------------------------------------------
(* A list grows.                                                            *)

\* The same sequences, somewhere in two lists, send the same.
LEMMA PacketsOfSame ==
    ASSUME NEW s, NEW t, NEW i \in Nat, NEW h \in Nat, NEW k \in Nat,
           \A m \in 1 .. k : s[i + m - 1] = t[h + m - 1]
    PROVE  PacketsOf(s, i, k) = PacketsOf(t, h, k)
  <1>1. [m \in 1 .. k |-> SequencePackets(s[i + m - 1])]
          = [m \in 1 .. k |-> SequencePackets(t[h + m - 1])]
    OBVIOUS
  <1> QED
    BY <1>1 DEF PacketsOf

\* A set is sent from the sequences it takes, and from no other.
LEMMA SetPacketsSame ==
    ASSUME NEW s, NEW t, NEW h \in Nat, s[h] = t[h], t[h].repeatSize \in Nat,
           \A q \in h .. h + t[h].repeatSize - 1 : s[q] = t[q]
    PROVE  SetPackets(s, h) = SetPackets(t, h)
  <1> DEFINE k == t[h].repeatSize
  <1>1. \A m \in 1 .. k : h + m - 1 \in h .. h + k - 1
    OBVIOUS
  <1>2. \A m \in 1 .. k : s[h + m - 1] = t[h + m - 1]
    BY <1>1
  <1>3. PacketsOf(s, h, k) = PacketsOf(t, h, k)
    BY <1>2, PacketsOfSame
  <1> QED
    BY <1>3 DEF SetPackets

\* A list that goes on behind a tiled one sends what that one does, and what it has more.
LEMMA OrderExtends ==
    ASSUME NEW X \in Seq(SequenceType), Tiled(X), NEW seqs, Enclosed(seqs),
           Len(X) <= Len(seqs), \A q \in 1 .. Len(X) : seqs[q] = X[q]
    PROVE  TransmitOrder(seqs) = TransmitOrder(X) \o TransmitFrom(seqs)[Len(X) + 1]
  <1> DEFINE L == Len(X)
             x == TransmitFrom(X)
             t == TransmitFrom(seqs)
  <1>1. PICK heads : TiledBy(X, heads)
    BY DEF Tiled
  <1>2. /\ L \in Nat /\ Len(seqs) \in Nat /\ seqs \in Seq(SequenceType) /\ Enclosed(X)
        /\ heads \subseteq 1 .. L + 1 /\ 1 \in heads /\ L + 1 \in heads
    BY <1>1, TiledEnclosed DEF TiledBy, Enclosed
  <1>3. \A h \in 1 .. L + 1 : x[h] \in Seq(Entry) /\ t[h] \in Seq(Entry)
    BY <1>2, TransmitType
  <1> DEFINE Good(n) == \A h \in heads : L + 1 - n <= h => t[h] = x[h] \o t[L + 1]
             S == {n \in Nat : Good(n)}
  <1>4. 0 \in S
    <2> SUFFICES ASSUME NEW h \in heads, L + 1 - 0 <= h PROVE t[h] = x[h] \o t[L + 1]
      OBVIOUS
    <2>1. h = L + 1
      BY <1>2
    <2>2. x[L + 1] = <<>>
      BY <1>2, TransmitStep
    <2> HIDE DEF t, x, L
    <2> QED
      BY <1>2, <1>3, <2>1, <2>2, Lists!ConcatEmptySeq
  <1>5. ASSUME NEW n \in S PROVE n + 1 \in S
    <2> n \in Nat
      OBVIOUS
    <2> SUFFICES ASSUME NEW h \in heads, L + 1 - (n + 1) <= h PROVE t[h] = x[h] \o t[L + 1]
      <3>1. n + 1 \in Nat
        OBVIOUS
      <3> HIDE DEF t, x, L
      <3> QED
        BY <3>1
    <2>1. CASE L + 1 - n <= h
      BY <2>1
    <2>2. CASE ~ (L + 1 - n <= h)
      <3>1. h \in 1 .. Len(X) /\ h \in 1 .. Len(seqs) /\ h + X[h].repeatSize \in heads /\ h \in Int
        BY <1>1, <1>2, <2>2 DEF TiledBy
      <3> DEFINE next == h + X[h].repeatSize
                 r == Repeat(SetPackets(X, h), X[h].repeatCount)
      <3>2. next \in h + 1 .. L + 1 /\ r \in Seq(Entry) /\ X[h].repeatSize \in Nat
        BY <1>2, <3>1, SequenceAt
      <3>3. x[h] = r \o x[next]
        BY <1>2, <3>1, TransmitStep
      <3>4. t[h] = Repeat(SetPackets(seqs, h), seqs[h].repeatCount) \o t[h + seqs[h].repeatSize]
        BY <3>1, TransmitStep
      <3>5. seqs[h] = X[h]
        BY <3>1
      <3>6. SetPackets(seqs, h) = SetPackets(X, h)
        <4>1. h + X[h].repeatSize <= L + 1 /\ h \in Nat \ {0}
          BY <3>1, <3>2
        <4>2. \A q \in h .. h + X[h].repeatSize - 1 : seqs[q] = X[q]
          BY <1>2, <3>2, <4>1
        <4> HIDE DEF L, t, x, next, r
        <4> QED
          BY <3>2, <3>5, <4>1, <4>2, SetPacketsSame
      <3>7. t[h] = r \o t[next]
        BY <3>4, <3>5, <3>6
      <3>8. t[next] = x[next] \o t[L + 1]
        <4>1. L + 1 - n <= next /\ next \in heads
          BY <1>2, <2>2, <3>1, <3>2
        <4> HIDE DEF next, t, x, L
        <4> QED
          BY <4>1
      <3>9. x[next] \in Seq(Entry) /\ t[L + 1] \in Seq(Entry)
        BY <1>2, <1>3, <3>2
      <3> HIDE DEF next, t, x, L, r
      <3>10. t[h] = r \o (x[next] \o t[L + 1])
        BY <3>7, <3>8
      <3>11. r \o (x[next] \o t[L + 1]) = (r \o x[next]) \o t[L + 1]
        BY <3>2, <3>9, CatAssoc
      <3> QED
        BY <3>3, <3>10, <3>11
    <2> QED
      BY <2>1, <2>2
  <1>6. S = Nat
    <2>1. S \in SUBSET Nat
      OBVIOUS
    <2> HIDE DEF S
    <2> QED
      BY <1>4, <1>5, <2>1, Induction
  <1>7. t[1] = x[1] \o t[L + 1]
    <2>1. L \in S
      BY <1>2, <1>6
    <2>2. L + 1 - L <= 1
      BY <1>2
    <2> HIDE DEF t, x, L
    <2> QED
      BY <1>2, <2>1, <2>2
  <1> QED
    BY <1>7 DEF TransmitOrder

\* Behind a tiled list comes a set that is closed: its first sequence counts them all.
ClosedSet(Y) ==
    /\ Y \in Seq(SequenceType) /\ Y # <<>>
    /\ Y[1].repeatSize = Len(Y)
    /\ \A m \in 2 .. Len(Y) : Y[m].repeatSize = 1

\* Or sequences that are sets of their own.
Singles(Y) ==
    /\ Y \in Seq(SequenceType)
    /\ \A m \in 1 .. Len(Y) : Y[m].repeatSize = 1

\* Where an element of two lists in a row comes from.
LEMMA CatAt ==
    ASSUME NEW X \in Seq(SequenceType), NEW Y \in Seq(SequenceType)
    PROVE  /\ X \o Y \in Seq(SequenceType)
           /\ Len(X) \in Nat /\ Len(Y) \in Nat /\ Len(X \o Y) = Len(X) + Len(Y)
           /\ \A q \in 1 .. Len(X) : (X \o Y)[q] = X[q]
           /\ \A m \in 1 .. Len(Y) : (X \o Y)[Len(X) + m] = Y[m]
  <1> DEFINE Z == X \o Y
             a == Len(X)
             b == Len(Y)
  <1>1. /\ Z \in Seq(SequenceType) /\ a \in Nat /\ b \in Nat /\ Len(Z) = a + b
        /\ \A q \in 1 .. a + b : Z[q] = IF q <= a THEN X[q] ELSE Y[q - a]
    BY Lists!ConcatProperties
  <1> HIDE DEF Z, a, b
  <1>2. ASSUME NEW m \in 1 .. b PROVE Z[a + m] = Y[m]
    <2>1. a + m \in 1 .. a + b /\ ~ (a + m <= a) /\ (a + m) - a = m
      BY <1>1
    <2> QED
      BY <1>1, <2>1
  <1>3. \A q \in 1 .. a : Z[q] = X[q]
    BY <1>1
  <1> QED
    BY <1>1, <1>2, <1>3 DEF Z, a, b

\* Sets still tile a list that a closed set is put behind.
LEMMA TiledClosed ==
    ASSUME NEW X \in Seq(SequenceType), Tiled(X), NEW Y, ClosedSet(Y)
    PROVE  Tiled(X \o Y)
  <1> DEFINE Z == X \o Y
             a == Len(X)
             b == Len(Y)
  <1>1. PICK heads : TiledBy(X, heads)
    BY DEF Tiled
  <1>2. /\ a \in Nat /\ b \in Nat /\ Len(Z) = a + b
        /\ \A q \in 1 .. a : Z[q] = X[q]
        /\ \A m \in 1 .. b : Z[a + m] = Y[m]
    BY CatAt DEF ClosedSet
  <1>3. b # 0 /\ Y[1].repeatSize = b /\ \A m \in 2 .. b : Y[m].repeatSize = 1
    BY Lists!EmptySeq DEF ClosedSet
  <1>4. /\ \A q \in 1 .. a : q + X[q].repeatSize <= a + 1 /\ X[q].repeatSize \in Nat
        /\ heads \subseteq 1 .. a + 1 /\ 1 \in heads /\ a + 1 \in heads
        /\ \A h \in heads \ {a + 1} : h + X[h].repeatSize \in heads
    <2>1. \A q \in 1 .. a : X[q] \in SequenceType
      BY Lists!ElementOfSeq
    <2> QED
      BY <1>1, <2>1 DEF TiledBy, SequenceType
  <1> HIDE DEF Z, a, b
  <1> DEFINE H == heads \union {a + b + 1}
  <1>5. Z[a + 1].repeatSize = b
    BY <1>2, <1>3
  <1>6. ASSUME NEW q \in 1 .. a + b PROVE q + Z[q].repeatSize <= a + b + 1
    <2>1. CASE q <= a
      BY <2>1, <1>2, <1>4
    <2>2. CASE q = a + 1
      BY <2>2, <1>2, <1>5
    <2>3. CASE q > a + 1
      <3>1. q - a \in 2 .. b /\ a + (q - a) = q
        BY <2>3, <1>2
      <3>2. Z[a + (q - a)] = Y[q - a] /\ Y[q - a].repeatSize = 1
        BY <3>1, <1>2, <1>3
      <3> QED
        BY <3>1, <3>2, <1>2
    <2> QED
      BY <2>1, <2>2, <2>3, <1>2
  <1>7. ASSUME NEW h \in H \ {a + b + 1} PROVE h + Z[h].repeatSize \in H
    <2>1. CASE h = a + 1
      <3>1. h + Z[h].repeatSize = a + b + 1
        BY <2>1, <1>2, <1>5
      <3> QED
        BY <3>1
    <2>2. CASE h # a + 1
      <3>1. h \in heads \ {a + 1} /\ h \in 1 .. a
        BY <2>2, <1>2, <1>4
      <3> QED
        BY <3>1, <1>2, <1>4
    <2> QED
      BY <2>1, <2>2
  <1>8. H \subseteq 1 .. a + b + 1 /\ 1 \in H
    BY <1>2, <1>4
  <1>9. TiledBy(Z, H)
    BY <1>2, <1>6, <1>7, <1>8 DEF TiledBy
  <1>10. H \in SUBSET (1 .. Len(Z) + 1)
    BY <1>2, <1>8
  <1> HIDE DEF H
  <1> QED
    BY <1>9, <1>10 DEF Tiled, Z

\* They do when what is put behind are sequences that are sets of their own.
LEMMA TiledSingles ==
    ASSUME NEW X \in Seq(SequenceType), Tiled(X), NEW Y, Singles(Y)
    PROVE  Tiled(X \o Y)
  <1> DEFINE Z == X \o Y
             a == Len(X)
             b == Len(Y)
  <1>1. PICK heads : TiledBy(X, heads)
    BY DEF Tiled
  <1>2. /\ a \in Nat /\ b \in Nat /\ Len(Z) = a + b
        /\ \A q \in 1 .. a : Z[q] = X[q]
        /\ \A m \in 1 .. b : Z[a + m] = Y[m]
    BY CatAt DEF Singles
  <1>3. \A m \in 1 .. b : Y[m].repeatSize = 1
    BY DEF Singles
  <1>4. /\ \A q \in 1 .. a : q + X[q].repeatSize <= a + 1 /\ X[q].repeatSize \in Nat
        /\ heads \subseteq 1 .. a + 1 /\ 1 \in heads /\ a + 1 \in heads
        /\ \A h \in heads \ {a + 1} : h + X[h].repeatSize \in heads
    <2>1. \A q \in 1 .. a : X[q] \in SequenceType
      BY Lists!ElementOfSeq
    <2> QED
      BY <1>1, <2>1 DEF TiledBy, SequenceType
  <1> HIDE DEF Z, a, b
  <1> DEFINE H == heads \union (a + 1 .. a + b + 1)
  <1>5. ASSUME NEW q \in a + 1 .. a + b PROVE Z[q].repeatSize = 1
    <2>1. q - a \in 1 .. b /\ a + (q - a) = q
      BY <1>2
    <2>2. Z[a + (q - a)] = Y[q - a] /\ Y[q - a].repeatSize = 1
      BY <2>1, <1>2, <1>3
    <2> QED
      BY <2>1, <2>2
  <1>6. ASSUME NEW q \in 1 .. a + b PROVE q + Z[q].repeatSize <= a + b + 1
    <2>1. CASE q <= a
      BY <2>1, <1>2, <1>4
    <2>2. CASE q > a
      BY <2>2, <1>2, <1>5
    <2> QED
      BY <2>1, <2>2, <1>2
  <1>7. ASSUME NEW h \in H \ {a + b + 1} PROVE h + Z[h].repeatSize \in H
    <2>1. CASE h \in a + 1 .. a + b + 1
      <3>1. h \in a + 1 .. a + b /\ h + Z[h].repeatSize = h + 1
        BY <2>1, <1>2, <1>5
      <3> QED
        BY <3>1, <1>2
    <2>2. CASE h \notin a + 1 .. a + b + 1
      <3>1. h \in heads \ {a + 1} /\ h \in 1 .. a
        BY <2>2, <1>2, <1>4
      <3> QED
        BY <3>1, <1>2, <1>4
    <2> QED
      BY <2>1, <2>2
  <1>8. H \subseteq 1 .. a + b + 1 /\ 1 \in H
    BY <1>2, <1>4
  <1>9. TiledBy(Z, H)
    BY <1>2, <1>6, <1>7, <1>8 DEF TiledBy
  <1>10. H \in SUBSET (1 .. Len(Z) + 1)
    BY <1>2, <1>8
  <1> HIDE DEF H
  <1> QED
    BY <1>9, <1>10 DEF Tiled, Z

\* The closed set is sent behind what the list sent, as often as it repeats.
LEMMA OrderClosed ==
    ASSUME NEW X \in Seq(SequenceType), Tiled(X), NEW Y, ClosedSet(Y)
    PROVE  TransmitOrder(X \o Y)
             = TransmitOrder(X) \o Repeat(PacketsOf(Y, 1, Len(Y)), Y[1].repeatCount)
  <1> DEFINE Z == X \o Y
             a == Len(X)
             b == Len(Y)
             t == TransmitFrom(Z)
  <1>1. /\ Z \in Seq(SequenceType) /\ a \in Nat /\ b \in Nat /\ Len(Z) = a + b
        /\ \A q \in 1 .. a : Z[q] = X[q]
        /\ \A m \in 1 .. b : Z[a + m] = Y[m]
    BY CatAt DEF ClosedSet
  <1>2. b # 0 /\ Y[1].repeatSize = b
    BY Lists!EmptySeq DEF ClosedSet
  <1>3. Enclosed(Z)
    BY <1>1, TiledClosed, TiledEnclosed
  <1>4. TransmitOrder(Z) = TransmitOrder(X) \o t[a + 1]
    <2>1. a <= Len(Z)
      BY <1>1
    <2> HIDE DEF Z
    <2> QED
      BY <1>1, <1>3, <2>1, OrderExtends
  <1>5. Z[a + 1] = Y[1] /\ a + 1 \in 1 .. Len(Z)
    <2>1. 1 \in 1 .. b
      BY <1>1, <1>2
    <2> HIDE DEF Z, b, a
    <2> QED
      BY <1>1, <2>1
  <1> DEFINE r == Repeat(SetPackets(Z, a + 1), Z[a + 1].repeatCount)
  <1>6. t[a + 1] = r \o t[a + 1 + Z[a + 1].repeatSize] /\ t[Len(Z) + 1] = <<>> /\ r \in Seq(Entry)
    <2> HIDE DEF Z, a
    <2> QED
      BY <1>3, <1>5, TransmitStep, SequenceAt
  <1>7. a + 1 + Z[a + 1].repeatSize = Len(Z) + 1
    <2>1. a + 1 + b = a + b + 1
      BY <1>1
    <2> QED
      BY <1>1, <1>2, <1>5, <2>1
  <1>8. t[a + 1] = r
    <2> HIDE DEF t, r, Z
    <2> QED
      BY <1>6, <1>7, Lists!ConcatEmptySeq
  <1>9. SetPackets(Z, a + 1) = PacketsOf(Y, 1, b)
    <2> HIDE DEF Z, a, b
    <2> DEFINE c == a + 1
               d == 1
    <2>1. ASSUME NEW m \in 1 .. b PROVE Z[c + m - 1] = Y[d + m - 1]
      <3>1. c + m - 1 = a + m /\ d + m - 1 = m
        BY <1>1
      <3> QED
        BY <1>1, <3>1
    <2>2. PacketsOf(Z, c, b) = PacketsOf(Y, d, b)
      <3> HIDE DEF c, d
      <3>1. [m \in 1 .. b |-> SequencePackets(Z[c + m - 1])]
              = [m \in 1 .. b |-> SequencePackets(Y[d + m - 1])]
        BY <2>1
      <3> QED
        BY <3>1 DEF PacketsOf
    <2> QED
      BY <1>2, <1>5, <2>2 DEF SetPackets
  <1> QED
    BY <1>4, <1>5, <1>8, <1>9

\* One sequence more, a set of its own.
LEMMA OrderAppend ==
    ASSUME NEW X \in Seq(SequenceType), Tiled(X), NEW y \in SequenceType, y.repeatSize = 1
    PROVE  /\ Tiled(Append(X, y))
           /\ TransmitOrder(Append(X, y))
                = TransmitOrder(X) \o Repeat(SequencePackets(y), y.repeatCount)
  <1> DEFINE Y == <<y>>
  <1>1. Y \in Seq(SequenceType) /\ Y # <<>> /\ Len(Y) = 1 /\ Y[1] = y
    OBVIOUS
  <1>2. Append(X, y) = X \o Y
    BY Lists!AppendIsConcat
  <1>3. ClosedSet(Y)
    BY <1>1 DEF ClosedSet
  <1>4. PacketsOf(Y, 1, 1) = SequencePackets(y)
    <2> HIDE DEF Y
    <2>1. PacketsOf(Y, 1, 0 + 1) = PacketsOf(Y, 1, 0) \o SequencePackets(Y[1 + 0])
      BY <1>1, PacketsOfNext
    <2>2. PacketsOf(Y, 1, 0) = <<>>
      BY PacketsOfNone
    <2>3. SequencePackets(y) \in Seq(Entry)
      BY SequencePacketsType
    <2> QED
      BY <1>1, <2>1, <2>2, <2>3, Lists!ConcatEmptySeq
  <1> HIDE DEF Y
  <1>5. Tiled(X \o Y)
    BY <1>3, TiledClosed
  <1>6. TransmitOrder(X \o Y) = TransmitOrder(X) \o Repeat(PacketsOf(Y, 1, Len(Y)), Y[1].repeatCount)
    BY <1>3, OrderClosed
  <1> QED
    BY <1>1, <1>2, <1>4, <1>5, <1>6

-----------------------------------------------------------------------------
(* The streams of what is sent.                                             *)

\* n packets of stream g.
Copies(g, n) == [m \in 1 .. n |-> g]

\* They are packets.
LEMMA CopiesType ==
    ASSUME NEW g \in Nat, NEW n \in Nat
    PROVE  Copies(g, n) \in Seq(Nat) /\ Len(Copies(g, n)) = n
  BY DEF Copies

\* Some and some more.
LEMMA CopiesCat ==
    ASSUME NEW g \in Nat, NEW m \in Nat, NEW n \in Nat
    PROVE  Copies(g, m) \o Copies(g, n) = Copies(g, m + n)
  <1> DEFINE a == Copies(g, m)
             b == Copies(g, n)
             c == Copies(g, m + n)
  <1>1. /\ a \in Seq(Nat) /\ Len(a) = m /\ b \in Seq(Nat) /\ Len(b) = n
        /\ c \in Seq(Nat) /\ Len(c) = m + n
    BY CopiesType
  <1>2. /\ \A p \in 1 .. m : a[p] = g
        /\ \A p \in 1 .. n : b[p] = g
        /\ \A p \in 1 .. m + n : c[p] = g
    BY DEF Copies
  <1> HIDE DEF a, b, c
  <1>3. /\ a \o b \in Seq(Nat) /\ Len(a \o b) = m + n
        /\ \A p \in 1 .. m + n : (a \o b)[p] = IF p <= m THEN a[p] ELSE b[p - m]
    BY <1>1, Lists!ConcatProperties
  <1>4. ASSUME NEW p \in 1 .. m + n PROVE (a \o b)[p] = c[p]
    <2>1. CASE p <= m
      BY <2>1, <1>2, <1>3
    <2>2. CASE ~ (p <= m)
      <3>1. p - m \in 1 .. n
        BY <2>2
      <3> QED
        BY <2>2, <3>1, <1>2, <1>3
    <2> QED
      BY <2>1, <2>2
  <1>5. a \o b = c
    BY <1>1, <1>3, <1>4, Lists!SeqEqual
  <1> QED
    BY <1>5 DEF a, b, c

\* One more.
LEMMA CopiesAppend ==
    ASSUME NEW g \in Nat, NEW n \in Nat
    PROVE  Append(Copies(g, n), g) = Copies(g, n + 1)
  <1>1. Copies(g, n) \in Seq(Nat) /\ Copies(g, 1) = <<g>>
    BY CopiesType DEF Copies
  <1>2. Append(Copies(g, n), g) = Copies(g, n) \o <<g>>
    BY <1>1, Lists!AppendIsConcat
  <1>3. Copies(g, n) \o Copies(g, 1) = Copies(g, n + 1)
    <2>1. 1 \in Nat
      OBVIOUS
    <2> QED
      BY <2>1, CopiesCat, Zenon
  <1> QED
    BY <1>1, <1>2, <1>3

\* The streams of two orders in a row.
LEMMA GuidsCat ==
    ASSUME NEW s \in Seq(Entry), NEW t \in Seq(Entry)
    PROVE  Guids(s \o t) = Guids(s) \o Guids(t)
  <1> DEFINE a == Guids(s)
             b == Guids(t)
             c == s \o t
  <1>1. /\ a \in Seq(Nat) /\ Len(a) = Len(s) /\ b \in Seq(Nat) /\ Len(b) = Len(t)
        /\ Len(s) \in Nat /\ Len(t) \in Nat
    BY GuidsType
  <1>2. /\ c \in Seq(Entry) /\ Len(c) = Len(s) + Len(t)
        /\ \A p \in 1 .. Len(s) + Len(t) : c[p] = IF p <= Len(s) THEN s[p] ELSE t[p - Len(s)]
    BY Lists!ConcatProperties
  <1>3. Guids(c) \in Seq(Nat) /\ Len(Guids(c)) = Len(c)
    BY <1>2, GuidsType
  <1>4. /\ \A p \in 1 .. Len(s) : a[p] = s[p].guid
        /\ \A p \in 1 .. Len(t) : b[p] = t[p].guid
        /\ \A p \in 1 .. Len(c) : Guids(c)[p] = c[p].guid
    BY DEF Guids
  <1> HIDE DEF a, b, c
  <1>5. /\ a \o b \in Seq(Nat) /\ Len(a \o b) = Len(s) + Len(t)
        /\ \A p \in 1 .. Len(s) + Len(t) : (a \o b)[p] = IF p <= Len(s) THEN a[p] ELSE b[p - Len(s)]
    <2>1. /\ a \o b \in Seq(Nat) /\ Len(a \o b) = Len(a) + Len(b)
          /\ \A p \in 1 .. Len(a) + Len(b) :
                (a \o b)[p] = IF p <= Len(a) THEN a[p] ELSE b[p - Len(a)]
      BY <1>1, Lists!ConcatProperties
    <2> QED
      BY <2>1, <1>1
  <1>6. ASSUME NEW p \in 1 .. Len(s) + Len(t) PROVE Guids(c)[p] = (a \o b)[p]
    <2>1. CASE p <= Len(s)
      BY <2>1, <1>1, <1>2, <1>4, <1>5
    <2>2. CASE ~ (p <= Len(s))
      <3>1. p - Len(s) \in 1 .. Len(t)
        BY <2>2, <1>1
      <3> QED
        BY <2>2, <3>1, <1>2, <1>4, <1>5
    <2> QED
      BY <2>1, <2>2
  <1>7. Guids(c) = a \o b
    BY <1>2, <1>3, <1>5, <1>6, Lists!SeqEqual
  <1> QED
    BY <1>7 DEF a, b, c

\* A repetition of packets of one stream.
LEMMA GuidsRepeat ==
    ASSUME NEW s \in Seq(Entry), NEW g \in Nat, Guids(s) = Copies(g, Len(s)), NEW n \in Nat
    PROVE  Guids(Repeat(s, n)) = Copies(g, n * Len(s))
  <1> DEFINE r == Repeat(s, n)
             l == Len(s)
  <1>1. r \in Seq(Entry) /\ Len(r) = n * l /\ l \in Nat /\ n * l \in Nat
    <2>1. l \in Nat /\ n * l \in Nat
      OBVIOUS
    <2> QED
      BY <2>1, RepeatType
  <1>2. \A p \in 1 .. l : s[p].guid = g
    <2>1. \A p \in 1 .. l : Guids(s)[p] = s[p].guid /\ Copies(g, l)[p] = g
      BY DEF Guids, Copies
    <2> QED
      BY <2>1
  <1>3. \A p \in 1 .. n * l : r[p] = s[((p - 1) % l) + 1]
    BY DEF Repeat
  <1> HIDE DEF r, l
  <1>4. ASSUME NEW p \in 1 .. n * l PROVE r[p].guid = g
    <2>1. l # 0
      BY <1>1
    <2>2. p - 1 \in Int /\ (p - 1) % l \in 0 .. l - 1
      BY <2>1, <1>1
    <2>3. ((p - 1) % l) + 1 \in 1 .. l
      BY <2>2, <1>1
    <2> QED
      BY <2>3, <1>2, <1>3
  <1>5. Guids(r) = [p \in 1 .. n * l |-> g]
    BY <1>1, <1>4 DEF Guids
  <1> QED
    BY <1>5 DEF Copies, r, l

\* What is sent once.
LEMMA RepeatSingle ==
    ASSUME NEW s \in Seq(Entry)
    PROVE  Repeat(s, 1) = s
  <1>1. Repeat(s, 0 + 1) = Repeat(s, 0) \o s
    BY RepeatOnce
  <1>2. Repeat(s, 0) = <<>>
    BY RepeatNone
  <1> QED
    BY <1>1, <1>2, Lists!ConcatEmptySeq

\* The streams of the packets in a sequence, and one packet more.
LEMMA SequenceGuids ==
    ASSUME NEW y \in SequenceType, NEW z \in SequenceType, z.pkts = y.pkts
    PROVE  Guids(SequencePackets(z)) = Guids(SequencePackets(y))
  <1>1. /\ SequencePackets(y) \in Seq(Entry) /\ SequencePackets(z) \in Seq(Entry)
        /\ Len(SequencePackets(y)) = Len(y.pkts) /\ Len(SequencePackets(z)) = Len(z.pkts)
        /\ \A p \in 1 .. Len(y.pkts) : SequencePackets(y)[p].guid = y.pkts[p].guid
        /\ \A p \in 1 .. Len(z.pkts) : SequencePackets(z)[p].guid = z.pkts[p].guid
    BY SequencePacketsType
  <1>2. Guids(SequencePackets(y)) = [p \in 1 .. Len(y.pkts) |-> y.pkts[p].guid]
    BY <1>1 DEF Guids
  <1>3. Guids(SequencePackets(z)) = [p \in 1 .. Len(z.pkts) |-> z.pkts[p].guid]
    BY <1>1 DEF Guids
  <1> QED
    BY <1>2, <1>3

\* A sequence with one packet more.
WithPacket(y, pkt) == [y EXCEPT !.pkts = Append(@, pkt)]

\* It is a sequence.
LEMMA WithPacketType ==
    ASSUME NEW y \in SequenceType, NEW pkt \in PacketType
    PROVE  /\ WithPacket(y, pkt) \in SequenceType
           /\ WithPacket(y, pkt).pkts = Append(y.pkts, pkt)
           /\ WithPacket(y, pkt).repeatSize = y.repeatSize
           /\ WithPacket(y, pkt).repeatCount = y.repeatCount
           /\ WithPacket(y, pkt).usecDelay = y.usecDelay
  <1>1. y.pkts \in Seq(PacketType)
    BY DEF SequenceType
  <1>2. Append(y.pkts, pkt) \in Seq(PacketType)
    BY <1>1, Lists!AppendProperties
  <1> QED
    BY <1>2 DEF WithPacket, SequenceType

\* It sends the stream of that packet last.
LEMMA SequenceGuidsAppend ==
    ASSUME NEW y \in SequenceType, NEW pkt \in PacketType
    PROVE  /\ Guids(SequencePackets(WithPacket(y, pkt)))
                = Append(Guids(SequencePackets(y)), pkt.guid)
           /\ Len(SequencePackets(WithPacket(y, pkt))) = Len(SequencePackets(y)) + 1
  <1> DEFINE z == WithPacket(y, pkt)
             s == SequencePackets(y)
             t == SequencePackets(z)
  <1>1. z \in SequenceType /\ z.pkts = Append(y.pkts, pkt)
    BY WithPacketType
  <1>2. y.pkts \in Seq(PacketType) /\ Len(y.pkts) \in Nat /\ pkt.guid \in Nat
    BY DEF SequenceType, PacketType
  <1>3. /\ Len(z.pkts) = Len(y.pkts) + 1
        /\ \A p \in 1 .. Len(y.pkts) : z.pkts[p] = y.pkts[p]
        /\ z.pkts[Len(y.pkts) + 1] = pkt
    BY <1>1, <1>2, Lists!AppendProperties
  <1>4. /\ s \in Seq(Entry) /\ Len(s) = Len(y.pkts)
        /\ \A p \in 1 .. Len(y.pkts) : s[p].guid = y.pkts[p].guid
    BY SequencePacketsType
  <1>5. /\ t \in Seq(Entry) /\ Len(t) = Len(z.pkts)
        /\ \A p \in 1 .. Len(z.pkts) : t[p].guid = z.pkts[p].guid
    <2> HIDE DEF z
    <2> QED
      BY <1>1, SequencePacketsType
  <1>6. /\ Guids(s) \in Seq(Nat) /\ Len(Guids(s)) = Len(s)
        /\ Guids(t) \in Seq(Nat) /\ Len(Guids(t)) = Len(t)
        /\ \A p \in 1 .. Len(s) : Guids(s)[p] = s[p].guid
        /\ \A p \in 1 .. Len(t) : Guids(t)[p] = t[p].guid
    BY <1>4, <1>5, GuidsType DEF Guids
  <1> DEFINE n == Append(Guids(s), pkt.guid)
             gt == Guids(t)
             gs == Guids(s)
  <1>7. /\ n \in Seq(Nat) /\ Len(n) = Len(gs) + 1
        /\ \A p \in 1 .. Len(gs) : n[p] = gs[p]
        /\ n[Len(gs) + 1] = pkt.guid
    BY <1>2, <1>6, Lists!AppendProperties
  <1> DEFINE k == Len(y.pkts)
  <1>8. /\ gt \in Seq(Nat) /\ Len(gt) = k + 1 /\ Len(n) = k + 1 /\ Len(gs) = k /\ k \in Nat
        /\ \A p \in 1 .. k : n[p] = y.pkts[p].guid /\ gt[p] = y.pkts[p].guid
        /\ n[k + 1] = pkt.guid /\ gt[k + 1] = pkt.guid
    <2> HIDE DEF z, s, t, n
    <2>1. /\ Len(s) = k /\ Len(t) = k + 1 /\ k \in Nat /\ gt \in Seq(Nat) /\ Len(gt) = k + 1
          /\ Len(gs) = k /\ Len(n) = k + 1
      BY <1>2, <1>3, <1>4, <1>5, <1>6, <1>7
    <2>2. \A p \in 1 .. k : gs[p] = y.pkts[p].guid /\ n[p] = gs[p]
      BY <1>4, <1>6, <1>7, <2>1
    <2>3. ASSUME NEW p \in 1 .. k PROVE gt[p] = y.pkts[p].guid
      <3>1. p \in 1 .. k + 1
        BY <2>1
      <3>2. gt[p] = t[p].guid /\ t[p].guid = z.pkts[p].guid /\ z.pkts[p] = y.pkts[p]
        BY <3>1, <2>1, <1>3, <1>5, <1>6
      <3> QED
        BY <3>2
    <2>4. gt[k + 1] = pkt.guid /\ n[k + 1] = pkt.guid
      <3>1. k + 1 \in 1 .. k + 1
        BY <2>1
      <3>2. gt[k + 1] = t[k + 1].guid /\ t[k + 1].guid = z.pkts[k + 1].guid
        BY <3>1, <2>1, <1>3, <1>5, <1>6
      <3> QED
        BY <3>2, <2>1, <1>3, <1>7
    <2> QED
      BY <2>1, <2>2, <2>3, <2>4
  <1> HIDE DEF z, s, t, n, gs, gt, k
  <1>9. \A p \in 1 .. k + 1 : gt[p] = n[p]
    BY <1>8
  <1>10. gt = n
    BY <1>7, <1>8, <1>9, Lists!SeqEqual
  <1>11. Len(t) = Len(s) + 1
    BY <1>3, <1>4, <1>5
  <1> QED
    BY <1>10, <1>11 DEF n, gt, s, t, z

\* The streams of the packets in a set of sequences, one repetition.
OpenGuids(Y) == Guids(PacketsOf(Y, 1, Len(Y)))

\* They are streams.
LEMMA OpenType ==
    ASSUME NEW Y \in Seq(SequenceType)
    PROVE  /\ PacketsOf(Y, 1, Len(Y)) \in Seq(Entry)
           /\ OpenGuids(Y) \in Seq(Nat) /\ Len(OpenGuids(Y)) = Len(PacketsOf(Y, 1, Len(Y)))
  <1>1. Len(Y) \in Nat /\ 1 \in Nat \ {0} /\ 1 + Len(Y) <= Len(Y) + 1
    OBVIOUS
  <1>2. PacketsOf(Y, 1, Len(Y)) \in Seq(Entry)
    BY <1>1, PacketsOfType
  <1> QED
    BY <1>2, GuidsType DEF OpenGuids

\* One sequence more in the set.
LEMMA OpenAppend ==
    ASSUME NEW V \in Seq(SequenceType), NEW y \in SequenceType
    PROVE  /\ PacketsOf(Append(V, y), 1, Len(Append(V, y)))
                = PacketsOf(V, 1, Len(V)) \o SequencePackets(y)
           /\ OpenGuids(Append(V, y)) = OpenGuids(V) \o Guids(SequencePackets(y))
  <1> DEFINE Y == Append(V, y)
             n == Len(V)
  <1>1. /\ Y \in Seq(SequenceType) /\ Len(Y) = n + 1 /\ n \in Nat
        /\ \A m \in 1 .. n : Y[m] = V[m]
        /\ Y[n + 1] = y
    BY Lists!AppendProperties
  <1> HIDE DEF Y
  <1>2. PacketsOf(Y, 1, n + 1) = PacketsOf(Y, 1, n) \o SequencePackets(Y[1 + n])
    <2>1. 1 \in Nat \ {0} /\ 1 + n <= Len(Y)
      BY <1>1
    <2> HIDE DEF n
    <2> QED
      BY <1>1, <2>1, PacketsOfNext
  <1>3. PacketsOf(Y, 1, n) = PacketsOf(V, 1, n)
    <2>1. \A m \in 1 .. n : Y[1 + m - 1] = V[1 + m - 1]
      <3> TAKE m \in 1 .. n
      <3>1. 1 + m - 1 = m
        BY <1>1
      <3> QED
        BY <1>1, <3>1
    <2>2. [m \in 1 .. n |-> SequencePackets(Y[1 + m - 1])]
            = [m \in 1 .. n |-> SequencePackets(V[1 + m - 1])]
      BY <2>1
    <2> QED
      BY <2>2 DEF PacketsOf
  <1>4. 1 + n = n + 1
    BY <1>1
  <1>5. PacketsOf(Y, 1, Len(Y)) = PacketsOf(V, 1, n) \o SequencePackets(y)
    BY <1>1, <1>2, <1>3, <1>4
  <1>6. PacketsOf(V, 1, n) \in Seq(Entry) /\ SequencePackets(y) \in Seq(Entry)
    BY OpenType, SequencePacketsType
  <1>7. OpenGuids(Y) = OpenGuids(V) \o Guids(SequencePackets(y))
    BY <1>5, <1>6, GuidsCat DEF OpenGuids
  <1> QED
    BY <1>5, <1>7 DEF Y

\* Nothing else about the sequences matters but their packets.
LEMMA OpenSame ==
    ASSUME NEW Y \in Seq(SequenceType), NEW Z \in Seq(SequenceType), Len(Y) = Len(Z),
           \A m \in 1 .. Len(Y) : Y[m].pkts = Z[m].pkts
    PROVE  OpenGuids(Y) = OpenGuids(Z)
  <1> DEFINE n == Len(Y)
             Good(k) == k <= n => Guids(PacketsOf(Y, 1, k)) = Guids(PacketsOf(Z, 1, k))
             S == {k \in Nat : Good(k)}
  <1>1. n \in Nat /\ Len(Z) = n
    OBVIOUS
  <1>2. 0 \in S
    BY PacketsOfNone
  <1>3. ASSUME NEW k \in S PROVE k + 1 \in S
    <2>1. k \in Nat /\ k + 1 \in Nat
      OBVIOUS
    <2> SUFFICES ASSUME k + 1 <= n PROVE Guids(PacketsOf(Y, 1, k + 1)) = Guids(PacketsOf(Z, 1, k + 1))
      BY <2>1
    <2>2. 1 \in Nat \ {0} /\ 1 + k <= Len(Y) /\ 1 + k <= Len(Z) /\ 1 + k \in 1 .. n /\ k <= n
          /\ 1 + k <= Len(Y) + 1 /\ 1 + k <= Len(Z) + 1
      BY <1>1, <2>1
    <2> DEFINE s == SequencePackets(Y[1 + k])
               t == SequencePackets(Z[1 + k])
               p == PacketsOf(Y, 1, k)
               q == PacketsOf(Z, 1, k)
    <2>3. PacketsOf(Y, 1, k + 1) = p \o s /\ PacketsOf(Z, 1, k + 1) = q \o t
      BY <2>1, <2>2, PacketsOfNext
    <2>4. Y[1 + k] \in SequenceType /\ Z[1 + k] \in SequenceType /\ Z[1 + k].pkts = Y[1 + k].pkts
      BY <1>1, <2>2, Lists!ElementOfSeq
    <2>5. Guids(t) = Guids(s) /\ s \in Seq(Entry) /\ t \in Seq(Entry)
      BY <2>4, SequenceGuids, SequencePacketsType
    <2>6. p \in Seq(Entry) /\ q \in Seq(Entry)
      BY <2>1, <2>2, PacketsOfType
    <2>7. Guids(p) = Guids(q)
      BY <2>1, <2>2
    <2> HIDE DEF s, t, p, q
    <2>8. Guids(p \o s) = Guids(p) \o Guids(s) /\ Guids(q \o t) = Guids(q) \o Guids(t)
      BY <2>5, <2>6, GuidsCat
    <2> QED
      BY <2>3, <2>5, <2>7, <2>8
  <1>4. S = Nat
    <2>1. S \in SUBSET Nat
      OBVIOUS
    <2> HIDE DEF S
    <2> QED
      BY <1>2, <1>3, <2>1, Induction
  <1>5. Good(n)
    <2> HIDE DEF Good
    <2> QED
      BY <1>1, <1>4
  <1> QED
    BY <1>1, <1>5 DEF OpenGuids

\* The streams of what a list sends.
SentGuids(X) == Guids(TransmitOrder(X))

\* One sequence more in the list, a set of its own.
LEMMA SentAppend ==
    ASSUME NEW X \in Seq(SequenceType), Tiled(X), NEW y \in SequenceType, y.repeatSize = 1
    PROVE  /\ Tiled(Append(X, y)) /\ Append(X, y) \in Seq(SequenceType)
           /\ SentGuids(Append(X, y))
                = SentGuids(X) \o Guids(Repeat(SequencePackets(y), y.repeatCount))
           /\ TransmitOrder(X) \in Seq(Entry) /\ SentGuids(X) \in Seq(Nat)
           /\ Repeat(SequencePackets(y), y.repeatCount) \in Seq(Entry)
           /\ Len(Repeat(SequencePackets(y), y.repeatCount)) = y.repeatCount * Len(y.pkts)
           /\ Len(TransmitOrder(Append(X, y)))
                = Len(TransmitOrder(X)) + y.repeatCount * Len(y.pkts)
  <1> DEFINE r == Repeat(SequencePackets(y), y.repeatCount)
             o == TransmitOrder(X)
  <1>1. Tiled(Append(X, y)) /\ TransmitOrder(Append(X, y)) = o \o r
    BY OrderAppend
  <1>2. Append(X, y) \in Seq(SequenceType)
    BY Lists!AppendProperties
  <1>3. y.repeatCount \in Nat
    BY DEF SequenceType
  <1>4. SequencePackets(y) \in Seq(Entry) /\ Len(SequencePackets(y)) = Len(y.pkts)
    BY SequencePacketsType
  <1>5. r \in Seq(Entry) /\ Len(r) = y.repeatCount * Len(y.pkts)
    BY <1>3, <1>4, RepeatType
  <1>6. o \in Seq(Entry)
    BY TiledEnclosed, TransmitType
  <1> HIDE DEF o, r
  <1>7. Guids(o \o r) = Guids(o) \o Guids(r) /\ Guids(o) \in Seq(Nat)
    BY <1>5, <1>6, GuidsCat, GuidsType
  <1>8. Len(o \o r) = Len(o) + Len(r)
    BY <1>5, <1>6, Lists!ConcatProperties
  <1> QED
    BY <1>1, <1>2, <1>5, <1>6, <1>7, <1>8 DEF o, r, SentGuids

-----------------------------------------------------------------------------
(* What the builder keeps.                                                  *)

\* A builder whose list is X, which is finished, and Y, to which packets are still
\* added: the sequences of an announced set, the one current sequence, or nothing.
Built(b, X, Y) ==
    /\ b \in BuilderType
    /\ X \in Seq(SequenceType) /\ Tiled(X) /\ Singles(Y)
    /\ b.seqs = X \o Y
    /\ b.cur = IF Y = <<>> THEN 0 ELSE Len(b.seqs)
    /\ b.repeatSize = 0 => Len(Y) <= 1 /\ \A m \in 1 .. Len(Y) : Y[m].repeatCount = 1
    /\ b.repeatSize # 0 => Y # <<>> /\ b.repeatStart = Len(X)

\* All that is sent, if no announced set is closed.
AllSingle(seqs) == \A q \in 1 .. Len(seqs) : seqs[q].repeatSize = 1

\* The list counts no more packets than one pass sends: of a set that is open no sequence
\* is repeated more often than the first, as all of them will be once it is closed.
CountedWithin(b, X, Y) ==
    /\ b.listSize <= Len(TransmitOrder(b.seqs))
    /\ b.repeatSize # 0 =>
          /\ Y[1].repeatCount \in Nat \ {0} /\ Y[Len(Y)].repeatCount <= Y[1].repeatCount
          /\ Len(TransmitOrder(b.seqs)) <=
                Len(TransmitOrder(X)) + Y[1].repeatCount * Len(OpenGuids(Y))

\* At any time the sets tile the builder's list.
LEMMA BuiltTiled ==
    ASSUME NEW b, NEW X, NEW Y, Built(b, X, Y)
    PROVE  Tiled(b.seqs) /\ b.seqs \in Seq(SequenceType)
  BY TiledSingles DEF Built, BuilderType

\* A new sequence has no packets and is a set of its own.
LEMMA NewSequenceType ==
    ASSUME NEW repeats \in Nat, NEW d \in Int
    PROVE  /\ NewSequence(repeats, d) \in SequenceType
           /\ NewSequence(repeats, d).pkts = <<>>
           /\ NewSequence(repeats, d).repeatCount = repeats
           /\ NewSequence(repeats, d).repeatSize = 1
           /\ NewSequence(repeats, d).usecDelay = d
  <1>1. <<>> \in Seq(PacketType)
    BY Lists!EmptySeq
  <1> QED
    BY <1>1 DEF NewSequence, SequenceType

\* The last of the sequences that are still open.
LEMMA BuiltLast ==
    ASSUME NEW b, NEW X, NEW V \in Seq(SequenceType), NEW y \in SequenceType,
           Built(b, X, Append(V, y))
    PROVE  /\ X \in Seq(SequenceType) /\ Singles(V) /\ y.repeatSize = 1
           /\ X \o V \in Seq(SequenceType) /\ Tiled(X \o V)
           /\ b.seqs = Append(X \o V, y)
           /\ b.cur = Len(X \o V) + 1 /\ Len(X \o V) \in Nat
           /\ b.seqs[b.cur] = y /\ b.cur \in 1 .. Len(b.seqs) /\ b.cur = Len(b.seqs)
           /\ b.repeatSize = 0 => V = <<>> /\ y.repeatCount = 1
  <1> DEFINE Y == Append(V, y)
             W == X \o V
  <1>1. /\ Y \in Seq(SequenceType) /\ Len(Y) = Len(V) + 1 /\ Y # <<>> /\ Len(V) \in Nat
        /\ \A m \in 1 .. Len(V) : Y[m] = V[m]
        /\ Y[Len(V) + 1] = y
    BY Lists!AppendProperties
  <1>2. X \in Seq(SequenceType) /\ Tiled(X) /\ Singles(Y) /\ b.seqs = X \o Y /\ b.cur = Len(b.seqs)
    BY <1>1 DEF Built
  <1>3. y.repeatSize = 1 /\ Singles(V)
    <2>1. \A m \in 1 .. Len(Y) : Y[m].repeatSize = 1
      BY <1>2 DEF Singles
    <2>2. Len(V) + 1 \in 1 .. Len(Y)
      BY <1>1
    <2>3. \A m \in 1 .. Len(V) : V[m].repeatSize = 1
      BY <1>1, <2>1
    <2> QED
      BY <1>1, <2>1, <2>2, <2>3 DEF Singles
  <1>4. W \in Seq(SequenceType) /\ Tiled(W) /\ Len(W) \in Nat
    BY <1>2, <1>3, TiledSingles, Lists!ConcatProperties
  <1>5. b.seqs = Append(W, y)
    <2>1. Y = V \o <<y>> /\ <<y>> \in Seq(SequenceType)
      BY Lists!AppendIsConcat
    <2>2. (X \o V) \o <<y>> = X \o (V \o <<y>>)
      BY <1>2, <2>1, Lists!ConcatAssociative
    <2>3. Append(W, y) = W \o <<y>>
      BY <1>4, Lists!AppendIsConcat
    <2> QED
      BY <1>2, <2>1, <2>2, <2>3
  <1> HIDE DEF W
  <1>6. Len(b.seqs) = Len(W) + 1 /\ b.seqs[Len(W) + 1] = y
    BY <1>4, <1>5, Lists!AppendProperties
  <1>7. b.repeatSize = 0 => V = <<>> /\ y.repeatCount = 1
    <2> SUFFICES ASSUME b.repeatSize = 0 PROVE V = <<>> /\ y.repeatCount = 1
      OBVIOUS
    <2>1. Len(Y) <= 1 /\ \A m \in 1 .. Len(Y) : Y[m].repeatCount = 1
      BY DEF Built
    <2>2. Len(V) = 0 /\ Len(V) + 1 \in 1 .. Len(Y)
      BY <1>1, <2>1
    <2>3. V = <<>>
      BY <2>2, Lists!EmptySeq
    <2> QED
      BY <1>1, <2>1, <2>2, <2>3
  <1> QED
    BY <1>2, <1>3, <1>4, <1>5, <1>6, <1>7 DEF W

\* One element more behind two lists in a row.
LEMMA CatAppend ==
    ASSUME NEW X \in Seq(SequenceType), NEW V \in Seq(SequenceType), NEW y \in SequenceType
    PROVE  X \o Append(V, y) = Append(X \o V, y)
  <1>1. <<y>> \in Seq(SequenceType) /\ X \o V \in Seq(SequenceType)
    BY Lists!ConcatProperties
  <1>2. (X \o V) \o <<y>> = X \o (V \o <<y>>)
    BY <1>1, Lists!ConcatAssociative
  <1>3. Append(V, y) = V \o <<y>>
    BY Lists!AppendIsConcat
  <1>4. Append(X \o V, y) = (X \o V) \o <<y>>
    <2> HIDE <1>2
    <2> DEFINE W == X \o V
    <2>1. W \in Seq(SequenceType)
      BY <1>1
    <2> HIDE DEF W
    <2>2. Append(W, y) = W \o <<y>>
      BY <2>1, Lists!AppendIsConcat
    <2> QED
      BY <2>2 DEF W
  <1> QED
    BY <1>2, <1>3, <1>4

\* One sequence more that is a set of its own.
LEMMA SinglesAppend ==
    ASSUME NEW V, Singles(V), NEW y \in SequenceType, y.repeatSize = 1
    PROVE  Singles(Append(V, y))
  <1>1. V \in Seq(SequenceType)
    BY DEF Singles
  <1>2. /\ Append(V, y) \in Seq(SequenceType) /\ Len(Append(V, y)) = Len(V) + 1 /\ Len(V) \in Nat
        /\ \A m \in 1 .. Len(V) : Append(V, y)[m] = V[m]
        /\ Append(V, y)[Len(V) + 1] = y
    BY <1>1, Lists!AppendProperties
  <1>3. \A m \in 1 .. Len(V) : V[m].repeatSize = 1
    BY DEF Singles
  <1>4. ASSUME NEW m \in 1 .. Len(V) + 1 PROVE Append(V, y)[m].repeatSize = 1
    <2>1. CASE m \in 1 .. Len(V)
      BY <2>1, <1>2, <1>3
    <2>2. CASE m = Len(V) + 1
      BY <2>2, <1>2
    <2> QED
      BY <2>1, <2>2, <1>2
  <1> QED
    BY <1>2, <1>4 DEF Singles

\* The last element is changed.
LEMMA AppendExcept ==
    ASSUME NEW W \in Seq(SequenceType), NEW y \in SequenceType, NEW e \in SequenceType
    PROVE  [Append(W, y) EXCEPT ![Len(W) + 1] = e] = Append(W, e)
  <1> DEFINE n == Len(W)
             s == Append(W, y)
             t == Append(W, e)
             u == [s EXCEPT ![n + 1] = e]
  <1>1. /\ s \in Seq(SequenceType) /\ Len(s) = n + 1 /\ n \in Nat
        /\ \A m \in 1 .. n : s[m] = W[m]
    BY Lists!AppendProperties
  <1>2. /\ t \in Seq(SequenceType) /\ Len(t) = n + 1
        /\ \A m \in 1 .. n : t[m] = W[m]
        /\ t[n + 1] = e
    BY Lists!AppendProperties
  <1>3. n + 1 \in 1 .. Len(s)
    BY <1>1
  <1>4. /\ u \in Seq(SequenceType) /\ Len(u) = Len(s)
        /\ \A m \in 1 .. Len(s) : u[m] = IF m = n + 1 THEN e ELSE s[m]
    <2> HIDE DEF s, n
    <2> QED
      BY <1>1, <1>3, Lists!ExceptSeq
  <1> HIDE DEF s, t, u, n
  <1>5. ASSUME NEW m \in 1 .. Len(u) PROVE u[m] = t[m]
    <2>1. CASE m = n + 1
      BY <2>1, <1>1, <1>2, <1>4
    <2>2. CASE m # n + 1
      <3>1. m \in 1 .. n
        BY <2>2, <1>1, <1>4
      <3> QED
        BY <2>2, <3>1, <1>1, <1>2, <1>4
    <2> QED
      BY <2>1, <2>2
  <1>6. u = t
    BY <1>1, <1>2, <1>4, <1>5, Lists!SeqEqual
  <1> QED
    BY <1>6 DEF u, t, s, n

\* The streams of a repetition are repeated.
LEMMA RepeatGuids ==
    ASSUME NEW s \in Seq(Entry), NEW n \in Nat
    PROVE  Guids(Repeat(s, n)) = Repeat(Guids(s), n)
  <1> DEFINE r == Repeat(s, n)
             g == Guids(s)
             l == Len(s)
  <1>1. l \in Nat /\ n * l \in Nat /\ Len(g) = l
    BY GuidsType
  <1>2. Len(r) = n * l
    BY RepeatType
  <1>3. /\ \A p \in 1 .. n * l : r[p] = s[((p - 1) % l) + 1]
        /\ \A p \in 1 .. l : g[p] = s[p].guid
    BY DEF Repeat, Guids
  <1>4. Repeat(g, n) = [p \in 1 .. n * l |-> g[((p - 1) % l) + 1]]
    BY <1>1 DEF Repeat
  <1> HIDE DEF r, g, l
  <1>5. ASSUME NEW p \in 1 .. n * l PROVE r[p].guid = g[((p - 1) % l) + 1]
    <2>1. l # 0
      BY <1>1
    <2>2. p - 1 \in Int /\ (p - 1) % l \in 0 .. l - 1
      BY <2>1, <1>1
    <2>3. ((p - 1) % l) + 1 \in 1 .. l
      BY <2>2, <1>1
    <2> QED
      BY <2>3, <1>3
  <1>6. Guids(r) = [p \in 1 .. n * l |-> g[((p - 1) % l) + 1]]
    BY <1>2, <1>5 DEF Guids
  <1> QED
    BY <1>4, <1>6 DEF r, g

\* A sequence without packets adds nothing.
LEMMA SentNew ==
    ASSUME NEW X \in Seq(SequenceType), Tiled(X), NEW n \in Nat, NEW d \in Int
    PROVE  /\ SentGuids(Append(X, NewSequence(n, d))) = SentGuids(X)
           /\ Len(TransmitOrder(Append(X, NewSequence(n, d)))) = Len(TransmitOrder(X))
  <1> DEFINE y == NewSequence(n, d)
             r == Repeat(SequencePackets(y), y.repeatCount)
  <1>1. y \in SequenceType /\ y.pkts = <<>> /\ y.repeatSize = 1 /\ y.repeatCount = n
    BY NewSequenceType
  <1>2. y.repeatCount * Len(y.pkts) = 0
    <2>1. Len(y.pkts) = 0
      BY <1>1, Lists!EmptySeq
    <2> HIDE DEF y
    <2> QED
      BY <1>1, <2>1
  <1>3. /\ SentGuids(Append(X, y)) = SentGuids(X) \o Guids(r)
        /\ TransmitOrder(X) \in Seq(Entry) /\ SentGuids(X) \in Seq(Nat)
        /\ r \in Seq(Entry) /\ Len(r) = 0
        /\ Len(TransmitOrder(Append(X, y))) = Len(TransmitOrder(X)) + 0
    <2> HIDE DEF y
    <2>1. /\ SentGuids(Append(X, y)) = SentGuids(X) \o Guids(r)
          /\ TransmitOrder(X) \in Seq(Entry) /\ SentGuids(X) \in Seq(Nat)
          /\ r \in Seq(Entry) /\ Len(r) = y.repeatCount * Len(y.pkts)
          /\ Len(TransmitOrder(Append(X, y)))
               = Len(TransmitOrder(X)) + y.repeatCount * Len(y.pkts)
      BY <1>1, SentAppend
    <2> QED
      BY <1>2, <2>1
  <1>4. Len(TransmitOrder(X)) \in Nat
    BY <1>3
  <1> HIDE DEF y, r
  <1>5. Guids(r) \in Seq(Nat) /\ Len(Guids(r)) = 0
    BY <1>3, GuidsType
  <1>6. Guids(r) = <<>>
    BY <1>5, Lists!EmptySeq
  <1>7. SentGuids(X) \o <<>> = SentGuids(X)
    BY <1>3, Lists!ConcatEmptySeq
  <1> QED
    BY <1>3, <1>4, <1>6, <1>7 DEF y

\* What an open sequence sends does not depend on the pause behind it.
LEMMA SentDelayed ==
    ASSUME NEW X \in Seq(SequenceType), Tiled(X), NEW y \in SequenceType,
           NEW z \in SequenceType, y.repeatSize = 1, z.repeatSize = 1,
           z.pkts = y.pkts, z.repeatCount = y.repeatCount
    PROVE  /\ SentGuids(Append(X, z)) = SentGuids(Append(X, y))
           /\ Len(TransmitOrder(Append(X, z))) = Len(TransmitOrder(Append(X, y)))
  <1> DEFINE s == SequencePackets(y)
             t == SequencePackets(z)
  <1>1. Guids(t) = Guids(s) /\ s \in Seq(Entry) /\ t \in Seq(Entry)
    BY SequenceGuids, SequencePacketsType
  <1>2. y.repeatCount \in Nat
    BY DEF SequenceType
  <1> HIDE DEF s, t
  <1>3. Guids(Repeat(t, y.repeatCount)) = Guids(Repeat(s, y.repeatCount))
    BY <1>1, <1>2, RepeatGuids
  <1>4. /\ SentGuids(Append(X, y)) = SentGuids(X) \o Guids(Repeat(s, y.repeatCount))
        /\ SentGuids(Append(X, z)) = SentGuids(X) \o Guids(Repeat(t, z.repeatCount))
        /\ Len(TransmitOrder(Append(X, y)))
             = Len(TransmitOrder(X)) + y.repeatCount * Len(y.pkts)
        /\ Len(TransmitOrder(Append(X, z)))
             = Len(TransmitOrder(X)) + z.repeatCount * Len(z.pkts)
    BY SentAppend DEF s, t
  <1> QED
    BY <1>3, <1>4

\* The pause behind a sequence is set.
Delayed(y, d) == [y EXCEPT !.usecDelay = d]

\* It is a sequence.
LEMMA DelayedType ==
    ASSUME NEW y \in SequenceType, NEW d \in Int
    PROVE  /\ Delayed(y, d) \in SequenceType
           /\ Delayed(y, d).pkts = y.pkts /\ Delayed(y, d).repeatCount = y.repeatCount
           /\ Delayed(y, d).repeatSize = y.repeatSize /\ Delayed(y, d).usecDelay = d
  BY DEF Delayed, SequenceType

-----------------------------------------------------------------------------
(* The builder.                                                              *)

\* What holds of all sequences holds of those in front.
LEMMA AllSingleFront ==
    ASSUME NEW W \in Seq(SequenceType), NEW y \in SequenceType
    PROVE  AllSingle(Append(W, y)) <=> AllSingle(W) /\ y.repeatSize = 1
  <1>1. /\ Len(Append(W, y)) = Len(W) + 1 /\ Len(W) \in Nat
        /\ \A m \in 1 .. Len(W) : Append(W, y)[m] = W[m]
        /\ Append(W, y)[Len(W) + 1] = y
    BY Lists!AppendProperties
  <1>2. ASSUME AllSingle(Append(W, y)) PROVE AllSingle(W) /\ y.repeatSize = 1
    <2>1. \A q \in 1 .. Len(W) + 1 : Append(W, y)[q].repeatSize = 1
      BY <1>1, <1>2 DEF AllSingle
    <2>2. Len(W) + 1 \in 1 .. Len(W) + 1 /\ \A q \in 1 .. Len(W) : q \in 1 .. Len(W) + 1
      BY <1>1
    <2> QED
      BY <1>1, <2>1, <2>2 DEF AllSingle
  <1>3. ASSUME AllSingle(W), y.repeatSize = 1 PROVE AllSingle(Append(W, y))
    <2>1. \A q \in 1 .. Len(W) : W[q].repeatSize = 1
      BY <1>3 DEF AllSingle
    <2>2. ASSUME NEW q \in 1 .. Len(W) + 1 PROVE Append(W, y)[q].repeatSize = 1
      <3>1. CASE q \in 1 .. Len(W)
        BY <3>1, <2>1, <1>1
      <3>2. CASE q = Len(W) + 1
        BY <3>2, <1>1, <1>3
      <3> QED
        BY <3>1, <3>2, <1>1
    <2> QED
      BY <1>1, <2>2 DEF AllSingle
  <1> QED
    BY <1>2, <1>3

\* A sequence more, which takes the packets from now on.
LEMMA BuiltOpen ==
    ASSUME NEW b, NEW X \in Seq(SequenceType), Tiled(X), NEW V, Singles(V),
           NEW y \in SequenceType, y.repeatSize = 1,
           b \in BuilderType, b.seqs = Append(X \o V, y), b.cur = Len(X \o V) + 1,
           b.repeatSize = 0 => V = <<>> /\ y.repeatCount = 1,
           b.repeatSize # 0 => b.repeatStart = Len(X)
    PROVE  Built(b, X, Append(V, y))
  <1>1. V \in Seq(SequenceType) /\ X \o V \in Seq(SequenceType)
    BY Lists!ConcatProperties DEF Singles
  <1>2. b.seqs = X \o Append(V, y)
    BY <1>1, CatAppend
  <1>3. Singles(Append(V, y)) /\ Append(V, y) # <<>>
    BY <1>1, SinglesAppend, Lists!AppendProperties
  <1>4. Len(b.seqs) = Len(X \o V) + 1
    <2> DEFINE W == X \o V
    <2>1. W \in Seq(SequenceType) /\ b.seqs = Append(W, y)
      BY <1>1
    <2> HIDE DEF W
    <2>2. Len(b.seqs) = Len(W) + 1
      BY <2>1, Lists!AppendProperties
    <2> QED
      BY <2>2 DEF W
  <1>5. b.repeatSize = 0 => /\ Len(Append(V, y)) <= 1
                            /\ \A m \in 1 .. Len(Append(V, y)) : Append(V, y)[m].repeatCount = 1
    <2> SUFFICES ASSUME b.repeatSize = 0, NEW Y, Y = Append(<<>>, y)
                 PROVE  Len(Y) <= 1 /\ \A m \in 1 .. Len(Y) : Y[m].repeatCount = 1
      OBVIOUS
    <2>1. Len(Y) = 1 /\ Y[1] = y
      OBVIOUS
    <2> QED
      BY <2>1
  <1> QED
    BY <1>2, <1>3, <1>4, <1>5 DEF Built

\* What an int can hold it holds.
LEMMA AsIntSame ==
    ASSUME NEW n \in 0 .. MaxInt
    PROVE  AsInt(n) = n
  <1> DEFINE a == n + MaxInt + 1
             d == 2 * MaxInt + 2
  <1>1. a \in 0 .. d - 1 /\ d \in Nat \ {0}
    BY WidthAssumption
  <1>2. a % d = a
    <2> HIDE DEF a, d
    <2>1. 0 * d + a = a
      BY <1>1
    <2> QED
      BY <1>1, <2>1, DivideMultiple
  <1> QED
    BY <1>2, WidthAssumption DEF AsInt

\* The builder after loopNextPacketSet().
LoopAnnounced(b, size, repeats, d, c) ==
    /\ c \in BuilderType /\ c.seqs = Append(b.seqs, NewSequence(repeats, d))
    /\ c.cur = Len(b.seqs) + 1 /\ c.repeatStart = Len(b.seqs)
    /\ c.repeatSize = size /\ c.packetCount = 0
    /\ c.listSize = b.listSize /\ c.returnTo = b.returnTo

\* LoopNextPacketSet() leaves a builder.
LEMMA LoopType ==
    ASSUME NEW b \in BuilderType, NEW size \in Nat, NEW repeats \in 0 .. MaxInt, NEW d \in Int,
           Append(b.seqs, NewSequence(repeats, d)) \in Seq(SequenceType), Len(b.seqs) \in Nat,
           NEW c, c = LoopNextPacketSet(b, size, repeats, d)
    PROVE  LoopAnnounced(b, size, repeats, d, c)
  <1> DEFINE s == Append(b.seqs, NewSequence(repeats, d))
             n == Len(b.seqs)
             k == n + 1
             z == 0
  <1>1. c = [b EXCEPT !.seqs = s, !.cur = k, !.repeatStart = n, !.repeatSize = size,
                      !.packetCount = z]
    BY AsIntSame DEF LoopNextPacketSet
  <1>2. s \in Seq(SequenceType) /\ k \in Nat /\ n \in Int /\ z \in Nat
    OBVIOUS
  <1> HIDE DEF s, n, k, z
  <1>3. c = [seqs |-> s, cur |-> k, repeatStart |-> n, repeatSize |-> size,
             packetCount |-> z, listSize |-> b.listSize, returnTo |-> b.returnTo,
             loopDelay |-> b.loopDelay]
    BY <1>1 DEF BuilderType
  <1>4. b.listSize \in Nat /\ b.returnTo \in {-1, 0} /\ b.loopDelay \in Int
    BY DEF BuilderType
  <1>5. c \in BuilderType
    BY <1>2, <1>3, <1>4 DEF BuilderType
  <1>6. /\ c.seqs = s /\ c.cur = k /\ c.repeatStart = n
        /\ c.repeatSize = size /\ c.packetCount = z
        /\ c.listSize = b.listSize /\ c.returnTo = b.returnTo
    BY <1>3
  <1> QED
    BY <1>5, <1>6 DEF LoopAnnounced, s, n, k, z

\* A set is announced: nothing is added to what is sent, and its first sequence is open.
NewSet(b, size, repeats, d, c) ==
    /\ Built(c, b.seqs, Append(<<>>, NewSequence(repeats, d)))
    /\ c.repeatSize = size /\ c.packetCount = 0 /\ c.listSize = b.listSize
    /\ c.returnTo = b.returnTo
    /\ SentGuids(c.seqs) = SentGuids(b.seqs)
    /\ Len(TransmitOrder(c.seqs)) = Len(TransmitOrder(b.seqs))
    /\ AllSingle(c.seqs) => AllSingle(b.seqs)

\* That is what LoopNextPacketSet() leaves.
LEMMA LoopBuilt ==
    ASSUME NEW b, NEW X, NEW Y, Built(b, X, Y), NEW size \in Nat \ {0},
           NEW repeats \in 0 .. MaxInt, NEW d \in Int,
           NEW c, c = LoopNextPacketSet(b, size, repeats, d)
    PROVE  NewSet(b, size, repeats, d, c)
  <1> DEFINE y == NewSequence(repeats, d)
  <1>1. b \in BuilderType /\ b.seqs \in Seq(SequenceType) /\ Len(b.seqs) \in Nat /\ Tiled(b.seqs)
    <2>1. b.seqs \in Seq(SequenceType) /\ Tiled(b.seqs)
      BY BuiltTiled
    <2>2. b \in BuilderType
      BY DEF Built
    <2> QED
      BY <2>1, <2>2
  <1>2. y \in SequenceType /\ y.repeatSize = 1
    BY WidthAssumption, NewSequenceType
  <1>3. Append(b.seqs, y) \in Seq(SequenceType)
    BY <1>1, <1>2, Lists!AppendProperties
  <1>4. /\ c \in BuilderType /\ c.seqs = Append(b.seqs, y) /\ c.cur = Len(b.seqs) + 1
        /\ c.repeatStart = Len(b.seqs) /\ c.repeatSize = size /\ c.packetCount = 0
        /\ c.listSize = b.listSize /\ c.returnTo = b.returnTo
    <2>1. /\ b \in BuilderType /\ size \in Nat /\ size # 0
          /\ Append(b.seqs, NewSequence(repeats, d)) \in Seq(SequenceType) /\ Len(b.seqs) \in Nat
      BY <1>1, <1>3
    <2>2. LoopAnnounced(b, size, repeats, d, c)
      BY <2>1, LoopType
    <2> QED
      BY <2>2 DEF LoopAnnounced
  <1>5. Singles(<<>>) /\ b.seqs \o <<>> = b.seqs
    BY <1>1, Lists!ConcatEmptySeq, Lists!EmptySeq DEF Singles
  <1>6. Built(c, b.seqs, Append(<<>>, y))
    <2> HIDE DEF y
    <2> QED
      BY <1>1, <1>2, <1>4, <1>5, BuiltOpen
  <1>7. SentGuids(c.seqs) = SentGuids(b.seqs) /\ Len(TransmitOrder(c.seqs)) = Len(TransmitOrder(b.seqs))
    <2> DEFINE s == b.seqs
    <2>1. s \in Seq(SequenceType) /\ Tiled(s) /\ c.seqs = Append(s, NewSequence(repeats, d))
      BY <1>1, <1>4
    <2> HIDE DEF s
    <2>2. repeats \in Nat /\ d \in Int
      BY WidthAssumption
    <2>3. /\ SentGuids(Append(s, NewSequence(repeats, d))) = SentGuids(s)
          /\ Len(TransmitOrder(Append(s, NewSequence(repeats, d)))) = Len(TransmitOrder(s))
      BY <2>1, <2>2, SentNew
    <2> QED
      BY <2>1, <2>3 DEF s
  <1>8. AllSingle(c.seqs) => AllSingle(b.seqs)
    BY <1>1, <1>2, <1>4, AllSingleFront
  <1> QED
    BY <1>4, <1>6, <1>7, <1>8 DEF NewSet

\* The sequence that is opened for a packet that does not fit.
Fresh == NewSequence(1, 0)

\* The list is s now, the last sequence of which is new.
Opened(b, s) == [b EXCEPT !.seqs = s, !.cur = Len(b.seqs) + 1]

\* It is a builder.
LEMMA OpenedType ==
    ASSUME NEW b \in BuilderType, NEW s \in Seq(SequenceType), NEW c, c = Opened(b, s)
    PROVE  /\ c \in BuilderType /\ c.seqs = s /\ c.cur = Len(b.seqs) + 1
           /\ c.repeatStart = b.repeatStart /\ c.repeatSize = b.repeatSize
           /\ c.packetCount = b.packetCount /\ c.listSize = b.listSize
           /\ c.returnTo = b.returnTo
  <1> DEFINE k == Len(b.seqs) + 1
  <1>1. k \in Nat
    BY DEF BuilderType
  <1> HIDE DEF k
  <1>2. c = [seqs |-> s, cur |-> k, repeatStart |-> b.repeatStart, repeatSize |-> b.repeatSize,
             packetCount |-> b.packetCount, listSize |-> b.listSize, returnTo |-> b.returnTo,
             loopDelay |-> b.loopDelay]
    BY DEF BuilderType, Opened, k
  <1>3. /\ b.listSize \in Nat /\ b.returnTo \in {-1, 0} /\ b.loopDelay \in Int
        /\ b.repeatStart \in Int /\ b.repeatSize \in Nat /\ b.packetCount \in Nat
    BY DEF BuilderType
  <1>4. c \in BuilderType
    BY <1>1, <1>2, <1>3 DEF BuilderType
  <1>5. /\ c.seqs = s /\ c.cur = k
        /\ c.repeatStart = b.repeatStart /\ c.repeatSize = b.repeatSize
        /\ c.packetCount = b.packetCount /\ c.listSize = b.listSize
        /\ c.returnTo = b.returnTo
    BY <1>2
  <1> QED
    BY <1>4, <1>5 DEF k

\* The pause of the last sequence is set in the list.
LEMMA DelayedExcept ==
    ASSUME NEW W \in Seq(SequenceType), NEW y \in SequenceType, NEW d \in Int
    PROVE  [Append(W, y) EXCEPT ![Len(W) + 1].usecDelay = d] = Append(W, Delayed(y, d))
  <1> DEFINE s == Append(W, y)
             n == Len(W) + 1
  <1>1. s[n] = y /\ [s EXCEPT ![n] = Delayed(y, d)] = Append(W, Delayed(y, d))
    <2>1. Append(W, y)[Len(W) + 1] = y
      BY Lists!AppendProperties
    <2>2. Delayed(y, d) \in SequenceType
      BY DelayedType
    <2>3. [Append(W, y) EXCEPT ![Len(W) + 1] = Delayed(y, d)] = Append(W, Delayed(y, d))
      BY <2>2, AppendExcept
    <2> QED
      BY <2>1, <2>3
  <1> HIDE DEF s, n
  <1>2. [s EXCEPT ![n].usecDelay = d] = [s EXCEPT ![n] = [s[n] EXCEPT !.usecDelay = d]]
    OBVIOUS
  <1>3. [s EXCEPT ![n].usecDelay = d] = Append(W, Delayed(y, d))
    BY <1>1, <1>2 DEF Delayed
  <1> QED
    BY <1>3 DEF s, n

\* The gap to a packet that did not fit.
LEMMA GapType ==
    ASSUME NEW y \in SequenceType, NEW pkt \in PacketType, ~ HasFreeSpace(y)
    PROVE  /\ y.pkts # <<>> /\ Last(y.pkts) \in PacketType /\ Last(y.pkts) = y.pkts[Len(y.pkts)]
           /\ Len(y.pkts) \in Nat \ {0}
           /\ pkt.ts - Last(y.pkts).ts \in Int
  <1>1. y.pkts \in Seq(PacketType) /\ Len(y.pkts) \in Nat
    BY DEF SequenceType
  <1>2. Len(y.pkts) \in Nat \ {0}
    BY <1>1, SeqCapacityAssumption DEF HasFreeSpace
  <1>3. y.pkts[Len(y.pkts)] \in PacketType
    BY <1>1, <1>2, Lists!ElementOfSeq
  <1>4. Last(y.pkts) = y.pkts[Len(y.pkts)]
    BY DEF Last
  <1> QED
    BY <1>2, <1>3, <1>4, Lists!EmptySeq DEF PacketType

\* What RoomForPacket leaves: a list that sends what it did, the last sequence of which
\* has room.
Roomy(b, X, Y, r, X1, V1, y1) ==
    /\ Built(r, X1, Append(V1, y1)) /\ HasFreeSpace(y1)
    /\ r.repeatSize = b.repeatSize /\ r.packetCount = b.packetCount
    /\ r.listSize = b.listSize /\ r.returnTo = b.returnTo
    /\ SentGuids(r.seqs) = SentGuids(b.seqs)
    /\ Len(TransmitOrder(r.seqs)) = Len(TransmitOrder(b.seqs))
    /\ AllSingle(r.seqs) => AllSingle(b.seqs)
    /\ b.repeatSize # 0 => /\ X1 = X /\ OpenGuids(Append(V1, y1)) = OpenGuids(Y)
                           /\ Append(V1, y1)[1].repeatCount = Y[1].repeatCount
    /\ y1 = Fresh \/ Append(V1, y1) = Y

\* It has room, and sends nothing.
LEMMA FreshType ==
    /\ Fresh \in SequenceType /\ Fresh.repeatSize = 1 /\ Fresh.repeatCount = 1
    /\ Fresh.pkts = <<>> /\ HasFreeSpace(Fresh)
  <1>1. Fresh \in SequenceType /\ Fresh.repeatSize = 1 /\ Fresh.repeatCount = 1 /\ Fresh.pkts = <<>>
    BY NewSequenceType DEF Fresh
  <1> QED
    BY <1>1, SeqCapacityAssumption, Lists!EmptySeq DEF HasFreeSpace

\* A list with it sends what it did.
LEMMA SentFresh ==
    ASSUME NEW X \in Seq(SequenceType), Tiled(X)
    PROVE  /\ SentGuids(Append(X, Fresh)) = SentGuids(X)
           /\ Len(TransmitOrder(Append(X, Fresh))) = Len(TransmitOrder(X))
  <1>1. 1 \in Nat /\ 0 \in Int
    OBVIOUS
  <1> QED
    BY <1>1, SentNew DEF Fresh

\* Room is made in a list without a current sequence,
LEMMA RoomEmpty ==
    ASSUME NEW b, NEW X, NEW Y, Built(b, X, Y), Y = <<>>, NEW pkt \in PacketType,
           NEW r, r = RoomForPacket(b, pkt)
    PROVE  Roomy(b, X, Y, r, X, <<>>, Fresh)
  <1>1. /\ b \in BuilderType /\ X \in Seq(SequenceType) /\ Tiled(X) /\ b.seqs = X \o <<>>
        /\ b.cur = 0 /\ b.repeatSize = 0
    BY DEF Built
  <1>2. b.seqs = X /\ Singles(<<>>)
    BY <1>1, Lists!ConcatEmptySeq, Lists!EmptySeq DEF Singles
  <1> DEFINE s == Append(X, Fresh)
  <1>3. s \in Seq(SequenceType)
    BY <1>1, FreshType, Lists!AppendProperties
  <1>4. r = Opened(b, s)
    BY <1>1, <1>2 DEF RoomForPacket, Fresh, Opened
  <1>5. /\ r \in BuilderType /\ r.seqs = s /\ r.cur = Len(b.seqs) + 1
        /\ r.repeatStart = b.repeatStart /\ r.repeatSize = b.repeatSize
        /\ r.packetCount = b.packetCount /\ r.listSize = b.listSize
        /\ r.returnTo = b.returnTo
    <2> HIDE DEF s
    <2> QED
      BY <1>1, <1>3, <1>4, OpenedType
  <1>6. Built(r, X, Append(<<>>, Fresh))
    BY <1>1, <1>2, <1>5, FreshType, BuiltOpen
  <1>7. /\ SentGuids(s) = SentGuids(X) /\ Len(TransmitOrder(s)) = Len(TransmitOrder(X))
    BY <1>1, SentFresh
  <1>8. AllSingle(s) => AllSingle(X)
    BY <1>1, FreshType, AllSingleFront
  <1> QED
    BY <1>1, <1>2, <1>5, <1>6, <1>7, <1>8, FreshType DEF Roomy

\* in one that has room,
LEMMA RoomFree ==
    ASSUME NEW b, NEW X, NEW V \in Seq(SequenceType), NEW y \in SequenceType,
           Built(b, X, Append(V, y)), HasFreeSpace(y), NEW pkt \in PacketType,
           NEW r, r = RoomForPacket(b, pkt)
    PROVE  Roomy(b, X, Append(V, y), r, X, V, y)
  <1>1. /\ X \in Seq(SequenceType) /\ Singles(V) /\ y.repeatSize = 1
        /\ X \o V \in Seq(SequenceType) /\ Tiled(X \o V)
        /\ b.seqs = Append(X \o V, y)
        /\ b.cur = Len(X \o V) + 1 /\ Len(X \o V) \in Nat
        /\ b.seqs[b.cur] = y /\ b.cur \in 1 .. Len(b.seqs) /\ b.cur = Len(b.seqs)
        /\ b.repeatSize = 0 => V = <<>> /\ y.repeatCount = 1
    BY BuiltLast
  <1>2. r = b
    <2>1. b.cur # 0 /\ b.seqs[b.cur] = y
      BY <1>1
    <2> QED
      BY <2>1 DEF RoomForPacket
  <1> QED
    BY <1>2 DEF Roomy

\* and in one the current sequence of which is full.
LEMMA RoomFull ==
    ASSUME NEW b, NEW X, NEW V \in Seq(SequenceType), NEW y \in SequenceType,
           Built(b, X, Append(V, y)), ~ HasFreeSpace(y), NEW pkt \in PacketType,
           NEW r, r = RoomForPacket(b, pkt)
    PROVE  \E X1 \in Seq(SequenceType), V1 \in Seq(SequenceType) :
              Roomy(b, X, Append(V, y), r, X1, V1, Fresh)
  <1>0. /\ X \in Seq(SequenceType) /\ Singles(V) /\ y.repeatSize = 1
        /\ X \o V \in Seq(SequenceType) /\ Tiled(X \o V)
        /\ b.seqs = Append(X \o V, y)
        /\ b.cur = Len(X \o V) + 1 /\ Len(X \o V) \in Nat
        /\ b.seqs[b.cur] = y /\ b.cur \in 1 .. Len(b.seqs) /\ b.cur = Len(b.seqs)
        /\ b.repeatSize = 0 => V = <<>> /\ y.repeatCount = 1
    BY BuiltLast
  <1> DEFINE W == X \o V
             d == pkt.ts - Last(y.pkts).ts
             z == Delayed(y, d)
             A == Append(W, z)
             s == Append(A, Fresh)
  <1>1. /\ X \in Seq(SequenceType) /\ Singles(V) /\ y.repeatSize = 1 /\ W \in Seq(SequenceType)
        /\ Tiled(W) /\ b.seqs = Append(W, y) /\ b.cur = Len(W) + 1 /\ Len(W) \in Nat
        /\ b.seqs[b.cur] = y /\ b.cur = Len(b.seqs)
        /\ b.repeatSize = 0 => V = <<>> /\ y.repeatCount = 1
    BY <1>0
  <1>2. /\ b \in BuilderType /\ Tiled(X)
        /\ b.repeatSize # 0 => b.repeatStart = Len(X)
    BY DEF Built
  <1>3. d \in Int
    BY GapType
  <1>4. /\ z \in SequenceType /\ z.pkts = y.pkts /\ z.repeatCount = y.repeatCount
        /\ z.repeatSize = 1
    BY <1>1, <1>3, DelayedType
  <1>5. [b.seqs EXCEPT ![b.cur].usecDelay = d] = A
    <2> HIDE DEF d, W
    <2> QED
      BY <1>1, <1>3, DelayedExcept
  <1>6. r = Opened(b, s)
    <2>1. ~ (b.cur # 0 /\ HasFreeSpace(b.seqs[b.cur])) /\ b.cur # 0
      BY <1>1
    <2>2. Last(b.seqs[b.cur].pkts).ts = Last(y.pkts).ts
      BY <1>1
    <2>3. r = [b EXCEPT !.seqs = Append([b.seqs EXCEPT ![b.cur].usecDelay = d], NewSequence(1, 0)),
                        !.cur = Len(b.seqs) + 1]
      BY <2>1, <2>2 DEF RoomForPacket
    <2> HIDE DEF A, d
    <2> QED
      BY <1>5, <2>3 DEF Fresh, Opened
  <1> HIDE DEF z, d, W
  <1>7. A \in Seq(SequenceType) /\ Tiled(A) /\ Len(A) = Len(W) + 1
    BY <1>1, <1>4, OrderAppend, Lists!AppendProperties
  <1>8. s \in Seq(SequenceType)
    <2> HIDE DEF A
    <2> QED
      BY <1>7, FreshType, Lists!AppendProperties
  <1>9. /\ r \in BuilderType /\ r.seqs = s /\ r.cur = Len(b.seqs) + 1
        /\ r.repeatStart = b.repeatStart /\ r.repeatSize = b.repeatSize
        /\ r.packetCount = b.packetCount /\ r.listSize = b.listSize
        /\ r.returnTo = b.returnTo
    <2> HIDE DEF s
    <2> QED
      BY <1>2, <1>6, <1>8, OpenedType
  <1>10. /\ SentGuids(s) = SentGuids(b.seqs)
         /\ Len(TransmitOrder(s)) = Len(TransmitOrder(b.seqs))
    <2>1. SentGuids(A) = SentGuids(b.seqs) /\ Len(TransmitOrder(A)) = Len(TransmitOrder(b.seqs))
      BY <1>1, <1>4, SentDelayed
    <2> HIDE DEF A
    <2>2. SentGuids(s) = SentGuids(A) /\ Len(TransmitOrder(s)) = Len(TransmitOrder(A))
      BY <1>7, SentFresh
    <2> QED
      BY <2>1, <2>2
  <1>11. AllSingle(s) => AllSingle(b.seqs)
    <2>1. AllSingle(A) => AllSingle(W)
      BY <1>1, <1>4, AllSingleFront
    <2>2. AllSingle(W) => AllSingle(b.seqs)
      BY <1>1, AllSingleFront
    <2> HIDE DEF A
    <2>3. AllSingle(s) => AllSingle(A)
      BY <1>7, FreshType, AllSingleFront
    <2> QED
      BY <2>1, <2>2, <2>3
  <1> HIDE DEF s
  <1>12. CASE b.repeatSize = 0
    <2>1. V = <<>> /\ W = X
      BY <1>1, <1>12, Lists!ConcatEmptySeq DEF W
    <2>2. A \o <<>> = A /\ Singles(<<>>)
      BY <1>7, Lists!ConcatEmptySeq, Lists!EmptySeq DEF Singles
    <2>3. r.seqs = Append(A \o <<>>, Fresh) /\ r.cur = Len(A \o <<>>) + 1
      BY <1>1, <1>7, <1>9, <2>2 DEF s
    <2>4. Built(r, A, Append(<<>>, Fresh))
      <3> HIDE DEF A
      <3> QED
        BY <1>7, <1>9, <1>12, <2>2, <2>3, FreshType, BuiltOpen
    <2>5. Roomy(b, X, Append(V, y), r, A, <<>>, Fresh)
      BY <1>9, <1>10, <1>11, <1>12, <2>4, FreshType DEF Roomy
    <2>6. <<>> \in Seq(SequenceType)
      BY Lists!EmptySeq
    <2> HIDE DEF A
    <2> QED
      BY <1>7, <2>5, <2>6
  <1>13. CASE b.repeatSize # 0
    <2> DEFINE V1 == Append(V, z)
    <2>1. Singles(V1) /\ V1 \in Seq(SequenceType)
      BY <1>1, <1>4, SinglesAppend, Lists!AppendProperties
    <2>2. X \o V1 = A
      BY <1>1, <1>4, CatAppend DEF W
    <2>3. r.seqs = Append(X \o V1, Fresh) /\ r.cur = Len(X \o V1) + 1
      BY <1>1, <1>7, <1>9, <2>2 DEF s
    <2>4. Built(r, X, Append(V1, Fresh))
      <3> HIDE DEF A, V1
      <3> QED
        BY <1>1, <1>2, <1>9, <1>13, <2>1, <2>3, FreshType, BuiltOpen
    <2>5. OpenGuids(Append(V1, Fresh)) = OpenGuids(Append(V, y))
      <3>1. OpenGuids(V1) = OpenGuids(V) \o Guids(SequencePackets(z))
        BY <1>4, OpenAppend
      <3>2. OpenGuids(Append(V, y)) = OpenGuids(V) \o Guids(SequencePackets(y))
        BY OpenAppend
      <3>3. Guids(SequencePackets(z)) = Guids(SequencePackets(y))
        BY <1>4, SequenceGuids
      <3> HIDE DEF V1
      <3>4. OpenGuids(Append(V1, Fresh)) = OpenGuids(V1) \o Guids(SequencePackets(Fresh))
        BY <2>1, FreshType, OpenAppend
      <3>5. Guids(SequencePackets(Fresh)) = <<>>
        <4>1. SequencePackets(Fresh) \in Seq(Entry) /\ Len(SequencePackets(Fresh)) = 0
          BY FreshType, SequencePacketsType, Lists!EmptySeq
        <4>2. Guids(SequencePackets(Fresh)) \in Seq(Nat) /\ Len(Guids(SequencePackets(Fresh))) = 0
          BY <4>1, GuidsType
        <4> QED
          BY <4>2, Lists!EmptySeq
      <3>6. OpenGuids(V1) \o <<>> = OpenGuids(V1)
        BY <2>1, OpenType, Lists!ConcatEmptySeq
      <3> QED
        BY <3>1, <3>2, <3>3, <3>4, <3>5, <3>6
    <2>6. Append(V1, Fresh)[1].repeatCount = Append(V, y)[1].repeatCount
      <3>1. /\ Len(V1) = Len(V) + 1 /\ Len(V) \in Nat
            /\ \A m \in 1 .. Len(V) : V1[m] = V[m]
            /\ V1[Len(V) + 1] = z
        BY <1>4, Lists!AppendProperties
      <3>2. /\ \A m \in 1 .. Len(V) : Append(V, y)[m] = V[m]
            /\ Append(V, y)[Len(V) + 1] = y
        BY Lists!AppendProperties
      <3> HIDE DEF V1
      <3>3. \A m \in 1 .. Len(V1) : Append(V1, Fresh)[m] = V1[m]
        BY <2>1, FreshType, Lists!AppendProperties
      <3>4. CASE Len(V) = 0
        BY <1>4, <3>1, <3>2, <3>3, <3>4
      <3>5. CASE Len(V) # 0
        <4>1. 1 \in 1 .. Len(V) /\ 1 \in 1 .. Len(V1)
          BY <3>1, <3>5
        <4> QED
          BY <4>1, <3>1, <3>2, <3>3
      <3> QED
        BY <3>4, <3>5
    <2>7. Roomy(b, X, Append(V, y), r, X, V1, Fresh)
      BY <1>9, <1>10, <1>11, <1>13, <2>4, <2>5, <2>6, FreshType DEF Roomy
    <2> HIDE DEF V1
    <2> QED
      BY <1>1, <2>1, <2>7
  <1> QED
    BY <1>12, <1>13

\* That is all there is.
LEMMA RoomBuilt ==
    ASSUME NEW b, NEW X, NEW Y, Built(b, X, Y), NEW pkt \in PacketType,
           NEW r, r = RoomForPacket(b, pkt)
    PROVE  \E X1 \in Seq(SequenceType), V1 \in Seq(SequenceType), y1 \in SequenceType :
              Roomy(b, X, Y, r, X1, V1, y1)
  <1>1. X \in Seq(SequenceType) /\ Y \in Seq(SequenceType) /\ <<>> \in Seq(SequenceType)
    BY Lists!EmptySeq DEF Built, Singles
  <1>2. CASE Y = <<>>
    BY <1>1, <1>2, RoomEmpty, FreshType
  <1>3. CASE Y # <<>>
    <2>1. PICK V \in Seq(SequenceType), y \in SequenceType : Y = Append(V, y)
      BY <1>1, <1>3, Lists!SequenceEmptyOrAppend
    <2>2. CASE HasFreeSpace(y)
      BY <1>1, <2>1, <2>2, RoomFree
    <2>3. CASE ~ HasFreeSpace(y)
      BY <2>1, <2>3, RoomFull, FreshType
    <2> QED
      BY <2>2, <2>3
  <1> QED
    BY <1>2, <1>3

\* The packet is put into the current sequence.
Put(r, pkt) ==
    [r EXCEPT !.seqs[r.cur].pkts = Append(@, pkt),
              !.packetCount = @ + 1,
              !.listSize = @ + (IF r.repeatSize > 0 THEN r.seqs[r.cur].repeatCount ELSE 1)]

\* It is a builder, that counts the packet as often as it is repeated.
LEMMA PutType ==
    ASSUME NEW r \in BuilderType, NEW W \in Seq(SequenceType), NEW y \in SequenceType,
           r.seqs = Append(W, y), r.cur = Len(W) + 1, NEW pkt \in PacketType,
           NEW a, a = Put(r, pkt)
    PROVE  /\ a \in BuilderType /\ a.seqs = Append(W, WithPacket(y, pkt)) /\ a.cur = r.cur
           /\ a.repeatStart = r.repeatStart /\ a.repeatSize = r.repeatSize
           /\ a.packetCount = r.packetCount + 1 /\ a.returnTo = r.returnTo
           /\ a.listSize = r.listSize + (IF r.repeatSize > 0 THEN y.repeatCount ELSE 1)
  <1> DEFINE z == WithPacket(y, pkt)
             s == Append(W, z)
             p == r.packetCount + 1
             l == r.listSize + (IF r.repeatSize > 0 THEN y.repeatCount ELSE 1)
  <1>1. r.seqs[r.cur] = y
    BY Lists!AppendProperties
  <1>2. [r.seqs EXCEPT ![r.cur].pkts = Append(@, pkt)] = s
    <2>1. [r.seqs EXCEPT ![r.cur] = z] = s
      <3>1. z \in SequenceType
        BY WithPacketType
      <3> HIDE DEF z
      <3> QED
        BY <3>1, AppendExcept
    <2>2. [r.seqs EXCEPT ![r.cur].pkts = Append(@, pkt)]
            = [r.seqs EXCEPT ![r.cur] = [r.seqs[r.cur] EXCEPT !.pkts = Append(@, pkt)]]
      OBVIOUS
    <2> QED
      BY <1>1, <2>1, <2>2 DEF WithPacket
  <1>3. z \in SequenceType
    BY WithPacketType
  <1>4. s \in Seq(SequenceType)
    <2> HIDE DEF z
    <2> QED
      BY <1>3, Lists!AppendProperties
  <1>5. y.repeatCount \in Nat
    BY DEF SequenceType
  <1>6. p \in Nat /\ l \in Nat
    BY <1>5 DEF BuilderType
  <1>7. /\ a = [r EXCEPT !.seqs = [r.seqs EXCEPT ![r.cur].pkts = Append(@, pkt)],
                         !.packetCount = p, !.listSize = l]
    BY <1>1 DEF Put
  <1> HIDE DEF s, p, l, z
  <1>8. a = [seqs |-> s, cur |-> r.cur, repeatStart |-> r.repeatStart,
             repeatSize |-> r.repeatSize, packetCount |-> p, listSize |-> l,
             returnTo |-> r.returnTo, loopDelay |-> r.loopDelay]
    BY <1>2, <1>7 DEF BuilderType
  <1>9. /\ r.returnTo \in {-1, 0} /\ r.loopDelay \in Int /\ r.cur \in Nat
        /\ r.repeatStart \in Int /\ r.repeatSize \in Nat
    BY DEF BuilderType
  <1>10. a \in BuilderType
    BY <1>4, <1>6, <1>8, <1>9 DEF BuilderType
  <1>11. /\ a.seqs = s /\ a.cur = r.cur
         /\ a.repeatStart = r.repeatStart /\ a.repeatSize = r.repeatSize
         /\ a.packetCount = p /\ a.returnTo = r.returnTo /\ a.listSize = l
    BY <1>8
  <1> QED
    BY <1>10, <1>11 DEF s, p, l, z

\* A packet behind two orders in a row.
LEMMA AppendCat ==
    ASSUME NEW o \in Seq(Nat), NEW g \in Seq(Nat), NEW h \in Nat
    PROVE  o \o Append(g, h) = Append(o \o g, h)
  <1>1. Append(g, h) = g \o <<h>> /\ <<h>> \in Seq(Nat) /\ o \o g \in Seq(Nat)
    BY Lists!AppendIsConcat, Lists!ConcatProperties
  <1>2. (o \o g) \o <<h>> = o \o (g \o <<h>>)
    BY <1>1, Lists!ConcatAssociative
  <1>3. Append(o \o g, h) = (o \o g) \o <<h>>
    BY <1>1, Lists!AppendIsConcat
  <1> QED
    BY <1>1, <1>2, <1>3

\* The packet is in the set of open sequences, and the list sends it as often as the
\* sequence it went to is repeated.
LEMMA PutBuilt ==
    ASSUME NEW r, NEW X, NEW V \in Seq(SequenceType), NEW y \in SequenceType,
           Built(r, X, Append(V, y)), NEW pkt \in PacketType, NEW a, a = Put(r, pkt)
    PROVE  /\ Built(a, X, Append(V, WithPacket(y, pkt)))
           /\ a.repeatSize = r.repeatSize /\ a.packetCount = r.packetCount + 1
           /\ a.returnTo = r.returnTo
           /\ a.listSize = r.listSize + y.repeatCount
           /\ Len(TransmitOrder(a.seqs)) = Len(TransmitOrder(r.seqs)) + y.repeatCount
           /\ OpenGuids(Append(V, WithPacket(y, pkt))) = Append(OpenGuids(Append(V, y)), pkt.guid)
           /\ r.repeatSize = 0 => SentGuids(a.seqs) = Append(SentGuids(r.seqs), pkt.guid)
           /\ AllSingle(a.seqs) => AllSingle(r.seqs)
           /\ Append(V, WithPacket(y, pkt))[1].repeatCount = Append(V, y)[1].repeatCount
  <1> DEFINE W == X \o V
             z == WithPacket(y, pkt)
             s == SequencePackets(y)
             t == SequencePackets(z)
  <1>1. /\ X \in Seq(SequenceType) /\ Singles(V) /\ y.repeatSize = 1
        /\ W \in Seq(SequenceType) /\ Tiled(W)
        /\ r.seqs = Append(W, y) /\ r.cur = Len(W) + 1 /\ Len(W) \in Nat
        /\ r.repeatSize = 0 => V = <<>> /\ y.repeatCount = 1
    BY BuiltLast
  <1>2. /\ r \in BuilderType /\ Tiled(X)
        /\ r.repeatSize # 0 => r.repeatStart = Len(X)
    BY DEF Built
  <1>3. /\ z \in SequenceType /\ z.repeatSize = 1 /\ z.repeatCount = y.repeatCount
        /\ z.pkts = Append(y.pkts, pkt)
    BY <1>1, WithPacketType
  <1>4. y.repeatCount \in Nat /\ y.pkts \in Seq(PacketType) /\ Len(y.pkts) \in Nat
        /\ pkt.guid \in Nat
    BY DEF SequenceType, PacketType
  <1>5. Len(z.pkts) = Len(y.pkts) + 1
    BY <1>3, <1>4, Lists!AppendProperties
  <1>6. /\ a \in BuilderType /\ a.seqs = Append(W, z) /\ a.cur = r.cur
        /\ a.repeatStart = r.repeatStart /\ a.repeatSize = r.repeatSize
        /\ a.packetCount = r.packetCount + 1 /\ a.returnTo = r.returnTo
        /\ a.listSize = r.listSize + (IF r.repeatSize > 0 THEN y.repeatCount ELSE 1)
    <2> HIDE DEF W
    <2> QED
      BY <1>1, <1>2, PutType
  <1>7. a.listSize = r.listSize + y.repeatCount
    <2>1. r.repeatSize \in Nat
      BY <1>2 DEF BuilderType
    <2> QED
      BY <1>1, <1>6, <2>1
  <1>8. Guids(t) = Append(Guids(s), pkt.guid) /\ s \in Seq(Entry) /\ t \in Seq(Entry)
    BY <1>3, SequenceGuidsAppend, SequencePacketsType
  <1> HIDE DEF z
  <1>9. Built(a, X, Append(V, z))
    BY <1>1, <1>2, <1>3, <1>6, BuiltOpen
  <1>10. OpenGuids(Append(V, z)) = Append(OpenGuids(Append(V, y)), pkt.guid)
    <2> DEFINE o == OpenGuids(V)
               g == Guids(s)
               h == pkt.guid
    <2>1. OpenGuids(Append(V, z)) = o \o Append(g, h) /\ OpenGuids(Append(V, y)) = o \o g
      BY <1>3, <1>8, OpenAppend
    <2>2. o \in Seq(Nat) /\ g \in Seq(Nat) /\ h \in Nat
      BY <1>4, <1>8, OpenType, GuidsType
    <2> HIDE DEF o, g, h
    <2>3. o \o Append(g, h) = Append(o \o g, h)
      BY <2>2, AppendCat
    <2> QED
      BY <2>1, <2>3 DEF h
  <1>11. /\ SentGuids(r.seqs) = SentGuids(W) \o Guids(Repeat(s, y.repeatCount))
         /\ Len(TransmitOrder(r.seqs)) = Len(TransmitOrder(W)) + y.repeatCount * Len(y.pkts)
         /\ SentGuids(a.seqs) = SentGuids(W) \o Guids(Repeat(t, z.repeatCount))
         /\ Len(TransmitOrder(a.seqs)) = Len(TransmitOrder(W)) + z.repeatCount * Len(z.pkts)
         /\ SentGuids(W) \in Seq(Nat) /\ TransmitOrder(W) \in Seq(Entry)
    <2> HIDE DEF W
    <2> QED
      BY <1>1, <1>3, <1>6, SentAppend
  <1>12. Len(TransmitOrder(a.seqs)) = Len(TransmitOrder(r.seqs)) + y.repeatCount
    <2> DEFINE n == Len(TransmitOrder(W))
               c == y.repeatCount
               k == Len(y.pkts)
    <2>1. n \in Nat /\ c \in Nat /\ k \in Nat
      BY <1>4, <1>11
    <2>2. Len(TransmitOrder(a.seqs)) = n + c * (k + 1) /\ Len(TransmitOrder(r.seqs)) = n + c * k
      BY <1>3, <1>5, <1>11
    <2> HIDE DEF n, c, k
    <2>3. n + c * (k + 1) = (n + c * k) + c
      BY <2>1
    <2> QED
      BY <2>2, <2>3 DEF c
  <1>13. r.repeatSize = 0 => SentGuids(a.seqs) = Append(SentGuids(r.seqs), pkt.guid)
    <2> SUFFICES ASSUME r.repeatSize = 0 PROVE SentGuids(a.seqs) = Append(SentGuids(r.seqs), pkt.guid)
      OBVIOUS
    <2> DEFINE o == SentGuids(W)
               g == Guids(s)
               h == pkt.guid
    <2>1. Repeat(s, 1) = s /\ Repeat(t, 1) = t
      BY <1>8, RepeatSingle
    <2>2. SentGuids(a.seqs) = o \o Append(g, h) /\ SentGuids(r.seqs) = o \o g
      BY <1>1, <1>3, <1>8, <1>11, <2>1
    <2>3. o \in Seq(Nat) /\ g \in Seq(Nat) /\ h \in Nat
      BY <1>4, <1>8, <1>11, GuidsType
    <2> HIDE DEF o, g, h
    <2>4. o \o Append(g, h) = Append(o \o g, h)
      BY <2>3, AppendCat
    <2> QED
      BY <2>2, <2>4 DEF h
  <1>14. AllSingle(a.seqs) => AllSingle(r.seqs)
    <2> HIDE DEF W
    <2>1. AllSingle(Append(W, z)) => AllSingle(W)
      BY <1>1, <1>3, AllSingleFront
    <2>2. AllSingle(Append(W, y)) <=> AllSingle(W) /\ y.repeatSize = 1
      BY <1>1, AllSingleFront
    <2> QED
      BY <1>1, <1>6, <2>1, <2>2
  <1>15. Append(V, z)[1].repeatCount = Append(V, y)[1].repeatCount
    <2>1. /\ \A m \in 1 .. Len(V) : Append(V, y)[m] = V[m]
          /\ Append(V, y)[Len(V) + 1] = y /\ Len(V) \in Nat
      BY Lists!AppendProperties
    <2>2. /\ \A m \in 1 .. Len(V) : Append(V, z)[m] = V[m]
          /\ Append(V, z)[Len(V) + 1] = z
      BY <1>3, Lists!AppendProperties
    <2>3. CASE Len(V) = 0
      BY <1>3, <2>1, <2>2, <2>3
    <2>4. CASE Len(V) # 0
      <3>1. 1 \in 1 .. Len(V)
        BY <2>1, <2>4
      <3> QED
        BY <2>1, <2>2, <3>1
    <2> QED
      BY <2>3, <2>4
  <1> QED
    BY <1>6, <1>7, <1>9, <1>10, <1>12, <1>13, <1>14, <1>15 DEF z

\* The first sequence of a closed set that takes several.
Headed(y, n) == [y EXCEPT !.usecDelay = 0, !.repeatSize = n]

\* It is a sequence, with the packets it had.
LEMMA HeadedType ==
    ASSUME NEW y \in SequenceType, NEW n \in Nat \ {0}
    PROVE  /\ Headed(y, n) \in SequenceType /\ Headed(y, n).pkts = y.pkts
           /\ Headed(y, n).repeatCount = y.repeatCount /\ Headed(y, n).repeatSize = n
           /\ Headed(y, n).usecDelay = 0
  <1>1. Headed(y, n) = [pkts |-> y.pkts, repeatCount |-> y.repeatCount, repeatSize |-> n,
                        usecDelay |-> 0]
    <2> DEFINE z == 0
               x == [y EXCEPT !.usecDelay = z]
    <2>1. Headed(y, n) = [x EXCEPT !.repeatSize = n]
      BY DEF Headed
    <2> HIDE DEF z
    <2>2. x = [pkts |-> y.pkts, repeatCount |-> y.repeatCount, repeatSize |-> y.repeatSize,
               usecDelay |-> z]
      BY DEF SequenceType
    <2> HIDE DEF x
    <2>3. [x EXCEPT !.repeatSize = n]
            = [pkts |-> y.pkts, repeatCount |-> y.repeatCount, repeatSize |-> n, usecDelay |-> z]
      BY <2>2
    <2> QED
      BY <2>1, <2>3 DEF z
  <1>2. y.pkts \in Seq(PacketType) /\ y.repeatCount \in Nat /\ 0 \in Int
    BY DEF SequenceType
  <1>3. Headed(y, n) \in SequenceType
    BY <1>1, <1>2 DEF SequenceType
  <1> QED
    BY <1>1, <1>3

\* The sequences of an announced set once it is closed.
ClosedOf(Y) ==
    IF Len(Y) = 1 THEN Y
    ELSE [m \in 1 .. Len(Y) |->
            IF m = 1 THEN Headed(Y[1], Len(Y))
            ELSE IF m = Len(Y) THEN Delayed(Y[m], Y[1].usecDelay) ELSE Y[m]]

\* It is a closed set, that sends what the open one did.
LEMMA ClosedOfSet ==
    ASSUME NEW Y, Singles(Y), Y # <<>>
    PROVE  /\ ClosedSet(ClosedOf(Y)) /\ Len(ClosedOf(Y)) = Len(Y)
           /\ ClosedOf(Y)[1].repeatCount = Y[1].repeatCount
           /\ OpenGuids(ClosedOf(Y)) = OpenGuids(Y)
           /\ Len(Y) # 1 => ClosedOf(Y)[1].repeatSize # 1
  <1> DEFINE Z == ClosedOf(Y)
             n == Len(Y)
             d == Y[1].usecDelay
  <1>1. Y \in Seq(SequenceType) /\ n \in Nat \ {0} /\ \A m \in 1 .. n : Y[m].repeatSize = 1
    BY Lists!EmptySeq DEF Singles
  <1>2. \A m \in 1 .. n : Y[m] \in SequenceType
    BY <1>1
  <1>3. CASE n = 1
    <2>1. Z = Y
      BY <1>3 DEF ClosedOf
    <2>2. ClosedSet(Y)
      BY <1>1, <1>3 DEF ClosedSet
    <2> QED
      BY <1>3, <2>1, <2>2
  <1>4. CASE n # 1
    <2>1. d \in Int /\ 1 \in 1 .. n
      <3>1. 1 \in 1 .. n
        BY <1>1
      <3>2. Y[1] \in SequenceType
        BY <1>2, <3>1
      <3> QED
        BY <3>1, <3>2 DEF SequenceType
    <2>2. Z = [m \in 1 .. n |-> IF m = 1 THEN Headed(Y[1], n)
                                ELSE IF m = n THEN Delayed(Y[m], d) ELSE Y[m]]
      BY <1>4 DEF ClosedOf
    <2> DEFINE p == Y[1]
               e == Y[n]
    <2>a. p \in SequenceType /\ e \in SequenceType /\ d \in Int /\ n \in Nat \ {0}
      BY <1>1, <1>2, <2>1
    <2> HIDE DEF d, n, Z, p, e
    <2>b. /\ Headed(p, n) \in SequenceType
          /\ Headed(p, n).pkts = p.pkts /\ Headed(p, n).repeatCount = p.repeatCount
          /\ Headed(p, n).repeatSize = n
      BY <2>a, HeadedType
    <2>c. /\ Delayed(e, d) \in SequenceType
          /\ Delayed(e, d).pkts = e.pkts /\ Delayed(e, d).repeatSize = e.repeatSize
      BY <2>a, DelayedType
    <2>3. Headed(Y[1], n) \in SequenceType /\ Delayed(Y[n], d) \in SequenceType
      BY <2>b, <2>c DEF p, e
    <2>4. /\ Headed(Y[1], n).pkts = Y[1].pkts /\ Headed(Y[1], n).repeatCount = Y[1].repeatCount
          /\ Headed(Y[1], n).repeatSize = n
          /\ Delayed(Y[n], d).pkts = Y[n].pkts /\ Delayed(Y[n], d).repeatSize = Y[n].repeatSize
      BY <2>b, <2>c DEF p, e
    <2>5. ASSUME NEW m \in 1 .. n
          PROVE  /\ Z[m] \in SequenceType /\ Z[m].pkts = Y[m].pkts
                 /\ m # 1 => Z[m].repeatSize = 1
      <3>1. CASE m = 1
        BY <3>1, <2>1, <2>2, <2>3, <2>4
      <3>2. CASE m # 1 /\ m = n
        <4>1. Z[m] = Delayed(Y[n], d)
          BY <3>2, <2>2
        <4> QED
          BY <3>2, <4>1, <1>1, <2>3, <2>4
      <3>3. CASE m # 1 /\ m # n
        <4>1. Z[m] = Y[m]
          BY <3>3, <2>2
        <4> QED
          BY <4>1, <1>1, <1>2
      <3> QED
        BY <3>1, <3>2, <3>3
    <2>6. Z = [m \in 1 .. n |-> Z[m]]
      BY <2>2
    <2>7. Z \in Seq(SequenceType) /\ Len(Z) = n
      BY <1>1, <2>5, <2>6
    <2>8. Z[1] = Headed(Y[1], n)
      BY <2>1, <2>2
    <2>9. ClosedSet(Z)
      <3>1. Z # <<>>
        BY <1>1, <2>7, Lists!EmptySeq
      <3>2. \A m \in 2 .. n : Z[m].repeatSize = 1
        BY <1>1, <2>5
      <3> QED
        BY <2>4, <2>7, <2>8, <3>1, <3>2 DEF ClosedSet
    <2>10. OpenGuids(Z) = OpenGuids(Y)
      BY <1>1, <2>5, <2>7, OpenSame DEF n
    <2>11. Z[1].repeatSize # 1
      BY <1>4, <2>4, <2>8
    <2>12. Z[1].repeatCount = Y[1].repeatCount
      BY <2>4, <2>8
    <2> QED
      BY <2>7, <2>9, <2>10, <2>11, <2>12 DEF Z, n
  <1> QED
    BY <1>3, <1>4

\* What ClosePacketSet() makes of the sequences.
LEMMA CloseSeqs ==
    ASSUME NEW b, NEW X, NEW Y, Built(b, X, Y), b.repeatSize # 0
    PROVE  ClosePacketSet(b).seqs = X \o ClosedOf(Y)
  <1> DEFINE s == b.seqs
             a == Len(X)
             n == Len(Y)
             Z == ClosedOf(Y)
             f == b.repeatStart + 1
             d == s[f].usecDelay
             l == Len(s) - b.repeatStart
             moved == [s EXCEPT ![b.cur].usecDelay = d, ![f].usecDelay = 0, ![f].repeatSize = l]
  <1>1. /\ b \in BuilderType /\ X \in Seq(SequenceType) /\ Y \in Seq(SequenceType)
        /\ s = X \o Y /\ Y # <<>> /\ b.cur = Len(s) /\ b.repeatStart = a
        /\ Singles(Y)
    BY DEF Built, Singles
  <1>2. /\ s \in Seq(SequenceType) /\ a \in Nat /\ n \in Nat \ {0} /\ Len(s) = a + n
        /\ \A q \in 1 .. a : s[q] = X[q]
        /\ \A m \in 1 .. n : s[a + m] = Y[m]
    BY <1>1, CatAt, Lists!EmptySeq
  <1>3. ClosePacketSet(b) = [b EXCEPT !.seqs = IF b.cur = f THEN b.seqs ELSE moved,
                                      !.repeatSize = 0, !.cur = 0]
    BY DEF ClosePacketSet
  <1>4. ClosePacketSet(b).seqs = IF b.cur = f THEN s ELSE moved
    <2> HIDE DEF moved, f
    <2> QED
      BY <1>1, <1>3 DEF BuilderType
  <1>5. f = a + 1 /\ b.cur = a + n /\ l = n
    BY <1>1, <1>2
  <1>6. CASE n = 1
    <2>1. Z = Y
      BY <1>6 DEF ClosedOf
    <2> QED
      BY <1>1, <1>4, <1>5, <1>6, <2>1
  <1>7. CASE n # 1
    <2>1. d = Y[1].usecDelay
      BY <1>2, <1>5
    <2>2. moved = [q \in DOMAIN s |-> IF q = f THEN Headed(s[q], l)
                                      ELSE IF q = b.cur THEN Delayed(s[q], d) ELSE s[q]]
      <3>1. b.cur # f
        BY <1>2, <1>5, <1>7
      <3> HIDE DEF s, f, d, l
      <3>2. DOMAIN moved = DOMAIN s
        OBVIOUS
      <3>3. ASSUME NEW q \in DOMAIN s
            PROVE  moved[q] = IF q = f THEN Headed(s[q], l)
                              ELSE IF q = b.cur THEN Delayed(s[q], d) ELSE s[q]
        BY <3>1 DEF Headed, Delayed
      <3> HIDE DEF moved
      <3>4. moved = [q \in DOMAIN s |-> moved[q]]
        BY <3>2 DEF moved
      <3> QED
        BY <3>3, <3>4
    <2>3. Z = [m \in 1 .. n |-> IF m = 1 THEN Headed(Y[1], n)
                                ELSE IF m = n THEN Delayed(Y[m], d) ELSE Y[m]]
      BY <1>7, <2>1 DEF ClosedOf
    <2>4. Z \in Seq(SequenceType) /\ Len(Z) = n
      BY <1>1, ClosedOfSet DEF ClosedSet
    <2> HIDE DEF Z, moved
    <2>5. /\ X \o Z \in Seq(SequenceType) /\ Len(X \o Z) = a + n
          /\ \A q \in 1 .. a : (X \o Z)[q] = X[q]
          /\ \A m \in 1 .. n : (X \o Z)[a + m] = Z[m]
      <3>1. /\ X \o Z \in Seq(SequenceType) /\ Len(X \o Z) = Len(X) + Len(Z)
            /\ \A q \in 1 .. Len(X) : (X \o Z)[q] = X[q]
            /\ \A m \in 1 .. Len(Z) : (X \o Z)[Len(X) + m] = Z[m]
        BY <1>1, <2>4, CatAt
      <3> QED
        BY <2>4, <3>1
    <2>6. DOMAIN s = 1 .. a + n
      BY <1>2
    <2> DEFINE C == X \o Z
    <2>7. DOMAIN C = 1 .. a + n /\ C = [q \in 1 .. a + n |-> C[q]]
      <3>1. C \in Seq(SequenceType) /\ Len(C) = a + n
        BY <2>5
      <3> HIDE DEF C, a, n
      <3> QED
        BY <3>1
    <2>8. b.cur = a + n /\ f = a + 1 /\ l = n
      BY <1>5
    <2> HIDE DEF C, s, d, f, l, a, n
    <2>9. ASSUME NEW q \in 1 .. a + n PROVE moved[q] = C[q]
      <3>1. CASE q \in 1 .. a
        <4>1. moved[q] = s[q]
          BY <1>2, <2>2, <2>6, <2>8, <3>1
        <4> QED
          BY <4>1, <1>2, <2>5, <3>1 DEF C
      <3>2. CASE q \notin 1 .. a
        <4>1. PICK m \in 1 .. n : q = a + m
          <5>1. q - a \in 1 .. n /\ q = a + (q - a)
            BY <1>2, <3>2
          <5> QED
            BY <5>1
        <4>2. C[q] = Z[m] /\ s[q] = Y[m]
          BY <4>1, <1>2, <2>5 DEF C
        <4>3. (q = f <=> m = 1) /\ (q = b.cur <=> m = n)
          BY <4>1, <1>2, <2>8
        <4>4. moved[q] = IF m = 1 THEN Headed(Y[m], n)
                         ELSE IF m = n THEN Delayed(Y[m], d) ELSE Y[m]
          BY <2>2, <2>6, <2>8, <4>2, <4>3
        <4> QED
          BY <2>3, <4>2, <4>4
      <3> QED
        BY <3>1, <3>2
    <2>10. moved = [q \in 1 .. a + n |-> moved[q]]
      BY <2>2, <2>6
    <2>11. moved = C
      BY <2>7, <2>9, <2>10
    <2>12. b.cur # f
      BY <1>2, <1>7, <2>8
    <2> QED
      BY <1>4, <2>11, <2>12 DEF C, Z
  <1> QED
    BY <1>6, <1>7

\* ClosePacketSet() leaves a builder.
LEMMA CloseType ==
    ASSUME NEW b \in BuilderType, NEW s \in Seq(SequenceType),
           NEW c, c = ClosePacketSet(b), c.seqs = s
    PROVE  /\ c \in BuilderType /\ c.cur = 0 /\ c.repeatSize = 0
           /\ c.packetCount = b.packetCount /\ c.listSize = b.listSize
           /\ c.returnTo = b.returnTo
  <1> DEFINE z == 0
             e == (IF b.cur = b.repeatStart + 1 THEN b.seqs
                   ELSE [b.seqs EXCEPT ![b.cur].usecDelay = b.seqs[b.repeatStart + 1].usecDelay,
                                       ![b.repeatStart + 1].usecDelay = 0,
                                       ![b.repeatStart + 1].repeatSize = Len(b.seqs) - b.repeatStart])
  <1>1. c = [b EXCEPT !.seqs = e, !.repeatSize = z, !.cur = z]
    BY DEF ClosePacketSet
  <1>2. z \in Nat
    OBVIOUS
  <1> HIDE DEF z, e
  <1>3. c = [seqs |-> e, cur |-> z, repeatStart |-> b.repeatStart, repeatSize |-> z,
             packetCount |-> b.packetCount, listSize |-> b.listSize,
             returnTo |-> b.returnTo, loopDelay |-> b.loopDelay]
    BY <1>1 DEF BuilderType
  <1>4. /\ b.repeatStart \in Int /\ b.packetCount \in Nat /\ b.listSize \in Nat
        /\ b.returnTo \in {-1, 0} /\ b.loopDelay \in Int
    BY DEF BuilderType
  <1>5. e \in Seq(SequenceType)
    BY <1>3
  <1>6. c \in BuilderType
    BY <1>2, <1>3, <1>4, <1>5 DEF BuilderType
  <1>7. /\ c.cur = z /\ c.repeatSize = z /\ c.packetCount = b.packetCount
        /\ c.listSize = b.listSize /\ c.returnTo = b.returnTo
    BY <1>3
  <1> QED
    BY <1>6, <1>7 DEF z

\* The last packet of an announced set closes it.
LEMMA CloseBuilt ==
    ASSUME NEW b, NEW X, NEW Y, Built(b, X, Y), b.repeatSize # 0,
           NEW c, c = ClosePacketSet(b)
    PROVE  /\ Built(c, c.seqs, <<>>) /\ c.repeatSize = 0
           /\ c.listSize = b.listSize /\ c.returnTo = b.returnTo
           /\ SentGuids(c.seqs) = SentGuids(X) \o Repeat(OpenGuids(Y), Y[1].repeatCount)
           /\ AllSingle(c.seqs) => c.seqs = b.seqs
  <1> DEFINE Z == ClosedOf(Y)
             s == X \o Z
  <1>1. /\ b \in BuilderType /\ X \in Seq(SequenceType) /\ Tiled(X) /\ Singles(Y)
        /\ b.seqs = X \o Y /\ Y # <<>> /\ Y \in Seq(SequenceType)
    BY DEF Built, Singles
  <1>2. c.seqs = s
    BY CloseSeqs
  <1>3. /\ ClosedSet(Z) /\ Len(Z) = Len(Y) /\ Z[1].repeatCount = Y[1].repeatCount
        /\ OpenGuids(Z) = OpenGuids(Y)
        /\ Len(Y) # 1 => Z[1].repeatSize # 1
    BY <1>1, ClosedOfSet
  <1>4. Len(Y) = 1 => Z = Y
    BY DEF ClosedOf
  <1> HIDE DEF Z
  <1>5. Z \in Seq(SequenceType) /\ Len(Z) \in Nat \ {0}
    BY <1>3, Lists!EmptySeq DEF ClosedSet
  <1>6. s \in Seq(SequenceType) /\ Tiled(s)
    BY <1>1, <1>3, <1>5, CatAt, TiledClosed
  <1>7. /\ c \in BuilderType /\ c.cur = 0 /\ c.repeatSize = 0
        /\ c.listSize = b.listSize /\ c.returnTo = b.returnTo
    <2> HIDE DEF s
    <2> QED
      BY <1>1, <1>2, <1>6, CloseType
  <1>8. Built(c, s, <<>>)
    <2> HIDE DEF s
    <2>1. s \o <<>> = s /\ Singles(<<>>)
      BY <1>6, Lists!ConcatEmptySeq, Lists!EmptySeq DEF Singles
    <2>2. Len(<<>>) = 0 /\ <<>> = <<>>
      OBVIOUS
    <2>3. Len(<<>>) <= 1 /\ \A m \in 1 .. Len(<<>>) : <<>>[m].repeatCount = 1
      BY <2>2
    <2> QED
      BY <1>2, <1>6, <1>7, <2>1, <2>3 DEF Built
  <1>9. SentGuids(s) = SentGuids(X) \o Repeat(OpenGuids(Y), Y[1].repeatCount)
    <2> DEFINE p == PacketsOf(Z, 1, Len(Z))
               n == Z[1].repeatCount
               o == TransmitOrder(X)
    <2>1. TransmitOrder(s) = o \o Repeat(p, n)
      BY <1>1, <1>3, OrderClosed
    <2>2. p \in Seq(Entry)
      BY <1>5, OpenType
    <2>3. n \in Nat
      <3>1. Z[1] \in SequenceType
        BY <1>5
      <3> QED
        BY <3>1 DEF SequenceType
    <2>4. o \in Seq(Entry)
      BY <1>1, TiledEnclosed, TransmitType
    <2> HIDE DEF p, n, o, s
    <2>5. Repeat(p, n) \in Seq(Entry)
      BY <2>2, <2>3, RepeatType
    <2>6. Guids(o \o Repeat(p, n)) = Guids(o) \o Guids(Repeat(p, n))
      BY <2>4, <2>5, GuidsCat
    <2>7. Guids(Repeat(p, n)) = Repeat(Guids(p), n)
      BY <2>2, <2>3, RepeatGuids
    <2>8. Guids(p) = OpenGuids(Y)
      <3>1. OpenGuids(Z) = Guids(p)
        BY DEF OpenGuids, p
      <3> QED
        BY <1>3, <3>1
    <2> QED
      BY <1>3, <2>1, <2>6, <2>7, <2>8 DEF SentGuids, n, o
  <1>10. AllSingle(s) => s = b.seqs
    <2> SUFFICES ASSUME AllSingle(s) PROVE s = b.seqs
      OBVIOUS
    <2>1. /\ Len(s) = Len(X) + Len(Z) /\ Len(X) \in Nat
          /\ \A m \in 1 .. Len(Z) : s[Len(X) + m] = Z[m]
      BY <1>1, <1>5, CatAt
    <2> HIDE DEF s
    <2>2. 1 \in 1 .. Len(Z) /\ Len(X) + 1 \in 1 .. Len(s)
      BY <1>5, <2>1
    <2>3. Z[1].repeatSize = 1
      BY <2>1, <2>2 DEF AllSingle
    <2> QED
      <3>1. Len(Y) = 1
        BY <1>3, <2>3
      <3>2. Z = Y
        BY <1>4, <3>1
      <3> QED
        BY <1>1, <3>2 DEF s
  <1> QED
    BY <1>2, <1>7, <1>8, <1>9, <1>10

\* A packet that is put into a list of such a size leaves one.
LEMMA PutSized ==
    ASSUME NEW b, NEW X, NEW Y, NEW r, NEW X1, NEW V1 \in Seq(SequenceType),
           NEW y1 \in SequenceType, NEW pkt \in PacketType, NEW a, CountedWithin(b, X, Y),
           Built(b, X, Y), Built(r, X1, Append(V1, y1)), y1 = Fresh \/ Append(V1, y1) = Y,
           r.repeatSize = b.repeatSize, r.listSize = b.listSize,
           Len(TransmitOrder(r.seqs)) = Len(TransmitOrder(b.seqs)),
           b.repeatSize # 0 => /\ X1 = X /\ OpenGuids(Append(V1, y1)) = OpenGuids(Y)
                               /\ Append(V1, y1)[1].repeatCount = Y[1].repeatCount,
           a.repeatSize = r.repeatSize, a.listSize = r.listSize + y1.repeatCount,
           Len(TransmitOrder(a.seqs)) = Len(TransmitOrder(r.seqs)) + y1.repeatCount,
           OpenGuids(Append(V1, WithPacket(y1, pkt)))
              = Append(OpenGuids(Append(V1, y1)), pkt.guid),
           Append(V1, WithPacket(y1, pkt))[1].repeatCount = Append(V1, y1)[1].repeatCount
    PROVE  CountedWithin(a, X1, Append(V1, WithPacket(y1, pkt)))
  <1> DEFINE z == WithPacket(y1, pkt)
             Y0 == Append(V1, y1)
             Y1 == Append(V1, z)
             m == Len(TransmitOrder(b.seqs))
             k == Len(TransmitOrder(X))
             o == Len(OpenGuids(Y))
             c == Y[1].repeatCount
  <1>1. m \in Nat /\ b.listSize \in Nat /\ b.repeatSize \in Nat /\ y1.repeatCount \in Nat
    <2>1. TransmitOrder(b.seqs) \in Seq(Entry)
      BY BuiltTiled, TiledEnclosed, TransmitType
    <2> QED
      BY <2>1 DEF Built, BuilderType, SequenceType
  <1>2. z \in SequenceType /\ z.repeatCount = y1.repeatCount
    BY WithPacketType
  <1> HIDE DEF z
  <1>3. /\ Y1[Len(Y1)] = z /\ Y0[Len(Y0)] = y1
        /\ Y1 \in Seq(SequenceType) /\ Y0 \in Seq(SequenceType)
    BY <1>2, Lists!AppendProperties
  <1>4. a.listSize <= Len(TransmitOrder(a.seqs))
    BY <1>1 DEF CountedWithin
  <1>5. ASSUME a.repeatSize # 0
        PROVE  /\ Y1[1].repeatCount \in Nat \ {0} /\ Y1[Len(Y1)].repeatCount <= Y1[1].repeatCount
               /\ Len(TransmitOrder(a.seqs)) <=
                     Len(TransmitOrder(X1)) + Y1[1].repeatCount * Len(OpenGuids(Y1))
    <2>1. c \in Nat \ {0} /\ Y[Len(Y)].repeatCount <= c /\ m <= k + c * o /\ X1 = X
      BY <1>5 DEF CountedWithin
    <2>2. Y1[1].repeatCount = c
      BY <1>5 DEF z
    <2>3. y1.repeatCount <= c
      <3>1. CASE y1 = Fresh
        BY <2>1, <3>1, FreshType
      <3>2. CASE Y0 = Y
        BY <1>3, <2>1, <3>2
      <3> QED
        BY <3>1, <3>2
    <2>4. k \in Nat
      <3>1. TransmitOrder(X) \in Seq(Entry)
        BY TiledEnclosed, TransmitType DEF Built
      <3> QED
        BY <3>1
    <2>5. Len(OpenGuids(Y1)) = o + 1 /\ o \in Nat
      <3>1. OpenGuids(Y0) \in Seq(Nat) /\ pkt.guid \in Nat /\ OpenGuids(Y0) = OpenGuids(Y)
        BY <1>3, <1>5, OpenType DEF PacketType
      <3>2. OpenGuids(Y1) = Append(OpenGuids(Y0), pkt.guid)
        BY DEF z
      <3> HIDE DEF Y0, Y1
      <3>3. Len(Append(OpenGuids(Y0), pkt.guid)) = Len(OpenGuids(Y0)) + 1
        BY <3>1, Lists!AppendProperties
      <3> QED
        BY <3>1, <3>2, <3>3
    <2>6. Len(TransmitOrder(a.seqs)) = m + y1.repeatCount
      OBVIOUS
    <2>7. Y1[Len(Y1)].repeatCount = y1.repeatCount
      BY <1>2, <1>3
    <2> HIDE DEF m, k, o, c, Y0, Y1
    <2>8. c * (o + 1) = c * o + c /\ c * o \in Nat
      BY <2>1, <2>5
    <2>9. m + y1.repeatCount <= k + c * (o + 1)
      BY <1>1, <2>1, <2>3, <2>4, <2>8
    <2> QED
      BY <2>1, <2>2, <2>3, <2>5, <2>6, <2>7, <2>9 DEF k
  <1> QED
    BY <1>4, <1>5 DEF CountedWithin, z

\* So does a set that is closed.
LEMMA CloseSized ==
    ASSUME NEW b, NEW X, NEW Y, Built(b, X, Y), b.repeatSize # 0, CountedWithin(b, X, Y), NEW c,
           Built(c, c.seqs, <<>>), c.repeatSize = 0, c.listSize = b.listSize,
           SentGuids(c.seqs) = SentGuids(X) \o Repeat(OpenGuids(Y), Y[1].repeatCount)
    PROVE  CountedWithin(c, c.seqs, <<>>)
  <1> DEFINE g == OpenGuids(Y)
             n == Y[1].repeatCount
             x == SentGuids(X)
  <1>1. TransmitOrder(c.seqs) \in Seq(Entry) /\ TransmitOrder(X) \in Seq(Entry)
        /\ TransmitOrder(b.seqs) \in Seq(Entry)
    <2>1. TransmitOrder(X) \in Seq(Entry)
      BY TiledEnclosed, TransmitType DEF Built
    <2> QED
      BY <2>1, BuiltTiled, TiledEnclosed, TransmitType
  <1>2. /\ SentGuids(c.seqs) \in Seq(Nat) /\ Len(SentGuids(c.seqs)) = Len(TransmitOrder(c.seqs))
        /\ x \in Seq(Nat) /\ Len(x) = Len(TransmitOrder(X))
    BY <1>1, GuidsType DEF SentGuids
  <1>3. g \in Seq(Nat) /\ n \in Nat
    BY OpenType DEF Built, Singles, CountedWithin
  <1>4. Repeat(g, n) \in Seq(Nat) /\ Len(Repeat(g, n)) = n * Len(g)
    BY <1>3, RepeatType
  <1>5. Len(x \o Repeat(g, n)) = Len(x) + Len(Repeat(g, n))
    <2> HIDE DEF x, g, n
    <2> QED
      BY <1>2, <1>4, Lists!ConcatProperties
  <1>6. Len(TransmitOrder(c.seqs)) = Len(TransmitOrder(X)) + n * Len(g)
    BY <1>2, <1>4, <1>5
  <1>7. /\ b.listSize <= Len(TransmitOrder(b.seqs)) /\ b.listSize \in Nat
        /\ Len(TransmitOrder(b.seqs)) <= Len(TransmitOrder(X)) + n * Len(g)
    BY DEF CountedWithin, Built, BuilderType
  <1>8. Len(TransmitOrder(b.seqs)) \in Nat /\ Len(TransmitOrder(c.seqs)) \in Nat
    BY <1>1
  <1> HIDE DEF g, n
  <1> QED
    BY <1>6, <1>7, <1>8 DEF CountedWithin

\* One packet is appended: to the sequences a set is open with, or to what is sent once;
\* and the last packet of a set closes it.
Appended(b, X, Y, pkt, c, X1, Y1) ==
    /\ Built(c, X1, Y1) /\ c.returnTo = b.returnTo
    /\ AllSingle(c.seqs) =>
          /\ AllSingle(b.seqs)
          /\ \E n \in Nat : /\ c.listSize = b.listSize + n
                            /\ Len(TransmitOrder(c.seqs)) = Len(TransmitOrder(b.seqs)) + n
    /\ CountedWithin(b, X, Y) => CountedWithin(c, X1, Y1)
    /\ b.repeatSize = 0 =>
          c.repeatSize = 0 /\ SentGuids(c.seqs) = Append(SentGuids(b.seqs), pkt.guid)
    /\ b.repeatSize # 0 /\ b.packetCount + 1 # b.repeatSize =>
          /\ c.repeatSize = b.repeatSize /\ c.packetCount = b.packetCount + 1
          /\ X1 = X /\ OpenGuids(Y1) = Append(OpenGuids(Y), pkt.guid)
          /\ Y1[1].repeatCount = Y[1].repeatCount
    /\ b.repeatSize # 0 /\ b.packetCount + 1 = b.repeatSize =>
          /\ c.repeatSize = 0
          /\ SentGuids(c.seqs) =
                SentGuids(X) \o Repeat(Append(OpenGuids(Y), pkt.guid), Y[1].repeatCount)

\* That is what AppendToPacketList() leaves.
LEMMA AppendBuilt ==
    ASSUME NEW b, NEW X, NEW Y, Built(b, X, Y), NEW pkt \in PacketType,
           NEW c, c = AppendToPacketList(b, pkt)
    PROVE  \E X1, Y1 : Appended(b, X, Y, pkt, c, X1, Y1)
  <1> DEFINE r == RoomForPacket(b, pkt)
             a == Put(r, pkt)
  <1>1. c = IF a.repeatSize > 0 /\ a.packetCount = a.repeatSize THEN ClosePacketSet(a) ELSE a
    BY DEF AppendToPacketList, Put
  <1>2. PICK X1 \in Seq(SequenceType), V1 \in Seq(SequenceType), y1 \in SequenceType :
             Roomy(b, X, Y, r, X1, V1, y1)
    BY RoomBuilt
  <1> DEFINE Y0 == Append(V1, y1)
             Y1 == Append(V1, WithPacket(y1, pkt))
  <1> HIDE DEF r
  <1>3. /\ Built(r, X1, Y0)
        /\ r.repeatSize = b.repeatSize /\ r.packetCount = b.packetCount
        /\ r.listSize = b.listSize /\ r.returnTo = b.returnTo
        /\ SentGuids(r.seqs) = SentGuids(b.seqs)
        /\ Len(TransmitOrder(r.seqs)) = Len(TransmitOrder(b.seqs))
        /\ AllSingle(r.seqs) => AllSingle(b.seqs)
        /\ b.repeatSize # 0 => /\ X1 = X /\ OpenGuids(Y0) = OpenGuids(Y)
                               /\ Y0[1].repeatCount = Y[1].repeatCount
        /\ y1 = Fresh \/ Y0 = Y
    BY <1>2 DEF Roomy
  <1>4. /\ Built(a, X1, Y1)
        /\ a.repeatSize = r.repeatSize /\ a.packetCount = r.packetCount + 1
        /\ a.returnTo = r.returnTo
        /\ a.listSize = r.listSize + y1.repeatCount
        /\ Len(TransmitOrder(a.seqs)) = Len(TransmitOrder(r.seqs)) + y1.repeatCount
        /\ OpenGuids(Y1) = Append(OpenGuids(Y0), pkt.guid)
        /\ r.repeatSize = 0 => SentGuids(a.seqs) = Append(SentGuids(r.seqs), pkt.guid)
        /\ AllSingle(a.seqs) => AllSingle(r.seqs)
        /\ Y1[1].repeatCount = Y0[1].repeatCount
    <2> HIDE DEF a
    <2> QED
      BY <1>3, PutBuilt DEF a
  <1>5. y1.repeatCount \in Nat /\ b.repeatSize \in Nat /\ b.packetCount \in Nat
    BY DEF SequenceType, Built, BuilderType
  <1>6. AllSingle(a.seqs) =>
          /\ AllSingle(b.seqs)
          /\ \E n \in Nat : /\ a.listSize = b.listSize + n
                            /\ Len(TransmitOrder(a.seqs)) = Len(TransmitOrder(b.seqs)) + n
    BY <1>3, <1>4, <1>5
  <1>9. CountedWithin(b, X, Y) => CountedWithin(a, X1, Y1)
    <2> HIDE DEF a
    <2> QED
      BY <1>3, <1>4, PutSized
  <1> HIDE DEF a, Y0, Y1
  <1>7. CASE b.repeatSize # 0 /\ b.packetCount + 1 = b.repeatSize
    <2>1. c = ClosePacketSet(a)
      BY <1>1, <1>3, <1>4, <1>5, <1>7
    <2>2. /\ Built(c, c.seqs, <<>>) /\ c.repeatSize = 0
          /\ c.listSize = a.listSize /\ c.returnTo = a.returnTo
          /\ SentGuids(c.seqs) = SentGuids(X1) \o Repeat(OpenGuids(Y1), Y1[1].repeatCount)
          /\ AllSingle(c.seqs) => c.seqs = a.seqs
      BY <1>3, <1>4, <1>7, <2>1, CloseBuilt
    <2>3. AllSingle(c.seqs) =>
            /\ AllSingle(b.seqs)
            /\ \E n \in Nat : /\ c.listSize = b.listSize + n
                              /\ Len(TransmitOrder(c.seqs)) = Len(TransmitOrder(b.seqs)) + n
      BY <1>6, <2>2
    <2>4. SentGuids(c.seqs) =
            SentGuids(X) \o Repeat(Append(OpenGuids(Y), pkt.guid), Y[1].repeatCount)
      BY <1>3, <1>4, <1>7, <2>2
    <2>5. CountedWithin(b, X, Y) => CountedWithin(c, c.seqs, <<>>)
      <3>1. CountedWithin(a, X1, Y1) => CountedWithin(c, c.seqs, <<>>)
        BY <1>3, <1>4, <1>7, <2>2, CloseSized
      <3> QED
        BY <1>9, <3>1
    <2>6. Appended(b, X, Y, pkt, c, c.seqs, <<>>)
      BY <1>3, <1>4, <1>7, <2>2, <2>3, <2>4, <2>5 DEF Appended
    <2> QED
      BY <2>6
  <1>8. CASE ~ (b.repeatSize # 0 /\ b.packetCount + 1 = b.repeatSize)
    <2>1. c = a
      BY <1>1, <1>3, <1>4, <1>5, <1>8
    <2>2. Appended(b, X, Y, pkt, c, X1, Y1)
      BY <1>3, <1>4, <1>6, <1>8, <1>9, <2>1 DEF Appended
    <2> QED
      BY <2>2
  <1> QED
    BY <1>7, <1>8

-----------------------------------------------------------------------------
(* What updateStreamStats() counts.                                         *)

\* Quotient and remainder.
LEMMA DividePositive ==
    ASSUME NEW a \in Nat, NEW d \in Nat \ {0}
    PROVE  /\ a \div d \in Nat /\ a % d \in 0 .. d - 1
           /\ a = d * (a \div d) + (a % d)
           /\ d <= a => a \div d \in Nat \ {0}
  <1> DEFINE q == a \div d
             r == a % d
  <1>1. q \in Int /\ r \in 0 .. d - 1 /\ a = d * q + r
    OBVIOUS
  <1> HIDE DEF q, r
  <1>2. q >= 0
    <2> SUFFICES ASSUME q <= -1 PROVE FALSE
      BY <1>1
    <2>1. d * q <= d * (-1)
      BY <1>1
    <2> QED
      BY <1>1, <2>1
  <1>3. d <= a => q # 0
    BY <1>1
  <1> QED
    BY <1>1, <1>2, <1>3 DEF q, r

\* Products of positive numbers.
LEMMA ProductPositive ==
    ASSUME NEW a \in Nat \ {0}, NEW b \in Nat \ {0}
    PROVE  a * b \in Nat /\ a <= a * b
  OBVIOUS

\* How many of the first k packets of s are of stream g.
Hits(s, g, k) == Cardinality({m \in 1 .. k : s[m] = g})

\* There is none among no packets.
LEMMA HitsNone ==
    ASSUME NEW s, NEW g
    PROVE  Hits(s, g, 0) = 0
  <1>1. {m \in 1 .. 0 : s[m] = g} = {}
    OBVIOUS
  <1> QED
    BY <1>1, FS_EmptySet DEF Hits

\* They are counted.
LEMMA HitsFinite ==
    ASSUME NEW s, NEW g, NEW k \in Nat
    PROVE  IsFiniteSet({m \in 1 .. k : s[m] = g}) /\ Hits(s, g, k) \in Nat
  <1> DEFINE A == {m \in 1 .. k : s[m] = g}
  <1>1. A \in SUBSET (1 .. k) /\ IsFiniteSet(1 .. k)
    BY FS_Interval
  <1>2. IsFiniteSet(A)
    BY <1>1, FS_Subset
  <1> QED
    BY <1>2, FS_CardinalityType DEF Hits

\* One packet more.
LEMMA HitsNext ==
    ASSUME NEW s, NEW g, NEW k \in Nat
    PROVE  Hits(s, g, k + 1) = Hits(s, g, k) + (IF s[k + 1] = g THEN 1 ELSE 0)
  <1> DEFINE A == {m \in 1 .. k : s[m] = g}
             B == {m \in 1 .. k + 1 : s[m] = g}
  <1>1. IsFiniteSet(A) /\ Cardinality(A) \in Nat
    BY HitsFinite DEF Hits
  <1>2. CASE s[k + 1] = g
    <2>1. B = A \cup {k + 1} /\ k + 1 \notin A
      BY <1>2
    <2>2. Cardinality(B) = Cardinality(A) + 1
      <3> HIDE DEF A, B
      <3> QED
        BY <1>1, <2>1, FS_AddElement
    <2> QED
      BY <1>2, <2>2 DEF Hits
  <1>3. CASE s[k + 1] # g
    <2>1. B = A
      BY <1>3
    <2>2. Cardinality(B) = Cardinality(A) + 0
      <3> HIDE DEF A, B
      <3> QED
        BY <1>1, <2>1
    <2> QED
      BY <1>3, <2>2 DEF Hits
  <1> QED
    BY <1>2, <1>3

\* What the sender's first t packets are: s, over and over.
Around(s, t) == [m \in 1 .. t |-> s[((m - 1) % Len(s)) + 1]]

\* One packet more is sent.
LEMMA AroundNext ==
    ASSUME NEW s, NEW g, NEW t \in Nat
    PROVE  /\ CountOf(g, Around(s, 0)) = 0
           /\ CountOf(g, Around(s, t + 1)) =
                CountOf(g, Around(s, t)) + (IF s[(t % Len(s)) + 1] = g THEN 1 ELSE 0)
  <1> DEFINE c == [m \in Nat |-> s[((m - 1) % Len(s)) + 1]]
  <1>1. ASSUME NEW k \in Nat PROVE CountOf(g, Around(s, k)) = Hits(c, g, k)
    <2>1. Len(Around(s, k)) = k
      BY DEF Around
    <2>2. \A m \in 1 .. k : Around(s, k)[m] = c[m]
      BY DEF Around
    <2>3. {m \in 1 .. Len(Around(s, k)) : Around(s, k)[m] = g} = {m \in 1 .. k : c[m] = g}
      <3> HIDE DEF c
      <3> QED
        BY <2>1, <2>2
    <2> QED
      BY <2>3 DEF CountOf, Hits
  <1>2. c[t + 1] = s[(t % Len(s)) + 1]
    <2>1. t + 1 \in Nat /\ t + 1 - 1 = t
      OBVIOUS
    <2> QED
      BY <2>1
  <1> HIDE DEF c
  <1>3. Hits(c, g, 0) = 0 /\ Hits(c, g, t + 1) = Hits(c, g, t) + (IF c[t + 1] = g THEN 1 ELSE 0)
    BY HitsNone, HitsNext
  <1>4. /\ CountOf(g, Around(s, 0)) = Hits(c, g, 0)
        /\ CountOf(g, Around(s, t)) = Hits(c, g, t)
        /\ CountOf(g, Around(s, t + 1)) = Hits(c, g, t + 1)
    <2>1. t + 1 \in Nat /\ 0 \in Nat
      OBVIOUS
    <2> QED
      BY <1>1, <2>1
  <1> QED
    BY <1>2, <1>3, <1>4

\* The next packet after t, in passes of l packets.
LEMMA DivideNext ==
    ASSUME NEW t \in Nat, NEW l \in Nat \ {0}
    PROVE  IF (t % l) + 1 = l
           THEN (t + 1) % l = 0 /\ (t + 1) \div l = (t \div l) + 1
           ELSE (t + 1) % l = (t % l) + 1 /\ (t + 1) \div l = t \div l
  <1> DEFINE q == t \div l
             r == t % l
  <1>1. q \in Nat /\ r \in 0 .. l - 1 /\ t = l * q + r
    BY DividePositive
  <1> HIDE DEF q, r
  <1>2. CASE r + 1 = l
    <2>1. t + 1 = (q + 1) * l + 0
      BY <1>1, <1>2
    <2>2. q + 1 \in Nat /\ 0 \in 0 .. l - 1
      BY <1>1
    <2>3. ((q + 1) * l + 0) % l = 0 /\ ((q + 1) * l + 0) \div l = q + 1
      BY <2>2, DivideMultiple
    <2> QED
      BY <1>2, <2>1, <2>3 DEF q, r
  <1>3. CASE r + 1 # l
    <2>1. t + 1 = q * l + (r + 1)
      BY <1>1
    <2>2. r + 1 \in 0 .. l - 1
      BY <1>1, <1>3
    <2>3. (q * l + (r + 1)) % l = r + 1 /\ (q * l + (r + 1)) \div l = q
      BY <1>1, <2>2, DivideMultiple
    <2> QED
      BY <1>3, <2>1, <2>3 DEF q, r
  <1> QED
    BY <1>2, <1>3

\* Whole passes and a part of one.
LEMMA AroundPasses ==
    ASSUME NEW s, Len(s) \in Nat \ {0}, NEW g, NEW t \in Nat
    PROVE  CountOf(g, Around(s, t)) =
              (t \div Len(s)) * Hits(s, g, Len(s)) + Hits(s, g, t % Len(s))
  <1> DEFINE l == Len(s)
             Told(n) == (n \div l) * Hits(s, g, l) + Hits(s, g, n % l)
             S == {n \in Nat : CountOf(g, Around(s, n)) = Told(n)}
  <1>1. l \in Nat \ {0} /\ Hits(s, g, l) \in Nat
    BY HitsFinite
  <1>2. 0 \in S
    <2>1. (0 * l + 0) % l = 0 /\ (0 * l + 0) \div l = 0 /\ 0 * l + 0 = 0
      <3>1. 0 \in 0 .. l - 1
        BY <1>1
      <3> HIDE DEF l
      <3>2. (0 * l + 0) % l = 0 /\ (0 * l + 0) \div l = 0
        BY <1>1, <3>1, DivideMultiple
      <3>3. 0 * l + 0 = 0
        BY <1>1
      <3> QED
        BY <3>2, <3>3
    <2>2. 0 % l = 0 /\ 0 \div l = 0
      BY <2>1
    <2>3. Told(0) = 0 * Hits(s, g, l) + 0
      BY <2>2, HitsNone
    <2>4. CountOf(g, Around(s, 0)) = 0
      BY AroundNext
    <2>5. 0 * Hits(s, g, l) + 0 = 0
      BY <1>1
    <2> QED
      BY <2>3, <2>4, <2>5
  <1>3. ASSUME NEW n \in S PROVE n + 1 \in S
    <2> DEFINE q == n \div l
               r == n % l
               h == Hits(s, g, l)
               e == IF s[r + 1] = g THEN 1 ELSE 0
    <2>1. n \in Nat /\ CountOf(g, Around(s, n)) = q * h + Hits(s, g, r)
      OBVIOUS
    <2>2. q \in Nat /\ r \in Nat /\ r \in 0 .. l - 1
      <3> HIDE DEF l
      <3>1. q \in Nat /\ r \in 0 .. l - 1
        BY <1>1, <2>1, DividePositive
      <3> HIDE DEF q, r
      <3> QED
        BY <1>1, <3>1
    <2>3. CountOf(g, Around(s, n + 1)) = CountOf(g, Around(s, n)) + e
      BY <2>1, AroundNext
    <2>4. Hits(s, g, r + 1) = Hits(s, g, r) + e /\ Hits(s, g, r) \in Nat
      BY <2>2, HitsNext, HitsFinite
    <2>5. e \in {0, 1} /\ h \in Nat
      BY <1>1
    <2>6. IF r + 1 = l THEN (n + 1) % l = 0 /\ (n + 1) \div l = q + 1
          ELSE (n + 1) % l = r + 1 /\ (n + 1) \div l = q
      BY <1>1, <2>1, DivideNext
    <2>7. Told(n + 1) = q * h + Hits(s, g, r) + e
      <3>1. CASE r + 1 = l
        <4>1. Told(n + 1) = (q + 1) * h + Hits(s, g, 0)
          BY <2>6, <3>1
        <4>2. Hits(s, g, 0) = 0 /\ h = Hits(s, g, r) + e
          BY <2>4, <3>1, HitsNone
        <4> HIDE DEF q, h, r, e, Told
        <4>3. (q + 1) * h = q * h + h /\ q * h \in Nat
          BY <2>2, <2>5
        <4> QED
          BY <2>4, <2>5, <4>1, <4>2, <4>3
      <3>2. CASE r + 1 # l
        <4>1. Told(n + 1) = q * h + Hits(s, g, r + 1)
          BY <2>6, <3>2
        <4> HIDE DEF q, h, r, e, Told
        <4>2. q * h \in Nat
          BY <2>2, <2>5
        <4> QED
          BY <2>4, <2>5, <4>1, <4>2
      <3> QED
        BY <3>1, <3>2
    <2>8. CountOf(g, Around(s, n + 1)) = Told(n + 1)
      BY <2>1, <2>3, <2>7
    <2>9. n + 1 \in Nat
      BY <2>1
    <2> QED
      BY <2>8, <2>9
  <1> HIDE DEF S
  <1>4. S \in SUBSET Nat /\ \A n \in S : n + 1 \in S
    BY <1>3 DEF S
  <1>5. S = Nat
    BY <1>2, <1>4, Induction
  <1> QED
    BY <1>5 DEF S

\* They are the same of the same packets.
LEMMA HitsSame ==
    ASSUME NEW s, NEW t, NEW g, NEW k \in Nat, \A m \in 1 .. k : s[m] = t[m]
    PROVE  Hits(s, g, k) = Hits(t, g, k)
  <1>1. {m \in 1 .. k : s[m] = g} = {m \in 1 .. k : t[m] = g}
    OBVIOUS
  <1> QED
    BY <1>1 DEF Hits

\* All packets of s.
LEMMA CountHits ==
    ASSUME NEW T, NEW s \in Seq(T), NEW g
    PROVE  CountOf(g, s) = Hits(s, g, Len(s)) /\ CountOf(g, s) \in Nat
  <1>1. Len(s) \in Nat
    OBVIOUS
  <1> QED
    BY <1>1, HitsFinite DEF CountOf, Hits

\* One packet more.
LEMMA CountAppend ==
    ASSUME NEW T, NEW s \in Seq(T), NEW g, NEW h \in T
    PROVE  CountOf(g, Append(s, h)) = CountOf(g, s) + (IF h = g THEN 1 ELSE 0)
  <1> DEFINE a == Append(s, h)
             k == Len(s)
  <1>1. /\ a \in Seq(T) /\ Len(a) = k + 1 /\ k \in Nat /\ a[k + 1] = h
        /\ \A m \in 1 .. k : a[m] = s[m]
    OBVIOUS
  <1> HIDE DEF a, k
  <1>2. CountOf(g, a) = Hits(a, g, k + 1) /\ CountOf(g, s) = Hits(s, g, k)
    BY <1>1, CountHits DEF k
  <1>3. Hits(a, g, k + 1) = Hits(a, g, k) + (IF a[k + 1] = g THEN 1 ELSE 0)
    BY <1>1, HitsNext
  <1>4. Hits(a, g, k) = Hits(s, g, k)
    BY <1>1, HitsSame
  <1> QED
    BY <1>1, <1>2, <1>3, <1>4 DEF a

\* There is none in no order.
LEMMA CountNone ==
    ASSUME NEW g
    PROVE  CountOf(g, <<>>) = 0
  <1>1. {m \in 1 .. 0 : <<>>[m] = g} = {} /\ Len(<<>>) = 0
    BY Lists!EmptySeq
  <1> QED
    BY <1>1, FS_EmptySet DEF CountOf

\* The first packet is taken off.
LEMMA CountTail ==
    ASSUME NEW T, NEW s \in Seq(T), s # <<>>, NEW g
    PROVE  CountOf(g, s) = CountOf(g, Tail(s)) + (IF Head(s) = g THEN 1 ELSE 0)
  <1> DEFINE t == Tail(s)
             e == IF s[1] = g THEN 1 ELSE 0
             S == {k \in Nat : k + 1 <= Len(s) => Hits(s, g, k + 1) = Hits(t, g, k) + e}
  <1>1. /\ t \in Seq(T) /\ Len(s) \in Nat \ {0} /\ Len(t) = Len(s) - 1 /\ Head(s) = s[1]
        /\ \A m \in 1 .. Len(t) : t[m] = s[m + 1]
    BY Lists!HeadTailProperties
  <1> HIDE DEF t
  <1>2. 0 \in S
    <2>1. Hits(s, g, 0 + 1) = Hits(s, g, 0) + (IF s[0 + 1] = g THEN 1 ELSE 0)
      BY HitsNext
    <2> QED
      BY <2>1, HitsNone
  <1>3. ASSUME NEW k \in S PROVE k + 1 \in S
    <2>1. k \in Nat /\ k + 1 \in Nat
      OBVIOUS
    <2> SUFFICES ASSUME k + 1 + 1 <= Len(s)
                 PROVE  Hits(s, g, k + 1 + 1) = Hits(t, g, k + 1) + e
      BY <2>1
    <2>2. Hits(s, g, k + 1) = Hits(t, g, k) + e
      BY <1>1, <2>1
    <2>3. Hits(s, g, k + 1 + 1) = Hits(s, g, k + 1) + (IF s[k + 1 + 1] = g THEN 1 ELSE 0)
      BY <2>1, HitsNext
    <2>4. Hits(t, g, k + 1) = Hits(t, g, k) + (IF t[k + 1] = g THEN 1 ELSE 0)
          /\ Hits(t, g, k) \in Nat
      BY <2>1, HitsNext, HitsFinite
    <2>5. t[k + 1] = s[k + 1 + 1]
      BY <1>1, <2>1
    <2>6. e \in Nat
      OBVIOUS
    <2> HIDE DEF e
    <2> QED
      BY <2>2, <2>3, <2>4, <2>5, <2>6
  <1>4. S = Nat
    <2>1. S \in SUBSET Nat /\ \A k \in S : k + 1 \in S
      BY <1>3
    <2> HIDE DEF S
    <2> QED
      BY <1>2, <2>1, Induction
  <1>5. Hits(s, g, Len(s)) = Hits(t, g, Len(t)) + e
    <2>1. Len(t) \in S /\ Len(t) + 1 = Len(s)
      BY <1>1, <1>4
    <2> QED
      BY <2>1
  <1>6. CountOf(g, s) = Hits(s, g, Len(s)) /\ CountOf(g, t) = Hits(t, g, Len(t))
    BY <1>1, CountHits
  <1> QED
    BY <1>1, <1>5, <1>6 DEF t

\* The next packet is the one whose turn it is.
LEMMA AroundAppend ==
    ASSUME NEW s, NEW n \in Nat
    PROVE  Around(s, n + 1) = Append(Around(s, n), s[(n % Len(s)) + 1])
  <1> DEFINE a == Around(s, n)
             b == Around(s, n + 1)
             e == s[(n % Len(s)) + 1]
  <1>1. Len(a) = n /\ a = [m \in 1 .. n |-> s[((m - 1) % Len(s)) + 1]]
    BY DEF Around
  <1>2. Append(a, e) = [m \in 1 .. n + 1 |-> IF m <= n THEN a[m] ELSE e]
    <2> HIDE DEF e
    <2> QED
      BY <1>1
  <1>3. \A m \in 1 .. n + 1 : b[m] = IF m <= n THEN a[m] ELSE e
    <2> SUFFICES ASSUME NEW m \in 1 .. n + 1 PROVE b[m] = IF m <= n THEN a[m] ELSE e
      OBVIOUS
    <2>1. b[m] = s[((m - 1) % Len(s)) + 1]
      BY DEF Around
    <2>2. CASE m <= n
      BY <1>1, <2>1, <2>2
    <2>3. CASE ~ (m <= n)
      <3>1. m - 1 = n
        BY <2>3
      <3> QED
        BY <2>1, <2>3, <3>1
    <2> QED
      BY <2>2, <2>3
  <1>4. b = [m \in 1 .. n + 1 |-> b[m]]
    BY DEF Around
  <1> HIDE DEF a, b, e
  <1>5. b = Append(a, e)
    BY <1>2, <1>3, <1>4
  <1> QED
    BY <1>5 DEF a, b, e

\* Two orders, one behind the other.
LEMMA CountCat ==
    ASSUME NEW T, NEW s \in Seq(T), NEW u \in Seq(T), NEW g
    PROVE  CountOf(g, s \o u) = CountOf(g, s) + CountOf(g, u)
  <1> DEFINE a == s \o u
             l == Len(s)
             S == {k \in Nat : k <= Len(u) => Hits(a, g, l + k) = Hits(s, g, l) + Hits(u, g, k)}
  <1>1. a \in Seq(T) /\ l \in Nat /\ Len(u) \in Nat /\ Len(a) = l + Len(u)
    BY Lists!ConcatProperties
  <1>2. \A m \in 1 .. l : a[m] = s[m]
    BY <1>1
  <1>3. \A m \in 1 .. Len(u) : a[l + m] = u[m]
    BY <1>1
  <1> HIDE DEF a, l
  <1>4. 0 \in S
    <2>1. Hits(a, g, l) = Hits(s, g, l)
      BY <1>1, <1>2, HitsSame
    <2>2. Hits(s, g, l) \in Nat
      BY <1>1, HitsFinite
    <2>3. Hits(u, g, 0) = 0
      BY HitsNone
    <2>4. l + 0 = l
      BY <1>1
    <2> QED
      BY <2>1, <2>2, <2>3, <2>4
  <1>5. ASSUME NEW k \in S PROVE k + 1 \in S
    <2>1. k \in Nat /\ k + 1 \in Nat /\ l + k \in Nat /\ l + (k + 1) = l + k + 1
      BY <1>1
    <2> SUFFICES ASSUME k + 1 <= Len(u)
                 PROVE  Hits(a, g, l + (k + 1)) = Hits(s, g, l) + Hits(u, g, k + 1)
      BY <2>1
    <2>2. Hits(a, g, l + k) = Hits(s, g, l) + Hits(u, g, k)
      BY <1>1, <2>1
    <2>3. Hits(a, g, l + k + 1) = Hits(a, g, l + k) + (IF a[l + k + 1] = g THEN 1 ELSE 0)
      BY <2>1, HitsNext
    <2>4. Hits(u, g, k + 1) = Hits(u, g, k) + (IF u[k + 1] = g THEN 1 ELSE 0)
      BY <2>1, HitsNext
    <2>5. a[l + k + 1] = u[k + 1]
      <3>1. a[l + (k + 1)] = u[k + 1]
        BY <1>1, <1>3, <2>1
      <3> QED
        BY <2>1, <3>1
    <2>6. Hits(s, g, l) \in Nat /\ Hits(u, g, k) \in Nat
      BY <1>1, <2>1, HitsFinite
    <2> QED
      BY <2>1, <2>2, <2>3, <2>4, <2>5, <2>6
  <1>6. S = Nat
    <2>1. S \in SUBSET Nat /\ \A k \in S : k + 1 \in S
      BY <1>5
    <2> HIDE DEF S
    <2> QED
      BY <1>4, <2>1, Induction
  <1>7. Hits(a, g, l + Len(u)) = Hits(s, g, l) + Hits(u, g, Len(u))
    <2>1. Len(u) \in S
      <3> HIDE DEF S
      <3> QED
        BY <1>1, <1>6
    <2>2. Len(u) <= Len(u)
      BY <1>1
    <2> QED
      BY <2>1, <2>2
  <1>8. /\ CountOf(g, a) = Hits(a, g, Len(a)) /\ CountOf(g, s) = Hits(s, g, l)
        /\ CountOf(g, u) = Hits(u, g, Len(u))
    BY <1>1, CountHits DEF l
  <1> QED
    BY <1>1, <1>7, <1>8 DEF a

\* A repeated order.
LEMMA CountRepeat ==
    ASSUME NEW T, NEW s \in Seq(T), NEW n \in Nat, NEW g
    PROVE  CountOf(g, Repeat(s, n)) = n * CountOf(g, s)
  <1> DEFINE l == Len(s)
  <1>1. l \in Nat /\ CountOf(g, s) = Hits(s, g, l) /\ Hits(s, g, l) \in Nat
    BY CountHits, HitsFinite
  <1>2. Repeat(s, n) = Around(s, n * l)
    BY DEF Repeat, Around
  <1>3. CASE l = 0
    <2>1. n * l = 0 /\ CountOf(g, s) = 0
      BY <1>1, <1>3, HitsNone
    <2>2. CountOf(g, Around(s, 0)) = 0
      BY AroundNext
    <2>3. n * 0 = 0
      OBVIOUS
    <2> QED
      BY <1>2, <2>1, <2>2, <2>3
  <1>4. CASE l # 0
    <2> DEFINE t == n * l + 0
    <2>1. n * l \in Nat /\ l \in Nat \ {0} /\ 0 \in 0 .. l - 1
      BY <1>1, <1>4
    <2>2. t % l = 0 /\ t \div l = n
      <3> HIDE DEF l
      <3> QED
        BY <2>1, DivideMultiple
    <2>3. t \in Nat /\ t = n * l
      BY <2>1
    <2> HIDE DEF t
    <2>4. CountOf(g, Around(s, t)) = (t \div l) * Hits(s, g, l) + Hits(s, g, t % l)
      BY <2>1, <2>3, AroundPasses
    <2>5. n * Hits(s, g, l) \in Nat
      <3> DEFINE h == Hits(s, g, l)
      <3>1. h \in Nat
        BY <1>1
      <3> HIDE DEF h
      <3> QED
        BY <3>1 DEF h
    <2> QED
      BY <1>1, <1>2, <2>2, <2>3, <2>4, <2>5, HitsNone
  <1> QED
    BY <1>3, <1>4

\* No more packets of a stream than packets, and no fewer of them among more packets.
LEMMA CountAround ==
    ASSUME NEW s, NEW g, NEW t \in Nat, NEW n \in Nat, t <= n
    PROVE  /\ CountOf(g, Around(s, t)) \in Nat /\ CountOf(g, Around(s, n)) \in Nat
           /\ CountOf(g, Around(s, t)) <= CountOf(g, Around(s, n))
           /\ CountOf(g, Around(s, n)) <= n
  <1> DEFINE e == [m \in Nat |-> s[((m - 1) % Len(s)) + 1]]
             A == {m \in 1 .. t : e[m] = g}
             B == {m \in 1 .. n : e[m] = g}
  <1>1. A \in SUBSET B /\ B \in SUBSET (1 .. n)
    OBVIOUS
  <1>2. \A m \in 1 .. t : Around(s, t)[m] = e[m]
    BY DEF Around
  <1>3. \A m \in 1 .. n : Around(s, n)[m] = e[m]
    BY DEF Around
  <1>4. Len(Around(s, t)) = t /\ Len(Around(s, n)) = n
    BY DEF Around
  <1> HIDE DEF e
  <1>5. CountOf(g, Around(s, t)) = Cardinality(A)
    <2>1. {m \in 1 .. Len(Around(s, t)) : Around(s, t)[m] = g} = A
      BY <1>2, <1>4
    <2> QED
      BY <2>1 DEF CountOf
  <1>6. CountOf(g, Around(s, n)) = Cardinality(B)
    <2>1. {m \in 1 .. Len(Around(s, n)) : Around(s, n)[m] = g} = B
      BY <1>3, <1>4
    <2> QED
      BY <2>1 DEF CountOf
  <1> HIDE DEF A, B
  <1>7. IsFiniteSet(1 .. n) /\ Cardinality(1 .. n) = n
    <2>1. Cardinality(1 .. n) = IF 1 <= n THEN n - 1 + 1 ELSE 0
      BY FS_Interval
    <2> QED
      BY <2>1, FS_Interval
  <1>8. IsFiniteSet(B) /\ Cardinality(B) <= Cardinality(1 .. n)
    BY <1>1, <1>7, FS_Subset
  <1>9. IsFiniteSet(A) /\ Cardinality(A) <= Cardinality(B)
    BY <1>1, <1>8, FS_Subset
  <1>10. Cardinality(A) \in Nat /\ Cardinality(B) \in Nat
    BY <1>8, <1>9, FS_CardinalityType
  <1> QED
    BY <1>5, <1>6, <1>7, <1>8, <1>9, <1>10

\* One step of PassesFrom, of a function f that knows what comes behind.
PassStep(seqs, c, g, f, i) ==
    IF i > Len(seqs) THEN 0
    ELSE AsInt(c * seqs[i].repeatCount) * CountOf(g, Guids(SetPackets(seqs, i)))
            + f[i + seqs[i].repeatSize]

\* Built from the back, the function PassesFrom takes its value from exists.
LEMMA PassesExists ==
    ASSUME NEW seqs, Enclosed(seqs), NEW c, NEW g
    PROVE  \E f : f = [i \in 1 .. Len(seqs) + 1 |-> PassStep(seqs, c, g, f, i)]
  <1> DEFINE L == Len(seqs)
             Up(n) == \E f : f = [i \in L + 1 - n .. L + 1 |-> PassStep(seqs, c, g, f, i)]
             S == {n \in Nat : n <= L => Up(n)}
  <1>1. L \in Nat
    BY DEF Enclosed
  <1>2. 0 \in S
    <2>1. Up(0)
      <3> DEFINE f == [i \in L + 1 - 0 .. L + 1 |-> 0]
      <3>1. f = [i \in L + 1 - 0 .. L + 1 |-> PassStep(seqs, c, g, f, i)]
        <4>1. ASSUME NEW i \in L + 1 - 0 .. L + 1 PROVE PassStep(seqs, c, g, f, i) = 0
          BY <1>1 DEF PassStep
        <4> QED
          BY <4>1
      <3> HIDE DEF f
      <3> QED
        BY <3>1
    <2> HIDE DEF Up
    <2> QED
      BY <2>1
  <1>3. ASSUME NEW n \in S PROVE n + 1 \in S
    <2> SUFFICES ASSUME n + 1 <= L PROVE Up(n + 1)
      <3> HIDE DEF Up
      <3> QED
        OBVIOUS
    <2>1. n \in Nat /\ Up(n)
      <3> HIDE DEF Up
      <3> QED
        BY <1>1
    <2>2. PICK f : f = [i \in L + 1 - n .. L + 1 |-> PassStep(seqs, c, g, f, i)]
      BY <2>1
    <2> DEFINE first == L + 1 - (n + 1)
               F == [i \in first .. L + 1 |-> IF i = first THEN PassStep(seqs, c, g, f, i) ELSE f[i]]
    <2>3. first \in 1 .. L /\ first + 1 = L + 1 - n
      BY <1>1, <2>1
    <2>4. ASSUME NEW i \in first .. L + 1 PROVE F[i] = PassStep(seqs, c, g, f, i)
      <3>1. CASE i = first
        BY <3>1
      <3>2. CASE i # first
        <4>1. i \in L + 1 - n .. L + 1
          BY <1>1, <2>3, <3>2
        <4>2. f[i] = PassStep(seqs, c, g, f, i)
          BY <2>2, <4>1
        <4> QED
          BY <3>2, <4>2
      <3> QED
        BY <3>1, <3>2
    <2>5. ASSUME NEW i \in first .. L + 1
          PROVE  PassStep(seqs, c, g, F, i) = PassStep(seqs, c, g, f, i)
      <3>1. CASE i > L
        BY <3>1 DEF PassStep
      <3>2. CASE ~ (i > L)
        <4>1. i \in 1 .. Len(seqs)
          BY <1>1, <2>3, <3>2
        <4> DEFINE next == i + seqs[i].repeatSize
        <4>2. next \in i + 1 .. L + 1
          BY <4>1, SequenceAt
        <4>3. next \in first .. L + 1 /\ next # first
          BY <4>2, <1>1, <2>3
        <4>4. F[next] = f[next]
          <5> HIDE DEF next
          <5> QED
            BY <4>3
        <4> HIDE DEF F
        <4> QED
          BY <3>2, <4>4 DEF PassStep
      <3> QED
        BY <3>1, <3>2
    <2>6. F = [i \in first .. L + 1 |-> PassStep(seqs, c, g, F, i)]
      <3>1. F = [i \in first .. L + 1 |-> F[i]]
        OBVIOUS
      <3> HIDE DEF F
      <3> QED
        BY <2>4, <2>5, <3>1
    <2> HIDE DEF F
    <2> QED
      BY <2>6
  <1>4. S = Nat
    <2>1. S \in SUBSET Nat
      OBVIOUS
    <2> HIDE DEF S
    <2> QED
      BY <1>2, <1>3, <2>1, Induction
  <1>5. Up(L)
    <2> HIDE DEF Up
    <2> QED
      BY <1>1, <1>4
  <1>6. L + 1 - L = 1
    BY <1>1
  <1> QED
    BY <1>5, <1>6

\* The passes from a sequence on: those of its set and those from the next set on.
LEMMA PassesStep ==
    ASSUME NEW seqs, Enclosed(seqs), NEW c, NEW g
    PROVE  /\ PassesFrom(seqs, c, g)[Len(seqs) + 1] = 0
           /\ \A i \in 1 .. Len(seqs) :
                 PassesFrom(seqs, c, g)[i] =
                    AsInt(c * seqs[i].repeatCount) * CountOf(g, Guids(SetPackets(seqs, i)))
                      + PassesFrom(seqs, c, g)[i + seqs[i].repeatSize]
  <1> DEFINE t == CHOOSE f : f = [i \in 1 .. Len(seqs) + 1 |-> PassStep(seqs, c, g, f, i)]
  <1>1. Len(seqs) \in Nat
    BY DEF Enclosed
  <1>2. t = [i \in 1 .. Len(seqs) + 1 |-> PassStep(seqs, c, g, t, i)]
    BY PassesExists
  <1>3. PassesFrom(seqs, c, g) = t
    BY DEF PassesFrom, PassStep
  <1> HIDE DEF t
  <1>4. ASSUME NEW i \in 1 .. Len(seqs) + 1 PROVE t[i] = PassStep(seqs, c, g, t, i)
    BY <1>2
  <1>5. t[Len(seqs) + 1] = 0
    <2>1. Len(seqs) + 1 \in 1 .. Len(seqs) + 1 /\ Len(seqs) + 1 > Len(seqs)
      BY <1>1
    <2> QED
      BY <2>1, <1>4 DEF PassStep
  <1>6. ASSUME NEW i \in 1 .. Len(seqs)
        PROVE  t[i] = AsInt(c * seqs[i].repeatCount) * CountOf(g, Guids(SetPackets(seqs, i)))
                         + t[i + seqs[i].repeatSize]
    <2>1. i \in 1 .. Len(seqs) + 1 /\ ~ (i > Len(seqs))
      BY <1>1
    <2>2. t[i] = PassStep(seqs, c, g, t, i)
      BY <2>1, <1>4
    <2> QED
      BY <2>1, <2>2 DEF PassStep
  <1> QED
    BY <1>3, <1>5, <1>6

\* Complete passes are told as often as they are sent, if that fits an int.
LEMMA PassesTold ==
    ASSUME NEW seqs, Enclosed(seqs), NEW c \in Nat, NEW g,
           \A q \in 1 .. Len(seqs) : c * seqs[q].repeatCount <= MaxInt
    PROVE  PassesPkts(seqs, c, g) = c * CountOf(g, Guids(TransmitOrder(seqs)))
  <1> DEFINE L == Len(seqs)
             t == TransmitFrom(seqs)
             f == PassesFrom(seqs, c, g)
             Good(n) == \A i \in L + 1 - n .. L + 1 :
                           i \in 1 .. L + 1 => f[i] = c * CountOf(g, Guids(t[i]))
             S == {n \in Nat : Good(n)}
  <1>1. L \in Nat
    BY DEF Enclosed
  <1>2. 0 \in S
    <2>1. ASSUME NEW i \in L + 1 - 0 .. L + 1 PROVE f[i] = c * CountOf(g, Guids(t[i]))
      <3>1. i = Len(seqs) + 1
        BY <1>1
      <3>2. f[Len(seqs) + 1] = 0 /\ t[Len(seqs) + 1] = <<>>
        BY TransmitStep, PassesStep
      <3>3. Guids(<<>>) = <<>> /\ CountOf(g, <<>>) = 0 /\ c * 0 = 0
        <4>1. <<>> \in Seq(Entry) /\ Len(<<>>) = 0
          BY Lists!EmptySeq
        <4>2. Guids(<<>>) \in Seq(Nat) /\ Len(Guids(<<>>)) = 0
          BY <4>1, GuidsType
        <4> QED
          BY <4>2, CountNone, Lists!EmptySeq
      <3> HIDE DEF t, f
      <3> QED
        BY <3>1, <3>2, <3>3
    <2> QED
      BY <2>1
  <1>3. ASSUME NEW n \in S PROVE n + 1 \in S
    <2> SUFFICES ASSUME NEW i \in L + 1 - (n + 1) .. L + 1, i \in 1 .. L + 1
                 PROVE  f[i] = c * CountOf(g, Guids(t[i]))
      OBVIOUS
    <2>1. CASE i \in L + 1 - n .. L + 1
      BY <2>1
    <2>2. CASE i \notin L + 1 - n .. L + 1
      <3>1. n \in Nat /\ i \in 1 .. Len(seqs) /\ i = L - n
        BY <1>1, <2>2
      <3> DEFINE next == i + seqs[i].repeatSize
                 k == seqs[i].repeatCount
                 ps == SetPackets(seqs, i)
                 x == CountOf(g, Guids(ps))
                 y == CountOf(g, Guids(t[next]))
      <3>2. next \in i + 1 .. L + 1 /\ k \in Nat /\ ps \in Seq(Entry) /\ Repeat(ps, k) \in Seq(Entry)
        BY <3>1, SequenceAt
      <3>3. t[i] = Repeat(ps, k) \o t[next] /\ f[i] = AsInt(c * k) * x + f[next]
        <4>1. t[i] = Repeat(ps, k) \o t[next]
          BY <3>1, TransmitStep
        <4>2. f[i] = AsInt(c * k) * x + f[next]
          BY <3>1, PassesStep
        <4> QED
          BY <4>1, <4>2
      <3>4. next \in L + 1 - n .. L + 1 /\ next \in 1 .. L + 1
        BY <3>1, <3>2, <1>1
      <3>5. f[next] = c * y
        <4> HIDE DEF next, t, f
        <4> QED
          BY <3>4
      <3>6. t[next] \in Seq(Entry)
        BY <3>4, TransmitType
      <3>7. AsInt(c * k) = c * k
        <4>1. c * k \in 0 .. MaxInt
          <5>1. c * k <= MaxInt
            BY <3>1
          <5> HIDE DEF k
          <5>2. c * k \in Nat
            BY <3>2
          <5> QED
            BY <5>1, <5>2, WidthAssumption
        <4> QED
          BY <4>1, AsIntSame
      <3>8. CountOf(g, Guids(t[i])) = k * x + y
        <4> DEFINE a == Repeat(ps, k)
                   b == t[next]
        <4>1. a \in Seq(Entry) /\ b \in Seq(Entry) /\ t[i] = a \o b
          BY <3>2, <3>3, <3>6
        <4>2. Guids(ps) \in Seq(Nat) /\ Guids(a) = Repeat(Guids(ps), k)
          BY <3>2, GuidsType, RepeatGuids
        <4>3. CountOf(g, Guids(a)) = k * x
          <5> HIDE DEF a, k
          <5> QED
            BY <3>2, <4>2, CountRepeat
        <4> HIDE DEF a, b, t
        <4>4. Guids(a) \in Seq(Nat) /\ Guids(b) \in Seq(Nat) /\ Guids(a \o b) = Guids(a) \o Guids(b)
          BY <4>1, GuidsType, GuidsCat
        <4>5. CountOf(g, Guids(a) \o Guids(b)) = CountOf(g, Guids(a)) + CountOf(g, Guids(b))
          BY <4>4, CountCat
        <4> QED
          BY <4>1, <4>3, <4>4, <4>5 DEF b
      <3>9. x \in Nat /\ y \in Nat
        <4>1. Guids(ps) \in Seq(Nat)
          BY <3>2, GuidsType
        <4>2. Guids(t[next]) \in Seq(Nat)
          BY <3>6, GuidsType
        <4> QED
          BY <4>1, <4>2, CountHits
      <3> HIDE DEF next, k, ps, x, y, t, f
      <3>10. (c * k) * x + c * y = c * (k * x + y)
        BY <3>2, <3>9
      <3> QED
        BY <3>3, <3>5, <3>7, <3>8, <3>10
    <2> QED
      BY <2>1, <2>2
  <1>4. S = Nat
    <2>1. S \in SUBSET Nat
      OBVIOUS
    <2> HIDE DEF S
    <2> QED
      BY <1>2, <1>3, <2>1, Induction
  <1>5. Good(L)
    <2> HIDE DEF Good
    <2> QED
      BY <1>1, <1>4
  <1>6. 1 \in L + 1 - L .. L + 1 /\ 1 \in 1 .. L + 1
    BY <1>1
  <1>7. f[1] = c * CountOf(g, Guids(t[1]))
    <2> HIDE DEF t, f
    <2> QED
      BY <1>5, <1>6
  <1> QED
    BY <1>7 DEF PassesPkts, TransmitOrder

\* Part of a pass.
LEMMA PartialTold ==
    ASSUME NEW seqs, TransmitOrder(seqs) \in Seq(Entry), NEW g,
           NEW d \in 0 .. Len(TransmitOrder(seqs)) - 1
    PROVE  PartialPkts(seqs, d, g) = Hits(Guids(TransmitOrder(seqs)), g, d)
  <1> DEFINE s == Guids(TransmitOrder(seqs))
             u == SubSeq(s, 1, d)
  <1>1. Len(s) = Len(TransmitOrder(seqs)) /\ s \in Seq(Nat) /\ Len(s) \in Nat
    BY GuidsType
  <1>2. d \in 0 .. Len(s) - 1
    BY <1>1
  <1>3. PartialPkts(seqs, d, g) = CountOf(g, u)
    BY <1>2 DEF PartialPkts
  <1> HIDE DEF s
  <1>4. Len(u) = d /\ \A m \in 1 .. d : u[m] = s[m]
    BY <1>1, <1>2
  <1> HIDE DEF u
  <1>5. {m \in 1 .. Len(u) : u[m] = g} = {m \in 1 .. d : s[m] = g}
    BY <1>4
  <1>6. CountOf(g, u) = Hits(s, g, d)
    BY <1>5 DEF CountOf, Hits
  <1> QED
    BY <1>3, <1>6 DEF s

\* What updateStreamStats() tells of t packets: what passes of all packets of the list are,
\* as many as the list's size goes into t, and what the remainder is.
LEMMA StatsTold ==
    ASSUME NEW seqs, Enclosed(seqs), NEW size \in Nat, NEW t \in Nat, NEW g,
           CountsFit(seqs, size, t), size <= Len(TransmitOrder(seqs))
    PROVE  StreamTxPkts(seqs, size, t, g)
              = CountOf(g, Around(Guids(TransmitOrder(seqs)),
                                  (t \div size) * Len(TransmitOrder(seqs)) + (t % size)))
  <1> DEFINE s == Guids(TransmitOrder(seqs))
             l == Len(TransmitOrder(seqs))
             c == t \div size
             d == t % size
             n == c * l + d
             told == c * Hits(s, g, l) + Hits(s, g, d)
  <1>1. TransmitOrder(seqs) \in Seq(Entry) /\ size \in Nat \ {0}
    BY TransmitType DEF CountsFit
  <1>2. l \in Nat \ {0} /\ Len(s) = l /\ s \in Seq(Nat) /\ size <= l
    BY <1>1, GuidsType
  <1>3. c \in Nat /\ d \in 0 .. size - 1
    BY <1>1, DividePositive
  <1>4. /\ c <= MaxInt /\ d <= MaxInt /\ n <= MaxCounter
        /\ \A q \in 1 .. Len(seqs) : c * seqs[q].repeatCount <= MaxInt
    BY DEF CountsFit
  <1> HIDE DEF c, d
  <1>5. c \in 0 .. MaxInt /\ d \in 0 .. MaxInt /\ d \in 0 .. l - 1
    <2> HIDE DEF l
    <2> QED
      BY <1>1, <1>2, <1>3, <1>4, WidthAssumption
  <1>6. AsInt(c) = c /\ AsInt(d) = d
    BY <1>5, AsIntSame
  <1>7. PassesPkts(seqs, c, g) = c * CountOf(g, s)
    BY <1>3, <1>4, PassesTold
  <1>8. CountOf(g, s) = Hits(s, g, l)
    BY <1>2, CountHits
  <1>9. PartialPkts(seqs, d, g) = Hits(s, g, d)
    BY <1>1, <1>5, PartialTold
  <1>10. StreamTxPkts(seqs, size, t, g) = AsCounter(told)
    <2>1. StreamTxPkts(seqs, size, t, g)
            = AsCounter(PassesPkts(seqs, AsInt(c), g) + PartialPkts(seqs, AsInt(d), g))
      BY <1>1 DEF StreamTxPkts, c, d
    <2> HIDE DEF s, l
    <2> QED
      BY <2>1, <1>6, <1>7, <1>8, <1>9
  <1> HIDE DEF s, l
  <1>11. CountOf(g, Around(s, n)) = told
    <2>1. n % l = d /\ n \div l = c
      BY <1>2, <1>3, <1>5, DivideMultiple
    <2>2. n \in Nat
      BY <1>2, <1>3
    <2> HIDE DEF n
    <2>3. CountOf(g, Around(s, n)) = (n \div l) * Hits(s, g, l) + Hits(s, g, n % l)
      BY <1>2, <2>2, AroundPasses
    <2> QED
      BY <2>1, <2>3
  <1>12. AsCounter(told) = told
    <2>1. n \in Nat
      BY <1>2, <1>3
    <2> HIDE DEF n, told
    <2>2. told \in Nat /\ told <= n
      BY <1>11, <2>1, CountAround
    <2>3. told \in 0 .. MaxCounter
      BY <1>4, <2>1, <2>2, WidthAssumption
    <2>4. (0 * (MaxCounter + 1) + told) % (MaxCounter + 1) = told
      BY <2>3, WidthAssumption, DivideMultiple
    <2>5. 0 * (MaxCounter + 1) + told = told
      BY <2>2, WidthAssumption
    <2> QED
      BY <2>4, <2>5 DEF AsCounter
  <1> QED
    BY <1>10, <1>11, <1>12 DEF s, l, c, d

\* It is what was sent if the list's size is what one pass sends, or before that many
\* packets are sent, and never less.
LEMMA StatsNoFewer ==
    ASSUME NEW seqs, Enclosed(seqs), NEW size \in Nat, NEW t \in Nat, NEW g,
           CountsFit(seqs, size, t), size <= Len(TransmitOrder(seqs)),
           NEW told, told = StreamTxPkts(seqs, size, t, g),
           NEW sent, sent = CountOf(g, Around(Guids(TransmitOrder(seqs)), t))
    PROVE  /\ sent <= told /\ sent \in Nat /\ told \in Nat
           /\ size = Len(TransmitOrder(seqs)) \/ t < size => told = sent
  <1> DEFINE s == Guids(TransmitOrder(seqs))
             l == Len(TransmitOrder(seqs))
             c == t \div size
             d == t % size
             n == c * l + d
  <1>1. size \in Nat \ {0} /\ l \in Nat /\ size <= l
    BY TransmitType DEF CountsFit
  <1>2. c \in Nat /\ d \in Nat /\ d \in 0 .. size - 1 /\ t = size * c + d
    <2>1. c \in Nat /\ d \in 0 .. size - 1 /\ t = size * c + d
      BY <1>1, DividePositive
    <2> HIDE DEF c, d
    <2> QED
      BY <1>1, <2>1
  <1>3. told = CountOf(g, Around(s, n))
    BY StatsTold
  <1> HIDE DEF c, d, l, s
  <1>4. n \in Nat /\ t <= n
    <2>1. size * c <= c * l /\ c * l \in Nat /\ size * c \in Nat
      BY <1>1, <1>2
    <2> QED
      BY <1>2, <2>1
  <1>5. size = l => n = t
    BY <1>1, <1>2
  <1>6. t < size => n = t
    <2> SUFFICES ASSUME t < size PROVE n = t
      OBVIOUS
    <2>1. c = 0
      <3> SUFFICES ASSUME c # 0 PROVE FALSE
        OBVIOUS
      <3>1. size <= size * c
        BY <1>1, <1>2, ProductPositive
      <3> QED
        BY <1>1, <1>2, <3>1
    <2>2. 0 * l = 0 /\ size * 0 = 0
      BY <1>1
    <2> QED
      BY <1>2, <2>1, <2>2
  <1> HIDE DEF n
  <1>7. /\ CountOf(g, Around(s, t)) <= CountOf(g, Around(s, n))
        /\ CountOf(g, Around(s, t)) \in Nat /\ CountOf(g, Around(s, n)) \in Nat
    BY <1>4, CountAround
  <1>8. sent = CountOf(g, Around(s, t))
    BY DEF s
  <1> QED
    BY <1>3, <1>5, <1>6, <1>7, <1>8 DEF l

=============================================================================
