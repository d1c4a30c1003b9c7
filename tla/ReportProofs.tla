---------------------------- MODULE ReportProofs ----------------------------
(***************************************************************************)
(* Theorems about Samples and Report.                                      *)
(***************************************************************************)
EXTENDS Samples, Report, FiniteSetTheorems, SequenceTheorems, WellFoundedInduction, TLAPS

-----------------------------------------------------------------------------
(* Induction up to a number, and loops written as recursive functions.      *)

\* What holds of 0 and of n if of n - 1 holds up to N.
LEMMA Upto ==
    ASSUME NEW N \in Nat, NEW S, 0 \in S, \A n \in 1..N : n - 1 \in S => n \in S
    PROVE  0..N \subseteq S
<1> DEFINE Less == OpToRel(<, Nat)
           Bad == {n \in 0..N : n \notin S}
<1> SUFFICES ASSUME Bad # {} PROVE FALSE
  OBVIOUS
<1>1. IsWellFoundedOn(Less, Nat)
  BY NatLessThanWellFounded
<1>2. Bad \in SUBSET Nat
  OBVIOUS
<1>3. PICK m \in Bad : \A y \in Bad : ~ (<<y, m>> \in Less)
  BY <1>1, <1>2, WFMin
<1>4. m \in 0..N /\ m \notin S /\ m # 0
  BY <1>3
<1>5. m \in 1..N /\ m - 1 \in Nat /\ m - 1 \in 0..N /\ m - 1 < m
  BY <1>4
<1>6. <<m - 1, m>> \in Less
  BY <1>4, <1>5 DEF OpToRel
<1>7. m - 1 \in S
  BY <1>3, <1>5, <1>6
<1> QED
  BY <1>4, <1>5, <1>7

\* turn[n] is the n-th turn of a loop over an accumulator in A, and f what it comes to.
Closed(turn, N, A) == \A n \in 1..N : \A a \in A : turn[n][a] \in A
Loop(f, turn, N, base) == f[0] = base /\ \A n \in 1..N : f[n] = turn[n][f[n - 1]]

\* A loop of N turns comes to something.
LEMMA Turns ==
    ASSUME NEW N \in Nat, NEW A, NEW base \in A, NEW turn, Closed(turn, N, A)
    PROVE  \E f \in [0..N -> A] : Loop(f, turn, N, base)
<1> DEFINE S == {m \in 0..N : \E f \in [0..m -> A] : Loop(f, turn, m, base)}
<1>0. \A n \in 1..N : \A a \in A : turn[n][a] \in A
  BY DEF Closed
<1>1. 0 \in S
  <2> DEFINE f == [n \in 0..0 |-> base]
  <2>1. f \in [0..0 -> A] /\ f[0] = base /\ \A n \in 1..0 : f[n] = turn[n][f[n - 1]]
    OBVIOUS
  <2>2. 0 \in 0..N
    OBVIOUS
  <2> QED
    BY <2>1, <2>2 DEF Loop
<1>2. ASSUME NEW m \in 1..N, m - 1 \in S PROVE m \in S
  <2>1. PICK f \in [0..(m - 1) -> A] : f[0] = base /\ \A n \in 1..(m - 1) : f[n] = turn[n][f[n - 1]]
    BY <1>2 DEF Loop
  <2> DEFINE g == [n \in 0..m |-> IF n = m THEN turn[m][f[m - 1]] ELSE f[n]]
  <2>2. f[m - 1] \in A
    BY <2>1
  <2>3. \A n \in 0..m : g[n] \in A
    <3> SUFFICES ASSUME NEW n \in 0..m PROVE g[n] \in A
      OBVIOUS
    <3>1. CASE n = m
      BY <1>0, <2>2, <3>1
    <3>2. CASE n # m
      <4>1. n \in 0..(m - 1)
        BY <3>2
      <4> QED
        BY <2>1, <3>2, <4>1
    <3> QED
      BY <3>1, <3>2
  <2>4. g \in [0..m -> A]
    BY <2>3
  <2>5. g[0] = base
    BY <2>1
  <2>6. ASSUME NEW n \in 1..m PROVE g[n] = turn[n][g[n - 1]]
    <3>1. g[n - 1] = f[n - 1]
      OBVIOUS
    <3>2. CASE n = m
      BY <3>1, <3>2
    <3>3. CASE n # m
      <4>1. n \in 1..(m - 1) /\ g[n] = f[n]
        BY <3>3
      <4> HIDE DEF g
      <4> QED
        BY <2>1, <3>1, <4>1
    <3> QED
      BY <3>2, <3>3
  <2> HIDE DEF g
  <2>7. Loop(g, turn, m, base)
    BY <2>5, <2>6 DEF Loop
  <2> QED
    BY <2>4, <2>7
<1> HIDE DEF S
<1>3. 0..N \subseteq S
  BY <1>1, <1>2, Upto
<1>4. N \in S
  BY <1>3
<1> QED
  BY <1>4 DEF S

-----------------------------------------------------------------------------
(* Filter and Sorted: what the loops come to.                                 *)

\* How many of the first n elements of s are in S.
Among(s, n, S) == Cardinality({i \in 1..n : s[i] \in S})

LEMMA AmongNext ==
    ASSUME NEW s, NEW n \in Nat, NEW S
    PROVE  /\ Among(s, n, S) \in Nat
           /\ IsFiniteSet({i \in 1..n : s[i] \in S})
           /\ Among(s, 0, S) = 0
           /\ n > 0 /\ s[n] \in S => Among(s, n, S) = Among(s, n - 1, S) + 1
           /\ n > 0 /\ s[n] \notin S => Among(s, n, S) = Among(s, n - 1, S)
<1> DEFINE I(m) == {i \in 1..m : s[i] \in S}
<1>1. ASSUME NEW m \in Nat PROVE IsFiniteSet(I(m)) /\ Cardinality(I(m)) \in Nat
  <2>1. IsFiniteSet(1..m) /\ I(m) \in SUBSET (1..m)
    BY FS_Interval
  <2>2. IsFiniteSet(I(m))
    BY <2>1, FS_Subset
  <2> QED
    BY <2>2, FS_CardinalityType
<1>2. I(0) = {}
  OBVIOUS
<1>3. Among(s, 0, S) = 0
  BY <1>2, FS_EmptySet DEF Among
<1>4. ASSUME n > 0 PROVE /\ s[n] \in S => Among(s, n, S) = Among(s, n - 1, S) + 1
                         /\ s[n] \notin S => Among(s, n, S) = Among(s, n - 1, S)
  <2>0. n - 1 \in Nat /\ n \notin I(n - 1)
    BY <1>4
  <2>1. CASE s[n] \in S
    <3>1. I(n) = I(n - 1) \cup {n}
      BY <1>4, <2>1
    <3>2. Cardinality(I(n - 1) \cup {n}) = Cardinality(I(n - 1)) + 1
      BY <1>1, <2>0, FS_AddElement
    <3> QED
      BY <2>1, <3>1, <3>2 DEF Among
  <2>2. CASE s[n] \notin S
    <3>1. I(n) = I(n - 1)
      BY <1>4, <2>2
    <3>2. Cardinality(I(n - 1)) \in Nat
      BY <1>1, <2>0
    <3>3. Among(s, n, S) = Among(s, n - 1, S) /\ Among(s, n - 1, S) \in Nat
      BY <3>1, <3>2 DEF Among
    <3> QED
      BY <2>2, <3>3
  <2> QED
    BY <2>1, <2>2
<1> QED
  BY <1>1, <1>3, <1>4 DEF Among

LEMMA AmongSame ==
    ASSUME NEW s, NEW t, NEW n \in Nat, NEW S, \A i \in 1..n : s[i] = t[i]
    PROVE  Among(s, n, S) = Among(t, n, S)
<1>1. {i \in 1..n : s[i] \in S} = {i \in 1..n : t[i] \in S}
  OBVIOUS
<1> QED
  BY <1>1 DEF Among

LEMMA AmongAppend ==
    ASSUME NEW E, NEW s \in Seq(E), NEW x \in E, NEW S
    PROVE  /\ x \in S => Among(Append(s, x), Len(Append(s, x)), S) = Among(s, Len(s), S) + 1
           /\ x \notin S => Among(Append(s, x), Len(Append(s, x)), S) = Among(s, Len(s), S)
<1>1. /\ Append(s, x) \in Seq(E) /\ Len(Append(s, x)) = Len(s) + 1 /\ Len(s) \in Nat
      /\ \A i \in 1..Len(s) : Append(s, x)[i] = s[i]
      /\ Append(s, x)[Len(s) + 1] = x
  BY AppendProperties
<1>2. PICK t : t = Append(s, x)
  OBVIOUS
<1>3. Len(t) = Len(s) + 1 /\ t[Len(s) + 1] = x /\ \A i \in 1..Len(s) : t[i] = s[i]
  BY <1>1, <1>2
<1>4. Among(t, Len(s), S) = Among(s, Len(s), S)
  BY <1>1, <1>3, AmongSame
<1>5. PICK n \in Nat : n = Len(s) + 1
  BY <1>1
<1>6. /\ t[n] \in S => Among(t, n, S) = Among(t, n - 1, S) + 1
      /\ t[n] \notin S => Among(t, n, S) = Among(t, n - 1, S)
  <2>1. n > 0
    BY <1>1, <1>5
  <2> QED
    BY <2>1, AmongNext
<1>7. n - 1 = Len(s)
  BY <1>1, <1>5
<1> QED
  BY <1>2, <1>3, <1>4, <1>5, <1>6, <1>7

\* Where insert puts a number, and what is then where.
LEMMA InsertIs ==
    ASSUME NEW s \in Seq(Int), NEW d \in Int
    PROVE  \E k \in 0..Len(s) :
             /\ k = Cardinality({i \in 1..Len(s) : s[i] <= d})
             /\ insert(s, d) \in Seq(Int)
             /\ Len(insert(s, d)) = Len(s) + 1
             /\ \A i \in 1..Len(s) + 1 :
                  insert(s, d)[i] = IF i <= k THEN s[i] ELSE IF i = k + 1 THEN d ELSE s[i - 1]
<1> DEFINE D == {i \in DOMAIN s : s[i] <= d}
<1>1. Len(s) \in Nat /\ DOMAIN s = 1..Len(s) /\ D \in SUBSET (1..Len(s))
  OBVIOUS
<1>2. Cardinality(D) \in 0..Len(s)
  <2>1. IsFiniteSet(1..Len(s)) /\ Cardinality(1..Len(s)) = Len(s)
    <3>1. PICK N \in Nat : N = Len(s)
      BY <1>1
    <3>2. IsFiniteSet(1..N) /\ Cardinality(1..N) = IF 1 > N THEN 0 ELSE N - 1 + 1
      BY FS_Interval
    <3> QED
      BY <3>1, <3>2
  <2>2. IsFiniteSet(D) /\ Cardinality(D) <= Len(s)
    BY <1>1, <2>1, FS_Subset
  <2>3. Cardinality(D) \in Nat
    BY <2>2, FS_CardinalityType
  <2> QED
    BY <1>1, <2>2, <2>3
<1>3. PICK k \in 0..Len(s) : k = Cardinality(D)
  BY <1>2
<1> HIDE DEF D
<1> PICK m \in 1..Len(s) + 1 : m = k + 1
  BY <1>1
<1> PICK N \in Nat : N = Len(s)
  BY <1>1
<1>4. insert(s, d) = SubSeq(s, 1, k) \o <<d>> \o SubSeq(s, m, N)
  <2>1. m - 1 = k
    BY <1>1, <1>3
  <2>2. insert(s, d) = InsertAt(s, m, d)
    BY <1>3, Zenon DEF insert, D
  <2>3. InsertAt(s, m, d) = SubSeq(s, 1, m - 1) \o <<d>> \o SubSeq(s, m, Len(s))
    BY SMT DEF InsertAt
  <2> QED
    BY <2>1, <2>2, <2>3, Zenon
<1>5. SubSeq(s, 1, k) \in Seq(Int) /\ Len(SubSeq(s, 1, k)) = k /\ \A i \in 1..k : SubSeq(s, 1, k)[i] = s[i]
  <2>1. \A i \in 1..k : s[i] \in Int
    BY <1>1
  <2> QED
    BY <1>1, <2>1, SubSeqProperties
<1>6. PICK a \in Seq(Int) : a = SubSeq(s, 1, k)
  BY <1>5, Zenon
<1>7. /\ SubSeq(s, m, N) \in Seq(Int) /\ Len(SubSeq(s, m, N)) = N - k
      /\ \A i \in 1..N - k : SubSeq(s, m, N)[i] = s[k + i]
  <2>1. \A i \in m..N : s[i] \in Int
    BY <1>1
  <2>2. m \in Int /\ N \in Int /\ N - m + 1 = N - k
    BY <1>1
  <2>3. /\ SubSeq(s, m, N) \in Seq(Int)
        /\ Len(SubSeq(s, m, N)) = IF m <= N THEN N - m + 1 ELSE 0
        /\ \A i \in 1..(N - m + 1) : SubSeq(s, m, N)[i] = s[m + i - 1]
    BY <2>1, <2>2, SubSeqProperties
  <2>4. \A i \in 1..(N - k) : m + i - 1 = k + i
    BY <1>1
  <2>5. Len(SubSeq(s, m, N)) = N - k
    BY <1>1, <2>3
  <2>6. \A i \in 1..(N - k) : SubSeq(s, m, N)[i] = s[k + i]
    BY <2>2, <2>3, <2>4
  <2> QED
    BY <2>3, <2>5, <2>6
<1>8. PICK b \in Seq(Int) : b = SubSeq(s, m, N)
  BY <1>7, Zenon
<1>9. <<d>> \in Seq(Int) /\ Len(<<d>>) = 1 /\ <<d>>[1] = d
  OBVIOUS
<1>10. /\ a \o <<d>> \in Seq(Int) /\ Len(a \o <<d>>) = k + 1
       /\ \A i \in 1..k + 1 : (a \o <<d>>)[i] = IF i <= k THEN s[i] ELSE d
  <2>0. PICK e \in Seq(Int) : e = <<d>>
    BY <1>9, Zenon
  <2>1. /\ a \o e \in Seq(Int) /\ Len(a \o e) = Len(a) + Len(e)
        /\ \A i \in 1..Len(a) + Len(e) : (a \o e)[i] = IF i <= Len(a) THEN a[i] ELSE e[i - Len(a)]
    BY ConcatProperties
  <2>2. Len(a) = k /\ Len(e) = 1 /\ e[1] = d /\ \A i \in 1..k : a[i] = s[i]
    BY <1>5, <1>6, <1>9, <2>0
  <2> QED
    BY <2>0, <2>1, <2>2
<1>11. PICK c \in Seq(Int) : c = a \o <<d>>
  BY <1>10, Zenon
<1>12. /\ c \o b \in Seq(Int) /\ Len(c \o b) = Len(s) + 1
       /\ \A i \in 1..k + 1 : (c \o b)[i] = IF i <= k THEN s[i] ELSE d
       /\ \A i \in 1..Len(s) + 1 : i > k + 1 => (c \o b)[i] = s[i - 1]
  <2>1. /\ c \o b \in Seq(Int) /\ Len(c \o b) = Len(c) + Len(b)
        /\ \A i \in 1..Len(c) + Len(b) : (c \o b)[i] = IF i <= Len(c) THEN c[i] ELSE b[i - Len(c)]
    BY ConcatProperties
  <2>2. Len(c) = k + 1 /\ Len(b) = Len(s) - k /\ \A i \in 1..k + 1 : c[i] = IF i <= k THEN s[i] ELSE d
    BY <1>7, <1>8, <1>10, <1>11
  <2>3. \A i \in 1..Len(s) - k : b[i] = s[k + i]
    BY <1>7, <1>8
  <2>4. ASSUME NEW i \in 1..Len(s) + 1, i > k + 1 PROVE (c \o b)[i] = s[i - 1]
    <3>1. i - (k + 1) \in 1..Len(s) - k /\ k + (i - (k + 1)) = i - 1 /\ ~ (i <= k + 1) /\ i \in 1..Len(c) + Len(b)
      BY <1>1, <2>2, <2>4
    <3>2. (c \o b)[i] = b[i - (k + 1)]
      BY <2>1, <2>2, <3>1
    <3> QED
      BY <2>3, <3>1, <3>2
  <2>5. \A i \in 1..k + 1 : (c \o b)[i] = IF i <= k THEN s[i] ELSE d
    BY <1>1, <2>1, <2>2
  <2>6. Len(c) + Len(b) = Len(s) + 1
    BY <1>1, <2>2
  <2>7. Len(c \o b) = Len(s) + 1
    BY <2>1, <2>6, Zenon
  <2> QED
    BY <2>1, <2>4, <2>5, <2>7
<1>t. PICK t : t = c \o b
  OBVIOUS
<1>13. insert(s, d) = t
  BY <1>4, <1>6, <1>8, <1>11, <1>t, Zenon
<1>14. t \in Seq(Int) /\ Len(t) = Len(s) + 1
  BY <1>12, <1>t
<1>15. \A i \in 1..Len(s) + 1 : t[i] = IF i <= k THEN s[i] ELSE IF i = k + 1 THEN d ELSE s[i - 1]
  BY <1>1, <1>12, <1>t
<1> QED
  <2>1. D = {i \in 1..Len(s) : s[i] <= d}
    BY <1>1 DEF D
  <2> QED
    BY <1>3, <1>13, <1>14, <1>15, <2>1

\* g[n] is what the n-th turn of Filter leaves.
Kept(g, s, S) ==
    /\ Filter(s, S) = g[Len(s)]
    /\ g[0] = <<>>
    /\ \A n \in 1..Len(s) : g[n] = IF s[n] \in S THEN Append(g[n - 1], s[n]) ELSE g[n - 1]

\* The elements kept after each turn.
LEMMA FilterIs ==
    ASSUME NEW E, NEW s \in Seq(E), NEW S
    PROVE  \E g \in [0..Len(s) -> Seq(E)] : Kept(g, s, S)
<1> DEFINE turn == [n \in 1..Len(s) |-> [a \in Seq(E) |-> IF s[n] \in S THEN Append(a, s[n]) ELSE a]]
           F(f) == [n \in 0..Len(s) |-> IF n = 0 THEN <<>>
                                        ELSE IF s[n] \in S THEN Append(f[n - 1], s[n]) ELSE f[n - 1]]
           g == CHOOSE f : f = F(f)
<1>1. Filter(s, S) = g[Len(s)]
  BY DEF Filter
<1>2. \A n \in 1..Len(s) : s[n] \in E
  OBVIOUS
<1>3. \A n \in 1..Len(s) : \A a \in Seq(E) : turn[n][a] = IF s[n] \in S THEN Append(a, s[n]) ELSE a
  OBVIOUS
<1>4. \A n \in 1..Len(s) : \A a \in Seq(E) : Append(a, s[n]) \in Seq(E)
  BY <1>2
<1>5. \A n \in 1..Len(s) : \A a \in Seq(E) : turn[n][a] \in Seq(E)
  BY <1>3, <1>4, Zenon
<1> HIDE DEF turn
<1>6. PICK f \in [0..Len(s) -> Seq(E)] : Loop(f, turn, Len(s), <<>>)
  <2>1. Closed(turn, Len(s), Seq(E))
    BY <1>5 DEF Closed
  <2>2. Len(s) \in Nat /\ <<>> \in Seq(E)
    OBVIOUS
  <2>3. \E f \in [0..Len(s) -> Seq(E)] : Loop(f, turn, Len(s), <<>>)
    BY <2>1, <2>2, Turns
  <2> QED
    BY <2>3
<1>7. f[0] = <<>> /\ \A n \in 1..Len(s) : f[n] = IF s[n] \in S THEN Append(f[n - 1], s[n]) ELSE f[n - 1]
  <2>1. f[0] = <<>> /\ \A n \in 1..Len(s) : f[n] = turn[n][f[n - 1]]
    BY <1>6 DEF Loop
  <2>2. \A n \in 1..Len(s) : n - 1 \in 0..Len(s)
    OBVIOUS
  <2>3. \A n \in 1..Len(s) : f[n - 1] \in Seq(E)
    BY <2>2
  <2> QED
    BY <1>3, <2>1, <2>3, Zenon
<1>8. f = F(f)
  <2>1. \A n \in 0..Len(s) : n = 0 \/ n \in 1..Len(s)
    OBVIOUS
  <2>2. \A n \in 0..Len(s) : f[n] = F(f)[n]
    BY <1>7, <2>1
  <2> QED
    BY <2>2
<1>9. g = F(g)
  BY <1>8, Zenon
<1> HIDE DEF g
<1>10. g[0] = <<>> /\ \A n \in 1..Len(s) : g[n] = IF s[n] \in S THEN Append(g[n - 1], s[n]) ELSE g[n - 1]
  <2>1. \A n \in 0..Len(s) : g[n] = F(g)[n]
    BY <1>9, Zenon
  <2>2. 0 \in 0..Len(s) /\ \A n \in 1..Len(s) : n \in 0..Len(s) /\ n # 0
    OBVIOUS
  <2> QED
    BY <2>1, <2>2
<1>11. \A n \in 0..Len(s) : g[n] \in Seq(E)
  <2> DEFINE T == {n \in 0..Len(s) : g[n] \in Seq(E)}
  <2>1. 0 \in T
    <3>1. 0 \in 0..Len(s) /\ <<>> \in Seq(E)
      OBVIOUS
    <3> QED
      BY <1>10, <3>1
  <2>2. ASSUME NEW n \in 1..Len(s), n - 1 \in T PROVE n \in T
    <3>1. g[n - 1] \in Seq(E) /\ Append(g[n - 1], s[n]) \in Seq(E) /\ n \in 0..Len(s)
      BY <1>2, <2>2
    <3> QED
      BY <1>10, <3>1
  <2>3. Len(s) \in Nat
    OBVIOUS
  <2> HIDE DEF T
  <2>4. 0..Len(s) \subseteq T
    BY <2>1, <2>2, <2>3, Upto
  <2> QED
    BY <2>4 DEF T
<1>12. g \in [0..Len(s) -> Seq(E)]
  BY <1>9, <1>11
<1> QED
  BY <1>1, <1>10, <1>12 DEF Kept

\* The numbers sorted after each turn.
LEMMA SortedIs ==
    ASSUME NEW s \in Seq(Int)
    PROVE  \E g \in [0..Len(s) -> Seq(Int)] :
             /\ Sorted(s) = g[Len(s)]
             /\ g[0] = <<>>
             /\ \A n \in 1..Len(s) : g[n] = insert(g[n - 1], s[n])
<1> DEFINE turn == [n \in 1..Len(s) |-> [a \in Seq(Int) |-> insert(a, s[n])]]
           F(f) == [n \in 0..Len(s) |-> IF n = 0 THEN <<>>
                                        ELSE insert(f[n - 1], s[n])]
           g == CHOOSE f : f = F(f)
<1>1. Sorted(s) = g[Len(s)]
  BY DEF Sorted
<1>2. \A n \in 1..Len(s) : s[n] \in Int
  OBVIOUS
<1>3. \A n \in 1..Len(s) : \A a \in Seq(Int) : turn[n][a] = insert(a, s[n])
  OBVIOUS
<1>4. \A n \in 1..Len(s) : \A a \in Seq(Int) : insert(a, s[n]) \in Seq(Int)
  BY <1>2, InsertIs
<1>5. \A n \in 1..Len(s) : \A a \in Seq(Int) : turn[n][a] \in Seq(Int)
  BY <1>3, <1>4, Zenon
<1> HIDE DEF turn
<1>6. PICK f \in [0..Len(s) -> Seq(Int)] : Loop(f, turn, Len(s), <<>>)
  <2>1. Closed(turn, Len(s), Seq(Int))
    BY <1>5 DEF Closed
  <2>2. Len(s) \in Nat /\ <<>> \in Seq(Int)
    OBVIOUS
  <2>3. \E f \in [0..Len(s) -> Seq(Int)] : Loop(f, turn, Len(s), <<>>)
    BY <2>1, <2>2, Turns
  <2> QED
    BY <2>3
<1>7. f[0] = <<>> /\ \A n \in 1..Len(s) : f[n] = insert(f[n - 1], s[n])
  <2>1. f[0] = <<>> /\ \A n \in 1..Len(s) : f[n] = turn[n][f[n - 1]]
    BY <1>6 DEF Loop
  <2>2. \A n \in 1..Len(s) : n - 1 \in 0..Len(s)
    OBVIOUS
  <2>3. \A n \in 1..Len(s) : f[n - 1] \in Seq(Int)
    BY <2>2
  <2> QED
    BY <1>3, <2>1, <2>3, Zenon
<1>8. f = F(f)
  <2>1. \A n \in 0..Len(s) : n = 0 \/ n \in 1..Len(s)
    OBVIOUS
  <2>2. \A n \in 0..Len(s) : f[n] = F(f)[n]
    BY <1>7, <2>1
  <2> QED
    BY <2>2
<1>9. g = F(g)
  BY <1>8, Zenon
<1> HIDE DEF g
<1>10. g[0] = <<>> /\ \A n \in 1..Len(s) : g[n] = insert(g[n - 1], s[n])
  <2>1. \A n \in 0..Len(s) : g[n] = F(g)[n]
    BY <1>9, Zenon
  <2>2. 0 \in 0..Len(s) /\ \A n \in 1..Len(s) : n \in 0..Len(s) /\ n # 0
    OBVIOUS
  <2> QED
    BY <2>1, <2>2
<1>11. \A n \in 0..Len(s) : g[n] \in Seq(Int)
  <2> DEFINE T == {n \in 0..Len(s) : g[n] \in Seq(Int)}
  <2>1. 0 \in T
    <3>1. 0 \in 0..Len(s) /\ <<>> \in Seq(Int)
      OBVIOUS
    <3> QED
      BY <1>10, <3>1
  <2>2. ASSUME NEW n \in 1..Len(s), n - 1 \in T PROVE n \in T
    <3>0. g[n - 1] \in Seq(Int) /\ s[n] \in Int /\ n \in 0..Len(s)
      BY <1>2, <2>2
    <3>1. insert(g[n - 1], s[n]) \in Seq(Int)
      BY <3>0, InsertIs
    <3> QED
      BY <1>10, <3>0, <3>1
  <2>3. Len(s) \in Nat
    OBVIOUS
  <2> HIDE DEF T
  <2>4. 0..Len(s) \subseteq T
    BY <2>1, <2>2, <2>3, Upto
  <2> QED
    BY <2>4 DEF T
<1>12. g \in [0..Len(s) -> Seq(Int)]
  BY <1>9, <1>11
<1> QED
  BY <1>1, <1>10, <1>12

-----------------------------------------------------------------------------
(* Filter and Sorted lose nothing.                                            *)

LEMMA FilterType ==
    ASSUME NEW E, NEW s \in Seq(E), NEW S
    PROVE  Filter(s, S) \in Seq(E)
<1>1. PICK g \in [0..Len(s) -> Seq(E)] : Kept(g, s, S)
  BY FilterIs
<1>2. Len(s) \in 0..Len(s)
  OBVIOUS
<1> QED
  BY <1>1, <1>2 DEF Kept

\* What is kept is what was there and is in S.
LEMMA FilterSet ==
    ASSUME NEW E, NEW s \in Seq(E), NEW S
    PROVE  ToSet(Filter(s, S)) = ToSet(s) \cap S
<1>0. PICK g \in [0..Len(s) -> Seq(E)] : Kept(g, s, S)
  BY FilterIs
<1>1. /\ Filter(s, S) = g[Len(s)]
      /\ g[0] = <<>>
      /\ \A n \in 1..Len(s) : g[n] = IF s[n] \in S THEN Append(g[n - 1], s[n]) ELSE g[n - 1]
  BY <1>0 DEF Kept
<1> DEFINE upto(n) == {x \in S : \E i \in 1..n : x = s[i]}
           T == {n \in 0..Len(s) : {x \in E : \E i \in 1..Len(g[n]) : x = g[n][i]} = upto(n)}
<1>2. 0 \in T
  <2>1. 0 \in 0..Len(s) /\ Len(g[0]) = 0
    BY <1>1
  <2> QED
    BY <2>1
<1>3. ASSUME NEW n \in 1..Len(s), n - 1 \in T PROVE n \in T
  <2>1. n \in Nat /\ n > 0 /\ n \in 0..Len(s) /\ n - 1 \in 0..Len(s) /\ s[n] \in E
    OBVIOUS
  <2>2. g[n - 1] \in Seq(E)
    BY <2>1
  <2>3. {x \in E : \E i \in 1..Len(g[n - 1]) : x = g[n - 1][i]} = upto(n - 1)
    BY <1>3
  <2>4. CASE s[n] \in S
    <3>1. g[n] = Append(g[n - 1], s[n])
      BY <1>1, <2>4
    <3>2. upto(n) = upto(n - 1) \cup {s[n]}
      BY <2>1, <2>4
    <3>3. PICK a \in Seq(E) : a = g[n - 1]
      BY <2>2
    <3>4. Len(a) \in Nat /\ Len(g[n]) = Len(a) + 1 /\ g[n][Len(a) + 1] = s[n] /\ \A i \in 1..Len(a) : g[n][i] = a[i]
      BY <2>1, <3>1, <3>3, AppendProperties
    <3>5. {x \in E : \E i \in 1..Len(g[n]) : x = g[n][i]} = {x \in E : \E i \in 1..Len(a) : x = a[i]} \cup {s[n]}
      <4>1. \A x : (\E i \in 1..Len(g[n]) : x = g[n][i]) <=> (\E i \in 1..Len(a) : x = a[i]) \/ x = s[n]
        <5> SUFFICES ASSUME NEW x
                     PROVE  (\E i \in 1..Len(g[n]) : x = g[n][i]) <=> (\E i \in 1..Len(a) : x = a[i]) \/ x = s[n]
          OBVIOUS
        <5>1. \A i \in 1..Len(g[n]) : i \in 1..Len(a) \/ i = Len(a) + 1
          BY <3>4
        <5>2. Len(a) + 1 \in 1..Len(g[n]) /\ \A i \in 1..Len(a) : i \in 1..Len(g[n])
          BY <3>4
        <5> QED
          BY <3>4, <5>1, <5>2
      <4> QED
        BY <2>1, <4>1
    <3>6. {x \in E : \E i \in 1..Len(g[n]) : x = g[n][i]} = upto(n)
      BY <2>3, <3>2, <3>3, <3>5
    <3> QED
      BY <2>1, <3>6
  <2>5. CASE s[n] \notin S
    <3>1. g[n] = g[n - 1]
      BY <1>1, <2>5
    <3>2. upto(n) = upto(n - 1)
      BY <2>1, <2>5
    <3> QED
      BY <2>1, <2>3, <3>1, <3>2
  <2> QED
    BY <2>4, <2>5
<1>4. Len(s) \in Nat
  OBVIOUS
<1> HIDE DEF T
<1>5. 0..Len(s) \subseteq T
  BY <1>2, <1>3, <1>4, Upto
<1>6. Len(s) \in T /\ g[Len(s)] \in Seq(E)
  BY <1>4, <1>5
<1>7. {x \in E : \E i \in 1..Len(g[Len(s)]) : x = g[Len(s)][i]} = upto(Len(s))
  BY <1>6 DEF T
<1>8. \A t \in Seq(E) : ToSet(t) = {x \in E : \E i \in 1..Len(t) : x = t[i]}
  BY DEF ToSet
<1>9. upto(Len(s)) = ToSet(s) \cap S
  BY <1>8
<1> QED
  BY <1>1, <1>6, <1>7, <1>8, <1>9

\* Of what is kept there are as many as there were.
LEMMA FilterCount ==
    ASSUME NEW E, NEW s \in Seq(E), NEW S, NEW C \in SUBSET S
    PROVE  Among(Filter(s, S), Len(Filter(s, S)), C) = Among(s, Len(s), C)
<1>0. PICK g \in [0..Len(s) -> Seq(E)] : Kept(g, s, S)
  BY FilterIs
<1>1. /\ Filter(s, S) = g[Len(s)]
      /\ g[0] = <<>>
      /\ \A n \in 1..Len(s) : g[n] = IF s[n] \in S THEN Append(g[n - 1], s[n]) ELSE g[n - 1]
  BY <1>0 DEF Kept
<1> DEFINE T == {n \in 0..Len(s) : Among(g[n], Len(g[n]), C) = Among(s, n, C)}
<1>2. 0 \in T
  <2>1. 0 \in 0..Len(s) /\ Len(g[0]) = 0
    BY <1>1
  <2>2. Among(g[0], 0, C) = 0 /\ Among(s, 0, C) = 0
    BY AmongNext
  <2> QED
    BY <2>1, <2>2
<1>3. ASSUME NEW n \in 1..Len(s), n - 1 \in T PROVE n \in T
  <2>1. n \in Nat /\ n > 0 /\ n \in 0..Len(s) /\ n - 1 \in 0..Len(s) /\ s[n] \in E
    OBVIOUS
  <2>2. g[n - 1] \in Seq(E)
    BY <2>1
  <2>3. Among(g[n - 1], Len(g[n - 1]), C) = Among(s, n - 1, C)
    BY <1>3
  <2>4. /\ s[n] \in C => Among(s, n, C) = Among(s, n - 1, C) + 1
        /\ s[n] \notin C => Among(s, n, C) = Among(s, n - 1, C)
    BY <2>1, AmongNext
  <2> HIDE DEF T
  <2>5. CASE s[n] \in S
    <3>1. g[n] = Append(g[n - 1], s[n])
      BY <1>1, <2>5
    <3>2. /\ s[n] \in C => Among(g[n], Len(g[n]), C) = Among(g[n - 1], Len(g[n - 1]), C) + 1
          /\ s[n] \notin C => Among(g[n], Len(g[n]), C) = Among(g[n - 1], Len(g[n - 1]), C)
      BY <2>1, <2>2, <3>1, AmongAppend
    <3>3. Among(g[n], Len(g[n]), C) = Among(s, n, C)
      BY <2>3, <2>4, <3>2, Zenon
    <3> QED
      BY <2>1, <3>3 DEF T
  <2>6. CASE s[n] \notin S
    <3>1. g[n] = g[n - 1] /\ s[n] \notin C
      BY <1>1, <2>6
    <3>2. Among(g[n], Len(g[n]), C) = Among(s, n, C)
      BY <2>3, <2>4, <3>1, Zenon
    <3> QED
      BY <2>1, <3>2 DEF T
  <2> QED
    BY <2>5, <2>6
<1>4. Len(s) \in Nat
  OBVIOUS
<1> HIDE DEF T
<1>5. 0..Len(s) \subseteq T
  BY <1>2, <1>3, <1>4, Upto
<1>6. Len(s) \in T
  BY <1>4, <1>5
<1> QED
  BY <1>1, <1>6 DEF T

\* One more, if it is in the set.
LEMMA InsertCount ==
    ASSUME NEW s \in Seq(Int), NEW d \in Int, NEW C
    PROVE  /\ d \in C => Among(insert(s, d), Len(insert(s, d)), C) = Among(s, Len(s), C) + 1
           /\ d \notin C => Among(insert(s, d), Len(insert(s, d)), C) = Among(s, Len(s), C)
<1>1. PICK t : t = insert(s, d)
  OBVIOUS
<1>2. PICK N \in Nat : N = Len(s)
  OBVIOUS
<1>3. PICK k \in 0..N : /\ t \in Seq(Int) /\ Len(t) = N + 1
                        /\ \A i \in 1..N + 1 : t[i] = IF i <= k THEN s[i] ELSE IF i = k + 1 THEN d ELSE s[i - 1]
  BY <1>1, <1>2, InsertIs
<1> DEFINE I == {i \in 1..N : s[i] \in C}
           J == {i \in 1..N + 1 : t[i] \in C}
           b == [i \in I |-> IF i <= k THEN i ELSE i + 1]
<1>4. IsFiniteSet(I) /\ Cardinality(I) = Among(s, Len(s), C) /\ Cardinality(I) \in Nat
  <2>1. Among(s, N, C) \in Nat /\ IsFiniteSet(I)
    BY AmongNext
  <2>2. Among(s, N, C) = Cardinality(I)
    BY DEF Among
  <2> QED
    BY <1>2, <2>1, <2>2
<1>5. Cardinality(J) = Among(t, Len(t), C)
  BY <1>3 DEF Among
<1>6. ExistsBijection(I, J \ {k + 1})
  <2>1. \A i \in I : b[i] \in J \ {k + 1}
    <3> SUFFICES ASSUME NEW i \in 1..N, s[i] \in C PROVE b[i] \in J \ {k + 1}
      OBVIOUS
    <3>1. CASE i <= k
      BY <1>3, <3>1
    <3>2. CASE i > k
      <4>1. i + 1 \in 1..N + 1 /\ ~ (i + 1 <= k) /\ i + 1 # k + 1 /\ i + 1 - 1 = i
        BY <3>2
      <4>2. t[i + 1] = s[i]
        BY <1>3, <4>1
      <4>3. b[i] = i + 1
        BY <3>2
      <4> QED
        BY <4>1, <4>2, <4>3
    <3> QED
      BY <3>1, <3>2
  <2>2. \A i, j \in I : b[i] = b[j] => i = j
    OBVIOUS
  <2>3. ASSUME NEW j \in J \ {k + 1} PROVE \E i \in I : b[i] = j
    <3>1. CASE j <= k
      <4>1. j \in I /\ b[j] = j
        BY <1>3, <3>1
      <4> QED
        BY <4>1
    <3>2. CASE j > k
      <4>1. j > k + 1 /\ j - 1 \in 1..N /\ ~ (j - 1 <= k) /\ j - 1 + 1 = j /\ ~ (j <= k) /\ j # k + 1
        BY <3>2
      <4>2. t[j] = s[j - 1]
        BY <1>3, <4>1
      <4>3. j - 1 \in I
        BY <4>1, <4>2
      <4>4. b[j - 1] = j
        BY <4>1, <4>3
      <4> QED
        BY <4>3, <4>4
    <3> QED
      BY <3>1, <3>2
  <2>4. b \in [I -> J \ {k + 1}]
    BY <2>1
  <2> HIDE DEF b, I, J
  <2>5. b \in Bijection(I, J \ {k + 1})
    BY <2>2, <2>3, <2>4 DEF Bijection, Injection, Surjection, IsInjective
  <2> QED
    BY <2>5 DEF ExistsBijection
<1>7. IsFiniteSet(J \ {k + 1}) /\ Cardinality(J \ {k + 1}) = Cardinality(I)
  BY <1>4, <1>6, FS_Bijection
<1>8. k + 1 \in J <=> d \in C
  BY <1>3
<1> HIDE DEF I, J
<1>9. Cardinality((J \ {k + 1}) \cup {k + 1}) = Cardinality(I) + 1
  BY <1>7, FS_AddElement
<1>10. CASE d \in C
  <2>1. (J \ {k + 1}) \cup {k + 1} = J
    BY <1>8, <1>10
  <2> QED
    BY <1>1, <1>4, <1>5, <1>9, <1>10, <2>1
<1>11. CASE d \notin C
  <2>1. J \ {k + 1} = J
    BY <1>8, <1>11
  <2> QED
    BY <1>1, <1>4, <1>5, <1>7, <1>11, <2>1
<1> QED
  BY <1>10, <1>11

\* Smallest first.
Rising(s) == \A i, j \in 1..Len(s) : i <= j => s[i] <= s[j]

LEMMA InsertRising ==
    ASSUME NEW s \in Seq(Int), NEW d \in Int, Rising(s)
    PROVE  Rising(insert(s, d))
<1>1. PICK t : t = insert(s, d)
  OBVIOUS
<1>2. PICK N \in Nat : N = Len(s)
  OBVIOUS
<1> DEFINE D == {i \in 1..N : s[i] <= d}
<1>3. PICK k \in 0..N : /\ k = Cardinality(D)
                        /\ t \in Seq(Int) /\ Len(t) = N + 1
                        /\ \A i \in 1..N + 1 : t[i] = IF i <= k THEN s[i] ELSE IF i = k + 1 THEN d ELSE s[i - 1]
  BY <1>1, <1>2, InsertIs
<1>4. \A i, j \in 1..N : s[i] \in Int /\ (i <= j => s[i] <= s[j])
  BY <1>2 DEF Rising
<1>5. \A n \in 0..N : IsFiniteSet(1..n) /\ Cardinality(1..n) = n
  <2> SUFFICES ASSUME NEW n \in 0..N PROVE IsFiniteSet(1..n) /\ Cardinality(1..n) = n
    OBVIOUS
  <2>1. IsFiniteSet(1..n) /\ Cardinality(1..n) = IF 1 > n THEN 0 ELSE n - 1 + 1
    BY FS_Interval
  <2> QED
    BY <2>1
<1>6. ASSUME NEW i \in 1..N PROVE i \in D <=> i <= k
  <2>1. CASE i \in D
    <3>1. (1..i) \in SUBSET D
      BY <1>4, <2>1
    <3>2. D \in SUBSET (1..N) /\ N \in 0..N /\ i \in 0..N
      OBVIOUS
    <3>3. IsFiniteSet(D)
      BY <1>5, <3>2, FS_Subset
    <3>4. Cardinality(1..i) <= Cardinality(D)
      BY <3>1, <3>3, FS_Subset
    <3> QED
      BY <1>3, <1>5, <2>1, <3>2, <3>4
  <2>2. CASE i \notin D
    <3>1. D \in SUBSET (1..(i - 1))
      BY <1>4, <2>2
    <3>2. i - 1 \in 0..N
      OBVIOUS
    <3>3. IsFiniteSet(1..(i - 1)) /\ Cardinality(1..(i - 1)) = i - 1
      BY <1>5, <3>2
    <3>4. Cardinality(D) <= i - 1
      BY <3>1, <3>3, FS_Subset
    <3> QED
      BY <1>3, <2>2, <3>4
  <2> QED
    BY <2>1, <2>2
<1>7. \A i \in 1..N : s[i] <= d <=> i <= k
  BY <1>6
<1> HIDE DEF D
<1>8. ASSUME NEW i \in 1..N + 1, NEW j \in 1..N + 1, i <= j PROVE t[i] <= t[j]
  <2>1. CASE j <= k
    <3>1. t[i] = s[i] /\ t[j] = s[j] /\ i \in 1..N /\ j \in 1..N
      BY <1>3, <1>8, <2>1
    <3> QED
      BY <1>4, <1>8, <3>1
  <2>2. CASE j = k + 1
    <3>1. t[j] = d
      BY <1>3, <2>2
    <3>2. CASE i <= k
      <4>1. t[i] = s[i] /\ i \in 1..N
        BY <1>3, <3>2
      <4> QED
        BY <1>7, <3>1, <3>2, <4>1
    <3>3. CASE i = k + 1
      BY <2>2, <3>1, <3>3
    <3> QED
      BY <1>8, <2>2, <3>2, <3>3
  <2>3. CASE j > k + 1
    <3>1. t[j] = s[j - 1] /\ j - 1 \in 1..N /\ ~ (j - 1 <= k)
      BY <1>3, <2>3
    <3>2. ~ (s[j - 1] <= d) /\ s[j - 1] \in Int
      BY <1>4, <1>7, <3>1
    <3>3. CASE i <= k
      <4>1. t[i] = s[i] /\ i \in 1..N /\ i <= j - 1
        BY <1>3, <2>3, <3>3
      <4> QED
        BY <1>4, <3>1, <4>1
    <3>4. CASE i = k + 1
      <4>1. t[i] = d
        BY <1>3, <3>4
      <4> QED
        BY <3>1, <3>2, <4>1
    <3>5. CASE i > k + 1
      <4>1. t[i] = s[i - 1] /\ i - 1 \in 1..N /\ i - 1 <= j - 1
        BY <1>3, <1>8, <3>5
      <4> QED
        BY <1>4, <3>1, <4>1
    <3> QED
      BY <3>3, <3>4, <3>5
  <2> QED
    BY <2>1, <2>2, <2>3
<1> QED
  BY <1>1, <1>3, <1>8 DEF Rising

\* Sorted puts the same numbers smallest first.
LEMMA SortedFacts ==
    ASSUME NEW s \in Seq(Int), NEW C
    PROVE  /\ Sorted(s) \in Seq(Int) /\ Len(Sorted(s)) = Len(s) /\ Rising(Sorted(s))
           /\ Among(Sorted(s), Len(s), C) = Among(s, Len(s), C)
<1>1. PICK g \in [0..Len(s) -> Seq(Int)] :
         /\ Sorted(s) = g[Len(s)]
         /\ g[0] = <<>>
         /\ \A n \in 1..Len(s) : g[n] = insert(g[n - 1], s[n])
  BY SortedIs
<1> DEFINE T == {n \in 0..Len(s) : /\ Len(g[n]) = n /\ Rising(g[n])
                                   /\ Among(g[n], n, C) = Among(s, n, C)}
<1>2. 0 \in T
  <2>1. 0 \in 0..Len(s) /\ Len(g[0]) = 0
    BY <1>1
  <2>2. Among(g[0], 0, C) = 0 /\ Among(s, 0, C) = 0
    BY AmongNext
  <2>3. Rising(g[0])
    BY <2>1 DEF Rising
  <2> QED
    BY <2>1, <2>2, <2>3
<1>3. ASSUME NEW n \in 1..Len(s), n - 1 \in T PROVE n \in T
  <2>1. n \in Nat /\ n > 0 /\ n \in 0..Len(s) /\ n - 1 \in 0..Len(s) /\ s[n] \in Int
    OBVIOUS
  <2>2. g[n - 1] \in Seq(Int) /\ g[n] = insert(g[n - 1], s[n])
    BY <1>1, <2>1
  <2>3. Len(g[n - 1]) = n - 1 /\ Rising(g[n - 1]) /\ Among(g[n - 1], n - 1, C) = Among(s, n - 1, C)
    BY <1>3
  <2> HIDE DEF T
  <2>4. /\ s[n] \in C => Among(s, n, C) = Among(s, n - 1, C) + 1
        /\ s[n] \notin C => Among(s, n, C) = Among(s, n - 1, C)
    BY <2>1, AmongNext
  <2>5. Rising(g[n])
    BY <2>1, <2>2, <2>3, InsertRising
  <2>6. Len(g[n]) = n
    <3>1. Len(insert(g[n - 1], s[n])) = Len(g[n - 1]) + 1
      BY <2>1, <2>2, InsertIs
    <3> QED
      BY <2>1, <2>2, <2>3, <3>1
  <2>7. /\ s[n] \in C => Among(g[n], Len(g[n]), C) = Among(g[n - 1], Len(g[n - 1]), C) + 1
        /\ s[n] \notin C => Among(g[n], Len(g[n]), C) = Among(g[n - 1], Len(g[n - 1]), C)
    BY <2>1, <2>2, InsertCount
  <2>8. Among(g[n], n, C) = Among(s, n, C)
    BY <2>3, <2>4, <2>6, <2>7, Zenon
  <2> QED
    BY <2>1, <2>5, <2>6, <2>8 DEF T
<1>4. Len(s) \in Nat
  OBVIOUS
<1> HIDE DEF T
<1>5. 0..Len(s) \subseteq T
  BY <1>2, <1>3, <1>4, Upto
<1>6. Len(s) \in T /\ g[Len(s)] \in Seq(Int)
  BY <1>4, <1>5
<1> QED
  BY <1>1, <1>6 DEF T

-----------------------------------------------------------------------------
(* Percentiles.                                                             *)

\* The rank, counted from 1, is the least number that is no less than the p-th part of n.
LEMMA Ranks ==
    ASSUME NEW n \in Nat, n > 0, NEW p \in {Half, Most}
    PROVE  /\ rank(p, n) + 1 \in 1..n
           /\ (rank(p, n) + 1) * p[2] >= p[1] * n
           /\ rank(p, n) * p[2] < p[1] * n
           /\ rank(p, n) \in Nat /\ p[1] \in Nat /\ p[2] \in Nat
<1>1. CASE p = Half
  <2>1. p[1] = 1 /\ p[2] = 2
    BY <1>1 DEF Half
  <2>2. PICK q : q = (n + 1) \div 2
    OBVIOUS
  <2>3. q \in Nat /\ q >= 1 /\ q <= n /\ 2 * q >= n /\ 2 * (q - 1) < n
    BY <2>2
  <2>4. 1 * n + 2 - 1 = n + 1
    OBVIOUS
  <2>5. rank(p, n) = q - 1
    BY <2>1, <2>2, <2>3, <2>4 DEF rank, Clamp
  <2> QED
    BY <2>1, <2>3, <2>5
<1>2. CASE p = Most
  <2>1. p[1] = 19 /\ p[2] = 20
    BY <1>2 DEF Most
  <2>2. PICK q : q = (19 * n + 19) \div 20
    OBVIOUS
  <2>3. q \in Nat /\ q >= 1 /\ q <= n /\ 20 * q >= 19 * n /\ 20 * (q - 1) < 19 * n
    BY <2>2
  <2>4. 19 * n + 20 - 1 = 19 * n + 19
    OBVIOUS
  <2>5. rank(p, n) = q - 1
    BY <2>1, <2>2, <2>3, <2>4 DEF rank, Clamp
  <2> QED
    BY <2>1, <2>3, <2>5
<1> QED
  BY <1>1, <1>2

\* A percentile of some boots is the one of that rank.
LEMMA PercentileIsRank ==
    ASSUME NEW ts \in Seq(Times \cup {0}), Len(Filter(ts, Times)) # 0, NEW p \in {Half, Most}
    PROVE  /\ Percentile(Filter(ts, Times), p).ok /\ Percentile(Filter(ts, Times), p).d \in Times
           /\ IsRank(ts, Percentile(Filter(ts, Times), p).d, p)
<1> DEFINE ds == Filter(ts, Times)
           t == Sorted(ds)
           N == Len(ds)
           m == rank(p, N) + 1
           d == t[m]
           lower == {x \in Times : x <= d}
           shorter == {x \in Times : x < d}
<1>1. ds \in Seq(Times) /\ N \in Nat /\ N > 0
  <2>1. ds \in Seq(Times \cup {0}) /\ ToSet(ds) \subseteq Times
    BY FilterType, FilterSet
  <2>2. \A i \in 1..Len(ds) : ds[i] \in Times
    BY <2>1 DEF ToSet
  <2> HIDE DEF ds
  <2>3. ds \in Seq(Times)
    BY <2>1, <2>2
  <2> QED
    BY <2>3 DEF ds
<1>2. Times \subseteq Int /\ 0 \notin Times
  BY SamplesAssumption
<1> HIDE DEF ds
<1>3. ds \in Seq(Int)
  BY <1>1, <1>2, SeqMonotonic
<1>4. ASSUME NEW C \in SUBSET Times PROVE /\ Among(t, N, C) = Among(ts, Len(ts), C)
                                          /\ Among(t, N, C) = Among(ds, N, C)
                                          /\ Among(t, N, C) \in Nat
  <2>1. Among(ds, N, C) = Among(ts, Len(ts), C)
    BY FilterCount DEF ds
  <2>2. Among(t, N, C) = Among(ds, N, C)
    BY <1>3, SortedFacts
  <2>3. Among(t, N, C) \in Nat
    BY <1>1, AmongNext
  <2> QED
    BY <2>1, <2>2, <2>3
<1>5. t \in Seq(Int) /\ Len(t) = N /\ Rising(t)
  BY <1>3, SortedFacts
<1>6. m \in 1..N /\ m * p[2] >= p[1] * N /\ (m - 1) * p[2] < p[1] * N /\ p[1] \in Nat /\ p[2] \in Nat
  <2>1. PICK r \in Nat : r = rank(p, N)
    BY <1>1, Ranks
  <2>2. r + 1 \in 1..N /\ (r + 1) * p[2] >= p[1] * N /\ r * p[2] < p[1] * N /\ p[1] \in Nat /\ p[2] \in Nat
    BY <1>1, <2>1, Ranks
  <2>3. m = r + 1 /\ m - 1 = r
    BY <2>1
  <2> QED
    BY <2>2, <2>3
<1>7. PICK u : u = t
  OBVIOUS
<1> HIDE DEF t, N, m
<1>8. IsFiniteSet(1..N) /\ Cardinality(1..N) = N
  <2>1. Cardinality(1..N) = IF 1 > N THEN 0 ELSE N - 1 + 1
    BY <1>1, FS_Interval
  <2> QED
    BY <1>1, <2>1, FS_Interval
<1>9. Among(t, N, Times) = N
  <2>1. {i \in 1..N : ds[i] \in Times} = 1..N
    BY <1>1 DEF N
  <2>2. Among(ds, N, Times) = N
    BY <1>8, <2>1 DEF Among
  <2> QED
    BY <1>4, <2>2
<1>10. \A i \in 1..N : t[i] \in Times
  <2> DEFINE I == {i \in 1..N : t[i] \in Times}
  <2>1. I \in SUBSET (1..N) /\ Cardinality(1..N) = Cardinality(I)
    BY <1>8, <1>9 DEF Among
  <2>2. 1..N = I
    BY <1>8, <2>1, FS_Subset
  <2> QED
    BY <2>2
<1>11. d \in Times /\ d \in Int
  BY <1>2, <1>6, <1>10
<1>12. ASSUME NEW C PROVE IsFiniteSet({i \in 1..N : t[i] \in C})
  <2>1. N \in Nat
    BY <1>1
  <2> QED
    BY <2>1, AmongNext
<1>13. Among(t, N, lower) >= m
  <2> DEFINE I == {i \in 1..N : t[i] \in lower}
  <2>1. (1..m) \in SUBSET I
    <3> SUFFICES ASSUME NEW i \in 1..m PROVE i \in I
      OBVIOUS
    <3>1. i \in 1..N /\ i <= m
      BY <1>1, <1>6
    <3>2. t[i] <= t[m] /\ t[i] \in Times
      BY <1>5, <1>6, <1>10, <3>1 DEF Rising
    <3> QED
      BY <3>1, <3>2
  <2>2. Cardinality(1..m) = m
    <3>1. m \in Int /\ Cardinality(1..m) = IF 1 > m THEN 0 ELSE m - 1 + 1
      BY <1>6, FS_Interval
    <3> QED
      BY <1>6, <3>1
  <2>3. IsFiniteSet(I)
    BY <1>12
  <2>4. Cardinality(1..m) <= Cardinality(I)
    BY <2>1, <2>3, FS_Subset
  <2>5. Cardinality(I) = Among(t, N, lower)
    BY DEF Among
  <2>6. Among(t, N, lower) \in Nat
    BY <1>4
  <2> QED
    BY <1>6, <2>2, <2>4, <2>5, <2>6
<1>14. Among(t, N, shorter) <= m - 1
  <2> DEFINE I == {i \in 1..N : t[i] \in shorter}
  <2>1. I \in SUBSET (1..(m - 1))
    <3> SUFFICES ASSUME NEW i \in 1..N, t[i] \in Times, t[i] < d PROVE i \in 1..(m - 1)
      OBVIOUS
    <3>0. t[i] \in Int /\ d \in Int
      BY <1>2, <1>11
    <3>1. ~ (t[m] <= t[i])
      BY <3>0
    <3>2. ~ (m <= i)
      BY <1>5, <1>6, <3>1 DEF Rising
    <3> QED
      BY <1>6, <3>2
  <2>2. IsFiniteSet(1..(m - 1)) /\ Cardinality(1..(m - 1)) = m - 1
    <3>0. PICK k \in Nat : k = m - 1
      BY <1>1, <1>6
    <3>1. IsFiniteSet(1..k) /\ Cardinality(1..k) = IF 1 > k THEN 0 ELSE k - 1 + 1
      BY FS_Interval
    <3> QED
      BY <3>0, <3>1
  <2>3. Cardinality(I) <= Cardinality(1..(m - 1))
    BY <2>1, <2>2, FS_Subset
  <2>4. Cardinality(I) = Among(t, N, shorter)
    BY DEF Among
  <2> QED
    BY <2>2, <2>3, <2>4
<1>15. Among(t, N, {d}) > 0
  <2> DEFINE I == {i \in 1..N : t[i] \in {d}}
  <2>1. m \in I /\ IsFiniteSet(I)
    BY <1>6, <1>12
  <2>2. Cardinality(I) # 0
    BY <2>1, FS_EmptySet
  <2>3. Cardinality(I) = Among(t, N, {d})
    BY DEF Among
  <2>4. Among(t, N, {d}) \in Nat
    BY <1>4, <1>11
  <2> QED
    BY <2>2, <2>3, <2>4
<1>16. DOMAIN ts = 1..Len(ts)
  OBVIOUS
<1>17. Percentile(ds, p).d = d /\ Percentile(ds, p).ok
  <2>1. ds # <<>>
    BY <1>1 DEF N
  <2> QED
    BY <2>1 DEF Percentile, t, m, N
<1> HIDE DEF d
<1>18. PICK a \in Nat : a = Among(t, N, lower)
  BY <1>4
<1>19. PICK b \in Nat : b = Among(t, N, shorter)
  BY <1>4
<1>20. a * p[2] >= p[1] * N /\ b * p[2] < p[1] * N
  <2>1. a >= m /\ b <= m - 1 /\ m \in Int
    BY <1>1, <1>6, <1>13, <1>14, <1>18, <1>19
  <2>2. CASE p = Half
    <3>1. p[1] = 1 /\ p[2] = 2
      BY <2>2 DEF Half
    <3> QED
      BY <1>1, <1>6, <2>1, <3>1
  <2>3. CASE p = Most
    <3>1. p[1] = 19 /\ p[2] = 20
      BY <2>3 DEF Most
    <3> QED
      BY <1>1, <1>6, <2>1, <3>1
  <2> QED
    BY <2>2, <2>3
<1>22. ASSUME NEW C \in SUBSET Times PROVE Cardinality({i \in DOMAIN ts : ts[i] \in C}) = Among(t, N, C)
  BY <1>4, <1>16 DEF Among
<1>23. Cardinality({i \in DOMAIN ts : ts[i] \in lower}) = a
  BY <1>18, <1>22
<1>24. Cardinality({i \in DOMAIN ts : ts[i] \in shorter}) = b
  BY <1>19, <1>22
<1>25. Cardinality({i \in DOMAIN ts : ts[i] \in Times}) = N
  BY <1>9, <1>22
<1>26. Cardinality({i \in DOMAIN ts : ts[i] \in {d}}) > 0
  BY <1>11, <1>15, <1>22
<1>27. IsRank(ts, d, p)
  BY <1>2, <1>11, <1>20, <1>23, <1>24, <1>25, <1>26 DEF IsRank
<1> QED
  BY <1>11, <1>17, <1>27 DEF ds

\* A phase is in the summary exactly if a boot reached it, with how many did.
LEMMA ReachedAre ==
    ASSUME NEW ts \in Seq(Times \cup {0})
    PROVE  /\ Len(Filter(ts, Times)) = Cardinality({i \in DOMAIN ts : ts[i] # 0})
           /\ Percentile(Filter(ts, Times), Half).ok <=> {i \in DOMAIN ts : ts[i] # 0} # {}
<1> DEFINE ds == Filter(ts, Times)
           I == {i \in DOMAIN ts : ts[i] # 0}
<1>1. ds \in Seq(Times \cup {0}) /\ ToSet(ds) \subseteq Times
  BY FilterType, FilterSet
<1>2. I = {i \in 1..Len(ts) : ts[i] \in Times} /\ DOMAIN ts = 1..Len(ts)
  BY SamplesAssumption
<1>3. Among(ds, Len(ds), Times) = Cardinality(I)
  <2>1. Among(ds, Len(ds), Times) = Among(ts, Len(ts), Times)
    BY FilterCount
  <2>2. Among(ts, Len(ts), Times) = Cardinality({i \in 1..Len(ts) : ts[i] \in Times})
    BY DEF Among
  <2> HIDE DEF I, ds
  <2> QED
    BY <1>2, <2>1, <2>2
<1>4. \A i \in 1..Len(ds) : ds[i] \in Times
  BY <1>1 DEF ToSet
<1>5. PICK n \in Nat : n = Len(ds)
  BY <1>1
<1>6. IsFiniteSet(I)
  <2>1. PICK m \in Nat : m = Len(ts)
    OBVIOUS
  <2>2. IsFiniteSet({i \in 1..m : ts[i] \in Times})
    BY AmongNext
  <2> HIDE DEF I
  <2> QED
    BY <1>2, <2>1, <2>2
<1> HIDE DEF ds, I
<1>7. {i \in 1..n : ds[i] \in Times} = 1..n
  BY <1>4, <1>5
<1>8. Cardinality(1..n) = IF 1 > n THEN 0 ELSE n - 1 + 1
  BY FS_Interval
<1>9. n = Cardinality(I)
  <2>1. Among(ds, n, Times) = Cardinality(1..n)
    BY <1>7 DEF Among
  <2>2. Among(ds, n, Times) = Cardinality(I)
    BY <1>3, <1>5
  <2> QED
    BY <1>8, <2>1, <2>2
<1>10. n = 0 <=> I = {}
  BY <1>6, <1>9, FS_EmptySet
<1>11. ds = <<>> <=> n = 0
  BY <1>1, <1>5
<1>12. Percentile(ds, Half).ok <=> ds # <<>>
  <2>1. CASE ds = <<>>
    BY <2>1 DEF Percentile
  <2>2. CASE ds # <<>>
    BY <2>2 DEF Percentile
  <2> QED
    BY <2>1, <2>2
<1> QED
  BY <1>5, <1>9, <1>10, <1>11, <1>12 DEF ds, I

\* SummaryIsRank for any phases, every number of boots and every time they take: p50 and p95
\* are ranks over the boots that reached the phase (Summarise, Percentile).
THEOREM SummariesAreRanks == SamplesSpec => []SummaryIsRank
<1> DEFINE Inv == runs \in Seq([Stages -> Times \cup {0}])
<1>1. SamplesInit => Inv
  BY DEF SamplesInit
<1>2. Inv /\ [SamplesNext]_samplesVars => Inv'
  BY DEF SamplesNext, Measure, samplesVars
<1>3. Inv => SummaryIsRank
  <2> SUFFICES ASSUME Inv PROVE SummaryIsRank
    OBVIOUS
  <2> DEFINE reached(p) == {i \in DOMAIN runs : runs[i][p] # 0}
             summed == {p \in Stages : Percentile(Reached(runs, p), Half).ok}
             phase(p) == [p50 |-> ms(Percentile(Reached(runs, p), Half).d),
                          p95 |-> ms(Percentile(Reached(runs, p), Most).d), n |-> Len(Reached(runs, p))]
             failed == {i \in DOMAIN runs : runs[i]["usable"] = 0}
             s == Summarise(runs)
  <2>1. ASSUME NEW p \in Stages
        PROVE  /\ Stamps(runs, p) \in Seq(Times \cup {0})
               /\ {i \in DOMAIN Stamps(runs, p) : Stamps(runs, p)[i] # 0} = reached(p)
    <3>1. DOMAIN runs = 1..Len(runs) /\ Len(runs) \in Nat /\ \A i \in DOMAIN runs : runs[i][p] \in Times \cup {0}
      OBVIOUS
    <3> QED
      BY <3>1 DEF Stamps
  <2>2. ASSUME NEW p \in Stages
        PROVE  (p \in summed <=> reached(p) # {}) /\ Len(Reached(runs, p)) = Cardinality(reached(p))
    BY <2>1, ReachedAre DEF Reached
  <2>3. s.boots = Len(runs) /\ s.failed = Cardinality(failed) /\ s.phases = [p \in summed |-> phase(p)]
    BY DEF Summarise
  <2>4. ASSUME NEW p \in summed
        PROVE  /\ s.phases[p].n = Cardinality(reached(p))
               /\ \E d \in Times : s.phases[p].p50 = ms(d) /\ IsRank(Stamps(runs, p), d, Half)
               /\ \E d \in Times : s.phases[p].p95 = ms(d) /\ IsRank(Stamps(runs, p), d, Most)
    <3>1. Stamps(runs, p) \in Seq(Times \cup {0}) /\ Reached(runs, p) = Filter(Stamps(runs, p), Times)
      BY <2>1 DEF Reached
    <3>2. Len(Reached(runs, p)) # 0
      <4>1. Percentile(Reached(runs, p), Half).ok
        OBVIOUS
      <4>2. Reached(runs, p) # <<>>
        BY <4>1 DEF Percentile
      <4> QED
        BY <3>1, <4>2, FilterType
    <3>3. ASSUME NEW q \in {Half, Most}
          PROVE  /\ Percentile(Reached(runs, p), q).d \in Times
                 /\ IsRank(Stamps(runs, p), Percentile(Reached(runs, p), q).d, q)
      BY <3>1, <3>2, PercentileIsRank
    <3>4. /\ s.phases[p].p50 = ms(Percentile(Reached(runs, p), Half).d)
          /\ s.phases[p].p95 = ms(Percentile(Reached(runs, p), Most).d)
          /\ s.phases[p].n = Len(Reached(runs, p))
      BY <2>3
    <3> HIDE DEF s
    <3> QED
      BY <2>2, <3>3, <3>4
  <2>5. Cardinality(failed) < Len(runs) <=> reached("usable") # {}
    <3>1. DOMAIN runs = 1..Len(runs) /\ Len(runs) \in Nat
      OBVIOUS
    <3>2. IsFiniteSet(1..Len(runs)) /\ Cardinality(1..Len(runs)) = IF 1 > Len(runs) THEN 0 ELSE Len(runs) - 1 + 1
      BY <3>1, FS_Interval
    <3>3. failed \in SUBSET (1..Len(runs)) /\ (failed = 1..Len(runs) <=> reached("usable") = {})
      BY <3>1
    <3>4. /\ IsFiniteSet(failed) /\ Cardinality(failed) <= Cardinality(1..Len(runs))
          /\ Cardinality(failed) = Cardinality(1..Len(runs)) => failed = 1..Len(runs)
      BY <3>2, <3>3, FS_Subset
    <3>5. Cardinality(failed) \in Nat /\ Cardinality(1..Len(runs)) = Len(runs)
      BY <3>1, <3>2, <3>4, FS_CardinalityType
    <3> HIDE DEF failed, reached
    <3> QED
      BY <3>1, <3>3, <3>4, <3>5
  <2>6. "usable" \in Stages
    BY SamplesAssumption
  <2>7. DOMAIN s.phases = summed /\ summed = {p \in Stages : reached(p) # {}}
    BY <2>2, <2>3
  <2> HIDE DEF summed
  <2>8. "usable" \in DOMAIN s.phases <=> s.failed < s.boots
    BY <2>3, <2>5, <2>6, <2>7
  <2> QED
    BY <2>4, <2>7, <2>8 DEF SummaryIsRank
<1> QED
  BY <1>1, <1>2, <1>3, PTL DEF SamplesSpec

-----------------------------------------------------------------------------
(* How far two command lines are apart.                                     *)

LEMMA OccurrencesType ==
    ASSUME NEW T, NEW args \in Seq(T), NEW arg
    PROVE  /\ Occurrences(arg, args) \in Nat /\ Occurrences(arg, args) <= Len(args)
           /\ Occurrences(arg, args) > 0 <=> arg \in ToSet(args)
<1> DEFINE I == {i \in DOMAIN args : args[i] = arg}
<1>1. PICK N \in Nat : N = Len(args) /\ DOMAIN args = 1..N
  OBVIOUS
<1>2. IsFiniteSet(1..N) /\ Cardinality(1..N) = N
  <2>1. IsFiniteSet(1..N) /\ Cardinality(1..N) = IF 1 > N THEN 0 ELSE N - 1 + 1
    BY FS_Interval
  <2> QED
    BY <2>1
<1>3. I \in SUBSET (1..N)
  BY <1>1
<1>4. IsFiniteSet(I) /\ Cardinality(I) <= N
  BY <1>2, <1>3, FS_Subset
<1>5. Cardinality(I) \in Nat /\ (Cardinality(I) = 0 <=> I = {})
  BY <1>4, FS_CardinalityType, FS_EmptySet
<1>6. I # {} <=> arg \in ToSet(args)
  BY DEF ToSet
<1>7. Occurrences(arg, args) = Cardinality(I)
  BY DEF Occurrences
<1> HIDE DEF I
<1> QED
  BY <1>1, <1>4, <1>5, <1>6, <1>7

LEMMA CopiesAre ==
    ASSUME NEW T, NEW args \in Seq(T)
    PROVE  /\ \A arg, n : <<arg, n>> \in Copies(args) <=> n \in 1..Occurrences(arg, args)
           /\ \A c \in Copies(args) : \E arg, n : c = <<arg, n>>
           /\ IsFiniteSet(Copies(args))
<1>1. PICK N \in Nat : N = Len(args) /\ DOMAIN args = 1..N
  OBVIOUS
<1>2. ASSUME NEW arg, NEW n PROVE <<arg, n>> \in Copies(args) <=> n \in 1..Occurrences(arg, args)
  <2>1. Occurrences(arg, args) \in Nat /\ Occurrences(arg, args) <= N /\ (Occurrences(arg, args) > 0 <=> arg \in ToSet(args))
    BY <1>1, OccurrencesType
  <2>2. <<arg, n>> \in Copies(args) <=> arg \in ToSet(args) /\ n \in 1..N /\ n <= Occurrences(arg, args)
    BY <1>1 DEF Copies
  <2> QED
    BY <2>1, <2>2
<1>3. \A c \in Copies(args) : \E arg, n : c = <<arg, n>>
  BY DEF Copies
<1>4. IsFiniteSet(Copies(args))
  <2>1. IsFiniteSet(1..N)
    BY FS_Interval
  <2>2. IsFiniteSet(ToSet(args))
    <3> DEFINE f == [i \in 1..N |-> args[i]]
    <3>1. f \in Surjection(1..N, ToSet(args))
      BY <1>1 DEF Surjection, ToSet
    <3> QED
      BY <2>1, <3>1, FS_Surjection
  <2>3. IsFiniteSet(ToSet(args) \X (1..N))
    BY <2>1, <2>2, FS_Product
  <2>4. Copies(args) \in SUBSET (ToSet(args) \X (1..N))
    BY <1>1 DEF Copies
  <2> QED
    BY <2>3, <2>4, FS_Subset
<1> QED
  BY <1>2, <1>3, <1>4

LEMMA DistanceType ==
    ASSUME NEW T, NEW a \in Seq(T), NEW b \in Seq(T)
    PROVE  distance(a, b) \in Nat /\ IsFiniteSet(SymDiff(Copies(a), Copies(b)))
<1>1. IsFiniteSet(Copies(a) \cup Copies(b))
  BY CopiesAre, FS_Union
<1>2. SymDiff(Copies(a), Copies(b)) \in SUBSET (Copies(a) \cup Copies(b))
  BY DEF SymDiff
<1>3. IsFiniteSet(SymDiff(Copies(a), Copies(b)))
  BY <1>1, <1>2, FS_Subset
<1> QED
  BY <1>3, FS_CardinalityType DEF distance

\* A command line beyond b, from where a is, is farther from a.
LEMMA Farther ==
    ASSUME NEW T, NEW a \in Seq(T), NEW b \in Seq(T), NEW d \in Seq(T),
           \A arg : \/ Occurrences(arg, a) <= Occurrences(arg, b) /\ Occurrences(arg, b) <= Occurrences(arg, d)
                    \/ Occurrences(arg, d) <= Occurrences(arg, b) /\ Occurrences(arg, b) <= Occurrences(arg, a),
           NEW x, Occurrences(x, b) # Occurrences(x, d)
    PROVE  distance(a, b) < distance(a, d)
<1> DEFINE B == SymDiff(Copies(a), Copies(b))
           D == SymDiff(Copies(a), Copies(d))
<1>1. \A arg : Occurrences(arg, a) \in Nat /\ Occurrences(arg, b) \in Nat /\ Occurrences(arg, d) \in Nat
  BY OccurrencesType
<1>2. \A s \in {a, b, d} : \A arg, n : <<arg, n>> \in Copies(s) <=> n \in 1..Occurrences(arg, s)
  BY CopiesAre
<1>3. B \in SUBSET D
  <2> SUFFICES ASSUME NEW c \in B PROVE c \in D
    OBVIOUS
  <2>1. PICK arg, n : c = <<arg, n>>
    BY CopiesAre DEF SymDiff
  <2>2. c \in Copies(a) /\ c \notin Copies(b) => c \notin Copies(d)
    BY <1>1, <1>2, <2>1
  <2>3. c \in Copies(b) /\ c \notin Copies(a) => c \in Copies(d)
    BY <1>1, <1>2, <2>1
  <2> QED
    BY <2>2, <2>3 DEF SymDiff
<1>4. PICK n \in Nat : n = IF Occurrences(x, b) < Occurrences(x, d) THEN Occurrences(x, d) ELSE Occurrences(x, b)
  BY <1>1
<1>5. <<x, n>> \in D /\ <<x, n>> \notin B
  <2>1. CASE Occurrences(x, b) < Occurrences(x, d)
    <3>0. n = Occurrences(x, d) /\ Occurrences(x, b) < n /\ Occurrences(x, a) < n
      BY <1>1, <1>4, <2>1
    <3>1. <<x, n>> \in Copies(d) /\ <<x, n>> \notin Copies(b) /\ <<x, n>> \notin Copies(a)
      <4>1. n \in 1..Occurrences(x, d) /\ n \notin 1..Occurrences(x, b) /\ n \notin 1..Occurrences(x, a)
        BY <1>1, <3>0
      <4> QED
        BY <1>2, <4>1
    <3> QED
      BY <3>1 DEF SymDiff
  <2>2. CASE Occurrences(x, d) < Occurrences(x, b)
    <3>1. <<x, n>> \notin Copies(d) /\ <<x, n>> \in Copies(b) /\ <<x, n>> \in Copies(a)
      BY <1>1, <1>2, <1>4, <2>2
    <3> QED
      BY <3>1 DEF SymDiff
  <2> QED
    BY <1>1, <2>1, <2>2
<1>6. IsFiniteSet(D)
  BY DistanceType
<1>7. Cardinality(B) <= Cardinality(D) /\ Cardinality(D) # Cardinality(B)
  <2>1. B # D
    BY <1>5
  <2> HIDE DEF B, D
  <2> QED
    BY <1>3, <1>6, <2>1, FS_Subset
<1>8. distance(a, b) = Cardinality(B) /\ distance(a, d) = Cardinality(D)
  BY DEF distance
<1>9. distance(a, b) \in Nat /\ distance(a, d) \in Nat
  BY DistanceType
<1> HIDE DEF B, D
<1> QED
  BY <1>7, <1>8, <1>9

-----------------------------------------------------------------------------
(* nearest.                                                                 *)

\* No two elements have the same name.
Named(s) == \A i, j \in 1..Len(s) : s[i].id = s[j].id => i = j

LEMMA FilterNamed ==
    ASSUME NEW E, NEW s \in Seq(E), NEW S, Named(s)
    PROVE  Named(Filter(s, S))
<1>0. PICK g \in [0..Len(s) -> Seq(E)] : Kept(g, s, S)
  BY FilterIs
<1>1. /\ Filter(s, S) = g[Len(s)]
      /\ g[0] = <<>>
      /\ \A n \in 1..Len(s) : g[n] = IF s[n] \in S THEN Append(g[n - 1], s[n]) ELSE g[n - 1]
  BY <1>0 DEF Kept
<1> DEFINE T == {n \in 0..Len(s) : Named(g[n]) /\ \A i \in 1..Len(g[n]) : \E j \in 1..n : g[n][i] = s[j]}
<1>2. 0 \in T
  <2>1. 0 \in 0..Len(s) /\ Len(g[0]) = 0
    BY <1>1
  <2> QED
    BY <2>1 DEF Named
<1>3. ASSUME NEW n \in 1..Len(s), n - 1 \in T PROVE n \in T
  <2>1. n \in Nat /\ n > 0 /\ n \in 0..Len(s) /\ n - 1 \in 0..Len(s) /\ s[n] \in E
    OBVIOUS
  <2>2. PICK a \in Seq(E) : a = g[n - 1]
    BY <2>1
  <2>3. Named(a) /\ \A i \in 1..Len(a) : \E j \in 1..(n - 1) : a[i] = s[j]
    BY <1>3, <2>2
  <2> HIDE DEF T
  <2>4. CASE s[n] \in S
    <3>1. g[n] = Append(a, s[n])
      BY <1>1, <2>2, <2>4
    <3>2. Len(a) \in Nat /\ Len(g[n]) = Len(a) + 1 /\ g[n][Len(a) + 1] = s[n] /\ \A i \in 1..Len(a) : g[n][i] = a[i]
      BY <2>1, <3>1, AppendProperties
    <3>3. \A i \in 1..Len(a) : a[i].id # s[n].id
      <4> SUFFICES ASSUME NEW i \in 1..Len(a), a[i].id = s[n].id PROVE FALSE
        OBVIOUS
      <4>1. PICK j \in 1..(n - 1) : a[i] = s[j]
        BY <2>3
      <4>2. j \in 1..Len(s) /\ j # n
        BY <2>1
      <4> QED
        BY <4>1, <4>2 DEF Named
    <3>4. \A i \in 1..Len(g[n]) : i \in 1..Len(a) \/ i = Len(a) + 1
      BY <3>2
    <3>5. Named(g[n])
      BY <2>3, <3>2, <3>3, <3>4 DEF Named
    <3>6. ASSUME NEW i \in 1..Len(g[n]) PROVE \E j \in 1..n : g[n][i] = s[j]
      <4>1. CASE i \in 1..Len(a)
        <5>1. PICK j \in 1..(n - 1) : a[i] = s[j]
          BY <2>3, <4>1
        <5>2. j \in 1..n
          BY <2>1
        <5> QED
          BY <3>2, <4>1, <5>1, <5>2
      <4>2. CASE i = Len(a) + 1
        BY <2>1, <3>2, <4>2
      <4> QED
        BY <3>4, <4>1, <4>2
    <3> QED
      BY <2>1, <3>5, <3>6 DEF T
  <2>5. CASE s[n] \notin S
    <3>1. g[n] = a
      BY <1>1, <2>2, <2>5
    <3>2. \A j \in 1..(n - 1) : j \in 1..n
      BY <2>1
    <3>3. \A i \in 1..Len(g[n]) : \E j \in 1..n : g[n][i] = s[j]
      BY <2>3, <3>1, <3>2
    <3> QED
      BY <2>1, <2>3, <3>1, <3>3 DEF T
  <2> QED
    BY <2>4, <2>5
<1>4. Len(s) \in Nat
  OBVIOUS
<1> HIDE DEF T
<1>5. 0..Len(s) \subseteq T
  BY <1>2, <1>3, <1>4, Upto
<1>6. Len(s) \in T
  BY <1>4, <1>5
<1> QED
  BY <1>1, <1>6 DEF T

\* What nearest's loop keeps: the best so far.
Bests(E) == [row : E, n : Nat, found : BOOLEAN, tie : BOOLEAN]

None(r) == [row |-> r, n |-> 0, found |-> FALSE, tie |-> FALSE]

\* g[i] is the best after i turns.
Searched(g, r, among) ==
    /\ nearest(r, among) = [row |-> g[Len(among)].row, ok |-> g[Len(among)].found /\ ~ g[Len(among)].tie]
    /\ g[0] = None(r)
    /\ \A i \in 1..Len(among) : g[i] = closer(r, g[i - 1], among[i])

LEMMA CloserType ==
    ASSUME NEW E, NEW r, NEW best \in Bests(E), NEW c \in E, distance(r.args, c.args) \in Nat
    PROVE  closer(r, best, c) \in Bests(E)
<1> DEFINE d == distance(r.args, c.args)
<1>1. [row |-> c, n |-> d, found |-> TRUE, tie |-> FALSE] \in Bests(E)
  BY DEF Bests
<1>2. [best EXCEPT !.tie = best.tie \/ d = best.n] \in Bests(E)
  <2>1. (best.tie \/ d = best.n) \in BOOLEAN
    OBVIOUS
  <2> QED
    BY <2>1 DEF Bests
<1> HIDE DEF d
<1> QED
  BY <1>1, <1>2, Zenon DEF closer, d

LEMMA SearchedIs ==
    ASSUME NEW E, NEW r \in E, NEW among \in Seq(E), \A c \in E : distance(r.args, c.args) \in Nat
    PROVE  \E g \in [0..Len(among) -> Bests(E)] : Searched(g, r, among)
<1> DEFINE N == Len(among)
           turn == [n \in 1..N |-> [a \in Bests(E) |-> closer(r, a, among[n])]]
           F(f) == [i \in 0..N |-> IF i = 0 THEN None(r) ELSE closer(r, f[i - 1], among[i])]
           g == CHOOSE f : f = F(f)
<1>1. nearest(r, among) = [row |-> g[N].row, ok |-> g[N].found /\ ~ g[N].tie]
  BY DEF nearest, None
<1>2. N \in Nat /\ \A n \in 1..N : among[n] \in E
  OBVIOUS
<1>3. None(r) \in Bests(E)
  BY DEF None, Bests
<1> HIDE DEF N
<1>4. \A n \in 1..N : \A a \in Bests(E) : turn[n][a] = closer(r, a, among[n])
  OBVIOUS
<1>5. \A n \in 1..N : \A a \in Bests(E) : closer(r, a, among[n]) \in Bests(E)
  BY <1>2, CloserType
<1> HIDE DEF turn
<1>6. PICK f \in [0..N -> Bests(E)] : Loop(f, turn, N, None(r))
  <2>1. Closed(turn, N, Bests(E))
    BY <1>4, <1>5 DEF Closed
  <2>2. \E f \in [0..N -> Bests(E)] : Loop(f, turn, N, None(r))
    BY <1>2, <1>3, <2>1, Turns
  <2> QED
    BY <2>2
<1>7. f[0] = None(r) /\ \A n \in 1..N : f[n] = closer(r, f[n - 1], among[n])
  <2>1. f[0] = None(r) /\ \A n \in 1..N : f[n] = turn[n][f[n - 1]]
    BY <1>6 DEF Loop
  <2>2. \A n \in 1..N : n - 1 \in 0..N
    BY <1>2
  <2>3. \A n \in 1..N : f[n - 1] \in Bests(E)
    BY <2>2
  <2> QED
    BY <1>4, <2>1, <2>3, Zenon
<1>8. f = F(f)
  <2>1. \A n \in 0..N : n = 0 \/ n \in 1..N
    BY <1>2
  <2>2. \A n \in 0..N : f[n] = F(f)[n]
    BY <1>7, <2>1
  <2> QED
    BY <2>2
<1>9. g = F(g)
  BY <1>8, Zenon
<1> HIDE DEF g
<1>10. g[0] = None(r) /\ \A n \in 1..N : g[n] = closer(r, g[n - 1], among[n])
  <2>1. \A n \in 0..N : g[n] = F(g)[n]
    BY <1>9, Zenon
  <2>2. 0 \in 0..N /\ \A n \in 1..N : n \in 0..N /\ n # 0
    BY <1>2
  <2> QED
    BY <2>1, <2>2
<1>11. \A n \in 0..N : g[n] \in Bests(E)
  <2> DEFINE T == {n \in 0..N : g[n] \in Bests(E)}
  <2>1. 0 \in T
    BY <1>2, <1>3, <1>10
  <2>2. ASSUME NEW n \in 1..N, n - 1 \in T PROVE n \in T
    <3>1. g[n - 1] \in Bests(E) /\ n \in 0..N
      BY <1>2, <2>2
    <3> QED
      BY <1>5, <1>10, <3>1
  <2> HIDE DEF T
  <2>3. 0..N \subseteq T
    BY <1>2, <2>1, <2>2, Upto
  <2> QED
    BY <2>3 DEF T
<1>12. g \in [0..N -> Bests(E)]
  BY <1>9, <1>11
<1> QED
  BY <1>1, <1>10, <1>12 DEF Searched, N

\* b is the best of the first i rows.
IsBest(b, r, among, i) ==
    IF b.found
    THEN \E j \in 1..i :
           /\ b.row = among[j] /\ CanStand(r, among[j]) /\ b.n = distance(r.args, among[j].args)
           /\ \A k \in 1..i : CanStand(r, among[k]) => b.n <= distance(r.args, among[k].args)
           /\ b.tie <=> \E k \in 1..i : k # j /\ CanStand(r, among[k]) /\ distance(r.args, among[k].args) = b.n
    ELSE \A k \in 1..i : ~ CanStand(r, among[k])

\* A turn of the loop.
LEMMA StillBest ==
    ASSUME NEW E, NEW r \in E, NEW among \in Seq(E), \A c \in E : distance(r.args, c.args) \in Nat,
           NEW i \in 1..Len(among), NEW b \in Bests(E), IsBest(b, r, among, i - 1)
    PROVE  IsBest(closer(r, b, among[i]), r, among, i)
<1>1. PICK stands \in [1..Len(among) -> BOOLEAN] : \A k \in 1..Len(among) : stands[k] = CanStand(r, among[k])
  <2> DEFINE f == [k \in 1..Len(among) |-> CanStand(r, among[k])]
  <2>1. \A k \in 1..Len(among) : CanStand(r, among[k]) \in BOOLEAN
    BY DEF CanStand
  <2>2. f \in [1..Len(among) -> BOOLEAN] /\ \A k \in 1..Len(among) : f[k] = CanStand(r, among[k])
    BY <2>1
  <2> QED
    BY <2>2
<1>2. PICK far \in [1..Len(among) -> Nat] : \A k \in 1..Len(among) : far[k] = distance(r.args, among[k].args)
  <2> DEFINE f == [k \in 1..Len(among) |-> distance(r.args, among[k].args)]
  <2>1. \A k \in 1..Len(among) : distance(r.args, among[k].args) \in Nat
    OBVIOUS
  <2>2. f \in [1..Len(among) -> Nat] /\ \A k \in 1..Len(among) : f[k] = distance(r.args, among[k].args)
    BY <2>1
  <2> QED
    BY <2>2
<1>3. /\ Len(among) \in Nat /\ i \in Nat /\ i > 0 /\ i \in 1..i
      /\ \A k \in 1..i : k \in 1..Len(among) /\ (k = i \/ k \in 1..(i - 1))
      /\ \A k \in 1..(i - 1) : k \in 1..i /\ k # i
  OBVIOUS
<1>4. b.found \in BOOLEAN /\ b.tie \in BOOLEAN /\ b.n \in Nat
  BY DEF Bests
<1>5. CASE ~ stands[i]
  <2>1. closer(r, b, among[i]) = b
    BY <1>1, <1>5 DEF closer
  <2>2. CASE b.found
    <3>1. PICK j \in 1..(i - 1) :
             /\ b.row = among[j] /\ CanStand(r, among[j]) /\ b.n = distance(r.args, among[j].args)
             /\ \A k \in 1..(i - 1) : CanStand(r, among[k]) => b.n <= distance(r.args, among[k].args)
             /\ b.tie <=> \E k \in 1..(i - 1) : k # j /\ CanStand(r, among[k]) /\ distance(r.args, among[k].args) = b.n
      BY <2>2 DEF IsBest
    <3>2. ~ CanStand(r, among[i])
      BY <1>1, <1>5
    <3>3. \A k \in 1..i : CanStand(r, among[k]) => k \in 1..(i - 1)
      BY <1>3, <3>2
    <3>4. \A k \in 1..i : CanStand(r, among[k]) => b.n <= distance(r.args, among[k].args)
      BY <3>1, <3>3
    <3>5. b.tie <=> \E k \in 1..i : k # j /\ CanStand(r, among[k]) /\ distance(r.args, among[k].args) = b.n
      BY <1>3, <3>1, <3>3
    <3> QED
      BY <1>3, <2>1, <2>2, <3>1, <3>4, <3>5 DEF IsBest
  <2>3. CASE ~ b.found
    BY <1>1, <1>3, <1>5, <2>1, <2>3 DEF IsBest
  <2> QED
    BY <2>2, <2>3
<1>6. CASE stands[i] /\ (~ b.found \/ far[i] < b.n)
  <2>1. closer(r, b, among[i]) = [row |-> among[i], n |-> far[i], found |-> TRUE, tie |-> FALSE]
    BY <1>1, <1>2, <1>6 DEF closer
  <2>2. PICK e : e = closer(r, b, among[i])
    OBVIOUS
  <2>3. e.row = among[i] /\ e.n = far[i] /\ e.found = TRUE /\ e.tie = FALSE
    BY <2>1, <2>2
  <2>4. \A k \in 1..(i - 1) : stands[k] => far[i] < far[k]
    <3>1. CASE b.found
      <4>1. \A k \in 1..(i - 1) : CanStand(r, among[k]) => b.n <= distance(r.args, among[k].args)
        BY <3>1 DEF IsBest
      <4>2. \A k \in 1..(i - 1) : stands[k] => b.n <= far[k]
        BY <1>1, <1>2, <1>3, <4>1
      <4>3. far[i] < b.n
        BY <1>6, <3>1
      <4>4. \A k \in 1..(i - 1) : far[k] \in Nat
        BY <1>3
      <4>5. far[i] \in Nat
        BY <1>3
      <4> QED
        BY <1>4, <4>2, <4>3, <4>4, <4>5
    <3>2. CASE ~ b.found
      BY <1>1, <1>3, <3>2 DEF IsBest
    <3> QED
      BY <3>1, <3>2
  <2>t. \A k \in 1..i : far[k] \in Nat /\ far[i] \in Nat
    BY <1>3
  <2>5. \A k \in 1..i : stands[k] => far[i] <= far[k]
    BY <1>3, <2>4, <2>t
  <2>6. ~ \E k \in 1..i : k # i /\ stands[k] /\ far[k] = far[i]
    BY <1>3, <2>4, <2>t
  <2>7. /\ \A k \in 1..i : CanStand(r, among[k]) => e.n <= distance(r.args, among[k].args)
        /\ ~ \E k \in 1..i : k # i /\ CanStand(r, among[k]) /\ distance(r.args, among[k].args) = e.n
        /\ CanStand(r, among[i]) /\ e.n = distance(r.args, among[i].args)
    BY <1>1, <1>2, <1>3, <1>6, <2>3, <2>5, <2>6
  <2>8. IsBest(e, r, among, i)
    BY <1>3, <2>3, <2>7 DEF IsBest
  <2> QED
    BY <2>2, <2>8
<1>7. CASE stands[i] /\ b.found /\ ~ (far[i] < b.n)
  <2>1. closer(r, b, among[i]) = [b EXCEPT !.tie = b.tie \/ far[i] = b.n]
    BY <1>1, <1>2, <1>7 DEF closer
  <2>2. PICK e : e = closer(r, b, among[i])
    OBVIOUS
  <2>3. e.row = b.row /\ e.n = b.n /\ e.found = b.found
    BY <2>1, <2>2 DEF Bests
  <2>4. e.tie <=> b.tie \/ far[i] = b.n
    BY <2>1, <2>2 DEF Bests
  <2>5. PICK j \in 1..(i - 1) :
           /\ b.row = among[j] /\ CanStand(r, among[j]) /\ b.n = distance(r.args, among[j].args)
           /\ \A k \in 1..(i - 1) : CanStand(r, among[k]) => b.n <= distance(r.args, among[k].args)
           /\ b.tie <=> \E k \in 1..(i - 1) : k # j /\ CanStand(r, among[k]) /\ distance(r.args, among[k].args) = b.n
    BY <1>7 DEF IsBest
  <2>6. b.n <= far[i] /\ CanStand(r, among[i]) /\ far[i] = distance(r.args, among[i].args)
    BY <1>1, <1>2, <1>4, <1>7
  <2>7. \A k \in 1..i : CanStand(r, among[k]) => b.n <= distance(r.args, among[k].args)
    BY <1>3, <2>5, <2>6
  <2>8. e.tie <=> \E k \in 1..i : k # j /\ CanStand(r, among[k]) /\ distance(r.args, among[k].args) = b.n
    <3>1. CASE e.tie
      <4>1. CASE b.tie
        BY <1>3, <2>5, <3>1, <4>1
      <4>2. CASE far[i] = b.n
        BY <1>3, <2>6, <3>1, <4>2
      <4> QED
        BY <2>4, <3>1, <4>1, <4>2
    <3>2. CASE ~ e.tie
      <4>1. ~ b.tie /\ far[i] # b.n
        BY <2>4, <3>2
      <4> QED
        BY <1>3, <2>5, <2>6, <3>2, <4>1
    <3> QED
      BY <3>1, <3>2
  <2>9. IsBest(e, r, among, i)
    BY <1>3, <1>7, <2>3, <2>5, <2>7, <2>8 DEF IsBest
  <2> QED
    BY <2>2, <2>9
<1> QED
  BY <1>5, <1>6, <1>7

\* nearest finds a row if and only if no other is as near.
FindsNearest(r, among) == \A c : nearest(r, among).ok /\ nearest(r, among).row = c <=> NearestSet(r, among) = {c}

LEMMA NearestIs ==
    ASSUME NEW E, NEW r \in E, NEW among \in Seq(E), \A c \in E : distance(r.args, c.args) \in Nat, Named(among)
    PROVE  FindsNearest(r, among)
<1>1. PICK g \in [0..Len(among) -> Bests(E)] : Searched(g, r, among)
  BY SearchedIs
<1>2. /\ nearest(r, among) = [row |-> g[Len(among)].row, ok |-> g[Len(among)].found /\ ~ g[Len(among)].tie]
      /\ g[0] = None(r)
      /\ \A i \in 1..Len(among) : g[i] = closer(r, g[i - 1], among[i])
  BY <1>1 DEF Searched
<1>3. Len(among) \in Nat /\ Len(among) \in 0..Len(among) /\ 0 \in 0..Len(among)
  OBVIOUS
<1> DEFINE T == {i \in 0..Len(among) : IsBest(g[i], r, among, i)}
<1>4. 0 \in T
  BY <1>2, <1>3 DEF IsBest, None
<1>5. ASSUME NEW i \in 1..Len(among), i - 1 \in T PROVE i \in T
  <2>1. i \in 0..Len(among) /\ i - 1 \in 0..Len(among)
    OBVIOUS
  <2>2. g[i - 1] \in Bests(E) /\ IsBest(g[i - 1], r, among, i - 1)
    BY <1>5, <2>1
  <2>3. IsBest(closer(r, g[i - 1], among[i]), r, among, i)
    BY <2>2, StillBest
  <2> QED
    BY <1>2, <2>1, <2>3
<1> HIDE DEF T
<1>6. 0..Len(among) \subseteq T
  BY <1>3, <1>4, <1>5, Upto
<1>7. PICK b \in Bests(E) : b = g[Len(among)] /\ IsBest(b, r, among, Len(among))
  BY <1>3, <1>6 DEF T
<1>8. nearest(r, among).row = b.row /\ (nearest(r, among).ok <=> b.found /\ ~ b.tie)
  <2>0. PICK ok \in BOOLEAN : ok = (b.found /\ ~ b.tie)
    OBVIOUS
  <2>1. nearest(r, among) = [row |-> b.row, ok |-> ok]
    BY <1>2, <1>7, <2>0, Zenon
  <2>2. nearest(r, among).row = b.row
    BY <2>1
  <2>3. nearest(r, among).ok = (b.found /\ ~ b.tie)
    <3>1. nearest(r, among).ok = ok
      BY <2>1
    <3> QED
      BY <2>0, <3>1, Zenon
  <2> QED
    BY <2>2, <2>3, Zenon
<1> DEFINE dom == 1..Len(among)
<1>9. \A c : c \in NearestSet(r, among) <=>
         \E i \in dom : /\ c = among[i] /\ CanStand(r, among[i])
                        /\ \A k \in dom : CanStand(r, among[k]) => distance(r.args, among[i].args) <= distance(r.args, among[k].args)
  <2>1. DOMAIN among = dom
    OBVIOUS
  <2>2. \A x : x \in ToSet(among) <=> \E i \in dom : x = among[i]
    BY <2>1 DEF ToSet
  <2> QED
    BY <2>2 DEF NearestSet
<1>10. \A i, k \in dom : among[i] = among[k] => i = k
  BY DEF Named
<1>11. \A i \in dom : distance(r.args, among[i].args) \in Nat
  OBVIOUS
<1>12. CASE ~ b.found
  <2>1. \A k \in dom : ~ CanStand(r, among[k])
    BY <1>7, <1>12 DEF IsBest
  <2>2. NearestSet(r, among) = {}
    BY <1>9, <2>1
  <2> QED
    BY <1>8, <1>12, <2>2 DEF FindsNearest
<1>13. CASE b.found
  <2>1. PICK j \in dom :
           /\ b.row = among[j] /\ CanStand(r, among[j]) /\ b.n = distance(r.args, among[j].args)
           /\ \A k \in dom : CanStand(r, among[k]) => b.n <= distance(r.args, among[k].args)
           /\ b.tie <=> \E k \in dom : k # j /\ CanStand(r, among[k]) /\ distance(r.args, among[k].args) = b.n
    BY <1>7, <1>13 DEF IsBest
  <2>2. among[j] \in NearestSet(r, among)
    BY <1>9, <2>1
  <2>3. CASE b.tie
    <3>1. PICK k \in dom : k # j /\ CanStand(r, among[k]) /\ distance(r.args, among[k].args) = b.n
      BY <2>1, <2>3
    <3>2. among[k] \in NearestSet(r, among)
      BY <1>9, <2>1, <3>1
    <3>3. among[k] # among[j]
      BY <1>10, <3>1
    <3> QED
      BY <1>8, <2>2, <2>3, <3>2, <3>3 DEF FindsNearest
  <2>4. CASE ~ b.tie
    <3>1. ASSUME NEW c \in NearestSet(r, among) PROVE c = among[j]
      <4>1. PICK i \in dom : /\ c = among[i] /\ CanStand(r, among[i])
                             /\ \A k \in dom : CanStand(r, among[k]) => distance(r.args, among[i].args) <= distance(r.args, among[k].args)
        BY <1>9
      <4>2. distance(r.args, among[i].args) = b.n
        <5>1. distance(r.args, among[i].args) <= b.n /\ b.n <= distance(r.args, among[i].args)
          BY <2>1, <4>1
        <5> QED
          BY <1>11, <2>1, <5>1
      <4> QED
        BY <2>1, <2>4, <4>1, <4>2
    <3>2. NearestSet(r, among) = {among[j]}
      BY <2>2, <3>1
    <3> QED
      BY <1>8, <1>13, <2>1, <2>4, <3>2 DEF FindsNearest
  <2> QED
    BY <2>3, <2>4
<1> QED
  BY <1>12, <1>13

\* What IsSection says of a section, for the sets of rows that Filter and nearest are about.
LEMMA SectionIs ==
    ASSUME NEW rows, IsSection(rows)
    PROVE  /\ rows \in Seq(ToSet(rows)) /\ Named(rows)
           /\ \A r \in ToSet(rows) : r.args \in Seq(STRING)
           /\ \A r, q \in ToSet(rows) : r.id = q.id => r = q
<1>1. rows \in Seq(ToSet(rows)) /\ DOMAIN rows = 1..Len(rows)
  BY DEF IsSection
<1>2. Named(rows)
  BY <1>1 DEF IsSection, Named
<1>3. \A r \in ToSet(rows) : r.args \in Seq(STRING)
  BY DEF IsSection, IsRow
<1>4. \A r, q \in ToSet(rows) : r.id = q.id => r = q
  BY DEF IsSection, ToSet
<1> QED
  BY <1>1, <1>2, <1>3, <1>4

\* Rows only one report has.
LEMMA OnlyIs ==
    ASSUME NEW rows, IsSection(rows), NEW others
    PROVE  /\ only(rows, others) \in Seq(ToSet(rows)) /\ Named(only(rows, others))
           /\ ToSet(only(rows, others)) = {r \in ToSet(rows) : \A o \in ToSet(others) : o.id # r.id}
<1> DEFINE S == {r \in ToSet(rows) : \A o \in ToSet(others) : o.id # r.id}
<1>1. rows \in Seq(ToSet(rows)) /\ Named(rows)
  BY SectionIs
<1>2. Filter(rows, S) \in Seq(ToSet(rows))
  BY <1>1, FilterType
<1>3. Named(Filter(rows, S))
  BY <1>1, FilterNamed
<1>4. ToSet(Filter(rows, S)) = ToSet(rows) \cap S
  BY <1>1, FilterSet
<1>5. ToSet(rows) \cap S = S
  OBVIOUS
<1> QED
  BY <1>2, <1>3, <1>4, <1>5 DEF only

\* Two sections side by side: nearest is right about any of their rows.
LEMMA NearestRow ==
    ASSUME NEW before, IsSection(before), NEW after, IsSection(after),
           NEW r \in ToSet(before) \cup ToSet(after),
           NEW among, Named(among), among \in Seq(ToSet(before)) \/ among \in Seq(ToSet(after))
    PROVE  FindsNearest(r, among)
<1> DEFINE E == ToSet(before) \cup ToSet(after)
<1>1. among \in Seq(E)
  <2>1. ToSet(before) \subseteq E /\ ToSet(after) \subseteq E
    OBVIOUS
  <2> QED
    BY <2>1, SeqMonotonic
<1>2. \A c \in E : c.args \in Seq(STRING)
  BY SectionIs
<1>3. \A c \in E : distance(r.args, c.args) \in Nat
  BY <1>2, DistanceType
<1> HIDE DEF E
<1>4. r \in E
  BY DEF E
<1> QED
  BY <1>1, <1>3, <1>4, NearestIs

\* Pairs are the rows that are each other's only nearest.
LEMMA RenamesAre ==
    ASSUME NEW before, IsSection(before), NEW after, IsSection(after),
           NEW olds, olds = only(before, after), NEW news, news = only(after, before)
    PROVE  renames(olds, news) = {p \in ToSet(news) \X ToSet(olds) :
                                    NearestSet(p[1], olds) = {p[2]} /\ NearestSet(p[2], news) = {p[1]}}
<1>1. /\ olds \in Seq(ToSet(before)) /\ Named(olds) /\ ToSet(olds) \subseteq ToSet(before)
      /\ news \in Seq(ToSet(after)) /\ Named(news) /\ ToSet(news) \subseteq ToSet(after)
  BY OnlyIs
<1>2. \A r, c \in ToSet(after) : r.id = c.id => r = c
  BY SectionIs
<1>3. ASSUME NEW r \in ToSet(news), NEW o
      PROVE  nearest(r, olds).ok /\ nearest(r, olds).row = o <=> NearestSet(r, olds) = {o}
  <2>1. FindsNearest(r, olds)
    BY <1>1, NearestRow
  <2> QED
    BY <2>1 DEF FindsNearest
<1>4. ASSUME NEW o \in ToSet(olds), NEW r
      PROVE  nearest(o, news).ok /\ nearest(o, news).row = r <=> NearestSet(o, news) = {r}
  <2>1. FindsNearest(o, news)
    BY <1>1, NearestRow
  <2> QED
    BY <2>1 DEF FindsNearest
<1>5. ASSUME NEW r \in ToSet(news), NEW o \in ToSet(olds)
      PROVE  standsForBoth(r, o, news) <=> NearestSet(o, news) = {r}
  <2>1. ASSUME nearest(o, news).ok PROVE nearest(o, news).row \in ToSet(after)
    <3>1. NearestSet(o, news) = {nearest(o, news).row}
      BY <1>4, <2>1
    <3> QED
      BY <1>1, <3>1 DEF NearestSet
  <2>2. r \in ToSet(after)
    BY <1>1
  <2>3. standsForBoth(r, o, news) <=> nearest(o, news).ok /\ nearest(o, news).row = r
    BY <1>2, <2>1, <2>2 DEF standsForBoth
  <2> QED
    BY <1>4, <2>3
<1>6. ASSUME NEW r \in ToSet(news), nearest(r, olds).ok PROVE nearest(r, olds).row \in ToSet(olds)
  <2>1. NearestSet(r, olds) = {nearest(r, olds).row}
    BY <1>3, <1>6
  <2> QED
    BY <2>1 DEF NearestSet
<1>7. \A p \in renames(olds, news) : \E r \in ToSet(news), o \in ToSet(olds) :
         p = <<r, o>> /\ NearestSet(r, olds) = {o} /\ NearestSet(o, news) = {r}
  <2> SUFFICES ASSUME NEW r \in ToSet(news), nearest(r, olds).ok, standsForBoth(r, nearest(r, olds).row, news)
               PROVE  \E o \in ToSet(olds) : nearest(r, olds).row = o /\ NearestSet(r, olds) = {o} /\ NearestSet(o, news) = {r}
    BY DEF renames
  <2> QED
    BY <1>3, <1>5, <1>6
<1>8. ASSUME NEW r \in ToSet(news), NEW o \in ToSet(olds), NearestSet(r, olds) = {o}, NearestSet(o, news) = {r}
      PROVE  <<r, o>> \in renames(olds, news)
  <2>1. nearest(r, olds).ok /\ nearest(r, olds).row = o /\ standsForBoth(r, o, news)
    BY <1>3, <1>5, <1>8
  <2> QED
    BY <2>1 DEF renames
<1> QED
  BY <1>7, <1>8

-----------------------------------------------------------------------------
(* What section says of every row.                                          *)

LEMMA Wordings ==
    /\ \A x, y : <<"was", x>> = <<"was", y>> => x = y
    /\ \A x : <<"was", x>> \notin {<<"measured">>, <<"command line">>, <<"new row">>, <<"row gone">>}
    /\ <<"new row">> \notin {<<"measured">>, <<"command line">>, <<"row gone">>}
    /\ <<"row gone">> \notin {<<"measured">>, <<"command line">>, <<"new row">>}
<1>1. ASSUME NEW x, NEW y, <<"was", x>> = <<"was", y>> PROVE x = y
  BY <1>1
<1>2. \A x : <<"was", x>>[1] = "was"
  OBVIOUS
<1>3. \A x \in {"measured", "command line", "new row", "row gone"} : <<x>>[1] = x
  OBVIOUS
<1>4. \A x : <<"was", x>> \notin {<<"measured">>, <<"command line">>, <<"new row">>, <<"row gone">>}
  BY <1>2, <1>3
<1>5. <<"new row">> \notin {<<"measured">>, <<"command line">>, <<"row gone">>}
  BY <1>3
<1>6. <<"row gone">> \notin {<<"measured">>, <<"command line">>, <<"new row">>}
  BY <1>3
<1> QED
  BY <1>1, <1>4, <1>5, <1>6

\* A line of a section says what of the row called id.
Says(id, what) == \E l \in section(old, new, partial) : l.id = id /\ what \in l.what

Was(id, x) == Says(id, <<"was", x>>)

Same == {p \in ToSet(new) \X ToSet(old) : p[1].id = p[2].id}
Renamed == renames(Olds, News)

\* The rows called id and x are a pair.
Paired(id, x) == \E p \in Renamed : p[1].id = id /\ p[2].id = x

LEMMA SaysWhat ==
    /\ \A id, x : Was(id, x) <=> Paired(id, x)
    /\ \A id : Says(id, <<"new row">>) <=> \E r \in ToSet(new) : r.id = id /\ \A p \in Same \cup Renamed : p[1] # r
    /\ \A id : Says(id, <<"row gone">>) <=>
                 \E o \in ToSet(old) : o.id = id /\ ~ partial /\ \A p \in Same \cup Renamed : p[2] # o
<1> DEFINE Fresh == {r \in ToSet(new) : \A p \in Same \cup Renamed : p[1] # r}
           Gone == {o \in ToSet(old) : ~ partial /\ \A p \in Same \cup Renamed : p[2] # o}
           steady == {Line(p[1].id, moved(p[2], p[1])) : p \in Same}
           known == {Line(p[1].id, {<<"was", p[2].id>>} \cup moved(p[2], p[1])) : p \in Renamed}
           fresh == {Line(r.id, {<<"new row">>}) : r \in Fresh}
           gone == {Line(o.id, {<<"row gone">>}) : o \in Gone}
           M == {<<"measured">>, <<"command line">>}
           was(x) == <<"was", x>>
           NR == <<"new row">>
           RG == <<"row gone">>
<1>1. section(old, new, partial) = {l \in steady \cup known : l.what # {}} \cup fresh \cup gone
  BY Zenon DEF section, Same, Renamed, Olds, News
<1>2. \A id, what : Line(id, what).id = id /\ Line(id, what).what = what
  BY DEF Line
<1>3. \A o, r : moved(o, r) \subseteq M
  BY DEF moved
<1>4. /\ \A x, y : was(x) = was(y) => x = y
      /\ \A x : was(x) \notin M /\ was(x) # NR /\ was(x) # RG
      /\ NR \notin M /\ RG \notin M /\ NR # RG
  BY Wordings
<1> HIDE DEF M, was, NR, RG
<1>5. \A l \in steady : l.what \subseteq M
  BY <1>2, <1>3
<1>6. \A l \in known : \E p \in Renamed : l.id = p[1].id /\ was(p[2].id) \in l.what /\ l.what \subseteq {was(p[2].id)} \cup M
  <2> SUFFICES ASSUME NEW p \in Renamed, NEW l, l = Line(p[1].id, {was(p[2].id)} \cup moved(p[2], p[1]))
               PROVE  l.id = p[1].id /\ was(p[2].id) \in l.what /\ l.what \subseteq {was(p[2].id)} \cup M
    BY DEF was
  <2>1. l.id = p[1].id /\ l.what = {was(p[2].id)} \cup moved(p[2], p[1])
    BY <1>2
  <2> QED
    BY <1>3, <2>1
<1>7. \A p \in Renamed : \E l \in known : l.id = p[1].id /\ was(p[2].id) \in l.what
  <2> SUFFICES ASSUME NEW p \in Renamed PROVE \E l \in known : l.id = p[1].id /\ was(p[2].id) \in l.what
    OBVIOUS
  <2>1. PICK l : l = Line(p[1].id, {was(p[2].id)} \cup moved(p[2], p[1]))
    OBVIOUS
  <2>2. l.id = p[1].id /\ l.what = {was(p[2].id)} \cup moved(p[2], p[1])
    BY <1>2, <2>1
  <2>3. l \in known
    BY <2>1 DEF was
  <2> HIDE DEF known
  <2> QED
    BY <2>2, <2>3
<1>8. /\ \A l \in fresh : \E r \in Fresh : l.id = r.id /\ l.what = {NR}
      /\ \A r \in Fresh : \E l \in fresh : l.id = r.id /\ l.what = {NR}
  <2> HIDE DEF Fresh
  <2>1. \A r \in Fresh : Line(r.id, {NR}).id = r.id /\ Line(r.id, {NR}).what = {NR}
    BY <1>2
  <2>2. fresh = {Line(r.id, {NR}) : r \in Fresh}
    BY DEF NR
  <2> HIDE DEF fresh
  <2> QED
    BY <2>1, <2>2
<1>9. /\ \A l \in gone : \E o \in Gone : l.id = o.id /\ l.what = {RG}
      /\ \A o \in Gone : \E l \in gone : l.id = o.id /\ l.what = {RG}
  <2> HIDE DEF Gone
  <2>1. \A o \in Gone : Line(o.id, {RG}).id = o.id /\ Line(o.id, {RG}).what = {RG}
    BY <1>2
  <2>2. gone = {Line(o.id, {RG}) : o \in Gone}
    BY DEF RG
  <2> HIDE DEF gone
  <2> QED
    BY <2>1, <2>2
<1> HIDE DEF steady, known, fresh, gone, Fresh, Gone
<1>10. ASSUME NEW id, NEW x PROVE Says(id, was(x)) <=> \E p \in Renamed : p[1].id = id /\ p[2].id = x
  <2>1. ASSUME NEW p \in Renamed, p[1].id = id, p[2].id = x PROVE Says(id, was(x))
    BY <1>1, <1>7, <2>1 DEF Says
  <2>2. ASSUME Says(id, was(x)) PROVE \E p \in Renamed : p[1].id = id /\ p[2].id = x
    <3>1. PICK l \in section(old, new, partial) : l.id = id /\ was(x) \in l.what
      BY <2>2 DEF Says
    <3>2. l \in known
      BY <1>1, <1>4, <1>5, <1>8, <1>9, <3>1
    <3>3. PICK p \in Renamed : l.id = p[1].id /\ l.what \subseteq {was(p[2].id)} \cup M
      BY <1>6, <3>2
    <3> QED
      BY <1>4, <3>1, <3>3
  <2> QED
    BY <2>1, <2>2
<1>11. ASSUME NEW id PROVE Says(id, NR) <=> \E r \in Fresh : r.id = id
  <2>1. ASSUME NEW r \in Fresh, r.id = id PROVE Says(id, NR)
    BY <1>1, <1>8, <2>1 DEF Says
  <2>2. ASSUME Says(id, NR) PROVE \E r \in Fresh : r.id = id
    <3>1. PICK l \in section(old, new, partial) : l.id = id /\ NR \in l.what
      BY <2>2 DEF Says
    <3>2. l \notin steady /\ l \notin known /\ l \notin gone
      BY <1>4, <1>5, <1>6, <1>9, <3>1
    <3> QED
      BY <1>1, <1>8, <3>1, <3>2
  <2> QED
    BY <2>1, <2>2
<1>12. ASSUME NEW id PROVE Says(id, RG) <=> \E o \in Gone : o.id = id
  <2>1. ASSUME NEW o \in Gone, o.id = id PROVE Says(id, RG)
    BY <1>1, <1>9, <2>1 DEF Says
  <2>2. ASSUME Says(id, RG) PROVE \E o \in Gone : o.id = id
    <3>1. PICK l \in section(old, new, partial) : l.id = id /\ RG \in l.what
      BY <2>2 DEF Says
    <3>2. l \notin steady /\ l \notin known /\ l \notin fresh
      BY <1>4, <1>5, <1>6, <1>8, <3>1
    <3> QED
      BY <1>1, <1>9, <3>1, <3>2
  <2> QED
    BY <2>1, <2>2
<1>13. \A id, x : Was(id, x) <=> Paired(id, x)
  BY <1>10 DEF was, Was, Paired
<1>14. \A id : Says(id, <<"new row">>) <=> \E r \in ToSet(new) : r.id = id /\ \A p \in Same \cup Renamed : p[1] # r
  <2>1. \A id : Says(id, <<"new row">>) <=> \E r \in Fresh : r.id = id
    BY <1>11 DEF NR
  <2> QED
    BY <2>1 DEF Fresh
<1>15. \A id : Says(id, <<"row gone">>) <=>
                 \E o \in ToSet(old) : o.id = id /\ ~ partial /\ \A p \in Same \cup Renamed : p[2] # o
  <2>1. \A id : Says(id, <<"row gone">>) <=> \E o \in Gone : o.id = id
    BY <1>12 DEF RG
  <2> QED
    BY <2>1 DEF Gone
<1> QED
  BY <1>13, <1>14, <1>15

LEMMA Accounted ==
    ASSUME IsSection(old), IsSection(new)
    PROVE  EveryRowOnce
<1>1. Renamed = {p \in ToSet(News) \X ToSet(Olds) : NearestSet(p[1], Olds) = {p[2]} /\ NearestSet(p[2], News) = {p[1]}}
  BY RenamesAre DEF Renamed, Olds, News
<1>2. /\ ToSet(News) = {r \in ToSet(new) : \A o \in ToSet(old) : o.id # r.id}
      /\ ToSet(Olds) = {o \in ToSet(old) : \A r \in ToSet(new) : r.id # o.id}
  BY OnlyIs DEF Olds, News
<1>3. /\ \A r, q \in ToSet(new) : r.id = q.id => r = q
      /\ \A o, p \in ToSet(old) : o.id = p.id => o = p
  BY SectionIs
<1>4. \A p \in Renamed : p[1] \in ToSet(News) /\ p[2] \in ToSet(Olds) /\ p[1] \in ToSet(new) /\ p[2] \in ToSet(old)
  BY <1>1, <1>2
<1>5. \A p, q \in Renamed : p[1] = q[1] <=> p[2] = q[2]
  <2> SUFFICES ASSUME NEW p \in Renamed, NEW q \in Renamed PROVE p[1] = q[1] <=> p[2] = q[2]
    OBVIOUS
  <2>1. /\ NearestSet(p[1], Olds) = {p[2]} /\ NearestSet(p[2], News) = {p[1]}
        /\ NearestSet(q[1], Olds) = {q[2]} /\ NearestSet(q[2], News) = {q[1]}
    BY <1>1
  <2> QED
    BY <2>1
<1>6. /\ \A p \in Same : p[1] \in ToSet(new) /\ p[2] \in ToSet(old) /\ p[1].id = p[2].id
      /\ \A p \in Same : p[1] \notin ToSet(News) /\ p[2] \notin ToSet(Olds)
  BY <1>2 DEF Same
<1>7. ASSUME NEW r \in ToSet(new), NEW o \in ToSet(old), Was(r.id, o.id)
      PROVE  \E p \in Renamed : p[1] = r /\ p[2] = o
  <2>0. Paired(r.id, o.id)
    BY <1>7, SaysWhat
  <2>1. PICK p \in Renamed : p[1].id = r.id /\ p[2].id = o.id
    BY <2>0 DEF Paired
  <2> QED
    BY <1>3, <1>4, <2>1
<1>8. ASSUME NEW r \in ToSet(new), NEW q \in ToSet(new), NEW o \in ToSet(old), NEW p \in ToSet(old),
             Was(r.id, o.id), Was(q.id, p.id)
      PROVE  r = q <=> o = p
  BY <1>5, <1>7, <1>8
<1>9. ASSUME NEW r \in ToSet(News)
      PROVE  ~ (Says(r.id, <<"new row">>) <=> \E o \in ToSet(old) : Was(r.id, o.id))
  <2>0. r \in ToSet(new)
    BY <1>2
  <2>1. Says(r.id, <<"new row">>) <=> \A p \in Renamed : p[1] # r
    <3>1. Says(r.id, <<"new row">>) <=> \E q \in ToSet(new) : q.id = r.id /\ \A p \in Same \cup Renamed : p[1] # q
      BY SaysWhat
    <3>2. \A q \in ToSet(new) : q.id = r.id <=> q = r
      BY <1>3, <2>0
    <3>3. (\A p \in Same \cup Renamed : p[1] # r) <=> \A p \in Renamed : p[1] # r
      BY <1>6
    <3> QED
      BY <2>0, <3>1, <3>2, <3>3
  <2>2. (\E o \in ToSet(old) : Was(r.id, o.id)) <=> \E p \in Renamed : p[1] = r
    <3>1. ASSUME NEW p \in Renamed, p[1] = r PROVE \E o \in ToSet(old) : Was(r.id, o.id)
      <4>1. p[2] \in ToSet(old) /\ Was(r.id, p[2].id)
        BY <1>4, <3>1, SaysWhat DEF Paired
      <4> QED
        BY <4>1
    <3> QED
      BY <1>7, <2>0, <3>1
  <2> QED
    BY <2>1, <2>2
<1>10. ASSUME NEW o \in ToSet(Olds), ~ partial
       PROVE  ~ (Says(o.id, <<"row gone">>) <=> \E r \in ToSet(new) : Was(r.id, o.id))
  <2>0. o \in ToSet(old)
    BY <1>2
  <2>1. Says(o.id, <<"row gone">>) <=> \A p \in Renamed : p[2] # o
    <3>1. Says(o.id, <<"row gone">>) <=>
            \E q \in ToSet(old) : q.id = o.id /\ ~ partial /\ \A p \in Same \cup Renamed : p[2] # q
      BY SaysWhat
    <3>2. \A q \in ToSet(old) : q.id = o.id <=> q = o
      BY <1>3, <2>0
    <3>3. (\A p \in Same \cup Renamed : p[2] # o) <=> \A p \in Renamed : p[2] # o
      BY <1>6
    <3> QED
      BY <1>10, <2>0, <3>1, <3>2, <3>3
  <2>2. (\E r \in ToSet(new) : Was(r.id, o.id)) <=> \E p \in Renamed : p[2] = o
    <3>1. ASSUME NEW p \in Renamed, p[2] = o PROVE \E r \in ToSet(new) : Was(r.id, o.id)
      <4>1. p[1] \in ToSet(new) /\ Was(p[1].id, o.id)
        BY <1>4, <3>1, SaysWhat DEF Paired
      <4> QED
        BY <4>1
    <3> QED
      BY <1>7, <2>0, <3>1
  <2> QED
    BY <2>1, <2>2
<1>11. ASSUME NEW o \in ToSet(Olds), partial PROVE ~ Says(o.id, <<"row gone">>)
  BY <1>11, SaysWhat
<1>12. \A r \in ToSet(News) : Says(r.id, <<"new row">>) # \E o \in ToSet(old) : Was(r.id, o.id)
  BY <1>9, Zenon DEF Says, Was
<1>13. \A o \in ToSet(Olds) : IF partial THEN ~ Says(o.id, <<"row gone">>)
                              ELSE Says(o.id, <<"row gone">>) # \E r \in ToSet(new) : Was(r.id, o.id)
  BY <1>10, <1>11, Zenon DEF Says, Was
<1>14. \A r, q \in ToSet(new), o, p \in ToSet(old) :
          Was(r.id, o.id) /\ Was(q.id, p.id) => (r = q <=> o = p)
  BY <1>8, Zenon
<1> QED
  BY <1>1, <1>12, <1>13, <1>14, Zenon DEF EveryRowOnce, Says, Was, Renamed

-----------------------------------------------------------------------------
(* Arguments added to and dropped from a command line.                      *)

LEMMA OccurrencesConcat ==
    ASSUME NEW T, NEW s \in Seq(T), NEW t \in Seq(T)
    PROVE  s \o t \in Seq(T) /\ \A x : Occurrences(x, s \o t) = Occurrences(x, s) + Occurrences(x, t)
<1>1. PICK w \in Seq(T) : w = s \o t
  BY ConcatProperties
<1>2. PICK M \in Nat, N \in Nat : M = Len(s) /\ N = Len(t)
  OBVIOUS
<1>3. /\ DOMAIN s = 1..M /\ DOMAIN t = 1..N /\ DOMAIN w = 1..(M + N)
      /\ \A i \in 1..(M + N) : w[i] = IF i <= M THEN s[i] ELSE t[i - M]
  <2>1. Len(w) = M + N /\ \A i \in 1..(M + N) : w[i] = IF i <= M THEN s[i] ELSE t[i - M]
    BY <1>1, <1>2, ConcatProperties
  <2> QED
    BY <1>2, <2>1
<1>4. ASSUME NEW x PROVE Occurrences(x, w) = Occurrences(x, s) + Occurrences(x, t)
  <2> DEFINE I == {i \in 1..M : s[i] = x}
             J == {i \in 1..N : t[i] = x}
             K == {i \in 1..(M + N) : w[i] = x}
             H == {i \in K : i > M}
             b == [i \in J |-> i + M]
  <2>1. Occurrences(x, w) = Cardinality(K) /\ Occurrences(x, s) = Cardinality(I) /\ Occurrences(x, t) = Cardinality(J)
    BY <1>3 DEF Occurrences
  <2>2. IsFiniteSet(I) /\ IsFiniteSet(J)
    <3>1. IsFiniteSet(1..M) /\ IsFiniteSet(1..N) /\ I \in SUBSET (1..M) /\ J \in SUBSET (1..N)
      BY FS_Interval
    <3> QED
      BY <3>1, FS_Subset
  <2>3. ExistsBijection(J, H)
    <3>1. ASSUME NEW i \in J PROVE b[i] \in H
      <4>1. i + M \in 1..(M + N) /\ i + M > M /\ ~ (i + M <= M) /\ (i + M) - M = i
        OBVIOUS
      <4>2. w[i + M] = x
        BY <1>3, <4>1
      <4> QED
        BY <4>1, <4>2
    <3>2. \A i, j \in J : b[i] = b[j] => i = j
      OBVIOUS
    <3>3. ASSUME NEW j \in H PROVE \E i \in J : b[i] = j
      <4>1. j - M \in 1..N /\ (j - M) + M = j
        OBVIOUS
      <4>2. j - M \in J
        BY <1>3, <4>1
      <4> QED
        BY <4>1, <4>2
    <3>4. b \in [J -> H]
      BY <3>1
    <3> HIDE DEF b, H, J
    <3>5. b \in Bijection(J, H)
      BY <3>2, <3>3, <3>4 DEF Bijection, Injection, Surjection, IsInjective
    <3> QED
      BY <3>5 DEF ExistsBijection
  <2>4. IsFiniteSet(H) /\ Cardinality(H) = Cardinality(J)
    BY <2>2, <2>3, FS_Bijection
  <2>5. K = I \cup H /\ I \cap H = {}
    BY <1>3
  <2> HIDE DEF I, J, K, H
  <2>6. Cardinality(I \cup H) = Cardinality(I) + Cardinality(H) - Cardinality(I \cap H)
    BY <2>2, <2>4, FS_Union
  <2>7. Cardinality(I \cap H) = 0
    BY <2>5, FS_EmptySet
  <2>8. Cardinality(I) \in Nat /\ Cardinality(J) \in Nat
    BY <2>2, FS_CardinalityType
  <2> QED
    BY <2>1, <2>4, <2>5, <2>6, <2>7, <2>8
<1> QED
  BY <1>1, <1>4

\* What cut takes out of a command line is one option.
LEMMA OccurrencesCut ==
    ASSUME NEW T, NEW args \in Seq(T), NEW opt \in Seq(T), At(opt, args) # {}
    PROVE  cut(args, opt) \in Seq(T) /\ \A x : Occurrences(x, args) = Occurrences(x, cut(args, opt)) + Occurrences(x, opt)
<1>1. PICK M \in Nat, N \in Nat : M = Len(opt) /\ N = Len(args)
  OBVIOUS
<1>2. PICK n : n = CHOOSE m \in At(opt, args) : TRUE
  OBVIOUS
<1>3. n \in At(opt, args)
  BY <1>2
<1>4. n \in Nat /\ n + M <= N /\ SubSeq(args, n + 1, n + M) = opt
  <2>1. n \in 0..(N - M) /\ SubSeq(args, n + 1, n + M) = opt
    BY <1>1, <1>3, Zenon DEF At
  <2> QED
    BY <2>1
<1>5. PICK u \in Seq(T) : u = SubSeq(args, 1, n)
  <2>1. \A i \in 1..n : args[i] \in T
    BY <1>1, <1>4
  <2>2. 1 \in Int /\ n \in Int
    BY <1>4
  <2>3. SubSeq(args, 1, n) \in Seq(T)
    BY <2>1, <2>2, SubSeqProperties
  <2> QED
    BY <2>3
<1>6. PICK v \in Seq(T) : v = SubSeq(args, n + M + 1, N)
  <2>1. PICK k \in Nat : k = n + M + 1
    BY <1>4
  <2>2. \A i \in k..N : args[i] \in T
    BY <1>1, <1>4, <2>1
  <2>3. SubSeq(args, k, N) \in Seq(T)
    BY <2>2, SubSeqProperties
  <2> QED
    BY <2>1, <2>3
<1>7. cut(args, opt) = u \o v
  BY <1>1, <1>2, <1>5, <1>6 DEF cut
<1>8. Len(u) = n /\ (\A i \in 1..n : u[i] = args[i]) /\ Len(v) = N - (n + M) /\ (\A i \in 1..(N - (n + M)) : v[i] = args[n + M + i])
  BY <1>1, <1>4, <1>5, <1>6
<1>9. \A i \in 1..M : opt[i] = args[n + i]
  <2>1. PICK k \in Nat, l \in Nat : k = n + 1 /\ l = n + M
    BY <1>4
  <2>2. opt = SubSeq(args, k, l) /\ l - k + 1 = M /\ l <= N
    BY <1>4, <2>1
  <2>3. \A i \in 1..M : opt[i] = args[k + i - 1]
    <3>1. \A i \in k..l : args[i] \in T
      BY <1>1, <1>4, <2>1, <2>2
    <3>2. \A i \in 1..(l - k + 1) : SubSeq(args, k, l)[i] = args[k + i - 1]
      BY <3>1, SubSeqProperties
    <3> QED
      BY <2>2, <3>2
  <2>4. \A i \in 1..M : k + i - 1 = n + i
    BY <1>4, <2>1
  <2> QED
    BY <2>3, <2>4
<1>10. PICK w \in Seq(T) : w = u \o opt
  BY ConcatProperties
<1>11. Len(w) = n + M /\ \A i \in 1..(n + M) : w[i] = args[i]
  <2>1. Len(w) = n + M /\ \A i \in 1..(n + M) : w[i] = IF i <= n THEN u[i] ELSE opt[i - n]
    BY <1>1, <1>8, <1>10, ConcatProperties
  <2>2. \A i \in 1..(n + M) : i <= n => w[i] = args[i]
    BY <1>4, <1>8, <2>1
  <2>3. ASSUME NEW i \in 1..(n + M), ~ (i <= n) PROVE w[i] = args[i]
    <3>1. i - n \in 1..M /\ n + (i - n) = i
      BY <1>4, <2>3
    <3> QED
      BY <1>9, <2>1, <2>3, <3>1
  <2> QED
    BY <2>1, <2>2, <2>3
<1>12. w \o v = args
  <2>1. PICK z \in Seq(T) : z = w \o v
    BY ConcatProperties
  <2>2. Len(z) = N /\ \A i \in 1..N : z[i] = IF i <= n + M THEN w[i] ELSE v[i - (n + M)]
    <3>1. PICK k \in Nat : k = n + M
      BY <1>4
    <3>2. Len(w) = k /\ Len(v) = N - k /\ k <= N
      BY <1>4, <1>8, <1>11, <3>1
    <3>3. Len(z) = Len(w) + Len(v) /\ \A i \in 1..(Len(w) + Len(v)) : z[i] = IF i <= Len(w) THEN w[i] ELSE v[i - Len(w)]
      BY <2>1, ConcatProperties
    <3>4. Len(w) + Len(v) = N
      BY <3>2
    <3> QED
      BY <3>1, <3>2, <3>3, <3>4
  <2>3. ASSUME NEW i \in 1..N PROVE z[i] = args[i]
    <3>1. CASE i <= n + M
      BY <1>4, <1>11, <2>2, <3>1
    <3>2. CASE ~ (i <= n + M)
      <4>1. i - (n + M) \in 1..(N - (n + M)) /\ n + M + (i - (n + M)) = i
        BY <1>4, <3>2
      <4> QED
        BY <1>8, <2>2, <3>2, <4>1
    <3> QED
      BY <3>1, <3>2
  <2> QED
    BY <1>1, <2>1, <2>2, <2>3
<1>13. u \o v \in Seq(T) /\ \A x : Occurrences(x, u \o v) = Occurrences(x, u) + Occurrences(x, v)
  BY OccurrencesConcat
<1>14. \A x : Occurrences(x, args) = Occurrences(x, w) + Occurrences(x, v)
  BY <1>12, OccurrencesConcat
<1>15. \A x : Occurrences(x, w) = Occurrences(x, u) + Occurrences(x, opt)
  BY <1>10, OccurrencesConcat
<1>16. \A x : Occurrences(x, u) \in Nat /\ Occurrences(x, v) \in Nat /\ Occurrences(x, opt) \in Nat
  BY OccurrencesType
<1> QED
  BY <1>7, <1>13, <1>14, <1>15, <1>16

-----------------------------------------------------------------------------
(* Sections made from sections.                                             *)

LEMMA RowFields ==
    ASSUME NEW i, NEW f, NEW a, NEW m, NEW g
    PROVE  /\ Row(i, f, a, m, g).id = i /\ Row(i, f, a, m, g).features = f /\ Row(i, f, a, m, g).args = a
           /\ Row(i, f, a, m, g).measured = m /\ Row(i, f, a, m, g).from = g
           /\ a \in Seq(STRING) => IsRow(Row(i, f, a, m, g))
BY DEF Row, IsRow

LEMMA RowExcept ==
    ASSUME NEW r, IsRow(r), NEW x
    PROVE  /\ [r EXCEPT !.args = x] = Row(r.id, r.features, x, r.measured, r.from)
           /\ [r EXCEPT !.measured = x] = Row(r.id, r.features, r.args, x, r.from)
           /\ [r EXCEPT !.id = x] = Row(x, r.features, r.args, r.measured, r.from)
<1>1. r = [id |-> r.id, features |-> r.features, args |-> r.args, measured |-> r.measured, from |-> r.from]
  BY DEF IsRow, Row
<1>3. [r EXCEPT !.args = x] = Row(r.id, r.features, x, r.measured, r.from)
  BY <1>1 DEF Row
<1>4. [r EXCEPT !.measured = x] = Row(r.id, r.features, r.args, x, r.from)
  BY <1>1 DEF Row
<1>5. [r EXCEPT !.id = x] = Row(x, r.features, r.args, r.measured, r.from)
  BY <1>1 DEF Row
<1> QED
  BY <1>3, <1>4, <1>5

\* N rows of different names.
LEMMA MakesSection ==
    ASSUME NEW N \in Nat, NEW s, DOMAIN s = 1..N, s = [i \in 1..N |-> s[i]], \A i \in 1..N : IsRow(s[i]),
           \A i, j \in 1..N : s[i].id = s[j].id => i = j
    PROVE  IsSection(s) /\ Len(s) = N /\ \A r \in ToSet(s) : \E i \in 1..N : r = s[i]
<1>1. \A i \in 1..N : s[i] \in ToSet(s)
  BY DEF ToSet
<1>2. s \in Seq(ToSet(s)) /\ Len(s) = N
  <2>1. s \in [1..N -> ToSet(s)]
    BY <1>1
  <2> QED
    BY <2>1
<1>3. \A r \in ToSet(s) : \E i \in 1..N : r = s[i]
  BY DEF ToSet
<1> QED
  BY <1>2, <1>3 DEF IsSection

LEMMA SectionDomain ==
    ASSUME NEW rows, IsSection(rows)
    PROVE  /\ Len(rows) \in Nat /\ DOMAIN rows = 1..Len(rows) /\ rows = [i \in 1..Len(rows) |-> rows[i]]
           /\ \A i \in 1..Len(rows) : IsRow(rows[i]) /\ rows[i] \in ToSet(rows)
           /\ \A i, j \in 1..Len(rows) : rows[i].id = rows[j].id => i = j
<1>1. rows \in Seq(ToSet(rows))
  BY DEF IsSection
<1>2. Len(rows) \in Nat /\ DOMAIN rows = 1..Len(rows) /\ rows = [i \in 1..Len(rows) |-> rows[i]]
  BY <1>1
<1>3. \A i \in 1..Len(rows) : rows[i] \in ToSet(rows)
  BY <1>2 DEF ToSet
<1> QED
  BY <1>2, <1>3 DEF IsSection

LEMMA FilterSection ==
    ASSUME NEW rows, IsSection(rows), NEW S
    PROVE  IsSection(Filter(rows, S)) /\ ToSet(Filter(rows, S)) = ToSet(rows) \cap S
<1>1. rows \in Seq(ToSet(rows)) /\ Named(rows)
  BY SectionIs
<1>2. PICK s \in Seq(ToSet(rows)) : s = Filter(rows, S)
  BY <1>1, FilterType
<1>3. Named(s) /\ ToSet(s) = ToSet(rows) \cap S
  BY <1>1, <1>2, FilterNamed, FilterSet
<1>4. Len(s) \in Nat /\ DOMAIN s = 1..Len(s) /\ s = [i \in 1..Len(s) |-> s[i]] /\ \A i \in 1..Len(s) : s[i] \in ToSet(rows)
  BY <1>2
<1>5. \A i \in 1..Len(s) : IsRow(s[i])
  BY <1>4 DEF IsSection
<1>6. IsSection(s)
  BY <1>3, <1>4, <1>5, MakesSection DEF Named
<1> QED
  BY <1>2, <1>3, <1>6

-----------------------------------------------------------------------------
(* The inductive invariant of Report.                                       *)

AxisNames == {a.axis : a \in Axes}

\* What IsMatrix says of a row, and of two rows whatever the argument.
AxisRow(r) ==
    /\ r.id = r.features /\ r.features \in [DOMAIN r.features -> {"plain", "other"}]
    /\ DOMAIN r.features # {} /\ DOMAIN r.features \subseteq AxisNames

AxisPair(r, q) ==
    /\ DOMAIN r.features = DOMAIN q.features
    /\ Beyond(q, r) = {} => \A x : Grows(x, r, q, Beyond(r, q))

\* Rows of two matrices that agree on the axes both have, and made the plain choice on the others.
Near(r, o) ==
    /\ \A k \in DOMAIN r.features \cap DOMAIN o.features : r.features[k] = o.features[k]
    /\ \A k \in DOMAIN r.features \ DOMAIN o.features : r.features[k] = "plain"
    /\ \A k \in DOMAIN o.features \ DOMAIN r.features : o.features[k] = "plain"

\* A newer row that stands for an older one is near it.
Kin(r, o) == o.id = r.from => Near(r, o)

\* rows may be in the newer report if prev is in the older.
Follows(rows, prev) ==
    \/ IsVariants(prev) /\ IsVariants(rows)
    \/ IsMatrix(prev) /\ IsMatrix(rows) /\ \A r \in ToSet(rows), o \in ToSet(prev) : Kin(r, o)

ReportInv == old \in OldSections /\ IsSection(new) /\ Follows(new, old)

LEMMA MatrixIs ==
    ASSUME NEW rows, IsSection(rows)
    PROVE  IsMatrix(rows) <=> /\ \A r \in ToSet(rows) : AxisRow(r)
                              /\ \A r, q \in ToSet(rows) : AxisPair(r, q)
<1> DEFINE Known(r, q) == ToSet(r.args) \cup ToSet(q.args) \cup UNION {ToSet(a.add) : a \in Axes}
<1>1. (\A r \in ToSet(rows) : AxisRow(r)) <=>
        \A r \in ToSet(rows) :
          /\ r.id = r.features /\ r.features \in [DOMAIN r.features -> {"plain", "other"}]
          /\ DOMAIN r.features # {} /\ DOMAIN r.features \subseteq {a.axis : a \in Axes}
  BY Zenon DEF AxisRow, AxisNames
<1>2. \A r \in ToSet(rows) : \A x : Occurrences(x, r.args) \in Nat /\ (Occurrences(x, r.args) > 0 <=> x \in ToSet(r.args))
  BY SectionIs, OccurrencesType
<1>3. ASSUME NEW r \in ToSet(rows), NEW q \in ToSet(rows), NEW x, x \notin Known(r, q)
      PROVE  Grows(x, r, q, Beyond(r, q))
  <2>1. Occurrences(x, r.args) = 0 /\ Occurrences(x, q.args) = 0
    <3>1. Occurrences(x, r.args) \in Nat /\ Occurrences(x, q.args) \in Nat
      BY <1>2
    <3>2. ~ (Occurrences(x, r.args) > 0) /\ ~ (Occurrences(x, q.args) > 0)
      BY <1>2, <1>3
    <3> QED
      BY <3>1, <3>2
  <2>2. ~ Adds(Beyond(r, q), x)
    BY <1>3 DEF Adds, Beyond
  <2> QED
    BY <2>1, <2>2 DEF Grows
<1>4. ASSUME NEW r \in ToSet(rows), NEW q \in ToSet(rows)
      PROVE  AxisPair(r, q) <=>
               /\ DOMAIN r.features = DOMAIN q.features
               /\ Beyond(q, r) = {} => \A arg \in Known(r, q) : Grows(arg, r, q, Beyond(r, q))
  <2> HIDE DEF Known
  <2> QED
    BY <1>3, Zenon DEF AxisPair
<1> QED
  BY <1>1, <1>4, Zenon DEF IsMatrix

\* Some of the rows, in any order.
LEMMA FollowsSome ==
    ASSUME NEW rows, IsSection(rows), NEW prev, Follows(rows, prev), NEW some, IsSection(some), ToSet(some) \subseteq ToSet(rows)
    PROVE  Follows(some, prev)
<1>1. CASE IsVariants(prev) /\ IsVariants(rows)
  <2>1. IsVariants(some)
    BY <1>1 DEF IsVariants
  <2> QED
    BY <1>1, <2>1 DEF Follows
<1>2. CASE IsMatrix(prev) /\ IsMatrix(rows) /\ \A r \in ToSet(rows), o \in ToSet(prev) : Kin(r, o)
  <2>1. (\A r \in ToSet(rows) : AxisRow(r)) /\ (\A r, q \in ToSet(rows) : AxisPair(r, q))
    BY <1>2, MatrixIs
  <2>2. (\A r \in ToSet(some) : AxisRow(r)) /\ (\A r, q \in ToSet(some) : AxisPair(r, q))
    BY <2>1
  <2>3. IsMatrix(some)
    BY <2>2, MatrixIs
  <2> QED
    BY <1>2, <2>3 DEF Follows
<1> QED
  BY <1>1, <1>2 DEF Follows

\* The other choice on a makes r's command line that of R.
Takes(x, r, R, a) == Occurrences(x, r.args) + Occurrences(x, a.add) = Occurrences(x, R.args) + Occurrences(x, a.drop)

LEMMA BothMoved ==
    ASSUME NEW x, NEW a \in Axes, NEW r, IsRow(r), NEW q, IsRow(q), NEW R, IsRow(R), NEW Q, IsRow(Q),
           Takes(x, r, R, a), Takes(x, q, Q, a)
    PROVE  Occurrences(x, R.args) + Occurrences(x, q.args) = Occurrences(x, Q.args) + Occurrences(x, r.args)
<1>1. /\ Occurrences(x, r.args) \in Nat /\ Occurrences(x, q.args) \in Nat
      /\ Occurrences(x, R.args) \in Nat /\ Occurrences(x, Q.args) \in Nat
      /\ Occurrences(x, a.add) \in Nat /\ Occurrences(x, a.drop) \in Nat
  BY OccurrencesType, ReportAssumption DEF IsRow
<1> QED
  BY <1>1 DEF Takes

\* Command lines that moved alike differ in what they did.
LEMMA GrowsAlike ==
    ASSUME NEW x, NEW r, IsRow(r), NEW q, IsRow(q), NEW R, IsRow(R), NEW Q, IsRow(Q), NEW A, Grows(x, r, q, A),
           Occurrences(x, R.args) + Occurrences(x, q.args) = Occurrences(x, Q.args) + Occurrences(x, r.args)
    PROVE  Grows(x, R, Q, A)
<1>1. /\ Occurrences(x, r.args) \in Nat /\ Occurrences(x, q.args) \in Nat
      /\ Occurrences(x, R.args) \in Nat /\ Occurrences(x, Q.args) \in Nat
  BY OccurrencesType DEF IsRow
<1>2. PICK n \in Nat, m \in Nat, N \in Nat, M \in Nat :
         n = Occurrences(x, r.args) /\ m = Occurrences(x, q.args) /\ N = Occurrences(x, R.args) /\ M = Occurrences(x, Q.args)
  BY <1>1
<1>3. N + m = M + n
  BY <1>2
<1>4. (n <= m <=> N <= M) /\ (m <= n <=> M <= N) /\ (n < m <=> N < M)
  BY <1>3
<1>5. /\ Drops(A, x) \/ n <= m
      /\ Adds(A, x) \/ m <= n
      /\ Adds(A, x) /\ ~ Drops(Axes, x) => n < m
  BY <1>2 DEF Grows
<1>6. /\ Drops(A, x) \/ N <= M
      /\ Adds(A, x) \/ M <= N
      /\ Adds(A, x) /\ ~ Drops(Axes, x) => N < M
  BY <1>4, <1>5
<1> QED
  BY <1>2, <1>6 DEF Grows

\* The same rows, but for what was measured and arguments that move alike on all of them.
LEMMA FollowsAlike ==
    ASSUME NEW rows, IsSection(rows), NEW prev, Follows(rows, prev), NEW next, IsSection(next), Len(next) = Len(rows),
           \A i \in 1..Len(rows) : /\ next[i].id = rows[i].id /\ next[i].features = rows[i].features
                                   /\ next[i].from = rows[i].from,
           \A i, j \in 1..Len(rows) : \A x :
                Occurrences(x, next[i].args) + Occurrences(x, rows[j].args) = Occurrences(x, next[j].args) + Occurrences(x, rows[i].args)
    PROVE  Follows(next, prev)
<1> DEFINE N == Len(rows)
<1>1. DOMAIN rows = 1..N /\ DOMAIN next = 1..N
  BY SectionDomain
<1>2. /\ \A r \in ToSet(next) : \E i \in 1..N : r = next[i]
      /\ \A i \in 1..N : rows[i] \in ToSet(rows) /\ IsRow(rows[i]) /\ IsRow(next[i])
  <2>1. \A i \in 1..N : IsRow(rows[i]) /\ IsRow(next[i])
    BY SectionDomain
  <2> QED
    BY <1>1, <2>1 DEF ToSet
<1> HIDE DEF N
<1>a. \A i \in 1..N : next[i].id = rows[i].id /\ next[i].features = rows[i].features /\ next[i].from = rows[i].from
  BY DEF N
<1>b. \A i, j \in 1..N : \A x :
          Occurrences(x, next[i].args) + Occurrences(x, rows[j].args) = Occurrences(x, next[j].args) + Occurrences(x, rows[i].args)
  BY DEF N
<1>3. CASE IsVariants(prev) /\ IsVariants(rows)
  <2>1. IsVariants(next)
    BY <1>2, <1>3, <1>a DEF IsVariants
  <2> QED
    BY <1>3, <2>1 DEF Follows
<1>4. CASE IsMatrix(prev) /\ IsMatrix(rows) /\ \A r \in ToSet(rows), o \in ToSet(prev) : Kin(r, o)
  <2>1. (\A r \in ToSet(rows) : AxisRow(r)) /\ (\A r, q \in ToSet(rows) : AxisPair(r, q))
    BY <1>4, MatrixIs
  <2>2. ASSUME NEW i \in 1..N PROVE AxisRow(next[i])
    <3>1. AxisRow(rows[i])
      BY <1>2, <2>1
    <3>2. next[i].id = rows[i].id /\ next[i].features = rows[i].features
      BY <1>a
    <3> QED
      BY <3>1, <3>2 DEF AxisRow
  <2>3. ASSUME NEW i \in 1..N, NEW j \in 1..N PROVE AxisPair(next[i], next[j])
    <3>1. AxisPair(rows[i], rows[j])
      BY <1>2, <2>1
    <3>2. next[i].features = rows[i].features /\ next[j].features = rows[j].features
      BY <1>a
    <3>3. Beyond(next[i], next[j]) = Beyond(rows[i], rows[j]) /\ Beyond(next[j], next[i]) = Beyond(rows[j], rows[i])
      BY <3>2, Zenon DEF Beyond, Chosen
    <3>4. ASSUME NEW x, Grows(x, rows[i], rows[j], Beyond(rows[i], rows[j]))
          PROVE  Grows(x, next[i], next[j], Beyond(rows[i], rows[j]))
      BY <1>2, <1>b, <3>4, GrowsAlike
    <3> QED
      BY <3>1, <3>2, <3>3, <3>4, Zenon DEF AxisPair
  <2>4. IsMatrix(next)
    <3>1. (\A r \in ToSet(next) : AxisRow(r)) /\ (\A r, q \in ToSet(next) : AxisPair(r, q))
      BY <1>2, <2>2, <2>3
    <3> QED
      BY <3>1, MatrixIs
  <2>5. ASSUME NEW i \in 1..N, NEW o \in ToSet(prev) PROVE Kin(next[i], o)
    <3>1. Kin(rows[i], o)
      BY <1>2, <1>4
    <3>2. next[i].features = rows[i].features /\ next[i].from = rows[i].from
      BY <1>a
    <3> QED
      BY <3>1, <3>2 DEF Kin, Near
  <2>6. \A r \in ToSet(next), o \in ToSet(prev) : Kin(r, o)
    BY <1>2, <2>5
  <2> QED
    BY <1>4, <2>4, <2>6 DEF Follows
<1> QED
  BY <1>3, <1>4 DEF Follows

-----------------------------------------------------------------------------
(* One axis more, and one less.                                             *)

\* q has r's name and choices, and c on one more axis.
OnAxis(q, r, axis, c) ==
    /\ q.id = with(r.id, axis, c) /\ q.features = with(r.features, axis, c)

LEMMA AxisAdded ==
    ASSUME NEW r, AxisRow(r), NEW a \in Axes, a.axis \notin DOMAIN r.features, NEW q, NEW c \in {"plain", "other"},
           OnAxis(q, r, a.axis, c)
    PROVE  /\ AxisRow(q) /\ DOMAIN q.features = DOMAIN r.features \cup {a.axis} /\ q.features[a.axis] = c
           /\ \A k \in DOMAIN r.features : q.features[k] = r.features[k]
<1>1. PICK D : D = DOMAIN r.features
  OBVIOUS
<1>2. r.features \in [D -> {"plain", "other"}] /\ r.id = r.features /\ D \subseteq AxisNames /\ a.axis \notin D
  BY <1>1 DEF AxisRow
<1>3. a.axis \in AxisNames
  BY DEF AxisNames
<1>4. /\ with(r.features, a.axis, c) \in [D \cup {a.axis} -> {"plain", "other"}]
      /\ with(r.features, a.axis, c)[a.axis] = c
      /\ \A k \in D : with(r.features, a.axis, c)[k] = r.features[k]
  <2>1. PICK f \in [D -> {"plain", "other"}] : f = r.features
    BY <1>2, Zenon
  <2>2. /\ with(f, a.axis, c) \in [D \cup {a.axis} -> {"plain", "other"}]
        /\ with(f, a.axis, c)[a.axis] = c
        /\ \A k \in D : with(f, a.axis, c)[k] = f[k]
    BY <1>2 DEF with
  <2> QED
    BY <2>1, <2>2
<1>5. q.features = with(r.features, a.axis, c) /\ q.id = q.features
  BY <1>2 DEF OnAxis
<1>6. /\ q.features \in [D \cup {a.axis} -> {"plain", "other"}] /\ q.features[a.axis] = c /\ q.id = q.features
      /\ \A k \in D : q.features[k] = r.features[k]
  BY <1>4, <1>5
<1>7. DOMAIN q.features = D \cup {a.axis}
  BY <1>6
<1>8. AxisRow(q)
  BY <1>2, <1>3, <1>6, <1>7 DEF AxisRow
<1> QED
  BY <1>1, <1>6, <1>7, <1>8

\* q is what r becomes without an axis it made the plain choice on.
OffAxis(q, r, axis) ==
    /\ axis \in DOMAIN r.features /\ DOMAIN r.features # {axis} /\ r.features[axis] = "plain"
    /\ q.id = without(r.id, axis) /\ q.features = without(r.features, axis) /\ q.args = r.args

LEMMA AxisDropped ==
    ASSUME NEW r, NEW q, NEW axis, AxisRow(r), OffAxis(q, r, axis)
    PROVE  /\ AxisRow(q) /\ DOMAIN q.features = DOMAIN r.features \ {axis}
           /\ \A k \in DOMAIN q.features : q.features[k] = r.features[k]
           /\ \A k : Chosen(q, k) <=> Chosen(r, k)
<1> USE DEF OffAxis
<1>1. PICK D : D = DOMAIN r.features
  OBVIOUS
<1>2. r.features \in [D -> {"plain", "other"}] /\ r.id = r.features /\ D \subseteq AxisNames
  BY <1>1 DEF AxisRow
<1>4. /\ q.features \in [D \ {axis} -> {"plain", "other"}] /\ q.id = q.features
      /\ \A k \in D \ {axis} : q.features[k] = r.features[k]
  <2>1. /\ without(r.features, axis) \in [D \ {axis} -> {"plain", "other"}]
        /\ \A k \in D \ {axis} : without(r.features, axis)[k] = r.features[k]
    <3>1. PICK f \in [D -> {"plain", "other"}] : f = r.features
      BY <1>2, Zenon
    <3>2. /\ without(f, axis) \in [D \ {axis} -> {"plain", "other"}]
          /\ \A k \in D \ {axis} : without(f, axis)[k] = f[k]
      BY DEF without
    <3> QED
      BY <3>1, <3>2
  <2> QED
    BY <1>2, <2>1
<1>5. DOMAIN q.features = D \ {axis}
  BY <1>4
<1>6. \A k : Chosen(q, k) <=> Chosen(r, k)
  BY <1>1, <1>4, <1>5 DEF Chosen
<1>8. D \ {axis} # {}
  BY <1>1
<1>9. AxisRow(q)
  BY <1>2, <1>4, <1>5, <1>8 DEF AxisRow
<1> QED
  BY <1>1, <1>4, <1>5, <1>6, <1>9

\* q is a row that r becomes when a is added, the one with c on it.
Extends(q, r, a, c) ==
    /\ IsRow(q) /\ OnAxis(q, r, a.axis, c)
    /\ c = "plain" => q.args = r.args /\ q.from = r.from
    /\ c = "other" => q.args = cut(r.args, a.drop) \o a.add /\ q.from = <<>>

\* How two command lines differ when the other choice on a changes the second, and when it
\* changes both.
LEMMA AxisGrows ==
    ASSUME NEW x, NEW r, IsRow(r), NEW q, IsRow(q), NEW R, IsRow(R), NEW Q, IsRow(Q), NEW a \in Axes,
           NEW A \in SUBSET Axes, Grows(x, r, q, A),
           Occurrences(x, R.args) = Occurrences(x, r.args),
           Occurrences(x, q.args) + Occurrences(x, a.add) = Occurrences(x, Q.args) + Occurrences(x, a.drop)
    PROVE  Grows(x, R, Q, A \cup {a})
<1>0. a.add \in Seq(STRING) /\ a.drop \in Seq(STRING)
  BY ReportAssumption
<1>1. /\ Occurrences(x, r.args) \in Nat /\ Occurrences(x, q.args) \in Nat /\ Occurrences(x, Q.args) \in Nat
      /\ Occurrences(x, a.add) \in Nat /\ Occurrences(x, a.drop) \in Nat
      /\ Occurrences(x, a.add) > 0 <=> x \in ToSet(a.add)
      /\ Occurrences(x, a.drop) > 0 <=> x \in ToSet(a.drop)
  BY <1>0, OccurrencesType DEF IsRow
<1>2. PICK n \in Nat, m \in Nat, M \in Nat, u \in Nat, v \in Nat :
         /\ n = Occurrences(x, r.args) /\ m = Occurrences(x, q.args) /\ M = Occurrences(x, Q.args)
         /\ u = Occurrences(x, a.add) /\ v = Occurrences(x, a.drop)
  BY <1>1
<1>3. m + u = M + v /\ n = Occurrences(x, R.args)
  BY <1>2
<1>4. /\ Adds(A \cup {a}, x) <=> Adds(A, x) \/ u > 0
      /\ Drops(A \cup {a}, x) <=> Drops(A, x) \/ v > 0
      /\ ~ Drops(Axes, x) => ~ Drops(A, x) /\ ~ (v > 0)
  BY <1>1, <1>2 DEF Adds, Drops
<1>5. /\ Drops(A, x) \/ n <= m
      /\ Adds(A, x) \/ m <= n
      /\ Adds(A, x) /\ ~ Drops(Axes, x) => n < m
  BY <1>2 DEF Grows
<1>6. /\ Drops(A \cup {a}, x) \/ n <= M
      /\ Adds(A \cup {a}, x) \/ M <= n
      /\ Adds(A \cup {a}, x) /\ ~ Drops(Axes, x) => n < M
  BY <1>3, <1>4, <1>5
<1> QED
  BY <1>2, <1>3, <1>6 DEF Grows

LEMMA FollowsAdded ==
    ASSUME NEW rows, IsSection(rows), NEW prev, IsSection(prev), Follows(rows, prev), NEW a \in Axes, rows # <<>>,
           \A r \in ToSet(rows) : DOMAIN r.features # {} /\ a.axis \notin DOMAIN r.features /\ At(a.drop, r.args) # {},
           NEW next, NEW N \in Nat, N = Len(rows), DOMAIN next = 1..(N + N), next = [i \in 1..(N + N) |-> next[i]],
           \A i \in 1..N : Extends(next[i], rows[i], a, "plain"),
           \A i \in 1..N : Extends(next[i + N], rows[i], a, "other")
    PROVE  IsSection(next) /\ Follows(next, prev)
<1>1. /\ DOMAIN rows = 1..N /\ \A i \in 1..N : IsRow(rows[i]) /\ rows[i] \in ToSet(rows)
      /\ \A i, j \in 1..N : rows[i].id = rows[j].id => i = j
  BY SectionDomain
<1>2. IsMatrix(prev) /\ IsMatrix(rows) /\ \A r \in ToSet(rows), o \in ToSet(prev) : Kin(r, o)
  <2>1. PICK r \in ToSet(rows) : TRUE
    <3>1. N # 0
      BY SectionIs
    <3> QED
      BY <1>1, <3>1
  <2>2. ~ IsVariants(rows)
    BY <2>1 DEF IsVariants
  <2> QED
    BY <2>2 DEF Follows
<1>3. (\A r \in ToSet(rows) : AxisRow(r)) /\ (\A r, q \in ToSet(rows) : AxisPair(r, q)) /\ (\A o \in ToSet(prev) : AxisRow(o))
  BY <1>2, MatrixIs
\* The row that next[k] comes from, and its choice on the axis.
<1> DEFINE src(k) == IF k \in 1..N THEN k ELSE k - N
           pick(k) == IF k \in 1..N THEN "plain" ELSE "other"
<1>4. ASSUME NEW k \in 1..(N + N)
      PROVE  src(k) \in 1..N /\ pick(k) \in {"plain", "other"} /\ Extends(next[k], rows[src(k)], a, pick(k))
  <2>1. CASE k \in 1..N
    BY <2>1
  <2>2. CASE k \notin 1..N
    <3>1. k - N \in 1..N /\ (k - N) + N = k
      BY <2>2
    <3>2. Extends(next[k], rows[k - N], a, "other")
      BY <3>1
    <3> QED
      BY <2>2, <3>1, <3>2
  <2> QED
    BY <2>1, <2>2
<1>5. \A k, l \in 1..(N + N) : src(k) = src(l) /\ pick(k) = pick(l) => k = l
  OBVIOUS
<1> HIDE DEF src, pick
<1>6. ASSUME NEW k \in 1..(N + N)
      PROVE  /\ IsRow(next[k]) /\ AxisRow(next[k]) /\ next[k].features[a.axis] = pick(k)
             /\ DOMAIN next[k].features = DOMAIN rows[src(k)].features \cup {a.axis}
             /\ \A x \in DOMAIN rows[src(k)].features : next[k].features[x] = rows[src(k)].features[x]
             /\ \A x : IF pick(k) = "plain" THEN Occurrences(x, next[k].args) = Occurrences(x, rows[src(k)].args)
                       ELSE Occurrences(x, rows[src(k)].args) + Occurrences(x, a.add) =
                                Occurrences(x, next[k].args) + Occurrences(x, a.drop)
  <2>1. PICK r : r = rows[src(k)]
    OBVIOUS
  <2>2. r \in ToSet(rows) /\ IsRow(r) /\ AxisRow(r) /\ a.axis \notin DOMAIN r.features /\ At(a.drop, r.args) # {}
    BY <1>1, <1>3, <1>4, <2>1
  <2>3. PICK q : q = next[k]
    OBVIOUS
  <2>4. IsRow(q) /\ Extends(q, r, a, pick(k)) /\ pick(k) \in {"plain", "other"}
    BY <1>4, <2>1, <2>3 DEF Extends
  <2>5. /\ AxisRow(q) /\ DOMAIN q.features = DOMAIN r.features \cup {a.axis} /\ q.features[a.axis] = pick(k)
        /\ \A x \in DOMAIN r.features : q.features[x] = r.features[x]
    BY <2>2, <2>4, AxisAdded DEF Extends
  <2>6. ASSUME NEW x
        PROVE  IF pick(k) = "plain" THEN Occurrences(x, q.args) = Occurrences(x, r.args)
               ELSE Occurrences(x, r.args) + Occurrences(x, a.add) = Occurrences(x, q.args) + Occurrences(x, a.drop)
    <3>1. CASE pick(k) = "plain"
      BY <2>4, <3>1 DEF Extends
    <3>2. CASE pick(k) = "other"
      <4>1. r.args \in Seq(STRING) /\ a.add \in Seq(STRING) /\ a.drop \in Seq(STRING)
        BY <2>2, ReportAssumption DEF IsRow
      <4>2. PICK t \in Seq(STRING) : t = cut(r.args, a.drop)
        BY <2>2, <4>1, OccurrencesCut
      <4>3. Occurrences(x, r.args) = Occurrences(x, t) + Occurrences(x, a.drop)
        BY <2>2, <4>1, <4>2, OccurrencesCut
      <4>4. q.args = t \o a.add
        BY <2>4, <3>2, <4>2 DEF Extends
      <4>5. Occurrences(x, q.args) = Occurrences(x, t) + Occurrences(x, a.add)
        BY <4>1, <4>4, OccurrencesConcat
      <4>6. Occurrences(x, t) \in Nat /\ Occurrences(x, a.drop) \in Nat /\ Occurrences(x, a.add) \in Nat
        BY <4>1, OccurrencesType
      <4>7. Occurrences(x, r.args) + Occurrences(x, a.add) = Occurrences(x, q.args) + Occurrences(x, a.drop)
        BY <4>3, <4>5, <4>6
      <4> QED
        BY <3>2, <4>7
    <3> QED
      BY <2>4, <3>1, <3>2
  <2> QED
    BY <2>1, <2>3, <2>4, <2>5, <2>6, Zenon
<1>7. ASSUME NEW k \in 1..(N + N), NEW l \in 1..(N + N), next[k].id = next[l].id PROVE k = l
  <2>1. PICK r \in ToSet(rows) : r = rows[src(k)]
    BY <1>1, <1>4
  <2>2. PICK q \in ToSet(rows) : q = rows[src(l)]
    BY <1>1, <1>4
  <2>3. next[k].features = next[l].features
    BY <1>6, <1>7 DEF AxisRow
  <2>4. PICK D : D = DOMAIN r.features
    OBVIOUS
  <2>5. /\ r.features \in [D -> {"plain", "other"}] /\ q.features \in [D -> {"plain", "other"}]
        /\ r.id = r.features /\ q.id = q.features
    BY <1>3, <2>4 DEF AxisRow, AxisPair
  <2>6. \A x \in D : r.features[x] = q.features[x]
    BY <1>6, <2>1, <2>2, <2>3, <2>4, <2>5
  <2>7. r.features = q.features
    BY <2>5, <2>6
  <2>8. src(k) = src(l)
    BY <1>1, <1>4, <2>1, <2>2, <2>5, <2>7
  <2>9. pick(k) = pick(l)
    BY <1>6, <2>3
  <2> QED
    BY <1>5, <2>8, <2>9
<1>8. IsSection(next) /\ \A r \in ToSet(next) : \E k \in 1..(N + N) : r = next[k]
  <2>1. PICK M \in Nat : M = N + N
    OBVIOUS
  <2>2. DOMAIN next = 1..M /\ next = [i \in 1..M |-> next[i]] /\ \A i \in 1..M : IsRow(next[i])
    BY <1>6, <2>1
  <2>3. \A i, j \in 1..M : next[i].id = next[j].id => i = j
    BY <1>7, <2>1
  <2> QED
    BY <2>1, <2>2, <2>3, MakesSection
<1>9. ASSUME NEW k \in 1..(N + N), NEW l \in 1..(N + N) PROVE AxisPair(next[k], next[l])
  <2>1. AxisPair(rows[src(k)], rows[src(l)])
    BY <1>1, <1>3, <1>4
  <2>2. DOMAIN next[k].features = DOMAIN next[l].features
    BY <1>6, <2>1 DEF AxisPair
  <2>3. PICK r \in ToSet(rows), q \in ToSet(rows) : r = rows[src(k)] /\ q = rows[src(l)]
    BY <1>1, <1>4
  <2>4. PICK R, Q : R = next[k] /\ Q = next[l]
    OBVIOUS
  <2>5. /\ IsRow(r) /\ IsRow(q) /\ IsRow(R) /\ IsRow(Q) /\ AxisPair(r, q)
        /\ pick(k) \in {"plain", "other"} /\ pick(l) \in {"plain", "other"}
    BY <1>1, <1>4, <1>6, <2>1, <2>3, <2>4
  <2>6. /\ a.axis \notin DOMAIN r.features /\ DOMAIN R.features = DOMAIN r.features \cup {a.axis} /\ R.features[a.axis] = pick(k)
        /\ \A x \in DOMAIN r.features : R.features[x] = r.features[x]
        /\ a.axis \notin DOMAIN q.features /\ DOMAIN Q.features = DOMAIN q.features \cup {a.axis} /\ Q.features[a.axis] = pick(l)
        /\ \A x \in DOMAIN q.features : Q.features[x] = q.features[x]
    BY <1>6, <2>3, <2>4
  <2>7. /\ \A b \in Axes : b.axis # a.axis => (Chosen(R, b.axis) <=> Chosen(r, b.axis)) /\ (Chosen(Q, b.axis) <=> Chosen(q, b.axis))
        /\ ~ Chosen(r, a.axis) /\ ~ Chosen(q, a.axis)
        /\ Chosen(R, a.axis) <=> pick(k) = "other"
        /\ Chosen(Q, a.axis) <=> pick(l) = "other"
    BY <2>6 DEF Chosen
  <2>8. \A b \in Axes : b.axis = a.axis => b = a
    BY ReportAssumption
  <2>9. ASSUME Beyond(Q, R) = {}, NEW x PROVE Grows(x, R, Q, Beyond(R, Q))
    <3>1. Beyond(q, r) = {}
      <4>1. \A b \in Beyond(q, r) : b \in Beyond(Q, R)
        BY <2>7 DEF Beyond
      <4> QED
        BY <2>9, <4>1
    <3>2. Grows(x, r, q, Beyond(r, q))
      BY <2>5, <3>1 DEF AxisPair
    <3>3. /\ IF pick(k) = "plain" THEN Occurrences(x, R.args) = Occurrences(x, r.args)
             ELSE Occurrences(x, r.args) + Occurrences(x, a.add) = Occurrences(x, R.args) + Occurrences(x, a.drop)
          /\ IF pick(l) = "plain" THEN Occurrences(x, Q.args) = Occurrences(x, q.args)
             ELSE Occurrences(x, q.args) + Occurrences(x, a.add) = Occurrences(x, Q.args) + Occurrences(x, a.drop)
      BY <1>6, <2>3, <2>4
    <3>4. /\ Occurrences(x, r.args) \in Nat /\ Occurrences(x, q.args) \in Nat
          /\ Occurrences(x, R.args) \in Nat /\ Occurrences(x, Q.args) \in Nat
          /\ Occurrences(x, a.add) \in Nat /\ Occurrences(x, a.drop) \in Nat
      BY <2>5, OccurrencesType, ReportAssumption DEF IsRow
    <3>5. CASE pick(k) = pick(l)
      <4>1. Beyond(R, Q) = Beyond(r, q)
        BY <2>7, <3>5 DEF Beyond
      <4>2. Occurrences(x, R.args) + Occurrences(x, q.args) = Occurrences(x, Q.args) + Occurrences(x, r.args)
        <5>1. CASE pick(k) = "plain"
          BY <3>3, <3>4, <3>5, <5>1
        <5>2. CASE pick(k) = "other"
          <6>1. /\ Occurrences(x, r.args) + Occurrences(x, a.add) = Occurrences(x, R.args) + Occurrences(x, a.drop)
                /\ Occurrences(x, q.args) + Occurrences(x, a.add) = Occurrences(x, Q.args) + Occurrences(x, a.drop)
            BY <3>3, <3>5, <5>2
          <6>2. Takes(x, r, R, a) /\ Takes(x, q, Q, a)
            BY <6>1 DEF Takes
          <6> QED
            BY <2>5, <6>2, BothMoved
        <5> QED
          BY <2>5, <5>1, <5>2
      <4> QED
        BY <2>5, <3>2, <4>1, <4>2, GrowsAlike
    <3>6. CASE pick(k) = "plain" /\ pick(l) = "other"
      <4>1. Beyond(R, Q) = Beyond(r, q) \cup {a} /\ Beyond(r, q) \in SUBSET Axes
        BY <2>7, <2>8, <3>6 DEF Beyond
      <4>2. /\ Occurrences(x, R.args) = Occurrences(x, r.args)
            /\ Occurrences(x, q.args) + Occurrences(x, a.add) = Occurrences(x, Q.args) + Occurrences(x, a.drop)
        BY <3>3, <3>6
      <4>3. Grows(x, R, Q, Beyond(r, q) \cup {a})
        BY <2>5, <3>2, <4>1, <4>2, AxisGrows
      <4> QED
        BY <4>1, <4>3
    <3>7. CASE pick(k) = "other" /\ pick(l) = "plain"
      <4>1. a \in Beyond(Q, R)
        BY <2>7, <3>7 DEF Beyond
      <4> QED
        BY <2>9, <4>1
    <3> QED
      BY <2>5, <3>5, <3>6, <3>7
  <2>10. AxisPair(R, Q)
    BY <2>2, <2>4, <2>9 DEF AxisPair
  <2> QED
    BY <2>4, <2>10
<1>10. IsMatrix(next)
  <2>1. \A r \in ToSet(next) : AxisRow(r)
    BY <1>6, <1>8
  <2>2. \A r, q \in ToSet(next) : AxisPair(r, q)
    BY <1>8, <1>9
  <2> QED
    BY <1>8, <2>1, <2>2, MatrixIs
<1>11. ASSUME NEW k \in 1..(N + N), NEW o \in ToSet(prev) PROVE Kin(next[k], o)
  <2>1. PICK r \in ToSet(rows) : r = rows[src(k)]
    BY <1>1, <1>4
  <2>2. PICK q : q = next[k]
    OBVIOUS
  <2>3. Extends(q, r, a, pick(k))
    BY <1>4, <2>1, <2>2
  <2>4. CASE pick(k) = "plain"
    <3>1. q.from = r.from
      BY <2>3, <2>4 DEF Extends
    <3>2. /\ q.features[a.axis] = "plain" /\ DOMAIN q.features = DOMAIN r.features \cup {a.axis}
          /\ \A x \in DOMAIN r.features : q.features[x] = r.features[x]
      BY <1>6, <2>1, <2>2, <2>4
    <3>3. Kin(r, o) /\ a.axis \notin DOMAIN r.features
      BY <1>2
    <3>4. Kin(q, o)
      BY <3>1, <3>2, <3>3 DEF Kin, Near
    <3> QED
      BY <2>2, <3>4
  <2>5. CASE pick(k) = "other"
    <3>1. q.from = <<>>
      BY <2>3, <2>5 DEF Extends
    <3>2. DOMAIN o.id # {}
      BY <1>3 DEF AxisRow
    <3>3. o.id # q.from
      BY <3>1, <3>2
    <3> QED
      BY <2>2, <3>3 DEF Kin, Near
  <2> QED
    BY <1>4, <2>4, <2>5
<1>12. \A r \in ToSet(next), o \in ToSet(prev) : Kin(r, o)
  BY <1>8, <1>11
<1> QED
  BY <1>2, <1>8, <1>10, <1>12 DEF Follows

LEMMA FollowsDropped ==
    ASSUME NEW rows, IsSection(rows), NEW prev, IsSection(prev), IsMatrix(rows), IsMatrix(prev),
           \A r \in ToSet(rows), o \in ToSet(prev) : Kin(r, o), NEW axis,
           NEW next, NEW N \in Nat, N = Len(rows), DOMAIN next = 1..N, next = [i \in 1..N |-> next[i]],
           \A i \in 1..N : IsRow(next[i]) /\ OffAxis(next[i], rows[i], axis) /\ next[i].from = rows[i].from
    PROVE  IsSection(next) /\ Follows(next, prev)
<1>1. /\ DOMAIN rows = 1..N /\ \A i \in 1..N : IsRow(rows[i]) /\ rows[i] \in ToSet(rows)
      /\ \A i, j \in 1..N : rows[i].id = rows[j].id => i = j
  BY SectionDomain
<1>2. (\A r \in ToSet(rows) : AxisRow(r)) /\ (\A r, q \in ToSet(rows) : AxisPair(r, q))
  BY MatrixIs
<1>3. ASSUME NEW i \in 1..N
      PROVE  /\ AxisRow(next[i]) /\ DOMAIN next[i].features = DOMAIN rows[i].features \ {axis}
             /\ \A k \in DOMAIN next[i].features : next[i].features[k] = rows[i].features[k]
             /\ \A k : Chosen(next[i], k) <=> Chosen(rows[i], k)
  <2>1. PICK r \in ToSet(rows) : r = rows[i]
    BY <1>1
  <2>2. PICK q : q = next[i]
    OBVIOUS
  <2>3. OffAxis(q, r, axis)
    BY <2>1, <2>2
  <2>4. AxisRow(r)
    BY <1>2
  <2>5. /\ AxisRow(q) /\ DOMAIN q.features = DOMAIN r.features \ {axis}
        /\ \A k \in DOMAIN q.features : q.features[k] = r.features[k]
        /\ \A k : Chosen(q, k) <=> Chosen(r, k)
    BY <2>3, <2>4, AxisDropped
  <2> QED
    BY <2>1, <2>2, <2>5
<1>4. ASSUME NEW i \in 1..N, NEW j \in 1..N, next[i].id = next[j].id PROVE i = j
  <2>1. PICK r \in ToSet(rows) : r = rows[i]
    BY <1>1
  <2>2. PICK q \in ToSet(rows) : q = rows[j]
    BY <1>1
  <2>3. next[i].features = next[j].features
    BY <1>3, <1>4 DEF AxisRow
  <2>4. PICK D : D = DOMAIN r.features
    OBVIOUS
  <2>5. /\ r.features \in [D -> {"plain", "other"}] /\ q.features \in [D -> {"plain", "other"}]
        /\ r.id = r.features /\ q.id = q.features
    BY <1>2, <2>4 DEF AxisRow, AxisPair
  <2>6. ASSUME NEW k \in D PROVE r.features[k] = q.features[k]
    <3>1. CASE k = axis
      BY <2>1, <2>2, <3>1 DEF OffAxis
    <3>2. CASE k # axis
      <4>1. k \in DOMAIN next[i].features /\ k \in DOMAIN next[j].features
        BY <1>3, <2>1, <2>3, <2>4, <3>2
      <4> QED
        BY <1>3, <2>1, <2>2, <2>3, <4>1
    <3> QED
      BY <3>1, <3>2
  <2>7. r.features = q.features
    BY <2>5, <2>6
  <2> QED
    BY <1>1, <2>1, <2>2, <2>5, <2>7
<1>5. IsSection(next) /\ \A r \in ToSet(next) : \E i \in 1..N : r = next[i]
  BY <1>4, MakesSection
<1>6. ASSUME NEW i \in 1..N, NEW j \in 1..N PROVE AxisPair(next[i], next[j])
  <2>1. AxisPair(rows[i], rows[j])
    BY <1>1, <1>2
  <2>2. DOMAIN next[i].features = DOMAIN next[j].features
    BY <1>3, <2>1 DEF AxisPair
  <2>3. next[i].args = rows[i].args /\ next[j].args = rows[j].args
    BY DEF OffAxis
  <2>4. Beyond(next[i], next[j]) = Beyond(rows[i], rows[j]) /\ Beyond(next[j], next[i]) = Beyond(rows[j], rows[i])
    BY <1>3 DEF Beyond
  <2>5. \A x, A : Grows(x, next[i], next[j], A) <=> Grows(x, rows[i], rows[j], A)
    BY <2>3, Zenon DEF Grows
  <2> QED
    BY <2>1, <2>2, <2>4, <2>5, Zenon DEF AxisPair
<1>7. IsMatrix(next)
  <2>1. \A r \in ToSet(next) : AxisRow(r)
    BY <1>3, <1>5
  <2>2. \A r, q \in ToSet(next) : AxisPair(r, q)
    BY <1>5, <1>6
  <2> QED
    BY <1>5, <2>1, <2>2, MatrixIs
<1>8. ASSUME NEW i \in 1..N, NEW o \in ToSet(prev) PROVE Kin(next[i], o)
  <2>1. PICK r \in ToSet(rows) : r = rows[i]
    BY <1>1
  <2>2. PICK q : q = next[i]
    OBVIOUS
  <2>3. q.from = r.from
    BY <2>1, <2>2
  <2>4. /\ DOMAIN q.features = DOMAIN r.features \ {axis}
        /\ \A k \in DOMAIN q.features : q.features[k] = r.features[k]
    BY <1>3, <2>1, <2>2
  <2>5. Kin(r, o) /\ axis \in DOMAIN r.features /\ r.features[axis] = "plain"
    BY <2>1 DEF OffAxis
  <2>6. Kin(q, o)
    BY <2>3, <2>4, <2>5 DEF Kin, Near
  <2> QED
    BY <2>2, <2>6
<1>9. \A r \in ToSet(next), o \in ToSet(prev) : Kin(r, o)
  BY <1>5, <1>8
<1> QED
  BY <1>5, <1>7, <1>9 DEF Follows

-----------------------------------------------------------------------------
(* Every action keeps the invariant.                                        *)

LEMMA OldSection ==
    ASSUME ReportInv
    PROVE  IsSection(old)
BY ReportAssumption DEF ReportInv

\* The actions make the newer report, and nothing else, another.
Becomes(rows) == old' = old /\ new' = rows

LEMMA EditBecomes ==
    ASSUME NEW rows, Edit(rows)
    PROVE  Becomes(rows)
BY DEF Edit, Becomes

LEMMA AddAxisFollows ==
    ASSUME ReportInv, NEW a \in Axes, AddAxis(a)
    PROVE  ReportInv'
<1> DEFINE plain(r) == Row(with(r.id, a.axis, "plain"), with(r.features, a.axis, "plain"), r.args, r.measured, r.from)
           other(r) == Row(with(r.id, a.axis, "other"), with(r.features, a.axis, "other"),
                           cut(r.args, a.drop) \o a.add, r.measured, <<>>)
           p == [i \in DOMAIN new |-> plain(new[i])]
           o == [i \in DOMAIN new |-> other(new[i])]
<1>1. Specs /\ (\A r \in ToSet(new) : a.axis \notin DOMAIN r.features /\ At(a.drop, r.args) # {}) /\ Becomes(p \o o)
  BY EditBecomes DEF AddAxis
<1>2. IsSection(new) /\ IsSection(old) /\ Follows(new, old)
  BY OldSection DEF ReportInv
<1>3. PICK N \in Nat : N = Len(new)
  BY <1>2, SectionDomain
<1>4. DOMAIN new = 1..N /\ \A i \in 1..N : IsRow(new[i]) /\ new[i] \in ToSet(new)
  BY <1>2, <1>3, SectionDomain
<1>5. a.add \in Seq(STRING) /\ a.drop \in Seq(STRING)
  BY ReportAssumption
<1>6. \A i \in 1..N : Extends(p[i], new[i], a, "plain")
  <2> SUFFICES ASSUME NEW i \in 1..N PROVE Extends(p[i], new[i], a, "plain")
    OBVIOUS
  <2>1. p[i] = plain(new[i]) /\ new[i].args \in Seq(STRING)
    BY <1>4 DEF IsRow
  <2>2. /\ IsRow(plain(new[i])) /\ plain(new[i]).id = with(new[i].id, a.axis, "plain")
        /\ plain(new[i]).features = with(new[i].features, a.axis, "plain")
        /\ plain(new[i]).args = new[i].args /\ plain(new[i]).from = new[i].from
    BY <2>1, RowFields
  <2> QED
    BY <2>1, <2>2 DEF Extends, OnAxis
<1>7. \A i \in 1..N : Extends(o[i], new[i], a, "other")
  <2> SUFFICES ASSUME NEW i \in 1..N PROVE Extends(o[i], new[i], a, "other")
    OBVIOUS
  <2>1. o[i] = other(new[i]) /\ new[i].args \in Seq(STRING)
    BY <1>4 DEF IsRow
  <2>2. cut(new[i].args, a.drop) \o a.add \in Seq(STRING)
    <3>1. cut(new[i].args, a.drop) \in Seq(STRING)
      BY <1>1, <1>4, <1>5, <2>1, OccurrencesCut
    <3> QED
      BY <1>5, <3>1, OccurrencesConcat
  <2>3. /\ IsRow(other(new[i])) /\ other(new[i]).id = with(new[i].id, a.axis, "other")
        /\ other(new[i]).features = with(new[i].features, a.axis, "other")
        /\ other(new[i]).args = cut(new[i].args, a.drop) \o a.add /\ other(new[i]).from = <<>>
    <3>1. PICK x \in Seq(STRING) : x = cut(new[i].args, a.drop) \o a.add
      BY <2>2
    <3> QED
      BY <3>1 DEF Row, IsRow
  <2> QED
    BY <2>1, <2>3 DEF Extends, OnAxis
<1>8. DOMAIN p = 1..N /\ DOMAIN o = 1..N /\ p = [i \in 1..N |-> p[i]] /\ o = [i \in 1..N |-> o[i]]
  BY <1>4
<1> HIDE DEF p, o
<1>9. PICK s : s = p \o o
  OBVIOUS
<1>10. /\ DOMAIN s = 1..(N + N) /\ s = [i \in 1..(N + N) |-> s[i]]
       /\ \A i \in 1..N : s[i] = p[i] /\ s[i + N] = o[i]
  <2> DEFINE T == {p[i] : i \in 1..N} \cup {o[i] : i \in 1..N}
  <2>1. p \in [1..N -> T] /\ o \in [1..N -> T]
    BY <1>8
  <2> HIDE DEF T
  <2>2. p \in Seq(T) /\ o \in Seq(T) /\ Len(p) = N /\ Len(o) = N
    BY <2>1
  <2>3. /\ s \in Seq(T) /\ Len(s) = N + N
        /\ \A i \in 1..(N + N) : s[i] = IF i <= N THEN p[i] ELSE o[i - N]
    <3>1. /\ p \o o \in Seq(T) /\ Len(p \o o) = Len(p) + Len(o)
          /\ \A i \in 1..(Len(p) + Len(o)) : (p \o o)[i] = IF i <= Len(p) THEN p[i] ELSE o[i - Len(p)]
      BY <2>2, ConcatProperties, Zenon
    <3> QED
      BY <1>9, <2>2, <3>1, Zenon
  <2>4. DOMAIN s = 1..(N + N) /\ s = [i \in 1..(N + N) |-> s[i]]
    BY <2>3
  <2>5. ASSUME NEW i \in 1..N PROVE s[i] = p[i] /\ s[i + N] = o[i]
    <3>1. i \in 1..(N + N) /\ i <= N /\ i + N \in 1..(N + N) /\ ~ (i + N <= N) /\ (i + N) - N = i
      OBVIOUS
    <3> QED
      BY <2>3, <3>1
  <2> QED
    BY <2>4, <2>5
<1>11. new # <<>> /\ \A r \in ToSet(new) : DOMAIN r.features # {} /\ a.axis \notin DOMAIN r.features /\ At(a.drop, r.args) # {}
  BY <1>1 DEF Specs
<1>12. /\ \A i \in 1..N : Extends(s[i], new[i], a, "plain")
       /\ \A i \in 1..N : Extends(s[i + N], new[i], a, "other")
  BY <1>6, <1>7, <1>10
<1>13. IsSection(s) /\ Follows(s, old)
  BY <1>2, <1>3, <1>10, <1>11, <1>12, FollowsAdded
<1> QED
  BY <1>1, <1>9, <1>13 DEF ReportInv, Becomes

LEMMA DropAxisFollows ==
    ASSUME ReportInv, NEW axis \in UNION {DOMAIN r.features : r \in ToSet(new)}, DropAxis(axis)
    PROVE  ReportInv'
<1> DEFINE drop(r) == Row(without(r.id, axis), without(r.features, axis), r.args, r.measured, r.from)
           S == {r \in ToSet(new) : r.features[axis] = "plain"}
<1>1. PICK kept : kept = Filter(new, S)
  OBVIOUS
<1> DEFINE s == [i \in DOMAIN kept |-> drop(kept[i])]
<1>2. /\ Specs /\ Becomes(s)
      /\ \A r \in ToSet(new) : axis \in DOMAIN r.features /\ DOMAIN r.features # {axis}
  BY <1>1, EditBecomes DEF DropAxis
<1>3. IsSection(new) /\ IsSection(old) /\ Follows(new, old)
  BY OldSection DEF ReportInv
<1>4. IsMatrix(old) /\ IsMatrix(new) /\ \A r \in ToSet(new), o \in ToSet(old) : Kin(r, o)
  <2>1. PICK r \in ToSet(new) : axis \in DOMAIN r.features
    OBVIOUS
  <2>2. ~ IsVariants(new)
    BY <2>1 DEF IsVariants
  <2> QED
    BY <1>3, <2>2 DEF Follows
<1>5. IsSection(kept) /\ ToSet(kept) = S
  BY <1>1, <1>3, FilterSection
<1>6. IsMatrix(kept)
  <2>1. \A r \in ToSet(kept) : r \in ToSet(new)
    BY <1>5
  <2>2. (\A r \in ToSet(new) : AxisRow(r)) /\ (\A r, q \in ToSet(new) : AxisPair(r, q))
    BY <1>3, <1>4, MatrixIs
  <2>3. (\A r \in ToSet(kept) : AxisRow(r)) /\ (\A r, q \in ToSet(kept) : AxisPair(r, q))
    BY <2>1, <2>2
  <2> QED
    BY <1>5, <2>3, MatrixIs
<1>7. PICK N \in Nat : N = Len(kept)
  BY <1>5, SectionDomain
<1>8. DOMAIN kept = 1..N /\ \A i \in 1..N : IsRow(kept[i]) /\ kept[i] \in S
  BY <1>5, <1>7, SectionDomain
<1>9. \A i \in 1..N : IsRow(s[i]) /\ OffAxis(s[i], kept[i], axis) /\ s[i].from = kept[i].from
  <2> SUFFICES ASSUME NEW i \in 1..N PROVE IsRow(s[i]) /\ OffAxis(s[i], kept[i], axis) /\ s[i].from = kept[i].from
    OBVIOUS
  <2>1. s[i] = drop(kept[i]) /\ kept[i].args \in Seq(STRING)
    BY <1>8 DEF IsRow
  <2>2. /\ IsRow(drop(kept[i])) /\ drop(kept[i]).id = without(kept[i].id, axis)
        /\ drop(kept[i]).features = without(kept[i].features, axis)
        /\ drop(kept[i]).args = kept[i].args /\ drop(kept[i]).from = kept[i].from
    BY <2>1, RowFields
  <2>3. kept[i].features[axis] = "plain" /\ axis \in DOMAIN kept[i].features /\ DOMAIN kept[i].features # {axis}
    BY <1>2, <1>8
  <2> QED
    BY <2>1, <2>2, <2>3 DEF OffAxis
<1>10. DOMAIN s = 1..N /\ s = [i \in 1..N |-> s[i]]
  BY <1>8
<1>11. \A r \in ToSet(kept), o \in ToSet(old) : Kin(r, o)
  BY <1>4, <1>5
<1> HIDE DEF s, S
<1>12. IsSection(s) /\ Follows(s, old)
  <2>1. PICK t : t = s
    OBVIOUS
  <2>2. DOMAIN t = 1..N /\ t = [i \in 1..N |-> t[i]]
    BY <1>10, <2>1
  <2>3. \A i \in 1..N : IsRow(t[i]) /\ OffAxis(t[i], kept[i], axis) /\ t[i].from = kept[i].from
    BY <1>9, <2>1
  <2>4. IsSection(t) /\ Follows(t, old)
    BY <1>3, <1>4, <1>5, <1>6, <1>7, <1>11, <2>2, <2>3, FollowsDropped
  <2> QED
    BY <2>1, <2>4
<1> QED
  BY <1>2, <1>12 DEF ReportInv, Becomes

\* r under its name and with its choices, whatever it was measured as and booted with.
StaysRow(q, r) == IsRow(q) /\ q.id = r.id /\ q.features = r.features /\ q.from = r.from

LEMMA Alike ==
    ASSUME ReportInv, NEW N \in Nat, N = Len(new), NEW s, DOMAIN s = 1..N, s = [i \in 1..N |-> s[i]],
           \A i \in 1..N : StaysRow(s[i], new[i]),
           \A i, j \in 1..N : \A x :
                Occurrences(x, s[i].args) + Occurrences(x, new[j].args) = Occurrences(x, s[j].args) + Occurrences(x, new[i].args)
    PROVE  IsSection(s) /\ Follows(s, old)
<1>1. IsSection(new) /\ Follows(new, old)
  BY DEF ReportInv
<1>2. \A i, j \in 1..N : new[i].id = new[j].id => i = j
  BY <1>1, SectionDomain
<1>3. \A i \in 1..N : IsRow(s[i]) /\ s[i].id = new[i].id /\ s[i].features = new[i].features /\ s[i].from = new[i].from
  BY DEF StaysRow
<1>4. IsSection(s) /\ Len(s) = N
  <2>1. \A i, j \in 1..N : s[i].id = s[j].id => i = j
    BY <1>2, <1>3
  <2> QED
    BY <1>3, <2>1, MakesSection
<1>5. Follows(s, old)
  BY <1>1, <1>3, <1>4, FollowsAlike
<1> QED
  BY <1>4, <1>5

LEMMA ArgumentFollows ==
    ASSUME ReportInv, NEW opt \in NewArgs, AddArgument(opt) \/ DropArgument(opt)
    PROVE  ReportInv'
<1>1. IsSection(new)
  BY DEF ReportInv
<1>2. PICK N \in Nat : N = Len(new)
  BY <1>1, SectionDomain
<1>3. DOMAIN new = 1..N /\ \A i \in 1..N : IsRow(new[i]) /\ new[i] \in ToSet(new) /\ new[i].args \in Seq(STRING)
  BY <1>1, <1>2, SectionDomain DEF IsRow
<1>4. opt \in Seq(STRING)
  BY ReportAssumption
<1>5. \A x : Occurrences(x, opt) \in Nat
  BY <1>4, OccurrencesType
<1>6. \A i \in 1..N : \A x : Occurrences(x, new[i].args) \in Nat
  BY <1>3, OccurrencesType
<1>7. CASE AddArgument(opt)
  <2>1. PICK s : s = [i \in 1..N |-> [new[i] EXCEPT !.args = @ \o opt]]
    OBVIOUS
  <2>2. Becomes(s)
    BY <1>3, <1>7, <2>1, EditBecomes DEF AddArgument
  <2>3. ASSUME NEW i \in 1..N
        PROVE  StaysRow(s[i], new[i]) /\ \A x : Occurrences(x, s[i].args) = Occurrences(x, new[i].args) + Occurrences(x, opt)
    <3>1. PICK r : r = new[i]
      OBVIOUS
    <3>2. IsRow(r) /\ r.args \in Seq(STRING)
      BY <1>3, <3>1
    <3>3. PICK t \in Seq(STRING) : t = r.args \o opt
      BY <1>4, <3>2, OccurrencesConcat
    <3>4. s[i] = [r EXCEPT !.args = t]
      BY <2>1, <3>1, <3>3
    <3>5. s[i] = Row(r.id, r.features, t, r.measured, r.from)
      BY <3>2, <3>4, RowExcept
    <3>6. StaysRow(s[i], r) /\ s[i].args = t
      BY <3>5 DEF Row, IsRow, StaysRow
    <3>7. \A x : Occurrences(x, t) = Occurrences(x, r.args) + Occurrences(x, opt)
      BY <1>4, <3>2, <3>3, OccurrencesConcat
    <3> QED
      BY <3>1, <3>6, <3>7
  <2>4. DOMAIN s = 1..N /\ s = [i \in 1..N |-> s[i]]
    BY <2>1
  <2>5. \A i, j \in 1..N : \A x :
           Occurrences(x, s[i].args) + Occurrences(x, new[j].args) = Occurrences(x, s[j].args) + Occurrences(x, new[i].args)
    BY <1>5, <1>6, <2>3
  <2>6. IsSection(s) /\ Follows(s, old)
    BY <1>2, <2>3, <2>4, <2>5, Alike
  <2> QED
    BY <2>2, <2>6 DEF ReportInv, Becomes
<1>8. CASE DropArgument(opt)
  <2>1. PICK s : s = [i \in 1..N |-> [new[i] EXCEPT !.args = cut(@, opt)]]
    OBVIOUS
  <2>2. Becomes(s) /\ \A r \in ToSet(new) : At(opt, r.args) # {}
    BY <1>3, <1>8, <2>1, EditBecomes DEF DropArgument
  <2>3. ASSUME NEW i \in 1..N
        PROVE  /\ StaysRow(s[i], new[i])
               /\ \A x : /\ Occurrences(x, s[i].args) \in Nat
                         /\ Occurrences(x, new[i].args) = Occurrences(x, s[i].args) + Occurrences(x, opt)
    <3>1. PICK r \in ToSet(new) : r = new[i]
      BY <1>3
    <3>2. IsRow(r) /\ r.args \in Seq(STRING) /\ At(opt, r.args) # {}
      BY <1>3, <2>2, <3>1
    <3>3. PICK t \in Seq(STRING) : t = cut(r.args, opt)
      BY <1>4, <3>2, OccurrencesCut
    <3>4. s[i] = [r EXCEPT !.args = t]
      BY <2>1, <3>1, <3>3
    <3>5. s[i] = Row(r.id, r.features, t, r.measured, r.from)
      BY <3>2, <3>4, RowExcept
    <3>6. StaysRow(s[i], r) /\ s[i].args = t
      BY <3>5 DEF Row, IsRow, StaysRow
    <3>7. \A x : Occurrences(x, t) \in Nat /\ Occurrences(x, r.args) = Occurrences(x, t) + Occurrences(x, opt)
      BY <1>4, <3>2, <3>3, OccurrencesCut, OccurrencesType
    <3> QED
      BY <3>1, <3>6, <3>7
  <2>4. DOMAIN s = 1..N /\ s = [i \in 1..N |-> s[i]]
    BY <2>1
  <2>5. \A i, j \in 1..N : \A x :
           Occurrences(x, s[i].args) + Occurrences(x, new[j].args) = Occurrences(x, s[j].args) + Occurrences(x, new[i].args)
    BY <1>5, <2>3
  <2>6. IsSection(s) /\ Follows(s, old)
    BY <1>2, <2>3, <2>4, <2>5, Alike
  <2> QED
    BY <2>2, <2>6 DEF ReportInv, Becomes
<1> QED
  BY <1>7, <1>8

LEMMA RemeasureFollows ==
    ASSUME ReportInv, NEW k \in DOMAIN new, Remeasure(k)
    PROVE  ReportInv'
<1>1. IsSection(new)
  BY DEF ReportInv
<1>2. PICK N \in Nat : N = Len(new)
  BY <1>1, SectionDomain
<1>3. DOMAIN new = 1..N /\ new = [i \in 1..N |-> new[i]] /\ \A i \in 1..N : IsRow(new[i])
  BY <1>1, <1>2, SectionDomain
<1>4. PICK r : r = new[k]
  OBVIOUS
<1>5. PICK q : q = [r EXCEPT !.measured = 1 - r.measured]
  OBVIOUS
<1>6. PICK s : s = [new EXCEPT ![k] = q]
  OBVIOUS
<1>7. Becomes(s)
  <2>1. Becomes([new EXCEPT ![k].measured = 1 - @])
    BY EditBecomes DEF Remeasure
  <2> QED
    BY <1>4, <1>5, <1>6, <2>1
<1>8. StaysRow(q, r) /\ q.args = r.args
  <2>1. IsRow(r)
    BY <1>3, <1>4
  <2>2. q = Row(r.id, r.features, r.args, 1 - r.measured, r.from)
    BY <1>5, <2>1, RowExcept
  <2> QED
    BY <2>1, <2>2 DEF Row, IsRow, StaysRow
<1>9. DOMAIN s = 1..N /\ s = [i \in 1..N |-> s[i]] /\ s[k] = q /\ \A i \in 1..N : i # k => s[i] = new[i]
  BY <1>3, <1>6
<1>10. \A i \in 1..N : StaysRow(s[i], new[i]) /\ s[i].args = new[i].args
  BY <1>3, <1>4, <1>8, <1>9 DEF StaysRow
<1>11. IsSection(s) /\ Follows(s, old)
  <2>1. \A i \in 1..N : \A x : Occurrences(x, new[i].args) \in Nat
    BY <1>3, OccurrencesType DEF IsRow
  <2>2. \A i, j \in 1..N : \A x :
           Occurrences(x, s[i].args) + Occurrences(x, new[j].args) = Occurrences(x, s[j].args) + Occurrences(x, new[i].args)
    BY <1>10, <2>1
  <2> QED
    BY <1>2, <1>9, <1>10, <2>2, Alike
<1> QED
  BY <1>7, <1>11 DEF ReportInv, Becomes

LEMMA SomeFollow ==
    ASSUME ReportInv, NEW S, Becomes(Filter(new, S))
    PROVE  ReportInv'
<1>1. IsSection(new) /\ Follows(new, old)
  BY DEF ReportInv
<1>2. PICK s : s = Filter(new, S)
  OBVIOUS
<1>3. IsSection(s) /\ ToSet(s) \subseteq ToSet(new)
  BY <1>1, <1>2, FilterSection
<1>4. Follows(s, old)
  BY <1>1, <1>3, FollowsSome
<1> QED
  BY <1>2, <1>3, <1>4 DEF ReportInv, Becomes

LEMMA ReorderFollows ==
    ASSUME ReportInv, Reorder
    PROVE  ReportInv'
<1>1. IsSection(new) /\ Follows(new, old)
  BY DEF ReportInv
<1>2. PICK N \in Nat : N = Len(new)
  BY <1>1, SectionDomain
<1>3. /\ DOMAIN new = 1..N /\ \A i \in 1..N : IsRow(new[i]) /\ new[i] \in ToSet(new)
      /\ \A i, j \in 1..N : new[i].id = new[j].id => i = j
  BY <1>1, <1>2, SectionDomain
<1>4. PICK s : s = Reverse(new)
  OBVIOUS
<1>5. s = [i \in 1..N |-> new[(N - i) + 1]]
  BY <1>2, <1>4 DEF Reverse
<1>6. \A i \in 1..N : (N - i) + 1 \in 1..N
  OBVIOUS
<1>7. DOMAIN s = 1..N /\ s = [i \in 1..N |-> s[i]] /\ \A i \in 1..N : s[i] = new[(N - i) + 1] /\ IsRow(s[i]) /\ s[i] \in ToSet(new)
  BY <1>3, <1>5, <1>6
<1>8. ASSUME NEW i \in 1..N, NEW j \in 1..N, s[i].id = s[j].id PROVE i = j
  <2>1. (N - i) + 1 = (N - j) + 1
    BY <1>3, <1>6, <1>7, <1>8
  <2> QED
    BY <2>1
<1>9. IsSection(s) /\ \A r \in ToSet(s) : \E i \in 1..N : r = s[i]
  BY <1>7, <1>8, MakesSection
<1>10. Follows(s, old)
  <2>1. ToSet(s) \subseteq ToSet(new)
    BY <1>7, <1>9
  <2> QED
    BY <1>1, <1>9, <2>1, FollowsSome
<1>11. Becomes(s)
  BY <1>4, EditBecomes DEF Reorder
<1> QED
  BY <1>9, <1>10, <1>11 DEF ReportInv, Becomes

LEMMA RenameFollows ==
    ASSUME ReportInv, NEW k \in DOMAIN new, NEW id, Rename(k, id)
    PROVE  ReportInv'
<1>1. IsSection(new) /\ Follows(new, old)
  BY DEF ReportInv
<1>2. PICK N \in Nat : N = Len(new)
  BY <1>1, SectionDomain
<1>3. /\ DOMAIN new = 1..N /\ new = [i \in 1..N |-> new[i]] /\ \A i \in 1..N : IsRow(new[i]) /\ new[i] \in ToSet(new)
      /\ \A i, j \in 1..N : new[i].id = new[j].id => i = j
  BY <1>1, <1>2, SectionDomain
<1>4. ~ Specs /\ id \notin {r.id : r \in ToSet(new)} /\ Becomes([new EXCEPT ![k].id = id])
  BY EditBecomes DEF Rename
<1>5. IsVariants(old) /\ IsVariants(new)
  <2>1. new # <<>>
    BY <1>3
  <2>2. PICK r \in ToSet(new) : DOMAIN r.features = {}
    BY <1>4, <2>1 DEF Specs
  <2>3. ~ IsMatrix(new)
    <3>1. ~ AxisRow(r)
      BY <2>2 DEF AxisRow
    <3> QED
      BY <1>1, <3>1, MatrixIs
  <2> QED
    BY <1>1, <2>3 DEF Follows
<1>6. PICK q : q = [new[k] EXCEPT !.id = id]
  OBVIOUS
<1>7. IsRow(q) /\ q.id = id /\ q.features = new[k].features
  <2>1. PICK r : r = new[k]
    OBVIOUS
  <2>2. IsRow(r)
    BY <1>3, <2>1
  <2>3. q = Row(id, r.features, r.args, r.measured, r.from)
    BY <1>6, <2>1, <2>2, RowExcept
  <2> QED
    BY <2>1, <2>2, <2>3 DEF Row, IsRow
<1>8. PICK s : s = [new EXCEPT ![k] = q]
  OBVIOUS
<1>9. DOMAIN s = 1..N /\ s = [i \in 1..N |-> s[i]] /\ s[k] = q /\ \A i \in 1..N : i # k => s[i] = new[i]
  BY <1>3, <1>8
<1>10. \A i \in 1..N : IsRow(s[i]) /\ s[i].features = new[i].features
  BY <1>3, <1>7, <1>9
<1>11. ASSUME NEW i \in 1..N, NEW j \in 1..N, s[i].id = s[j].id PROVE i = j
  <2>1. \A l \in 1..N : new[l].id # id
    BY <1>3, <1>4
  <2> QED
    BY <1>3, <1>7, <1>9, <1>11, <2>1
<1>12. IsSection(s) /\ \A r \in ToSet(s) : \E i \in 1..N : r = s[i]
  BY <1>9, <1>10, <1>11, MakesSection
<1>13. IsVariants(s)
  BY <1>3, <1>5, <1>10, <1>12 DEF IsVariants
<1>14. Becomes(s)
  BY <1>4, <1>6, <1>8
<1> QED
  BY <1>5, <1>12, <1>13, <1>14 DEF ReportInv, Becomes, Follows

\* Whatever a release does to the matrix or the variants, the newer report stays one whose
\* rows Diff can tell apart: no two have one name, and in the matrix a row that stands for an
\* older one agrees with it on the axes both have and made the plain choice on the others.
LEMMA ReportInductive == ReportSpec => []ReportInv
<1>1. ReportInit => ReportInv
  <2> SUFFICES ASSUME ReportInit PROVE ReportInv
    OBVIOUS
  <2>1. old \in OldSections /\ new = old
    BY DEF ReportInit
  <2>2. IsSection(old) /\ (IsVariants(old) \/ (IsMatrix(old) /\ \A r \in ToSet(old) : r.from = r.id))
    BY <2>1, ReportAssumption, Zenon
  <2>3. ASSUME IsMatrix(old), \A r \in ToSet(old) : r.from = r.id, NEW r \in ToSet(old), NEW o \in ToSet(old) PROVE Kin(r, o)
    <3>1. r.id = r.features /\ o.id = o.features
      BY <2>2, <2>3, MatrixIs DEF AxisRow
    <3> QED
      BY <2>3, <3>1 DEF Kin, Near
  <2> QED
    BY <2>1, <2>2, <2>3 DEF ReportInv, Follows
<1>2. ReportInv /\ [ReportNext]_reportVars => ReportInv'
  <2> SUFFICES ASSUME ReportInv, [ReportNext]_reportVars PROVE ReportInv'
    OBVIOUS
  <2>1. ASSUME NEW a \in Axes, AddAxis(a) PROVE ReportInv'
    BY <2>1, AddAxisFollows
  <2>2. ASSUME NEW axis \in UNION {DOMAIN r.features : r \in ToSet(new)}, DropAxis(axis) PROVE ReportInv'
    BY <2>2, DropAxisFollows
  <2>3. ASSUME NEW opt \in NewArgs, AddArgument(opt) \/ DropArgument(opt) PROVE ReportInv'
    BY <2>3, ArgumentFollows
  <2>4. ASSUME NEW i \in DOMAIN new, LoseRow(i) PROVE ReportInv'
    BY <2>4, EditBecomes, SomeFollow DEF LoseRow
  <2>5. ASSUME NEW i \in DOMAIN new, Remeasure(i) PROVE ReportInv'
    BY <2>5, RemeasureFollows
  <2>6. ASSUME NEW i \in DOMAIN new, NEW id \in NewNames, Rename(i, id) PROVE ReportInv'
    BY <2>6, RenameFollows
  <2>7. CASE Reorder
    BY <2>7, ReorderFollows
  <2>8. ASSUME NEW r \in ToSet(new), Ask(ToSet(new) \ {r}) PROVE ReportInv'
    <3>1. Becomes(Filter(new, ToSet(new) \ {r}))
      BY <2>8 DEF Ask, Becomes
    <3> QED
      BY <3>1, SomeFollow
  <2>9. CASE UNCHANGED reportVars
    BY <2>9 DEF reportVars, ReportInv
  <2> QED
    BY <2>1, <2>2, <2>3, <2>4, <2>5, <2>6, <2>7, <2>8, <2>9 DEF ReportNext
<1> QED
  BY <1>1, <1>2, PTL DEF ReportSpec

\* Diff pairs the rows that are each other's only nearest (nearest and renames, whatever order
\* the rows are in), and section says of every row of either report exactly one thing.
THEOREM RowsOnce == ReportSpec => []EveryRowOnce
<1>1. ReportInv => EveryRowOnce
  <2> SUFFICES ASSUME ReportInv PROVE EveryRowOnce
    OBVIOUS
  <2>1. IsSection(old) /\ IsSection(new)
    BY OldSection DEF ReportInv
  <2> QED
    BY <2>1, Accounted
<1> QED
  BY <1>1, ReportInductive, PTL

-----------------------------------------------------------------------------
(* An axis added or removed.                                                *)

\* From r's command line to o's nothing moved against an axis that only o has.
Apart(r, o) == \A a \in Axes : a.axis \in DOMAIN o.features \ DOMAIN r.features => Along(a, r, o)

\* Of the rows of o's matrix, o is nearer to r than any other that can stand for it: their
\* command lines are those beyond o's.
LEMMA OthersFarther ==
    ASSUME NEW r, IsRow(r), AxisRow(r), NEW o, IsRow(o), AxisRow(o), NEW c, IsRow(c), AxisRow(c),
           AxisPair(o, c), o.id # c.id, Near(r, o), Apart(r, o), CanStand(r, c)
    PROVE  distance(r.args, o.args) < distance(r.args, c.args)
<1>1. PICK D : D = DOMAIN o.features /\ D = DOMAIN c.features
  BY DEF AxisPair
<1>2. /\ o.features \in [D -> {"plain", "other"}] /\ c.features \in [D -> {"plain", "other"}]
      /\ o.id = o.features /\ c.id = c.features /\ D \subseteq AxisNames
  BY <1>1 DEF AxisRow
<1>3. \A k \in D \cap DOMAIN r.features : o.features[k] = r.features[k] /\ c.features[k] = r.features[k]
  BY <1>1 DEF Near, CanStand, sameAxes
<1>4. \A k \in D \ DOMAIN r.features : o.features[k] = "plain"
  BY <1>1 DEF Near
<1>5. PICK B : B = Beyond(o, c)
  OBVIOUS
<1>6. Beyond(c, o) = {} /\ B \in SUBSET Axes
  <2>1. \A k : Chosen(o, k) => Chosen(c, k)
    BY <1>1, <1>3, <1>4 DEF Chosen
  <2> QED
    BY <1>5, <2>1 DEF Beyond
<1>7. ASSUME NEW a \in B PROVE Along(a, r, o)
  <2>1. a \in Axes /\ a.axis \in D /\ c.features[a.axis] # o.features[a.axis]
    BY <1>1, <1>5, <1>7 DEF Beyond, Chosen
  <2>2. a.axis \notin DOMAIN r.features
    BY <1>3, <2>1
  <2> QED
    BY <1>1, <2>1, <2>2 DEF Apart
<1>8. \A x : Grows(x, o, c, B)
  BY <1>5, <1>6 DEF AxisPair
<1>9. r.args \in Seq(STRING) /\ o.args \in Seq(STRING) /\ c.args \in Seq(STRING)
  BY DEF IsRow
<1>10. \A x : Occurrences(x, o.args) \in Nat /\ Occurrences(x, c.args) \in Nat /\ Occurrences(x, r.args) \in Nat
  BY <1>9, OccurrencesType
<1>11. ASSUME NEW x
       PROVE  \/ Occurrences(x, r.args) <= Occurrences(x, o.args) /\ Occurrences(x, o.args) <= Occurrences(x, c.args)
              \/ Occurrences(x, c.args) <= Occurrences(x, o.args) /\ Occurrences(x, o.args) <= Occurrences(x, r.args)
  <2>1. PICK n \in Nat, m \in Nat, k \in Nat :
           n = Occurrences(x, o.args) /\ m = Occurrences(x, c.args) /\ k = Occurrences(x, r.args)
    BY <1>10
  <2>2. (Drops(B, x) \/ n <= m) /\ (Adds(B, x) \/ m <= n)
    BY <1>8, <2>1 DEF Grows
  <2>3. Adds(B, x) => k <= n
    BY <1>7, <2>1 DEF Adds, Along
  <2>4. Drops(B, x) => n <= k
    BY <1>7, <2>1 DEF Drops, Along
  <2>5. (k <= n /\ n <= m) \/ (m <= n /\ n <= k)
    BY <2>2, <2>3, <2>4
  <2> QED
    BY <2>1, <2>5
<1>12. PICK x : Occurrences(x, o.args) # Occurrences(x, c.args)
  <2>1. PICK k \in D : o.features[k] # c.features[k]
    BY <1>2
  <2>2. k \notin DOMAIN r.features
    BY <1>3, <2>1
  <2>3. ~ Chosen(o, k) /\ Chosen(c, k)
    BY <1>1, <1>2, <1>4, <2>1, <2>2 DEF Chosen
  <2>4. PICK a \in Axes : a.axis = k
    BY <1>2 DEF AxisNames
  <2>5. a \in B
    BY <1>5, <2>3, <2>4 DEF Beyond
  <2>6. PICK y \in ToSet(a.add) : ~ Drops(Axes, y)
    BY ReportAssumption
  <2>7. Occurrences(y, o.args) < Occurrences(y, c.args)
    BY <1>8, <2>5, <2>6 DEF Grows, Adds
  <2> QED
    BY <1>10, <2>7
<1> QED
  BY <1>9, <1>11, <1>12, Farther

LEMMA OnlyNearest ==
    ASSUME NEW rows, IsSection(rows), IsMatrix(rows), NEW r \in ToSet(rows),
           NEW others, IsSection(others), IsMatrix(others), NEW o \in ToSet(others),
           Near(r, o), Apart(r, o), NEW among, ToSet(among) \subseteq ToSet(others), o \in ToSet(among)
    PROVE  NearestSet(r, among) = {o}
<1>1. IsRow(r) /\ AxisRow(r)
  BY MatrixIs DEF IsSection
<1>2. \A c \in ToSet(others) : IsRow(c) /\ AxisRow(c) /\ AxisPair(o, c)
  BY MatrixIs DEF IsSection
<1>3. \A c \in ToSet(others) : c.id = o.id => c = o
  BY SectionIs
<1>4. CanStand(r, o)
  BY <1>1, <1>2 DEF CanStand, sameAxes, Near, AxisRow
<1>5. \A c \in ToSet(others) : distance(r.args, c.args) \in Nat
  BY <1>1, <1>2, DistanceType DEF IsRow
<1>6. ASSUME NEW c \in ToSet(among), CanStand(r, c), c # o PROVE distance(r.args, o.args) < distance(r.args, c.args)
  <2>1. c \in ToSet(others) /\ IsRow(c) /\ AxisRow(c) /\ AxisPair(o, c) /\ c.id # o.id
    BY <1>2, <1>3, <1>6
  <2>2. IsRow(o) /\ AxisRow(o)
    BY <1>2
  <2> QED
    BY <1>1, <1>6, <2>1, <2>2, OthersFarther
<1>7. o \in NearestSet(r, among)
  <2>1. ASSUME NEW c \in ToSet(among), CanStand(r, c) PROVE distance(r.args, o.args) <= distance(r.args, c.args)
    BY <1>5, <1>6, <2>1
  <2> QED
    BY <1>4, <2>1 DEF NearestSet
<1>8. ASSUME NEW c \in NearestSet(r, among) PROVE c = o
  <2>1. c \in ToSet(among) /\ CanStand(r, c) /\ distance(r.args, c.args) <= distance(r.args, o.args)
    BY <1>4, <1>8 DEF NearestSet
  <2>2. distance(r.args, c.args) \in Nat /\ distance(r.args, o.args) \in Nat
    BY <1>5, <2>1
  <2> QED
    BY <1>6, <2>1, <2>2
<1> QED
  BY <1>7, <1>8

\* renames finds every row of the matrix again when an axis is added or dropped: of the rows
\* that agree with it on the axes that are left, the one with the plain choice is the nearest,
\* in both directions, also when the command lines moved, unless they moved back over what the
\* other choice on such an axis adds or drops; whatever tokens the axes' options share.
THEOREM AxesRenamed == ReportSpec => []AxesRename
<1>1. ReportInv => AxesRename
  <2> SUFFICES ASSUME ReportInv, NEW r \in ToSet(new), NEW o \in ToSet(old),
                      StandsFor(r, o), MovedApart(r, o), r.id # o.id
               PROVE  <<r, o>> \in renames(Olds, News)
    BY DEF AxesRename
  <2>0. DOMAIN r.features # {} /\ o.id = r.from /\ Apart(r, o) /\ Apart(o, r)
    BY DEF StandsFor, MovedApart, Apart
  <2>1. IsSection(old) /\ IsSection(new) /\ Follows(new, old)
    BY OldSection DEF ReportInv
  <2>2. IsMatrix(old) /\ IsMatrix(new) /\ Kin(r, o)
    BY <2>0, <2>1 DEF Follows, IsVariants
  <2>3. Near(r, o) /\ Near(o, r)
    BY <2>0, <2>2 DEF Kin, Near
  <2>4. /\ \A q \in ToSet(new) : AxisRow(q) /\ AxisPair(q, r)
        /\ \A q \in ToSet(old) : AxisRow(q) /\ AxisPair(q, o)
    BY <2>1, <2>2, MatrixIs
  <2>5. DOMAIN r.features # DOMAIN o.features
    <3> SUFFICES ASSUME DOMAIN r.features = DOMAIN o.features PROVE FALSE
      OBVIOUS
    <3>1. PICK D : D = DOMAIN r.features
      OBVIOUS
    <3>2. /\ r.features \in [D -> {"plain", "other"}] /\ o.features \in [D -> {"plain", "other"}]
          /\ r.id = r.features /\ o.id = o.features
      BY <2>4, <3>1 DEF AxisRow
    <3>3. \A k \in D : r.features[k] = o.features[k]
      BY <2>3, <3>1 DEF Near
    <3>4. r.features = o.features
      BY <3>2, <3>3
    <3> QED
      BY <3>2, <3>4
  <2>6. \A q \in ToSet(new), p \in ToSet(old) : q.id # p.id
    <3> SUFFICES ASSUME NEW q \in ToSet(new), NEW p \in ToSet(old), q.id = p.id PROVE FALSE
      OBVIOUS
    <3>1. DOMAIN q.features = DOMAIN r.features /\ DOMAIN p.features = DOMAIN o.features
      BY <2>4 DEF AxisPair
    <3>2. q.id = q.features /\ p.id = p.features
      BY <2>4 DEF AxisRow
    <3> QED
      BY <2>5, <3>1, <3>2
  <2>7. /\ ToSet(News) = {q \in ToSet(new) : \A p \in ToSet(old) : p.id # q.id}
        /\ ToSet(Olds) = {p \in ToSet(old) : \A q \in ToSet(new) : q.id # p.id}
    BY <2>1, OnlyIs DEF News, Olds
  <2>8. /\ r \in ToSet(News) /\ o \in ToSet(Olds)
        /\ ToSet(News) \subseteq ToSet(new) /\ ToSet(Olds) \subseteq ToSet(old)
    BY <2>6, <2>7
  <2>9. NearestSet(r, Olds) = {o}
    BY <2>0, <2>1, <2>2, <2>3, <2>8, OnlyNearest
  <2>10. NearestSet(o, News) = {r}
    BY <2>0, <2>1, <2>2, <2>3, <2>8, OnlyNearest
  <2>11. renames(Olds, News) = {p \in ToSet(News) \X ToSet(Olds) :
                                  NearestSet(p[1], Olds) = {p[2]} /\ NearestSet(p[2], News) = {p[1]}}
    BY <2>1, RenamesAre DEF Olds, News
  <2> QED
    BY <2>8, <2>9, <2>10, <2>11
<1> QED
  BY <1>1, ReportInductive, PTL
=============================================================================
