--------------------------- MODULE CmdlineProofs ---------------------------
(***************************************************************************)
(* Theorems about Cmdline: lines made from one another never change each   *)
(* other, and a line that validates is read by the kernel as it was meant, *)
(* as long as Extra closes the quotes it opens.                            *)
(***************************************************************************)
EXTENDS Cmdline, WellFoundedInduction, TLAPS

-----------------------------------------------------------------------------
(* Induction up to a number, and loops written as recursive functions.      *)

\* What holds of 0 and of n if of n - 1 holds up to N.
LEMMA Upto ==
    ASSUME NEW N \in Nat, NEW S, 0 \in S, \A n \in 1..N : n - 1 \in S => n \in S
    PROVE  0..N \subseteq S
<1> DEFINE Less == OpToRel(<, Nat)
           Bad == {n \in 0..N : n \notin S}
<1> SUFFICES ASSUME Bad # {} PROVE FALSE
  OBVIOUS
<1>1. IsWellFoundedOn(Less, Nat)
  BY NatLessThanWellFounded
<1>2. Bad \in SUBSET Nat
  OBVIOUS
<1>3. PICK m \in Bad : \A y \in Bad : ~ (<<y, m>> \in Less)
  BY <1>1, <1>2, WFMin
<1>4. m \in 0..N /\ m \notin S /\ m # 0
  BY <1>3
<1>5. m \in 1..N /\ m - 1 \in Nat /\ m - 1 \in 0..N /\ m - 1 < m
  BY <1>4
<1>6. <<m - 1, m>> \in Less
  BY <1>4, <1>5 DEF OpToRel
<1>7. m - 1 \in S
  BY <1>3, <1>5, <1>6
<1> QED
  BY <1>4, <1>5, <1>7

\* turn[n] is the n-th turn of a loop over an accumulator in A, and f what it comes to.
Closed(turn, N, A) == \A n \in 1..N : \A a \in A : turn[n][a] \in A
Loop(f, turn, N, base) == f[0] = base /\ \A n \in 1..N : f[n] = turn[n][f[n - 1]]

\* A loop of N turns comes to something.
LEMMA Turns ==
    ASSUME NEW N \in Nat, NEW A, NEW base \in A, NEW turn, Closed(turn, N, A)
    PROVE  \E f \in [0..N -> A] : Loop(f, turn, N, base)
<1> DEFINE S == {m \in 0..N : \E f \in [0..m -> A] : Loop(f, turn, m, base)}
<1>0. \A n \in 1..N : \A a \in A : turn[n][a] \in A
  BY DEF Closed
<1>1. 0 \in S
  <2> DEFINE f == [n \in 0..0 |-> base]
  <2>1. f \in [0..0 -> A] /\ f[0] = base /\ \A n \in 1..0 : f[n] = turn[n][f[n - 1]]
    OBVIOUS
  <2>2. 0 \in 0..N
    OBVIOUS
  <2> QED
    BY <2>1, <2>2 DEF Loop
<1>2. ASSUME NEW m \in 1..N, m - 1 \in S PROVE m \in S
  <2>1. PICK f \in [0..(m - 1) -> A] : f[0] = base /\ \A n \in 1..(m - 1) : f[n] = turn[n][f[n - 1]]
    BY <1>2 DEF Loop
  <2> DEFINE g == [n \in 0..m |-> IF n = m THEN turn[m][f[m - 1]] ELSE f[n]]
  <2>2. f[m - 1] \in A
    BY <2>1
  <2>3. \A n \in 0..m : g[n] \in A
    <3> SUFFICES ASSUME NEW n \in 0..m PROVE g[n] \in A
      OBVIOUS
    <3>1. CASE n = m
      BY <1>0, <2>2, <3>1
    <3>2. CASE n # m
      <4>1. n \in 0..(m - 1)
        BY <3>2
      <4> QED
        BY <2>1, <3>2, <4>1
    <3> QED
      BY <3>1, <3>2
  <2>4. g \in [0..m -> A]
    BY <2>3
  <2>5. g[0] = base
    BY <2>1
  <2>6. ASSUME NEW n \in 1..m PROVE g[n] = turn[n][g[n - 1]]
    <3>1. g[n - 1] = f[n - 1]
      OBVIOUS
    <3>2. CASE n = m
      BY <3>1, <3>2
    <3>3. CASE n # m
      <4>1. n \in 1..(m - 1) /\ g[n] = f[n]
        BY <3>3
      <4> HIDE DEF g
      <4> QED
        BY <2>1, <3>1, <4>1
    <3> QED
      BY <3>2, <3>3
  <2> HIDE DEF g
  <2>7. Loop(g, turn, m, base)
    BY <2>5, <2>6 DEF Loop
  <2> QED
    BY <2>4, <2>7
<1> HIDE DEF S
<1>3. 0..N \subseteq S
  BY <1>1, <1>2, Upto
<1>4. N \in S
  BY <1>3
<1> QED
  BY <1>4 DEF S

-----------------------------------------------------------------------------
(* The bytes of a line.                                                     *)

LEMMA EndsAre ==
    ASSUME NEW words, Len(words) \in Nat, \A n \in 1..Len(words) : words[n].len \in Nat
    PROVE  /\ ends(words)[0] = 0
           /\ \A n \in 1..Len(words) : ends(words)[n] = ends(words)[n - 1] + words[n].len + 1
           /\ \A n \in 0..Len(words) : ends(words)[n] \in Nat
<1> DEFINE N == Len(words)
           turn == [n \in 1..N |-> [a \in Nat |-> a + words[n].len + 1]]
           end == CHOOSE f : f = [n \in 0..N |-> IF n = 0 THEN 0 ELSE f[n - 1] + words[n].len + 1]
<1>1. ends(words) = end
  BY DEF ends
<1>2. N \in Nat /\ \A n \in 1..N : words[n].len \in Nat
  OBVIOUS
<1> HIDE DEF N
<1>3. \A n \in 1..N : \A a \in Nat : turn[n][a] = a + words[n].len + 1 /\ turn[n][a] \in Nat
  BY <1>2
<1> HIDE DEF turn
<1>4. PICK f \in [0..N -> Nat] : f[0] = 0 /\ \A n \in 1..N : f[n] = turn[n][f[n - 1]]
  <2>1. Closed(turn, N, Nat)
    BY <1>3 DEF Closed
  <2>2. N \in Nat /\ 0 \in Nat
    BY <1>2
  <2>3. \E f \in [0..N -> Nat] : Loop(f, turn, N, 0)
    BY <2>1, <2>2, Turns
  <2> QED
    BY <2>3 DEF Loop
<1>5. \A n \in 0..N : f[n] = IF n = 0 THEN 0 ELSE f[n - 1] + words[n].len + 1
  <2> SUFFICES ASSUME NEW n \in 0..N PROVE f[n] = IF n = 0 THEN 0 ELSE f[n - 1] + words[n].len + 1
    OBVIOUS
  <2>1. CASE n # 0
    <3>1. n \in 1..N /\ n - 1 \in 0..N
      BY <1>2, <2>1
    <3> QED
      BY <1>3, <1>4, <2>1, <3>1
  <2> QED
    BY <1>4, <2>1
<1>6. f = [n \in 0..N |-> IF n = 0 THEN 0 ELSE f[n - 1] + words[n].len + 1]
  BY <1>4, <1>5
<1>7. end = [n \in 0..N |-> IF n = 0 THEN 0 ELSE end[n - 1] + words[n].len + 1]
  BY <1>6
<1> HIDE DEF end
<1>8. end[0] = 0 /\ \A n \in 1..N : end[n] = end[n - 1] + words[n].len + 1
  <2>1. 0 \in 0..N /\ \A n \in 1..N : n \in 0..N /\ n # 0
    BY <1>2
  <2> QED
    BY <1>7, <2>1
<1>9. \A n \in 0..N : end[n] \in Nat
  <2> DEFINE S == {n \in 0..N : end[n] \in Nat}
  <2>1. 0 \in S
    BY <1>2, <1>8
  <2>2. ASSUME NEW n \in 1..N, n - 1 \in S PROVE n \in S
    <3>1. end[n - 1] \in Nat /\ words[n].len \in Nat /\ n \in 0..N
      BY <1>2, <2>2
    <3>2. end[n] = end[n - 1] + words[n].len + 1
      BY <1>8
    <3> QED
      BY <3>1, <3>2
  <2> HIDE DEF S
  <2>3. 0..N \subseteq S
    BY <1>2, <2>1, <2>2, Upto
  <2> QED
    BY <2>3 DEF S
<1> QED
  BY <1>1, <1>8, <1>9 DEF N

\* No word ends behind the line.
LEMMA EndsWithin ==
    ASSUME NEW words, Len(words) \in Nat, \A n \in 1..Len(words) : words[n].len \in Nat,
           NEW n \in 0..Len(words)
    PROVE  ends(words)[n] <= ends(words)[Len(words)]
<1> DEFINE N == Len(words)
           e == ends(words)
           S == {k \in 0..(N - n) : e[n] <= e[n + k]}
<1>1. /\ \A k \in 1..N : e[k] = e[k - 1] + words[k].len + 1
      /\ \A k \in 0..N : e[k] \in Nat
      /\ N \in Nat /\ \A k \in 1..N : words[k].len \in Nat
  BY EndsAre
<1> HIDE DEF N, e
<1>2. n \in 0..N /\ N - n \in Nat
  BY <1>1 DEF N
<1>3. 0 \in S
  BY <1>1, <1>2
<1>4. ASSUME NEW k \in 1..(N - n), k - 1 \in S PROVE k \in S
  <2>1. n + k \in 1..N /\ n + (k - 1) = (n + k) - 1 /\ (n + k) - 1 \in 0..N
    BY <1>1, <1>2
  <2>2. e[n + k] = e[(n + k) - 1] + words[n + k].len + 1
    BY <1>1, <2>1
  <2>3. e[n] <= e[(n + k) - 1]
    BY <1>4, <2>1
  <2>4. e[n] \in Nat /\ e[(n + k) - 1] \in Nat /\ words[n + k].len \in Nat
    BY <1>1, <1>2, <2>1
  <2> QED
    BY <2>2, <2>3, <2>4
<1> HIDE DEF S
<1>5. N - n \in S
  <2>1. 0..(N - n) \subseteq S
    BY <1>2, <1>3, <1>4, Upto
  <2> QED
    BY <1>2, <2>1
<1>6. n + (N - n) = N
  BY <1>1, <1>2
<1> QED
  BY <1>5, <1>6 DEF S, N, e

-----------------------------------------------------------------------------
(* Sequences.                                                               *)

LEMMA Single ==
    ASSUME NEW T, NEW e \in T
    PROVE  <<e>> \in Seq(T)
OBVIOUS

LEMMA Joined ==
    ASSUME NEW T, NEW s \in Seq(T), NEW t \in Seq(T)
    PROVE  /\ s \o t \in Seq(T) /\ Len(s \o t) = Len(s) + Len(t)
           /\ \A i \in 1..Len(s) : (s \o t)[i] = s[i]
           /\ \A i \in 1..Len(t) : (s \o t)[Len(s) + i] = t[i]
OBVIOUS

LEMMA Appended ==
    ASSUME NEW T, NEW s \in Seq(T), NEW e \in T
    PROVE  /\ Append(s, e) \in Seq(T) /\ Len(Append(s, e)) = Len(s) + 1
           /\ \A i \in 1..Len(s) : Append(s, e)[i] = s[i]
           /\ Append(s, e)[Len(s) + 1] = e
OBVIOUS

\* An array for x and one element more, with room to spare.
LEMMA NewArray ==
    ASSUME NEW T, NEW x \in Seq(T), NEW e \in T, NEW b \in Seq(T)
    PROVE  /\ Append(x, e) \o b \in Seq(T) /\ Len(Append(x, e) \o b) = Len(x) + 1 + Len(b)
           /\ Append(x, e) = [i \in 1..(Len(x) + 1) |-> (Append(x, e) \o b)[i]]
<1> DEFINE y == Append(x, e)
<1>1. y \in Seq(T) /\ Len(y) = Len(x) + 1 /\ Len(x) \in Nat
  BY Appended
<1> HIDE DEF y
<1>2. y \o b \in Seq(T) /\ Len(y \o b) = Len(y) + Len(b) /\ \A i \in 1..Len(y) : (y \o b)[i] = y[i]
  BY <1>1, Joined
<1>3. y = [i \in 1..Len(y) |-> y[i]]
  BY <1>1
<1>4. y = [i \in 1..Len(y) |-> (y \o b)[i]]
  BY <1>2, <1>3
<1> QED
  BY <1>1, <1>2, <1>4 DEF y

-----------------------------------------------------------------------------
(* The words of Extra.                                                      *)

\* Sequences of a kind, one behind the other, if two of them are of that kind.
LEMMA FlattenSeqIn ==
    ASSUME NEW A, <<>> \in A, \A a, b \in A : a \o b \in A, NEW s \in Seq(A)
    PROVE  FlattenSeq(s) \in A
<1>1. CASE Len(s) = 0
  <2>1. s = <<>> /\ FlattenSeq(s) = s
    BY <1>1 DEF FlattenSeq
  <2> QED
    BY <2>1
<1>2. CASE Len(s) # 0
  <2> DEFINE N == Len(s)
             M == N - 1
             turn == [n \in 1..M |-> [a \in A |-> a \o s[n + 1]]]
             flat == CHOOSE f : f = [i \in 1..N |-> IF i = 1 THEN s[i] ELSE f[i - 1] \o s[i]]
  <2>1. FlattenSeq(s) = flat[N]
    BY <1>2 DEF FlattenSeq
  <2>2. N \in Nat /\ N # 0 /\ M = N - 1 /\ M \in Nat /\ \A i \in 1..N : s[i] \in A
    BY <1>2
  <2> HIDE DEF N, M
  <2>3. \A n \in 1..M : \A a \in A : turn[n][a] = a \o s[n + 1] /\ turn[n][a] \in A
    <3> SUFFICES ASSUME NEW n \in 1..M, NEW a \in A PROVE turn[n][a] = a \o s[n + 1] /\ turn[n][a] \in A
      OBVIOUS
    <3>1. s[n + 1] \in A
      BY <2>2
    <3>2. turn[n][a] = a \o s[n + 1]
      OBVIOUS
    <3>3. a \o s[n + 1] \in A
      BY <3>1
    <3> QED
      BY <3>2, <3>3
  <2> HIDE DEF turn
  <2>4. Closed(turn, M, A) /\ s[1] \in A
    BY <2>2, <2>3 DEF Closed
  <2>5. PICK g \in [0..M -> A] : Loop(g, turn, M, s[1])
    BY <2>2, <2>4, Turns
  <2> DEFINE f == [i \in 1..N |-> g[i - 1]]
  <2>6. \A i \in 1..N : f[i] = IF i = 1 THEN s[i] ELSE f[i - 1] \o s[i]
    <3> SUFFICES ASSUME NEW i \in 1..N PROVE f[i] = IF i = 1 THEN s[i] ELSE f[i - 1] \o s[i]
      OBVIOUS
    <3>1. CASE i = 1
      BY <2>2, <2>5, <3>1 DEF Loop
    <3>2. CASE i # 1
      <4>1. i - 1 \in 1..M /\ i - 1 \in 1..N /\ (i - 1) - 1 \in 0..M /\ (i - 1) + 1 = i
        BY <2>2, <3>2
      <4>2. g[i - 1] = turn[i - 1][g[(i - 1) - 1]]
        BY <2>5, <4>1 DEF Loop
      <4>3. g[(i - 1) - 1] \in A
        BY <2>5, <4>1
      <4>4. f[i] = g[i - 1] /\ f[i - 1] = g[(i - 1) - 1]
        BY <4>1
      <4> HIDE DEF f
      <4> QED
        BY <2>3, <3>2, <4>1, <4>2, <4>3, <4>4
    <3> QED
      BY <3>1, <3>2
  <2>7. f = [i \in 1..N |-> f[i]]
    OBVIOUS
  <2> HIDE DEF f
  <2>8. f = [i \in 1..N |-> IF i = 1 THEN s[i] ELSE f[i - 1] \o s[i]]
    BY <2>6, <2>7
  <2>9. flat = [i \in 1..N |-> IF i = 1 THEN s[i] ELSE flat[i - 1] \o s[i]]
    BY <2>8
  <2> HIDE DEF flat
  <2> DEFINE S == {n \in 0..M : flat[n + 1] \in A}
  <2>10. 0 \in S
    <3>1. 1 \in 1..N /\ 0 + 1 = 1 /\ 0 \in 0..M
      BY <2>2
    <3>2. flat[1] = s[1]
      BY <2>9, <3>1
    <3> QED
      BY <2>2, <3>1, <3>2
  <2>11. ASSUME NEW n \in 1..M, n - 1 \in S PROVE n \in S
    <3>1. n + 1 \in 1..N /\ n + 1 # 1 /\ (n + 1) - 1 = n /\ (n - 1) + 1 = n /\ n \in 0..M
      BY <2>2
    <3>2. flat[n + 1] = flat[n] \o s[n + 1]
      BY <2>9, <3>1
    <3>3. flat[n] \in A /\ s[n + 1] \in A
      BY <2>2, <2>11, <3>1
    <3>4. flat[n + 1] \in A
      BY <3>2, <3>3
    <3> QED
      BY <3>1, <3>4
  <2> HIDE DEF S
  <2>12. 0..M \subseteq S
    BY <2>2, <2>10, <2>11, Upto
  <2>13. M \in S /\ M + 1 = N
    BY <2>2, <2>12
  <2> QED
    BY <2>1, <2>13 DEF S
<1> QED
  BY <1>1, <1>2

-----------------------------------------------------------------------------
(* What is read of a line that fits, up to its quotes.                      *)

\* A word that does not end the line, and one the kernel reads as it stands.
Wordly(w) == w.len \in Nat /\ w.quote \in BOOLEAN /\ w.key # "--" /\ w.key # "quoted --"
Plainly(w) == Wordly(w) /\ w.quote = FALSE

\* S holds the words behind which a quote is open.
Open(words, S) ==
    /\ S \subseteq 1..Len(words)
    /\ \A n \in 1..Len(words) : IF words[n].quote THEN n \in S <=> n - 1 \notin S ELSE n \in S <=> n - 1 \in S

\* Every quote is closed again.
Closes(words) == \E S : Open(words, S) /\ Len(words) \notin S

\* One word behind those that were read.
Took(b, a, w) == b.read = Append(a.read, w) /\ (b.open <=> w.quote)
Skipped(b, a, w) == b.read = a.read /\ (b.open <=> ~ w.quote)

LEMMA ReadIs ==
    ASSUME NEW T, NEW r \in T, NEW q \in BOOLEAN, NEW b, b = [read |-> r, open |-> q, over |-> FALSE]
    PROVE  b \in [read : T, open : BOOLEAN, over : {FALSE}] /\ b.read = r /\ (b.open <=> q)
<1>1. CASE q = TRUE
  BY <1>1
<1>2. CASE q = FALSE
  BY <1>2
<1> QED
  BY <1>1, <1>2

LEMMA NextWord ==
    ASSUME NEW W, NEW a \in [read : Seq(W), open : BOOLEAN, over : {FALSE}], NEW w \in W, Wordly(w)
    PROVE  /\ next_arg(a, w, TRUE) \in [read : Seq(W), open : BOOLEAN, over : {FALSE}]
           /\ a.open => Skipped(next_arg(a, w, TRUE), a, w)
           /\ ~ a.open => Took(next_arg(a, w, TRUE), a, w)
<1>1. a.read \in Seq(W) /\ a.open \in BOOLEAN /\ a.over = FALSE /\ w.quote \in BOOLEAN
  BY DEF Wordly
<1>2. a = [read |-> a.read, open |-> a.open, over |-> FALSE]
  OBVIOUS
<1>3. CASE a.open
  <2>1. next_arg(a, w, TRUE) = [a EXCEPT !.open = ~ w.quote]
    BY <1>1, <1>3 DEF next_arg
  <2>2. PICK q \in BOOLEAN : q = ~ w.quote
    BY <1>1
  <2>3. next_arg(a, w, TRUE) = [read |-> a.read, open |-> q, over |-> FALSE]
    BY <1>2, <2>1, <2>2
  <2>4. /\ next_arg(a, w, TRUE) \in [read : Seq(W), open : BOOLEAN, over : {FALSE}]
        /\ next_arg(a, w, TRUE).read = a.read /\ (next_arg(a, w, TRUE).open <=> q)
    BY <1>1, <2>3, ReadIs, Zenon
  <2>5. Skipped(next_arg(a, w, TRUE), a, w)
    BY <2>2, <2>4 DEF Skipped
  <2>6. next_arg(a, w, TRUE) \in [read : Seq(W), open : BOOLEAN, over : {FALSE}]
    BY <2>4
  <2> QED
    BY <1>3, <2>5, <2>6
<1>4. CASE ~ a.open
  <2>1. next_arg(a, w, TRUE) = [a EXCEPT !.read = Append(a.read, w), !.open = w.quote]
    BY <1>1, <1>4 DEF next_arg, Wordly
  <2>2. PICK q \in BOOLEAN : q = w.quote
    BY <1>1
  <2>3. PICK t \in Seq(W) : t = Append(a.read, w)
    BY <1>1, Appended
  <2>4. next_arg(a, w, TRUE) = [read |-> t, open |-> q, over |-> FALSE]
    BY <1>2, <2>1, <2>2, <2>3
  <2>5. /\ next_arg(a, w, TRUE) \in [read : Seq(W), open : BOOLEAN, over : {FALSE}]
        /\ next_arg(a, w, TRUE).read = t /\ (next_arg(a, w, TRUE).open <=> q)
    BY <2>4, ReadIs, Zenon
  <2>6. Took(next_arg(a, w, TRUE), a, w)
    BY <2>2, <2>3, <2>5 DEF Took
  <2> QED
    BY <1>4, <2>5, <2>6
<1> QED
  BY <1>3, <1>4

LEMMA AppendSet ==
    ASSUME NEW T, NEW s \in Seq(T), NEW e \in T
    PROVE  ToSet(s) \subseteq ToSet(Append(s, e)) /\ e \in ToSet(Append(s, e))
<1>1. PICK t \in Seq(T) : t = Append(s, e)
  BY Appended
<1>2. Len(t) = Len(s) + 1 /\ (\A i \in 1..Len(s) : t[i] = s[i]) /\ t[Len(s) + 1] = e /\ Len(s) \in Nat
  BY <1>1, Appended
<1>3. DOMAIN s = 1..Len(s) /\ DOMAIN t = 1..(Len(s) + 1)
  BY <1>2
<1> QED
  BY <1>1, <1>2, <1>3 DEF ToSet

\* Every word outside quotes is read; so is the last one, and it is read last.
LEMMA ReadThrough ==
    ASSUME NEW W, NEW words \in Seq(W), \A w \in W : Wordly(w), Bytes(words) < maxCmdline, NEW S, Open(words, S)
    PROVE  /\ \A i \in 1..Len(words) : i - 1 \notin S => words[i] \in ToSet(Read(words))
           /\ Len(words) # 0 /\ Len(words) - 1 \notin S => \E s \in Seq(W) : Read(words) = Append(s, words[Len(words)])
<1> DEFINE N == Len(words)
           A == [read : Seq(W), open : BOOLEAN, over : {FALSE}]
           start == [read |-> <<>>, open |-> FALSE, over |-> FALSE]
           whole(n) == ends(words)[n] <= maxCmdline
           after == CHOOSE f : f = [n \in 0..N |-> IF n = 0 THEN start ELSE next_arg(f[n - 1], words[n], whole(n))]
           turn == [n \in 1..N |-> [a \in A |-> next_arg(a, words[n], whole(n))]]
<1>1. Read(words) = after[N].read
  BY DEF Read
<1>2. N \in Nat /\ \A n \in 1..N : words[n] \in W /\ Wordly(words[n])
  OBVIOUS
<1>3. \A n \in 1..N : words[n].len \in Nat
  BY <1>2 DEF Wordly
<1>4. \A n \in 1..N : whole(n) = TRUE
  <2> SUFFICES ASSUME NEW n \in 1..N PROVE whole(n)
    OBVIOUS
  <2>1. ends(words)[n] <= ends(words)[N] /\ ends(words)[n] \in Nat /\ ends(words)[N] \in Nat
    BY <1>2, <1>3, EndsAre, EndsWithin
  <2>2. ends(words)[N] - 1 < maxCmdline
    BY DEF Bytes
  <2> QED
    BY <2>1, <2>2, CmdlineAssumption
<1>5. /\ S \subseteq 1..N
      /\ \A n \in 1..N : IF words[n].quote THEN n \in S <=> n - 1 \notin S ELSE n \in S <=> n - 1 \in S
  BY DEF Open
<1> HIDE DEF N, whole
<1>6. ASSUME NEW n \in 1..N, NEW a \in A
      PROVE  /\ next_arg(a, words[n], whole(n)) \in A
             /\ a.open => Skipped(next_arg(a, words[n], whole(n)), a, words[n])
             /\ ~ a.open => Took(next_arg(a, words[n], whole(n)), a, words[n])
  <2>1. whole(n) = TRUE /\ words[n] \in W /\ Wordly(words[n])
    BY <1>2, <1>4
  <2> QED
    BY <2>1, NextWord
<1>7. start \in A
  OBVIOUS
<1> HIDE DEF A
<1>8. PICK g \in [0..N -> A] : Loop(g, turn, N, start)
  <2>1. \A n \in 1..N : \A a \in A : turn[n][a] \in A
    BY <1>6
  <2> HIDE DEF turn, start
  <2>2. Closed(turn, N, A)
    BY <2>1 DEF Closed
  <2> QED
    BY <1>2, <1>7, <2>2, Turns
<1>9. after = [n \in 0..N |-> IF n = 0 THEN start ELSE next_arg(after[n - 1], words[n], whole(n))]
  <2>1. ASSUME NEW n \in 0..N PROVE g[n] = IF n = 0 THEN start ELSE next_arg(g[n - 1], words[n], whole(n))
    <3>1. CASE n = 0
      BY <1>8, <3>1 DEF Loop
    <3>2. CASE n # 0
      <4>1. n \in 1..N /\ g[n - 1] \in A
        BY <1>2, <3>2
      <4>2. g[n] = turn[n][g[n - 1]]
        BY <1>8, <4>1 DEF Loop
      <4> QED
        BY <3>2, <4>1, <4>2
    <3> QED
      BY <3>1, <3>2
  <2> HIDE DEF start
  <2>2. g = [n \in 0..N |-> IF n = 0 THEN start ELSE next_arg(g[n - 1], words[n], whole(n))]
    BY <2>1
  <2> QED
    BY <2>2
<1> HIDE DEF after, turn
<1>10. after[0] = start /\ \A n \in 1..N : after[n] = next_arg(after[n - 1], words[n], whole(n))
  <2>1. 0 \in 0..N /\ \A n \in 1..N : n \in 0..N /\ n # 0
    BY <1>2
  <2> QED
    BY <1>9, <2>1
\* A quote is open where S says.
<1> DEFINE P == {n \in 0..N : after[n] \in A /\ (after[n].open <=> n \in S)}
<1>11. 0..N \subseteq P
  <2>1. 0 \in P
    <3>1. 0 \notin S /\ 0 \in 0..N /\ ~ start.open
      BY <1>2, <1>5
    <3> QED
      BY <1>7, <1>10, <3>1
  <2>2. ASSUME NEW n \in 1..N, n - 1 \in P PROVE n \in P
    <3>1. PICK a \in A : a = after[n - 1] /\ (a.open <=> n - 1 \in S)
      BY <2>2
    <3>2. PICK b \in A : b = after[n] /\ (a.open => Skipped(b, a, words[n])) /\ (~ a.open => Took(b, a, words[n]))
      BY <1>6, <1>10, <3>1
    <3>3. CASE words[n].quote
      <4>1. b.open <=> ~ a.open
        BY <3>2, <3>3 DEF Skipped, Took
      <4>2. n \in S <=> n - 1 \notin S
        BY <1>5, <3>3
      <4> QED
        BY <3>1, <3>2, <4>1, <4>2
    <3>4. CASE ~ words[n].quote
      <4>1. b.open <=> a.open
        BY <3>2, <3>4 DEF Skipped, Took
      <4>2. n \in S <=> n - 1 \in S
        BY <1>5, <3>4
      <4> QED
        BY <3>1, <3>2, <4>1, <4>2
    <3> QED
      BY <3>3, <3>4
  <2> HIDE DEF P
  <2> QED
    BY <1>2, <2>1, <2>2, Upto
<1>12. ASSUME NEW n \in 1..N
       PROVE  /\ after[n - 1].read \in Seq(W) /\ after[n].read \in Seq(W) /\ ToSet(after[n - 1].read) \subseteq ToSet(after[n].read)
              /\ n - 1 \notin S => after[n].read = Append(after[n - 1].read, words[n])
  <2>1. n \in P /\ n - 1 \in P
    BY <1>2, <1>11
  <2>2. PICK a \in A : a = after[n - 1] /\ (a.open <=> n - 1 \in S)
    BY <2>1
  <2>3. PICK b \in A : b = after[n] /\ (a.open => Skipped(b, a, words[n])) /\ (~ a.open => Took(b, a, words[n]))
    BY <1>6, <1>10, <2>2
  <2>4. a.read \in Seq(W) /\ b.read \in Seq(W)
    BY DEF A
  <2>5. CASE a.open
    <3>1. b.read = a.read
      BY <2>3, <2>5 DEF Skipped
    <3> QED
      BY <2>2, <2>3, <2>4, <2>5, <3>1
  <2>6. CASE ~ a.open
    <3>1. b.read = Append(a.read, words[n])
      BY <2>3, <2>6 DEF Took
    <3>2. ToSet(a.read) \subseteq ToSet(Append(a.read, words[n]))
      BY <1>2, <2>4, AppendSet
    <3> QED
      BY <2>2, <2>3, <2>4, <3>1, <3>2
  <2> QED
    BY <2>5, <2>6
<1>13. ASSUME NEW i \in 1..N, i - 1 \notin S PROVE words[i] \in ToSet(after[N].read)
  <2> DEFINE R == {k \in 0..(N - i) : words[i] \in ToSet(after[i + k].read)}
  <2>1. 0 \in R
    <3>1. after[i].read = Append(after[i - 1].read, words[i]) /\ after[i - 1].read \in Seq(W) /\ words[i] \in W
      BY <1>2, <1>12, <1>13
    <3>2. words[i] \in ToSet(after[i].read)
      BY <3>1, AppendSet
    <3>3. 0 \in 0..(N - i) /\ i + 0 = i
      BY <1>2
    <3> QED
      BY <3>2, <3>3
  <2>2. ASSUME NEW k \in 1..(N - i), k - 1 \in R PROVE k \in R
    <3>1. i + k \in 1..N /\ i + (k - 1) = (i + k) - 1 /\ k \in 0..(N - i)
      BY <1>2
    <3>2. ToSet(after[(i + k) - 1].read) \subseteq ToSet(after[i + k].read)
      BY <1>12, <3>1
    <3> QED
      BY <2>2, <3>1, <3>2
  <2>3. N - i \in Nat /\ i + (N - i) = N
    BY <1>2
  <2> HIDE DEF R
  <2>4. 0..(N - i) \subseteq R
    BY <2>1, <2>2, <2>3, Upto
  <2>5. N - i \in R
    BY <2>3, <2>4
  <2> QED
    BY <2>3, <2>5 DEF R
<1>14. ASSUME N # 0, N - 1 \notin S PROVE \E s \in Seq(W) : after[N].read = Append(s, words[N])
  <2>1. N \in 1..N
    BY <1>2, <1>14
  <2> QED
    BY <1>12, <1>14, <2>1
<1> QED
  BY <1>1, <1>13, <1>14 DEF N

LEMMA NothingCloses == Closes(<<>>)
<1>1. Open(<<>>, {}) /\ Len(<<>>) \notin {}
  BY DEF Open
<1> QED
  BY <1>1 DEF Closes

LEMMA PlainCloses ==
    ASSUME NEW T, NEW s \in Seq(T), \A w \in T : Plainly(w)
    PROVE  Open(s, {}) /\ Closes(s)
<1>1. \A n \in 1..Len(s) : ~ s[n].quote
  BY DEF Plainly
<1>2. Open(s, {})
  BY <1>1 DEF Open
<1> QED
  BY <1>2 DEF Closes

\* Words in which every quote is closed, and more.
LEMMA OpenJoined ==
    ASSUME NEW T, NEW s \in Seq(T), NEW t \in Seq(T), NEW A, NEW B, Open(s, A), Len(s) \notin A, Open(t, B)
    PROVE  \E C : /\ Open(s \o t, C) /\ (Len(s) + Len(t) \in C <=> Len(t) \in B)
                  /\ \A n \in 0..Len(s) : n \in C <=> n \in A
<1>1. PICK K \in Nat, L \in Nat : K = Len(s) /\ L = Len(t)
  OBVIOUS
<1>2. PICK u \in Seq(T) : u = s \o t
  BY Joined
<1>3. Len(u) = K + L /\ (\A i \in 1..K : u[i] = s[i]) /\ (\A i \in 1..L : u[K + i] = t[i])
  BY <1>1, <1>2, Joined
<1>4. /\ A \subseteq 1..K /\ K \notin A /\ B \subseteq 1..L
      /\ \A n \in 1..K : IF s[n].quote THEN n \in A <=> n - 1 \notin A ELSE n \in A <=> n - 1 \in A
      /\ \A n \in 1..L : IF t[n].quote THEN n \in B <=> n - 1 \notin B ELSE n \in B <=> n - 1 \in B
  BY <1>1 DEF Open
<1> DEFINE C == A \cup {n \in (K + 1)..(K + L) : n - K \in B}
<1>5. \A n \in 0..K : n \in C <=> n \in A
  OBVIOUS
<1>6. \A m \in 0..L : K + m \in C <=> m \in B
  <2> SUFFICES ASSUME NEW m \in 0..L PROVE K + m \in C <=> m \in B
    OBVIOUS
  <2>1. CASE m = 0
    BY <1>4, <2>1
  <2>2. CASE m # 0
    <3>1. K + m \in (K + 1)..(K + L) /\ (K + m) - K = m
      BY <2>2
    <3> QED
      BY <1>4, <3>1
  <2> QED
    BY <2>1, <2>2
<1>7. C \subseteq 1..(K + L)
  <2>1. 1..K \subseteq 1..(K + L) /\ (K + 1)..(K + L) \subseteq 1..(K + L)
    OBVIOUS
  <2> QED
    BY <1>4, <2>1
<1> HIDE DEF C
<1>8. ASSUME NEW n \in 1..(K + L) PROVE IF u[n].quote THEN n \in C <=> n - 1 \notin C ELSE n \in C <=> n - 1 \in C
  <2>1. CASE n <= K
    <3>1. n \in 1..K /\ n \in 0..K /\ n - 1 \in 0..K
      BY <2>1
    <3>2. u[n] = s[n] /\ (n \in C <=> n \in A) /\ (n - 1 \in C <=> n - 1 \in A)
      BY <1>3, <1>5, <3>1
    <3>3. IF s[n].quote THEN n \in A <=> n - 1 \notin A ELSE n \in A <=> n - 1 \in A
      BY <1>4, <3>1
    <3> QED
      BY <3>2, <3>3
  <2>2. CASE ~ (n <= K)
    <3>1. PICK m \in 1..L : n = K + m /\ m \in 0..L /\ m - 1 \in 0..L /\ n - 1 = K + (m - 1)
      <4>1. n - K \in 1..L /\ n = K + (n - K) /\ n - K \in 0..L /\ (n - K) - 1 \in 0..L /\ n - 1 = K + ((n - K) - 1)
        BY <2>2
      <4> QED
        BY <4>1
    <3>2. u[n] = t[m] /\ (n \in C <=> m \in B) /\ (n - 1 \in C <=> m - 1 \in B)
      BY <1>3, <1>6, <3>1
    <3>3. IF t[m].quote THEN m \in B <=> m - 1 \notin B ELSE m \in B <=> m - 1 \in B
      BY <1>4
    <3> QED
      BY <3>2, <3>3
  <2> QED
    BY <2>1, <2>2
<1>9. Open(u, C)
  BY <1>3, <1>7, <1>8 DEF Open
<1>10. K + L \in C <=> L \in B
  BY <1>6
<1> QED
  BY <1>1, <1>2, <1>5, <1>9, <1>10

LEMMA ClosesJoined ==
    ASSUME NEW T, NEW s \in Seq(T), NEW t \in Seq(T), Closes(s), Closes(t)
    PROVE  Closes(s \o t)
<1>1. PICK A : Open(s, A) /\ Len(s) \notin A
  BY DEF Closes
<1>2. PICK B : Open(t, B) /\ Len(t) \notin B
  BY DEF Closes
<1>3. PICK C : Open(s \o t, C) /\ (Len(s) + Len(t) \in C <=> Len(t) \in B)
  BY <1>1, <1>2, OpenJoined
<1>4. Len(s \o t) = Len(s) + Len(t)
  BY Joined
<1> QED
  BY <1>2, <1>3, <1>4 DEF Closes

-----------------------------------------------------------------------------
(* Lines and arrays.                                                        *)

LEMMA InitInv == CmdlineInit => CmdlineInv
<1> SUFFICES ASSUME CmdlineInit PROVE CmdlineInv
  OBVIOUS
<1>1. PICK init \in Fields, root \in Fields, readonly \in BOOLEAN, l \in Lines :
         line = [k \in Lines |-> IF k = l THEN DefaultCmdline(init, root, readonly) ELSE Unset]
  BY DEF CmdlineInit
<1>2. arrays = <<>> /\ arrays \in Seq(Seq(Element)) /\ Len(arrays) = 0 /\ asked = [k \in Lines |-> <<>>]
  BY DEF CmdlineInit
<1>3. ASSUME NEW k \in Lines, line[k].set PROVE k = l
  BY <1>1, <1>3 DEF Unset
<1>4. ASSUME NEW k \in Lines PROVE line[k].set \in BOOLEAN
  BY <1>1 DEF Unset, DefaultCmdline
<1> DEFINE c == line[l]
<1>5. c = DefaultCmdline(init, root, readonly)
  BY <1>1
<1> HIDE DEF c
<1>6. /\ c \in Cmdlines
      /\ c.extra.array = 0 /\ c.extra.len = 0 /\ c.extra.cap = 0
  BY <1>5 DEF DefaultCmdline, Slice, Cmdlines
<1>7. LineInv(c)
  BY <1>2, <1>6 DEF LineInv
<1>8. Extra(c) = <<>>
  BY <1>6 DEF Extra
<1>9. DOMAIN line = Lines /\ DOMAIN asked = Lines
  BY <1>1, <1>2
<1>10. OwnInv
  BY <1>3 DEF OwnInv
<1>11. \A k \in Lines : line[k].set => LineInv(line[k]) /\ Extra(line[k]) = asked[k]
  BY <1>2, <1>3, <1>7, <1>8 DEF c
<1> QED
  BY <1>2, <1>4, <1>9, <1>10, <1>11 DEF CmdlineInv

LEMMA ExtraType ==
    ASSUME CmdlineInv, NEW l \in Lines, line[l].set
    PROVE  Extra(line[l]) \in Seq(Element) /\ Len(Extra(line[l])) = line[l].extra.len
<1> DEFINE x == line[l].extra
<1>1. /\ x.array \in Nat /\ x.len \in Nat /\ x.cap \in Nat /\ x.len <= x.cap /\ x.array <= Len(arrays)
      /\ IF x.array = 0 THEN x.cap = 0 ELSE Len(arrays[x.array]) = x.cap
  BY DEF CmdlineInv, LineInv, Cmdlines
<1>2. arrays \in Seq(Seq(Element))
  BY DEF CmdlineInv
<1>3. Extra(line[l]) = [i \in 1..x.len |-> arrays[x.array][i]]
  BY DEF Extra
<1> HIDE DEF x
<1>4. \A i \in 1..x.len : arrays[x.array][i] \in Element
  <2> SUFFICES ASSUME NEW i \in 1..x.len PROVE arrays[x.array][i] \in Element
    OBVIOUS
  <2>1. x.array \in 1..Len(arrays) /\ i \in 1..x.cap
    BY <1>1
  <2>2. arrays[x.array] \in Seq(Element) /\ Len(arrays[x.array]) = x.cap
    BY <1>1, <1>2, <2>1
  <2> QED
    BY <2>1, <2>2
<1> QED
  BY <1>1, <1>3, <1>4 DEF x

\* LineInv and Extra over any arrays.
LineOver(c, as) ==
    /\ c \in Cmdlines
    /\ c.extra.len <= c.extra.cap
    /\ c.extra.array <= Len(as)
    /\ IF c.extra.array = 0 THEN c.extra.cap = 0 ELSE Len(as[c.extra.array]) = c.extra.cap
ExtraOver(c, as) == [i \in 1..c.extra.len |-> as[c.extra.array][i]]

LEMMA OverNow ==
    ASSUME CmdlineInv, NEW l \in Lines, line[l].set
    PROVE  LineOver(line[l], arrays) /\ ExtraOver(line[l], arrays) = asked[l]
<1>1. LineInv(line[l]) /\ Extra(line[l]) = asked[l]
  BY DEF CmdlineInv
<1>2. LineOver(line[l], arrays)
  BY <1>1 DEF LineInv, LineOver
<1>3. ExtraOver(line[l], arrays) = Extra(line[l])
  BY DEF Extra, ExtraOver
<1> QED
  BY <1>1, <1>2, <1>3

LEMMA OverNext ==
    ASSUME arrays' \in Seq(Seq(Element)), DOMAIN line' = Lines, DOMAIN asked' = Lines, OwnInv',
           \A l \in Lines : /\ line'[l].set \in BOOLEAN
                            /\ line'[l].set => LineOver(line'[l], arrays') /\ ExtraOver(line'[l], arrays') = asked'[l]
    PROVE  CmdlineInv'
<1>1. ASSUME NEW l \in Lines, LineOver(line'[l], arrays'), ExtraOver(line'[l], arrays') = asked'[l]
      PROVE  (LineInv(line[l]) /\ Extra(line[l]) = asked[l])'
  <2>1. (LineInv(line[l]))'
    BY <1>1 DEF LineInv, LineOver
  <2>2. (Extra(line[l]))' = ExtraOver(line'[l], arrays')
    BY DEF Extra, ExtraOver
  <2> QED
    BY <1>1, <2>1, <2>2
<1>2. ASSUME NEW l \in Lines
      PROVE  (line[l].set \in BOOLEAN /\ (line[l].set => LineInv(line[l]) /\ Extra(line[l]) = asked[l]))'
  BY <1>1
<1> QED
  BY <1>2 DEF CmdlineInv

\* Every other line is what it was, if its array is.
LEMMA OthersStay ==
    ASSUME CmdlineInv, NEW l \in Lines, NEW c \in Cmdlines,
           line' = [line EXCEPT ![l] = c], LineOver(c, arrays'),
           NEW a, asked' = [asked EXCEPT ![l] = a], ExtraOver(c, arrays') = a,
           arrays' \in Seq(Seq(Element)), Len(arrays) <= Len(arrays'),
           \A k \in Lines : k # l /\ line[k].set =>
               /\ line[k].extra.array # 0 => arrays'[line[k].extra.array] = arrays[line[k].extra.array]
               /\ c.extra.array # line[k].extra.array
    PROVE  CmdlineInv'
<1>1. DOMAIN line = Lines /\ DOMAIN asked = Lines /\ DOMAIN line' = Lines /\ DOMAIN asked' = Lines
  BY DEF CmdlineInv
<1>2. line'[l] = c /\ asked'[l] = a /\ c.set = TRUE
  BY <1>1 DEF Cmdlines
<1>3. \A k \in Lines : k # l => line'[k] = line[k] /\ asked'[k] = asked[k]
  BY <1>1
<1>4. ASSUME NEW k \in Lines, k # l, line[k].set
      PROVE  LineOver(line'[k], arrays') /\ ExtraOver(line'[k], arrays') = asked'[k]
  <2> DEFINE x == line[k].extra
  <2>1. LineOver(line[k], arrays) /\ ExtraOver(line[k], arrays) = asked[k]
    BY <1>4, OverNow
  <2>2. line'[k] = line[k] /\ asked'[k] = asked[k]
    BY <1>3, <1>4
  <2>3. x.array # 0 => arrays'[x.array] = arrays[x.array]
    BY <1>4
  <2>4. Len(arrays) \in Nat /\ Len(arrays') \in Nat
    BY DEF CmdlineInv
  <2>5. LineOver(line[k], arrays')
    <3>1. x.array \in Nat
      BY <2>1 DEF LineOver, Cmdlines
    <3> QED
      BY <2>1, <2>3, <2>4, <3>1 DEF LineOver
  <2>6. \A i \in 1..x.len : arrays'[x.array][i] = arrays[x.array][i]
    <3> SUFFICES ASSUME NEW i \in 1..x.len PROVE arrays'[x.array][i] = arrays[x.array][i]
      OBVIOUS
    <3>0. x.len \in Nat /\ x.cap \in Nat
      BY <2>1 DEF LineOver, Cmdlines
    <3>1. x.array # 0
      BY <2>1, <3>0 DEF LineOver
    <3> QED
      BY <2>3, <3>1
  <2>7. ExtraOver(line[k], arrays') = ExtraOver(line[k], arrays)
    BY <2>6 DEF ExtraOver
  <2> QED
    BY <2>1, <2>2, <2>5, <2>7
<1>5. ASSUME NEW k \in Lines
      PROVE  line'[k].set \in BOOLEAN /\ (line'[k].set => LineOver(line'[k], arrays') /\ ExtraOver(line'[k], arrays') = asked'[k])
  <2>1. CASE k = l
    BY <1>2, <2>1
  <2>2. CASE k # l
    <3>1. line'[k] = line[k] /\ line[k].set \in BOOLEAN
      BY <1>3, <2>2 DEF CmdlineInv
    <3> QED
      BY <1>4, <2>2, <3>1
  <2> QED
    BY <2>1, <2>2
<1>6. OwnInv'
  <2> SUFFICES ASSUME NEW k \in Lines, NEW m \in Lines, line'[k].set, line'[m].set,
                      line'[k].extra.array = line'[m].extra.array, line'[k].extra.array # 0
               PROVE  k = m
    BY DEF OwnInv
  <2>1. CASE k = l /\ m # l
    BY <1>2, <1>3, <2>1
  <2>2. CASE k # l /\ m = l
    BY <1>2, <1>3, <2>2
  <2>3. CASE k # l /\ m # l
    BY <1>3, <2>3 DEF CmdlineInv, OwnInv
  <2> QED
    BY <2>1, <2>2, <2>3
<1> QED
  BY <1>1, <1>5, <1>6, OverNext

\* append where there is no room: the line gets an array of its own.
Copies(c, l, element, spare) ==
    /\ arrays' = Append(arrays, Append(Extra(c), element) \o [i \in 1..spare |-> nil])
    /\ line' = [line EXCEPT ![l] =
                  [c EXCEPT !.extra = Slice(Len(arrays) + 1, c.extra.len + 1, c.extra.len + 1 + spare)]]
    /\ asked' = [asked EXCEPT ![l] = Append(Extra(c), element)]

LEMMA Copied ==
    ASSUME CmdlineInv, NEW l \in Lines, NEW c, c \in Cmdlines, NEW element \in Element, NEW spare \in 0..1,
           Extra(c) \in Seq(Element), Len(Extra(c)) = c.extra.len, Copies(c, l, element, spare)
    PROVE  CmdlineInv'
<1> DEFINE n == c.extra.len
           N == Len(arrays)
<1>1. PICK x : x = Extra(c)
  OBVIOUS
<1>0. PICK b : b = [i \in 1..spare |-> nil]
  OBVIOUS
<1>2. PICK z : z = Append(x, element) \o b
  OBVIOUS
<1>3. PICK d : d = [c EXCEPT !.extra = Slice(N + 1, n + 1, n + 1 + spare)]
  OBVIOUS
<1>4. arrays' = Append(arrays, z) /\ line' = [line EXCEPT ![l] = d] /\ asked' = [asked EXCEPT ![l] = Append(x, element)]
  BY <1>0, <1>1, <1>2, <1>3 DEF Copies
<1>5. x \in Seq(Element) /\ Len(x) = n /\ n \in Nat
  BY <1>1
<1>6. arrays \in Seq(Seq(Element)) /\ N \in Nat
  BY DEF CmdlineInv
<1>7. nil \in Element
  BY DEF Element
<1>8. z \in Seq(Element) /\ Len(z) = n + 1 + spare /\ Append(x, element) = [i \in 1..(n + 1) |-> z[i]]
  <2>1. z \in Seq(Element) /\ Len(z) = Len(x) + 1 + spare /\ Append(x, element) = [i \in 1..(Len(x) + 1) |-> z[i]]
    <3>1. b \in Seq(Element) /\ Len(b) = spare
      BY <1>0, <1>7
    <3>2. /\ Append(x, element) \o b \in Seq(Element) /\ Len(Append(x, element) \o b) = Len(x) + 1 + Len(b)
          /\ Append(x, element) = [i \in 1..(Len(x) + 1) |-> (Append(x, element) \o b)[i]]
      BY <1>5, <3>1, NewArray
    <3> QED
      BY <1>2, <3>1, <3>2
  <2> QED
    BY <1>5, <2>1
<1>9. /\ arrays' \in Seq(Seq(Element)) /\ Len(arrays') = N + 1 /\ arrays'[N + 1] = z
      /\ \A k \in 1..N : arrays'[k] = arrays[k]
  BY <1>4, <1>6, <1>8, Appended
<1>10. /\ d \in Cmdlines /\ d.set = TRUE
       /\ d.extra.array = N + 1 /\ d.extra.len = n + 1 /\ d.extra.cap = n + 1 + spare
  <2> DEFINE x2 == Slice(N + 1, n + 1, n + 1 + spare)
  <2>1. x2 \in [array : Nat, len : Nat, cap : Nat]
    BY <1>5, <1>6 DEF Slice
  <2>2. x2.array = N + 1 /\ x2.len = n + 1 /\ x2.cap = n + 1 + spare
    BY DEF Slice
  <2>3. d = [c EXCEPT !.extra = x2]
    BY <1>3
  <2> HIDE DEF x2, n, N
  <2>4. d \in Cmdlines /\ d.set = TRUE /\ d.extra = x2
    BY <2>1, <2>3 DEF Cmdlines
  <2> QED
    BY <2>2, <2>4
<1> HIDE DEF n, N
<1>11. LineOver(d, arrays')
  <2>1. d.extra.array \in Nat /\ d.extra.len \in Nat /\ d.extra.cap \in Nat /\ d.extra.len <= d.extra.cap
    BY <1>5, <1>6, <1>10
  <2>2. d.extra.array # 0 /\ d.extra.array <= Len(arrays') /\ Len(arrays'[d.extra.array]) = d.extra.cap
    BY <1>6, <1>8, <1>9, <1>10
  <2> QED
    BY <1>10, <2>1, <2>2 DEF LineOver
<1>12. ExtraOver(d, arrays') = Append(x, element)
  BY <1>8, <1>9, <1>10 DEF ExtraOver
<1>13. \A k \in Lines : k # l /\ line[k].set =>
          /\ line[k].extra.array # 0 => arrays'[line[k].extra.array] = arrays[line[k].extra.array]
          /\ d.extra.array # line[k].extra.array
  <2> SUFFICES ASSUME NEW k \in Lines, line[k].set
               PROVE  /\ line[k].extra.array # 0 => arrays'[line[k].extra.array] = arrays[line[k].extra.array]
                      /\ d.extra.array # line[k].extra.array
    OBVIOUS
  <2>1. line[k].extra.array \in Nat /\ line[k].extra.array <= N
    BY OverNow DEF LineOver, Cmdlines, N
  <2> QED
    BY <1>6, <1>9, <1>10, <2>1
<1>14. Len(arrays) <= Len(arrays')
  BY <1>6, <1>9 DEF N
<1>15. d \in Cmdlines
  BY <1>10
<1> QED
  BY <1>4, <1>9, <1>11, <1>12, <1>13, <1>14, <1>15, OthersStay

\* append where there is room: only the line's own array is written.
Fills(l, element) ==
    /\ arrays' = [arrays EXCEPT ![line[l].extra.array][line[l].extra.len + 1] = element]
    /\ line' = [line EXCEPT ![l] = [line[l] EXCEPT !.extra.len = @ + 1]]
    /\ asked' = [asked EXCEPT ![l] = Append(@, element)]

LEMMA Filled ==
    ASSUME CmdlineInv, NEW l \in Lines, line[l].set, NEW element \in Element,
           line[l].extra.len < line[l].extra.cap, Fills(l, element)
    PROVE  CmdlineInv'
<1>1. PICK c : c = line[l]
  OBVIOUS
<1>2. PICK d : d = [c EXCEPT !.extra.len = @ + 1]
  OBVIOUS
<1>3. PICK a : a = c.extra.array
  OBVIOUS
<1>4. PICK n : n = c.extra.len
  OBVIOUS
<1>5. LineOver(c, arrays) /\ ExtraOver(c, arrays) = asked[l]
  BY <1>1, OverNow
<1>6. c \in Cmdlines /\ c.extra \in [array : Nat, len : Nat, cap : Nat]
  BY <1>5 DEF LineOver, Cmdlines
<1>7. n \in Nat /\ c.extra.cap \in Nat /\ n + 1 <= c.extra.cap /\ a \in Nat
  BY <1>1, <1>3, <1>4, <1>6
<1>8. arrays \in Seq(Seq(Element)) /\ DOMAIN asked = Lines
  BY DEF CmdlineInv
<1>9. a \in 1..Len(arrays) /\ Len(arrays[a]) = c.extra.cap
  BY <1>3, <1>5, <1>7, <1>8 DEF LineOver
<1>10. /\ arrays' = [arrays EXCEPT ![a][n + 1] = element] /\ line' = [line EXCEPT ![l] = d]
       /\ asked' = [asked EXCEPT ![l] = Append(asked[l], element)]
  BY <1>1, <1>2, <1>3, <1>4 DEF Fills
<1>11. n + 1 \in 1..Len(arrays[a])
  BY <1>7, <1>9
<1>12. /\ arrays' \in Seq(Seq(Element)) /\ Len(arrays') = Len(arrays) /\ Len(arrays'[a]) = Len(arrays[a])
       /\ \A k \in 1..Len(arrays) : k # a => arrays'[k] = arrays[k]
       /\ arrays'[a][n + 1] = element /\ \A i \in 1..n : arrays'[a][i] = arrays[a][i]
  <2> DEFINE b == [arrays[a] EXCEPT ![n + 1] = element]
  <2>1. arrays[a] \in Seq(Element)
    BY <1>8, <1>9
  <2>2. /\ b \in Seq(Element) /\ Len(b) = Len(arrays[a]) /\ b[n + 1] = element
        /\ \A i \in 1..n : b[i] = arrays[a][i]
    BY <1>7, <1>11, <2>1
  <2>3. arrays' = [arrays EXCEPT ![a] = b]
    BY <1>10
  <2> HIDE DEF b
  <2>4. arrays' \in Seq(Seq(Element)) /\ Len(arrays') = Len(arrays) /\ arrays'[a] = b
    BY <1>8, <1>9, <2>2, <2>3
  <2>5. \A k \in 1..Len(arrays) : k # a => arrays'[k] = arrays[k]
    BY <1>8, <2>3
  <2> QED
    BY <2>2, <2>4, <2>5
<1>13. /\ d \in Cmdlines /\ d.extra.array = a /\ d.extra.len = n + 1 /\ d.extra.cap = c.extra.cap
  <2> DEFINE x == [c.extra EXCEPT !.len = @ + 1]
  <2>1. x \in [array : Nat, len : Nat, cap : Nat] /\ x.array = a /\ x.len = n + 1 /\ x.cap = c.extra.cap
    BY <1>3, <1>4, <1>6, <1>7
  <2>2. d = [c EXCEPT !.extra = x]
    BY <1>2, <1>6 DEF Cmdlines
  <2> HIDE DEF x
  <2>3. d \in Cmdlines /\ d.extra = x
    BY <1>6, <2>1, <2>2 DEF Cmdlines
  <2> QED
    BY <2>1, <2>3
<1>14. LineOver(d, arrays')
  BY <1>7, <1>9, <1>12, <1>13 DEF LineOver
<1>15. ExtraOver(d, arrays') = Append(asked[l], element)
  <2>1. ExtraOver(d, arrays') = [i \in 1..(n + 1) |-> arrays'[a][i]]
    BY <1>13 DEF ExtraOver
  <2>2. asked[l] = [i \in 1..n |-> arrays[a][i]]
    BY <1>3, <1>4, <1>5 DEF ExtraOver
  <2>3. Append([i \in 1..n |-> arrays[a][i]], element) = [i \in 1..(n + 1) |-> IF i <= n THEN arrays[a][i] ELSE element]
    BY <1>7
  <2>4. \A i \in 1..(n + 1) : arrays'[a][i] = IF i <= n THEN arrays[a][i] ELSE element
    BY <1>7, <1>12
  <2> QED
    BY <2>1, <2>2, <2>3, <2>4
<1>16. \A k \in Lines : k # l /\ line[k].set =>
          /\ line[k].extra.array # 0 => arrays'[line[k].extra.array] = arrays[line[k].extra.array]
          /\ d.extra.array # line[k].extra.array
  <2> SUFFICES ASSUME NEW k \in Lines, k # l, line[k].set
               PROVE  /\ line[k].extra.array # 0 => arrays'[line[k].extra.array] = arrays[line[k].extra.array]
                      /\ d.extra.array # line[k].extra.array
    OBVIOUS
  <2>1. line[k].extra.array \in Nat /\ line[k].extra.array <= Len(arrays)
    BY OverNow DEF LineOver, Cmdlines
  <2>2. line[k].extra.array # a
    BY <1>1, <1>3, <1>9 DEF CmdlineInv, OwnInv
  <2> QED
    BY <1>12, <1>13, <2>1, <2>2
<1>17. Len(arrays) <= Len(arrays')
  BY <1>8, <1>12
<1> QED
  BY <1>10, <1>12, <1>13, <1>14, <1>15, <1>16, <1>17, OthersStay

\* Whatever is appended and profiled, a line's slice fits its array, holds what was put into
\* it, and shares its array with no other line.
THEOREM CmdlineInductive == CmdlineSpec => []CmdlineInv
<1>1. ASSUME CmdlineInv, NEW l \in Lines, NEW element \in Elements, AppendExtra(l, element) PROVE CmdlineInv'
  <2>1. line[l].set /\ element \in Element /\ asked' = [asked EXCEPT ![l] = Append(@, element)]
    BY <1>1 DEF AppendExtra, Element
  <2>2. LineInv(line[l]) /\ Extra(line[l]) = asked[l]
    BY <1>1, <2>1 DEF CmdlineInv
  <2>3. Extra(line[l]) \in Seq(Element) /\ Len(Extra(line[l])) = line[l].extra.len /\ line[l] \in Cmdlines
    BY <1>1, <2>1, <2>2, ExtraType DEF LineInv
  <2>4. append(line[l], l, element)
    BY <1>1 DEF AppendExtra
  <2>5. CASE line[l].extra.len < line[l].extra.cap /\ Fills(l, element)
    BY <1>1, <2>1, <2>5, Filled
  <2>6. CASE \E spare \in 0..1 : Copies(line[l], l, element, spare)
    BY <1>1, <2>1, <2>3, <2>6, Copied
  <2>7. asked' = [asked EXCEPT ![l] = Append(Extra(line[l]), element)]
    BY <2>1, <2>2
  <2> QED
    BY <2>1, <2>4, <2>5, <2>6, <2>7 DEF append, Fills, Copies
<1>2. ASSUME CmdlineInv, NEW l \in Lines, NEW m \in Lines, Profiling(l, m) PROVE CmdlineInv'
  <2>1. PICK c : c = [line[l] EXCEPT !.quiet = FALSE, !.extra = Clip(@)]
    OBVIOUS
  <2>2. line[l].set /\ append(c, m, Profile) /\ asked' = [asked EXCEPT ![m] = Append(asked[l], Profile)]
    BY <1>2, <2>1 DEF Profiling
  <2>3. LineInv(line[l]) /\ Extra(line[l]) = asked[l] /\ line[l] \in Cmdlines
    BY <1>2, <2>2 DEF CmdlineInv, LineInv
  <2>4. line[l].extra \in [array : Nat, len : Nat, cap : Nat]
    BY <2>3 DEF Cmdlines
  <2>5. /\ Clip(line[l].extra) \in [array : Nat, len : Nat, cap : Nat]
        /\ Clip(line[l].extra).array = line[l].extra.array
        /\ Clip(line[l].extra).len = line[l].extra.len /\ Clip(line[l].extra).cap = line[l].extra.len
    BY <2>4 DEF Clip
  <2>6. c \in Cmdlines /\ c.extra = Clip(line[l].extra)
    BY <2>1, <2>3, <2>5 DEF Cmdlines
  <2>7. Extra(c) = Extra(line[l]) /\ c.extra.len = line[l].extra.len
    BY <2>5, <2>6 DEF Extra
  <2>8. Extra(c) \in Seq(Element) /\ Len(Extra(c)) = c.extra.len
    BY <1>2, <2>2, <2>7, ExtraType
  <2>9. ~ (c.extra.len < c.extra.cap)
    BY <2>4, <2>5, <2>6
  <2>10. Profile \in Element
    BY DEF Element
  <2>11. asked' = [asked EXCEPT ![m] = Append(Extra(c), Profile)]
    BY <2>2, <2>3, <2>7
  <2>12. \E spare \in 0..1 : Copies(c, m, Profile, spare)
    BY <2>2, <2>9, <2>11 DEF append, Copies
  <2> QED
    BY <1>2, <2>6, <2>8, <2>10, <2>12, Copied
<1>3. ASSUME CmdlineInv, UNCHANGED cmdlineVars PROVE CmdlineInv'
  BY <1>3 DEF CmdlineInv, LineInv, OwnInv, Extra, cmdlineVars
<1>4. CmdlineInv /\ [CmdlineNext]_cmdlineVars => CmdlineInv'
  BY <1>1, <1>2, <1>3 DEF CmdlineNext
<1> QED
  BY <1>4, InitInv, PTL DEF CmdlineSpec

\* Deriving a line from another changes neither, whatever room the arrays behind them have.
THEOREM Independent == CmdlineSpec => []LinesAreIndependent
<1>1. CmdlineInv => LinesAreIndependent
  BY DEF CmdlineInv, LinesAreIndependent
<1> QED
  BY <1>1, CmdlineInductive, PTL

-----------------------------------------------------------------------------
(* What the kernel reads.                                                   *)

\* Every element closes the quotes it opens, and none is "--" in quotes.
QuotesClosed == \A e \in Elements : Closes(e) /\ \A j \in DOMAIN e : e[j].key # "quoted --"

\* The word of a field that is set.
Named(key, f) == [key |-> key, val |-> f.val, quote |-> f.quote, len |-> f.len + IF key = "console" THEN 8 ELSE 5]

LEMMA ParamIs ==
    ASSUME NEW f, f.len \in Nat, f.quote \in BOOLEAN, ~ f.spaces, ~ f.quote, NEW key \in {"console", "root", "init"}
    PROVE  /\ Param(key, f) = IF f = None THEN <<>> ELSE <<Named(key, f)>>
           /\ Plainly(Named(key, f)) /\ Named(key, f).key = key /\ Named(key, f).val = f.val
<1>1. Param(key, f) = IF f = None THEN <<>> ELSE <<Named(key, f)>> \o <<>>
  BY DEF Param, Named
<1>2. <<Named(key, f)>> \o <<>> = <<Named(key, f)>>
  OBVIOUS
<1>3. f.len \in Nat /\ f.quote = FALSE
  OBVIOUS
<1>4. Plainly(Named(key, f))
  <2>1. Named(key, f).quote = FALSE
    BY <1>3 DEF Named
  <2>2. Named(key, f).len \in Nat
    BY <1>3 DEF Named
  <2>3. Named(key, f).key # "--" /\ Named(key, f).key # "quoted --"
    BY DEF Named
  <2> QED
    BY <2>1, <2>2, <2>3 DEF Plainly, Wordly
<1>5. Named(key, f).key = key /\ Named(key, f).val = f.val
  BY DEF Named
<1> QED
  BY <1>1, <1>2, <1>4, <1>5

\* The words of a line.
Ours == {Word("quiet", "", 5), Word("loglevel", "3", 10), Word("loglevel", "0", 10), Word("ro", "", 2), Word("rw", "", 2),
         Word("pci", "lastbus=0", 13), Word("panic", "1", 7), Word("TERM", "dumb", 9)}
Theirs == {w \in UNION {ToSet(e) : e \in Element} : Wordly(w)}

LEMMA PlainWord ==
    ASSUME NEW key, NEW val, NEW len \in Nat, key # "--", key # "quoted --"
    PROVE  Plainly(Word(key, val, len))
<1>1. Word(key, val, len).quote = FALSE
  BY DEF Word
<1>2. Word(key, val, len).key = key /\ Word(key, val, len).len = len
  BY DEF Word
<1> QED
  BY <1>1, <1>2 DEF Plainly, Wordly

LEMMA OursArePlain == \A w \in Ours : Plainly(w)
<1>1. Plainly(Word("quiet", "", 5)) /\ Plainly(Word("loglevel", "3", 10)) /\ Plainly(Word("loglevel", "0", 10))
  BY PlainWord
<1>2. Plainly(Word("ro", "", 2)) /\ Plainly(Word("rw", "", 2))
  BY PlainWord
<1>3. Plainly(Word("pci", "lastbus=0", 13)) /\ Plainly(Word("panic", "1", 7)) /\ Plainly(Word("TERM", "dumb", 9))
  BY PlainWord
<1> QED
  BY <1>1, <1>2, <1>3 DEF Ours

LEMMA ElementsClose ==
    ASSUME QuotesClosed, NEW e \in Element, \A j \in DOMAIN e : e[j].key # "--"
    PROVE  e \in Seq(Theirs) /\ Closes(e)
<1>1. CASE e \in Elements
  <2>1. e \in Seq(Words)
    BY <1>1, CmdlineAssumption
  <2>2. \A j \in 1..Len(e) : Wordly(e[j])
    <3> SUFFICES ASSUME NEW j \in 1..Len(e) PROVE Wordly(e[j])
      OBVIOUS
    <3>1. j \in DOMAIN e /\ e[j] \in Words
      BY <2>1
    <3>2. e[j].len \in Nat /\ e[j].quote \in BOOLEAN
      BY <3>1 DEF Words
    <3>3. e[j].key # "quoted --"
      BY <1>1, <3>1 DEF QuotesClosed
    <3>4. e[j].key # "--"
      BY <3>1
    <3> QED
      BY <3>2, <3>3, <3>4 DEF Wordly
  <2>3. \A j \in 1..Len(e) : e[j] \in ToSet(e)
    BY <2>1 DEF ToSet
  <2>4. \A j \in 1..Len(e) : e[j] \in Theirs
    BY <2>2, <2>3 DEF Theirs
  <2>5. Closes(e)
    BY <1>1 DEF QuotesClosed
  <2> QED
    BY <2>1, <2>4, <2>5
<1>2. CASE e = Profile
  <2>1. PICK w : w = Word("initcall_debug", "", 82)
    OBVIOUS
  <2>2. e = <<w>>
    BY <1>2, <2>1 DEF Profile
  <2>3. Plainly(w)
    BY <2>1, PlainWord
  <2>4. 1 \in DOMAIN e /\ e[1] = w
    BY <2>2
  <2>5. w \in Theirs
    BY <2>3, <2>4 DEF Theirs, ToSet, Plainly
  <2>6. e \in Seq({w}) /\ \A v \in {w} : Plainly(v)
    BY <2>2, <2>3
  <2>7. Closes(e)
    BY <2>6, PlainCloses
  <2> QED
    BY <2>2, <2>5, <2>7
<1>3. CASE e = nil
  BY <1>3, NothingCloses DEF nil
<1> QED
  BY <1>1, <1>2, <1>3 DEF Element

LEMMA Together ==
    ASSUME NEW T, NEW s \in Seq(T), NEW t \in Seq(T)
    PROVE  s \o t \in Seq(T) /\ ToSet(s \o t) = ToSet(s) \cup ToSet(t)
<1>1. /\ s \o t \in Seq(T) /\ Len(s \o t) = Len(s) + Len(t) /\ Len(s) \in Nat /\ Len(t) \in Nat
      /\ \A i \in 1..Len(s) : (s \o t)[i] = s[i]
      /\ \A i \in 1..Len(t) : (s \o t)[Len(s) + i] = t[i]
  BY Joined
<1>2. DOMAIN s = 1..Len(s) /\ DOMAIN t = 1..Len(t) /\ DOMAIN (s \o t) = 1..Len(s \o t)
  BY <1>1
<1>3. ASSUME NEW w \in ToSet(s \o t) PROVE w \in ToSet(s) \cup ToSet(t)
  <2>1. PICK i \in 1..Len(s \o t) : w = (s \o t)[i]
    BY <1>2 DEF ToSet
  <2>2. CASE i <= Len(s)
    <3>1. i \in 1..Len(s)
      BY <1>1, <2>2
    <3> QED
      BY <1>1, <1>2, <2>1, <3>1 DEF ToSet
  <2>3. CASE ~ (i <= Len(s))
    <3>1. i - Len(s) \in 1..Len(t) /\ Len(s) + (i - Len(s)) = i
      BY <1>1, <2>3
    <3>2. w = t[i - Len(s)]
      BY <1>1, <2>1, <3>1
    <3> QED
      BY <1>2, <3>1, <3>2 DEF ToSet
  <2> QED
    BY <2>2, <2>3
<1>4. ASSUME NEW w \in ToSet(s) PROVE w \in ToSet(s \o t)
  <2>1. PICK i \in 1..Len(s) : w = s[i]
    BY <1>2 DEF ToSet
  <2>2. i \in 1..Len(s \o t) /\ w = (s \o t)[i]
    BY <1>1, <2>1
  <2> QED
    BY <1>2, <2>2 DEF ToSet
<1>5. ASSUME NEW w \in ToSet(t) PROVE w \in ToSet(s \o t)
  <2>1. PICK i \in 1..Len(t) : w = t[i]
    BY <1>2 DEF ToSet
  <2>2. Len(s) + i \in 1..Len(s \o t) /\ w = (s \o t)[Len(s) + i]
    BY <1>1, <2>1
  <2> QED
    BY <1>2, <2>2 DEF ToSet
<1> QED
  BY <1>1, <1>3, <1>4, <1>5

\* The pieces a line is put together from, up to Extra.
LEMMA Pieces ==
    ASSUME NEW T, NEW p1 \in Seq(T), NEW p2 \in Seq(T), NEW p3 \in Seq(T), NEW p4 \in Seq(T),
           NEW p5 \in Seq(T), NEW p6 \in Seq(T)
    PROVE  /\ p1 \o p2 \o p3 \o p4 \o p5 \o p6 \in Seq(T)
           /\ ToSet(p6 \o p1 \o p4) \subseteq ToSet(p1 \o p2 \o p3 \o p4 \o p5 \o p6)
<1>1. PICK q2 : q2 = p1 \o p2
  OBVIOUS
<1>2. q2 \in Seq(T) /\ ToSet(q2) = ToSet(p1) \cup ToSet(p2)
  BY <1>1, Together
<1>3. PICK q3 : q3 = q2 \o p3
  OBVIOUS
<1>4. q3 \in Seq(T) /\ ToSet(q3) = ToSet(q2) \cup ToSet(p3)
  BY <1>2, <1>3, Together
<1>5. PICK q4 : q4 = q3 \o p4
  OBVIOUS
<1>6. q4 \in Seq(T) /\ ToSet(q4) = ToSet(q3) \cup ToSet(p4)
  BY <1>4, <1>5, Together
<1>7. PICK q5 : q5 = q4 \o p5
  OBVIOUS
<1>8. q5 \in Seq(T) /\ ToSet(q5) = ToSet(q4) \cup ToSet(p5)
  BY <1>6, <1>7, Together
<1>9. q5 \o p6 \in Seq(T) /\ ToSet(q5 \o p6) = ToSet(q5) \cup ToSet(p6)
  BY <1>8, Together
<1>10. PICK r : r = p6 \o p1
  OBVIOUS
<1>11. r \in Seq(T) /\ ToSet(r) = ToSet(p6) \cup ToSet(p1)
  BY <1>10, Together
<1>12. ToSet(r \o p4) = ToSet(r) \cup ToSet(p4)
  BY <1>11, Together
<1>13. ToSet(r \o p4) \subseteq ToSet(q5 \o p6)
  BY <1>2, <1>4, <1>6, <1>8, <1>9, <1>11, <1>12
<1>14. q5 \o p6 = p1 \o p2 \o p3 \o p4 \o p5 \o p6 /\ r \o p4 = p6 \o p1 \o p4
  BY <1>1, <1>3, <1>5, <1>7, <1>10
<1> QED
  BY <1>9, <1>13, <1>14

\* A last word is the last.
LEMMA LastWord ==
    ASSUME NEW T, NEW s \in Seq(T), NEW w \in T
    PROVE  \E n \in DOMAIN Append(s, w) : /\ Append(s, w)[n] = w
                                          /\ \A m \in DOMAIN Append(s, w) : ~ (m > n)
<1>1. PICK t \in Seq(T) : t = Append(s, w)
  BY Appended
<1>2. Len(t) = Len(s) + 1 /\ t[Len(s) + 1] = w /\ Len(s) \in Nat
  BY <1>1, Appended
<1>3. DOMAIN t = 1..(Len(s) + 1)
  BY <1>2
<1>4. Len(s) + 1 \in DOMAIN t /\ \A m \in DOMAIN t : ~ (m > Len(s) + 1)
  BY <1>2, <1>3
<1> QED
  BY <1>1, <1>2, <1>4

\* Words without a quote, words that close theirs, and one word without, in a line that fits:
\* the first are read, and the last is read last.
LEMMA ReadsFrontAndBack ==
    ASSUME NEW W, \A w \in W : Wordly(w), NEW front \in Seq(W), NEW extra \in Seq(W), NEW back \in Seq(W),
           Open(front, {}), Closes(extra), Open(back, {}), Len(back) \in 0..1, Bytes(front \o extra \o back) < maxCmdline
    PROVE  /\ ToSet(front) \subseteq ToSet(Read(front \o extra \o back))
           /\ Len(back) = 1 => \E s \in Seq(W) : Read(front \o extra \o back) = Append(s, back[1])
<1>1. PICK A : Open(extra, A) /\ Len(extra) \notin A
  BY DEF Closes
<1>2. PICK body \in Seq(W) : body = front \o extra
  BY Joined
<1>3. /\ Len(body) = Len(front) + Len(extra) /\ Len(front) \in Nat /\ Len(extra) \in Nat
      /\ \A i \in 1..Len(front) : body[i] = front[i]
  BY <1>2, Joined
<1>4. PICK C : /\ Open(body, C) /\ (Len(front) + Len(extra) \in C <=> Len(extra) \in A)
               /\ \A n \in 0..Len(front) : n \in C <=> n \in {}
  BY <1>1, <1>2, OpenJoined
<1>5. Len(body) \notin C /\ \A n \in 0..Len(front) : n \notin C
  BY <1>1, <1>3, <1>4
<1>6. PICK words \in Seq(W) : words = body \o back
  BY Joined
<1>7. /\ Len(words) = Len(body) + Len(back) /\ Len(body) \in Nat
      /\ \A i \in 1..Len(body) : words[i] = body[i]
      /\ \A i \in 1..Len(back) : words[Len(body) + i] = back[i]
  BY <1>6, Joined
<1>8. PICK D : Open(words, D) /\ \A n \in 0..Len(body) : n \in D <=> n \in C
  BY <1>4, <1>5, <1>6, OpenJoined
<1>9. words = front \o extra \o back /\ Bytes(words) < maxCmdline
  BY <1>2, <1>6
<1>10. /\ \A i \in 1..Len(words) : i - 1 \notin D => words[i] \in ToSet(Read(words))
       /\ Len(words) # 0 /\ Len(words) - 1 \notin D => \E s \in Seq(W) : Read(words) = Append(s, words[Len(words)])
  BY <1>8, <1>9, ReadThrough
<1>11. ASSUME NEW w \in ToSet(front) PROVE w \in ToSet(Read(words))
  <2>1. PICK i \in 1..Len(front) : w = front[i]
    <3>1. DOMAIN front = 1..Len(front)
      OBVIOUS
    <3> QED
      BY <3>1 DEF ToSet
  <2>2. i \in 1..Len(words) /\ i \in 1..Len(body) /\ i - 1 \in 0..Len(front) /\ i - 1 \in 0..Len(body)
    BY <1>3, <1>7
  <2>3. words[i] = w /\ i - 1 \notin D
    BY <1>3, <1>5, <1>7, <1>8, <2>1, <2>2
  <2> QED
    BY <1>10, <2>2, <2>3
<1>12. ASSUME Len(back) = 1 PROVE \E s \in Seq(W) : Read(words) = Append(s, back[1])
  <2>1. Len(words) # 0 /\ Len(words) - 1 = Len(body) /\ Len(words) = Len(body) + 1 /\ Len(body) \in 0..Len(body)
    BY <1>7, <1>12
  <2>2. words[Len(words)] = back[1] /\ Len(words) - 1 \notin D
    BY <1>5, <1>7, <1>8, <1>12, <2>1
  <2> QED
    BY <1>10, <2>1, <2>2
<1> QED
  BY <1>9, <1>11, <1>12

LEMMA ReadsLine ==
    ASSUME QuotesClosed, CmdlineInv, NEW l \in Lines, line[l].set, validateLine(line[l])
    PROVE  LET c == line[l]
               read == Read(String(c))
           IN  /\ ToSet(Always \o Param("console", c.console) \o Param("root", c.root)) \subseteq ToSet(read)
               /\ c.init # None =>
                    \E n \in DOMAIN read : /\ read[n].key = "init" /\ read[n].val = c.init.val
                                           /\ \A m \in DOMAIN read : m > n => read[m].key # "init"
<1>1. PICK c : c = line[l]
  OBVIOUS
<1>2. c \in Cmdlines /\ Extra(c) \in Seq(Element) /\ Len(Extra(c)) = c.extra.len /\ validateLine(c)
  BY <1>1, ExtraType DEF CmdlineInv, LineInv
<1>3. {c.console, c.init, c.root} \subseteq {f \in {c.console, c.init, c.root} :
          f.len \in Nat /\ f.quote \in BOOLEAN /\ ~ f.spaces /\ ~ f.quote}
  <2>1. c.init \in Values /\ c.root \in Values /\ None \in Values /\ c.console = [None EXCEPT !.val = "ttyS0", !.len = 5]
    BY <1>2, CmdlineAssumption DEF Cmdlines
  <2>2. /\ c.init.len \in Nat /\ c.init.quote \in BOOLEAN /\ c.root.len \in Nat /\ c.root.quote \in BOOLEAN
    BY <2>1 DEF Values
  <2>3. c.console.len = 5 /\ c.console.quote = None.quote /\ None.quote \in BOOLEAN
    BY <2>1 DEF Values
  <2>4. \A f \in {c.console, c.init, c.root} : ~ f.spaces /\ ~ f.quote
    BY <1>2 DEF validateLine
  <2> QED
    BY <2>2, <2>3, <2>4
<1>4. PICK words : words = String(c)
  OBVIOUS
<1>5. PICK extra : extra = FlattenSeq(Extra(c))
  OBVIOUS
<1> DEFINE P == Ours \cup {Named("console", c.console), Named("root", c.root), Named("init", c.init)}
           W == P \cup Theirs
           p1 == Param("console", c.console)
           p2 == IF c.quiet THEN <<Word("quiet", "", 5)>> ELSE <<>>
           p3 == <<Word("loglevel", IF c.quiet THEN "3" ELSE "0", 10)>>
           p4 == Param("root", c.root)
           p5 == IF c.root # None THEN <<Word(IF c.readonly THEN "ro" ELSE "rw", "", 2)>> ELSE <<>>
           p8 == Param("init", c.init)
<1>6. words = (p1 \o p2 \o p3 \o p4 \o p5 \o Always) \o extra \o p8
  BY <1>4, <1>5 DEF String
<1>7. extra \in Seq(Theirs) /\ Closes(extra)
  <2> DEFINE A == {s \in Seq(Theirs) : Closes(s)}
  <2>1. \A i \in 1..Len(Extra(c)) : Extra(c)[i] \in A
    <3> SUFFICES ASSUME NEW i \in 1..Len(Extra(c)) PROVE Extra(c)[i] \in A
      OBVIOUS
    <3>1. Extra(c)[i] \in Element
      BY <1>2
    <3>2. \A j \in DOMAIN Extra(c)[i] : Extra(c)[i][j].key # "--"
      BY <1>2 DEF validateLine
    <3> QED
      BY <3>1, <3>2, ElementsClose
  <2>2. <<>> \in A
    BY NothingCloses
  <2>3. \A a, b \in A : a \o b \in A
    BY Joined, ClosesJoined
  <2> HIDE DEF A
  <2>4. Extra(c) \in Seq(A)
    BY <1>2, <2>1
  <2>5. extra \in A
    BY <1>5, <2>2, <2>3, <2>4, FlattenSeqIn
  <2> QED
    BY <2>5 DEF A
<1>8. Always \in Seq(P)
  <2>1. Word("pci", "lastbus=0", 13) \in P /\ Word("panic", "1", 7) \in P /\ Word("TERM", "dumb", 9) \in P
    BY DEF Ours
  <2> HIDE DEF P
  <2> QED
    BY <2>1 DEF Always
<1>9. p2 \in Seq(P) /\ p3 \in Seq(P) /\ p5 \in Seq(P)
  <2>1. /\ Word("quiet", "", 5) \in P /\ Word("loglevel", "3", 10) \in P /\ Word("loglevel", "0", 10) \in P
        /\ Word("ro", "", 2) \in P /\ Word("rw", "", 2) \in P
    BY DEF Ours
  <2>2. <<>> \in Seq(P)
    OBVIOUS
  <2>3. Word("loglevel", IF c.quiet THEN "3" ELSE "0", 10) \in P
    BY <2>1
  <2>4. Word(IF c.readonly THEN "ro" ELSE "rw", "", 2) \in P
    BY <2>1
  <2> HIDE DEF P
  <2>5. p2 \in Seq(P)
    <3>1. <<Word("quiet", "", 5)>> \in Seq(P)
      BY <2>1, Single, Zenon
    <3> QED
      BY <2>2, <3>1, Zenon
  <2>6. p3 \in Seq(P)
    BY <2>3
  <2>7. p5 \in Seq(P)
    <3>1. <<Word(IF c.readonly THEN "ro" ELSE "rw", "", 2)>> \in Seq(P)
      BY <2>4, Single, Zenon
    <3> QED
      BY <2>2, <3>1, Zenon
  <2> QED
    BY <2>5, <2>6, <2>7
<1>10. /\ p1 = (IF c.console = None THEN <<>> ELSE <<Named("console", c.console)>>) /\ Plainly(Named("console", c.console))
       /\ p4 = (IF c.root = None THEN <<>> ELSE <<Named("root", c.root)>>) /\ Plainly(Named("root", c.root))
       /\ p8 = (IF c.init = None THEN <<>> ELSE <<Named("init", c.init)>>) /\ Plainly(Named("init", c.init))
       /\ Named("init", c.init).key = "init" /\ Named("init", c.init).val = c.init.val
  BY <1>3, ParamIs
<1>11. \A w \in P : Plainly(w)
  BY <1>10, OursArePlain
<1>12. Named("console", c.console) \in P /\ Named("root", c.root) \in P /\ Named("init", c.init) \in P
  OBVIOUS
<1>13. P \subseteq W /\ extra \in Seq(W) /\ \A w \in W : Wordly(w)
  <2>1. \A w \in P : Wordly(w)
    BY <1>11 DEF Plainly
  <2>2. \A w \in Theirs : Wordly(w)
    BY DEF Theirs
  <2> HIDE DEF P
  <2> QED
    BY <1>7, <2>1, <2>2
<1> HIDE DEF W, P, p1, p2, p3, p4, p5, p8
<1>14. p1 \in Seq(P) /\ p4 \in Seq(P) /\ p8 \in Seq(P) /\ Len(p8) \in 0..1
  BY <1>10, <1>12
<1>15. PICK front : front = p1 \o p2 \o p3 \o p4 \o p5 \o Always
  OBVIOUS
<1>16. front \in Seq(P) /\ ToSet(Always \o p1 \o p4) \subseteq ToSet(front)
  BY <1>8, <1>9, <1>14, <1>15, Pieces
<1>17. Open(front, {}) /\ Open(p8, {})
  BY <1>11, <1>14, <1>16, PlainCloses
<1>18. front \in Seq(W) /\ p8 \in Seq(W)
  BY <1>13, <1>14, <1>16
<1>19. words = front \o extra \o p8 /\ Bytes(front \o extra \o p8) < maxCmdline
  BY <1>2, <1>4, <1>6, <1>15 DEF validateLine, Fits
<1>20. /\ ToSet(front) \subseteq ToSet(Read(words))
       /\ Len(p8) = 1 => \E s \in Seq(W) : Read(words) = Append(s, p8[1])
  <2>1. (\A w \in W : Wordly(w)) /\ extra \in Seq(W) /\ Closes(extra) /\ Len(p8) \in 0..1
    BY <1>7, <1>13, <1>14
  <2>2. /\ ToSet(front) \subseteq ToSet(Read(front \o extra \o p8))
        /\ Len(p8) = 1 => \E s \in Seq(W) : Read(front \o extra \o p8) = Append(s, p8[1])
    BY <1>17, <1>18, <1>19, <2>1, ReadsFrontAndBack
  <2> QED
    BY <1>19, <2>2
<1>21. ASSUME c.init # None
       PROVE  \E n \in DOMAIN Read(words) : /\ Read(words)[n].key = "init" /\ Read(words)[n].val = c.init.val
                                            /\ \A m \in DOMAIN Read(words) : m > n => Read(words)[m].key # "init"
  <2>1. p8 = <<Named("init", c.init)>> /\ Len(p8) = 1 /\ p8[1] = Named("init", c.init)
    BY <1>10, <1>21
  <2>2. PICK s \in Seq(W) : Read(words) = Append(s, Named("init", c.init))
    BY <1>20, <2>1
  <2>3. PICK read : read = Read(words)
    OBVIOUS
  <2>4. \E n \in DOMAIN read : read[n] = Named("init", c.init) /\ \A m \in DOMAIN read : ~ (m > n)
    BY <1>12, <1>13, <2>2, <2>3, LastWord
  <2> QED
    BY <1>10, <2>3, <2>4
<1> QED
  BY <1>1, <1>4, <1>16, <1>20, <1>21 DEF p1, p4

\* A command line that validates, and whose Extra closes every quote it opens, is read by the
\* kernel with every parameter of the machine's and the init that was asked for, whatever else
\* Extra holds and however near the line comes to the kernel's limit.
THEOREM KernelReads ==
    ASSUME QuotesClosed
    PROVE  CmdlineSpec => []KernelReadsTheLine
<1>1. CmdlineInv => KernelReadsTheLine
  BY ReadsLine DEF KernelReadsTheLine
<1> QED
  BY <1>1, CmdlineInductive, PTL
=============================================================================
