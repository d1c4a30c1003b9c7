---------------------------- MODULE IssuesProofs ----------------------------
(***************************************************************************)
(* However jobs fail, are killed and start over, no finding is hidden on a *)
(* closed issue, no package is given a second one, and a job that ends     *)
(* well has brought the issues to what it scanned: for any packages,       *)
(* findings, releases and earlier issues.                                  *)
(***************************************************************************)
EXTENDS Issues, Integers, SequenceTheorems, WellFoundedInduction, TLAPS

-----------------------------------------------------------------------------
(* The newest of the issues with a title.                                   *)

Less == OpToRel(<, Nat)

\* A set of naturals has a smallest one.
LEMMA HasMin ==
    ASSUME NEW S \in SUBSET Nat, S # {}
    PROVE  \E n \in S : \A m \in S : n <= m
<1>1. IsWellFoundedOn(Less, Nat)
  BY NatLessThanWellFounded DEF Less
<1>2. PICK n \in S : \A m \in S : ~ (<<m, n>> \in Less)
  BY <1>1, WFMin
<1>3. Less = {ss \in Nat \X Nat : ss[1] < ss[2]}
  BY DEF Less, OpToRel
<1>4. ASSUME NEW m \in S PROVE n <= m
  <2>1. n \in Nat /\ m \in Nat /\ <<m, n>> \in Nat \X Nat
    OBVIOUS
  <2>2. ~ (m < n)
    BY <1>2, <1>3, <2>1
  <2> QED
    BY <2>1, <2>2
<1> QED
  BY <1>4

\* And a largest one, if it has a bound: the smallest of its bounds is in it.
LEMMA HasMax ==
    ASSUME NEW S, NEW N \in Nat, S \subseteq 0..N, S # {}
    PROVE  \E n \in S : \A m \in S : m <= n
<1> DEFINE U == {u \in Nat : \A m \in S : m <= u}
<1>1. N \in U
  OBVIOUS
<1>2. U \in SUBSET Nat /\ U # {}
  BY <1>1
<1> HIDE DEF U
<1>3. PICK u \in U : \A v \in U : u <= v
  BY <1>2, HasMin
<1>4. u \in Nat /\ \A m \in S : m <= u /\ m \in Nat
  BY <1>3 DEF U
<1>5. u \in S
  <2> SUFFICES ASSUME u \notin S PROVE FALSE
    OBVIOUS
  <2>1. \A m \in S : m < u
    BY <1>4
  <2>2. u # 0
    <3>1. PICK m \in S : TRUE
      OBVIOUS
    <3> QED
      BY <1>4, <2>1, <3>1
  <2>3. u - 1 \in U
    BY <1>4, <2>1, <2>2 DEF U
  <2> QED
    BY <1>3, <1>4, <2>3
<1> QED
  BY <1>4, <1>5

LEMMA NewestIs ==
    ASSUME NEW list \in Seq(Issue), NEW t
    PROVE  /\ Numbers(t, list) \subseteq 1..Len(list)
           /\ newest(t, list) \in {0} \cup Numbers(t, list)
           /\ \A m \in Numbers(t, list) : m <= newest(t, list)
           /\ newest(t, list) = 0 <=> Numbers(t, list) = {}
<1>1. Len(list) \in Nat /\ DOMAIN list = 1..Len(list)
  BY LenProperties
<1>2. Numbers(t, list) \subseteq 1..Len(list)
  BY <1>1 DEF Numbers
<1>3. \E n \in {0} \cup Numbers(t, list) : \A m \in {0} \cup Numbers(t, list) : m <= n
  <2>1. {0} \cup Numbers(t, list) \subseteq 0..Len(list)
    BY <1>1, <1>2
  <2> QED
    BY <1>1, <2>1, HasMax
<1>4. /\ newest(t, list) \in {0} \cup Numbers(t, list)
      /\ \A m \in Numbers(t, list) : m <= newest(t, list)
  BY <1>3 DEF newest
<1>5. newest(t, list) = 0 <=> Numbers(t, list) = {}
  BY <1>1, <1>2, <1>4
<1> QED
  BY <1>2, <1>4, <1>5

\* Only titles count.
LEMMA SameTitles ==
    ASSUME NEW list \in Seq(Issue), NEW n \in DOMAIN list, NEW i \in Issue, i.title = list[n].title,
           NEW e, e = [list EXCEPT ![n] = i]
    PROVE  /\ e \in Seq(Issue) /\ Len(e) = Len(list)
           /\ \A m \in DOMAIN list : e[m].title = list[m].title
           /\ \A t : Numbers(t, e) = Numbers(t, list) /\ newest(t, e) = newest(t, list)
<1>1. e \in Seq(Issue) /\ Len(e) = Len(list) /\ DOMAIN e = DOMAIN list
  BY ExceptSeq
<1>2. \A m \in DOMAIN list : e[m].title = list[m].title
  OBVIOUS
<1>3. \A t : Numbers(t, e) = Numbers(t, list)
  BY <1>1, <1>2 DEF Numbers
<1>4. \A t : newest(t, e) = newest(t, list)
  BY <1>3 DEF newest
<1> QED
  BY <1>1, <1>2, <1>3, <1>4

LEMMA OneMore ==
    ASSUME NEW list \in Seq(Issue), NEW i \in Issue
    PROVE  LET e == Append(list, i) IN
           /\ e \in Seq(Issue) /\ Len(e) = Len(list) + 1 /\ e[Len(list) + 1] = i
           /\ \A m \in DOMAIN list : e[m] = list[m]
           /\ \A t : t # i.title => Numbers(t, e) = Numbers(t, list) /\ newest(t, e) = newest(t, list)
           /\ Numbers(i.title, e) = Numbers(i.title, list) \cup {Len(list) + 1}
           /\ newest(i.title, e) = Len(list) + 1
<1> DEFINE e == Append(list, i)
<1>1. /\ Len(list) \in Nat /\ DOMAIN list = 1..Len(list) /\ e \in Seq(Issue)
      /\ Len(e) = Len(list) + 1 /\ DOMAIN e = 1..(Len(list) + 1)
  BY LenProperties, AppendProperties
<1>2. e[Len(list) + 1] = i /\ \A m \in DOMAIN list : e[m] = list[m]
  BY <1>1, AppendProperties
<1> HIDE DEF e
<1>3. \A t : t # i.title => Numbers(t, e) = Numbers(t, list)
  BY <1>1, <1>2 DEF Numbers
<1>4. \A t : t # i.title => newest(t, e) = newest(t, list)
  BY <1>3 DEF newest
<1>5. Numbers(i.title, e) = Numbers(i.title, list) \cup {Len(list) + 1}
  BY <1>1, <1>2 DEF Numbers
<1>6. newest(i.title, e) = Len(list) + 1
  BY <1>1, <1>5, NewestIs
<1> QED
  BY <1>1, <1>2, <1>3, <1>4, <1>5, <1>6 DEF e

-----------------------------------------------------------------------------
(* One action of a plan.                                                    *)

LEMMA IssueTypes ==
    ASSUME NEW i \in Issue, NEW tag \in 1..MaxRelease, NEW ids \in SUBSET Ids, NEW p \in Packages
    PROVE  /\ Fresh(p, tag, ids) \in Issue
           /\ Edited(i, tag, ids) \in Issue /\ Edited(i, tag, ids).title = i.title
           /\ Reopened(i, ids) \in Issue /\ Reopened(i, ids).title = i.title
           /\ Closed(i) \in Issue /\ Closed(i).title = i.title
<1>0. tag \in 0..MaxRelease
  BY IssuesAssumption
<1>1. Fresh(p, tag, ids) \in Issue
  BY <1>0 DEF Fresh, Issue, Titles
<1>2. Edited(i, tag, ids) \in Issue /\ Edited(i, tag, ids).title = i.title
  BY <1>0 DEF Edited, Issue
<1>3. Reopened(i, ids) \in Issue /\ Reopened(i, ids).title = i.title
  BY DEF Reopened, Issue
<1>4. Closed(i) \in Issue /\ Closed(i).title = i.title
  BY DEF Closed, Issue
<1> QED
  BY <1>1, <1>2, <1>3, <1>4

\* The issue of a package is one of the issues, and has its title.
LEMMA IssueOf ==
    ASSUME TypeOK, NEW p \in Packages, newest(p, issues) # 0
    PROVE  /\ newest(p, issues) \in DOMAIN issues
           /\ issues[newest(p, issues)] \in Issue /\ issues[newest(p, issues)].title = p
<1>1. issues \in Seq(Issue)
  BY DEF TypeOK
<1>2. newest(p, issues) \in Numbers(p, issues)
  BY <1>1, NewestIs
<1> QED
  BY <1>1, <1>2, ElementOfSeq DEF Numbers

\* Sequences of one and of two.
LEMMA OneAndTwo ==
    ASSUME NEW x, NEW y
    PROVE  /\ <<x>> # <<>> /\ Head(<<x>>) = x /\ Tail(<<x>>) = <<>>
           /\ <<x, y>> # <<>> /\ Head(<<x, y>>) = x /\ Tail(<<x, y>>) = <<y>>
  OBVIOUS

LEMMA Effects ==
    ASSUME NEW n, NEW p, NEW tag, NEW ids
    PROVE  /\ Effect(Action("create", n, p, tag, ids)) = Append(issues, Fresh(p, tag, ids))
           /\ Effect(Action("edit", n, p, tag, ids)) = [issues EXCEPT ![n] = Edited(issues[n], tag, ids)]
           /\ Effect(Action("reopen", n, p, tag, ids)) = [issues EXCEPT ![n] = Reopened(issues[n], ids)]
           /\ Effect(Action("close", n, p, tag, ids)) = [issues EXCEPT ![n] = Closed(issues[n])]
<1>1. Effect(Action("create", n, p, tag, ids)) = Append(issues, Fresh(p, tag, ids))
  BY DEF Effect, Action
<1>2. Effect(Action("edit", n, p, tag, ids)) = [issues EXCEPT ![n] = Edited(issues[n], tag, ids)]
  BY DEF Effect, Action
<1>3. Effect(Action("reopen", n, p, tag, ids)) = [issues EXCEPT ![n] = Reopened(issues[n], ids)]
  BY DEF Effect, Action
<1>4. Effect(Action("close", n, p, tag, ids)) = [issues EXCEPT ![n] = Closed(issues[n])]
  BY DEF Effect, Action
<1> QED
  BY <1>1, <1>2, <1>3, <1>4

\* What the next action of a package's plan is, and what it leaves of the plan and the issues.
Creates(p, tag, ids, k) ==
    /\ newest(p, issues) = 0 /\ ids # {} /\ k = p
    /\ Tail(todo[k]) = <<>> /\ todo[p + LastPackage] = <<>>
    /\ Effect(Head(todo[k])) = Append(issues, Fresh(p, tag, ids))

Edits(p, tag, ids, k) ==
    LET n == newest(p, issues) IN
    /\ n # 0 /\ ids # {} /\ k = p /\ (Undisturbed => issues[n].state = "OPEN")
    /\ Tail(todo[k]) = <<>> /\ todo[p + LastPackage] = <<>>
    /\ Effect(Head(todo[k])) = [issues EXCEPT ![n] = Edited(issues[n], tag, ids)]

Reopens(p, tag, ids, k) ==
    LET n == newest(p, issues) IN
    /\ n # 0 /\ ids # {} /\ k = p
    /\ Tail(todo[k]) = <<Action("edit", n, p, tag, ids)>> /\ todo[p + LastPackage] = <<>>
    /\ \E unlisted \in SUBSET Ids :
         Effect(Head(todo[k])) = [issues EXCEPT ![n] = Reopened(issues[n], unlisted)]

Closes(p, tag, ids, k) ==
    LET n == newest(p, issues) IN
    /\ n # 0 /\ ids = {} /\ k = p + LastPackage
    /\ Tail(todo[k]) = <<>> /\ todo[p] = <<>>
    /\ Effect(Head(todo[k])) = [issues EXCEPT ![n] = Closed(issues[n])]

LEMMA Turn ==
    ASSUME TypeOK, NEW p \in Packages, NEW tag \in 1..MaxRelease, NEW ids \in SUBSET Ids,
           LeftFor(p, tag, ids), NEW k \in {p, p + LastPackage}, todo[k] # <<>>
    PROVE  Creates(p, tag, ids, k) \/ Edits(p, tag, ids, k) \/ Reopens(p, tag, ids, k) \/ Closes(p, tag, ids, k)
<1> DEFINE n == newest(p, issues)
<1>1. n # 0 => n \in DOMAIN issues /\ issues[n] \in Issue
  BY IssueOf
<1> HIDE DEF n
<1>2. CASE n = 0 /\ ids # {} /\ todo[p] = <<Action("create", 0, p, tag, ids)>> /\ todo[p + LastPackage] = <<>>
  <2>1. k = p /\ Tail(todo[k]) = <<>> /\ Head(todo[k]) = Action("create", 0, p, tag, ids)
    BY <1>2, OneAndTwo
  <2>2. Effect(Head(todo[k])) = Append(issues, Fresh(p, tag, ids))
    BY <2>1, Effects
  <2> QED
    BY <1>2, <2>1, <2>2 DEF Creates, n
<1>3. CASE /\ n # 0 /\ ids # {} /\ (Undisturbed => issues[n].state = "OPEN")
           /\ todo[p] = <<Action("edit", n, p, tag, ids)>> /\ todo[p + LastPackage] = <<>>
  <2>1. k = p /\ Tail(todo[k]) = <<>> /\ Head(todo[k]) = Action("edit", n, p, tag, ids)
    BY <1>3, OneAndTwo
  <2>2. Effect(Head(todo[k])) = [issues EXCEPT ![n] = Edited(issues[n], tag, ids)]
    BY <2>1, Effects
  <2> QED
    BY <1>3, <2>1, <2>2 DEF Edits, n
<1>4. CASE /\ n # 0 /\ ids # {}
           /\ \E unlisted \in SUBSET Ids : todo[p] = Reopen(n, p, tag, ids, unlisted)
           /\ todo[p + LastPackage] = <<>>
  <2>1. PICK unlisted \in SUBSET Ids : todo[p] = Reopen(n, p, tag, ids, unlisted)
    BY <1>4
  <2>2. k = p
    BY <1>4
  <2>3. Tail(todo[k]) = <<Action("edit", n, p, tag, ids)>>
    <3>1. todo[k] = <<Action("reopen", n, p, tag, unlisted), Action("edit", n, p, tag, ids)>>
      BY <2>1, <2>2 DEF Reopen
    <3>2. \A x, y : Tail(<<x, y>>) = <<y>>
      BY OneAndTwo
    <3> QED
      BY <3>1, <3>2, Zenon
  <2>4. Head(todo[k]) = Action("reopen", n, p, tag, unlisted)
    BY <2>1, <2>2, OneAndTwo DEF Reopen
  <2>5. Effect(Head(todo[k])) = [issues EXCEPT ![n] = Reopened(issues[n], unlisted)]
    BY <2>4, Effects
  <2> QED
    BY <1>4, <2>2, <2>3, <2>5 DEF Reopens, n
<1>5. CASE n # 0 /\ ids = {} /\ todo[p] = <<>> /\ todo[p + LastPackage] = <<Action("close", n, p, tag, {})>>
  <2>1. k = p + LastPackage /\ Tail(todo[k]) = <<>> /\ Head(todo[k]) = Action("close", n, p, tag, {})
    BY <1>5, OneAndTwo
  <2>2. Effect(Head(todo[k])) = [issues EXCEPT ![n] = Closed(issues[n])]
    BY <2>1, Effects
  <2> QED
    BY <1>5, <2>1, <2>2 DEF Closes, n
<1> QED
  BY <1>2, <1>3, <1>4, <1>5 DEF LeftFor, n

\* An issue that changes and keeps its title.
LEMMA SameNewest ==
    ASSUME issues \in Seq(Issue), NEW n \in DOMAIN issues, NEW i \in Issue, i.title = issues[n].title,
           issues' = [issues EXCEPT ![n] = i]
    PROVE  issues'[n] = i /\ \A t : newest(t, issues') = newest(t, issues)
<1>1. \A e : e = [issues EXCEPT ![n] = i] =>
        /\ e \in Seq(Issue) /\ Len(e) = Len(issues)
        /\ \A m \in DOMAIN issues : e[m].title = issues[m].title
        /\ \A t : Numbers(t, e) = Numbers(t, issues) /\ newest(t, e) = newest(t, issues)
  BY SameTitles
<1> QED
  BY <1>1

LEMMA Touched ==
    ASSUME TypeOK, AnsweredInv, OpenedInv, NEW n \in DOMAIN issues, NEW i \in Issue, i.title = issues[n].title,
           ~ PeopleDuringRuns /\ i.state = "CLOSED" => i.ids \subseteq i.answered,
           issues' = [issues EXCEPT ![n] = i]
    PROVE  /\ issues' \in Seq(Issue) /\ AnsweredInv' /\ OpenedInv'
           /\ issues'[n] = i /\ \A m \in DOMAIN issues : m # n => issues'[m] = issues[m]
           /\ \A t : newest(t, issues') = newest(t, issues)
<1>1. issues \in Seq(Issue)
  BY DEF TypeOK
<1>2. /\ issues' \in Seq(Issue) /\ Len(issues') = Len(issues)
      /\ \A m \in DOMAIN issues : issues'[m].title = issues[m].title
      /\ \A t : Numbers(t, issues') = Numbers(t, issues) /\ newest(t, issues') = newest(t, issues)
  <2>1. \A e : e = [issues EXCEPT ![n] = i] =>
          /\ e \in Seq(Issue) /\ Len(e) = Len(issues)
          /\ \A m \in DOMAIN issues : e[m].title = issues[m].title
          /\ \A t : Numbers(t, e) = Numbers(t, issues) /\ newest(t, e) = newest(t, issues)
    BY <1>1, SameTitles
  <2> QED
    BY <2>1
<1>3. /\ DOMAIN issues' = DOMAIN issues /\ DOMAIN issues = 1..Len(issues) /\ Len(issues) \in Nat
      /\ issues'[n] = i /\ \A m \in DOMAIN issues : m # n => issues'[m] = issues[m]
  BY <1>1, LenProperties
<1>4. AnsweredInv'
  BY <1>3 DEF AnsweredInv
<1>5. OpenedInv'
  <2>1. PICK h \in History :
          /\ Len(h) <= Len(issues) /\ \A m \in 1..Len(h) : issues[m].title = h[m].title
          /\ \A p \in Packages : \A l, m \in Numbers(p, issues) : m > Len(h) => l = m
    BY DEF OpenedInv
  <2>2. Len(h) \in Nat
    BY IssuesAssumption, LenProperties
  <2>3. \A m \in 1..Len(h) : issues'[m].title = h[m].title
    BY <1>2, <1>3, <2>1, <2>2
  <2>4. \A p \in Packages : \A l, m \in Numbers(p, issues') : m > Len(h) => l = m
    BY <1>2, <2>1
  <2>5. Len(h) <= Len(issues')
    BY <1>2, <2>1
  <2> QED
    BY <2>3, <2>4, <2>5 DEF OpenedInv
<1> QED
  BY <1>2, <1>3, <1>4, <1>5

\* An issue for a package that has none.
LEMMA Appended ==
    ASSUME TypeOK, AnsweredInv, OpenedInv, NEW p \in Packages, newest(p, issues) = 0,
           NEW i \in Issue, i.title = p, i.state = "OPEN", issues' = Append(issues, i)
    PROVE  /\ issues' \in Seq(Issue) /\ AnsweredInv' /\ OpenedInv'
           /\ newest(p, issues') # 0 /\ issues'[newest(p, issues')] = i
           /\ \A m \in DOMAIN issues : issues'[m] = issues[m]
           /\ \A t : t # p => newest(t, issues') = newest(t, issues)
<1>1. /\ issues \in Seq(Issue) /\ Len(issues) \in Nat /\ DOMAIN issues = 1..Len(issues)
      /\ Numbers(p, issues) = {}
  BY NewestIs, LenProperties DEF TypeOK
<1>2. /\ issues' \in Seq(Issue) /\ Len(issues') = Len(issues) + 1 /\ issues'[Len(issues) + 1] = i
      /\ \A m \in DOMAIN issues : issues'[m] = issues[m]
      /\ \A t : t # p => Numbers(t, issues') = Numbers(t, issues) /\ newest(t, issues') = newest(t, issues)
      /\ Numbers(p, issues') = Numbers(p, issues) \cup {Len(issues) + 1}
      /\ newest(p, issues') = Len(issues) + 1
  <2> DEFINE e == Append(issues, i)
  <2>1. /\ e \in Seq(Issue) /\ Len(e) = Len(issues) + 1 /\ e[Len(issues) + 1] = i
        /\ \A m \in DOMAIN issues : e[m] = issues[m]
        /\ \A t : t # i.title => Numbers(t, e) = Numbers(t, issues) /\ newest(t, e) = newest(t, issues)
        /\ Numbers(i.title, e) = Numbers(i.title, issues) \cup {Len(issues) + 1}
        /\ newest(i.title, e) = Len(issues) + 1
    BY <1>1, OneMore
  <2>2. issues' = e
    OBVIOUS
  <2> HIDE DEF e
  <2> QED
    BY <2>1, <2>2
<1>3. DOMAIN issues' = 1..(Len(issues) + 1)
  BY <1>2, LenProperties
<1>4. AnsweredInv'
  BY <1>1, <1>2, <1>3 DEF AnsweredInv
<1>5. OpenedInv'
  <2>1. PICK h \in History :
          /\ Len(h) <= Len(issues) /\ \A m \in 1..Len(h) : issues[m].title = h[m].title
          /\ \A q \in Packages : \A l, m \in Numbers(q, issues) : m > Len(h) => l = m
    BY DEF OpenedInv
  <2>2. Len(h) \in Nat
    BY IssuesAssumption, LenProperties
  <2>3. \A m \in 1..Len(h) : issues'[m].title = h[m].title
    BY <1>1, <1>2, <2>1, <2>2
  <2>4. \A q \in Packages : \A l, m \in Numbers(q, issues') : m > Len(h) => l = m
    BY <1>1, <1>2, <2>1
  <2>5. Len(h) <= Len(issues')
    BY <1>1, <1>2, <2>1, <2>2
  <2> QED
    BY <2>3, <2>4, <2>5 DEF OpenedInv
<1> QED
  BY <1>1, <1>2, <1>4, <1>5

\* An action of p's plan leaves what it should, and the issues of the others alone.
LEMMA TurnKeeps ==
    ASSUME TypeOK, AnsweredInv, OpenedInv,
           NEW p \in Packages, NEW tag \in 1..MaxRelease, NEW ids \in SUBSET Ids, LeftFor(p, tag, ids),
           NEW k \in {p, p + LastPackage}, todo[k] # <<>>, issues' = Effect(Head(todo[k]))
    PROVE  /\ issues' \in Seq(Issue) /\ AnsweredInv' /\ OpenedInv'
           /\ \A m \in DOMAIN issues : m # newest(p, issues) => issues'[m] = issues[m]
           /\ \A q \in Packages : q # p => newest(q, issues') = newest(q, issues)
<1>1. CASE Creates(p, tag, ids, k)
  <2>1. Fresh(p, tag, ids) \in Issue /\ Fresh(p, tag, ids).title = p /\ Fresh(p, tag, ids).state = "OPEN"
    <3>1. tag \in 0..MaxRelease
      BY IssuesAssumption
    <3> QED
      BY <3>1 DEF Fresh, Issue, Titles
  <2> QED
    BY <1>1, <2>1, Appended DEF Creates
<1> DEFINE n == newest(p, issues)
<1>2. ASSUME n # 0, NEW i \in Issue, i.title = issues[n].title, issues' = [issues EXCEPT ![n] = i],
             ~ PeopleDuringRuns /\ i.state = "CLOSED" => i.ids \subseteq i.answered
      PROVE  /\ issues' \in Seq(Issue) /\ AnsweredInv' /\ OpenedInv'
             /\ \A m \in DOMAIN issues : m # newest(p, issues) => issues'[m] = issues[m]
             /\ \A q \in Packages : q # p => newest(q, issues') = newest(q, issues)
  BY <1>2, IssueOf, Touched
<1>3. ASSUME n # 0
      PROVE  /\ n \in DOMAIN issues /\ issues[n] \in Issue
             /\ ~ PeopleDuringRuns /\ issues[n].state = "CLOSED" => issues[n].ids \subseteq issues[n].answered
  BY <1>3, IssueOf DEF AnsweredInv
<1> HIDE DEF n
<1>4. CASE Edits(p, tag, ids, k)
  <2>1. /\ n # 0 /\ issues' = [issues EXCEPT ![n] = Edited(issues[n], tag, ids)]
        /\ ~ PeopleDuringRuns => issues[n].state = "OPEN"
    BY <1>4 DEF Edits, Undisturbed, n
  <2>2. /\ Edited(issues[n], tag, ids) \in Issue /\ Edited(issues[n], tag, ids).title = issues[n].title
        /\ Edited(issues[n], tag, ids).state = issues[n].state
    <3>1. issues[n] \in Issue
      BY <1>3, <2>1
    <3>2. Edited(issues[n], tag, ids).state = issues[n].state
      BY <3>1 DEF Edited, Issue
    <3> QED
      BY <3>1, <3>2, IssueTypes
  <2>3. ~ PeopleDuringRuns => Edited(issues[n], tag, ids).state # "CLOSED"
    BY <2>1, <2>2
  <2> QED
    BY <1>2, <2>1, <2>2, <2>3
<1>5. CASE Reopens(p, tag, ids, k)
  <2>1. n # 0 /\ \E unlisted \in SUBSET Ids : issues' = [issues EXCEPT ![n] = Reopened(issues[n], unlisted)]
    BY <1>5 DEF Reopens, n
  <2>2. PICK unlisted \in SUBSET Ids : issues' = [issues EXCEPT ![n] = Reopened(issues[n], unlisted)]
    BY <2>1
  <2>3. /\ Reopened(issues[n], unlisted) \in Issue /\ Reopened(issues[n], unlisted).title = issues[n].title
        /\ Reopened(issues[n], unlisted).state # "CLOSED"
    <3>1. issues[n] \in Issue
      BY <1>3, <2>1
    <3>2. Reopened(issues[n], unlisted).state # "CLOSED"
      BY <3>1 DEF Reopened, Issue
    <3> QED
      BY <3>1, <3>2, IssueTypes
  <2> QED
    BY <1>2, <2>1, <2>2, <2>3
<1>6. CASE Closes(p, tag, ids, k)
  <2>1. n # 0 /\ issues' = [issues EXCEPT ![n] = Closed(issues[n])]
    BY <1>6 DEF Closes, n
  <2>2. issues[n] \in Issue
    BY <1>3, <2>1
  <2>3. Closed(issues[n]) \in Issue /\ Closed(issues[n]).title = issues[n].title
    BY <2>2, IssueTypes
  <2>4. ~ PeopleDuringRuns /\ Closed(issues[n]).state = "CLOSED"
          => Closed(issues[n]).ids \subseteq Closed(issues[n]).answered
    BY <1>3, <2>1, <2>2 DEF Closed, Issue
  <2> QED
    BY <1>2, <2>1, <2>3, <2>4
<1> QED
  BY <1>1, <1>4, <1>5, <1>6, Turn

-----------------------------------------------------------------------------
(* Plans.                                                                   *)

\* A plan for a package is empty exactly if its issue says what it should, and otherwise one
\* of the four there are.
LEMMA Planned ==
    ASSUME TypeOK, NEW p \in Packages, NEW tag \in 1..MaxRelease, NEW ids \in SUBSET Ids
    PROVE  LET n == newest(p, issues)
               b == bring(p, tag, ids, issues)
               d == drop(p, tag, ids, issues)
           IN  /\ Says(p, tag, ids) => b = <<>> /\ d = <<>>
               /\ \/ b = <<>> /\ d = <<>> /\ Says(p, tag, ids)
                  \/ n = 0 /\ ids # {} /\ b = <<Action("create", 0, p, tag, ids)>> /\ d = <<>>
                  \/ /\ n # 0 /\ ids # {} /\ issues[n].state = "OPEN"
                     /\ b = <<Action("edit", n, p, tag, ids)>> /\ d = <<>>
                  \/ /\ n # 0 /\ ids # {}
                     /\ \E unlisted \in SUBSET Ids : b = Reopen(n, p, tag, ids, unlisted)
                     /\ d = <<>>
                  \/ n # 0 /\ ids = {} /\ b = <<>> /\ d = <<Action("close", n, p, tag, {})>>
<1> DEFINE n == newest(p, issues)
           b == bring(p, tag, ids, issues)
           d == drop(p, tag, ids, issues)
<1>1. n # 0 => issues[n] \in Issue /\ issues[n].state \in {"OPEN", "CLOSED"}
  BY IssueOf DEF Issue
<1>2. Says(p, tag, ids) =
        IF ids = {} THEN n # 0 => issues[n].state = "CLOSED"
        ELSE n # 0 /\ IF issues[n].state = "OPEN" THEN issues[n].release = tag /\ issues[n].ids = ids
                      ELSE ids \subseteq issues[n].ids
  BY DEF Says, Has, Of
<1>3. b = IF ids = {} THEN <<>>
          ELSE IF n = 0 THEN <<Action("create", 0, p, tag, ids)>>
          ELSE IF issues[n].state = "OPEN"
               THEN IF issues[n].release = tag /\ issues[n].ids = ids THEN <<>>
                    ELSE <<Action("edit", n, p, tag, ids)>>
          ELSE IF ids \subseteq issues[n].ids THEN <<>> ELSE Reopen(n, p, tag, ids, ids \ issues[n].ids)
  BY DEF bring
<1>4. d = IF ids = {} /\ n # 0 /\ issues[n].state = "OPEN" THEN <<Action("close", n, p, tag, {})>> ELSE <<>>
  BY DEF drop
<1>5. n # 0 => ids \ issues[n].ids \in SUBSET Ids
  OBVIOUS
<1> HIDE DEF n, b, d
<1>6. Says(p, tag, ids) => b = <<>> /\ d = <<>>
  BY <1>1, <1>2, <1>3, <1>4
<1>7. CASE ids = {}
  BY <1>1, <1>2, <1>3, <1>4, <1>6, <1>7 DEF n, b, d
<1>8. CASE ids # {} /\ n = 0
  BY <1>3, <1>4, <1>6, <1>8 DEF n, b, d
<1>9. CASE ids # {} /\ n # 0 /\ issues[n].state = "OPEN"
  BY <1>2, <1>3, <1>4, <1>6, <1>9 DEF n, b, d
<1>10. CASE ids # {} /\ n # 0 /\ issues[n].state # "OPEN"
  BY <1>2, <1>3, <1>4, <1>5, <1>6, <1>10 DEF n, b, d
<1> QED
  BY <1>7, <1>8, <1>9, <1>10

LEMMA PlanTypes ==
    ASSUME TypeOK, NEW p \in Packages, NEW tag \in 1..MaxRelease, NEW ids \in SUBSET Ids
    PROVE  /\ bring(p, tag, ids, issues) \in Seq(Actions) /\ drop(p, tag, ids, issues) \in Seq(Actions)
           /\ \A n \in Nat : <<Action("edit", n, p, tag, ids)>> \in Seq(Actions)
<1> DEFINE n == newest(p, issues)
<1>1. n \in Nat
  BY NewestIs DEF TypeOK
<1>2. \A v \in {"create", "edit", "reopen", "close"}, m \in Nat, i \in SUBSET Ids : Action(v, m, p, tag, i) \in Actions
  BY DEF Action, Actions
<1> HIDE DEF n
<1>3. \A x, y \in Actions : <<x>> \in Seq(Actions) /\ <<x, y>> \in Seq(Actions)
  OBVIOUS
<1>4. <<>> \in Seq(Actions)
  OBVIOUS
<1>5. \A unlisted \in SUBSET Ids : Reopen(n, p, tag, ids, unlisted) \in Seq(Actions)
  BY <1>1, <1>2, <1>3 DEF Reopen
<1>6. bring(p, tag, ids, issues) \in Seq(Actions)
  <2>1. /\ <<Action("create", 0, p, tag, ids)>> \in Seq(Actions)
        /\ <<Action("edit", n, p, tag, ids)>> \in Seq(Actions)
        /\ Reopen(n, p, tag, ids, ids \ issues[n].ids) \in Seq(Actions)
    BY <1>1, <1>2, <1>3, <1>5
  <2> QED
    BY <1>4, <2>1 DEF bring, n
<1>7. drop(p, tag, ids, issues) \in Seq(Actions)
  <2>1. <<Action("close", n, p, tag, {})>> \in Seq(Actions)
    BY <1>1, <1>2, <1>3
  <2> QED
    BY <1>4, <2>1 DEF drop, n
<1>8. \A m \in Nat : <<Action("edit", m, p, tag, ids)>> \in Seq(Actions)
  BY <1>2, <1>3
<1> QED
  BY <1>6, <1>7, <1>8

\* What is left for a package whose plan and issue stay as they are.
LEMMA LeftStays ==
    ASSUME NEW p \in Packages, NEW tag, NEW ids, LeftFor(p, tag, ids),
           todo'[p] = todo[p], todo'[p + LastPackage] = todo[p + LastPackage],
           newest(p, issues') = newest(p, issues), Quiet' => Quiet, Undisturbed' => Undisturbed,
           Undisturbed' /\ newest(p, issues) # 0 => issues'[newest(p, issues)] = issues[newest(p, issues)]
    PROVE  LeftFor(p, tag, ids)'
<1> DEFINE n == newest(p, issues)
<1>1. newest(p, issues)' = n
  OBVIOUS
<1>2. Quiet' => (Says(p, tag, ids) => Says(p, tag, ids)')
  <2>1. Quiet' => Undisturbed'
    BY DEF Undisturbed
  <2> QED
    BY <1>1, <2>1 DEF Says, Has, Of
<1>3. (Undisturbed => issues[n].state = "OPEN") /\ n # 0 => (Undisturbed' => issues'[n].state = "OPEN")
  OBVIOUS
<1> HIDE DEF n
<1> QED
  BY <1>1, <1>2, <1>3 DEF LeftFor, n

-----------------------------------------------------------------------------
(* The steps.                                                               *)

LEMMA ListStep == ASSUME IssuesInv, List PROVE IssuesInv'
<1> USE DEF IssuesInv
<1>1. /\ release \in 1..MaxRelease /\ tsv \in [Packages -> SUBSET Ids] /\ UNCHANGED <<release, found, issues, tsv, settled>>
      /\ pc = "list" /\ pc' = "act" /\ todo' = plan(release, tsv, issues)
  BY DEF List, listing, TypeOK
<1>2. LastPackage \in Nat
  BY IssuesAssumption
<1>3. \A p \in Packages : /\ p \in Places /\ p + LastPackage \in Places
                         /\ todo'[p] = bring(p, release, tsv[p], issues)
                         /\ todo'[p + LastPackage] = drop(p, release, tsv[p], issues)
  <2> SUFFICES ASSUME NEW p \in Packages
               PROVE  /\ p \in Places /\ p + LastPackage \in Places
                      /\ todo'[p] = bring(p, release, tsv[p], issues)
                      /\ todo'[p + LastPackage] = drop(p, release, tsv[p], issues)
    OBVIOUS
  <2>1. /\ p \in Places /\ p + LastPackage \in Places /\ p <= LastPackage
        /\ ~ (p + LastPackage <= LastPackage) /\ p + LastPackage - LastPackage = p
    BY <1>2 DEF Packages, Places
  <2>2. todo'[p] = bring(p, release, tsv[p], issues)
    BY <1>1, <2>1 DEF plan
  <2>3. todo'[p + LastPackage] = drop(p, release, tsv[p], issues)
    <3> DEFINE k == p + LastPackage
    <3>1. k \in Places /\ ~ (k <= LastPackage) /\ k - LastPackage = p
      BY <1>2, <2>1 DEF Packages
    <3> HIDE DEF k
    <3>2. todo'[k] = drop(k - LastPackage, release, tsv[k - LastPackage], issues)
      BY <1>1, <3>1 DEF plan
    <3>3. todo'[k] = drop(p, release, tsv[p], issues)
      BY <3>1, <3>2
    <3> QED
      BY <3>3 DEF k
  <2> QED
    BY <2>1, <2>2, <2>3
<1>4. todo' \in [Places -> Seq(Actions)]
  <2>1. ASSUME NEW k \in Places
        PROVE  (IF k <= LastPackage THEN bring(k, release, tsv[k], issues)
                ELSE drop(k - LastPackage, release, tsv[k - LastPackage], issues)) \in Seq(Actions)
    <3>1. CASE k <= LastPackage
      <4>1. k \in Packages
        BY <1>2, <3>1 DEF Packages, Places
      <4> QED
        BY <1>1, <3>1, <4>1, PlanTypes
    <3>2. CASE ~ (k <= LastPackage)
      <4>1. k - LastPackage \in Packages
        BY <1>2, <3>2 DEF Packages, Places
      <4> QED
        BY <1>1, <3>2, <4>1, PlanTypes
    <3> QED
      BY <3>1, <3>2
  <2> DEFINE f(k) == IF k <= LastPackage THEN bring(k, release, tsv[k], issues)
                     ELSE drop(k - LastPackage, release, tsv[k - LastPackage], issues)
  <2>2. todo' = [k \in Places |-> f(k)]
    BY <1>1 DEF plan
  <2>3. \A k \in Places : f(k) \in Seq(Actions)
    BY <2>1
  <2> HIDE DEF f
  <2> QED
    BY <2>2, <2>3
<1>5. TypeOK'
  BY <1>1, <1>4 DEF TypeOK
<1>6. \A p \in Packages : LeftFor(p, release, tsv[p])'
  <2> SUFFICES ASSUME NEW p \in Packages PROVE LeftFor(p, release, tsv[p])'
    OBVIOUS
  <2>1. tsv[p] \in SUBSET Ids
    BY <1>1
  <2>2. Says(p, release, tsv[p])' = Says(p, release, tsv[p])
    BY <1>1 DEF Says, Has, Of
  <2> QED
    BY <1>1, <1>3, <2>1, <2>2, Planned DEF LeftFor
<1>7. PlanInv'
  BY <1>1, <1>6 DEF PlanInv
<1>8. ScanInv'
  <2>1. (Quiet /\ pc # "scan" => tsv = found)'
    BY <1>1 DEF ScanInv, Quiet
  <2>2. ASSUME settled = "done" PROVE Reported' /\ todo' = Nothing
    <3>1. Reported /\ tsv = found
      BY <1>1, <2>2 DEF ScanInv, Quiet
    <3>2. Reported'
      BY <1>1, <3>1 DEF Reported, Says, Has, Of
    <3>3. \A k \in Places : todo'[k] = <<>>
      <4> SUFFICES ASSUME NEW k \in Places PROVE todo'[k] = <<>>
        OBVIOUS
      <4>1. \A p \in Packages : todo'[p] = <<>> /\ todo'[p + LastPackage] = <<>>
        <5> SUFFICES ASSUME NEW p \in Packages PROVE todo'[p] = <<>> /\ todo'[p + LastPackage] = <<>>
          OBVIOUS
        <5>1. Says(p, release, tsv[p]) /\ tsv[p] \in SUBSET Ids
          BY <1>1, <3>1 DEF Reported
        <5> QED
          BY <1>1, <1>3, <5>1, Planned
      <4>2. k \in Packages \/ (k - LastPackage \in Packages /\ k = (k - LastPackage) + LastPackage)
        BY <1>2 DEF Packages, Places
      <4> QED
        BY <4>1, <4>2
    <3> QED
      BY <1>4, <3>2, <3>3 DEF Nothing
  <2> QED
    BY <1>1, <2>1, <2>2 DEF ScanInv
<1>9. AnsweredInv' /\ OpenedInv'
  BY <1>1 DEF AnsweredInv, OpenedInv
<1> QED
  BY <1>5, <1>7, <1>8, <1>9

\* The place whose turn it is.
LEMMA FirstIs ==
    ASSUME TypeOK, Left # {}
    PROVE  First \in Places /\ todo[First] # <<>>
<1>1. Left \in SUBSET Nat
  BY IssuesAssumption DEF Left, Places
<1>2. \E k \in Left : \A j \in Left : k <= j
  BY <1>1, HasMin
<1>3. First \in Left
  BY <1>2 DEF First
<1> QED
  BY <1>3 DEF Left

\* A place is a package's own or its second.
LEMMA PlaceOf ==
    ASSUME NEW k \in Places
    PROVE  \E p \in Packages : k \in {p, p + LastPackage}
<1>1. LastPackage \in Nat /\ k \in Nat /\ k >= 1 /\ k <= 2 * LastPackage
  BY IssuesAssumption DEF Places
<1>2. CASE k <= LastPackage
  BY <1>1, <1>2 DEF Packages
<1>3. CASE k > LastPackage
  <2>1. k - LastPackage \in Packages /\ k = (k - LastPackage) + LastPackage
    BY <1>1, <1>3 DEF Packages
  <2> QED
    BY <2>1
<1> QED
  BY <1>1, <1>2, <1>3

LEMMA ActStep == ASSUME IssuesInv, Act PROVE IssuesInv'
<1> USE DEF IssuesInv
<1> DEFINE k == First
<1>1. /\ pc = "act" /\ Left # {} /\ issues' = Effect(Head(todo[k])) /\ todo' = [todo EXCEPT ![k] = Tail(@)]
      /\ UNCHANGED <<release, found, pc, tsv, settled>>
  BY DEF Act
<1>2. k \in Places /\ todo[k] # <<>>
  BY <1>1, FirstIs
<1> HIDE DEF k
<1>3. PICK p \in Packages : k \in {p, p + LastPackage}
  BY <1>2, PlaceOf
<1>4. PICK tag \in 1..MaxRelease : (Quiet => tag = release) /\ \A q \in Packages : LeftFor(q, tag, tsv[q])
  BY <1>1 DEF PlanInv
<1> DEFINE ids == tsv[p]
           n == newest(p, issues)
<1>5. ids \in SUBSET Ids /\ LeftFor(p, tag, ids)
  BY <1>4 DEF TypeOK
<1>6. /\ issues' \in Seq(Issue) /\ AnsweredInv' /\ OpenedInv'
      /\ \A m \in DOMAIN issues : m # newest(p, issues) => issues'[m] = issues[m]
      /\ \A q \in Packages : q # p => newest(q, issues') = newest(q, issues)
  BY <1>1, <1>2, <1>3, <1>5, TurnKeeps
<1>7. Creates(p, tag, ids, k) \/ Edits(p, tag, ids, k) \/ Reopens(p, tag, ids, k) \/ Closes(p, tag, ids, k)
  BY <1>2, <1>3, <1>5, Turn
<1>8. /\ todo'[k] = Tail(todo[k]) /\ \A j \in Places : j # k => todo'[j] = todo[j]
      /\ Tail(todo[k]) \in Seq(Actions)
  BY <1>1, <1>2, HeadTailProperties DEF TypeOK
<1>9. TypeOK'
  BY <1>1, <1>6, <1>8 DEF TypeOK
<1>10. ASSUME NEW q \in Packages PROVE LeftFor(q, tag, tsv[q])'
  <2>1. Quiet' = Quiet /\ Undisturbed' = Undisturbed /\ tsv' = tsv
    BY <1>1 DEF Quiet, Undisturbed
  <2>2. LastPackage \in Nat /\ p \in 1..LastPackage /\ q \in 1..LastPackage
        /\ {p, q, p + LastPackage, q + LastPackage} \subseteq Places
    BY IssuesAssumption DEF Packages, Places
  <2>3. CASE q # p
    <3>1. todo'[q] = todo[q] /\ todo'[q + LastPackage] = todo[q + LastPackage]
      BY <1>3, <1>8, <2>2, <2>3
    <3>2. newest(q, issues) # 0 => issues'[newest(q, issues)] = issues[newest(q, issues)]
      <4>1. ASSUME newest(q, issues) # 0, newest(p, issues) # 0 PROVE newest(q, issues) # newest(p, issues)
        BY <2>3, <4>1, IssueOf
      <4> QED
        BY <1>6, <4>1, IssueOf
    <3>3. LeftFor(q, tag, tsv[q]) /\ newest(q, issues') = newest(q, issues)
      BY <1>4, <1>6, <2>3
    <3>4. \A i : LeftFor(q, tag, i) => LeftFor(q, tag, i)'
      BY <2>1, <3>1, <3>2, <3>3, LeftStays
    <3> QED
      BY <2>1, <3>3, <3>4
  <2>4. CASE q = p
    <3>1. CASE Creates(p, tag, ids, k)
      <4>1. Fresh(p, tag, ids) \in Issue /\ Fresh(p, tag, ids).title = p /\ Fresh(p, tag, ids).state = "OPEN"
            /\ Fresh(p, tag, ids).release = tag /\ Fresh(p, tag, ids).ids = ids
        <5>1. tag \in 0..MaxRelease
          BY IssuesAssumption
        <5> QED
          BY <1>5, <5>1 DEF Fresh, Issue, Titles
      <4>2. newest(p, issues') # 0 /\ issues'[newest(p, issues')] = Fresh(p, tag, ids) /\ ids # {}
        BY <1>1, <3>1, <4>1, Appended DEF Creates
      <4>3. Says(p, tag, tsv[p])'
        BY <2>1, <4>1, <4>2 DEF Says, Has, Of
      <4>4. todo'[p] = <<>> /\ todo'[p + LastPackage] = <<>>
        BY <1>8, <2>2, <3>1 DEF Creates
      <4> QED
        BY <2>4, <4>3, <4>4 DEF LeftFor
    <3>2. n # 0 => n \in DOMAIN issues /\ issues[n] \in Issue
      BY IssueOf
    <3> HIDE DEF n
    <3>3. ASSUME n # 0, NEW i \in Issue, i.title = issues[n].title, issues' = [issues EXCEPT ![n] = i]
          PROVE  newest(p, issues') = n /\ issues'[n] = i
      <4>1. n \in DOMAIN issues /\ issues \in Seq(Issue)
        BY <3>2, <3>3 DEF TypeOK
      <4>2. issues'[n] = i /\ newest(p, issues') = newest(p, issues)
        BY <3>3, <4>1, SameNewest
      <4> QED
        BY <4>2 DEF n
    <3>4. CASE Edits(p, tag, ids, k)
      <4>1. /\ n # 0 /\ ids # {} /\ (Undisturbed => issues[n].state = "OPEN")
            /\ issues' = [issues EXCEPT ![n] = Edited(issues[n], tag, ids)]
        BY <1>1, <3>4 DEF Edits, n
      <4>2. /\ Edited(issues[n], tag, ids) \in Issue /\ Edited(issues[n], tag, ids).title = issues[n].title
        BY <1>5, <3>2, <4>1, IssueTypes
      <4>3. newest(p, issues') = n /\ issues'[n] = Edited(issues[n], tag, ids)
        BY <3>3, <4>1, <4>2
      <4>4. /\ issues'[n].state = issues[n].state /\ issues'[n].release = tag /\ issues'[n].ids = ids
        BY <3>2, <4>1, <4>3 DEF Edited, Issue
      <4>5. Quiet' => Says(p, tag, tsv[p])'
        BY <2>1, <4>1, <4>3, <4>4 DEF Says, Has, Of, Undisturbed
      <4>6. todo'[p] = <<>> /\ todo'[p + LastPackage] = <<>>
        BY <1>8, <2>2, <3>4 DEF Edits
      <4> QED
        BY <2>4, <4>5, <4>6 DEF LeftFor
    <3>5. CASE Reopens(p, tag, ids, k)
      <4>1. n # 0 /\ ids # {} /\ \E unlisted \in SUBSET Ids : issues' = [issues EXCEPT ![n] = Reopened(issues[n], unlisted)]
        BY <1>1, <3>5 DEF Reopens, n
      <4>2. PICK unlisted \in SUBSET Ids : issues' = [issues EXCEPT ![n] = Reopened(issues[n], unlisted)]
        BY <4>1
      <4>3. Reopened(issues[n], unlisted) \in Issue /\ Reopened(issues[n], unlisted).title = issues[n].title
        BY <3>2, <4>1, IssueTypes
      <4>4. newest(p, issues') = n /\ issues'[n] = Reopened(issues[n], unlisted)
        BY <3>3, <4>1, <4>2, <4>3
      <4>5. issues'[n].state = "OPEN"
        BY <3>2, <4>1, <4>4 DEF Reopened, Issue
      <4>6. todo'[p] = <<Action("edit", n, p, tag, ids)>> /\ todo'[p + LastPackage] = <<>>
        <5>1. k = p /\ Tail(todo[k]) = <<Action("edit", n, p, tag, ids)>> /\ todo[p + LastPackage] = <<>>
          BY <3>5 DEF Reopens, n
        <5>2. p + LastPackage # k
          BY <2>2, <5>1
        <5>3. todo'[p] = <<Action("edit", n, p, tag, ids)>>
          BY <1>8, <5>1, Zenon
        <5> QED
          BY <1>8, <2>2, <5>1, <5>2, <5>3
      <4> QED
        BY <2>1, <2>4, <4>1, <4>4, <4>5, <4>6 DEF LeftFor
    <3>6. CASE Closes(p, tag, ids, k)
      <4>1. n # 0 /\ ids = {} /\ issues' = [issues EXCEPT ![n] = Closed(issues[n])]
        BY <1>1, <3>6 DEF Closes, n
      <4>2. Closed(issues[n]) \in Issue /\ Closed(issues[n]).title = issues[n].title
        BY <3>2, <4>1, IssueTypes
      <4>3. newest(p, issues') = n /\ issues'[n] = Closed(issues[n])
        BY <3>3, <4>1, <4>2
      <4>4. issues'[n].state = "CLOSED"
        <5>1. issues[n] \in Issue /\ issues[n].state \in {"OPEN", "CLOSED"}
          BY <3>2, <4>1 DEF Issue
        <5>2. Closed(issues[n]).state = "CLOSED"
          BY <5>1 DEF Closed, Issue
        <5> QED
          BY <4>3, <5>2
      <4>5. Says(p, tag, tsv[p])'
        BY <2>1, <4>1, <4>3, <4>4 DEF Says, Has, Of
      <4>6. todo'[p] = <<>> /\ todo'[p + LastPackage] = <<>>
        BY <1>8, <2>2, <3>6 DEF Closes
      <4> QED
        BY <2>4, <4>5, <4>6 DEF LeftFor
    <3> QED
      BY <1>7, <3>1, <3>4, <3>5, <3>6
  <2> QED
    BY <2>3, <2>4
<1>11. PlanInv'
  <2>1. pc' = "act" /\ (Quiet => tag = release)'
    BY <1>1, <1>4 DEF Quiet
  <2> QED
    BY <1>10, <2>1 DEF PlanInv
<1>12. ScanInv'
  <2>1. settled # "done"
    BY <1>2 DEF ScanInv, Nothing
  <2> QED
    BY <1>1, <2>1 DEF ScanInv, Quiet
<1> QED
  BY <1>6, <1>9, <1>11, <1>12

\* A call that fails: with its effect or without, nothing of the plan is left.
LEMMA ActFailsStep == ASSUME IssuesInv, ActFails PROVE IssuesInv'
<1> USE DEF IssuesInv
<1>1. /\ pc = "act" /\ Left # {} /\ issues' \in {issues, Effect(Head(todo[First]))}
      /\ pc' = "scan" /\ todo' = Nothing /\ tsv' = Empty /\ UNCHANGED <<release, found, settled>>
  BY DEF ActFails, Stop
<1>2. First \in Places /\ todo[First] # <<>>
  BY <1>1, FirstIs
<1>3. issues' \in Seq(Issue) /\ AnsweredInv' /\ OpenedInv'
  <2>1. CASE issues' = issues
    BY <2>1 DEF TypeOK, AnsweredInv, OpenedInv
  <2>2. CASE issues' = Effect(Head(todo[First]))
    <3> DEFINE k == First
    <3>1. PICK p \in Packages : k \in {p, p + LastPackage}
      BY <1>2, PlaceOf
    <3>2. PICK tag \in 1..MaxRelease : \A q \in Packages : LeftFor(q, tag, tsv[q])
      BY <1>1 DEF PlanInv
    <3>3. tsv[p] \in SUBSET Ids /\ LeftFor(p, tag, tsv[p])
      BY <3>2 DEF TypeOK
    <3>4. todo[k] # <<>> /\ issues' = Effect(Head(todo[k]))
      BY <1>2, <2>2
    <3> HIDE DEF k
    <3> QED
      BY <3>1, <3>3, <3>4, TurnKeeps
  <2> QED
    BY <1>1, <2>1, <2>2
<1>4. Nothing \in [Places -> Seq(Actions)] /\ Empty \in [Packages -> SUBSET Ids]
  BY DEF Nothing, Empty
<1>5. TypeOK'
  BY <1>1, <1>3, <1>4 DEF TypeOK
<1>6. PlanInv'
  BY <1>1 DEF PlanInv
<1>7. ScanInv'
  <2>1. settled # "done"
    BY <1>2 DEF ScanInv, Nothing
  <2> QED
    BY <1>1, <2>1 DEF ScanInv, Quiet
<1> QED
  BY <1>3, <1>5, <1>6, <1>7

\* A job that ends without a call, well or not.
LEMMA StopStep == ASSUME IssuesInv, Finish \/ GiveUp PROVE IssuesInv'
<1> USE DEF IssuesInv
<1>1. /\ pc' = "scan" /\ todo' = Nothing /\ tsv' = Empty /\ UNCHANGED <<release, found, issues>>
      /\ settled' \in {settled, "done"} /\ settled' \in {"changed", "scanned", "done"}
      /\ settled' # settled => settled = "scanned" /\ pc = "act" /\ Left = {}
  BY DEF Finish, GiveUp, Stop, TypeOK
<1>2. Nothing \in [Places -> Seq(Actions)] /\ Empty \in [Packages -> SUBSET Ids]
  BY DEF Nothing, Empty
<1>3. TypeOK'
  BY <1>1, <1>2 DEF TypeOK
<1>4. PlanInv' /\ AnsweredInv' /\ OpenedInv'
  BY <1>1 DEF PlanInv, AnsweredInv, OpenedInv
<1>5. ScanInv'
  <2>1. ASSUME settled' = "done" PROVE Reported
    <3>1. CASE settled = "done"
      BY <3>1 DEF ScanInv
    <3>2. CASE settled # "done"
      <4>1. settled = "scanned" /\ pc = "act" /\ Left = {} /\ tsv = found /\ Quiet
        BY <1>1, <2>1, <3>2 DEF ScanInv, Quiet
      <4>2. PICK tag \in 1..MaxRelease : tag = release /\ \A p \in Packages : LeftFor(p, tag, tsv[p])
        BY <4>1 DEF PlanInv
      <4>3. ASSUME NEW p \in Packages PROVE Says(p, release, found[p])
        <5>1. p \in Places /\ p + LastPackage \in Places
          BY IssuesAssumption DEF Packages, Places
        <5>2. todo[p] = <<>> /\ todo[p + LastPackage] = <<>>
          BY <4>1, <5>1 DEF Left
        <5>3. LeftFor(p, release, found[p])
          BY <4>1, <4>2
        <5>4. \A x, y : <<>> # <<x>> /\ <<>> # <<x, y>>
          BY OneAndTwo
        <5> QED
          BY <4>1, <5>2, <5>3, <5>4 DEF LeftFor, Reopen
      <4> QED
        BY <4>3 DEF Reported
    <3> QED
      BY <3>1, <3>2
  <2>2. Reported => Reported'
    BY <1>1 DEF Reported, Says, Has, Of
  <2> QED
    BY <1>1, <2>1, <2>2 DEF ScanInv
<1> QED
  BY <1>3, <1>4, <1>5

LEMMA ScanStep == ASSUME IssuesInv, Scan PROVE IssuesInv'
<1> USE DEF IssuesInv
<1>1. /\ pc = "scan" /\ pc' = "list" /\ tsv' = found /\ UNCHANGED <<release, found, issues, todo>>
      /\ settled' = (IF settled = "changed" THEN "scanned" ELSE settled)
  BY DEF Scan
<1>2. TypeOK'
  BY <1>1 DEF TypeOK
<1>3. PlanInv' /\ AnsweredInv' /\ OpenedInv'
  BY <1>1 DEF PlanInv, AnsweredInv, OpenedInv
<1>4. ScanInv'
  <2>1. Reported => Reported'
    BY <1>1 DEF Reported, Says, Has, Of
  <2> QED
    BY <1>1, <2>1 DEF ScanInv
<1> QED
  BY <1>2, <1>3, <1>4

\* OSV or a release changes what is found.
LEMMA FoundStep ==
    ASSUME IssuesInv, Change, UNCHANGED issues, release' \in 1..MaxRelease, found' \in [Packages -> SUBSET Ids]
    PROVE  IssuesInv'
<1> USE DEF IssuesInv
<1>1. settled' = "changed" /\ UNCHANGED <<issues, pc, tsv, todo>>
  BY DEF Change
<1>2. TypeOK'
  BY <1>1 DEF TypeOK
<1>3. AnsweredInv' /\ OpenedInv' /\ ScanInv'
  BY <1>1 DEF AnsweredInv, OpenedInv, ScanInv, Quiet
<1>4. PlanInv'
  <2>1. CASE pc # "act"
    BY <1>1, <2>1 DEF PlanInv
  <2>2. CASE pc = "act"
    <3>1. PICK tag \in 1..MaxRelease : \A p \in Packages : LeftFor(p, tag, tsv[p])
      BY <2>2 DEF PlanInv
    <3>2. ~ Quiet' /\ (Undisturbed' => Undisturbed)
      BY <1>1 DEF Quiet, Undisturbed
    <3>3. ASSUME NEW p \in Packages PROVE LeftFor(p, tag, tsv[p])'
      <4>1. \A i : LeftFor(p, tag, i) => LeftFor(p, tag, i)'
        BY <1>1, <3>2, LeftStays
      <4> QED
        BY <1>1, <3>1, <4>1
    <3> QED
      BY <1>1, <2>2, <3>2, <3>3 DEF PlanInv
  <2> QED
    BY <2>1, <2>2
<1> QED
  BY <1>2, <1>3, <1>4

\* Someone closes or reopens an issue.
LEMMA AnswerStep == ASSUME IssuesInv, NEW n \in DOMAIN issues, Answer(n) PROVE IssuesInv'
<1> USE DEF IssuesInv
<1> DEFINE i == IF issues[n].state = "OPEN" THEN Closed(issues[n]) ELSE Reopened(issues[n], {})
<1>1. /\ settled' = "changed" /\ UNCHANGED <<release, found, pc, tsv, todo>>
      /\ PeopleDuringRuns \/ pc = "scan"
  BY DEF Answer, Change
<1>2. issues' = [issues EXCEPT ![n] = i]
  BY DEF Answer
<1>3. issues[n] \in Issue
  BY ElementOfSeq DEF TypeOK
<1>4. i \in Issue /\ i.title = issues[n].title /\ (i.state = "CLOSED" => i.ids \subseteq i.answered)
  BY <1>3 DEF Closed, Reopened, Issue
<1> HIDE DEF i
<1>5. /\ issues' \in Seq(Issue) /\ AnsweredInv' /\ OpenedInv'
      /\ \A t : newest(t, issues') = newest(t, issues)
  BY <1>2, <1>4, Touched
<1>6. TypeOK'
  BY <1>1, <1>5 DEF TypeOK
<1>7. ScanInv'
  BY <1>1 DEF ScanInv, Quiet
<1>8. PlanInv'
  <2>1. CASE pc # "act"
    BY <1>1, <2>1 DEF PlanInv
  <2>2. CASE pc = "act"
    <3>1. PICK tag \in 1..MaxRelease : \A p \in Packages : LeftFor(p, tag, tsv[p])
      BY <2>2 DEF PlanInv
    <3>2. ~ Quiet' /\ ~ Undisturbed'
      BY <1>1, <2>2 DEF Quiet, Undisturbed
    <3>3. ASSUME NEW p \in Packages PROVE LeftFor(p, tag, tsv[p])'
      <4>1. \A ids : LeftFor(p, tag, ids) => LeftFor(p, tag, ids)'
        BY <1>1, <1>5, <3>2, LeftStays
      <4> QED
        BY <1>1, <3>1, <4>1
    <3> QED
      BY <1>1, <2>2, <3>2, <3>3 DEF PlanInv
  <2> QED
    BY <2>1, <2>2
<1> QED
  BY <1>5, <1>6, <1>7, <1>8

-----------------------------------------------------------------------------
(* Theorems.                                                                *)

\* At every step of a job what is left to do for a package fits its issue as it is by now,
\* and what a job that ended well reported stays reported until something changes.
THEOREM IssuesInductive == Spec => []IssuesInv
<1>1. Init => IssuesInv
  <2> SUFFICES ASSUME Init PROVE IssuesInv
    OBVIOUS
  <2> USE DEF Init
  <2>1. TypeOK
    BY IssuesAssumption DEF TypeOK, Nothing, Empty
  <2>2. PlanInv /\ ScanInv
    BY DEF PlanInv, ScanInv, Quiet
  <2>3. AnsweredInv
    BY IssuesAssumption DEF AnsweredInv
  <2>4. OpenedInv
    <3>1. issues \in History /\ Len(issues) \in Nat /\ \A p : Numbers(p, issues) \subseteq 1..Len(issues)
      BY <2>1, NewestIs, LenProperties DEF TypeOK
    <3> QED
      BY <3>1 DEF OpenedInv
  <2> QED
    BY <2>1, <2>2, <2>3, <2>4 DEF IssuesInv
<1>2. IssuesInv /\ [Next]_vars => IssuesInv'
  <2> SUFFICES ASSUME IssuesInv, [Next]_vars PROVE IssuesInv'
    OBVIOUS
  <2>1. CASE Scan
    BY <2>1, ScanStep
  <2>2. CASE List
    BY <2>2, ListStep
  <2>3. CASE Act
    BY <2>3, ActStep
  <2>4. CASE ActFails
    BY <2>4, ActFailsStep
  <2>5. CASE Finish \/ GiveUp
    BY <2>5, StopStep
  <2>6. ASSUME NEW p \in Packages, NEW id \in Ids, Publish(p, id) PROVE IssuesInv'
    <3>1. found' \in [Packages -> SUBSET Ids] /\ release' \in 1..MaxRelease
      BY <2>6 DEF Publish, IssuesInv, TypeOK
    <3> QED
      BY <2>6, <3>1, FoundStep DEF Publish
  <2>7. ASSUME NEW findings \in [Packages -> SUBSET Ids], Release(findings) PROVE IssuesInv'
    <3>1. found' \in [Packages -> SUBSET Ids] /\ release' \in 1..MaxRelease
      BY <2>7, IssuesAssumption DEF Release, IssuesInv, TypeOK
    <3> QED
      BY <2>7, <3>1, FoundStep DEF Release
  <2>8. ASSUME NEW n \in DOMAIN issues, Answer(n) PROVE IssuesInv'
    BY <2>8, AnswerStep
  <2>9. CASE UNCHANGED vars
    <3>1. UNCHANGED <<release, found, issues, pc, tsv, todo, settled>>
      BY <2>9 DEF vars
    <3>2. \A p, tag, ids : Says(p, tag, ids)' = Says(p, tag, ids)
      BY <3>1 DEF Says, Has, Of
    <3>3. Quiet' = Quiet /\ Undisturbed' = Undisturbed
      BY <3>1 DEF Quiet, Undisturbed
    <3>4. \A p, tag, ids : LeftFor(p, tag, ids)' = LeftFor(p, tag, ids)
      BY <3>1, <3>2, <3>3 DEF LeftFor
    <3>5. PlanInv'
      BY <3>1, <3>3, <3>4 DEF IssuesInv, PlanInv
    <3>6. ScanInv'
      BY <3>1, <3>2, <3>3 DEF IssuesInv, ScanInv, Reported
    <3> QED
      BY <3>1, <3>5, <3>6 DEF IssuesInv, TypeOK, AnsweredInv, OpenedInv
  <2> QED
    BY <2>1, <2>2, <2>3, <2>4, <2>5, <2>6, <2>7, <2>8, <2>9 DEF Next
<1> QED
  BY <1>1, <1>2, PTL DEF Spec

\* No finding gets onto a closed issue unseen, however jobs fail and start over, so long as
\* people answer between jobs.
THEOREM NothingIsLost ==
    ASSUME ~ PeopleDuringRuns
    PROVE  Spec => []NothingLost
<1>1. IssuesInv => NothingLost
  <2> SUFFICES ASSUME IssuesInv, NEW p \in Packages, Has(p), Of(p).state = "CLOSED"
               PROVE  Of(p).ids \subseteq Of(p).answered
    BY DEF NothingLost
  <2>1. newest(p, issues) \in DOMAIN issues
    BY IssueOf DEF IssuesInv, Has
  <2> QED
    BY <2>1 DEF IssuesInv, AnsweredInv, Of
<1> QED
  BY <1>1, IssuesInductive, PTL

\* No package is given a second issue, also by jobs whose create took effect and reported a
\* failure, and whoever answers when.
THEOREM OneIssueEach == Spec => []OneIssue
<1>1. IssuesInv => OneIssue
  <2> SUFFICES ASSUME IssuesInv PROVE OneIssue
    OBVIOUS
  <2>1. PICK h \in History :
          /\ Len(h) <= Len(issues) /\ \A m \in 1..Len(h) : issues[m].title = h[m].title
          /\ \A p \in Packages : \A l, m \in Numbers(p, issues) : m > Len(h) => l = m
    BY DEF IssuesInv, OpenedInv
  <2>2. /\ Len(h) \in Nat /\ DOMAIN h = 1..Len(h) /\ Len(issues) \in Nat /\ DOMAIN issues = 1..Len(issues)
    BY IssuesAssumption, LenProperties DEF IssuesInv, TypeOK
  <2>3. ASSUME NEW p \in Packages
        PROVE  LET opened == {n \in Numbers(p, issues) : n > Len(h)} IN
               /\ \A m, n \in opened : m = n
               /\ Numbers(p, h) # {} => opened = {}
    <3>1. \A m \in Numbers(p, h) : m \in Numbers(p, issues) /\ m <= Len(h)
      BY <2>1, <2>2 DEF Numbers
    <3>2. \A m \in Numbers(p, issues) : m \in Nat
      BY <2>2 DEF Numbers
    <3> QED
      BY <2>1, <2>2, <3>1, <3>2
  <2> QED
    BY <2>1, <2>3 DEF OneIssue
<1> QED
  BY <1>1, IssuesInductive, PTL

\* A job that ends well has brought the issues to what it scanned, and the next has nothing
\* to do.
THEOREM DoneReports == Spec => []DoneIsReported
<1>1. IssuesInv => DoneIsReported
  <2> SUFFICES ASSUME IssuesInv, settled = "done" PROVE Reported /\ plan(release, found, issues) = Nothing
    BY DEF DoneIsReported
  <2>1. Reported /\ TypeOK
    BY DEF IssuesInv, ScanInv
  <2>2. ASSUME NEW p \in Packages
        PROVE  bring(p, release, found[p], issues) = <<>> /\ drop(p, release, found[p], issues) = <<>>
    <3>1. Says(p, release, found[p]) /\ found[p] \in SUBSET Ids /\ release \in 1..MaxRelease
      BY <2>1 DEF Reported, TypeOK
    <3> QED
      BY <2>1, <3>1, Planned
  <2>3. ASSUME NEW k \in Places
        PROVE  (IF k <= LastPackage THEN bring(k, release, found[k], issues)
                ELSE drop(k - LastPackage, release, found[k - LastPackage], issues)) = <<>>
    <3>1. LastPackage \in Nat
      BY IssuesAssumption
    <3>2. IF k <= LastPackage THEN k \in Packages ELSE k - LastPackage \in Packages
      BY <3>1 DEF Packages, Places
    <3> QED
      BY <2>2, <3>2
  <2> QED
    BY <2>1, <2>3 DEF plan, Nothing
<1> QED
  BY <1>1, IssuesInductive, PTL
=============================================================================
