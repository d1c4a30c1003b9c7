------------------------------- MODULE Issues -------------------------------
(***************************************************************************)
(* The issues kept for what OSV knows against the newest release: the job  *)
(* of osv.yml scans the release (task osv) and then brings one issue per   *)
(* package to what was found (hack/osvissues/main.go), one gh call after   *)
(* another.  A job may be killed between two calls, a call may fail, or    *)
(* take effect and report a failure; the next job starts over.             *)
(*                                                                         *)
(* A body is the release and the findings it lists.  Packages are numbered *)
(* in the order of their names; the jobs run one at a time (osv.yml's      *)
(* concurrency group).  GitHub, OSV and the people are external.           *)
(***************************************************************************)
EXTENDS Naturals, Sequences

CONSTANTS LastPackage,     \* packages are 1..LastPackage
          Ids,             \* findings
          History,         \* the issues there may be at the start, a set of sequences
          MaxRelease,      \* bound: releases
          MaxChanges,      \* bound: what OSV, the releases and people change
          PeopleDuringRuns \* whether people close and reopen issues while a job runs

Packages == 1..LastPackage

\* Title 0 is any that is not "osv: " and one word: no package's.
Titles == {0} \cup Packages
Issue == [title : Titles, state : {"OPEN", "CLOSED"}, release : 0..MaxRelease, ids : SUBSET Ids,
          told : SUBSET Ids, answered : SUBSET Ids]

ASSUME IssuesAssumption ==
    /\ {LastPackage, MaxChanges} \subseteq Nat /\ MaxRelease \in Nat \ {0}
    /\ PeopleDuringRuns \in BOOLEAN
    /\ \A h \in History : h \in Seq(Issue)
    \* Those who closed an issue before the first job had seen what it lists.
    /\ \A h \in History : \A n \in DOMAIN h : h[n].state = "CLOSED" => h[n].ids \subseteq h[n].answered

VARIABLES
    release, \* the newest release
    found,   \* found[p]: what OSV has against package p of it
    issues,  \* the issues, by number, with what comments told of, and what was listed or told
             \* when one was last closed
    pc,      \* what the job does next
    tsv,     \* the findings it scanned (_output/osv.tsv)
    todo,    \* the actions it has left: todo[k] for k's issue, and closes last (see plan)
    settled, \* "changed": by OSV, a release or a person since a job last scanned;
             \* "scanned": not since; "done": nor since a job ended well
    changes  \* how often they changed something

vars == <<release, found, issues, pc, tsv, todo, settled, changes>>

Empty == [p \in Packages |-> {}]

\* Places in a plan: a package's, and one to close its issue.
Places == 1..(2 * LastPackage)
Nothing == [k \in Places |-> <<>>]

Init ==
    /\ release = 1
    /\ found = Empty
    /\ issues \in History
    /\ pc = "scan"
    /\ tsv = Empty
    /\ todo = Nothing
    /\ settled = "changed"
    /\ changes = 0

-----------------------------------------------------------------------------
(* plan.                                                                    *)

Action(verb, number, title, tag, ids) ==
    [verb |-> verb, number |-> number, title |-> title, release |-> tag, ids |-> ids]

\* Numbers of the issues with a title, and the newest, which is the title's; 0 is none.
Numbers(title, list) == {n \in DOMAIN list : list[n].title = title}
newest(title, list) == CHOOSE n \in {0} \cup Numbers(title, list) : \A m \in Numbers(title, list) : m <= n

\* Mutants: a reopened issue is rewritten first, or not at all.
RewriteFirst(n, p, tag, ids, unlisted) ==
    <<Action("edit", n, p, tag, ids), Action("reopen", n, p, tag, unlisted)>>
ReopenOnly(n, p, tag, ids, unlisted) == <<Action("reopen", n, p, tag, unlisted)>>

\* An issue is reopened, with a comment on what does it, before its body lists that.
Reopen(n, p, tag, ids, unlisted) ==
    <<Action("reopen", n, p, tag, unlisted), Action("edit", n, p, tag, ids)>>

\* What brings p's issue to its findings ids in the release tag.
bring(p, tag, ids, list) ==
    LET n == newest(p, list) IN
    IF ids = {} THEN <<>>
    ELSE IF n = 0 THEN <<Action("create", 0, p, tag, ids)>>
    ELSE IF list[n].state = "OPEN"
         THEN IF list[n].release = tag /\ list[n].ids = ids THEN <<>> ELSE <<Action("edit", n, p, tag, ids)>>
    ELSE IF ids \subseteq list[n].ids THEN <<>> ELSE Reopen(n, p, tag, ids, ids \ list[n].ids)

\* Mutant: a package without findings keeps its issue.
keep(p, tag, ids, list) == <<>>

\* Closes p's open issue once p has none.
drop(p, tag, ids, list) ==
    LET n == newest(p, list) IN
    IF ids = {} /\ n # 0 /\ list[n].state = "OPEN" THEN <<Action("close", n, p, tag, {})>> ELSE <<>>

\* The actions in order: what each package needs, by name, and then the issues to close.
plan(tag, findings, list) == [k \in Places |->
    IF k <= LastPackage THEN bring(k, tag, findings[k], list)
    ELSE drop(k - LastPackage, tag, findings[k - LastPackage], list)]

Left == {k \in Places : todo[k] # <<>>}
First == CHOOSE k \in Left : \A j \in Left : k <= j

-----------------------------------------------------------------------------
(* The job.                                                                 *)

\* task osv: the newest release, its SBOM, and what OSV has against it.
Scan ==
    /\ pc = "scan"
    /\ tsv' = found
    /\ pc' = "list"
    /\ settled' = IF settled = "changed" THEN "scanned" ELSE settled
    /\ UNCHANGED <<release, found, issues, todo, changes>>

\* Mutant: gh's default, the open issues.
listingOpen == [n \in DOMAIN issues |->
    IF issues[n].state = "OPEN" THEN issues[n] ELSE [issues[n] EXCEPT !.title = 0]]

\* Every issue, whatever its state.
listing == issues

\* task osv:issues: the newest release by now, the findings read back, the issues, the plan.
List ==
    /\ pc = "list"
    /\ todo' = plan(release, tsv, listing)
    /\ pc' = "act"
    /\ UNCHANGED <<release, found, issues, tsv, settled, changes>>

\* Issues as gh leaves them (external): an open one is not reopened, nor a closed one closed.
Fresh(title, tag, ids) ==
    [title |-> title, state |-> "OPEN", release |-> tag, ids |-> ids, told |-> {}, answered |-> {}]
Edited(i, tag, ids) == [i EXCEPT !.release = tag, !.ids = ids]
Reopened(i, ids) == IF i.state = "OPEN" THEN i ELSE [i EXCEPT !.state = "OPEN", !.told = @ \cup ids]
Closed(i) == IF i.state = "OPEN" THEN [i EXCEPT !.state = "CLOSED", !.answered = i.ids \cup i.told] ELSE i

Effect(a) ==
    CASE a.verb = "create" -> Append(issues, Fresh(a.title, a.release, a.ids))
      [] a.verb = "edit"   -> [issues EXCEPT ![a.number] = Edited(@, a.release, a.ids)]
      [] a.verb = "reopen" -> [issues EXCEPT ![a.number] = Reopened(@, a.ids)]
      [] a.verb = "close"  -> [issues EXCEPT ![a.number] = Closed(@)]

Stop == pc' = "scan" /\ todo' = Nothing /\ tsv' = Empty

\* The next call of the plan, done.
Act ==
    /\ pc = "act" /\ Left # {}
    /\ issues' = Effect(Head(todo[First]))
    /\ todo' = [todo EXCEPT ![First] = Tail(@)]
    /\ UNCHANGED <<release, found, pc, tsv, settled, changes>>

\* The call reports a failure, whether or not it took effect, and the job ends with it.
ActFails ==
    /\ pc = "act" /\ Left # {}
    /\ issues' \in {issues, Effect(Head(todo[First]))}
    /\ Stop
    /\ UNCHANGED <<release, found, settled, changes>>

\* Every action was taken.
Finish ==
    /\ pc = "act" /\ Left = {}
    /\ Stop
    /\ settled' = IF settled = "scanned" THEN "done" ELSE settled
    /\ UNCHANGED <<release, found, issues, changes>>

\* The scan or the listing fails, the findings cannot be read, or the job is out of time.
GiveUp == pc # "scan" /\ Stop /\ UNCHANGED <<release, found, issues, settled, changes>>

-----------------------------------------------------------------------------
(* OSV, releases and people (external).                                     *)

Change ==
    /\ changes < MaxChanges
    /\ changes' = changes + 1
    /\ settled' = "changed"
    /\ UNCHANGED <<pc, tsv, todo>>

\* A vulnerability is published or withdrawn.
Publish(p, id) ==
    /\ Change
    /\ found' = [found EXCEPT ![p] = IF id \in @ THEN @ \ {id} ELSE @ \cup {id}]
    /\ UNCHANGED <<release, issues>>

\* A release with other versions of its packages.
Release(findings) ==
    /\ Change
    /\ release < MaxRelease
    /\ release' = release + 1
    /\ found' = findings
    /\ UNCHANGED issues

\* Someone closes an issue, or reopens it.
Answer(n) ==
    /\ Change
    /\ PeopleDuringRuns \/ pc = "scan"
    /\ issues' = [issues EXCEPT ![n] = IF @.state = "OPEN" THEN Closed(@) ELSE Reopened(@, {})]
    /\ UNCHANGED <<release, found>>

Next ==
    \/ Scan \/ List \/ Act \/ ActFails \/ Finish \/ GiveUp
    \/ \E p \in Packages, id \in Ids : Publish(p, id)
    \/ \E findings \in [Packages -> SUBSET Ids] : Release(findings)
    \/ \E n \in DOMAIN issues : Answer(n)

\* A job is run every day, is given its turn, and sooner or later gets a call through.
Fairness == WF_vars(Scan) /\ WF_vars(Finish) /\ SF_vars(List) /\ SF_vars(Act)

Spec == Init /\ [][Next]_vars
FairSpec == Spec /\ Fairness

-----------------------------------------------------------------------------
(* Properties.                                                              *)

\* p's issue, if it has one, and what it says.
Has(p) == newest(p, issues) # 0
Of(p) == issues[newest(p, issues)]

\* "A closed issue is an answer and stays closed while its package has only the findings it
\* listed.  A finding it did not list reopens it": no finding gets onto a closed issue
\* without having been on it, or in a comment, when it was closed, where nobody would be shown it.
NothingLost == \A p \in Packages : Has(p) /\ Of(p).state = "CLOSED" => Of(p).ids \subseteq Of(p).answered

\* A package is never given a second issue, also by a job that takes up what a failed one
\* left, or whose create took effect and reported a failure.
OneIssue == \E h \in History : Len(h) <= Len(issues) /\ \A p \in Packages :
    LET opened == {n \in Numbers(p, issues) : n > Len(h)} IN
    /\ \A m, n \in opened : m = n
    /\ Numbers(p, h) # {} => opened = {}

\* What the issues of the packages say is what OSV has against the release: listed on an
\* open issue, or all of it answered.
Says(p, tag, ids) ==
    IF ids = {} THEN Has(p) => Of(p).state = "CLOSED"
    ELSE Has(p) /\ IF Of(p).state = "OPEN" THEN Of(p).release = tag /\ Of(p).ids = ids
                   ELSE ids \subseteq Of(p).ids

Reported == \A p \in Packages : Says(p, release, found[p])

\* A job that ends well has brought the issues to what it scanned, in the order it took its
\* actions and whatever state earlier jobs left, and another one finds nothing to do.
DoneIsReported == settled = "done" => Reported /\ plan(release, found, issues) = Nothing

\* Once OSV, the releases and people rest, the issues come to say what there is, though any
\* job may be killed and any call may fail.
EventuallyReported == <>[]Reported

-----------------------------------------------------------------------------
(* What makes them hold: at every step of a job, what is left to do for a   *)
(* package fits its issue as it is by now.                                  *)

Actions == [verb : {"create", "edit", "reopen", "close"}, number : Nat, title : Packages,
            release : 1..MaxRelease, ids : SUBSET Ids]

TypeOK ==
    /\ release \in 1..MaxRelease
    /\ found \in [Packages -> SUBSET Ids] /\ tsv \in [Packages -> SUBSET Ids]
    /\ issues \in Seq(Issue)
    /\ todo \in [Places -> Seq(Actions)]
    /\ pc \in {"scan", "list", "act"}
    /\ settled \in {"changed", "scanned", "done"}

\* Nobody but the job has touched anything since it scanned, or at least no issue.
Quiet == settled # "changed"
Undisturbed == Quiet \/ ~ PeopleDuringRuns

\* What is left for the issue of p, which is to list ids in the release tag.
LeftFor(p, tag, ids) ==
    LET n == newest(p, issues) IN
    \/ /\ todo[p] = <<>> /\ todo[p + LastPackage] = <<>>
       /\ Quiet => Says(p, tag, ids)
    \/ /\ n = 0 /\ ids # {}
       /\ todo[p] = <<Action("create", 0, p, tag, ids)>> /\ todo[p + LastPackage] = <<>>
    \/ /\ n # 0 /\ ids # {} /\ (Undisturbed => issues[n].state = "OPEN")
       /\ todo[p] = <<Action("edit", n, p, tag, ids)>> /\ todo[p + LastPackage] = <<>>
    \/ /\ n # 0 /\ ids # {}
       /\ \E unlisted \in SUBSET Ids : todo[p] = Reopen(n, p, tag, ids, unlisted)
       /\ todo[p + LastPackage] = <<>>
    \/ /\ n # 0 /\ ids = {}
       /\ todo[p] = <<>> /\ todo[p + LastPackage] = <<Action("close", n, p, tag, {})>>

PlanInv ==
    IF pc = "act" THEN \E tag \in 1..MaxRelease : /\ Quiet => tag = release
                                                 /\ \A p \in Packages : LeftFor(p, tag, tsv[p])
    ELSE todo = Nothing

ScanInv ==
    /\ Quiet /\ pc # "scan" => tsv = found
    /\ settled = "done" => Reported /\ todo = Nothing

AnsweredInv == ~ PeopleDuringRuns =>
    \A n \in DOMAIN issues : issues[n].state = "CLOSED" => issues[n].ids \subseteq issues[n].answered

\* Titles stay, and those of h are the first.
OpenedInv == \E h \in History :
    /\ Len(h) <= Len(issues) /\ \A n \in 1..Len(h) : issues[n].title = h[n].title
    /\ \A p \in Packages : \A m, n \in Numbers(p, issues) : n > Len(h) => m = n

IssuesInv == TypeOK /\ PlanInv /\ ScanInv /\ AnsweredInv /\ OpenedInv
=============================================================================
