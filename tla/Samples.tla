------------------------------ MODULE Samples ------------------------------
(***************************************************************************)
(* What the boots of one row come to: Percentile (boot/phases.go) and      *)
(* Summarise (boot/report.go), as the boots come in.                       *)
(***************************************************************************)
EXTENDS Slices

CONSTANTS Stages,   \* the phases of a boot; it is good if it got to "usable"
          Times,    \* how long a boot may take to get to one, in microseconds
          MaxBoots  \* bound: boots of a row

\* No phase is reached the moment QEMU is started.
ASSUME SamplesAssumption == "usable" \in Stages /\ Times \subseteq Nat \ {0} /\ MaxBoots \in Nat

VARIABLE runs   \* the boots, in the order they came: when each reached each phase, or 0 if it did not

samplesVars == <<runs>>

SamplesInit == runs = <<>>

\* A boot reaches some phases; a guest that does not print a marker is not seen to pass it.
Measure(run) == Len(runs) < MaxBoots /\ runs' = Append(runs, run)

SamplesNext == \E run \in [Stages -> Times \cup {0}] : Measure(run)

SamplesSpec == SamplesInit /\ [][SamplesNext]_samplesVars

Clamp(n, low, high) == IF n < low THEN low ELSE IF n > high THEN high ELSE n

\* Mutant: the other convention, p*(N-1).
rankOther(p, n) == (p[1] * (n - 1)) \div p[2]

\* ceil(p*N)-1, p a fraction: where in the sorted samples it is, from 0.
rank(p, n) == Clamp((p[1] * n + p[2] - 1) \div p[2] - 1, 0, n - 1)

\* The samples themselves stay in the order they came.
Percentile(ds, p) == IF ds = <<>> THEN [d |-> 0, ok |-> FALSE]
                     ELSE [d |-> Sorted(ds)[rank(p, Len(ds)) + 1], ok |-> TRUE]

\* When the boots of rs got to phase p, without those that did not.
Stamps(rs, p) == [i \in DOMAIN rs |-> rs[i][p]]
Reached(rs, p) == Filter(Stamps(rs, p), Times)

Half == <<1, 2>>
Most == <<19, 20>>

\* A duration as a report has it, in hundredths of a millisecond: rounded, a half upwards.
ms(d) == (d + 5) \div 10

\* A phase no boot reached is not in the summary.
Summarise(rs) ==
    [boots  |-> Len(rs),
     failed |-> Cardinality({i \in DOMAIN rs : rs[i]["usable"] = 0}),
     phases |-> [p \in {p \in Stages : Percentile(Reached(rs, p), Half).ok} |->
                    [p50 |-> ms(Percentile(Reached(rs, p), Half).d),
                     p95 |-> ms(Percentile(Reached(rs, p), Most).d), n |-> Len(Reached(rs, p))]]]

-----------------------------------------------------------------------------
(* Properties.                                                              *)

\* d is the p-th percentile by nearest rank of the times in ts: one of them, no shorter than
\* the p-th part of them, and less than that part is shorter.
IsRank(ts, d, p) ==
    LET boots(S) == Cardinality({i \in DOMAIN ts : ts[i] \in S}) IN
    /\ boots({d}) > 0 /\ d \in Times
    /\ boots({t \in Times : t <= d}) * p[2] >= p[1] * boots(Times)
    /\ boots({t \in Times : t < d}) * p[2] < p[1] * boots(Times)

\* Of every phase a boot reached, and of no other, a row has a p50 and a p95, and they are
\* times boots took to it, rounded, by rank over those that reached it - so the slowest of
\* five is their p95, and a boot that failed pulls neither down.  A row has a time to a usable
\* machine exactly if not all of its boots failed.
SummaryIsRank ==
    LET s == Summarise(runs)
        reached(p) == {i \in DOMAIN runs : runs[i][p] # 0}
    IN  /\ DOMAIN s.phases = {p \in Stages : reached(p) # {}}
        /\ \A p \in DOMAIN s.phases :
             /\ s.phases[p].n = Cardinality(reached(p))
             /\ \E d \in Times : s.phases[p].p50 = ms(d) /\ IsRank(Stamps(runs, p), d, Half)
             /\ \E d \in Times : s.phases[p].p95 = ms(d) /\ IsRank(Stamps(runs, p), d, Most)
        /\ "usable" \in DOMAIN s.phases <=> s.failed < s.boots
=============================================================================
