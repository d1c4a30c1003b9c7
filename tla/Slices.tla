------------------------------- MODULE Slices -------------------------------
(***************************************************************************)
(* What the reports do with slices: a loop that keeps some of the elements *)
(* and slices.Sort (external), both a turn at a time.                      *)
(***************************************************************************)
EXTENDS Integers, SequencesExt

\* The elements of s that are in S, in their order.
Filter(s, S) ==
    LET kept[n \in 0..Len(s)] == IF n = 0 THEN <<>>
                                 ELSE IF s[n] \in S THEN Append(kept[n - 1], s[n]) ELSE kept[n - 1]
    IN  kept[Len(s)]

\* d behind every number of s that is no larger.
insert(s, d) == InsertAt(s, Cardinality({i \in DOMAIN s : s[i] <= d}) + 1, d)

\* The numbers of s, smallest first.
Sorted(s) ==
    LET sorted[n \in 0..Len(s)] == IF n = 0 THEN <<>> ELSE insert(sorted[n - 1], s[n])
    IN  sorted[Len(s)]
=============================================================================
