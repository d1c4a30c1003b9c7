----------------------------- MODULE MCHotplug -----------------------------
(* Hotplug on small instances.  Clients are numbers and monitors m1 and m2:  *)
(* of the command lines that differ by a permutation of clients or monitors, *)
(* one is kept.                                                              *)
EXTENDS Hotplug

CONSTANTS m1, m2

\* A rank for every command line; clients are started in its order.
Rank(a) == (IF a.op = "attach" THEN 0 ELSE 1) + (IF a.monitor = m1 THEN 0 ELSE 2) + 4 * a.target

MCStarted == {f \in [Clients -> Args] :
    /\ f[1].monitor = m1
    /\ \A c, d \in Clients : c < d => Rank(f[c]) <= Rank(f[d])}
=============================================================================
