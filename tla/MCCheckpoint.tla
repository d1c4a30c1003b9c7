--------------------------- MODULE MCCheckpoint ---------------------------
(* Checkpoint on small instances.  Clients are numbers, VMs v1 and v2, files *)
(* f1 and f2: of the command lines that differ by a permutation of clients,  *)
(* VMs or files, few are kept.                                               *)
EXTENDS Checkpoint

CONSTANTS v1, v2, f1, f2

\* A rank for every command line; clients are started in its order.
Rank(a) == (IF a.vm = v1 THEN 0 ELSE 1) + (IF a.file = f1 THEN 0 ELSE 2) + (IF a.op = "save" THEN 0 ELSE 4)

MCStarted == {f \in [Clients -> Args] :
    /\ f[1].vm = v1 /\ f[1].file = f1
    /\ \A c, d \in Clients : c < d => Rank(f[c]) <= Rank(f[d])}
=============================================================================
