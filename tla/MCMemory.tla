------------------------------ MODULE MCMemory ------------------------------
(* Memory on small instances: a MiB of 2 bytes, words of 4 bits. *)
EXTENDS Memory, TLC

Symmetry == Permutations(Clients)
=============================================================================
