---------------------------- MODULE MemoryProofs ----------------------------
(***************************************************************************)
(* Proofs about Memory, for any device, word width and set of invocations. *)
(***************************************************************************)
EXTENDS Memory, TLAPS

USE MemoryAssumption

\* A block more, or less, on the way to another size of the device is a size of the device.
LEMMA Towards ==
    ASSUME NEW a \in Sizes, NEW b \in Sizes
    PROVE  /\ a < b => a + Block \in Sizes
           /\ a > b => a - Block \in Sizes
  <1>1. PICK m \in 0..MaxBlocks : a = m * Block
    BY DEF Sizes
  <1>2. PICK n \in 0..MaxBlocks : b = n * Block
    BY DEF Sizes
  <1>3. ASSUME a < b PROVE a + Block \in Sizes
    <2>1. m < n
      <3> SUFFICES ASSUME n <= m PROVE FALSE
        OBVIOUS
      <3>1. PICK k \in Nat : m = n + k
        BY SMT
      <3>2. m * Block = n * Block + k * Block /\ k * Block >= 0
        BY <3>1
      <3> QED BY <1>1, <1>2, <1>3, <3>2
    <2>2. m + 1 \in 0..MaxBlocks /\ (m + 1) * Block = a + Block
      BY <1>1, <2>1
    <2> QED BY <2>2 DEF Sizes
  <1>4. ASSUME a > b PROVE a - Block \in Sizes
    <2>1. n < m
      <3> SUFFICES ASSUME m <= n PROVE FALSE
        OBVIOUS
      <3>1. PICK k \in Nat : n = m + k
        BY SMT
      <3>2. n * Block = m * Block + k * Block /\ k * Block >= 0
        BY <3>1
      <3> QED BY <1>1, <1>2, <1>4, <3>2
    <2>2. m - 1 \in 0..MaxBlocks /\ (m - 1) * Block = a - Block
      BY <1>1, <2>1
    <2> QED BY <2>2 DEF Sizes
  <1> QED BY <1>3, <1>4

\* The device holds the request of its last client, and a client that reported success
\* saw it reached.
THEOREM Inductive == Spec => []MemoryInv
  <1>1. Init => MemoryInv
    <2>1. 0 \in Sizes
      <3>1. 0 \in 0..MaxBlocks /\ 0 * Block = 0
        OBVIOUS
      <3> QED BY <3>1 DEF Sizes
    <2> QED BY <2>1 DEF Init, MemoryInv, TypeOK
  <1>2. MemoryInv /\ [Next]_vars => MemoryInv'
    <2> SUFFICES ASSUME MemoryInv, [Next]_vars PROVE MemoryInv'
      OBVIOUS
    <2> USE DEF Go, Ended
    <2>1. ASSUME NEW c \in Clients, Request(c) PROVE MemoryInv'
      BY <2>1 DEF MemoryInv, TypeOK, Request, want
    <2>2. ASSUME NEW c \in Clients, Reached(c) PROVE MemoryInv'
      BY <2>2 DEF MemoryInv, TypeOK, Reached, want
    <2>3. ASSUME NEW c \in Clients, Deadline(c) \/ ReadError(c) \/ Kill(c) PROVE MemoryInv'
      BY <2>3 DEF MemoryInv, TypeOK, Deadline, ReadError, Kill, want
    <2>4. CASE Guest
      <3>1. size' \in Sizes
        BY <2>4, Towards DEF Guest, MemoryInv, TypeOK
      <3>2. size # requested /\ UNCHANGED <<sizeMB, pc, requested, vm, last>>
        BY <2>4 DEF Guest, MemoryInv, TypeOK, Sizes
      <3> QED BY <3>1, <3>2 DEF MemoryInv, TypeOK, want
    <2>5. CASE Exit
      BY <2>5 DEF Exit, MemoryInv, TypeOK, want
    <2>6. CASE Terminating \/ UNCHANGED vars
      BY <2>6 DEF Terminating, vars, MemoryInv, TypeOK, want
    <2> QED BY <2>1, <2>2, <2>3, <2>4, <2>5, <2>6 DEF Next
  <1> QED BY <1>1, <1>2, PTL DEF Spec

\* A size that was reported as plugged stays plugged until the next request, for any
\* number of invocations that ask the device at once.
THEOREM ReachedSizesStay == Spec => []ReachedStays
  <1>1. MemoryInv => ReachedStays
    BY DEF MemoryInv, ReachedStays
  <1> QED BY <1>1, Inductive, PTL
=============================================================================
