------------------------------- MODULE Memory -------------------------------
(***************************************************************************)
(* `spin-machine memory`: ask the VM's virtio-mem device for a size and    *)
(* wait for the guest to reach it (cmd/spin-machine/main.go).  A client is *)
(* one invocation; several may ask the same device, through one monitor    *)
(* after another or through several at once.                               *)
(*                                                                         *)
(* Sizes are in bytes, in a word of the width of Go's uint64, so that the  *)
(* conversion from the MiB on the command line is the code's.  The device  *)
(* and the guest are external.                                             *)
(***************************************************************************)
EXTENDS Naturals

CONSTANTS Clients,   \* invocations of memory
          Nobody,    \* no client
          Asked,     \* the --size values they may give, in MiB
          MiB,       \* bytes in a MiB (2^20)
          Word,      \* values of a uint64 (2^64)
          Block,     \* the device's block size in bytes
          MaxBlocks  \* the blocks it has (Spec.MaxMemoryMB - Spec.MemoryMB)

ASSUME MemoryAssumption ==
    /\ Nobody \notin Clients
    /\ Asked \subseteq Nat
    /\ MiB \in Nat \ {0} /\ Word \in Nat \ {0} /\ Block \in Nat \ {0} /\ MaxBlocks \in Nat

VARIABLES
    sizeMB,     \* sizeMB[c]: c's --size; fixed when c is started
    pc,         \* pc[c]: what c does next, or how it ended
    requested,  \* the device's requested-size
    size,       \* the device's size: what the guest has plugged
    vm,         \* whether QEMU still runs
    last        \* history: whose qom-set the device took last

vars == <<sizeMB, pc, requested, size, vm, last>>

Sizes == {n * Block : n \in 0..MaxBlocks}
Ended == {"ok", "failed", "killed"}

TypeOK ==
    /\ sizeMB \in [Clients -> Asked]
    /\ pc \in [Clients -> {"qom-set", "qom-get"} \cup Ended]
    /\ requested \in Sizes
    /\ size \in Sizes
    /\ vm \in BOOLEAN
    /\ last \in Clients \cup {Nobody}

Init ==
    /\ sizeMB \in [Clients -> Asked]
    /\ pc = [c \in Clients |-> "qom-set"]
    /\ requested = 0
    /\ size = 0
    /\ vm = TRUE
    /\ last = Nobody

\* uint64(o.sizeMB) << 20: what is beyond the word is shifted out of it.
want(c) == (sizeMB[c] * MiB) % Word

Go(c, where) == pc' = [pc EXCEPT ![c] = where]

\* qom-set requested-size.  The device takes a multiple of its block size up to what it
\* has; the command may also not get through (no device, monitor busy, no answer).
Request(c) ==
    /\ pc[c] = "qom-set"
    /\ \/ /\ vm
          /\ want(c) \in Sizes
          /\ requested' = want(c)
          /\ last' = c
          /\ Go(c, "qom-get")
       \/ Go(c, "failed") /\ UNCHANGED <<requested, last>>
    /\ UNCHANGED <<sizeMB, size, vm>>

\* Mutant: any progress is taken for arrival.
ReachedAbout(c) ==
    /\ pc[c] = "qom-get"
    /\ vm
    /\ size <= want(c)
    /\ Go(c, "ok")
    /\ UNCHANGED <<sizeMB, requested, size, vm, last>>

\* A poll that reads the size that was asked for.
Reached(c) ==
    /\ pc[c] = "qom-get"
    /\ vm
    /\ size = want(c)
    /\ Go(c, "ok")
    /\ UNCHANGED <<sizeMB, requested, size, vm, last>>

\* Mutant: no deadline.
PollForever(c) == pc[c] = "qom-get" /\ FALSE

\* A poll that reads another one after the deadline.  The request stays with the device.
Deadline(c) ==
    /\ pc[c] = "qom-get"
    /\ vm
    /\ size # want(c)
    /\ Go(c, "failed")
    /\ UNCHANGED <<sizeMB, requested, size, vm, last>>

\* QEMU has gone: qom-get fails.
ReadError(c) ==
    /\ pc[c] = "qom-get"
    /\ ~ vm
    /\ Go(c, "failed")
    /\ UNCHANGED <<sizeMB, requested, size, vm, last>>

Kill(c) ==
    /\ pc[c] = "qom-get"
    /\ Go(c, "killed")
    /\ UNCHANGED <<sizeMB, requested, size, vm, last>>

\* The guest plugs or gives back a block, towards what is requested.
Guest ==
    /\ vm
    /\ \/ size < requested /\ size' = size + Block
       \/ size > requested /\ size' = size - Block
    /\ UNCHANGED <<sizeMB, pc, requested, vm, last>>

Exit ==
    /\ vm
    /\ vm' = FALSE
    /\ UNCHANGED <<sizeMB, pc, requested, size, last>>

Terminating == (\A c \in Clients : pc[c] \in Ended) /\ UNCHANGED vars

Next ==
    \/ \E c \in Clients : Request(c) \/ Reached(c) \/ Deadline(c) \/ ReadError(c) \/ Kill(c)
    \/ Guest
    \/ Exit
    \/ Terminating

\* The command is scheduled and its deadline passes.  No guest need ever move.
Fairness == \A c \in Clients : WF_vars(Request(c) \/ ReadError(c)) /\ WF_vars(Reached(c) \/ Deadline(c))

Spec == Init /\ [][Next]_vars
FairSpec == Spec /\ Fairness

-----------------------------------------------------------------------------
(* Properties.                                                              *)

\* A size that memory reported as plugged stays plugged until another request is made,
\* also when requests overtook one another: of the ones that succeeded, the last the
\* device took is the one the machine has.
ReachedStays == \A c \in Clients : pc[c] = "ok" /\ last = c => size = want(c)

\* Every invocation ends, whatever the guest does.
EveryCommandEnds == \A c \in Clients : <>(pc[c] \in Ended)

\* "MiB above the boot memory to have plugged": what a successful command leaves plugged
\* is what its --size says.
PluggedIsAsked == \A c \in Clients : pc[c] = "ok" /\ last = c => size = sizeMB[c] * MiB

\* The inductive invariant: the device pursues what its last client asked for.
MemoryInv ==
    /\ TypeOK
    /\ \A c \in Clients : pc[c] = "ok" /\ last = c => size = requested
    /\ \A c \in Clients : last = c => requested = want(c)
=============================================================================
