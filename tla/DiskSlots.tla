----------------------------- MODULE DiskSlots -----------------------------
(***************************************************************************)
(* What hotplug promises the owner of a disk, target by target: a disk is  *)
(* opened at a free target, plugged by whoever opened it or abandoned      *)
(* unplugged, and once plugged it is closed only after the guest let it go.*)
(* Nobody's disk is ever closed under a device, plugged twice, or replaced *)
(* by another's.  Hotplug implements this specification.                   *)
(***************************************************************************)
CONSTANTS Owners, Nobody, Slots

VARIABLES disk,   \* disk[t]: whose disk is open at target t, or Nobody
          stage,  \* stage[t]: how far it has come
          used    \* the owners whose disk has been plugged; a disk is plugged once

vars == <<disk, stage, used>>

Init ==
    /\ disk = [t \in Slots |-> Nobody]
    /\ stage = [t \in Slots |-> "free"]
    /\ used = {}

Open(t, o) ==
    /\ stage[t] = "free"
    /\ o \notin used
    /\ disk' = [disk EXCEPT ![t] = o]
    /\ stage' = [stage EXCEPT ![t] = "opened"]
    /\ UNCHANGED used

Plug(t) ==
    /\ stage[t] = "opened"
    /\ stage' = [stage EXCEPT ![t] = "plugged"]
    /\ used' = used \cup {disk[t]}
    /\ UNCHANGED disk

Unplug(t) ==
    /\ stage[t] = "plugged"
    /\ stage' = [stage EXCEPT ![t] = "leaving"]
    /\ UNCHANGED <<disk, used>>

Gone(t) ==
    /\ stage[t] = "leaving"
    /\ stage' = [stage EXCEPT ![t] = "unplugged"]
    /\ UNCHANGED <<disk, used>>

\* An attach that could not plug its disk, or a detach that saw it go.
Close(t) ==
    /\ stage[t] \in {"opened", "unplugged"}
    /\ disk' = [disk EXCEPT ![t] = Nobody]
    /\ stage' = [stage EXCEPT ![t] = "free"]
    /\ UNCHANGED used

PowerOff ==
    /\ disk' = [t \in Slots |-> Nobody]
    /\ stage' = [t \in Slots |-> "free"]
    /\ UNCHANGED used

Next ==
    \/ \E t \in Slots : \/ \E o \in Owners : Open(t, o)
                        \/ Plug(t) \/ Unplug(t) \/ Gone(t) \/ Close(t)
    \/ PowerOff

Spec == Init /\ [][Next]_vars
=============================================================================
