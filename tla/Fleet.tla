------------------------------- MODULE Fleet -------------------------------
(***************************************************************************)
(* Machines over time and a checkpoint that travels between them: a caller *)
(* changes one setting of its Spec at a time, or moves to another host,    *)
(* and at some point saves a checkpoint.  A machine whose fingerprint is   *)
(* the checkpoint's may resume it (docs/migration.md).                     *)
(*                                                                         *)
(* What the guest is shown is worked out from the command line Args        *)
(* returns, independently of Contract: QEMU is external.                   *)
(***************************************************************************)
EXTENDS Machine, FiniteSets, Functions

CONSTANTS Base,     \* the Spec the changes start from
          Callers   \* what each caller does with it, a set of records:
                    \*   choices     choices[f]: the values it may set field f of its Spec to
                    \*   hosts       [cpuModel, firmware]: its hosts, each with a release unpacked
                    \*   maxChanges  bound: settings in which its two Specs differ from Base

ASSUME FleetAssumption ==
    /\ IsSpec(Base) /\ validate(Base)
    /\ \A c \in Callers : c.maxChanges \in Nat /\ DOMAIN c.choices \subseteq DOMAIN Field
    /\ \A c \in Callers : \A f \in DOMAIN c.choices : c.choices[f] \subseteq Field[f]

VARIABLES
    caller, \* whose machines they are; fixed
    spec,   \* the Spec the next machine is started with
    host,   \* the host it is started on
    saved   \* the machine the checkpoint was taken on, [spec, host]

vars == <<caller, spec, host, saved>>

Changes(s) == {f \in DOMAIN Base : s[f] # Base[f]}

Init ==
    /\ caller \in Callers
    /\ spec = Base
    /\ host \in {h \in caller.hosts : CanFingerprint(Base, h)}
    /\ saved = [spec |-> spec, host |-> host]

\* The caller fills in one field differently.
Configure(f, value) ==
    /\ value # spec[f]
    /\ spec' = [spec EXCEPT ![f] = value]
    /\ Cardinality(Changes(spec') \cup Changes(saved.spec)) <= caller.maxChanges
    /\ UNCHANGED <<caller, host, saved>>

Move(h) == h # host /\ host' = h /\ UNCHANGED <<caller, spec, saved>>

\* The machine is started, and a checkpoint of it is taken.
Save ==
    /\ validate(spec)
    /\ CanFingerprint(spec, host)
    /\ saved' = [spec |-> spec, host |-> host]
    /\ UNCHANGED <<caller, spec, host>>

Next ==
    \/ \E f \in DOMAIN caller.choices : \E value \in caller.choices[f] : Configure(f, value)
    \/ \E h \in caller.hosts : Move(h)
    \/ Save

Spec == Init /\ [][Next]_vars

-----------------------------------------------------------------------------
(* QEMU: what a guest finds (external).                                     *)

Pairs(d, keys) == {p \in d.props : p[1] \in keys}

\* PCI devices of the machine: the disks are the VM's.
PCI(args) == {d \in Range(args.devices) : d.opt = "-device" /\ Pairs(d, {"addr"}) # {}}
Slot(d) == (CHOOSE p \in d.props : p[1] = "addr")[2]
IsDisk(d) == d.driver = "virtio-blk-pci"

\* The properties a driver reads, or negotiates from.
Visible == {"host_mtu", "free-page-reporting", "deflate-on-oom", "disable-legacy", "romfile"}

\* Two machines a saved state fits alike: the ROM's size, CPU, memory, chipset, what is at
\* every slot, and the serial port.
Hardware(s, h) ==
    LET args == Args(s) IN
    [rom     |-> h.firmware[args.bios].size,
     machine |-> args.shape.machine,
     accel   |-> args.shape.accel,
     cpu     |-> <<args.shape.cpu, IF derivedFromHost(model(s)) THEN h.cpuModel ELSE "as named">>,
     cpus    |-> [boot |-> s.bootCPUs, possible |-> IF s.maxCPUs = 0 THEN s.bootCPUs ELSE s.maxCPUs],
     memory  |-> [boot |-> s.sizeMB, ceiling |-> IF s.maxMB = 0 THEN s.sizeMB ELSE s.maxMB],
     chipset |-> {d.driver : d \in {d \in Range(args.devices) : d.opt = "-global"}},
     at      |-> {<<Slot(d), d.driver, Pairs(d, Visible)>> : d \in {d \in PCI(args) : ~ IsDisk(d)}},
     serial  |-> args.serial # <<"none">>]

-----------------------------------------------------------------------------
(* Properties.                                                              *)

\* The machine about to be started can, and its fingerprint is the checkpoint's.
Resumable == validate(spec) /\ CanFingerprint(spec, host)
Matches == fingerprint(spec, host) = fingerprint(saved.spec, saved.host)

\* "Two machines with one fingerprint present the same hardware to a guest": whatever was
\* changed since the checkpoint was saved, a machine that may resume it is the machine the
\* guest was shown.
ResumesOnSameHardware ==
    Resumable /\ Matches => Hardware(spec, host) = Hardware(saved.spec, saved.host)

\* A change the guest cannot see - a default spelt out, another CID or MAC, more hotplug
\* disks, a descriptor instead of a path, another host under a named CPU model - strands
\* no checkpoint.
NoCheckpointStranded ==
    Resumable /\ Hardware(spec, host) = Hardware(saved.spec, saved.host) => Matches

\* Every PCI device of a command line that is built has a slot of its own, whatever the
\* number of disks and NICs and with or without vsock, growth and hotplug.
NoSlotTwice == validate(spec) =>
    \A d, e \in PCI(Args(spec)) : Slot(d) = Slot(e) => d = e

\* Every descriptor set a command line names (an image, the console, /dev/kvm) is one that
\* it also hands over, holding a descriptor that is not stdin, stdout or stderr.
SetsAreGiven == validate(spec) =>
    LET args == Args(spec)
        console == IF args.serial[1] = "fdset" THEN {args.serial[2]} ELSE {}
    IN
    \A id \in {n.fdSet : n \in args.nodes} \cup console \cup ({args.accelFDSet} \ {0}) :
        /\ \E fd \in {p[1] : p \in args.addFD} : <<fd, id>> \in args.addFD
        /\ \A fd \in {p[1] : p \in args.addFD} : <<fd, id>> \in args.addFD => fd > 2

\* A chain is read as it is declared: every node but the last lies over the next one, the
\* last over nothing, no raw image is asked for a backing it cannot have, a qcow2 is never
\* left to its header, and only the top may be written.
ChainsAreClosed == validate(spec) =>
    \A n \in Args(spec).nodes :
        /\ n.driver = "raw" <=> n.backing = <<"absent">>
        /\ n.backing[1] = "node" <=>
             \E m \in Args(spec).nodes : m.disk = n.disk /\ m.depth = n.depth + 1
        /\ ~ n.readOnly \/ n.locking => n.depth = 1
=============================================================================
