-------------------------------- MODULE Boot --------------------------------
(***************************************************************************)
(* `spin-machine boot`, `args` and `fingerprint` from their flags to the   *)
(* QEMU that runs (cmd/spin-machine/main.go), over a release tree          *)
(* (machine/release.go) that may still be unpacked while it is opened.     *)
(*                                                                         *)
(* A path is the file it names: a member of the release tree, or a file of *)
(* the caller's.  The command line is Machine's; the kernel's is its root, *)
(* how that is mounted, and its console.  Size, hotplug and the like pass  *)
(* from flag to Spec unchanged and are left out.                           *)
(***************************************************************************)
EXTENDS Integers, Sequences

CONSTANTS BootFlags,   \* the flags a command may be given, a set of records
          Unpacked     \* the trees there may be when it starts, each a set of files

M == INSTANCE Machine

\* Mutant: the firmware directory is enough.
requiredNoBIOS == <<"qemu", "qemu-img", "kernel", "pvh.bin">>

\* What OpenRelease looks for, in its order.
required == <<"qemu", "qemu-img", "kernel", "pvh.bin", "qboot.bin">>

Tree == {"qemu", "qemu-tcg", "qemu-img", "kernel", "pvh.bin", "qboot.bin", "bios-256k.bin", "rootfs", "machine.env"}

\* A caller's QEMU and disk are its own: nothing keeps it from naming a file of the release.
ASSUME BootAssumption ==
    /\ BootFlags \subseteq [cmd : {"boot", "args", "fingerprint"}, qemu : STRING \ Tree, accel : STRING,
                            bios : STRING, disk : STRING \ Tree, readonly : BOOLEAN, console : STRING, root : STRING]
    /\ Unpacked \subseteq SUBSET Tree

VARIABLES
    flags,   \* the command and its flags; fixed
    tree,    \* the files of the release that are there
    step,    \* what the command does next, or how it ended
    stats,   \* how many of the required files it has seen
    manifest, \* whether it has read a manifest
    spec,    \* the Spec made of the flags
    qemu,    \* what the process became: its binary, arguments and kernel command line
    written  \* what guests have written to: an image, or an overlay of it

bootVars == <<flags, tree, step, stats, manifest, spec, qemu, written>>

None == [ran |-> FALSE]
NoSpec == [made |-> FALSE]

BootInit ==
    /\ flags \in BootFlags
    /\ tree \in Unpacked
    /\ step = "open" /\ stats = 0 /\ manifest = FALSE
    /\ spec = NoSpec /\ qemu = None /\ written = {}

-----------------------------------------------------------------------------
(* OpenRelease.                                                             *)

\* One of the five stats.
Stat ==
    /\ step = "open" /\ stats < Len(required)
    /\ IF required[stats + 1] \in tree
       THEN stats' = stats + 1 /\ UNCHANGED step
       ELSE step' = "failed" /\ UNCHANGED stats
    /\ UNCHANGED <<flags, tree, manifest, spec, qemu, written>>

\* readEnv: a tree without a manifest is a release all the same; a damaged one is not.
ReadEnv ==
    /\ step = "open" /\ stats = Len(required)
    /\ \/ step' = "tcg" /\ manifest' = ("machine.env" \in tree)
       \/ "machine.env" \in tree /\ step' = "failed" /\ UNCHANGED manifest
    /\ UNCHANGED <<flags, tree, stats, spec, qemu, written>>

-----------------------------------------------------------------------------
(* machineFlags.spec and what is done with it.                              *)

scratch == flags.disk = ""

\* QEMUTCG: asked for only when emulating, and no binary was named.
FindTCG ==
    /\ step = "tcg"
    /\ step' = IF flags.accel = "tcg" /\ flags.qemu = "" /\ "qemu-tcg" \notin tree THEN "failed" ELSE "rootfs"
    /\ UNCHANGED <<flags, tree, stats, manifest, spec, qemu, written>>

Binary == IF flags.qemu # "" THEN flags.qemu ELSE IF flags.accel = "tcg" THEN "qemu-tcg" ELSE "qemu"
Disk == IF scratch THEN "rootfs" ELSE flags.disk

\* Mutant: the kernel is told of a root and of a console whatever the machine has.
cmdlineDefault == [root |-> flags.root, ro |-> flags.readonly, console |-> "ttyS0"]

\* DefaultCmdline, with what the disk and the console leave of it.
cmdline == [root |-> IF Disk = "-" THEN "" ELSE flags.root,
            ro |-> Disk # "-" /\ flags.readonly,
            console |-> IF flags.console = "" THEN "" ELSE "ttyS0"]

machineSpec == [
    accel |-> flags.accel, cpu |-> "", bios |-> flags.bios, bootCPUs |-> 2, maxCPUs |-> 0, sizeMB |-> 2048, maxMB |-> 0,
    disks |-> IF Disk = "-" THEN <<>>
              ELSE <<[path |-> Disk, chain |-> <<>>, format |-> "qcow2", readonly |-> flags.readonly,
                      serial |-> "", locking |-> FALSE]>>,
    nics |-> <<>>, hotplugDisks |-> 0, vsockCID |-> 0, vsockFD |-> 0, kvmFDSet |-> 0, fdSets |-> <<>>,
    serialFDSet |-> 0, serial |-> flags.console, monitors |-> <<>>, incoming |-> ""]

\* Rootfs: looked for when no disk was named.  The rest of the Spec is the flags'.
MakeSpec ==
    /\ step = "rootfs"
    /\ IF scratch /\ "rootfs" \notin tree
       THEN step' = "failed" /\ UNCHANGED spec
       ELSE /\ step' = flags.cmd
            /\ spec' = [made |-> TRUE, machine |-> machineSpec, cmdline |-> cmdline]
    /\ UNCHANGED <<flags, tree, stats, manifest, qemu, written>>

\* Mutant: an overlay only where the caller asked for no disk by name and for no writes.
snapshotReadonly(s) == scratch /\ Len(s.disks) > 0 /\ s.disks[1].readonly

\* qemuArgs: -snapshot puts every -drive under an overlay that is thrown away.
snapshot(s) == scratch /\ Len(s.disks) > 0

\* args prints the command line, fingerprint the fingerprint, if the host's CPU can be told;
\* neither leaves anything.
Say ==
    /\ step \in {"args", "fingerprint"}
    /\ step' \in IF step = "fingerprint" THEN {"ok", "failed"}
                 ELSE {IF M!validate(spec.machine) THEN "ok" ELSE "failed"}
    /\ UNCHANGED <<flags, tree, stats, manifest, spec, qemu, written>>

\* boot: the process becomes QEMU - or Args refuses the Spec, LookPath does not find the
\* binary, or it cannot be executed.
Exec ==
    /\ step = "boot"
    /\ \/ /\ M!validate(spec.machine)
          /\ Binary \in Tree => Binary \in tree
          /\ step' = "running"
          /\ qemu' = [ran |-> TRUE, binary |-> Binary, args |-> M!Args(spec.machine),
                      drives |-> spec.machine.disks, snapshot |-> snapshot(spec.machine), cmdline |-> spec.cmdline]
       \/ step' = "failed" /\ UNCHANGED qemu
    /\ UNCHANGED <<flags, tree, stats, manifest, spec, written>>

-----------------------------------------------------------------------------
(* The installer and the guest (external).                                  *)

\* One more file of the tarball is in its place.
Unpack(f) == f \notin tree /\ tree' = tree \cup {f} /\ UNCHANGED <<flags, step, stats, manifest, spec, qemu, written>>

\* A guest writes to its disk: to the overlay, or to the image itself.
GuestWrites ==
    /\ step = "running"
    /\ \E i \in DOMAIN qemu.drives :
         /\ ~ qemu.drives[i].readonly
         /\ written' = written \cup {[overlay |-> qemu.snapshot, image |-> qemu.drives[i].path]}
    /\ UNCHANGED <<flags, tree, step, stats, manifest, spec, qemu>>

BootNext ==
    \/ Stat \/ ReadEnv \/ FindTCG \/ MakeSpec \/ Say \/ Exec
    \/ \E f \in Tree : Unpack(f)
    \/ GuestWrites

BootSpec == BootInit /\ [][BootNext]_bootVars

-----------------------------------------------------------------------------
(* Properties.                                                              *)

\* "A release missing a part says so here, naming the file - and not three seconds later as
\* a QEMU that exits for want of an option ROM": a QEMU that is started finds every file of
\* the release it opens, though the tree was still growing while it was looked at - but for a
\* BIOS the caller named, which is not looked for.
NoPartMissing == qemu.ran =>
    LET opened == {qemu.binary, "kernel", "pvh.bin", qemu.args.bios}
                  \cup {qemu.drives[i].path : i \in DOMAIN qemu.drives}
    IN  opened \cap Tree \subseteq tree \cup {flags.bios}

\* "The base is never written": whatever the flags, short of a --disk that names it, no guest
\* writes to the image every overlay lies over or to another file of the release.
BaseNeverWritten == \A w \in written : w.overlay \/ w.image \notin Tree

\* The machine and the kernel's command line are of one boot: a KVM guest is never run by the
\* emulating build nor the other way round, the root device is there and is writable if it is
\* mounted so, and the kernel prints to the serial port exactly if there is one.
MachineFitsKernel == qemu.ran =>
    /\ qemu.binary \in {"qemu", "qemu-tcg"} => (qemu.binary = "qemu-tcg" <=> qemu.args.shape.accel = "tcg")
    /\ qemu.cmdline.root # "" => qemu.drives # <<>> /\ (qemu.cmdline.ro \/ ~ qemu.drives[1].readonly)
    /\ qemu.cmdline.console = "ttyS0" <=> qemu.args.serial # <<"none">>
=============================================================================
