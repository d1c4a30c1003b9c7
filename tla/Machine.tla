------------------------------ MODULE Machine ------------------------------
(***************************************************************************)
(* machine.Spec (machine/machine.go): what validate refuses, the QEMU      *)
(* command line Args builds and the fingerprint that decides which         *)
(* checkpoints the machine may resume.                                     *)
(*                                                                         *)
(* An option is a record [opt, driver, props], its props a set of          *)
(* <<key, value>> pairs; backends (-netdev, -object, -chardev) are files   *)
(* and descriptors of the host and are left out.  Indices start at 1 where *)
(* the code's start at 0.                                                  *)
(***************************************************************************)
EXTENDS Integers, Sequences

slotVsock == 2
slotRNG == 3
slotBalloon == 4
slotDiskBase == 5
slotDiskMax == 15
slotNICBase == 16
slotNICMax == 25
slotHotplug == 26
slotMem == 30

maxDisks == slotDiskMax - slotDiskBase + 1
maxNICs == slotNICMax - slotNICBase + 1
MaxHotplugDisks == 256
diskFormats == {"qcow2", "raw"}

\* What the fields of a Spec hold; fds is the set's descriptors without their names.
Field == [
    accel |-> STRING, cpu |-> STRING, bios |-> STRING,
    bootCPUs |-> Int, maxCPUs |-> Int, sizeMB |-> Int, maxMB |-> Int,
    disks |-> Seq([path : STRING, chain : Seq([fdSet : Int, format : STRING]), format : STRING,
                   readonly : BOOLEAN, serial : STRING, locking : BOOLEAN]),
    nics |-> Seq([tapFD : Int, vhostFD : Int, mac : STRING, mtu : Int]),
    hotplugDisks |-> Int, vsockCID |-> Nat, vsockFD |-> Int, kvmFDSet |-> Int,
    fdSets |-> Seq([id : Int, fds : SUBSET Int]),
    serialFDSet |-> Int, serial |-> STRING,
    monitors |-> Seq([socket : STRING, fd : Int]), incoming |-> STRING]

IsSpec(s) == s = [f \in DOMAIN Field |-> s[f]] /\ \A f \in DOMAIN Field : s[f] \in Field[f]

-----------------------------------------------------------------------------
(* Shape: what decides which machine a guest sees.                          *)

accel(s) == IF s.accel = "" THEN "kvm" ELSE s.accel

derivedFromHost(model) == model \in {"host", "max"}

\* The model the guest is shown, the default spelt out.
model(s) == IF s.cpu # "" THEN s.cpu ELSE IF accel(s) = "kvm" THEN "host" ELSE "max"

smpArg(boot, max) == IF max > 0 /\ max # boot THEN <<boot, max>> ELSE <<boot>>
memoryArg(size, max) == IF max > size THEN <<size, max>> ELSE <<size>>

Shape(s) == [machine |-> "pc-q35-11.1",
             accel   |-> accel(s),
             cpu     |-> <<model(s), IF derivedFromHost(model(s)) THEN "migratable=on" ELSE "enforce=on">>,
             smp     |-> smpArg(s.bootCPUs, s.maxCPUs),
             memory  |-> memoryArg(s.sizeMB, s.maxMB)]

-----------------------------------------------------------------------------
(* validate.                                                                *)

MonitorValid(m) == /\ (m.socket = "") # (m.fd = 0)
                   /\ m.fd # 0 => m.fd >= 3

\* fdSets: ids are distinct, and each set holds descriptors above stderr.
FDSetsValid(s) ==
    /\ \A i, j \in DOMAIN s.fdSets : s.fdSets[i].id = s.fdSets[j].id => i = j
    /\ \A i \in DOMAIN s.fdSets : s.fdSets[i].fds # {} /\ \A fd \in s.fdSets[i].fds : fd >= 3

sets(s) == {s.fdSets[i].id : i \in DOMAIN s.fdSets}

NICValid(n) == /\ n.tapFD >= 3
               /\ n.vhostFD # 0 => n.vhostFD >= 3
               /\ n.mac # "unparsable"

\* Mutant: the rule that only the last image may be raw is left out.
DiskValidRawAnywhere(d, given) ==
    /\ (d.path = "") # (d.chain = <<>>)
    /\ IF d.path # "" THEN d.format \in diskFormats ELSE d.format = ""
    /\ \A j \in DOMAIN d.chain : d.chain[j].fdSet \in given /\ d.chain[j].format \in diskFormats

DiskValid(d, given) ==
    /\ (d.path = "") # (d.chain = <<>>)
    /\ IF d.path # "" THEN d.format \in diskFormats ELSE d.format = ""
    /\ \A j \in DOMAIN d.chain :
         /\ d.chain[j].fdSet \in given
         /\ d.chain[j].format \in diskFormats
         /\ d.chain[j].format = "raw" => j = Len(d.chain)

\* Mutants: a NIC more than there are slots; a console in a set nobody gave.
CountsValidOneNICMore(s) ==
    /\ Len(s.disks) <= maxDisks
    /\ Len(s.nics) <= maxNICs + 1
    /\ s.hotplugDisks >= 0 /\ s.hotplugDisks <= MaxHotplugDisks
DescriptorsValidConsoleUnchecked(s) ==
    /\ s.serialFDSet # 0 => s.serial = ""
    /\ s.kvmFDSet # 0 => s.accel \in {"", "kvm"} /\ s.kvmFDSet \in sets(s)
    /\ s.vsockFD # 0 => s.vsockCID # 0 /\ s.vsockFD >= 3

CountsValid(s) ==
    /\ Len(s.disks) <= maxDisks
    /\ Len(s.nics) <= maxNICs
    /\ s.hotplugDisks >= 0 /\ s.hotplugDisks <= MaxHotplugDisks

\* The console, /dev/kvm and /dev/vhost-vsock as descriptors.
DescriptorsValid(s) ==
    /\ s.serialFDSet # 0 => s.serial = "" /\ s.serialFDSet \in sets(s)
    /\ s.kvmFDSet # 0 => s.accel \in {"", "kvm"} /\ s.kvmFDSet \in sets(s)
    /\ s.vsockFD # 0 => s.vsockCID # 0 /\ s.vsockFD >= 3

\* The paths of QEMU, kernel and firmware are given and the BIOS and the CPU model are
\* names; the command line is one Cmdline.validate accepts (module Cmdline).
validate(s) ==
    /\ s.accel \in {"", "kvm", "tcg"}
    /\ s.bootCPUs >= 1
    /\ s.maxCPUs # 0 => s.maxCPUs >= s.bootCPUs
    /\ s.maxMB # 0 => s.maxMB >= s.sizeMB
    /\ s.sizeMB >= 1
    /\ CountsValid(s)
    /\ \A i \in DOMAIN s.monitors : MonitorValid(s.monitors[i])
    /\ FDSetsValid(s)
    /\ DescriptorsValid(s)
    /\ \A i \in DOMAIN s.nics : NICValid(s.nics[i])
    /\ \A i \in DOMAIN s.disks : DiskValid(s.disks[i], sets(s))

-----------------------------------------------------------------------------
(* Args.                                                                    *)

Opt(given, option) == IF given THEN <<option>> ELSE <<>>
PropIf(given, prop) == IF given THEN {prop} ELSE {}
Device(driver, slot, props) ==
    [opt |-> "-device", driver |-> driver,
     props |-> props \cup {<<"addr", slot>>, <<"disable-legacy", "on">>}]

appendChipset == <<
    [opt |-> "-global", driver |-> "disable_s3=1", props |-> {}],
    [opt |-> "-global", driver |-> "disable_s4=1", props |-> {}],
    [opt |-> "-global", driver |-> "acpi-pci-hotplug-with-bridge-support=off", props |-> {}],
    [opt |-> "-no-reboot", driver |-> "", props |-> {}]>>

appendDevices(s) ==
    <<[opt |-> "-device", driver |-> "vmgenid", props |-> {<<"guid", "auto">>}],
      Device("virtio-rng-pci", slotRNG, {}),
      Device("virtio-balloon-pci", slotBalloon, {<<"free-page-reporting", "on">>, <<"deflate-on-oom", "on">>})>>
    \o Opt(s.vsockCID # 0,
           Device("vhost-vsock-pci", slotVsock,
                  {<<"guest-cid", s.vsockCID>>} \cup PropIf(s.vsockFD # 0, <<"vhostfd", s.vsockFD>>)))
    \o Opt(s.maxMB > s.sizeMB,
           Device("virtio-mem-pci", slotMem, {<<"id", "vmem0">>, <<"memdev", "mem.growth">>, <<"requested-size", 0>>}))
    \o Opt(s.hotplugDisks > 0, Device("virtio-scsi-pci", slotHotplug, {<<"id", "scsi0">>}))

appendDisks(s) == [i \in DOMAIN s.disks |->
    Device("virtio-blk-pci", slotDiskBase + i - 1, {<<"drive", i>>} \cup PropIf(s.disks[i].serial # "", <<"serial", s.disks[i].serial>>))]

appendNICs(s) == [i \in DOMAIN s.nics |->
    Device("virtio-net-pci", slotNICBase + i - 1,
           {<<"netdev", i>>, <<"mac", s.nics[i].mac>>, <<"romfile", "">>}
           \cup PropIf(s.nics[i].mtu > 0, <<"host_mtu", s.nics[i].mtu>>))]

\* The images of disk i's chain, node j over node j + 1: what QEMU opens it as, and what
\* it is told lies under it - a node, nothing ("null"), or no backing option at all.
chainArgs(s, i) ==
    LET chain == s.disks[i].chain IN
    {[disk |-> i, depth |-> j,
      fdSet |-> chain[j].fdSet,
      driver |-> chain[j].format,
      readOnly |-> s.disks[i].readonly \/ j > 1,
      locking |-> j = 1 /\ s.disks[i].locking,
      backing |-> IF j < Len(chain) THEN <<"node", j + 1>>
                  ELSE IF chain[j].format # "raw" THEN <<"null">> ELSE <<"absent">>] : j \in DOMAIN chain}

\* A descriptor set wins over a chardev, and there is always a -serial.
appendConsole(s) ==
    IF s.serialFDSet # 0 THEN <<"fdset", s.serialFDSet>> ELSE IF s.serial # "" THEN <<"chardev", s.serial>> ELSE <<"none">>

\* A socket QEMU makes, or one it is given as a descriptor.
appendMonitors(s) == [i \in DOMAIN s.monitors |->
    IF s.monitors[i].socket # "" THEN <<"unix", s.monitors[i].socket>> ELSE <<"fd", s.monitors[i].fd>>]

appendFDSets(s) == UNION {s.fdSets[i].fds \X {s.fdSets[i].id} : i \in DOMAIN s.fdSets}

appendIncoming(s) == IF s.incoming # "" THEN <<s.incoming>> ELSE <<>>

Args(s) ==
    [bios       |-> IF s.bios = "" THEN "qboot.bin" ELSE s.bios,
     shape      |-> Shape(s),
     accelFDSet |-> s.kvmFDSet,
     devices    |-> appendChipset \o appendDevices(s) \o appendDisks(s) \o appendNICs(s),
     nodes      |-> UNION {chainArgs(s, i) : i \in DOMAIN s.disks},
     serial     |-> appendConsole(s),
     monitors   |-> appendMonitors(s),
     addFD      |-> appendFDSets(s),
     incoming   |-> appendIncoming(s)]

-----------------------------------------------------------------------------
(* Contract and fingerprint.                                                *)

\* Mutants: a property the guest sees is taken for the VM's; one of the VM's is kept.
vmPropertiesWithMTU == {"id", "netdev", "memdev", "mac", "guest-cid", "vhostfd", "host_mtu"}
vmPropertiesWithoutCID == {"id", "netdev", "memdev", "mac", "vhostfd"}

vmProperties == {"id", "netdev", "memdev", "mac", "guest-cid", "vhostfd"}

withoutTheVMs(d) == [d EXCEPT !.props = {p \in @ : p[1] \notin vmProperties}]

\* Contract's loop: the globals and the devices among the options, in their order.
kept(options) ==
    LET out[n \in 0..Len(options)] ==
            IF n = 0 THEN <<>>
            ELSE IF options[n].opt \in {"-global", "-device"} THEN Append(out[n - 1], options[n])
            ELSE out[n - 1]
    IN  out[Len(options)]

Contract(s) ==
    LET args == appendChipset \o appendDevices(s) \o appendNICs(s)
    IN  kept([i \in DOMAIN args |-> withoutTheVMs(args[i])])
        \o Opt(s.serial # "" \/ s.serialFDSet # 0, [opt |-> "serial", driver |-> "isa-serial", props |-> {}])

\* What is hashed, on a host h = [cpuModel, firmware].  Keys and lengths are written with
\* every value, so equal digests are equal records: SHA-256 is taken to be injective.
fingerprint(s, h) ==
    [biosSize |-> h.firmware[Args(s).bios].size,
     shape    |-> Shape(s),
     contract |-> Contract(s),
     hostCPU  |-> IF derivedFromHost(Shape(s).cpu[1]) THEN h.cpuModel ELSE ""]

\* fingerprint returns no error: the BIOS is in the firmware directory, and the host's CPU
\* has a name if the guest is shown it.
CanFingerprint(s, h) ==
    /\ Args(s).bios \in DOMAIN h.firmware
    /\ derivedFromHost(Shape(s).cpu[1]) => h.cpuModel # ""
=============================================================================
