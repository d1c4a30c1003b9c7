------------------------------ MODULE MCFleet ------------------------------
(***************************************************************************)
(* Package machine on small instances: Fleet on the Specs around a small   *)
(* one and four hosts, and Cmdline.  They share no state and run apart: a  *)
(* behaviour is of one of them, and the other stays as it begins.          *)
(***************************************************************************)
EXTENDS Fleet, MCCmdline, TLC

Disk(path, format, chain) == [path |-> path, chain |-> chain, format |-> format,
                              readonly |-> FALSE, serial |-> "", locking |-> FALSE]
PathDisk == Disk("base", "qcow2", <<>>)
Layer(set, format) == [fdSet |-> set, format |-> format]
NIC(mac, mtu) == [tapFD |-> 4, vhostFD |-> 0, mac |-> mac, mtu |-> mtu]
Many(n, x) == [i \in 1..n |-> x]

MCBase == [
    accel |-> "", cpu |-> "", bios |-> "", bootCPUs |-> 2, maxCPUs |-> 0, sizeMB |-> 2, maxMB |-> 0,
    disks |-> <<PathDisk>>, nics |-> <<NIC("mac1", 0)>>, hotplugDisks |-> 0,
    vsockCID |-> 3, vsockFD |-> 0, kvmFDSet |-> 0, fdSets |-> <<[id |-> 1, fds |-> {3}]>>,
    serialFDSet |-> 0, serial |-> "", monitors |-> <<[socket |-> "qmp", fd |-> 0]>>, incoming |-> ""]

\* Settings of machines that start, for the fingerprint: what the guest sees of each value
\* differs, or does not.
MCChoices == [
    accel |-> {"", "kvm", "tcg"},
    cpu |-> {"", "host", "max", "EPYC-Rome-v3"},
    bios |-> {"", "qboot.bin", "bios-256k.bin"},
    bootCPUs |-> {1, 2},
    maxCPUs |-> {0, 2, 4},
    sizeMB |-> {2, 3},
    maxMB |-> {0, 2, 3},
    disks |-> {<<PathDisk>>, Many(2, PathDisk)},
    nics |-> {<<>>, <<NIC("mac1", 0)>>, <<NIC("mac2", 0)>>, <<NIC("mac1", 1400)>>,
              <<NIC("mac1", 0), NIC("mac2", 1400)>>},
    hotplugDisks |-> {0, 1, 2},
    vsockCID |-> {0, 3, 4},
    vsockFD |-> {0, 5},
    kvmFDSet |-> {0, 1},
    serialFDSet |-> {0, 1},
    serial |-> {"", "mon:stdio"},
    incoming |-> {"", "defer"}]

\* Settings at, and past, the limits of slots, descriptor sets and chains.
MCLimits == [
    accel |-> {"", "tcg"},
    maxMB |-> {0, 3},
    disks |-> {<<PathDisk>>, Many(11, PathDisk), Many(12, PathDisk), <<Disk("base", "vmdk", <<>>)>>,
               <<Disk("", "", <<Layer(1, "qcow2"), Layer(2, "qcow2"), Layer(2, "raw")>>),
                 Disk("", "", <<Layer(1, "raw")>>)>>,
               <<Disk("", "", <<Layer(1, "qcow2"), Layer(1, "raw"), Layer(1, "qcow2")>>)>>},
    nics |-> {<<NIC("mac1", 0)>>, Many(10, NIC("mac1", 0)), Many(11, NIC("mac1", 0)), <<NIC("unparsable", 0)>>},
    hotplugDisks |-> {-1, 0, 256, 257},
    vsockCID |-> {0, 3},
    vsockFD |-> {0, 2, 5},
    kvmFDSet |-> {0, 1, 2},
    fdSets |-> {<<[id |-> 1, fds |-> {3}]>>, <<[id |-> 1, fds |-> {3}], [id |-> 2, fds |-> {4, 5}]>>,
                <<[id |-> 1, fds |-> {3}], [id |-> 1, fds |-> {4}]>>, <<[id |-> 1, fds |-> {}]>>,
                <<[id |-> 1, fds |-> {2, 3}]>>},
    serialFDSet |-> {0, 1, 2},
    serial |-> {"", "mon:stdio"},
    monitors |-> {<<>>, <<[socket |-> "qmp", fd |-> 0], [socket |-> "", fd |-> 3]>>, <<[socket |-> "qmp", fd |-> 3]>>}]

Firmware(q, seabios) == [b \in {"qboot.bin", "bios-256k.bin"} |-> IF b = "qboot.bin" THEN q ELSE seabios]
SeaBIOS == [size |-> 256, contents |-> "seabios"]

\* A rebuilt qboot of the same size on another CPU, a larger one, and a host whose
\* /proc/cpuinfo has no model name.
MCHosts == {
    [cpuModel |-> "Xeon", firmware |-> Firmware([size |-> 64, contents |-> "qboot"], SeaBIOS)],
    [cpuModel |-> "Xeon", firmware |-> Firmware([size |-> 64, contents |-> "qboot rebuilt"], SeaBIOS)],
    [cpuModel |-> "EPYC", firmware |-> Firmware([size |-> 128, contents |-> "qboot grown"], SeaBIOS)],
    [cpuModel |-> "", firmware |-> [b \in {"qboot.bin"} |-> [size |-> 64, contents |-> "qboot"]]]}

OneHost == {CHOOSE h \in MCHosts : h.cpuModel = "EPYC"}

MCCallers == {[choices |-> MCChoices, hosts |-> MCHosts, maxChanges |-> 2],
              [choices |-> MCLimits, hosts |-> OneHost, maxChanges |-> 3]}

VARIABLE job   \* which of them it is

machineVars == <<job, vars, cmdlineVars>>

\* Which of the lines is the first makes no difference, nor does readonly without a root, and
\* one field that validate refuses is enough.
FirstLine == CHOOSE l \in Lines : TRUE
Sound(f) == ~ f.spaces /\ ~ f.quote

MachineInit ==
    /\ job \in {"fleet", "cmdline"}
    /\ Init /\ CmdlineInit
    /\ line[FirstLine].set /\ (line[FirstLine].readonly => line[FirstLine].root # None)
    /\ Sound(line[FirstLine].init) \/ Sound(line[FirstLine].root)
    /\ job # "fleet" => caller.hosts = OneHost
    /\ job # "cmdline" => line[FirstLine].init = None /\ line[FirstLine].root = None /\ ~ line[FirstLine].readonly

MachineNext ==
    \/ job = "fleet" /\ Next /\ UNCHANGED <<job, cmdlineVars>>
    \/ job = "cmdline" /\ CmdlineNext /\ UNCHANGED <<job, vars>>

MachineSpec == MachineInit /\ [][MachineNext]_machineVars
=============================================================================
