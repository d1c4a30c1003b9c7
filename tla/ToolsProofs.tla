---------------------------- MODULE ToolsProofs ----------------------------
(***************************************************************************)
(* For any flags and any order in which the tree is unpacked, a machine    *)
(* that is booted has all its parts, fits the kernel's command line, and   *)
(* writes to nothing of the release.  Watch finds every marker at the read *)
(* that completes it, for any markers and any console.  However QEMU is    *)
(* bumped, its machine type is refused when it is deprecated, before it is *)
(* gone.                                                                   *)
(***************************************************************************)
EXTENDS Boot, Watch, MachineType, FiniteSetTheorems, SequenceTheorems, WellFoundedInduction, TLAPS

-----------------------------------------------------------------------------
(* Boot.                                                                    *)

Steps == {"open", "failed", "tcg", "rootfs", "args", "fingerprint", "boot", "running", "ok"}

TypeInv == flags \in BootFlags /\ tree \subseteq Tree /\ step \in Steps /\ stats \in 0..5

\* Files of the release come and never go: what was seen is there.
PartsInv == /\ \A i \in 1..stats : required[i] \in tree
            /\ step \notin {"open", "failed"} => stats = 5

\* The Spec is the flags', over a rootfs that was there when it was asked for.
MadeInv == /\ step \in {"args", "fingerprint", "boot", "running", "ok"} => spec.made
           /\ spec.made => /\ spec.machine = machineSpec /\ spec.cmdline = cmdline
                           /\ scratch => "rootfs" \in tree

RanInv == /\ step = "running" => qemu.ran
          /\ qemu.ran => /\ step = "running" /\ (Binary \in tree \/ Binary \notin Tree)
                         /\ qemu.binary = Binary /\ qemu.args = M!Args(machineSpec)
                         /\ qemu.drives = machineSpec.disks /\ qemu.snapshot = snapshot(machineSpec)
                         /\ qemu.cmdline = cmdline

BootInv == TypeInv /\ PartsInv /\ MadeInv /\ RanInv /\ BaseNeverWritten

LEMMA FlagTypes ==
    ASSUME flags \in BootFlags
    PROVE  /\ flags.cmd \in {"boot", "args", "fingerprint"}
           /\ flags.qemu \in STRING /\ flags.qemu \notin Tree
           /\ flags.disk \in STRING /\ flags.disk \notin Tree
           /\ flags.accel \in STRING /\ flags.readonly \in BOOLEAN
<1>1. flags \in [cmd : {"boot", "args", "fingerprint"}, qemu : STRING \ Tree, accel : STRING,
                 bios : STRING, disk : STRING \ Tree, readonly : BOOLEAN, console : STRING, root : STRING]
  BY BootAssumption
<1>2. /\ flags.cmd \in {"boot", "args", "fingerprint"}
      /\ flags.qemu \in STRING /\ flags.qemu \notin Tree
      /\ flags.disk \in STRING /\ flags.disk \notin Tree
      /\ flags.accel \in STRING /\ flags.readonly \in BOOLEAN
  BY <1>1
<1> QED
  BY <1>2

LEMMA RequiredIs == Len(required) = 5 /\ required[1] = "qemu" /\ required[2] = "qemu-img" /\ required[3] = "kernel"
                    /\ required[4] = "pvh.bin" /\ required[5] = "qboot.bin"
BY DEF required

LEMMA DrivesAre ==
    LET disks == machineSpec.disks IN
    /\ Disk = "-" => disks = <<>> /\ DOMAIN disks = {}
    /\ Disk # "-" => /\ disks # <<>> /\ Len(disks) = 1 /\ DOMAIN disks = {1}
                     /\ disks[1].path = Disk /\ disks[1].readonly = flags.readonly
<1>1. machineSpec.disks =
        IF Disk = "-" THEN <<>>
        ELSE <<[path |-> Disk, chain |-> <<>>, format |-> "qcow2", readonly |-> flags.readonly,
                serial |-> "", locking |-> FALSE]>>
  BY DEF machineSpec
<1> HIDE DEF machineSpec
<1>2. CASE Disk = "-"
  BY <1>1, <1>2
<1>3. CASE Disk # "-"
  <2> DEFINE d == [path |-> Disk, chain |-> <<>>, format |-> "qcow2", readonly |-> flags.readonly,
                   serial |-> "", locking |-> FALSE]
  <2>1. machineSpec.disks = <<d>>
    BY <1>1, <1>3
  <2>2. d.path = Disk /\ d.readonly = flags.readonly
    OBVIOUS
  <2> HIDE DEF d
  <2> QED
    BY <1>3, <2>1, <2>2
<1> QED
  BY <1>2, <1>3

LEMMA ArgsAre ==
    LET args == M!Args(machineSpec) IN
    /\ args.bios = IF flags.bios = "" THEN "qboot.bin" ELSE flags.bios
    /\ args.shape.accel = IF flags.accel = "" THEN "kvm" ELSE flags.accel
    /\ args.serial = IF flags.console # "" THEN <<"chardev", flags.console>> ELSE <<"none">>
<1>1. /\ machineSpec.accel = flags.accel /\ machineSpec.bios = flags.bios /\ machineSpec.serial = flags.console
      /\ machineSpec.serialFDSet = 0
  BY DEF machineSpec
<1> DEFINE args == M!Args(machineSpec)
<1>2. /\ args.bios = IF machineSpec.bios = "" THEN "qboot.bin" ELSE machineSpec.bios
      /\ args.shape = M!Shape(machineSpec)
      /\ args.serial = M!appendConsole(machineSpec)
  BY DEF M!Args
<1>3. M!Shape(machineSpec).accel = M!accel(machineSpec)
  BY DEF M!Shape
<1> HIDE DEF args
<1> QED
  <2>1. M!accel(machineSpec) = IF flags.accel = "" THEN "kvm" ELSE flags.accel
    BY <1>1 DEF M!accel
  <2>2. M!appendConsole(machineSpec) = IF flags.console # "" THEN <<"chardev", flags.console>> ELSE <<"none">>
    BY <1>1 DEF M!appendConsole
  <2>3. args.bios = IF flags.bios = "" THEN "qboot.bin" ELSE flags.bios
    BY <1>1, <1>2
  <2> QED
    BY <1>2, <1>3, <2>1, <2>2, <2>3 DEF args

LEMMA LineIs ==
    /\ cmdline.root = IF Disk = "-" THEN "" ELSE flags.root
    /\ cmdline.ro = (Disk # "-" /\ flags.readonly)
    /\ cmdline.console = IF flags.console = "" THEN "" ELSE "ttyS0"
<1>1. cmdline.root = IF Disk = "-" THEN "" ELSE flags.root
  BY DEF cmdline
<1>2. cmdline.ro = (Disk # "-" /\ flags.readonly)
  BY DEF cmdline
<1>3. cmdline.console = IF flags.console = "" THEN "" ELSE "ttyS0"
  BY DEF cmdline
<1> QED
  BY <1>1, <1>2, <1>3

\* However the installer and the command take turns: a file that was seen is there, the Spec
\* is the flags', and what runs is what the Spec asked for.
THEOREM BootInductive == BootSpec => []BootInv
<1>1. BootInit => BootInv
  <2> SUFFICES ASSUME BootInit PROVE BootInv
    OBVIOUS
  <2>1. TypeInv
    BY BootAssumption DEF BootInit, TypeInv, Steps
  <2>2. PartsInv /\ MadeInv /\ RanInv /\ BaseNeverWritten
    BY DEF BootInit, PartsInv, MadeInv, RanInv, BaseNeverWritten, NoSpec, None
  <2> QED
    BY <2>1, <2>2 DEF BootInv
<1>2. BootInv /\ [BootNext]_bootVars => BootInv'
  <2> SUFFICES ASSUME BootInv, [BootNext]_bootVars PROVE BootInv'
    OBVIOUS
  <2> USE DEF BootInv
  <2>0. flags' = flags
    BY DEF BootNext, bootVars, Stat, ReadEnv, FindTCG, MakeSpec, Say, Exec, Unpack, GuestWrites
  <2>a. scratch' = scratch /\ machineSpec' = machineSpec /\ cmdline' = cmdline /\ Binary' = Binary
    BY <2>0 DEF scratch, machineSpec, cmdline, Binary, Disk
  <2>b. snapshot(machineSpec)' = snapshot(machineSpec)
    BY <2>0, <2>a DEF snapshot
  <2>1. CASE Stat
    <3>1. TypeInv'
      BY <2>1, RequiredIs DEF Stat, TypeInv, Steps
    <3>2. PartsInv'
      BY <2>1, RequiredIs DEF Stat, PartsInv, TypeInv
    <3> QED
      BY <2>1, <2>a, <2>b, <3>1, <3>2 DEF Stat, MadeInv, RanInv, BaseNeverWritten
  <2>2. CASE ReadEnv
    <3>1. TypeInv' /\ PartsInv'
      BY <2>2, RequiredIs DEF ReadEnv, TypeInv, PartsInv, Steps
    <3> QED
      BY <2>2, <2>a, <2>b, <3>1 DEF ReadEnv, MadeInv, RanInv, BaseNeverWritten
  <2>3. CASE FindTCG
    <3>1. TypeInv' /\ PartsInv'
      BY <2>3 DEF FindTCG, TypeInv, PartsInv, Steps
    <3> QED
      BY <2>3, <2>a, <2>b, <3>1 DEF FindTCG, MadeInv, RanInv, BaseNeverWritten
  <2>4. CASE MakeSpec
    <3>1. TypeInv' /\ PartsInv'
      BY <2>4, FlagTypes DEF MakeSpec, TypeInv, PartsInv, Steps
    <3>2. MadeInv'
      BY <2>4, <2>a, FlagTypes DEF MakeSpec, MadeInv, TypeInv
    <3>3. RanInv'
      BY <2>4, <2>a, <2>b, FlagTypes DEF MakeSpec, RanInv, TypeInv
    <3> QED
      BY <2>4, <3>1, <3>2, <3>3 DEF MakeSpec, BaseNeverWritten
  <2>5. CASE Say
    <3>1. step' \in {"ok", "failed"}
      BY <2>5 DEF Say
    <3>2. TypeInv' /\ PartsInv'
      BY <2>5, <3>1 DEF Say, TypeInv, PartsInv, Steps
    <3> QED
      BY <2>5, <2>a, <2>b, <3>1, <3>2 DEF Say, MadeInv, RanInv, BaseNeverWritten
  <2>6. CASE Exec
    <3>1. TypeInv' /\ PartsInv'
      BY <2>6 DEF Exec, TypeInv, PartsInv, Steps
    <3>2. MadeInv'
      BY <2>6, <2>a DEF Exec, MadeInv
    <3>3. RanInv'
      <4>1. spec.made /\ spec.machine = machineSpec /\ spec.cmdline = cmdline
        BY <2>6 DEF Exec, MadeInv
      <4>2. ~ qemu.ran
        BY <2>6 DEF Exec, RanInv
      <4> QED
        BY <2>6, <2>a, <2>b, <4>1, <4>2 DEF Exec, RanInv
    <3> QED
      BY <2>6, <3>1, <3>2, <3>3 DEF Exec, BaseNeverWritten
  <2>7. ASSUME NEW f \in Tree, Unpack(f) PROVE BootInv'
    <3>1. tree \subseteq tree' /\ tree' \subseteq Tree
      BY <2>7 DEF Unpack, TypeInv
    <3>2. TypeInv' /\ PartsInv'
      BY <2>7, <3>1 DEF Unpack, TypeInv, PartsInv
    <3> QED
      BY <2>7, <2>a, <2>b, <3>1, <3>2 DEF Unpack, MadeInv, RanInv, BaseNeverWritten
  <2>8. CASE GuestWrites
    <3>1. TypeInv' /\ PartsInv' /\ MadeInv' /\ RanInv'
      BY <2>8, <2>a, <2>b DEF GuestWrites, TypeInv, PartsInv, MadeInv, RanInv
    <3>2. PICK i \in DOMAIN qemu.drives :
            written' = written \cup {[overlay |-> qemu.snapshot, image |-> qemu.drives[i].path]}
      BY <2>8 DEF GuestWrites
    <3>3. qemu.ran /\ qemu.drives = machineSpec.disks /\ qemu.snapshot = snapshot(machineSpec)
      BY <2>8 DEF GuestWrites, RanInv
    <3>4. Disk # "-" /\ qemu.drives[i].path = Disk /\ Len(machineSpec.disks) = 1
      BY <3>2, <3>3, DrivesAre
    <3>5. qemu.snapshot \/ Disk \notin Tree
      <4>1. CASE scratch
        <5>1. snapshot(machineSpec)
          BY <3>4, <4>1 DEF snapshot
        <5> QED
          BY <3>3, <5>1
      <4>2. CASE ~ scratch
        BY <4>2, FlagTypes DEF Disk, TypeInv
      <4> QED
        BY <4>1, <4>2
    <3>6. BaseNeverWritten'
      BY <3>2, <3>4, <3>5 DEF BaseNeverWritten
    <3> QED
      BY <3>1, <3>6
  <2>9. CASE UNCHANGED bootVars
    BY <2>9, <2>a, <2>b DEF bootVars, TypeInv, PartsInv, MadeInv, RanInv, BaseNeverWritten
  <2> QED
    BY <2>1, <2>2, <2>3, <2>4, <2>5, <2>6, <2>7, <2>8, <2>9 DEF BootNext
<1> QED
  BY <1>1, <1>2, PTL DEF BootSpec

\* The base is never written: what a guest writes to a file of the release goes to an
\* overlay that is thrown away.
THEOREM BaseUnwritten == BootSpec => []BaseNeverWritten
<1>1. BootInv => BaseNeverWritten
  BY DEF BootInv
<1> QED
  BY <1>1, BootInductive, PTL

\* A QEMU that is started finds every file of the release that it opens, but for a BIOS the
\* caller named.
THEOREM NothingMissing == BootSpec => []NoPartMissing
<1>1. BootInv => NoPartMissing
  <2> SUFFICES ASSUME BootInv, qemu.ran
               PROVE  ({qemu.binary, "kernel", "pvh.bin", qemu.args.bios}
                        \cup {qemu.drives[i].path : i \in DOMAIN qemu.drives}) \cap Tree \subseteq tree \cup {flags.bios}
    BY DEF NoPartMissing
  <2> USE DEF BootInv
  <2>1. /\ step = "running" /\ qemu.binary = Binary /\ (Binary \in tree \/ Binary \notin Tree)
        /\ qemu.args = M!Args(machineSpec) /\ qemu.drives = machineSpec.disks
    BY DEF RanInv
  <2>2. stats = 5
    BY <2>1 DEF PartsInv
  <2>3. {"kernel", "pvh.bin", "qboot.bin"} \subseteq tree
    BY <2>2, RequiredIs DEF PartsInv
  <2>4. qemu.args.bios \in {"qboot.bin", flags.bios}
    BY <2>1, ArgsAre
  <2>5. scratch => "rootfs" \in tree
    BY <2>1 DEF MadeInv
  <2>6. ASSUME NEW i \in DOMAIN qemu.drives, qemu.drives[i].path \in Tree PROVE qemu.drives[i].path \in tree
    <3>1. qemu.drives[i].path = Disk
      BY <2>1, DrivesAre
    <3> QED
      BY <2>5, <2>6, <3>1, FlagTypes DEF Disk, TypeInv
  <2> QED
    BY <2>1, <2>3, <2>4, <2>6
<1> QED
  BY <1>1, BootInductive, PTL

\* The machine and the kernel's command line are of one boot.
THEOREM OneBoot == BootSpec => []MachineFitsKernel
<1>1. BootInv => MachineFitsKernel
  <2> SUFFICES ASSUME BootInv, qemu.ran
               PROVE  /\ qemu.binary \in {"qemu", "qemu-tcg"} => (qemu.binary = "qemu-tcg" <=> qemu.args.shape.accel = "tcg")
                      /\ qemu.cmdline.root # "" => qemu.drives # <<>> /\ (qemu.cmdline.ro \/ ~ qemu.drives[1].readonly)
                      /\ qemu.cmdline.console = "ttyS0" <=> qemu.args.serial # <<"none">>
    BY DEF MachineFitsKernel
  <2> USE DEF BootInv
  <2>1. /\ qemu.binary = Binary /\ qemu.args = M!Args(machineSpec) /\ qemu.drives = machineSpec.disks
        /\ qemu.cmdline = cmdline
    BY DEF RanInv
  <2>2. qemu.args.shape.accel = IF flags.accel = "" THEN "kvm" ELSE flags.accel
    BY <2>1, ArgsAre
  <2>3. flags.qemu # "qemu" /\ flags.qemu # "qemu-tcg"
    BY FlagTypes DEF TypeInv, Tree
  <2>4. qemu.binary \in {"qemu", "qemu-tcg"} => (qemu.binary = "qemu-tcg" <=> qemu.args.shape.accel = "tcg")
    BY <2>1, <2>2, <2>3 DEF Binary
  <2>5. ASSUME qemu.cmdline.root # "" PROVE qemu.drives # <<>> /\ (qemu.cmdline.ro \/ ~ qemu.drives[1].readonly)
    <3>1. Disk # "-" /\ qemu.cmdline.ro = (Disk # "-" /\ flags.readonly)
      BY <2>1, <2>5, LineIs
    <3>2. qemu.drives # <<>> /\ qemu.drives[1].readonly = flags.readonly
      BY <2>1, <3>1, DrivesAre
    <3> QED
      BY <3>1, <3>2
  <2>6. qemu.args.serial = IF flags.console # "" THEN <<"chardev", flags.console>> ELSE <<"none">>
    BY <2>1, ArgsAre
  <2>7. qemu.cmdline.console = "ttyS0" <=> flags.console # ""
    BY <2>1, LineIs
  <2>8. <<"chardev", flags.console>> # <<"none">>
    OBVIOUS
  <2> QED
    BY <2>4, <2>5, <2>6, <2>7, <2>8
<1> QED
  BY <1>1, BootInductive, PTL

-----------------------------------------------------------------------------
(* Watch.                                                                   *)

\* m is in s after its first i bytes.
Starts(s, m, i) == \A k \in 1..Len(m) : s[i + k] = m[k]

\* bytes.Contains, byte by byte.
LEMMA Bytewise ==
    ASSUME NEW s \in Seq(Bytes), NEW m \in Seq(Bytes), m # <<>>
    PROVE  bytesContains(s, m) <=> \E i \in 0..(Len(s) - Len(m)) : Starts(s, m, i)
<1>1. Len(s) \in Nat /\ Len(m) \in Nat \ {0}
  BY EmptySeq, LenProperties
<1>2. \A i \in 1..Len(s) : i + Len(m) - 1 <= Len(s) =>
          (SubSeq(s, i, i + Len(m) - 1) = m <=> Starts(s, m, i - 1))
  <2> SUFFICES ASSUME NEW i \in 1..Len(s), i + Len(m) - 1 <= Len(s)
               PROVE  SubSeq(s, i, i + Len(m) - 1) = m <=> Starts(s, m, i - 1)
    OBVIOUS
  <2> DEFINE t == SubSeq(s, i, i + Len(m) - 1)
  <2>1. \A j \in i..(i + Len(m) - 1) : s[j] \in Bytes
    BY <1>1, ElementOfSeq
  <2>2. t \in Seq(Bytes) /\ Len(t) = Len(m) /\ \A j \in 1..Len(m) : t[j] = s[i + j - 1]
    BY <1>1, <2>1, SubSeqProperties
  <2>3. t = m => Starts(s, m, i - 1)
    BY <1>1, <2>2 DEF Starts
  <2>4. Starts(s, m, i - 1) => t = m
    <3> HIDE DEF t
    <3>1. Starts(s, m, i - 1) => \A j \in 1..Len(t) : t[j] = m[j]
      BY <1>1, <2>2 DEF Starts
    <3> QED
      BY <2>2, <3>1, SeqEqual
  <2> QED
    BY <2>3, <2>4
<1>3. ASSUME NEW i \in 1..Len(s), i + Len(m) - 1 <= Len(s)
      PROVE  i - 1 \in 0..(Len(s) - Len(m))
  BY <1>1, <1>3
<1>4. ASSUME NEW i \in 0..(Len(s) - Len(m))
      PROVE  /\ i + 1 \in 1..Len(s) /\ (i + 1) + Len(m) - 1 <= Len(s) /\ (i + 1) - 1 = i
  BY <1>1, <1>4
<1>5. bytesContains(s, m) => \E i \in 0..(Len(s) - Len(m)) : Starts(s, m, i)
  BY <1>2, <1>3 DEF bytesContains
<1>6. ASSUME NEW i \in 0..(Len(s) - Len(m)), Starts(s, m, i)
      PROVE  bytesContains(s, m)
  <2>1. SubSeq(s, i + 1, (i + 1) + Len(m) - 1) = m
    BY <1>2, <1>4, <1>6
  <2> QED
    BY <1>4, <2>1 DEF bytesContains
<1> QED
  BY <1>5, <1>6

\* There is a longest marker, and no marker is longer than what overlap leaves room for.
LEMMA OverlapFits ==
    /\ overlap \in Nat
    /\ \A p \in Phases : \A m \in markers[p] : m \in Seq(Bytes) /\ m # <<>> /\ Len(m) \in 1..(overlap + 1)
<1>1. PICK m \in Marks : \A k \in Marks : Len(k) <= Len(m)
  BY WatchAssumption
<1>2. \A k \in Marks : k \in Seq(Bytes) /\ k # <<>> /\ Len(k) \in Nat \ {0}
  BY WatchAssumption, EmptySeq DEF Marks
<1>3. Longest \in {Len(k) : k \in Marks} /\ \A k \in Marks : Len(k) <= Longest
  BY <1>1 DEF Longest
<1> QED
  BY <1>2, <1>3 DEF overlap, Marks

\* What is kept of a sequence is its end.
LEMMA KeepEnd ==
    ASSUME NEW s \in Seq(Bytes), NEW n \in Nat
    PROVE  /\ Keep(s, n) \in Seq(Bytes)
           /\ Len(Keep(s, n)) <= Len(s)
           /\ Len(Keep(s, n)) = Len(s) \/ Len(Keep(s, n)) = n
           /\ \A i \in 1..Len(Keep(s, n)) : Keep(s, n)[i] = s[Len(s) - Len(Keep(s, n)) + i]
<1>1. Len(s) \in Nat
  BY LenProperties
<1>2. CASE Len(s) > n
  <2> DEFINE t == SubSeq(s, Len(s) - n + 1, Len(s))
  <2>1. \A j \in (Len(s) - n + 1)..Len(s) : s[j] \in Bytes
    BY <1>1, <1>2, ElementOfSeq
  <2>2. t \in Seq(Bytes) /\ Len(t) = n /\ \A j \in 1..n : t[j] = s[Len(s) - n + 1 + j - 1]
    BY <1>1, <1>2, <2>1, SubSeqProperties
  <2>3. Keep(s, n) = t
    BY <1>2 DEF Keep
  <2> HIDE DEF t
  <2> QED
    BY <1>1, <1>2, <2>2, <2>3
<1>3. CASE ~ Len(s) > n
  BY <1>1, <1>3 DEF Keep
<1> QED
  BY <1>2, <1>3

\* A marker that appears with new bytes is in the window with them, if the window is all of
\* the output or one byte shorter than the marker.
LEMMA WindowSuffices ==
    ASSUME NEW s \in Seq(Bytes), NEW w \in Seq(Bytes), NEW c \in Seq(Bytes), NEW m \in Seq(Bytes), m # <<>>,
           Len(w) <= Len(s), \A i \in 1..Len(w) : w[i] = s[Len(s) - Len(w) + i],
           Len(w) = Len(s) \/ Len(m) <= Len(w) + 1
    PROVE  bytesContains(s \o c, m) <=> bytesContains(s, m) \/ bytesContains(w \o c, m)
<1> DEFINE d == Len(s) - Len(w)
<1>1. Len(s) \in Nat /\ Len(w) \in Nat /\ Len(c) \in Nat /\ Len(m) \in Nat \ {0} /\ d \in Nat
  BY EmptySeq, LenProperties
<1>2. /\ s \o c \in Seq(Bytes) /\ Len(s \o c) = Len(s) + Len(c)
      /\ \A i \in 1..(Len(s) + Len(c)) : (s \o c)[i] = IF i <= Len(s) THEN s[i] ELSE c[i - Len(s)]
  BY ConcatProperties
<1>3. /\ w \o c \in Seq(Bytes) /\ Len(w \o c) = Len(w) + Len(c)
      /\ \A i \in 1..(Len(w) + Len(c)) : (w \o c)[i] = IF i <= Len(w) THEN w[i] ELSE c[i - Len(w)]
  BY ConcatProperties
<1>4. \A i \in 1..(Len(w) + Len(c)) : (w \o c)[i] = (s \o c)[d + i]
  <2> SUFFICES ASSUME NEW i \in 1..(Len(w) + Len(c)) PROVE (w \o c)[i] = (s \o c)[d + i]
    OBVIOUS
  <2>1. d + i \in 1..(Len(s) + Len(c)) /\ (i <= Len(w) <=> d + i <= Len(s)) /\ (d + i) - Len(s) = i - Len(w)
    BY <1>1
  <2>2. CASE i <= Len(w)
    BY <1>1, <1>2, <1>3, <2>1, <2>2
  <2>3. CASE ~ i <= Len(w)
    BY <1>1, <1>2, <1>3, <2>1, <2>3
  <2> QED
    BY <2>2, <2>3
<1> HIDE DEF d
<1>5. bytesContains(s, m) => bytesContains(s \o c, m)
  <2> SUFFICES ASSUME NEW i \in 0..(Len(s) - Len(m)), Starts(s, m, i)
               PROVE  i \in 0..(Len(s \o c) - Len(m)) /\ Starts(s \o c, m, i)
    BY <1>2, Bytewise
  <2> QED
    BY <1>1, <1>2 DEF Starts
<1>6. bytesContains(w \o c, m) => bytesContains(s \o c, m)
  <2> SUFFICES ASSUME NEW i \in 0..(Len(w \o c) - Len(m)), Starts(w \o c, m, i)
               PROVE  bytesContains(s \o c, m)
    BY <1>3, Bytewise
  <2>1. d + i \in 0..(Len(s \o c) - Len(m))
    BY <1>1, <1>2, <1>3 DEF d
  <2>2. \A k \in 1..Len(m) : i + k \in 1..(Len(w) + Len(c)) /\ d + (i + k) = (d + i) + k
    BY <1>1, <1>3
  <2>3. Starts(s \o c, m, d + i)
    BY <1>4, <2>2 DEF Starts
  <2> QED
    BY <1>2, <2>1, <2>3, Bytewise
<1>7. ASSUME NEW i \in 0..(Len(s \o c) - Len(m)), Starts(s \o c, m, i)
      PROVE  bytesContains(s, m) \/ bytesContains(w \o c, m)
  <2>1. CASE i + Len(m) <= Len(s)
    <3>1. i \in 0..(Len(s) - Len(m))
      BY <1>1, <2>1
    <3>2. \A k \in 1..Len(m) : i + k \in 1..(Len(s) + Len(c)) /\ i + k <= Len(s)
      BY <1>1, <2>1
    <3>3. Starts(s, m, i)
      BY <1>2, <1>7, <3>2 DEF Starts
    <3> QED
      BY <3>1, <3>3, Bytewise
  <2>2. CASE i + Len(m) > Len(s)
    <3>1. i - d \in 0..(Len(w \o c) - Len(m))
      BY <1>1, <1>2, <1>3, <2>2 DEF d
    <3>2. \A k \in 1..Len(m) : (i - d) + k \in 1..(Len(w) + Len(c)) /\ d + ((i - d) + k) = i + k
      BY <1>1, <1>3, <3>1
    <3>3. Starts(w \o c, m, i - d)
      BY <1>4, <1>7, <3>2 DEF Starts
    <3> QED
      BY <1>3, <3>1, <3>3, Bytewise
  <2> QED
    BY <1>1, <1>2, <2>1, <2>2
<1> QED
  BY <1>2, <1>5, <1>6, <1>7, Bytewise

\* What was read before stays where it is.
LEMMA Prefix ==
    ASSUME NEW s \in Seq(Bytes), NEW c \in Seq(Bytes), NEW n \in Nat, n <= Len(s)
    PROVE  SubSeq(s \o c, 1, n) = SubSeq(s, 1, n)
<1>1. Len(s) \in Nat /\ Len(c) \in Nat
  BY LenProperties
<1>2. \A i \in 1..n : s[i] \in Bytes /\ (s \o c)[i] = s[i]
  BY <1>1, ElementOfSeq, ConcatProperties
<1>3. /\ SubSeq(s, 1, n) \in Seq(Bytes) /\ Len(SubSeq(s, 1, n)) = n
      /\ \A i \in 1..n : SubSeq(s, 1, n)[i] = s[i]
  BY <1>2, SubSeqProperties
<1>4. /\ SubSeq(s \o c, 1, n) \in Seq(Bytes) /\ Len(SubSeq(s \o c, 1, n)) = n
      /\ \A i \in 1..n : SubSeq(s \o c, 1, n)[i] = (s \o c)[i]
  BY <1>2, SubSeqProperties
<1> QED
  BY <1>2, <1>3, <1>4, SeqEqual

-----------------------------------------------------------------------------
(* One read of the console.                                                 *)

\* While Watch reads, a phase's marker is in the output with a chunk exactly if it was in the
\* output before or is in the window with the chunk.
LEMMA ChunkAppears ==
    ASSUME WatchInv, watch = "reading", NEW chunk \in Seq(Bytes), NEW p \in Phases
    PROVE  Appeared(p, output \o chunk) <=> Appeared(p, output) \/ Appeared(p, window \o chunk)
<1>1. output \in Seq(Bytes) /\ window \in Seq(Bytes) /\ Len(window) \in Nat
  BY LenProperties DEF WatchInv, WatchType
<1>2. /\ Len(window) <= Len(output)
      /\ \A i \in 1..Len(window) : window[i] = output[Len(output) - Len(window) + i]
      /\ Len(window) = Len(output) \/ Len(window) >= overlap
  BY DEF WatchInv, WindowInv
<1>3. ASSUME NEW m \in markers[p]
      PROVE  bytesContains(output \o chunk, m) <=> bytesContains(output, m) \/ bytesContains(window \o chunk, m)
  <2>1. m \in Seq(Bytes) /\ m # <<>> /\ Len(m) \in Nat /\ overlap \in Nat /\ Len(m) <= overlap + 1
    BY OverlapFits
  <2>2. Len(window) = Len(output) \/ Len(m) <= Len(window) + 1
    BY <1>1, <1>2, <2>1
  <2> QED
    BY <1>1, <1>2, <2>1, <2>2, WindowSuffices
<1> QED
  BY <1>3 DEF Appeared

\* A read that brings bytes, and what it leaves.
LEMMA ReadBytes ==
    ASSUME WatchInv, NEW chunk \in Seq(Bytes), chunk # <<>>, NEW err, Read(chunk, err)
    PROVE  WatchInv'
<1> DEFINE seen == window \o chunk
           n == Len(ends) + 1
<1>1. /\ watch = "reading" /\ until' = until
      /\ output' = output \o chunk
      /\ ends' = Append(ends, Len(output'))
      /\ at' = stamp(seen, Len(ends'))
      /\ window' = IF at'[until] # 0 THEN seen ELSE Keep(seen, overlap)
      /\ watch' \in {"reading", "ok", "failed"}
      /\ at'[until] # 0 => watch' = "ok"
  BY DEF Read
<1>2. /\ output \in Seq(Bytes) /\ window \in Seq(Bytes) /\ ends \in Seq(Nat)
      /\ until \in Phases /\ at \in [Phases -> Nat]
      /\ Len(output) \in Nat /\ Len(window) \in Nat /\ Len(chunk) \in Nat /\ Len(ends) \in Nat /\ overlap \in Nat
  BY LenProperties, OverlapFits DEF WatchInv, WatchType
<1>3. /\ output' \in Seq(Bytes) /\ Len(output') = Len(output) + Len(chunk)
      /\ \A i \in 1..(Len(output) + Len(chunk)) : output'[i] = IF i <= Len(output) THEN output[i] ELSE chunk[i - Len(output)]
  BY <1>1, <1>2, ConcatProperties
<1>4. /\ seen \in Seq(Bytes) /\ Len(seen) = Len(window) + Len(chunk)
      /\ \A i \in 1..(Len(window) + Len(chunk)) : seen[i] = IF i <= Len(window) THEN window[i] ELSE chunk[i - Len(window)]
  BY <1>2, ConcatProperties
<1>5. /\ ends' \in Seq(Nat) /\ Len(ends') = n /\ ends'[n] = Len(output')
      /\ \A i \in 1..Len(ends) : ends'[i] = ends[i]
  BY <1>1, <1>2, <1>3
<1>6. at' = [p \in Phases |-> IF at[p] = 0 /\ Appeared(p, seen) THEN n ELSE at[p]]
  BY <1>1, <1>5 DEF stamp, Appeared
<1> HIDE DEF seen
<1>7. WatchType'
  <2>1. window' \in Seq(Bytes)
    BY <1>1, <1>2, <1>4, KeepEnd
  <2>2. at' \in [Phases -> Nat]
    BY <1>2, <1>6
  <2> QED
    BY <1>1, <1>2, <1>3, <1>5, <2>1, <2>2 DEF WatchType
<1>8. WindowInv'
  <2>1. /\ Len(window) <= Len(output)
        /\ \A i \in 1..Len(window) : window[i] = output[Len(output) - Len(window) + i]
    BY DEF WatchInv, WindowInv
  <2>2. \A i \in 1..Len(seen) : seen[i] = output'[Len(output') - Len(seen) + i]
    <3> SUFFICES ASSUME NEW i \in 1..Len(seen) PROVE seen[i] = output'[Len(output') - Len(seen) + i]
      OBVIOUS
    <3>1. /\ Len(output') - Len(seen) + i \in 1..(Len(output) + Len(chunk))
          /\ i \in 1..(Len(window) + Len(chunk))
          /\ Len(output') - Len(seen) + i <= Len(output) <=> i <= Len(window)
          /\ Len(output') - Len(seen) + i - Len(output) = i - Len(window)
          /\ Len(output') - Len(seen) + i = Len(output) - Len(window) + i
      BY <1>2, <1>3, <1>4, <2>1
    <3> DEFINE j == Len(output') - Len(seen) + i
    <3>2. seen[i] = IF i <= Len(window) THEN window[i] ELSE chunk[i - Len(window)]
      BY <1>4, <3>1
    <3>3. output'[j] = IF j <= Len(output) THEN output[j] ELSE chunk[j - Len(output)]
      BY <1>3, <3>1
    <3>4. i <= Len(window) => window[i] = output[j]
      BY <1>2, <2>1, <3>1
    <3> HIDE DEF j
    <3>5. (j <= Len(output) <=> i <= Len(window)) /\ j - Len(output) = i - Len(window)
      BY <3>1 DEF j
    <3>6. seen[i] = output'[j]
      BY <3>2, <3>3, <3>4, <3>5
    <3> QED
      BY <3>6 DEF j
  <2>3. Len(seen) \in Nat /\ Len(output') \in Nat /\ Len(seen) <= Len(output')
    BY <1>2, <1>3, <1>4, <2>1
  <2>4. CASE at'[until] # 0
    BY <1>1, <2>2, <2>3, <2>4 DEF WindowInv
  <2>5. CASE at'[until] = 0
    <3> DEFINE k == Keep(seen, overlap)
    <3>1. /\ k \in Seq(Bytes) /\ Len(k) <= Len(seen) /\ (Len(k) = Len(seen) \/ Len(k) = overlap)
          /\ \A i \in 1..Len(k) : k[i] = seen[Len(seen) - Len(k) + i]
      BY <1>2, <1>4, KeepEnd
    <3>2. window' = k /\ Len(k) \in Nat
      BY <1>1, <2>5, <3>1, LenProperties
    <3> HIDE DEF k
    <3>3. \A i \in 1..Len(k) : /\ Len(seen) - Len(k) + i \in 1..Len(seen)
                               /\ Len(output') - Len(seen) + (Len(seen) - Len(k) + i) = Len(output') - Len(k) + i
      BY <2>3, <3>1, <3>2
    <3>4. \A i \in 1..Len(k) : k[i] = output'[Len(output') - Len(k) + i]
      BY <2>2, <3>1, <3>3
    <3>5. Len(seen) = Len(output') \/ Len(seen) >= overlap
      <4>1. Len(window) = Len(output) \/ Len(window) >= overlap
        BY <1>1 DEF WatchInv, WindowInv
      <4>2. /\ Len(seen) = Len(window) + Len(chunk) /\ Len(output') = Len(output) + Len(chunk)
            /\ Len(window) \in Nat /\ Len(output) \in Nat /\ Len(chunk) \in Nat /\ overlap \in Nat
        BY <1>2, <1>3, <1>4
      <4> QED
        BY <4>1, <4>2
    <3> QED
      BY <1>2, <2>3, <3>1, <3>2, <3>4, <3>5 DEF WindowInv
  <2> QED
    BY <2>4, <2>5
<1>9. EndsInv'
  <2>1. /\ \A p \in Phases : at[p] <= Len(ends)
        /\ \A i \in 1..Len(ends) : ends[i] \in Nat /\ ends[i] <= Len(output)
    BY <1>2, ElementOfSeq DEF WatchInv, EndsInv
  <2>2. \A p \in Phases : at'[p] <= Len(ends')
    BY <1>2, <1>5, <1>6, <2>1
  <2>3. \A i \in 1..Len(ends') : ends'[i] <= Len(output')
    <3> SUFFICES ASSUME NEW i \in 1..Len(ends') PROVE ends'[i] <= Len(output')
      OBVIOUS
    <3>1. CASE i = n
      BY <1>2, <1>3, <1>5, <3>1
    <3>2. CASE i # n
      <4>1. i \in 1..Len(ends)
        BY <1>2, <1>5, <3>2
      <4>2. ends'[i] = ends[i] /\ ends[i] \in Nat /\ ends[i] <= Len(output)
        BY <1>5, <2>1, <4>1
      <4> QED
        BY <1>2, <1>3, <4>2
    <3> QED
      BY <3>1, <3>2
  <2> QED
    BY <1>2, <1>5, <2>2, <2>3 DEF EndsInv
<1>10. SeenInv'
  <2> SUFFICES ASSUME NEW p \in Phases PROVE at'[p] # 0 <=> Appeared(p, output')
    BY DEF SeenInv, Appeared
  <2>1. Appeared(p, output') <=> Appeared(p, output) \/ Appeared(p, seen)
    BY <1>1, ChunkAppears DEF seen
  <2>2. at[p] # 0 <=> Appeared(p, output)
    BY DEF WatchInv, SeenInv
  <2> QED
    BY <1>2, <1>6, <2>1, <2>2
<1>11. UntilInv'
  <2>1. at[until] = 0
    BY <1>1, <1>2 DEF WatchInv, UntilInv
  <2> QED
    BY <1>1, <1>2, <1>5, <1>6, <2>1 DEF UntilInv
<1>12. StampedWhereItAppeared'
  <2> SUFFICES ASSUME NEW p \in Phases
               PROVE  IF at'[p] = 0 THEN ~ Appeared(p, output')
                      ELSE /\ Appeared(p, SubSeq(output', 1, ends'[at'[p]]))
                           /\ at'[p] > 1 => ~ Appeared(p, SubSeq(output', 1, ends'[at'[p] - 1]))
    BY DEF StampedWhereItAppeared, Appeared
  <2>1. at'[p] # 0 <=> Appeared(p, output')
    BY <1>10 DEF SeenInv, Appeared
  <2>2. at[p] # 0 <=> Appeared(p, output)
    BY DEF WatchInv, SeenInv
  <2>3. \A i \in 1..Len(ends) : SubSeq(output', 1, ends'[i]) = SubSeq(output, 1, ends[i])
    <3> SUFFICES ASSUME NEW i \in 1..Len(ends) PROVE SubSeq(output', 1, ends'[i]) = SubSeq(output, 1, ends[i])
      OBVIOUS
    <3>1. ends[i] \in Nat /\ ends[i] <= Len(output) /\ ends'[i] = ends[i]
      BY <1>2, <1>5, ElementOfSeq DEF WatchInv, EndsInv
    <3> QED
      BY <1>1, <1>2, <3>1, Prefix
  <2>4. CASE at[p] # 0
    <3>1. at'[p] = at[p] /\ at[p] \in 1..Len(ends)
      BY <1>2, <1>6, <2>4 DEF WatchInv, EndsInv
    <3>2. /\ Appeared(p, SubSeq(output, 1, ends[at[p]]))
          /\ at[p] > 1 => ~ Appeared(p, SubSeq(output, 1, ends[at[p] - 1]))
      BY <2>4 DEF WatchInv, StampedWhereItAppeared
    <3>3. at[p] > 1 => at[p] - 1 \in 1..Len(ends)
      BY <1>2, <3>1
    <3> QED
      BY <2>3, <2>4, <3>1, <3>2, <3>3
  <2>5. CASE at[p] = 0 /\ at'[p] # 0
    <3>1. at'[p] = n /\ ends'[n] = Len(output')
      BY <1>5, <1>6, <2>5
    <3>2. SubSeq(output', 1, ends'[n]) = output'
      BY <1>3, <3>1, SubSeqFull
    <3>3. n > 1 => SubSeq(output', 1, ends'[n - 1]) = output
      <4> HAVE n > 1
      <4>1. n - 1 = Len(ends) /\ Len(ends) \in 1..Len(ends) /\ ends[Len(ends)] = Len(output)
        BY <1>2 DEF WatchInv, EndsInv
      <4> QED
        BY <1>2, <2>3, <4>1, SubSeqFull
    <3> QED
      BY <2>1, <2>2, <2>5, <3>1, <3>2, <3>3
  <2> QED
    BY <2>1, <2>4, <2>5
<1> QED
  BY <1>7, <1>8, <1>9, <1>10, <1>11, <1>12 DEF WatchInv

\* A read that brings none leaves everything but how Watch returns.
LEMMA ReadNothing ==
    ASSUME WatchInv, NEW err, Read(<<>>, err)
    PROVE  WatchInv'
<1>1. /\ UNCHANGED <<until, output, ends, at, window>>
      /\ watch = "reading" /\ watch' \in {"reading", "ok", "failed"}
  BY DEF Read
<1>2. at[until] = 0
  BY <1>1 DEF WatchInv, UntilInv
<1> QED
  BY <1>1, <1>2 DEF WatchInv, WatchType, WindowInv, EndsInv, SeenInv, UntilInv, StampedWhereItAppeared, Appeared

-----------------------------------------------------------------------------
(* The watcher's theorems.                                                  *)

\* The window between two reads is the end of the output, and what is stamped so far is right.
THEOREM WatchInductive == WatchSpec => []WatchInv
<1>1. WatchInit => WatchInv
  <2> SUFFICES ASSUME WatchInit PROVE WatchInv
    OBVIOUS
  <2>1. /\ until \in Phases /\ output = <<>> /\ window = <<>> /\ ends = <<>>
        /\ at = [p \in Phases |-> 0] /\ watch = "reading"
    BY DEF WatchInit
  <2>2. /\ <<>> \in Seq(Bytes) /\ <<>> \in Seq(Nat) /\ Len(<<>>) = 0
    BY EmptySeq
  <2>3. \A p \in Phases : ~ Appeared(p, <<>>)
    BY <2>2 DEF Appeared, bytesContains
  <2>4. WatchType /\ WindowInv /\ EndsInv /\ UntilInv
    BY <2>1, <2>2 DEF WatchType, WindowInv, EndsInv, UntilInv
  <2>5. SeenInv /\ StampedWhereItAppeared
    BY <2>1, <2>3 DEF SeenInv, StampedWhereItAppeared
  <2> QED
    BY <2>4, <2>5 DEF WatchInv
<1>2. WatchInv /\ [WatchNext]_watchVars => WatchInv'
  <2> SUFFICES ASSUME WatchInv, [WatchNext]_watchVars PROVE WatchInv'
    OBVIOUS
  <2>1. CASE WatchNext
    <3>1. PICK chunk \in Chunks, err \in {"nil", "EOF", "error"} : Read(chunk, err)
      BY <2>1 DEF WatchNext
    <3>2. chunk \in Seq(Bytes)
      BY WatchAssumption, SeqDef DEF Chunks
    <3> QED
      BY <3>1, <3>2, ReadBytes, ReadNothing
  <2>2. CASE UNCHANGED watchVars
    BY <2>2 DEF watchVars, WatchInv, WatchType, WindowInv, EndsInv, SeenInv, UntilInv, StampedWhereItAppeared, Appeared
  <2> QED
    BY <2>1, <2>2
<1> QED
  BY <1>1, <1>2, PTL DEF WatchSpec

\* Every phase is stamped at the read that completes the first of its markers, for any
\* markers, any console and any way of cutting it into reads.
THEOREM StampsAreExact == WatchSpec => []StampedWhereItAppeared
<1>1. WatchInv => StampedWhereItAppeared
  BY DEF WatchInv
<1> QED
  BY <1>1, WatchInductive, PTL

\* Watch returns at the read in which the phase it was asked for appears, and at no other.
THEOREM WatchReturns == WatchSpec => []ReturnsOnceReached
<1>1. WatchInv => ReturnsOnceReached
  <2> SUFFICES ASSUME WatchInv PROVE ReturnsOnceReached
    OBVIOUS
  <2>1. /\ until \in Phases /\ at[until] \in Nat /\ ends \in Seq(Nat) /\ Len(ends) \in Nat
        /\ Len(ends) # 0 <=> ends # <<>>
    BY EmptySeq, LenProperties DEF WatchInv, WatchType
  <2>2. at[until] # 0 <=> Appeared(until, output)
    BY <2>1 DEF WatchInv, SeenInv
  <2>3. at[until] <= Len(ends) /\ (at[until] # 0 => watch = "ok" /\ at[until] = Len(ends))
    BY <2>1 DEF WatchInv, EndsInv, UntilInv
  <2> QED
    BY <2>1, <2>2, <2>3 DEF ReturnsOnceReached
<1> QED
  BY <1>1, WatchInductive, PTL

-----------------------------------------------------------------------------
(* The machine type: releases and their versions.                           *)

LEMMA Numbers ==
    /\ FirstMajor \in Nat /\ Minors \in Nat /\ Minors > 0
    /\ DeprecatedAfter \in Nat /\ DeprecatedAfter > 0 /\ RemovedAfter \in Nat /\ RemovedAfter > 0
    /\ MaxSkip \in Nat /\ DeprecatedAfter + MaxSkip <= RemovedAfter
BY MachineTypeAssumption

LEMMA DivMod ==
    ASSUME NEW r \in Nat
    PROVE  /\ r \div Minors \in Nat /\ r % Minors \in 0..(Minors - 1)
           /\ r = Minors * (r \div Minors) + (r % Minors)
<1>1. r \in Int /\ Minors \in Int /\ Minors > 0 /\ Minors \in Nat
  BY Numbers
<1>2. r = Minors * (r \div Minors) + (r % Minors)
  BY <1>1, Z3T(30)
<1>3. r % Minors \in 0..(Minors - 1)
  BY <1>1
<1>4. r \div Minors \in Nat
  BY <1>1
<1> QED
  BY <1>2, <1>3, <1>4

LEMMA Multiples ==
    ASSUME NEW a \in Nat, NEW b \in Nat, a < b, NEW m \in Nat
    PROVE  m * a + m <= m * b
<1>1. PICK k \in Nat : b = a + 1 + k
  <2>1. b - a - 1 \in Nat /\ b = a + 1 + (b - a - 1)
    OBVIOUS
  <2> QED
    BY <2>1
<1>2. m * b = m * a + m + m * k
  BY <1>1
<1>3. m * k \in Nat /\ m * a \in Nat
  BY <1>1
<1> QED
  BY <1>2, <1>3

\* The order of versions is the order of releases: 10.0 is newer than 9.2.
LEMMA VersionOrder ==
    ASSUME NEW a \in Nat, NEW b \in Nat
    PROVE  /\ newer(version(a), version(b)) <=> a > b
           /\ version(a) = version(b) <=> a = b
           /\ version(a)[1] \in Nat /\ version(a)[2] \in Nat
           /\ version(a) = <<version(a)[1], version(a)[2]>> /\ version(a) # <<>>
<1> DEFINE qa == a \div Minors
           qb == b \div Minors
           ra == a % Minors
           rb == b % Minors
           m == Minors
<1>1. /\ qa \in Nat /\ qb \in Nat /\ ra \in 0..(m - 1) /\ rb \in 0..(m - 1)
      /\ a = m * qa + ra /\ b = m * qb + rb /\ m \in Nat
  BY Numbers, DivMod
<1>2. newer(version(a), version(b)) <=> qa > qb \/ (qa = qb /\ ra > rb)
  BY Numbers, <1>1 DEF newer, version
<1>3. version(a) = version(b) <=> qa = qb /\ ra = rb
  BY Numbers, <1>1 DEF version
<1>4. version(a) = <<FirstMajor + qa, ra>>
  BY DEF version
<1> HIDE DEF qa, qb, ra, rb, m
<1>5. (qa < qb => m * qa + m <= m * qb) /\ (qb < qa => m * qb + m <= m * qa)
  BY <1>1, Multiples
<1>6. m * qa \in Nat /\ m * qb \in Nat
  BY <1>1
<1>7. (newer(version(a), version(b)) <=> a > b) /\ (version(a) = version(b) <=> a = b)
  BY <1>1, <1>2, <1>3, <1>5, <1>6
<1>8. version(a)[1] = FirstMajor + qa /\ version(a)[2] = ra
  BY <1>4
<1>9. version(a)[1] \in Nat /\ version(a)[2] \in Nat
  BY <1>1, <1>8, Numbers
<1>10. version(a) = <<version(a)[1], version(a)[2]>> /\ version(a) # <<>>
  BY <1>4, <1>8
<1> QED
  BY <1>7, <1>9, <1>10

Less == OpToRel(<, Nat)

\* A set of naturals has a smallest one: what fails for some n fails for a first one.
LEMMA HasMin ==
    ASSUME NEW S \in SUBSET Nat, S # {}
    PROVE  \E n \in S : \A m \in S : n <= m
<1>1. IsWellFoundedOn(Less, Nat)
  BY NatLessThanWellFounded DEF Less
<1>2. PICK n \in S : \A m \in S : ~ (<<m, n>> \in Less)
  BY <1>1, WFMin
<1>3. Less = {ss \in Nat \X Nat : ss[1] < ss[2]}
  BY DEF Less, OpToRel
<1>4. ASSUME NEW m \in S PROVE n <= m
  <2>1. n \in Nat /\ m \in Nat /\ <<m, n>> \in Nat \X Nat
    OBVIOUS
  <2>2. ~ (m < n)
    BY <1>2, <1>3, <2>1
  <2> QED
    BY <2>1, <2>2
<1> QED
  BY <1>4

-----------------------------------------------------------------------------
(* Check reads QEMU's answer in whatever order it comes.                    *)

Line(q, r) == [v |-> version(r), deprecated |-> q - r >= DeprecatedAfter]

LEMMA HelpIs ==
    ASSUME NEW q \in Nat, NEW lines \in help(q)
    PROVE  /\ Len(lines) \in Nat /\ DOMAIN lines = 1..Len(lines)
           /\ \A i \in 1..Len(lines) : \E r \in Offered(q) : lines[i] = Line(q, r)
           /\ \A r \in Offered(q) : \E i \in 1..Len(lines) : lines[i] = Line(q, r)
<1> DEFINE S == {Line(q, r) : r \in Offered(q)}
           f == [r \in Offered(q) |-> Line(q, r)]
           n == Cardinality(S)
<1>1. IsFiniteSet(Offered(q))
  <2>1. Offered(q) \in SUBSET (0..q) /\ IsFiniteSet(0..q)
    BY FS_Interval DEF Offered
  <2> QED
    BY <2>1, FS_Subset
<1>2. f \in Surjection(Offered(q), S)
  BY DEF Surjection
<1>3. IsFiniteSet(S)
  BY <1>1, <1>2, FS_Surjection
<1>4. n \in Nat
  BY <1>3, FS_CardinalityType
<1>5. lines \in SetToSeqs(S)
  BY DEF help, Line
<1>6. lines \in [1..n -> S] /\ \A i, j \in 1..n : i # j => lines[i] # lines[j]
  BY <1>5 DEF SetToSeqs
<1> HIDE DEF S, n, f
<1>7. lines \in Injection(1..n, S)
  BY <1>6 DEF Injection, IsInjective
<1>8. Cardinality(1..n) = n
  BY <1>4, FS_Interval
<1>9. lines \in Surjection(1..n, S)
  <2>1. Cardinality(1..n) = Cardinality(S)
    BY <1>8 DEF n
  <2> QED
    BY <1>3, <1>7, <2>1, FS_Injection
<1>10. \A x \in S : \E i \in 1..n : lines[i] = x
  BY <1>9 DEF Surjection
<1>11. Len(lines) = n /\ DOMAIN lines = 1..n
  BY <1>4, <1>6
<1> QED
  BY <1>4, <1>6, <1>10, <1>11 DEF S

IsAcc(a) == /\ a = [found |-> a.found, deprecated |-> a.deprecated, newest |-> a.newest]
            /\ a.found \in BOOLEAN /\ a.deprecated \in BOOLEAN

\* One line of QEMU's answer.
LEMMA ReadOne ==
    ASSUME NEW want, NEW a, IsAcc(a), NEW line, line.deprecated \in BOOLEAN
    PROVE  LET b == readLine(want, a, line) IN
           /\ IsAcc(b)
           /\ b.deprecated <=> a.deprecated \/ (line.v = want /\ line.deprecated)
           /\ ~ b.deprecated => /\ b.found <=> a.found \/ line.v = want
                                /\ b.newest = IF newer(line.v, a.newest) THEN line.v ELSE a.newest
<1> DEFINE b == readLine(want, a, line)
           stop == a.deprecated \/ (line.v = want /\ line.deprecated)
<1>1. CASE stop
  <2>1. b = [a EXCEPT !.deprecated = TRUE]
    BY <1>1 DEF readLine
  <2>2. b = [found |-> a.found, deprecated |-> TRUE, newest |-> a.newest]
    BY <2>1 DEF IsAcc
  <2>3. b.deprecated = TRUE /\ b.found = a.found /\ b.newest = a.newest
    BY <2>2
  <2>4. IsAcc(b)
    BY <2>2, <2>3 DEF IsAcc
  <2> QED
    BY <1>1, <2>3, <2>4
<1>2. CASE ~ stop
  <2> DEFINE f == a.found \/ line.v = want
             w == IF newer(line.v, a.newest) THEN line.v ELSE a.newest
  <2>1. b = [a EXCEPT !.found = f, !.newest = w]
    BY <1>2 DEF readLine
  <2>2. f \in BOOLEAN /\ a.deprecated = FALSE
    BY <1>2 DEF IsAcc
  <2> HIDE DEF f, w
  <2>3. b = [found |-> f, deprecated |-> FALSE, newest |-> w]
    BY <2>1, <2>2 DEF IsAcc
  <2>4. b.found = f /\ b.deprecated = FALSE /\ b.newest = w
    BY <2>3
  <2>5. IsAcc(b)
    BY <2>2, <2>3, <2>4 DEF IsAcc
  <2> QED
    BY <1>2, <2>4, <2>5 DEF f, w
<1> QED
  BY <1>1, <1>2

\* The loop is a step a line.
LEMMA StepsExist ==
    ASSUME NEW lines, NEW want, Len(lines) \in Nat
    PROVE  \E after : /\ readLines(lines, want) = after[Len(lines)]
                      /\ after[0] = [found |-> FALSE, deprecated |-> FALSE, newest |-> <<0, 0>>]
                      /\ \A n \in 1..Len(lines) : after[n] = readLine(want, after[n - 1], lines[n])
<1> DEFINE N == Len(lines)
           start == [found |-> FALSE, deprecated |-> FALSE, newest |-> <<0, 0>>]
           turn(f, n) == IF n = 0 THEN start ELSE readLine(want, f[n - 1], lines[n])
           Upto(m) == \E f : f = [n \in 0..m |-> turn(f, n)]
           out == CHOOSE f : f = [n \in 0..N |-> turn(f, n)]
<1>1. readLines(lines, want) = out[N]
  BY DEF readLines
<1>2. N \in Nat
  OBVIOUS
<1> HIDE DEF N, start
<1>3. \A m \in 0..N : Upto(m)
  <2> DEFINE Bad == {m \in 0..N : ~ Upto(m)}
  <2> SUFFICES ASSUME Bad # {} PROVE FALSE
    OBVIOUS
  <2>1. Bad \in SUBSET Nat
    BY <1>2
  <2>2. PICK m \in Bad : \A k \in Bad : m <= k
    BY <2>1, HasMin
  <2>3. m \in 0..N /\ ~ Upto(m)
    BY <2>2
  <2>4. CASE m = 0
    <3> DEFINE f == [n \in 0..0 |-> start]
    <3>1. f = [n \in 0..0 |-> turn(f, n)]
      OBVIOUS
    <3> QED
      BY <2>3, <2>4, <3>1
  <2>5. CASE m # 0
    <3>1. m - 1 \in 0..N /\ ~ (m <= m - 1)
      BY <1>2, <2>3, <2>5
    <3>2. m - 1 \notin Bad
      <4> HIDE DEF Bad
      <4> QED
        BY <2>2, <3>1
    <3>3. PICK f : f = [n \in 0..(m - 1) |-> turn(f, n)]
      BY <3>1, <3>2
    <3> DEFINE g == [n \in 0..m |-> IF n < m THEN f[n] ELSE turn(f, m)]
    <3>4. \A n \in 0..m : n # 0 => g[n - 1] = f[n - 1]
      BY <1>2, <2>3
    <3>5. ASSUME NEW n \in 0..m PROVE g[n] = turn(g, n)
      <4>1. CASE n < m
        <5>1. n \in 0..(m - 1) /\ g[n] = f[n]
          BY <1>2, <2>3, <4>1
        <5>2. f[n] = turn(f, n)
          BY <3>3, <5>1
        <5> HIDE DEF g
        <5> QED
          BY <3>4, <5>1, <5>2
      <4>2. CASE n = m
        <5>1. g[n] = turn(f, m)
          BY <4>2
        <5> HIDE DEF g
        <5> QED
          BY <2>5, <3>4, <4>2, <5>1
      <4> QED
        BY <1>2, <2>3, <4>1, <4>2
    <3>6. g = [n \in 0..m |-> g[n]]
      OBVIOUS
    <3> HIDE DEF g
    <3>7. g = [n \in 0..m |-> turn(g, n)]
      BY <3>5, <3>6
    <3> QED
      BY <2>3, <3>7
  <2> QED
    BY <2>4, <2>5
<1>4. out = [n \in 0..N |-> turn(out, n)]
  <2>1. Upto(N)
    <3> HIDE DEF Upto
    <3> QED
      BY <1>2, <1>3
  <2> QED
    BY <2>1
<1> HIDE DEF out
<1>5. out[0] = start /\ \A n \in 1..N : out[n] = readLine(want, out[n - 1], lines[n])
  <2>1. \A n \in 0..N : out[n] = turn(out, n)
    BY <1>4
  <2> QED
    BY <1>2, <2>1
<1> QED
  BY <1>1, <1>5 DEF N, start

\* What there is to say of the type of release p to one who builds release q.
Verdict(q, p) ==
    IF p \notin Offered(q) THEN [exit |-> 1, why |-> "missing"]
    ELSE IF q - p >= DeprecatedAfter THEN [exit |-> 1, why |-> "deprecated"]
    ELSE [exit |-> 0, notice |-> IF q > p THEN version(q) ELSE <<>>]

\* What Check says depends on what QEMU answers, never on the order of its lines.
LEMMA CheckIs ==
    ASSUME NEW q \in Nat, NEW lines \in help(q), NEW p \in Nat
    PROVE  Check(lines, version(p)) = Verdict(q, p)
<1> DEFINE N == Len(lines)
           want == version(p)
<1>1. /\ N \in Nat
      /\ \A i \in 1..N : \E r \in Offered(q) : lines[i] = Line(q, r)
      /\ \A r \in Offered(q) : \E i \in 1..N : lines[i] = Line(q, r)
  BY HelpIs
<1>2. PICK rel \in [1..N -> Offered(q)] : \A i \in 1..N : lines[i] = Line(q, rel[i])
  <2> DEFINE rel == [i \in 1..N |-> CHOOSE r \in Offered(q) : lines[i] = Line(q, r)]
  <2>1. \A i \in 1..N : rel[i] \in Offered(q) /\ lines[i] = Line(q, rel[i])
    BY <1>1
  <2>2. rel \in [1..N -> Offered(q)]
    BY <2>1
  <2> QED
    BY <2>1, <2>2
<1>3. PICK after : /\ readLines(lines, want) = after[N]
                   /\ after[0] = [found |-> FALSE, deprecated |-> FALSE, newest |-> <<0, 0>>]
                   /\ \A n \in 1..N : after[n] = readLine(want, after[n - 1], lines[n])
  BY <1>1, StepsExist
<1>4. Offered(q) \subseteq Nat
  BY DEF Offered
<1>5. \A i \in 1..N : /\ rel[i] \in Nat
                      /\ lines[i].v = version(rel[i])
                      /\ lines[i].deprecated \in BOOLEAN
                      /\ lines[i].deprecated <=> q - rel[i] >= DeprecatedAfter
  <2> SUFFICES ASSUME NEW i \in 1..N
               PROVE  /\ rel[i] \in Nat
                      /\ lines[i].v = version(rel[i])
                      /\ lines[i].deprecated \in BOOLEAN
                      /\ lines[i].deprecated <=> q - rel[i] >= DeprecatedAfter
    OBVIOUS
  <2>1. rel[i] \in Nat /\ lines[i] = Line(q, rel[i])
    BY <1>2, <1>4
  <2>2. Line(q, rel[i]).v = version(rel[i]) /\ Line(q, rel[i]).deprecated = (q - rel[i] >= DeprecatedAfter)
    BY DEF Line
  <2> DEFINE old == q - rel[i] >= DeprecatedAfter
  <2>3. old \in BOOLEAN /\ lines[i].deprecated = old
    BY <2>1, <2>2
  <2> HIDE DEF old
  <2>4. lines[i].deprecated \in BOOLEAN /\ (lines[i].deprecated <=> old)
    BY <2>3
  <2> QED
    BY <2>1, <2>2, <2>4 DEF old
<1>n. N \in Nat
  BY <1>1
<1> HIDE DEF N, want
<1> DEFINE Late(i) == rel[i] = p /\ q - p >= DeprecatedAfter
           Right(n) == /\ IsAcc(after[n])
                       /\ after[n].deprecated <=> \E i \in 1..n : Late(i)
                       /\ ~ after[n].deprecated =>
                            /\ after[n].found <=> \E i \in 1..n : rel[i] = p
                            /\ after[n].newest \in {<<0, 0>>} \cup {version(rel[i]) : i \in 1..n}
                            /\ \A i \in 1..n : ~ newer(version(rel[i]), after[n].newest)
<1>6. \A n \in 0..N : Right(n)
  <2> DEFINE Bad == {n \in 0..N : ~ Right(n)}
  <2> SUFFICES ASSUME Bad # {} PROVE FALSE
    OBVIOUS
  <2>1. Bad \in SUBSET Nat
    BY <1>1
  <2>2. PICK n \in Bad : \A k \in Bad : n <= k
    BY <2>1, HasMin
  <2>3. n \in 0..N /\ ~ Right(n)
    BY <2>2
  <2>n. n \in 0..N
    BY <2>3
  <2>4. CASE n = 0
    <3>1. /\ IsAcc(after[0]) /\ after[0].deprecated = FALSE /\ after[0].found = FALSE
          /\ after[0].newest = <<0, 0>>
      BY <1>3 DEF IsAcc
    <3>2. 1..0 = {}
      OBVIOUS
    <3> QED
      BY <2>3, <2>4, <3>1, <3>2
  <2>5. CASE n # 0
    <3>1. n \in 1..N /\ n - 1 \in 0..N /\ ~ (n <= n - 1)
      BY <1>n, <2>n, <2>5
    <3>2. n - 1 \notin Bad
      <4> HIDE DEF Bad
      <4> QED
        BY <2>2, <3>1
    <3>3. Right(n - 1)
      BY <3>1, <3>2
    <3> DEFINE a == after[n - 1]
               b == after[n]
               r == rel[n]
    <3>4. b = readLine(want, a, lines[n])
      BY <1>3, <3>1
    <3>5. /\ r \in Nat /\ lines[n].v = version(r) /\ lines[n].deprecated \in BOOLEAN
          /\ lines[n].deprecated <=> q - r >= DeprecatedAfter
      BY <1>5, <3>1
    <3>6. /\ IsAcc(b)
          /\ b.deprecated <=> a.deprecated \/ (version(r) = want /\ q - r >= DeprecatedAfter)
          /\ ~ b.deprecated => /\ b.found <=> a.found \/ version(r) = want
                               /\ b.newest = IF newer(version(r), a.newest) THEN version(r) ELSE a.newest
      BY <3>3, <3>4, <3>5, ReadOne
    <3>7. version(r) = want <=> r = p
      BY <3>5, VersionOrder DEF want
    <3>8. \A j : j \in 1..n <=> j \in 1..(n - 1) \/ j = n
      BY <3>1
    <3>9. b.deprecated <=> \E i \in 1..n : Late(i)
      BY <3>3, <3>6, <3>7, <3>8
    <3>10. ASSUME ~ b.deprecated
           PROVE  /\ b.found <=> \E i \in 1..n : rel[i] = p
                  /\ b.newest \in {<<0, 0>>} \cup {version(rel[i]) : i \in 1..n}
                  /\ \A i \in 1..n : ~ newer(version(rel[i]), b.newest)
      <4>1. ~ a.deprecated
        BY <3>6, <3>10
      <4>2. /\ a.found <=> \E i \in 1..(n - 1) : rel[i] = p
            /\ a.newest \in {<<0, 0>>} \cup {version(rel[i]) : i \in 1..(n - 1)}
            /\ \A i \in 1..(n - 1) : ~ newer(version(rel[i]), a.newest)
        BY <3>3, <4>1
      <4>3. b.found <=> \E i \in 1..n : rel[i] = p
        BY <3>6, <3>7, <3>8, <3>10, <4>2
      <4>4. b.newest \in {<<0, 0>>} \cup {version(rel[i]) : i \in 1..n}
        BY <3>6, <3>8, <3>10, <4>2
      <4>5. a.newest[1] \in Nat /\ a.newest[2] \in Nat
        <5>1. \A i \in 1..(n - 1) : i \in 1..N
          BY <1>n, <3>1
        <5>2. ASSUME NEW i \in 1..(n - 1), a.newest = version(rel[i]) PROVE a.newest[1] \in Nat /\ a.newest[2] \in Nat
          <6>1. rel[i] \in Nat
            BY <1>5, <5>1
          <6> QED
            BY <5>2, <6>1, VersionOrder
        <5>3. a.newest = <<0, 0>> => a.newest[1] = 0 /\ a.newest[2] = 0
          OBVIOUS
        <5> HIDE DEF a
        <5> QED
          BY <4>2, <5>2, <5>3
      <4>6. version(r)[1] \in Nat /\ version(r)[2] \in Nat
        BY <3>5, VersionOrder
      <4>7. ASSUME NEW i \in 1..n PROVE ~ newer(version(rel[i]), b.newest)
        <5>0. i \in 1..N
          BY <1>n, <3>1
        <5>1. rel[i] \in Nat
          BY <1>5, <5>0
        <5>2. version(rel[i])[1] \in Nat /\ version(rel[i])[2] \in Nat
          BY <5>1, VersionOrder
        <5>3. CASE i = n
          BY <3>6, <3>10, <4>6, <5>3 DEF newer
        <5>4. CASE i \in 1..(n - 1)
          <6>1. ~ newer(version(rel[i]), a.newest)
            BY <4>2, <5>4
          <6>2. b.newest = IF newer(version(r), a.newest) THEN version(r) ELSE a.newest
            BY <3>6, <3>10
          <6> DEFINE x == version(rel[i])
                     y == version(r)
                     z == a.newest
          <6>3. /\ x[1] \in Nat /\ x[2] \in Nat /\ y[1] \in Nat /\ y[2] \in Nat /\ z[1] \in Nat /\ z[2] \in Nat
                /\ ~ newer(x, z)
            BY <4>5, <4>6, <5>2, <6>1
          <6> HIDE DEF x, y, z
          <6>4. newer(y, z) => ~ newer(x, y)
            <7>1. PICK i1, i2, j1, j2, k1, k2 \in Nat :
                     i1 = x[1] /\ i2 = x[2] /\ j1 = y[1] /\ j2 = y[2] /\ k1 = z[1] /\ k2 = z[2]
              BY <6>3, Zenon
            <7>2. ~ (i1 > k1 \/ (i1 = k1 /\ i2 > k2))
              BY <6>3, <7>1 DEF newer
            <7>3. (j1 > k1 \/ (j1 = k1 /\ j2 > k2)) => ~ (i1 > j1 \/ (i1 = j1 /\ i2 > j2))
              BY <7>2
            <7> QED
              BY <7>1, <7>3 DEF newer
          <6> QED
            BY <6>2, <6>3, <6>4 DEF x, y, z
        <5> QED
          BY <3>8, <5>3, <5>4
      <4> QED
        BY <4>3, <4>4, <4>7
    <3> HIDE DEF a, b
    <3> QED
      BY <2>3, <3>6, <3>9, <3>10 DEF b
  <2> QED
    BY <2>4, <2>5
<1> DEFINE end == after[N]
<1>7. Right(N)
  <2> HIDE DEF Right
  <2> QED
    BY <1>1, <1>6
<1>8. p \in Offered(q) <=> \E i \in 1..N : rel[i] = p
  <2>1. ASSUME p \in Offered(q) PROVE \E i \in 1..N : rel[i] = p
    <3>1. PICK i \in 1..N : lines[i] = Line(q, p)
      BY <1>1, <2>1
    <3>2. lines[i].v = version(p) /\ lines[i].v = version(rel[i]) /\ rel[i] \in Nat
      BY <1>5, <3>1 DEF Line
    <3>3. version(rel[i]) = version(p) <=> rel[i] = p
      BY <3>2, VersionOrder
    <3> QED
      BY <3>2, <3>3
  <2> QED
    BY <1>2, <2>1
<1>9. end.deprecated <=> p \in Offered(q) /\ q - p >= DeprecatedAfter
  BY <1>7, <1>8
<1>10. ~ end.deprecated => (end.found <=> p \in Offered(q))
  BY <1>7, <1>8
<1>11. ASSUME ~ end.deprecated PROVE end.newest = version(q)
  <2>1. q \in Offered(q)
    BY Numbers DEF Offered
  <2>2. PICK i \in 1..N : lines[i] = Line(q, q)
    BY <1>1, <2>1
  <2>3. lines[i].v = version(q) /\ lines[i].v = version(rel[i]) /\ rel[i] \in Nat
    BY <1>5, <2>2 DEF Line
  <2>4. ~ newer(version(q), end.newest)
    BY <1>7, <1>11, <2>3
  <2>5. CASE end.newest = <<0, 0>>
    <3>1. /\ version(q)[1] \in Nat /\ version(q)[2] \in Nat
          /\ version(q) = <<version(q)[1], version(q)[2]>>
      BY VersionOrder
    <3>2. version(q)[1] = 0 /\ version(q)[2] = 0
      BY <2>4, <2>5, <3>1 DEF newer
    <3> QED
      BY <2>5, <3>1, <3>2
  <2>6. ASSUME NEW j \in 1..N, end.newest = version(rel[j]) PROVE end.newest = version(q)
    <3>1. rel[j] \in Nat /\ rel[j] <= q
      BY <1>2, <1>5 DEF Offered
    <3>2. ~ (q > rel[j])
      BY <2>4, <2>6, <3>1, VersionOrder
    <3> QED
      BY <2>6, <3>1, <3>2
  <2> QED
    BY <1>7, <1>11, <2>5, <2>6
<1>12. newer(version(q), version(p)) <=> q > p
  BY VersionOrder
<1>13. Check(lines, want) = IF end.deprecated THEN [exit |-> 1, why |-> "deprecated"]
                            ELSE IF ~ end.found THEN [exit |-> 1, why |-> "missing"]
                            ELSE [exit |-> 0, notice |-> IF newer(end.newest, want) THEN end.newest ELSE <<>>]
  BY <1>3 DEF Check
<1> HIDE DEF end
<1> QED
  BY <1>9, <1>10, <1>11, <1>12, <1>13 DEF Verdict, want

-----------------------------------------------------------------------------
(* The machine type over time.                                              *)

\* What is said of a QEMU that cannot be asked.
Mute == [exit |-> 1, why |-> "help"]

\* A type whose deprecation no check has met is one the last QEMU built has not deprecated.
PinInv ==
    /\ pinned \in Nat /\ shipped \in Nat /\ tried \in Nat /\ warned \in BOOLEAN
    /\ pinned <= shipped /\ shipped <= tried
    /\ said \in {Verdict(tried, pinned), Mute}
    /\ ~ warned => tried - pinned < DeprecatedAfter

LEMMA Verdicts ==
    ASSUME NEW q \in Nat, NEW p \in Nat
    PROVE  /\ q - p < DeprecatedAfter /\ p <= q => Verdict(q, p) = [exit |-> 0, notice |-> IF q > p THEN version(q) ELSE <<>>]
           /\ Verdict(q, p).exit = 0 => /\ p \in Offered(q)
                                        /\ Verdict(q, p).notice = IF q > p THEN version(q) ELSE <<>>
           /\ Verdict(q, p).exit = 1 => Verdict(q, p).why \in {"missing", "deprecated"}
           /\ Verdict(q, p) = [exit |-> 1, why |-> "missing"] \/ (p \in Offered(q))
           /\ p <= q /\ q - p < RemovedAfter /\ q - p >= DeprecatedAfter => Verdict(q, p) = [exit |-> 1, why |-> "deprecated"]
<1>1. p \in Offered(q) <=> p <= q /\ q - p < RemovedAfter
  BY DEF Offered
<1>2. DeprecatedAfter \in Nat /\ RemovedAfter \in Nat /\ DeprecatedAfter <= RemovedAfter
  BY Numbers
<1>3. CASE p \notin Offered(q)
  <2>1. Verdict(q, p) = [exit |-> 1, why |-> "missing"]
    BY <1>3 DEF Verdict
  <2> QED
    BY <1>1, <1>2, <1>3, <2>1
<1>4. CASE p \in Offered(q) /\ q - p >= DeprecatedAfter
  <2>1. Verdict(q, p) = [exit |-> 1, why |-> "deprecated"]
    BY <1>4 DEF Verdict
  <2> QED
    BY <1>1, <1>2, <1>4, <2>1
<1>5. CASE p \in Offered(q) /\ ~ (q - p >= DeprecatedAfter)
  <2>1. Verdict(q, p) = [exit |-> 0, notice |-> IF q > p THEN version(q) ELSE <<>>]
    BY <1>5 DEF Verdict
  <2> QED
    BY <1>1, <1>2, <1>5, <2>1
<1> QED
  BY <1>3, <1>4, <1>5

\* Whatever QEMUs are built, skipped and shipped and whatever the type is moved to, what the
\* last check said is what its QEMU's answer, if it had one, holds of the type, and a type that was not
\* refused is not deprecated yet.
THEOREM TypeInductive == TypeSpec => []PinInv
<1>1. TypeInit => PinInv
  <2> SUFFICES ASSUME TypeInit PROVE PinInv
    OBVIOUS
  <2>1. pinned = 0 /\ shipped = 0 /\ tried = 0 /\ warned = FALSE /\ said = [exit |-> 0, notice |-> <<>>]
    BY DEF TypeInit
  <2>2. Verdict(0, 0) = [exit |-> 0, notice |-> <<>>]
    BY Numbers, Verdicts
  <2>3. warned \in BOOLEAN /\ tried - pinned < DeprecatedAfter
    <3>1. tried - pinned < DeprecatedAfter
      BY <2>1, Numbers
    <3> QED
      BY <2>1, <3>1
  <2>4. said = Verdict(tried, pinned)
    BY <2>1, <2>2
  <2> QED
    BY <2>1, <2>3, <2>4 DEF PinInv
<1>2. PinInv /\ [TypeNext]_typeVars => PinInv'
  <2> SUFFICES ASSUME PinInv, [TypeNext]_typeVars PROVE PinInv'
    OBVIOUS
  <2>0. /\ pinned \in Nat /\ shipped \in Nat /\ tried \in Nat /\ warned \in BOOLEAN
        /\ pinned <= shipped /\ shipped <= tried
        /\ ~ warned => tried - pinned < DeprecatedAfter
    BY DEF PinInv
  <2>1. ASSUME NEW q \in tried..(tried + MaxSkip), NEW lines \in help(q), Build(q, lines) PROVE PinInv'
    <3>1. q \in Nat /\ tried <= q /\ q <= tried + MaxSkip
      BY <2>0, Numbers
    <3>2. tried' = q /\ pinned' = pinned /\ said' = Verdict(q, pinned)
      BY <2>0, <2>1, <3>1, CheckIs DEF Build
    <3>3. shipped' = (IF said'.exit = 0 THEN q ELSE shipped) /\ warned' = (warned \/ said' = [exit |-> 1, why |-> "deprecated"])
      BY <2>1 DEF Build
    <3>4. warned' \in BOOLEAN
      BY <3>3
    <3>5. ASSUME ~ warned' PROVE q - pinned < DeprecatedAfter
      <4>1. ~ warned /\ said' # [exit |-> 1, why |-> "deprecated"]
        BY <3>3, <3>5
      <4>2. pinned <= q /\ q - pinned < RemovedAfter
        BY <2>0, <3>1, <4>1, Numbers
      <4>3. ~ (q - pinned >= DeprecatedAfter)
        BY <2>0, <3>1, <3>2, <4>1, <4>2, Verdicts
      <4> QED
        BY <2>0, <3>1, <4>3, Numbers
    <3>6. shipped' \in Nat /\ pinned <= shipped' /\ shipped' <= q
      BY <2>0, <3>1, <3>3
    <3> QED
      BY <2>0, <3>1, <3>2, <3>4, <3>5, <3>6 DEF PinInv
  <2>2. ASSUME NEW r \in 0..MaxQEMU, MoveType(r) PROVE PinInv'
    <3>1. /\ r \in Offered(shipped) /\ shipped - r < DeprecatedAfter
          /\ pinned' = r /\ tried' = shipped /\ shipped' = shipped /\ warned' = FALSE
      BY <2>2 DEF MoveType
    <3>2. r \in Nat /\ r <= shipped
      BY <2>0, <3>1 DEF Offered
    <3>3. PICK lines \in help(shipped) : said' = Check(lines, version(r))
      BY <2>2 DEF MoveType
    <3>4. said' = Verdict(shipped, r)
      BY <2>0, <3>2, <3>3, CheckIs
    <3>5. warned' \in BOOLEAN
      BY <3>1
    <3>6. said' = Verdict(tried', pinned') /\ tried' - pinned' < DeprecatedAfter /\ pinned' <= shipped' /\ shipped' <= tried'
      BY <2>0, <3>1, <3>2, <3>4
    <3> QED
      BY <2>0, <3>1, <3>2, <3>5, <3>6 DEF PinInv
  <2>3. CASE BuildMute
    BY <2>3 DEF BuildMute, PinInv, Mute
  <2>4. CASE UNCHANGED typeVars
    BY <2>4 DEF typeVars, PinInv
  <2> QED
    BY <2>1, <2>2, <2>3, <2>4 DEF TypeNext
<1> QED
  BY <1>1, <1>2, PTL DEF TypeSpec

\* No QEMU without the machine's type is met before one that deprecated it was refused.
THEOREM WarningsInTime == TypeSpec => []WarnedInTime
<1>1. PinInv => WarnedInTime
  <2> SUFFICES ASSUME PinInv, said = [exit |-> 1, why |-> "missing"], ~ warned PROVE FALSE
    BY DEF WarnedInTime
  <2>0. said # Mute
    BY DEF Mute
  <2>1. pinned \in Nat /\ tried \in Nat /\ pinned <= tried /\ tried - pinned < DeprecatedAfter /\ said = Verdict(tried, pinned)
    BY <2>0 DEF PinInv
  <2>2. said = [exit |-> 0, notice |-> IF tried > pinned THEN version(tried) ELSE <<>>]
    BY <2>1, Verdicts
  <2>3. said.exit = 0
    BY <2>2
  <2> QED
    BY <2>3
<1> QED
  BY <1>1, TypeInductive, PTL

\* A notice names the newest type there is, exactly if that is not the machine's own, and
\* exactly then is there something newer types change.
THEOREM NewestNoticed == TypeSpec => []NoticeIsNewest
<1>1. PinInv => NoticeIsNewest
  <2> SUFFICES ASSUME PinInv, said.exit = 0
               PROVE  /\ said.notice = IF tried = pinned THEN <<>> ELSE version(tried)
                      /\ said.notice # <<>> <=> Compat(Arrays(tried), version(pinned)) = "whole"
    BY DEF NoticeIsNewest
  <2>0. said # Mute
    BY DEF Mute
  <2>1. pinned \in Nat /\ tried \in Nat /\ pinned <= tried /\ said = Verdict(tried, pinned)
    BY <2>0 DEF PinInv
  <2>2. pinned \in Offered(tried) /\ said.notice = IF tried > pinned THEN version(tried) ELSE <<>>
    BY <2>1, Verdicts
  <2>3. said.notice = IF tried = pinned THEN <<>> ELSE version(tried)
    BY <2>1, <2>2
  <2>4. version(tried) # <<>>
    BY <2>1, VersionOrder
  <2>5. \A r \in Offered(tried) : r \in Nat /\ (version(r) = version(pinned) <=> r = pinned)
    <3>1. \A r \in Offered(tried) : r \in Nat
      BY DEF Offered
    <3> QED
      BY <2>1, <3>1, VersionOrder
  <2>6. Compat(Arrays(tried), version(pinned)) = "whole" <=> tried # pinned
    <3> DEFINE V == {version(r) : r \in Offered(tried) \ {tried}}
    <3>1. version(pinned) \in V <=> tried # pinned
      BY <2>2, <2>5
    <3>2. Arrays(tried) = [a \in {"hw", "pc"} \X V |-> "whole"]
      BY DEF Arrays
    <3> HIDE DEF V
    <3>3. \A k \in {"hw", "pc"} : array(Arrays(tried), <<k, version(pinned)>>) =
                                   IF version(pinned) \in V THEN "whole" ELSE "none"
      BY <3>2 DEF array
    <3> QED
      BY <3>1, <3>3 DEF Compat
  <2> QED
    BY <2>3, <2>4, <2>6
<1> QED
  BY <1>1, TypeInductive, PTL
=============================================================================
