---------------------------- MODULE FleetProofs ----------------------------
(***************************************************************************)
(* For any Spec a caller may fill in and any hosts it may move between:    *)
(* two machines with one fingerprint present the same hardware to a guest, *)
(* a change the guest cannot see leaves the fingerprint alone, and the     *)
(* command line gives no slot twice, names no descriptor set it does not   *)
(* hand over and leaves no chain of images open.                           *)
(***************************************************************************)
EXTENDS Fleet, SequenceTheorems, WellFoundedInduction, TLAPS

-----------------------------------------------------------------------------
(* Specs and what a caller makes of them.                                   *)

LEMMA ElementOf ==
    ASSUME NEW S, NEW q \in Seq(S)
    PROVE  /\ Len(q) \in Nat /\ DOMAIN q = 1..Len(q)
           /\ \A i \in DOMAIN q : q[i] \in S
OBVIOUS

LEMMA FieldsOf ==
    ASSUME NEW s, IsSpec(s)
    PROVE  /\ s.accel \in STRING /\ s.cpu \in STRING /\ s.bios \in STRING
           /\ s.bootCPUs \in Int /\ s.maxCPUs \in Int /\ s.sizeMB \in Int /\ s.maxMB \in Int
           /\ s.disks \in Seq([path : STRING, chain : Seq([fdSet : Int, format : STRING]), format : STRING,
                               readonly : BOOLEAN, serial : STRING, locking : BOOLEAN])
           /\ s.nics \in Seq([tapFD : Int, vhostFD : Int, mac : STRING, mtu : Int])
           /\ s.hotplugDisks \in Int /\ s.vsockCID \in Nat /\ s.vsockFD \in Int /\ s.kvmFDSet \in Int
           /\ s.fdSets \in Seq([id : Int, fds : SUBSET Int])
           /\ s.serialFDSet \in Int /\ s.serial \in STRING
BY DEF IsSpec, Field

LEMMA FieldSet ==
    ASSUME NEW s, IsSpec(s), NEW f \in DOMAIN Field, NEW v \in Field[f]
    PROVE  IsSpec([s EXCEPT ![f] = v])
<1> DEFINE t == [s EXCEPT ![f] = v]
<1>1. DOMAIN s = DOMAIN Field
  BY DEF IsSpec
<1>2. t = [g \in DOMAIN Field |-> t[g]]
  BY <1>1
<1>3. \A g \in DOMAIN Field : t[g] \in Field[g]
  BY <1>1 DEF IsSpec
<1> QED
  BY <1>2, <1>3 DEF IsSpec

\* The machine of the checkpoint has run, so it is one validate lets through.
FleetInv == IsSpec(spec) /\ IsSpec(saved.spec) /\ validate(saved.spec)

\* Whatever the caller changes and wherever it moves, its Specs are Specs and the machine of
\* its checkpoint is one that starts.
THEOREM FleetInductive == Spec => []FleetInv /\ [](caller \in Callers)
<1> DEFINE I == FleetInv /\ caller \in Callers
<1>1. Init => I
  BY FleetAssumption DEF Init, FleetInv
<1>2. I /\ [Next]_vars => I'
  <2> SUFFICES ASSUME I, [Next]_vars PROVE I'
    OBVIOUS
  <2>1. ASSUME NEW f \in DOMAIN caller.choices, NEW value \in caller.choices[f], Configure(f, value)
        PROVE  I'
    <3>1. f \in DOMAIN Field /\ value \in Field[f]
      BY FleetAssumption
    <3>2. IsSpec(spec')
      BY <2>1, <3>1, FieldSet DEF Configure, FleetInv
    <3> QED
      BY <2>1, <3>2 DEF Configure, FleetInv
  <2>2. ASSUME NEW h, Move(h) PROVE I'
    BY <2>2 DEF Move, FleetInv
  <2>3. CASE Save
    BY <2>3 DEF Save, FleetInv
  <2>4. CASE UNCHANGED vars
    BY <2>4 DEF vars, FleetInv
  <2> QED
    BY <2>1, <2>2, <2>3, <2>4 DEF Next
<1> QED
  BY <1>1, <1>2, PTL DEF Spec

-----------------------------------------------------------------------------
(* Descriptor sets and chains: what validate checked is what Args names.    *)

LEMMA GivenSets ==
    ASSUME NEW s, IsSpec(s), validate(s), NEW id \in sets(s)
    PROVE  /\ \E fd \in {p[1] : p \in appendFDSets(s)} : <<fd, id>> \in appendFDSets(s)
           /\ \A fd \in {p[1] : p \in appendFDSets(s)} : <<fd, id>> \in appendFDSets(s) => fd > 2
<1>1. PICK i \in DOMAIN s.fdSets : s.fdSets[i].id = id
  BY DEF sets
<1>2. FDSetsValid(s)
  BY DEF validate
<1>3. PICK fd \in s.fdSets[i].fds : TRUE
  BY <1>1, <1>2 DEF FDSetsValid
<1>4. <<fd, id>> \in appendFDSets(s)
  BY <1>1, <1>3 DEF appendFDSets
<1>5. fd \in {p[1] : p \in appendFDSets(s)}
  BY <1>4, <<fd, id>>[1] = fd
<1>6. ASSUME NEW x, <<x, id>> \in appendFDSets(s) PROVE x > 2
  <2>1. PICK j \in DOMAIN s.fdSets : <<x, id>> \in s.fdSets[j].fds \X {s.fdSets[j].id}
    BY <1>6 DEF appendFDSets
  <2>2. x \in s.fdSets[j].fds
    BY <2>1
  <2>a. s.fdSets \in Seq([id : Int, fds : SUBSET Int])
    BY FieldsOf
  <2>3. s.fdSets[j] \in [id : Int, fds : SUBSET Int]
    BY <2>1, <2>a, ElementOf
  <2>4. x \in Int
    BY <2>2, <2>3
  <2> QED
    BY <1>2, <2>1, <2>2, <2>4 DEF FDSetsValid
<1> QED
  BY <1>4, <1>5, <1>6

\* Every descriptor set a command line names is handed over with it, and holds no
\* descriptor of QEMU's standard streams.
THEOREM SetsGiven == Spec => []SetsAreGiven
<1>1. FleetInv => SetsAreGiven
  <2> SUFFICES ASSUME FleetInv, validate(spec) PROVE SetsAreGiven
    BY DEF SetsAreGiven
  <2> DEFINE args == Args(spec)
             console == IF args.serial[1] = "fdset" THEN {args.serial[2]} ELSE {}
  <2>1. IsSpec(spec)
    BY DEF FleetInv
  <2>2. DescriptorsValid(spec) /\ \A i \in DOMAIN spec.disks : DiskValid(spec.disks[i], sets(spec))
    BY DEF validate
  <2>3. ASSUME NEW n \in args.nodes PROVE n.fdSet \in sets(spec)
    <3>1. PICK i \in DOMAIN spec.disks : n \in chainArgs(spec, i)
      BY DEF Args
    <3>2. PICK j \in DOMAIN spec.disks[i].chain : n.fdSet = spec.disks[i].chain[j].fdSet
      BY <3>1 DEF chainArgs
    <3> QED
      BY <2>2, <3>1, <3>2 DEF DiskValid
  <2>4. ASSUME NEW id \in console PROVE id \in sets(spec)
    <3>1. args.serial[1] = "fdset" /\ id = args.serial[2]
      BY <2>4
    <3>2. spec.serialFDSet # 0
      BY <3>1 DEF Args, appendConsole
    <3>3. id = spec.serialFDSet
      BY <3>1, <3>2 DEF Args, appendConsole
    <3> QED
      BY <2>2, <3>2, <3>3 DEF DescriptorsValid
  <2>5. ASSUME NEW id \in {args.accelFDSet} \ {0} PROVE id \in sets(spec)
    BY <2>2, <2>5 DEF DescriptorsValid, Args
  <2>6. args.addFD = appendFDSets(spec)
    BY DEF Args
  <2> HIDE DEF args
  <2> SUFFICES ASSUME NEW id \in {n.fdSet : n \in args.nodes} \cup console \cup ({args.accelFDSet} \ {0})
               PROVE  /\ \E fd \in {p[1] : p \in args.addFD} : <<fd, id>> \in args.addFD
                      /\ \A fd \in {p[1] : p \in args.addFD} : <<fd, id>> \in args.addFD => fd > 2
    BY DEF SetsAreGiven, args
  <2>7. id \in sets(spec)
    BY <2>3, <2>4, <2>5
  <2>8. /\ \E fd \in {p[1] : p \in appendFDSets(spec)} : <<fd, id>> \in appendFDSets(spec)
        /\ \A fd \in {p[1] : p \in appendFDSets(spec)} : <<fd, id>> \in appendFDSets(spec) => fd > 2
    BY <2>1, <2>7, GivenSets
  <2> QED
    BY <2>6, <2>8
<1> QED
  BY <1>1, FleetInductive, PTL

\* Every chain of images is closed: a qcow2 is told what lies under it or that nothing does,
\* only the last image may be raw, and only the top may be written or locked.
THEOREM ChainsClosed == Spec => []ChainsAreClosed
<1>1. FleetInv => ChainsAreClosed
  <2> SUFFICES ASSUME FleetInv, validate(spec), NEW n \in Args(spec).nodes
               PROVE  /\ n.driver = "raw" <=> n.backing = <<"absent">>
                      /\ n.backing[1] = "node" <=>
                           \E m \in Args(spec).nodes : m.disk = n.disk /\ m.depth = n.depth + 1
                      /\ ~ n.readOnly \/ n.locking => n.depth = 1
    BY DEF ChainsAreClosed
  <2>1. PICK i \in DOMAIN spec.disks : n \in chainArgs(spec, i)
    BY DEF Args
  <2> DEFINE chain == spec.disks[i].chain
             node(k) == [disk |-> i, depth |-> k,
                         fdSet |-> chain[k].fdSet,
                         driver |-> chain[k].format,
                         readOnly |-> spec.disks[i].readonly \/ k > 1,
                         locking |-> k = 1 /\ spec.disks[i].locking,
                         backing |-> IF k < Len(chain) THEN <<"node", k + 1>>
                                     ELSE IF chain[k].format # "raw" THEN <<"null">> ELSE <<"absent">>]
  <2>2. chainArgs(spec, i) = {node(k) : k \in DOMAIN chain}
    BY DEF chainArgs
  <2>3. PICK j \in DOMAIN chain : n = node(j)
    BY <2>1, <2>2
  <2>4. chain \in Seq([fdSet : Int, format : STRING])
    <3>1. IsSpec(spec)
      BY DEF FleetInv
    <3>2. spec.disks \in Seq([path : STRING, chain : Seq([fdSet : Int, format : STRING]), format : STRING,
                              readonly : BOOLEAN, serial : STRING, locking : BOOLEAN])
      BY <3>1, FieldsOf
    <3>3. spec.disks[i] \in [path : STRING, chain : Seq([fdSet : Int, format : STRING]), format : STRING,
                             readonly : BOOLEAN, serial : STRING, locking : BOOLEAN]
      BY <3>2, ElementOf
    <3> QED
      BY <3>3
  <2>5. DOMAIN chain = 1..Len(chain) /\ Len(chain) \in Nat /\ j \in 1..Len(chain)
    BY <2>3, <2>4, LenProperties
  <2>6. chain[j].format = "raw" => j = Len(chain)
    BY <2>3 DEF validate, DiskValid
  <2>7. n.driver = "raw" <=> n.backing = <<"absent">>
    BY <2>3, <2>5, <2>6
  <2>8. n.backing[1] = "node" <=> j < Len(chain)
    BY <2>3, <2>5
  <2>9. ASSUME j < Len(chain) PROVE \E m \in Args(spec).nodes : m.disk = n.disk /\ m.depth = n.depth + 1
    <3>1. node(j + 1) \in Args(spec).nodes
      BY <2>2, <2>5, <2>9 DEF Args
    <3> QED
      BY <2>3, <3>1
  <2>10. ASSUME NEW m \in Args(spec).nodes, m.disk = n.disk, m.depth = n.depth + 1 PROVE j < Len(chain)
    <3>1. PICK i2 \in DOMAIN spec.disks : m \in chainArgs(spec, i2)
      BY DEF Args
    <3>2. m.disk = i2 /\ m.depth \in DOMAIN spec.disks[i2].chain
      BY <3>1 DEF chainArgs
    <3>3. j + 1 \in DOMAIN chain
      BY <2>3, <2>10, <3>2
    <3> QED
      BY <2>5, <3>3
  <2>11. ~ n.readOnly \/ n.locking => n.depth = 1
    <3>1. CASE j = 1
      BY <2>3, <3>1
    <3>2. CASE j > 1
      <4>1. n.readOnly = (spec.disks[i].readonly \/ j > 1) /\ n.locking = (j = 1 /\ spec.disks[i].locking)
        BY <2>3
      <4>2. (j = 1) = FALSE /\ (j > 1) = TRUE
        BY <2>5, <3>2
      <4> QED
        BY <4>1, <4>2
    <3> QED
      BY <2>5, <3>1, <3>2
  <2> QED
    BY <2>7, <2>8, <2>9, <2>10, <2>11
<1> QED
  BY <1>1, FleetInductive, PTL

-----------------------------------------------------------------------------
(* Lists of options.                                                        *)

\* Lists of options, in whatever order: what matters here is which options are in them.
IsList(q) == q \in Seq(Range(q))

LEMMA Listed ==
    ASSUME NEW q, NEW n \in Nat, q = [i \in 1..n |-> q[i]]
    PROVE  IsList(q) /\ Range(q) = {q[i] : i \in 1..n}
<1>1. DOMAIN q = 1..n
  OBVIOUS
<1>2. Range(q) = {q[i] : i \in 1..n}
  BY <1>1 DEF Range
<1>3. q \in [1..n -> Range(q)]
  BY <1>2
<1> QED
  BY <1>2, <1>3, SeqDef DEF IsList

LEMMA Joined ==
    ASSUME NEW a, NEW b, IsList(a), IsList(b)
    PROVE  IsList(a \o b) /\ Range(a \o b) = Range(a) \cup Range(b)
<1> DEFINE S == Range(a) \cup Range(b)
<1>1. a \in Seq(S) /\ b \in Seq(S)
  BY SeqMonotonic DEF IsList
<1>2. a \o b \in Seq(S)
  BY <1>1, ConcatProperties
<1>3. Range(a \o b) = Range(a) \cup Range(b)
  BY <1>1, RangeConcatenation
<1> QED
  BY <1>2, <1>3, SeqOfRange DEF IsList

LEMMA OptList ==
    ASSUME NEW g \in BOOLEAN, NEW d
    PROVE  IsList(Opt(g, d)) /\ Range(Opt(g, d)) = IF g THEN {d} ELSE {}
<1>1. CASE g
  <2>1. Opt(g, d) = <<d>>
    BY <1>1 DEF Opt
  <2>2. <<d>> = [i \in 1..1 |-> <<d>>[i]]
    OBVIOUS
  <2>3. IsList(<<d>>) /\ Range(<<d>>) = {<<d>>[i] : i \in 1..1}
    BY <2>2, Listed
  <2>4. {<<d>>[i] : i \in 1..1} = {d}
    OBVIOUS
  <2> QED
    BY <1>1, <2>1, <2>3, <2>4
<1>2. CASE ~ g
  <2>1. Opt(g, d) = <<>>
    BY <1>2 DEF Opt
  <2> QED
    BY <1>2, <2>1 DEF IsList, Range
<1> QED
  BY <1>1, <1>2

-----------------------------------------------------------------------------
(* The options of a command line, and the slots they take.                  *)

\* The devices by name, and which of them a Spec asks for.
Vmgenid == [opt |-> "-device", driver |-> "vmgenid", props |-> {<<"guid", "auto">>}]
RNG == Device("virtio-rng-pci", slotRNG, {})
Balloon == Device("virtio-balloon-pci", slotBalloon, {<<"free-page-reporting", "on">>, <<"deflate-on-oom", "on">>})
Vsock(s) == Device("vhost-vsock-pci", slotVsock,
                   {<<"guest-cid", s.vsockCID>>} \cup PropIf(s.vsockFD # 0, <<"vhostfd", s.vsockFD>>))
Mem == Device("virtio-mem-pci", slotMem, {<<"id", "vmem0">>, <<"memdev", "mem.growth">>, <<"requested-size", 0>>})
SCSI == Device("virtio-scsi-pci", slotHotplug, {<<"id", "scsi0">>})

HasVsock(s) == s.vsockCID # 0
HasMem(s) == s.maxMB > s.sizeMB
HasSCSI(s) == s.hotplugDisks > 0

LEMMA DeviceList ==
    ASSUME NEW s, IsSpec(s)
    PROVE  /\ appendDevices(s) = <<Vmgenid, RNG, Balloon>> \o Opt(HasVsock(s), Vsock(s)) \o Opt(HasMem(s), Mem)
                                 \o Opt(HasSCSI(s), SCSI)
           /\ IsList(appendDevices(s))
           /\ Range(appendDevices(s)) =
                {Vmgenid, RNG, Balloon} \cup (IF HasVsock(s) THEN {Vsock(s)} ELSE {})
                \cup (IF HasMem(s) THEN {Mem} ELSE {}) \cup (IF HasSCSI(s) THEN {SCSI} ELSE {})
<1> DEFINE base == <<Vmgenid, RNG, Balloon>>
           a == Opt(HasVsock(s), Vsock(s))
           b == Opt(HasMem(s), Mem)
           c == Opt(HasSCSI(s), SCSI)
<1>1. appendDevices(s) = base \o a \o b \o c
  BY DEF appendDevices, Vmgenid, RNG, Balloon, Vsock, Mem, SCSI, HasVsock, HasMem, HasSCSI
<1>2. IsList(base) /\ Range(base) = {Vmgenid, RNG, Balloon}
  <2>1. base = [i \in 1..3 |-> base[i]]
    OBVIOUS
  <2>2. IsList(base) /\ Range(base) = {base[i] : i \in 1..3}
    BY <2>1, Listed
  <2>3. {base[i] : i \in 1..3} = {Vmgenid, RNG, Balloon}
    OBVIOUS
  <2> QED
    BY <2>2, <2>3
<1>3. HasVsock(s) \in BOOLEAN /\ HasMem(s) \in BOOLEAN /\ HasSCSI(s) \in BOOLEAN
  BY DEF HasVsock, HasMem, HasSCSI
<1>4. /\ IsList(a) /\ Range(a) = IF HasVsock(s) THEN {Vsock(s)} ELSE {}
      /\ IsList(b) /\ Range(b) = IF HasMem(s) THEN {Mem} ELSE {}
      /\ IsList(c) /\ Range(c) = IF HasSCSI(s) THEN {SCSI} ELSE {}
  BY <1>3, OptList
<1> HIDE DEF base, a, b, c
<1>5. IsList(base \o a) /\ Range(base \o a) = Range(base) \cup Range(a)
  BY <1>2, <1>4, Joined
<1>6. IsList(base \o a \o b) /\ Range(base \o a \o b) = Range(base \o a) \cup Range(b)
  BY <1>4, <1>5, Joined
<1>7. IsList(base \o a \o b \o c) /\ Range(base \o a \o b \o c) = Range(base \o a \o b) \cup Range(c)
  BY <1>4, <1>6, Joined
<1> QED
  BY <1>1, <1>2, <1>4, <1>5, <1>6, <1>7 DEF base, a, b, c

Blk(s, i) == Device("virtio-blk-pci", slotDiskBase + i - 1,
                    {<<"drive", i>>} \cup PropIf(s.disks[i].serial # "", <<"serial", s.disks[i].serial>>))
Net(s, i) == Device("virtio-net-pci", slotNICBase + i - 1,
                    {<<"netdev", i>>, <<"mac", s.nics[i].mac>>, <<"romfile", "">>}
                    \cup PropIf(s.nics[i].mtu > 0, <<"host_mtu", s.nics[i].mtu>>))

LEMMA DisksAndNICs ==
    ASSUME NEW s, IsSpec(s)
    PROVE  /\ Len(s.disks) \in Nat /\ DOMAIN s.disks = 1..Len(s.disks)
           /\ Len(s.nics) \in Nat /\ DOMAIN s.nics = 1..Len(s.nics)
           /\ appendNICs(s) = [i \in 1..Len(s.nics) |-> Net(s, i)]
           /\ IsList(appendDisks(s)) /\ Range(appendDisks(s)) = {Blk(s, i) : i \in DOMAIN s.disks}
           /\ IsList(appendNICs(s)) /\ Range(appendNICs(s)) = {Net(s, i) : i \in DOMAIN s.nics}
<1>1. s.disks \in Seq([path : STRING, chain : Seq([fdSet : Int, format : STRING]), format : STRING,
                       readonly : BOOLEAN, serial : STRING, locking : BOOLEAN])
  BY FieldsOf
<1>2. s.nics \in Seq([tapFD : Int, vhostFD : Int, mac : STRING, mtu : Int])
  BY FieldsOf
<1>3. /\ Len(s.disks) \in Nat /\ DOMAIN s.disks = 1..Len(s.disks)
      /\ Len(s.nics) \in Nat /\ DOMAIN s.nics = 1..Len(s.nics)
  BY <1>1, <1>2, ElementOf
<1> DEFINE m == Len(s.disks)
           n == Len(s.nics)
<1>4. appendDisks(s) = [i \in 1..m |-> Blk(s, i)]
  BY <1>3 DEF appendDisks, Blk
<1>5. appendNICs(s) = [i \in 1..n |-> Net(s, i)]
  BY <1>3 DEF appendNICs, Net
<1> HIDE DEF m, n
<1>6. IsList(appendDisks(s)) /\ Range(appendDisks(s)) = {Blk(s, i) : i \in 1..m}
  <2>1. appendDisks(s) = [i \in 1..m |-> appendDisks(s)[i]]
    BY <1>4
  <2>2. IsList(appendDisks(s)) /\ Range(appendDisks(s)) = {appendDisks(s)[i] : i \in 1..m}
    BY <1>3, <2>1, Listed DEF m
  <2> QED
    BY <1>4, <2>2
<1>7. IsList(appendNICs(s)) /\ Range(appendNICs(s)) = {Net(s, i) : i \in 1..n}
  <2>1. appendNICs(s) = [i \in 1..n |-> appendNICs(s)[i]]
    BY <1>5
  <2>2. IsList(appendNICs(s)) /\ Range(appendNICs(s)) = {appendNICs(s)[i] : i \in 1..n}
    BY <1>3, <2>1, Listed DEF n
  <2> QED
    BY <1>5, <2>2
<1> QED
  BY <1>3, <1>5, <1>6, <1>7 DEF m, n

LEMMA ChipsetList ==
    /\ IsList(appendChipset)
    /\ \A d \in Range(appendChipset) : d.opt \in {"-global", "-no-reboot"} /\ d.props = {}
<1>1. appendChipset = [i \in 1..4 |-> appendChipset[i]]
  BY DEF appendChipset
<1>2. IsList(appendChipset) /\ Range(appendChipset) = {appendChipset[i] : i \in 1..4}
  BY <1>1, Listed
<1>3. \A i \in 1..4 : appendChipset[i].opt \in {"-global", "-no-reboot"} /\ appendChipset[i].props = {}
  <2>1. \A i \in 1..4 : i \in {1, 2, 3, 4}
    OBVIOUS
  <2>2. /\ appendChipset[1].opt = "-global" /\ appendChipset[1].props = {}
        /\ appendChipset[2].opt = "-global" /\ appendChipset[2].props = {}
        /\ appendChipset[3].opt = "-global" /\ appendChipset[3].props = {}
    BY DEF appendChipset
  <2>3. appendChipset[4].opt = "-no-reboot" /\ appendChipset[4].props = {}
    BY DEF appendChipset
  <2> QED
    BY <2>1, <2>2, <2>3
<1> QED
  BY <1>2, <1>3

LEMMA AllDevices ==
    ASSUME NEW s, IsSpec(s)
    PROVE  Range(Args(s).devices) = Range(appendChipset) \cup Range(appendDevices(s))
                                    \cup {Blk(s, i) : i \in DOMAIN s.disks} \cup {Net(s, i) : i \in DOMAIN s.nics}
<1> DEFINE a == appendChipset
           b == appendDevices(s)
           c == appendDisks(s)
           d == appendNICs(s)
<1>1. IsList(a) /\ IsList(b) /\ IsList(c) /\ IsList(d)
  BY ChipsetList, DeviceList, DisksAndNICs
<1>2. Range(c) = {Blk(s, i) : i \in DOMAIN s.disks} /\ Range(d) = {Net(s, i) : i \in DOMAIN s.nics}
  BY DisksAndNICs
<1>3. Args(s).devices = a \o b \o c \o d
  BY DEF Args
<1> HIDE DEF a, b, c, d
<1>4. IsList(a \o b) /\ Range(a \o b) = Range(a) \cup Range(b)
  BY <1>1, Joined
<1>5. IsList(a \o b \o c) /\ Range(a \o b \o c) = Range(a \o b) \cup Range(c)
  BY <1>1, <1>4, Joined
<1>6. Range(a \o b \o c \o d) = Range(a \o b \o c) \cup Range(d)
  BY <1>1, <1>5, Joined
<1> QED
  BY <1>2, <1>3, <1>4, <1>5, <1>6 DEF a, b

\* A device is at the slot it is given, whatever its other properties.
LEMMA DeviceSlot ==
    ASSUME NEW driver, NEW slot, NEW props, \A p \in props : p[1] # "addr"
    PROVE  LET d == Device(driver, slot, props) IN
           /\ d.opt = "-device" /\ d.driver = driver
           /\ Pairs(d, {"addr"}) # {}
           /\ Slot(d) = slot
<1> DEFINE d == Device(driver, slot, props)
<1>1. d.props = props \cup {<<"addr", slot>>, <<"disable-legacy", "on">>}
  BY DEF Device
<1>2. <<"addr", slot>> \in d.props /\ <<"addr", slot>>[1] = "addr"
  BY <1>1
<1>3. \A p \in d.props : p[1] = "addr" => p = <<"addr", slot>>
  <2>1. <<"disable-legacy", "on">>[1] # "addr"
    OBVIOUS
  <2> QED
    BY <1>1, <2>1
<1>4. (CHOOSE p \in d.props : p[1] = "addr") = <<"addr", slot>>
  BY <1>2, <1>3
<1>5. Slot(d) = slot
  <2>1. <<"addr", slot>>[2] = slot
    OBVIOUS
  <2> QED
    BY <1>4, <2>1 DEF Slot
<1>6. Pairs(d, {"addr"}) # {}
  BY <1>2 DEF Pairs
<1> QED
  BY <1>5, <1>6 DEF Device

LEMMA PropOnly ==
    ASSUME NEW given, NEW prop
    PROVE  PropIf(given, prop) \subseteq {prop}
BY DEF PropIf

LEMMA Slots ==
    ASSUME NEW s
    PROVE  /\ Slot(RNG) = 3 /\ Slot(Balloon) = 4 /\ Slot(Vsock(s)) = 2 /\ Slot(Mem) = 30 /\ Slot(SCSI) = 26
           /\ \A i \in Int : Slot(Blk(s, i)) = 5 + i - 1 /\ Slot(Net(s, i)) = 16 + i - 1
           /\ \A d \in {RNG, Balloon, Vsock(s), Mem, SCSI} : d.opt = "-device" /\ Pairs(d, {"addr"}) # {} /\ ~ IsDisk(d)
           /\ \A i \in Int : Net(s, i).opt = "-device" /\ Pairs(Net(s, i), {"addr"}) # {} /\ ~ IsDisk(Net(s, i))
           /\ \A i \in Int : Blk(s, i).opt = "-device" /\ Pairs(Blk(s, i), {"addr"}) # {} /\ IsDisk(Blk(s, i))
<1>1. Slot(RNG) = 3 /\ RNG.opt = "-device" /\ Pairs(RNG, {"addr"}) # {} /\ ~ IsDisk(RNG)
  <2>1. \A p \in {} : p[1] # "addr"
    OBVIOUS
  <2> QED
    BY <2>1, DeviceSlot DEF RNG, slotRNG, IsDisk
<1>2. Slot(Balloon) = 4 /\ Balloon.opt = "-device" /\ Pairs(Balloon, {"addr"}) # {} /\ ~ IsDisk(Balloon)
  <2>1. \A p \in {<<"free-page-reporting", "on">>, <<"deflate-on-oom", "on">>} : p[1] # "addr"
    OBVIOUS
  <2> QED
    BY <2>1, DeviceSlot DEF Balloon, slotBalloon, IsDisk
<1>3. Slot(Vsock(s)) = 2 /\ Vsock(s).opt = "-device" /\ Pairs(Vsock(s), {"addr"}) # {} /\ ~ IsDisk(Vsock(s))
  <2>1. \A p \in {<<"guest-cid", s.vsockCID>>} \cup PropIf(s.vsockFD # 0, <<"vhostfd", s.vsockFD>>) : p[1] # "addr"
    BY DEF PropIf
  <2> QED
    BY <2>1, DeviceSlot DEF Vsock, slotVsock, IsDisk
<1>4. Slot(Mem) = 30 /\ Mem.opt = "-device" /\ Pairs(Mem, {"addr"}) # {} /\ ~ IsDisk(Mem)
  <2>1. \A p \in {<<"id", "vmem0">>, <<"memdev", "mem.growth">>, <<"requested-size", 0>>} : p[1] # "addr"
    OBVIOUS
  <2> QED
    BY <2>1, DeviceSlot DEF Mem, slotMem, IsDisk
<1>5. Slot(SCSI) = 26 /\ SCSI.opt = "-device" /\ Pairs(SCSI, {"addr"}) # {} /\ ~ IsDisk(SCSI)
  <2>1. \A p \in {<<"id", "scsi0">>} : p[1] # "addr"
    OBVIOUS
  <2> QED
    BY <2>1, DeviceSlot DEF SCSI, slotHotplug, IsDisk
<1>6. ASSUME NEW i \in Int
      PROVE  Slot(Blk(s, i)) = 5 + i - 1 /\ Blk(s, i).opt = "-device" /\ Pairs(Blk(s, i), {"addr"}) # {} /\ IsDisk(Blk(s, i))
  <2>1. \A p \in {<<"drive", i>>} \cup PropIf(s.disks[i].serial # "", <<"serial", s.disks[i].serial>>) : p[1] # "addr"
    <3>1. <<"drive", i>>[1] = "drive" /\ <<"serial", s.disks[i].serial>>[1] = "serial"
      OBVIOUS
    <3>2. PropIf(s.disks[i].serial # "", <<"serial", s.disks[i].serial>>) \subseteq {<<"serial", s.disks[i].serial>>}
      BY PropOnly
    <3> QED
      BY <3>1, <3>2
  <2> DEFINE props == {<<"drive", i>>} \cup PropIf(s.disks[i].serial # "", <<"serial", s.disks[i].serial>>)
  <2>2. Blk(s, i) = Device("virtio-blk-pci", 5 + i - 1, props)
    BY DEF Blk, slotDiskBase
  <2>3. \A p \in props : p[1] # "addr"
    BY <2>1
  <2> HIDE DEF props
  <2> QED
    BY <2>2, <2>3, DeviceSlot DEF IsDisk
<1>7. ASSUME NEW i \in Int
      PROVE  Slot(Net(s, i)) = 16 + i - 1 /\ Net(s, i).opt = "-device" /\ Pairs(Net(s, i), {"addr"}) # {} /\ ~ IsDisk(Net(s, i))
  <2>1. \A p \in {<<"netdev", i>>, <<"mac", s.nics[i].mac>>, <<"romfile", "">>}
                 \cup PropIf(s.nics[i].mtu > 0, <<"host_mtu", s.nics[i].mtu>>) : p[1] # "addr"
    <3>1. /\ <<"netdev", i>>[1] = "netdev" /\ <<"mac", s.nics[i].mac>>[1] = "mac"
          /\ <<"romfile", "">>[1] = "romfile" /\ <<"host_mtu", s.nics[i].mtu>>[1] = "host_mtu"
      OBVIOUS
    <3>2. PropIf(s.nics[i].mtu > 0, <<"host_mtu", s.nics[i].mtu>>) \subseteq {<<"host_mtu", s.nics[i].mtu>>}
      BY PropOnly
    <3> QED
      BY <3>1, <3>2
  <2> DEFINE props == {<<"netdev", i>>, <<"mac", s.nics[i].mac>>, <<"romfile", "">>}
                      \cup PropIf(s.nics[i].mtu > 0, <<"host_mtu", s.nics[i].mtu>>)
  <2>2. Net(s, i) = Device("virtio-net-pci", 16 + i - 1, props)
    BY DEF Net, slotNICBase
  <2>3. \A p \in props : p[1] # "addr"
    BY <2>1
  <2> HIDE DEF props
  <2> QED
    BY <2>2, <2>3, DeviceSlot DEF IsDisk
<1> QED
  BY <1>1, <1>2, <1>3, <1>4, <1>5, <1>6, <1>7

\* The PCI devices of a command line are these, and no others.
LEMMA AllPCI ==
    ASSUME NEW s, IsSpec(s)
    PROVE  PCI(Args(s)) = {RNG, Balloon} \cup (IF HasVsock(s) THEN {Vsock(s)} ELSE {})
                          \cup (IF HasMem(s) THEN {Mem} ELSE {}) \cup (IF HasSCSI(s) THEN {SCSI} ELSE {})
                          \cup {Blk(s, i) : i \in DOMAIN s.disks} \cup {Net(s, i) : i \in DOMAIN s.nics}
<1> DEFINE Bus(d) == d.opt = "-device" /\ Pairs(d, {"addr"}) # {}
<1>1. \A d \in Range(appendChipset) : ~ Bus(d)
  BY ChipsetList DEF Pairs
<1>2. ~ Bus(Vmgenid)
  BY DEF Vmgenid, Pairs
<1>3. \A d \in {RNG, Balloon, Vsock(s), Mem, SCSI} : Bus(d)
  BY Slots
<1>4. \A i \in Int : Bus(Blk(s, i)) /\ Bus(Net(s, i))
  BY Slots
<1>5. PCI(Args(s)) = {d \in Range(Args(s).devices) : Bus(d)}
  BY DEF PCI
<1> HIDE DEF Bus
<1>6. Range(appendDevices(s)) =
                {Vmgenid, RNG, Balloon} \cup (IF HasVsock(s) THEN {Vsock(s)} ELSE {})
                \cup (IF HasMem(s) THEN {Mem} ELSE {}) \cup (IF HasSCSI(s) THEN {SCSI} ELSE {})
  BY DeviceList
<1> QED
  <2>1. DOMAIN s.disks \subseteq Int /\ DOMAIN s.nics \subseteq Int
    BY DisksAndNICs
  <2>2. Range(Args(s).devices) = Range(appendChipset) \cup Range(appendDevices(s))
                                    \cup {Blk(s, i) : i \in DOMAIN s.disks} \cup {Net(s, i) : i \in DOMAIN s.nics}
    BY AllDevices
  <2>3. \A d \in {Blk(s, i) : i \in DOMAIN s.disks} \cup {Net(s, i) : i \in DOMAIN s.nics} : Bus(d)
    BY <1>4, <2>1
  <2> HIDE DEF Bus
  <2> QED
    BY <1>1, <1>2, <1>3, <1>5, <1>6, <2>2, <2>3

\* The device at slot k of the command line of s, if there is one.
At(s, k) ==
    IF k = 2 THEN Vsock(s) ELSE IF k = 3 THEN RNG ELSE IF k = 4 THEN Balloon
    ELSE IF k = 26 THEN SCSI ELSE IF k = 30 THEN Mem
    ELSE IF k <= 15 THEN Blk(s, k - 4) ELSE Net(s, k - 15)

\* Of a command line that is built, a slot tells which device is in it: the ranges of the
\* disks and the NICs end before the next one begins.
LEMMA SlotTells ==
    ASSUME NEW s, IsSpec(s), validate(s), NEW d \in PCI(Args(s))
    PROVE  /\ d = At(s, Slot(d))
           /\ Slot(d) \in 2..30
           /\ IsDisk(d) <=> Slot(d) \in 5..15
           /\ Slot(d) = 2 => HasVsock(s)
           /\ Slot(d) = 26 => HasSCSI(s)
           /\ Slot(d) = 30 => HasMem(s)
           /\ Slot(d) \in 16..25 => Slot(d) - 15 \in 1..Len(s.nics)
<1> DEFINE m == Len(s.disks)
           n == Len(s.nics)
<1>d. m \in Nat /\ n \in Nat /\ DOMAIN s.disks = 1..m /\ DOMAIN s.nics = 1..n
  BY DisksAndNICs
<1>c. CountsValid(s)
  BY DEF validate
<1>1. m <= 11 /\ n <= 10
  BY <1>c, <1>d DEF CountsValid, maxDisks, maxNICs, slotDiskMax, slotDiskBase, slotNICMax, slotNICBase
<1> HIDE DEF m, n
<1>2. CASE d \in {RNG, Balloon} \cup (IF HasVsock(s) THEN {Vsock(s)} ELSE {})
                          \cup (IF HasMem(s) THEN {Mem} ELSE {}) \cup (IF HasSCSI(s) THEN {SCSI} ELSE {})
  <2>1. CASE d = RNG
    <3>1. Slot(d) = 3 /\ ~ IsDisk(d)
      BY <2>1, Slots
    <3>2. At(s, 3) = d
      BY <2>1 DEF At
    <3> QED
      BY <2>1, <3>1, <3>2
  <2>2. CASE d = Balloon
    <3>1. Slot(d) = 4 /\ ~ IsDisk(d)
      BY <2>2, Slots
    <3>2. At(s, 4) = d
      BY <2>2 DEF At
    <3> QED
      BY <2>2, <3>1, <3>2
  <2>3. CASE HasVsock(s) /\ d = Vsock(s)
    <3>1. Slot(d) = 2 /\ ~ IsDisk(d)
      BY <2>3, Slots
    <3>2. At(s, 2) = d
      BY <2>3 DEF At
    <3> QED
      BY <2>3, <3>1, <3>2
  <2>4. CASE HasMem(s) /\ d = Mem
    <3>1. Slot(d) = 30 /\ ~ IsDisk(d)
      BY <2>4, Slots
    <3>2. At(s, 30) = d
      BY <2>4 DEF At
    <3> QED
      BY <2>4, <3>1, <3>2
  <2>5. CASE HasSCSI(s) /\ d = SCSI
    <3>1. Slot(d) = 26 /\ ~ IsDisk(d)
      BY <2>5, Slots
    <3>2. At(s, 26) = d
      BY <2>5 DEF At
    <3> QED
      BY <2>5, <3>1, <3>2
  <2> QED
    BY <1>2, <2>1, <2>2, <2>3, <2>4, <2>5
<1>3. ASSUME NEW i \in DOMAIN s.disks, d = Blk(s, i)
      PROVE  d = At(s, Slot(d)) /\ Slot(d) \in 5..15 /\ IsDisk(d)
  <2>1. i \in 1..11 /\ i \in Int
    BY <1>d, <1>1
  <2>2. Slot(d) = 5 + i - 1 /\ IsDisk(d)
    BY <1>3, <2>1, Slots
  <2>3. Slot(d) \in 5..15 /\ Slot(d) - 4 = i
    BY <2>1, <2>2
  <2> QED
    BY <1>3, <2>2, <2>3 DEF At
<1>4. ASSUME NEW i \in DOMAIN s.nics, d = Net(s, i)
      PROVE  d = At(s, Slot(d)) /\ Slot(d) \in 16..25 /\ ~ IsDisk(d) /\ Slot(d) - 15 = i
  <2>1. i \in 1..10 /\ i \in Int
    BY <1>d, <1>1
  <2>2. Slot(d) = 16 + i - 1 /\ ~ IsDisk(d)
    BY <1>4, <2>1, Slots
  <2>3. Slot(d) \in 16..25 /\ Slot(d) - 15 = i
    BY <2>1, <2>2
  <2> QED
    BY <1>4, <2>2, <2>3 DEF At
<1>5. \/ d \in {RNG, Balloon} \cup (IF HasVsock(s) THEN {Vsock(s)} ELSE {})
                \cup (IF HasMem(s) THEN {Mem} ELSE {}) \cup (IF HasSCSI(s) THEN {SCSI} ELSE {})
      \/ \E i \in DOMAIN s.disks : d = Blk(s, i)
      \/ \E i \in DOMAIN s.nics : d = Net(s, i)
  BY AllPCI
<1>6. CASE \E i \in DOMAIN s.disks : d = Blk(s, i)
  <2>1. d = At(s, Slot(d)) /\ Slot(d) \in 5..15 /\ IsDisk(d)
    BY <1>3, <1>6
  <2> QED
    BY <2>1
<1>7. CASE \E i \in DOMAIN s.nics : d = Net(s, i)
  <2>1. PICK i \in DOMAIN s.nics : d = Net(s, i)
    BY <1>7
  <2>2. d = At(s, Slot(d)) /\ Slot(d) \in 16..25 /\ ~ IsDisk(d) /\ Slot(d) - 15 = i
    BY <1>4, <2>1
  <2>3. Slot(d) - 15 \in 1..Len(s.nics)
    BY <1>d, <2>1, <2>2 DEF n
  <2> QED
    BY <2>2, <2>3
<1> QED
  BY <1>2, <1>5, <1>6, <1>7

\* No command line that is built gives two PCI devices one slot.
THEOREM SlotsDistinct == Spec => []NoSlotTwice
<1>1. FleetInv => NoSlotTwice
  BY SlotTells DEF FleetInv, NoSlotTwice
<1> QED
  BY <1>1, FleetInductive, PTL

-----------------------------------------------------------------------------
(* Contract's loop.                                                         *)

Less == OpToRel(<, Nat)

\* A set of naturals has a smallest one: what fails for some n fails for a first one.
LEMMA HasMin ==
    ASSUME NEW S \in SUBSET Nat, S # {}
    PROVE  \E n \in S : \A m \in S : n <= m
<1>1. IsWellFoundedOn(Less, Nat)
  BY NatLessThanWellFounded DEF Less
<1>2. PICK n \in S : \A m \in S : ~ (<<m, n>> \in Less)
  BY <1>1, WFMin
<1>3. Less = {ss \in Nat \X Nat : ss[1] < ss[2]}
  BY DEF Less, OpToRel
<1>4. ASSUME NEW m \in S PROVE n <= m
  <2>1. n \in Nat /\ m \in Nat /\ <<m, n>> \in Nat \X Nat
    OBVIOUS
  <2>2. ~ (m < n)
    BY <1>2, <1>3, <2>1
  <2> QED
    BY <2>1, <2>2
<1> QED
  BY <1>4

Kind == {"-global", "-device"}

\* Contract's loop keeps the globals and the devices, and nothing else.
LEMMA KeptIs ==
    ASSUME NEW q, IsList(q)
    PROVE  IsList(kept(q)) /\ Range(kept(q)) = {d \in Range(q) : d.opt \in Kind}
<1> DEFINE S == Range(q)
           N == Len(q)
           step(f, n) == IF n = 0 THEN <<>>
                         ELSE IF q[n].opt \in {"-global", "-device"} THEN Append(f[n - 1], q[n])
                         ELSE f[n - 1]
           Upto(m) == \E f : f = [n \in 0..m |-> step(f, n)]
           out == CHOOSE f : f = [n \in 0..N |-> step(f, n)]
<1>1. N \in Nat /\ DOMAIN q = 1..N /\ \A i \in 1..N : q[i] \in S
  BY ElementOf DEF IsList
<1> HIDE DEF S, N
<1>2. \A m \in 0..N : Upto(m)
  <2> DEFINE Bad == {m \in 0..N : ~ Upto(m)}
  <2> SUFFICES ASSUME Bad # {} PROVE FALSE
    OBVIOUS
  <2>1. Bad \in SUBSET Nat
    BY <1>1
  <2>2. PICK m \in Bad : \A k \in Bad : m <= k
    BY <2>1, HasMin
  <2>3. m \in 0..N /\ ~ Upto(m)
    BY <2>2
  <2>4. CASE m = 0
    <3> DEFINE f == [n \in 0..0 |-> <<>>]
    <3>1. f = [n \in 0..0 |-> step(f, n)]
      OBVIOUS
    <3> QED
      BY <2>3, <2>4, <3>1
  <2>5. CASE m # 0
    <3>0. m - 1 \in 0..N /\ ~ (m <= m - 1)
      BY <1>1, <2>3, <2>5
    <3>1. m - 1 \notin Bad
      <4> HIDE DEF Bad
      <4> QED
        BY <2>2, <3>0
    <3>2. PICK f : f = [n \in 0..(m - 1) |-> step(f, n)]
      BY <3>0, <3>1
    <3> DEFINE g == [n \in 0..m |-> IF n < m THEN f[n] ELSE step(f, m)]
    <3>3. \A n \in 0..m : n # 0 => g[n - 1] = f[n - 1]
      BY <1>1, <2>3
    <3>4. ASSUME NEW n \in 0..m PROVE g[n] = step(g, n)
      <4>1. CASE n < m
        <5>1. n \in 0..(m - 1) /\ g[n] = f[n]
          BY <1>1, <2>3, <4>1
        <5>2. f[n] = step(f, n)
          BY <3>2, <5>1
        <5> HIDE DEF g
        <5> QED
          BY <3>3, <5>1, <5>2
      <4>2. CASE n = m
        <5>1. g[n] = step(f, m)
          BY <4>2
        <5> HIDE DEF g
        <5> QED
          BY <2>5, <3>3, <4>2, <5>1
      <4> QED
        BY <1>1, <2>3, <4>1, <4>2
    <3>5. g = [n \in 0..m |-> g[n]]
      OBVIOUS
    <3> HIDE DEF g
    <3>6. g = [n \in 0..m |-> step(g, n)]
      BY <3>4, <3>5
    <3> QED
      BY <2>3, <3>6
  <2> QED
    BY <2>4, <2>5
<1>3. out = [n \in 0..N |-> step(out, n)]
  <2>1. Upto(N)
    <3> HIDE DEF Upto
    <3> QED
      BY <1>1, <1>2
  <2> QED
    BY <2>1
<1>4. kept(q) = out[N]
  BY DEF kept, N
<1> HIDE DEF out
<1>5. out[0] = <<>> /\ \A n \in 1..N : out[n] = IF q[n].opt \in Kind THEN Append(out[n - 1], q[n]) ELSE out[n - 1]
  <2>1. \A n \in 0..N : out[n] = step(out, n)
    BY <1>3
  <2> QED
    BY <1>1, <2>1 DEF Kind
<1> DEFINE Right(n) == out[n] \in Seq(S) /\ Range(out[n]) = {q[i] : i \in {j \in 1..n : q[j].opt \in Kind}}
<1>6. \A n \in 0..N : Right(n)
  <2> DEFINE Bad == {n \in 0..N : ~ Right(n)}
  <2> SUFFICES ASSUME Bad # {} PROVE FALSE
    OBVIOUS
  <2>1. Bad \in SUBSET Nat
    BY <1>1
  <2>2. PICK n \in Bad : \A k \in Bad : n <= k
    BY <2>1, HasMin
  <2>3. n \in 0..N /\ ~ Right(n)
    BY <2>2
  <2>4. CASE n = 0
    <3>1. out[n] = <<>> /\ {j \in 1..n : q[j].opt \in Kind} = {}
      BY <1>5, <2>4
    <3>2. out[n] \in Seq(S) /\ Range(out[n]) = {}
      BY <3>1 DEF Range
    <3> QED
      BY <2>3, <3>1, <3>2
  <2>5. CASE n # 0
    <3>0. n - 1 \in 0..N /\ ~ (n <= n - 1) /\ n \in 1..N
      BY <1>1, <2>3, <2>5
    <3>1. n - 1 \notin Bad
      <4> HIDE DEF Bad
      <4> QED
        BY <2>2, <3>0
    <3>2. Right(n - 1)
      BY <3>0, <3>1
    <3>3. q[n] \in S
      BY <1>1, <3>0
    <3>4. \A j : j \in 1..n <=> j \in 1..(n - 1) \/ j = n
      BY <3>0
    <3>5. CASE q[n].opt \in Kind
      <4>1. out[n] = Append(out[n - 1], q[n])
        BY <1>5, <3>0, <3>5
      <4>a. out[n - 1] \in Seq(S) /\ <<q[n]>> \in Seq(S)
        BY <3>2, <3>3
      <4>2. out[n] = out[n - 1] \o <<q[n]>> /\ out[n] \in Seq(S)
        BY <3>3, <4>1, <4>a, AppendProperties, AppendIsConcat
      <4>3. Range(out[n]) = Range(out[n - 1]) \cup Range(<<q[n]>>)
        BY <4>2, <4>a, RangeConcatenation
      <4>4. Range(<<q[n]>>) = {q[n]}
        BY DEF Range
      <4> QED
        BY <2>3, <3>2, <3>4, <3>5, <4>2, <4>3, <4>4
    <3>6. CASE q[n].opt \notin Kind
      <4>1. out[n] = out[n - 1]
        BY <1>5, <3>0, <3>6
      <4> QED
        BY <2>3, <3>2, <3>4, <3>6, <4>1
    <3> QED
      BY <3>5, <3>6
  <2> QED
    BY <2>4, <2>5
<1>7. kept(q) \in Seq(S) /\ Range(kept(q)) = {q[i] : i \in {j \in 1..N : q[j].opt \in Kind}}
  <2>1. Right(N)
    <3> HIDE DEF Right
    <3> QED
      BY <1>1, <1>6
  <2> QED
    BY <1>4, <2>1
<1>8. {q[i] : i \in {j \in 1..N : q[j].opt \in Kind}} = {d \in S : d.opt \in Kind}
  BY <1>1 DEF Range, S
<1> QED
  BY <1>7, <1>8, SeqOfRange DEF IsList, S

-----------------------------------------------------------------------------
(* What the guest is shown, and what is taken out of it.                    *)

\* The devices at slots that are the machine's, and not a disk's.
Bus(s) == {d \in PCI(Args(s)) : ~ IsDisk(d)}
Occupied(s) == {<<Slot(d), d.driver, Pairs(d, Visible)>> : d \in Bus(s)}

LEMMA BusIs ==
    ASSUME NEW s, IsSpec(s)
    PROVE  Bus(s) = {RNG, Balloon} \cup (IF HasVsock(s) THEN {Vsock(s)} ELSE {})
                    \cup (IF HasMem(s) THEN {Mem} ELSE {}) \cup (IF HasSCSI(s) THEN {SCSI} ELSE {})
                    \cup {Net(s, i) : i \in DOMAIN s.nics}
<1>1. DOMAIN s.disks \subseteq Int /\ DOMAIN s.nics \subseteq Int
  BY DisksAndNICs
<1>2. \A d \in {RNG, Balloon, Vsock(s), Mem, SCSI} : ~ IsDisk(d)
  BY Slots
<1>3. (\A i \in DOMAIN s.disks : IsDisk(Blk(s, i))) /\ \A i \in DOMAIN s.nics : ~ IsDisk(Net(s, i))
  BY <1>1, Slots
<1> QED
  BY <1>2, <1>3, AllPCI DEF Bus

Left(props) == {p \in props : p[1] \notin vmProperties}
NoAddr(props) == \A p \in props : p[1] # "addr"
IsDevice(d) == \E driver, slot, props : d = Device(driver, slot, props) /\ NoAddr(props)

LEMMA BusDevices ==
    ASSUME NEW s, IsSpec(s)
    PROVE  \A d \in Bus(s) : IsDevice(d)
<1>1. IsDevice(RNG) /\ IsDevice(Balloon) /\ IsDevice(Mem) /\ IsDevice(SCSI)
  <2>1. IsDevice(RNG)
    BY DEF RNG, IsDevice, NoAddr
  <2>2. IsDevice(Balloon)
    <3>1. \A p \in {<<"free-page-reporting", "on">>, <<"deflate-on-oom", "on">>} : p[1] # "addr"
      OBVIOUS
    <3> QED
      BY <3>1 DEF Balloon, IsDevice, NoAddr
  <2>3. IsDevice(Mem)
    <3>1. \A p \in {<<"id", "vmem0">>, <<"memdev", "mem.growth">>, <<"requested-size", 0>>} : p[1] # "addr"
      OBVIOUS
    <3> QED
      BY <3>1 DEF Mem, IsDevice, NoAddr
  <2>4. IsDevice(SCSI)
    <3>1. \A p \in {<<"id", "scsi0">>} : p[1] # "addr"
      OBVIOUS
    <3> QED
      BY <3>1 DEF SCSI, IsDevice, NoAddr
  <2> QED
    BY <2>1, <2>2, <2>3, <2>4
<1>2. IsDevice(Vsock(s))
  <2>1. \A p \in {<<"guest-cid", s.vsockCID>>} \cup PropIf(s.vsockFD # 0, <<"vhostfd", s.vsockFD>>) : p[1] # "addr"
    BY DEF PropIf
  <2> QED
    BY <2>1 DEF Vsock, IsDevice, NoAddr
<1>3. ASSUME NEW i \in DOMAIN s.nics PROVE IsDevice(Net(s, i))
  <2> DEFINE props == {<<"netdev", i>>, <<"mac", s.nics[i].mac>>, <<"romfile", "">>}
                      \cup PropIf(s.nics[i].mtu > 0, <<"host_mtu", s.nics[i].mtu>>)
  <2>1. \A p \in props : p[1] # "addr"
    <3>1. /\ <<"netdev", i>>[1] = "netdev" /\ <<"mac", s.nics[i].mac>>[1] = "mac"
          /\ <<"romfile", "">>[1] = "romfile" /\ <<"host_mtu", s.nics[i].mtu>>[1] = "host_mtu"
      OBVIOUS
    <3>2. PropIf(s.nics[i].mtu > 0, <<"host_mtu", s.nics[i].mtu>>) \subseteq {<<"host_mtu", s.nics[i].mtu>>}
      BY PropOnly
    <3> QED
      BY <3>1, <3>2
  <2>2. Net(s, i) = Device("virtio-net-pci", slotNICBase + i - 1, props)
    BY DEF Net
  <2> HIDE DEF props
  <2> QED
    BY <2>1, <2>2 DEF IsDevice, NoAddr
<1> QED
  BY <1>1, <1>2, <1>3, BusIs

\* What is taken out of a device's properties is neither its slot nor anything the guest sees.
LEMMA StrippedDevice ==
    ASSUME NEW driver, NEW slot, NEW props, NoAddr(props)
    PROVE  LET d == Device(driver, slot, props)
               w == withoutTheVMs(d)
           IN  /\ w = Device(driver, slot, Left(props))
               /\ w.opt = "-device" /\ w.driver = d.driver
               /\ Pairs(w, {"addr"}) # {}
               /\ Slot(w) = Slot(d)
               /\ Pairs(w, Visible) = Pairs(d, Visible)
<1> DEFINE d == Device(driver, slot, props)
           w == withoutTheVMs(d)
           left == Left(props)
<1>1. <<"addr", slot>>[1] = "addr" /\ <<"disable-legacy", "on">>[1] = "disable-legacy"
  OBVIOUS
<1>2. "addr" \notin vmProperties /\ "disable-legacy" \notin vmProperties
  BY DEF vmProperties
<1>3. {p \in d.props : p[1] \notin vmProperties} = left \cup {<<"addr", slot>>, <<"disable-legacy", "on">>}
  BY <1>1, <1>2 DEF Device, Left
<1>4. w = Device(driver, slot, left)
  <2>1. w = [d EXCEPT !.props = {p \in d.props : p[1] \notin vmProperties}]
    BY DEF withoutTheVMs
  <2> QED
    BY <1>3, <2>1 DEF Device
<1>5. \A p \in left : p[1] # "addr"
  BY DEF NoAddr, Left
<1>6. Slot(d) = slot /\ d.driver = driver
  BY DeviceSlot DEF NoAddr
<1> HIDE DEF left, w
<1>7. w.opt = "-device" /\ w.driver = driver /\ Pairs(w, {"addr"}) # {} /\ Slot(w) = slot
  BY <1>4, <1>5, DeviceSlot
<1>8. Pairs(w, Visible) = Pairs(d, Visible)
  <2>1. w.props = {p \in d.props : p[1] \notin vmProperties}
    BY <1>3, <1>4 DEF Device
  <2>2. \A v \in Visible : v \notin vmProperties
    BY DEF Visible, vmProperties
  <2> QED
    BY <2>1, <2>2 DEF Pairs
<1> QED
  BY <1>4, <1>6, <1>7, <1>8 DEF w, left

LEMMA Stripped ==
    ASSUME NEW d, IsDevice(d)
    PROVE  LET w == withoutTheVMs(d) IN
           /\ w.opt = "-device" /\ w.driver = d.driver
           /\ Pairs(w, {"addr"}) # {}
           /\ Slot(w) = Slot(d)
           /\ Pairs(w, Visible) = Pairs(d, Visible)
<1>1. PICK driver, slot, props : d = Device(driver, slot, props) /\ NoAddr(props)
  BY DEF IsDevice
<1> QED
  BY <1>1, StrippedDevice

-----------------------------------------------------------------------------
(* The contract.                                                            *)

ContractArgs(s) == appendChipset \o appendDevices(s) \o appendNICs(s)
Strip(q) == [i \in DOMAIN q |-> withoutTheVMs(q[i])]
Port == [opt |-> "serial", driver |-> "isa-serial", props |-> {}]
HasPort(s) == s.serial # "" \/ s.serialFDSet # 0

LEMMA StripList ==
    ASSUME NEW q, IsList(q)
    PROVE  IsList(Strip(q)) /\ Range(Strip(q)) = {withoutTheVMs(d) : d \in Range(q)}
<1>1. Len(q) \in Nat /\ DOMAIN q = 1..Len(q)
  BY ElementOf DEF IsList
<1>2. Strip(q) = [i \in 1..Len(q) |-> withoutTheVMs(q[i])]
  BY <1>1 DEF Strip
<1>3. Strip(q) = [i \in 1..Len(q) |-> Strip(q)[i]]
  BY <1>2
<1>4. IsList(Strip(q)) /\ Range(Strip(q)) = {Strip(q)[i] : i \in 1..Len(q)}
  BY <1>1, <1>3, Listed
<1> QED
  BY <1>1, <1>2, <1>4 DEF Range

LEMMA ContractRange ==
    ASSUME NEW s, IsSpec(s)
    PROVE  /\ IsList(ContractArgs(s))
           /\ Contract(s) = kept(Strip(ContractArgs(s))) \o Opt(HasPort(s), Port)
           /\ Range(Contract(s)) = {w \in {withoutTheVMs(d) : d \in Range(appendChipset) \cup {Vmgenid} \cup Bus(s)} :
                                      w.opt \in Kind}
                                   \cup (IF HasPort(s) THEN {Port} ELSE {})
<1> DEFINE a == appendChipset
           b == appendDevices(s)
           c == appendNICs(s)
           q == ContractArgs(s)
<1>1. IsList(a) /\ IsList(b) /\ IsList(c)
  BY ChipsetList, DeviceList, DisksAndNICs
<1>2. q = a \o b \o c
  BY DEF ContractArgs
<1>3. IsList(q) /\ Range(q) = Range(a) \cup Range(b) \cup Range(c)
  <2> HIDE DEF a, b, c
  <2>1. IsList(a \o b) /\ Range(a \o b) = Range(a) \cup Range(b)
    BY <1>1, Joined
  <2> QED
    BY <1>1, <1>2, <2>1, Joined
<1>4. Range(q) = Range(a) \cup {Vmgenid} \cup Bus(s)
  <2>1. Range(b) = {Vmgenid, RNG, Balloon} \cup (IF HasVsock(s) THEN {Vsock(s)} ELSE {})
                   \cup (IF HasMem(s) THEN {Mem} ELSE {}) \cup (IF HasSCSI(s) THEN {SCSI} ELSE {})
    BY DeviceList
  <2>2. Range(c) = {Net(s, i) : i \in DOMAIN s.nics}
    BY DisksAndNICs
  <2> HIDE DEF a, b, c, q
  <2> QED
    BY <1>3, <2>1, <2>2, BusIs
<1>5. Contract(s) = kept(Strip(q)) \o Opt(HasPort(s), Port)
  BY DEF Contract, Strip, ContractArgs, HasPort, Port
<1> HIDE DEF q
<1>6. IsList(Strip(q)) /\ Range(Strip(q)) = {withoutTheVMs(d) : d \in Range(q)}
  BY <1>3, StripList
<1>7. IsList(kept(Strip(q))) /\ Range(kept(Strip(q))) = {w \in Range(Strip(q)) : w.opt \in Kind}
  BY <1>6, KeptIs
<1>8. IsList(Opt(HasPort(s), Port)) /\ Range(Opt(HasPort(s), Port)) = IF HasPort(s) THEN {Port} ELSE {}
  <2>1. HasPort(s) \in BOOLEAN
    BY DEF HasPort
  <2> QED
    BY <2>1, OptList
<1>9. Range(Contract(s)) = Range(kept(Strip(q))) \cup Range(Opt(HasPort(s), Port))
  BY <1>5, <1>7, <1>8, Joined
<1> QED
  BY <1>3, <1>4, <1>5, <1>6, <1>7, <1>8, <1>9 DEF q, a

\* What is at the slots, and whether there is a serial port, can be read off the contract.
Devices(contract) == {w \in Range(contract) : w.opt = "-device" /\ Pairs(w, {"addr"}) # {}}

LEMMA ContractTells ==
    ASSUME NEW s, IsSpec(s)
    PROVE  /\ Occupied(s) = {<<Slot(w), w.driver, Pairs(w, Visible)>> : w \in Devices(Contract(s))}
           /\ HasPort(s) <=> \E w \in Range(Contract(s)) : w.opt = "serial"
<1>1. Range(Contract(s)) = {w \in {withoutTheVMs(d) : d \in Range(appendChipset) \cup {Vmgenid} \cup Bus(s)} :
                              w.opt \in Kind}
                           \cup (IF HasPort(s) THEN {Port} ELSE {})
  BY ContractRange
<1>2. \A d \in Bus(s) : LET w == withoutTheVMs(d) IN
           /\ w.opt = "-device" /\ w.driver = d.driver
           /\ Pairs(w, {"addr"}) # {}
           /\ Slot(w) = Slot(d)
           /\ Pairs(w, Visible) = Pairs(d, Visible)
  BY BusDevices, Stripped
<1>3. ASSUME NEW d \in Range(appendChipset), withoutTheVMs(d).opt = "-device" PROVE Pairs(withoutTheVMs(d), {"addr"}) = {}
  <2>1. d.props = {}
    BY ChipsetList
  <2> QED
    BY <2>1 DEF withoutTheVMs, Pairs
<1>4. Pairs(withoutTheVMs(Vmgenid), {"addr"}) = {}
  BY DEF withoutTheVMs, Pairs, Vmgenid
<1>5. Port.opt = "serial" /\ "serial" \notin Kind /\ "-device" \in Kind
  BY DEF Port, Kind
<1>6. Devices(Contract(s)) = {withoutTheVMs(d) : d \in Bus(s)}
  BY <1>1, <1>2, <1>3, <1>4, <1>5 DEF Devices
<1>7. Occupied(s) = {<<Slot(w), w.driver, Pairs(w, Visible)>> : w \in Devices(Contract(s))}
  BY <1>2, <1>6 DEF Occupied
<1>8. HasPort(s) <=> \E w \in Range(Contract(s)) : w.opt = "serial"
  BY <1>1, <1>5
<1> QED
  BY <1>7, <1>8

-----------------------------------------------------------------------------
(* One fingerprint, one machine.                                            *)

Ports(s) == Args(s).serial # <<"none">>

LEMMA ConsoleIs ==
    ASSUME NEW s
    PROVE  HasPort(s) <=> Ports(s)
<1>1. \A x : <<"fdset", x>> # <<"none">> /\ <<"chardev", x>> # <<"none">>
  OBVIOUS
<1>2. Args(s).serial = appendConsole(s)
  BY DEF Args
<1> QED
  BY <1>1, <1>2 DEF appendConsole, HasPort, Ports

Globals(s) == {d.driver : d \in {d \in Range(Args(s).devices) : d.opt = "-global"}}

LEMMA GlobalsAre ==
    ASSUME NEW s, IsSpec(s)
    PROVE  Globals(s) = {d.driver : d \in {d \in Range(appendChipset) : d.opt = "-global"}}
<1>1. DOMAIN s.disks \subseteq Int /\ DOMAIN s.nics \subseteq Int
  BY DisksAndNICs
<1>2. \A i \in Int : Blk(s, i).opt # "-global" /\ Net(s, i).opt # "-global"
  BY DEF Blk, Net, Device
<1>3. \A d \in {Vmgenid, RNG, Balloon, Vsock(s), Mem, SCSI} : d.opt # "-global"
  BY DEF Vmgenid, RNG, Balloon, Vsock, Mem, SCSI, Device
<1>4. \A d \in Range(appendDevices(s)) : d.opt # "-global"
  BY <1>3, DeviceList
<1>5. \A d \in {Blk(s, i) : i \in DOMAIN s.disks} \cup {Net(s, i) : i \in DOMAIN s.nics} : d.opt # "-global"
  BY <1>1, <1>2
<1> QED
  BY <1>4, <1>5, AllDevices DEF Globals

CPUs(s) == [boot |-> s.bootCPUs, possible |-> IF s.maxCPUs = 0 THEN s.bootCPUs ELSE s.maxCPUs]
Memory(s) == [boot |-> s.sizeMB, ceiling |-> IF s.maxMB = 0 THEN s.sizeMB ELSE s.maxMB]

LEMMA HardwareIs ==
    ASSUME NEW s, NEW h
    PROVE  Hardware(s, h) =
             [rom     |-> h.firmware[Args(s).bios].size,
              machine |-> Shape(s).machine,
              accel   |-> Shape(s).accel,
              cpu     |-> <<Shape(s).cpu, IF derivedFromHost(model(s)) THEN h.cpuModel ELSE "as named">>,
              cpus    |-> CPUs(s),
              memory  |-> Memory(s),
              chipset |-> Globals(s),
              at      |-> Occupied(s),
              serial  |-> Ports(s)]
<1>1. Args(s).shape = Shape(s)
  BY DEF Args
<1> QED
  BY <1>1 DEF Hardware, CPUs, Memory, Globals, Occupied, Bus, Ports

\* The -smp and -m options say how many processors and how much memory there are and may be.
LEMMA SizesTell ==
    ASSUME NEW s, NEW t, IsSpec(s), IsSpec(t), validate(s), validate(t)
    PROVE  /\ Shape(s).smp = Shape(t).smp <=> CPUs(s) = CPUs(t)
           /\ Shape(s).memory = Shape(t).memory <=> Memory(s) = Memory(t)
<1>1. \A r \in {s, t} :
        /\ r.bootCPUs \in Int /\ r.maxCPUs \in Int /\ r.sizeMB \in Int /\ r.maxMB \in Int
        /\ r.bootCPUs >= 1 /\ (r.maxCPUs # 0 => r.maxCPUs >= r.bootCPUs)
        /\ r.sizeMB >= 1 /\ (r.maxMB # 0 => r.maxMB >= r.sizeMB)
  BY FieldsOf DEF validate
<1>2. \A a, b, c, d : /\ <<a, b>> = <<c, d>> <=> a = c /\ b = d
                      /\ <<a>> = <<c>> <=> a = c
                      /\ <<a>> # <<c, d>>
  OBVIOUS
<1>3. \A r \in {s, t} : /\ Shape(r).smp = smpArg(r.bootCPUs, r.maxCPUs)
                         /\ Shape(r).memory = memoryArg(r.sizeMB, r.maxMB)
  BY DEF Shape
<1>4. Shape(s).smp = Shape(t).smp <=> CPUs(s) = CPUs(t)
  BY <1>1, <1>2, <1>3 DEF smpArg, CPUs
<1>5. Shape(s).memory = Shape(t).memory <=> Memory(s) = Memory(t)
  BY <1>1, <1>2, <1>3 DEF memoryArg, Memory
<1> QED
  BY <1>4, <1>5

LEMMA PrintTells ==
    ASSUME NEW s, NEW t, NEW h, NEW g, IsSpec(s), IsSpec(t), validate(s), validate(t),
           fingerprint(s, h) = fingerprint(t, g)
    PROVE  Hardware(s, h) = Hardware(t, g)
<1>1. /\ h.firmware[Args(s).bios].size = g.firmware[Args(t).bios].size
      /\ Shape(s) = Shape(t)
      /\ Contract(s) = Contract(t)
      /\ (IF derivedFromHost(Shape(s).cpu[1]) THEN h.cpuModel ELSE "")
           = (IF derivedFromHost(Shape(t).cpu[1]) THEN g.cpuModel ELSE "")
  BY DEF fingerprint
<1>2. Shape(s).cpu[1] = model(s) /\ Shape(t).cpu[1] = model(t)
  BY DEF Shape
<1>3. (IF derivedFromHost(model(s)) THEN h.cpuModel ELSE "as named")
        = (IF derivedFromHost(model(t)) THEN g.cpuModel ELSE "as named")
  BY <1>1, <1>2
<1>4. CPUs(s) = CPUs(t) /\ Memory(s) = Memory(t)
  BY <1>1, SizesTell
<1>5. Globals(s) = Globals(t)
  BY GlobalsAre
<1>6. Occupied(s) = Occupied(t) /\ (HasPort(s) <=> HasPort(t))
  BY <1>1, ContractTells
<1>7. Ports(s) = Ports(t)
  BY <1>6, ConsoleIs DEF Ports
<1> QED
  BY <1>1, <1>3, <1>4, <1>5, <1>6, <1>7, HardwareIs

\* Two machines with one fingerprint present the same hardware to a guest: whatever a caller
\* has changed since it saved a checkpoint, a machine that may resume it is the machine the
\* guest was shown.
THEOREM SameHardware == Spec => []ResumesOnSameHardware
<1>1. FleetInv => ResumesOnSameHardware
  <2> SUFFICES ASSUME FleetInv, Resumable, Matches
               PROVE  Hardware(spec, host) = Hardware(saved.spec, saved.host)
    BY DEF ResumesOnSameHardware
  <2> QED
    BY PrintTells DEF FleetInv, Resumable, Matches
<1> QED
  BY <1>1, FleetInductive, PTL

-----------------------------------------------------------------------------
(* The same hardware, one fingerprint.                                      *)

LEMMA StripJoined ==
    ASSUME NEW a, NEW b, IsList(a), IsList(b)
    PROVE  Strip(a \o b) = Strip(a) \o Strip(b)
<1>1. /\ Len(a) \in Nat /\ DOMAIN a = 1..Len(a) /\ Len(b) \in Nat /\ DOMAIN b = 1..Len(b)
  BY ElementOf DEF IsList
<1> DEFINE m == Len(a)
           n == Len(b)
           S == Range(a) \cup Range(b)
           T == Range(Strip(a)) \cup Range(Strip(b))
<1>2. a \in Seq(S) /\ b \in Seq(S)
  BY SeqMonotonic DEF IsList
<1>3. Strip(a) \in Seq(T) /\ Strip(b) \in Seq(T)
  BY SeqMonotonic, StripList DEF IsList
<1>4. /\ DOMAIN Strip(a) = 1..m /\ DOMAIN Strip(b) = 1..n
      /\ \A i \in 1..m : Strip(a)[i] = withoutTheVMs(a[i])
      /\ \A i \in 1..n : Strip(b)[i] = withoutTheVMs(b[i])
  BY <1>1 DEF Strip
<1>5. Len(Strip(a)) = m /\ Len(Strip(b)) = n
  BY <1>1, <1>3, <1>4, LenProperties
<1> HIDE DEF m, n, S, T
<1>6. /\ Len(a \o b) = m + n /\ a \o b \in Seq(S)
      /\ \A i \in 1..(m + n) : (a \o b)[i] = IF i <= m THEN a[i] ELSE b[i - m]
  BY <1>2, ConcatProperties DEF m, n
<1>7. /\ Len(Strip(a) \o Strip(b)) = m + n /\ Strip(a) \o Strip(b) \in Seq(T)
      /\ \A i \in 1..(m + n) : (Strip(a) \o Strip(b))[i] = IF i <= m THEN Strip(a)[i] ELSE Strip(b)[i - m]
  BY <1>3, <1>5, ConcatProperties
<1>8. DOMAIN (a \o b) = 1..(m + n) /\ DOMAIN (Strip(a) \o Strip(b)) = 1..(m + n)
  BY <1>6, <1>7, LenProperties
<1>9. Strip(a \o b) = [i \in 1..(m + n) |-> withoutTheVMs((a \o b)[i])]
  BY <1>8 DEF Strip
<1>10. ASSUME NEW i \in 1..(m + n) PROVE Strip(a \o b)[i] = (Strip(a) \o Strip(b))[i]
  <2>0. m \in Nat /\ n \in Nat
    BY <1>1 DEF m, n
  <2>1. CASE i <= m
    BY <1>4, <1>6, <1>7, <1>9, <2>0, <2>1
  <2>2. CASE i > m
    <3>1. i - m \in 1..n
      BY <2>0, <2>2
    <3> QED
      BY <1>4, <1>6, <1>7, <1>9, <2>0, <2>2, <3>1
  <2>3. i <= m \/ i > m
    BY <2>0
  <2> QED
    BY <2>1, <2>2, <2>3
<1>11. Strip(a) \o Strip(b) = [i \in 1..(m + n) |-> (Strip(a) \o Strip(b))[i]]
  BY <1>7, <1>8, LenProperties
<1> QED
  BY <1>9, <1>10, <1>11

LEMMA StripOpt ==
    ASSUME NEW given \in BOOLEAN, NEW d
    PROVE  Strip(Opt(given, d)) = Opt(given, withoutTheVMs(d))
<1>1. CASE given
  <2>1. Opt(given, d) = <<d>> /\ Opt(given, withoutTheVMs(d)) = <<withoutTheVMs(d)>>
    BY <1>1 DEF Opt
  <2> QED
    BY <2>1 DEF Strip
<1>2. CASE ~ given
  <2>1. Opt(given, d) = <<>> /\ Opt(given, withoutTheVMs(d)) = <<>>
    BY <1>2 DEF Opt
  <2> QED
    BY <2>1 DEF Strip
<1> QED
  BY <1>1, <1>2

\* Without what is the VM's, the vsock of any two machines is one device, and a NIC is what
\* the guest sees of it at its slot.
LEMMA BareVsock ==
    ASSUME NEW s
    PROVE  withoutTheVMs(Vsock(s)) = Device("vhost-vsock-pci", 2, {})
<1> DEFINE props == {<<"guest-cid", s.vsockCID>>} \cup PropIf(s.vsockFD # 0, <<"vhostfd", s.vsockFD>>)
<1>1. \A p \in props : p[1] \in {"guest-cid", "vhostfd"}
  BY DEF PropIf
<1>2. Left(props) = {} /\ NoAddr(props)
  BY <1>1 DEF Left, NoAddr, vmProperties
<1>3. Vsock(s) = Device("vhost-vsock-pci", 2, props)
  BY DEF Vsock, slotVsock
<1> HIDE DEF props
<1> QED
  BY <1>2, <1>3, StrippedDevice

LEMMA BareNIC ==
    ASSUME NEW s, NEW i \in Int
    PROVE  /\ withoutTheVMs(Net(s, i)).props = Pairs(Net(s, i), Visible) \cup {<<"addr", 16 + i - 1>>}
           /\ withoutTheVMs(Net(s, i)) = [opt |-> "-device", driver |-> "virtio-net-pci",
                                          props |-> withoutTheVMs(Net(s, i)).props]
<1> DEFINE props == {<<"netdev", i>>, <<"mac", s.nics[i].mac>>, <<"romfile", "">>}
                    \cup PropIf(s.nics[i].mtu > 0, <<"host_mtu", s.nics[i].mtu>>)
           all == props \cup {<<"addr", 16 + i - 1>>, <<"disable-legacy", "on">>}
<1>1. /\ <<"netdev", i>>[1] = "netdev" /\ <<"mac", s.nics[i].mac>>[1] = "mac"
      /\ <<"romfile", "">>[1] = "romfile" /\ <<"host_mtu", s.nics[i].mtu>>[1] = "host_mtu"
      /\ <<"addr", 16 + i - 1>>[1] = "addr" /\ <<"disable-legacy", "on">>[1] = "disable-legacy"
  OBVIOUS
<1>2. PropIf(s.nics[i].mtu > 0, <<"host_mtu", s.nics[i].mtu>>) \subseteq {<<"host_mtu", s.nics[i].mtu>>}
  BY PropOnly
<1>3. \A p \in all : p = <<"addr", 16 + i - 1>> \/ p[1] \in {"netdev", "mac", "romfile", "host_mtu", "disable-legacy"}
  BY <1>1, <1>2
<1>4. Net(s, i) = [opt |-> "-device", driver |-> "virtio-net-pci", props |-> all]
  BY DEF Net, Device, slotNICBase
<1> HIDE DEF props
<1>5. <<"addr", 16 + i - 1>> \in all
  OBVIOUS
<1> HIDE DEF all
<1>6. \A p \in all : p[1] \notin vmProperties <=> p[1] \in Visible \/ p = <<"addr", 16 + i - 1>>
  BY <1>1, <1>3 DEF vmProperties, Visible
<1>7. {p \in all : p[1] \notin vmProperties} = {p \in all : p[1] \in Visible} \cup {<<"addr", 16 + i - 1>>}
  BY <1>5, <1>6
<1>8. withoutTheVMs(Net(s, i)) = [opt |-> "-device", driver |-> "virtio-net-pci", props |-> {p \in all : p[1] \notin vmProperties}]
  BY <1>4 DEF withoutTheVMs
<1>9. Pairs(Net(s, i), Visible) = {p \in all : p[1] \in Visible}
  BY <1>4 DEF Pairs
<1> QED
  BY <1>7, <1>8, <1>9

\* What is at a slot of one machine is at the same slot of any that looks the same.
LEMMA SlotsAlike ==
    ASSUME NEW s, NEW t, Occupied(s) = Occupied(t), NEW d \in Bus(s)
    PROVE  \E e \in Bus(t) : Slot(e) = Slot(d) /\ Pairs(e, Visible) = Pairs(d, Visible)
<1>1. <<Slot(d), d.driver, Pairs(d, Visible)>> \in Occupied(t)
  BY DEF Occupied
<1>2. PICK e \in Bus(t) : <<Slot(d), d.driver, Pairs(d, Visible)>> = <<Slot(e), e.driver, Pairs(e, Visible)>>
  BY <1>1 DEF Occupied
<1> QED
  BY <1>2

LEMMA OptionsFollow ==
    ASSUME NEW s, NEW t, IsSpec(s), IsSpec(t), validate(s), validate(t), Occupied(s) = Occupied(t)
    PROVE  /\ HasVsock(s) => HasVsock(t)
           /\ HasMem(s) => HasMem(t)
           /\ HasSCSI(s) => HasSCSI(t)
           /\ \A i \in 1..Len(s.nics) : i \in 1..Len(t.nics) /\ withoutTheVMs(Net(s, i)) = withoutTheVMs(Net(t, i))
<1>1. Bus(t) \subseteq PCI(Args(t)) /\ \A e \in Bus(t) : ~ IsDisk(e)
  BY DEF Bus
<1>2. ASSUME HasVsock(s) PROVE HasVsock(t)
  <2>1. Vsock(s) \in Bus(s) /\ Slot(Vsock(s)) = 2
    BY <1>2, BusIs, Slots
  <2>2. PICK e \in Bus(t) : Slot(e) = 2
    BY <2>1, SlotsAlike
  <2> QED
    BY <1>1, <2>2, SlotTells
<1>3. ASSUME HasMem(s) PROVE HasMem(t)
  <2>1. Mem \in Bus(s) /\ Slot(Mem) = 30
    BY <1>3, BusIs, Slots
  <2>2. PICK e \in Bus(t) : Slot(e) = 30
    BY <2>1, SlotsAlike
  <2> QED
    BY <1>1, <2>2, SlotTells
<1>4. ASSUME HasSCSI(s) PROVE HasSCSI(t)
  <2>1. SCSI \in Bus(s) /\ Slot(SCSI) = 26
    BY <1>4, BusIs, Slots
  <2>2. PICK e \in Bus(t) : Slot(e) = 26
    BY <2>1, SlotsAlike
  <2> QED
    BY <1>1, <2>2, SlotTells
<1>5. ASSUME NEW i \in 1..Len(s.nics)
      PROVE  i \in 1..Len(t.nics) /\ withoutTheVMs(Net(s, i)) = withoutTheVMs(Net(t, i))
  <2>1. /\ Len(s.nics) \in Nat /\ DOMAIN s.nics = 1..Len(s.nics) /\ Len(t.nics) \in Nat
        /\ Len(s.nics) <= 10
    <3>1. CountsValid(s)
      BY DEF validate
    <3> QED
      BY <3>1, DisksAndNICs DEF CountsValid, maxNICs, slotNICMax, slotNICBase
  <2>2. i \in Int /\ i \in 1..10 /\ 16 + i - 1 \in 16..25 /\ (16 + i - 1) - 15 = i
    BY <2>1
  <2>3. Net(s, i) \in Bus(s) /\ Slot(Net(s, i)) = 16 + i - 1
    BY <2>1, <2>2, BusIs, Slots
  <2>4. PICK e \in Bus(t) : Slot(e) = 16 + i - 1 /\ Pairs(e, Visible) = Pairs(Net(s, i), Visible)
    BY <2>3, SlotsAlike
  <2>5. e = At(t, 16 + i - 1) /\ i \in 1..Len(t.nics)
    BY <1>1, <2>2, <2>4, SlotTells
  <2>6. At(t, 16 + i - 1) = Net(t, i)
    BY <2>2 DEF At
  <2>7. Pairs(Net(t, i), Visible) = Pairs(Net(s, i), Visible)
    BY <2>4, <2>5, <2>6
  <2>8. withoutTheVMs(Net(s, i)).props = withoutTheVMs(Net(t, i)).props
    BY <2>2, <2>7, BareNIC
  <2> QED
    BY <2>2, <2>5, <2>8, BareNIC
<1> QED
  BY <1>2, <1>3, <1>4, <1>5

LEMMA SameOptions ==
    ASSUME NEW s, NEW t, IsSpec(s), IsSpec(t), validate(s), validate(t), Occupied(s) = Occupied(t)
    PROVE  Strip(ContractArgs(s)) = Strip(ContractArgs(t))
<1>1. HasVsock(s) = HasVsock(t) /\ HasMem(s) = HasMem(t) /\ HasSCSI(s) = HasSCSI(t)
  <2>1. /\ HasVsock(s) \in BOOLEAN /\ HasMem(s) \in BOOLEAN /\ HasSCSI(s) \in BOOLEAN
        /\ HasVsock(t) \in BOOLEAN /\ HasMem(t) \in BOOLEAN /\ HasSCSI(t) \in BOOLEAN
    BY DEF HasVsock, HasMem, HasSCSI
  <2>2. (HasVsock(s) <=> HasVsock(t)) /\ (HasMem(s) <=> HasMem(t)) /\ (HasSCSI(s) <=> HasSCSI(t))
    BY OptionsFollow
  <2> QED
    BY <2>1, <2>2
<1>2. Strip(appendNICs(s)) = Strip(appendNICs(t))
  <2>1. Len(s.nics) \in Nat /\ Len(t.nics) \in Nat
    BY DisksAndNICs
  <2>2. Len(s.nics) = Len(t.nics)
    <3>1. (\A i \in 1..Len(s.nics) : i \in 1..Len(t.nics)) /\ (\A i \in 1..Len(t.nics) : i \in 1..Len(s.nics))
      BY OptionsFollow
    <3> QED
      BY <2>1, <3>1
  <2>3. \A i \in 1..Len(s.nics) : withoutTheVMs(Net(s, i)) = withoutTheVMs(Net(t, i))
    BY OptionsFollow
  <2>4. \A r \in {s, t} : Strip(appendNICs(r)) = [i \in 1..Len(r.nics) |-> withoutTheVMs(Net(r, i))]
    BY DisksAndNICs DEF Strip
  <2> QED
    BY <2>2, <2>3, <2>4
<1>3. ASSUME NEW r, IsSpec(r)
      PROVE  Strip(appendDevices(r)) = Strip(<<Vmgenid, RNG, Balloon>>) \o Opt(HasVsock(r), Device("vhost-vsock-pci", 2, {}))
                                       \o Opt(HasMem(r), withoutTheVMs(Mem)) \o Opt(HasSCSI(r), withoutTheVMs(SCSI))
  <2> DEFINE base == <<Vmgenid, RNG, Balloon>>
             a == Opt(HasVsock(r), Vsock(r))
             b == Opt(HasMem(r), Mem)
             c == Opt(HasSCSI(r), SCSI)
  <2>1. HasVsock(r) \in BOOLEAN /\ HasMem(r) \in BOOLEAN /\ HasSCSI(r) \in BOOLEAN
    BY DEF HasVsock, HasMem, HasSCSI
  <2>2. IsList(a) /\ IsList(b) /\ IsList(c)
    BY <2>1, OptList
  <2>3. IsList(base)
    <3>1. base = [i \in 1..3 |-> base[i]]
      OBVIOUS
    <3> QED
      BY <3>1, Listed
  <2>4. appendDevices(r) = base \o a \o b \o c
    BY <1>3, DeviceList
  <2>5. /\ Strip(a) = Opt(HasVsock(r), Device("vhost-vsock-pci", 2, {}))
        /\ Strip(b) = Opt(HasMem(r), withoutTheVMs(Mem))
        /\ Strip(c) = Opt(HasSCSI(r), withoutTheVMs(SCSI))
    BY <2>1, StripOpt, BareVsock
  <2> HIDE DEF base, a, b, c
  <2>6. IsList(base \o a) /\ Strip(base \o a) = Strip(base) \o Strip(a)
    BY <2>2, <2>3, Joined, StripJoined
  <2>7. IsList(base \o a \o b) /\ Strip(base \o a \o b) = Strip(base \o a) \o Strip(b)
    BY <2>2, <2>6, Joined, StripJoined
  <2>8. Strip(base \o a \o b \o c) = Strip(base \o a \o b) \o Strip(c)
    BY <2>2, <2>7, StripJoined
  <2> QED
    BY <2>4, <2>5, <2>6, <2>7, <2>8 DEF base
<1>4. Strip(appendDevices(s)) = Strip(appendDevices(t))
  BY <1>1, <1>3
<1>5. ASSUME NEW r, IsSpec(r)
      PROVE  Strip(ContractArgs(r)) = Strip(appendChipset) \o Strip(appendDevices(r)) \o Strip(appendNICs(r))
  <2>1. IsList(appendChipset) /\ IsList(appendDevices(r)) /\ IsList(appendNICs(r))
    BY <1>5, ChipsetList, DeviceList, DisksAndNICs
  <2>2. IsList(appendChipset \o appendDevices(r))
    BY <2>1, Joined
  <2>3. Strip(appendChipset \o appendDevices(r)) = Strip(appendChipset) \o Strip(appendDevices(r))
    BY <2>1, StripJoined
  <2>4. Strip(appendChipset \o appendDevices(r) \o appendNICs(r)) = Strip(appendChipset \o appendDevices(r)) \o Strip(appendNICs(r))
    BY <2>1, <2>2, StripJoined
  <2> QED
    BY <2>3, <2>4 DEF ContractArgs
<1> QED
  BY <1>2, <1>4, <1>5

LEMMA HardwareTells ==
    ASSUME NEW s, NEW t, NEW h, NEW g, IsSpec(s), IsSpec(t), validate(s), validate(t),
           Hardware(s, h) = Hardware(t, g)
    PROVE  fingerprint(s, h) = fingerprint(t, g)
<1>1. /\ h.firmware[Args(s).bios].size = g.firmware[Args(t).bios].size
      /\ Shape(s).machine = Shape(t).machine /\ Shape(s).accel = Shape(t).accel
      /\ <<Shape(s).cpu, IF derivedFromHost(model(s)) THEN h.cpuModel ELSE "as named">>
           = <<Shape(t).cpu, IF derivedFromHost(model(t)) THEN g.cpuModel ELSE "as named">>
      /\ CPUs(s) = CPUs(t) /\ Memory(s) = Memory(t)
      /\ Occupied(s) = Occupied(t) /\ Ports(s) = Ports(t)
  <2> DEFINE S == Hardware(s, h)
             T == Hardware(t, g)
  <2>1. /\ S.rom = T.rom /\ S.machine = T.machine /\ S.accel = T.accel /\ S.cpu = T.cpu /\ S.cpus = T.cpus
        /\ S.memory = T.memory /\ S.at = T.at /\ S.serial = T.serial
    OBVIOUS
  <2> QED
    BY <2>1, HardwareIs
<1>2. /\ Shape(s).cpu = Shape(t).cpu
      /\ (IF derivedFromHost(model(s)) THEN h.cpuModel ELSE "as named")
           = (IF derivedFromHost(model(t)) THEN g.cpuModel ELSE "as named")
  BY <1>1
<1>3. Shape(s).cpu[1] = model(s) /\ Shape(t).cpu[1] = model(t)
  BY DEF Shape
<1>4. (IF derivedFromHost(Shape(s).cpu[1]) THEN h.cpuModel ELSE "")
        = (IF derivedFromHost(Shape(t).cpu[1]) THEN g.cpuModel ELSE "")
  BY <1>2, <1>3
<1>5. Shape(s).smp = Shape(t).smp /\ Shape(s).memory = Shape(t).memory
  BY <1>1, SizesTell
<1>6. Shape(s) = Shape(t)
  <2>1. \A r \in {s, t} : Shape(r) = [machine |-> Shape(r).machine, accel |-> Shape(r).accel, cpu |-> Shape(r).cpu,
                                      smp |-> Shape(r).smp, memory |-> Shape(r).memory]
    BY DEF Shape
  <2> QED
    BY <1>1, <1>2, <1>5, <2>1
<1>7. HasPort(s) = HasPort(t)
  BY <1>1, ConsoleIs DEF HasPort
<1>8. Contract(s) = Contract(t)
  BY <1>1, <1>7, SameOptions, ContractRange
<1> QED
  BY <1>1, <1>4, <1>6, <1>8 DEF fingerprint

\* A change the guest cannot see leaves the fingerprint alone, and strands no checkpoint.
THEOREM NothingStranded == Spec => []NoCheckpointStranded
<1>1. FleetInv => NoCheckpointStranded
  <2> SUFFICES ASSUME FleetInv, Resumable, Hardware(spec, host) = Hardware(saved.spec, saved.host)
               PROVE  Matches
    BY DEF NoCheckpointStranded
  <2> QED
    BY HardwareTells DEF FleetInv, Resumable, Matches
<1> QED
  BY <1>1, FleetInductive, PTL
=============================================================================
