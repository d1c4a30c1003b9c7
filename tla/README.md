# spin-machine in TLA+

A verification project for spin-machine: the machine description it builds (package
`machine`), the command that boots machines and drives running ones over QMP
(`cmd/spin-machine`), the boot benchmark (`boot`) and the jobs that watch a release
(`hack/osvissues`, `hack/machinetype`). The modules are translated from the Go source; QEMU,
the guest, the guest's kernel, GitHub and the Go runtime are external, and modelled from the
way this source uses them.

- [Inventory](#inventory)
- [Modules](#modules)
- [Runs](#runs)
- [Theorems](#theorems)
- [Where the code and its text disagree](#where-the-code-and-its-text-disagree)
- [What is not modelled](#what-is-not-modelled)
- [Plan](#plan)

To check: `tlc -config MCHotplug.cfg MCHotplug` (and so on, see [Runs](#runs)) and
`tlapm HotplugProofs.tla` (and the other `*Proofs` modules). `PROJECT.json` holds the map from definitions to source lines,
the hazards, and for every property the mutation of the code that breaks it.

## Inventory

| Component | State | Operations | What is hard | What makes it correct |
|---|---|---|---|---|
| QMP client (`qmpConn`) | connection, events kept in `deleted` | dial, handshake, `run`, `waitDeleted`, `Close` | events between a command and its reply; a monitor that serves somebody else; deadlines on some waits only | one command in flight; no event lost; every wait ends |
| `attach`, `detach` | none of their own: QEMU's block nodes and devices, named after the target | `blockdev-add`, `device_add`, rollback; `device_del`, wait, `blockdev-del` | several invocations on one target; death or timeout between two commands; names that say nothing of the owner | a device reads its own disk; nothing of another's is closed; a failure leaves nothing |
| `save`, `restore` | none: QEMU's run state, its migration, the state file | `migrate`, poll, `quit`; `migrate-incoming`, poll, `query-status`, `cont` | a migration outlives its command; a poll does not know whose migration it sees | a reported save is whole; a guest never runs twice; a reported restore runs |
| `memory` | none: the virtio-mem device's requested and plugged size | `qom-set`, poll | competing requests; a guest that never gets there; the width of the size | a reported size is plugged and stays |
| Machine description (`Spec`) | a value | `validate`, `Args` | limits of slots and descriptor sets, chains | a command line that is built is one QEMU reads as it was meant |
| Fingerprint (`Contract`, `Fingerprint`) | a value, a host | `Fingerprint` | both directions: equal for equal hardware, different for different | a checkpoint resumes exactly where the guest finds the same machine |
| Kernel command line (`Cmdline`) | a value with a slice in it | `String`, `validate`, `Profiling` | slices that share an array; the kernel's limit; its parser | the kernel reads what was asked for |
| `boot`, `args`, `fingerprint` (`machineFlags`) | none | the release opened, a `Spec` made of flags, `-snapshot`, exec | flags that decide binary, disk, console and kernel command line one at a time | what runs fits together; the base image is never written |
| Release directory (`release.go`) | a directory | `OpenRelease`, `Rootfs`, `QEMUTCG`, `readEnv` | a directory still being unpacked while it is looked at | a QEMU that starts finds its parts |
| Boot watcher (`boot/phases.go`) | a window over the serial output | `Watch`, `Percentile` | markers cut by reads; a prompt after which nothing comes | every phase is stamped at the read it appeared in |
| Report (`boot/report.go`) | two reports | `Summarise`, `Diff`, `renames` | pairing rows that were renamed while everything else moved | each row is paired at most once, with the one it stands for |
| Issues (`hack/osvissues`) | the repository's issues | the daily job: scan, list, plan, one `gh` call per action | an action that fails half-way, jobs that repeat, people who answer meanwhile | one issue a package; no finding hidden on a closed one; jobs converge |
| Machine type (`hack/machinetype`) | the pinned type, the QEMU that ships | `check`, `compat` | bumps that go on past a deprecation | its deprecation is met before its removal |
| Release notes, apk lock, release scripts | files | text in, text out | little | |
| Kernel, QEMU, qboot and image builds | - | recipes and configuration | outside this repository's logic | |

How they interact: a caller fills in a `Spec`, `Args` turns it into a command line and
`boot` execs QEMU with it. From then on the only contact is QMP, through the sockets of
`Spec.Monitors`, each of which serves one client at a time; every `attach`, `detach`,
`memory`, `save` and `restore` is a process of its own that dials a monitor, does its
sequence of commands and exits. Nothing is shared between invocations but QEMU itself and
the state files, so every race is one of QEMU's state between two commands. A checkpoint
connects machines over time: the fingerprint says which machine may resume it. Around that,
the benchmark boots machines and reads their consoles (`Watch`), sums the boots up
(`Summarise`) and compares two reports (`Diff`, which is also `spin-machine compare`); the
jobs of the repository run apart from all of it, against GitHub and a built QEMU.

## Modules

| Module | Models | Source |
|---|---|---|
| `Hotplug` | attach, detach and the QMP client, message by message | `cmd/spin-machine/main.go` |
| `DiskSlots` | what attach and detach promise of one target: free, opened, plugged, leaving, unplugged | abstract specification |
| `HotplugProofs` | theorems about `Hotplug`, and that it implements `DiskSlots` | |
| `Checkpoint`, `CheckpointProofs` | save and restore | `cmd/spin-machine/main.go` |
| `Memory`, `MemoryProofs` | memory | `cmd/spin-machine/main.go` |
| `Machine` | `Spec`: validation, command line, contract and fingerprint as operators | `machine/machine.go` |
| `Fleet`, `FleetProofs` | machines reconfigured and moved between a save and a resume, over `Machine` | `machine/machine.go`, callers |
| `Cmdline`, `CmdlineProofs` | the kernel command line with Go's slices and the kernel's parser | `machine/cmdline.go` |
| `Boot` | boot, args and fingerprint over a release tree, with `Machine`'s `validate` and `Args` | `cmd/spin-machine/main.go`, `machine/release.go` |
| `Watch` | the console watcher | `boot/phases.go` |
| `Slices` | what the two below do with slices: a loop that selects, and `slices.Sort` | `boot/report.go`, Go |
| `Samples` | percentiles and the summary of a row | `boot/phases.go`, `boot/report.go` |
| `Report` | two reports and what `section` says of them | `boot/report.go`, `boot/report_test.go` |
| `ReportProofs` | theorems about `Samples` and `Report` | |
| `Issues`, `IssuesProofs` | the daily job and the issues it keeps | `hack/osvissues/main.go`, `Taskfile.yml` |
| `MachineType` | the check of the pinned type as QEMU is bumped | `hack/machinetype/main.go` |
| `ToolsProofs` | theorems about `Boot`, `Watch` and `MachineType` | |
| `MC*` | small instances of the above for TLC; `MCTools` runs `Boot`, `Watch`, `Samples`, `Report` and `MachineType`, which share nothing, one per behaviour; `MCFleet` likewise `Fleet` and `Cmdline` | |

Operators named after a mistake and marked *Mutant* (`OpenedAnyway`, `Unclipped`) are used by
no specification: they are the mutations that show each property can fail.

**Hotplug.** `Clients` are invocations, each with an operation, a target and a monitor, its
arguments; `Started` is the set of command lines the clients may be started with. `pc[c]` is the QMP command whose reply c waits for, `inbox[c]` the messages QEMU has
sent it, `deleted[c]` is `qmpConn.deleted`. QEMU's side is `conn`, `request`, `node[t]` and
`device[t]` - the client behind `hd<t>-drive` and `hd<t>` - and `leaving`. One action per
step of the code: `Dial`, `ReadGreeting`, `HandshakeTimeout`, `KeepEvent` (the
`DEVICE_DELETED` case of `run`), `Negotiated`, then `Opened`, `Plugged`, `RolledBack` for
attach and `Unplugged`, `WaitDeleted`, `WaitTimeout`, `Closed` for detach. `Kill` ends a
process anywhere. A reply and an event may come in either order, a client that ends leaves
its last request behind until QEMU notices (`Hangup`), and QEMU may refuse or exit. The disk
behind a node is identified by the client that opened it; format, path and serial are left
out. `plugged` and `victim` are history, for the properties.

**Checkpoint.** `pc[c]` is the command c sends next; a command and its reply are one step,
since save and restore read no event. `run[v]`, `mig[v]` are what `query-status` and
`query-migrate` report, `file[f]` what a state file holds: whose save of which VM, whether it
is whole, whether two migrations wrote to it at once. `Sessions` is the number of monitors of
a VM. A migration goes on after its command has given up or died. QEMU's `cont` also
continues a VM that a completed migration has stopped, which is why what holds depends on
the number of monitors.

**Memory.** `want` is `uint64(sizeMB) << 20`, in a word of `Word` values. The guest moves one
block at a time towards the request, or never does.

**Machine and Fleet.** A `Spec` is a record; what no property tells apart (paths, the texts of
options that are the same for every machine) is not in it. `Args(s)` is the command line as
data: devices with driver, slot and properties, block nodes, descriptors. SHA-256 over
length-prefixed pairs is taken to be injective, so `fingerprint` is the record of what is
hashed. What the guest sees, `Hardware`, is worked out from `Args`, independently of
`Contract`, which is what makes the comparison of the two worth something. `Field` gives the
types of the fields; a caller of `Fleet` starts from a `Spec` that validates and may set any
field to any value `choices` has for it, so that what it runs is what `validate` lets through.

**Cmdline.** Extra is a Go slice: array, length, capacity. `append` writes in place while there
is capacity and otherwise copies to an array with any spare capacity. A parameter is a word
with a key, a value, a length and whether it holds an odd quote. `Read` is the kernel's
parser, a word at a time (`next_arg`): truncation, quotes, `--`. `validateLine` is `Cmdline.validate`. The five parameters of a profile are one element.

**Boot.** `tree` is the set of files that are there, and grows at any time (`Unpack`): the five
stats (`Stat`), the manifest (`ReadEnv`), the emulating binary (`FindTCG`), the base image
(`MakeSpec`) and the exec (`Exec`) each see the tree of their own moment. The `Spec` made of
the flags goes through `Machine`'s `validate` and `Args`. Files are only ever added: the
source says "A new image is written beside it and renamed over it", so a path that is there
stays there. Replacing a whole release in place, and files that are there and not yet whole,
are outside what `OpenRelease` promises. `--bios` is a flag as well: a BIOS the caller names is not
among the five files that are looked for, and QEMU may not find it. Exec may fail for any binary
(not found, not executable, a `Spec` that `Args` refuses). `BootAssumption` says that a caller who names a QEMU
or a disk of his own does not name a file of the release: who passes `--disk` with the release's
own base image, and not read-only, has asked for it to be written.

**Watch.** A console is a sequence of bytes delivered in reads of any size, with an error or not;
a time is the number of the read it was taken at. `output`, `window` and `at` are the code's;
`ends` is history, how much had been read after each read, so that a stamp can be compared
with where the marker really ended.

**Samples.** A boot is when it reached each phase, in microseconds, or 0 for a phase it did not, which
no boot takes to one (`SamplesAssumption`). `Summarise` is a row's `Boot`: the boots and those that
failed, and for every phase that was reached its percentiles, rounded by `ms` to hundredths of a
millisecond. The rank of a percentile is computed with an exact fraction; `math.Ceil(p*float64(n))`
gives the same for p50 and p95 of every n below 5000.

**Report.** The older report is fixed and the newer one is edited away from it: an axis more or fewer,
an option more or fewer on every row, a row lost, another order, other measurements, a variant
renamed, only some rows asked for. `from` remembers which older row a row stands for, which the code
has to find out from axes and command lines.

A command line is what `static` of `report_test.go` records, options and values each a token of their
own. An axis is a name and what its other choice takes out of the line and puts into it; the plain
choice (`nil` flags) does nothing. Those of the run are the axes of `TestReport`: memory takes out
`-m`'s value, puts another one in and adds an `-object` and a `-device`; vsock and hotplug add a
`-device` each. So axes share tokens with each other and with what a release adds or drops, and
distances can cancel. What the older report may be is `ReportAssumption`: rows of different names; for
the image's variants no more than that; for a matrix `IsMatrix`: every row has every axis and is
called after its choices, and between two rows of which one made the other's choices and more, a
token is there more often only if one of those axes adds it, and less often only if one drops it.
Of an axis it is only assumed that it shows: it adds a token that no axis drops. An axis neither of
whose choices leaves the line alone is not modelled; `TestReport` has none.

Variants are taken with command lines, as the unit tests of `Diff` have them, and without, as
`TestReport` records them (it gives a variant no `Args`): then all their lines are the same, and a
variant that goes while another comes is paired with it, which is what the code does.

**Issues.** One action per call of the job: `Scan` (task osv), `List` (the issues, and `plan`), `Act`
for each action of the plan, `Finish`. `ActFails` is a call that reports a failure, with or
without its effect; `GiveUp` is every other way for a job to end. The plan is a function from
places to what is left there, packages in the order of their names and then the issues to
close, which is the order of the code's list. OSV (`Publish`), releases (`Release`) and people
(`Answer`) act at any time; `PeopleDuringRuns` says whether people also do between a job's
listing and its last action. `told` and `answered` are history: what comments named, and what
had been listed or told when an issue was last closed. `settled` says whether anything has
changed since the last scan. `IssuesAssumption` says of the issues there are before the first
job that whoever closed one had seen what it lists.

**MachineType.** QEMU's releases are numbered, deprecate the type of a release some time after
it and remove it later; `help(q)` lists the types in every order. `Build` is a bump with its
check: a QEMU that fails it is not shipped, and the next may be tried all the same. `BuildMute` is a
build whose QEMU cannot be asked (`-machine help` fails). `Compat` looks for the two arrays of the
pinned type one after the other, each of which may be whole, without an end, or missing.

## Runs

| Run | Instance | Shows |
|---|---|---|
| `hotplug` | 3 invocations, 2 monitors, the last target and one past it | `DeviceOverOwnDisk`, `SuccessIsReal`, `FailedAttachLeavesNothing`, `OrphanHasACause`, `ClosesOnlyItsOwn`, `TypeOK` (nothing is put past the last target), the refinement `ImplementsSlots`, `EveryCommandEnds`, and the proofs' `IInv` |
| `hotplug_count` | 2 invocations, 2 targets, a VM with 1 hotplug disk | `AtMostHotplugDisks` is violated: disks at targets 0 and 1 at once |
| `checkpoint` | 3 invocations, 2 VMs, 2 files, 1 monitor per VM | `SavedIsComplete`, `SourceIsStopped`, `StoppedIsSaved`, `RestoredRuns`, `EveryCommandEnds`, and the proofs' `CheckpointInv` and `SessionInv` |
| `checkpoint_monitors` | 2 invocations, 1 VM, 2 files, 2 monitors | `SavedIsComplete` is violated |
| `memory` | 3 invocations, 5 sizes, 4 blocks | `ReachedStays`, `MemoryInv`, `EveryCommandEnds` |
| `memory_width` | 4-bit words, MiB of 2 bytes | `PluggedIsAsked` is violated |
| `machine` | `Fleet`: machines 2 settings away from a common one on 4 hosts; machines 3 settings away, at and past the limits of slots, descriptor sets and chains, on one. `Cmdline`: 2 lines, Extra of 2 elements, plain or with a quote that is closed, a buffer of 150 bytes | `ResumesOnSameHardware`, `NoCheckpointStranded`, `NoSlotTwice`, `SetsAreGiven`, `ChainsAreClosed`; `LinesAreIndependent`, `KernelReadsTheLine` |
| `cmdline_quotes` | an element whose quote is not closed | `KernelReadsTheLine` is violated |
| `issues` | 2 packages, 2 findings, 2 releases, 4 changes; with and without earlier issues | `NothingLost`, `OneIssue`, `DoneIsReported`, `EventuallyReported` |
| `issues_race` | the same, 3 changes, people answering while a job runs | `NothingLost` is violated |
| `tools` | `Boot`: 864 sets of flags, up to 2 files still to come. `Watch`: 2 phases, 3 overlapping markers, 8 bytes in reads of up to 3. `Samples`: 3 boots, each of 2 phases reached after one of 3 times or not at all. `Report`: a matrix of memory and vsock, to which hotplug may be added, and 3 variants with and without command lines, 3 edits. `MachineType`: 10 releases, deprecated after 2, removed after 4 | `NoPartMissing`, `BaseNeverWritten`, `MachineFitsKernel`; `StampedWhereItAppeared`, `ReturnsOnceReached`; `SummaryIsRank`; `EveryRowOnce`, `AxesRename`; `WarnedInTime`, `NoticeIsNewest` |
| `tools_axes` | the same | `PlainIsClosest` is violated: an axis dropped while every row gets one more device |

**Bounds.** Three invocations of attach and detach at one target are enough for an attach whose
target another has just freed while a detach of the earlier disk is still waiting, through
one monitor or two. A detach that holds a stale event while its target is freed and given away
again takes a fourth, which only the theorems cover, as they do any number of clients, monitors and
targets; targets do not interact. Three saves and restores over two VMs allow a restore between two saves of the same
file. Sizes, words and blocks in `Memory` are scaled down, with sizes of several blocks, too
large for the device, and too large for the word; every size is a multiple of a block, as MiB are of
the code's. The run `machine` covers every pair of
machines that differ from a common one in two settings between them: `validate`, `Args` and
`fingerprint` relate at most two fields at a time, except for descriptor sets, which the
callers that try the limits take with three. The buffer of 150 bytes puts both sides of the kernel's limit
within reach of a profile and one long parameter. Four changes to `Issues` are a finding
published, answered, joined by a second and withdrawn, or a release in between. The markers of
`Watch` overlap themselves and each other and are longer than a read, so that every way a read
can cut one occurs. Two or three boots tell the nearest rank from other conventions, for p50 and p95
and with boots missing from a phase, and the times are on both sides of where `ms` rounds; that p95 is
not the slowest boot from 20 on is left to the theorem. Three edits of a report are an axis dropped,
another added, and an option on every row. `Cmdline`
stops when its lines are full (`MaxExtra`, `MaxArrays`), and the parts of `MCTools` end as
programs do, so deadlock is not checked there; everywhere else it is, and the only states
without a step other than stuttering are those where every invocation has ended.

**Fairness.** A process that can read, write or send does so (`ClientStep`): it is scheduled by
the host's kernel. Deadlines pass. QEMU executes a command of a connection it has accepted
(`Execute`), which is what the code relies on: "the handshake has a deadline and nothing
after it does". Nothing is assumed of the rest: a monitor need never accept a connection, a
device need never go, a guest need never move, a migration need never end. In `Issues` a job
is run every day (`osv.yml`'s schedule) and jobs that keep coming sooner or later get a
listing and a call through (strong fairness of `List` and `Act`: both may fail any number of
times); nothing is assumed of OSV, releases and people but that they rest in the end, which
`MaxChanges` bounds.

**Symmetry.** Liveness is checked in the same runs as safety, so TLC's symmetry reduction is not
used but for `memory_width`; instead `MCHotplug` and `MCCheckpoint` start their clients in one order of the command
lines, which leaves one or a few of those that differ by a permutation of clients, monitors,
VMs or files, and `MCFleet` begins with one and the same of its command lines, with at most one field that
`validate` refuses.

## Theorems

Proved by TLAPS for any number of invocations, monitors, targets, VMs, files and sizes, any
`Spec`, flags and command lines, any packages, findings and releases. The assumptions are the
modules' own: `Nobody` is no client (VM, file), targets are integers, `HotplugDisks` is at most
`MaxHotplugDisks`, there are finitely many clients of the checkpoint commands, words and blocks
are not empty, no marker is empty and one of them is a longest; the values a caller of `Fleet`
chooses from have the types of the fields; what `BootAssumption` and `IssuesAssumption` say, see
above; a QEMU is deprecated for at least one bump before it is removed (`MachineTypeAssumption`); no boot
takes no time, an axis of a report shows and an older report is made the way `ReportAssumption` says,
see above.

**HotplugProofs.** `TypeCorrect`, `DevicesOverTheirOwnDisks`, `SuccessesAreReal`,
`FailedAttachesLeaveNothing`, `OrphansHaveCauses`, `OnlyTheirOwnIsClosed` and `Refinement`
(`Hotplug` implements `DiskSlots`) all follow from `Inductive`, that `IInv` is an invariant.
None of the properties is inductive: each is about QEMU's state, and what makes the next step
safe is what the client knows. So `IInv` ties the two together. For every client: there is at
most one answer in its inbox and none while its request is pending (`OneAtATime`), its
requests are those of its operation (`OwnCommands`), and for every stage of attach
(`AttachInv`) and detach (`DetachInv`) who owns node and device: an attach that has been told
"return" to `blockdev-add` owns the node until it ends; a detach that holds, or is about to
read, a `DEVICE_DELETED` for its target after its own `device_del` was accepted closes the
node of exactly the device it removed. For every target (`SlotInv`): a device lies over its
owner's node, and a device is told to go by at most one detach.

The argument for a stale event: an event can only be in the inbox of a detach whose
`device_del` has not been executed if it is of an earlier device; QEMU then refuses the
`device_del` or accepts it for the new device, and in the second case the node is still in use
when the `blockdev-del` comes, unless the new device has gone too. The invariant is what says
that in no interleaving is the node anyone else's.

**CheckpointProofs.** `CheckpointInv` holds for any number of monitors (`Inductive`); from it
`TypeCorrect` and `StoppedAreSaved`. With one monitor per VM `SessionInv` is an invariant
(`SessionInductive`): one command at a time on a VM, so the migration a save waits for is the
one it started (`SaveInv`), a VM under a restore is nobody else's to save until the restore
has ended (`RestoreInv`), and a whole file is of a VM that is stopped for good (`SourceInv`).
From it `SavesAreComplete`, `SourcesAreStopped` and `RestoresRun`. With two monitors the first
of these is false, see below.

**MemoryProofs.** `Inductive` (`MemoryInv`: the device pursues what its last client asked for,
and a client that got there last has it) and `ReachedSizesStay`. The guest's step towards a
request never overshoots because sizes are multiples of a block (lemma `Towards`).

**IssuesProofs.** `IssuesInductive` (`IssuesInv`), and from it `NothingIsLost`, `OneIssueEach` and
`DoneReports`. A plan is made once and carried out over several calls, so what the properties need
is that what is left of it still fits: `PlanInv` says for every package what may be left to do for
its issue and in which state the issue then is - a create only if there is none, an edit only of
an open issue, or of one that is about to be reopened first (`LeftFor`). That an edit finds its
issue open is what fails when people answer while a job runs, so `NothingIsLost` assumes that they
do not, and the run `issues_race` shows that it has to. `OneIssueEach` needs no such assumption:
titles do not change, and issues are not deleted. `ScanInv` carries what a job saw over to what it
reports, as long as nothing has changed since.

**FleetProofs.** `FleetInductive` says that what a caller holds is a `Spec` and that the machine of its
checkpoint has passed `validate`; the properties are then facts about `validate`, `Args`, `Contract`
and `Hardware` for every `Spec`, proved operator by operator. `SlotsDistinct`: every device's slot is
a function of what it is - a fixed device, the n-th disk, the n-th NIC, the hotplug controller -
and the ranges of disks and NICs end where `validate` says. `SetsGiven` and `ChainsClosed` follow the
descriptor sets and the chains from `validate` through `chainArgs` to the command line.
`SameHardware`: two equal fingerprints have equal contracts, and a contract lists the devices in an
order from which the fields a guest can tell apart can be read back. `NothingStranded` is the
converse: from two equal sets of devices to equal contracts, option by option, although a contract
is a list and the hardware a set.

**CmdlineProofs.** `CmdlineInductive` (`CmdlineInv`): a line's slice fits its array, and no two lines hold
the same array, because a profile's append is to a clipped slice and so copies. From it
`Independent`. `KernelReads` rests on `ReadThrough`: of a line that fits, the kernel reads every word
in front of which no quote is open, and if that is so of the last word, reads it last. The machine's own words come before Extra and hold no quote, so they are read;
Extra closes its quotes (`ClosesJoined`, `FlattenSeqIn`), so init is read, last. The theorem assumes
`QuotesClosed`, that every element of Extra closes the quotes it opens and none is a quoted `--`,
which `validate` does not check; `cmdline_quotes` shows what happens otherwise.

**ToolsProofs.** `BootInductive` (`BootInv`): what a command saw of the release is still there, its `Spec`
is the flags', and what it runs is what the `Spec` asks for; from it `BaseUnwritten`, `NothingMissing`
and `OneBoot`, for every set of flags and every order of unpacking and looking. `TypeInductive`
(`PinInv`): what the last check said is what the list of its QEMU says of the pinned type, and a
type that was not refused is not deprecated; from it `WarningsInTime` and `NewestNoticed`. The order
of versions is the order of releases (lemma `VersionOrder`), which is arithmetic with quotients and
remainders.

For the watcher `WatchInductive` (`WatchInv`), and from it `StampsAreExact` and `WatchReturns`, for
any markers, any console and any way of cutting it into reads. Neither property is inductive: a
stamp is right if the watcher has missed nothing before, and what it can miss is what it no
longer holds. `WindowInv` says that the window is the end of the output, all of it or at least
`overlap` bytes, one less than the longest marker. A marker that was not there before a read and
is there after it ends in that read, so it begins within the window, and `stamp` finds it (lemmas
`Bytewise` and those after it); one that is in the window is in the output. `SeenInv` turns that
into: what is stamped is what has appeared.

**ReportProofs.** `SummariesAreRanks`: whatever boots come in, p50 and p95 of every phase are, rounded, times
boots took to it, with at least that part of the boots no slower and less than that part faster; a
phase is in the summary exactly if a boot reached it, and `usable` exactly if not all boots failed. `Sorted` puts one sample
after the other in its place; what is counted of the boots is counted the same of the sorted
samples (`FilterCount`, `SortedFacts`), and in a rising sequence those no larger than the k-th are
at least k, those smaller less than k (`Ranks`).

`RowsOnce` rests on what `nearest` finds: after every turn of its loop it holds the first of the
rows that are nearest so far, and `tie` says whether there is another (`StillBest`), so that what it
answers is the only nearest row, whatever order the rows are in (`NearestIs`). Pairs are then the
rows that are each other's only nearest (`RenamesAre`), a relation in which no row is twice, and
`section` has one line for each row (`Accounted`). That needs sections without two rows of one
name, which every edit keeps.

`AxesRenamed` needs `ReportInv` (lemma `ReportInductive`): two reports that began alike stay matrices,
and a row that stands for an older one (`from`) is `Near` it, that is, agrees with it on the axes both
have and made the plain choice on the others. An edit has to keep `IsMatrix` although it appends and
cuts options that axes share: what every row gains or loses alike changes no comparison of counts
(`GrowsAlike`), and an axis changes the count of a token by what it adds less what it drops
(`AxisGrows`). Another row that could be taken for the older one agrees with it on the common axes,
too, and so made the other choice on axes that only its own report has, and its command line has
grown (`Grows`) from that of the row that stands for it by what these do. Distance does not follow from that alone:
if lines moved the other way meanwhile, growing by the axis brings a row nearer. `MovedApart` is the condition
under which they did not, in either direction: token for token, the row that stands for the older one is
then between the older one and any other (lemmas `OthersFarther` and `Farther`), and since an axis
shows, the other is farther by at least one. The argument is the same in both directions
(`OnlyNearest`), which is what `renames` asks for. Without the condition the property is
`PlainIsClosest`, which is false, see below.

**Loops.** The library's induction theorems take an operator and cannot be used with the provers at
hand, but a set of naturals has a least element (`WFMin`, a theorem about sets), and that is enough:
lemmas `HasMin` and `Upto` give induction over the turns of a loop, and lemma `Turns` that a function
defined by recursion on them exists. So loops of the source that theorems are about are written as
recursive functions (`kept`, `sorted`, `best`, `readLines`, `ends`, `Read`) rather than with folds.
`distance` is the size of a symmetric difference of copies of arguments rather than a sum over a
map of counts, which is the same number and needs no loop.

Only model-checked: liveness (`EveryCommandEnds`, `EventuallyReported`), since TLAPS cannot prove
what rests on fairness and `ENABLED`. Every other property of a run that passes is a theorem, for
every value of the constants its module's assumptions allow.

## Where the code and its text disagree

1. `hotplug_count`: `HotplugDisks` is documented as the number of disks a machine can be given
   at once (`machine.go:517`, and `--target`'s help, `main.go:443`). `checkTarget` holds a target
   below 256 only, and the controller takes it: a VM with one hotplug disk ends up with two, at targets
   0 and 1.
2. `checkpoint_monitors`: "The state is written and complete" (`main.go:638`) holds while one
   command at a time talks to the VM. With two monitors, a save whose migration failed can poll
   the migration another save has started since and report its own truncated file as saved.
3. `memory_width`: `--size` is shifted into a `uint64` without a check (`main.go:572`): 2^44 MiB asks
   for 0 and reports success with nothing plugged.
4. `cmdline_quotes`: `validate` "refuses a command line the kernel would read as something else"
   (`cmdline.go:219`) but does not look for quotes in Extra: one left open takes the rest of the
   line, init included, into the same parameter.
5. `issues_race`: "A finding it did not list reopens it" (`osvissues/main.go:12`). The plan is made
   from a listing, and an edit does not look at the issue again: when someone closes the issue
   between the two, the edit lists a new finding on a closed issue, and every later job takes it
   for answered. With people answering only between jobs, `NothingLost` holds (run `issues`).
6. `tools_axes`: "the dropped axis's value that added nothing to the command line is still the
   closest" although "the command line has moved too (a firmware added, say) on every row alike"
   (`report.go:205`). It is for a firmware, and whenever the lines did not move back over what the axis
   does (`AxesRename`, run `tools`). But options and values are counted as tokens of their own, and devices
   share `-device`: drop the vsock axis and add one device to every row, and the older rows with and
   without vsock are both 2 away from the newer one (`report.go:240`). That is a tie, and every row
   reads as new and gone.
7. Without a run: the comment on `Spec.BIOS` says its "contents are in the fingerprint"
   (`machine.go:443`), and the `fingerprint` task that the files a guest runs are in it "by content"
   (`Taskfile.yml:346`). `fingerprint` hashes the size alone, and explains why (`machine.go:1262`); the
   hosts of the run `machine` include a rebuilt BIOS of the same size, which strands no checkpoint.

## What is not modelled

- Flag parsing, and flags that pass into the `Spec` unchanged; a firmware directory or
  kernel the caller names himself, which `OpenRelease` does not look for; a `--disk` or `--qemu` that
  names a file of the release.
- A release replaced in place, or one whose files are there and not yet whole: `OpenRelease` asks
  whether a file is there, and says no more than that.
- In `Issues`: people who edit bodies, two jobs at once (`osv.yml` allows one), `-n`, more issues
  than a listing holds.
- Text: option quoting (`qemuOpt`), JSON, messages, the syntax of a MAC address.
- A QEMU that accepts a command and never answers. The code has no deadline there, and says so.
- What a file system does to a state file while it is written, and a save to the path of an
  earlier checkpoint failing: the earlier one is lost, which the code does not promise to avoid.
- A restore that timed out and whose load succeeds later: the VM then comes up after the
  command said it failed. The model has these behaviours; no property forbids them, because the
  code does nothing about them and no text says it should.
- The threshold of a report's comparison, its header and its Markdown.
- The probe init: a guest's PID 1 that prints markers and powers off, in a straight line.
- Release notes, apk lock, version pins and the release scripts: text in, text out, or git
  and task invocations in sequence. What a model of them could state is their own rules again.
- `Hotplug` and `Checkpoint` together: a save while a disk is being attached. QEMU decides what
  the state of such a machine is, and the code says nothing of it. Builds, configuration and patches: not this program's logic.

## Plan

The order was: what can lose a guest's data first (`Hotplug`, `Checkpoint`), then the rest of the
QMP commands (`Memory`), then the description (`Machine`, `Fleet`, `Cmdline`), then what is
around them (`Boot`, `Issues`, `Watch`, `Samples`, `Report`, `MachineType`). What could be added is what
[What is not modelled](#what-is-not-modelled) lists.
