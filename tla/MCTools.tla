------------------------------ MODULE MCTools ------------------------------
(***************************************************************************)
(* Boot and the tools around it on small instances.  They share no state   *)
(* and run apart: a behaviour is of one of them, and the others stay as    *)
(* they begin.                                                             *)
(***************************************************************************)
EXTENDS Boot, Watch, Samples, Report, MachineType

VARIABLE job   \* which of them it is

vars == <<job, bootVars, watchVars, samplesVars, reportVars, typeVars>>

Init ==
    /\ job \in {"boot", "watch", "samples", "report", "type"}
    /\ BootInit /\ WatchInit /\ SamplesInit /\ ReportInit /\ TypeInit
    /\ job # "boot" => flags = (CHOOSE f \in BootFlags : TRUE) /\ tree = (CHOOSE t \in Unpacked : TRUE)
    /\ job # "watch" => until = CHOOSE p \in Phases : TRUE
    /\ job # "report" => old = CHOOSE s \in OldSections : TRUE

Next ==
    \/ job = "boot" /\ BootNext /\ UNCHANGED <<job, watchVars, samplesVars, reportVars, typeVars>>
    \/ job = "watch" /\ WatchNext /\ UNCHANGED <<job, bootVars, samplesVars, reportVars, typeVars>>
    \/ job = "samples" /\ SamplesNext /\ UNCHANGED <<job, bootVars, watchVars, reportVars, typeVars>>
    \/ job = "report" /\ ReportNext /\ UNCHANGED <<job, bootVars, watchVars, samplesVars, typeVars>>
    \/ job = "type" /\ TypeNext /\ UNCHANGED <<job, bootVars, watchVars, samplesVars, reportVars>>

ToolsSpec == Init /\ [][Next]_vars

\* Boot: every command under every choice of the flags that decide what is run, with one the
\* machine refuses (no such accelerator); up to two files of the release still to come.
MCBootFlags == [cmd : {"boot", "args", "fingerprint"}, qemu : {"", "my-qemu"}, accel : {"", "tcg", "xen"},
                bios : {"", "bios-256k.bin"}, disk : {"", "-", "my-disk"}, readonly : BOOLEAN, console : {"", "mon:stdio"}, root : {"", "/dev/vda"}]
MCUnpacked == {Tree \ {f, g} : f, g \in Tree}

\* Watch: one phase with a marker that overlaps itself, one with two markers.
MCMarkers == [kernel |-> {<<"a", "b", "a", "a">>}, userspace |-> {<<"b", "b">>, <<"a", "a", "b">>}]

\* Report: a matrix of two axes, with the options and values TestReport's axes take out of and
\* put into the command line; and the image's variants, two of which boot the same line, or
\* all of which say nothing of theirs.
MCAxes == {[axis |-> "memory", drop |-> <<"2048">>, add |-> <<"2048,maxmem", "-object", "ram", "-device", "mem">>],
           [axis |-> "vsock", drop |-> <<>>, add |-> <<"-device", "vsock">>],
           [axis |-> "hotplug", drop |-> <<>>, add |-> <<"-device", "scsi">>]}
MCRow(memory, vsock, args) == LET f == [memory |-> memory, vsock |-> vsock] IN Row(f, f, args, 0, f)
MCSmall == <<"-m", "2048", "-device", "rng">>
MCLarge == <<"-m", "2048,maxmem", "-device", "rng", "-object", "ram", "-device", "mem">>
MCSpecs == <<MCRow("plain", "plain", MCSmall), MCRow("plain", "other", MCSmall \o <<"-device", "vsock">>),
             MCRow("other", "plain", MCLarge), MCRow("other", "other", MCLarge \o <<"-device", "vsock">>)>>
MCVariant(name, args) == Row(("name" :> name), << >>, args, 0, <<>>)
MCVariants(quiet, stock) == <<MCVariant("quiet", quiet), MCVariant("stock", stock), MCVariant("again", stock)>>
MCSections == {MCSpecs, MCVariants(MCSmall \o <<"quiet">>, MCSmall), MCVariants(<<>>, <<>>)}
MCArgs == {<<"-device", "rng">>, <<"-device", "console">>, <<"-bios", "qboot">>}
MCNames == {"name" :> "fast", "name" :> "slow"}
=============================================================================
