------------------------------ MODULE Hotplug ------------------------------
(***************************************************************************)
(* Giving a running VM a disk and taking it back: `spin-machine attach`    *)
(* and `spin-machine detach` (cmd/spin-machine/main.go), run concurrently  *)
(* against one QEMU through one or more QMP monitors.                      *)
(*                                                                         *)
(* A client is one invocation of the command.  It dials a monitor, waits   *)
(* for the greeting, negotiates capabilities and then has one QMP command  *)
(* in flight at a time; pc[c] names the command it waits for.  QEMU is     *)
(* external: its block nodes, its devices and its monitors are modelled    *)
(* from what main.go sends and from the answers it provides for.           *)
(*                                                                         *)
(* Every path and name in the commands derives from the target, so a node  *)
(* (`hd<t>-drive`) and a device (`hd<t>`) are identified by the target, and*)
(* the disk image behind a node by the client that opened it.              *)
(***************************************************************************)
EXTENDS Integers, FiniteSets, Sequences

CONSTANTS Clients,          \* invocations of attach and detach
          Nobody,           \* the owner of a node or device that is not there
          Monitors,         \* the QMP sockets of the VM (Spec.Monitors)
          Asked,            \* the --target values the invocations may name
          MaxHotplugDisks,  \* targets a controller addresses (256 in the code)
          HotplugDisks,     \* Spec.HotplugDisks of the running VM
          Started           \* the command lines the invocations may be started with, together

ASSUME NobodyAssumption == Nobody \notin Clients
ASSUME LimitAssumption == /\ MaxHotplugDisks \in Nat
                          /\ HotplugDisks \in 0..MaxHotplugDisks
ASSUME AskedAssumption == Asked \subseteq Int

Targets == 0 .. MaxHotplugDisks - 1

\* Spec.Args adds the virtio-scsi controller only to a machine that has hotplug
\* targets; whether it is there is QEMU's to answer (device_add).
HasController == HotplugDisks > 0

\* The command line of one invocation.
Args == [op : {"attach", "detach"}, target : Asked, monitor : Monitors]

ASSUME StartedAssumption == Started \subseteq [Clients -> Args]

Commands == {"qmp_capabilities", "blockdev-add", "device_add", "device_del", "blockdev-del"}

\* What QEMU sends: the greeting, the reply to the command in flight, and the one
\* event run() keeps.  A reply's target is that of the command it answers.
Messages == [kind : {"greeting", "return", "error", "DEVICE_DELETED"}, target : Asked]

Waiting == {"greeting", "qmp_capabilities", "blockdev-add", "device_add", "rollback",
            "device_del", "waitDeleted", "blockdev-del"}
Ended == {"ok", "failed", "killed"}

VARIABLES
    args,      \* args[c]: c's command line; fixed when c is started
    pc,        \* pc[c]: where c's call stack stands
    inbox,     \* inbox[c]: what QEMU has sent on c's connection and c has not read
    deleted,   \* deleted[c]: targets in qmpConn.deleted
    conn,      \* conn[c]: QEMU's view of c's connection
    request,   \* request[c]: the command c has sent and QEMU has not executed
    node,      \* node[t]: the client whose disk is open as hd<t>-drive, or Nobody
    device,    \* device[t]: the client that added hd<t>, or Nobody
    leaving,   \* targets whose device was told to go and is not gone
    vm,        \* whether QEMU still runs
    plugged,   \* history: the clients whose device_add QEMU executed
    victim     \* history: whose device c's device_del took away, or Nobody

clientVars == <<args, pc, inbox, deleted>>
qemuVars == <<conn, request, node, device, leaving, vm>>
history == <<plugged, victim>>
vars == <<args, pc, inbox, deleted, conn, request, node, device, leaving, vm, plugged, victim>>

TypeOK ==
    /\ args \in [Clients -> Args]
    /\ pc \in [Clients -> {"start"} \cup Waiting \cup Ended]
    /\ inbox \in [Clients -> Seq(Messages)]
    /\ deleted \in [Clients -> SUBSET Asked]
    /\ conn \in [Clients -> {"none", "queued", "accepted", "ready"}]
    /\ request \in [Clients -> Commands \cup {"none"}]
    /\ node \in [Asked -> Clients \cup {Nobody}]
    /\ device \in [Asked -> Clients \cup {Nobody}]
    /\ \A t \in Asked : node[t] # Nobody \/ device[t] # Nobody => t \in Targets
    /\ leaving \subseteq Asked
    /\ vm \in BOOLEAN
    /\ plugged \subseteq Clients
    /\ victim \in [Clients -> Clients \cup {Nobody}]

Init ==
    /\ args \in Started
    /\ pc = [c \in Clients |-> "start"]
    /\ inbox = [c \in Clients |-> <<>>]
    /\ deleted = [c \in Clients |-> {}]
    /\ conn = [c \in Clients |-> "none"]
    /\ request = [c \in Clients |-> "none"]
    /\ node = [t \in Asked |-> Nobody]
    /\ device = [t \in Asked |-> Nobody]
    /\ leaving = {}
    /\ vm = TRUE
    /\ plugged = {}
    /\ victim = [c \in Clients |-> Nobody]

Op(c) == args[c].op
Target(c) == args[c].target

-----------------------------------------------------------------------------
(* The client: attach, detach and the QMP connection they talk through.     *)

\* Mutant: off by one at the last target.
checkTargetInclusive(t) == t >= 0 /\ t <= MaxHotplugDisks

\* checkTarget: 0 .. MaxHotplugDisks-1, whatever the VM was started with.
checkTarget(t) == t >= 0 /\ t < MaxHotplugDisks

\* The process ends: its deferred Close hangs up, and what it had read is gone.
\* QEMU notices on its own time (Hangup).
End(c, how) ==
    /\ pc' = [pc EXCEPT ![c] = how]
    /\ inbox' = [inbox EXCEPT ![c] = <<>>]
    /\ deleted' = [deleted EXCEPT ![c] = {}]
    /\ UNCHANGED <<args, qemuVars, history>>

\* run: write cmd to the connection and wait for its reply at `where`.  Writing to a
\* QEMU that has exited puts the command nowhere.  `read` is what is left to read.
Send(c, cmd, where, read) ==
    /\ pc' = [pc EXCEPT ![c] = where]
    /\ request' = [request EXCEPT ![c] = IF vm THEN cmd ELSE "none"]
    /\ inbox' = [inbox EXCEPT ![c] = read]
    /\ UNCHANGED <<args, deleted, conn, node, device, leaving, vm, history>>

\* Flag and target checks, then net.Dial: the kernel queues the connection.
Dial(c) ==
    /\ pc[c] = "start"
    /\ \/ /\ ~ checkTarget(Target(c)) \/ ~ vm
          /\ End(c, "failed")
       \/ /\ checkTarget(Target(c))
          /\ vm
          /\ pc' = [pc EXCEPT ![c] = "greeting"]
          /\ conn' = [conn EXCEPT ![c] = "queued"]
          /\ UNCHANGED <<args, inbox, deleted, request, node, device, leaving, vm, history>>

\* handshake: the greeting is read, qmp_capabilities is sent.
ReadGreeting(c) ==
    /\ pc[c] = "greeting"
    /\ inbox[c] # <<>>
    /\ Send(c, "qmp_capabilities", "qmp_capabilities", Tail(inbox[c]))

\* The deadline over greeting and qmp_capabilities passes; newQMP closes c.
HandshakeTimeout(c) ==
    /\ pc[c] \in {"greeting", "qmp_capabilities"}
    /\ End(c, "failed")

\* Where c waits inside run(), for the reply to a command.
InRun(c) == pc[c] \in Waiting \ {"greeting", "waitDeleted"}

\* run: an event that arrives before the reply is kept in q.deleted.
KeepEvent(c) ==
    /\ InRun(c)
    /\ inbox[c] # <<>>
    /\ Head(inbox[c]).kind = "DEVICE_DELETED"
    /\ inbox' = [inbox EXCEPT ![c] = Tail(@)]
    /\ deleted' = [deleted EXCEPT ![c] = @ \cup {Head(inbox[c]).target}]
    /\ UNCHANGED <<args, pc, qemuVars, history>>

Replied(c, kind) == inbox[c] # <<>> /\ Head(inbox[c]).kind = kind

\* The handshake is over: the command's own first request.
Negotiated(c) ==
    /\ pc[c] = "qmp_capabilities"
    /\ \/ /\ Replied(c, "return")
          /\ IF Op(c) = "attach" THEN Send(c, "blockdev-add", "blockdev-add", Tail(inbox[c]))
                                 ELSE Send(c, "device_del", "device_del", Tail(inbox[c]))
       \/ /\ Replied(c, "error")
          /\ End(c, "failed")

\* Mutant: a refused blockdev-add is taken for "already open" and ignored.
OpenedAnyway(c) ==
    /\ pc[c] = "blockdev-add"
    /\ Replied(c, "return") \/ Replied(c, "error")
    /\ Send(c, "device_add", "device_add", Tail(inbox[c]))

\* attach, after blockdev-add.
Opened(c) ==
    /\ pc[c] = "blockdev-add"
    /\ \/ /\ Replied(c, "return")
          /\ Send(c, "device_add", "device_add", Tail(inbox[c]))
       \/ /\ Replied(c, "error")
          /\ End(c, "failed")

\* Mutant: a refused device_add is reported and nothing is rolled back.
PluggedNoRollback(c) ==
    /\ pc[c] = "device_add"
    /\ \/ Replied(c, "return") /\ End(c, "ok")
       \/ Replied(c, "error") /\ End(c, "failed")

\* attach, after device_add: a refusal closes the disk that was opened for it.
Plugged(c) ==
    /\ pc[c] = "device_add"
    /\ \/ /\ Replied(c, "return")
          /\ End(c, "ok")
       \/ /\ Replied(c, "error")
          /\ Send(c, "blockdev-del", "rollback", Tail(inbox[c]))

\* attach, after the rollback: whatever QEMU said of it, the attach has failed.
RolledBack(c) ==
    /\ pc[c] = "rollback"
    /\ Replied(c, "return") \/ Replied(c, "error")
    /\ End(c, "failed")

\* Mutant: a refused device_del is taken for "already unplugged", and the disk is closed.
UnpluggedAnyway(c) ==
    /\ pc[c] = "device_del"
    /\ \/ /\ Replied(c, "error") \/ (Replied(c, "return") /\ Target(c) \in deleted[c])
          /\ Send(c, "blockdev-del", "blockdev-del", Tail(inbox[c]))
       \/ /\ Replied(c, "return")
          /\ Target(c) \notin deleted[c]
          /\ pc' = [pc EXCEPT ![c] = "waitDeleted"]
          /\ inbox' = [inbox EXCEPT ![c] = Tail(@)]
          /\ UNCHANGED <<args, deleted, qemuVars, history>>

\* detach, after device_del: waitDeleted returns at once when the event was kept.
Unplugged(c) ==
    /\ pc[c] = "device_del"
    /\ \/ /\ Replied(c, "return")
          /\ Target(c) \in deleted[c]
          /\ Send(c, "blockdev-del", "blockdev-del", Tail(inbox[c]))
       \/ /\ Replied(c, "return")
          /\ Target(c) \notin deleted[c]
          /\ pc' = [pc EXCEPT ![c] = "waitDeleted"]
          /\ inbox' = [inbox EXCEPT ![c] = Tail(@)]
          /\ UNCHANGED <<args, deleted, qemuVars, history>>
       \/ /\ Replied(c, "error")
          /\ End(c, "failed")

\* Mutant: detach is done when the device is gone, with its disk still open.
WaitDeletedIsEnough(c) ==
    /\ pc[c] = "waitDeleted"
    /\ inbox[c] # <<>>
    /\ Head(inbox[c]) = [kind |-> "DEVICE_DELETED", target |-> Target(c)]
    /\ End(c, "ok")

\* waitDeleted: the event for this id ends the wait, any other message is skipped.
WaitDeleted(c) ==
    /\ pc[c] = "waitDeleted"
    /\ inbox[c] # <<>>
    /\ \/ /\ Head(inbox[c]).kind = "DEVICE_DELETED"
          /\ Head(inbox[c]).target = Target(c)
          /\ Send(c, "blockdev-del", "blockdev-del", Tail(inbox[c]))
       \/ /\ Head(inbox[c]).kind # "DEVICE_DELETED" \/ Head(inbox[c]).target # Target(c)
          /\ inbox' = [inbox EXCEPT ![c] = Tail(@)]
          /\ UNCHANGED <<args, pc, deleted, qemuVars, history>>

\* Mutants: the deadline is taken for the event; there is no deadline.
WaitTimeoutIsSuccess(c) == pc[c] = "waitDeleted" /\ End(c, "ok")
WaitForever(c) == pc[c] = "waitDeleted" /\ FALSE

\* waitDeleted: the read deadline passes.  The device may still go later.
WaitTimeout(c) ==
    /\ pc[c] = "waitDeleted"
    /\ End(c, "failed")

\* detach, after blockdev-del.
Closed(c) ==
    /\ pc[c] = "blockdev-del"
    /\ \/ Replied(c, "return") /\ End(c, "ok")
       \/ Replied(c, "error") /\ End(c, "failed")

\* A read or a write fails because QEMU has gone; what it sent before is read first.
ReadError(c) ==
    /\ pc[c] \in Waiting
    /\ ~ vm
    /\ inbox[c] = <<>>
    /\ End(c, "failed")

\* The command is interrupted (^C, its caller dies) at any point.
Kill(c) ==
    /\ pc[c] \in Waiting
    /\ End(c, "killed")

ClientStep(c) ==
    \/ Dial(c) \/ ReadGreeting(c) \/ KeepEvent(c) \/ Negotiated(c)
    \/ Opened(c) \/ Plugged(c) \/ RolledBack(c)
    \/ Unplugged(c) \/ WaitDeleted(c) \/ Closed(c) \/ ReadError(c)

-----------------------------------------------------------------------------
(* QEMU, as the commands use it (external).                                 *)

\* A monitor serves one client at a time; the next waits in the listen backlog.
Accept(c) ==
    /\ vm
    /\ pc[c] = "greeting"
    /\ conn[c] = "queued"
    /\ \A d \in Clients : conn[d] \in {"accepted", "ready"} => args[d].monitor # args[c].monitor
    /\ conn' = [conn EXCEPT ![c] = "accepted"]
    /\ inbox' = [inbox EXCEPT ![c] = <<[kind |-> "greeting", target |-> Target(c)]>>]
    /\ UNCHANGED <<args, pc, deleted, request, node, device, leaving, vm, history>>

\* The connection of an ended client: its unread request, if any, is discarded.
Hangup(c) ==
    /\ vm
    /\ pc[c] \in Ended
    /\ conn[c] # "none"
    /\ conn' = [conn EXCEPT ![c] = "none"]
    /\ request' = [request EXCEPT ![c] = "none"]
    /\ UNCHANGED <<clientVars, node, device, leaving, vm, history>>

\* QEMU has executed c's command; the reply reaches c if c is still there.
Reply(c, kind) ==
    /\ request' = [request EXCEPT ![c] = "none"]
    /\ inbox' = [inbox EXCEPT ![c] =
                   IF pc[c] \in Ended THEN @ ELSE Append(@, [kind |-> kind, target |-> Target(c)])]
    /\ UNCHANGED <<args, pc, deleted, vm>>

\* Events reach a client only once it has left capabilities negotiation.
Capabilities(c) ==
    /\ vm
    /\ request[c] = "qmp_capabilities"
    /\ \/ conn' = [conn EXCEPT ![c] = "ready"] /\ Reply(c, "return")
       \/ UNCHANGED conn /\ Reply(c, "error")
    /\ UNCHANGED <<node, device, leaving, history>>

\* A node name is taken once; the image may also fail to open.
BlockdevAdd(c) ==
    /\ vm
    /\ request[c] = "blockdev-add"
    /\ \/ /\ node[Target(c)] = Nobody
          /\ node' = [node EXCEPT ![Target(c)] = c]
          /\ Reply(c, "return")
       \/ Reply(c, "error") /\ UNCHANGED node
    /\ UNCHANGED <<conn, device, leaving, history>>

\* device_add needs the controller, a free id and an open node; it may also refuse.
DeviceAdd(c) ==
    /\ vm
    /\ request[c] = "device_add"
    /\ \/ /\ HasController
          /\ device[Target(c)] = Nobody
          /\ node[Target(c)] # Nobody
          /\ device' = [device EXCEPT ![Target(c)] = c]
          /\ plugged' = plugged \cup {c}
          /\ Reply(c, "return")
       \/ Reply(c, "error") /\ UNCHANGED <<device, plugged>>
    /\ UNCHANGED <<conn, node, leaving, victim>>

\* device_del starts the removal of a device that is there and is not on its way out.
DeviceDel(c) ==
    /\ vm
    /\ request[c] = "device_del"
    /\ \/ /\ device[Target(c)] # Nobody
          /\ Target(c) \notin leaving
          /\ leaving' = leaving \cup {Target(c)}
          /\ victim' = [victim EXCEPT ![c] = device[Target(c)]]
          /\ Reply(c, "return")
       \/ /\ device[Target(c)] = Nobody \/ Target(c) \in leaving
          /\ Reply(c, "error")
          /\ UNCHANGED <<leaving, victim>>
    /\ UNCHANGED <<conn, node, device, plugged>>

\* blockdev-del refuses a node that is not there or that a device is using.
BlockdevDel(c) ==
    /\ vm
    /\ request[c] = "blockdev-del"
    /\ \/ /\ node[Target(c)] # Nobody
          /\ device[Target(c)] = Nobody
          /\ node' = [node EXCEPT ![Target(c)] = Nobody]
          /\ Reply(c, "return")
       \/ /\ node[Target(c)] = Nobody \/ device[Target(c)] # Nobody
          /\ Reply(c, "error")
          /\ UNCHANGED node
    /\ UNCHANGED <<conn, device, leaving, history>>

\* The device is gone, and every monitor in command mode is told.
DeviceGone(t) ==
    /\ vm
    /\ t \in leaving
    /\ device' = [device EXCEPT ![t] = Nobody]
    /\ leaving' = leaving \ {t}
    /\ inbox' = [c \in Clients |->
                   IF conn[c] = "ready" /\ pc[c] \notin Ended
                   THEN Append(inbox[c], [kind |-> "DEVICE_DELETED", target |-> t])
                   ELSE inbox[c]]
    /\ UNCHANGED <<args, pc, deleted, conn, request, node, vm, history>>

\* QEMU exits, and everything it held goes with it.
Exit ==
    /\ vm
    /\ vm' = FALSE
    /\ node' = [t \in Asked |-> Nobody]
    /\ device' = [t \in Asked |-> Nobody]
    /\ leaving' = {}
    /\ conn' = [c \in Clients |-> "none"]
    /\ request' = [c \in Clients |-> "none"]
    /\ UNCHANGED <<clientVars, history>>

Execute(c) == Capabilities(c) \/ BlockdevAdd(c) \/ DeviceAdd(c) \/ DeviceDel(c) \/ BlockdevDel(c)

\* All invocations have ended: nothing more is asked of the system.
Terminating == (\A c \in Clients : pc[c] \in Ended) /\ UNCHANGED vars

Next ==
    \/ \E c \in Clients : \/ ClientStep(c) \/ HandshakeTimeout(c) \/ WaitTimeout(c) \/ Kill(c)
                          \/ Accept(c) \/ Hangup(c) \/ Execute(c)
    \/ \E t \in Asked : DeviceGone(t)
    \/ Exit
    \/ Terminating

\* The client's process is scheduled, its two deadlines pass, and QEMU's main loop
\* executes what it has been sent.  Nothing makes a device go or a client die.
Fairness == \A c \in Clients :
    /\ WF_vars(ClientStep(c))
    /\ WF_vars(HandshakeTimeout(c))
    /\ WF_vars(WaitTimeout(c))
    /\ WF_vars(Execute(c))

Spec == Init /\ [][Next]_vars
FairSpec == Spec /\ Fairness

-----------------------------------------------------------------------------
(* Properties.                                                              *)

\* A device always reads and writes the disk its own attach opened: never the image
\* another invocation put under the same node name.
DeviceOverOwnDisk == \A t \in Asked : device[t] # Nobody => node[t] = device[t]

\* c may close the disk of `owner`: its own, that it never plugged, or the one of the
\* device it was told is gone.
MayClose(c, owner) ==
    IF Op(c) = "attach" THEN owner = c /\ c \notin plugged
                        ELSE owner = victim[c]

\* The rollback of attach and the blockdev-del of detach name only `hd<t>-drive`.  While
\* QEMU runs, what they close is nevertheless the disk that command is about: an
\* attach's own, or that of the device this detach removed.
ClosesOnlyItsOwn ==
    [][\A t \in Asked : (node[t] # Nobody /\ node'[t] # node[t] /\ vm') =>
          \E c \in Clients : /\ request[c] = "blockdev-del"
                             /\ request'[c] = "none"
                             /\ Target(c) = t
                             /\ MayClose(c, node[t])]_vars

\* A detach that succeeded unplugged a device, and the disk under it is closed for good.
\* An attach that succeeded has its device over its disk unless a detach took it.
SuccessIsReal == \A c \in Clients : pc[c] = "ok" =>
    IF Op(c) = "detach"
    THEN /\ victim[c] # Nobody
         /\ \A t \in Asked : node[t] # victim[c] /\ device[t] # victim[c]
    ELSE \/ ~ vm
         \/ device[Target(c)] = c /\ node[Target(c)] = c
         \/ \E d \in Clients : victim[d] = c

\* An attach that returned an error left neither a device nor an open disk behind.
FailedAttachLeavesNothing == \A c \in Clients :
    Op(c) = "attach" /\ pc[c] = "failed" => \A t \in Asked : node[t] # c /\ device[t] # c

\* c still has to close, or to plug, what is open at its target.
Responsible(c) ==
    /\ pc[c] \in Waiting
    /\ pc[c] \notin {"greeting", "qmp_capabilities"}

\* An open disk under no device is on somebody's hands, or it was left by a command that
\* was killed, or by a detach that gave up after its device_del was accepted.
OrphanHasACause == \A t \in Asked : (node[t] # Nobody /\ device[t] = Nobody) =>
    \/ Responsible(node[t]) \/ pc[node[t]] = "killed"
    \/ \E d \in Clients : victim[d] = node[t] /\ (Responsible(d) \/ pc[d] \in {"killed", "failed"})

\* What the target looks like to the owner of the disk that is open there.
SlotStage == [t \in Asked |->
    IF node[t] = Nobody THEN "free"
    ELSE IF device[t] = Nobody THEN IF node[t] \in plugged THEN "unplugged" ELSE "opened"
    ELSE IF t \in leaving THEN "leaving" ELSE "plugged"]

Slots == INSTANCE DiskSlots WITH Owners <- Clients, Slots <- Asked,
                                 disk <- node, stage <- SlotStage, used <- plugged

\* Whatever the interleaving, timeouts and deaths of the commands, each target goes
\* through the life cycle DiskSlots specifies.
ImplementsSlots == Slots!Spec

\* Every invocation ends, whoever holds the monitor and whatever the guest does with the
\* device, as long as QEMU answers what it has accepted.
EveryCommandEnds == \A c \in Clients : pc[c] # "start" ~> pc[c] \in Ended

\* machine.go: HotplugDisks is how many disks this machine can be given at once.
AtMostHotplugDisks == Cardinality({t \in Asked : device[t] # Nobody}) <= HotplugDisks

-----------------------------------------------------------------------------
(* The inductive invariant (proved in HotplugProofs).                       *)

Answers == {"return", "error"}

Has(s, kind) == \E i \in 1 .. Len(s) : s[i].kind = kind
Answered(s) == Has(s, "return") \/ Has(s, "error")
OneAnswer(s) == \A i, j \in 1 .. Len(s) : s[i].kind \in Answers /\ s[j].kind \in Answers => i = j

\* The QMP command a client waits for at each program point.
InFlight(c) == IF pc[c] = "rollback" THEN "blockdev-del" ELSE pc[c]

\* One command at a time: a request is the one its client waits for, unanswered; only a
\* client that died, or gave up on the handshake, leaves one behind.
OneAtATime(c) ==
    /\ pc[c] \in Waiting \/ request[c] # "none" => checkTarget(Target(c))
    /\ request[c] # "none" =>
         \/ pc[c] = "killed"
         \/ pc[c] = "failed" /\ request[c] = "qmp_capabilities"
         \/ pc[c] \in Waiting /\ InFlight(c) = request[c] /\ ~ Answered(inbox[c])
    /\ OneAnswer(inbox[c])
    /\ pc[c] \in {"start", "greeting", "waitDeleted"} => ~ Answered(inbox[c]) /\ request[c] = "none"
    /\ pc[c] \in Ended => inbox[c] = <<>>
    /\ ~ vm => request[c] = "none"

\* attach and detach go through their own commands only.
OwnCommands(c) ==
    /\ request[c] \in {"blockdev-add", "device_add"} => Op(c) = "attach"
    /\ request[c] = "device_del" => Op(c) = "detach"
    /\ pc[c] \in {"blockdev-add", "device_add", "rollback"} => Op(c) = "attach"
    /\ pc[c] \in {"device_del", "waitDeleted", "blockdev-del"} => Op(c) = "detach"

\* c's disk has not been opened yet.
Fresh(c) == pc[c] \in {"start", "greeting", "qmp_capabilities"} \/ request[c] \in {"qmp_capabilities", "blockdev-add"}

\* c, an attach, has its disk open and has not plugged it: to plug or to close it.
Holding(c) ==
    \/ pc[c] = "blockdev-add" /\ Has(inbox[c], "return")
    \/ request[c] = "device_add"
    \/ pc[c] = "device_add" /\ Has(inbox[c], "error")
    \/ request[c] = "blockdev-del" /\ Op(c) = "attach"

\* c, an attach, has failed and has nothing open.
Undone(c) ==
    \/ pc[c] = "failed"
    \/ pc[c] = "rollback" /\ Answered(inbox[c])
    \/ pc[c] = "blockdev-add" /\ Has(inbox[c], "error")

\* c, a detach, had its device_del accepted and has its disk to close.
Closing(c) ==
    \/ pc[c] = "device_del" /\ Has(inbox[c], "return")
    \/ pc[c] = "waitDeleted"
    \/ request[c] = "blockdev-del" /\ Op(c) = "detach"

AttachInv(c) ==
    /\ Fresh(c) => c \notin plugged /\ \A t \in Asked : node[t] # c
    /\ Holding(c) /\ vm => /\ c \notin plugged
                           /\ node[Target(c)] = c
                           /\ device[Target(c)] = Nobody
    /\ Op(c) = "attach" /\ Undone(c) => c \notin plugged /\ \A t \in Asked : node[t] # c
    /\ \/ pc[c] = "device_add" /\ Has(inbox[c], "return")
       \/ pc[c] = "ok" /\ Op(c) = "attach"
       => c \in plugged
    /\ c \in plugged => /\ ~ vm \/ device[Target(c)] = c \/ \E d \in Clients : victim[d] = c
                        /\ \/ pc[c] = "device_add" /\ Has(inbox[c], "return")
                           \/ pc[c] \in {"ok", "killed"}

DetachInv(c) ==
    /\ Fresh(c) \/ request[c] = "device_del" => victim[c] = Nobody
    /\ victim[c] # Nobody => victim[c] \in plugged /\ Op(c) = "detach"
    /\ \A d \in Clients : victim[c] = victim[d] => c = d \/ victim[c] = Nobody
    /\ Closing(c) => victim[c] # Nobody
    /\ Closing(c) /\ vm => /\ node[Target(c)] = victim[c]
                           /\ device[Target(c)] = Nobody \/ Target(c) \in leaving
    /\ \/ pc[c] = "blockdev-del" /\ Has(inbox[c], "return")
       \/ pc[c] = "ok" /\ Op(c) = "detach"
       => victim[c] # Nobody /\ \A t \in Asked : node[t] # victim[c]

\* What QEMU holds at a target.
SlotInv(t) ==
    /\ t \in leaving => device[t] # Nobody /\ \E d \in Clients : victim[d] = device[t]
    /\ device[t] # Nobody => node[t] = device[t] /\ device[t] \in plugged
    /\ device[t] # Nobody /\ t \notin leaving => \A d \in Clients : victim[d] # device[t]
    /\ node[t] # Nobody => /\ vm
                           /\ Op(node[t]) = "attach" /\ Target(node[t]) = t
                           /\ node[t] \in plugged \/ Holding(node[t]) \/ pc[node[t]] = "killed"

IInv ==
    /\ TypeOK
    /\ \A c \in Clients : OneAtATime(c) /\ OwnCommands(c) /\ AttachInv(c) /\ DetachInv(c)
    /\ \A t \in Asked : SlotInv(t)
=============================================================================
