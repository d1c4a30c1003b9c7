--------------------------- MODULE HotplugProofs ---------------------------
(***************************************************************************)
(* Proofs about Hotplug, for any set of invocations, monitors and targets. *)
(***************************************************************************)
EXTENDS Hotplug, TLAPS

-----------------------------------------------------------------------------
(* What is in an inbox, as messages are appended and read.                  *)

\* Reading the next message takes exactly that message away.
LEMMA ReadLemma ==
    ASSUME NEW s \in Seq(Messages), s # <<>>, NEW k
    PROVE  /\ Head(s) \in Messages
           /\ Tail(s) \in Seq(Messages)
           /\ Has(s, k) <=> Head(s).kind = k \/ Has(Tail(s), k)
  <1>1. Head(s) \in Messages /\ Tail(s) \in Seq(Messages)
    OBVIOUS
  <1>2. Len(s) \in Nat /\ Len(s) > 0 /\ Len(Tail(s)) = Len(s) - 1 /\ Head(s) = s[1]
    OBVIOUS
  <1>3. \A i \in 1 .. Len(s) - 1 : Tail(s)[i] = s[i + 1]
    BY <1>2
  <1>4. ASSUME Has(s, k), Head(s).kind # k PROVE Has(Tail(s), k)
    <2>1. PICK i \in 1 .. Len(s) : s[i].kind = k
      BY <1>4 DEF Has
    <2>2. i # 1 /\ i - 1 \in 1 .. Len(s) - 1 /\ (i - 1) + 1 = i
      BY <1>2, <1>4, <2>1
    <2>3. Tail(s)[i - 1] = s[i]
      BY <1>3, <2>2
    <2> QED BY <1>2, <2>1, <2>2, <2>3 DEF Has
  <1>5. ASSUME Has(Tail(s), k) PROVE Has(s, k)
    <2>1. PICK i \in 1 .. Len(s) - 1 : Tail(s)[i].kind = k
      BY <1>2, <1>5 DEF Has
    <2>2. i + 1 \in 1 .. Len(s) /\ s[i + 1].kind = k
      BY <1>2, <1>3, <2>1
    <2> QED BY <2>2 DEF Has
  <1>6. ASSUME Head(s).kind = k PROVE Has(s, k)
    BY <1>2, <1>6 DEF Has
  <1> QED BY <1>1, <1>4, <1>5, <1>6

\* A message joins the ones that were there.
LEMMA AppendLemma ==
    ASSUME NEW s \in Seq(Messages), NEW m \in Messages, NEW k
    PROVE  /\ Append(s, m) \in Seq(Messages)
           /\ Has(Append(s, m), k) <=> Has(s, k) \/ m.kind = k
  <1>1. /\ Append(s, m) \in Seq(Messages)
        /\ Len(s) \in Nat
        /\ Len(Append(s, m)) = Len(s) + 1
        /\ Append(s, m)[Len(s) + 1] = m
        /\ \A i \in 1 .. Len(s) : Append(s, m)[i] = s[i]
    OBVIOUS
  <1>2. \A i : i \in 1 .. Len(s) + 1 <=> i \in 1 .. Len(s) \/ i = Len(s) + 1
    BY <1>1
  <1> QED BY <1>1, <1>2 DEF Has

\* An empty inbox holds no answer.
LEMMA EmptyLemma == OneAnswer(<<>>) /\ \A k : ~ Has(<<>>, k)
  BY DEF OneAnswer, Has

\* Once the one answer has been read there is none left; an event read leaves it there.
LEMMA OneAnswerReadLemma ==
    ASSUME NEW s \in Seq(Messages), s # <<>>, OneAnswer(s)
    PROVE  /\ OneAnswer(Tail(s))
           /\ Head(s).kind \in Answers => ~ Answered(Tail(s))
  <1>1. /\ Len(s) \in Nat /\ Len(s) > 0 /\ Len(Tail(s)) = Len(s) - 1 /\ Head(s) = s[1]
        /\ \A i \in 1 .. Len(s) - 1 : Tail(s)[i] = s[i + 1]
    OBVIOUS
  <1>2. \A i \in 1 .. Len(s) - 1 : i + 1 \in 1 .. Len(s) /\ i + 1 # 1
    BY <1>1
  <1>3. OneAnswer(Tail(s))
    <2> SUFFICES ASSUME NEW i \in 1 .. Len(s) - 1, NEW j \in 1 .. Len(s) - 1,
                        Tail(s)[i].kind \in Answers, Tail(s)[j].kind \in Answers
                 PROVE  i = j
      BY <1>1 DEF OneAnswer
    <2>1. i + 1 = j + 1
      BY <1>1, <1>2 DEF OneAnswer
    <2> QED BY <2>1
  <1>4. ASSUME Head(s).kind \in Answers, Answered(Tail(s)) PROVE FALSE
    <2>1. PICK i \in 1 .. Len(s) - 1 : Tail(s)[i].kind \in Answers
      BY <1>1, <1>4 DEF Answered, Has, Answers
    <2>2. 1 \in 1 .. Len(s) /\ i + 1 \in 1 .. Len(s) /\ i + 1 # 1
      BY <1>1, <1>2
    <2>3. s[i + 1].kind \in Answers /\ s[1].kind \in Answers
      BY <1>1, <1>4, <2>1
    <2> QED BY <2>2, <2>3 DEF OneAnswer
  <1> QED BY <1>3, <1>4

\* A message is appended to an inbox with one answer at most: still one, if the message
\* is no answer or the inbox had none.
LEMMA OneAnswerAppendLemma ==
    ASSUME NEW s \in Seq(Messages), NEW m \in Messages, OneAnswer(s),
           m.kind \in Answers => ~ Answered(s)
    PROVE  OneAnswer(Append(s, m))
  <1>1. /\ Len(s) \in Nat
        /\ Len(Append(s, m)) = Len(s) + 1
        /\ Append(s, m)[Len(s) + 1] = m
        /\ \A i \in 1 .. Len(s) : Append(s, m)[i] = s[i]
    OBVIOUS
  <1>2. \A i \in 1 .. Len(s) + 1 : i \in 1 .. Len(s) \/ i = Len(s) + 1
    BY <1>1
  <1>3. m.kind \in Answers => \A i \in 1 .. Len(s) : s[i].kind \notin Answers
    BY DEF Answered, Has, Answers
  <1> QED BY <1>1, <1>2, <1>3 DEF OneAnswer

-----------------------------------------------------------------------------
(* The inductive invariant.                                                 *)

USE NobodyAssumption

\* The initial states: no command has been started and QEMU holds no hotplugged disk.
LEMMA InitLemma == Init => IInv
  <1> SUFFICES ASSUME Init PROVE IInv
    OBVIOUS
  <1>1. TypeOK
    BY StartedAssumption DEF Init, TypeOK, Args, Messages
  <1>2. ASSUME NEW c \in Clients PROVE OneAtATime(c) /\ OwnCommands(c)
    BY <1>2, EmptyLemma DEF Init, OneAtATime, OwnCommands, Answered, Ended, Waiting
  <1>3. ASSUME NEW c \in Clients PROVE AttachInv(c)
    BY <1>3, EmptyLemma DEF Init, AttachInv, Fresh, Holding, Undone
  <1>4. ASSUME NEW c \in Clients PROVE DetachInv(c)
    BY <1>4, EmptyLemma DEF Init, DetachInv, Fresh, Closing
  <1>5. ASSUME NEW t \in Asked PROVE SlotInv(t)
    BY <1>5 DEF Init, SlotInv
  <1> QED BY <1>1, <1>2, <1>3, <1>4, <1>5 DEF IInv

\* A client ends.  What it owes is checked by its caller: nothing in flight unless it was
\* killed or gave up on the handshake, nothing open after a failed attach, and a success
\* that is one.
LEMMA EndLemma ==
    ASSUME IInv, NEW c \in Clients, NEW how \in Ended, End(c, how),
           pc[c] \in {"start"} \cup Waiting,
           \/ request[c] = "none" \/ how = "killed"
           \/ how = "failed" /\ request[c] = "qmp_capabilities",
           how = "failed" /\ Op(c) = "attach" => c \notin plugged /\ \A t \in Asked : node[t] # c,
           how = "ok" /\ Op(c) = "attach" => c \in plugged,
           how = "ok" /\ Op(c) = "detach" => victim[c] # Nobody /\ \A t \in Asked : node[t] # victim[c]
    PROVE  IInv'
  <1> USE DEF End, qemuVars, history
  <1>t. TypeOK /\ pc[c] \in {"start"} \cup Waiting /\ pc'[c] = how /\ inbox'[c] = <<>>
    BY DEF IInv, TypeOK
  <1>o. \A d \in Clients : d # c => pc'[d] = pc[d] /\ inbox'[d] = inbox[d]
    BY <1>t DEF TypeOK
  <1>1. TypeOK'
    BY <1>t DEF TypeOK, Ended
  <1>2. ASSUME NEW d \in Clients PROVE OneAtATime(d)' /\ OwnCommands(d)'
    <2>0. OneAtATime(d) /\ OwnCommands(d)
      BY DEF IInv
    <2>1. CASE d = c
      BY <1>t, <2>0, <2>1, EmptyLemma DEF OneAtATime, OwnCommands, Answered, Ended, Waiting, Target, Op
    <2>2. CASE d # c
      BY <1>o, <2>0, <2>2 DEF OneAtATime, OwnCommands, InFlight, Target, Op
    <2> QED BY <2>1, <2>2
  <1>3. ASSUME NEW d \in Clients PROVE AttachInv(d)'
    <2>0. AttachInv(d) /\ OwnCommands(d)
      BY DEF IInv
    <2>1. CASE d = c
      BY <1>t, <2>0, <2>1, EmptyLemma DEF AttachInv, OwnCommands, Fresh, Holding, Undone, Answered, Ended, Waiting, Target, Op, TypeOK
    <2>2. CASE d # c
      BY <1>o, <2>0, <2>2 DEF AttachInv, Fresh, Holding, Undone, Answered, Target, Op
    <2> QED BY <2>1, <2>2
  <1>4. ASSUME NEW d \in Clients PROVE DetachInv(d)'
    <2>0. DetachInv(d)
      BY DEF IInv
    <2>1. CASE d = c
      BY <1>t, <2>0, <2>1, EmptyLemma DEF DetachInv, Fresh, Closing, Ended, Waiting, Target, Op
    <2>2. CASE d # c
      BY <1>o, <2>0, <2>2 DEF DetachInv, Fresh, Closing, Target, Op
    <2> QED BY <2>1, <2>2
  <1>5. ASSUME NEW t \in Asked PROVE SlotInv(t)'
    <2>0. SlotInv(t) /\ (node[t] # Nobody => node[t] \in Clients)
      BY <1>t DEF IInv, TypeOK
    <2>1. CASE node[t] = c
      <3>1. AttachInv(c) /\ OneAtATime(c) /\ OwnCommands(c)
        BY DEF IInv
      <3> QED BY <1>t, <2>0, <2>1, <3>1 DEF SlotInv, AttachInv, OneAtATime, OwnCommands, Holding, Ended, Waiting, Target, Op
    <2>2. CASE node[t] # c
      BY <1>o, <2>0, <2>2 DEF SlotInv, Holding, Target, Op
    <2> QED BY <2>1, <2>2
  <1> QED BY <1>1, <1>2, <1>3, <1>4, <1>5 DEF IInv

\* A client reads a message and sends its next command.  What the command needs to be
\* allowed to do is checked by the caller.
LEMMA SendLemma ==
    ASSUME IInv, NEW c \in Clients, NEW cmd \in Commands, NEW where \in Waiting,
           Send(c, cmd, where, Tail(inbox[c])),
           pc[c] \in Waiting, inbox[c] # <<>>, request[c] = "none",
           ~ Answered(Tail(inbox[c])),
           cmd = (IF where = "rollback" THEN "blockdev-del" ELSE where),
           where \in {"blockdev-add", "device_add", "rollback"} => Op(c) = "attach",
           where \in {"device_del", "blockdev-del"} => Op(c) = "detach",
           c \notin plugged,
           cmd \in {"qmp_capabilities", "blockdev-add"} => \A t \in Asked : node[t] # c,
           cmd \in {"qmp_capabilities", "blockdev-add", "device_del"} => victim[c] = Nobody,
           vm /\ where \in {"device_add", "rollback"} => node[Target(c)] = c /\ device[Target(c)] = Nobody,
           where = "blockdev-del" => victim[c] # Nobody,
           vm /\ where = "blockdev-del" => /\ node[Target(c)] = victim[c]
                                           /\ device[Target(c)] = Nobody \/ Target(c) \in leaving
    PROVE  IInv'
  <1> USE DEF Send, history
  <1>t. /\ TypeOK
        /\ pc'[c] = where /\ inbox'[c] = Tail(inbox[c]) /\ inbox'[c] \in Seq(Messages)
        /\ request'[c] = IF vm THEN cmd ELSE "none"
    BY ReadLemma DEF IInv, TypeOK
  <1>o. \A d \in Clients : d # c => pc'[d] = pc[d] /\ inbox'[d] = inbox[d] /\ request'[d] = request[d]
    BY <1>t DEF TypeOK
  <1>1. TypeOK'
    BY <1>t DEF TypeOK, Ended
  <1>2. ASSUME NEW d \in Clients PROVE OneAtATime(d)' /\ OwnCommands(d)'
    <2>0. OneAtATime(d) /\ OwnCommands(d)
      BY DEF IInv
    <2>1. CASE d = c
      <3>1. OneAnswer(inbox'[c])
        BY <1>t, <2>0, <2>1, OneAnswerReadLemma DEF OneAtATime, TypeOK
      <3>2. OneAtATime(c)'
        BY <1>t, <2>0, <2>1, <3>1 DEF OneAtATime, InFlight, Ended, Waiting, Commands, Target, checkTarget, Answered
      <3>3. OwnCommands(c)'
        BY <1>t, <2>0, <2>1 DEF OwnCommands, Op, Waiting, Commands
      <3> QED BY <2>1, <3>2, <3>3
    <2>2. CASE d # c
      BY <1>o, <2>0, <2>2 DEF OneAtATime, OwnCommands, InFlight, Target, Op
    <2> QED BY <2>1, <2>2
  <1>3. ASSUME NEW d \in Clients PROVE AttachInv(d)'
    <2>0. AttachInv(d)
      BY DEF IInv
    <2>1. CASE d = c
      BY <1>t, <2>0, <2>1 DEF AttachInv, Fresh, Holding, Undone, Answered, Waiting, Commands, Target, Op
    <2>2. CASE d # c
      BY <1>o, <2>0, <2>2 DEF AttachInv, Fresh, Holding, Undone, Answered, Target, Op
    <2> QED BY <2>1, <2>2
  <1>4. ASSUME NEW d \in Clients PROVE DetachInv(d)'
    <2>0. DetachInv(d)
      BY DEF IInv
    <2>1. CASE d = c
      <3>1. /\ where # "waitDeleted"
            /\ cmd = "blockdev-del" /\ Op(c) = "detach" => where = "blockdev-del"
        BY DEF Commands
      <3>2. Closing(c)' => where = "blockdev-del"
        BY <1>t, <3>1 DEF Closing, Answered, Op, Commands
      <3>3. Fresh(c)' \/ request'[c] = "device_del" => victim[c] = Nobody
        BY <1>t DEF Fresh, Waiting, Commands
      <3> QED BY <1>t, <2>0, <2>1, <3>2, <3>3 DEF DetachInv, Answered, Waiting, Target, Op
    <2>2. CASE d # c
      BY <1>o, <2>0, <2>2 DEF DetachInv, Fresh, Closing, Target, Op
    <2> QED BY <2>1, <2>2
  <1>5. ASSUME NEW t \in Asked PROVE SlotInv(t)'
    <2>0. SlotInv(t) /\ (node[t] # Nobody => node[t] \in Clients)
      BY <1>t DEF IInv, TypeOK
    <2>1. CASE node[t] = c
      <3>1. AttachInv(c) /\ OneAtATime(c)
        BY DEF IInv
      <3> QED BY <1>t, <2>0, <2>1, <3>1 DEF SlotInv, AttachInv, OneAtATime, Holding, Ended, Waiting, Commands, Target, Op
    <2>2. CASE node[t] # c
      BY <1>o, <2>0, <2>2 DEF SlotInv, Holding, Target, Op
    <2> QED BY <2>1, <2>2
  <1> QED BY <1>1, <1>2, <1>3, <1>4, <1>5 DEF IInv

\* A client reads a message and sends nothing: an event, or the reply to device_del with
\* its event still to come.
LEMMA SkipLemma ==
    ASSUME IInv, NEW c \in Clients, inbox[c] # <<>>, pc[c] \in Waiting,
           inbox' = [inbox EXCEPT ![c] = Tail(@)],
           deleted' \in [Clients -> SUBSET Asked],
           UNCHANGED <<args, qemuVars, history>>,
           \/ Head(inbox[c]).kind \notin Answers /\ UNCHANGED pc
           \/ /\ pc[c] = "device_del" /\ Head(inbox[c]).kind = "return"
              /\ pc' = [pc EXCEPT ![c] = "waitDeleted"]
           \/ pc[c] = "waitDeleted" /\ UNCHANGED pc
    PROVE  IInv'
  <1> USE DEF qemuVars, history
  <1>t. TypeOK /\ inbox'[c] = Tail(inbox[c]) /\ inbox'[c] \in Seq(Messages)
    BY ReadLemma DEF IInv, TypeOK
  <1>h. \A k : Has(inbox[c], k) <=> Head(inbox[c]).kind = k \/ Has(inbox'[c], k)
    BY <1>t, ReadLemma DEF TypeOK
  <1>o. \A d \in Clients : d # c => pc'[d] = pc[d] /\ inbox'[d] = inbox[d]
    BY <1>t DEF TypeOK
  <1>a. OneAtATime(c) /\ OwnCommands(c) /\ AttachInv(c) /\ DetachInv(c)
    BY DEF IInv
  <1>b. OneAnswer(inbox'[c]) /\ (Head(inbox[c]).kind = "return" => ~ Answered(inbox'[c]))
    BY <1>t, <1>a, OneAnswerReadLemma DEF OneAtATime, TypeOK, Answers
  <1>1. TypeOK'
    BY <1>t DEF TypeOK, Waiting
  <1>2. ASSUME NEW d \in Clients PROVE OneAtATime(d)' /\ OwnCommands(d)'
    <2>1. CASE d = c
      BY <1>t, <1>h, <1>a, <1>b, <2>1
         DEF OneAtATime, OwnCommands, InFlight, Answered, Answers, Ended, Waiting, Target, Op, TypeOK
    <2>2. CASE d # c
      BY <1>o, <2>2 DEF IInv, OneAtATime, OwnCommands, InFlight, Target, Op
    <2> QED BY <2>1, <2>2
  <1>3. ASSUME NEW d \in Clients PROVE AttachInv(d)'
    <2>1. CASE d = c
      BY <1>t, <1>h, <1>a, <2>1
         DEF AttachInv, OneAtATime, Fresh, Holding, Undone, Answered, Answers, Target, Op, TypeOK
    <2>2. CASE d # c
      BY <1>o, <2>2 DEF IInv, AttachInv, Fresh, Holding, Undone, Answered, Target, Op
    <2> QED BY <2>1, <2>2
  <1>4. ASSUME NEW d \in Clients PROVE DetachInv(d)'
    <2>1. CASE d = c
      BY <1>t, <1>h, <1>a, <2>1 DEF DetachInv, OneAtATime, Fresh, Closing, Answers, Target, Op, TypeOK
    <2>2. CASE d # c
      BY <1>o, <2>2 DEF IInv, DetachInv, Fresh, Closing, Target, Op
    <2> QED BY <2>1, <2>2
  <1>5. ASSUME NEW t \in Asked PROVE SlotInv(t)'
    <2>0. SlotInv(t) /\ (node[t] # Nobody => node[t] \in Clients)
      BY <1>t DEF IInv, TypeOK
    <2>1. CASE node[t] = c
      BY <1>t, <1>h, <1>a, <2>0, <2>1 DEF SlotInv, OwnCommands, OneAtATime, Holding, Answers, Waiting, Target, Op, TypeOK
    <2>2. CASE node[t] # c
      BY <1>o, <2>0, <2>2 DEF SlotInv, Holding, Target, Op
    <2> QED BY <2>1, <2>2
  <1> QED BY <1>1, <1>2, <1>3, <1>4, <1>5 DEF IInv

\* The steps of attach, detach and the connection, one by one.
LEMMA ClientLemma ==
    ASSUME IInv, NEW c \in Clients,
           ClientStep(c) \/ HandshakeTimeout(c) \/ WaitTimeout(c) \/ Kill(c)
    PROVE  IInv'
  <1> DEFINE s == inbox[c]
  <1>t. TypeOK /\ s \in Seq(Messages)
    BY DEF IInv, TypeOK
  <1>a. OneAtATime(c) /\ OwnCommands(c) /\ AttachInv(c) /\ DetachInv(c)
    BY DEF IInv
  <1>s. \A t \in Asked : SlotInv(t)
    BY DEF IInv
  <1>h. s # <<>> => /\ \A k : Has(s, k) <=> Head(s).kind = k \/ Has(Tail(s), k)
                    /\ Head(s) \in Messages
                    /\ OneAnswer(Tail(s))
                    /\ Head(s).kind \in Answers => ~ Answered(Tail(s))
    BY <1>t, <1>a, ReadLemma, OneAnswerReadLemma DEF OneAtATime
  \* A reply has been read: nothing is in flight and no other reply is waiting.
  <1>r. ASSUME NEW k \in Answers, Replied(c, k), pc[c] \in Waiting
        PROVE  /\ s # <<>> /\ Has(s, k)
               /\ request[c] = "none"
               /\ ~ Answered(Tail(s))
    BY <1>a, <1>h, <1>r DEF Replied, Answers, Answered, OneAtATime, Ended, Waiting
  <1>1. CASE Dial(c)
    <2>1. CASE End(c, "failed") /\ pc[c] = "start"
      BY <1>a, <2>1, EndLemma DEF OneAtATime, AttachInv, Fresh, Ended
    <2>2. CASE ~ End(c, "failed")
      <3>0. /\ pc[c] = "start" /\ checkTarget(Target(c))
            /\ pc' = [pc EXCEPT ![c] = "greeting"]
            /\ conn' = [conn EXCEPT ![c] = "queued"]
            /\ UNCHANGED <<args, inbox, deleted, request, node, device, leaving, vm, plugged, victim>>
        BY <1>1, <2>2 DEF Dial, history
      <3>1. /\ pc'[c] = "greeting"
            /\ \A d \in Clients : d # c => pc'[d] = pc[d]
        BY <1>t, <3>0 DEF TypeOK
      <3>2. TypeOK'
        BY <1>t, <3>0 DEF TypeOK, Waiting
      <3>3. ASSUME NEW d \in Clients
            PROVE  OneAtATime(d)' /\ OwnCommands(d)' /\ AttachInv(d)' /\ DetachInv(d)'
        <4>0. OneAtATime(d) /\ OwnCommands(d) /\ AttachInv(d) /\ DetachInv(d)
          BY DEF IInv
        <4>1. OneAtATime(d)' /\ OwnCommands(d)'
          BY <3>0, <3>1, <4>0 DEF OneAtATime, OwnCommands, InFlight, Waiting, Ended, Target, Op
        <4>2. AttachInv(d)'
          BY <3>0, <3>1, <4>0 DEF AttachInv, Fresh, Holding, Undone, Target, Op
        <4>3. DetachInv(d)'
          BY <3>0, <3>1, <4>0 DEF DetachInv, Fresh, Closing, Target, Op
        <4> QED BY <4>1, <4>2, <4>3
      <3>4. ASSUME NEW t \in Asked PROVE SlotInv(t)'
        BY <1>t, <1>s, <3>0, <3>1 DEF SlotInv, Holding, Target, Op, TypeOK
      <3> QED BY <3>2, <3>3, <3>4 DEF IInv
    <2> QED BY <1>1, <2>1, <2>2 DEF Dial
  <1>2. CASE ReadGreeting(c)
    <2>1. /\ pc[c] = "greeting" /\ pc[c] \in Waiting /\ s # <<>>
          /\ Send(c, "qmp_capabilities", "qmp_capabilities", Tail(s))
      BY <1>2 DEF ReadGreeting, Waiting
    <2>2. request[c] = "none" /\ ~ Answered(Tail(s))
      BY <1>a, <1>h, <2>1 DEF OneAtATime, Answered
    <2>3. c \notin plugged /\ (\A t \in Asked : node[t] # c) /\ victim[c] = Nobody
      BY <1>a, <2>1 DEF AttachInv, DetachInv, Fresh
    <2> QED BY <2>1, <2>2, <2>3, SendLemma DEF Commands, Waiting
  <1>3. CASE KeepEvent(c)
    <2>1. deleted' \in [Clients -> SUBSET Asked]
      BY <1>3, <1>t, <1>h DEF KeepEvent, TypeOK, Messages
    <2> QED BY <1>3, <2>1, SkipLemma DEF KeepEvent, InRun, Answers
  <1>4. CASE Negotiated(c)
    <2>0. pc[c] = "qmp_capabilities" /\ pc[c] \in Waiting
      BY <1>4 DEF Negotiated, Waiting
    <2>1. c \notin plugged /\ (\A t \in Asked : node[t] # c) /\ victim[c] = Nobody
      BY <1>a, <2>0 DEF AttachInv, DetachInv, Fresh
    <2>2. CASE Replied(c, "error") /\ End(c, "failed")
      BY <1>r, <2>0, <2>1, <2>2, EndLemma DEF Answers, Ended
    <2>3. CASE Replied(c, "return") /\ Op(c) = "attach" /\ Send(c, "blockdev-add", "blockdev-add", Tail(s))
      BY <1>r, <2>0, <2>1, <2>3, SendLemma DEF Answers, Commands, Waiting
    <2>4. CASE Replied(c, "return") /\ Op(c) # "attach" /\ Send(c, "device_del", "device_del", Tail(s))
      <3>1. Op(c) = "detach"
        BY <1>t, <2>4 DEF TypeOK, Args, Op
      <3> QED BY <1>r, <2>0, <2>1, <2>4, <3>1, SendLemma DEF Answers, Commands, Waiting
    <2> QED BY <1>4, <2>2, <2>3, <2>4 DEF Negotiated
  <1>5. CASE Opened(c)
    <2>0. pc[c] = "blockdev-add" /\ pc[c] \in Waiting /\ Op(c) = "attach"
      BY <1>5, <1>a DEF Opened, Waiting, OwnCommands
    <2>1. CASE Replied(c, "error") /\ End(c, "failed")
      <3>1. Has(s, "error") /\ request[c] = "none"
        BY <1>r, <2>0, <2>1 DEF Answers
      <3>2. c \notin plugged /\ \A t \in Asked : node[t] # c
        BY <1>a, <2>0, <3>1 DEF AttachInv, Undone
      <3> QED BY <2>0, <2>1, <3>1, <3>2, EndLemma DEF Ended
    <2>2. CASE Replied(c, "return") /\ Send(c, "device_add", "device_add", Tail(s))
      <3>1. s # <<>> /\ Has(s, "return") /\ request[c] = "none" /\ ~ Answered(Tail(s))
        BY <1>r, <2>0, <2>2 DEF Answers
      <3>2. /\ c \notin plugged
            /\ vm => node[Target(c)] = c /\ device[Target(c)] = Nobody
        BY <1>a, <2>0, <3>1 DEF AttachInv, Holding
      <3> QED BY <2>0, <2>2, <3>1, <3>2, SendLemma DEF Commands, Waiting
    <2> QED BY <1>5, <2>1, <2>2 DEF Opened
  <1>6. CASE Plugged(c)
    <2>0. pc[c] = "device_add" /\ pc[c] \in Waiting /\ Op(c) = "attach"
      BY <1>6, <1>a DEF Plugged, Waiting, OwnCommands
    <2>1. CASE Replied(c, "return") /\ End(c, "ok")
      <3>1. Has(s, "return") /\ request[c] = "none"
        BY <1>r, <2>0, <2>1 DEF Answers
      <3>2. c \in plugged
        BY <1>a, <2>0, <3>1 DEF AttachInv
      <3> QED BY <2>0, <2>1, <3>1, <3>2, EndLemma DEF Ended
    <2>2. CASE Replied(c, "error") /\ Send(c, "blockdev-del", "rollback", Tail(s))
      <3>1. s # <<>> /\ Has(s, "error") /\ request[c] = "none" /\ ~ Answered(Tail(s))
        BY <1>r, <2>0, <2>2 DEF Answers
      <3>2. vm => node[Target(c)] = c /\ device[Target(c)] = Nobody
        BY <1>a, <2>0, <3>1 DEF AttachInv, Holding
      <3>3. ~ Has(s, "return")
        BY <1>h, <2>2, <3>1 DEF Replied, Answered, Answers
      <3>4. c \notin plugged
        BY <1>a, <2>0, <3>3 DEF AttachInv
      <3> QED BY <2>0, <2>2, <3>1, <3>2, <3>4, SendLemma DEF Commands, Waiting
    <2> QED BY <1>6, <2>1, <2>2 DEF Plugged
  <1>7. CASE RolledBack(c)
    <2>0. pc[c] = "rollback" /\ pc[c] \in Waiting /\ Op(c) = "attach" /\ End(c, "failed")
      BY <1>7, <1>a DEF RolledBack, Waiting, OwnCommands
    <2>1. Answered(s) /\ request[c] = "none"
      BY <1>7, <1>r, <2>0 DEF RolledBack, Answers, Answered
    <2>2. c \notin plugged /\ \A t \in Asked : node[t] # c
      BY <1>a, <2>0, <2>1 DEF AttachInv, Undone
    <2> QED BY <2>0, <2>1, <2>2, EndLemma DEF Ended
  <1>8. CASE Unplugged(c)
    <2>0. pc[c] = "device_del" /\ pc[c] \in Waiting /\ Op(c) = "detach"
      BY <1>8, <1>a DEF Unplugged, Waiting, OwnCommands
    <2>1. CASE Replied(c, "error") /\ End(c, "failed")
      BY <1>r, <2>0, <2>1, EndLemma DEF Answers, Ended
    <2>2. CASE Replied(c, "return") /\ Send(c, "blockdev-del", "blockdev-del", Tail(s))
      <3>1. s # <<>> /\ Has(s, "return") /\ request[c] = "none" /\ ~ Answered(Tail(s))
        BY <1>r, <2>0, <2>2 DEF Answers
      <3>2. /\ victim[c] # Nobody
            /\ vm => /\ node[Target(c)] = victim[c]
                     /\ device[Target(c)] = Nobody \/ Target(c) \in leaving
        BY <1>a, <2>0, <3>1 DEF DetachInv, Closing
      <3>3. c \notin plugged
        BY <1>a, <2>0 DEF AttachInv
      <3> QED BY <2>0, <2>2, <3>1, <3>2, <3>3, SendLemma DEF Commands, Waiting
    <2>3. CASE /\ Replied(c, "return")
               /\ pc' = [pc EXCEPT ![c] = "waitDeleted"]
               /\ inbox' = [inbox EXCEPT ![c] = Tail(@)]
               /\ UNCHANGED <<args, deleted, qemuVars, history>>
      <3>1. deleted' \in [Clients -> SUBSET Asked]
        BY <1>t, <2>3 DEF TypeOK
      <3> QED BY <2>0, <2>3, <3>1, SkipLemma DEF Replied
    <2> QED BY <1>8, <2>1, <2>2, <2>3 DEF Unplugged
  <1>9. CASE WaitDeleted(c)
    <2>0. pc[c] = "waitDeleted" /\ pc[c] \in Waiting /\ Op(c) = "detach" /\ s # <<>>
      BY <1>9, <1>a DEF WaitDeleted, Waiting, OwnCommands
    <2>1. CASE Send(c, "blockdev-del", "blockdev-del", Tail(s))
      <3>1. request[c] = "none" /\ ~ Answered(Tail(s))
        BY <1>a, <1>h, <2>0 DEF OneAtATime, Answered
      <3>2. /\ victim[c] # Nobody
            /\ vm => /\ node[Target(c)] = victim[c]
                     /\ device[Target(c)] = Nobody \/ Target(c) \in leaving
        BY <1>a, <2>0 DEF DetachInv, Closing
      <3>3. c \notin plugged
        BY <1>a, <2>0 DEF AttachInv
      <3> QED BY <2>0, <2>1, <3>1, <3>2, <3>3, SendLemma DEF Commands, Waiting
    <2>2. CASE /\ inbox' = [inbox EXCEPT ![c] = Tail(@)]
               /\ UNCHANGED <<args, pc, deleted, qemuVars, history>>
      <3>1. deleted' \in [Clients -> SUBSET Asked]
        BY <1>t, <2>2 DEF TypeOK
      <3> QED BY <2>0, <2>2, <3>1, SkipLemma
    <2> QED BY <1>9, <2>1, <2>2 DEF WaitDeleted
  <1>10. CASE Closed(c)
    <2>0. pc[c] = "blockdev-del" /\ pc[c] \in Waiting /\ Op(c) = "detach"
      BY <1>10, <1>a DEF Closed, Waiting, OwnCommands
    <2>1. CASE Replied(c, "return") /\ End(c, "ok")
      <3>1. Has(s, "return") /\ request[c] = "none"
        BY <1>r, <2>0, <2>1 DEF Answers
      <3>2. victim[c] # Nobody /\ \A t \in Asked : node[t] # victim[c]
        BY <1>a, <2>0, <3>1 DEF DetachInv
      <3> QED BY <2>0, <2>1, <3>1, <3>2, EndLemma DEF Ended
    <2>2. CASE Replied(c, "error") /\ End(c, "failed")
      BY <1>r, <2>0, <2>2, EndLemma DEF Answers, Ended
    <2> QED BY <1>10, <2>1, <2>2 DEF Closed
  <1>11. CASE ReadError(c)
    <2>0. pc[c] \in Waiting /\ ~ vm /\ s = <<>> /\ End(c, "failed")
      BY <1>11 DEF ReadError
    <2>1. request[c] = "none"
      BY <1>a, <2>0 DEF OneAtATime
    <2>2. \A t \in Asked : node[t] = Nobody
      BY <1>s, <2>0 DEF SlotInv
    <2>3. c \notin plugged
      BY <1>a, <2>0, EmptyLemma DEF AttachInv, Waiting
    <2> QED BY <2>0, <2>1, <2>2, <2>3, EndLemma DEF Ended
  <1>12. CASE HandshakeTimeout(c)
    <2>0. pc[c] \in {"greeting", "qmp_capabilities"} /\ pc[c] \in Waiting /\ End(c, "failed")
      BY <1>12 DEF HandshakeTimeout, Waiting
    <2>1. request[c] \in {"none", "qmp_capabilities"}
      BY <1>a, <2>0 DEF OneAtATime, InFlight
    <2>2. c \notin plugged /\ \A t \in Asked : node[t] # c
      BY <1>a, <2>0 DEF AttachInv, Fresh
    <2> QED BY <2>0, <2>1, <2>2, EndLemma DEF Ended
  <1>13. CASE WaitTimeout(c)
    <2>0. pc[c] = "waitDeleted" /\ pc[c] \in Waiting /\ Op(c) = "detach" /\ End(c, "failed")
      BY <1>13, <1>a DEF WaitTimeout, Waiting, OwnCommands
    <2>1. request[c] = "none"
      BY <1>a, <2>0 DEF OneAtATime
    <2> QED BY <2>0, <2>1, EndLemma DEF Ended
  <1>14. CASE Kill(c)
    BY <1>14, EndLemma DEF Kill, Ended
  <1> QED
    BY <1>1, <1>2, <1>3, <1>4, <1>5, <1>6, <1>7, <1>8, <1>9, <1>10, <1>11, <1>12, <1>13, <1>14
       DEF ClientStep

\* QEMU answers c's command: a live client has exactly that answer to read, a dead one
\* nothing, and nobody else's connection changes.
LEMMA ReplyLemma ==
    ASSUME IInv, NEW c \in Clients, NEW k \in Answers, request[c] # "none", Reply(c, k)
    PROVE  /\ pc[c] \in Waiting \cup Ended
           /\ inbox' \in [Clients -> Seq(Messages)]
           /\ request' \in [Clients -> Commands \cup {"none"}]
           /\ UNCHANGED <<args, pc, deleted, vm>>
           /\ request'[c] = "none"
           /\ \A d \in Clients : d # c => inbox'[d] = inbox[d] /\ request'[d] = request[d]
           /\ \A d \in Clients : OneAtATime(d)' /\ OwnCommands(d)'
           /\ pc[c] \in Ended => \A a \in Answers : ~ Has(inbox'[c], a)
           /\ pc[c] \notin Ended => /\ ~ Answered(inbox[c])
                                    /\ InFlight(c) = request[c]
                                    /\ \A a \in Answers : Has(inbox'[c], a) <=> a = k
  <1> DEFINE m == [kind |-> k, target |-> Target(c)]
  <1>t. TypeOK /\ inbox[c] \in Seq(Messages) /\ m \in Messages
    BY DEF IInv, TypeOK, Messages, Answers, Args, Target
  <1>a. OneAtATime(c) /\ OwnCommands(c) /\ checkTarget(Target(c))
    BY DEF IInv, OneAtATime
  <1>1. /\ UNCHANGED <<args, pc, deleted, vm>>
        /\ request'[c] = "none"
        /\ request' \in [Clients -> Commands \cup {"none"}]
        /\ inbox'[c] = IF pc[c] \in Ended THEN inbox[c] ELSE Append(inbox[c], m)
        /\ \A d \in Clients : d # c => inbox'[d] = inbox[d] /\ request'[d] = request[d]
    BY <1>t DEF Reply, TypeOK
  <1>2. inbox' \in [Clients -> Seq(Messages)]
    BY <1>t, AppendLemma DEF Reply, TypeOK
  <1>3. pc[c] \in Waiting \cup Ended
    BY <1>a DEF OneAtATime, Ended
  <1>4. CASE pc[c] \in Ended
    <2>1. inbox'[c] = <<>>
      BY <1>a, <1>1, <1>4 DEF OneAtATime
    <2>2. OneAtATime(c)' /\ OwnCommands(c)'
      BY <1>1, <1>4, <1>a, <2>1, EmptyLemma
         DEF OneAtATime, OwnCommands, Ended, Waiting, Target, Op, checkTarget
    <2>3. \A d \in Clients : OneAtATime(d)' /\ OwnCommands(d)'
      BY <1>1, <2>2 DEF IInv, OneAtATime, OwnCommands, InFlight, Target, Op
    <2> QED BY <1>1, <1>2, <1>3, <1>4, <2>1, <2>3, EmptyLemma
  <1>5. CASE pc[c] \notin Ended
    <2>1. inbox'[c] = Append(inbox[c], m)
      BY <1>1, <1>5
    <2>2. ~ Answered(inbox[c]) /\ InFlight(c) = request[c] /\ OneAnswer(inbox[c])
      BY <1>a, <1>5 DEF OneAtATime, Ended
    <2>3. \A a \in Answers : Has(inbox'[c], a) <=> a = k
      BY <1>t, <2>1, <2>2, AppendLemma DEF Answered, Answers
    <2>4. OneAnswer(inbox'[c])
      BY <1>t, <2>1, <2>2, OneAnswerAppendLemma
    <2>5. pc[c] \notin {"start", "greeting", "waitDeleted"}
      BY <1>a DEF OneAtATime
    <2>6. OneAtATime(c)' /\ OwnCommands(c)'
      BY <1>1, <1>5, <1>a, <2>4, <2>5
         DEF OneAtATime, OwnCommands, Ended, Waiting, Target, Op, checkTarget
    <2>7. \A d \in Clients : OneAtATime(d)' /\ OwnCommands(d)'
      BY <1>1, <2>6 DEF IInv, OneAtATime, OwnCommands, InFlight, Target, Op
    <2> QED BY <1>1, <1>2, <1>3, <1>5, <2>2, <2>3, <2>7
  <1> QED BY <1>4, <1>5

\* qmp_capabilities and blockdev-add.
LEMMA OpenLemma ==
    ASSUME IInv, NEW c \in Clients, Capabilities(c) \/ BlockdevAdd(c)
    PROVE  IInv'
  <1>t. TypeOK /\ Target(c) \in Asked /\ \A d \in Clients : args[d].target \in Asked
    BY DEF IInv, TypeOK, Args, Target
  <1>a. OneAtATime(c) /\ OwnCommands(c) /\ AttachInv(c) /\ DetachInv(c) /\ SlotInv(Target(c))
    BY <1>t DEF IInv
  <1>1. PICK k \in Answers :
          /\ Reply(c, k)
          /\ request[c] \in {"qmp_capabilities", "blockdev-add"}
          /\ request[c] = "qmp_capabilities" => UNCHANGED node
          /\ request[c] = "blockdev-add" /\ k = "return" =>
                node[Target(c)] = Nobody /\ node' = [node EXCEPT ![Target(c)] = c]
          /\ k = "error" => UNCHANGED node
          /\ conn' \in [Clients -> {"none", "queued", "accepted", "ready"}]
          /\ UNCHANGED <<device, leaving, plugged, victim>>
          /\ vm
    BY <1>t DEF Capabilities, BlockdevAdd, Answers, TypeOK, history
  <1>r. /\ pc[c] \in Waiting \cup Ended
        /\ inbox' \in [Clients -> Seq(Messages)]
        /\ request' \in [Clients -> Commands \cup {"none"}]
        /\ UNCHANGED <<args, pc, deleted, vm>>
        /\ request'[c] = "none"
        /\ \A d \in Clients : d # c => inbox'[d] = inbox[d] /\ request'[d] = request[d]
        /\ \A d \in Clients : OneAtATime(d)' /\ OwnCommands(d)'
        /\ pc[c] \in Ended => \A a \in Answers : ~ Has(inbox'[c], a)
        /\ pc[c] \notin Ended => /\ ~ Answered(inbox[c])
                                 /\ InFlight(c) = request[c]
                                 /\ \A a \in Answers : Has(inbox'[c], a) <=> a = k
    BY <1>1, ReplyLemma
  \* The disk is opened, or no node changes.
  <1>2. /\ c \notin plugged
        /\ \A t \in Asked : node[t] # c
        /\ victim[c] = Nobody
        /\ \/ UNCHANGED node /\ (request[c] = "qmp_capabilities" \/ k = "error")
           \/ /\ request[c] = "blockdev-add" /\ k = "return" /\ Op(c) = "attach"
              /\ node[Target(c)] = Nobody
              /\ node'[Target(c)] = c
              /\ \A t \in Asked : t # Target(c) => node'[t] = node[t]
    BY <1>t, <1>a, <1>1 DEF AttachInv, DetachInv, OwnCommands, Fresh, Answers, TypeOK
  <1>3. TypeOK'
    <2>1. Target(c) \in Targets
      BY <1>a, <1>1, <1>t, AskedAssumption, LimitAssumption DEF OneAtATime, checkTarget, Targets
    <2>2. node' \in [Asked -> Clients \cup {Nobody}]
      BY <1>t, <1>1 DEF TypeOK, Answers
    <2>3. \A t \in Asked : node'[t] # Nobody \/ device'[t] # Nobody => t \in Targets
      BY <1>t, <1>1, <1>2, <2>1 DEF TypeOK
    <2> QED BY <1>t, <1>1, <1>r, <2>2, <2>3 DEF TypeOK
  <1>4. ASSUME NEW d \in Clients PROVE AttachInv(d)'
    <2>0. AttachInv(d) /\ OneAtATime(d)
      BY DEF IInv
    <2>1. CASE d = c
      BY <1>t, <1>1, <1>2, <1>r, <1>a, <2>0, <2>1
         DEF AttachInv, OneAtATime, SlotInv, Fresh, Holding, Undone, Answered, Answers, InFlight, Waiting, Ended, Target, Op
    <2>2. CASE d # c
      <3>1. /\ Fresh(d)' <=> Fresh(d)
            /\ Holding(d)' <=> Holding(d)
            /\ Undone(d)' <=> Undone(d)
        BY <1>r, <2>2 DEF Fresh, Holding, Undone, Answered, Op
      <3>2. \A t \in Asked : node[t] # d => node'[t] # d
        BY <1>2, <2>2
      <3>3. \A t \in Asked : node[t] = d => node'[t] = d
        BY <1>2
      <3> QED BY <1>t, <1>1, <1>r, <2>0, <2>2, <3>1, <3>2, <3>3 DEF AttachInv, Target, Op
    <2> QED BY <2>1, <2>2
  <1>5. ASSUME NEW d \in Clients PROVE DetachInv(d)'
    <2>0. DetachInv(d)
      BY DEF IInv
    <2>1. CASE d = c
      BY <1>1, <1>2, <1>r, <1>a, <2>0, <2>1
         DEF DetachInv, OneAtATime, Fresh, Closing, Answers, InFlight, Waiting, Ended, Target, Op
    <2>2. CASE d # c
      BY <1>t, <1>1, <1>2, <1>r, <2>0, <2>2 DEF DetachInv, Fresh, Closing, Target, Op
    <2> QED BY <2>1, <2>2
  <1>6. ASSUME NEW t \in Asked PROVE SlotInv(t)'
    <2>0. SlotInv(t) /\ (node[t] # Nobody => node[t] \in Clients)
      BY <1>t DEF IInv, TypeOK
    <2>1. CASE node'[t] = c
      BY <1>t, <1>1, <1>2, <1>r, <1>a, <2>0, <2>1
         DEF SlotInv, OneAtATime, Holding, Answers, InFlight, Waiting, Ended, Target, Op
    <2>2. CASE node'[t] # c
      BY <1>t, <1>1, <1>2, <1>r, <2>0, <2>2 DEF SlotInv, Holding, Target, Op
    <2> QED BY <2>1, <2>2
  <1> QED BY <1>3, <1>4, <1>5, <1>6, <1>r DEF IInv

\* device_add: the device goes over the node that carries its name, which is c's own.
LEMMA PlugLemma ==
    ASSUME IInv, NEW c \in Clients, DeviceAdd(c)
    PROVE  IInv'
  <1>t. TypeOK /\ Target(c) \in Asked /\ \A d \in Clients : args[d].target \in Asked
    BY DEF IInv, TypeOK, Args, Target
  <1>a. OneAtATime(c) /\ OwnCommands(c) /\ AttachInv(c) /\ DetachInv(c) /\ SlotInv(Target(c))
    BY <1>t DEF IInv
  <1>1. PICK k \in Answers :
          /\ Reply(c, k)
          /\ request[c] = "device_add"
          /\ k = "return" => /\ device' = [device EXCEPT ![Target(c)] = c]
                             /\ plugged' = plugged \cup {c}
          /\ k = "error" => UNCHANGED <<device, plugged>>
          /\ UNCHANGED <<conn, node, leaving, victim>>
          /\ vm
    BY DEF DeviceAdd, Answers
  <1>r. /\ pc[c] \in Waiting \cup Ended
        /\ inbox' \in [Clients -> Seq(Messages)]
        /\ request' \in [Clients -> Commands \cup {"none"}]
        /\ UNCHANGED <<args, pc, deleted, vm>>
        /\ request'[c] = "none"
        /\ \A d \in Clients : d # c => inbox'[d] = inbox[d] /\ request'[d] = request[d]
        /\ \A d \in Clients : OneAtATime(d)' /\ OwnCommands(d)'
        /\ pc[c] \in Ended => \A a \in Answers : ~ Has(inbox'[c], a)
        /\ pc[c] \notin Ended => /\ ~ Answered(inbox[c])
                                 /\ InFlight(c) = request[c]
                                 /\ \A a \in Answers : Has(inbox'[c], a) <=> a = k
    BY <1>1, ReplyLemma
  <1>d. ASSUME NEW d \in Clients, d # c
        PROVE  /\ Fresh(d)' <=> Fresh(d)
               /\ Holding(d)' <=> Holding(d)
               /\ Undone(d)' <=> Undone(d)
               /\ Closing(d)' <=> Closing(d)
    BY <1>d, <1>r DEF Fresh, Holding, Undone, Closing, Answered, Op
  <1>2. /\ c \notin plugged /\ node[Target(c)] = c /\ device[Target(c)] = Nobody /\ Op(c) = "attach"
        /\ Target(c) \notin leaving
        /\ pc[c] \in {"device_add", "killed"}
        /\ \A d \in Clients : victim[d] # c
    <2>1. \A d \in Clients : victim[d] # Nobody => victim[d] \in plugged
      BY DEF IInv, DetachInv
    <2> QED BY <1>1, <1>a, <2>1 DEF AttachInv, OwnCommands, OneAtATime, SlotInv, Holding, InFlight, Waiting
  <1>3. TypeOK'
    <2>1. Target(c) \in Targets
      BY <1>t, <1>2 DEF TypeOK
    <2>2. device' \in [Asked -> Clients \cup {Nobody}] /\ plugged' \subseteq Clients
      BY <1>t, <1>1 DEF TypeOK, Answers
    <2>3. \A t \in Asked : node'[t] # Nobody \/ device'[t] # Nobody => t \in Targets
      BY <1>t, <1>1, <2>1 DEF TypeOK, Answers
    <2> QED BY <1>t, <1>1, <1>r, <2>2, <2>3 DEF TypeOK
  <1>p. \/ k = "error" /\ UNCHANGED <<device, plugged>>
        \/ /\ k = "return"
           /\ device'[Target(c)] = c
           /\ \A t \in Asked : t # Target(c) => device'[t] = device[t]
           /\ plugged' = plugged \cup {c}
    BY <1>t, <1>1 DEF TypeOK, Answers
  <1>4. ASSUME NEW d \in Clients PROVE AttachInv(d)'
    <2>0. AttachInv(d)
      BY DEF IInv
    <2>1. CASE d = c
      BY <1>1, <1>2, <1>r, <1>p, <1>a, <2>0, <2>1
         DEF AttachInv, Fresh, Holding, Undone, Answered, Answers, Ended, Target, Op
    <2>2. CASE d # c
      <3>1. Holding(d) => Target(d) # Target(c)
        BY <1>1, <1>2, <2>0, <2>2 DEF AttachInv
      <3>2. device[Target(d)] = d => device'[Target(d)] = d
        BY <1>t, <1>2, <1>p DEF Target
      <3> QED BY <1>t, <1>1, <1>r, <1>d, <1>p, <2>0, <2>2, <3>1, <3>2 DEF AttachInv, Target, Op
    <2> QED BY <2>1, <2>2
  <1>5. ASSUME NEW d \in Clients PROVE DetachInv(d)'
    <2>0. DetachInv(d)
      BY DEF IInv
    <2>1. CASE d = c
      BY <1>1, <1>2, <1>r, <1>p, <1>a, <2>0, <2>1
         DEF DetachInv, Fresh, Closing, Answers, Ended, Target, Op
    <2>2. CASE d # c
      <3>1. Closing(d) => Target(d) # Target(c)
        BY <1>1, <1>2, <2>0 DEF DetachInv
      <3> QED BY <1>t, <1>1, <1>r, <1>d, <1>p, <2>0, <2>2, <3>1 DEF DetachInv, Target, Op
    <2> QED BY <2>1, <2>2
  <1>6. ASSUME NEW t \in Asked PROVE SlotInv(t)'
    <2>0. SlotInv(t) /\ (node[t] # Nobody => node[t] \in Clients)
      BY <1>t DEF IInv, TypeOK
    <2>1. CASE node[t] = c
      BY <1>t, <1>1, <1>2, <1>r, <1>p, <2>0, <2>1
         DEF SlotInv, Holding, Answers, Ended, Target, Op
    <2>2. CASE node[t] # c
      BY <1>t, <1>1, <1>2, <1>r, <1>d, <1>p, <2>0, <2>2 DEF SlotInv, Target, Op
    <2> QED BY <2>1, <2>2
  <1> QED BY <1>3, <1>4, <1>5, <1>6, <1>r DEF IInv

\* device_del: the device starts to leave, and c is the one detach that saw it accepted.
LEMMA UnplugLemma ==
    ASSUME IInv, NEW c \in Clients, DeviceDel(c)
    PROVE  IInv'
  <1>t. TypeOK /\ Target(c) \in Asked /\ \A d \in Clients : args[d].target \in Asked
    BY DEF IInv, TypeOK, Args, Target
  <1>a. OneAtATime(c) /\ OwnCommands(c) /\ AttachInv(c) /\ DetachInv(c) /\ SlotInv(Target(c))
    BY <1>t DEF IInv
  <1>1. PICK k \in Answers :
          /\ Reply(c, k)
          /\ request[c] = "device_del"
          /\ k = "return" => /\ device[Target(c)] # Nobody /\ Target(c) \notin leaving
                             /\ leaving' = leaving \cup {Target(c)}
                             /\ victim' = [victim EXCEPT ![c] = device[Target(c)]]
          /\ k = "error" => UNCHANGED <<leaving, victim>>
          /\ UNCHANGED <<conn, node, device, plugged>>
          /\ vm
    BY DEF DeviceDel, Answers
  <1>r. /\ pc[c] \in Waiting \cup Ended
        /\ inbox' \in [Clients -> Seq(Messages)]
        /\ request' \in [Clients -> Commands \cup {"none"}]
        /\ UNCHANGED <<args, pc, deleted, vm>>
        /\ request'[c] = "none"
        /\ \A d \in Clients : d # c => inbox'[d] = inbox[d] /\ request'[d] = request[d]
        /\ \A d \in Clients : OneAtATime(d)' /\ OwnCommands(d)'
        /\ pc[c] \in Ended => \A a \in Answers : ~ Has(inbox'[c], a)
        /\ pc[c] \notin Ended => /\ ~ Answered(inbox[c])
                                 /\ InFlight(c) = request[c]
                                 /\ \A a \in Answers : Has(inbox'[c], a) <=> a = k
    BY <1>1, ReplyLemma
  <1>d. ASSUME NEW d \in Clients, d # c
        PROVE  /\ Fresh(d)' <=> Fresh(d)
               /\ Holding(d)' <=> Holding(d)
               /\ Undone(d)' <=> Undone(d)
               /\ Closing(d)' <=> Closing(d)
    BY <1>d, <1>r DEF Fresh, Holding, Undone, Closing, Answered, Op
  <1>2. /\ Op(c) = "detach" /\ victim[c] = Nobody
        /\ pc[c] \in {"device_del", "killed"}
    BY <1>1, <1>a DEF DetachInv, OwnCommands, OneAtATime, InFlight
  <1>p. \/ k = "error" /\ UNCHANGED <<leaving, victim>>
        \/ /\ k = "return"
           /\ device[Target(c)] # Nobody /\ Target(c) \notin leaving
           /\ leaving' = leaving \cup {Target(c)}
           /\ victim'[c] = device[Target(c)]
           /\ \A d \in Clients : d # c => victim'[d] = victim[d]
           /\ node[Target(c)] = device[Target(c)]
           /\ device[Target(c)] \in plugged
           /\ \A d \in Clients : victim[d] # device[Target(c)]
    BY <1>t, <1>1, <1>a DEF TypeOK, Answers, SlotInv
  <1>3. TypeOK'
    BY <1>t, <1>1, <1>r DEF TypeOK, Answers
  <1>4. ASSUME NEW d \in Clients PROVE AttachInv(d)'
    <2>0. AttachInv(d)
      BY DEF IInv
    <2>v. (\E e \in Clients : victim[e] = d) => \E e \in Clients : victim'[e] = d
      BY <1>2, <1>p
    <2>1. CASE d = c
      BY <1>1, <1>2, <1>r, <2>0, <2>1, <2>v
         DEF AttachInv, Fresh, Holding, Undone, Answered, Answers, Ended, Target, Op
    <2>2. CASE d # c
      BY <1>1, <1>r, <1>d, <2>0, <2>2, <2>v DEF AttachInv, Target, Op
    <2> QED BY <2>1, <2>2
  <1>5. ASSUME NEW d \in Clients PROVE DetachInv(d)'
    <2>0. DetachInv(d)
      BY DEF IInv
    <2>1. CASE d = c
      BY <1>t, <1>1, <1>2, <1>r, <1>p, <2>0, <2>1
         DEF DetachInv, Fresh, Closing, Answers, Ended, Target, Op
    <2>2. CASE d # c
      BY <1>t, <1>1, <1>2, <1>r, <1>d, <1>p, <2>0, <2>2 DEF DetachInv, Target, Op
    <2> QED BY <2>1, <2>2
  <1>6. ASSUME NEW t \in Asked PROVE SlotInv(t)'
    <2>0. SlotInv(t) /\ (node[t] # Nobody => node[t] \in Clients)
      BY <1>t DEF IInv, TypeOK
    <2>1. node[t] # c
      BY <1>2, <2>0 DEF SlotInv
    <2>2. t # Target(c) => device[t] = Nobody \/ device[t] # device[Target(c)] \/ k = "error"
      BY <1>1, <1>a, <1>t, <2>0, <1>p DEF SlotInv
    <2>3. t \in leaving' => device[t] # Nobody /\ \E e \in Clients : victim'[e] = device[t]
      BY <1>2, <1>p, <2>0 DEF SlotInv
    <2>4. device[t] # Nobody /\ t \notin leaving' => \A e \in Clients : victim'[e] # device[t]
      BY <1>p, <2>0, <2>2 DEF SlotInv
    <2> QED BY <1>1, <1>r, <1>d, <2>0, <2>1, <2>3, <2>4 DEF SlotInv, Target, Op
  <1> QED BY <1>3, <1>4, <1>5, <1>6, <1>r DEF IInv

\* blockdev-del: only the command entitled to a disk ever asks for it to be closed.
LEMMA CloseLemma ==
    ASSUME IInv, NEW c \in Clients, BlockdevDel(c)
    PROVE  IInv'
  <1>t. TypeOK /\ Target(c) \in Asked /\ \A d \in Clients : args[d].target \in Asked
    BY DEF IInv, TypeOK, Args, Target
  <1>a. OneAtATime(c) /\ OwnCommands(c) /\ AttachInv(c) /\ DetachInv(c) /\ SlotInv(Target(c))
    BY <1>t DEF IInv
  <1>1. PICK k \in Answers :
          /\ Reply(c, k)
          /\ request[c] = "blockdev-del"
          /\ k = "return" => /\ node[Target(c)] # Nobody /\ device[Target(c)] = Nobody
                             /\ node' = [node EXCEPT ![Target(c)] = Nobody]
          /\ k = "error" => UNCHANGED node /\ (node[Target(c)] = Nobody \/ device[Target(c)] # Nobody)
          /\ UNCHANGED <<conn, device, leaving, plugged, victim>>
          /\ vm
    BY DEF BlockdevDel, Answers, history
  <1>r. /\ pc[c] \in Waiting \cup Ended
        /\ inbox' \in [Clients -> Seq(Messages)]
        /\ request' \in [Clients -> Commands \cup {"none"}]
        /\ UNCHANGED <<args, pc, deleted, vm>>
        /\ request'[c] = "none"
        /\ \A d \in Clients : d # c => inbox'[d] = inbox[d] /\ request'[d] = request[d]
        /\ \A d \in Clients : OneAtATime(d)' /\ OwnCommands(d)'
        /\ pc[c] \in Ended => \A a \in Answers : ~ Has(inbox'[c], a)
        /\ pc[c] \notin Ended => /\ ~ Answered(inbox[c])
                                 /\ InFlight(c) = request[c]
                                 /\ \A a \in Answers : Has(inbox'[c], a) <=> a = k
    BY <1>1, ReplyLemma
  <1>d. ASSUME NEW d \in Clients, d # c
        PROVE  /\ Fresh(d)' <=> Fresh(d)
               /\ Holding(d)' <=> Holding(d)
               /\ Undone(d)' <=> Undone(d)
               /\ Closing(d)' <=> Closing(d)
    BY <1>d, <1>r DEF Fresh, Holding, Undone, Closing, Answered, Op
  <1>p. \/ k = "error" /\ UNCHANGED node /\ (node[Target(c)] = Nobody \/ device[Target(c)] # Nobody)
        \/ /\ k = "return"
           /\ node[Target(c)] # Nobody /\ device[Target(c)] = Nobody
           /\ node'[Target(c)] = Nobody
           /\ \A t \in Asked : t # Target(c) => node'[t] = node[t]
    BY <1>t, <1>1 DEF TypeOK, Answers
  <1>2. \/ /\ Op(c) = "attach" /\ c \notin plugged
           /\ node[Target(c)] = c /\ device[Target(c)] = Nobody
           /\ k = "return"
           /\ pc[c] \in {"rollback", "killed"}
        \/ /\ Op(c) = "detach" /\ victim[c] # Nobody
           /\ victim[c] \in plugged
           /\ node[Target(c)] = victim[c]
           /\ pc[c] \in {"blockdev-del", "killed"}
    <2>1. Op(c) \in {"attach", "detach"}
      BY <1>t DEF TypeOK, Args, Op
    <2> QED BY <1>1, <1>p, <1>a, <2>1
      DEF AttachInv, DetachInv, OwnCommands, OneAtATime, InFlight, Waiting, Holding, Closing
  <1>n. \A t \in Asked : node'[t] \in {node[t], Nobody}
    BY <1>t, <1>p
  <1>v. \A d \in Clients : victim[d] # Nobody => victim[d] \in plugged
    BY DEF IInv, DetachInv
  <1>3. TypeOK'
    <2>1. node' \in [Asked -> Clients \cup {Nobody}]
      BY <1>t, <1>1 DEF TypeOK, Answers
    <2>2. \A t \in Asked : node'[t] # Nobody \/ device'[t] # Nobody => t \in Targets
      BY <1>t, <1>1, <1>n DEF TypeOK
    <2> QED BY <1>t, <1>1, <1>r, <2>1, <2>2 DEF TypeOK
  <1>4. ASSUME NEW d \in Clients PROVE AttachInv(d)'
    <2>0. AttachInv(d)
      BY DEF IInv
    <2>n. \A t \in Asked : node[t] # d => node'[t] # d
      BY <1>n
    <2>1. CASE d = c
      <3>1. Op(c) = "attach" => \A t \in Asked : node'[t] # c
        <4>1. \A t \in Asked : node[t] = c => t = Target(c)
          BY DEF IInv, SlotInv
        <4> QED BY <1>2, <1>p, <1>n, <4>1
      <3> QED BY <1>1, <1>2, <1>r, <2>0, <2>1, <2>n, <3>1
           DEF AttachInv, Fresh, Holding, Undone, Answered, Answers, Ended, Target, Op
    <2>2. CASE d # c
      <3>1. Holding(d) => Target(d) # Target(c)
        BY <1>1, <1>2, <2>0, <2>2 DEF AttachInv
      <3> QED BY <1>t, <1>1, <1>r, <1>d, <1>p, <2>0, <2>2, <2>n, <3>1 DEF AttachInv, Target, Op
    <2> QED BY <2>1, <2>2
  <1>5. ASSUME NEW d \in Clients PROVE DetachInv(d)'
    <2>0. DetachInv(d)
      BY DEF IInv
    <2>n. \A t \in Asked : victim[d] # Nobody /\ node[t] # victim[d] => node'[t] # victim[d]
      BY <1>n
    <2>1. CASE d = c
      <3>1. k = "return" /\ victim[c] # Nobody => \A t \in Asked : node'[t] # victim[c]
        <4>1. ASSUME NEW t \in Asked, node[t] = victim[c], victim[c] # Nobody, node[Target(c)] = victim[c]
              PROVE  t = Target(c)
          BY <1>t, <4>1 DEF IInv, SlotInv
        <4>2. victim[c] # Nobody => Op(c) = "detach"
          BY <1>a DEF DetachInv
        <4> QED BY <1>2, <1>p, <1>n, <4>1, <4>2
      <3> QED BY <1>1, <1>2, <1>r, <2>0, <2>1, <3>1
           DEF DetachInv, Fresh, Closing, Answers, Ended, Target, Op
    <2>2. CASE d # c
      <3>1. Closing(d) => Target(d) # Target(c)
        <4>1. Closing(d) => victim[d] # Nobody /\ node[Target(d)] = victim[d] /\ victim[d] # victim[c]
          BY <1>1, <2>0, <2>2 DEF DetachInv
        <4> QED BY <1>2, <1>v, <4>1
      <3> QED BY <1>t, <1>1, <1>r, <1>d, <1>p, <2>0, <2>2, <2>n, <3>1 DEF DetachInv, Target, Op
    <2> QED BY <2>1, <2>2
  <1>6. ASSUME NEW t \in Asked PROVE SlotInv(t)'
    <2>0. SlotInv(t) /\ (node[t] # Nobody => node[t] \in Clients)
      BY <1>t DEF IInv, TypeOK
    <2>1. CASE t = Target(c)
      BY <1>1, <1>2, <1>p, <1>r, <1>v, <1>d, <2>0, <2>1 DEF SlotInv, Target, Op
    <2>2. CASE t # Target(c)
      <3>1. node[t] # c
        BY <1>t, <2>0, <2>2 DEF SlotInv
      <3> QED BY <1>1, <1>p, <1>r, <1>d, <2>0, <2>2, <3>1 DEF SlotInv, Target, Op
    <2> QED BY <2>1, <2>2
  <1> QED BY <1>3, <1>4, <1>5, <1>6, <1>r DEF IInv

\* QEMU's own steps on a connection: accepting one and noticing that one was closed.
LEMMA ConnectionLemma ==
    ASSUME IInv, NEW c \in Clients, Accept(c) \/ Hangup(c)
    PROVE  IInv'
  <1>t. TypeOK
    BY DEF IInv
  <1>a. OneAtATime(c) /\ OwnCommands(c) /\ AttachInv(c) /\ DetachInv(c)
    BY DEF IInv
  <1>1. CASE Accept(c)
    <2> DEFINE m == [kind |-> "greeting", target |-> Target(c)]
    <2>0. /\ pc[c] = "greeting"
          /\ conn' = [conn EXCEPT ![c] = "accepted"]
          /\ inbox' = [inbox EXCEPT ![c] = <<m>>]
          /\ UNCHANGED <<args, pc, deleted, request, node, device, leaving, vm, plugged, victim>>
      BY <1>1 DEF Accept, history
    <2>1. m \in Messages /\ <<m>> = Append(<<>>, m) /\ <<>> \in Seq(Messages)
      BY <1>t DEF TypeOK, Args, Messages, Target
    <2>2. <<m>> \in Seq(Messages) /\ \A k : Has(<<m>>, k) <=> k = "greeting"
      BY <2>1, AppendLemma, EmptyLemma
    <2>3. OneAnswer(<<m>>)
      BY <2>1, OneAnswerAppendLemma, EmptyLemma DEF Answers
    <2>4. /\ inbox'[c] = <<m>>
          /\ \A d \in Clients : d # c => inbox'[d] = inbox[d]
      BY <1>t, <2>0 DEF TypeOK
    <2>5. TypeOK'
      BY <1>t, <2>0, <2>2 DEF TypeOK
    <2>6. ASSUME NEW d \in Clients
          PROVE  /\ OneAtATime(d)' /\ OwnCommands(d)' /\ AttachInv(d)' /\ DetachInv(d)'
                 /\ Holding(d)' <=> Holding(d)
      <3>0. OneAtATime(d) /\ OwnCommands(d) /\ AttachInv(d) /\ DetachInv(d)
        BY DEF IInv
      <3>1. CASE d = c
        BY <2>0, <2>2, <2>3, <2>4, <3>0, <3>1
           DEF OneAtATime, OwnCommands, AttachInv, DetachInv, Fresh, Holding, Undone, Closing,
               Answered, Waiting, Ended, InFlight, Target, Op
      <3>2. CASE d # c
        BY <2>0, <2>4, <3>0, <3>2
           DEF OneAtATime, OwnCommands, AttachInv, DetachInv, Fresh, Holding, Undone, Closing,
               Answered, InFlight, Target, Op
      <3> QED BY <3>1, <3>2
    <2>7. ASSUME NEW t \in Asked PROVE SlotInv(t)'
      <3>0. SlotInv(t) /\ (node[t] # Nobody => node[t] \in Clients)
        BY <1>t DEF IInv, TypeOK
      <3> QED BY <2>0, <2>6, <3>0 DEF SlotInv, Target, Op
    <2> QED BY <2>5, <2>6, <2>7 DEF IInv
  <1>2. CASE Hangup(c)
    <2>0. /\ pc[c] \in Ended
          /\ conn' = [conn EXCEPT ![c] = "none"]
          /\ request' = [request EXCEPT ![c] = "none"]
          /\ UNCHANGED <<args, pc, inbox, deleted, node, device, leaving, vm, plugged, victim>>
      BY <1>2 DEF Hangup, history, clientVars
    <2>1. request'[c] = "none" /\ \A d \in Clients : d # c => request'[d] = request[d]
      BY <1>t, <2>0 DEF TypeOK
    <2>2. TypeOK'
      BY <1>t, <2>0 DEF TypeOK
    <2>3. ASSUME NEW d \in Clients
          PROVE  /\ OneAtATime(d)' /\ OwnCommands(d)' /\ AttachInv(d)' /\ DetachInv(d)'
                 /\ Holding(d) => Holding(d)' \/ pc[d] = "killed"
      <3>0. OneAtATime(d) /\ OwnCommands(d) /\ AttachInv(d) /\ DetachInv(d)
        BY DEF IInv
      <3>1. CASE d = c
        <4>1. OneAtATime(d)' /\ OwnCommands(d)'
          BY <2>0, <2>1, <3>0, <3>1 DEF OneAtATime, OwnCommands, Waiting, Ended, InFlight, Target, Op
        <4>2. AttachInv(d)' /\ (Holding(d) => Holding(d)' \/ pc[d] = "killed")
          BY <2>0, <2>1, <3>0, <3>1 DEF AttachInv, OneAtATime, Fresh, Holding, Undone, Answered, Ended, Waiting, Target, Op
        <4>3. DetachInv(d)'
          BY <2>0, <2>1, <3>0, <3>1 DEF DetachInv, Fresh, Closing, Target, Op
        <4> QED BY <4>1, <4>2, <4>3
      <3>2. CASE d # c
        BY <2>0, <2>1, <3>0, <3>2
           DEF OneAtATime, OwnCommands, AttachInv, DetachInv, Fresh, Holding, Undone, Closing,
               Answered, InFlight, Target, Op
      <3> QED BY <3>1, <3>2
    <2>4. ASSUME NEW t \in Asked PROVE SlotInv(t)'
      <3>0. SlotInv(t) /\ (node[t] # Nobody => node[t] \in Clients)
        BY <1>t DEF IInv, TypeOK
      <3> QED BY <2>0, <2>3, <3>0 DEF SlotInv, Target, Op
    <2> QED BY <2>2, <2>3, <2>4 DEF IInv
  <1> QED BY <1>1, <1>2

\* The device goes and DEVICE_DELETED is broadcast: an event is no answer, so every
\* client stands where it stood.
LEMMA GoneLemma ==
    ASSUME IInv, NEW g \in Asked, DeviceGone(g)
    PROVE  IInv'
  <1> DEFINE m == [kind |-> "DEVICE_DELETED", target |-> g]
  <1>t. TypeOK /\ m \in Messages /\ \A d \in Clients : args[d].target \in Asked
    BY DEF IInv, TypeOK, Args, Messages
  <1>0. /\ vm /\ g \in leaving
        /\ device' = [device EXCEPT ![g] = Nobody]
        /\ leaving' = leaving \ {g}
        /\ \A d \in Clients : inbox'[d] = inbox[d] \/ (pc[d] \notin Ended /\ conn[d] = "ready" /\ inbox'[d] = Append(inbox[d], m))
        /\ UNCHANGED <<args, pc, deleted, conn, request, node, vm, plugged, victim>>
    BY DEF DeviceGone, history
  <1>1. \A d \in Clients : /\ inbox'[d] \in Seq(Messages)
                           /\ \A k \in Answers : Has(inbox'[d], k) <=> Has(inbox[d], k)
                           /\ OneAnswer(inbox'[d])
                           /\ pc[d] \in Ended => inbox'[d] = inbox[d]
    <2> TAKE d \in Clients
    <2>1. inbox[d] \in Seq(Messages) /\ OneAnswer(inbox[d])
      BY <1>t DEF IInv, OneAtATime, TypeOK
    <2>2. /\ Append(inbox[d], m) \in Seq(Messages)
          /\ \A k \in Answers : Has(Append(inbox[d], m), k) <=> Has(inbox[d], k)
      BY <1>t, <2>1, AppendLemma DEF Answers
    <2>3. OneAnswer(Append(inbox[d], m))
      BY <1>t, <2>1, OneAnswerAppendLemma DEF Answers
    <2> QED BY <1>0, <2>1, <2>2, <2>3
  <1>2. /\ device'[g] = Nobody
        /\ \A t \in Asked : t # g => device'[t] = device[t]
        /\ device[g] # Nobody
    BY <1>t, <1>0 DEF TypeOK, IInv, SlotInv
  <1>3. TypeOK'
    <2>1. inbox' \in [Clients -> Seq(Messages)]
      BY <1>t, <1>1 DEF TypeOK, DeviceGone
    <2> QED BY <1>t, <1>0, <2>1 DEF TypeOK
  <1>4. ASSUME NEW d \in Clients
        PROVE  /\ Fresh(d)' <=> Fresh(d)
               /\ Holding(d)' <=> Holding(d)
               /\ Undone(d)' <=> Undone(d)
               /\ Closing(d)' <=> Closing(d)
               /\ Has(inbox'[d], "return") <=> Has(inbox[d], "return")
               /\ Answered(inbox'[d]) <=> Answered(inbox[d])
    BY <1>0, <1>1 DEF Fresh, Holding, Undone, Closing, Answered, Answers, Op
  <1>5. ASSUME NEW d \in Clients PROVE OneAtATime(d)' /\ OwnCommands(d)'
    BY <1>0, <1>1, <1>4 DEF IInv, OneAtATime, OwnCommands, InFlight, Target, Op
  <1>6. ASSUME NEW d \in Clients PROVE AttachInv(d)'
    <2>0. AttachInv(d)
      BY DEF IInv
    <2>1. ASSUME d \in plugged, device[Target(d)] = d, Target(d) = g
          PROVE  \E e \in Clients : victim[e] = d
      \* A device that leaves was asked to by a detach.
      BY <1>0, <1>t, <2>1 DEF IInv, SlotInv
    <2> QED BY <1>0, <1>2, <1>4, <1>t, <2>0, <2>1 DEF AttachInv, Target, Op
  <1>7. ASSUME NEW d \in Clients PROVE DetachInv(d)'
    <2>0. DetachInv(d)
      BY DEF IInv
    <2> QED BY <1>0, <1>2, <1>4, <1>t, <2>0 DEF DetachInv, Target, Op
  <1>8. ASSUME NEW t \in Asked PROVE SlotInv(t)'
    <2>0. SlotInv(t) /\ (node[t] # Nobody => node[t] \in Clients)
      BY <1>t DEF IInv, TypeOK
    <2> QED BY <1>0, <1>2, <1>4, <2>0 DEF SlotInv, Target, Op
  <1> QED BY <1>3, <1>5, <1>6, <1>7, <1>8 DEF IInv

\* QEMU exits: nothing is open any more and nothing more is executed.
LEMMA ExitLemma ==
    ASSUME IInv, Exit
    PROVE  IInv'
  <1>t. TypeOK
    BY DEF IInv
  <1>0. /\ ~ vm' /\ leaving' = {}
        /\ \A t \in Asked : node'[t] = Nobody /\ device'[t] = Nobody
        /\ \A c \in Clients : request'[c] = "none"
        /\ UNCHANGED <<args, pc, inbox, deleted, plugged, victim>>
    BY DEF Exit, clientVars, history
  <1>1. TypeOK'
    BY <1>t DEF Exit, TypeOK, clientVars, history
  <1>2. ASSUME NEW d \in Clients
        PROVE  OneAtATime(d)' /\ OwnCommands(d)' /\ AttachInv(d)' /\ DetachInv(d)'
    <2>0. OneAtATime(d) /\ OwnCommands(d) /\ AttachInv(d) /\ DetachInv(d)
      BY DEF IInv
    <2>1. OneAtATime(d)' /\ OwnCommands(d)'
      BY <1>0, <2>0 DEF OneAtATime, OwnCommands, InFlight, Target, Op
    <2>2. AttachInv(d)'
      BY <1>0, <2>0 DEF AttachInv, Fresh, Holding, Undone, Answered, Target, Op
    <2>3. DetachInv(d)'
      BY <1>0, <2>0 DEF DetachInv, Fresh, Closing, Target, Op
    <2> QED BY <2>1, <2>2, <2>3
  <1>3. ASSUME NEW t \in Asked PROVE SlotInv(t)'
    BY <1>0 DEF SlotInv
  <1> QED BY <1>1, <1>2, <1>3 DEF IInv

-----------------------------------------------------------------------------
(* The theorems.                                                            *)

\* IInv is an invariant: one case per action.
THEOREM Inductive == Spec => []IInv
  <1>1. IInv /\ [Next]_vars => IInv'
    <2> SUFFICES ASSUME IInv, [Next]_vars PROVE IInv'
      OBVIOUS
    <2>1. ASSUME NEW c \in Clients,
                 ClientStep(c) \/ HandshakeTimeout(c) \/ WaitTimeout(c) \/ Kill(c)
          PROVE  IInv'
      BY <2>1, ClientLemma
    <2>2. ASSUME NEW c \in Clients, Accept(c) \/ Hangup(c) PROVE IInv'
      BY <2>2, ConnectionLemma
    <2>3. ASSUME NEW c \in Clients, Execute(c) PROVE IInv'
      BY <2>3, OpenLemma, PlugLemma, UnplugLemma, CloseLemma DEF Execute
    <2>4. ASSUME NEW t \in Asked, DeviceGone(t) PROVE IInv'
      BY <2>4, GoneLemma
    <2>5. CASE Exit
      BY <2>5, ExitLemma
    <2>6. CASE UNCHANGED vars
      BY <2>6 DEF vars, IInv, TypeOK, OneAtATime, OwnCommands, AttachInv, DetachInv, SlotInv,
                  InFlight, Fresh, Holding, Undone, Closing, Answered, Target, Op
    <2> QED BY <2>1, <2>2, <2>3, <2>4, <2>5, <2>6 DEF Next, Terminating
  <1> QED BY <1>1, InitLemma, PTL DEF Spec

\* The variables keep their types, and no disk is ever open at a target that
\* checkTarget refuses.
THEOREM TypeCorrect == Spec => []TypeOK
  <1>1. IInv => TypeOK
    BY DEF IInv
  <1> QED BY <1>1, Inductive, PTL

\* A device reads and writes the disk its own attach opened.
THEOREM DevicesOverTheirOwnDisks == Spec => []DeviceOverOwnDisk
  <1>1. IInv => DeviceOverOwnDisk
    BY DEF IInv, SlotInv, DeviceOverOwnDisk
  <1> QED BY <1>1, Inductive, PTL

\* attach and detach report success only of what they did.
THEOREM SuccessesAreReal == Spec => []SuccessIsReal
  <1>1. IInv => SuccessIsReal
    <2> SUFFICES ASSUME IInv, NEW c \in Clients, pc[c] = "ok"
                 PROVE  IF Op(c) = "detach"
                        THEN /\ victim[c] # Nobody
                             /\ \A t \in Asked : node[t] # victim[c] /\ device[t] # victim[c]
                        ELSE \/ ~ vm
                             \/ device[Target(c)] = c /\ node[Target(c)] = c
                             \/ \E d \in Clients : victim[d] = c
      BY DEF SuccessIsReal
    <2>0. AttachInv(c) /\ DetachInv(c) /\ Op(c) \in {"attach", "detach"} /\ Target(c) \in Asked
      BY DEF IInv, TypeOK, Args, Op, Target
    <2>1. \A t \in Asked : device[t] # Nobody => node[t] = device[t]
      BY DEF IInv, SlotInv
    <2>2. CASE Op(c) = "detach"
      BY <2>0, <2>1, <2>2 DEF DetachInv
    <2>3. CASE Op(c) = "attach"
      BY <2>0, <2>1, <2>3 DEF AttachInv
    <2> QED BY <2>0, <2>2, <2>3
  <1> QED BY <1>1, Inductive, PTL

\* An attach that returned an error left nothing behind.
THEOREM FailedAttachesLeaveNothing == Spec => []FailedAttachLeavesNothing
  <1>1. IInv => FailedAttachLeavesNothing
    <2> SUFFICES ASSUME IInv, NEW c \in Clients, Op(c) = "attach", pc[c] = "failed", NEW t \in Asked
                 PROVE  node[t] # c /\ device[t] # c
      BY DEF FailedAttachLeavesNothing
    <2>1. AttachInv(c) /\ SlotInv(t)
      BY DEF IInv
    <2> QED BY <2>1 DEF AttachInv, Undone, SlotInv
  <1> QED BY <1>1, Inductive, PTL

\* Every open disk under no device is accounted for.
THEOREM OrphansHaveCauses == Spec => []OrphanHasACause
  <1>1. IInv => OrphanHasACause
    <2> SUFFICES ASSUME IInv, NEW t \in Asked, node[t] # Nobody, device[t] = Nobody
                 PROVE  \/ Responsible(node[t]) \/ pc[node[t]] = "killed"
                        \/ \E d \in Clients : /\ victim[d] = node[t]
                                              /\ Responsible(d) \/ pc[d] \in {"killed", "failed"}
      BY DEF OrphanHasACause
    <2> DEFINE c == node[t]
    <2>0. c \in Clients /\ SlotInv(t) /\ AttachInv(c) /\ OneAtATime(c)
      BY DEF IInv, TypeOK
    <2>1. CASE c \notin plugged
      \* Its attach still has it on its hands, or was killed with it.
      <3>1. Holding(c) \/ pc[c] = "killed"
        BY <2>0, <2>1 DEF SlotInv
      <3>2. Holding(c) => Responsible(c) \/ pc[c] = "killed"
        BY <2>0 DEF Holding, OneAtATime, InFlight, Responsible, Waiting
      <3> QED BY <3>1, <3>2
    <2>2. CASE c \in plugged
      \* A detach took the device; it is still closing the disk, or it gave up.
      <3>1. PICK d \in Clients : victim[d] = c
        BY <2>0, <2>2 DEF AttachInv, SlotInv
      <3>2. DetachInv(d) /\ OwnCommands(d) /\ pc[d] \in {"start"} \cup Waiting \cup Ended
            /\ Op(d) = "detach"
        BY <2>0, <3>1 DEF IInv, TypeOK, DetachInv
      <3>3. pc[d] \notin {"start", "greeting", "qmp_capabilities", "ok"}
        BY <2>0, <3>1, <3>2 DEF DetachInv, Fresh
      <3> QED BY <3>1, <3>2, <3>3 DEF Responsible, Waiting, Ended
    <2> QED BY <2>1, <2>2
  <1> QED BY <1>1, Inductive, PTL

\* The commands themselves touch nothing QEMU holds: that takes one of the four block
\* and device commands being executed, a device going, or QEMU's exit.
LEMMA VisibleLemma ==
    ASSUME [Next]_vars
    PROVE  \/ UNCHANGED <<node, device, leaving, plugged>>
           \/ Exit
           \/ \E t \in Asked : DeviceGone(t)
           \/ \E c \in Clients : BlockdevAdd(c) \/ DeviceAdd(c) \/ DeviceDel(c) \/ BlockdevDel(c)
  <1>1. ASSUME NEW c \in Clients, ClientStep(c)
        PROVE  UNCHANGED <<node, device, leaving, plugged>>
    <2> USE DEF End, Send, qemuVars, history
    <2>1. CASE Dial(c) \/ ReadGreeting(c) \/ KeepEvent(c) \/ Negotiated(c) \/ ReadError(c)
      BY <2>1 DEF Dial, ReadGreeting, KeepEvent, Negotiated, ReadError
    <2>2. CASE Opened(c) \/ Plugged(c) \/ RolledBack(c) \/ Closed(c)
      BY <2>2 DEF Opened, Plugged, RolledBack, Closed
    <2>3. CASE Unplugged(c) \/ WaitDeleted(c)
      BY <2>3 DEF Unplugged, WaitDeleted
    <2> QED BY <1>1, <2>1, <2>2, <2>3 DEF ClientStep
  <1>2. ASSUME NEW c \in Clients, HandshakeTimeout(c) \/ WaitTimeout(c) \/ Kill(c)
        PROVE  UNCHANGED <<node, device, leaving, plugged>>
    BY <1>2 DEF HandshakeTimeout, WaitTimeout, Kill, End, qemuVars, history
  <1>3. ASSUME NEW c \in Clients, Accept(c) \/ Hangup(c) \/ Capabilities(c)
        PROVE  UNCHANGED <<node, device, leaving, plugged>>
    BY <1>3 DEF Accept, Hangup, Capabilities, clientVars, history
  <1>4. CASE UNCHANGED vars
    BY <1>4 DEF vars
  <1> QED BY <1>1, <1>2, <1>3, <1>4 DEF Next, Execute, Terminating

\* Only blockdev-add, blockdev-del and QEMU's exit change what is open.
LEMMA NodeLemma ==
    ASSUME [Next]_vars
    PROVE  UNCHANGED node \/ Exit \/ \E c \in Clients : BlockdevAdd(c) \/ BlockdevDel(c)
  BY VisibleLemma DEF DeviceAdd, DeviceDel, DeviceGone

\* c's blockdev-del, when QEMU executes it, closes the disk c is entitled to close.
LEMMA EntitledLemma ==
    ASSUME IInv, NEW c \in Clients, BlockdevDel(c)
    PROVE  MayClose(c, node[Target(c)])
  <1>1. AttachInv(c) /\ DetachInv(c) /\ Op(c) \in {"attach", "detach"} /\ vm /\ request[c] = "blockdev-del"
    BY DEF IInv, TypeOK, Args, Op, BlockdevDel
  <1> QED BY <1>1 DEF MayClose, AttachInv, DetachInv, Holding, Closing

\* Nobody closes a disk that is not theirs to close.
THEOREM OnlyTheirOwnIsClosed == Spec => ClosesOnlyItsOwn
  <1> DEFINE P == \A t \in Asked : (node[t] # Nobody /\ node'[t] # node[t] /\ vm') =>
                    \E c \in Clients : /\ request[c] = "blockdev-del"
                                       /\ request'[c] = "none"
                                       /\ Target(c) = t
                                       /\ MayClose(c, node[t])
  <1>1. IInv /\ [Next]_vars => [P]_vars
    <2> SUFFICES ASSUME IInv, [Next]_vars, NEW t \in Asked, node[t] # Nobody, node'[t] # node[t], vm'
                 PROVE  \E c \in Clients : /\ request[c] = "blockdev-del"
                                           /\ request'[c] = "none"
                                           /\ Target(c) = t
                                           /\ MayClose(c, node[t])
      OBVIOUS
    <2>1. ~ Exit
      BY DEF Exit
    <2>t. TypeOK
      BY DEF IInv
    <2>2. ASSUME NEW c \in Clients, BlockdevAdd(c) PROVE FALSE
      <3>1. UNCHANGED node \/ (node[Target(c)] = Nobody /\ node' = [node EXCEPT ![Target(c)] = c])
        BY <2>2 DEF BlockdevAdd
      <3> QED BY <3>1, <2>t DEF TypeOK
    <2>3. PICK c \in Clients : BlockdevDel(c)
      BY <2>1, <2>2, NodeLemma
    <2>4. /\ request[c] = "blockdev-del"
          /\ request'[c] = "none"
          /\ UNCHANGED node \/ node' = [node EXCEPT ![Target(c)] = Nobody]
      BY <2>3, <2>t DEF BlockdevDel, Reply, TypeOK
    <2>5. Target(c) = t
      BY <2>4, <2>t DEF TypeOK
    <2> QED BY <2>3, <2>4, <2>5, EntitledLemma
  <1>2. IInv /\ [Next]_vars => [\A t \in Asked : (node[t] # Nobody /\ node'[t] # node[t] /\ vm') =>
          \E c \in Clients : /\ request[c] = "blockdev-del"
                             /\ request'[c] = "none"
                             /\ Target(c) = t
                             /\ MayClose(c, node[t])]_vars
    BY <1>1
  <1> QED BY <1>2, Inductive, PTL DEF Spec, ClosesOnlyItsOwn

\* Steps that change neither what is open, nor what is plugged, nor what is leaving are
\* invisible to the owner of a disk.
LEMMA InvisibleLemma ==
    ASSUME UNCHANGED <<node, device, leaving, plugged>>
    PROVE  UNCHANGED <<node, SlotStage, plugged>>
  BY DEF SlotStage

\* Every step of the commands and of QEMU is a step of a disk's life cycle, or invisible.
THEOREM Refinement == Spec => ImplementsSlots
  <1>1. Init => Slots!Init
    BY DEF Init, Slots!Init, SlotStage
  <1>2. IInv /\ [Next]_vars => [Slots!Next]_(Slots!vars)
    <2> SUFFICES ASSUME IInv, [Next]_vars
                 PROVE  Slots!Next \/ UNCHANGED <<node, SlotStage, plugged>>
      BY DEF Slots!vars
    <2>t. /\ TypeOK
          /\ \A c \in Clients : Target(c) \in Asked
          /\ SlotStage = [t \in Asked |-> SlotStage[t]]
          /\ SlotStage' = [t \in Asked |-> SlotStage'[t]]
      BY DEF IInv, TypeOK, Args, Target, SlotStage
    <2>s. \A t \in Asked : SlotInv(t)
      BY DEF IInv
    <2>1. ASSUME NEW c \in Clients, BlockdevAdd(c)
          PROVE  Slots!Next \/ UNCHANGED <<node, SlotStage, plugged>>
      <3> DEFINE t == Target(c)
      <3>0. t \in Asked /\ c \notin plugged /\ UNCHANGED <<device, leaving, plugged>>
        BY <2>1, <2>t DEF IInv, AttachInv, Fresh, BlockdevAdd, history
      <3>1. CASE node[t] = Nobody /\ node' = [node EXCEPT ![t] = c]
        <4>1. device[t] = Nobody
          BY <2>s, <3>0, <3>1 DEF SlotInv
        <4>2. SlotStage[t] = "free" /\ SlotStage' = [SlotStage EXCEPT ![t] = "opened"]
          BY <2>t, <3>0, <3>1, <4>1 DEF SlotStage, TypeOK
        <4> QED BY <3>0, <3>1, <4>2 DEF Slots!Next, Slots!Open
      <3>2. CASE UNCHANGED node
        BY <3>0, <3>2, InvisibleLemma
      <3> QED BY <2>1, <3>1, <3>2 DEF BlockdevAdd
    <2>2. ASSUME NEW c \in Clients, DeviceAdd(c)
          PROVE  Slots!Next \/ UNCHANGED <<node, SlotStage, plugged>>
      <3> DEFINE t == Target(c)
      <3>0. /\ t \in Asked /\ c \notin plugged /\ node[t] = c /\ device[t] = Nobody
            /\ UNCHANGED <<node, leaving>>
        BY <2>2, <2>t DEF IInv, AttachInv, Holding, DeviceAdd
      <3>1. CASE device' = [device EXCEPT ![t] = c] /\ plugged' = plugged \cup {c}
        <4>1. t \notin leaving
          BY <2>s, <3>0 DEF SlotInv
        <4>2. \A u \in Asked : u # t => node[u] # c
          BY <2>s, <3>0 DEF SlotInv
        <4>3. SlotStage[t] = "opened" /\ SlotStage'[t] = "plugged"
          BY <2>t, <3>0, <3>1, <4>1 DEF SlotStage, TypeOK
        <4>4. \A u \in Asked : u # t => SlotStage'[u] = SlotStage[u]
          BY <2>t, <3>0, <3>1, <4>2 DEF SlotStage, TypeOK
        <4>5. SlotStage' = [SlotStage EXCEPT ![t] = "plugged"]
          BY <2>t, <3>0, <4>3, <4>4
        <4> QED BY <3>0, <3>1, <4>3, <4>5 DEF Slots!Next, Slots!Plug
      <3>2. CASE UNCHANGED <<device, plugged>>
        BY <3>0, <3>2, InvisibleLemma
      <3> QED BY <2>2, <3>1, <3>2 DEF DeviceAdd
    <2>3. ASSUME NEW c \in Clients, DeviceDel(c)
          PROVE  Slots!Next \/ UNCHANGED <<node, SlotStage, plugged>>
      <3> DEFINE t == Target(c)
      <3>0. t \in Asked /\ UNCHANGED <<node, device, plugged>>
        BY <2>3, <2>t DEF DeviceDel
      <3>1. CASE device[t] # Nobody /\ t \notin leaving /\ leaving' = leaving \cup {t}
        <4>1. node[t] # Nobody
          BY <2>s, <3>0, <3>1 DEF SlotInv
        <4>2. SlotStage[t] = "plugged" /\ SlotStage'[t] = "leaving"
          BY <3>0, <3>1, <4>1 DEF SlotStage
        <4>3. \A u \in Asked : u # t => SlotStage'[u] = SlotStage[u]
          BY <3>0, <3>1 DEF SlotStage
        <4>4. SlotStage' = [SlotStage EXCEPT ![t] = "leaving"]
          BY <2>t, <3>0, <4>2, <4>3
        <4> QED BY <3>0, <4>2, <4>4 DEF Slots!Next, Slots!Unplug
      <3>2. CASE UNCHANGED leaving
        BY <3>0, <3>2, InvisibleLemma
      <3> QED BY <2>3, <3>1, <3>2 DEF DeviceDel
    <2>4. ASSUME NEW t \in Asked, DeviceGone(t)
          PROVE  Slots!Next \/ UNCHANGED <<node, SlotStage, plugged>>
      <3>0. /\ t \in leaving /\ device' = [device EXCEPT ![t] = Nobody] /\ leaving' = leaving \ {t}
            /\ UNCHANGED <<node, plugged>>
        BY <2>4 DEF DeviceGone, history
      <3>1. device[t] # Nobody /\ node[t] # Nobody /\ node[t] \in plugged
        BY <2>s, <3>0 DEF SlotInv
      <3>2. SlotStage[t] = "leaving" /\ SlotStage'[t] = "unplugged"
        BY <2>t, <3>0, <3>1 DEF SlotStage, TypeOK
      <3>3. \A u \in Asked : u # t => SlotStage'[u] = SlotStage[u]
        BY <2>t, <3>0 DEF SlotStage, TypeOK
      <3>4. SlotStage' = [SlotStage EXCEPT ![t] = "unplugged"]
        BY <2>t, <3>2, <3>3
      <3> QED BY <3>0, <3>2, <3>4 DEF Slots!Next, Slots!Gone
    <2>5. ASSUME NEW c \in Clients, BlockdevDel(c)
          PROVE  Slots!Next \/ UNCHANGED <<node, SlotStage, plugged>>
      <3> DEFINE t == Target(c)
      <3>0. t \in Asked /\ UNCHANGED <<device, leaving, plugged>>
        BY <2>5, <2>t DEF BlockdevDel, history
      <3>1. CASE node[t] # Nobody /\ device[t] = Nobody /\ node' = [node EXCEPT ![t] = Nobody]
        <4>1. SlotStage[t] \in {"opened", "unplugged"} /\ SlotStage'[t] = "free"
          BY <2>t, <3>0, <3>1 DEF SlotStage, TypeOK
        <4>2. \A u \in Asked : u # t => SlotStage'[u] = SlotStage[u]
          BY <2>t, <3>0, <3>1 DEF SlotStage, TypeOK
        <4>3. SlotStage' = [SlotStage EXCEPT ![t] = "free"]
          BY <2>t, <3>0, <4>1, <4>2
        <4> QED BY <3>0, <3>1, <4>1, <4>3 DEF Slots!Next, Slots!Close
      <3>2. CASE UNCHANGED node
        BY <3>0, <3>2, InvisibleLemma
      <3> QED BY <2>5, <3>1, <3>2 DEF BlockdevDel
    <2>6. CASE Exit
      <3>1. node' = [t \in Asked |-> Nobody] /\ UNCHANGED plugged
        BY <2>6 DEF Exit, history
      <3>2. SlotStage' = [t \in Asked |-> "free"]
        BY <3>1 DEF SlotStage
      <3> QED BY <3>1, <3>2 DEF Slots!Next, Slots!PowerOff
    <2>7. ASSUME UNCHANGED <<node, device, leaving, plugged>>
          PROVE  UNCHANGED <<node, SlotStage, plugged>>
      BY <2>7, InvisibleLemma
    <2> QED BY <2>1, <2>2, <2>3, <2>4, <2>5, <2>6, <2>7, VisibleLemma
  <1> QED BY <1>1, <1>2, Inductive, PTL DEF Spec, ImplementsSlots, Slots!Spec
=============================================================================
