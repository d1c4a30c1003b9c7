-------------------------- MODULE CheckpointProofs --------------------------
(***************************************************************************)
(* Proofs about Checkpoint, for any number of VMs, files and invocations:  *)
(* first what holds for any number of monitors, then what holds when every *)
(* VM has one.                                                             *)
(***************************************************************************)
EXTENDS Checkpoint, FiniteSetTheorems, TLAPS

USE CheckpointAssumption DEF Args

\* No migration has begun.
LEMMA InitLemma == Init => CheckpointInv
  <1> SUFFICES ASSUME Init PROVE CheckpointInv
    OBVIOUS
  <1>1. TypeOK
    BY DEF Init, TypeOK, RunStates, Migrations, Contents
  <1> QED BY <1>1 DEF Init, CheckpointInv, MigrationInv, Outgoing, StoppedIsSaved

\* Steps of the commands that only move on, and Kill and Deadline.
LEMMA QuietLemma ==
    ASSUME CheckpointInv, pc' \in [Clients -> {"dial"} \cup Active \cup Ended],
           UNCHANGED <<args, run, mig, file, loaded>>
    PROVE  CheckpointInv'
  <1>1. TypeOK'
    BY DEF CheckpointInv, TypeOK
  <1> QED BY <1>1 DEF CheckpointInv, MigrationInv, Outgoing, StoppedIsSaved

\* v changes run state, not to postmigrate: no migration begins or ends.
LEMMA RunLemma ==
    ASSUME CheckpointInv, pc' \in [Clients -> {"dial"} \cup Active \cup Ended],
           NEW v \in VMs, NEW state \in RunStates,
           run' = [run EXCEPT ![v] = state],
           state # "postmigrate",
           state = "finish-migrate" => mig[v].status = "active",
           state # "exited" => run[v] \in {"running", "paused", "postmigrate"},
           UNCHANGED <<args, mig, file, loaded>>
    PROVE  CheckpointInv'
  <1>t. TypeOK /\ run'[v] = state /\ \A w \in VMs : w # v => run'[w] = run[w]
    BY DEF CheckpointInv, TypeOK
  <1>1. TypeOK'
    BY <1>t DEF TypeOK
  <1>2. StoppedIsSaved'
    BY <1>t DEF CheckpointInv, StoppedIsSaved
  <1>3. \A w \in VMs : Outgoing(w)' => Outgoing(w)
    BY <1>t DEF Outgoing, CheckpointInv, MigrationInv
  <1> QED BY <1>t, <1>1, <1>2, <1>3 DEF CheckpointInv, MigrationInv

\* The steps of save and restore.
LEMMA CommandLemma ==
    ASSUME CheckpointInv, NEW c \in Clients, ClientStep(c) \/ Deadline(c) \/ Kill(c)
    PROVE  CheckpointInv'
  <1> USE DEF Go
  <1>t. TypeOK /\ VM(c) \in VMs /\ File(c) \in Files
    BY DEF CheckpointInv, TypeOK, VM, File
  <1>p. ASSUME NEW where \in Active \cup Ended, Go(c, where)
        PROVE  pc' \in [Clients -> {"dial"} \cup Active \cup Ended]
    BY <1>t, <1>p DEF TypeOK
  <1>1. CASE Dial(c)
    BY <1>1, <1>p, QuietLemma DEF Dial, Active, Ended
  <1>2. CASE ReadError(c)
    BY <1>2, <1>p, QuietLemma DEF ReadError, Ended
  <1>3. CASE Migrate(c)
    <2> DEFINE v == VM(c)  f == File(c)
    <2>1. CASE UNCHANGED <<mig, file>>
      BY <1>3, <1>p, <2>1, QuietLemma DEF Migrate, Active, Ended
    <2>2. CASE ~ UNCHANGED <<mig, file>>
      <3>0. PICK m \in BOOLEAN :
              /\ run[v] \in {"running", "paused"}
              /\ mig' = [mig EXCEPT ![v] = [status |-> "active", file |-> f, was |-> run[v]]]
              /\ file' = [file EXCEPT ![f] = [save |-> c, of |-> v, complete |-> FALSE,
                                              mixed |-> m, was |-> run[v]]]
              /\ UNCHANGED <<args, run, loaded>>
              /\ pc' \in [Clients -> {"dial"} \cup Active \cup Ended]
        <4>1. (\E w \in VMs : Writing(w, f)) \in BOOLEAN
          OBVIOUS
        <4> QED BY <1>3, <1>p, <2>2, <4>1 DEF Migrate, Active
      <3>1. /\ mig'[v].status = "active" /\ mig'[v].file = f
            /\ \A w \in VMs : w # v => mig'[w] = mig[w]
            /\ file'[f].of = v /\ ~ file'[f].complete
            /\ \A g \in Files : g # f => file'[g] = file[g]
        BY <1>t, <3>0 DEF TypeOK
      <3>2. TypeOK'
        <4>1. [status |-> "active", file |-> f, was |-> run[v]] \in Migrations
          BY <1>t, <3>0 DEF Migrations
        <4>2. [save |-> c, of |-> v, complete |-> FALSE, mixed |-> m, was |-> run[v]] \in Contents
          BY <1>t, <3>0 DEF Contents
        <4> QED BY <1>t, <3>0, <4>1, <4>2 DEF TypeOK
      <3>3. StoppedIsSaved'
        BY <1>t, <3>0, <3>1 DEF CheckpointInv, StoppedIsSaved
      <3>4. \A w \in VMs : MigrationInv(w)'
        BY <1>t, <3>0, <3>1 DEF CheckpointInv, MigrationInv, Outgoing, TypeOK
      <3> QED BY <3>2, <3>3, <3>4 DEF CheckpointInv
    <2> QED BY <2>1, <2>2
  <1>4. CASE MigrateIncoming(c)
    <2> DEFINE v == VM(c)  f == File(c)
    <2>1. CASE UNCHANGED mig
      BY <1>4, <1>p, <2>1, QuietLemma DEF MigrateIncoming, Active, Ended
    <2>2. CASE ~ UNCHANGED mig
      <3>0. /\ run[v] = "inmigrate"
            /\ mig' = [mig EXCEPT ![v] = [status |-> "active", file |-> f, was |-> mig[v].was]]
            /\ UNCHANGED <<args, run, file, loaded>>
            /\ pc' \in [Clients -> {"dial"} \cup Active \cup Ended]
        BY <1>4, <1>p, <2>2 DEF MigrateIncoming, Active
      <3>1. /\ mig'[v].status = "active" /\ mig'[v].file = f
            /\ \A w \in VMs : w # v => mig'[w] = mig[w]
        BY <1>t, <3>0 DEF TypeOK
      <3>2. TypeOK'
        <4>1. mig[v] \in Migrations
          BY <1>t DEF TypeOK
        <4>2. [status |-> "active", file |-> f, was |-> mig[v].was] \in Migrations
          BY <1>t, <4>1 DEF Migrations
        <4> QED BY <1>t, <3>0, <4>2 DEF TypeOK
      <3>3. StoppedIsSaved'
        BY <3>0, <3>1 DEF CheckpointInv, StoppedIsSaved
      <3>4. \A w \in VMs : MigrationInv(w)'
        BY <1>t, <3>0, <3>1 DEF CheckpointInv, MigrationInv, Outgoing
      <3> QED BY <3>2, <3>3, <3>4 DEF CheckpointInv
    <2> QED BY <2>1, <2>2
  <1>5. CASE WaitMigration(c) \/ Deadline(c) \/ Kill(c) \/ QueryStatus(c)
    BY <1>5, <1>p, QuietLemma DEF WaitMigration, Deadline, Kill, QueryStatus, Active, Ended
  <1>6. CASE Quit(c)
    BY <1>6, <1>p, <1>t, RunLemma DEF Quit, Ended, RunStates
  <1>7. CASE Cont(c)
    <2>1. CASE UNCHANGED run /\ Go(c, "failed")
      BY <1>7, <1>p, <2>1, QuietLemma DEF Cont, Ended
    <2>2. CASE run[VM(c)] \in {"paused", "running", "postmigrate"} /\ run' = [run EXCEPT ![VM(c)] = "running"] /\ Go(c, "ok")
      BY <1>7, <1>p, <1>t, <2>2, RunLemma DEF Cont, Ended, RunStates
    <2> QED BY <1>7, <2>1, <2>2 DEF Cont
  <1> QED BY <1>1, <1>2, <1>3, <1>4, <1>5, <1>6, <1>7 DEF ClientStep

-----------------------------------------------------------------------------

\* The steps of QEMU: the migrations end, and the process dies.
LEMMA QEMULemma ==
    ASSUME CheckpointInv, NEW v \in VMs,
           Switchover(v) \/ Completed(v) \/ Failed(v) \/ Load(v) \/ Crash(v)
    PROVE  CheckpointInv'
  <1>t. TypeOK /\ mig[v] \in Migrations
    BY DEF CheckpointInv, TypeOK
  <1>1. CASE Switchover(v)
    BY <1>1, <1>t, RunLemma DEF Switchover, CheckpointInv, TypeOK, RunStates
  <1>2. CASE Crash(v)
    BY <1>2, <1>t, RunLemma DEF Crash, TypeOK, RunStates
  <1>3. CASE Completed(v)
    <2> DEFINE f == mig[v].file
    <2>0. /\ f \in Files /\ run[v] = "finish-migrate"
          /\ run' = [run EXCEPT ![v] = "postmigrate"]
          /\ mig' = [mig EXCEPT ![v].status = "completed"]
          /\ file' = IF Own(v, f) THEN [file EXCEPT ![f].complete = TRUE] ELSE file
          /\ UNCHANGED <<args, pc, loaded>>
      BY <1>3 DEF Completed, CheckpointInv, MigrationInv
    <2>m. [mig[v] EXCEPT !.status = "completed"] \in Migrations
      BY <1>t DEF Migrations
    <2>f. file[f] \in Contents /\ [file[f] EXCEPT !.complete = TRUE] \in Contents
      <3>1. file[f] \in Contents
        BY <1>t, <2>0 DEF TypeOK
      <3> QED BY <3>1 DEF Contents
    <2>1. /\ run'[v] = "postmigrate" /\ \A w \in VMs : w # v => run'[w] = run[w]
          /\ mig'[v].status = "completed" /\ mig'[v].file = f /\ \A w \in VMs : w # v => mig'[w] = mig[w]
      BY <2>0, <1>t DEF TypeOK, Migrations
    <2>w. /\ file'[f].of = file[f].of /\ file'[f].mixed = file[f].mixed
          /\ file'[f].complete = (file[f].complete \/ Own(v, f))
          /\ \A g \in Files : g # f => file'[g] = file[g]
      <3>1. CASE Own(v, f)
        BY <2>0, <2>f, <1>t, <3>1 DEF TypeOK, Contents
      <3>2. CASE ~ Own(v, f)
        BY <2>0, <2>f, <3>2 DEF Contents
      <3> QED BY <3>1, <3>2
    <2>2. TypeOK'
      <3>1. file' \in [Files -> Contents]
        BY <1>t, <2>0, <2>f DEF TypeOK
      <3> QED BY <1>t, <2>0, <2>m, <3>1 DEF TypeOK, RunStates
    <2>6. StoppedIsSaved'
      <3> SUFFICES ASSUME NEW w \in VMs, run'[w] = "postmigrate", file'[mig'[w].file].of \in {w, Nobody}
                   PROVE  file'[mig'[w].file].complete \/ file'[mig'[w].file].mixed
        BY DEF StoppedIsSaved
      <3>1. CASE w = v
        <4>1. file[f].of # Nobody
          BY <2>0 DEF CheckpointInv, MigrationInv, Outgoing
        <4> QED BY <2>1, <2>w, <3>1, <4>1 DEF Own
      <3>2. CASE w # v
        <4>1. run[w] = "postmigrate" /\ mig'[w].file = mig[w].file /\ mig[w].file \in Files
          BY <2>1, <3>2 DEF CheckpointInv, MigrationInv
        <4>2. file[mig[w].file].of \in {w, Nobody}
          BY <2>w, <4>1
        <4>3. file[mig[w].file].complete \/ file[mig[w].file].mixed
          BY <4>1, <4>2 DEF CheckpointInv, StoppedIsSaved
        <4>4. CASE mig[w].file = f
          BY <2>w, <4>1, <4>3, <4>4
        <4>5. CASE mig[w].file # f
          <5>1. file'[mig'[w].file] = file[mig[w].file]
            BY <2>w, <4>1, <4>5
          <5> QED BY <4>3, <5>1
        <4> QED BY <4>4, <4>5
      <3> QED BY <3>1, <3>2
    <2>7. \A w \in VMs : MigrationInv(w)'
      BY <2>0, <2>1, <2>w DEF CheckpointInv, MigrationInv, Outgoing
    <2> QED BY <2>2, <2>6, <2>7 DEF CheckpointInv
  <1>4. ASSUME NEW state \in {"running", "paused", "inmigrate", "exited"},
               NEW status \in {"completed", "failed"},
               NEW of \in VMs \cup {Nobody},
               run[v] \notin Stopped,
               run' = [run EXCEPT ![v] = state],
               mig' = [mig EXCEPT ![v].status = status],
               loaded' = [loaded EXCEPT ![v] = of],
               UNCHANGED <<args, pc, file>>
        PROVE  CheckpointInv'
    <2>1. /\ run'[v] = state /\ \A w \in VMs : w # v => run'[w] = run[w]
          /\ mig'[v].status = status /\ \A w \in VMs : w # v => mig'[w] = mig[w]
          /\ loaded'[v] = of /\ \A w \in VMs : w # v => loaded'[w] = loaded[w]
      BY <1>4, <1>t DEF TypeOK, Migrations
    <2>2. TypeOK'
      <3>1. [mig[v] EXCEPT !.status = status] \in Migrations
        BY <1>t DEF Migrations
      <3> QED BY <1>4, <1>t, <3>1 DEF TypeOK, RunStates
    <2>6. StoppedIsSaved'
      BY <1>4, <2>1 DEF CheckpointInv, StoppedIsSaved
    <2>7. \A w \in VMs : MigrationInv(w)'
      BY <1>4, <2>1 DEF CheckpointInv, MigrationInv, Outgoing
    <2> QED BY <2>2, <2>6, <2>7 DEF CheckpointInv
  <1>5. CASE Failed(v)
    <2>1. /\ loaded[v] \in VMs \cup {Nobody} /\ loaded = [loaded EXCEPT ![v] = loaded[v]]
          /\ mig[v].was \in {"running", "paused"}
      BY <1>t DEF TypeOK, Migrations
    <2> QED BY <1>4, <1>5, <2>1 DEF Failed, Stopped
  <1>6. CASE Load(v)
    <2> DEFINE f == mig[v].file
    <2>1. /\ loaded[v] \in VMs \cup {Nobody} /\ loaded = [loaded EXCEPT ![v] = loaded[v]]
          /\ f \in Files /\ run[v] = "inmigrate"
      BY <1>6, <1>t DEF Load, CheckpointInv, MigrationInv, TypeOK
    <2>2. file[f] \in Contents /\ file[f].was \in {"running", "paused"} /\ file[f].of \in VMs \cup {Nobody}
      BY <1>t, <2>1 DEF TypeOK, Contents
    <2>3. CASE /\ file[f].complete
               /\ run' = [run EXCEPT ![v] = file[f].was]
               /\ mig' = [mig EXCEPT ![v].status = "completed"]
               /\ loaded' = [loaded EXCEPT ![v] = file[f].of]
      <3>1. run[v] \notin Stopped /\ UNCHANGED <<args, pc, file>>
        BY <1>6, <2>1 DEF Load, Stopped
      <3> QED BY <1>4, <2>2, <2>3, <3>1
    <2>4. CASE /\ run' \in {run, [run EXCEPT ![v] = "exited"]}
               /\ mig' = [mig EXCEPT ![v].status = "failed"]
               /\ UNCHANGED loaded
      <3>1. run = [run EXCEPT ![v] = "inmigrate"]
        BY <1>t, <2>1 DEF TypeOK
      <3>2. PICK state \in {"inmigrate", "exited"} : run' = [run EXCEPT ![v] = state]
        BY <2>4, <3>1
      <3>3. run[v] \notin Stopped /\ UNCHANGED <<args, pc, file>>
        BY <1>6, <2>1 DEF Load, Stopped
      <3> QED BY <1>4, <2>1, <2>4, <3>2, <3>3
    <2> QED BY <1>6, <2>3, <2>4 DEF Load
  <1> QED BY <1>1, <1>2, <1>3, <1>5, <1>6

-----------------------------------------------------------------------------

\* No step leads out of CheckpointInv.
LEMMA StepLemma == CheckpointInv /\ [Next]_vars => CheckpointInv'
  <1> SUFFICES ASSUME CheckpointInv, [Next]_vars PROVE CheckpointInv'
    OBVIOUS
  <1>1. CASE \E c \in Clients : ClientStep(c) \/ Deadline(c) \/ Kill(c)
    BY <1>1, CommandLemma
  <1>2. CASE \E v \in VMs : Switchover(v) \/ Completed(v) \/ Failed(v) \/ Load(v) \/ Crash(v)
    BY <1>2, QEMULemma
  <1>3. CASE Terminating \/ UNCHANGED vars
    <2>1. UNCHANGED <<args, run, mig, file, loaded>> /\ pc' = pc
      BY <1>3 DEF Terminating, vars
    <2> QED BY <2>1, QuietLemma DEF CheckpointInv, TypeOK
  <1> QED BY <1>1, <1>2, <1>3 DEF Next

\* CheckpointInv holds in every state: no interleaving of saves, restores, migrations and
\* crashes leads out of it.
THEOREM Inductive == Spec => []CheckpointInv
  BY StepLemma, InitLemma, PTL DEF Spec

\* The state of save, restore and QEMU stays within its types.
THEOREM TypeCorrect == Spec => []TypeOK
  <1>1. CheckpointInv => TypeOK
    BY DEF CheckpointInv
  <1> QED BY <1>1, Inductive, PTL

\* A save, also one that timed out or died, leaves no VM stopped without its whole state.
THEOREM StoppedAreSaved == Spec => []StoppedIsSaved
  <1>1. CheckpointInv => StoppedIsSaved
    BY DEF CheckpointInv
  <1> QED BY <1>1, Inductive, PTL

-----------------------------------------------------------------------------
(* One monitor per VM.                                                      *)

\* Nothing has been saved, loaded or dialled.
LEMMA SessionInitLemma == Init => SessionInv
  <1> SUFFICES ASSUME Init PROVE SessionInv
    OBVIOUS
  <1>1. \A c \in Clients : pc[c] = "dial" /\ File(c) \in Files /\ Nobody # c
    BY DEF Init, File
  <1>2. \A f \in Files : file[f].save = Nobody /\ ~ file[f].complete
    BY DEF Init
  <1>3. \A c \in Clients : SaveInv(c) /\ RestoreInv(c)
    BY <1>1, <1>2 DEF SaveInv, RestoreInv
  <1>4. OneCommand /\ SourceInv
    BY <1>1, <1>2 DEF Init, OneCommand, SourceInv, SourceIsStopped, Active
  <1> QED BY <1>3, <1>4, InitLemma DEF SessionInv

\* A command that was under way goes on or ends.
LEMMA BusyLemma ==
    ASSUME TypeOK, OneCommand, NEW c \in Clients, pc[c] \in Active,
           NEW where \in Active \cup Ended, pc' = [pc EXCEPT ![c] = where], UNCHANGED args
    PROVE  OneCommand'
  BY DEF TypeOK, OneCommand, VM, Active, Ended

\* A monitor that has room for a command has none.
LEMMA DialLemma ==
    ASSUME Sessions = 1, TypeOK, OneCommand, NEW c \in Clients, Dial(c)
    PROVE  OneCommand'
  <1> DEFINE S == {d \in Clients : VM(d) = VM(c) /\ pc[d] \in Active}
  <1>1. CASE Go(c, "failed")
    BY <1>1 DEF Dial, Go, TypeOK, OneCommand, VM, Active
  <1>2. CASE Cardinality(S) < Sessions
    <2>1. IsFiniteSet(S)
      BY FS_Subset
    <2>2. S = {}
      BY <1>2, <2>1, FS_EmptySet, FS_CardinalityType
    <2>3. \A d \in Clients : VM(d) = VM(c) => pc[d] \notin Active
      BY <2>2
    <2>4. \A d \in Clients : d # c => pc'[d] = pc[d]
      BY DEF Dial, Go, TypeOK
    <2> HIDE DEF S
    <2> QED BY <2>3, <2>4 DEF Dial, OneCommand, VM
  <1> QED BY <1>1, <1>2 DEF Dial

\* c moves on and nothing else does: c's own part is all there is to see to.
LEMMA MoveLemma ==
    ASSUME SessionInv, NEW c \in Clients, NEW where \in Active \cup Ended,
           pc' = [pc EXCEPT ![c] = where], UNCHANGED <<args, run, mig, file, loaded>>,
           CheckpointInv', OneCommand', SaveInv(c)', RestoreInv(c)'
    PROVE  SessionInv'
  <1>1. \A d \in Clients : d # c => pc'[d] = pc[d]
    BY DEF SessionInv, CheckpointInv, TypeOK
  <1>2. SourceInv'
    BY DEF SessionInv, SourceInv, SourceIsStopped
  <1>3. ASSUME NEW d \in Clients, d # c PROVE SaveInv(d)' /\ RestoreInv(d)'
    BY <1>1, <1>3 DEF SessionInv, SaveInv, RestoreInv, Kept, Outgoing, VM, File
  <1> QED BY <1>2, <1>3 DEF SessionInv

\* The steps of save and restore that send QEMU nothing, or nothing that it carries out.
LEMMA SessionMoveLemma ==
    ASSUME Sessions = 1, SessionInv, CheckpointInv', NEW c \in Clients,
           ClientStep(c) \/ Deadline(c) \/ Kill(c), UNCHANGED <<run, mig, file>>,
           ~ Quit(c), Cont(c) => Go(c, "failed")
    PROVE  SessionInv'
  <1> USE DEF Go
  <1>t. TypeOK /\ args[c].op \in {"save", "restore"} /\ SaveInv(c) /\ RestoreInv(c) /\ OneCommand
    BY DEF SessionInv, CheckpointInv, TypeOK
  <1>u. UNCHANGED <<args, loaded>>
    BY DEF ClientStep, Dial, ReadError, Migrate, MigrateIncoming, WaitMigration, Quit, QueryStatus, Cont,
           Deadline, Kill
  <1>1. ASSUME NEW where \in {"failed", "killed"}, Go(c, where), pc[c] \in Active
        PROVE  SessionInv'
    <2>1. OneCommand'
      BY <1>t, <1>u, <1>1, BusyLemma DEF Ended
    <2>2. pc'[c] = where
      BY <1>t, <1>1 DEF TypeOK
    <2>3. SaveInv(c)' /\ RestoreInv(c)'
      BY <1>t, <1>u, <2>2 DEF SaveInv, RestoreInv, VM, File
    <2> QED BY <1>u, <1>1, <2>1, <2>3, MoveLemma DEF Ended
  <1>2. CASE Dial(c)
    <2>1. OneCommand'
      BY <1>2, <1>t, DialLemma
    <2>2. PICK where \in {"failed", "migrate", "migrate-incoming"} :
            /\ Go(c, where)
            /\ where = "migrate" => args[c].op = "save"
            /\ where = "migrate-incoming" => args[c].op # "save"
      BY <1>2 DEF Dial
    <2>3. pc'[c] = where
      BY <1>t, <2>2 DEF TypeOK
    <2>4. SaveInv(c)' /\ RestoreInv(c)'
      BY <1>t, <1>u, <2>2, <2>3 DEF SaveInv, RestoreInv, VM, File
    <2> QED BY <1>u, <2>1, <2>2, <2>4, MoveLemma DEF Active, Ended
  <1>3. CASE WaitMigration(c) /\ mig[VM(c)].status = "completed"
    <2>1. PICK where \in {"quit", "query-status"} :
            /\ Go(c, where)
            /\ where = "quit" <=> args[c].op = "save"
            /\ pc[c] = "query-migrate" /\ run[VM(c)] # "exited"
      BY <1>3 DEF WaitMigration
    <2>2. pc'[c] = where
      BY <1>t, <2>1 DEF TypeOK
    <2>3. OneCommand'
      BY <1>t, <1>u, <2>1, BusyLemma DEF Active
    <2>4. SaveInv(c)' /\ RestoreInv(c)'
      BY <1>3, <1>t, <1>u, <2>1, <2>2 DEF SaveInv, RestoreInv, VM, File, Kept
    <2> QED BY <1>u, <2>1, <2>3, <2>4, MoveLemma DEF Active
  <1>4. CASE QueryStatus(c)
    <2>1. PICK where \in {"ok", "cont"} :
            Go(c, where) /\ (where = "ok" => run[VM(c)] = "running") /\ pc[c] = "query-status"
      BY <1>4 DEF QueryStatus
    <2>2. pc'[c] = where
      BY <1>t, <2>1 DEF TypeOK
    <2>3. OneCommand'
      BY <1>t, <1>u, <2>1, BusyLemma DEF Active, Ended
    <2>4. SaveInv(c)' /\ RestoreInv(c)'
      BY <1>t, <1>u, <2>1, <2>2 DEF SaveInv, RestoreInv, VM, File, Outgoing
    <2> QED BY <1>u, <2>1, <2>3, <2>4, MoveLemma DEF Active, Ended
  <1>5. CASE \/ ReadError(c) \/ Deadline(c) \/ Kill(c) \/ Cont(c)
             \/ WaitMigration(c) /\ mig[VM(c)].status # "completed"
    BY <1>1, <1>5 DEF ReadError, Deadline, Kill, Cont, WaitMigration, Active
  <1>6. CASE Migrate(c) \/ MigrateIncoming(c)
    <2>1. CASE Go(c, "failed")
      BY <1>1, <1>6, <2>1 DEF Migrate, MigrateIncoming, Active
    <2>2. CASE ~ Go(c, "failed")
      <3>1. VM(c) \in VMs /\ mig[VM(c)].status # "active" /\ mig'[VM(c)].status = "active"
        BY <1>t, <1>6, <2>2 DEF Migrate, MigrateIncoming, TypeOK, VM
      <3> QED BY <3>1
    <2> QED BY <2>1, <2>2
  <1> QED BY <1>2, <1>3, <1>4, <1>5, <1>6 DEF ClientStep

\* Nobody else has a command under way on c's VM.
LEMMA AloneLemma ==
    ASSUME SessionInv, NEW c \in Clients, pc[c] \in Active, NEW d \in Clients, d # c, VM(d) = VM(c)
    PROVE  pc[d] \notin Active
  BY DEF SessionInv, OneCommand

\* save starts its migration.
LEMMA SessionMigrateLemma ==
    ASSUME SessionInv, CheckpointInv', NEW c \in Clients, Migrate(c), ~ Go(c, "failed")
    PROVE  SessionInv'
  <1> DEFINE v == VM(c)  f == File(c)
  <1>t. TypeOK /\ v \in VMs /\ f \in Files /\ pc[c] = "migrate" /\ pc[c] \in Active
    BY DEF SessionInv, CheckpointInv, TypeOK, VM, File, Migrate, Active
  <1>0. /\ run[v] \in {"running", "paused"}
        /\ Go(c, "query-migrate") /\ UNCHANGED <<args, run, loaded>>
        /\ args[c].op = "save"
    BY <1>t DEF Migrate, SessionInv, RestoreInv, TypeOK
  <1>1. /\ mig'[v].status = "active" /\ mig'[v].file = f /\ mig'[v].was = run[v]
        /\ \A w \in VMs : w # v => mig'[w] = mig[w]
    BY <1>t DEF Migrate, TypeOK
  <1>2. /\ file'[f].save = c /\ file'[f].of = v /\ ~ file'[f].complete
        /\ \A g \in Files : g # f => file'[g] = file[g]
    BY <1>t DEF Migrate, TypeOK
  <1>3. pc'[c] = "query-migrate" /\ \A d \in Clients : d # c => pc'[d] = pc[d]
    BY <1>0, <1>t DEF Go, TypeOK
  <1>4. OneCommand'
    BY <1>0, <1>t, BusyLemma DEF Go, Active, SessionInv
  <1>5. SourceInv'
    BY <1>0, <1>2 DEF SessionInv, SourceInv, SourceIsStopped
  <1>6. SaveInv(c)' /\ RestoreInv(c)'
    BY <1>0, <1>1, <1>2, <1>3 DEF SaveInv, RestoreInv, VM, File
  <1>7. ASSUME NEW d \in Clients, d # c PROVE SaveInv(d)' /\ RestoreInv(d)'
    <2>1. SaveInv(d) /\ RestoreInv(d) /\ VM(d) \in VMs /\ File(d) \in Files
      BY <1>t DEF SessionInv, TypeOK, VM, File
    <2>2. file'[File(d)].save = d => file'[File(d)] = file[File(d)]
      BY <1>2, <1>7, <2>1
    <2>3. CASE VM(d) = v
      <3>1. pc[d] \notin Active
        BY <1>t, <1>7, <2>3, AloneLemma
      <3>2. pc[d] \notin {"query-migrate", "quit", "query-status", "cont", "migrate", "migrate-incoming"}
        BY <3>1 DEF Active
      <3> QED BY <1>0, <1>1, <1>3, <1>7, <2>1, <2>2, <2>3, <3>2
              DEF SaveInv, RestoreInv, Kept, Outgoing, VM, File
    <2>4. CASE VM(d) # v
      BY <1>0, <1>1, <1>3, <1>7, <2>1, <2>2, <2>4 DEF SaveInv, RestoreInv, Kept, Outgoing, VM, File
    <2> QED BY <2>3, <2>4
  <1> QED BY <1>4, <1>5, <1>6, <1>7 DEF SessionInv

\* restore starts to load.
LEMMA SessionIncomingLemma ==
    ASSUME SessionInv, CheckpointInv', NEW c \in Clients, MigrateIncoming(c), ~ Go(c, "failed")
    PROVE  SessionInv'
  <1> DEFINE v == VM(c)
  <1>t. TypeOK /\ v \in VMs /\ pc[c] = "migrate-incoming" /\ pc[c] \in Active
    BY DEF SessionInv, CheckpointInv, TypeOK, VM, MigrateIncoming, Active
  <1>0. /\ run[v] = "inmigrate"
        /\ Go(c, "query-migrate") /\ UNCHANGED <<args, run, file, loaded>>
        /\ args[c].op = "restore"
    BY <1>t DEF MigrateIncoming, SessionInv, SaveInv, TypeOK
  <1>1. /\ mig'[v].status = "active"
        /\ \A w \in VMs : w # v => mig'[w] = mig[w]
    BY <1>t DEF MigrateIncoming, TypeOK
  <1>2. pc'[c] = "query-migrate" /\ \A d \in Clients : d # c => pc'[d] = pc[d]
    BY <1>0, <1>t DEF Go, TypeOK
  <1>3. OneCommand'
    BY <1>0, <1>t, BusyLemma DEF Go, Active, SessionInv
  <1>4. SourceInv'
    BY <1>0 DEF SessionInv, SourceInv, SourceIsStopped
  <1>5. SaveInv(c)' /\ RestoreInv(c)'
    BY <1>0, <1>1, <1>2 DEF SaveInv, RestoreInv, VM, File
  <1>6. ASSUME NEW d \in Clients, d # c PROVE SaveInv(d)' /\ RestoreInv(d)'
    <2>1. SaveInv(d) /\ RestoreInv(d) /\ VM(d) \in VMs
      BY <1>t DEF SessionInv, TypeOK, VM
    <2>2. CASE VM(d) = v
      <3>1. pc[d] \notin {"query-migrate", "quit", "query-status", "cont", "migrate", "migrate-incoming"}
        BY <1>t, <1>6, <2>2, AloneLemma DEF Active
      <3> QED BY <1>0, <1>2, <1>6, <2>1, <2>2, <3>1 DEF SaveInv, RestoreInv, Kept, VM, File
    <2>3. CASE VM(d) # v
      BY <1>0, <1>1, <1>2, <1>6, <2>1, <2>3 DEF SaveInv, RestoreInv, Kept, Outgoing, VM, File
    <2> QED BY <2>2, <2>3
  <1> QED BY <1>3, <1>4, <1>5, <1>6 DEF SessionInv

\* save sends quit, and restore continues its VM.
LEMMA SessionEndLemma ==
    ASSUME SessionInv, CheckpointInv', NEW c \in Clients, Quit(c) \/ (Cont(c) /\ ~ Go(c, "failed"))
    PROVE  SessionInv'
  <1> DEFINE v == VM(c)
  <1>t. TypeOK /\ v \in VMs /\ pc[c] \in {"quit", "cont"} /\ pc[c] \in Active
    BY DEF SessionInv, CheckpointInv, TypeOK, VM, Quit, Cont, Active
  <1>s. SaveInv(c) /\ RestoreInv(c)
    BY DEF SessionInv
  <1>0. Go(c, "ok") /\ UNCHANGED <<args, mig, file, loaded>>
    BY DEF Quit, Cont
  <1>1. PICK state \in {"exited", "running"} :
          /\ run' = [run EXCEPT ![v] = state]
          /\ state = "exited" => args[c].op = "save" /\ pc[c] = "quit"
          /\ state = "running" => args[c].op = "restore" /\ pc[c] = "cont" /\ run[v] \in {"running", "paused"}
    BY <1>s, <1>t DEF Quit, Cont, SaveInv, RestoreInv, TypeOK
  <1>2. run'[v] = state /\ \A w \in VMs : w # v => run'[w] = run[w]
    BY <1>1, <1>t DEF TypeOK
  <1>3. pc'[c] = "ok" /\ \A d \in Clients : d # c => pc'[d] = pc[d]
    BY <1>0, <1>t DEF Go, TypeOK
  <1>4. OneCommand'
    BY <1>0, <1>t, BusyLemma DEF Go, Ended, SessionInv
  <1>5. \A w \in VMs : run[w] \in Stopped => run'[w] \in Stopped
    BY <1>1, <1>2 DEF Stopped
  <1>6. SourceInv'
    BY <1>0, <1>5, <1>t DEF SessionInv, SourceInv, SourceIsStopped, Stopped, TypeOK
  <1>7. SaveInv(c)' /\ RestoreInv(c)'
    BY <1>0, <1>1, <1>2, <1>3, <1>s DEF SaveInv, RestoreInv, Kept, Outgoing, VM, File
  <1>8. ASSUME NEW d \in Clients, d # c PROVE SaveInv(d)' /\ RestoreInv(d)'
    <2>1. SaveInv(d) /\ RestoreInv(d) /\ VM(d) \in VMs
      BY <1>t DEF SessionInv, TypeOK, VM
    <2>2. CASE VM(d) = v
      <3>1. pc[d] \notin {"query-migrate", "quit", "query-status", "cont", "migrate", "migrate-incoming"}
        BY <1>t, <1>8, <2>2, AloneLemma DEF Active
      <3>2. state = "running" => mig[v].status = "completed"
        BY <1>1, <1>s DEF RestoreInv
      <3> QED BY <1>0, <1>1, <1>2, <1>3, <1>8, <2>1, <2>2, <3>1, <3>2
              DEF SaveInv, RestoreInv, Kept, Outgoing, VM, File
    <2>3. CASE VM(d) # v
      BY <1>0, <1>2, <1>3, <1>8, <2>1, <2>3 DEF SaveInv, RestoreInv, Kept, Outgoing, VM, File
    <2> QED BY <2>2, <2>3
  <1> QED BY <1>4, <1>6, <1>7, <1>8 DEF SessionInv

\* QEMU's steps: the commands stay where they are.
LEMMA SessionQEMULemma ==
    ASSUME SessionInv, CheckpointInv', NEW v \in VMs,
           Switchover(v) \/ Completed(v) \/ Failed(v) \/ Load(v) \/ Crash(v)
    PROVE  SessionInv'
  <1>t. TypeOK /\ MigrationInv(v) /\ mig[v] \in Migrations /\ SourceInv
    BY DEF SessionInv, CheckpointInv, TypeOK
  <1>0. UNCHANGED <<args, pc>>
    BY DEF Switchover, Completed, Failed, Load, Crash
  <1>1. OneCommand'
    BY <1>0 DEF SessionInv, OneCommand, VM
  <1>c. \A d \in Clients : SaveInv(d) /\ RestoreInv(d) /\ VM(d) \in VMs /\ File(d) \in Files
    BY <1>t DEF SessionInv, TypeOK, VM, File
  <1>2. CASE Switchover(v) \/ Crash(v)
    <2>1. PICK state \in {"finish-migrate", "exited"} :
            /\ run' = [run EXCEPT ![v] = state]
            /\ state = "finish-migrate" => mig[v].status = "active" /\ run[v] \in {"running", "paused"}
            /\ UNCHANGED <<mig, file, loaded>>
      BY <1>2 DEF Switchover, Crash
    <2>2. run'[v] = state /\ \A w \in VMs : w # v => run'[w] = run[w]
      BY <2>1, <1>t DEF TypeOK
    <2>3. \A w \in VMs : run[w] \in Stopped => run'[w] \in Stopped
      BY <2>1, <2>2 DEF Stopped
    <2>4. SourceInv'
      BY <1>t, <2>1, <2>3 DEF SourceInv, SourceIsStopped, Stopped, TypeOK
    <2>5. ASSUME NEW d \in Clients PROVE SaveInv(d)' /\ RestoreInv(d)'
      <3>1. SaveInv(d) /\ RestoreInv(d) /\ VM(d) \in VMs
        BY <1>c
      <3>2. CASE VM(d) = v
        BY <1>0, <2>1, <2>2, <3>1, <3>2 DEF SaveInv, RestoreInv, Kept, Outgoing, VM, File, Stopped
      <3>3. CASE VM(d) # v
        BY <1>0, <2>1, <2>2, <3>1, <3>3 DEF SaveInv, RestoreInv, Kept, Outgoing, VM, File
      <3> QED BY <3>2, <3>3
    <2> QED BY <1>1, <2>4, <2>5 DEF SessionInv
  <1>3. CASE Completed(v)
    <2> DEFINE f == mig[v].file
    <2>0. f \in Files /\ run[v] = "finish-migrate" /\ mig[v].status = "active" /\ loaded' = loaded
      BY <1>3, <1>t DEF Completed, MigrationInv
    <2>1. /\ run'[v] = "postmigrate" /\ \A w \in VMs : w # v => run'[w] = run[w]
          /\ mig'[v].status = "completed" /\ mig'[v].file = f
          /\ \A w \in VMs : w # v => mig'[w] = mig[w]
      BY <1>3, <1>t DEF Completed, TypeOK, Migrations
    <2>2. \A g \in Files :
            /\ file'[g].save = file[g].save /\ file'[g].of = file[g].of /\ file'[g].mixed = file[g].mixed
            /\ file'[g].complete <=> file[g].complete \/ (g = f /\ Own(v, f))
      <3>1. file[f] \in Contents
        BY <1>t, <2>0 DEF TypeOK
      <3>2. CASE Own(v, f)
        <4>1. file' = [file EXCEPT ![f].complete = TRUE]
          BY <1>3, <3>2 DEF Completed
        <4>2. \A g \in Files : g # f => file'[g] = file[g]
          BY <1>t, <4>1 DEF TypeOK
        <4>3. /\ file'[f].save = file[f].save /\ file'[f].of = file[f].of
              /\ file'[f].mixed = file[f].mixed /\ file'[f].complete
          BY <1>t, <2>0, <3>1, <4>1 DEF TypeOK, Contents
        <4> QED BY <3>2, <4>2, <4>3
      <3>3. CASE ~ Own(v, f)
        BY <1>3, <3>3 DEF Completed
      <3> QED BY <3>2, <3>3
    <2>3. \A w \in VMs : run[w] \in Stopped => run'[w] \in Stopped
      BY <2>1 DEF Stopped
    <2>4. SourceInv'
      <3>1. ASSUME NEW g \in Files, file'[g].complete
            PROVE  file'[g].of \in VMs /\ run'[file'[g].of] \in Stopped
        <4>1. CASE file[g].complete
          BY <1>t, <2>2, <2>3, <4>1 DEF SourceInv
        <4>2. CASE g = f /\ file[f].of = v
          BY <2>1, <2>2, <4>2 DEF Stopped
        <4> QED BY <2>2, <3>1, <4>1, <4>2 DEF Own
      <3>2. SourceIsStopped'
        BY <1>t, <2>0, <2>3 DEF SourceInv, SourceIsStopped, Stopped, TypeOK
      <3> QED BY <3>1, <3>2 DEF SourceInv
    <2>5. ASSUME NEW d \in Clients PROVE SaveInv(d)' /\ RestoreInv(d)'
      <3>1. SaveInv(d) /\ RestoreInv(d) /\ VM(d) \in VMs /\ File(d) \in Files
        BY <1>c
      <3>2. Kept(d) => Kept(d)'
        BY <1>0, <2>2, <3>1 DEF Kept, File
      <3>3. CASE VM(d) = v
        <4>1. SaveInv(d)'
          <5>1. (args[d].op = "save" /\ pc[d] = "query-migrate") => Kept(d)'
            BY <1>0, <2>0, <2>2, <3>1, <3>3 DEF SaveInv, Kept, Own, File
          <5> QED BY <1>0, <2>0, <2>1, <2>2, <3>1, <3>3, <5>1 DEF SaveInv, VM, File, Stopped
        <4>2. RestoreInv(d)'
          BY <1>0, <2>0, <2>1, <3>1, <3>3 DEF RestoreInv, VM, Outgoing
        <4> QED BY <4>1, <4>2
      <3>4. CASE VM(d) # v
        <4>1. SaveInv(d)'
          BY <1>0, <2>1, <2>2, <3>1, <3>2, <3>4 DEF SaveInv, VM, File
        <4>2. RestoreInv(d)'
          BY <1>0, <2>0, <2>1, <3>1, <3>4 DEF RestoreInv, VM, Outgoing
        <4> QED BY <4>1, <4>2
      <3> QED BY <3>3, <3>4
    <2> QED BY <1>1, <2>4, <2>5 DEF SessionInv
  <1>4. CASE Failed(v)
    <2>0. UNCHANGED <<file, loaded>> /\ mig[v].status = "active" /\ Outgoing(v) /\ run[v] \notin Stopped
      BY <1>4 DEF Failed, Outgoing, Stopped
    <2>1. /\ run'[v] = mig[v].was /\ \A w \in VMs : w # v => run'[w] = run[w]
          /\ mig'[v].status = "failed" /\ mig'[v].file = mig[v].file
          /\ \A w \in VMs : w # v => mig'[w] = mig[w]
          /\ mig[v].was \in {"running", "paused"}
      BY <1>4, <1>t DEF Failed, TypeOK, Migrations
    <2>2. \A w \in VMs : run[w] \in Stopped => run'[w] = run[w]
      BY <2>0, <2>1
    <2>3. SourceInv'
      BY <1>t, <2>0, <2>2 DEF SourceInv, SourceIsStopped, Stopped, TypeOK
    <2>4. ASSUME NEW d \in Clients PROVE SaveInv(d)' /\ RestoreInv(d)'
      <3>1. SaveInv(d) /\ RestoreInv(d) /\ VM(d) \in VMs
        BY <1>c
      <3>2. CASE VM(d) = v
        BY <1>0, <2>0, <2>1, <3>1, <3>2 DEF SaveInv, RestoreInv, Kept, Outgoing, VM, File, Stopped
      <3>3. CASE VM(d) # v
        BY <1>0, <2>0, <2>1, <3>1, <3>3 DEF SaveInv, RestoreInv, Kept, Outgoing, VM, File
      <3> QED BY <3>2, <3>3
    <2> QED BY <1>1, <2>3, <2>4 DEF SessionInv
  <1>5. CASE Load(v)
    <2> DEFINE f == mig[v].file
    <2>0. /\ file' = file /\ mig[v].status = "active" /\ f \in Files /\ run[v] = "inmigrate"
          /\ run[v] \notin Stopped
      BY <1>5, <1>t DEF Load, MigrationInv, Stopped
    <2>1. file[f].was \in {"running", "paused"}
      BY <1>t, <2>0 DEF TypeOK, Contents
    <2>2. PICK state \in {"running", "paused", "inmigrate", "exited"}, status \in {"completed", "failed"} :
            /\ run'[v] = state /\ mig'[v].status = status /\ mig'[v].file = f
            /\ status = "completed" => /\ state \in {"running", "paused"}
                                       /\ loaded'[v] = file[f].of /\ file[f].complete
            /\ status = "failed" => state \in {"inmigrate", "exited"} /\ loaded' = loaded
      <3>1. CASE mig' = [mig EXCEPT ![v].status = "completed"]
        BY <1>5, <1>t, <2>0, <2>1, <3>1 DEF Load, TypeOK, Migrations
      <3>2. CASE mig' = [mig EXCEPT ![v].status = "failed"]
        BY <1>5, <1>t, <2>0, <3>2 DEF Load, TypeOK, Migrations
      <3> QED BY <1>5, <3>1, <3>2 DEF Load
    <2>3. \A w \in VMs : w # v => run'[w] = run[w] /\ mig'[w] = mig[w] /\ loaded'[w] = loaded[w]
      BY <1>5, <1>t DEF Load, TypeOK
    <2>4. status = "completed" => file[f].of \in VMs /\ run[file[f].of] \in Stopped /\ file[f].of # v
      BY <1>t, <2>0, <2>2 DEF SourceInv
    <2>5. \A w \in VMs : run[w] \in Stopped => run'[w] = run[w]
      BY <2>0, <2>3
    <2>6. SourceInv'
      <3>1. \A g \in Files : file'[g].complete => file'[g].of \in VMs /\ run'[file'[g].of] \in Stopped
        BY <1>t, <2>0, <2>5 DEF SourceInv
      <3>2. ASSUME NEW w \in VMs, loaded'[w] # Nobody PROVE run'[loaded'[w]] \in Stopped
        <4>1. CASE loaded'[w] = loaded[w]
          BY <1>t, <2>5, <3>2, <4>1 DEF SourceInv, SourceIsStopped, Stopped, TypeOK
        <4>2. CASE w = v /\ status = "completed"
          BY <2>2, <2>4, <2>5, <4>2
        <4> QED BY <2>2, <2>3, <4>1, <4>2
      <3> QED BY <3>1, <3>2 DEF SourceInv, SourceIsStopped, Stopped
    <2>7. ASSUME NEW d \in Clients PROVE SaveInv(d)' /\ RestoreInv(d)'
      <3>1. SaveInv(d) /\ RestoreInv(d) /\ VM(d) \in VMs
        BY <1>c
      <3>2. CASE VM(d) = v
        <4>1. status = "completed" => loaded'[v] # Nobody
          BY <2>2, <2>4
        <4> QED BY <1>0, <2>0, <2>2, <3>1, <3>2, <4>1
                DEF SaveInv, RestoreInv, Kept, Outgoing, VM, File, Stopped
      <3>3. CASE VM(d) # v
        BY <1>0, <2>0, <2>3, <3>1, <3>3 DEF SaveInv, RestoreInv, Kept, Outgoing, VM, File
      <3> QED BY <3>2, <3>3
    <2> QED BY <1>1, <2>6, <2>7 DEF SessionInv
  <1> QED BY <1>2, <1>3, <1>4, <1>5

\* With one monitor per VM, SessionInv holds in every state.
THEOREM SessionInductive ==
    ASSUME Sessions = 1
    PROVE  Spec => []SessionInv
  <1>1. SessionInv /\ [Next]_vars => SessionInv'
    <2> SUFFICES ASSUME SessionInv, [Next]_vars PROVE SessionInv'
      OBVIOUS
    <2>0. CheckpointInv'
      <3>1. CheckpointInv
        BY DEF SessionInv
      <3> QED BY <3>1, StepLemma
    <2>1. ASSUME NEW c \in Clients, ClientStep(c) \/ Deadline(c) \/ Kill(c) PROVE SessionInv'
      <3>1. CASE Migrate(c) /\ ~ Go(c, "failed")
        BY <2>0, <3>1, SessionMigrateLemma
      <3>2. CASE MigrateIncoming(c) /\ ~ Go(c, "failed")
        BY <2>0, <3>2, SessionIncomingLemma
      <3>3. CASE Quit(c) \/ (Cont(c) /\ ~ Go(c, "failed"))
        BY <2>0, <3>3, SessionEndLemma
      <3>4. CASE /\ UNCHANGED <<run, mig, file>>
                 /\ ~ Quit(c) /\ (Cont(c) => Go(c, "failed"))
        BY <2>0, <2>1, <3>4, SessionMoveLemma
      <3>5. Migrate(c) \/ MigrateIncoming(c) \/ Quit(c) \/ Cont(c) \/ UNCHANGED <<run, mig, file>>
        BY <2>1 DEF ClientStep, Dial, ReadError, WaitMigration, QueryStatus, Deadline, Kill
      <3>6. CASE (Migrate(c) \/ MigrateIncoming(c) \/ Cont(c)) /\ Go(c, "failed")
        <4>1. pc[c] \in Active /\ pc'[c] = "failed" /\ pc[c] # "quit" /\ UNCHANGED <<run, mig, file>>
          BY <3>6 DEF Migrate, MigrateIncoming, Cont, Go, Active, SessionInv, CheckpointInv, TypeOK
        <4> QED BY <3>4, <3>6, <4>1 DEF Quit
      <3> QED BY <3>1, <3>2, <3>3, <3>4, <3>5, <3>6
    <2>2. CASE \E v \in VMs : Switchover(v) \/ Completed(v) \/ Failed(v) \/ Load(v) \/ Crash(v)
      BY <2>0, <2>2, SessionQEMULemma
    <2>3. CASE Terminating \/ UNCHANGED vars
      <3>1. UNCHANGED <<args, pc, run, mig, file, loaded>>
        BY <2>3 DEF Terminating, vars
      <3> QED BY <2>0, <3>1 DEF SessionInv, OneCommand, SaveInv, RestoreInv, SourceInv, SourceIsStopped,
                               Kept, Outgoing, VM, File
    <2> QED BY <2>1, <2>2, <2>3 DEF Next
  <1> QED BY <1>1, SessionInitLemma, PTL DEF Spec

\* With one monitor per VM, once save says so the VM never runs again and the file holds its
\* whole state until another save is pointed at the same path.
THEOREM SavesAreComplete ==
    ASSUME Sessions = 1
    PROVE  Spec => []SavedIsComplete
  <1>1. SessionInv => SavedIsComplete
    BY DEF SessionInv, SaveInv, SavedIsComplete, Saved, Kept, Stopped
  <1> QED BY <1>1, SessionInductive, PTL

\* With one monitor per VM, a VM resumed from a checkpoint never runs beside the VM it was
\* taken of.
THEOREM SourcesAreStopped ==
    ASSUME Sessions = 1
    PROVE  Spec => []SourceIsStopped
  <1>1. SessionInv => SourceIsStopped
    BY DEF SessionInv, SourceInv
  <1> QED BY <1>1, SessionInductive, PTL

\* With one monitor per VM, a restore that reports success leaves a VM that was given a
\* whole state and was running then.
THEOREM RestoresRun ==
    ASSUME Sessions = 1
    PROVE  Spec => []RestoredRuns
  <1>1. SessionInv => RestoredRuns
    BY DEF SessionInv, RestoreInv, RestoredRuns
  <1> QED BY <1>1, SessionInductive, PTL
=============================================================================
