---------------------------- MODULE Checkpoint ----------------------------
(***************************************************************************)
(* `spin-machine save` and `spin-machine restore`: a VM's state written to *)
(* a file by an outgoing migration, and loaded by a VM that was booted     *)
(* with --incoming defer (cmd/spin-machine/main.go).                       *)
(*                                                                         *)
(* A client is one invocation.  qmpConn.run is one step here: the commands *)
(* read no event, so a slow request or a slow reply is a slow client.      *)
(* QEMU - run state, migration, the file it writes - is external.          *)
(***************************************************************************)
EXTENDS Naturals, FiniteSets

CONSTANTS Clients,   \* invocations of save and restore
          VMs,       \* QEMU processes
          Files,     \* paths given as --to and --from
          Nobody,    \* no client, no VM, no file
          Sessions,  \* how many monitors each VM has (Spec.Monitors): clients served at once
          Started    \* the command lines the clients may be started with

Args == [op : {"save", "restore"}, vm : VMs, file : Files]

ASSUME CheckpointAssumption ==
    /\ Nobody \notin Clients \cup VMs \cup Files
    /\ IsFiniteSet(Clients)
    /\ Sessions \in Nat \ {0}
    /\ Started \subseteq [Clients -> Args]

VARIABLES
    args,   \* args[c]: c's command line; fixed when c is started
    pc,     \* pc[c]: the QMP command c sends next, or how c ended
    run,    \* run[v]: QEMU's run state
    mig,    \* mig[v]: what query-migrate says of v, and of which file
    file,   \* file[f]: what is in f: whose save, of which VM, whether all of it, and
            \* whether two migrations wrote to it at once
    loaded  \* loaded[v]: the VM whose state v was given, or Nobody

vars == <<args, pc, run, mig, file, loaded>>

Active == {"migrate", "query-migrate", "quit", "migrate-incoming", "query-status", "cont"}
Ended == {"ok", "failed", "killed"}
RunStates == {"running", "paused", "inmigrate", "finish-migrate", "postmigrate", "exited"}

\* A VM's last migration, and whether the guest ran when it began.
Migrations == [status : {"none", "active", "completed", "failed"},
               file : Files \cup {Nobody}, was : {"running", "paused"}]

Contents == [save : Clients \cup {Nobody}, of : VMs \cup {Nobody},
             complete : BOOLEAN, mixed : BOOLEAN, was : {"running", "paused"}]

TypeOK ==
    /\ args \in [Clients -> Args]
    /\ pc \in [Clients -> {"dial"} \cup Active \cup Ended]
    /\ run \in [VMs -> RunStates]
    /\ mig \in [VMs -> Migrations]
    /\ file \in [Files -> Contents]
    /\ loaded \in [VMs -> VMs \cup {Nobody}]

\* VMs run, were paused by their owner, or wait for a state.
Init ==
    /\ args \in Started
    /\ pc = [c \in Clients |-> "dial"]
    /\ run \in [VMs -> {"running", "paused", "inmigrate"}]
    /\ mig = [v \in VMs |-> [status |-> "none", file |-> Nobody, was |-> "running"]]
    /\ file = [f \in Files |-> [save |-> Nobody, of |-> Nobody, complete |-> FALSE,
                                mixed |-> FALSE, was |-> "running"]]
    /\ loaded = [v \in VMs |-> Nobody]

VM(c) == args[c].vm
File(c) == args[c].file
Go(c, where) == pc' = [pc EXCEPT ![c] = where]

-----------------------------------------------------------------------------
(* save and restore.                                                        *)

\* dialQMP: served while a monitor is free, and out of time otherwise.
Dial(c) ==
    /\ pc[c] = "dial"
    /\ \/ /\ run[VM(c)] # "exited"
          /\ Cardinality({d \in Clients : VM(d) = VM(c) /\ pc[d] \in Active}) < Sessions
          /\ Go(c, IF args[c].op = "save" THEN "migrate" ELSE "migrate-incoming")
       \/ Go(c, "failed")
    /\ UNCHANGED <<args, run, mig, file, loaded>>

\* The connection breaks: every run() but the quit of a save returns the error.
ReadError(c) ==
    /\ pc[c] \in Active \ {"quit"}
    /\ run[VM(c)] = "exited"
    /\ Go(c, "failed")
    /\ UNCHANGED <<args, run, mig, file, loaded>>

Kill(c) ==
    /\ pc[c] \in Active
    /\ Go(c, "killed")
    /\ UNCHANGED <<args, run, mig, file, loaded>>

\* v's outgoing migration has f open.
Writing(v, f) == mig[v].status = "active" /\ mig[v].file = f /\ run[v] \notin {"inmigrate", "exited"}

\* save: `migrate` to the file.  QEMU refuses a second migration, a VM that has none to
\* give, and anything else it likes; what it starts truncates the file.
Migrate(c) ==
    /\ pc[c] = "migrate"
    /\ run[VM(c)] # "exited"
    /\ \/ /\ run[VM(c)] \in {"running", "paused"}
          /\ mig[VM(c)].status # "active"
          /\ mig' = [mig EXCEPT ![VM(c)] = [status |-> "active", file |-> File(c), was |-> run[VM(c)]]]
          /\ file' = [file EXCEPT ![File(c)] =
                        [save |-> c, of |-> VM(c), complete |-> FALSE,
                         mixed |-> \E v \in VMs : Writing(v, File(c)), was |-> run[VM(c)]]]
          /\ Go(c, "query-migrate")
       \/ Go(c, "failed") /\ UNCHANGED <<mig, file>>
    /\ UNCHANGED <<args, run, loaded>>

\* restore: `migrate-incoming` from the file.
MigrateIncoming(c) ==
    /\ pc[c] = "migrate-incoming"
    /\ run[VM(c)] # "exited"
    /\ \/ /\ run[VM(c)] = "inmigrate"
          /\ mig[VM(c)].status # "active"
          /\ mig' = [mig EXCEPT ![VM(c)] = [status |-> "active", file |-> File(c), was |-> @.was]]
          /\ Go(c, "query-migrate")
       \/ Go(c, "failed") /\ UNCHANGED mig
    /\ UNCHANGED <<args, run, file, loaded>>

\* Mutant: any end of the migration ends the wait well.
WaitMigrationAnyEnd(c) ==
    /\ pc[c] = "query-migrate"
    /\ run[VM(c)] # "exited"
    /\ mig[VM(c)].status \in {"completed", "failed"}
    /\ Go(c, IF args[c].op = "save" THEN "quit" ELSE "query-status")
    /\ UNCHANGED <<args, run, mig, file, loaded>>

\* waitMigration: poll until the migration in flight, whichever it is, has an end.
WaitMigration(c) ==
    /\ pc[c] = "query-migrate"
    /\ run[VM(c)] # "exited"
    /\ \/ /\ mig[VM(c)].status = "completed"
          /\ Go(c, IF args[c].op = "save" THEN "quit" ELSE "query-status")
       \/ /\ mig[VM(c)].status = "failed"
          /\ Go(c, "failed")
    /\ UNCHANGED <<args, run, mig, file, loaded>>

\* Mutants: the deadline tidies up the file; there is no deadline.
DeadlineRemoves(c) ==
    /\ pc[c] = "query-migrate"
    /\ mig[VM(c)].status \notin {"completed", "failed"}
    /\ Go(c, "failed")
    /\ file' = [file EXCEPT ![File(c)] = [@ EXCEPT !.save = Nobody, !.of = Nobody, !.complete = FALSE]]
    /\ UNCHANGED <<args, run, mig, loaded>>
WaitForever(c) == pc[c] = "query-migrate" /\ FALSE

\* waitMigration: the deadline passes on a migration that goes on.  Nothing cancels it.
Deadline(c) ==
    /\ pc[c] = "query-migrate"
    /\ mig[VM(c)].status \notin {"completed", "failed"}
    /\ Go(c, "failed")
    /\ UNCHANGED <<args, run, mig, file, loaded>>

\* Mutant: save resumes the VM it has saved.
QuitResumes(c) ==
    /\ pc[c] = "quit"
    /\ run[VM(c)] # "exited"
    /\ run' = [run EXCEPT ![VM(c)] = "running"]
    /\ Go(c, "ok")
    /\ UNCHANGED <<args, mig, file, loaded>>

\* save: "saved to" is printed and quit sent; the reply, or its loss, changes nothing.
Quit(c) ==
    /\ pc[c] = "quit"
    /\ run' = [run EXCEPT ![VM(c)] = "exited"]
    /\ Go(c, "ok")
    /\ UNCHANGED <<args, mig, file, loaded>>

\* Mutant: a loaded state is taken for a running VM.
QueryStatusSkipped(c) ==
    /\ pc[c] = "query-status"
    /\ Go(c, "ok")
    /\ UNCHANGED <<args, run, mig, file, loaded>>

\* restore: a VM that arrived running is left to run.
QueryStatus(c) ==
    /\ pc[c] = "query-status"
    /\ run[VM(c)] # "exited"
    /\ Go(c, IF run[VM(c)] = "running" THEN "ok" ELSE "cont")
    /\ UNCHANGED <<args, run, mig, file, loaded>>

\* restore: one that arrived paused is continued, if QEMU will.  It will also continue a VM
\* that a completed save has stopped.
Cont(c) ==
    /\ pc[c] = "cont"
    /\ run[VM(c)] # "exited"
    /\ \/ /\ run[VM(c)] \in {"paused", "running", "postmigrate"}
          /\ run' = [run EXCEPT ![VM(c)] = "running"]
          /\ Go(c, "ok")
       \/ Go(c, "failed") /\ UNCHANGED run
    /\ UNCHANGED <<args, mig, file, loaded>>

ClientStep(c) ==
    \/ Dial(c) \/ ReadError(c) \/ Migrate(c) \/ MigrateIncoming(c) \/ WaitMigration(c)
    \/ Quit(c) \/ QueryStatus(c) \/ Cont(c)

-----------------------------------------------------------------------------
(* QEMU (external).                                                         *)

\* The outgoing migration stops the guest for its last pass.
Switchover(v) ==
    /\ mig[v].status = "active"
    /\ run[v] \in {"running", "paused"}
    /\ run' = [run EXCEPT ![v] = "finish-migrate"]
    /\ UNCHANGED <<args, pc, mig, file, loaded>>

Own(v, f) == file[f].of = v /\ ~ file[f].mixed

\* The last byte is written: the file is whole if it is this VM's alone.
Completed(v) ==
    /\ run[v] = "finish-migrate"
    /\ run' = [run EXCEPT ![v] = "postmigrate"]
    /\ mig' = [mig EXCEPT ![v].status = "completed"]
    /\ file' = IF Own(v, mig[v].file) THEN [file EXCEPT ![mig[v].file].complete = TRUE] ELSE file
    /\ UNCHANGED <<args, pc, loaded>>

\* It fails before or after the switchover: the guest goes on, the file stays truncated.
Failed(v) ==
    /\ mig[v].status = "active"
    /\ run[v] \in {"running", "paused", "finish-migrate"}
    /\ run' = [run EXCEPT ![v] = mig[v].was]
    /\ mig' = [mig EXCEPT ![v].status = "failed"]
    /\ UNCHANGED <<args, pc, file, loaded>>

\* The incoming migration: a complete state arrives as it was saved; one that is not, or
\* cannot be loaded, ends in "failed" or takes QEMU with it.
Load(v) ==
    /\ mig[v].status = "active"
    /\ run[v] = "inmigrate"
    /\ \/ /\ file[mig[v].file].complete
          /\ run' = [run EXCEPT ![v] = file[mig[v].file].was]
          /\ mig' = [mig EXCEPT ![v].status = "completed"]
          /\ loaded' = [loaded EXCEPT ![v] = file[mig[v].file].of]
       \/ /\ run' \in {run, [run EXCEPT ![v] = "exited"]}
          /\ mig' = [mig EXCEPT ![v].status = "failed"]
          /\ UNCHANGED loaded
    /\ UNCHANGED <<args, pc, file>>

\* QEMU is killed or crashes.
Crash(v) ==
    /\ run[v] # "exited"
    /\ run' = [run EXCEPT ![v] = "exited"]
    /\ UNCHANGED <<args, pc, mig, file, loaded>>

Terminating == (\A c \in Clients : pc[c] \in Ended) /\ UNCHANGED vars

Next ==
    \/ \E c \in Clients : ClientStep(c) \/ Deadline(c) \/ Kill(c)
    \/ \E v \in VMs : Switchover(v) \/ Completed(v) \/ Failed(v) \/ Load(v) \/ Crash(v)
    \/ Terminating

\* The commands are scheduled and their deadlines pass.  No migration need ever end.
Fairness == \A c \in Clients : WF_vars(ClientStep(c)) /\ WF_vars(Deadline(c))

Spec == Init /\ [][Next]_vars
FairSpec == Spec /\ Fairness

-----------------------------------------------------------------------------
(* Properties.                                                              *)

Saved(c) == args[c].op = "save" /\ pc[c] \in {"quit", "ok"}

\* "The state is written and complete; what is left is a stopped VM nobody will resume in
\* place": once save says so the VM never runs again, and the file holds its whole state
\* until another save is pointed at the same path.
SavedIsComplete == \A c \in Clients : Saved(c) =>
    /\ run[VM(c)] \in {"postmigrate", "exited"}
    /\ file[File(c)].save = c => file[File(c)].complete \/ file[File(c)].mixed

\* A VM resumed from a checkpoint never runs beside the VM the checkpoint was taken of,
\* which would be writing to the same disk.
SourceIsStopped == \A v \in VMs : loaded[v] # Nobody => run[loaded[v]] \in {"postmigrate", "exited"}

\* A VM is never left stopped by a save without its state being whole in the file, also
\* when the save itself timed out or died and reported nothing - until another VM's save
\* is pointed at that path.
StoppedIsSaved == \A v \in VMs : run[v] = "postmigrate" =>
    \/ file[mig[v].file].complete \/ file[mig[v].file].mixed
    \/ file[mig[v].file].of \notin {v, Nobody}

\* A restore that succeeded runs: its VM was given a whole state and is not left paused or
\* waiting, however the VM was saved.
RestoredRuns == \A c \in Clients : args[c].op = "restore" /\ pc[c] = "ok" =>
    loaded[VM(c)] # Nobody /\ run[VM(c)] \notin {"paused", "inmigrate"}

\* Every command ends, whether or not the migration it waits for ever does.
EveryCommandEnds == \A c \in Clients : <>(pc[c] \in Ended)

-----------------------------------------------------------------------------
(* The inductive invariants (proved in CheckpointProofs).                   *)

Stopped == {"postmigrate", "exited"}

\* v's state is being written.
Outgoing(v) == mig[v].status = "active" /\ run[v] \in {"running", "paused", "finish-migrate"}

\* Run state, migration status and file agree.
MigrationInv(v) ==
    /\ mig[v].status = "active" => mig[v].file \in Files
    /\ Outgoing(v) => file[mig[v].file].of # Nobody
    /\ run[v] = "finish-migrate" => mig[v].status = "active"
    /\ run[v] = "postmigrate" => mig[v].status = "completed" /\ mig[v].file \in Files

\* What holds however many monitors a VM has.
CheckpointInv ==
    /\ TypeOK
    /\ \A v \in VMs : MigrationInv(v)
    /\ StoppedIsSaved

\* A VM with one monitor has one command at a time.
OneCommand == \A c, d \in Clients :
    pc[c] \in Active /\ pc[d] \in Active /\ VM(c) = VM(d) => c = d

\* c's file is c's no longer, or whole, or beyond anyone's control.
Kept(c) == file[File(c)].save = c => file[File(c)].complete \/ file[File(c)].mixed

\* The migration a save waits for is the one it started.
SaveInv(c) == args[c].op = "save" =>
    /\ pc[c] \notin {"migrate-incoming", "query-status", "cont"}
    /\ file[File(c)].save = c => file[File(c)].of = VM(c)
    /\ pc[c] = "query-migrate" =>
         /\ mig[VM(c)].file = File(c)
         /\ run[VM(c)] # "inmigrate"
         /\ mig[VM(c)].status = "completed" => run[VM(c)] \in Stopped /\ Kept(c)
    /\ pc[c] = "quit" => run[VM(c)] \in Stopped /\ Kept(c)
    /\ pc[c] = "ok" => run[VM(c)] = "exited" /\ Kept(c)

\* The VM a restore loads is nobody else's to save until the restore has ended.
RestoreInv(c) == args[c].op = "restore" =>
    /\ pc[c] \notin {"migrate", "quit"}
    /\ pc[c] \in {"query-migrate", "query-status", "cont"} =>
         /\ run[VM(c)] \in {"inmigrate", "running", "paused", "exited"}
         /\ mig[VM(c)].status = "active" => run[VM(c)] \in {"inmigrate", "exited"}
         /\ mig[VM(c)].status = "completed" => run[VM(c)] # "inmigrate" /\ loaded[VM(c)] # Nobody
    /\ pc[c] \in {"query-status", "cont"} => mig[VM(c)].status = "completed"
    /\ pc[c] = "ok" =>
         /\ loaded[VM(c)] # Nobody
         /\ run[VM(c)] \in {"running", "finish-migrate", "postmigrate", "exited"}
         /\ Outgoing(VM(c)) => mig[VM(c)].was = "running"

\* A whole file is of a VM that is stopped for good.
SourceInv ==
    /\ \A f \in Files : file[f].complete => file[f].of \in VMs /\ run[file[f].of] \in Stopped
    /\ SourceIsStopped

\* What holds when a VM has one monitor.
SessionInv ==
    /\ CheckpointInv
    /\ OneCommand
    /\ \A c \in Clients : SaveInv(c) /\ RestoreInv(c)
    /\ SourceInv
=============================================================================
