---------------------------- MODULE DockerRunner ----------------------------
(***************************************************************************)
(* The supervisor of a fixture in a Docker container, docker_runner.py,    *)
(* with its journal and the Docker daemon.                                 *)
(*                                                                         *)
(* A docker command is a request to the daemon.  Killing the command line  *)
(* client (a timeout, a cancellation, an overflow, a crash) does not take  *)
(* the request back: the daemon performs it, or loses it, at any later     *)
(* time.  An inspection with the journal write that follows it is one      *)
(* step: the write neither reads nor changes what the daemon holds, and a  *)
(* crash between the two equals a crash before both.                       *)
(*                                                                         *)
(* A process may die at any step; the operating system then releases its   *)
(* lock and another process may recover the operation.                     *)
(***************************************************************************)
EXTENDS ExecutionJournal

CONSTANTS
  Procs,          \* the supervising processes
  Nobody          \* an operation lock that is free

ASSUME ProcsAssumption == Nobody \notin Procs

VARIABLES
  owner,      \* operation_lock: who holds the lock of a key
  proc,       \* the local variables of each process
  daemon,     \* the container of a key as the daemon knows it
  inflight    \* the requests the daemon may still perform

vars == <<journal, owner, proc, daemon, inflight>>

RunBody == {"verify", "create", "creating", "configure", "start", "attached",
            "result"}
CleanupBody == {"cleanup", "kill", "recheck", "stop", "remove", "removed"}
Commands == {"create", "start", "kill", "rm"}

\* A container: "absent" before its creation, "removed" after its removal;
\* ran and exit remember what the fixture did.
NoContainer ==
  [state |-> "absent", id |-> None, isolated |-> FALSE, ran |-> FALSE,
   exit |-> "unknown"]

Container ==
  [state : {"absent", "created", "running", "exited", "removed"},
   id : Containers \cup {None}, isolated : BOOLEAN, ran : BOOLEAN,
   exit : {"zero", "other", "unknown"}]

\* rec is the record as the process last read it; verdict the status so far.
Idle ==
  [pc |-> "idle", key |-> None, rec |-> Absent, verdict |-> "FAILED",
   verified |-> FALSE, exit |-> "unknown", stopped |-> FALSE,
   cleaned |-> FALSE, recovering |-> FALSE]

Local ==
  [pc : RunBody \cup CleanupBody \cup {"idle", "settle"},
   key : Keys \cup {None}, rec : Row \cup {Absent}, verdict : Statuses,
   verified : BOOLEAN, exit : {"zero", "other", "unknown"},
   stopped : BOOLEAN, cleaned : BOOLEAN, recovering : BOOLEAN]

Init ==
  /\ JournalInit
  /\ owner = [k \in Keys |-> Nobody]
  /\ proc = [p \in Procs |-> Idle]
  /\ daemon = [k \in Keys |-> NoContainer]
  /\ inflight = [k \in Keys |-> {}]

-----------------------------------------------------------------------------
(* The daemon (external).                                                  *)

Present(k) == daemon[k].state \in {"created", "running", "exited"}

\* _stopped, as an inspection would find it.
Stopped(k) == daemon[k].state \in {"created", "exited"}

\* What a container exits with; a created one reports zero.
ExitCode(k) == IF daemon[k].state = "created" THEN "zero" ELSE daemon[k].exit

Performed(k, command, container) ==
  /\ command \in inflight[k]
  /\ inflight' = [inflight EXCEPT ![k] = @ \ {command}]
  /\ daemon' = [daemon EXCEPT ![k] = container]
  /\ UNCHANGED <<journal, owner, proc>>

\* The isolation asked for is not taken on trust: the daemon may create the
\* container without it.
daemon_create(k) ==
  /\ daemon[k].state = "absent"
  /\ \E c \in Containers, i \in BOOLEAN :
       Performed(k, "create",
         [NoContainer EXCEPT !.state = "created", !.id = c, !.isolated = i])

daemon_start(k) ==
  /\ Stopped(k)
  /\ Performed(k, "start",
       [daemon[k] EXCEPT !.state = "running", !.ran = TRUE])

daemon_kill(k) ==
  /\ daemon[k].state = "running"
  /\ Performed(k, "kill",
       [daemon[k] EXCEPT !.state = "exited", !.exit = "other"])

daemon_rm(k) ==
  /\ Stopped(k)
  /\ Performed(k, "rm", [daemon[k] EXCEPT !.state = "removed"])

\* A request that fails, or that never reached the daemon.
daemon_drop(k) ==
  \E command \in inflight[k] : Performed(k, command, daemon[k])

daemon_exit(k) ==
  /\ daemon[k].state = "running"
  /\ \E e \in {"zero", "other"} :
       daemon' = [daemon EXCEPT ![k].state = "exited", ![k].exit = e]
  /\ UNCHANGED <<journal, owner, proc, inflight>>

\* Someone else removes the container, by force if need be.
daemon_disappear(k) ==
  /\ Present(k)
  /\ daemon' = [daemon EXCEPT ![k].state = "removed"]
  /\ UNCHANGED <<journal, owner, proc, inflight>>

DaemonStep(k) ==
  \/ daemon_create(k) \/ daemon_start(k) \/ daemon_kill(k) \/ daemon_rm(k)
  \/ daemon_drop(k) \/ daemon_exit(k) \/ daemon_disappear(k)

-----------------------------------------------------------------------------
(* The supervisor.                                                         *)

\* operation_lock never waits: the second process gets OWNER_ACTIVE.
Free(k) == owner[k] = Nobody

At(p, pc) == proc[p].pc = pc
Key(p) == proc[p].key
Rec(p) == proc[p].rec

\* The next local state of p.
Local1(p, update) == proc' = [proc EXCEPT ![p] = update]
Goto(p, pc) == Local1(p, [proc[p] EXCEPT !.pc = pc])

\* One journal write by p, which then works with the row it wrote.
Advance(p, state, container, pc) ==
  /\ advance(Key(p), Rec(p).token, state, container)
  /\ Local1(p, [proc[p] EXCEPT !.pc = pc,
                               !.rec = Advanced(@, state, container)])

\* One docker command sent by p.
Send(p, command, pc) ==
  /\ inflight' = [inflight EXCEPT ![Key(p)] = @ \cup {command}]
  /\ Goto(p, pc)
  /\ UNCHANGED <<journal, owner, daemon>>

\* run: an operation that is not yet in the journal is begun by p.  One that
\* is there is answered with its receipt, or is DISPATCH_UNRESOLVED or
\* REQUEST_CONFLICT; neither changes anything.
run_new(p, k) ==
  /\ At(p, "idle") /\ Free(k)
  /\ \E q \in Requests, t \in Tokens :
       /\ begin(k, q, t)
       /\ Local1(p, [Idle EXCEPT !.pc = "verify", !.key = k,
                                 !.rec = NewRow(q, t)])
  /\ owner' = [owner EXCEPT ![k] = p]
  /\ UNCHANGED <<daemon, inflight>>

\* Any failure inside the body: an error of the daemon or the journal, a
\* cancellation, a deadline, an interrupt.
raise(p) ==
  /\ proc[p].pc \in RunBody
  /\ \E v \in Statuses \ {"COMPLETED"} :
       Local1(p, [proc[p] EXCEPT !.pc = "cleanup", !.verdict = v])
  /\ UNCHANGED <<journal, owner, daemon, inflight>>

verify_image(p) ==
  /\ At(p, "verify")
  /\ Goto(p, "create")
  /\ UNCHANGED <<journal, owner, daemon, inflight>>

send_create(p) == At(p, "create") /\ Send(p, "create", "creating")

\* The client printed the identifier of the container it created.
created(p) ==
  /\ At(p, "creating")
  /\ "create" \notin inflight[Key(p)] /\ Present(Key(p))
  /\ Advance(p, "CREATED", daemon[Key(p)].id, "configure")
  /\ UNCHANGED <<owner, daemon, inflight>>

\* _verify_container_config.
Isolation(k) == daemon[k].isolated

\* _inspect finds the container under its name, with the recorded identifier.
Same(p) ==
  /\ Present(Key(p))
  /\ Rec(p).container \in {None, daemon[Key(p)].id}

\* Mutant: the start is not announced in the journal.
configure_unrecorded(p) ==
  /\ At(p, "configure")
  /\ Same(p) /\ Isolation(Key(p))
  /\ Local1(p, [proc[p] EXCEPT !.pc = "start", !.verified = TRUE])
  /\ UNCHANGED <<journal, owner, daemon, inflight>>

configure(p) ==
  /\ At(p, "configure")
  /\ Same(p) /\ Isolation(Key(p))
  /\ advance(Key(p), Rec(p).token, "STARTING", Rec(p).container)
  /\ Local1(p, [proc[p] EXCEPT !.pc = "start", !.verified = TRUE,
                               !.rec = Advanced(@, "STARTING", @.container)])
  /\ UNCHANGED <<owner, daemon, inflight>>

send_start(p) == At(p, "start") /\ Send(p, "start", "attached")

\* The attached client ends: by itself with the exit code of the fixture, or
\* because it was killed.
attached(p) ==
  /\ At(p, "attached")
  /\ \E v \in Statuses :
       /\ v = "COMPLETED" =>
            /\ "start" \notin inflight[Key(p)]
            /\ daemon[Key(p)].ran /\ daemon[Key(p)].exit = "zero"
       /\ Local1(p, [proc[p] EXCEPT !.pc = "result", !.verdict = v])
  /\ UNCHANGED <<journal, owner, daemon, inflight>>

Succeeded(p) ==
  /\ Same(p) /\ daemon[Key(p)].ran
  /\ Stopped(Key(p)) /\ ExitCode(Key(p)) = "zero"

\* Even a success seen by the inspection may fail the checks that follow.
result(p) ==
  /\ At(p, "result")
  /\ Same(p) \/ ~Present(Key(p))
  /\ LET row == IF Same(p) /\ daemon[Key(p)].ran
                THEN Advanced(Rec(p), "RUNNING", Rec(p).container)
                ELSE Rec(p)
         verdicts == IF proc[p].verdict # "COMPLETED" THEN {proc[p].verdict}
                     ELSE IF Succeeded(p) THEN Statuses
                     ELSE {"FAILED"}
     IN  /\ \E v \in verdicts :
              Local1(p, [proc[p] EXCEPT !.pc = "cleanup", !.verdict = v,
                                        !.rec = row])
         /\ IF row = Rec(p) THEN UNCHANGED journal
            ELSE advance(Key(p), Rec(p).token, row.state, row.container)
  /\ UNCHANGED <<owner, daemon, inflight>>

-----------------------------------------------------------------------------
(* _cleanup and the end of run and recover.                                *)

Confirm(p, stopped, cleaned) ==
  Local1(p, [proc[p] EXCEPT !.pc = "settle", !.stopped = stopped,
                            !.cleaned = cleaned, !.exit = "unknown"])

\* Mutant: a container that is gone was stopped.
GoneConfirmsAlways(row) == TRUE

\* Mutant: a recorded stop is forgotten by the recovery.
GoneConfirmsNew(row) == row.container = None

\* Nothing is found: that confirms the stop only if there was no container
\* yet, or if its stop is recorded.
GoneConfirms(row) == row.container = None \/ row.state = "STOPPED"

cleanup_gone(p) ==
  /\ At(p, "cleanup") /\ ~Present(Key(p))
  /\ Confirm(p, GoneConfirms(Rec(p)), GoneConfirms(Rec(p)))
  /\ UNCHANGED <<journal, owner, daemon, inflight>>

\* A container found for a bare intent is adopted before anything else.
Adopted(p) ==
  IF Rec(p).container = None
  THEN Advanced(Rec(p), "CREATED", daemon[Key(p)].id)
  ELSE Rec(p)

cleanup_found(p) ==
  /\ At(p, "cleanup") /\ Same(p)
  /\ IF Rec(p).container = None
     THEN advance(Key(p), Rec(p).token, "CREATED", daemon[Key(p)].id)
     ELSE UNCHANGED journal
  /\ Local1(p, [proc[p] EXCEPT
       !.pc = IF Stopped(Key(p)) THEN "stop" ELSE "kill",
       !.exit = ExitCode(Key(p)),
       !.rec = Adopted(p)])
  /\ UNCHANGED <<owner, daemon, inflight>>

send_kill(p) == At(p, "kill") /\ Send(p, "kill", "recheck")

recheck(p) ==
  /\ At(p, "recheck")
  /\ Same(p) \/ ~Present(Key(p))
  /\ IF Same(p) /\ Stopped(Key(p))
     THEN Local1(p, [proc[p] EXCEPT !.pc = "stop", !.exit = ExitCode(Key(p))])
     ELSE Confirm(p, FALSE, FALSE)
  /\ UNCHANGED <<journal, owner, daemon, inflight>>

stop(p) ==
  /\ At(p, "stop")
  /\ Advance(p, "STOPPED", Rec(p).container, "remove")
  /\ UNCHANGED <<owner, daemon, inflight>>

send_rm(p) == At(p, "remove") /\ Send(p, "rm", "removed")

Removed(p) == ~Present(Key(p))

removed(p) ==
  /\ At(p, "removed")
  /\ Same(p) \/ ~Present(Key(p))
  /\ Local1(p, [proc[p] EXCEPT !.pc = "settle", !.stopped = TRUE,
                               !.cleaned = Removed(p)])
  /\ UNCHANGED <<journal, owner, daemon, inflight>>

\* The daemon or the journal fails during the cleanup: nothing is confirmed.
cleanup_fails(p) ==
  /\ proc[p].pc \in CleanupBody
  /\ Confirm(p, FALSE, FALSE)
  /\ UNCHANGED <<journal, owner, daemon, inflight>>

\* Only a confirmed success of the first process stays one, and even that
\* may still meet its deadline or a cancellation.
FinalStatuses(p) ==
  IF proc[p].recovering \/ ~proc[p].stopped \/ ~proc[p].cleaned
  THEN {"FAILED"}
  ELSE IF proc[p].verdict = "COMPLETED" THEN Statuses
  ELSE {proc[p].verdict}

FinalReceipt(p, status) ==
  [status |-> status, stopped |-> proc[p].stopped,
   cleaned |-> proc[p].cleaned,
   verified |-> proc[p].verified,
   recovered |-> proc[p].recovering, exit |-> proc[p].exit,
   container |-> Rec(p).container]

Settled(p) == proc[p].stopped /\ proc[p].cleaned

\* The receipt is stored when the stop and the removal are confirmed, and
\* only returned otherwise.  A journal that refuses is a crash.
settle(p) ==
  /\ At(p, "settle")
  /\ \E v \in FinalStatuses(p) :
       IF Settled(p) THEN finish(Key(p), Rec(p).token, FinalReceipt(p, v))
       ELSE UNCHANGED journal
  /\ owner' = [owner EXCEPT ![Key(p)] = Nobody]
  /\ Local1(p, Idle)
  /\ UNCHANGED <<daemon, inflight>>

\* Mutant: a start of unknown outcome is sent again.
recover_resend(p, k) ==
  /\ At(p, "idle") /\ Free(k)
  /\ k \in pending
  /\ owner' = [owner EXCEPT ![k] = p]
  /\ Local1(p, [Idle EXCEPT
       !.pc = IF journal[k].state = "STARTING" THEN "start" ELSE "cleanup",
       !.key = k, !.rec = journal[k], !.recovering = TRUE])
  /\ UNCHANGED <<journal, daemon, inflight>>

\* recover never sends the operation again.
recover(p, k) ==
  /\ At(p, "idle") /\ Free(k)
  /\ k \in pending
  /\ owner' = [owner EXCEPT ![k] = p]
  /\ Local1(p, [Idle EXCEPT !.pc = "cleanup", !.key = k, !.rec = journal[k],
                            !.recovering = TRUE])
  /\ UNCHANGED <<journal, daemon, inflight>>

crash(p) ==
  /\ ~At(p, "idle")
  /\ owner' = [owner EXCEPT ![Key(p)] = Nobody]
  /\ Local1(p, Idle)
  /\ UNCHANGED <<journal, daemon, inflight>>

RunStep(p) ==
  \/ verify_image(p) \/ send_create(p) \/ created(p) \/ configure(p)
  \/ send_start(p) \/ attached(p) \/ result(p) \/ raise(p)

CleanupStep(p) ==
  \/ cleanup_gone(p) \/ cleanup_found(p) \/ send_kill(p) \/ recheck(p)
  \/ stop(p) \/ send_rm(p) \/ removed(p) \/ cleanup_fails(p) \/ settle(p)

Next ==
  \/ \E k \in Keys : DaemonStep(k)
  \/ \E p \in Procs :
       \/ RunStep(p) \/ CleanupStep(p) \/ crash(p)
       \/ \E k \in Keys : run_new(p, k) \/ recover(p, k)

Spec == Init /\ [][Next]_vars

-----------------------------------------------------------------------------
(* Properties.                                                             *)

\* A supervisor never decides on an outdated record: while it is at work it
\* holds the lock of its operation and its copy of the row is the row.
RecordFresh ==
  \A p \in Procs : ~At(p, "idle") =>
    owner[Key(p)] = p /\ Rec(p) = journal[Key(p)]

\* Write-ahead: whatever the daemon holds or may still do for an operation
\* is announced in the journal, the start included, so that a successor of a
\* dead supervisor finds everything that is to be stopped.
WrittenAhead ==
  \A k \in Keys :
    /\ daemon[k].state # "absent" \/ inflight[k] # {} => Exists(journal[k])
    /\ daemon[k].ran \/ "start" \in inflight[k] =>
         /\ journal[k].state \notin {"INTENT", "CREATED"}
         /\ journal[k].container = daemon[k].id

\* A fixture runs only in a container whose isolation was inspected.
IsolatedRun == \A k \in Keys : daemon[k].ran => daemon[k].isolated

\* What a successor finds in the journal can be read back and is the truth about
\* the daemon: announced before it happened, inspected before it was started.
RecordsTrue == JournalReadable /\ RecordFresh /\ WrittenAhead /\ IsolatedRun

\* A finished operation leaves nothing behind in a container it knew: the
\* container is removed, whatever request is still under way.
CleanedUp ==
  \A k \in Keys :
    journal[k].state = "FINISHED" /\ journal[k].container # None =>
      daemon[k].state = "removed"

\* The journal accepts every receipt that the supervisor means to store; a
\* refusal would leave the operation unresolved for good.
SettleAccepted ==
  \A p \in Procs : At(p, "settle") /\ proc[p].stopped /\ proc[p].cleaned =>
    \A v \in FinalStatuses(p) :
      MayFinish(journal[Key(p)], Rec(p).token, FinalReceipt(p, v))

\* Every receipt that is due is stored, and it is stored after the cleanup.
ReceiptsTrue == CleanedUp /\ SettleAccepted

\* What the journal says of an operation, before and after it is finished, can
\* be relied on by whoever finds it after a crash.
JournalTrue == RecordsTrue /\ ReceiptsTrue

\* The supervisor implements the promise of FixtureOnce: at most one run of
\* the fixture, never one after the receipt, and no false success.
phase ==
  [k \in Keys |->
    IF ~daemon[k].ran THEN "idle"
    ELSE IF daemon[k].state = "running" THEN "live" ELSE "ended"]
outcome ==
  [k \in Keys |->
    IF journal[k].state = "FINISHED" THEN journal[k].receipt.status ELSE None]

Once ==
  INSTANCE FixtureOnce WITH
    Outcomes <- Statuses, Success <- "COMPLETED", Open <- None

RunsAtMostOnce == Once!Spec

\* A process that is not killed for ever at the same step gets on; the daemon
\* does not fail the same command for ever; an operation that is pending is
\* recovered again, as every resumption of a supervised run does.
FairSupervision ==
  /\ \A k \in Keys : SF_vars(daemon_kill(k)) /\ SF_vars(daemon_rm(k))
  /\ \A p \in Procs : WF_vars(RunStep(p) \/ CleanupStep(p))
  /\ SF_vars(\E p \in Procs : cleanup_gone(p) \/ cleanup_found(p))
  /\ SF_vars(\E p \in Procs : send_kill(p))
  /\ SF_vars(\E p \in Procs : stop(p))
  /\ SF_vars(\E p \in Procs : send_rm(p))
  /\ SF_vars(\E p \in Procs : Settled(p) /\ settle(p))
  /\ \A k \in Keys : WF_vars(\E p \in Procs : recover(p, k))

LiveSpec == Spec /\ FairSupervision

\* A container that somebody else removed before its stop was recorded: the
\* code refuses to guess and leaves such an operation unresolved for good.
Vanished(k) ==
  /\ daemon[k].state = "removed"
  /\ journal[k].state \in {"CREATED", "STARTING", "RUNNING"}

\* Every operation whose intent is recorded gets its receipt in the end, or
\* its container vanished from outside.
EveryIntentFinishes ==
  \A k \in Keys :
    (journal[k].state # "ABSENT") ~>
      (journal[k].state = "FINISHED" \/ Vanished(k))
=============================================================================
