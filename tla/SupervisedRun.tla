---------------------------- MODULE SupervisedRun ----------------------------
(***************************************************************************)
(* The supervisor of one regression run, supervised_run.py, between the    *)
(* resource authority, its own checkpoints and the runner.                 *)
(*                                                                         *)
(* gah_run.py holds a lock of the run for the whole call, so there is one  *)
(* supervisor at a time; it may die at any step and be started again, in   *)
(* any mode.  A step is one durable write: a checkpoint, a request of the  *)
(* authority, a write of the runner's journal.  What it only reads since   *)
(* the write before is part of the step.                                   *)
(*                                                                         *)
(* The runner is FixtureOnce, which DockerRunner implements, with the set  *)
(* of operations it has a journal row for.  A fixture once announced there *)
(* may start late, even after its supervisor has died.                     *)
(*                                                                         *)
(* Checkpoints that no later step compares with something that can differ  *)
(* (responses, requests that always have the same body) are left out; so   *)
(* are the receipts' bindings, which never differ from the plan's.         *)
(***************************************************************************)
EXTENDS ResourceAuthority, Sequences

CONSTANTS
  Run, Tag, Profile, \* the run, the owner identifier, the policy profile
  Deadline,     \* manifest["deadline"]
  Plan,         \* the operations in the order of the plan
  EntryOf,      \* operation -> its entry
  StopEvent,    \* operation -> the event identifier of its stop
  MaxFailures   \* bound: how often a supervisor dies or a recovery fails

ASSUME SupervisedAssumption ==
  /\ Run \in Regression /\ Tag \in Owners /\ Profile \in Profiles
  /\ Deadline \in Nat
  /\ Plan \in Seq(Operations)
  /\ EntryOf \in [Operations -> Entries]
  /\ StopEvent \in [Operations -> Events]
  /\ MaxFailures \in Nat

Success == "COMPLETED"
Statuses == {Success, "FAILED"}
Open == "open"

VARIABLES
  cp,           \* the checkpoints of the run
  recorded,     \* evidence: "closed" or the operations with an attempt
  intents,      \* the operations with a row in the runner's journal
  phase, outcome, \* the fixtures and their receipts (FixtureOnce)
  sup,          \* the local variables of the supervisor
  failures      \* counts up to MaxFailures

superVars == <<cp, recorded, intents, phase, outcome, sup, failures>>
allVars == <<vars, superVars>>

Runner == INSTANCE FixtureOnce WITH Keys <- Operations, Outcomes <- Statuses

\* then: what follows the delivery of the current operation's receipt.
Idle == [pc |-> "idle", i |-> 1, epoch |-> 0, pending |-> {}, then |-> "next"]

\* The tables and checkpoints before anything is asked.
SuperTables ==
  /\ Init
  /\ cp = [prepared |-> FALSE, cancel |-> FALSE, close |-> Null,
           reserve |-> [p \in Operations |-> Null], start |-> {},
           end |-> [p \in Operations |-> Open]]
  /\ recorded = [opened |-> FALSE, attempts |-> {}]
  /\ intents = {}
  /\ Runner!Init
  /\ failures = 0

SuperInit == SuperTables /\ sup = Idle

-----------------------------------------------------------------------------
At(pc) == sup.pc = pc
Goto(pc) == sup' = [sup EXCEPT !.pc = pc]
Exit == sup' = Idle

\* The current operation, while there is one.
Op == Plan[sup.i]
More == sup.i <= Len(Plan)
Next_entry(pc) == sup' = [sup EXCEPT !.i = @ + 1, !.pc = pc]

OnlySup == UNCHANGED <<vars, cp, recorded, intents, phase, outcome, failures>>
OnlyCheckpoint == UNCHANGED <<vars, recorded, intents, phase, outcome, failures>>
OnlyAuthority == UNCHANGED <<cp, recorded, intents, phase, outcome, failures>>
RunnerUnchanged == UNCHANGED <<intents, phase, outcome, failures>>

\* The steps execute covers with its try: there an error of the authority, a
\* refusal, a lost answer and an interrupt all lead to the cancellation.
Guarded == {"open", "claim", "one", "reserve", "prepare", "dispatch", "start",
            "run", "running", "end", "observe", "record", "close",
            "send_close", "finalize", "gate"}

-----------------------------------------------------------------------------
(* execute, up to the try.                                                  *)

\* Mode "run" saves the prepare request; the other modes need it.
execute(mode) ==
  /\ At("idle")
  /\ mode # "run" => cp.prepared
  /\ cp' = [cp EXCEPT !.prepared = TRUE]
  /\ sup' = [Idle EXCEPT !.pc = IF mode = "cancel" THEN "cancel_status"
                                                   ELSE "begin"]
  /\ OnlyCheckpoint

\* Known to the idempotency table, run_begin is answered from there.
begin_run(now) ==
  /\ At("begin")
  /\ IF Known(Run) THEN UNCHANGED vars
     ELSE run_begin(now, Run, Profile, Tag, Deadline)
  /\ Goto("status")
  /\ OnlyAuthority

Terminal == Run \in DOMAIN receipts

\* Mutant: a saved cancellation request is not looked up by a resumption.
CancelWantedByRun == At("cancel_status") \/ runs[Run].cancelled

\* The mode, the authority's state or an earlier request asks for it.
CancelWanted == At("cancel_status") \/ runs[Run].cancelled \/ cp.cancel

status(now) ==
  /\ At("status") \/ At("cancel_status")
  /\ snapshot(now, Run) /\ Rest
  /\ IF CancelWanted THEN Goto("cancel")
     ELSE IF Terminal THEN Exit ELSE Goto("open")
  /\ OnlyAuthority

\* evidence_open is replayed once it was answered.
evidence_open ==
  /\ At("open")
  /\ recorded.opened \/ Run \in current
  /\ recorded' = [recorded EXCEPT !.opened = TRUE]
  /\ Goto(IF runs[Run].closed THEN "finalize" ELSE "claim")
  /\ UNCHANGED <<vars, cp>> /\ RunnerUnchanged

-----------------------------------------------------------------------------
(* One entry of the plan.                                                   *)

\* begin_operation, and the claim before the close.
claim_next(now) ==
  /\ At("claim")
  /\ resource_claim(now, Run, Tag, FALSE)
  /\ sup' = [sup EXCEPT !.epoch = runs'[Run].epoch,
                        !.pc = IF More THEN "one" ELSE "close"]
  /\ OnlyAuthority

\* A reservation that was requested under another epoch is not sent again.
one ==
  /\ At("one")
  /\ \/ /\ cp.reserve[Op] = Null
        /\ cp' = [cp EXCEPT !.reserve[Op] = sup.epoch]
        /\ Goto("reserve")
     \/ /\ cp.reserve[Op] # Null /\ Op \in DOMAIN ops
        /\ Goto("prepare")
        /\ UNCHANGED cp
     \/ /\ cp.reserve[Op] = sup.epoch /\ Op \notin DOMAIN ops
        /\ Goto("reserve")
        /\ UNCHANGED cp
  /\ OnlyCheckpoint

reserve_entry(now) ==
  /\ At("reserve")
  /\ resource_reserve(now, Run, Tag, sup.epoch, Op, EntryOf[Op])
  /\ Goto("prepare")
  /\ OnlyAuthority

Intact == ~ops[Op].conflicted /\ ~ops[Op].released

\* What was executed is delivered, whatever became of the epoch.
prepare_operation ==
  /\ At("prepare") /\ Intact
  /\ \/ cp.end[Op] # Open /\ Goto("observe")
     \/ /\ cp.end[Op] = Open /\ ops[Op].epoch = sup.epoch
        /\ Goto(IF ops[Op].intended = Null THEN "dispatch" ELSE "start")
  /\ OnlySup

dispatch(now) ==
  /\ At("dispatch")
  /\ resource_dispatch(now, Run, Tag, sup.epoch, Op)
  /\ Goto("start")
  /\ OnlyAuthority

\* Somebody has announced this execution before.
Begun == Op \in cp.start \/ Op \in intents

start ==
  /\ At("start") /\ ~Begun
  /\ cp' = [cp EXCEPT !.start = @ \cup {Op}]
  /\ Goto("run")
  /\ OnlyCheckpoint

\* runner.run: the runner's own intent comes first.
execute_runner ==
  /\ At("run") /\ Op \notin intents
  /\ intents' = intents \cup {Op}
  /\ Goto("running")
  /\ UNCHANGED <<vars, cp, recorded, phase, outcome, failures>>

\* Only a receipt the journal holds is accepted (checked_receipt).
runner_returns ==
  /\ At("running")
  /\ \E s \in Statuses : Runner!Settle(Op, s)
  /\ Goto("end")
  /\ UNCHANGED <<vars, cp, recorded, intents, failures>>

finish_operation ==
  /\ At("end")
  /\ cp' = [cp EXCEPT !.end[Op] = outcome[Op]]
  /\ sup' = [sup EXCEPT !.pc = "observe",
               !.then = IF outcome[Op] = Success THEN "next" ELSE "cancel"]
  /\ OnlyCheckpoint

\* runner.recover: an operation without a row is NOT_FOUND, one that cannot
\* be stopped gives no receipt.
Recovered ==
  /\ Op \in intents
  /\ \/ outcome[Op] # Open /\ UNCHANGED <<phase, outcome>>
     \/ Runner!Settle(Op, "FAILED")

\* Mutant: the run goes on with an execution whose end nobody knows.
recover_and_go_on ==
  /\ At("start") /\ Begun
  /\ Recovered
  /\ sup' = [sup EXCEPT !.pc = "observe", !.then = "next"]
  /\ UNCHANGED <<vars, cp, recorded, intents, failures>>

\* An interrupted execution is stopped and reported, never repeated.
recover_interrupted ==
  /\ At("start") /\ Begun
  /\ Recovered
  /\ sup' = [sup EXCEPT !.pc = "observe", !.then = "nothing"]
  /\ UNCHANGED <<vars, cp, recorded, intents, failures>>

ReportStop(now) ==
  resource_observe(now, Op, StopEvent[Op], TRUE, ZeroUsage)

observe_stop(now) ==
  /\ At("observe")
  /\ ReportStop(now)
  /\ Goto(IF sup.then = "nothing" THEN "cancel" ELSE "record")
  /\ OnlyAuthority

Recorded == recorded' = [recorded EXCEPT !.attempts = @ \cup {Op}]

record_attempt ==
  /\ At("record")
  /\ Recorded
  /\ IF sup.then = "cancel" THEN Goto("cancel") ELSE Next_entry("claim")
  /\ UNCHANGED <<vars, cp>> /\ RunnerUnchanged

-----------------------------------------------------------------------------
(* The end of a complete run.                                               *)

\* Checkpoint.put refuses to replace what it holds.
close_saved ==
  /\ At("close") /\ cp.close \in {Null, sup.epoch}
  /\ cp' = [cp EXCEPT !.close = sup.epoch]
  /\ Goto("send_close")
  /\ OnlyCheckpoint

\* CHECKPOINT_CONFLICT is no SupervisorError: it ends the process.
close_conflict ==
  /\ At("close") /\ cp.close \notin {Null, sup.epoch}
  /\ Exit
  /\ OnlySup

close_run(now) ==
  /\ At("send_close")
  /\ resource_close(now, Run, Tag, sup.epoch)
  /\ Goto("finalize")
  /\ OnlyAuthority

finalize(now) ==
  /\ At("finalize")
  /\ evidence_finalize(now, Run)
  /\ Goto("gate")
  /\ OnlyAuthority

gate == At("gate") /\ Exit /\ OnlySup

-----------------------------------------------------------------------------
(* cancel.                                                                  *)

raised ==
  /\ sup.pc \in Guarded
  /\ Goto("cancel")
  /\ OnlySup

\* The request is saved before anything is asked.
cancel_saved ==
  /\ At("cancel")
  /\ cp' = [cp EXCEPT !.cancel = TRUE]
  /\ IF Terminal THEN Exit ELSE Goto("cancel_claim")
  /\ OnlyCheckpoint

cancel_claim(now) ==
  /\ At("cancel_claim")
  /\ resource_cancel_claim(now, Run, Tag)
  /\ sup' = [Idle EXCEPT !.pc = "sweep", !.epoch = runs'[Run].epoch]
  /\ OnlyAuthority

Dispatched(p) == p \in DOMAIN ops /\ ops[p].intended # Null
StoppedAndSettled(p) == ops[p].stopped # Null /\ ops[p].usage # NoUsage

\* Nothing to stop, and nothing left to deliver.
sweep_skip ==
  /\ At("sweep") /\ More
  /\ Dispatched(Op) => StoppedAndSettled(Op) /\ cp.end[Op] = Open
  /\ Next_entry("sweep")
  /\ OnlySup

SweepRecovered == Recovered

sweep_recover ==
  /\ At("sweep") /\ More
  /\ Dispatched(Op) /\ ~StoppedAndSettled(Op)
  /\ SweepRecovered
  /\ Goto("sweep_observe")
  /\ UNCHANGED <<vars, cp, recorded, intents, failures>>

sweep_observe(now) ==
  /\ At("sweep_observe")
  /\ ReportStop(now)
  /\ IF cp.end[Op] # Open THEN Goto("sweep") ELSE Next_entry("sweep")
  /\ OnlyAuthority

\* An execution with a known end is delivered as an attempt.
sweep_record ==
  /\ At("sweep") /\ More
  /\ Dispatched(Op) /\ StoppedAndSettled(Op) /\ cp.end[Op] # Open
  /\ Recorded
  /\ Next_entry("sweep")
  /\ UNCHANGED <<vars, cp>> /\ RunnerUnchanged

Fails == failures < MaxFailures /\ failures' = failures + 1

\* Any failure of the recovery or the delivery leaves the operation pending;
\* for one the runner does not know the recovery always fails (NOT_FOUND).
sweep_pending ==
  /\ sup.pc \in {"sweep", "sweep_observe"} /\ More
  /\ Dispatched(Op)
  /\ IF StoppedAndSettled(Op) \/ Op \in intents THEN Fails
     ELSE UNCHANGED failures
  /\ sup' = [sup EXCEPT !.pc = "sweep", !.i = @ + 1, !.pending = @ \cup {Op}]
  /\ UNCHANGED <<vars, cp, recorded, intents, phase, outcome>>

Swept == At("sweep") /\ ~More /\ sup.pending = {}

cancel_close(now) ==
  /\ Swept
  /\ IF runs[Run].closed THEN snapshot(now, Run) /\ Rest
     ELSE resource_close(now, Run, Tag, sup.epoch)
  /\ Goto("cancel_finalize")
  /\ OnlyAuthority

cancel_finalize(now) ==
  /\ At("cancel_finalize")
  /\ run_cancel_finalize(now, Run)
  /\ Exit
  /\ OnlyAuthority

-----------------------------------------------------------------------------
\* A crash or an error outside the try.
die ==
  /\ ~At("idle") /\ Exit
  /\ Fails
  /\ UNCHANGED <<vars, cp, recorded, intents, phase, outcome>>

\* Outside the try a refusal ends the process as well: the run does not
\* begin or is not known, or the lease ran out during the cancellation.  So
\* does a cancellation that leaves operations pending.
refused ==
  /\ \/ sup.pc \in {"begin", "cancel_status"} /\ ~Known(Run)
     \/ /\ Swept /\ ~runs[Run].closed
        /\ \E now \in Times :
             now >= lastClock /\ ~Owner(Run, Tag, sup.epoch, now)
     \/ At("sweep") /\ ~More /\ sup.pending # {}
  /\ Exit
  /\ OnlySup

fixture_starts(p) ==
  /\ p \in intents
  /\ Runner!Start(p)
  /\ UNCHANGED <<vars, cp, recorded, intents, sup, failures>>

fixture_ends(p) ==
  /\ Runner!End(p)
  /\ UNCHANGED <<vars, cp, recorded, intents, sup, failures>>

RunStep ==
  \/ \E now \in Times :
       \/ begin_run(now) \/ status(now) \/ claim_next(now)
       \/ reserve_entry(now) \/ dispatch(now) \/ observe_stop(now)
       \/ close_run(now) \/ finalize(now)
  \/ evidence_open \/ one \/ prepare_operation \/ start \/ execute_runner
  \/ runner_returns \/ finish_operation \/ recover_interrupted
  \/ record_attempt \/ close_saved \/ close_conflict \/ gate \/ raised

CancelStep ==
  \/ \E now \in Times :
       \/ cancel_claim(now) \/ sweep_observe(now) \/ cancel_close(now)
       \/ cancel_finalize(now)
  \/ cancel_saved \/ sweep_skip \/ sweep_recover \/ sweep_record
  \/ sweep_pending

SuperNext ==
  \/ \E mode \in {"run", "resume", "cancel"} : execute(mode)
  \/ RunStep \/ CancelStep \/ refused \/ die
  \/ \E p \in Operations : fixture_starts(p) \/ fixture_ends(p)
  \/ ChangeConditions /\ UNCHANGED superVars

SuperSpec == SuperInit /\ [][SuperNext]_allVars

-----------------------------------------------------------------------------
(* Properties.                                                              *)

\* The authority is told that an operation stopped only when its fixture has
\* a final receipt and can never run again; no receipt of the run is issued
\* while an announced fixture may still start.
StopsAreReal ==
  /\ \A p \in DOMAIN ops : ops[p].stopped # Null =>
       p \in intents /\ outcome[p] # Open
  /\ Terminal => \A p \in intents : outcome[p] # Open

\* Once the cancellation is requested no execution is begun any more, in
\* whatever mode and how often the supervisor is started again.
NoBeginAfterCancelStep == cp.cancel => intents' = intents
NoBeginAfterCancel == [][NoBeginAfterCancelStep]_allVars

\* A completed run executed its whole plan: every entry was dispatched, has
\* its end, and the attempt delivered is the one in the runner's journal.
NormalReceiptComplete ==
  Terminal /\ receipts[Run].kind = "normal" =>
    \A i \in 1 .. Len(Plan) :
      LET p == Plan[i] IN
      /\ Dispatched(p) /\ p \in recorded.attempts
      /\ cp.end[p] # Open /\ cp.end[p] = outcome[p]

\* What the authority holds about a run's end is what happened to its fixtures,
\* for single operations as for the whole run.
EndsAreReal == StopsAreReal /\ NormalReceiptComplete

\* supervised-run-detail-spec.md:47: when everything is executed and stopped,
\* a resumption goes on from the same receipts.  The close, the last request
\* that names an epoch, must then not meet a saved request of another epoch.
CompletedRunResumes ==
  At("close") => cp.close \in {Null, sup.epoch}

\* An operation that was dispatched but that the runner never heard of: the
\* supervisor refuses to guess and keeps it pending.
Unresolvable ==
  \E p \in DOMAIN ops :
    Dispatched(p) /\ ops[p].stopped = Null /\ p \notin intents

\* The supervisor is started again until the run has ended and does not
\* hang in between (every call of it has a timeout); a fixture ends, by force
\* if need be; a cancellation is not outrun by its lease for ever.
FairCancel ==
  /\ WF_allVars(\E mode \in {"run", "resume", "cancel"} : execute(mode))
  /\ WF_allVars(RunStep \/ CancelStep \/ refused)
  /\ \A p \in Operations : WF_allVars(fixture_ends(p))
  /\ SF_allVars(\E now \in Times : cancel_close(now))

SuperLiveSpec == SuperSpec /\ FairCancel

\* A cancellation that was asked for ends with a receipt of the run, after
\* however it is resumed and interrupted, or with an operation nobody can account for.
EveryCancelEnds == cp.cancel ~> (Terminal \/ Unresolvable)
=============================================================================
