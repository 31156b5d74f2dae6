-------------------------- MODULE LlmSupervisedRun --------------------------
(***************************************************************************)
(* The supervisor of an LLM run, llm_supervised_run.py: SupervisedRun with *)
(* a pool of workers in place of the loop over the plan.                   *)
(*                                                                         *)
(* Only the main thread asks the authority and writes checkpoints; a       *)
(* worker does nothing but run one operation.  An error in the main thread *)
(* waits for the workers, as leaving the pool does, and then cancels.  The *)
(* steps that are those of SupervisedRun are taken from there.             *)
(*                                                                         *)
(* An execution that did not complete has no attempt to deliver; it counts *)
(* as delivered when its stop was reported.                                *)
(***************************************************************************)
EXTENDS SupervisedRun, FiniteSets

\* The identifier of an operation is that of the run with its place in the plan.
ASSUME LlmAssumption == \A j, k \in 1 .. Len(Plan) : Plan[j] = Plan[k] => j = k

VARIABLES
  asked,        \* checkpoints: operations whose start was requested
  pool          \* the futures: what each worker does, and those that are
                \* being delivered

llmVars == <<asked, pool>>

NoWorkers == [worker |-> [p \in Operations |-> "none"], batch |-> {}]

PoolEmpty == asked = {} /\ pool = NoWorkers

LlmInit == SuperInit /\ PoolEmpty

-----------------------------------------------------------------------------
Pending == {p \in Operations : pool.worker[p] # "none"}
Working(p) == pool.worker[p] \in {"submitted", "begun"}
Finished(p) == pool.worker[p] \in {"done", "failed"}

OnlyPool == UNCHANGED <<allVars, asked>>
PoolRests == UNCHANGED llmVars
Worker(p, state) == pool' = [pool EXCEPT !.worker[p] = state]

\* policy["profiles"][...]["concurrent_evaluations"]
Width == Limits[Profile].concurrent

llm_open ==
  /\ At("open")
  /\ recorded.opened \/ Run \in current
  /\ recorded' = [recorded EXCEPT !.opened = TRUE]
  /\ Goto(IF runs[Run].closed THEN "finalize" ELSE "pool")
  /\ UNCHANGED <<vars, cp>> /\ RunnerUnchanged /\ PoolRests

-----------------------------------------------------------------------------
(* run_entries.                                                             *)

\* Reservations and interruptions that are on record lead to the recovery of
\* SupervisedRun, in the main thread.
has_previous_operation(p) ==
  p \in asked \/ cp.reserve[p] # Null \/ p \in cp.start \/ cp.end[p] # Open
    \/ p \in intents

Fills == At("pool") /\ pool.batch = {} /\ More /\ Cardinality(Pending) < Width

resume_entry ==
  /\ Fills /\ has_previous_operation(Op)
  /\ Goto("claim")
  /\ OnlySup /\ PoolRests

ask_start ==
  /\ Fills /\ ~has_previous_operation(Op)
  /\ asked' = asked \cup {Op}
  /\ Goto("ask")
  /\ OnlySup /\ UNCHANGED pool

\* resource_start claims as well: the epoch is that of the operation.
begin_new_operation(now) ==
  /\ At("ask")
  /\ resource_start(now, Run, Tag, Op, EntryOf[Op])
  /\ sup' = [sup EXCEPT !.epoch = runs'[Run].epoch, !.pc = "submit"]
  /\ OnlyAuthority /\ PoolRests

\* prepare_operation of an operation that is new, and pool.submit.
submit ==
  /\ At("submit")
  /\ cp' = [cp EXCEPT !.start = @ \cup {Op}]
  /\ Worker(Op, "submitted")
  /\ Next_entry("pool")
  /\ UNCHANGED <<vars, recorded, intents, phase, outcome, failures, asked>>

\* wait(..., FIRST_COMPLETED), once no more can be begun.
collect ==
  /\ At("pool") /\ pool.batch = {} /\ ~Fills
  /\ \E p \in Pending : Finished(p)
  /\ pool' = [pool EXCEPT !.batch = {p \in Pending : Finished(p)}]
  /\ OnlyPool

\* future.result() of a worker that raised.
worker_failed ==
  /\ At("pool") /\ \E p \in pool.batch : pool.worker[p] = "failed"
  /\ Goto("drain")
  /\ OnlySup /\ PoolRests

\* finish_operation saves the end first ...
finish_worker(p) ==
  /\ At("pool") /\ p \in pool.batch /\ pool.worker[p] = "done"
  /\ cp' = [cp EXCEPT !.end[p] = outcome[p]]
  /\ pool' = [pool EXCEPT !.batch = @ \ {p}, !.worker[p] = "delivering"]
  /\ Goto("deliver")
  /\ OnlyCheckpoint /\ UNCHANGED asked

\* ... and then delivers: evidence_complete reports the stop and the attempts
\* in one transaction; without a result only the stop is reported, and the
\* run is given up.
record_completion(now, p) ==
  /\ At("deliver") /\ pool.worker[p] = "delivering"
  /\ resource_observe(now, p, StopEvent[p], TRUE, ZeroUsage)
  /\ recorded' = [recorded EXCEPT !.attempts = @ \cup {p}]
  /\ Worker(p, "none")
  /\ Goto(IF outcome[p] = Success THEN "pool" ELSE "drain")
  /\ UNCHANGED <<cp, asked>> /\ RunnerUnchanged

\* The same for an entry that the main thread has executed or recovered.
record_in_main(now) ==
  /\ At("observe")
  /\ ReportStop(now)
  /\ IF sup.then = "nothing" THEN UNCHANGED recorded ELSE Recorded
  /\ IF sup.then = "next" THEN Next_entry("pool") ELSE Goto("drain")
  /\ UNCHANGED cp /\ RunnerUnchanged /\ PoolRests

all_delivered ==
  /\ At("pool") /\ ~More /\ Pending = {}
  /\ Goto("claim")
  /\ OnlySup /\ PoolRests

-----------------------------------------------------------------------------
(* run_worker.                                                              *)

worker_begins(p) ==
  /\ pool.worker[p] = "submitted" /\ p \notin intents
  /\ intents' = intents \cup {p}
  /\ Worker(p, "begun")
  /\ UNCHANGED <<vars, cp, recorded, phase, outcome, sup, failures, asked>>

worker_returns(p) ==
  /\ pool.worker[p] = "begun"
  /\ \E s \in Statuses : Runner!Settle(p, s)
  /\ Worker(p, "done")
  /\ UNCHANGED <<vars, cp, recorded, intents, sup, failures, asked>>

\* The runner raises: its journal or its clock fails, with a row or without.
worker_raises(p) ==
  /\ Working(p)
  /\ Worker(p, "failed")
  /\ OnlyPool

-----------------------------------------------------------------------------
Busy == \E p \in Operations : Working(p)

LlmGuarded == (Guarded \ {"record"}) \cup {"pool", "ask", "submit", "deliver"}

\* Mutant of AfterRaise: the cancellation does not wait for the pool.
AfterRaiseAtOnce == "cancel"

\* What is raised in the main thread leaves the pool first.
AfterRaise == "drain"

llm_raised ==
  /\ sup.pc \in LlmGuarded
  /\ Goto(AfterRaise)
  /\ OnlySup /\ PoolRests

drained ==
  /\ At("drain") /\ ~Busy
  /\ Goto("cancel")
  /\ pool' = NoWorkers
  /\ OnlySup /\ UNCHANGED asked

\* The threads of a dead process are gone, its fixtures are not.
llm_dies == die /\ pool' = NoWorkers /\ UNCHANGED asked

MainStep ==
  \/ llm_open \/ resume_entry \/ ask_start \/ submit \/ collect
  \/ worker_failed \/ all_delivered \/ llm_raised \/ drained
  \/ \E p \in Operations : finish_worker(p)
  \/ \E now \in Times :
       \/ begin_new_operation(now) \/ record_in_main(now)
       \/ \E p \in Operations : record_completion(now, p)

\* Of SupervisedRun, as it is.
SharedStep ==
  \/ \E now \in Times :
       \/ begin_run(now) \/ status(now) \/ claim_next(now)
       \/ reserve_entry(now) \/ dispatch(now)
       \/ close_run(now) \/ finalize(now)
  \/ one \/ prepare_operation \/ start \/ execute_runner
  \/ runner_returns \/ finish_operation \/ recover_interrupted
  \/ close_saved \/ close_conflict \/ gate
  \/ CancelStep \/ refused

WorkerStep(p) == worker_begins(p) \/ worker_returns(p) \/ worker_raises(p)

LlmNext ==
  \/ MainStep
  \/ \E p \in Operations : WorkerStep(p)
  \/ llm_dies
  \/ /\ \/ \E mode \in {"run", "resume", "cancel"} : execute(mode)
        \/ SharedStep
        \/ \E p \in Operations : fixture_starts(p) \/ fixture_ends(p)
        \/ ChangeConditions /\ UNCHANGED superVars
     /\ PoolRests

LlmSpec == LlmInit /\ [][LlmNext]_<<allVars, llmVars>>

-----------------------------------------------------------------------------
(* Properties.                                                              *)

\* While a worker runs an operation the rest of the system does not take it
\* for ended: its start is saved, the authority has dispatched it and knows
\* of no stop, and the run is neither closed nor has it a receipt.
WorkersAreKnown ==
  \A p \in Operations : Working(p) =>
    /\ p \in cp.start /\ cp.end[p] = Open
    /\ Dispatched(p) /\ ops[p].stopped = Null
    /\ ~runs[Run].closed /\ ~Terminal

\* When the main thread counts on nothing being under way, in the claim
\* before the close and in the whole cancellation, no worker is left.
NoWorkerLeft ==
  sup.pc \in {"claim", "close", "send_close", "finalize", "gate", "cancel",
              "cancel_claim", "sweep", "sweep_observe", "cancel_finalize"}
    => Pending = {}

\* What the main thread and the authority believe of the pool is so.
PoolHolds == WorkersAreKnown /\ NoWorkerLeft

\* A worker of a living process comes to its end: the runner stops a fixture
\* at its deadline, and every docker command has a timeout.
FairPool ==
  /\ WF_<<allVars, llmVars>>(MainStep)
  /\ \A p \in Operations : WF_<<allVars, llmVars>>(WorkerStep(p))
=============================================================================
