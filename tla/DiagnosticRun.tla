---------------------------- MODULE DiagnosticRun ----------------------------
(***************************************************************************)
(* The diagnosis of one entry of a partitioned plan: the launch in         *)
(* gah_run.py, execute_one_entry of partitioned_diagnostic_run.py, and     *)
(* what partitioned_run_store.py asks of the requests for such a run.      *)
(*                                                                         *)
(* The consumer holds a lock of its journal, so there is one at a time; it *)
(* may die at any step and is called again with the same request.  A step  *)
(* is one durable write with what is read since the write before.  Runner, *)
(* journal rows, operations and failures are those of SupervisedRun.       *)
(*                                                                         *)
(* Checkpoints whose content no later call compares with anything that can *)
(* differ are left out; of the others it only matters that they exist.     *)
(***************************************************************************)
EXTENDS SupervisedRun

CONSTANTS
  DRun, DOp, DEntry,  \* the diagnostic run, its operation and plan entry
  RecoveryEvent       \* the event identifier of a recovered stop

ASSUME DiagnosticAssumption ==
  /\ DRun \in Runs \ Regression /\ DOp \in Operations /\ DEntry \in Entries
  /\ RecoveryEvent \in Events \ {StopEvent[DOp]}

VARIABLES
  saved,        \* the checkpoints that exist, of Checkpoints below
  delivered,    \* the authority holds the attempt of the operation
  con           \* the local variables of the consumer

diagVars == <<saved, delivered, con>>
everything == <<allVars, diagVars>>

Checkpoints == {"begun", "start", "started", "end", "attempt", "close"}

\* found: the journal told of a finished execution after a recovery.
Absent == [pc |-> "away", epoch |-> 0, found |-> FALSE]

NothingSaved == saved = {} /\ delivered = FALSE

DiagInit == NothingSaved /\ con = Absent

-----------------------------------------------------------------------------
In(pc) == con.pc = pc
Move(pc) == con' = [con EXCEPT !.pc = pc]
Leave == con' = Absent

SuperRest == UNCHANGED <<cp, recorded, sup>>
NoRunner == UNCHANGED <<intents, phase, outcome, failures>>
OnlyConsumer == UNCHANGED <<allVars, saved, delivered>>
OnlyRequest == SuperRest /\ NoRunner /\ UNCHANGED <<saved, delivered>>
Save(c) == saved' = saved \cup {c}
OnlySaved == UNCHANGED <<allVars, delivered>>

Exists == DOp \in DOMAIN ops
Accounted == Exists /\ StoppedAndSettled(DOp)

\* _fresh_context: the request is made before the deadline and everything
\* the run rests on is current.  A repeated request is checked again.
Fresh(now) == DRun \in current /\ now < Deadline

\* Some moment from now on at which a request is refused.
Later(now) == now \in Times /\ now >= lastClock
StaleNow == \E now \in Times : Later(now) /\ ~Fresh(now)

-----------------------------------------------------------------------------
(* The launch.                                                              *)

launch ==
  /\ In("away")
  /\ Move(IF "begun" \in saved THEN "enter" ELSE "begin")
  /\ OnlyConsumer

\* run_begin_v2 answers a repetition with a snapshot of the same run.
run_begin_v2(now) ==
  /\ In("begin") /\ Fresh(now)
  /\ IF Known(DRun) THEN snapshot(now, DRun) /\ Rest
     ELSE run_begin(now, DRun, Profile, Tag, Deadline)
  /\ Move("begun")
  /\ OnlyRequest

begin_saved ==
  /\ In("begun")
  /\ Save("begun") /\ Move("enter")
  /\ OnlySaved

-----------------------------------------------------------------------------
(* What an earlier call has left.                                           *)

\* runner.recover: the stored receipt, or one of an execution it stopped.
StoppedLocally ==
  \/ outcome[DOp] # Open /\ UNCHANGED <<phase, outcome>>
  \/ Runner!Settle(DOp, "FAILED")

\* The fixture is stopped before the authority is asked anything.
recover_local ==
  /\ In("enter")
  /\ "end" \notin saved /\ DOp \in intents
  /\ StoppedLocally
  /\ con' = [con EXCEPT !.found = TRUE, !.pc = "inspect"]
  /\ SuperRest /\ UNCHANGED <<vars, intents, failures, saved, delivered>>

recovery_fails ==
  /\ In("enter")
  /\ "end" \notin saved /\ DOp \in intents
  /\ Fails
  /\ Move("inspect")
  /\ SuperRest /\ UNCHANGED <<vars, intents, phase, outcome, saved, delivered>>

nothing_to_recover ==
  /\ In("enter")
  /\ "end" \in saved \/ DOp \notin intents
  /\ Move("inspect")
  /\ OnlyConsumer

\* resource_operation asks for no current conditions.  A closed run is
\* answered from the checkpoints; an operation without an end is settled if
\* its stop is known, and never executed again.
AfterInspection ==
  IF Exists /\ "close" \in saved THEN "away"
  ELSE IF Exists /\ "end" \notin saved
    THEN IF con.found THEN "recover_claim" ELSE "away"
    ELSE "fresh"

inspect(now) ==
  /\ In("inspect")
  /\ snapshot(now, DRun) /\ Rest
  /\ IF AfterInspection = "away" THEN Leave ELSE Move(AfterInspection)
  /\ OnlyRequest

\* Mutant: a stale read ends the call whatever was executed before.
AfterStaleAway == "away"

\* With a saved end, what was executed is settled before the error is
\* passed on.
AfterStale == IF "end" \in saved /\ Exists THEN "recover_claim" ELSE "away"

read_fresh(now) ==
  /\ In("fresh") /\ Fresh(now)
  /\ snapshot(now, DRun) /\ Rest
  /\ Move(IF Exists THEN "observe" ELSE "start")
  /\ OnlyRequest

read_stale ==
  /\ In("fresh") /\ StaleNow
  /\ IF AfterStale = "away" THEN Leave ELSE Move(AfterStale)
  /\ OnlyConsumer

read_fails ==
  /\ In("fresh") /\ Fails
  /\ IF AfterStale = "away" THEN Leave ELSE Move(AfterStale)
  /\ SuperRest /\ UNCHANGED <<vars, intents, phase, outcome, saved, delivered>>

-----------------------------------------------------------------------------
(* The execution.                                                           *)

start_operation(now) ==
  /\ In("start") /\ Fresh(now)
  /\ resource_start(now, DRun, Tag, DOp, DEntry)
  /\ Move("start_save")
  /\ OnlyRequest

start_saved ==
  /\ In("start_save")
  /\ Save("start") /\ Move("announce")
  /\ OnlySaved

announce ==
  /\ In("announce")
  /\ Save("started") /\ Move("run")
  /\ OnlySaved

run_fixture ==
  /\ In("run") /\ DOp \notin intents
  /\ intents' = intents \cup {DOp}
  /\ Move("running")
  /\ SuperRest
  /\ UNCHANGED <<vars, phase, outcome, failures, saved, delivered>>

\* Only a success leads on; any other receipt, an interrupt included, is left
\* in the journal for the next call.
fixture_returns ==
  /\ In("running")
  /\ \E s \in Statuses :
       /\ Runner!Settle(DOp, s)
       /\ IF s = Success THEN Move("end") ELSE Leave
  /\ SuperRest /\ UNCHANGED <<vars, intents, failures, saved, delivered>>

end_saved ==
  /\ In("end")
  /\ Save("end") /\ Move("observe")
  /\ OnlySaved

-----------------------------------------------------------------------------
(* The delivery and the close.                                              *)

Observe(now, event) == resource_observe(now, DOp, event, TRUE, ZeroUsage)

observe_end(now) ==
  /\ In("observe") /\ ~Accounted
  /\ Observe(now, StopEvent[DOp])
  /\ Move("record")
  /\ OnlyRequest

already_observed ==
  /\ In("observe") /\ Accounted
  /\ Move("record")
  /\ OnlyConsumer

evidence_record_v2(now) ==
  /\ In("record") /\ Fresh(now)
  /\ snapshot(now, DRun) /\ Rest
  /\ delivered' = TRUE
  /\ Move("attempt")
  /\ SuperRest /\ NoRunner /\ UNCHANGED saved

attempt_saved ==
  /\ In("attempt")
  /\ Save("attempt") /\ Move("snapshot")
  /\ OnlySaved

\* The begin request is sent again for its snapshot.
begin_snapshot(now) ==
  /\ In("snapshot") /\ Fresh(now)
  /\ snapshot(now, DRun) /\ Rest
  /\ IF ~runs[DRun].closed THEN Move("claim")
     ELSE IF BudgetClosure(DRun) THEN Move("close_save") ELSE Leave
  /\ OnlyRequest

\* The run is closed all the same if that is still allowed, and the error
\* is passed on.
snapshot_stale ==
  /\ In("snapshot") /\ StaleNow
  /\ Move("quiet_claim")
  /\ OnlyConsumer

snapshot_fails ==
  /\ In("snapshot") /\ Fails
  /\ Move("quiet_claim")
  /\ SuperRest /\ UNCHANGED <<vars, intents, phase, outcome, saved, delivered>>

\* The claim of a close has to be one that could start work.
claim_to_close(now) ==
  /\ In("claim") \/ In("quiet_claim")
  /\ Fresh(now)
  /\ resource_claim(now, DRun, Tag, FALSE)
  /\ con' = [con EXCEPT !.epoch = runs'[DRun].epoch,
                        !.pc = IF In("claim") THEN "close" ELSE "quiet_close"]
  /\ OnlyRequest

close_diagnosis(now) ==
  /\ In("close") \/ In("quiet_close")
  /\ resource_close(now, DRun, Tag, con.epoch)
  /\ IF In("close") /\ BudgetClosure(DRun) THEN Move("close_save") ELSE Leave
  /\ OnlyRequest

close_checkpoint ==
  /\ In("close_save")
  /\ Save("close") /\ Leave
  /\ OnlySaved

-----------------------------------------------------------------------------
(* _recover_ledger: settle a stop the journal confirms.                     *)

recover_claim(now) ==
  /\ In("recover_claim")
  /\ resource_cancel_claim(now, DRun, Tag)
  /\ con' = [con EXCEPT !.epoch = runs'[DRun].epoch, !.pc = "recover_observe"]
  /\ OnlyRequest

recover_observe(now) ==
  /\ In("recover_observe")
  /\ Observe(now, RecoveryEvent)
  /\ Move("recover_close")
  /\ OnlyRequest

recover_close(now) ==
  /\ In("recover_close")
  /\ resource_close(now, DRun, Tag, con.epoch)
  /\ Leave
  /\ OnlyRequest

-----------------------------------------------------------------------------
(* Refusals and failures end the call.                                      *)

LeaseOver ==
  \E now \in Times : Later(now) /\ ~Owner(DRun, Tag, con.epoch, now)

StartOver ==
  \E now \in Times : Later(now) /\ StartDenied(DRun, now)

turned_away ==
  /\ \/ con.pc \in {"begin", "start", "record"} /\ StaleNow
     \/ /\ con.pc \in {"claim", "quiet_claim"}
        /\ StaleNow \/ StartOver \/ runs[DRun].closed
     \/ con.pc \in {"close", "quiet_close", "recover_close"} /\ LeaseOver
     \/ In("recover_claim") /\ runs[DRun].closed
  /\ Leave
  /\ OnlyConsumer

consumer_dies ==
  /\ ~In("away") /\ Leave
  /\ Fails
  /\ SuperRest /\ UNCHANGED <<vars, intents, phase, outcome, saved, delivered>>

ConsumerStep ==
  \/ \E now \in Times :
       \/ run_begin_v2(now) \/ inspect(now) \/ read_fresh(now)
       \/ start_operation(now) \/ observe_end(now) \/ evidence_record_v2(now)
       \/ begin_snapshot(now) \/ claim_to_close(now) \/ close_diagnosis(now)
       \/ recover_claim(now) \/ recover_observe(now) \/ recover_close(now)
  \/ launch \/ begin_saved \/ recover_local \/ nothing_to_recover
  \/ read_stale \/ start_saved \/ announce \/ run_fixture
  \/ fixture_returns \/ end_saved \/ already_observed \/ attempt_saved
  \/ snapshot_stale \/ close_checkpoint \/ turned_away

DiagNext ==
  \/ ConsumerStep \/ recovery_fails \/ read_fails \/ snapshot_fails
  \/ consumer_dies
  \/ (fixture_starts(DOp) \/ fixture_ends(DOp)) /\ UNCHANGED diagVars
  \/ ChangeConditions /\ UNCHANGED <<superVars, diagVars>>

DiagSpec == SuperInit /\ DiagInit /\ [][DiagNext]_everything

-----------------------------------------------------------------------------
(* Properties.                                                              *)

\* The authority is told of a stop only when the fixture has a final receipt
\* and can never run again; nothing of it runs once the run is closed.
DiagnosedStopsAreReal ==
  /\ Exists /\ ops[DOp].stopped # Null => outcome[DOp] # Open
  /\ Known(DRun) /\ runs[DRun].closed => phase[DOp] # "live"

\* productization-partition-spec.md:253: a call that can only establish that
\* something stopped makes no attempt of it; an attempt stands for a fixture
\* that ran to its end and succeeded under the announced binding.
AttemptsAreSuccesses ==
  delivered =>
    /\ {"started", "end"} \subseteq saved
    /\ outcome[DOp] = Success /\ phase[DOp] = "ended"

\* A result is reported for a run that is closed with its account settled and
\* its attempt delivered, and a repeated call that reports it again is right.
ResultsAreClosed ==
  "close" \in saved =>
    runs[DRun].closed /\ BudgetClosure(DRun) /\ Accounted /\ delivered

\* What a diagnosis tells the authority and reports is what happened.
DiagnosisHolds ==
  DiagnosedStopsAreReal /\ AttemptsAreSuccesses /\ ResultsAreClosed

\* The consumer is called again until the account is settled and does not
\* hang in between.
FairDiagnosis == WF_everything(ConsumerStep)

\* A fixture that was ever announced to the runner does not keep its
\* reservation: its operation is stopped and settled in the end, however often
\* the consumer dies, also when the conditions of the run have lapsed.
EveryDiagnosisSettles == DOp \in intents ~> Accounted
=============================================================================
