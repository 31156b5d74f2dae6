----------------------------- MODULE FailureSink -----------------------------
(***************************************************************************)
(* The record of the first capacity failure of a run: FailureSink of       *)
(* storage_budget.py, supervised_capacity.py and the calls of gah_run.py   *)
(* around a supervision.                                                   *)
(*                                                                         *)
(* Calls for one run follow each other under the lock of the run; each may *)
(* die at any point.  answers is stored nowhere: it remembers what the     *)
(* callers were told of the record.  Loss of power is left out: the code   *)
(* promises nothing for it (durable_after_enospc).                         *)
(***************************************************************************)
EXTENDS Naturals

CONSTANTS
  Reasons,        \* of capacity failures
  MaxFaults       \* bound: deaths and failing system calls

\* What the file can be besides the record of a reason.
NoRecord == {"absent", "short", "blank", "torn", "other run"}

ASSUME SinkAssumption == MaxFaults \in Nat /\ Reasons \cap NoRecord = {}

VARIABLES
  sink,           \* one of NoRecord or a reason
  call,           \* [at, mode, sink, reason]: the present call of gah_run
  answers,        \* [record, reason]
  faults

sinkVars == <<sink, call, answers, faults>>

NoCall == [at |-> "rest", mode |-> "none", sink |-> FALSE, reason |-> "none"]

\* The folder may hold the record of another run.
SinkInit ==
  /\ sink \in {"absent", "other run"}
  /\ call = NoCall /\ answers = {} /\ faults = 0

Calling(place) == call.at = place

Fault == faults < MaxFaults /\ faults' = faults + 1

\* The file can be opened and read, and is this run's.
Usable == sink \in {"blank"} \cup Reasons

-----------------------------------------------------------------------------
(* prepare_sink.                                                            *)

StartCall(mode) ==
  /\ Calling("rest")
  /\ call' = [NoCall EXCEPT !.at = "prepare", !.mode = mode]
  /\ UNCHANGED <<sink, answers, faults>>

\* The supervision begins, with the sink or without.
GoOn(has) == call' = [call EXCEPT !.at = "supervise", !.sink = has]

\* A failing preparation ends a run, and never a cancellation or a query.
Unprepared == IF call.mode = "run" THEN call' = NoCall ELSE GoOn(FALSE)

\* preallocate: the file is created, then filled and read back.
CreateSink ==
  /\ Calling("prepare") /\ call.mode # "status" /\ sink = "absent"
  /\ sink' = "short" /\ call' = [call EXCEPT !.at = "fill"]
  /\ UNCHANGED <<answers, faults>>

FillSink ==
  /\ Calling("fill")
  /\ sink' = "blank" /\ GoOn(TRUE)
  /\ UNCHANGED <<answers, faults>>

\* The file is removed, unless that fails as well.
FillFails ==
  /\ Calling("fill") /\ Fault
  /\ sink' \in {"absent", "short"} /\ Unprepared
  /\ UNCHANGED answers

OpenSink ==
  /\ Calling("prepare") /\ call.mode # "status" /\ Usable
  /\ GoOn(TRUE)
  /\ UNCHANGED <<sink, answers, faults>>

\* SINK_READBACK_FAILED or FAILURE_SINK_RUN_MISMATCH.
RefuseSink ==
  /\ Calling("prepare") /\ call.mode # "status" /\ sink \in {"short", "torn", "other run"}
  /\ Unprepared
  /\ UNCHANGED <<sink, answers, faults>>

\* A query only reads the file, and does without it.
StatusSink ==
  /\ Calling("prepare") /\ call.mode = "status"
  /\ GoOn(FALSE)
  /\ UNCHANGED <<sink, answers, faults>>

-----------------------------------------------------------------------------
(* The supervision, and failure_result.                                     *)

\* It ends, with an answer or with an error that is none of capacity.
SupervisionEnds ==
  /\ Calling("supervise") /\ call' = NoCall
  /\ UNCHANGED <<sink, answers, faults>>

CapacityFails(reason) ==
  /\ Calling("supervise")
  /\ call' = IF call.sink THEN [call EXCEPT !.at = "record", !.reason = reason] ELSE NoCall
  /\ UNCHANGED <<sink, answers, faults>>

Tell(record) == answers' = answers \cup {[record |-> record, reason |-> call.reason]}

\* PRIOR_RECORD_PRESERVED.
PriorRecord ==
  /\ Calling("record") /\ sink \in Reasons
  /\ Tell("PRIOR_RECORD_PRESERVED") /\ call' = NoCall
  /\ UNCHANGED <<sink, faults>>

\* record writes to a file that reads as blank.
MayRecord == sink = "blank"

WriteRecord ==
  /\ Calling("record") /\ MayRecord
  /\ sink' = call.reason /\ call' = [call EXCEPT !.at = "sync"]
  /\ UNCHANGED <<answers, faults>>

\* A write that fails half way; UNAVAILABLE.
RecordTorn ==
  /\ Calling("record") /\ MayRecord /\ Fault
  /\ sink' \in {"blank", "torn"} /\ call' = NoCall
  /\ UNCHANGED answers

\* RECORDED, after fsync and reading back.
RecordSynced ==
  /\ Calling("sync")
  /\ Tell("RECORDED") /\ call' = NoCall
  /\ UNCHANGED <<sink, faults>>

\* fsync or the reading fails: UNAVAILABLE, with the record in the file.
SyncFails ==
  /\ Calling("sync") /\ Fault
  /\ call' = NoCall
  /\ UNCHANGED <<sink, answers>>

CallDies ==
  /\ ~Calling("rest") /\ Fault
  /\ call' = NoCall
  /\ UNCHANGED <<sink, answers>>

SinkNext ==
  \/ \E mode \in {"run", "cancel", "status"} : StartCall(mode)
  \/ CreateSink \/ FillSink \/ FillFails \/ OpenSink \/ RefuseSink \/ StatusSink
  \/ SupervisionEnds \/ \E reason \in Reasons : CapacityFails(reason)
  \/ PriorRecord \/ WriteRecord \/ RecordTorn \/ RecordSynced \/ SyncFails
  \/ CallDies

SinkSpec == SinkInit /\ [][SinkNext]_sinkVars

-----------------------------------------------------------------------------
(* Properties.                                                              *)

\* Who was told of a record finds one, through deaths and failing calls; who
\* was told that the own failure is the record finds that one, whatever failed
\* since (docs/productization-operations-spec.md:311: the first record stays).
ToldIsRecorded ==
  \A a \in answers :
    /\ sink \in Reasons
    /\ a.record = "RECORDED" => sink = a.reason

\* A run goes on only with a place for its failures, and never in the place
\* of another run (gah_run.execute, FAILURE_SINK_RUN_MISMATCH).
RunsHaveTheirSink ==
  Calling("supervise") /\ call.mode = "run" => call.sink /\ Usable

\* What gah_run.execute relies on.
SinkHolds == ToldIsRecorded /\ RunsHaveTheirSink
=============================================================================
