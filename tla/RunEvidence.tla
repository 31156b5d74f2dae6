---------------------------- MODULE RunEvidence ----------------------------
(***************************************************************************)
(* The evidence book of one run: run_evidence.py.  Every operation is one  *)
(* transaction of its caller and reads the clock once, a clock that never  *)
(* goes back.  Attempts arrive late, twice, in any order and               *)
(* in contradiction with one another; the book keeps the first content of  *)
(* an attempt, notes what it refuses and holds the run, gives one terminal *)
(* decision, and is told whether its evidence still stands.                *)
(***************************************************************************)
EXTENDS Aggregation

CONSTANTS
  Attempts,     \* the attempts that may be delivered, a set of records
  ValidUntils,  \* the ends of validity that may be told, Nil among them
  Generations,  \* the revocation generations that may be told
  ValidFor,     \* seconds for which evidence found valid stays so
  MaxClock,     \* bound of the clock
  MaxEvents,    \* bound of the refused deliveries
  MaxNotices    \* bound of the notices about the evidence

ASSUME EvidenceAssumption ==
  /\ ValidFor \in Nat /\ {MaxClock, MaxEvents, MaxNotices} \subseteq Nat
  /\ Generations \subseteq Nat /\ ValidUntils \subseteq Nat \cup {Nil}
  /\ Nil \notin STRING
  /\ Nil \notin {"PASS", "FAIL", "UNKNOWN", "ERROR", "ATTEMPT_CONFLICT", "LATE_ATTEMPT",
                 "FUTURE_ATTEMPT", "AGGREGATION_INTEGRITY", "DECISION_HOLD"}

\* _validate_attempt: the attempts that get as far as the book.
AttemptRecords ==
  [id : STRING, stage : StageNames, retry : STRING \cup {Nil}, epoch : Nat,
   started : Nat, finished : Nat \cup {Nil}, stopped : BOOLEAN, restored : BOOLEAN,
   status : {"COMPLETED", "FAILED", "TIMEOUT", "CANCELLED", "UNKNOWN"},
   result : {"PASS", "FAIL", "UNKNOWN", "ERROR", Nil}]

ASSUME AttemptAssumption ==
  \A a \in Attempts :
    /\ a \in AttemptRecords /\ a.retry # a.id
    /\ a.finished # Nil => a.started <= a.finished

VARIABLES
  bookClock,    \* run_evidence_meta.last_clock
  attempts,     \* rows of attempts
  events,       \* rows of attempt_events: what was refused, and why
  held,         \* run_state.hold_reason when run_state.state is HOLD, or Nil
  aggregate,    \* run_state.aggregate_digest: the current aggregation, or Nil
  aggregates,   \* rows of aggregates
  terminal,     \* the row of terminals with its decision, or Nil
  evidence,     \* the evidence columns of run_state
  notices       \* rows of evidence_events

evidenceVars == <<bookClock, attempts, events, held, aggregate, aggregates, terminal, evidence, notices>>

EvidenceInit ==
  /\ bookClock = 0 /\ attempts = {} /\ events = {} /\ held = Nil
  /\ aggregate = Nil /\ aggregates = {} /\ terminal = Nil
  /\ evidence = [state |-> "UNKNOWN", checked |-> 0, until |-> Nil, generation |-> 0]
  /\ notices = {}

TimePasses ==
  /\ bookClock < MaxClock /\ bookClock' = bookClock + 1
  /\ UNCHANGED <<attempts, events, held, aggregate, aggregates, terminal, evidence, notices>>

-----------------------------------------------------------------------------
(* record_attempt.                                                          *)

Refusal(a) ==
  CASE \E b \in attempts : b.id = a.id -> "ATTEMPT_CONFLICT"
    [] terminal # Nil -> "LATE_ATTEMPT"
    [] a.started > bookClock \/ (a.finished # Nil /\ a.finished > bookClock) -> "FUTURE_ATTEMPT"
    [] OTHER -> Nil

\* A delivery that repeats a stored attempt only counts it, so no step is needed.
Record(a) ==
  /\ a \notin attempts /\ Refusal(a) = Nil
  /\ attempts' = attempts \cup {a}
  /\ aggregate' = Nil
  /\ UNCHANGED <<bookClock, events, held, aggregates, terminal, evidence, notices>>

Refuse(a) ==
  /\ a \notin attempts /\ Refusal(a) # Nil
  /\ Cardinality(events) < MaxEvents
  /\ events' = events \cup {[kind |-> Refusal(a), attempt |-> a]}
  /\ held' = Refusal(a)
  /\ UNCHANGED <<bookClock, attempts, aggregate, aggregates, terminal, evidence, notices>>

-----------------------------------------------------------------------------
(* aggregate and finalize.                                                  *)

Latest == Aggregate(attempts, 0)

aggregate_run ==
  LET g == Latest IN
  /\ aggregate' = g
  /\ aggregates' = aggregates \cup {g}
  /\ held' = IF g.integrity /\ held = Nil THEN "AGGREGATION_INTEGRITY" ELSE held
  /\ UNCHANGED <<bookClock, attempts, events, terminal, evidence, notices>>

finalize(warning) ==
  LET g == Latest
      assurance == Assurance(g, bookClock, warning)
      reason == IF held # Nil THEN held
                ELSE IF g.integrity THEN "AGGREGATION_INTEGRITY"
                ELSE IF assurance = "HOLD" THEN "DECISION_HOLD" ELSE Nil
  IN
  /\ terminal = Nil
  /\ aggregate' = g /\ aggregates' = aggregates \cup {g}
  /\ terminal' = [assurance |-> assurance, over |-> g, at |-> bookClock, warning |-> warning,
                  state |-> IF reason # Nil THEN "HOLD" ELSE "FINALIZED"]
  /\ held' = reason
  /\ UNCHANGED <<bookClock, attempts, events, evidence, notices>>

-----------------------------------------------------------------------------
(* record_evidence_state.                                                   *)

Notices ==
  [state : {"UNKNOWN", "VALID", "REVOKED", "DELETED", "EXPIRED"},
   until : ValidUntils, generation : Generations]

ValidNotices == {n \in notices : n.state = "VALID"}

Deadlines(N) == {n.until : n \in N} \ {Nil}

\* Mutant: only the generation decides whether revoked evidence comes back.
MayFollowUnlessOlder(n) ==
  /\ n.generation >= evidence.generation
  /\ n.state = "UNKNOWN" => evidence.state = "UNKNOWN"
  /\ n.state = "VALID" =>
       \A d \in Deadlines(ValidNotices) : n.until # Nil /\ n.until <= d

\* Whether a notice may follow what is known of the evidence.
MayFollow(n) ==
  /\ n.generation >= evidence.generation
  /\ n.state = "UNKNOWN" => evidence.state = "UNKNOWN"
  /\ evidence.state \in {"REVOKED", "DELETED"} => n.state = evidence.state
  /\ n.state = "VALID" =>
       \A d \in Deadlines(ValidNotices) : n.until # Nil /\ n.until <= d

Entry(n, t) == [state |-> n.state, until |-> n.until, generation |-> n.generation, at |-> t]

\* A notice that was recorded before is answered and changes nothing.
record_evidence_state(n) ==
  LET first == {m.at : m \in ValidNotices} IN
  /\ Cardinality(notices) < MaxNotices
  /\ MayFollow(n)
  /\ \A t \in 0..bookClock : Entry(n, t) \notin notices
  /\ notices' = notices \cup {Entry(n, bookClock)}
  /\ evidence' = [state |-> n.state, until |-> n.until, generation |-> n.generation,
                  checked |-> IF n.state = "VALID" /\ first # {} THEN Min(first) ELSE bookClock]
  /\ UNCHANGED <<bookClock, attempts, events, held, aggregate, aggregates, terminal>>

-----------------------------------------------------------------------------
(* current_use: the store is validated first, then the reasons are given.   *)

ReadableEvidence ==
  IF evidence.state = "UNKNOWN" THEN notices = {}
  ELSE /\ \E n \in notices :
            /\ n.state = evidence.state /\ n.until = evidence.until
            /\ n.generation = evidence.generation /\ n.at <= bookClock
            /\ n.state # "VALID" => evidence.checked = n.at
       /\ evidence.state = "VALID" =>
            /\ evidence.checked = Min({n.at : n \in ValidNotices})
            /\ Deadlines(ValidNotices) # {} => evidence.until = Min(Deadlines(ValidNotices))

ReadableRows ==
  /\ \A a \in attempts : a.started <= bookClock /\ (a.finished # Nil => a.finished <= bookClock)
  /\ \A e \in events : e.kind = "ATTEMPT_CONFLICT" => \E a \in attempts : a.id = e.attempt.id
  /\ aggregate # Nil => aggregate \in aggregates /\ aggregate = Latest
  /\ terminal # Nil =>
       /\ terminal.over \in aggregates
       /\ terminal.assurance = Assurance(terminal.over, terminal.at, terminal.warning)

EvidenceStands ==
  /\ evidence.state = "VALID"
  /\ bookClock <= evidence.checked + ValidFor
  /\ evidence.until # Nil => bookClock <= evidence.until

UseReasons ==
  (IF terminal = Nil THEN {"NOT_FINALIZED"} ELSE {})
    \cup (IF aggregate = Nil /\ aggregates # {} THEN {"AGGREGATE_NOT_CURRENT"} ELSE {})
    \cup (IF held # Nil THEN {"HOLD"} ELSE {})
    \cup (IF EvidenceStands THEN {} ELSE {"EVIDENCE_NOT_CURRENT"})

\* The run comes to its decision.
DecisionNext ==
  \/ \E a \in Attempts : Record(a) \/ Refuse(a)
  \/ aggregate_run
  \/ \E warning \in BOOLEAN : finalize(warning)

\* The run is told about its evidence.
NoticeNext == \E n \in Notices : record_evidence_state(n)

EvidenceNext == TimePasses \/ DecisionNext \/ NoticeNext

EvidenceSpec == EvidenceInit /\ [][EvidenceNext]_evidenceVars

-----------------------------------------------------------------------------
(* Properties.                                                              *)

\* What the evaluation contract asks of a stage, said without the selection
\* above: one answer, PASS, alone or as the single repetition of an attempt that
\* had failed and stopped; and every stage after the one before it.
AnsweredByTheBook(S) ==
  /\ \A stage \in StageNames : \E a \in S :
       /\ a.stage = stage /\ a.status = "COMPLETED" /\ a.result = "PASS"
       /\ a.stopped /\ a.finished # Nil
       /\ \/ {b \in S : b.stage = stage} = {a} /\ a.retry = Nil
          \/ \E f \in S : {b \in S : b.stage = stage} = {a, f} /\ MayRepeat(a, f)
                          /\ Cardinality({b \in S : b.retry = f.id}) = 1
                          /\ f.result \in {Nil, "ERROR"}
  /\ \A a \in S : 0 <= a.started /\ (a.finished # Nil => a.finished <= Deadline)
  /\ \A i, j \in DOMAIN Stages : \A a, b \in S :
       (i < j /\ a.stage = Stages[i] /\ b.stage = Stages[j] /\ a.result = "PASS" /\ b.result = "PASS")
         => a.finished <= b.started

\* A decision without a reason is given exactly for the sets of attempts that
\* answer every stage by the book, whatever was retried, delivered twice or
\* delivered in which order (aggregation.py's selection, decision.py's reasons).
GreenByTheBook ==
  terminal # Nil /\ Required =>
    (terminal.assurance \in {"HEALTHY", "WARNING"}
       <=> AnsweredByTheBook(attempts) /\ terminal.at - terminal.over.observed <= MaxAge)

\* No answer is picked from several: once a FAIL was delivered for a stage,
\* whether it was stored, came in conflict or after the decision, the run is
\* held or its decision is not green.  (An answer whose stop was not confirmed
\* is no answer, which only a required obligation minds.)
NothingPicked ==
  \A a \in attempts \cup {e.attempt : e \in events} :
    a.status = "COMPLETED" /\ a.result = "FAIL" /\ (Required \/ Definite(a)) /\ terminal # Nil =>
      held # Nil \/ terminal.assurance \notin {"HEALTHY", "WARNING"}

\* The book passes its own validation after every sequence of operations, from
\* the first notice that says more than UNKNOWN: no legal order of deliveries,
\* aggregations and notices makes current_use answer STORAGE_CORRUPT.
ReadableOnceKnown == ReadableRows /\ (evidence.state # "UNKNOWN" => ReadableEvidence)

\* A decision says what all the attempts together say, those included that were
\* refused or came too late, and can be read when it is used (run_evidence.py).
DecisionsHold == GreenByTheBook /\ NothingPicked /\ ReadableOnceKnown

\* A hold, a revocation and a deletion are for good: no later delivery, notice
\* or aggregation lets current_use answer without that reason.
WithdrawnForGood ==
  [][/\ "HOLD" \in UseReasons => "HOLD" \in UseReasons'
     /\ evidence.state \in {"REVOKED", "DELETED"} => "EVIDENCE_NOT_CURRENT" \in UseReasons']_evidenceVars
=============================================================================
