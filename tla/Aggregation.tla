---------------------------- MODULE Aggregation ----------------------------
(***************************************************************************)
(* How the stored attempts of a run become one assurance: aggregation.py   *)
(* and decision.py for one constraint obligation, whose case is answered   *)
(* in stages that follow one another.  An attempt is a record              *)
(*   id, stage, retry (the attempt it repeats, or Nil), epoch (its         *)
(*   owner's), started, finished (a time, or Nil), stopped (the stop is   *)
(*   confirmed), restored (the state before the stage was), status, result *)
(* and a value of this module is a function of the SET of the attempts: no *)
(* operator sees in which order they were delivered.                       *)
(***************************************************************************)
EXTENDS Integers, Sequences, FiniteSetsExt

CONSTANTS
  Stages,       \* the stages of the case, in their order
  Required,     \* is the obligation required
  Critical,     \* is its control critical
  Forbidden,    \* is the event it watches forbidden
  Deadline,     \* the run lasts from 0 to Deadline
  MaxAge,       \* seconds after which an observation is stale
  Nil           \* no value

ASSUME AggregationAssumption ==
  /\ Stages \in Seq(STRING) /\ Stages # <<>>
  /\ {Required, Critical, Forbidden} \subseteq BOOLEAN
  /\ Deadline \in Nat /\ MaxAge \in Nat

StageNames == {Stages[i] : i \in DOMAIN Stages}

-----------------------------------------------------------------------------
(* One attempt.                                                             *)

\* It ended, it is known to have stopped, and it gave a result.
Definite(a) ==
  /\ a.status = "COMPLETED" /\ a.finished # Nil /\ a.stopped
  /\ a.result \notin {Nil, "ERROR"}

\* Its status and its result contradict each other.
Malformed(a) ==
  \/ a.status = "COMPLETED" /\ a.result = Nil
  \/ a.status # "COMPLETED" /\ a.result \notin {Nil, "ERROR"}

OutOfWindow(a) == a.started < 0 \/ (a.finished # Nil /\ a.finished > Deadline)

Observed(a) == IF a.finished # Nil THEN a.finished ELSE a.started

\* b failed, stopped before a started, and a repeats it from the same state.
MayRepeat(a, b) ==
  /\ b.id = a.retry /\ b.stage = a.stage /\ b.retry = Nil
  /\ b.status \in {"FAILED", "TIMEOUT"} /\ b.stopped
  /\ b.finished # Nil /\ b.finished <= a.started
  /\ b.epoch = a.epoch /\ a.restored

-----------------------------------------------------------------------------
(* The attempts of a run: which answer of a stage counts.                   *)

Logical(S) == {a \in S : ~OutOfWindow(a)}

InvalidRetry(S, a) == a.retry # Nil /\ \A b \in Logical(S) : ~MayRepeat(a, b)

RetryLimit(S, a) == a.retry # Nil /\ Cardinality({b \in S : b.retry = a.retry}) > 1

Answers(S, stage) ==
  {a \in Logical(S) : a.stage = stage /\ Definite(a) /\ ~InvalidRetry(S, a) /\ ~RetryLimit(S, a)}

\* Mutant: an answer next to another attempt of its stage counts all the same.
NobodyUnrelated(S, a) == {}

Unrelated(S, a) ==
  {b \in Logical(S) : b.stage = a.stage /\ b.id \notin {a.id, a.retry} /\ b.retry # a.id}

Selected(S) ==
  {a \in Logical(S) : Answers(S, a.stage) = {a} /\ Unrelated(S, a) = {}}

Unanswered(S) == StageNames \ {a.stage : a \in Selected(S)}

Undecided(S) == {a \in Selected(S) : a.result = "UNKNOWN"}

\* Only a case all of whose stages are decided is looked at for its order.
Disordered(S) ==
  /\ Unanswered(S) = {} /\ Undecided(S) = {}
  /\ \E i \in 1..(Len(Stages) - 1) : \E a, b \in Selected(S) :
       a.stage = Stages[i] /\ b.stage = Stages[i + 1] /\ b.started < a.finished

\* A contradiction of the records; it also counts as a required result that is
\* missing, and so does whatever forbidden event the contradicting records show.
Contradiction(S) ==
  \/ \E a \in S : Malformed(a) \/ OutOfWindow(a)
  \/ \E a \in Logical(S) : InvalidRetry(S, a) \/ RetryLimit(S, a)
  \/ \E stage \in StageNames : Cardinality(Answers(S, stage)) > 1
  \/ \E a \in Logical(S) : Answers(S, a.stage) = {a} /\ Unrelated(S, a) # {}
  \/ Disordered(S)

\* What is stored of an aggregation: the records it is about, and its flags.
Aggregate(S, start) ==
  LET failed == {a \in Selected(S) : a.result = "FAIL"}
      missing == Required /\ (Contradiction(S) \/ Unanswered(S) # {} \/ Undecided(S) # {})
  IN  [over |-> {a.id : a \in S},
       observed |-> IF S = {} THEN start ELSE Min({Observed(a) : a \in S}),
       integrity |-> Contradiction(S),
       missing |-> missing,
       criticalMissing |-> missing /\ Critical /\ (Unanswered(S) # {} \/ Undecided(S) # {}
                                                   \/ Disordered(S)),
       violated |-> failed # {},
       forbidden |-> failed # {} /\ Forbidden,
       criticalViolated |-> failed # {} /\ Critical]

\* The worst of the reasons found at time now.
Assurance(g, now, warning) ==
  IF g.integrity \/ g.criticalViolated \/ g.criticalMissing \/ g.observed > now THEN "HOLD"
  ELSE IF g.forbidden \/ g.violated THEN "DEGRADED"
  ELSE IF g.missing \/ now - g.observed > MaxAge THEN "UNKNOWN"
  ELSE IF warning THEN "WARNING" ELSE "HEALTHY"
=============================================================================
