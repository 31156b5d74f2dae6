--------------------------- MODULE MCRunEvidence ---------------------------
(* Constants of the small evidence book that TLC explores: a case of two    *)
(* stages, up to three attempts of the first and one of the second.         *)
EXTENDS RunEvidence

Attempt(id, stage, retry, status, result, started, finished) ==
  [id |-> id, stage |-> stage, retry |-> retry, epoch |-> 1, started |-> started,
   finished |-> finished, stopped |-> TRUE, restored |-> TRUE, status |-> status, result |-> result]

First == Attempt("a1", "s1", Nil, "FAILED", Nil, 0, 1)
Again == Attempt("a2", "s1", "a1", "COMPLETED", "PASS", 1, 1)
Other == Attempt("a3", "s1", Nil, "COMPLETED", "PASS", 0, 1)
Then  == Attempt("b1", "s2", Nil, "COMPLETED", "PASS", 1, 2)

Variants ==
  {First, [First EXCEPT !.stopped = FALSE], [First EXCEPT !.status = "COMPLETED", !.result = "FAIL"],
   [First EXCEPT !.status = "COMPLETED", !.result = "FAIL", !.stopped = FALSE],
   Again, [Again EXCEPT !.restored = FALSE], [Again EXCEPT !.epoch = 2],
   Other, [Other EXCEPT !.retry = "a1", !.started = 1],
   Then, [Then EXCEPT !.started = 0], [Then EXCEPT !.result = "FAIL"], [Then EXCEPT !.result = "UNKNOWN"],
   [Then EXCEPT !.result = Nil], [Then EXCEPT !.finished = 3]}

TwoStages == <<"s1", "s2">>

\* Bounds: notices about the evidence come to a run without attempts, and the
\* clock of a run with attempts stops at its decision, whose time it keeps.
EvidenceScene ==
  \/ TimePasses /\ (attempts = {} \/ terminal = Nil)
  \/ notices = {} /\ DecisionNext
  \/ attempts = {} /\ events = {} /\ NoticeNext

\* Bound: an aggregation before the decision comes to a run with at most two
\* attempts, none refused.
SmallScenes ==
  /\ aggregates # {} /\ terminal = Nil => Cardinality(attempts) <= 2 /\ events = {}
  /\ Cardinality(aggregates) <= 2
=============================================================================
