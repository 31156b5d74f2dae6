--------------------------- MODULE MCFindingHistory ---------------------------
(* The source of the finding, a repaired version and a third run.           *)
EXTENDS FindingHistory, TLC

CONSTANTS src, fix, back

MCFinished == {src}
MCVersion == (src :> 1) @@ (fix :> 2) @@ (back :> 1)
MCWithdrawable == {Validator}

Undisputed == ~run[fix].held /\ ~run[fix].revoked
Unplanned == plans = {} /\ hold[fix] = NoHold

\* Bound: the evidence of the repaired run is either disputed and revoked or
\* held and deleted, and neither is mixed with the story of the run in which
\* the problem is back, of a finding that is disposed of or of a retired target.
\* The problem is back after the finding was handed in for revalidation.
OneStory ==
  /\ Undisputed \/ Unplanned
  /\ \/ run[back].phase = "absent" /\ finding.disposition = "NONE" /\ ~retired
     \/ Undisputed /\ Unplanned
  /\ \/ run[back].phase = "absent"
     \/ finding.status \in {"AWAITING_REVALIDATION", "VERIFIED"} /\ finding.disposition = "NONE"
=============================================================================
