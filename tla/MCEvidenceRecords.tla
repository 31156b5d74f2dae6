-------------------------- MODULE MCEvidenceRecords --------------------------
(* The evidence book of a run, the findings that rest on evidence and the   *)
(* reviews of mutations, side by side.  The book shares no state with the   *)
(* others, findings and reviews only the evidence, which neither changes: a *)
(* behaviour moves only one of the three.                                   *)
EXTENDS MCFindingHistory, MCRunEvidence, MutationReview

RecordsInit == Init /\ EvidenceInit /\ ReviewInit

NotFollowedUp == finding.status = "OPEN" /\ finding.disposition = "NONE"

\* Bound: the one that moves first is the one that moves.
RecordsNext ==
  \/ EvidenceInit /\ ReviewInit /\ Next /\ UNCHANGED <<evidenceVars, reviewVars>>
  \/ EvidenceInit /\ NotFollowedUp /\ ReviewNext /\ UNCHANGED <<evidenceVars, finding>>
  \/ Init /\ ReviewInit /\ EvidenceScene /\ UNCHANGED <<vars, reviewVars>>

RecordsSpec == RecordsInit /\ [][RecordsNext]_<<vars, reviewVars, evidenceVars>>

\* Bound: a review is of the repaired run, whose evidence is disturbed, and
\* there is no third run.
OneReview ==
  \/ ReviewInit
  \/ run[back].phase = "absent" /\ review[src] = Unreviewed

\* What was granted on evidence counts only as long as its grounds do: the
\* confirmation of a repair and the exclusion of a mutation.
GrantsAreCurrent == CurrentUnderItsPermissions /\ ReviewsHold
=============================================================================
