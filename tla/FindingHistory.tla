---------------------------- MODULE FindingHistory ----------------------------
(***************************************************************************)
(* The follow-up of a finding, finding_lifecycle.py: from the run that     *)
(* shows a problem, over a change of the target and a new run, to an       *)
(* independent confirmation, with recurrences linked to it and two         *)
(* dispositions that are not a repair (finding_dispositions.py).           *)
(*                                                                         *)
(* Every request replays the stored events of the finding (_load) and      *)
(* looks the evidence they rest on up again.  The model keeps the state    *)
(* that the events add up to and what a replay needs of them: the runs     *)
(* they name and the permissions of the last one.                          *)
(***************************************************************************)
EXTENDS EvidenceRetention

CONSTANTS
  Source,  \* the run that shows the problem
  Version  \* run -> the version of the target that it measures

ASSUME FindingAssumption ==
  Source \in Finished /\ DOMAIN Version = Runs

VARIABLE finding

vars == <<retentionVars, finding>>

None == "none"

Init ==
  /\ RetentionInit
  /\ finding = [status |-> "OPEN", pending |-> None, confirmation |-> None,
                recurrences |-> {}, disposition |-> "NONE", granted |-> 0]

-----------------------------------------------------------------------------
(* _load.                                                                   *)

\* The replay needs the evidence of the source and of every recurrence; a
\* confirmation is checked against the tombstone instead if it has to be.
Readable ==
  /\ Resolvable(Source)
  /\ \A link \in finding.recurrences : Resolvable(link.run)

\* The common checks of execute and _advance; the event stores the permissions
\* it was made under.
May(actor) == Permitted(actor) /\ Readable /\ finding.disposition = "NONE"

Advance(state) ==
  /\ finding' = [state EXCEPT !.granted = generation]
  /\ UNCHANGED retentionVars

-----------------------------------------------------------------------------
(* The requests.                                                            *)

finding_start ==
  /\ May(Operator) /\ finding.status = "OPEN"
  /\ Advance([finding EXCEPT !.status = "IN_PROGRESS"])

\* The new run is begun and has neither an attempt nor a receipt.
finding_request_revalidation(r) ==
  /\ May(Operator) /\ finding.status = "IN_PROGRESS"
  /\ r # Source /\ Version[r] # Version[Source]
  /\ run[r].phase \in {"begun", "executed"}
  /\ Advance([finding EXCEPT !.status = "AWAITING_REVALIDATION",
                             !.pending = [run |-> r, requested |-> clock]])

\* Mutant: only the receipt has to be newer than the request.
NewReceipt(pending) ==
  pending.requested <= run[pending.run].created

NewEvidence(pending) ==
  pending.requested <= run[pending.run].observed

\* _proof with fresh=True: the run that was asked for, measured after it was
\* asked for, usable now, and without the problem.
finding_confirm ==
  LET pending == finding.pending
  IN /\ May(Validator) /\ finding.status = "AWAITING_REVALIDATION"
     /\ FreshSource(pending.run) /\ NewEvidence(pending)
     /\ run[pending.run].clean
     /\ Advance([finding EXCEPT !.status = "VERIFIED",
          !.confirmation = [run |-> pending.run, confirmed |-> clock,
                            granted |-> generation]])

\* _recurrence with fresh=True: the same problem, observed after the
\* confirmation; the finding stays confirmed.
finding_recur(r) ==
  /\ May(Operator) /\ finding.status = "VERIFIED"
  /\ r # Source /\ FreshSource(r) /\ ~run[r].clean
  /\ finding.confirmation.confirmed < run[r].observed
  /\ \A link \in finding.recurrences : link.run # r
  /\ Advance([finding EXCEPT !.recurrences =
                @ \cup {[run |-> r, linked |-> clock]}])

\* The target is retired, or a baseline was adopted later in the same series,
\* which may be so at any time.
finding_dispose(disposition) ==
  /\ May(Manager) /\ finding.status # "VERIFIED"
  /\ disposition = "TARGET_RETIRED" => retired
  /\ Advance([finding EXCEPT !.disposition = disposition, !.pending = None])

Next ==
  \/ RetentionNext /\ UNCHANGED finding
  \/ finding_start \/ finding_confirm
  \/ \E r \in Runs : finding_request_revalidation(r) \/ finding_recur(r)
  \/ \E d \in {"BASELINE_REVISED", "TARGET_RETIRED"} : finding_dispose(d)

Spec == Init /\ [][Next]_vars

\* finding_current: "verification_current".
VerificationCurrent ==
  /\ Readable /\ finding.status = "VERIFIED"
  /\ finding.granted = generation /\ Permitted(Validator)
  /\ FreshSource(finding.confirmation.run)

-----------------------------------------------------------------------------
(* Properties.                                                              *)

\* A finding counts as repaired only by a measurement made after the repair
\* was handed in for revalidation, of another version of the target, in a run
\* without the problem whose evidence counted when it was confirmed; every
\* recurrence was measured after the confirmation.  A finding that was
\* disposed of instead never counts as repaired, whatever was under way.
VerifiedByNewEvidence ==
  /\ finding.status = "VERIFIED" =>
       LET r == finding.confirmation.run
       IN /\ r = finding.pending.run /\ Version[r] # Version[Source]
          /\ run[r].clean /\ run[r].origin = run[r].granted
          /\ finding.pending.requested <= run[r].observed
          /\ finding.confirmation.confirmed
               \in run[r].created .. run[r].observed + Freshness
          /\ finding.disposition = "NONE"
          /\ \A link \in finding.recurrences :
               run[link.run].observed > finding.confirmation.confirmed
  /\ finding.disposition # "NONE" => finding.confirmation = None

\* A confirmation given under permissions that were withdrawn since is not
\* current, although a recurrence linked later makes the finding's last event
\* one of the new permissions; nor is one whose evidence is deleted, revoked,
\* out of date or on hold, or whose target is retired.
CurrentUnderItsPermissions ==
  VerificationCurrent =>
    LET r == finding.confirmation.run
    IN /\ finding.confirmation.granted = generation
       /\ r \notin DOMAIN tombstone /\ ~run[r].revoked /\ ~run[r].held
       /\ clock <= run[r].observed + Freshness /\ ~retired

\* retention-revalidation-detail-spec.md: a confirmation stays on record when
\* evidence newer than the source's is deleted, and references that were kept
\* stay readable.
HistoryReadable ==
  finding.status = "VERIFIED" /\ Source \notin DOMAIN tombstone => Readable
=============================================================================
