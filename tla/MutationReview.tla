--------------------------- MODULE MutationReview ---------------------------
(***************************************************************************)
(* The review of a mutation that could not be applied, and the exclusion   *)
(* that follows from it (mutation_reviews.py): the validator states the    *)
(* proof, the manager approves it, and both rest on the evidence of the    *)
(* run, on permissions and on time.  The decision of the run is unchanged. *)
(*                                                                         *)
(* A run has one attempt here that a review may be about; whether its      *)
(* answer is of the supported kind is settled when it is recorded, and     *)
(* taken to be so.  Rows are never changed: a review that lapsed cannot be *)
(* made again, since its name is taken.                                    *)
(***************************************************************************)
EXTENDS EvidenceRetention

CONSTANT
  ReviewLife   \* 86400 in the code

ASSUME ReviewAssumption == ReviewLife \in Nat

VARIABLES
  review,      \* run -> its validation, or Unreviewed
  approval     \* run -> the approval of its validation, or Unreviewed

reviewVars == <<review, approval>>

Unreviewed == [created |-> 0 - 1, validUntil |-> 0 - 1, granted |-> 0]

ReviewInit == review = [r \in Runs |-> Unreviewed] /\ approval = review

Earlier(a, b) == IF a <= b THEN a ELSE b

\* Both roles are needed, whoever asks.
SourceGrounded(r) == FreshSource(r) /\ Permitted(Validator) /\ Permitted(Manager)

mutation_review_validate(r) ==
  /\ SourceGrounded(r) /\ review[r] = Unreviewed
  /\ review' = [review EXCEPT ![r] =
       [created |-> clock, validUntil |-> Earlier(clock + ReviewLife, ValidUntil(r)),
        granted |-> generation]]
  /\ UNCHANGED <<retentionVars, approval>>

\* The validation still stands.
ValidationStands(r) ==
  review[r] # Unreviewed /\ clock <= review[r].validUntil /\ review[r].granted = generation

mutation_review_approve(r) ==
  /\ SourceGrounded(r) /\ ValidationStands(r) /\ approval[r] = Unreviewed
  /\ approval' = [approval EXCEPT ![r] =
       [created |-> clock, validUntil |-> review[r].validUntil, granted |-> generation]]
  /\ UNCHANGED <<retentionVars, review>>

ReviewNext ==
  \/ RetentionNext /\ UNCHANGED reviewVars
  \/ \E r \in Runs : mutation_review_validate(r) \/ mutation_review_approve(r)

ReviewSpec == RetentionInit /\ ReviewInit /\ [][ReviewNext]_<<retentionVars, reviewVars>>

\* mutation_review_current: EXCLUDED.
Excluded(r) ==
  /\ SourceGrounded(r) /\ ValidationStands(r)
  /\ approval[r] # Unreviewed /\ approval[r].granted = generation

-----------------------------------------------------------------------------
(* Properties.                                                              *)

\* What mutation_review_current checks of stored rows never fails: a query is
\* refused only for its source, never because of what was stored (_validation,
\* MUTATION_REVIEW_INVALID).
ReviewsReadable ==
  \A r \in Runs : review[r] # Unreviewed =>
    /\ run[r].created <= review[r].created /\ review[r].created <= clock
    /\ review[r].validUntil = Earlier(review[r].created + ReviewLife, ValidUntil(r))
    /\ approval[r] # Unreviewed =>
         review[r].created <= approval[r].created
         /\ approval[r].created <= Earlier(clock, review[r].validUntil)

\* An exclusion stands on two signatures and evidence of one and the same
\* period of permissions, measured, validated and approved in this order within
\* the life of that evidence.
ExclusionsGrounded ==
  \A r \in Runs : Excluded(r) =>
    /\ {run[r].granted, review[r].granted, approval[r].granted} = {generation}
    /\ run[r].observed <= review[r].created /\ review[r].created <= approval[r].created
    /\ clock <= run[r].observed + Freshness /\ clock <= review[r].created + ReviewLife
    /\ ~run[r].revoked /\ ~run[r].held /\ r \notin DOMAIN tombstone

\* What a reader of the reviews relies on.
ReviewsHold == ReviewsReadable /\ ExclusionsGrounded
=============================================================================
