---------------------------- MODULE CombinedRuns ----------------------------
(***************************************************************************)
(* Combined runs, combined_runs.py: one run that fixes two ordinary runs,  *)
(* its children, under one budget and one deadline.  The children are      *)
(* begun, started, stopped and ended by the requests of ResourceAuthority; *)
(* what those requests check in addition for a child is conjoined here.    *)
(*                                                                         *)
(* A child's gate tells of its end only if it has a receipt; the evidence  *)
(* behind the receipt can only refuse, and so can only keep the combined   *)
(* run waiting.                                                            *)
(***************************************************************************)
EXTENDS ResourceAuthority

CONSTANTS
  Children,     \* the runs that a combined run may fix
  FullProfile   \* the profile "full" of the policy both have

ASSUME CombinedAssumption ==
  Children \subseteq Regression /\ FullProfile \in Profiles

VARIABLES
  combined,        \* the binding: Null or the deadline it fixes
  cancelRequest,   \* combined_cancel_request: Null or its time
  combinedReceipt  \* combined_run_receipt: Null or its time

combinedVars == <<combined, cancelRequest, combinedReceipt>>
combinedAll == <<vars, combinedVars>>

CombinedInit ==
  Init /\ combined = Null /\ cancelRequest = Null /\ combinedReceipt = Null

-----------------------------------------------------------------------------
(* What is checked for a child.                                             *)

Child(r) == combined # Null /\ r \in Children

BegunChildren == {c \in Children : Known(c)}

\* The operations of both children that hold a slot.
ActiveSlots == MapThenSumSet(LAMBDA c : Slots(c), BegunChildren)

\* The trials of both children.
SharedTrials == MapThenSumSet(LAMBDA c : Trials(c), BegunChildren)

\* Mutant of SharedSlots: each child has the slots to itself.
OwnSlots(r) == Slots(r)

\* What a new operation of a child is added to.
SharedSlots(r) == ActiveSlots

\* Neither the combined run nor one of its children is to stop.
NoStopRequired ==
  cancelRequest = Null /\ \A c \in BegunChildren : ~runs[c].breached /\ ~runs[c].cancelled

\* Mutant of Going: one child's end is nothing to the other.
GoingAlone(r, now) ==
  cancelRequest = Null /\ now < combined

\* check_start up to the limits.
Going(r, now) == NoStopRequired /\ now < combined

\* check_start: what is new is added to what both children have.
CheckStart(r, p, now) ==
  Child(r) =>
    /\ Going(r, now)
    /\ p \notin DOMAIN ops =>
         /\ SharedSlots(r) < Limits[FullProfile].concurrent
         /\ SharedTrials + Fixture.trials <= Limits[FullProfile].trials

\* check_binding: the manifest of a child is the one that was fixed.
CheckBinding(r, profile, deadline, now) ==
  Child(r) =>
    /\ profile = FullProfile /\ deadline = combined
    /\ cancelRequest = Null /\ now < combined

-----------------------------------------------------------------------------
(* Requests about the combined run.                                         *)

\* The ids of parent and children are new.
combined_prepare(now) ==
  /\ Touch(now)
  /\ combined = Null /\ BegunChildren = {} /\ Children \subseteq current
  /\ combined' = now + Limits[FullProfile].elapsed
  /\ UNCHANGED <<runs, ops, events, grants, bindings, receipts, current,
                 cancelRequest, combinedReceipt>>

combined_cancel(now) ==
  /\ Touch(now)
  /\ combined # Null /\ combinedReceipt = Null /\ cancelRequest = Null
  /\ cancelRequest' = now
  /\ UNCHANGED <<runs, ops, events, grants, bindings, receipts, current,
                 combined, combinedReceipt>>

\* combined_finalize: a cancelled run waits for its operations, any other for
\* the end of both children.
combined_finalize(now) ==
  /\ Touch(now)
  /\ combined # Null /\ combinedReceipt = Null
  /\ \/ cancelRequest # Null /\ ActiveSlots = 0
     \/ Children \subseteq DOMAIN receipts
  /\ combinedReceipt' = now
  /\ UNCHANGED <<runs, ops, events, grants, bindings, receipts, current,
                 combined, cancelRequest>>

-----------------------------------------------------------------------------
ChildNext(now) ==
  \/ \E r \in Runs, o \in Owners :
       \/ \E profile \in Profiles, deadline \in now .. now + MaxClock :
            run_begin(now, r, profile, o, deadline) /\ CheckBinding(r, profile, deadline, now)
       \/ \E recovery \in BOOLEAN : resource_claim(now, r, o, recovery)
       \/ \E p \in Operations, entry \in Entries :
            resource_start(now, r, o, p, entry) /\ CheckStart(r, p, now)
       \/ resource_cancel_claim(now, r, o)
  \/ \E g \in grants :
       \/ \E p \in Operations, entry \in Entries :
            resource_reserve(now, g.run, g.owner, g.epoch, p, entry) /\ CheckStart(g.run, p, now)
       \/ \E p \in Operations :
            resource_dispatch(now, g.run, g.owner, g.epoch, p) /\ CheckStart(g.run, p, now)
       \/ resource_cancel(now, g.run, g.owner, g.epoch)
       \/ resource_close(now, g.run, g.owner, g.epoch)
  \/ \E v \in Events, m \in Reports : resource_observe(now, m.op, v, m.stopped, m.usage)
  \/ \E r \in Runs :
       cancel_answered(now, r) \/ evidence_finalize(now, r) \/ run_cancel_finalize(now, r)

CombinedNext ==
  \/ \E now \in Times :
       \/ ChildNext(now) /\ UNCHANGED combinedVars
       \/ combined_prepare(now) \/ combined_cancel(now)
       \/ combined_finalize(now)
  \/ ChangeConditions /\ UNCHANGED combinedVars

CombinedSpec == CombinedInit /\ [][CombinedNext]_combinedAll

-----------------------------------------------------------------------------
(* Properties.                                                              *)

\* Two children that are started independently never have more operations at
\* once, and never more trials in all, than the budget of one run (check_start
\* adds up both books in the transaction that reserves).
SharedBudgetHolds ==
  combined # Null =>
    /\ ActiveSlots <= Limits[FullProfile].concurrent
    /\ SharedTrials <= Limits[FullProfile].trials

\* Once the combined run has its receipt, neither child executes anything,
\* then or ever after, although a child of a cancelled one need not have been
\* cancelled itself (combined_finalize and check_start).
CombinedEndIsEnd ==
  combinedReceipt # Null =>
    \A c \in BegunChildren : \A p \in OpsOf(c) :
      ops[p].intended # Null => ops[p].stopped # Null

\* The combined run's promise about its children.
CombinedHolds == SharedBudgetHolds /\ CombinedEndIsEnd

\* A stop of one child or of the combined run stops both: from then on no
\* operation of either is dispatched (docs/combined-run-detail-spec.md,
\* check_start in every request that dispatches).
StopsTogether ==
  \A p \in DOMAIN ops' :
    combined # Null /\ ops'[p].run \in Children /\ ops'[p].intended # Null
      /\ (p \in DOMAIN ops => ops[p].intended = Null)
    => /\ cancelRequest = Null /\ combinedReceipt = Null
       /\ \A c \in BegunChildren : ~runs[c].cancelled /\ ~runs[c].breached

\* Nothing starts twice, for an earlier owner, or after the end of its run or of
\* its sibling, and the end of a run is told by one receipt for ever.
NothingStartsAgain == [][DispatchStep /\ StoppedStep /\ ReceiptStep /\ StopsTogether]_combinedAll
=============================================================================
