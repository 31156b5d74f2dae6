---------------------------- MODULE MCDeployment ----------------------------
(* A deployment of the authority: the budgets its resource book keeps, and   *)
(* the containers that requests reach it through.                            *)
EXTENDS ResourceBook, AuthorityRuntime, TLC

CONSTANTS r1, r2, o1, p1, p2, v1, v2, pr, full, user, cleaner, b1, b2, i1

-----------------------------------------------------------------------------
(* The budgets: costs only.                                                 *)

MCRes(trials, calls, tokens, cost) ==
  [trials |-> trials, calls |-> calls, input |-> tokens, output |-> tokens,
   cost |-> cost]
MCUse(tokens, cost) == [input |-> tokens, output |-> tokens, cost |-> cost]
MCPerCall == [input |-> 1, output |-> 1]
MCBilled == {MCRes(1, 0, 0, 1), MCRes(1, 1, 1, 2)}
MCCosts == {MCUse(0, 1), MCUse(0, 4)}
MCBudgetLimits ==
  [x \in Profiles |->
    [concurrent |-> IF x = pr THEN 1 ELSE 2, trials |-> 2, calls |-> 1,
     cost |-> 3, tokens |-> 2, global |-> IF x = pr THEN 2 ELSE 3,
     elapsed |-> 2]]

\* The calls that move money: a run ends by cancellation only,
\* and an operation reports its stop and its usage together.
BudgetNext ==
  \E now \in Times :
    \/ \E r \in Runs, o \in Owners, profile \in Profiles :
         create_run(now, r, profile, o, now + 2)
    \/ \E r \in Runs, o \in Owners : claim_for_cancel(now, r, o, FALSE)
    \/ \E g \in grants :
         \E p \in Operations :
           \/ \E res \in Reservations :
                reserve(now, g.run, g.owner, g.epoch, p, res)
           \/ dispatch_intent(now, g.run, g.owner, g.epoch, p)
    \/ \E v \in Events, p \in Operations, usage \in Usages :
         observe(now, p, v, TRUE, usage)

\* Bound: two runs are both full ones; of the other profiles there is one run alone.
TwoFull == Cardinality(DOMAIN runs) > 1 => \A r \in DOMAIN runs : runs[r].profile = full

MCSymmetry == Permutations(Runs) \cup Permutations(Operations) \cup Permutations(Events)

-----------------------------------------------------------------------------
(* The containers.                                                          *)

\* Bounds: one program uses the deployment, the other cleans up or prepares, a
\* single creation is late, and the broker, once it has ended, is gone.
OneUser ==
  /\ program[user].mode # "clean"
  /\ program[cleaner].mode = "clean" \/ program[cleaner].pc \in {"away", "idle", "saveBroker"}
  /\ Cardinality(late) <= 1 /\ Broker \notin late
  /\ box[Broker] # "exited"

-----------------------------------------------------------------------------
\* Bound: the book and the containers share nothing, and one of them moves.
DeploymentNext ==
  \/ RuntimeInit /\ BudgetNext /\ UNCHANGED runtimeVars
  \/ BookInit /\ RuntimeNext /\ UNCHANGED bookVars

DeploymentInit == BookInit /\ RuntimeInit

DeploymentSpec == DeploymentInit /\ [][DeploymentNext]_<<bookVars, runtimeVars>>
=============================================================================
