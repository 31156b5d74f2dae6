---------------------------- MODULE FixtureOnce ----------------------------
(***************************************************************************)
(* What the supervisor of a fixture promises for each operation, whatever  *)
(* crashes, times out or arrives late: the fixture runs at most once, its  *)
(* one final outcome is fixed only while it does not run, a success only   *)
(* after it ended, and with an outcome fixed it never starts again.        *)
(***************************************************************************)
CONSTANTS Keys, Outcomes, Success, Open

VARIABLES
  phase,      \* the life of the fixture itself
  outcome     \* the final outcome, or Open

TypeOK ==
  /\ phase \in [Keys -> {"idle", "live", "ended"}]
  /\ outcome \in [Keys -> Outcomes \cup {Open}]

Init ==
  /\ phase = [k \in Keys |-> "idle"]
  /\ outcome = [k \in Keys |-> Open]

Start(k) ==
  /\ phase[k] = "idle" /\ outcome[k] = Open
  /\ phase' = [phase EXCEPT ![k] = "live"]
  /\ UNCHANGED outcome

End(k) ==
  /\ phase[k] = "live"
  /\ phase' = [phase EXCEPT ![k] = "ended"]
  /\ UNCHANGED outcome

Settle(k, o) ==
  /\ outcome[k] = Open /\ phase[k] # "live"
  /\ o = Success => phase[k] = "ended"
  /\ outcome' = [outcome EXCEPT ![k] = o]
  /\ UNCHANGED phase

Next == \E k \in Keys : Start(k) \/ End(k) \/ \E o \in Outcomes : Settle(k, o)

Spec == Init /\ [][Next]_<<phase, outcome>>
=============================================================================
