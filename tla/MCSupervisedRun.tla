--------------------------- MODULE MCSupervisedRun ---------------------------
(***************************************************************************)
(* Small instances of SupervisedRun and LlmSupervisedRun, one run with a    *)
(* plan of two entries, and of DiagnosticRun, one entry of another run:     *)
(* scenes of the same tables, in each of which the actors of the others are *)
(* away for good.  Only the diagnosis goes on to the last moment of the     *)
(* clock, past its deadline; the others end at the deadline.                *)
(***************************************************************************)
EXTENDS DiagnosticRun, LlmSupervisedRun

CONSTANTS r1, d1, o1, p1, p2, n1, n2, v1, v2, pr

MCFixture == [trials |-> 1, calls |-> 0, input |-> 0, output |-> 0, cost |-> 0]
MCReservations == {MCFixture}
MCZero == [input |-> 0, output |-> 0, cost |-> 0]
MCUsages == {MCZero}
MCPerCall == [input |-> 0, output |-> 0]
MCLimits ==
  [x \in Profiles |->
    [concurrent |-> 2, trials |-> 2, calls |-> 0, cost |-> 0, tokens |-> 0,
     global |-> 0, elapsed |-> 2]]
MCPlan == <<p1, p2>>
MCEntryOf == [p \in Operations |-> IF p = p1 THEN n1 ELSE n2]
MCStopEvent == [p \in Operations |-> IF p = p1 THEN v1 ELSE v2]
-----------------------------------------------------------------------------
(* The scenes.     An actor that is off can take no step.                  *)

SceneInit ==
  /\ SuperTables /\ NothingSaved /\ PoolEmpty
  /\ \/ sup = Idle /\ con = [Absent EXCEPT !.pc = "off"]
     \/ sup = [Idle EXCEPT !.pc = "off"] /\ con = Absent
     \/ sup = Idle /\ con = [Absent EXCEPT !.pc = "llm"]

\* In each scene only the conditions of its own run matter.  Bounds: a supervisor
\* dies a second time only while its conditions hold; the conditions of the pool
\* stay (a refusal of the authority is an error like any other there), and it dies
\* twice, or once with its clock one short of the deadline, or reaches it.
SceneNext ==
  \/ /\ In("off") /\ SuperNext /\ UNCHANGED <<diagVars, llmVars>>
     /\ d1 \in current' /\ lastClock' <= 2
     /\ r1 \notin current' => failures' <= 1
  \/ /\ In("llm") /\ LlmNext /\ UNCHANGED diagVars
     /\ current' = Runs /\ failures' + lastClock' <= 2
  \/ /\ At("off") /\ DiagNext /\ UNCHANGED llmVars
     /\ r1 \in current'

sceneVars == <<everything, llmVars>>

SceneSpec == SceneInit /\ [][SceneNext]_sceneVars

SceneLiveSpec == SceneSpec /\ FairCancel /\ FairDiagnosis /\ FairPool

\* What a consumer of one entry and the main thread of a pool take for true
\* of their operations is true.
ActorsHold == DiagnosisHolds /\ PoolHolds
=============================================================================
