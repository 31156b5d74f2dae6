--------------------------- MODULE MCDockerRunner ---------------------------
(* Two scenes of programs that die and start again on one host.  Docker: one *)
(* operation, as the lock, the row, the container and the requests of        *)
(* different operations never meet; two processes contend for it.  Commands: *)
(* two callers share a retention request, or two commands that meet at one   *)
(* output: two bundles, a pilot and an import, two measurements of a run.    *)
EXTENDS DockerRunner, CommandJournal

CONSTANTS k1, t1, c1, q1, p1, p2, ret, b1, b2, pilot, import, m1, m2

MCProgram ==
  [q \in Jobs |->
    CASE q = ret -> "retention" [] q \in {b1, b2} -> "bundle" [] q = pilot -> "pilot"
      [] q = import -> "import" [] q \in {m1, m2} -> "measure"]

MCOutput ==
  [q \in Jobs |->
    CASE q = ret -> "artifact" [] q \in {b1, b2} -> "folder"
      [] q \in {pilot, import} -> "document" [] q \in {m1, m2} -> "run"]

Groups == {{ret}, {b1, b2}, {pilot, import}, {m1, m2}}

InUse == {q \in Jobs : entry[q] # NotBegun \/ \E c \in Callers : calling[c].command = q}

\* Commands of one group are in use, of two alike the first one first; the
\* authority has no say in measurements, only a retention request meets a second
\* trouble, and only a command alone both trouble and a change of the authority.
OneGroup ==
  /\ \E g \in Groups : InUse \subseteq g
  /\ b2 \in InUse => b1 \in InUse
  /\ m1 \in InUse => climate = "open"
  /\ m2 \in InUse => m1 \in InUse
  /\ troubles > 1 => InUse = {ret}
  /\ troubles + withdrawals > 1 => Cardinality(InUse) = 1

\* The callers are alike: the second one comes while the first one is there.
FirstComes ==
  Doing(p2, "away") /\ ~Doing(p2, "away")' => ~Doing(p1, "away")

\* A scene is chosen by its first step.
NoContainerYet == proc = [p \in Procs |-> Idle] /\ \A k \in Keys : journal[k] = Absent

NoCommandYet == InUse = {} /\ withdrawals = 0 /\ \A p \in Paths : holder[p] = "free"

HostInit ==
  /\ Init /\ CommandInit
  /\ \A p \in Paths \ {"document"} : holder[p] = "free"

HostNext ==
  \/ NoCommandYet /\ Next /\ UNCHANGED commandVars
  \/ NoContainerYet /\ CommandNext /\ OneGroup' /\ FirstComes /\ UNCHANGED vars

HostSpec == HostInit /\ [][HostNext]_<<vars, commandVars>> /\ FairSupervision
=============================================================================
