---------------------------- MODULE DockerProofs ----------------------------
(* Proofs about the supervisor of a fixture and its journal, for every set  *)
(* of operations, processes, requests, tokens and containers: what the      *)
(* journal says is true whoever dies, and the fixture runs at most once.    *)
EXTENDS DockerRunner, TLAPS

-----------------------------------------------------------------------------
(* The inductive invariant.  An operation is described by its row j, its    *)
(* container d and the requests f that the daemon may still perform.        *)

TypeOK ==
  /\ journal \in [Keys -> Row \cup {Absent}]
  /\ owner \in [Keys -> Procs \cup {Nobody}]
  /\ proc \in [Procs -> Local]
  /\ daemon \in [Keys -> Container]
  /\ inflight \in [Keys -> SUBSET Commands]

\* The row can be read back, and it names a container from CREATED on.
RowOK(j) ==
  /\ j = Absent \/ Readable(j)
  /\ j.state = "INTENT" => j.container = None
  /\ j.state \in {"CREATED", "STARTING", "RUNNING", "STOPPED"} => j.container # None

\* The container the row names is the one there is, and nothing happens to an
\* operation before the journal tells that it may.
AnnouncedOK(j, d, f) ==
  /\ j.container # None => d.state # "absent" /\ j.container = d.id
  /\ d.state # "absent" \/ f # {} => Exists(j)
  /\ d.ran \/ "start" \in f =>
       /\ j.state \notin {"ABSENT", "INTENT", "CREATED"}
       /\ j.container # None
       /\ d.isolated

\* A container is started once, and is gone when its receipt is stored.
StartedOK(j, d, f) ==
  /\ d.ran => "start" \notin f /\ d.state \in {"running", "exited", "removed"}
  /\ d.state = "running" => d.ran
  /\ j.state = "FINISHED" /\ j.container # None => d.state = "removed"

KeyOK(j, d, f) == RowOK(j) /\ AnnouncedOK(j, d, f) /\ StartedOK(j, d, f)

\* What a process knows of its operation at each place of run and recover.
PlaceOK(l, j, d, f) ==
  /\ j.state \notin {"ABSENT", "FINISHED"}
  /\ l.pc \in RunBody => ~l.recovering
  /\ l.pc \in {"verify", "create", "creating"} => j.state = "INTENT"
  /\ l.pc = "configure" => j.state = "CREATED"
  /\ l.pc \in {"start", "attached", "result"} => j.state = "STARTING" /\ l.verified
  /\ l.pc = "start" => ~d.ran /\ "start" \notin f /\ d.isolated
  /\ l.pc \in {"kill", "recheck", "stop"} => j.container # None
  /\ l.pc \in {"remove", "removed"} => j.state = "STOPPED"
  /\ l.pc = "settle" /\ l.stopped /\ l.cleaned =>
       j.container = None \/ (j.state = "STOPPED" /\ d.state = "removed")

\* A verdict of success: the fixture ended with code zero and cannot run again.
SuccessOK(l, j, d, f) ==
  l.verdict = "COMPLETED" /\ l.pc \in CleanupBody \cup {"settle"} =>
    /\ ~l.recovering /\ l.verified
    /\ l.pc \notin {"kill", "recheck"}
    /\ j.container # None
    /\ d.ran /\ d.state \in {"exited", "removed"} /\ d.exit = "zero"
    /\ l.pc = "cleanup" => j.state = "RUNNING"
    /\ l.pc \in {"stop", "remove", "removed"} => l.exit = "zero"
    /\ l.pc = "settle" /\ l.stopped /\ l.cleaned => l.exit = "zero"

\* A process at work owns its operation and has read its row.
ProcOK(p) ==
  ~At(p, "idle") =>
    /\ Key(p) \in Keys
    /\ owner[Key(p)] = p
    /\ Rec(p) = journal[Key(p)]
    /\ PlaceOK(proc[p], journal[Key(p)], daemon[Key(p)], inflight[Key(p)])
    /\ SuccessOK(proc[p], journal[Key(p)], daemon[Key(p)], inflight[Key(p)])

Inv ==
  /\ \A k \in Keys : KeyOK(journal[k], daemon[k], inflight[k])
  /\ \A p \in Procs : ProcOK(p)
-----------------------------------------------------------------------------
(* Type correctness.                                                        *)

LEMMA TypeInit == Init => TypeOK
  BY NoneAssumption DEF Init, JournalInit, TypeOK, Idle, NoContainer, Local, Container,
     RunBody, CleanupBody, Statuses

\* The rows a step of the journal writes are rows.
LEMMA RowTypes ==
  /\ \A q \in Requests, t \in Tokens : NewRow(q, t) \in Row
  /\ \A r \in Row, s \in States, c \in Containers \cup {None} : Advanced(r, s, c) \in Row
  /\ \A r \in Row, rc \in Receipt : Finished(r, rc) \in Row
  BY DEF NewRow, Advanced, Finished, Row, States

\* A process that goes on with a well-typed local state keeps the types.
LEMMA LocalType ==
  ASSUME TypeOK, NEW p \in Procs, NEW l \in Local, Local1(p, l)
  PROVE  proc' \in [Procs -> Local]
  BY DEF TypeOK, Local1

\* A process at work has the row of its operation.
LEMMA Working ==
  ASSUME TypeOK, Inv, NEW p \in Procs, ~At(p, "idle")
  PROVE  /\ Key(p) \in Keys
         /\ owner[Key(p)] = p
         /\ Rec(p) = journal[Key(p)]
         /\ journal[Key(p)] \in Row
         /\ proc[p] \in Local
         /\ daemon[Key(p)] \in Container
         /\ inflight[Key(p)] \in SUBSET Commands
         /\ PlaceOK(proc[p], journal[Key(p)], daemon[Key(p)], inflight[Key(p)])
         /\ SuccessOK(proc[p], journal[Key(p)], daemon[Key(p)], inflight[Key(p)])
         /\ KeyOK(journal[Key(p)], daemon[Key(p)], inflight[Key(p)])
<1>1. ProcOK(p)
  BY DEF Inv
<1>2. Key(p) \in Keys /\ Rec(p) = journal[Key(p)] /\ owner[Key(p)] = p
  BY <1>1 DEF ProcOK
<1>3. journal[Key(p)].state # "ABSENT"
  BY <1>1 DEF ProcOK, PlaceOK
<1>4. journal[Key(p)] \in Row
  BY <1>2, <1>3 DEF TypeOK, Absent
<1> QED
  BY <1>1, <1>2, <1>4 DEF TypeOK, Inv, ProcOK

\* Sending a command keeps the types.
LEMMA SendType ==
  ASSUME TypeOK, NEW p \in Procs, NEW c \in Commands,
         NEW pc \in RunBody \cup CleanupBody, Send(p, c, pc)
  PROVE  TypeOK'
<1>1. proc[p] \in Local
  BY DEF TypeOK
<1>2. [proc[p] EXCEPT !.pc = pc] \in Local
  BY <1>1 DEF Local
<1>3. proc' \in [Procs -> Local]
  BY <1>2, LocalType DEF Send, Goto
<1>4. inflight' \in [Keys -> SUBSET Commands]
  BY DEF Send, TypeOK
<1> QED
  BY <1>3, <1>4 DEF Send, TypeOK

LEMMA TypeStep == TypeOK /\ Inv /\ [Next]_vars => TypeOK'
<1> SUFFICES ASSUME TypeOK, Inv, [Next]_vars PROVE TypeOK'
  OBVIOUS
<1>1. CASE UNCHANGED vars
  BY <1>1 DEF TypeOK, vars
<1>2. ASSUME NEW k \in Keys, DaemonStep(k) PROVE TypeOK'
  <2>1. daemon[k] \in Container /\ inflight[k] \in SUBSET Commands
    BY DEF TypeOK
  <2>2. ASSUME NEW c, NEW x \in Container, Performed(k, c, x) PROVE TypeOK'
    BY <2>1, <2>2 DEF Performed, TypeOK
  <2>3. CASE daemon_create(k)
    BY <2>2, <2>3 DEF daemon_create, NoContainer, Container
  <2>4. CASE daemon_start(k)
    BY <2>1, <2>2, <2>4 DEF daemon_start, Container
  <2>5. CASE daemon_kill(k)
    BY <2>1, <2>2, <2>5 DEF daemon_kill, Container
  <2>6. CASE daemon_rm(k)
    BY <2>1, <2>2, <2>6 DEF daemon_rm, Container
  <2>7. CASE daemon_drop(k)
    BY <2>1, <2>2, <2>7 DEF daemon_drop
  <2>8. CASE daemon_exit(k)
    <3>1. PICK e \in {"zero", "other"} :
            daemon' = [daemon EXCEPT ![k].state = "exited", ![k].exit = e]
      BY <2>8 DEF daemon_exit
    <3>2. [daemon[k] EXCEPT !.state = "exited", !.exit = e] \in Container
      BY <2>1 DEF Container
    <3>3. daemon' = [daemon EXCEPT ![k] = [daemon[k] EXCEPT !.state = "exited", !.exit = e]]
      BY <2>1, <3>1 DEF Container, TypeOK
    <3> QED
      BY <2>8, <3>2, <3>3 DEF daemon_exit, TypeOK
  <2>9. CASE daemon_disappear(k)
    BY <2>1, <2>9 DEF daemon_disappear, Container, TypeOK
  <2> QED
    BY <1>2, <2>3, <2>4, <2>5, <2>6, <2>7, <2>8, <2>9 DEF DaemonStep
<1>3. ASSUME NEW p \in Procs, RunStep(p) \/ CleanupStep(p) \/ crash(p) PROVE TypeOK'
  <2>1. proc[p] \in Local /\ Idle \in Local
    BY NoneAssumption DEF TypeOK, Idle, Local, Statuses
  <2>2. ~At(p, "idle")
    BY <1>3 DEF RunStep, CleanupStep, verify_image, send_create, created, configure,
       send_start, attached, result, raise, cleanup_gone, cleanup_found, send_kill,
       recheck, stop, send_rm, removed, cleanup_fails, settle, crash, At, RunBody,
       CleanupBody
  <2>3. /\ Key(p) \in Keys /\ Rec(p) = journal[Key(p)] /\ journal[Key(p)] \in Row
        /\ daemon[Key(p)] \in Container
    BY <2>2, Working
  <2>4. ASSUME NEW l \in Local, Local1(p, l), UNCHANGED <<journal, owner, daemon, inflight>>
        PROVE  TypeOK'
    BY <2>4, LocalType DEF TypeOK
  <2>5. ASSUME NEW s \in States, NEW c \in Containers \cup {None}
        PROVE  /\ Advanced(Rec(p), s, c) \in Row
               /\ advance(Key(p), Rec(p).token, s, c) => journal' \in [Keys -> Row \cup {Absent}]
    BY <2>3, RowTypes DEF advance, TypeOK
  <2>6. ASSUME NEW l \in Local, Local1(p, l), journal' \in [Keys -> Row \cup {Absent}],
               UNCHANGED <<owner, daemon, inflight>>
        PROVE  TypeOK'
    BY <2>6, LocalType DEF TypeOK
  <2>7. CASE verify_image(p)
    BY <2>1, <2>4, <2>7 DEF verify_image, Goto, Local, RunBody
  <2>8. CASE send_create(p)
    BY <2>8, SendType DEF send_create, Commands, RunBody
  <2>9. CASE created(p)
    <3>1. daemon[Key(p)].id \in Containers \cup {None} /\ "CREATED" \in States
      BY <2>3 DEF Container, States
    <3> QED
      BY <3>1, <2>1, <2>5, <2>6, <2>9 DEF created, Advance, Local, RunBody, Rec
  <2>10. CASE configure(p)
    <3>1. Rec(p).container \in Containers \cup {None} /\ "STARTING" \in States
      BY <2>3 DEF Row, States
    <3> QED
      BY <3>1, <2>1, <2>5, <2>6, <2>10 DEF configure, Local, RunBody, Rec
  <2>11. CASE send_start(p)
    BY <2>11, SendType DEF send_start, Commands, RunBody
  <2>12. CASE attached(p)
    BY <2>1, <2>4, <2>12 DEF attached, Local, RunBody
  <2>13. CASE result(p)
    <3> DEFINE row == IF Same(p) /\ daemon[Key(p)].ran
                      THEN Advanced(Rec(p), "RUNNING", Rec(p).container) ELSE Rec(p)
    <3>1. Rec(p).container \in Containers \cup {None} /\ "RUNNING" \in States
      BY <2>3 DEF Row, States
    <3>2. row \in Row
      BY <2>3, <2>5, <3>1
    <3>3. row.state \in States /\ row.container \in Containers \cup {None}
      BY <3>2 DEF Row
    <3>4. /\ row = Rec(p) => UNCHANGED journal
          /\ row # Rec(p) => advance(Key(p), Rec(p).token, row.state, row.container)
          /\ UNCHANGED <<owner, daemon, inflight>>
      BY <2>13 DEF result
    <3>5. journal' \in [Keys -> Row \cup {Absent}]
      BY <2>5, <3>3, <3>4 DEF TypeOK
    <3>6. \E v \in Statuses :
            Local1(p, [proc[p] EXCEPT !.pc = "cleanup", !.verdict = v, !.rec = row])
      BY <2>1, <2>13 DEF result, Statuses, Local
    <3>7. \A v \in Statuses :
            [proc[p] EXCEPT !.pc = "cleanup", !.verdict = v, !.rec = row] \in Local
      BY <2>1, <3>2 DEF Local, CleanupBody
    <3> QED
      BY <2>6, <3>4, <3>5, <3>6, <3>7, ZenonT(60)
  <2>14. CASE raise(p)
    BY <2>1, <2>4, <2>14 DEF raise, Local, CleanupBody
  <2>15. CASE cleanup_gone(p)
    BY <2>1, <2>4, <2>15, ZenonT(60) DEF cleanup_gone, Confirm, GoneConfirms, Local
  <2>16. CASE cleanup_found(p)
    <3>1. daemon[Key(p)].id \in Containers \cup {None} /\ "CREATED" \in States
      BY <2>3 DEF Container, States
    <3>2. Adopted(p) \in Row
      BY <2>3, <2>5, <3>1 DEF Adopted
    <3>3. journal' \in [Keys -> Row \cup {Absent}]
      BY <2>5, <2>16, <3>1 DEF cleanup_found, TypeOK
    <3>4. ExitCode(Key(p)) \in {"zero", "other", "unknown"}
      BY <2>3 DEF ExitCode, Container
    <3>5. [proc[p] EXCEPT !.pc = IF Stopped(Key(p)) THEN "stop" ELSE "kill",
                          !.exit = ExitCode(Key(p)), !.rec = Adopted(p)] \in Local
      BY <2>1, <3>2, <3>4 DEF Local, CleanupBody
    <3> QED
      BY <2>6, <2>16, <3>3, <3>5 DEF cleanup_found
  <2>17. CASE send_kill(p)
    BY <2>17, SendType DEF send_kill, Commands, CleanupBody
  <2>18. CASE recheck(p)
    BY <2>1, <2>3, <2>4, <2>18, ZenonT(60)
    DEF recheck, Confirm, ExitCode, Container, Local, CleanupBody
  <2>19. CASE stop(p)
    <3>1. Rec(p).container \in Containers \cup {None} /\ "STOPPED" \in States
      BY <2>3 DEF Row, States
    <3> QED
      BY <3>1, <2>1, <2>5, <2>6, <2>19 DEF stop, Advance, Local, CleanupBody, Rec
  <2>20. CASE send_rm(p)
    BY <2>20, SendType DEF send_rm, Commands, CleanupBody
  <2>21. CASE removed(p)
    BY <2>1, <2>4, <2>21 DEF removed, Removed, Local
  <2>22. CASE cleanup_fails(p)
    BY <2>1, <2>4, <2>22 DEF cleanup_fails, Confirm, Local
  <2>23. CASE settle(p)
    <3>1. PICK v \in FinalStatuses(p) :
            IF Settled(p) THEN finish(Key(p), Rec(p).token, FinalReceipt(p, v))
            ELSE UNCHANGED journal
      BY <2>23 DEF settle
    <3>2. FinalReceipt(p, v) \in Receipt
      BY <2>1, <2>3 DEF FinalReceipt, FinalStatuses, Receipt, Local, Statuses, Row, Rec
    <3>3. journal' \in [Keys -> Row \cup {Absent}]
      BY <2>3, <3>1, <3>2, RowTypes DEF finish, TypeOK
    <3>4. proc' \in [Procs -> Local]
      BY <2>1, <2>23, LocalType DEF settle
    <3> QED
      BY <2>23, <3>3, <3>4 DEF settle, TypeOK
  <2>24. CASE crash(p)
    BY <2>1, <2>24, LocalType DEF crash, TypeOK
  <2> QED
    BY <1>3, <2>7, <2>8, <2>9, <2>10, <2>11, <2>12, <2>13, <2>14, <2>15, <2>16, <2>17,
       <2>18, <2>19, <2>20, <2>21, <2>22, <2>23, <2>24 DEF RunStep, CleanupStep
<1>4. ASSUME NEW p \in Procs, NEW k \in Keys, run_new(p, k) PROVE TypeOK'
  <2>1. PICK q \in Requests, t \in Tokens :
          /\ begin(k, q, t)
          /\ Local1(p, [Idle EXCEPT !.pc = "verify", !.key = k, !.rec = NewRow(q, t)])
    BY <1>4 DEF run_new
  <2>2. NewRow(q, t) \in Row
    BY RowTypes
  <2>3. [Idle EXCEPT !.pc = "verify", !.key = k, !.rec = NewRow(q, t)] \in Local
    BY <2>2 DEF Idle, Local, RunBody, Statuses
  <2>4. proc' \in [Procs -> Local]
    BY <2>1, <2>3, LocalType
  <2> QED
    BY <1>4, <2>1, <2>2, <2>4 DEF run_new, begin, TypeOK
<1>5. ASSUME NEW p \in Procs, NEW k \in Keys, recover(p, k) PROVE TypeOK'
  <2>1. [Idle EXCEPT !.pc = "cleanup", !.key = k, !.rec = journal[k],
                     !.recovering = TRUE] \in Local
    BY DEF Idle, Local, CleanupBody, Statuses, TypeOK
  <2>2. proc' \in [Procs -> Local]
    BY <1>5, <2>1, LocalType DEF recover
  <2> QED
    BY <1>5, <2>2 DEF recover, TypeOK
<1> QED
  BY <1>1, <1>2, <1>3, <1>4, <1>5 DEF Next
-----------------------------------------------------------------------------
(* Operations do not meet: a step disturbs what is known of one operation   *)
(* only.                                                                    *)

\* What a process does to its own operation leaves the others alone, because
\* no two processes own one operation.
LEMMA ProcessFrame ==
  ASSUME TypeOK, Inv, NEW p \in Procs, NEW k \in Keys, owner[k] \in {p, Nobody},
         \A x \in Keys \ {k} :
           /\ journal'[x] = journal[x] /\ daemon'[x] = daemon[x]
           /\ inflight'[x] = inflight[x] /\ owner'[x] = owner[x],
         \A x \in Procs \ {p} : proc'[x] = proc[x],
         KeyOK(journal'[k], daemon'[k], inflight'[k]),
         ProcOK(p)'
  PROVE  Inv'
<1>1. ASSUME NEW x \in Keys PROVE KeyOK(journal'[x], daemon'[x], inflight'[x])
  <2>1. CASE x = k
    BY <2>1
  <2>2. CASE x # k
    BY <2>2 DEF Inv
  <2> QED
    BY <2>1, <2>2
<1>2. ASSUME NEW x \in Procs, x # p PROVE ProcOK(x)'
  <2> SUFFICES ASSUME ~At(x, "idle")' PROVE ProcOK(x)'
    BY DEF ProcOK
  <2>1. proc'[x] = proc[x] /\ ~At(x, "idle")
    BY <1>2 DEF At
  <2>2. /\ Key(x) \in Keys /\ owner[Key(x)] = x /\ Rec(x) = journal[Key(x)]
        /\ PlaceOK(proc[x], journal[Key(x)], daemon[Key(x)], inflight[Key(x)])
        /\ SuccessOK(proc[x], journal[Key(x)], daemon[Key(x)], inflight[Key(x)])
    BY <2>1, Working
  <2>3. Key(x) # k
    BY <1>2, <2>2, ProcsAssumption
  <2>4. Key(x)' = Key(x) /\ Rec(x)' = Rec(x)
    BY <2>1 DEF Key, Rec
  <2> QED
    BY <2>1, <2>2, <2>3, <2>4 DEF ProcOK
<1> QED
  BY <1>1, <1>2 DEF Inv

\* What the daemon does to a container leaves the other operations alone.
LEMMA DaemonFrame ==
  ASSUME TypeOK, Inv, NEW k \in Keys, UNCHANGED <<journal, owner, proc>>,
         \A x \in Keys \ {k} : daemon'[x] = daemon[x] /\ inflight'[x] = inflight[x],
         KeyOK(journal[k], daemon'[k], inflight'[k]),
         \A p \in Procs : ~At(p, "idle") /\ Key(p) = k =>
           /\ PlaceOK(proc[p], journal[k], daemon'[k], inflight'[k])
           /\ SuccessOK(proc[p], journal[k], daemon'[k], inflight'[k])
  PROVE  Inv'
<1>1. ASSUME NEW x \in Keys PROVE KeyOK(journal'[x], daemon'[x], inflight'[x])
  <2>1. CASE x = k
    BY <2>1
  <2>2. CASE x # k
    BY <2>2 DEF Inv
  <2> QED
    BY <2>1, <2>2
<1>2. ASSUME NEW x \in Procs PROVE ProcOK(x)'
  <2> SUFFICES ASSUME ~At(x, "idle")' PROVE ProcOK(x)'
    BY DEF ProcOK
  <2>1. ~At(x, "idle")
    BY DEF At
  <2>2. /\ Key(x) \in Keys /\ owner[Key(x)] = x /\ Rec(x) = journal[Key(x)]
        /\ PlaceOK(proc[x], journal[Key(x)], daemon[Key(x)], inflight[Key(x)])
        /\ SuccessOK(proc[x], journal[Key(x)], daemon[Key(x)], inflight[Key(x)])
    BY <2>1, Working
  <2>3. Key(x)' = Key(x) /\ Rec(x)' = Rec(x)
    BY DEF Key, Rec
  <2>4. CASE Key(x) = k
    BY <2>1, <2>2, <2>3, <2>4 DEF ProcOK
  <2>5. CASE Key(x) # k
    BY <2>2, <2>3, <2>5 DEF ProcOK
  <2> QED
    BY <2>4, <2>5
<1> QED
  BY <1>1, <1>2 DEF Inv

\* A process that goes on with the same operation: it is enough to look at its
\* local state, the row and the requests it leaves.
LEMMA WorkStep ==
  ASSUME TypeOK, Inv, NEW p \in Procs, ~At(p, "idle"),
         NEW l, Local1(p, l), l.key = Key(p),
         NEW j, journal' = [journal EXCEPT ![Key(p)] = j], l.rec = j,
         NEW f, inflight' = [inflight EXCEPT ![Key(p)] = f],
         UNCHANGED <<owner, daemon>>,
         KeyOK(j, daemon[Key(p)], f),
         PlaceOK(l, j, daemon[Key(p)], f),
         SuccessOK(l, j, daemon[Key(p)], f)
  PROVE  Inv'
<1> DEFINE k == Key(p)
<1>1. k \in Keys /\ owner[k] = p
  BY Working
<1>2. proc'[p] = l /\ journal'[k] = j /\ inflight'[k] = f
  BY <1>1 DEF TypeOK, Local1
<1>3. ProcOK(p)'
  BY <1>1, <1>2 DEF ProcOK, Key, Rec
<1>4. \A x \in Keys \ {k} : journal'[x] = journal[x] /\ inflight'[x] = inflight[x]
  BY DEF TypeOK
<1>5. \A x \in Procs \ {p} : proc'[x] = proc[x]
  BY DEF TypeOK, Local1
<1> QED
  BY <1>1, <1>2, <1>3, <1>4, <1>5, ProcessFrame

\* A step that only concerns the process itself.
LEMMA ThinkStep ==
  ASSUME TypeOK, Inv, NEW p \in Procs, ~At(p, "idle"),
         NEW l, Local1(p, l), l.key = Key(p), l.rec = Rec(p),
         UNCHANGED <<journal, owner, daemon, inflight>>,
         PlaceOK(l, Rec(p), daemon[Key(p)], inflight[Key(p)]),
         SuccessOK(l, Rec(p), daemon[Key(p)], inflight[Key(p)])
  PROVE  Inv'
<1> DEFINE k == Key(p)
<1>1. /\ journal' = [journal EXCEPT ![k] = journal[k]]
      /\ inflight' = [inflight EXCEPT ![k] = inflight[k]]
  BY DEF TypeOK
<1>2. Rec(p) = journal[k] /\ KeyOK(journal[k], daemon[k], inflight[k])
  BY Working
<1> QED
  BY <1>1, <1>2, WorkStep

\* A step that sends a command.
LEMMA SendStep ==
  ASSUME TypeOK, Inv, NEW p \in Procs, ~At(p, "idle"), NEW c, NEW pc, Send(p, c, pc),
         LET l == [proc[p] EXCEPT !.pc = pc]
             f == inflight[Key(p)] \cup {c}
         IN  /\ KeyOK(Rec(p), daemon[Key(p)], f)
             /\ PlaceOK(l, Rec(p), daemon[Key(p)], f)
             /\ SuccessOK(l, Rec(p), daemon[Key(p)], f)
  PROVE  Inv'
<1> DEFINE k == Key(p)
           l == [proc[p] EXCEPT !.pc = pc]
<1>1. journal' = [journal EXCEPT ![k] = journal[k]]
  BY DEF TypeOK, Send
<1>2. Rec(p) = journal[k] /\ proc[p] \in Local /\ k \in Keys
  BY Working
<1>3. inflight' = [inflight EXCEPT ![k] = inflight[k] \cup {c}]
  BY <1>2 DEF Send, TypeOK
<1>4. l.key = k /\ l.rec = journal[k]
  BY <1>2 DEF Key, Rec, Local
<1> QED
  BY <1>1, <1>2, <1>3, <1>4, WorkStep DEF Send, Goto
-----------------------------------------------------------------------------
(* The invariant.                                                           *)

LEMMA InvInit == Init => Inv
  BY DEF Init, JournalInit, Inv, KeyOK, RowOK, AnnouncedOK, StartedOK, ProcOK, At, Idle,
     NoContainer, Absent

\* Nothing the daemon does, now or later, makes the journal wrong.
LEMMA DaemonInv ==
  ASSUME TypeOK, Inv, NEW k \in Keys, DaemonStep(k)
  PROVE  Inv'
<1> DEFINE j == journal[k]
           d == daemon[k]
           f == inflight[k]
<1>1. KeyOK(j, d, f) /\ d \in Container
  BY DEF Inv, TypeOK
<1>2. \A p \in Procs : ~At(p, "idle") /\ Key(p) = k =>
        PlaceOK(proc[p], j, d, f) /\ SuccessOK(proc[p], j, d, f)
  BY Working
<1>3. ASSUME NEW x, NEW g, g \subseteq f,
             daemon' = [daemon EXCEPT ![k] = x],
             inflight' = [inflight EXCEPT ![k] = g],
             UNCHANGED <<journal, owner, proc>>,
             KeyOK(j, x, g),
             \A p \in Procs : PlaceOK(proc[p], j, d, f) => PlaceOK(proc[p], j, x, g),
             \A p \in Procs : SuccessOK(proc[p], j, d, f) => SuccessOK(proc[p], j, x, g)
      PROVE  Inv'
  <2>1. daemon'[k] = x /\ inflight'[k] = g
    BY <1>3 DEF TypeOK
  <2>2. \A y \in Keys \ {k} : daemon'[y] = daemon[y] /\ inflight'[y] = inflight[y]
    BY <1>3 DEF TypeOK
  <2> QED
    BY <1>2, <1>3, <2>1, <2>2, DaemonFrame
<1> USE DEF KeyOK, RowOK, AnnouncedOK, StartedOK, PlaceOK, SuccessOK
<1>4. CASE daemon_create(k)
  <2>1. PICK c \in Containers, i \in BOOLEAN :
          Performed(k, "create",
            [NoContainer EXCEPT !.state = "created", !.id = c, !.isolated = i])
    BY <1>4 DEF daemon_create
  <2> DEFINE x == [NoContainer EXCEPT !.state = "created", !.id = c, !.isolated = i]
             g == f \ {"create"}
  <2>2. x.state = "created" /\ x.id = c /\ ~x.ran /\ x.isolated = i
    BY DEF NoContainer
  <2>3. d.state = "absent" /\ f # {}
    BY <1>4 DEF daemon_create, Performed
  <2> HIDE DEF x
  <2>4. KeyOK(j, x, g)
    BY <1>1, <2>2, <2>3
  <2>5. \A p \in Procs : PlaceOK(proc[p], j, d, f) => PlaceOK(proc[p], j, x, g)
    BY <1>1, <2>2, <2>3
  <2>6. \A p \in Procs : SuccessOK(proc[p], j, d, f) => SuccessOK(proc[p], j, x, g)
    BY <1>1, <2>2, <2>3
  <2> QED
    BY <1>3, <2>1, <2>4, <2>5, <2>6 DEF Performed, x
<1>5. CASE daemon_start(k)
  <2> DEFINE x == [daemon[k] EXCEPT !.state = "running", !.ran = TRUE]
             g == f \ {"start"}
  <2>1. /\ x.state = "running" /\ x.id = d.id /\ x.ran /\ x.isolated = d.isolated
        /\ x.exit = d.exit
    BY <1>1 DEF Container
  <2>2. Performed(k, "start", x) /\ Stopped(k) /\ "start" \in f
    BY <1>5 DEF daemon_start, Performed
  <2> HIDE DEF x
  <2>3. d.state \in {"created", "exited"} /\ ~d.ran
    BY <1>1, <2>2 DEF Stopped
  <2>4. KeyOK(j, x, g)
    BY <1>1, <2>1, <2>2, <2>3
  <2>5. \A p \in Procs : PlaceOK(proc[p], j, d, f) => PlaceOK(proc[p], j, x, g)
    BY <1>1, <2>1, <2>2, <2>3
  <2>6. \A p \in Procs : SuccessOK(proc[p], j, d, f) => SuccessOK(proc[p], j, x, g)
    BY <1>1, <2>1, <2>2, <2>3
  <2> QED
    BY <1>3, <2>2, <2>4, <2>5, <2>6 DEF Performed
<1>6. CASE daemon_kill(k)
  <2> DEFINE x == [daemon[k] EXCEPT !.state = "exited", !.exit = "other"]
             g == f \ {"kill"}
  <2>1. x.state = "exited" /\ x.id = d.id /\ x.ran = d.ran /\ x.isolated = d.isolated
    BY <1>1 DEF Container
  <2>2. Performed(k, "kill", x) /\ d.state = "running"
    BY <1>6 DEF daemon_kill
  <2> HIDE DEF x
  <2>4. KeyOK(j, x, g)
    BY <1>1, <2>1, <2>2
  <2>5. \A p \in Procs : PlaceOK(proc[p], j, d, f) => PlaceOK(proc[p], j, x, g)
    BY <1>1, <2>1, <2>2
  <2>6. \A p \in Procs : SuccessOK(proc[p], j, d, f) => SuccessOK(proc[p], j, x, g)
    BY <1>1, <2>1, <2>2
  <2> QED
    BY <1>3, <2>2, <2>4, <2>5, <2>6 DEF Performed
<1>7. CASE daemon_rm(k)
  <2> DEFINE x == [daemon[k] EXCEPT !.state = "removed"]
             g == f \ {"rm"}
  <2>1. /\ x.state = "removed" /\ x.id = d.id /\ x.ran = d.ran /\ x.isolated = d.isolated
        /\ x.exit = d.exit
    BY <1>1 DEF Container
  <2>2. Performed(k, "rm", x) /\ d.state \in {"created", "exited"}
    BY <1>7 DEF daemon_rm, Stopped
  <2> HIDE DEF x
  <2>4. KeyOK(j, x, g)
    BY <1>1, <2>1, <2>2
  <2>5. \A p \in Procs : PlaceOK(proc[p], j, d, f) => PlaceOK(proc[p], j, x, g)
    BY <1>1, <2>1, <2>2
  <2>6. \A p \in Procs : SuccessOK(proc[p], j, d, f) => SuccessOK(proc[p], j, x, g)
    BY <1>1, <2>1, <2>2
  <2> QED
    BY <1>3, <2>2, <2>4, <2>5, <2>6 DEF Performed
<1>8. CASE daemon_drop(k)
  <2>1. PICK c \in f : Performed(k, c, daemon[k])
    BY <1>8 DEF daemon_drop
  <2> DEFINE g == f \ {c}
  <2>2. KeyOK(j, d, g)
    BY <1>1, <2>1
  <2>3. \A p \in Procs : PlaceOK(proc[p], j, d, f) => PlaceOK(proc[p], j, d, g)
    OBVIOUS
  <2> QED
    BY <1>3, <2>1, <2>2, <2>3 DEF Performed
<1>9. CASE daemon_exit(k)
  <2>1. PICK e \in {"zero", "other"} :
          daemon' = [daemon EXCEPT ![k].state = "exited", ![k].exit = e]
    BY <1>9 DEF daemon_exit
  <2> DEFINE x == [daemon[k] EXCEPT !.state = "exited", !.exit = e]
  <2>2. /\ x.state = "exited" /\ x.id = d.id /\ x.ran = d.ran /\ x.isolated = d.isolated
        /\ daemon' = [daemon EXCEPT ![k] = x]
    BY <1>1, <2>1 DEF Container, TypeOK
  <2>3. d.state = "running"
    BY <1>9 DEF daemon_exit
  <2> HIDE DEF x
  <2>4. KeyOK(j, x, f)
    BY <1>1, <2>2, <2>3
  <2>5. \A p \in Procs : PlaceOK(proc[p], j, d, f) => PlaceOK(proc[p], j, x, f)
    BY <1>1, <2>2, <2>3
  <2>6. \A p \in Procs : SuccessOK(proc[p], j, d, f) => SuccessOK(proc[p], j, x, f)
    BY <1>1, <2>2, <2>3
  <2>7. inflight' = [inflight EXCEPT ![k] = f]
    BY <1>9 DEF daemon_exit, TypeOK
  <2> QED
    BY <1>3, <1>9, <2>2, <2>4, <2>5, <2>6, <2>7 DEF daemon_exit
<1>10. CASE daemon_disappear(k)
  <2> DEFINE x == [daemon[k] EXCEPT !.state = "removed"]
  <2>1. /\ x.state = "removed" /\ x.id = d.id /\ x.ran = d.ran /\ x.isolated = d.isolated
        /\ x.exit = d.exit
    BY <1>1 DEF Container
  <2>2. /\ daemon' = [daemon EXCEPT ![k] = x] /\ inflight' = [inflight EXCEPT ![k] = f]
        /\ d.state # "absent"
    BY <1>1, <1>10 DEF daemon_disappear, Present, Container, TypeOK
  <2> HIDE DEF x
  <2>4. KeyOK(j, x, f)
    BY <1>1, <2>1, <2>2
  <2>5. \A p \in Procs : PlaceOK(proc[p], j, d, f) => PlaceOK(proc[p], j, x, f)
    BY <1>1, <2>1, <2>2
  <2>6. \A p \in Procs : SuccessOK(proc[p], j, d, f) => SuccessOK(proc[p], j, x, f)
    BY <1>1, <2>1, <2>2
  <2> QED
    BY <1>3, <1>10, <2>2, <2>4, <2>5, <2>6 DEF daemon_disappear
<1> QED
  BY <1>4, <1>5, <1>6, <1>7, <1>8, <1>9, <1>10 DEF DaemonStep
\* What a process does in the body of run keeps the journal true.
LEMMA RunInv ==
  ASSUME TypeOK, Inv, NEW p \in Procs, RunStep(p)
  PROVE  Inv'
<1> DEFINE j == journal[Key(p)]
           d == daemon[Key(p)]
           f == inflight[Key(p)]
<1>0. ~At(p, "idle")
  BY DEF RunStep, verify_image, send_create, created, configure, send_start, attached,
     result, raise, At, RunBody
<1>1. /\ Key(p) \in Keys /\ Rec(p) = j /\ j \in Row /\ proc[p] \in Local
      /\ d \in Container /\ f \in SUBSET Commands
      /\ PlaceOK(proc[p], j, d, f) /\ SuccessOK(proc[p], j, d, f) /\ KeyOK(j, d, f)
  BY <1>0, Working
<1>2. j.state \in States
  BY <1>1 DEF Row
<1> USE DEF At, RunBody, CleanupBody
<1>3. ASSUME NEW l, Local1(p, l), l.key = Key(p),
             NEW r, r \in Row, l.rec = r,
             journal' = [journal EXCEPT ![Key(p)] = r],
             UNCHANGED <<owner, daemon, inflight>>,
             KeyOK(r, d, f), PlaceOK(l, r, d, f), SuccessOK(l, r, d, f)
      PROVE  Inv'
  <2>1. inflight' = [inflight EXCEPT ![Key(p)] = f]
    BY <1>3 DEF TypeOK
  <2> QED
    BY <1>0, <1>3, <2>1, WorkStep
<1>4. CASE verify_image(p)
  <2> DEFINE l == [proc[p] EXCEPT !.pc = "create"]
  <2>1. l.key = Key(p) /\ l.rec = Rec(p)
    BY <1>1 DEF Local, Key, Rec
  <2>2. PlaceOK(l, j, d, f) /\ SuccessOK(l, j, d, f)
    BY <1>1, <1>4 DEF verify_image, PlaceOK, SuccessOK, Local
  <2> QED
    BY <1>0, <1>1, <1>4, <2>1, <2>2, ThinkStep DEF verify_image, Goto
<1>5. CASE send_create(p)
  <2> DEFINE l == [proc[p] EXCEPT !.pc = "creating"]
             g == f \cup {"create"}
  <2>1. KeyOK(j, d, g)
    BY <1>1 DEF KeyOK, RowOK, AnnouncedOK, StartedOK, PlaceOK, Exists
  <2>2. PlaceOK(l, j, d, g) /\ SuccessOK(l, j, d, g)
    BY <1>1, <1>5 DEF send_create, PlaceOK, SuccessOK, Local
  <2> QED
    BY <1>0, <1>1, <1>5, <2>1, <2>2, SendStep DEF send_create
<1>6. CASE created(p)
  <2> DEFINE r == Advanced(j, "CREATED", d.id)
             l == [proc[p] EXCEPT !.pc = "configure", !.rec = Advanced(@, "CREATED", d.id)]
  <2>1. /\ advance(Key(p), j.token, "CREATED", d.id) /\ Local1(p, l)
        /\ UNCHANGED <<owner, daemon, inflight>>
        /\ At(p, "creating") /\ d.state \in {"created", "running", "exited"}
    BY <1>1, <1>6 DEF created, Advance, Present
  <2>2. l.key = Key(p) /\ l.rec = r /\ l.pc = "configure" /\ ~l.recovering
    BY <1>1, <2>1 DEF Local, Key, Rec, PlaceOK
  <2>3. /\ journal' = [journal EXCEPT ![Key(p)] = r]
        /\ MayAdvance(j, j.token, "CREATED", d.id)
    BY <2>1 DEF advance
  <2>4. j.state = "INTENT" /\ j.container = None /\ j.receipt = None
    BY <1>1, <2>1 DEF PlaceOK, KeyOK, RowOK, Readable, Absent
  <2>5. d.id # None /\ d.id \in Containers \cup {None}
    BY <1>1, <2>3, <2>4 DEF MayAdvance, Container
  <2>6. /\ r \in Row /\ r.state = "CREATED" /\ r.container = d.id /\ r.receipt = None
    BY <1>1, <2>4, <2>5 DEF Advanced, Row, States
  <2> HIDE DEF l, r
  <2>7. ~d.ran /\ "start" \notin f
    BY <1>1, <2>4 DEF KeyOK, AnnouncedOK
  <2>8. KeyOK(r, d, f)
    BY <1>1, <2>1, <2>5, <2>6, <2>7 DEF KeyOK, RowOK, AnnouncedOK, StartedOK, Readable, Exists
  <2>9. PlaceOK(l, r, d, f) /\ SuccessOK(l, r, d, f)
    BY <2>2, <2>6 DEF PlaceOK, SuccessOK
  <2> QED
    BY <1>3, <2>1, <2>2, <2>3, <2>6, <2>8, <2>9
<1>7. CASE configure(p)
  <2> DEFINE r == Advanced(j, "STARTING", j.container)
             l == [proc[p] EXCEPT !.pc = "start", !.verified = TRUE,
                                  !.rec = Advanced(@, "STARTING", @.container)]
  <2>1. /\ advance(Key(p), j.token, "STARTING", j.container) /\ Local1(p, l)
        /\ UNCHANGED <<owner, daemon, inflight>>
        /\ At(p, "configure") /\ d.isolated
    BY <1>1, <1>7 DEF configure, Isolation
  <2>2. l.key = Key(p) /\ l.rec = r /\ l.pc = "start" /\ ~l.recovering /\ l.verified
    BY <1>1, <2>1 DEF Local, Key, Rec, PlaceOK
  <2>3. journal' = [journal EXCEPT ![Key(p)] = r]
    BY <2>1 DEF advance
  <2>4. j.state = "CREATED" /\ j.container # None /\ j.receipt = None
    BY <1>1, <2>1 DEF PlaceOK, KeyOK, RowOK, Readable, Absent
  <2>5. r \in Row /\ r.state = "STARTING" /\ r.container = j.container /\ r.receipt = None
    BY <1>1, <2>4 DEF Advanced, Row, States
  <2> HIDE DEF l, r
  <2>6. ~d.ran /\ "start" \notin f
    BY <1>1, <2>4 DEF KeyOK, AnnouncedOK
  <2>7. KeyOK(r, d, f)
    BY <1>1, <2>4, <2>5, <2>6 DEF KeyOK, RowOK, AnnouncedOK, StartedOK, Readable, Exists
  <2>8. PlaceOK(l, r, d, f) /\ SuccessOK(l, r, d, f)
    BY <2>1, <2>2, <2>5, <2>6 DEF PlaceOK, SuccessOK
  <2> QED
    BY <1>3, <2>1, <2>2, <2>3, <2>5, <2>7, <2>8
<1>8. CASE send_start(p)
  <2> DEFINE l == [proc[p] EXCEPT !.pc = "attached"]
             g == f \cup {"start"}
  <2>1. At(p, "start") /\ j.state = "STARTING" /\ ~d.ran /\ d.isolated
    BY <1>1, <1>8 DEF send_start, PlaceOK
  <2>2. KeyOK(j, d, g)
    BY <1>1, <2>1 DEF KeyOK, RowOK, AnnouncedOK, StartedOK, Exists
  <2>3. PlaceOK(l, j, d, g) /\ SuccessOK(l, j, d, g)
    BY <1>1, <2>1 DEF PlaceOK, SuccessOK, Local
  <2> QED
    BY <1>0, <1>1, <1>8, <2>2, <2>3, SendStep DEF send_start
<1>9. CASE attached(p)
  <2>1. PICK v \in Statuses : Local1(p, [proc[p] EXCEPT !.pc = "result", !.verdict = v])
    BY <1>9 DEF attached
  <2> DEFINE l == [proc[p] EXCEPT !.pc = "result", !.verdict = v]
  <2>2. l.key = Key(p) /\ l.rec = Rec(p)
    BY <1>1 DEF Local, Key, Rec
  <2>3. PlaceOK(l, j, d, f) /\ SuccessOK(l, j, d, f)
    BY <1>1, <1>9 DEF attached, PlaceOK, SuccessOK, Local
  <2> QED
    BY <1>0, <1>1, <1>9, <2>1, <2>2, <2>3, ThinkStep DEF attached
<1>10. CASE result(p)
  <2> DEFINE r == IF Same(p) /\ d.ran THEN Advanced(j, "RUNNING", j.container) ELSE j
  <2>1. PICK v \in Statuses :
          /\ Local1(p, [proc[p] EXCEPT !.pc = "cleanup", !.verdict = v, !.rec = r])
          /\ v = "COMPLETED" => Succeeded(p)
    BY <1>1, <1>10 DEF result, Statuses, Local
  <2> DEFINE l == [proc[p] EXCEPT !.pc = "cleanup", !.verdict = v, !.rec = r]
  <2>2. /\ j.state = "STARTING" /\ j.container # None /\ j.receipt = None
        /\ ~proc[p].recovering /\ proc[p].verified
    BY <1>1, <1>10 DEF result, PlaceOK, KeyOK, RowOK, Readable, Absent
  <2>3. /\ l.key = Key(p) /\ l.rec = r /\ l.pc = "cleanup" /\ ~l.recovering /\ l.verified
        /\ l.verdict = v
    BY <1>1, <2>2 DEF Local, Key
  <2>4. r \in Row /\ r.container = j.container /\ r.receipt = None
    BY <1>1, <2>2 DEF Advanced, Row, States
  <2>5. r.state \in {"STARTING", "RUNNING"} /\ (Same(p) /\ d.ran => r.state = "RUNNING")
    BY <1>1, <2>2 DEF Advanced, Row
  <2>6. journal' = [journal EXCEPT ![Key(p)] = r]
    <3>1. CASE r = j
      BY <1>1, <1>10, <3>1 DEF result, TypeOK
    <3>2. CASE r # j
      <4>1. advance(Key(p), Rec(p).token, r.state, r.container)
        BY <1>1, <1>10, <3>2 DEF result
      <4>2. r = Advanced(j, r.state, r.container)
        BY <1>1, <3>2 DEF Advanced, Row
      <4> QED
        BY <4>1, <4>2 DEF advance
    <3> QED
      BY <3>1, <3>2
  <2>7. v = "COMPLETED" =>
          d.ran /\ d.state \in {"exited", "removed"} /\ d.exit = "zero" /\ r.state = "RUNNING"
    BY <1>1, <2>1, <2>5 DEF Succeeded, Stopped, ExitCode, KeyOK, StartedOK
  <2> HIDE DEF l, r
  <2>8. KeyOK(r, d, f)
    BY <1>1, <2>2, <2>4, <2>5 DEF KeyOK, RowOK, AnnouncedOK, StartedOK, Readable, Exists
  <2>9. PlaceOK(l, r, d, f) /\ SuccessOK(l, r, d, f)
    BY <2>2, <2>3, <2>4, <2>5, <2>7 DEF PlaceOK, SuccessOK
  <2> QED
    BY <1>3, <1>10, <2>1, <2>3, <2>4, <2>6, <2>8, <2>9 DEF result, l
<1>11. CASE raise(p)
  <2>1. PICK v \in Statuses \ {"COMPLETED"} :
          Local1(p, [proc[p] EXCEPT !.pc = "cleanup", !.verdict = v])
    BY <1>11 DEF raise
  <2> DEFINE l == [proc[p] EXCEPT !.pc = "cleanup", !.verdict = v]
  <2>2. l.key = Key(p) /\ l.rec = Rec(p)
    BY <1>1 DEF Local, Key, Rec
  <2>3. PlaceOK(l, j, d, f) /\ SuccessOK(l, j, d, f)
    BY <1>1, <1>11 DEF raise, PlaceOK, SuccessOK, Local
  <2> QED
    BY <1>0, <1>1, <1>11, <2>1, <2>2, <2>3, ThinkStep DEF raise
<1> QED
  BY <1>4, <1>5, <1>6, <1>7, <1>8, <1>9, <1>10, <1>11 DEF RunStep
\* What _cleanup and the end of run and recover do keeps the journal true.
LEMMA CleanupInv ==
  ASSUME TypeOK, Inv, NEW p \in Procs, CleanupStep(p) \/ crash(p)
  PROVE  Inv'
<1> DEFINE j == journal[Key(p)]
           d == daemon[Key(p)]
           f == inflight[Key(p)]
<1>0. ~At(p, "idle")
  BY DEF CleanupStep, cleanup_gone, cleanup_found, send_kill, recheck, stop, send_rm,
     removed, cleanup_fails, settle, crash, At, CleanupBody
<1>1. /\ Key(p) \in Keys /\ Rec(p) = j /\ j \in Row /\ proc[p] \in Local
      /\ d \in Container /\ f \in SUBSET Commands
      /\ PlaceOK(proc[p], j, d, f) /\ SuccessOK(proc[p], j, d, f) /\ KeyOK(j, d, f)
  BY <1>0, Working
<1>2. j.state \in States \ {"FINISHED"} /\ j.receipt = None /\ owner[Key(p)] = p
  BY <1>0, <1>1, Working DEF Row, PlaceOK, KeyOK, RowOK, Readable, Absent
<1> USE DEF At, RunBody, CleanupBody
<1>3. ASSUME NEW l, Local1(p, l), l.key = Key(p),
             NEW r, r \in Row, l.rec = r,
             journal' = [journal EXCEPT ![Key(p)] = r],
             UNCHANGED <<owner, daemon, inflight>>,
             KeyOK(r, d, f), PlaceOK(l, r, d, f), SuccessOK(l, r, d, f)
      PROVE  Inv'
  <2>1. inflight' = [inflight EXCEPT ![Key(p)] = f]
    BY <1>3 DEF TypeOK
  <2> QED
    BY <1>0, <1>3, <2>1, WorkStep
<1>4. ASSUME NEW s \in BOOLEAN, NEW c \in BOOLEAN, Confirm(p, s, c),
             UNCHANGED <<journal, owner, daemon, inflight>>,
             s /\ c => /\ j.container = None \/ (j.state = "STOPPED" /\ d.state = "removed")
                      /\ proc[p].verdict # "COMPLETED",
             proc[p].pc \in CleanupBody
      PROVE  Inv'
  <2> DEFINE l == [proc[p] EXCEPT !.pc = "settle", !.stopped = s, !.cleaned = c,
                                  !.exit = "unknown"]
  <2>1. l.key = Key(p) /\ l.rec = Rec(p)
    BY <1>1 DEF Local, Key, Rec
  <2>2. PlaceOK(l, j, d, f) /\ SuccessOK(l, j, d, f)
    BY <1>1, <1>4 DEF PlaceOK, SuccessOK, Local
  <2> QED
    BY <1>0, <1>1, <1>4, <2>1, <2>2, ThinkStep DEF Confirm
<1>5. CASE cleanup_gone(p)
  <2>1. d.state \in {"absent", "removed"}
    BY <1>1, <1>5 DEF cleanup_gone, Present, Container
  <2>2. j.state = "STOPPED" => j.container # None /\ d.state = "removed"
    BY <1>1, <2>1 DEF KeyOK, RowOK, AnnouncedOK
  <2>3. proc[p].verdict = "COMPLETED" => j.container # None /\ j.state = "RUNNING"
    BY <1>1, <1>5 DEF cleanup_gone, SuccessOK
  <2>4. GoneConfirms(j) \in BOOLEAN
    BY DEF GoneConfirms
  <2> QED
    BY <1>1, <1>4, <1>5, <2>2, <2>3, <2>4 DEF cleanup_gone, GoneConfirms
<1>6. CASE cleanup_found(p)
  <2> DEFINE r == Adopted(p)
             l == [proc[p] EXCEPT !.pc = IF Stopped(Key(p)) THEN "stop" ELSE "kill",
                                  !.exit = ExitCode(Key(p)), !.rec = r]
  <2>1. Local1(p, l) /\ UNCHANGED <<owner, daemon, inflight>> /\ proc[p].pc = "cleanup"
    BY <1>6 DEF cleanup_found
  <2>2. d.state \in {"created", "running", "exited"}
    BY <1>6 DEF cleanup_found, Same, Present
  <2>3. /\ journal' = [journal EXCEPT ![Key(p)] = r]
        /\ j.container = None => MayAdvance(j, j.token, "CREATED", d.id)
    <3>1. CASE j.container = None
      BY <1>1, <1>6, <3>1 DEF cleanup_found, advance, Adopted
    <3>2. CASE j.container # None
      BY <1>1, <1>6, <3>2 DEF cleanup_found, Adopted, TypeOK
    <3> QED
      BY <3>1, <3>2
  <2>4. j.container = None => j.state = "INTENT" /\ d.id # None /\ d.id \in Containers \cup {None}
    BY <1>1, <1>2, <2>3 DEF KeyOK, RowOK, States, MayAdvance, Container
  <2>5. /\ r \in Row /\ r.receipt = None /\ r.container # None /\ r.container = d.id
        /\ j.container # None => r = j
        /\ j.container = None => r.state = "CREATED"
    <3>1. CASE j.container = None
      BY <1>1, <1>2, <2>4, <3>1 DEF Adopted, Advanced, Row, States
    <3>2. CASE j.container # None
      BY <1>1, <1>2, <3>2 DEF Adopted, KeyOK, AnnouncedOK
    <3> QED
      BY <3>1, <3>2
  <2>6. /\ l.key = Key(p) /\ l.rec = r /\ l.pc \in {"stop", "kill"}
        /\ l.verdict = proc[p].verdict /\ l.recovering = proc[p].recovering
        /\ l.verified = proc[p].verified
        /\ d.state = "exited" => l.pc = "stop" /\ l.exit = d.exit
    BY <1>1, <2>1 DEF Local, Key, Stopped, ExitCode
  <2> HIDE DEF l, r
  <2>7. KeyOK(r, d, f)
    <3>1. CASE j.container = None
      BY <1>1, <2>2, <2>4, <2>5, <3>1 DEF KeyOK, RowOK, AnnouncedOK, StartedOK, Readable, Exists
    <3>2. CASE j.container # None
      BY <1>1, <2>5, <3>2
    <3> QED
      BY <3>1, <3>2
  <2>8. PlaceOK(l, r, d, f)
    BY <1>2, <2>5, <2>6 DEF PlaceOK, States
  <2>9. SuccessOK(l, r, d, f)
    BY <1>1, <2>1, <2>2, <2>5, <2>6 DEF SuccessOK
  <2> QED
    BY <1>3, <2>1, <2>3, <2>5, <2>6, <2>7, <2>8, <2>9
<1>7. CASE send_kill(p)
  <2> DEFINE l == [proc[p] EXCEPT !.pc = "recheck"]
             g == f \cup {"kill"}
  <2>1. KeyOK(j, d, g)
    BY <1>1, <1>2 DEF KeyOK, RowOK, AnnouncedOK, StartedOK, Exists, States
  <2>2. PlaceOK(l, j, d, g) /\ SuccessOK(l, j, d, g)
    BY <1>1, <1>7 DEF send_kill, PlaceOK, SuccessOK, Local
  <2> QED
    BY <1>0, <1>1, <1>7, <2>1, <2>2, SendStep DEF send_kill
<1>8. CASE recheck(p)
  <2>1. CASE ~(Same(p) /\ Stopped(Key(p)))
    BY <1>4, <1>8, <2>1 DEF recheck
  <2>2. CASE Same(p) /\ Stopped(Key(p))
    <3> DEFINE l == [proc[p] EXCEPT !.pc = "stop", !.exit = ExitCode(Key(p))]
    <3>1. l.key = Key(p) /\ l.rec = Rec(p)
      BY <1>1 DEF Local, Key, Rec
    <3>2. PlaceOK(l, j, d, f) /\ SuccessOK(l, j, d, f)
      BY <1>1, <1>8 DEF recheck, PlaceOK, SuccessOK, Local
    <3> QED
      BY <1>0, <1>1, <1>8, <2>2, <3>1, <3>2, ThinkStep DEF recheck
  <2> QED
    BY <2>1, <2>2
<1>9. CASE stop(p)
  <2> DEFINE r == Advanced(j, "STOPPED", j.container)
             l == [proc[p] EXCEPT !.pc = "remove", !.rec = Advanced(@, "STOPPED", j.container)]
  <2>1. /\ advance(Key(p), j.token, "STOPPED", j.container) /\ Local1(p, l)
        /\ UNCHANGED <<owner, daemon, inflight>> /\ proc[p].pc = "stop"
    BY <1>1, <1>9 DEF stop, Advance
  <2>2. /\ l.key = Key(p) /\ l.rec = r /\ l.pc = "remove" /\ l.verdict = proc[p].verdict
        /\ l.recovering = proc[p].recovering /\ l.verified = proc[p].verified
        /\ l.exit = proc[p].exit
    BY <1>1 DEF Local, Key, Rec
  <2>3. journal' = [journal EXCEPT ![Key(p)] = r]
    BY <2>1 DEF advance
  <2>4. j.container # None
    BY <1>1, <2>1 DEF PlaceOK
  <2>5. r \in Row /\ r.state = "STOPPED" /\ r.container = j.container /\ r.receipt = None
    BY <1>1, <1>2 DEF Advanced, Row, States
  <2> HIDE DEF l, r
  <2>6. KeyOK(r, d, f)
    BY <1>1, <2>4, <2>5 DEF KeyOK, RowOK, AnnouncedOK, StartedOK, Readable, Exists
  <2>7. PlaceOK(l, r, d, f) /\ SuccessOK(l, r, d, f)
    BY <1>1, <2>1, <2>2, <2>4, <2>5 DEF PlaceOK, SuccessOK
  <2> QED
    BY <1>3, <2>1, <2>2, <2>3, <2>5, <2>6, <2>7
<1>10. CASE send_rm(p)
  <2> DEFINE l == [proc[p] EXCEPT !.pc = "removed"]
             g == f \cup {"rm"}
  <2>1. KeyOK(j, d, g)
    BY <1>1, <1>2 DEF KeyOK, RowOK, AnnouncedOK, StartedOK, Exists, States
  <2>2. PlaceOK(l, j, d, g) /\ SuccessOK(l, j, d, g)
    BY <1>1, <1>10 DEF send_rm, PlaceOK, SuccessOK, Local
  <2> QED
    BY <1>0, <1>1, <1>10, <2>1, <2>2, SendStep DEF send_rm
<1>11. CASE removed(p)
  <2> DEFINE l == [proc[p] EXCEPT !.pc = "settle", !.stopped = TRUE, !.cleaned = Removed(p)]
  <2>1. Local1(p, l) /\ UNCHANGED <<journal, owner, daemon, inflight>> /\ proc[p].pc = "removed"
    BY <1>11 DEF removed
  <2>2. /\ l.key = Key(p) /\ l.rec = Rec(p) /\ l.pc = "settle" /\ l.verdict = proc[p].verdict
        /\ l.recovering = proc[p].recovering /\ l.verified = proc[p].verified
        /\ l.exit = proc[p].exit /\ l.cleaned = Removed(p)
    BY <1>1 DEF Local, Key, Rec
  <2>3. j.state = "STOPPED" /\ j.container # None /\ d.state # "absent"
    BY <1>1, <2>1 DEF PlaceOK, KeyOK, RowOK, AnnouncedOK
  <2>4. Removed(p) => d.state = "removed"
    BY <1>1, <2>3 DEF Removed, Present, Container
  <2> HIDE DEF l
  <2>5. PlaceOK(l, j, d, f) /\ SuccessOK(l, j, d, f)
    BY <1>1, <2>1, <2>2, <2>3, <2>4 DEF PlaceOK, SuccessOK
  <2> QED
    BY <1>0, <1>1, <2>1, <2>2, <2>5, ThinkStep
<1>12. CASE cleanup_fails(p)
  BY <1>4, <1>12 DEF cleanup_fails
<1>13. CASE settle(p)
  <2>1. PICK v \in FinalStatuses(p) :
          IF Settled(p) THEN finish(Key(p), Rec(p).token, FinalReceipt(p, v))
          ELSE UNCHANGED journal
    BY <1>13 DEF settle
  <2> DEFINE rc == FinalReceipt(p, v)
             r == Finished(j, rc)
  <2>2. CASE Settled(p)
    <3>1. rc \in Receipt /\ rc # None
      BY <1>1, NoneAssumption DEF FinalReceipt, FinalStatuses, Receipt, Local, Statuses, Row, Rec
    <3>2. journal' = [journal EXCEPT ![Key(p)] = r] /\ ValidReceipt(rc, j.container)
      BY <1>1, <2>1, <2>2 DEF finish, MayFinish
    <3>3. /\ r \in Row /\ r.state = "FINISHED" /\ r.container = j.container /\ r.receipt = rc
      BY <1>1, <3>1 DEF Finished, Row, States
    <3> HIDE DEF rc, r
    <3>4. j.container = None \/ d.state = "removed"
      BY <1>1, <1>13, <2>2 DEF settle, Settled, PlaceOK
    <3>5. KeyOK(r, d, f)
      BY <1>1, <1>2, <3>1, <3>2, <3>3, <3>4
      DEF KeyOK, RowOK, AnnouncedOK, StartedOK, Readable, Exists
    <3>6. /\ journal'[Key(p)] = r
          /\ \A x \in Keys \ {Key(p)} : journal'[x] = journal[x]
      BY <1>1, <3>2 DEF TypeOK
    <3> QED
      BY <1>1, <1>2, <1>13, <3>5, <3>6, ProcessFrame
      DEF settle, Local1, TypeOK, ProcOK, Idle
  <2>3. CASE ~Settled(p)
    BY <1>1, <1>2, <1>13, <2>1, <2>3, ProcessFrame DEF settle, Local1, TypeOK, ProcOK, Idle
  <2> QED
    BY <2>2, <2>3
<1>14. CASE crash(p)
  BY <1>1, <1>2, <1>14, ProcessFrame DEF crash, Local1, TypeOK, ProcOK, Idle
<1> QED
  BY <1>5, <1>6, <1>7, <1>8, <1>9, <1>10, <1>11, <1>12, <1>13, <1>14 DEF CleanupStep
\* A process begins an operation nobody has, or recovers one nobody holds.
LEMMA BeginInv ==
  ASSUME TypeOK, Inv, NEW p \in Procs, NEW k \in Keys, run_new(p, k) \/ recover(p, k)
  PROVE  Inv'
<1> DEFINE j == journal[k]
           d == daemon[k]
           f == inflight[k]
<1>1. KeyOK(j, d, f) /\ d \in Container
  BY DEF Inv, TypeOK
<1>2. owner[k] = Nobody /\ owner'[k] = p
  BY DEF run_new, recover, Free, TypeOK
<1>3. CASE run_new(p, k)
  <2>1. PICK q \in Requests, t \in Tokens :
          /\ begin(k, q, t)
          /\ Local1(p, [Idle EXCEPT !.pc = "verify", !.key = k, !.rec = NewRow(q, t)])
    BY <1>3 DEF run_new
  <2> DEFINE r == NewRow(q, t)
             l == [Idle EXCEPT !.pc = "verify", !.key = k, !.rec = r]
  <2>2. /\ r \in Row /\ r.state = "INTENT" /\ r.container = None /\ r.receipt = None
        /\ l.pc = "verify" /\ l.key = k /\ l.rec = r /\ ~l.recovering /\ l.verdict = "FAILED"
    BY RowTypes DEF NewRow, Idle
  <2>3. d.state = "absent" /\ f = {} /\ ~d.ran
    BY <1>1, <2>1 DEF begin, KeyOK, AnnouncedOK
  <2>4. journal'[k] = r /\ proc'[p] = l /\ daemon' = daemon /\ inflight' = inflight
    BY <1>3, <2>1 DEF run_new, begin, Local1, TypeOK
  <2> HIDE DEF l, r
  <2>5. KeyOK(r, d, f)
    BY <1>1, <2>2, <2>3 DEF KeyOK, RowOK, AnnouncedOK, StartedOK, Readable, Exists
  <2>6. PlaceOK(l, r, d, f) /\ SuccessOK(l, r, d, f)
    BY <2>2 DEF PlaceOK, SuccessOK, RunBody, CleanupBody
  <2>7. ProcOK(p)'
    BY <1>2, <2>2, <2>4, <2>6 DEF ProcOK, Key, Rec
  <2>8. \A x \in Keys \ {k} : journal'[x] = journal[x] /\ owner'[x] = owner[x]
    BY <1>3, <2>1 DEF run_new, begin, TypeOK
  <2>9. \A x \in Procs \ {p} : proc'[x] = proc[x]
    BY <2>1 DEF Local1, TypeOK
  <2> QED
    BY <1>2, <2>4, <2>5, <2>7, <2>8, <2>9, ProcessFrame
<1>4. CASE recover(p, k)
  <2> DEFINE l == [Idle EXCEPT !.pc = "cleanup", !.key = k, !.rec = j, !.recovering = TRUE]
  <2>1. l.pc = "cleanup" /\ l.key = k /\ l.rec = j /\ l.verdict = "FAILED"
    BY DEF Idle
  <2>2. proc'[p] = l /\ UNCHANGED <<journal, daemon, inflight>>
    BY <1>4 DEF recover, Local1, TypeOK
  <2>3. j.state \notin {"ABSENT", "FINISHED"}
    BY <1>4 DEF recover, pending, Exists
  <2> HIDE DEF l
  <2>4. PlaceOK(l, j, d, f) /\ SuccessOK(l, j, d, f)
    BY <2>1, <2>3 DEF PlaceOK, SuccessOK, RunBody
  <2>5. ProcOK(p)'
    BY <1>2, <2>1, <2>2, <2>4 DEF ProcOK, Key, Rec
  <2>6. \A x \in Keys \ {k} : owner'[x] = owner[x]
    BY <1>4 DEF recover, TypeOK
  <2>7. \A x \in Procs \ {p} : proc'[x] = proc[x]
    BY <1>4 DEF recover, Local1, TypeOK
  <2> QED
    BY <1>1, <1>2, <2>2, <2>5, <2>6, <2>7, ProcessFrame
<1> QED
  BY <1>3, <1>4

LEMMA InvStep == TypeOK /\ Inv /\ [Next]_vars => Inv'
<1> SUFFICES ASSUME TypeOK, Inv, [Next]_vars PROVE Inv'
  OBVIOUS
<1>1. CASE UNCHANGED vars
  <2>1. \A p \in Procs : ProcOK(p) <=> ProcOK(p)'
    BY <1>1 DEF vars, ProcOK, At, Key, Rec
  <2> QED
    BY <1>1, <2>1 DEF vars, Inv
<1>2. CASE Next
  BY <1>2, DaemonInv, RunInv, CleanupInv, BeginInv DEF Next
<1> QED
  BY <1>1, <1>2

LEMMA InvCorrect == Spec => [](TypeOK /\ Inv)
<1>1. Init => TypeOK /\ Inv
  BY TypeInit, InvInit
<1>2. TypeOK /\ Inv /\ [Next]_vars => (TypeOK /\ Inv)'
  BY TypeStep, InvStep
<1> QED
  BY <1>1, <1>2, PTL DEF Spec

-----------------------------------------------------------------------------
(* What the invariant says.                                                 *)

\* A receipt that is due is one the journal takes, whatever its status.
LEMMA SettleDue ==
  ASSUME TypeOK, Inv, NEW p \in Procs,
         At(p, "settle"), proc[p].stopped, proc[p].cleaned, NEW v \in FinalStatuses(p)
  PROVE  MayFinish(journal[Key(p)], Rec(p).token, FinalReceipt(p, v))
<1> DEFINE j == journal[Key(p)]
           rc == FinalReceipt(p, v)
<1>1. /\ Rec(p) = j /\ j \in Row /\ j.state \notin {"ABSENT", "FINISHED"}
      /\ j.container = None \/ j.state = "STOPPED"
  BY Working DEF At, PlaceOK
<1>2. /\ rc.status = v /\ rc.stopped /\ rc.cleaned /\ rc.container = j.container
      /\ rc.verified = proc[p].verified /\ rc.recovered = proc[p].recovering
      /\ rc.exit = proc[p].exit
  BY <1>1 DEF FinalReceipt
<1>3. v = "COMPLETED" => proc[p].verdict = "COMPLETED"
  BY DEF FinalStatuses
<1>4. v = "COMPLETED" =>
        /\ ~proc[p].recovering /\ proc[p].verified /\ j.container # None
        /\ proc[p].exit = "zero"
  BY <1>3, Working DEF At, SuccessOK
<1> HIDE DEF rc
<1>5. ValidReceipt(rc, j.container)
  BY <1>2, <1>4 DEF ValidReceipt
<1> QED
  BY <1>1, <1>2, <1>5 DEF MayFinish, Exists, rc

LEMMA JournalImplied == TypeOK /\ Inv => JournalTrue
<1> SUFFICES ASSUME TypeOK, Inv PROVE JournalTrue
  OBVIOUS
<1>1. \A k \in Keys : KeyOK(journal[k], daemon[k], inflight[k])
  BY DEF Inv
<1>2. JournalReadable
  BY <1>1 DEF JournalReadable, KeyOK, RowOK
<1>3. RecordFresh
  BY Working DEF RecordFresh
<1>4. WrittenAhead /\ IsolatedRun
  BY <1>1 DEF WrittenAhead, IsolatedRun, KeyOK, AnnouncedOK
<1>5. CleanedUp
  BY <1>1 DEF CleanedUp, KeyOK, StartedOK
<1>6. SettleAccepted
  BY SettleDue DEF SettleAccepted
<1> QED
  BY <1>2, <1>3, <1>4, <1>5, <1>6 DEF JournalTrue, RecordsTrue, ReceiptsTrue

\* What the journal says of an operation is true, whoever dies at any step and
\* whenever the daemon performs what it was asked: the rows can be read back, a
\* process decides on the current row, everything the daemon does was announced,
\* nothing runs without its isolation inspected, and a finished operation has left
\* no container behind (run, recover and _cleanup with the dispatch journal).
THEOREM JournalCorrect == Spec => []JournalTrue
  BY InvCorrect, JournalImplied, PTL

-----------------------------------------------------------------------------
(* The supervisor implements FixtureOnce.                                   *)

LEMMA OnceInit == Init => Once!Init
  BY DEF Init, JournalInit, Absent, NoContainer, phase, outcome, Once!Init

\* A step that changes neither the life nor the outcome of a fixture stutters.
LEMMA OnceStutter ==
  ASSUME \A k \in Keys :
           /\ daemon'[k].ran = daemon[k].ran
           /\ daemon[k].ran => (daemon'[k].state = "running" <=> daemon[k].state = "running")
           /\ journal[k].state = "FINISHED" <=> journal'[k].state = "FINISHED"
           /\ journal[k].state = "FINISHED" => journal'[k].receipt = journal[k].receipt
  PROVE  UNCHANGED <<phase, outcome>>
  BY DEF phase, outcome
\* Everything a process writes to the journal before its receipt is such a step.
LEMMA WriteStutter ==
  ASSUME TypeOK, UNCHANGED daemon, NEW k \in Keys,
         \/ UNCHANGED journal
         \/ \E q, t : begin(k, q, t)
         \/ \E t, s, c : advance(k, t, s, c)
  PROVE  UNCHANGED <<phase, outcome>>
<1>1. CASE UNCHANGED journal
  BY <1>1, OnceStutter
<1>2. CASE \E q, t : begin(k, q, t)
  <2>1. journal[k].state # "FINISHED" /\ journal'[k].state # "FINISHED"
    BY <1>2 DEF begin, Exists, NewRow, TypeOK
  <2>2. \A x \in Keys \ {k} : journal'[x] = journal[x]
    BY <1>2 DEF begin, TypeOK
  <2> QED
    BY <2>1, <2>2, OnceStutter
<1>3. CASE \E t, s, c : advance(k, t, s, c)
  <2>1. PICK t, s, c : advance(k, t, s, c)
    BY <1>3
  <2>2. journal[k] \in Row
    BY <2>1 DEF advance, MayAdvance, Exists, TypeOK, Absent
  <2>3. journal[k].state # "FINISHED" /\ journal'[k].state # "FINISHED"
    BY <2>1, <2>2 DEF advance, MayAdvance, Advanced, TypeOK, Row
  <2>4. \A x \in Keys \ {k} : journal'[x] = journal[x]
    BY <2>1 DEF advance, TypeOK
  <2> QED
    BY <2>3, <2>4, OnceStutter
<1> QED
  BY <1>1, <1>2, <1>3

\* The daemon starts a fixture at most once, and never after its receipt.
LEMMA DaemonOnce ==
  ASSUME TypeOK, Inv, NEW k \in Keys, DaemonStep(k)
  PROVE  [Once!Next]_<<phase, outcome>>
<1> DEFINE j == journal[k]
           d == daemon[k]
           f == inflight[k]
<1>1. KeyOK(j, d, f) /\ d \in Container
  BY DEF Inv, TypeOK
<1>2. UNCHANGED <<journal, outcome>>
  BY DEF DaemonStep, daemon_create, daemon_start, daemon_kill, daemon_rm, daemon_drop,
     daemon_exit, daemon_disappear, Performed, outcome
<1>3. \A x \in Keys \ {k} : daemon'[x] = daemon[x]
  BY DEF DaemonStep, daemon_create, daemon_start, daemon_kill, daemon_rm, daemon_drop,
     daemon_exit, daemon_disappear, Performed, TypeOK
<1>4. CASE daemon_start(k)
  <2>1. daemon' = [daemon EXCEPT ![k] = [d EXCEPT !.state = "running", !.ran = TRUE]]
    BY <1>4 DEF daemon_start, Performed
  <2>2. daemon'[k].state = "running" /\ daemon'[k].ran
    BY <1>1, <2>1 DEF TypeOK, Container
  <2>3. "start" \in f /\ d.state \in {"created", "exited"}
    BY <1>4 DEF daemon_start, Performed, Stopped
  <2>4. ~d.ran /\ j.state # "FINISHED"
    BY <1>1, <2>3 DEF KeyOK, AnnouncedOK, StartedOK
  <2>5. phase[k] = "idle" /\ outcome[k] = None
    BY <2>4 DEF phase, outcome
  <2>6. phase' = [phase EXCEPT ![k] = "live"]
    BY <1>3, <2>2 DEF phase
  <2> QED
    BY <1>2, <2>5, <2>6 DEF Once!Next, Once!Start
<1>5. CASE d.state = "running" /\ daemon'[k].ran = d.ran /\ daemon'[k].state # "running"
  <2>1. d.ran
    BY <1>1, <1>5 DEF KeyOK, StartedOK
  <2>2. phase[k] = "live"
    BY <1>5, <2>1 DEF phase
  <2>3. phase' = [phase EXCEPT ![k] = "ended"]
    BY <1>3, <1>5, <2>1 DEF phase
  <2> QED
    BY <1>2, <2>2, <2>3 DEF Once!Next, Once!End
<1>6. CASE /\ daemon'[k].ran = d.ran
           /\ d.ran => (daemon'[k].state = "running" <=> d.state = "running")
  <2>1. UNCHANGED <<phase, outcome>>
    BY <1>2, <1>3, <1>6, OnceStutter
  <2> QED
    BY <2>1
<1>7. CASE daemon_create(k)
  <2>1. d.state = "absent" /\ daemon'[k].ran = FALSE
    BY <1>7 DEF daemon_create, Performed, NoContainer, TypeOK
  <2>2. d.ran = FALSE
    BY <1>1, <2>1 DEF KeyOK, StartedOK, Container
  <2> QED
    BY <1>6, <2>1, <2>2
<1>8. CASE daemon_kill(k)
  BY <1>1, <1>5, <1>8 DEF daemon_kill, Performed, TypeOK, Container
<1>9. CASE daemon_rm(k)
  BY <1>1, <1>6, <1>9 DEF daemon_rm, Performed, Stopped, TypeOK, Container
<1>10. CASE daemon_drop(k)
  BY <1>6, <1>10 DEF daemon_drop, Performed, TypeOK
<1>11. CASE daemon_exit(k)
  BY <1>1, <1>5, <1>11 DEF daemon_exit, TypeOK, Container
<1>12. CASE daemon_disappear(k)
  <2>1. daemon'[k].ran = d.ran /\ daemon'[k].state = "removed"
    BY <1>1, <1>12 DEF daemon_disappear, TypeOK, Container
  <2> QED
    BY <1>5, <1>6, <2>1
<1> QED
  BY <1>4, <1>7, <1>8, <1>9, <1>10, <1>11, <1>12 DEF DaemonStep

\* The stored receipt fixes the outcome while nothing runs, a success only
\* after the fixture ended.
LEMMA SettleOnce ==
  ASSUME TypeOK, Inv, NEW p \in Procs, settle(p)
  PROVE  [Once!Next]_<<phase, outcome>>
<1> DEFINE k == Key(p)
           j == journal[k]
           d == daemon[k]
<1>1. /\ k \in Keys /\ Rec(p) = j /\ j \in Row
      /\ PlaceOK(proc[p], j, d, inflight[k]) /\ SuccessOK(proc[p], j, d, inflight[k])
      /\ KeyOK(j, d, inflight[k])
  BY Working DEF settle, At
<1>2. PICK v \in FinalStatuses(p) :
        IF Settled(p) THEN finish(k, Rec(p).token, FinalReceipt(p, v)) ELSE UNCHANGED journal
  BY DEF settle
<1>3. CASE Settled(p)
  <2> DEFINE rc == FinalReceipt(p, v)
  <2>1. journal' = [journal EXCEPT ![k] = Finished(j, rc)]
    BY <1>2, <1>3 DEF finish
  <2>2. journal'[k].state = "FINISHED" /\ journal'[k].receipt.status = v
    BY <1>1, <2>1 DEF TypeOK, Finished, FinalReceipt, Row
  <2>3. \A x \in Keys \ {k} : journal'[x] = journal[x]
    BY <2>1 DEF TypeOK
  <2>4. outcome[k] = None
    BY <1>1 DEF outcome, PlaceOK
  <2>5. outcome' = [outcome EXCEPT ![k] = v]
    BY <2>2, <2>3 DEF outcome
  <2>6. UNCHANGED phase
    BY DEF settle, phase
  <2>7. j.container = None \/ d.state = "removed"
    BY <1>1, <1>3 DEF settle, Settled, At, PlaceOK
  <2>8. phase[k] # "live"
    BY <1>1, <2>7 DEF phase, KeyOK, AnnouncedOK
  <2>9. v = "COMPLETED" => proc[p].verdict = "COMPLETED"
    BY DEF FinalStatuses
  <2>10. v = "COMPLETED" => phase[k] = "ended"
    BY <1>1, <2>7, <2>9 DEF phase, SuccessOK, settle, At
  <2>11. v \in Statuses
    BY <1>1, Working DEF FinalStatuses, Statuses, Local, settle, At
  <2>12. Once!Settle(k, v)
    BY <2>4, <2>5, <2>6, <2>8, <2>10 DEF Once!Settle
  <2> QED
    BY <1>1, <2>11, <2>12 DEF Once!Next
<1>4. CASE ~Settled(p)
  <2>1. UNCHANGED <<phase, outcome>>
    BY <1>2, <1>4, OnceStutter DEF settle
  <2> QED
    BY <2>1
<1> QED
  BY <1>3, <1>4

LEMMA OnceStep == TypeOK /\ Inv /\ [Next]_vars => [Once!Next]_<<phase, outcome>>
<1> SUFFICES ASSUME TypeOK, Inv, [Next]_vars PROVE [Once!Next]_<<phase, outcome>>
  OBVIOUS
<1>1. CASE UNCHANGED vars
  <2>1. UNCHANGED <<phase, outcome>>
    BY <1>1, OnceStutter DEF vars
  <2> QED
    BY <2>1
<1>2. ASSUME NEW p \in Procs, RunStep(p) PROVE [Once!Next]_<<phase, outcome>>
  <2>1. ~At(p, "idle")
    BY <1>2 DEF RunStep, verify_image, send_create, created, configure, send_start,
       attached, result, raise, At, RunBody
  <2>2. Key(p) \in Keys
    BY <2>1, Working
  <2>3. UNCHANGED daemon /\ (UNCHANGED journal \/ \E t, s, c : advance(Key(p), t, s, c))
    BY <1>2 DEF RunStep, verify_image, send_create, created, configure, send_start,
       attached, result, raise, Send, Advance
  <2>4. UNCHANGED <<phase, outcome>>
    BY <2>2, <2>3, WriteStutter
  <2> QED
    BY <2>4
<1>3. ASSUME NEW p \in Procs, CleanupStep(p), ~settle(p) PROVE [Once!Next]_<<phase, outcome>>
  <2>1. ~At(p, "idle")
    BY <1>3 DEF CleanupStep, cleanup_gone, cleanup_found, send_kill, recheck, stop,
       send_rm, removed, cleanup_fails, At, CleanupBody
  <2>2. Key(p) \in Keys
    BY <2>1, Working
  <2>3. UNCHANGED daemon /\ (UNCHANGED journal \/ \E t, s, c : advance(Key(p), t, s, c))
    BY <1>3 DEF CleanupStep, cleanup_gone, cleanup_found, send_kill, recheck, stop,
       send_rm, removed, cleanup_fails, Send, Advance
  <2>4. UNCHANGED <<phase, outcome>>
    BY <2>2, <2>3, WriteStutter
  <2> QED
    BY <2>4
<1>4. ASSUME NEW p \in Procs, crash(p) PROVE [Once!Next]_<<phase, outcome>>
  <2>1. UNCHANGED <<phase, outcome>>
    BY <1>4, OnceStutter DEF crash
  <2> QED
    BY <2>1
<1>5. ASSUME NEW p \in Procs, NEW k \in Keys, run_new(p, k) \/ recover(p, k)
      PROVE  [Once!Next]_<<phase, outcome>>
  <2>1. UNCHANGED daemon /\ (UNCHANGED journal \/ \E q, t : begin(k, q, t))
    BY <1>5 DEF run_new, recover
  <2>2. UNCHANGED <<phase, outcome>>
    BY <2>1, WriteStutter
  <2> QED
    BY <2>2
<1> QED
  BY <1>1, <1>2, <1>3, <1>4, <1>5, DaemonOnce, SettleOnce DEF Next

\* However processes die, requests are delayed and containers vanish, a fixture runs
\* at most once, not after its receipt is stored, and a stored success is one
\* (DockerFixtureRunner.run and recover implement the promise of FixtureOnce).
THEOREM RunsOnceCorrect == Spec => RunsAtMostOnce
<1>1. Init => Once!Init
  BY OnceInit
<1>2. TypeOK /\ Inv /\ [Next]_vars => [Once!Next]_<<phase, outcome>>
  BY OnceStep
<1> QED
  BY <1>1, <1>2, InvCorrect, PTL DEF Spec, RunsAtMostOnce, Once!Spec
=============================================================================
