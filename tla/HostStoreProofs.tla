--------------------------- MODULE HostStoreProofs ---------------------------
(* Proofs about what several processes of a host use at once: the file of the *)
(* ledger while it is created and migrated, the permission store while it is  *)
(* migrated, the containers of a deployment, the uploads of corpora and       *)
(* plans, the record of a capacity failure and the journal of the Docker      *)
(* supervisor; and about all of them on one host.                             *)
EXTENDS MCHostStores, AuthorityRuntime, FiniteSetTheorems, TLAPS

-----------------------------------------------------------------------------
(* The file of the ledger.                                                   *)

Database ==
  [exists : BOOLEAN, version : Nat, tables : {"none", "v1", "v2"}, rows : Nat]

Opener ==
  [pc : {"idle", "connect", "opening", "creating", "open", "refused"}, existed : BOOLEAN]

OpenTypeOK == db \in Database /\ found \in Database /\ opener \in [Openers -> Opener]

\* What no process of this program ever touches.
Untouchable == {Empty, Halfway, Broken}

\* A file that existed before a process looked is never created anew, and a
\* database without a version has no rows to lose.
OpenInv ==
  /\ OpenIsComplete
  /\ db.version = 0 => db.rows = 0
  /\ found \in Untouchable =>
       /\ db = found
       /\ \A o \in Openers :
            /\ opener[o].pc \notin {"creating", "open"}
            /\ opener[o].pc # "idle" => opener[o].existed

LEMMA OpenInitInv ==
  ASSUME OpenInit
  PROVE  OpenTypeOK /\ OpenInv
<1>1. \A file \in {Missing, Empty, First, Complete, Halfway, Broken} :
        file \in Database /\ (file.version = 0 => file.rows = 0)
  <2>1. {Missing, Empty, First, Complete, Halfway, Broken} \subseteq Database
    BY DEF Missing, Empty, First, Complete, Halfway, Broken, File, Database
  <2>2. /\ Missing.rows = 0 /\ Empty.rows = 0 /\ Broken.rows = 0
        /\ First.version = 1 /\ Complete.version = 2 /\ Halfway.version = 1
    BY DEF Missing, Empty, First, Complete, Halfway, Broken, File
  <2> QED
    BY <2>1, <2>2
<1>2. opener \in [Openers -> Opener] /\ \A o \in Openers : opener[o].pc = "idle"
  BY DEF OpenInit, Opener
<1> QED
  BY <1>1, <1>2 DEF OpenInit, OpenTypeOK, OpenInv, OpenIsComplete, OpenerAt

\* A step of one process: where it goes, and what it may do to the file.
LEMMA OpenStep ==
  ASSUME OpenTypeOK, OpenInv, [OpenNext]_openVars
  PROVE  OpenTypeOK' /\ OpenInv' /\ ContentKeptStep
<1>1. \A file \in Untouchable : file.exists /\ ~Migratable(file) /\ ~Valid(file)
  BY DEF Untouchable, Empty, Halfway, Broken, File, Migratable, Valid
<1>2. ASSUME NEW o \in Openers,
             \/ check_path(o) \/ connect(o) \/ open_existing(o) \/ initialize(o)
             \/ leave(o)
      PROVE  OpenTypeOK' /\ OpenInv' /\ ContentKeptStep
  <2>1. PICK p \in Opener :
          /\ opener' = [opener EXCEPT ![o] = p]
          /\ p.pc = "open" => Valid(db)
          /\ p.pc = "creating" => opener[o].pc = "opening" /\ ~opener[o].existed
          /\ p.pc # "idle" => p.existed = IF opener[o].pc = "idle" THEN db.exists
                                           ELSE opener[o].existed
    <3>1. opener[o] \in Opener /\ db.exists \in BOOLEAN
      BY DEF OpenTypeOK, Database
    <3>2. CASE check_path(o)
      <4> DEFINE p == [pc |-> "connect", existed |-> db.exists]
      <4>1. p \in Opener
        BY <3>1 DEF Opener
      <4> QED
        BY <3>2, <4>1 DEF check_path, OpenerAt
    <3>3. ASSUME NEW pl \in {"opening", "open", "refused", "creating"}, OpenerGoto(o, pl),
                 opener[o].pc # "idle",
                 pl = "open" => Valid(db),
                 pl = "creating" => opener[o].pc = "opening" /\ ~opener[o].existed
          PROVE  \E p \in Opener :
                   /\ opener' = [opener EXCEPT ![o] = p]
                   /\ p.pc = "open" => Valid(db)
                   /\ p.pc = "creating" => opener[o].pc = "opening" /\ ~opener[o].existed
                   /\ p.pc # "idle" => p.existed = opener[o].existed
      <4> DEFINE p == [opener[o] EXCEPT !.pc = pl]
      <4>1. p \in Opener /\ p.pc = pl /\ p.existed = opener[o].existed
        BY <3>1, <3>3 DEF Opener
      <4>2. opener' = [opener EXCEPT ![o] = p]
        BY <3>3 DEF OpenerGoto, OpenTypeOK, Opener
      <4> HIDE DEF p
      <4> QED
        BY <3>3, <4>1, <4>2
    <3>4. CASE connect(o)
      BY <3>3, <3>4 DEF connect, OpenerAt
    <3>5. CASE open_existing(o)
      <4>1. CASE Valid(db)
        BY <3>3, <3>5, <4>1 DEF open_existing, OpenerAt
      <4>2. CASE ~Valid(db)
        BY <3>3, <3>5, <4>2 DEF open_existing, OpenerAt
      <4> QED
        BY <4>1, <4>2
    <3>6. CASE initialize(o)
      <4>1. CASE db.version = 0
        BY <3>3, <3>6, <4>1 DEF initialize, OpenerAt
      <4>2. CASE db.version # 0
        BY <3>3, <3>6, <4>2 DEF initialize, OpenerAt
      <4> QED
        BY <4>1, <4>2
    <3>7. CASE leave(o)
      <4> DEFINE p == [pc |-> "idle", existed |-> FALSE]
      <4>1. p \in Opener
        BY DEF Opener
      <4> QED
        BY <3>7, <4>1 DEF leave
    <3> QED
      BY <1>2, <3>2, <3>4, <3>5, <3>6, <3>7
  <2>2. db' = [db EXCEPT !.exists = TRUE] \/ db' = db
    BY <1>2 DEF check_path, connect, open_existing, initialize, leave
  <2>3. found' = found
    BY <1>2 DEF check_path, connect, open_existing, initialize, leave
  <2>4. /\ db' \in Database /\ db'.version = db.version /\ db'.tables = db.tables
        /\ db'.rows = db.rows
        /\ db.exists => db' = db
    BY <2>2 DEF OpenTypeOK, Database
  <2>5. found \in Untouchable => db' = found
    BY <1>1, <2>4 DEF OpenInv
  <2>6. OpenTypeOK'
    BY <2>1, <2>3, <2>4 DEF OpenTypeOK
  <2>7. OpenIsComplete'
    BY <2>1, <2>4 DEF OpenInv, OpenIsComplete, OpenerAt, Valid, OpenTypeOK
  <2>8. ASSUME found' \in Untouchable, NEW x \in Openers
        PROVE  /\ opener'[x].pc \notin {"creating", "open"}
               /\ opener'[x].pc # "idle" => opener'[x].existed
    <3>1. CASE x = o
      BY <1>1, <2>1, <2>3, <2>8, <3>1 DEF OpenInv, OpenTypeOK
    <3>2. CASE x # o
      BY <2>1, <2>3, <2>8, <3>2 DEF OpenInv, OpenTypeOK
    <3> QED
      BY <3>1, <3>2
  <2>9. OpenInv'
    BY <2>3, <2>4, <2>5, <2>7, <2>8 DEF OpenInv
  <2>10. ContentKeptStep
    BY <2>4, <2>5 DEF ContentKeptStep, OpenTypeOK, Database, Untouchable
  <2> QED
    BY <2>6, <2>9, <2>10
<1>3. ASSUME NEW o \in Openers, create_schema(o)
      PROVE  OpenTypeOK' /\ OpenInv' /\ ContentKeptStep
  <2>1. /\ OpenerAt(o, "creating") /\ found \notin Untouchable /\ found' = found
        /\ opener' = [opener EXCEPT ![o].pc = "open"]
    BY <1>3 DEF create_schema, OpenerAt, OpenerGoto, OpenInv
  <2>2. Valid(db') /\ db' \in Database /\ db'.rows >= db.rows /\ db'.version >= db.version
    <3>1. CASE Valid(db) /\ UNCHANGED db
      BY <3>1 DEF OpenTypeOK, Database
    <3>2. CASE db.version = 0 /\ db' = File(TRUE, 2, "v2", 0)
      BY <3>2 DEF OpenTypeOK, OpenInv, Database, File, Valid
    <3> QED
      BY <1>3, <3>1, <3>2 DEF create_schema
  <2>3. OpenTypeOK'
    BY <2>1, <2>2 DEF OpenTypeOK, Opener
  <2>4. OpenInv'
    BY <2>1, <2>2 DEF OpenInv, OpenIsComplete, Valid
  <2>5. ContentKeptStep
    BY <2>1, <2>2 DEF ContentKeptStep, Untouchable
  <2> QED
    BY <2>3, <2>4, <2>5
<1>4. ASSUME NEW o \in Openers, migrate_v1(o) \/ write(o)
      PROVE  OpenTypeOK' /\ OpenInv' /\ ContentKeptStep
  <2>1. UNCHANGED <<opener, found>> /\ found \notin Untouchable
    BY <1>1, <1>4 DEF migrate_v1, write, OpenInv, OpenerAt
  <2>2. db.version # 0 /\ db.version <= 2
    BY <1>4 DEF migrate_v1, write, Migratable, OpenInv, OpenIsComplete
  <2>3. /\ db' \in Database /\ db'.version = 2 /\ db'.tables = "v2" /\ db'.rows >= db.rows
    <3>1. CASE migrate_v1(o)
      <4> DEFINE file == [db EXCEPT !.version = 2]
      <4>1. db' = [file EXCEPT !.tables = "v2"]
        BY <3>1 DEF migrate_v1, OpenTypeOK, Database
      <4>2. file \in Database /\ file.version = 2 /\ file.rows = db.rows /\ db.rows \in Nat
        BY DEF OpenTypeOK, Database
      <4> HIDE DEF file
      <4> QED
        BY <4>1, <4>2 DEF Database
    <3>2. CASE write(o)
      <4>1. db' = [db EXCEPT !.rows = @ + 1] /\ db.version = 2 /\ db.tables = "v2"
        BY <3>2 DEF write, OpenInv, OpenIsComplete
      <4> QED
        BY <4>1 DEF OpenTypeOK, Database
    <3> QED
      BY <1>4, <3>1, <3>2
  <2>4. OpenTypeOK'
    BY <2>1, <2>3 DEF OpenTypeOK
  <2>5. OpenInv'
    BY <2>1, <2>3 DEF OpenInv, OpenIsComplete
  <2>6. ContentKeptStep
    BY <2>1, <2>2, <2>3 DEF ContentKeptStep, Untouchable, OpenTypeOK, Database
  <2> QED
    BY <2>4, <2>5, <2>6
<1>5. CASE UNCHANGED openVars
  <2>1. db' = db /\ opener' = opener /\ found' = found
    BY <1>5 DEF openVars
  <2> QED
    BY <2>1 DEF OpenTypeOK, OpenInv, OpenIsComplete, OpenerAt, ContentKeptStep, Database,
       Untouchable
<1> QED
  BY <1>2, <1>3, <1>4, <1>5 DEF OpenNext

LEMMA OpenAlways == OpenSpec => [](OpenTypeOK /\ OpenInv)
<1>1. OpenInit => OpenTypeOK /\ OpenInv
  BY OpenInitInv
<1>2. OpenTypeOK /\ OpenInv /\ [OpenNext]_openVars => (OpenTypeOK /\ OpenInv)'
  BY OpenStep
<1> QED
  BY <1>1, <1>2, PTL DEF OpenSpec

(* Whoever has the ledger open has a complete one, however many processes     *)
(* create, open and migrate it at once (Ledger._open_or_initialize).          *)
THEOREM OpenComplete == OpenSpec => []OpenIsComplete
<1>1. OpenInv => OpenIsComplete
  BY DEF OpenInv
<1> QED
  BY <1>1, OpenAlways, PTL

(* Opening and migrating never wipe rows nor take a version back, and leave   *)
(* what is not a ledger as they found it (_create_schema, migrate_v1).        *)
THEOREM ContentKept == OpenSpec => [][ContentKeptStep]_openVars
<1>1. OpenTypeOK /\ OpenInv /\ [OpenNext]_openVars => ContentKeptStep
  BY OpenStep
<1>2. OpenTypeOK /\ OpenInv /\ [OpenNext]_openVars => [ContentKeptStep]_openVars
  BY <1>1
<1> QED
  BY <1>2, OpenAlways, PTL DEF OpenSpec

-----------------------------------------------------------------------------
(* The migration of the permission store.                                    *)

Askers == Previews \cup Applies

Stages ==
  {"idle", "begin", "preview", "copy", "check", "lock", "migrate", "inspect", "save",
   "finish", "recover"}

Working ==
  [at : Stages, request : Askers \cup {Nothing}, plan : Previews \cup {Nothing}, now : Nat,
   result : MigrationResults \cup {Nothing}]

MigrationTypeOK ==
  /\ seconds \in Nat
  /\ store \in [format : {"old", "new"}, writes : Nat]
  /\ migratedBy \in MigrationRows \cup {Nothing}
  /\ plans \in [Previews -> PlanRows \cup {Nothing}]
  /\ operations \in [Askers -> JournalRows \cup {Nothing}]
  /\ commits \in [Applies -> CommitRows \cup {Nothing}]
  /\ process \in [Processes -> Working]
  /\ answered \in [Askers -> SUBSET MigrationResults]

\* The process with the local state l executes its request; whoever only asks
\* again is at "begin" or "recover".
Executing(l) ==
  l.at \in {"preview", "copy", "check", "lock", "migrate", "inspect", "save", "finish"}

Migrated(q) == migratedBy # Nothing /\ migratedBy.request = q

ProcessOK(l) ==
  l.at # "idle" =>
    /\ l.request \in Askers /\ l.plan \in Previews
    /\ l.at \in {"preview", "copy"} => l.request \in Previews
    /\ l.at \in {"check", "lock", "migrate", "inspect", "save", "recover"} =>
         l.request \in Applies
    /\ l.request \in Applies => plans[l.plan] # Nothing
    /\ Executing(l) \/ l.at = "recover" => operations[l.request] # Nothing
    /\ l.at \in {"check", "lock", "migrate"} => ~Migrated(l.request)
    /\ l.at \in {"inspect", "save"} => Migrated(l.request)
    /\ l.at \in {"check", "lock", "migrate", "inspect", "save"} =>
         operations[l.request].result = Nothing /\ commits[l.request] = Nothing
    /\ l.at = "finish" =>
         /\ l.result \in MigrationResults
         /\ l.result.status = "COMPLETED" => l.request \in Previews \/ Migrated(l.request)
         /\ l.result.status # "COMPLETED" /\ l.result.reason # "OPERATION_UNKNOWN" =>
              ~Migrated(l.request)

\* A request is executed by one process at most, however often it is asked.
OneExecutor ==
  \A c, d \in Processes :
    c # d /\ Executing(process[c]) /\ Executing(process[d]) =>
      process[c].request # process[d].request

\* What is stored and what was answered about an apply.
RequestOK(q) ==
  /\ operations[q] = Nothing => ~Migrated(q) /\ commits[q] = Nothing
  /\ commits[q] # Nothing => Migrated(q) /\ commits[q].result.status = "COMPLETED"
  /\ operations[q] # Nothing /\ operations[q].result # Nothing =>
       (operations[q].result.status = "COMPLETED" <=> Migrated(q))
  /\ \A r \in answered[q] : r.status = "COMPLETED" => Migrated(q)

\* The store is migrated once, from what its plan describes.
StoreOK ==
  /\ store.format = "new" <=> migratedBy # Nothing
  /\ \A p \in Previews : plans[p] # Nothing => plans[p].source.format = "old"
  /\ migratedBy # Nothing =>
       /\ plans[migratedBy.plan] # Nothing
       /\ plans[migratedBy.plan].source = [format |-> "old", writes |-> migratedBy.writes]

MigrationInv ==
  /\ \A c \in Processes : ProcessOK(process[c])
  /\ OneExecutor
  /\ \A q \in Applies : RequestOK(q)
  /\ StoreOK

-----------------------------------------------------------------------------
(* Moves of one process.                                                     *)

LEMMA ErrorResult ==
  ASSUME NEW code, NEW at \in Nat
  PROVE  /\ OperationError(code, at) \in MigrationResults
         /\ OperationError(code, at).status # "COMPLETED"
         /\ code = "OPERATION_UNKNOWN" => OperationError(code, at).reason = "OPERATION_UNKNOWN"
<1>1. CASE code \in {"OWNER_ACTIVE", "OPERATION_UNKNOWN"}
  BY <1>1 DEF OperationError, Unknown, Result, MigrationResults
<1>2. CASE code \in {"BINDING_MISMATCH", "PLAN_EXPIRED", "SCHEMA_UNSUPPORTED"}
  BY <1>2 DEF OperationError, Result, MigrationResults
<1>3. CASE code \notin {"OWNER_ACTIVE", "OPERATION_UNKNOWN", "BINDING_MISMATCH", "PLAN_EXPIRED",
                        "SCHEMA_UNSUPPORTED"}
  BY <1>3 DEF OperationError, Result, MigrationResults
<1> QED
  BY <1>1, <1>2, <1>3

LEMMA CompletedResult ==
  ASSUME NEW at \in Nat
  PROVE  Completed(at) \in MigrationResults /\ Completed(at).status = "COMPLETED"
  BY DEF Completed, Result, MigrationResults

LEMMA GotoMove ==
  ASSUME MigrationTypeOK, NEW c \in Processes, NEW pl \in Stages, Goto(c, pl)
  PROVE  \E l \in Working :
           /\ process' = [process EXCEPT ![c] = l]
           /\ l.at = pl /\ l.request = process[c].request /\ l.plan = process[c].plan
           /\ l.result = process[c].result
<1> DEFINE l == [process[c] EXCEPT !.at = pl]
<1>1. process[c] \in Working
  BY DEF MigrationTypeOK
<1>2. /\ l \in Working /\ l.at = pl /\ l.request = process[c].request
      /\ l.plan = process[c].plan /\ l.result = process[c].result
  BY <1>1 DEF Working
<1>3. process' = [process EXCEPT ![c] = l]
  BY <1>1 DEF Goto, MigrationTypeOK, Working
<1> HIDE DEF l
<1> QED
  BY <1>2, <1>3

\* The process has this result, which the journal has yet to learn.
Concludes(c, result) ==
  process' = [process EXCEPT ![c].at = "finish", ![c].result = result]

LEMMA FinishMove ==
  ASSUME MigrationTypeOK, NEW c \in Processes, NEW r \in MigrationResults, Concludes(c, r)
  PROVE  \E l \in Working :
           /\ process' = [process EXCEPT ![c] = l]
           /\ l.at = "finish" /\ l.request = process[c].request /\ l.plan = process[c].plan
           /\ l.result = r
<1> DEFINE l == [process[c] EXCEPT !.at = "finish", !.result = r]
<1>1. process[c] \in Working
  BY DEF MigrationTypeOK
<1>2. /\ l \in Working /\ l.at = "finish" /\ l.request = process[c].request
      /\ l.plan = process[c].plan /\ l.result = r
  BY <1>1 DEF Working, Stages
<1>3. process' = [process EXCEPT ![c] = l]
  BY <1>1 DEF Concludes, MigrationTypeOK, Working
<1> HIDE DEF l
<1> QED
  BY <1>2, <1>3

LEMMA FailMove ==
  ASSUME MigrationTypeOK, NEW c \in Processes, NEW code, Fail(c, code)
  PROVE  \E l \in Working :
           /\ process' = [process EXCEPT ![c] = l]
           /\ l.at = "finish" /\ l.request = process[c].request /\ l.plan = process[c].plan
           /\ l.result \in MigrationResults /\ l.result.status # "COMPLETED"
           /\ code = "OPERATION_UNKNOWN" => l.result.reason = "OPERATION_UNKNOWN"
<1>1. process[c].now \in Nat
  BY DEF MigrationTypeOK, Working
<1>2. PICK r \in MigrationResults :
        /\ r = OperationError(code, process[c].now) /\ r.status # "COMPLETED"
        /\ code = "OPERATION_UNKNOWN" => r.reason = "OPERATION_UNKNOWN"
  BY <1>1, ErrorResult
<1>3. Concludes(c, r)
  BY <1>2 DEF Fail, Concludes
<1> QED
  BY <1>2, <1>3, FinishMove

-----------------------------------------------------------------------------
(* What a step of one process leaves to the others.                          *)

Steady(c) ==
  /\ \/ migratedBy' = migratedBy
     \/ /\ migratedBy = Nothing /\ migratedBy' \in MigrationRows
        /\ Executing(process[c]) /\ migratedBy'.request = process[c].request
  /\ \A p \in Previews : plans[p] # Nothing => plans'[p] # Nothing
  /\ \A q \in Askers : operations[q] # Nothing => operations'[q] # Nothing
  /\ \A q \in Applies :
       \/ operations'[q] = operations[q] /\ commits'[q] = commits[q]
       \/ operations[q] = Nothing \/ commits[q] # Nothing
       \/ Executing(process[c]) /\ process[c].request = q

\* Who migrated the store stays who migrated it.
LEMMA MigratedStays ==
  ASSUME NEW c, Steady(c), NEW q, Migrated(q)
  PROVE  Migrated(q)'
  BY DEF Steady, Migrated

LEMMA OthersKeep ==
  ASSUME MigrationTypeOK, MigrationInv, NEW c \in Processes, Steady(c),
         NEW x \in Processes, x # c, process'[x] = process[x]
  PROVE  ProcessOK(process[x])'
<1>1. PICK l \in Working : l = process[x] /\ l = process'[x]
  BY DEF MigrationTypeOK
<1>2. ProcessOK(l)
  BY <1>1 DEF MigrationInv
<1> SUFFICES ASSUME l.at # "idle" PROVE ProcessOK(l)'
  BY <1>1 DEF ProcessOK
<1>3. PICK q \in Askers : q = l.request
  BY <1>2 DEF ProcessOK
<1>4. PICK p \in Previews : p = l.plan
  BY <1>2 DEF ProcessOK
<1>5. Executing(l) => ~(Executing(process[c]) /\ process[c].request = q)
  BY <1>1, <1>3 DEF MigrationInv, OneExecutor
<1>6. Executing(l) /\ ~Migrated(q) => ~Migrated(q)'
  BY <1>5 DEF Steady, Migrated
<1>7. Migrated(q) => Migrated(q)'
  BY MigratedStays
<1>8. q \in Applies => plans'[p] # Nothing
  BY <1>2, <1>3, <1>4 DEF ProcessOK, Steady
<1>9. Executing(l) \/ l.at = "recover" => operations'[q] # Nothing
  BY <1>2, <1>3 DEF ProcessOK, Steady
<1>10. l.at \in {"check", "lock", "migrate", "inspect", "save"} =>
         operations'[q].result = Nothing /\ commits'[q] = Nothing
  BY <1>2, <1>3, <1>5 DEF ProcessOK, Steady, Executing
<1> QED
  BY <1>2, <1>3, <1>4, <1>6, <1>7, <1>8, <1>9, <1>10 DEF ProcessOK, Executing

\* A request about which nothing new is stored or answered.
LEMMA RequestsKeep ==
  ASSUME MigrationInv, NEW c, Steady(c), NEW q \in Applies,
         operations'[q] = operations[q], commits'[q] = commits[q], answered'[q] = answered[q],
         migratedBy' = migratedBy \/ process[c].request # q
  PROVE  RequestOK(q)'
<1>1. RequestOK(q)
  BY DEF MigrationInv
<1>2. Migrated(q) <=> Migrated(q)'
  BY DEF Steady, Migrated
<1> QED
  BY <1>1, <1>2 DEF RequestOK

\* A step of one process that stays the only executor of its request.
LEMMA ProcessStep ==
  ASSUME MigrationTypeOK, MigrationInv, NEW c \in Processes, NEW l \in Working,
         process' = [process EXCEPT ![c] = l], Steady(c), ProcessOK(l)',
         Executing(l) =>
           \/ Executing(process[c]) /\ l.request = process[c].request
           \/ operations[l.request] = Nothing,
         \A q \in Applies : RequestOK(q)', StoreOK'
  PROVE  MigrationInv'
<1>1. process'[c] = l /\ \A x \in Processes \ {c} : process'[x] = process[x]
  BY DEF MigrationTypeOK
<1>2. \A x \in Processes : ProcessOK(process[x])'
  BY <1>1, OthersKeep
<1>3. ASSUME NEW x \in Processes, x # c, Executing(process[x]), Executing(l)
      PROVE  process[x].request # l.request
  <2>1. operations[process[x].request] # Nothing
    BY <1>3 DEF MigrationInv, ProcessOK, Executing
  <2> QED
    BY <1>3, <2>1 DEF MigrationInv, OneExecutor
<1>4. OneExecutor'
  BY <1>1, <1>3 DEF OneExecutor, MigrationInv
<1> QED
  BY <1>2, <1>4 DEF MigrationInv

\* A step that changes nothing but where a process is.
LEMMA QuietMigrationStep ==
  ASSUME MigrationTypeOK, MigrationInv, NEW c \in Processes, NEW l \in Working,
         process' = [process EXCEPT ![c] = l], ProcessOK(l),
         Executing(l) => Executing(process[c]) /\ l.request = process[c].request,
         UNCHANGED <<seconds, store, migratedBy, plans, operations, commits, answered>>
  PROVE  MigrationTypeOK' /\ MigrationInv'
<1>1. Steady(c)
  BY DEF Steady
<1>2. ProcessOK(l)'
  BY DEF ProcessOK, Migrated
<1>3. \A q \in Applies : RequestOK(q)'
  BY <1>1, RequestsKeep
<1>4. StoreOK'
  BY DEF MigrationInv, StoreOK
<1>5. MigrationInv'
  BY <1>1, <1>2, <1>3, <1>4, ProcessStep
<1>6. MigrationTypeOK'
  BY DEF MigrationTypeOK
<1> QED
  BY <1>5, <1>6

LEMMA PreviewsDoNotMigrate ==
  ASSUME MigrationTypeOK, NEW q \in Previews
  PROVE  ~Migrated(q)
  BY MigrationAssumption, NothingAssumption DEF MigrationTypeOK, Migrated, MigrationRows

\* A request that fails before its store was touched, or with an outcome that it does
\* not know.
LEMMA FailStep ==
  ASSUME MigrationTypeOK, MigrationInv, NEW c \in Processes, ~At(c, "idle"),
         Executing(process[c]), NEW code, Fail(c, code),
         Migrated(process[c].request) => code = "OPERATION_UNKNOWN",
         UNCHANGED <<seconds, store, migratedBy, plans, operations, commits, answered>>
  PROVE  MigrationTypeOK' /\ MigrationInv'
<1>1. ProcessOK(process[c])
  BY DEF MigrationInv
<1>2. PICK l \in Working :
        /\ process' = [process EXCEPT ![c] = l]
        /\ l.at = "finish" /\ l.request = process[c].request /\ l.plan = process[c].plan
        /\ l.result \in MigrationResults /\ l.result.status # "COMPLETED"
        /\ code = "OPERATION_UNKNOWN" => l.result.reason = "OPERATION_UNKNOWN"
  BY FailMove
<1>3. ProcessOK(l)
  BY <1>1, <1>2 DEF ProcessOK, Executing, At
<1> QED
  BY <1>2, <1>3, QuietMigrationStep

LEMMA AskInv ==
  ASSUME MigrationTypeOK, MigrationInv, NEW c \in Processes, NEW q \in Askers, NEW p \in Previews,
         Ask(c, q, p)
  PROVE  MigrationTypeOK' /\ MigrationInv'
<1>1. PICK l \in Working :
        /\ process' = [process EXCEPT ![c] = l]
        /\ l.at = "begin" /\ l.request = q /\ l.plan = p
  <2> DEFINE l == [at |-> "begin", request |-> q, plan |-> p, now |-> seconds, result |-> Nothing]
  <2>1. l \in Working
    BY DEF Working, Stages, MigrationTypeOK
  <2> QED
    BY <2>1 DEF Ask
<1>2. q \in Applies => plans[p] # Nothing
  BY DEF Ask
<1>3. ProcessOK(l) /\ ~Executing(l)
  BY <1>1, <1>2 DEF ProcessOK, Executing
<1> QED
  BY <1>1, <1>3, QuietMigrationStep DEF Ask

LEMMA LockBusyInv ==
  ASSUME MigrationTypeOK, MigrationInv, NEW c \in Processes, LockBusy(c)
  PROVE  MigrationTypeOK' /\ MigrationInv'
<1>1. /\ process[c].at \in {"preview", "lock"} /\ Fail(c, "OWNER_ACTIVE")
      /\ UNCHANGED <<seconds, store, migratedBy, plans, operations, commits, answered>>
  BY DEF LockBusy, At
<1>2. ~Migrated(process[c].request)
  BY <1>1, PreviewsDoNotMigrate DEF MigrationInv, ProcessOK
<1> QED
  BY <1>1, <1>2, FailStep DEF At, Executing

LEMMA PreviewLockInv ==
  ASSUME MigrationTypeOK, MigrationInv, NEW c \in Processes, PreviewLock(c)
  PROVE  MigrationTypeOK' /\ MigrationInv'
<1>1. process[c].at = "preview" /\ ProcessOK(process[c])
  BY DEF PreviewLock, At, MigrationInv
<1>2. PICK l \in Working :
        /\ process' = [process EXCEPT ![c] = l]
        /\ l.at = "copy" /\ l.request = process[c].request /\ l.plan = process[c].plan
  BY GotoMove DEF PreviewLock, Stages
<1>3. ProcessOK(l) /\ Executing(process[c])
  BY <1>1, <1>2 DEF ProcessOK, Executing
<1> QED
  BY <1>2, <1>3, QuietMigrationStep DEF PreviewLock

LEMMA ApplyCheckInv ==
  ASSUME MigrationTypeOK, MigrationInv, NEW c \in Processes, ApplyCheck(c)
  PROVE  MigrationTypeOK' /\ MigrationInv'
<1>1. /\ process[c].at = "check" /\ ProcessOK(process[c]) /\ Executing(process[c])
      /\ UNCHANGED <<seconds, store, migratedBy, plans, operations, commits, answered>>
  BY DEF ApplyCheck, At, MigrationInv, Executing
<1>2. ~Migrated(process[c].request)
  BY <1>1 DEF ProcessOK
<1>3. CASE Goto(c, "lock")
  <2>1. PICK l \in Working :
          /\ process' = [process EXCEPT ![c] = l]
          /\ l.at = "lock" /\ l.request = process[c].request /\ l.plan = process[c].plan
    BY <1>3, GotoMove DEF Stages
  <2>2. ProcessOK(l)
    BY <1>1, <2>1 DEF ProcessOK, Executing
  <2> QED
    BY <1>1, <2>1, <2>2, QuietMigrationStep
<1>4. ASSUME NEW code, Fail(c, code)
      PROVE  MigrationTypeOK' /\ MigrationInv'
  BY <1>1, <1>2, <1>4, FailStep DEF At
<1> QED
  BY <1>3, <1>4 DEF ApplyCheck

LEMMA ApplyLockInv ==
  ASSUME MigrationTypeOK, MigrationInv, NEW c \in Processes, ApplyLock(c)
  PROVE  MigrationTypeOK' /\ MigrationInv'
<1>1. /\ process[c].at = "lock" /\ ProcessOK(process[c]) /\ Executing(process[c])
      /\ UNCHANGED <<seconds, store, migratedBy, plans, operations, commits, answered>>
  BY DEF ApplyLock, At, MigrationInv, Executing
<1>2. ~Migrated(process[c].request)
  BY <1>1 DEF ProcessOK
<1>3. CASE Goto(c, "migrate")
  <2>1. PICK l \in Working :
          /\ process' = [process EXCEPT ![c] = l]
          /\ l.at = "migrate" /\ l.request = process[c].request /\ l.plan = process[c].plan
    BY <1>3, GotoMove DEF Stages
  <2>2. ProcessOK(l)
    BY <1>1, <2>1 DEF ProcessOK, Executing
  <2> QED
    BY <1>1, <2>1, <2>2, QuietMigrationStep
<1>4. ASSUME NEW code, Fail(c, code)
      PROVE  MigrationTypeOK' /\ MigrationInv'
  BY <1>1, <1>2, <1>4, FailStep DEF At
<1> QED
  BY <1>3, <1>4 DEF ApplyLock

LEMMA ApplyInspectInv ==
  ASSUME MigrationTypeOK, MigrationInv, NEW c \in Processes, ApplyInspect(c)
  PROVE  MigrationTypeOK' /\ MigrationInv'
<1>1. /\ process[c].at = "inspect" /\ ProcessOK(process[c]) /\ Executing(process[c])
      /\ UNCHANGED <<seconds, store, migratedBy, plans, operations, commits, answered>>
  BY DEF ApplyInspect, At, MigrationInv, Executing
<1>2. CASE Goto(c, "save")
  <2>1. PICK l \in Working :
          /\ process' = [process EXCEPT ![c] = l]
          /\ l.at = "save" /\ l.request = process[c].request /\ l.plan = process[c].plan
    BY <1>2, GotoMove DEF Stages
  <2>2. ProcessOK(l)
    BY <1>1, <2>1 DEF ProcessOK, Executing
  <2> QED
    BY <1>1, <2>1, <2>2, QuietMigrationStep
<1>3. CASE Fail(c, AfterMismatch)
  BY <1>1, <1>3, FailStep DEF At, AfterMismatch
<1> QED
  BY <1>2, <1>3 DEF ApplyInspect

LEMMA IdleMove ==
  Idle \in Working /\ Idle.at = "idle"
  BY DEF Idle, Working, Stages

LEMMA CrashInv ==
  ASSUME MigrationTypeOK, MigrationInv, NEW c \in Processes, Crash(c)
  PROVE  MigrationTypeOK' /\ MigrationInv'
<1>1. ProcessOK(Idle) /\ ~Executing(Idle)
  BY IdleMove DEF ProcessOK, Executing
<1> QED
  BY <1>1, IdleMove, QuietMigrationStep DEF Crash

LEMMA BeginCreatedInv ==
  ASSUME MigrationTypeOK, MigrationInv, NEW c \in Processes, BeginCreated(c)
  PROVE  MigrationTypeOK' /\ MigrationInv'
<1>1. process[c].at = "begin" /\ ProcessOK(process[c])
  BY DEF BeginCreated, At, MigrationInv
<1>2. PICK q \in Askers : q = process[c].request
  BY <1>1 DEF ProcessOK
<1>3. PICK row \in JournalRows :
        operations' = [operations EXCEPT ![q] = row] /\ row.result = Nothing
  <2> DEFINE row == [plan |-> process[c].plan, created |-> seconds, result |-> Nothing]
  <2>1. row \in JournalRows
    BY <1>1 DEF JournalRows, ProcessOK, MigrationTypeOK
  <2> QED
    BY <1>2, <2>1 DEF BeginCreated
<1>4. /\ operations[q] = Nothing
      /\ UNCHANGED <<seconds, store, migratedBy, plans, commits, answered>>
  BY <1>2 DEF BeginCreated
<1>5. /\ operations'[q] = row /\ row # Nothing
      /\ \A s \in Askers \ {q} : operations'[s] = operations[s]
  BY <1>3, NothingAssumption DEF MigrationTypeOK
<1>6. q \in Applies => ~Migrated(q) /\ commits[q] = Nothing
  BY <1>4 DEF MigrationInv, RequestOK
<1>7. PICK l \in Working :
        /\ process' = [process EXCEPT ![c] = l]
        /\ l.at = (IF q \in Previews THEN "preview" ELSE "check")
        /\ l.request = q /\ l.plan = process[c].plan
  <2>1. CASE q \in Previews
    BY <1>2, <2>1, GotoMove DEF BeginCreated, Stages
  <2>2. CASE q \notin Previews
    BY <1>2, <2>2, GotoMove DEF BeginCreated, Stages
  <2> QED
    BY <2>1, <2>2
<1>8. Steady(c)
  BY <1>4, <1>5 DEF Steady, Askers
<1>9. ProcessOK(l)'
  <2>1. l.at \in {"preview", "check"} /\ (l.at = "check" => q \in Applies)
    BY <1>7 DEF Askers
  <2>2. l.at = "preview" => q \in Previews
    BY <1>7
  <2>3. q \in Applies => plans'[l.plan] # Nothing /\ ~Migrated(q)'
    BY <1>1, <1>2, <1>4, <1>6, <1>7 DEF ProcessOK, Migrated
  <2> QED
    BY <1>1, <1>2, <1>3, <1>4, <1>5, <1>6, <1>7, <2>1, <2>2, <2>3 DEF ProcessOK, Executing
<1>10. ASSUME NEW s \in Applies PROVE RequestOK(s)'
  <2>1. CASE s # q
    BY <1>4, <1>5, <1>8, <2>1, RequestsKeep DEF Askers
  <2>2. CASE s = q
    <3>1. RequestOK(q)
      BY <2>2 DEF MigrationInv
    <3> QED
      BY <1>3, <1>4, <1>5, <2>2, <3>1 DEF RequestOK, Migrated
  <2> QED
    BY <2>1, <2>2
<1>11. StoreOK'
  BY <1>4 DEF MigrationInv, StoreOK
<1>12. MigrationInv'
  BY <1>4, <1>7, <1>8, <1>9, <1>10, <1>11, ProcessStep
<1>13. MigrationTypeOK'
  BY <1>3, <1>4, <1>7 DEF MigrationTypeOK
<1> QED
  BY <1>12, <1>13

\* A process that answers its request, and may store the answer.
LEMMA AnswerStep ==
  ASSUME MigrationTypeOK, MigrationInv, NEW c \in Processes, ~At(c, "idle"),
         NEW q \in Askers, q = process[c].request, NEW r \in MigrationResults, Answer(c, r),
         q \in Applies /\ r.status = "COMPLETED" => Migrated(q),
         UNCHANGED <<seconds, store, migratedBy, plans, commits>>,
         \/ operations' = operations
         \/ /\ operations[q] # Nothing
            /\ operations' = [operations EXCEPT ![q].result = r]
            /\ q \in Applies =>
                 /\ Migrated(q) => r.status = "COMPLETED"
                 /\ Executing(process[c]) \/ commits[q] # Nothing
  PROVE  MigrationTypeOK' /\ MigrationInv'
<1>1. /\ answered' = [answered EXCEPT ![q] = @ \cup {r}]
      /\ process' = [process EXCEPT ![c] = Idle]
  BY DEF Answer
<1>2. /\ operations' \in [Askers -> JournalRows \cup {Nothing}]
      /\ \A s \in Askers \ {q} : operations'[s] = operations[s]
      /\ operations'[q] # operations[q] =>
           /\ operations[q] # Nothing /\ operations'[q] # Nothing /\ operations'[q].result = r
           /\ q \in Applies => Executing(process[c]) \/ commits[q] # Nothing
           /\ q \in Applies /\ Migrated(q) => r.status = "COMPLETED"
  <2>1. CASE operations' = operations
    BY <2>1 DEF MigrationTypeOK
  <2>2. CASE operations' # operations
    <3> DEFINE row == [operations[q] EXCEPT !.result = r]
    <3>1. operations[q] \in JournalRows
      BY <2>2 DEF MigrationTypeOK
    <3>2. row \in JournalRows /\ row.result = r
      BY <3>1 DEF JournalRows
    <3>3. operations' = [operations EXCEPT ![q] = row]
      BY <2>2 DEF MigrationTypeOK
    <3> HIDE DEF row
    <3> QED
      BY <2>2, <3>2, <3>3, NothingAssumption DEF MigrationTypeOK
  <2> QED
    BY <2>1, <2>2
<1>3. answered'[q] = answered[q] \cup {r} /\ \A s \in Askers \ {q} : answered'[s] = answered[s]
  BY <1>1 DEF MigrationTypeOK
<1>4. Steady(c)
  BY <1>2 DEF Steady, Askers
<1>5. ASSUME NEW s \in Applies PROVE RequestOK(s)'
  <2>1. CASE s # q
    BY <1>2, <1>3, <1>4, <2>1, RequestsKeep DEF Askers
  <2>2. CASE s = q
    <3>1. RequestOK(q)
      BY <2>2 DEF MigrationInv
    <3>2. Migrated(q) <=> Migrated(q)'
      BY DEF Migrated
    <3> QED
      BY <1>2, <1>3, <2>2, <3>1, <3>2 DEF RequestOK
  <2> QED
    BY <2>1, <2>2
<1>6. StoreOK'
  BY DEF MigrationInv, StoreOK
<1>7. ProcessOK(Idle)' /\ ~Executing(Idle)
  BY IdleMove DEF ProcessOK, Executing
<1>8. MigrationInv'
  BY <1>1, <1>4, <1>5, <1>6, <1>7, IdleMove, ProcessStep
<1>9. MigrationTypeOK'
  BY <1>1, <1>2, IdleMove DEF MigrationTypeOK
<1> QED
  BY <1>8, <1>9

LEMMA BeginAgainInv ==
  ASSUME MigrationTypeOK, MigrationInv, NEW c \in Processes, BeginAgain(c)
  PROVE  MigrationTypeOK' /\ MigrationInv'
<1>1. process[c].at = "begin" /\ ~At(c, "idle") /\ ProcessOK(process[c])
  BY DEF BeginAgain, At, MigrationInv
<1>2. PICK q \in Askers : q = process[c].request
  BY <1>1 DEF ProcessOK
<1>3. PICK row \in JournalRows : row = operations[q]
  BY <1>2 DEF BeginAgain, MigrationTypeOK
<1>4. UNCHANGED <<seconds, store, migratedBy, plans, operations, commits>>
  BY DEF BeginAgain
<1>5. CASE Answer(c, Result("REJECTED", "IDEMPOTENCY_CONFLICT", seconds))
  <2>1. Result("REJECTED", "IDEMPOTENCY_CONFLICT", seconds) \in MigrationResults
    BY DEF Result, MigrationResults, MigrationTypeOK
  <2> QED
    BY <1>1, <1>2, <1>4, <1>5, <2>1, AnswerStep DEF Result
<1>6. CASE row.result # Nothing /\ Answer(c, row.result)
  <2>1. row.result \in MigrationResults
    BY <1>6 DEF JournalRows
  <2>2. q \in Applies /\ row.result.status = "COMPLETED" => Migrated(q)
    BY <1>3, <1>6, NothingAssumption DEF MigrationInv, RequestOK
  <2> QED
    BY <1>1, <1>2, <1>4, <1>6, <2>1, <2>2, AnswerStep
<1>7. CASE Answer(c, Unknown(process[c].now))
  <2>1. /\ Unknown(process[c].now) \in MigrationResults
        /\ Unknown(process[c].now).status # "COMPLETED"
    BY DEF Unknown, Result, MigrationResults, MigrationTypeOK, Working
  <2> QED
    BY <1>1, <1>2, <1>4, <1>7, <2>1, AnswerStep
<1>8. CASE q \notin Previews /\ Goto(c, "recover") /\ UNCHANGED answered
  <2>1. PICK l \in Working :
          /\ process' = [process EXCEPT ![c] = l]
          /\ l.at = "recover" /\ l.request = process[c].request /\ l.plan = process[c].plan
    BY <1>8, GotoMove DEF Stages
  <2>2. operations[q] # Nothing
    BY <1>2 DEF BeginAgain
  <2>3. ProcessOK(l) /\ ~Executing(l)
    BY <1>1, <1>2, <1>8, <2>1, <2>2 DEF ProcessOK, Executing, Askers
  <2> QED
    BY <1>4, <1>8, <2>1, <2>3, QuietMigrationStep
<1> QED
  BY <1>2, <1>3, <1>5, <1>6, <1>7, <1>8 DEF BeginAgain

LEMMA PreviewPlanInv ==
  ASSUME MigrationTypeOK, MigrationInv, NEW c \in Processes, PreviewPlan(c)
  PROVE  MigrationTypeOK' /\ MigrationInv'
<1>1. /\ process[c].at = "copy" /\ ProcessOK(process[c]) /\ Executing(process[c])
      /\ UNCHANGED <<seconds, store, migratedBy, operations, commits, answered>>
  BY DEF PreviewPlan, At, MigrationInv, Executing
<1>2. PICK q \in Previews : q = process[c].request
  BY <1>1 DEF ProcessOK
<1>3. CASE /\ store.format = "old"
           /\ plans' = [plans EXCEPT ![process[c].request] =
                          [source |-> store, created |-> process[c].now]]
           /\ process' = [process EXCEPT ![c].at = "finish",
                                         ![c].result = Completed(process[c].now)]
  <2>1. PICK row \in PlanRows : plans' = [plans EXCEPT ![q] = row] /\ row.source = store
    <3> DEFINE row == [source |-> store, created |-> process[c].now]
    <3>1. row \in PlanRows
      BY DEF PlanRows, MigrationTypeOK, Working
    <3> QED
      BY <1>2, <1>3, <3>1
  <2>2. plans'[q] = row /\ row # Nothing /\ \A p \in Previews \ {q} : plans'[p] = plans[p]
    BY <2>1, NothingAssumption DEF MigrationTypeOK
  <2>3. PICK r \in MigrationResults : r = Completed(process[c].now) /\ r.status = "COMPLETED"
    BY CompletedResult DEF MigrationTypeOK, Working
  <2>4. PICK l \in Working :
          /\ process' = [process EXCEPT ![c] = l]
          /\ l.at = "finish" /\ l.request = process[c].request /\ l.plan = process[c].plan
          /\ l.result = r
    BY <1>3, <2>3, FinishMove DEF Concludes
  <2>5. Steady(c)
    BY <1>1, <2>2 DEF Steady
  <2>6. ProcessOK(l)'
    BY <1>1, <1>2, <2>3, <2>4, MigrationAssumption DEF ProcessOK, Executing
  <2>7. \A s \in Applies : RequestOK(s)'
    BY <1>1, <2>5, RequestsKeep
  <2>8. StoreOK'
    BY <1>1, <1>3, <2>1, <2>2 DEF MigrationInv, StoreOK
  <2>9. MigrationInv'
    BY <1>1, <2>4, <2>5, <2>6, <2>7, <2>8, ProcessStep
  <2>10. MigrationTypeOK'
    BY <1>1, <2>1, <2>4 DEF MigrationTypeOK
  <2> QED
    BY <2>9, <2>10
<1>4. ASSUME NEW code, Fail(c, code), UNCHANGED plans
      PROVE  MigrationTypeOK' /\ MigrationInv'
  BY <1>1, <1>2, <1>4, PreviewsDoNotMigrate, FailStep DEF At
<1> QED
  BY <1>3, <1>4 DEF PreviewPlan

LEMMA MigrateInv ==
  ASSUME MigrationTypeOK, MigrationInv, NEW c \in Processes, Migrate(c)
  PROVE  MigrationTypeOK' /\ MigrationInv'
<1>1. /\ process[c].at = "migrate" /\ ProcessOK(process[c]) /\ Executing(process[c])
      /\ UNCHANGED <<seconds, plans, operations, commits, answered>>
  BY DEF Migrate, At, MigrationInv, Executing
<1>2. PICK q \in Applies : q = process[c].request
  BY <1>1 DEF ProcessOK
<1>3. PICK p \in Previews : p = process[c].plan
  BY <1>1 DEF ProcessOK
<1>4. CASE /\ Expected(p)
           /\ store' = [store EXCEPT !.format = "new"]
           /\ migratedBy' = [request |-> q, plan |-> p, writes |-> store.writes]
           /\ Goto(c, "inspect")
  <2>1. /\ store = plans[p].source /\ plans[p] # Nothing /\ store.format = "old"
        /\ migratedBy = Nothing
    BY <1>1, <1>2, <1>3, <1>4
    DEF Expected, SourceUnchanged, MigrationInv, StoreOK, ProcessOK
  <2>2. /\ migratedBy' \in MigrationRows /\ migratedBy'.request = q /\ migratedBy'.plan = p
        /\ migratedBy'.writes = store.writes
    BY <1>4 DEF MigrationRows, MigrationTypeOK
  <2>3. migratedBy' # Nothing
    BY <2>2, NothingAssumption
  <2>4. PICK l \in Working :
          /\ process' = [process EXCEPT ![c] = l]
          /\ l.at = "inspect" /\ l.request = process[c].request /\ l.plan = process[c].plan
    BY <1>4, GotoMove DEF Stages
  <2>5. Steady(c)
    BY <1>1, <1>2, <2>1, <2>2 DEF Steady
  <2>6. ProcessOK(l)'
    BY <1>1, <1>2, <2>2, <2>3, <2>4 DEF ProcessOK, Executing, Migrated
  <2>7. ASSUME NEW s \in Applies PROVE RequestOK(s)'
    <3>1. CASE s # q
      BY <1>1, <1>2, <2>5, <3>1, RequestsKeep
    <3>2. CASE s = q
      <4>1. RequestOK(q) /\ operations[q] # Nothing /\ operations[q].result = Nothing
            /\ commits[q] = Nothing
        BY <1>1, <1>2 DEF MigrationInv, ProcessOK, Executing
      <4> QED
        BY <1>1, <2>2, <2>3, <3>2, <4>1 DEF RequestOK, Migrated
    <3> QED
      BY <3>1, <3>2
  <2>8. StoreOK'
    <3>1. store'.format = "new"
      BY <1>4 DEF MigrationTypeOK
    <3>2. store = [format |-> "old", writes |-> store.writes]
      BY <2>1 DEF MigrationTypeOK
    <3> QED
      BY <1>1, <2>1, <2>2, <2>3, <3>1, <3>2 DEF MigrationInv, StoreOK
  <2>9. MigrationInv'
    BY <1>1, <2>4, <2>5, <2>6, <2>7, <2>8, ProcessStep
  <2>10. store' \in [format : {"old", "new"}, writes : Nat]
    BY <1>4 DEF MigrationTypeOK
  <2>11. MigrationTypeOK'
    BY <1>1, <2>2, <2>4, <2>10 DEF MigrationTypeOK
  <2> QED
    BY <2>9, <2>11
<1>5. ASSUME NEW code, Fail(c, code), UNCHANGED <<store, migratedBy>>
      PROVE  MigrationTypeOK' /\ MigrationInv'
  <2>1. ~Migrated(process[c].request)
    BY <1>1 DEF ProcessOK
  <2> QED
    BY <1>1, <1>5, <2>1, FailStep DEF At
<1> QED
  BY <1>2, <1>3, <1>4, <1>5 DEF Migrate

LEMMA SaveCommitInv ==
  ASSUME MigrationTypeOK, MigrationInv, NEW c \in Processes, SaveCommit(c)
  PROVE  MigrationTypeOK' /\ MigrationInv'
<1>1. /\ process[c].at = "save" /\ ProcessOK(process[c]) /\ Executing(process[c])
      /\ UNCHANGED <<seconds, store, migratedBy, plans, operations, answered>>
  BY DEF SaveCommit, At, MigrationInv, Executing
<1>2. PICK q \in Applies : q = process[c].request
  BY <1>1 DEF ProcessOK
<1>3. CASE /\ commits' = [commits EXCEPT ![q] =
                [plan |-> process[c].plan, result |-> Completed(process[c].now)]]
           /\ process' = [process EXCEPT ![c].at = "finish",
                                         ![c].result = Completed(process[c].now)]
  <2>1. PICK r \in MigrationResults : r = Completed(process[c].now) /\ r.status = "COMPLETED"
    BY CompletedResult DEF MigrationTypeOK, Working
  <2>2. PICK row \in CommitRows : commits' = [commits EXCEPT ![q] = row] /\ row.result = r
    <3> DEFINE row == [plan |-> process[c].plan, result |-> r]
    <3>1. row \in CommitRows
      BY <1>1 DEF CommitRows, ProcessOK
    <3> QED
      BY <1>3, <2>1, <3>1
  <2>3. commits'[q] = row /\ row # Nothing /\ \A s \in Applies \ {q} : commits'[s] = commits[s]
    BY <2>2, NothingAssumption DEF MigrationTypeOK
  <2>4. PICK l \in Working :
          /\ process' = [process EXCEPT ![c] = l]
          /\ l.at = "finish" /\ l.request = process[c].request /\ l.plan = process[c].plan
          /\ l.result = r
    BY <1>3, <2>1, FinishMove DEF Concludes
  <2>5. Migrated(q) /\ Migrated(q)' /\ operations[q] # Nothing
    BY <1>1, <1>2 DEF ProcessOK, Migrated, Executing
  <2>6. Steady(c)
    BY <1>1, <1>2, <2>3 DEF Steady
  <2>7. ProcessOK(l)'
    BY <1>1, <1>2, <2>1, <2>4, <2>5 DEF ProcessOK, Executing
  <2>8. ASSUME NEW s \in Applies PROVE RequestOK(s)'
    <3>1. CASE s # q
      BY <1>1, <2>3, <2>6, <3>1, RequestsKeep
    <3>2. CASE s = q
      BY <1>1, <2>1, <2>2, <2>3, <2>5, <3>2 DEF RequestOK, MigrationInv
    <3> QED
      BY <3>1, <3>2
  <2>9. StoreOK'
    BY <1>1 DEF MigrationInv, StoreOK
  <2>10. MigrationInv'
    BY <1>1, <2>4, <2>6, <2>7, <2>8, <2>9, ProcessStep
  <2>11. MigrationTypeOK'
    BY <1>1, <2>2, <2>4 DEF MigrationTypeOK
  <2> QED
    BY <2>10, <2>11
<1>4. CASE Fail(c, "OPERATION_UNKNOWN") /\ UNCHANGED commits
  BY <1>1, <1>4, FailStep DEF At
<1> QED
  BY <1>2, <1>3, <1>4 DEF SaveCommit

LEMMA LeaveOpenInv ==
  ASSUME MigrationTypeOK, MigrationInv, NEW c \in Processes, LeaveOpen(c)
  PROVE  MigrationTypeOK' /\ MigrationInv'
<1>1. process[c].at = "finish" /\ ~At(c, "idle") /\ ProcessOK(process[c])
  BY DEF LeaveOpen, At, MigrationInv
<1>2. PICK q \in Askers : q = process[c].request
  BY <1>1 DEF ProcessOK
<1>3. PICK r \in MigrationResults : r = process[c].result
  BY <1>1 DEF ProcessOK
<1>4. q \in Applies /\ r.status = "COMPLETED" => Migrated(q)
  BY <1>1, <1>2, <1>3, MigrationAssumption DEF ProcessOK
<1> QED
  BY <1>1, <1>2, <1>3, <1>4, AnswerStep DEF LeaveOpen

LEMMA FinishInv ==
  ASSUME MigrationTypeOK, MigrationInv, NEW c \in Processes, Finish(c)
  PROVE  MigrationTypeOK' /\ MigrationInv'
<1>1. /\ process[c].at = "finish" /\ ~At(c, "idle") /\ ProcessOK(process[c])
      /\ Executing(process[c])
  BY DEF Finish, At, MigrationInv, Executing
<1>2. PICK q \in Askers : q = process[c].request
  BY <1>1 DEF ProcessOK
<1>3. PICK r \in MigrationResults : r = process[c].result
  BY <1>1 DEF ProcessOK
<1>4. /\ q \in Applies => (r.status = "COMPLETED" <=> Migrated(q))
      /\ operations[q] # Nothing
  BY <1>1, <1>2, <1>3, MigrationAssumption DEF ProcessOK, Finish
<1>5. UNCHANGED <<seconds, store, migratedBy, plans, commits>>
  BY DEF Finish
<1>6. CASE operations' = [operations EXCEPT ![q].result = r] /\ Answer(c, r)
  BY <1>1, <1>2, <1>4, <1>5, <1>6, AnswerStep
<1>7. CASE /\ Answer(c, OperationError("BINDING_MISMATCH", process[c].now))
           /\ UNCHANGED operations
  <2>1. PICK e \in MigrationResults :
          e = OperationError("BINDING_MISMATCH", process[c].now) /\ e.status # "COMPLETED"
    BY ErrorResult DEF MigrationTypeOK, Working
  <2> QED
    BY <1>1, <1>2, <1>5, <1>7, <2>1, AnswerStep
<1> QED
  BY <1>2, <1>3, <1>6, <1>7 DEF Finish

LEMMA RecoverInv ==
  ASSUME MigrationTypeOK, MigrationInv, NEW c \in Processes, Recover(c)
  PROVE  MigrationTypeOK' /\ MigrationInv'
<1>1. process[c].at = "recover" /\ ~At(c, "idle") /\ ProcessOK(process[c])
  BY DEF Recover, At, MigrationInv
<1>2. PICK q \in Applies : q = process[c].request
  BY <1>1 DEF ProcessOK
<1>3. UNCHANGED <<seconds, store, migratedBy, plans, commits>>
  BY DEF Recover
<1>4. CASE /\ commits[q] # Nothing
           /\ operations' = IF Finishable(operations[q], commits[q].result)
                              THEN [operations EXCEPT ![q].result = commits[q].result]
                              ELSE operations
           /\ Answer(c, commits[q].result)
  <2>1. PICK r \in MigrationResults : r = commits[q].result
    BY <1>4 DEF MigrationTypeOK, CommitRows
  <2>2. Migrated(q) /\ r.status = "COMPLETED" /\ operations[q] # Nothing
    BY <1>1, <1>2, <1>4, <2>1 DEF MigrationInv, RequestOK, ProcessOK
  <2>3. operations' = operations \/ operations' = [operations EXCEPT ![q].result = r]
    BY <1>4, <2>1
  <2> QED
    BY <1>1, <1>2, <1>3, <1>4, <2>1, <2>2, <2>3, AnswerStep DEF Askers
<1>5. CASE Answer(c, Unknown(process[c].now)) /\ UNCHANGED operations
  <2>1. /\ Unknown(process[c].now) \in MigrationResults
        /\ Unknown(process[c].now).status # "COMPLETED"
    BY DEF Unknown, Result, MigrationResults, MigrationTypeOK, Working
  <2> QED
    BY <1>1, <1>2, <1>3, <1>5, <2>1, AnswerStep DEF Askers
<1> QED
  BY <1>2, <1>4, <1>5 DEF Recover, Proved

LEMMA MigrationStep ==
  ASSUME MigrationTypeOK, MigrationInv, [MigrationNext]_migrationVars
  PROVE  MigrationTypeOK' /\ MigrationInv'
<1>1. ASSUME NEW c \in Processes,
             \/ \E q \in Previews \cup Applies, p \in Previews : Ask(c, q, p)
             \/ BeginCreated(c) \/ BeginAgain(c) \/ LockBusy(c)
             \/ PreviewLock(c) \/ PreviewPlan(c)
             \/ ApplyCheck(c) \/ ApplyLock(c) \/ Migrate(c) \/ ApplyInspect(c) \/ SaveCommit(c)
             \/ LeaveOpen(c) \/ Finish(c) \/ Recover(c) \/ Crash(c)
      PROVE  MigrationTypeOK' /\ MigrationInv'
  BY <1>1, AskInv, BeginCreatedInv, BeginAgainInv, LockBusyInv, PreviewLockInv, PreviewPlanInv,
     ApplyCheckInv, ApplyLockInv, MigrateInv, ApplyInspectInv, SaveCommitInv, LeaveOpenInv,
     FinishInv, RecoverInv, CrashInv DEF Askers
<1>2. ASSUME UNCHANGED <<migratedBy, plans, operations, commits, process, answered>>,
             store'.format = store.format, seconds' \in Nat,
             store' \in [format : {"old", "new"}, writes : Nat]
      PROVE  MigrationTypeOK' /\ MigrationInv'
  BY <1>2 DEF MigrationTypeOK, MigrationInv, ProcessOK, Executing, Migrated, OneExecutor, RequestOK,
     StoreOK
<1>3. CASE RuntimeWrite
  <2>1. /\ store'.format = store.format /\ store' \in [format : {"old", "new"}, writes : Nat]
        /\ seconds' \in Nat
    BY <1>3 DEF RuntimeWrite, MigrationTypeOK
  <2> QED
    BY <1>2, <1>3, <2>1 DEF RuntimeWrite
<1>4. CASE Second
  <2>1. seconds' \in Nat /\ store' = store
    BY <1>4 DEF Second, MigrationTypeOK
  <2> QED
    BY <1>2, <1>4, <2>1 DEF Second, MigrationTypeOK
<1>5. CASE UNCHANGED migrationVars
  BY <1>2, <1>5 DEF migrationVars, MigrationTypeOK
<1> QED
  BY <1>1, <1>3, <1>4, <1>5 DEF MigrationNext

LEMMA MigrationAlways == MigrationSpec => [](MigrationTypeOK /\ MigrationInv)
<1>1. ASSUME MigrationInit PROVE MigrationTypeOK /\ MigrationInv
  <2>1. MigrationTypeOK
    <3>1. store \in [format : {"old", "new"}, writes : Nat]
      BY <1>1 DEF MigrationInit
    <3> QED
      BY <1>1, <3>1, IdleMove DEF MigrationInit, MigrationTypeOK, Askers
  <2>2. MigrationInv
    BY <1>1, IdleMove
    DEF MigrationInit, MigrationInv, ProcessOK, Executing, Migrated, OneExecutor, RequestOK, StoreOK,
        Askers
  <2> QED
    BY <2>1, <2>2
<1>2. MigrationTypeOK /\ MigrationInv /\ [MigrationNext]_migrationVars
        => (MigrationTypeOK /\ MigrationInv)'
  BY MigrationStep
<1> QED
  BY <1>1, <1>2, PTL DEF MigrationSpec

(* Whatever is retried, crashes or is written in between: an apply that is     *)
(* answered as completed is the one that migrated the store, from exactly what *)
(* its plan describes, and a stored refusal did not migrate it (_apply_impl,   *)
(* _recover_apply).                                                            *)
THEOREM AnswersCorrect == MigrationSpec => []StoredAnswersAreTrue
<1>1. MigrationTypeOK /\ MigrationInv => StoredAnswersAreTrue
  BY DEF MigrationInv, RequestOK, StoreOK, Migrated, StoredAnswersAreTrue, CompletedIsProved,
     StoredRefusalIsTrue
<1> QED
  BY <1>1, MigrationAlways, PTL

-----------------------------------------------------------------------------
(* The containers of a deployment.                                           *)
(*                                                                           *)
(* The daemon, the authority and the programs share no lock.  What keeps a   *)
(* request from being sent into two containers is that its name is nobody    *)
(* else's, that the call is nobody else's, and that a program sends only     *)
(* what was not answered and is carried nowhere.                             *)

InCall == {"take", "saveClient", "create", "send", "await", "drop", "decide", "discard"}
Named == {"saveClient", "create", "send", "await", "drop", "discard"}

Places ==
  {"away", "idle", "saveBroker", "createBroker", "refreshed", "saveNames", "clean"} \cup InCall

ProgramRows ==
  [pc : Places, mode : {"fresh", "reuse", "keep", "clean"}, known : SUBSET Names,
   read : SUBSET Names, kept : ClientNames \cup {NoName}, name : ClientNames \cup {NoName},
   call : ClientCalls \cup {NoName}, attempt : {1, 2}, todo : SUBSET Names]

Boxes == {"absent", "created", "running", "exited"}

RuntimeTypeOK ==
  /\ Written \subseteq Names /\ late \subseteq Names /\ resolved \subseteq ClientCalls
  /\ program \in [Programs -> ProgramRows]
  /\ box \in [Names -> Boxes]
  /\ carrying \in [Names -> SUBSET ClientCalls]
  /\ answer \in [ClientCalls -> {"none", "done", "rollback"}]
  /\ performed \in [ClientCalls -> Nat]

\* What holds of the daemon and the authority, whoever sends.
DaemonSound ==
  /\ NamesWrittenAhead
  /\ \A n \in Names : carrying[n] # {} => box[n] = "running"
  /\ \A c \in ClientCalls :
       /\ \A n, m \in Names : c \in carrying[n] /\ c \in carrying[m] => n = m
       /\ \A n \in Names : c \in carrying[n] => answer[c] = "none" /\ c \notin resolved
       /\ performed[c] <= 1 /\ (answer[c] # "done" => performed[c] = 0)

\* What holds of one program and its request.
ProgramSound(p) ==
  LET r == program[p]
  IN /\ (r.pc \in InCall => r.call \in ClientCalls) /\ (r.pc \notin InCall => r.call = NoName)
     /\ r.pc \in Named => r.name \in ClientNames
     /\ {r.name, r.kept} \subseteq r.known \cup {NoName}
     /\ r.pc \in {"create", "await", "drop"} => r.name \in Written
     /\ r.pc = "createBroker" => Broker \in Written
     /\ r.pc = "saveBroker" => Broker \in r.known
     /\ r.pc \in Saving => r.read \subseteq r.known
     /\ r.pc \in {"take", "saveClient", "create", "send"} => answer[r.call] = "none"
     /\ r.pc \in {"drop", "decide"} => answer[r.call] # "none"
     /\ \A n \in Names : r.call \in carrying[n] => r.pc \in {"await", "discard"} /\ n = r.name
     /\ r.call \notin resolved
     /\ r.mode = "reuse" /\ r.pc \in {"send", "await"} => r.kept = r.name
     /\ r.mode = "reuse" /\ r.kept # NoName /\ r.pc \notin {"await", "discard"} =>
          box[r.kept] # "running"
     /\ r.mode # "keep" /\ r.pc = "await" => carrying[r.name] \subseteq {r.call}

\* Two programs have no request and no client container in common.
Apart(r, s) ==
  /\ r.call # NoName => r.call # s.call
  /\ {r.name, r.kept} \cap {s.name, s.kept} \subseteq {NoName}

ProgramsApart == \A p \in Programs : \A q \in Programs \ {p} : Apart(program[p], program[q])

RuntimeInv ==
  /\ RuntimeTypeOK /\ DaemonSound /\ ProgramsApart
  /\ \A p \in Programs : ProgramSound(p)

-----------------------------------------------------------------------------
\* What a step of program p may change that others look at: only its own
\* request, its own container, and the broker.
OnlyOwn(p) ==
  /\ Written \subseteq Written'
  /\ \A c \in ClientCalls \ {program[p].call} : answer'[c] = answer[c]
  /\ \A n \in Names : \A c \in carrying'[n] \ carrying[n] : c = program[p].call /\ n = program[p].name
  /\ \A n \in Names : box'[n] = "running" /\ box[n] # "running" => n \in {program[p].name, Broker}
  /\ resolved' \subseteq resolved \cup {program[p].call}

\* A step of one program leaves what holds of every other one.
LEMMA OtherProgramsKeep ==
  ASSUME RuntimeInv, NEW p \in Programs, NEW q \in Programs, p # q, OnlyOwn(p), RuntimeTypeOK',
         program'[q] = program[q]
  PROVE  ProgramSound(q)'
<1> DEFINE r == program[p]
<1> DEFINE s == program[q]
<1>1. /\ r \in ProgramRows /\ s \in ProgramRows /\ ProgramSound(q) /\ Apart(s, r)
      /\ program'[q] = s /\ program[q] = s
  BY DEF RuntimeInv, RuntimeTypeOK, ProgramsApart
<1>2. s.call # NoName => s.call # r.call
  BY <1>1 DEF Apart
<1>3. s.call \in ClientCalls => answer'[s.call] = answer[s.call]
  BY <1>2, RuntimeAssumption DEF OnlyOwn
<1>4. \A n \in Names : s.call \in carrying'[n] => s.call \in carrying[n]
  <2> SUFFICES ASSUME NEW n \in Names, s.call \in carrying'[n], s.call \notin carrying[n]
               PROVE  FALSE
    OBVIOUS
  <2>1. s.call = r.call
    BY DEF OnlyOwn
  <2>2. s.call \in ClientCalls
    BY DEF RuntimeTypeOK
  <2> QED
    BY <2>1, <2>2, <1>2, RuntimeAssumption
<1>5. s.call \notin resolved'
  <2>1. s.call \notin resolved
    BY <1>1 DEF ProgramSound
  <2>2. s.call \in resolved' => s.call \in ClientCalls /\ s.call = r.call
    BY <2>1 DEF OnlyOwn, RuntimeTypeOK
  <2> QED
    BY <2>2, <1>2, RuntimeAssumption
<1>6. s.kept # NoName => s.kept # r.name /\ s.kept # Broker /\ s.kept \in Names
  BY <1>1, RuntimeAssumption DEF Apart, Places, ProgramRows, Names
<1>7. s.name # NoName => s.name # r.name /\ s.name \in Names
  BY <1>1 DEF Apart, Places, ProgramRows, Names
<1>8. s.kept # NoName /\ box[s.kept] # "running" => box'[s.kept] # "running"
  BY <1>6 DEF OnlyOwn
<1>9. s.name # NoName => carrying'[s.name] \subseteq carrying[s.name]
  BY <1>7 DEF OnlyOwn
<1>10. s.pc = "await" => s.name # NoName
  BY <1>1, RuntimeAssumption DEF ProgramSound, Named
<1>11. Written \subseteq Written'
  BY DEF OnlyOwn
<1>12. /\ s.pc \in {"take", "saveClient", "create", "send"} => answer'[s.call] = "none"
       /\ s.pc \in {"drop", "decide"} => answer'[s.call] # "none"
  BY <1>1, <1>3 DEF ProgramSound, InCall
<1>13. /\ s.mode = "reuse" /\ s.kept # NoName /\ s.pc \notin {"await", "discard"} =>
            box'[s.kept] # "running"
       /\ s.mode # "keep" /\ s.pc = "await" => carrying'[s.name] \subseteq {s.call}
  BY <1>1, <1>8, <1>9, <1>10 DEF ProgramSound
<1> QED
  BY <1>1, <1>4, <1>5, <1>11, <1>12, <1>13 DEF ProgramSound

\* A step of one program: what holds of the daemon and of the program is shown
\* for each step, the rest follows.
LEMMA ProgramSteps ==
  ASSUME RuntimeInv, NEW p \in Programs, NEW row \in ProgramRows,
         program' = [program EXCEPT ![p] = row],
         Written' \subseteq Names, late' \subseteq Names, resolved' \subseteq ClientCalls,
         box' \in [Names -> Boxes], carrying' \in [Names -> SUBSET ClientCalls],
         answer' \in [ClientCalls -> {"none", "done", "rollback"}], performed' \in [ClientCalls -> Nat],
         OnlyOwn(p), DaemonSound', ProgramSound(p)',
         \A q \in Programs \ {p} : Apart(row, program[q])
  PROVE  RuntimeInv'
<1>1. program \in [Programs -> ProgramRows]
  BY DEF RuntimeInv, RuntimeTypeOK
<1>2. RuntimeTypeOK'
  BY <1>1 DEF RuntimeTypeOK
<1>3. program'[p] = row /\ \A q \in Programs \ {p} : program'[q] = program[q]
  BY <1>1
<1>4. ASSUME NEW q \in Programs, q # p
      PROVE  ProgramSound(q)'
  <2>1. program'[q] = program[q]
    BY <1>3, <1>4
  <2> QED
    BY <1>2, <1>4, <2>1, OtherProgramsKeep
<1>5. ASSUME NEW q \in Programs, NEW s \in Programs \ {q}
      PROVE  Apart(program'[q], program'[s])
  <2>1. CASE q = p
    BY <2>1, <1>3
  <2>2. CASE s = p
    <3>1. Apart(row, program[q])
      BY <2>2
    <3>2. Apart(program[q], row)
      BY <3>1 DEF Apart
    <3> QED
      BY <2>2, <3>2, <1>3
  <2>3. CASE q # p /\ s # p
    BY <2>3, <1>3 DEF RuntimeInv, ProgramsApart
  <2> QED
    BY <2>1, <2>2, <2>3
<1>6. ProgramsApart'
  BY <1>5 DEF ProgramsApart, Apart
<1>7. \A q \in Programs : ProgramSound(q)'
  <2> SUFFICES ASSUME NEW q \in Programs PROVE ProgramSound(q)'
    OBVIOUS
  <2>1. CASE q = p
    BY <2>1
  <2>2. CASE q # p
    BY <2>2, <1>4
  <2> QED
    BY <2>1, <2>2
<1> QED
  BY <1>2, <1>7, <1>6 DEF RuntimeInv

-----------------------------------------------------------------------------
\* A step that hands over no request and is answered none: it starts at most
\* the broker and the container "own".
Calm(own) ==
  /\ Written \subseteq Written' /\ Written' \subseteq Names /\ late' \subseteq Names
  /\ NamesWrittenAhead'
  /\ box' \in [Names -> Boxes] /\ carrying' \in [Names -> SUBSET ClientCalls]
  /\ \A n \in Names :
       /\ carrying'[n] \subseteq carrying[n]
       /\ carrying'[n] # {} => box'[n] = "running"
       /\ box'[n] = "running" => box[n] = "running" \/ n \in {own, Broker}
  /\ AuthorityRests

\* What holds of the daemon holds after a calm step that resolves only what
\* nobody carries.
LEMMA CalmDaemon ==
  ASSUME RuntimeInv, NEW own, Calm(own), resolved' \subseteq ClientCalls, resolved \subseteq resolved',
         \A c \in resolved' \ resolved : \A n \in Names : c \notin carrying'[n]
  PROVE  DaemonSound'
<1>1. DaemonSound /\ RuntimeTypeOK
  BY DEF RuntimeInv
<1>2. \A n \in Names : carrying'[n] # {} => box'[n] = "running"
  BY DEF Calm
<1>3. ASSUME NEW c \in ClientCalls, NEW n \in Names, c \in carrying'[n]
      PROVE  c \in carrying[n] /\ answer'[c] = "none" /\ c \notin resolved'
  <2>1. c \in carrying[n]
    BY <1>3 DEF Calm
  <2>2. answer[c] = "none" /\ c \notin resolved
    BY <1>1, <2>1 DEF DaemonSound
  <2> QED
    BY <1>3, <2>1, <2>2 DEF Calm, AuthorityRests, authorityVars
<1>4. ASSUME NEW c \in ClientCalls
      PROVE  performed'[c] <= 1 /\ (answer'[c] # "done" => performed'[c] = 0)
  BY <1>1 DEF DaemonSound, Calm, AuthorityRests, authorityVars
<1>5. ASSUME NEW c \in ClientCalls, NEW n \in Names, NEW m \in Names, c \in carrying'[n], c \in carrying'[m]
      PROVE  n = m
  BY <1>1, <1>3, <1>5 DEF DaemonSound
<1> QED
  BY <1>2, <1>3, <1>4, <1>5 DEF DaemonSound, Calm

\* A row with the names and the request of its program, or without them, is
\* apart from the others.
LEMMA StaysApart ==
  ASSUME RuntimeInv, NEW p \in Programs, NEW row \in ProgramRows,
         row.call \in {program[p].call, NoName},
         {row.name, row.kept} \subseteq {program[p].name, program[p].kept, NoName}
  PROVE  \A q \in Programs \ {p} : Apart(row, program[q])
BY DEF RuntimeInv, ProgramsApart, Apart

\* A calm step of one program.
LEMMA CalmSteps ==
  ASSUME RuntimeInv, NEW p \in Programs, NEW row \in ProgramRows,
         program' = [program EXCEPT ![p] = row], Calm(program[p].name),
         \/ resolved' = resolved
         \/ /\ program[p].call \in ClientCalls /\ resolved' = resolved \cup {program[p].call}
            /\ \A n \in Names : program[p].call \notin carrying'[n],
         ProgramSound(p)',
         \A q \in Programs \ {p} : Apart(row, program[q])
  PROVE  RuntimeInv'
<1>1. RuntimeTypeOK
  BY DEF RuntimeInv
<1>2. /\ resolved' \subseteq ClientCalls /\ resolved \subseteq resolved'
      /\ \A c \in resolved' \ resolved : \A n \in Names : c \notin carrying'[n]
      /\ resolved' \subseteq resolved \cup {program[p].call}
  BY <1>1 DEF RuntimeTypeOK
<1>3. DaemonSound'
  BY <1>2, CalmDaemon
<1>4. OnlyOwn(p)
  BY <1>2 DEF OnlyOwn, Calm, AuthorityRests, authorityVars
<1>5. /\ Written' \subseteq Names /\ late' \subseteq Names
      /\ box' \in [Names -> Boxes] /\ carrying' \in [Names -> SUBSET ClientCalls]
      /\ answer' \in [ClientCalls -> {"none", "done", "rollback"}] /\ performed' \in [ClientCalls -> Nat]
  BY <1>1 DEF RuntimeTypeOK, Calm, AuthorityRests, authorityVars
<1> QED
  BY <1>2, <1>3, <1>4, <1>5, ProgramSteps

\* A step of the daemon alone.
LEMMA DaemonSteps ==
  ASSUME RuntimeInv, Calm(NoName), UNCHANGED <<program, resolved>>
  PROVE  RuntimeInv'
<1>1. RuntimeTypeOK
  BY DEF RuntimeInv
<1>2. DaemonSound'
  BY <1>1, CalmDaemon DEF RuntimeTypeOK
<1>3. RuntimeTypeOK'
  BY <1>1 DEF RuntimeTypeOK, Calm, AuthorityRests, authorityVars
<1>4. ASSUME NEW p \in Programs PROVE ProgramSound(p)'
  <2>1. ProgramSound(p) /\ program'[p] = program[p] /\ program[p] \in ProgramRows
    BY <1>1 DEF RuntimeInv, RuntimeTypeOK
  <2>2. program[p].kept # NoName /\ box[program[p].kept] # "running" =>
          box'[program[p].kept] # "running"
    BY <2>1, RuntimeAssumption DEF Calm, Places, ProgramRows, Names
  <2>3. program[p].pc = "await" => carrying'[program[p].name] \subseteq carrying[program[p].name]
    BY <2>1 DEF Calm, ProgramSound, Named, Names
  <2> QED
    BY <2>1, <2>2, <2>3 DEF ProgramSound, Calm, AuthorityRests, authorityVars
<1>5. ProgramsApart'
  BY DEF RuntimeInv, ProgramsApart, Apart
<1> QED
  BY <1>2, <1>3, <1>4, <1>5 DEF RuntimeInv

LEMMA NamesRest == DeploymentRests => UNCHANGED Written
BY DEF DeploymentRests, deploymentVars, Written

LEMMA RestIsCalm ==
  ASSUME RuntimeInv, DaemonRests, AuthorityRests, NEW own,
         Written \subseteq Written', Written' \subseteq Names
  PROVE  Calm(own)
<1>1. RuntimeTypeOK /\ DaemonSound
  BY DEF RuntimeInv
<1> QED
  BY <1>1 DEF RuntimeTypeOK, DaemonSound, Calm, NamesWrittenAhead, DaemonRests, daemonVars

\* Coming, going, and what only changes the place of a program.
LEMMA EnterStep ==
  ASSUME RuntimeInv, NEW p \in Programs, NEW mode \in {"fresh", "reuse", "keep", "clean"},
         open_deployment(p, mode)
  PROVE  RuntimeInv'
<1>1. RuntimeTypeOK /\ ProgramSound(p) /\ program[p] \in ProgramRows
  BY DEF RuntimeInv, RuntimeTypeOK
<1>2. PICK row : row = [Away EXCEPT !.pc = "idle", !.mode = mode, !.known = deployed]
  OBVIOUS
<1>3. row \in ProgramRows /\ row.call = NoName /\ row.name = NoName /\ row.kept = NoName /\ row.pc = "idle"
  BY <1>1, <1>2 DEF Places, ProgramRows, Away, RuntimeTypeOK, Written
<1>4. program' = [program EXCEPT ![p] = row] /\ program'[p] = row
  BY <1>1, <1>2 DEF open_deployment, Becomes, RuntimeTypeOK
<1>5. Calm(program[p].name) /\ resolved' = resolved
  BY <1>1, RestIsCalm, NamesRest DEF open_deployment, RuntimeTypeOK
<1>6. NoName \notin resolved' /\ \A n \in Names : NoName \notin carrying'[n]
  BY <1>1, <1>5, RuntimeAssumption DEF Calm, RuntimeTypeOK
<1>7. ProgramSound(p)'
  BY <1>3, <1>4, <1>6 DEF ProgramSound, InCall, Named, Saving
<1> QED
  BY <1>3, <1>4, <1>5, <1>7, StaysApart, CalmSteps

\* Whoever leaves, or dies, is away; its containers stay what they are or are
\* removed.
LEMMA LeavingStep ==
  ASSUME RuntimeInv, NEW p \in Programs, Becomes(p, Away), Calm(NoName), UNCHANGED resolved
  PROVE  RuntimeInv'
<1>1. RuntimeTypeOK /\ program[p] \in ProgramRows
  BY DEF RuntimeInv, RuntimeTypeOK
<1>2. PICK row : row = Away
  OBVIOUS
<1>3. row \in ProgramRows /\ row.call = NoName /\ row.name = NoName /\ row.kept = NoName /\ row.pc = "away"
  BY <1>2 DEF Places, ProgramRows, Away
<1>4. program' = [program EXCEPT ![p] = row] /\ program'[p] = row
  BY <1>1, <1>2 DEF Becomes, RuntimeTypeOK
<1>5. Calm(program[p].name)
  BY RuntimeAssumption DEF Calm, Names
<1>6. NoName \notin resolved' /\ \A n \in Names : NoName \notin carrying'[n]
  BY <1>1, <1>5, RuntimeAssumption DEF Calm, RuntimeTypeOK
<1>7. ProgramSound(p)'
  BY <1>3, <1>4, <1>6 DEF ProgramSound, InCall, Named, Saving
<1> QED
  BY <1>3, <1>4, <1>5, <1>7, StaysApart, CalmSteps

LEMMA DiesStep ==
  ASSUME RuntimeInv, NEW p \in Programs, program_dies(p)
  PROVE  RuntimeInv'
<1>1. Calm(NoName)
  BY RestIsCalm, NamesRest DEF program_dies, RuntimeInv, RuntimeTypeOK
<1> QED
  BY <1>1, LeavingStep DEF program_dies

\* A removal, complete or not, is calm, and leaves other containers alone.
LEMMA RemovalIsCalm ==
  ASSUME RuntimeInv, NEW n \in Names, Removal(n) \/ RemovalFails(n), AuthorityRests, NEW own,
         Written \subseteq Written', Written' \subseteq Names
  PROVE  Calm(own)
<1>1. RuntimeTypeOK /\ DaemonSound
  BY DEF RuntimeInv
<1>2. CASE DaemonRests
  BY <1>2, RestIsCalm
<1>3. ASSUME NEW left \in {"absent", "exited"}, left = "absent" \/ box[n] # "absent",
             box' = [box EXCEPT ![n] = left], Emptied(n), UNCHANGED late
      PROVE  Calm(own)
  <2>1. \A m \in Names : /\ box'[m] = IF m = n THEN left ELSE box[m]
                         /\ carrying'[m] = IF m = n THEN {} ELSE carrying[m]
    BY <1>1, <1>3 DEF RuntimeTypeOK, Emptied
  <2>2. box' \in [Names -> Boxes] /\ carrying' \in [Names -> SUBSET ClientCalls] /\ late' \subseteq Names
    BY <1>1, <1>3 DEF RuntimeTypeOK, Emptied, Boxes
  <2>3. NamesWrittenAhead'
    BY <1>1, <1>3, <2>1 DEF NamesWrittenAhead, DaemonSound
  <2>4. \A m \in Names : carrying[m] # {} => box[m] = "running"
    BY <1>1 DEF DaemonSound
  <2> QED
    BY <2>1, <2>2, <2>3, <2>4 DEF Calm
<1> QED
  BY <1>2, <1>3 DEF Removal, RemovalFails

LEMMA CloseStep ==
  ASSUME RuntimeInv, NEW p \in Programs, close_clients(p)
  PROVE  RuntimeInv'
<1>1. RuntimeTypeOK /\ program[p] \in ProgramRows /\ UNCHANGED Written
  BY NamesRest DEF RuntimeInv, RuntimeTypeOK, close_clients
<1>2. Calm(NoName)
  <2>1. CASE program[p].kept = NoName
    BY <1>1, <2>1, RestIsCalm, NamesRest DEF close_clients, RuntimeTypeOK
  <2>2. CASE program[p].kept # NoName
    <3>1. program[p].kept \in Names
      BY <1>1, <2>2 DEF Places, ProgramRows, Names
    <3> QED
      BY <1>1, <2>2, <3>1, RemovalIsCalm, NamesRest DEF close_clients, RuntimeTypeOK
  <2> QED
    BY <2>1, <2>2
<1> QED
  BY <1>2, LeavingStep DEF close_clients

\* Steps outside of a request.
LEMMA IdleRow ==
  ASSUME RuntimeInv, NEW p \in Programs, NEW row \in ProgramRows,
         program[p].pc \notin InCall, row.pc \notin InCall,
         row.mode = program[p].mode, row.kept = program[p].kept, row.name = program[p].name,
         row.call = program[p].call, program[p].known \subseteq row.known,
         row.pc = "saveBroker" => Broker \in row.known,
         row.pc = "createBroker" => Broker \in Written',
         row.pc \in Saving => row.read \subseteq row.known,
         program' = [program EXCEPT ![p] = row], Calm(NoName), UNCHANGED resolved
  PROVE  RuntimeInv'
<1>1. RuntimeTypeOK /\ ProgramSound(p) /\ program[p] \in ProgramRows /\ program'[p] = row
  BY DEF RuntimeInv, RuntimeTypeOK
<1>2. Calm(program[p].name)
  BY RuntimeAssumption DEF Calm, Names
<1>3. program[p].call = NoName
  BY <1>1 DEF ProgramSound
<1>4. NoName \notin resolved' /\ \A n \in Names : NoName \notin carrying'[n]
  BY <1>1, RuntimeAssumption DEF Calm, RuntimeTypeOK
<1>5. program[p].kept # NoName /\ box[program[p].kept] # "running" =>
        box'[program[p].kept] # "running"
  BY <1>1, RuntimeAssumption DEF Calm, Places, ProgramRows, Names
<1>6. {row.name, row.kept} \subseteq row.known \cup {NoName}
  BY <1>1 DEF ProgramSound
<1>7. row.mode = "reuse" /\ row.kept # NoName => box'[row.kept] # "running"
  BY <1>1, <1>5 DEF ProgramSound, InCall
<1>8. ProgramSound(p)'
  BY <1>1, <1>3, <1>4, <1>6, <1>7 DEF ProgramSound, InCall, Named, Saving
<1> QED
  BY <1>2, <1>8, StaysApart, CalmSteps

\* A save that has begun has read the file, or it is over.
LEMMA BeginsSaveRow ==
  ASSUME RuntimeTypeOK, NEW p \in Programs, NEW row \in ProgramRows, row.known = program[p].known,
         NEW names \in SUBSET Names, NEW then \in Places, NEW otherwise \in Places,
         BeginsSave(p, row, names, then, otherwise)
  PROVE  \E new \in ProgramRows :
           /\ program' = [program EXCEPT ![p] = new] /\ program'[p] = new
           /\ new.mode = row.mode /\ new.kept = row.kept /\ new.name = row.name
           /\ new.call = row.call /\ row.known \cup names \subseteq new.known
           /\ \/ new.pc = then /\ new.read \subseteq new.known
              \/ new.pc = otherwise
<1>1. CASE Becomes(p, [row EXCEPT !.pc = then, !.known = Merged(p, names), !.read = deployed])
  <2>1. PICK new : new = [row EXCEPT !.pc = then, !.known = Merged(p, names), !.read = deployed]
    OBVIOUS
  <2>2. /\ deployed \subseteq Names /\ Merged(p, names) \subseteq Names
        /\ deployed \subseteq Merged(p, names) /\ row.known \cup names \subseteq Merged(p, names)
    BY DEF RuntimeTypeOK, Written, Merged, ProgramRows
  <2>3. /\ new \in ProgramRows /\ new.pc = then /\ new.read = deployed
        /\ new.known = Merged(p, names) /\ new.mode = row.mode /\ new.kept = row.kept
        /\ new.name = row.name /\ new.call = row.call
    BY <2>1, <2>2 DEF ProgramRows
  <2>4. program' = [program EXCEPT ![p] = new] /\ program'[p] = new
    BY <1>1, <2>1 DEF Becomes, RuntimeTypeOK
  <2> QED
    BY <2>2, <2>3, <2>4
<1>2. CASE Becomes(p, [row EXCEPT !.pc = otherwise, !.known = @ \cup names, !.todo = {}])
  <2>1. PICK new : new = [row EXCEPT !.pc = otherwise, !.known = @ \cup names, !.todo = {}]
    OBVIOUS
  <2>2. /\ new \in ProgramRows /\ new.pc = otherwise /\ new.known = row.known \cup names
        /\ new.mode = row.mode /\ new.kept = row.kept
        /\ new.name = row.name /\ new.call = row.call
    BY <2>1 DEF ProgramRows
  <2>3. program' = [program EXCEPT ![p] = new] /\ program'[p] = new
    BY <1>2, <2>1 DEF Becomes, RuntimeTypeOK
  <2> QED
    BY <2>2, <2>3
<1> QED
  BY <1>1, <1>2 DEF BeginsSave

LEMMA PrepareStep ==
  ASSUME RuntimeInv, NEW p \in Programs, prepare(p)
  PROVE  RuntimeInv'
<1>1. RuntimeTypeOK /\ program[p] \in ProgramRows
  BY DEF RuntimeInv, RuntimeTypeOK
<1>2. PICK row \in ProgramRows : row = program[p]
  BY <1>1
<1>3. PICK names \in SUBSET Names : names = {Broker}
  BY DEF Names
<1>4. /\ BeginsSave(p, row, names, "saveBroker", "idle")
      /\ row \in ProgramRows /\ row.known = program[p].known /\ row.pc = "idle"
  BY <1>2, <1>3 DEF prepare, ProgramAt
<1>5. PICK new \in ProgramRows :
        /\ program' = [program EXCEPT ![p] = new] /\ program'[p] = new
        /\ new.mode = row.mode /\ new.kept = row.kept /\ new.name = row.name
        /\ new.call = row.call /\ row.known \cup names \subseteq new.known
        /\ \/ new.pc = "saveBroker" /\ new.read \subseteq new.known
           \/ new.pc = "idle"
  <2>1. "saveBroker" \in Places /\ "idle" \in Places
    BY DEF Places
  <2> QED
    BY <1>1, <1>4, <2>1, BeginsSaveRow
<1>6. Calm(NoName) /\ UNCHANGED resolved
  BY <1>1, RestIsCalm, NamesRest DEF prepare, RuntimeTypeOK
<1> QED
  BY <1>2, <1>3, <1>4, <1>5, <1>6, IdleRow DEF InCall, Saving

LEMMA CreateBrokerStep ==
  ASSUME RuntimeInv, NEW p \in Programs, create_broker(p)
  PROVE  RuntimeInv'
<1>1. RuntimeTypeOK /\ program[p] \in ProgramRows /\ DaemonSound /\ ProgramSound(p)
  BY DEF RuntimeInv, RuntimeTypeOK
<1>2. PICK row : row = [program[p] EXCEPT !.pc = "idle"]
  OBVIOUS
<1>3. /\ row \in ProgramRows /\ row.pc = "idle" /\ row.mode = program[p].mode
      /\ row.kept = program[p].kept /\ row.name = program[p].name /\ row.call = program[p].call
      /\ row.known = program[p].known
  BY <1>1, <1>2 DEF Places, ProgramRows
<1>4. program' = [program EXCEPT ![p] = row] /\ program[p].pc = "createBroker" /\ Broker \in Written
  BY <1>1, <1>2 DEF create_broker, GoesTo, Becomes, ProgramAt, ProgramSound
<1>5. Calm(NoName)
  <2>1. /\ box' \in [Names -> Boxes] /\ carrying' = carrying /\ late' \subseteq late \cup {Broker}
        /\ \A n \in Names : n # Broker => box'[n] = box[n]
        /\ box'[Broker] = box[Broker] \/ (box[Broker] = "absent" /\ late' = late)
    BY <1>1 DEF create_broker, RuntimeTypeOK, Names, Boxes
  <2>2. late' \subseteq Names
    BY <1>1, <2>1 DEF RuntimeTypeOK, Names
  <2>3. Written' = Written
    BY NamesRest DEF create_broker
  <2>4. NamesWrittenAhead'
    BY <1>1, <1>4, <2>1, <2>3 DEF DaemonSound, NamesWrittenAhead
  <2>5. \A n \in Names : carrying[n] # {} => box'[n] = "running"
    BY <1>1, <2>1 DEF DaemonSound
  <2>6. \A n \in Names : box'[n] = "running" => box[n] = "running" \/ n = Broker
    BY <2>1
  <2> QED
    BY <1>1, <2>1, <2>2, <2>3, <2>4, <2>5, <2>6 DEF Calm, create_broker, RuntimeTypeOK
<1>6. UNCHANGED resolved
  BY DEF create_broker
<1> QED
  BY <1>3, <1>4, <1>5, <1>6, IdleRow DEF InCall, Saving

LEMMA RestartStep ==
  ASSUME RuntimeInv, NEW p \in Programs, restart_broker(p)
  PROVE  RuntimeInv'
<1>1. RuntimeTypeOK /\ DaemonSound
  BY DEF RuntimeInv
<1>2. /\ box' = [box EXCEPT ![Broker] = "running"] /\ box[Broker] # "absent"
      /\ UNCHANGED <<Written, program, late, carrying, resolved>> /\ AuthorityRests
  BY NamesRest DEF restart_broker
<1>3. /\ box' \in [Names -> Boxes] /\ box'[Broker] = "running"
      /\ \A n \in Names : n # Broker => box'[n] = box[n]
  BY <1>1, <1>2 DEF RuntimeTypeOK, Names, Boxes
<1>4. NamesWrittenAhead'
  BY <1>1, <1>2, <1>3 DEF DaemonSound, NamesWrittenAhead
<1>5. Calm(NoName)
  BY <1>1, <1>2, <1>3, <1>4 DEF Calm, RuntimeTypeOK, DaemonSound
<1> QED
  BY <1>2, <1>5, DaemonSteps

LEMMA CleanupStep ==
  ASSUME RuntimeInv, NEW p \in Programs, cleanup(p)
  PROVE  RuntimeInv'
<1>1. RuntimeTypeOK /\ program[p] \in ProgramRows
  BY DEF RuntimeInv, RuntimeTypeOK
<1>2. PICK names : names = program[p].known \cup deployed
  OBVIOUS
<1>3. PICK row : row = [program[p] EXCEPT !.pc = "refreshed", !.known = names, !.todo = names]
  OBVIOUS
<1>4. names \subseteq Names /\ program[p].known \subseteq names
  BY <1>1, <1>2 DEF RuntimeTypeOK, Written, ProgramRows
<1>5. /\ row \in ProgramRows /\ row.pc = "refreshed" /\ row.mode = program[p].mode
      /\ row.kept = program[p].kept /\ row.name = program[p].name /\ row.call = program[p].call
      /\ row.known = names
  BY <1>1, <1>3, <1>4 DEF Places, ProgramRows
<1>6. Calm(NoName) /\ UNCHANGED resolved
  BY <1>1, RestIsCalm, NamesRest DEF cleanup, RuntimeTypeOK
<1>7. program' = [program EXCEPT ![p] = row] /\ program[p].pc = "idle"
  BY <1>2, <1>3 DEF cleanup, Becomes, ProgramAt
<1> QED
  BY <1>4, <1>5, <1>6, <1>7, IdleRow DEF InCall, Saving

LEMMA SaveNamesStep ==
  ASSUME RuntimeInv, NEW p \in Programs, save_names(p)
  PROVE  RuntimeInv'
<1>1. RuntimeTypeOK /\ program[p] \in ProgramRows
  BY DEF RuntimeInv, RuntimeTypeOK
<1>2. PICK row \in ProgramRows : row = program[p]
  BY <1>1
<1>3. /\ BeginsSave(p, row, {}, "saveNames", "idle")
      /\ row \in ProgramRows /\ row.known = program[p].known /\ row.pc = "refreshed"
  BY <1>2 DEF save_names, ProgramAt
<1>4. PICK new \in ProgramRows :
        /\ program' = [program EXCEPT ![p] = new] /\ program'[p] = new
        /\ new.mode = row.mode /\ new.kept = row.kept /\ new.name = row.name
        /\ new.call = row.call /\ row.known \cup {} \subseteq new.known
        /\ \/ new.pc = "saveNames" /\ new.read \subseteq new.known
           \/ new.pc = "idle"
  <2>1. {} \in SUBSET Names /\ "saveNames" \in Places /\ "idle" \in Places
    BY DEF Places
  <2> QED
    BY <1>1, <1>3, <2>1, BeginsSaveRow
<1>5. Calm(NoName) /\ UNCHANGED resolved
  BY <1>1, RestIsCalm, NamesRest DEF save_names, RuntimeTypeOK
<1> QED
  BY <1>2, <1>3, <1>4, <1>5, IdleRow DEF InCall, Saving

LEMMA CleanOneStep ==
  ASSUME RuntimeInv, NEW p \in Programs, NEW n \in Names, clean_one(p, n)
  PROVE  RuntimeInv'
<1>1. RuntimeTypeOK /\ program[p] \in ProgramRows
  BY DEF RuntimeInv, RuntimeTypeOK
<1>2. PICK row : row = [program[p] EXCEPT !.todo = @ \ {n}]
  OBVIOUS
<1>3. /\ row \in ProgramRows /\ row.pc = program[p].pc /\ row.mode = program[p].mode
      /\ row.kept = program[p].kept /\ row.name = program[p].name /\ row.call = program[p].call
      /\ row.known = program[p].known
  BY <1>1, <1>2 DEF Places, ProgramRows
<1>4. Calm(NoName)
  BY <1>1, RemovalIsCalm, NamesRest DEF clean_one, RuntimeTypeOK
<1>5. program' = [program EXCEPT ![p] = row] /\ program[p].pc = "clean" /\ UNCHANGED resolved
  BY <1>2 DEF clean_one, Becomes, ProgramAt
<1> QED
  BY <1>3, <1>4, <1>5, IdleRow DEF InCall, Saving

LEMMA CleanedStep ==
  ASSUME RuntimeInv, NEW p \in Programs, cleaned(p)
  PROVE  RuntimeInv'
<1>1. RuntimeTypeOK /\ program[p] \in ProgramRows
  BY DEF RuntimeInv, RuntimeTypeOK
<1>2. PICK row : row = [program[p] EXCEPT !.pc = "idle"]
  OBVIOUS
<1>3. /\ row \in ProgramRows /\ row.pc = "idle" /\ row.mode = program[p].mode
      /\ row.kept = program[p].kept /\ row.name = program[p].name /\ row.call = program[p].call
      /\ row.known = program[p].known
  BY <1>1, <1>2 DEF Places, ProgramRows
<1>4. Calm(NoName)
  BY <1>1, RestIsCalm, NamesRest DEF cleaned, RuntimeTypeOK
<1>5. program' = [program EXCEPT ![p] = row] /\ program[p].pc = "clean" /\ UNCHANGED resolved
  BY <1>2 DEF cleaned, GoesTo, Becomes, ProgramAt
<1> QED
  BY <1>3, <1>4, <1>5, IdleRow DEF InCall, Saving

\* Steps of the daemon.
LEMMA LateStep ==
  ASSUME RuntimeInv, NEW n \in Names, late_create(n)
  PROVE  RuntimeInv'
<1>1. RuntimeTypeOK /\ DaemonSound
  BY DEF RuntimeInv
<1>2. /\ n \in late /\ late' = late \ {n}
      /\ UNCHANGED <<Written, program, carrying, resolved>> /\ AuthorityRests
  BY NamesRest DEF late_create
<1>3. /\ box' \in [Names -> Boxes]
      /\ \A m \in Names : box'[m] = box[m] \/ (m = n /\ box[m] = "absent" /\ box'[m] = "created")
  BY <1>1 DEF late_create, RuntimeTypeOK, Boxes
<1>4. NamesWrittenAhead'
  BY <1>1, <1>2, <1>3 DEF DaemonSound, NamesWrittenAhead
<1>5. \A m \in Names : carrying[m] # {} => box'[m] = "running"
  BY <1>1, <1>3 DEF DaemonSound
<1>6. \A m \in Names : box'[m] = "running" => box[m] = "running"
  BY <1>3
<1>7. Calm(NoName)
  BY <1>1, <1>2, <1>3, <1>4, <1>5, <1>6 DEF Calm, RuntimeTypeOK
<1> QED
  BY <1>2, <1>7, DaemonSteps

LEMMA EndsStep ==
  ASSUME RuntimeInv, NEW n \in Names, box_ends(n)
  PROVE  RuntimeInv'
<1>1. RemovalFails(n)
  BY DEF box_ends, RemovalFails
<1>2. Calm(NoName)
  BY <1>1, RemovalIsCalm, NamesRest DEF box_ends, RuntimeInv, RuntimeTypeOK
<1> QED
  BY <1>2, DaemonSteps DEF box_ends

-----------------------------------------------------------------------------
\* The steps of a request.
LEMMA ClientStep ==
  ASSUME RuntimeInv, NEW p \in Programs, client(p)
  PROVE  RuntimeInv'
<1>1. RuntimeTypeOK /\ ProgramSound(p) /\ program[p] \in ProgramRows
  BY DEF RuntimeInv, RuntimeTypeOK
<1>2. PICK c \in Unsent : c = CHOOSE x \in Unsent : TRUE
  BY DEF client
<1>3. /\ c \in ClientCalls /\ answer[c] = "none" /\ c \notin resolved
      /\ \A q \in Programs : program[q].call # c
      /\ \A n \in Names : c \notin carrying[n]
  BY <1>2 DEF Unsent
<1>4. PICK row : row = [program[p] EXCEPT !.pc = "take", !.attempt = 1, !.call = c]
  OBVIOUS
<1>5. /\ row \in ProgramRows /\ row.pc = "take" /\ row.mode = program[p].mode
      /\ row.kept = program[p].kept /\ row.name = program[p].name /\ row.call = c
      /\ row.known = program[p].known
  BY <1>1, <1>3, <1>4 DEF Places, ProgramRows, InCall
<1>6. program' = [program EXCEPT ![p] = row] /\ program'[p] = row /\ program[p].pc = "idle"
  BY <1>1, <1>2, <1>4 DEF client, Becomes, ProgramAt, RuntimeTypeOK
<1>7. /\ Calm(program[p].name) /\ resolved' = resolved
      /\ UNCHANGED <<box, carrying, answer>>
  BY <1>1, RestIsCalm, NamesRest DEF client, RuntimeTypeOK, DaemonRests, daemonVars, AuthorityRests, authorityVars
<1>8. ProgramSound(p)'
  BY <1>1, <1>3, <1>5, <1>6, <1>7 DEF ProgramSound, InCall, Named, Saving
<1>9. \A q \in Programs \ {p} : Apart(row, program[q])
  BY <1>3, <1>5 DEF Apart, RuntimeInv, ProgramsApart
<1> QED
  BY <1>5, <1>6, <1>7, <1>8, <1>9, CalmSteps

LEMMA TakeKeptStep ==
  ASSUME RuntimeInv, NEW p \in Programs, take_kept(p)
  PROVE  RuntimeInv'
<1>1. RuntimeTypeOK /\ ProgramSound(p) /\ program[p] \in ProgramRows
  BY DEF RuntimeInv, RuntimeTypeOK
<1>2. PICK row : row = [program[p] EXCEPT !.pc = "send", !.name = program[p].kept]
  OBVIOUS
<1>3. /\ row \in ProgramRows /\ row.pc = "send" /\ row.mode = program[p].mode
      /\ row.kept = program[p].kept /\ row.name = program[p].kept /\ row.call = program[p].call
      /\ row.known = program[p].known
  BY <1>1, <1>2 DEF Places, ProgramRows, InCall
<1>4. /\ program' = [program EXCEPT ![p] = row] /\ program'[p] = row
      /\ program[p].pc = "take" /\ program[p].kept # NoName
  BY <1>1, <1>2 DEF take_kept, Becomes, ProgramAt, RuntimeTypeOK
<1>5. /\ Calm(program[p].name) /\ resolved' = resolved
      /\ UNCHANGED <<box, carrying, answer, Written>>
  BY <1>1, RestIsCalm, NamesRest
  DEF take_kept, RuntimeTypeOK, DaemonRests, daemonVars, AuthorityRests, authorityVars
<1>6. program[p].kept \in ClientNames
  BY <1>1, <1>4 DEF Places, ProgramRows
<1>7. ProgramSound(p)'
  BY <1>1, <1>3, <1>4, <1>5, <1>6 DEF ProgramSound, InCall, Named, Saving
<1> QED
  BY <1>3, <1>4, <1>5, <1>7, StaysApart, CalmSteps

LEMMA TakenRow ==
  ASSUME RuntimeTypeOK, NEW p \in Programs, take_fresh(p)
  PROVE  \E n \in FreshNames, chosen \in ProgramRows :
           /\ chosen.mode = program[p].mode /\ chosen.name = n
           /\ chosen.kept = IF program[p].mode = "keep" THEN n ELSE NoName
           /\ chosen.call = program[p].call /\ chosen.known = program[p].known
           /\ BeginsSave(p, chosen, {n}, "saveClient", "discard")
<1>1. program[p] \in ProgramRows
  BY DEF RuntimeTypeOK
<1>2. PICK n \in FreshNames : n = CHOOSE name \in FreshNames : TRUE
  BY DEF take_fresh
<1>3. n \in ClientNames
  BY DEF FreshNames
<1>4. PICK chosen : chosen = [program[p] EXCEPT !.name = n,
                                !.kept = IF program[p].mode = "keep" THEN n ELSE NoName]
  OBVIOUS
<1>5. /\ chosen \in ProgramRows /\ chosen.mode = program[p].mode /\ chosen.name = n
      /\ chosen.kept = IF program[p].mode = "keep" THEN n ELSE NoName
      /\ chosen.call = program[p].call /\ chosen.known = program[p].known
  BY <1>1, <1>3, <1>4 DEF ProgramRows
<1>6. BeginsSave(p, chosen, {n}, "saveClient", "discard")
  BY <1>2, <1>4 DEF take_fresh
<1> QED
  BY <1>5, <1>6

\* The new name is in no file and known to no program.
LEMMA TakeFreshStep ==
  ASSUME RuntimeInv, NEW p \in Programs, take_fresh(p)
  PROVE  RuntimeInv'
<1>1. RuntimeTypeOK /\ ProgramSound(p) /\ program[p] \in ProgramRows
  BY DEF RuntimeInv, RuntimeTypeOK
<1>2. PICK n \in FreshNames, chosen \in ProgramRows :
        /\ chosen.mode = program[p].mode /\ chosen.name = n
        /\ chosen.kept = IF program[p].mode = "keep" THEN n ELSE NoName
        /\ chosen.call = program[p].call /\ chosen.known = program[p].known
        /\ BeginsSave(p, chosen, {n}, "saveClient", "discard")
  BY <1>1, TakenRow
<1>3. n \in ClientNames /\ n # NoName /\ \A q \in Programs : n \notin program[q].known
  BY RuntimeAssumption DEF FreshNames
<1>4. program[p].pc = "take" /\ program[p].kept = NoName
  BY DEF take_fresh, ProgramAt
<1>5. PICK row \in ProgramRows :
        /\ program' = [program EXCEPT ![p] = row] /\ program'[p] = row
        /\ row.mode = chosen.mode /\ row.kept = chosen.kept /\ row.name = chosen.name
        /\ row.call = chosen.call /\ chosen.known \cup {n} \subseteq row.known
        /\ \/ row.pc = "saveClient" /\ row.read \subseteq row.known
           \/ row.pc = "discard"
  <2>1. {n} \in SUBSET Names /\ "saveClient" \in Places /\ "discard" \in Places
    BY <1>3 DEF Names, Places, InCall
  <2> QED
    BY <1>1, <1>2, <2>1, BeginsSaveRow
<1>6. /\ Calm(program[p].name) /\ resolved' = resolved
      /\ UNCHANGED <<box, carrying, answer>>
  BY <1>1, RestIsCalm, NamesRest
  DEF take_fresh, RuntimeTypeOK, DaemonRests, daemonVars, AuthorityRests, authorityVars
<1>7. ProgramSound(p)'
  BY <1>1, <1>2, <1>3, <1>4, <1>5, <1>6 DEF ProgramSound, InCall, Named, Saving
<1>8. ASSUME NEW q \in Programs \ {p} PROVE Apart(row, program[q])
  <2>1. {program[q].name, program[q].kept} \subseteq program[q].known \cup {NoName}
    BY DEF RuntimeInv, ProgramSound
  <2>2. Apart(program[p], program[q])
    BY DEF RuntimeInv, ProgramsApart
  <2> QED
    BY <1>2, <1>3, <1>4, <1>5, <2>1, <2>2 DEF Apart
<1> QED
  BY <1>5, <1>6, <1>7, <1>8, CalmSteps

LEMMA CreateStep ==
  ASSUME RuntimeInv, NEW p \in Programs, create_client(p)
  PROVE  RuntimeInv'
<1>1. RuntimeTypeOK /\ ProgramSound(p) /\ program[p] \in ProgramRows /\ DaemonSound
  BY DEF RuntimeInv, RuntimeTypeOK
<1> DEFINE n == program[p].name
<1>2. PICK row : row = [program[p] EXCEPT !.pc = "send",
                          !.kept = IF program[p].mode = "fresh" THEN NoName ELSE n]
  OBVIOUS
<1>3. program[p].pc = "create" /\ n \in ClientNames /\ n \in Written /\ n \in Names
  BY <1>1 DEF create_client, ProgramAt, ProgramSound, Named, Names
<1>4. /\ row \in ProgramRows /\ row.pc = "send" /\ row.mode = program[p].mode /\ row.name = n
      /\ row.kept = IF program[p].mode = "fresh" THEN NoName ELSE n
      /\ row.call = program[p].call /\ row.known = program[p].known
  BY <1>1, <1>2, <1>3 DEF Places, ProgramRows, InCall
<1>5. program' = [program EXCEPT ![p] = row] /\ program'[p] = row
  BY <1>1, <1>2 DEF create_client, Becomes, RuntimeTypeOK
<1>6. UNCHANGED <<Written, late, carrying, resolved>> /\ AuthorityRests
  BY NamesRest DEF create_client
<1>7. PICK made \in {"running", "created"} :
        /\ box' = [box EXCEPT ![n] = made] /\ (made = "running" => program[p].mode = "keep")
  BY DEF create_client
<1>8. /\ box' \in [Names -> Boxes] /\ box[n] = "absent"
      /\ \A m \in Names : box'[m] = IF m = n THEN made ELSE box[m]
  BY <1>1, <1>3, <1>7 DEF RuntimeTypeOK, Boxes, create_client
<1>9. NamesWrittenAhead'
  BY <1>1, <1>3, <1>6, <1>8 DEF DaemonSound, NamesWrittenAhead
<1>10. \A m \in Names : carrying[m] # {} => box'[m] = "running"
  BY <1>1, <1>8 DEF DaemonSound
<1>11. Calm(n)
  BY <1>1, <1>6, <1>8, <1>9, <1>10 DEF Calm, RuntimeTypeOK
<1>12. ProgramSound(p)'
  BY <1>1, <1>3, <1>4, <1>5, <1>6, <1>7, <1>8
  DEF ProgramSound, InCall, Named, Saving, AuthorityRests, authorityVars
<1> QED
  BY <1>4, <1>5, <1>6, <1>11, <1>12, StaysApart, CalmSteps

\* A program gives up on its container, and keeps its name until it is removed.
LEMMA GivesUpRow ==
  ASSUME RuntimeInv, NEW p \in Programs, NEW row \in ProgramRows,
         program[p].pc \in {"saveClient", "create", "send", "await"}, row.pc = "discard",
         row.mode = program[p].mode, row.kept = program[p].kept, row.name = program[p].name,
         row.call = program[p].call, row.known = program[p].known,
         program' = [program EXCEPT ![p] = row], Calm(NoName), UNCHANGED resolved
  PROVE  RuntimeInv'
<1>1. RuntimeTypeOK /\ ProgramSound(p) /\ program[p] \in ProgramRows
  BY DEF RuntimeInv, RuntimeTypeOK
<1>2. program'[p] = row
  BY <1>1 DEF RuntimeTypeOK
<1>3. Calm(program[p].name)
  BY RuntimeAssumption DEF Calm, Names
<1>4. \A n \in Names : carrying'[n] \subseteq carrying[n]
  BY DEF Calm
<1>5. ProgramSound(p)'
  BY <1>1, <1>2, <1>4 DEF ProgramSound, InCall, Named, Saving
<1> QED
  BY <1>2, <1>3, <1>5, StaysApart, CalmSteps

LEMMA GivesUpPlace ==
  ASSUME RuntimeInv, NEW p \in Programs, program[p].pc \in {"create", "send", "await"},
         GoesTo(p, "discard"), Calm(NoName), UNCHANGED resolved
  PROVE  RuntimeInv'
<1>1. program[p] \in ProgramRows
  BY DEF RuntimeInv, RuntimeTypeOK
<1>2. PICK row : row = [program[p] EXCEPT !.pc = "discard"]
  OBVIOUS
<1>3. /\ row \in ProgramRows /\ row.pc = "discard" /\ row.mode = program[p].mode
      /\ row.kept = program[p].kept /\ row.name = program[p].name /\ row.call = program[p].call
      /\ row.known = program[p].known
  BY <1>1, <1>2 DEF Places, ProgramRows, InCall
<1>4. program' = [program EXCEPT ![p] = row]
  BY <1>2 DEF GoesTo, Becomes
<1> QED
  BY <1>3, <1>4, GivesUpRow

\* The end of a save.  The file loses no name that is not then among those that
\* were overwritten, for what the save had read it writes again.
LEMMA SaveWritesStep ==
  ASSUME RuntimeInv, NEW p \in Programs, save_writes(p)
  PROVE  RuntimeInv'
<1>1. RuntimeTypeOK /\ ProgramSound(p) /\ program[p] \in ProgramRows
  BY DEF RuntimeInv, RuntimeTypeOK
<1>2. program[p].pc \in {"saveBroker", "saveClient", "saveNames"} /\ resolved' = resolved
  BY DEF save_writes, Saving
<1>3. PICK next : next = CASE program[p].pc = "saveBroker" -> "createBroker"
                           [] program[p].pc = "saveClient" -> "create"
                           [] program[p].pc = "saveNames" -> "clean"
  OBVIOUS
<1>4. /\ program[p].pc = "saveBroker" => next = "createBroker"
      /\ program[p].pc = "saveClient" => next = "create"
      /\ program[p].pc = "saveNames" => next = "clean"
  BY <1>3
<1>5. PICK row : row = [program[p] EXCEPT !.read = {}, !.pc = next]
  OBVIOUS
<1>6. /\ row \in ProgramRows /\ row.pc = next /\ row.mode = program[p].mode
      /\ row.kept = program[p].kept /\ row.name = program[p].name /\ row.call = program[p].call
      /\ row.known = program[p].known
  BY <1>1, <1>2, <1>4, <1>5 DEF Places, ProgramRows, InCall
<1>7. program' = [program EXCEPT ![p] = row] /\ program'[p] = row
  <2>1. program' = [program EXCEPT ![p] = row]
    BY <1>3, <1>5 DEF save_writes, Becomes
  <2> QED
    BY <1>1, <2>1 DEF RuntimeTypeOK
<1>8. Written \subseteq Written' /\ Written' \subseteq Names /\ program[p].known \subseteq Written'
  <2>1. program[p].read \subseteq program[p].known
    BY <1>1, <1>2 DEF ProgramSound, Saving
  <2>2. Written' = program[p].known \cup overwritten \cup (deployed \ program[p].read)
    BY DEF save_writes, Written
  <2> QED
    BY <1>1, <2>1, <2>2 DEF Written, RuntimeTypeOK, ProgramRows
<1>9. /\ Calm(NoName) /\ Calm(program[p].name) /\ UNCHANGED <<box, carrying, answer>>
  BY <1>8, RestIsCalm DEF save_writes, DaemonRests, daemonVars, AuthorityRests, authorityVars
<1>10. CASE program[p].pc = "saveClient"
  <2>1. ProgramSound(p)'
    BY <1>1, <1>2, <1>4, <1>6, <1>7, <1>8, <1>9, <1>10, RuntimeAssumption
    DEF ProgramSound, InCall, Named, Saving
  <2> QED
    BY <1>2, <1>6, <1>7, <1>9, <2>1, StaysApart, CalmSteps
<1>11. CASE program[p].pc \in {"saveBroker", "saveNames"}
  <2>1. program[p].pc = "saveBroker" => Broker \in Written'
    BY <1>1, <1>8 DEF ProgramSound
  <2> QED
    BY <1>2, <1>4, <1>6, <1>7, <1>9, <1>11, <2>1, IdleRow DEF InCall, Saving
<1> QED
  BY <1>2, <1>10, <1>11

LEMMA SaveFailsStep ==
  ASSUME RuntimeInv, NEW p \in Programs, save_fails(p)
  PROVE  RuntimeInv'
<1>1. RuntimeTypeOK /\ program[p] \in ProgramRows
  BY DEF RuntimeInv, RuntimeTypeOK
<1>2. program[p].pc \in {"saveBroker", "saveClient", "saveNames"} /\ resolved' = resolved
  BY DEF save_fails, Saving
<1>3. PICK next \in {"discard", "idle"} :
        next = IF program[p].pc = "saveClient" THEN "discard" ELSE "idle"
  OBVIOUS
<1>4. PICK row : row = [program[p] EXCEPT !.read = {}, !.todo = {}, !.pc = next]
  OBVIOUS
<1>5. /\ row \in ProgramRows /\ row.pc = next /\ row.mode = program[p].mode
      /\ row.kept = program[p].kept /\ row.name = program[p].name /\ row.call = program[p].call
      /\ row.known = program[p].known
  BY <1>1, <1>3, <1>4 DEF Places, ProgramRows, InCall
<1>6. program' = [program EXCEPT ![p] = row]
  BY <1>3, <1>4 DEF save_fails, Becomes
<1>7. Calm(NoName)
  BY <1>1, RestIsCalm, NamesRest DEF save_fails, RuntimeTypeOK
<1>8. CASE program[p].pc = "saveClient"
  BY <1>2, <1>3, <1>5, <1>6, <1>7, <1>8, GivesUpRow
<1>9. CASE program[p].pc \in {"saveBroker", "saveNames"}
  BY <1>2, <1>3, <1>5, <1>6, <1>7, <1>9, IdleRow DEF InCall, Saving
<1> QED
  BY <1>2, <1>8, <1>9

LEMMA CreateFailsStep ==
  ASSUME RuntimeInv, NEW p \in Programs, create_fails(p)
  PROVE  RuntimeInv'
<1>1. RuntimeTypeOK /\ ProgramSound(p) /\ DaemonSound
  BY DEF RuntimeInv
<1> DEFINE n == program[p].name
<1>2. program[p].pc = "create" /\ n \in Written /\ n \in Names
  BY <1>1 DEF create_fails, ProgramAt, ProgramSound, Named, Names
<1>3. UNCHANGED <<Written, carrying, resolved>> /\ AuthorityRests
  BY NamesRest DEF create_fails
<1>4. /\ box' \in [Names -> Boxes] /\ late' \subseteq late \cup {n}
      /\ \A m \in Names : box'[m] = box[m] \/ (m = n /\ box[m] = "absent" /\ box'[m] = "created")
  BY <1>1, <1>2 DEF create_fails, RuntimeTypeOK, Boxes
<1>5. NamesWrittenAhead' /\ late' \subseteq Names
  BY <1>1, <1>2, <1>3, <1>4 DEF DaemonSound, NamesWrittenAhead, RuntimeTypeOK
<1>6. \A m \in Names : carrying[m] # {} => box'[m] = "running"
  BY <1>1, <1>4 DEF DaemonSound
<1>7. \A m \in Names : box'[m] = "running" => box[m] = "running"
  BY <1>4
<1>8. Calm(NoName)
  BY <1>1, <1>3, <1>4, <1>5, <1>6, <1>7 DEF Calm, RuntimeTypeOK
<1> QED
  BY <1>2, <1>3, <1>8, GivesUpPlace DEF create_fails

LEMMA GivesUpStep ==
  ASSUME RuntimeInv, NEW p \in Programs, gives_up(p)
  PROVE  RuntimeInv'
<1>1. Calm(NoName)
  BY RestIsCalm, NamesRest DEF gives_up, RuntimeInv, RuntimeTypeOK
<1> QED
  BY <1>1, GivesUpPlace DEF gives_up, ProgramAt

\* An answered request is carried nowhere.
LEMMA ReceiveStep ==
  ASSUME RuntimeInv, NEW p \in Programs, receive(p)
  PROVE  RuntimeInv'
<1>1. RuntimeTypeOK /\ ProgramSound(p) /\ program[p] \in ProgramRows /\ DaemonSound
  BY DEF RuntimeInv, RuntimeTypeOK
<1> DEFINE n == program[p].name
<1>2. PICK next \in {"drop", "decide"} :
        /\ GoesTo(p, next) /\ (next = "drop" => program[p].mode = "fresh")
  BY DEF receive
<1>3. PICK row : row = [program[p] EXCEPT !.pc = next]
  OBVIOUS
<1>4. program[p].pc = "await" /\ n \in Written /\ n \in ClientNames /\ n \in Names
  BY <1>1 DEF receive, ProgramAt, ProgramSound, Named, Names
<1>5. /\ row \in ProgramRows /\ row.pc = next /\ row.mode = program[p].mode /\ row.name = n
      /\ row.kept = program[p].kept /\ row.call = program[p].call /\ row.known = program[p].known
  BY <1>1, <1>3 DEF Places, ProgramRows, InCall
<1>6. program' = [program EXCEPT ![p] = row] /\ program'[p] = row
  BY <1>1, <1>2, <1>3 DEF GoesTo, Becomes, RuntimeTypeOK
<1>7. /\ UNCHANGED <<Written, late, carrying, resolved>> /\ AuthorityRests
      /\ answer[program[p].call] # "none" /\ program[p].call \notin carrying[n]
  BY NamesRest DEF receive, Answered
<1>8. \/ program[p].mode = "keep" /\ box' = box
      \/ program[p].mode # "keep" /\ box' = [box EXCEPT ![n] = "exited"]
  BY DEF receive
<1>9. /\ box' \in [Names -> Boxes]
      /\ \A m \in Names : box'[m] = IF m = n /\ program[p].mode # "keep" THEN "exited" ELSE box[m]
  BY <1>1, <1>8 DEF RuntimeTypeOK, Boxes
<1>10. NamesWrittenAhead'
  BY <1>1, <1>4, <1>7, <1>9 DEF DaemonSound, NamesWrittenAhead
<1>11. program[p].mode # "keep" => carrying[n] = {}
  BY <1>1, <1>4, <1>7 DEF ProgramSound, RuntimeTypeOK
<1>12. \A m \in Names : carrying[m] # {} => box'[m] = "running"
  BY <1>1, <1>9, <1>11 DEF DaemonSound
<1>13. Calm(n)
  BY <1>1, <1>7, <1>9, <1>10, <1>12 DEF Calm, RuntimeTypeOK
<1>14. row.mode = "reuse" /\ row.kept # NoName => box'[row.kept] # "running"
  BY <1>1, <1>4, <1>5, <1>9 DEF ProgramSound
<1>15. ProgramSound(p)'
  BY <1>1, <1>4, <1>5, <1>6, <1>7, <1>14
  DEF ProgramSound, InCall, Named, Saving, AuthorityRests, authorityVars
<1> QED
  BY <1>5, <1>6, <1>7, <1>13, <1>15, StaysApart, CalmSteps

\* The call is over: the row is that of an idle program, whatever was kept.
Ended(p, kept) ==
  [program[p] EXCEPT !.pc = "idle", !.kept = kept, !.call = NoName, !.name = NoName]

LEMMA EndsRow ==
  ASSUME RuntimeInv, NEW p \in Programs, NEW kept \in {program[p].name, program[p].kept, NoName},
         kept # NoName /\ program[p].mode = "reuse" => box'[kept] # "running",
         Becomes(p, Ended(p, kept)), Calm(NoName),
         \/ resolved' = resolved
         \/ /\ program[p].call \in ClientCalls /\ resolved' = resolved \cup {program[p].call}
            /\ \A n \in Names : program[p].call \notin carrying'[n]
  PROVE  RuntimeInv'
<1>1. RuntimeTypeOK /\ ProgramSound(p) /\ program[p] \in ProgramRows
  BY DEF RuntimeInv, RuntimeTypeOK
<1>2. PICK row : row = Ended(p, kept)
  OBVIOUS
<1>3. /\ row \in ProgramRows /\ row.pc = "idle" /\ row.mode = program[p].mode
      /\ row.kept = kept /\ row.name = NoName /\ row.call = NoName
      /\ row.known = program[p].known
  BY <1>1, <1>2 DEF Ended, Places, ProgramRows, InCall
<1>4. program' = [program EXCEPT ![p] = row] /\ program'[p] = row
  BY <1>1, <1>2 DEF Becomes, RuntimeTypeOK
<1>5. Calm(program[p].name)
  BY RuntimeAssumption DEF Calm, Names
<1>6. NoName \notin resolved' /\ \A n \in Names : NoName \notin carrying'[n]
  BY <1>1, <1>5, RuntimeAssumption DEF Calm, RuntimeTypeOK
<1>7. ProgramSound(p)'
  BY <1>1, <1>3, <1>4, <1>6 DEF ProgramSound, InCall, Named, Saving
<1>8. \A q \in Programs \ {p} : Apart(row, program[q])
  BY <1>3, StaysApart
<1> QED
  BY <1>3, <1>4, <1>5, <1>7, <1>8, CalmSteps

LEMMA GiveAnswerStep ==
  ASSUME RuntimeInv, NEW p \in Programs, give_answer(p)
  PROVE  RuntimeInv'
<1>1. RuntimeTypeOK /\ ProgramSound(p) /\ program[p] \in ProgramRows
  BY DEF RuntimeInv, RuntimeTypeOK
<1>2. program[p].pc = "decide" /\ UNCHANGED <<box, carrying>>
  BY DEF give_answer, ProgramAt, DaemonRests, daemonVars
<1>3. Calm(NoName)
  BY <1>1, RestIsCalm, NamesRest DEF give_answer, RuntimeTypeOK
<1>4. PICK kept \in {program[p].kept} : kept = program[p].kept
  OBVIOUS
<1>5. Becomes(p, Ended(p, kept))
  <2>1. Ended(p, kept)
          = [program[p] EXCEPT !.pc = "idle", !.call = NoName, !.name = NoName]
    BY <1>1, <1>4 DEF Ended, ProgramRows
  <2> QED
    BY <2>1 DEF give_answer, Ends
<1>6. kept # NoName /\ program[p].mode = "reuse" => box'[kept] # "running"
  BY <1>1, <1>2, <1>4 DEF ProgramSound
<1>7. /\ program[p].call \in ClientCalls /\ resolved' = resolved \cup {program[p].call}
      /\ \A n \in Names : program[p].call \notin carrying'[n]
  BY <1>1, <1>2 DEF ProgramSound, InCall, give_answer
<1> QED
  BY <1>3, <1>4, <1>5, <1>6, <1>7, EndsRow

LEMMA DropFreshStep ==
  ASSUME RuntimeInv, NEW p \in Programs, drop_fresh(p)
  PROVE  RuntimeInv'
<1>1. RuntimeTypeOK /\ ProgramSound(p) /\ program[p] \in ProgramRows
  BY DEF RuntimeInv, RuntimeTypeOK
<1>2. program[p].pc = "drop" /\ program[p].name \in Names /\ resolved' = resolved
  BY <1>1 DEF drop_fresh, ProgramAt, ProgramSound, Named, Names
<1>3. Calm(NoName) /\ Calm(program[p].name)
  BY <1>1, <1>2, RemovalIsCalm, NamesRest DEF drop_fresh, RuntimeTypeOK
<1>4. program[p].kept # NoName /\ program[p].mode = "reuse" => box'[program[p].kept] # "running"
  BY <1>1, <1>2, <1>3, RuntimeAssumption DEF ProgramSound, Calm, Places, ProgramRows, Names
<1>5. CASE GoesTo(p, "decide")
  <2>1. PICK row : row = [program[p] EXCEPT !.pc = "decide"]
    OBVIOUS
  <2>2. /\ row \in ProgramRows /\ row.pc = "decide" /\ row.mode = program[p].mode
        /\ row.kept = program[p].kept /\ row.name = program[p].name
        /\ row.call = program[p].call /\ row.known = program[p].known
    BY <1>1, <2>1 DEF Places, ProgramRows, InCall
  <2>3. program' = [program EXCEPT ![p] = row] /\ program'[p] = row
    BY <1>1, <1>5, <2>1 DEF GoesTo, Becomes, RuntimeTypeOK
  <2>4. ProgramSound(p)'
    BY <1>1, <1>2, <1>3, <1>4, <2>2, <2>3
    DEF ProgramSound, InCall, Named, Saving, Calm, AuthorityRests, authorityVars
  <2> QED
    BY <1>2, <1>3, <2>2, <2>3, <2>4, StaysApart, CalmSteps
<1>6. CASE Ends(p)
  <2>1. PICK kept \in {program[p].kept} : kept = program[p].kept
    OBVIOUS
  <2>2. Becomes(p, Ended(p, kept))
    <3>1. Ended(p, kept)
            = [program[p] EXCEPT !.pc = "idle", !.call = NoName, !.name = NoName]
      BY <1>1, <2>1 DEF Ended, ProgramRows
    <3> QED
      BY <1>6, <3>1 DEF Ends
  <2> QED
    BY <1>2, <1>3, <1>4, <2>1, <2>2, EndsRow
<1> QED
  BY <1>5, <1>6 DEF drop_fresh

\* Only the confirmed removal tells a caller that nothing more will come.
LEMMA DiscardStep ==
  ASSUME RuntimeInv, NEW p \in Programs, discard(p)
  PROVE  RuntimeInv'
<1>1. RuntimeTypeOK /\ ProgramSound(p) /\ program[p] \in ProgramRows
  BY DEF RuntimeInv, RuntimeTypeOK
<1> DEFINE n == program[p].name
<1>2. program[p].pc = "discard" /\ n \in Names
  BY <1>1 DEF discard, ProgramAt, ProgramSound, Named, Names
<1>3. Calm(NoName)
  BY <1>1, <1>2, RemovalIsCalm, NamesRest DEF discard, RuntimeTypeOK
<1>4. PICK kept \in {NoName, n} :
        /\ Becomes(p, Ended(p, kept))
        /\ kept # NoName => program[p].mode = "keep"
        /\ resolved' = resolved \/ (Removal(n) /\ resolved' = resolved \cup {program[p].call})
  BY DEF discard, Ended
<1>5. \/ resolved' = resolved
      \/ /\ program[p].call \in ClientCalls /\ resolved' = resolved \cup {program[p].call}
         /\ \A m \in Names : program[p].call \notin carrying'[m]
  <2> SUFFICES ASSUME Removal(n), resolved' = resolved \cup {program[p].call}
               PROVE  /\ program[p].call \in ClientCalls
                      /\ \A m \in Names : program[p].call \notin carrying'[m]
    BY <1>4
  <2>1. program[p].call \in ClientCalls /\ \A m \in Names : program[p].call \in carrying[m] => m = n
    BY <1>1, <1>2 DEF ProgramSound, InCall
  <2>2. carrying'[n] = {} /\ \A m \in Names : carrying'[m] \subseteq carrying[m]
    BY <1>1, <1>2, <1>3 DEF Removal, Emptied, RuntimeTypeOK, Calm
  <2> QED
    BY <2>1, <2>2
<1> QED
  BY <1>3, <1>4, <1>5, EndsRow

-----------------------------------------------------------------------------
\* Sending, answering, and asking a second time.
LEMMA SendStep ==
  ASSUME RuntimeInv, NEW p \in Programs, send_request(p)
  PROVE  RuntimeInv'
<1>1. RuntimeTypeOK /\ ProgramSound(p) /\ program[p] \in ProgramRows /\ DaemonSound
  BY DEF RuntimeInv, RuntimeTypeOK
<1>2. PICK n : n = program[p].name
  OBVIOUS
<1>3. PICK c : c = program[p].call
  OBVIOUS
<1>4. PICK row : row = [program[p] EXCEPT !.pc = "await"]
  OBVIOUS
<1>5. /\ program[p].pc = "send" /\ n \in ClientNames /\ n \in Names /\ c \in ClientCalls
      /\ answer[c] = "none" /\ c \notin resolved /\ \A m \in Names : c \notin carrying[m]
  BY <1>1, <1>2, <1>3 DEF send_request, ProgramAt, ProgramSound, Named, InCall, Names
<1>6. /\ row \in ProgramRows /\ row.pc = "await" /\ row.mode = program[p].mode /\ row.name = n
      /\ row.kept = program[p].kept /\ row.call = c /\ row.known = program[p].known
  BY <1>1, <1>2, <1>3, <1>4 DEF Places, ProgramRows, InCall
<1>7. program' = [program EXCEPT ![p] = row] /\ program'[p] = row
  BY <1>1, <1>4 DEF send_request, GoesTo, Becomes, RuntimeTypeOK
<1>8. UNCHANGED <<Written, late, resolved, answer, performed>>
  BY NamesRest DEF send_request, AuthorityRests, authorityVars
<1>9. /\ box[n] # "absent" /\ (program[p].mode # "keep" => box[n] # "running")
  BY <1>2 DEF send_request, Takes
<1>10. /\ box' \in [Names -> Boxes] /\ carrying' \in [Names -> SUBSET ClientCalls]
       /\ \A m \in Names : /\ box'[m] = IF m = n THEN "running" ELSE box[m]
                           /\ carrying'[m] = IF m = n THEN carrying[m] \cup {c} ELSE carrying[m]
  BY <1>1, <1>2, <1>3, <1>5 DEF send_request, RuntimeTypeOK, Boxes
<1>11. n \in Written
  BY <1>1, <1>5, <1>9 DEF DaemonSound, NamesWrittenAhead
<1>12. NamesWrittenAhead'
  BY <1>1, <1>8, <1>10, <1>11 DEF DaemonSound, NamesWrittenAhead
<1>13. \A m \in Names : carrying'[m] # {} => box'[m] = "running"
  BY <1>1, <1>10 DEF DaemonSound
<1>14. \A d \in ClientCalls, m, o \in Names : d \in carrying'[m] /\ d \in carrying'[o] => m = o
  BY <1>1, <1>5, <1>10 DEF DaemonSound
<1>15. \A d \in ClientCalls, m \in Names : d \in carrying'[m] => answer'[d] = "none" /\ d \notin resolved'
  BY <1>1, <1>5, <1>8, <1>10 DEF DaemonSound
<1>16. DaemonSound'
  BY <1>1, <1>8, <1>12, <1>13, <1>14, <1>15 DEF DaemonSound
<1>17. program[p].mode # "keep" => carrying'[n] = {c}
  BY <1>1, <1>5, <1>9, <1>10 DEF DaemonSound
<1>18. ProgramSound(p)'
  BY <1>1, <1>2, <1>5, <1>6, <1>7, <1>8, <1>10, <1>11, <1>17 DEF ProgramSound, InCall, Named, Saving
<1>19. OnlyOwn(p)
  BY <1>2, <1>3, <1>8, <1>10 DEF OnlyOwn
<1>20. \A q \in Programs \ {p} : Apart(row, program[q])
  BY <1>2, <1>3, <1>6, StaysApart
<1> QED
  BY <1>1, <1>6, <1>7, <1>8, <1>10, <1>16, <1>18, <1>19, <1>20, ProgramSteps DEF RuntimeTypeOK

\* Askers again is only what was turned away, and so was not performed.
LEMMA TryAgainStep ==
  ASSUME RuntimeInv, NEW p \in Programs, try_again(p)
  PROVE  RuntimeInv'
<1>1. RuntimeTypeOK /\ ProgramSound(p) /\ program[p] \in ProgramRows /\ DaemonSound
  BY DEF RuntimeInv, RuntimeTypeOK
<1>2. PICK c : c = program[p].call
  OBVIOUS
<1>3. PICK row : row = [program[p] EXCEPT !.pc = "take", !.attempt = 2, !.name = NoName]
  OBVIOUS
<1>4. /\ program[p].pc = "decide" /\ c \in ClientCalls /\ answer[c] = "rollback"
      /\ c \notin resolved /\ \A m \in Names : c \notin carrying[m]
  BY <1>1, <1>2 DEF try_again, RetryFor, ProgramAt, ProgramSound, InCall
<1>5. /\ row \in ProgramRows /\ row.pc = "take" /\ row.mode = program[p].mode
      /\ row.name = NoName /\ row.kept = program[p].kept /\ row.call = c
      /\ row.known = program[p].known
  BY <1>1, <1>2, <1>3 DEF Places, ProgramRows, InCall
<1>6. program' = [program EXCEPT ![p] = row] /\ program'[p] = row
  BY <1>1, <1>3 DEF try_again, Becomes, RuntimeTypeOK
<1>7. UNCHANGED <<Written, box, late, carrying, resolved, performed>>
  BY NamesRest DEF try_again, DaemonRests, daemonVars
<1>8. /\ answer' \in [ClientCalls -> {"none", "done", "rollback"}]
      /\ \A d \in ClientCalls : answer'[d] = IF d = c THEN "none" ELSE answer[d]
  BY <1>1, <1>2, <1>4 DEF try_again, RuntimeTypeOK
<1>9. \A d \in ClientCalls : performed'[d] <= 1 /\ (answer'[d] # "done" => performed'[d] = 0)
  BY <1>1, <1>4, <1>7, <1>8 DEF DaemonSound
<1>10. \A d \in ClientCalls, m \in Names : d \in carrying'[m] => answer'[d] = "none" /\ d \notin resolved'
  BY <1>1, <1>7, <1>8 DEF DaemonSound
<1>11. DaemonSound'
  BY <1>1, <1>7, <1>9, <1>10 DEF DaemonSound, NamesWrittenAhead
<1>12. ProgramSound(p)'
  BY <1>1, <1>2, <1>4, <1>5, <1>6, <1>7, <1>8 DEF ProgramSound, InCall, Named, Saving
<1>13. OnlyOwn(p)
  BY <1>2, <1>7, <1>8 DEF OnlyOwn
<1>14. \A q \in Programs \ {p} : Apart(row, program[q])
  BY <1>2, <1>5, StaysApart
<1> QED
  BY <1>1, <1>5, <1>6, <1>7, <1>8, <1>11, <1>12, <1>13, <1>14, ProgramSteps DEF RuntimeTypeOK

\* What the authority is given it was not given before.
LEMMA PassOnStep ==
  ASSUME RuntimeInv, NEW n \in Names, NEW c \in ClientCalls, pass_on(n, c)
  PROVE  RuntimeInv'
<1>1. RuntimeTypeOK /\ DaemonSound
  BY DEF RuntimeInv
<1>2. /\ c \in carrying[n] /\ answer[c] = "none" /\ c \notin resolved /\ performed[c] = 0
      /\ UNCHANGED <<Written, program, box, late, resolved>>
  BY <1>1, NamesRest DEF pass_on, DaemonSound
<1>3. /\ carrying' \in [Names -> SUBSET ClientCalls]
      /\ \A m \in Names : carrying'[m] = IF m = n THEN carrying[m] \ {c} ELSE carrying[m]
  BY <1>1 DEF pass_on, RuntimeTypeOK
<1>4. PICK said \in {"done", "rollback"} :
        /\ answer' = [answer EXCEPT ![c] = said]
        /\ performed' = IF said = "done" THEN [performed EXCEPT ![c] = @ + 1] ELSE performed
  BY DEF pass_on
<1>5. /\ answer' \in [ClientCalls -> {"none", "done", "rollback"}]
      /\ \A d \in ClientCalls : answer'[d] = IF d = c THEN said ELSE answer[d]
  BY <1>1, <1>4 DEF RuntimeTypeOK
<1>6. /\ performed' \in [ClientCalls -> Nat]
      /\ \A d \in ClientCalls : performed'[d] = IF d = c /\ said = "done" THEN 1 ELSE performed[d]
  BY <1>1, <1>2, <1>4 DEF RuntimeTypeOK
<1>7. \A m \in Names : c \notin carrying'[m]
  BY <1>1, <1>2, <1>3 DEF DaemonSound
<1>8. \A d \in ClientCalls : performed'[d] <= 1 /\ (answer'[d] # "done" => performed'[d] = 0)
  BY <1>1, <1>2, <1>5, <1>6 DEF DaemonSound
<1>9. \A d \in ClientCalls, m \in Names : d \in carrying'[m] =>
        d \in carrying[m] /\ answer'[d] = "none" /\ d \notin resolved'
  BY <1>1, <1>2, <1>3, <1>5, <1>7 DEF DaemonSound
<1>10. \A m \in Names : carrying'[m] # {} => box'[m] = "running"
  BY <1>1, <1>2, <1>3 DEF DaemonSound
<1>11. DaemonSound'
  BY <1>1, <1>2, <1>8, <1>9, <1>10 DEF DaemonSound, NamesWrittenAhead
<1>12. RuntimeTypeOK'
  BY <1>1, <1>2, <1>3, <1>5, <1>6 DEF RuntimeTypeOK
<1>13. ASSUME NEW p \in Programs PROVE ProgramSound(p)'
  <2>1. ProgramSound(p) /\ program'[p] = program[p] /\ program[p] \in ProgramRows
    BY <1>1, <1>2 DEF RuntimeInv, RuntimeTypeOK
  <2>2. program[p].call = c => program[p].pc \in {"await", "discard"}
    BY <1>2, <2>1 DEF ProgramSound
  <2>3. program[p].pc \in {"take", "saveClient", "create", "send", "drop", "decide"} =>
          program[p].call \in ClientCalls /\ answer'[program[p].call] = answer[program[p].call]
    BY <1>5, <2>1, <2>2 DEF ProgramSound, InCall
  <2>4. \A m \in Names : carrying'[m] \subseteq carrying[m]
    BY <1>3
  <2>5. program[p].pc = "await" => program[p].name \in Names
    BY <2>1 DEF ProgramSound, Named, Names
  <2> QED
    BY <1>2, <2>1, <2>3, <2>4, <2>5 DEF ProgramSound
<1>14. ProgramsApart'
  BY <1>2 DEF RuntimeInv, ProgramsApart, Apart
<1> QED
  BY <1>11, <1>12, <1>13, <1>14 DEF RuntimeInv

-----------------------------------------------------------------------------
LEMMA RuntimeStarts == RuntimeInit => RuntimeInv
<1> SUFFICES ASSUME RuntimeInit PROVE RuntimeInv
  OBVIOUS
<1>1. Away \in ProgramRows
  BY DEF Away, Places, ProgramRows
<1>2. RuntimeTypeOK
  BY <1>1 DEF RuntimeInit, RuntimeTypeOK, Boxes, Written
<1>3. DaemonSound
  BY DEF RuntimeInit, DaemonSound, NamesWrittenAhead
<1>4. /\ Away.pc = "away" /\ Away.call = NoName /\ Away.name = NoName /\ Away.kept = NoName
  BY DEF Away
<1>5. \A p \in Programs : program[p] = Away
  BY DEF RuntimeInit
<1>6. \A p \in Programs : ProgramSound(p)
  BY <1>4, <1>5 DEF RuntimeInit, ProgramSound, InCall, Named, Saving
<1>7. ProgramsApart
  BY <1>4, <1>5 DEF ProgramsApart, Apart
<1> QED
  BY <1>2, <1>3, <1>6, <1>7 DEF RuntimeInv

LEMMA RuntimeSteps == RuntimeInv /\ [RuntimeNext]_runtimeVars => RuntimeInv'
<1> SUFFICES ASSUME RuntimeInv, [RuntimeNext]_runtimeVars PROVE RuntimeInv'
  OBVIOUS
<1>1. CASE UNCHANGED runtimeVars
  BY <1>1 DEF runtimeVars, RuntimeInv, RuntimeTypeOK, DaemonSound, NamesWrittenAhead,
     ProgramsApart, Apart, ProgramSound, Written
<1>2. ASSUME NEW p \in Programs,
             \/ \E mode \in {"fresh", "reuse", "keep", "clean"} : open_deployment(p, mode)
             \/ \E n \in Names : clean_one(p, n)
             \/ prepare(p) \/ restart_broker(p) \/ client(p) \/ take_fresh(p) \/ take_kept(p)
             \/ create_client(p) \/ create_fails(p) \/ send_request(p)
      PROVE  RuntimeInv'
  BY <1>2, EnterStep, CleanOneStep, PrepareStep, RestartStep, ClientStep, TakeFreshStep,
     TakeKeptStep, CreateStep, CreateFailsStep, SendStep
<1>3. ASSUME NEW p \in Programs,
             \/ gives_up(p) \/ receive(p) \/ try_again(p) \/ give_answer(p) \/ drop_fresh(p)
             \/ discard(p) \/ close_clients(p) \/ cleanup(p) \/ cleaned(p) \/ program_dies(p)
             \/ save_writes(p) \/ save_fails(p) \/ create_broker(p) \/ save_names(p)
      PROVE  RuntimeInv'
  BY <1>3, GivesUpStep, ReceiveStep, TryAgainStep, GiveAnswerStep, DropFreshStep, DiscardStep,
     CloseStep, CleanupStep, CleanedStep, DiesStep, SaveWritesStep, SaveFailsStep,
     CreateBrokerStep, SaveNamesStep
<1>4. ASSUME NEW n \in Names, late_create(n) \/ box_ends(n) \/ \E c \in ClientCalls : pass_on(n, c)
      PROVE  RuntimeInv'
  BY <1>4, LateStep, EndsStep, PassOnStep
<1> QED
  BY <1>1, <1>2, <1>3, <1>4 DEF RuntimeNext

-----------------------------------------------------------------------------
\* Whoever has the deployment open, and does not only clean up, has its lock.
UsersHoldLock ==
  \A p \in Programs : program[p].pc # "away" /\ program[p].mode # "clean" => lockedBy = p

\* Between coming and leaving a program keeps its mode, and the lock its holder.
LEMMA KeepsLock ==
  ASSUME UsersHoldLock, RuntimeTypeOK, NEW p \in Programs, program[p].pc # "away", NEW row,
         Becomes(p, row), row.mode = program[p].mode, Exclusive
  PROVE  UsersHoldLock'
<1>1. /\ program'[p] = row /\ lockedBy' = lockedBy
      /\ \A q \in Programs : q # p => program'[q] = program[q]
  BY DEF Becomes, RuntimeTypeOK, Exclusive
<1> QED
  BY <1>1 DEF UsersHoldLock

LEMMA EntersLocked ==
  ASSUME UsersHoldLock, RuntimeTypeOK, NEW p \in Programs,
         NEW mode \in {"fresh", "reuse", "keep", "clean"}, open_deployment(p, mode)
  PROVE  UsersHoldLock'
<1>1. /\ program'[p].mode = mode
      /\ \A q \in Programs : q # p => program'[q] = program[q]
  BY DEF open_deployment, Becomes, Away, RuntimeTypeOK
<1>2. \/ mode = "clean" /\ lockedBy' = lockedBy
      \/ mode # "clean" /\ lockedBy = NoName /\ lockedBy' = p
  BY DEF open_deployment
<1> QED
  BY <1>1, <1>2, RuntimeAssumption DEF UsersHoldLock

LEMMA LeavesLocked ==
  ASSUME UsersHoldLock, RuntimeTypeOK, NEW p \in Programs, close_clients(p) \/ program_dies(p)
  PROVE  UsersHoldLock'
<1>1. /\ program'[p].pc = "away"
      /\ \A q \in Programs : q # p => program'[q] = program[q]
      /\ lockedBy' = IF lockedBy = p THEN NoName ELSE lockedBy
  BY DEF close_clients, program_dies, Becomes, Away, RuntimeTypeOK
<1> QED
  BY <1>1 DEF UsersHoldLock

LEMMA LockStarts == RuntimeInit => UsersHoldLock
BY DEF RuntimeInit, Away, UsersHoldLock

LEMMA LockSteps == RuntimeTypeOK /\ UsersHoldLock /\ [RuntimeNext]_runtimeVars => UsersHoldLock'
<1> SUFFICES ASSUME RuntimeTypeOK, UsersHoldLock, [RuntimeNext]_runtimeVars
             PROVE  UsersHoldLock'
  OBVIOUS
<1>1. CASE UNCHANGED runtimeVars
  BY <1>1 DEF runtimeVars, UsersHoldLock
<1>2. ASSUME NEW p \in Programs
      PROVE  program[p] \in ProgramRows
  BY DEF RuntimeTypeOK
<1>3. ASSUME NEW p \in Programs, restart_broker(p) PROVE UsersHoldLock'
  BY <1>3 DEF restart_broker, Exclusive, UsersHoldLock
<1>4. ASSUME NEW p \in Programs, prepare(p) \/ save_names(p) \/ take_fresh(p)
      PROVE  UsersHoldLock'
  <2>1. program[p].pc # "away" /\ Exclusive
    BY <1>4 DEF prepare, save_names, take_fresh, ProgramAt
  <2>2. ASSUME NEW row \in ProgramRows, row.mode = program[p].mode,
               NEW names, NEW then, NEW otherwise, BeginsSave(p, row, names, then, otherwise)
        PROVE  UsersHoldLock'
    <3>1. PICK new : /\ Becomes(p, new)
                     /\ \/ new = [row EXCEPT !.pc = then, !.known = Merged(p, names), !.read = deployed]
                        \/ new = [row EXCEPT !.pc = otherwise, !.known = @ \cup names, !.todo = {}]
      BY <2>2 DEF BeginsSave
    <3>2. new.mode = row.mode
      BY <3>1 DEF ProgramRows
    <3> QED
      BY <2>1, <2>2, <3>1, <3>2, KeepsLock
  <2> QED
    BY <1>2, <1>4, <2>2, TakenRow DEF prepare, save_names
<1>5. ASSUME NEW p \in Programs,
             \/ client(p) \/ take_kept(p) \/ create_client(p) \/ cleanup(p)
             \/ \E n \in Names : clean_one(p, n)
             \/ save_writes(p) \/ save_fails(p)
      PROVE  UsersHoldLock'
  <2>1. PICK row : /\ Becomes(p, row) /\ row.mode = program[p].mode
                   /\ program[p].pc # "away" /\ Exclusive
    BY <1>2, <1>5
    DEF client, take_kept, create_client, cleanup, clean_one, save_writes, save_fails, Saving,
        ProgramAt, ProgramRows
  <2> QED
    BY <2>1, KeepsLock
<1>6. ASSUME NEW p \in Programs,
             \/ create_broker(p) \/ create_fails(p) \/ send_request(p) \/ gives_up(p)
             \/ receive(p) \/ cleaned(p)
      PROVE  UsersHoldLock'
  <2>1. PICK pc : GoesTo(p, pc) /\ program[p].pc # "away" /\ Exclusive
    BY <1>6 DEF create_broker, create_fails, send_request, gives_up, receive, cleaned, ProgramAt
  <2>2. PICK row : Becomes(p, row) /\ row.mode = program[p].mode
    BY <1>2, <2>1 DEF GoesTo, ProgramRows
  <2> QED
    BY <2>1, <2>2, KeepsLock
<1>7. ASSUME NEW p \in Programs,
             try_again(p) \/ give_answer(p) \/ drop_fresh(p) \/ discard(p)
      PROVE  UsersHoldLock'
  <2>1. PICK row : /\ Becomes(p, row) /\ row.mode = program[p].mode
                   /\ program[p].pc # "away" /\ Exclusive
    BY <1>2, <1>7
    DEF try_again, give_answer, drop_fresh, discard, Ends, GoesTo, ProgramAt, ProgramRows
  <2> QED
    BY <2>1, KeepsLock
<1>8. ASSUME NEW n \in Names, late_create(n) \/ box_ends(n) \/ \E c \in ClientCalls : pass_on(n, c)
      PROVE  UsersHoldLock'
  BY <1>8 DEF late_create, box_ends, pass_on, UsersHoldLock
<1> QED
  BY <1>1, <1>3, <1>4, <1>5, <1>6, <1>7, <1>8, EntersLocked, LeavesLocked DEF RuntimeNext

LEMMA LockExcludes == UsersHoldLock => SavesExcluded
BY DEF UsersHoldLock, SavesExcluded, Saving

-----------------------------------------------------------------------------
\* The invariants say what the users of a deployment rely on.
LEMMA RuntimeGoal == RuntimeInv /\ UsersHoldLock => RuntimeHolds
<1> SUFFICES ASSUME RuntimeInv, UsersHoldLock PROVE RuntimeHolds
  OBVIOUS
<1>1. RuntimeTypeOK /\ DaemonSound
  BY DEF RuntimeInv
<1>2. NamesWrittenAhead /\ SentOnce
  BY <1>1 DEF DaemonSound, SentOnce
<1>3. ASSUME NEW p \in Programs, program[p].kept # NoName
      PROVE  /\ \A q \in Programs \ {p} : program[q].kept # program[p].kept
             /\ program[p].mode = "reuse" /\ ProgramAt(p, "idle") =>
                  box[program[p].kept] # "running" /\ carrying[program[p].kept] = {}
  <2>1. \A q \in Programs \ {p} : Apart(program[p], program[q])
    BY DEF RuntimeInv, ProgramsApart
  <2>2. program[p].kept \in Names
    BY <1>1, <1>3 DEF RuntimeTypeOK, Places, ProgramRows, Names
  <2>3. ProgramSound(p)
    BY DEF RuntimeInv
  <2>4. \A q \in Programs \ {p} : program[q].kept # program[p].kept
    BY <1>3, <2>1 DEF Apart
  <2>5. program[p].mode = "reuse" /\ program[p].pc = "idle" => box[program[p].kept] # "running"
    BY <1>3, <2>3 DEF ProgramSound
  <2>6. box[program[p].kept] # "running" => carrying[program[p].kept] = {}
    BY <1>1, <2>2 DEF DaemonSound
  <2> QED
    BY <2>4, <2>5, <2>6 DEF ProgramAt
<1> QED
  BY <1>2, <1>3, LockExcludes DEF RuntimeHolds, KeptClientsRest

\* For any number of programs, client names and requests, and cleaners that take
\* no lock: every container that exists, or that a command given up may still
\* create, had its name written to deployment.json before, and only a save that
\* had read the file earlier can have taken it out; of two saves under way at
\* once one is a cleaner's; the authority performs a request at most once
\* although it may be sent twice, and whoever has its answer or the confirmed
\* removal of the client has heard the last of it; and a reused client is one
\* program's and at rest between its requests (authority_runtime.py: _create,
\* _save, client, _client_once, remove_container, close_clients, cleanup).
THEOREM RuntimeCorrect == RuntimeSpec => []RuntimeHolds
<1>1. RuntimeSpec => []RuntimeInv
  BY RuntimeStarts, RuntimeSteps, PTL DEF RuntimeSpec
<1>2. RuntimeInv => RuntimeTypeOK
  BY DEF RuntimeInv
<1>3. RuntimeSpec => []UsersHoldLock
  BY <1>1, <1>2, LockStarts, LockSteps, PTL DEF RuntimeSpec
<1> QED
  BY <1>1, <1>3, RuntimeGoal, PTL
-----------------------------------------------------------------------------
(* The uploads of corpora and plans.                                         *)

\* A segment of a corpus, and of a plan.
CorpusSegment == [upload : Uploads, part : CorpusParts]
PlanSegment == [plan : Plans, part : PlanParts, generation : Nat]

GroundsOK ==
  storeClock \in Nat /\ policyGeneration \in Nat /\ contractGeneration \in Nat
    /\ permissionGeneration \in Nat

CorpusTypeOK ==
  /\ corpusUpload \in CorpusUploadRows \cup {NoUpload}
  /\ corpusSegments \subseteq CorpusSegment /\ IsFiniteSet(corpusSegments)

PlanTypeOK ==
  /\ planUpload \in PlanUploadRows \cup {NoUpload}
  /\ planSegments \subseteq PlanSegment /\ IsFiniteSet(planSegments)

CorpusInv == CorpusTypeOK /\ CorporaHold
PlanInv == PlanTypeOK /\ PlansHold

\* The two halves of CommitsKeptStep.
CorporaKept ==
  \A k \in DOMAIN corpusCommits :
    k \in DOMAIN corpusCommits' /\ corpusCommits'[k] = corpusCommits[k]
PlansKept ==
  \A p \in DOMAIN planCommits :
    /\ p \in DOMAIN planCommits' /\ planCommits'[p] = planCommits[p]
    /\ SegmentsOf(p) \subseteq planSegments'

\* Segments that differ in their part are as many as their parts.
LEMMA OnePartEach ==
  ASSUME NEW S, IsFiniteSet(S), \A s, t \in S : s.part = t.part => s = t
  PROVE  Cardinality({s.part : s \in S}) = Cardinality(S)
<1> DEFINE T == {s.part : s \in S}
           f == [s \in S |-> s.part]
<1>1. f \in Bijection(S, T)
  <2>1. f \in [S -> T] /\ \A s, t \in S : f[s] = f[t] => s = t
    OBVIOUS
  <2>2. \A y \in T : \E s \in S : f[s] = y
    OBVIOUS
  <2> HIDE DEF f, T
  <2> QED
    BY <2>1, <2>2 DEF Bijection, Injection, Surjection, IsInjective
<1> HIDE DEF f, T
<1>2. ExistsBijection(S, T)
  BY <1>1 DEF ExistsBijection
<1>3. Cardinality(T) = Cardinality(S)
  BY <1>2, FS_Bijection
<1> QED
  BY <1>3 DEF T

-----------------------------------------------------------------------------
LEMMA CorpusBeginStep ==
  ASSUME GroundsOK, CorpusInv, NEW u \in Uploads, NEW c \in Corpora, NEW a \in Managers,
         NEW now \in storeClock .. LastSecond, corpus_begin(u, c, a, now)
  PROVE  CorpusInv' /\ CorporaKept
<1>1. corpusCommits' = corpusCommits
  BY DEF corpus_begin
<1>2. corpusSegments' = {}
  BY DEF corpus_begin, CorpusInv, CorporaHold
<1>3. now + UploadTtl \in Nat
  BY PartitionAssumption DEF GroundsOK
<1>4. corpusUpload' \in CorpusUploadRows
  BY <1>3 DEF corpus_begin, CorpusUploadRows, GroundsOK
<1>5. /\ corpusUpload'.size = 1 /\ corpusUpload'.corpus = c
      /\ corpusUpload'.generation = policyGeneration
  BY DEF corpus_begin
<1>6. /\ Room(corpusCommits', corpusUpload'.size)
      /\ <<corpusUpload'.corpus, corpusUpload'.generation>> \notin DOMAIN corpusCommits'
  BY <1>1, <1>5 DEF corpus_begin
<1>7. CorpusTypeOK'
  BY <1>2, <1>4, FS_EmptySet DEF CorpusTypeOK
<1>8. CorporaHold'
  <2>1. corpusUpload'.size = 1 + Cardinality(corpusSegments')
    BY <1>2, <1>5, FS_EmptySet
  <2> QED
    BY <1>1, <1>2, <1>6, <2>1 DEF CorpusInv, CorporaHold
<1> QED
  BY <1>1, <1>7, <1>8 DEF CorpusInv, CorporaKept

LEMMA CorpusPutStep ==
  ASSUME GroundsOK, CorpusInv, NEW u \in Uploads, NEW a \in Managers,
         NEW part \in CorpusParts, NEW now, corpus_put(u, a, part, now)
  PROVE  CorpusInv' /\ CorporaKept
<1> DEFINE segment == [upload |-> u, part |-> part]
<1>1. /\ corpusCommits' = corpusCommits
      /\ corpusSegments' = corpusSegments \cup {segment} /\ segment \notin corpusSegments
      /\ Room(corpusCommits, corpusUpload.size + 1)
      /\ corpusUpload' = [corpusUpload EXCEPT !.size = @ + 1]
  BY DEF corpus_put
<1>2. corpusUpload \in CorpusUploadRows /\ corpusUpload.id = u
  BY DEF corpus_put, CurrentCorpus, CorpusInv, CorpusTypeOK
<1>3. /\ corpusUpload' \in CorpusUploadRows /\ corpusUpload'.size = corpusUpload.size + 1
      /\ corpusUpload'.id = u /\ corpusUpload'.corpus = corpusUpload.corpus
      /\ corpusUpload'.generation = corpusUpload.generation
  BY <1>1, <1>2 DEF CorpusUploadRows
<1>4. segment \in CorpusSegment /\ segment.upload = u
  BY DEF CorpusSegment
<1> HIDE DEF segment
<1>5. /\ IsFiniteSet(corpusSegments')
      /\ Cardinality(corpusSegments') = Cardinality(corpusSegments) + 1
  BY <1>1, FS_AddElement DEF CorpusInv, CorpusTypeOK
<1>6. CorpusTypeOK'
  BY <1>1, <1>3, <1>4, <1>5 DEF CorpusInv, CorpusTypeOK
<1>7. corpusUpload # NoUpload /\ corpusUpload' # NoUpload
  BY <1>2, <1>3, PartitionAssumption
<1>8. CorporaHold'
  <2>1. \A s \in corpusSegments' : s.upload = corpusUpload'.id
    BY <1>1, <1>2, <1>3, <1>4 DEF CorpusInv, CorporaHold
  <2>2. corpusUpload'.size = 1 + Cardinality(corpusSegments')
    <3>1. Cardinality(corpusSegments) \in Nat
      BY FS_CardinalityType DEF CorpusInv, CorpusTypeOK
    <3> QED
      BY <1>3, <1>5, <1>7, <3>1 DEF CorpusInv, CorporaHold
  <2>3. /\ Room(corpusCommits', corpusUpload'.size)
        /\ <<corpusUpload'.corpus, corpusUpload'.generation>> \notin DOMAIN corpusCommits'
    BY <1>1, <1>3, <1>7 DEF CorpusInv, CorporaHold
  <2> QED
    BY <1>1, <1>7, <2>1, <2>2, <2>3 DEF CorpusInv, CorporaHold
<1> QED
  BY <1>1, <1>6, <1>8 DEF CorpusInv, CorporaKept

\* When the upload leaves the slot its segments go, and no others are there.
LEMMA CorpusSlotEmptied ==
  ASSUME CorpusInv, NEW u, corpusUpload # NoUpload, corpusUpload.id = u, EmptyCorpusSlot(u)
  PROVE  CorpusTypeOK' /\ corpusUpload' = NoUpload /\ corpusSegments' = {}
<1>1. corpusUpload' = NoUpload /\ corpusSegments' = {}
  BY DEF EmptyCorpusSlot, CorpusInv, CorporaHold
<1> QED
  BY <1>1, FS_EmptySet DEF CorpusTypeOK

LEMMA CorpusAbortStep ==
  ASSUME CorpusInv, NEW u, NEW a, NEW now, corpus_abort(u, a, now)
  PROVE  CorpusInv' /\ CorporaKept
<1>1. corpusCommits' = corpusCommits
  BY DEF corpus_abort
<1>2. CorpusTypeOK' /\ corpusUpload' = NoUpload /\ corpusSegments' = {}
  BY CorpusSlotEmptied DEF corpus_abort, CurrentCorpus
<1>3. CorporaHold'
  BY <1>1, <1>2 DEF CorpusInv, CorporaHold
<1> QED
  BY <1>1, <1>2, <1>3 DEF CorpusInv, CorporaKept

LEMMA CorpusCommitStep ==
  ASSUME CorpusInv, NEW u, NEW a, NEW now, corpus_commit(u, a, now)
  PROVE  CorpusInv' /\ CorporaKept
<1> DEFINE k == <<corpusUpload.corpus, policyGeneration>>
           commit == [id |-> u, owner |-> a, permission |-> permissionGeneration,
                      parts |-> Staged(u), size |-> corpusUpload.size, at |-> now]
<1>1. /\ corpusUpload # NoUpload /\ corpusUpload.id = u
      /\ corpusUpload.generation = policyGeneration
      /\ Staged(u) = CorpusParts /\ EmptyCorpusSlot(u)
      /\ corpusCommits' = WithCommit(corpusCommits, k, commit)
  BY DEF corpus_commit, CurrentCorpus
<1>2. k \notin DOMAIN corpusCommits
  BY <1>1 DEF CorpusInv, CorporaHold
<1>3. CorpusTypeOK' /\ corpusUpload' = NoUpload /\ corpusSegments' = {}
  BY <1>1, CorpusSlotEmptied
<1>4. Staged(u) = {s.part : s \in corpusSegments}
  BY <1>1 DEF Staged, CorpusInv, CorporaHold
<1>5. Cardinality(corpusSegments) = Cardinality(CorpusParts)
  <2>1. \A s, t \in corpusSegments : s.part = t.part => s = t
    BY <1>1 DEF CorpusInv, CorporaHold, CorpusTypeOK, CorpusSegment
  <2>2. Cardinality({s.part : s \in corpusSegments}) = Cardinality(corpusSegments)
    BY <2>1, OnePartEach DEF CorpusInv, CorpusTypeOK
  <2> QED
    BY <1>1, <1>4, <2>2
<1>6. commit.parts = CorpusParts /\ commit.size = 1 + Cardinality(CorpusParts)
  BY <1>1, <1>5 DEF CorpusInv, CorporaHold
<1> HIDE DEF k, commit
<1>7. /\ DOMAIN corpusCommits' = DOMAIN corpusCommits \cup {k} /\ corpusCommits'[k] = commit
      /\ \A x \in DOMAIN corpusCommits : corpusCommits'[x] = corpusCommits[x]
  BY <1>1, <1>2 DEF WithCommit
<1>8. CorporaHold'
  <2>1. \A x \in DOMAIN corpusCommits' :
          /\ corpusCommits'[x].parts = CorpusParts
          /\ corpusCommits'[x].size = 1 + Cardinality(CorpusParts)
    BY <1>6, <1>7 DEF CorpusInv, CorporaHold
  <2> QED
    BY <1>3, <2>1 DEF CorporaHold
<1> QED
  BY <1>3, <1>7, <1>8 DEF CorpusInv, CorporaKept

-----------------------------------------------------------------------------
\* A plan whose segments are those of the upload in the slot, and no others.
LEMMA PlanOfSlot ==
  ASSUME PlanInv, planUpload # NoUpload
  PROVE  /\ planUpload.plan \notin DOMAIN planCommits
         /\ \A s \in SegmentsOf(planUpload.plan) : s.generation = planUpload.generation
         /\ IsFiniteSet(SegmentsOf(planUpload.plan))
<1>1. planUpload.plan \notin DOMAIN planCommits
  BY DEF PlanInv, PlansHold
<1>2. SegmentsOf(planUpload.plan) \subseteq planSegments
  BY DEF SegmentsOf
<1>3. \A s \in SegmentsOf(planUpload.plan) : s.generation = planUpload.generation
  BY <1>1 DEF SegmentsOf, PlanInv, PlansHold
<1>4. IsFiniteSet(SegmentsOf(planUpload.plan))
  BY <1>2, FS_Subset DEF PlanInv, PlanTypeOK
<1> QED
  BY <1>1, <1>3, <1>4

\* The segments of the plan in the slot go; those of committed plans stay.
LEMMA PlanTidied ==
  ASSUME PlanInv, planCommits' = planCommits,
         planSegments' = IF planUpload = NoUpload THEN planSegments
                         ELSE planSegments \ SegmentsOf(planUpload.plan)
  PROVE  /\ planSegments' \subseteq PlanSegment /\ IsFiniteSet(planSegments')
         /\ \A s \in planSegments' : s.plan \in DOMAIN planCommits
         /\ \A p \in DOMAIN planCommits :
              SegmentsOf(p)' = SegmentsOf(p) /\ SegmentsOf(p) \subseteq planSegments'
<1>1. planSegments' \subseteq planSegments
  OBVIOUS
<1>2. IsFiniteSet(planSegments') /\ planSegments' \subseteq PlanSegment
  BY <1>1, FS_Subset DEF PlanInv, PlanTypeOK
<1>3. \A s \in planSegments' : s.plan \in DOMAIN planCommits
  BY DEF PlanInv, PlansHold, SegmentsOf
<1>4. \A p \in DOMAIN planCommits : SegmentsOf(p) \subseteq planSegments'
  BY DEF PlanInv, PlansHold, SegmentsOf
<1>5. \A p \in DOMAIN planCommits : SegmentsOf(p)' = SegmentsOf(p)
  BY <1>1, <1>4 DEF SegmentsOf
<1> QED
  BY <1>2, <1>3, <1>4, <1>5

LEMMA PlanBeginStep ==
  ASSUME GroundsOK, PlanInv, NEW u \in Uploads, NEW p \in Plans, NEW a \in Managers,
         NEW now \in storeClock .. LastSecond, plan_begin(u, p, a, now)
  PROVE  PlanInv' /\ PlansKept
<1>1. planCommits' = planCommits /\ p \notin DOMAIN planCommits
  BY DEF plan_begin
<1>2. /\ planSegments' \subseteq PlanSegment /\ IsFiniteSet(planSegments')
      /\ \A s \in planSegments' : s.plan \in DOMAIN planCommits
      /\ \A q \in DOMAIN planCommits :
           SegmentsOf(q)' = SegmentsOf(q) /\ SegmentsOf(q) \subseteq planSegments'
  BY PlanTidied DEF plan_begin, Leftover
<1>3. now + UploadTtl \in Nat
  BY PartitionAssumption DEF GroundsOK
<1>4. planUpload' \in PlanUploadRows
  BY <1>3 DEF plan_begin, PlanUploadRows, GroundsOK
<1>5. planUpload'.size = 1 /\ planUpload'.plan = p
  BY DEF plan_begin
<1>6. {s \in planSegments' : s.plan = p} = {}
  BY <1>1, <1>2
<1>7. Room(planCommits', planUpload'.size)
  BY <1>1, <1>5 DEF plan_begin
<1>8. PlanTypeOK'
  BY <1>2, <1>4 DEF PlanTypeOK
<1>9. PlansHold'
  <2>1. planUpload'.size = 1 + Cardinality(SegmentsOf(planUpload.plan)')
    BY <1>5, <1>6, FS_EmptySet DEF SegmentsOf
  <2>2. \A q \in DOMAIN planCommits' :
          /\ SegmentsOf(q)' = {[plan |-> q, part |-> x, generation |-> planCommits'[q].generation]
                                 : x \in PlanParts}
          /\ planCommits'[q].size = 1 + Cardinality(PlanParts)
    BY <1>1, <1>2 DEF PlanInv, PlansHold
  <2> QED
    BY <1>1, <1>2, <1>5, <1>7, <2>1, <2>2 DEF PlansHold
<1> QED
  BY <1>1, <1>2, <1>8, <1>9 DEF PlanInv, PlansKept

LEMMA PlanAbortStep ==
  ASSUME PlanInv, NEW u, NEW a, NEW now, plan_abort(u, a, now)
  PROVE  PlanInv' /\ PlansKept
<1>1. /\ planCommits' = planCommits /\ planUpload # NoUpload /\ planUpload' = NoUpload
      /\ planSegments' = planSegments \ SegmentsOf(planUpload.plan)
  BY DEF plan_abort, OwnPlan
<1>2. /\ planSegments' \subseteq PlanSegment /\ IsFiniteSet(planSegments')
      /\ \A s \in planSegments' : s.plan \in DOMAIN planCommits
      /\ \A q \in DOMAIN planCommits :
           SegmentsOf(q)' = SegmentsOf(q) /\ SegmentsOf(q) \subseteq planSegments'
  BY <1>1, PlanTidied
<1>3. PlansHold'
  BY <1>1, <1>2 DEF PlanInv, PlansHold
<1> QED
  BY <1>1, <1>2, <1>3 DEF PlanInv, PlanTypeOK, PlansKept

LEMMA PlanPutStep ==
  ASSUME GroundsOK, PlanInv, NEW u \in Uploads, NEW a \in Managers,
         NEW part \in PlanParts, NEW now, plan_put(u, a, part, now)
  PROVE  PlanInv' /\ PlansKept
<1> DEFINE plan == planUpload.plan
           segment == [plan |-> plan, part |-> part, generation |-> contractGeneration]
<1>1. /\ planCommits' = planCommits
      /\ planSegments' = planSegments \cup {segment}
      /\ part \notin {s.part : s \in SegmentsOf(plan)}
      /\ Room(planCommits, planUpload.size + 1)
      /\ planUpload' = [planUpload EXCEPT !.size = @ + 1]
      /\ planUpload # NoUpload /\ planUpload.generation = contractGeneration
  BY DEF plan_put, CurrentPlan, OwnPlan
<1>2. planUpload \in PlanUploadRows
  BY <1>1 DEF PlanInv, PlanTypeOK
<1>3. /\ planUpload' \in PlanUploadRows /\ planUpload'.size = planUpload.size + 1
      /\ planUpload'.plan = plan /\ planUpload'.generation = contractGeneration
  BY <1>1, <1>2 DEF PlanUploadRows
<1>4. /\ segment \in PlanSegment /\ segment.plan = plan
      /\ segment.part = part /\ segment.generation = contractGeneration
  BY <1>2 DEF PlanSegment, PlanUploadRows, GroundsOK
<1>5. /\ plan \notin DOMAIN planCommits
      /\ \A s \in SegmentsOf(plan) : s.generation = planUpload.generation
      /\ IsFiniteSet(SegmentsOf(plan))
  BY <1>1, PlanOfSlot
<1> HIDE DEF segment, plan
<1>6. IsFiniteSet(planSegments')
  BY <1>1, FS_AddElement DEF PlanInv, PlanTypeOK
<1>7. PlanTypeOK'
  BY <1>1, <1>3, <1>4, <1>6 DEF PlanInv, PlanTypeOK
<1>8. planUpload' # NoUpload
  BY <1>3, PartitionAssumption
<1>9. /\ {s \in planSegments' : s.plan = plan} = SegmentsOf(plan) \cup {segment}
      /\ segment \notin SegmentsOf(plan)
  BY <1>1, <1>4 DEF SegmentsOf
<1>10. \A q \in DOMAIN planCommits : SegmentsOf(q)' = SegmentsOf(q)
  BY <1>1, <1>4, <1>5 DEF SegmentsOf
<1>11. PlansHold'
  <2>1. planUpload'.size = 1 + Cardinality(SegmentsOf(planUpload.plan)')
    <3>1. planUpload.size = 1 + Cardinality(SegmentsOf(plan))
      BY <1>1 DEF PlanInv, PlansHold, plan
    <3>2. Cardinality(SegmentsOf(plan) \cup {segment}) = Cardinality(SegmentsOf(plan)) + 1
      BY <1>5, <1>9, FS_AddElement
    <3>3. SegmentsOf(planUpload.plan)' = SegmentsOf(plan) \cup {segment}
      BY <1>3, <1>9 DEF SegmentsOf
    <3>4. Cardinality(SegmentsOf(plan)) \in Nat
      BY <1>5, FS_CardinalityType
    <3> QED
      BY <1>3, <3>1, <3>2, <3>3, <3>4
  <2>2. \A q \in DOMAIN planCommits' :
          /\ SegmentsOf(q)' = {[plan |-> q, part |-> x, generation |-> planCommits'[q].generation]
                                 : x \in PlanParts}
          /\ planCommits'[q].size = 1 + Cardinality(PlanParts)
    BY <1>1, <1>10 DEF PlanInv, PlansHold
  <2>3. \A s \in planSegments' :
          \/ s.plan \in DOMAIN planCommits'
          \/ s.plan = planUpload'.plan /\ s.generation = planUpload'.generation
    BY <1>1, <1>3, <1>4 DEF PlanInv, PlansHold, plan
  <2>4. planUpload'.plan \notin DOMAIN planCommits' /\ Room(planCommits', planUpload'.size)
    BY <1>1, <1>3, <1>5
  <2> QED
    BY <1>8, <2>1, <2>2, <2>3, <2>4 DEF PlansHold
<1> QED
  BY <1>1, <1>7, <1>10, <1>11 DEF PlanInv, PlansKept, SegmentsOf

LEMMA PlanCommitStep ==
  ASSUME PlanInv, NEW u, NEW a, NEW now, plan_commit(u, a, now)
  PROVE  PlanInv' /\ PlansKept
<1> DEFINE plan == planUpload.plan
           commit == [generation |-> contractGeneration, permission |-> permissionGeneration,
                      size |-> planUpload.size, at |-> now]
<1>1. /\ planCommits' = WithCommit(planCommits, plan, commit)
      /\ planSegments' = planSegments /\ planUpload' = NoUpload
      /\ {s.part : s \in SegmentsOf(plan)} = PlanParts
      /\ planUpload # NoUpload /\ planUpload.generation = contractGeneration
  BY DEF plan_commit, CurrentPlan, OwnPlan
<1>2. /\ plan \notin DOMAIN planCommits
      /\ \A s \in SegmentsOf(plan) : s.generation = contractGeneration
      /\ IsFiniteSet(SegmentsOf(plan))
  BY <1>1, PlanOfSlot
<1>3. \A s \in SegmentsOf(plan) : 
        s = [plan |-> plan, part |-> s.part, generation |-> contractGeneration]
  BY <1>2 DEF PlanInv, PlanTypeOK, PlanSegment, SegmentsOf
<1>4. Cardinality(SegmentsOf(plan)) = Cardinality(PlanParts)
  <2>1. \A s, t \in SegmentsOf(plan) : s.part = t.part => s = t
    BY <1>3
  <2> QED
    BY <1>1, <1>2, <2>1, OnePartEach
<1>5. SegmentsOf(plan) =
        {[plan |-> plan, part |-> x, generation |-> contractGeneration] : x \in PlanParts}
  BY <1>1, <1>3
<1>6. /\ commit.size = 1 + Cardinality(PlanParts) /\ commit.generation = contractGeneration
  BY <1>1, <1>4 DEF PlanInv, PlansHold
<1> HIDE DEF plan, commit
<1>7. /\ DOMAIN planCommits' = DOMAIN planCommits \cup {plan} /\ planCommits'[plan] = commit
      /\ \A x \in DOMAIN planCommits : planCommits'[x] = planCommits[x]
  BY <1>1, <1>2 DEF WithCommit
<1>8. \A q : SegmentsOf(q)' = SegmentsOf(q)
  BY <1>1 DEF SegmentsOf
<1>9. PlansHold'
  <2>1. \A q \in DOMAIN planCommits' :
          /\ SegmentsOf(q)' = {[plan |-> q, part |-> x, generation |-> planCommits'[q].generation]
                                 : x \in PlanParts}
          /\ planCommits'[q].size = 1 + Cardinality(PlanParts)
    <3>1. ASSUME NEW q \in DOMAIN planCommits
          PROVE  /\ SegmentsOf(q)' =
                      {[plan |-> q, part |-> x, generation |-> planCommits'[q].generation]
                         : x \in PlanParts}
                 /\ planCommits'[q].size = 1 + Cardinality(PlanParts)
      BY <1>7, <1>8 DEF PlanInv, PlansHold
    <3> QED
      BY <1>5, <1>6, <1>7, <1>8, <3>1
  <2>2. \A s \in planSegments' : s.plan \in DOMAIN planCommits'
    BY <1>1, <1>7 DEF PlanInv, PlansHold, plan
  <2> QED
    BY <1>1, <2>1, <2>2 DEF PlansHold
<1>10. PlanTypeOK'
  BY <1>1 DEF PlanInv, PlanTypeOK
<1> QED
  BY <1>1, <1>7, <1>9, <1>10 DEF PlanInv, PlansKept, SegmentsOf

-----------------------------------------------------------------------------
\* What leaves a store as it is.
LEMMA CorpusRests ==
  ASSUME CorpusInv, UNCHANGED corpusVars
  PROVE  CorpusInv' /\ CorporaKept
  BY DEF corpusVars, CorpusInv, CorpusTypeOK, CorporaHold, CorporaKept

LEMMA PlanRests ==
  ASSUME PlanInv, UNCHANGED planVars
  PROVE  PlanInv' /\ PlansKept
<1>1. \A q : SegmentsOf(q)' = SegmentsOf(q) /\ SegmentsOf(q) \subseteq planSegments'
  BY DEF planVars, SegmentsOf
<1> QED
  BY <1>1 DEF planVars, PlanInv, PlanTypeOK, PlansHold, PlansKept

LEMMA CorpusSteps ==
  ASSUME GroundsOK, CorpusInv, PlanInv, NEW u \in Uploads, NEW a \in Managers,
         NEW now \in storeClock .. LastSecond, CorpusNext(u, a, now)
  PROVE  GroundsOK' /\ CorpusInv' /\ PlanInv' /\ CorporaKept /\ PlansKept
<1>1. UNCHANGED <<grounds, planVars>> /\ storeClock' = now
  BY DEF CorpusNext, corpus_begin, corpus_answered, corpus_put, corpus_abort, corpus_commit,
         Asked, planVars
<1>2. GroundsOK'
  BY <1>1 DEF GroundsOK, grounds
<1>3. PlanInv' /\ PlansKept
  BY <1>1, PlanRests
<1>4. CorpusInv' /\ CorporaKept
  <2>1. CASE \E c \in Corpora : corpus_begin(u, c, a, now)
    BY <2>1, CorpusBeginStep
  <2>2. CASE corpus_answered(u, a, now)
    BY <2>2, CorpusRests DEF corpus_answered
  <2>3. CASE \E part \in CorpusParts : corpus_put(u, a, part, now)
    BY <2>3, CorpusPutStep
  <2>4. CASE corpus_abort(u, a, now)
    BY <2>4, CorpusAbortStep
  <2>5. CASE corpus_commit(u, a, now)
    BY <2>5, CorpusCommitStep
  <2> QED
    BY <2>1, <2>2, <2>3, <2>4, <2>5 DEF CorpusNext
<1> QED
  BY <1>2, <1>3, <1>4

LEMMA PlanSteps ==
  ASSUME GroundsOK, CorpusInv, PlanInv, NEW u \in Uploads, NEW a \in Managers,
         NEW now \in storeClock .. LastSecond, PlanNext(u, a, now)
  PROVE  GroundsOK' /\ CorpusInv' /\ PlanInv' /\ CorporaKept /\ PlansKept
<1>1. UNCHANGED <<grounds, corpusVars>> /\ storeClock' = now
  BY DEF PlanNext, plan_begin, plan_answered, plan_put, plan_abort, plan_commit, Asked,
         corpusVars
<1>2. GroundsOK'
  BY <1>1 DEF GroundsOK, grounds
<1>3. CorpusInv' /\ CorporaKept
  BY <1>1, CorpusRests
<1>4. PlanInv' /\ PlansKept
  <2>1. CASE \E p \in Plans : plan_begin(u, p, a, now)
    BY <2>1, PlanBeginStep
  <2>2. CASE \E p \in Plans : plan_answered(u, p, a, now)
    BY <2>2, PlanRests DEF plan_answered
  <2>3. CASE \E part \in PlanParts : plan_put(u, a, part, now)
    BY <2>3, PlanPutStep
  <2>4. CASE plan_abort(u, a, now)
    BY <2>4, PlanAbortStep
  <2>5. CASE plan_commit(u, a, now)
    BY <2>5, PlanCommitStep
  <2> QED
    BY <2>1, <2>2, <2>3, <2>4, <2>5 DEF PlanNext
<1> QED
  BY <1>2, <1>3, <1>4

LEMMA PartitionStep ==
  ASSUME GroundsOK, CorpusInv, PlanInv, [PartitionNext]_partitionVars
  PROVE  GroundsOK' /\ CorpusInv' /\ PlanInv' /\ CommitsKeptStep
<1>1. GroundsOK' /\ CorpusInv' /\ PlanInv' /\ CorporaKept /\ PlansKept
  <2>1. CASE \E u \in Uploads, a \in Managers, now \in storeClock .. LastSecond :
               CorpusNext(u, a, now)
    BY <2>1, CorpusSteps
  <2>2. CASE \E u \in Uploads, a \in Managers, now \in storeClock .. LastSecond :
               PlanNext(u, a, now)
    BY <2>2, PlanSteps
  <2>3. CASE ChangeGrounds
    BY <2>3, CorpusRests, PlanRests DEF ChangeGrounds, GroundsOK
  <2>4. CASE UNCHANGED partitionVars
    BY <2>4, CorpusRests, PlanRests DEF partitionVars, grounds, GroundsOK
  <2> QED
    BY <2>1, <2>2, <2>3, <2>4 DEF PartitionNext
<1> QED
  BY <1>1 DEF CorporaKept, PlansKept, CommitsKeptStep

LEMMA PartitionAlways == PartitionSpec => [](GroundsOK /\ CorpusInv /\ PlanInv)
<1>1. PartitionInit => GroundsOK /\ CorpusInv /\ PlanInv
  <2> SUFFICES ASSUME PartitionInit PROVE GroundsOK /\ CorpusInv /\ PlanInv
    OBVIOUS
  <2>1. GroundsOK
    BY DEF PartitionInit, GroundsOK
  <2>2. CorpusInv
    BY FS_EmptySet DEF PartitionInit, CorpusInv, CorpusTypeOK, CorporaHold
  <2>3. PlanInv
    BY FS_EmptySet DEF PartitionInit, PlanInv, PlanTypeOK, PlansHold
  <2> QED
    BY <2>1, <2>2, <2>3
<1>2. GroundsOK /\ CorpusInv /\ PlanInv /\ [PartitionNext]_partitionVars
        => GroundsOK' /\ CorpusInv' /\ PlanInv'
  BY PartitionStep
<1> QED
  BY <1>1, <1>2, PTL DEF PartitionSpec

\* Whatever expires, is aborted or begun again, committed corpora and plans are
\* whole, the slots hold the segments of their own uploads and no others, and
\* every upload that is accepted fits into its store (both handle functions).
THEOREM UploadsCorrect == PartitionSpec => []UploadsHold
<1>1. GroundsOK /\ CorpusInv /\ PlanInv => UploadsHold
  BY DEF CorpusInv, PlanInv, UploadsHold
<1> QED
  BY <1>1, PartitionAlways, PTL

\* A commit of a corpus or of a plan is never changed, nor does a segment of it
\* go when a later upload is tidied up (both handle functions).
THEOREM CommitsKept == PartitionSpec => [][CommitsKeptStep]_partitionVars
<1>1. GroundsOK /\ CorpusInv /\ PlanInv /\ [PartitionNext]_partitionVars
        => [CommitsKeptStep]_partitionVars
  BY PartitionStep
<1> QED
  BY <1>1, PartitionAlways, PTL DEF PartitionSpec
-----------------------------------------------------------------------------
(* The record of the first capacity failure.                                 *)

Call ==
  [at : {"rest", "prepare", "fill", "supervise", "record", "sync"},
   mode : {"none", "run", "cancel", "status"}, sink : BOOLEAN, reason : Reasons \cup {"none"}]

\* The file is short while it is filled, and holds the record that is about to
\* be told.
SinkInv ==
  /\ call \in Call
  /\ call.at = "fill" => sink = "short"
  /\ call.at \in {"record", "sync"} => call.reason \in Reasons
  /\ call.at = "sync" => sink = call.reason
  /\ SinkHolds

LEMMA SinkStep ==
  ASSUME SinkInv, [SinkNext]_sinkVars
  PROVE  SinkInv'
<1> USE DEF SinkInv, SinkHolds, ToldIsRecorded, RunsHaveTheirSink, Usable, Calling, Call
<1>1. Reasons \cap {"absent", "short", "blank", "torn", "other run"} = {}
  BY SinkAssumption DEF NoRecord
<1>2. NoCall \in Call /\ NoCall.at = "rest"
  BY DEF NoCall
<1>3. sink \notin Reasons => answers = {}
  OBVIOUS
<1>4. \A has \in BOOLEAN : GoOn(has) =>
        /\ call' \in Call /\ call'.at = "supervise" /\ call'.sink = has
        /\ call'.mode = call.mode
  BY DEF GoOn
<1>5. Unprepared =>
        /\ call' \in Call /\ call'.at \in {"rest", "supervise"}
        /\ call'.at = "supervise" => call'.mode # "run"
  BY <1>2, <1>4 DEF Unprepared
<1>6. ASSUME NEW mode \in {"run", "cancel", "status"}, StartCall(mode)
      PROVE  SinkInv'
  <2>1. call' \in Call /\ call'.at = "prepare"
    BY <1>6 DEF StartCall, NoCall
  <2> QED
    BY <1>6, <2>1 DEF StartCall
<1>7. ASSUME CreateSink PROVE SinkInv'
  <2>1. call' \in Call /\ call'.at = "fill"
    BY <1>7 DEF CreateSink
  <2> QED
    BY <1>1, <1>3, <1>7, <2>1 DEF CreateSink
<1>8. ASSUME FillSink PROVE SinkInv'
  BY <1>1, <1>3, <1>4, <1>8 DEF FillSink
<1>9. ASSUME FillFails PROVE SinkInv'
  BY <1>1, <1>3, <1>5, <1>9 DEF FillFails
<1>10. ASSUME OpenSink PROVE SinkInv'
  BY <1>4, <1>10 DEF OpenSink
<1>11. ASSUME RefuseSink PROVE SinkInv'
  BY <1>5, <1>11 DEF RefuseSink
<1>12. ASSUME StatusSink PROVE SinkInv'
  BY <1>4, <1>12 DEF StatusSink
<1>13. ASSUME NEW reason \in Reasons, CapacityFails(reason)
       PROVE  SinkInv'
  <2>1. call' \in Call /\ call'.at \in {"rest", "record"}
        /\ (call'.at = "record" => call'.reason = reason)
    BY <1>2, <1>13 DEF CapacityFails
  <2> QED
    BY <1>13, <2>1 DEF CapacityFails
<1>14. ASSUME WriteRecord PROVE SinkInv'
  <2>1. call' \in Call /\ call'.at = "sync" /\ call'.reason = call.reason
    BY <1>14 DEF WriteRecord
  <2> QED
    BY <1>1, <1>3, <1>14, <2>1 DEF WriteRecord, MayRecord
<1>15. ASSUME call' = NoCall, UNCHANGED <<sink, answers>> PROVE SinkInv'
  BY <1>2, <1>15
<1>16. ASSUME PriorRecord PROVE SinkInv'
  BY <1>2, <1>16 DEF PriorRecord, Tell
<1>17. ASSUME RecordTorn PROVE SinkInv'
  BY <1>1, <1>2, <1>3, <1>17 DEF RecordTorn, MayRecord
<1>18. ASSUME RecordSynced PROVE SinkInv'
  BY <1>2, <1>18 DEF RecordSynced, Tell
<1>19. ASSUME UNCHANGED sinkVars PROVE SinkInv'
  BY <1>19 DEF sinkVars
<1> QED
  BY <1>6, <1>7, <1>8, <1>9, <1>10, <1>11, <1>12, <1>13, <1>14, <1>15, <1>16, <1>17, <1>18,
     <1>19
  DEF SinkNext, SupervisionEnds, SyncFails, CallDies

\* Who was told of a record finds it, whatever fails or dies, and a run goes on
\* only with its own place for one (FailureSink, prepare_sink, gah_run.execute).
THEOREM SinkCorrect == SinkSpec => []SinkHolds
<1>1. SinkInit => SinkInv
  <2>1. NoCall \in Call /\ NoCall.at = "rest"
    BY DEF NoCall, Call
  <2> QED
    BY <2>1 DEF SinkInit, SinkInv, SinkHolds, ToldIsRecorded, RunsHaveTheirSink, Calling
<1>2. SinkInv /\ [SinkNext]_sinkVars => SinkInv'
  BY SinkStep
<1>3. SinkInv => SinkHolds
  BY DEF SinkInv
<1> QED
  BY <1>1, <1>2, <1>3, PTL DEF SinkSpec

-----------------------------------------------------------------------------
(* The journal of the Docker supervisor by itself, whoever calls it.         *)

\* A row that can be read back, and that names a container once its state says
\* that there is one.
JournalInv ==
  /\ journal \in [Keys -> Row \cup {Absent}]
  /\ JournalReadable
  /\ \A k \in Keys :
       journal[k].state \in {"CREATED", "STARTING", "RUNNING", "STOPPED"} =>
         journal[k].container # None

\* Where a row may go.
OneWay(row, next) ==
  Exists(row) =>
    /\ Exists(next)
    /\ next.request = row.request
    /\ next.token = row.token
    /\ row.container \in {None, next.container}
    /\ Rank(row.state) <= Rank(next.state)
    /\ row.state = "FINISHED" => next = row
    /\ next.state = "FINISHED" /\ row.state # "FINISHED" =>
         \/ row.state = "STOPPED"
         \/ row.state = "INTENT" /\ next.container = None

\* A row as the invariant has it.
SoundRow(row) ==
  /\ row = Absent \/ Readable(row)
  /\ row.state \in {"CREATED", "STARTING", "RUNNING", "STOPPED"} => row.container # None

LEMMA RowKinds ==
  /\ Absent.state = "ABSENT"
  /\ \A row : Readable(row) => row \in Row /\ row.state \in States
  /\ \A row : SoundRow(row) /\ Exists(row) => Readable(row)
  BY DEF Absent, Readable, Row, SoundRow, Exists

LEMMA RowAdvances ==
  ASSUME NEW row, SoundRow(row), NEW token, NEW state \in States \ {"FINISHED"},
         NEW container \in Containers \cup {None}, MayAdvance(row, token, state, container)
  PROVE  SoundRow(Advanced(row, state, container)) /\ OneWay(row, Advanced(row, state, container))
<1>1. Readable(row) /\ row \in Row /\ row.state # "FINISHED" /\ row.receipt = None
  BY RowKinds DEF MayAdvance, Readable
<1>2. PICK next \in Row : next = Advanced(row, state, container)
  BY <1>1 DEF Advanced, Row
<1>3. /\ next.state = state /\ next.container = container /\ next.receipt = row.receipt
      /\ next.request = row.request /\ next.token = row.token
  BY <1>1, <1>2 DEF Advanced, Row
<1>4. /\ Exists(next) /\ row.container \in {None, container}
      /\ Rank(row.state) <= Rank(state)
      /\ state # "INTENT" => container # None
  BY <1>1, <1>3 DEF MayAdvance, Forward, Rank, States, Exists, Row, SoundRow
<1>5. SoundRow(next)
  BY <1>1, <1>3, <1>4 DEF SoundRow, Readable
<1>6. OneWay(row, next)
  BY <1>1, <1>3, <1>4 DEF OneWay
<1> QED
  BY <1>2, <1>5, <1>6

LEMMA RowFinishes ==
  ASSUME NEW row, SoundRow(row), NEW token, NEW rc \in Receipt, MayFinish(row, token, rc)
  PROVE  SoundRow(Finished(row, rc)) /\ OneWay(row, Finished(row, rc))
<1>1. Readable(row) /\ row \in Row
  BY RowKinds DEF MayFinish
<1>2. PICK next \in Row : next = Finished(row, rc)
  BY <1>1 DEF Finished, Row, States
<1>3. /\ next.state = "FINISHED" /\ next.container = row.container /\ next.receipt = rc
      /\ next.request = row.request /\ next.token = row.token
  BY <1>1, <1>2 DEF Finished, Row
<1>4. rc # None
  BY NoneAssumption
<1>5. SoundRow(next)
  BY <1>3, <1>4 DEF SoundRow, Readable, MayFinish
<1>6. row.state = "FINISHED" => next = row
  BY <1>1, <1>2, <1>4 DEF MayFinish, Finished, Readable, Row
<1>7. row.state # "FINISHED" =>
        \/ row.state = "STOPPED"
        \/ row.state = "INTENT" /\ row.container = None
  BY <1>1 DEF MayFinish, Row, States, SoundRow
<1>8. Rank(row.state) <= Rank("FINISHED")
  BY <1>1 DEF Rank, Row, States
<1>9. OneWay(row, next)
  BY <1>1, <1>3, <1>6, <1>7, <1>8 DEF OneWay, Exists
<1> QED
  BY <1>2, <1>5, <1>9

LEMMA RowBegins ==
  ASSUME NEW request \in Requests, NEW token \in Tokens
  PROVE  SoundRow(NewRow(request, token))
  BY DEF NewRow, SoundRow, Readable, Row, States

LEMMA JournalStep ==
  ASSUME JournalInv, [JournalNext]_journal
  PROVE  JournalInv' /\ OneWayStep
<1>1. journal \in [Keys -> Row \cup {Absent}] /\ \A k \in Keys : SoundRow(journal[k])
  BY DEF JournalInv, JournalReadable, SoundRow
<1>2. ASSUME NEW k \in Keys, NEW next, SoundRow(next), OneWay(journal[k], next),
             journal' = [journal EXCEPT ![k] = next]
      PROVE  JournalInv' /\ OneWayStep
  <2>1. next \in Row \cup {Absent}
    BY <1>2 DEF SoundRow, Readable
  <2>2. journal' \in [Keys -> Row \cup {Absent}]
    BY <1>1, <1>2, <2>1
  <2>3. \A o \in Keys : journal'[o] = IF o = k THEN next ELSE journal[o]
    BY <1>1, <1>2
  <2>4. \A o \in Keys : SoundRow(journal'[o])
    BY <1>1, <1>2, <2>3
  <2>5. \A o \in Keys : OneWay(journal[o], journal'[o])
    <3>1. \A row \in Row \cup {Absent} : OneWay(row, row)
      BY RowKinds DEF OneWay, Row, Rank, States, Exists
    <3> QED
      BY <1>1, <1>2, <2>3, <3>1
  <2> QED
    BY <2>2, <2>4, <2>5 DEF JournalInv, JournalReadable, SoundRow, OneWayStep, OneWay
<1>3. ASSUME UNCHANGED journal PROVE JournalInv' /\ OneWayStep
  <2>1. \A row \in Row \cup {Absent} : OneWay(row, row)
    BY RowKinds DEF OneWay, Row, Rank, States, Exists
  <2> QED
    BY <1>1, <1>3, <2>1 DEF JournalInv, JournalReadable, OneWayStep, OneWay
<1>4. ASSUME NEW k \in Keys, NEW t \in Tokens,
             \/ \E q \in Requests : begin(k, q, t)
             \/ \E s \in States, c \in Containers \cup {None} : advance(k, t, s, c)
             \/ \E rc \in Receipt : finish(k, t, rc)
      PROVE  JournalInv' /\ OneWayStep
  <2>1. CASE \E q \in Requests : begin(k, q, t)
    <3>1. PICK q \in Requests : begin(k, q, t)
      BY <2>1
    <3>2. SoundRow(NewRow(q, t)) /\ OneWay(journal[k], NewRow(q, t))
      BY <3>1, RowBegins DEF begin, OneWay
    <3> QED
      BY <1>2, <3>1, <3>2 DEF begin
  <2>2. CASE \E s \in States, c \in Containers \cup {None} : advance(k, t, s, c)
    <3>1. PICK s \in States, c \in Containers \cup {None} : advance(k, t, s, c)
      BY <2>2
    <3>2. /\ SoundRow(Advanced(journal[k], s, c))
          /\ OneWay(journal[k], Advanced(journal[k], s, c))
      BY <1>1, <3>1, RowAdvances DEF advance
    <3> QED
      BY <1>2, <3>1, <3>2 DEF advance
  <2>3. CASE \E rc \in Receipt : finish(k, t, rc)
    <3>1. PICK rc \in Receipt : finish(k, t, rc)
      BY <2>3
    <3>2. SoundRow(Finished(journal[k], rc)) /\ OneWay(journal[k], Finished(journal[k], rc))
      BY <1>1, <3>1, RowFinishes DEF finish
    <3> QED
      BY <1>2, <3>1, <3>2 DEF finish
  <2> QED
    BY <1>4, <2>1, <2>2, <2>3
<1> QED
  BY <1>3, <1>4 DEF JournalNext

LEMMA JournalStarts == JournalInit => JournalInv
  BY DEF JournalInit, JournalInv, JournalReadable, Absent

LEMMA JournalAlways == JournalSpec => []JournalInv
<1>1. JournalInv /\ [JournalNext]_journal => JournalInv'
  BY JournalStep
<1> QED
  BY <1>1, JournalStarts, PTL DEF JournalSpec

-----------------------------------------------------------------------------
(* The host: no store disturbs another.                                      *)

\* A step of the host is a step of each store or leaves it alone.
LEMMA HostSteps ==
  ASSUME [HostNext]_hostVars
  PROVE  /\ [OpenNext]_openVars /\ [MigrationNext]_migrationVars /\ [JournalNext]_journal
         /\ [PartitionNext]_partitionVars /\ [SinkNext]_sinkVars
<1>1. CASE HostNext
  BY <1>1 DEF HostNext
<1>2. CASE UNCHANGED hostVars
  BY <1>2 DEF hostVars
<1> QED
  BY <1>1, <1>2

LEMMA HostStores ==
  HostSpec => /\ OpenSpec /\ MigrationSpec /\ JournalSpec
              /\ PartitionSpec /\ SinkSpec
<1>1. HostInit => /\ OpenInit /\ MigrationInit /\ JournalInit
                  /\ PartitionInit /\ SinkInit
  BY DEF HostInit
<1>2. [HostNext]_hostVars =>
        /\ [OpenNext]_openVars /\ [MigrationNext]_migrationVars /\ [JournalNext]_journal
        /\ [PartitionNext]_partitionVars /\ [SinkNext]_sinkVars
  BY HostSteps
<1> QED
  BY <1>1, <1>2, PTL
  DEF HostSpec, OpenSpec, MigrationSpec, JournalSpec, PartitionSpec, SinkSpec

\* Each of the promises above, when all of these stores are used on one host.
THEOREM HostCorrect ==
  HostSpec => [](OpenIsComplete /\ StoredAnswersAreTrue /\ UploadsHold /\ SinkHolds)
  BY HostStores, OpenComplete, AnswersCorrect, UploadsCorrect, SinkCorrect, PTL

\* No store takes back what it holds: rows of the journal move forward
\* (ExecutionJournal.advance, finish), the ledger keeps its rows
\* (_create_schema, migrate_v1), and commits of uploads stay (both handle
\* functions).
THEOREM HostGrows == HostSpec => StoresOnlyGrow
<1>1. OpenTypeOK /\ OpenInv /\ [OpenNext]_openVars => ContentKeptStep
  BY OpenStep
<1>2. JournalInv /\ [JournalNext]_journal => OneWayStep
  BY JournalStep
<1>3. GroundsOK /\ CorpusInv /\ PlanInv /\ [PartitionNext]_partitionVars => CommitsKeptStep
  BY PartitionStep
<1> QED
  BY <1>1, <1>2, <1>3, HostStores, OpenAlways, JournalAlways, PartitionAlways, PTL
  DEF StoresOnlyGrow, OpenSpec, JournalSpec, PartitionSpec
=============================================================================
