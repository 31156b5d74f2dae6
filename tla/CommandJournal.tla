---------------------------- MODULE CommandJournal ----------------------------
(***************************************************************************)
(* The commands of a workspace that keep their requests in a journal       *)
(* (productization_journal.py): retention requests                         *)
(* (operations_retention.py), diagnostic bundles (operations_bundle.py),   *)
(* registrations and imports of pilots (tools/gah_pilot.py) and            *)
(* measurements of whole runs (tools/gah_benchmark.py).                    *)
(*                                                                         *)
(* Each of them begins in the journal, does something that cannot be part  *)
(* of the journal's transaction, saves files and finishes in the journal.  *)
(* Any number of processes may be given the same command.  They differ in  *)
(* the order of the lock and the journal, and in what they make of a       *)
(* command that was begun before.                                          *)
(***************************************************************************)
EXTENDS Naturals, FiniteSets

CONSTANTS
  Callers,         \* processes of the host
  Jobs,            \* commands, each with its request id and its input
  Program,         \* command -> the program it is for
  Output,          \* command -> the path it writes to, or the run it measures
  MaxTroubles,     \* bound: deaths, failing calls, lost answers
  MaxWithdrawals,  \* bound: changes of what the authority admits
  NoOne

Programs == {"retention", "bundle", "pilot", "import", "measure"}

\* The output of a measurement is a run, that of the others a path.
ASSUME CommandAssumption ==
  /\ Program \in [Jobs -> Programs] /\ DOMAIN Output = Jobs
  /\ \A q, s \in Jobs :
       Program[q] = "measure" /\ Output[s] = Output[q] => Program[s] = "measure"
  /\ {MaxTroubles, MaxWithdrawals} \subseteq Nat
  /\ NoOne \notin Callers \cup Jobs /\ Jobs \cap {"free", "foreign"} = {}

Paths == {Output[q] : q \in Jobs}

VARIABLES
  entry,        \* command -> NotBegun, Begun or the stored result
  calling,      \* what each process is doing
  transport,    \* holder of the transport lock of the deployment, or NoOne
  climate,      \* whether the authority admits new requests, and repeated ones
  effects,      \* command -> how often what it asks for was done
  underway,     \* requests that were given up and may still be performed
  files,        \* command -> how many of its files are saved
  holder,       \* path -> whose output is there: "free", "foreign" or a command
  receipt,      \* command -> NoOne or the result its last file tells
  told,         \* command -> the results its callers were given for good
  troubles, withdrawals

commandVars == <<entry, calling, transport, climate, effects, underway, files, holder,
                 receipt, told, troubles, withdrawals>>

Result(status, reason) == [status |-> status, reason |-> reason]

NotBegun == Result("ABSENT", "NONE")
Begun == Result("OPEN", "NONE")
Done == Result("COMPLETED", "NONE")
Unknown == Result("INCOMPLETE", "OPERATION_UNKNOWN")
IoError == Result("INCOMPLETE", "IO_ERROR")
Clash == Result("REJECTED", "RESULT_CONFLICT")
Refused == Result("REJECTED", "AUTHORITY_DENIED")
Unavailable == Result("INCOMPLETE", "RUNTIME_UNAVAILABLE")

\* The programs of gah_ops.py hold the transport lock around the whole command.
LockedThroughout(q) == Program[q] \in {"retention", "bundle"}

Away == [at |-> "away", command |-> NoOne, created |-> FALSE, result |-> NoOne, next |-> "answer"]

CommandInit ==
  /\ entry = [q \in Jobs |-> NotBegun]
  /\ calling = [c \in Callers |-> Away]
  /\ transport = NoOne /\ climate = "open"
  /\ effects = [q \in Jobs |-> 0] /\ underway = {}
  /\ files = [q \in Jobs |-> 0]
  /\ holder \in [Paths -> {"free", "foreign"}]
  /\ receipt = [q \in Jobs |-> NoOne]
  /\ told = [q \in Jobs |-> {}]
  /\ troubles = 0 /\ withdrawals = 0

Doing(c, place) == calling[c].at = place

Serves(c, program) == Program[calling[c].command] = program

GoesOnAt(c, place) == calling' = [calling EXCEPT ![c].at = place]

\* The process has this result and goes on at this place.
Conclude(c, place, result) ==
  calling' = [calling EXCEPT ![c].at = place, ![c].result = result]

\* The process closes its clients and goes on at the next place.
CloseThen(c, next, result) ==
  calling' = [calling EXCEPT ![c].at = "close", ![c].next = next, ![c].result = result]

\* The process has its answer; a lock it holds throughout is released first.
Leave(c, result) ==
  IF LockedThroughout(calling[c].command) THEN CloseThen(c, "answer", result)
  ELSE Conclude(c, "answer", result)

Trouble == troubles < MaxTroubles /\ troubles' = troubles + 1

AuthorityKept == UNCHANGED <<climate, effects, underway, withdrawals>>

FilesKept == UNCHANGED <<files, holder, receipt>>

-----------------------------------------------------------------------------
(* The journal and the lock.                                                *)

Start(c, q) ==
  /\ Doing(c, "away")
  /\ calling' = [calling EXCEPT ![c] =
       [Away EXCEPT !.at = IF LockedThroughout(q) THEN "lock" ELSE "begin", !.command = q]]
  /\ AuthorityKept /\ FilesKept /\ UNCHANGED <<entry, transport, told, troubles>>

\* What a program does first once its command is in the journal.
FirstPlace(q) ==
  CASE Program[q] = "retention" -> "call"
    [] Program[q] = "bundle" -> "collect"
    [] Program[q] = "pilot" -> "preflight"
    [] Program[q] = "import" -> "save"
    [] Program[q] = "measure" -> "lock"

\* OperationJournal.begin of a command the journal does not know.
BeginCreated(c) ==
  LET q == calling[c].command
  IN /\ Doing(c, "begin") /\ entry[q] = NotBegun
     /\ entry' = [entry EXCEPT ![q] = Begun]
     /\ calling' = [calling EXCEPT ![c].at = FirstPlace(q),
                   ![c].created = Program[q] = "retention"]
     /\ AuthorityKept /\ FilesKept /\ UNCHANGED <<transport, told, troubles>>

\* begin of a command without a result: retention and pilots do it again, a
\* bundle and a measurement are only recovered.
BeginAgain(c) ==
  LET q == calling[c].command
  IN /\ Doing(c, "begin") /\ entry[q] = Begun
     /\ GoesOnAt(c, IF Program[q] \in {"bundle", "measure"} THEN "recover" ELSE FirstPlace(q))
     /\ AuthorityKept /\ FilesKept /\ UNCHANGED <<entry, transport, told, troubles>>

\* begin of a command that has its result.
BeginKnown(c) ==
  LET q == calling[c].command
  IN /\ Doing(c, "begin") /\ entry[q] \notin {NotBegun, Begun}
     /\ Leave(c, entry[q])
     /\ AuthorityKept /\ FilesKept /\ UNCHANGED <<entry, transport, told, troubles>>

\* What a busy lock, or a deployment that cannot be opened, comes to: the
\* programs that had begun make it their result.
NotOpened(c) ==
  CASE Serves(c, "retention") -> Conclude(c, "answer", Result("INCOMPLETE", "AUTHORITY_REQUIRED"))
    [] Serves(c, "bundle") -> Conclude(c, "answer", Unknown)
    [] Serves(c, "pilot") -> Conclude(c, "finish", IoError)
    [] Serves(c, "measure") -> Conclude(c, "finish", Unavailable)

\* operation_lock does not wait.
Lock(c) ==
  LET q == calling[c].command
  IN /\ Doing(c, "lock")
     /\ \/ /\ transport = NoOne
           /\ transport' = c
           /\ GoesOnAt(c, CASE LockedThroughout(q) -> "begin"
                        [] Program[q] = "pilot" -> "call"
                        [] Program[q] = "measure" -> "fresh")
        \/ /\ transport # NoOne
           /\ NotOpened(c)
           /\ UNCHANGED transport
     /\ AuthorityKept /\ FilesKept /\ UNCHANGED <<entry, told, troubles>>

\* How each program tells that the journal has another result already.
Conflicting(c) ==
  CASE Serves(c, "retention") -> IoError
    [] Serves(c, "pilot") \/ Serves(c, "import") -> Result("INCOMPLETE", "RESULT_CONFLICT")
    [] OTHER -> Clash

\* What finish may answer: the result, unless another one is stored.  A result
\* that was made again differs from the stored one when the second changed.
Answers(c, stored, r) ==
  CASE stored = Begun -> {r}
    [] stored = r -> IF Program[calling[c].command] \in {"pilot", "import"}
                     THEN {r, Conflicting(c)} ELSE {r}
    [] OTHER -> {Conflicting(c)}

\* OperationJournal.finish.
Finish(c) ==
  LET q == calling[c].command
      r == calling[c].result
  IN /\ Doing(c, "finish")
     /\ entry' = [entry EXCEPT ![q] = IF @ = Begun THEN r ELSE @]
     /\ \E answer \in Answers(c, entry[q], r) : Leave(c, answer)
     /\ AuthorityKept /\ FilesKept /\ UNCHANGED <<transport, told, troubles>>

\* The journal cannot be written, or its clock went back.
FinishFails(c) ==
  /\ Doing(c, "finish") /\ Trouble
  /\ Leave(c, IoError)
  /\ AuthorityKept /\ FilesKept /\ UNCHANGED <<entry, transport, told>>

\* close_clients and the end of the lock.
Close(c) ==
  /\ Doing(c, "close")
  /\ transport' = NoOne
  /\ GoesOnAt(c, calling[c].next)
  /\ AuthorityKept /\ FilesKept /\ UNCHANGED <<entry, told, troubles>>

\* close_clients fails: the programs under the lock tell that instead of their
\* result, the pilot leaves its command open, and a measurement that has an
\* observation makes it its result.
CloseFails(c) ==
  /\ Doing(c, "close") /\ Trouble
  /\ transport' = NoOne
  /\ CASE LockedThroughout(calling[c].command) ->
            Conclude(c, "answer", Result("INCOMPLETE", "STOP_UNCONFIRMED"))
       [] Serves(c, "pilot") -> Conclude(c, "answer", Unavailable)
       [] Serves(c, "measure") /\ calling[c].next = "save" -> Conclude(c, "save", Unavailable)
       [] OTHER -> GoesOnAt(c, calling[c].next)
  /\ AuthorityKept /\ FilesKept /\ UNCHANGED <<entry, told>>

\* Only what is not INCOMPLETE is remembered.
Answer(c) ==
  /\ Doing(c, "answer")
  /\ told' = [told EXCEPT ![calling[c].command] =
       @ \cup {t \in {calling[c].result} : t.status # "INCOMPLETE"}]
  /\ calling' = [calling EXCEPT ![c] = Away]
  /\ AuthorityKept /\ FilesKept /\ UNCHANGED <<entry, transport, troubles>>

\* The process dies; the operating system ends its lock.
Die(c) ==
  /\ ~Doing(c, "away") /\ Trouble
  /\ calling' = [calling EXCEPT ![c] = Away]
  /\ transport' = IF transport = c THEN NoOne ELSE transport
  /\ AuthorityKept /\ FilesKept /\ UNCHANGED <<entry, told>>

-----------------------------------------------------------------------------
(* The authority, which answers a request it has performed from what it     *)
(* stored, unless the actor was revoked since.                              *)

Admits(q) == climate = "open" \/ (climate = "held" /\ effects[q] > 0)

Perform(q) == effects' = [effects EXCEPT ![q] = 1]

\* The request is performed, or was, and the answer arrives.
Accepted(c) ==
  LET q == calling[c].command
  IN /\ Doing(c, "call") /\ Admits(q)
     /\ Perform(q)
     /\ IF Serves(c, "pilot") THEN CloseThen(c, "save", NoOne) ELSE GoesOnAt(c, "save")
     /\ FilesKept
     /\ UNCHANGED <<entry, transport, climate, underway, withdrawals, told, troubles>>

\* Mutant of Denied: a refusal ends every retention request.
DeniedAlways(c) ==
  /\ Doing(c, "call") /\ ~Admits(calling[c].command)
  /\ CASE Serves(c, "pilot") -> CloseThen(c, "finish", Refused)
       [] Serves(c, "retention") -> Conclude(c, "finish", Refused)
  /\ AuthorityKept /\ FilesKept /\ UNCHANGED <<entry, transport, told, troubles>>

\* The authority refuses.  Retention takes that as the result of a command
\* only if no request for it was sent before.
Denied(c) ==
  /\ Doing(c, "call") /\ ~Admits(calling[c].command)
  /\ CASE Serves(c, "pilot") -> CloseThen(c, "finish", Refused)
       [] Serves(c, "retention") ->
            IF calling[c].created THEN Conclude(c, "finish", Refused) ELSE Leave(c, Unknown)
  /\ AuthorityKept /\ FilesKept /\ UNCHANGED <<entry, transport, told, troubles>>

\* The client gives up; its request may be performed later.
Lost(c) ==
  LET q == calling[c].command
  IN /\ Doing(c, "call") /\ Trouble
     /\ underway' = underway \cup {q}
     /\ IF Serves(c, "pilot") THEN CloseThen(c, "answer", Unavailable) ELSE Leave(c, Unknown)
     /\ FilesKept
     /\ UNCHANGED <<entry, transport, climate, effects, withdrawals, told>>

PerformLate(q) ==
  /\ q \in underway
  /\ underway' = underway \ {q}
  /\ IF Admits(q) THEN Perform(q) ELSE UNCHANGED effects
  /\ FilesKept
  /\ UNCHANGED <<entry, calling, transport, climate, withdrawals, told, troubles>>

\* New requests are refused for a while, or the actor is revoked for good.
ClimateChanges ==
  /\ withdrawals < MaxWithdrawals /\ withdrawals' = withdrawals + 1
  /\ climate' \in CASE climate = "open" -> {"held", "revoked"}
                    [] climate = "held" -> {"open", "revoked"}
                    [] climate = "revoked" -> {}
  /\ FilesKept
  /\ UNCHANGED <<entry, calling, transport, effects, underway, told, troubles>>

-----------------------------------------------------------------------------
(* What the programs do between begin and finish.                           *)

\* A bundle never writes into a directory that exists (create).
Collect(c) ==
  LET q == calling[c].command
  IN /\ Doing(c, "collect")
     /\ \/ /\ holder[Output[q]] # "free"
           /\ Conclude(c, "finish", Clash)
           /\ UNCHANGED holder
        \/ /\ holder[Output[q]] = "free" /\ climate = "revoked"
           /\ Leave(c, Refused)
           /\ UNCHANGED holder
        \/ /\ holder[Output[q]] = "free" /\ climate # "revoked"
           /\ holder' = [holder EXCEPT ![Output[q]] = q]
           /\ GoesOnAt(c, "save")
     /\ AuthorityKept /\ UNCHANGED <<entry, transport, files, receipt, told, troubles>>

\* A pilot looks at its output before it asks the authority.
Preflight(c) ==
  LET q == calling[c].command
  IN /\ Doing(c, "preflight")
     /\ IF holder[Output[q]] \in {"free", q} THEN GoesOnAt(c, "lock")
        ELSE Conclude(c, "finish", Clash)
     /\ AuthorityKept /\ FilesKept /\ UNCHANGED <<entry, transport, told, troubles>>

\* A measurement takes a run that nobody has begun (_whole_run_status,
\* _whole_run_checkpoint_exists).
Fresh(c) ==
  LET q == calling[c].command
  IN /\ Doing(c, "fresh")
     /\ IF holder[Output[q]] = "free" THEN GoesOnAt(c, "run")
        ELSE CloseThen(c, "finish", Result("REJECTED", "BINDING_MISMATCH"))
     /\ AuthorityKept /\ FilesKept /\ UNCHANGED <<entry, transport, told, troubles>>

\* The supervisor begins the run.
BeginRun(c) ==
  LET q == calling[c].command
  IN /\ Doing(c, "run")
     /\ holder' = [holder EXCEPT ![Output[q]] = q]
     /\ effects' = [effects EXCEPT ![q] = @ + 1]
     /\ GoesOnAt(c, "running")
     /\ UNCHANGED <<entry, transport, climate, underway, withdrawals, files, receipt, told, troubles>>

\* The run ends and the gate was asked.  The observation cannot be complete, as
\* no clock of the processor and no sampler of memory is given to
\* measure_recipe.
Observed(c) ==
  /\ Doing(c, "running")
  /\ \E status \in {"INCOMPLETE", "REJECTED", "CANCELLED"} :
       CloseThen(c, "save", Result(status, "OBSERVATION_MISSING"))
  /\ AuthorityKept /\ FilesKept /\ UNCHANGED <<entry, transport, told, troubles>>

\* The files of a command in the order in which they are saved: the artifact;
\* the data and the index of a bundle and its receipt; the document; the
\* observation and its receipt.
Parts(q) == CASE Program[q] = "bundle" -> 3 [] Program[q] = "measure" -> 2 [] OTHER -> 1

\* The result once everything is saved.
SavedResult(c) == IF Serves(c, "measure") THEN calling[c].result ELSE Done

\* The next file is stored; the last one tells the result.
Store(c) ==
  LET q == calling[c].command
      n == IF files[q] < Parts(q) THEN files[q] + 1 ELSE files[q]
  IN /\ files' = [files EXCEPT ![q] = n]
     /\ receipt' = [receipt EXCEPT ![q] = IF n = Parts(q) THEN SavedResult(c) ELSE @]
     /\ holder' = [holder EXCEPT ![Output[q]] = q]

Save(c) ==
  LET q == calling[c].command
  IN /\ Doing(c, "save") /\ holder[Output[q]] \in {"free", q}
     /\ Store(c)
     /\ IF files'[q] = Parts(q) THEN Conclude(c, "finish", SavedResult(c)) ELSE GoesOnAt(c, "save")
     /\ AuthorityKept /\ UNCHANGED <<entry, transport, told, troubles>>

\* Another document is at the output (write_document).
SaveConflicts(c) ==
  /\ Doing(c, "save") /\ holder[Output[calling[c].command]] \notin {"free", calling[c].command}
  /\ Conclude(c, "finish", Clash)
  /\ AuthorityKept /\ FilesKept /\ UNCHANGED <<entry, transport, told, troubles>>

\* A write fails, although the file may be there.  Pilots and measurements
\* make that their result, retention and bundles leave the command open.
SaveFails(c) ==
  /\ Doing(c, "save") /\ holder[Output[calling[c].command]] \in {"free", calling[c].command}
  /\ Trouble
  /\ Store(c) \/ FilesKept
  /\ CASE Serves(c, "retention") -> Leave(c, IoError)
       [] Serves(c, "bundle") -> Leave(c, Unknown)
       [] OTHER -> Conclude(c, "finish", IoError)
  /\ AuthorityKept /\ UNCHANGED <<entry, transport, told>>

\* A bundle or a measurement that was begun before: its last file tells the
\* result, and without it nothing is done again (_recover_measurement).
Recover(c) ==
  LET q == calling[c].command
  IN /\ Doing(c, "recover")
     /\ IF files[q] = Parts(q) THEN Conclude(c, "finish", receipt[q]) ELSE Leave(c, Unknown)
     /\ AuthorityKept /\ FilesKept /\ UNCHANGED <<entry, transport, told, troubles>>

CommandNext ==
  \/ \E c \in Callers :
       \/ \E q \in Jobs : Start(c, q)
       \/ BeginCreated(c) \/ BeginAgain(c) \/ BeginKnown(c) \/ Lock(c)
       \/ Finish(c) \/ FinishFails(c) \/ Close(c) \/ CloseFails(c) \/ Answer(c) \/ Die(c)
       \/ Accepted(c) \/ Denied(c) \/ Lost(c)
       \/ Collect(c) \/ Preflight(c) \/ Fresh(c) \/ BeginRun(c) \/ Observed(c)
       \/ Save(c) \/ SaveConflicts(c) \/ SaveFails(c) \/ Recover(c)
  \/ \E q \in Jobs : PerformLate(q)
  \/ ClimateChanges

CommandSpec == CommandInit /\ [][CommandNext]_commandVars

-----------------------------------------------------------------------------
(* What the callers may rely on.                                            *)

\* A command that is stored as completed left all its files, at an output that
\* is its own, and the authority performed what it asked for.
CompletedIsWhole ==
  \A q \in Jobs :
    entry[q] = Done =>
      /\ files[q] = Parts(q) /\ holder[Output[q]] = q
      /\ Program[q] \in {"retention", "pilot"} => effects[q] = 1

\* A retention request that is stored as refused was not performed and never
\* will be.
RefusalIsFinal ==
  \A q \in Jobs :
    Program[q] = "retention" /\ entry[q] = Refused => effects[q] = 0 /\ q \notin underway

\* A run is executed for at most one measurement, and once.
MeasuredOnce ==
  \A q \in Jobs :
    Program[q] = "measure" /\ effects[q] > 0 =>
      /\ effects[q] = 1
      /\ \A s \in Jobs \ {q} :
           Program[s] = "measure" /\ Output[s] = Output[q] => effects[s] = 0

\* What a caller was told for good; a measurement that finds another result in
\* the journal says REJECTED too.
Definite(q) ==
  {t \in told[q] : Program[q] = "measure" => t # Clash}

\* All callers of a command are told the same in the end.
OneAnswer ==
  \A q \in Jobs : \A t \in Definite(q) :
    /\ Definite(q) = {t}
    /\ t = Done => entry[q] = Done

\* What the commands of a workspace promise, whoever repeats them, dies or loses
\* an answer (operations_retention.execute, operations_bundle.create,
\* gah_pilot._journalled, gah_benchmark._run_measure).
CommandsHold == CompletedIsWhole /\ RefusalIsFinal /\ MeasuredOnce /\ OneAnswer
=============================================================================
