-------------------------- MODULE ExecutionJournal --------------------------
(***************************************************************************)
(* The dispatch journal of the Docker supervisor, execution_journal.py: one *)
(* row for each (run, operation), written in one SQLite transaction for    *)
(* each call.  A row remembers the request, the owner token, the container *)
(* and how far the execution went, and at last its receipt.                *)
(*                                                                         *)
(* A receipt is abstracted to what its validation looks at; the reason,    *)
(* the output and its disposition follow from its status.                  *)
(***************************************************************************)
EXTENDS Naturals

CONSTANTS
  Keys,         \* (run_id, operation_id)
  Requests,     \* request digests
  Tokens,       \* owner tokens
  Containers,   \* container identifiers
  None          \* the SQL NULL

VARIABLE journal    \* table executions

States == {"INTENT", "CREATED", "STARTING", "RUNNING", "STOPPED", "FINISHED"}
Statuses == {"COMPLETED", "FAILED", "TIMEOUT", "CANCELLED"}

\* _ADVANCE: the place of a state in the order.
Rank(s) ==
  CASE s = "INTENT"   -> 0 [] s = "CREATED" -> 1 [] s = "STARTING" -> 2
    [] s = "RUNNING"  -> 3 [] s = "STOPPED" -> 4 [] s = "FINISHED" -> 5

Receipt ==
  [status : Statuses, stopped : BOOLEAN, cleaned : BOOLEAN,
   verified : BOOLEAN, recovered : BOOLEAN,
   exit : {"zero", "other", "unknown"}, container : Containers \cup {None}]

\* The SQL NULL is no value of a column.
ASSUME NoneAssumption == None \notin Containers \cup Receipt

\* A key without a row has the state ABSENT.
Absent ==
  [state |-> "ABSENT", request |-> None, token |-> None, container |-> None,
   receipt |-> None]

Row ==
  [state : States, request : Requests, token : Tokens,
   container : Containers \cup {None}, receipt : Receipt \cup {None}]

Exists(row) == row.state # "ABSENT"

\* _validate_receipt: a success must be complete in every respect.
ValidReceipt(rc, container) ==
  /\ rc.container = container
  /\ rc.status = "COMPLETED" =>
       /\ rc.exit = "zero"
       /\ rc.container # None
       /\ rc.stopped /\ rc.cleaned /\ rc.verified
       /\ ~rc.recovered

\* _verify_row: what every read of a row checks before it is used.
Readable(row) ==
  /\ row \in Row
  /\ row.receipt # None => ValidReceipt(row.receipt, row.container)
  /\ (row.state = "FINISHED") <=> (row.receipt # None)

-----------------------------------------------------------------------------
JournalInit == journal = [k \in Keys |-> Absent]

NewRow(request, token) ==
  [state |-> "INTENT", request |-> request, token |-> token,
   container |-> None, receipt |-> None]

\* begin of an unknown operation records the intent to send it; of a known
\* one it only answers, and only the same request.
begin(k, request, token) ==
  /\ ~Exists(journal[k])
  /\ journal' = [journal EXCEPT ![k] = NewRow(request, token)]

\* One step ahead, or straight to STOPPED once there is a container.
Forward(from, to) ==
  \/ Rank(to) = Rank(from) + 1
  \/ to = "STOPPED" /\ from \in {"CREATED", "STARTING", "RUNNING"}

\* Mutant: a known container may be replaced by another one.
MayAdvanceOther(row, token, state, container) ==
  /\ Exists(row) /\ row.state # "FINISHED"
  /\ row.token = token
  /\ \/ row.state = state /\ row.container = container
     \/ Forward(row.state, state) /\ container # None

MayAdvance(row, token, state, container) ==
  /\ Exists(row) /\ row.state # "FINISHED"
  /\ row.token = token
  /\ \/ row.state = state /\ row.container = container
     \/ /\ Forward(row.state, state)
        /\ container # None
        /\ row.container \in {None, container}

Advanced(row, state, container) ==
  [row EXCEPT !.state = state, !.container = container]

advance(k, token, state, container) ==
  /\ state \in States \ {"FINISHED"}
  /\ MayAdvance(journal[k], token, state, container)
  /\ journal' = [journal EXCEPT ![k] = Advanced(@, state, container)]

\* A row with a container finishes only after its stop was recorded; a
\* repeated finish must bring the same receipt.
MayFinish(row, token, rc) ==
  /\ Exists(row)
  /\ row.token = token
  /\ ValidReceipt(rc, row.container)
  /\ rc.stopped /\ rc.cleaned
  /\ \/ row.state = "FINISHED" /\ row.receipt = rc
     \/ /\ row.state # "FINISHED"
        /\ row.container = None \/ row.state = "STOPPED"

Finished(row, rc) == [row EXCEPT !.state = "FINISHED", !.receipt = rc]

finish(k, token, rc) ==
  /\ MayFinish(journal[k], token, rc)
  /\ journal' = [journal EXCEPT ![k] = Finished(@, rc)]

\* pending: what a restarted supervisor finds to be recovered.
pending == {k \in Keys : Exists(journal[k]) /\ journal[k].state # "FINISHED"}

JournalNext ==
  \E k \in Keys, t \in Tokens :
    \/ \E q \in Requests : begin(k, q, t)
    \/ \E s \in States, c \in Containers \cup {None} : advance(k, t, s, c)
    \/ \E rc \in Receipt : finish(k, t, rc)

JournalSpec == JournalInit /\ [][JournalNext]_journal

-----------------------------------------------------------------------------
(* Properties.                                                             *)

\* Every row is one that the journal itself will read back: a row that fails
\* _verify_row would block its own recovery (STORAGE_CORRUPT) for good.
JournalReadable ==
  \A k \in Keys : journal[k] = Absent \/ Readable(journal[k])

\* Once written a row only moves forward: its request, token, and container
\* are fixed, a finished row never changes, and a row that names a container
\* is finished only from STOPPED.
OneWayStep ==
  \A k \in Keys : Exists(journal[k]) =>
    /\ Exists(journal'[k])
    /\ journal'[k].request = journal[k].request
    /\ journal'[k].token = journal[k].token
    /\ journal[k].container \in {None, journal'[k].container}
    /\ Rank(journal[k].state) <= Rank(journal'[k].state)
    /\ journal[k].state = "FINISHED" => journal'[k] = journal[k]
    /\ journal'[k].state = "FINISHED" /\ journal[k].state # "FINISHED" =>
         \/ journal[k].state = "STOPPED"
         \/ journal[k].state = "INTENT" /\ journal'[k].container = None
=============================================================================
