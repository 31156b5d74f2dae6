-------------------------- MODULE AuthorityRuntime --------------------------
(***************************************************************************)
(* The containers of one deployment of the authority, authority_runtime.py,*)
(* and the requests that are sent through them.                            *)
(*                                                                         *)
(* A program opens the deployment, sends requests through client           *)
(* containers and leaves; the lock of the deployment lets one program in   *)
(* at a time.  The tools that clean up take no lock.  A program may die at *)
(* any step.  A docker command that fails may have been performed, and a   *)
(* creation may be performed by the daemon later still.                    *)
(*                                                                         *)
(* _save reads deployment.json, adds the names the process knows and       *)
(* writes.  It is no compare-and-swap: what another process has written    *)
(* between the reading and the writing is overwritten.                     *)
(*                                                                         *)
(* Names are new for every client container.  A client container is fresh  *)
(* for each request, or reused (stopped between requests), or kept         *)
(* running; of the four identities one stands for all.                     *)
(***************************************************************************)
EXTENDS Naturals

CONSTANTS
  Programs,      \* the processes with an AuthorityRuntime
  ClientNames,   \* the names of client containers
  Broker,        \* the name of the container of the broker
  ClientCalls,   \* the requests
  NoName

ASSUME RuntimeAssumption ==
  /\ Broker \notin ClientNames
  /\ NoName \notin ClientNames \cup {Broker} \cup Programs \cup ClientCalls

VARIABLES
  deployed,    \* the names in deployment.json
  overwritten, \* history: the names a save took out of it that were written
               \* after the save had read it
  lockedBy,    \* operation_lock of the deployment
  program,     \* the AuthorityRuntime of each process
  box,         \* the containers, as the daemon knows them
  late,        \* creations the daemon may still perform
  carrying,    \* the requests a container has been given and not yet passed on
  answer,      \* the authority's last answer to a request
  performed,   \* how often the authority performed a request
  resolved      \* the requests whose callers know their outcome, or know that
               \* nothing more will come of them

runtimeVars ==
  <<deployed, overwritten, lockedBy, program, box, late, carrying, answer, performed, resolved>>
deploymentVars == <<deployed, overwritten>>
daemonVars == <<box, late, carrying>>
authorityVars == <<answer, performed>>

Names == ClientNames \cup {Broker}

\* The names that were written, whether or not they are still there.
Written == deployed \cup overwritten

\* mode: the options of __init__; known: state["containers"]; read: what _save
\* has read; kept: the client that is reused or running; name, call, attempt: of
\* the request under way.
Away ==
  [pc |-> "away", mode |-> "fresh", known |-> {}, read |-> {}, kept |-> NoName,
   name |-> NoName, call |-> NoName, attempt |-> 1, todo |-> {}]

RuntimeInit ==
  /\ deployed = {} /\ overwritten = {} /\ lockedBy = NoName
  /\ program = [p \in Programs |-> Away]
  /\ box = [n \in Names |-> "absent"] /\ late = {}
  /\ carrying = [n \in Names |-> {}]
  /\ answer = [c \in ClientCalls |-> "none"] /\ performed = [c \in ClientCalls |-> 0]
  /\ resolved = {}

-----------------------------------------------------------------------------
ProgramAt(p, pc) == program[p].pc = pc
Becomes(p, record) == program' = [program EXCEPT ![p] = record]
GoesTo(p, pc) == Becomes(p, [program[p] EXCEPT !.pc = pc])

Exclusive == UNCHANGED lockedBy
DeploymentRests == UNCHANGED deploymentVars
DaemonRests == UNCHANGED daemonVars
AuthorityRests == UNCHANGED authorityVars

-----------------------------------------------------------------------------
(* _save.                                                                   *)

\* Mutant of Merged: deployment.json is replaced and not merged.
MergedOwn(p, names) == program[p].known \cup names

\* What is on disk, what this process knows, and what it has just added.
Merged(p, names) == deployed \cup program[p].known \cup names

\* Names are added in memory and the file is read and merged; what cannot be read
\* ends the save.
BeginsSave(p, row, names, then, otherwise) ==
  \/ Becomes(p, [row EXCEPT !.pc = then, !.known = Merged(p, names), !.read = deployed])
  \/ Becomes(p, [row EXCEPT !.pc = otherwise, !.known = @ \cup names, !.todo = {}])

Saving == {"saveBroker", "saveClient", "saveNames"}

\* The file is replaced by the merged names, whatever it holds by now.
save_writes(p) ==
  /\ program[p].pc \in Saving
  /\ deployed' = program[p].known
  /\ overwritten' = (overwritten \cup (deployed \ program[p].read)) \ program[p].known
  /\ Becomes(p, [program[p] EXCEPT !.read = {},
                   !.pc = CASE @ = "saveBroker" -> "createBroker"
                            [] @ = "saveClient" -> "create"
                            [] @ = "saveNames" -> "clean"])
  /\ UNCHANGED resolved /\ Exclusive /\ DaemonRests /\ AuthorityRests

\* write_bounded refuses; the names stay in memory.
save_fails(p) ==
  /\ program[p].pc \in Saving
  /\ Becomes(p, [program[p] EXCEPT !.read = {}, !.todo = {},
                   !.pc = IF @ = "saveClient" THEN "discard" ELSE "idle"])
  /\ UNCHANGED resolved /\ DeploymentRests /\ Exclusive /\ DaemonRests /\ AuthorityRests

-----------------------------------------------------------------------------
\* __init__.  The cleaning tools do not wait for the lock.
open_deployment(p, mode) ==
  /\ ProgramAt(p, "away")
  /\ IF mode = "clean" THEN UNCHANGED lockedBy ELSE lockedBy = NoName /\ lockedBy' = p
  /\ Becomes(p, [Away EXCEPT !.pc = "idle", !.mode = mode, !.known = deployed])
  /\ UNCHANGED resolved /\ DeploymentRests /\ DaemonRests /\ AuthorityRests

\* prepare is called of a deployment without containers (setup_apply.apply), and no
\* second time by the program it failed for.
prepare(p) ==
  /\ ProgramAt(p, "idle") /\ program[p].mode # "clean" /\ program[p].known = {}
  /\ BeginsSave(p, program[p], {Broker}, "saveBroker", "idle")
  /\ UNCHANGED resolved /\ DeploymentRests /\ Exclusive /\ DaemonRests /\ AuthorityRests

\* The rest of prepare, up to the questions that follow; a broker that exists is
\* refused.
create_broker(p) ==
  /\ ProgramAt(p, "createBroker")
  /\ \/ /\ box[Broker] = "absent" /\ UNCHANGED late
        /\ \E reached \in {"created", "running"} : box' = [box EXCEPT ![Broker] = reached]
     \/ UNCHANGED box /\ late' \in {late, late \cup {Broker}}
  /\ GoesTo(p, "idle")
  /\ UNCHANGED <<carrying, resolved>> /\ DeploymentRests /\ Exclusive /\ AuthorityRests

\* restart_broker.
restart_broker(p) ==
  /\ ProgramAt(p, "idle") /\ program[p].mode # "clean"
  /\ box[Broker] # "absent"
  /\ box' = [box EXCEPT ![Broker] = "running"]
  /\ UNCHANGED <<program, late, carrying, resolved>> /\ DeploymentRests /\ Exclusive /\ AuthorityRests

-----------------------------------------------------------------------------
(* client, and _client_once in its three forms.                             *)

\* A request nothing was heard of so far.
Unsent ==
  {c \in ClientCalls : /\ answer[c] = "none" /\ c \notin resolved
                 /\ \A q \in Programs : program[q].call # c
                 /\ \A n \in Names : c \notin carrying[n]}

client(p) ==
  /\ ProgramAt(p, "idle") /\ program[p].mode # "clean" /\ Unsent # {}
  /\ Becomes(p, [program[p] EXCEPT !.pc = "take", !.attempt = 1,
                   !.call = CHOOSE c \in Unsent : TRUE])
  /\ UNCHANGED resolved /\ DeploymentRests /\ Exclusive /\ DaemonRests /\ AuthorityRests

take_kept(p) ==
  /\ ProgramAt(p, "take") /\ program[p].kept # NoName
  /\ Becomes(p, [program[p] EXCEPT !.pc = "send", !.name = program[p].kept])
  /\ UNCHANGED resolved /\ DeploymentRests /\ Exclusive /\ DaemonRests /\ AuthorityRests

\* uuid4: a name no container was ever given.
FreshNames ==
  ClientNames \ (Written \cup UNION {program[p].known : p \in Programs})

\* _create writes the name down before it asks for the container.  A client
\* that is to be kept running is entered before it exists.
take_fresh(p) ==
  LET n == CHOOSE name \in FreshNames : TRUE
      chosen == [program[p] EXCEPT !.name = n,
                   !.kept = IF program[p].mode = "keep" THEN n ELSE NoName]
  IN /\ ProgramAt(p, "take") /\ program[p].kept = NoName /\ FreshNames # {}
     /\ BeginsSave(p, chosen, {n}, "saveClient", "discard")
     /\ UNCHANGED resolved /\ DeploymentRests /\ Exclusive /\ DaemonRests /\ AuthorityRests

\* container create, and container start of one that is kept running.
create_client(p) ==
  /\ ProgramAt(p, "create")
  /\ box[program[p].name] = "absent"
  /\ box' = [box EXCEPT ![program[p].name] =
               IF program[p].mode = "keep" THEN "running" ELSE "created"]
  /\ Becomes(p, [program[p] EXCEPT !.pc = "send",
                   !.kept = IF program[p].mode = "fresh" THEN NoName ELSE program[p].name])
  /\ UNCHANGED <<late, carrying, resolved>> /\ DeploymentRests /\ Exclusive /\ AuthorityRests

\* The command fails or its answer is lost.
create_fails(p) ==
  /\ ProgramAt(p, "create")
  /\ \/ late' \in {late, late \cup {program[p].name}} /\ UNCHANGED box
     \/ /\ box[program[p].name] = "absent"
        /\ box' = [box EXCEPT ![program[p].name] = "created"] /\ UNCHANGED late
  /\ GoesTo(p, "discard")
  /\ UNCHANGED <<carrying, resolved>> /\ DeploymentRests /\ Exclusive /\ AuthorityRests

\* The state in which a client container takes a request.
Takes(p) ==
  box[program[p].name] \in IF program[p].mode = "keep" THEN {"running"} ELSE {"created", "exited"}

\* container start --attach, or container exec.
send_request(p) ==
  /\ ProgramAt(p, "send") /\ Takes(p)
  /\ box' = [box EXCEPT ![program[p].name] = "running"]
  /\ carrying' = [carrying EXCEPT ![program[p].name] = @ \cup {program[p].call}]
  /\ GoesTo(p, "await")
  /\ UNCHANGED <<late, resolved>> /\ DeploymentRests /\ Exclusive /\ AuthorityRests

\* A wrong state, a refused configuration, a timeout, an interrupt.
gives_up(p) ==
  /\ ProgramAt(p, "send") \/ ProgramAt(p, "await")
  /\ GoesTo(p, "discard")
  /\ UNCHANGED resolved /\ DeploymentRests /\ Exclusive /\ DaemonRests /\ AuthorityRests

Answered(p) == answer[program[p].call] # "none" /\ program[p].call \notin carrying[program[p].name]

\* Only a kept client goes on running, the same as before.
receive(p) ==
  /\ ProgramAt(p, "await") /\ Answered(p)
  /\ IF program[p].mode = "keep" THEN box[program[p].name] = "running" /\ UNCHANGED box
     ELSE box' = [box EXCEPT ![program[p].name] = "exited"]
  /\ GoesTo(p, IF program[p].mode = "fresh" THEN "drop" ELSE "decide")
  /\ UNCHANGED <<late, carrying, resolved>> /\ DeploymentRests /\ Exclusive /\ AuthorityRests

\* A request that was turned away because the clock went back was not performed.
RetryFor(p) == program[p].attempt = 1 /\ answer[program[p].call] = "rollback"

Ends(p) == Becomes(p, [program[p] EXCEPT !.pc = "idle", !.call = NoName, !.name = NoName])

\* _record_clock_rejection, whose failure ends the call, and the second attempt.
try_again(p) ==
  /\ ProgramAt(p, "decide") /\ RetryFor(p)
  /\ Becomes(p, [program[p] EXCEPT !.pc = "take", !.attempt = 2, !.name = NoName])
  /\ answer' = [answer EXCEPT ![program[p].call] = "none"]
  /\ UNCHANGED <<performed, resolved>> /\ DeploymentRests /\ Exclusive /\ DaemonRests

give_answer(p) ==
  /\ ProgramAt(p, "decide")
  /\ resolved' = resolved \cup {program[p].call}
  /\ Ends(p)
  /\ DeploymentRests /\ Exclusive /\ DaemonRests /\ AuthorityRests

-----------------------------------------------------------------------------
(* remove_container.                                                        *)

Emptied(n) == carrying' = [carrying EXCEPT ![n] = {}]

\* It is not there, or it is killed and removed and then not there.
Removal(n) ==
  /\ box' = [box EXCEPT ![n] = "absent"] /\ Emptied(n)
  /\ UNCHANGED late

\* STOP_UNCONFIRMED, CLEANUP_FAILED: any part of it may have happened.
RemovalFails(n) ==
  /\ \/ DaemonRests
     \/ box[n] # "absent" /\ box' = [box EXCEPT ![n] = "exited"] /\ Emptied(n) /\ UNCHANGED late
     \/ Removal(n)

\* The finally of a fresh client; an error there takes the place of the answer.
drop_fresh(p) ==
  /\ ProgramAt(p, "drop")
  /\ \/ Removal(program[p].name) /\ GoesTo(p, "decide")
     \/ RemovalFails(program[p].name) /\ Ends(p)
  /\ UNCHANGED resolved /\ DeploymentRests /\ Exclusive /\ AuthorityRests

\* After an error: a reused client is forgotten whatever comes of its removal,
\* one that is kept running only once it is removed.
discard(p) ==
  LET ended(kept) ==
        [program[p] EXCEPT !.pc = "idle", !.kept = kept, !.call = NoName, !.name = NoName]
  IN /\ ProgramAt(p, "discard")
     /\ \/ /\ Removal(program[p].name) /\ Becomes(p, ended(NoName))
           /\ resolved' = resolved \cup {program[p].call}
        \/ /\ RemovalFails(program[p].name) /\ UNCHANGED resolved
           /\ Becomes(p, ended(IF program[p].mode = "keep" THEN program[p].name ELSE NoName))
     /\ DeploymentRests /\ Exclusive /\ AuthorityRests

\* close_clients, and leaving the deployment.
close_clients(p) ==
  /\ ProgramAt(p, "idle")
  /\ IF program[p].kept = NoName THEN DaemonRests
     ELSE Removal(program[p].kept) \/ RemovalFails(program[p].kept)
  /\ Becomes(p, Away)
  /\ lockedBy' = IF lockedBy = p THEN NoName ELSE lockedBy
  /\ UNCHANGED resolved /\ DeploymentRests /\ AuthorityRests

\* cleanup reads what others have added; these names it will remove, container
\* after container.
cleanup(p) ==
  /\ ProgramAt(p, "idle") /\ program[p].mode = "clean"
  /\ Becomes(p, [program[p] EXCEPT !.pc = "refreshed", !.known = @ \cup deployed,
                                   !.todo = program[p].known \cup deployed])
  /\ UNCHANGED resolved /\ DeploymentRests /\ Exclusive /\ DaemonRests /\ AuthorityRests

\* Before that they are saved; _save reads the file again.
save_names(p) ==
  /\ ProgramAt(p, "refreshed")
  /\ BeginsSave(p, program[p], {}, "saveNames", "idle")
  /\ UNCHANGED resolved /\ DeploymentRests /\ Exclusive /\ DaemonRests /\ AuthorityRests

clean_one(p, n) ==
  /\ ProgramAt(p, "clean") /\ n \in program[p].todo
  /\ Removal(n) \/ RemovalFails(n)
  /\ Becomes(p, [program[p] EXCEPT !.todo = @ \ {n}])
  /\ UNCHANGED resolved /\ DeploymentRests /\ Exclusive /\ AuthorityRests

\* The first error of a removal, or what the listing of the rest says, is told.
cleaned(p) ==
  /\ ProgramAt(p, "clean") /\ program[p].todo = {}
  /\ GoesTo(p, "idle")
  /\ UNCHANGED resolved /\ DeploymentRests /\ Exclusive /\ DaemonRests /\ AuthorityRests

-----------------------------------------------------------------------------
\* The process is gone, its lock is free, its containers stay.
program_dies(p) ==
  /\ ~ProgramAt(p, "away")
  /\ Becomes(p, Away)
  /\ lockedBy' = IF lockedBy = p THEN NoName ELSE lockedBy
  /\ UNCHANGED resolved /\ DeploymentRests /\ DaemonRests /\ AuthorityRests

\* The daemon performs a creation whose command was given up, or loses it.
late_create(n) ==
  /\ n \in late /\ late' = late \ {n}
  /\ box' \in {box, [box EXCEPT ![n] = IF @ = "absent" THEN "created" ELSE @]}
  /\ UNCHANGED <<lockedBy, program, carrying, resolved>> /\ DeploymentRests /\ AuthorityRests

\* A container ends by itself.
box_ends(n) ==
  /\ box[n] = "running"
  /\ box' = [box EXCEPT ![n] = "exited"] /\ Emptied(n)
  /\ UNCHANGED <<lockedBy, program, late, resolved>> /\ DeploymentRests /\ AuthorityRests

\* The client in a container reaches the broker, which performs the request
\* or finds its clock behind and performs nothing.
pass_on(n, c) ==
  /\ box[n] = "running" /\ c \in carrying[n] /\ box[Broker] = "running"
  /\ carrying' = [carrying EXCEPT ![n] = @ \ {c}]
  /\ \/ answer' = [answer EXCEPT ![c] = "done"] /\ performed' = [performed EXCEPT ![c] = @ + 1]
     \/ answer' = [answer EXCEPT ![c] = "rollback"] /\ UNCHANGED performed
  /\ UNCHANGED <<lockedBy, program, box, late, resolved>> /\ DeploymentRests

RuntimeNext ==
  \/ \E p \in Programs :
       \/ \E mode \in {"fresh", "reuse", "keep", "clean"} : open_deployment(p, mode)
       \/ \E n \in Names : clean_one(p, n)
       \/ prepare(p) \/ restart_broker(p) \/ client(p) \/ take_fresh(p) \/ take_kept(p)
       \/ create_client(p) \/ create_fails(p) \/ send_request(p) \/ gives_up(p) \/ receive(p)
       \/ try_again(p) \/ give_answer(p) \/ drop_fresh(p) \/ discard(p) \/ close_clients(p)
       \/ cleanup(p) \/ cleaned(p) \/ program_dies(p)
       \/ save_writes(p) \/ save_fails(p) \/ create_broker(p) \/ save_names(p)
  \/ \E n \in Names : late_create(n) \/ box_ends(n) \/ \E c \in ClientCalls : pass_on(n, c)

RuntimeSpec == RuntimeInit /\ [][RuntimeNext]_runtimeVars

-----------------------------------------------------------------------------
(* Properties.                                                              *)

\* Whatever container exists or may still be created by a late command has had
\* its name in deployment.json before (_create), after every death of a program
\* and every failed save.  Only a save that had read the file before the name was
\* written can have taken it out again (_save).
NamesWrittenAhead ==
  \A n \in Names : box[n] # "absent" \/ n \in late => n \in Written

\* Of two programs with a save under way one cleans up: the others exclude each
\* other, as _save expects of its callers (operation_lock).
SavesExcluded ==
  \A p \in Programs : \A q \in Programs \ {p} :
    {program[p].pc, program[q].pc} \subseteq Saving =>
      "clean" \in {program[p].mode, program[q].mode}

\* One call has its request performed at most once, although it may be sent
\* twice, and when the caller has its answer or the confirmed removal of the
\* client, nothing of the request is under way any more (client, the finally
\* and except branches of _client_once).
SentOnce ==
  \A c \in ClientCalls :
    /\ performed[c] <= 1
    /\ c \in resolved => \A n \in Names : c \notin carrying[n]

\* A client that is kept belongs to one program and, if it is to be reused,
\* is at rest between requests (_reusable_clients, _running_clients).
KeptClientsRest ==
  \A p \in Programs : program[p].kept # NoName =>
    /\ \A q \in Programs \ {p} : program[q].kept # program[p].kept
    /\ program[p].mode = "reuse" /\ ProgramAt(p, "idle") =>
         box[program[p].kept] # "running" /\ carrying[program[p].kept] = {}

\* What the users of a deployment rely on.
RuntimeHolds == NamesWrittenAhead /\ SavesExcluded /\ SentOnce /\ KeptClientsRest
=============================================================================
