---------------------------- MODULE CommandProofs ----------------------------
(* Proofs about the journalled commands, for any number of callers, commands *)
(* and outputs: what a stored or told result says stays true whoever repeats  *)
(* a command, dies or loses an answer.                                        *)
EXTENDS CommandJournal, TLAPS

-----------------------------------------------------------------------------
(* The inductive invariant.                                                  *)

\* Results a command may end with.
Final ==
  [status : {"COMPLETED", "INCOMPLETE", "REJECTED", "CANCELLED"},
   reason : {"NONE", "OPERATION_UNKNOWN", "IO_ERROR", "RESULT_CONFLICT",
             "AUTHORITY_DENIED", "RUNTIME_UNAVAILABLE", "AUTHORITY_REQUIRED",
             "STOP_UNCONFIRMED", "OBSERVATION_MISSING", "BINDING_MISMATCH"}]

\* The places each program comes to.
PlacesOf(program) ==
  CASE program = "retention" -> {"lock", "begin", "call", "save", "finish", "close", "answer"}
    [] program = "bundle" ->
         {"lock", "begin", "collect", "save", "recover", "finish", "close", "answer"}
    [] program = "pilot" ->
         {"begin", "preflight", "lock", "call", "close", "save", "finish", "answer"}
    [] program = "import" -> {"begin", "save", "finish", "answer"}
    [] program = "measure" ->
         {"begin", "lock", "fresh", "run", "running", "close", "save", "recover", "finish",
          "answer"}

Places ==
  {"away", "lock", "begin", "call", "collect", "preflight", "fresh", "run", "running",
   "save", "recover", "finish", "close", "answer"}

Calling ==
  [at : Places, command : Jobs \cup {NoOne}, created : BOOLEAN,
   result : Final \cup {NoOne}, next : {"answer", "finish", "save"}]

TypeOK ==
  /\ entry \in [Jobs -> Final \cup {NotBegun, Begun}]
  /\ calling \in [Callers -> Calling]
  /\ transport \in Callers \cup {NoOne}
  /\ effects \in [Jobs -> Nat] /\ underway \subseteq Jobs
  /\ files \in [Jobs -> Nat]
  /\ holder \in [Paths -> Jobs \cup {"free", "foreign"}]
  /\ receipt \in [Jobs -> Final \cup {NoOne}]
  /\ told \in [Jobs -> SUBSET Final]

\* Where a process with the local state l holds the transport lock.
Holding(l) ==
  IF LockedThroughout(l.command) THEN l.at \notin {"away", "lock", "answer"}
  ELSE l.at \in {"call", "close", "fresh", "run", "running"}

\* Nothing was asked of the authority, or it cannot be performed any more.
Untouched(q) == effects[q] = 0 /\ q \notin underway

Asks(q) == Program[q] \in {"retention", "pilot"}

\* What a result COMPLETED says.
Whole(q) ==
  /\ files[q] = Parts(q) /\ holder[Output[q]] = q
  /\ Asks(q) => effects[q] = 1

\* A bundle that was refused before it collected anything: it stays begun, and
\* nobody gets to write it any more.
RefusedBundle(q) ==
  /\ Program[q] = "bundle" /\ entry[q] = Begun /\ files[q] # Parts(q)
  /\ \A c \in Callers :
       calling[c].command = q => calling[c].at \notin {"collect", "save", "finish"}

\* A result that may be told for good is the stored one, apart from the refusal of a
\* measurement that finds another result and the refusal of a bundle.
Tellable(q, t) ==
  \/ t.status = "INCOMPLETE"
  \/ t = entry[q] /\ entry[q] \in Final
  \/ Program[q] = "measure" /\ t = Clash
  \/ t = Refused /\ RefusedBundle(q)

\* A process keeps to the places of its program and holds the lock there.
PlaceOK(c, l) ==
  /\ l.command \in Jobs
  /\ l.created => Program[l.command] = "retention" /\ l.at \notin {"lock", "begin"}
  /\ l.at \in PlacesOf(Program[l.command])
  /\ Holding(l) => transport = c

\* Whether a process that closes its clients goes on there.
Closing(l, next) == l.at = "close" /\ l.next = next

\* The result a process works with.
ResultOK(l) ==
  /\ l.at \in {"finish", "answer"} \/ Closing(l, "answer") \/ Closing(l, "finish") =>
       l.result \in Final
  /\ Closing(l, "finish") => l.result # Done
  /\ l.at = "close" /\ LockedThroughout(l.command) => l.next = "answer"
  /\ Program[l.command] = "measure" /\ l.at \in {"save", "close"} => l.result \in Final

\* What a process relies on while it works on its command.
WorkOK(l) ==
  LET q == l.command
      saving == l.at = "save" \/ Closing(l, "save")
  IN
  /\ LockedThroughout(q) /\ l.at \in {"call", "collect", "save", "recover", "finish"} =>
       entry[q] = Begun
  /\ l.at = "call" /\ l.created => Untouched(q)
  /\ l.at = "finish" /\ Program[q] = "retention" /\ l.result = Refused => Untouched(q)
  /\ l.at = "finish" /\ l.result = Done => Whole(q)
  /\ Asks(q) /\ saving => effects[q] = 1
  /\ l.at = "collect" => files[q] = 0
  /\ l.at = "run" => holder[Output[q]] = "free"
  /\ Program[q] = "measure" /\ (saving \/ l.at = "running") => holder[Output[q]] = q
  /\ l.at = "answer" \/ Closing(l, "answer") => Tellable(q, l.result)

StateOK(c, l) == l.at # "away" => PlaceOK(c, l) /\ ResultOK(l) /\ WorkOK(l)

CallerOK(c) == StateOK(c, calling[c])

\* What is stored about a command.
JobOK(q) ==
  /\ entry[q] = Done => Whole(q)
  /\ files[q] = Parts(q) => receipt[q] \in Final /\ (receipt[q] = Done => Whole(q))
  /\ q \in underway => Asks(q)
  /\ Program[q] = "retention" /\ entry[q] = Refused => Untouched(q)
  /\ LockedThroughout(q) /\ entry[q] = NotBegun => Untouched(q) /\ files[q] = 0
  /\ Program[q] = "measure" /\ effects[q] # 0 => effects[q] = 1 /\ holder[Output[q]] = q
  /\ \A t \in told[q] : Tellable(q, t) /\ t.status # "INCOMPLETE"

Inv == (\A c \in Callers : CallerOK(c)) /\ (\A q \in Jobs : JobOK(q))

-----------------------------------------------------------------------------
(* Moves of one process.                                                     *)

\* The process c gets this local state.
Moves(c, at, q, created, r, next) ==
  \E l \in Calling :
    /\ calling' = [calling EXCEPT ![c] = l]
    /\ l.at = at /\ l.command = q /\ l.created = created /\ l.result = r /\ l.next = next

LEMMA GoesMove ==
  ASSUME TypeOK, NEW c \in Callers, NEW pl \in Places, GoesOnAt(c, pl)
  PROVE  Moves(c, pl, calling[c].command, calling[c].created, calling[c].result, calling[c].next)
<1> DEFINE l == calling[c]
           m == [l EXCEPT !.at = pl]
<1>1. l \in Calling
  BY DEF TypeOK
<1>2. m \in Calling
  BY <1>1 DEF Calling, Places
<1>3. calling' = [calling EXCEPT ![c] = m]
  BY <1>1 DEF GoesOnAt, TypeOK, Calling
<1>4. /\ m.at = pl /\ m.command = l.command /\ m.created = l.created
      /\ m.result = calling[c].result /\ m.next = calling[c].next
  BY <1>1 DEF Calling
<1> HIDE DEF m
<1> QED
  BY <1>2, <1>3, <1>4 DEF Moves

LEMMA ConcludeMove ==
  ASSUME TypeOK, NEW c \in Callers, NEW pl \in Places, NEW r \in Final \cup {NoOne}, Conclude(c, pl, r)
  PROVE  Moves(c, pl, calling[c].command, calling[c].created, r, calling[c].next)
<1> DEFINE l == calling[c]
           m == [l EXCEPT !.at = pl, !.result = r]
<1>1. l \in Calling
  BY DEF TypeOK
<1>2. m \in Calling
  BY <1>1 DEF Calling, Places
<1>3. calling' = [calling EXCEPT ![c] = m]
  BY <1>1 DEF Conclude, TypeOK, Calling
<1>4. /\ m.at = pl /\ m.command = l.command /\ m.created = l.created
      /\ m.result = r /\ m.next = calling[c].next
  BY <1>1 DEF Calling
<1> HIDE DEF m
<1> QED
  BY <1>2, <1>3, <1>4 DEF Moves

LEMMA CloseMove ==
  ASSUME TypeOK, NEW c \in Callers, NEW n \in {"answer", "finish", "save"}, NEW r \in Final \cup {NoOne}, CloseThen(c, n, r)
  PROVE  Moves(c, "close", calling[c].command, calling[c].created, r, n)
<1> DEFINE l == calling[c]
           m == [l EXCEPT !.at = "close", !.next = n, !.result = r]
<1>1. l \in Calling
  BY DEF TypeOK
<1>2. m \in Calling
  BY <1>1 DEF Calling, Places
<1>3. calling' = [calling EXCEPT ![c] = m]
  BY <1>1 DEF CloseThen, TypeOK, Calling
<1>4. /\ m.at = "close" /\ m.command = l.command /\ m.created = l.created
      /\ m.result = r /\ m.next = n
  BY <1>1 DEF Calling
<1> HIDE DEF m
<1> QED
  BY <1>2, <1>3, <1>4 DEF Moves

LEMMA AwayMove ==
  ASSUME TypeOK, NEW c \in Callers, calling' = [calling EXCEPT ![c] = Away]
  PROVE  Moves(c, "away", NoOne, FALSE, NoOne, "answer")
<1>1. Away \in Calling
  BY DEF Away, Calling, Places
<1> QED
  BY <1>1 DEF Away, Moves

LEMMA LeaveMove ==
  ASSUME TypeOK, NEW c \in Callers, NEW r \in Final, Leave(c, r)
  PROVE  /\ LockedThroughout(calling[c].command) =>
              Moves(c, "close", calling[c].command, calling[c].created, r, "answer")
         /\ ~LockedThroughout(calling[c].command) =>
              Moves(c, "answer", calling[c].command, calling[c].created, r, calling[c].next)
<1>1. "answer" \in Places
  BY DEF Places
<1> QED
  BY <1>1, ConcludeMove, CloseMove DEF Leave

\* What a process does never undoes what the others rely on.
Steady(c) ==
  /\ transport' = transport \/ transport \in {c, NoOne}
  /\ \A q \in Jobs :
       \/ entry'[q] = entry[q]
       \/ entry[q] = NotBegun /\ entry'[q] = Begun
       \/ entry[q] = Begun /\ entry'[q] \in Final
  /\ \A q \in Jobs : LockedThroughout(q) /\ transport # c =>
       /\ entry'[q] = entry[q] /\ files'[q] = files[q]
       /\ Untouched(q) => Untouched(q)'
  /\ \A q \in Jobs : Asks(q) /\ effects[q] = 1 => effects'[q] = 1
  /\ \A q \in Jobs : Whole(q) => Whole(q)'
  /\ \A q \in Jobs :
       /\ holder[Output[q]] = q => holder'[Output[q]] = q
       /\ Program[q] = "measure" /\ holder[Output[q]] = "free" /\ transport # c =>
            holder'[Output[q]] = "free"
  /\ \A q \in Jobs : RefusedBundle(q) => RefusedBundle(q)'

\* What was told stays tellable.
LEMMA TellableStays ==
  ASSUME NEW c, Steady(c), NEW q \in Jobs, NEW t \in Final, Tellable(q, t)
  PROVE  Tellable(q, t)'
<1>1. \A x \in Final : x # NotBegun /\ x # Begun
  BY DEF Final, NotBegun, Begun, Result
<1> QED
  BY <1>1 DEF Steady, Tellable

LEMMA OthersKeep ==
  ASSUME TypeOK, Inv, NEW c, Steady(c),
         NEW x \in Callers, x # c, calling'[x] = calling[x]
  PROVE  CallerOK(x)'
<1>1. PICK l \in Calling : l = calling[x] /\ l = calling'[x]
  BY DEF TypeOK
<1> SUFFICES ASSUME l.at # "away" PROVE StateOK(x, l)'
  BY <1>1 DEF CallerOK, StateOK
<1>2. PlaceOK(x, l) /\ ResultOK(l) /\ WorkOK(l)
  BY <1>1 DEF Inv, CallerOK, StateOK
<1>3. PICK q \in Jobs : q = l.command
  BY <1>2 DEF PlaceOK
<1>4. Holding(l) => transport = x /\ transport' = x /\ transport # c
  BY <1>2, CommandAssumption DEF PlaceOK, Steady
<1>5. PlaceOK(x, l)'
  BY <1>2, <1>4 DEF PlaceOK
<1>6. ResultOK(l)'
  BY <1>2 DEF ResultOK
<1>7. l.at \in {"call", "collect", "run"} => transport # c
  BY <1>2, <1>4, CommandAssumption DEF PlaceOK, Holding, PlacesOf, LockedThroughout, Programs
<1>8. LockedThroughout(q) /\ l.at \in {"call", "collect", "save", "recover", "finish"} =>
        transport # c
  BY <1>3, <1>4 DEF Holding
<1>9. WorkOK(l)'
  <2>1. LockedThroughout(q) /\ l.at \in {"call", "collect", "save", "recover", "finish"} =>
          entry'[q] = Begun
    BY <1>2, <1>3, <1>8 DEF WorkOK, Steady
  <2>2. l.at = "call" /\ l.created => Untouched(q)'
    <3>1. l.created => LockedThroughout(q)
      BY <1>2, <1>3 DEF PlaceOK, LockedThroughout
    <3> QED
      BY <1>2, <1>3, <1>7, <3>1 DEF WorkOK, Steady
  <2>3. l.at = "finish" /\ Program[q] = "retention" /\ l.result = Refused => Untouched(q)'
    BY <1>2, <1>3, <1>8 DEF WorkOK, Steady, LockedThroughout
  <2>4. l.at = "finish" /\ l.result = Done => Whole(q)'
    BY <1>2, <1>3 DEF WorkOK, Steady
  <2>5. Asks(q) /\ (l.at = "save" \/ Closing(l, "save")) => effects'[q] = 1
    BY <1>2, <1>3 DEF WorkOK, Steady
  <2>6. l.at = "collect" => files'[q] = 0
    <3>1. l.at = "collect" => LockedThroughout(q)
      BY <1>2, <1>3, CommandAssumption DEF PlaceOK, PlacesOf, LockedThroughout, Programs
    <3> QED
      BY <1>2, <1>3, <1>7, <3>1 DEF WorkOK, Steady
  <2>7. l.at = "run" => holder'[Output[q]] = "free"
    <3>1. l.at = "run" => Program[q] = "measure"
      BY <1>2, <1>3, CommandAssumption DEF PlaceOK, PlacesOf, Programs
    <3> QED
      BY <1>2, <1>3, <1>7, <3>1 DEF WorkOK, Steady
  <2>8. Program[q] = "measure" /\ (l.at \in {"save", "running"} \/ Closing(l, "save")) =>
          holder'[Output[q]] = q
    BY <1>2, <1>3 DEF WorkOK, Steady
  <2>9. l.at = "answer" \/ Closing(l, "answer") => Tellable(q, l.result)'
    <3>1. l.at = "answer" \/ Closing(l, "answer") => Tellable(q, l.result) /\ l.result \in Final
      BY <1>2, <1>3 DEF WorkOK, ResultOK
    <3> QED
      BY <1>3, <3>1, TellableStays
  <2> QED
    BY <1>3, <2>1, <2>2, <2>3, <2>4, <2>5, <2>6, <2>7, <2>8, <2>9 DEF WorkOK
<1> QED
  BY <1>5, <1>6, <1>9 DEF StateOK

LEMMA Combine ==
  ASSUME TypeOK, Inv, NEW c \in Callers, \A x \in Callers \ {c} : calling'[x] = calling[x],
         Steady(c), CallerOK(c)', \A q \in Jobs : JobOK(q)'
  PROVE  Inv'
  BY OthersKeep DEF Inv

\* A step that changes nothing about any command: what is stored stays right.
LEMMA QuietStep ==
  ASSUME TypeOK, Inv, NEW c \in Callers, NEW l \in Calling,
         calling' = [calling EXCEPT ![c] = l],
         UNCHANGED <<entry, effects, underway, files, holder, receipt, told>>,
         transport' = transport \/ (transport \in {c, NoOne} /\ transport' \in {c, NoOne}),
         l.command \in Jobs /\ l.at \in {"collect", "save", "finish"} =>
           ~RefusedBundle(l.command),
         l.at # "away" => PlaceOK(c, l)' /\ ResultOK(l) /\ WorkOK(l)
  PROVE  TypeOK' /\ Inv'
<1>1. /\ calling'[c] = l
      /\ \A x \in Callers \ {c} : calling'[x] = calling[x]
  BY DEF TypeOK
<1>2. \A q \in Jobs : RefusedBundle(q) => RefusedBundle(q)'
  BY <1>1 DEF RefusedBundle
<1>3. \A q \in Jobs : Whole(q) <=> Whole(q)'
  BY DEF Whole
<1>4. \A q \in Jobs : Untouched(q) <=> Untouched(q)'
  BY DEF Untouched
<1>5. Steady(c)
  BY <1>2, <1>3, <1>4 DEF Steady
<1>6. ASSUME NEW q \in Jobs PROVE JobOK(q)'
  <2>1. JobOK(q) /\ told[q] \subseteq Final
    BY DEF Inv, TypeOK
  <2>2. \A t \in told'[q] : Tellable(q, t)' /\ t.status # "INCOMPLETE"
    BY <1>5, <2>1, TellableStays DEF JobOK
  <2> QED
    BY <1>3, <1>4, <2>1, <2>2 DEF JobOK
<1>7. StateOK(c, l)'
  <2> SUFFICES ASSUME l.at # "away" PROVE StateOK(c, l)'
    BY DEF StateOK
  <2>1. PICK q \in Jobs : q = l.command
    BY DEF PlaceOK
  <2>2. l.at = "answer" \/ Closing(l, "answer") => Tellable(q, l.result)'
    BY <1>5, <2>1, TellableStays DEF ResultOK, WorkOK
  <2>3. WorkOK(l)'
    BY <1>3, <1>4, <2>1, <2>2 DEF WorkOK
  <2> QED
    BY <2>3 DEF StateOK, ResultOK
<1>8. Inv'
  BY <1>1, <1>5, <1>6, <1>7, Combine DEF CallerOK
<1>9. TypeOK'
  BY DEF TypeOK
<1> QED
  BY <1>8, <1>9

\* A process at work.
LEMMA Working ==
  ASSUME TypeOK, Inv, NEW c \in Callers, ~Doing(c, "away")
  PROVE  /\ calling[c] \in Calling /\ calling[c].command \in Jobs
         /\ Program[calling[c].command] \in Programs
         /\ PlaceOK(c, calling[c]) /\ ResultOK(calling[c]) /\ WorkOK(calling[c])
  BY CommandAssumption DEF TypeOK, Inv, CallerOK, StateOK, PlaceOK, Doing

\* A process that has an answer it may tell leaves.
LEMMA LeaveStep ==
  ASSUME TypeOK, Inv, NEW c \in Callers, ~Doing(c, "away"), ~Doing(c, "lock"),
         ~Doing(c, "answer"), NEW r \in Final, Leave(c, r),
         UNCHANGED <<entry, transport, effects, underway, files, holder, receipt, told>>,
         Tellable(calling[c].command, r)
  PROVE  TypeOK' /\ Inv'
<1> DEFINE m == calling[c]
<1>1. /\ m \in Calling /\ m.command \in Jobs /\ Program[m.command] \in Programs
      /\ PlaceOK(c, m)
  BY Working
<1>2. CASE LockedThroughout(m.command)
  <2>1. PICK l \in Calling :
          /\ calling' = [calling EXCEPT ![c] = l]
          /\ l.at = "close" /\ l.command = m.command /\ l.created = m.created
          /\ l.result = r /\ l.next = "answer"
    BY <1>2, LeaveMove DEF Moves
  <2>2. transport = c
    BY <1>1, <1>2 DEF PlaceOK, Holding, Doing
  <2>3. PlaceOK(c, l)'
    BY <1>1, <1>2, <2>1, <2>2 DEF PlaceOK, PlacesOf, LockedThroughout
  <2>4. ResultOK(l) /\ WorkOK(l)
    BY <1>2, <2>1 DEF ResultOK, WorkOK, Closing, LockedThroughout
  <2> QED
    BY <2>1, <2>3, <2>4, QuietStep
<1>3. CASE ~LockedThroughout(m.command)
  <2>1. PICK l \in Calling :
          /\ calling' = [calling EXCEPT ![c] = l]
          /\ l.at = "answer" /\ l.command = m.command /\ l.created = m.created
          /\ l.result = r
    BY <1>3, LeaveMove DEF Moves
  <2>2. PlaceOK(c, l)'
    BY <1>1, <1>3, <2>1 DEF PlaceOK, PlacesOf, Programs, Holding
  <2>3. ResultOK(l) /\ WorkOK(l)
    BY <2>1 DEF ResultOK, WorkOK, Closing
  <2> QED
    BY <2>1, <2>2, <2>3, QuietStep
<1> QED
  BY <1>2, <1>3

\* Steps that change nothing about any command: the moves between the journal, the
\* lock and the programs, refusals and failures.
QuietNext(c) ==
  \/ \E q \in Jobs : Start(c, q)
  \/ BeginAgain(c) \/ BeginKnown(c) \/ Lock(c) \/ FinishFails(c) \/ Close(c)
  \/ CloseFails(c) \/ Die(c) \/ Denied(c) \/ Preflight(c) \/ Fresh(c) \/ Observed(c)
  \/ SaveConflicts(c) \/ Recover(c)

LEMMA QuietInv ==
  ASSUME TypeOK, Inv, NEW c \in Callers, QuietNext(c)
  PROVE  TypeOK' /\ Inv'
<1> DEFINE m == calling[c]
<1>0. UNCHANGED <<entry, effects, underway, files, holder, receipt, told>>
  BY DEF QuietNext, Start, BeginAgain, BeginKnown, Lock, FinishFails, Close, CloseFails, Die,
     Denied, Preflight, Fresh, Observed, SaveConflicts, Recover, AuthorityKept, FilesKept
<1>1. ~Doing(c, "away") =>
        /\ m \in Calling /\ m.command \in Jobs /\ Program[m.command] \in Programs
        /\ PlaceOK(c, m) /\ ResultOK(m) /\ WorkOK(m)
  BY Working
<1>2. \A r \in Final : r # NotBegun /\ r # Begun
  BY DEF Final, NotBegun, Begun, Result
<1>3. /\ {Done, Unknown, IoError, Clash, Refused, Unavailable} \subseteq Final
      /\ Result("INCOMPLETE", "AUTHORITY_REQUIRED") \in Final
      /\ Result("INCOMPLETE", "STOP_UNCONFIRMED") \in Final
      /\ Result("REJECTED", "BINDING_MISMATCH") \in Final
      /\ \A s \in {"INCOMPLETE", "REJECTED", "CANCELLED"} : Result(s, "OBSERVATION_MISSING") \in Final
  BY DEF Final, Done, Unknown, IoError, Clash, Refused, Unavailable, Result
<1>4. CASE \E q \in Jobs : Start(c, q)
  <2>1. PICK q \in Jobs : Start(c, q)
    BY <1>4
  <2>2. PICK l \in Calling :
          /\ calling' = [calling EXCEPT ![c] = l]
          /\ l.at = (IF LockedThroughout(q) THEN "lock" ELSE "begin")
          /\ l.command = q /\ ~l.created
    <3> DEFINE l == [Away EXCEPT !.at = IF LockedThroughout(q) THEN "lock" ELSE "begin",
                                 !.command = q]
    <3>1. /\ l \in Calling /\ l.command = q /\ ~l.created
          /\ l.at = (IF LockedThroughout(q) THEN "lock" ELSE "begin")
      BY DEF Away, Calling, Places
    <3> HIDE DEF l
    <3> QED
      BY <2>1, <3>1 DEF Start, l
  <2>3. Program[q] \in Programs
    BY CommandAssumption
  <2>4. PlaceOK(c, l)'
    BY <2>2, <2>3 DEF PlaceOK, PlacesOf, Programs, Holding, LockedThroughout
  <2>5. ResultOK(l) /\ WorkOK(l)
    BY <2>2 DEF ResultOK, WorkOK, Closing
  <2>6. UNCHANGED transport
    BY <2>1 DEF Start
  <2> QED
    BY <1>0, <2>2, <2>4, <2>5, <2>6, QuietStep
<1>5. CASE BeginAgain(c)
  <2> DEFINE pl == IF Program[m.command] \in {"bundle", "measure"} THEN "recover"
                   ELSE FirstPlace(m.command)
  <2>1. ~Doing(c, "away") /\ entry[m.command] = Begun /\ m.at = "begin" /\ GoesOnAt(c, pl)
        /\ UNCHANGED transport
    BY <1>5 DEF BeginAgain, Doing
  <2>2. /\ Program[m.command] = "retention" => pl = "call"
        /\ Program[m.command] = "pilot" => pl = "preflight"
        /\ Program[m.command] = "import" => pl = "save"
        /\ Program[m.command] \in {"bundle", "measure"} => pl = "recover"
    BY DEF FirstPlace
  <2>3. pl \in Places
    BY <1>1, <2>1, <2>2 DEF Places, Programs
  <2>4. PICK l \in Calling :
          /\ calling' = [calling EXCEPT ![c] = l]
          /\ l.at = pl /\ l.command = m.command /\ l.created = m.created
    BY <2>1, <2>3, GoesMove DEF Moves
  <2> HIDE DEF pl
  <2>5. PlaceOK(c, l)'
    BY <1>1, <2>1, <2>2, <2>4 DEF PlaceOK, PlacesOf, Programs, Holding, LockedThroughout
  <2>6. ResultOK(l)
    BY <1>1, <2>1, <2>2, <2>4 DEF ResultOK, Closing, Programs
  <2>7. WorkOK(l)
    BY <1>1, <2>1, <2>2, <2>4 DEF WorkOK, Closing, Programs, Asks, PlaceOK
  <2>8. l.at \in {"collect", "save", "finish"} => ~RefusedBundle(l.command)
    BY <1>1, <2>2, <2>4 DEF RefusedBundle, Programs
  <2> QED
    BY <1>0, <2>1, <2>4, <2>5, <2>6, <2>7, <2>8, QuietStep
<1>6. CASE BeginKnown(c)
  <2>1. /\ ~Doing(c, "away") /\ ~Doing(c, "lock") /\ ~Doing(c, "answer")
        /\ entry[m.command] \notin {NotBegun, Begun} /\ Leave(c, entry[m.command])
        /\ UNCHANGED transport
    BY <1>6 DEF BeginKnown, Doing
  <2>2. entry[m.command] \in Final
    BY <1>1, <2>1 DEF TypeOK
  <2> QED
    BY <1>0, <2>1, <2>2, LeaveStep DEF Tellable
<1>7. CASE FinishFails(c)
  <2>1. /\ ~Doing(c, "away") /\ ~Doing(c, "lock") /\ ~Doing(c, "answer") /\ Leave(c, IoError)
        /\ UNCHANGED transport
    BY <1>7 DEF FinishFails, Doing
  <2> QED
    BY <1>0, <1>3, <2>1, LeaveStep DEF Tellable, IoError, Result
<1>8. CASE Lock(c)
  <2>1. ~Doing(c, "away") /\ m.at = "lock"
    BY <1>8 DEF Lock, Doing
  <2>2. Program[m.command] \in {"retention", "bundle", "pilot", "measure"} /\ ~m.created
    BY <1>1, <2>1 DEF PlaceOK, PlacesOf, Programs
  <2>3. CASE transport = NoOne /\ transport' = c
    <3> DEFINE pl == CASE LockedThroughout(m.command) -> "begin"
                       [] Program[m.command] = "pilot" -> "call"
                       [] Program[m.command] = "measure" -> "fresh"
    <3>1. GoesOnAt(c, pl)
      BY <1>8, <2>3, CommandAssumption DEF Lock
    <3>2. /\ LockedThroughout(m.command) => pl = "begin"
          /\ Program[m.command] = "pilot" => pl = "call"
          /\ Program[m.command] = "measure" => pl = "fresh"
      BY DEF LockedThroughout
    <3>3. pl \in Places
      BY <2>2, <3>2 DEF Places, LockedThroughout
    <3> HIDE DEF pl
    <3>4. PICK l \in Calling :
            /\ calling' = [calling EXCEPT ![c] = l]
            /\ l.at = pl /\ l.command = m.command /\ l.created = m.created
      BY <3>1, <3>3, GoesMove DEF Moves
    <3>5. PlaceOK(c, l)'
      BY <1>1, <2>1, <2>2, <2>3, <3>2, <3>4 DEF PlaceOK, PlacesOf, Holding, LockedThroughout
    <3>6. ResultOK(l) /\ WorkOK(l)
      BY <2>2, <3>2, <3>4 DEF ResultOK, WorkOK, Closing, LockedThroughout
    <3>7. l.at \notin {"collect", "save", "finish"}
      BY <2>2, <3>2, <3>4 DEF LockedThroughout
    <3> QED
      BY <1>0, <2>3, <3>4, <3>5, <3>6, <3>7, QuietStep
  <2>4. CASE NotOpened(c) /\ UNCHANGED transport
    <3>1. PICK r \in Final :
            /\ r.status = "INCOMPLETE"
            /\ \/ LockedThroughout(m.command) /\ Conclude(c, "answer", r)
               \/ Program[m.command] \in {"pilot", "measure"} /\ Conclude(c, "finish", r)
      <4>1. CASE Program[m.command] = "retention"
        BY <1>3, <2>4, <4>1 DEF NotOpened, Serves, LockedThroughout, Result
      <4>2. CASE Program[m.command] = "bundle"
        BY <1>3, <2>4, <4>2 DEF NotOpened, Serves, LockedThroughout, Result, Unknown
      <4>3. CASE Program[m.command] = "pilot"
        BY <1>3, <2>4, <4>3 DEF NotOpened, Serves, Result, IoError
      <4>4. CASE Program[m.command] = "measure"
        BY <1>3, <2>4, <4>4 DEF NotOpened, Serves, Result, Unavailable
      <4> QED
        BY <2>2, <4>1, <4>2, <4>3, <4>4
    <3>2. PICK l \in Calling :
            /\ calling' = [calling EXCEPT ![c] = l]
            /\ l.command = m.command /\ l.created = m.created /\ l.result = r
            /\ \/ LockedThroughout(m.command) /\ l.at = "answer"
               \/ Program[m.command] \in {"pilot", "measure"} /\ l.at = "finish"
      <4>1. {"answer", "finish"} \subseteq Places
        BY DEF Places
      <4> QED
        BY <3>1, <4>1, ConcludeMove DEF Moves
    <3>3. PlaceOK(c, l)'
      BY <1>1, <2>1, <2>2, <3>2 DEF PlaceOK, PlacesOf, Holding, LockedThroughout
    <3>4. ResultOK(l) /\ WorkOK(l)
      BY <3>1, <3>2 DEF ResultOK, WorkOK, Closing, LockedThroughout, Tellable, Done, Result
    <3>5. l.at \in {"collect", "save", "finish"} => ~RefusedBundle(l.command)
      BY <3>2 DEF RefusedBundle
    <3> QED
      BY <1>0, <2>4, <3>2, <3>3, <3>4, <3>5, QuietStep
  <2> QED
    BY <1>8, <2>3, <2>4 DEF Lock
<1>9. CASE Close(c)
  <2>1. /\ ~Doing(c, "away") /\ m.at = "close" /\ transport' = NoOne
        /\ GoesOnAt(c, m.next)
    BY <1>9 DEF Close, Doing
  <2>2. transport = c /\ Program[m.command] # "import"
    BY <1>1, <2>1 DEF PlaceOK, PlacesOf, Holding
  <2>3. m.next \in {"answer", "finish", "save"} /\ m.next \in Places
    BY <1>1, <2>1 DEF Calling, Places
  <2>4. PICK l \in Calling :
          /\ calling' = [calling EXCEPT ![c] = l]
          /\ l.at = m.next /\ l.command = m.command /\ l.created = m.created
          /\ l.result = m.result
    BY <2>1, <2>3, GoesMove DEF Moves
  <2>5. LockedThroughout(m.command) => m.next = "answer"
    BY <1>1, <2>1 DEF ResultOK
  <2>6. PlaceOK(c, l)'
    BY <1>1, <2>1, <2>2, <2>3, <2>4, <2>5
    DEF PlaceOK, PlacesOf, Holding, LockedThroughout, Programs
  <2>7. ResultOK(l)
    BY <1>1, <2>1, <2>3, <2>4 DEF ResultOK, Closing
  <2>8. WorkOK(l)
    BY <1>1, <2>1, <2>3, <2>4, <2>5 DEF WorkOK, ResultOK, Closing, LockedThroughout
  <2>9. l.at \in {"collect", "save", "finish"} => ~RefusedBundle(l.command)
    BY <2>3, <2>4, <2>5 DEF RefusedBundle, LockedThroughout
  <2> QED
    BY <1>0, <2>1, <2>2, <2>4, <2>6, <2>7, <2>8, <2>9, QuietStep
<1>10. CASE CloseFails(c)
  <2>1. ~Doing(c, "away") /\ m.at = "close" /\ transport' = NoOne
    BY <1>10 DEF CloseFails, Doing
  <2>2. transport = c /\ Program[m.command] # "import"
    BY <1>1, <2>1 DEF PlaceOK, PlacesOf, Holding
  <2>3. m.next \in {"answer", "finish", "save"} /\ m.next \in Places
    BY <1>1, <2>1 DEF Calling, Places
  <2>4. PICK l \in Calling :
          /\ calling' = [calling EXCEPT ![c] = l]
          /\ l.command = m.command /\ l.created = m.created
          /\ \/ l.at = "answer" /\ l.result \in Final /\ l.result.status = "INCOMPLETE"
             \/ /\ Program[m.command] = "measure" /\ m.next = "save"
                /\ l.at = "save" /\ l.result = Unavailable
             \/ /\ Program[m.command] = "measure" /\ m.next # "save"
                /\ l.at = m.next /\ l.result = m.result
    <3>1. {"answer", "save"} \subseteq Places
      BY DEF Places
    <3>2. CASE LockedThroughout(m.command)
      <4>1. Conclude(c, "answer", Result("INCOMPLETE", "STOP_UNCONFIRMED"))
        BY <1>10, <3>2 DEF CloseFails, LockedThroughout, Serves
      <4> QED
        BY <1>3, <3>1, <4>1, ConcludeMove DEF Moves, Result
    <3>3. CASE Program[m.command] = "pilot"
      <4>1. Conclude(c, "answer", Unavailable)
        BY <1>10, <3>3 DEF CloseFails, LockedThroughout, Serves
      <4> QED
        BY <1>3, <3>1, <4>1, ConcludeMove DEF Moves, Unavailable, Result
    <3>4. CASE Program[m.command] = "measure" /\ m.next = "save"
      <4>1. Conclude(c, "save", Unavailable)
        BY <1>10, <3>4 DEF CloseFails, LockedThroughout, Serves
      <4> QED
        BY <1>3, <3>1, <3>4, <4>1, ConcludeMove DEF Moves
    <3>5. CASE Program[m.command] = "measure" /\ m.next # "save"
      <4>1. GoesOnAt(c, m.next)
        BY <1>10, <3>5 DEF CloseFails, LockedThroughout, Serves
      <4> QED
        BY <2>3, <3>5, <4>1, GoesMove DEF Moves
    <3> QED
      BY <1>1, <2>1, <2>2, <3>2, <3>3, <3>4, <3>5 DEF LockedThroughout, Programs
  <2>6. PlaceOK(c, l)'
    BY <1>1, <2>1, <2>2, <2>3, <2>4 DEF PlaceOK, PlacesOf, Holding, LockedThroughout, Programs
  <2>7. ResultOK(l)
    BY <1>1, <1>3, <2>1, <2>3, <2>4 DEF ResultOK, Closing
  <2>8. WorkOK(l)
    BY <1>1, <2>1, <2>3, <2>4 DEF WorkOK, ResultOK, Closing, LockedThroughout, Asks, Tellable
  <2>9. l.at \in {"collect", "save", "finish"} => ~RefusedBundle(l.command)
    BY <2>3, <2>4 DEF RefusedBundle
  <2> QED
    BY <1>0, <2>1, <2>2, <2>4, <2>6, <2>7, <2>8, <2>9, QuietStep
<1>11. CASE Die(c)
  <2>1. PICK l \in Calling : calling' = [calling EXCEPT ![c] = l] /\ l.at = "away"
    BY <1>11, AwayMove DEF Die, Moves
  <2>2. transport' = transport \/ (transport = c /\ transport' = NoOne)
    BY <1>11 DEF Die
  <2> QED
    BY <1>0, <2>1, <2>2, QuietStep
<1>12. CASE Denied(c)
  <2>1. ~Doing(c, "away") /\ ~Doing(c, "lock") /\ ~Doing(c, "answer") /\ m.at = "call"
        /\ UNCHANGED transport
    BY <1>12 DEF Denied, Doing
  <2>2. Program[m.command] \in {"pilot", "retention"}
    BY <1>1, <2>1 DEF PlaceOK, PlacesOf, Programs
  <2>3. CASE Program[m.command] = "pilot"
    <3>1. CloseThen(c, "finish", Refused)
      BY <1>12, <2>3 DEF Denied, Serves
    <3>2. PICK l \in Calling :
            /\ calling' = [calling EXCEPT ![c] = l]
            /\ l.at = "close" /\ l.command = m.command /\ l.created = m.created
            /\ l.result = Refused /\ l.next = "finish"
      BY <1>3, <3>1, CloseMove DEF Moves
    <3>3. PlaceOK(c, l)'
      BY <1>1, <2>1, <2>3, <3>2 DEF PlaceOK, PlacesOf, Holding, LockedThroughout
    <3>4. ResultOK(l) /\ WorkOK(l)
      BY <1>3, <2>3, <3>2 DEF ResultOK, WorkOK, Closing, LockedThroughout, Refused, Done, Result
    <3> QED
      BY <1>0, <2>1, <3>2, <3>3, <3>4, QuietStep
  <2>4. CASE Program[m.command] = "retention" /\ m.created
    <3>1. Conclude(c, "finish", Refused)
      BY <1>12, <2>4 DEF Denied, Serves
    <3>2. PICK l \in Calling :
            /\ calling' = [calling EXCEPT ![c] = l]
            /\ l.at = "finish" /\ l.command = m.command /\ l.created = m.created
            /\ l.result = Refused
      <4>1. "finish" \in Places
        BY DEF Places
      <4> QED
        BY <1>3, <3>1, <4>1, ConcludeMove DEF Moves
    <3>3. PlaceOK(c, l)'
      BY <1>1, <2>1, <2>4, <3>2 DEF PlaceOK, PlacesOf, Holding, LockedThroughout
    <3>4. ResultOK(l)
      BY <1>3, <3>2 DEF ResultOK, Closing
    <3>5. WorkOK(l)
      BY <1>1, <2>1, <2>4, <3>2 DEF WorkOK, Closing, Refused, Done, Result
    <3>6. ~RefusedBundle(l.command)
      BY <2>4, <3>2 DEF RefusedBundle
    <3> QED
      BY <1>0, <2>1, <3>2, <3>3, <3>4, <3>5, <3>6, QuietStep
  <2>5. CASE Program[m.command] = "retention" /\ ~m.created
    <3>1. Leave(c, Unknown)
      BY <1>12, <2>5 DEF Denied, Serves
    <3> QED
      BY <1>0, <1>3, <2>1, <3>1, LeaveStep DEF Tellable, Unknown, Result
  <2> QED
    BY <2>2, <2>3, <2>4, <2>5
<1>13. CASE Preflight(c)
  <2>1. ~Doing(c, "away") /\ m.at = "preflight" /\ UNCHANGED transport
    BY <1>13 DEF Preflight, Doing
  <2>2. Program[m.command] = "pilot"
    BY <1>1, <2>1 DEF PlaceOK, PlacesOf, Programs
  <2>3. PICK l \in Calling :
          /\ calling' = [calling EXCEPT ![c] = l]
          /\ l.command = m.command /\ l.created = m.created
          /\ l.at = "lock" \/ (l.at = "finish" /\ l.result = Clash)
    <3>1. {"lock", "finish"} \subseteq Places
      BY DEF Places
    <3>2. CASE GoesOnAt(c, "lock")
      BY <3>1, <3>2, GoesMove DEF Moves
    <3>3. CASE Conclude(c, "finish", Clash)
      BY <1>3, <3>1, <3>3, ConcludeMove DEF Moves
    <3> QED
      BY <1>13, <3>2, <3>3 DEF Preflight
  <2>4. PlaceOK(c, l)'
    BY <1>1, <2>1, <2>2, <2>3 DEF PlaceOK, PlacesOf, Holding, LockedThroughout
  <2>5. ResultOK(l) /\ WorkOK(l)
    BY <1>3, <2>2, <2>3 DEF ResultOK, WorkOK, Closing, LockedThroughout, Clash, Done, Result
  <2>6. ~RefusedBundle(l.command)
    BY <2>2, <2>3 DEF RefusedBundle
  <2> QED
    BY <1>0, <2>1, <2>3, <2>4, <2>5, <2>6, QuietStep
<1>14. CASE Fresh(c)
  <2>1. ~Doing(c, "away") /\ m.at = "fresh" /\ UNCHANGED transport
    BY <1>14 DEF Fresh, Doing
  <2>2. Program[m.command] = "measure" /\ transport = c
    BY <1>1, <2>1 DEF PlaceOK, PlacesOf, Programs, Holding, LockedThroughout
  <2>3. PICK l \in Calling :
          /\ calling' = [calling EXCEPT ![c] = l]
          /\ l.command = m.command /\ l.created = m.created
          /\ \/ l.at = "run" /\ holder[Output[m.command]] = "free"
             \/ /\ l.at = "close" /\ l.next = "finish"
                /\ l.result = Result("REJECTED", "BINDING_MISMATCH")
    <3>1. "run" \in Places
      BY DEF Places
    <3>2. CASE GoesOnAt(c, "run") /\ holder[Output[m.command]] = "free"
      BY <3>1, <3>2, GoesMove DEF Moves
    <3>3. CASE CloseThen(c, "finish", Result("REJECTED", "BINDING_MISMATCH"))
      BY <1>3, <3>3, CloseMove DEF Moves
    <3> QED
      BY <1>14, <3>2, <3>3 DEF Fresh
  <2>4. PlaceOK(c, l)'
    BY <1>1, <2>1, <2>2, <2>3 DEF PlaceOK, PlacesOf
  <2>5. ResultOK(l) /\ WorkOK(l)
    BY <1>3, <2>2, <2>3 DEF ResultOK, WorkOK, Closing, LockedThroughout, Asks, Done, Result
  <2> QED
    BY <1>0, <2>1, <2>3, <2>4, <2>5, QuietStep
<1>15. CASE Observed(c)
  <2>1. ~Doing(c, "away") /\ m.at = "running" /\ UNCHANGED transport
    BY <1>15 DEF Observed, Doing
  <2>2. Program[m.command] = "measure" /\ transport = c /\ holder[Output[m.command]] = m.command
    BY <1>1, <2>1 DEF PlaceOK, PlacesOf, Programs, Holding, LockedThroughout, WorkOK
  <2>3. PICK l \in Calling :
          /\ calling' = [calling EXCEPT ![c] = l]
          /\ l.command = m.command /\ l.created = m.created
          /\ l.at = "close" /\ l.next = "save" /\ l.result \in Final
    BY <1>3, <1>15, CloseMove DEF Observed, Moves
  <2>4. PlaceOK(c, l)'
    BY <1>1, <2>1, <2>2, <2>3 DEF PlaceOK, PlacesOf
  <2>5. ResultOK(l) /\ WorkOK(l)
    BY <2>2, <2>3 DEF ResultOK, WorkOK, Closing, LockedThroughout, Asks
  <2> QED
    BY <1>0, <2>1, <2>3, <2>4, <2>5, QuietStep
<1>16. CASE SaveConflicts(c)
  <2>1. /\ ~Doing(c, "away") /\ m.at = "save" /\ UNCHANGED transport
        /\ Conclude(c, "finish", Clash) /\ holder[Output[m.command]] # m.command
    BY <1>16 DEF SaveConflicts, Doing
  <2>2. PICK l \in Calling :
          /\ calling' = [calling EXCEPT ![c] = l]
          /\ l.command = m.command /\ l.created = m.created
          /\ l.at = "finish" /\ l.result = Clash
    <3>1. "finish" \in Places
      BY DEF Places
    <3> QED
      BY <1>3, <2>1, <3>1, ConcludeMove DEF Moves
  <2>3. PlaceOK(c, l)'
    BY <1>1, <2>1, <2>2 DEF PlaceOK, PlacesOf, Holding, LockedThroughout, Programs
  <2>4. ResultOK(l)
    BY <1>3, <2>2 DEF ResultOK, Closing
  <2>5. WorkOK(l)
    BY <1>1, <2>1, <2>2 DEF WorkOK, Closing, Clash, Refused, Done, Result
  <2>6. ~RefusedBundle(l.command)
    BY <2>1, <2>2 DEF RefusedBundle
  <2> QED
    BY <1>0, <2>1, <2>2, <2>3, <2>4, <2>5, <2>6, QuietStep
<1>17. CASE Recover(c)
  <2>1. /\ ~Doing(c, "away") /\ ~Doing(c, "lock") /\ ~Doing(c, "answer") /\ m.at = "recover"
        /\ UNCHANGED transport
    BY <1>17 DEF Recover, Doing
  <2>2. Program[m.command] \in {"bundle", "measure"}
    BY <1>1, <2>1 DEF PlaceOK, PlacesOf, Programs
  <2>3. CASE files[m.command] = Parts(m.command)
    <3>1. /\ receipt[m.command] \in Final
          /\ receipt[m.command] = Done => Whole(m.command)
      BY <1>1, <2>1, <2>3 DEF Inv, JobOK
    <3>2. PICK l \in Calling :
            /\ calling' = [calling EXCEPT ![c] = l]
            /\ l.command = m.command /\ l.created = m.created
            /\ l.at = "finish" /\ l.result = receipt[m.command]
      <4>1. "finish" \in Places
        BY DEF Places
      <4>2. Conclude(c, "finish", receipt[m.command])
        BY <1>17, <2>3 DEF Recover
      <4> QED
        BY <3>1, <4>1, <4>2, ConcludeMove DEF Moves
    <3>3. PlaceOK(c, l)'
      BY <1>1, <2>1, <2>2, <3>2 DEF PlaceOK, PlacesOf, Holding, LockedThroughout
    <3>4. ResultOK(l)
      BY <3>1, <3>2 DEF ResultOK, Closing
    <3>5. WorkOK(l)
      BY <1>1, <2>1, <2>2, <3>1, <3>2 DEF WorkOK, Closing
    <3>6. ~RefusedBundle(l.command)
      BY <2>3, <3>2 DEF RefusedBundle
    <3> QED
      BY <1>0, <2>1, <3>2, <3>3, <3>4, <3>5, <3>6, QuietStep
  <2>4. CASE files[m.command] # Parts(m.command)
    <3>1. Leave(c, Unknown)
      BY <1>17, <2>4 DEF Recover
    <3> QED
      BY <1>0, <1>3, <2>1, <3>1, LeaveStep DEF Tellable, Unknown, Result
  <2> QED
    BY <2>3, <2>4
<1> QED
  BY <1>4, <1>5, <1>6, <1>7, <1>8, <1>9, <1>10, <1>11, <1>12, <1>13, <1>14, <1>15, <1>16, <1>17
  DEF QuietNext

-----------------------------------------------------------------------------
(* Steps that change something about one command.                            *)

\* What is stored about the other commands stays right.
LEMMA JobsKeep ==
  ASSUME TypeOK, Inv, NEW c, Steady(c), NEW s \in Jobs,
         entry'[s] = entry[s], receipt'[s] = receipt[s], files'[s] = files[s],
         effects'[s] = effects[s], s \in underway' => s \in underway, told'[s] = told[s]
  PROVE  JobOK(s)'
<1>1. JobOK(s) /\ told[s] \subseteq Final
  BY DEF Inv, TypeOK
<1>2. Untouched(s) => Untouched(s)'
  BY DEF Untouched
<1>3. (Whole(s) => Whole(s)') /\ (holder[Output[s]] = s => holder'[Output[s]] = s)
  BY DEF Steady
<1>4. \A t \in told'[s] : Tellable(s, t)' /\ t.status # "INCOMPLETE"
  BY <1>1, TellableStays DEF JobOK
<1> QED
  BY <1>1, <1>2, <1>3, <1>4 DEF JobOK

\* A refused bundle stays one whoever moves, as long as nobody gets to write it.
LEMMA RefusedStays ==
  ASSUME TypeOK, NEW c \in Callers, NEW l \in Calling,
         calling' = [calling EXCEPT ![c] = l], NEW s \in Jobs, RefusedBundle(s),
         entry'[s] = entry[s], files'[s] = files[s],
         l.command = s => l.at \notin {"collect", "save", "finish"}
  PROVE  RefusedBundle(s)'
  BY DEF RefusedBundle, TypeOK

\* The lock is held by one process only.
LEMMA Alone ==
  ASSUME TypeOK, Inv, NEW c \in Callers, Holding(calling[c]), ~Doing(c, "away"),
         NEW x \in Callers, ~Doing(x, "away"), Holding(calling[x])
  PROVE  x = c
  BY Working DEF PlaceOK

LEMMA BeginCreatedInv ==
  ASSUME TypeOK, Inv, NEW c \in Callers, BeginCreated(c)
  PROVE  TypeOK' /\ Inv'
<1> DEFINE m == calling[c]
<1>1. ~Doing(c, "away") /\ m.at = "begin"
  BY DEF BeginCreated, Doing
<1>2. /\ m \in Calling /\ Program[m.command] \in Programs
      /\ PlaceOK(c, m) /\ ResultOK(m) /\ WorkOK(m) /\ m.command \in Jobs
  BY <1>1, Working
<1>3. PICK q \in Jobs : q = m.command
  BY <1>2
<1>4. /\ entry[q] = NotBegun /\ entry' = [entry EXCEPT ![q] = Begun]
      /\ UNCHANGED <<effects, underway, files, holder, receipt, told, transport>>
  BY <1>3 DEF BeginCreated, AuthorityKept, FilesKept
<1>5. LockedThroughout(q) => transport = c
  BY <1>1, <1>2, <1>3 DEF PlaceOK, Holding
<1>6. /\ Program[q] = "retention" => FirstPlace(q) = "call"
      /\ Program[q] = "bundle" => FirstPlace(q) = "collect"
      /\ Program[q] = "pilot" => FirstPlace(q) = "preflight"
      /\ Program[q] = "import" => FirstPlace(q) = "save"
      /\ Program[q] = "measure" => FirstPlace(q) = "lock"
  BY DEF FirstPlace
<1>7. PICK l \in Calling :
        /\ calling' = [calling EXCEPT ![c] = l]
        /\ l.command = q /\ l.at = FirstPlace(q) /\ l.result = m.result
        /\ l.created = (Program[q] = "retention")
  <2> DEFINE l == [m EXCEPT !.at = FirstPlace(q), !.created = Program[q] = "retention"]
  <2>1. FirstPlace(q) \in Places
    BY <1>2, <1>3, <1>6 DEF Places, Programs
  <2>2. /\ l \in Calling /\ l.command = q /\ l.at = FirstPlace(q) /\ l.result = m.result
        /\ l.created = (Program[q] = "retention")
    BY <1>2, <1>3, <2>1 DEF Calling
  <2>3. calling' = [calling EXCEPT ![c] = l]
    BY <1>2, <1>3 DEF BeginCreated, Calling, TypeOK
  <2> HIDE DEF l
  <2> QED
    BY <2>2, <2>3
<1>8. entry'[q] = Begun /\ \A s \in Jobs \ {q} : entry'[s] = entry[s]
  BY <1>4 DEF TypeOK
<1>9. NotBegun # Begun /\ Begun \notin Final /\ Begun # Done /\ Begun # Refused
  BY DEF NotBegun, Begun, Done, Refused, Result, Final
<1>10. Steady(c)
  <2>1. \A s \in Jobs : RefusedBundle(s) => RefusedBundle(s)'
    <3>1. ~RefusedBundle(q)
      BY <1>4, <1>9 DEF RefusedBundle
    <3> QED
      BY <1>4, <1>7, <1>8, <3>1, RefusedStays
  <2>2. \A s \in Jobs : (Whole(s) <=> Whole(s)') /\ (Untouched(s) <=> Untouched(s)')
    BY <1>4 DEF Whole, Untouched
  <2> QED
    BY <1>4, <1>5, <1>8, <2>1, <2>2 DEF Steady
<1>11. \A s \in Jobs \ {q} : JobOK(s)'
  BY <1>4, <1>8, <1>10, JobsKeep
<1>12. JobOK(q)'
  <2>1. JobOK(q) /\ told[q] \subseteq Final
    BY DEF Inv, TypeOK
  <2>2. \A t \in told'[q] : Tellable(q, t)' /\ t.status # "INCOMPLETE"
    BY <1>4, <1>10, <2>1, TellableStays DEF JobOK
  <2>3. Whole(q) => Whole(q)'
    BY <1>10 DEF Steady
  <2> QED
    BY <1>4, <1>8, <1>9, <2>1, <2>2, <2>3 DEF JobOK
<1>13. StateOK(c, l)'
  <2>1. JobOK(q)
    BY DEF Inv
  <2>2. PlaceOK(c, l)'
    BY <1>2, <1>3, <1>4, <1>5, <1>6, <1>7
    DEF PlaceOK, PlacesOf, Programs, Holding, LockedThroughout
  <2>3. ResultOK(l)'
    BY <1>2, <1>3, <1>6, <1>7 DEF ResultOK, Closing, Programs
  <2>4. WorkOK(l)'
    BY <1>2, <1>3, <1>4, <1>6, <1>7, <1>8, <2>1
    DEF WorkOK, Closing, Programs, JobOK, Untouched, Asks, LockedThroughout
  <2> QED
    BY <2>2, <2>3, <2>4 DEF StateOK
<1>14. calling'[c] = l /\ \A x \in Callers \ {c} : calling'[x] = calling[x]
  BY <1>7 DEF TypeOK
<1>15. Inv'
  BY <1>10, <1>11, <1>12, <1>13, <1>14, Combine DEF CallerOK
<1>16. TypeOK'
  BY <1>4, <1>7 DEF TypeOK
<1> QED
  BY <1>15, <1>16

\* A process that leaves with an answer it may tell afterwards.
LEMMA LeaveState ==
  ASSUME TypeOK, Inv, NEW c \in Callers, ~Doing(c, "away"), ~Doing(c, "lock"),
         ~Doing(c, "answer"), NEW r \in Final, Leave(c, r), transport' = transport,
         NEW q \in Jobs, q = calling[c].command, Tellable(q, r)'
  PROVE  \E l \in Calling :
           /\ calling' = [calling EXCEPT ![c] = l]
           /\ l.command = q /\ l.at \in {"close", "answer"} /\ StateOK(c, l)'
<1> DEFINE m == calling[c]
<1>1. /\ m \in Calling /\ m.command \in Jobs /\ Program[m.command] \in Programs
      /\ PlaceOK(c, m)
  BY Working
<1>2. CASE LockedThroughout(m.command)
  <2>1. PICK l \in Calling :
          /\ calling' = [calling EXCEPT ![c] = l]
          /\ l.at = "close" /\ l.command = m.command /\ l.created = m.created
          /\ l.result = r /\ l.next = "answer"
    BY <1>2, LeaveMove DEF Moves
  <2>2. transport = c
    BY <1>1, <1>2 DEF PlaceOK, Holding, Doing
  <2>3. PlaceOK(c, l)'
    BY <1>1, <1>2, <2>1, <2>2 DEF PlaceOK, PlacesOf, LockedThroughout
  <2>4. ResultOK(l)' /\ WorkOK(l)'
    BY <1>2, <2>1 DEF ResultOK, WorkOK, Closing, LockedThroughout
  <2> QED
    BY <2>1, <2>3, <2>4 DEF StateOK
<1>3. CASE ~LockedThroughout(m.command)
  <2>1. PICK l \in Calling :
          /\ calling' = [calling EXCEPT ![c] = l]
          /\ l.at = "answer" /\ l.command = m.command /\ l.created = m.created
          /\ l.result = r
    BY <1>3, LeaveMove DEF Moves
  <2>2. PlaceOK(c, l)'
    BY <1>1, <1>3, <2>1 DEF PlaceOK, PlacesOf, Programs, Holding
  <2>3. ResultOK(l)' /\ WorkOK(l)'
    BY <2>1 DEF ResultOK, WorkOK, Closing
  <2> QED
    BY <2>1, <2>2, <2>3 DEF StateOK
<1> QED
  BY <1>2, <1>3

\* A step of c that changes at most what is stored about its own command q.
LEMMA OwnStep ==
  ASSUME TypeOK, Inv, NEW c \in Callers, NEW l \in Calling,
         calling' = [calling EXCEPT ![c] = l], StateOK(c, l)', Steady(c),
         NEW q \in Jobs, JobOK(q)',
         \A s \in Jobs \ {q} :
           /\ entry'[s] = entry[s] /\ receipt'[s] = receipt[s] /\ files'[s] = files[s]
           /\ effects'[s] = effects[s] /\ (s \in underway' => s \in underway)
           /\ told'[s] = told[s]
  PROVE  Inv'
<1>1. \A s \in Jobs \ {q} : JobOK(s)'
  BY JobsKeep
<1>2. calling'[c] = l /\ \A x \in Callers \ {c} : calling'[x] = calling[x]
  BY DEF TypeOK
<1> QED
  BY <1>1, <1>2, Combine DEF CallerOK

LEMMA FinishInv ==
  ASSUME TypeOK, Inv, NEW c \in Callers, Finish(c)
  PROVE  TypeOK' /\ Inv'
<1> DEFINE m == calling[c]
<1>1. ~Doing(c, "away") /\ ~Doing(c, "lock") /\ ~Doing(c, "answer") /\ m.at = "finish"
  BY DEF Finish, Doing
<1>2. /\ m \in Calling /\ Program[m.command] \in Programs
      /\ PlaceOK(c, m) /\ ResultOK(m) /\ WorkOK(m) /\ m.command \in Jobs
  BY <1>1, Working
<1>3. PICK q \in Jobs : q = m.command
  BY <1>2
<1>4. PICK r \in Final : r = m.result
  BY <1>1, <1>2 DEF ResultOK
<1>5. PICK answer : answer \in Answers(c, entry[q], r) /\ Leave(c, answer)
  BY <1>3, <1>4 DEF Finish
<1>6. /\ entry' = [entry EXCEPT ![q] = IF @ = Begun THEN r ELSE @]
      /\ UNCHANGED <<effects, underway, files, holder, receipt, told, transport>>
  BY <1>3, <1>4 DEF Finish, AuthorityKept, FilesKept
<1>7. /\ entry'[q] = IF entry[q] = Begun THEN r ELSE entry[q]
      /\ \A s \in Jobs \ {q} : entry'[s] = entry[s]
  BY <1>6 DEF TypeOK
<1>8. LockedThroughout(q) => transport = c /\ entry[q] = Begun
  BY <1>1, <1>2, <1>3 DEF PlaceOK, WorkOK, Holding
<1>9. \A x \in Final : x # NotBegun /\ x # Begun
  BY DEF Final, NotBegun, Begun, Result
<1>10. Conflicting(c) \in Final
  BY DEF Conflicting, IoError, Clash, Result, Final
<1>11. answer \in Final /\ Tellable(q, answer)'
  <2>1. CASE answer = r /\ entry'[q] = r
    BY <2>1 DEF Tellable
  <2>2. CASE answer = Conflicting(c) /\ ~LockedThroughout(q)
    <3>1. Program[q] \in {"pilot", "import"} => Conflicting(c).status = "INCOMPLETE"
      BY <1>3 DEF Conflicting, Serves, Result
    <3>2. Program[q] = "measure" => Conflicting(c) = Clash
      BY <1>3 DEF Conflicting, Serves
    <3> QED
      BY <1>2, <1>3, <1>10, <2>2, <3>1, <3>2 DEF Tellable, Programs, LockedThroughout
  <2> QED
    BY <1>3, <1>5, <1>7, <1>8, <1>9, <2>1, <2>2 DEF Answers
<1>12. PICK l \in Calling :
         /\ calling' = [calling EXCEPT ![c] = l]
         /\ l.command = q /\ l.at \in {"close", "answer"} /\ StateOK(c, l)'
  BY <1>1, <1>3, <1>5, <1>6, <1>11, LeaveState
<1>13. Steady(c)
  <2>1. \A s \in Jobs : RefusedBundle(s) => RefusedBundle(s)'
    <3>1. ~RefusedBundle(q)
      BY <1>1, <1>3 DEF RefusedBundle
    <3> QED
      BY <1>6, <1>7, <1>12, <3>1, RefusedStays
  <2>2. \A s \in Jobs : (Whole(s) <=> Whole(s)') /\ (Untouched(s) <=> Untouched(s)')
    BY <1>6 DEF Whole, Untouched
  <2> QED
    BY <1>6, <1>7, <1>8, <2>1, <2>2 DEF Steady
<1>14. JobOK(q)'
  <2>1. JobOK(q) /\ told[q] \subseteq Final
    BY DEF Inv, TypeOK
  <2>2. \A t \in told'[q] : Tellable(q, t)' /\ t.status # "INCOMPLETE"
    BY <1>6, <1>13, <2>1, TellableStays DEF JobOK
  <2>3. Whole(q) => Whole(q)'
    BY <1>13 DEF Steady
  <2>4. Untouched(q) <=> Untouched(q)'
    BY <1>6 DEF Untouched
  <2>5. entry'[q] = Done => Whole(q)
    BY <1>1, <1>2, <1>3, <1>4, <1>7, <2>1 DEF JobOK, WorkOK
  <2>6. Program[q] = "retention" /\ entry'[q] = Refused => Untouched(q)
    BY <1>1, <1>2, <1>3, <1>4, <1>7, <2>1 DEF JobOK, WorkOK
  <2> QED
    BY <1>4, <1>6, <1>7, <1>8, <1>9, <2>1, <2>2, <2>3, <2>4, <2>5, <2>6 DEF JobOK
<1>15. Inv'
  BY <1>6, <1>7, <1>12, <1>13, <1>14, OwnStep
<1>16. TypeOK'
  BY <1>4, <1>6, <1>12 DEF TypeOK
<1> QED
  BY <1>15, <1>16

LEMMA AnswerInv ==
  ASSUME TypeOK, Inv, NEW c \in Callers, Answer(c)
  PROVE  TypeOK' /\ Inv'
<1> DEFINE m == calling[c]
<1>1. ~Doing(c, "away") /\ m.at = "answer"
  BY DEF Answer, Doing
<1>2. /\ m \in Calling /\ Program[m.command] \in Programs
      /\ PlaceOK(c, m) /\ ResultOK(m) /\ WorkOK(m) /\ m.command \in Jobs
  BY <1>1, Working
<1>3. PICK q \in Jobs : q = m.command
  BY <1>2
<1>4. PICK r \in Final : r = m.result
  BY <1>1, <1>2 DEF ResultOK
<1>5. /\ told' = [told EXCEPT ![q] = @ \cup {t \in {r} : t.status # "INCOMPLETE"}]
      /\ UNCHANGED <<entry, effects, underway, files, holder, receipt, transport>>
  BY <1>3, <1>4 DEF Answer, AuthorityKept, FilesKept
<1>6. /\ told'[q] = told[q] \cup {t \in {r} : t.status # "INCOMPLETE"}
      /\ \A s \in Jobs \ {q} : told'[s] = told[s]
  BY <1>5 DEF TypeOK
<1>7. PICK l \in Calling : calling' = [calling EXCEPT ![c] = l] /\ l.at = "away"
  BY AwayMove DEF Answer, Moves
<1>8. Steady(c)
  <2>1. \A s \in Jobs : RefusedBundle(s) => RefusedBundle(s)'
    BY <1>5, <1>7, RefusedStays
  <2>2. \A s \in Jobs : (Whole(s) <=> Whole(s)') /\ (Untouched(s) <=> Untouched(s)')
    BY <1>5 DEF Whole, Untouched
  <2> QED
    BY <1>5, <2>1, <2>2 DEF Steady
<1>9. JobOK(q)'
  <2>1. JobOK(q) /\ told[q] \subseteq Final
    BY DEF Inv, TypeOK
  <2>2. Tellable(q, r)
    BY <1>1, <1>2, <1>3, <1>4 DEF WorkOK
  <2>3. \A t \in told'[q] : Tellable(q, t)' /\ t.status # "INCOMPLETE"
    BY <1>6, <1>8, <2>1, <2>2, TellableStays DEF JobOK
  <2>4. (Whole(q) <=> Whole(q)') /\ (Untouched(q) <=> Untouched(q)')
    BY <1>5 DEF Whole, Untouched
  <2> QED
    BY <1>5, <2>1, <2>3, <2>4 DEF JobOK
<1>10. Inv'
  BY <1>5, <1>6, <1>7, <1>8, <1>9, OwnStep DEF StateOK
<1>11. TypeOK'
  BY <1>5, <1>7 DEF TypeOK
<1> QED
  BY <1>10, <1>11

LEMMA AcceptedInv ==
  ASSUME TypeOK, Inv, NEW c \in Callers, Accepted(c)
  PROVE  TypeOK' /\ Inv'
<1> DEFINE m == calling[c]
<1>1. ~Doing(c, "away") /\ m.at = "call"
  BY DEF Accepted, Doing
<1>2. /\ m \in Calling /\ Program[m.command] \in Programs
      /\ PlaceOK(c, m) /\ ResultOK(m) /\ WorkOK(m) /\ m.command \in Jobs
  BY <1>1, Working
<1>3. PICK q \in Jobs : q = m.command
  BY <1>2
<1>4. transport = c /\ Program[q] \in {"retention", "pilot"}
  BY <1>1, <1>2, <1>3 DEF PlaceOK, PlacesOf, Programs, Holding
<1>5. /\ effects' = [effects EXCEPT ![q] = 1]
      /\ UNCHANGED <<entry, underway, files, holder, receipt, told, transport>>
  BY <1>3 DEF Accepted, Perform, FilesKept
<1>6. effects'[q] = 1 /\ \A s \in Jobs \ {q} : effects'[s] = effects[s]
  BY <1>5 DEF TypeOK
<1>7. PICK l \in Calling :
        /\ calling' = [calling EXCEPT ![c] = l]
        /\ l.command = q /\ l.created = m.created
        /\ \/ Program[q] = "pilot" /\ l.at = "close" /\ l.next = "save"
           \/ Program[q] = "retention" /\ l.at = "save"
  <2>1. CASE Program[q] = "pilot"
    <3>1. CloseThen(c, "save", NoOne)
      BY <1>3, <2>1 DEF Accepted, Serves
    <3> QED
      BY <1>3, <2>1, <3>1, CloseMove DEF Moves
  <2>2. CASE Program[q] = "retention"
    <3>1. GoesOnAt(c, "save") /\ "save" \in Places
      BY <1>3, <2>2 DEF Accepted, Serves, Places
    <3> QED
      BY <1>3, <2>2, <3>1, GoesMove DEF Moves
  <2> QED
    BY <1>4, <2>1, <2>2
<1>8. Steady(c)
  <2>1. \A s \in Jobs : RefusedBundle(s) => RefusedBundle(s)'
    <3>1. ~RefusedBundle(q)
      BY <1>4 DEF RefusedBundle
    <3> QED
      BY <1>5, <1>7, <3>1, RefusedStays
  <2>2. \A s \in Jobs : Whole(s) => Whole(s)'
    BY <1>5, <1>6 DEF Whole
  <2> QED
    BY <1>4, <1>5, <1>6, <2>1, <2>2 DEF Steady
<1>9. Program[q] = "retention" => entry[q] = Begun /\ Begun # Refused /\ Begun # NotBegun
  BY <1>1, <1>2, <1>3 DEF WorkOK, LockedThroughout, Begun, Refused, NotBegun, Result
<1>10. JobOK(q)'
  <2>1. JobOK(q) /\ told[q] \subseteq Final
    BY DEF Inv, TypeOK
  <2>2. \A t \in told'[q] : Tellable(q, t)' /\ t.status # "INCOMPLETE"
    BY <1>5, <1>8, <2>1, TellableStays DEF JobOK
  <2>3. Whole(q) => Whole(q)'
    BY <1>8 DEF Steady
  <2> QED
    BY <1>4, <1>5, <1>9, <2>1, <2>2, <2>3 DEF JobOK, LockedThroughout
<1>11. StateOK(c, l)'
  <2>1. PlaceOK(c, l)'
    BY <1>2, <1>3, <1>4, <1>5, <1>7 DEF PlaceOK, PlacesOf
  <2>2. ResultOK(l)'
    BY <1>7, <1>4 DEF ResultOK, Closing, LockedThroughout
  <2>3. WorkOK(l)'
    BY <1>4, <1>5, <1>6, <1>7, <1>9 DEF WorkOK, Closing, LockedThroughout
  <2> QED
    BY <2>1, <2>2, <2>3 DEF StateOK
<1>12. Inv'
  BY <1>5, <1>6, <1>7, <1>8, <1>10, <1>11, OwnStep
<1>13. TypeOK'
  BY <1>5, <1>7 DEF TypeOK
<1> QED
  BY <1>12, <1>13

LEMMA LostInv ==
  ASSUME TypeOK, Inv, NEW c \in Callers, Lost(c)
  PROVE  TypeOK' /\ Inv'
<1> DEFINE m == calling[c]
<1>1. ~Doing(c, "away") /\ ~Doing(c, "lock") /\ ~Doing(c, "answer") /\ m.at = "call"
  BY DEF Lost, Doing
<1>2. /\ m \in Calling /\ Program[m.command] \in Programs
      /\ PlaceOK(c, m) /\ ResultOK(m) /\ WorkOK(m) /\ m.command \in Jobs
  BY <1>1, Working
<1>3. PICK q \in Jobs : q = m.command
  BY <1>2
<1>4. transport = c /\ Program[q] \in {"retention", "pilot"}
  BY <1>1, <1>2, <1>3 DEF PlaceOK, PlacesOf, Programs, Holding
<1>5. /\ underway' = underway \cup {q}
      /\ UNCHANGED <<entry, effects, files, holder, receipt, told, transport>>
  BY <1>3 DEF Lost, FilesKept
<1>6. PICK l \in Calling :
        /\ calling' = [calling EXCEPT ![c] = l]
        /\ l.command = q /\ l.at \in {"close", "answer"} /\ StateOK(c, l)'
  <2>1. Unknown \in Final /\ Unavailable \in Final /\ Tellable(q, Unknown)'
        /\ Tellable(q, Unavailable)'
    BY DEF Unknown, Unavailable, Final, Result, Tellable
  <2>2. CASE Program[q] = "retention"
    <3>1. Leave(c, Unknown)
      BY <1>3, <2>2 DEF Lost, Serves
    <3> QED
      BY <1>1, <1>3, <1>5, <2>1, <3>1, LeaveState
  <2>3. CASE Program[q] = "pilot"
    <3>1. CloseThen(c, "answer", Unavailable)
      BY <1>3, <2>3 DEF Lost, Serves
    <3>2. PICK l \in Calling :
            /\ calling' = [calling EXCEPT ![c] = l]
            /\ l.command = q /\ l.created = m.created
            /\ l.at = "close" /\ l.next = "answer" /\ l.result = Unavailable
      BY <1>3, <2>1, <3>1, CloseMove DEF Moves
    <3>3. PlaceOK(c, l)'
      BY <1>2, <1>3, <1>4, <1>5, <2>3, <3>2 DEF PlaceOK, PlacesOf
    <3>4. ResultOK(l)' /\ WorkOK(l)'
      BY <2>1, <2>3, <3>2 DEF ResultOK, WorkOK, Closing, LockedThroughout
    <3> QED
      BY <3>2, <3>3, <3>4 DEF StateOK
  <2> QED
    BY <1>4, <2>2, <2>3
<1>7. Steady(c)
  <2>1. \A s \in Jobs : RefusedBundle(s) => RefusedBundle(s)'
    BY <1>5, <1>6, RefusedStays
  <2>2. \A s \in Jobs : Whole(s) => Whole(s)'
    BY <1>5 DEF Whole
  <2> QED
    BY <1>4, <1>5, <2>1, <2>2 DEF Steady
<1>8. Program[q] = "retention" => entry[q] = Begun /\ Begun # Refused /\ Begun # NotBegun
  BY <1>1, <1>2, <1>3 DEF WorkOK, LockedThroughout, Begun, Refused, NotBegun, Result
<1>9. JobOK(q)'
  <2>1. JobOK(q) /\ told[q] \subseteq Final
    BY DEF Inv, TypeOK
  <2>2. \A t \in told'[q] : Tellable(q, t)' /\ t.status # "INCOMPLETE"
    BY <1>5, <1>7, <2>1, TellableStays DEF JobOK
  <2>3. Whole(q) => Whole(q)'
    BY <1>7 DEF Steady
  <2> QED
    BY <1>4, <1>5, <1>8, <2>1, <2>2, <2>3 DEF JobOK, LockedThroughout, Asks
<1>10. Inv'
  BY <1>5, <1>6, <1>7, <1>9, OwnStep
<1>11. TypeOK'
  BY <1>5, <1>6 DEF TypeOK
<1> QED
  BY <1>10, <1>11

LEMMA CollectInv ==
  ASSUME TypeOK, Inv, NEW c \in Callers, Collect(c)
  PROVE  TypeOK' /\ Inv'
<1> DEFINE m == calling[c]
<1>1. ~Doing(c, "away") /\ ~Doing(c, "lock") /\ ~Doing(c, "answer") /\ m.at = "collect"
  BY DEF Collect, Doing
<1>2. /\ m \in Calling /\ Program[m.command] \in Programs
      /\ PlaceOK(c, m) /\ ResultOK(m) /\ WorkOK(m) /\ m.command \in Jobs
  BY <1>1, Working
<1>3. PICK q \in Jobs : q = m.command
  BY <1>2
<1>4. Program[q] = "bundle"
  BY <1>1, <1>2, <1>3 DEF PlaceOK, PlacesOf, Programs
<1>5. transport = c /\ Holding(m)
  BY <1>1, <1>2, <1>3, <1>4 DEF PlaceOK, Holding, LockedThroughout
<1>6. entry[q] = Begun /\ files[q] = 0 /\ Parts(q) = 3
  BY <1>1, <1>2, <1>3, <1>4 DEF WorkOK, LockedThroughout, Parts
<1>7. /\ UNCHANGED <<entry, effects, underway, files, receipt, told, transport>>
      /\ {Clash, Refused} \subseteq Final
  BY DEF Collect, AuthorityKept, Clash, Refused, Result, Final
<1>8. CASE Conclude(c, "finish", Clash) /\ UNCHANGED holder
  <2>1. PICK l \in Calling :
          /\ calling' = [calling EXCEPT ![c] = l]
          /\ l.command = q /\ l.created = m.created
          /\ l.at = "finish" /\ l.result = Clash
    <3>1. "finish" \in Places
      BY DEF Places
    <3> QED
      BY <1>3, <1>7, <1>8, <3>1, ConcludeMove DEF Moves
  <2>2. PlaceOK(c, l)'
    BY <1>2, <1>3, <1>4, <1>5, <1>7, <2>1 DEF PlaceOK, PlacesOf
  <2>3. ResultOK(l) /\ WorkOK(l)
    BY <1>4, <1>6, <1>7, <2>1
    DEF ResultOK, WorkOK, Closing, Clash, Done, Result
  <2>4. ~RefusedBundle(l.command)
    BY <1>1, <1>3, <2>1 DEF RefusedBundle
  <2> QED
    BY <1>7, <1>8, <2>1, <2>2, <2>3, <2>4, QuietStep
<1>9. CASE Leave(c, Refused) /\ UNCHANGED holder
  <2>1. PICK l \in Calling :
          /\ calling' = [calling EXCEPT ![c] = l]
          /\ l.command = q /\ l.at = "close"
    BY <1>3, <1>4, <1>7, <1>9, LeaveMove DEF Moves, LockedThroughout
  <2>2. RefusedBundle(q)'
    <3>1. ASSUME NEW x \in Callers, calling'[x].command = q
          PROVE  calling'[x].at \notin {"collect", "save", "finish"}
      <4>1. CASE x = c
        BY <2>1, <4>1 DEF TypeOK
      <4>2. CASE x # c
        <5>1. calling'[x] = calling[x]
          BY <2>1, <4>2 DEF TypeOK
        <5>2. calling[x].at \in {"collect", "save", "finish"} =>
                ~Doing(x, "away") /\ Holding(calling[x])
          BY <1>4, <3>1, <5>1 DEF Doing, Holding, LockedThroughout
        <5> QED
          BY <1>1, <1>5, <4>2, <5>1, <5>2, Alone
      <4> QED
        BY <4>1, <4>2
    <3> QED
      BY <1>4, <1>6, <1>7, <3>1 DEF RefusedBundle
  <2>3. Tellable(q, Refused)'
    BY <2>2 DEF Tellable
  <2>4. PICK k \in Calling :
          /\ calling' = [calling EXCEPT ![c] = k]
          /\ k.command = q /\ k.at \in {"close", "answer"} /\ StateOK(c, k)'
    BY <1>1, <1>3, <1>7, <1>9, <2>3, LeaveState
  <2>5. Steady(c)
    <3>1. \A s \in Jobs : RefusedBundle(s) => RefusedBundle(s)'
      BY <1>7, <2>4, RefusedStays
    <3>2. \A s \in Jobs : (Whole(s) <=> Whole(s)') /\ (Untouched(s) <=> Untouched(s)')
      BY <1>7, <1>9 DEF Whole, Untouched
    <3> QED
      BY <1>7, <1>9, <3>1, <3>2 DEF Steady
  <2>6. JobOK(q)'
    BY <1>7, <2>5, JobsKeep
  <2>7. Inv'
    BY <1>7, <2>4, <2>5, <2>6, OwnStep
  <2>8. TypeOK'
    BY <1>7, <1>9, <2>4 DEF TypeOK
  <2> QED
    BY <2>7, <2>8
<1>10. CASE /\ holder[Output[q]] = "free" /\ holder' = [holder EXCEPT ![Output[q]] = q]
            /\ GoesOnAt(c, "save")
  <2>1. PICK l \in Calling :
          /\ calling' = [calling EXCEPT ![c] = l]
          /\ l.command = q /\ l.created = m.created /\ l.at = "save"
    <3>1. "save" \in Places
      BY DEF Places
    <3> QED
      BY <1>3, <1>10, <3>1, GoesMove DEF Moves
  <2>2. /\ holder'[Output[q]] = q
        /\ \A p \in Paths \ {Output[q]} : holder'[p] = holder[p]
        /\ \A s \in Jobs : Output[s] \in Paths /\ s # "free"
    BY <1>10, CommandAssumption DEF TypeOK, Paths
  <2>3. Steady(c)
    <3>1. \A s \in Jobs : holder[Output[s]] = s => holder'[Output[s]] = s
      BY <1>10, <2>2
    <3>2. \A s \in Jobs : RefusedBundle(s) => RefusedBundle(s)'
      <4>1. ~RefusedBundle(q)
        BY <1>1, <1>3 DEF RefusedBundle
      <4> QED
        BY <1>7, <2>1, <4>1, RefusedStays
    <3>3. \A s \in Jobs : (Whole(s) => Whole(s)') /\ (Untouched(s) <=> Untouched(s)')
      BY <1>7, <3>1 DEF Whole, Untouched
    <3> QED
      BY <1>5, <1>7, <3>1, <3>2, <3>3 DEF Steady
  <2>4. JobOK(q)'
    BY <1>7, <2>3, JobsKeep
  <2>5. PlaceOK(c, l)'
    BY <1>2, <1>3, <1>4, <1>5, <1>7, <2>1 DEF PlaceOK, PlacesOf
  <2>6. ResultOK(l)' /\ WorkOK(l)'
    BY <1>4, <1>6, <1>7, <2>1 DEF ResultOK, WorkOK, Closing, Asks
  <2>7. Inv'
    BY <1>7, <2>1, <2>3, <2>4, <2>5, <2>6, OwnStep DEF StateOK
  <2>8. TypeOK'
    BY <1>7, <1>10, <2>1 DEF TypeOK
  <2> QED
    BY <2>7, <2>8
<1> QED
  BY <1>3, <1>8, <1>9, <1>10 DEF Collect

LEMMA BeginRunInv ==
  ASSUME TypeOK, Inv, NEW c \in Callers, BeginRun(c)
  PROVE  TypeOK' /\ Inv'
<1> DEFINE m == calling[c]
<1>1. ~Doing(c, "away") /\ m.at = "run"
  BY DEF BeginRun, Doing
<1>2. /\ m \in Calling /\ Program[m.command] \in Programs
      /\ PlaceOK(c, m) /\ ResultOK(m) /\ WorkOK(m) /\ m.command \in Jobs
  BY <1>1, Working
<1>3. PICK q \in Jobs : q = m.command
  BY <1>2
<1>4. transport = c /\ Program[q] = "measure" /\ holder[Output[q]] = "free"
  BY <1>1, <1>2, <1>3 DEF PlaceOK, PlacesOf, Programs, Holding, LockedThroughout, WorkOK
<1>5. /\ holder' = [holder EXCEPT ![Output[q]] = q]
      /\ effects' = [effects EXCEPT ![q] = @ + 1]
      /\ UNCHANGED <<entry, underway, files, receipt, told, transport>>
  BY <1>3 DEF BeginRun
<1>6. /\ holder'[Output[q]] = q
      /\ \A p \in Paths \ {Output[q]} : holder'[p] = holder[p]
      /\ \A s \in Jobs : Output[s] \in Paths /\ s # "free"
  BY <1>5, CommandAssumption DEF TypeOK, Paths
<1>7. effects[q] = 0 /\ effects'[q] = 1 /\ \A s \in Jobs \ {q} : effects'[s] = effects[s]
  <2>1. effects[q] = 0
    BY <1>4, <1>6 DEF Inv, JobOK
  <2> QED
    BY <1>5, <2>1 DEF TypeOK
<1>8. PICK l \in Calling :
        /\ calling' = [calling EXCEPT ![c] = l]
        /\ l.command = q /\ l.created = m.created /\ l.at = "running"
  <2>1. GoesOnAt(c, "running") /\ "running" \in Places
    BY DEF BeginRun, Places
  <2> QED
    BY <1>3, <2>1, GoesMove DEF Moves
<1>9. Steady(c)
  <2>1. \A s \in Jobs : holder[Output[s]] = s => holder'[Output[s]] = s
    BY <1>4, <1>6
  <2>2. \A s \in Jobs : RefusedBundle(s) => RefusedBundle(s)'
    BY <1>5, <1>8, RefusedStays
  <2>3. \A s \in Jobs : Whole(s) => Whole(s)'
    BY <1>4, <1>5, <1>7, <2>1 DEF Whole, Asks
  <2> QED
    BY <1>4, <1>5, <1>7, <2>1, <2>2, <2>3 DEF Steady, Asks
<1>10. JobOK(q)'
  <2>1. JobOK(q) /\ told[q] \subseteq Final
    BY DEF Inv, TypeOK
  <2>2. \A t \in told'[q] : Tellable(q, t)' /\ t.status # "INCOMPLETE"
    BY <1>5, <1>9, <2>1, TellableStays DEF JobOK
  <2>3. Whole(q) => Whole(q)'
    BY <1>9 DEF Steady
  <2> QED
    BY <1>4, <1>5, <1>6, <1>7, <2>1, <2>2, <2>3 DEF JobOK, LockedThroughout
<1>11. StateOK(c, l)'
  <2>1. PlaceOK(c, l)'
    BY <1>2, <1>3, <1>4, <1>5, <1>8 DEF PlaceOK, PlacesOf
  <2>2. ResultOK(l)' /\ WorkOK(l)'
    BY <1>4, <1>6, <1>8 DEF ResultOK, WorkOK, Closing, LockedThroughout
  <2> QED
    BY <2>1, <2>2 DEF StateOK
<1>12. Inv'
  BY <1>5, <1>7, <1>8, <1>9, <1>10, <1>11, OwnStep
<1>13. TypeOK'
  <2>1. effects' \in [Jobs -> Nat]
    BY <1>5 DEF TypeOK
  <2>2. holder' \in [Paths -> Jobs \cup {"free", "foreign"}]
    BY <1>5 DEF TypeOK
  <2> QED
    BY <1>5, <1>8, <2>1, <2>2 DEF TypeOK
<1> QED
  BY <1>12, <1>13

\* A saved file: what the others rely on stays, and what is stored about the command
\* is right.
LEMMA StoreKeeps ==
  ASSUME TypeOK, Inv, NEW c \in Callers, Doing(c, "save"), Store(c),
         NEW q \in Jobs, q = calling[c].command, holder[Output[q]] \in {"free", q},
         UNCHANGED <<entry, effects, underway, told, transport>>,
         NEW l \in Calling, calling' = [calling EXCEPT ![c] = l], l.command = q
  PROVE  /\ Steady(c) /\ JobOK(q)'
         /\ files' \in [Jobs -> Nat] /\ receipt' \in [Jobs -> Final \cup {NoOne}]
         /\ holder' \in [Paths -> Jobs \cup {"free", "foreign"}]
         /\ holder'[Output[q]] = q
         /\ \A s \in Jobs \ {q} : files'[s] = files[s] /\ receipt'[s] = receipt[s]
         /\ files'[q] = Parts(q) /\ SavedResult(c) = Done => Whole(q)'
         /\ SavedResult(c) \in Final
<1> DEFINE m == calling[c]
           n == IF files[q] < Parts(q) THEN files[q] + 1 ELSE files[q]
<1>1. /\ m \in Calling /\ Program[q] \in Programs
      /\ PlaceOK(c, m) /\ ResultOK(m) /\ WorkOK(m) /\ m.at = "save"
  BY Working DEF Doing
<1>2. /\ files' = [files EXCEPT ![q] = n]
      /\ receipt' = [receipt EXCEPT ![q] = IF n = Parts(q) THEN SavedResult(c) ELSE @]
      /\ holder' = [holder EXCEPT ![Output[q]] = q]
  BY DEF Store
<1>3. n \in Nat /\ Parts(q) \in Nat /\ (files[q] = Parts(q) => n = Parts(q))
  BY DEF TypeOK, Parts
<1>4. SavedResult(c) \in Final
  BY <1>1 DEF SavedResult, Serves, ResultOK, Done, Result, Final
<1>5. Asks(q) => effects[q] = 1
  BY <1>1 DEF WorkOK
<1> HIDE DEF n
<1>6. /\ files'[q] = n /\ receipt'[q] = IF n = Parts(q) THEN SavedResult(c) ELSE receipt[q]
      /\ \A s \in Jobs \ {q} : files'[s] = files[s] /\ receipt'[s] = receipt[s]
  BY <1>2, <1>3 DEF TypeOK
<1>7. /\ holder'[Output[q]] = q
      /\ \A p \in Paths \ {Output[q]} : holder'[p] = holder[p]
      /\ \A s \in Jobs : Output[s] \in Paths /\ s # "free"
  BY <1>2, CommandAssumption DEF TypeOK, Paths
<1>8. /\ files' \in [Jobs -> Nat] /\ receipt' \in [Jobs -> Final \cup {NoOne}]
      /\ holder' \in [Paths -> Jobs \cup {"free", "foreign"}]
  <2>1. files' \in [Jobs -> Nat]
    BY <1>2, <1>3 DEF TypeOK
  <2>2. receipt' \in [Jobs -> Final \cup {NoOne}]
    BY <1>2, <1>4 DEF TypeOK
  <2>3. holder' \in [Paths -> Jobs \cup {"free", "foreign"}]
    BY <1>2 DEF TypeOK
  <2> QED
    BY <2>1, <2>2, <2>3
<1>9. ASSUME NEW s \in Jobs, holder[Output[s]] = s PROVE holder'[Output[s]] = s
  BY <1>7, <1>9
<1>10. \A s \in Jobs : Whole(s) => Whole(s)'
  BY <1>3, <1>6, <1>9 DEF Whole
<1>11. \A s \in Jobs : RefusedBundle(s) => RefusedBundle(s)'
  <2>1. ~RefusedBundle(q)
    BY <1>1 DEF RefusedBundle
  <2> QED
    BY <1>6, <2>1, RefusedStays
<1>12. ASSUME NEW s \in Jobs, Program[s] = "measure", holder[Output[s]] = "free", transport # c
       PROVE  holder'[Output[s]] = "free"
  <2>1. CASE Output[s] = Output[q]
    <3>1. Program[q] = "measure"
      BY <1>12, <2>1, CommandAssumption
    <3> QED
      BY <1>1, <1>7, <1>12, <2>1, <3>1 DEF WorkOK
  <2>2. CASE Output[s] # Output[q]
    BY <1>7, <1>12, <2>2
  <2> QED
    BY <2>1, <2>2
<1>13. LockedThroughout(q) => transport = c /\ entry[q] = Begun
  BY <1>1 DEF PlaceOK, Holding, WorkOK
<1>14. Steady(c)
  <2>1. \A s \in Jobs : Untouched(s) <=> Untouched(s)'
    BY DEF Untouched
  <2> QED
    BY <1>6, <1>9, <1>10, <1>11, <1>12, <1>13, <2>1 DEF Steady
<1>15. files'[q] = Parts(q) => Whole(q)'
  BY <1>5, <1>7 DEF Whole, Parts
<1>16. JobOK(q)'
  <2>1. JobOK(q) /\ told[q] \subseteq Final
    BY DEF Inv, TypeOK
  <2>2. \A t \in told'[q] : Tellable(q, t)' /\ t.status # "INCOMPLETE"
    BY <1>14, <2>1, TellableStays DEF JobOK
  <2>3. entry'[q] = Done => Whole(q)'
    BY <1>10, <2>1 DEF JobOK
  <2>4. files'[q] = Parts(q)' => receipt'[q] \in Final /\ Whole(q)'
    BY <1>4, <1>6, <1>15 DEF Parts
  <2>5. NotBegun # Begun /\ (Untouched(q) <=> Untouched(q)')
    BY DEF NotBegun, Begun, Result, Untouched
  <2> QED
    BY <1>7, <1>13, <2>1, <2>2, <2>3, <2>4, <2>5 DEF JobOK
<1> QED
  BY <1>4, <1>6, <1>7, <1>8, <1>14, <1>15, <1>16

LEMMA SaveInv ==
  ASSUME TypeOK, Inv, NEW c \in Callers, Save(c)
  PROVE  TypeOK' /\ Inv'
<1> DEFINE m == calling[c]
<1>1. ~Doing(c, "away") /\ Doing(c, "save") /\ m.at = "save"
  BY DEF Save, Doing
<1>2. /\ m \in Calling /\ Program[m.command] \in Programs
      /\ PlaceOK(c, m) /\ ResultOK(m) /\ WorkOK(m) /\ m.command \in Jobs
  BY <1>1, Working
<1>3. PICK q \in Jobs : q = m.command
  BY <1>2
<1>4. /\ Store(c) /\ holder[Output[q]] \in {"free", q}
      /\ UNCHANGED <<entry, effects, underway, told, transport>>
      /\ IF files'[q] = Parts(q) THEN Conclude(c, "finish", SavedResult(c)) ELSE GoesOnAt(c, "save")
  BY <1>3 DEF Save, AuthorityKept
<1>5. SavedResult(c) \in Final /\ (Program[q] = "retention" => SavedResult(c) # Refused)
  BY <1>1, <1>2, <1>3 DEF SavedResult, Serves, ResultOK, Done, Refused, Result, Final
<1>6. PICK l \in Calling :
        /\ calling' = [calling EXCEPT ![c] = l]
        /\ l.command = q /\ l.created = m.created
        /\ \/ l.at = "finish" /\ l.result = SavedResult(c) /\ files'[q] = Parts(q)
           \/ l.at = "save" /\ l.result = m.result
  <2>1. {"finish", "save"} \subseteq Places
    BY DEF Places
  <2>2. CASE files'[q] = Parts(q)
    BY <1>3, <1>4, <1>5, <2>1, <2>2, ConcludeMove DEF Moves
  <2>3. CASE files'[q] # Parts(q)
    BY <1>3, <1>4, <2>1, <2>3, GoesMove DEF Moves
  <2> QED
    BY <2>2, <2>3
<1>7. /\ Steady(c) /\ JobOK(q)'
      /\ files' \in [Jobs -> Nat] /\ receipt' \in [Jobs -> Final \cup {NoOne}]
      /\ holder' \in [Paths -> Jobs \cup {"free", "foreign"}]
      /\ holder'[Output[q]] = q
      /\ \A s \in Jobs \ {q} : files'[s] = files[s] /\ receipt'[s] = receipt[s]
      /\ files'[q] = Parts(q) /\ SavedResult(c) = Done => Whole(q)'
  BY <1>1, <1>3, <1>4, <1>6, StoreKeeps
<1>8. StateOK(c, l)'
  <2>1. PlaceOK(c, l)'
    BY <1>1, <1>2, <1>3, <1>4, <1>6
    DEF PlaceOK, PlacesOf, Programs, Holding, LockedThroughout
  <2>2. ResultOK(l)'
    BY <1>1, <1>2, <1>3, <1>5, <1>6 DEF ResultOK, Closing
  <2>3. WorkOK(l)'
    BY <1>1, <1>2, <1>3, <1>4, <1>5, <1>6, <1>7 DEF WorkOK, Closing
  <2> QED
    BY <2>1, <2>2, <2>3 DEF StateOK
<1>9. Inv'
  BY <1>4, <1>6, <1>7, <1>8, OwnStep
<1>10. TypeOK'
  BY <1>4, <1>6, <1>7 DEF TypeOK
<1> QED
  BY <1>9, <1>10

LEMMA SaveFailsInv ==
  ASSUME TypeOK, Inv, NEW c \in Callers, SaveFails(c)
  PROVE  TypeOK' /\ Inv'
<1> DEFINE m == calling[c]
<1>1. /\ ~Doing(c, "away") /\ ~Doing(c, "lock") /\ ~Doing(c, "answer") /\ Doing(c, "save")
      /\ m.at = "save"
  BY DEF SaveFails, Doing
<1>2. /\ m \in Calling /\ Program[m.command] \in Programs
      /\ PlaceOK(c, m) /\ ResultOK(m) /\ WorkOK(m) /\ m.command \in Jobs
  BY <1>1, Working
<1>3. PICK q \in Jobs : q = m.command
  BY <1>2
<1>4. /\ Store(c) \/ FilesKept
      /\ holder[Output[q]] \in {"free", q}
      /\ UNCHANGED <<entry, effects, underway, told, transport>>
  BY <1>3 DEF SaveFails, AuthorityKept
<1>5. /\ {IoError, Unknown} \subseteq Final /\ IoError # Done /\ IoError # Refused
      /\ Tellable(q, IoError)' /\ Tellable(q, Unknown)'
  BY DEF IoError, Unknown, Done, Refused, Final, Result, Tellable
<1>6. PICK l \in Calling :
        /\ calling' = [calling EXCEPT ![c] = l] /\ l.command = q
        /\ l.at \in {"close", "answer", "finish"} /\ StateOK(c, l)'
  <2>1. CASE Program[q] \in {"retention", "bundle"}
    <3>1. Leave(c, IoError) \/ Leave(c, Unknown)
      BY <1>3, <2>1 DEF SaveFails, Serves
    <3>2. CASE Leave(c, IoError)
      BY <1>1, <1>3, <1>4, <1>5, <3>2, LeaveState
    <3>3. CASE Leave(c, Unknown)
      BY <1>1, <1>3, <1>4, <1>5, <3>3, LeaveState
    <3> QED
      BY <3>1, <3>2, <3>3
  <2>2. CASE Program[q] \in {"pilot", "import", "measure"}
    <3>1. Conclude(c, "finish", IoError) /\ "finish" \in Places
      BY <1>3, <2>2 DEF SaveFails, Serves, Places
    <3>2. PICK l \in Calling :
            /\ calling' = [calling EXCEPT ![c] = l]
            /\ l.command = q /\ l.created = m.created
            /\ l.at = "finish" /\ l.result = IoError
      BY <1>3, <1>5, <3>1, ConcludeMove DEF Moves
    <3>3. PlaceOK(c, l)'
      BY <1>1, <1>2, <1>3, <1>4, <2>2, <3>2 DEF PlaceOK, PlacesOf, Holding, LockedThroughout
    <3>4. ResultOK(l)'
      BY <1>5, <3>2 DEF ResultOK, Closing
    <3>5. WorkOK(l)'
      BY <1>5, <2>2, <3>2 DEF WorkOK, Closing, LockedThroughout
    <3> QED
      BY <3>2, <3>3, <3>4, <3>5 DEF StateOK
  <2> QED
    BY <1>2, <1>3, <2>1, <2>2 DEF Programs
<1>7. CASE Store(c)
  <2>1. /\ Steady(c) /\ JobOK(q)'
        /\ files' \in [Jobs -> Nat] /\ receipt' \in [Jobs -> Final \cup {NoOne}]
        /\ holder' \in [Paths -> Jobs \cup {"free", "foreign"}]
        /\ \A s \in Jobs \ {q} : files'[s] = files[s] /\ receipt'[s] = receipt[s]
    BY <1>1, <1>3, <1>4, <1>6, <1>7, StoreKeeps
  <2>2. Inv'
    BY <1>4, <1>6, <2>1, OwnStep
  <2>3. TypeOK'
    BY <1>4, <1>6, <2>1 DEF TypeOK
  <2> QED
    BY <2>2, <2>3
<1>8. CASE FilesKept
  <2>1. UNCHANGED <<files, holder, receipt>>
    BY <1>8 DEF FilesKept
  <2>2. Steady(c)
    <3>1. ~RefusedBundle(q)
      BY <1>1, <1>3 DEF RefusedBundle
    <3>2. \A s \in Jobs : RefusedBundle(s) => RefusedBundle(s)'
      BY <1>4, <1>6, <2>1, <3>1, RefusedStays
    <3>3. \A s \in Jobs : (Whole(s) <=> Whole(s)') /\ (Untouched(s) <=> Untouched(s)')
      BY <1>4, <2>1 DEF Whole, Untouched
    <3> QED
      BY <1>4, <2>1, <3>2, <3>3 DEF Steady
  <2>3. JobOK(q)'
    BY <1>4, <2>1, <2>2, JobsKeep
  <2>4. Inv'
    BY <1>4, <1>6, <2>1, <2>2, <2>3, OwnStep
  <2>5. TypeOK'
    BY <1>4, <1>6, <2>1 DEF TypeOK
  <2> QED
    BY <2>4, <2>5
<1> QED
  BY <1>4, <1>7, <1>8

\* A request that was given up is performed after all.
LEMMA PerformLateInv ==
  ASSUME TypeOK, Inv, NEW q \in Jobs, PerformLate(q)
  PROVE  TypeOK' /\ Inv'
<1>1. /\ q \in underway /\ underway' = underway \ {q}
      /\ effects' = [effects EXCEPT ![q] = 1] \/ effects' = effects
      /\ UNCHANGED <<entry, calling, files, holder, receipt, told, transport>>
  BY DEF PerformLate, Perform, FilesKept
<1>2. JobOK(q) /\ told[q] \subseteq Final
  BY DEF Inv, TypeOK
<1>3. /\ effects'[q] = 1 \/ effects'[q] = effects[q]
      /\ \A s \in Jobs \ {q} : effects'[s] = effects[s]
  BY <1>1 DEF TypeOK
<1>4. Asks(q) /\ ~Untouched(q)
  BY <1>1, <1>2 DEF JobOK, Untouched
<1>5. \A s \in Jobs : RefusedBundle(s) => RefusedBundle(s)'
  BY <1>1 DEF RefusedBundle
<1>6. \A s \in Jobs : Whole(s) => Whole(s)'
  BY <1>1, <1>3 DEF Whole
<1>7. Steady(NoOne)
  <2>1. \A s \in Jobs : Untouched(s) => Untouched(s)'
    BY <1>1, <1>3, <1>4 DEF Untouched
  <2>2. \A s \in Jobs : Asks(s) /\ effects[s] = 1 => effects'[s] = 1
    BY <1>3
  <2> QED
    BY <1>1, <1>5, <1>6, <2>1, <2>2 DEF Steady
<1>8. \A s \in Jobs \ {q} : JobOK(s)'
  BY <1>1, <1>3, <1>7, JobsKeep
<1>9. JobOK(q)'
  <2>1. \A t \in told'[q] : Tellable(q, t)' /\ t.status # "INCOMPLETE"
    BY <1>1, <1>2, <1>7, TellableStays DEF JobOK
  <2>2. Program[q] # "measure"
    BY <1>4 DEF Asks
  <2> QED
    BY <1>1, <1>2, <1>4, <1>6, <2>1, <2>2 DEF JobOK
<1>10. \A x \in Callers : CallerOK(x)'
  BY <1>1, <1>7, CommandAssumption, OthersKeep
<1>11. Inv'
  BY <1>8, <1>9, <1>10 DEF Inv
<1>12. effects' \in [Jobs -> Nat]
  BY <1>1 DEF TypeOK
<1> QED
  BY <1>1, <1>11, <1>12 DEF TypeOK

-----------------------------------------------------------------------------
(* Every state of the commands.                                              *)

LEMMA CommandInitInv ==
  ASSUME CommandInit
  PROVE  TypeOK /\ Inv
<1>1. TypeOK
  <2>1. Away \in Calling
    BY DEF Away, Calling, Places
  <2>2. holder \in [Paths -> Jobs \cup {"free", "foreign"}]
    BY DEF CommandInit
  <2> QED
    BY <2>1, <2>2 DEF CommandInit, TypeOK
<1>2. \A c \in Callers : CallerOK(c)
  BY DEF CommandInit, CallerOK, StateOK, Away
<1>3. ASSUME NEW q \in Jobs PROVE JobOK(q)
  <2>1. /\ entry[q] = NotBegun /\ effects[q] = 0 /\ underway = {} /\ files[q] = 0
        /\ receipt[q] = NoOne /\ told[q] = {}
    BY DEF CommandInit
  <2>2. NotBegun # Done /\ NotBegun # Refused /\ Parts(q) # 0
    BY DEF NotBegun, Done, Refused, Result, Parts
  <2> QED
    BY <2>1, <2>2 DEF JobOK, Untouched
<1> QED
  BY <1>1, <1>2, <1>3 DEF Inv

\* Every step keeps the invariant.
LEMMA InvStep ==
  ASSUME TypeOK, Inv, [CommandNext]_commandVars
  PROVE  TypeOK' /\ Inv'
<1>1. ASSUME NEW c \in Callers, QuietNext(c) PROVE TypeOK' /\ Inv'
  BY <1>1, QuietInv
<1>2. ASSUME NEW c \in Callers,
             \/ BeginCreated(c) \/ Finish(c) \/ Answer(c) \/ Accepted(c) \/ Lost(c)
             \/ Collect(c) \/ BeginRun(c) \/ Save(c) \/ SaveFails(c)
      PROVE  TypeOK' /\ Inv'
  BY <1>2, BeginCreatedInv, FinishInv, AnswerInv, AcceptedInv, LostInv, CollectInv, BeginRunInv,
     SaveInv, SaveFailsInv
<1>3. ASSUME NEW q \in Jobs, PerformLate(q) PROVE TypeOK' /\ Inv'
  BY <1>3, PerformLateInv
<1>4. CASE UNCHANGED <<entry, calling, transport, effects, underway, files, holder, receipt, told>>
  BY <1>4 DEF TypeOK, Inv, CallerOK, StateOK, PlaceOK, ResultOK, WorkOK, JobOK, Untouched, Whole,
     Tellable, RefusedBundle, Closing, Holding
<1>5. ClimateChanges \/ UNCHANGED commandVars =>
        UNCHANGED <<entry, calling, transport, effects, underway, files, holder, receipt, told>>
  BY DEF ClimateChanges, FilesKept, commandVars
<1> QED
  BY <1>1, <1>2, <1>3, <1>4, <1>5 DEF CommandNext, QuietNext

LEMMA CommandTypeInv ==
  CommandSpec => [](TypeOK /\ Inv)
<1>1. CommandInit => TypeOK /\ Inv
  BY CommandInitInv
<1>2. TypeOK /\ Inv /\ [CommandNext]_commandVars => TypeOK' /\ Inv'
  BY InvStep
<1> QED
  BY <1>1, <1>2, PTL DEF CommandSpec

LEMMA InvHolds ==
  ASSUME TypeOK, Inv
  PROVE  CommandsHold
<1>1. \A q \in Jobs : JobOK(q) /\ told[q] \subseteq Final
  BY DEF Inv, TypeOK
<1>2. CompletedIsWhole
  BY <1>1 DEF CompletedIsWhole, JobOK, Whole, Asks
<1>3. RefusalIsFinal
  BY <1>1 DEF RefusalIsFinal, JobOK, Untouched
<1>4. MeasuredOnce
  <2>1. ASSUME NEW q \in Jobs, Program[q] = "measure", effects[q] > 0
        PROVE  /\ effects[q] = 1
               /\ \A s \in Jobs \ {q} :
                    Program[s] = "measure" /\ Output[s] = Output[q] => effects[s] = 0
    BY <1>1, <2>1 DEF JobOK
  <2> QED
    BY <2>1 DEF MeasuredOnce
<1>5. OneAnswer
  <2>1. ASSUME NEW q \in Jobs, NEW t \in Definite(q)
        PROVE  /\ t \in told[q]
               /\ \/ t = entry[q] /\ entry[q] \in Final
                  \/ t = Refused /\ RefusedBundle(q)
    BY <1>1, <2>1 DEF JobOK, Definite, Tellable
  <2>2. Begun \notin Final /\ Refused # Done
    BY DEF Begun, Refused, Done, Final, Result
  <2>3. ASSUME NEW q \in Jobs, NEW t \in Definite(q), NEW u \in Definite(q) PROVE u = t
    BY <2>1, <2>2 DEF RefusedBundle
  <2> QED
    BY <2>1, <2>2, <2>3 DEF OneAnswer
<1> QED
  BY <1>2, <1>3, <1>4, <1>5 DEF CommandsHold

(* Whoever repeats a command, dies or loses an answer: a command that is       *)
(* stored as completed has all its files and its effect, a stored refusal is   *)
(* final, a run is measured once, and all callers are told the same in the end *)
(* (operations_retention.execute, operations_bundle.create,                    *)
(* gah_pilot._journalled, gah_benchmark._run_measure).                         *)
THEOREM CommandsCorrect == CommandSpec => []CommandsHold
<1>1. TypeOK /\ Inv => CommandsHold
  BY InvHolds
<1> QED
  BY <1>1, CommandTypeInv, PTL
=============================================================================
