---------------------------- MODULE StorageBudget ----------------------------
(***************************************************************************)
(* One StorageBudget of storage_budget.py, shared by the threads of a      *)
(* process: reservations that outlive a call, atomic writes, observations. *)
(*                                                                         *)
(* Every method holds the lock of the object from beginning to end, so     *)
(* that it is one action.  atomic_write is three, since the files are not  *)
(* under that lock: a thread with a reservation writes its bytes, and      *)
(* other programs write theirs, at any time.                               *)
(***************************************************************************)
EXTENDS Naturals, FiniteSets, FiniteSetsExt

CONSTANTS
  Holders,        \* threads with a reservation each
  FileNames,      \* names atomic_write is called with
  Sizes,          \* bytes asked for and written
  BudgetQuota,    \* quota_bytes
  RollbackReserve,
  TempOverhead,   \* atomic_temp_overhead_bytes
  MaxTroubles,    \* bound: failing system calls and writes of other programs
  NoBytes         \* no reservation, no file

ASSUME BudgetAssumption ==
  /\ Sizes \subseteq Nat
  /\ {BudgetQuota, RollbackReserve, TempOverhead, MaxTroubles} \subseteq Nat
  /\ RollbackReserve <= BudgetQuota /\ NoBytes \notin Nat

VARIABLES
  budget,         \* [state, used]: "OPEN", "FAILED" or "CLOSED", and _used_bytes
  active,         \* holder -> the peak of its reservation or NoBytes
  produced,       \* holder -> its bytes on the disk that are not committed
  settled,        \* bytes of the holders that were committed
  entry,          \* file -> size or NoBytes
  atomic,          \* the atomic_write under way
  lost,           \* bytes of temporary files and of failed reservations that stay
  foreign,        \* somebody else has written in the directory
  troubles

budgetVars == <<budget, active, produced, settled, entry, atomic, lost, foreign, troubles>>

NoWrite == [at |-> "none", file |-> NoBytes, size |-> 0, old |-> NoBytes, peak |-> 0]

BudgetInit ==
  /\ budget = [state |-> "OPEN", used |-> 0]
  /\ active = [h \in Holders |-> NoBytes] /\ produced = [h \in Holders |-> 0]
  /\ settled = 0 /\ lost = 0
  /\ entry = [f \in FileNames |-> NoBytes]
  /\ atomic = NoWrite /\ foreign = FALSE /\ troubles = 0

-----------------------------------------------------------------------------
(* The accounts.                                                            *)

Bytes(x) == IF x = NoBytes THEN 0 ELSE x

\* _measure_root.
OnDisk ==
  MapThenSumSet(LAMBDA f : Bytes(entry[f]), FileNames)
  + MapThenSumSet(LAMBDA h : produced[h], Holders)
  + settled + lost + (IF atomic.at = "temp" THEN atomic.size ELSE 0)

Reserved == MapThenSumSet(LAMBDA h : Bytes(active[h]), Holders) + atomic.peak

\* n bytes can be reserved (_available_locked).
Available(n) == budget.used + RollbackReserve + Reserved + n <= BudgetQuota

Open == budget.state = "OPEN"

\* No method is under way.
Unlocked == atomic.at = "none"

Failed == [budget EXCEPT !.state = "FAILED"]

\* _fail_locked: the first end stands.
FailedNow == IF Open THEN Failed ELSE budget

-----------------------------------------------------------------------------
(* Reservations.                                                            *)

ReserveBytes(h, n) ==
  /\ Unlocked /\ Open /\ active[h] = NoBytes /\ Available(n)
  /\ active' = [active EXCEPT ![h] = n]
  /\ UNCHANGED <<budget, produced, settled, entry, atomic, lost, foreign, troubles>>

\* A holder writes or removes what it has reserved; the lock is not asked.
Produce(h, n) ==
  /\ active[h] # NoBytes /\ n \in 0..active[h] /\ n # produced[h]
  /\ produced' = [produced EXCEPT ![h] = n]
  /\ UNCHANGED <<budget, active, settled, entry, atomic, lost, foreign, troubles>>

\* What the budget accepts as the outcome of a reservation (_commit).
Matches(h, net) == net <= active[h] /\ budget.used + net + RollbackReserve <= BudgetQuota

\* A holder commits the bytes it wrote.
CommitBytes(h) ==
  /\ Unlocked /\ Open /\ active[h] # NoBytes /\ Matches(h, produced[h])
  /\ budget' = [budget EXCEPT !.used = @ + produced[h]]
  /\ settled' = settled + produced[h]
  /\ produced' = [produced EXCEPT ![h] = 0]
  /\ active' = [active EXCEPT ![h] = NoBytes]
  /\ UNCHANGED <<entry, atomic, lost, foreign, troubles>>

\* RESERVATION_MISMATCH: more is committed than was reserved; the bytes stay.
Mismatch(h, net) ==
  /\ Unlocked /\ Open /\ active[h] # NoBytes /\ ~Matches(h, net)
  /\ troubles < MaxTroubles /\ troubles' = troubles + 1
  /\ budget' = Failed
  /\ lost' = lost + produced[h]
  /\ produced' = [produced EXCEPT ![h] = 0]
  /\ active' = [active EXCEPT ![h] = NoBytes]
  /\ UNCHANGED <<settled, entry, atomic, foreign>>

\* In every state of the budget; a holder that gives up has removed its bytes.
AbortBytes(h) ==
  /\ Unlocked /\ active[h] # NoBytes /\ produced[h] = 0
  /\ active' = [active EXCEPT ![h] = NoBytes]
  /\ UNCHANGED <<budget, produced, settled, entry, atomic, lost, foreign, troubles>>

CloseBudget ==
  /\ Unlocked /\ Open /\ \A h \in Holders : active[h] = NoBytes
  /\ budget' = [budget EXCEPT !.state = "CLOSED"]
  /\ UNCHANGED <<active, produced, settled, entry, atomic, lost, foreign, troubles>>

-----------------------------------------------------------------------------
(* Measurements and writes.                                                 *)

\* observe, and the beginning of atomic_write: UNTRACKED_WRITE.
Untracked ==
  /\ Unlocked /\ Open /\ OnDisk # budget.used
  /\ budget' = Failed
  /\ UNCHANGED <<active, produced, settled, entry, atomic, lost, foreign, troubles>>

Larger(a, b) == IF a >= b THEN a ELSE b

\* The old file and the temporary one are there at the same time.
WritePeak(n, old) == Larger(n, IF n > Bytes(old) THEN n - Bytes(old) ELSE 0) + TempOverhead

BeginWrite(f, n) ==
  /\ Unlocked /\ Open /\ OnDisk = budget.used
  /\ Available(WritePeak(n, entry[f]))
  /\ atomic' = [at |-> "temp", file |-> f, size |-> n, old |-> entry[f],
               peak |-> WritePeak(n, entry[f])]
  /\ UNCHANGED <<budget, active, produced, settled, entry, lost, foreign, troubles>>

ReplaceFile ==
  /\ atomic.at = "temp" /\ Bytes(entry[atomic.file]) = Bytes(atomic.old)
  /\ entry' = [entry EXCEPT ![atomic.file] = atomic.size]
  /\ atomic' = [atomic EXCEPT !.at = "replaced"]
  /\ UNCHANGED <<budget, active, produced, settled, lost, foreign, troubles>>

\* TARGET_CHANGED: the reservation is given back, the temporary file removed.
TargetChanged ==
  /\ atomic.at = "temp" /\ Bytes(entry[atomic.file]) # Bytes(atomic.old)
  /\ atomic' = NoWrite
  /\ UNCHANGED <<budget, active, produced, settled, entry, lost, foreign, troubles>>

\* An OSError of a write or of the rename.  The temporary file is removed, or
\* that fails as well.
WriteError ==
  /\ atomic.at = "temp" /\ troubles < MaxTroubles /\ troubles' = troubles + 1
  /\ budget' = FailedNow
  /\ lost' \in {lost, lost + atomic.size}
  /\ atomic' = NoWrite
  /\ UNCHANGED <<active, produced, settled, entry, foreign>>

\* DIRECTORY_FSYNC_FAILED: the file is replaced and nobody accounts for it.
SyncError ==
  /\ atomic.at = "replaced" /\ troubles < MaxTroubles /\ troubles' = troubles + 1
  /\ budget' = FailedNow /\ atomic' = NoWrite
  /\ UNCHANGED <<active, produced, settled, entry, lost, foreign>>

\* The reservation is committed, and the directory measured again:
\* WRITE_ACCOUNTING_MISMATCH after a write of somebody else.
CommitWrite ==
  LET used == budget.used + atomic.size - Bytes(atomic.old)
  IN /\ atomic.at = "replaced"
     /\ budget' = [state |-> IF OnDisk = used THEN budget.state ELSE "FAILED", used |-> used]
     /\ atomic' = NoWrite
     /\ UNCHANGED <<active, produced, settled, entry, lost, foreign, troubles>>

\* Another program writes a file.
Interfere(f, n) ==
  /\ troubles < MaxTroubles /\ troubles' = troubles + 1
  /\ entry[f] # n /\ entry' = [entry EXCEPT ![f] = n]
  /\ foreign' = TRUE
  /\ UNCHANGED <<budget, active, produced, settled, atomic, lost>>

BudgetNext ==
  \/ \E h \in Holders :
       \/ \E n \in Sizes : ReserveBytes(h, n) \/ Produce(h, n) \/ Mismatch(h, n)
       \/ CommitBytes(h) \/ AbortBytes(h)
  \/ \E f \in FileNames : \E n \in Sizes : BeginWrite(f, n) \/ Interfere(f, n)
  \/ ReplaceFile \/ TargetChanged \/ WriteError \/ SyncError \/ CommitWrite
  \/ Untracked \/ CloseBudget

BudgetSpec == BudgetInit /\ [][BudgetNext]_budgetVars

-----------------------------------------------------------------------------
(* Properties.                                                              *)

\* As long as nobody else writes, the bytes on the disk leave the rollback
\* reserve free at every moment: temporary files and what holders have not
\* committed included, and after the budget failed as well (reserve).
QuotaIsKept == ~foreign => OnDisk + RollbackReserve <= BudgetQuota

\* An open budget accounts for every byte but those of present reservations: no
\* failing step leaves bytes behind that nobody would ever notice
\* (atomic_write and its clean-up).
OpenIsExact ==
  Open /\ Unlocked /\ ~foreign =>
    OnDisk = budget.used + MapThenSumSet(LAMBDA h : produced[h], Holders)

\* What the threads rely on.
BudgetHolds == QuotaIsKept /\ OpenIsExact
=============================================================================
