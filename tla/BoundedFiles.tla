----------------------------- MODULE BoundedFiles -----------------------------
(***************************************************************************)
(* A directory of bounded documents: write_bounded of bounded_files.py and *)
(* StorageBudget.atomic_write of storage_budget.py.                        *)
(*                                                                         *)
(* Every write takes the lock of the directory, measures the directory,    *)
(* writes a temporary file and renames it.  A writer may die at any point, *)
(* and the machine may lose power: a rename is safe only once the          *)
(* directory was synchronized.  The lock is the operating system's and     *)
(* ends with its holder; the file it is taken on is made first, in two     *)
(* steps of its own.                                                       *)
(*                                                                         *)
(* A document is a content with a length.  acknowledged is stored nowhere: *)
(* it remembers what writers were told.                                    *)
(***************************************************************************)
EXTENDS Naturals, Sequences, FiniteSets, FiniteSetsExt

CONSTANTS
  Writers,
  Targets,       \* file names
  Mutable,       \* the targets written with immutable=False
  Contents,
  Length(_),     \* the bytes of a content
  Overhead,      \* atomic_temp_overhead_bytes
  QuotaBytes,    \* _quota_bytes
  MaxEntries,    \* MAX_DIRECTORY_ENTRIES
  MaxFailures,   \* bound: deaths, power losses and failing calls of the system
  Free           \* no holder, no file

ASSUME FilesAssumption ==
  /\ Mutable \subseteq Targets
  /\ \A x \in Contents : Length(x) \in Nat
  /\ {Overhead, QuotaBytes, MaxEntries, MaxFailures} \subseteq Nat
  /\ Free \notin Writers \cup Contents

VARIABLES
  lockFile,      \* "none", "empty" or "ready"
  holder,        \* of the lock
  files,         \* target -> content or Free
  durable,       \* what files was when the directory was last synchronized
  writer,        \* what each writer is doing
  temps,         \* writer -> Free or the bytes of its temporary file
  orphans,       \* the lengths of temporary files without an owner
  acknowledged,  \* rows [target, content, replayed]
  failures

fileVars == <<lockFile, holder, files, durable, writer, temps, orphans, acknowledged, failures>>

Resting == [at |-> "rest", target |-> Free, content |-> Free]

FilesInit ==
  /\ lockFile = "none" /\ holder = Free
  /\ files = [t \in Targets |-> Free] /\ durable = files
  /\ writer = [w \in Writers |-> Resting]
  /\ temps = [w \in Writers |-> Free]
  /\ orphans = <<>>
  /\ acknowledged = {} /\ failures = 0

Doing(w, place) == writer[w].at = place

Move(w, place) == writer' = [writer EXCEPT ![w].at = place]

\* The writer is told that it failed, or that its content is stored.
Rest(w) == writer' = [writer EXCEPT ![w] = Resting]

-----------------------------------------------------------------------------
(* What a measurement of the directory counts.                              *)

Size(x) == IF x = Free THEN 0 ELSE Length(x)

Stored == {t \in Targets : files[t] # Free}
Writing == {w \in Writers : temps[w] # Free}

\* _measure_flat_root: every regular file counts, whoever left it there.
UsedBytes ==
  (IF lockFile = "ready" THEN 1 ELSE 0)
  + MapThenSumSet(LAMBDA t : Length(files[t]), Stored)
  + MapThenSumSet(LAMBDA w : temps[w], Writing)
  + MapThenSumSet(LAMBDA i : orphans[i], DOMAIN orphans)

Entries ==
  (IF lockFile = "none" THEN 0 ELSE 1)
  + Cardinality(Stored) + Cardinality(Writing) + Cardinality(DOMAIN orphans)

\* What atomic_write reserves: the temporary file and the old one are there at
\* the same time.
Peak(t, x) == Length(x) + Overhead

Fits(t, x) == UsedBytes <= QuotaBytes /\ Peak(t, x) <= QuotaBytes - UsedBytes

-----------------------------------------------------------------------------
(* The lock.                                                                *)

Begin(w, t, x) ==
  /\ Doing(w, "rest")
  /\ writer' = [writer EXCEPT ![w] = [at |-> "prepare", target |-> t, content |-> x]]
  /\ UNCHANGED <<lockFile, holder, files, durable, temps, orphans, acknowledged, failures>>

\* _prepare_lock_file: the file is created, and its byte written.
CreateLockFile(w) ==
  /\ Doing(w, "prepare") /\ lockFile = "none"
  /\ lockFile' = "empty" /\ Move(w, "byte")
  /\ UNCHANGED <<holder, files, durable, temps, orphans, acknowledged, failures>>

WriteLockByte(w) ==
  /\ Doing(w, "byte")
  /\ lockFile' = "ready" /\ Move(w, "acquire")
  /\ UNCHANGED <<holder, files, durable, temps, orphans, acknowledged, failures>>

LockFileReady(w) ==
  /\ Doing(w, "prepare") /\ lockFile = "ready"
  /\ Move(w, "acquire")
  /\ UNCHANGED <<lockFile, holder, files, durable, temps, orphans, acknowledged, failures>>

\* PATH_REJECTED after thirty seconds of an empty file, OWNER_ACTIVE after
\* thirty seconds of another holder.
GiveUp(w) ==
  /\ \/ Doing(w, "prepare") /\ lockFile = "empty"
     \/ Doing(w, "acquire") /\ holder # Free
  /\ Rest(w)
  /\ UNCHANGED <<lockFile, holder, files, durable, temps, orphans, acknowledged, failures>>

Acquire(w) ==
  /\ Doing(w, "acquire") /\ holder = Free
  /\ holder' = w /\ Move(w, "measure")
  /\ UNCHANGED <<lockFile, files, durable, temps, orphans, acknowledged, failures>>

-----------------------------------------------------------------------------
(* The write, under the lock.                                               *)

\* Too many entries, too many bytes, or another content of this name.
Refused(t, x) ==
  \/ Entries > MaxEntries
  \/ t \notin Mutable /\ files[t] # Free /\ files[t] # x
  \/ (t \in Mutable \/ files[t] = Free) /\ ~Fits(t, x)

Refuse(w) ==
  /\ Doing(w, "measure") /\ Refused(writer[w].target, writer[w].content)
  /\ holder' = Free /\ Rest(w)
  /\ UNCHANGED <<lockFile, files, durable, temps, orphans, acknowledged, failures>>

\* The same content again is an answer without a write; the file, not the
\* directory, is synchronized.
Replay(w) ==
  LET t == writer[w].target
      x == writer[w].content
  IN /\ Doing(w, "measure") /\ ~Refused(t, x)
     /\ t \notin Mutable /\ files[t] = x
     /\ acknowledged' = acknowledged \cup {[target |-> t, content |-> x, replayed |-> TRUE]}
     /\ holder' = Free /\ Rest(w)
     /\ UNCHANGED <<lockFile, files, durable, temps, orphans, failures>>

\* atomic_write up to the synchronized temporary file.
WriteTemp(w) ==
  LET t == writer[w].target
      x == writer[w].content
  IN /\ Doing(w, "measure") /\ ~Refused(t, x)
     /\ t \in Mutable \/ files[t] = Free
     /\ temps' = [temps EXCEPT ![w] = Length(x)]
     /\ Move(w, "replace")
     /\ UNCHANGED <<lockFile, holder, files, durable, orphans, acknowledged, failures>>

\* Mutant of SyncFirst: the answer does not wait for the directory.
SyncLater == "verify"

\* What follows the rename.
SyncFirst == "sync"

\* The rename.
Replace(w) ==
  /\ Doing(w, "replace")
  /\ files' = [files EXCEPT ![writer[w].target] = writer[w].content]
  /\ temps' = [temps EXCEPT ![w] = Free]
  /\ Move(w, SyncFirst)
  /\ UNCHANGED <<lockFile, holder, durable, orphans, acknowledged, failures>>

\* _fsync_directory.
SyncDirectory(w) ==
  /\ Doing(w, "sync")
  /\ durable' = files /\ Move(w, "verify")
  /\ UNCHANGED <<lockFile, holder, files, temps, orphans, acknowledged, failures>>

\* The directory is measured again; an entry too many is an error although
\* the document is stored.
Verify(w) ==
  LET t == writer[w].target
      x == writer[w].content
  IN /\ Doing(w, "verify")
     /\ acknowledged' =
          IF Entries > MaxEntries \/ t \in Mutable THEN acknowledged
          ELSE acknowledged \cup {[target |-> t, content |-> x, replayed |-> FALSE]}
     /\ holder' = Free /\ Rest(w)
     /\ UNCHANGED <<lockFile, files, durable, temps, orphans, failures>>

-----------------------------------------------------------------------------
(* Failures.                                                                *)

Failing == failures < MaxFailures /\ failures' = failures + 1

\* ENOSPC or another error of a write, of the rename or of the directory's
\* synchronization.  The temporary file is removed, or that fails as well.
SystemError(w) ==
  /\ Failing
  /\ \/ Doing(w, "replace") /\ orphans' \in {orphans, Append(orphans, temps[w])}
     \/ Doing(w, "sync") /\ UNCHANGED orphans
  /\ temps' = [temps EXCEPT ![w] = Free]
  /\ holder' = Free /\ Rest(w)
  /\ UNCHANGED <<lockFile, files, durable, acknowledged>>

\* A writer dies; its temporary file stays, written in part or in full.
WriterDies(w) ==
  /\ Failing /\ ~Doing(w, "rest")
  /\ IF temps[w] = Free THEN UNCHANGED orphans
     ELSE \E bytes \in {0, temps[w]} : orphans' = Append(orphans, bytes)
  /\ temps' = [temps EXCEPT ![w] = Free]
  /\ holder' = IF holder = w THEN Free ELSE holder
  /\ Rest(w)
  /\ UNCHANGED <<lockFile, files, durable, acknowledged>>

\* Power loss: each rename since the last synchronization is kept or undone.
\* A temporary file that had one byte in the directory may be there after it.
PowerLoss ==
  /\ Failing
  /\ files' \in {f \in [Targets -> Contents \cup {Free}] :
                   \A t \in Targets : f[t] \in {files[t], durable[t]}}
  /\ durable' = files'
  /\ orphans' \in {orphans} \cup {Append(orphans, temps[w]) : w \in Writing}
  /\ temps' = [w \in Writers |-> Free]
  /\ lockFile' \in {lockFile, IF lockFile = "none" THEN "none" ELSE "empty"}
  /\ holder' = Free /\ writer' = [w \in Writers |-> Resting]
  /\ acknowledged' = {a \in acknowledged : ~a.replayed}

FilesNext ==
  \/ PowerLoss
  \/ \E w \in Writers :
       \/ \E t \in Targets, x \in Contents : Begin(w, t, x)
       \/ CreateLockFile(w) \/ WriteLockByte(w) \/ LockFileReady(w)
       \/ GiveUp(w) \/ Acquire(w)
       \/ Refuse(w) \/ Replay(w) \/ WriteTemp(w) \/ Replace(w) \/ SyncDirectory(w) \/ Verify(w)
       \/ SystemError(w) \/ WriterDies(w)

FilesSpec == FilesInit /\ [][FilesNext]_fileVars

-----------------------------------------------------------------------------
(* Properties.                                                              *)

\* A writer that was told its immutable document is stored can rely on it:
\* no other writer, no failure and no loss of power changes or removes it.  An
\* answer by replay is only good until the power fails (write_bounded).
AcknowledgedIsKept == \A a \in acknowledged : files[a.target] = a.content

\* The bytes stay within the quota and the entries one above their limit at
\* every moment, the temporary files of the writers and of the dead included
\* (_measure_flat_root and the reservation of atomic_write).
WithinDirectoryLimits == UsedBytes <= QuotaBytes /\ Entries <= MaxEntries + 1

\* What a caller of write_bounded relies on, and what it was given the limits for.
DirectoryHolds == AcknowledgedIsKept /\ WithinDirectoryLimits
=============================================================================
