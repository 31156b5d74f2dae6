--------------------------- MODULE PartitionStores ---------------------------
(***************************************************************************)
(* Corpora and trial plans that are too large for one request:             *)
(* partitioned_corpus_store.py and partitioned_plan_store.py.  Each store  *)
(* has one slot for an upload, which is begun with an index, filled        *)
(* segment by segment, and committed when it is complete.                  *)
(*                                                                         *)
(* Every request is one transaction.  The policy, the contract and the     *)
(* permissions a request is checked against change between any two of      *)
(* them; while they are not valid every request is refused.  An index and  *)
(* a segment count one unit of storage.  What the index says, and so what  *)
(* a segment has to be, follows from the corpus, or from the plan and the  *)
(* contract it is for.  The digest of the sources is fixed.                *)
(***************************************************************************)
EXTENDS Naturals, FiniteSets, FiniteSetsExt

CONSTANTS
  Corpora, CorpusParts,   \* the corpora, and the segments each consists of
  Plans, PlanParts,
  Uploads, Managers,
  UploadTtl,              \* UPLOAD_TTL
  MaxTotal,               \* MAX_TOTAL_BYTES
  MaxCommits,             \* MAX_COMMITS
  NoUpload,
  LastSecond, LastGeneration, LastPermission   \* bounds

\* The rows of partition_scale_corpus_upload and partition_plan_upload.
CorpusUploadRows ==
  [id : Uploads, corpus : Corpora, generation : Nat, owner : Managers, permission : Nat,
   size : Nat, expires : Nat]
PlanUploadRows ==
  [id : Uploads, plan : Plans, generation : Nat, owner : Managers, permission : Nat,
   size : Nat, expires : Nat]

ASSUME PartitionAssumption ==
  /\ {UploadTtl, MaxTotal, MaxCommits} \subseteq Nat \ {0}
  /\ {LastSecond, LastGeneration, LastPermission} \subseteq Nat
  /\ IsFiniteSet(CorpusParts) /\ IsFiniteSet(PlanParts)
  /\ NoUpload \notin CorpusUploadRows \cup PlanUploadRows

VARIABLES
  storeClock,            \* adoption_meta.last_clock
  policyGeneration, contractGeneration, permissionGeneration,
  corpusUpload,          \* NoUpload or the row of partition_scale_corpus_upload
  corpusSegments,        \* [upload, part]
  corpusCommits,         \* <<corpus, policy generation>> -> its commit and segments
  planUpload,            \* NoUpload or the row of partition_plan_upload
  planSegments,          \* [plan, part, generation], staged and committed alike
  planCommits            \* plan -> its commit

grounds == <<policyGeneration, contractGeneration, permissionGeneration>>
corpusVars == <<corpusUpload, corpusSegments, corpusCommits>>
planVars == <<planUpload, planSegments, planCommits>>
partitionVars == <<storeClock, grounds, corpusVars, planVars>>

PartitionInit ==
  /\ storeClock = 0 /\ policyGeneration = 1 /\ contractGeneration = 1 /\ permissionGeneration = 0
  /\ corpusUpload = NoUpload /\ corpusSegments = {} /\ corpusCommits = [k \in {} |-> {}]
  /\ planUpload = NoUpload /\ planSegments = {} /\ planCommits = [p \in {} |-> {}]

\* A policy or a contract is adopted, permissions are withdrawn.
ChangeGrounds ==
  /\ \/ policyGeneration < LastGeneration /\ policyGeneration' = policyGeneration + 1
        /\ UNCHANGED <<contractGeneration, permissionGeneration>>
     \/ contractGeneration < LastGeneration /\ contractGeneration' = contractGeneration + 1
        /\ UNCHANGED <<policyGeneration, permissionGeneration>>
     \/ permissionGeneration < LastPermission /\ permissionGeneration' = permissionGeneration + 1
        /\ UNCHANGED <<policyGeneration, contractGeneration>>
  /\ UNCHANGED <<storeClock, corpusVars, planVars>>

Asked(now) == storeClock' = now

TakenBy(commits) == MapThenSumSet(LAMBDA k : commits[k].size, DOMAIN commits)

Room(commits, size) == TakenBy(commits) + size <= MaxTotal

\* A row for k is inserted.
WithCommit(commits, k, commit) ==
  [x \in DOMAIN commits \cup {k} |-> IF x = k THEN commit ELSE commits[x]]

-----------------------------------------------------------------------------
(* The corpus store.                                                        *)

CorpusIds == {corpusCommits[k].id : k \in DOMAIN corpusCommits}

\* _upload and _check_upload.  The slot of an id that has a commit is refused
\* as corrupt.
CurrentCorpus(u, a, now) ==
  /\ corpusUpload # NoUpload /\ corpusUpload.id = u /\ corpusUpload.owner = a
  /\ u \notin CorpusIds
  /\ corpusUpload.generation = policyGeneration
  /\ now < corpusUpload.expires
  /\ corpusUpload.permission = permissionGeneration

\* _validate_committed, and that it is the asker's.
CorpusAnswered(k, u, a) ==
  /\ k \in DOMAIN corpusCommits /\ k[2] = policyGeneration
  /\ corpusCommits[k].id = u /\ corpusCommits[k].owner = a
  /\ corpusCommits[k].permission = permissionGeneration

CorpusSlotFree(now) ==
  corpusUpload # NoUpload => corpusUpload.expires <= now /\ corpusUpload.id \notin CorpusIds

corpus_begin(u, c, a, now) ==
  /\ Asked(now)
  /\ <<c, policyGeneration>> \notin DOMAIN corpusCommits
  /\ CorpusSlotFree(now)
  /\ Cardinality(DOMAIN corpusCommits) < MaxCommits /\ Room(corpusCommits, 1)
  /\ corpusUpload' = [id |-> u, corpus |-> c, generation |-> policyGeneration, owner |-> a,
                      permission |-> permissionGeneration, size |-> 1,
                      expires |-> now + UploadTtl]
  /\ corpusSegments' = {s \in corpusSegments :
                          corpusUpload = NoUpload \/ s.upload # corpusUpload.id}
  /\ UNCHANGED <<grounds, corpusCommits, planVars>>

\* A repeated begin or segment, a status, and the repetition of a commit.
corpus_answered(u, a, now) ==
  /\ Asked(now)
  /\ \/ CurrentCorpus(u, a, now)
     \/ \E k \in DOMAIN corpusCommits :
          CorpusAnswered(k, u, a) /\ (corpusUpload # NoUpload => corpusUpload.id # u)
  /\ UNCHANGED <<grounds, corpusVars, planVars>>

corpus_put(u, a, part, now) ==
  /\ Asked(now)
  /\ CurrentCorpus(u, a, now)
  /\ [upload |-> u, part |-> part] \notin corpusSegments
  /\ Room(corpusCommits, corpusUpload.size + 1)
  /\ corpusSegments' = corpusSegments \cup {[upload |-> u, part |-> part]}
  /\ corpusUpload' = [corpusUpload EXCEPT !.size = @ + 1]
  /\ UNCHANGED <<grounds, corpusCommits, planVars>>

Staged(u) == {s.part : s \in {t \in corpusSegments : t.upload = u}}

EmptyCorpusSlot(u) ==
  corpusUpload' = NoUpload /\ corpusSegments' = {s \in corpusSegments : s.upload # u}

corpus_abort(u, a, now) ==
  /\ Asked(now)
  /\ CurrentCorpus(u, a, now)
  /\ EmptyCorpusSlot(u)
  /\ UNCHANGED <<grounds, corpusCommits, planVars>>

\* The commit of a corpus whose upload is under way is not stored yet, so the
\* branch for a stored one is never taken.
corpus_commit(u, a, now) ==
  /\ Asked(now)
  /\ CurrentCorpus(u, a, now)
  /\ Staged(u) = CorpusParts
  /\ Cardinality(DOMAIN corpusCommits) < MaxCommits /\ Room(corpusCommits, corpusUpload.size)
  /\ corpusCommits' = WithCommit(corpusCommits, <<corpusUpload.corpus, policyGeneration>>,
       [id |-> u, owner |-> a, permission |-> permissionGeneration, parts |-> Staged(u),
        size |-> corpusUpload.size, at |-> now])
  /\ EmptyCorpusSlot(u)
  /\ UNCHANGED <<grounds, planVars>>

-----------------------------------------------------------------------------
(* The plan store.                                                          *)

SegmentsOf(p) == {s \in planSegments : s.plan = p}

\* The requested manager's own upload, whatever has become of its grounds.
OwnPlan(u, a) ==
  planUpload # NoUpload /\ planUpload.id = u /\ planUpload.owner = a

\* _authority_context and _current_upload.
CurrentPlan(u, a, now) ==
  /\ OwnPlan(u, a) /\ planUpload.plan \notin DOMAIN planCommits
  /\ planUpload.generation = contractGeneration
  /\ now < planUpload.expires
  /\ planUpload.permission = permissionGeneration

\* Mutant of Leftover: the plan that is begun is tidied up, not the expired one.
LeftoverRequested(p) == p

\* The plan whose segments go when the upload of p begins.
Leftover(p) == planUpload.plan

plan_begin(u, p, a, now) ==
  /\ Asked(now)
  /\ p \notin DOMAIN planCommits
  /\ planUpload # NoUpload =>
       planUpload.expires <= now /\ planUpload.plan \notin DOMAIN planCommits
  /\ Cardinality(DOMAIN planCommits) < MaxCommits /\ Room(planCommits, 1)
  /\ planUpload' = [id |-> u, plan |-> p, generation |-> contractGeneration, owner |-> a,
                    permission |-> permissionGeneration, size |-> 1,
                    expires |-> now + UploadTtl]
  /\ planSegments' = IF planUpload = NoUpload THEN planSegments
                     ELSE planSegments \ SegmentsOf(Leftover(p))
  /\ UNCHANGED <<grounds, corpusVars, planCommits>>

\* A status, a repeated begin or segment, and the begin of a committed plan,
\* which anyone may ask for.
plan_answered(u, p, a, now) ==
  /\ Asked(now)
  /\ \/ CurrentPlan(u, a, now)
     \/ /\ p \in DOMAIN planCommits
        /\ planCommits[p].generation = contractGeneration
        /\ planCommits[p].permission = permissionGeneration
  /\ UNCHANGED <<grounds, corpusVars, planVars>>

plan_put(u, a, part, now) ==
  /\ Asked(now)
  /\ CurrentPlan(u, a, now)
  /\ part \notin {s.part : s \in SegmentsOf(planUpload.plan)}
  /\ Room(planCommits, planUpload.size + 1)
  /\ planSegments' = planSegments \cup
       {[plan |-> planUpload.plan, part |-> part, generation |-> contractGeneration]}
  /\ planUpload' = [planUpload EXCEPT !.size = @ + 1]
  /\ UNCHANGED <<grounds, corpusVars, planCommits>>

\* The grounds and the time do not matter.
plan_abort(u, a, now) ==
  /\ Asked(now)
  /\ OwnPlan(u, a) /\ planUpload.plan \notin DOMAIN planCommits
  /\ planUpload' = NoUpload
  /\ planSegments' = planSegments \ SegmentsOf(planUpload.plan)
  /\ UNCHANGED <<grounds, corpusVars, planCommits>>

\* The segments stay where they are.
plan_commit(u, a, now) ==
  /\ Asked(now)
  /\ CurrentPlan(u, a, now)
  /\ {s.part : s \in SegmentsOf(planUpload.plan)} = PlanParts
  /\ Cardinality(DOMAIN planCommits) < MaxCommits /\ Room(planCommits, planUpload.size)
  /\ planCommits' = WithCommit(planCommits, planUpload.plan,
       [generation |-> contractGeneration, permission |-> permissionGeneration,
        size |-> planUpload.size, at |-> now])
  /\ planUpload' = NoUpload
  /\ UNCHANGED <<grounds, corpusVars, planSegments>>

-----------------------------------------------------------------------------
CorpusNext(u, a, now) ==
  \/ \E c \in Corpora : corpus_begin(u, c, a, now)
  \/ corpus_answered(u, a, now)
  \/ \E part \in CorpusParts : corpus_put(u, a, part, now)
  \/ corpus_abort(u, a, now)
  \/ corpus_commit(u, a, now)

PlanNext(u, a, now) ==
  \/ \E p \in Plans : plan_begin(u, p, a, now) \/ plan_answered(u, p, a, now)
  \/ \E part \in PlanParts : plan_put(u, a, part, now)
  \/ plan_abort(u, a, now)
  \/ plan_commit(u, a, now)

PartitionNext ==
  \/ \E u \in Uploads, a \in Managers, now \in storeClock .. LastSecond :
       CorpusNext(u, a, now) \/ PlanNext(u, a, now)
  \/ ChangeGrounds

PartitionSpec == PartitionInit /\ [][PartitionNext]_partitionVars

-----------------------------------------------------------------------------
(* Properties.                                                              *)

\* Whatever expired, was aborted or begun again under the same id: a committed
\* corpus is whole, the slot holds its own segments and no others, its size is
\* what they take, it is for a corpus without a commit, and all of it fits.
CorporaHold ==
  /\ \A k \in DOMAIN corpusCommits :
       /\ corpusCommits[k].parts = CorpusParts
       /\ corpusCommits[k].size = 1 + Cardinality(CorpusParts)
  /\ \A s \in corpusSegments : corpusUpload # NoUpload /\ s.upload = corpusUpload.id
  /\ corpusUpload # NoUpload =>
       /\ corpusUpload.size = 1 + Cardinality(corpusSegments)
       /\ <<corpusUpload.corpus, corpusUpload.generation>> \notin DOMAIN corpusCommits
       /\ Room(corpusCommits, corpusUpload.size)

\* The same of plans, whose committed segments lie in the table in which uploads
\* are staged and tidied up: they are those of the contract that was committed.
PlansHold ==
  /\ \A p \in DOMAIN planCommits :
       /\ SegmentsOf(p) = {[plan |-> p, part |-> x, generation |-> planCommits[p].generation]
                             : x \in PlanParts}
       /\ planCommits[p].size = 1 + Cardinality(PlanParts)
  /\ \A s \in planSegments :
       \/ s.plan \in DOMAIN planCommits
       \/ /\ planUpload # NoUpload
          /\ s.plan = planUpload.plan /\ s.generation = planUpload.generation
  /\ planUpload # NoUpload =>
       /\ planUpload.plan \notin DOMAIN planCommits
       /\ planUpload.size = 1 + Cardinality(SegmentsOf(planUpload.plan))
       /\ Room(planCommits, planUpload.size)

\* What the two stores promise their readers.
UploadsHold == CorporaHold /\ PlansHold

\* A commit is written once: neither it nor its segments change or go.
CommitsKeptStep ==
  /\ \A k \in DOMAIN corpusCommits :
       k \in DOMAIN corpusCommits' /\ corpusCommits'[k] = corpusCommits[k]
  /\ \A p \in DOMAIN planCommits :
       /\ p \in DOMAIN planCommits' /\ planCommits'[p] = planCommits[p]
       /\ SegmentsOf(p) \subseteq planSegments'

\* An upload id that was committed is not used again for another corpus: "the
\* reuse for a different body or by another owner is a conflict" (docs/
\* productization-corpus-provisioning-spec.md:68), and the commit can be
\* repeated after a lost answer.
UploadIdsBindOnce == corpusUpload # NoUpload => corpusUpload.id \notin CorpusIds
=============================================================================
