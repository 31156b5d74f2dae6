---------------------------- MODULE ChainProofs ----------------------------
(***************************************************************************)
(* The permission store, the chain of grounds built on it and the pilots   *)
(* beside it, for every number of proposals, validations, withdrawals and  *)
(* requests.                                                               *)
(*                                                                         *)
(* What keeps the adoptions sound: a stored validation and a stored        *)
(* proposal are never written again, no row is younger than the store's    *)
(* clock, and no withdrawal is newer than the generation of permissions.   *)
(***************************************************************************)
EXTENDS EvaluationChain, PilotAuthority, FiniteSetTheorems, FunctionTheorems, TLAPS

ProposalRows == [expected : 0 .. MaxPolicies, at : Times]

ValidationRows ==
  [proposal : Proposals, expected : 0 .. MaxPolicies, observed : Times,
   expires : Nat, permission : 0 .. MaxPermission]

\* A stored proposal: not in the future.
ProposalSound(p) == proposals[p] # None => proposals[p].at <= lastClock

\* A stored validation: made of a stored proposal, not in the future.
ValidationSound(v) ==
  validations[v] # None =>
    LET row == validations[v]
    IN /\ proposals[row.proposal] # None
       /\ proposals[row.proposal].at <= row.observed
       /\ proposals[row.proposal].expected = row.expected
       /\ row.observed <= lastClock
       /\ row.permission <= permissionGeneration

\* An adoption: made on a stored validation of a stored proposal, both of the
\* generation before, and after every withdrawal the validation does not know.
AdoptionSound(a) ==
  LET v == validations[a.validation]
  IN /\ proposals[a.proposal] # None /\ v # None
     /\ proposals[a.proposal].expected = a.generation - 1
     /\ v.proposal = a.proposal /\ v.expected = a.generation - 1
     /\ v.observed <= a.at /\ a.at < v.expires /\ a.at <= lastClock
     /\ \A row \in revocations : row.at < a.at => row.generation <= v.permission

HistorySound ==
  \A i \in 1 .. Len(policyAdoptions) :
    /\ policyAdoptions[i].generation = i
    /\ AdoptionSound(policyAdoptions[i])
    /\ i > 1 => policyAdoptions[i - 1].at <= policyAdoptions[i].at

WithdrawalsKnown ==
  \A row \in revocations : row.generation <= permissionGeneration /\ row.at <= lastClock

CurrentIsLast ==
  currentProfile = (IF policyAdoptions = <<>> THEN None
                    ELSE policyAdoptions[Len(policyAdoptions)])

AdoptionInv ==
  /\ AdoptionTypeOK /\ CurrentIsLast /\ HistorySound /\ WithdrawalsKnown
  /\ \A p \in Proposals : ProposalSound(p)
  /\ \A v \in Validations : ValidationSound(v)
  /\ StoredAnswersAreHistory

-----------------------------------------------------------------------------
\* The generation that a request finds is the length of the history
\* (_current_generation reads one row, the history is another table).
LEMMA GenerationIsLength ==
  ASSUME AdoptionInv
  PROVE  /\ PolicyGeneration = Len(policyAdoptions)
         /\ Len(policyAdoptions) \in Nat
         /\ PolicyGeneration \in 0 .. MaxPolicies
         /\ \A i \in 1 .. Len(policyAdoptions) : policyAdoptions[i] \in PolicyRows
<1>1. policyAdoptions \in Seq(PolicyRows) /\ Len(policyAdoptions) \in Nat
  BY DEF AdoptionInv, AdoptionTypeOK
<1>2. \A i \in 1 .. Len(policyAdoptions) : policyAdoptions[i] \in PolicyRows
  BY <1>1
<1>3. CASE policyAdoptions = <<>>
  BY <1>1, <1>2, <1>3, AdoptionAssumption DEF AdoptionInv, CurrentIsLast, PolicyGeneration
<1>4. CASE policyAdoptions # <<>>
  <2>1. Len(policyAdoptions) \in 1 .. Len(policyAdoptions)
    BY <1>1, <1>4
  <2> DEFINE last == policyAdoptions[Len(policyAdoptions)]
  <2>2. currentProfile = last /\ last \in PolicyRows
    BY <2>1, <1>2, <1>4 DEF AdoptionInv, CurrentIsLast
  <2>3. currentProfile # None
    BY <2>2, AbsenceAssumption
  <2>4. last.generation = Len(policyAdoptions)
    BY <2>1 DEF AdoptionInv, HistorySound
  <2>5. last.generation \in 1 .. MaxPolicies
    BY <2>2 DEF PolicyRows
  <2> QED
    BY <2>2, <2>3, <2>4, <2>5, <1>1, <1>2, AdoptionAssumption DEF PolicyGeneration
<1> QED
  BY <1>3, <1>4

\* The empty store is sound (__init__ creates the tables).
LEMMA AdoptionBegins ==
  ASSUME AdoptionInit
  PROVE  AdoptionInv
<1>1. AdoptionTypeOK
  BY AdoptionAssumption DEF AdoptionInit, AdoptionTypeOK, Times
<1>2. CurrentIsLast /\ HistorySound /\ WithdrawalsKnown
  BY DEF AdoptionInit, CurrentIsLast, HistorySound, WithdrawalsKnown
<1>3. \A v \in Validations : ValidationSound(v)
  BY DEF AdoptionInit, ValidationSound
<1>4. \A p \in Proposals : ProposalSound(p)
  BY DEF AdoptionInit, ProposalSound
<1>5. StoredAnswersAreHistory
  BY DEF AdoptionInit, StoredAnswersAreHistory
<1> QED
  BY <1>1, <1>2, <1>3, <1>4, <1>5 DEF AdoptionInv

-----------------------------------------------------------------------------
(* A request that only writes its time and its answer.                      *)

\* An answer that tells no adoption, or one that a stored answer tells already.
LEMMA AnswersKept ==
  ASSUME AdoptionInv, NEW r \in Ids, NEW action \in {"other", "current", "receipt"},
         NEW answer \in {None} \cup PolicyRows,
         StoreResult(r, action, answer),
         UNCHANGED policyAdoptions,
         action = "receipt" =>
           answer.generation \in DOMAIN policyAdoptions /\ policyAdoptions[answer.generation] = answer
  PROVE  /\ StoredAnswersAreHistory'
         /\ idempotency' \in
              [Requests -> {None} \cup
                 [action : {"other", "adopt", "current", "receipt"}, answer : {None} \cup PolicyRows]]
<1>1. CASE r = Once
  BY <1>1 DEF AdoptionInv, AdoptionTypeOK, StoredAnswersAreHistory, StoreResult
<1>2. CASE r # Once
  <2>1. r \in Requests
    BY <1>2 DEF Ids
  <2> DEFINE stored == [action |-> action, answer |-> answer]
  <2>2. /\ stored.action = action /\ stored.answer = answer
        /\ stored \in [action : {"other", "adopt", "current", "receipt"}, answer : {None} \cup PolicyRows]
    OBVIOUS
  <2>3. idempotency' = [idempotency EXCEPT ![r] = stored]
    BY <1>2 DEF StoreResult
  <2> HIDE DEF stored
  <2>4. \A q \in Requests : q # r => idempotency'[q] = idempotency[q]
    BY <2>3 DEF AdoptionInv, AdoptionTypeOK
  <2>5. idempotency'[r] = stored
    BY <2>1, <2>3 DEF AdoptionInv, AdoptionTypeOK
  <2>6. idempotency' \in
          [Requests -> {None} \cup
             [action : {"other", "adopt", "current", "receipt"}, answer : {None} \cup PolicyRows]]
    BY <2>1, <2>2, <2>3 DEF AdoptionInv, AdoptionTypeOK
  <2>7. StoredAnswersAreHistory'
    <3> SUFFICES ASSUME NEW q \in Requests,
                        idempotency'[q].action \in {"adopt", "receipt"}, idempotency'[q] # None
                 PROVE  /\ idempotency'[q].answer.generation \in DOMAIN policyAdoptions
                        /\ policyAdoptions[idempotency'[q].answer.generation] = idempotency'[q].answer
      BY DEF StoredAnswersAreHistory
    <3>1. CASE q = r
      BY <3>1, <2>2, <2>5
    <3>2. CASE q # r
      BY <3>2, <2>4 DEF AdoptionInv, StoredAnswersAreHistory
    <3> QED
      BY <3>1, <3>2
  <2> QED
    BY <2>6, <2>7
<1> QED
  BY <1>1, <1>2

\* Nothing but the clock moves: current, receipt, and every request of the
\* extensions of the store.
LEMMA QuietKeeps ==
  ASSUME AdoptionInv, NEW now \in Times, Now(now),
         UNCHANGED <<permissionGeneration, revocations, policyVars>>,
         StoredAnswersAreHistory',
         idempotency' \in
           [Requests -> {None} \cup
              [action : {"other", "adopt", "current", "receipt"}, answer : {None} \cup PolicyRows]]
  PROVE  AdoptionInv'
<1>1. lastClock' = now /\ lastClock <= now /\ now \in Nat /\ lastClock \in Int
  BY AdoptionAssumption DEF Now, AdoptionInv, AdoptionTypeOK, Times
<1>2. AdoptionTypeOK'
  BY <1>1 DEF AdoptionInv, AdoptionTypeOK, policyVars
<1>3. CurrentIsLast'
  BY DEF AdoptionInv, CurrentIsLast, policyVars
<1>4. WithdrawalsKnown'
  <2> SUFFICES ASSUME NEW row \in revocations
               PROVE  row.generation <= permissionGeneration /\ row.at <= lastClock'
    BY DEF WithdrawalsKnown
  <2>1. row.at \in Int /\ row.at <= lastClock
    BY DEF AdoptionInv, AdoptionTypeOK, WithdrawalsKnown, Times
  <2> QED
    BY <2>1, <1>1 DEF AdoptionInv, WithdrawalsKnown
<1>5. ASSUME NEW v \in Validations
      PROVE  ValidationSound(v)'
  <2> SUFFICES ASSUME validations[v] # None
               PROVE  ValidationSound(v)'
    BY DEF ValidationSound, policyVars
  <2>1. validations[v] \in ValidationRows
    BY DEF AdoptionInv, AdoptionTypeOK, ValidationRows
  <2>2. validations[v].observed \in Int
    BY <2>1 DEF ValidationRows, Times
  <2> QED
    BY <2>2, <1>1 DEF AdoptionInv, ValidationSound, policyVars
<1>6. HistorySound'
  <2> SUFFICES ASSUME NEW i \in 1 .. Len(policyAdoptions)
               PROVE  /\ policyAdoptions[i].generation = i
                      /\ AdoptionSound(policyAdoptions[i])'
                      /\ i > 1 => policyAdoptions[i - 1].at <= policyAdoptions[i].at
    BY DEF HistorySound, policyVars
  <2>1. policyAdoptions[i] \in PolicyRows
    BY GenerationIsLength
  <2>2. policyAdoptions[i].at \in Int
    BY <2>1 DEF PolicyRows, Times
  <2>3. AdoptionSound(policyAdoptions[i])'
    BY <2>2, <1>1 DEF AdoptionInv, HistorySound, AdoptionSound, policyVars
  <2> QED
    BY <2>3 DEF AdoptionInv, HistorySound
<1>7. ASSUME NEW p \in Proposals
      PROVE  ProposalSound(p)'
  <2> SUFFICES ASSUME proposals[p] # None
               PROVE  ProposalSound(p)'
    BY DEF ProposalSound, policyVars
  <2>1. proposals[p] \in ProposalRows
    BY DEF AdoptionInv, AdoptionTypeOK, ProposalRows
  <2>2. proposals[p].at \in Int
    BY <2>1 DEF ProposalRows, Times
  <2> QED
    BY <2>2, <1>1 DEF AdoptionInv, ProposalSound, policyVars
<1> QED
  BY <1>2, <1>3, <1>4, <1>5, <1>6, <1>7 DEF AdoptionInv

\* current (current marks its id and keeps no answer).
LEMMA CurrentKeeps ==
  ASSUME AdoptionInv, NEW r \in Ids, NEW now \in Times, current(r, now)
  PROVE  AdoptionInv'
<1>1. StoreResult(r, "current", None) /\ UNCHANGED policyAdoptions
  BY DEF current, policyVars
<1>2. Now(now) /\ UNCHANGED <<permissionGeneration, revocations, policyVars>>
  BY DEF current
<1> QED
  BY <1>1, <1>2, AnswersKept, QuietKeeps

\* receipt shows the stored answer of an adoption (_receipt).
LEMMA ReceiptKeeps ==
  ASSUME AdoptionInv, NEW r \in Ids, NEW now \in Times, NEW adoption \in Requests,
         receipt(r, adoption, now)
  PROVE  AdoptionInv'
<1> DEFINE answer == idempotency[adoption].answer
<1>1. StoreResult(r, "receipt", answer) /\ UNCHANGED policyAdoptions
  BY DEF receipt, policyVars
<1>2. Now(now) /\ UNCHANGED <<permissionGeneration, revocations, policyVars>>
  BY DEF receipt
<1>3. idempotency[adoption] # None /\ idempotency[adoption].action = "adopt"
  BY DEF receipt
<1>4. answer \in {None} \cup PolicyRows
  BY <1>3 DEF AdoptionInv, AdoptionTypeOK
<1>5. answer.generation \in DOMAIN policyAdoptions /\ policyAdoptions[answer.generation] = answer
  BY <1>3 DEF AdoptionInv, StoredAnswersAreHistory
<1> HIDE DEF answer
<1> QED
  BY <1>1, <1>2, <1>4, <1>5, AnswersKept, QuietKeeps

-----------------------------------------------------------------------------
(* Rows that are written once.                                              *)

\* What a new row of proposals or validations leaves alone: the history, and
\* every row that is stored already.
LEMMA RowsKept ==
  ASSUME AdoptionInv, NEW now \in Times, Now(now),
         UNCHANGED <<permissionGeneration, revocations, currentProfile, policyAdoptions>>,
         \A p \in Proposals : proposals[p] # None => proposals'[p] = proposals[p],
         \A v \in Validations : validations[v] # None => validations'[v] = validations[v],
         proposals' \in [Proposals -> {None} \cup ProposalRows],
         validations' \in [Validations -> {None} \cup ValidationRows],
         \A p \in Proposals : proposals[p] = None => ProposalSound(p)',
         \A v \in Validations : validations[v] = None => ValidationSound(v)',
         StoredAnswersAreHistory',
         idempotency' \in
           [Requests -> {None} \cup
              [action : {"other", "adopt", "current", "receipt"}, answer : {None} \cup PolicyRows]]
  PROVE  AdoptionInv'
<1>1. lastClock' = now /\ lastClock <= now /\ now \in Nat /\ lastClock \in Int
  BY AdoptionAssumption DEF Now, AdoptionInv, AdoptionTypeOK, Times
<1>2. AdoptionTypeOK'
  BY <1>1 DEF AdoptionInv, AdoptionTypeOK, ProposalRows, ValidationRows
<1>3. CurrentIsLast'
  BY DEF AdoptionInv, CurrentIsLast
<1>4. WithdrawalsKnown'
  <2> SUFFICES ASSUME NEW row \in revocations
               PROVE  row.generation <= permissionGeneration /\ row.at <= lastClock'
    BY DEF WithdrawalsKnown
  <2>1. row.at \in Int /\ row.at <= lastClock
    BY DEF AdoptionInv, AdoptionTypeOK, WithdrawalsKnown, Times
  <2> QED
    BY <2>1, <1>1 DEF AdoptionInv, WithdrawalsKnown
<1>5. ASSUME NEW v \in Validations
      PROVE  ValidationSound(v)'
  <2>1. CASE validations[v] = None
    BY <2>1
  <2>2. CASE validations[v] # None
    <3>1. validations[v] \in ValidationRows
      BY <2>2 DEF AdoptionInv, AdoptionTypeOK, ValidationRows
    <3>2. validations[v].observed \in Int /\ validations[v].proposal \in Proposals
      BY <3>1 DEF ValidationRows, Times
    <3>3. validations'[v] = validations[v]
      BY <2>2
    <3>4. proposals[validations[v].proposal] # None
      BY <2>2 DEF AdoptionInv, ValidationSound
    <3>5. proposals'[validations[v].proposal] = proposals[validations[v].proposal]
      BY <3>2, <3>4
    <3> QED
      BY <2>2, <3>2, <3>3, <3>4, <3>5, <1>1 DEF AdoptionInv, ValidationSound
  <2> QED
    BY <2>1, <2>2
<1>6. HistorySound'
  <2> SUFFICES ASSUME NEW i \in 1 .. Len(policyAdoptions)
               PROVE  /\ policyAdoptions[i].generation = i
                      /\ AdoptionSound(policyAdoptions[i])'
                      /\ i > 1 => policyAdoptions[i - 1].at <= policyAdoptions[i].at
    BY DEF HistorySound
  <2>1. policyAdoptions[i] \in PolicyRows
    BY GenerationIsLength
  <2>2. /\ policyAdoptions[i].at \in Int /\ policyAdoptions[i].proposal \in Proposals
        /\ policyAdoptions[i].validation \in Validations
    BY <2>1 DEF PolicyRows, Times
  <2>3. AdoptionSound(policyAdoptions[i])
    BY DEF AdoptionInv, HistorySound
  <2>4. /\ proposals'[policyAdoptions[i].proposal] = proposals[policyAdoptions[i].proposal]
        /\ validations'[policyAdoptions[i].validation] = validations[policyAdoptions[i].validation]
    BY <2>2, <2>3 DEF AdoptionSound
  <2>5. AdoptionSound(policyAdoptions[i])'
    BY <2>2, <2>3, <2>4, <1>1 DEF AdoptionSound
  <2> QED
    BY <2>5 DEF AdoptionInv, HistorySound
<1>7. ASSUME NEW p \in Proposals
      PROVE  ProposalSound(p)'
  <2>1. CASE proposals[p] = None
    BY <2>1
  <2>2. CASE proposals[p] # None
    <3>1. proposals[p] \in ProposalRows
      BY <2>2 DEF AdoptionInv, AdoptionTypeOK, ProposalRows
    <3>2. proposals[p].at \in Int
      BY <3>1 DEF ProposalRows, Times
    <3> QED
      BY <2>2, <3>2, <1>1 DEF AdoptionInv, ProposalSound
  <2> QED
    BY <2>1, <2>2
<1> QED
  BY <1>2, <1>3, <1>4, <1>5, <1>6, <1>7 DEF AdoptionInv

\* propose (_propose writes a row, or answers from the one that is there).
LEMMA ProposeKeeps ==
  ASSUME AdoptionInv, NEW r \in Ids, NEW now \in Times, NEW p \in Proposals, propose(r, p, now)
  PROVE  AdoptionInv'
<1>1. /\ StoreResult(r, "other", None) /\ Now(now)
      /\ UNCHANGED <<permissionGeneration, revocations, validations, currentProfile, policyAdoptions>>
  BY DEF propose, Dispatch
<1>2. PolicyGeneration \in 0 .. MaxPolicies
  BY GenerationIsLength
<1>3. proposals \in [Proposals -> {None} \cup ProposalRows]
  BY DEF AdoptionInv, AdoptionTypeOK, ProposalRows
<1> DEFINE new == [expected |-> PolicyGeneration, at |-> now]
<1>4. new \in ProposalRows
  BY <1>2 DEF ProposalRows
<1>5. proposals' = IF proposals[p] # None THEN proposals ELSE [proposals EXCEPT ![p] = new]
  BY DEF propose
<1> HIDE DEF new
<1>6. /\ proposals' \in [Proposals -> {None} \cup ProposalRows]
      /\ \A q \in Proposals : proposals[q] # None => proposals'[q] = proposals[q]
  BY <1>3, <1>4, <1>5
<1>7. validations' \in [Validations -> {None} \cup ValidationRows]
  BY <1>1 DEF AdoptionInv, AdoptionTypeOK, ValidationRows
<1>8. \A v \in Validations : validations[v] = None => ValidationSound(v)'
  BY <1>1 DEF ValidationSound
<1>9. /\ StoredAnswersAreHistory'
      /\ idempotency' \in
           [Requests -> {None} \cup
              [action : {"other", "adopt", "current", "receipt"}, answer : {None} \cup PolicyRows]]
  BY <1>1, AnswersKept
<1>10. ASSUME NEW q \in Proposals, proposals[q] = None
       PROVE  ProposalSound(q)'
  <2>1. CASE q = p
    <3>1. proposals'[q] = new
      BY <2>1, <1>3, <1>5, <1>10
    <3>2. new.at = now
      BY DEF new
    <3> QED
      BY <3>1, <3>2, <1>1 DEF ProposalSound, Now, AdoptionInv, AdoptionTypeOK, Times
  <2>2. CASE q # p
    <3>1. proposals'[q] = None
      BY <2>2, <1>3, <1>5, <1>10
    <3> QED
      BY <3>1 DEF ProposalSound
  <2> QED
    BY <2>1, <2>2
<1> QED
  BY <1>1, <1>6, <1>7, <1>8, <1>9, <1>10, RowsKept

\* validate (_validate copies the proposal's generation and the permissions).
LEMMA ValidateKeeps ==
  ASSUME AdoptionInv, NEW r \in Ids, NEW now \in Times, NEW v \in Validations,
         NEW p \in Proposals, validate(r, v, p, now)
  PROVE  AdoptionInv'
<1>1. /\ StoreResult(r, "other", None) /\ Now(now) /\ proposals[p] # None
      /\ UNCHANGED <<permissionGeneration, revocations, proposals, currentProfile, policyAdoptions>>
  BY DEF validate, Dispatch
<1>2. proposals[p] \in ProposalRows
  BY <1>1 DEF AdoptionInv, AdoptionTypeOK, ProposalRows
<1>3. validations \in [Validations -> {None} \cup ValidationRows]
  BY DEF AdoptionInv, AdoptionTypeOK, ValidationRows
<1> DEFINE new == [proposal |-> p, expected |-> proposals[p].expected,
                   observed |-> now, expires |-> now + ValidationTtl,
                   permission |-> permissionGeneration]
<1>4. new \in ValidationRows
  BY <1>2, AdoptionAssumption DEF ProposalRows, ValidationRows, AdoptionInv, AdoptionTypeOK, Times
<1>5. /\ new.proposal = p /\ new.expected = proposals[p].expected /\ new.observed = now
      /\ new.permission = permissionGeneration
  OBVIOUS
<1>6. validations' = IF validations[v] # None THEN validations ELSE [validations EXCEPT ![v] = new]
  BY DEF validate
<1> HIDE DEF new
<1>7. /\ validations' \in [Validations -> {None} \cup ValidationRows]
      /\ \A u \in Validations : validations[u] # None => validations'[u] = validations[u]
  BY <1>3, <1>4, <1>6
<1>8. proposals[p].at <= now
  <2>1. proposals[p].at \in Int
    BY <1>2 DEF ProposalRows, Times
  <2>2. proposals[p].at <= lastClock /\ lastClock \in Int
    BY <1>1 DEF AdoptionInv, ProposalSound, AdoptionTypeOK, Times
  <2> QED
    BY <1>1, <2>1, <2>2 DEF Now, Times
<1>9. ASSUME NEW u \in Validations, validations[u] = None
      PROVE  ValidationSound(u)'
  <2>1. CASE u = v
    <3>1. validations'[u] = new
      BY <2>1, <1>3, <1>6, <1>9
    <3> QED
      BY <3>1, <1>1, <1>5, <1>8 DEF ValidationSound, Now, AdoptionInv, AdoptionTypeOK, Times
  <2>2. CASE u # v
    <3>1. validations'[u] = None
      BY <2>2, <1>3, <1>6, <1>9
    <3> QED
      BY <3>1 DEF ValidationSound
  <2> QED
    BY <2>1, <2>2
<1>10. proposals' \in [Proposals -> {None} \cup ProposalRows]
  BY <1>1 DEF AdoptionInv, AdoptionTypeOK, ProposalRows
<1>11. /\ StoredAnswersAreHistory'
       /\ idempotency' \in
            [Requests -> {None} \cup
               [action : {"other", "adopt", "current", "receipt"}, answer : {None} \cup PolicyRows]]
  BY <1>1, AnswersKept
<1>12. \A q \in Proposals : proposals[q] = None => ProposalSound(q)'
  BY <1>1 DEF ProposalSound
<1> QED
  BY <1>1, <1>7, <1>9, <1>10, <1>11, <1>12, RowsKept

-----------------------------------------------------------------------------
(* Withdrawals and adoptions.                                               *)

\* A withdrawal is newer than every adoption, so that it says nothing about
\* those that exist (revoke_actor, revoke_validation).
LEMMA WithdrawKeeps ==
  ASSUME AdoptionInv, NEW r \in Ids, NEW now \in Times, Now(now),
         NEW entity \in {"actor", "validation"}, NEW id, Withdraw(entity, id, now),
         StoreResult(r, "other", None), UNCHANGED policyVars
  PROVE  AdoptionInv'
<1> DEFINE new == [entity |-> entity, id |-> id, generation |-> permissionGeneration + 1, at |-> now]
<1>1. /\ new.entity = entity /\ new.generation = permissionGeneration + 1 /\ new.at = now
      /\ revocations' = revocations \cup {new}
      /\ permissionGeneration' = permissionGeneration + 1
      /\ permissionGeneration < MaxPermission
  BY DEF Withdraw
<1> HIDE DEF new
<1>2. /\ lastClock' = now /\ lastClock <= now /\ now \in Nat /\ lastClock \in Int
      /\ permissionGeneration \in Nat /\ permissionGeneration' \in 0 .. MaxPermission
  BY <1>1, AdoptionAssumption DEF Now, AdoptionInv, AdoptionTypeOK, Times
<1>3. \A row \in revocations' :
        row.entity \in {"actor", "validation"} /\ row.generation \in 1 .. MaxPermission
        /\ row.at \in Times
  BY <1>1, <1>2, AdoptionAssumption DEF AdoptionInv, AdoptionTypeOK
<1>4. /\ StoredAnswersAreHistory'
      /\ idempotency' \in
           [Requests -> {None} \cup
              [action : {"other", "adopt", "current", "receipt"}, answer : {None} \cup PolicyRows]]
  BY AnswersKept DEF policyVars
<1>5. AdoptionTypeOK'
  BY <1>2, <1>3, <1>4 DEF AdoptionInv, AdoptionTypeOK, policyVars, Times
<1>6. CurrentIsLast'
  BY DEF AdoptionInv, CurrentIsLast, policyVars
<1>7. WithdrawalsKnown'
  <2> SUFFICES ASSUME NEW row \in revocations'
               PROVE  row.generation <= permissionGeneration' /\ row.at <= lastClock'
    BY DEF WithdrawalsKnown
  <2>1. CASE row = new
    BY <2>1, <1>1, <1>2
  <2>2. CASE row \in revocations
    <3>1. /\ row.at \in Int /\ row.at <= lastClock /\ row.generation \in Int
          /\ row.generation <= permissionGeneration
      BY <2>2 DEF AdoptionInv, AdoptionTypeOK, WithdrawalsKnown, Times
    <3> QED
      BY <3>1, <1>1, <1>2
  <2> QED
    BY <2>1, <2>2, <1>1
<1>8. ASSUME NEW p \in Proposals
      PROVE  ProposalSound(p)'
  <2> SUFFICES ASSUME proposals[p] # None
               PROVE  ProposalSound(p)'
    BY DEF ProposalSound, policyVars
  <2>1. proposals[p] \in ProposalRows
    BY DEF AdoptionInv, AdoptionTypeOK, ProposalRows
  <2>2. proposals[p].at \in Int
    BY <2>1 DEF ProposalRows, Times
  <2> QED
    BY <2>2, <1>2 DEF AdoptionInv, ProposalSound, policyVars
<1>9. ASSUME NEW v \in Validations
      PROVE  ValidationSound(v)'
  <2> SUFFICES ASSUME validations[v] # None
               PROVE  ValidationSound(v)'
    BY DEF ValidationSound, policyVars
  <2>1. validations[v] \in ValidationRows
    BY DEF AdoptionInv, AdoptionTypeOK, ValidationRows
  <2>2. validations[v].observed \in Int /\ validations[v].permission \in Int
    BY <2>1 DEF ValidationRows, Times
  <2> QED
    BY <2>2, <1>1, <1>2 DEF AdoptionInv, ValidationSound, policyVars
<1>10. HistorySound'
  <2> SUFFICES ASSUME NEW i \in 1 .. Len(policyAdoptions)
               PROVE  /\ policyAdoptions[i].generation = i
                      /\ AdoptionSound(policyAdoptions[i])'
                      /\ i > 1 => policyAdoptions[i - 1].at <= policyAdoptions[i].at
    BY DEF HistorySound, policyVars
  <2>1. policyAdoptions[i] \in PolicyRows
    BY GenerationIsLength
  <2>2. policyAdoptions[i].at \in Int
    BY <2>1 DEF PolicyRows, Times
  <2>3. AdoptionSound(policyAdoptions[i])
    BY DEF AdoptionInv, HistorySound
  <2>4. ~(new.at < policyAdoptions[i].at)
    BY <2>2, <2>3, <1>1, <1>2 DEF AdoptionSound
  <2>5. AdoptionSound(policyAdoptions[i])'
    BY <2>2, <2>3, <2>4, <1>1, <1>2 DEF AdoptionSound, policyVars
  <2> QED
    BY <2>5 DEF AdoptionInv, HistorySound
<1> QED
  BY <1>4, <1>5, <1>6, <1>7, <1>8, <1>9, <1>10 DEF AdoptionInv

\* adopt appends a row that every withdrawal so far is older than, on a
\* validation that knows them all (_adopt).
LEMMA AdoptKeeps ==
  ASSUME AdoptionInv, NEW r \in Ids, NEW now \in Times, NEW p \in Proposals,
         NEW v \in Validations, adopt(r, p, v, now)
  PROVE  AdoptionInv'
<1> DEFINE length == Len(policyAdoptions)
           new == [generation |-> length + 1, proposal |-> p, validation |-> v, at |-> now]
<1>1. /\ PolicyGeneration = length /\ length \in Nat
      /\ PolicyGeneration \in 0 .. MaxPolicies
      /\ \A i \in 1 .. length : policyAdoptions[i] \in PolicyRows
  BY GenerationIsLength
<1>2. /\ proposals[p] # None /\ validations[v] # None
      /\ proposals[p].expected = length
      /\ validations[v].expected = length /\ validations[v].proposal = p
      /\ validations[v].permission = permissionGeneration /\ now < validations[v].expires
      /\ length < MaxPolicies
      /\ UNCHANGED <<permissionGeneration, revocations, proposals, validations>>
  BY <1>1 DEF adopt, Standing
<1>3. /\ currentProfile' = new /\ policyAdoptions' = Append(policyAdoptions, new)
      /\ StoreResult(r, "adopt", new)
  BY <1>1 DEF adopt
<1>4. lastClock' = now /\ lastClock <= now /\ now \in Nat /\ lastClock \in Int
  BY AdoptionAssumption DEF adopt, Dispatch, Now, AdoptionInv, AdoptionTypeOK, Times
<1>5. /\ new \in PolicyRows /\ new.generation = length + 1 /\ new.proposal = p
      /\ new.validation = v /\ new.at = now
  BY <1>1, <1>2, AdoptionAssumption DEF PolicyRows
<1> HIDE DEF new
<1>6. /\ policyAdoptions \in Seq(PolicyRows) /\ policyAdoptions' \in Seq(PolicyRows)
      /\ Len(policyAdoptions') = length + 1
      /\ policyAdoptions'[length + 1] = new
      /\ \A i \in 1 .. length : policyAdoptions'[i] = policyAdoptions[i]
  BY <1>1, <1>3, <1>5 DEF AdoptionInv, AdoptionTypeOK
<1> HIDE DEF length
<1>7. CurrentIsLast'
  <2>1. policyAdoptions' # <<>>
    BY <1>1, <1>6
  <2> QED
    BY <2>1, <1>3, <1>6 DEF CurrentIsLast
<1>8. WithdrawalsKnown'
  <2> SUFFICES ASSUME NEW row \in revocations
               PROVE  row.generation <= permissionGeneration /\ row.at <= lastClock'
    BY <1>2 DEF WithdrawalsKnown
  <2>1. row.at \in Int /\ row.at <= lastClock
    BY DEF AdoptionInv, AdoptionTypeOK, WithdrawalsKnown, Times
  <2> QED
    BY <2>1, <1>4 DEF AdoptionInv, WithdrawalsKnown
<1>9. ASSUME NEW q \in Proposals
      PROVE  ProposalSound(q)'
  <2> SUFFICES ASSUME proposals[q] # None
               PROVE  ProposalSound(q)'
    BY <1>2 DEF ProposalSound
  <2>1. proposals[q] \in ProposalRows
    BY DEF AdoptionInv, AdoptionTypeOK, ProposalRows
  <2>2. proposals[q].at \in Int
    BY <2>1 DEF ProposalRows, Times
  <2> QED
    BY <2>2, <1>2, <1>4 DEF AdoptionInv, ProposalSound
<1>10. ASSUME NEW u \in Validations
       PROVE  ValidationSound(u)'
  <2> SUFFICES ASSUME validations[u] # None
               PROVE  ValidationSound(u)'
    BY <1>2 DEF ValidationSound
  <2>1. validations[u] \in ValidationRows
    BY DEF AdoptionInv, AdoptionTypeOK, ValidationRows
  <2>2. validations[u].observed \in Int
    BY <2>1 DEF ValidationRows, Times
  <2> QED
    BY <2>2, <1>2, <1>4 DEF AdoptionInv, ValidationSound
<1>11. ASSUME NEW i \in 1 .. length
       PROVE  /\ policyAdoptions[i].generation = i
              /\ AdoptionSound(policyAdoptions[i])'
              /\ policyAdoptions[i].at \in Int /\ policyAdoptions[i].at <= lastClock
              /\ i > 1 => policyAdoptions[i - 1].at <= policyAdoptions[i].at
  <2>1. policyAdoptions[i] \in PolicyRows
    BY <1>1
  <2>2. policyAdoptions[i].at \in Int
    BY <2>1 DEF PolicyRows, Times
  <2>3. /\ AdoptionSound(policyAdoptions[i]) /\ policyAdoptions[i].generation = i
        /\ i > 1 => policyAdoptions[i - 1].at <= policyAdoptions[i].at
    BY DEF AdoptionInv, HistorySound, length
  <2>4. policyAdoptions[i].at <= lastClock
    BY <2>3 DEF AdoptionSound
  <2> SUFFICES AdoptionSound(policyAdoptions[i])'
    BY <2>2, <2>3, <2>4
  <2> DEFINE a == policyAdoptions[i]
  <2>5. policyAdoptions'[i] = a
    BY <1>6
  <2> QED
    BY <2>2, <2>3, <2>4, <2>5, <1>2, <1>4 DEF AdoptionSound
<1>12. /\ proposals[new.proposal] # None /\ validations[new.validation] # None
       /\ proposals[new.proposal].expected = new.generation - 1
       /\ validations[new.validation].proposal = new.proposal
       /\ validations[new.validation].expected = new.generation - 1
       /\ validations[new.validation].observed <= new.at
       /\ new.at < validations[new.validation].expires
       /\ new.at <= lastClock'
       /\ \A row \in revocations : row.at < new.at =>
            row.generation <= validations[new.validation].permission
  <2>1. validations[v] \in ValidationRows /\ proposals[p] \in ProposalRows
    BY <1>2 DEF AdoptionInv, AdoptionTypeOK, ValidationRows, ProposalRows
  <2>2. validations[v].observed \in Int
    BY <2>1 DEF ValidationRows, Times
  <2>3. validations[v].observed <= lastClock
    BY <1>2 DEF AdoptionInv, ValidationSound
  <2>4. \A row \in revocations : row.generation <= validations[v].permission
    BY <1>2 DEF AdoptionInv, WithdrawalsKnown
  <2>5. validations[v].observed <= now
    BY <2>2, <2>3, <1>4
  <2> QED
    BY <2>4, <2>5, <1>1, <1>2, <1>4, <1>5
<1>13. HistorySound'
  <2> SUFFICES ASSUME NEW i \in 1 .. Len(policyAdoptions')
               PROVE  /\ policyAdoptions'[i].generation = i
                      /\ AdoptionSound(policyAdoptions[i])'
                      /\ i > 1 => policyAdoptions'[i - 1].at <= policyAdoptions'[i].at
    BY DEF HistorySound
  <2>1. CASE i \in 1 .. length
    <3>1. policyAdoptions'[i] = policyAdoptions[i]
      BY <2>1, <1>6
    <3>2. i > 1 => i - 1 \in 1 .. length /\ policyAdoptions'[i - 1] = policyAdoptions[i - 1]
      BY <2>1, <1>1, <1>6
    <3> QED
      BY <2>1, <1>11, <3>1, <3>2
  <2>2. CASE i = length + 1
    <3>1. policyAdoptions'[i] = new
      BY <2>2, <1>6
    <3>2. AdoptionSound(policyAdoptions[i])'
      BY <3>1, <1>2, <1>12 DEF AdoptionSound
    <3>3. ASSUME i > 1
          PROVE  policyAdoptions'[i - 1].at <= policyAdoptions'[i].at
      <4>1. i - 1 \in 1 .. length
        BY <2>2, <3>3, <1>1
      <4>2. policyAdoptions[i - 1].at \in Int /\ policyAdoptions[i - 1].at <= lastClock
        BY <4>1, <1>11
      <4>3. policyAdoptions'[i - 1] = policyAdoptions[i - 1]
        BY <4>1, <1>6
      <4> QED
        BY <4>2, <4>3, <3>1, <1>4, <1>5
    <3> QED
      BY <3>1, <3>2, <3>3, <2>2, <1>5
  <2> QED
    BY <2>1, <2>2, <1>1, <1>6

<1>14. /\ StoredAnswersAreHistory'
       /\ idempotency' \in
            [Requests -> {None} \cup
               [action : {"other", "adopt", "current", "receipt"}, answer : {None} \cup PolicyRows]]
  <2>1. \A q \in Requests :
          idempotency[q] # None /\ idempotency[q].action \in {"adopt", "receipt"} =>
            LET row == idempotency[q].answer
            IN row.generation \in DOMAIN policyAdoptions' /\ policyAdoptions'[row.generation] = row
    BY <1>1, <1>6 DEF AdoptionInv, StoredAnswersAreHistory, length
  <2>2. CASE r = Once
    BY <2>1, <2>2, <1>3 DEF AdoptionInv, AdoptionTypeOK, StoredAnswersAreHistory, StoreResult
  <2>3. CASE r # Once
    <3>1. r \in Requests
      BY <2>3 DEF Ids
    <3> DEFINE stored == [action |-> "adopt", answer |-> new]
    <3>2. /\ stored.action = "adopt" /\ stored.answer = new
          /\ stored \in [action : {"other", "adopt", "current", "receipt"},
                         answer : {None} \cup PolicyRows]
      BY <1>5
    <3>3. idempotency' = [idempotency EXCEPT ![r] = stored]
      BY <2>3, <1>3 DEF StoreResult
    <3> HIDE DEF stored
    <3>4. \A q \in Requests : q # r => idempotency'[q] = idempotency[q]
      BY <3>3 DEF AdoptionInv, AdoptionTypeOK
    <3>5. idempotency'[r] = stored
      BY <3>1, <3>3 DEF AdoptionInv, AdoptionTypeOK
    <3>6. idempotency' \in
            [Requests -> {None} \cup
               [action : {"other", "adopt", "current", "receipt"}, answer : {None} \cup PolicyRows]]
      BY <3>1, <3>2, <3>3 DEF AdoptionInv, AdoptionTypeOK
    <3>7. StoredAnswersAreHistory'
      <4> SUFFICES ASSUME NEW q \in Requests,
                          idempotency'[q].action \in {"adopt", "receipt"}, idempotency'[q] # None
                   PROVE  /\ idempotency'[q].answer.generation \in DOMAIN policyAdoptions'
                          /\ policyAdoptions'[idempotency'[q].answer.generation]
                               = idempotency'[q].answer
        BY DEF StoredAnswersAreHistory
      <4>1. CASE q = r
        <5>1. idempotency'[q].answer = new
          BY <4>1, <3>2, <3>5
        <5>2. length + 1 \in DOMAIN policyAdoptions'
          BY <1>1, <1>6
        <5> QED
          BY <5>1, <5>2, <1>5, <1>6
      <4>2. CASE q # r
        BY <4>2, <3>4, <2>1
      <4> QED
        BY <4>1, <4>2
    <3> QED
      BY <3>6, <3>7
  <2> QED
    BY <2>2, <2>3
<1>15. AdoptionTypeOK'
  <2>1. permissionGeneration' = permissionGeneration /\ revocations' = revocations
        /\ proposals' = proposals /\ validations' = validations
    BY <1>2
  <2>2. lastClock' \in Times \cup {-1}
    BY <1>4
  <2> QED
    BY <2>1, <2>2, <1>6, <1>14 DEF AdoptionInv, AdoptionTypeOK
<1> QED
  BY <1>7, <1>8, <1>9, <1>10, <1>13, <1>14, <1>15 DEF AdoptionInv

\* Every request of the permission store (dispatch).
LEMMA AdoptionKeeps ==
  ASSUME AdoptionInv, AdoptionNext
  PROVE  AdoptionInv'
<1> PICK r \in Ids, now \in Times :
      \/ current(r, now)
      \/ \E adoption \in Requests : receipt(r, adoption, now)
      \/ \E p \in Proposals :
           propose(r, p, now) \/ \E v \in Validations : validate(r, v, p, now) \/ adopt(r, p, v, now)
      \/ \E v \in Validations : revoke_validation(r, v, now)
      \/ \E target \in Revocable : revoke_actor(r, target, now)
  BY DEF AdoptionNext
<1>1. CASE current(r, now)
  BY <1>1, CurrentKeeps
<1>2. CASE \E adoption \in Requests : receipt(r, adoption, now)
  BY <1>2, ReceiptKeeps
<1>3. CASE \E p \in Proposals : propose(r, p, now)
  BY <1>3, ProposeKeeps
<1>4. CASE \E p \in Proposals, v \in Validations : validate(r, v, p, now)
  BY <1>4, ValidateKeeps
<1>5. CASE \E p \in Proposals, v \in Validations : adopt(r, p, v, now)
  BY <1>5, AdoptKeeps
<1>6. ASSUME NEW v \in Validations, revoke_validation(r, v, now)
      PROVE  AdoptionInv'
  <2>1. Now(now) /\ Withdraw("validation", v, now) /\ StoreResult(r, "other", None)
        /\ UNCHANGED policyVars
    BY <1>6 DEF revoke_validation, Dispatch
  <2> QED
    BY <2>1, WithdrawKeeps
<1>7. ASSUME NEW target \in Revocable, revoke_actor(r, target, now)
      PROVE  AdoptionInv'
  <2>1. Now(now) /\ Withdraw("actor", target, now) /\ StoreResult(r, "other", None)
        /\ UNCHANGED policyVars
    BY <1>7 DEF revoke_actor, Dispatch
  <2> QED
    BY <2>1, WithdrawKeeps
<1> QED
  BY <1>1, <1>2, <1>3, <1>4, <1>5, <1>6, <1>7

\* A step that leaves the store alone.
LEMMA AdoptionRests ==
  ASSUME AdoptionInv, UNCHANGED adoptionVars
  PROVE  AdoptionInv'
  BY DEF AdoptionInv, adoptionVars, permissionVars, policyVars, AdoptionTypeOK, CurrentIsLast,
         HistorySound, AdoptionSound, WithdrawalsKnown, ValidationSound, ProposalSound,
         StoredAnswersAreHistory

\* A request of the extensions takes its turn at the clock and writes none of
\* the tables of the store.
LEMMA AskKeeps ==
  ASSUME AdoptionInv, NEW now \in Times, NEW actor, Ask(actor, now)
  PROVE  AdoptionInv'
<1>1. Now(now) /\ UNCHANGED <<permissionGeneration, revocations, policyVars>> /\ UNCHANGED idempotency
  BY DEF Ask
<1>2. /\ StoredAnswersAreHistory'
      /\ idempotency' \in
           [Requests -> {None} \cup
              [action : {"other", "adopt", "current", "receipt"}, answer : {None} \cup PolicyRows]]
  BY <1>1 DEF AdoptionInv, AdoptionTypeOK, StoredAnswersAreHistory, policyVars
<1> QED
  BY <1>1, <1>2, QuietKeeps

\* The invariant says what the readers of the store rely on.
LEMMA AdoptionFollows ==
  ASSUME AdoptionInv
  PROVE  AdoptionHolds
<1> DEFINE length == Len(policyAdoptions)
<1>1. /\ length \in Nat /\ DOMAIN policyAdoptions = 1 .. length
      /\ \A i \in 1 .. length : policyAdoptions[i] \in PolicyRows
  BY GenerationIsLength DEF AdoptionInv, AdoptionTypeOK
<1>2. \A i \in 1 .. length :
        /\ policyAdoptions[i].generation = i
        /\ AdoptionSound(policyAdoptions[i])
        /\ i > 1 => policyAdoptions[i - 1].at <= policyAdoptions[i].at
  BY DEF AdoptionInv, HistorySound
<1> HIDE DEF length
<1>3. HistoryIsChain
  <2> SUFFICES ASSUME NEW i \in 1 .. length, NEW j \in 1 .. i - 1
               PROVE  /\ policyAdoptions[i].proposal # policyAdoptions[j].proposal
                      /\ policyAdoptions[i].validation # policyAdoptions[j].validation
    BY <1>1, <1>2 DEF HistoryIsChain, AdoptionInv, CurrentIsLast
  <2>1. j \in 1 .. length /\ i - 1 # j - 1
    BY <1>1
  <2>2. /\ proposals[policyAdoptions[i].proposal].expected = i - 1
        /\ proposals[policyAdoptions[j].proposal].expected = j - 1
        /\ validations[policyAdoptions[i].validation].expected = i - 1
        /\ validations[policyAdoptions[j].validation].expected = j - 1
    BY <1>2, <2>1 DEF AdoptionSound
  <2> QED
    BY <2>1, <2>2
<1>4. NoAdoptionAcrossWithdrawal
  BY <1>1, <1>2 DEF NoAdoptionAcrossWithdrawal, AdoptionSound
<1>5. StoryInOrder
  <2> SUFFICES ASSUME NEW i \in 1 .. length
               PROVE  LET a == policyAdoptions[i]
                          v == validations[a.validation]
                      IN /\ proposals[a.proposal].at <= v.observed
                         /\ v.observed <= a.at /\ a.at < v.expires
                         /\ i > 1 => policyAdoptions[i - 1].at <= a.at
    BY <1>1 DEF StoryInOrder
  <2>1. policyAdoptions[i].validation \in Validations
    BY <1>1 DEF PolicyRows
  <2>2. ValidationSound(policyAdoptions[i].validation)
    BY <2>1 DEF AdoptionInv
  <2> QED
    BY <2>2, <1>2 DEF ValidationSound, AdoptionSound
<1>6. ChecksAgree
  <2> SUFFICES ASSUME currentProfile # None, NEW now \in lastClock .. MaxTime
               PROVE  CurrentValid(now) <=> PolicyAtValid(currentProfile.generation, now)
    BY DEF ChecksAgree
  <2>1. policyAdoptions # <<>> /\ currentProfile = policyAdoptions[length]
    BY DEF AdoptionInv, CurrentIsLast, length
  <2>2. length \in 1 .. length
    BY <2>1, <1>1 DEF AdoptionInv, AdoptionTypeOK, length
  <2>3. currentProfile.generation = length /\ AdoptionSound(currentProfile)
    BY <2>1, <2>2, <1>2
  <2> QED
    BY <2>1, <2>2, <2>3, <1>1 DEF CurrentValid, PolicyAtValid, Standing, AdoptionSound
<1> QED
  BY <1>3, <1>4, <1>5, <1>6 DEF AdoptionHolds, AdoptionInv

\* Whatever is proposed, validated, adopted, withdrawn and asked again in which
\* order, under a clock that may jump, the adopted policies are one chain, each
\* adopted in order under a validation that stood, and every answer tells it
\* (dispatch, _adopt, _current, _policy_at, _receipt).
THEOREM AdoptionCorrect == AdoptionSpec => []AdoptionHolds
<1>1. AdoptionInit => AdoptionInv
  BY AdoptionBegins
<1>2. AdoptionInv /\ [AdoptionNext]_adoptionVars => AdoptionInv'
  BY AdoptionKeeps, AdoptionRests
<1>3. AdoptionInv => AdoptionHolds
  BY AdoptionFollows
<1> QED
  BY <1>1, <1>2, <1>3, PTL DEF AdoptionSpec

\* A step of the chain is a request of the store or of one of its extensions.
LEMMA ChainStep ==
  ASSUME Next
  PROVE  AdoptionNext \/ \E now \in Times : \E actor \in {Manager, Validator, Operator} : Ask(actor, now)
<1>1. CASE AdoptionNext
  BY <1>1
<1>2. ASSUME NEW now \in Times,
             \/ fixture_prepare(now) \/ contract_candidate_prepare(now) \/ run_cancel(now)
             \/ \E g \in Generations :
                  \/ contract_propose(g, now) \/ contract_validate(g, now)
                  \/ baseline_propose(g, now) \/ baseline_validate(g, now) \/ baseline_revoke(g, now)
                  \/ \E row \in baselines[g].validations : baseline_adopt(g, row, now)
             \/ \E row \in contracts[1].validations : contract_adopt(row, now)
             \/ \E row \in contracts[2].validations : contract_candidate_adopt(row, now)
             \/ \E r \in Runs :
                  \/ \E created \in Times : run_begin(r, created, now)
                  \/ evidence_open(r, now) \/ Perform(r, now) \/ evidence_record(r, now)
                  \/ \E healthy \in BOOLEAN : evidence_finalize(r, healthy, now)
                  \/ evidence_revoke(r, now)
      PROVE  \E actor \in {Manager, Validator, Operator} : Ask(actor, now)
  BY <1>2 DEF fixture_prepare, contract_candidate_prepare, run_cancel, contract_propose,
       contract_validate, baseline_propose, baseline_validate, baseline_revoke, baseline_adopt,
       contract_adopt, contract_candidate_adopt, run_begin, evidence_open, Perform,
       evidence_record, evidence_finalize, evidence_revoke
<1> QED
  BY <1>1, <1>2 DEF Next

LEMMA ChainKeepsAdoption ==
  ASSUME AdoptionInv, [Next]_vars
  PROVE  AdoptionInv'
<1>1. CASE Next
  BY <1>1, ChainStep, AdoptionKeeps, AskKeeps
<1>2. CASE UNCHANGED vars
  BY <1>2, AdoptionRests DEF vars
<1> QED
  BY <1>1, <1>2

\* The same while the chain of contracts, runs and baselines is built on the
\* store by requests of its own.
THEOREM ChainAdoptionCorrect == Spec => []AdoptionHolds
<1>1. Init => AdoptionInv
  BY AdoptionBegins DEF Init
<1>2. AdoptionInv /\ [Next]_vars => AdoptionInv'
  BY ChainKeepsAdoption
<1>3. AdoptionInv => AdoptionHolds
  BY AdoptionFollows
<1> QED
  BY <1>1, <1>2, <1>3, PTL DEF Spec

-----------------------------------------------------------------------------
(* The chain of contracts, runs and baselines.                              *)
(*                                                                          *)
(* Every row of the chain carries the time and the permissions it was made  *)
(* under.  What a green answer rests on is that such a row is younger than  *)
(* every withdrawal it was made under, that a row which counts is made      *)
(* under the present permissions, and that it is never written again.       *)

\* A row of the store or of the chain, by its time and its permissions.
Made(at, permission) ==
  /\ permission <= permissionGeneration /\ at <= lastClock
  /\ \A row \in revocations : row.generation <= permission => row.at <= at

StampRows == [at : Times, permission : 0 .. MaxPermission]
AdmissionRows == [at : Times, permission : 0 .. MaxPermission, policy : Nat]
LimitedRows == [at : Times, expires : Nat, permission : 0 .. MaxPermission]
AdoptedRows == [at : Times, expires : Nat, permission : 0 .. MaxPermission, adopted : Times]

Phases == {"absent", "begun", "open", "performed", "recorded", "final", "cancelled"}

ContractRows == [proposed : BOOLEAN, validations : SUBSET LimitedRows, adopted : {None} \cup LimitedRows]
RunRows == [phase : Phases, created : {None} \cup Times, observed : {None} \cup Times,
            origin : {None} \cup StampRows, receipt : {None} \cup StampRows,
            healthy : BOOLEAN, revoked : BOOLEAN]
BaselineRows == [proposed : {None} \cup Times, validations : SUBSET LimitedRows,
                 adopted : {None} \cup AdoptedRows, revoked : BOOLEAN]

ChainTypeOK ==
  /\ admission \in {None} \cup AdmissionRows
  /\ candidate \in {None} \cup StampRows
  /\ contracts \in [Generations -> ContractRows]
  /\ run \in [Runs -> RunRows]
  /\ baselines \in [Generations -> BaselineRows]

\* A validation of a contract counts for as long as every other one does.
ContractValidationSound(row) == Made(row.at, row.permission) /\ row.expires = row.at + ValidationTtl

ContractSound(g) ==
  /\ contracts[g].proposed => admission # None
  /\ \A row \in contracts[g].validations : ContractValidationSound(row) /\ admission # None
  /\ contracts[g].adopted # None => ContractValidationSound(contracts[g].adopted) /\ admission # None

\* The second contract was adopted on the first, a candidate, the first
\* baseline and the receipts of its runs.
SecondSound ==
  contracts[2].adopted # None =>
    /\ contracts[1].adopted # None /\ baselines[1].adopted # None
    /\ candidate # None /\ candidate.permission = contracts[2].adopted.permission
    /\ \A side \in Sides : run[side].receipt # None

CandidateSound ==
  candidate # None =>
    /\ Made(candidate.at, candidate.permission)
    /\ baselines[1].adopted # None /\ baselines[1].adopted.adopted <= candidate.at

Observed == {"performed", "recorded", "final"}
Recorded == {"recorded", "final"}

\* The contract that a run is made under.
ContractOf(r) == IF r = Base THEN 1 ELSE 2

RunSound(r) ==
  /\ run[r].phase \in Observed => run[r].observed \in Times
  /\ run[r].phase \in Recorded =>
       run[r].origin \in StampRows /\ Made(run[r].origin.at, run[r].origin.permission)
  /\ run[r].receipt # None =>
       /\ run[r].phase = "final"
       /\ run[r].receipt.permission = run[r].origin.permission
       /\ run[r].receipt.permission <= permissionGeneration
  /\ r \in {Base, Ci} /\ run[r].phase \in Observed =>
       /\ contracts[ContractOf(r)].adopted # None
       /\ contracts[ContractOf(r)].adopted.at <= run[r].observed

CiSound ==
  run[Ci].phase # "absent" =>
    /\ contracts[2].adopted # None
    /\ run[Ci].created \in Times /\ run[Ci].created >= contracts[2].adopted.at

BaselineSound(g) ==
  /\ baselines[g].proposed # None => baselines[g].proposed <= lastClock
  /\ \A row \in baselines[g].validations :
       /\ Made(row.at, row.permission)
       /\ baselines[g].proposed # None /\ baselines[g].proposed <= row.at /\ row.at < row.expires
  /\ baselines[g].adopted # None =>
       /\ Made(baselines[g].adopted.at, baselines[g].adopted.permission)
       /\ baselines[g].adopted.at <= baselines[g].adopted.adopted
       /\ baselines[g].adopted.adopted < baselines[g].adopted.expires
       /\ baselines[g].adopted.adopted <= lastClock
       /\ run[Base].receipt # None
       /\ baselines[1].adopted # None

PolicySound(v) == validations[v] # None => Made(validations[v].observed, validations[v].permission)

\* A fixture was admitted under a policy that was in force.
AdmissionSound ==
  admission # None =>
    Made(admission.at, admission.permission) /\ admission.policy \in DOMAIN policyAdoptions

ChainInv ==
  /\ AdoptionInv /\ ChainTypeOK /\ AdmissionSound
  /\ CandidateSound /\ SecondSound /\ CiSound
  /\ \A g \in Generations : ContractSound(g) /\ BaselineSound(g)
  /\ \A r \in Runs : RunSound(r)
  /\ \A v \in Validations : PolicySound(v)

-----------------------------------------------------------------------------
\* How many generations of a series are adopted, by which ones are
\* (_evaluation_generation counts rows).
LEMMA CurrentCounts ==
  ASSUME NEW series
  PROVE  /\ Current(series) = 0 => series[1].adopted = None /\ series[2].adopted = None
         /\ series[1].adopted # None /\ series[2].adopted # None => Current(series) = 2
         /\ series[1].adopted # None /\ series[2].adopted = None => Current(series) = 1
         /\ Current(series) = 1 /\ series[1].adopted # None => series[2].adopted = None
<1> DEFINE S == {g \in Generations : series[g].adopted # None}
<1>0. Current(series) = Cardinality(S)
  BY DEF Current
<1>1. CASE series[1].adopted = None /\ series[2].adopted = None
  <2>1. S = {}
    BY <1>1 DEF Generations
  <2>2. Current(series) = 0
    BY <1>0, <2>1, FS_EmptySet
  <2> QED
    BY <1>1, <2>2
<1>2. CASE series[1].adopted # None /\ series[2].adopted = None
  <2>1. S = {1}
    BY <1>2 DEF Generations
  <2>2. Cardinality({1}) = 1
    BY FS_Singleton
  <2>3. Current(series) = 1
    BY <1>0, <2>1, <2>2
  <2> QED
    BY <1>2, <2>3
<1>3. CASE series[1].adopted = None /\ series[2].adopted # None
  <2>1. S = {2}
    BY <1>3 DEF Generations
  <2>2. Cardinality({2}) = 1
    BY FS_Singleton
  <2>3. Current(series) = 1
    BY <1>0, <2>1, <2>2
  <2> QED
    BY <1>3, <2>3
<1>4. CASE series[1].adopted # None /\ series[2].adopted # None
  <2>1. S = {1} \cup {2}
    BY <1>4 DEF Generations
  <2>2. Cardinality({1}) = 1 /\ IsFiniteSet({1})
    BY FS_Singleton
  <2>3. Cardinality({1} \cup {2}) = 1 + 1
    BY <2>2, FS_AddElement, 2 \notin {1}
  <2>4. Cardinality(S) = 1 + 1
    BY <2>1, <2>3
  <2>5. Current(series) = 2
    <3> HIDE DEF S
    <3> QED
      BY <1>0, <2>4
  <2> QED
    BY <1>4, <2>5
<1> QED
  BY <1>1, <1>2, <1>3, <1>4

\* The clock and the permissions of the store only go forward, and a
\* withdrawal is the newest there is (_now, _permission_generation).
Forward ==
  /\ lastClock' \in Int /\ lastClock <= lastClock'
  /\ permissionGeneration' \in Nat /\ permissionGeneration <= permissionGeneration'
  /\ revocations \subseteq revocations'
  /\ \A row \in revocations' \ revocations : row.generation > permissionGeneration
  /\ \A row \in revocations' :
       /\ row.generation \in Nat /\ row.generation <= permissionGeneration'
       /\ row.at \in Nat /\ row.at <= lastClock'

\* What is stored in the permission store stays as it is.
StoreGrows ==
  /\ Forward
  /\ \A v \in Validations : validations[v] # None => validations'[v] = validations[v]
  /\ \A i \in DOMAIN policyAdoptions : i \in DOMAIN policyAdoptions' /\ policyAdoptions'[i] = policyAdoptions[i]

\* A row that was made stays younger than the withdrawals it was made under.
LEMMA MadeStays ==
  ASSUME AdoptionInv, Forward, NEW at \in Times, NEW permission \in Nat, Made(at, permission)
  PROVE  /\ permission <= permissionGeneration' /\ at <= lastClock'
         /\ \A row \in revocations' : row.generation <= permission => row.at <= at
<1>1. lastClock \in Int /\ permissionGeneration \in Nat /\ at \in Int
  BY DEF AdoptionInv, AdoptionTypeOK, Times
<1>2. permission <= permissionGeneration' /\ at <= lastClock'
  BY <1>1 DEF Forward, Made
<1>3. ASSUME NEW row \in revocations', row.generation <= permission
      PROVE  row.at <= at
  <2>1. CASE row \in revocations
    BY <2>1, <1>3 DEF Made
  <2>2. CASE row \notin revocations
    <3>1. row.generation > permissionGeneration
      BY <2>2 DEF Forward
    <3>2. row.generation \in Int
      BY DEF Forward
    <3>3. permission <= permissionGeneration
      BY DEF Made
    <3> QED
      BY <3>1, <3>2, <3>3, <1>1, <1>3
  <2> QED
    BY <2>1, <2>2
<1> QED
  BY <1>2, <1>3

LEMMA AskMovesForward ==
  ASSUME AdoptionInv, NEW now \in Times, NEW actor, Ask(actor, now)
  PROVE  StoreGrows /\ lastClock' = now /\ lastClock <= now
<1>1. lastClock' = now /\ lastClock <= now /\ now \in Int /\ lastClock \in Int
  BY DEF Ask, Now, AdoptionInv, AdoptionTypeOK, Times
<1>2. permissionGeneration \in Nat /\ UNCHANGED <<permissionGeneration, revocations, policyVars>>
  BY DEF Ask, AdoptionInv, AdoptionTypeOK
<1>3. \A row \in revocations :
        /\ row.generation \in Nat /\ row.generation <= permissionGeneration
        /\ row.at \in Nat /\ row.at <= lastClock
  BY AdoptionAssumption DEF AdoptionInv, AdoptionTypeOK, WithdrawalsKnown, Times
<1>4. \A row \in revocations : row.at <= now
  BY <1>1, <1>3
<1> QED
  BY <1>1, <1>2, <1>3, <1>4 DEF StoreGrows, Forward, policyVars

LEMMA AdoptionMovesForward ==
  ASSUME AdoptionInv, AdoptionNext
  PROVE  StoreGrows
<1> PICK r \in Ids, now \in Times :
      \/ current(r, now)
      \/ \E adoption \in Requests : receipt(r, adoption, now)
      \/ \E p \in Proposals :
           propose(r, p, now) \/ \E v \in Validations : validate(r, v, p, now) \/ adopt(r, p, v, now)
      \/ \E v \in Validations : revoke_validation(r, v, now)
      \/ \E target \in Revocable : revoke_actor(r, target, now)
  BY DEF AdoptionNext
<1>1. Now(now)
  BY DEF current, receipt, propose, validate, adopt, revoke_validation, revoke_actor, Dispatch
<1>2. lastClock' = now /\ lastClock <= now /\ now \in Nat /\ lastClock \in Int
      /\ permissionGeneration \in Nat
  BY <1>1, AdoptionAssumption DEF Now, AdoptionInv, AdoptionTypeOK, Times
<1>3. \A row \in revocations :
        /\ row.generation \in Nat /\ row.generation <= permissionGeneration
        /\ row.at \in Nat /\ row.at <= lastClock
  BY AdoptionAssumption DEF AdoptionInv, AdoptionTypeOK, WithdrawalsKnown, Times
<1>4. \A row \in revocations : row.at <= now /\ row.generation <= permissionGeneration + 1
  BY <1>2, <1>3
<1>5. ASSUME UNCHANGED <<permissionGeneration, revocations>>
      PROVE  Forward
  BY <1>2, <1>3, <1>4, <1>5 DEF Forward
<1>6. ASSUME \E entity, id : Withdraw(entity, id, now)
      PROVE  Forward
  <2> PICK entity, id : Withdraw(entity, id, now)
    BY <1>6
  <2> DEFINE new == [entity |-> entity, id |-> id, generation |-> permissionGeneration + 1, at |-> now]
  <2>1. /\ permissionGeneration' = permissionGeneration + 1 /\ revocations' = revocations \cup {new}
        /\ new.generation = permissionGeneration + 1 /\ new.at = now
    BY DEF Withdraw
  <2> HIDE DEF new
  <2>2. \A row \in revocations' :
          /\ row.generation \in Nat /\ row.generation <= permissionGeneration'
          /\ row.at \in Nat /\ row.at <= lastClock'
    <3> SUFFICES ASSUME NEW row \in revocations'
                 PROVE  /\ row.generation \in Nat /\ row.generation <= permissionGeneration'
                        /\ row.at \in Nat /\ row.at <= lastClock'
      OBVIOUS
    <3>1. CASE row = new
      BY <3>1, <2>1, <1>2
    <3>2. CASE row \in revocations
      BY <3>2, <2>1, <1>2, <1>3, <1>4
    <3> QED
      BY <3>1, <3>2, <2>1
  <2>3. \A row \in revocations' \ revocations : row.generation > permissionGeneration
    BY <2>1, <1>2
  <2> QED
    BY <2>1, <2>2, <2>3, <1>2 DEF Forward
<1>7. Forward
  <2>1. UNCHANGED <<permissionGeneration, revocations>> \/ \E entity, id : Withdraw(entity, id, now)
    BY DEF current, receipt, propose, validate, adopt, revoke_validation, revoke_actor
  <2> QED
    BY <2>1, <1>5, <1>6
<1>8. \A v \in Validations : validations[v] # None => validations'[v] = validations[v]
  <2>1. CASE UNCHANGED validations
    BY <2>1
  <2>2. CASE \E p \in Proposals, v \in Validations : validate(r, v, p, now)
    BY <2>2 DEF validate, AdoptionInv, AdoptionTypeOK
  <2> QED
    BY <2>1, <2>2 DEF current, receipt, propose, adopt, revoke_validation, revoke_actor, policyVars
<1>9. \A i \in DOMAIN policyAdoptions :
        i \in DOMAIN policyAdoptions' /\ policyAdoptions'[i] = policyAdoptions[i]
  <2>1. CASE UNCHANGED policyAdoptions
    BY <2>1
  <2>2. ASSUME NEW p \in Proposals, NEW v \in Validations, adopt(r, p, v, now)
        PROVE  \A i \in DOMAIN policyAdoptions :
                 i \in DOMAIN policyAdoptions' /\ policyAdoptions'[i] = policyAdoptions[i]
    <3> DEFINE new == [generation |-> PolicyGeneration + 1, proposal |-> p,
                       validation |-> v, at |-> now]
    <3>1. policyAdoptions' = Append(policyAdoptions, new) /\ PolicyGeneration < MaxPolicies
      BY <2>2 DEF adopt
    <3>2. PolicyGeneration \in 0 .. MaxPolicies
      BY GenerationIsLength
    <3>3. new \in PolicyRows
      BY <3>1, <3>2, AdoptionAssumption DEF PolicyRows
    <3> HIDE DEF new
    <3>4. policyAdoptions \in Seq(PolicyRows)
      BY DEF AdoptionInv, AdoptionTypeOK
    <3> QED
      BY <3>1, <3>3, <3>4
  <2> QED
    BY <2>1, <2>2 DEF current, receipt, propose, validate, revoke_validation, revoke_actor, policyVars
<1> QED
  BY <1>7, <1>8, <1>9 DEF StoreGrows

-----------------------------------------------------------------------------
(* What no request of the chain ever writes again.                          *)

ReceiptStays(r) ==
  run[r].receipt # None =>
    /\ run'[r].receipt = run[r].receipt /\ run'[r].origin = run[r].origin
    /\ run'[r].phase = run[r].phase /\ run'[r].observed = run[r].observed
    /\ run'[r].healthy = run[r].healthy
    /\ run[r].revoked => run'[r].revoked

ChainGrows ==
  /\ admission # None => admission' = admission
  /\ candidate # None => candidate' = candidate
  /\ \A g \in Generations :
       /\ contracts[g].adopted # None => contracts'[g].adopted = contracts[g].adopted
       /\ baselines[g].adopted # None => baselines'[g].adopted = baselines[g].adopted
       /\ baselines[g].revoked => baselines'[g].revoked
  /\ \A r \in Runs : ReceiptStays(r)

\* The rows that a request leaves alone stay sound, whatever else it writes.
LEMMA AdmissionStays ==
  ASSUME ChainInv, StoreGrows, UNCHANGED admission
  PROVE  AdmissionSound'
<1> SUFFICES ASSUME admission # None
             PROVE  AdmissionSound'
  BY DEF AdmissionSound
<1>1. admission.at \in Times /\ admission.permission \in Nat
  BY DEF ChainInv, ChainTypeOK, AdmissionRows
<1>2. Made(admission.at, admission.permission) /\ admission.policy \in DOMAIN policyAdoptions
  BY DEF ChainInv, AdmissionSound
<1> QED
  BY <1>1, <1>2, MadeStays DEF StoreGrows, ChainInv, Made, AdmissionSound

LEMMA CandidateStays ==
  ASSUME ChainInv, StoreGrows, ChainGrows, UNCHANGED candidate
  PROVE  CandidateSound'
<1> SUFFICES ASSUME candidate # None
             PROVE  CandidateSound'
  BY DEF CandidateSound
<1>1. candidate.at \in Times /\ candidate.permission \in Nat
  BY DEF ChainInv, ChainTypeOK, StampRows
<1>2. /\ Made(candidate.at, candidate.permission)
      /\ baselines[1].adopted # None /\ baselines[1].adopted.adopted <= candidate.at
  BY DEF ChainInv, CandidateSound
<1>3. baselines'[1].adopted = baselines[1].adopted
  BY <1>2 DEF ChainGrows, Generations
<1>4. Made(candidate.at, candidate.permission)'
  BY <1>1, <1>2, MadeStays DEF StoreGrows, ChainInv, Made
<1> QED
  BY <1>2, <1>3, <1>4 DEF CandidateSound

\* The validation of a contract that was sound is sound.
LEMMA ContractValidationStays ==
  ASSUME ChainInv, StoreGrows, NEW row \in LimitedRows, ContractValidationSound(row)
  PROVE  ContractValidationSound(row)'
<1>1. row.at \in Times /\ row.permission \in Nat
  BY DEF LimitedRows
<1> QED
  BY <1>1, MadeStays DEF StoreGrows, ChainInv, Made, ContractValidationSound

LEMMA ContractStays ==
  ASSUME ChainInv, StoreGrows, ChainGrows, NEW g \in Generations, contracts'[g] = contracts[g]
  PROVE  ContractSound(g)'
<1>1. contracts[g] \in ContractRows
  BY DEF ChainInv, ChainTypeOK
<1>2. ContractSound(g)
  BY DEF ChainInv
<1>3. \A row \in contracts[g].validations : row \in LimitedRows
  BY <1>1 DEF ContractRows
<1>4. contracts[g].adopted # None => contracts[g].adopted \in LimitedRows
  BY <1>1 DEF ContractRows
<1>5. \A row \in contracts'[g].validations : ContractValidationSound(row)'
  BY <1>2, <1>3, ContractValidationStays DEF ContractSound
<1>6. contracts'[g].adopted # None => ContractValidationSound(contracts[g].adopted)'
  BY <1>2, <1>4, ContractValidationStays DEF ContractSound, ContractValidationSound, Made
<1> QED
  BY <1>2, <1>5, <1>6 DEF ContractSound, ChainGrows

LEMMA SecondStays ==
  ASSUME ChainInv, ChainGrows, contracts'[2].adopted = contracts[2].adopted
  PROVE  SecondSound'
<1> SUFFICES ASSUME contracts[2].adopted # None
             PROVE  SecondSound'
  BY DEF SecondSound
<1>1. /\ contracts[1].adopted # None /\ baselines[1].adopted # None
      /\ candidate # None /\ candidate.permission = contracts[2].adopted.permission
      /\ \A side \in Sides : run[side].receipt # None
  BY DEF ChainInv, SecondSound
<1>2. /\ contracts'[1].adopted # None /\ baselines'[1].adopted # None
      /\ candidate' = candidate
  BY <1>1 DEF ChainGrows, Generations
<1>3. \A side \in Sides : run'[side].receipt # None
  BY <1>1 DEF ChainGrows, ReceiptStays, Runs
<1> QED
  BY <1>1, <1>2, <1>3 DEF SecondSound

LEMMA RunStays ==
  ASSUME ChainInv, StoreGrows, ChainGrows, NEW r \in Runs, run'[r] = run[r]
  PROVE  RunSound(r)'
<1>1. run[r] \in RunRows
  BY DEF ChainInv, ChainTypeOK
<1>2. RunSound(r)
  BY DEF ChainInv
<1>3. ASSUME run[r].phase \in Recorded
      PROVE  Made(run[r].origin.at, run[r].origin.permission)'
  <2>1. run[r].origin.at \in Times /\ run[r].origin.permission \in Nat
    BY <1>2, <1>3 DEF RunSound, StampRows
  <2>2. Made(run[r].origin.at, run[r].origin.permission)
    BY <1>2, <1>3 DEF RunSound
  <2> QED
    BY <2>1, <2>2, MadeStays DEF StoreGrows, ChainInv, Made
<1>4. ASSUME run[r].receipt # None
      PROVE  run[r].receipt.permission <= permissionGeneration'
  <2>1. run[r].receipt.permission \in Nat /\ permissionGeneration \in Nat
    BY <1>1, <1>4 DEF RunRows, StampRows, ChainInv, AdoptionInv, AdoptionTypeOK
  <2> QED
    BY <2>1, <1>2, <1>4 DEF RunSound, StoreGrows, Forward
<1>5. ASSUME r \in {Base, Ci}, run[r].phase \in Observed
      PROVE  /\ contracts'[ContractOf(r)].adopted # None
             /\ contracts'[ContractOf(r)].adopted.at <= run[r].observed
  BY <1>2, <1>5 DEF RunSound, ChainGrows, ContractOf, Generations
<1> QED
  BY <1>2, <1>3, <1>4, <1>5 DEF RunSound

LEMMA CiStays ==
  ASSUME ChainInv, ChainGrows, run'[Ci] = run[Ci]
  PROVE  CiSound'
<1>1. CiSound
  BY DEF ChainInv
<1>2. run[Ci].phase # "absent" => contracts'[2].adopted = contracts[2].adopted
  BY <1>1 DEF CiSound, ChainGrows, Generations
<1> QED
  BY <1>1, <1>2 DEF CiSound

LEMMA BaselineStays ==
  ASSUME ChainInv, StoreGrows, ChainGrows, NEW g \in Generations, baselines'[g] = baselines[g]
  PROVE  BaselineSound(g)'
<1>1. baselines[g] \in BaselineRows /\ lastClock \in Int
  BY DEF ChainInv, ChainTypeOK, AdoptionInv, AdoptionTypeOK, Times
<1>2. BaselineSound(g) /\ Base \in Runs
  BY DEF ChainInv, Runs
<1>3. baselines[g].proposed # None => baselines[g].proposed <= lastClock'
  <2>1. baselines[g].proposed # None => baselines[g].proposed \in Int
    BY <1>1 DEF BaselineRows, Times
  <2> QED
    BY <1>1, <1>2, <2>1 DEF BaselineSound, StoreGrows, Forward
<1>4. ASSUME NEW row \in baselines[g].validations
      PROVE  Made(row.at, row.permission)'
  <2>1. row.at \in Times /\ row.permission \in Nat
    BY <1>1 DEF BaselineRows, LimitedRows
  <2>2. Made(row.at, row.permission)
    BY <1>2 DEF BaselineSound
  <2> QED
    BY <2>1, <2>2, MadeStays DEF StoreGrows, ChainInv, Made
<1>5. ASSUME baselines[g].adopted # None
      PROVE  /\ Made(baselines[g].adopted.at, baselines[g].adopted.permission)'
             /\ baselines[g].adopted.adopted <= lastClock'
             /\ run'[Base].receipt # None
             /\ baselines'[1].adopted # None
  <2>1. /\ baselines[g].adopted.at \in Times /\ baselines[g].adopted.permission \in Nat
        /\ baselines[g].adopted.adopted \in Int
    BY <1>1, <1>5 DEF BaselineRows, AdoptedRows, Times
  <2>2. /\ Made(baselines[g].adopted.at, baselines[g].adopted.permission)
        /\ baselines[g].adopted.adopted <= lastClock
        /\ run[Base].receipt # None
        /\ baselines[1].adopted # None
    BY <1>2, <1>5 DEF BaselineSound
  <2>3. Made(baselines[g].adopted.at, baselines[g].adopted.permission)'
    BY <2>1, <2>2, MadeStays DEF StoreGrows, ChainInv, Made
  <2>4. baselines[g].adopted.adopted <= lastClock'
    BY <2>1, <2>2, <1>1 DEF StoreGrows, Forward
  <2>5. run'[Base].receipt # None /\ baselines'[1].adopted # None
    BY <1>2, <2>2 DEF ChainGrows, ReceiptStays, Generations
  <2> QED
    BY <2>3, <2>4, <2>5
<1> QED
  BY <1>2, <1>3, <1>4, <1>5 DEF BaselineSound

LEMMA PolicyStays ==
  ASSUME ChainInv, StoreGrows, NEW v \in Validations, validations'[v] = validations[v]
  PROVE  PolicySound(v)'
<1> SUFFICES ASSUME validations[v] # None
             PROVE  PolicySound(v)'
  BY DEF PolicySound
<1>1. validations[v] \in ValidationRows
  BY DEF ChainInv, AdoptionInv, AdoptionTypeOK, ValidationRows
<1>2. validations[v].observed \in Times /\ validations[v].permission \in Nat
  BY <1>1 DEF ValidationRows
<1>3. Made(validations[v].observed, validations[v].permission)
  BY DEF ChainInv, PolicySound
<1> QED
  BY <1>2, <1>3, MadeStays DEF StoreGrows, ChainInv, Made, PolicySound

-----------------------------------------------------------------------------
(* One row is written at a time.                                            *)

\* What every step of the chain keeps and what it never takes back.
ChainGoesOn == ChainInv' /\ StoreGrows /\ ChainGrows

LEMMA MadeNow ==
  ASSUME AdoptionInv, NEW now \in Times, NEW actor, Ask(actor, now)
  PROVE  Made(now, permissionGeneration)'
<1>1. StoreGrows /\ lastClock' = now /\ permissionGeneration' = permissionGeneration
      /\ revocations' = revocations
  BY AskMovesForward DEF Ask
<1> QED
  BY <1>1 DEF StoreGrows, Forward, Made, Times

LEMMA PoliciesStay ==
  ASSUME ChainInv, NEW now \in Times, NEW actor, Ask(actor, now)
  PROVE  \A v \in Validations : PolicySound(v)'
<1>1. StoreGrows /\ UNCHANGED validations
  BY AskMovesForward DEF ChainInv, Ask, policyVars
<1> QED
  BY <1>1, PolicyStays

LEMMA OnlyRun ==
  ASSUME ChainInv, NEW now \in Times, NEW actor, Ask(actor, now),
         NEW r \in Runs, NEW row \in RunRows,
         run' = [run EXCEPT ![r] = row],
         UNCHANGED <<admission, contracts, candidate, baselines>>,
         ReceiptStays(r), RunSound(r)', r = Ci => CiSound'
  PROVE  ChainGoesOn
<1>1. AdoptionInv' /\ StoreGrows
  BY AskKeeps, AskMovesForward DEF ChainInv
<1>2. run \in [Runs -> RunRows]
  BY DEF ChainInv, ChainTypeOK
<1>3. \A q \in Runs : q # r => run'[q] = run[q]
  BY <1>2
<1>4. ChainTypeOK'
  BY <1>2 DEF ChainInv, ChainTypeOK
<1>5. ChainGrows
  BY <1>3 DEF ChainGrows, ReceiptStays
<1>6. AdmissionSound'
  BY <1>1, AdmissionStays
<1>7. CandidateSound' /\ SecondSound'
  BY <1>1, <1>5, CandidateStays, SecondStays
<1>8. \A g \in Generations : ContractSound(g)' /\ BaselineSound(g)'
  BY <1>1, <1>5, ContractStays, BaselineStays
<1>9. \A q \in Runs : RunSound(q)'
  BY <1>1, <1>3, <1>5, RunStays
<1>10. CiSound'
  BY <1>3, <1>5, CiStays DEF Runs
<1>11. \A v \in Validations : PolicySound(v)'
  BY PoliciesStay
<1> QED
  BY <1>1, <1>4, <1>5, <1>6, <1>7, <1>8, <1>9, <1>10, <1>11 DEF ChainGoesOn, ChainInv

LEMMA OnlyContract ==
  ASSUME ChainInv, NEW now \in Times, NEW actor, Ask(actor, now),
         NEW g \in Generations, NEW row \in ContractRows,
         contracts' = [contracts EXCEPT ![g] = row],
         UNCHANGED <<admission, run, candidate, baselines>>,
         contracts[g].adopted # None => row.adopted = contracts[g].adopted,
         ContractSound(g)',
         g = 2 => row.adopted = contracts[2].adopted \/ SecondSound'
  PROVE  ChainGoesOn
<1>1. AdoptionInv' /\ StoreGrows
  BY AskKeeps, AskMovesForward DEF ChainInv
<1>2. contracts \in [Generations -> ContractRows]
  BY DEF ChainInv, ChainTypeOK
<1>3. \A h \in Generations : contracts'[h] = IF h = g THEN row ELSE contracts[h]
  BY <1>2
<1>4. ChainTypeOK'
  BY <1>2 DEF ChainInv, ChainTypeOK
<1>5. ChainGrows
  BY <1>3 DEF ChainGrows, ReceiptStays
<1>6. AdmissionSound'
  BY <1>1, AdmissionStays
<1>7. CandidateSound' /\ CiSound'
  BY <1>1, <1>5, CandidateStays, CiStays
<1>8. \A h \in Generations : ContractSound(h)' /\ BaselineSound(h)'
  BY <1>1, <1>3, <1>5, ContractStays, BaselineStays
<1>9. \A q \in Runs : RunSound(q)'
  BY <1>1, <1>5, RunStays
<1>10. SecondSound'
  BY <1>3, <1>5, SecondStays DEF Generations
<1>11. \A v \in Validations : PolicySound(v)'
  BY PoliciesStay
<1> QED
  BY <1>1, <1>4, <1>5, <1>6, <1>7, <1>8, <1>9, <1>10, <1>11 DEF ChainGoesOn, ChainInv

LEMMA OnlyBaseline ==
  ASSUME ChainInv, NEW now \in Times, NEW actor, Ask(actor, now),
         NEW g \in Generations, NEW row \in BaselineRows,
         baselines' = [baselines EXCEPT ![g] = row],
         UNCHANGED <<admission, run, candidate, contracts>>,
         baselines[g].adopted # None => row.adopted = baselines[g].adopted,
         baselines[g].revoked => row.revoked,
         BaselineSound(g)'
  PROVE  ChainGoesOn
<1>1. AdoptionInv' /\ StoreGrows
  BY AskKeeps, AskMovesForward DEF ChainInv
<1>2. baselines \in [Generations -> BaselineRows]
  BY DEF ChainInv, ChainTypeOK
<1>3. \A h \in Generations : baselines'[h] = IF h = g THEN row ELSE baselines[h]
  BY <1>2
<1>4. ChainTypeOK'
  BY <1>2 DEF ChainInv, ChainTypeOK
<1>5. ChainGrows
  BY <1>3 DEF ChainGrows, ReceiptStays
<1>6. AdmissionSound'
  BY <1>1, AdmissionStays
<1>7. CandidateSound' /\ CiSound' /\ SecondSound'
  BY <1>1, <1>5, CandidateStays, CiStays, SecondStays
<1>8. \A h \in Generations : ContractSound(h)' /\ BaselineSound(h)'
  BY <1>1, <1>3, <1>5, ContractStays, BaselineStays
<1>9. \A q \in Runs : RunSound(q)'
  BY <1>1, <1>5, RunStays
<1>11. \A v \in Validations : PolicySound(v)'
  BY PoliciesStay
<1> QED
  BY <1>1, <1>4, <1>5, <1>6, <1>7, <1>8, <1>9, <1>11 DEF ChainGoesOn, ChainInv

-----------------------------------------------------------------------------
(* The requests of the chain, one by one.                                   *)

LEMMA FixtureGoesOn ==
  ASSUME ChainInv, NEW now \in Times, fixture_prepare(now)
  PROVE  ChainGoesOn
<1>1. /\ Ask(Manager, now) /\ admission = None /\ CurrentValid(now)
      /\ admission' = [at |-> now, permission |-> permissionGeneration, policy |-> PolicyGeneration]
      /\ UNCHANGED <<contracts, candidate, run, baselines>>
  BY DEF fixture_prepare
<1>2. AdoptionInv' /\ StoreGrows /\ permissionGeneration' = permissionGeneration
  BY <1>1, AskKeeps, AskMovesForward DEF ChainInv, Ask
<1>3. PolicyGeneration \in Nat /\ permissionGeneration \in 0 .. MaxPermission
  BY GenerationIsLength, AdoptionAssumption DEF ChainInv, AdoptionInv, AdoptionTypeOK
<1>4. admission' \in AdmissionRows /\ admission'.at = now /\ admission'.permission = permissionGeneration
  BY <1>1, <1>3 DEF AdmissionRows
<1>5. ChainTypeOK'
  BY <1>1, <1>4 DEF ChainInv, ChainTypeOK
<1>6. ChainGrows
  BY <1>1 DEF ChainGrows, ReceiptStays
<1>7. AdmissionSound'
  <2>1. policyAdoptions # <<>>
    BY <1>1 DEF CurrentValid, ChainInv, AdoptionInv, CurrentIsLast
  <2>2. PolicyGeneration \in DOMAIN policyAdoptions
    BY <2>1, GenerationIsLength DEF ChainInv, AdoptionInv, AdoptionTypeOK
  <2>3. admission'.policy \in DOMAIN policyAdoptions'
    BY <2>2, <1>1, <1>2 DEF StoreGrows
  <2> QED
    BY <2>3, <1>1, <1>2, <1>4, MadeNow DEF ChainInv, Made, AdmissionSound
<1>8. CandidateSound' /\ CiSound' /\ SecondSound'
  BY <1>1, <1>2, <1>6, CandidateStays, CiStays, SecondStays
<1>9. \A h \in Generations : ContractSound(h)' /\ BaselineSound(h)'
  BY <1>1, <1>2, <1>6, ContractStays, BaselineStays
<1>10. \A q \in Runs : RunSound(q)'
  BY <1>1, <1>2, <1>6, RunStays
<1>11. \A v \in Validations : PolicySound(v)'
  BY <1>1, PoliciesStay
<1> QED
  BY <1>2, <1>5, <1>6, <1>7, <1>8, <1>9, <1>10, <1>11 DEF ChainGoesOn, ChainInv

LEMMA CandidateGoesOn ==
  ASSUME ChainInv, NEW now \in Times, contract_candidate_prepare(now)
  PROVE  ChainGoesOn
<1>1. /\ Ask(Validator, now) /\ candidate = None /\ Preflight(now)
      /\ candidate' = [at |-> now, permission |-> permissionGeneration]
      /\ UNCHANGED <<admission, contracts, run, baselines>>
  BY DEF contract_candidate_prepare
<1>2. AdoptionInv' /\ StoreGrows /\ permissionGeneration' = permissionGeneration
      /\ lastClock <= now /\ lastClock \in Int /\ now \in Int
  BY <1>1, AskKeeps, AskMovesForward DEF ChainInv, Ask, AdoptionInv, AdoptionTypeOK, Times
<1>3. candidate' \in StampRows /\ candidate'.at = now /\ candidate'.permission = permissionGeneration
  BY <1>1 DEF StampRows, ChainInv, AdoptionInv, AdoptionTypeOK
<1>4. ChainTypeOK'
  BY <1>1, <1>3 DEF ChainInv, ChainTypeOK
<1>5. ChainGrows
  BY <1>1 DEF ChainGrows, ReceiptStays
<1>6. AdmissionSound'
  BY <1>1, <1>2, AdmissionStays
<1>7. CandidateSound'
  <2>1. baselines[1].adopted # None
    BY <1>1 DEF Preflight, FirstBaseline
  <2>2. baselines[1].adopted \in AdoptedRows
    BY <2>1 DEF ChainInv, ChainTypeOK, Generations, BaselineRows
  <2>3. baselines[1].adopted.adopted \in Int /\ baselines[1].adopted.adopted <= lastClock
    BY <2>1, <2>2 DEF AdoptedRows, Times, ChainInv, BaselineSound, Generations
  <2>4. baselines[1].adopted.adopted <= now
    BY <2>3, <1>2
  <2> QED
    BY <2>1, <2>4, <1>1, <1>2, <1>3, MadeNow DEF CandidateSound, ChainInv, Made
<1>8. CiSound' /\ SecondSound'
  BY <1>1, <1>5, CiStays, SecondStays
<1>9. \A h \in Generations : ContractSound(h)' /\ BaselineSound(h)'
  BY <1>1, <1>2, <1>5, ContractStays, BaselineStays
<1>10. \A q \in Runs : RunSound(q)'
  BY <1>1, <1>2, <1>5, RunStays
<1>11. \A v \in Validations : PolicySound(v)'
  BY <1>1, PoliciesStay
<1> QED
  BY <1>2, <1>4, <1>5, <1>6, <1>7, <1>8, <1>9, <1>10, <1>11 DEF ChainGoesOn, ChainInv

\* What the validations of a contract are after a request.
LEMMA ValidationsStay ==
  ASSUME ChainInv, StoreGrows, NEW g \in Generations
  PROVE  /\ \A row \in contracts[g].validations : row \in LimitedRows /\ ContractValidationSound(row)'
         /\ contracts[g].adopted # None =>
              contracts[g].adopted \in LimitedRows /\ ContractValidationSound(contracts[g].adopted)
         /\ \A row \in {contracts[g].adopted} \ {None} : ContractValidationSound(row)'
<1>1. contracts[g] \in ContractRows /\ ContractSound(g)
  BY DEF ChainInv, ChainTypeOK
<1>2. \A row \in contracts[g].validations : row \in LimitedRows /\ ContractValidationSound(row)
  BY <1>1 DEF ContractRows, ContractSound
<1>3. contracts[g].adopted # None =>
        contracts[g].adopted \in LimitedRows /\ ContractValidationSound(contracts[g].adopted)
  BY <1>1 DEF ContractRows, ContractSound
<1> QED
  BY <1>2, <1>3, ContractValidationStays

LEMMA ProposeContractGoesOn ==
  ASSUME ChainInv, NEW now \in Times, NEW g \in Generations, contract_propose(g, now)
  PROVE  ChainGoesOn
<1> DEFINE new == [contracts[g] EXCEPT !.proposed = TRUE]
<1>1. /\ Ask(Manager, now) /\ admission # None
      /\ contracts' = [contracts EXCEPT ![g] = new]
      /\ UNCHANGED <<admission, candidate, run, baselines>>
  BY DEF contract_propose
<1>2. contracts \in [Generations -> ContractRows] /\ StoreGrows
  BY <1>1, AskMovesForward DEF ChainInv, ChainTypeOK
<1>3. /\ new \in ContractRows /\ new.validations = contracts[g].validations
      /\ new.adopted = contracts[g].adopted
  BY <1>2 DEF ContractRows
<1> HIDE DEF new
<1>4. contracts'[g] = new
  BY <1>1, <1>2
<1>5. \A row \in contracts'[g].validations : ContractValidationSound(row)'
  BY <1>2, <1>3, <1>4, ValidationsStay
<1>6. contracts'[g].adopted # None => ContractValidationSound(contracts[g].adopted)'
  <2> PICK old : old = contracts[g].adopted
    OBVIOUS
  <2>1. old # None => ContractValidationSound(old)'
    BY <1>2, ValidationsStay
  <2> QED
    BY <2>1, <1>3, <1>4 DEF ContractValidationSound, Made
<1>7. ContractSound(g)'
  BY <1>1, <1>5, <1>6 DEF ContractSound
<1> QED
  BY <1>1, <1>3, <1>7, OnlyContract

\* A validation that is new: of the present time and permissions.
LEMMA ValidatedNow ==
  ASSUME AdoptionInv, NEW now \in Times, NEW actor, Ask(actor, now), NEW until \in Nat
  PROVE  /\ Validated(until, now) \in LimitedRows
         /\ Validated(until, now).at = now /\ Validated(until, now).expires = until
         /\ Validated(until, now).permission = permissionGeneration
         /\ permissionGeneration' = permissionGeneration
  BY DEF Validated, LimitedRows, AdoptionInv, AdoptionTypeOK, Ask

LEMMA ValidateContractGoesOn ==
  ASSUME ChainInv, NEW now \in Times, NEW g \in Generations, contract_validate(g, now)
  PROVE  ChainGoesOn
<1> PICK row : row = Validated(now + ValidationTtl, now)
  OBVIOUS
<1> DEFINE new == [contracts[g] EXCEPT !.validations = @ \cup {row}]
<1>1. /\ Ask(Validator, now) /\ contracts[g].proposed
      /\ contracts' = [contracts EXCEPT ![g] = new]
      /\ UNCHANGED <<admission, candidate, run, baselines>>
  BY DEF contract_validate
<1>2. contracts \in [Generations -> ContractRows] /\ StoreGrows
  BY <1>1, AskMovesForward DEF ChainInv, ChainTypeOK
<1>3. /\ row \in LimitedRows /\ row.at = now /\ row.expires = now + ValidationTtl
      /\ row.permission = permissionGeneration /\ permissionGeneration' = permissionGeneration
  BY <1>1, ValidatedNow, AdoptionAssumption DEF ChainInv, Times
<1>4. ContractValidationSound(row)'
  BY <1>1, <1>3, MadeNow DEF ChainInv, ContractValidationSound, Made
<1>5. /\ new \in ContractRows /\ new.validations = contracts[g].validations \cup {row}
      /\ new.adopted = contracts[g].adopted
  BY <1>2, <1>3 DEF ContractRows
<1> HIDE DEF new
<1>6. contracts'[g] = new
  BY <1>1, <1>2
<1>7. \A other \in contracts'[g].validations : ContractValidationSound(other)'
  BY <1>2, <1>4, <1>5, <1>6, ValidationsStay
<1>8. contracts'[g].adopted # None => ContractValidationSound(contracts[g].adopted)'
  <2> PICK old : old = contracts[g].adopted
    OBVIOUS
  <2>1. old # None => ContractValidationSound(old)'
    BY <1>2, ValidationsStay
  <2> QED
    BY <2>1, <1>5, <1>6 DEF ContractValidationSound, Made
<1>9. admission # None
  BY <1>1 DEF ChainInv, ContractSound
<1>10. ContractSound(g)'
  BY <1>1, <1>7, <1>8, <1>9 DEF ContractSound
<1> QED
  BY <1>1, <1>5, <1>10, OnlyContract

\* Both adoptions of a contract: a stored validation becomes the adoption of a
\* generation that had none.
LEMMA AdoptContractGoesOn ==
  ASSUME ChainInv, NEW now \in Times, NEW actor, Ask(actor, now), NEW g \in Generations,
         NEW row \in contracts[g].validations, contracts[g].adopted = None,
         contracts' = [contracts EXCEPT ![g].adopted = row],
         UNCHANGED <<admission, candidate, run, baselines>>,
         g = 2 => SecondSound'
  PROVE  ChainGoesOn
<1> DEFINE new == [contracts[g] EXCEPT !.adopted = row]
<1>1. contracts' = [contracts EXCEPT ![g] = new]
  OBVIOUS
<1>2. contracts \in [Generations -> ContractRows] /\ StoreGrows
  BY AskMovesForward DEF ChainInv, ChainTypeOK
<1>3. row \in LimitedRows /\ ContractValidationSound(row)'
  BY <1>2, ValidationsStay
<1>4. /\ new \in ContractRows /\ new.validations = contracts[g].validations
      /\ new.adopted = row
  BY <1>2, <1>3 DEF ContractRows
<1> HIDE DEF new
<1>5. contracts'[g] = new
  BY <1>1, <1>2
<1>6. \A other \in contracts'[g].validations : ContractValidationSound(other)'
  BY <1>2, <1>4, <1>5, ValidationsStay
<1>7. ContractValidationSound(contracts[g].adopted)'
  BY <1>3, <1>4, <1>5 DEF ContractValidationSound, Made
<1>8. admission # None
  BY DEF ChainInv, ContractSound
<1>9. ContractSound(g)'
  BY <1>6, <1>7, <1>8 DEF ContractSound
<1> QED
  BY <1>1, <1>4, <1>9, OnlyContract

LEMMA AdoptFirstGoesOn ==
  ASSUME ChainInv, NEW now \in Times, NEW row \in contracts[1].validations, contract_adopt(row, now)
  PROVE  ChainGoesOn
<1>1. /\ Ask(Manager, now) /\ Current(contracts) = 0
      /\ contracts' = [contracts EXCEPT ![1].adopted = row]
      /\ UNCHANGED <<admission, candidate, run, baselines>>
  BY DEF contract_adopt
<1>2. contracts[1].adopted = None
  BY <1>1, CurrentCounts
<1>3. 1 \in Generations /\ (1 = 2 => SecondSound')
  BY DEF Generations
<1> QED
  BY <1>1, <1>2, <1>3, AdoptContractGoesOn

\* What a candidate contract is tried on, and no more than one is adopted.
LEMMA PreflightHas ==
  ASSUME ChainInv, NEW now \in Times, Preflight(now)
  PROVE  /\ contracts[1].adopted # None /\ contracts[2].adopted = None
         /\ baselines[1].adopted # None /\ run[Base].receipt # None
         /\ ~baselines[1].revoked /\ run[Base].healthy /\ ~run[Base].revoked
<1>1. Current(contracts) = 1 /\ contracts[1].adopted # None
  BY DEF Preflight, FirstContract
<1>2. contracts[2].adopted = None
  BY <1>1, CurrentCounts
<1> QED
  BY <1>1, <1>2 DEF Preflight, FirstBaseline, BaseReady, EvidenceCurrent

LEMMA AdoptSecondGoesOn ==
  ASSUME ChainInv, NEW now \in Times, NEW row \in contracts[2].validations,
         contract_candidate_adopt(row, now)
  PROVE  ChainGoesOn
<1>1. /\ Ask(Manager, now) /\ CandidateFresh(now) /\ Proof(now)
      /\ row.permission = permissionGeneration
      /\ contracts' = [contracts EXCEPT ![2].adopted = row]
      /\ UNCHANGED <<admission, candidate, run, baselines>>
  BY DEF contract_candidate_adopt
<1>2. candidate # None /\ candidate.permission = permissionGeneration /\ Preflight(now)
  BY <1>1 DEF CandidateFresh
<1>3. /\ contracts[1].adopted # None /\ contracts[2].adopted = None
      /\ baselines[1].adopted # None
  BY <1>2, PreflightHas
<1>4. \A side \in Sides : run[side].receipt # None
  BY <1>1 DEF Proof, EvidenceCurrent
<1>5. contracts \in [Generations -> ContractRows]
  BY DEF ChainInv, ChainTypeOK
<1>6. contracts'[2].adopted = row /\ contracts'[1] = contracts[1]
  BY <1>1, <1>5 DEF Generations, ContractRows
<1>7. SecondSound'
  BY <1>1, <1>2, <1>3, <1>4, <1>6 DEF SecondSound
<1> QED
  BY <1>1, <1>3, <1>7, AdoptContractGoesOn DEF Generations

-----------------------------------------------------------------------------
(* Runs and their evidence.                                                 *)

\* What a request finds of a run, and what stays of it.
LEMMA RunFound ==
  ASSUME ChainInv, NEW r \in Runs
  PROVE  /\ run \in [Runs -> RunRows] /\ run[r] \in RunRows
         /\ run[r].receipt # None => run[r].phase = "final"
         /\ RunSound(r)
  BY DEF ChainInv, ChainTypeOK, RunSound

LEMMA OriginStays ==
  ASSUME ChainInv, StoreGrows, NEW r \in Runs, NEW origin, origin = run[r].origin,
         run[r].phase \in Recorded
  PROVE  Made(origin.at, origin.permission)' /\ origin \in StampRows
<1>1. RunSound(r)
  BY RunFound
<1>2. origin.at \in Times /\ origin.permission \in Nat /\ origin \in StampRows
  BY <1>1 DEF RunSound, StampRows
<1>3. Made(origin.at, origin.permission)
  BY <1>1 DEF RunSound
<1> QED
  BY <1>2, <1>3, MadeStays DEF StoreGrows, ChainInv, Made

\* A run that has no receipt moves to a phase without an observation.
LEMMA UnobservedGoesOn ==
  ASSUME ChainInv, NEW now \in Times, NEW actor, Ask(actor, now), NEW r \in Runs,
         run[r].receipt = None,
         NEW row \in RunRows, run' = [run EXCEPT ![r] = row],
         row.phase \in Phases \ (Observed \cup {"absent"}),
         row.receipt = run[r].receipt,
         UNCHANGED <<admission, contracts, candidate, baselines>>,
         r = Ci => /\ contracts[2].adopted # None
                   /\ row.created \in Times /\ row.created >= contracts[2].adopted.at
  PROVE  ChainGoesOn
<1>1. run'[r] = row /\ StoreGrows
  BY RunFound, AskMovesForward DEF ChainInv
<1>3. RunSound(r)'
  BY <1>1 DEF RunSound, Observed, Recorded
<1>4. ReceiptStays(r)
  BY DEF ReceiptStays
<1>5. r = Ci => CiSound'
  BY <1>1 DEF CiSound
<1> QED
  BY <1>3, <1>4, <1>5, OnlyRun

LEMMA BeginGoesOn ==
  ASSUME ChainInv, NEW now \in Times, NEW r \in Runs, NEW created \in Times,
         run_begin(r, created, now)
  PROVE  ChainGoesOn
<1> DEFINE begun == [run[r] EXCEPT !.phase = "begun"]
           row == [begun EXCEPT !.created = created]
<1>1. /\ Ask(Operator, now) /\ run[r].phase = "absent"
      /\ run' = [run EXCEPT ![r].phase = "begun", ![r].created = created]
      /\ UNCHANGED <<admission, contracts, candidate, baselines>>
  BY DEF run_begin
<1>2. run \in [Runs -> RunRows] /\ run[r] \in RunRows /\ run[r].receipt = None
  BY <1>1, RunFound
<1>3. run' = [run EXCEPT ![r] = row]
  BY <1>1, <1>2
<1>4. begun \in RunRows /\ begun.phase = "begun" /\ begun.origin = run[r].origin
      /\ begun.receipt = run[r].receipt
  BY <1>2 DEF RunRows, Phases
<1> HIDE DEF begun
<1>5. row \in RunRows /\ row.phase = "begun" /\ row.origin = run[r].origin
      /\ row.receipt = run[r].receipt /\ row.created = created
  BY <1>4 DEF RunRows
<1> HIDE DEF row
<1>6. r = Ci => contracts[2].adopted # None /\ created >= contracts[2].adopted.at
  BY DEF run_begin, SecondContract, Base, Ci
<1>7. row.phase \in Phases \ (Observed \cup {"absent"})
  BY <1>5 DEF Phases, Observed
<1> QED
  BY <1>1, <1>2, <1>3, <1>5, <1>6, <1>7, UnobservedGoesOn

\* evidence_open and run_cancel_finalize only write the phase.
LEMMA PhaseGoesOn ==
  ASSUME ChainInv, NEW now \in Times, NEW actor, Ask(actor, now), NEW r \in Runs,
         run[r].phase \notin {"absent", "final"},
         NEW phase \in Phases \ (Observed \cup {"absent"}),
         run' = [run EXCEPT ![r].phase = phase],
         UNCHANGED <<admission, contracts, candidate, baselines>>
  PROVE  ChainGoesOn
<1> DEFINE row == [run[r] EXCEPT !.phase = phase]
<1>1. run \in [Runs -> RunRows] /\ run[r] \in RunRows /\ run[r].receipt = None
  BY RunFound
<1>2. /\ row \in RunRows /\ row.phase = phase /\ row.origin = run[r].origin
      /\ row.receipt = run[r].receipt /\ row.created = run[r].created
  BY <1>1 DEF RunRows
<1>3. run' = [run EXCEPT ![r] = row]
  BY <1>1
<1> HIDE DEF row
<1>4. r = Ci => /\ contracts[2].adopted # None
                /\ row.created \in Times /\ row.created >= contracts[2].adopted.at
  BY <1>2 DEF ChainInv, CiSound
<1> QED
  BY <1>1, <1>2, <1>3, <1>4, UnobservedGoesOn

LEMMA OpenGoesOn ==
  ASSUME ChainInv, NEW now \in Times, NEW r \in Runs, evidence_open(r, now)
  PROVE  ChainGoesOn
<1>1. /\ Ask(Operator, now) /\ run[r].phase = "begun"
      /\ run' = [run EXCEPT ![r].phase = "open"]
      /\ UNCHANGED <<admission, contracts, candidate, baselines>>
  BY DEF evidence_open
<1>2. "open" \in Phases \ (Observed \cup {"absent"})
  BY DEF Phases, Observed
<1> QED
  BY <1>1, <1>2, PhaseGoesOn

LEMMA CancelGoesOn ==
  ASSUME ChainInv, NEW now \in Times, run_cancel(now)
  PROVE  ChainGoesOn
<1>1. /\ Ask(Operator, now) /\ run[Ci].phase \in {"begun", "open", "performed", "recorded"}
      /\ run' = [run EXCEPT ![Ci].phase = "cancelled"]
      /\ UNCHANGED <<admission, contracts, candidate, baselines>>
  BY DEF run_cancel
<1>2. "cancelled" \in Phases \ (Observed \cup {"absent"}) /\ Ci \in Runs
  BY DEF Phases, Observed, Runs
<1> QED
  BY <1>1, <1>2, PhaseGoesOn

\* The contract of a run counts when its operations are dispatched.
LEMMA StartHas ==
  ASSUME NEW now, NEW r \in {Base, Ci}, Start(r, now)
  PROVE  contracts[ContractOf(r)].adopted # None /\ contracts[ContractOf(r)].adopted.at <= now
<1>1. CASE r = Base
  <2>1. r # Ci
    BY <1>1 DEF Base, Ci
  <2>2. BaseStart(now)
    BY <1>1, <2>1 DEF Start
  <2> QED
    BY <1>1, <2>2 DEF BaseStart, FirstContract, Live, ContractOf
<1>2. CASE r = Ci
  <2>1. r # Base
    BY <1>2 DEF Base, Ci
  <2>2. SecondContract(PolicyPinned(now), now)
    BY <1>2, <2>1 DEF Start
  <2> QED
    BY <2>1, <2>2 DEF SecondContract, Live, ContractOf
<1> QED
  BY <1>1, <1>2

LEMMA PerformGoesOn ==
  ASSUME ChainInv, NEW now \in Times, NEW r \in Runs, Perform(r, now)
  PROVE  ChainGoesOn
<1> DEFINE half == [run[r] EXCEPT !.phase = "performed"]
           row == [half EXCEPT !.observed = now]
<1>1. /\ Ask(Operator, now) /\ run[r].phase = "open" /\ Start(r, now)
      /\ run' = [run EXCEPT ![r].phase = "performed", ![r].observed = now]
      /\ UNCHANGED <<admission, contracts, candidate, baselines>>
  BY DEF Perform
<1>2. run \in [Runs -> RunRows] /\ run[r] \in RunRows /\ run[r].receipt = None
  BY <1>1, RunFound
<1>3. run' = [run EXCEPT ![r] = row]
  BY <1>1, <1>2
<1>4. half \in RunRows /\ half.phase = "performed" /\ half.origin = run[r].origin
      /\ half.receipt = run[r].receipt /\ half.created = run[r].created
  BY <1>2 DEF RunRows, Phases
<1> HIDE DEF half
<1>5. row \in RunRows /\ row.phase = "performed" /\ row.origin = run[r].origin
      /\ row.receipt = run[r].receipt /\ row.created = run[r].created /\ row.observed = now
  BY <1>4 DEF RunRows
<1> HIDE DEF row
<1>6. run'[r] = row /\ StoreGrows
  BY <1>1, <1>2, <1>3, AskMovesForward DEF ChainInv
<1>8. r \in {Base, Ci} =>
        /\ contracts'[ContractOf(r)].adopted # None
        /\ contracts'[ContractOf(r)].adopted.at <= now
  BY <1>1, StartHas
<1>9. RunSound(r)'
  BY <1>2, <1>5, <1>6, <1>8 DEF RunSound, Recorded
<1>10. ReceiptStays(r)
  BY <1>2 DEF ReceiptStays
<1>11. r = Ci => CiSound'
  BY <1>1, <1>5, <1>6 DEF CiSound, ChainInv
<1> QED
  BY <1>1, <1>3, <1>5, <1>9, <1>10, <1>11, OnlyRun

LEMMA RecordGoesOn ==
  ASSUME ChainInv, NEW now \in Times, NEW r \in Runs, evidence_record(r, now)
  PROVE  ChainGoesOn
<1> PICK stamp : stamp = [at |-> now, permission |-> permissionGeneration]
  OBVIOUS
<1> DEFINE half == [run[r] EXCEPT !.phase = "recorded"]
           row == [half EXCEPT !.origin = stamp]
<1>1. /\ Ask(Validator, now) /\ run[r].phase = "performed"
      /\ run' = [run EXCEPT ![r].phase = "recorded", ![r].origin = stamp]
      /\ UNCHANGED <<admission, contracts, candidate, baselines>>
  BY DEF evidence_record
<1>2. run \in [Runs -> RunRows] /\ run[r] \in RunRows /\ run[r].receipt = None /\ RunSound(r)
  BY <1>1, RunFound
<1>3. run' = [run EXCEPT ![r] = row]
  BY <1>1, <1>2
<1>4. /\ stamp \in StampRows /\ stamp.at = now /\ stamp.permission = permissionGeneration
      /\ permissionGeneration' = permissionGeneration
  BY <1>1 DEF StampRows, ChainInv, AdoptionInv, AdoptionTypeOK, Ask
<1>5. half \in RunRows /\ half.phase = "recorded" /\ half.observed = run[r].observed
      /\ half.receipt = run[r].receipt /\ half.created = run[r].created
  BY <1>2 DEF RunRows, Phases
<1> HIDE DEF half
<1>6. row \in RunRows /\ row.phase = "recorded" /\ row.origin = stamp
      /\ row.receipt = run[r].receipt /\ row.created = run[r].created
      /\ row.observed = run[r].observed
  BY <1>4, <1>5 DEF RunRows
<1> HIDE DEF row
<1>7. run'[r] = row /\ StoreGrows
  BY <1>1, <1>2, <1>3, AskMovesForward DEF ChainInv
<1>8. Made(stamp.at, stamp.permission)'
  BY <1>1, <1>4, MadeNow DEF ChainInv, Made
<1>9. Made(run[r].origin.at, run[r].origin.permission)'
  BY <1>6, <1>7, <1>8 DEF Made
<1>11. RunSound(r)'
  BY <1>1, <1>2, <1>4, <1>6, <1>7, <1>9 DEF RunSound, Observed
<1>12. ReceiptStays(r)
  BY <1>2 DEF ReceiptStays
<1>13. r = Ci => CiSound'
  BY <1>1, <1>6, <1>7 DEF CiSound, ChainInv
<1> QED
  BY <1>1, <1>3, <1>6, <1>11, <1>12, <1>13, OnlyRun

LEMMA FinalizeGoesOn ==
  ASSUME ChainInv, NEW now \in Times, NEW r \in Runs, NEW healthy \in BOOLEAN,
         evidence_finalize(r, healthy, now)
  PROVE  ChainGoesOn
<1> PICK stamp : stamp = [at |-> now, permission |-> permissionGeneration]
  OBVIOUS
<1> PICK origin : origin = run[r].origin
  OBVIOUS
<1> DEFINE ended == [run[r] EXCEPT !.phase = "final"]
           half == [ended EXCEPT !.healthy = healthy]
           row == [half EXCEPT !.receipt = stamp]
<1>1. /\ Ask(Operator, now) /\ run[r].phase = "recorded"
      /\ origin.permission = permissionGeneration
      /\ run' = [run EXCEPT ![r].phase = "final", ![r].healthy = healthy, ![r].receipt = stamp]
      /\ UNCHANGED <<admission, contracts, candidate, baselines>>
  BY DEF evidence_finalize
<1>2. run \in [Runs -> RunRows] /\ run[r] \in RunRows /\ run[r].receipt = None /\ RunSound(r)
  BY <1>1, RunFound
<1>3. run' = [run EXCEPT ![r] = row]
  BY <1>1, <1>2
<1>4. /\ stamp \in StampRows /\ stamp.permission = permissionGeneration
      /\ permissionGeneration' = permissionGeneration /\ permissionGeneration \in Nat
  BY <1>1 DEF StampRows, ChainInv, AdoptionInv, AdoptionTypeOK, Ask
<1>5. ended \in RunRows /\ ended.phase = "final" /\ ended.observed = run[r].observed
      /\ ended.origin = origin /\ ended.created = run[r].created
  BY <1>2 DEF RunRows, Phases
<1> HIDE DEF ended
<1>6. half \in RunRows /\ half.phase = "final" /\ half.observed = run[r].observed
      /\ half.origin = origin /\ half.created = run[r].created
  BY <1>5 DEF RunRows
<1> HIDE DEF half
<1>7. row \in RunRows /\ row.phase = "final" /\ row.origin = origin
      /\ row.receipt = stamp /\ row.created = run[r].created
      /\ row.observed = run[r].observed
  BY <1>4, <1>6 DEF RunRows
<1> HIDE DEF row
<1>8. run'[r] = row /\ StoreGrows
  BY <1>1, <1>2, <1>3, AskMovesForward DEF ChainInv
<1>9. Made(origin.at, origin.permission)' /\ origin \in StampRows
  BY <1>1, <1>8, OriginStays DEF Recorded
<1>10. Made(run[r].origin.at, run[r].origin.permission)'
  BY <1>7, <1>8, <1>9 DEF Made
<1>11. RunSound(r)'
  BY <1>1, <1>2, <1>4, <1>7, <1>8, <1>9, <1>10 DEF RunSound, Observed
<1>12. ReceiptStays(r)
  BY <1>2 DEF ReceiptStays
<1>13. r = Ci => CiSound'
  BY <1>1, <1>7, <1>8 DEF CiSound, ChainInv
<1> QED
  BY <1>1, <1>3, <1>7, <1>11, <1>12, <1>13, OnlyRun

LEMMA RevokeEvidenceGoesOn ==
  ASSUME ChainInv, NEW now \in Times, NEW r \in Runs, evidence_revoke(r, now)
  PROVE  ChainGoesOn
<1> PICK origin : origin = run[r].origin
  OBVIOUS
<1> DEFINE row == [run[r] EXCEPT !.revoked = TRUE]
<1>1. /\ Ask(Operator, now) /\ run[r].receipt # None
      /\ run' = [run EXCEPT ![r] = row]
      /\ UNCHANGED <<admission, contracts, candidate, baselines>>
  BY DEF evidence_revoke
<1>2. /\ run \in [Runs -> RunRows] /\ run[r] \in RunRows /\ run[r].phase = "final"
      /\ RunSound(r)
  BY <1>1, RunFound
<1>3. /\ row \in RunRows /\ row.phase = run[r].phase /\ row.origin = origin
      /\ row.receipt = run[r].receipt /\ row.created = run[r].created
      /\ row.observed = run[r].observed /\ row.healthy = run[r].healthy /\ row.revoked
  BY <1>2 DEF RunRows
<1> HIDE DEF row
<1>4. run'[r] = row /\ StoreGrows /\ permissionGeneration' = permissionGeneration
  BY <1>1, <1>2, AskMovesForward DEF ChainInv, Ask
<1>5. Made(origin.at, origin.permission)' /\ origin \in StampRows
  BY <1>2, <1>4, OriginStays DEF Recorded
<1>6. Made(run[r].origin.at, run[r].origin.permission)'
  BY <1>3, <1>4, <1>5 DEF Made
<1>7. RunSound(r)'
  BY <1>1, <1>2, <1>3, <1>4, <1>5, <1>6 DEF RunSound
<1>8. ReceiptStays(r)
  BY <1>3, <1>4 DEF ReceiptStays
<1>9. r = Ci => CiSound'
  BY <1>1, <1>2, <1>3, <1>4 DEF CiSound, ChainInv
<1> QED
  BY <1>1, <1>3, <1>7, <1>8, <1>9, OnlyRun

-----------------------------------------------------------------------------
(* Baselines.                                                               *)

\* What a request finds of a baseline, and what stays of it.
LEMMA BaselineFound ==
  ASSUME ChainInv, StoreGrows, NEW g \in Generations
  PROVE  /\ baselines \in [Generations -> BaselineRows] /\ baselines[g] \in BaselineRows
         /\ BaselineSound(g)
         /\ \A row \in baselines[g].validations :
              row \in LimitedRows /\ Made(row.at, row.permission)'
         /\ \A row \in {baselines[g].adopted} \ {None} :
              row \in AdoptedRows /\ Made(row.at, row.permission)'
<1>1. baselines \in [Generations -> BaselineRows] /\ baselines[g] \in BaselineRows /\ BaselineSound(g)
  BY DEF ChainInv, ChainTypeOK
<1>2. ASSUME NEW row \in baselines[g].validations
      PROVE  row \in LimitedRows /\ Made(row.at, row.permission)'
  <2>1. row \in LimitedRows /\ row.at \in Times /\ row.permission \in Nat
    BY <1>1 DEF BaselineRows, LimitedRows
  <2>2. Made(row.at, row.permission)
    BY <1>1 DEF BaselineSound
  <2> QED
    BY <2>1, <2>2, MadeStays DEF StoreGrows, ChainInv, Made
<1>3. ASSUME NEW row \in {baselines[g].adopted} \ {None}
      PROVE  row \in AdoptedRows /\ Made(row.at, row.permission)'
  <2>1. row \in AdoptedRows /\ row.at \in Times /\ row.permission \in Nat
    BY <1>1 DEF BaselineRows, AdoptedRows
  <2>2. Made(row.at, row.permission)
    BY <1>1 DEF BaselineSound
  <2> QED
    BY <2>1, <2>2, MadeStays DEF StoreGrows, ChainInv, Made
<1> QED
  BY <1>1, <1>2, <1>3

\* A request that leaves the adoption of a baseline as it is.
LEMMA UnadoptedGoesOn ==
  ASSUME ChainInv, NEW now \in Times, NEW actor, Ask(actor, now), NEW g \in Generations,
         NEW row \in BaselineRows, baselines' = [baselines EXCEPT ![g] = row],
         UNCHANGED <<admission, contracts, candidate, run>>,
         row.adopted = baselines[g].adopted, baselines[g].revoked => row.revoked,
         row.proposed # None => row.proposed <= now,
         \A new \in row.validations :
           /\ Made(new.at, new.permission)'
           /\ row.proposed # None /\ row.proposed <= new.at /\ new.at < new.expires
  PROVE  ChainGoesOn
<1>1. StoreGrows /\ lastClock' = now /\ lastClock <= now
  BY AskMovesForward DEF ChainInv
<1>2. baselines'[g] = row /\ baselines[g] \in BaselineRows /\ BaselineSound(g)
  BY <1>1, BaselineFound
<1>3. baselines[1].adopted # None => baselines'[1].adopted # None
  BY <1>1, BaselineFound DEF Generations
<1>4. ASSUME row.adopted # None
      PROVE  /\ Made(baselines[g].adopted.at, baselines[g].adopted.permission)'
             /\ row.adopted.at <= row.adopted.adopted
             /\ row.adopted.adopted < row.adopted.expires
             /\ row.adopted.adopted <= lastClock'
             /\ run'[Base].receipt # None
             /\ baselines'[1].adopted # None
  <2> PICK old : old = baselines[g].adopted
    OBVIOUS
  <2>1. Made(old.at, old.permission)' /\ old \in AdoptedRows
    BY <1>1, <1>4, BaselineFound
  <2>2. Made(baselines[g].adopted.at, baselines[g].adopted.permission)'
    BY <1>2, <2>1 DEF Made
  <2>3. old.adopted <= lastClock /\ old.adopted \in Int /\ lastClock \in Int
    BY <1>2, <1>4, <2>1
    DEF BaselineSound, AdoptedRows, Times, ChainInv, AdoptionInv, AdoptionTypeOK
  <2>4. old.adopted <= lastClock'
    BY <2>3, <1>1 DEF Times
  <2> QED
    BY <1>2, <1>3, <1>4, <2>2, <2>4 DEF BaselineSound
<1>5. BaselineSound(g)'
  <2>1. \A new \in baselines'[g].validations :
          /\ Made(new.at, new.permission)'
          /\ baselines'[g].proposed # None /\ baselines'[g].proposed <= new.at
          /\ new.at < new.expires
    BY <1>2
  <2>2. baselines'[g].proposed # None => baselines'[g].proposed <= lastClock'
    BY <1>1, <1>2
  <2> QED
    BY <1>2, <1>4, <2>1, <2>2 DEF BaselineSound
<1> QED
  BY <1>5, OnlyBaseline

LEMMA ProposeBaselineGoesOn ==
  ASSUME ChainInv, NEW now \in Times, NEW g \in Generations, baseline_propose(g, now)
  PROVE  ChainGoesOn
<1> DEFINE row == [baselines[g] EXCEPT !.proposed = now]
<1>1. /\ Ask(Manager, now) /\ baselines[g].proposed = None
      /\ baselines' = [baselines EXCEPT ![g] = row]
      /\ UNCHANGED <<admission, contracts, candidate, run>>
  BY DEF baseline_propose
<1>2. baselines[g] \in BaselineRows /\ BaselineSound(g)
  BY <1>1, AskMovesForward, BaselineFound DEF ChainInv
<1>3. /\ row \in BaselineRows /\ row.proposed = now /\ row.adopted = baselines[g].adopted
      /\ row.revoked = baselines[g].revoked /\ row.validations = baselines[g].validations
  BY <1>2 DEF BaselineRows
<1> HIDE DEF row
<1>4. row.validations = {}
  BY <1>1, <1>2, <1>3 DEF BaselineSound
<1>5. row.proposed # None => row.proposed <= now
  BY <1>3 DEF Times
<1> QED
  BY <1>1, <1>3, <1>4, <1>5, UnadoptedGoesOn

\* A source that can be used was observed too recently for its evidence to end
\* before the validation of its contract does.
LEMMA ReadyOutlives ==
  ASSUME ChainInv, NEW now \in Times, NEW g \in Generations, Ready(g, now)
  PROVE  ValidUntil(Source(g)) \in Nat /\ now < ValidUntil(Source(g))
<1> DEFINE r == Source(g)
<1>1. r \in {Base, Ci} /\ (g = 1 => r = Base) /\ (g = 2 => r = Ci) /\ r \in Runs
  BY DEF Source, Generations, Runs
<1>2. EvidenceCurrent(r, now) /\ Start(r, now)
  <2>1. CASE g = 1
    <3>1. EvidenceCurrent(Base, now) /\ BaseStart(now)
      BY <2>1 DEF Ready, BaseReady
    <3>2. Start(Base, now)
      BY <3>1, Base # Ci DEF Start, Base, Ci
    <3> QED
      BY <3>1, <3>2, <2>1, <1>1
  <2>2. CASE g = 2
    BY <2>2, <1>1 DEF Ready, CiReady
  <2> QED
    BY <2>1, <2>2 DEF Generations
<1>3. ContractOf(r) \in Generations
  BY DEF ContractOf, Generations
<1> DEFINE contract == contracts[ContractOf(r)].adopted
<1>4. contract # None /\ now < contract.expires
  <2>1. CASE g = 1
    <3>1. contracts[1].adopted # None /\ Live(contracts[1].adopted, now)
      BY <2>1 DEF Ready, BaseReady, BaseStart, FirstContract
    <3>2. ContractOf(r) = 1
      BY <2>1, <1>1 DEF ContractOf
    <3> QED
      BY <3>1, <3>2 DEF Live
  <2>2. CASE g = 2
    <3>1. r = Ci /\ r # Base
      BY <2>2, <1>1 DEF Base, Ci
    <3>2. SecondContract(PolicyPinned(now), now)
      BY <3>1, <1>2 DEF Start
    <3>3. contracts[2].adopted # None /\ Live(contracts[2].adopted, now)
      BY <3>2 DEF SecondContract
    <3>4. ContractOf(r) = 2
      BY <3>1 DEF ContractOf
    <3> QED
      BY <3>3, <3>4 DEF Live
  <2> QED
    BY <2>1, <2>2 DEF Generations
<1>5. contract \in LimitedRows /\ contract.expires = contract.at + ValidationTtl
  BY <1>3, <1>4 DEF ChainInv, ChainTypeOK, ContractRows, ContractSound, ContractValidationSound
<1>6. run[r].phase = "final" /\ run[r].observed \in Times /\ contract.at <= run[r].observed
  <2>1. run[r].receipt # None
    BY <1>2 DEF EvidenceCurrent
  <2>2. RunSound(r) /\ run[r].phase = "final"
    BY <1>1, <2>1, RunFound
  <2> QED
    BY <2>2, <1>1 DEF RunSound, Observed
<1>7. contract.at \in Nat /\ run[r].observed \in Nat /\ now \in Nat
  BY <1>5, <1>6, AdoptionAssumption DEF LimitedRows, Times
<1> HIDE DEF contract, r
<1>8. ValidUntil(r) = run[r].observed + BaselineLife \/ ValidUntil(r) = run[r].observed + Freshness
  BY DEF ValidUntil
<1>9. ValidUntil(r) \in Nat /\ now < ValidUntil(r)
  BY <1>4, <1>5, <1>6, <1>7, <1>8, ChainAssumption, AdoptionAssumption
<1> QED
  BY <1>9 DEF r

LEMMA ValidateBaselineGoesOn ==
  ASSUME ChainInv, NEW now \in Times, NEW g \in Generations, baseline_validate(g, now)
  PROVE  ChainGoesOn
<1> PICK until : until = Earlier(now + BaselineLife, ValidUntil(Source(g)))
  OBVIOUS
<1> PICK new : new = Validated(until, now)
  OBVIOUS
<1> DEFINE row == [baselines[g] EXCEPT !.validations = @ \cup {new}]
<1>1. /\ Ask(Validator, now) /\ baselines[g].proposed # None /\ Ready(g, now)
      /\ baselines' = [baselines EXCEPT ![g] = row]
      /\ UNCHANGED <<admission, contracts, candidate, run>>
  BY DEF baseline_validate
<1>2. StoreGrows /\ lastClock <= now /\ now \in Nat /\ lastClock \in Int
  BY <1>1, AskMovesForward, AdoptionAssumption DEF ChainInv, AdoptionInv, AdoptionTypeOK, Times
<1>3. baselines[g] \in BaselineRows /\ BaselineSound(g)
  BY <1>2, BaselineFound
<1>4. until \in Nat /\ now < until
  BY <1>1, <1>2, ReadyOutlives, ChainAssumption DEF Earlier
<1>5. /\ new \in LimitedRows /\ new.at = now /\ new.expires = until
      /\ new.permission = permissionGeneration /\ permissionGeneration' = permissionGeneration
  BY <1>1, <1>4, ValidatedNow DEF ChainInv
<1>6. Made(new.at, new.permission)'
  BY <1>1, <1>5, MadeNow DEF ChainInv, Made
<1>7. /\ row \in BaselineRows /\ row.proposed = baselines[g].proposed
      /\ row.adopted = baselines[g].adopted
      /\ row.revoked = baselines[g].revoked
      /\ row.validations = baselines[g].validations \cup {new}
  BY <1>3, <1>5 DEF BaselineRows
<1> HIDE DEF row
<1>8. baselines[g].proposed \in Int /\ baselines[g].proposed <= lastClock
  BY <1>1, <1>3 DEF BaselineRows, BaselineSound, Times
<1>9. row.proposed # None /\ row.proposed <= now
  BY <1>1, <1>2, <1>7, <1>8
<1>10. \A other \in row.validations :
         /\ Made(other.at, other.permission)'
         /\ row.proposed # None /\ row.proposed <= other.at /\ other.at < other.expires
  <2>1. \A other \in baselines[g].validations :
          /\ Made(other.at, other.permission)'
          /\ row.proposed # None /\ row.proposed <= other.at /\ other.at < other.expires
    BY <1>2, <1>3, <1>7, BaselineFound DEF BaselineSound
  <2>2. row.proposed <= new.at /\ new.at < new.expires
    BY <1>4, <1>5, <1>9
  <2> QED
    BY <2>1, <2>2, <1>6, <1>7, <1>9
<1> QED
  BY <1>1, <1>7, <1>9, <1>10, UnadoptedGoesOn

LEMMA RevokeBaselineGoesOn ==
  ASSUME ChainInv, NEW now \in Times, NEW g \in Generations, baseline_revoke(g, now)
  PROVE  ChainGoesOn
<1> DEFINE row == [baselines[g] EXCEPT !.revoked = TRUE]
<1>1. /\ Ask(Operator, now)
      /\ baselines' = [baselines EXCEPT ![g] = row]
      /\ UNCHANGED <<admission, contracts, candidate, run>>
  BY DEF baseline_revoke
<1>2. StoreGrows /\ lastClock <= now /\ now \in Nat /\ lastClock \in Int
  BY <1>1, AskMovesForward, AdoptionAssumption DEF ChainInv, AdoptionInv, AdoptionTypeOK, Times
<1>3. baselines[g] \in BaselineRows /\ BaselineSound(g)
  BY <1>2, BaselineFound
<1>4. /\ row \in BaselineRows /\ row.proposed = baselines[g].proposed
      /\ row.adopted = baselines[g].adopted /\ row.revoked
      /\ row.validations = baselines[g].validations
  BY <1>3 DEF BaselineRows
<1> HIDE DEF row
<1>5. row.proposed # None => row.proposed <= now
  <2>1. baselines[g].proposed # None => baselines[g].proposed \in Int /\ baselines[g].proposed <= lastClock
    BY <1>3 DEF BaselineRows, BaselineSound, Times
  <2> QED
    BY <2>1, <1>2, <1>4
<1>6. \A other \in row.validations :
        /\ Made(other.at, other.permission)'
        /\ row.proposed # None /\ row.proposed <= other.at /\ other.at < other.expires
  BY <1>2, <1>3, <1>4, BaselineFound DEF BaselineSound
<1> QED
  BY <1>1, <1>4, <1>5, <1>6, UnadoptedGoesOn

\* A baseline is adopted on a validation that counts and a source that can be
\* used, and only as the next of its series.
LEMMA AdoptBaselineGoesOn ==
  ASSUME ChainInv, NEW now \in Times, NEW g \in Generations,
         NEW chosen \in baselines[g].validations, baseline_adopt(g, chosen, now)
  PROVE  ChainGoesOn
<1> PICK new : new = [at |-> chosen.at, expires |-> chosen.expires,
                      permission |-> chosen.permission, adopted |-> now]
  OBVIOUS
<1> DEFINE row == [baselines[g] EXCEPT !.adopted = new]
<1>1. /\ Ask(Manager, now) /\ Current(baselines) = g - 1
      /\ Live(chosen, now) /\ Ready(g, now)
      /\ baselines' = [baselines EXCEPT ![g] = row]
      /\ UNCHANGED <<admission, contracts, candidate, run>>
  BY DEF baseline_adopt
<1>2. StoreGrows /\ lastClock' = now /\ lastClock <= now /\ now \in Nat /\ lastClock \in Int
  BY <1>1, AskMovesForward, AdoptionAssumption DEF ChainInv, AdoptionInv, AdoptionTypeOK, Times
<1>3. /\ baselines \in [Generations -> BaselineRows] /\ baselines[g] \in BaselineRows
      /\ BaselineSound(g) /\ chosen \in LimitedRows /\ Made(chosen.at, chosen.permission)'
  BY <1>2, BaselineFound
<1>4. /\ new \in AdoptedRows /\ new.at = chosen.at /\ new.expires = chosen.expires
      /\ new.permission = chosen.permission /\ new.adopted = now
  BY <1>3 DEF AdoptedRows, LimitedRows
<1>5. Made(new.at, new.permission)' /\ new.at <= now /\ now < new.expires
  BY <1>1, <1>3, <1>4 DEF Live
<1>6. /\ row \in BaselineRows /\ row.proposed = baselines[g].proposed
      /\ row.adopted = new /\ row.revoked = baselines[g].revoked
      /\ row.validations = baselines[g].validations
  BY <1>3, <1>4 DEF BaselineRows
<1> HIDE DEF row
<1>7. baselines'[g] = row
  BY <1>1, <1>3
<1>8. /\ g = 2 => baselines[1].adopted # None
      /\ baselines[g].adopted = None
  <2>1. CASE g = 1
    BY <2>1, <1>1, CurrentCounts
  <2>2. CASE g = 2
    <3>1. BaselineSound(2)
      BY DEF ChainInv, Generations
    <3>2. Current(baselines) = 1
      BY <2>2, <1>1
    <3>3. baselines[2].adopted # None => baselines[1].adopted # None
      BY <3>1 DEF BaselineSound
    <3>4. baselines[2].adopted = None
      BY <3>2, <3>3, CurrentCounts
    <3>5. SecondContract(PolicyPinned(now), now)
      BY <2>2, <1>1 DEF Ready, CiReady, Start, Base, Ci
    <3>6. baselines[1].adopted # None
      BY <3>5 DEF SecondContract, FirstBaseline
    <3> QED
      BY <2>2, <3>4, <3>6
  <2> QED
    BY <2>1, <2>2 DEF Generations
<1>9. run[Base].receipt # None
  <2>1. CASE g = 1
    BY <2>1, <1>1 DEF Ready, BaseReady, EvidenceCurrent
  <2>2. CASE g # 1
    BY <2>2, <1>8 DEF ChainInv, BaselineSound, Generations
  <2> QED
    BY <2>1, <2>2
<1>10. ASSUME baselines'[g].adopted # None
       PROVE  baselines'[1].adopted # None
  <2>1. CASE g = 1
    BY <2>1, <1>10
  <2>2. CASE g = 2
    BY <2>2, <1>1, <1>3, <1>8 DEF Generations
  <2> QED
    BY <2>1, <2>2 DEF Generations
<1>11. BaselineSound(g)'
  <2>1. baselines'[g].proposed # None => baselines'[g].proposed <= lastClock'
    <3>1. baselines[g].proposed # None =>
            baselines[g].proposed \in Int /\ baselines[g].proposed <= lastClock
      BY <1>3 DEF BaselineRows, BaselineSound, Times
    <3> QED
      BY <3>1, <1>2, <1>6, <1>7
  <2>2. \A other \in baselines'[g].validations :
          /\ Made(other.at, other.permission)'
          /\ baselines'[g].proposed # None /\ baselines'[g].proposed <= other.at
          /\ other.at < other.expires
    BY <1>2, <1>3, <1>6, <1>7, BaselineFound DEF BaselineSound
  <2>3. Made(baselines[g].adopted.at, baselines[g].adopted.permission)'
    BY <1>5, <1>6, <1>7 DEF Made
  <2> QED
    BY <2>1, <2>2, <2>3, <1>1, <1>2, <1>4, <1>5, <1>6, <1>7, <1>9, <1>10 DEF BaselineSound
<1> QED
  BY <1>1, <1>6, <1>8, <1>11, OnlyBaseline

-----------------------------------------------------------------------------
(* All requests together.                                                   *)

\* A validation of a policy that is written now is younger than everything.
LEMMA PoliciesGoOn ==
  ASSUME ChainInv, AdoptionNext
  PROVE  \A v \in Validations : PolicySound(v)'
<1>1. StoreGrows /\ AdoptionInv'
  BY AdoptionMovesForward, AdoptionKeeps DEF ChainInv
<1> PICK r \in Ids, now \in Times :
      \/ current(r, now)
      \/ \E adoption \in Requests : receipt(r, adoption, now)
      \/ \E p \in Proposals :
           propose(r, p, now) \/ \E v \in Validations : validate(r, v, p, now) \/ adopt(r, p, v, now)
      \/ \E v \in Validations : revoke_validation(r, v, now)
      \/ \E target \in Revocable : revoke_actor(r, target, now)
  BY DEF AdoptionNext
<1>2. CASE UNCHANGED validations
  BY <1>1, <1>2, PolicyStays
<1>3. ASSUME NEW p \in Proposals, NEW v \in Validations, validate(r, v, p, now)
      PROVE  \A u \in Validations : PolicySound(u)'
  <2> DEFINE new == [proposal |-> p, expected |-> proposals[p].expected,
                     observed |-> now, expires |-> now + ValidationTtl,
                     permission |-> permissionGeneration]
  <2>1. /\ validations' = IF validations[v] # None THEN validations ELSE [validations EXCEPT ![v] = new]
        /\ Now(now) /\ UNCHANGED <<permissionGeneration, revocations>>
        /\ new.observed = now /\ new.permission = permissionGeneration
    BY <1>3 DEF validate, Dispatch
  <2> HIDE DEF new
  <2>2. validations \in [Validations -> {None} \cup ValidationRows]
    BY DEF ChainInv, AdoptionInv, AdoptionTypeOK, ValidationRows
  <2>3. ASSUME NEW u \in Validations
        PROVE  PolicySound(u)'
    <3>1. CASE validations'[u] = validations[u]
      BY <3>1, <1>1, PolicyStays
    <3>2. CASE validations'[u] # validations[u]
      <4>1. validations'[u] = new
        BY <3>2, <2>1, <2>2
      <4>2. lastClock' = now /\ now \in Int
        BY <2>1 DEF Now, Times
      <4>3. \A row \in revocations' : row.at <= lastClock'
        BY <1>1 DEF StoreGrows, Forward
      <4> QED
        BY <4>1, <4>2, <4>3, <2>1 DEF PolicySound, Made, ChainInv, AdoptionInv, AdoptionTypeOK
    <3> QED
      BY <3>1, <3>2
  <2> QED
    BY <2>3
<1> QED
  BY <1>2, <1>3 DEF current, receipt, propose, adopt, revoke_validation, revoke_actor, policyVars

LEMMA StoreGoesOn ==
  ASSUME ChainInv, AdoptionNext, UNCHANGED chainVars
  PROVE  ChainGoesOn
<1>1. StoreGrows /\ AdoptionInv'
  BY AdoptionMovesForward, AdoptionKeeps DEF ChainInv
<1>2. UNCHANGED admission /\ UNCHANGED contracts /\ UNCHANGED candidate /\ UNCHANGED run
      /\ UNCHANGED baselines
  BY DEF chainVars
<1>3. ChainGrows /\ ChainTypeOK'
  BY <1>2 DEF ChainGrows, ReceiptStays, ChainInv, ChainTypeOK
<1>4. AdmissionSound'
  BY <1>1, <1>2, AdmissionStays
<1>5. CandidateSound' /\ CiSound' /\ SecondSound'
  BY <1>1, <1>2, <1>3, CandidateStays, CiStays, SecondStays
<1>6. \A h \in Generations : ContractSound(h)' /\ BaselineSound(h)'
  BY <1>1, <1>2, <1>3, ContractStays, BaselineStays
<1>7. \A q \in Runs : RunSound(q)'
  BY <1>1, <1>2, <1>3, RunStays
<1>8. \A v \in Validations : PolicySound(v)'
  BY PoliciesGoOn
<1> QED
  BY <1>1, <1>3, <1>4, <1>5, <1>6, <1>7, <1>8 DEF ChainGoesOn, ChainInv

LEMMA NextGoesOn ==
  ASSUME ChainInv, Next
  PROVE  ChainGoesOn
<1>1. CASE AdoptionNext /\ UNCHANGED chainVars
  BY <1>1, StoreGoesOn
<1>2. ASSUME NEW now \in Times,
             fixture_prepare(now) \/ contract_candidate_prepare(now) \/ run_cancel(now)
      PROVE  ChainGoesOn
  BY <1>2, FixtureGoesOn, CandidateGoesOn, CancelGoesOn
<1>3. ASSUME NEW now \in Times, NEW g \in Generations,
             contract_propose(g, now) \/ contract_validate(g, now)
      PROVE  ChainGoesOn
  BY <1>3, ProposeContractGoesOn, ValidateContractGoesOn
<1>4. ASSUME NEW now \in Times, NEW g \in Generations,
             \/ baseline_propose(g, now) \/ baseline_validate(g, now) \/ baseline_revoke(g, now)
             \/ \E row \in baselines[g].validations : baseline_adopt(g, row, now)
      PROVE  ChainGoesOn
  BY <1>4, ProposeBaselineGoesOn, ValidateBaselineGoesOn, RevokeBaselineGoesOn, AdoptBaselineGoesOn
<1>5. ASSUME NEW now \in Times,
             \/ \E row \in contracts[1].validations : contract_adopt(row, now)
             \/ \E row \in contracts[2].validations : contract_candidate_adopt(row, now)
      PROVE  ChainGoesOn
  BY <1>5, AdoptFirstGoesOn, AdoptSecondGoesOn
<1>6. ASSUME NEW now \in Times, NEW r \in Runs,
             \/ \E created \in Times : run_begin(r, created, now)
             \/ evidence_open(r, now) \/ Perform(r, now) \/ evidence_record(r, now)
      PROVE  ChainGoesOn
  BY <1>6, BeginGoesOn, OpenGoesOn, PerformGoesOn, RecordGoesOn
<1>7. ASSUME NEW now \in Times, NEW r \in Runs,
             \/ \E healthy \in BOOLEAN : evidence_finalize(r, healthy, now)
             \/ evidence_revoke(r, now)
      PROVE  ChainGoesOn
  BY <1>7, FinalizeGoesOn, RevokeEvidenceGoesOn
<1> QED
  BY <1>1, <1>2, <1>3, <1>4, <1>5, <1>6, <1>7 DEF Next

LEMMA ChainRests ==
  ASSUME ChainInv, UNCHANGED vars
  PROVE  ChainInv'
<1>1. UNCHANGED adoptionVars /\ UNCHANGED chainVars
  BY DEF vars
<1>2. AdoptionInv'
  BY <1>1, AdoptionRests DEF ChainInv
<1>3. UNCHANGED <<lastClock, permissionGeneration, revocations, validations, policyAdoptions>>
  BY <1>1 DEF adoptionVars, permissionVars, policyVars
<1> QED
  BY <1>1, <1>2, <1>3 DEF chainVars, ChainInv, ChainTypeOK, AdmissionSound, Made, CandidateSound, SecondSound,
     CiSound, ContractSound, ContractValidationSound, BaselineSound, RunSound, PolicySound

LEMMA ChainBegins ==
  ASSUME Init
  PROVE  ChainInv
<1>1. AdoptionInv
  BY AdoptionBegins DEF Init
<1>2. Absent \in RunRows /\ Absent.phase = "absent" /\ Absent.receipt = None
  BY DEF Absent, RunRows, Phases
<1>3. ChainTypeOK
  BY <1>2 DEF Init, ChainTypeOK, ContractRows, BaselineRows
<1>4. CandidateSound /\ SecondSound /\ CiSound /\ AdmissionSound
  BY <1>2 DEF Init, AdmissionSound, CandidateSound, SecondSound, CiSound, Generations, Runs
<1>5. \A g \in Generations : ContractSound(g) /\ BaselineSound(g)
  BY DEF Init, ContractSound, BaselineSound
<1>6. \A r \in Runs : RunSound(r)
  BY <1>2 DEF Init, RunSound, Observed, Recorded
<1>7. \A v \in Validations : PolicySound(v)
  BY DEF Init, AdoptionInit, PolicySound
<1> QED
  BY <1>1, <1>3, <1>4, <1>5, <1>6, <1>7 DEF ChainInv, Init

LEMMA ChainKeeps ==
  ASSUME ChainInv, [Next]_vars
  PROVE  ChainGoesOn
<1>1. CASE Next
  BY <1>1, NextGoesOn
<1>2. CASE UNCHANGED vars
  <2>1. UNCHANGED adoptionVars /\ UNCHANGED chainVars
    BY <1>2 DEF vars
  <2>2. UNCHANGED <<lastClock, permissionGeneration, revocations, validations, policyAdoptions>>
    BY <2>1 DEF adoptionVars, permissionVars, policyVars
  <2>3. /\ lastClock \in Int /\ permissionGeneration \in Nat
        /\ \A row \in revocations :
             /\ row.generation \in Nat /\ row.generation <= permissionGeneration
             /\ row.at \in Nat /\ row.at <= lastClock
    BY AdoptionAssumption DEF ChainInv, AdoptionInv, AdoptionTypeOK, WithdrawalsKnown, Times
  <2>4. StoreGrows
    BY <2>2, <2>3 DEF StoreGrows, Forward
  <2>5. ChainGrows
    BY <2>1 DEF chainVars, ChainGrows, ReceiptStays
  <2> QED
    BY <1>2, <2>4, <2>5, ChainRests DEF ChainGoesOn
<1> QED
  BY <1>1, <1>2

-----------------------------------------------------------------------------
(* Theorems.                                                                *)

\* What is written can be read again: the reading functions of the chain that
\* fail with STORAGE_CORRUPT or REGRESSION_BINDING_INVALID find nothing to
\* refuse in rows that the requests wrote (_validation, _history, build).  That
\* no evidence of a baseline ends before its validation does is the reason that
\* ValidationTtl is not more than Freshness.
THEOREM RowsReadableCorrect == Spec => []RowsReadable
<1>1. Init => ChainInv
  BY ChainBegins
<1>2. ChainInv /\ [Next]_vars => ChainInv'
  BY ChainKeeps DEF ChainGoesOn
<1>3. ChainInv => RowsReadable
  BY DEF ChainInv, RowsReadable, BaselineSound, SecondSound, CandidateSound, CiSound, Generations
<1> QED
  BY <1>1, <1>2, <1>3, PTL DEF Spec

\* A row that was made under the present permissions is younger than every
\* withdrawal there is.
LEMMA MadeNowIsYoungest ==
  ASSUME AdoptionInv, NEW at, Made(at, permissionGeneration), NEW row \in revocations
  PROVE  row.at <= at
  BY DEF Made, AdoptionInv, WithdrawalsKnown

\* An evidence that counts was recorded under the present permissions.
LEMMA EvidenceGrounds ==
  ASSUME ChainInv, NEW now, NEW r \in Runs, EvidenceCurrent(r, now)
  PROVE  /\ Made(run[r].origin.at, permissionGeneration)
         /\ ~run[r].revoked /\ now <= ValidUntil(r)
<1>1. run[r].receipt # None /\ run[r].receipt.permission = permissionGeneration
  BY DEF EvidenceCurrent
<1>2. RunSound(r)
  BY DEF ChainInv
<1> QED
  BY <1>1, <1>2 DEF RunSound, Recorded, EvidenceCurrent

LEMMA GreenFollows ==
  ASSUME ChainInv
  PROVE  GreenIsGrounded
<1> SUFFICES ASSUME NEW now \in Times, now >= lastClock, CiUse(now)
             PROVE  /\ \A row \in revocations :
                         \A at \in {validations[policyAdoptions[admission.policy].validation].observed,
                                    admission.at, contracts[1].adopted.at, contracts[2].adopted.at,
                                    baselines[1].adopted.at, candidate.at}
                                   \cup {run[r].origin.at : r \in Runs} : row.at <= at
                    /\ ~baselines[1].revoked
                    /\ \A r \in Runs : run[r].healthy /\ ~run[r].revoked /\ now <= ValidUntil(r)
  BY DEF GreenIsGrounded
<1>1. SecondContract(PolicyPinned(now), now) /\ EvidenceCurrent(Ci, now) /\ run[Ci].healthy
  <2>1. Start(Ci, now) /\ EvidenceCurrent(Ci, now) /\ run[Ci].healthy
    BY DEF CiUse
  <2> QED
    BY <2>1, Base # Ci DEF Start, Base, Ci
<1>2. /\ contracts[2].adopted # None /\ contracts[2].adopted.permission = permissionGeneration
      /\ candidate.permission = permissionGeneration
      /\ FirstContract(PolicyPinned(now), now) /\ FirstBaseline(now) /\ Proof(now)
  BY <1>1 DEF SecondContract, Live
<1>3. /\ PolicyAtValid(admission.policy, now) /\ admission.permission = permissionGeneration
      /\ contracts[1].adopted # None /\ contracts[1].adopted.permission = permissionGeneration
  BY <1>2 DEF FirstContract, FirstState, PolicyPinned, Live
<1>4. /\ ~baselines[1].revoked /\ baselines[1].adopted # None
      /\ baselines[1].adopted.permission = permissionGeneration
      /\ EvidenceCurrent(Base, now) /\ run[Base].healthy
  BY <1>2 DEF FirstBaseline, BaseReady, Live
<1>5. \A r \in Runs : EvidenceCurrent(r, now) /\ run[r].healthy
  BY <1>1, <1>2, <1>4 DEF Proof, Runs
<1>6. Made(contracts[1].adopted.at, permissionGeneration)
      /\ Made(contracts[2].adopted.at, permissionGeneration) /\ admission # None
  BY <1>2, <1>3 DEF ChainInv, ContractSound, ContractValidationSound, Generations
<1>7. Made(admission.at, permissionGeneration)
  BY <1>3, <1>6 DEF ChainInv, AdmissionSound
<1>8. Made(candidate.at, permissionGeneration)
  BY <1>2 DEF ChainInv, SecondSound, CandidateSound
<1>9. Made(baselines[1].adopted.at, permissionGeneration)
  BY <1>4 DEF ChainInv, BaselineSound, Generations
<1>10. Made(validations[policyAdoptions[admission.policy].validation].observed, permissionGeneration)
  <2> DEFINE policy == policyAdoptions[admission.policy]
  <2>1. admission.policy \in 1 .. Len(policyAdoptions)
    BY <1>3 DEF PolicyAtValid, ChainInv, AdoptionInv, AdoptionTypeOK
  <2>2. policy \in PolicyRows /\ AdoptionSound(policy)
    BY <2>1, GenerationIsLength DEF ChainInv, AdoptionInv, HistorySound
  <2>3. policy.validation \in Validations /\ validations[policy.validation] # None
    BY <2>2 DEF PolicyRows, AdoptionSound
  <2>4. validations[policy.validation].permission = permissionGeneration
    BY <1>3 DEF PolicyAtValid
  <2> QED
    BY <2>3, <2>4 DEF ChainInv, PolicySound
<1>11. \A r \in Runs : /\ Made(run[r].origin.at, permissionGeneration)
                       /\ ~run[r].revoked /\ now <= ValidUntil(r)
  BY <1>5, EvidenceGrounds
<1>12. ASSUME NEW row \in revocations,
              NEW at \in {validations[policyAdoptions[admission.policy].validation].observed,
                          admission.at, contracts[1].adopted.at, contracts[2].adopted.at,
                          baselines[1].adopted.at, candidate.at}
                         \cup {run[r].origin.at : r \in Runs}
       PROVE  row.at <= at
  <2>1. Made(at, permissionGeneration)
    BY <1>6, <1>7, <1>8, <1>9, <1>10, <1>11
  <2> QED
    BY <2>1, MadeNowIsYoungest DEF ChainInv
<1> QED
  BY <1>4, <1>5, <1>11, <1>12

\* A green answer of the CI gate rests on live grounds only: everything that
\* was ever withdrawn was withdrawn before any check of the chain was made, and
\* nothing of it is revoked or has run out (ci_check).
THEOREM GreenCorrect == Spec => []GreenIsGrounded
<1>1. Init => ChainInv
  BY ChainBegins
<1>2. ChainInv /\ [Next]_vars => ChainInv'
  BY ChainKeeps DEF ChainGoesOn
<1>3. ChainInv => GreenIsGrounded
  BY GreenFollows
<1> QED
  BY <1>1, <1>2, <1>3, PTL DEF Spec

\* Only an adoption on evidence adopts the second contract.
LEMMA SecondAdopted ==
  ASSUME ChainInv, Next, contracts[2].adopted = None, contracts'[2].adopted # None
  PROVE  \E now \in Times, row \in contracts[2].validations : contract_candidate_adopt(row, now)
<1>1. contracts \in [Generations -> ContractRows] /\ 2 \in Generations /\ 1 \in Generations
  BY DEF ChainInv, ChainTypeOK, Generations
<1>2. CASE UNCHANGED contracts
  BY <1>2
<1>3. ASSUME NEW now \in Times, NEW g \in Generations, contract_propose(g, now)
      PROVE  FALSE
  <2>1. contracts'[2].adopted = contracts[2].adopted
    BY <1>1, <1>3 DEF contract_propose, ContractRows
  <2> QED
    BY <2>1
<1>4. ASSUME NEW now \in Times, NEW g \in Generations, contract_validate(g, now)
      PROVE  FALSE
  <2> PICK row : contracts' = [contracts EXCEPT ![g].validations = @ \cup {row}]
    BY <1>4 DEF contract_validate
  <2>1. contracts'[2].adopted = contracts[2].adopted
    BY <1>1 DEF ContractRows
  <2> QED
    BY <2>1
<1>5. ASSUME NEW now \in Times, NEW row \in contracts[1].validations, contract_adopt(row, now)
      PROVE  FALSE
  <2>1. contracts'[2] = contracts[2]
    BY <1>1, <1>5 DEF contract_adopt
  <2> QED
    BY <2>1
<1>6. ASSUME NEW now \in Times,
             \/ fixture_prepare(now) \/ contract_candidate_prepare(now) \/ run_cancel(now)
             \/ \E g \in Generations :
                  \/ baseline_propose(g, now) \/ baseline_validate(g, now) \/ baseline_revoke(g, now)
                  \/ \E row \in baselines[g].validations : baseline_adopt(g, row, now)
             \/ \E r \in Runs :
                  \/ \E created \in Times : run_begin(r, created, now)
                  \/ evidence_open(r, now) \/ Perform(r, now) \/ evidence_record(r, now)
                  \/ \E healthy \in BOOLEAN : evidence_finalize(r, healthy, now)
                  \/ evidence_revoke(r, now)
      PROVE  UNCHANGED contracts
  BY <1>6 DEF fixture_prepare, contract_candidate_prepare, run_cancel,
       baseline_propose, baseline_validate, baseline_revoke, baseline_adopt,
       run_begin, evidence_open, Perform, evidence_record, evidence_finalize, evidence_revoke
<1>7. AdoptionNext /\ UNCHANGED chainVars => UNCHANGED contracts
  BY DEF chainVars
<1> QED
  BY <1>2, <1>3, <1>4, <1>5, <1>6, <1>7 DEF Next

LEMMA SoundWhenAdopted ==
  ASSUME ChainInv, [Next]_vars, contracts[2].adopted = None, contracts'[2].adopted # None
  PROVE  /\ ~baselines[1].revoked
         /\ \A r \in Sides \cup {Base} : run[r].healthy /\ ~run[r].revoked
         /\ Current(contracts) = 1 /\ Current(baselines) = 1
<1>1. Next
  BY DEF vars, chainVars
<1> PICK now \in Times, row \in contracts[2].validations : contract_candidate_adopt(row, now)
  BY <1>1, SecondAdopted
<1>2. Preflight(now) /\ Proof(now)
  BY DEF contract_candidate_adopt, CandidateFresh
<1>3. ~baselines[1].revoked /\ run[Base].healthy /\ ~run[Base].revoked
  BY <1>2, PreflightHas
<1> QED
  BY <1>2, <1>3 DEF Preflight, Proof, EvidenceCurrent

\* The second contract is adopted on evidence and a baseline that are good at
\* that moment, whatever the requests before it have checked
\* (contract_candidate_adopt between revocations).
THEOREM SecondAdoptionCorrect == Spec => AdoptedOnSoundEvidence
<1>1. Init => ChainInv
  BY ChainBegins
<1>2. ChainInv /\ [Next]_vars => ChainInv'
  BY ChainKeeps DEF ChainGoesOn
<1>3. ChainInv /\ [Next]_vars =>
        [contracts[2].adopted = None /\ contracts'[2].adopted # None =>
           /\ ~baselines[1].revoked
           /\ \A r \in Sides \cup {Base} : run[r].healthy /\ ~run[r].revoked
           /\ Current(contracts) = 1 /\ Current(baselines) = 1]_vars
  BY SoundWhenAdopted
<1> QED
  BY <1>1, <1>2, <1>3, PTL DEF Spec, AdoptedOnSoundEvidence

-----------------------------------------------------------------------------
(* A ground that counts after a step, and was there before, counted before. *)

LEMMA NobodyRevokedBefore ==
  ASSUME StoreGrows
  PROVE  /\ NobodyRevoked' => NobodyRevoked
         /\ ~ActorRevoked(Validator)' => ~ActorRevoked(Validator)
         /\ \A v : (~ValidationRevoked(v))' => ~ValidationRevoked(v)
<1>1. \A entity, id : Withdrawn(entity, id) => Withdrawn(entity, id)'
  BY DEF StoreGrows, Forward, Withdrawn
<1> QED
  BY <1>1 DEF NobodyRevoked, ActorRevoked, ValidationRevoked

LEMMA LiveBefore ==
  ASSUME AdoptionInv, StoreGrows, NEW row,
         row.at \in Times, row.permission \in Nat, row.expires \in Nat,
         Made(row.at, row.permission),
         row.at <= lastClock' /\ lastClock' < row.expires,
         row.permission = permissionGeneration', NobodyRevoked'
  PROVE  Live(row, lastClock) /\ permissionGeneration' = permissionGeneration
<1>1. /\ lastClock \in Int /\ lastClock' \in Int /\ lastClock <= lastClock'
      /\ permissionGeneration \in Nat /\ permissionGeneration' \in Nat
      /\ permissionGeneration <= permissionGeneration'
  BY DEF AdoptionInv, AdoptionTypeOK, StoreGrows, Forward, Times
<1>2. row.permission <= permissionGeneration /\ row.at <= lastClock
  BY DEF Made
<1>3. permissionGeneration = permissionGeneration'
  BY <1>1, <1>2
<1>4. lastClock < row.expires
  BY <1>1
<1> QED
  BY <1>2, <1>3, <1>4, NobodyRevokedBefore DEF Live

LEMMA EvidenceBefore ==
  ASSUME ChainInv, StoreGrows, ChainGrows, NEW r \in Runs, run[r].receipt # None,
         EvidenceCurrent(r, lastClock)', permissionGeneration' = permissionGeneration
  PROVE  EvidenceCurrent(r, lastClock) /\ ValidUntil(r)' = ValidUntil(r)
<1>1. /\ run'[r].receipt = run[r].receipt /\ run'[r].observed = run[r].observed
      /\ run[r].revoked => run'[r].revoked
  BY DEF ChainGrows, ReceiptStays
<1>2. ValidUntil(r)' = ValidUntil(r)
  BY <1>1 DEF ValidUntil
<1>3. lastClock <= lastClock' /\ lastClock \in Int /\ lastClock' \in Int
  BY DEF ChainInv, AdoptionInv, AdoptionTypeOK, StoreGrows, Forward, Times
<1>4. ValidUntil(r) \in Int
  <2>1. run[r].observed \in Int
    BY DEF ChainInv, RunSound, Observed, Times
  <2> QED
    BY <2>1, ChainAssumption DEF ValidUntil
<1>5. /\ run[r].receipt.permission = permissionGeneration /\ ~run[r].revoked
      /\ ~ActorRevoked(Validator) /\ lastClock' <= ValidUntil(r)
  BY <1>1, <1>2, NobodyRevokedBefore DEF EvidenceCurrent
<1>6. lastClock <= ValidUntil(r)
  BY <1>3, <1>4, <1>5
<1> QED
  BY <1>2, <1>5, <1>6 DEF EvidenceCurrent

LEMMA PolicyBefore ==
  ASSUME ChainInv, StoreGrows, ChainGrows, admission # None,
         PolicyAtValid(admission.policy, lastClock)',
         permissionGeneration' = permissionGeneration
  PROVE  PolicyAtValid(admission.policy, lastClock)
<1> PICK generation : generation = admission.policy
  OBVIOUS
<1>1. admission' = admission /\ generation \in DOMAIN policyAdoptions
  BY DEF ChainGrows, ChainInv, AdmissionSound
<1> PICK row : row = policyAdoptions[generation]
  OBVIOUS
<1>2. generation \in 1 .. Len(policyAdoptions) /\ row \in PolicyRows /\ AdoptionSound(row)
  BY <1>1, GenerationIsLength DEF ChainInv, AdoptionInv, AdoptionTypeOK, HistorySound
<1>3. policyAdoptions'[generation] = row
  BY <1>1 DEF StoreGrows
<1> PICK validation : validation = validations[row.validation]
  OBVIOUS
<1>4. row.validation \in Validations /\ validation # None
  BY <1>2 DEF PolicyRows, AdoptionSound
<1>5. validations'[row.validation] = validation /\ validation \in ValidationRows
  BY <1>4 DEF StoreGrows, ChainInv, AdoptionInv, AdoptionTypeOK, ValidationRows
<1>6. /\ validation.proposal = row.proposal /\ validation.expected = generation - 1
      /\ lastClock' < validation.expires /\ validation.permission = permissionGeneration
      /\ (~ValidationRevoked(row.validation))'
      /\ (~ActorRevoked(Validator) /\ ~ActorRevoked(Manager))'
  BY <1>1, <1>3, <1>5 DEF PolicyAtValid, ValidationRevoked, Withdrawn
<1>7. ~ValidationRevoked(row.validation) /\ ~ActorRevoked(Validator) /\ ~ActorRevoked(Manager)
  <2>1. \A entity, id : Withdrawn(entity, id) => Withdrawn(entity, id)'
    BY DEF StoreGrows, Forward, Withdrawn
  <2> PICK v : v = row.validation
    OBVIOUS
  <2>2. ~Withdrawn("validation", v)'
    BY <1>6 DEF ValidationRevoked, Withdrawn
  <2> QED
    BY <2>1, <2>2, <1>6 DEF ValidationRevoked, ActorRevoked
<1>8. lastClock < validation.expires
  <2>1. /\ lastClock <= lastClock' /\ lastClock \in Int /\ lastClock' \in Int
        /\ validation.expires \in Int
    BY <1>5 DEF ChainInv, AdoptionInv, AdoptionTypeOK, StoreGrows, Forward, Times, ValidationRows
  <2> QED
    BY <2>1, <1>6
<1> QED
  BY <1>1, <1>6, <1>7, <1>8 DEF PolicyAtValid

LEMMA GreenBefore ==
  ASSUME ChainInv, [Next]_vars, run[Ci].receipt # None, CiUse(lastClock)'
  PROVE  CiUse(lastClock)
<1>1. StoreGrows /\ ChainGrows /\ ChainInv'
  BY ChainKeeps DEF ChainGoesOn
<1>2. Base \in Runs /\ Ci \in Runs /\ Sides \subseteq Runs /\ 1 \in Generations /\ 2 \in Generations
      /\ Base # Ci
  BY DEF Runs, Generations, Base, Ci
<1>3. run[Ci].phase = "final" /\ contracts[2].adopted # None
  BY <1>2 DEF ChainInv, RunSound, CiSound
<1>4. /\ contracts[1].adopted # None /\ baselines[1].adopted # None /\ candidate # None
      /\ \A side \in Sides : run[side].receipt # None
  BY <1>3 DEF ChainInv, SecondSound
<1>5. run[Base].receipt # None /\ admission # None
  BY <1>2, <1>4 DEF ChainInv, BaselineSound, ContractSound
<1>6. /\ admission' = admission /\ candidate' = candidate
      /\ contracts'[1].adopted = contracts[1].adopted /\ contracts'[2].adopted = contracts[2].adopted
      /\ baselines'[1].adopted = baselines[1].adopted
      /\ baselines[1].revoked => baselines'[1].revoked
  BY <1>1, <1>2, <1>3, <1>4, <1>5 DEF ChainGrows
<1>7. \A r \in Runs : run[r].receipt # None
  BY <1>4, <1>5 DEF Runs
<1>8. \A r \in Runs : run'[r].healthy = run[r].healthy /\ run'[r].phase = run[r].phase
  BY <1>1, <1>7 DEF ChainGrows, ReceiptStays
<1>9. /\ EvidenceCurrent(Ci, lastClock)' /\ run'[Ci].healthy
      /\ SecondContract(PolicyPinned(lastClock), lastClock)'
  <2>1. Start(Ci, lastClock)' /\ EvidenceCurrent(Ci, lastClock)' /\ run'[Ci].healthy
    BY DEF CiUse
  <2> QED
    BY <2>1, <1>2 DEF Start, Base, Ci
<1>10. /\ Live(contracts[2].adopted, lastClock)' /\ candidate.permission = permissionGeneration'
       /\ FirstContract(PolicyPinned(lastClock), lastClock)'
       /\ FirstBaseline(lastClock)' /\ Proof(lastClock)'
  BY <1>6, <1>9 DEF SecondContract
<1>11. /\ PolicyAtValid(admission.policy, lastClock)' /\ admission.permission = permissionGeneration'
       /\ Live(contracts[1].adopted, lastClock)'
  BY <1>6, <1>10 DEF FirstContract, FirstState, PolicyPinned
<1>12. /\ ~baselines'[1].revoked /\ lastClock' <= ValidUntil(Base)'
       /\ Live(baselines[1].adopted, lastClock)'
       /\ EvidenceCurrent(Base, lastClock)' /\ run'[Base].healthy
  BY <1>10 DEF FirstBaseline, BaseReady
<1>13. \A r \in Runs : EvidenceCurrent(r, lastClock)' /\ run'[r].healthy
  BY <1>9, <1>10, <1>12 DEF Proof, Runs
<1>14. Live(contracts[2].adopted, lastClock) /\ permissionGeneration' = permissionGeneration
  <2> PICK row : row = contracts[2].adopted
    OBVIOUS
  <2>1. row \in LimitedRows /\ Made(row.at, row.permission)
    BY <1>2, <1>3
    DEF ChainInv, ChainTypeOK, ContractRows, ContractSound, ContractValidationSound
  <2>2. /\ row.at <= lastClock' /\ lastClock' < row.expires
        /\ row.permission = permissionGeneration' /\ NobodyRevoked'
    BY <1>6, <1>10 DEF Live
  <2> QED
    BY <2>1, <2>2, <1>1, LiveBefore DEF ChainInv, LimitedRows
<1>15. Live(contracts[1].adopted, lastClock)
  <2> PICK row : row = contracts[1].adopted
    OBVIOUS
  <2>1. row \in LimitedRows /\ Made(row.at, row.permission)
    BY <1>2, <1>4
    DEF ChainInv, ChainTypeOK, ContractRows, ContractSound, ContractValidationSound
  <2>2. /\ row.at <= lastClock' /\ lastClock' < row.expires
        /\ row.permission = permissionGeneration' /\ NobodyRevoked'
    BY <1>6, <1>11 DEF Live
  <2> QED
    BY <2>1, <2>2, <1>1, LiveBefore DEF ChainInv, LimitedRows
<1>16. Live(baselines[1].adopted, lastClock)
  <2> PICK row : row = baselines[1].adopted
    OBVIOUS
  <2>1. row \in AdoptedRows /\ Made(row.at, row.permission)
    BY <1>2, <1>4 DEF ChainInv, ChainTypeOK, BaselineRows, BaselineSound
  <2>2. /\ row.at <= lastClock' /\ lastClock' < row.expires
        /\ row.permission = permissionGeneration' /\ NobodyRevoked'
    BY <1>6, <1>12 DEF Live
  <2> QED
    BY <2>1, <2>2, <1>1, LiveBefore DEF ChainInv, AdoptedRows
<1>17. \A r \in Runs : EvidenceCurrent(r, lastClock) /\ run[r].healthy
  BY <1>1, <1>7, <1>8, <1>13, <1>14, EvidenceBefore
<1>18. FirstContract(PolicyPinned(lastClock), lastClock)
  BY <1>1, <1>4, <1>5, <1>11, <1>14, <1>15, PolicyBefore DEF FirstContract, FirstState, PolicyPinned
<1>19. FirstBaseline(lastClock)
  BY <1>2, <1>4, <1>6, <1>12, <1>16, <1>17, <1>18
  DEF FirstBaseline, BaseReady, BaseStart, EvidenceCurrent
<1>20. SecondContract(PolicyPinned(lastClock), lastClock)
  BY <1>2, <1>3, <1>10, <1>14, <1>17, <1>18, <1>19 DEF SecondContract, Proof
<1>21. Start(Ci, lastClock)
  BY <1>2, <1>20 DEF Start, Base, Ci
<1>22. Current(contracts) = 2
  BY <1>3, <1>4, CurrentCounts
<1> QED
  BY <1>2, <1>3, <1>17, <1>21, <1>22 DEF CiUse

\* Once the regression run has its receipt, the answer of the CI gate turns
\* from green to red and never back: every row it recomputes its answer from is
\* there already, is written only once, and ages (ci_check).
THEOREM RedCorrect == Spec => RedStaysRed
<1>1. Init => ChainInv
  BY ChainBegins
<1>2. ChainInv /\ [Next]_vars => ChainInv'
  BY ChainKeeps DEF ChainGoesOn
<1>3. ChainInv /\ [Next]_vars =>
        [run[Ci].receipt # None /\ lastClock >= 0 /\ ~CiUse(lastClock) => ~CiUse(lastClock)']_vars
  BY GreenBefore
<1> QED
  BY <1>1, <1>2, <1>3, PTL DEF Spec, RedStaysRed

-----------------------------------------------------------------------------
(* The pilots beside the policies.  What keeps their chain: a number is given *)
(* only on a validation that expects it, a stored receipt is never written    *)
(* again, documents are never taken back, and a withdrawal carries the time   *)
(* at which it came.                                                          *)

PilotValidationRows ==
  [plan : Plans, expected : Nat, at : Times, expires : Int, permission : Nat]

PilotAdoptionRows ==
  [plan : Plans, validation : PilotValidations, generation : Nat, at : Times, expires : Int,
   permission : Nat]

PilotRowsTyped ==
  /\ pilotValidations \in [PilotValidations -> {None} \cup PilotValidationRows]
  /\ pilotAdoptions \in [PilotAdoptions -> {None} \cup PilotAdoptionRows]

\* An adoption: made on a stored validation that expected its number, after
\* every withdrawal the validation does not know, with registered bindings.
PilotAdoptionSound(row) ==
  LET v == pilotValidations[row.validation]
  IN /\ v # None /\ v.plan = row.plan /\ v.expected = row.generation - 1
     /\ v.at <= row.at /\ row.at < v.expires /\ row.at <= lastClock
     /\ row.expires <= v.expires /\ row.expires <= PlanTo[row.plan]
     /\ BindingsOf[row.plan] \subseteq documents
     /\ \A w \in revocations : w.at < row.at => w.generation <= v.permission

\* The adoptions of the plan have the numbers up to n, each one once.
PilotChain(plan, n) ==
  /\ {row.generation : row \in AdoptionsOf(plan)} = 1 .. n
  /\ \A r, s \in AdoptionsOf(plan) : r.generation = s.generation => r = s

PilotInv ==
  /\ AdoptionInv /\ PilotRowsTyped
  /\ \A v \in PilotValidations :
       pilotValidations[v] # None =>
         pilotValidations[v].expires <= pilotValidations[v].at + ValidationTtl
  /\ \A row \in Stored(pilotAdoptions) : PilotAdoptionSound(row)
  /\ \A plan \in Plans : \E n \in Nat : PilotChain(plan, n)

\* The earlier of two times.
LEMMA EarlierTime ==
  ASSUME NEW a \in Int, NEW b \in Int
  PROVE  Min({a, b}) \in Int /\ Min({a, b}) <= a /\ Min({a, b}) <= b
<1>1. \E x \in {a, b} : \A y \in {a, b} : x <= y
  BY a <= b \/ b <= a
<1>2. Min({a, b}) \in {a, b} /\ \A y \in {a, b} : Min({a, b}) <= y
  BY <1>1 DEF Min
<1> QED
  BY <1>2

\* What Stored lists.
LEMMA StoredAdoption ==
  ASSUME PilotRowsTyped, NEW row \in Stored(pilotAdoptions)
  PROVE  row \in PilotAdoptionRows /\ row # None
  BY DEF PilotRowsTyped, Stored

\* The number that a request finds is the number of adoptions (_generation
\* takes the largest one, _current_adoptions reads all of them).
LEMMA GenerationCounts ==
  ASSUME NEW plan, NEW n \in Nat, PilotChain(plan, n)
  PROVE  /\ PilotGeneration(plan) = n
         /\ Cardinality(AdoptionsOf(plan)) = n
<1> DEFINE numbers == {0} \cup {row.generation : row \in AdoptionsOf(plan)}
           rows == AdoptionsOf(plan)
<1>1. numbers = 0 .. n
  BY DEF PilotChain
<1>2. Max(0 .. n) = n
  <2>1. n \in 0 .. n /\ \A y \in 0 .. n : n >= y
    OBVIOUS
  <2>2. Max(0 .. n) \in 0 .. n /\ \A y \in 0 .. n : Max(0 .. n) >= y
    BY <2>1 DEF Max
  <2> QED
    BY <2>1, <2>2
<1>3. PilotGeneration(plan) = n
  BY <1>1, <1>2 DEF PilotGeneration
<1> DEFINE f == [i \in 1 .. n |-> CHOOSE r \in rows : r.generation = i]
<1>4. \A i \in 1 .. n : f[i] \in rows /\ f[i].generation = i
  <2> SUFFICES ASSUME NEW i \in 1 .. n
               PROVE  f[i] \in rows /\ f[i].generation = i
    OBVIOUS
  <2>1. \E r \in rows : r.generation = i
    BY DEF PilotChain
  <2> QED
    BY <2>1
<1>5. \A r \in rows : r.generation \in 1 .. n
  BY DEF PilotChain
<1>6. \A r \in rows : f[r.generation] = r
  BY <1>4, <1>5 DEF PilotChain
<1>7. f \in [1 .. n -> rows]
  BY <1>4
<1> HIDE DEF f, rows
<1>8. f \in Bijection(1 .. n, rows)
  <2>1. \A i, j \in 1 .. n : f[i] = f[j] => i = j
    BY <1>4
  <2>2. \A r \in rows : \E i \in 1 .. n : f[i] = r
    BY <1>5, <1>6
  <2> QED
    BY <2>1, <2>2, <1>7, Fun_IsBij
<1>9. IsFiniteSet(1 .. n) /\ Cardinality(1 .. n) = n
  BY FS_Interval
<1>10. Cardinality(rows) = n
  BY <1>8, <1>9, FS_Bijection DEF ExistsBijection
<1> QED
  BY <1>3, <1>10 DEF rows

LEMMA PilotsBegin ==
  ASSUME AdoptionInit, PilotInit
  PROVE  PilotInv
<1>1. PilotRowsTyped /\ Stored(pilotAdoptions) = {}
  BY DEF PilotInit, PilotRowsTyped, Stored
<1>2. \A plan \in Plans : PilotChain(plan, 0)
  BY <1>1 DEF PilotChain, AdoptionsOf
<1>3. \A v \in PilotValidations : pilotValidations[v] = None
  BY DEF PilotInit
<1> QED
  BY <1>1, <1>2, <1>3, AdoptionBegins DEF PilotInv

-----------------------------------------------------------------------------
(* What holds of a stored receipt goes on to hold.                           *)

\* The clock goes on, and a withdrawal that comes carries the time at which it
\* comes (_now and Withdraw).
WithdrawnNow ==
  /\ lastClock <= lastClock' /\ lastClock' \in Int
  /\ \A w \in revocations' : w \in revocations \/ w.at = lastClock'

LEMMA PilotAskMoves ==
  ASSUME AdoptionInv, NEW now \in Times, NEW actor, PilotAsk(actor, now)
  PROVE  WithdrawnNow /\ lastClock' = now /\ revocations' = revocations
  BY DEF PilotAsk, Now, AdoptionInv, AdoptionTypeOK, Times, WithdrawnNow

LEMMA AdoptionWithdrawsNow ==
  ASSUME AdoptionInv, AdoptionNext
  PROVE  WithdrawnNow
<1> PICK r \in Ids, now \in Times :
      \/ current(r, now)
      \/ \E adoption \in Requests : receipt(r, adoption, now)
      \/ \E p \in Proposals :
           propose(r, p, now) \/ \E v \in Validations : validate(r, v, p, now) \/ adopt(r, p, v, now)
      \/ \E v \in Validations : revoke_validation(r, v, now)
      \/ \E target \in Revocable : revoke_actor(r, target, now)
  BY DEF AdoptionNext
<1>1. Now(now)
  BY DEF current, receipt, propose, validate, adopt, revoke_validation, revoke_actor, Dispatch
<1>2. lastClock' = now /\ lastClock <= now /\ now \in Int
  BY <1>1 DEF Now, Times
<1>3. UNCHANGED revocations \/ \E entity, id : Withdraw(entity, id, now)
  BY DEF current, receipt, propose, validate, adopt, revoke_validation, revoke_actor
<1>4. ASSUME NEW entity, NEW id, Withdraw(entity, id, now)
      PROVE  \A w \in revocations' : w \in revocations \/ w.at = now
  BY <1>4 DEF Withdraw
<1> QED
  BY <1>2, <1>3, <1>4 DEF WithdrawnNow

\* An adoption stays sound as long as what it rests on is not written again.
LEMMA PilotAdoptionStays ==
  ASSUME PilotInv, WithdrawnNow, documents \subseteq documents',
         \A v \in PilotValidations :
           pilotValidations[v] # None => pilotValidations'[v] = pilotValidations[v],
         NEW row \in Stored(pilotAdoptions)
  PROVE  PilotAdoptionSound(row)'
<1>1. row.validation \in PilotValidations /\ row.at \in Int
  BY StoredAdoption DEF PilotInv, PilotAdoptionRows, Times
<1>2. PilotAdoptionSound(row)
  BY DEF PilotInv
<1>3. pilotValidations'[row.validation] = pilotValidations[row.validation]
  BY <1>1, <1>2 DEF PilotAdoptionSound
<1>4. row.at <= lastClock /\ lastClock \in Int
  BY <1>2 DEF PilotAdoptionSound, PilotInv, AdoptionInv, AdoptionTypeOK, Times
<1>5. row.at <= lastClock'
  BY <1>1, <1>4 DEF WithdrawnNow
<1>6. ASSUME NEW w \in revocations', w.at < row.at
      PROVE  w.generation <= pilotValidations[row.validation].permission
  <2>1. w \in revocations
    BY <1>1, <1>5, <1>6 DEF WithdrawnNow
  <2> QED
    BY <2>1, <1>2, <1>6 DEF PilotAdoptionSound
<1> QED
  BY <1>2, <1>3, <1>5, <1>6 DEF PilotAdoptionSound

\* A request that adopts no plan.
LEMMA NoPilotAdopted ==
  ASSUME PilotInv, AdoptionInv', PilotRowsTyped', WithdrawnNow,
         documents \subseteq documents', UNCHANGED pilotAdoptions,
         \A v \in PilotValidations :
           pilotValidations[v] # None => pilotValidations'[v] = pilotValidations[v],
         \A v \in PilotValidations :
           pilotValidations[v] = None /\ pilotValidations'[v] # None =>
             pilotValidations'[v].expires <= pilotValidations'[v].at + ValidationTtl
  PROVE  PilotInv'
<1>1. \A v \in PilotValidations :
        pilotValidations'[v] # None =>
          pilotValidations'[v].expires <= pilotValidations'[v].at + ValidationTtl
  BY DEF PilotInv
<1>2. Stored(pilotAdoptions)' = Stored(pilotAdoptions)
  BY DEF Stored
<1>3. \A row \in Stored(pilotAdoptions)' : PilotAdoptionSound(row)'
  BY <1>2, PilotAdoptionStays
<1>4. \A plan \in Plans : \E n \in Nat : PilotChain(plan, n)'
  BY <1>2 DEF PilotInv, PilotChain, AdoptionsOf
<1> QED
  BY <1>1, <1>3, <1>4 DEF PilotInv

LEMMA PilotsRest ==
  ASSUME PilotInv, AdoptionInv', WithdrawnNow, UNCHANGED pilotVars
  PROVE  PilotInv'
<1>1. PilotRowsTyped' /\ documents' = documents
      /\ UNCHANGED pilotAdoptions /\ UNCHANGED pilotValidations
  BY DEF PilotInv, PilotRowsTyped, pilotVars
<1> QED
  BY <1>1, NoPilotAdopted

-----------------------------------------------------------------------------
(* Requests of the pilots.                                                   *)

\* The part of the store that the requests of the pilots leave alone.
LEMMA PilotsKeepAdoption ==
  ASSUME AdoptionInv, PilotNext, UNCHANGED <<policyVars, idempotency>>
  PROVE  AdoptionInv'
<1> PICK now \in Times :
      \/ \E document \in Bindings \cup Plans : pilot_register(document, now)
      \/ \E plan \in Plans :
           \/ pilot_plan_current(plan, now)
           \/ \E v \in PilotValidations :
                \/ pilot_plan_validate(v, plan, now)
                \/ \E a \in PilotAdoptions : pilot_plan_adopt(a, v, plan, now)
  BY DEF PilotNext
<1>1. Now(now) /\ UNCHANGED <<permissionGeneration, revocations>>
  BY DEF pilot_register, pilot_plan_current, pilot_plan_validate, pilot_plan_adopt, PilotAsk
<1>2. /\ StoredAnswersAreHistory'
      /\ idempotency' \in
           [Requests -> {None} \cup
              [action : {"other", "adopt", "current", "receipt"}, answer : {None} \cup PolicyRows]]
  BY DEF AdoptionInv, AdoptionTypeOK, StoredAnswersAreHistory, policyVars
<1> QED
  BY <1>1, <1>2, QuietKeeps

LEMMA RegisterKeeps ==
  ASSUME PilotInv, AdoptionInv', NEW document, NEW now \in Times, pilot_register(document, now)
  PROVE  PilotInv'
<1>1. WithdrawnNow
  BY PilotAskMoves DEF pilot_register, PilotInv
<1>2. documents \subseteq documents' /\ UNCHANGED pilotAdoptions /\ UNCHANGED pilotValidations
  BY DEF pilot_register
<1>3. PilotRowsTyped'
  BY <1>2 DEF PilotInv, PilotRowsTyped
<1> QED
  BY <1>1, <1>2, <1>3, NoPilotAdopted

LEMMA PilotCurrentKeeps ==
  ASSUME PilotInv, AdoptionInv', NEW plan, NEW now \in Times, pilot_plan_current(plan, now)
  PROVE  PilotInv'
<1>1. Now(now) /\ UNCHANGED revocations /\ UNCHANGED pilotVars
  BY DEF pilot_plan_current
<1>2. WithdrawnNow
  BY <1>1 DEF Now, WithdrawnNow, Times
<1> QED
  BY <1>1, <1>2, PilotsRest

LEMMA ValidatePilotKeeps ==
  ASSUME PilotInv, AdoptionInv', NEW v \in PilotValidations, NEW plan \in Plans, NEW now \in Times,
         pilot_plan_validate(v, plan, now)
  PROVE  PilotInv'
<1>1. WithdrawnNow /\ lastClock' = now
  BY PilotAskMoves DEF pilot_plan_validate, PilotInv
<1>2. PICK n \in Nat : PilotChain(plan, n)
  BY DEF PilotInv
<1>3. PilotGeneration(plan) = n
  BY <1>2, GenerationCounts
<1> DEFINE expires == Min({PlanTo[plan], now + ValidationTtl})
<1>4. expires \in Int /\ expires <= now + ValidationTtl
  <2>1. PlanTo[plan] \in Int /\ now + ValidationTtl \in Int
    BY PilotAssumption, AdoptionAssumption DEF Times
  <2> HIDE DEF expires
  <2> QED
    BY <2>1, EarlierTime DEF expires
<1>5. permissionGeneration \in Nat
  BY AdoptionAssumption DEF PilotInv, AdoptionInv, AdoptionTypeOK
<1> DEFINE new == [plan |-> plan, expected |-> n, at |-> now, expires |-> expires,
                   permission |-> permissionGeneration]
<1>6. /\ pilotValidations' = [pilotValidations EXCEPT ![v] = new] /\ pilotValidations[v] = None
      /\ documents' = documents /\ UNCHANGED pilotAdoptions
  BY <1>3 DEF pilot_plan_validate
<1> HIDE DEF expires
<1>7. new \in PilotValidationRows /\ new.expires <= new.at + ValidationTtl
  BY <1>4, <1>5 DEF PilotValidationRows
<1> HIDE DEF new
<1>8. PilotRowsTyped'
  BY <1>6, <1>7 DEF PilotInv, PilotRowsTyped
<1>9. \A u \in PilotValidations :
        pilotValidations'[u] = IF u = v THEN new ELSE pilotValidations[u]
  BY <1>6 DEF PilotInv, PilotRowsTyped
<1> QED
  BY <1>1, <1>6, <1>7, <1>8, <1>9, NoPilotAdopted

\* The heart of it: whichever of two requests comes first takes the number that
\* both validations expect (_adopt_plan compares expected_generation again).
LEMMA AdoptPilotKeeps ==
  ASSUME PilotInv, AdoptionInv', NEW a \in PilotAdoptions, NEW v \in PilotValidations,
         NEW plan \in Plans, NEW now \in Times, pilot_plan_adopt(a, v, plan, now)
  PROVE  PilotInv'
<1>1. WithdrawnNow /\ lastClock' = now /\ revocations' = revocations
  BY PilotAskMoves DEF pilot_plan_adopt, PilotInv
<1>2. PICK n \in Nat : PilotChain(plan, n)
  BY DEF PilotInv
<1>3. PilotGeneration(plan) = n
  BY <1>2, GenerationCounts
<1> DEFINE shown == pilotValidations[v]
<1>4. shown \in PilotValidationRows /\ shown # None
  BY DEF pilot_plan_adopt, Confirmed, PilotInv, PilotRowsTyped
<1>5. /\ shown.plan = plan /\ shown.expected = n /\ shown.at <= now /\ now < shown.expires
      /\ shown.permission = permissionGeneration
  BY <1>3 DEF pilot_plan_adopt, Confirmed
<1> DEFINE expires == Min({PlanTo[plan], shown.expires})
<1>6. expires \in Int /\ expires <= PlanTo[plan] /\ expires <= shown.expires
  <2>1. PlanTo[plan] \in Int /\ shown.expires \in Int
    BY <1>4, PilotAssumption DEF PilotValidationRows
  <2> HIDE DEF expires
  <2> QED
    BY <2>1, EarlierTime DEF expires
<1>7. permissionGeneration \in Nat
  BY AdoptionAssumption DEF PilotInv, AdoptionInv, AdoptionTypeOK
<1> DEFINE made == [plan |-> plan, validation |-> v, generation |-> n + 1, at |-> now,
                    expires |-> expires, permission |-> permissionGeneration]
<1>8. /\ pilotAdoptions' = [pilotAdoptions EXCEPT ![a] = made] /\ pilotAdoptions[a] = None
      /\ BindingsOf[plan] \subseteq documents
      /\ UNCHANGED documents /\ UNCHANGED pilotValidations
  BY <1>3 DEF pilot_plan_adopt, LocalBindings
<1> HIDE DEF expires
<1>9. made \in PilotAdoptionRows
  BY <1>6, <1>7 DEF PilotAdoptionRows
<1> PICK new \in PilotAdoptionRows : new = made
  <2> HIDE DEF made
  <2> QED
    BY <1>9
<1>10. /\ new.plan = plan /\ new.validation = v /\ new.generation = n + 1 /\ new.at = now
       /\ new.expires = expires
  OBVIOUS
<1> HIDE DEF made
<1>11. PilotRowsTyped'
  BY <1>8, <1>10 DEF PilotInv, PilotRowsTyped
<1>12. CASE new = None
  <2>1. pilotAdoptions' = pilotAdoptions
    BY <1>8, <1>12 DEF PilotInv, PilotRowsTyped
  <2>2. UNCHANGED pilotVars
    BY <2>1, <1>8 DEF pilotVars
  <2> QED
    BY <2>2, <1>1, PilotsRest
<1>13. CASE new # None
  <2>1. Stored(pilotAdoptions)' = Stored(pilotAdoptions) \cup {new}
    <3>1. \A b \in PilotAdoptions : pilotAdoptions'[b] = IF b = a THEN new ELSE pilotAdoptions[b]
      BY <1>8 DEF PilotInv, PilotRowsTyped
    <3>2. DOMAIN pilotAdoptions = PilotAdoptions /\ DOMAIN pilotAdoptions' = PilotAdoptions
      BY <1>11 DEF PilotInv, PilotRowsTyped
    <3> QED
      BY <3>1, <3>2, <1>8, <1>13 DEF Stored
  <2>2. \A row \in Stored(pilotAdoptions) : PilotAdoptionSound(row)'
    BY <1>1, <1>8, PilotAdoptionStays
  <2>3. PilotAdoptionSound(new)'
    <3>1. \A w \in revocations : w.generation <= shown.permission
      BY <1>5 DEF PilotInv, AdoptionInv, WithdrawalsKnown
    <3>2. now <= lastClock' /\ n + 1 - 1 = n
      BY <1>1 DEF Times
    <3> HIDE DEF shown
    <3>3. pilotValidations'[v] = shown
      BY <1>8 DEF shown
    <3> QED
      BY <3>1, <3>2, <3>3, <1>1, <1>4, <1>5, <1>6, <1>8, <1>10 DEF PilotAdoptionSound
  <2>4. AdoptionsOf(plan)' = AdoptionsOf(plan) \cup {new}
    BY <2>1, <1>10 DEF AdoptionsOf
  <2>5. \A other \in Plans \ {plan} : AdoptionsOf(other)' = AdoptionsOf(other)
    BY <2>1, <1>10 DEF AdoptionsOf
  <2>6. PilotChain(plan, n + 1)'
    <3>1. \A r \in AdoptionsOf(plan) : r.generation \in 1 .. n
      BY <1>2 DEF PilotChain
    <3>2. {row.generation : row \in AdoptionsOf(plan) \cup {new}} = 1 .. n + 1
      <4>1. {row.generation : row \in AdoptionsOf(plan) \cup {new}}
              = {row.generation : row \in AdoptionsOf(plan)} \cup {n + 1}
        BY <1>10
      <4>2. {row.generation : row \in AdoptionsOf(plan)} = 1 .. n
        BY <1>2 DEF PilotChain
      <4>3. 1 .. n + 1 = (1 .. n) \cup {n + 1}
        OBVIOUS
      <4> QED
        BY <4>1, <4>2, <4>3
    <3>3. ASSUME NEW r \in AdoptionsOf(plan) \cup {new}, NEW s \in AdoptionsOf(plan) \cup {new},
                 r.generation = s.generation
          PROVE  r = s
      <4>1. n + 1 \notin 1 .. n
        OBVIOUS
      <4> QED
        BY <4>1, <3>1, <3>3, <1>2, <1>10 DEF PilotChain
    <3> QED
      BY <3>2, <3>3, <2>4 DEF PilotChain
  <2>7. \A other \in Plans : \E m \in Nat : PilotChain(other, m)'
    <3> SUFFICES ASSUME NEW other \in Plans
                 PROVE  \E m \in Nat : PilotChain(other, m)'
      OBVIOUS
    <3>1. CASE other = plan
      <4>1. n + 1 \in Nat
        OBVIOUS
      <4> QED
        BY <4>1, <3>1, <2>6
    <3>2. CASE other # plan
      <4>1. PICK m \in Nat : PilotChain(other, m)
        BY DEF PilotInv
      <4> QED
        BY <4>1, <3>2, <2>5 DEF PilotChain
    <3> QED
      BY <3>1, <3>2
  <2>8. \A u \in PilotValidations :
          pilotValidations'[u] # None =>
            pilotValidations'[u].expires <= pilotValidations'[u].at + ValidationTtl
    BY <1>8 DEF PilotInv
  <2> QED
    BY <2>1, <2>2, <2>3, <2>7, <2>8, <1>11 DEF PilotInv
<1> QED
  BY <1>12, <1>13

LEMMA PilotsKeep ==
  ASSUME PilotInv,
         [\/ PilotNext /\ UNCHANGED <<policyVars, idempotency>>
          \/ AdoptionNext /\ UNCHANGED pilotVars]_<<adoptionVars, pilotVars>>
  PROVE  PilotInv'
<1>1. CASE PilotNext /\ UNCHANGED <<policyVars, idempotency>>
  <2>1. AdoptionInv'
    BY <1>1, PilotsKeepAdoption DEF PilotInv
  <2>2. PICK now \in Times :
          \/ \E document \in Bindings \cup Plans : pilot_register(document, now)
          \/ \E plan \in Plans :
               \/ pilot_plan_current(plan, now)
               \/ \E v \in PilotValidations :
                    \/ pilot_plan_validate(v, plan, now)
                    \/ \E a \in PilotAdoptions : pilot_plan_adopt(a, v, plan, now)
    BY <1>1 DEF PilotNext
  <2> QED
    BY <2>1, <2>2, RegisterKeeps, PilotCurrentKeeps, ValidatePilotKeeps, AdoptPilotKeeps
<1>2. CASE AdoptionNext /\ UNCHANGED pilotVars
  <2>1. AdoptionInv' /\ WithdrawnNow
    BY <1>2, AdoptionKeeps, AdoptionWithdrawsNow DEF PilotInv
  <2> QED
    BY <2>1, <1>2, PilotsRest
<1>3. CASE UNCHANGED <<adoptionVars, pilotVars>>
  <2>1. AdoptionInv'
    BY <1>3, AdoptionRests DEF PilotInv
  <2>2. WithdrawnNow
    BY <1>3 DEF WithdrawnNow, adoptionVars, permissionVars, PilotInv, AdoptionInv, AdoptionTypeOK,
         Times
  <2> QED
    BY <2>1, <2>2, <1>3, PilotsRest
<1> QED
  BY <1>1, <1>2, <1>3

\* The invariant says what the users of the pilots rely on.
LEMMA PilotsFollow ==
  ASSUME PilotInv
  PROVE  PilotHolds
<1>1. PilotsAreChains
  <2> SUFFICES ASSUME NEW plan \in Plans
               PROVE  /\ {row.generation : row \in AdoptionsOf(plan)}
                           = 1 .. Cardinality(AdoptionsOf(plan))
                      /\ \A r, s \in AdoptionsOf(plan) : r.validation = s.validation => r = s
    BY DEF PilotsAreChains
  <2>1. PICK n \in Nat : PilotChain(plan, n)
    BY DEF PilotInv
  <2>2. Cardinality(AdoptionsOf(plan)) = n
    BY <2>1, GenerationCounts
  <2>3. ASSUME NEW r \in AdoptionsOf(plan), NEW s \in AdoptionsOf(plan), r.validation = s.validation
        PROVE  r = s
    <3>1. PilotAdoptionSound(r) /\ PilotAdoptionSound(s)
      BY DEF AdoptionsOf, PilotInv
    <3>2. r.generation \in 1 .. n /\ s.generation \in 1 .. n
      BY <2>1 DEF PilotChain
    <3>3. r.generation = s.generation
      BY <3>1, <3>2, <2>3 DEF PilotAdoptionSound
    <3> QED
      BY <3>3, <2>1 DEF PilotChain
  <2> QED
    BY <2>1, <2>2, <2>3 DEF PilotChain
<1>2. PilotsInOrder
  BY DEF PilotsInOrder, PilotInv, PilotAdoptionSound
<1>3. PilotsGrounded
  <2> SUFFICES ASSUME NEW some \in Stored(pilotAdoptions), NEW now \in Times,
                      now >= lastClock, PilotValid(some.plan, now)
               PROVE  /\ BindingsOf[some.plan] \subseteq documents
                      /\ \E row \in AdoptionsOf(some.plan) :
                           LET v == pilotValidations[row.validation]
                           IN /\ now < v.at + ValidationTtl
                              /\ \A w \in revocations :
                                   /\ w.generation <= v.permission
                                   /\ w.entity = "actor" => w.id \notin {Manager, Validator}
    BY DEF PilotsGrounded
  <2> DEFINE plan == some.plan
             row == CHOOSE r \in AdoptionsOf(plan) : r.generation = PilotGeneration(plan)
             v == pilotValidations[row.validation]
  <2>1. plan \in Plans /\ AdoptionsOf(plan) # {}
    BY StoredAdoption DEF PilotInv, PilotAdoptionRows, PilotValid
  <2>2. PICK n \in Nat : PilotChain(plan, n)
    BY <2>1 DEF PilotInv
  <2>3. PilotGeneration(plan) = n
    BY <2>2, GenerationCounts
  <2>4. n \in 1 .. n
    <3>1. PICK r \in AdoptionsOf(plan) : r.generation \in 1 .. n
      BY <2>1, <2>2 DEF PilotChain
    <3> QED
      BY <3>1
  <2>5. \E r \in AdoptionsOf(plan) : r.generation = PilotGeneration(plan)
    BY <2>2, <2>3, <2>4 DEF PilotChain
  <2>6. row \in AdoptionsOf(plan)
    BY <2>5
  <2>7. /\ now < v.expires /\ v.permission = permissionGeneration
        /\ ~ActorRevoked(Manager) /\ ~ActorRevoked(Validator)
    BY DEF PilotValid
  <2> HIDE DEF row
  <2>8. row \in Stored(pilotAdoptions) /\ row.plan = plan
    BY <2>6 DEF AdoptionsOf
  <2>9. PilotAdoptionSound(row) /\ row.validation \in PilotValidations
    BY <2>8, StoredAdoption DEF PilotInv, PilotAdoptionRows
  <2>10. v # None /\ v \in PilotValidationRows /\ v.expires <= v.at + ValidationTtl
    BY <2>9 DEF PilotAdoptionSound, PilotInv, PilotRowsTyped
  <2>11. now < v.at + ValidationTtl
    <3>1. v.expires \in Int /\ v.at \in Int /\ now \in Int /\ ValidationTtl \in Int
      BY <2>10, AdoptionAssumption DEF PilotValidationRows, Times
    <3> QED
      BY <3>1, <2>7, <2>10
  <2>12. \A w \in revocations :
           /\ w.generation <= v.permission
           /\ w.entity = "actor" => w.id \notin {Manager, Validator}
    BY <2>7 DEF PilotInv, AdoptionInv, WithdrawalsKnown, ActorRevoked, Withdrawn
  <2>13. BindingsOf[plan] \subseteq documents
    BY <2>8, <2>9 DEF PilotAdoptionSound
  <2> QED
    BY <2>6, <2>11, <2>12, <2>13
<1> QED
  BY <1>1, <1>2, <1>3 DEF PilotHolds

\* However the requests of the roles interleave, with withdrawals and policies
\* between them and a clock that may jump: the adoptions of a plan are numbered
\* without gap or tie, each on a validation of its own that knew every earlier
\* withdrawal, and a plan that is called valid was confirmed by both roles after
\* everything that was ever withdrawn (pilot_authority._adopt_plan, _current).
THEOREM PilotCorrect == PilotSpec => []PilotHolds
<1>1. AdoptionInit /\ PilotInit => PilotInv
  BY PilotsBegin
<1>2. PilotInv /\ [\/ PilotNext /\ UNCHANGED <<policyVars, idempotency>>
                   \/ AdoptionNext /\ UNCHANGED pilotVars]_<<adoptionVars, pilotVars>> => PilotInv'
  BY PilotsKeep
<1>3. PilotInv => PilotHolds
  BY PilotsFollow
<1> QED
  BY <1>1, <1>2, <1>3, PTL DEF PilotSpec
=============================================================================
