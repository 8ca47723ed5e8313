---------------------- MODULE DatasetGenerationProofs ----------------------
(***************************************************************************)
(* Types and safety of DatasetGeneration, for any number of realms, items, *)
(* backups and generations.  DatasetIsReadable and OneOwnerPerLease are    *)
(* inductive with TypeOK.  SettledLedgerIsClean and LiveLeaseIsRespected   *)
(* rest on LeaseInv: what each realm's FIFO still owes the operation it    *)
(* runs.  On these rests that the fence implements module Dataset, and     *)
(* that NoResurrection and LossIsExplained fail by none but the steps that *)
(* CarefulTabs names: FreshInv and CarefulInv say what each tab shows and  *)
(* will save while none is taken.                                          *)
(***************************************************************************)
EXTENDS CarefulTabs, SequenceTheorems, TLAPS

-----------------------------------------------------------------------------
(***************************************************************************)
(* What the helpers return.                                                *)
(***************************************************************************)
LEMMA SanitizeType ==
  ASSUME NEW items \in SUBSET Item, NEW tombstones \in SUBSET Item
  PROVE  Sanitize(items, tombstones) \in SUBSET Item
  BY DEF Sanitize

\* A merge of items is a set of items.
LEMMA MergeType ==
  ASSUME NEW b \in SUBSET Item, NEW local \in SUBSET Item, NEW remote \in SUBSET Item
  PROVE  Merge(b, local, remote) \in SUBSET Item
  BY DEF Merge

\* What a tab can read, and what is active, are items.
LEMMA ReadableType ==
  ASSUME TypeOK
  PROVE  Readable \in SUBSET Item /\ Active \in SUBSET Item
  BY DEF TypeOK, Readable, Sanitize, Active

\* The next epoch is beyond both of the ledger's.
LEMMA NextEpochType ==
  ASSUME TypeOK
  PROVE  /\ NextEpoch \in Nat
         /\ NextEpoch > ledger.restoreEpoch /\ NextEpoch > ledger.activeEpoch
  BY DEF TypeOK, NextEpoch, Larger, Ledgers

\* The fields of the ledger.
LEMMA LedgerType ==
  ASSUME TypeOK
  PROVE  /\ ledger.activeEpoch \in Nat /\ ledger.restoreEpoch \in Nat
         /\ ledger.restoreInProgress \in BOOLEAN
         /\ ledger.tombstones \in SUBSET Item /\ ledger.revive \in SUBSET Item
         /\ row.epoch \in Nat /\ row.items \in SUBSET Item
  BY DEF TypeOK, Ledgers

\* Every transition of the ledger leaves a ledger.
LEMMA LedgerTransitionTypes ==
  ASSUME NEW l \in Ledgers, NEW e \in Nat, NEW items \in SUBSET Item
  PROVE  /\ Leased(l, e, items) \in Ledgers
         /\ Condemned(l, items) \in Ledgers
         /\ Settled(l) \in Ledgers
         /\ Committed(e) \in Ledgers
         /\ Seen(l) \in Observations
  BY DEF Leased, Condemned, Settled, Committed, Seen, Ledgers, Observations

\* A request has the type of requests.
LEMMA RequestType ==
  ASSUME NEW type \in RequestTypes, NEW e \in Nat \cup {Unset}, NEW items \in SUBSET Item
  PROVE  Request(type, e, items) \in Requests
  BY DEF Request, Requests, Unset

\* The fields of a request.
LEMMA RequestFields ==
  ASSUME NEW q \in Requests
  PROVE  /\ q.type \in RequestTypes /\ q.epoch \in Nat \cup {Unset}
         /\ q.items \in SUBSET Item
         /\ q.hydratedEpoch \in Nat \cup {Unset}
         /\ q.hydrated \in BOOLEAN /\ q.ownLease \in BOOLEAN
  BY DEF Requests

\* A store write is a request.
LEMMA WriteType ==
  ASSUME NEW r \in Realm, NEW items \in SUBSET Item,
         NEW h \in Nat \cup {Unset}, NEW lh \in Nat \cup {Unset}
  PROVE  WriteUnder(r, items, h, lh) \in Requests
  <1>1. (h # Unset \/ lh # Unset) \in BOOLEAN /\ HoldsAnyLease(r) \in BOOLEAN
    BY DEF HoldsAnyLease
  <1> QED BY <1>1 DEF WriteUnder, Requests, RequestTypes, Unset

\* What a tab persists is a request.
LEMMA PersistType ==
  ASSUME TypeOK, NEW r \in Realm, NEW items \in SUBSET Item,
         NEW h \in Nat \cup {Unset}, NEW lh \in Nat \cup {Unset}
  PROVE  PersistRequest(r, items, h, lh) \in Requests
  <1>1. Request("commitDeletion", ledger.restoreEpoch, items) \in Requests
    BY LedgerType, RequestType DEF RequestTypes
  <1> QED BY <1>1, WriteType DEF PersistRequest

\* FIFOs stay FIFOs of requests.
LEMMA QueueTypes ==
  ASSUME queue \in [Realm -> Seq(Requests)], NEW r \in Realm, NEW q \in Requests
  PROVE  /\ Enqueue(r, q) => queue' \in [Realm -> Seq(Requests)]
         /\ queue[r] # <<>> /\ Dequeue(r) => queue' \in [Realm -> Seq(Requests)]
         /\ queue[r] # <<>> /\ DequeueThen(r, q) => queue' \in [Realm -> Seq(Requests)]
         /\ queue[r] # <<>> => Head(queue[r]) \in Requests
  <1>1. queue[r] \in Seq(Requests) OBVIOUS
  <1>2. Append(queue[r], q) \in Seq(Requests) BY <1>1, AppendProperties
  <1>3. queue[r] # <<>> => Head(queue[r]) \in Requests /\ Tail(queue[r]) \in Seq(Requests)
    BY <1>1, HeadTailProperties
  <1>4. queue[r] # <<>> => Append(Tail(queue[r]), q) \in Seq(Requests)
    BY <1>3, AppendProperties
  <1> QED BY <1>2, <1>3, <1>4 DEF Enqueue, Dequeue, DequeueThen

\* So they do when the head is served.
LEMMA DequeueType ==
  ASSUME queue \in [Realm -> Seq(Requests)], NEW r \in Realm, NEW type, Turn(r, type)
  PROVE  /\ Dequeue(r) => queue' \in [Realm -> Seq(Requests)]
         /\ Head(queue[r]) \in Requests
         /\ Head(queue[r]).type = type
  <1>1. queue[r] # <<>> /\ Head(queue[r]).type = type BY DEF Turn
  <1>2. Head(queue[r]) \in Requests /\ Tail(queue[r]) \in Seq(Requests)
    BY <1>1, HeadTailProperties
  <1> QED BY <1>1, <1>2 DEF Dequeue

\* Channels stay channels of notices.
LEMMA NoticesType ==
  ASSUME notices \in [Realm -> Seq(Notices)], NEW r \in Realm, NEW n \in Notices
  PROVE  /\ Broadcast(r, n) => notices' \in [Realm -> Seq(Notices)]
         /\ notices[r] # <<>> => Tail(notices[r]) \in Seq(Notices) /\ Head(notices[r]) \in Notices
  <1>1. \A s \in Realm : Append(notices[s], n) \in Seq(Notices) BY AppendProperties
  <1>2. notices[r] # <<>> => Tail(notices[r]) \in Seq(Notices) /\ Head(notices[r]) \in Notices
    BY HeadTailProperties
  <1> QED BY <1>1, <1>2 DEF Broadcast

OpSteps == {"idle", "acquire", "wait", "leased", "append", "recorded", "commit",
            "abort", "reload"}

\* The operation of a realm stays an operation.
LEMMA OpTypes ==
  ASSUME op \in [Realm -> Ops], NEW r \in Realm, NEW o \in Ops, NEW step \in OpSteps
  PROVE  /\ StepTo(r, step) => op' \in [Realm -> Ops]
         /\ op' = At(op, r, o) => op' \in [Realm -> Ops]
         /\ NoOp \in Ops
         /\ op[r].items \in SUBSET Item /\ op[r].epoch \in Nat \cup {Unset}
  <1>1. [op[r] EXCEPT !.step = step] \in Ops BY DEF Ops, OpSteps
  <1>2. NoOp \in Ops BY DEF NoOp, Ops, Unset
  <1>3. op[r].items \in SUBSET Item /\ op[r].epoch \in Nat \cup {Unset} BY DEF Ops
  <1> QED BY <1>1, <1>2, <1>3 DEF StepTo, At

\* Hydrating the stores keeps what a realm has observed of its type.
LEMMA HydrationType ==
  ASSUME TypeOK, NEW r \in Realm, HydrationEffects(r) \/ NoHydration(r)
  PROVE  /\ (observed \in [Realm -> Observations])'
         /\ (hydrated \in [Realm -> Nat \cup {Unset}])'
         /\ (leaseHydrated \in [Realm -> Nat \cup {Unset}])'
         /\ (watching \in [Realm -> Nat \cup {Unset}])'
         /\ (base \in [Realm -> SUBSET Item])'
  <1>1. Seen(ledger) \in Observations BY LedgerTransitionTypes DEF TypeOK
  <1>2. observed' = At(observed, r, Seen(ledger)) BY DEF HydrationEffects, NoHydration
  <1>3. (observed \in [Realm -> Observations])' BY <1>1, <1>2 DEF TypeOK, At
  <1>4. /\ hydrated \in [Realm -> Nat \cup {Unset}] /\ leaseHydrated \in [Realm -> Nat \cup {Unset}]
        /\ watching \in [Realm -> Nat \cup {Unset}] /\ base \in [Realm -> SUBSET Item]
    BY DEF TypeOK
  <1>5. (hydrated \in [Realm -> Nat \cup {Unset}])'
    BY <1>4, LedgerType DEF HydrationEffects, NoHydration, At
  <1>6. (leaseHydrated \in [Realm -> Nat \cup {Unset}])'
    BY <1>4, LedgerType DEF HydrationEffects, NoHydration, At
  <1>7. (watching \in [Realm -> Nat \cup {Unset}])'
    <2>1. Watched(r) \in [Realm -> Nat \cup {Unset}] BY <1>4, LedgerType DEF Watched, At
    <2> QED BY <1>4, <2>1 DEF HydrationEffects, NoHydration
  <1>8. (base \in [Realm -> SUBSET Item])'
    BY <1>4, ReadableType DEF HydrationEffects, NoHydration, At
  <1> QED BY <1>3, <1>5, <1>6, <1>7, <1>8

-----------------------------------------------------------------------------
(***************************************************************************)
(* Type correctness: one lemma per action.                                 *)
(***************************************************************************)
LEMMA TypeInit == Init => TypeOK
  BY ConstantsAssumption
  DEF Init, TypeOK, Ledgers, Ops, NoOp, Unset, Requests, Observations, Notices

\* Each action keeps the types: the boot of a realm.
LEMMA TypeBoot ==
  ASSUME TypeOK, NEW r \in Realm, Boot(r)
  PROVE  TypeOK'
  <1> QED BY HydrationType, ReadableType DEF TypeOK, Boot, history, durable, At

\* An edit that adds.
LEMMA TypeAddItem ==
  ASSUME TypeOK, NEW r \in Realm, NEW i \in Item, AddItem(r, i)
  PROVE  TypeOK'
  <1>1. WriteOf(r, memory[r] \cup {i}) \in Requests
    BY WriteType DEF WriteOf, TypeOK
  <1>2. (queue \in [Realm -> Seq(Requests)])'
    BY <1>1, QueueTypes DEF AddItem, TypeOK
  <1> QED BY <1>1, <1>2 DEF TypeOK, AddItem, history, durable, At

\* An edit that removes.
LEMMA TypeRemoveItem ==
  ASSUME TypeOK, NEW r \in Realm, NEW i \in Item, RemoveItem(r, i)
  PROVE  TypeOK'
  <1>1. WriteOf(r, memory[r] \ {i}) \in Requests
    BY WriteType DEF WriteOf, TypeOK
  <1>2. (queue \in [Realm -> Seq(Requests)])'
    BY <1>1, QueueTypes DEF RemoveItem, TypeOK
  <1> QED BY <1>1, <1>2 DEF TypeOK, RemoveItem, history, durable, At

\* The start of a deletion.
LEMMA TypeStartDelete ==
  ASSUME TypeOK, NEW r \in Realm, NEW i \in Item, StartDelete(r, i)
  PROVE  TypeOK'
  <1>1. Start(r, "delete", {i}) BY DEF StartDelete
  <1>2. {i} \in SUBSET Item BY ConstantsAssumption
  <1>3. [kind |-> "delete", step |-> "acquire", epoch |-> Unset, items |-> {i}] \in Ops
    BY <1>2 DEF Ops, Unset
  <1>4. (op \in [Realm -> Ops])'
    BY <1>1, <1>3, OpTypes DEF Start, TypeOK, OpSteps
  <1>5. (queue \in [Realm -> Seq(Requests)])'
    BY <1>1, RequestType, QueueTypes DEF Start, TypeOK, RequestTypes
  <1> QED BY <1>1, <1>4, <1>5 DEF TypeOK, StartDelete, Start, history, durable, At

\* The start of a Replace.
LEMMA TypeStartRestore ==
  ASSUME TypeOK, NEW r \in Realm, NEW b \in Backups, StartRestore(r, b)
  PROVE  TypeOK'
  <1>1. Start(r, "restore", b) BY DEF StartRestore
  <1>2. b \in SUBSET Item BY ConstantsAssumption
  <1>3. [kind |-> "restore", step |-> "acquire", epoch |-> Unset, items |-> b] \in Ops
    BY <1>2 DEF Ops, Unset
  <1>4. (op \in [Realm -> Ops])'
    BY <1>1, <1>3, OpTypes DEF Start, TypeOK, OpSteps
  <1>5. (queue \in [Realm -> Seq(Requests)])'
    BY <1>1, RequestType, QueueTypes DEF Start, TypeOK, RequestTypes
  <1>6. [kind |-> "begin", items |-> {}] \in Notices BY DEF Notices
  <1>7. (notices \in [Realm -> Seq(Notices)])' BY <1>6, NoticesType DEF StartRestore, TypeOK
  <1> QED BY <1>1, <1>4, <1>5, <1>7 DEF TypeOK, Start, history, durable, At

\* Taking the lease.
LEMMA TypeAcquireLease ==
  ASSUME TypeOK, NEW r \in Realm, AcquireLease(r)
  PROVE  TypeOK'
  <1>1. (queue \in [Realm -> Seq(Requests)])' BY DequeueType DEF AcquireLease, TypeOK
  <1>2. op[r] \in Ops /\ NextEpoch \in Nat /\ ledger \in Ledgers
    BY NextEpochType DEF TypeOK
  <1>3. (IF op[r].kind = "restore" THEN op[r].items ELSE {}) \in SUBSET Item
    BY <1>2 DEF Ops
  <1>4. (ledger \in Ledgers)' BY <1>2, <1>3, LedgerTransitionTypes DEF AcquireLease
  <1>5. [op[r] EXCEPT !.step = "leased", !.epoch = NextEpoch] \in Ops
    BY <1>2 DEF Ops
  <1>6. (op \in [Realm -> Ops])' BY <1>5 DEF AcquireLease, TypeOK, At
  <1>7. [epoch |-> NextEpoch, busy |-> TRUE] \in Observations
    BY <1>2 DEF Observations
  <1>8. [kind |-> "begin", items |-> {}] \in Notices BY DEF Notices
  <1>9. (notices \in [Realm -> Seq(Notices)])' BY <1>8, NoticesType DEF AcquireLease, TypeOK
  <1> QED BY <1>1, <1>2, <1>4, <1>6, <1>7, <1>9 DEF TypeOK, AcquireLease, history, durable, At

\* Finding the lease taken.
LEMMA TypeFindLeaseBusy ==
  ASSUME TypeOK, NEW r \in Realm, FindLeaseBusy(r)
  PROVE  TypeOK'
  <1>1. (queue \in [Realm -> Seq(Requests)])'
    BY DequeueType DEF FindLeaseBusy, TypeOK
  <1>2. (op \in [Realm -> Ops])'
    BY OpTypes DEF FindLeaseBusy, TypeOK, OpSteps
  <1> QED BY <1>1, <1>2 DEF TypeOK, FindLeaseBusy, history, durable, At

\* Trying for the lease again.
LEMMA TypeRetryAcquire ==
  ASSUME TypeOK, NEW r \in Realm, RetryAcquire(r)
  PROVE  TypeOK'
  <1>1. (queue \in [Realm -> Seq(Requests)])'
    BY RequestType, QueueTypes, OpTypes DEF RetryAcquire, TypeOK, RequestTypes, Unset
  <1>2. (op \in [Realm -> Ops])'
    BY OpTypes DEF RetryAcquire, TypeOK, OpSteps
  <1> QED BY <1>1, <1>2 DEF TypeOK, RetryAcquire, history, durable, At

\* Asking for the recovery of a dead lease.
LEMMA TypeStartRecovery ==
  ASSUME TypeOK, NEW r \in Realm, StartRecovery(r)
  PROVE  TypeOK'
  <1>1. (queue \in [Realm -> Seq(Requests)])'
    BY RequestType, QueueTypes, LedgerType DEF StartRecovery, TypeOK, RequestTypes
  <1> QED BY <1>1 DEF TypeOK, StartRecovery, history, durable, At

\* The recovery of a dead lease.
LEMMA TypeRecover ==
  ASSUME TypeOK, NEW r \in Realm, Recover(r)
  PROVE  TypeOK'
  <1>1. (queue \in [Realm -> Seq(Requests)])' BY DequeueType DEF Recover, TypeOK
  <1>2. (ledger \in Ledgers)'
    BY NextEpochType, LedgerTransitionTypes DEF Recover, TypeOK, durable
  <1>3. (observed \in [Realm -> Observations])'
    BY <1>2, LedgerTransitionTypes DEF Recover, TypeOK, At
  <1>4. (row \in [epoch : Nat, items : SUBSET Item])'
    <2>1. [epoch |-> NextEpoch, items |-> Readable] \in [epoch : Nat, items : SUBSET Item]
      BY NextEpochType, ReadableType
    <2>2. row' = row \/ row' = [epoch |-> NextEpoch, items |-> Readable]
      BY DEF Recover, durable
    <2> QED BY <2>1, <2>2 DEF TypeOK
  <1>5. (erased \in SUBSET Item)'
    BY LedgerType DEF Recover, TypeOK
  <1> QED BY <1>1, <1>2, <1>3, <1>4, <1>5 DEF TypeOK, Recover

\* The reload before a deletion.
LEMMA TypeReloadForDelete ==
  ASSUME TypeOK, NEW r \in Realm, ReloadForDelete(r)
  PROVE  TypeOK'
  <1>1. PICK next \in {"append", "abort"} :
          StepTo(r, next) /\ Enqueue(r, Request(next, op[r].epoch, op[r].items))
    BY DEF ReloadForDelete
  <1>2. op[r].epoch \in Nat \cup {Unset} /\ op[r].items \in SUBSET Item
    BY DEF TypeOK, Ops
  <1>3. (op \in [Realm -> Ops])' BY <1>1, OpTypes DEF TypeOK, OpSteps
  <1>4. Request(next, op[r].epoch, op[r].items) \in Requests
    BY <1>2, RequestType DEF RequestTypes
  <1>5. (queue \in [Realm -> Seq(Requests)])' BY <1>1, <1>4, QueueTypes DEF TypeOK
  <1> QED BY <1>3, <1>5, HydrationType, ReadableType DEF TypeOK, ReloadForDelete, history, durable, At

\* The tombstones of a deletion.
LEMMA TypeAppendTombstones ==
  ASSUME TypeOK, NEW r \in Realm, AppendTombstones(r)
  PROVE  TypeOK'
  <1> DEFINE request == Head(queue[r])
  <1>1. request \in Requests BY DequeueType DEF AppendTombstones, TypeOK
  <1>2. request.epoch \in Nat \cup {Unset} /\ request.items \in SUBSET Item
    BY <1>1, RequestFields
  <1>3. Request("abort", request.epoch, {}) \in Requests
    BY <1>2, RequestType DEF RequestTypes
  <1>4. (queue \in [Realm -> Seq(Requests)])'
    BY <1>3, DequeueType, QueueTypes DEF AppendTombstones, TypeOK, Turn
  <1>5. (op \in [Realm -> Ops])' BY OpTypes DEF AppendTombstones, TypeOK, OpSteps
  <1>6. (ledger \in Ledgers)'
    <2>1. ledger \in Ledgers BY DEF TypeOK
    <2>2. ledger' = ledger \/ ledger' = Condemned(ledger, request.items) BY DEF AppendTombstones
    <2>3. Condemned(ledger, request.items) \in Ledgers BY <1>2, <2>1 DEF Condemned, Ledgers
    <2> QED BY <2>1, <2>2, <2>3
  <1>7. [epoch |-> request.epoch, busy |-> TRUE] \in Observations
    BY <1>2 DEF Observations
  <1>8. (observed \in [Realm -> Observations])' BY <1>7 DEF AppendTombstones, TypeOK, At
  <1> QED BY <1>4, <1>5, <1>6, <1>8 DEF TypeOK, AppendTombstones, history, durable, At

\* The purge of the stores.
LEMMA TypePurgeAndPersist ==
  ASSUME TypeOK, NEW r \in Realm, PurgeAndPersist(r)
  PROVE  TypeOK'
  <1>1. op[r].items \in SUBSET Item /\ op[r] \in Ops BY DEF TypeOK, Ops
  <1>2. (memory \in [Realm -> SUBSET Item])'
    BY <1>1, SanitizeType DEF PurgeAndPersist, TypeOK, At
  <1>3. PersistRequest(r, memory'[r], hydrated[r], leaseHydrated[r]) \in Requests
    BY <1>2, PersistType DEF TypeOK
  <1>4. (queue \in [Realm -> Seq(Requests)])' BY <1>3, QueueTypes DEF PurgeAndPersist, TypeOK
  <1>5. (op \in [Realm -> Ops])' BY OpTypes, <1>1 DEF PurgeAndPersist, TypeOK, OpSteps
  <1>6. [kind |-> "deletion", items |-> op[r].items] \in Notices
    BY <1>1 DEF Notices
  <1>7. (notices \in [Realm -> Seq(Notices)])' BY <1>6, NoticesType DEF PurgeAndPersist, TypeOK
  <1>8. (observed \in [Realm -> Observations])'
    BY LedgerTransitionTypes DEF PurgeAndPersist, TypeOK, At
  <1> QED BY <1>2, <1>4, <1>5, <1>7, <1>8 DEF TypeOK, PurgeAndPersist, history, durable, At

\* The commit of a deletion.
LEMMA TypeCommitDeletion ==
  ASSUME TypeOK, NEW r \in Realm, CommitDeletion(r)
  PROVE  TypeOK'
  <1> DEFINE request == Head(queue[r])
  <1>1. request \in Requests BY DequeueType DEF CommitDeletion, TypeOK
  <1>2. request.items \in SUBSET Item BY <1>1, RequestFields
  <1>3. LeaseActive(request.epoch) => request.epoch \in Nat BY LedgerType DEF LeaseActive
  <1>4. (queue \in [Realm -> Seq(Requests)])' BY DequeueType DEF CommitDeletion, TypeOK
  <1>5. op[r] \in Ops /\ op[r].items \in SUBSET Item BY DEF TypeOK, Ops
  <1>6. (op \in [Realm -> Ops])' BY OpTypes, <1>5 DEF CommitDeletion, TypeOK, OpSteps
  <1>7. (ledger \in Ledgers)'
    BY <1>3, LedgerTransitionTypes DEF CommitDeletion, TypeOK, durable
  <1>8. LeaseActive(request.epoch) => [epoch |-> request.epoch, busy |-> FALSE] \in Observations
    BY <1>3 DEF Observations
  <1>9. (observed \in [Realm -> Observations])' BY <1>8 DEF CommitDeletion, TypeOK, At
  <1>10. (row \in [epoch : Nat, items : SUBSET Item])'
    <2>1. Sanitize(row.items, ledger.tombstones \ ledger.revive) \in SUBSET Item
      BY LedgerType, SanitizeType
    <2>2. \/ row' = row
          \/ /\ request.epoch \in Nat
             /\ row' = [epoch |-> request.epoch,
                        items |-> Sanitize(row.items, ledger.tombstones \ ledger.revive)]
      BY <1>3 DEF CommitDeletion, durable
    <2> QED BY <2>1, <2>2 DEF TypeOK
  <1>11. [kind |-> "deletion", items |-> op[r].items] \in Notices BY <1>5 DEF Notices
  <1>12. (notices \in [Realm -> Seq(Notices)])' BY <1>11, NoticesType DEF CommitDeletion, TypeOK
  <1>13. /\ (leaseOwners \in [Realm -> SUBSET Nat])' /\ (erased \in SUBSET Item)'
         /\ (hydrated \in [Realm -> Nat \cup {Unset}])' /\ (base \in [Realm -> SUBSET Item])'
    <2>1. /\ leaseOwners \in [Realm -> SUBSET Nat] /\ erased \in SUBSET Item
          /\ hydrated \in [Realm -> Nat \cup {Unset}] /\ base \in [Realm -> SUBSET Item]
      BY DEF TypeOK
    <2>2. leaseOwners[r] \ {request.epoch} \in SUBSET Nat BY <2>1
    <2>3. (leaseOwners \in [Realm -> SUBSET Nat])' BY <2>1, <2>2 DEF CommitDeletion, At
    <2>4. (erased \in SUBSET Item)' BY <2>1, LedgerType DEF CommitDeletion
    <2>5. (hydrated \in [Realm -> Nat \cup {Unset}])' BY <1>3, <2>1 DEF CommitDeletion, At
    <2>6. (base \in [Realm -> SUBSET Item])' BY <1>2, <2>1 DEF CommitDeletion, At
    <2> QED BY <2>3, <2>4, <2>5, <2>6
  <1> QED BY <1>4, <1>6, <1>7, <1>9, <1>10, <1>12, <1>13 DEF TypeOK, CommitDeletion

\* A Replace asking for its commit.
LEMMA TypeIssueRestoreCommit ==
  ASSUME TypeOK, NEW r \in Realm, IssueRestoreCommit(r)
  PROVE  TypeOK'
  <1>1. op[r].items \in SUBSET Item /\ op[r].epoch \in Nat \cup {Unset} BY DEF TypeOK, Ops
  <1>2. (op \in [Realm -> Ops])' BY OpTypes DEF IssueRestoreCommit, TypeOK, OpSteps
  <1>3. Request("commitRestore", op[r].epoch, op[r].items) \in Requests
    BY <1>1, RequestType DEF RequestTypes
  <1>4. (queue \in [Realm -> Seq(Requests)])' BY <1>3, QueueTypes DEF IssueRestoreCommit, TypeOK
  <1> QED BY <1>2, <1>4 DEF TypeOK, IssueRestoreCommit, history, durable, At

\* A Replace that fails.
LEMMA TypeFailRestore ==
  ASSUME TypeOK, NEW r \in Realm, FailRestore(r)
  PROVE  TypeOK'
  <1>1. op[r].epoch \in Nat \cup {Unset} BY DEF TypeOK, Ops
  <1>2. (op \in [Realm -> Ops])' BY OpTypes DEF FailRestore, TypeOK, OpSteps
  <1>3. Request("abort", op[r].epoch, {}) \in Requests
    BY <1>1, RequestType DEF RequestTypes
  <1>4. (queue \in [Realm -> Seq(Requests)])' BY <1>3, QueueTypes DEF FailRestore, TypeOK
  <1> QED BY <1>2, <1>4 DEF TypeOK, FailRestore, history, durable, At

\* The commit of a Replace.
LEMMA TypeCommitRestore ==
  ASSUME TypeOK, NEW r \in Realm, CommitRestore(r)
  PROVE  TypeOK'
  <1> DEFINE request == Head(queue[r])
             items == Sanitize(request.items, ledger.tombstones \ ledger.revive)
  <1>1. request \in Requests BY DequeueType DEF CommitRestore, TypeOK
  <1>2. request.items \in SUBSET Item /\ request.epoch \in Nat \cup {Unset}
    BY <1>1, RequestFields
  <1>3. items \in SUBSET Item BY <1>2, LedgerType, SanitizeType
  <1>4. LeaseActive(request.epoch) => request.epoch \in Nat BY LedgerType DEF LeaseActive
  <1>5. Request("abort", request.epoch, {}) \in Requests
    BY <1>2, RequestType DEF RequestTypes
  <1>6. (queue \in [Realm -> Seq(Requests)])'
    BY <1>5, DequeueType, QueueTypes DEF CommitRestore, TypeOK, Turn
  <1>7. (op \in [Realm -> Ops])' BY OpTypes DEF CommitRestore, TypeOK, OpSteps
  <1>8. (ledger \in Ledgers)'
    BY <1>4, LedgerTransitionTypes DEF CommitRestore, TypeOK, durable
  <1>9. LeaseActive(request.epoch) => [epoch |-> request.epoch, busy |-> FALSE] \in Observations
    BY <1>4 DEF Observations
  <1>10. (observed \in [Realm -> Observations])' BY <1>9 DEF CommitRestore, TypeOK, At
  <1>11. [kind |-> IF request.items = {} THEN "reset" ELSE "replace", items |-> {}] \in Notices
    BY DEF Notices
  <1>12. (notices \in [Realm -> Seq(Notices)])' BY <1>11, NoticesType DEF CommitRestore, TypeOK
  <1>13. /\ (row \in [epoch : Nat, items : SUBSET Item])'
         /\ (leaseOwners \in [Realm -> SUBSET Nat])' /\ (erased \in SUBSET Item)'
         /\ (removed \in SUBSET Item)' /\ (created \in SUBSET Item)'
    <2>1. /\ row \in [epoch : Nat, items : SUBSET Item] /\ leaseOwners \in [Realm -> SUBSET Nat]
          /\ erased \in SUBSET Item /\ removed \in SUBSET Item /\ created \in SUBSET Item
      BY DEF TypeOK
    <2>2. CASE LeaseActive(request.epoch)
      <3>1. [epoch |-> request.epoch, items |-> items] \in [epoch : Nat, items : SUBSET Item]
        BY <1>3, <1>4, <2>2
      <3>2. leaseOwners[r] \ {request.epoch} \in SUBSET Nat BY <2>1
      <3>3. At(leaseOwners, r, leaseOwners[r] \ {request.epoch}) \in [Realm -> SUBSET Nat]
        BY <2>1, <3>2 DEF At
      <3>4. /\ row' = [epoch |-> request.epoch, items |-> items]
            /\ leaseOwners' = At(leaseOwners, r, leaseOwners[r] \ {request.epoch})
            /\ erased' = erased \ items /\ removed' = removed \ items
            /\ created' = created \cup items
        BY <2>2 DEF CommitRestore
      <3> QED BY <1>3, <2>1, <3>1, <3>3, <3>4
    <2>3. CASE ~LeaseActive(request.epoch) BY <2>1, <2>3 DEF CommitRestore, durable
    <2> QED BY <2>2, <2>3
  <1> QED BY <1>6, <1>7, <1>8, <1>10, <1>12, <1>13 DEF TypeOK, CommitRestore

\* Giving the lease back.
LEMMA TypeAbortLease ==
  ASSUME TypeOK, NEW r \in Realm, AbortLease(r)
  PROVE  TypeOK'
  <1>1. (queue \in [Realm -> Seq(Requests)])' BY DequeueType DEF AbortLease, TypeOK
  <1>2. (op \in [Realm -> Ops])' BY OpTypes DEF AbortLease, TypeOK, OpSteps
  <1>3. (ledger \in Ledgers)' BY LedgerTransitionTypes DEF AbortLease, TypeOK
  <1>4. [epoch |-> ledger.restoreEpoch, busy |-> FALSE] \in Observations
    BY LedgerType DEF Observations
  <1>5. (observed \in [Realm -> Observations])' BY <1>4 DEF AbortLease, TypeOK, At
  <1>6. [kind |-> "replace", items |-> {}] \in Notices BY DEF Notices
  <1>7. (notices \in [Realm -> Seq(Notices)])' BY <1>6, NoticesType DEF AbortLease, TypeOK
  <1> QED BY <1>1, <1>2, <1>3, <1>5, <1>7 DEF TypeOK, AbortLease, history, durable, At, Unset

\* A notice of another realm.
LEMMA TypeHandleNotice ==
  ASSUME TypeOK, NEW r \in Realm, HandleNotice(r)
  PROVE  TypeOK'
  <1> DEFINE notice == Head(notices[r])
  <1>1. Tail(notices[r]) \in Seq(Notices) /\ notice \in Notices
    BY NoticesType DEF HandleNotice, TypeOK
  <1>2. HydrationEffects(r) \/ NoHydration(r) BY DEF HandleNotice
  <1>3. ASSUME NEW changed \in BOOLEAN, notice.kind # "begin"
        PROVE  AfterNotice(r, notice, changed) \in SUBSET Item
    <2>1. notice.kind \in {"reset", "replace", "deletion"} /\ notice.items \in SUBSET Item
      BY <1>1, <1>3 DEF Notices
    <2> QED BY <2>1, ReadableType, SanitizeType DEF AfterNotice, TypeOK
  <1>4. /\ (memory \in [Realm -> SUBSET Item])'
        /\ (queue \in [Realm -> Seq(Requests)])'
    <2>1. CASE notice.kind = "begin" BY <2>1 DEF HandleNotice, TypeOK
    <2>2. CASE notice.kind # "begin"
      <3>1. PICK changed \in BOOLEAN :
              /\ memory' = At(memory, r, AfterNotice(r, notice, changed))
              /\ Enqueue(r, PersistRequest(r, memory'[r], hydrated'[r], leaseHydrated'[r]))
        BY <2>2 DEF HandleNotice
      <3>2. (memory \in [Realm -> SUBSET Item])' BY <1>3, <2>2, <3>1 DEF TypeOK, At
      <3>3. PersistRequest(r, memory'[r], hydrated'[r], leaseHydrated'[r]) \in Requests
        BY <1>2, <3>2, PersistType, HydrationType
      <3> QED BY <3>1, <3>2, <3>3, QueueTypes DEF TypeOK
    <2> QED BY <2>1, <2>2
  <1> QED BY <1>1, <1>2, <1>4, HydrationType DEF TypeOK, HandleNotice, history, durable, At

\* The reconciliation after a notice.
LEMMA TypeReconcile ==
  ASSUME TypeOK, NEW r \in Realm, Reconcile(r)
  PROVE  TypeOK'
  <1>1. NoHydration(r) BY DEF Reconcile
  <1>2. (memory \in [Realm -> SUBSET Item])'
    <2>1. memory \in [Realm -> SUBSET Item] BY DEF TypeOK
    <2>2. Sanitize(memory[r], ledger.tombstones) \in SUBSET Item BY <2>1, LedgerType, SanitizeType
    <2> QED BY <2>1, <2>2 DEF Reconcile, At
  <1>3. PersistRequest(r, memory'[r], hydrated[r], leaseHydrated[r]) \in Requests
    BY <1>2, PersistType DEF TypeOK
  <1>4. (queue \in [Realm -> Seq(Requests)])' BY <1>3, QueueTypes DEF Reconcile, TypeOK
  <1> QED BY <1>1, <1>2, <1>4, HydrationType DEF TypeOK, Reconcile, history, durable, At

\* Reading the ledger on waking.
LEMMA TypePresenceRead ==
  ASSUME TypeOK, NEW r \in Realm, PresenceRead(r)
  PROVE  TypeOK'
  <1>1. (observed \in [Realm -> Observations])'
    BY LedgerTransitionTypes DEF PresenceRead, TypeOK, At
  <1>2. (watching \in [Realm -> Nat \cup {Unset}])'
    <2>1. Watched(r) \in [Realm -> Nat \cup {Unset}] BY LedgerType DEF TypeOK, Watched, At
    <2> QED BY <2>1 DEF PresenceRead, TypeOK
  <1> QED BY <1>1, <1>2, LedgerType DEF TypeOK, PresenceRead, history, durable, At, Unset

\* A page load.
LEMMA TypeReload ==
  ASSUME TypeOK, NEW r \in Realm, Reload(r)
  PROVE  TypeOK'
  <1>1. NoOp \in Ops BY DEF NoOp, Ops, Unset
  <1>2. [epoch |-> Unset, busy |-> FALSE] \in Observations BY DEF Observations
  <1>3. <<>> \in Seq(Requests) /\ <<>> \in Seq(Notices) OBVIOUS
  <1>4. (op \in [Realm -> Ops])' BY <1>1 DEF Reload, TypeOK, At
  <1>5. (observed \in [Realm -> Observations])' BY <1>2 DEF Reload, TypeOK, At
  <1>6. /\ (queue \in [Realm -> Seq(Requests)])'
        /\ (notices \in [Realm -> Seq(Notices)])'
    BY <1>3 DEF Reload, TypeOK, At
  <1> QED BY <1>4, <1>5, <1>6 DEF TypeOK, Reload, history, durable, At, Unset

\* A store write.
LEMMA TypeExecWrite ==
  ASSUME TypeOK, NEW r \in Realm, ExecWrite(r)
  PROVE  TypeOK'
  <1> DEFINE w == Head(queue[r])
  <1>1. w \in Requests /\ (queue \in [Realm -> Seq(Requests)])'
    BY DequeueType DEF ExecWrite, TypeOK
  <1>2. w.items \in SUBSET Item BY <1>1, RequestFields
  <1>3. Sanitize(Merge(base[r], w.items, Active), ledger.tombstones) \in SUBSET Item
    BY <1>2, MergeType, SanitizeType, ReadableType, LedgerType DEF TypeOK
  <1>4. (dropped \in [Realm -> BOOLEAN])'
    <2>1. (dropped[r] \/ Reported(r, w)) \in BOOLEAN BY DEF Reported
    <2> QED BY <2>1 DEF ExecWrite, TypeOK, At
  <1>5. /\ (row \in [epoch : Nat, items : SUBSET Item])'
        /\ (base \in [Realm -> SUBSET Item])'
        /\ (hydrated \in [Realm -> Nat \cup {Unset}])'
        /\ (leaseHydrated \in [Realm -> Nat \cup {Unset}])'
    <2>1. /\ row \in [epoch : Nat, items : SUBSET Item] /\ base \in [Realm -> SUBSET Item]
          /\ hydrated \in [Realm -> Nat \cup {Unset}]
          /\ leaseHydrated \in [Realm -> Nat \cup {Unset}]
      BY DEF TypeOK
    <2>2. CASE FenceAccepts(r, w)
      <3>1. [epoch |-> ledger.activeEpoch,
             items |-> Sanitize(Merge(base[r], w.items, Active), ledger.tombstones)]
              \in [epoch : Nat, items : SUBSET Item]
        BY <1>3, LedgerType
      <3>2. (row \in [epoch : Nat, items : SUBSET Item])' BY <2>2, <3>1 DEF ExecWrite
      <3>3. (base \in [Realm -> SUBSET Item])' BY <1>2, <2>1, <2>2 DEF ExecWrite, At
      <3>4. (hydrated \in [Realm -> Nat \cup {Unset}])'
        BY <2>1, <2>2, LedgerType DEF ExecWrite, At
      <3>5. (leaseHydrated \in [Realm -> Nat \cup {Unset}])'
        BY <2>1, <2>2 DEF ExecWrite, At
      <3> QED BY <3>2, <3>3, <3>4, <3>5
    <2>3. CASE ~FenceAccepts(r, w) BY <2>1, <2>3 DEF ExecWrite
    <2> QED BY <2>2, <2>3
  <1> QED BY <1>1, <1>4, <1>5 DEF TypeOK, ExecWrite, history

\* Whatever the tabs do, every variable keeps the type the code gives it.
THEOREM TypeCorrect == Spec => []TypeOK
  <1>1. TypeOK /\ [Next]_vars => TypeOK'
    <2> SUFFICES ASSUME TypeOK, [Next]_vars PROVE TypeOK' OBVIOUS
    <2>1. CASE UNCHANGED vars BY <2>1 DEF TypeOK, vars, durable, realms, history
    <2>2. ASSUME NEW r \in Realm, Edit(r) PROVE TypeOK'
      BY <2>2, TypeAddItem, TypeRemoveItem DEF Edit
    <2>3. ASSUME NEW r \in Realm, Begin(r) PROVE TypeOK'
      BY <2>3, TypeStartDelete, TypeStartRestore DEF Begin
    <2>4. ASSUME NEW r \in Realm, Proceed(r) PROVE TypeOK'
      BY <2>4, TypeBoot, TypeExecWrite, TypeAcquireLease, TypeFindLeaseBusy, TypeRetryAcquire,
         TypeStartRecovery, TypeRecover, TypeReloadForDelete, TypeAppendTombstones,
         TypePurgeAndPersist, TypeCommitDeletion, TypeIssueRestoreCommit, TypeCommitRestore,
         TypeAbortLease, TypeHandleNotice DEF Proceed
    <2> QED BY <2>1, <2>2, <2>3, <2>4, TypeFailRestore, TypeReconcile, TypePresenceRead,
               TypeReload DEF Next
  <1> QED BY <1>1, TypeInit, PTL DEF Spec

-----------------------------------------------------------------------------
(***************************************************************************)
(* The steps that touch the ledger, the dataset or a lease token.          *)
(***************************************************************************)
LeaseStep(r) ==
    \/ ExecWrite(r) \/ AcquireLease(r) \/ Recover(r) \/ AppendTombstones(r)
    \/ CommitDeletion(r) \/ CommitRestore(r) \/ AbortLease(r) \/ Reload(r)

\* No other step of a realm changes SQLite or the tokens.
LEMMA DurableSteps ==
  ASSUME [Next]_vars
  PROVE  \/ UNCHANGED <<ledger, row, leaseOwners>>
         \/ \E r \in Realm : LeaseStep(r)
  <1>1. CASE UNCHANGED vars BY <1>1 DEF vars, durable, realms
  <1>2. ASSUME NEW r \in Realm, Edit(r) PROVE UNCHANGED <<ledger, row, leaseOwners>>
    BY <1>2 DEF Edit, AddItem, RemoveItem, durable
  <1>3. ASSUME NEW r \in Realm, Begin(r) PROVE UNCHANGED <<ledger, row, leaseOwners>>
    BY <1>3 DEF Begin, StartDelete, StartRestore, Start, durable
  <1>4. ASSUME NEW r \in Realm, Proceed(r)
        PROVE  UNCHANGED <<ledger, row, leaseOwners>> \/ LeaseStep(r)
    BY <1>4 DEF Proceed, LeaseStep, Boot, FindLeaseBusy, RetryAcquire, StartRecovery,
       ReloadForDelete, PurgeAndPersist, IssueRestoreCommit, HandleNotice, durable
  <1>5. ASSUME NEW r \in Realm, FailRestore(r) \/ Reconcile(r) \/ PresenceRead(r)
        PROVE  UNCHANGED <<ledger, row, leaseOwners>>
    BY <1>5 DEF FailRestore, Reconcile, PresenceRead, durable
  <1> QED BY <1>1, <1>2, <1>3, <1>4, <1>5 DEF Next, LeaseStep

\* Recovery leaves the ledger, settles it, or commits a generation of its own.
LEMMA RecoverCases ==
  ASSUME NEW r \in Realm, Recover(r)
  PROVE  \/ UNCHANGED <<ledger, row>>
         \/ ledger.restoreInProgress /\ ~HoldsPendingDeletion
            /\ LeaseActive(Head(queue[r]).epoch) /\ ledger' = Settled(ledger) /\ row' = row
         \/ ledger.restoreInProgress /\ HoldsPendingDeletion
            /\ LeaseActive(Head(queue[r]).epoch) /\ ledger' = Committed(NextEpoch)
            /\ row' = IF row.epoch = ledger.activeEpoch
                        THEN [epoch |-> NextEpoch, items |-> Readable] ELSE row
  BY DEF Recover, durable, LeaseActive

\* The deletion and the Replace commit the generation their lease reserved, or nothing.
LEMMA CommitCases ==
  ASSUME NEW r \in Realm, CommitDeletion(r) \/ CommitRestore(r)
  PROVE  \/ UNCHANGED <<ledger, row, leaseOwners>>
         \/ /\ ledger.restoreInProgress
            /\ ledger' = Committed(ledger.restoreEpoch)
            /\ row'.epoch = ledger.restoreEpoch
            /\ leaseOwners' = At(leaseOwners, r, leaseOwners[r] \ {ledger.restoreEpoch})
  <1> DEFINE e == Head(queue[r]).epoch
             items == IF CommitDeletion(r)
                        THEN Sanitize(row.items, ledger.tombstones \ ledger.revive)
                        ELSE Sanitize(Head(queue[r]).items, ledger.tombstones \ ledger.revive)
  <1>1. CASE ~LeaseActive(e)
    BY <1>1 DEF CommitDeletion, CommitRestore, durable
  <1>2. CASE LeaseActive(e)
    <2>1. /\ ledger' = Committed(e) /\ row' = [epoch |-> e, items |-> items]
          /\ leaseOwners' = At(leaseOwners, r, leaseOwners[r] \ {e})
      BY <1>2 DEF CommitDeletion, CommitRestore
    <2>2. ledger.restoreInProgress /\ e = ledger.restoreEpoch BY <1>2 DEF LeaseActive
    <2>3. row'.epoch = e BY <2>1
    <2> QED BY <2>1, <2>2, <2>3
  <1> QED BY <1>1, <1>2

-----------------------------------------------------------------------------
\* Every step keeps the dataset readable.
LEMMA ReadableStep ==
  ASSUME TypeOK, DatasetIsReadable, [Next]_vars
  PROVE  DatasetIsReadable'
  <1>1. CASE UNCHANGED <<ledger, row, leaseOwners>> BY <1>1 DEF DatasetIsReadable
  <1>2. ASSUME NEW r \in Realm, LeaseStep(r) PROVE DatasetIsReadable'
    <2>1. CASE ExecWrite(r) BY <2>1 DEF ExecWrite, DatasetIsReadable
    <2>2. CASE AcquireLease(r)
      BY <2>2, LedgerType, NextEpochType DEF AcquireLease, Leased, DatasetIsReadable, TypeOK, Ledgers
    <2>3. CASE Recover(r)
      <3>1. ledger \in Ledgers BY DEF TypeOK
      <3>2. CASE UNCHANGED <<ledger, row>> BY <3>2 DEF DatasetIsReadable
      <3>3. CASE ledger' = Settled(ledger) /\ row' = row
        BY <3>1, <3>3 DEF Settled, DatasetIsReadable, Ledgers
      <3>4. CASE ledger' = Committed(NextEpoch) /\ row'.epoch = NextEpoch
        BY <3>4, NextEpochType DEF Committed, DatasetIsReadable
      <3> QED BY <2>3, <3>2, <3>3, <3>4, RecoverCases DEF DatasetIsReadable
    <2>4. CASE AppendTombstones(r)
      BY <2>4, LedgerType DEF AppendTombstones, Condemned, DatasetIsReadable, TypeOK, Ledgers
    <2>5. CASE CommitDeletion(r) \/ CommitRestore(r)
      <3>1. CASE UNCHANGED <<ledger, row, leaseOwners>> BY <3>1 DEF DatasetIsReadable
      <3>2. CASE ledger' = Committed(ledger.restoreEpoch) /\ row'.epoch = ledger.restoreEpoch
        BY <3>2, LedgerType DEF Committed, DatasetIsReadable
      <3> QED BY <2>5, <3>1, <3>2, CommitCases
    <2>7. CASE AbortLease(r)
      BY <2>7, LedgerType DEF AbortLease, Settled, DatasetIsReadable, TypeOK, Ledgers
    <2>8. CASE Reload(r) BY <2>8 DEF Reload, DatasetIsReadable, durable
    <2> QED BY <1>2, <2>1, <2>2, <2>3, <2>4, <2>5, <2>7, <2>8 DEF LeaseStep
  <1> QED BY <1>1, <1>2, DurableSteps

\* No commit, abort, recovery or crash leaves the dataset at a generation that
\* nothing reads, and a lease always reserves a generation ahead of the active one.
THEOREM DatasetStaysReadable == Spec => []DatasetIsReadable
  <1>1. Init => DatasetIsReadable BY DEF Init, DatasetIsReadable
  <1>2. TypeOK /\ DatasetIsReadable /\ [Next]_vars => DatasetIsReadable' BY ReadableStep
  <1> QED BY <1>1, <1>2, TypeCorrect, PTL DEF Spec

-----------------------------------------------------------------------------
\* Every step keeps one owner to a lease.
LEMMA OwnerStep ==
  ASSUME TypeOK, OneOwnerPerLease, [Next]_vars
  PROVE  OneOwnerPerLease'
  <1>1. CASE UNCHANGED <<ledger, row, leaseOwners>> BY <1>1 DEF OneOwnerPerLease
  <1>2. ASSUME NEW r \in Realm, LeaseStep(r) PROVE OneOwnerPerLease'
    <2> USE DEF OneOwnerPerLease
    <2>0. leaseOwners \in [Realm -> SUBSET Nat] /\ ledger \in Ledgers BY DEF TypeOK
    <2>a. ASSUME NEW e, leaseOwners' = At(leaseOwners, r, leaseOwners[r] \ {e}),
                 ledger'.restoreEpoch = ledger.restoreEpoch
          PROVE  OneOwnerPerLease'
      BY <2>0, <2>a DEF At
    <2>1. CASE ExecWrite(r) BY <2>1 DEF ExecWrite
    <2>2. CASE AcquireLease(r)
      <3>1. /\ leaseOwners' = At(leaseOwners, r, leaseOwners[r] \cup {NextEpoch})
            /\ ledger'.restoreEpoch = NextEpoch
        BY <2>2, <2>0 DEF AcquireLease, Leased, Ledgers
      <3>2. NextEpoch \in Nat /\ ledger.restoreEpoch \in Nat /\ NextEpoch > ledger.restoreEpoch
        BY LedgerType, NextEpochType
      <3> QED BY <2>0, <3>1, <3>2 DEF At
    <2>3. CASE Recover(r)
      <3>1. leaseOwners' = leaseOwners BY <2>3 DEF Recover
      <3>2. ledger'.restoreEpoch \in {ledger.restoreEpoch, NextEpoch}
        <4>1. /\ Settled(ledger).restoreEpoch = ledger.restoreEpoch
              /\ Committed(NextEpoch).restoreEpoch = NextEpoch
          BY <2>0 DEF Committed, Settled, Ledgers
        <4> QED BY <2>3, <4>1, RecoverCases
      <3> QED BY <2>0, <3>1, <3>2, LedgerType, NextEpochType
    <2>4. CASE AppendTombstones(r)
      BY <2>4, <2>0 DEF AppendTombstones, Condemned, Ledgers
    <2>5. CASE CommitDeletion(r) \/ CommitRestore(r)
      <3>1. Committed(ledger.restoreEpoch).restoreEpoch = ledger.restoreEpoch BY DEF Committed
      <3>2. CASE UNCHANGED <<ledger, row, leaseOwners>> BY <3>2
      <3>3. CASE /\ ledger' = Committed(ledger.restoreEpoch)
                 /\ leaseOwners' = At(leaseOwners, r, leaseOwners[r] \ {ledger.restoreEpoch})
        BY <2>a, <3>1, <3>3
      <3> QED BY <2>5, <3>2, <3>3, CommitCases
    <2>7. CASE AbortLease(r)
      BY <2>7, <2>0, <2>a DEF AbortLease, Settled, Ledgers
    <2>8. CASE Reload(r) BY <2>8, <2>0 DEF Reload, durable, At
    <2> QED BY <1>2, <2>1, <2>2, <2>3, <2>4, <2>5, <2>7, <2>8 DEF LeaseStep
  <1> QED BY <1>1, <1>2, DurableSteps

\* A generation is reserved for one lease only: aborted, taken over or crashed,
\* it is never handed out again.
THEOREM OneOwner == Spec => []OneOwnerPerLease
  <1>1. Init => OneOwnerPerLease BY DEF Init, OneOwnerPerLease
  <1>2. TypeOK /\ OneOwnerPerLease /\ [Next]_vars => OneOwnerPerLease' BY OwnerStep
  <1> QED BY <1>1, <1>2, TypeCorrect, PTL DEF Spec

-----------------------------------------------------------------------------
(***************************************************************************)
(* What a realm's FIFO owes the operation it runs. A promise is a request  *)
(* the operation awaits before it takes its next step.                     *)
(***************************************************************************)
Promises == {"acquire", "append", "abort", "commitRestore"}

Awaited(request, o) ==
    /\ request.type = "acquire" => o.step = "acquire"
    /\ request.type = "append" => o.step = "append" /\ o.kind = "delete"
    /\ request.type = "abort" => o.step = "abort"
    /\ request.type = "commitRestore" => o.step = "commit" /\ o.kind = "restore"
    /\ request.type # "acquire" => request.epoch = o.epoch

NoPromise(s) == \A k \in 1 .. Len(s) : s[k].type \notin Promises

\* Commits of a deletion wait in the FIFO of a deleting realm only as its own.
OwnCommit(s, o) ==
    o.kind = "delete" => \A k \in 1 .. Len(s) : s[k].type = "commitDeletion" => o.step = "commit"

Orderly(s, o) ==
    /\ \A k \in 1 .. Len(s) : s[k].type \in Promises => Awaited(s[k], o)
    /\ \A j, k \in 1 .. Len(s) : s[j].type \in Promises /\ s[k].type \in Promises => j = k
    /\ OwnCommit(s, o)

QueuesMatch == \A r \in Realm : Orderly(queue[r], op[r])

\* A request that nothing waits for may be appended.
LEMMA OrderlyAppend ==
  ASSUME NEW s \in Seq(Requests), NEW o, Orderly(s, o), NEW x \in Requests,
         x.type \notin Promises,
         x.type = "commitDeletion" /\ o.kind = "delete" => o.step = "commit"
  PROVE  Orderly(Append(s, x), o)
  <1>1. /\ Len(Append(s, x)) = Len(s) + 1 /\ Append(s, x)[Len(s) + 1] = x
        /\ \A k \in 1 .. Len(s) : Append(s, x)[k] = s[k]
        /\ Len(s) \in Nat
    BY AppendProperties, LenProperties
  <1>2. \A k \in 1 .. Len(s) + 1 : k \in 1 .. Len(s) \/ k = Len(s) + 1 BY <1>1
  <1> HIDE DEF Promises
  <1> QED BY <1>1, <1>2 DEF Orderly, OwnCommit

\* So may the one an operation waits for, if no other is.
LEMMA OrderlyPromise ==
  ASSUME NEW s \in Seq(Requests), NEW o, NoPromise(s), OwnCommit(s, o),
         NEW x \in Requests, x.type \in Promises, Awaited(x, o)
  PROVE  Orderly(Append(s, x), o)
  <1>1. /\ Len(Append(s, x)) = Len(s) + 1 /\ Append(s, x)[Len(s) + 1] = x
        /\ \A k \in 1 .. Len(s) : Append(s, x)[k] = s[k]
        /\ Len(s) \in Nat
    BY AppendProperties, LenProperties
  <1>2. \A k \in 1 .. Len(s) + 1 : k \in 1 .. Len(s) \/ k = Len(s) + 1 BY <1>1
  <1>3. x.type # "commitDeletion" BY DEF Promises
  <1>4. \A k \in 1 .. Len(s) + 1 : Append(s, x)[k].type \in Promises => k = Len(s) + 1
    BY <1>1, <1>2 DEF NoPromise
  <1> HIDE DEF Promises
  <1> QED BY <1>1, <1>2, <1>3, <1>4 DEF Orderly, OwnCommit

\* What is left of an orderly FIFO is orderly.
LEMMA OrderlyTail ==
  ASSUME NEW s \in Seq(Requests), s # <<>>, NEW o, Orderly(s, o)
  PROVE  /\ Tail(s) \in Seq(Requests)
         /\ Orderly(Tail(s), o)
         /\ Head(s).type \in Promises => Awaited(Head(s), o) /\ NoPromise(Tail(s))
         /\ Head(s).type = "commitDeletion" /\ o.kind = "delete" => o.step = "commit"
  <1>1. /\ Tail(s) \in Seq(Requests) /\ Len(Tail(s)) = Len(s) - 1
        /\ \A k \in 1 .. Len(Tail(s)) : Tail(s)[k] = s[k + 1]
        /\ Len(s) \in Nat /\ Len(s) > 0
    BY HeadTailProperties, LenProperties, EmptySeq
  <1>2. \A k \in 1 .. Len(Tail(s)) : k + 1 \in 1 .. Len(s) BY <1>1
  <1>3. Head(s) = s[1] /\ 1 \in 1 .. Len(s) BY <1>1
  <1> HIDE DEF Promises
  <1>4. \A j, k \in 1 .. Len(Tail(s)) :
          Tail(s)[j].type \in Promises /\ Tail(s)[k].type \in Promises => j = k
    <2> SUFFICES ASSUME NEW j \in 1 .. Len(Tail(s)), NEW k \in 1 .. Len(Tail(s)),
                        Tail(s)[j].type \in Promises, Tail(s)[k].type \in Promises
                 PROVE  j = k
      OBVIOUS
    <2>1. j + 1 = k + 1 BY <1>1, <1>2 DEF Orderly
    <2> QED BY <2>1
  <1>5. Orderly(Tail(s), o) BY <1>1, <1>2, <1>4 DEF Orderly, OwnCommit
  <1>6. ASSUME Head(s).type \in Promises PROVE NoPromise(Tail(s))
    <2> SUFFICES ASSUME NEW k \in 1 .. Len(Tail(s)), Tail(s)[k].type \in Promises PROVE FALSE
      BY DEF NoPromise
    <2>1. k + 1 = 1 BY <1>1, <1>2, <1>3, <1>6 DEF Orderly
    <2> QED BY <2>1
  <1> QED BY <1>1, <1>3, <1>5, <1>6 DEF Orderly, OwnCommit

\* An operation that awaits nothing has no promise queued.
LEMMA Unawaited ==
  ASSUME NEW s \in Seq(Requests), NEW o, Orderly(s, o),
         o.step \notin {"acquire", "append", "abort"},
         o.step = "commit" => o.kind # "restore"
  PROVE  NoPromise(s)
  BY DEF Orderly, NoPromise, Awaited, Promises

\* Whatever replaces an operation that awaits nothing finds an orderly queue.
LEMMA OrderlyAnew ==
  ASSUME NEW s \in Seq(Requests), NEW o, NoPromise(s), OwnCommit(s, o)
  PROVE  Orderly(s, o)
  BY DEF Orderly, NoPromise

-----------------------------------------------------------------------------
(***************************************************************************)
(* The queues stay orderly.                                                *)
(***************************************************************************)
LEMMA StepToFields ==
  ASSUME op \in [Realm -> Ops], NEW r \in Realm, NEW step, StepTo(r, step)
  PROVE  /\ op'[r].step = step /\ op'[r].kind = op[r].kind
         /\ op'[r].epoch = op[r].epoch /\ op'[r].items = op[r].items
         /\ \A t \in Realm \ {r} : op'[t] = op[t]
  BY DEF StepTo, At, Ops

\* An operation's step is that of one realm.
LEMMA AtFields ==
  ASSUME op \in [Realm -> Ops], NEW r \in Realm, NEW o, op' = At(op, r, o)
  PROVE  op'[r] = o /\ \A t \in Realm \ {r} : op'[t] = op[t]
  BY DEF At

\* A FIFO's step is that of one realm.
LEMMA QueueFields ==
  ASSUME queue \in [Realm -> Seq(Requests)], NEW r \in Realm, NEW x
  PROVE  /\ queue[r] \in Seq(Requests)
         /\ Enqueue(r, x) => queue'[r] = Append(queue[r], x)
         /\ Dequeue(r) => queue'[r] = Tail(queue[r])
         /\ DequeueThen(r, x) => queue'[r] = Append(Tail(queue[r]), x)
         /\ Enqueue(r, x) \/ Dequeue(r) \/ DequeueThen(r, x)
              => \A t \in Realm \ {r} : queue'[t] = queue[t]
  BY DEF Enqueue, Dequeue, DequeueThen

\* A step of one realm matches if that realm's FIFO does.
LEMMA OneQueueStep ==
  ASSUME QueuesMatch, NEW r \in Realm, Orderly(queue'[r], op'[r]),
         \A t \in Realm \ {r} : queue'[t] = queue[t] /\ op'[t] = op[t]
  PROVE  QueuesMatch'
  <1> SUFFICES ASSUME NEW t \in Realm PROVE Orderly(queue'[t], op'[t]) BY DEF QueuesMatch
  <1> QED BY DEF QueuesMatch

\* A request no operation awaits joins the queue.
LEMMA QueueOther ==
  ASSUME TypeOK, QueuesMatch, NEW r \in Realm, NEW x \in Requests, Enqueue(r, x),
         x.type \notin Promises, op' = op,
         x.type = "commitDeletion" => op[r].kind # "delete"
  PROVE  QueuesMatch'
  <1>1. queue \in [Realm -> Seq(Requests)] BY DEF TypeOK
  <1>2. queue'[r] = Append(queue[r], x) /\ \A t \in Realm \ {r} : queue'[t] = queue[t]
    BY <1>1, QueueFields
  <1>3. Orderly(Append(queue[r], x), op[r])
    BY <1>1, OrderlyAppend DEF QueuesMatch
  <1> QED BY <1>2, <1>3, OneQueueStep

\* A request no operation awaits has its turn.
LEMMA QueueTurn ==
  ASSUME TypeOK, QueuesMatch, NEW r \in Realm, queue[r] # <<>>, Dequeue(r), op' = op
  PROVE  QueuesMatch'
  <1>1. queue \in [Realm -> Seq(Requests)] BY DEF TypeOK
  <1>2. queue'[r] = Tail(queue[r]) /\ \A t \in Realm \ {r} : queue'[t] = queue[t]
    BY <1>1, QueueFields
  <1>3. Orderly(Tail(queue[r]), op[r]) BY <1>1, OrderlyTail DEF QueuesMatch
  <1> QED BY <1>2, <1>3, OneQueueStep

\* The operation issues the request it will await.
LEMMA QueuePromise ==
  ASSUME TypeOK, QueuesMatch, NEW r \in Realm, NEW x \in Requests, Enqueue(r, x),
         NoPromise(queue[r]), x.type \in Promises, Awaited(x, op'[r]),
         OwnCommit(queue[r], op'[r]), \A t \in Realm \ {r} : op'[t] = op[t]
  PROVE  QueuesMatch'
  <1>1. queue \in [Realm -> Seq(Requests)] BY DEF TypeOK
  <1>2. queue'[r] = Append(queue[r], x) /\ \A t \in Realm \ {r} : queue'[t] = queue[t]
    BY <1>1, QueueFields
  <1>3. Orderly(Append(queue[r], x), op'[r])
    BY <1>1, OrderlyPromise
  <1> QED BY <1>2, <1>3, OneQueueStep

\* The promise the operation awaited is kept: no other is queued.
LEMMA QueueKept ==
  ASSUME TypeOK, QueuesMatch, NEW r \in Realm, NEW type \in Promises, Turn(r, type),
         op'[r].kind \in {"none", op[r].kind}, \A t \in Realm \ {r} : op'[t] = op[t]
  PROVE  /\ Awaited(Head(queue[r]), op[r]) /\ Head(queue[r]).type = type
         /\ Head(queue[r]) \in Requests
         /\ Dequeue(r) => QueuesMatch'
         /\ \A x \in Requests :
              DequeueThen(r, x) /\ x.type \in Promises /\ Awaited(x, op'[r]) => QueuesMatch'
  <1>1. queue \in [Realm -> Seq(Requests)] /\ queue[r] # <<>> /\ Head(queue[r]).type = type
    BY DEF TypeOK, Turn
  <1>2. queue[r] \in Seq(Requests) /\ Orderly(queue[r], op[r])
    BY <1>1 DEF QueuesMatch
  <1>3. /\ Tail(queue[r]) \in Seq(Requests) /\ Awaited(Head(queue[r]), op[r])
        /\ NoPromise(Tail(queue[r])) /\ Orderly(Tail(queue[r]), op[r])
    BY <1>1, <1>2, OrderlyTail
  <1>4. OwnCommit(Tail(queue[r]), op'[r])
    <2>1. CASE op'[r].kind = "none" BY <2>1 DEF OwnCommit
    <2>2. CASE op'[r].kind = op[r].kind /\ type # "commitRestore"
      <3>1. op[r].step # "commit" BY <1>1, <1>3, <2>2 DEF Awaited, Promises
      <3>2. op[r].kind = "delete" =>
              \A k \in 1 .. Len(Tail(queue[r])) : Tail(queue[r])[k].type # "commitDeletion"
        BY <1>3, <3>1 DEF Orderly, OwnCommit
      <3> QED BY <2>2, <3>2 DEF OwnCommit
    <2>3. CASE op'[r].kind = op[r].kind /\ type = "commitRestore"
      BY <1>1, <1>3, <2>3 DEF Awaited, OwnCommit
    <2> QED BY <2>1, <2>2, <2>3
  <1>5. ASSUME Dequeue(r) PROVE QueuesMatch'
    <2>1. queue'[r] = Tail(queue[r]) /\ \A t \in Realm \ {r} : queue'[t] = queue[t]
      BY <1>1, <1>5, QueueFields
    <2>2. Orderly(Tail(queue[r]), op'[r]) BY <1>3, <1>4, OrderlyAnew
    <2> QED BY <2>1, <2>2, OneQueueStep
  <1>6. ASSUME NEW x \in Requests, DequeueThen(r, x), x.type \in Promises, Awaited(x, op'[r])
        PROVE  QueuesMatch'
    <2>1. /\ queue'[r] = Append(Tail(queue[r]), x)
          /\ \A t \in Realm \ {r} : queue'[t] = queue[t]
      BY <1>1, <1>6, QueueFields
    <2>2. Orderly(Append(Tail(queue[r]), x), op'[r]) BY <1>3, <1>4, <1>6, OrderlyPromise
    <2> QED BY <2>1, <2>2, OneQueueStep
  <1>7. Head(queue[r]) \in Requests BY <1>1, HeadTailProperties
  <1> QED BY <1>1, <1>3, <1>5, <1>6, <1>7

\* Edits and notices keep the FIFOs matched.
LEMMA QueueEdits ==
  ASSUME TypeOK, QueuesMatch, NEW r \in Realm,
         Edit(r) \/ Boot(r) \/ PresenceRead(r) \/ StartRecovery(r) \/ HandleNotice(r) \/ Reconcile(r)
  PROVE  QueuesMatch'
  <1>0. \A h, lh \in Nat \cup {Unset} : \A items \in SUBSET Item :
          /\ PersistRequest(r, items, h, lh) \in Requests
          /\ PersistRequest(r, items, h, lh).type \notin Promises
          /\ WriteUnder(r, items, h, lh) \in Requests
          /\ WriteUnder(r, items, h, lh).type = "write"
    <2> SUFFICES ASSUME NEW h \in Nat \cup {Unset}, NEW lh \in Nat \cup {Unset},
                        NEW items \in SUBSET Item
                 PROVE  /\ PersistRequest(r, items, h, lh) \in Requests
                        /\ PersistRequest(r, items, h, lh).type \notin Promises
                        /\ WriteUnder(r, items, h, lh) \in Requests
                        /\ WriteUnder(r, items, h, lh).type = "write"
      OBVIOUS
    <2>1. WriteUnder(r, items, h, lh).type = "write" BY DEF WriteUnder
    <2>2. PersistRequest(r, items, h, lh).type \in {"write", "commitDeletion"}
      BY <2>1 DEF PersistRequest, Request
    <2> QED BY <2>1, <2>2, PersistType, WriteType DEF Promises
  <1>1. CASE Boot(r) \/ PresenceRead(r)
    BY <1>1 DEF Boot, PresenceRead, QueuesMatch
  <1>2. CASE Edit(r)
    <2>1. PICK items \in SUBSET Item : Enqueue(r, WriteOf(r, items)) /\ op' = op
      BY <1>2 DEF Edit, AddItem, RemoveItem, TypeOK
    <2>2. /\ WriteOf(r, items) \in Requests
          /\ WriteOf(r, items).type = "write"
      BY <1>0 DEF WriteOf, TypeOK
    <2> QED BY <2>1, <2>2, QueueOther DEF Promises
  <1>3. CASE StartRecovery(r)
    <2>1. Request("recover", ledger.restoreEpoch, {}) \in Requests
      BY LedgerType, RequestType DEF RequestTypes
    <2>2. Request("recover", ledger.restoreEpoch, {}).type = "recover" BY DEF Request
    <2> QED BY <1>3, <2>1, <2>2, QueueOther DEF StartRecovery, Promises
  <1>4. CASE HandleNotice(r)
    <2>1. op[r].kind # "delete" /\ op' = op BY <1>4 DEF HandleNotice, DestructiveLaneFree
    <2>2. CASE queue' = queue BY <2>1, <2>2 DEF QueuesMatch
    <2>3. CASE Enqueue(r, PersistRequest(r, memory'[r], hydrated'[r], leaseHydrated'[r]))
      <3>1. TypeOK' BY <1>4, TypeHandleNotice
      <3>2. /\ memory'[r] \in SUBSET Item
            /\ hydrated'[r] \in Nat \cup {Unset} /\ leaseHydrated'[r] \in Nat \cup {Unset}
        BY <3>1 DEF TypeOK
      <3> QED BY <1>0, <2>1, <2>3, <3>2, QueueOther
    <2> QED BY <1>4, <2>2, <2>3 DEF HandleNotice
  <1>5. CASE Reconcile(r)
    <2>1. op[r].kind # "delete" /\ op' = op BY <1>5 DEF Reconcile, DestructiveLaneFree
    <2>2. CASE queue' = queue BY <2>1, <2>2 DEF QueuesMatch
    <2>3. CASE Enqueue(r, PersistRequest(r, memory'[r], hydrated[r], leaseHydrated[r]))
      <3>1. TypeOK' BY <1>5, TypeReconcile
      <3>2. /\ memory'[r] \in SUBSET Item
            /\ hydrated[r] \in Nat \cup {Unset} /\ leaseHydrated[r] \in Nat \cup {Unset}
        BY <3>1 DEF TypeOK
      <3> QED BY <1>0, <2>1, <2>3, <3>2, QueueOther
    <2> QED BY <1>5, <2>2, <2>3 DEF Reconcile
  <1> QED BY <1>1, <1>2, <1>3, <1>4, <1>5

\* Writes and recoveries that are served keep them matched.
LEMMA QueueTurns ==
  ASSUME TypeOK, QueuesMatch, NEW r \in Realm, ExecWrite(r) \/ Recover(r)
  PROVE  QueuesMatch'
  BY QueueTurn DEF ExecWrite, Recover, Turn

\* Steps of the operation that keep a promise and await nothing yet.
LEMMA QueueOpTurns ==
  ASSUME TypeOK, QueuesMatch, NEW r \in Realm,
         AcquireLease(r) \/ FindLeaseBusy(r) \/ AbortLease(r)
  PROVE  QueuesMatch'
  <1>0. op \in [Realm -> Ops] /\ op[r] \in Ops BY DEF TypeOK
  <1>1. CASE AcquireLease(r)
    <2>1. op' = At(op, r, [op[r] EXCEPT !.step = "leased", !.epoch = NextEpoch])
      BY <1>1 DEF AcquireLease
    <2>2. op'[r].kind = op[r].kind /\ \A t \in Realm \ {r} : op'[t] = op[t]
      BY <1>0, <2>1 DEF At, Ops
    <2> QED BY <1>1, <2>2, QueueKept DEF AcquireLease, Promises
  <1>2. CASE FindLeaseBusy(r)
    BY <1>0, <1>2, StepToFields, QueueKept DEF FindLeaseBusy, Promises
  <1>3. CASE AbortLease(r)
    <2>1. op'[r].kind = "none" /\ \A t \in Realm \ {r} : op'[t] = op[t]
      <3>1. op' = At(op, r, NoOp) BY <1>3 DEF AbortLease
      <3>2. op'[r] = NoOp /\ \A t \in Realm \ {r} : op'[t] = op[t] BY <1>0, <3>1, AtFields
      <3> QED BY <3>2 DEF NoOp
    <2> QED BY <1>3, <2>1, QueueKept DEF AbortLease, Promises
  <1> QED BY <1>1, <1>2, <1>3

\* A commit or a recorded tombstone keeps its promise, or turns into an abort.
LEMMA QueueOpEnds ==
  ASSUME TypeOK, QueuesMatch, NEW r \in Realm, AppendTombstones(r) \/ CommitRestore(r)
  PROVE  QueuesMatch'
  <1> DEFINE head == Head(queue[r])
             x == Request("abort", head.epoch, {})
  <1>0. op \in [Realm -> Ops] BY DEF TypeOK
  <1>1. PICK type \in {"append", "commitRestore"} : Turn(r, type)
    BY DEF AppendTombstones, CommitRestore
  <1>2. type \in Promises BY DEF Promises
  <1>3. \/ StepTo(r, "recorded") /\ Dequeue(r)
        \/ StepTo(r, "reload") /\ Dequeue(r)
        \/ op' = At(op, r, NoOp) /\ Dequeue(r)
        \/ StepTo(r, "abort") /\ DequeueThen(r, x)
    BY DEF AppendTombstones, CommitRestore
  <1>4. op'[r].kind \in {"none", op[r].kind} /\ \A t \in Realm \ {r} : op'[t] = op[t]
    <2>1. CASE op' = At(op, r, NoOp) BY <1>0, <2>1, AtFields DEF NoOp
    <2> QED BY <1>0, <1>3, <2>1, StepToFields
  <1>5. Awaited(head, op[r]) /\ head.type = type /\ head \in Requests
    BY <1>1, <1>2, <1>4, QueueKept
  <1>6. CASE Dequeue(r) BY <1>1, <1>2, <1>4, <1>6, QueueKept
  <1>7. CASE StepTo(r, "abort") /\ DequeueThen(r, x)
    <2>1. x \in Requests /\ x.type = "abort" /\ x.epoch = head.epoch
      BY <1>5, RequestFields, RequestType DEF RequestTypes, Request
    <2>2. op'[r].step = "abort" /\ op'[r].epoch = op[r].epoch
      BY <1>0, <1>7, StepToFields
    <2>3. head.epoch = op[r].epoch BY <1>5 DEF Awaited
    <2>4. Awaited(x, op'[r]) /\ x.type \in Promises
      BY <2>1, <2>2, <2>3 DEF Awaited, Promises
    <2> QED BY <1>1, <1>2, <1>4, <1>7, <2>1, <2>4, QueueKept
  <1> QED BY <1>3, <1>6, <1>7

\* The start of an operation keeps them matched.
LEMMA QueueStarts ==
  ASSUME TypeOK, QueuesMatch, NEW r \in Realm, Begin(r)
  PROVE  QueuesMatch'
  <1> DEFINE x == Request("acquire", Unset, {})
  <1>0. op \in [Realm -> Ops] /\ queue[r] \in Seq(Requests) /\ Orderly(queue[r], op[r])
    BY DEF TypeOK, QueuesMatch
  <1>1. PICK kind \in Kinds, items \in SUBSET Item : Start(r, kind, items) /\ (kind = "delete" => DestructiveLaneFree(r))
    <2>1. CASE \E i \in Item : StartDelete(r, i)
      <3>1. PICK i \in Item : StartDelete(r, i) BY <2>1
      <3>2. Start(r, "delete", {i}) /\ DestructiveLaneFree(r) BY <3>1 DEF StartDelete
      <3> QED BY <3>2 DEF Start
    <2>2. CASE \E b \in Backups : StartRestore(r, b)
      <3>1. PICK b \in Backups : Start(r, "restore", b) BY <2>2 DEF StartRestore
      <3>2. b \in SUBSET Item BY ConstantsAssumption
      <3>3. "restore" \in Kinds BY <3>1 DEF Start
      <3> QED BY <3>1, <3>2, <3>3
    <2> QED BY <2>1, <2>2 DEF Begin
  <1>2. /\ op[r] = NoOp /\ Enqueue(r, x)
        /\ op' = At(op, r, [kind |-> kind, step |-> "acquire", epoch |-> Unset, items |-> items])
    BY <1>1 DEF Start
  <1>3. /\ op'[r] = [kind |-> kind, step |-> "acquire", epoch |-> Unset, items |-> items]
        /\ \A t \in Realm \ {r} : op'[t] = op[t]
    BY <1>0, <1>2, AtFields
  <1>4. NoPromise(queue[r]) BY <1>0, <1>2, Unawaited DEF NoOp
  <1>5. x \in Requests /\ x.type = "acquire"
    BY RequestType DEF RequestTypes, Request
  <1>6. Awaited(x, op'[r]) /\ x.type \in Promises BY <1>3, <1>5 DEF Awaited, Promises
  <1>7. OwnCommit(queue[r], op'[r])
    <2>1. CASE kind = "delete"
      <3>1. \A k \in DOMAIN queue[r] : queue[r][k].type # "commitDeletion"
        BY <1>1, <2>1 DEF DestructiveLaneFree, Queued
      <3>2. DOMAIN queue[r] = 1 .. Len(queue[r]) BY <1>0, LenProperties
      <3> QED BY <3>1, <3>2 DEF OwnCommit
    <2>2. CASE kind # "delete" BY <1>3, <2>2 DEF OwnCommit
    <2> QED BY <2>1, <2>2
  <1> QED BY <1>2, <1>3, <1>4, <1>5, <1>6, <1>7, QueuePromise

\* The operation asks for its next transaction.
LEMMA QueueAsks ==
  ASSUME TypeOK, QueuesMatch, NEW r \in Realm,
         RetryAcquire(r) \/ ReloadForDelete(r) \/ IssueRestoreCommit(r) \/ FailRestore(r)
  PROVE  QueuesMatch'
  <1>0. /\ op \in [Realm -> Ops] /\ queue[r] \in Seq(Requests) /\ Orderly(queue[r], op[r])
        /\ op[r].epoch \in Nat \cup {Unset} /\ op[r].items \in SUBSET Item
    BY DEF TypeOK, QueuesMatch, Ops
  <1>1. op[r].step \in {"wait", "leased"}
    BY DEF RetryAcquire, ReloadForDelete, IssueRestoreCommit, FailRestore
  <1>2. NoPromise(queue[r]) BY <1>0, <1>1, Unawaited
  <1>3. \A o : o.kind = op[r].kind => OwnCommit(queue[r], o)
    <2>1. op[r].step # "commit" BY <1>1
    <2> QED BY <1>0, <2>1 DEF Orderly, OwnCommit
  <1>4. PICK step \in {"acquire", "append", "abort", "commit"}, type \in Promises,
             e \in Nat \cup {Unset}, items \in SUBSET Item :
          /\ StepTo(r, step) /\ Enqueue(r, Request(type, e, items))
          /\ type \in {"acquire", "append", "abort"} => step = type
          /\ type = "append" => op[r].kind = "delete"
          /\ type = "commitRestore" => step = "commit" /\ op[r].kind = "restore"
          /\ type # "acquire" => e = op[r].epoch
    <2>0. {} \in SUBSET Item /\ Unset \in Nat \cup {Unset} OBVIOUS
    <2>1. CASE RetryAcquire(r)
      <3>1. StepTo(r, "acquire") /\ Enqueue(r, Request("acquire", Unset, {}))
        BY <2>1 DEF RetryAcquire
      <3> QED BY <2>0, <3>1 DEF Promises
    <2>2. CASE ReloadForDelete(r)
      <3>1. PICK next \in {"append", "abort"} :
              StepTo(r, next) /\ Enqueue(r, Request(next, op[r].epoch, op[r].items))
        BY <2>2 DEF ReloadForDelete
      <3> QED BY <1>0, <2>2, <3>1 DEF ReloadForDelete, Promises
    <2>3. CASE IssueRestoreCommit(r) BY <1>0, <2>3 DEF IssueRestoreCommit, Promises
    <2>4. CASE FailRestore(r)
      <3>1. StepTo(r, "abort") /\ Enqueue(r, Request("abort", op[r].epoch, {}))
        BY <2>4 DEF FailRestore
      <3> QED BY <1>0, <2>0, <3>1 DEF Promises
    <2> QED BY <2>1, <2>2, <2>3, <2>4
  <1> DEFINE x == Request(type, e, items)
  <1>5. x \in Requests /\ x.type = type /\ x.epoch = e
    BY RequestType DEF RequestTypes, Request, Promises
  <1>6. /\ op'[r].step = step /\ op'[r].kind = op[r].kind /\ op'[r].epoch = op[r].epoch
        /\ \A t \in Realm \ {r} : op'[t] = op[t]
    BY <1>0, <1>4, StepToFields
  <1>7. Awaited(x, op'[r]) BY <1>4, <1>5, <1>6 DEF Awaited
  <1> QED BY <1>2, <1>3, <1>4, <1>5, <1>6, <1>7, QueuePromise

\* The deletion hands its snapshot to a commit, or ends as an ordinary write.
LEMMA QueuePurge ==
  ASSUME TypeOK, QueuesMatch, NEW r \in Realm, PurgeAndPersist(r)
  PROVE  QueuesMatch'
  <1> DEFINE x == PersistRequest(r, memory'[r], hydrated[r], leaseHydrated[r])
             pending == ledger.restoreInProgress /\ ledger.tombstones # {}
  <1>0. /\ op \in [Realm -> Ops] /\ queue \in [Realm -> Seq(Requests)]
        /\ queue[r] \in Seq(Requests) /\ Orderly(queue[r], op[r])
    BY DEF TypeOK, QueuesMatch
  <1>1. op[r].kind = "delete" /\ op[r].step = "recorded" /\ Enqueue(r, x)
    BY DEF PurgeAndPersist
  <1>2. NoPromise(queue[r]) BY <1>0, <1>1, Unawaited
  <1>3. TypeOK' BY TypePurgeAndPersist
  <1>4. x \in Requests
    <2>1. /\ memory'[r] \in SUBSET Item
          /\ hydrated[r] \in Nat \cup {Unset} /\ leaseHydrated[r] \in Nat \cup {Unset}
      BY <1>3 DEF TypeOK
    <2> QED BY <2>1, PersistType
  <1>5. x.type = IF pending THEN "commitDeletion" ELSE "write"
    BY DEF PersistRequest, Request, WriteUnder
  <1>6. queue'[r] = Append(queue[r], x) /\ \A t \in Realm \ {r} : queue'[t] = queue[t]
    BY <1>0, <1>1, QueueFields
  <1>7. CASE pending
    <2>1. /\ op'[r].step = "commit" /\ op'[r].kind = "delete"
          /\ \A t \in Realm \ {r} : op'[t] = op[t]
      BY <1>0, <1>1, <1>7, StepToFields DEF PurgeAndPersist
    <2>2. Orderly(queue[r], op'[r]) BY <1>0, <1>2, <2>1, OrderlyAnew DEF OwnCommit
    <2>3. Orderly(Append(queue[r], x), op'[r])
      BY <1>0, <1>4, <1>5, <1>7, <2>1, <2>2, OrderlyAppend DEF Promises
    <2> QED BY <1>6, <2>1, <2>3, OneQueueStep
  <1>8. CASE ~pending
    <2>1. op' = At(op, r, NoOp) BY <1>8 DEF PurgeAndPersist
    <2>2. op'[r] = NoOp /\ \A t \in Realm \ {r} : op'[t] = op[t] BY <1>0, <2>1, AtFields
    <2>3. Orderly(queue[r], op'[r]) BY <1>0, <1>2, <2>2, OrderlyAnew DEF OwnCommit, NoOp
    <2>4. Orderly(Append(queue[r], x), op'[r])
      BY <1>0, <1>4, <1>5, <1>8, <2>3, OrderlyAppend DEF Promises
    <2> QED BY <1>6, <2>2, <2>4, OneQueueStep
  <1> QED BY <1>7, <1>8

\* A deletion commits as a deletion's own last step, or helps another realm's.
LEMMA QueueCommits ==
  ASSUME TypeOK, QueuesMatch, NEW r \in Realm, CommitDeletion(r)
  PROVE  QueuesMatch'
  <1>0. /\ op \in [Realm -> Ops] /\ queue \in [Realm -> Seq(Requests)]
        /\ queue[r] \in Seq(Requests) /\ Orderly(queue[r], op[r])
    BY DEF TypeOK, QueuesMatch
  <1>1. queue[r] # <<>> /\ Head(queue[r]).type = "commitDeletion" /\ Dequeue(r)
    BY DEF CommitDeletion, Turn
  <1>2. CASE op[r].kind # "delete"
    <2>1. op' = op BY <1>2 DEF CommitDeletion
    <2> QED BY <1>1, <2>1, QueueTurn
  <1>3. CASE op[r].kind = "delete"
    <2>1. op' = At(op, r, NoOp) BY <1>3 DEF CommitDeletion
    <2>2. op'[r] = NoOp /\ \A t \in Realm \ {r} : op'[t] = op[t] BY <1>0, <2>1, AtFields
    <2>3. /\ Tail(queue[r]) \in Seq(Requests) /\ Orderly(Tail(queue[r]), op[r])
          /\ op[r].step = "commit"
      BY <1>0, <1>1, <1>3, OrderlyTail
    <2>4. NoPromise(Tail(queue[r])) BY <1>3, <2>3, Unawaited
    <2>5. OwnCommit(Tail(queue[r]), NoOp) BY DEF OwnCommit, NoOp
    <2>6. Orderly(Tail(queue[r]), op'[r]) BY <2>2, <2>3, <2>4, <2>5, OrderlyAnew
    <2>7. queue'[r] = Tail(queue[r]) /\ \A t \in Realm \ {r} : queue'[t] = queue[t]
      BY <1>0, <1>1, QueueFields
    <2> QED BY <2>2, <2>6, <2>7, OneQueueStep
  <1> QED BY <1>2, <1>3

\* A page load empties them.
LEMMA QueueReload ==
  ASSUME TypeOK, QueuesMatch, NEW r \in Realm, Reload(r)
  PROVE  QueuesMatch'
  <1>1. queue \in [Realm -> Seq(Requests)] /\ op \in [Realm -> Ops] BY DEF TypeOK
  <1>2. /\ queue'[r] = <<>> /\ op'[r] = NoOp
        /\ \A t \in Realm \ {r} : queue'[t] = queue[t] /\ op'[t] = op[t]
    BY <1>1 DEF Reload, At
  <1>3. Orderly(<<>>, NoOp)
    <2>1. Len(<<>>) = 0 /\ <<>> \in Seq(Requests) BY EmptySeq
    <2> QED BY <2>1 DEF Orderly, OwnCommit
  <1> QED BY <1>2, <1>3, OneQueueStep

\* Whatever a realm does, its queue holds what its operation awaits and no more.
LEMMA QueuesStep ==
  ASSUME TypeOK, QueuesMatch, [Next]_vars
  PROVE  QueuesMatch'
  <1>1. CASE UNCHANGED vars BY <1>1 DEF vars, realms, QueuesMatch
  <1>2. ASSUME NEW r \in Realm, Proceed(r) PROVE QueuesMatch'
    BY <1>2, QueueEdits, QueueTurns, QueueOpTurns, QueueOpEnds, QueueAsks, QueuePurge, QueueCommits
    DEF Proceed
  <1> QED BY <1>1, <1>2, QueueEdits, QueueStarts, QueueAsks, QueueReload DEF Next

\* They match at first.
LEMMA QueuesInit == Init => QueuesMatch
  <1>1. Len(<<>>) = 0 BY EmptySeq
  <1> QED BY <1>1 DEF Init, QueuesMatch, Orderly, OwnCommit

-----------------------------------------------------------------------------
(***************************************************************************)
(* Operations, generations and the ledger they share.                      *)
(***************************************************************************)
\* The generation of an operation is its own: reserved by the ledger, and no
\* other realm's operation or token has it.
EpochsAreOwn ==
    /\ \A r \in Realm : op[r].epoch <= ledger.restoreEpoch
    /\ \A r, s \in Realm : r # s /\ op[r].epoch = op[s].epoch => op[r].epoch = Unset
    /\ \A r, s \in Realm : r # s => op[r].epoch \notin leaseOwners[s]

\* Tombstones are those of the lease's own deletion, past its last refusal.
DoomedByDeletion ==
    ledger.tombstones # {} =>
        /\ ledger.restoreInProgress /\ ledger.revive = {}
        /\ \A r \in Realm : op[r].epoch = ledger.restoreEpoch =>
              op[r].kind = "delete" /\ op[r].step \in {"recorded", "commit"}

\* Revivals are those of the lease's own Replace.
RevivedByReplace ==
    /\ ~ledger.restoreInProgress => ledger.revive = {}
    /\ \A r \in Realm : op[r].kind = "delete" /\ op[r].epoch = ledger.restoreEpoch
                          => ledger.revive = {}

LeaseInv == QueuesMatch /\ EpochsAreOwn /\ DoomedByDeletion /\ RevivedByReplace

\* What each transition of the ledger sets.
LEMMA LedgerFields ==
  ASSUME TypeOK, NEW e, NEW items
  PROVE  /\ Leased(ledger, e, items).restoreEpoch = e
         /\ Leased(ledger, e, items).restoreInProgress = TRUE
         /\ Leased(ledger, e, items).tombstones = ledger.tombstones
         /\ Leased(ledger, e, items).revive = items
         /\ Condemned(ledger, items).restoreEpoch = ledger.restoreEpoch
         /\ Condemned(ledger, items).restoreInProgress = ledger.restoreInProgress
         /\ Condemned(ledger, items).revive = ledger.revive
         /\ Settled(ledger).restoreEpoch = ledger.restoreEpoch
         /\ Settled(ledger).restoreInProgress = FALSE
         /\ Settled(ledger).tombstones = ledger.tombstones
         /\ Settled(ledger).revive = {}
         /\ Committed(e).activeEpoch = e
         /\ Committed(e).restoreEpoch = e
         /\ Committed(e).restoreInProgress = FALSE
         /\ Committed(e).tombstones = {}
         /\ Committed(e).revive = {}
  <1>1. ledger \in Ledgers BY DEF TypeOK
  <1>2. /\ Committed(e).activeEpoch = e /\ Committed(e).restoreEpoch = e
        /\ Committed(e).restoreInProgress = FALSE
        /\ Committed(e).tombstones = {} /\ Committed(e).revive = {}
    BY DEF Committed
  <1> QED BY <1>1, <1>2 DEF Leased, Condemned, Settled, Ledgers

\* Steps other than an acquisition leave each operation its kind and
\* generation or end it, and a recorded deletion only commits.
Steady(t) ==
    \/ op'[t].epoch = Unset
    \/ /\ op'[t].epoch = op[t].epoch /\ op'[t].kind = op[t].kind
       /\ op[t].kind = "delete" /\ op[t].step \in {"recorded", "commit"}
            => op'[t].step \in {"recorded", "commit"}

\* Only taking the lease moves the epoch of an operation.
LEMMA OpsSteady ==
  ASSUME TypeOK, QueuesMatch, [Next]_vars, \A r \in Realm : ~AcquireLease(r)
  PROVE  \A t \in Realm : Steady(t)
  <1>0. op \in [Realm -> Ops] BY DEF TypeOK
  <1>a. ASSUME op' = op PROVE \A t \in Realm : Steady(t) BY <1>a DEF Steady
  <1>b. ASSUME NEW r \in Realm, NEW o, op' = At(op, r, o), o.epoch = Unset
        PROVE  \A t \in Realm : Steady(t)
    BY <1>0, <1>b DEF Steady, At
  <1>c. ASSUME NEW r \in Realm, NEW step, StepTo(r, step),
               op[r].kind = "delete" /\ op[r].step \in {"recorded", "commit"} => step = "commit"
        PROVE  \A t \in Realm : Steady(t)
    BY <1>0, <1>c, StepToFields DEF Steady
  <1>d. NoOp.epoch = Unset BY DEF NoOp
  <1>1. CASE UNCHANGED vars BY <1>1, <1>a DEF vars, realms
  <1>2. ASSUME NEW r \in Realm,
               \/ Edit(r) \/ Boot(r) \/ ExecWrite(r) \/ StartRecovery(r) \/ Recover(r)
               \/ HandleNotice(r) \/ Reconcile(r) \/ PresenceRead(r)
        PROVE  \A t \in Realm : Steady(t)
    <2>1. op' = op
      BY <1>2 DEF Edit, AddItem, RemoveItem, Boot, ExecWrite, StartRecovery, Recover, HandleNotice,
         Reconcile, PresenceRead
    <2> QED BY <2>1, <1>a
  <1>3. ASSUME NEW r \in Realm, Begin(r) PROVE \A t \in Realm : Steady(t)
    <2>1. PICK kind \in Kinds, items \in SUBSET Item :
            op' = At(op, r, [kind |-> kind, step |-> "acquire", epoch |-> Unset, items |-> items])
      BY <1>3, ConstantsAssumption DEF Begin, StartDelete, StartRestore, Start
    <2> QED BY <2>1, <1>b
  <1>4. ASSUME NEW r \in Realm, AbortLease(r) \/ Reload(r) PROVE \A t \in Realm : Steady(t)
    <2>1. op' = At(op, r, NoOp) BY <1>4 DEF AbortLease, Reload
    <2> QED BY <2>1, <1>b, <1>d
  <1>5. ASSUME NEW r \in Realm, CommitDeletion(r) PROVE \A t \in Realm : Steady(t)
    BY <1>5, <1>a, <1>b, <1>d DEF CommitDeletion
  <1>6. ASSUME NEW r \in Realm, PurgeAndPersist(r) PROVE \A t \in Realm : Steady(t)
    BY <1>6, <1>b, <1>c, <1>d DEF PurgeAndPersist
  <1>7. ASSUME NEW r \in Realm,
               RetryAcquire(r) \/ ReloadForDelete(r) \/ IssueRestoreCommit(r) \/ FailRestore(r)
        PROVE  \A t \in Realm : Steady(t)
    <2>1. PICK step \in {"acquire", "append", "abort", "commit"} : StepTo(r, step)
      BY <1>7 DEF RetryAcquire, ReloadForDelete, IssueRestoreCommit, FailRestore
    <2>2. op[r].step \in {"wait", "leased"}
      BY <1>7 DEF RetryAcquire, ReloadForDelete, IssueRestoreCommit, FailRestore
    <2> QED BY <2>1, <2>2, <1>c
  <1>8. ASSUME NEW r \in Realm, FindLeaseBusy(r) \/ AppendTombstones(r) \/ CommitRestore(r)
        PROVE  \A t \in Realm : Steady(t)
    <2>1. \/ op' = At(op, r, NoOp)
          \/ \E step \in {"wait", "recorded", "reload", "abort"} : StepTo(r, step)
      BY <1>8 DEF FindLeaseBusy, AppendTombstones, CommitRestore
    <2>2. PICK type \in {"acquire", "append", "commitRestore"} : Turn(r, type)
      BY <1>8 DEF FindLeaseBusy, AppendTombstones, CommitRestore
    <2>3. queue[r] # <<>> /\ Head(queue[r]).type = type /\ queue[r] \in Seq(Requests)
          /\ Orderly(queue[r], op[r])
      BY <2>2 DEF Turn, TypeOK, QueuesMatch
    <2>4. Awaited(Head(queue[r]), op[r]) BY <2>3, OrderlyTail DEF Promises
    <2>5. ~(op[r].kind = "delete" /\ op[r].step \in {"recorded", "commit"})
      BY <2>3, <2>4 DEF Awaited
    <2> QED BY <2>1, <2>5, <1>b, <1>c, <1>d
  <1>9. ASSUME NEW r \in Realm, Proceed(r) PROVE \A t \in Realm : Steady(t)
    BY <1>2, <1>4, <1>5, <1>6, <1>7, <1>8, <1>9 DEF Proceed
  <1> QED BY <1>1, <1>2, <1>3, <1>4, <1>7, <1>9 DEF Next

\* Steps other than an acquisition: nothing, the end of a lease, or a tombstone.
LEMMA LedgerSteady ==
  ASSUME TypeOK, LeaseInv, [Next]_vars, \A r \in Realm : ~AcquireLease(r)
  PROVE  /\ \/ ledger' = ledger
            \/ ledger' = Settled(ledger) /\ ledger.tombstones = {}
            \/ \E e \in Nat : e >= ledger.restoreEpoch /\ ledger' = Committed(e)
            \/ \E r \in Realm : /\ AppendTombstones(r) /\ LeaseActive(op[r].epoch)
                                /\ op[r].kind = "delete"
                                /\ \E items : ledger' = Condemned(ledger, items)
         /\ \A t \in Realm : leaseOwners'[t] \subseteq leaseOwners[t]
  <1>0. leaseOwners \in [Realm -> SUBSET Nat] BY DEF TypeOK
  <1>1. CASE UNCHANGED <<ledger, row, leaseOwners>> BY <1>1
  <1>2. ASSUME NEW r \in Realm, ExecWrite(r) \/ Reload(r)
        PROVE  ledger' = ledger /\ \A t \in Realm : leaseOwners'[t] \subseteq leaseOwners[t]
    BY <1>0, <1>2 DEF ExecWrite, Reload, At, durable
  <1>3. ASSUME NEW r \in Realm, Recover(r)
        PROVE  /\ leaseOwners' = leaseOwners
               /\ \/ ledger' = ledger
                  \/ ledger' = Settled(ledger) /\ ledger.tombstones = {}
                  \/ ledger' = Committed(NextEpoch)
    <2>1. leaseOwners' = leaseOwners BY <1>3 DEF Recover
    <2>2. ~HoldsPendingDeletion => ledger.tombstones = {}
      BY DEF HoldsPendingDeletion, LeaseInv, DoomedByDeletion
    <2> QED BY <1>3, <2>1, <2>2, RecoverCases
  <1>4. ASSUME NEW r \in Realm, AppendTombstones(r)
        PROVE  /\ leaseOwners' = leaseOwners
               /\ \/ ledger' = ledger
                  \/ /\ LeaseActive(op[r].epoch) /\ op[r].kind = "delete"
                     /\ \E items : ledger' = Condemned(ledger, items)
    <2>1. Turn(r, "append") /\ leaseOwners' = leaseOwners BY <1>4 DEF AppendTombstones
    <2>2. /\ queue[r] # <<>> /\ Head(queue[r]).type = "append" /\ queue[r] \in Seq(Requests)
          /\ Orderly(queue[r], op[r])
      BY <2>1 DEF Turn, TypeOK, LeaseInv, QueuesMatch
    <2>3. Awaited(Head(queue[r]), op[r]) BY <2>2, OrderlyTail DEF Promises
    <2>4. Head(queue[r]).epoch = op[r].epoch /\ op[r].kind = "delete" BY <2>2, <2>3 DEF Awaited
    <2> QED BY <1>4, <2>1, <2>4 DEF AppendTombstones
  <1>5. ASSUME NEW r \in Realm, CommitDeletion(r) \/ CommitRestore(r)
        PROVE  /\ \A t \in Realm : leaseOwners'[t] \subseteq leaseOwners[t]
               /\ ledger' = ledger \/ ledger' = Committed(ledger.restoreEpoch)
    <2>1. CASE UNCHANGED <<ledger, row, leaseOwners>> BY <2>1
    <2>2. CASE /\ ledger' = Committed(ledger.restoreEpoch)
               /\ leaseOwners' = At(leaseOwners, r, leaseOwners[r] \ {ledger.restoreEpoch})
      BY <1>0, <2>2 DEF At
    <2> QED BY <1>5, <2>1, <2>2, CommitCases
  <1>6. ASSUME NEW r \in Realm, AbortLease(r)
        PROVE  /\ \A t \in Realm : leaseOwners'[t] \subseteq leaseOwners[t]
               /\ ledger' = ledger \/ (ledger' = Settled(ledger) /\ ledger.tombstones = {})
    <2> DEFINE e == Head(queue[r]).epoch
    <2>1. /\ Turn(r, "abort") /\ leaseOwners' = At(leaseOwners, r, leaseOwners[r] \ {e})
          /\ ledger' = IF ledger.restoreEpoch = e THEN Settled(ledger) ELSE ledger
      BY <1>6 DEF AbortLease
    <2>2. /\ queue[r] # <<>> /\ Head(queue[r]).type = "abort" /\ queue[r] \in Seq(Requests)
          /\ Orderly(queue[r], op[r])
      BY <2>1 DEF Turn, TypeOK, LeaseInv, QueuesMatch
    <2>3. Awaited(Head(queue[r]), op[r]) BY <2>2, OrderlyTail DEF Promises
    <2>4. e = op[r].epoch /\ op[r].step = "abort" BY <2>2, <2>3 DEF Awaited
    <2>5. ledger.restoreEpoch = e => ledger.tombstones = {}
      BY <2>4 DEF LeaseInv, DoomedByDeletion
    <2>6. \A t \in Realm : leaseOwners'[t] \subseteq leaseOwners[t] BY <1>0, <2>1 DEF At
    <2>7. ledger' = ledger \/ (ledger' = Settled(ledger) /\ ledger.tombstones = {})
      <3> HIDE DEF e
      <3>1. ledger.restoreEpoch = e => ledger' = Settled(ledger) BY <2>1
      <3>2. ledger.restoreEpoch # e => ledger' = ledger BY <2>1
      <3> QED BY <2>5, <3>1, <3>2
    <2> HIDE DEF e
    <2> QED BY <2>6, <2>7
  <1>7. NextEpoch \in Nat /\ NextEpoch >= ledger.restoreEpoch /\ ledger.restoreEpoch \in Nat
    BY LedgerType, NextEpochType
  <1> QED BY <1>1, <1>2, <1>3, <1>4, <1>5, <1>6, <1>7, DurableSteps DEF LeaseStep

\* Taking the lease keeps what operations and ledger say of each other.
LEMMA LeaseInvAcquire ==
  ASSUME TypeOK, LeaseInv, OneOwnerPerLease, NEW r \in Realm, AcquireLease(r)
  PROVE  EpochsAreOwn' /\ DoomedByDeletion' /\ RevivedByReplace'
  <1> DEFINE revive == IF op[r].kind = "restore" THEN op[r].items ELSE {}
  <1>1. /\ ~ledger.restoreInProgress /\ ledger' = Leased(ledger, NextEpoch, revive)
        /\ op' = At(op, r, [op[r] EXCEPT !.step = "leased", !.epoch = NextEpoch])
        /\ leaseOwners' = At(leaseOwners, r, leaseOwners[r] \cup {NextEpoch})
    BY DEF AcquireLease
  <1>2. /\ op \in [Realm -> Ops] /\ leaseOwners \in [Realm -> SUBSET Nat]
        /\ op[r] \in Ops
    BY DEF TypeOK
  <1>3. /\ ledger'.restoreEpoch = NextEpoch /\ ledger'.revive = revive
        /\ ledger'.tombstones = ledger.tombstones /\ ledger'.restoreInProgress = TRUE
    <2> HIDE DEF revive
    <2> DEFINE l == Leased(ledger, NextEpoch, revive)
    <2>1. ledger' = l BY <1>1
    <2>2. /\ l.restoreEpoch = NextEpoch /\ l.revive = revive
          /\ l.tombstones = ledger.tombstones /\ l.restoreInProgress = TRUE
      <3>1. ledger \in Ledgers BY DEF TypeOK
      <3> QED BY <3>1 DEF Leased, Ledgers
    <2> HIDE DEF l
    <2> QED BY <2>1, <2>2
  <1>4. /\ NextEpoch \in Nat /\ ledger.restoreEpoch \in Nat /\ NextEpoch > ledger.restoreEpoch
    BY LedgerType, NextEpochType
  <1>5. /\ op'[r].epoch = NextEpoch /\ op'[r].kind = op[r].kind
        /\ \A t \in Realm \ {r} : op'[t] = op[t]
    BY <1>1, <1>2 DEF At, Ops
  <1>6. /\ leaseOwners'[r] = leaseOwners[r] \cup {NextEpoch}
        /\ \A t \in Realm \ {r} : leaseOwners'[t] = leaseOwners[t]
    BY <1>1, <1>2 DEF At
  <1>7. \A t \in Realm : op[t].epoch \in Int /\ op[t].epoch <= ledger.restoreEpoch
    BY <1>2, <1>4 DEF LeaseInv, EpochsAreOwn, Ops, Unset
  <1>8. \A t \in Realm : \A e \in leaseOwners[t] : e \in Nat /\ e <= ledger.restoreEpoch
    BY <1>2 DEF OneOwnerPerLease
  <1>9. \A t \in Realm \ {r} : op'[t].epoch # NextEpoch /\ op'[t].epoch <= NextEpoch
    BY <1>4, <1>5, <1>7
  <1>10. EpochsAreOwn'
    <2>1. \A t \in Realm : op'[t].epoch <= ledger'.restoreEpoch BY <1>3, <1>4, <1>5, <1>9
    <2>2. ASSUME NEW t \in Realm, NEW u \in Realm, t # u, op'[t].epoch = op'[u].epoch
          PROVE  op'[t].epoch = Unset
      BY <2>2, <1>5, <1>9 DEF LeaseInv, EpochsAreOwn
    <2>3. ASSUME NEW t \in Realm, NEW u \in Realm, t # u
          PROVE  op'[t].epoch \notin leaseOwners'[u]
      <3>1. CASE t = r
        <4>1. NextEpoch \notin leaseOwners[u] BY <1>4, <1>8
        <4> QED BY <2>3, <3>1, <4>1, <1>5, <1>6
      <3>2. CASE t # r
        <4>1. op'[t].epoch \notin leaseOwners[u] BY <2>3, <3>2, <1>5 DEF LeaseInv, EpochsAreOwn
        <4> QED BY <3>2, <4>1, <1>6, <1>9
      <3> QED BY <3>1, <3>2
    <2> QED BY <2>1, <2>2, <2>3 DEF EpochsAreOwn
  <1>11. DoomedByDeletion' BY <1>1, <1>3 DEF LeaseInv, DoomedByDeletion
  <1>12. RevivedByReplace' BY <1>3, <1>5, <1>9 DEF RevivedByReplace
  <1> QED BY <1>10, <1>11, <1>12

\* So does every other step.
LEMMA LeaseInvSteady ==
  ASSUME TypeOK, TypeOK', LeaseInv, [Next]_vars, \A r \in Realm : ~AcquireLease(r)
  PROVE  EpochsAreOwn' /\ DoomedByDeletion' /\ RevivedByReplace'
  <1>1. /\ \A t \in Realm : Steady(t)
        /\ \A t \in Realm : leaseOwners'[t] \subseteq leaseOwners[t]
    BY OpsSteady, LedgerSteady DEF LeaseInv
  <1>2. /\ ledger.restoreEpoch \in Nat /\ ledger'.restoreEpoch \in Nat
        /\ \A t \in Realm : op[t].epoch \in Int /\ op'[t].epoch \in Int
        /\ \A t \in Realm : Unset \notin leaseOwners'[t]
    BY DEF TypeOK, Ledgers, Ops, Unset
  <1>3. ledger'.restoreEpoch >= ledger.restoreEpoch
    <2>1. /\ Settled(ledger).restoreEpoch = ledger.restoreEpoch
          /\ \A e : Committed(e).restoreEpoch = e
          /\ \A items : Condemned(ledger, items).restoreEpoch = ledger.restoreEpoch
      BY LedgerFields
    <2> QED BY <1>2, <2>1, LedgerSteady
  <1>4. EpochsAreOwn'
    <2>1. \A t \in Realm : op'[t].epoch <= ledger'.restoreEpoch
      BY <1>1, <1>2, <1>3 DEF Steady, LeaseInv, EpochsAreOwn, Unset
    <2>2. \A t, u \in Realm : t # u /\ op'[t].epoch = op'[u].epoch => op'[t].epoch = Unset
      BY <1>1 DEF Steady, LeaseInv, EpochsAreOwn
    <2>3. \A t, u \in Realm : t # u => op'[t].epoch \notin leaseOwners'[u]
      BY <1>1, <1>2 DEF Steady, LeaseInv, EpochsAreOwn
    <2> QED BY <2>1, <2>2, <2>3 DEF EpochsAreOwn
  <1>5. CASE ledger' = ledger
    <2>1. DoomedByDeletion'
      BY <1>1, <1>2, <1>5 DEF Steady, LeaseInv, DoomedByDeletion, Unset
    <2>2. RevivedByReplace'
      BY <1>1, <1>2, <1>5 DEF Steady, LeaseInv, RevivedByReplace, Unset
    <2> QED BY <1>4, <2>1, <2>2
  <1>6. CASE ledger'.tombstones = {} /\ ledger'.revive = {}
    BY <1>4, <1>6 DEF DoomedByDeletion, RevivedByReplace
  <1>7. ASSUME NEW r \in Realm, NEW items,
               AppendTombstones(r), LeaseActive(op[r].epoch), op[r].kind = "delete",
               ledger' = Condemned(ledger, items)
        PROVE  DoomedByDeletion' /\ RevivedByReplace'
    <2>1. ledger.restoreInProgress /\ op[r].epoch = ledger.restoreEpoch
      BY <1>7 DEF LeaseActive
    <2>2. ledger.revive = {} BY <2>1, <1>7 DEF LeaseInv, RevivedByReplace
    <2>3. /\ ledger'.restoreEpoch = ledger.restoreEpoch /\ ledger'.restoreInProgress
          /\ ledger'.revive = {}
      BY <1>7, <2>1, <2>2, LedgerFields
    <2>4. ASSUME NEW t \in Realm, op'[t].epoch = ledger.restoreEpoch
          PROVE  t = r
      BY <1>1, <1>2, <2>1, <2>4 DEF Steady, LeaseInv, EpochsAreOwn, Unset
    <2>5. op'[r].kind = "delete" /\ op'[r].step = "recorded"
      <3>1. Turn(r, "append") BY <1>7 DEF AppendTombstones
      <3>2. /\ queue[r] # <<>> /\ Head(queue[r]).type = "append" /\ queue[r] \in Seq(Requests)
            /\ Orderly(queue[r], op[r])
        BY <3>1 DEF Turn, TypeOK, LeaseInv, QueuesMatch
      <3>3. Head(queue[r]).epoch = op[r].epoch
        <4>1. Awaited(Head(queue[r]), op[r]) BY <3>2, OrderlyTail DEF Promises
        <4> QED BY <3>2, <4>1 DEF Awaited
      <3>4. StepTo(r, "recorded") BY <1>7, <3>3 DEF AppendTombstones
      <3>5. op \in [Realm -> Ops] BY DEF TypeOK
      <3> QED BY <1>7, <3>4, <3>5, StepToFields
    <2>6. DoomedByDeletion' BY <2>3, <2>4, <2>5 DEF DoomedByDeletion
    <2> QED BY <2>3, <2>6 DEF RevivedByReplace
  <1>8. \/ ledger' = ledger
        \/ ledger'.tombstones = {} /\ ledger'.revive = {}
        \/ \E r \in Realm : /\ AppendTombstones(r) /\ LeaseActive(op[r].epoch)
                            /\ op[r].kind = "delete"
                            /\ \E items : ledger' = Condemned(ledger, items)
    <2>1. /\ Settled(ledger).tombstones = ledger.tombstones /\ Settled(ledger).revive = {}
          /\ \A e : Committed(e).tombstones = {} /\ Committed(e).revive = {}
      BY LedgerFields
    <2> QED BY <2>1, LedgerSteady
  <1> QED BY <1>4, <1>5, <1>6, <1>7, <1>8

\* Every step keeps the lease's invariant.
LEMMA LeaseInvStep ==
  ASSUME TypeOK, TypeOK', OneOwnerPerLease, LeaseInv, [Next]_vars
  PROVE  LeaseInv'
  <1>1. QueuesMatch' BY QueuesStep DEF LeaseInv
  <1>2. CASE \E r \in Realm : AcquireLease(r) BY <1>1, <1>2, LeaseInvAcquire DEF LeaseInv
  <1>3. CASE \A r \in Realm : ~AcquireLease(r) BY <1>1, <1>3, LeaseInvSteady DEF LeaseInv
  <1> QED BY <1>2, <1>3

\* The lease's invariant holds throughout.
LEMMA LeaseInvHolds == Spec => []LeaseInv
  <1>1. Init => LeaseInv
    <2> SUFFICES ASSUME Init PROVE LeaseInv OBVIOUS
    <2>1. EpochsAreOwn /\ DoomedByDeletion /\ RevivedByReplace
      BY DEF Init, EpochsAreOwn, DoomedByDeletion, RevivedByReplace, NoOp, Unset
    <2> QED BY <2>1, QueuesInit DEF LeaseInv
  <1>2. TypeOK /\ TypeOK' /\ OneOwnerPerLease /\ LeaseInv /\ [Next]_vars => LeaseInv'
    BY LeaseInvStep
  <1> QED BY <1>1, <1>2, TypeCorrect, OneOwner, PTL DEF Spec

\* Whoever ends a lease - its owner, a helper, a recovery, an abort - leaves a
\* ledger with no tombstone to carry out and no revival to honour.
THEOREM SettledLedger == Spec => []SettledLedgerIsClean
  <1>1. LeaseInv => SettledLedgerIsClean
    BY DEF LeaseInv, DoomedByDeletion, RevivedByReplace, SettledLedgerIsClean
  <1> QED BY <1>1, LeaseInvHolds, PTL

-----------------------------------------------------------------------------
(***************************************************************************)
(* Recovery and live owners.                                               *)
(***************************************************************************)
\* With Web Locks, a recovery is queued only for a generation whose token is
\* gone for good.
RecoversTheDead ==
    WebLocks =>
      \A r \in Realm : \A k \in 1 .. Len(queue[r]) : queue[r][k].type = "recover" =>
          /\ queue[r][k].epoch \in Nat
          /\ queue[r][k].epoch <= ledger.restoreEpoch
          /\ \A t \in Realm : queue[r][k].epoch \notin leaseOwners[t]

\* An entry of a queue that something joined is that or was there before.
LEMMA EntryJoined ==
  ASSUME queue \in [Realm -> Seq(Requests)], NEW r \in Realm, NEW t \in Realm, NEW x,
         Enqueue(t, x) \/ (queue[t] # <<>> /\ DequeueThen(t, x)),
         NEW k \in 1 .. Len(queue'[r])
  PROVE  \/ \E j \in 1 .. Len(queue[r]) : queue[r][j] = queue'[r][k]
         \/ t = r /\ queue'[r][k] = x
  <1>1. CASE t # r BY <1>1, QueueFields
  <1>2. CASE t = r /\ Enqueue(t, x)
    <2>1. queue'[r] = Append(queue[r], x) /\ queue[r] \in Seq(Requests)
      BY <1>2, QueueFields
    <2>2. /\ Len(queue[r]) \in Nat /\ Len(queue'[r]) = Len(queue[r]) + 1
          /\ queue'[r][Len(queue[r]) + 1] = x
          /\ \A j \in 1 .. Len(queue[r]) : queue'[r][j] = queue[r][j]
      BY <2>1
    <2>3. CASE k = Len(queue[r]) + 1 BY <1>2, <2>2, <2>3
    <2>4. CASE k # Len(queue[r]) + 1
      <3>1. k \in 1 .. Len(queue[r]) BY <2>2, <2>4
      <3> QED BY <2>2, <3>1
    <2> QED BY <2>3, <2>4
  <1>3. CASE t = r /\ queue[t] # <<>> /\ DequeueThen(t, x)
    <2>1. queue'[r] = Append(Tail(queue[r]), x) /\ queue[r] \in Seq(Requests)
      BY <1>3, QueueFields
    <2>2. /\ Len(queue[r]) \in Nat /\ Len(Tail(queue[r])) = Len(queue[r]) - 1
          /\ Tail(queue[r]) \in Seq(Requests) /\ Len(queue[r]) > 0
          /\ \A j \in 1 .. Len(Tail(queue[r])) : Tail(queue[r])[j] = queue[r][j + 1]
      BY <1>3, <2>1, HeadTailProperties, LenProperties, EmptySeq
    <2>3. /\ Len(queue'[r]) = Len(queue[r]) /\ queue'[r][Len(queue[r])] = x
          /\ \A j \in 1 .. Len(queue[r]) - 1 : queue'[r][j] = Tail(queue[r])[j]
      BY <2>1, <2>2
    <2>4. CASE k = Len(queue[r]) BY <1>3, <2>3, <2>4
    <2>5. CASE k # Len(queue[r])
      <3>1. k \in 1 .. Len(queue[r]) /\ Len(queue[r]) \in Nat BY <2>2, <2>3
      <3>2. k \in 1 .. Len(queue[r]) - 1 /\ k + 1 \in 1 .. Len(queue[r]) BY <2>5, <3>1
      <3>3. queue'[r][k] = queue[r][k + 1] BY <2>2, <2>3, <3>2
      <3> QED BY <3>2, <3>3
    <2> QED BY <2>4, <2>5
  <1> QED BY <1>1, <1>2, <1>3

\* An entry of a queue that lost its head, or everything, was there before.
LEMMA EntryKept ==
  ASSUME queue \in [Realm -> Seq(Requests)], NEW r \in Realm, NEW t \in Realm,
         (queue[t] # <<>> /\ Dequeue(t)) \/ queue' = [queue EXCEPT ![t] = <<>>],
         NEW k \in 1 .. Len(queue'[r])
  PROVE  \E j \in 1 .. Len(queue[r]) : queue[r][j] = queue'[r][k]
  <1>1. CASE t # r
    <2>1. queue'[r] = queue[r] BY <1>1, QueueFields
    <2> QED BY <2>1
  <1>2. CASE t = r /\ queue[t] # <<>> /\ Dequeue(t)
    <2>1. queue'[r] = Tail(queue[r]) /\ queue[r] \in Seq(Requests)
      BY <1>2, QueueFields
    <2>2. /\ Len(queue[r]) \in Nat /\ Len(queue'[r]) = Len(queue[r]) - 1
          /\ \A j \in 1 .. Len(queue'[r]) : queue'[r][j] = queue[r][j + 1]
      BY <1>2, <2>1, HeadTailProperties, LenProperties
    <2>3. k + 1 \in 1 .. Len(queue[r]) BY <2>2
    <2> QED BY <2>2, <2>3
  <1>3. CASE t = r /\ queue' = [queue EXCEPT ![t] = <<>>]
    <2>1. queue'[r] = <<>> BY <1>3
    <2>2. Len(<<>>) = 0 BY EmptySeq
    <2> QED BY <2>1, <2>2
  <1> QED BY <1>1, <1>2, <1>3

\* What a realm puts into its queue, and what holds when it does.
Issued(t, x) ==
    \/ x.type \notin {"recover", "commitDeletion", "commitRestore"}
    \/ /\ x.type = "recover" /\ x.epoch = ledger.restoreEpoch
       /\ WebLocks => ~OwnerLives
       /\ ledger' = ledger /\ leaseOwners' = leaseOwners
    \/ /\ x.type = "commitDeletion" /\ x.epoch = ledger.restoreEpoch
       /\ ledger.tombstones # {} /\ ledger' = ledger
    \/ /\ x.type = "commitRestore" /\ op[t].kind = "restore" /\ x.items = op[t].items
       /\ ledger' = ledger

\* What waits in a FIFO was there or has just been issued.
LEMMA QueueOrigin ==
  ASSUME TypeOK, [Next]_vars, NEW r \in Realm, NEW k \in 1 .. Len(queue'[r])
  PROVE  \/ \E j \in 1 .. Len(queue[r]) : queue[r][j] = queue'[r][k]
         \/ Issued(r, queue'[r][k])
  <1> DEFINE Goal == \/ \E j \in 1 .. Len(queue[r]) : queue[r][j] = queue'[r][k]
                     \/ Issued(r, queue'[r][k])
  <1>0. queue \in [Realm -> Seq(Requests)] BY DEF TypeOK
  <1>a. ASSUME NEW t \in Realm, NEW x, Issued(t, x),
               Enqueue(t, x) \/ (queue[t] # <<>> /\ DequeueThen(t, x))
        PROVE  Goal
    <2>1. \/ \E j \in 1 .. Len(queue[r]) : queue[r][j] = queue'[r][k]
          \/ t = r /\ queue'[r][k] = x
      BY <1>0, <1>a, EntryJoined
    <2> QED BY <1>a, <2>1
  <1>b. ASSUME NEW t \in Realm,
               (queue[t] # <<>> /\ Dequeue(t)) \/ queue' = [queue EXCEPT ![t] = <<>>]
        PROVE  Goal
    <2>1. \E j \in 1 .. Len(queue[r]) : queue[r][j] = queue'[r][k] BY <1>0, <1>b, EntryKept
    <2> QED BY <2>1
  <1>c. ASSUME queue' = queue PROVE Goal
    <2>1. k \in 1 .. Len(queue[r]) /\ queue[r][k] = queue'[r][k] BY <1>c
    <2> QED BY <2>1
  <1> HIDE DEF Goal
  <1>d. \A t, type, e, items :
          /\ Request(type, e, items).type = type
          /\ Request(type, e, items).epoch = e
          /\ Request(type, e, items).items = items
          /\ WriteOf(t, items).type = "write"
    BY DEF Request, WriteOf, WriteUnder
  <1>e. ASSUME NEW t \in Realm, NEW items, NEW h, NEW lh, ledger' = ledger
        PROVE  Issued(t, PersistRequest(t, items, h, lh))
    <2>1. WriteUnder(t, items, h, lh).type = "write" BY DEF WriteUnder
    <2> QED BY <1>d, <1>e, <2>1 DEF PersistRequest, Issued
  <1>1. ASSUME NEW t \in Realm, StartRecovery(t) PROVE Goal
    <2> DEFINE x == Request("recover", ledger.restoreEpoch, {})
    <2>1. /\ Enqueue(t, x) /\ ledger' = ledger /\ leaseOwners' = leaseOwners
          /\ WebLocks => ~OwnerLives
      BY <1>1 DEF StartRecovery, IsLeaseAbandoned, durable
    <2>2. x.type = "recover" /\ x.epoch = ledger.restoreEpoch BY <1>d
    <2> HIDE DEF x
    <2>3. Issued(t, x) BY <2>1, <2>2 DEF Issued
    <2> QED BY <2>1, <2>3, <1>a
  <1>2. ASSUME NEW t \in Realm, Edit(t) \/ Begin(t) \/ RetryAcquire(t) \/ ReloadForDelete(t)
                                \/ FailRestore(t)
        PROVE  Goal
    <2>1. \E x : Enqueue(t, x) /\ x.type \notin {"recover", "commitDeletion", "commitRestore"}
      <3>1. CASE Edit(t)
        <4>1. PICK items : Enqueue(t, WriteOf(t, items)) BY <3>1 DEF Edit, AddItem, RemoveItem
        <4> QED BY <4>1, <1>d
      <3>2. CASE Begin(t) \/ RetryAcquire(t)
        <4>1. Enqueue(t, Request("acquire", Unset, {}))
          BY <3>2 DEF Begin, StartDelete, StartRestore, Start, RetryAcquire
        <4> QED BY <4>1, <1>d
      <3>3. CASE ReloadForDelete(t)
        <4>1. PICK next \in {"append", "abort"} :
                Enqueue(t, Request(next, op[t].epoch, op[t].items))
          BY <3>3 DEF ReloadForDelete
        <4> QED BY <4>1, <1>d
      <3>4. CASE FailRestore(t)
        <4>1. Enqueue(t, Request("abort", op[t].epoch, {})) BY <3>4 DEF FailRestore
        <4> QED BY <4>1, <1>d
      <3> QED BY <1>2, <3>1, <3>2, <3>3, <3>4
    <2> QED BY <2>1, <1>a DEF Issued
  <1>3. ASSUME NEW t \in Realm, IssueRestoreCommit(t) PROVE Goal
    <2> DEFINE x == Request("commitRestore", op[t].epoch, op[t].items)
    <2>1. Enqueue(t, x) /\ op[t].kind = "restore" /\ ledger' = ledger
      BY <1>3 DEF IssueRestoreCommit, durable
    <2>2. x.type = "commitRestore" /\ x.items = op[t].items BY <1>d
    <2> HIDE DEF x
    <2>3. Issued(t, x) BY <2>1, <2>2 DEF Issued
    <2> QED BY <2>1, <2>3, <1>a
  <1>4. ASSUME NEW t \in Realm, PurgeAndPersist(t) \/ HandleNotice(t) \/ Reconcile(t) PROVE Goal
    <2>1. /\ ledger' = ledger
          /\ queue' = queue \/ \E items, h, lh : Enqueue(t, PersistRequest(t, items, h, lh))
      BY <1>4 DEF PurgeAndPersist, HandleNotice, Reconcile, durable
    <2> QED BY <2>1, <1>a, <1>c, <1>e
  <1>5. ASSUME NEW t \in Realm,
               \/ ExecWrite(t) \/ AcquireLease(t) \/ FindLeaseBusy(t) \/ Recover(t)
               \/ CommitDeletion(t) \/ AbortLease(t) \/ AppendTombstones(t) \/ CommitRestore(t)
        PROVE  Goal
    <2>1. /\ queue[t] # <<>>
          /\ Dequeue(t) \/ \E e, items : DequeueThen(t, Request("abort", e, items))
      BY <1>5 DEF ExecWrite, AcquireLease, FindLeaseBusy, Recover, CommitDeletion, AbortLease,
         AppendTombstones, CommitRestore, Turn
    <2>2. \A e, items : Issued(t, Request("abort", e, items)) BY <1>d DEF Issued
    <2> QED BY <2>1, <2>2, <1>a, <1>b
  <1>6. ASSUME NEW t \in Realm, Reload(t) PROVE Goal
    <2>1. queue' = [queue EXCEPT ![t] = <<>>] BY <1>6 DEF Reload, At
    <2> QED BY <2>1, <1>b
  <1>7. ASSUME NEW t \in Realm, Boot(t) \/ PresenceRead(t) PROVE Goal
    <2>1. queue' = queue BY <1>7 DEF Boot, PresenceRead
    <2> QED BY <2>1, <1>c
  <1>8. ASSUME UNCHANGED vars PROVE Goal
    <2>1. queue' = queue BY <1>8 DEF vars, realms
    <2> QED BY <2>1, <1>c
  <1>9. ASSUME NEW t \in Realm, Proceed(t) PROVE Goal
    BY <1>1, <1>2, <1>3, <1>4, <1>5, <1>7, <1>9 DEF Proceed
  <1>10. Goal
    <2>1. CASE Next
      <3>1. PICK t \in Realm : \/ Edit(t) \/ Begin(t) \/ Proceed(t) \/ FailRestore(t)
                              \/ Reconcile(t) \/ PresenceRead(t) \/ Reload(t)
        BY <2>1, Zenon DEF Next
      <3>2. CASE Proceed(t) BY <3>2, <1>9
      <3>3. CASE Edit(t) \/ Begin(t) \/ FailRestore(t) BY <3>3, <1>2
      <3>4. CASE Reconcile(t) BY <3>4, <1>4
      <3>5. CASE PresenceRead(t) BY <3>5, <1>7
      <3>6. CASE Reload(t) BY <3>6, <1>6
      <3> QED BY <3>1, <3>2, <3>3, <3>4, <3>5, <3>6
    <2> QED BY <2>1, <1>8
  <1> QED BY <1>10 DEF Goal

\* A generation handed to a recovery never gets an owner again: tokens are
\* only given for generations not reserved before.
LEMMA RecoversTheDeadStep ==
  ASSUME TypeOK, TypeOK', OneOwnerPerLease, LeaseInv, RecoversTheDead, [Next]_vars
  PROVE  RecoversTheDead'
  <1> SUFFICES ASSUME WebLocks, NEW r \in Realm, NEW k \in 1 .. Len(queue'[r]),
                      queue'[r][k].type = "recover"
               PROVE  /\ queue'[r][k].epoch \in Nat
                      /\ queue'[r][k].epoch <= ledger'.restoreEpoch
                      /\ \A t \in Realm : queue'[r][k].epoch \notin leaseOwners'[t]
    BY DEF RecoversTheDead
  <1> DEFINE e == queue'[r][k].epoch
  <1>1. /\ e \in Nat /\ e <= ledger.restoreEpoch
        /\ \A t \in Realm : e \notin leaseOwners[t]
    <2>1. CASE \E j \in 1 .. Len(queue[r]) : queue[r][j] = queue'[r][k]
      BY <2>1 DEF RecoversTheDead
    <2>2. CASE Issued(r, queue'[r][k])
      BY <2>2, LedgerType DEF OwnerLives, Issued
    <2> QED BY <2>1, <2>2, QueueOrigin
  <1> HIDE DEF e
  <1>2. ledger.restoreEpoch \in Nat BY LedgerType
  <1>3. CASE \E s \in Realm : AcquireLease(s)
    <2>1. PICK s \in Realm : AcquireLease(s) BY <1>3
    <2>2. /\ leaseOwners' = At(leaseOwners, s, leaseOwners[s] \cup {NextEpoch})
          /\ ledger'.restoreEpoch = NextEpoch
      <3>1. ledger \in Ledgers BY DEF TypeOK
      <3> QED BY <2>1, <3>1 DEF AcquireLease, Leased, Ledgers
    <2>3. NextEpoch \in Nat /\ e < NextEpoch BY <1>1, <1>2, NextEpochType
    <2>4. \A t \in Realm : e \notin leaseOwners'[t]
      BY <1>1, <2>2, <2>3 DEF At, TypeOK
    <2>5. e <= ledger'.restoreEpoch BY <1>1, <2>2, <2>3
    <2> QED BY <1>1, <2>4, <2>5 DEF e
  <1>4. CASE \A s \in Realm : ~AcquireLease(s)
    <2>1. \A t \in Realm : leaseOwners'[t] \subseteq leaseOwners[t] BY <1>4, LedgerSteady
    <2>2. ledger'.restoreEpoch >= ledger.restoreEpoch /\ ledger'.restoreEpoch \in Nat
      <3>1. /\ Settled(ledger).restoreEpoch = ledger.restoreEpoch
            /\ \A d : Committed(d).restoreEpoch = d
            /\ \A items : Condemned(ledger, items).restoreEpoch = ledger.restoreEpoch
        BY LedgerFields
      <3> QED BY <1>2, <1>4, <3>1, LedgerSteady
    <2>3. e <= ledger'.restoreEpoch BY <1>1, <1>2, <2>2
    <2> QED BY <1>1, <2>1, <2>3 DEF e
  <1> QED BY <1>3, <1>4

\* No step ends a live owner's lease but the owner's own.
LEMMA LiveLeaseStep ==
  ASSUME TypeOK, OneOwnerPerLease, LeaseInv, RecoversTheDead, WebLocks, [Next]_vars,
         ledger.restoreInProgress, OwnerLives, ~ledger'.restoreInProgress
  PROVE  ledger'.activeEpoch = ledger.restoreEpoch \/ ~OwnerLives'
  <1>0. ledger \in Ledgers /\ leaseOwners \in [Realm -> SUBSET Nat] BY DEF TypeOK
  <1>1. PICK r \in Realm : LeaseStep(r) BY DurableSteps
  <1>2. CASE ExecWrite(r) \/ Reload(r) BY <1>2 DEF ExecWrite, Reload, durable
  <1>3. CASE AcquireLease(r) BY <1>3 DEF AcquireLease
  <1>4. CASE AppendTombstones(r)
    BY <1>0, <1>4 DEF AppendTombstones, Condemned, Ledgers
  <1>5. CASE Recover(r)
    <2>1. queue[r] # <<>> /\ Head(queue[r]).type = "recover" /\ queue[r] \in Seq(Requests)
      BY <1>5 DEF Recover, Turn, TypeOK
    <2>2. 1 \in 1 .. Len(queue[r]) /\ Head(queue[r]) = queue[r][1] BY <2>1, EmptySeq
    <2>3. LeaseActive(Head(queue[r]).epoch) BY <1>5, RecoverCases
    <2>4. Head(queue[r]).epoch = ledger.restoreEpoch BY <2>3 DEF LeaseActive
    <2>5. \A t \in Realm : ledger.restoreEpoch \notin leaseOwners[t]
      BY <2>1, <2>2, <2>4 DEF RecoversTheDead
    <2> QED BY <2>5 DEF OwnerLives
  <1>6. CASE CommitDeletion(r) \/ CommitRestore(r)
    <2>1. \A e : Committed(e).activeEpoch = e BY DEF Committed
    <2> QED BY <1>6, <2>1, CommitCases
  <1>7. CASE AbortLease(r)
    <2> DEFINE e == Head(queue[r]).epoch
    <2>1. /\ Turn(r, "abort") /\ leaseOwners' = At(leaseOwners, r, leaseOwners[r] \ {e})
      BY <1>7 DEF AbortLease
    <2>2. ledger' = IF ledger.restoreEpoch = e THEN Settled(ledger) ELSE ledger
      BY <1>7 DEF AbortLease
    <2>3. /\ queue[r] # <<>> /\ Head(queue[r]).type = "abort" /\ queue[r] \in Seq(Requests)
          /\ Orderly(queue[r], op[r])
      BY <2>1 DEF Turn, TypeOK, LeaseInv, QueuesMatch
    <2>4. e = op[r].epoch
      <3>1. Awaited(Head(queue[r]), op[r]) BY <2>3, OrderlyTail DEF Promises
      <3> QED BY <2>3, <3>1 DEF Awaited
    <2> HIDE DEF e
    <2>5. ledger.restoreEpoch = e /\ ledger'.restoreEpoch = e
      <3>1. ledger.restoreEpoch = e BY <2>2
      <3> QED BY <1>0, <2>2, <3>1 DEF Settled, Ledgers
    <2>6. \A t \in Realm : e \notin leaseOwners'[t]
      BY <1>0, <2>1, <2>4 DEF At, LeaseInv, EpochsAreOwn
    <2> QED BY <2>5, <2>6 DEF OwnerLives
  <1> QED BY <1>1, <1>2, <1>3, <1>4, <1>5, <1>6, <1>7 DEF LeaseStep

\* It is inductive with what is proved above.
LEMMA RecoversTheDeadHolds == Spec => []RecoversTheDead
  <1>1. Init => RecoversTheDead
    <2>1. Len(<<>>) = 0 BY EmptySeq
    <2> QED BY <2>1 DEF Init, RecoversTheDead
  <1>2. /\ TypeOK /\ TypeOK' /\ OneOwnerPerLease /\ LeaseInv /\ RecoversTheDead /\ [Next]_vars
          => RecoversTheDead'
    BY RecoversTheDeadStep
  <1> QED BY <1>1, <1>2, TypeCorrect, OneOwner, LeaseInvHolds, PTL DEF Spec

\* With Web Locks a live owner keeps its lease, however long it is frozen: its
\* lease ends by a commit of that lease or by the owner giving up its token.
THEOREM LiveLeaseKept ==
  ASSUME WebLocks PROVE Spec => LiveLeaseIsRespected
  <1>1. /\ TypeOK /\ OneOwnerPerLease /\ LeaseInv /\ RecoversTheDead /\ [Next]_vars
          => [ledger.restoreInProgress /\ OwnerLives /\ ~ledger'.restoreInProgress
                => ledger'.activeEpoch = ledger.restoreEpoch \/ ~OwnerLives']_vars
    BY LiveLeaseStep
  <1> QED BY <1>1, TypeCorrect, OneOwner, LeaseInvHolds, RecoversTheDeadHolds, PTL
          DEF Spec, LiveLeaseIsRespected

-----------------------------------------------------------------------------
(***************************************************************************)
(* The fence implements the exclusive, all-or-nothing dataset of module    *)
(* Dataset.  Two more facts are needed of what waits in the FIFOs: a       *)
(* deletion's commit that can still take effect has something to erase,    *)
(* and a Replace commits a backup the user chose.                          *)
(***************************************************************************)

CommitsAreDoomed ==
    \A r \in Realm : \A k \in 1 .. Len(queue[r]) :
        queue[r][k].type = "commitDeletion" =>
            /\ queue[r][k].epoch \in Nat /\ queue[r][k].epoch <= ledger.restoreEpoch
            /\ LeaseActive(queue[r][k].epoch) => ledger.tombstones # {}

ReplacesCarryBackups ==
    \A r \in Realm : op[r].kind = "restore" => op[r].items \in Backups

CommitsCarryBackups ==
    \A r \in Realm : \A k \in 1 .. Len(queue[r]) :
        queue[r][k].type = "commitRestore" => queue[r][k].items \in Backups

RefinementInv == CommitsAreDoomed /\ ReplacesCarryBackups /\ CommitsCarryBackups

-----------------------------------------------------------------------------
\* A commit queued under a lease keeps something to erase until that lease ends.
LEMMA CommitsAreDoomedStep ==
  ASSUME TypeOK, LeaseInv, CommitsAreDoomed, [Next]_vars
  PROVE  CommitsAreDoomed'
  <1> SUFFICES ASSUME NEW r \in Realm, NEW k \in 1 .. Len(queue'[r]),
                      queue'[r][k].type = "commitDeletion"
               PROVE  /\ queue'[r][k].epoch \in Nat
                      /\ queue'[r][k].epoch <= ledger'.restoreEpoch
                      /\ ledger'.restoreInProgress /\ ledger'.restoreEpoch = queue'[r][k].epoch
                           => ledger'.tombstones # {}
    BY DEF CommitsAreDoomed, LeaseActive
  <1> DEFINE e == queue'[r][k].epoch
  <1>0. ledger \in Ledgers /\ ledger.restoreEpoch \in Nat BY LedgerType DEF TypeOK
  <1>1. \/ \E j \in 1 .. Len(queue[r]) : queue[r][j] = queue'[r][k]
        \/ e = ledger.restoreEpoch /\ ledger.tombstones # {} /\ ledger' = ledger
    BY QueueOrigin DEF Issued
  <1>2. e \in Nat /\ e <= ledger.restoreEpoch /\ (LeaseActive(e) => ledger.tombstones # {})
    BY <1>0, <1>1 DEF CommitsAreDoomed
  <1> HIDE DEF e
  <1> DEFINE Goal == /\ e <= ledger'.restoreEpoch
                     /\ ledger'.restoreInProgress /\ ledger'.restoreEpoch = e
                          => ledger'.tombstones # {}
  <1> SUFFICES Goal BY <1>2 DEF e
  <1>3. CASE \E s \in Realm : AcquireLease(s)
    <2>1. ledger'.restoreEpoch = NextEpoch
      BY <1>0, <1>3 DEF AcquireLease, Leased, Ledgers
    <2>2. NextEpoch \in Nat /\ NextEpoch > ledger.restoreEpoch BY <1>0, NextEpochType, LedgerType
    <2> QED BY <1>0, <1>2, <2>1, <2>2 DEF LeaseActive
  <1>4. CASE ledger' = ledger BY <1>2, <1>4 DEF LeaseActive
  <1>5. CASE ledger' = Settled(ledger)
    BY <1>2, <1>5, LedgerFields DEF LeaseActive
  <1>6. ASSUME NEW d \in Nat, d >= ledger.restoreEpoch, ledger' = Committed(d)
        PROVE  Goal
    <2>1. ledger'.restoreEpoch = d /\ ledger'.restoreInProgress = FALSE BY <1>6, LedgerFields
    <2> QED BY <1>0, <1>2, <1>6, <2>1 DEF LeaseActive
  <1>7. ASSUME NEW items, ledger' = Condemned(ledger, items)
        PROVE  Goal
    <2>1. /\ ledger'.restoreEpoch = ledger.restoreEpoch
          /\ ledger'.restoreInProgress = ledger.restoreInProgress
          /\ ledger'.tombstones = ledger.tombstones \cup items
      BY <1>0, <1>7 DEF Condemned, Ledgers
    <2> QED BY <1>2, <2>1 DEF LeaseActive
  <1> QED BY <1>3, <1>4, <1>5, <1>6, <1>7, LedgerSteady

\* An operation keeps what it was started for.
LEMMA ReplacesCarryBackupsStep ==
  ASSUME TypeOK, ReplacesCarryBackups, [Next]_vars
  PROVE  ReplacesCarryBackups'
  <1>0. op \in [Realm -> Ops] BY DEF TypeOK
  <1>a. ASSUME op' = op PROVE ReplacesCarryBackups' BY <1>a DEF ReplacesCarryBackups
  <1>b. ASSUME NEW r \in Realm, NEW o, op' = At(op, r, o),
               o.kind = "restore" => o.items \in Backups
        PROVE  ReplacesCarryBackups'
    <2>1. op'[r] = o /\ \A t \in Realm \ {r} : op'[t] = op[t] BY <1>0, <1>b, AtFields
    <2> QED BY <1>b, <2>1 DEF ReplacesCarryBackups
  <1>c. ASSUME NEW r \in Realm, NEW step, StepTo(r, step) PROVE ReplacesCarryBackups'
    BY <1>0, <1>c, StepToFields DEF ReplacesCarryBackups
  <1>d. NoOp.kind # "restore" BY DEF NoOp
  <1>1. ASSUME UNCHANGED vars PROVE ReplacesCarryBackups'
    <2>1. op' = op BY <1>1 DEF vars, realms
    <2> QED BY <2>1, <1>a
  <1>2. ASSUME NEW r \in Realm,
               \/ Edit(r) \/ Boot(r) \/ ExecWrite(r) \/ StartRecovery(r) \/ Recover(r)
               \/ HandleNotice(r) \/ Reconcile(r) \/ PresenceRead(r)
        PROVE  ReplacesCarryBackups'
    <2>1. op' = op
      BY <1>2 DEF Edit, AddItem, RemoveItem, Boot, ExecWrite, StartRecovery, Recover, HandleNotice,
         Reconcile, PresenceRead
    <2> QED BY <2>1, <1>a
  <1>3. ASSUME NEW r \in Realm, Begin(r) PROVE ReplacesCarryBackups'
    <2>1. CASE \E i \in Item : StartDelete(r, i)
      <3>1. PICK i \in Item : StartDelete(r, i) BY <2>1
      <3> DEFINE o == [kind |-> "delete", step |-> "acquire", epoch |-> Unset, items |-> {i}]
      <3>2. op' = At(op, r, o) /\ o.kind = "delete" BY <3>1 DEF StartDelete, Start
      <3> HIDE DEF o
      <3> QED BY <3>2, <1>b
    <2>2. CASE \E b \in Backups : StartRestore(r, b)
      <3>1. PICK b \in Backups : StartRestore(r, b) BY <2>2
      <3> DEFINE o == [kind |-> "restore", step |-> "acquire", epoch |-> Unset, items |-> b]
      <3>2. op' = At(op, r, o) /\ o.items = b BY <3>1 DEF StartRestore, Start
      <3> HIDE DEF o
      <3> QED BY <3>2, <1>b
    <2> QED BY <1>3, <2>1, <2>2 DEF Begin
  <1>4. ASSUME NEW r \in Realm, AcquireLease(r) PROVE ReplacesCarryBackups'
    <2> DEFINE o == [op[r] EXCEPT !.step = "leased", !.epoch = NextEpoch]
    <2>1. op' = At(op, r, o) BY <1>4 DEF AcquireLease
    <2>2. o.kind = op[r].kind /\ o.items = op[r].items BY <1>0 DEF Ops
    <2> HIDE DEF o
    <2> QED BY <2>1, <2>2, <1>b DEF ReplacesCarryBackups
  <1>5. ASSUME NEW r \in Realm,
               \/ AbortLease(r) \/ Reload(r) \/ CommitDeletion(r) \/ PurgeAndPersist(r)
               \/ FindLeaseBusy(r) \/ AppendTombstones(r) \/ CommitRestore(r)
               \/ RetryAcquire(r) \/ ReloadForDelete(r) \/ IssueRestoreCommit(r) \/ FailRestore(r)
        PROVE  ReplacesCarryBackups'
    <2>1. op' = op \/ op' = At(op, r, NoOp) \/ \E step : StepTo(r, step)
      <3>1. CASE AbortLease(r) \/ Reload(r) \/ CommitDeletion(r) \/ PurgeAndPersist(r)
        BY <3>1 DEF AbortLease, Reload, CommitDeletion, PurgeAndPersist
      <3>2. CASE FindLeaseBusy(r) \/ AppendTombstones(r) \/ CommitRestore(r) \/ RetryAcquire(r)
        BY <3>2 DEF FindLeaseBusy, AppendTombstones, CommitRestore, RetryAcquire
      <3>3. CASE ReloadForDelete(r) \/ IssueRestoreCommit(r) \/ FailRestore(r)
        BY <3>3 DEF ReloadForDelete, IssueRestoreCommit, FailRestore
      <3> QED BY <1>5, <3>1, <3>2, <3>3
    <2> QED BY <2>1, <1>a, <1>b, <1>c, <1>d
  <1>6. ASSUME NEW r \in Realm, Proceed(r) PROVE ReplacesCarryBackups'
    BY <1>2, <1>4, <1>5, <1>6 DEF Proceed
  <1>7. CASE Next
    <2>1. PICK r \in Realm : \/ Edit(r) \/ Begin(r) \/ Proceed(r) \/ FailRestore(r)
                             \/ Reconcile(r) \/ PresenceRead(r) \/ Reload(r)
      BY <1>7, Zenon DEF Next
    <2>2. CASE Begin(r) BY <2>2, <1>3
    <2>3. CASE Proceed(r) BY <2>3, <1>6
    <2>4. CASE FailRestore(r) \/ Reload(r) BY <2>4, <1>5
    <2>5. CASE Edit(r) \/ Reconcile(r) \/ PresenceRead(r) BY <2>5, <1>2
    <2> QED BY <2>1, <2>2, <2>3, <2>4, <2>5
  <1> QED BY <1>1, <1>7

\* What the FIFOs hold is doomed or chosen, throughout.
LEMMA RefinementInvHolds == Spec => []RefinementInv
  <1>1. Init => RefinementInv
    <2>1. Len(<<>>) = 0 BY EmptySeq
    <2> QED BY <2>1 DEF Init, RefinementInv, CommitsAreDoomed, ReplacesCarryBackups,
                        CommitsCarryBackups, NoOp
  <1>2. TypeOK /\ LeaseInv /\ RefinementInv /\ [Next]_vars => RefinementInv'
    <2> SUFFICES ASSUME TypeOK, LeaseInv, RefinementInv, [Next]_vars PROVE RefinementInv'
      OBVIOUS
    <2>1. CommitsAreDoomed' BY CommitsAreDoomedStep DEF RefinementInv
    <2>2. ReplacesCarryBackups' BY ReplacesCarryBackupsStep DEF RefinementInv
    <2>3. ASSUME NEW r \in Realm, NEW k \in 1 .. Len(queue'[r]),
                 queue'[r][k].type = "commitRestore"
          PROVE  queue'[r][k].items \in Backups
      <3>1. CASE \E j \in 1 .. Len(queue[r]) : queue[r][j] = queue'[r][k]
        BY <2>3, <3>1 DEF RefinementInv, CommitsCarryBackups
      <3>2. CASE Issued(r, queue'[r][k])
        BY <2>3, <3>2 DEF Issued, RefinementInv, ReplacesCarryBackups
      <3> QED BY <3>1, <3>2, QueueOrigin
    <2> QED BY <2>1, <2>2, <2>3 DEF RefinementInv, CommitsCarryBackups
  <1> QED BY <1>1, <1>2, TypeCorrect, LeaseInvHolds, PTL DEF Spec

-----------------------------------------------------------------------------
(***************************************************************************)
(* The step mapping. The readable content is the row's: the row always     *)
(* belongs to the active generation.                                       *)
(***************************************************************************)
LEMMA HeadOf ==
  ASSUME TypeOK, NEW r \in Realm, NEW type, Turn(r, type)
  PROVE  /\ 1 \in 1 .. Len(queue[r]) /\ Head(queue[r]) = queue[r][1]
         /\ Head(queue[r]).type = type /\ queue[r] # <<>> /\ queue[r] \in Seq(Requests)
  <1>1. queue[r] # <<>> /\ Head(queue[r]).type = type /\ queue[r] \in Seq(Requests)
    BY DEF TypeOK, Turn
  <1> QED BY <1>1, EmptySeq

\* Every step is one of Dataset or none.
LEMMA DatasetStep ==
  ASSUME TypeOK, TypeOK', DatasetIsReadable, DatasetIsReadable', LeaseInv, RefinementInv,
         [Next]_vars
  PROVE  [D!DatasetNext]_(D!dvars)
  <1>0. Active = row.items /\ Active' = row'.items BY DEF Active, DatasetIsReadable
  <1>t. /\ ledger \in Ledgers /\ ledger' \in Ledgers
        /\ row.items \in SUBSET Item /\ row'.items \in SUBSET Item
    BY DEF TypeOK
  <1>n. NextEpoch \in Nat /\ NextEpoch > ledger.activeEpoch BY LedgerType, NextEpochType
  <1>f. \A e : /\ Committed(e).activeEpoch = e /\ Committed(e).restoreInProgress = FALSE
               /\ Committed(e).tombstones = {}
    BY DEF Committed
  <1>s. \A gone : Sanitize(row.items, gone) = D!Without(row.items, gone)
    BY DEF Sanitize, D!Without
  <1>a. ASSUME ledger' = ledger, row' = row PROVE UNCHANGED D!dvars
    BY <1>0, <1>a DEF D!dvars
  <1>g. ASSUME ledger.restoreInProgress, ledger.tombstones = {},
               ledger' = Settled(ledger), row' = row
        PROVE  D!GiveUp
    BY <1>0, <1>t, <1>g DEF Settled, Ledgers, D!GiveUp, D!End
  <1>e. ASSUME NEW e \in Nat, e > ledger.activeEpoch, ledger.restoreInProgress,
               ledger.tombstones # {}, ledger' = Committed(e),
               row'.items = Sanitize(row.items, ledger.tombstones)
        PROVE  D!Erase
    BY <1>0, <1>e, <1>f, <1>s DEF D!Erase, D!End
  <1>d. ledger.tombstones # {} => ledger.revive = {} BY DEF LeaseInv, DoomedByDeletion
  <1>1. ASSUME NEW r \in Realm, ExecWrite(r) PROVE D!Save \/ UNCHANGED D!dvars
    <2>1. ledger' = ledger /\ (row' = row \/ ~ledger.restoreInProgress)
      BY <1>1 DEF ExecWrite, FenceAccepts
    <2> QED BY <1>0, <1>t, <1>a, <2>1 DEF D!Save
  <1>2. ASSUME NEW r \in Realm, AcquireLease(r) PROVE D!Reserve
    <2> DEFINE revive == IF op[r].kind = "restore" THEN op[r].items ELSE {}
    <2>1. ~ledger.restoreInProgress /\ ledger' = Leased(ledger, NextEpoch, revive) /\ row' = row
      BY <1>2 DEF AcquireLease
    <2> HIDE DEF revive
    <2> QED BY <1>0, <1>t, <2>1 DEF Leased, Ledgers, D!Reserve
  <1>3. ASSUME NEW r \in Realm, AppendTombstones(r) PROVE D!Doom \/ UNCHANGED D!dvars
    <2>1. /\ row' = row
          /\ \/ ledger' = ledger
             \/ ledger.restoreInProgress /\ \E items : ledger' = Condemned(ledger, items)
      BY <1>3 DEF AppendTombstones, LeaseActive
    <2>2. ASSUME NEW items, ledger.restoreInProgress, ledger' = Condemned(ledger, items)
          PROVE  D!Doom
      <3>1. ledger'.tombstones \in SUBSET Item BY <1>t DEF Ledgers
      <3> QED BY <1>0, <1>t, <2>1, <2>2, <3>1 DEF Condemned, Ledgers, D!Doom
    <2> QED BY <1>a, <2>1, <2>2
  <1>4. ASSUME NEW r \in Realm, Recover(r) PROVE D!Erase \/ D!GiveUp \/ UNCHANGED D!dvars
    <2>1. CASE UNCHANGED <<ledger, row>> BY <1>a, <2>1
    <2>2. CASE ledger.restoreInProgress /\ ~HoldsPendingDeletion
               /\ ledger' = Settled(ledger) /\ row' = row
      BY <1>d, <1>g, <2>2 DEF HoldsPendingDeletion
    <2>3. CASE ledger.restoreInProgress /\ HoldsPendingDeletion
               /\ ledger' = Committed(NextEpoch)
               /\ row' = IF row.epoch = ledger.activeEpoch
                           THEN [epoch |-> NextEpoch, items |-> Readable] ELSE row
      <3>1. row'.items = Sanitize(row.items, ledger.tombstones)
        BY <1>0, <2>3 DEF DatasetIsReadable, Readable
      <3> QED BY <1>e, <1>n, <2>3, <3>1 DEF HoldsPendingDeletion
    <2> QED BY <1>4, <2>1, <2>2, <2>3, RecoverCases
  <1>c. ASSUME ledger.restoreInProgress
        PROVE  ledger.restoreEpoch \in Nat /\ ledger.restoreEpoch > ledger.activeEpoch
    BY <1>c, <1>t DEF DatasetIsReadable, Ledgers
  <1>5. ASSUME NEW r \in Realm, CommitDeletion(r) PROVE D!Erase \/ UNCHANGED D!dvars
    <2> DEFINE e == Head(queue[r]).epoch
    <2>1. Turn(r, "commitDeletion") BY <1>5 DEF CommitDeletion
    <2>2. CASE ~LeaseActive(e) BY <1>5, <1>a, <2>2 DEF CommitDeletion, durable
    <2>3. CASE LeaseActive(e)
      <3>1. /\ row' = [epoch |-> e,
                       items |-> Sanitize(row.items, ledger.tombstones \ ledger.revive)]
            /\ ledger' = Committed(e)
        BY <1>5, <2>3 DEF CommitDeletion
      <3>2. ledger.restoreInProgress /\ e = ledger.restoreEpoch BY <2>3 DEF LeaseActive
      <3>3. ledger.tombstones # {}
        BY <2>1, <2>3, HeadOf DEF RefinementInv, CommitsAreDoomed
      <3>4. ledger.tombstones \ ledger.revive = ledger.tombstones BY <1>d, <3>3
      <3> HIDE DEF e
      <3>5. row'.items = Sanitize(row.items, ledger.tombstones) BY <3>1, <3>4
      <3> QED BY <1>c, <1>e, <3>1, <3>2, <3>3, <3>5
    <2> QED BY <2>2, <2>3
  <1>6. ASSUME NEW r \in Realm, CommitRestore(r) PROVE D!Replace \/ UNCHANGED D!dvars
    <2> DEFINE e == Head(queue[r]).epoch
               backup == Head(queue[r]).items
    <2>1. Turn(r, "commitRestore") BY <1>6 DEF CommitRestore
    <2>2. CASE ~LeaseActive(e) BY <1>6, <1>a, <2>2 DEF CommitRestore, durable
    <2>3. CASE LeaseActive(e)
      <3>1. /\ row' = [epoch |-> e,
                       items |-> Sanitize(backup, ledger.tombstones \ ledger.revive)]
            /\ ledger' = Committed(e)
        BY <1>6, <2>3 DEF CommitRestore
      <3>2. ledger.restoreInProgress /\ e = ledger.restoreEpoch BY <2>3 DEF LeaseActive
      <3>3. op[r].kind = "restore" /\ op[r].epoch = e
        <4>1. Orderly(queue[r], op[r]) BY DEF LeaseInv, QueuesMatch
        <4>2. Awaited(Head(queue[r]), op[r]) BY <2>1, <4>1, HeadOf, OrderlyTail DEF Promises
        <4> QED BY <2>1, <4>2, HeadOf DEF Awaited
      <3>4. ledger.tombstones = {} BY <3>2, <3>3 DEF LeaseInv, DoomedByDeletion
      <3>5. backup \in Backups BY <2>1, HeadOf DEF RefinementInv, CommitsCarryBackups
      <3> HIDE DEF e, backup
      <3>6. Sanitize(backup, ledger.tombstones \ ledger.revive) = backup BY <3>4 DEF Sanitize
      <3>7. row'.items = backup BY <3>1, <3>6
      <3> QED BY <1>0, <1>c, <1>f, <3>1, <3>2, <3>4, <3>5, <3>7 DEF D!Replace, D!End
    <2> QED BY <2>2, <2>3
  <1>7. ASSUME NEW r \in Realm, AbortLease(r) PROVE D!GiveUp \/ UNCHANGED D!dvars
    <2> DEFINE e == Head(queue[r]).epoch
    <2>1. /\ Turn(r, "abort") /\ row' = row
          /\ ledger' = IF ledger.restoreEpoch = e THEN Settled(ledger) ELSE ledger
      BY <1>7 DEF AbortLease
    <2>2. op[r].epoch = e /\ op[r].step = "abort"
      <3>1. Orderly(queue[r], op[r]) BY DEF LeaseInv, QueuesMatch
      <3>2. Awaited(Head(queue[r]), op[r]) BY <2>1, <3>1, HeadOf, OrderlyTail DEF Promises
      <3> QED BY <2>1, <3>2, HeadOf DEF Awaited
    <2> HIDE DEF e
    <2>3. CASE ledger.restoreEpoch # e BY <1>a, <2>1, <2>3
    <2>4. CASE ledger.restoreEpoch = e /\ ledger.restoreInProgress
      <3>1. ledger.tombstones = {} BY <2>2, <2>4 DEF LeaseInv, DoomedByDeletion
      <3> QED BY <1>g, <2>1, <2>4, <3>1
    <2>5. CASE ledger.restoreEpoch = e /\ ~ledger.restoreInProgress
      <3>1. ledger' = ledger
        BY <1>t, <2>1, <2>5 DEF Settled, Ledgers, LeaseInv, RevivedByReplace
      <3> QED BY <1>a, <2>1, <3>1
    <2> QED BY <2>3, <2>4, <2>5
  <1>8. ASSUME NEW r \in Realm, Reload(r) PROVE UNCHANGED D!dvars
    BY <1>8, <1>a DEF Reload, durable
  <1>9. CASE UNCHANGED <<ledger, row, leaseOwners>> BY <1>a, <1>9
  <1>10. ASSUME NEW r \in Realm, LeaseStep(r) PROVE [D!DatasetNext]_(D!dvars)
    BY <1>1, <1>2, <1>3, <1>4, <1>5, <1>6, <1>7, <1>8, <1>10 DEF LeaseStep, D!DatasetNext
  <1> QED BY <1>9, <1>10, DurableSteps

\* Whatever the tabs, crashes, recoveries and helpers do, the dataset has one
\* destructive operation at a time, frozen content while it runs, and an end
\* that erases exactly what was recorded, installs exactly one backup, or
\* changes nothing.
THEOREM Refines == Spec => ImplementsDataset
  <1>1. Init => D!DatasetInit BY DEF Init, Active, D!DatasetInit
  <1>2. TypeOK /\ TypeOK' /\ DatasetIsReadable /\ DatasetIsReadable' /\ LeaseInv
          /\ RefinementInv /\ [Next]_vars => [D!DatasetNext]_(D!dvars)
    BY DatasetStep
  <1> QED BY <1>1, <1>2, TypeCorrect, DatasetStaysReadable, LeaseInvHolds, RefinementInvHolds, PTL
          DEF Spec, ImplementsDataset, D!DatasetSpec

-----------------------------------------------------------------------------
(***************************************************************************)
(* Resurrection and loss. A step is one tab's; the others keep what they   *)
(* have, and only the shared state moves under them.                       *)
(***************************************************************************)
TabStep(r) == Edit(r) \/ Begin(r) \/ Proceed(r) \/ FailRestore(r) \/ Reconcile(r)
              \/ PresenceRead(r) \/ Reload(r)

Tab(t) == <<leaseOwners[t], booted[t], hydrated[t], leaseHydrated[t], base[t], memory[t],
            queue[t], op[t]>>

\* Every step is a tab's or none.
LEMMA StepOfTab ==
  ASSUME [Next]_vars
  PROVE  UNCHANGED vars \/ \E r \in Realm : TabStep(r)
  BY Zenon DEF Next, TabStep

\* A tab's step is no other's.
LEMMA OthersKeep ==
  ASSUME TypeOK, NEW r \in Realm, TabStep(r), NEW t \in Realm \ {r}
  PROVE  Tab(t)' = Tab(t)
  <1>0. /\ leaseOwners \in [Realm -> SUBSET Nat] /\ booted \in [Realm -> BOOLEAN]
        /\ hydrated \in [Realm -> Nat \cup {Unset}]
        /\ leaseHydrated \in [Realm -> Nat \cup {Unset}]
        /\ base \in [Realm -> SUBSET Item] /\ memory \in [Realm -> SUBSET Item]
        /\ queue \in [Realm -> Seq(Requests)] /\ op \in [Realm -> Ops]
    BY DEF TypeOK
  <1> SUFFICES /\ leaseOwners'[t] = leaseOwners[t] /\ booted'[t] = booted[t]
               /\ hydrated'[t] = hydrated[t] /\ leaseHydrated'[t] = leaseHydrated[t]
               /\ base'[t] = base[t] /\ memory'[t] = memory[t]
               /\ queue'[t] = queue[t] /\ op'[t] = op[t]
    BY DEF Tab
  <1>1. CASE Edit(r)
    BY <1>0, <1>1 DEF Edit, AddItem, RemoveItem, Enqueue, At
  <1>2. CASE Begin(r)
    BY <1>0, <1>2 DEF Begin, StartDelete, StartRestore, Start, Enqueue, At
  <1>3. CASE Boot(r) \/ ExecWrite(r) \/ PresenceRead(r)
    BY <1>0, <1>3 DEF Boot, ExecWrite, PresenceRead, HydrationEffects, Dequeue, At
  <1>4. CASE AcquireLease(r) \/ FindLeaseBusy(r) \/ RetryAcquire(r)
    BY <1>0, <1>4 DEF AcquireLease, FindLeaseBusy, RetryAcquire, StepTo, Enqueue, Dequeue, At
  <1>5. CASE StartRecovery(r) \/ Recover(r)
    BY <1>0, <1>5 DEF StartRecovery, Recover, Enqueue, Dequeue, At
  <1>6. CASE ReloadForDelete(r)
    BY <1>0, <1>6 DEF ReloadForDelete, HydrationEffects, StepTo, Enqueue, At
  <1>7. CASE AppendTombstones(r) \/ PurgeAndPersist(r)
    BY <1>0, <1>7 DEF AppendTombstones, PurgeAndPersist, StepTo, Enqueue, Dequeue, DequeueThen, At
  <1>8. CASE CommitDeletion(r)
    BY <1>0, <1>8 DEF CommitDeletion, Dequeue, At
  <1>9. CASE IssueRestoreCommit(r) \/ FailRestore(r)
    BY <1>0, <1>9 DEF IssueRestoreCommit, FailRestore, StepTo, Enqueue, At
  <1>10. CASE CommitRestore(r)
    BY <1>0, <1>10 DEF CommitRestore, StepTo, Dequeue, DequeueThen, At
  <1>11. CASE AbortLease(r)
    BY <1>0, <1>11 DEF AbortLease, Dequeue, At
  <1>12. CASE HandleNotice(r) \/ Reconcile(r)
    BY <1>0, <1>12 DEF HandleNotice, Reconcile, HydrationEffects, NoHydration, Enqueue, At
  <1>13. CASE Reload(r)
    BY <1>0, <1>13 DEF Reload, At
  <1> QED
    BY <1>1, <1>2, <1>3, <1>4, <1>5, <1>6, <1>7, <1>8, <1>9, <1>10, <1>11, <1>12, <1>13
    DEF TabStep, Proceed

\* Steps that end no generation take nothing back: what was erased, removed or
\* condemned stays so.
LEMMA SharedStep ==
  ASSUME TypeOK, DatasetIsReadable, [Next]_vars
  PROVE  /\ ledger.activeEpoch \in Nat /\ ledger'.activeEpoch \in Nat
         /\ created \subseteq created'
         /\ ledger'.activeEpoch >= ledger.activeEpoch
         /\ ledger'.activeEpoch = ledger.activeEpoch =>
              /\ erased' = erased /\ removed \subseteq removed'
              /\ ledger.tombstones \subseteq ledger'.tombstones
  <1> DEFINE Kept == /\ ledger'.activeEpoch = ledger.activeEpoch
                     /\ created \subseteq created'
                     /\ erased' = erased /\ removed \subseteq removed'
                     /\ ledger.tombstones \subseteq ledger'.tombstones
             Moved == /\ ledger'.activeEpoch \in Nat
                      /\ ledger'.activeEpoch > ledger.activeEpoch
                      /\ created \subseteq created'
  <1>0. ledger \in Ledgers /\ ledger.activeEpoch \in Nat BY LedgerType DEF TypeOK
  <1> SUFFICES Kept \/ Moved BY <1>0
  <1>f. /\ \A e, items : /\ Leased(ledger, e, items).activeEpoch = ledger.activeEpoch
                         /\ Leased(ledger, e, items).tombstones = ledger.tombstones
                         /\ Condemned(ledger, items).activeEpoch = ledger.activeEpoch
                         /\ Condemned(ledger, items).tombstones = ledger.tombstones \cup items
                         /\ Committed(e).activeEpoch = e
        /\ Settled(ledger).activeEpoch = ledger.activeEpoch
        /\ Settled(ledger).tombstones = ledger.tombstones
    BY <1>0 DEF Leased, Condemned, Committed, Settled, Ledgers
  <1>u. ASSUME UNCHANGED <<ledger, erased>>, created \subseteq created', removed \subseteq removed'
        PROVE  Kept
    BY <1>u
  <1>1. CASE UNCHANGED vars BY <1>u, <1>1 DEF vars, durable, history
  <1>2. ASSUME NEW r \in Realm, TabStep(r) PROVE Kept \/ Moved
    <2>1. CASE Edit(r) BY <1>u, <2>1 DEF Edit, AddItem, RemoveItem, durable
    <2>2. CASE Begin(r) BY <1>u, <2>2 DEF Begin, StartDelete, StartRestore, Start, durable
    <2>3. CASE Boot(r) \/ PresenceRead(r) \/ ExecWrite(r)
      BY <1>u, <2>3 DEF Boot, ExecWrite, PresenceRead, durable, history
    <2>4. CASE AcquireLease(r)
      BY <1>f, <2>4 DEF AcquireLease, history
    <2>5. CASE FindLeaseBusy(r) \/ RetryAcquire(r) \/ StartRecovery(r)
      BY <1>u, <2>5 DEF FindLeaseBusy, RetryAcquire, StartRecovery, durable, history
    <2>6. CASE Recover(r)
      <3>1. UNCHANGED <<created, removed>> BY <2>6 DEF Recover
      <3>2. CASE ~(LeaseActive(Head(queue[r]).epoch) /\ HoldsPendingDeletion)
        BY <1>f, <2>6, <3>1, <3>2 DEF Recover, durable
      <3>3. CASE LeaseActive(Head(queue[r]).epoch) /\ HoldsPendingDeletion
        <4>1. ledger' = Committed(NextEpoch) BY <2>6, <3>3 DEF Recover
        <4> QED BY <1>f, <3>1, <4>1, NextEpochType
      <3> QED BY <3>2, <3>3
    <2>7. CASE ReloadForDelete(r) \/ PurgeAndPersist(r) \/ IssueRestoreCommit(r) \/ FailRestore(r)
      BY <1>u, <2>7 DEF ReloadForDelete, PurgeAndPersist, IssueRestoreCommit, FailRestore, durable, history
    <2>8. CASE AppendTombstones(r)
      BY <1>f, <2>8 DEF AppendTombstones, history
    <2>9. CASE CommitDeletion(r) \/ CommitRestore(r)
      <3>1. created \subseteq created' BY <2>9 DEF CommitDeletion, CommitRestore
      <3>2. CASE ~LeaseActive(Head(queue[r]).epoch)
        BY <1>u, <2>9, <3>2 DEF CommitDeletion, CommitRestore, durable
      <3>3. CASE LeaseActive(Head(queue[r]).epoch)
        <4>1. ledger' = Committed(ledger.restoreEpoch) /\ ledger.restoreInProgress
          BY <2>9, <3>3 DEF CommitDeletion, CommitRestore, LeaseActive
        <4> QED BY <1>f, <3>1, <4>1, LedgerType DEF DatasetIsReadable
      <3> QED BY <3>2, <3>3
    <2>10. CASE AbortLease(r)
      BY <1>f, <2>10 DEF AbortLease, history
    <2>11. CASE HandleNotice(r) \/ Reconcile(r) \/ Reload(r)
      BY <1>u, <2>11 DEF HandleNotice, Reconcile, Reload, durable, history
    <2> QED BY <1>2, <2>1, <2>2, <2>3, <2>4, <2>5, <2>6, <2>7, <2>8, <2>9, <2>10, <2>11
            DEF TabStep, Proceed
  <1> QED BY <1>1, <1>2, StepOfTab

-----------------------------------------------------------------------------
(***************************************************************************)
(* What tabs hold has existed, and no tab is ahead of the dataset.         *)
(***************************************************************************)
\* Nothing is erased, condemned, saved, shown or queued that never existed.
KnownItems ==
    /\ erased \subseteq created /\ ledger.tombstones \subseteq created
    /\ row.items \subseteq created
    /\ \A r \in Realm : memory[r] \subseteq created
    /\ \A r \in Realm : op[r].kind = "delete" => op[r].items \subseteq created
    /\ \A r \in Realm : \A k \in 1 .. Len(queue[r]) :
         queue[r][k].type \in {"write", "append"} => queue[r][k].items \subseteq created

\* No tab is hydrated at a generation beyond the active one.
NotAhead ==
    /\ \A r \in Realm : hydrated[r] <= ledger.activeEpoch /\ leaseHydrated[r] <= ledger.activeEpoch
    /\ \A r \in Realm : \A k \in 1 .. Len(queue[r]) :
         queue[r][k].hydratedEpoch <= ledger.activeEpoch

\* A page that is not there runs nothing and saves nothing.
ClosedTabsRest ==
    \A r \in Realm : ~booted[r] =>
        op[r] = NoOp /\ \A k \in 1 .. Len(queue[r]) : queue[r][k].type = "recover"

\* What a tab puts into its queue.
Issues(r, x) ==
    /\ x.hydratedEpoch \in {Unset, hydrated'[r]}
    /\ x.type \in {"write", "commitDeletion"} => x.items = memory'[r]
    /\ x.type = "append" => op[r].kind = "delete" /\ x.items = op[r].items
    /\ x.type = "recover" \/ booted'[r]

\* What waits in a FIFO was there or its tab has just asked for it.
LEMMA QueueSource ==
  ASSUME TypeOK, ClosedTabsRest, [Next]_vars, NEW r \in Realm, NEW k \in 1 .. Len(queue'[r])
  PROVE  \/ \E j \in 1 .. Len(queue[r]) : queue[r][j] = queue'[r][k]
         \/ Issues(r, queue'[r][k])
  <1> DEFINE Goal == \/ \E j \in 1 .. Len(queue[r]) : queue[r][j] = queue'[r][k]
                     \/ Issues(r, queue'[r][k])
  <1>0. /\ queue \in [Realm -> Seq(Requests)] /\ op \in [Realm -> Ops]
        /\ booted \in [Realm -> BOOLEAN]
    BY DEF TypeOK
  <1>a. ASSUME NEW t \in Realm, NEW x, Issues(t, x),
               Enqueue(t, x) \/ (queue[t] # <<>> /\ DequeueThen(t, x))
        PROVE  Goal
    <2>1. \/ \E j \in 1 .. Len(queue[r]) : queue[r][j] = queue'[r][k]
          \/ t = r /\ queue'[r][k] = x
      BY <1>0, <1>a, EntryJoined
    <2> QED BY <1>a, <2>1
  <1>b. ASSUME NEW t \in Realm,
               (queue[t] # <<>> /\ Dequeue(t)) \/ queue' = [queue EXCEPT ![t] = <<>>]
        PROVE  Goal
    <2>1. \E j \in 1 .. Len(queue[r]) : queue[r][j] = queue'[r][k] BY <1>0, <1>b, EntryKept
    <2> QED BY <2>1
  <1>c. ASSUME queue' = queue PROVE Goal
    <2>1. k \in 1 .. Len(queue[r]) /\ queue[r][k] = queue'[r][k] BY <1>c
    <2> QED BY <2>1
  <1> HIDE DEF Goal
  <1>d. \A t \in Realm : op[t].kind # "none" \/ op[t].step # "idle" => booted[t]
    BY DEF ClosedTabsRest, NoOp
  <1>q. \A t \in Realm : \A type : Turn(t, type) /\ type # "recover" => booted[t]
    BY HeadOf DEF ClosedTabsRest
  <1>1. ASSUME NEW t \in Realm, StartRecovery(t) PROVE Goal
    <2>1. Issues(t, Request("recover", ledger.restoreEpoch, {}))
      BY DEF Issues, Request, WriteUnder, PersistRequest
    <2> QED BY <1>1, <2>1, <1>a DEF StartRecovery
  <1>2. ASSUME NEW t \in Realm, Edit(t) PROVE Goal
    <2>1. PICK items : /\ Enqueue(t, WriteUnder(t, items, hydrated[t], leaseHydrated[t]))
                       /\ memory' = At(memory, t, items) /\ booted[t]
                       /\ booted' = booted /\ hydrated' = hydrated
      BY <1>2 DEF Edit, AddItem, RemoveItem, WriteOf, CanEdit
    <2>2. memory'[t] = items BY <2>1 DEF At, TypeOK
    <2>3. Issues(t, WriteUnder(t, items, hydrated[t], leaseHydrated[t]))
      BY <2>1, <2>2 DEF Issues, Request, WriteUnder, PersistRequest
    <2> QED BY <2>1, <2>3, <1>a
  <1>3. ASSUME NEW t \in Realm, Begin(t) \/ RetryAcquire(t) PROVE Goal
    <2>1. Enqueue(t, Request("acquire", Unset, {})) /\ booted[t] /\ booted' = booted
      BY <1>3, <1>d DEF Begin, StartDelete, StartRestore, Start, RetryAcquire
    <2>2. Issues(t, Request("acquire", Unset, {})) BY <2>1 DEF Issues, Request, WriteUnder, PersistRequest
    <2> QED BY <2>1, <2>2, <1>a
  <1>4. ASSUME NEW t \in Realm, ReloadForDelete(t) PROVE Goal
    <2>1. PICK next \in {"append", "abort"} :
            /\ Enqueue(t, Request(next, op[t].epoch, op[t].items))
            /\ op[t].kind = "delete" /\ booted[t] /\ booted' = booted
      BY <1>4, <1>d DEF ReloadForDelete
    <2>2. Issues(t, Request(next, op[t].epoch, op[t].items)) BY <2>1 DEF Issues, Request, WriteUnder, PersistRequest
    <2> QED BY <2>1, <2>2, <1>a
  <1>5. ASSUME NEW t \in Realm, IssueRestoreCommit(t) \/ FailRestore(t) PROVE Goal
    <2>1. PICK type, items :
            /\ type \in {"commitRestore", "abort"} /\ Enqueue(t, Request(type, op[t].epoch, items))
            /\ booted[t] /\ booted' = booted
      BY <1>5, <1>d DEF IssueRestoreCommit, FailRestore
    <2>2. Issues(t, Request(type, op[t].epoch, items))
      BY <2>1 DEF Issues, Request, WriteUnder, PersistRequest
    <2> QED BY <2>1, <2>2, <1>a
  <1>6. ASSUME NEW t \in Realm, PurgeAndPersist(t) \/ HandleNotice(t) \/ Reconcile(t) PROVE Goal
    <2>1. /\ booted[t] /\ booted' = booted
          /\ \/ queue' = queue
             \/ \E lh : Enqueue(t, PersistRequest(t, memory'[t], hydrated'[t], lh))
      BY <1>6, <1>d DEF PurgeAndPersist, HandleNotice, Reconcile, NoHydration
    <2>2. \A lh : Issues(t, PersistRequest(t, memory'[t], hydrated'[t], lh))
      BY <2>1 DEF Issues, Request, WriteUnder, PersistRequest
    <2> QED BY <2>1, <2>2, <1>a, <1>c
  <1>7. ASSUME NEW t \in Realm,
               \/ ExecWrite(t) \/ AcquireLease(t) \/ FindLeaseBusy(t) \/ Recover(t)
               \/ CommitDeletion(t) \/ AbortLease(t) \/ AppendTombstones(t) \/ CommitRestore(t)
        PROVE  Goal
    <2>1. /\ queue[t] # <<>>
          /\ \/ Dequeue(t)
             \/ booted[t] /\ booted' = booted
                /\ \E e, items : DequeueThen(t, Request("abort", e, items))
      BY <1>7, <1>q DEF ExecWrite, AcquireLease, FindLeaseBusy, Recover, CommitDeletion, AbortLease,
         AppendTombstones, CommitRestore, Turn
    <2>2. \A e, items : booted'[t] => Issues(t, Request("abort", e, items))
      BY DEF Issues, Request, WriteUnder, PersistRequest
    <2> QED BY <2>1, <2>2, <1>a, <1>b
  <1>8. ASSUME NEW t \in Realm, Reload(t) PROVE Goal
    <2>1. queue' = [queue EXCEPT ![t] = <<>>] BY <1>8 DEF Reload, At
    <2> QED BY <2>1, <1>b
  <1>9. ASSUME NEW t \in Realm, Boot(t) \/ PresenceRead(t) PROVE Goal
    <2>1. queue' = queue BY <1>9 DEF Boot, PresenceRead
    <2> QED BY <2>1, <1>c
  <1>10. ASSUME UNCHANGED vars PROVE Goal
    <2>1. queue' = queue BY <1>10 DEF vars, realms
    <2> QED BY <2>1, <1>c
  <1>11. ASSUME NEW t \in Realm, TabStep(t) PROVE Goal
    BY <1>1, <1>2, <1>3, <1>4, <1>5, <1>6, <1>7, <1>8, <1>9, <1>11 DEF TabStep, Proceed
  <1> QED BY <1>10, <1>11, StepOfTab DEF Goal

\* A closed page comes back through Boot.
LEMMA ClosedTabsRestStep ==
  ASSUME TypeOK, ClosedTabsRest, [Next]_vars
  PROVE  ClosedTabsRest'
  <1> SUFFICES ASSUME NEW r \in Realm, ~booted'[r]
               PROVE  /\ op'[r] = NoOp
                      /\ \A k \in 1 .. Len(queue'[r]) : queue'[r][k].type = "recover"
    BY DEF ClosedTabsRest
  <1>0. /\ booted \in [Realm -> BOOLEAN] /\ op \in [Realm -> Ops]
        /\ queue \in [Realm -> Seq(Requests)]
    BY DEF TypeOK
  <1>1. CASE UNCHANGED vars BY <1>1 DEF vars, realms, ClosedTabsRest
  <1>2. ASSUME NEW s \in Realm \ {r}, TabStep(s)
        PROVE  op'[r] = NoOp /\ \A k \in 1 .. Len(queue'[r]) : queue'[r][k].type = "recover"
    <2>1. Tab(r)' = Tab(r) BY <1>2, OthersKeep
    <2> QED BY <2>1 DEF Tab, ClosedTabsRest
  <1>3. CASE Reload(r)
    <2>1. queue'[r] = <<>> /\ op'[r] = NoOp BY <1>0, <1>3 DEF Reload, At
    <2>2. Len(<<>>) = 0 BY EmptySeq
    <2> QED BY <2>1, <2>2
  <1>4. CASE TabStep(r) /\ ~Reload(r)
    <2>1. CASE Boot(r)
      <3>1. booted'[r] = TRUE BY <1>0, <2>1 DEF Boot, At
      <3> QED BY <3>1
    <2>2. CASE ~Boot(r)
      <3>1. booted' = booted
        BY <1>4, <2>2 DEF TabStep, Proceed, Edit, AddItem, RemoveItem, Begin, StartDelete, StartRestore,
           Start, ExecWrite, AcquireLease, FindLeaseBusy, RetryAcquire, StartRecovery, Recover,
           ReloadForDelete, AppendTombstones, PurgeAndPersist, CommitDeletion, IssueRestoreCommit,
           CommitRestore, AbortLease, HandleNotice, FailRestore, Reconcile, PresenceRead
      <3>2. op[r] = NoOp /\ \A type : Turn(r, type) => type = "recover"
        BY <3>1, HeadOf DEF ClosedTabsRest
      <3>3. StartRecovery(r) \/ Recover(r)
        <4>1. op[r].kind = "none" /\ op[r].step = "idle" /\ ~booted[r] BY <3>1, <3>2 DEF NoOp
        <4>2. ~Edit(r) /\ ~Begin(r) /\ ~HandleNotice(r) /\ ~Reconcile(r) /\ ~PresenceRead(r)
          BY <4>1 DEF Edit, AddItem, RemoveItem, CanEdit, Begin, StartDelete, StartRestore, Start,
             HandleNotice, Reconcile, PresenceRead
        <4>3. /\ ~RetryAcquire(r) /\ ~ReloadForDelete(r) /\ ~PurgeAndPersist(r)
              /\ ~IssueRestoreCommit(r) /\ ~FailRestore(r)
          BY <4>1 DEF RetryAcquire, ReloadForDelete, PurgeAndPersist, IssueRestoreCommit, FailRestore
        <4>4. /\ ~ExecWrite(r) /\ ~AcquireLease(r) /\ ~FindLeaseBusy(r) /\ ~AppendTombstones(r)
              /\ ~CommitDeletion(r) /\ ~CommitRestore(r) /\ ~AbortLease(r)
          BY <3>2 DEF ExecWrite, AcquireLease, FindLeaseBusy, AppendTombstones, CommitDeletion,
             CommitRestore, AbortLease
        <4> QED BY <1>4, <2>2, <4>2, <4>3, <4>4 DEF TabStep, Proceed
      <3>4. op' = op BY <3>3 DEF StartRecovery, Recover
      <3>5. ASSUME NEW k \in 1 .. Len(queue'[r]) PROVE queue'[r][k].type = "recover"
        BY <3>1, <3>5, QueueSource DEF ClosedTabsRest, Issues
      <3> QED BY <3>2, <3>4, <3>5
    <2> QED BY <2>1, <2>2
  <1> QED BY <1>1, <1>2, <1>3, <1>4, StepOfTab

\* A live store takes its items from what it held, from the dataset and from its user.
LEMMA MemorySource ==
  ASSUME TypeOK, [Next]_vars, NEW t \in Realm
  PROVE  memory'[t] \subseteq memory[t] \cup row.items \cup created'
  <1> DEFINE Goal == memory'[t] \subseteq memory[t] \cup row.items \cup created'
  <1>0. memory \in [Realm -> SUBSET Item] /\ Readable \subseteq row.items
    BY LedgerType DEF TypeOK, Readable, Sanitize, Active
  <1>a. ASSUME memory' = memory PROVE Goal BY <1>a
  <1>b. ASSUME NEW r \in Realm, NEW items, memory' = At(memory, r, items),
               items \subseteq memory[r] \cup row.items \cup created'
        PROVE  Goal
    BY <1>0, <1>b DEF At
  <1> HIDE DEF Goal
  <1>1. CASE UNCHANGED vars BY <1>1, <1>a DEF vars, realms
  <1>2. ASSUME NEW r \in Realm, TabStep(r) PROVE Goal
    <2>1. CASE Edit(r) BY <1>b, <2>1 DEF Edit, AddItem, RemoveItem
    <2>2. CASE Boot(r) \/ ReloadForDelete(r)
      BY <1>0, <1>b, <2>2 DEF Boot, ReloadForDelete
    <2>3. CASE HandleNotice(r)
      <3>1. memory' = memory \/ \E notice, changed : memory' = At(memory, r, AfterNotice(r, notice, changed))
                                    /\ notice.kind \in {"reset", "replace", "deletion"}
        <4>1. Head(notices[r]) \in Notices BY <2>3 DEF HandleNotice, TypeOK
        <4>2. Head(notices[r]).kind \in {"begin", "reset", "replace", "deletion"} BY <4>1 DEF Notices
        <4> QED BY <2>3, <4>2 DEF HandleNotice
      <3>2. \A notice, changed : notice.kind \in {"reset", "replace", "deletion"} =>
              AfterNotice(r, notice, changed) \subseteq memory[r] \cup row.items
        BY <1>0 DEF AfterNotice, Sanitize
      <3> QED BY <1>a, <1>b, <3>1, <3>2
    <2>4. CASE Reconcile(r) \/ PurgeAndPersist(r)
      <3>1. memory' = memory \/ \E items : memory' = At(memory, r, Sanitize(memory[r], items))
        BY <2>4 DEF Reconcile, PurgeAndPersist
      <3>2. \A items : Sanitize(memory[r], items) \subseteq memory[r] BY DEF Sanitize
      <3> QED BY <1>a, <1>b, <3>1, <3>2
    <2>5. CASE IssueRestoreCommit(r) \/ Reload(r)
      <3>1. memory' = memory \/ memory' = At(memory, r, {}) BY <2>5 DEF IssueRestoreCommit, Reload
      <3> QED BY <1>a, <1>b, <3>1
    <2>6. CASE \/ Begin(r) \/ ExecWrite(r) \/ AcquireLease(r) \/ FindLeaseBusy(r) \/ RetryAcquire(r)
               \/ StartRecovery(r) \/ Recover(r) \/ AppendTombstones(r) \/ CommitDeletion(r)
               \/ CommitRestore(r) \/ AbortLease(r) \/ FailRestore(r) \/ PresenceRead(r)
      BY <1>a, <2>6 DEF Begin, StartDelete, StartRestore, Start, ExecWrite, AcquireLease, FindLeaseBusy,
         RetryAcquire, StartRecovery, Recover, AppendTombstones, CommitDeletion, CommitRestore,
         AbortLease, FailRestore, PresenceRead
    <2> QED BY <1>2, <2>1, <2>2, <2>3, <2>4, <2>5, <2>6 DEF TabStep, Proceed
  <1> QED BY <1>1, <1>2, StepOfTab DEF Goal

\* A tab is hydrated at no generation but the active one, as it was or will be.
LEMMA HydratedSource ==
  ASSUME TypeOK, [Next]_vars, NEW t \in Realm
  PROVE  /\ hydrated'[t] \in {hydrated[t], Unset, ledger.activeEpoch, ledger'.activeEpoch}
         /\ leaseHydrated'[t] \in {leaseHydrated[t], Unset, ledger.activeEpoch}
  <1> DEFINE Goal ==
        /\ hydrated'[t] \in {hydrated[t], Unset, ledger.activeEpoch, ledger'.activeEpoch}
        /\ leaseHydrated'[t] \in {leaseHydrated[t], Unset, ledger.activeEpoch}
  <1>0. /\ hydrated \in [Realm -> Nat \cup {Unset}] /\ leaseHydrated \in [Realm -> Nat \cup {Unset}]
    BY DEF TypeOK
  <1>a. ASSUME NEW r \in Realm,
               \/ hydrated' = hydrated
               \/ \E e \in {Unset, ledger.activeEpoch, ledger'.activeEpoch} : hydrated' = At(hydrated, r, e),
               \/ leaseHydrated' = leaseHydrated
               \/ \E e \in {Unset, ledger.activeEpoch} : leaseHydrated' = At(leaseHydrated, r, e)
        PROVE  Goal
    BY <1>0, <1>a DEF At
  <1> HIDE DEF Goal
  <1>1. CASE UNCHANGED vars
    <2>1. hydrated' = hydrated /\ leaseHydrated' = leaseHydrated BY <1>1 DEF vars, realms
    <2> QED BY <1>a, <2>1
  <1>2. ASSUME NEW r \in Realm, TabStep(r) PROVE Goal
    <2>1. CASE Boot(r) \/ ReloadForDelete(r) \/ HandleNotice(r) \/ Reconcile(r) \/ PresenceRead(r)
      BY <1>a, <2>1 DEF Boot, ReloadForDelete, HandleNotice, Reconcile, PresenceRead, HydrationEffects,
         NoHydration
    <2>2. CASE ExecWrite(r) \/ Reload(r) \/ AcquireLease(r) \/ AbortLease(r)
      BY <1>a, <2>2 DEF ExecWrite, Reload, AcquireLease, AbortLease
    <2>3. CASE CommitDeletion(r)
      <3>1. leaseHydrated' = leaseHydrated BY <2>3 DEF CommitDeletion
      <3>2. CASE ~LeaseActive(Head(queue[r]).epoch) BY <1>a, <2>3, <3>1, <3>2 DEF CommitDeletion
      <3>3. CASE LeaseActive(Head(queue[r]).epoch)
        <4>1. /\ ledger' = Committed(Head(queue[r]).epoch)
              /\ hydrated' = At(hydrated, r, Head(queue[r]).epoch)
          BY <2>3, <3>3 DEF CommitDeletion
        <4>2. ledger'.activeEpoch = Head(queue[r]).epoch BY <4>1, LedgerFields
        <4> QED BY <1>a, <3>1, <4>1, <4>2
      <3> QED BY <3>2, <3>3
    <2>4. CASE \/ Edit(r) \/ Begin(r) \/ FindLeaseBusy(r) \/ RetryAcquire(r)
               \/ StartRecovery(r) \/ Recover(r) \/ AppendTombstones(r) \/ PurgeAndPersist(r)
               \/ IssueRestoreCommit(r) \/ CommitRestore(r) \/ FailRestore(r)
      BY <1>a, <2>4 DEF Edit, AddItem, RemoveItem, Begin, StartDelete, StartRestore, Start,
         FindLeaseBusy, RetryAcquire, StartRecovery, Recover, AppendTombstones, PurgeAndPersist,
         IssueRestoreCommit, CommitRestore, FailRestore
    <2> QED BY <1>2, <2>1, <2>2, <2>3, <2>4 DEF TabStep, Proceed
  <1> QED BY <1>1, <1>2, StepOfTab DEF Goal

\* No tab gets ahead of the dataset.
LEMMA NotAheadStep ==
  ASSUME TypeOK, TypeOK', DatasetIsReadable, ClosedTabsRest, NotAhead, [Next]_vars
  PROVE  NotAhead'
  <1>0. /\ ledger.activeEpoch \in Nat /\ ledger'.activeEpoch \in Nat
        /\ ledger'.activeEpoch >= ledger.activeEpoch
        /\ \A r \in Realm : /\ hydrated[r] \in Nat \cup {-1} /\ leaseHydrated[r] \in Nat \cup {-1}
                            /\ hydrated'[r] \in Nat \cup {-1} /\ leaseHydrated'[r] \in Nat \cup {-1}
    BY SharedStep DEF TypeOK, Unset
  <1>1. ASSUME NEW r \in Realm
        PROVE  hydrated'[r] <= ledger'.activeEpoch /\ leaseHydrated'[r] <= ledger'.activeEpoch
    <2>1. hydrated[r] <= ledger.activeEpoch /\ leaseHydrated[r] <= ledger.activeEpoch
      BY DEF NotAhead
    <2>2. /\ hydrated'[r] \in {hydrated[r], -1, ledger.activeEpoch, ledger'.activeEpoch}
          /\ leaseHydrated'[r] \in {leaseHydrated[r], -1, ledger.activeEpoch}
      BY HydratedSource DEF Unset
    <2> QED BY <1>0, <2>1, <2>2
  <1>2. ASSUME NEW r \in Realm, NEW k \in 1 .. Len(queue'[r])
        PROVE  queue'[r][k].hydratedEpoch <= ledger'.activeEpoch
    <2>1. CASE \E j \in 1 .. Len(queue[r]) : queue[r][j] = queue'[r][k]
      <3>1. PICK j \in 1 .. Len(queue[r]) : queue[r][j] = queue'[r][k] BY <2>1
      <3>2. queue[r][j].hydratedEpoch <= ledger.activeEpoch BY DEF NotAhead
      <3>3. queue[r][j] \in Requests BY DEF TypeOK
      <3>4. queue[r][j].hydratedEpoch \in Nat \cup {-1} BY <3>3, RequestFields DEF Unset
      <3> QED BY <1>0, <3>1, <3>2, <3>4
    <2>2. CASE Issues(r, queue'[r][k])
      <3>1. queue'[r][k].hydratedEpoch \in {-1, hydrated'[r]} BY <2>2 DEF Issues, Unset
      <3> QED BY <1>0, <1>1, <3>1
    <2> QED BY <2>1, <2>2, QueueSource
  <1> QED BY <1>1, <1>2 DEF NotAhead

\* A deletion keeps its target, which was chosen among what the tab shows.
LEMMA OpSource ==
  ASSUME TypeOK, [Next]_vars, NEW t \in Realm
  PROVE  \/ op'[t].kind \in {"none", "restore"}
         \/ op'[t].kind = op[t].kind /\ op'[t].items = op[t].items
         \/ op'[t].items \subseteq memory[t] /\ op'[t].step = "acquire"
  <1> DEFINE Goal == \/ op'[t].kind \in {"none", "restore"}
                     \/ op'[t].kind = op[t].kind /\ op'[t].items = op[t].items
                     \/ op'[t].items \subseteq memory[t] /\ op'[t].step = "acquire"
  <1>0. op \in [Realm -> Ops] BY DEF TypeOK
  <1>a. ASSUME op' = op PROVE Goal BY <1>a
  <1>b. ASSUME NEW r \in Realm, NEW o, op' = At(op, r, o),
               \/ o.kind \in {"none", "restore"}
               \/ o.kind = op[r].kind /\ o.items = op[r].items
               \/ o.items \subseteq memory[r] /\ o.step = "acquire"
        PROVE  Goal
    BY <1>0, <1>b, AtFields
  <1>c. ASSUME NEW r \in Realm, NEW step, StepTo(r, step) PROVE Goal
    BY <1>0, <1>c, StepToFields
  <1>d. NoOp.kind = "none" BY DEF NoOp
  <1> HIDE DEF Goal
  <1>1. CASE UNCHANGED vars BY <1>1, <1>a DEF vars, realms
  <1>2. ASSUME NEW r \in Realm, TabStep(r) PROVE Goal
    <2>1. CASE Begin(r)
      <3>1. ASSUME NEW i \in Item, StartDelete(r, i) PROVE Goal
        <4> DEFINE o == [kind |-> "delete", step |-> "acquire", epoch |-> Unset, items |-> {i}]
        <4>1. op' = At(op, r, o) /\ i \in memory[r] BY <3>1 DEF StartDelete, Start
        <4>2. o.items = {i} /\ o.step = "acquire" OBVIOUS
        <4> HIDE DEF o
        <4> QED BY <1>b, <4>1, <4>2
      <3>2. ASSUME NEW b \in Backups, StartRestore(r, b) PROVE Goal
        <4> DEFINE o == [kind |-> "restore", step |-> "acquire", epoch |-> Unset, items |-> b]
        <4>1. op' = At(op, r, o) BY <3>2 DEF StartRestore, Start
        <4>2. o.kind = "restore" OBVIOUS
        <4> HIDE DEF o
        <4> QED BY <1>b, <4>1, <4>2
      <3> QED BY <2>1, <3>1, <3>2 DEF Begin
    <2>2. CASE AcquireLease(r)
      <3> DEFINE o == [op[r] EXCEPT !.step = "leased", !.epoch = NextEpoch]
      <3>1. op' = At(op, r, o) BY <2>2 DEF AcquireLease
      <3>2. o.kind = op[r].kind /\ o.items = op[r].items BY <1>0 DEF Ops
      <3> HIDE DEF o
      <3> QED BY <3>1, <3>2, <1>b
    <2>3. CASE \/ AbortLease(r) \/ Reload(r) \/ CommitDeletion(r) \/ PurgeAndPersist(r)
               \/ FindLeaseBusy(r) \/ AppendTombstones(r) \/ CommitRestore(r)
               \/ RetryAcquire(r) \/ ReloadForDelete(r) \/ IssueRestoreCommit(r) \/ FailRestore(r)
      <3>0. op' = op \/ op' = At(op, r, NoOp) \/ \E step : StepTo(r, step)
        <4>1. CASE AbortLease(r) \/ Reload(r) \/ CommitDeletion(r) \/ PurgeAndPersist(r)
          BY <4>1 DEF AbortLease, Reload, CommitDeletion, PurgeAndPersist
        <4>2. CASE FindLeaseBusy(r) \/ AppendTombstones(r) \/ CommitRestore(r) \/ RetryAcquire(r)
          BY <4>2 DEF FindLeaseBusy, AppendTombstones, CommitRestore, RetryAcquire
        <4>3. CASE ReloadForDelete(r) \/ IssueRestoreCommit(r) \/ FailRestore(r)
          BY <4>3 DEF ReloadForDelete, IssueRestoreCommit, FailRestore
        <4> QED BY <2>3, <4>1, <4>2, <4>3
      <3> QED BY <1>a, <1>b, <1>c, <1>d, <3>0
    <2>4. CASE \/ Edit(r) \/ Boot(r) \/ ExecWrite(r) \/ StartRecovery(r) \/ Recover(r)
               \/ HandleNotice(r) \/ Reconcile(r) \/ PresenceRead(r)
      BY <1>a, <2>4 DEF Edit, AddItem, RemoveItem, Boot, ExecWrite, StartRecovery, Recover, HandleNotice,
         Reconcile, PresenceRead
    <2> QED BY <1>2, <2>1, <2>2, <2>3, <2>4 DEF TabStep, Proceed
  <1> QED BY <1>1, <1>2, StepOfTab DEF Goal

\* The dataset takes its items from what it held and from what existed or now
\* exists; the ledger and the history condemn and erase nothing else.
LEMMA KnownShared ==
  ASSUME TypeOK, KnownItems, [Next]_vars
  PROVE  /\ row'.items \subseteq row.items \cup created \cup created'
         /\ ledger'.tombstones \subseteq created \cup ledger.tombstones
         /\ erased' \subseteq erased \cup ledger.tombstones
  <1> DEFINE Goal == /\ row'.items \subseteq row.items \cup created \cup created'
                     /\ ledger'.tombstones \subseteq created \cup ledger.tombstones
                     /\ erased' \subseteq erased \cup ledger.tombstones
  <1>a. ASSUME UNCHANGED <<row, ledger, erased>> PROVE Goal BY <1>a
  <1>0. ledger \in Ledgers /\ \A items, tombs : Sanitize(items, tombs) \subseteq items
    BY DEF TypeOK, Sanitize
  <1>i. Active \subseteq row.items BY DEF Active
  <1>1. CASE UNCHANGED vars BY <1>a, <1>1 DEF vars, durable, history
  <1>2. ASSUME NEW r \in Realm, TabStep(r) PROVE Goal
    <2>1. CASE ExecWrite(r)
      <3>1. ledger' = ledger /\ erased' = erased BY <2>1 DEF ExecWrite, history
      <3>2. Head(queue[r]).items \subseteq created
        BY <2>1, HeadOf DEF ExecWrite, KnownItems
      <3>3. CASE ~FenceAccepts(r, Head(queue[r])) BY <2>1, <3>1, <3>3 DEF ExecWrite
      <3>4. CASE FenceAccepts(r, Head(queue[r]))
        <4>1. row'.items = Sanitize(Merge(base[r], Head(queue[r]).items, Active), ledger.tombstones)
          BY <2>1, <3>4 DEF ExecWrite
        <4>2. row'.items \subseteq Merge(base[r], Head(queue[r]).items, Active) BY <1>0, <4>1
        <4>3. Merge(base[r], Head(queue[r]).items, Active) \subseteq Head(queue[r]).items \cup Active
          BY DEF Merge
        <4> QED BY <1>i, <3>1, <3>2, <4>2, <4>3
      <3> QED BY <3>3, <3>4
    <2>2. CASE AcquireLease(r)
      <3>0. PICK items : ledger' = Leased(ledger, NextEpoch, items) BY <2>2 DEF AcquireLease
      <3>1. ledger'.tombstones = ledger.tombstones BY <3>0, <1>0 DEF Leased, Ledgers
      <3> QED BY <2>2, <3>1 DEF AcquireLease, history
    <2>3. CASE Recover(r)
      <3>1. erased' = erased \/ erased' = erased \cup ledger.tombstones BY <2>3 DEF Recover
      <3>2. ledger'.tombstones \subseteq ledger.tombstones
        <4>1. /\ Settled(ledger).tombstones = ledger.tombstones
              /\ Committed(NextEpoch).tombstones = {}
          BY LedgerFields
        <4> QED BY <2>3, <4>1, RecoverCases
      <3>3. row'.items \subseteq row.items
        <4>1. Readable \subseteq row.items BY <1>0, <1>i DEF Readable
        <4>2. row' = row \/ row' = [epoch |-> NextEpoch, items |-> Readable] BY <2>3, RecoverCases
        <4> QED BY <4>1, <4>2
      <3> QED BY <3>1, <3>2, <3>3
    <2>4. CASE AppendTombstones(r)
      <3>1. Head(queue[r]).items \subseteq created
        BY <2>4, HeadOf DEF AppendTombstones, KnownItems
      <3>2. Condemned(ledger, Head(queue[r]).items).tombstones
              = ledger.tombstones \cup Head(queue[r]).items
        BY <1>0 DEF Condemned, Ledgers
      <3> QED BY <2>4, <3>1, <3>2 DEF AppendTombstones, history
    <2>5. CASE CommitDeletion(r)
      <3>1. CASE ~LeaseActive(Head(queue[r]).epoch)
        BY <1>a, <2>5, <3>1 DEF CommitDeletion, durable
      <3>2. CASE LeaseActive(Head(queue[r]).epoch)
        <4>1. Committed(Head(queue[r]).epoch).tombstones = {} BY LedgerFields
        <4>2. /\ row'.items = Sanitize(row.items, ledger.tombstones \ ledger.revive)
              /\ ledger' = Committed(Head(queue[r]).epoch)
              /\ erased' = erased \cup ledger.tombstones
          BY <2>5, <3>2 DEF CommitDeletion
        <4> QED BY <1>0, <4>1, <4>2
      <3> QED BY <3>1, <3>2
    <2>6. CASE CommitRestore(r)
      <3>1. CASE ~LeaseActive(Head(queue[r]).epoch)
        BY <1>a, <2>6, <3>1 DEF CommitRestore, durable
      <3>2. CASE LeaseActive(Head(queue[r]).epoch)
        <4>1. Committed(Head(queue[r]).epoch).tombstones = {} BY LedgerFields
        <4> DEFINE items == Sanitize(Head(queue[r]).items, ledger.tombstones \ ledger.revive)
        <4>2. /\ row' = [epoch |-> Head(queue[r]).epoch, items |-> items]
              /\ created' = created \cup items /\ erased' = erased \ items
              /\ ledger' = Committed(Head(queue[r]).epoch)
          BY <2>6, <3>2 DEF CommitRestore
        <4>3. row'.items = items BY <4>2
        <4> QED BY <4>1, <4>2, <4>3
      <3> QED BY <3>1, <3>2
    <2>7. CASE AbortLease(r)
      <3>1. ledger'.tombstones = ledger.tombstones BY <2>7, LedgerFields DEF AbortLease
      <3> QED BY <2>7, <3>1 DEF AbortLease, history
    <2>8. CASE \/ Edit(r) \/ Begin(r) \/ Boot(r) \/ FindLeaseBusy(r) \/ RetryAcquire(r)
               \/ StartRecovery(r) \/ ReloadForDelete(r) \/ PurgeAndPersist(r) \/ IssueRestoreCommit(r)
               \/ HandleNotice(r) \/ FailRestore(r) \/ Reconcile(r) \/ PresenceRead(r) \/ Reload(r)
      BY <1>a, <2>8 DEF Edit, AddItem, RemoveItem, Begin, StartDelete, StartRestore, Start, Boot,
         FindLeaseBusy, RetryAcquire, StartRecovery, ReloadForDelete, PurgeAndPersist,
         IssueRestoreCommit, HandleNotice, FailRestore, Reconcile, PresenceRead, Reload, durable, history
    <2> QED BY <1>2, <2>1, <2>2, <2>3, <2>4, <2>5, <2>6, <2>7, <2>8 DEF TabStep, Proceed
  <1> QED BY <1>1, <1>2, StepOfTab

\* Nothing comes out of nowhere.
LEMMA KnownItemsStep ==
  ASSUME TypeOK, DatasetIsReadable, ClosedTabsRest, KnownItems, [Next]_vars
  PROVE  KnownItems'
  <1>0. created \subseteq created' BY SharedStep
  <1>1. /\ row'.items \subseteq created' /\ ledger'.tombstones \subseteq created'
        /\ erased' \subseteq created'
    BY <1>0, KnownShared DEF KnownItems
  <1>2. ASSUME NEW r \in Realm PROVE memory'[r] \subseteq created'
    BY <1>0, <1>2, MemorySource DEF KnownItems
  <1>3. ASSUME NEW r \in Realm, op'[r].kind = "delete" PROVE op'[r].items \subseteq created'
    BY <1>0, <1>3, OpSource DEF KnownItems
  <1>4. ASSUME NEW r \in Realm, NEW k \in 1 .. Len(queue'[r]),
               queue'[r][k].type \in {"write", "append"}
        PROVE  queue'[r][k].items \subseteq created'
    <2>1. CASE \E j \in 1 .. Len(queue[r]) : queue[r][j] = queue'[r][k]
      BY <1>0, <1>4, <2>1 DEF KnownItems
    <2>2. CASE Issues(r, queue'[r][k])
      BY <1>0, <1>2, <1>4, <2>2 DEF KnownItems, Issues
    <2> QED BY <2>1, <2>2, QueueSource
  <1> QED BY <1>1, <1>2, <1>3, <1>4 DEF KnownItems

\* What tabs hold has existed, no tab is ahead, and closed ones rest.
TabsInv == KnownItems /\ NotAhead /\ ClosedTabsRest

\* It is inductive with TypeOK and DatasetIsReadable.
LEMMA TabsInvHolds == Spec => []TabsInv
  <1>1. Init => TabsInv
    <2>1. Len(<<>>) = 0 BY EmptySeq
    <2> QED BY <2>1 DEF Init, TabsInv, KnownItems, NotAhead, ClosedTabsRest, NoOp, Unset
  <1>2. TypeOK /\ TypeOK' /\ DatasetIsReadable /\ TabsInv /\ [Next]_vars => TabsInv'
    BY KnownItemsStep, NotAheadStep, ClosedTabsRestStep DEF TabsInv
  <1> QED BY <1>1, <1>2, TypeCorrect, DatasetStaysReadable, PTL DEF Spec

-----------------------------------------------------------------------------
(***************************************************************************)
(* Leases that operations rely on.                                         *)
(***************************************************************************)
\* The steps at which an operation relies on its lease.
Holding(o) == \/ o.step \in {"leased", "append", "abort"}
              \/ o.step = "commit" /\ o.kind = "restore"

\* Where no live lease is taken away, an operation that relies on its lease has it.
OwnLeaseHeld ==
    \A r \in Realm : Holding(op[r]) => LeaseActive(op[r].epoch) /\ op[r].epoch \in leaseOwners[r]

\* A commit of a deletion or of another Replace, another abort and a recovery
\* pass over a lease that its operation relies on.
LEMMA HeldLease ==
  ASSUME TypeOK, LeaseInv, RefinementInv, OwnLeaseHeld, NEW r \in Realm, Holding(op[r]),
         NEW s \in Realm
  PROVE  /\ LeaseActive(op[r].epoch) /\ op[r].epoch \in leaseOwners[r]
         /\ ledger.tombstones = {}
         /\ Turn(s, "acquire") => op[s].step = "acquire"
         /\ Turn(s, "append") => op[s].step = "append" /\ Head(queue[s]).epoch = op[s].epoch
         /\ Turn(s, "commitDeletion") => ~LeaseActive(Head(queue[s]).epoch)
         /\ Turn(s, "commitRestore") /\ LeaseActive(Head(queue[s]).epoch) => s = r
         /\ Turn(s, "abort") /\ Head(queue[s]).epoch = ledger.restoreEpoch => s = r
         /\ Turn(s, "commitRestore") => op[s].step = "commit" /\ op[s].kind = "restore"
                                        /\ Head(queue[s]).epoch = op[s].epoch
         /\ Turn(s, "abort") => op[s].step = "abort"
  <1>1. LeaseActive(op[r].epoch) /\ op[r].epoch \in leaseOwners[r] BY DEF OwnLeaseHeld
  <1>2. ledger.restoreEpoch \in Nat /\ op[r].epoch = ledger.restoreEpoch /\ op[r].epoch # Unset
    BY <1>1, LedgerType DEF LeaseActive, Unset
  <1>3. ledger.tombstones = {} BY <1>2 DEF LeaseInv, DoomedByDeletion, Holding
  <1>4. \A type : Turn(s, type) => 1 \in 1 .. Len(queue[s]) /\ Head(queue[s]) = queue[s][1]
                                   /\ Head(queue[s]).type = type
    BY HeadOf
  <1>5. Turn(s, "commitDeletion") => ~LeaseActive(Head(queue[s]).epoch)
    BY <1>3, <1>4 DEF RefinementInv, CommitsAreDoomed
  <1>6. \A type \in Promises : Turn(s, type) => Awaited(Head(queue[s]), op[s])
    BY <1>4 DEF LeaseInv, QueuesMatch, Orderly
  <1>7. op[s].epoch = ledger.restoreEpoch => s = r BY <1>2 DEF LeaseInv, EpochsAreOwn
  <1>8. /\ Turn(s, "acquire") => op[s].step = "acquire"
        /\ Turn(s, "append") => op[s].step = "append" /\ Head(queue[s]).epoch = op[s].epoch
        /\ Turn(s, "commitRestore") => op[s].step = "commit" /\ op[s].kind = "restore"
                                       /\ Head(queue[s]).epoch = op[s].epoch
        /\ Turn(s, "abort") => op[s].step = "abort" /\ Head(queue[s]).epoch = op[s].epoch
    BY <1>4, <1>6 DEF Promises, Awaited
  <1> QED BY <1>1, <1>3, <1>5, <1>7, <1>8 DEF LeaseActive

\* No step of a tab that takes no live lease takes the lease of an operation that relies on it.
LEMMA OwnLeaseHeldStep ==
  ASSUME TypeOK, LeaseInv, RefinementInv, OwnLeaseHeld, [FreshNext]_vars
  PROVE  OwnLeaseHeld'
  <1> SUFFICES ASSUME NEW r \in Realm, Holding(op'[r])
               PROVE  /\ ledger'.restoreInProgress /\ ledger'.restoreEpoch = op'[r].epoch
                      /\ op'[r].epoch \in leaseOwners'[r]
    BY DEF OwnLeaseHeld, LeaseActive, Holding
  <1> DEFINE Goal == /\ ledger'.restoreInProgress /\ ledger'.restoreEpoch = op'[r].epoch
                     /\ op'[r].epoch \in leaseOwners'[r]
  <1>0. /\ leaseOwners \in [Realm -> SUBSET Nat] /\ op \in [Realm -> Ops]
        /\ ledger \in Ledgers /\ ~Holding(NoOp)
    BY DEF TypeOK, NoOp, Holding
  <1>n. [Next]_vars BY DEF FreshNext
  <1>1. CASE UNCHANGED vars
    BY <1>1 DEF vars, durable, realms, OwnLeaseHeld, LeaseActive
  <1>2. ASSUME NEW s \in Realm, TabStep(s), ~UNCHANGED vars PROVE Goal
    <2>a. ASSUME Holding(op[r]), op'[r].epoch = op[r].epoch, ledger' = ledger,
                 leaseOwners'[r] = leaseOwners[r]
          PROVE  Goal
      BY <2>a DEF OwnLeaseHeld, LeaseActive
    <2>k. s # r => Holding(op[r]) /\ op'[r] = op[r] /\ leaseOwners'[r] = leaseOwners[r]
      <3>1. s # r => Tab(r)' = Tab(r) BY <1>2, OthersKeep
      <3> QED BY <3>1 DEF Tab
    <2>h. op'[r] = op[r] => Holding(op[r]) OBVIOUS
    <2>1. CASE Edit(s) \/ Boot(s) \/ StartRecovery(s) \/ HandleNotice(s) \/ Reconcile(s)
               \/ PresenceRead(s) \/ ExecWrite(s)
      <3>1. op' = op /\ ledger' = ledger /\ leaseOwners' = leaseOwners
        BY <2>1 DEF Edit, AddItem, RemoveItem, Boot, StartRecovery, HandleNotice, Reconcile,
           PresenceRead, ExecWrite, durable
      <3> QED BY <2>a, <2>h, <3>1
    <2>2. CASE Begin(s)
      <3>1. ledger' = ledger /\ leaseOwners' = leaseOwners
        BY <2>2 DEF Begin, StartDelete, StartRestore, Start, durable
      <3>2. s # r
        <4>1. PICK kind, items :
                op' = At(op, s, [kind |-> kind, step |-> "acquire", epoch |-> Unset, items |-> items])
          BY <2>2 DEF Begin, StartDelete, StartRestore, Start
        <4>2. op'[s].step = "acquire" BY <1>0, <4>1, AtFields
        <4> QED BY <4>2 DEF Holding
      <3> QED BY <2>a, <2>k, <3>1, <3>2
    <2>3. CASE AcquireLease(s)
      <3>1. CASE s # r
        <4>1. LeaseActive(op[r].epoch) BY <2>k, <3>1 DEF OwnLeaseHeld
        <4> QED BY <2>3, <4>1 DEF AcquireLease, LeaseActive
      <3>2. CASE s = r
        <4>1. PICK items : ledger' = Leased(ledger, NextEpoch, items) BY <2>3 DEF AcquireLease
        <4>2. ledger'.restoreEpoch = NextEpoch /\ ledger'.restoreInProgress
          BY <1>0, <4>1 DEF Leased, Ledgers
        <4>3. leaseOwners'[r] = leaseOwners[r] \cup {NextEpoch}
          BY <1>0, <2>3, <3>2 DEF AcquireLease, At
        <4>4. op'[r] = [op[r] EXCEPT !.step = "leased", !.epoch = NextEpoch]
          BY <1>0, <2>3, <3>2, AtFields DEF AcquireLease
        <4>5. op'[r].epoch = NextEpoch BY <1>0, <4>4 DEF Ops
        <4> QED BY <4>2, <4>3, <4>5
      <3> QED BY <3>1, <3>2
    <2>4. CASE FindLeaseBusy(s) \/ RetryAcquire(s)
      <3>1. ledger' = ledger /\ leaseOwners' = leaseOwners
        BY <2>4 DEF FindLeaseBusy, RetryAcquire, durable
      <3>2. s # r
        <4>1. op'[s].step \in {"wait", "acquire"}
          BY <1>0, <2>4, StepToFields DEF FindLeaseBusy, RetryAcquire
        <4> QED BY <4>1 DEF Holding
      <3> QED BY <2>a, <2>k, <3>1, <3>2
    <2>5. CASE Recover(s)
      <3>1. op' = op /\ leaseOwners' = leaseOwners BY <2>5 DEF Recover
      <3>2. Holding(op[r]) BY <3>1
      <3>3. LeaseActive(op[r].epoch) /\ op[r].epoch \in leaseOwners[r]
        BY <3>2 DEF OwnLeaseHeld
      <3>4. OwnerLives BY <3>3 DEF OwnerLives, LeaseActive
      <3>5. ~LeaseActive(Head(queue[s]).epoch)
        BY <1>2, <2>5, <3>4, Zenon DEF FreshNext, ActsStale, TakesLiveLease
      <3>6. ledger' = ledger BY <2>5, <3>5 DEF Recover, durable
      <3> QED BY <2>a, <3>1, <3>2, <3>6
    <2>6. CASE ReloadForDelete(s) \/ IssueRestoreCommit(s) \/ FailRestore(s)
      <3>1. ledger' = ledger /\ leaseOwners' = leaseOwners
        BY <2>6 DEF ReloadForDelete, IssueRestoreCommit, FailRestore, durable
      <3>2. CASE s = r
        <4>1. op[r].step = "leased" /\ op'[r].epoch = op[r].epoch
          BY <1>0, <2>6, <3>2, StepToFields DEF ReloadForDelete, IssueRestoreCommit, FailRestore
        <4>2. Holding(op[r]) BY <4>1 DEF Holding
        <4> QED BY <2>a, <3>1, <4>1, <4>2
      <3> QED BY <2>a, <2>k, <3>1, <3>2
    <2>7. CASE PurgeAndPersist(s)
      <3>1. ledger' = ledger /\ leaseOwners' = leaseOwners BY <2>7 DEF PurgeAndPersist, durable
      <3>2. s # r
        <4>1. (op'[s].kind = "delete" /\ op'[s].step = "commit") \/ op'[s] = NoOp
          BY <1>0, <2>7, StepToFields, AtFields DEF PurgeAndPersist
        <4> QED BY <1>0, <4>1 DEF Holding
      <3> QED BY <2>a, <2>k, <3>1, <3>2
    <2>8. CASE AppendTombstones(s)
      <3>t. Turn(s, "append") BY <2>8 DEF AppendTombstones
      <3>o. leaseOwners' = leaseOwners BY <2>8 DEF AppendTombstones
      <3>1. CASE s # r
        <4>1. Holding(op[r]) /\ op'[r] = op[r] BY <2>k, <3>1
        <4>2. LeaseActive(op[r].epoch) /\ op[r].epoch \in leaseOwners[r] BY <4>1 DEF OwnLeaseHeld
        <4>3. ledger' = ledger \/ ledger' = Condemned(ledger, Head(queue[s]).items)
          BY <2>8 DEF AppendTombstones
        <4>4. /\ ledger'.restoreEpoch = ledger.restoreEpoch
              /\ ledger'.restoreInProgress = ledger.restoreInProgress
          BY <1>0, <4>3 DEF Condemned, Ledgers
        <4> QED BY <3>o, <4>1, <4>2, <4>4 DEF LeaseActive
      <3>2. CASE s = r
        <4>1. CASE StepTo(s, "recorded")
          <5>1. op'[r].step = "recorded" BY <1>0, <3>2, <4>1, StepToFields
          <5> QED BY <5>1 DEF Holding
        <4>2. CASE ~LeaseActive(Head(queue[s]).epoch)
          <5>1. Awaited(Head(queue[s]), op[s])
            BY <3>t, HeadOf DEF LeaseInv, QueuesMatch, Orderly, Promises
          <5>2. op[s].step = "append" /\ Head(queue[s]).epoch = op[s].epoch
            BY <3>t, HeadOf, <5>1 DEF Awaited
          <5>3. Holding(op[s]) BY <5>2 DEF Holding
          <5>4. LeaseActive(op[s].epoch) BY <5>3 DEF OwnLeaseHeld
          <5> QED BY <4>2, <5>2, <5>4
        <4> QED BY <2>8, <4>1, <4>2 DEF AppendTombstones
      <3> QED BY <3>1, <3>2
    <2>9. CASE CommitDeletion(s)
      <3>1. Turn(s, "commitDeletion") BY <2>9 DEF CommitDeletion
      <3>2. Holding(op[r]) /\ op'[r] = op[r]
        <4>1. op' = op \/ op' = At(op, s, NoOp) BY <2>9 DEF CommitDeletion
        <4> QED BY <1>0, <2>k, <4>1, AtFields
      <3>3. ~LeaseActive(Head(queue[s]).epoch) BY <3>1, <3>2, HeldLease
      <3>4. ledger' = ledger /\ leaseOwners' = leaseOwners
        BY <2>9, <3>3 DEF CommitDeletion, durable
      <3> QED BY <2>a, <3>2, <3>4
    <2>10. CASE CommitRestore(s)
      <3>1. Turn(s, "commitRestore") BY <2>10 DEF CommitRestore
      <3>2. CASE s = r
        <4>1. Awaited(Head(queue[s]), op[s])
          BY <3>1, HeadOf DEF LeaseInv, QueuesMatch, Orderly, Promises
        <4>2. Holding(op[r]) /\ Head(queue[s]).epoch = op[r].epoch
          BY <3>1, <3>2, HeadOf, <4>1 DEF Awaited, Holding
        <4>3. LeaseActive(Head(queue[s]).epoch) BY <4>2 DEF OwnLeaseHeld
        <4>4. StepTo(s, "reload") \/ op' = At(op, s, NoOp) BY <2>10, <4>3 DEF CommitRestore
        <4>5. op'[r].step = "reload" \/ op'[r] = NoOp
          BY <1>0, <3>2, <4>4, StepToFields, AtFields
        <4> QED BY <1>0, <4>5 DEF Holding
      <3>3. CASE s # r
        <4>1. ~LeaseActive(Head(queue[s]).epoch) BY <2>k, <3>1, <3>3, HeldLease
        <4>2. ledger' = ledger /\ leaseOwners' = leaseOwners
          BY <2>10, <4>1 DEF CommitRestore, durable
        <4> QED BY <2>a, <2>k, <3>3, <4>2
      <3> QED BY <3>2, <3>3
    <2>11. CASE AbortLease(s)
      <3>1. Turn(s, "abort") BY <2>11 DEF AbortLease
      <3>2. s # r
        <4>1. op'[s] = NoOp BY <1>0, <2>11, AtFields DEF AbortLease
        <4> QED BY <1>0, <4>1
      <3>3. Head(queue[s]).epoch # ledger.restoreEpoch BY <2>k, <3>1, <3>2, HeldLease
      <3>4. ledger' = ledger BY <2>11, <3>3 DEF AbortLease
      <3> QED BY <2>a, <2>k, <3>2, <3>4
    <2>12. CASE Reload(s)
      <3>1. ledger' = ledger BY <2>12 DEF Reload, durable
      <3>2. s # r
        <4>1. op'[s] = NoOp BY <1>0, <2>12, AtFields DEF Reload
        <4> QED BY <1>0, <4>1
      <3> QED BY <2>a, <2>k, <3>1, <3>2
    <2> QED BY <1>2, <2>1, <2>2, <2>3, <2>4, <2>5, <2>6, <2>7, <2>8, <2>9, <2>10, <2>11, <2>12
            DEF TabStep, Proceed
  <1> QED BY <1>1, <1>2, <1>n, StepOfTab

-----------------------------------------------------------------------------
(***************************************************************************)
(* What drifts: a step that does not load the stores leaves a tab no more up*)
(* to date than it was, and its writes in their order.                     *)
(***************************************************************************)
\* Requests that end a hold on the lease: the fence takes no write queued before one.
Turns == {"append", "abort", "commitRestore"}

\* The k-th transaction of s is a store write that generation a will take, once
\* the tab is hydrated at lh under a lease.
LiveIn(s, k, a, lh) ==
    /\ s[k].type = "write"
    /\ s[k].hydratedEpoch = a \/ (s[k].hydratedEpoch = Unset /\ lh = a)
    /\ \A j \in 1 .. Len(s) : j > k => s[j].type \notin Turns

\* A write of what the tab shows, tagged with the generation it is hydrated at.
FitsMemory(t, x) == x.type = "write" => x.items = memory'[t] /\ x.hydratedEpoch = hydrated'[t]

\* A step that does not load the stores anew: the tab is up to date only if it
\* was, and its writes are those that waited, in their order, and a last one.
Drifts(t) ==
    /\ UpToDate(hydrated'[t], leaseHydrated'[t]) => UpToDate(hydrated[t], leaseHydrated[t])
    /\ \E d \in {0, 1} : \A k \in 1 .. Len(queue'[t]) :
         LiveIn(queue'[t], k, ledger.activeEpoch, leaseHydrated'[t]) =>
            \/ /\ k + d \in 1 .. Len(queue[t]) /\ queue'[t][k] = queue[t][k + d]
               /\ LiveIn(queue[t], k + d, ledger.activeEpoch, leaseHydrated[t])
            \/ /\ k = Len(queue'[t]) /\ queue'[t][k].items = memory'[t]
               /\ UpToDate(hydrated'[t], leaseHydrated'[t])

\* The three ways a FIFO drifts.
LEMMA DriftsBy ==
  ASSUME TypeOK, NEW t \in Realm,
         \/ hydrated'[t] = hydrated[t] \/ hydrated'[t] # ledger.activeEpoch
         \/ leaseHydrated[t] = ledger.activeEpoch,
         leaseHydrated'[t] = leaseHydrated[t] \/ leaseHydrated'[t] # ledger.activeEpoch,
         \/ queue'[t] = queue[t] \/ queue'[t] = <<>>
         \/ queue[t] # <<>> /\ queue'[t] = Tail(queue[t])
         \/ \E x : queue'[t] = Append(queue[t], x) /\ FitsMemory(t, x)
         \/ \E s \in Seq(Requests) : \E x : queue'[t] = Append(s, x) /\ x.type \in Turns
  PROVE  Drifts(t)
  <1> DEFINE a == ledger.activeEpoch
             Goes(d) == \A k \in 1 .. Len(queue'[t]) :
               LiveIn(queue'[t], k, a, leaseHydrated'[t]) =>
                  \/ /\ k + d \in 1 .. Len(queue[t]) /\ queue'[t][k] = queue[t][k + d]
                     /\ LiveIn(queue[t], k + d, a, leaseHydrated[t])
                  \/ /\ k = Len(queue'[t]) /\ queue'[t][k].items = memory'[t]
                     /\ UpToDate(hydrated'[t], leaseHydrated'[t])
  <1>0. queue[t] \in Seq(Requests) /\ Len(queue[t]) \in Nat BY DEF TypeOK
  <1>1. UpToDate(hydrated'[t], leaseHydrated'[t]) => UpToDate(hydrated[t], leaseHydrated[t])
    BY DEF UpToDate
  <1>2. CASE queue'[t] = queue[t]
    <2>1. Goes(0)
      <3> SUFFICES ASSUME NEW k \in 1 .. Len(queue[t]), LiveIn(queue[t], k, a, leaseHydrated'[t])
                   PROVE  /\ k + 0 \in 1 .. Len(queue[t]) /\ queue[t][k] = queue[t][k + 0]
                          /\ LiveIn(queue[t], k + 0, a, leaseHydrated[t])
        BY <1>2
      <3>1. k + 0 = k OBVIOUS
      <3>2. LiveIn(queue[t], k, a, leaseHydrated[t]) BY DEF LiveIn
      <3> QED BY <3>1, <3>2
    <2> QED BY <1>1, <2>1 DEF Drifts
  <1>3. CASE queue'[t] = <<>>
    <2>1. Len(queue'[t]) = 0 BY <1>3, EmptySeq
    <2>2. Goes(0) BY <2>1
    <2> QED BY <1>1, <2>2 DEF Drifts
  <1>4. CASE queue[t] # <<>> /\ queue'[t] = Tail(queue[t])
    <2>0. /\ Len(queue'[t]) = Len(queue[t]) - 1
          /\ \A j \in 1 .. Len(queue'[t]) : queue'[t][j] = queue[t][j + 1]
      BY <1>0, <1>4, HeadTailProperties, LenProperties
    <2>1. Goes(1)
      <3> SUFFICES ASSUME NEW k \in 1 .. Len(queue'[t]), LiveIn(queue'[t], k, a, leaseHydrated'[t])
                   PROVE  /\ k + 1 \in 1 .. Len(queue[t]) /\ queue'[t][k] = queue[t][k + 1]
                          /\ LiveIn(queue[t], k + 1, a, leaseHydrated[t])
        OBVIOUS
      <3>1. k + 1 \in 1 .. Len(queue[t]) /\ queue'[t][k] = queue[t][k + 1] BY <1>0, <2>0
      <3>2. ASSUME NEW j \in 1 .. Len(queue[t]), j > k + 1 PROVE queue[t][j].type \notin Turns
        <4>1. j - 1 \in 1 .. Len(queue'[t]) /\ j - 1 > k /\ (j - 1) + 1 = j BY <1>0, <2>0, <3>2
        <4>2. queue'[t][j - 1] = queue[t][j] BY <2>0, <4>1
        <4>3. queue'[t][j - 1].type \notin Turns BY <4>1 DEF LiveIn
        <4> QED BY <4>2, <4>3
      <3> QED BY <3>1, <3>2 DEF LiveIn
    <2> QED BY <1>1, <2>1 DEF Drifts
  <1>5. ASSUME NEW x, queue'[t] = Append(queue[t], x), FitsMemory(t, x) PROVE Drifts(t)
    <2>0. /\ Len(queue'[t]) = Len(queue[t]) + 1 /\ queue'[t][Len(queue[t]) + 1] = x
          /\ \A j \in 1 .. Len(queue[t]) : queue'[t][j] = queue[t][j]
      BY <1>0, <1>5
    <2>1. Goes(0)
      <3> SUFFICES ASSUME NEW k \in 1 .. Len(queue'[t]), LiveIn(queue'[t], k, a, leaseHydrated'[t])
                   PROVE  \/ /\ k + 0 \in 1 .. Len(queue[t]) /\ queue'[t][k] = queue[t][k + 0]
                             /\ LiveIn(queue[t], k + 0, a, leaseHydrated[t])
                          \/ /\ k = Len(queue'[t]) /\ queue'[t][k].items = memory'[t]
                             /\ UpToDate(hydrated'[t], leaseHydrated'[t])
        OBVIOUS
      <3>0. k + 0 = k OBVIOUS
      <3>1. CASE k = Len(queue[t]) + 1
        <4>1. x.type = "write" /\ (x.hydratedEpoch = a \/ leaseHydrated'[t] = a)
          BY <2>0, <3>1 DEF LiveIn
        <4> QED BY <1>5, <2>0, <3>1, <4>1 DEF FitsMemory, UpToDate
      <3>2. CASE k # Len(queue[t]) + 1
        <4>1. k \in 1 .. Len(queue[t]) BY <1>0, <2>0, <3>2
        <4>2. \A j \in 1 .. Len(queue[t]) : j > k => queue[t][j].type \notin Turns
          BY <1>0, <2>0 DEF LiveIn
        <4>3. queue'[t][k] = queue[t][k] BY <2>0, <4>1
        <4>4. LiveIn(queue[t], k, a, leaseHydrated[t]) BY <4>2, <4>3 DEF LiveIn
        <4> QED BY <3>0, <4>1, <4>3, <4>4
      <3> QED BY <3>1, <3>2
    <2> QED BY <1>1, <2>1 DEF Drifts
  <1>6. ASSUME NEW s \in Seq(Requests), NEW x, queue'[t] = Append(s, x), x.type \in Turns
        PROVE  Drifts(t)
    <2>0. /\ Len(s) \in Nat /\ Len(queue'[t]) = Len(s) + 1 /\ queue'[t][Len(s) + 1] = x
      BY <1>6
    <2>1. Goes(0)
      <3> SUFFICES ASSUME NEW k \in 1 .. Len(queue'[t]), LiveIn(queue'[t], k, a, leaseHydrated'[t])
                   PROVE  FALSE
        OBVIOUS
      <3>1. CASE k = Len(s) + 1 BY <1>6, <2>0, <3>1 DEF LiveIn, Turns
      <3>2. CASE k # Len(s) + 1
        <4>1. Len(s) + 1 \in 1 .. Len(queue'[t]) /\ Len(s) + 1 > k BY <2>0, <3>2
        <4> QED BY <1>6, <2>0, <4>1 DEF LiveIn
      <3> QED BY <3>1, <3>2
    <2> QED BY <1>1, <2>1 DEF Drifts
  <1> QED BY <1>2, <1>3, <1>4, <1>5, <1>6

\* Steps that load nothing drift.
LEMMA DriftingStep ==
  ASSUME TypeOK, DatasetIsReadable, NEW t \in Realm, ~WakesStale(t),
         ledger'.activeEpoch = ledger.activeEpoch,
         \/ Edit(t) \/ Begin(t) \/ ExecWrite(t) \/ AcquireLease(t) \/ FindLeaseBusy(t)
         \/ RetryAcquire(t) \/ StartRecovery(t) \/ Recover(t) \/ AppendTombstones(t)
         \/ PurgeAndPersist(t) \/ CommitDeletion(t) \/ IssueRestoreCommit(t) \/ FailRestore(t)
         \/ CommitRestore(t) \/ AbortLease(t) \/ Reconcile(t) \/ PresenceRead(t) \/ Reload(t)
         \/ (HandleNotice(t) /\ NoHydration(t))
  PROVE  Drifts(t)
  <1>0. /\ hydrated \in [Realm -> Nat \cup {Unset}] /\ leaseHydrated \in [Realm -> Nat \cup {Unset}]
        /\ memory \in [Realm -> SUBSET Item] /\ queue \in [Realm -> Seq(Requests)]
        /\ ledger.activeEpoch \in Nat /\ Unset \notin Nat
    BY LedgerType DEF TypeOK, Unset
  <1>q. queue[t] \in Seq(Requests) BY <1>0
  <1>e. \A x : Enqueue(t, x) => queue'[t] = Append(queue[t], x) BY <1>0, QueueFields
  <1>d. Dequeue(t) => queue'[t] = Tail(queue[t]) BY <1>0, QueueFields
  <1>s. \A x : DequeueThen(t, x) => queue'[t] = Append(Tail(queue[t]), x) BY <1>0, QueueFields
  <1>t. queue[t] # <<>> => Tail(queue[t]) \in Seq(Requests) BY <1>q, HeadTailProperties
  <1>f. \A type, e, items : /\ type # "write" => FitsMemory(t, Request(type, e, items))
                            /\ Request(type, e, items).type = type
    BY DEF FitsMemory, Request
  <1>p. \A lh : FitsMemory(t, PersistRequest(t, memory'[t], hydrated'[t], lh))
    BY DEF FitsMemory, PersistRequest, Request, WriteUnder
  <1>k. ASSUME hydrated'[t] = hydrated[t], leaseHydrated'[t] = leaseHydrated[t],
               \/ queue'[t] = queue[t] \/ queue'[t] = <<>>
               \/ queue[t] # <<>> /\ queue'[t] = Tail(queue[t])
               \/ \E x : queue'[t] = Append(queue[t], x) /\ FitsMemory(t, x)
               \/ \E s \in Seq(Requests) : \E x : queue'[t] = Append(s, x) /\ x.type \in Turns
        PROVE  Drifts(t)
    BY <1>k, DriftsBy
  <1>1. CASE Edit(t)
    <2>1. PICK items : /\ Enqueue(t, WriteUnder(t, items, hydrated[t], leaseHydrated[t]))
                       /\ memory' = At(memory, t, items)
                       /\ hydrated' = hydrated /\ leaseHydrated' = leaseHydrated
      BY <1>1 DEF Edit, AddItem, RemoveItem, WriteOf
    <2>2. memory'[t] = items BY <1>0, <2>1 DEF At
    <2>3. FitsMemory(t, WriteUnder(t, items, hydrated[t], leaseHydrated[t]))
      BY <2>1, <2>2 DEF FitsMemory, WriteUnder
    <2> QED BY <1>e, <1>k, <2>1, <2>3
  <1>2. CASE Begin(t) \/ RetryAcquire(t)
    <2>1. /\ Enqueue(t, Request("acquire", Unset, {}))
          /\ hydrated' = hydrated /\ leaseHydrated' = leaseHydrated
      BY <1>2 DEF Begin, StartDelete, StartRestore, Start, RetryAcquire
    <2>2. FitsMemory(t, Request("acquire", Unset, {})) BY <1>f
    <2> QED BY <1>e, <1>k, <2>1, <2>2
  <1>3. CASE StartRecovery(t)
    <2>1. /\ Enqueue(t, Request("recover", ledger.restoreEpoch, {}))
          /\ hydrated' = hydrated /\ leaseHydrated' = leaseHydrated
      BY <1>3 DEF StartRecovery
    <2>2. FitsMemory(t, Request("recover", ledger.restoreEpoch, {})) BY <1>f
    <2> QED BY <1>e, <1>k, <2>1, <2>2
  <1>4. CASE ExecWrite(t)
    <2>1. queue[t] # <<>> /\ queue'[t] = Tail(queue[t]) BY <1>d, <1>4 DEF ExecWrite, Turn
    <2>2. \/ hydrated' = hydrated /\ leaseHydrated' = leaseHydrated
          \/ /\ Promoted(t, Head(queue[t])) /\ hydrated' = At(hydrated, t, ledger.activeEpoch)
             /\ leaseHydrated' = At(leaseHydrated, t, Unset)
      BY <1>4 DEF ExecWrite
    <2>3. CASE hydrated' = hydrated /\ leaseHydrated' = leaseHydrated BY <1>k, <2>1, <2>3
    <2>4. CASE /\ Promoted(t, Head(queue[t])) /\ leaseHydrated' = At(leaseHydrated, t, Unset)
      <3>1. leaseHydrated[t] = ledger.activeEpoch BY <2>4 DEF Promoted
      <3>2. leaseHydrated'[t] # ledger.activeEpoch BY <1>0, <2>4 DEF At
      <3> QED BY <2>1, <3>1, <3>2, DriftsBy
    <2> QED BY <2>2, <2>3, <2>4
  <1>5. CASE AcquireLease(t) \/ AbortLease(t)
    <2>1. queue[t] # <<>> /\ queue'[t] = Tail(queue[t]) /\ leaseHydrated' = leaseHydrated
      BY <1>d, <1>5 DEF AcquireLease, AbortLease, Turn
    <2>2. hydrated' = hydrated \/ hydrated' = At(hydrated, t, Unset)
      BY <1>5 DEF AcquireLease, AbortLease
    <2>3. hydrated'[t] = hydrated[t] \/ hydrated'[t] # ledger.activeEpoch
      BY <1>0, <2>2 DEF At
    <2> QED BY <2>1, <2>3, DriftsBy
  <1>6. CASE FindLeaseBusy(t) \/ Recover(t)
    <2>1. /\ queue[t] # <<>> /\ queue'[t] = Tail(queue[t])
          /\ hydrated' = hydrated /\ leaseHydrated' = leaseHydrated
      BY <1>d, <1>6 DEF FindLeaseBusy, Recover, Turn
    <2> QED BY <1>k, <2>1
  <1>7. CASE AppendTombstones(t) \/ CommitRestore(t)
    <2>1. hydrated' = hydrated /\ leaseHydrated' = leaseHydrated /\ queue[t] # <<>>
      BY <1>7 DEF AppendTombstones, CommitRestore, Turn
    <2>2. Dequeue(t) \/ \E e : DequeueThen(t, Request("abort", e, {}))
      BY <1>7 DEF AppendTombstones, CommitRestore
    <2>3. CASE Dequeue(t) BY <1>d, <1>k, <2>1, <2>3
    <2>4. ASSUME NEW e, DequeueThen(t, Request("abort", e, {})) PROVE Drifts(t)
      <3>1. Request("abort", e, {}).type \in Turns BY <1>f DEF Turns
      <3>2. queue'[t] = Append(Tail(queue[t]), Request("abort", e, {})) BY <1>s, <2>4
      <3> QED BY <1>k, <1>t, <2>1, <3>1, <3>2
    <2> QED BY <2>2, <2>3, <2>4
  <1>8. CASE PurgeAndPersist(t)
    <2>1. /\ Enqueue(t, PersistRequest(t, memory'[t], hydrated'[t], leaseHydrated[t]))
          /\ hydrated' = hydrated /\ leaseHydrated' = leaseHydrated
      BY <1>8 DEF PurgeAndPersist
    <2> QED BY <1>e, <1>k, <1>p, <2>1
  <1>9. CASE CommitDeletion(t)
    <2>1. ~LeaseActive(Head(queue[t]).epoch)
      <3> SUFFICES ASSUME LeaseActive(Head(queue[t]).epoch) PROVE FALSE OBVIOUS
      <3>1. ledger' = Committed(Head(queue[t]).epoch) BY <1>9 DEF CommitDeletion
      <3>2. ledger'.activeEpoch = Head(queue[t]).epoch BY <3>1 DEF Committed
      <3> QED BY <3>2, LedgerType DEF LeaseActive, DatasetIsReadable
    <2>2. /\ queue[t] # <<>> /\ queue'[t] = Tail(queue[t])
          /\ hydrated' = hydrated /\ leaseHydrated' = leaseHydrated
      BY <1>d, <1>9, <2>1 DEF CommitDeletion, Turn
    <2> QED BY <1>k, <2>2
  <1>10. CASE IssueRestoreCommit(t) \/ FailRestore(t)
    <2>1. PICK type, items :
            /\ type \in {"commitRestore", "abort"} /\ Enqueue(t, Request(type, op[t].epoch, items))
            /\ hydrated' = hydrated /\ leaseHydrated' = leaseHydrated
      BY <1>10 DEF IssueRestoreCommit, FailRestore
    <2>2. Request(type, op[t].epoch, items).type \in Turns BY <1>f, <2>1 DEF Turns
    <2>3. queue'[t] = Append(queue[t], Request(type, op[t].epoch, items)) BY <1>e, <2>1
    <2> QED BY <1>k, <1>q, <2>1, <2>2, <2>3
  <1>11. CASE Reconcile(t) \/ (HandleNotice(t) /\ NoHydration(t))
    <2>1. hydrated' = hydrated /\ leaseHydrated' = leaseHydrated
      BY <1>11 DEF Reconcile, NoHydration
    <2>2. \/ queue' = queue
          \/ \E lh : Enqueue(t, PersistRequest(t, memory'[t], hydrated'[t], lh))
      BY <1>11, <2>1 DEF Reconcile, HandleNotice
    <2> QED BY <1>e, <1>k, <1>p, <2>1, <2>2
  <1>12. CASE PresenceRead(t)
    <2>1. queue' = queue BY <1>12 DEF PresenceRead
    <2>2. \/ UNCHANGED <<hydrated, leaseHydrated>>
          \/ leaseHydrated' = At(leaseHydrated, t, Unset)
      BY <1>12 DEF PresenceRead
    <2>3. leaseHydrated'[t] = leaseHydrated[t] \/ leaseHydrated'[t] # ledger.activeEpoch
      BY <1>0, <2>2 DEF At
    <2>4. hydrated'[t] = hydrated[t] \/ leaseHydrated[t] = ledger.activeEpoch
      BY <1>12 DEF WakesStale
    <2> QED BY <2>1, <2>3, <2>4, DriftsBy
  <1>13. CASE Reload(t)
    <2>1. queue'[t] = <<>> /\ hydrated'[t] = Unset /\ leaseHydrated'[t] = Unset
      BY <1>0, <1>13 DEF Reload, At
    <2> QED BY <1>0, <2>1, DriftsBy
  <1> QED BY <1>1, <1>2, <1>3, <1>4, <1>5, <1>6, <1>7, <1>8, <1>9, <1>10, <1>11, <1>12, <1>13

-----------------------------------------------------------------------------
(***************************************************************************)
(* What loads, and what a generation that begins makes of a tab.           *)
(***************************************************************************)
\* No write waits before a request that ends a hold on the lease and is taken.
LEMMA ClosedFIFO ==
  ASSUME NEW s \in Seq(Requests), NEW x, x.type \in Turns, NEW a, NEW lh,
         NEW k \in 1 .. Len(Append(s, x))
  PROVE  ~LiveIn(Append(s, x), k, a, lh)
  <1>0. /\ Len(s) \in Nat /\ Len(Append(s, x)) = Len(s) + 1
        /\ Append(s, x)[Len(s) + 1] = x
    OBVIOUS
  <1>1. CASE k = Len(s) + 1 BY <1>0, <1>1 DEF LiveIn, Turns
  <1>2. CASE k # Len(s) + 1
    <2>1. Len(s) + 1 \in 1 .. Len(Append(s, x)) /\ Len(s) + 1 > k BY <1>0, <1>2
    <2> QED BY <1>0, <2>1 DEF LiveIn
  <1> QED BY <1>1, <1>2

\* The steps that load the stores anew.
Loads(t) == Boot(t) \/ ReloadForDelete(t) \/ (HandleNotice(t) /\ ~NoHydration(t))

\* Stores that load take the readable dataset, less what a notice deletes, and
\* the writes the fence will still take are of it, in the order they waited.
LEMMA LoadedWrites ==
  ASSUME TypeOK, ClosedTabsRest, NEW t \in Realm, Loads(t), ~OvertakesWrite(t)
  PROVE  /\ memory'[t] \subseteq Readable /\ base'[t] = Readable
         /\ \A k \in 1 .. Len(queue'[t]) :
              LiveIn(queue'[t], k, ledger.activeEpoch, leaseHydrated'[t]) =>
                 \/ queue'[t][k].items = Readable
                 \/ /\ k = Len(queue'[t]) /\ queue'[t][k].items = memory'[t]
                    /\ UpToDate(hydrated'[t], leaseHydrated'[t])
  <1>0. /\ base \in [Realm -> SUBSET Item] /\ memory \in [Realm -> SUBSET Item]
        /\ queue \in [Realm -> Seq(Requests)] /\ queue[t] \in Seq(Requests)
    BY DEF TypeOK
  <1>1. base'[t] = Readable
    <2>1. HandleNotice(t) /\ ~NoHydration(t) => HydrationEffects(t) BY DEF HandleNotice
    <2>2. HydrationEffects(t) BY <2>1 DEF Loads, Boot, ReloadForDelete
    <2> QED BY <1>0, <2>2 DEF HydrationEffects, At
  <1>2. CASE Boot(t)
    <2>1. memory'[t] = Readable /\ queue' = queue /\ ~booted[t] BY <1>0, <1>2 DEF Boot, At
    <2>2. \A k \in 1 .. Len(queue'[t]) : queue'[t][k].type = "recover"
      BY <2>1 DEF ClosedTabsRest
    <2> QED BY <1>1, <2>1, <2>2 DEF LiveIn
  <1>3. CASE ReloadForDelete(t)
    <2>1. memory'[t] = Readable BY <1>0, <1>3 DEF ReloadForDelete, At
    <2>2. PICK next \in {"append", "abort"} : Enqueue(t, Request(next, op[t].epoch, op[t].items))
      BY <1>3 DEF ReloadForDelete
    <2>3. Request(next, op[t].epoch, op[t].items).type \in Turns BY <2>2 DEF Request, Turns
    <2>4. queue'[t] = Append(queue[t], Request(next, op[t].epoch, op[t].items))
      BY <1>0, <2>2, QueueFields
    <2>5. \A k \in 1 .. Len(queue'[t]) : ~LiveIn(queue'[t], k, ledger.activeEpoch, leaseHydrated'[t])
      BY <1>0, <2>3, <2>4, ClosedFIFO
    <2> QED BY <1>1, <2>1, <2>5
  <1>4. CASE HandleNotice(t) /\ ~NoHydration(t)
    <2> DEFINE notice == Head(notices[t])
               changed == IF observed[t].epoch = Unset
                            THEN ledger.restoreEpoch > 0 \/ ledger.restoreInProgress
                            ELSE observed[t] # Seen(ledger)
    <2>1. /\ HydrationEffects(t)
          /\ notice.kind = "replace" \/ (notice.kind = "deletion" /\ changed)
          /\ memory' = At(memory, t, AfterNotice(t, notice, changed))
          /\ Enqueue(t, PersistRequest(t, memory'[t], hydrated'[t], leaseHydrated'[t]))
      BY <1>4 DEF HandleNotice
    <2>2. AfterNotice(t, notice, changed) \subseteq Readable
      <3>1. CASE notice.kind = "replace" BY <3>1 DEF AfterNotice
      <3>2. CASE notice.kind = "deletion" /\ changed BY <3>2 DEF AfterNotice, Sanitize
      <3> QED BY <2>1, <3>1, <3>2
    <2>3. memory'[t] \subseteq Readable BY <1>0, <2>1, <2>2 DEF At
    <2>4. \A k \in 1 .. Len(queue[t]) :
            /\ queue[t][k].type = "write"
            /\ \/ queue[t][k].hydratedEpoch = ledger.activeEpoch
               \/ queue[t][k].hydratedEpoch = Unset /\ leaseHydrated'[t] = ledger.activeEpoch
            => queue[t][k].items = Readable
      <3>1. DOMAIN queue[t] = 1 .. Len(queue[t]) BY <1>0
      <3> QED BY <3>1, <1>4, <2>1 DEF OvertakesWrite, Savable
    <2> HIDE DEF notice, changed
    <2> DEFINE x == PersistRequest(t, memory'[t], hydrated'[t], leaseHydrated'[t])
    <2>5. FitsMemory(t, x) BY DEF FitsMemory, PersistRequest, Request, WriteUnder
    <2>6. queue'[t] = Append(queue[t], x) BY <1>0, <2>1, QueueFields
    <2> HIDE DEF x
    <2>7. /\ Len(queue[t]) \in Nat /\ Len(queue'[t]) = Len(queue[t]) + 1
          /\ queue'[t][Len(queue[t]) + 1] = x
          /\ \A j \in 1 .. Len(queue[t]) : queue'[t][j] = queue[t][j]
      BY <1>0, <2>6
    <2>8. ASSUME NEW k \in 1 .. Len(queue'[t]),
                 LiveIn(queue'[t], k, ledger.activeEpoch, leaseHydrated'[t])
          PROVE  \/ queue'[t][k].items = Readable
                 \/ /\ k = Len(queue'[t]) /\ queue'[t][k].items = memory'[t]
                    /\ UpToDate(hydrated'[t], leaseHydrated'[t])
      <3>1. CASE k = Len(queue[t]) + 1
        BY <2>5, <2>7, <2>8, <3>1 DEF FitsMemory, UpToDate, LiveIn
      <3>2. CASE k # Len(queue[t]) + 1
        <4>1. k \in 1 .. Len(queue[t]) /\ queue'[t][k] = queue[t][k] BY <2>7, <3>2
        <4> QED BY <2>4, <2>8, <4>1 DEF LiveIn
      <3> QED BY <3>1, <3>2
    <2> QED BY <1>1, <2>3, <2>8
  <1> QED BY <1>2, <1>3, <1>4 DEF Loads

\* Only recovery and the commits move the active generation, and they leave
\* every tab behind it but the one that commits a deletion.
LEMMA EpochMoves ==
  ASSUME TypeOK, DatasetIsReadable, NEW s \in Realm, TabStep(s),
         ledger'.activeEpoch # ledger.activeEpoch
  PROVE  /\ Recover(s) \/ CommitDeletion(s) \/ CommitRestore(s)
         /\ \A t \in Realm : /\ base'[t] = base[t] \/ (t = s /\ CommitDeletion(s))
                             /\ hydrated'[t] = hydrated[t] \/ (t = s /\ CommitDeletion(s))
                             /\ leaseHydrated'[t] = leaseHydrated[t] /\ memory'[t] = memory[t]
  <1>0. ledger \in Ledgers /\ hydrated \in [Realm -> Nat \cup {Unset}]
        /\ base \in [Realm -> SUBSET Item]
    BY DEF TypeOK
  <1>f. \A e, items : /\ Leased(ledger, e, items).activeEpoch = ledger.activeEpoch
                      /\ Condemned(ledger, items).activeEpoch = ledger.activeEpoch
                      /\ Settled(ledger).activeEpoch = ledger.activeEpoch
    BY <1>0 DEF Leased, Condemned, Settled, Ledgers
  <1>1. ~(Edit(s) \/ Begin(s) \/ Boot(s) \/ PresenceRead(s) \/ ExecWrite(s))
    BY DEF Edit, AddItem, RemoveItem, Begin, StartDelete, StartRestore, Start, Boot, PresenceRead,
       ExecWrite, durable
  <1>2. ~(AcquireLease(s) \/ AppendTombstones(s) \/ AbortLease(s))
    BY <1>f DEF AcquireLease, AppendTombstones, AbortLease
  <1>3. ~(FindLeaseBusy(s) \/ RetryAcquire(s) \/ StartRecovery(s) \/ ReloadForDelete(s)
          \/ PurgeAndPersist(s) \/ IssueRestoreCommit(s) \/ FailRestore(s))
    BY DEF FindLeaseBusy, RetryAcquire, StartRecovery, ReloadForDelete, PurgeAndPersist,
       IssueRestoreCommit, FailRestore, durable
  <1>4. ~(HandleNotice(s) \/ Reconcile(s) \/ Reload(s))
    BY DEF HandleNotice, Reconcile, Reload, durable
  <1>5. Recover(s) \/ CommitDeletion(s) \/ CommitRestore(s)
    BY <1>1, <1>2, <1>3, <1>4 DEF TabStep, Proceed
  <1>6. CASE Recover(s) \/ CommitRestore(s)
    BY <1>5, <1>6 DEF Recover, CommitRestore
  <1>7. CASE CommitDeletion(s)
    <2>1. leaseHydrated' = leaseHydrated /\ memory' = memory BY <1>7 DEF CommitDeletion
    <2>2. /\ hydrated' = hydrated \/ hydrated' = At(hydrated, s, Head(queue[s]).epoch)
          /\ base' = base \/ base' = At(base, s, Head(queue[s]).items)
      BY <1>7 DEF CommitDeletion
    <2> QED BY <1>0, <1>7, <2>1, <2>2 DEF At
  <1> QED BY <1>5, <1>6, <1>7

\* What waits when the active generation moves will not be taken.
LEMMA NoLiveBehind ==
  ASSUME TypeOK, TypeOK', DatasetIsReadable, ClosedTabsRest, NotAhead, NEW s \in Realm, TabStep(s),
         ledger'.activeEpoch # ledger.activeEpoch, NEW t \in Realm, [Next]_vars
  PROVE  /\ \A k \in 1 .. Len(queue'[t]) :
              ~LiveIn(queue'[t], k, ledger'.activeEpoch, leaseHydrated'[t])
         /\ UpToDate(hydrated[t], leaseHydrated[t])' => t = s /\ CommitDeletion(s)
  <1>1. /\ ledger.activeEpoch \in Nat /\ ledger'.activeEpoch \in Nat
        /\ ledger'.activeEpoch > ledger.activeEpoch
    BY SharedStep
  <1>2. /\ Recover(s) \/ CommitDeletion(s) \/ CommitRestore(s)
        /\ hydrated'[t] = hydrated[t] \/ (t = s /\ CommitDeletion(s))
        /\ leaseHydrated'[t] = leaseHydrated[t]
    BY EpochMoves
  <1>3. /\ hydrated[t] \in Int /\ leaseHydrated[t] \in Int
        /\ hydrated[t] <= ledger.activeEpoch /\ leaseHydrated[t] <= ledger.activeEpoch
    BY DEF TypeOK, Unset, NotAhead
  <1>4. leaseHydrated'[t] # ledger'.activeEpoch BY <1>1, <1>2, <1>3
  <1>5. hydrated'[t] = ledger'.activeEpoch => t = s /\ CommitDeletion(s) BY <1>1, <1>2, <1>3
  <1>6. ASSUME NEW k \in 1 .. Len(queue'[t]) PROVE queue'[t][k].hydratedEpoch # ledger'.activeEpoch
                                                   \/ queue'[t][k].type # "write"
    <2>1. CASE \E j \in 1 .. Len(queue[t]) : queue[t][j] = queue'[t][k]
      <3>1. PICK j \in 1 .. Len(queue[t]) : queue[t][j] = queue'[t][k] BY <2>1
      <3>2. queue[t][j].hydratedEpoch <= ledger.activeEpoch BY DEF NotAhead
      <3>3. queue[t][j] \in Requests BY DEF TypeOK
      <3>4. queue[t][j].hydratedEpoch \in Int BY <3>3, RequestFields DEF Unset
      <3> QED BY <1>1, <3>1, <3>2, <3>4
    <2>2. CASE Issues(t, queue'[t][k]) /\ queue'[t][k].type = "write"
      <3>0. \A e, items : Request("abort", e, items).type = "abort" BY DEF Request
      <3>1. queue \in [Realm -> Seq(Requests)] BY DEF TypeOK
      <3>2. queue[s] # <<>> /\ (Dequeue(s) \/ \E e, items : DequeueThen(s, Request("abort", e, items)))
        BY <1>2 DEF Recover, CommitDeletion, CommitRestore, Turn
      <3>3. CASE Dequeue(s)
        <4>1. \E j \in 1 .. Len(queue[t]) : queue[t][j] = queue'[t][k]
          BY <3>1, <3>2, <3>3, EntryKept
        <4> QED BY <2>1, <4>1
      <3>4. ASSUME NEW e, NEW items, DequeueThen(s, Request("abort", e, items))
            PROVE  \E j \in 1 .. Len(queue[t]) : queue[t][j] = queue'[t][k]
        <4> DEFINE x == Request("abort", e, items)
        <4>1. x.type = "abort" BY <3>0
        <4> HIDE DEF x
        <4>2. queue[s] # <<>> /\ DequeueThen(s, x) BY <3>2, <3>4 DEF x
        <4>3. \/ \E j \in 1 .. Len(queue[t]) : queue[t][j] = queue'[t][k]
              \/ s = t /\ queue'[t][k] = x
          BY <3>1, <4>2, EntryJoined
        <4> QED BY <2>2, <4>1, <4>3
      <3> QED BY <2>1, <3>2, <3>3, <3>4
    <2> QED BY <2>1, <2>2, QueueSource
  <1> QED BY <1>4, <1>5, <1>6 DEF LiveIn, UpToDate

-----------------------------------------------------------------------------
(***************************************************************************)
(* Clean tabs: no resurrection.                                            *)
(***************************************************************************)
\* Nothing of items is gone, nor is its owner.
Spared(items, gone) == \A i \in items : i \notin gone /\ Owner[i] \notin gone

\* A tab that is up to date shows, and a tab will save, nothing that a completed
\* deletion erased.
CleanTab(t) ==
    /\ UpToDate(hydrated[t], leaseHydrated[t]) => Spared(memory[t], erased)
    /\ \A k \in 1 .. Len(queue[t]) :
         LiveIn(queue[t], k, ledger.activeEpoch, leaseHydrated[t])
           => Spared(queue[t][k].items, erased)

\* Nor does the dataset hold any of it.
CleanRow == Spared(row.items, erased)

\* A request to record tombstones names its operation's target.
AppendsTarget ==
    \A r \in Realm : \A k \in 1 .. Len(queue[r]) :
        queue[r][k].type = "append" => queue[r][k].items = op[r].items

\* A deletion that holds its lease loaded the stores under it; what it recorded
\* is its target, and it commits once the stores are free of it.
DeleterLoaded(t) ==
    /\ op[t].kind = "delete" /\ op[t].step = "append" => leaseHydrated[t] = ledger.activeEpoch
    /\ op[t].kind = "delete" /\ op[t].step \in {"recorded", "commit"} /\ LeaseActive(op[t].epoch)
         => /\ leaseHydrated[t] = ledger.activeEpoch /\ ledger.tombstones = op[t].items
            /\ op[t].step = "commit" => Spared(memory[t], ledger.tombstones)

\* The inductive invariant of NoResurrectionWhileFresh.
FreshInv == /\ OwnLeaseHeld /\ AppendsTarget /\ CleanRow
            /\ \A t \in Realm : CleanTab(t) /\ DeleterLoaded(t)

\* What is spared.
LEMMA SparedFacts ==
  ASSUME NEW items, NEW gone
  PROVE  /\ Spared(Sanitize(items, gone), gone)
         /\ \A less \in SUBSET items : Spared(items, gone) => Spared(less, gone)
         /\ \A fewer \in SUBSET gone : Spared(items, gone) => Spared(items, fewer)
         /\ \A more : Spared(items, gone) /\ Spared(items, more) => Spared(items, gone \cup more)
  BY DEF Spared, Sanitize

\* The target of an operation and of its request are one.
LEMMA AppendsTargetStep ==
  ASSUME TypeOK, ClosedTabsRest, QueuesMatch', AppendsTarget, [Next]_vars
  PROVE  AppendsTarget'
  <1> SUFFICES ASSUME NEW r \in Realm, NEW k \in 1 .. Len(queue'[r]),
                      queue'[r][k].type = "append"
               PROVE  queue'[r][k].items = op'[r].items
    BY DEF AppendsTarget
  <1>1. op'[r].step = "append" /\ op'[r].kind = "delete"
    <2>1. Awaited(queue'[r][k], op'[r]) BY DEF QueuesMatch, Orderly, Promises
    <2> QED BY <2>1 DEF Awaited
  <1>2. op'[r].items = op[r].items BY <1>1, OpSource
  <1>3. CASE \E j \in 1 .. Len(queue[r]) : queue[r][j] = queue'[r][k]
    BY <1>2, <1>3 DEF AppendsTarget
  <1>4. CASE Issues(r, queue'[r][k]) BY <1>2, <1>4 DEF Issues
  <1> QED BY <1>3, <1>4, QueueSource

\* A lease that an operation had and has was held in between.
LEMMA LeaseStays ==
  ASSUME TypeOK, DatasetIsReadable, LeaseInv, [Next]_vars, NEW t \in Realm,
         ledger'.restoreInProgress, ledger'.restoreEpoch = op[t].epoch
  PROVE  /\ LeaseActive(op[t].epoch) /\ ledger'.activeEpoch = ledger.activeEpoch
         /\ ledger'.tombstones = ledger.tombstones \/ AppendTombstones(t)
  <1>0. ledger \in Ledgers /\ ledger.restoreEpoch \in Nat /\ op[t].epoch \in Int
    BY LedgerType DEF TypeOK, Ops, Unset
  <1>1. \A r \in Realm : ~AcquireLease(r)
    <2> SUFFICES ASSUME NEW r \in Realm, AcquireLease(r) PROVE FALSE OBVIOUS
    <2>1. ledger'.restoreEpoch = NextEpoch BY <1>0 DEF AcquireLease, Leased, Ledgers
    <2>2. op[t].epoch <= ledger.restoreEpoch BY DEF LeaseInv, EpochsAreOwn
    <2> QED BY <1>0, <2>1, <2>2, NextEpochType
  <1>2. CASE ledger' = ledger BY <1>2 DEF LeaseActive
  <1>3. CASE ledger' = Settled(ledger)
    <2>1. ledger'.restoreInProgress = FALSE BY <1>3, LedgerFields
    <2> QED BY <2>1
  <1>4. ASSUME NEW e, ledger' = Committed(e) PROVE FALSE
    BY <1>4 DEF Committed
  <1>5. ASSUME NEW r \in Realm, AppendTombstones(r), LeaseActive(op[r].epoch),
               NEW items, ledger' = Condemned(ledger, items)
        PROVE  LeaseActive(op[t].epoch) /\ ledger'.activeEpoch = ledger.activeEpoch /\ r = t
    <2>1. /\ ledger'.restoreEpoch = ledger.restoreEpoch /\ ledger'.activeEpoch = ledger.activeEpoch
          /\ ledger'.restoreInProgress = ledger.restoreInProgress
      BY <1>0, <1>5 DEF Condemned, Ledgers
    <2>2. op[r].epoch = op[t].epoch /\ op[r].epoch # Unset
      BY <1>0, <1>5, <2>1 DEF LeaseActive, Unset
    <2>3. r = t BY <2>2 DEF LeaseInv, EpochsAreOwn
    <2> QED BY <2>1, <2>3 DEF LeaseActive
  <1> QED BY <1>1, <1>2, <1>3, <1>4, <1>5, LedgerSteady

\* A new item is of no person that is gone, if its tab shows none.
LEMMA AddedSpared ==
  ASSUME TypeOK, NEW r \in Realm, NEW i \in Item, AddItem(r, i), NEW gone \in SUBSET created,
         Spared(memory[r], gone)
  PROVE  Spared(memory'[r], gone)
  <1>1. memory'[r] = memory[r] \cup {i} BY DEF AddItem, At, TypeOK
  <1> QED BY <1>1 DEF AddItem, Spared

\* A deletion that keeps its lease keeps its stores loaded.
LEMMA DeleterLoadedStep ==
  ASSUME TypeOK, TypeOK', DatasetIsReadable, LeaseInv, RefinementInv, TabsInv, FreshInv,
         OwnLeaseHeld', [FreshNext]_vars, NEW t \in Realm
  PROVE  DeleterLoaded(t)'
  <1> DEFINE Deletes == op'[t].kind = "delete" /\ op'[t].step \in {"append", "recorded", "commit"}
             Kept == /\ leaseHydrated'[t] = ledger'.activeEpoch
                     /\ op'[t].step \in {"recorded", "commit"} => ledger'.tombstones = op'[t].items
                     /\ op'[t].step = "commit" => Spared(memory'[t], ledger'.tombstones)
  <1> SUFFICES ASSUME Deletes, ledger'.restoreInProgress, ledger'.restoreEpoch = op'[t].epoch
               PROVE  Kept
    <2>1. op'[t].step = "append" => ledger'.restoreInProgress /\ ledger'.restoreEpoch = op'[t].epoch
      BY DEF OwnLeaseHeld, Holding, LeaseActive
    <2> QED BY <2>1 DEF DeleterLoaded, LeaseActive
  <1>n. [Next]_vars BY DEF FreshNext
  <1>0. /\ op \in [Realm -> Ops] /\ memory \in [Realm -> SUBSET Item]
        /\ leaseHydrated \in [Realm -> Nat \cup {Unset}] /\ ledger \in Ledgers
        /\ NoOp.kind = "none"
    BY DEF TypeOK, NoOp
  <1>k. ASSUME op'[t] = op[t], leaseHydrated'[t] = leaseHydrated[t],
               \/ Spared(memory[t], ledger.tombstones) => Spared(memory'[t], ledger.tombstones)
        PROVE  Kept
    <2>1. LeaseActive(op[t].epoch) /\ ledger'.activeEpoch = ledger.activeEpoch
      BY <1>n, <1>k, LeaseStays
    <2>2. CASE op[t].step = "append" BY <1>k, <2>1, <2>2 DEF FreshInv, DeleterLoaded
    <2>3. CASE op[t].step \in {"recorded", "commit"}
      <3>1. ~AppendTombstones(t)
        <4> SUFFICES ASSUME AppendTombstones(t) PROVE FALSE OBVIOUS
        <4>1. Turn(t, "append") BY DEF AppendTombstones
        <4>2. Awaited(Head(queue[t]), op[t])
          BY <4>1, HeadOf DEF LeaseInv, QueuesMatch, Orderly, Promises
        <4> QED BY <2>3, <4>1, <4>2 DEF Awaited, Turn
      <3>2. ledger'.tombstones = ledger.tombstones BY <1>n, <1>k, <3>1, LeaseStays
      <3> QED BY <1>k, <2>1, <2>3, <3>2 DEF FreshInv, DeleterLoaded
    <2> QED BY <1>k, <2>2, <2>3
  <1> HIDE DEF Kept
  <1>1. CASE UNCHANGED vars
    <2>1. op' = op /\ leaseHydrated' = leaseHydrated /\ memory' = memory
      BY <1>1 DEF vars, realms
    <2> QED BY <1>k, <2>1
  <1>2. ASSUME NEW s \in Realm \ {t}, TabStep(s) PROVE Kept
    <2>1. Tab(t)' = Tab(t) BY <1>2, OthersKeep
    <2> QED BY <1>k, <2>1 DEF Tab
  <1>3. CASE TabStep(t) /\ ~UNCHANGED vars
    <2>1. CASE Edit(t)
      <3>1. op' = op /\ leaseHydrated' = leaseHydrated BY <2>1 DEF Edit, AddItem, RemoveItem
      <3>2. ASSUME NEW i \in Item, RemoveItem(t, i) PROVE memory'[t] \subseteq memory[t]
        BY <1>0, <3>2 DEF RemoveItem, At
      <3>3. ASSUME NEW i \in Item, RemoveItem(t, i), Spared(memory[t], ledger.tombstones)
            PROVE  Spared(memory'[t], ledger.tombstones)
        BY <3>2, <3>3 DEF Spared
      <3>4. ASSUME NEW i \in Item, AddItem(t, i), Spared(memory[t], ledger.tombstones)
            PROVE  Spared(memory'[t], ledger.tombstones)
        BY <3>4, AddedSpared DEF TabsInv, KnownItems
      <3> QED BY <1>k, <2>1, <3>1, <3>3, <3>4 DEF Edit
    <2>2. CASE Begin(t)
      <3>1. PICK kind, items :
              op' = At(op, t, [kind |-> kind, step |-> "acquire", epoch |-> Unset, items |-> items])
        BY <2>2 DEF Begin, StartDelete, StartRestore, Start
      <3>2. op'[t].step = "acquire" BY <1>0, <3>1, AtFields
      <3> QED BY <3>2
    <2>3. CASE Boot(t)
      <3>1. op[t].kind = "none" /\ op' = op
        BY <1>0, <2>3 DEF Boot, TabsInv, ClosedTabsRest
      <3> QED BY <3>1
    <2>4. CASE ExecWrite(t)
      <3>1. op' = op /\ memory' = memory /\ ledger' = ledger BY <2>4 DEF ExecWrite
      <3>2. leaseHydrated' = leaseHydrated BY <2>4, <3>1 DEF ExecWrite, FenceAccepts
      <3> QED BY <1>k, <3>1, <3>2
    <2>5. CASE AcquireLease(t)
      <3>1. op'[t] = [op[t] EXCEPT !.step = "leased", !.epoch = NextEpoch]
        BY <1>0, <2>5, AtFields DEF AcquireLease
      <3>2. op'[t].step = "leased" BY <1>0, <3>1 DEF Ops
      <3> QED BY <3>2
    <2>6. CASE FindLeaseBusy(t) \/ RetryAcquire(t)
      <3>1. op'[t].step \in {"wait", "acquire"}
        BY <1>0, <2>6, StepToFields DEF FindLeaseBusy, RetryAcquire
      <3> QED BY <3>1
    <2>7. CASE StartRecovery(t) \/ Recover(t)
      <3>1. op' = op /\ leaseHydrated' = leaseHydrated /\ memory' = memory
        BY <2>7 DEF StartRecovery, Recover
      <3> QED BY <1>k, <3>1
    <2>8. CASE ReloadForDelete(t)
      <3>1. op[t].step = "leased" /\ ledger' = ledger BY <2>8 DEF ReloadForDelete, durable
      <3>2. LeaseActive(op[t].epoch) BY <3>1 DEF FreshInv, OwnLeaseHeld, Holding
      <3>3. leaseHydrated'[t] = ledger.activeEpoch
        BY <1>0, <2>8, <3>2 DEF ReloadForDelete, HydrationEffects, LeaseActive, At
      <3>4. op'[t].step \in {"append", "abort"} BY <1>0, <2>8, StepToFields DEF ReloadForDelete
      <3> QED BY <3>1, <3>3, <3>4 DEF Kept
    <2>9. CASE AppendTombstones(t)
      <3>0. Turn(t, "append") /\ leaseHydrated' = leaseHydrated BY <2>9 DEF AppendTombstones
      <3>1. Awaited(Head(queue[t]), op[t])
        BY <3>0, HeadOf DEF LeaseInv, QueuesMatch, Orderly, Promises
      <3>2. op[t].step = "append" /\ op[t].kind = "delete" /\ Head(queue[t]).epoch = op[t].epoch
        BY <3>0, <3>1, HeadOf DEF Awaited
      <3>3. Holding(op[t]) BY <3>2 DEF Holding
      <3>4. LeaseActive(op[t].epoch) BY <3>3 DEF FreshInv, OwnLeaseHeld
      <3>5. ledger.tombstones = {} BY <3>3, HeldLease DEF FreshInv
      <3>6. Head(queue[t]).items = op[t].items BY <3>0, HeadOf DEF FreshInv, AppendsTarget
      <3>7. ledger' = Condemned(ledger, op[t].items) /\ StepTo(t, "recorded")
        BY <2>9, <3>2, <3>4, <3>6 DEF AppendTombstones
      <3>8. ledger'.tombstones = op[t].items /\ ledger'.activeEpoch = ledger.activeEpoch
        BY <1>0, <3>5, <3>7 DEF Condemned, Ledgers
      <3>9. op'[t].items = op[t].items /\ op'[t].step = "recorded"
        BY <1>0, <3>7, StepToFields
      <3>10. leaseHydrated[t] = ledger.activeEpoch BY <3>2 DEF FreshInv, DeleterLoaded
      <3> QED BY <3>0, <3>8, <3>9, <3>10 DEF Kept
    <2>10. CASE PurgeAndPersist(t)
      <3>1. /\ op[t].kind = "delete" /\ op[t].step = "recorded"
            /\ leaseHydrated' = leaseHydrated /\ ledger' = ledger
        BY <2>10 DEF PurgeAndPersist, durable
      <3>2. memory'[t] = Sanitize(memory[t], op[t].items)
        BY <1>0, <2>10 DEF PurgeAndPersist, At
      <3>3. StepTo(t, "commit") \/ op' = At(op, t, NoOp) BY <2>10 DEF PurgeAndPersist
      <3>4. op'[t].epoch = op[t].epoch /\ op'[t].items = op[t].items
        BY <1>0, <3>3, StepToFields, AtFields
      <3>5. LeaseActive(op[t].epoch) BY <3>1, <3>4 DEF LeaseActive
      <3>6. leaseHydrated[t] = ledger.activeEpoch /\ ledger.tombstones = op[t].items
        BY <3>1, <3>5 DEF FreshInv, DeleterLoaded
      <3>7. Spared(memory'[t], op[t].items) BY <3>2, SparedFacts
      <3> QED BY <3>1, <3>4, <3>6, <3>7 DEF Kept
    <2>11. CASE CommitDeletion(t)
      <3>1. op[t].kind # "delete" \/ op'[t] = NoOp BY <1>0, <2>11, AtFields DEF CommitDeletion
      <3>2. op[t].kind # "delete" => op' = op BY <2>11 DEF CommitDeletion
      <3> QED BY <1>0, <3>1, <3>2
    <2>12. CASE IssueRestoreCommit(t) \/ FailRestore(t)
      <3>1. op'[t].kind = "restore"
        BY <1>0, <2>12, StepToFields DEF IssueRestoreCommit, FailRestore
      <3> QED BY <3>1
    <2>13. CASE CommitRestore(t) \/ AbortLease(t) \/ Reload(t)
      <3>1. op'[t].kind = "none" \/ op'[t].step \in {"reload", "abort"}
        BY <1>0, <2>13, StepToFields, AtFields DEF CommitRestore, AbortLease, Reload
      <3> QED BY <3>1
    <2>14. CASE HandleNotice(t) \/ Reconcile(t)
      <3>1. op' = op /\ op[t].kind # "delete"
        BY <2>14 DEF HandleNotice, Reconcile, DestructiveLaneFree
      <3> QED BY <3>1
    <2>15. CASE PresenceRead(t)
      <3>1. op' = op /\ memory' = memory /\ ledger' = ledger BY <2>15 DEF PresenceRead, durable
      <3>2. leaseHydrated' = leaseHydrated BY <2>15, <3>1 DEF PresenceRead
      <3> QED BY <1>k, <3>1, <3>2
    <2> QED BY <1>3, <2>1, <2>2, <2>3, <2>4, <2>5, <2>6, <2>7, <2>8, <2>9, <2>10, <2>11, <2>12, <2>13,
               <2>14, <2>15 DEF TabStep, Proceed
  <1> QED BY <1>n, <1>1, <1>2, <1>3, StepOfTab

\* A step that drifts keeps a tab clean if what it shows is.
LEMMA CleanDrift ==
  ASSUME NEW t \in Realm, CleanTab(t), Drifts(t),
         ledger'.activeEpoch = ledger.activeEpoch, erased' = erased,
         UpToDate(hydrated'[t], leaseHydrated'[t]) => Spared(memory'[t], erased)
  PROVE  CleanTab(t)'
  <1>1. UpToDate(hydrated[t], leaseHydrated[t])' => Spared(memory'[t], erased)
    BY DEF UpToDate
  <1>2. ASSUME NEW k \in 1 .. Len(queue'[t]),
               LiveIn(queue'[t], k, ledger.activeEpoch, leaseHydrated'[t])
        PROVE  Spared(queue'[t][k].items, erased)
    BY <1>2 DEF Drifts, CleanTab
  <1>3. \A k \in 1 .. Len(queue'[t]) :
          LiveIn(queue'[t], k, ledger'.activeEpoch, leaseHydrated'[t])
            => Spared(queue'[t][k].items, erased')
    BY <1>2
  <1> QED BY <1>1, <1>3 DEF CleanTab

\* What a step shows that loads nothing: what the tab showed, a readable item, a new one.
LEMMA MemoryDrift ==
  ASSUME TypeOK, NEW t \in Realm, TabStep(t), ~Loads(t)
  PROVE  memory'[t] \subseteq memory[t] \/ memory'[t] \subseteq Readable
         \/ \E i \in Item : AddItem(t, i)
  <1>0. memory \in [Realm -> SUBSET Item] BY DEF TypeOK
  <1>s. \A items, gone : Sanitize(items, gone) \subseteq items BY DEF Sanitize
  <1>1. CASE Edit(t) BY <1>0, <1>1 DEF Edit, RemoveItem, At
  <1>2. CASE HandleNotice(t)
    <2> DEFINE notice == Head(notices[t])
               changed == IF observed[t].epoch = Unset
                            THEN ledger.restoreEpoch > 0 \/ ledger.restoreInProgress
                            ELSE observed[t] # Seen(ledger)
    <2>1. memory' = memory \/ memory' = At(memory, t, AfterNotice(t, notice, changed))
      BY <1>2 DEF HandleNotice
    <2>2. notice.kind = "begin" => memory' = memory BY <1>2 DEF HandleNotice
    <2>3. notice \in Notices BY <1>2 DEF HandleNotice, TypeOK
    <2>4. notice.kind \in {"begin", "reset", "replace", "deletion"} BY <2>3 DEF Notices
    <2> HIDE DEF notice, changed
    <2>5. ASSUME notice.kind \in {"reset", "replace", "deletion"}
          PROVE  \/ AfterNotice(t, notice, changed) \subseteq memory[t]
                 \/ AfterNotice(t, notice, changed) \subseteq Readable
      BY <2>5, <1>s DEF AfterNotice
    <2>6. memory' = At(memory, t, AfterNotice(t, notice, changed))
            => memory'[t] = AfterNotice(t, notice, changed)
      BY <1>0 DEF At
    <2> QED BY <2>1, <2>2, <2>4, <2>5, <2>6
  <1>3. CASE Reconcile(t) \/ PurgeAndPersist(t)
    <2>1. memory' = memory \/ \E gone : memory' = At(memory, t, Sanitize(memory[t], gone))
      BY <1>3 DEF Reconcile, PurgeAndPersist
    <2> QED BY <1>0, <1>s, <2>1 DEF At
  <1>4. CASE IssueRestoreCommit(t) \/ Reload(t)
    <2>1. memory' = memory \/ memory' = At(memory, t, {}) BY <1>4 DEF IssueRestoreCommit, Reload
    <2> QED BY <1>0, <2>1 DEF At
  <1>5. CASE \/ Begin(t) \/ ExecWrite(t) \/ AcquireLease(t) \/ FindLeaseBusy(t) \/ RetryAcquire(t)
             \/ StartRecovery(t) \/ Recover(t) \/ AppendTombstones(t) \/ CommitDeletion(t)
             \/ CommitRestore(t) \/ AbortLease(t) \/ FailRestore(t) \/ PresenceRead(t)
    <2>1. memory' = memory
      BY <1>5 DEF Begin, StartDelete, StartRestore, Start, ExecWrite, AcquireLease, FindLeaseBusy,
         RetryAcquire, StartRecovery, Recover, AppendTombstones, CommitDeletion, CommitRestore,
         AbortLease, FailRestore, PresenceRead
    <2> QED BY <2>1
  <1> QED BY <1>1, <1>2, <1>3, <1>4, <1>5 DEF TabStep, Proceed, Loads

\* A deletion commits from a tab whose stores hold nothing of what is gone with it.
LEMMA CommitterSpared ==
  ASSUME TypeOK, LeaseInv, RefinementInv, FreshInv, NEW t \in Realm, CommitDeletion(t),
         LeaseActive(Head(queue[t]).epoch), ~HelpsUnpurged(t)
  PROVE  Spared(memory[t], erased \cup ledger.tombstones)
  <1>0. memory[t] \in SUBSET Item /\ ledger.restoreEpoch \in Nat BY LedgerType DEF TypeOK
  <1>1. CASE op[t].epoch # ledger.restoreEpoch
    <2>1. memory[t] \cap Ruined(erased \cup ledger.tombstones) = {} BY <1>1 DEF HelpsUnpurged
    <2> QED BY <1>0, <2>1 DEF Ruined, Spared
  <1>2. CASE op[t].epoch = ledger.restoreEpoch
    <2>0. Turn(t, "commitDeletion") BY DEF CommitDeletion
    <2>1. ledger.tombstones # {} BY <2>0, HeadOf DEF RefinementInv, CommitsAreDoomed
    <2>2. op[t].kind = "delete" BY <1>2, <2>1 DEF LeaseInv, DoomedByDeletion
    <2>3. op[t].step = "commit"
      BY <2>0, <2>2, HeadOf DEF LeaseInv, QueuesMatch, Orderly, OwnCommit
    <2>4. LeaseActive(op[t].epoch) BY <1>2 DEF LeaseActive
    <2>5. leaseHydrated[t] = ledger.activeEpoch /\ Spared(memory[t], ledger.tombstones)
      BY <2>2, <2>3, <2>4 DEF FreshInv, DeleterLoaded
    <2>6. Spared(memory[t], erased) BY <2>5 DEF FreshInv, CleanTab, UpToDate
    <2> QED BY <2>5, <2>6, SparedFacts
  <1> QED BY <1>1, <1>2

\* No step makes a tab that is up to date show or save what was erased.
LEMMA CleanTabStep ==
  ASSUME TypeOK, TypeOK', DatasetIsReadable, LeaseInv, RefinementInv, TabsInv, FreshInv,
         [FreshNext]_vars, NEW t \in Realm
  PROVE  CleanTab(t)'
  <1>n. [Next]_vars BY DEF FreshNext
  <1>c. CleanTab(t) /\ CleanRow BY DEF FreshInv
  <1>r. Readable \subseteq row.items BY DEF Readable, Sanitize, Active
  <1>1. CASE UNCHANGED vars
    BY <1>c, <1>1 DEF vars, durable, realms, history, CleanTab, UpToDate
  <1>2. ASSUME NEW s \in Realm, TabStep(s), ledger'.activeEpoch = ledger.activeEpoch,
               ~UNCHANGED vars
        PROVE  CleanTab(t)'
    <2>1. erased' = erased BY <1>n, <1>2, SharedStep
    <2>2. CASE s # t
      <3>1. Tab(t)' = Tab(t) BY <1>2, <2>2, OthersKeep
      <3> QED BY <1>2, <1>c, <2>1, <3>1 DEF Tab, CleanTab, UpToDate
    <2>3. CASE s = t
      <3>0. ~WakesStale(t) /\ ~OvertakesWrite(t)
        BY <1>2, Zenon DEF FreshNext, ActsStale
      <3>1. CASE Loads(t)
        <4>1. /\ memory'[t] \subseteq Readable
              /\ \A k \in 1 .. Len(queue'[t]) :
                   LiveIn(queue'[t], k, ledger.activeEpoch, leaseHydrated'[t]) =>
                      queue'[t][k].items = Readable \/ queue'[t][k].items = memory'[t]
          BY <3>0, <3>1, LoadedWrites DEF TabsInv
        <4>2. Spared(Readable, erased) /\ Spared(memory'[t], erased)
          BY <1>c, <1>r, <4>1 DEF CleanRow, Spared
        <4>3. \A k \in 1 .. Len(queue'[t]) :
                LiveIn(queue'[t], k, ledger'.activeEpoch, leaseHydrated'[t])
                  => Spared(queue'[t][k].items, erased')
          BY <1>2, <2>1, <4>1, <4>2
        <4> QED BY <2>1, <4>2, <4>3 DEF CleanTab
      <3>2. CASE ~Loads(t)
        <4>1. Drifts(t)
          <5>1. HandleNotice(t) => NoHydration(t) BY <3>2 DEF Loads
          <5> QED BY <1>2, <2>3, <3>0, <3>2, <5>1, DriftingStep DEF TabStep, Proceed, Loads
        <4>2. ASSUME UpToDate(hydrated'[t], leaseHydrated'[t]) PROVE Spared(memory'[t], erased)
          <5>1. Spared(memory[t], erased) BY <1>c, <4>1, <4>2 DEF Drifts, CleanTab
          <5>2. CASE memory'[t] \subseteq memory[t] BY <5>1, <5>2 DEF Spared
          <5>3. CASE memory'[t] \subseteq Readable BY <1>c, <1>r, <5>3 DEF CleanRow, Spared
          <5>4. CASE \E i \in Item : AddItem(t, i)
            BY <5>1, <5>4, AddedSpared DEF TabsInv, KnownItems
          <5> QED BY <1>2, <2>3, <3>2, <5>2, <5>3, <5>4, MemoryDrift
        <4> QED BY <1>2, <1>c, <2>1, <4>1, <4>2, CleanDrift
      <3> QED BY <3>1, <3>2
    <2> QED BY <2>2, <2>3
  <1>3. ASSUME NEW s \in Realm, TabStep(s), ledger'.activeEpoch # ledger.activeEpoch,
               ~UNCHANGED vars
        PROVE  CleanTab(t)'
    <2>1. /\ \A k \in 1 .. Len(queue'[t]) :
              ~LiveIn(queue'[t], k, ledger'.activeEpoch, leaseHydrated'[t])
          /\ UpToDate(hydrated[t], leaseHydrated[t])' => t = s /\ CommitDeletion(s)
      BY <1>n, <1>3, NoLiveBehind DEF TabsInv
    <2>2. ASSUME t = s, CommitDeletion(s) PROVE Spared(memory'[t], erased')
      <3>1. LeaseActive(Head(queue[t]).epoch)
        BY <1>3, <2>2 DEF CommitDeletion, durable
      <3>2. memory' = memory /\ erased' = erased \cup ledger.tombstones
        BY <2>2, <3>1 DEF CommitDeletion
      <3>3. ~HelpsUnpurged(t) BY <1>3, Zenon DEF FreshNext, ActsStale
      <3> QED BY <2>2, <3>1, <3>2, <3>3, CommitterSpared
    <2> QED BY <2>1, <2>2 DEF CleanTab
  <1> QED BY <1>1, <1>2, <1>3, <1>n, StepOfTab

\* An accepted write is one the tab still counts on.
LEMMA AcceptedWrite ==
  ASSUME TypeOK, LeaseInv, FreshInv, NEW t \in Realm, ExecWrite(t),
         FenceAccepts(t, Head(queue[t]))
  PROVE  /\ 1 \in 1 .. Len(queue[t]) /\ Head(queue[t]) = queue[t][1]
         /\ LiveIn(queue[t], 1, ledger.activeEpoch, leaseHydrated[t])
  <1>0. Turn(t, "write") BY DEF ExecWrite
  <1>1. /\ 1 \in 1 .. Len(queue[t]) /\ Head(queue[t]) = queue[t][1]
        /\ queue[t][1].type = "write"
    BY <1>0, HeadOf
  <1>2. \/ queue[t][1].hydratedEpoch = ledger.activeEpoch
        \/ queue[t][1].hydratedEpoch = Unset /\ leaseHydrated[t] = ledger.activeEpoch
    BY <1>1 DEF FenceAccepts, Promoted
  <1>3. ~ledger.restoreInProgress BY DEF FenceAccepts
  <1>4. ASSUME NEW j \in 1 .. Len(queue[t]), queue[t][j].type \in Turns PROVE FALSE
    <2>1. Awaited(queue[t][j], op[t])
      BY <1>4 DEF LeaseInv, QueuesMatch, Orderly, Promises, Turns
    <2>2. Holding(op[t]) BY <1>4, <2>1 DEF Awaited, Holding, Turns
    <2> QED BY <1>3, <2>2 DEF FreshInv, OwnLeaseHeld, LeaseActive
  <1> QED BY <1>1, <1>2, <1>4 DEF LiveIn

\* The row keeps what it is while its generation stays, but for a write.
LEMMA RowStep ==
  ASSUME TypeOK, DatasetIsReadable, [Next]_vars, ledger'.activeEpoch = ledger.activeEpoch
  PROVE  \/ row' = row
         \/ \E t \in Realm :
              /\ ExecWrite(t) /\ FenceAccepts(t, Head(queue[t])) /\ ledger' = ledger
              /\ row'.items = Sanitize(Merge(base[t], Head(queue[t]).items, Active), ledger.tombstones)
              /\ base'[t] = Head(queue[t]).items
  <1>0. base \in [Realm -> SUBSET Item] BY DEF TypeOK
  <1>1. CASE UNCHANGED <<ledger, row, leaseOwners>> BY <1>1
  <1>2. ASSUME NEW s \in Realm, LeaseStep(s), row' # row
        PROVE  \E t \in Realm :
              /\ ExecWrite(t) /\ FenceAccepts(t, Head(queue[t])) /\ ledger' = ledger
              /\ row'.items = Sanitize(Merge(base[t], Head(queue[t]).items, Active), ledger.tombstones)
              /\ base'[t] = Head(queue[t]).items
    <2>1. ~(AcquireLease(s) \/ AppendTombstones(s) \/ AbortLease(s) \/ Reload(s))
      BY <1>2 DEF AcquireLease, AppendTombstones, AbortLease, Reload, durable
    <2>2. ~Recover(s)
      <3>1. Committed(NextEpoch).activeEpoch = NextEpoch BY DEF Committed
      <3> QED BY <1>2, <3>1, RecoverCases, NextEpochType, LedgerType
    <2>3. ~(CommitDeletion(s) \/ CommitRestore(s))
      <3> SUFFICES ASSUME CommitDeletion(s) \/ CommitRestore(s) PROVE FALSE OBVIOUS
      <3>1. Committed(ledger.restoreEpoch).activeEpoch = ledger.restoreEpoch BY DEF Committed
      <3>2. ledger' = Committed(ledger.restoreEpoch) /\ ledger.restoreInProgress
        BY <1>2, CommitCases
      <3>3. ledger'.activeEpoch = ledger.restoreEpoch BY <3>1, <3>2
      <3> QED BY <3>2, <3>3, LedgerType DEF DatasetIsReadable
    <2>4. ExecWrite(s) BY <1>2, <2>1, <2>2, <2>3 DEF LeaseStep
    <2>5. FenceAccepts(s, Head(queue[s])) BY <1>2, <2>4 DEF ExecWrite
    <2>6. /\ row' = [epoch |-> ledger.activeEpoch,
                     items |-> Sanitize(Merge(base[s], Head(queue[s]).items, Active), ledger.tombstones)]
          /\ base' = At(base, s, Head(queue[s]).items) /\ ledger' = ledger
      BY <2>4, <2>5 DEF ExecWrite
    <2>7. /\ row'.items = Sanitize(Merge(base[s], Head(queue[s]).items, Active), ledger.tombstones)
          /\ base'[s] = Head(queue[s]).items
      BY <1>0, <2>6 DEF At
    <2> QED BY <2>4, <2>5, <2>6, <2>7
  <1> QED BY <1>1, <1>2, DurableSteps

\* No step brings back into the dataset what was erased.
LEMMA CleanRowStep ==
  ASSUME TypeOK, TypeOK', DatasetIsReadable, LeaseInv, RefinementInv, TabsInv, FreshInv,
         [Next]_vars
  PROVE  CleanRow'
  <1>c. CleanRow BY DEF FreshInv
  <1>a. Active = row.items BY DEF Active, DatasetIsReadable
  <1>s. \A items, gone : Sanitize(items, gone) \subseteq items BY DEF Sanitize
  <1>1. CASE ledger'.activeEpoch = ledger.activeEpoch
    <2>1. erased' = erased BY <1>1, SharedStep
    <2>2. CASE row' = row BY <1>c, <2>1, <2>2 DEF CleanRow
    <2>3. ASSUME NEW t \in Realm, ExecWrite(t), FenceAccepts(t, Head(queue[t])),
                 row'.items = Sanitize(Merge(base[t], Head(queue[t]).items, Active), ledger.tombstones)
          PROVE  CleanRow'
      <3>1. LiveIn(queue[t], 1, ledger.activeEpoch, leaseHydrated[t])
            /\ 1 \in 1 .. Len(queue[t]) /\ Head(queue[t]) = queue[t][1]
        BY <2>3, AcceptedWrite
      <3>2. Spared(Head(queue[t]).items, erased) BY <3>1 DEF FreshInv, CleanTab
      <3>3. row'.items \subseteq Merge(base[t], Head(queue[t]).items, Active) BY <1>s, <2>3
      <3>4. Merge(base[t], Head(queue[t]).items, Active) \subseteq Head(queue[t]).items \cup row.items
        BY <1>a DEF Merge
      <3> QED BY <1>c, <2>1, <3>2, <3>3, <3>4 DEF CleanRow, Spared
    <2> QED BY <1>1, <2>2, <2>3, RowStep
  <1>2. ASSUME NEW s \in Realm, TabStep(s), ledger'.activeEpoch # ledger.activeEpoch
        PROVE  CleanRow'
    <2>1. Recover(s) \/ CommitDeletion(s) \/ CommitRestore(s) BY <1>2, EpochMoves
    <2>2. CASE Recover(s)
      <3>1. ledger' # ledger BY <1>2
      <3>2. LeaseActive(Head(queue[s]).epoch) /\ HoldsPendingDeletion
        <4>1. Settled(ledger).activeEpoch = ledger.activeEpoch BY DEF Settled, TypeOK, Ledgers
        <4> QED BY <1>2, <2>2, <4>1, RecoverCases
      <3>3. row' = [epoch |-> NextEpoch, items |-> Readable] /\ erased' = erased \cup ledger.tombstones
        BY <2>2, <3>2 DEF Recover, DatasetIsReadable
      <3>4. row'.items = Sanitize(row.items, ledger.tombstones) BY <1>a, <3>3 DEF Readable
      <3>5. Spared(row'.items, ledger.tombstones) BY <3>4, SparedFacts
      <3>6. Spared(row'.items, erased) BY <1>c, <1>s, <3>4 DEF CleanRow, Spared
      <3> QED BY <3>3, <3>5, <3>6, SparedFacts DEF CleanRow
    <2>3. CASE CommitDeletion(s)
      <3>1. LeaseActive(Head(queue[s]).epoch) BY <1>2, <2>3 DEF CommitDeletion, durable
      <3>2. ledger.tombstones # {}
        BY <2>3, <3>1, HeadOf DEF CommitDeletion, RefinementInv, CommitsAreDoomed
      <3>3. ledger.tombstones \ ledger.revive = ledger.tombstones
        BY <3>2 DEF LeaseInv, DoomedByDeletion
      <3>4. /\ row' = [epoch |-> Head(queue[s]).epoch,
                       items |-> Sanitize(row.items, ledger.tombstones \ ledger.revive)]
            /\ erased' = erased \cup ledger.tombstones
        BY <2>3, <3>1 DEF CommitDeletion
      <3>5. row'.items = Sanitize(row.items, ledger.tombstones) BY <3>3, <3>4
      <3>6. Spared(row'.items, ledger.tombstones) BY <3>5, SparedFacts
      <3>7. Spared(row'.items, erased) BY <1>c, <1>s, <3>5 DEF CleanRow, Spared
      <3> QED BY <3>4, <3>6, <3>7, SparedFacts DEF CleanRow
    <2>4. CASE CommitRestore(s)
      <3> DEFINE request == Head(queue[s])
                 items == Sanitize(request.items, ledger.tombstones \ ledger.revive)
      <3>0. Turn(s, "commitRestore") BY <2>4 DEF CommitRestore
      <3>1. LeaseActive(request.epoch) BY <1>2, <2>4 DEF CommitRestore, durable
      <3>2. op[s].kind = "restore" /\ request.epoch = op[s].epoch
        <4>1. Awaited(request, op[s])
          BY <3>0, HeadOf DEF LeaseInv, QueuesMatch, Orderly, Promises
        <4> QED BY <3>0, <4>1, HeadOf DEF Awaited
      <3>3. ledger.tombstones = {}
        BY <3>1, <3>2 DEF LeaseInv, DoomedByDeletion, LeaseActive
      <3>4. /\ row' = [epoch |-> request.epoch, items |-> items]
            /\ erased' = erased \ items
        BY <2>4, <3>1 DEF CommitRestore
      <3>5. items = request.items BY <3>3 DEF Sanitize
      <3>6. request.items \in Backups BY <3>0, HeadOf DEF RefinementInv, CommitsCarryBackups
      <3>7. \A i \in request.items : Owner[i] \in request.items BY <3>6, BackupsAreWhole
      <3>8. row'.items = request.items /\ erased' = erased \ request.items BY <3>4, <3>5
      <3> QED BY <3>7, <3>8 DEF CleanRow, Spared
    <2> QED BY <2>1, <2>2, <2>3, <2>4
  <1>3. CASE UNCHANGED vars BY <1>3, <1>1 DEF vars, durable
  <1> QED BY <1>1, <1>2, <1>3, StepOfTab

\* Fresh tabs take the steps of tabs.
LEMMA FreshIsReal == FreshSpec => Spec
  <1>1. [FreshNext]_vars => [Next]_vars BY DEF FreshNext
  <1> QED BY <1>1, PTL DEF FreshSpec, Spec

\* While tabs act on what they know, what was erased stays out of reach.
LEMMA FreshInvHolds == FreshSpec => [](FreshInv /\ TabsInv)
  <1>1. Init => FreshInv
    <2> SUFFICES ASSUME Init PROVE FreshInv OBVIOUS
    <2>1. Len(<<>>) = 0 BY EmptySeq
    <2>2. OwnLeaseHeld BY DEF Init, OwnLeaseHeld, Holding, NoOp
    <2>3. AppendsTarget /\ CleanRow BY <2>1 DEF Init, AppendsTarget, CleanRow, Spared
    <2>4. \A t \in Realm : CleanTab(t) /\ DeleterLoaded(t)
      BY <2>1 DEF Init, CleanTab, Spared, DeleterLoaded, NoOp
    <2> QED BY <2>2, <2>3, <2>4 DEF FreshInv
  <1>2. TypeOK /\ TypeOK' /\ DatasetIsReadable /\ LeaseInv /\ LeaseInv' /\ RefinementInv /\ TabsInv
          /\ FreshInv /\ [FreshNext]_vars => FreshInv'
    <2> SUFFICES ASSUME TypeOK, TypeOK', DatasetIsReadable, LeaseInv, LeaseInv', RefinementInv,
                        TabsInv, FreshInv, [FreshNext]_vars
                 PROVE  FreshInv'
      OBVIOUS
    <2>n. [Next]_vars BY DEF FreshNext
    <2>1. OwnLeaseHeld' BY OwnLeaseHeldStep DEF FreshInv
    <2>2. AppendsTarget' BY <2>n, AppendsTargetStep DEF LeaseInv, TabsInv, FreshInv
    <2>3. CleanRow' BY <2>n, CleanRowStep
    <2>4. \A t \in Realm : CleanTab(t)' BY CleanTabStep
    <2>5. \A t \in Realm : DeleterLoaded(t)' BY <2>1, DeleterLoadedStep
    <2> QED BY <2>1, <2>2, <2>3, <2>4, <2>5 DEF FreshInv
  <1> QED BY <1>1, <1>2, FreshIsReal, TypeCorrect, DatasetStaysReadable, LeaseInvHolds,
             RefinementInvHolds, TabsInvHolds, PTL DEF FreshSpec

\* No resurrection but by one of the four steps of ActsStale: for any number of tabs, items,
\* backups and generations, a completed deletion stays carried out while no tab takes a live
\* lease, takes old stores for new, saves what a hydration overtook, or helps unpurged.
THEOREM NoResurrectionWhileFresh == FreshSpec => []NoResurrection
  <1>1. FreshInv => NoResurrection
    BY DEF FreshInv, CleanRow, Spared, NoResurrection, Readable, Sanitize, Active
  <1> QED BY <1>1, FreshInvHolds, PTL

-----------------------------------------------------------------------------
(***************************************************************************)
(* Covered tabs: no loss.                                                  *)
(***************************************************************************)
\* A Replace is about to take the place of everything.
Replacing(t) == op[t].kind = "restore" /\ op[t].step = "commit"

\* What old has and new lacks, a user or a deletion took.
Covers(new, old) == \A i \in old : i \in new \/ i \in Explained

\* A tab loses nothing by itself: between its merge base, the writes it will
\* save, in their order, and its live store, items only go that something took.
CoveredTab(t) ==
    ~Replacing(t) =>
      /\ UpToDate(hydrated[t], leaseHydrated[t]) => Covers(memory[t], base[t])
      /\ \A k \in 1 .. Len(queue[t]) :
           LiveIn(queue[t], k, ledger.activeEpoch, leaseHydrated[t]) =>
             /\ Covers(queue[t][k].items, base[t])
             /\ UpToDate(hydrated[t], leaseHydrated[t]) => Covers(memory[t], queue[t][k].items)
             /\ \A j \in 1 .. Len(queue[t]) :
                  j < k /\ LiveIn(queue[t], j, ledger.activeEpoch, leaseHydrated[t])
                    => Covers(queue[t][k].items, queue[t][j].items)

\* A deletion that lost its lease was committed by another tab: this one's stores are behind.
DeleterBehind(t) ==
    op[t].kind = "delete" /\ op[t].step \in {"recorded", "commit"} /\ ~LeaseActive(op[t].epoch)
      => op[t].items = {} \/ ~UpToDate(hydrated[t], leaseHydrated[t])

\* What a deletion asked to commit, its tab still shows or something took.
CommitCovered(t) ==
    \A k \in 1 .. Len(queue[t]) :
       /\ queue[t][k].type = "commitDeletion" /\ op[t].kind = "delete"
       /\ LeaseActive(op[t].epoch) /\ LeaseActive(queue[t][k].epoch)
       => Covers(memory[t], queue[t][k].items)

\* The inductive invariant of LossIsExplainedWhileCareful, on top of FreshInv.
CarefulInv == \A t \in Realm : CoveredTab(t) /\ DeleterBehind(t) /\ CommitCovered(t)

\* What is explained stays so until a generation ends.
LEMMA ExplainedGrows ==
  ASSUME TypeOK, DatasetIsReadable, [Next]_vars, ledger'.activeEpoch = ledger.activeEpoch
  PROVE  Explained \subseteq Explained'
  <1>1. /\ erased' = erased /\ removed \subseteq removed'
        /\ ledger.tombstones \subseteq ledger'.tombstones
    BY SharedStep
  <1> QED BY <1>1 DEF Explained, Ruined

\* What a step takes from a live store that is up to date, and loads nothing, is explained.
LEMMA MemoryExplained ==
  ASSUME TypeOK, DatasetIsReadable, FreshInv, NEW t \in Realm, DeleterBehind(t), TabStep(t),
         [Next]_vars, ~Loads(t), ~HandlesLate(t), ~IssueRestoreCommit(t), ~Reload(t),
         ledger'.activeEpoch = ledger.activeEpoch,
         UpToDate(hydrated'[t], leaseHydrated'[t])
  PROVE  \A i \in memory[t] : i \in memory'[t] \/ i \in Explained'
  <1>0. memory \in [Realm -> SUBSET Item] /\ Explained \subseteq Explained'
    BY ExplainedGrows DEF TypeOK
  <1>g. \A gone \in SUBSET ledger.tombstones : \A i \in memory[t] :
          i \in Sanitize(memory[t], gone) \/ i \in Explained
    BY <1>0 DEF Sanitize, Explained, Ruined
  <1>1. CASE Edit(t)
    <2>1. ASSUME NEW i \in Item, AddItem(t, i) PROVE memory[t] \subseteq memory'[t]
      BY <1>0, <2>1 DEF AddItem, At
    <2>2. ASSUME NEW i \in Item, RemoveItem(t, i)
          PROVE  memory'[t] = memory[t] \ {i} /\ i \in removed'
      BY <1>0, <2>2 DEF RemoveItem, At
    <2> QED BY <1>1, <2>1, <2>2 DEF Edit, Explained
  <1>2. CASE HandleNotice(t)
    <2>1. NoHydration(t) BY <1>2 DEF Loads
    <2>2. memory[t] \ memory'[t] \subseteq Explained BY <1>2, <2>1 DEF HandlesLate
    <2> QED BY <1>0, <2>2
  <1>3. CASE Reconcile(t)
    <2>1. memory' = memory \/ memory' = At(memory, t, Sanitize(memory[t], ledger.tombstones))
      BY <1>3 DEF Reconcile
    <2>2. memory'[t] = memory[t] \/ memory'[t] = Sanitize(memory[t], ledger.tombstones)
      BY <1>0, <2>1 DEF At
    <2> QED BY <1>0, <1>g, <2>2
  <1>4. CASE PurgeAndPersist(t)
    <2>1. /\ memory' = At(memory, t, Sanitize(memory[t], op[t].items))
          /\ op[t].kind = "delete" /\ op[t].step = "recorded"
          /\ hydrated' = hydrated /\ leaseHydrated' = leaseHydrated
      BY <1>4 DEF PurgeAndPersist
    <2>2. memory'[t] = Sanitize(memory[t], op[t].items) BY <1>0, <2>1 DEF At
    <2>3. op[t].items = {} \/ op[t].items = ledger.tombstones
      <3>1. CASE LeaseActive(op[t].epoch) BY <2>1, <3>1 DEF FreshInv, DeleterLoaded
      <3>2. CASE ~LeaseActive(op[t].epoch) BY <2>1, <3>2 DEF DeleterBehind
      <3> QED BY <3>1, <3>2
    <2> QED BY <1>0, <1>g, <2>2, <2>3
  <1>5. CASE \/ Begin(t) \/ ExecWrite(t) \/ AcquireLease(t) \/ FindLeaseBusy(t) \/ RetryAcquire(t)
             \/ StartRecovery(t) \/ Recover(t) \/ AppendTombstones(t) \/ CommitDeletion(t)
             \/ CommitRestore(t) \/ AbortLease(t) \/ FailRestore(t) \/ PresenceRead(t)
    <2>1. memory' = memory
      BY <1>5 DEF Begin, StartDelete, StartRestore, Start, ExecWrite, AcquireLease, FindLeaseBusy,
         RetryAcquire, StartRecovery, Recover, AppendTombstones, CommitDeletion, CommitRestore,
         AbortLease, FailRestore, PresenceRead
    <2> QED BY <2>1
  <1> QED BY <1>1, <1>2, <1>3, <1>4, <1>5 DEF TabStep, Proceed, Loads

\* Stores that load and are up to date take all that is readable and not explained.
LEMMA LoadsExplained ==
  ASSUME TypeOK, NEW t \in Realm, Loads(t), ~HandlesLate(t),
         UpToDate(hydrated'[t], leaseHydrated'[t])
  PROVE  \A i \in Readable : i \in memory'[t] \/ i \in Explained
  <1>0. memory \in [Realm -> SUBSET Item] BY DEF TypeOK
  <1>1. CASE Boot(t) \/ ReloadForDelete(t)
    <2>1. memory'[t] = Readable BY <1>0, <1>1 DEF Boot, ReloadForDelete, At
    <2> QED BY <2>1
  <1>2. CASE HandleNotice(t) /\ ~NoHydration(t)
    <2>1. HydrationEffects(t) BY <1>2 DEF HandleNotice
    <2>2. Readable \ memory'[t] \subseteq Explained BY <1>2, <2>1 DEF HandlesLate
    <2> QED BY <2>2
  <1> QED BY <1>1, <1>2 DEF Loads

\* A merge base stays, or becomes the write that the fence took.
LEMMA BaseDrift ==
  ASSUME TypeOK, DatasetIsReadable, LeaseInv, FreshInv, NEW t \in Realm, TabStep(t), ~Loads(t),
         ~Reload(t), ledger'.activeEpoch = ledger.activeEpoch
  PROVE  \/ base'[t] = base[t]
         \/ /\ 1 \in 1 .. Len(queue[t]) /\ base'[t] = queue[t][1].items
            /\ LiveIn(queue[t], 1, ledger.activeEpoch, leaseHydrated[t])
  <1>0. base \in [Realm -> SUBSET Item] BY DEF TypeOK
  <1>1. CASE ExecWrite(t)
    <2>1. CASE ~FenceAccepts(t, Head(queue[t])) BY <1>1, <2>1 DEF ExecWrite
    <2>2. CASE FenceAccepts(t, Head(queue[t]))
      <3>1. base' = At(base, t, Head(queue[t]).items) BY <1>1, <2>2 DEF ExecWrite
      <3>2. base'[t] = Head(queue[t]).items BY <1>0, <3>1 DEF At
      <3> QED BY <1>1, <2>2, <3>2, AcceptedWrite
    <2> QED BY <2>1, <2>2
  <1>2. CASE HandleNotice(t) \/ Reconcile(t) BY <1>2 DEF Loads, Reconcile, NoHydration
  <1>3. CASE CommitDeletion(t)
    <2>1. ~LeaseActive(Head(queue[t]).epoch)
      <3> SUFFICES ASSUME LeaseActive(Head(queue[t]).epoch) PROVE FALSE OBVIOUS
      <3>1. ledger' = Committed(Head(queue[t]).epoch) BY <1>3 DEF CommitDeletion
      <3>2. ledger'.activeEpoch = Head(queue[t]).epoch BY <3>1 DEF Committed
      <3> QED BY <3>2, LedgerType DEF LeaseActive, DatasetIsReadable
    <2> QED BY <1>3, <2>1 DEF CommitDeletion
  <1>4. CASE \/ Edit(t) \/ Begin(t) \/ AcquireLease(t) \/ FindLeaseBusy(t) \/ RetryAcquire(t)
             \/ StartRecovery(t) \/ Recover(t) \/ AppendTombstones(t) \/ PurgeAndPersist(t)
             \/ IssueRestoreCommit(t) \/ CommitRestore(t) \/ AbortLease(t) \/ FailRestore(t)
             \/ PresenceRead(t)
    <2>1. base' = base
      BY <1>4 DEF Edit, AddItem, RemoveItem, Begin, StartDelete, StartRestore, Start, AcquireLease,
         FindLeaseBusy, RetryAcquire, StartRecovery, Recover, AppendTombstones, PurgeAndPersist,
         IssueRestoreCommit, CommitRestore, AbortLease, FailRestore, PresenceRead
    <2> QED BY <2>1
  <1> QED BY <1>1, <1>2, <1>3, <1>4 DEF TabStep, Proceed, Loads

\* A Replace about to be committed stays so, whatever else its tab does.
LEMMA ReplacingStays ==
  ASSUME TypeOK, LeaseInv, FreshInv, DatasetIsReadable, NEW t \in Realm, TabStep(t), ~Reload(t),
         TabsInv, Replacing(t), ledger'.activeEpoch = ledger.activeEpoch
  PROVE  Replacing(t)'
  <1>0. op \in [Realm -> Ops] /\ op[t] # NoOp BY DEF TypeOK, Replacing, NoOp
  <1>1. CASE op' = op BY <1>1 DEF Replacing
  <1>2. ~(Edit(t) \/ Boot(t) \/ ExecWrite(t) \/ StartRecovery(t) \/ Recover(t) \/ HandleNotice(t)
          \/ Reconcile(t) \/ PresenceRead(t) \/ CommitDeletion(t)) \/ op' = op
    BY DEF Edit, AddItem, RemoveItem, Boot, ExecWrite, StartRecovery, Recover, HandleNotice,
       Reconcile, PresenceRead, CommitDeletion, Replacing
  <1>3. ~(Begin(t) \/ RetryAcquire(t) \/ ReloadForDelete(t) \/ PurgeAndPersist(t)
          \/ IssueRestoreCommit(t) \/ FailRestore(t))
    BY <1>0 DEF Begin, StartDelete, StartRestore, Start, RetryAcquire, ReloadForDelete,
       PurgeAndPersist, IssueRestoreCommit, FailRestore, Replacing
  <1>4. ~(AcquireLease(t) \/ FindLeaseBusy(t) \/ AppendTombstones(t) \/ AbortLease(t))
    <2>1. ASSUME NEW type \in {"acquire", "append", "abort"}, Turn(t, type) PROVE FALSE
      <3>1. Awaited(Head(queue[t]), op[t]) /\ Head(queue[t]).type = type
        BY <2>1, HeadOf DEF LeaseInv, QueuesMatch, Orderly, Promises
      <3> QED BY <3>1 DEF Awaited, Replacing
    <2> QED BY <2>1 DEF AcquireLease, FindLeaseBusy, AppendTombstones, AbortLease
  <1>5. ~CommitRestore(t)
    <2> SUFFICES ASSUME CommitRestore(t) PROVE FALSE OBVIOUS
    <2>1. Turn(t, "commitRestore") BY DEF CommitRestore
    <2>2. Awaited(Head(queue[t]), op[t]) /\ Head(queue[t]).type = "commitRestore"
      BY <2>1, HeadOf DEF LeaseInv, QueuesMatch, Orderly, Promises
    <2>3. Head(queue[t]).epoch = op[t].epoch BY <2>2 DEF Awaited
    <2>4. Holding(op[t]) BY DEF Holding, Replacing
    <2>5. LeaseActive(Head(queue[t]).epoch) BY <2>3, <2>4 DEF FreshInv, OwnLeaseHeld
    <2>6. ledger' = Committed(Head(queue[t]).epoch) BY <2>5 DEF CommitRestore
    <2>7. ledger'.activeEpoch = Head(queue[t]).epoch BY <2>6 DEF Committed
    <2> QED BY <2>5, <2>7, LedgerType DEF LeaseActive, DatasetIsReadable
  <1> QED BY <1>1, <1>2, <1>3, <1>4, <1>5 DEF TabStep, Proceed

\* A drifting step keeps a tab covered, if what leaves its live store is explained.
LEMMA CoveredDrift ==
  ASSUME TypeOK, NEW t \in Realm, CoveredTab(t), ~Replacing(t), Drifts(t),
         ledger'.activeEpoch = ledger.activeEpoch, Explained \subseteq Explained',
         UpToDate(hydrated'[t], leaseHydrated'[t]) =>
            \A i \in memory[t] : i \in memory'[t] \/ i \in Explained',
         \/ base'[t] = base[t]
         \/ /\ 1 \in 1 .. Len(queue[t]) /\ base'[t] = queue[t][1].items
            /\ LiveIn(queue[t], 1, ledger.activeEpoch, leaseHydrated[t])
  PROVE  CoveredTab(t)'
  <1> DEFINE Shows == UpToDate(hydrated[t], leaseHydrated[t])
             ShowsNext == UpToDate(hydrated'[t], leaseHydrated'[t])
             Live(k) == LiveIn(queue[t], k, ledger.activeEpoch, leaseHydrated[t])
             LiveNext(k) == LiveIn(queue'[t], k, ledger.activeEpoch, leaseHydrated'[t])
             Left(new, old) == \A i \in old : i \in new \/ i \in Explained'
             Q == 1 .. Len(queue[t])
             QNext == 1 .. Len(queue'[t])
  <1>0. Len(queue[t]) \in Nat BY DEF TypeOK
  <1>a. /\ Shows => Left(memory[t], base[t])
        /\ \A k \in Q : Live(k) => Left(queue[t][k].items, base[t])
        /\ \A k \in Q : Live(k) /\ Shows => Left(memory[t], queue[t][k].items)
        /\ \A k, j \in Q : Live(k) /\ Live(j) /\ j < k => Left(queue[t][k].items, queue[t][j].items)
    BY DEF CoveredTab, Covers
  <1>b. /\ ShowsNext => Shows /\ Left(memory'[t], memory[t])
        /\ \E d \in {0, 1} : \A k \in QNext : LiveNext(k) =>
             \/ k + d \in Q /\ queue'[t][k] = queue[t][k + d] /\ Live(k + d)
             \/ k = Len(queue'[t]) /\ queue'[t][k].items = memory'[t] /\ ShowsNext
    BY DEF Drifts
  <1>c. base'[t] = base[t] \/ (1 \in Q /\ base'[t] = queue[t][1].items /\ Live(1)) OBVIOUS
  <1>g. /\ ShowsNext => Left(memory'[t], base'[t])
        /\ \A k \in QNext : LiveNext(k) =>
             /\ Left(queue'[t][k].items, base'[t])
             /\ ShowsNext => Left(memory'[t], queue'[t][k].items)
             /\ \A j \in QNext : j < k /\ LiveNext(j) => Left(queue'[t][k].items, queue'[t][j].items)
    <2> HIDE DEF Shows, ShowsNext, Live, LiveNext
    <2>t. \A x, y, z : Left(y, x) /\ Left(z, y) => Left(z, x) OBVIOUS
    <2> PICK d \in {0, 1} : \A k \in QNext : LiveNext(k) =>
             \/ k + d \in Q /\ queue'[t][k] = queue[t][k + d] /\ Live(k + d)
             \/ k = Len(queue'[t]) /\ queue'[t][k].items = memory'[t] /\ ShowsNext
      BY <1>b
    <2>1. ShowsNext => Left(memory[t], base'[t])
      BY <1>a, <1>b, <1>c
    <2>2. ShowsNext => Left(memory'[t], base'[t]) BY <1>b, <2>1, <2>t
    <2>3. ASSUME NEW k \in QNext, LiveNext(k) PROVE Left(queue'[t][k].items, base'[t])
      <3>1. CASE k + d \in Q /\ queue'[t][k] = queue[t][k + d] /\ Live(k + d)
        <4>1. CASE base'[t] = base[t] BY <1>a, <3>1, <4>1
        <4>2. CASE 1 \in Q /\ base'[t] = queue[t][1].items /\ Live(1)
          <5>1. CASE k + d = 1 BY <3>1, <4>2, <5>1
          <5>2. CASE k + d # 1
            <6>1. 1 < k + d BY <1>0, <3>1, <5>2
            <6> QED BY <1>a, <3>1, <4>2, <6>1
          <5> QED BY <5>1, <5>2
        <4> QED BY <1>c, <4>1, <4>2
      <3>2. CASE queue'[t][k].items = memory'[t] /\ ShowsNext BY <2>2, <3>2
      <3> QED BY <2>3, <3>1, <3>2
    <2>4. ASSUME NEW k \in QNext, LiveNext(k), ShowsNext PROVE Left(memory'[t], queue'[t][k].items)
      <3>1. CASE k + d \in Q /\ queue'[t][k] = queue[t][k + d] /\ Live(k + d)
        <4>1. Left(memory[t], queue[t][k + d].items) BY <1>a, <1>b, <2>4, <3>1
        <4> QED BY <1>b, <2>4, <3>1, <4>1, <2>t
      <3>2. CASE queue'[t][k].items = memory'[t] BY <3>2
      <3> QED BY <2>4, <3>1, <3>2
    <2>5. ASSUME NEW k \in QNext, LiveNext(k), NEW j \in QNext, j < k, LiveNext(j)
          PROVE  Left(queue'[t][k].items, queue'[t][j].items)
      <3>1. j # Len(queue'[t]) BY <2>5
      <3>2. j + d \in Q /\ queue'[t][j] = queue[t][j + d] /\ Live(j + d) BY <2>5, <3>1
      <3>3. CASE k + d \in Q /\ queue'[t][k] = queue[t][k + d] /\ Live(k + d)
        <4>1. j + d < k + d BY <2>5
        <4> QED BY <1>a, <3>2, <3>3, <4>1
      <3>4. CASE queue'[t][k].items = memory'[t] /\ ShowsNext BY <2>4, <2>5, <3>4
      <3> QED BY <2>5, <3>3, <3>4
    <2> QED BY <2>2, <2>3, <2>4, <2>5
  <1>h. UpToDate(hydrated[t], leaseHydrated[t])' = ShowsNext BY DEF UpToDate
  <1> QED BY <1>g, <1>h DEF CoveredTab, Covers

\* Stores that load are covered.
LEMMA CoveredLoad ==
  ASSUME TypeOK, TabsInv, NEW t \in Realm, Loads(t), ~OvertakesWrite(t), ~HandlesLate(t),
         ledger'.activeEpoch = ledger.activeEpoch, Explained \subseteq Explained'
  PROVE  CoveredTab(t)'
  <1> DEFINE ShowsNext == UpToDate(hydrated'[t], leaseHydrated'[t])
             LiveNext(k) == LiveIn(queue'[t], k, ledger.activeEpoch, leaseHydrated'[t])
             Left(new, old) == \A i \in old : i \in new \/ i \in Explained'
             QNext == 1 .. Len(queue'[t])
  <1>1. /\ memory'[t] \subseteq Readable /\ base'[t] = Readable
        /\ \A k \in QNext : LiveNext(k) =>
             \/ queue'[t][k].items = Readable
             \/ k = Len(queue'[t]) /\ queue'[t][k].items = memory'[t] /\ ShowsNext
    BY LoadedWrites DEF TabsInv
  <1>2. ShowsNext => Left(memory'[t], Readable) BY LoadsExplained
  <1>g. /\ ShowsNext => Left(memory'[t], base'[t])
        /\ \A k \in QNext : LiveNext(k) =>
             /\ Left(queue'[t][k].items, base'[t])
             /\ ShowsNext => Left(memory'[t], queue'[t][k].items)
             /\ \A j \in QNext : j < k /\ LiveNext(j) => Left(queue'[t][k].items, queue'[t][j].items)
    <2> HIDE DEF ShowsNext, LiveNext
    <2>1. ASSUME NEW k \in QNext, LiveNext(k)
          PROVE  /\ Left(queue'[t][k].items, Readable)
                 /\ ShowsNext => Left(memory'[t], queue'[t][k].items)
                 /\ queue'[t][k].items = Readable \/ k = Len(queue'[t])
      <3>1. CASE queue'[t][k].items = Readable BY <1>2, <3>1
      <3>2. CASE k = Len(queue'[t]) /\ queue'[t][k].items = memory'[t] /\ ShowsNext BY <1>2, <3>2
      <3> QED BY <1>1, <2>1, <3>1, <3>2
    <2>2. ASSUME NEW k \in QNext, LiveNext(k), NEW j \in QNext, j < k, LiveNext(j)
          PROVE  Left(queue'[t][k].items, queue'[t][j].items)
      <3>1. j # Len(queue'[t]) BY <2>2
      <3>2. queue'[t][j].items = Readable BY <2>1, <2>2, <3>1
      <3> QED BY <2>1, <2>2, <3>2
    <2> QED BY <1>1, <1>2, <2>1, <2>2
  <1>h. UpToDate(hydrated[t], leaseHydrated[t])' = ShowsNext BY DEF UpToDate
  <1> QED BY <1>g, <1>h DEF CoveredTab, Covers

\* A deletion is committed from stores that show what it asked for, but for what is explained.
LEMMA CommitterCovered ==
  ASSUME TypeOK, LeaseInv, RefinementInv, NEW t \in Realm, CommitCovered(t), CommitDeletion(t),
         LeaseActive(Head(queue[t]).epoch), ~HelpsUnpurged(t)
  PROVE  Covers(memory[t], Head(queue[t]).items)
  <1>0. Turn(t, "commitDeletion") BY DEF CommitDeletion
  <1>1. CASE op[t].epoch # ledger.restoreEpoch
    <2>1. Head(queue[t]).items \ memory[t] \subseteq Explained BY <1>1 DEF HelpsUnpurged
    <2> QED BY <2>1 DEF Covers
  <1>2. CASE op[t].epoch = ledger.restoreEpoch
    <2>1. /\ 1 \in 1 .. Len(queue[t]) /\ Head(queue[t]) = queue[t][1]
          /\ queue[t][1].type = "commitDeletion"
      BY <1>0, HeadOf
    <2>2. ledger.tombstones # {} BY <2>1 DEF RefinementInv, CommitsAreDoomed
    <2>3. op[t].kind = "delete" BY <1>2, <2>2 DEF LeaseInv, DoomedByDeletion
    <2>4. LeaseActive(op[t].epoch) BY <1>2 DEF LeaseActive
    <2> QED BY <2>1, <2>3, <2>4 DEF CommitCovered
  <1> QED BY <1>1, <1>2

\* The commit of a deletion explains what its tombstones did.
LEMMA CommitExplains ==
  ASSUME TypeOK, NEW t \in Realm, CommitDeletion(t), LeaseActive(Head(queue[t]).epoch)
  PROVE  Explained' = Explained
  <1>1. /\ ledger' = Committed(Head(queue[t]).epoch)
        /\ erased' = erased \cup ledger.tombstones /\ removed' = removed
    BY DEF CommitDeletion
  <1>2. ledger'.tombstones = {} BY <1>1 DEF Committed
  <1>3. erased' \cup ledger'.tombstones = erased \cup ledger.tombstones BY <1>1, <1>2
  <1> QED BY <1>1, <1>3 DEF Explained, Ruined

\* No careful step lets a tab lose by itself what nothing took.
LEMMA CoveredTabStep ==
  ASSUME TypeOK, TypeOK', DatasetIsReadable, LeaseInv, RefinementInv, TabsInv, FreshInv,
         CarefulInv, [CarefulNext]_vars, NEW t \in Realm
  PROVE  CoveredTab(t)'
  <1>n. [Next]_vars BY DEF CarefulNext, FreshNext
  <1>c. CoveredTab(t) /\ DeleterBehind(t) /\ CommitCovered(t) BY DEF CarefulInv
  <1>0. /\ op \in [Realm -> Ops] /\ base \in [Realm -> SUBSET Item]
        /\ memory \in [Realm -> SUBSET Item] /\ queue \in [Realm -> Seq(Requests)]
    BY DEF TypeOK
  <1>1. CASE UNCHANGED vars
    BY <1>c, <1>1 DEF vars, durable, realms, history, CoveredTab, UpToDate, Replacing, Covers,
       Explained, Ruined
  <1>2. ASSUME NEW s \in Realm, TabStep(s), ledger'.activeEpoch = ledger.activeEpoch,
               ~UNCHANGED vars
        PROVE  CoveredTab(t)'
    <2>1. Explained \subseteq Explained' BY <1>n, <1>2, ExplainedGrows
    <2>2. CASE s # t
      <3>1. Tab(t)' = Tab(t) BY <1>2, <2>2, OthersKeep
      <3>2. /\ op'[t] = op[t] /\ queue'[t] = queue[t] /\ memory'[t] = memory[t]
            /\ base'[t] = base[t] /\ leaseHydrated'[t] = leaseHydrated[t]
            /\ hydrated'[t] = hydrated[t]
        BY <3>1 DEF Tab
      <3> QED BY <1>2, <1>c, <2>1, <3>2 DEF CoveredTab, UpToDate, Replacing, Covers
    <2>3. CASE s = t
      <3>0. ~WakesStale(t) /\ ~OvertakesWrite(t)
        BY <1>2, Zenon DEF CarefulNext, FreshNext, ActsStale
      <3>h. ~HandlesLate(t) BY <1>2, Zenon DEF CarefulNext
      <3>1. CASE Loads(t) BY <1>2, <2>1, <3>0, <3>h, <3>1, CoveredLoad DEF TabsInv
      <3>2. CASE Reload(t)
        <4>1. base'[t] = {} /\ queue'[t] = <<>> BY <1>0, <3>2 DEF Reload, At
        <4>2. Len(queue'[t]) = 0 BY <4>1, EmptySeq
        <4> QED BY <4>1, <4>2 DEF CoveredTab, Covers
      <3>3. CASE IssueRestoreCommit(t)
        <4>1. op'[t].kind = "restore" /\ op'[t].step = "commit"
          BY <1>0, <3>3, StepToFields DEF IssueRestoreCommit
        <4> QED BY <4>1 DEF CoveredTab, Replacing
      <3>4. CASE Replacing(t)' BY <3>4 DEF CoveredTab
      <3>5. CASE ~Loads(t) /\ ~Reload(t) /\ ~IssueRestoreCommit(t) /\ ~Replacing(t)'
        <4>1. ~Replacing(t) BY <1>2, <2>3, <3>5, ReplacingStays
        <4>2. Drifts(t)
          <5>1. HandleNotice(t) => NoHydration(t) BY <3>5 DEF Loads
          <5> QED BY <1>2, <2>3, <3>0, <3>5, <5>1, DriftingStep DEF TabStep, Proceed, Loads
        <4>3. UpToDate(hydrated'[t], leaseHydrated'[t]) =>
                \A i \in memory[t] : i \in memory'[t] \/ i \in Explained'
          BY <1>n, <1>2, <1>c, <2>3, <3>h, <3>5, MemoryExplained
        <4>4. \/ base'[t] = base[t]
              \/ /\ 1 \in 1 .. Len(queue[t]) /\ base'[t] = queue[t][1].items
                 /\ LiveIn(queue[t], 1, ledger.activeEpoch, leaseHydrated[t])
          BY <1>2, <2>3, <3>5, BaseDrift
        <4> QED BY <1>2, <1>c, <2>1, <4>1, <4>2, <4>3, <4>4, CoveredDrift
      <3> QED BY <3>1, <3>2, <3>3, <3>4, <3>5
    <2> QED BY <2>2, <2>3
  <1>3. ASSUME NEW s \in Realm, TabStep(s), ledger'.activeEpoch # ledger.activeEpoch,
               ~UNCHANGED vars
        PROVE  CoveredTab(t)'
    <2>1. /\ \A k \in 1 .. Len(queue'[t]) :
              ~LiveIn(queue'[t], k, ledger'.activeEpoch, leaseHydrated'[t])
          /\ UpToDate(hydrated[t], leaseHydrated[t])' => t = s /\ CommitDeletion(s)
      BY <1>n, <1>3, NoLiveBehind DEF TabsInv
    <2>2. ASSUME t = s, CommitDeletion(s) PROVE Covers(memory[t], base[t])'
      <3>1. LeaseActive(Head(queue[t]).epoch)
        BY <1>3, <2>2 DEF CommitDeletion, durable
      <3>2. memory' = memory /\ base' = At(base, t, Head(queue[t]).items)
        BY <2>2, <3>1 DEF CommitDeletion
      <3>3. base'[t] = Head(queue[t]).items BY <1>0, <3>2 DEF At
      <3>4. ~HelpsUnpurged(t) BY <1>3, Zenon DEF CarefulNext, FreshNext, ActsStale
      <3>5. Covers(memory[t], Head(queue[t]).items)
        BY <1>c, <2>2, <3>1, <3>4, CommitterCovered
      <3>6. Explained' = Explained BY <2>2, <3>1, CommitExplains
      <3> QED BY <3>2, <3>3, <3>5, <3>6 DEF Covers
    <2> QED BY <2>1, <2>2 DEF CoveredTab
  <1> QED BY <1>1, <1>2, <1>3, <1>n, StepOfTab

\* A deletion past its last refusal was so, or has just recorded its tombstones,
\* or has just purged its stores.
LEMMA DoomedSource ==
  ASSUME TypeOK, TabsInv, [Next]_vars, NEW t \in Realm,
         op'[t].kind = "delete", op'[t].step \in {"recorded", "commit"}
  PROVE  \/ op'[t] = op[t]
         \/ /\ PurgeAndPersist(t) /\ op[t].kind = "delete" /\ op[t].step = "recorded"
            /\ op'[t].epoch = op[t].epoch /\ op'[t].items = op[t].items
         \/ /\ AppendTombstones(t) /\ LeaseActive(Head(queue[t]).epoch)
            /\ op'[t].epoch = op[t].epoch
  <1>0. /\ op \in [Realm -> Ops] /\ NoOp.kind = "none"
    BY DEF TypeOK, NoOp
  <1>1. CASE UNCHANGED vars
    <2>1. op' = op BY <1>1 DEF vars, realms
    <2> QED BY <2>1
  <1>2. ASSUME NEW s \in Realm \ {t}, TabStep(s) PROVE op'[t] = op[t]
    <2>1. Tab(t)' = Tab(t) BY <1>2, OthersKeep
    <2> QED BY <2>1 DEF Tab
  <1>3. CASE TabStep(t)
    <2>1. CASE \/ Edit(t) \/ Boot(t) \/ ExecWrite(t) \/ StartRecovery(t) \/ Recover(t)
               \/ HandleNotice(t) \/ Reconcile(t) \/ PresenceRead(t)
      <3>1. op' = op
        BY <2>1 DEF Edit, AddItem, RemoveItem, Boot, ExecWrite, StartRecovery, Recover, HandleNotice,
           Reconcile, PresenceRead
      <3> QED BY <3>1
    <2>2. ~Begin(t)
      <3> SUFFICES ASSUME Begin(t) PROVE FALSE OBVIOUS
      <3>1. PICK kind, items :
              op' = At(op, t, [kind |-> kind, step |-> "acquire", epoch |-> Unset, items |-> items])
        BY DEF Begin, StartDelete, StartRestore, Start
      <3>2. op'[t].step = "acquire" BY <1>0, <3>1, AtFields
      <3> QED BY <3>2
    <2>3. ~(FindLeaseBusy(t) \/ RetryAcquire(t) \/ ReloadForDelete(t) \/ FailRestore(t))
      <3> SUFFICES ASSUME FindLeaseBusy(t) \/ RetryAcquire(t) \/ ReloadForDelete(t) \/ FailRestore(t)
                   PROVE  FALSE
        OBVIOUS
      <3>1. op'[t].step \in {"wait", "acquire", "append", "abort"}
        BY <1>0, StepToFields DEF FindLeaseBusy, RetryAcquire, ReloadForDelete, FailRestore
      <3> QED BY <3>1
    <2>4. ~AcquireLease(t)
      <3> SUFFICES ASSUME AcquireLease(t) PROVE FALSE OBVIOUS
      <3>1. op'[t] = [op[t] EXCEPT !.step = "leased", !.epoch = NextEpoch]
        BY <1>0, AtFields DEF AcquireLease
      <3>2. op'[t].step = "leased" BY <1>0, <3>1 DEF Ops
      <3> QED BY <3>2
    <2>5. CASE AppendTombstones(t)
      <3>1. CASE LeaseActive(Head(queue[t]).epoch)
        <4>1. StepTo(t, "recorded") BY <2>5, <3>1 DEF AppendTombstones
        <4>2. op'[t].epoch = op[t].epoch BY <1>0, <4>1, StepToFields
        <4> QED BY <2>5, <3>1, <4>2
      <3>2. CASE ~LeaseActive(Head(queue[t]).epoch)
        <4>1. op'[t].step = "abort" BY <1>0, <2>5, <3>2, StepToFields DEF AppendTombstones
        <4> QED BY <4>1
      <3> QED BY <3>1, <3>2
    <2>6. CASE PurgeAndPersist(t)
      <3>1. op[t].kind = "delete" /\ op[t].step = "recorded" BY <2>6 DEF PurgeAndPersist
      <3>2. StepTo(t, "commit") \/ op' = At(op, t, NoOp) BY <2>6 DEF PurgeAndPersist
      <3>3. op'[t].epoch = op[t].epoch /\ op'[t].items = op[t].items
        BY <1>0, <3>2, StepToFields, AtFields
      <3> QED BY <2>6, <3>1, <3>3
    <2>7. CASE CommitDeletion(t)
      <3>1. op[t].kind # "delete" \/ op'[t] = NoOp BY <1>0, <2>7, AtFields DEF CommitDeletion
      <3>2. op[t].kind # "delete" => op' = op BY <2>7 DEF CommitDeletion
      <3> QED BY <1>0, <3>1, <3>2
    <2>8. ~(IssueRestoreCommit(t) \/ CommitRestore(t) \/ AbortLease(t) \/ Reload(t))
      <3> SUFFICES ASSUME IssueRestoreCommit(t) \/ CommitRestore(t) \/ AbortLease(t) \/ Reload(t)
                   PROVE  FALSE
        OBVIOUS
      <3>1. \/ op'[t].kind \in {"none", "restore"} \/ op'[t].step \in {"reload", "abort"}
        BY <1>0, StepToFields, AtFields DEF IssueRestoreCommit, CommitRestore, AbortLease, Reload
      <3> QED BY <3>1
    <2> QED BY <1>3, <2>1, <2>2, <2>3, <2>4, <2>5, <2>6, <2>7, <2>8 DEF TabStep, Proceed
  <1> QED BY <1>1, <1>2, <1>3, StepOfTab

\* A step that loads a tab's stores is not one of a deletion past its last refusal.
LEMMA DoomedLoadsNot ==
  ASSUME TypeOK, TabsInv, NEW t \in Realm, op[t].kind = "delete",
         op[t].step \in {"recorded", "commit"}
  PROVE  ~Loads(t)
  <1>1. booted[t]
    <2>1. ~booted[t] => op[t] = NoOp BY DEF TabsInv, ClosedTabsRest
    <2> QED BY <2>1 DEF NoOp
  <1> QED BY <1>1 DEF Loads, Boot, ReloadForDelete, HandleNotice, DestructiveLaneFree

\* A deletion that loses its lease to another tab's commit has stores that are behind.
LEMMA DeleterBehindStep ==
  ASSUME TypeOK, TypeOK', DatasetIsReadable, LeaseInv, RefinementInv, TabsInv, FreshInv,
         CarefulInv, [CarefulNext]_vars, NEW t \in Realm
  PROVE  DeleterBehind(t)'
  <1> SUFFICES ASSUME op'[t].kind = "delete", op'[t].step \in {"recorded", "commit"},
                      ~(ledger'.restoreInProgress /\ ledger'.restoreEpoch = op'[t].epoch),
                      UpToDate(hydrated[t], leaseHydrated[t])'
               PROVE  op'[t].items = {}
    BY DEF DeleterBehind, LeaseActive
  <1>n. [Next]_vars BY DEF CarefulNext, FreshNext
  <1>c. DeleterBehind(t) /\ DeleterLoaded(t) BY DEF CarefulInv, FreshInv
  <1>0. /\ op \in [Realm -> Ops] /\ ledger \in Ledgers /\ NoOp.kind = "none"
        /\ ledger.restoreEpoch \in Nat /\ ledger.activeEpoch \in Nat
    BY LedgerType DEF TypeOK, NoOp
  <1>k. ASSUME op[t].kind = "delete", op[t].step \in {"recorded", "commit"},
               op'[t].epoch = op[t].epoch, op'[t].items = op[t].items,
               ledger'.activeEpoch = ledger.activeEpoch, UpToDate(hydrated[t], leaseHydrated[t])
        PROVE  op'[t].items = {}
    <2>1. CASE ~LeaseActive(op[t].epoch) BY <1>c, <1>k, <2>1 DEF DeleterBehind
    <2>2. CASE LeaseActive(op[t].epoch)
      <3>1. ledger.tombstones = op[t].items BY <1>c, <1>k, <2>2 DEF DeleterLoaded
      <3>2. \A r \in Realm : ~AcquireLease(r) BY <2>2 DEF AcquireLease, LeaseActive
      <3>3. CASE ledger' = ledger BY <1>k, <2>2, <3>3 DEF LeaseActive
      <3>4. CASE ledger.tombstones = {} BY <1>k, <3>1, <3>4
      <3>5. ASSUME NEW e \in Nat, e >= ledger.restoreEpoch, ledger' = Committed(e) PROVE FALSE
        <4>1. ledger'.activeEpoch = e BY <3>5, LedgerFields
        <4> QED BY <1>0, <1>k, <2>2, <3>5, <4>1 DEF LeaseActive, DatasetIsReadable
      <3>6. ASSUME NEW items, ledger' = Condemned(ledger, items) PROVE FALSE
        <4>1. /\ ledger'.restoreEpoch = ledger.restoreEpoch
              /\ ledger'.restoreInProgress = ledger.restoreInProgress
          BY <3>6, LedgerFields
        <4> QED BY <1>k, <2>2, <4>1 DEF LeaseActive
      <3> QED BY <1>n, <3>2, <3>3, <3>4, <3>5, <3>6, LedgerSteady
    <2> QED BY <2>1, <2>2
  <1>a. ASSUME AppendTombstones(t), LeaseActive(Head(queue[t]).epoch), op'[t].epoch = op[t].epoch
        PROVE  FALSE
    <2>0. Turn(t, "append") BY <1>a DEF AppendTombstones
    <2>1. Awaited(Head(queue[t]), op[t])
      BY <2>0, HeadOf DEF LeaseInv, QueuesMatch, Orderly, Promises
    <2>2. Head(queue[t]).epoch = op[t].epoch BY <2>0, <2>1, HeadOf DEF Awaited
    <2>3. ledger' = Condemned(ledger, Head(queue[t]).items) BY <1>a DEF AppendTombstones
    <2>4. /\ ledger'.restoreEpoch = ledger.restoreEpoch
          /\ ledger'.restoreInProgress = ledger.restoreInProgress
      BY <2>3, LedgerFields
    <2> QED BY <1>a, <2>2, <2>4 DEF LeaseActive
  <1>d. \/ op'[t] = op[t]
        \/ /\ PurgeAndPersist(t) /\ op[t].kind = "delete" /\ op[t].step = "recorded"
           /\ op'[t].epoch = op[t].epoch /\ op'[t].items = op[t].items
    BY <1>n, <1>a, DoomedSource
  <1>e. /\ op[t].kind = "delete" /\ op[t].step \in {"recorded", "commit"}
        /\ op'[t].epoch = op[t].epoch /\ op'[t].items = op[t].items
    BY <1>d
  <1>1. CASE UNCHANGED vars
    <2>1. /\ ledger' = ledger /\ op' = op /\ hydrated' = hydrated /\ leaseHydrated' = leaseHydrated
      BY <1>1 DEF vars, durable, realms
    <2>2. UpToDate(hydrated[t], leaseHydrated[t]) BY <2>1 DEF UpToDate
    <2> QED BY <1>e, <1>k, <2>1, <2>2
  <1>2. ASSUME NEW s \in Realm, TabStep(s), ledger'.activeEpoch = ledger.activeEpoch,
               ~UNCHANGED vars
        PROVE  op'[t].items = {}
    <2>1. CASE s # t
      <3>1. Tab(t)' = Tab(t) BY <1>2, <2>1, OthersKeep
      <3>2. UpToDate(hydrated[t], leaseHydrated[t]) BY <1>2, <3>1 DEF Tab, UpToDate
      <3> QED BY <1>2, <1>e, <1>k, <3>2
    <2>2. CASE s = t
      <3>0. ~WakesStale(t) BY <1>2, Zenon DEF CarefulNext, FreshNext, ActsStale
      <3>1. ~Loads(t) BY <1>e, DoomedLoadsNot
      <3>2. Drifts(t)
        <4>1. HandleNotice(t) => NoHydration(t) BY <3>1 DEF Loads
        <4> QED BY <1>2, <2>2, <3>0, <3>1, <4>1, DriftingStep DEF TabStep, Proceed, Loads
      <3>3. UpToDate(hydrated[t], leaseHydrated[t]) BY <1>2, <3>2 DEF Drifts, UpToDate
      <3> QED BY <1>2, <1>e, <1>k, <3>3
    <2> QED BY <2>1, <2>2
  <1>3. ASSUME NEW s \in Realm, TabStep(s), ledger'.activeEpoch # ledger.activeEpoch
        PROVE  FALSE
    <2>1. CommitDeletion(t) BY <1>n, <1>3, NoLiveBehind DEF TabsInv
    <2>2. op'[t] = NoOp BY <1>0, <1>e, <2>1, AtFields DEF CommitDeletion
    <2> QED BY <1>0, <2>2
  <1> QED BY <1>1, <1>2, <1>3, <1>n, StepOfTab

\* What a deletion asked to commit stays shown, or explained.
LEMMA CommitCoveredStep ==
  ASSUME TypeOK, TypeOK', DatasetIsReadable, LeaseInv, LeaseInv', RefinementInv, TabsInv,
         FreshInv, FreshInv', CarefulInv, [CarefulNext]_vars, NEW t \in Realm
  PROVE  CommitCovered(t)'
  <1> SUFFICES ASSUME NEW k \in 1 .. Len(queue'[t]), queue'[t][k].type = "commitDeletion",
                      op'[t].kind = "delete",
                      ledger'.restoreInProgress, ledger'.restoreEpoch = op'[t].epoch,
                      ledger'.restoreEpoch = queue'[t][k].epoch
               PROVE  \A i \in queue'[t][k].items : i \in memory'[t] \/ i \in Explained'
    BY DEF CommitCovered, LeaseActive, Covers
  <1>n. [Next]_vars BY DEF CarefulNext, FreshNext
  <1>c. DeleterBehind(t) /\ CommitCovered(t) BY DEF CarefulInv
  <1>0. op \in [Realm -> Ops] /\ NoOp.kind = "none" BY DEF TypeOK, NoOp
  <1>1. op'[t].step = "commit" BY DEF LeaseInv, QueuesMatch, Orderly, OwnCommit
  <1>2. CASE Issues(t, queue'[t][k]) BY <1>2 DEF Issues
  <1>3. ASSUME NEW j \in 1 .. Len(queue[t]), queue[t][j] = queue'[t][k]
        PROVE  \A i \in queue'[t][k].items : i \in memory'[t] \/ i \in Explained'
    <2>1. op[t].kind = "delete" => op[t].step = "commit"
      BY <1>3 DEF LeaseInv, QueuesMatch, Orderly, OwnCommit
    <2>2. ~AppendTombstones(t) \/ op'[t] = op[t]
      <3> SUFFICES ASSUME AppendTombstones(t) PROVE FALSE OBVIOUS
      <3>1. StepTo(t, "recorded") \/ StepTo(t, "abort") BY DEF AppendTombstones
      <3> QED BY <1>0, <1>1, <3>1, StepToFields
    <2>3. op'[t] = op[t] BY <1>n, <1>1, <2>1, <2>2, DoomedSource
    <2>4. LeaseActive(op[t].epoch) /\ ledger'.activeEpoch = ledger.activeEpoch
      BY <1>n, <2>3, LeaseStays
    <2>5. LeaseActive(queue[t][j].epoch) BY <1>3, <2>3, <2>4 DEF LeaseActive
    <2>6. Covers(memory[t], queue[t][j].items)
      BY <1>c, <1>3, <2>3, <2>4, <2>5 DEF CommitCovered
    <2>7. Explained \subseteq Explained' BY <1>n, <2>4, ExplainedGrows
    <2>8. \A i \in memory[t] : i \in memory'[t] \/ i \in Explained'
      <3>1. CASE UNCHANGED vars
        <4>1. memory' = memory BY <3>1 DEF vars, realms
        <4> QED BY <4>1
      <3>2. ASSUME NEW s \in Realm \ {t}, TabStep(s) PROVE memory'[t] = memory[t]
        <4>1. Tab(t)' = Tab(t) BY <3>2, OthersKeep
        <4> QED BY <4>1 DEF Tab
      <3>3. CASE TabStep(t) /\ ~UNCHANGED vars
        <4>1. ~Loads(t) BY <1>1, <2>3, DoomedLoadsNot
        <4>2. ~Reload(t) /\ ~IssueRestoreCommit(t)
          <5>1. Reload(t) => op'[t] = NoOp BY <1>0, AtFields DEF Reload
          <5> QED BY <1>0, <2>3, <5>1 DEF IssueRestoreCommit
        <4>3. ~HandlesLate(t) BY <3>3, Zenon DEF CarefulNext
        <4>4. leaseHydrated'[t] = ledger'.activeEpoch
          BY <1>1 DEF FreshInv, DeleterLoaded, LeaseActive
        <4>5. UpToDate(hydrated'[t], leaseHydrated'[t]) BY <2>4, <4>4 DEF UpToDate
        <4> QED BY <1>n, <1>c, <2>4, <3>3, <4>1, <4>2, <4>3, <4>5, MemoryExplained
      <3> QED BY <1>n, <3>1, <3>2, <3>3, StepOfTab
    <2> QED BY <1>3, <2>6, <2>7, <2>8 DEF Covers
  <1> QED BY <1>n, <1>2, <1>3, QueueSource DEF TabsInv

\* A write that the fence takes drops of its tab's merge base only what is explained.
LEMMA WriteExplained ==
  ASSUME TypeOK, DatasetIsReadable, LeaseInv, FreshInv, NEW t \in Realm, CoveredTab(t),
         ExecWrite(t), FenceAccepts(t, Head(queue[t])),
         row'.items = Sanitize(Merge(base[t], Head(queue[t]).items, Active), ledger.tombstones),
         NEW i \in row.items \ row'.items
  PROVE  i \in removed \/ i \in erased \/ Owner[i] \in erased
  <1>1. ~ledger.restoreInProgress BY DEF FenceAccepts
  <1>2. ledger.tombstones = {} BY <1>1 DEF LeaseInv, DoomedByDeletion
  <1>3. ~Replacing(t)
    <2>1. Replacing(t) => Holding(op[t]) BY DEF Replacing, Holding
    <2> QED BY <1>1, <2>1 DEF FreshInv, OwnLeaseHeld, LeaseActive
  <1>4. /\ 1 \in 1 .. Len(queue[t]) /\ Head(queue[t]) = queue[t][1]
        /\ LiveIn(queue[t], 1, ledger.activeEpoch, leaseHydrated[t])
    BY AcceptedWrite
  <1>5. Covers(queue[t][1].items, base[t]) BY <1>3, <1>4 DEF CoveredTab
  <1>6. i \in base[t] /\ i \notin Head(queue[t]).items
    BY <1>2 DEF Sanitize, Merge, Active, DatasetIsReadable
  <1>7. i \in Explained BY <1>4, <1>5, <1>6 DEF Covers
  <1> QED BY <1>2, <1>7 DEF Explained, Ruined

\* What the dataset loses at a step is explained.
LEMMA LossStep ==
  ASSUME TypeOK, DatasetIsReadable, LeaseInv, RefinementInv, FreshInv, CarefulInv, [Next]_vars,
         NEW i \in row.items \ row'.items
  PROVE  \/ i \in removed
         \/ i \in erased' \/ Owner[i] \in erased'
         \/ (ledger'.activeEpoch # ledger.activeEpoch /\ ledger.tombstones = {})
  <1>a. Active = row.items /\ row.items \in SUBSET Item
    BY DEF Active, DatasetIsReadable, TypeOK
  <1>d. ASSUME row'.items = Sanitize(row.items, ledger.tombstones),
               erased' = erased \cup ledger.tombstones
        PROVE  i \in erased' \/ Owner[i] \in erased'
    BY <1>d DEF Sanitize
  <1>1. CASE UNCHANGED vars BY <1>1 DEF vars, durable
  <1>2. CASE ledger'.activeEpoch = ledger.activeEpoch
    <2>1. erased' = erased BY <1>2, SharedStep
    <2>2. row' # row OBVIOUS
    <2>3. PICK t \in Realm :
              /\ ExecWrite(t) /\ FenceAccepts(t, Head(queue[t]))
              /\ row'.items = Sanitize(Merge(base[t], Head(queue[t]).items, Active), ledger.tombstones)
      BY <1>2, <2>2, RowStep
    <2>4. CoveredTab(t) BY DEF CarefulInv
    <2> QED BY <2>1, <2>3, <2>4, WriteExplained
  <1>3. ASSUME NEW s \in Realm, TabStep(s), ledger'.activeEpoch # ledger.activeEpoch
        PROVE  i \in erased' \/ Owner[i] \in erased' \/ ledger.tombstones = {}
    <2>1. Recover(s) \/ CommitDeletion(s) \/ CommitRestore(s) BY <1>3, EpochMoves
    <2>2. CASE Recover(s)
      <3>1. ledger' # ledger BY <1>3
      <3>2. LeaseActive(Head(queue[s]).epoch) /\ HoldsPendingDeletion
        <4>1. Settled(ledger).activeEpoch = ledger.activeEpoch BY DEF Settled, TypeOK, Ledgers
        <4> QED BY <1>3, <2>2, <4>1, RecoverCases
      <3>3. row' = [epoch |-> NextEpoch, items |-> Readable] /\ erased' = erased \cup ledger.tombstones
        BY <2>2, <3>2 DEF Recover, DatasetIsReadable
      <3>4. row'.items = Sanitize(row.items, ledger.tombstones) BY <1>a, <3>3 DEF Readable
      <3> QED BY <1>d, <3>3, <3>4
    <2>3. CASE CommitDeletion(s)
      <3>1. LeaseActive(Head(queue[s]).epoch) BY <1>3, <2>3 DEF CommitDeletion, durable
      <3>2. ledger.tombstones # {}
        BY <2>3, <3>1, HeadOf DEF CommitDeletion, RefinementInv, CommitsAreDoomed
      <3>3. ledger.tombstones \ ledger.revive = ledger.tombstones
        BY <3>2 DEF LeaseInv, DoomedByDeletion
      <3>4. /\ row' = [epoch |-> Head(queue[s]).epoch,
                       items |-> Sanitize(row.items, ledger.tombstones \ ledger.revive)]
            /\ erased' = erased \cup ledger.tombstones
        BY <2>3, <3>1 DEF CommitDeletion
      <3>5. row'.items = Sanitize(row.items, ledger.tombstones) BY <3>3, <3>4
      <3> QED BY <1>d, <3>4, <3>5
    <2>4. CASE CommitRestore(s)
      <3>0. Turn(s, "commitRestore") BY <2>4 DEF CommitRestore
      <3>1. LeaseActive(Head(queue[s]).epoch) BY <1>3, <2>4 DEF CommitRestore, durable
      <3>2. op[s].kind = "restore" /\ Head(queue[s]).epoch = op[s].epoch
        <4>1. Awaited(Head(queue[s]), op[s])
          BY <3>0, HeadOf DEF LeaseInv, QueuesMatch, Orderly, Promises
        <4> QED BY <3>0, <4>1, HeadOf DEF Awaited
      <3> QED BY <3>1, <3>2 DEF LeaseInv, DoomedByDeletion, LeaseActive
    <2> QED BY <2>1, <2>2, <2>3, <2>4
  <1> QED BY <1>1, <1>2, <1>3, StepOfTab

\* Careful tabs are fresh ones.
LEMMA CarefulIsFresh == CarefulSpec => FreshSpec
  <1>1. [CarefulNext]_vars => [FreshNext]_vars BY DEF CarefulNext
  <1> QED BY <1>1, PTL DEF CarefulSpec, FreshSpec

\* While tabs are careful, each one is covered.
LEMMA CarefulInvHolds == CarefulSpec => []CarefulInv
  <1>1. Init => CarefulInv
    <2> SUFFICES ASSUME Init PROVE CarefulInv OBVIOUS
    <2>1. Len(<<>>) = 0 BY EmptySeq
    <2>2. \A t \in Realm : CoveredTab(t) /\ DeleterBehind(t) /\ CommitCovered(t)
      BY <2>1 DEF Init, CoveredTab, Covers, DeleterBehind, CommitCovered, NoOp
    <2> QED BY <2>2 DEF CarefulInv
  <1>2. TypeOK /\ TypeOK' /\ DatasetIsReadable /\ LeaseInv /\ LeaseInv' /\ RefinementInv /\ TabsInv
          /\ FreshInv /\ FreshInv' /\ CarefulInv /\ [CarefulNext]_vars => CarefulInv'
    BY CoveredTabStep, DeleterBehindStep, CommitCoveredStep DEF CarefulInv
  <1> QED BY <1>1, <1>2, CarefulIsFresh, FreshIsReal, FreshInvHolds, TypeCorrect,
             DatasetStaysReadable, LeaseInvHolds, RefinementInvHolds, PTL DEF CarefulSpec

\* No loss but by one of the five steps that a tab takes on what it no longer knows: for any
\* number of tabs, items, backups and generations, what leaves the dataset was removed, erased
\* or replaced.
THEOREM LossIsExplainedWhileCareful == CarefulSpec => LossIsExplained
  <1>1. TypeOK /\ DatasetIsReadable /\ LeaseInv /\ RefinementInv /\ FreshInv /\ CarefulInv
          /\ [CarefulNext]_vars
          => [\A i \in row.items \ row'.items :
                \/ i \in removed
                \/ i \in erased' \/ Owner[i] \in erased'
                \/ ledger'.activeEpoch # ledger.activeEpoch /\ ledger.tombstones = {}]_vars
    <2>1. [CarefulNext]_vars => [Next]_vars BY DEF CarefulNext, FreshNext
    <2> QED BY <2>1, LossStep
  <1> QED BY <1>1, CarefulInvHolds, CarefulIsFresh, FreshIsReal, FreshInvHolds, TypeCorrect,
             DatasetStaysReadable, LeaseInvHolds, RefinementInvHolds, PTL
          DEF CarefulSpec, LossIsExplained

\* With Web Locks one of the five does not happen: a recovery meets no lease whose owner lives.
THEOREM NoLiveLeaseTaken ==
  ASSUME WebLocks PROVE Spec => [][\A r \in Realm : ~TakesLiveLease(r)]_vars
  <1>1. TypeOK /\ RecoversTheDead => [\A r \in Realm : ~TakesLiveLease(r)]_vars
    <2> SUFFICES ASSUME TypeOK, RecoversTheDead, NEW r \in Realm, TakesLiveLease(r) PROVE FALSE
      OBVIOUS
    <2>1. Turn(r, "recover") /\ LeaseActive(Head(queue[r]).epoch) /\ OwnerLives
      BY DEF TakesLiveLease, Recover
    <2>2. /\ 1 \in 1 .. Len(queue[r]) /\ Head(queue[r]) = queue[r][1]
          /\ queue[r][1].type = "recover"
      BY <2>1, HeadOf
    <2>3. \A t \in Realm : ledger.restoreEpoch \notin leaseOwners[t]
      BY <2>1, <2>2 DEF RecoversTheDead, LeaseActive
    <2> QED BY <2>1, <2>3 DEF OwnerLives
  <1> QED BY <1>1, TypeCorrect, RecoversTheDeadHolds, PTL
=============================================================================
