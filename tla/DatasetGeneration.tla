------------------------- MODULE DatasetGeneration -------------------------
(***************************************************************************)
(* The generation fence of AlmaMesh's on-device dataset: how several live  *)
(* realms (browser tabs, installed PWA windows) edit, delete from and      *)
(* replace one SQLite dataset without a server.                            *)
(*                                                                         *)
(* Durable: the ledger row and the dataset rows (the eight store rows are  *)
(* read and written together at every generation boundary, so one row      *)
(* stands for them; a row no store has written is the row with no items).  *)
(* Volatile, per realm: what it observed, hydrated and acknowledged, its   *)
(* live store, its FIFO of SQLite transactions, the lease tokens it holds  *)
(* (each one a Web Lock), its deletion or Replace in progress.             *)
(*                                                                         *)
(* A hydration and a transaction are atomic: the code reads a snapshot     *)
(* whose SQLite epoch did not move and commits by compare-and-swap.        *)
(***************************************************************************)
EXTENDS Integers, Sequences, FiniteSets

CONSTANTS
    Realm,          \* tabs and windows of one browser profile
    Item,           \* persons, and the charts, threads, events they own
    Owner,          \* [Item -> Item]: the person of an item; a person owns itself
    InitialItems,   \* what the dataset holds at generation 0
    Backups,        \* contents a Replace can import; {} is "start fresh"
    Kinds,          \* the destructive operations users run
    WebLocks,       \* the runtime has Web Locks; without them leases time out
    Wakes,          \* tabs run their lifecycle lane, at start and when visible again
    MaxOps,         \* bound: destructive operations started
    MaxQueue,       \* bound: transactions queued in a realm when a user edits
    MaxReloads      \* bound: page closes, crashes and reloads

ASSUME ConstantsAssumption ==
    /\ Owner \in [Item -> Item]
    /\ \A i \in Item : Owner[Owner[i]] = Owner[i]
    /\ InitialItems \subseteq Item
    /\ Backups \subseteq SUBSET Item
    /\ Kinds \subseteq {"delete", "restore"}
    /\ WebLocks \in BOOLEAN /\ Wakes \in BOOLEAN
    /\ MaxOps \in Nat /\ MaxQueue \in Nat /\ MaxReloads \in Nat

VARIABLES
    ledger,         \* PORTABLE_LEDGER_KEY: generations, lease, tombstones
    row,            \* the dataset, tagged with the generation that wrote it
    leaseOwners,    \* localOwners / localLeaseOwners: lease tokens per realm
    booted,         \* the realm's stores have hydrated
    observed,       \* observedRestoreEpoch, observedRestoreInProgress
    hydrated,       \* locallyHydratedDatasetEpochs
    leaseHydrated,  \* leaseHydratedDatasetEpochs
    base,           \* locallyAcknowledgedDatasetValues: the merge base
    memory,         \* the live Zustand stores
    queue,          \* #writeQueue: transactions waiting for their turn
    watching,       \* watchedLeases: the foreign lease a realm waits out
    op,             \* the deletion or Replace a realm is running
    notices,        \* BroadcastChannel messages not yet handled
    dropped,        \* the realm told its user that a change was not saved
    created,        \* history: items that ever existed
    removed,        \* history: items a user removed one by one
    erased,         \* history: items a completed deletion erased
    started,        \* history: destructive operations started
    reloads         \* history: page reloads

durable  == <<ledger, row>>
realms   == <<leaseOwners, booted, observed, hydrated, leaseHydrated, base,
              memory, queue, watching, op, dropped>>
history  == <<created, removed, erased, started, reloads>>
vars     == <<durable, realms, notices, history>>

Unset    == -1
NoOp     == [kind |-> "none", step |-> "idle", epoch |-> Unset, items |-> {}]

(***************************************************************************)
(* The data: items, tombstones, the three-way merge.                       *)
(***************************************************************************)
\* Drop everything a tombstone names: the item itself or its person.
Sanitize(items, tombstones) ==
    {i \in items : i \notin tombstones /\ Owner[i] \notin tombstones}

\* Mutant of Merge: the last writer's snapshot wins.
LastWriterWins(b, local, remote) == local

\* One record is atomic: a deletion on either side wins, an addition survives.
Merge(b, local, remote) == (local \cap remote) \cup ((local \cup remote) \ b)

\* A row of another generation is not readable.
Active == IF row.epoch = ledger.activeEpoch THEN row.items ELSE {}
Readable == Sanitize(Active, ledger.tombstones)

Larger(a, b) == IF a >= b THEN a ELSE b
\* Mutant of NextEpoch: an aborted generation is handed out again.
NextActiveEpoch == ledger.activeEpoch + 1

NextEpoch == Larger(ledger.restoreEpoch, ledger.activeEpoch) + 1

\* acquiredLease: generation e is reserved, the items of a Replace may revive.
Leased(l, e, revive) == [l EXCEPT !.restoreEpoch = e, !.restoreInProgress = TRUE,
                                  !.revive = revive]

Condemned(l, items) == [l EXCEPT !.tombstones = l.tombstones \cup items]

Settled(l) == [l EXCEPT !.restoreInProgress = FALSE, !.revive = {}]

\* Mutant of Committed: the lease settles, the readable generation stays behind.
CommittedWithoutFlip(e) ==
    [activeEpoch |-> ledger.activeEpoch, restoreEpoch |-> e,
     restoreInProgress |-> FALSE, tombstones |-> {}, revive |-> {}]

Committed(e) == [activeEpoch |-> e, restoreEpoch |-> e,
                 restoreInProgress |-> FALSE, tombstones |-> {}, revive |-> {}]

\* Mutant of Seen: only the generation is observed.
SeenEpoch(l) == [epoch |-> l.restoreEpoch]

Seen(l) == [epoch |-> l.restoreEpoch, busy |-> l.restoreInProgress]

(***************************************************************************)
(* Leases. An owner token is minted before the lease is acquired, and the  *)
(* lease is known by the generation it reserves.                           *)
(***************************************************************************)
HoldsAnyLease(r) == leaseOwners[r] # {} \/ op[r].step \in {"acquire", "wait"}
IsLocalLeaseOwner(r) == ledger.restoreInProgress /\ ledger.restoreEpoch \in leaseOwners[r]
OwnerLives == \E r \in Realm : ledger.restoreEpoch \in leaseOwners[r]

\* Mutant of LeaseActive: any lease will do.
AnyLeaseActive(e) == ledger.restoreInProgress

\* Is e still the lease the ledger holds?
LeaseActive(e) == ledger.restoreInProgress /\ ledger.restoreEpoch = e

\* Mutants of IsLeaseAbandoned: a foreign lease is always old enough; never.
AbandonedUnlessLocal(r) == ledger.restoreInProgress /\ ~IsLocalLeaseOwner(r)
NeverAbandoned(r) == FALSE

\* A lease is abandoned when its owner's Web Lock is free; without Web Locks
\* any foreign lease may have run out of time.
IsLeaseAbandoned(r) ==
    /\ ledger.restoreInProgress
    /\ ~IsLocalLeaseOwner(r)
    /\ WebLocks => ~OwnerLives

(***************************************************************************)
(* Transactions waiting in a realm's FIFO.                                 *)
(***************************************************************************)
Request(type, epoch, items) ==
    [type |-> type, epoch |-> epoch, items |-> items,
     hydratedEpoch |-> Unset, hydrated |-> FALSE, ownLease |-> FALSE]

\* datasetWriteContext: what the realm knew when a store asked to persist; h and
\* lh are its hydrated and lease-hydrated generations.
WriteUnder(r, items, h, lh) ==
    [type |-> "write", epoch |-> Unset, items |-> items, hydratedEpoch |-> h,
     hydrated |-> h # Unset \/ lh # Unset, ownLease |-> HoldsAnyLease(r)]
WriteOf(r, items) == WriteUnder(r, items, hydrated[r], leaseHydrated[r])

Enqueue(r, request) == queue' = [queue EXCEPT ![r] = Append(@, request)]
Turn(r, type) == queue[r] # <<>> /\ Head(queue[r]).type = type
Dequeue(r) == queue' = [queue EXCEPT ![r] = Tail(@)]
DequeueThen(r, request) == queue' = [queue EXCEPT ![r] = Append(Tail(@), request)]
Queued(r, type) == \E k \in DOMAIN queue[r] : queue[r][k].type = type

\* withDestructiveOperationLock: deletions and notices run one at a time.
DestructiveLaneFree(r) == op[r].kind # "delete" /\ ~Queued(r, "commitDeletion")

Broadcast(r, notice) ==
    notices' = [s \in Realm |-> IF s # r /\ booted[s] THEN Append(notices[s], notice)
                                ELSE notices[s]]

At(f, r, v) == [f EXCEPT ![r] = v]
StepTo(r, step) == op' = At(op, r, [op[r] EXCEPT !.step = step])

-----------------------------------------------------------------------------
Init ==
    /\ ledger = [activeEpoch |-> 0, restoreEpoch |-> 0,
                 restoreInProgress |-> FALSE, tombstones |-> {}, revive |-> {}]
    /\ row = [epoch |-> 0, items |-> InitialItems]
    /\ leaseOwners = [r \in Realm |-> {}]
    /\ booted = [r \in Realm |-> FALSE]
    /\ observed = [r \in Realm |-> [epoch |-> Unset, busy |-> FALSE]]
    /\ hydrated = [r \in Realm |-> Unset]
    /\ leaseHydrated = [r \in Realm |-> Unset]
    /\ base = [r \in Realm |-> {}]
    /\ memory = [r \in Realm |-> {}]
    /\ queue = [r \in Realm |-> <<>>]
    /\ watching = [r \in Realm |-> Unset]
    /\ op = [r \in Realm |-> NoOp]
    /\ notices = [r \in Realm |-> <<>>]
    /\ dropped = [r \in Realm |-> FALSE]
    /\ created = InitialItems
    /\ removed = {}
    /\ erased = {}
    /\ started = 0
    /\ reloads = 0

\* watchForeignLease: a running lease that is not this realm's is waited out.
Watched(r) == IF IsLocalLeaseOwner(r) THEN watching
              ELSE At(watching, r, ledger.restoreEpoch)

(***************************************************************************)
(* Hydration: the store takes the readable row. At a settled generation    *)
(* its writes are fenced by that generation; during a lease they wait for  *)
(* it, and a foreign lease is watched until it ends.                       *)
(***************************************************************************)
HydrationEffects(r) ==
    /\ observed' = At(observed, r, Seen(ledger))
    /\ IF ledger.restoreInProgress
         THEN /\ leaseHydrated' = At(leaseHydrated, r, ledger.activeEpoch)
              /\ watching' = Watched(r)
              /\ UNCHANGED hydrated
         ELSE /\ hydrated' = At(hydrated, r, ledger.activeEpoch)
              /\ leaseHydrated' = At(leaseHydrated, r, Unset)
              /\ UNCHANGED watching
    /\ base' = At(base, r, Readable)

NoHydration(r) ==
    /\ observed' = At(observed, r, Seen(ledger))
    /\ UNCHANGED <<leaseHydrated, watching, hydrated, base>>

Boot(r) ==
    /\ ~booted[r]
    /\ ~Queued(r, "recover")
    /\ HydrationEffects(r)
    /\ memory' = At(memory, r, Readable)
    /\ booted' = At(booted, r, TRUE)
    /\ UNCHANGED <<durable, leaseOwners, queue, op, dropped, notices, history>>

(***************************************************************************)
(* Ordinary edits: the live store runs ahead, its snapshot joins the FIFO. *)
(***************************************************************************)
CanEdit(r) == booted[r] /\ Len(queue[r]) < MaxQueue

AddItem(r, i) ==
    /\ CanEdit(r)
    /\ i \notin created
    /\ Owner[i] = i \/ Owner[i] \in memory[r]
    /\ memory' = At(memory, r, memory[r] \cup {i})
    /\ Enqueue(r, WriteOf(r, memory[r] \cup {i}))
    /\ created' = created \cup {i}
    /\ UNCHANGED <<durable, leaseOwners, booted, observed, hydrated, leaseHydrated,
                   base, watching, op, dropped, notices, removed, erased, started, reloads>>

RemoveItem(r, i) ==
    /\ CanEdit(r)
    /\ i \in memory[r] /\ Owner[i] # i
    /\ memory' = At(memory, r, memory[r] \ {i})
    /\ Enqueue(r, WriteOf(r, memory[r] \ {i}))
    /\ removed' = removed \cup {i}
    /\ UNCHANGED <<durable, leaseOwners, booted, observed, hydrated, leaseHydrated,
                   base, watching, op, dropped, notices, created, erased, started, reloads>>

\* gateDatasetWrite: a hydration made during a lease that settled without
\* moving the active generation is promoted.
Promoted(r, w) == w.hydratedEpoch = Unset /\ leaseHydrated[r] = ledger.activeEpoch

\* Mutant of FenceAccepts: the realm's hydration is not asked for.
FenceByObservation(r, w) ==
    ~ledger.restoreInProgress /\ observed[r].epoch = ledger.restoreEpoch

FenceAccepts(r, w) ==
    /\ ~ledger.restoreInProgress
    /\ \/ observed[r].epoch = ledger.restoreEpoch
       \/ observed[r].epoch = Unset /\ ledger.restoreEpoch = 0
    /\ w.hydratedEpoch = ledger.activeEpoch \/ Promoted(r, w)

\* settleDatasetWrite: a refusal the realm did not cause itself is reported.
OwnRefusal(r, w) == w.ownLease \/ IsLocalLeaseOwner(r)
Reported(r, w) == w.hydrated /\ ~OwnRefusal(r, w)

ExecWrite(r) ==
    /\ Turn(r, "write")
    /\ Dequeue(r)
    /\ LET w == Head(queue[r]) IN
       \/ /\ FenceAccepts(r, w)
          /\ row' = [epoch |-> ledger.activeEpoch,
                     items |-> Sanitize(Merge(base[r], w.items, Active), ledger.tombstones)]
          /\ base' = At(base, r, w.items)
          /\ IF Promoted(r, w)
               THEN /\ hydrated' = At(hydrated, r, ledger.activeEpoch)
                    /\ leaseHydrated' = At(leaseHydrated, r, Unset)
               ELSE UNCHANGED <<hydrated, leaseHydrated>>
          /\ UNCHANGED dropped
       \/ /\ ~FenceAccepts(r, w)
          /\ dropped' = At(dropped, r, dropped[r] \/ Reported(r, w))
          /\ UNCHANGED <<row, base, hydrated, leaseHydrated>>
    /\ UNCHANGED <<ledger, leaseOwners, booted, observed, memory, watching, op,
                   notices, history>>

(***************************************************************************)
(* Taking the dataset lease, waiting for another realm's, and settling the *)
(* lease of a dead owner.                                                  *)
(***************************************************************************)
Start(r, kind, items) ==
    /\ booted[r]
    /\ op[r] = NoOp
    /\ kind \in Kinds
    /\ started < MaxOps
    /\ op' = At(op, r, [kind |-> kind, step |-> "acquire", epoch |-> Unset, items |-> items])
    /\ Enqueue(r, Request("acquire", Unset, {}))
    /\ started' = started + 1
    /\ UNCHANGED <<durable, leaseOwners, booted, observed, hydrated, leaseHydrated, base,
                   memory, watching, dropped, created, removed, erased, reloads>>

StartDelete(r, i) ==
    /\ i \in memory[r]
    /\ DestructiveLaneFree(r)
    /\ Start(r, "delete", {i})
    /\ UNCHANGED notices

\* An import announces itself before it holds the lease, a reset after.
StartRestore(r, backup) ==
    /\ Start(r, "restore", backup)
    /\ IF backup # {} THEN Broadcast(r, [kind |-> "begin", items |-> {}])
                      ELSE UNCHANGED notices

AcquireLease(r) ==
    /\ Turn(r, "acquire")
    /\ ~ledger.restoreInProgress
    /\ Dequeue(r)
    /\ ledger' = Leased(ledger, NextEpoch, IF op[r].kind = "restore" THEN op[r].items ELSE {})
    /\ leaseOwners' = At(leaseOwners, r, leaseOwners[r] \cup {NextEpoch})
    /\ observed' = At(observed, r, [epoch |-> NextEpoch, busy |-> TRUE])
    /\ op' = At(op, r, [op[r] EXCEPT !.step = "leased", !.epoch = NextEpoch])
    /\ hydrated' = IF op[r].kind = "restore" THEN At(hydrated, r, Unset) ELSE hydrated
    /\ IF op[r].kind = "restore" /\ op[r].items = {}
         THEN Broadcast(r, [kind |-> "begin", items |-> {}])
         ELSE UNCHANGED notices
    /\ UNCHANGED <<row, booted, leaseHydrated, base, memory, watching, dropped, history>>

FindLeaseBusy(r) ==
    /\ Turn(r, "acquire")
    /\ ledger.restoreInProgress
    /\ Dequeue(r)
    /\ StepTo(r, "wait")
    /\ UNCHANGED <<durable, leaseOwners, booted, observed, hydrated, leaseHydrated, base,
                   memory, watching, dropped, notices, history>>

\* The owner's lock was released, or the coarse recheck fired.
RetryAcquire(r) ==
    /\ op[r].step = "wait"
    /\ ~Queued(r, "recover")
    /\ StepTo(r, "acquire")
    /\ Enqueue(r, Request("acquire", Unset, {}))
    /\ UNCHANGED <<durable, leaseOwners, booted, observed, hydrated, leaseHydrated, base,
                   memory, watching, dropped, notices, history>>

\* Mutant of LooksForOwner: a live lease met while hydrating is not watched.
LooksOnceForOwner(r) == ~booted[r] \/ op[r].step = "wait"

LooksForOwner(r) == ~booted[r] \/ op[r].step = "wait" \/ watching[r] = ledger.restoreEpoch

\* A hydrating realm, a waiter, or a watcher finds the lease's owner dead.
StartRecovery(r) ==
    /\ IsLeaseAbandoned(r)
    /\ LooksForOwner(r)
    /\ ~Queued(r, "recover")
    /\ Enqueue(r, Request("recover", ledger.restoreEpoch, {}))
    /\ UNCHANGED <<durable, leaseOwners, booted, observed, hydrated, leaseHydrated, base,
                   memory, watching, op, dropped, notices, history>>

\* Mutant of HoldsPendingDeletion: every dead lease is aborted.
NoPendingDeletion == FALSE

HoldsPendingDeletion == ledger.tombstones # {} /\ ledger.revive = {}

\* Roll a crashed deletion forward into a generation of its own; abort any
\* other lease: the last active generation stays the dataset.
Recover(r) ==
    /\ Turn(r, "recover")
    /\ LET e == Head(queue[r]).epoch IN
       IF LeaseActive(e)
         THEN IF HoldsPendingDeletion
                THEN /\ ledger' = Committed(NextEpoch)
                     /\ row' = IF row.epoch = ledger.activeEpoch
                                 THEN [epoch |-> NextEpoch, items |-> Readable]
                                 ELSE row
                     /\ erased' = erased \cup ledger.tombstones
                ELSE ledger' = Settled(ledger) /\ UNCHANGED <<row, erased>>
         ELSE UNCHANGED <<durable, erased>>
    /\ Dequeue(r)
    /\ observed' = At(observed, r, Seen(ledger'))
    /\ UNCHANGED <<leaseOwners, booted, hydrated, leaseHydrated, base, memory, watching,
                   op, dropped, notices, created, removed, started, reloads>>

(***************************************************************************)
(* Deletion of a person or a conversation, under the lease.                *)
(***************************************************************************)
Persons(items) == {i \in items : Owner[i] = i}
Deletable(items, target) ==
    /\ target \subseteq items
    /\ Persons(target) # {} => Cardinality(Persons(items)) > 1

\* replaceLiveDataset reloads the store under the lease, then the target is
\* checked: its tombstone is recorded, or the lease is given back.
ReloadForDelete(r) ==
    /\ op[r].kind = "delete" /\ op[r].step = "leased"
    /\ HydrationEffects(r)
    /\ memory' = At(memory, r, Readable)
    /\ LET next == IF Deletable(Readable, op[r].items) THEN "append" ELSE "abort" IN
       /\ StepTo(r, next)
       /\ Enqueue(r, Request(next, op[r].epoch, op[r].items))
    /\ UNCHANGED <<durable, leaseOwners, booted, dropped, notices, history>>

AppendTombstones(r) ==
    /\ Turn(r, "append")
    /\ LET request == Head(queue[r]) IN
       \/ /\ LeaseActive(request.epoch)
          /\ ledger' = Condemned(ledger, request.items)
          /\ observed' = At(observed, r, [epoch |-> request.epoch, busy |-> TRUE])
          /\ StepTo(r, "recorded")
          /\ Dequeue(r)
       \/ /\ ~LeaseActive(request.epoch)
          /\ StepTo(r, "abort")
          /\ DequeueThen(r, Request("abort", request.epoch, {}))
          /\ UNCHANGED <<ledger, observed>>
    /\ UNCHANGED <<row, leaseOwners, booted, hydrated, leaseHydrated, base, memory,
                   watching, dropped, notices, history>>

\* persistProfileDeletion: commit the deletion the ledger holds, whoever began
\* it, else persist the live store as an ordinary write.
PersistRequest(r, items, h, lh) ==
    IF ledger.restoreInProgress /\ ledger.tombstones # {}
      THEN Request("commitDeletion", ledger.restoreEpoch, items)
      ELSE WriteUnder(r, items, h, lh)

PurgeAndPersist(r) ==
    /\ op[r].kind = "delete" /\ op[r].step = "recorded"
    /\ memory' = At(memory, r, Sanitize(memory[r], op[r].items))
    /\ observed' = At(observed, r, Seen(ledger))
    /\ Enqueue(r, PersistRequest(r, memory'[r], hydrated[r], leaseHydrated[r]))
    /\ IF ledger.restoreInProgress /\ ledger.tombstones # {}
         THEN StepTo(r, "commit") /\ UNCHANGED notices
         ELSE /\ op' = At(op, r, NoOp)
              /\ Broadcast(r, [kind |-> "deletion", items |-> op[r].items])
    /\ UNCHANGED <<durable, leaseOwners, booted, hydrated, leaseHydrated, base, watching,
                   dropped, history>>

\* commitDatasetGeneration with sanitizeCanonicalKeys: the latest canonical row
\* minus the tombstones becomes the new generation; the realm adopts its own
\* snapshot as acknowledged. The owner commits, or a realm that helps it.
CommitDeletion(r) ==
    /\ Turn(r, "commitDeletion")
    /\ LET request == Head(queue[r]) IN
       \/ /\ LeaseActive(request.epoch)
          /\ row' = [epoch |-> request.epoch,
                     items |-> Sanitize(row.items, ledger.tombstones \ ledger.revive)]
          /\ ledger' = Committed(request.epoch)
          /\ leaseOwners' = At(leaseOwners, r, leaseOwners[r] \ {request.epoch})
          /\ observed' = At(observed, r, [epoch |-> request.epoch, busy |-> FALSE])
          /\ hydrated' = At(hydrated, r, request.epoch)
          /\ base' = At(base, r, request.items)
          /\ erased' = erased \cup ledger.tombstones
          /\ IF op[r].kind = "delete"
               THEN Broadcast(r, [kind |-> "deletion", items |-> op[r].items])
               ELSE UNCHANGED notices
       \/ /\ ~LeaseActive(request.epoch)
          /\ UNCHANGED <<durable, leaseOwners, observed, hydrated, base, erased, notices>>
    /\ Dequeue(r)
    /\ op' = IF op[r].kind = "delete" THEN At(op, r, NoOp) ELSE op
    /\ UNCHANGED <<booted, leaseHydrated, memory, watching, dropped, created, removed,
                   started, reloads>>

(***************************************************************************)
(* Replace (import of a backup, or reset to nothing), under the lease.     *)
(***************************************************************************)
\* Reset also clears the live stores; their writes meet its own lease.
IssueRestoreCommit(r) ==
    /\ op[r].kind = "restore" /\ op[r].step = "leased"
    /\ StepTo(r, "commit")
    /\ Enqueue(r, Request("commitRestore", op[r].epoch, op[r].items))
    /\ memory' = IF op[r].items = {} THEN At(memory, r, {}) ELSE memory
    /\ UNCHANGED <<durable, leaseOwners, booted, observed, hydrated, leaseHydrated, base,
                   watching, dropped, notices, history>>

\* The armed import revision refused the file, or preparing it threw.
FailRestore(r) ==
    /\ op[r].kind = "restore" /\ op[r].step = "leased"
    /\ StepTo(r, "abort")
    /\ Enqueue(r, Request("abort", op[r].epoch, {}))
    /\ UNCHANGED <<durable, leaseOwners, booted, observed, hydrated, leaseHydrated, base,
                   memory, watching, dropped, notices, history>>

\* The page reloads after an import; "start fresh" in Settings stays in it.
CommitRestore(r) ==
    /\ Turn(r, "commitRestore")
    /\ LET request == Head(queue[r])
           items == Sanitize(request.items, ledger.tombstones \ ledger.revive) IN
       \/ /\ LeaseActive(request.epoch)
          /\ row' = [epoch |-> request.epoch, items |-> items]
          /\ ledger' = Committed(request.epoch)
          /\ leaseOwners' = At(leaseOwners, r, leaseOwners[r] \ {request.epoch})
          /\ observed' = At(observed, r, [epoch |-> request.epoch, busy |-> FALSE])
          /\ \/ StepTo(r, "reload")
             \/ request.items = {} /\ op' = At(op, r, NoOp)
          /\ Dequeue(r)
          /\ Broadcast(r, [kind |-> IF request.items = {} THEN "reset" ELSE "replace",
                           items |-> {}])
          /\ erased' = erased \ items
          /\ removed' = removed \ items
          /\ created' = created \cup items
       \/ /\ ~LeaseActive(request.epoch)
          /\ StepTo(r, "abort")
          /\ DequeueThen(r, Request("abort", request.epoch, {}))
          /\ UNCHANGED <<durable, leaseOwners, observed, notices, erased, removed, created>>
    /\ UNCHANGED <<booted, hydrated, leaseHydrated, base, memory, watching, dropped,
                   started, reloads>>

AbortLease(r) ==
    /\ Turn(r, "abort")
    /\ LET e == Head(queue[r]).epoch IN
       /\ ledger' = IF ledger.restoreEpoch = e THEN Settled(ledger) ELSE ledger
       /\ leaseOwners' = At(leaseOwners, r, leaseOwners[r] \ {e})
    /\ observed' = At(observed, r, [epoch |-> ledger.restoreEpoch, busy |-> FALSE])
    /\ hydrated' = IF op[r].kind = "restore" THEN At(hydrated, r, Unset) ELSE hydrated
    /\ IF op[r].kind = "restore" /\ op[r].items # {}
         THEN Broadcast(r, [kind |-> "replace", items |-> {}])
         ELSE UNCHANGED notices
    /\ op' = At(op, r, NoOp)
    /\ Dequeue(r)
    /\ UNCHANGED <<row, booted, leaseHydrated, base, memory, watching, dropped, history>>

(***************************************************************************)
(* Broadcasts of other realms, and the lane a tab runs when it wakes.      *)
(***************************************************************************)
\* What a notice leaves in the live store before it is persisted.
AfterNotice(r, notice, changed) ==
    CASE notice.kind = "reset"    -> {}
      [] notice.kind = "replace"  -> Readable
      [] notice.kind = "deletion" -> Sanitize(IF changed THEN Readable ELSE memory[r],
                                              notice.items)

HandleNotice(r) ==
    /\ booted[r]
    /\ notices[r] # <<>>
    /\ DestructiveLaneFree(r)
    /\ LET notice == Head(notices[r])
           changed == IF observed[r].epoch = Unset
                        THEN ledger.restoreEpoch > 0 \/ ledger.restoreInProgress
                        ELSE observed[r] # Seen(ledger) IN
       IF notice.kind = "begin"
         THEN NoHydration(r) /\ UNCHANGED <<memory, queue>>
         ELSE /\ IF notice.kind = "replace" \/ (notice.kind = "deletion" /\ changed)
                   THEN HydrationEffects(r)
                   ELSE NoHydration(r)
              /\ memory' = At(memory, r, AfterNotice(r, notice, changed))
              /\ Enqueue(r, PersistRequest(r, memory'[r], hydrated'[r], leaseHydrated'[r]))
    /\ notices' = [notices EXCEPT ![r] = Tail(@)]
    /\ UNCHANGED <<durable, leaseOwners, booted, op, dropped, history>>

\* reconcileDurableDeletionLedger reads the ledger twice, so it never sees a
\* changed generation: it only replays the tombstones of a pending deletion.
Reconcile(r) ==
    /\ Wakes
    /\ booted[r]
    /\ DestructiveLaneFree(r)
    /\ NoHydration(r)
    /\ IF ledger.tombstones = {}
         THEN UNCHANGED <<memory, queue>>
         ELSE /\ memory' = At(memory, r, Sanitize(memory[r], ledger.tombstones))
              /\ Enqueue(r, PersistRequest(r, memory'[r], hydrated[r], leaseHydrated[r]))
    /\ UNCHANGED <<durable, leaseOwners, booted, op, dropped, notices, history>>

\* reconcilePortableReferences asks which rows exist (readActiveDatasetStoreKeys).
PresenceRead(r) ==
    /\ Wakes
    /\ booted[r]
    /\ observed' = At(observed, r, Seen(ledger))
    /\ IF ledger.restoreInProgress
         THEN /\ watching' = Watched(r)
              /\ UNCHANGED <<hydrated, leaseHydrated>>
         ELSE /\ hydrated' = At(hydrated, r, ledger.activeEpoch)
              /\ leaseHydrated' = At(leaseHydrated, r, Unset)
              /\ UNCHANGED watching
    /\ UNCHANGED <<durable, leaseOwners, booted, base, memory, queue, op, dropped,
                   notices, history>>

\* The page goes away (crash, close, or the reload after a Replace): its locks
\* are released, its queue and live stores are gone, SQLite stays.
Reload(r) ==
    /\ booted[r]
    /\ op[r].step # "reload" => reloads < MaxReloads
    /\ reloads' = IF op[r].step = "reload" THEN reloads ELSE reloads + 1
    /\ leaseOwners' = At(leaseOwners, r, {})
    /\ booted' = At(booted, r, FALSE)
    /\ observed' = At(observed, r, [epoch |-> Unset, busy |-> FALSE])
    /\ hydrated' = At(hydrated, r, Unset)
    /\ leaseHydrated' = At(leaseHydrated, r, Unset)
    /\ base' = At(base, r, {})
    /\ memory' = At(memory, r, {})
    /\ queue' = At(queue, r, <<>>)
    /\ watching' = At(watching, r, Unset)
    /\ op' = At(op, r, NoOp)
    /\ notices' = At(notices, r, <<>>)
    /\ dropped' = At(dropped, r, FALSE)
    /\ UNCHANGED <<durable, created, removed, erased, started>>

-----------------------------------------------------------------------------
Edit(r) == \E i \in Item : AddItem(r, i) \/ RemoveItem(r, i)
Begin(r) == \/ \E i \in Item : StartDelete(r, i)
            \/ \E b \in Backups : StartRestore(r, b)

\* Everything a live realm does by itself once asked: its promises run on.
Proceed(r) ==
    \/ Boot(r) \/ ExecWrite(r)
    \/ AcquireLease(r) \/ FindLeaseBusy(r) \/ RetryAcquire(r)
    \/ StartRecovery(r) \/ Recover(r)
    \/ ReloadForDelete(r) \/ AppendTombstones(r) \/ PurgeAndPersist(r) \/ CommitDeletion(r)
    \/ IssueRestoreCommit(r) \/ CommitRestore(r) \/ AbortLease(r)
    \/ HandleNotice(r)

Next == \E r \in Realm :
    Edit(r) \/ Begin(r) \/ Proceed(r) \/ FailRestore(r) \/ Reconcile(r)
    \/ PresenceRead(r) \/ Reload(r)

Spec == Init /\ [][Next]_vars

-----------------------------------------------------------------------------
(***************************************************************************)
(* Fairness. Promises, timers and SQLite turns of a live page run on, the  *)
(* user opens a closed page again, and a realm that waits for a lease      *)
(* checks its owner before every wait (hence strong fairness: the check is *)
(* enabled again and again, not continuously). Nothing is assumed of       *)
(* edits, of starting operations, of crashes or of a tab waking up.        *)
(***************************************************************************)
ExecHead(r) ==
    \/ ExecWrite(r) \/ AcquireLease(r) \/ FindLeaseBusy(r) \/ Recover(r)
    \/ AppendTombstones(r) \/ CommitDeletion(r) \/ CommitRestore(r) \/ AbortLease(r)
RunOp(r) == RetryAcquire(r) \/ ReloadForDelete(r) \/ PurgeAndPersist(r) \/ IssueRestoreCommit(r)

Fairness == \A r \in Realm :
    /\ WF_vars(ExecHead(r))
    /\ WF_vars(RunOp(r))
    /\ WF_vars(Boot(r))
    /\ WF_vars(HandleNotice(r))
    /\ SF_vars(StartRecovery(r))

FairSpec == Spec /\ Fairness

-----------------------------------------------------------------------------
(***************************************************************************)
(* Properties.                                                             *)
(***************************************************************************)
RequestTypes == {"write", "acquire", "recover", "append", "abort",
                 "commitDeletion", "commitRestore"}
Requests == [type : RequestTypes, epoch : Nat \cup {Unset}, items : SUBSET Item,
             hydratedEpoch : Nat \cup {Unset}, hydrated : BOOLEAN, ownLease : BOOLEAN]
Ops == [kind : {"none", "delete", "restore"},
        step : {"idle", "acquire", "wait", "leased", "append", "recorded", "commit",
                "abort", "reload"},
        epoch : Nat \cup {Unset}, items : SUBSET Item]
Observations == [epoch : Nat \cup {Unset}, busy : BOOLEAN]
Notices == [kind : {"begin", "reset", "replace", "deletion"}, items : SUBSET Item]
Ledgers == [activeEpoch : Nat, restoreEpoch : Nat, restoreInProgress : BOOLEAN,
            tombstones : SUBSET Item, revive : SUBSET Item]

\* Every variable keeps the type the code gives it.
TypeOK ==
    /\ ledger \in Ledgers
    /\ row \in [epoch : Nat, items : SUBSET Item]
    /\ leaseOwners \in [Realm -> SUBSET Nat]
    /\ booted \in [Realm -> BOOLEAN]
    /\ observed \in [Realm -> Observations]
    /\ hydrated \in [Realm -> Nat \cup {Unset}]
    /\ leaseHydrated \in [Realm -> Nat \cup {Unset}]
    /\ base \in [Realm -> SUBSET Item]
    /\ memory \in [Realm -> SUBSET Item]
    /\ queue \in [Realm -> Seq(Requests)]
    /\ watching \in [Realm -> Nat \cup {Unset}]
    /\ op \in [Realm -> Ops]
    /\ notices \in [Realm -> Seq(Notices)]
    /\ dropped \in [Realm -> BOOLEAN]
    /\ created \in SUBSET Item /\ removed \in SUBSET Item /\ erased \in SUBSET Item
    /\ started \in Nat /\ reloads \in Nat

\* A settled ledger holds no tombstone and no revival: whoever ends a lease
\* (owner, helper, recovery, abort) either carries its deletion out or proves
\* there was none to carry out.
SettledLedgerIsClean ==
    ~ledger.restoreInProgress => ledger.tombstones = {} /\ ledger.revive = {}

\* A generation is never handed out twice: no two realms hold a token for the
\* same lease, and no token is ahead of the ledger.
OneOwnerPerLease ==
    /\ \A r, s \in Realm : r # s => leaseOwners[r] \cap leaseOwners[s] = {}
    /\ \A r \in Realm : \A e \in leaseOwners[r] : e <= ledger.restoreEpoch

\* The dataset row always belongs to the active generation, which a lease is
\* always ahead of: no commit, abort or recovery leaves the dataset unreadable.
DatasetIsReadable ==
    /\ row.epoch = ledger.activeEpoch
    /\ ledger.activeEpoch <= ledger.restoreEpoch
    /\ ledger.restoreInProgress => ledger.activeEpoch < ledger.restoreEpoch

\* A stale tab cannot bring back what a completed deletion erased, nor add to
\* an erased person.
NoResurrection ==
    \A i \in Readable : i \notin erased /\ Owner[i] \notin erased

\* A saved item leaves the dataset only because a user removed it, a deletion
\* erased it, or a Replace took its place: concurrent edits of other tabs,
\* rehydrations and aborted leases lose nothing.
LossIsExplained ==
    [][\A i \in row.items \ row'.items :
          \/ i \in removed
          \/ i \in erased' \/ Owner[i] \in erased'
          \/ ledger'.activeEpoch # ledger.activeEpoch /\ ledger.tombstones = {}]_vars

\* While the owner of a lease is alive, the lease ends only by a commit of that
\* lease (its own or a helper's) or by the owner giving it up: recovery never
\* takes it away, however long the owner is frozen.
LiveLeaseIsRespected ==
    [][ledger.restoreInProgress /\ OwnerLives /\ ~ledger'.restoreInProgress
         => ledger'.activeEpoch = ledger.restoreEpoch \/ ~OwnerLives']_vars

\* Every lease ends, even when its owner's page is gone: a recorded deletion is
\* carried out and the dataset takes writes again.  So a realm waiting for the
\* lease gets it.
LeaseEnds ==
    /\ ledger.restoreInProgress ~> ~ledger.restoreInProgress
    /\ \A r \in Realm : op[r].step = "wait" ~> op[r].step \notin {"wait", "acquire"}

\* The ledger implements the exclusive, all-or-nothing dataset.
D == INSTANCE Dataset WITH generation <- ledger.activeEpoch, content <- Active,
                           exclusive <- ledger.restoreInProgress, doomed <- ledger.tombstones
ImplementsDataset == D!DatasetSpec
=============================================================================
