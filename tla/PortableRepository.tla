------------------------- MODULE PortableRepository -------------------------
(***************************************************************************)
(* PortableStateRepository (store/portableState.ts): several tabs share one *)
(* SQLite file through a store whose calls are each atomic (external:       *)
(* runtimeInfo, list, batch, exportBytes).  A transaction reads a snapshot  *)
(* in several calls, computes its changes, and commits them by comparing    *)
(* the epoch of the file; one tab runs its transactions one at a time.      *)
(***************************************************************************)
EXTENDS Naturals, Sequences

CONSTANTS Tabs,                    \* open pages
          Callers,                 \* parts of the pages that call the repository
          TabOf,                   \* the page a caller belongs to
          Rows,                    \* canonical rows
          Items,                   \* what a row or the quarantine holds
          MaxTransactionAttempts,  \* MAX_TRANSACTION_ATTEMPTS
          MaxCalls                 \* bound: calls made in one behaviour

ASSUME RepositoryAssumption == /\ TabOf \in [Callers -> Tabs]
                               /\ MaxTransactionAttempts \in Nat \ {0}
                               /\ MaxCalls \in Nat

VARIABLES store,    \* the file: canonical rows, quarantine rows, epoch
          call,     \* each caller's progress
          queue,    \* #writeQueue of each tab
          outcome,  \* how the last call of each caller settled, none while one is under way
          exported, \* the last export of each caller
          calls,    \* calls made so far
          foreign   \* history: batches of others that landed during a call

vars == <<store, call, queue, outcome, exported, calls, foreign>>

Contents == [rows : [Rows -> SUBSET Items], quarantine : SUBSET Items]
Ops == [kind : {"add"}, row : Rows, item : Items]
         \cup [kind : {"purge"}, item : Items] \cup [kind : {"look"}]
Export == [kind |-> "export"]
None == [kind |-> "none"]

(* What a transform makes of a snapshot: a save rewrites one row, a deletion  *)
(* every row and the quarantine rows of what it deletes, a refused save none. *)
Apply(op, s) ==
  CASE op.kind = "add" -> [s EXCEPT !.rows[op.row] = @ \cup {op.item}]
    [] op.kind = "purge" -> [rows |-> [r \in Rows |-> s.rows[r] \ {op.item}],
                             quarantine |-> s.quarantine \ {op.item}]
    [] OTHER -> s

Mutates(op) == op.kind # "look"
Content == [rows |-> store.rows, quarantine |-> store.quarantine]
Idle == [pc |-> "idle", op |-> None, attempt |-> 0, tries |-> 0,
         opened |-> 0, embedded |-> 0, before |-> 0,
         seen |-> [rows |-> [r \in Rows |-> {}], quarantine |-> {}]]

Init == /\ store = [rows |-> [r \in Rows |-> {}], quarantine |-> {}, epoch |-> 0]
        /\ call = [c \in Callers |-> Idle]
        /\ queue = [t \in Tabs |-> <<>>]
        /\ outcome = [c \in Callers |-> "none"]
        /\ exported = [c \in Callers |-> None]
        /\ calls = 0
        /\ foreign = [c \in Callers |-> 0]

Serves(c) == Len(queue[TabOf[c]]) > 0 /\ Head(queue[TabOf[c]]) = c

(* One batch of statements, committed whole; every batch moves the epoch. A   *)
(* batch is foreign to a call unless it is that of a save of the same tab.    *)
Batch(content, others) ==
  /\ store' = [rows |-> content.rows, quarantine |-> content.quarantine, epoch |-> store.epoch + 1]
  /\ foreign' = [d \in Callers |-> IF d \in others THEN foreign[d] + 1 ELSE foreign[d]]

InTurnUnqueued(c) == TRUE

(* A transaction waits for the turn of its tab; an export does not. *)
InTurn(c) == call[c].op = Export \/ Serves(c)

\* Whoever had the turn of its tab passes it on; an export never has it.
NextTurn(c) == [queue EXCEPT ![TabOf[c]] = IF Serves(c) THEN Tail(@) ELSE @]

Progress(c, fields) == call' = [call EXCEPT ![c] = fields]

\* Mutant of Settle: a call that wrote nothing keeps the turn of its tab.
SettleWritten(c, how) ==
  /\ Progress(c, Idle)
  /\ outcome' = [outcome EXCEPT ![c] = how]
  /\ queue' = IF Mutates(call[c].op) THEN NextTurn(c) ELSE queue

(* The promise settles, and the tab's next transaction gets its turn. *)
Settle(c, how) ==
  /\ Progress(c, Idle)
  /\ outcome' = [outcome EXCEPT ![c] = how]
  /\ queue' = NextTurn(c)

Transact(c, op) ==
  /\ call[c].pc = "idle" /\ calls < MaxCalls
  /\ Progress(c, [Idle EXCEPT !.pc = "begin", !.op = op])
  /\ queue' = [queue EXCEPT ![TabOf[c]] = Append(@, c)]
  /\ outcome' = [outcome EXCEPT ![c] = "none"]
  /\ calls' = calls + 1
  /\ UNCHANGED <<store, exported, foreign>>

StartExport(c) ==
  /\ call[c].pc = "idle" /\ calls < MaxCalls
  /\ Progress(c, [Idle EXCEPT !.pc = "open", !.op = Export])
  /\ outcome' = [outcome EXCEPT ![c] = "none"]
  /\ calls' = calls + 1
  /\ foreign' = [foreign EXCEPT ![c] = 0]
  /\ UNCHANGED <<store, queue, exported>>

(* The export reads the epoch, then the file with the epoch embedded in it. *)
OpenExport(c) ==
  /\ call[c].pc = "open"
  /\ Progress(c, [call[c] EXCEPT !.pc = "bytes", !.opened = store.epoch, !.tries = 0])
  /\ UNCHANGED <<store, queue, outcome, exported, calls, foreign>>

RetryExportOnceMore(c) ==
  IF call[c].attempt < MaxTransactionAttempts
  THEN Progress(c, [call[c] EXCEPT !.pc = "open", !.attempt = @ + 1]) /\ UNCHANGED <<queue, outcome>>
  ELSE Settle(c, "busy")

RetryExport(c) ==
  IF call[c].attempt + 1 < MaxTransactionAttempts
  THEN Progress(c, [call[c] EXCEPT !.pc = "open", !.attempt = @ + 1]) /\ UNCHANGED <<queue, outcome>>
  ELSE Settle(c, "busy")

ExportBytes(c) ==
  /\ call[c].pc = "bytes"
  /\ Progress(c, [call[c] EXCEPT !.pc = "begin", !.embedded = store.epoch])
  /\ UNCHANGED <<store, queue, outcome, exported, calls, foreign>>

(* snapshot(): the epoch, the canonical rows, the quarantine rows, the epoch. *)
ReadEpoch(c) ==
  /\ call[c].pc = "begin" /\ InTurn(c)
  /\ Progress(c, [call[c] EXCEPT !.pc = "rows", !.before = store.epoch])
  /\ foreign' = IF call[c].op # Export /\ call[c].attempt + call[c].tries = 0
                THEN [foreign EXCEPT ![c] = 0] ELSE foreign
  /\ UNCHANGED <<store, queue, outcome, exported, calls>>

ReadRows(c) ==
  /\ call[c].pc = "rows"
  /\ Progress(c, [call[c] EXCEPT !.pc = "quarantine", !.seen.rows = store.rows])
  /\ UNCHANGED <<store, queue, outcome, exported, calls, foreign>>

ReadQuarantine(c) ==
  /\ call[c].pc = "quarantine"
  /\ Progress(c, [call[c] EXCEPT !.pc = "check", !.seen.quarantine = store.quarantine])
  /\ UNCHANGED <<store, queue, outcome, exported, calls, foreign>>

SameEpoch(c) == store.epoch = call[c].before

CheckSnapshot(c) ==
  /\ call[c].pc = "check"
  /\ IF SameEpoch(c)
     THEN /\ Progress(c, [call[c] EXCEPT !.pc = IF call[c].op = Export THEN "close" ELSE "commit"])
          /\ UNCHANGED <<queue, outcome>>
     ELSE IF call[c].tries + 1 < MaxTransactionAttempts
          THEN Progress(c, [call[c] EXCEPT !.pc = "begin", !.tries = @ + 1]) /\ UNCHANGED <<queue, outcome>>
          ELSE Settle(c, "busy")
  /\ UNCHANGED <<store, exported, calls, foreign>>

EpochIgnored(c) == TRUE

(* The batch carries the snapshot's epoch; the store refuses it if it moved. *)
EpochMatches(c) == SameEpoch(c)

Commit(c) ==
  /\ call[c].pc = "commit"
  /\ ~Mutates(call[c].op) \/ EpochMatches(c)
  /\ IF Mutates(call[c].op)
     THEN Batch(Apply(call[c].op, call[c].seen),
                {d \in Callers \ {c} : TabOf[d] # TabOf[c] \/ call[d].op = Export})
     ELSE UNCHANGED <<store, foreign>>
  /\ Settle(c, "done")
  /\ UNCHANGED <<exported, calls>>

Conflict(c) ==
  /\ call[c].pc = "commit"
  /\ Mutates(call[c].op) /\ ~EpochMatches(c)
  /\ IF call[c].attempt + 1 < MaxTransactionAttempts
     THEN /\ Progress(c, [call[c] EXCEPT !.pc = "begin", !.attempt = @ + 1, !.tries = 0])
          /\ UNCHANGED <<queue, outcome>>
     ELSE Settle(c, "busy")
  /\ UNCHANGED <<store, exported, calls, foreign>>

(* The export leaves only if the epoch never moved since it was opened. *)
Untouched(c) == {call[c].embedded, call[c].before, store.epoch} = {call[c].opened}

CloseExport(c) ==
  /\ call[c].pc = "close"
  /\ IF Untouched(c)
     THEN Settle(c, "done") /\ exported' = [exported EXCEPT ![c] = call[c].seen]
     ELSE RetryExport(c) /\ UNCHANGED exported
  /\ UNCHANGED <<store, calls, foreign>>

(* applyQuarantine: a batch outside the tab's queue and without an epoch. *)
HoldQuarantine(c, item) ==
  /\ call[c].pc = "idle" /\ calls < MaxCalls
  /\ Batch([Content EXCEPT !.quarantine = @ \cup {item}], Callers)
  /\ calls' = calls + 1
  /\ UNCHANGED <<call, queue, outcome, exported>>

Step(c) == \/ OpenExport(c) \/ ExportBytes(c) \/ ReadEpoch(c) \/ ReadRows(c) \/ ReadQuarantine(c)
           \/ CheckSnapshot(c) \/ Commit(c) \/ Conflict(c) \/ CloseExport(c)

Next == \E c \in Callers : \/ \E op \in Ops : Transact(c, op)
                           \/ StartExport(c)
                           \/ \E i \in Items : HoldQuarantine(c, i)
                           \/ Step(c)

(* Each step of a call is the answer of the worker to the call before it. *)
Spec == Init /\ [][Next]_vars /\ \A c \in Callers : WF_vars(Step(c))

-----------------------------------------------------------------------------
(* Properties. *)

Attempts == 0 .. MaxTransactionAttempts - 1
Progresses == [pc : {"idle", "open", "bytes", "begin", "rows", "quarantine", "check", "commit", "close"},
               op : Ops \cup {Export, None}, attempt : Attempts, tries : Attempts,
               opened : Nat, embedded : Nat, before : Nat, seen : Contents]

TypeOK ==
  /\ store \in [rows : [Rows -> SUBSET Items], quarantine : SUBSET Items, epoch : Nat]
  /\ call \in [Callers -> Progresses]
  /\ queue \in [Tabs -> Seq(Callers)]
  /\ outcome \in [Callers -> {"none", "done", "busy"}]
  /\ exported \in [Callers -> Contents \cup {None}]
  /\ calls \in Nat
  /\ foreign \in [Callers -> Nat]

(* Transactions and exports look indivisible although each is many calls,   *)
(* whatever the other tabs commit between them (AtomicRows).                *)
Atomic == INSTANCE AtomicRows WITH
            content <- Content, answer <- exported,
            asked <- [c \in Callers |-> call[c].op]
LooksAtomic == Atomic!Spec

(* A save or an export only gives up as busy after that many batches of     *)
(* others landed while it was under way: the saves of one tab wait for each *)
(* other (#writeQueue) and so never use up each other's attempts.           *)
BusyMeansContended ==
  \A c \in Callers : outcome[c] = "busy" => foreign[c] >= MaxTransactionAttempts

(* Every save and every export is answered. *)
CallSettles == \A c \in Callers : call[c].pc # "idle" ~> call[c].pc = "idle"
=============================================================================
