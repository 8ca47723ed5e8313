---------------------- MODULE PortableRepositoryProofs ----------------------
(***************************************************************************)
(* Theorems about PortableRepository: its types, that a busy call was        *)
(* contended, and that it implements AtomicRows.                             *)
(***************************************************************************)
EXTENDS PortableRepository, TLAPS

-----------------------------------------------------------------------------
(* Types. *)

\* What a call does at each point: only an export opens, reads the bytes and
\* closes, only a transaction commits.
OpFits(c) == /\ call[c].pc = "idle" <=> call[c].op = None
             /\ call[c].pc \in {"open", "bytes", "close"} => call[c].op = Export
             /\ call[c].pc = "commit" => call[c].op \in Ops

TypeInv == TypeOK /\ \A c \in Callers : OpFits(c)

\* The kinds of calls are apart.
LEMMA Kinds == /\ Export \notin Ops /\ None \notin Ops /\ Export # None
  BY DEF Export, None, Ops

\* Counting one attempt more stays below the bound.
LEMMA Counting ==
  /\ 0 \in Attempts /\ Attempts \subseteq Nat
  /\ \A a \in Attempts : a + 1 < MaxTransactionAttempts => a + 1 \in Attempts
  BY RepositoryAssumption DEF Attempts

\* A change computed from a snapshot is again a content.
LEMMA ApplyType ==
  ASSUME NEW op \in Ops, NEW s \in Contents
  PROVE  Apply(op, s) \in Contents
<1>1. CASE op.kind = "add"
  <2>1. op.row \in Rows /\ op.item \in Items
    BY <1>1 DEF Ops
  <2> QED
    BY <1>1, <2>1 DEF Apply, Contents
<1>2. CASE op.kind = "purge"
  BY <1>2 DEF Apply, Contents
<1>3. CASE op.kind = "look"
  BY <1>3 DEF Apply
<1> QED
  BY <1>1, <1>2, <1>3 DEF Ops

\* Passing the turn on keeps the queues of the tabs well-formed.
LEMMA NextTurnType ==
  ASSUME NEW c \in Callers, queue \in [Tabs -> Seq(Callers)]
  PROVE  NextTurn(c) \in [Tabs -> Seq(Callers)]
  BY RepositoryAssumption DEF NextTurn, Serves

\* A caller at rest is a call record.
LEMMA IdleType == Idle \in Progresses
  BY Counting DEF Idle, Progresses, Contents

\* A call that settles leaves a caller at rest and counts nothing else.
LEMMA SettleType ==
  ASSUME TypeOK, NEW c \in Callers, NEW how \in {"done", "busy"}, Settle(c, how)
  PROVE  /\ call' \in [Callers -> Progresses] /\ queue' \in [Tabs -> Seq(Callers)]
         /\ outcome' \in [Callers -> {"none", "done", "busy"}]
         /\ call' = [call EXCEPT ![c] = Idle]
  BY NextTurnType, IdleType DEF TypeOK, Settle, Progress

\* A batch keeps the file a file, and its epoch moves by one.
LEMMA BatchType ==
  ASSUME TypeOK, NEW content \in Contents, NEW others, Batch(content, others)
  PROVE  /\ store' \in [rows : [Rows -> SUBSET Items], quarantine : SUBSET Items, epoch : Nat]
         /\ foreign' \in [Callers -> Nat]
  BY DEF TypeOK, Batch, Contents

\* The progress of one call, well-formed and fitting its operation.
LEMMA ProgressInv ==
  ASSUME TypeInv, NEW c \in Callers, NEW p \in Progresses, call' = [call EXCEPT ![c] = p],
         /\ p.pc = "idle" <=> p.op = None
         /\ p.pc \in {"open", "bytes", "close"} => p.op = Export
         /\ p.pc = "commit" => p.op \in Ops
  PROVE  call' \in [Callers -> Progresses] /\ \A d \in Callers : OpFits(d)'
  BY DEF TypeInv, TypeOK, OpFits

\* A call that settles is idle again.
LEMMA SettleInv ==
  ASSUME TypeInv, NEW c \in Callers, NEW how \in {"done", "busy"}, Settle(c, how)
  PROVE  /\ call' \in [Callers -> Progresses] /\ queue' \in [Tabs -> Seq(Callers)]
         /\ outcome' \in [Callers -> {"none", "done", "busy"}]
         /\ \A d \in Callers : OpFits(d)'
<1>1. Idle.pc = "idle" /\ Idle.op = None
  BY DEF Idle
<1> QED
  BY <1>1, SettleType, IdleType, ProgressInv DEF TypeInv

\* Every step of a call keeps the types.
LEMMA StepType ==
  ASSUME TypeInv, NEW c \in Callers, Step(c)
  PROVE  TypeInv'
<1> DEFINE p == call[c]
<1>a. p \in Progresses /\ TypeOK /\ OpFits(c)
  BY DEF TypeInv, TypeOK
<1>s. store.epoch \in Nat /\ store.rows \in [Rows -> SUBSET Items] /\ store.quarantine \in SUBSET Items
  BY <1>a DEF TypeOK
<1>f. /\ p.pc = "idle" <=> p.op = None
      /\ p.pc \in {"open", "bytes", "close"} => p.op = Export
      /\ p.pc = "commit" => p.op \in Ops
      /\ p.op \in Ops \cup {Export, None}
  BY <1>a DEF OpFits, Progresses
<1> USE Kinds
<1>1. ASSUME OpenExport(c) PROVE TypeInv'
  <2> DEFINE q == [p EXCEPT !.pc = "bytes", !.opened = store.epoch, !.tries = 0]
  <2>1. q \in Progresses /\ q.pc = "bytes" /\ q.op = p.op
    BY <1>a, <1>s, Counting DEF Progresses
  <2>2. call' = [call EXCEPT ![c] = q] /\ p.pc = "open"
    BY <1>1 DEF OpenExport, Progress
  <2> HIDE DEF q, p
  <2>3. call' \in [Callers -> Progresses] /\ \A d \in Callers : OpFits(d)'
    BY <2>1, <2>2, <1>f, ProgressInv
  <2> QED
    BY <1>1, <1>a, <2>3 DEF OpenExport, TypeInv, TypeOK
<1>2. ASSUME ExportBytes(c) PROVE TypeInv'
  <2> DEFINE q == [p EXCEPT !.pc = "begin", !.embedded = store.epoch]
  <2>1. q \in Progresses /\ q.pc = "begin" /\ q.op = p.op
    BY <1>a, <1>s DEF Progresses
  <2>2. call' = [call EXCEPT ![c] = q] /\ p.pc = "bytes"
    BY <1>2 DEF ExportBytes, Progress
  <2> HIDE DEF q, p
  <2>3. call' \in [Callers -> Progresses] /\ \A d \in Callers : OpFits(d)'
    BY <2>1, <2>2, <1>f, ProgressInv
  <2> QED
    BY <1>2, <1>a, <2>3 DEF ExportBytes, TypeInv, TypeOK
<1>3. ASSUME ReadEpoch(c) PROVE TypeInv'
  <2> DEFINE q == [p EXCEPT !.pc = "rows", !.before = store.epoch]
  <2>1. q \in Progresses /\ q.pc = "rows" /\ q.op = p.op
    BY <1>a, <1>s DEF Progresses
  <2>2. call' = [call EXCEPT ![c] = q] /\ p.pc = "begin" /\ foreign' \in [Callers -> Nat]
    BY <1>3, <1>a DEF ReadEpoch, Progress, TypeOK
  <2> HIDE DEF q, p
  <2>3. call' \in [Callers -> Progresses] /\ \A d \in Callers : OpFits(d)'
    BY <2>1, <2>2, <1>f, ProgressInv
  <2> QED
    BY <1>3, <1>a, <2>2, <2>3 DEF ReadEpoch, TypeInv, TypeOK
<1>4. ASSUME ReadRows(c) PROVE TypeInv'
  <2> DEFINE q == [p EXCEPT !.pc = "quarantine", !.seen.rows = store.rows]
  <2>1. q \in Progresses /\ q.pc = "quarantine" /\ q.op = p.op
    BY <1>a, <1>s DEF Progresses, Contents
  <2>2. call' = [call EXCEPT ![c] = q] /\ p.pc = "rows"
    BY <1>4 DEF ReadRows, Progress
  <2> HIDE DEF q, p
  <2>3. call' \in [Callers -> Progresses] /\ \A d \in Callers : OpFits(d)'
    BY <2>1, <2>2, <1>f, ProgressInv
  <2> QED
    BY <1>4, <1>a, <2>3 DEF ReadRows, TypeInv, TypeOK
<1>5. ASSUME ReadQuarantine(c) PROVE TypeInv'
  <2> DEFINE q == [p EXCEPT !.pc = "check", !.seen.quarantine = store.quarantine]
  <2>1. q \in Progresses /\ q.pc = "check" /\ q.op = p.op
    BY <1>a, <1>s DEF Progresses, Contents
  <2>2. call' = [call EXCEPT ![c] = q] /\ p.pc = "quarantine"
    BY <1>5 DEF ReadQuarantine, Progress
  <2> HIDE DEF q, p
  <2>3. call' \in [Callers -> Progresses] /\ \A d \in Callers : OpFits(d)'
    BY <2>1, <2>2, <1>f, ProgressInv
  <2> QED
    BY <1>5, <1>a, <2>3 DEF ReadQuarantine, TypeInv, TypeOK
<1>6. ASSUME CheckSnapshot(c) PROVE TypeInv'
  <2> DEFINE q == [p EXCEPT !.pc = IF p.op = Export THEN "close" ELSE "commit"]
             r == [p EXCEPT !.pc = "begin", !.tries = @ + 1]
  <2>1. /\ q \in Progresses /\ q.op = p.op /\ q.pc = IF p.op = Export THEN "close" ELSE "commit"
        /\ r.op = p.op /\ r.pc = "begin"
        /\ p.tries + 1 < MaxTransactionAttempts => r \in Progresses
    BY <1>a, Counting DEF Progresses
  <2>2. /\ p.pc = "check"
        /\ \/ call' = [call EXCEPT ![c] = q] /\ UNCHANGED <<queue, outcome>>
           \/ call' = [call EXCEPT ![c] = r] /\ p.tries + 1 < MaxTransactionAttempts
                /\ UNCHANGED <<queue, outcome>>
           \/ Settle(c, "busy")
    BY <1>6 DEF CheckSnapshot, Progress
  <2> HIDE DEF q, r, p
  <2>3. /\ call' \in [Callers -> Progresses] /\ \A d \in Callers : OpFits(d)'
        /\ queue' \in [Tabs -> Seq(Callers)] /\ outcome' \in [Callers -> {"none", "done", "busy"}]
    <3>1. CASE call' = [call EXCEPT ![c] = q] /\ UNCHANGED <<queue, outcome>>
      BY <1>a, <1>f, <2>1, <2>2, <3>1, ProgressInv DEF TypeOK
    <3>2. CASE call' = [call EXCEPT ![c] = r] /\ p.tries + 1 < MaxTransactionAttempts
                 /\ UNCHANGED <<queue, outcome>>
      BY <1>a, <1>f, <2>1, <2>2, <3>2, ProgressInv DEF TypeOK
    <3> QED
      BY <2>2, <3>1, <3>2, SettleInv
  <2> QED
    BY <1>6, <1>a, <2>3 DEF CheckSnapshot, TypeInv, TypeOK
<1>7. ASSUME Commit(c) PROVE TypeInv'
  <2>1. Apply(p.op, p.seen) \in Contents
    BY <1>7, <1>a, <1>f, ApplyType DEF Commit, Progresses
  <2>2. Settle(c, "done")
    BY <1>7 DEF Commit
  <2>3. /\ store' \in [rows : [Rows -> SUBSET Items], quarantine : SUBSET Items, epoch : Nat]
        /\ foreign' \in [Callers -> Nat]
    BY <1>7, <1>a, <2>1, BatchType DEF Commit, TypeOK
  <2> QED
    BY <1>7, <1>a, <2>2, <2>3, SettleInv DEF Commit, TypeInv, TypeOK
<1>8. ASSUME Conflict(c) PROVE TypeInv'
  <2> DEFINE r == [p EXCEPT !.pc = "begin", !.attempt = @ + 1, !.tries = 0]
  <2>1. /\ r.op = p.op /\ r.pc = "begin"
        /\ p.attempt + 1 < MaxTransactionAttempts => r \in Progresses
    BY <1>a, Counting DEF Progresses
  <2>2. /\ p.pc = "commit"
        /\ \/ call' = [call EXCEPT ![c] = r] /\ p.attempt + 1 < MaxTransactionAttempts
                /\ UNCHANGED <<queue, outcome>>
           \/ Settle(c, "busy")
    BY <1>8 DEF Conflict, Progress
  <2> HIDE DEF r, p
  <2>3. /\ call' \in [Callers -> Progresses] /\ \A d \in Callers : OpFits(d)'
        /\ queue' \in [Tabs -> Seq(Callers)] /\ outcome' \in [Callers -> {"none", "done", "busy"}]
    <3>1. CASE call' = [call EXCEPT ![c] = r] /\ p.attempt + 1 < MaxTransactionAttempts
                 /\ UNCHANGED <<queue, outcome>>
      BY <1>a, <1>f, <2>1, <2>2, <3>1, ProgressInv DEF TypeOK
    <3> QED
      BY <2>2, <3>1, SettleInv
  <2> QED
    BY <1>8, <1>a, <2>3 DEF Conflict, TypeInv, TypeOK
<1>9. ASSUME CloseExport(c) PROVE TypeInv'
  <2> DEFINE r == [p EXCEPT !.pc = "open", !.attempt = @ + 1]
  <2>1. /\ r.op = p.op /\ r.pc = "open"
        /\ p.attempt + 1 < MaxTransactionAttempts => r \in Progresses
    BY <1>a, Counting DEF Progresses
  <2>2. /\ p.pc = "close"
        /\ \/ call' = [call EXCEPT ![c] = r] /\ p.attempt + 1 < MaxTransactionAttempts
                /\ UNCHANGED <<queue, outcome>>
           \/ Settle(c, "busy")
           \/ Settle(c, "done")
        /\ exported' \in [Callers -> Contents \cup {None}]
    <3>1. p.seen \in Contents
      BY <1>a DEF Progresses
    <3> QED
      BY <1>9, <1>a, <3>1 DEF CloseExport, RetryExport, Progress, TypeOK
  <2> HIDE DEF r, p
  <2>3. /\ call' \in [Callers -> Progresses] /\ \A d \in Callers : OpFits(d)'
        /\ queue' \in [Tabs -> Seq(Callers)] /\ outcome' \in [Callers -> {"none", "done", "busy"}]
    <3>1. CASE call' = [call EXCEPT ![c] = r] /\ p.attempt + 1 < MaxTransactionAttempts
                 /\ UNCHANGED <<queue, outcome>>
      BY <1>a, <1>f, <2>1, <2>2, <3>1, ProgressInv DEF TypeOK
    <3> QED
      BY <2>2, <3>1, SettleInv
  <2> QED
    BY <1>9, <1>a, <2>2, <2>3 DEF CloseExport, TypeInv, TypeOK
<1> QED
  BY <1>1, <1>2, <1>3, <1>4, <1>5, <1>6, <1>7, <1>8, <1>9 DEF Step

\* The type invariant holds throughout.
LEMMA TypeInvHolds == Spec => []TypeInv
<1>1. Init => TypeInv
  <2>1. Idle.pc = "idle" /\ Idle.op = None
    BY DEF Idle
  <2> QED
    BY <2>1, IdleType DEF Init, TypeInv, TypeOK, OpFits
<1>2. TypeInv /\ [Next]_vars => TypeInv'
  <2> SUFFICES ASSUME TypeInv, [Next]_vars PROVE TypeInv'
    OBVIOUS
  <2>t. TypeOK
    BY DEF TypeInv
  <2>1. ASSUME NEW c \in Callers, NEW op \in Ops, Transact(c, op) PROVE TypeInv'
    <3> DEFINE q == [Idle EXCEPT !.pc = "begin", !.op = op]
    <3>1. q \in Progresses /\ q.pc = "begin" /\ q.op = op
      BY IdleType, Counting DEF Progresses
    <3>2. call' = [call EXCEPT ![c] = q]
      BY <2>1 DEF Transact, Progress
    <3> HIDE DEF q
    <3>3. call' \in [Callers -> Progresses] /\ \A d \in Callers : OpFits(d)'
      BY <3>1, <3>2, Kinds, ProgressInv
    <3>4. queue' \in [Tabs -> Seq(Callers)]
      BY <2>1, <2>t, RepositoryAssumption DEF Transact, TypeOK
    <3> QED
      BY <2>1, <2>t, <3>3, <3>4 DEF Transact, TypeInv, TypeOK
  <2>2. ASSUME NEW c \in Callers, StartExport(c) PROVE TypeInv'
    <3> DEFINE q == [Idle EXCEPT !.pc = "open", !.op = Export]
    <3>1. q \in Progresses /\ q.pc = "open" /\ q.op = Export
      BY IdleType, Counting DEF Progresses
    <3>2. call' = [call EXCEPT ![c] = q]
      BY <2>2 DEF StartExport, Progress
    <3> HIDE DEF q
    <3>3. call' \in [Callers -> Progresses] /\ \A d \in Callers : OpFits(d)'
      BY <3>1, <3>2, Kinds, ProgressInv
    <3> QED
      BY <2>2, <2>t, <3>3 DEF StartExport, TypeInv, TypeOK
  <2>3. ASSUME NEW c \in Callers, NEW i \in Items, HoldQuarantine(c, i) PROVE TypeInv'
    <3>1. [Content EXCEPT !.quarantine = @ \cup {i}] \in Contents
      BY <2>t DEF Content, Contents, TypeOK
    <3> QED
      BY <2>3, <2>t, <3>1, BatchType DEF HoldQuarantine, TypeInv, TypeOK, OpFits
  <2>4. CASE UNCHANGED vars
    BY <2>4 DEF vars, TypeInv, TypeOK, OpFits
  <2> QED
    BY <2>1, <2>2, <2>3, <2>4, StepType DEF Next
<1> QED
  BY <1>1, <1>2, PTL DEF Spec

\* The file, the calls and the queues keep their types, for any number of
\* pages and callers.
THEOREM RepositoryTypes == Spec => []TypeOK
<1>1. TypeInv => TypeOK
  BY DEF TypeInv
<1> QED
  BY <1>1, TypeInvHolds, PTL

-----------------------------------------------------------------------------
(* What a call knows while others go on. *)

\* A transaction that has had its turn, and a call that has read the epoch.
Begun(c) == call[c].pc \notin {"idle", "begin"} \/ call[c].attempt + call[c].tries > 0
Past(c) == call[c].pc \in {"rows", "quarantine", "check", "commit", "close"}
Moved(c) == Past(c) /\ store.epoch # call[c].before

\* It has the turn of its tab until it settles.
KeepsTurn(c) == call[c].op \in Ops /\ Begun(c) => Serves(c)

\* The epochs it has read are in the order it read them.
Ordered(c) ==
  /\ call[c].before <= store.epoch /\ call[c].opened <= store.epoch
  /\ call[c].op = Export =>
       /\ call[c].pc \notin {"open", "bytes"} =>
            call[c].opened <= call[c].embedded /\ call[c].embedded <= store.epoch
       /\ Past(c) => call[c].opened <= call[c].before

\* While the epoch stands, what it has read is what the file holds.
SeesWhole(c) ==
  store.epoch = call[c].before =>
    /\ call[c].pc \in {"quarantine", "check", "commit", "close"} => call[c].seen.rows = store.rows
    /\ call[c].pc \in {"check", "commit", "close"} => call[c].seen.quarantine = store.quarantine

\* Every attempt it has lost, or is about to lose, was lost to another's batch.
Contended(c) ==
  /\ (call[c].op \in Ops /\ Begun(c)) \/ (call[c].op = Export /\ call[c].pc # "open") =>
       foreign[c] >= call[c].attempt + call[c].tries + (IF Moved(c) THEN 1 ELSE 0)
  /\ call[c].op = Export =>
       foreign[c] >= call[c].attempt + (IF call[c].pc # "open" /\ store.epoch # call[c].opened
                                        THEN 1 ELSE 0)

\* It has not been answered; and a busy answer was contended.
Answered(c) == /\ call[c].pc # "idle" => outcome[c] = "none"
               /\ outcome[c] = "busy" => foreign[c] >= MaxTransactionAttempts

CallInv(c) == KeepsTurn(c) /\ Ordered(c) /\ SeesWhole(c) /\ Contended(c) /\ Answered(c)

RepoInv == \A c \in Callers : CallInv(c)

\* A step that leaves the file, and leaves alone what a call has, keeps it true.
LEMMA Elsewhere ==
  ASSUME NEW d \in Callers, CallInv(d), call'[d] = call[d], store' = store,
         foreign'[d] = foreign[d], outcome'[d] = outcome[d], Serves(d) => Serves(d)'
  PROVE  CallInv(d)'
  BY DEF CallInv, KeepsTurn, Begun, Ordered, Past, SeesWhole, Contended, Moved, Answered

\* The turn of a caller is not touched when another passes its own on.
LEMMA OthersTurn ==
  ASSUME TypeOK, NEW c \in Callers, NEW d \in Callers, d # c,
         queue' \in {queue, NextTurn(c), [queue EXCEPT ![TabOf[c]] = Append(@, c)]}
  PROVE  Serves(d) => Serves(d)'
<1> SUFFICES ASSUME Serves(d) PROVE Serves(d)'
  OBVIOUS
<1>1. /\ TabOf[c] \in Tabs /\ TabOf[d] \in Tabs
      /\ queue[TabOf[d]] \in Seq(Callers) /\ queue[TabOf[d]] # <<>> /\ Head(queue[TabOf[d]]) = d
  BY RepositoryAssumption DEF Serves, TypeOK
<1>2. CASE queue' = queue
  BY <1>2 DEF Serves
<1>3. CASE queue' = NextTurn(c)
  <2>1. TabOf[c] = TabOf[d] => ~Serves(c)
    BY <1>1 DEF Serves
  <2>2. queue'[TabOf[d]] = queue[TabOf[d]]
    BY <1>1, <1>3, <2>1 DEF NextTurn, TypeOK
  <2> QED
    BY <2>2 DEF Serves
<1>4. CASE queue' = [queue EXCEPT ![TabOf[c]] = Append(@, c)]
  <2>1. CASE TabOf[c] = TabOf[d]
    <3>1. queue'[TabOf[d]] = Append(queue[TabOf[d]], c)
      BY <1>1, <1>4, <2>1 DEF TypeOK
    <3> QED
      BY <1>1, <3>1 DEF Serves
  <2>2. CASE TabOf[c] # TabOf[d]
    BY <1>1, <1>4, <2>2 DEF Serves, TypeOK
  <2> QED
    BY <2>1, <2>2
<1> QED
  BY <1>2, <1>3, <1>4

\* A batch that another caller does not count does not meet it in its turn.
LEMMA UncountedIsWaiting ==
  ASSUME NEW c \in Callers, NEW d \in Callers, d # c, CallInv(c), CallInv(d),
         call[c].op \in Ops, Begun(c), TabOf[d] = TabOf[c], call[d].op \in Ops
  PROVE  ~Begun(d)
  BY DEF CallInv, KeepsTurn, Serves

\* What a batch of another does to a call: its epoch has moved, and it counts it.
LEMMA AfterBatch ==
  ASSUME TypeOK, TypeOK', NEW d \in Callers, OpFits(d), CallInv(d), call'[d] = call[d],
         outcome'[d] = outcome[d], store'.epoch = store.epoch + 1, Serves(d) => Serves(d)',
         \/ foreign'[d] = foreign[d] + 1
         \/ foreign'[d] = foreign[d] /\ call[d].op # Export /\ (call[d].op \in Ops => ~Begun(d))
  PROVE  CallInv(d)'
<1>1. /\ store.epoch \in Nat /\ foreign[d] \in Nat /\ call[d] \in Progresses
      /\ call[d].attempt \in Nat /\ call[d].tries \in Nat /\ MaxTransactionAttempts \in Nat
      /\ call[d].opened \in Nat /\ call[d].embedded \in Nat /\ call[d].before \in Nat
  BY Counting, RepositoryAssumption DEF TypeOK, Progresses
<1>2. store'.epoch # call[d].before
  BY <1>1 DEF CallInv, Ordered
<1>3. KeepsTurn(d)' /\ SeesWhole(d)' /\ Ordered(d)'
  BY <1>1, <1>2 DEF CallInv, KeepsTurn, Begun, SeesWhole, Ordered, Past
<1>4. Answered(d)'
  BY <1>1 DEF CallInv, Answered
<1>5. Contended(d)'
  BY <1>1, <1>2, Kinds DEF CallInv, Contended, Begun, Moved, Past
<1> QED
  BY <1>3, <1>4, <1>5 DEF CallInv

\* A call that settles is idle; if it is busy, that was contended.
LEMMA Settles ==
  ASSUME TypeOK, TypeOK', NEW c \in Callers, NEW how \in {"done", "busy"}, Settle(c, how),
         how = "busy" => foreign'[c] >= MaxTransactionAttempts
  PROVE  CallInv(c)'
<1>1. call'[c] = Idle /\ outcome'[c] = how
  BY DEF Settle, Progress, TypeOK
<1>2. store'.epoch \in Nat
  BY DEF TypeOK
<1> QED
  BY <1>1, <1>2, Kinds, Counting DEF Idle, CallInv, KeepsTurn, Ordered, Past, SeesWhole, Contended, Answered

\* A step that changes one call and leaves the file and the counts of the others.
LEMMA OneCall ==
  ASSUME TypeOK, RepoInv, NEW c \in Callers, CallInv(c)', store' = store,
         queue' \in {queue, NextTurn(c), [queue EXCEPT ![TabOf[c]] = Append(@, c)]},
         \A d \in Callers \ {c} : /\ call'[d] = call[d] /\ outcome'[d] = outcome[d]
                                  /\ foreign'[d] = foreign[d]
  PROVE  RepoInv'
<1> SUFFICES ASSUME NEW d \in Callers, d # c PROVE CallInv(d)'
  BY DEF RepoInv
<1>1. Serves(d) => Serves(d)'
  BY OthersTurn
<1> QED
  BY <1>1, Elsewhere DEF RepoInv

\* Every step of a call keeps the invariant, its own and that of the others.
LEMMA StepInv ==
  ASSUME TypeInv, TypeInv', RepoInv, NEW c \in Callers, Step(c)
  PROVE  RepoInv'
<1> DEFINE p == call[c]
<1>t. TypeOK /\ TypeOK' /\ OpFits(c) /\ OpFits(c)' /\ CallInv(c)
  BY DEF TypeInv, RepoInv
<1>n. /\ store.epoch \in Nat /\ foreign[c] \in Nat /\ MaxTransactionAttempts \in Nat
      /\ p \in Progresses /\ p.attempt \in Nat /\ p.tries \in Nat
      /\ p.opened \in Nat /\ p.embedded \in Nat /\ p.before \in Nat
      /\ p.op \in Ops \cup {Export, None}
  BY <1>t, Counting, RepositoryAssumption DEF TypeOK, Progresses
<1>d. DOMAIN call = Callers
  BY <1>t DEF TypeOK
<1>o. ASSUME NEW q, call' = [call EXCEPT ![c] = q]
      PROVE  call'[c] = q /\ \A d \in Callers \ {c} : call'[d] = call[d]
  BY <1>o, <1>t DEF TypeOK
<1>s. ASSUME NEW how \in {"done", "busy"}, Settle(c, how)
      PROVE  \A d \in Callers \ {c} : call'[d] = call[d] /\ outcome'[d] = outcome[d]
  BY <1>s, <1>t DEF Settle, Progress, TypeOK
<1> USE Kinds
<1>1. ASSUME OpenExport(c) PROVE RepoInv'
  <2>1. /\ p.pc = "open" /\ call' = [call EXCEPT ![c] = [p EXCEPT !.pc = "bytes", !.opened = store.epoch, !.tries = 0]]
        /\ UNCHANGED <<store, queue, outcome, foreign>>
    BY <1>1 DEF OpenExport, Progress
  <2>2. /\ call'[c].pc = "bytes" /\ call'[c].op = p.op /\ call'[c].opened = store.epoch /\ call'[c].tries = 0
        /\ call'[c].before = p.before /\ call'[c].attempt = p.attempt
    BY <2>1, <1>d, <1>n DEF Progresses
  <2>3. CallInv(c)'
    BY <2>1, <2>2, <1>t, <1>n DEF OpFits, CallInv, KeepsTurn, Ordered, Past, SeesWhole, Contended, Moved, Answered
  <2> QED
    BY <2>1, <2>3, <1>t, <1>o, OneCall
<1>2. ASSUME ExportBytes(c) PROVE RepoInv'
  <2>1. /\ p.pc = "bytes" /\ call' = [call EXCEPT ![c] = [p EXCEPT !.pc = "begin", !.embedded = store.epoch]]
        /\ UNCHANGED <<store, queue, outcome, foreign>>
    BY <1>2 DEF ExportBytes, Progress
  <2>2. /\ call'[c].pc = "begin" /\ call'[c].op = p.op /\ call'[c].opened = p.opened /\ call'[c].tries = p.tries
        /\ call'[c].before = p.before /\ call'[c].attempt = p.attempt /\ call'[c].embedded = store.epoch
    BY <2>1, <1>d, <1>n DEF Progresses
  <2>3. CallInv(c)'
    BY <2>1, <2>2, <1>t, <1>n DEF OpFits, CallInv, KeepsTurn, Ordered, Past, SeesWhole, Contended, Moved, Answered
  <2> QED
    BY <2>1, <2>3, <1>t, <1>o, OneCall
<1>3. ASSUME ReadEpoch(c) PROVE RepoInv'
  <2>1. /\ p.pc = "begin" /\ call' = [call EXCEPT ![c] = [p EXCEPT !.pc = "rows", !.before = store.epoch]]
        /\ UNCHANGED <<store, queue, outcome>>
        /\ p.op = Export \/ Serves(c)
        /\ foreign' = IF p.op # Export /\ p.attempt + p.tries = 0
                      THEN [foreign EXCEPT ![c] = 0] ELSE foreign
    BY <1>3 DEF ReadEpoch, Progress, InTurn
  <2>2. /\ call'[c].pc = "rows" /\ call'[c].op = p.op /\ call'[c].opened = p.opened /\ call'[c].tries = p.tries
        /\ call'[c].before = store.epoch /\ call'[c].attempt = p.attempt /\ call'[c].embedded = p.embedded
    BY <2>1, <1>d, <1>n DEF Progresses
  <2>3. /\ \A d \in Callers \ {c} : foreign'[d] = foreign[d]
        /\ p.op # Export /\ p.attempt + p.tries = 0 => foreign'[c] = 0
        /\ ~(p.op # Export /\ p.attempt + p.tries = 0) => foreign'[c] = foreign[c]
    BY <2>1, <1>t DEF TypeOK
  <2>4. Serves(c)' <=> Serves(c)
    BY <2>1 DEF Serves
  <2>5. p.op # None
    BY <2>1, <1>t DEF OpFits
  <2>6. KeepsTurn(c)' /\ Ordered(c)' /\ SeesWhole(c)' /\ Answered(c)'
    BY <2>1, <2>2, <2>4, <2>5, <1>t, <1>n
    DEF CallInv, KeepsTurn, Ordered, Past, SeesWhole, Answered
  <2>7. Contended(c)'
    BY <2>1, <2>2, <2>3, <2>5, <1>t, <1>n DEF CallInv, Contended, Begun, Moved, Past
  <2> QED
    BY <2>1, <2>3, <2>6, <2>7, <1>t, <1>o, OneCall DEF CallInv
<1>4. ASSUME ReadRows(c) PROVE RepoInv'
  <2>1. /\ p.pc = "rows" /\ call' = [call EXCEPT ![c] = [p EXCEPT !.pc = "quarantine", !.seen.rows = store.rows]]
        /\ UNCHANGED <<store, queue, outcome, foreign>>
    BY <1>4 DEF ReadRows, Progress
  <2>2. /\ call'[c].pc = "quarantine" /\ call'[c].op = p.op /\ call'[c].opened = p.opened /\ call'[c].tries = p.tries
        /\ call'[c].before = p.before /\ call'[c].attempt = p.attempt /\ call'[c].embedded = p.embedded
        /\ call'[c].seen.rows = store.rows
    BY <2>1, <1>d, <1>n DEF Progresses, Contents
  <2>3. Serves(c)' <=> Serves(c)
    BY <2>1 DEF Serves
  <2>4. CallInv(c)'
    BY <2>1, <2>2, <2>3, <1>t, <1>n DEF CallInv, KeepsTurn, Begun, Ordered, Past, SeesWhole, Contended, Moved, Answered
  <2> QED
    BY <2>1, <2>4, <1>t, <1>o, OneCall
<1>5. ASSUME ReadQuarantine(c) PROVE RepoInv'
  <2>1. /\ p.pc = "quarantine"
        /\ call' = [call EXCEPT ![c] = [p EXCEPT !.pc = "check", !.seen.quarantine = store.quarantine]]
        /\ UNCHANGED <<store, queue, outcome, foreign>>
    BY <1>5 DEF ReadQuarantine, Progress
  <2>2. /\ call'[c].pc = "check" /\ call'[c].op = p.op /\ call'[c].opened = p.opened /\ call'[c].tries = p.tries
        /\ call'[c].before = p.before /\ call'[c].attempt = p.attempt /\ call'[c].embedded = p.embedded
        /\ call'[c].seen.rows = p.seen.rows /\ call'[c].seen.quarantine = store.quarantine
    BY <2>1, <1>d, <1>n DEF Progresses, Contents
  <2>3. Serves(c)' <=> Serves(c)
    BY <2>1 DEF Serves
  <2>4. CallInv(c)'
    BY <2>1, <2>2, <2>3, <1>t, <1>n DEF CallInv, KeepsTurn, Begun, Ordered, Past, SeesWhole, Contended, Moved, Answered
  <2> QED
    BY <2>1, <2>4, <1>t, <1>o, OneCall
<1>6. ASSUME CheckSnapshot(c) PROVE RepoInv'
  <2>1. p.pc = "check" /\ UNCHANGED <<store, foreign>>
    BY <1>6 DEF CheckSnapshot
  <2>2. CASE SameEpoch(c)
    <3>1. /\ call' = [call EXCEPT ![c] = [p EXCEPT !.pc = IF p.op = Export THEN "close" ELSE "commit"]]
          /\ UNCHANGED <<queue, outcome>>
      BY <1>6, <2>2 DEF CheckSnapshot, Progress
    <3>2. /\ call'[c].pc = IF p.op = Export THEN "close" ELSE "commit"
          /\ call'[c].op = p.op /\ call'[c].opened = p.opened /\ call'[c].tries = p.tries
          /\ call'[c].before = p.before /\ call'[c].attempt = p.attempt /\ call'[c].embedded = p.embedded
          /\ call'[c].seen = p.seen
      BY <3>1, <1>d, <1>n DEF Progresses
    <3>3. Serves(c)' <=> Serves(c)
      BY <3>1 DEF Serves
    <3>4. CallInv(c)'
      BY <2>1, <3>1, <3>2, <3>3, <1>t, <1>n
      DEF CallInv, KeepsTurn, Begun, Ordered, Past, SeesWhole, Contended, Moved, Answered
    <3> QED
      BY <2>1, <3>1, <3>4, <1>t, <1>o, OneCall
  <2>3. CASE ~SameEpoch(c) /\ p.tries + 1 < MaxTransactionAttempts
    <3>1. /\ call' = [call EXCEPT ![c] = [p EXCEPT !.pc = "begin", !.tries = @ + 1]]
          /\ UNCHANGED <<queue, outcome>>
      BY <1>6, <2>3 DEF CheckSnapshot, Progress
    <3>2. /\ call'[c].pc = "begin" /\ call'[c].op = p.op /\ call'[c].opened = p.opened
          /\ call'[c].tries = p.tries + 1 /\ call'[c].before = p.before /\ call'[c].attempt = p.attempt
          /\ call'[c].embedded = p.embedded
      BY <3>1, <1>d, <1>n DEF Progresses
    <3>3. Serves(c)' <=> Serves(c)
      BY <3>1 DEF Serves
    <3>4. CallInv(c)'
      BY <2>1, <2>3, <3>1, <3>2, <3>3, <1>t, <1>n
      DEF SameEpoch, CallInv, KeepsTurn, Begun, Ordered, Past, SeesWhole, Contended, Moved, Answered
    <3> QED
      BY <2>1, <3>1, <3>4, <1>t, <1>o, OneCall
  <2>4. CASE ~SameEpoch(c) /\ ~(p.tries + 1 < MaxTransactionAttempts)
    <3>1. Settle(c, "busy")
      BY <1>6, <2>4 DEF CheckSnapshot
    <3>2. foreign[c] >= MaxTransactionAttempts
      BY <2>1, <2>4, <1>t, <1>n DEF SameEpoch, CallInv, Contended, Begun, Moved, Past, OpFits
    <3>3. CallInv(c)'
      BY <2>1, <3>1, <3>2, <1>t, Settles
    <3> QED
      BY <2>1, <3>1, <3>3, <1>t, <1>s, OneCall DEF Settle
  <2> QED
    BY <2>2, <2>3, <2>4
<1>7. ASSUME Commit(c) PROVE RepoInv'
  <2>1. p.pc = "commit" /\ p.op \in Ops /\ Settle(c, "done")
    BY <1>7, <1>t DEF Commit, OpFits
  <2>2. CallInv(c)'
    BY <2>1, <1>t, Settles
  <2>3. CASE ~Mutates(p.op)
    <3>1. UNCHANGED <<store, foreign>>
      BY <1>7, <2>3 DEF Commit
    <3> QED
      BY <2>1, <2>2, <3>1, <1>t, <1>s, OneCall DEF Settle
  <2>4. CASE Mutates(p.op)
    <3>1. Batch(Apply(p.op, p.seen), {d \in Callers \ {c} : TabOf[d] # TabOf[c] \/ call[d].op = Export})
      BY <1>7, <2>4 DEF Commit
    <3>2. ASSUME NEW d \in Callers, d # c PROVE CallInv(d)'
      <4>1. Serves(d) => Serves(d)'
        BY <2>1, <3>2, <1>t, OthersTurn DEF Settle
      <4>2. /\ store'.epoch = store.epoch + 1
            /\ foreign'[d] = IF TabOf[d] # TabOf[c] \/ call[d].op = Export THEN foreign[d] + 1 ELSE foreign[d]
        BY <3>1, <3>2 DEF Batch
      <4>3. call[d].op \in Ops /\ TabOf[d] = TabOf[c] => ~Begun(d)
        <5>1. Begun(c)
          BY <2>1 DEF Begun
        <5> QED
          BY <2>1, <3>2, <5>1, UncountedIsWaiting DEF RepoInv
      <4>4. call'[d] = call[d] /\ outcome'[d] = outcome[d] /\ OpFits(d) /\ CallInv(d)
        BY <2>1, <3>2, <1>s DEF TypeInv, RepoInv
      <4> QED
        BY <4>1, <4>2, <4>3, <4>4, <1>t, AfterBatch
    <3> QED
      BY <2>2, <3>2 DEF RepoInv
  <2> QED
    BY <2>3, <2>4
<1>8. ASSUME Conflict(c) PROVE RepoInv'
  <2>1. p.pc = "commit" /\ p.op \in Ops /\ ~SameEpoch(c) /\ UNCHANGED <<store, foreign>>
    BY <1>8, <1>t DEF Conflict, EpochMatches, OpFits
  <2>2. foreign[c] >= p.attempt + 1
    BY <2>1, <1>t, <1>n DEF SameEpoch, CallInv, Contended, Begun, Moved, Past
  <2>3. CASE p.attempt + 1 < MaxTransactionAttempts
    <3>1. /\ call' = [call EXCEPT ![c] = [p EXCEPT !.pc = "begin", !.attempt = @ + 1, !.tries = 0]]
          /\ UNCHANGED <<queue, outcome>>
      BY <1>8, <2>3 DEF Conflict, Progress
    <3>2. /\ call'[c].pc = "begin" /\ call'[c].op = p.op /\ call'[c].opened = p.opened
          /\ call'[c].tries = 0 /\ call'[c].before = p.before /\ call'[c].attempt = p.attempt + 1
          /\ call'[c].embedded = p.embedded
      BY <3>1, <1>d, <1>n DEF Progresses
    <3>3. Serves(c)' <=> Serves(c)
      BY <3>1 DEF Serves
    <3>4. CallInv(c)'
      BY <2>1, <2>2, <3>1, <3>2, <3>3, <1>t, <1>n
      DEF CallInv, KeepsTurn, Begun, Ordered, Past, SeesWhole, Contended, Moved, Answered
    <3> QED
      BY <2>1, <3>1, <3>4, <1>t, <1>o, OneCall
  <2>4. CASE ~(p.attempt + 1 < MaxTransactionAttempts)
    <3>1. Settle(c, "busy")
      BY <1>8, <2>4 DEF Conflict
    <3>2. CallInv(c)'
      BY <2>1, <2>2, <2>4, <3>1, <1>t, <1>n, Settles
    <3> QED
      BY <2>1, <3>1, <3>2, <1>t, <1>s, OneCall DEF Settle
  <2> QED
    BY <2>3, <2>4
<1>9. ASSUME CloseExport(c) PROVE RepoInv'
  <2>1. p.pc = "close" /\ p.op = Export /\ UNCHANGED <<store, foreign>>
    BY <1>9, <1>t DEF CloseExport, OpFits
  <2>2. CASE Untouched(c)
    <3>1. Settle(c, "done")
      BY <1>9, <2>2 DEF CloseExport
    <3>2. CallInv(c)'
      BY <3>1, <1>t, Settles
    <3> QED
      BY <2>1, <3>1, <3>2, <1>t, <1>s, OneCall DEF Settle
  <2>3. CASE ~Untouched(c)
    <3>1. foreign[c] >= p.attempt + 1
      <4>1. store.epoch # p.opened
        BY <2>1, <2>3, <1>t, <1>n DEF Untouched, CallInv, Ordered, Past
      <4> QED
        BY <2>1, <4>1, <1>t, <1>n DEF CallInv, Contended
    <3>2. CASE p.attempt + 1 < MaxTransactionAttempts
      <4>1. /\ call' = [call EXCEPT ![c] = [p EXCEPT !.pc = "open", !.attempt = @ + 1]]
            /\ UNCHANGED <<queue, outcome>>
        BY <1>9, <2>3, <3>2 DEF CloseExport, RetryExport, Progress
      <4>2. /\ call'[c].pc = "open" /\ call'[c].op = p.op /\ call'[c].opened = p.opened
            /\ call'[c].tries = p.tries /\ call'[c].before = p.before /\ call'[c].attempt = p.attempt + 1
            /\ call'[c].embedded = p.embedded
        BY <4>1, <1>d, <1>n DEF Progresses
      <4>3. CallInv(c)'
        BY <2>1, <3>1, <4>1, <4>2, <1>t, <1>n
        DEF CallInv, KeepsTurn, Begun, Ordered, Past, SeesWhole, Contended, Moved, Answered
      <4> QED
        BY <2>1, <4>1, <4>3, <1>t, <1>o, OneCall
    <3>3. CASE ~(p.attempt + 1 < MaxTransactionAttempts)
      <4>1. Settle(c, "busy")
        BY <1>9, <2>3, <3>3 DEF CloseExport, RetryExport
      <4>2. CallInv(c)'
        BY <2>1, <3>1, <3>3, <4>1, <1>t, <1>n, Settles
      <4> QED
        BY <2>1, <4>1, <4>2, <1>t, <1>s, OneCall DEF Settle
    <3> QED
      BY <3>2, <3>3
  <2> QED
    BY <2>2, <2>3
<1> QED
  BY <1>1, <1>2, <1>3, <1>4, <1>5, <1>6, <1>7, <1>8, <1>9 DEF Step

\* The inductive invariant holds throughout.
LEMMA RepoInvHolds == Spec => []RepoInv
<1>1. Init => RepoInv
  <2> SUFFICES ASSUME Init, NEW c \in Callers PROVE CallInv(c)
    BY DEF RepoInv
  <2>1. /\ call[c].pc = "idle" /\ call[c].op = None /\ call[c].before = 0 /\ call[c].opened = 0
        /\ store.epoch = 0 /\ outcome[c] = "none"
    BY DEF Init, Idle
  <2> QED
    BY <2>1, Kinds DEF CallInv, KeepsTurn, Ordered, Past, SeesWhole, Contended, Answered
<1>2. TypeInv /\ TypeInv' /\ RepoInv /\ [Next]_vars => RepoInv'
  <2> SUFFICES ASSUME TypeInv, TypeInv', RepoInv, [Next]_vars PROVE RepoInv'
    OBVIOUS
  <2>t. TypeOK /\ TypeOK'
    BY DEF TypeInv
  <2>1. ASSUME NEW c \in Callers, NEW op \in Ops, Transact(c, op) PROVE RepoInv'
    <3>1. /\ call' = [call EXCEPT ![c] = [Idle EXCEPT !.pc = "begin", !.op = op]]
          /\ outcome' = [outcome EXCEPT ![c] = "none"]
          /\ queue' = [queue EXCEPT ![TabOf[c]] = Append(@, c)] /\ UNCHANGED <<store, foreign>>
      BY <2>1 DEF Transact, Progress
    <3>2. /\ call'[c].pc = "begin" /\ call'[c].op = op /\ outcome'[c] = "none" /\ store.epoch \in Nat
          /\ call'[c].attempt = 0 /\ call'[c].tries = 0 /\ call'[c].before = 0 /\ call'[c].opened = 0
          /\ \A d \in Callers \ {c} : call'[d] = call[d] /\ outcome'[d] = outcome[d]
      BY <3>1, <2>t DEF TypeOK, Idle
    <3>3. CallInv(c)'
      BY <3>1, <3>2, Kinds DEF CallInv, KeepsTurn, Begun, Ordered, Past, SeesWhole, Contended, Answered
    <3> QED
      BY <3>1, <3>2, <3>3, <2>t, OneCall
  <2>2. ASSUME NEW c \in Callers, StartExport(c) PROVE RepoInv'
    <3>1. /\ call' = [call EXCEPT ![c] = [Idle EXCEPT !.pc = "open", !.op = Export]]
          /\ outcome' = [outcome EXCEPT ![c] = "none"]
          /\ foreign' = [foreign EXCEPT ![c] = 0] /\ UNCHANGED <<store, queue>>
      BY <2>2 DEF StartExport, Progress
    <3>2. /\ call'[c].pc = "open" /\ call'[c].op = Export /\ outcome'[c] = "none" /\ store.epoch \in Nat
          /\ call'[c].attempt = 0 /\ call'[c].before = 0 /\ call'[c].opened = 0 /\ foreign'[c] = 0
          /\ \A d \in Callers \ {c} : /\ call'[d] = call[d] /\ outcome'[d] = outcome[d]
                                      /\ foreign'[d] = foreign[d]
      BY <3>1, <2>t DEF TypeOK, Idle
    <3>3. CallInv(c)'
      BY <3>1, <3>2, Kinds DEF CallInv, KeepsTurn, Ordered, Past, SeesWhole, Contended, Answered
    <3> QED
      BY <3>1, <3>2, <3>3, <2>t, OneCall
  <2>3. ASSUME NEW c \in Callers, NEW i \in Items, HoldQuarantine(c, i) PROVE RepoInv'
    <3> SUFFICES ASSUME NEW d \in Callers PROVE CallInv(d)'
      BY DEF RepoInv
    <3>1. /\ call' = call /\ outcome' = outcome /\ queue' = queue
          /\ store'.epoch = store.epoch + 1 /\ foreign'[d] = foreign[d] + 1
      BY <2>3 DEF HoldQuarantine, Batch
    <3>2. Serves(d) => Serves(d)'
      BY <3>1 DEF Serves
    <3> QED
      BY <3>1, <3>2, <2>t, AfterBatch DEF TypeInv, RepoInv
  <2>4. CASE UNCHANGED vars
    BY <2>4, Elsewhere DEF vars, RepoInv, Serves
  <2> QED
    BY <2>1, <2>2, <2>3, <2>4, StepInv DEF Next
<1> QED
  BY <1>1, <1>2, TypeInvHolds, PTL DEF Spec

\* Whoever is told that the file is busy lost that many attempts to batches of
\* others: the turns of #writeQueue keep the saves of one page from using up
\* each other's attempts, whatever MAX_TRANSACTION_ATTEMPTS is.
THEOREM BusyIsContended == Spec => []BusyMeansContended
<1>1. RepoInv => BusyMeansContended
  BY DEF RepoInv, CallInv, Answered, BusyMeansContended
<1> QED
  BY <1>1, RepoInvHolds, PTL

-----------------------------------------------------------------------------
(* The refinement. *)

\* Settling takes the request of a caller back and touches no other.
LEMMA SettleAnswers ==
  ASSUME TypeOK, NEW c \in Callers, NEW how, Settle(c, how)
  PROVE  [d \in Callers |-> call'[d].op] = [[d \in Callers |-> call[d].op] EXCEPT ![c] = None]
  BY DEF Settle, Progress, TypeOK, Idle

\* A call that goes on asks for what it asked for.
LEMMA ProgressAsks ==
  ASSUME TypeOK, NEW c \in Callers, NEW p, Progress(c, p), p.op = call[c].op
  PROVE  [d \in Callers |-> call'[d].op] = [d \in Callers |-> call[d].op]
  BY DEF Progress, TypeOK

\* Every step of a call is a step of AtomicRows or changes nothing there.
LEMMA StepRefines ==
  ASSUME TypeInv, RepoInv, NEW c \in Callers, Step(c)
  PROVE  Atomic!Next \/ UNCHANGED Atomic!vars
<1> DEFINE asks == [d \in Callers |-> call[d].op]
<1>t. TypeOK /\ OpFits(c) /\ CallInv(c) /\ call[c] \in Progresses
  BY DEF TypeInv, TypeOK, RepoInv
<1>k. asks[c] = call[c].op
  OBVIOUS
<1>n. call[c].pc # "idle" => call[c].op # None
  BY <1>t DEF OpFits
<1>b. ASSUME Settle(c, "busy"), call[c].pc # "idle", UNCHANGED <<store, exported>> PROVE Atomic!Next
  <2>1. asks' = [asks EXCEPT ![c] = None]
    BY <1>b, <1>t, SettleAnswers
  <2>2. Atomic!Refuse(c)
    BY <1>b, <1>n, <2>1 DEF Atomic!Refuse, Content
  <2> QED
    BY <2>2 DEF Atomic!Next
<1>p. ASSUME NEW p, Progress(c, p), p.op = call[c].op, UNCHANGED <<store, exported>>
      PROVE  UNCHANGED Atomic!vars
  BY <1>p, <1>t, ProgressAsks DEF Atomic!vars, Content
<1>f. \A x \in Progresses : DOMAIN x = {"pc", "op", "attempt", "tries", "opened", "embedded", "before", "seen"}
  BY DEF Progresses
<1>1. ASSUME OpenExport(c) PROVE UNCHANGED Atomic!vars
  BY <1>1, <1>t, <1>f, <1>p DEF OpenExport
<1>2. ASSUME ExportBytes(c) PROVE UNCHANGED Atomic!vars
  BY <1>2, <1>t, <1>f, <1>p DEF ExportBytes
<1>3. ASSUME ReadEpoch(c) PROVE UNCHANGED Atomic!vars
  BY <1>3, <1>t, <1>f, <1>p DEF ReadEpoch
<1>4. ASSUME ReadRows(c) PROVE UNCHANGED Atomic!vars
  BY <1>4, <1>t, <1>f, <1>p DEF ReadRows
<1>5. ASSUME ReadQuarantine(c) PROVE UNCHANGED Atomic!vars
  BY <1>5, <1>t, <1>f, <1>p DEF ReadQuarantine
<1>6. ASSUME CheckSnapshot(c) PROVE Atomic!Next \/ UNCHANGED Atomic!vars
  <2>1. /\ [call[c] EXCEPT !.pc = IF call[c].op = Export THEN "close" ELSE "commit"].op = call[c].op
        /\ [call[c] EXCEPT !.pc = "begin", !.tries = @ + 1].op = call[c].op
    BY <1>t, <1>f
  <2> QED
    BY <1>6, <2>1, <1>b, <1>p DEF CheckSnapshot
<1>7. ASSUME Commit(c) PROVE Atomic!Next
  <2>1. call[c].pc = "commit" /\ call[c].op \in Ops /\ exported' = exported /\ Settle(c, "done")
    BY <1>7, <1>t DEF Commit, OpFits
  <2>2. asks' = [asks EXCEPT ![c] = None]
    BY <2>1, <1>t, SettleAnswers
  <2>3. Content' = Apply(call[c].op, Content)
    <3>1. CASE ~Mutates(call[c].op)
      <4>1. call[c].op.kind = "look" /\ store' = store
        BY <1>7, <3>1 DEF Commit, Mutates
      <4> QED
        BY <4>1 DEF Apply, Content
    <3>2. CASE Mutates(call[c].op)
      <4>1. store.epoch = call[c].before
        BY <1>7, <3>2 DEF Commit, EpochMatches, SameEpoch
      <4>2. call[c].seen.rows = store.rows /\ call[c].seen.quarantine = store.quarantine
        BY <1>t, <2>1, <4>1 DEF CallInv, SeesWhole
      <4>3. call[c].seen = Content
        BY <1>t, <4>2 DEF Progresses, Contents, Content
      <4>4. Apply(call[c].op, Content) \in Contents
        BY <1>t, <2>1, <4>3, ApplyType DEF Progresses
      <4>5. /\ store'.rows = Apply(call[c].op, Content).rows
            /\ store'.quarantine = Apply(call[c].op, Content).quarantine
        BY <1>7, <3>2, <4>3 DEF Commit, Batch
      <4> QED
        BY <4>4, <4>5 DEF Contents, Content
    <3> QED
      BY <3>1, <3>2
  <2>4. Atomic!Perform(c)
    BY <2>1, <2>2, <2>3 DEF Atomic!Perform
  <2> QED
    BY <2>4 DEF Atomic!Next
<1>8. ASSUME Conflict(c) PROVE Atomic!Next \/ UNCHANGED Atomic!vars
  <2>1. [call[c] EXCEPT !.pc = "begin", !.attempt = @ + 1, !.tries = 0].op = call[c].op
    BY <1>t, <1>f
  <2> QED
    BY <1>8, <2>1, <1>b, <1>p DEF Conflict
<1>9. ASSUME CloseExport(c) PROVE Atomic!Next \/ UNCHANGED Atomic!vars
  <2>1. call[c].pc = "close" /\ call[c].op = Export /\ store' = store
    BY <1>9, <1>t DEF CloseExport, OpFits
  <2>2. CASE Untouched(c)
    <3>1. Settle(c, "done") /\ exported' = [exported EXCEPT ![c] = call[c].seen]
      BY <1>9, <2>2 DEF CloseExport
    <3>2. store.epoch = call[c].before
      BY <2>2 DEF Untouched
    <3>3. call[c].seen.rows = store.rows /\ call[c].seen.quarantine = store.quarantine
      BY <1>t, <2>1, <3>2 DEF CallInv, SeesWhole
    <3>4. call[c].seen = Content
      BY <1>t, <3>3 DEF Progresses, Contents, Content
    <3>5. asks' = [asks EXCEPT ![c] = None]
      BY <3>1, <1>t, SettleAnswers
    <3>6. Atomic!Answer(c)
      BY <2>1, <3>1, <3>4, <3>5 DEF Atomic!Answer, Content
    <3> QED
      BY <3>6 DEF Atomic!Next
  <2>3. CASE ~Untouched(c)
    <3>1. [call[c] EXCEPT !.pc = "open", !.attempt = @ + 1].op = call[c].op
      BY <1>t, <1>f
    <3> QED
      BY <1>9, <2>1, <2>3, <3>1, <1>b, <1>p DEF CloseExport, RetryExport
  <2> QED
    BY <2>2, <2>3
<1> QED
  BY <1>1, <1>2, <1>3, <1>4, <1>5, <1>6, <1>7, <1>8, <1>9 DEF Step

\* Each save, deletion and export of a tab, many calls on the file long, looks
\* to its caller like one moment, or is refused: the epoch a transaction read
\* first is the one it commits against, and an export leaves with one epoch.
THEOREM RepositoryLooksAtomic == Spec => LooksAtomic
<1>1. Init => Atomic!Init
  <2> SUFFICES ASSUME Init PROVE Atomic!Init
    OBVIOUS
  <2>1. Content \in Contents
    BY DEF Init, Content, Contents
  <2>2. [c \in Callers |-> call[c].op] = [c \in Callers |-> None]
    BY DEF Init, Idle
  <2> QED
    BY <2>1, <2>2 DEF Init, Atomic!Init
<1>2. TypeInv /\ RepoInv /\ [Next]_vars => [Atomic!Next]_(Atomic!vars)
  <2> SUFFICES ASSUME TypeInv, RepoInv, [Next]_vars PROVE Atomic!Next \/ UNCHANGED Atomic!vars
    OBVIOUS
  <2> DEFINE asks == [d \in Callers |-> call[d].op]
  <2>t. TypeOK /\ \A c \in Callers : call[c].pc = "idle" => asks[c] = None
    BY DEF TypeInv, OpFits
  <2>1. ASSUME NEW c \in Callers, NEW op \in Ops, Transact(c, op) PROVE Atomic!Next
    <3>1. [Idle EXCEPT !.pc = "begin", !.op = op].op = op
      BY DEF Idle
    <3>2. asks' = [asks EXCEPT ![c] = op]
      BY <2>1, <2>t, <3>1 DEF Transact, Progress, TypeOK
    <3>3. Atomic!Ask(c, op)
      BY <2>1, <2>t, <3>2 DEF Transact, Atomic!Ask, Content
    <3> QED
      BY <3>3 DEF Atomic!Next
  <2>2. ASSUME NEW c \in Callers, StartExport(c) PROVE Atomic!Next
    <3>1. [Idle EXCEPT !.pc = "open", !.op = Export].op = Export
      BY DEF Idle
    <3>2. asks' = [asks EXCEPT ![c] = Export]
      BY <2>2, <2>t, <3>1 DEF StartExport, Progress, TypeOK
    <3>3. Atomic!Ask(c, Export)
      BY <2>2, <2>t, <3>2 DEF StartExport, Atomic!Ask, Content
    <3> QED
      BY <3>3 DEF Atomic!Next
  <2>3. ASSUME NEW c \in Callers, NEW i \in Items, HoldQuarantine(c, i) PROVE Atomic!Next
    <3> DEFINE new == [Content EXCEPT !.quarantine = @ \cup {i}]
    <3>1. new \in Contents /\ new.rows = store.rows
      BY <2>t DEF Content, Contents, TypeOK
    <3>2. Content' = new
      BY <2>3, <3>1 DEF HoldQuarantine, Batch, Content
    <3>3. Atomic!SideBatch
      BY <2>3, <3>1, <3>2 DEF HoldQuarantine, Atomic!SideBatch, Content
    <3> QED
      BY <3>3 DEF Atomic!Next
  <2>4. CASE UNCHANGED vars
    BY <2>4 DEF vars, Atomic!vars, Content
  <2> QED
    BY <2>1, <2>2, <2>3, <2>4, StepRefines DEF Next
<1> QED
  BY <1>1, <1>2, TypeInvHolds, RepoInvHolds, PTL DEF Spec, LooksAtomic, Atomic!Spec
=============================================================================
