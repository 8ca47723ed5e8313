--------------------------- MODULE SemanticMemory ---------------------------
(***************************************************************************)
(* Semantic memory over the chat (packages/memory/src/index.ts,             *)
(* vectorStore.ts, chatMemory.ts): messages are embedded and stored as      *)
(* vectors of a dataset generation, searched, erased with their person and  *)
(* rebuilt when a new generation owes it (profileDataLifecycle.ts,          *)
(* backupService.ts, clearMemoryRebuildPending).  The embedding model and   *)
(* the vector index are external.  A generation is committed in one step    *)
(* here: what happens inside a lease is the subject of DatasetGeneration.   *)
(***************************************************************************)
EXTENDS Naturals, FiniteSets

CONSTANTS Tabs, NoTab,
          Front,                     \* bound: the tabs that come to the front
          Persons, Messages, Owner,  \* Owner[m] is the person of message m
          Early,                     \* the messages there at first
          File,                      \* the messages of the file to import
          MaxGenerations,            \* bound: deletions, imports and aborts
          MaxReloads                 \* bound: page loads after the first

ASSUME MemoryAssumption ==
  /\ NoTab \notin Tabs /\ Front \subseteq Tabs /\ Owner \in [Messages -> Persons]
  /\ Early \cup File \subseteq Messages
  /\ MaxGenerations \in Nat /\ MaxReloads \in Nat

VARIABLES gen,      \* ledger.activeEpoch
          lease,    \* restoreInProgress: the tab that deletes
          owed,     \* memoryRebuildPending
          saved,    \* the messages in SQLite
          vectors,  \* the index, shared by the tabs
          seen,     \* readObservedDatasetEpoch of a tab
          live,     \* the chat store of a tab
          banned,   \* deletedProfiles of a tab's current facade
          gone,     \* history: persons erased by that facade
          ops,      \* pending: messages being indexed
          rebuilds, \* rebuildMemory calls under way
          erasing,  \* deleteForProfile calls under way
          deleting, \* the person a tab deletes
          notices,  \* what was broadcast to a tab
          searches, \* retrieve calls under way
          found,    \* what the last search returned
          born,     \* history: the messages there have been
          changes, reloads

vars == <<gen, lease, owed, saved, vectors, seen, live, banned, gone, ops, rebuilds, erasing,
          deleting, notices, searches, found, born, changes, reloads>>
ledger == <<gen, lease, owed>>
facade == <<banned, gone>>
count == <<born, changes, reloads>>

Vector(g, m) == [gen |-> g, msg |-> m]
Mine(t) == {o \in ops : o.tab = t /\ ~o.old}
Clearing(t) == \E b \in rebuilds : b.tab = t /\ ~b.old /\ b.pc = "clear"
At(f, t, x) == [f EXCEPT ![t] = x]

Init == /\ gen = 0 /\ lease = NoTab /\ owed = FALSE
        /\ saved = Early /\ vectors = {Vector(0, m) : m \in Early}
        /\ seen = [t \in Tabs |-> 0] /\ live = [t \in Tabs |-> Early]
        /\ banned = [t \in Tabs |-> {}] /\ gone = [t \in Tabs |-> {}]
        /\ ops = {} /\ rebuilds = {} /\ erasing = {} /\ searches = {} /\ found = {}
        /\ deleting = [t \in Tabs |-> {}] /\ notices = [t \in Tabs |-> {}]
        /\ born = Early /\ changes = 0 /\ reloads = 0

-----------------------------------------------------------------------------
(* indexMessage and upsert. *)

\* acceptsVectorWrite
AcceptsWrite(g) == lease = NoTab /\ gen = g

\* Mutant of Op: the message is filed under the generation to come.
OpAhead(t, m, by, old) ==
  [tab |-> t, msg |-> m, gen |-> seen[t] + 1, pc |-> "embed", by |-> by, old |-> old]

Op(t, m, by, old) == [tab |-> t, msg |-> m, gen |-> seen[t], pc |-> "embed", by |-> by, old |-> old]

Move(o, pc) == ops' = (ops \ {o}) \cup {[o EXCEPT !.pc = pc]}

Waiting(o) == {b \in rebuilds : b.tab = o.tab /\ b.path = o.by /\ b.pc = "wait"}

\* Mutant of Resume: the rebuild never hears of a failed embedding.
ResumeDone(o, ok) ==
  rebuilds' = IF ok THEN (rebuilds \ Waiting(o)) \cup {[b EXCEPT !.pc = "index"] : b \in Waiting(o)}
              ELSE rebuilds

\* The rebuild that waits for this message goes on, or fails with it.
Resume(o, ok) ==
  rebuilds' = (rebuilds \ Waiting(o)) \cup
              {[b EXCEPT !.pc = "index"] : b \in {x \in Waiting(o) : ok}}

End(o, ok) == ops' = ops \ {o} /\ Resume(o, ok)

\* Mutant of MayIndex: a message of a deleted person is indexed again.
AlwaysIndex(m, bans) == TRUE

MayIndex(m, bans) == Owner[m] \notin bans

(* A chat turn: the message is saved if the tab's store is current, and is    *)
(* indexed without being waited for.                                         *)
Chat(t, m) ==
  /\ m \notin born /\ born' = born \cup {m}
  /\ ~Clearing(t) /\ deleting[t] = {}
  /\ live' = At(live, t, live[t] \cup {m})
  /\ saved' = IF AcceptsWrite(seen[t]) THEN saved \cup {m} ELSE saved
  /\ ops' = IF MayIndex(m, banned[t]) THEN ops \cup {Op(t, m, "chat", FALSE)} ELSE ops
  /\ UNCHANGED <<ledger, vectors, seen, facade, rebuilds, erasing, deleting, notices, searches,
                 found, changes, reloads>>

Embedded(o) ==
  /\ o.pc = "embed"
  /\ \/ /\ seen[o.tab] = o.gen /\ Move(o, "accept") /\ UNCHANGED rebuilds
     \/ seen[o.tab] # o.gen /\ End(o, TRUE)
     \/ End(o, FALSE)
  /\ UNCHANGED <<ledger, saved, vectors, seen, live, facade, erasing, deleting, notices, searches,
                 found, count>>

\* Every ledger read is observed by the tab.
Accept(o) ==
  /\ o.pc = "accept"
  /\ seen' = At(seen, o.tab, gen)
  /\ IF AcceptsWrite(o.gen) THEN Move(o, "insert") /\ UNCHANGED rebuilds ELSE End(o, TRUE)
  /\ UNCHANGED <<ledger, saved, vectors, live, facade, erasing, deleting, notices, searches, found,
                 count>>

Insert(o) ==
  /\ o.pc = "insert"
  /\ vectors' = vectors \cup {Vector(o.gen, o.msg)}
  /\ Move(o, "check")
  /\ UNCHANGED <<ledger, saved, seen, live, facade, rebuilds, erasing, deleting, notices, searches,
                 found, count>>

Check(o) ==
  /\ o.pc = "check"
  /\ seen' = At(seen, o.tab, gen)
  /\ vectors' = IF AcceptsWrite(o.gen) THEN vectors ELSE vectors \ {Vector(o.gen, o.msg)}
  /\ End(o, TRUE)
  /\ UNCHANGED <<ledger, saved, live, facade, erasing, deleting, notices, searches, found, count>>

-----------------------------------------------------------------------------
(* rebuildMemory, and the obligation it discharges. *)

Rebuild(t, path, todo) == [tab |-> t, path |-> path, todo |-> todo, epoch |-> gen, pc |-> "clear",
                           late |-> FALSE, old |-> FALSE, bans |-> {}]

\* invalidateMemoryRuntime: what is under way goes on with the old facade.
Invalidate(t) ==
  /\ rebuilds' = {IF b.tab = t /\ ~b.old THEN [b EXCEPT !.old = TRUE, !.bans = banned[t]] ELSE b :
                  b \in rebuilds}
  /\ ops' = {IF o.tab = t THEN [o EXCEPT !.old = TRUE] ELSE o : o \in ops}
  /\ erasing' = {IF e.tab = t THEN [e EXCEPT !.old = TRUE] ELSE e : e \in erasing}
  /\ banned' = At(banned, t, {}) /\ gone' = At(gone, t, {})

(* The lifecycle lane: adopt the generation, then resumePendingMemoryRebuild. *)
Wake(t) ==
  /\ \A b \in rebuilds : b.tab = t => b.path # "lane"
  /\ seen[t] # gen \/ owed
  /\ deleting[t] = {}
  /\ seen' = At(seen, t, gen)
  /\ IF seen[t] = gen
     THEN /\ UNCHANGED <<live, ops, erasing, facade>>
          /\ rebuilds' = rebuilds \cup {Rebuild(t, "lane", live[t])}
     ELSE /\ live' = At(live, t, saved)
          /\ Invalidate(t)
  /\ UNCHANGED <<ledger, saved, vectors, deleting, notices, searches, found, count>>

\* clear(): drains the facade's writes, and forgets whom it erased.
Clear(b) ==
  /\ b.pc = "clear"
  /\ \A o \in ops : o.tab = b.tab => o.old # b.old
  /\ vectors' = {}
  /\ rebuilds' = (rebuilds \ {b}) \cup {[b EXCEPT !.pc = "index", !.bans = {}]}
  /\ IF b.old THEN UNCHANGED facade
     ELSE banned' = At(banned, b.tab, {}) /\ gone' = At(gone, b.tab, {})
  /\ UNCHANGED <<ledger, saved, seen, live, ops, erasing, deleting, notices, searches, found, count>>

Index(b, m) ==
  /\ b.pc = "index" /\ m \in b.todo
  /\ b.old \/ ~Clearing(b.tab)
  /\ LET next == [b EXCEPT !.todo = @ \ {m}]
     IN IF MayIndex(m, IF b.old THEN b.bans ELSE banned[b.tab])
        THEN /\ ops' = ops \cup {Op(b.tab, m, b.path, b.old)}
             /\ rebuilds' = (rebuilds \ {b}) \cup {[next EXCEPT !.pc = "wait"]}
        ELSE rebuilds' = (rebuilds \ {b}) \cup {next} /\ UNCHANGED ops
  /\ UNCHANGED <<ledger, saved, vectors, seen, live, facade, erasing, deleting, notices, searches,
                 found, count>>

(* The importing page stops waiting after 30 seconds; the rebuild goes on. *)
TimeOut(b) ==
  /\ b.path = "import" /\ ~b.late
  /\ rebuilds' = (rebuilds \ {b}) \cup {[b EXCEPT !.late = TRUE]}
  /\ UNCHANGED <<ledger, saved, vectors, seen, live, facade, ops, erasing, deleting, notices,
                 searches, found, count>>

\* The lane names the generation it began in; an import reads it only now.
EpochOf(b) == IF b.path = "lane" THEN b.epoch ELSE gen

(* clearMemoryRebuildPending *)
Complete(b) ==
  /\ b.pc = "index" /\ b.todo = {}
  /\ rebuilds' = rebuilds \ {b}
  /\ owed' = IF ~b.late /\ EpochOf(b) = gen THEN FALSE ELSE owed
  /\ UNCHANGED <<gen, lease, saved, vectors, seen, live, facade, ops, erasing, deleting, notices,
                 searches, found, count>>

-----------------------------------------------------------------------------
(* Deletions and imports. *)

Changed == changes < MaxGenerations /\ changes' = changes + 1

Broadcast(t, n) == notices' = [u \in Tabs |-> IF u = t THEN notices[u] ELSE notices[u] \cup {n}]

\* deleteProfileData: the lease, the latest dataset, the tombstones ...
BeginDelete(t, p) ==
  /\ Changed /\ lease = NoTab /\ lease' = t
  /\ deleting' = At(deleting, t, {p})
  /\ seen' = At(seen, t, gen) /\ live' = At(live, t, saved)
  /\ UNCHANGED <<gen, owed, saved, vectors, facade, ops, rebuilds, erasing, notices, searches, found,
                 born, reloads>>

AbortDelete(t) ==
  /\ deleting[t] # {} /\ \A p \in deleting[t] : p \notin banned[t]
  /\ lease' = NoTab /\ deleting' = At(deleting, t, {})
  /\ UNCHANGED <<gen, owed, saved, vectors, seen, live, facade, ops, rebuilds, erasing, notices,
                 searches, found, count>>

Forget(t, p) ==
  /\ banned' = At(banned, t, banned[t] \cup {p})
  /\ erasing' = erasing \cup {[tab |-> t, who |-> p, old |-> FALSE]}

EraseDeleted(t) ==
  /\ ~Clearing(t)
  /\ \E p \in deleting[t] : p \notin banned[t] /\ Forget(t, p)
  /\ UNCHANGED <<ledger, saved, vectors, seen, live, gone, ops, rebuilds, deleting, notices, searches,
                 found, count>>

\* Mutant of Drained: a deletion waits for the tab to be idle.
WhenIdle(e) == \A b \in rebuilds : b.tab # e.tab

\* A clear that has forgotten the person has waited for every write, too.
Drained(e) == \/ ~e.old /\ e.who \notin banned[e.tab]
              \/ \A o \in ops : o.tab = e.tab /\ o.old = e.old => Owner[o.msg] # e.who

(* deleteForProfile: drain, then delete the person's vectors. *)
Erase(e) ==
  /\ Drained(e)
  /\ vectors' = {v \in vectors : Owner[v.msg] # e.who}
  /\ erasing' = erasing \ {e}
  /\ gone' = At(gone, e.tab, gone[e.tab] \cup (IF e.old THEN {} ELSE {e.who} \cap banned[e.tab]))
  /\ UNCHANGED <<ledger, saved, seen, live, banned, ops, rebuilds, deleting, notices, searches, found,
                 count>>

\* ... and the new generation, once the vectors are erased or time is up.
CommitDelete(t) ==
  /\ \E p \in deleting[t] :
       /\ p \in banned[t]
       /\ saved' = {m \in saved : Owner[m] # p}
       /\ live' = At(live, t, {m \in live[t] : Owner[m] # p})
       /\ Broadcast(t, p)
  /\ gen' = gen + 1 /\ lease' = NoTab /\ owed' = TRUE
  /\ seen' = At(seen, t, gen + 1)
  /\ deleting' = At(deleting, t, {})
  /\ UNCHANGED <<vectors, facade, ops, rebuilds, erasing, searches, found, count>>

(* commitBackupImport of a SQLite file: one generation, then its rebuild. *)
Import(t) ==
  /\ Changed /\ lease = NoTab /\ File # {}
  /\ \A b \in rebuilds : b.tab = t => b.path # "import"
  /\ gen' = gen + 1 /\ owed' = TRUE /\ saved' = File /\ born' = born \cup File
  /\ seen' = At(seen, t, gen + 1)
  /\ rebuilds' = rebuilds \cup {[Rebuild(t, "import", File) EXCEPT !.epoch = gen + 1]}
  /\ Broadcast(t, NoTab)
  /\ UNCHANGED <<lease, vectors, live, facade, ops, erasing, deleting, searches, found,
                 reloads>>

(* applyRemoteDeletionNotice: a person was deleted, or all was replaced. *)
HearDelete(t, p) ==
  /\ p \in notices[t] \cap Persons /\ deleting[t] = {} /\ ~Clearing(t)
  /\ notices' = At(notices, t, notices[t] \ {p})
  /\ seen' = At(seen, t, gen)
  /\ live' = At(live, t, {m \in (IF seen[t] # gen THEN saved ELSE live[t]) : Owner[m] # p})
  /\ Forget(t, p)
  /\ UNCHANGED <<ledger, saved, vectors, gone, ops, rebuilds, deleting, searches, found, count>>

HearReplace(t) ==
  /\ NoTab \in notices[t] /\ deleting[t] = {}
  /\ notices' = At(notices, t, notices[t] \ {NoTab})
  /\ seen' = At(seen, t, gen) /\ live' = At(live, t, saved)
  /\ Invalidate(t)
  /\ UNCHANGED <<ledger, saved, vectors, deleting, searches, found, count>>

(* A page load: the tab's work in memory is lost. *)
Reload(t) ==
  /\ reloads < MaxReloads /\ reloads' = reloads + 1
  /\ lease # t
  /\ seen' = At(seen, t, gen) /\ live' = At(live, t, saved)
  /\ banned' = At(banned, t, {}) /\ gone' = At(gone, t, {})
  /\ ops' = {o \in ops : o.tab # t} /\ rebuilds' = {b \in rebuilds : b.tab # t}
  /\ erasing' = {e \in erasing : e.tab # t} /\ searches' = {s \in searches : s.tab # t}
  /\ notices' = At(notices, t, {})
  /\ UNCHANGED <<ledger, saved, vectors, deleting, found, born, changes>>

-----------------------------------------------------------------------------
(* retrieve and search. *)

\* acceptsVectorRead
AcceptsRead(g) == ~owed /\ lease = NoTab /\ gen = g

Search(t) ==
  /\ ~Clearing(t) /\ \A s \in searches : s.tab # t
  /\ searches' = searches \cup {[tab |-> t, gen |-> seen[t], pc |-> "ask", hits |-> {}]}
  /\ UNCHANGED <<ledger, saved, vectors, seen, live, facade, ops, rebuilds, erasing, deleting,
                 notices, found, count>>

Query(s) ==
  /\ s.pc \in {"ask", "query"}
  /\ searches' = (searches \ {s}) \cup
       (IF s.pc = "query" THEN {[s EXCEPT !.pc = "guard", !.hits = {v \in vectors : v.gen = s.gen}]}
        ELSE IF seen[s.tab] = s.gen /\ AcceptsRead(s.gen) THEN {[s EXCEPT !.pc = "query"]} ELSE {})
  /\ seen' = IF s.pc = "ask" THEN At(seen, s.tab, gen) ELSE seen
  /\ UNCHANGED <<ledger, saved, vectors, live, facade, ops, rebuilds, erasing, deleting, notices,
                 found, count>>

\* Mutant of Believed: what was found is shown without a second look.
BelievedAtOnce(s) == TRUE

Believed(s) == AcceptsRead(s.gen)

Answer(s) ==
  /\ s.pc = "guard"
  /\ searches' = searches \ {s}
  /\ seen' = At(seen, s.tab, gen)
  /\ found' = IF Believed(s) THEN s.hits ELSE {}
  /\ UNCHANGED <<ledger, saved, vectors, live, facade, ops, rebuilds, erasing, deleting, notices,
                 count>>

-----------------------------------------------------------------------------
Step(o) == Embedded(o) \/ Accept(o) \/ Insert(o) \/ Check(o)

Continue(b) == Clear(b) \/ Complete(b) \/ \E m \in Messages : Index(b, m)

Next == \/ \E o \in ops : Step(o)
        \/ \E b \in rebuilds : Continue(b) \/ TimeOut(b)
        \/ \E e \in erasing : Erase(e)
        \/ \E s \in searches : Query(s) \/ Answer(s)
        \/ \E t \in Front : Wake(t) \/ Search(t) \/ \E m \in Messages : Chat(t, m)
        \/ \E t \in Tabs :
             \/ \E p \in Persons : BeginDelete(t, p) \/ HearDelete(t, p)
             \/ AbortDelete(t) \/ EraseDeleted(t) \/ CommitDelete(t)
             \/ Import(t) \/ HearReplace(t) \/ Reload(t)

(* Embedding ends, with vectors or an error, and the SQLite worker answers.  *)
(* Who waits for a clear goes on when it ends, before another can begin: the *)
(* rebuilds are strongly fair.                                               *)
Spec == /\ Init /\ [][Next]_vars
        /\ \A t \in Tabs :
             /\ \A m \in Messages : WF_vars(\E o \in ops : o.tab = t /\ o.msg = m /\ Step(o))
             /\ \A x \in {"lane", "import"} :
                  SF_vars(\E b \in rebuilds : b.tab = t /\ b.path = x /\ Continue(b))
             /\ \A p \in Persons :
                  WF_vars(\E e \in erasing : e.tab = t /\ e.who = p /\ Erase(e))

-----------------------------------------------------------------------------
(* Properties. *)

Vectors == [gen : 0 .. MaxGenerations, msg : Messages]
Rebuilds == [tab : Tabs, path : {"lane", "import"}, todo : SUBSET Messages,
             epoch : 0 .. MaxGenerations, pc : {"clear", "index", "wait"}, late : BOOLEAN,
             old : BOOLEAN, bans : SUBSET Persons]
Indexing == [tab : Tabs, msg : Messages, gen : 0 .. MaxGenerations,
             pc : {"embed", "accept", "insert", "check"}, by : {"chat", "lane", "import"},
             old : BOOLEAN]

TypeOK ==
  /\ gen \in 0 .. MaxGenerations /\ lease \in Tabs \cup {NoTab} /\ owed \in BOOLEAN
  /\ saved \subseteq born /\ born \subseteq Messages /\ vectors \subseteq Vectors /\ found \subseteq Vectors
  /\ seen \in [Tabs -> 0 .. gen] /\ live \in [Tabs -> SUBSET Messages]
  /\ banned \in [Tabs -> SUBSET Persons] /\ gone \in [Tabs -> SUBSET Persons]
  /\ ops \subseteq Indexing /\ rebuilds \subseteq Rebuilds
  /\ erasing \subseteq [tab : Tabs, who : Persons, old : BOOLEAN]
  /\ deleting \in [Tabs -> SUBSET Persons]
  /\ notices \in [Tabs -> SUBSET (Persons \cup {NoTab})]
  /\ searches \subseteq [tab : Tabs, gen : 0 .. MaxGenerations, pc : {"ask", "query", "guard"},
                         hits : SUBSET Vectors]
  /\ changes \in 0 .. MaxGenerations /\ reloads \in 0 .. MaxReloads

(* A search never answers across a change of the dataset: what it returns is *)
(* of the generation that is active then, and that generation is indexed.    *)
AnswersAreCurrent ==
  [][found' # found => \A v \in found' : v.gen = gen /\ ~owed /\ lease = NoTab]_vars

(* Once a facade has erased a person, nothing of that person is on its way   *)
(* into the index through it, so no late embedding brings a vector back.     *)
ErasedStaysErased ==
  \A t \in Tabs : \A o \in Mine(t) : Owner[o.msg] \notin gone[t]

(* Everyone waits for everyone: a deletion waits for writes, a clear waits   *)
(* for writes, a write waits for a clear.  Yet every deletion of vectors and *)
(* every rebuild ends.                                                       *)
Erasing(t, p) == \E e \in erasing : e.tab = t /\ e.who = p
Rebuilding(t, x) == \E b \in rebuilds : b.tab = t /\ b.path = x

WaitsEnd ==
  \A t \in Tabs : /\ \A p \in Persons : Erasing(t, p) ~> ~Erasing(t, p)
                  /\ \A x \in {"lane", "import"} : Rebuilding(t, x) ~> ~Rebuilding(t, x)
=============================================================================
