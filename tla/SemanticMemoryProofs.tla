------------------------ MODULE SemanticMemoryProofs ------------------------
(***************************************************************************)
(* Theorems about SemanticMemory: its types, that nothing of an erased       *)
(* person is on its way into the index, and that answers are current.        *)
(***************************************************************************)
EXTENDS SemanticMemory, TLAPS

-----------------------------------------------------------------------------
(* Types. *)

\* Who deletes has the lease, and every generation is one of the counted
\* changes, that of the lease included.
OneLease == /\ \A t \in Tabs : deleting[t] # {} => lease = t
            /\ gen + (IF lease = NoTab THEN 0 ELSE 1) <= changes

TypeInv == TypeOK /\ OneLease

Searches == [tab : Tabs, gen : 0 .. MaxGenerations, pc : {"ask", "query", "guard"}, hits : SUBSET Vectors]
Erasures == [tab : Tabs, who : Persons, old : BOOLEAN]

\* The bounds are numbers; a generation a tab has seen is one of them.
LEMMA Generations ==
  ASSUME TypeInv
  PROVE  /\ MaxGenerations \in Nat /\ MaxReloads \in Nat /\ gen \in 0 .. MaxGenerations /\ gen \in Nat
         /\ 0 .. gen \subseteq 0 .. MaxGenerations
         /\ \A t \in Tabs : seen[t] \in 0 .. MaxGenerations
  BY MemoryAssumption DEF TypeInv, TypeOK

\* What a tab has seen, when it looks again: generations only grow.
LEMMA SeenType ==
  ASSUME TypeInv, NEW t, NEW g \in Nat, gen <= g
  PROVE  At(seen, t, g) \in [Tabs -> 0 .. g] /\ seen \in [Tabs -> 0 .. g]
<1>1. seen \in [Tabs -> 0 .. gen] /\ gen \in Nat
  BY Generations DEF TypeInv, TypeOK
<1>2. 0 .. gen \subseteq 0 .. g /\ g \in 0 .. g
  BY <1>1
<1>3. \A u \in Tabs : seen[u] \in 0 .. g
  BY <1>1, <1>2
<1> QED
  BY <1>1, <1>2, <1>3 DEF At

\* A message that is indexed is so under the generation its tab has seen.
LEMMA OpType ==
  ASSUME TypeInv, NEW t \in Tabs, NEW m \in Messages, NEW by \in {"chat", "lane", "import"},
         NEW old \in BOOLEAN
  PROVE  Op(t, m, by, old) \in Indexing
  BY Generations DEF Op, Indexing

\* The next step of a message being indexed.
LEMMA MoveType ==
  ASSUME TypeInv, NEW o \in ops, NEW pc \in {"embed", "accept", "insert", "check"}, Move(o, pc)
  PROVE  ops' \subseteq Indexing
  BY DEF TypeInv, TypeOK, Move, Indexing

\* A rebuild that goes on, or fails.
LEMMA ResumeType ==
  ASSUME TypeInv, NEW o \in ops, NEW ok \in BOOLEAN, Resume(o, ok)
  PROVE  rebuilds' \subseteq Rebuilds
<1>1. \A b \in Waiting(o) : b \in Rebuilds /\ [b EXCEPT !.pc = "index"] \in Rebuilds
  BY DEF TypeInv, TypeOK, Waiting, Rebuilds
<1> QED
  BY <1>1 DEF TypeInv, TypeOK, Resume

\* An indexing that ends resumes a rebuild of the right type.
LEMMA EndType ==
  ASSUME TypeInv, NEW o \in ops, NEW ok \in BOOLEAN, End(o, ok)
  PROVE  ops' \subseteq Indexing /\ rebuilds' \subseteq Rebuilds
  BY ResumeType DEF TypeInv, TypeOK, End

\* Every step of an indexing keeps the types.
LEMMA StepType ==
  ASSUME TypeInv, NEW o \in ops, Step(o)
  PROVE  TypeInv'
<1>a. TypeOK /\ OneLease /\ o \in Indexing
  BY DEF TypeInv, TypeOK
<1>b. o.tab \in Tabs /\ o.msg \in Messages /\ o.gen \in 0 .. MaxGenerations
  BY <1>a DEF Indexing
<1>c. At(seen, o.tab, gen) \in [Tabs -> 0 .. gen]
  BY Generations, SeenType
<1> USE DEF ledger, facade, count
<1>1. CASE Embedded(o)
  <2>1. ops' \subseteq Indexing /\ rebuilds' \subseteq Rebuilds
    BY <1>1, <1>a, MoveType, EndType DEF Embedded, TypeOK
  <2> QED
    BY <1>1, <1>a, <2>1 DEF Embedded, TypeInv, TypeOK, OneLease
<1>2. CASE Accept(o)
  <2>1. ops' \subseteq Indexing /\ rebuilds' \subseteq Rebuilds
    BY <1>2, <1>a, MoveType, EndType DEF Accept, TypeOK
  <2> QED
    BY <1>2, <1>a, <1>c, <2>1 DEF Accept, TypeInv, TypeOK, OneLease
<1>3. CASE Insert(o)
  <2>1. ops' \subseteq Indexing /\ vectors' \subseteq Vectors
    BY <1>3, <1>a, <1>b, MoveType DEF Insert, TypeOK, Vectors, Vector
  <2> QED
    BY <1>3, <1>a, <2>1 DEF Insert, TypeInv, TypeOK, OneLease
<1>4. CASE Check(o)
  <2>1. ops' \subseteq Indexing /\ rebuilds' \subseteq Rebuilds /\ vectors' \subseteq Vectors
    BY <1>4, <1>a, EndType DEF Check, TypeOK
  <2> QED
    BY <1>4, <1>a, <1>c, <2>1 DEF Check, TypeInv, TypeOK, OneLease
<1> QED
  BY <1>1, <1>2, <1>3, <1>4 DEF Step

\* Of what is under way, an invalidation only changes whose facade it uses.
LEMMA InvalidateType ==
  ASSUME TypeInv, NEW t \in Tabs, Invalidate(t)
  PROVE  /\ rebuilds' \subseteq Rebuilds /\ ops' \subseteq Indexing /\ erasing' \subseteq Erasures
         /\ banned' \in [Tabs -> SUBSET Persons] /\ gone' \in [Tabs -> SUBSET Persons]
<1>a. /\ rebuilds \subseteq Rebuilds /\ ops \subseteq Indexing /\ erasing \subseteq Erasures
      /\ banned \in [Tabs -> SUBSET Persons] /\ gone \in [Tabs -> SUBSET Persons]
  BY DEF TypeInv, TypeOK, Erasures
<1>1. \A b \in rebuilds : [b EXCEPT !.old = TRUE, !.bans = banned[t]] \in Rebuilds
  BY <1>a DEF Rebuilds
<1>2. rebuilds' \subseteq Rebuilds
  BY <1>a, <1>1 DEF Invalidate
<1>3. \A o \in ops : [o EXCEPT !.old = TRUE] \in Indexing
  BY <1>a DEF Indexing
<1>4. ops' \subseteq Indexing
  BY <1>a, <1>3 DEF Invalidate
<1>5. \A e \in erasing : [e EXCEPT !.old = TRUE] \in Erasures
  BY <1>a DEF Erasures
<1>6. erasing' \subseteq Erasures
  BY <1>a, <1>5 DEF Invalidate
<1> QED
  BY <1>a, <1>2, <1>4, <1>6 DEF Invalidate, At

\* A rebuild begins in the generation that is active.
LEMMA RebuildType ==
  ASSUME TypeInv, NEW t \in Tabs, NEW path \in {"lane", "import"}, NEW todo \in SUBSET Messages
  PROVE  Rebuild(t, path, todo) \in Rebuilds
  BY Generations DEF Rebuild, Rebuilds

\* Every step of a rebuild keeps the types.
LEMMA ContinueType ==
  ASSUME TypeInv, NEW b \in rebuilds, Continue(b) \/ TimeOut(b)
  PROVE  TypeInv'
<1>a. /\ TypeOK /\ OneLease /\ b \in Rebuilds /\ rebuilds \subseteq Rebuilds /\ ops \subseteq Indexing
      /\ banned \in [Tabs -> SUBSET Persons] /\ gone \in [Tabs -> SUBSET Persons]
  BY DEF TypeInv, TypeOK
<1>b. b.tab \in Tabs /\ b.path \in {"lane", "import"} /\ b.todo \in SUBSET Messages /\ b.old \in BOOLEAN
  BY <1>a DEF Rebuilds
<1> USE DEF ledger, facade, count
<1>1. CASE Clear(b)
  <2>1. [b EXCEPT !.pc = "index", !.bans = {}] \in Rebuilds
    BY <1>a DEF Rebuilds
  <2>2. rebuilds' \subseteq Rebuilds /\ vectors' \subseteq Vectors
    BY <1>1, <1>a, <2>1 DEF Clear
  <2>3. banned' \in [Tabs -> SUBSET Persons] /\ gone' \in [Tabs -> SUBSET Persons]
    BY <1>1, <1>a DEF Clear, At
  <2> QED
    BY <1>1, <1>a, <2>2, <2>3 DEF Clear, TypeInv, TypeOK, OneLease
<1>2. ASSUME NEW m \in Messages, Index(b, m) PROVE TypeInv'
  <2>1. /\ [b EXCEPT !.todo = @ \ {m}] \in Rebuilds
        /\ [[b EXCEPT !.todo = @ \ {m}] EXCEPT !.pc = "wait"] \in Rebuilds
    BY <1>a DEF Rebuilds
  <2>2. Op(b.tab, m, b.path, b.old) \in Indexing
    BY <1>b, OpType
  <2>3. rebuilds' \subseteq Rebuilds /\ ops' \subseteq Indexing
    BY <1>2, <1>a, <2>1, <2>2 DEF Index
  <2> QED
    BY <1>2, <1>a, <2>3 DEF Index, TypeInv, TypeOK, OneLease
<1>3. CASE Complete(b)
  <2>1. rebuilds' \subseteq Rebuilds /\ owed' \in BOOLEAN
    BY <1>3, <1>a DEF Complete, TypeOK
  <2> QED
    BY <1>3, <1>a, <2>1 DEF Complete, TypeInv, TypeOK, OneLease
<1>4. CASE TimeOut(b)
  <2>1. [b EXCEPT !.late = TRUE] \in Rebuilds
    BY <1>a DEF Rebuilds
  <2>2. rebuilds' \subseteq Rebuilds
    BY <1>4, <1>a, <2>1 DEF TimeOut
  <2> QED
    BY <1>4, <1>a, <2>2 DEF TimeOut, TypeInv, TypeOK, OneLease
<1> QED
  BY <1>1, <1>2, <1>3, <1>4 DEF Continue

\* A person is forgotten by a facade that exists.
LEMMA ForgetType ==
  ASSUME TypeInv, NEW t \in Tabs, NEW p \in Persons, Forget(t, p)
  PROVE  banned' \in [Tabs -> SUBSET Persons] /\ erasing' \subseteq Erasures
<1>1. [tab |-> t, who |-> p, old |-> FALSE] \in Erasures
  BY DEF Erasures
<1>2. erasing \subseteq Erasures /\ banned \in [Tabs -> SUBSET Persons]
  BY DEF TypeInv, TypeOK, Erasures
<1> QED
  BY <1>1, <1>2 DEF Forget, At

\* An erasure keeps the types.
LEMMA EraseType ==
  ASSUME TypeInv, NEW e \in erasing, Erase(e)
  PROVE  TypeInv'
<1>a. TypeOK /\ OneLease /\ e.tab \in Tabs /\ e.who \in Persons
  BY DEF TypeInv, TypeOK
<1>1. gone' \in [Tabs -> SUBSET Persons]
  BY <1>a DEF Erase, At, TypeOK
<1>2. vectors' \subseteq Vectors /\ erasing' \subseteq Erasures
  BY <1>a DEF Erase, TypeOK, Erasures
<1> QED
  BY <1>a, <1>1, <1>2 DEF Erase, ledger, count, TypeInv, TypeOK, OneLease, Erasures

\* The steps of a search keep the types.
LEMMA SearchType ==
  ASSUME TypeInv, (\E t \in Tabs : Search(t)) \/ \E s \in searches : Query(s) \/ Answer(s)
  PROVE  TypeInv'
<1>a. TypeOK /\ OneLease /\ searches \subseteq Searches /\ vectors \subseteq Vectors
  BY DEF TypeInv, TypeOK, Searches
<1> USE DEF ledger, facade, count
<1>1. ASSUME NEW t \in Tabs, Search(t) PROVE TypeInv'
  <2>1. [tab |-> t, gen |-> seen[t], pc |-> "ask", hits |-> {}] \in Searches
    BY Generations DEF Searches
  <2>2. searches' \subseteq Searches
    BY <1>1, <1>a, <2>1 DEF Search
  <2> QED
    BY <1>1, <1>a, <2>2 DEF Search, TypeInv, TypeOK, OneLease, Searches
<1>2. ASSUME NEW s \in searches, Query(s) PROVE TypeInv'
  <2>1. /\ s \in Searches /\ [s EXCEPT !.pc = "query"] \in Searches
        /\ [s EXCEPT !.pc = "guard", !.hits = {v \in vectors : v.gen = s.gen}] \in Searches
    BY <1>a DEF Searches
  <2>2. searches' \subseteq Searches
    BY <1>2, <1>a, <2>1 DEF Query
  <2>3. seen' \in [Tabs -> 0 .. gen]
    <3>1. At(seen, s.tab, gen) \in [Tabs -> 0 .. gen] /\ seen \in [Tabs -> 0 .. gen]
      BY Generations, SeenType
    <3> QED
      BY <1>2, <3>1 DEF Query
  <2> QED
    BY <1>2, <1>a, <2>2, <2>3 DEF Query, TypeInv, TypeOK, OneLease, Searches
<1>3. ASSUME NEW s \in searches, Answer(s) PROVE TypeInv'
  <2>1. s \in Searches /\ s.hits \subseteq Vectors
    BY <1>a DEF Searches
  <2>2. found' \subseteq Vectors /\ seen' \in [Tabs -> 0 .. gen]
    BY <1>3, <1>a, <2>1, Generations, SeenType DEF Answer
  <2> QED
    BY <1>3, <1>a, <2>2 DEF Answer, TypeInv, TypeOK, OneLease, Searches
<1> QED
  BY <1>1, <1>2, <1>3

\* What a tab does outside the lease keeps the types.
LEMMA TabType ==
  ASSUME TypeInv, NEW t \in Tabs,
         \/ Wake(t) \/ HearReplace(t) \/ Reload(t) \/ EraseDeleted(t)
         \/ \E m \in Messages : Chat(t, m)
         \/ \E p \in Persons : HearDelete(t, p)
  PROVE  TypeInv'
<1>a. /\ TypeOK /\ OneLease /\ rebuilds \subseteq Rebuilds /\ ops \subseteq Indexing
      /\ erasing \subseteq Erasures /\ searches \subseteq Searches
      /\ banned \in [Tabs -> SUBSET Persons] /\ gone \in [Tabs -> SUBSET Persons]
      /\ live \in [Tabs -> SUBSET Messages] /\ saved \subseteq Messages /\ live[t] \subseteq Messages
  BY DEF TypeInv, TypeOK, Erasures, Searches
<1>b. At(seen, t, gen) \in [Tabs -> 0 .. gen]
  BY Generations, SeenType
<1> USE DEF ledger, facade, count
<1>1. CASE Wake(t)
  <2>1. seen' \in [Tabs -> 0 .. gen]
    BY <1>1, <1>b DEF Wake
  <2>2. /\ rebuilds' \subseteq Rebuilds /\ ops' \subseteq Indexing /\ erasing' \subseteq Erasures
        /\ banned' \in [Tabs -> SUBSET Persons] /\ gone' \in [Tabs -> SUBSET Persons]
        /\ live' \in [Tabs -> SUBSET Messages]
    <3>1. CASE seen[t] = gen
      BY <1>1, <1>a, <3>1, RebuildType DEF Wake
    <3>2. CASE seen[t] # gen
      BY <1>1, <1>a, <3>2, InvalidateType DEF Wake, At
    <3> QED
      BY <3>1, <3>2
  <2> QED
    BY <1>1, <1>a, <2>1, <2>2 DEF Wake, TypeInv, TypeOK, OneLease, Erasures
<1>2. CASE HearReplace(t)
  <2>1. /\ rebuilds' \subseteq Rebuilds /\ ops' \subseteq Indexing /\ erasing' \subseteq Erasures
        /\ banned' \in [Tabs -> SUBSET Persons] /\ gone' \in [Tabs -> SUBSET Persons]
    BY <1>2, InvalidateType DEF HearReplace
  <2>2. live' \in [Tabs -> SUBSET Messages] /\ seen' \in [Tabs -> 0 .. gen]
    BY <1>2, <1>a, <1>b DEF HearReplace, At
  <2>3. notices' \in [Tabs -> SUBSET (Persons \cup {NoTab})]
    BY <1>2, <1>a DEF HearReplace, At, TypeOK
  <2> QED
    BY <1>2, <1>a, <2>1, <2>2, <2>3 DEF HearReplace, TypeInv, TypeOK, OneLease, Erasures
<1>3. CASE Reload(t)
  <2>1. live' \in [Tabs -> SUBSET Messages] /\ seen' \in [Tabs -> 0 .. gen]
    BY <1>3, <1>a, <1>b DEF Reload, At
  <2>2. banned' \in [Tabs -> SUBSET Persons] /\ gone' \in [Tabs -> SUBSET Persons]
    BY <1>3, <1>a DEF Reload, At
  <2>3. notices' \in [Tabs -> SUBSET (Persons \cup {NoTab})]
    BY <1>3, <1>a DEF Reload, At, TypeOK
  <2>4. /\ rebuilds' \subseteq Rebuilds /\ ops' \subseteq Indexing /\ erasing' \subseteq Erasures
        /\ searches' \subseteq Searches
    BY <1>3, <1>a DEF Reload
  <2>5. reloads' \in 0 .. MaxReloads
    BY <1>3, <1>a, Generations DEF Reload, TypeOK
  <2> QED
    BY <1>3, <1>a, <2>1, <2>2, <2>3, <2>4, <2>5
       DEF Reload, TypeInv, TypeOK, OneLease, Erasures, Searches
<1>4. CASE EraseDeleted(t)
  <2>1. PICK p \in deleting[t] : Forget(t, p)
    BY <1>4 DEF EraseDeleted
  <2>2. p \in Persons
    BY <1>a, <2>1 DEF TypeOK
  <2>3. banned' \in [Tabs -> SUBSET Persons] /\ erasing' \subseteq Erasures
    BY <2>1, <2>2, ForgetType
  <2> QED
    BY <1>4, <1>a, <2>3 DEF EraseDeleted, TypeInv, TypeOK, OneLease, Erasures
<1>5. ASSUME NEW m \in Messages, Chat(t, m) PROVE TypeInv'
  <2>1. Op(t, m, "chat", FALSE) \in Indexing
    BY OpType
  <2>2. ops' \subseteq Indexing
    BY <1>5, <1>a, <2>1 DEF Chat
  <2>3. /\ live' \in [Tabs -> SUBSET Messages] /\ saved' \subseteq born' /\ born' \subseteq Messages
    BY <1>5, <1>a DEF Chat, At, TypeOK
  <2> QED
    BY <1>5, <1>a, <2>2, <2>3 DEF Chat, TypeInv, TypeOK, OneLease
<1>6. ASSUME NEW p \in Persons, HearDelete(t, p) PROVE TypeInv'
  <2>1. banned' \in [Tabs -> SUBSET Persons] /\ erasing' \subseteq Erasures
    BY <1>6, ForgetType DEF HearDelete
  <2>2. {m \in (IF seen[t] # gen THEN saved ELSE live[t]) : Owner[m] # p} \subseteq Messages
    BY <1>a
  <2>3. live' \in [Tabs -> SUBSET Messages] /\ seen' \in [Tabs -> 0 .. gen]
    BY <1>6, <1>a, <1>b, <2>2 DEF HearDelete, At
  <2>4. notices' \in [Tabs -> SUBSET (Persons \cup {NoTab})]
    BY <1>6, <1>a DEF HearDelete, At, TypeOK
  <2> QED
    BY <1>6, <1>a, <2>1, <2>3, <2>4 DEF HearDelete, TypeInv, TypeOK, OneLease, Erasures
<1> QED
  BY <1>1, <1>2, <1>3, <1>4, <1>5, <1>6

\* A notice reaches the other tabs.
LEMMA BroadcastType ==
  ASSUME TypeInv, NEW t \in Tabs, NEW n \in Persons \cup {NoTab}, Broadcast(t, n)
  PROVE  notices' \in [Tabs -> SUBSET (Persons \cup {NoTab})]
  BY DEF TypeInv, TypeOK, Broadcast

\* What happens under the lease keeps the types, and the lease with one tab.
LEMMA GenerationType ==
  ASSUME TypeInv, NEW t \in Tabs,
         (\E p \in Persons : BeginDelete(t, p)) \/ AbortDelete(t) \/ CommitDelete(t) \/ Import(t)
  PROVE  TypeInv'
<1>a. /\ TypeOK /\ OneLease /\ gen \in Nat /\ changes \in Nat /\ MaxGenerations \in Nat
      /\ live \in [Tabs -> SUBSET Messages] /\ saved \subseteq Messages
      /\ deleting \in [Tabs -> SUBSET Persons] /\ t # NoTab
  BY Generations, MemoryAssumption DEF TypeInv, TypeOK
<1>b. At(seen, t, gen) \in [Tabs -> 0 .. gen]
  BY Generations, SeenType
<1>c. At(seen, t, gen + 1) \in [Tabs -> 0 .. gen + 1]
  BY <1>a, SeenType
<1> USE DEF ledger, facade, count
<1>1. ASSUME NEW p \in Persons, BeginDelete(t, p) PROVE TypeInv'
  <2>1. changes' \in 0 .. MaxGenerations /\ gen' + 1 <= changes' /\ lease' = t
    BY <1>1, <1>a DEF BeginDelete, Changed, OneLease
  <2>2. \A u \in Tabs : deleting'[u] # {} => lease' = u
    <3>1. \A u \in Tabs : deleting[u] = {}
      BY <1>1, <1>a, MemoryAssumption DEF BeginDelete, OneLease
    <3>2. deleting' = At(deleting, t, {p})
      BY <1>1 DEF BeginDelete
    <3> QED
      BY <1>a, <2>1, <3>1, <3>2 DEF At
  <2>3. deleting' \in [Tabs -> SUBSET Persons] /\ live' \in [Tabs -> SUBSET Messages]
    BY <1>1, <1>a DEF BeginDelete, At
  <2>4. OneLease'
    BY <1>a, <2>1, <2>2 DEF OneLease
  <2> QED
    BY <1>1, <1>a, <1>b, <2>1, <2>3, <2>4 DEF BeginDelete, TypeInv, TypeOK
<1>2. CASE AbortDelete(t)
  <2>1. OneLease'
    BY <1>2, <1>a DEF AbortDelete, At, OneLease
  <2>2. deleting' \in [Tabs -> SUBSET Persons] /\ lease' = NoTab
    BY <1>2, <1>a DEF AbortDelete, At
  <2> QED
    BY <1>2, <1>a, <2>1, <2>2 DEF AbortDelete, TypeInv, TypeOK
<1>3. CASE CommitDelete(t)
  <2>1. /\ gen' = gen + 1 /\ changes' = changes /\ lease = t /\ gen + 1 <= changes
        /\ lease' = NoTab /\ deleting' = At(deleting, t, {})
    BY <1>3, <1>a DEF CommitDelete, OneLease
  <2>2. OneLease' /\ gen' \in 0 .. MaxGenerations
    BY <1>a, <2>1 DEF OneLease, At, TypeOK
  <2>3. PICK p \in deleting[t] : /\ saved' = {m \in saved : Owner[m] # p}
                                 /\ live' = At(live, t, {m \in live[t] : Owner[m] # p})
                                 /\ Broadcast(t, p)
    BY <1>3 DEF CommitDelete
  <2>4. p \in Persons /\ live[t] \subseteq Messages
    BY <1>a, <2>3
  <2>5. notices' \in [Tabs -> SUBSET (Persons \cup {NoTab})]
    BY <2>3, <2>4, BroadcastType
  <2>6. saved' \subseteq born /\ live' \in [Tabs -> SUBSET Messages]
    BY <1>a, <2>3, <2>4 DEF At, TypeOK
  <2>7. deleting' \in [Tabs -> SUBSET Persons] /\ seen' \in [Tabs -> 0 .. gen']
    BY <1>3, <1>a, <1>c, <2>1 DEF CommitDelete, At
  <2> QED
    BY <1>3, <1>a, <2>1, <2>2, <2>5, <2>6, <2>7 DEF CommitDelete, TypeInv, TypeOK
<1>4. CASE Import(t)
  <2>1. gen' = gen + 1 /\ changes' = changes + 1 /\ changes < MaxGenerations /\ lease = NoTab /\ lease' = lease
        /\ deleting' = deleting
    BY <1>4 DEF Import, Changed
  <2>2. OneLease' /\ gen' \in 0 .. MaxGenerations /\ changes' \in 0 .. MaxGenerations
    BY <1>a, <2>1 DEF OneLease
  <2>3. notices' \in [Tabs -> SUBSET (Persons \cup {NoTab})]
    BY <1>4, BroadcastType DEF Import
  <2>4. Rebuild(t, "import", File) \in Rebuilds
    BY MemoryAssumption, RebuildType
  <2>5. [Rebuild(t, "import", File) EXCEPT !.epoch = gen + 1] \in Rebuilds
    BY <2>1, <2>2, <2>4 DEF Rebuilds
  <2>6. rebuilds' \subseteq Rebuilds
    BY <1>4, <1>a, <2>5 DEF Import, TypeOK
  <2>7. saved' \subseteq born' /\ born' \subseteq Messages
    BY <1>4, <1>a, MemoryAssumption DEF Import, TypeOK
  <2>8. seen' \in [Tabs -> 0 .. gen']
    BY <1>4, <1>c, <2>1 DEF Import
  <2> QED
    BY <1>4, <1>a, <2>1, <2>2, <2>3, <2>6, <2>7, <2>8 DEF Import, TypeInv, TypeOK
<1> QED
  BY <1>1, <1>2, <1>3, <1>4

\* The types hold at first.
LEMMA InitType == Init => TypeInv
<1> SUFFICES ASSUME Init PROVE TypeInv
  OBVIOUS
<1>1. vectors \subseteq Vectors
  BY MemoryAssumption DEF Init, Vectors, Vector
<1>2. gen \in 0 .. MaxGenerations /\ changes \in 0 .. MaxGenerations /\ reloads \in 0 .. MaxReloads
  BY MemoryAssumption DEF Init
<1>3. seen \in [Tabs -> 0 .. gen]
  BY DEF Init
<1>4. live \in [Tabs -> SUBSET Messages] /\ saved \subseteq born /\ born \subseteq Messages
  BY MemoryAssumption DEF Init
<1>5. OneLease
  BY DEF Init, OneLease
<1> QED
  BY <1>1, <1>2, <1>3, <1>4, <1>5 DEF Init, TypeInv, TypeOK

\* Every step keeps the types.
LEMMA NextType == TypeInv /\ [Next]_vars => TypeInv'
<1> SUFFICES ASSUME TypeInv, [Next]_vars PROVE TypeInv'
  OBVIOUS
<1>1. CASE UNCHANGED vars
  BY <1>1 DEF vars, ledger, facade, count, TypeInv, TypeOK, OneLease
<1>2. ASSUME NEW t \in Front, Wake(t) \/ Search(t) \/ \E m \in Messages : Chat(t, m) PROVE TypeInv'
  BY <1>2, MemoryAssumption, TabType, SearchType
<1> QED
  BY <1>1, <1>2, StepType, ContinueType, EraseType, SearchType, TabType, GenerationType DEF Next

\* The type invariant holds throughout.
LEMMA TypeInvHolds == Spec => []TypeInv
  BY InitType, NextType, PTL DEF Spec

\* The index, its writes, rebuilds, searches and deletions keep their types for
\* any number of tabs and generations: no more generations than changes.
THEOREM MemoryTypes == Spec => []TypeOK
<1>1. TypeInv => TypeOK
  BY DEF TypeInv
<1> QED
  BY <1>1, TypeInvHolds, PTL

-----------------------------------------------------------------------------
(* Nothing of an erased person is on its way into the index. *)

\* A facade has erased only whom it also refuses to index again.
ErasedInv == ErasedStaysErased /\ \A t \in Tabs : gone[t] \subseteq banned[t]

\* A step that indexes nothing new through a current facade, and erases nobody.
LEMMA NothingNew ==
  ASSUME ErasedInv,
         \A o \in ops' : ~o.old => \E x \in ops : x.tab = o.tab /\ x.msg = o.msg /\ ~x.old,
         \A t \in Tabs : gone'[t] \subseteq gone[t] /\ gone'[t] \subseteq banned'[t]
  PROVE  ErasedInv'
<1>1. ASSUME NEW t \in Tabs, NEW o \in ops', o.tab = t, ~o.old PROVE Owner[o.msg] \notin gone'[t]
  <2>1. PICK x \in ops : x.tab = o.tab /\ x.msg = o.msg /\ ~x.old
    BY <1>1
  <2>2. Owner[x.msg] \notin gone[t]
    BY <1>1, <2>1 DEF ErasedInv, ErasedStaysErased, Mine
  <2> QED
    BY <2>1, <2>2
<1> QED
  BY <1>1 DEF ErasedInv, ErasedStaysErased, Mine

\* A message whose person is not banned is not one of an erased person.
LEMMA OneOp ==
  ASSUME ErasedInv, NEW t \in Tabs, NEW m, NEW by, NEW old \in BOOLEAN,
         ~old => MayIndex(m, banned[t]),
         ops' = ops \cup {Op(t, m, by, old)}, UNCHANGED <<gone, banned>>
  PROVE  ErasedInv'
<1>1. Op(t, m, by, old).tab = t /\ Op(t, m, by, old).msg = m /\ Op(t, m, by, old).old = old
  BY DEF Op
<1>2. ASSUME NEW u \in Tabs, NEW o \in ops', o.tab = u, ~o.old PROVE Owner[o.msg] \notin gone[u]
  <2>1. CASE o \in ops
    BY <1>2, <2>1 DEF ErasedInv, ErasedStaysErased, Mine
  <2>2. CASE o = Op(t, m, by, old)
    BY <1>1, <1>2, <2>2 DEF ErasedInv, MayIndex
  <2> QED
    BY <2>1, <2>2
<1> QED
  BY <1>2 DEF ErasedInv, ErasedStaysErased, Mine

\* No step brings a vector of an erased person into a tab's reach, or lifts a ban.
LEMMA ErasedStep ==
  ASSUME TypeInv, ErasedInv, [Next]_vars
  PROVE  ErasedInv'
<1>a. /\ \A t \in Tabs : gone[t] \subseteq banned[t]
      /\ banned \in [Tabs -> SUBSET Persons] /\ gone \in [Tabs -> SUBSET Persons]
      /\ ops \subseteq Indexing /\ rebuilds \subseteq Rebuilds /\ Front \subseteq Tabs
  BY MemoryAssumption DEF ErasedInv, TypeInv, TypeOK
<1>b. ASSUME UNCHANGED facade, ops' \subseteq ops PROVE ErasedInv'
  BY <1>b, <1>a, NothingNew DEF facade
<1>c. ASSUME NEW t \in Tabs, Invalidate(t) PROVE ErasedInv'
  <2>1. \A o \in ops' : ~o.old => o \in ops
    BY <1>a, <1>c DEF Invalidate, Indexing
  <2>2. gone' = At(gone, t, {}) /\ banned' = At(banned, t, {})
    BY <1>c DEF Invalidate
  <2> QED
    BY <1>a, <2>1, <2>2, NothingNew DEF At
<1>d. ASSUME NEW t \in Tabs, NEW p, Forget(t, p), UNCHANGED <<ops, gone>> PROVE ErasedInv'
  BY <1>d, <1>a, NothingNew DEF Forget, At
<1>1. ASSUME NEW o \in ops, Step(o) PROVE ErasedInv'
  <2>1. UNCHANGED facade
    BY <1>1 DEF Step, Embedded, Accept, Insert, Check
  <2>2. CASE \E pc \in {"accept", "insert", "check"} : Move(o, pc)
    <3>1. \A x \in ops' : ~x.old => \E y \in ops : y.tab = x.tab /\ y.msg = x.msg /\ ~y.old
      BY <1>a, <2>2 DEF Move, Indexing
    <3> QED
      BY <1>a, <2>1, <3>1, NothingNew DEF facade
  <2>3. CASE ops' \subseteq ops
    BY <1>b, <2>1, <2>3
  <2> QED
    BY <1>1, <2>2, <2>3 DEF Step, Embedded, Accept, Insert, Check, End
<1>2. ASSUME NEW b \in rebuilds, Clear(b) PROVE ErasedInv'
  <2>1. ops' = ops
    BY <1>2 DEF Clear
  <2>2. CASE b.old
    BY <1>2, <1>b, <2>1, <2>2 DEF Clear
  <2>3. CASE ~b.old
    <3>1. gone' = At(gone, b.tab, {}) /\ banned' = At(banned, b.tab, {})
      BY <1>2, <2>3 DEF Clear
    <3> QED
      BY <1>a, <2>1, <3>1, NothingNew DEF At
  <2> QED
    BY <2>2, <2>3
<1>3. ASSUME NEW b \in rebuilds, NEW m \in Messages, Index(b, m) PROVE ErasedInv'
  <2>1. UNCHANGED facade /\ b.tab \in Tabs /\ b.old \in BOOLEAN
    BY <1>3, <1>a DEF Index, Rebuilds
  <2>2. CASE MayIndex(m, IF b.old THEN b.bans ELSE banned[b.tab])
    <3>1. ops' = ops \cup {Op(b.tab, m, b.path, b.old)}
      BY <1>3, <2>2 DEF Index
    <3> QED
      BY <2>1, <2>2, <3>1, OneOp DEF facade
  <2>3. CASE ~MayIndex(m, IF b.old THEN b.bans ELSE banned[b.tab])
    <3>1. ops' = ops
      BY <1>3, <2>3 DEF Index
    <3> QED
      BY <1>b, <2>1, <3>1
  <2> QED
    BY <2>2, <2>3
<1>4. ASSUME NEW b \in rebuilds, Complete(b) \/ TimeOut(b) PROVE ErasedInv'
  BY <1>4, <1>b DEF Complete, TimeOut
<1>5. ASSUME NEW e \in erasing, Erase(e) PROVE ErasedInv'
  <2>1. e.tab \in Tabs /\ UNCHANGED <<ops, banned>>
    BY <1>5 DEF Erase, TypeInv, TypeOK
  <2>2. gone' = At(gone, e.tab, gone[e.tab] \cup (IF e.old THEN {} ELSE {e.who} \cap banned[e.tab]))
    BY <1>5 DEF Erase
  <2>3. \A t \in Tabs : gone'[t] \subseteq banned'[t]
    BY <1>a, <2>1, <2>2 DEF At
  <2>4. ASSUME NEW t \in Tabs, NEW o \in ops, o.tab = t, ~o.old PROVE Owner[o.msg] \notin gone'[t]
    <3>1. Owner[o.msg] \notin gone[t]
      BY <2>4 DEF ErasedInv, ErasedStaysErased, Mine
    <3>2. CASE t # e.tab \/ e.old
      BY <1>a, <2>2, <3>1, <3>2 DEF At
    <3>3. CASE t = e.tab /\ ~e.old
      <4>1. e.who \in banned[t] => Owner[o.msg] # e.who
        BY <1>5, <2>4, <3>3 DEF Erase, Drained, TypeInv, TypeOK, Indexing
      <4> QED
        BY <1>a, <2>2, <3>1, <3>3, <4>1 DEF At
    <3> QED
      BY <3>2, <3>3
  <2> QED
    BY <2>1, <2>3, <2>4 DEF ErasedInv, ErasedStaysErased, Mine
<1>6. ASSUME NEW t \in Tabs, NEW m \in Messages, Chat(t, m) PROVE ErasedInv'
  <2>1. UNCHANGED facade
    BY <1>6 DEF Chat
  <2>2. CASE MayIndex(m, banned[t])
    <3>1. ops' = ops \cup {Op(t, m, "chat", FALSE)}
      BY <1>6, <2>2 DEF Chat
    <3> QED
      BY <2>1, <2>2, <3>1, OneOp DEF facade
  <2>3. CASE ~MayIndex(m, banned[t])
    BY <1>6, <1>b, <2>1, <2>3 DEF Chat
  <2> QED
    BY <2>2, <2>3
<1>7. ASSUME NEW t \in Tabs, Wake(t) PROVE ErasedInv'
  <2>1. CASE seen[t] = gen
    BY <1>7, <1>b, <2>1 DEF Wake
  <2>2. CASE seen[t] # gen
    BY <1>7, <1>c, <2>2 DEF Wake
  <2> QED
    BY <2>1, <2>2
<1>8. ASSUME NEW t \in Tabs, HearReplace(t) PROVE ErasedInv'
  BY <1>8, <1>c DEF HearReplace
<1>9. ASSUME NEW t \in Tabs, NEW p \in Persons, HearDelete(t, p) PROVE ErasedInv'
  BY <1>9, <1>d DEF HearDelete
<1>10. ASSUME NEW t \in Tabs, EraseDeleted(t) PROVE ErasedInv'
  BY <1>10, <1>d DEF EraseDeleted
<1>11. ASSUME NEW t \in Tabs, Reload(t) PROVE ErasedInv'
  <2>1. ops' \subseteq ops /\ gone' = At(gone, t, {}) /\ banned' = At(banned, t, {})
    BY <1>11 DEF Reload
  <2> QED
    BY <1>a, <2>1, NothingNew DEF At
<1>12. ASSUME NEW t \in Tabs,
              Search(t) \/ AbortDelete(t) \/ CommitDelete(t) \/ Import(t) \/ \E p \in Persons : BeginDelete(t, p)
       PROVE ErasedInv'
  BY <1>12, <1>b DEF Search, AbortDelete, CommitDelete, Import, BeginDelete
<1>13. ASSUME NEW s \in searches, Query(s) \/ Answer(s) PROVE ErasedInv'
  BY <1>13, <1>b DEF Query, Answer
<1>14. CASE UNCHANGED vars
  BY <1>14, <1>b DEF vars, facade
<1> QED
  BY <1>a, <1>1, <1>2, <1>3, <1>4, <1>5, <1>6, <1>7, <1>8, <1>9, <1>10, <1>11, <1>12, <1>13, <1>14
     DEF Next, Continue

\* deleteForProfile drains the writes of its person and the facade refuses to
\* begin others: no late embedding, of a chat turn or of a rebuild, brings a
\* vector of an erased person back, however tabs, clears and reloads interleave.
THEOREM ErasedForGood == Spec => []ErasedStaysErased
<1>1. Init => ErasedInv
  BY DEF Init, ErasedInv, ErasedStaysErased, Mine
<1>2. TypeInv /\ ErasedInv /\ [Next]_vars => ErasedInv'
  BY ErasedStep
<1>3. ErasedInv => ErasedStaysErased
  BY DEF ErasedInv
<1> QED
  BY <1>1, <1>2, <1>3, TypeInvHolds, PTL DEF Spec

-----------------------------------------------------------------------------
(* Answers. *)

\* A search finds vectors of the generation it asked for.
HitsFit == \A s \in searches : \A v \in s.hits : v.gen = s.gen

\* No step puts a vector of another generation among the hits of a search.
LEMMA HitsStep ==
  ASSUME TypeInv, HitsFit, [Next]_vars
  PROVE  HitsFit'
<1>a. searches \subseteq Searches
  BY DEF TypeInv, TypeOK, Searches
<1>1. ASSUME searches' \subseteq searches PROVE HitsFit'
  BY <1>1 DEF HitsFit
<1>2. ASSUME NEW t \in Tabs, Search(t) PROVE HitsFit'
  BY <1>2 DEF Search, HitsFit
<1>3. ASSUME NEW s \in searches, Query(s) PROVE HitsFit'
  <2> DEFINE asked == [s EXCEPT !.pc = "query"]
             hit == [s EXCEPT !.pc = "guard", !.hits = {v \in vectors : v.gen = s.gen}]
  <2>1. /\ asked.hits = s.hits /\ asked.gen = s.gen /\ hit.gen = s.gen
        /\ hit.hits = {v \in vectors : v.gen = s.gen}
    BY <1>a DEF Searches
  <2>2. searches' \subseteq searches \cup {asked, hit}
    BY <1>3 DEF Query
  <2> HIDE DEF asked, hit
  <2>3. \A v \in s.hits : v.gen = s.gen
    BY DEF HitsFit
  <2> QED
    BY <2>1, <2>2, <2>3 DEF HitsFit
<1>4. ASSUME NEW s \in searches, Answer(s) PROVE HitsFit'
  BY <1>1, <1>4 DEF Answer
<1>5. ASSUME NEW o \in ops, Step(o) PROVE HitsFit'
  BY <1>1, <1>5 DEF Step, Embedded, Accept, Insert, Check
<1>6. ASSUME NEW b \in rebuilds, Continue(b) \/ TimeOut(b) PROVE HitsFit'
  BY <1>1, <1>6 DEF Continue, Clear, Complete, Index, TimeOut
<1>7. ASSUME NEW e \in erasing, Erase(e) PROVE HitsFit'
  BY <1>1, <1>7 DEF Erase
<1>8. ASSUME NEW t \in Tabs,
             \/ Wake(t) \/ HearReplace(t) \/ Reload(t) \/ EraseDeleted(t) \/ AbortDelete(t)
             \/ CommitDelete(t) \/ Import(t)
             \/ \E m \in Messages : Chat(t, m)
             \/ \E p \in Persons : BeginDelete(t, p) \/ HearDelete(t, p)
      PROVE HitsFit'
  BY <1>1, <1>8 DEF Wake, HearReplace, Reload, EraseDeleted, AbortDelete, CommitDelete, Import,
                    Chat, BeginDelete, HearDelete
<1>9. CASE UNCHANGED vars
  BY <1>1, <1>9 DEF vars
<1> QED
  BY <1>2, <1>3, <1>4, <1>5, <1>6, <1>7, <1>8, <1>9, MemoryAssumption DEF Next

\* What a step shows of a search is current.
LEMMA AnswerStep ==
  ASSUME HitsFit, [Next]_vars, found' # found
  PROVE  \A v \in found' : v.gen = gen /\ ~owed /\ lease = NoTab
<1>1. ASSUME NEW s \in searches, Answer(s) PROVE \A v \in found' : v.gen = gen /\ ~owed /\ lease = NoTab
  BY <1>1 DEF Answer, Believed, AcceptsRead, HitsFit
<1>2. ASSUME NEW o \in ops, Step(o) PROVE FALSE
  BY <1>2 DEF Step, Embedded, Accept, Insert, Check
<1>3. ASSUME NEW b \in rebuilds, Continue(b) \/ TimeOut(b) PROVE FALSE
  BY <1>3 DEF Continue, Clear, Complete, Index, TimeOut
<1>4. ASSUME NEW t, \/ Wake(t) \/ HearReplace(t) \/ Reload(t) \/ EraseDeleted(t) \/ AbortDelete(t)
                    \/ CommitDelete(t) \/ Import(t) \/ Search(t)
                    \/ \E m \in Messages : Chat(t, m)
                    \/ \E p \in Persons : BeginDelete(t, p) \/ HearDelete(t, p)
      PROVE FALSE
  BY <1>4 DEF Wake, HearReplace, Reload, EraseDeleted, AbortDelete, CommitDelete, Import, Search,
              Chat, BeginDelete, HearDelete
<1>5. ~UNCHANGED vars /\ (\A e : ~Erase(e)) /\ (\A s : ~Query(s))
  BY DEF vars, Erase, Query
<1> QED
  BY <1>1, <1>2, <1>3, <1>4, <1>5 DEF Next

\* retrieve reads the ledger again after the query: a result that a deletion or
\* an import overtook is not shown, nor one of an index that is not rebuilt yet.
THEOREM AnswersCurrent == Spec => AnswersAreCurrent
<1>1. Init => HitsFit
  BY DEF Init, HitsFit
<1>2. TypeInv /\ HitsFit /\ [Next]_vars => HitsFit'
  BY HitsStep
<1>3. HitsFit /\ [Next]_vars =>
        [found' # found => \A v \in found' : v.gen = gen /\ ~owed /\ lease = NoTab]_vars
  BY AnswerStep
<1> QED
  BY <1>1, <1>2, <1>3, TypeInvHolds, PTL DEF Spec, AnswersAreCurrent
=============================================================================
