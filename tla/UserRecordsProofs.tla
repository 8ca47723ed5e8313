-------------------------- MODULE UserRecordsProofs --------------------------
(***************************************************************************)
(* Theorems about UserRecords: its types, and that no interleaving of        *)
(* edits, repairs, restores and imports loses a record, if the user does     *)
(* not act on a tab that has records to set aside (~Hasty).                  *)
(***************************************************************************)
EXTENDS UserRecords, TLAPS

-----------------------------------------------------------------------------
(* What the operators on lists are. *)

\* A list of each of some people, whatever these are.
LEMMA ListsAre ==
  ASSUME NEW l
  PROVE  l \in Lists <=> /\ l = [p \in DOMAIN l |-> l[p]] /\ DOMAIN l \subseteq People
                         /\ \A p \in DOMAIN l : l[p] \subseteq Records
<1>1. ASSUME l \in Lists
      PROVE  /\ l = [p \in DOMAIN l |-> l[p]] /\ DOMAIN l \subseteq People
             /\ \A p \in DOMAIN l : l[p] \subseteq Records
  <2>1. PICK ps \in SUBSET People : l \in [ps -> SUBSET Records]
    BY <1>1 DEF Lists
  <2> QED
    BY <2>1
<1>2. ASSUME l = [p \in DOMAIN l |-> l[p]], DOMAIN l \subseteq People,
             \A p \in DOMAIN l : l[p] \subseteq Records
      PROVE  l \in Lists
  <2>1. l \in [DOMAIN l -> SUBSET Records]
    BY <1>2
  <2> QED
    BY <1>2, <2>1 DEF Lists
<1> QED
  BY <1>1, <1>2

\* The records of some lists.
LEMMA RecsAre ==
  ASSUME NEW l, NEW r
  PROVE  r \in Recs(l) <=> \E p \in DOMAIN l : r \in l[p]
BY DEF Recs, Range

\* The lists of those who are there, and of those who are not.
LEMMA RestrictsAre ==
  ASSUME NEW ps, NEW l
  PROVE  /\ DOMAIN OfPresent(ps, l) = DOMAIN l \cap ps /\ DOMAIN Dangling(ps, l) = DOMAIN l \ ps
         /\ \A p \in DOMAIN l \cap ps : OfPresent(ps, l)[p] = l[p]
         /\ \A p \in DOMAIN l \ ps : Dangling(ps, l)[p] = l[p]
         /\ l \in Lists => OfPresent(ps, l) \in Lists /\ Dangling(ps, l) \in Lists
<1>1. /\ OfPresent(ps, l) = [p \in DOMAIN l \cap ps |-> l[p]]
      /\ Dangling(ps, l) = [p \in DOMAIN l \ ps |-> l[p]]
  BY DEF OfPresent, Dangling, Restrict
<1>2. ASSUME l \in Lists PROVE OfPresent(ps, l) \in Lists /\ Dangling(ps, l) \in Lists
  BY <1>1, <1>2, ListsAre
<1> QED
  BY <1>1, <1>2

\* Nothing is missing where every list is that of somebody.
LEMMA NoneMissing ==
  ASSUME NEW ps, NEW l
  PROVE  Dangling(ps, l) = <<>> <=> DOMAIN l \subseteq ps
<1>1. Dangling(ps, l) = [p \in DOMAIN l \ ps |-> l[p]]
  BY DEF Dangling, Restrict
<1>2. DOMAIN <<>> = {} /\ <<>> = [p \in {} |-> l[p]]
  OBVIOUS
<1> QED
  BY <1>1, <1>2

\* The records of present and dangling lists.
LEMMA PresentRecs ==
  ASSUME NEW ps, NEW l, NEW r
  PROVE  r \in Recs(OfPresent(ps, l)) <=> \E p \in DOMAIN l \cap ps : r \in l[p]
<1>1. r \in Recs(OfPresent(ps, l)) <=> \E p \in DOMAIN OfPresent(ps, l) : r \in OfPresent(ps, l)[p]
  BY RecsAre
<1>2. /\ DOMAIN OfPresent(ps, l) = DOMAIN l \cap ps
      /\ \A p \in DOMAIN l \cap ps : OfPresent(ps, l)[p] = l[p]
  BY RestrictsAre
<1> QED
  BY <1>1, <1>2

\* Adding a record, and merging lists.
LEMMA WithIs ==
  ASSUME NEW l, NEW p, NEW r
  PROVE  /\ DOMAIN With(l, p, r) = DOMAIN l \cup {p}
         /\ p \in DOMAIN l => With(l, p, r)[p] = l[p] \cup {r}
         /\ p \notin DOMAIN l => With(l, p, r)[p] = {r}
         /\ \A x \in DOMAIN l \ {p} : With(l, p, r)[x] = l[x]
         /\ l \in Lists /\ p \in People /\ r \in Records => With(l, p, r) \in Lists
<1>1. /\ DOMAIN With(l, p, r) = DOMAIN l \cup {p}
      /\ p \in DOMAIN l => With(l, p, r)[p] = l[p] \cup {r}
      /\ p \notin DOMAIN l => With(l, p, r)[p] = {r}
      /\ \A x \in DOMAIN l \ {p} : With(l, p, r)[x] = l[x]
  BY DEF With, Of
<1>2. With(l, p, r) = [x \in DOMAIN With(l, p, r) |-> With(l, p, r)[x]]
  BY DEF With
<1>3. ASSUME l \in Lists, p \in People, r \in Records PROVE With(l, p, r) \in Lists
  <2>1. \A x \in DOMAIN With(l, p, r) : With(l, p, r)[x] \subseteq Records
    BY <1>1, <1>3, ListsAre
  <2>2. DOMAIN With(l, p, r) \subseteq People
    BY <1>1, <1>3, ListsAre
  <2> QED
    BY <1>2, <2>1, <2>2, ListsAre
<1> QED
  BY <1>1, <1>3

\* A list is kept that both sides have, or one has and the base has not.
LEMMA MergeKeeps ==
  ASSUME NEW base, NEW local, NEW remote
  PROVE  DOMAIN Merge(base, local, remote) =
           (DOMAIN local \cap DOMAIN remote) \cup ((DOMAIN local \cup DOMAIN remote) \ DOMAIN base)
BY DEF Merge

\* A list that all three sides have is merged, any other is taken whole.
LEMMA MergeOfAll ==
  ASSUME NEW base, NEW local, NEW remote,
         NEW p, p \in DOMAIN local, p \in DOMAIN remote, p \in DOMAIN base
  PROVE  Merge(base, local, remote)[p] =
           (local[p] \cap remote[p]) \cup ((local[p] \cup remote[p]) \ base[p])
BY DEF Merge, MergeList

\* A list that the base lacks is the tab's own where the tab has one.
LEMMA MergeOfOwn ==
  ASSUME NEW base, NEW local, NEW remote, NEW p, p \in DOMAIN local, p \notin DOMAIN base
  PROVE  Merge(base, local, remote)[p] = local[p]
BY DEF Merge

\* A list that base and tab lack stays as it is in the dataset.
LEMMA MergeOfOther ==
  ASSUME NEW base, NEW local, NEW remote,
         NEW p, p \in DOMAIN remote, p \notin DOMAIN base, p \notin DOMAIN local
  PROVE  Merge(base, local, remote)[p] = remote[p]
BY DEF Merge

\* Lists that are merged are lists.
LEMMA MergeType ==
  ASSUME NEW base \in Lists, NEW local \in Lists, NEW remote \in Lists
  PROVE  Merge(base, local, remote) \in Lists
<1> DEFINE m == Merge(base, local, remote)
<1>0. /\ DOMAIN base \subseteq People /\ DOMAIN local \subseteq People /\ DOMAIN remote \subseteq People
      /\ \A p \in DOMAIN local : local[p] \subseteq Records
      /\ \A p \in DOMAIN remote : remote[p] \subseteq Records
  BY ListsAre
<1>1. m = [p \in DOMAIN m |-> m[p]]
  BY DEF Merge
<1>2. DOMAIN m = (DOMAIN local \cap DOMAIN remote) \cup ((DOMAIN local \cup DOMAIN remote) \ DOMAIN base)
  BY MergeKeeps
<1>3. ASSUME NEW p \in DOMAIN m PROVE m[p] \subseteq Records
  <2>1. CASE p \in DOMAIN local \cap DOMAIN remote /\ p \in DOMAIN base
    <3>1. m[p] = (local[p] \cap remote[p]) \cup ((local[p] \cup remote[p]) \ base[p])
      BY <2>1, MergeOfAll
    <3> QED
      BY <1>0, <2>1, <3>1
  <2>2. CASE p \in DOMAIN local \ DOMAIN base
    <3>1. m[p] = local[p]
      BY <2>2, MergeOfOwn
    <3> QED
      BY <1>0, <2>2, <3>1
  <2>3. CASE p \in DOMAIN remote \ (DOMAIN base \cup DOMAIN local)
    <3>1. m[p] = remote[p]
      BY <2>3, MergeOfOther
    <3> QED
      BY <1>0, <2>3, <3>1
  <2> QED
    BY <1>2, <2>1, <2>2, <2>3
<1>4. DOMAIN m \subseteq People
  BY <1>0, <1>2
<1> HIDE DEF m
<1>5. m \in Lists
  BY <1>1, <1>3, <1>4, ListsAre
<1> QED
  BY <1>5 DEF m

\* Records of a list are records, and so is what a first list replaces.
LEMMA RecsType ==
  ASSUME NEW l \in Lists
  PROVE  Recs(l) \subseteq Records
BY ListsAre, RecsAre

\* What a first list replaces are records.
LEMMA OverwrittenType ==
  ASSUME NEW base, NEW local, NEW remote \in Lists
  PROVE  Overwritten(base, local, remote) \subseteq Records
BY ListsAre DEF Overwritten

\* A first list of the tab replaces every record of the dataset's list.
LEMMA OverwrittenIs ==
  ASSUME NEW base, NEW local, NEW remote,
         NEW p \in DOMAIN local \cap DOMAIN remote, p \notin DOMAIN base, NEW r \in remote[p]
  PROVE  r \in Overwritten(base, local, remote)
BY DEF Overwritten

-----------------------------------------------------------------------------
(* Types. *)

Tasks == Resting \cup Repairing \cup Restoring \cup Importing

\* What a tab is doing determines what its task remembers.
LEMMA TaskIs ==
  ASSUME TypeOK, NEW t \in Tabs
  PROVE  /\ task[t] \in Tasks
         /\ Pc(t) \in {"idle", "people", "records"} => task[t] \in Resting
         /\ Pc(t) = "adopt" => task[t] \in Repairing
         /\ Pc(t) \in {"check", "release"} => task[t] \in Restoring
         /\ Pc(t) \in {"confirm", "export", "built", "empty", "stillEmpty", "hold", "acquire",
                       "fence", "commit", "abort"} => task[t] \in Importing
<1>1. task[t] \in Tasks
  BY DEF TypeOK, Tasks
<1>2. /\ task[t] \in Resting => Pc(t) \in {"idle", "people", "records"}
      /\ task[t] \in Repairing => Pc(t) = "adopt"
      /\ task[t] \in Restoring => Pc(t) \in {"check", "release"}
      /\ task[t] \in Importing => Pc(t) \in {"confirm", "export", "built", "empty", "stillEmpty", "hold",
                                             "acquire", "fence", "commit", "abort"}
  BY DEF Pc, Resting, Repairing, Restoring, Importing, Leasing
<1> QED
  BY <1>1, <1>2 DEF Tasks

\* The initial state is typed.
LEMMA InitType == Init => TypeOK
<1> SUFFICES ASSUME Init PROVE TypeOK
  OBVIOUS
<1>1. rows \in Rows
  BY RecordsAssumption DEF Init
<1>2. rows.lists \in Lists
  BY <1>1 DEF Rows
<1>3. known \subseteq Records
  BY <1>2, RecsType DEF Init
<1>4. <<>> \in Lists
  <2>1. <<>> \in [{} -> SUBSET Records]
    OBVIOUS
  <2> QED
    BY <2>1 DEF Lists
<1>5. view \in [Tabs -> Stores]
  BY <1>4 DEF Init, Stores
<1>6. task \in [Tabs -> Tasks] /\ \A t \in Tabs : Pc(t) = "people"
  BY DEF Init, Tasks, Resting, Pc
<1> QED
  BY <1>1, <1>3, <1>5, <1>6, RecordsAssumption DEF Init, TypeOK, Tasks, Leasing

\* A step of one tab that neither takes nor gives back the lease.
LEMMA TaskStep ==
  ASSUME TypeOK, NEW t \in Tabs, NEW next \in Tasks, To(t, next), lease' = lease,
         Pc(t) \in Leasing <=> next.pc \in Leasing
  PROVE  /\ task' \in [Tabs -> Tasks] /\ task'[t] = next /\ \A u \in Tabs \ {t} : task'[u] = task[u]
         /\ \A u \in Tabs : (lease' = u) <=> task'[u].pc \in Leasing
<1>1. /\ task \in [Tabs -> Tasks] /\ \A u \in Tabs : (lease = u) <=> task[u].pc \in Leasing
  BY DEF TypeOK, Tasks, Pc
<1>2. /\ task' \in [Tabs -> Tasks] /\ task'[t] = next /\ \A u \in Tabs \ {t} : task'[u] = task[u]
  BY <1>1 DEF To
<1> QED
  BY <1>1, <1>2 DEF Pc

\* What a save changes.
LEMMA SaveType ==
  ASSUME TypeOK, NEW t \in Tabs, NEW people \in SUBSET People, NEW lists \in Lists,
         NEW removed \in SUBSET Records, Save(t, people, lists, removed)
  PROVE  /\ rows' \in Rows /\ view' \in [Tabs -> Stores] /\ epoch' \in Nat
         /\ known' \subseteq Records /\ givenUp' \subseteq Records
<1>a. /\ rows \in Rows /\ rows.people \subseteq People /\ rows.lists \in Lists /\ epoch \in Nat
      /\ view \in [Tabs -> Stores] /\ view[t].base \in Lists
      /\ known \subseteq Records /\ givenUp \subseteq Records
  BY DEF TypeOK, Rows, Stores
<1>1. CASE Accepts(t)
  <2>1. Merge(view[t].base, lists, rows.lists) \in Lists
    BY <1>a, MergeType
  <2>2. rows'.lists \in Lists /\ rows' \in Rows
    BY <1>1, <1>a, <2>1 DEF Save, Rows
  <2>3. Recs(rows'.lists) \subseteq Records /\ Overwritten(view[t].base, lists, rows.lists) \subseteq Records
    BY <1>a, <2>2, RecsType, OverwrittenType
  <2>4. view' \in [Tabs -> Stores]
    BY <1>1, <1>a DEF Save, Stores
  <2>5. /\ known' = known \cup Recs(rows'.lists) /\ epoch' = epoch + 1
        /\ givenUp' = givenUp \cup removed \cup Overwritten(view[t].base, lists, rows.lists)
    BY <1>1 DEF Save, Batch
  <2> QED
    BY <1>a, <2>2, <2>3, <2>4, <2>5
<1>2. CASE ~Accepts(t)
  <2>1. view' \in [Tabs -> Stores]
    BY <1>2, <1>a DEF Save, Stores
  <2> QED
    BY <1>2, <1>a, <2>1 DEF Save
<1> QED
  BY <1>1, <1>2

\* The parts of a state that are typed one by one.
Typed == /\ rows \in Rows /\ held \subseteq Entries /\ gen \in Nat /\ epoch \in Nat
         /\ moves \in 0 .. MaxMoves /\ view \in [Tabs -> Stores]
         /\ copies \subseteq Records /\ known \subseteq Records /\ givenUp \subseteq Records

\* A step that moves one tab and not the lease keeps the types.
LEMMA StepType ==
  ASSUME TypeOK, NEW t \in Tabs, NEW next \in Tasks, To(t, next), UNCHANGED lease,
         Pc(t) \in Leasing <=> next.pc \in Leasing, Typed'
  PROVE  TypeOK'
BY TaskStep DEF TypeOK, Typed, Tasks, Pc

\* Loading, and what it begins with.
LEMMA BootType ==
  ASSUME TypeOK, NEW t \in Tabs, Reload(t) \/ Boot(t)
  PROVE  TypeOK'
<1>a. /\ Typed /\ task[t] \in Tasks /\ rows.people \in SUBSET People /\ rows.lists \in Lists /\ MaxMoves \in Nat
  BY TaskIs, RecordsAssumption DEF TypeOK, Typed, Rows
<1>b. Idle \in Tasks
  BY DEF Idle, Tasks, Resting
<1>1. ASSUME Reload(t) \/ AdoptGeneration(t) PROVE TypeOK'
  <2>1. PICK next : next = [task[t] EXCEPT !.pc = "people"]
    OBVIOUS
  <2>2. Pc(t) = "idle" /\ To(t, next) /\ UNCHANGED <<rows, held, gen, epoch, lease, view, copies, history>>
    BY <1>1, <2>1 DEF Reload, AdoptGeneration, Goto
  <2>3. task[t] \in Resting
    BY <2>2, TaskIs
  <2>4. next \in Tasks /\ next.pc = "people"
    BY <2>1, <2>3 DEF Tasks, Resting
  <2>5. moves' \in 0 .. MaxMoves
    BY <1>1, <1>a DEF Reload, AdoptGeneration, Move, Typed
  <2>6. Typed'
    BY <1>a, <2>2, <2>5 DEF Typed, history
  <2> QED
    BY <2>2, <2>4, <2>6, StepType DEF Leasing
<1>2. ASSUME HydratePeople(t) PROVE TypeOK'
  <2>1. PICK next : next = [task[t] EXCEPT !.pc = "records"]
    OBVIOUS
  <2>2. Pc(t) = "people" /\ To(t, next) /\ UNCHANGED <<rows, held, gen, epoch, lease, copies, history, moves>>
    BY <1>2, <2>1 DEF HydratePeople, Goto
  <2>3. task[t] \in Resting
    BY <2>2, TaskIs
  <2>4. next \in Tasks /\ next.pc = "records"
    BY <2>1, <2>3 DEF Tasks, Resting
  <2>5. view' \in [Tabs -> Stores]
    BY <1>2, <1>a DEF HydratePeople, Typed, Stores
  <2>6. Typed'
    BY <1>a, <2>2, <2>5 DEF Typed, history
  <2> QED
    BY <2>2, <2>4, <2>6, StepType DEF Leasing
<1>3. ASSUME HydrateRecords(t) PROVE TypeOK'
  <2>1. Pc(t) = "records" /\ To(t, Idle) /\ UNCHANGED <<rows, held, gen, epoch, lease, copies, history, moves>>
    BY <1>3 DEF HydrateRecords
  <2>2. view' \in [Tabs -> Stores]
    BY <1>3, <1>a DEF HydrateRecords, Typed, Stores
  <2>3. Typed'
    BY <1>a, <2>1, <2>2 DEF Typed, history
  <2> QED
    BY <1>b, <2>1, <2>3, StepType DEF Leasing, Idle
<1> QED
  BY <1>1, <1>2, <1>3 DEF Boot

\* Edits.
LEMMA EditType ==
  ASSUME TypeOK, NEW t \in Tabs,
         (\E p \in People : AddPerson(t, p)) \/ (\E i \in Entries : AddRecord(t, i) \/ RemoveRecord(t, i))
  PROVE  TypeOK'
<1>a. /\ Typed /\ view[t].people \in SUBSET People /\ view[t].lists \in Lists /\ MaxMoves \in Nat
      /\ task \in [Tabs -> Tasks]
  BY RecordsAssumption DEF TypeOK, Typed, Stores, Tasks
<1> DEFINE Edit(people, lists, removed) ==
             Save(t, people, lists, removed) /\ Move /\ UNCHANGED <<held, gen, lease, task, copies>>
<1>1. \E people \in SUBSET People, lists \in Lists, removed \in SUBSET Records : Edit(people, lists, removed)
  <2>0. {} \in SUBSET Records
    OBVIOUS
  <2>1. ASSUME NEW p \in People, AddPerson(t, p)
        PROVE \E people \in SUBSET People, lists \in Lists, removed \in SUBSET Records : Edit(people, lists, removed)
    <3>1. view[t].people \cup {p} \in SUBSET People
      BY <1>a
    <3>2. Edit(view[t].people \cup {p}, view[t].lists, {})
      BY <2>1 DEF AddPerson
    <3> HIDE DEF Edit
    <3> QED
      BY <1>a, <2>0, <3>1, <3>2
  <2>2. ASSUME NEW i \in Entries, AddRecord(t, i)
        PROVE \E people \in SUBSET People, lists \in Lists, removed \in SUBSET Records : Edit(people, lists, removed)
    <3>1. With(view[t].lists, i[1], i[2]) \in Lists
      BY <1>a, WithIs DEF Entries
    <3>2. Edit(view[t].people, With(view[t].lists, i[1], i[2]), {})
      BY <2>2 DEF AddRecord
    <3> HIDE DEF Edit
    <3> QED
      BY <1>a, <2>0, <3>1, <3>2
  <2>3. ASSUME NEW i \in Entries, RemoveRecord(t, i)
        PROVE \E people \in SUBSET People, lists \in Lists, removed \in SUBSET Records : Edit(people, lists, removed)
    <3> DEFINE l == view[t].lists
               rest == [l EXCEPT ![i[1]] = @ \ {i[2]}]
    <3>1. /\ DOMAIN rest = DOMAIN l /\ rest = [p \in DOMAIN rest |-> rest[p]]
          /\ \A p \in DOMAIN l : rest[p] \subseteq l[p]
      OBVIOUS
    <3>2. DOMAIN l \subseteq People /\ \A p \in DOMAIN l : l[p] \subseteq Records
      BY <1>a, ListsAre
    <3>3. \A p \in DOMAIN rest : rest[p] \subseteq Records
      BY <3>1, <3>2
    <3>4. Edit(view[t].people, rest, {i[2]})
      BY <2>3 DEF RemoveRecord
    <3>5. {i[2]} \in SUBSET Records
      BY DEF Entries
    <3> HIDE DEF rest, Edit
    <3>6. rest \in Lists
      BY <3>1, <3>2, <3>3, ListsAre
    <3> QED
      BY <1>a, <3>4, <3>5, <3>6
  <2> QED
    BY <2>1, <2>2, <2>3
<1>2. PICK people \in SUBSET People, lists \in Lists, removed \in SUBSET Records : Edit(people, lists, removed)
  BY <1>1
<1>3. /\ rows' \in Rows /\ view' \in [Tabs -> Stores] /\ epoch' \in Nat
      /\ known' \subseteq Records /\ givenUp' \subseteq Records
  BY <1>2, SaveType
<1>4. moves' \in 0 .. MaxMoves
  BY <1>2, <1>a DEF Move, Typed
<1> QED
  BY <1>2, <1>3, <1>4 DEF TypeOK, Pc

\* The repair, and restoring or deleting what was set aside.
LEMMA RepairType ==
  ASSUME TypeOK, NEW t \in Tabs,
         \/ Repair(t) \/ Settings(t)
         \/ \E i \in Entries : DeleteHeld(t, i) \/ \E p \in People : Attach(t, i, p)
  PROVE  TypeOK'
<1>a. /\ Typed /\ view[t].people \in SUBSET People /\ view[t].lists \in Lists /\ MaxMoves \in Nat
      /\ task \in [Tabs -> Tasks] /\ epoch + 1 \in Nat
  BY RecordsAssumption DEF TypeOK, Typed, Stores, Tasks
<1>b. Idle \in Tasks /\ Idle.pc \notin Leasing
  BY DEF Idle, Tasks, Resting, Leasing
<1>1. ASSUME HoldDangling(t) PROVE TypeOK'
  <2> DEFINE next == [pc |-> "adopt", repaired |-> OfPresent(view[t].people, view[t].lists)]
  <2>1. next \in Tasks /\ next.pc \notin Leasing
    BY <1>a, RestrictsAre DEF Tasks, Repairing, Leasing
  <2>2. In(Missing(t)) \subseteq Entries
    BY DEF In
  <2>3. Typed'
    BY <1>1, <1>a, <2>2 DEF HoldDangling, Typed, history, Batch
  <2>4. Pc(t) \notin Leasing /\ To(t, next) /\ UNCHANGED lease
    BY <1>1 DEF HoldDangling, Leasing
  <2> QED
    BY <2>1, <2>3, <2>4, StepType
<1>2. ASSUME AdoptRepaired(t) PROVE TypeOK'
  <2>1. task[t].repaired \in Lists
    BY <1>2, TaskIs DEF AdoptRepaired, Repairing
  <2>2. /\ rows' \in Rows /\ view' \in [Tabs -> Stores] /\ epoch' \in Nat
        /\ known' \subseteq Records /\ givenUp' \subseteq Records
    BY <1>2, <1>a, <2>1, SaveType DEF AdoptRepaired
  <2>3. Typed'
    BY <1>2, <1>a, <2>2 DEF AdoptRepaired, Typed
  <2>4. Pc(t) \notin Leasing /\ To(t, Idle) /\ UNCHANGED lease
    BY <1>2 DEF AdoptRepaired, Leasing
  <2> QED
    BY <1>b, <2>3, <2>4, StepType
<1>3. ASSUME CheckSaved(t) PROVE TypeOK'
  <2> DEFINE next == [task[t] EXCEPT !.pc = "release"]
  <2>1. task[t] \in Restoring
    BY <1>3, TaskIs DEF CheckSaved
  <2>2. next \in Tasks /\ next.pc = "release"
    BY <2>1 DEF Restoring, Tasks
  <2>3. Typed' /\ Pc(t) \notin Leasing /\ UNCHANGED lease /\ (To(t, next) \/ To(t, Idle))
    BY <1>3, <1>a DEF CheckSaved, Typed, Leasing, Goto, history
  <2> QED
    BY <1>b, <2>2, <2>3, StepType DEF Leasing
<1>4. ASSUME Release(t) PROVE TypeOK'
  <2>1. Typed' /\ Pc(t) \notin Leasing /\ UNCHANGED lease /\ To(t, Idle)
    BY <1>4, <1>a DEF Release, Typed, Leasing, history, Batch
  <2> QED
    BY <1>b, <2>1, StepType
<1>5. ASSUME NEW i \in Entries, DeleteHeld(t, i) PROVE TypeOK'
  <2>1. i[2] \in Records
    BY DEF Entries
  <2>2. moves' \in 0 .. MaxMoves
    BY <1>5, <1>a DEF DeleteHeld, Move, Typed
  <2> QED
    BY <1>5, <1>a, <2>1, <2>2 DEF DeleteHeld, TypeOK, Batch, Pc
<1>6. ASSUME NEW i \in Entries, NEW p \in People, Attach(t, i, p) PROVE TypeOK'
  <2> DEFINE next == [pc |-> "check", item |-> i, onto |-> p]
  <2>1. next \in Tasks /\ next.pc \notin Leasing
    BY DEF Tasks, Restoring, Leasing
  <2>2. With(view[t].lists, p, i[2]) \in Lists
    BY <1>a, WithIs DEF Entries
  <2>3. /\ rows' \in Rows /\ view' \in [Tabs -> Stores] /\ epoch' \in Nat
        /\ known' \subseteq Records /\ givenUp' \subseteq Records
    <3>1. Save(t, view[t].people, With(view[t].lists, p, i[2]), {}) /\ {} \in SUBSET Records
      BY <1>6 DEF Attach
    <3> QED
      BY <1>a, <2>2, <3>1, SaveType
  <2>4. moves' \in 0 .. MaxMoves
    BY <1>6, <1>a DEF Attach, Move, Typed
  <2>5. Typed'
    BY <1>6, <1>a, <2>3, <2>4 DEF Attach, Typed
  <2>6. Pc(t) \notin Leasing /\ To(t, next) /\ UNCHANGED lease
    BY <1>6 DEF Attach, Leasing
  <2> QED
    BY <2>1, <2>5, <2>6, StepType
<1> QED
  BY <1>1, <1>2, <1>3, <1>4, <1>5, <1>6 DEF Repair, Settings

\* Protecting what an import is to replace.
LEMMA ProtectType ==
  ASSUME TypeOK, NEW t \in Tabs,
         \/ Cancel(t) \/ Confirm(t) \/ SkipSafety(t) \/ SaveCopy(t) \/ Protect(t) \/ HoldFileRecords(t)
         \/ \E f \in Files : Stage(t, f)
  PROVE  TypeOK'
<1> DEFINE k == task[t]
<1>a. /\ Typed /\ rows.lists \in Lists /\ MaxMoves \in Nat /\ epoch + 1 \in Nat
  BY RecordsAssumption DEF TypeOK, Typed, Rows
<1>b. Idle \in Tasks /\ Idle.pc \notin Leasing
  BY DEF Idle, Tasks, Resting, Leasing
<1>c. \A x \in Importing : \A pc \in {"confirm", "export", "built", "empty", "stillEmpty", "hold", "acquire"} :
        [x EXCEPT !.pc = pc] \in Tasks /\ [x EXCEPT !.pc = pc].pc \notin Leasing
  BY DEF Importing, Tasks, Leasing
<1>d. \A x \in Importing : \A rev \in Nat, waived \in BOOLEAN, copy \in SUBSET Records :
        /\ [x EXCEPT !.rev = rev] \in Importing /\ [x EXCEPT !.waived = waived] \in Importing
        /\ [x EXCEPT !.copy = copy] \in Importing
  BY DEF Importing
<1>1. ASSUME NEW f \in Files, Stage(t, f) PROVE TypeOK'
  <2>1. HoldsData \in BOOLEAN
    BY DEF HoldsData
  <2> DEFINE next == [pc |-> "confirm", file |-> f, copyNeeded |-> HoldsData, rev |-> 0, waived |-> FALSE,
                      copy |-> {}]
  <2>2. next \in Tasks /\ next.pc \notin Leasing
    BY <2>1 DEF Tasks, Importing, Leasing
  <2>3. Typed' /\ Pc(t) \notin Leasing /\ To(t, next) /\ UNCHANGED lease
    BY <1>1, <1>a DEF Stage, Typed, Leasing, Move, history
  <2> QED
    BY <2>2, <2>3, StepType
<1>2. ASSUME Cancel(t) PROVE TypeOK'
  <2>1. Typed' /\ Pc(t) \notin Leasing /\ To(t, Idle) /\ UNCHANGED lease
    BY <1>2, <1>a DEF Cancel, Unchanged, Typed, Leasing, history
  <2> QED
    BY <1>b, <2>1, StepType
<1>3. ASSUME Confirm(t) PROVE TypeOK'
  <2>1. k \in Importing /\ Pc(t) \notin Leasing
    BY <1>3, TaskIs DEF Confirm, Leasing
  <2>2. ASSUME NEW pc \in {"export", "empty"} PROVE [k EXCEPT !.pc = pc, !.rev = epoch] \in Tasks
    BY <1>a, <2>1 DEF Typed, Tasks, Importing
  <2>3. PICK pc \in {"export", "empty"} : To(t, [k EXCEPT !.pc = pc, !.rev = epoch])
    BY <1>3 DEF Confirm
  <2>4. Typed' /\ UNCHANGED lease
    BY <1>3, <1>a DEF Confirm, Unchanged, Typed, history
  <2>5. [k EXCEPT !.pc = pc, !.rev = epoch].pc \notin Leasing
    BY <2>1 DEF Importing, Leasing
  <2> QED
    BY <2>1, <2>2, <2>3, <2>4, <2>5, StepType
<1>4. ASSUME SkipSafety(t) PROVE TypeOK'
  <2> DEFINE next == [k EXCEPT !.pc = "hold", !.rev = epoch, !.waived = TRUE]
  <2>1. k \in Importing /\ Pc(t) \notin Leasing
    BY <1>4, TaskIs DEF SkipSafety, Leasing
  <2>2. next \in Tasks /\ next.pc \notin Leasing
    BY <1>a, <2>1 DEF Typed, Tasks, Importing, Leasing
  <2>3. Typed' /\ To(t, next) /\ UNCHANGED lease
    BY <1>4, <1>a DEF SkipSafety, Unchanged, Typed, history
  <2> QED
    BY <2>1, <2>2, <2>3, StepType
<1>5. ASSUME Export(t) PROVE TypeOK'
  <2> DEFINE copy == Recs(OfPresent(rows.people, rows.lists))
             next == [k EXCEPT !.pc = "built", !.copy = copy]
  <2>1. k \in Importing /\ Pc(t) \notin Leasing
    BY <1>5, TaskIs DEF Export, Leasing
  <2>2. copy \in SUBSET Records
    <3>1. OfPresent(rows.people, rows.lists) \in Lists
      BY <1>a, RestrictsAre
    <3> QED
      BY <3>1, RecsType
  <2>3. Typed' /\ To(t, next) /\ UNCHANGED lease
    BY <1>5, <1>a DEF Export, Unchanged, Typed, history
  <2> HIDE DEF copy
  <2>4. next \in Tasks /\ next.pc \notin Leasing
    BY <2>1, <2>2 DEF Tasks, Importing, Leasing
  <2> QED
    BY <2>1, <2>3, <2>4, StepType
<1>6. ASSUME SaveCopy(t) PROVE TypeOK'
  <2>1. k \in Importing /\ k.copy \subseteq Records /\ Pc(t) \notin Leasing
    BY <1>6, TaskIs DEF SaveCopy, Leasing, Importing
  <2>2. PICK pc \in {"hold", "confirm"} : To(t, [k EXCEPT !.pc = pc])
    BY <1>6 DEF SaveCopy, Goto
  <2>3. Typed' /\ UNCHANGED lease
    BY <1>6, <1>a, <2>1 DEF SaveCopy, Typed, history
  <2> QED
    BY <1>c, <2>1, <2>2, <2>3, StepType
<1>7. ASSUME ProveEmpty(t) \/ StillEmpty(t) PROVE TypeOK'
  <2>1. k \in Importing /\ Pc(t) \notin Leasing
    BY <1>7, TaskIs DEF ProveEmpty, StillEmpty, Leasing
  <2>2. To(t, Idle) \/ \E pc \in {"hold", "stillEmpty"} : To(t, [k EXCEPT !.pc = pc])
    BY <1>7 DEF ProveEmpty, StillEmpty, Goto
  <2>3. Typed' /\ UNCHANGED lease
    BY <1>7, <1>a DEF ProveEmpty, StillEmpty, Unchanged, Typed, history
  <2>4. ASSUME NEW pc \in {"hold", "stillEmpty"}, To(t, [k EXCEPT !.pc = pc]) PROVE TypeOK'
    BY <1>c, <2>1, <2>3, <2>4, StepType
  <2> QED
    BY <1>b, <2>1, <2>2, <2>3, <2>4, StepType
<1>8. ASSUME HoldFileRecords(t) PROVE TypeOK'
  <2>1. k \in Importing /\ Pc(t) \notin Leasing
    BY <1>8, TaskIs DEF HoldFileRecords, Leasing
  <2>2. FileAside(t) \subseteq Entries /\ {i[2] : i \in FileAside(t)} \subseteq Records
    BY DEF FileAside, In, Entries
  <2>3. /\ held' = held \/ held' = held \cup FileAside(t)
        /\ known' = known \/ known' = known \cup {i[2] : i \in FileAside(t)}
        /\ epoch' = epoch \/ epoch' = epoch + 1
        /\ UNCHANGED <<rows, gen, lease, view, copies, givenUp, moves>>
    BY <1>8 DEF HoldFileRecords, Batch
  <2>4. Typed' /\ UNCHANGED lease
    BY <1>a, <2>2, <2>3 DEF Typed
  <2>5. To(t, [k EXCEPT !.pc = "acquire"])
    BY <1>8 DEF HoldFileRecords, Goto
  <2> QED
    BY <1>c, <2>1, <2>4, <2>5, StepType
<1> QED
  BY <1>1, <1>2, <1>3, <1>4, <1>5, <1>6, <1>7, <1>8 DEF Protect

\* The lease and what happens under it.
LEMMA ReplaceType ==
  ASSUME TypeOK, NEW t \in Tabs, Acquire(t) \/ Enforce(t) \/ CommitReplace(t) \/ Abort(t)
  PROVE  TypeOK'
<1> DEFINE k == task[t]
<1>a. /\ Typed /\ rows.lists \in Lists /\ epoch + 1 \in Nat /\ gen + 1 \in Nat /\ k \in Importing
      /\ task \in [Tabs -> Tasks] /\ \A u \in Tabs : (lease = u) <=> task[u].pc \in Leasing
  <2>1. Pc(t) \in {"acquire", "fence", "commit", "abort"}
    BY DEF Acquire, Enforce, CommitReplace, Abort
  <2> QED
    BY <2>1, TaskIs DEF TypeOK, Typed, Rows, Tasks, Pc
<1>b. Idle \in Tasks /\ Idle.pc \notin Leasing
  BY DEF Idle, Tasks, Resting, Leasing
<1>c. \A pc \in Leasing : [k EXCEPT !.pc = pc] \in Tasks /\ [k EXCEPT !.pc = pc].pc = pc
  BY <1>a DEF Importing, Tasks
<1>1. ASSUME Acquire(t) PROVE TypeOK'
  <2>1. /\ lease = Nobody /\ lease' = t /\ task' = [task EXCEPT ![t] = [k EXCEPT !.pc = "fence"]]
        /\ epoch' = epoch + 1 /\ UNCHANGED <<rows, held, gen, view, copies, history, moves>>
    BY <1>1 DEF Acquire, Goto, To, Batch
  <2>2. [k EXCEPT !.pc = "fence"] \in Tasks /\ [k EXCEPT !.pc = "fence"].pc \in Leasing
    BY <1>c DEF Leasing
  <2>3. task' \in [Tabs -> Tasks] /\ \A u \in Tabs : (lease' = u) <=> task'[u].pc \in Leasing
    BY <1>a, <2>1, <2>2, RecordsAssumption
  <2>4. Typed'
    BY <1>a, <2>1 DEF Typed, history
  <2> QED
    BY <2>1, <2>3, <2>4 DEF TypeOK, Typed, Tasks, Pc
<1>2. ASSUME Enforce(t) PROVE TypeOK'
  <2>1. Pc(t) \in Leasing /\ UNCHANGED lease
    BY <1>2 DEF Enforce, Unchanged, Leasing
  <2>2. PICK pc \in {"commit", "abort"} : To(t, [k EXCEPT !.pc = pc])
    BY <1>2 DEF Enforce, Goto
  <2>3. Typed'
    BY <1>2, <1>a DEF Enforce, Unchanged, Typed, history
  <2>4. pc \in Leasing
    BY DEF Leasing
  <2> QED
    BY <1>c, <2>1, <2>2, <2>3, <2>4, StepType
<1>3. ASSUME CommitReplace(t) PROVE TypeOK'
  <2> DEFINE new == OfPresent(k.file.people, k.file.lists)
  <2>1. k.file \in Rows
    BY <1>a, RecordsAssumption DEF Importing
  <2>2. k.file.people \in SUBSET People /\ new \in Lists
    BY <2>1, RestrictsAre DEF Rows
  <2>3. Recs(new) \subseteq Records /\ Recs(rows.lists) \subseteq Records
    BY <1>a, <2>2, RecsType
  <2>4. /\ rows' = [people |-> k.file.people, lists |-> new] /\ Pc(t) = "commit"
        /\ gen' = gen + 1 /\ lease' = Nobody /\ epoch' = epoch + 1
        /\ known' = known \cup Recs(rows'.lists)
        /\ givenUp' = givenUp \/ givenUp' = givenUp \cup Recs(rows.lists)
        /\ task' = [task EXCEPT ![t] = [pc |-> "people"]] /\ UNCHANGED <<held, view, copies, moves>>
    BY <1>3 DEF CommitReplace, To, Batch
  <2>5. [pc |-> "people"] \in Tasks
    BY DEF Tasks, Resting
  <2>6. task' \in [Tabs -> Tasks] /\ \A u \in Tabs : (lease' = u) <=> task'[u].pc \in Leasing
    BY <1>a, <2>4, <2>5, RecordsAssumption DEF Leasing, Pc
  <2> HIDE DEF new
  <2>7. rows' \in Rows /\ rows'.lists = new
    BY <2>2, <2>4 DEF Rows
  <2>8. Typed'
    BY <1>a, <2>3, <2>4, <2>7 DEF Typed
  <2> QED
    BY <2>4, <2>6, <2>8 DEF TypeOK, Typed, Tasks, Pc
<1>4. ASSUME Abort(t) PROVE TypeOK'
  <2>1. /\ lease' = Nobody /\ task' = [task EXCEPT ![t] = Idle] /\ Pc(t) \in Leasing
        /\ epoch' = epoch + 1 /\ UNCHANGED <<rows, held, gen, view, copies, history, moves>>
    BY <1>4 DEF Abort, To, Batch, Leasing
  <2>2. task' \in [Tabs -> Tasks] /\ \A u \in Tabs : (lease' = u) <=> task'[u].pc \in Leasing
    BY <1>a, <1>b, <2>1, RecordsAssumption DEF Pc
  <2>3. Typed'
    BY <1>a, <2>1 DEF Typed, history
  <2> QED
    BY <2>1, <2>2, <2>3 DEF TypeOK, Typed, Tasks, Pc
<1> QED
  BY <1>1, <1>2, <1>3, <1>4

\* Every step keeps the types.
LEMMA NextType == TypeOK /\ [Next]_vars => TypeOK'
<1> SUFFICES ASSUME TypeOK, [Next]_vars PROVE TypeOK'
  OBVIOUS
<1>1. CASE UNCHANGED vars
  BY <1>1 DEF vars, TypeOK, Pc
<1>2. ASSUME NEW t \in Tabs,
             User(t) \/ Boot(t) \/ Repair(t) \/ Settings(t) \/ Protect(t) \/ Replace(t)
      PROVE  TypeOK'
  BY <1>2, BootType, EditType, RepairType, ProtectType, ReplaceType DEF User, Replace
<1> QED
  BY <1>1, <1>2 DEF Next

\* The dataset, the set-aside records, the stores and tasks of every tab keep
\* their types, and just the tab that holds the lease is in a Replace.
THEOREM RecordsTypes == Spec => []TypeOK
  BY InitType, NextType, PTL DEF Spec

-----------------------------------------------------------------------------
(* The inductive invariant of RecordsSurvive. *)

\* What a tab's stores hold has been read as a whole; the generation it is of.
Loaded(t) == Pc(t) \notin {"people", "records"}
OfGen(t) == view[t].pgen = gen /\ view[t].lgen = gen

DanglingNow == DOMAIN rows.lists \ rows.people

\* Records that nothing but the user can lose any more, and all that are safe.
Settled == givenUp \cup copies \cup Recs(OfPresent(rows.people, rows.lists))
Safe == Settled \cup {i[2] : i \in held}

\* Only the dataset of the start has lists of nobody.
DanglesAtFirst == gen > 0 => DanglingNow = {}

(* A tab that is loaded has left out of its lists only what was given up or  *)
(* whole lists of persons it does not know, and has changed none of these.   *)
EditsFit(t) ==
  Loaded(t) =>
    LET v == view[t] IN
    /\ \A p \in DOMAIN v.base \cap DOMAIN v.lists : v.base[p] \ v.lists[p] \subseteq givenUp
    /\ \A p \in DOMAIN v.base \ DOMAIN v.lists : p \notin v.people
    /\ \A p \in DOMAIN v.lists \ v.people : p \in DOMAIN v.base /\ v.lists[p] = v.base[p]

\* Whom only a tab knows has no records in the dataset nor in any merge base.
NewAreNew(t) ==
  view[t].pgen = gen =>
    \A p \in view[t].people \ rows.people :
      /\ p \notin DOMAIN rows.lists
      /\ \A u \in Tabs : view[u].lgen = gen => p \notin DOMAIN view[u].base

\* A tab between its two readings knows the people of the dataset, and a tab
\* with records to set aside knows nobody else.
ReadsFit(t) ==
  view[t].pgen = gen =>
    /\ Pc(t) = "records" => view[t].people = rows.people
    /\ Pc(t) = "adopt" \/ (Pc(t) = "idle" /\ Missing(t) # <<>>) => view[t].people \subseteq rows.people

\* A loaded tab of this generation knows whom its merge base names, and every
\* list of the dataset that dangles is in that base as it is.
KnowsPeople(t) ==
  Loaded(t) /\ OfGen(t) =>
    /\ DOMAIN view[t].base \cap rows.people \subseteq view[t].people
    /\ \A p \in DanglingNow : p \in DOMAIN view[t].base /\ view[t].base[p] = rows.lists[p]

\* A tab has dropped, or is about to drop, only lists whose records are safe.
DropsAreSafe(t) ==
  Loaded(t) /\ OfGen(t) =>
    \A p \in DanglingNow : Pc(t) = "adopt" \/ p \notin DOMAIN view[t].lists => rows.lists[p] \subseteq Safe

\* What a tab is in the middle of.
Protected(t) == task[t].waived \/ Recs(OfPresent(rows.people, rows.lists)) \subseteq copies

TaskFits(t) ==
  /\ Pc(t) = "adopt" => task[t].repaired = OfPresent(view[t].people, view[t].lists)
  /\ Pc(t) \notin {"people", "records", "idle", "adopt"} => Missing(t) = <<>>
  /\ Pc(t) = "check" => task[t].onto \in view[t].people
  /\ Pc(t) = "release" => task[t].item[2] \in Settled
  /\ Pc(t) \in {"export", "built", "empty", "stillEmpty", "hold", "acquire"} => task[t].rev <= epoch
  /\ Pc(t) = "built" /\ task[t].rev = epoch => Recs(OfPresent(rows.people, rows.lists)) \subseteq task[t].copy
  /\ Pc(t) = "stillEmpty" /\ task[t].rev = epoch => rows.lists = <<>>
  /\ Pc(t) \in {"hold", "acquire"} /\ task[t].rev = epoch => Protected(t)
  /\ Pc(t) = "fence" => task[t].rev < epoch
  /\ Pc(t) = "fence" /\ RevisionHolds(t) => Protected(t)
  /\ Pc(t) = "commit" => Protected(t)

GenFits(t) == view[t].pgen <= gen /\ view[t].lgen <= gen

ViewInv(t) == GenFits(t) /\ EditsFit(t) /\ NewAreNew(t) /\ ReadsFit(t) /\ KnowsPeople(t) /\ DropsAreSafe(t)
TabInv(t) == ViewInv(t) /\ TaskFits(t)

RecordsInv == RecordsSurvive /\ DanglesAtFirst /\ \A t \in Tabs : TabInv(t)

-----------------------------------------------------------------------------
(* Who is not part of a step, and what the step leaves to them. *)

\* A step inside a generation: what is safe stays safe, nothing new dangles,
\* and whoever is new to the dataset is new to every merge base.
Grows ==
  /\ gen' = gen /\ givenUp \subseteq givenUp' /\ copies \subseteq copies' /\ Settled \subseteq Settled'
  /\ Safe \subseteq Safe' /\ rows.people \subseteq rows'.people /\ epoch <= epoch'
  /\ \A p \in DanglingNow' : p \in DanglingNow /\ rows'.lists[p] = rows.lists[p]
  /\ rows' = rows \/ (epoch < epoch' /\ lease = Nobody)
  /\ \A u \in Tabs : view[u].lgen = gen =>
       \A p \in rows'.people \ rows.people : p \notin DOMAIN view[u].base
  /\ \A u \in Tabs : view'[u].lgen = gen =>
       \A p \in DOMAIN view'[u].base : \/ p \in rows'.people \/ p \in DOMAIN rows.lists
                                       \/ view[u].lgen = gen /\ p \in DOMAIN view[u].base
  /\ \A u \in Tabs : Pc(u) = "records" /\ view[u].pgen = gen => rows'.people = rows.people

\* The views of a tab that is loaded as before fit what has grown.
LEMMA ViewFits ==
  ASSUME TypeOK, TypeOK', NEW t \in Tabs, TabInv(t), Grows, view'[t] = view[t], Loaded(t)' => Loaded(t),
         Pc(t)' \in {"records", "adopt"} => Pc(t)' = Pc(t)
  PROVE  ViewInv(t)'
<1> DEFINE v == view[t]
<1>a. ViewInv(t) /\ TaskFits(t) /\ view'[t] = v /\ gen' = gen
  BY DEF TabInv, Grows
<1>1. GenFits(t)'
  BY <1>a DEF ViewInv, GenFits
<1>2. EditsFit(t)'
  BY <1>a DEF ViewInv, EditsFit, Grows
<1>3. NewAreNew(t)'
  <2> SUFFICES ASSUME v.pgen = gen, NEW p \in v.people \ rows'.people
               PROVE  /\ p \notin DOMAIN rows'.lists
                      /\ \A u \in Tabs : view'[u].lgen = gen => p \notin DOMAIN view'[u].base
    BY <1>a DEF NewAreNew
  <2>1. /\ p \notin rows.people /\ p \notin DOMAIN rows.lists
        /\ \A u \in Tabs : view[u].lgen = gen => p \notin DOMAIN view[u].base
    BY <1>a DEF Grows, ViewInv, NewAreNew
  <2>2. p \notin DOMAIN rows'.lists
    BY <2>1 DEF Grows, DanglingNow
  <2> QED
    BY <2>1, <2>2 DEF Grows
<1>4. ReadsFit(t)'
  <2> SUFFICES ASSUME v.pgen = gen
               PROVE  /\ Pc(t)' = "records" => v.people = rows'.people
                      /\ Pc(t)' = "adopt" \/ (Pc(t)' = "idle" /\ Missing(t)' # <<>>) => v.people \subseteq rows'.people
    BY <1>a DEF ReadsFit
  <2>1. Missing(t)' = Missing(t)
    BY <1>a DEF Missing
  <2>2. Pc(t)' = "idle" /\ Missing(t) # <<>> => Pc(t) \in {"idle", "adopt"}
    BY <1>a DEF TaskFits, Loaded
  <2> QED
    BY <1>a, <2>1, <2>2 DEF ViewInv, ReadsFit, Grows
<1>5. KnowsPeople(t)'
  BY <1>a DEF ViewInv, KnowsPeople, OfGen, Grows
<1>6. DropsAreSafe(t)'
  <2> SUFFICES ASSUME Loaded(t), OfGen(t), NEW p \in DanglingNow', Pc(t) = "adopt" \/ p \notin DOMAIN v.lists
               PROVE  rows'.lists[p] \subseteq Safe'
    BY <1>a DEF DropsAreSafe, OfGen
  <2> QED
    BY <1>a DEF ViewInv, DropsAreSafe, Grows
<1> QED
  BY <1>1, <1>2, <1>3, <1>4, <1>5, <1>6 DEF ViewInv

\* What another tab is in the middle of.
LEMMA TaskStays ==
  ASSUME TypeOK, TypeOK', NEW t \in Tabs, TabInv(t), Grows, view'[t] = view[t], task'[t] = task[t]
  PROVE  TaskFits(t)'
<1> DEFINE k == task[t]
<1>a. TaskFits(t) /\ view'[t] = view[t] /\ task'[t] = k /\ Pc(t)' = Pc(t) /\ epoch \in Nat /\ epoch' \in Nat
  BY DEF TabInv, TypeOK, Pc
<1>b. Pc(t) \in {"export", "built", "empty", "stillEmpty", "hold", "acquire", "fence"} => k.rev \in Nat
  BY TaskIs DEF Importing
<1>1. Missing(t)' = Missing(t)
  BY <1>a DEF Missing
<1>2. CASE rows' = rows
  <2>1. Protected(t) => Protected(t)'
    BY <1>a, <1>2 DEF Protected, Grows
  <2>2. Pc(t) \in {"export", "built", "empty", "stillEmpty", "hold", "acquire"} => k.rev <= epoch'
    BY <1>a, <1>b DEF TaskFits, Grows
  <2>3. /\ Pc(t) \in {"built", "stillEmpty", "hold", "acquire"} /\ k.rev = epoch' => k.rev = epoch
        /\ Pc(t) = "fence" => k.rev < epoch' /\ (epoch' = k.rev + 1 => epoch = k.rev + 1)
    BY <1>a, <1>b DEF TaskFits, Grows
  <2>4. Pc(t) = "release" => k.item[2] \in Settled'
    BY <1>a DEF TaskFits, Grows
  <2> QED
    BY <1>a, <1>1, <1>2, <2>1, <2>2, <2>3, <2>4 DEF TaskFits, RevisionHolds
<1>3. CASE rows' # rows
  <2>1. epoch < epoch' /\ Pc(t) \notin Leasing
    BY <1>3, RecordsAssumption DEF Grows, TypeOK
  <2>2. /\ Pc(t) \in {"export", "built", "empty", "stillEmpty", "hold", "acquire"} => k.rev <= epoch'
        /\ Pc(t) \in {"built", "stillEmpty", "hold", "acquire"} => k.rev # epoch'
    BY <1>a, <1>b, <2>1 DEF TaskFits
  <2>3. Pc(t) = "release" => k.item[2] \in Settled'
    BY <1>a DEF TaskFits, Grows
  <2> QED
    BY <1>a, <1>1, <2>1, <2>2, <2>3 DEF TaskFits, Leasing
<1> QED
  BY <1>2, <1>3

\* A tab that the step is not about keeps its invariant.
LEMMA OthersFit ==
  ASSUME TypeOK, TypeOK', NEW t \in Tabs, TabInv(t), Grows, view'[t] = view[t], task'[t] = task[t]
  PROVE  TabInv(t)'
BY ViewFits, TaskStays DEF TabInv, Loaded, Pc

-----------------------------------------------------------------------------
(* Saves. *)

\* What each caller of Save does: it adds to the lists of persons the tab knows,
\* removes what is given up, or drops the lists of those the tab does not know.
CleanSave(t, people, lists, removed) ==
  LET v == view[t] IN
  /\ Loaded(t) /\ (Pc(t) = "adopt" \/ Missing(t) = <<>>)
  /\ v.people \subseteq people /\ DOMAIN lists \subseteq people
  /\ \A p \in DOMAIN v.base \cap DOMAIN lists : v.base[p] \ lists[p] \subseteq givenUp \cup removed
  /\ \A p \in DOMAIN v.base \ DOMAIN lists : p \notin people
  /\ \A p \in people \ v.people : /\ p \notin DOMAIN rows.lists
                                 /\ \A u \in Tabs : p \notin DOMAIN view[u].base
  /\ (\A u \in Tabs : Pc(u) # "records") \/ (v.pgen = gen => people \subseteq rows.people)

\* What is safe, record by record.
LEMMA SettledAre ==
  ASSUME NEW r
  PROVE  r \in Settled <=> \/ r \in givenUp \/ r \in copies
                           \/ \E p \in DOMAIN rows.lists \cap rows.people : r \in rows.lists[p]
BY PresentRecs DEF Settled

\* A record SQLite has held is safe or in the dataset.
LEMMA SurviveAre ==
  RecordsSurvive <=> \A r \in known : r \in Safe \/ \E p \in DOMAIN rows.lists : r \in rows.lists[p]
<1>1. \A r : r \in Recs(rows.lists) <=> \E p \in DOMAIN rows.lists : r \in rows.lists[p]
  BY RecsAre
<1>2. \A r : r \in Settled <=> \/ r \in givenUp \/ r \in copies
                            \/ \E p \in DOMAIN rows.lists \cap rows.people : r \in rows.lists[p]
  BY SettledAre
<1> QED
  BY <1>1, <1>2 DEF RecordsSurvive, Safe

\* A loaded tab that has nothing to set aside, or has just held it, has put all
\* that dangles in a safe place.
LEMMA AsideIsSafe ==
  ASSUME NEW t \in Tabs, TabInv(t), Loaded(t), OfGen(t), Pc(t) = "adopt" \/ Missing(t) = <<>>,
         NEW p \in DanglingNow
  PROVE  rows.lists[p] \subseteq Safe /\ p \in DOMAIN view[t].base
<1>1. /\ p \in DOMAIN rows.lists \ rows.people /\ p \in DOMAIN view[t].base
      /\ Pc(t) = "adopt" \/ p \notin DOMAIN view[t].lists => rows.lists[p] \subseteq Safe
  BY DEF TabInv, ViewInv, KnowsPeople, DropsAreSafe, DanglingNow
<1>2. p \notin view[t].people
  BY <1>1 DEF TabInv, ViewInv, NewAreNew, OfGen
<1>3. Missing(t) = <<>> => p \notin DOMAIN view[t].lists
  BY <1>2, NoneMissing DEF Missing
<1> QED
  BY <1>1, <1>3

\* What a save does to the view of its tab and to the dataset.
LEMMA SaveIs ==
  ASSUME TypeOK, NEW t \in Tabs, NEW people, NEW lists, NEW removed, Save(t, people, lists, removed)
  PROVE  /\ view'[t].people = people /\ view'[t].lists = lists
         /\ view'[t].pgen = view[t].pgen /\ view'[t].lgen = view[t].lgen
         /\ \A u \in Tabs \ {t} : view'[u] = view[u]
         /\ givenUp \cup removed \subseteq givenUp'
         /\ Accepts(t) => /\ view'[t].base = lists /\ rows'.people = rows.people \cup people
                          /\ rows'.lists = Merge(view[t].base, lists, rows.lists) /\ epoch' = epoch + 1
                          /\ known' = known \cup Recs(rows'.lists)
                          /\ Overwritten(view[t].base, lists, rows.lists) \subseteq givenUp'
         /\ ~Accepts(t) => view'[t].base = view[t].base /\ UNCHANGED <<rows, known, epoch>>
<1>1. view \in [Tabs -> Stores]
  BY DEF TypeOK
<1>2. CASE Accepts(t)
  BY <1>1, <1>2 DEF Save, Batch, Stores
<1>3. CASE ~Accepts(t)
  BY <1>1, <1>3 DEF Save, Stores
<1> QED
  BY <1>2, <1>3

\* An accepted save keeps every list that is somebody's, and of the others only
\* those that the tab has never read, as they are.
LEMMA SaveKeeps ==
  ASSUME TypeOK, NEW t \in Tabs, TabInv(t), NEW people, NEW lists, NEW removed,
         CleanSave(t, people, lists, removed), Save(t, people, lists, removed), Accepts(t),
         NEW p \in DOMAIN rows.lists
  PROVE  /\ p \in rows.people =>
              /\ p \in DOMAIN rows'.lists
              /\ \A r \in rows.lists[p] : r \in rows'.lists[p] \/ r \in givenUp'
         /\ p \notin rows.people =>
              /\ p \notin people /\ p \notin DOMAIN lists
              /\ p \in DOMAIN rows'.lists => p \notin DOMAIN view[t].base /\ rows'.lists[p] = rows.lists[p]
<1> DEFINE b == view[t].base
           m == Merge(b, lists, rows.lists)
<1>1. /\ rows'.lists = m /\ givenUp \cup removed \subseteq givenUp' /\ Overwritten(b, lists, rows.lists) \subseteq givenUp'
  BY SaveIs
<1>2. OfGen(t) /\ Loaded(t)
  BY DEF Accepts, OfGen, CleanSave
<1>3. DOMAIN m = (DOMAIN lists \cap DOMAIN rows.lists) \cup ((DOMAIN lists \cup DOMAIN rows.lists) \ DOMAIN b)
  BY MergeKeeps
<1>4. /\ view[t].people \subseteq people /\ DOMAIN lists \subseteq people
      /\ \A q \in DOMAIN b \cap DOMAIN lists : b[q] \ lists[q] \subseteq givenUp \cup removed
      /\ \A q \in DOMAIN b \ DOMAIN lists : q \notin people
      /\ \A q \in people \ view[t].people : q \notin DOMAIN rows.lists
  BY DEF CleanSave
<1>5. /\ \A q \in view[t].people \ rows.people : q \notin DOMAIN rows.lists
      /\ DOMAIN b \cap rows.people \subseteq view[t].people
  BY <1>2 DEF TabInv, ViewInv, NewAreNew, KnowsPeople, OfGen
<1>6. ASSUME p \in rows.people
      PROVE  p \in DOMAIN m /\ \A r \in rows.lists[p] : r \in m[p] \/ r \in givenUp'
  <2>1. p \in DOMAIN b => p \in DOMAIN lists
    BY <1>4, <1>5, <1>6
  <2>2. CASE p \in DOMAIN b
    <3>1. m[p] = (lists[p] \cap rows.lists[p]) \cup ((lists[p] \cup rows.lists[p]) \ b[p])
      BY <2>1, <2>2, MergeOfAll
    <3>2. b[p] \ lists[p] \subseteq givenUp'
      BY <1>1, <1>4, <2>1, <2>2
    <3> QED
      BY <1>3, <2>1, <2>2, <3>1, <3>2
  <2>3. CASE p \notin DOMAIN b /\ p \in DOMAIN lists
    <3>1. \A r \in rows.lists[p] : r \in Overwritten(b, lists, rows.lists)
      BY <2>3, OverwrittenIs
    <3> QED
      BY <1>1, <1>3, <2>3, <3>1
  <2>4. CASE p \notin DOMAIN b /\ p \notin DOMAIN lists
    <3>1. m[p] = rows.lists[p]
      BY <2>4, MergeOfOther
    <3> QED
      BY <1>3, <2>4, <3>1
  <2> QED
    BY <2>1, <2>2, <2>3, <2>4
<1>7. ASSUME p \notin rows.people
      PROVE  /\ p \notin people /\ p \notin DOMAIN lists
             /\ p \in DOMAIN m => p \notin DOMAIN b /\ m[p] = rows.lists[p]
  <2>1. p \notin people /\ p \notin DOMAIN lists
    BY <1>4, <1>5, <1>7
  <2>2. p \in DOMAIN m => p \notin DOMAIN b
    BY <1>3, <2>1
  <2>3. p \notin DOMAIN b => m[p] = rows.lists[p]
    BY <2>1, MergeOfOther
  <2> QED
    BY <2>1, <2>2, <2>3
<1> QED
  BY <1>1, <1>6, <1>7

\* After an accepted save nothing dangles: its tab has read every list there is.
LEMMA SaveCleans ==
  ASSUME TypeOK, NEW t \in Tabs, TabInv(t), NEW people, NEW lists, NEW removed,
         CleanSave(t, people, lists, removed), Save(t, people, lists, removed), Accepts(t)
  PROVE  DanglingNow' = {}
<1> SUFFICES ASSUME NEW p \in DOMAIN rows'.lists, p \notin rows'.people PROVE FALSE
  BY DEF DanglingNow
<1>1. /\ rows'.people = rows.people \cup people
      /\ rows'.lists = Merge(view[t].base, lists, rows.lists)
  BY SaveIs
<1>2. p \in DOMAIN lists \/ p \in DOMAIN rows.lists
  <2>1. DOMAIN Merge(view[t].base, lists, rows.lists) =
          (DOMAIN lists \cap DOMAIN rows.lists)
            \cup ((DOMAIN lists \cup DOMAIN rows.lists) \ DOMAIN view[t].base)
    BY MergeKeeps
  <2> QED
    BY <1>1, <2>1
<1>3. p \notin DOMAIN lists /\ p \notin rows.people
  BY <1>1 DEF CleanSave
<1>4. p \notin DOMAIN view[t].base
  BY <1>2, <1>3, SaveKeeps
<1>5. p \in DanglingNow /\ OfGen(t)
  BY <1>2, <1>3 DEF DanglingNow, Accepts, OfGen
<1>6. Loaded(t) /\ (Pc(t) = "adopt" \/ Missing(t) = <<>>)
  BY DEF CleanSave
<1> QED
  BY <1>4, <1>5, <1>6, AsideIsSafe

\* A save loses no record.
LEMMA SaveGrows ==
  ASSUME TypeOK, TypeOK', RecordsInv, NEW t \in Tabs, NEW people, NEW lists, NEW removed,
         CleanSave(t, people, lists, removed), Save(t, people, lists, removed),
         UNCHANGED <<held, gen, lease, copies>>
  PROVE  Grows /\ RecordsSurvive' /\ DanglesAtFirst'
<1>a. /\ TabInv(t) /\ RecordsSurvive /\ DanglesAtFirst /\ epoch \in Nat /\ gen' = gen
      /\ givenUp \cup removed \subseteq givenUp' /\ \A u \in Tabs \ {t} : view'[u] = view[u]
      /\ view'[t].lists = lists /\ view'[t].lgen = view[t].lgen
  BY SaveIs DEF RecordsInv, TypeOK
<1>b. /\ \A r : r \in Settled <=> \/ r \in givenUp \/ r \in copies
                            \/ \E p \in DOMAIN rows.lists \cap rows.people : r \in rows.lists[p]
      /\ \A r : r \in Settled' <=> \/ r \in givenUp' \/ r \in copies'
                            \/ \E p \in DOMAIN rows'.lists \cap rows'.people : r \in rows'.lists[p]
  <2>1. \A r : r \in Settled <=> \/ r \in givenUp \/ r \in copies
                            \/ \E p \in DOMAIN rows.lists \cap rows.people : r \in rows.lists[p]
    BY SettledAre
  <2>2. \A r : r \in Settled' <=> \/ r \in givenUp' \/ r \in copies'
                            \/ \E p \in DOMAIN rows'.lists \cap rows'.people : r \in rows'.lists[p]
    BY PresentRecs DEF Settled
  <2> QED
    BY <2>1, <2>2
<1>1. CASE Accepts(t)
  <2>1. /\ rows'.people = rows.people \cup people /\ epoch' = epoch + 1 /\ view'[t].base = lists
        /\ known' = known \cup Recs(rows'.lists) /\ OfGen(t) /\ lease = Nobody
    BY <1>1, SaveIs DEF Accepts, OfGen
  <2>2. DanglingNow' = {}
    BY <1>1, <1>a, SaveCleans
  <2>3. Settled \subseteq Settled'
    <3> SUFFICES ASSUME NEW r \in Settled PROVE r \in Settled'
      OBVIOUS
    <3>1. ASSUME NEW p \in DOMAIN rows.lists \cap rows.people, r \in rows.lists[p] PROVE r \in Settled'
      <4>1. p \in DOMAIN rows'.lists /\ (r \in rows'.lists[p] \/ r \in givenUp')
        BY <1>1, <1>a, <3>1, SaveKeeps
      <4>2. p \in rows'.people
        BY <2>1
      <4> QED
        BY <1>b, <4>1, <4>2
    <3> QED
      BY <1>a, <1>b, <3>1
  <2>4. Safe \subseteq Safe'
    BY <2>3 DEF Safe
  <2>5. ASSUME NEW u \in Tabs, view[u].lgen = gen, NEW p \in rows'.people \ rows.people
        PROVE  p \notin DOMAIN view[u].base
    <3>1. CASE p \in view[t].people
      BY <1>a, <2>1, <2>5, <3>1 DEF TabInv, ViewInv, NewAreNew, OfGen
    <3>2. CASE p \notin view[t].people
      BY <2>1, <2>5, <3>2 DEF CleanSave
    <3> QED
      BY <3>1, <3>2
  <2>6. ASSUME NEW u \in Tabs, view'[u].lgen = gen, NEW p \in DOMAIN view'[u].base
        PROVE  \/ p \in rows'.people \/ p \in DOMAIN rows.lists
               \/ view[u].lgen = gen /\ p \in DOMAIN view[u].base
    <3>1. CASE u = t
      BY <2>1, <2>6, <3>1 DEF CleanSave
    <3>2. CASE u # t
      BY <1>a, <2>6, <3>2
    <3> QED
      BY <3>1, <3>2
  <2>7. ASSUME NEW u \in Tabs, Pc(u) = "records" PROVE rows'.people = rows.people
    BY <2>1, <2>7 DEF CleanSave, OfGen
  <2>8. Grows
    BY <1>a, <2>1, <2>2, <2>3, <2>4, <2>5, <2>6, <2>7 DEF Grows
  <2>9. RecordsSurvive'
    <3>1. \A r : r \in Recs(rows'.lists) <=> \E p \in DOMAIN rows'.lists : r \in rows'.lists[p]
      BY RecsAre
    <3>2. ASSUME NEW r \in known PROVE r \in Safe'
      <4>1. CASE r \in Safe
        BY <2>4, <4>1
      <4>2. ASSUME NEW p \in DOMAIN rows.lists, r \in rows.lists[p] PROVE r \in Safe'
        <5>1. CASE p \in rows.people
          BY <1>b, <2>3, <4>2, <5>1 DEF Safe
        <5>2. CASE p \notin rows.people
          <6>1. p \in DanglingNow /\ Loaded(t) /\ (Pc(t) = "adopt" \/ Missing(t) = <<>>)
            BY <5>2 DEF DanglingNow, CleanSave
          <6>2. rows.lists[p] \subseteq Safe
            BY <1>a, <2>1, <6>1, AsideIsSafe
          <6> QED
            BY <2>4, <4>2, <6>2
        <5> QED
          BY <5>1, <5>2
      <4> QED
        BY <1>a, <4>1, <4>2, SurviveAre
    <3>3. ASSUME NEW r \in Safe'
          PROVE  r \in Recs(rows'.lists) \cup {i[2] : i \in held'} \cup copies' \cup givenUp'
      BY <1>b, <3>1, <3>3 DEF Safe
    <3> QED
      BY <2>1, <3>2, <3>3 DEF RecordsSurvive
  <2> QED
    BY <2>2, <2>8, <2>9 DEF DanglesAtFirst
<1>2. CASE ~Accepts(t)
  <2>1. view'[t].base = view[t].base /\ UNCHANGED <<rows, known, epoch>>
    BY <1>2, SaveIs
  <2>2. Settled \subseteq Settled' /\ Safe \subseteq Safe'
    BY <1>a, <2>1 DEF Settled, Safe
  <2>3. \A u \in Tabs : view'[u].base = view[u].base /\ view'[u].lgen = view[u].lgen
    BY <1>a, <2>1
  <2>4. Grows
    BY <1>a, <2>1, <2>2, <2>3 DEF Grows, DanglingNow
  <2>5. RecordsSurvive'
    BY <1>a, <2>1 DEF RecordsSurvive
  <2> QED
    BY <1>a, <2>1, <2>4, <2>5 DEF DanglesAtFirst, DanglingNow
<1> QED
  BY <1>1, <1>2

\* A save leaves the view of its own tab in order.
LEMMA SaveFits ==
  ASSUME TypeOK, TypeOK', RecordsInv, NEW t \in Tabs, NEW people, NEW lists, NEW removed,
         CleanSave(t, people, lists, removed), Save(t, people, lists, removed),
         UNCHANGED <<held, gen, lease, copies>>, Pc(t)' \in {"idle", "check"}
  PROVE  ViewInv(t)' /\ Missing(t)' = <<>>
<1> DEFINE v == view[t]
           w == view'[t]
<1>a. /\ TabInv(t) /\ gen' = gen /\ w.people = people /\ w.lists = lists /\ w.pgen = v.pgen /\ w.lgen = v.lgen
      /\ givenUp \cup removed \subseteq givenUp' /\ \A u \in Tabs \ {t} : view'[u] = view[u]
      /\ Accepts(t) => /\ w.base = lists /\ rows'.people = rows.people \cup people /\ OfGen(t)
      /\ ~Accepts(t) => w.base = v.base /\ UNCHANGED rows
  BY SaveIs DEF RecordsInv, Accepts, OfGen
<1>b. /\ Loaded(t) /\ (Pc(t) = "adopt" \/ Missing(t) = <<>>)
      /\ v.people \subseteq people /\ DOMAIN lists \subseteq people
      /\ \A p \in DOMAIN v.base \cap DOMAIN lists : v.base[p] \ lists[p] \subseteq givenUp \cup removed
      /\ \A p \in DOMAIN v.base \ DOMAIN lists : p \notin people
      /\ \A p \in people \ v.people : /\ p \notin DOMAIN rows.lists
                                     /\ \A u \in Tabs : p \notin DOMAIN view[u].base
  BY DEF CleanSave
<1>c. Grows
  BY SaveGrows
<1>1. Missing(t)' = <<>>
  <2>1. Dangling(people, lists) = <<>>
    BY <1>b, NoneMissing
  <2> QED
    BY <1>a, <2>1 DEF Missing
<1>2. GenFits(t)'
  BY <1>a DEF TabInv, ViewInv, GenFits
<1>3. EditsFit(t)'
  <2> SUFFICES /\ \A p \in DOMAIN w.base \cap DOMAIN lists : w.base[p] \ lists[p] \subseteq givenUp'
               /\ \A p \in DOMAIN w.base \ DOMAIN lists : p \notin people
               /\ \A p \in DOMAIN lists \ people : p \in DOMAIN w.base /\ lists[p] = w.base[p]
    BY <1>a DEF EditsFit
  <2>1. CASE Accepts(t)
    BY <1>a, <1>b, <2>1
  <2>2. CASE ~Accepts(t)
    <3>1. w.base = v.base
      BY <1>a, <2>2
    <3>2. ASSUME NEW p \in DOMAIN w.base \cap DOMAIN lists PROVE w.base[p] \ lists[p] \subseteq givenUp'
      <4>1. v.base[p] \ lists[p] \subseteq givenUp \cup removed
        BY <1>b, <3>1
      <4>2. givenUp \cup removed \subseteq givenUp'
        BY <1>a
      <4> QED
        BY <3>1, <4>1, <4>2
    <3> QED
      BY <1>b, <3>1, <3>2
  <2> QED
    BY <2>1, <2>2
<1>4. NewAreNew(t)'
  <2> SUFFICES ASSUME v.pgen = gen, NEW p \in people \ rows'.people
               PROVE  /\ p \notin DOMAIN rows'.lists
                      /\ \A u \in Tabs : view'[u].lgen = gen => p \notin DOMAIN view'[u].base
    BY <1>a DEF NewAreNew
  <2>1. ~Accepts(t) /\ UNCHANGED rows /\ p \notin rows.people
    BY <1>a
  <2>2. p \notin DOMAIN rows.lists /\ \A u \in Tabs : view[u].lgen = gen => p \notin DOMAIN view[u].base
    BY <1>a, <1>b, <2>1 DEF TabInv, ViewInv, NewAreNew
  <2>3. \A u \in Tabs : view'[u].base = view[u].base /\ view'[u].lgen = view[u].lgen
    BY <1>a, <2>1
  <2> QED
    BY <2>1, <2>2, <2>3
<1>5. ReadsFit(t)'
  BY <1>1 DEF ReadsFit
<1>6. ASSUME OfGen(t) PROVE \A p \in DanglingNow' : ~Accepts(t) /\ p \in DanglingNow
  <2>1. CASE Accepts(t)
    BY <1>a, <2>1, SaveCleans
  <2>2. CASE ~Accepts(t)
    BY <1>a, <2>2 DEF DanglingNow
  <2> QED
    BY <2>1, <2>2
<1>7. KnowsPeople(t)'
  <2> SUFFICES ASSUME OfGen(t)
               PROVE  /\ DOMAIN w.base \cap rows'.people \subseteq people
                      /\ \A p \in DanglingNow' : p \in DOMAIN w.base /\ w.base[p] = rows'.lists[p]
    BY <1>a DEF KnowsPeople, OfGen
  <2>1. /\ DOMAIN v.base \cap rows.people \subseteq v.people
        /\ \A p \in DanglingNow : p \in DOMAIN v.base /\ v.base[p] = rows.lists[p]
    BY <1>a, <1>b DEF TabInv, ViewInv, KnowsPeople
  <2> QED
    BY <1>a, <1>b, <1>6, <2>1
<1>8. DropsAreSafe(t)'
  <2> SUFFICES ASSUME OfGen(t), NEW p \in DanglingNow' PROVE rows'.lists[p] \subseteq Safe'
    BY <1>a DEF DropsAreSafe, OfGen
  <2>1. p \in DanglingNow /\ UNCHANGED rows
    BY <1>6, <1>a
  <2>2. rows.lists[p] \subseteq Safe
    BY <1>a, <1>b, <2>1, AsideIsSafe
  <2> QED
    BY <1>c, <2>1, <2>2 DEF Grows
<1> QED
  BY <1>1, <1>2, <1>3, <1>4, <1>5, <1>7, <1>8 DEF ViewInv

-----------------------------------------------------------------------------
(* Every step keeps the invariant. *)

\* What a user who is not hasty waits for.
LEMMA AtHandIs ==
  ASSUME ~Hasty, NEW t \in Tabs, AtHand(t)
  PROVE  Pc(t) = "idle" /\ Missing(t) = <<>> /\ \A u \in Tabs : Pc(u) \notin {"records", "adopt"}
BY DEF AtHand

\* A tab at rest remembers nothing.
LEMMA RestFits ==
  ASSUME NEW t \in Tabs, Pc(t)' \in {"idle", "people", "records"}
  PROVE  TaskFits(t)'
BY DEF TaskFits

\* What is shared, the tab of the step and the others make up the invariant.
LEMMA StepFits ==
  ASSUME TypeOK, TypeOK', RecordsInv, Grows, RecordsSurvive', DanglesAtFirst', NEW t \in Tabs, TabInv(t)',
         \A u \in Tabs \ {t} : view'[u] = view[u] /\ task'[u] = task[u]
  PROVE  RecordsInv'
<1>1. ASSUME NEW u \in Tabs PROVE TabInv(u)'
  <2>1. CASE u = t
    BY <2>1
  <2>2. CASE u # t
    BY <2>2, OthersFit DEF RecordsInv
  <2> QED
    BY <2>1, <2>2
<1> QED
  BY <1>1 DEF RecordsInv

\* What a tab knows of its lists when it saves.
LEMMA LoadedView ==
  ASSUME NEW t \in Tabs, TabInv(t), Loaded(t)
  PROVE  /\ \A p \in DOMAIN view[t].base \cap DOMAIN view[t].lists :
              view[t].base[p] \ view[t].lists[p] \subseteq givenUp
         /\ \A p \in DOMAIN view[t].base \ DOMAIN view[t].lists : p \notin view[t].people
         /\ Missing(t) = <<>> => DOMAIN view[t].lists \subseteq view[t].people
BY NoneMissing DEF TabInv, ViewInv, EditsFit, Missing

\* A new person, a new record and a removed one are clean saves.
LEMMA AddPersonIsClean ==
  ASSUME ~Hasty, NEW t \in Tabs, TabInv(t), NEW p \in People, AddPerson(t, p)
  PROVE  CleanSave(t, view[t].people \cup {p}, view[t].lists, {})
<1>1. Pc(t) = "idle" /\ Missing(t) = <<>> /\ Loaded(t) /\ \A u \in Tabs : Pc(u) # "records"
  BY AtHandIs DEF AddPerson, Loaded
<1>2. p \notin DOMAIN rows.lists /\ \A u \in Tabs : p \notin DOMAIN view[u].base
  <2>1. p \notin Everyone
    BY DEF AddPerson
  <2>2. p \notin Named(rows)
    BY <2>1 DEF Everyone
  <2>3. ASSUME NEW u \in Tabs, p \in DOMAIN view[u].base PROVE FALSE
    <3>1. p \in Named(view[u]) \cup DOMAIN view[u].base
      BY <2>3
    <3>2. p \in UNION {Named(view[w]) \cup DOMAIN view[w].base : w \in Tabs}
      BY <3>1
    <3> QED
      BY <2>1, <3>2 DEF Everyone
  <2> QED
    BY <2>2, <2>3 DEF Named
<1> QED
  BY <1>1, <1>2, LoadedView DEF CleanSave

\* Adding a record to somebody the tab knows is a clean save.
LEMMA AddingIsClean ==
  ASSUME ~Hasty, NEW t \in Tabs, TabInv(t), AtHand(t), NEW p \in view[t].people, NEW r
  PROVE  CleanSave(t, view[t].people, With(view[t].lists, p, r), {})
<1> DEFINE v == view[t]
           l == With(v.lists, p, r)
<1>1. Pc(t) = "idle" /\ Missing(t) = <<>> /\ Loaded(t) /\ \A u \in Tabs : Pc(u) # "records"
  BY AtHandIs DEF Loaded
<1>2. /\ DOMAIN l = DOMAIN v.lists \cup {p}
      /\ p \in DOMAIN v.lists => l[p] = v.lists[p] \cup {r}
      /\ \A x \in DOMAIN v.lists \ {p} : l[x] = v.lists[x]
  BY DEF With, Of
<1>3. /\ \A x \in DOMAIN v.base \cap DOMAIN v.lists : v.base[x] \ v.lists[x] \subseteq givenUp
      /\ \A x \in DOMAIN v.base \ DOMAIN v.lists : x \notin v.people
      /\ DOMAIN v.lists \subseteq v.people
  BY <1>1, LoadedView
<1> HIDE DEF l
<1>4. ASSUME NEW x \in DOMAIN v.base \cap DOMAIN l PROVE v.base[x] \ l[x] \subseteq givenUp
  <2>1. x \in DOMAIN v.lists
    BY <1>2, <1>3
  <2>2. v.lists[x] \subseteq l[x]
    BY <1>2, <2>1
  <2> QED
    BY <1>3, <2>1, <2>2
<1>5. CleanSave(t, v.people, l, {})
  BY <1>1, <1>2, <1>3, <1>4 DEF CleanSave
<1> QED
  BY <1>5 DEF l

\* Removing a record gives up that record and no other.
LEMMA RemovingIsClean ==
  ASSUME ~Hasty, NEW t \in Tabs, TabInv(t), NEW i \in Entries, RemoveRecord(t, i)
  PROVE  CleanSave(t, view[t].people, [view[t].lists EXCEPT ![i[1]] = @ \ {i[2]}], {i[2]})
<1> DEFINE v == view[t]
           l == [v.lists EXCEPT ![i[1]] = @ \ {i[2]}]
<1>1. Pc(t) = "idle" /\ Missing(t) = <<>> /\ Loaded(t) /\ \A u \in Tabs : Pc(u) # "records"
  BY AtHandIs DEF RemoveRecord, Loaded
<1>2. DOMAIN l = DOMAIN v.lists /\ \A x \in DOMAIN v.lists : v.lists[x] \subseteq l[x] \cup {i[2]}
  OBVIOUS
<1>3. /\ \A x \in DOMAIN v.base \cap DOMAIN v.lists : v.base[x] \ v.lists[x] \subseteq givenUp
      /\ \A x \in DOMAIN v.base \ DOMAIN v.lists : x \notin v.people
      /\ DOMAIN v.lists \subseteq v.people
  BY <1>1, LoadedView
<1> HIDE DEF l
<1>4. CleanSave(t, v.people, l, {i[2]})
  BY <1>1, <1>2, <1>3 DEF CleanSave
<1> QED
  BY <1>4 DEF l

\* The repaired stores leave out only the lists of those who are not there.
LEMMA AdoptingIsClean ==
  ASSUME NEW t \in Tabs, TabInv(t), Pc(t) = "adopt"
  PROVE  CleanSave(t, view[t].people, task[t].repaired, {})
<1> DEFINE v == view[t]
           l == task[t].repaired
<1>1. l = OfPresent(v.people, v.lists) /\ Loaded(t) /\ (v.pgen = gen => v.people \subseteq rows.people)
  BY DEF TabInv, TaskFits, Loaded, ViewInv, ReadsFit
<1>2. DOMAIN l = DOMAIN v.lists \cap v.people /\ \A x \in DOMAIN l : l[x] = v.lists[x]
  <2>1. /\ DOMAIN OfPresent(v.people, v.lists) = DOMAIN v.lists \cap v.people
        /\ \A x \in DOMAIN v.lists \cap v.people : OfPresent(v.people, v.lists)[x] = v.lists[x]
    BY RestrictsAre
  <2> QED
    BY <1>1, <2>1
<1>3. /\ \A x \in DOMAIN v.base \cap DOMAIN v.lists : v.base[x] \ v.lists[x] \subseteq givenUp
      /\ \A x \in DOMAIN v.base \ DOMAIN v.lists : x \notin v.people
  BY <1>1, LoadedView
<1> QED
  BY <1>1, <1>2, <1>3 DEF CleanSave

\* Edits lose nothing.
LEMMA EditKeeps ==
  ASSUME ~Hasty, TypeOK, TypeOK', RecordsInv, NEW t \in Tabs,
         (\E p \in People : AddPerson(t, p)) \/ (\E i \in Entries : AddRecord(t, i) \/ RemoveRecord(t, i))
  PROVE  RecordsInv'
<1> DEFINE Edited(people, lists, removed) ==
             /\ CleanSave(t, people, lists, removed) /\ Save(t, people, lists, removed)
             /\ AtHand(t) /\ UNCHANGED <<held, gen, lease, task, copies>>
<1>a. TabInv(t)
  BY DEF RecordsInv
<1>1. \E people, lists, removed : Edited(people, lists, removed)
  <2>1. ASSUME NEW p \in People, AddPerson(t, p) PROVE \E people, lists, removed : Edited(people, lists, removed)
    <3>1. Edited(view[t].people \cup {p}, view[t].lists, {})
      BY <1>a, <2>1, AddPersonIsClean DEF AddPerson
    <3> HIDE DEF Edited
    <3> QED
      BY <3>1
  <2>2. ASSUME NEW i \in Entries, AddRecord(t, i) PROVE \E people, lists, removed : Edited(people, lists, removed)
    <3>1. Edited(view[t].people, With(view[t].lists, i[1], i[2]), {})
      BY <1>a, <2>2, AddingIsClean DEF AddRecord
    <3> HIDE DEF Edited
    <3> QED
      BY <3>1
  <2>3. ASSUME NEW i \in Entries, RemoveRecord(t, i) PROVE \E people, lists, removed : Edited(people, lists, removed)
    <3>1. Edited(view[t].people, [view[t].lists EXCEPT ![i[1]] = @ \ {i[2]}], {i[2]})
      BY <1>a, <2>3, RemovingIsClean DEF RemoveRecord
    <3> HIDE DEF Edited
    <3> QED
      BY <3>1
  <2> QED
    BY <2>1, <2>2, <2>3
<1>2. PICK people, lists, removed : Edited(people, lists, removed)
  BY <1>1
<1>3. Pc(t)' = "idle" /\ \A u \in Tabs \ {t} : view'[u] = view[u] /\ task'[u] = task[u]
  BY <1>2, AtHandIs, SaveIs DEF Pc
<1>4. Grows /\ RecordsSurvive' /\ DanglesAtFirst'
  BY <1>2, SaveGrows
<1>5. TabInv(t)'
  BY <1>2, <1>3, SaveFits, RestFits DEF TabInv
<1> QED
  BY <1>3, <1>4, <1>5, StepFits

\* The repair drops what it has held, and a restored record is saved first.
LEMMA AdoptKeeps ==
  ASSUME TypeOK, TypeOK', RecordsInv, NEW t \in Tabs, AdoptRepaired(t)
  PROVE  RecordsInv'
<1>1. /\ Save(t, view[t].people, task[t].repaired, {}) /\ task' = [task EXCEPT ![t] = Idle] /\ Pc(t) = "adopt"
      /\ UNCHANGED <<held, gen, lease, copies>>
  BY DEF AdoptRepaired, To
<1>2. CleanSave(t, view[t].people, task[t].repaired, {})
  BY <1>1, AdoptingIsClean DEF RecordsInv
<1>3. Pc(t)' = "idle" /\ \A u \in Tabs \ {t} : view'[u] = view[u] /\ task'[u] = task[u]
  BY <1>1, SaveIs DEF Pc, Idle, TypeOK
<1>4. Grows /\ RecordsSurvive' /\ DanglesAtFirst'
  BY <1>1, <1>2, SaveGrows
<1>5. TabInv(t)'
  BY <1>1, <1>2, <1>3, SaveFits, RestFits DEF TabInv
<1> QED
  BY <1>3, <1>4, <1>5, StepFits

\* Restoring a set-aside record keeps the invariant.
LEMMA AttachKeeps ==
  ASSUME ~Hasty, TypeOK, TypeOK', RecordsInv, NEW t \in Tabs, NEW i \in Entries, NEW p \in People, Attach(t, i, p)
  PROVE  RecordsInv'
<1> DEFINE l == With(view[t].lists, p, i[2])
<1>1. /\ Save(t, view[t].people, l, {}) /\ AtHand(t) /\ p \in view[t].people
      /\ task' = [task EXCEPT ![t] = [pc |-> "check", item |-> i, onto |-> p]]
      /\ UNCHANGED <<held, gen, lease, copies>>
  BY DEF Attach, To
<1>2. CleanSave(t, view[t].people, l, {})
  BY <1>1, AddingIsClean DEF RecordsInv
<1>3. /\ Pc(t)' = "check" /\ task'[t].onto \in view'[t].people
      /\ \A u \in Tabs \ {t} : view'[u] = view[u] /\ task'[u] = task[u]
  BY <1>1, SaveIs DEF Pc, TypeOK
<1> HIDE DEF l
<1>4. Grows /\ RecordsSurvive' /\ DanglesAtFirst'
  BY <1>1, <1>2, SaveGrows
<1>5. ViewInv(t)' /\ Missing(t)' = <<>>
  BY <1>1, <1>2, <1>3, SaveFits
<1>6. TaskFits(t)'
  BY <1>3, <1>5 DEF TaskFits
<1> QED
  BY <1>3, <1>4, <1>5, <1>6, StepFits DEF TabInv

\* A step that leaves the dataset and the views alone.
LEMMA QuietGrows ==
  ASSUME TypeOK, TypeOK', RecordsInv, UNCHANGED <<rows, view, gen>>, givenUp \subseteq givenUp',
         copies \subseteq copies', Safe \subseteq Safe', epoch <= epoch', known' \subseteq known \cup Safe'
  PROVE  Grows /\ RecordsSurvive' /\ DanglesAtFirst'
<1>1. Settled \subseteq Settled'
  BY DEF Settled
<1>2. Grows
  BY <1>1 DEF Grows, DanglingNow
<1>3. RecordsSurvive'
  <2>1. ASSUME NEW r \in Safe' PROVE r \in Recs(rows'.lists) \cup {i[2] : i \in held'} \cup copies' \cup givenUp'
    <3>1. r \in Recs(OfPresent(rows'.people, rows'.lists)) => r \in Recs(rows'.lists)
      <4>1. r \in Recs(OfPresent(rows'.people, rows'.lists)) =>
              \E p \in DOMAIN rows'.lists \cap rows'.people : r \in rows'.lists[p]
        BY PresentRecs
      <4>2. r \in Recs(rows'.lists) <=> \E p \in DOMAIN rows'.lists : r \in rows'.lists[p]
        BY RecsAre
      <4> QED
        BY <4>1, <4>2
    <3> QED
      BY <2>1, <3>1 DEF Safe, Settled
  <2>2. ASSUME NEW r \in known PROVE r \in Recs(rows'.lists) \/ r \in Safe'
    <3>1. r \in Recs(rows.lists) \cup {i[2] : i \in held} \cup copies \cup givenUp
      BY DEF RecordsInv, RecordsSurvive
    <3> QED
      BY <3>1 DEF Safe, Settled
  <2> QED
    BY <2>1, <2>2 DEF RecordsSurvive
<1> QED
  BY <1>2, <1>3 DEF RecordsInv, DanglesAtFirst, DanglingNow

\* A step that leaves dataset and views alone keeps the invariant if its task fits.
LEMMA QuietStep ==
  ASSUME TypeOK, TypeOK', RecordsInv, UNCHANGED <<rows, view, gen>>, givenUp \subseteq givenUp',
         copies \subseteq copies', Safe \subseteq Safe', epoch <= epoch', known' \subseteq known \cup Safe',
         NEW t \in Tabs, NEW next, To(t, next), next.pc \notin {"records", "adopt"},
         next.pc # "people" => Loaded(t), TaskFits(t)'
  PROVE  RecordsInv'
<1>1. Grows /\ RecordsSurvive' /\ DanglesAtFirst'
  BY QuietGrows
<1>2. Pc(t)' = next.pc /\ \A u \in Tabs \ {t} : view'[u] = view[u] /\ task'[u] = task[u]
  BY DEF To, Pc, TypeOK
<1>3. TabInv(t) /\ view'[t] = view[t]
  BY DEF RecordsInv
<1>4. (Loaded(t)' => Loaded(t)) /\ Pc(t)' \notin {"records", "adopt"}
  BY <1>2 DEF Loaded
<1>5. ViewInv(t)'
  BY <1>1, <1>3, <1>4, ViewFits
<1> QED
  BY <1>1, <1>2, <1>5, StepFits DEF TabInv

\* Nothing that is held, given up or copied goes.
LEMMA SafeGrows ==
  ASSUME UNCHANGED rows, givenUp \subseteq givenUp', copies \subseteq copies', held \subseteq held'
  PROVE  Safe \subseteq Safe'
BY DEF Safe, Settled

\* Loading again, and giving up an import.
LEMMA RestKeeps ==
  ASSUME TypeOK, TypeOK', RecordsInv, NEW t \in Tabs,
         \/ Reload(t) \/ AdoptGeneration(t) \/ Cancel(t) \/ Abort(t)
         \/ (ProveEmpty(t) \/ StillEmpty(t) \/ CheckSaved(t)) /\ To(t, Idle)
  PROVE  RecordsInv'
<1>1. /\ UNCHANGED <<rows, held, gen, view, copies, known, givenUp>> /\ epoch' \in {epoch, epoch + 1}
      /\ Loaded(t)
  BY DEF Reload, AdoptGeneration, Cancel, Abort, ProveEmpty, StillEmpty, CheckSaved, Unchanged, history, Batch, Loaded
<1>2. PICK next : To(t, next) /\ next.pc \in {"idle", "people"}
  <2>1. ASSUME Reload(t) \/ AdoptGeneration(t) PROVE \E next : To(t, next) /\ next.pc \in {"idle", "people"}
    <3>1. task[t] \in Resting
      BY <2>1, TaskIs DEF Reload, AdoptGeneration
    <3>2. [task[t] EXCEPT !.pc = "people"].pc = "people"
      BY <3>1 DEF Resting
    <3> QED
      BY <2>1, <3>2 DEF Reload, AdoptGeneration, Goto
  <2>2. To(t, Idle) => \E next : To(t, next) /\ next.pc \in {"idle", "people"}
    BY DEF Idle
  <2> QED
    BY <2>1, <2>2 DEF Cancel, Abort
<1>3. Pc(t)' = next.pc
  BY <1>2 DEF To, Pc, TypeOK
<1>4. TaskFits(t)' /\ epoch <= epoch'
  BY <1>1, <1>2, <1>3, RestFits DEF TypeOK
<1>5. Safe \subseteq Safe'
  BY <1>1, SafeGrows
<1> QED
  BY <1>1, <1>2, <1>4, <1>5, QuietStep

\* Holding what is missing.
LEMMA HoldKeeps ==
  ASSUME TypeOK, TypeOK', RecordsInv, NEW t \in Tabs, HoldDangling(t)
  PROVE  RecordsInv'
<1> DEFINE v == view[t]
<1>1. /\ Pc(t) = "idle" /\ OfGen(t) /\ Missing(t) # <<>> /\ held' = held \cup In(Missing(t)) /\ epoch' = epoch + 1
      /\ task' = [task EXCEPT ![t] = [pc |-> "adopt", repaired |-> OfPresent(v.people, v.lists)]]
      /\ UNCHANGED <<rows, gen, lease, view, copies, known, givenUp, moves>>
  BY DEF HoldDangling, Batch, To, history, OfGen
<1>2. Safe \subseteq Safe' /\ epoch <= epoch'
  BY <1>1, SafeGrows DEF TypeOK
<1>3. Grows /\ RecordsSurvive' /\ DanglesAtFirst'
  BY <1>1, <1>2, QuietGrows
<1>4. /\ Pc(t)' = "adopt" /\ task'[t].repaired = OfPresent(v.people, v.lists) /\ view'[t] = v
      /\ \A u \in Tabs \ {t} : view'[u] = view[u] /\ task'[u] = task[u]
  BY <1>1 DEF Pc, TypeOK
<1>5. TabInv(t) /\ Loaded(t)
  BY <1>1 DEF RecordsInv, Loaded
<1>6. TaskFits(t)'
  BY <1>4 DEF TaskFits
<1>7. GenFits(t)' /\ EditsFit(t)' /\ NewAreNew(t)' /\ KnowsPeople(t)'
  BY <1>1, <1>5 DEF TabInv, ViewInv, GenFits, EditsFit, NewAreNew, KnowsPeople, OfGen, DanglingNow, Loaded
<1>8. ReadsFit(t)'
  BY <1>1, <1>4, <1>5 DEF TabInv, ViewInv, ReadsFit
<1>9. DropsAreSafe(t)'
  <2> SUFFICES ASSUME NEW p \in DanglingNow PROVE rows.lists[p] \subseteq Safe'
    BY <1>1 DEF DropsAreSafe, DanglingNow
  <2>1. p \in DOMAIN rows.lists \ rows.people
    BY DEF DanglingNow
  <2>2. p \notin v.people
    BY <1>1, <1>5, <2>1 DEF TabInv, ViewInv, NewAreNew, OfGen
  <2>3. p \in DOMAIN v.base /\ v.base[p] = rows.lists[p]
    BY <1>1, <1>5 DEF TabInv, ViewInv, KnowsPeople
  <2>4. CASE p \notin DOMAIN v.lists
    BY <1>1, <1>2, <1>5, <2>4 DEF TabInv, ViewInv, DropsAreSafe
  <2>5. CASE p \in DOMAIN v.lists
    <3>1. v.lists[p] = rows.lists[p]
      BY <1>5, <2>2, <2>3, <2>5 DEF TabInv, ViewInv, EditsFit
    <3>2. v.lists \in Lists
      BY DEF TypeOK, Stores
    <3>3. p \in People /\ v.lists[p] \subseteq Records
      BY <2>5, <3>2, ListsAre
    <3>4. p \in DOMAIN Missing(t) /\ Missing(t)[p] = v.lists[p]
      <4>1. /\ DOMAIN Dangling(v.people, v.lists) = DOMAIN v.lists \ v.people
            /\ \A x \in DOMAIN v.lists \ v.people : Dangling(v.people, v.lists)[x] = v.lists[x]
        BY RestrictsAre
      <4> QED
        BY <2>2, <2>5, <4>1 DEF Missing
    <3>5. ASSUME NEW r \in rows.lists[p] PROVE r \in Safe'
      <4>1. <<p, r>> \in In(Missing(t))
        BY <3>1, <3>3, <3>4 DEF In, Entries
      <4>2. <<p, r>> \in held' /\ <<p, r>>[2] = r
        BY <1>1, <4>1
      <4> QED
        BY <4>2 DEF Safe
    <3> QED
      BY <3>5
  <2> QED
    BY <2>4, <2>5
<1> QED
  BY <1>3, <1>4, <1>6, <1>7, <1>8, <1>9, StepFits DEF TabInv, ViewInv

\* A restored record is released only when the dataset has it.
LEMMA SettingsKeeps ==
  ASSUME TypeOK, TypeOK', RecordsInv, NEW t \in Tabs, Settings(t)
  PROVE  RecordsInv'
<1>a. TabInv(t) /\ TaskFits(t)
  BY DEF RecordsInv, TabInv
<1>1. ASSUME CheckSaved(t), To(t, Idle) PROVE RecordsInv'
  BY <1>1, RestKeeps
<1>2. ASSUME CheckSaved(t), SavedHolds(t) PROVE RecordsInv'
  <2> DEFINE k == task[t]
             next == [k EXCEPT !.pc = "release"]
  <2>1. /\ Pc(t) = "check" /\ task' = [task EXCEPT ![t] = next]
        /\ UNCHANGED <<rows, held, gen, epoch, lease, view, copies, known, givenUp, moves>>
    BY <1>2 DEF CheckSaved, Goto, To, history
  <2>2. k \in Restoring
    BY <2>1, TaskIs
  <2>3. next.pc = "release" /\ next.item = k.item
    BY <2>2 DEF Restoring
  <2>4. task'[t] = next
    BY <2>1 DEF TypeOK
  <2>5. Missing(t)' = <<>>
    BY <1>a, <2>1 DEF TaskFits, Missing
  <2>6. k.item[2] \in Settled
    <3>1. k.item[2] \in Of(rows.lists, k.onto)
      BY <1>2 DEF SavedHolds
    <3>2. k.onto \in DOMAIN rows.lists /\ k.item[2] \in rows.lists[k.onto]
      BY <3>1 DEF Of
    <3>3. CASE k.onto \in rows.people
      BY <3>2, <3>3, SettledAre
    <3>4. CASE k.onto \notin rows.people
      <4>1. k.onto \in DanglingNow /\ DanglesAtFirst /\ gen \in Nat
        BY <3>2, <3>4 DEF DanglingNow, RecordsInv, TypeOK
      <4>2. gen = 0
        BY <4>1 DEF DanglesAtFirst
      <4>3. view[t].pgen = gen /\ view[t].lgen = gen
        BY <1>a, <4>2 DEF TabInv, ViewInv, GenFits, TypeOK, Stores
      <4>4. k.onto \in view[t].people
        BY <1>a, <2>1 DEF TaskFits
      <4> QED
        BY <1>a, <3>2, <3>4, <4>3, <4>4 DEF TabInv, ViewInv, NewAreNew
    <3> QED
      BY <3>3, <3>4
  <2>7. TaskFits(t)'
    BY <2>1, <2>3, <2>4, <2>5, <2>6 DEF TaskFits, Pc, Settled
  <2> HIDE DEF next
  <2>8. Safe \subseteq Safe' /\ epoch <= epoch' /\ Loaded(t)
    BY <2>1, SafeGrows DEF TypeOK, Loaded
  <2> QED
    BY <2>1, <2>3, <2>7, <2>8, QuietStep DEF To
<1>3. ASSUME Release(t) PROVE RecordsInv'
  <2>1. /\ Pc(t) = "release" /\ task' = [task EXCEPT ![t] = Idle] /\ held' = held \ {task[t].item}
        /\ epoch' = epoch + 1 /\ UNCHANGED <<rows, gen, lease, view, copies, known, givenUp, moves>>
    BY <1>3 DEF Release, To, Batch, history
  <2>2. task[t].item[2] \in Settled
    BY <1>a, <2>1 DEF TaskFits
  <2>3. Safe \subseteq Safe'
    BY <2>1, <2>2 DEF Safe, Settled
  <2>4. Pc(t)' = "idle" /\ Idle.pc = "idle" /\ Loaded(t) /\ epoch <= epoch'
    BY <2>1 DEF Pc, Idle, TypeOK, Loaded
  <2>5. TaskFits(t)'
    BY <2>4, RestFits
  <2> QED
    BY <2>1, <2>3, <2>4, <2>5, QuietStep DEF To
<1>4. CheckSaved(t) => SavedHolds(t) \/ To(t, Idle)
  BY DEF CheckSaved
<1> QED
  BY <1>1, <1>2, <1>3, <1>4 DEF Settings

\* What the user deletes from what is set aside is given up.
LEMMA DeleteKeeps ==
  ASSUME ~Hasty, TypeOK, TypeOK', RecordsInv, NEW t \in Tabs, NEW i \in Entries, DeleteHeld(t, i)
  PROVE  RecordsInv'
<1>1. /\ held' = held \ {i} /\ givenUp' = givenUp \cup {i[2]} /\ epoch' = epoch + 1
      /\ UNCHANGED <<rows, gen, lease, view, task, copies, known>> /\ Pc(t) = "idle"
  BY AtHandIs DEF DeleteHeld, Batch
<1>2. Safe \subseteq Safe'
  BY <1>1 DEF Safe, Settled
<1>3. Pc(t)' = "idle" /\ task[t].pc = "idle" /\ Loaded(t) /\ epoch <= epoch' /\ To(t, task[t])
  BY <1>1 DEF Pc, TypeOK, Loaded, To
<1>4. TaskFits(t)'
  BY <1>3, RestFits
<1> QED
  BY <1>1, <1>2, <1>3, <1>4, QuietStep

\* Reading the people, and then the records.
LEMMA HydrateKeeps ==
  ASSUME TypeOK, TypeOK', RecordsInv, NEW t \in Tabs, HydratePeople(t) \/ HydrateRecords(t)
  PROVE  RecordsInv'
<1> DEFINE v == view[t]
           w == view'[t]
<1>a. TabInv(t) /\ view \in [Tabs -> Stores] /\ gen \in Nat /\ epoch \in Nat
  BY DEF RecordsInv, TypeOK
<1>b. /\ UNCHANGED <<rows, held, gen, epoch, lease, copies, known, givenUp>>
      /\ \A u \in Tabs \ {t} : view'[u] = view[u] /\ task'[u] = task[u]
  BY <1>a DEF HydratePeople, HydrateRecords, history, Goto, To, TypeOK
<1>c. /\ Settled' = Settled /\ Safe' = Safe /\ DanglingNow' = DanglingNow
      /\ RecordsSurvive' /\ DanglesAtFirst'
  BY <1>b DEF Settled, Safe, DanglingNow, RecordsInv, RecordsSurvive, DanglesAtFirst
<1>1. CASE HydratePeople(t)
  <2>1. /\ w.people = rows.people /\ w.pgen = gen /\ w.lists = v.lists /\ w.base = v.base /\ w.lgen = v.lgen
        /\ Pc(t) = "people"
    BY <1>1, <1>a DEF HydratePeople, Stores
  <2>2. Pc(t)' = "records"
    <3>1. task[t] \in Resting
      BY <2>1, TaskIs
    <3> QED
      BY <1>1, <3>1 DEF HydratePeople, Goto, To, Pc, Resting, TypeOK
  <2>3. \A u \in Tabs : view'[u].base = view[u].base /\ view'[u].lgen = view[u].lgen
    BY <1>b, <2>1
  <2>4. Grows
    BY <1>a, <1>b, <1>c, <2>3 DEF Grows, DanglingNow
  <2>5. ~Loaded(t)'
    BY <2>2 DEF Loaded
  <2>6. GenFits(t)' /\ EditsFit(t)' /\ KnowsPeople(t)' /\ DropsAreSafe(t)'
    BY <1>a, <1>b, <2>1, <2>5 DEF TabInv, ViewInv, GenFits, EditsFit, KnowsPeople, DropsAreSafe
  <2>7. NewAreNew(t)' /\ ReadsFit(t)'
    BY <1>b, <2>1, <2>2 DEF NewAreNew, ReadsFit
  <2>8. TaskFits(t)'
    BY <2>2, RestFits
  <2> QED
    BY <1>b, <1>c, <2>4, <2>6, <2>7, <2>8, StepFits DEF TabInv, ViewInv
<1>2. CASE HydrateRecords(t)
  <2>1. /\ w.people = v.people /\ w.pgen = v.pgen /\ w.lists = rows.lists /\ w.base = rows.lists /\ w.lgen = gen
        /\ Pc(t) = "records"
    BY <1>2, <1>a DEF HydrateRecords, Stores
  <2>2. Pc(t)' = "idle"
    BY <1>2 DEF HydrateRecords, To, Pc, Idle, TypeOK
  <2>3. ASSUME NEW u \in Tabs, view'[u].lgen = gen, NEW p \in DOMAIN view'[u].base
        PROVE p \in DOMAIN rows.lists \/ (view[u].lgen = gen /\ p \in DOMAIN view[u].base)
    BY <1>b, <2>1, <2>3
  <2>4. Grows
    BY <1>a, <1>b, <1>c, <2>3 DEF Grows, DanglingNow
  <2>5. v.pgen = gen => v.people = rows.people
    BY <1>a, <2>1 DEF TabInv, ViewInv, ReadsFit
  <2>6. GenFits(t)' /\ EditsFit(t)'
    BY <1>a, <1>b, <2>1 DEF TabInv, ViewInv, GenFits, EditsFit
  <2>7. NewAreNew(t)' /\ ReadsFit(t)'
    BY <1>b, <2>1, <2>2, <2>5 DEF NewAreNew, ReadsFit
  <2>8. KnowsPeople(t)'
    BY <1>b, <2>1, <2>5 DEF KnowsPeople, OfGen, DanglingNow
  <2>9. DropsAreSafe(t)'
    BY <1>b, <2>1, <2>2 DEF DropsAreSafe, DanglingNow
  <2>10. TaskFits(t)'
    BY <2>2, RestFits
  <2> QED
    BY <1>b, <1>c, <2>4, <2>6, <2>7, <2>8, <2>9, <2>10, StepFits DEF TabInv, ViewInv
<1> QED
  BY <1>1, <1>2

\* A step of an import before its lease keeps the invariant if its task fits.
LEMMA ImportStep ==
  ASSUME TypeOK, TypeOK', RecordsInv, NEW t \in Tabs, NEW next, To(t, next), Pc(t) \notin {"people", "records"},
         next.pc \notin {"people", "records", "adopt"}, UNCHANGED <<rows, gen, view>>,
         givenUp \subseteq givenUp', copies \subseteq copies', held \subseteq held', epoch <= epoch',
         known' \subseteq known \cup {i[2] : i \in held'}, task'[t] = next => TaskFits(t)'
  PROVE  RecordsInv'
<1>1. Safe \subseteq Safe'
  BY SafeGrows
<1>2. known' \subseteq known \cup Safe'
  BY DEF Safe
<1>3. task'[t] = next /\ Loaded(t)
  BY DEF To, TypeOK, Loaded
<1> QED
  BY <1>1, <1>2, <1>3, QuietStep

\* Staging, confirming and protecting.
LEMMA ProtectKeeps ==
  ASSUME ~Hasty, TypeOK, TypeOK', RecordsInv, NEW t \in Tabs,
         \/ Confirm(t) \/ SkipSafety(t) \/ SaveCopy(t) \/ Protect(t) \/ \E f \in Files : Stage(t, f)
  PROVE  RecordsInv'
<1> DEFINE k == task[t]
           present == Recs(OfPresent(rows.people, rows.lists))
<1>a. TaskFits(t) /\ epoch \in Nat
  BY DEF RecordsInv, TabInv, TypeOK
<1>b. Pc(t) \in {"confirm", "export", "built", "empty", "stillEmpty"} =>
        k \in Importing /\ k.rev \in Nat /\ Missing(t) = <<>>
  BY <1>a, TaskIs DEF Importing, TaskFits
<1>1. ASSUME NEW f \in Files, Stage(t, f) PROVE RecordsInv'
  <2> DEFINE next == [pc |-> "confirm", file |-> f, copyNeeded |-> HoldsData, rev |-> 0, waived |-> FALSE,
                      copy |-> {}]
  <2>1. /\ To(t, next) /\ UNCHANGED <<rows, held, gen, epoch, lease, view, copies, known, givenUp>>
        /\ Pc(t) = "idle" /\ Missing(t) = <<>>
    BY <1>1, AtHandIs DEF Stage, history
  <2>2. next.pc = "confirm"
    OBVIOUS
  <2>3. task'[t] = next => TaskFits(t)'
    BY <2>1, <2>2 DEF TaskFits, Pc, Missing
  <2> HIDE DEF next
  <2> QED
    BY <1>a, <2>1, <2>2, <2>3, ImportStep
<1>2. ASSUME Confirm(t) PROVE RecordsInv'
  <2>1. PICK pc \in {"export", "empty"} : To(t, [k EXCEPT !.pc = pc, !.rev = epoch])
    BY <1>2 DEF Confirm
  <2> DEFINE next == [k EXCEPT !.pc = pc, !.rev = epoch]
  <2>2. Pc(t) = "confirm" /\ UNCHANGED <<rows, held, gen, epoch, lease, view, copies, known, givenUp>>
    BY <1>2 DEF Confirm, Unchanged, history
  <2>3. next.pc = pc /\ next.rev = epoch
    BY <1>b, <2>2 DEF Importing
  <2>4. To(t, next)
    BY <2>1
  <2> HIDE DEF next
  <2>5. task'[t] = next => TaskFits(t)'
    BY <1>a, <1>b, <2>2, <2>3 DEF TaskFits, Pc, Missing
  <2> QED
    BY <1>a, <2>2, <2>3, <2>4, <2>5, ImportStep
<1>3. ASSUME SkipSafety(t) PROVE RecordsInv'
  <2> DEFINE next == [k EXCEPT !.pc = "hold", !.rev = epoch, !.waived = TRUE]
  <2>1. /\ To(t, next) /\ Pc(t) = "confirm"
        /\ UNCHANGED <<rows, held, gen, epoch, lease, view, copies, known, givenUp>>
    BY <1>3 DEF SkipSafety, Unchanged, history
  <2>2. next.pc = "hold" /\ next.rev = epoch /\ next.waived
    BY <1>b, <2>1 DEF Importing
  <2> HIDE DEF next
  <2>3. task'[t] = next => TaskFits(t)'
    BY <1>a, <1>b, <2>1, <2>2 DEF TaskFits, Pc, Missing, Protected
  <2> QED
    BY <1>a, <2>1, <2>2, <2>3, ImportStep
<1>4. ASSUME Export(t) PROVE RecordsInv'
  <2> DEFINE next == [k EXCEPT !.pc = "built", !.copy = present]
  <2>1. /\ To(t, next) /\ Pc(t) = "export"
        /\ UNCHANGED <<rows, held, gen, epoch, lease, view, copies, known, givenUp>>
    BY <1>4 DEF Export, Unchanged, history
  <2>2. next.pc = "built" /\ next.rev = k.rev /\ next.copy = present
    BY <1>b, <2>1 DEF Importing
  <2> HIDE DEF next
  <2>3. task'[t] = next => TaskFits(t)'
    BY <1>a, <1>b, <2>1, <2>2 DEF TaskFits, Pc, Missing
  <2> QED
    BY <1>a, <2>1, <2>2, <2>3, ImportStep
<1>5. ASSUME SaveCopy(t), k.rev = epoch, copies' = copies \cup k.copy, Goto(t, "hold") PROVE RecordsInv'
  <2> DEFINE next == [k EXCEPT !.pc = "hold"]
  <2>1. To(t, next) /\ Pc(t) = "built" /\ UNCHANGED <<rows, held, gen, epoch, lease, view, known, givenUp>>
    BY <1>5 DEF SaveCopy, Goto, history
  <2>2. next.pc = "hold" /\ next.rev = k.rev
    BY <1>b, <2>1 DEF Importing
  <2>3. present \subseteq copies'
    BY <1>a, <1>5, <2>1 DEF TaskFits
  <2> HIDE DEF next
  <2>4. task'[t] = next => TaskFits(t)'
    BY <1>a, <1>b, <1>5, <2>1, <2>2, <2>3 DEF TaskFits, Pc, Missing, Protected
  <2> QED
    BY <1>a, <1>5, <2>1, <2>2, <2>4, ImportStep
<1>6. ASSUME SaveCopy(t), UNCHANGED copies, Goto(t, "confirm") PROVE RecordsInv'
  <2> DEFINE next == [k EXCEPT !.pc = "confirm"]
  <2>1. To(t, next) /\ Pc(t) = "built" /\ UNCHANGED <<rows, held, gen, epoch, lease, view, known, givenUp>>
    BY <1>6 DEF SaveCopy, Goto, history
  <2>2. next.pc = "confirm"
    BY <1>b, <2>1 DEF Importing
  <2> HIDE DEF next
  <2>3. task'[t] = next => TaskFits(t)'
    BY <1>a, <1>b, <2>1, <2>2 DEF TaskFits, Pc, Missing
  <2> QED
    BY <1>a, <1>6, <2>1, <2>2, <2>3, ImportStep
<1>7. ASSUME ProveEmpty(t), ~HoldsData, Goto(t, "stillEmpty") PROVE RecordsInv'
  <2> DEFINE next == [k EXCEPT !.pc = "stillEmpty"]
  <2>1. /\ To(t, next) /\ Pc(t) = "empty" /\ rows.lists = <<>>
        /\ UNCHANGED <<rows, held, gen, epoch, lease, view, copies, known, givenUp>>
    BY <1>7 DEF ProveEmpty, Goto, Unchanged, history, HoldsData
  <2>2. next.pc = "stillEmpty" /\ next.rev = k.rev
    BY <1>b, <2>1 DEF Importing
  <2> HIDE DEF next
  <2>3. task'[t] = next => TaskFits(t)'
    BY <1>a, <1>b, <2>1, <2>2 DEF TaskFits, Pc, Missing
  <2> QED
    BY <1>a, <2>1, <2>2, <2>3, ImportStep
<1>8. ASSUME StillEmpty(t), k.rev = epoch, Goto(t, "hold") PROVE RecordsInv'
  <2> DEFINE next == [k EXCEPT !.pc = "hold"]
  <2>1. /\ To(t, next) /\ Pc(t) = "stillEmpty"
        /\ UNCHANGED <<rows, held, gen, epoch, lease, view, copies, known, givenUp>>
    BY <1>8 DEF StillEmpty, Goto, Unchanged, history
  <2>2. next.pc = "hold" /\ next.rev = k.rev
    BY <1>b, <2>1 DEF Importing
  <2>3. present = {}
    <3>1. rows.lists = <<>> /\ DOMAIN <<>> = {}
      BY <1>a, <1>8, <2>1 DEF TaskFits
    <3>2. \A r : r \in present <=> \E p \in DOMAIN rows.lists \cap rows.people : r \in rows.lists[p]
      BY PresentRecs
    <3> HIDE DEF present
    <3> QED
      BY <3>1, <3>2
  <2> HIDE DEF next
  <2>4. task'[t] = next => TaskFits(t)'
    BY <1>a, <1>b, <1>8, <2>1, <2>2, <2>3 DEF TaskFits, Pc, Missing, Protected
  <2> QED
    BY <1>a, <2>1, <2>2, <2>4, ImportStep
<1>9. /\ SaveCopy(t) => \/ k.rev = epoch /\ copies' = copies \cup k.copy /\ Goto(t, "hold")
                        \/ UNCHANGED copies /\ Goto(t, "confirm")
      /\ ProveEmpty(t) => (~HoldsData /\ Goto(t, "stillEmpty")) \/ To(t, Idle)
      /\ StillEmpty(t) => (k.rev = epoch /\ Goto(t, "hold")) \/ To(t, Idle)
  BY DEF SaveCopy, ProveEmpty, StillEmpty
<1> QED
  BY <1>1, <1>2, <1>3, <1>4, <1>5, <1>6, <1>7, <1>8, <1>9, RestKeeps DEF Protect

\* The records that a file sets aside, the lease and the fence before a Replace.
LEMMA FenceKeeps ==
  ASSUME TypeOK, TypeOK', RecordsInv, NEW t \in Tabs, HoldFileRecords(t) \/ Acquire(t) \/ Enforce(t)
  PROVE  RecordsInv'
<1> DEFINE k == task[t]
<1>a. TaskFits(t) /\ epoch \in Nat
  BY DEF RecordsInv, TabInv, TypeOK
<1>b. k \in Importing /\ k.rev \in Nat /\ Missing(t) = <<>>
  <2>1. Pc(t) \in {"hold", "acquire", "fence"}
    BY DEF HoldFileRecords, Acquire, Enforce
  <2> QED
    BY <1>a, <2>1, TaskIs DEF Importing, TaskFits
<1>1. CASE HoldFileRecords(t)
  <2> DEFINE next == [k EXCEPT !.pc = "acquire"]
  <2>1. /\ To(t, next) /\ Pc(t) = "hold" /\ UNCHANGED <<rows, gen, lease, view, copies, givenUp>>
        /\ held \subseteq held'
        /\ epoch' = epoch \/ epoch' = epoch + 1
        /\ known' \subseteq known \cup {i[2] : i \in held'}
    BY <1>1 DEF HoldFileRecords, Goto, Batch
  <2>2. next.pc = "acquire" /\ next.rev = k.rev /\ next.waived = k.waived
    BY <1>b DEF Importing
  <2>3. epoch <= epoch' /\ k.rev <= epoch' /\ (k.rev = epoch' => k.rev = epoch)
    BY <1>a, <1>b, <2>1 DEF TaskFits
  <2>4. k.rev = epoch => k.waived \/ Recs(OfPresent(rows.people, rows.lists)) \subseteq copies
    BY <1>a, <2>1 DEF TaskFits, Protected
  <2> HIDE DEF next
  <2>5. task'[t] = next => TaskFits(t)'
    BY <1>b, <2>1, <2>2, <2>3, <2>4 DEF TaskFits, Pc, Missing, Protected
  <2> QED
    BY <2>1, <2>2, <2>3, <2>5, ImportStep
<1>2. CASE Acquire(t)
  <2> DEFINE next == [k EXCEPT !.pc = "fence"]
  <2>1. /\ To(t, next) /\ Pc(t) = "acquire" /\ UNCHANGED <<rows, held, gen, view, copies, known, givenUp>>
        /\ epoch' = epoch + 1
    BY <1>2 DEF Acquire, Goto, Batch, history
  <2>2. next.pc = "fence" /\ next.rev = k.rev /\ next.waived = k.waived
    BY <1>b DEF Importing
  <2>3. epoch <= epoch' /\ k.rev < epoch' /\ (epoch' = k.rev + 1 => k.rev = epoch)
    BY <1>a, <1>b, <2>1 DEF TaskFits
  <2>4. k.rev = epoch => k.waived \/ Recs(OfPresent(rows.people, rows.lists)) \subseteq copies
    BY <1>a, <2>1 DEF TaskFits, Protected
  <2> HIDE DEF next
  <2>5. task'[t] = next => TaskFits(t)'
    BY <1>b, <2>1, <2>2, <2>3, <2>4 DEF TaskFits, Pc, Missing, Protected, RevisionHolds
  <2> QED
    BY <2>1, <2>2, <2>3, <2>5, ImportStep
<1>3. CASE Enforce(t)
  <2>1. PICK pc \in {"commit", "abort"} : To(t, [k EXCEPT !.pc = pc]) /\ (pc = "commit" => RevisionHolds(t))
    BY <1>3 DEF Enforce, Goto
  <2> DEFINE next == [k EXCEPT !.pc = pc]
  <2>2. Pc(t) = "fence" /\ UNCHANGED <<rows, held, gen, epoch, lease, view, copies, known, givenUp>>
    BY <1>3 DEF Enforce, Unchanged, history
  <2>3. next.pc = pc /\ next.waived = k.waived
    BY <1>b DEF Importing
  <2>4. pc = "commit" => k.waived \/ Recs(OfPresent(rows.people, rows.lists)) \subseteq copies
    BY <1>a, <2>1, <2>2 DEF TaskFits, Protected
  <2>5. To(t, next)
    BY <2>1
  <2> HIDE DEF next
  <2>6. task'[t] = next => TaskFits(t)'
    BY <1>b, <2>2, <2>3, <2>4 DEF TaskFits, Pc, Missing, Protected
  <2> QED
    BY <1>a, <2>2, <2>3, <2>5, <2>6, ImportStep
<1> QED
  BY <1>1, <1>2, <1>3

\* The Replace: all that the dataset held is in a safety copy, in the set-aside
\* records or given up, and every tab is left with an older generation.
LEMMA CommitKeeps ==
  ASSUME TypeOK, TypeOK', RecordsInv, NEW t \in Tabs, CommitReplace(t)
  PROVE  RecordsInv'
<1> DEFINE k == task[t]
           kept == OfPresent(k.file.people, k.file.lists)
<1>a. /\ rows \in Rows /\ gen \in Nat /\ epoch \in Nat /\ view \in [Tabs -> Stores]
      /\ TabInv(t) /\ TaskFits(t) /\ Pc(t) = "commit" /\ Loaded(t) /\ RecordsSurvive /\ DanglesAtFirst
  BY DEF RecordsInv, TabInv, TypeOK, CommitReplace, Loaded
<1>b. /\ rows'.people = k.file.people /\ rows'.lists = kept
      /\ gen' = gen + 1 /\ epoch' = epoch + 1 /\ UNCHANGED <<held, view, copies>>
      /\ known' = known \cup Recs(rows'.lists) /\ To(t, [pc |-> "people"])
      /\ givenUp' = IF k.waived THEN givenUp \cup Recs(rows.lists) ELSE givenUp
  BY DEF CommitReplace, Batch
<1>c. /\ Pc(t)' = "people" /\ \A u \in Tabs \ {t} : task'[u] = task[u]
  BY <1>b DEF To, Pc, TypeOK
<1>d. Missing(t) = <<>> /\ (k.waived \/ Recs(OfPresent(rows.people, rows.lists)) \subseteq copies)
  BY <1>a DEF TaskFits, Protected
<1>1. givenUp \subseteq givenUp' /\ (k.waived => Recs(rows.lists) \subseteq givenUp')
  BY <1>b
<1>2. \A r \in Recs(rows.lists) : r \in Recs(OfPresent(rows.people, rows.lists)) \/ \E p \in DanglingNow : r \in rows.lists[p]
  BY RecsAre, PresentRecs DEF DanglingNow
<1>3. Recs(OfPresent(rows.people, rows.lists)) \subseteq Recs(rows.lists)
  BY RecsAre, PresentRecs
<1>4. Settled \subseteq Settled' /\ Safe \subseteq Safe'
  BY <1>b, <1>d, <1>1, <1>3 DEF Settled, Safe
<1>5. \A p \in DanglingNow : rows.lists[p] \subseteq Safe
  <2> SUFFICES ASSUME NEW p \in DanglingNow PROVE rows.lists[p] \subseteq Safe
    OBVIOUS
  <2>1. gen = 0
    BY <1>a DEF DanglesAtFirst
  <2>2. OfGen(t)
    BY <1>a, <2>1 DEF TabInv, ViewInv, GenFits, OfGen, Stores
  <2> QED
    BY <1>a, <1>d, <2>2, AsideIsSafe
<1>6. DanglesAtFirst'
  <2>1. DOMAIN kept = DOMAIN k.file.lists \cap k.file.people
    BY DEF OfPresent, Restrict
  <2> QED
    BY <1>b, <2>1 DEF DanglesAtFirst, DanglingNow
<1>7. RecordsSurvive'
  <2>1. known \subseteq Recs(rows.lists) \cup Safe
    BY <1>a DEF RecordsSurvive, Safe, Settled
  <2>2. known \subseteq Safe \cup givenUp'
    BY <1>1, <1>2, <1>5, <2>1, <1>d DEF Safe, Settled
  <2>3. givenUp' \subseteq Safe' /\ Safe' = givenUp' \cup copies' \cup Recs(OfPresent(rows.people, rows.lists))' \cup {i[2] : i \in held}'
    BY DEF Safe, Settled
  <2>4. Recs(OfPresent(rows.people, rows.lists))' \subseteq Recs(rows.lists)'
    <3>1. \A r : r \in Recs(OfPresent(rows'.people, rows'.lists)) => r \in Recs(rows'.lists)
      BY RecsAre, PresentRecs
    <3> QED
      BY <3>1
  <2> QED
    BY <1>b, <1>4, <2>2, <2>3, <2>4 DEF RecordsSurvive
<1>8. ASSUME NEW u \in Tabs PROVE ViewInv(u)'
  <2>1. view[u].pgen <= gen /\ view[u].lgen <= gen /\ view[u].pgen \in Nat /\ view[u].lgen \in Nat /\ view'[u] = view[u]
    BY <1>a, <1>b DEF RecordsInv, TabInv, ViewInv, GenFits, Stores
  <2>2. view'[u].pgen < gen' /\ view'[u].lgen < gen' /\ view'[u].pgen \in Nat /\ view'[u].lgen \in Nat /\ gen' \in Nat
    BY <1>a, <1>b, <2>1
  <2>3. GenFits(u)' /\ NewAreNew(u)' /\ ReadsFit(u)' /\ KnowsPeople(u)' /\ DropsAreSafe(u)'
    BY <2>2 DEF GenFits, NewAreNew, ReadsFit, KnowsPeople, DropsAreSafe, OfGen
  <2>4. Loaded(u)' => Loaded(u)
    BY <1>c DEF Loaded, Pc
  <2>5. EditsFit(u)'
    BY <1>1, <2>1, <2>4 DEF RecordsInv, TabInv, ViewInv, EditsFit
  <2> QED
    BY <2>3, <2>5 DEF ViewInv
<1>9. ASSUME NEW u \in Tabs \ {t} PROVE TaskFits(u)'
  <2>1. Pc(u) \notin Leasing /\ Pc(u)' = Pc(u) /\ task'[u] = task[u] /\ Missing(u)' = Missing(u)
    <3>1. Pc(t) \in Leasing
      BY <1>a DEF Leasing
    <3> QED
      BY <1>a, <1>b, <1>c, <3>1 DEF TypeOK, Pc, Missing
  <2>2. TaskFits(u)
    BY DEF RecordsInv, TabInv
  <2>3. Pc(u) \in {"export", "built", "empty", "stillEmpty", "hold", "acquire"} =>
          task[u] \in Importing /\ task[u].rev <= epoch
    BY <2>2, TaskIs DEF TaskFits
  <2>4. Pc(u) \in {"export", "built", "empty", "stillEmpty", "hold", "acquire"} =>
          task[u].rev < epoch' /\ task[u].rev <= epoch' /\ task[u].rev # epoch'
    BY <1>a, <1>b, <2>3 DEF Importing
  <2> QED
    BY <1>b, <1>4, <2>1, <2>2, <2>4 DEF TaskFits, Leasing
<1>10. TaskFits(t)'
  BY <1>c, RestFits
<1> QED
  BY <1>6, <1>7, <1>8, <1>9, <1>10 DEF RecordsInv, TabInv

-----------------------------------------------------------------------------
\* No tab has read anything yet.
LEMMA InitFits == Init => RecordsInv
<1> SUFFICES ASSUME Init PROVE RecordsInv
  OBVIOUS
<1>1. RecordsSurvive /\ DanglesAtFirst
  BY DEF Init, RecordsSurvive, DanglesAtFirst
<1>2. ASSUME NEW t \in Tabs PROVE TabInv(t)
  <2>1. /\ view[t].people = {} /\ view[t].pgen = 0 /\ view[t].lgen = 0 /\ Pc(t) = "people" /\ gen = 0
    BY DEF Init, Pc
  <2>2. GenFits(t) /\ EditsFit(t) /\ NewAreNew(t) /\ ReadsFit(t) /\ KnowsPeople(t) /\ DropsAreSafe(t)
    BY <2>1 DEF GenFits, EditsFit, NewAreNew, ReadsFit, KnowsPeople, DropsAreSafe, Loaded
  <2>3. TaskFits(t)
    BY <2>1 DEF TaskFits
  <2> QED
    BY <2>2, <2>3 DEF TabInv, ViewInv
<1> QED
  BY <1>1, <1>2 DEF RecordsInv

\* Every step of users that wait for the repair keeps the invariant.
LEMMA NextFits ==
  ASSUME ~Hasty, TypeOK, TypeOK', RecordsInv, [Next]_vars
  PROVE  RecordsInv'
<1>1. CASE UNCHANGED vars
  BY <1>1 DEF vars, RecordsInv, RecordsSurvive, DanglesAtFirst, DanglingNow, TabInv, ViewInv, GenFits, EditsFit,
              NewAreNew, ReadsFit, KnowsPeople, DropsAreSafe, TaskFits, Protected, RevisionHolds, Missing, OfGen,
              Loaded, Pc, Settled, Safe
<1>2. ASSUME NEW t \in Tabs, User(t) PROVE RecordsInv'
  <2>1. CASE Reload(t) \/ Cancel(t)
    BY <2>1, RestKeeps
  <2>2. CASE Confirm(t) \/ SkipSafety(t) \/ SaveCopy(t) \/ \E f \in Files : Stage(t, f)
    BY <2>2, ProtectKeeps
  <2>3. CASE \/ \E p \in People : AddPerson(t, p)
             \/ \E i \in Entries : AddRecord(t, i) \/ RemoveRecord(t, i)
    BY <2>3, EditKeeps
  <2>4. CASE \E i \in Entries : DeleteHeld(t, i)
    BY <2>4, DeleteKeeps
  <2>5. CASE \E i \in Entries, p \in People : Attach(t, i, p)
    BY <2>5, AttachKeeps
  <2> QED
    BY <1>2, <2>1, <2>2, <2>3, <2>4, <2>5 DEF User
<1>3. ASSUME NEW t \in Tabs, Boot(t) \/ Repair(t) \/ Settings(t) PROVE RecordsInv'
  <2>1. CASE Boot(t)
    BY <2>1, RestKeeps, HydrateKeeps DEF Boot
  <2>2. CASE Repair(t)
    BY <2>2, HoldKeeps, AdoptKeeps DEF Repair
  <2>3. CASE Settings(t)
    BY <2>3, SettingsKeeps DEF Settings
  <2> QED
    BY <1>3, <2>1, <2>2, <2>3
<1>4. ASSUME NEW t \in Tabs, Protect(t) \/ Replace(t) PROVE RecordsInv'
  <2>1. CASE Protect(t)
    BY <2>1, ProtectKeeps
  <2>2. CASE Replace(t)
    BY <2>2, FenceKeeps, CommitKeeps, RestKeeps DEF Replace
  <2> QED
    BY <1>4, <2>1, <2>2
<1> QED
  BY <1>1, <1>2, <1>3, <1>4 DEF Next

\* While no user acts on a tab that still has records to set aside (the repair
\* that overwrites an edit, README), a record SQLite once held is not lost: it
\* is in the dataset, among the set-aside records or in a safety copy, or was
\* given up, in whatever order any number of tabs load, repair, edit, restore,
\* export and replace the dataset (useBackupRestore.ts, portableRepair.ts).
THEOREM NothingIsLost ==
  ASSUME ~Hasty
  PROVE  Spec => []RecordsSurvive
<1>1. TypeOK /\ TypeOK' /\ RecordsInv /\ [Next]_vars => RecordsInv'
  BY NextFits
<1>2. RecordsInv => RecordsSurvive
  BY DEF RecordsInv
<1> QED
  BY <1>1, <1>2, InitFits, RecordsTypes, PTL DEF Spec
=============================================================================
