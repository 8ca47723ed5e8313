---------------------------- MODULE DatasetRows ----------------------------
(***************************************************************************)
(* One row of the dataset, written by several tabs that each hold a copy of  *)
(* it in a store: people (profiles.ts), charts (chartLibrary.ts), life        *)
(* events (lifeEvents.ts) or chat (chat.ts).  The rows have queues, bases     *)
(* and merges of their own, so a behaviour is about one of them, `name`.      *)
(* A row is [entries, lists, active]: records by id, lists of records by      *)
(* owner, and the active person.  The generation stays the same throughout:   *)
(* that is the subject of DatasetGeneration.                                  *)
(***************************************************************************)
EXTENDS RowMerge, Naturals, Sequences, FiniteSetsExt

CONSTANTS Tabs,
          Owners,      \* who owns charts and life events
          Inherited,   \* what the rows hold at first: a row by name
          LastId,      \* the last id given to what they hold
          None,
          MaxMoves,    \* bound: what the users do in one behaviour
          MaxPending,  \* bound: writes a tab may have queued when its user acts
          MaxFailures, \* bound: writes that fail
          MaxRetries   \* the length of DISCARD_RETRY_DELAYS_MS

Names == DOMAIN Inherited

(* What a row holds, each thing at its place: records, and elements of lists. *)
Slots(r) == {<<None, k>> : k \in DOMAIN r.entries}
              \cup UNION {{<<k, i>> : i \in DOMAIN r.lists[k]} : k \in DOMAIN r.lists}

\* What a row of that name looks like: a list is of a known owner or thread.
IsRow(n, s) == /\ s = [entries |-> s.entries, lists |-> s.lists, active |-> s.active]
               /\ DOMAIN s.lists \subseteq IF n = "chat" THEN DOMAIN s.entries ELSE Owners

\* Every record and every element has an id of its own.
ASSUME InheritedAssumption ==
  /\ LastId \in Nat /\ None \notin Nat /\ None \notin Owners
  /\ \A n \in Names : /\ IsRow(n, Inherited[n])
                       /\ Inherited[n].active \in 1 .. LastId \cup {None}
                       /\ \A x \in Slots(Inherited[n]) : x[2] \in 1 .. LastId
  /\ {MaxMoves, MaxPending, MaxFailures, MaxRetries} \subseteq Nat

\* What a record of that row looks like.
Record(n) ==
  CASE n = "people" -> [rel : {"none", "kin", "self"}, to : Nat \cup {None}]
    [] n = "charts" -> [of : Owners, primary : BOOLEAN, label : {0, 1}]
    [] n = "chat"   -> [count : Nat]
    [] OTHER        -> {}

ASSUME RecordsAssumption ==
  \A n \in Names : Inherited[n].entries \in [DOMAIN Inherited[n].entries -> Record(n)]

VARIABLES name,      \* the row this behaviour is about
          row,       \* what SQLite holds
          store,     \* each tab's store
          base,      \* each tab's acknowledged value, the base of its merges
          pending,   \* each tab's queued writes, each with the value to write
          failed,    \* the tab's last write to the row failed
          staged,    \* the person a tab is adding
          discards,  \* rollbacks under way in a tab, by person
          reported,  \* rollbacks that were given up, and the user told
          undone,    \* history: rollbacks that ended as committed
          minted,    \* the last id given
          saved,     \* history: slots SQLite has held
          removed,   \* history: slots a user removed
          replaced,  \* history: slots of a list that another tab's first list replaced
          moves, failures

tab == <<store, pending, staged, discards>>
history == <<undone, saved, removed, replaced>>
vars == <<name, row, tab, base, failed, reported, history, minted, moves, failures>>

Nothing == [id |-> None, prev |-> None]

-----------------------------------------------------------------------------
(* People. *)

Anchors(people) == {p \in DOMAIN people : people[p].rel = "self"}
Only(ids) == IF ids = {} THEN None ELSE Min(ids)   \* the code takes the first
Plain == [rel |-> "none", to |-> None]

(* Kin point at the anchor, nobody else points at anybody. *)
NormalizeRelatedTo(people) ==
  [p \in DOMAIN people |-> [people[p] EXCEPT !.to = IF people[p].rel = "kin" THEN Only(Anchors(people)) ELSE None]]

RemoveProfile(s, p) ==
  LET rest == Restrict(s.entries, DOMAIN s.entries \ {p})
  IN [s EXCEPT !.entries = [x \in DOMAIN rest |-> IF rest[x].to = p THEN Plain ELSE rest[x]],
               !.active = IF @ = p THEN Only(DOMAIN rest) ELSE @]

\* Mutant of Preferred: the tab's, whether its user chose or not.
LocalFirst(b, l, r, merged) == l

(* Whose choice of the anchor, or of a primary chart, holds. *)
Preferred(b, l, r, merged) == IF l # b THEN l ELSE IF r # b THEN r ELSE merged

\* Mutant of NormalizeProfiles: the records as they were merged.
AsMerged(b, l, r, merged) == merged

NormalizeProfiles(b, l, r, merged) ==
  LET anchor == Only(Preferred(Anchors(b), Anchors(l), Anchors(r), Anchors(merged)) \cap DOMAIN merged)
  IN [p \in DOMAIN merged |->
        IF p = anchor THEN [rel |-> "self", to |-> None]
        ELSE IF merged[p].rel = "kin" THEN [rel |-> "kin", to |-> anchor] ELSE Plain]

-----------------------------------------------------------------------------
(* Charts. *)

Primaries(charts, o) == {c \in DOMAIN charts : charts[c].of = o /\ charts[c].primary}

NormalizeCharts(b, l, r, merged) ==
  LET Selected(o) == Only(Preferred(Primaries(b, o), Primaries(l, o), Primaries(r, o),
                                      Primaries(merged, o)) \cap DOMAIN merged)
  IN [c \in DOMAIN merged |-> [merged[c] EXCEPT !.primary = c = Selected(merged[c].of)]]

-----------------------------------------------------------------------------
(* The row's merge (mergePersistedDatasetValue). *)

Counted(threads, lists) ==
  [th \in DOMAIN threads |-> [count |-> IF th \in DOMAIN lists THEN Cardinality(DOMAIN lists[th]) ELSE 0]]

(* What is read of any of the three sides, and what is written. *)
Sanitize(n, s) ==
  CASE n = "people" -> [s EXCEPT !.active = IF @ \in DOMAIN s.entries THEN @ ELSE Only(DOMAIN s.entries)]
    [] n = "chat"   -> [s EXCEPT !.lists = Restrict(@, DOMAIN @ \cap DOMAIN s.entries)]
    [] OTHER        -> s

Normalize(n, b, l, r, m) ==
  CASE n = "people" -> [m EXCEPT !.entries = NormalizeProfiles(b.entries, l.entries, r.entries, @)]
    [] n = "charts" -> [m EXCEPT !.entries = NormalizeCharts(b.entries, l.entries, r.entries, @)]
    [] n = "chat"   -> [m EXCEPT !.entries = Counted(@, m.lists)]
    [] OTHER        -> m

MergeState(n, b, l, r) ==
  Normalize(n, b, l, r, [entries |-> MergeMap(b.entries, l.entries, r.entries),
                         lists   |-> MergeLists(b.lists, l.lists, r.lists),
                         active  |-> The(MergeNode({b.active}, {l.active}, {r.active}))])

MergePersisted(n, b, l, r) ==
  Sanitize(n, MergeState(n, Sanitize(n, b), Sanitize(n, l), Sanitize(n, r)))

-----------------------------------------------------------------------------
Init ==
  /\ name \in Names
  /\ row = Inherited[name]
  /\ store = [t \in Tabs |-> row] /\ base = store
  /\ pending = [t \in Tabs |-> <<>>] /\ failed = [t \in Tabs |-> FALSE]
  /\ staged = [t \in Tabs |-> Nothing] /\ discards = [t \in Tabs |-> <<>>]
  /\ reported = [t \in Tabs |-> {}] /\ undone = {}
  /\ minted = LastId
  /\ saved = Slots(row) /\ removed = {} /\ replaced = {}
  /\ moves = 0 /\ failures = 0

(* The persist middleware queues a write for every `set` of the store. *)
Set(t, states) ==
  /\ store' = [store EXCEPT ![t] = states[Len(states)]]
  /\ pending' = [pending EXCEPT ![t] = @ \o states]

Acts(t, n) ==
  /\ name = n /\ Len(pending[t]) <= MaxPending
  /\ moves < MaxMoves /\ moves' = moves + 1
  /\ UNCHANGED <<name, row, base, failed, undone, saved, replaced, failures>>

NewId == minted + 1
Put(map, k, v) == [x \in DOMAIN map \cup {k} |-> IF x = k THEN v ELSE map[x]]
Minted == minted' = NewId
Elsewhere == UNCHANGED <<staged, discards, reported>>
Adds == Minted /\ Elsewhere /\ UNCHANGED removed
Edits == Elsewhere /\ UNCHANGED <<minted, removed>>

-----------------------------------------------------------------------------
(* What a user does with people. *)

Related(s, p, rel) == [s EXCEPT !.entries = NormalizeRelatedTo([@ EXCEPT ![p].rel = rel])]

CreateProfile(s) == [s EXCEPT !.entries = Put(@, NewId, Plain), !.active = IF @ = None THEN NewId ELSE @]

(* useStagedPerson.save: create, relate, turn to the person; a write each. *)
Stage(t, rel) ==
  LET created == CreateProfile(store[t])
      related == Related(created, NewId, rel)
  IN /\ Acts(t, "people") /\ staged[t] = Nothing
     /\ Set(t, (IF rel = "kin" THEN <<created, related>> ELSE <<created>>)
                 \o <<[related EXCEPT !.active = NewId]>>)
     /\ staged' = [staged EXCEPT ![t] = [id |-> NewId, prev |-> store[t].active]]
     /\ Minted /\ UNCHANGED <<discards, reported, removed>>

\* A retry of a save that failed or took too long writes the same person again.
Restage(t) ==
  /\ Acts(t, "people") /\ staged[t] # Nothing
  /\ Set(t, <<[store[t] EXCEPT !.active = staged[t].id]>>)
  /\ Edits

(* The user gives up: discardUnsavedProfile. *)
Discard(t) ==
  LET rest == RemoveProfile(store[t], staged[t].id)
      prev == staged[t].prev
  IN /\ Acts(t, "people") /\ staged[t] # Nothing
     /\ Set(t, <<[rest EXCEPT !.active = IF prev \in DOMAIN rest.entries THEN prev ELSE @]>>)
     /\ discards' = [discards EXCEPT ![t] = Put(@, staged[t].id, [wait |-> FALSE, left |-> MaxRetries])]
     /\ removed' = removed \cup {<<None, staged[t].id>>}
     /\ staged' = [staged EXCEPT ![t] = Nothing]
     /\ UNCHANGED <<reported, minted>>

SetAnchor(t, p) ==
  /\ Acts(t, "people") /\ p \in DOMAIN store[t].entries
  /\ Anchors(store[t].entries) = {}
  /\ Set(t, <<Related(store[t], p, "self")>>)
  /\ Edits

SetRelationship(t, p, rel) ==
  /\ Acts(t, "people") /\ p \in DOMAIN store[t].entries
  /\ store[t].entries[p].rel # rel
  /\ Set(t, <<Related(store[t], p, rel)>>)
  /\ Edits

SetActiveProfile(t, p) ==
  /\ Acts(t, "people") /\ p \in DOMAIN store[t].entries
  /\ store[t].active # p
  /\ Set(t, <<[store[t] EXCEPT !.active = p]>>)
  /\ Edits

-----------------------------------------------------------------------------
(* What a user does with charts, life events and chats. *)

SaveChart(charts, c, o) ==
  Put([x \in DOMAIN charts |-> [charts[x] EXCEPT !.primary = @ /\ charts[x].of # o]],
      c, [of |-> o, primary |-> TRUE, label |-> 0])

\* The first chart of a person, or the one that follows a changed birth.
Regenerate(t, o) ==
  LET charts == store[t].entries
      new == SaveChart(charts, NewId, o)
      prior == Only(Primaries(charts, o))
  IN /\ Acts(t, "charts")
     /\ Set(t, <<[store[t] EXCEPT !.entries = new]>> \o
                  (IF prior = None THEN <<>>
                   ELSE <<[store[t] EXCEPT !.entries = Restrict(new, DOMAIN new \ {prior})]>>))
     /\ removed' = removed \cup ({<<None, prior>>} \ {<<None, None>>})
     /\ Minted /\ Elsewhere

RenameCharts(t, o) ==
  LET charts == store[t].entries
  IN /\ Acts(t, "charts") /\ \E c \in DOMAIN charts : charts[c].of = o
     /\ Set(t, <<[store[t] EXCEPT !.entries = [c \in DOMAIN charts |->
                     IF charts[c].of = o THEN [charts[c] EXCEPT !.label = 1 - @] ELSE charts[c]]]>>)
     /\ Edits

List(t, k) == IF k \in DOMAIN store[t].lists THEN store[t].lists[k] ELSE <<>>
WithList(t, k, list) == [store[t] EXCEPT !.lists = Put(@, k, list)]

AddEvent(t, o) ==
  /\ Acts(t, "events")
  /\ Set(t, <<WithList(t, o, Put(List(t, o), NewId, 0))>>)
  /\ Adds

EditEvent(t, o, e) ==
  /\ Acts(t, "events") /\ e \in DOMAIN List(t, o)
  /\ Set(t, <<WithList(t, o, [List(t, o) EXCEPT ![e] = 1 - @])>>)
  /\ Edits

RemoveEvent(t, o, e) ==
  /\ Acts(t, "events") /\ e \in DOMAIN List(t, o)
  /\ Set(t, <<WithList(t, o, Restrict(List(t, o), DOMAIN List(t, o) \ {e}))>>)
  /\ removed' = removed \cup {<<o, e>>}
  /\ Elsewhere /\ UNCHANGED minted

\* ensureThread, or a thread whose page waits until it is saved.
StartThread(t) ==
  /\ Acts(t, "chat")
  /\ Set(t, <<[store[t] EXCEPT !.entries = Put(@, NewId, [count |-> 0])]>>)
  /\ \/ UNCHANGED staged
     \/ staged[t] = Nothing /\ staged' = [staged EXCEPT ![t] = [id |-> NewId, prev |-> None]]
  /\ Minted /\ UNCHANGED <<discards, reported, removed>>

\* Its save failed or took too long: savedOrRemoved.
DeleteThread(t) ==
  LET th == staged[t].id
      Without(map) == Restrict(map, DOMAIN map \ {th})
  IN /\ Acts(t, "chat") /\ staged[t] # Nothing
     /\ Set(t, <<[store[t] EXCEPT !.entries = Without(@), !.lists = Without(@)]>>)
     /\ removed' = removed \cup {<<None, th>>} \cup {<<th, m>> : m \in DOMAIN List(t, th)}
     /\ staged' = [staged EXCEPT ![t] = Nothing]
     /\ UNCHANGED <<discards, reported, minted>>

AppendMessage(t, th) ==
  LET list == Put(List(t, th), NewId, 0)
  IN /\ Acts(t, "chat") /\ th \in DOMAIN store[t].entries
     /\ Set(t, <<[WithList(t, th, list) EXCEPT !.entries[th].count = Cardinality(DOMAIN list)]>>)
     /\ Adds

-----------------------------------------------------------------------------
(* The queue of a tab's writes to the row. *)

Dequeue(t) == pending' = [pending EXCEPT ![t] = Tail(@)]
Settle(t, outcome) == failed' = [failed EXCEPT ![t] = IF Len(pending[t]) = 1 THEN outcome ELSE @]

\* Lists of a row that a tab replaces whole, because it did not know them.
FirstLists(b, l, r) == (DOMAIN l \cap DOMAIN r) \ DOMAIN b

\* Mutant of Acknowledged: what was written is the next base.
AcknowledgesMerged(t) == row'

Acknowledged(t) == Head(pending[t])

CommitWrite(t) ==
  /\ pending[t] # <<>>
  /\ LET value == Head(pending[t])
         firsts == FirstLists(base[t].lists, value.lists, row.lists)
     IN /\ row' = MergePersisted(name, base[t], value, row)
        /\ replaced' = replaced \cup {x \in Slots(row) \ Slots(value) : x[1] \in firsts}
  /\ base' = [base EXCEPT ![t] = Acknowledged(t)]
  /\ saved' = saved \cup Slots(row')
  /\ Dequeue(t) /\ Settle(t, FALSE)
  /\ UNCHANGED <<name, store, staged, discards, reported, undone, minted, removed, moves, failures>>

FailWrite(t) ==
  /\ pending[t] # <<>>
  /\ failures < MaxFailures /\ failures' = failures + 1
  /\ Dequeue(t) /\ Settle(t, TRUE)
  /\ UNCHANGED <<name, row, store, base, staged, discards, reported, history, minted, moves>>

\* The page is loaded again: what was not saved is gone, tasks included.
Reload(t) ==
  /\ moves < MaxMoves /\ moves' = moves + 1
  /\ store' = [store EXCEPT ![t] = row] /\ base' = [base EXCEPT ![t] = row]
  /\ pending' = [pending EXCEPT ![t] = <<>>] /\ failed' = [failed EXCEPT ![t] = FALSE]
  /\ staged' = [staged EXCEPT ![t] = Nothing] /\ discards' = [discards EXCEPT ![t] = <<>>]
  /\ reported' = [reported EXCEPT ![t] = {}]
  /\ UNCHANGED <<name, row, history, minted, failures>>

\* Mutant of Committed: the queue is empty, whatever came of the last write.
Settled(t) == pending[t] = <<>>

Committed(t) == pending[t] = <<>> /\ ~failed[t]

StagedSaved(t) ==
  /\ staged[t] # Nothing /\ Committed(t)
  /\ staged' = [staged EXCEPT ![t] = Nothing]
  /\ UNCHANGED <<name, row, store, base, pending, failed, discards, reported, history, minted, moves, failures>>

-----------------------------------------------------------------------------
(* ensureDiscardCommitted. *)

Ended(t, p) == discards' = [discards EXCEPT ![t] = Restrict(@, DOMAIN @ \ {p})]
Waiting(t, p) == p \in DOMAIN discards[t] /\ discards[t][p].wait
Quiet == UNCHANGED <<name, row, base, failed, staged, saved, removed, replaced, minted, moves, failures>>

DiscardHolds(t, p) ==
  /\ p \in DOMAIN discards[t] /\ ~Waiting(t, p) /\ Committed(t)
  /\ Ended(t, p) /\ undone' = undone \cup {p}
  /\ Quiet /\ UNCHANGED <<store, pending, reported>>

DiscardFails(t, p) ==
  /\ p \in DOMAIN discards[t] /\ ~Waiting(t, p)
  /\ pending[t] = <<>> /\ ~Committed(t)
  /\ IF discards[t][p].left > 0
     THEN /\ discards' = [discards EXCEPT ![t][p].wait = TRUE]
          /\ UNCHANGED reported
     ELSE /\ Ended(t, p)
          /\ reported' = [reported EXCEPT ![t] = @ \cup {p}]
  /\ Quiet /\ UNCHANGED <<store, pending, undone>>

\* Mutant of Left: the retries are not counted down.
LeftAgain(n) == n + 1

Left(n) == n - 1

RewriteAfterDelay(t, p) ==
  /\ Waiting(t, p)
  /\ Set(t, <<store[t]>>)
  /\ discards' = [discards EXCEPT ![t][p] = [wait |-> FALSE, left |-> Left(@.left)]]
  /\ Quiet /\ UNCHANGED <<reported, undone>>

\* The user asks the notice to try again; one write stands for one per person.
RetryFailedDiscards(t) ==
  /\ Acts(t, "people") /\ reported[t] # {}
  /\ Set(t, <<store[t]>>)
  /\ discards' = [discards EXCEPT ![t] =
                     [p \in reported[t] \cup DOMAIN @ |->
                        IF p \in DOMAIN @ THEN @[p] ELSE [wait |-> FALSE, left |-> MaxRetries]]]
  /\ reported' = [reported EXCEPT ![t] = {}]
  /\ UNCHANGED <<staged, minted, removed>>

-----------------------------------------------------------------------------
People(t) == \/ \E rel \in {"none", "kin"} : Stage(t, rel)
             \/ Restage(t) \/ Discard(t) \/ RetryFailedDiscards(t)
             \/ \E p \in DOMAIN store[t].entries :
                  \/ SetAnchor(t, p) \/ SetActiveProfile(t, p)
                  \/ \E rel \in {"none", "kin"} : SetRelationship(t, p, rel)

Records(t) == \/ \E o \in Owners : Regenerate(t, o) \/ RenameCharts(t, o) \/ AddEvent(t, o)
              \/ \E o \in Owners : \E e \in DOMAIN List(t, o) : EditEvent(t, o, e) \/ RemoveEvent(t, o, e)
              \/ StartThread(t) \/ DeleteThread(t)
              \/ \E th \in DOMAIN store[t].entries : AppendMessage(t, th)

Discards(t) == \E p \in DOMAIN discards[t] :
                 DiscardHolds(t, p) \/ DiscardFails(t, p) \/ RewriteAfterDelay(t, p)

Next == \E t \in Tabs : \/ People(t) \/ Records(t)
                        \/ CommitWrite(t) \/ FailWrite(t) \/ StagedSaved(t) \/ Reload(t) \/ Discards(t)

Spec == Init /\ [][Next]_vars

-----------------------------------------------------------------------------
(* Properties. *)

TypeOK ==
  /\ name \in Names
  /\ \A s \in {row} \cup {store[t] : t \in Tabs} \cup {base[t] : t \in Tabs} :
       s.active \in 1 .. minted \cup {None} /\ \A x \in Slots(s) : x[2] \in 1 .. minted
  /\ failed \in [Tabs -> BOOLEAN]
  /\ \A t \in Tabs : /\ staged[t].id \in 1 .. minted \cup {None}
                      /\ \A d \in DOMAIN discards[t] : discards[t][d].left \in 0 .. MaxRetries
                      /\ {<<None, p>> : p \in reported[t]} \subseteq removed
  /\ \A x \in removed \cup saved : x[2] \in 1 .. minted
  /\ moves \in 0 .. MaxMoves /\ failures \in 0 .. MaxFailures

(* Nothing that one tab saved is lost or brought back by the writes of        *)
(* another: something leaves the row only when a user removed it or the       *)
(* thread it is in (or with a list that a first list replaced), and what has   *)
(* left does not return.                                                      *)
RemovedWithThread == {x \in Slots(row) : <<None, x[1]>> \in removed}

RowAddsUp ==
  [][row' # row =>
     /\ Slots(row) \ Slots(row') \subseteq removed \cup RemovedWithThread \cup replaced'
     /\ (Slots(row') \ Slots(row)) \cap saved = {}]_vars

(* Whatever two tabs did at the same time, there is one anchor at most, kin     *)
(* point at it, the active person exists, a person with charts has exactly     *)
(* one primary chart, and a thread counts its messages.                       *)
Consistent(s) ==
  CASE name = "people" ->
         /\ Cardinality(Anchors(s.entries)) <= 1
         /\ s.entries = NormalizeRelatedTo(s.entries)
         /\ s.active \in DOMAIN s.entries \cup (IF s.entries = <<>> THEN {None} ELSE {})
    [] name = "charts" ->
         \A c \in DOMAIN s.entries : Cardinality(Primaries(s.entries, s.entries[c].of)) = 1
    [] name = "chat" ->
         /\ DOMAIN s.lists \subseteq DOMAIN s.entries
         /\ s.entries = Counted(s.entries, s.lists)
    [] OTHER -> TRUE

RowIsConsistent == Consistent(row) /\ \A t \in Tabs : Consistent(store[t])

(* A write changes the anchor of the row, or the primary chart of a person,    *)
(* only if its tab's user chose another one: a tab that still shows what      *)
(* another has changed since does not change it back.                         *)
ChoiceStays ==
  [][\A t \in Tabs : row' # row /\ pending'[t] # pending[t] =>
       LET mine == Head(pending[t]).entries  known == base[t].entries
       IN CASE name = "people" ->
                 Anchors(mine) = Anchors(known) =>
                   Anchors(row'.entries) = Anchors(row.entries) \cap DOMAIN row'.entries
            [] name = "charts" ->
                 \A o \in Owners : Primaries(mine, o) = Primaries(known, o) =>
                   Primaries(row'.entries, o) = Primaries(row.entries, o) \cap DOMAIN row'.entries
            [] OTHER -> TRUE]_vars

(* A person whose adding the user gave up is gone from the row for good, or    *)
(* the user has been told: however late or often writes fail, and whatever    *)
(* other tabs that saw the person write.                                      *)
DiscardIsHonest == undone \cap DOMAIN row.entries = {}

(* What docs/ARCHITECTURE.md says of lists with ids: independent additions of  *)
(* two tabs survive.                                                          *)
ListChangesSurvive == [][Slots(row) \ Slots(row') \subseteq removed]_vars
=============================================================================
