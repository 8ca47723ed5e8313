-------------------------- MODULE DatasetRowsProofs --------------------------
(***************************************************************************)
(* Theorems about the merge of RowMerge, for any maps, and about the rows    *)
(* several tabs write through it (DatasetRows), for any tabs, owners, rows   *)
(* at first and bounds: its types, that rows add up, that a rollback is       *)
(* honest, and that a row that is consistent at first stays so and keeps      *)
(* what users chose.  They rest on what is so along a tab's versions of the   *)
(* row.                                                                       *)
(***************************************************************************)
EXTENDS DatasetRows, SequenceTheorems, FiniteSetTheorems, TLAPS

-----------------------------------------------------------------------------
(* The merge of maps. *)

\* The value of a node that has one.
LEMMA TheNode == ASSUME NEW v PROVE The({v}) = v /\ {v} # Absent
  BY DEF The, Absent

\* A node is absent when its key is.
LEMMA NodeAbsent == ASSUME NEW map, NEW k PROVE Node(map, k) = Absent <=> k \notin DOMAIN map
  BY DEF Node, Absent

\* What mergeRecordMap makes of one key.
Merged(b, l, r, k) == MergeNode(Node(b, k), Node(l, k), Node(r, k))

\* A key is in the merge if its node is there, with the value of that node.
LEMMA MergedKeys ==
  ASSUME NEW b, NEW l, NEW r
  PROVE  /\ DOMAIN MergeMap(b, l, r) = {k \in DOMAIN l \cup DOMAIN r : Merged(b, l, r, k) # Absent}
         /\ \A k \in DOMAIN MergeMap(b, l, r) : MergeMap(b, l, r)[k] = The(Merged(b, l, r, k))
<1> DEFINE nodes == [k \in DOMAIN l \cup DOMAIN r |-> Merged(b, l, r, k)]
<1>1. MergeMap(b, l, r) = Present(nodes)
  BY DEF MergeMap, Merged
<1>2. DOMAIN nodes = DOMAIN l \cup DOMAIN r /\ \A k \in DOMAIN l \cup DOMAIN r : nodes[k] = Merged(b, l, r, k)
  OBVIOUS
<1> HIDE DEF nodes
<1> QED
  BY <1>1, <1>2 DEF Present

(* mergeAtomicDatasetNode, "deletion wins": a record the tab knew is in the   *)
(* merge only if both the tab and the row still have it, and a record the tab *)
(* did not know is in it if either has it.                                   *)
THEOREM DeletionWins ==
  ASSUME NEW b, NEW l, NEW r, NEW k
  PROVE  k \in DOMAIN MergeMap(b, l, r) <=>
           IF k \in DOMAIN b THEN k \in DOMAIN l /\ k \in DOMAIN r
           ELSE k \in DOMAIN l \/ k \in DOMAIN r
<1>1. DOMAIN MergeMap(b, l, r) = {x \in DOMAIN l \cup DOMAIN r : Merged(b, l, r, x) # Absent}
  BY MergedKeys
<1>2. k \in DOMAIN MergeMap(b, l, r) <=> k \in DOMAIN l \cup DOMAIN r /\ Merged(b, l, r, k) # Absent
  BY <1>1
<1>3. /\ Node(b, k) = Absent <=> k \notin DOMAIN b
      /\ Node(l, k) = Absent <=> k \notin DOMAIN l
      /\ Node(r, k) = Absent <=> k \notin DOMAIN r
  BY NodeAbsent
<1> QED
  BY <1>2, <1>3 DEF Merged, MergeNode

(* mergeAtomicDatasetNode, "a true conflict is local-wins": a record that the *)
(* tab changed or added is the tab's, any other is the row's, and nothing is  *)
(* made up.                                                                  *)
THEOREM ChangesWin ==
  ASSUME NEW b, NEW l, NEW r, NEW k \in DOMAIN MergeMap(b, l, r)
  PROVE  MergeMap(b, l, r)[k] =
           IF k \in DOMAIN l /\ (k \in DOMAIN b => l[k] # b[k]) THEN l[k] ELSE r[k]
<1>1. /\ k \in DOMAIN l \cup DOMAIN r
      /\ k \in DOMAIN b => k \in DOMAIN l /\ k \in DOMAIN r
  BY DeletionWins
<1>2. MergeMap(b, l, r)[k] = The(Merged(b, l, r, k))
  BY MergedKeys
<1>3. CASE k \in DOMAIN b
  <2>1. Node(b, k) = {b[k]} /\ Node(l, k) = {l[k]} /\ Node(r, k) = {r[k]}
    BY <1>1, <1>3 DEF Node
  <2>2. Merged(b, l, r, k) = IF l[k] = b[k] THEN {r[k]} ELSE {l[k]}
    BY <2>1 DEF Merged, MergeNode, Absent
  <2> QED
    BY <1>1, <1>2, <1>3, <2>2, TheNode
<1>4. CASE k \notin DOMAIN b
  <2>1. Merged(b, l, r, k) = IF k \in DOMAIN l THEN {l[k]} ELSE {r[k]}
    BY <1>1, <1>4 DEF Merged, MergeNode, Node, Absent
  <2> QED
    BY <1>2, <1>4, <2>1, TheNode
<1> QED
  BY <1>3, <1>4

(* A tab that changed nothing since it read the row adopts the row: no key of *)
(* another tab is lost and no deletion of another tab is undone.             *)
THEOREM UnchangedFollows ==
  ASSUME NEW b, NEW r
  PROVE  /\ DOMAIN MergeMap(b, b, r) = DOMAIN r
         /\ \A k \in DOMAIN r : MergeMap(b, b, r)[k] = r[k]
<1>1. \A k : k \in DOMAIN MergeMap(b, b, r) <=> k \in DOMAIN r
  <2> TAKE k
  <2> QED
    BY DeletionWins
<1>2. DOMAIN MergeMap(b, b, r) = DOMAIN r
  BY <1>1
<1>3. ASSUME NEW k \in DOMAIN r PROVE MergeMap(b, b, r)[k] = r[k]
  <2>1. k \in DOMAIN MergeMap(b, b, r)
    BY <1>2
  <2> QED
    BY <2>1, ChangesWin
<1> QED
  BY <1>2, <1>3

-----------------------------------------------------------------------------
(* The invariant. *)

\* What a value looks like whose ids were given up to the last one.
Fits(s, last) == /\ IsRow(name, s)
                 /\ s.active \in 1 .. last \cup {None}
                 /\ \A x \in Slots(s) : x[2] \in 1 .. last

IsSeq(s) == s \in Seq({s[i] : i \in DOMAIN s})

QueuesFit ==
  /\ DOMAIN store = Tabs /\ DOMAIN base = Tabs /\ DOMAIN pending = Tabs
  /\ failed \in [Tabs -> BOOLEAN]
  /\ \A t \in Tabs : IsSeq(pending[t])
  /\ name \in Names /\ minted \in Nat

(* A tab's versions of the row: what it knows is saved, what it has queued,  *)
(* and what it shows.                                                        *)
Version(t, i) == IF i = 0 THEN base[t] ELSE IF i <= Len(pending[t]) THEN pending[t][i] ELSE store[t]
Versions(t) == 0 .. Len(pending[t]) + 1

\* What was removed, or was in a thread that was.
WasRemoved(gone, x) == x \in gone \/ <<None, x[1]>> \in gone

ValuesFit == Fits(row, minted) /\ \A t \in Tabs : \A i \in Versions(t) : Fits(Version(t, i), minted)

\* The last queued write has what the tab shows; with none queued and none
\* failed that is what it knows is saved.
LastIsShown ==
  \A t \in Tabs : IF pending[t] # <<>> THEN pending[t][Len(pending[t])] = store[t]
                 ELSE ~failed[t] => base[t] = store[t]

\* From one value to a later one, what went was removed.
Follows(gone, s, u) == /\ \A x \in Slots(s) \ Slots(u) : WasRemoved(gone, x)
                       /\ \A k \in DOMAIN s.lists \ DOMAIN u.lists : <<None, k>> \in gone

\* Along a tab's versions what went was removed, and does not come back.
NothingReturns ==
  \A t \in Tabs : \A i, j \in Versions(t) : i < j =>
    /\ Follows(removed, Version(t, i), Version(t, j))
    /\ \A k \in Versions(t) : j < k => Slots(Version(t, i)) \cap Slots(Version(t, k)) \subseteq Slots(Version(t, j))

\* What a tab has not yet saved was never in the row.
NewIsUnsaved ==
  \A t \in Tabs : \A i \in Versions(t) : (Slots(Version(t, i)) \ Slots(base[t])) \cap saved = {}

\* What was never in the row is in one tab only.
UnsavedIsOnes ==
  \A t, u \in Tabs : t # u =>
    \A i \in Versions(t), j \in Versions(u) : Slots(Version(t, i)) \cap Slots(Version(u, j)) \subseteq saved

HistoryFits == Slots(row) \subseteq saved /\ \A x \in saved \cup removed : x[2] \in 1 .. minted

\* The persons a tab is adding or has given up.
Own(t) == ({staged[t].id} \ {None}) \cup DOMAIN discards[t] \cup reported[t]

\* A tab has such a person in a version only when it knew it.
OnlyKnown(u, p) == \A i \in Versions(u) : <<None, p>> \in Slots(Version(u, i)) => <<None, p>> \in Slots(base[u])

RollbacksFit ==
  /\ DOMAIN staged = Tabs /\ DOMAIN discards = Tabs /\ DOMAIN reported = Tabs
  /\ moves \in 0 .. MaxMoves /\ failures \in 0 .. MaxFailures
  /\ \A t \in Tabs :
       /\ staged[t] = Nothing \/ staged[t].id \in 1 .. minted
       /\ \A p \in DOMAIN discards[t] : /\ discards[t][p] \in [wait : BOOLEAN, left : 0 .. MaxRetries]
                                        /\ discards[t][p].wait => discards[t][p].left > 0
       /\ \A p \in DOMAIN discards[t] \cup reported[t] :
            p \in 1 .. minted /\ <<None, p>> \in removed /\ <<None, p>> \notin Slots(store[t])

OwnIsUnknown ==
  \A t \in Tabs : \A p \in Own(t) :
    /\ \A u \in Tabs \ {t} : OnlyKnown(u, p)
    /\ <<None, p>> \in Slots(row) => <<None, p>> \in Slots(base[t])

\* A person whose rollback held is gone, and no tab's write can bring it back.
UndoneIsGone == \A p \in undone : /\ p \in 1 .. minted /\ <<None, p>> \notin Slots(row)
                                 /\ \A u \in Tabs : OnlyKnown(u, p)

VersionsInv == /\ QueuesFit /\ ValuesFit /\ LastIsShown /\ NothingReturns
               /\ NewIsUnsaved /\ UnsavedIsOnes /\ HistoryFits
TasksInv == RollbacksFit /\ OwnIsUnknown /\ UndoneIsGone
RowsInv == VersionsInv /\ TasksInv

-----------------------------------------------------------------------------
(* Slots, and what a merge does to them. *)

\* The code's first of some ids is one of them.
LEMMA OnlyIn ==
  ASSUME NEW ids \in SUBSET Nat, ids # {}
  PROVE  Only(ids) \in ids
<1> DEFINE upTo == {1 .. n : n \in ids}
<1>a. \A n \in ids : 1 .. n \in SUBSET Nat /\ IsFiniteSet(1 .. n)
  BY FS_Interval
<1>b. upTo \subseteq FiniteSubsetsOf(Nat) /\ upTo # {}
  BY <1>a DEF FiniteSubsetsOf
<1>c. PICK u \in upTo : \A v \in upTo : ~(<<v, u>> \in StrictSubsetOrdering(Nat))
  <2> HIDE DEF upTo
  <2>1. IsWellFoundedOn(StrictSubsetOrdering(Nat), FiniteSubsetsOf(Nat))
    BY FS_StrictSubsetOrderingWellFounded
  <2> QED
    BY <1>b, <2>1, WFMin
<1>1. PICK x \in ids : u = 1 .. x
  BY <1>c
<1>2. \A y \in ids : x <= y
  <2> SUFFICES ASSUME NEW y \in ids, y < x PROVE FALSE
    OBVIOUS
  <2>1. 1 .. y \subseteq 1 .. x /\ x \in 1 .. x /\ x \notin 1 .. y
    OBVIOUS
  <2>2. 1 .. y # 1 .. x
    BY <2>1
  <2>3. <<1 .. y, 1 .. x>> \in StrictSubsetOrdering(Nat)
    BY <1>a, <2>1, <2>2 DEF StrictSubsetOrdering
  <2> QED
    BY <1>c, <1>1, <2>3
<1>3. Min(ids) \in ids
  BY <1>1, <1>2 DEF Min
<1> QED
  BY <1>3 DEF Only

\* The code's first of some ids is one of them, or none when there are none.
LEMMA OnlyOne ==
  ASSUME NEW ids \in SUBSET Nat
  PROVE  Only(ids) \in ids \cup {None}
<1>1. CASE ids = {}
  BY <1>1 DEF Only
<1>2. CASE ids # {}
  BY <1>2, OnlyIn
<1> QED
  BY <1>1, <1>2

\* A slot is a record of the row or an element of one of its lists.
LEMMA SlotIs ==
  ASSUME NEW s, NEW x
  PROVE  x \in Slots(s) <=> \/ \E k \in DOMAIN s.entries : x = <<None, k>>
                            \/ \E k \in DOMAIN s.lists : \E i \in DOMAIN s.lists[k] : x = <<k, i>>
  BY DEF Slots

\* A record's slot is there when the record is.
LEMMA EntrySlot ==
  ASSUME NEW s, None \notin DOMAIN s.lists, NEW k
  PROVE  <<None, k>> \in Slots(s) <=> k \in DOMAIN s.entries
  BY SlotIs

\* A list element's slot is there when its list is and has the element.
LEMMA ListSlot ==
  ASSUME NEW s, NEW k, NEW i, k # None
  PROVE  <<k, i>> \in Slots(s) <=> k \in DOMAIN s.lists /\ i \in DOMAIN s.lists[k]
  BY SlotIs

\* What fits has records and lists whose ids were given.
LEMMA FitsParts ==
  ASSUME NEW last \in Nat, NEW s, Fits(s, last)
  PROVE  /\ s = [entries |-> s.entries, lists |-> s.lists, active |-> s.active]
         /\ None \notin DOMAIN s.lists
         /\ DOMAIN s.entries \subseteq 1 .. last
         /\ \A k \in DOMAIN s.lists : DOMAIN s.lists[k] \subseteq 1 .. last
         /\ name = "chat" => DOMAIN s.lists \subseteq DOMAIN s.entries
         /\ name # "chat" => DOMAIN s.lists \subseteq Owners
<1>1. \A k \in DOMAIN s.entries : <<None, k>> \in Slots(s)
  BY SlotIs
<1>2. DOMAIN s.entries \subseteq 1 .. last
  BY <1>1 DEF Fits
<1>3. None \notin 1 .. last /\ None \notin Owners
  BY InheritedAssumption
<1>4. \A k \in DOMAIN s.lists : \A i \in DOMAIN s.lists[k] : <<k, i>> \in Slots(s)
  BY SlotIs
<1> QED
  BY <1>2, <1>3, <1>4 DEF Fits, IsRow

\* What fits still fits when more ids have been given.
LEMMA FitsLater ==
  ASSUME NEW last \in Nat, NEW later \in Nat, last <= later, NEW s, Fits(s, last)
  PROVE  Fits(s, later)
<1>1. \A i \in 1 .. last : i \in 1 .. later
  OBVIOUS
<1> QED
  BY <1>1 DEF Fits

\* The lists of a merge: a list both sides and the tab's knowledge have is merged
\* by id, a list the tab did not know is the tab's or else the row's.
LEMMA MergedLists ==
  ASSUME NEW b, NEW l, NEW r
  PROVE  LET m == MergeLists(b, l, r)
         IN \A k : /\ k \in DOMAIN m <=> IF k \in DOMAIN b THEN k \in DOMAIN l /\ k \in DOMAIN r
                                         ELSE k \in DOMAIN l \/ k \in DOMAIN r
                   /\ k \in DOMAIN m => m[k] = IF k \in DOMAIN b THEN MergeMap(b[k], l[k], r[k])
                                               ELSE IF k \in DOMAIN l THEN l[k] ELSE r[k]
<1> DEFINE made(k) == MergeList(Node(b, k), Node(l, k), Node(r, k))
           nodes == [k \in DOMAIN l \cup DOMAIN r |-> made(k)]
           m == MergeLists(b, l, r)
<1>1. m = Present(nodes)
  BY DEF MergeLists
<1>2. DOMAIN nodes = DOMAIN l \cup DOMAIN r /\ \A k \in DOMAIN l \cup DOMAIN r : nodes[k] = made(k)
  OBVIOUS
<1> HIDE DEF nodes
<1>3. /\ DOMAIN m = {k \in DOMAIN l \cup DOMAIN r : made(k) # Absent}
      /\ \A k \in DOMAIN m : m[k] = The(made(k))
  BY <1>1, <1>2 DEF Present
<1> HIDE DEF m
<1>4. ASSUME NEW k
      PROVE  made(k) = IF k \in DOMAIN b
                       THEN IF k \in DOMAIN l /\ k \in DOMAIN r THEN {MergeMap(b[k], l[k], r[k])} ELSE Absent
                       ELSE IF k \in DOMAIN l THEN {l[k]} ELSE IF k \in DOMAIN r THEN {r[k]} ELSE Absent
  <2>1. /\ k \notin DOMAIN b => Node(b, k) = Absent
        /\ k \notin DOMAIN l => Node(l, k) = Absent
        /\ k \notin DOMAIN r => Node(r, k) = Absent
        /\ k \in DOMAIN b => Node(b, k) = {b[k]} /\ Node(b, k) # Absent
        /\ k \in DOMAIN l => Node(l, k) = {l[k]} /\ Node(l, k) # Absent
        /\ k \in DOMAIN r => Node(r, k) = {r[k]} /\ Node(r, k) # Absent
    BY DEF Node, Absent
  <2>2. CASE k \in DOMAIN b /\ k \in DOMAIN l /\ k \in DOMAIN r
    <3>1. made(k) = {MergeMap(The({b[k]}), The({l[k]}), The({r[k]}))}
      BY <2>1, <2>2 DEF MergeList
    <3>2. The({b[k]}) = b[k] /\ The({l[k]}) = l[k] /\ The({r[k]}) = r[k]
      BY TheNode
    <3> QED
      BY <2>2, <3>1, <3>2
  <2>3. CASE ~(k \in DOMAIN b /\ k \in DOMAIN l /\ k \in DOMAIN r)
    <3>1. made(k) = MergeNode(Node(b, k), Node(l, k), Node(r, k))
      BY <2>1, <2>3 DEF MergeList
    <3> QED
      BY <2>1, <2>3, <3>1 DEF MergeNode
  <2> QED
    BY <2>2, <2>3
<1> HIDE DEF made
<1>5. \A v : The({v}) = v /\ {v} # Absent
  BY TheNode
<1>6. ASSUME NEW k
      PROVE  /\ k \in DOMAIN m <=> IF k \in DOMAIN b THEN k \in DOMAIN l /\ k \in DOMAIN r
                                   ELSE k \in DOMAIN l \/ k \in DOMAIN r
             /\ k \in DOMAIN m => m[k] = IF k \in DOMAIN b THEN MergeMap(b[k], l[k], r[k])
                                         ELSE IF k \in DOMAIN l THEN l[k] ELSE r[k]
  <2>1. k \in DOMAIN m <=> k \in DOMAIN l \cup DOMAIN r /\ made(k) # Absent
    BY <1>3
  <2>2. k \in DOMAIN m => m[k] = The(made(k))
    BY <1>3
  <2>3. ASSUME NEW v, made(k) = {v} PROVE made(k) # Absent /\ The(made(k)) = v
    BY <1>5, <2>3
  <2>4. CASE k \in DOMAIN b /\ k \in DOMAIN l /\ k \in DOMAIN r
    <3>1. made(k) = {MergeMap(b[k], l[k], r[k])}
      BY <1>4, <2>4
    <3> QED
      BY <2>1, <2>2, <2>3, <2>4, <3>1
  <2>5. CASE k \notin DOMAIN b /\ k \in DOMAIN l
    <3>1. made(k) = {l[k]}
      BY <1>4, <2>5
    <3> QED
      BY <2>1, <2>2, <2>3, <2>5, <3>1
  <2>6. CASE k \notin DOMAIN b /\ k \notin DOMAIN l /\ k \in DOMAIN r
    <3>1. made(k) = {r[k]}
      BY <1>4, <2>6
    <3> QED
      BY <2>1, <2>2, <2>3, <2>6, <3>1
  <2>7. CASE \/ k \in DOMAIN b /\ ~(k \in DOMAIN l /\ k \in DOMAIN r)
             \/ k \notin DOMAIN b /\ k \notin DOMAIN l /\ k \notin DOMAIN r
    <3>1. made(k) = Absent
      BY <1>4, <2>7
    <3> QED
      BY <2>1, <2>7, <3>1
  <2> QED
    BY <2>4, <2>5, <2>6, <2>7
<1> QED
  BY <1>6 DEF m

\* A side of a merge is read as it is, but for its active person.
LEMMA SanitizedSide ==
  ASSUME NEW last \in Nat, NEW s, Fits(s, last)
  PROVE  /\ Sanitize(name, s).entries = s.entries
         /\ DOMAIN Sanitize(name, s).lists = DOMAIN s.lists
         /\ \A k \in DOMAIN s.lists : Sanitize(name, s).lists[k] = s.lists[k]
         /\ Sanitize(name, s).active \in 1 .. last \cup {None}
<1>1. /\ s = [entries |-> s.entries, lists |-> s.lists, active |-> s.active]
      /\ DOMAIN s.entries \subseteq 1 .. last
      /\ name = "chat" => DOMAIN s.lists \subseteq DOMAIN s.entries
      /\ s.active \in 1 .. last \cup {None}
  BY FitsParts DEF Fits
<1>2. Only(DOMAIN s.entries) \in 1 .. last \cup {None}
  <2>1. DOMAIN s.entries \in SUBSET Nat
    BY <1>1
  <2> QED
    BY <1>1, <2>1, OnlyOne
<1>3. CASE name = "people"
  <2>1. Sanitize(name, s) = [s EXCEPT !.active = IF @ \in DOMAIN s.entries THEN @ ELSE Only(DOMAIN s.entries)]
    BY <1>3 DEF Sanitize
  <2> QED
    BY <1>1, <1>2, <2>1
<1>4. CASE name = "chat"
  <2>1. Sanitize(name, s) = [s EXCEPT !.lists = Restrict(@, DOMAIN @ \cap DOMAIN s.entries)]
    BY <1>4 DEF Sanitize
  <2> QED
    BY <1>1, <1>4, <2>1 DEF Restrict
<1>5. CASE name # "people" /\ name # "chat"
  BY <1>1, <1>5 DEF Sanitize
<1> QED
  BY <1>3, <1>4, <1>5

\* Normalising changes no record's place, no list, and not who is active.
LEMMA NormalizedPlaces ==
  ASSUME NEW b, NEW l, NEW r, NEW e, NEW s, NEW a
  PROVE  LET m == Normalize(name, b, l, r, [entries |-> e, lists |-> s, active |-> a])
         IN /\ m = [entries |-> m.entries, lists |-> s, active |-> a]
            /\ DOMAIN m.entries = DOMAIN e
<1> DEFINE q == [entries |-> e, lists |-> s, active |-> a]
           m == Normalize(name, b, l, r, q)
<1>1. CASE name = "people"
  <2>1. m = [q EXCEPT !.entries = NormalizeProfiles(b.entries, l.entries, r.entries, e)]
    BY <1>1 DEF Normalize
  <2>2. DOMAIN NormalizeProfiles(b.entries, l.entries, r.entries, e) = DOMAIN e
    BY DEF NormalizeProfiles
  <2> QED
    BY <2>1, <2>2
<1>2. CASE name = "charts"
  <2>1. m = [q EXCEPT !.entries = NormalizeCharts(b.entries, l.entries, r.entries, e)]
    BY <1>2 DEF Normalize
  <2>2. DOMAIN NormalizeCharts(b.entries, l.entries, r.entries, e) = DOMAIN e
    BY DEF NormalizeCharts
  <2> QED
    BY <2>1, <2>2
<1>3. CASE name = "chat"
  <2>1. m = [q EXCEPT !.entries = Counted(e, s)]
    BY <1>3 DEF Normalize
  <2>2. DOMAIN Counted(e, s) = DOMAIN e
    BY DEF Counted
  <2> QED
    BY <2>1, <2>2
<1>4. CASE name # "people" /\ name # "charts" /\ name # "chat"
  BY <1>4 DEF Normalize
<1> QED
  BY <1>1, <1>2, <1>3, <1>4

\* Which records and lists a row has after a write, and what a list holds.
LEMMA MergedRow ==
  ASSUME NEW last \in Nat, NEW b, NEW l, NEW r, Fits(b, last), Fits(l, last), Fits(r, last)
  PROVE  LET m == MergePersisted(name, b, l, r)
         IN /\ m = [entries |-> m.entries, lists |-> m.lists, active |-> m.active]
            /\ \A k : k \in DOMAIN m.entries <=>
                         IF k \in DOMAIN b.entries THEN k \in DOMAIN l.entries /\ k \in DOMAIN r.entries
                         ELSE k \in DOMAIN l.entries \/ k \in DOMAIN r.entries
            /\ \A k : k \in DOMAIN m.lists <=>
                         /\ IF k \in DOMAIN b.lists THEN k \in DOMAIN l.lists /\ k \in DOMAIN r.lists
                            ELSE k \in DOMAIN l.lists \/ k \in DOMAIN r.lists
                         /\ name = "chat" => k \in DOMAIN m.entries
            /\ \A k \in DOMAIN m.lists :
                 m.lists[k] = IF k \in DOMAIN b.lists THEN MergeMap(b.lists[k], l.lists[k], r.lists[k])
                              ELSE IF k \in DOMAIN l.lists THEN l.lists[k] ELSE r.lists[k]
            /\ m.active \in 1 .. last \cup {None}
<1> DEFINE B == Sanitize(name, b)
           L == Sanitize(name, l)
           R == Sanitize(name, r)
           e == MergeMap(B.entries, L.entries, R.entries)
           s == MergeLists(B.lists, L.lists, R.lists)
           a == The(MergeNode({B.active}, {L.active}, {R.active}))
           q == Normalize(name, B, L, R, [entries |-> e, lists |-> s, active |-> a])
           m == MergePersisted(name, b, l, r)
<1>1. /\ B.entries = b.entries /\ L.entries = l.entries /\ R.entries = r.entries
      /\ DOMAIN B.lists = DOMAIN b.lists /\ DOMAIN L.lists = DOMAIN l.lists
      /\ DOMAIN R.lists = DOMAIN r.lists
      /\ \A k \in DOMAIN b.lists : B.lists[k] = b.lists[k]
      /\ \A k \in DOMAIN l.lists : L.lists[k] = l.lists[k]
      /\ \A k \in DOMAIN r.lists : R.lists[k] = r.lists[k]
      /\ L.active \in 1 .. last \cup {None} /\ R.active \in 1 .. last \cup {None}
  BY SanitizedSide
<1>2. m = Sanitize(name, q)
  BY DEF MergePersisted, MergeState
<1>3. q = [entries |-> q.entries, lists |-> s, active |-> a] /\ DOMAIN q.entries = DOMAIN e
  BY NormalizedPlaces
<1>4. a \in 1 .. last \cup {None}
  <2>1. MergeNode({B.active}, {L.active}, {R.active}) \in {{L.active}, {R.active}}
    BY DEF MergeNode, Absent
  <2>2. a \in {L.active, R.active}
    BY <2>1, TheNode
  <2> QED
    BY <1>1, <2>2
<1>5. \A k : k \in DOMAIN e <=>
               IF k \in DOMAIN b.entries THEN k \in DOMAIN l.entries /\ k \in DOMAIN r.entries
               ELSE k \in DOMAIN l.entries \/ k \in DOMAIN r.entries
  <2> TAKE k
  <2>1. e = MergeMap(b.entries, l.entries, r.entries)
    BY <1>1
  <2> QED
    BY <2>1, DeletionWins
<1>6. \A k : /\ k \in DOMAIN s <=> IF k \in DOMAIN b.lists THEN k \in DOMAIN l.lists /\ k \in DOMAIN r.lists
                                   ELSE k \in DOMAIN l.lists \/ k \in DOMAIN r.lists
             /\ k \in DOMAIN s =>
                  s[k] = IF k \in DOMAIN b.lists THEN MergeMap(b.lists[k], l.lists[k], r.lists[k])
                         ELSE IF k \in DOMAIN l.lists THEN l.lists[k] ELSE r.lists[k]
  <2> TAKE k
  <2> HIDE DEF B, L, R
  <2>1. /\ k \in DOMAIN s <=> IF k \in DOMAIN B.lists THEN k \in DOMAIN L.lists /\ k \in DOMAIN R.lists
                              ELSE k \in DOMAIN L.lists \/ k \in DOMAIN R.lists
        /\ k \in DOMAIN s => s[k] = IF k \in DOMAIN B.lists THEN MergeMap(B.lists[k], L.lists[k], R.lists[k])
                                    ELSE IF k \in DOMAIN L.lists THEN L.lists[k] ELSE R.lists[k]
    BY MergedLists
  <2> HIDE DEF s
  <2>2. CASE k \in DOMAIN b.lists /\ k \in DOMAIN l.lists /\ k \in DOMAIN r.lists
    <3>1. B.lists[k] = b.lists[k] /\ L.lists[k] = l.lists[k] /\ R.lists[k] = r.lists[k]
      BY <1>1, <2>2
    <3> QED
      BY <1>1, <2>1, <2>2, <3>1
  <2>3. CASE ~(k \in DOMAIN b.lists /\ k \in DOMAIN l.lists /\ k \in DOMAIN r.lists)
    BY <1>1, <2>1, <2>3
  <2> QED
    BY <2>2, <2>3
<1> HIDE DEF e, s, a, q
<1>7. DOMAIN e \subseteq 1 .. last
  <2>1. DOMAIN l.entries \subseteq 1 .. last /\ DOMAIN r.entries \subseteq 1 .. last
    BY FitsParts
  <2> QED
    BY <1>5, <2>1
<1>8. /\ m.entries = q.entries /\ m = [entries |-> m.entries, lists |-> m.lists, active |-> m.active]
      /\ DOMAIN m.lists = {k \in DOMAIN s : name = "chat" => k \in DOMAIN q.entries}
      /\ \A k \in DOMAIN m.lists : m.lists[k] = s[k]
      /\ m.active \in 1 .. last \cup {None}
  <2>1. CASE name = "people"
    <3>1. m = [q EXCEPT !.active = IF @ \in DOMAIN q.entries THEN @ ELSE Only(DOMAIN q.entries)]
      BY <1>2, <2>1 DEF Sanitize
    <3>2. DOMAIN q.entries \in SUBSET Nat
      BY <1>3, <1>7
    <3>3. Only(DOMAIN q.entries) \in 1 .. last \cup {None}
      BY <1>3, <1>7, <3>2, OnlyOne
    <3> HIDE DEF m
    <3> QED
      BY <1>3, <1>4, <2>1, <3>1, <3>3
  <2>2. CASE name = "chat"
    <3>1. m = [q EXCEPT !.lists = Restrict(@, DOMAIN @ \cap DOMAIN q.entries)]
      BY <1>2, <2>2 DEF Sanitize
    <3> HIDE DEF m
    <3>2. m.lists = Restrict(s, DOMAIN s \cap DOMAIN q.entries)
      BY <1>3, <3>1
    <3> QED
      BY <1>3, <1>4, <2>2, <3>1, <3>2 DEF Restrict
  <2>3. CASE name # "people" /\ name # "chat"
    BY <1>2, <1>3, <1>4, <2>3 DEF Sanitize
  <2> QED
    BY <2>1, <2>2, <2>3
<1> HIDE DEF m
<1> QED
  <2>1. \A k : k \in DOMAIN m.entries <=>
                 IF k \in DOMAIN b.entries THEN k \in DOMAIN l.entries /\ k \in DOMAIN r.entries
                 ELSE k \in DOMAIN l.entries \/ k \in DOMAIN r.entries
    BY <1>3, <1>5, <1>8
  <2>2. \A k : k \in DOMAIN m.lists <=>
                 /\ IF k \in DOMAIN b.lists THEN k \in DOMAIN l.lists /\ k \in DOMAIN r.lists
                    ELSE k \in DOMAIN l.lists \/ k \in DOMAIN r.lists
                 /\ name = "chat" => k \in DOMAIN m.entries
    BY <1>6, <1>8
  <2>3. \A k \in DOMAIN m.lists :
          m.lists[k] = IF k \in DOMAIN b.lists THEN MergeMap(b.lists[k], l.lists[k], r.lists[k])
                       ELSE IF k \in DOMAIN l.lists THEN l.lists[k] ELSE r.lists[k]
    BY <1>6, <1>8
  <2> QED
    BY <1>8, <2>1, <2>2, <2>3 DEF m

\* A write adds to the row only what its tab added, and takes away only what its
\* tab took away, or a list its tab did not know, or what was in a thread that went.
LEMMA MergedSlots ==
  ASSUME NEW last \in Nat, NEW b, NEW l, NEW r, Fits(b, last), Fits(l, last), Fits(r, last)
  PROVE  LET m == MergePersisted(name, b, l, r)
         IN /\ Fits(m, last)
            /\ \A x \in Slots(m) : x \in Slots(r) \/ (x \in Slots(l) /\ x \notin Slots(b))
            /\ \A x \in Slots(r) \ Slots(m) :
                 \/ x \in Slots(b) \ Slots(l)
                 \/ x[1] \in FirstLists(b.lists, l.lists, r.lists) /\ x \notin Slots(l)
                 \/ <<None, x[1]>> \in Slots(b) \ Slots(l)
                 \/ x[1] \in DOMAIN b.lists \ DOMAIN l.lists
            /\ \A x \in Slots(b) \ Slots(l) : x[1] = None => x \notin Slots(m)
<1> DEFINE m == MergePersisted(name, b, l, r)
<1>1. /\ m = [entries |-> m.entries, lists |-> m.lists, active |-> m.active]
      /\ \A k : k \in DOMAIN m.entries <=>
                  IF k \in DOMAIN b.entries THEN k \in DOMAIN l.entries /\ k \in DOMAIN r.entries
                  ELSE k \in DOMAIN l.entries \/ k \in DOMAIN r.entries
      /\ \A k : k \in DOMAIN m.lists <=>
                  /\ IF k \in DOMAIN b.lists THEN k \in DOMAIN l.lists /\ k \in DOMAIN r.lists
                     ELSE k \in DOMAIN l.lists \/ k \in DOMAIN r.lists
                  /\ name = "chat" => k \in DOMAIN m.entries
      /\ \A k \in DOMAIN m.lists :
           m.lists[k] = IF k \in DOMAIN b.lists THEN MergeMap(b.lists[k], l.lists[k], r.lists[k])
                        ELSE IF k \in DOMAIN l.lists THEN l.lists[k] ELSE r.lists[k]
      /\ m.active \in 1 .. last \cup {None}
  BY MergedRow
<1> HIDE DEF m
<1>2. \A k, i : k \in DOMAIN b.lists =>
        (i \in DOMAIN MergeMap(b.lists[k], l.lists[k], r.lists[k]) <=>
           IF i \in DOMAIN b.lists[k] THEN i \in DOMAIN l.lists[k] /\ i \in DOMAIN r.lists[k]
           ELSE i \in DOMAIN l.lists[k] \/ i \in DOMAIN r.lists[k])
  BY DeletionWins
<1>3. /\ None \notin DOMAIN b.lists /\ None \notin DOMAIN l.lists /\ None \notin DOMAIN r.lists
      /\ name = "chat" => DOMAIN r.lists \subseteq DOMAIN r.entries
      /\ name # "chat" => DOMAIN l.lists \subseteq Owners /\ DOMAIN r.lists \subseteq Owners
  BY FitsParts
<1>4. None \notin DOMAIN m.lists
  BY <1>1, <1>3
<1>5. /\ \A k : <<None, k>> \in Slots(b) <=> k \in DOMAIN b.entries
      /\ \A k : <<None, k>> \in Slots(l) <=> k \in DOMAIN l.entries
      /\ \A k : <<None, k>> \in Slots(r) <=> k \in DOMAIN r.entries
      /\ \A k : <<None, k>> \in Slots(m) <=> k \in DOMAIN m.entries
  BY <1>3, <1>4, EntrySlot
<1>6. /\ \A k, i : k # None => (<<k, i>> \in Slots(b) <=> k \in DOMAIN b.lists /\ i \in DOMAIN b.lists[k])
      /\ \A k, i : k # None => (<<k, i>> \in Slots(l) <=> k \in DOMAIN l.lists /\ i \in DOMAIN l.lists[k])
      /\ \A k, i : k # None => (<<k, i>> \in Slots(r) <=> k \in DOMAIN r.lists /\ i \in DOMAIN r.lists[k])
      /\ \A k, i : k # None => (<<k, i>> \in Slots(m) <=> k \in DOMAIN m.lists /\ i \in DOMAIN m.lists[k])
  BY ListSlot
<1>7. \A s, x : x \in Slots(s) => \E k, i : x = <<k, i>> /\ x[1] = k
  <2> TAKE s, x
  <2> QED
    BY SlotIs
<1>8. ASSUME NEW x \in Slots(m)
      PROVE  x \in Slots(r) \/ (x \in Slots(l) /\ x \notin Slots(b))
  <2>1. PICK k, i : x = <<k, i>>
    BY <1>7
  <2>2. CASE k = None
    BY <1>1, <1>5, <2>1, <2>2
  <2>3. CASE k # None
    <3>1. k \in DOMAIN m.lists /\ i \in DOMAIN m.lists[k]
      BY <1>6, <2>1, <2>3
    <3>2. CASE k \in DOMAIN b.lists
      <4>1. k \in DOMAIN l.lists /\ k \in DOMAIN r.lists
            /\ m.lists[k] = MergeMap(b.lists[k], l.lists[k], r.lists[k])
        BY <1>1, <3>1, <3>2
      <4> QED
        BY <1>2, <1>6, <2>1, <2>3, <3>1, <3>2, <4>1
    <3>3. CASE k \notin DOMAIN b.lists
      <4>1. IF k \in DOMAIN l.lists THEN m.lists[k] = l.lists[k]
            ELSE k \in DOMAIN r.lists /\ m.lists[k] = r.lists[k]
        BY <1>1, <3>1, <3>3
      <4> QED
        BY <1>6, <2>1, <2>3, <3>1, <3>3, <4>1
    <3> QED
      BY <3>2, <3>3
  <2> QED
    BY <2>2, <2>3
<1>9. ASSUME NEW x \in Slots(r) \ Slots(m)
      PROVE  \/ x \in Slots(b) \ Slots(l)
             \/ x[1] \in FirstLists(b.lists, l.lists, r.lists) /\ x \notin Slots(l)
             \/ <<None, x[1]>> \in Slots(b) \ Slots(l)
             \/ x[1] \in DOMAIN b.lists \ DOMAIN l.lists
  <2>1. PICK k, i : x = <<k, i>> /\ x[1] = k
    BY <1>7
  <2>2. CASE k = None
    BY <1>1, <1>5, <2>1, <2>2
  <2>3. CASE k # None
    <3>1. k \in DOMAIN r.lists /\ i \in DOMAIN r.lists[k]
      BY <1>6, <2>1, <2>3
    <3>2. CASE k \notin DOMAIN m.lists
      <4>1. CASE k \in DOMAIN b.lists /\ k \notin DOMAIN l.lists
        BY <2>1, <4>1
      <4>2. CASE name = "chat" /\ k \notin DOMAIN m.entries
        BY <1>1, <1>3, <1>5, <2>1, <3>1, <4>2
      <4> QED
        BY <1>1, <3>1, <3>2, <4>1, <4>2
    <3>3. CASE k \in DOMAIN m.lists
      <4>1. i \notin DOMAIN m.lists[k]
        BY <1>6, <2>1, <2>3, <3>3
      <4>2. CASE k \in DOMAIN b.lists
        <5>1. k \in DOMAIN l.lists /\ m.lists[k] = MergeMap(b.lists[k], l.lists[k], r.lists[k])
          BY <1>1, <3>3, <4>2
        <5>2. i \in DOMAIN b.lists[k] /\ i \notin DOMAIN l.lists[k]
          BY <1>2, <3>1, <4>1, <4>2, <5>1
        <5> QED
          BY <1>6, <2>1, <2>3, <4>2, <5>2
      <4>3. CASE k \notin DOMAIN b.lists
        <5>1. k \in DOMAIN l.lists /\ m.lists[k] = l.lists[k]
          BY <1>1, <3>1, <3>3, <4>1, <4>3
        <5>2. k \in FirstLists(b.lists, l.lists, r.lists)
          BY <3>1, <4>3, <5>1 DEF FirstLists
        <5> QED
          BY <1>6, <2>1, <2>3, <4>1, <5>1, <5>2
      <4> QED
        BY <4>2, <4>3
    <3> QED
      BY <3>2, <3>3
  <2> QED
    BY <2>2, <2>3
<1>10. ASSUME NEW x \in Slots(b) \ Slots(l), x[1] = None
       PROVE  x \notin Slots(m)
  <2>1. PICK k, i : x = <<k, i>> /\ x[1] = k
    BY <1>7
  <2> QED
    BY <1>1, <1>5, <1>10, <2>1
<1>11. Fits(m, last)
  <2>1. \A x \in Slots(m) : x[2] \in 1 .. last
    BY <1>8 DEF Fits
  <2>2. IsRow(name, m)
    <3>1. DOMAIN m.lists \subseteq IF name = "chat" THEN DOMAIN m.entries ELSE Owners
      BY <1>1, <1>3
    <3> QED
      BY <1>1, <3>1 DEF IsRow
  <2> QED
    BY <1>1, <2>1, <2>2 DEF Fits
<1> QED
  BY <1>8, <1>9, <1>10, <1>11 DEF m

-----------------------------------------------------------------------------
(* Queues, and how a step changes a tab's versions. *)

\* A sequence over some set is a sequence.
LEMMA SeqOver ==
  ASSUME NEW S, NEW s \in Seq(S)
  PROVE  IsSeq(s) /\ Len(s) \in Nat /\ DOMAIN s = 1 .. Len(s)
  BY DEF IsSeq

\* A sequence has a length, which is zero only when it is empty.
LEMMA SeqParts ==
  ASSUME NEW s, IsSeq(s)
  PROVE  Len(s) \in Nat /\ DOMAIN s = 1 .. Len(s) /\ (s = <<>> <=> Len(s) = 0)
<1> DEFINE S == {s[i] : i \in DOMAIN s}
<1>1. s \in Seq(S)
  BY DEF IsSeq
<1> HIDE DEF S
<1> QED
  BY <1>1

\* The elements of two queues joined are those of the first and then of the second.
LEMMA Joined ==
  ASSUME NEW s, NEW u, IsSeq(s), IsSeq(u)
  PROVE  /\ IsSeq(s \o u) /\ Len(s \o u) = Len(s) + Len(u)
         /\ \A i \in 1 .. Len(s) + Len(u) : (s \o u)[i] = IF i <= Len(s) THEN s[i] ELSE u[i - Len(s)]
<1> DEFINE S == {s[i] : i \in DOMAIN s} \cup {u[i] : i \in DOMAIN u}
<1>1. s \in Seq({s[i] : i \in DOMAIN s}) /\ u \in Seq({u[i] : i \in DOMAIN u})
  BY DEF IsSeq
<1>2. s \in Seq(S) /\ u \in Seq(S)
  BY <1>1
<1> HIDE DEF S
<1> QED
  BY <1>2, ConcatProperties, SeqOver

\* A queue without its head has the other elements, one place earlier.
LEMMA Popped ==
  ASSUME NEW s, IsSeq(s), s # <<>>
  PROVE  /\ IsSeq(Tail(s)) /\ Len(Tail(s)) = Len(s) - 1
         /\ Head(s) = s[1]
         /\ \A i \in 1 .. Len(s) - 1 : Tail(s)[i] = s[i + 1]
<1> DEFINE S == {s[i] : i \in DOMAIN s}
<1>1. s \in Seq(S)
  BY DEF IsSeq
<1> HIDE DEF S
<1>2. Head(s) = s[1]
  BY <1>1
<1> QED
  BY <1>1, <1>2, HeadTailProperties, SeqOver

\* A sequence of one value.
LEMMA OneState ==
  ASSUME NEW v
  PROVE  IsSeq(<<v>>) /\ Len(<<v>>) = 1 /\ <<v>>[1] = v
<1>1. <<v>> \in Seq({v})
  OBVIOUS
<1> QED
  BY <1>1, SeqOver

\* A tab's versions after its queue has grown by some states.
LEMMA Grown ==
  ASSUME QueuesFit, NEW t \in Tabs, NEW states, IsSeq(states), Len(states) > 0, Set(t, states), base' = base
  PROVE  /\ IsSeq(pending'[t]) /\ Len(pending'[t]) = Len(pending[t]) + Len(states)
         /\ DOMAIN store' = Tabs /\ DOMAIN pending' = Tabs
         /\ \A i \in Versions(t)' :
              \/ i \in Versions(t) /\ i <= Len(pending[t]) /\ Version(t, i)' = Version(t, i)
              \/ /\ i > Len(pending[t])
                 /\ \E j \in 1 .. Len(states) : /\ Version(t, i)' = states[j]
                                                /\ j = IF i - Len(pending[t]) <= Len(states)
                                                       THEN i - Len(pending[t]) ELSE Len(states)
         /\ \A u \in Tabs \ {t} : pending'[u] = pending[u] /\ store'[u] = store[u]
         /\ pending'[t][Len(pending'[t])] = states[Len(states)] /\ store'[t] = states[Len(states)]
<1> DEFINE n == Len(pending[t])
           k == Len(states)
<1>1. IsSeq(pending[t]) /\ n \in Nat /\ k \in Nat /\ k > 0
  BY SeqParts DEF QueuesFit
<1>2. /\ pending'[t] = pending[t] \o states /\ store'[t] = states[k]
      /\ \A u \in Tabs \ {t} : pending'[u] = pending[u] /\ store'[u] = store[u]
      /\ DOMAIN store' = Tabs /\ DOMAIN pending' = Tabs
  BY DEF Set, QueuesFit
<1>3. /\ IsSeq(pending'[t]) /\ Len(pending'[t]) = n + k
      /\ \A i \in 1 .. n + k : pending'[t][i] = IF i <= n THEN pending[t][i] ELSE states[i - n]
  BY <1>1, <1>2, Joined
<1>4. pending'[t][n + k] = states[k]
  BY <1>1, <1>3
<1>5. ASSUME NEW i \in Versions(t)'
      PROVE  \/ i \in Versions(t) /\ i <= n /\ Version(t, i)' = Version(t, i)
             \/ /\ i > n
                /\ \E j \in 1 .. k : Version(t, i)' = states[j] /\ j = IF i - n <= k THEN i - n ELSE k
  <2>1. i \in 0 .. n + k + 1
    BY <1>3 DEF Versions
  <2>2. CASE i = 0
    BY <1>1, <2>2 DEF Version, Versions
  <2>3. CASE i # 0 /\ i <= n
    <3>1. Version(t, i)' = pending'[t][i]
      BY <1>1, <1>3, <2>1, <2>3 DEF Version
    <3>2. Version(t, i) = pending[t][i]
      BY <2>1, <2>3 DEF Version
    <3> QED
      BY <1>1, <1>3, <2>1, <2>3, <3>1, <3>2 DEF Versions
  <2>4. CASE i > n /\ i - n <= k
    <3>1. Version(t, i)' = pending'[t][i]
      BY <1>1, <1>3, <2>1, <2>4 DEF Version
    <3>2. i - n \in 1 .. k
      BY <1>1, <2>1, <2>4
    <3> QED
      BY <1>1, <1>3, <2>1, <2>4, <3>1, <3>2
  <2>5. CASE i - n > k
    <3>1. Version(t, i)' = store'[t]
      BY <1>1, <1>3, <2>1, <2>5 DEF Version
    <3>2. k \in 1 .. k
      BY <1>1
    <3> QED
      BY <1>1, <1>2, <2>1, <2>5, <3>1, <3>2
  <2> QED
    BY <1>1, <2>1, <2>2, <2>3, <2>4, <2>5
<1> QED
  BY <1>2, <1>3, <1>4, <1>5

\* A tab's versions after its first write was taken from the queue: they move up by
\* one, but for what it knows if the write failed.
LEMMA Shrunk ==
  ASSUME QueuesFit, NEW t \in Tabs, pending[t] # <<>>, Dequeue(t), store' = store
  PROVE  /\ IsSeq(pending'[t]) /\ Len(pending'[t]) = Len(pending[t]) - 1 /\ DOMAIN pending' = Tabs
         /\ Len(pending[t]) \in Nat /\ Len(pending[t]) > 0 /\ Version(t, 1) = Head(pending[t])
         /\ \A i \in Versions(t)' : /\ i \in Versions(t) /\ i + 1 \in Versions(t) 
                                    /\ i # 0 => Version(t, i)' = Version(t, i + 1)
         /\ \A u \in Tabs \ {t} : pending'[u] = pending[u]
<1> DEFINE n == Len(pending[t])
<1>1. IsSeq(pending[t]) /\ n \in Nat /\ n > 0
  <2>1. IsSeq(pending[t])
    BY DEF QueuesFit
  <2> QED
    BY <2>1, SeqParts
<1>2. /\ pending'[t] = Tail(pending[t]) /\ DOMAIN pending' = Tabs
      /\ \A u \in Tabs \ {t} : pending'[u] = pending[u]
  BY DEF Dequeue, QueuesFit
<1>3. /\ IsSeq(pending'[t]) /\ Len(pending'[t]) = n - 1 /\ Head(pending[t]) = pending[t][1]
      /\ \A i \in 1 .. n - 1 : pending'[t][i] = pending[t][i + 1]
  BY <1>1, <1>2, Popped
<1>4. Version(t, 1) = Head(pending[t])
  BY <1>1, <1>3 DEF Version
<1>5. ASSUME NEW i \in Versions(t)'
      PROVE  /\ i \in Versions(t) /\ i + 1 \in Versions(t)
             /\ i # 0 => Version(t, i)' = Version(t, i + 1)
  <2>1. i \in 0 .. n
    BY <1>1, <1>3 DEF Versions
  <2>2. CASE i # 0 /\ i <= n - 1
    <3>1. Version(t, i)' = pending'[t][i]
      BY <1>3, <2>1, <2>2 DEF Version
    <3>2. Version(t, i + 1) = pending[t][i + 1]
      BY <1>1, <2>1, <2>2 DEF Version
    <3> QED
      BY <1>1, <1>3, <2>1, <2>2, <3>1, <3>2 DEF Versions
  <2>3. CASE i = n
    <3>1. Version(t, i)' = store'[t]
      BY <1>1, <1>3, <2>3 DEF Version
    <3>2. Version(t, i + 1) = store[t]
      BY <1>1, <2>3 DEF Version
    <3> QED
      BY <1>1, <2>1, <2>3, <3>1, <3>2 DEF Versions
  <2>4. CASE i = 0
    BY <1>1, <2>1, <2>4 DEF Versions
  <2> QED
    BY <1>1, <2>1, <2>2, <2>3, <2>4
<1> QED
  BY <1>1, <1>2, <1>3, <1>4, <1>5

\* A tab whose base, queue and store are left alone has the versions it had.
LEMMA Kept ==
  ASSUME NEW t, pending'[t] = pending[t], store'[t] = store[t], base'[t] = base[t]
  PROVE  Versions(t)' = Versions(t) /\ \A i \in Versions(t) : Version(t, i)' = Version(t, i)
  BY DEF Versions, Version

-----------------------------------------------------------------------------
(* What a user's act does to the versions of the row. *)

\* A tab queues some states, each of which follows what the tab showed, and adds
\* to it only what never was.
Grows(t, states) ==
  /\ Set(t, states) /\ IsSeq(states) /\ Len(states) > 0
  /\ minted' \in {minted, NewId}
  /\ removed \subseteq removed' /\ \A x \in removed' : x \in removed \/ x[2] \in 1 .. minted
  /\ \A j \in 1 .. Len(states) :
       /\ Fits(states[j], minted')
       /\ \A x \in Slots(states[j]) : x \in Slots(store[t]) \/ x[2] \notin 1 .. minted
       /\ Follows(removed', store[t], states[j])
  /\ \A i, j \in 1 .. Len(states) : i <= j =>
       Slots(states[j]) \subseteq Slots(states[i]) /\ Follows(removed', states[i], states[j])
  /\ UNCHANGED <<name, row, base, failed, undone, saved>>

\* A user's act, which queues values that follow what the tab shows, keeps the invariant on versions.
LEMMA GrowsKeeps ==
  ASSUME VersionsInv, NEW t \in Tabs, NEW states, Grows(t, states)
  PROVE  VersionsInv'
<1> DEFINE n == Len(pending[t])
<1>1. QueuesFit /\ ValuesFit /\ LastIsShown /\ NothingReturns /\ NewIsUnsaved /\ UnsavedIsOnes /\ HistoryFits
  BY DEF VersionsInv
<1>2. /\ IsSeq(states) /\ Len(states) > 0 /\ Set(t, states) /\ base' = base
      /\ UNCHANGED <<name, row, base, failed, undone, saved>> /\ removed \subseteq removed'
      /\ Len(states) \in Nat /\ n \in Nat /\ minted \in Nat /\ minted' \in Nat /\ minted <= minted'
  <2>1. IsSeq(pending[t]) /\ IsSeq(states) /\ minted \in Nat
    BY <1>1 DEF QueuesFit, Grows
  <2> QED
    BY <2>1, SeqParts DEF Grows, NewId
<1>3. /\ IsSeq(pending'[t]) /\ Len(pending'[t]) = n + Len(states)
      /\ DOMAIN store' = Tabs /\ DOMAIN pending' = Tabs
      /\ \A i \in Versions(t)' :
           \/ i \in Versions(t) /\ i <= n /\ Version(t, i)' = Version(t, i)
           \/ /\ i > n
              /\ \E j \in 1 .. Len(states) : /\ Version(t, i)' = states[j]
                                             /\ j = IF i - n <= Len(states) THEN i - n ELSE Len(states)
      /\ \A u \in Tabs \ {t} : pending'[u] = pending[u] /\ store'[u] = store[u]
      /\ pending'[t][Len(pending'[t])] = states[Len(states)] /\ store'[t] = states[Len(states)]
  BY <1>1, <1>2, Grown
<1>4. \A u \in Tabs \ {t} : Versions(u)' = Versions(u) /\ \A i \in Versions(u) : Version(u, i)' = Version(u, i)
  <2> TAKE u \in Tabs \ {t}
  <2>1. pending'[u] = pending[u] /\ store'[u] = store[u] /\ base'[u] = base[u]
    BY <1>2, <1>3
  <2> QED
    BY <2>1, Kept
<1>5. n + 1 \in Versions(t) /\ Version(t, n + 1) = store[t] /\ 0 \in Versions(t) /\ Version(t, 0) = base[t]
  BY <1>2 DEF Versions, Version
<1>6. \A j \in 1 .. Len(states) :
        /\ Fits(states[j], minted')
        /\ \A x \in Slots(states[j]) : x \in Slots(store[t]) \/ x[2] \notin 1 .. minted
        /\ Follows(removed', store[t], states[j])
  BY DEF Grows
<1>7. \A i, j \in 1 .. Len(states) : i <= j =>
        Slots(states[j]) \subseteq Slots(states[i]) /\ Follows(removed', states[i], states[j])
  BY DEF Grows
<1>8. Versions(t)' \subseteq Int /\ Versions(t) \subseteq Int
  <2>1. Len(pending'[t]) \in Nat
    BY <1>2, <1>3
  <2> QED
    BY <1>2, <2>1 DEF Versions
<1>9. \A u \in Tabs : \A i \in Versions(u) : \A x \in Slots(Version(u, i)) : x[2] \in 1 .. minted
  BY <1>1 DEF ValuesFit, Fits
<1>10. \A j \in 1 .. Len(states) : \A x \in Slots(states[j]) :
         \A u \in Tabs : \A i \in Versions(u) : x \in Slots(Version(u, i)) => x \in Slots(store[t])
  BY <1>6, <1>9
<1>11. QueuesFit'
  <2>1. \A u \in Tabs : IsSeq(pending'[u])
    BY <1>1, <1>3 DEF QueuesFit
  <2> QED
    BY <1>1, <1>2, <1>3, <2>1 DEF QueuesFit
<1>12. ValuesFit'
  <2>1. \A s : Fits(s, minted) => Fits(s, minted')
    BY <1>2, FitsLater
  <2>2. \A s : Fits(s, minted)' <=> Fits(s, minted')
    BY <1>2 DEF Fits, IsRow
  <2>3. Fits(row, minted')
    BY <1>1, <2>1 DEF ValuesFit
  <2>4. \A u \in Tabs \ {t} : \A i \in Versions(u)' : Fits(Version(u, i)', minted')
    BY <1>1, <1>4, <2>1 DEF ValuesFit
  <2>5. \A i \in Versions(t)' : Fits(Version(t, i)', minted')
    BY <1>1, <1>3, <1>6, <2>1 DEF ValuesFit
  <2>6. \A u \in Tabs : \A i \in Versions(u)' : Fits(Version(u, i)', minted')
    BY <2>4, <2>5
  <2>7. Fits(row', minted') /\ (Fits(row, minted)' <=> Fits(row', minted'))
    BY <1>2, <2>3 DEF Fits, IsRow
  <2> QED
    BY <1>2, <2>6, <2>7 DEF ValuesFit, Fits, IsRow
<1>13. LastIsShown'
  <2>1. pending'[t] # <<>> /\ pending'[t][Len(pending'[t])] = store'[t]
    BY <1>2, <1>3, SeqParts
  <2> QED
    BY <1>1, <1>2, <1>3, <2>1 DEF LastIsShown
<1>14. NothingReturns'
  <2>1. ASSUME NEW u \in Tabs \ {t}, NEW i \in Versions(u)', NEW j \in Versions(u)', i < j
        PROVE  /\ Follows(removed, Version(u, i), Version(u, j))'
               /\ \A k \in Versions(u)' : j < k =>
                    Slots(Version(u, i)') \cap Slots(Version(u, k)') \subseteq Slots(Version(u, j)')
    <3>1. /\ Follows(removed, Version(u, i), Version(u, j))
          /\ \A k \in Versions(u) : j < k =>
               Slots(Version(u, i)) \cap Slots(Version(u, k)) \subseteq Slots(Version(u, j))
      BY <1>1, <1>4, <2>1 DEF NothingReturns
    <3>2. Version(u, i)' = Version(u, i) /\ Version(u, j)' = Version(u, j)
      BY <1>4
    <3>3. Follows(removed, Version(u, i), Version(u, j))'
      BY <1>2, <3>1, <3>2 DEF Follows, WasRemoved
    <3> QED
      BY <1>4, <3>1, <3>2, <3>3
  <2>2. ASSUME NEW i \in Versions(t)', NEW j \in Versions(t)', i < j
        PROVE  /\ Follows(removed, Version(t, i), Version(t, j))'
               /\ \A k \in Versions(t)' : j < k =>
                    Slots(Version(t, i)') \cap Slots(Version(t, k)') \subseteq Slots(Version(t, j)')
    <3>0. i \in Int /\ j \in Int /\ \A k \in Versions(t)' : k \in Int
      BY <1>8
    <3>1. CASE j <= n
      <4>1. /\ i \in Versions(t) /\ j \in Versions(t)
            /\ Version(t, i)' = Version(t, i) /\ Version(t, j)' = Version(t, j)
        BY <1>2, <1>3, <2>2, <3>0, <3>1
      <4>2. /\ Follows(removed, Version(t, i), Version(t, j))
            /\ \A k \in Versions(t) : j < k =>
                 Slots(Version(t, i)) \cap Slots(Version(t, k)) \subseteq Slots(Version(t, j))
        BY <1>1, <2>2, <4>1 DEF NothingReturns
      <4>3. Follows(removed, Version(t, i), Version(t, j))'
        BY <1>2, <4>1, <4>2 DEF Follows, WasRemoved
      <4>4. ASSUME NEW k \in Versions(t)', j < k
            PROVE  Slots(Version(t, i)') \cap Slots(Version(t, k)') \subseteq Slots(Version(t, j)')
        <5>1. CASE k \in Versions(t) /\ Version(t, k)' = Version(t, k)
          BY <4>1, <4>2, <4>4, <5>1
        <5>2. CASE \E m \in 1 .. Len(states) : Version(t, k)' = states[m]
          <6>1. Slots(Version(t, i)) \cap Slots(Version(t, k)') \subseteq Slots(store[t])
            BY <1>10, <4>1, <5>2
          <6>2. Slots(Version(t, i)) \cap Slots(store[t]) \subseteq Slots(Version(t, j))
            <7>1. j < n + 1
              BY <1>2, <3>0, <3>1
            <7> QED
              BY <1>5, <4>2, <7>1
          <6> QED
            BY <4>1, <6>1, <6>2
        <5> QED
          BY <1>3, <5>1, <5>2
      <4> QED
        BY <4>3, <4>4
    <3>2. CASE j > n
      <4>1. PICK m \in 1 .. Len(states) : /\ Version(t, j)' = states[m]
                                          /\ m = IF j - n <= Len(states) THEN j - n ELSE Len(states)
        BY <1>2, <1>3, <3>0, <3>2
      <4>2. ASSUME NEW k \in Versions(t)', j < k
            PROVE  Slots(Version(t, k)') \subseteq Slots(Version(t, j)')
        <5>1. PICK q \in 1 .. Len(states) : /\ Version(t, k)' = states[q]
                                            /\ q = IF k - n <= Len(states) THEN k - n ELSE Len(states)
          BY <1>2, <1>3, <3>0, <3>2, <4>2
        <5>2. m <= q
          BY <1>2, <3>0, <4>1, <4>2, <5>1
        <5> QED
          BY <1>7, <4>1, <5>1, <5>2
      <4>3. Follows(removed', Version(t, i)', Version(t, j)')
        <5>1. CASE i > n
          <6>1. PICK q \in 1 .. Len(states) : /\ Version(t, i)' = states[q]
                                              /\ q = IF i - n <= Len(states) THEN i - n ELSE Len(states)
            BY <1>2, <1>3, <3>0, <5>1
          <6>2. q <= m
            BY <1>2, <2>2, <3>0, <4>1, <6>1
          <6> QED
            BY <1>7, <4>1, <6>1, <6>2
        <5>2. CASE i <= n
          <6>1. i \in Versions(t) /\ Version(t, i)' = Version(t, i) /\ i < n + 1
            BY <1>2, <1>3, <3>0, <5>2
          <6>2. Follows(removed, Version(t, i), store[t])
            BY <1>1, <1>5, <6>1 DEF NothingReturns
          <6>3. Follows(removed', store[t], states[m])
            BY <1>6
          <6>4. removed \subseteq removed'
            BY <1>2
          <6>5. \A x \in Slots(Version(t, i)) \ Slots(states[m]) : WasRemoved(removed', x)
            <7> TAKE x \in Slots(Version(t, i)) \ Slots(states[m])
            <7>1. CASE x \in Slots(store[t])
              BY <6>3, <7>1 DEF Follows
            <7>2. CASE x \notin Slots(store[t])
              BY <6>2, <6>4, <7>2 DEF Follows, WasRemoved
            <7> QED
              BY <7>1, <7>2
          <6>6. \A k \in DOMAIN Version(t, i).lists \ DOMAIN states[m].lists : <<None, k>> \in removed'
            BY <6>2, <6>3, <6>4 DEF Follows
          <6> QED
            BY <4>1, <6>1, <6>5, <6>6 DEF Follows
        <5> QED
          BY <1>2, <3>0, <5>1, <5>2
      <4>4. Follows(removed, Version(t, i), Version(t, j))'
        BY <4>3 DEF Follows, WasRemoved
      <4> QED
        BY <4>2, <4>4
    <3> QED
      BY <1>2, <3>0, <3>1, <3>2
  <2> QED
    BY <2>1, <2>2 DEF NothingReturns
<1>15. NewIsUnsaved'
  <2>1. ASSUME NEW u \in Tabs, NEW i \in Versions(u)', NEW x \in Slots(Version(u, i)') \ Slots(base[u])
        PROVE  x \notin saved
    <3>1. CASE i \in Versions(u) /\ Version(u, i)' = Version(u, i)
      BY <1>1, <2>1, <3>1 DEF NewIsUnsaved
    <3>2. CASE u = t /\ \E j \in 1 .. Len(states) : Version(u, i)' = states[j]
      <4>1. x \in Slots(store[t]) \/ x[2] \notin 1 .. minted
        BY <1>6, <2>1, <3>2
      <4>2. CASE x \in Slots(store[t])
        BY <1>1, <1>5, <2>1, <3>2, <4>2 DEF NewIsUnsaved
      <4>3. CASE x[2] \notin 1 .. minted
        BY <1>1, <4>3 DEF HistoryFits
      <4> QED
        BY <4>1, <4>2, <4>3
    <3> QED
      BY <1>3, <1>4, <3>1, <3>2
  <2> QED
    BY <1>2, <2>1 DEF NewIsUnsaved
<1>16. UnsavedIsOnes'
  <2>1. ASSUME NEW u \in Tabs, NEW v \in Tabs, u # v, NEW i \in Versions(u)', NEW j \in Versions(v)',
               NEW x \in Slots(Version(u, i)') \cap Slots(Version(v, j)')
        PROVE  x \in saved
    <3>1. ASSUME NEW w \in Tabs, NEW k \in Versions(w)', x \in Slots(Version(w, k)')
          PROVE  \/ \E m \in Versions(w) : x \in Slots(Version(w, m))
                 \/ w = t /\ x[2] \notin 1 .. minted
      <4>1. CASE k \in Versions(w) /\ Version(w, k)' = Version(w, k)
        BY <3>1, <4>1
      <4>2. CASE w = t /\ \E m \in 1 .. Len(states) : Version(w, k)' = states[m]
        <5>1. x \in Slots(store[t]) \/ x[2] \notin 1 .. minted
          BY <1>6, <3>1, <4>2
        <5> QED
          BY <1>5, <4>2, <5>1
      <4> QED
        BY <1>3, <1>4, <4>1, <4>2
    <3>2. \/ \E m \in Versions(u) : x \in Slots(Version(u, m))
          \/ u = t /\ x[2] \notin 1 .. minted
      BY <3>1
    <3>3. \/ \E m \in Versions(v) : x \in Slots(Version(v, m))
          \/ v = t /\ x[2] \notin 1 .. minted
      BY <3>1
    <3>4. CASE x[2] \notin 1 .. minted
      BY <1>9, <2>1, <3>2, <3>3, <3>4
    <3>5. CASE x[2] \in 1 .. minted
      <4>1. \E m \in Versions(u), k \in Versions(v) : x \in Slots(Version(u, m)) \cap Slots(Version(v, k))
        BY <3>2, <3>3, <3>5
      <4> QED
        BY <1>1, <2>1, <4>1 DEF UnsavedIsOnes
    <3> QED
      BY <3>4, <3>5
  <2> QED
    BY <1>2, <2>1 DEF UnsavedIsOnes
<1>17. HistoryFits'
  <2>1. \A k \in 1 .. minted : k \in 1 .. minted'
    BY <1>2
  <2>2. \A x \in removed' : x \in removed \/ x[2] \in 1 .. minted
    BY DEF Grows
  <2> QED
    BY <1>1, <1>2, <2>1, <2>2 DEF HistoryFits
<1> QED
  BY <1>11, <1>12, <1>13, <1>14, <1>15, <1>16, <1>17 DEF VersionsInv

-----------------------------------------------------------------------------
(* What a write, a failed one, a reload and anything else do to the versions. *)

\* What becomes of the versions of a tab when they only move up or stay: the
\* invariants along them are kept.
LEMMA Thinned ==
  ASSUME NothingReturns, removed \subseteq removed', NEW t \in Tabs, NEW f,
         \A i \in Versions(t)' : f[i] \in Versions(t) /\ Version(t, i)' = Version(t, f[i]),
         \A i, j \in Versions(t)' : i < j => f[i] < f[j]
  PROVE  \A i, j \in Versions(t)' : i < j =>
           /\ Follows(removed, Version(t, i), Version(t, j))'
           /\ \A k \in Versions(t)' : j < k =>
                Slots(Version(t, i)') \cap Slots(Version(t, k)') \subseteq Slots(Version(t, j)')
<1> SUFFICES ASSUME NEW i \in Versions(t)', NEW j \in Versions(t)', i < j
             PROVE  /\ Follows(removed, Version(t, i), Version(t, j))'
                    /\ \A k \in Versions(t)' : j < k =>
                         Slots(Version(t, i)') \cap Slots(Version(t, k)') \subseteq Slots(Version(t, j)')
  OBVIOUS
<1>1. /\ Follows(removed, Version(t, f[i]), Version(t, f[j]))
      /\ \A k \in Versions(t) : f[j] < k =>
           Slots(Version(t, f[i])) \cap Slots(Version(t, k)) \subseteq Slots(Version(t, f[j]))
  BY DEF NothingReturns
<1>2. Version(t, i)' = Version(t, f[i]) /\ Version(t, j)' = Version(t, f[j])
  OBVIOUS
<1>3. Follows(removed, Version(t, i), Version(t, j))'
  BY <1>1, <1>2 DEF Follows, WasRemoved
<1>4. ASSUME NEW k \in Versions(t)', j < k
      PROVE  Slots(Version(t, i)') \cap Slots(Version(t, k)') \subseteq Slots(Version(t, j)')
  <2>1. f[k] \in Versions(t) /\ f[j] < f[k] /\ Version(t, k)' = Version(t, f[k])
    BY <1>4
  <2> QED
    BY <1>1, <1>2, <2>1
<1> QED
  BY <1>3, <1>4

\* A committed write: what the tab wrote is what it knows is saved, and the row
\* has what it had and what the tab added to it, but for what was removed.
LEMMA CommitRow ==
  ASSUME VersionsInv, NEW t \in Tabs, CommitWrite(t)
  PROVE  /\ Fits(row', minted)
         /\ \A x \in Slots(row') : x \in Slots(row) \/ (x \in Slots(Version(t, 1)) /\ x \notin Slots(base[t]))
         /\ \A x \in Slots(row) \ Slots(row') : WasRemoved(removed, x) \/ x \in replaced'
         /\ \A x \in Slots(base[t]) \ Slots(Version(t, 1)) : x[1] = None => x \notin Slots(row')
         /\ base'[t] = Version(t, 1) /\ \A u \in Tabs \ {t} : base'[u] = base[u]
         /\ DOMAIN base' = Tabs
<1> DEFINE b == base[t]
           l == Head(pending[t])
           m == MergePersisted(name, b, l, row)
<1>1. /\ QueuesFit /\ ValuesFit /\ NothingReturns /\ minted \in Nat
      /\ Dequeue(t) /\ store' = store /\ pending[t] # <<>> /\ row' = m
      /\ replaced' = replaced \cup {x \in Slots(row) \ Slots(l) : x[1] \in FirstLists(b.lists, l.lists, row.lists)}
  BY DEF VersionsInv, CommitWrite, QueuesFit
<1>2. Len(pending[t]) \in Nat /\ Len(pending[t]) > 0 /\ Version(t, 1) = l
  BY <1>1, Shrunk
<1>3. 0 \in Versions(t) /\ 1 \in Versions(t) /\ Version(t, 0) = b
  BY <1>2 DEF Versions, Version
<1>4. Fits(b, minted) /\ Fits(l, minted) /\ Fits(row, minted)
  BY <1>1, <1>2, <1>3 DEF ValuesFit
<1>5. Follows(removed, b, l)
  BY <1>1, <1>2, <1>3 DEF NothingReturns
<1>6. base'[t] = l /\ DOMAIN base' = Tabs /\ \A u \in Tabs \ {t} : base'[u] = base[u]
  BY <1>1 DEF CommitWrite, Acknowledged, QueuesFit
<1> HIDE DEF b, l
<1>7. /\ Fits(m, minted)
      /\ \A x \in Slots(m) : x \in Slots(row) \/ (x \in Slots(l) /\ x \notin Slots(b))
      /\ \A x \in Slots(row) \ Slots(m) :
           \/ x \in Slots(b) \ Slots(l)
           \/ x[1] \in FirstLists(b.lists, l.lists, row.lists) /\ x \notin Slots(l)
           \/ <<None, x[1]>> \in Slots(b) \ Slots(l)
           \/ x[1] \in DOMAIN b.lists \ DOMAIN l.lists
      /\ \A x \in Slots(b) \ Slots(l) : x[1] = None => x \notin Slots(m)
  BY <1>1, <1>4, MergedSlots
<1> HIDE DEF m
<1>8. \A x \in Slots(row) \ Slots(m) : WasRemoved(removed, x) \/ x \in replaced'
  <2> TAKE x \in Slots(row) \ Slots(m)
  <2>1. CASE x \in Slots(b) \ Slots(l)
    BY <1>5, <2>1 DEF Follows
  <2>2. CASE x[1] \in FirstLists(b.lists, l.lists, row.lists) /\ x \notin Slots(l)
    BY <1>1, <2>2
  <2>3. CASE <<None, x[1]>> \in Slots(b) \ Slots(l)
    <3>1. WasRemoved(removed, <<None, x[1]>>)
      BY <1>5, <2>3 DEF Follows
    <3>2. <<None, None>> \notin removed
      <4>1. \A y \in removed : y[2] \in 1 .. minted
        BY DEF VersionsInv, HistoryFits
      <4>2. None \notin 1 .. minted
        BY <1>1, InheritedAssumption
      <4> QED
        BY <4>1, <4>2
    <3> QED
      BY <3>1, <3>2 DEF WasRemoved
  <2>4. CASE x[1] \in DOMAIN b.lists \ DOMAIN l.lists
    BY <1>5, <2>4 DEF Follows, WasRemoved
  <2> QED
    BY <1>7, <2>1, <2>2, <2>3, <2>4
<1> QED
  BY <1>1, <1>2, <1>6, <1>7, <1>8 DEF b

\* A committed write keeps the invariant on versions.
LEMMA CommitKeeps ==
  ASSUME VersionsInv, NEW t \in Tabs, CommitWrite(t)
  PROVE  VersionsInv'
<1> DEFINE n == Len(pending[t])
<1>1. /\ QueuesFit /\ ValuesFit /\ LastIsShown /\ NothingReturns /\ NewIsUnsaved /\ UnsavedIsOnes /\ HistoryFits
      /\ pending[t] # <<>> /\ Dequeue(t) /\ Settle(t, FALSE) /\ saved' = saved \cup Slots(row')
      /\ UNCHANGED <<name, store, minted, removed>> /\ minted \in Nat
  BY DEF VersionsInv, CommitWrite, QueuesFit
<1>2. /\ IsSeq(pending'[t]) /\ Len(pending'[t]) = n - 1 /\ DOMAIN pending' = Tabs
      /\ n \in Nat /\ n > 0
      /\ \A i \in Versions(t)' : /\ i \in Versions(t) /\ i + 1 \in Versions(t)
                                 /\ i # 0 => Version(t, i)' = Version(t, i + 1)
      /\ \A u \in Tabs \ {t} : pending'[u] = pending[u]
  BY <1>1, Shrunk
<1>3. /\ Fits(row', minted)
      /\ \A x \in Slots(row') : x \in Slots(row) \/ (x \in Slots(Version(t, 1)) /\ x \notin Slots(base[t]))
      /\ base'[t] = Version(t, 1) /\ \A u \in Tabs \ {t} : base'[u] = base[u]
      /\ DOMAIN base' = Tabs
  BY CommitRow
<1>4. \A i \in Versions(t)' : i + 1 \in Versions(t) /\ Version(t, i)' = Version(t, i + 1)
  <2> TAKE i \in Versions(t)'
  <2>1. CASE i = 0
    BY <1>2, <1>3, <2>1 DEF Version
  <2> QED
    BY <1>2, <2>1
<1>5. \A u \in Tabs \ {t} : Versions(u)' = Versions(u) /\ \A i \in Versions(u) : Version(u, i)' = Version(u, i)
  <2> TAKE u \in Tabs \ {t}
  <2>1. pending'[u] = pending[u] /\ store'[u] = store[u] /\ base'[u] = base[u]
    BY <1>1, <1>2, <1>3
  <2> QED
    BY <2>1, Kept
<1>6. \A u \in Tabs : \A i \in Versions(u)' : \E j \in Versions(u) : Version(u, i)' = Version(u, j)
  BY <1>4, <1>5
<1>7. /\ 0 \in Versions(t) /\ 1 \in Versions(t) /\ Version(t, 0) = base[t]
      /\ \A i \in Versions(t)' : i \in Nat
  <2>1. \A i \in Versions(t) : i \in Nat
    BY <1>2 DEF Versions
  <2> QED
    BY <1>2, <2>1 DEF Versions, Version
<1>8. QueuesFit'
  <2>1. \A u \in Tabs : IsSeq(pending'[u])
    BY <1>1, <1>2 DEF QueuesFit
  <2>2. failed' \in [Tabs -> BOOLEAN]
    BY <1>1 DEF QueuesFit, Settle
  <2> QED
    BY <1>1, <1>2, <1>3, <2>1, <2>2 DEF QueuesFit
<1>9. ValuesFit'
  <2>1. \A u \in Tabs : \A i \in Versions(u)' : Fits(Version(u, i)', minted)
    BY <1>1, <1>6 DEF ValuesFit
  <2> QED
    BY <1>1, <1>3, <2>1 DEF ValuesFit, Fits
<1>10. LastIsShown'
  <2>1. ASSUME NEW u \in Tabs \ {t}
        PROVE  failed'[u] = failed[u]
    BY <1>1 DEF Settle, QueuesFit
  <2>2. CASE n = 1
    <3>1. pending'[t] = <<>>
      BY <1>2, <2>2, SeqParts
    <3>2. base'[t] = pending[t][n]
      BY <1>1, <1>2, <1>3, <2>2 DEF Version
    <3> QED
      BY <1>1, <1>2, <1>3, <2>1, <3>1, <3>2 DEF LastIsShown
  <2>3. CASE n > 1
    <3>1. pending'[t] # <<>> /\ pending'[t][n - 1] = pending[t][n]
      <4>1. IsSeq(pending[t])
        BY <1>1 DEF QueuesFit
      <4>2. pending'[t] = Tail(pending[t])
        BY <1>1 DEF Dequeue, QueuesFit
      <4>3. n - 1 \in 1 .. n - 1 /\ (n - 1) + 1 = n
        BY <1>2, <2>3
      <4>4. pending'[t][n - 1] = pending[t][(n - 1) + 1]
        BY <1>1, <4>1, <4>2, <4>3, Popped
      <4> QED
        BY <1>2, <2>3, <4>3, <4>4, SeqParts
    <3> QED
      BY <1>1, <1>2, <1>3, <2>1, <3>1 DEF LastIsShown
  <2>4. n = 1 \/ n > 1
    <3>1. n \in Nat /\ n > 0
      BY <1>2
    <3> HIDE DEF n
    <3> QED
      BY <3>1
  <2> QED
    BY <2>2, <2>3, <2>4
<1>11. NothingReturns'
  <2>1. \A i, j \in Versions(t)' : i < j =>
          /\ Follows(removed, Version(t, i), Version(t, j))'
          /\ \A k \in Versions(t)' : j < k =>
               Slots(Version(t, i)') \cap Slots(Version(t, k)') \subseteq Slots(Version(t, j)')
    <3> DEFINE f == [i \in Versions(t)' |-> i + 1]
    <3>1. \A i \in Versions(t)' : f[i] \in Versions(t) /\ Version(t, i)' = Version(t, f[i])
      BY <1>4
    <3>2. \A i, j \in Versions(t)' : i < j => f[i] < f[j]
      BY <1>7
    <3>3. removed \subseteq removed'
      BY <1>1
    <3> HIDE DEF f
    <3> QED
      BY <1>1, <3>1, <3>2, <3>3, Thinned
  <2>2. \A u \in Tabs \ {t} : \A i, j \in Versions(u)' : i < j =>
          /\ Follows(removed, Version(u, i), Version(u, j))'
          /\ \A k \in Versions(u)' : j < k =>
               Slots(Version(u, i)') \cap Slots(Version(u, k)') \subseteq Slots(Version(u, j)')
    <3> TAKE u \in Tabs \ {t}
    <3> DEFINE f == [i \in Versions(u)' |-> i]
    <3>1. \A i \in Versions(u)' : f[i] \in Versions(u) /\ Version(u, i)' = Version(u, f[i])
      BY <1>5
    <3>2. \A i, j \in Versions(u)' : i < j => f[i] < f[j]
      OBVIOUS
    <3>3. removed \subseteq removed'
      BY <1>1
    <3> HIDE DEF f
    <3> QED
      BY <1>1, <3>1, <3>2, <3>3, Thinned
  <2> QED
    BY <2>1, <2>2 DEF NothingReturns
<1>12. NewIsUnsaved'
  <2>1. ASSUME NEW u \in Tabs, NEW i \in Versions(u)', NEW x \in Slots(Version(u, i)') \ Slots(base'[u])
        PROVE  x \notin saved'
    <3>1. CASE u = t
      <4>1. i + 1 \in Versions(t) /\ x \in Slots(Version(t, i + 1)) /\ x \notin Slots(Version(t, 1))
        BY <1>3, <1>4, <2>1, <3>1
      <4>2. x \notin Slots(base[t])
        <5>1. CASE i = 0
          BY <4>1, <5>1
        <5>2. CASE i > 0
          <6>1. 0 < 1 /\ 1 < i + 1
            BY <1>7, <3>1, <5>2
          <6> QED
            BY <1>1, <1>7, <4>1, <6>1 DEF NothingReturns
        <5> QED
          BY <1>7, <3>1, <5>1, <5>2
      <4>3. x \notin saved
        BY <1>1, <4>1, <4>2 DEF NewIsUnsaved
      <4> QED
        BY <1>1, <1>3, <4>1, <4>3 DEF HistoryFits
    <3>2. CASE u # t
      <4>1. i \in Versions(u) /\ x \in Slots(Version(u, i)) /\ x \notin Slots(base[u])
        BY <1>3, <1>5, <2>1, <3>2
      <4>2. x \notin saved
        BY <1>1, <4>1 DEF NewIsUnsaved
      <4>3. x \notin Slots(Version(t, 1))
        BY <1>1, <1>7, <3>2, <4>1, <4>2 DEF UnsavedIsOnes
      <4> QED
        BY <1>1, <1>3, <4>2, <4>3 DEF HistoryFits
    <3> QED
      BY <3>1, <3>2
  <2> QED
    BY <2>1 DEF NewIsUnsaved
<1>13. UnsavedIsOnes'
  BY <1>1, <1>6 DEF UnsavedIsOnes
<1>14. HistoryFits'
  BY <1>1, <1>3 DEF HistoryFits, Fits
<1> QED
  BY <1>8, <1>9, <1>10, <1>11, <1>12, <1>13, <1>14 DEF VersionsInv

\* A failed write keeps the invariant on versions: its changes stay in what follows it.
LEMMA FailKeeps ==
  ASSUME VersionsInv, NEW t \in Tabs, FailWrite(t)
  PROVE  VersionsInv'
<1> DEFINE n == Len(pending[t])
           g(i) == IF i = 0 THEN 0 ELSE i + 1
<1>1. /\ QueuesFit /\ ValuesFit /\ LastIsShown /\ NothingReturns /\ NewIsUnsaved /\ UnsavedIsOnes /\ HistoryFits
      /\ pending[t] # <<>> /\ Dequeue(t) /\ Settle(t, TRUE)
      /\ UNCHANGED <<name, row, store, base, saved, minted, removed>> /\ minted \in Nat
  BY DEF VersionsInv, FailWrite, QueuesFit, history
<1>2. /\ IsSeq(pending'[t]) /\ Len(pending'[t]) = n - 1 /\ DOMAIN pending' = Tabs
      /\ n \in Nat /\ n > 0
      /\ \A i \in Versions(t)' : /\ i \in Versions(t) /\ i + 1 \in Versions(t)
                                 /\ i # 0 => Version(t, i)' = Version(t, i + 1)
      /\ \A u \in Tabs \ {t} : pending'[u] = pending[u]
  BY <1>1, Shrunk
<1>3. \A i \in Versions(t)' : g(i) \in Versions(t) /\ Version(t, i)' = Version(t, g(i))
  <2> TAKE i \in Versions(t)'
  <2>1. CASE i = 0
    BY <1>1, <1>2, <2>1 DEF Version
  <2> QED
    BY <1>2, <2>1
<1>4. \A u \in Tabs \ {t} : Versions(u)' = Versions(u) /\ \A i \in Versions(u) : Version(u, i)' = Version(u, i)
  <2> TAKE u \in Tabs \ {t}
  <2>1. pending'[u] = pending[u] /\ store'[u] = store[u] /\ base'[u] = base[u]
    BY <1>1, <1>2
  <2> QED
    BY <2>1, Kept
<1>5. \A u \in Tabs : \A i \in Versions(u)' : \E j \in Versions(u) : Version(u, i)' = Version(u, j)
  BY <1>3, <1>4
<1>6. \A i \in Versions(t)' : i \in Nat
  <2>1. \A i \in Versions(t) : i \in Nat
    BY <1>2 DEF Versions
  <2> QED
    BY <1>2, <2>1
<1>7. QueuesFit'
  <2>1. \A u \in Tabs : IsSeq(pending'[u])
    BY <1>1, <1>2 DEF QueuesFit
  <2>2. failed' \in [Tabs -> BOOLEAN]
    BY <1>1 DEF QueuesFit, Settle
  <2> QED
    BY <1>1, <1>2, <2>1, <2>2 DEF QueuesFit
<1>8. ValuesFit'
  <2>1. \A u \in Tabs : \A i \in Versions(u)' : Fits(Version(u, i)', minted)
    BY <1>1, <1>5 DEF ValuesFit
  <2> QED
    BY <1>1, <2>1 DEF ValuesFit, Fits
<1>9. LastIsShown'
  <2>1. \A u \in Tabs \ {t} : failed'[u] = failed[u]
    BY <1>1 DEF Settle, QueuesFit
  <2>2. CASE n = 1
    <3>1. pending'[t] = <<>>
      BY <1>2, <2>2, SeqParts
    <3>2. failed'[t] = TRUE
      BY <1>1, <2>2 DEF Settle, QueuesFit
    <3> QED
      BY <1>1, <1>2, <2>1, <3>1, <3>2 DEF LastIsShown
  <2>3. CASE n > 1
    <3>1. pending'[t] # <<>> /\ pending'[t][n - 1] = pending[t][n]
      <4>1. IsSeq(pending[t])
        BY <1>1 DEF QueuesFit
      <4>2. pending'[t] = Tail(pending[t])
        BY <1>1 DEF Dequeue, QueuesFit
      <4>3. n - 1 \in 1 .. n - 1 /\ (n - 1) + 1 = n
        BY <1>2, <2>3
      <4>4. pending'[t][n - 1] = pending[t][(n - 1) + 1]
        BY <1>1, <4>1, <4>2, <4>3, Popped
      <4> QED
        BY <1>2, <2>3, <4>3, <4>4, SeqParts
    <3> QED
      BY <1>1, <1>2, <2>1, <3>1 DEF LastIsShown
  <2>4. n = 1 \/ n > 1
    <3>1. n \in Nat /\ n > 0
      BY <1>2
    <3> HIDE DEF n
    <3> QED
      BY <3>1
  <2> QED
    BY <2>2, <2>3, <2>4
<1>10. NothingReturns'
  <2>1. \A i, j \in Versions(t)' : i < j =>
          /\ Follows(removed, Version(t, i), Version(t, j))'
          /\ \A k \in Versions(t)' : j < k =>
               Slots(Version(t, i)') \cap Slots(Version(t, k)') \subseteq Slots(Version(t, j)')
    <3> DEFINE f == [i \in Versions(t)' |-> g(i)]
    <3>1. \A i \in Versions(t)' : f[i] \in Versions(t) /\ Version(t, i)' = Version(t, f[i])
      BY <1>3
    <3>2. \A i, j \in Versions(t)' : i < j => f[i] < f[j]
      BY <1>6
    <3>3. removed \subseteq removed'
      BY <1>1
    <3> HIDE DEF f
    <3> QED
      BY <1>1, <3>1, <3>2, <3>3, Thinned
  <2>2. \A u \in Tabs \ {t} : \A i, j \in Versions(u)' : i < j =>
          /\ Follows(removed, Version(u, i), Version(u, j))'
          /\ \A k \in Versions(u)' : j < k =>
               Slots(Version(u, i)') \cap Slots(Version(u, k)') \subseteq Slots(Version(u, j)')
    <3> TAKE u \in Tabs \ {t}
    <3> DEFINE f == [i \in Versions(u)' |-> i]
    <3>1. \A i \in Versions(u)' : f[i] \in Versions(u) /\ Version(u, i)' = Version(u, f[i])
      BY <1>4
    <3>2. \A i, j \in Versions(u)' : i < j => f[i] < f[j]
      OBVIOUS
    <3>3. removed \subseteq removed'
      BY <1>1
    <3> HIDE DEF f
    <3> QED
      BY <1>1, <3>1, <3>2, <3>3, Thinned
  <2> QED
    BY <2>1, <2>2 DEF NothingReturns
<1>11. NewIsUnsaved'
  BY <1>1, <1>5 DEF NewIsUnsaved
<1>12. UnsavedIsOnes'
  BY <1>1, <1>5 DEF UnsavedIsOnes
<1>13. HistoryFits'
  BY <1>1 DEF HistoryFits
<1> QED
  BY <1>7, <1>8, <1>9, <1>10, <1>11, <1>12, <1>13 DEF VersionsInv

\* A tab that is loaded again has the row and nothing else.
LEMMA ReloadKeeps ==
  ASSUME VersionsInv, NEW t \in Tabs, Reload(t)
  PROVE  VersionsInv'
<1>1. /\ QueuesFit /\ ValuesFit /\ LastIsShown /\ NothingReturns /\ NewIsUnsaved /\ UnsavedIsOnes /\ HistoryFits
      /\ UNCHANGED <<name, row, saved, minted, removed>> /\ minted \in Nat
  BY DEF VersionsInv, Reload, QueuesFit, history
<1>2. /\ store'[t] = row /\ base'[t] = row /\ pending'[t] = <<>>
      /\ DOMAIN store' = Tabs /\ DOMAIN base' = Tabs /\ DOMAIN pending' = Tabs
      /\ failed' \in [Tabs -> BOOLEAN]
      /\ \A u \in Tabs \ {t} : /\ store'[u] = store[u] /\ base'[u] = base[u]
                               /\ pending'[u] = pending[u] /\ failed'[u] = failed[u]
  BY <1>1 DEF Reload, QueuesFit
<1>3. \A i \in Versions(t)' : Version(t, i)' = row
  BY <1>2 DEF Versions, Version
<1>4. \A u \in Tabs \ {t} : Versions(u)' = Versions(u) /\ \A i \in Versions(u) : Version(u, i)' = Version(u, i)
  BY <1>2, Kept
<1>5. QueuesFit'
  <2>1. IsSeq(<<>>)
    BY DEF IsSeq
  <2> QED
    BY <1>1, <1>2, <2>1 DEF QueuesFit
<1>6. ValuesFit'
  <2>1. \A u \in Tabs : \A i \in Versions(u)' : Fits(Version(u, i)', minted)
    BY <1>1, <1>3, <1>4 DEF ValuesFit
  <2> QED
    BY <1>1, <2>1 DEF ValuesFit, Fits
<1>7. LastIsShown'
  BY <1>1, <1>2 DEF LastIsShown
<1>8. NothingReturns'
  <2>1. \A i, j \in Versions(t)' : i < j =>
          /\ Follows(removed, Version(t, i), Version(t, j))'
          /\ \A k \in Versions(t)' : j < k =>
               Slots(Version(t, i)') \cap Slots(Version(t, k)') \subseteq Slots(Version(t, j)')
    BY <1>3 DEF Follows
  <2>2. \A u \in Tabs \ {t} : \A i, j \in Versions(u)' : i < j =>
          /\ Follows(removed, Version(u, i), Version(u, j))'
          /\ \A k \in Versions(u)' : j < k =>
               Slots(Version(u, i)') \cap Slots(Version(u, k)') \subseteq Slots(Version(u, j)')
    <3> TAKE u \in Tabs \ {t}
    <3> DEFINE f == [i \in Versions(u)' |-> i]
    <3>1. \A i \in Versions(u)' : f[i] \in Versions(u) /\ Version(u, i)' = Version(u, f[i])
      BY <1>4
    <3>2. \A i, j \in Versions(u)' : i < j => f[i] < f[j]
      OBVIOUS
    <3>3. removed \subseteq removed'
      BY <1>1
    <3> HIDE DEF f
    <3> QED
      BY <1>1, <3>1, <3>2, <3>3, Thinned
  <2> QED
    BY <2>1, <2>2 DEF NothingReturns
<1>9. NewIsUnsaved'
  <2>1. ASSUME NEW u \in Tabs, NEW i \in Versions(u)'
        PROVE  (Slots(Version(u, i)') \ Slots(base'[u])) \cap saved = {}
    <3>1. CASE u = t
      BY <1>2, <1>3, <3>1
    <3>2. CASE u # t
      BY <1>1, <1>2, <1>4, <3>2 DEF NewIsUnsaved
    <3> QED
      BY <3>1, <3>2
  <2> QED
    BY <1>1, <2>1 DEF NewIsUnsaved
<1>10. UnsavedIsOnes'
  <2>1. \A i \in Versions(t)' : Slots(Version(t, i)') \subseteq saved
    BY <1>1, <1>3 DEF HistoryFits
  <2>2. ASSUME NEW u \in Tabs, NEW v \in Tabs, u # v, NEW i \in Versions(u)', NEW j \in Versions(v)'
        PROVE  Slots(Version(u, i)') \cap Slots(Version(v, j)') \subseteq saved
    <3>1. CASE u = t \/ v = t
      BY <2>1, <3>1
    <3>2. CASE u # t /\ v # t
      BY <1>1, <1>4, <2>2, <3>2 DEF UnsavedIsOnes
    <3> QED
      BY <3>1, <3>2
  <2> QED
    BY <1>1, <2>2 DEF UnsavedIsOnes
<1>11. HistoryFits'
  BY <1>1 DEF HistoryFits
<1> QED
  BY <1>5, <1>6, <1>7, <1>8, <1>9, <1>10, <1>11 DEF VersionsInv

\* Whatever leaves the row, the copies and their history alone keeps the invariant.
LEMMA RestKeeps ==
  ASSUME VersionsInv, UNCHANGED <<name, row, store, base, pending, failed, saved, removed, minted>>
  PROVE  VersionsInv'
<1>1. \A u \in Tabs : Versions(u)' = Versions(u) /\ \A i \in Versions(u) : Version(u, i)' = Version(u, i)
  BY Kept
<1>2. QueuesFit' /\ LastIsShown' /\ HistoryFits'
  BY DEF VersionsInv, QueuesFit, LastIsShown, HistoryFits
<1>3. ValuesFit'
  <2>1. \A u \in Tabs : \A i \in Versions(u)' : Fits(Version(u, i)', minted)
    BY <1>1 DEF VersionsInv, ValuesFit
  <2> QED
    BY <2>1 DEF VersionsInv, ValuesFit, Fits
<1>4. NothingReturns'
  BY <1>1 DEF VersionsInv, NothingReturns, Follows, WasRemoved
<1>5. NewIsUnsaved' /\ UnsavedIsOnes'
  BY <1>1 DEF VersionsInv, NewIsUnsaved, UnsavedIsOnes
<1> QED
  BY <1>2, <1>3, <1>4, <1>5 DEF VersionsInv

-----------------------------------------------------------------------------
(* Every act of a user is such a growth. *)

\* How one value is made from another: what is new has the new id, and what is
\* left out is among what is gone.
Rewrites(S, s, last, gone) ==
  /\ s = [entries |-> s.entries, lists |-> s.lists, active |-> s.active]
  /\ s.active \in 1 .. last \cup {None}
  /\ \A k \in DOMAIN s.entries : k \in DOMAIN S.entries \/ (k = NewId /\ last = NewId)
  /\ \A k \in DOMAIN S.entries \ DOMAIN s.entries : <<None, k>> \in gone
  /\ DOMAIN s.lists \subseteq IF name = "chat" THEN DOMAIN s.entries ELSE Owners
  /\ \A k \in DOMAIN s.lists : \A i \in DOMAIN s.lists[k] :
       (k \in DOMAIN S.lists /\ i \in DOMAIN S.lists[k]) \/ (i = NewId /\ last = NewId)
  /\ \A k \in DOMAIN S.lists \ DOMAIN s.lists : <<None, k>> \in gone
  /\ \A k \in DOMAIN S.lists \cap DOMAIN s.lists :
       \A i \in DOMAIN S.lists[k] \ DOMAIN s.lists[k] : <<k, i>> \in gone

\* A value rewritten from what the tab shows follows it.
LEMMA RewriteFollows ==
  ASSUME minted \in Nat, NEW S, Fits(S, minted), NEW last \in {minted, NewId}, NEW gone, NEW s,
         Rewrites(S, s, last, gone)
  PROVE  /\ Fits(s, last)
         /\ \A x \in Slots(s) : x \in Slots(S) \/ x[2] \notin 1 .. minted
         /\ Follows(gone, S, s)
<1>1. last \in Nat /\ minted <= last /\ NewId \notin 1 .. minted /\ NewId \in 1 .. NewId
  BY DEF NewId
<1>2. None \notin Owners /\ None \notin 1 .. last /\ None \notin 1 .. minted
  BY InheritedAssumption, <1>1
<1>3. DOMAIN s.entries \subseteq 1 .. last
  <2>1. DOMAIN S.entries \subseteq 1 .. minted
    BY FitsParts
  <2>2. 1 .. minted \subseteq 1 .. last
    BY <1>1
  <2> QED
    BY <1>1, <2>1, <2>2 DEF Rewrites
<1>4. None \notin DOMAIN S.lists /\ None \notin DOMAIN s.lists
  <2>1. None \notin DOMAIN S.lists
    BY FitsParts
  <2> QED
    BY <1>2, <1>3, <2>1 DEF Rewrites
<1>5. /\ \A k : <<None, k>> \in Slots(S) <=> k \in DOMAIN S.entries
      /\ \A k : <<None, k>> \in Slots(s) <=> k \in DOMAIN s.entries
      /\ \A k, i : k # None => (<<k, i>> \in Slots(S) <=> k \in DOMAIN S.lists /\ i \in DOMAIN S.lists[k])
      /\ \A k, i : k # None => (<<k, i>> \in Slots(s) <=> k \in DOMAIN s.lists /\ i \in DOMAIN s.lists[k])
  BY <1>4, EntrySlot, ListSlot
<1>6. ASSUME NEW r, NEW x \in Slots(r) PROVE \E k, i : x = <<k, i>>
  BY SlotIs
<1>7. ASSUME NEW x \in Slots(s) PROVE x \in Slots(S) \/ (x[2] = NewId /\ last = NewId)
  <2>1. PICK k, i : x = <<k, i>>
    BY <1>6
  <2>2. CASE k = None
    BY <1>5, <2>1, <2>2 DEF Rewrites
  <2>3. CASE k # None
    BY <1>5, <2>1, <2>3 DEF Rewrites
  <2> QED
    BY <2>2, <2>3
<1>8. \A x \in Slots(s) : x[2] \in 1 .. last
  <2>1. \A x \in Slots(S) : x[2] \in 1 .. minted
    BY DEF Fits
  <2>2. 1 .. minted \subseteq 1 .. last
    BY <1>1
  <2> QED
    BY <1>1, <1>7, <2>1, <2>2
<1>9. Fits(s, last)
  BY <1>8 DEF Fits, IsRow, Rewrites
<1>10. Follows(gone, S, s)
  <2>1. ASSUME NEW x \in Slots(S) \ Slots(s) PROVE WasRemoved(gone, x)
    <3>1. PICK k, i : x = <<k, i>> /\ x[1] = k
      BY <1>6
    <3>2. CASE k = None
      BY <1>5, <3>1, <3>2 DEF Rewrites, WasRemoved
    <3>3. CASE k # None
      BY <1>5, <3>1, <3>3 DEF Rewrites, WasRemoved
    <3> QED
      BY <3>2, <3>3
  <2> QED
    BY <2>1 DEF Follows, Rewrites
<1> QED
  BY <1>1, <1>7, <1>9, <1>10

\* A tab that queues one such value.
LEMMA OneGrows ==
  ASSUME VersionsInv, NEW t \in Tabs, NEW s, Set(t, <<s>>), minted' \in {minted, NewId},
         removed \subseteq removed', \A x \in removed' : x \in removed \/ x[2] \in 1 .. minted,
         Rewrites(store[t], s, minted', removed'),
         UNCHANGED <<name, row, base, failed, undone, saved>>
  PROVE  Grows(t, <<s>>)
<1>1. minted \in Nat /\ IsSeq(pending[t]) /\ ValuesFit
  BY DEF VersionsInv, QueuesFit
<1>2. Fits(store[t], minted)
  <2>1. Len(pending[t]) \in Nat
    BY <1>1, SeqParts
  <2>2. Len(pending[t]) + 1 \in Versions(t) /\ Version(t, Len(pending[t]) + 1) = store[t]
    BY <2>1 DEF Versions, Version
  <2> QED
    BY <1>1, <2>2 DEF ValuesFit
<1>3. /\ Fits(s, minted')
      /\ \A x \in Slots(s) : x \in Slots(store[t]) \/ x[2] \notin 1 .. minted
      /\ Follows(removed', store[t], s)
  BY <1>1, <1>2, RewriteFollows
<1>4. IsSeq(<<s>>) /\ Len(<<s>>) = 1 /\ <<s>>[1] = s
  BY OneState
<1>5. \A j \in 1 .. Len(<<s>>) : <<s>>[j] = s
  BY <1>4
<1>6. Follows(removed', s, s)
  BY DEF Follows
<1> HIDE DEF Rewrites
<1> QED
  BY <1>3, <1>4, <1>5, <1>6 DEF Grows

-----------------------------------------------------------------------------
(* What is so of those a tab is adding or has given up. *)

\* A tab's own tasks at such an act: a new person, or one its user gives up.
TasksGrow(t) ==
  /\ moves' \in 0 .. MaxMoves /\ failures' \in 0 .. MaxFailures
  /\ DOMAIN staged' = Tabs /\ DOMAIN discards' = Tabs /\ DOMAIN reported' = Tabs
  /\ \A u \in Tabs \ {t} : /\ staged'[u] = staged[u] /\ discards'[u] = discards[u]
                           /\ reported'[u] = reported[u]
  /\ staged'[t] = Nothing \/ staged'[t].id \in 1 .. minted'
  /\ \A p \in DOMAIN discards'[t] : /\ discards'[t][p] \in [wait : BOOLEAN, left : 0 .. MaxRetries]
                                    /\ discards'[t][p].wait => discards'[t][p].left > 0
  /\ \A p \in Own(t)' : p \in Own(t) \/ (p = NewId /\ minted' = NewId)
  /\ \A p \in DOMAIN discards'[t] \cup reported'[t] :
       \/ p \in DOMAIN discards[t] \cup reported[t]
       \/ p \in 1 .. minted /\ <<None, p>> \in removed' /\ <<None, p>> \notin Slots(store'[t])

\* A person that a tab only knew stays so when a tab queues something.
LEMMA GrowsKnown ==
  ASSUME VersionsInv, NEW t \in Tabs, NEW states, Grows(t, states),
         NEW u \in Tabs, NEW p \in 1 .. minted, OnlyKnown(u, p)
  PROVE  OnlyKnown(u, p)'
<1> DEFINE n == Len(pending[t])
<1>1. QueuesFit /\ IsSeq(states) /\ Len(states) > 0 /\ Set(t, states) /\ base' = base /\ n \in Nat
  <2>1. QueuesFit /\ IsSeq(pending[t])
    BY DEF VersionsInv, QueuesFit
  <2> QED
    BY <2>1, SeqParts DEF Grows
<1>2. /\ \A i \in Versions(t)' :
           \/ i \in Versions(t) /\ Version(t, i)' = Version(t, i)
           \/ \E j \in 1 .. Len(states) : Version(t, i)' = states[j]
      /\ \A v \in Tabs \ {t} : pending'[v] = pending[v] /\ store'[v] = store[v]
  <2>1. /\ \A i \in Versions(t)' :
             \/ i \in Versions(t) /\ i <= n /\ Version(t, i)' = Version(t, i)
             \/ /\ i > n
                /\ \E j \in 1 .. Len(states) : /\ Version(t, i)' = states[j]
                                               /\ j = IF i - n <= Len(states) THEN i - n ELSE Len(states)
        /\ \A v \in Tabs \ {t} : pending'[v] = pending[v] /\ store'[v] = store[v]
    BY <1>1, Grown
  <2> QED
    BY <2>1
<1>3. CASE u = t
  <2>1. n + 1 \in Versions(t) /\ Version(t, n + 1) = store[t]
    BY <1>1 DEF Versions, Version
  <2>2. \A j \in 1 .. Len(states) : <<None, p>> \in Slots(states[j]) => <<None, p>> \in Slots(base[t])
    <3> SUFFICES ASSUME NEW j \in 1 .. Len(states), <<None, p>> \in Slots(states[j])
                 PROVE  <<None, p>> \in Slots(base[t])
      OBVIOUS
    <3>1. <<None, p>>[2] = p
      OBVIOUS
    <3>2. <<None, p>> \in Slots(store[t])
      BY <3>1 DEF Grows
    <3> QED
      BY <1>3, <2>1, <3>2 DEF OnlyKnown
  <2> QED
    BY <1>1, <1>2, <1>3, <2>2 DEF OnlyKnown
<1>4. CASE u # t
  <2>1. Versions(u)' = Versions(u) /\ \A i \in Versions(u) : Version(u, i)' = Version(u, i)
    BY <1>1, <1>2, <1>4, Kept
  <2> QED
    BY <1>1, <2>1 DEF OnlyKnown
<1> QED
  BY <1>3, <1>4

\* Whom a tab is adding or has given up has an id that was given.
LEMMA OwnFits ==
  ASSUME RollbacksFit, NEW t \in Tabs, NEW p \in Own(t)
  PROVE  p \in 1 .. minted
<1>1. /\ staged[t] = Nothing \/ staged[t].id \in 1 .. minted
      /\ \A q \in DOMAIN discards[t] \cup reported[t] : q \in 1 .. minted
  BY DEF RollbacksFit
<1>2. Nothing.id = None
  BY DEF Nothing
<1> QED
  BY <1>1, <1>2 DEF Own

\* An id that was not given is in no value.
LEMMA UngivenIsNowhere ==
  ASSUME ValuesFit, NEW p, p \notin 1 .. minted
  PROVE  /\ <<None, p>> \notin Slots(row)
         /\ \A u \in Tabs : OnlyKnown(u, p)
<1>1. <<None, p>>[2] = p
  OBVIOUS
<1> QED
  BY <1>1 DEF ValuesFit, Fits, OnlyKnown

\* A user's act keeps the rollbacks honest, if it does to its own tasks what TasksGrow says.
LEMMA GrowsTasks ==
  ASSUME VersionsInv, TasksInv, NEW t \in Tabs, NEW states, Grows(t, states), TasksGrow(t)
  PROVE  TasksInv'
<1>1. RollbacksFit /\ OwnIsUnknown /\ UndoneIsGone /\ ValuesFit /\ QueuesFit /\ minted \in Nat
  BY DEF TasksInv, VersionsInv, QueuesFit
<1>2. /\ removed \subseteq removed' /\ UNCHANGED <<name, row, base, failed, undone, saved>>
      /\ minted' \in {minted, NewId} /\ minted' \in Nat /\ minted <= minted' /\ NewId \notin 1 .. minted
      /\ IsSeq(states) /\ Len(states) > 0 /\ Set(t, states)
  BY <1>1 DEF Grows, NewId
<1>3. \A p \in 1 .. minted : p \in 1 .. minted'
  BY <1>1, <1>2
<1>4. /\ \A u \in Tabs \ {t} : store'[u] = store[u]
      /\ store'[t] = states[Len(states)] /\ Len(states) \in 1 .. Len(states)
  <2>1. Len(states) \in Nat
    BY <1>2, SeqParts
  <2>2. \A u \in Tabs \ {t} : store'[u] = store[u]
    BY <1>1, <1>2 DEF Set, QueuesFit
  <2>3. store'[t] = states[Len(states)]
    BY <1>1, <1>2 DEF Set, QueuesFit
  <2> QED
    BY <1>2, <2>1, <2>2, <2>3
<1>5. RollbacksFit'
  <2>1. ASSUME NEW u \in Tabs, NEW p \in DOMAIN discards'[u] \cup reported'[u]
        PROVE  p \in 1 .. minted' /\ <<None, p>> \in removed' /\ <<None, p>> \notin Slots(store'[u])
    <3>1. CASE p \in DOMAIN discards[u] \cup reported[u]
      <4>1. p \in 1 .. minted /\ <<None, p>> \in removed /\ <<None, p>> \notin Slots(store[u])
        BY <1>1, <3>1 DEF RollbacksFit
      <4>2. <<None, p>> \notin Slots(store'[u])
        <5>1. CASE u = t
          <6>1. <<None, p>>[2] = p
            OBVIOUS
          <6>2. \A x \in Slots(states[Len(states)]) : x \in Slots(store[t]) \/ x[2] \notin 1 .. minted
            BY <1>4 DEF Grows
          <6> QED
            BY <1>4, <4>1, <5>1, <6>1, <6>2
        <5>2. CASE u # t
          BY <1>4, <4>1, <5>2
        <5> QED
          BY <5>1, <5>2
      <4> QED
        BY <1>2, <1>3, <4>1, <4>2
    <3>2. CASE u = t /\ p \in 1 .. minted /\ <<None, p>> \in removed' /\ <<None, p>> \notin Slots(store'[t])
      BY <1>3, <3>2
    <3> QED
      BY <2>1, <3>1, <3>2 DEF TasksGrow
  <2>2. \A u \in Tabs : staged'[u] = Nothing \/ staged'[u].id \in 1 .. minted'
    BY <1>1, <1>3 DEF RollbacksFit, TasksGrow
  <2>3. ASSUME NEW u \in Tabs, NEW p \in DOMAIN discards'[u]
        PROVE  /\ discards'[u][p] \in [wait : BOOLEAN, left : 0 .. MaxRetries]
               /\ discards'[u][p].wait => discards'[u][p].left > 0
    BY <1>1, <2>3 DEF RollbacksFit, TasksGrow
  <2> QED
    BY <2>1, <2>2, <2>3 DEF RollbacksFit, TasksGrow
<1>6. OwnIsUnknown'
  <2>1. ASSUME NEW u \in Tabs, NEW p \in Own(u)'
        PROVE  \/ p \in Own(u)
               \/ u = t /\ p \notin 1 .. minted
    BY <1>2, <2>1 DEF TasksGrow, Own
  <2>2. ASSUME NEW u \in Tabs, NEW p \in Own(u)', NEW v \in Tabs \ {u}
        PROVE  OnlyKnown(v, p)'
    <3>1. CASE p \in Own(u)
      <4>1. OnlyKnown(v, p) /\ p \in 1 .. minted
        BY <1>1, <3>1, OwnFits DEF OwnIsUnknown
      <4> QED
        BY <4>1, GrowsKnown
    <3>2. CASE u = t /\ p \notin 1 .. minted
      <4>1. OnlyKnown(v, p) /\ v # t
        BY <1>1, <3>2, UngivenIsNowhere
      <4>2. pending'[v] = pending[v] /\ store'[v] = store[v] /\ base'[v] = base[v]
        BY <1>1, <1>2, <4>1 DEF Set, QueuesFit
      <4>3. Versions(v)' = Versions(v) /\ \A i \in Versions(v) : Version(v, i)' = Version(v, i)
        BY <4>2, Kept
      <4> QED
        BY <4>1, <4>2, <4>3 DEF OnlyKnown
    <3> QED
      BY <2>1, <3>1, <3>2
  <2>3. ASSUME NEW u \in Tabs, NEW p \in Own(u)'
        PROVE  <<None, p>> \in Slots(row') => <<None, p>> \in Slots(base'[u])
    <3>1. CASE p \in Own(u)
      BY <1>1, <1>2, <3>1 DEF OwnIsUnknown
    <3>2. CASE p \notin 1 .. minted
      BY <1>1, <1>2, <3>2, UngivenIsNowhere
    <3> QED
      BY <2>1, <3>1, <3>2
  <2> QED
    BY <2>2, <2>3 DEF OwnIsUnknown
<1>7. UndoneIsGone'
  <2>1. ASSUME NEW p \in undone, NEW u \in Tabs PROVE OnlyKnown(u, p)'
    BY <1>1, <2>1, GrowsKnown DEF UndoneIsGone
  <2> QED
    BY <1>1, <1>2, <1>3, <2>1 DEF UndoneIsGone
<1> QED
  BY <1>5, <1>6, <1>7 DEF TasksInv

\* A committed write keeps the rollbacks honest.
LEMMA CommitTasks ==
  ASSUME VersionsInv, TasksInv, NEW t \in Tabs, CommitWrite(t)
  PROVE  TasksInv'
<1> DEFINE n == Len(pending[t])
<1>1. /\ QueuesFit /\ NothingReturns /\ RollbacksFit /\ OwnIsUnknown /\ UndoneIsGone
      /\ pending[t] # <<>> /\ Dequeue(t)
      /\ UNCHANGED <<name, store, staged, discards, reported, undone, minted, removed, moves, failures>>
  BY DEF VersionsInv, TasksInv, CommitWrite
<1>2. /\ n \in Nat /\ n > 0
      /\ \A i \in Versions(t)' : /\ i \in Versions(t) /\ i + 1 \in Versions(t)
                                 /\ i # 0 => Version(t, i)' = Version(t, i + 1)
      /\ \A u \in Tabs \ {t} : pending'[u] = pending[u]
  BY <1>1, Shrunk
<1>3. /\ \A x \in Slots(row') : x \in Slots(row) \/ (x \in Slots(Version(t, 1)) /\ x \notin Slots(base[t]))
      /\ \A x \in Slots(base[t]) \ Slots(Version(t, 1)) : x[1] = None => x \notin Slots(row')
      /\ base'[t] = Version(t, 1) /\ \A u \in Tabs \ {t} : base'[u] = base[u]
  BY CommitRow
<1>4. /\ 0 \in Versions(t) /\ 1 \in Versions(t) /\ Version(t, 0) = base[t]
      /\ \A i \in Versions(t) : i \in Nat
  BY <1>2 DEF Versions, Version
<1>5. ASSUME NEW u \in Tabs, NEW p, OnlyKnown(u, p)
      PROVE  OnlyKnown(u, p)'
  <2>1. CASE u = t
    <3>1. ASSUME NEW i \in Versions(t)', <<None, p>> \in Slots(Version(t, i)')
          PROVE  <<None, p>> \in Slots(base'[t])
      <4>1. CASE i = 0
        BY <3>1, <4>1 DEF Version
      <4>2. CASE i # 0
        <5>1. /\ i \in Nat /\ i + 1 \in Versions(t) /\ <<None, p>> \in Slots(Version(t, i + 1))
          BY <1>2, <1>4, <3>1, <4>2
        <5>2. <<None, p>> \in Slots(Version(t, 0))
          BY <1>4, <1>5, <2>1, <5>1 DEF OnlyKnown
        <5>3. 0 < 1 /\ 1 < i + 1
          BY <4>2, <5>1
        <5>4. Slots(Version(t, 0)) \cap Slots(Version(t, i + 1)) \subseteq Slots(Version(t, 1))
          BY <1>1, <1>4, <5>1, <5>3 DEF NothingReturns
        <5> QED
          BY <1>3, <5>1, <5>2, <5>4
      <4> QED
        BY <4>1, <4>2
    <3> QED
      BY <2>1, <3>1 DEF OnlyKnown
  <2>2. CASE u # t
    <3>1. pending'[u] = pending[u] /\ store'[u] = store[u] /\ base'[u] = base[u]
      BY <1>1, <1>2, <1>3, <2>2
    <3>2. Versions(u)' = Versions(u) /\ \A i \in Versions(u) : Version(u, i)' = Version(u, i)
      BY <3>1, Kept
    <3> QED
      BY <1>5, <3>1, <3>2 DEF OnlyKnown
  <2> QED
    BY <2>1, <2>2
<1>6. RollbacksFit'
  BY <1>1 DEF RollbacksFit
<1>7. \A p : <<None, p>>[1] = None
  OBVIOUS
<1>8. \A p : OnlyKnown(t, p) => ~(<<None, p>> \in Slots(Version(t, 1)) /\ <<None, p>> \notin Slots(base[t]))
  BY <1>4 DEF OnlyKnown
<1>9. OwnIsUnknown'
  <2>1. \A u \in Tabs : Own(u)' = Own(u)
    BY <1>1 DEF Own
  <2>2. ASSUME NEW u \in Tabs, NEW p \in Own(u), <<None, p>> \in Slots(row')
        PROVE  <<None, p>> \in Slots(base'[u])
    <3>1. CASE u = t
      <4>1. \/ <<None, p>> \in Slots(base[t])
            \/ <<None, p>> \in Slots(Version(t, 1))
        BY <1>1, <1>3, <2>2, <3>1 DEF OwnIsUnknown
      <4> QED
        BY <1>3, <1>7, <2>2, <3>1, <4>1
    <3>2. CASE u # t
      <4>1. OnlyKnown(t, p)
        BY <1>1, <2>2, <3>2 DEF OwnIsUnknown
      <4>2. <<None, p>> \in Slots(row)
        BY <1>3, <1>8, <2>2, <4>1
      <4> QED
        BY <1>1, <1>3, <2>2, <3>2, <4>2 DEF OwnIsUnknown
    <3> QED
      BY <3>1, <3>2
  <2>3. \A u \in Tabs : \A p \in Own(u) : \A v \in Tabs \ {u} : OnlyKnown(v, p)'
    BY <1>1, <1>5 DEF OwnIsUnknown
  <2> QED
    BY <2>1, <2>2, <2>3 DEF OwnIsUnknown
<1>10. UndoneIsGone'
  <2>1. ASSUME NEW p \in undone
        PROVE  /\ p \in 1 .. minted /\ <<None, p>> \notin Slots(row')
               /\ \A u \in Tabs : OnlyKnown(u, p)'
    BY <1>1, <1>3, <1>5, <1>8, <2>1 DEF UndoneIsGone
  <2> QED
    BY <1>1, <2>1 DEF UndoneIsGone
<1> QED
  BY <1>6, <1>9, <1>10 DEF TasksInv

\* A failed write keeps the rollbacks honest.
LEMMA FailTasks ==
  ASSUME VersionsInv, TasksInv, NEW t \in Tabs, FailWrite(t)
  PROVE  TasksInv'
<1>1. /\ QueuesFit /\ RollbacksFit /\ OwnIsUnknown /\ UndoneIsGone
      /\ pending[t] # <<>> /\ Dequeue(t) /\ failures < MaxFailures /\ failures' = failures + 1
      /\ UNCHANGED <<name, row, store, base, staged, discards, reported, undone, minted, removed, moves>>
  BY DEF VersionsInv, TasksInv, FailWrite, history
<1>2. /\ Len(pending[t]) \in Nat
      /\ \A i \in Versions(t)' : /\ i \in Versions(t) /\ i + 1 \in Versions(t)
                                 /\ i # 0 => Version(t, i)' = Version(t, i + 1)
      /\ \A u \in Tabs \ {t} : pending'[u] = pending[u]
  BY <1>1, Shrunk
<1>3. ASSUME NEW u \in Tabs, NEW p, OnlyKnown(u, p)
      PROVE  OnlyKnown(u, p)'
  <2>1. CASE u = t
    <3>1. \A i \in Versions(t)' : \E j \in Versions(t) : Version(t, i)' = Version(t, j)
      <4> TAKE i \in Versions(t)'
      <4>1. CASE i = 0
        BY <1>1, <1>2, <4>1 DEF Version
      <4> QED
        BY <1>2, <4>1
    <3> QED
      BY <1>1, <1>3, <2>1, <3>1 DEF OnlyKnown
  <2>2. CASE u # t
    <3>1. Versions(u)' = Versions(u) /\ \A i \in Versions(u) : Version(u, i)' = Version(u, i)
      BY <1>1, <1>2, <2>2, Kept
    <3> QED
      BY <1>1, <1>3, <3>1 DEF OnlyKnown
  <2> QED
    BY <2>1, <2>2
<1>4. RollbacksFit'
  <2>1. MaxFailures \in Nat
    BY InheritedAssumption
  <2>2. failures' \in 0 .. MaxFailures
    BY <1>1, <2>1 DEF RollbacksFit
  <2> QED
    BY <1>1, <2>2 DEF RollbacksFit
<1>5. OwnIsUnknown'
  <2>1. \A u \in Tabs : Own(u)' = Own(u)
    BY <1>1 DEF Own
  <2> QED
    BY <1>1, <1>3, <2>1 DEF OwnIsUnknown
<1>6. UndoneIsGone'
  BY <1>1, <1>3 DEF UndoneIsGone
<1> QED
  BY <1>4, <1>5, <1>6 DEF TasksInv

\* A tab that loads again forgets its tasks and its unsaved changes.
LEMMA ReloadTasks ==
  ASSUME VersionsInv, TasksInv, NEW t \in Tabs, Reload(t)
  PROVE  TasksInv'
<1>1. /\ QueuesFit /\ RollbacksFit /\ OwnIsUnknown /\ UndoneIsGone
      /\ moves < MaxMoves /\ moves' = moves + 1
      /\ UNCHANGED <<name, row, undone, minted, removed, failures>>
  BY DEF VersionsInv, TasksInv, Reload, history
<1>2. /\ store'[t] = row /\ base'[t] = row /\ pending'[t] = <<>>
      /\ staged'[t] = Nothing /\ discards'[t] = <<>> /\ reported'[t] = {}
      /\ DOMAIN staged' = Tabs /\ DOMAIN discards' = Tabs /\ DOMAIN reported' = Tabs
      /\ \A u \in Tabs \ {t} : /\ store'[u] = store[u] /\ base'[u] = base[u] /\ pending'[u] = pending[u]
                               /\ staged'[u] = staged[u] /\ discards'[u] = discards[u]
                               /\ reported'[u] = reported[u]
  BY <1>1 DEF Reload, QueuesFit, RollbacksFit
<1>3. ASSUME NEW u \in Tabs, NEW p, OnlyKnown(u, p)
      PROVE  OnlyKnown(u, p)'
  <2>1. CASE u = t
    <3>1. \A i \in Versions(t)' : Version(t, i)' = row
      BY <1>2 DEF Versions, Version
    <3> QED
      BY <1>2, <2>1, <3>1 DEF OnlyKnown
  <2>2. CASE u # t
    <3>1. Versions(u)' = Versions(u) /\ \A i \in Versions(u) : Version(u, i)' = Version(u, i)
      BY <1>2, <2>2, Kept
    <3> QED
      BY <1>2, <1>3, <2>2, <3>1 DEF OnlyKnown
  <2> QED
    BY <2>1, <2>2
<1>4. DOMAIN <<>> = {}
  OBVIOUS
<1>5. RollbacksFit'
  <2>1. MaxMoves \in Nat
    BY InheritedAssumption
  <2>2. moves' \in 0 .. MaxMoves
    BY <1>1, <2>1 DEF RollbacksFit
  <2>3. ASSUME NEW u \in Tabs
        PROVE  /\ staged'[u] = Nothing \/ staged'[u].id \in 1 .. minted
               /\ \A p \in DOMAIN discards'[u] : /\ discards'[u][p] \in [wait : BOOLEAN, left : 0 .. MaxRetries]
                                                 /\ discards'[u][p].wait => discards'[u][p].left > 0
               /\ \A p \in DOMAIN discards'[u] \cup reported'[u] :
                    p \in 1 .. minted /\ <<None, p>> \in removed /\ <<None, p>> \notin Slots(store'[u])
    <3>1. CASE u = t
      BY <1>2, <1>4, <3>1
    <3>2. CASE u # t
      BY <1>1, <1>2, <3>2 DEF RollbacksFit
    <3> QED
      BY <3>1, <3>2
  <2> QED
    BY <1>1, <1>2, <2>2, <2>3 DEF RollbacksFit
<1>6. OwnIsUnknown'
  <2>1. Own(t)' = {} /\ \A u \in Tabs \ {t} : Own(u)' = Own(u)
    BY <1>2, <1>4 DEF Own, Nothing
  <2> QED
    BY <1>1, <1>2, <1>3, <2>1 DEF OwnIsUnknown
<1>7. UndoneIsGone'
  BY <1>1, <1>3 DEF UndoneIsGone
<1> QED
  BY <1>5, <1>6, <1>7 DEF TasksInv

-----------------------------------------------------------------------------
(* The acts, one by one. *)

\* What a tab shows is a row whose ids were given.
LEMMA StoreFits ==
  ASSUME VersionsInv, NEW t \in Tabs
  PROVE  /\ minted \in Nat /\ NewId \in Nat /\ minted <= NewId /\ Fits(store[t], minted)
         /\ store[t] = [entries |-> store[t].entries, lists |-> store[t].lists, active |-> store[t].active]
         /\ store[t].active \in 1 .. minted \cup {None}
         /\ DOMAIN store[t].entries \subseteq 1 .. minted
         /\ DOMAIN store[t].lists \subseteq IF name = "chat" THEN DOMAIN store[t].entries ELSE Owners
         /\ None \notin DOMAIN store[t].lists
<1>1. minted \in Nat /\ IsSeq(pending[t]) /\ ValuesFit
  BY DEF VersionsInv, QueuesFit
<1>2. Len(pending[t]) \in Nat
  BY <1>1, SeqParts
<1>3. Len(pending[t]) + 1 \in Versions(t) /\ Version(t, Len(pending[t]) + 1) = store[t]
  BY <1>2 DEF Versions, Version
<1>4. Fits(store[t], minted)
  BY <1>1, <1>3 DEF ValuesFit
<1>5. NewId \in Nat /\ minted <= NewId
  BY <1>1 DEF NewId
<1> QED
  BY <1>1, <1>4, <1>5, FitsParts DEF Fits, IsRow

\* The bounds on what users do.
LEMMA ActsFit ==
  ASSUME TasksInv, NEW t, NEW n, Acts(t, n)
  PROVE  /\ name = n /\ moves' \in 0 .. MaxMoves /\ failures' \in 0 .. MaxFailures
         /\ UNCHANGED <<name, row, base, failed, undone, saved>>
<1>1. moves \in 0 .. MaxMoves /\ failures \in 0 .. MaxFailures /\ MaxMoves \in Nat
  BY InheritedAssumption DEF TasksInv, RollbacksFit
<1> QED
  BY <1>1 DEF Acts

\* An act that leaves the tab's tasks alone.
LEMMA ElsewhereTasks ==
  ASSUME VersionsInv, TasksInv, NEW t \in Tabs, Elsewhere,
         moves' \in 0 .. MaxMoves, failures' \in 0 .. MaxFailures, minted' \in {minted, NewId}
  PROVE  TasksGrow(t)
<1>1. 1 .. minted \subseteq 1 .. minted'
  <2>1. minted \in Nat /\ NewId \in Nat /\ minted <= NewId
    BY StoreFits
  <2> QED
    BY <2>1
<1>2. RollbacksFit
  BY DEF TasksInv
<1>3. staged'[t] = Nothing \/ staged'[t].id \in 1 .. minted'
  BY <1>1, <1>2 DEF RollbacksFit, Elsewhere
<1>4. Own(t)' = Own(t)
  BY DEF Own, Elsewhere
<1> QED
  BY <1>2, <1>3, <1>4 DEF RollbacksFit, Elsewhere, TasksGrow

\* A value with the same records and lists, or what they hold changed.
LEMMA SamePlaces ==
  ASSUME NEW S, DOMAIN S.lists \subseteq IF name = "chat" THEN DOMAIN S.entries ELSE Owners,
         NEW e, DOMAIN e = DOMAIN S.entries, NEW last, NEW a \in 1 .. last \cup {None}, NEW gone
  PROVE  Rewrites(S, [entries |-> e, lists |-> S.lists, active |-> a], last, gone)
<1> DEFINE s == [entries |-> e, lists |-> S.lists, active |-> a]
<1>1. s.entries = e /\ s.lists = S.lists /\ s.active = a
  OBVIOUS
<1>2. s = [entries |-> s.entries, lists |-> s.lists, active |-> s.active]
  OBVIOUS
<1> HIDE DEF s
<1>3. Rewrites(S, s, last, gone)
  BY <1>1, <1>2 DEF Rewrites
<1> QED
  BY <1>3 DEF s

\* An act that changes the records of a tab, or who is active, in their places.
LEMMA PlainGrows ==
  ASSUME VersionsInv, NEW t \in Tabs, NEW e, DOMAIN e = DOMAIN store[t].entries,
         NEW a \in 1 .. minted \cup {None},
         Set(t, <<[entries |-> e, lists |-> store[t].lists, active |-> a]>>),
         UNCHANGED <<name, row, base, failed, undone, saved, minted, removed>>
  PROVE  Grows(t, <<[entries |-> e, lists |-> store[t].lists, active |-> a]>>)
<1> DEFINE s == [entries |-> e, lists |-> store[t].lists, active |-> a]
<1>1. Rewrites(store[t], s, minted', removed')
  BY StoreFits, SamePlaces
<1>2. Set(t, <<s>>)
  OBVIOUS
<1> HIDE DEF s
<1>3. Grows(t, <<s>>)
  BY <1>1, <1>2, OneGrows
<1> QED
  BY <1>3 DEF s

\* An act is a growth of the tab's versions, and of its tasks.
Acted(t) == (\E states : Grows(t, states)) /\ TasksGrow(t)

\* The relation of the person being added is chosen again.
LEMMA RestageActs ==
  ASSUME VersionsInv, TasksInv, NEW t \in Tabs, Restage(t)
  PROVE  Acted(t)
<1> DEFINE S == store[t]
           a == staged[t].id
<1>1. /\ S = [entries |-> S.entries, lists |-> S.lists, active |-> S.active]
      /\ minted \in Nat
  BY StoreFits
<1>2. a \in 1 .. minted \cup {None}
  BY DEF TasksInv, RollbacksFit, Restage
<1>3. Set(t, <<[S EXCEPT !.active = a]>>)
  BY DEF Restage
<1>4. [S EXCEPT !.active = a] = [entries |-> S.entries, lists |-> S.lists, active |-> a]
  BY <1>1
<1>5. UNCHANGED <<name, row, base, failed, undone, saved, minted, removed>> /\ Elsewhere
      /\ moves' \in 0 .. MaxMoves /\ failures' \in 0 .. MaxFailures
  BY ActsFit DEF Restage, Edits
<1>6. Grows(t, <<[entries |-> S.entries, lists |-> S.lists, active |-> a]>>)
  BY <1>2, <1>3, <1>4, <1>5, PlainGrows
<1> QED
  BY <1>5, <1>6, ElsewhereTasks DEF Acted

\* A user turns to another person.
LEMMA SetActiveProfileActs ==
  ASSUME VersionsInv, TasksInv, NEW t \in Tabs, NEW p, SetActiveProfile(t, p)
  PROVE  Acted(t)
<1> DEFINE S == store[t]
<1>1. /\ S = [entries |-> S.entries, lists |-> S.lists, active |-> S.active]
      /\ DOMAIN S.entries \subseteq 1 .. minted
  BY StoreFits
<1>2. p \in 1 .. minted \cup {None}
  BY <1>1 DEF SetActiveProfile
<1>3. Set(t, <<[S EXCEPT !.active = p]>>)
  BY DEF SetActiveProfile
<1>4. [S EXCEPT !.active = p] = [entries |-> S.entries, lists |-> S.lists, active |-> p]
  BY <1>1
<1>5. UNCHANGED <<name, row, base, failed, undone, saved, minted, removed>> /\ Elsewhere
      /\ moves' \in 0 .. MaxMoves /\ failures' \in 0 .. MaxFailures
  BY ActsFit DEF SetActiveProfile, Edits
<1>6. Grows(t, <<[entries |-> S.entries, lists |-> S.lists, active |-> p]>>)
  BY <1>2, <1>3, <1>4, <1>5, PlainGrows
<1> QED
  BY <1>5, <1>6, ElsewhereTasks DEF Acted

\* Relating people keeps them, their lists and who is active.
LEMMA RelatedPlaces ==
  ASSUME NEW S, S = [entries |-> S.entries, lists |-> S.lists, active |-> S.active], NEW p, NEW rel
  PROVE  LET e == NormalizeRelatedTo([S.entries EXCEPT ![p].rel = rel])
         IN /\ Related(S, p, rel) = [entries |-> e, lists |-> S.lists, active |-> S.active]
            /\ DOMAIN e = DOMAIN S.entries
<1> DEFINE e == NormalizeRelatedTo([S.entries EXCEPT ![p].rel = rel])
<1>1. DOMAIN e = DOMAIN S.entries
  BY DEF NormalizeRelatedTo
<1>2. Related(S, p, rel) = [S EXCEPT !.entries = e]
  BY DEF Related
<1> HIDE DEF e
<1>3. [S EXCEPT !.entries = e] = [entries |-> e, lists |-> S.lists, active |-> S.active]
  OBVIOUS
<1> QED
  BY <1>1, <1>2, <1>3 DEF e

\* A user changes who the anchor is or how a person relates to it.
LEMMA RelatesActs ==
  ASSUME VersionsInv, TasksInv, NEW t \in Tabs, NEW p, NEW rel,
         Acts(t, "people"), Set(t, <<Related(store[t], p, rel)>>), Edits
  PROVE  Acted(t)
<1> DEFINE S == store[t]
           e == NormalizeRelatedTo([S.entries EXCEPT ![p].rel = rel])
<1>1. /\ S = [entries |-> S.entries, lists |-> S.lists, active |-> S.active]
      /\ S.active \in 1 .. minted \cup {None}
  BY StoreFits
<1>2. Related(S, p, rel) = [entries |-> e, lists |-> S.lists, active |-> S.active]
      /\ DOMAIN e = DOMAIN S.entries
  BY <1>1, RelatedPlaces
<1>3. UNCHANGED <<name, row, base, failed, undone, saved, minted, removed>> /\ Elsewhere
      /\ moves' \in 0 .. MaxMoves /\ failures' \in 0 .. MaxFailures
  BY ActsFit DEF Edits
<1> HIDE DEF e
<1>4. Grows(t, <<[entries |-> e, lists |-> S.lists, active |-> S.active]>>)
  BY <1>1, <1>2, <1>3, PlainGrows
<1> QED
  BY <1>3, <1>4, ElsewhereTasks DEF Acted

\* Charts of a person get another label.
LEMMA RenameChartsActs ==
  ASSUME VersionsInv, TasksInv, NEW t \in Tabs, NEW o, RenameCharts(t, o)
  PROVE  Acted(t)
<1> DEFINE S == store[t]
           charts == S.entries
           e == [c \in DOMAIN charts |->
                   IF charts[c].of = o THEN [charts[c] EXCEPT !.label = 1 - @] ELSE charts[c]]
<1>1. /\ S = [entries |-> S.entries, lists |-> S.lists, active |-> S.active]
      /\ S.active \in 1 .. minted \cup {None}
  BY StoreFits
<1>2. Set(t, <<[S EXCEPT !.entries = e]>>)
  BY DEF RenameCharts
<1>3. UNCHANGED <<name, row, base, failed, undone, saved, minted, removed>> /\ Elsewhere
      /\ moves' \in 0 .. MaxMoves /\ failures' \in 0 .. MaxFailures
  BY ActsFit DEF Edits, RenameCharts
<1>4. DOMAIN e = DOMAIN S.entries
  OBVIOUS
<1> HIDE DEF e
<1>5. [S EXCEPT !.entries = e] = [entries |-> e, lists |-> S.lists, active |-> S.active]
  BY <1>1
<1>6. Grows(t, <<[entries |-> e, lists |-> S.lists, active |-> S.active]>>)
  BY <1>1, <1>2, <1>3, <1>4, <1>5, PlainGrows
<1> QED
  BY <1>3, <1>6, ElsewhereTasks DEF Acted

\* A value with one list changed.
LEMMA ListPlaces ==
  ASSUME VersionsInv, NEW t \in Tabs, NEW last \in {minted, NewId}, NEW gone,
         NEW k \in IF name = "chat" THEN DOMAIN store[t].entries ELSE Owners,
         NEW list, \A i \in DOMAIN list : i \in DOMAIN List(t, k) \/ (i = NewId /\ last = NewId),
         \A i \in DOMAIN List(t, k) \ DOMAIN list : <<k, i>> \in gone,
         NEW e, DOMAIN e = DOMAIN store[t].entries
  PROVE  Rewrites(store[t], [entries |-> e, lists |-> Put(store[t].lists, k, list), active |-> store[t].active],
                  last, gone)
<1> DEFINE S == store[t]
           l == Put(S.lists, k, list)
           s == [entries |-> e, lists |-> l, active |-> S.active]
<1>1. /\ DOMAIN S.lists \subseteq IF name = "chat" THEN DOMAIN S.entries ELSE Owners
      /\ S.active \in 1 .. minted \cup {None} /\ minted \in Nat /\ NewId \in Nat /\ minted <= NewId
  BY StoreFits
<1>2. /\ DOMAIN l = DOMAIN S.lists \cup {k} /\ l[k] = list
      /\ \A x \in DOMAIN S.lists \ {k} : l[x] = S.lists[x]
  BY DEF Put
<1>3. List(t, k) = IF k \in DOMAIN S.lists THEN S.lists[k] ELSE <<>>
  BY DEF List
<1>4. s.entries = e /\ s.lists = l /\ s.active = S.active
      /\ s = [entries |-> s.entries, lists |-> s.lists, active |-> s.active]
  OBVIOUS
<1> HIDE DEF l, s
<1>5. DOMAIN <<>> = {}
  OBVIOUS
<1>6. \A x \in DOMAIN l : \A i \in DOMAIN l[x] :
        (x \in DOMAIN S.lists /\ i \in DOMAIN S.lists[x]) \/ (i = NewId /\ last = NewId)
  <2> TAKE x \in DOMAIN l
  <2> TAKE i \in DOMAIN l[x]
  <2>1. CASE x = k
    <3>1. i \in DOMAIN List(t, k) \/ (i = NewId /\ last = NewId)
      BY <1>2, <2>1
    <3> QED
      BY <1>3, <1>5, <2>1, <3>1
  <2>2. CASE x # k
    BY <1>2, <2>2
  <2> QED
    BY <2>1, <2>2
<1>7. \A x \in DOMAIN S.lists \cap DOMAIN l : \A i \in DOMAIN S.lists[x] \ DOMAIN l[x] : <<x, i>> \in gone
  <2> TAKE x \in DOMAIN S.lists \cap DOMAIN l
  <2>1. CASE x = k
    BY <1>2, <1>3, <2>1
  <2>2. CASE x # k
    BY <1>2, <2>2
  <2> QED
    BY <2>1, <2>2
<1>8. s.active \in 1 .. last \cup {None}
  <2>1. last \in Nat /\ minted <= last
    BY <1>1
  <2>2. 1 .. minted \subseteq 1 .. last
    BY <1>1, <2>1
  <2> QED
    BY <1>1, <1>4, <2>2
<1>9. Rewrites(S, s, last, gone)
  BY <1>1, <1>2, <1>4, <1>6, <1>7, <1>8 DEF Rewrites
<1> QED
  BY <1>9 DEF s, l

\* An act on one list.
LEMMA ListActs ==
  ASSUME VersionsInv, TasksInv, NEW t \in Tabs, NEW n, Acts(t, n), Elsewhere, minted' \in {minted, NewId},
         removed \subseteq removed', \A x \in removed' : x \in removed \/ x[2] \in 1 .. minted,
         NEW k \in IF name = "chat" THEN DOMAIN store[t].entries ELSE Owners,
         NEW list, \A i \in DOMAIN list : i \in DOMAIN List(t, k) \/ (i = NewId /\ minted' = NewId),
         \A i \in DOMAIN List(t, k) \ DOMAIN list : <<k, i>> \in removed',
         NEW e, DOMAIN e = DOMAIN store[t].entries,
         Set(t, <<[entries |-> e, lists |-> Put(store[t].lists, k, list), active |-> store[t].active]>>)
  PROVE  Acted(t)
<1> DEFINE s == [entries |-> e, lists |-> Put(store[t].lists, k, list), active |-> store[t].active]
<1>1. Rewrites(store[t], s, minted', removed')
  BY ListPlaces
<1>2. UNCHANGED <<name, row, base, failed, undone, saved>>
      /\ moves' \in 0 .. MaxMoves /\ failures' \in 0 .. MaxFailures
  BY ActsFit
<1>3. Set(t, <<s>>)
  OBVIOUS
<1> HIDE DEF s
<1>4. Grows(t, <<s>>)
  BY <1>1, <1>2, <1>3, OneGrows
<1> QED
  BY <1>2, <1>4, ElsewhereTasks DEF Acted

\* The value of an act on one list.
LEMMA WithListIs ==
  ASSUME VersionsInv, NEW t \in Tabs, NEW k, NEW list
  PROVE  WithList(t, k, list) =
           [entries |-> store[t].entries, lists |-> Put(store[t].lists, k, list), active |-> store[t].active]
<1> DEFINE S == store[t]
           l == Put(S.lists, k, list)
<1>1. S = [entries |-> S.entries, lists |-> S.lists, active |-> S.active]
  BY StoreFits
<1>2. WithList(t, k, list) = [S EXCEPT !.lists = l]
  BY DEF WithList
<1> HIDE DEF l
<1>3. [S EXCEPT !.lists = l] = [entries |-> S.entries, lists |-> l, active |-> S.active]
  BY <1>1
<1> QED
  BY <1>2, <1>3 DEF l

\* A life event is added to the list of its person, perhaps as its first.
LEMMA AddEventActs ==
  ASSUME VersionsInv, TasksInv, NEW t \in Tabs, NEW o \in Owners, AddEvent(t, o)
  PROVE  Acted(t)
<1> DEFINE list == Put(List(t, o), NewId, 0)
<1>1. Acts(t, "events") /\ Elsewhere /\ minted' = NewId /\ removed' = removed /\ name = "events"
  BY DEF AddEvent, Adds, Minted, Acts
<1>2. Set(t, <<[entries |-> store[t].entries, lists |-> Put(store[t].lists, o, list), active |-> store[t].active]>>)
  BY WithListIs DEF AddEvent
<1>3. DOMAIN list = DOMAIN List(t, o) \cup {NewId}
  BY DEF Put
<1> HIDE DEF list
<1> QED
  BY <1>1, <1>2, <1>3, ListActs

\* A life event is changed in place.
LEMMA EditEventActs ==
  ASSUME VersionsInv, TasksInv, NEW t \in Tabs, NEW o \in Owners, NEW x, EditEvent(t, o, x)
  PROVE  Acted(t)
<1> DEFINE list == [List(t, o) EXCEPT ![x] = 1 - @]
<1>1. Acts(t, "events") /\ Elsewhere /\ minted' = minted /\ removed' = removed /\ name = "events"
  BY DEF EditEvent, Edits, Acts
<1>2. Set(t, <<[entries |-> store[t].entries, lists |-> Put(store[t].lists, o, list), active |-> store[t].active]>>)
  BY WithListIs DEF EditEvent
<1>3. DOMAIN list = DOMAIN List(t, o)
  OBVIOUS
<1> HIDE DEF list
<1> QED
  BY <1>1, <1>2, <1>3, ListActs

\* A life event is removed, and is remembered as removed.
LEMMA RemoveEventActs ==
  ASSUME VersionsInv, TasksInv, NEW t \in Tabs, NEW o \in Owners, NEW x, RemoveEvent(t, o, x)
  PROVE  Acted(t)
<1> DEFINE list == Restrict(List(t, o), DOMAIN List(t, o) \ {x})
<1>1. /\ Acts(t, "events") /\ Elsewhere /\ minted' = minted /\ name = "events"
      /\ removed' = removed \cup {<<o, x>>} /\ x \in DOMAIN List(t, o)
  BY DEF RemoveEvent, Acts
<1>2. Set(t, <<[entries |-> store[t].entries, lists |-> Put(store[t].lists, o, list), active |-> store[t].active]>>)
  BY WithListIs DEF RemoveEvent
<1>3. DOMAIN list = DOMAIN List(t, o) \ {x}
  BY DEF Restrict
<1>4. x \in 1 .. minted
  <2>1. o \in DOMAIN store[t].lists /\ x \in DOMAIN store[t].lists[o]
    BY <1>1 DEF List
  <2>2. \A k \in DOMAIN store[t].lists : DOMAIN store[t].lists[k] \subseteq 1 .. minted
    BY StoreFits, FitsParts
  <2> QED
    BY <2>1, <2>2
<1>5. <<o, x>>[2] = x
  OBVIOUS
<1> HIDE DEF list
<1> QED
  BY <1>1, <1>2, <1>3, <1>4, <1>5, ListActs

\* A message is appended to its thread, whose count follows.
LEMMA AppendMessageActs ==
  ASSUME VersionsInv, TasksInv, NEW t \in Tabs, NEW th, AppendMessage(t, th)
  PROVE  Acted(t)
<1> DEFINE S == store[t]
           list == Put(List(t, th), NewId, 0)
           e == [S.entries EXCEPT ![th].count = Cardinality(DOMAIN list)]
           l == Put(S.lists, th, list)
<1>1. /\ Acts(t, "chat") /\ Elsewhere /\ minted' = NewId /\ removed' = removed /\ name = "chat"
      /\ th \in DOMAIN S.entries
  BY DEF AppendMessage, Adds, Minted, Acts
<1>2. Set(t, <<[WithList(t, th, list) EXCEPT !.entries[th].count = Cardinality(DOMAIN list)]>>)
  BY DEF AppendMessage
<1>3. WithList(t, th, list) = [entries |-> S.entries, lists |-> l, active |-> S.active]
  BY WithListIs
<1>4. DOMAIN list = DOMAIN List(t, th) \cup {NewId}
  BY DEF Put
<1>5. [[entries |-> S.entries, lists |-> l, active |-> S.active] EXCEPT !.entries[th].count = Cardinality(DOMAIN list)]
        = [entries |-> e, lists |-> l, active |-> S.active]
  <2> HIDE DEF l, list
  <2> QED
    OBVIOUS
<1>6. DOMAIN e = DOMAIN S.entries
  OBVIOUS
<1>7. Set(t, <<[entries |-> e, lists |-> l, active |-> S.active]>>)
  BY <1>2, <1>3, <1>5
<1> HIDE DEF list, e
<1> QED
  BY <1>1, <1>4, <1>6, <1>7, ListActs

\* A person's rollback begins: the person is out of the store.
LEMMA DiscardActs ==
  ASSUME VersionsInv, TasksInv, NEW t \in Tabs, Discard(t)
  PROVE  Acted(t)
<1> DEFINE S == store[t]
           p == staged[t].id
           prev == staged[t].prev
           kept == Restrict(S.entries, DOMAIN S.entries \ {p})
           e == [x \in DOMAIN kept |-> IF kept[x].to = p THEN Plain ELSE kept[x]]
           rest == RemoveProfile(S, p)
           first == IF S.active = p THEN Only(DOMAIN kept) ELSE S.active
           a == IF prev \in DOMAIN e THEN prev ELSE first
           s == [entries |-> e, lists |-> S.lists, active |-> a]
<1>1. /\ minted \in Nat /\ S = [entries |-> S.entries, lists |-> S.lists, active |-> S.active]
      /\ S.active \in 1 .. minted \cup {None} /\ DOMAIN S.entries \subseteq 1 .. minted
      /\ DOMAIN S.lists \subseteq IF name = "chat" THEN DOMAIN S.entries ELSE Owners
      /\ None \notin DOMAIN S.lists
  BY StoreFits
<1>2. /\ Acts(t, "people") /\ name = "people" /\ staged[t] # Nothing /\ RollbacksFit
      /\ discards' = [discards EXCEPT ![t] = Put(@, p, [wait |-> FALSE, left |-> MaxRetries])]
      /\ removed' = removed \cup {<<None, p>>} /\ staged' = [staged EXCEPT ![t] = Nothing]
      /\ UNCHANGED <<reported, minted>>
      /\ Set(t, <<[rest EXCEPT !.active = IF prev \in DOMAIN rest.entries THEN prev ELSE @]>>)
  BY DEF Discard, TasksInv, Acts
<1>3. DOMAIN kept = DOMAIN S.entries \ {p} /\ DOMAIN e = DOMAIN S.entries \ {p}
  BY DEF Restrict
<1>4. p \in 1 .. minted
  BY <1>2 DEF RollbacksFit
<1>5. rest = [entries |-> e, lists |-> S.lists, active |-> first]
  <2>1. rest = [S EXCEPT !.entries = e, !.active = first]
    BY DEF RemoveProfile
  <2> HIDE DEF e, first, rest
  <2> QED
    BY <1>1, <2>1
<1>6. Set(t, <<s>>)
  <2> HIDE DEF e, first, rest
  <2>1. [rest EXCEPT !.active = IF prev \in DOMAIN rest.entries THEN prev ELSE @] = s
    BY <1>5
  <2> QED
    BY <1>2, <2>1
<1>7. a \in 1 .. minted \cup {None}
  <2>1. DOMAIN kept \in SUBSET Nat
    BY <1>1, <1>3
  <2>2. Only(DOMAIN kept) \in DOMAIN kept \cup {None}
    BY <2>1, OnlyOne
  <2> HIDE DEF kept, e
  <2>3. first \in 1 .. minted \cup {None}
    BY <1>1, <1>3, <2>2
  <2> QED
    BY <1>1, <1>3, <2>3
<1> HIDE DEF kept, e, rest, first, a
<1>8. Rewrites(S, s, minted', removed')
  <2>1. s.entries = e /\ s.lists = S.lists /\ s.active = a
        /\ s = [entries |-> s.entries, lists |-> s.lists, active |-> s.active]
    OBVIOUS
  <2> HIDE DEF s
  <2> QED
    BY <1>1, <1>2, <1>3, <1>7, <2>1 DEF Rewrites
<1>9. UNCHANGED <<name, row, base, failed, undone, saved>>
      /\ moves' \in 0 .. MaxMoves /\ failures' \in 0 .. MaxFailures
  BY <1>2, ActsFit
<1>10. <<None, p>> \notin Slots(s)
  BY <1>1, <1>3, EntrySlot
<1> HIDE DEF s
<1>11. \A x \in removed' : x \in removed \/ x[2] \in 1 .. minted
  BY <1>2, <1>4
<1>12. Grows(t, <<s>>)
  BY <1>2, <1>6, <1>8, <1>9, <1>11, OneGrows
<1>13. store'[t] = s
  <2>1. Len(<<s>>) = 1 /\ <<s>>[1] = s
    BY OneState
  <2> QED
    BY <1>6, <2>1 DEF Set, VersionsInv, QueuesFit
<1>14. TasksGrow(t)
  <2>1. /\ DOMAIN discards' = Tabs /\ DOMAIN staged' = Tabs /\ DOMAIN reported' = Tabs
        /\ DOMAIN discards'[t] = DOMAIN discards[t] \cup {p}
        /\ discards'[t][p] = [wait |-> FALSE, left |-> MaxRetries]
        /\ \A q \in DOMAIN discards[t] \ {p} : discards'[t][q] = discards[t][q]
        /\ staged'[t] = Nothing
        /\ \A u \in Tabs \ {t} : discards'[u] = discards[u] /\ staged'[u] = staged[u]
    BY <1>2 DEF RollbacksFit, Put
  <2>2. Own(t)' \subseteq Own(t)
    <3>1. Own(t) = ({p} \ {None}) \cup DOMAIN discards[t] \cup reported[t]
      BY DEF Own
    <3>2. Own(t)' \subseteq DOMAIN discards'[t] \cup reported'[t]
      BY <2>1 DEF Own, Nothing
    <3>3. p # None
      BY <1>1, <1>4, InheritedAssumption
    <3> QED
      BY <1>2, <2>1, <3>1, <3>2, <3>3
  <2>3. MaxRetries \in Nat
    BY InheritedAssumption
  <2>4. \A q \in DOMAIN discards'[t] : /\ discards'[t][q] \in [wait : BOOLEAN, left : 0 .. MaxRetries]
                                       /\ discards'[t][q].wait => discards'[t][q].left > 0
    <3> TAKE q \in DOMAIN discards'[t]
    <3>1. CASE q = p
      <4>1. [wait |-> FALSE, left |-> MaxRetries] \in [wait : BOOLEAN, left : 0 .. MaxRetries]
        BY <2>3
      <4> QED
        BY <2>1, <3>1, <4>1
    <3>2. CASE q # p
      <4>1. q \in DOMAIN discards[t] /\ discards'[t][q] = discards[t][q]
        BY <2>1, <3>2
      <4> QED
        BY <1>2, <4>1 DEF RollbacksFit
    <3> QED
      BY <3>1, <3>2
  <2>5. \A q \in DOMAIN discards'[t] \cup reported'[t] :
          \/ q \in DOMAIN discards[t] \cup reported[t]
          \/ q \in 1 .. minted /\ <<None, q>> \in removed' /\ <<None, q>> \notin Slots(store'[t])
    BY <1>2, <1>4, <1>10, <1>13, <2>1
  <2> QED
    BY <1>2, <1>9, <2>1, <2>2, <2>4, <2>5 DEF TasksGrow
<1> QED
  BY <1>12, <1>14 DEF Acted

\* A write of what the tab shows.
LEMMA WritesAgain ==
  ASSUME VersionsInv, NEW t \in Tabs, Set(t, <<store[t]>>),
         UNCHANGED <<name, row, base, failed, undone, saved, minted, removed>>
  PROVE  Grows(t, <<store[t]>>)
<1> DEFINE S == store[t]
           s == [entries |-> S.entries, lists |-> S.lists, active |-> S.active]
<1>1. S = s /\ S.active \in 1 .. minted \cup {None}
  BY StoreFits
<1>2. DOMAIN S.entries = DOMAIN S.entries
  OBVIOUS
<1>3. Set(t, <<s>>)
  BY <1>1
<1>4. Grows(t, <<s>>)
  BY <1>1, <1>2, <1>3, PlainGrows
<1> QED
  BY <1>1, <1>4

\* A user asks for the failed rollbacks once more: what the tab shows is queued again.
LEMMA RetryActs ==
  ASSUME VersionsInv, TasksInv, NEW t \in Tabs, RetryFailedDiscards(t)
  PROVE  Acted(t)
<1>1. /\ Acts(t, "people") /\ RollbacksFit /\ Set(t, <<store[t]>>)
      /\ discards' = [discards EXCEPT ![t] =
                        [p \in reported[t] \cup DOMAIN @ |->
                          IF p \in DOMAIN @ THEN @[p] ELSE [wait |-> FALSE, left |-> MaxRetries]]]
      /\ reported' = [reported EXCEPT ![t] = {}]
      /\ UNCHANGED <<staged, minted, removed>>
  BY DEF RetryFailedDiscards, TasksInv
<1>2. UNCHANGED <<name, row, base, failed, undone, saved>>
      /\ moves' \in 0 .. MaxMoves /\ failures' \in 0 .. MaxFailures
  BY <1>1, ActsFit
<1>3. Grows(t, <<store[t]>>)
  BY <1>1, <1>2, WritesAgain
<1>4. TasksGrow(t)
  <2>1. /\ DOMAIN discards' = Tabs /\ DOMAIN staged' = Tabs /\ DOMAIN reported' = Tabs
        /\ DOMAIN discards'[t] = DOMAIN discards[t] \cup reported[t] /\ reported'[t] = {}
        /\ \A q \in DOMAIN discards'[t] :
             discards'[t][q] = IF q \in DOMAIN discards[t] THEN discards[t][q] ELSE [wait |-> FALSE, left |-> MaxRetries]
        /\ \A u \in Tabs \ {t} : discards'[u] = discards[u] /\ reported'[u] = reported[u]
    BY <1>1 DEF RollbacksFit
  <2>2. Own(t)' \subseteq Own(t)
    BY <1>1, <2>1 DEF Own
  <2>3. MaxRetries \in Nat
    BY InheritedAssumption
  <2>4. \A q \in DOMAIN discards'[t] : /\ discards'[t][q] \in [wait : BOOLEAN, left : 0 .. MaxRetries]
                                       /\ discards'[t][q].wait => discards'[t][q].left > 0
    <3> TAKE q \in DOMAIN discards'[t]
    <3>1. CASE q \notin DOMAIN discards[t]
      <4>1. [wait |-> FALSE, left |-> MaxRetries] \in [wait : BOOLEAN, left : 0 .. MaxRetries]
        BY <2>3
      <4> QED
        BY <2>1, <3>1, <4>1
    <3>2. CASE q \in DOMAIN discards[t]
      BY <1>1, <2>1, <3>2 DEF RollbacksFit
    <3> QED
      BY <3>1, <3>2
  <2>5. staged'[t] = Nothing \/ staged'[t].id \in 1 .. minted'
    BY <1>1 DEF RollbacksFit
  <2> QED
    BY <1>1, <1>2, <2>1, <2>2, <2>4, <2>5 DEF TasksGrow
<1> QED
  BY <1>3, <1>4 DEF Acted

\* A rollback that waited queues what the tab shows again.
LEMMA RewriteActs ==
  ASSUME VersionsInv, TasksInv, NEW t \in Tabs, NEW p, RewriteAfterDelay(t, p)
  PROVE  Acted(t)
<1> DEFINE d == discards[t][p]
<1>1. /\ RollbacksFit /\ p \in DOMAIN discards[t] /\ d.wait /\ Set(t, <<store[t]>>)
      /\ discards' = [discards EXCEPT ![t][p] = [wait |-> FALSE, left |-> Left(@.left)]]
      /\ UNCHANGED <<name, row, base, failed, undone, saved, minted, removed>>
      /\ UNCHANGED <<staged, reported, moves, failures>>
  BY DEF RewriteAfterDelay, Waiting, Quiet, TasksInv
<1>2. Grows(t, <<store[t]>>)
  BY <1>1, WritesAgain
<1>3. TasksGrow(t)
  <2>1. /\ DOMAIN discards' = Tabs /\ DOMAIN discards'[t] = DOMAIN discards[t]
        /\ discards'[t][p] = [wait |-> FALSE, left |-> Left(d.left)]
        /\ \A q \in DOMAIN discards[t] \ {p} : discards'[t][q] = discards[t][q]
        /\ \A u \in Tabs \ {t} : discards'[u] = discards[u]
    BY <1>1 DEF RollbacksFit
  <2>2. Own(t)' = Own(t)
    BY <1>1, <2>1 DEF Own
  <2>3. d.left \in 0 .. MaxRetries /\ d.left > 0 /\ MaxRetries \in Nat
    BY <1>1, InheritedAssumption DEF RollbacksFit
  <2>4. Left(d.left) \in 0 .. MaxRetries
    <3> HIDE DEF d
    <3> QED
      BY <2>3 DEF Left
  <2>5. \A q \in DOMAIN discards'[t] : /\ discards'[t][q] \in [wait : BOOLEAN, left : 0 .. MaxRetries]
                                       /\ discards'[t][q].wait => discards'[t][q].left > 0
    <3> TAKE q \in DOMAIN discards'[t]
    <3>1. CASE q = p
      <4>1. [wait |-> FALSE, left |-> Left(d.left)] \in [wait : BOOLEAN, left : 0 .. MaxRetries]
        BY <2>4
      <4> QED
        BY <2>1, <3>1, <4>1
    <3>2. CASE q # p
      BY <1>1, <2>1, <3>2 DEF RollbacksFit
    <3> QED
      BY <3>1, <3>2
  <2>6. staged'[t] = Nothing \/ staged'[t].id \in 1 .. minted'
    BY <1>1 DEF RollbacksFit
  <2> QED
    BY <1>1, <2>1, <2>2, <2>5, <2>6 DEF TasksGrow, RollbacksFit
<1> QED
  BY <1>2, <1>3 DEF Acted

\* A thread is started.
LEMMA StartThreadActs ==
  ASSUME VersionsInv, TasksInv, NEW t \in Tabs, StartThread(t)
  PROVE  Acted(t)
<1> DEFINE S == store[t]
           e == Put(S.entries, NewId, [count |-> 0])
           s == [entries |-> e, lists |-> S.lists, active |-> S.active]
<1>1. /\ minted \in Nat /\ S = [entries |-> S.entries, lists |-> S.lists, active |-> S.active]
      /\ S.active \in 1 .. minted \cup {None} /\ DOMAIN S.entries \subseteq 1 .. minted
      /\ DOMAIN S.lists \subseteq IF name = "chat" THEN DOMAIN S.entries ELSE Owners
      /\ NewId \in Nat /\ minted <= NewId /\ NewId > 0
  BY StoreFits DEF NewId
<1>2. /\ Acts(t, "chat") /\ name = "chat" /\ RollbacksFit
      /\ \/ UNCHANGED staged
         \/ staged[t] = Nothing /\ staged' = [staged EXCEPT ![t] = [id |-> NewId, prev |-> None]]
      /\ minted' = NewId /\ UNCHANGED <<discards, reported, removed>>
      /\ Set(t, <<[S EXCEPT !.entries = e]>>)
  BY DEF StartThread, TasksInv, Acts, Minted
<1>3. DOMAIN e = DOMAIN S.entries \cup {NewId}
  BY DEF Put
<1> HIDE DEF e
<1>4. Set(t, <<s>>)
  <2>1. [S EXCEPT !.entries = e] = s
    BY <1>1
  <2> QED
    BY <1>2, <2>1
<1>5. Rewrites(S, s, minted', removed')
  <2>1. s.entries = e /\ s.lists = S.lists /\ s.active = S.active
        /\ s = [entries |-> s.entries, lists |-> s.lists, active |-> s.active]
    OBVIOUS
  <2>2. 1 .. minted \subseteq 1 .. minted'
    BY <1>1, <1>2
  <2> HIDE DEF s
  <2> QED
    BY <1>1, <1>2, <1>3, <2>1, <2>2 DEF Rewrites
<1>6. UNCHANGED <<name, row, base, failed, undone, saved>>
      /\ moves' \in 0 .. MaxMoves /\ failures' \in 0 .. MaxFailures
  BY <1>2, ActsFit
<1> HIDE DEF s
<1>7. Grows(t, <<s>>)
  BY <1>2, <1>4, <1>5, <1>6, OneGrows
<1>8. TasksGrow(t)
  <2>1. /\ DOMAIN staged' = Tabs
        /\ \A u \in Tabs \ {t} : staged'[u] = staged[u]
        /\ staged'[t] = staged[t] \/ staged'[t] = [id |-> NewId, prev |-> None]
    BY <1>2 DEF RollbacksFit
  <2>2. NewId \in 1 .. minted' /\ 1 .. minted \subseteq 1 .. minted'
    BY <1>1, <1>2
  <2>3. staged'[t] = Nothing \/ staged'[t].id \in 1 .. minted'
    BY <1>2, <2>1, <2>2 DEF RollbacksFit
  <2>4. \A p \in Own(t)' : p \in Own(t) \/ (p = NewId /\ minted' = NewId)
    BY <1>2, <2>1 DEF Own
  <2> QED
    BY <1>2, <1>6, <2>1, <2>3, <2>4 DEF TasksGrow, RollbacksFit
<1> QED
  BY <1>7, <1>8 DEF Acted

\* A value with its records and its lists replaced.
LEMMA NewPlaces ==
  ASSUME NEW S, S = [entries |-> S.entries, lists |-> S.lists, active |-> S.active], NEW e, NEW l
  PROVE  [S EXCEPT !.entries = e, !.lists = l] = [entries |-> e, lists |-> l, active |-> S.active]
<1> DEFINE q == [S EXCEPT !.entries = e, !.lists = l]
<1>1. q.entries = e /\ q.lists = l /\ q.active = S.active
  OBVIOUS
<1>2. q = [x \in {"entries", "lists", "active"} |-> q[x]]
  OBVIOUS
<1> HIDE DEF q
<1>3. q = [entries |-> e, lists |-> l, active |-> S.active]
  BY <1>1, <1>2
<1> QED
  BY <1>3 DEF q

\* A thread that could not be saved is removed again, with its messages.
LEMMA DeleteThreadActs ==
  ASSUME VersionsInv, TasksInv, NEW t \in Tabs, DeleteThread(t)
  PROVE  Acted(t)
<1> DEFINE S == store[t]
           th == staged[t].id
           e == Restrict(S.entries, DOMAIN S.entries \ {th})
           l == Restrict(S.lists, DOMAIN S.lists \ {th})
           s == [entries |-> e, lists |-> l, active |-> S.active]
<1>1. /\ minted \in Nat /\ S = [entries |-> S.entries, lists |-> S.lists, active |-> S.active]
      /\ S.active \in 1 .. minted \cup {None} /\ DOMAIN S.entries \subseteq 1 .. minted
      /\ DOMAIN S.lists \subseteq IF name = "chat" THEN DOMAIN S.entries ELSE Owners
      /\ \A k \in DOMAIN S.lists : DOMAIN S.lists[k] \subseteq 1 .. minted
  BY StoreFits, FitsParts
<1>2. /\ Acts(t, "chat") /\ name = "chat" /\ RollbacksFit /\ staged[t] # Nothing
      /\ staged' = [staged EXCEPT ![t] = Nothing]
      /\ removed' = removed \cup {<<None, th>>} \cup {<<th, m>> : m \in DOMAIN List(t, th)}
      /\ UNCHANGED <<discards, reported, minted>>
      /\ Set(t, <<[S EXCEPT !.entries = e, !.lists = l]>>)
  BY DEF DeleteThread, TasksInv, Acts
<1>3. /\ DOMAIN e = DOMAIN S.entries \ {th} /\ DOMAIN l = DOMAIN S.lists \ {th}
      /\ \A k \in DOMAIN l : l[k] = S.lists[k]
  BY DEF Restrict
<1>4. th \in 1 .. minted
  BY <1>2 DEF RollbacksFit
<1> HIDE DEF e, l
<1>5. Set(t, <<s>>)
  <2>1. [S EXCEPT !.entries = e, !.lists = l] = s
    <3>1. S = [entries |-> S.entries, lists |-> S.lists, active |-> S.active]
      BY <1>1
    <3> QED
      BY <3>1, NewPlaces
  <2> QED
    BY <1>2, <2>1
<1>6. Rewrites(S, s, minted', removed')
  <2>1. s.entries = e /\ s.lists = l /\ s.active = S.active
        /\ s = [entries |-> s.entries, lists |-> s.lists, active |-> s.active]
    OBVIOUS
  <2> HIDE DEF s
  <2> QED
    BY <1>1, <1>2, <1>3, <2>1 DEF Rewrites
<1>7. UNCHANGED <<name, row, base, failed, undone, saved>>
      /\ moves' \in 0 .. MaxMoves /\ failures' \in 0 .. MaxFailures
  BY <1>2, ActsFit
<1>8. \A x \in removed' : x \in removed \/ x[2] \in 1 .. minted
  <2>1. \A m \in DOMAIN List(t, th) : m \in 1 .. minted
    BY <1>1 DEF List
  <2> QED
    BY <1>2, <1>4, <2>1
<1> HIDE DEF s
<1>9. Grows(t, <<s>>)
  BY <1>2, <1>5, <1>6, <1>7, <1>8, OneGrows
<1>10. TasksGrow(t)
  <2>1. /\ DOMAIN staged' = Tabs /\ staged'[t] = Nothing
        /\ \A u \in Tabs \ {t} : staged'[u] = staged[u]
    BY <1>2 DEF RollbacksFit
  <2>2. \A p \in Own(t)' : p \in Own(t)
    BY <1>2, <2>1 DEF Own, Nothing
  <2> QED
    BY <1>2, <1>7, <2>1, <2>2 DEF TasksGrow, RollbacksFit
<1> QED
  BY <1>9, <1>10 DEF Acted

\* A tab that queues several values.
LEMMA ManyGrow ==
  ASSUME VersionsInv, NEW t \in Tabs, NEW states, IsSeq(states), Len(states) > 0, Set(t, states),
         minted' \in {minted, NewId},
         removed \subseteq removed', \A x \in removed' : x \in removed \/ x[2] \in 1 .. minted,
         \A j \in 1 .. Len(states) : Rewrites(store[t], states[j], minted', removed'),
         \A i, j \in 1 .. Len(states) : i <= j =>
           Slots(states[j]) \subseteq Slots(states[i]) /\ Follows(removed', states[i], states[j]),
         UNCHANGED <<name, row, base, failed, undone, saved>>
  PROVE  Grows(t, states)
<1>1. minted \in Nat /\ Fits(store[t], minted)
  BY StoreFits
<1>2. \A j \in 1 .. Len(states) :
        /\ Fits(states[j], minted')
        /\ \A x \in Slots(states[j]) : x \in Slots(store[t]) \/ x[2] \notin 1 .. minted
        /\ Follows(removed', store[t], states[j])
  <2> TAKE j \in 1 .. Len(states)
  <2>1. Rewrites(store[t], states[j], minted', removed')
    OBVIOUS
  <2> QED
    BY <1>1, <2>1, RewriteFollows
<1> QED
  BY <1>2 DEF Grows

\* A chart is saved in the place of a person's primary one, which is then removed.
LEMMA RegenerateActs ==
  ASSUME VersionsInv, TasksInv, NEW t \in Tabs, NEW o, Regenerate(t, o)
  PROVE  Acted(t)
<1> DEFINE S == store[t]
           charts == S.entries
           new == SaveChart(charts, NewId, o)
           prior == Only(Primaries(charts, o))
           rest == Restrict(new, DOMAIN new \ {prior})
           A == [entries |-> new, lists |-> S.lists, active |-> S.active]
           B == [entries |-> rest, lists |-> S.lists, active |-> S.active]
           states == <<A>> \o (IF prior = None THEN <<>> ELSE <<B>>)
<1>1. /\ minted \in Nat /\ S = [entries |-> S.entries, lists |-> S.lists, active |-> S.active]
      /\ S.active \in 1 .. minted \cup {None} /\ DOMAIN S.entries \subseteq 1 .. minted
      /\ DOMAIN S.lists \subseteq IF name = "chat" THEN DOMAIN S.entries ELSE Owners
      /\ None \notin DOMAIN S.lists /\ NewId \in Nat /\ minted <= NewId /\ NewId \notin 1 .. minted
  BY StoreFits DEF NewId
<1>2. /\ Acts(t, "charts") /\ name = "charts" /\ minted' = NewId /\ Elsewhere
      /\ removed' = removed \cup ({<<None, prior>>} \ {<<None, None>>})
      /\ Set(t, <<[S EXCEPT !.entries = new]>> \o
                  (IF prior = None THEN <<>> ELSE <<[S EXCEPT !.entries = rest]>>))
  BY DEF Regenerate, Acts, Minted
<1>3. DOMAIN new = DOMAIN charts \cup {NewId}
  BY DEF SaveChart, Put
<1>4. DOMAIN rest = DOMAIN new \ {prior}
  BY DEF Restrict
<1>5. prior \in DOMAIN charts \cup {None}
  <2>1. Primaries(charts, o) \subseteq DOMAIN charts
    BY DEF Primaries
  <2>2. Primaries(charts, o) \in SUBSET Nat
    BY <1>1, <2>1
  <2> QED
    BY <2>1, <2>2, OnlyOne
<1> HIDE DEF new, prior, rest
<1>6. Set(t, states)
  <2>1. [S EXCEPT !.entries = new] = A /\ [S EXCEPT !.entries = rest] = B
    BY <1>1
  <2> QED
    BY <1>2, <2>1
<1>7. /\ A.entries = new /\ A.lists = S.lists /\ A.active = S.active
      /\ A = [entries |-> A.entries, lists |-> A.lists, active |-> A.active]
      /\ B.entries = rest /\ B.lists = S.lists /\ B.active = S.active
      /\ B = [entries |-> B.entries, lists |-> B.lists, active |-> B.active]
  OBVIOUS
<1> HIDE DEF A, B
<1>8. S.active \in 1 .. minted' \cup {None}
  <2>1. 1 .. minted \subseteq 1 .. minted'
    BY <1>1, <1>2
  <2> QED
    BY <1>1, <2>1
<1>9. Rewrites(S, A, minted', removed')
  BY <1>1, <1>2, <1>3, <1>7, <1>8 DEF Rewrites
<1>10. prior # None => Rewrites(S, B, minted', removed')
  <2>1. prior # None => <<None, prior>> \in removed'
    BY <1>2
  <2> QED
    BY <1>1, <1>2, <1>3, <1>4, <1>7, <1>8, <2>1 DEF Rewrites
<1>11. prior # None => Slots(B) \subseteq Slots(A) /\ Follows(removed', A, B)
  <2>1. \A x \in Slots(B) : x \in Slots(A)
    BY <1>3, <1>4, <1>7, SlotIs
  <2>2. \A x \in Slots(A) \ Slots(B) : x = <<None, prior>>
    BY <1>3, <1>4, <1>7, SlotIs
  <2>3. prior # None => <<None, prior>> \in removed'
    BY <1>2
  <2> QED
    BY <1>7, <2>1, <2>2, <2>3 DEF Follows, WasRemoved
<1>12. \A s, gone : Follows(gone, s, s)
  BY DEF Follows
<1>13. /\ IsSeq(states) /\ Len(states) = (IF prior = None THEN 1 ELSE 2) /\ states[1] = A
       /\ prior # None => states[2] = B
  <2>1. /\ IsSeq(<<A>>) /\ Len(<<A>>) = 1 /\ <<A>>[1] = A
        /\ IsSeq(<<B>>) /\ Len(<<B>>) = 1 /\ <<B>>[1] = B
    BY OneState
  <2>2. IsSeq(<<>>) /\ Len(<<>>) = 0
    BY DEF IsSeq
  <2>3. CASE prior = None
    <3>1. states = <<A>> \o <<>>
      BY <2>3
    <3> HIDE DEF states
    <3>2. IsSeq(states) /\ Len(states) = 1 + 0 /\ \A i \in 1 .. 1 + 0 : states[i] = IF i <= 1 THEN <<A>>[i] ELSE <<>>[i - 1]
      BY <2>1, <2>2, <3>1, Joined
    <3> QED
      BY <2>1, <2>3, <3>2
  <2>4. CASE prior # None
    <3>1. states = <<A>> \o <<B>>
      BY <2>4
    <3> HIDE DEF states
    <3>2. IsSeq(states) /\ Len(states) = 1 + 1 /\ \A i \in 1 .. 1 + 1 : states[i] = IF i <= 1 THEN <<A>>[i] ELSE <<B>>[i - 1]
      BY <2>1, <3>1, Joined
    <3> QED
      BY <2>1, <2>4, <3>2
  <2> QED
    BY <2>3, <2>4
<1> HIDE DEF states
<1>14. /\ \A j \in 1 .. Len(states) : Rewrites(S, states[j], minted', removed')
       /\ \A i, j \in 1 .. Len(states) : i <= j =>
            Slots(states[j]) \subseteq Slots(states[i]) /\ Follows(removed', states[i], states[j])
  <2>1. CASE prior = None
    <3>1. \A j \in 1 .. Len(states) : j = 1
      BY <1>13, <2>1
    <3> QED
      BY <1>9, <1>12, <1>13, <3>1
  <2>2. CASE prior # None
    <3>1. \A j \in 1 .. Len(states) : j = 1 \/ j = 2
      BY <1>13, <2>2
    <3>2. /\ states[1] = A /\ states[2] = B /\ Slots(B) \subseteq Slots(A)
          /\ Follows(removed', A, B) /\ Follows(removed', A, A) /\ Follows(removed', B, B)
      BY <1>11, <1>12, <1>13, <2>2
    <3>3. ~(2 <= 1)
      OBVIOUS
    <3>4. \A j \in 1 .. Len(states) : Rewrites(S, states[j], minted', removed')
      BY <1>9, <1>10, <2>2, <3>1, <3>2
    <3>5. ASSUME NEW i \in 1 .. Len(states), NEW j \in 1 .. Len(states), i <= j
          PROVE  Slots(states[j]) \subseteq Slots(states[i]) /\ Follows(removed', states[i], states[j])
      BY <3>1, <3>2, <3>3, <3>5
    <3> QED
      BY <3>4, <3>5
  <2> QED
    BY <2>1, <2>2
<1>15. UNCHANGED <<name, row, base, failed, undone, saved>>
       /\ moves' \in 0 .. MaxMoves /\ failures' \in 0 .. MaxFailures
  BY <1>2, ActsFit
<1>16. removed \subseteq removed' /\ \A x \in removed' : x \in removed \/ x[2] \in 1 .. minted
  BY <1>1, <1>2, <1>5
<1>17. Grows(t, states)
  <2>1. Len(states) > 0
    BY <1>13
  <2> QED
    BY <1>2, <1>6, <1>13, <1>14, <1>15, <1>16, <2>1, ManyGrow
<1> QED
  BY <1>2, <1>15, <1>17, ElsewhereTasks DEF Acted

\* Values with the same records and lists follow one another.
LEMMA SameSlots ==
  ASSUME NEW s, NEW u, DOMAIN s.entries = DOMAIN u.entries, s.lists = u.lists, NEW gone
  PROVE  Slots(s) = Slots(u) /\ Follows(gone, s, u)
<1>1. \A x : x \in Slots(s) <=> x \in Slots(u)
  BY SlotIs
<1>2. Slots(s) = Slots(u)
  BY <1>1
<1> QED
  BY <1>2 DEF Follows

\* A sequence of two values.
LEMMA TwoStates ==
  ASSUME NEW v, NEW w
  PROVE  IsSeq(<<v, w>>) /\ Len(<<v, w>>) = 2 /\ <<v, w>>[1] = v /\ <<v, w>>[2] = w
<1>1. <<v, w>> \in Seq({v, w})
  OBVIOUS
<1> QED
  BY <1>1, SeqOver

\* A person is added, perhaps as kin, and turned to.
LEMMA StageActs ==
  ASSUME VersionsInv, TasksInv, NEW t \in Tabs, NEW rel, Stage(t, rel)
  PROVE  Acted(t)
<1> DEFINE S == store[t]
           e1 == Put(S.entries, NewId, Plain)
           first == IF S.active = None THEN NewId ELSE S.active
           e2 == NormalizeRelatedTo([e1 EXCEPT ![NewId].rel = rel])
           A == [entries |-> e1, lists |-> S.lists, active |-> first]
           B == [entries |-> e2, lists |-> S.lists, active |-> first]
           C == [entries |-> e2, lists |-> S.lists, active |-> NewId]
           lead == IF rel = "kin" THEN <<A, B>> ELSE <<A>>
           states == lead \o <<C>>
<1>1. /\ minted \in Nat /\ S = [entries |-> S.entries, lists |-> S.lists, active |-> S.active]
      /\ S.active \in 1 .. minted \cup {None} /\ DOMAIN S.entries \subseteq 1 .. minted
      /\ DOMAIN S.lists \subseteq IF name = "chat" THEN DOMAIN S.entries ELSE Owners
      /\ NewId \in Nat /\ minted <= NewId /\ NewId > 0
  BY StoreFits DEF NewId
<1>2. /\ Acts(t, "people") /\ name = "people" /\ minted' = NewId /\ staged[t] = Nothing /\ RollbacksFit
      /\ staged' = [staged EXCEPT ![t] = [id |-> NewId, prev |-> S.active]]
      /\ UNCHANGED <<discards, reported, removed>>
      /\ Set(t, (IF rel = "kin" THEN <<CreateProfile(S), Related(CreateProfile(S), NewId, rel)>>
                 ELSE <<CreateProfile(S)>>)
                \o <<[Related(CreateProfile(S), NewId, rel) EXCEPT !.active = NewId]>>)
  BY DEF Stage, TasksInv, Acts, Minted
<1>3. DOMAIN e1 = DOMAIN S.entries \cup {NewId} /\ DOMAIN e2 = DOMAIN e1
  BY DEF Put, NormalizeRelatedTo
<1>4. CreateProfile(S) = A
  <2>1. CreateProfile(S) = [S EXCEPT !.entries = e1, !.active = first]
    BY DEF CreateProfile
  <2> HIDE DEF e1, first
  <2> QED
    BY <1>1, <2>1
<1>5. Related(A, NewId, rel) = B
  <2>1. A.entries = e1 /\ A.lists = S.lists /\ A.active = first
        /\ A = [entries |-> A.entries, lists |-> A.lists, active |-> A.active]
    OBVIOUS
  <2> HIDE DEF A
  <2>2. Related(A, NewId, rel) = [entries |-> NormalizeRelatedTo([A.entries EXCEPT ![NewId].rel = rel]),
                                  lists |-> A.lists, active |-> A.active]
    BY <2>1, RelatedPlaces
  <2> QED
    BY <2>1, <2>2
<1> HIDE DEF e1, e2, first
<1>6. [B EXCEPT !.active = NewId] = C
  OBVIOUS
<1>7. Set(t, states)
  BY <1>2, <1>4, <1>5, <1>6
<1>8. /\ A.entries = e1 /\ A.lists = S.lists /\ A.active = first
      /\ A = [entries |-> A.entries, lists |-> A.lists, active |-> A.active]
      /\ B.entries = e2 /\ B.lists = S.lists /\ B.active = first
      /\ B = [entries |-> B.entries, lists |-> B.lists, active |-> B.active]
      /\ C.entries = e2 /\ C.lists = S.lists /\ C.active = NewId
      /\ C = [entries |-> C.entries, lists |-> C.lists, active |-> C.active]
  OBVIOUS
<1> HIDE DEF A, B, C
<1>9. first \in 1 .. minted' \cup {None} /\ NewId \in 1 .. minted'
  <2>1. 1 .. minted \subseteq 1 .. minted' /\ NewId \in 1 .. minted'
    BY <1>1, <1>2
  <2> QED
    BY <1>1, <2>1 DEF first
<1>10. \A s \in {A, B, C} : Rewrites(S, s, minted', removed')
  <2> TAKE s \in {A, B, C}
  <2>1. /\ DOMAIN s.entries = DOMAIN S.entries \cup {NewId} /\ s.lists = S.lists
        /\ s = [entries |-> s.entries, lists |-> s.lists, active |-> s.active]
        /\ s.active \in 1 .. minted' \cup {None}
    BY <1>3, <1>8, <1>9
  <2> QED
    BY <1>1, <1>2, <2>1 DEF Rewrites
<1>11. \A s, u \in {A, B, C} : Slots(s) = Slots(u) /\ Follows(removed', s, u)
  <2> TAKE s, u \in {A, B, C}
  <2>1. DOMAIN s.entries = DOMAIN u.entries /\ s.lists = u.lists
    BY <1>3, <1>8
  <2> QED
    BY <2>1, SameSlots
<1>12. IsSeq(states) /\ Len(states) > 0 /\ \A j \in 1 .. Len(states) : states[j] \in {A, B, C}
  <2>1. IsSeq(lead) /\ Len(lead) \in Nat /\ \A j \in 1 .. Len(lead) : lead[j] \in {A, B, C}
    <3>1. CASE rel = "kin"
      <4>1. lead = <<A, B>>
        BY <3>1
      <4> HIDE DEF lead
      <4>2. IsSeq(lead) /\ Len(lead) = 2 /\ lead[1] = A /\ lead[2] = B
        BY <4>1, TwoStates
      <4>3. \A j \in 1 .. 2 : j = 1 \/ j = 2
        OBVIOUS
      <4> QED
        BY <4>2, <4>3
    <3>2. CASE rel # "kin"
      <4>1. lead = <<A>>
        BY <3>2
      <4> HIDE DEF lead
      <4>2. IsSeq(lead) /\ Len(lead) = 1 /\ lead[1] = A
        BY <4>1, OneState
      <4>3. \A j \in 1 .. 1 : j = 1
        OBVIOUS
      <4> QED
        BY <4>2, <4>3
    <3> QED
      BY <3>1, <3>2
  <2>2. IsSeq(<<C>>) /\ Len(<<C>>) = 1 /\ <<C>>[1] = C
    BY OneState
  <2> HIDE DEF lead
  <2>3. /\ IsSeq(states) /\ Len(states) = Len(lead) + 1
        /\ \A i \in 1 .. Len(lead) + 1 : states[i] = IF i <= Len(lead) THEN lead[i] ELSE <<C>>[i - Len(lead)]
    BY <2>1, <2>2, Joined
  <2> HIDE DEF states
  <2>4. ASSUME NEW j \in 1 .. Len(states) PROVE states[j] \in {A, B, C}
    <3>1. CASE j <= Len(lead)
      BY <2>1, <2>3, <3>1
    <3>2. CASE j > Len(lead)
      <4>1. j - Len(lead) = 1
        BY <2>1, <2>3, <3>2
      <4> QED
        BY <2>1, <2>2, <2>3, <3>2, <4>1
    <3> QED
      BY <2>1, <2>3, <3>1, <3>2
  <2> QED
    BY <2>1, <2>3, <2>4
<1> HIDE DEF lead, states
<1>13. UNCHANGED <<name, row, base, failed, undone, saved>>
       /\ moves' \in 0 .. MaxMoves /\ failures' \in 0 .. MaxFailures
  BY <1>2, ActsFit
<1>14. Grows(t, states)
  <2>1. /\ \A j \in 1 .. Len(states) : Rewrites(S, states[j], minted', removed')
        /\ \A i, j \in 1 .. Len(states) : i <= j =>
             Slots(states[j]) \subseteq Slots(states[i]) /\ Follows(removed', states[i], states[j])
    BY <1>10, <1>11, <1>12
  <2> QED
    BY <1>2, <1>7, <1>12, <1>13, <2>1, ManyGrow
<1>15. TasksGrow(t)
  <2>1. /\ DOMAIN staged' = Tabs
        /\ \A u \in Tabs \ {t} : staged'[u] = staged[u]
        /\ staged'[t] = [id |-> NewId, prev |-> S.active]
    BY <1>2 DEF RollbacksFit
  <2>2. staged'[t].id \in 1 .. minted'
    BY <1>9, <2>1
  <2>3. \A p \in Own(t)' : p \in Own(t) \/ (p = NewId /\ minted' = NewId)
    BY <1>2, <2>1 DEF Own
  <2> QED
    BY <1>2, <1>13, <2>1, <2>2, <2>3 DEF TasksGrow, RollbacksFit
<1> QED
  BY <1>14, <1>15 DEF Acted

-----------------------------------------------------------------------------
(* What settles. *)

\* A step that leaves the row and the copies alone, and takes up no new person.
LEMMA RestTasks ==
  ASSUME TasksInv, UNCHANGED <<row, store, base, pending, minted>>, RollbacksFit',
         \A u \in Tabs : Own(u)' \subseteq Own(u),
         \A p \in undone' \ undone : /\ p \in 1 .. minted /\ <<None, p>> \notin Slots(row)
                                     /\ \A u \in Tabs : OnlyKnown(u, p)
  PROVE  TasksInv'
<1>1. \A u, p : OnlyKnown(u, p) => OnlyKnown(u, p)'
  <2> TAKE u, p
  <2>1. Versions(u)' = Versions(u) /\ \A i \in Versions(u) : Version(u, i)' = Version(u, i)
    BY Kept
  <2> QED
    BY <2>1 DEF OnlyKnown
<1>2. OwnIsUnknown'
  BY <1>1 DEF TasksInv, OwnIsUnknown
<1>3. UndoneIsGone'
  BY <1>1 DEF TasksInv, UndoneIsGone
<1> QED
  BY <1>2, <1>3 DEF TasksInv

\* A person whose saving is done is no longer one the tab is adding.
LEMMA StagedSavedTasks ==
  ASSUME TasksInv, NEW t \in Tabs, StagedSaved(t)
  PROVE  TasksInv'
<1>1. /\ RollbacksFit /\ staged' = [staged EXCEPT ![t] = Nothing]
      /\ UNCHANGED <<name, row, store, base, pending, failed, discards, reported, undone, removed, minted, moves, failures>>
  BY DEF StagedSaved, TasksInv, history
<1>2. DOMAIN staged' = Tabs /\ \A u \in Tabs : staged'[u] = IF u = t THEN Nothing ELSE staged[u]
  BY <1>1 DEF RollbacksFit
<1>3. RollbacksFit'
  BY <1>1, <1>2 DEF RollbacksFit
<1>4. \A u \in Tabs : Own(u)' \subseteq Own(u)
  BY <1>1, <1>2 DEF Own, Nothing
<1> QED
  BY <1>1, <1>3, <1>4, RestTasks

\* A rollback whose write failed waits for its next try or is reported.
LEMMA DiscardFailsTasks ==
  ASSUME TasksInv, NEW t \in Tabs, NEW p, DiscardFails(t, p)
  PROVE  TasksInv'
<1> DEFINE d == discards[t][p]
<1>1. /\ RollbacksFit /\ p \in DOMAIN discards[t]
      /\ UNCHANGED <<name, row, store, base, pending, failed, staged, undone, removed, minted, moves, failures>>
      /\ IF d.left > 0
         THEN /\ discards' = [discards EXCEPT ![t][p].wait = TRUE]
              /\ UNCHANGED reported
         ELSE /\ Ended(t, p)
              /\ reported' = [reported EXCEPT ![t] = @ \cup {p}]
  BY DEF DiscardFails, Quiet, TasksInv
<1>2. d \in [wait : BOOLEAN, left : 0 .. MaxRetries]
  BY <1>1 DEF RollbacksFit
<1>3. /\ DOMAIN discards' = Tabs /\ DOMAIN reported' = Tabs
      /\ DOMAIN discards'[t] \cup reported'[t] = DOMAIN discards[t] \cup reported[t]
      /\ \A q \in DOMAIN discards'[t] :
           /\ q \in DOMAIN discards[t]
           /\ \/ discards'[t][q] = discards[t][q]
              \/ discards'[t][q] = [wait |-> TRUE, left |-> discards[t][q].left] /\ discards[t][q].left > 0
      /\ \A u \in Tabs \ {t} : discards'[u] = discards[u] /\ reported'[u] = reported[u]
  <2>1. CASE d.left > 0
    <3>1. [d EXCEPT !.wait = TRUE] = [wait |-> TRUE, left |-> d.left]
      <4> DEFINE q == [d EXCEPT !.wait = TRUE]
      <4> HIDE DEF d
      <4>1. d = [wait |-> d.wait, left |-> d.left]
        BY <1>2
      <4>2. q.wait = TRUE /\ q.left = d.left /\ q = [x \in {"wait", "left"} |-> q[x]]
        BY <4>1
      <4> HIDE DEF q
      <4>3. q = [wait |-> TRUE, left |-> d.left]
        BY <4>2
      <4> QED
        BY <4>3 DEF q
    <3>2. /\ DOMAIN discards' = Tabs /\ DOMAIN discards'[t] = DOMAIN discards[t]
          /\ discards'[t][p] = [d EXCEPT !.wait = TRUE]
          /\ \A q \in DOMAIN discards[t] \ {p} : discards'[t][q] = discards[t][q]
          /\ \A u \in Tabs \ {t} : discards'[u] = discards[u]
      <4>1. DOMAIN discards = Tabs /\ p \in DOMAIN discards[t]
        BY <1>1 DEF RollbacksFit
      <4>2. discards' = [discards EXCEPT ![t][p].wait = TRUE]
        BY <1>1, <2>1
      <4> QED
        BY <4>1, <4>2
    <3> QED
      BY <1>1, <2>1, <3>1, <3>2 DEF RollbacksFit
  <2>2. CASE ~(d.left > 0)
    <3>1. /\ DOMAIN discards' = Tabs /\ DOMAIN reported' = Tabs
          /\ DOMAIN discards'[t] = DOMAIN discards[t] \ {p} /\ reported'[t] = reported[t] \cup {p}
          /\ \A q \in DOMAIN discards'[t] : discards'[t][q] = discards[t][q]
          /\ \A u \in Tabs \ {t} : discards'[u] = discards[u] /\ reported'[u] = reported[u]
      BY <1>1, <2>2 DEF RollbacksFit, Ended, Restrict
    <3> QED
      BY <1>1, <3>1
  <2> QED
    BY <2>1, <2>2
<1>4. RollbacksFit'
  <2>1. ASSUME NEW u \in Tabs, NEW q \in DOMAIN discards'[u]
        PROVE  /\ discards'[u][q] \in [wait : BOOLEAN, left : 0 .. MaxRetries]
               /\ discards'[u][q].wait => discards'[u][q].left > 0
    <3>1. CASE u = t
      <4>1. /\ discards[t][q] \in [wait : BOOLEAN, left : 0 .. MaxRetries]
            /\ discards[t][q].wait => discards[t][q].left > 0
        BY <1>1, <1>3, <2>1, <3>1 DEF RollbacksFit
      <4>2. \/ discards'[t][q] = discards[t][q]
            \/ discards'[t][q] = [wait |-> TRUE, left |-> discards[t][q].left] /\ discards[t][q].left > 0
        BY <1>3, <2>1, <3>1
      <4>3. CASE discards'[t][q] = discards[t][q]
        BY <3>1, <4>1, <4>3
      <4>4. CASE discards'[t][q] = [wait |-> TRUE, left |-> discards[t][q].left] /\ discards[t][q].left > 0
        <5>1. discards[t][q].left \in 0 .. MaxRetries
          BY <4>1
        <5> QED
          BY <3>1, <4>4, <5>1
      <4> QED
        BY <4>2, <4>3, <4>4
    <3>2. CASE u # t
      <4>1. discards'[u] = discards[u]
        BY <1>3, <3>2
      <4> QED
        BY <1>1, <2>1, <4>1 DEF RollbacksFit
    <3> QED
      BY <3>1, <3>2
  <2>2. ASSUME NEW u \in Tabs, NEW q \in DOMAIN discards'[u] \cup reported'[u]
        PROVE  q \in 1 .. minted /\ <<None, q>> \in removed /\ <<None, q>> \notin Slots(store[u])
    <3>1. q \in DOMAIN discards[u] \cup reported[u]
      BY <1>3, <2>2
    <3> QED
      BY <1>1, <3>1 DEF RollbacksFit
  <2> QED
    BY <1>1, <1>3, <2>1, <2>2 DEF RollbacksFit
<1>5. \A u \in Tabs : Own(u)' \subseteq Own(u)
  BY <1>1, <1>3 DEF Own
<1> QED
  BY <1>1, <1>4, <1>5, RestTasks

\* A rollback that held: the tab knows the row without the person, and no other
\* tab has it as something new.
LEMMA DiscardHoldsTasks ==
  ASSUME VersionsInv, TasksInv, NEW t \in Tabs, NEW p, DiscardHolds(t, p)
  PROVE  TasksInv'
<1>1. /\ RollbacksFit /\ OwnIsUnknown /\ LastIsShown /\ p \in DOMAIN discards[t]
      /\ pending[t] = <<>> /\ ~failed[t] /\ Ended(t, p) /\ undone' = undone \cup {p}
      /\ UNCHANGED <<name, row, store, base, pending, failed, staged, reported, removed, minted, moves, failures>>
  BY DEF DiscardHolds, Quiet, Committed, TasksInv, VersionsInv
<1>2. /\ DOMAIN discards' = Tabs /\ DOMAIN discards'[t] = DOMAIN discards[t] \ {p}
      /\ \A q \in DOMAIN discards'[t] : discards'[t][q] = discards[t][q]
      /\ \A u \in Tabs \ {t} : discards'[u] = discards[u]
  BY <1>1 DEF RollbacksFit, Ended, Restrict
<1>3. RollbacksFit'
  <2>1. ASSUME NEW u \in Tabs, NEW q \in DOMAIN discards'[u]
        PROVE  q \in DOMAIN discards[u] /\ discards'[u][q] = discards[u][q]
    BY <1>2, <2>1
  <2> QED
    BY <1>1, <1>2, <2>1 DEF RollbacksFit
<1>4. \A u \in Tabs : Own(u)' \subseteq Own(u)
  BY <1>1, <1>2 DEF Own
<1>5. p \in Own(t) /\ p \in 1 .. minted /\ <<None, p>> \notin Slots(store[t]) /\ base[t] = store[t]
  BY <1>1 DEF Own, RollbacksFit, LastIsShown
<1>6. <<None, p>> \notin Slots(row)
  BY <1>1, <1>5 DEF OwnIsUnknown
<1>7. \A u \in Tabs : OnlyKnown(u, p)
  <2>1. OnlyKnown(t, p)
    <3>1. \A i \in Versions(t) : Version(t, i) = base[t]
      BY <1>1, <1>5 DEF Versions, Version
    <3> QED
      BY <3>1 DEF OnlyKnown
  <2> QED
    BY <1>1, <1>5, <2>1 DEF OwnIsUnknown
<1> QED
  BY <1>1, <1>3, <1>4, <1>5, <1>6, <1>7, RestTasks

-----------------------------------------------------------------------------
(* The theorems. *)

\* At first every tab has the row and nothing is queued.
LEMMA RowsInit == Init => RowsInv
<1> SUFFICES ASSUME Init PROVE RowsInv
  OBVIOUS
<1>1. /\ name \in Names /\ row = Inherited[name]
      /\ store = [t \in Tabs |-> row] /\ base = store
      /\ pending = [t \in Tabs |-> <<>>] /\ failed = [t \in Tabs |-> FALSE]
      /\ staged = [t \in Tabs |-> Nothing] /\ discards = [t \in Tabs |-> <<>>]
      /\ reported = [t \in Tabs |-> {}] /\ undone = {} /\ minted = LastId
      /\ saved = Slots(row) /\ removed = {} /\ moves = 0 /\ failures = 0
  BY DEF Init
<1>2. /\ LastId \in Nat /\ Fits(row, minted)
      /\ MaxMoves \in Nat /\ MaxFailures \in Nat
  BY <1>1, InheritedAssumption DEF Fits
<1>3. \A t \in Tabs : Versions(t) = 0 .. 1 /\ \A i \in Versions(t) : Version(t, i) = row
  BY <1>1 DEF Versions, Version
<1>4. QueuesFit
  <2>1. IsSeq(<<>>)
    BY DEF IsSeq
  <2> QED
    BY <1>1, <1>2, <2>1 DEF QueuesFit
<1>5. ValuesFit
  BY <1>2, <1>3 DEF ValuesFit
<1>6. LastIsShown
  BY <1>1 DEF LastIsShown
<1>7. NothingReturns
  BY <1>3 DEF NothingReturns, Follows
<1>8. NewIsUnsaved
  BY <1>1, <1>3 DEF NewIsUnsaved
<1>9. UnsavedIsOnes
  BY <1>1, <1>3 DEF UnsavedIsOnes
<1>10. HistoryFits
  BY <1>1, <1>2 DEF HistoryFits, Fits
<1>11. DOMAIN <<>> = {}
  OBVIOUS
<1>12. \A t \in Tabs : Own(t) = {}
  BY <1>1, <1>11 DEF Own, Nothing
<1>13. RollbacksFit
  <2>1. moves \in 0 .. MaxMoves /\ failures \in 0 .. MaxFailures
    BY <1>1, <1>2
  <2> QED
    BY <1>1, <1>11, <2>1 DEF RollbacksFit
<1>14. OwnIsUnknown /\ UndoneIsGone
  BY <1>1, <1>12 DEF OwnIsUnknown, UndoneIsGone
<1> QED
  BY <1>4, <1>5, <1>6, <1>7, <1>8, <1>9, <1>10, <1>13, <1>14 DEF RowsInv, VersionsInv, TasksInv

\* Every act of a user keeps the invariant.
LEMMA ActedKeeps ==
  ASSUME RowsInv, NEW t \in Tabs, Acted(t)
  PROVE  RowsInv'
<1>1. PICK states : Grows(t, states)
  BY DEF Acted
<1> QED
  BY <1>1, GrowsKeeps, GrowsTasks DEF Acted, RowsInv

\* Every step keeps the invariant.
LEMMA RowsStep ==
  ASSUME RowsInv, [Next]_vars
  PROVE  RowsInv'
<1> USE DEF RowsInv
<1>1. ASSUME NEW t \in Tabs, People(t) PROVE RowsInv'
  <2>1. ASSUME NEW rel, Stage(t, rel) PROVE Acted(t)
    BY <2>1, StageActs
  <2>2. CASE Restage(t)
    BY <2>2, RestageActs, ActedKeeps
  <2>3. CASE Discard(t)
    BY <2>3, DiscardActs, ActedKeeps
  <2>4. CASE RetryFailedDiscards(t)
    BY <2>4, RetryActs, ActedKeeps
  <2>5. ASSUME NEW p, SetAnchor(t, p) PROVE Acted(t)
    BY <2>5, RelatesActs DEF SetAnchor
  <2>6. ASSUME NEW p, SetActiveProfile(t, p) PROVE Acted(t)
    BY <2>6, SetActiveProfileActs
  <2>7. ASSUME NEW p, NEW rel, SetRelationship(t, p, rel) PROVE Acted(t)
    BY <2>7, RelatesActs DEF SetRelationship
  <2> QED
    BY <1>1, <2>1, <2>2, <2>3, <2>4, <2>5, <2>6, <2>7, ActedKeeps DEF People
<1>2. ASSUME NEW t \in Tabs, Records(t) PROVE RowsInv'
  <2>1. ASSUME NEW o \in Owners, Regenerate(t, o) PROVE Acted(t)
    BY <2>1, RegenerateActs
  <2>2. ASSUME NEW o \in Owners, RenameCharts(t, o) PROVE Acted(t)
    BY <2>2, RenameChartsActs
  <2>3. ASSUME NEW o \in Owners, AddEvent(t, o) PROVE Acted(t)
    BY <2>3, AddEventActs
  <2>4. ASSUME NEW o \in Owners, NEW e, EditEvent(t, o, e) PROVE Acted(t)
    BY <2>4, EditEventActs
  <2>5. ASSUME NEW o \in Owners, NEW e, RemoveEvent(t, o, e) PROVE Acted(t)
    BY <2>5, RemoveEventActs
  <2>6. ASSUME StartThread(t) PROVE Acted(t)
    BY <2>6, StartThreadActs
  <2>7. ASSUME DeleteThread(t) PROVE Acted(t)
    BY <2>7, DeleteThreadActs
  <2>8. ASSUME NEW th, AppendMessage(t, th) PROVE Acted(t)
    BY <2>8, AppendMessageActs
  <2> QED
    BY <1>2, <2>1, <2>2, <2>3, <2>4, <2>5, <2>6, <2>7, <2>8, ActedKeeps DEF Records
<1>3. ASSUME NEW t \in Tabs, Discards(t) PROVE RowsInv'
  <2>1. ASSUME NEW p, DiscardHolds(t, p) PROVE RowsInv'
    <3>1. UNCHANGED <<name, row, store, base, pending, failed, saved, removed, minted>>
      BY <2>1 DEF DiscardHolds, Quiet
    <3> QED
      BY <2>1, <3>1, RestKeeps, DiscardHoldsTasks
  <2>2. ASSUME NEW p, DiscardFails(t, p) PROVE RowsInv'
    <3>1. UNCHANGED <<name, row, store, base, pending, failed, saved, removed, minted>>
      BY <2>2 DEF DiscardFails, Quiet
    <3> QED
      BY <2>2, <3>1, RestKeeps, DiscardFailsTasks
  <2>3. ASSUME NEW p, RewriteAfterDelay(t, p) PROVE RowsInv'
    BY <2>3, RewriteActs, ActedKeeps
  <2> QED
    BY <1>3, <2>1, <2>2, <2>3 DEF Discards
<1>4. ASSUME NEW t \in Tabs, StagedSaved(t) PROVE RowsInv'
  <2>1. UNCHANGED <<name, row, store, base, pending, failed, saved, removed, minted>>
    BY <1>4 DEF StagedSaved, history
  <2> QED
    BY <1>4, <2>1, RestKeeps, StagedSavedTasks
<1>5. ASSUME NEW t \in Tabs, CommitWrite(t) \/ FailWrite(t) \/ Reload(t) PROVE RowsInv'
  BY <1>5, CommitKeeps, CommitTasks, FailKeeps, FailTasks, ReloadKeeps, ReloadTasks
<1>6. CASE UNCHANGED vars
  <2>1. UNCHANGED <<name, row, store, base, pending, failed, staged, discards, reported, undone, saved, removed,
                    minted, moves, failures>>
    BY <1>6 DEF vars, tab, history
  <2>2. VersionsInv'
    BY <2>1, RestKeeps
  <2>3. RollbacksFit'
    BY <2>1 DEF TasksInv, RollbacksFit
  <2>4. \A u \in Tabs : Own(u)' \subseteq Own(u)
    BY <2>1 DEF Own
  <2>5. TasksInv'
    BY <2>1, <2>3, <2>4, RestTasks
  <2> QED
    BY <2>2, <2>5
<1> QED
  BY <1>1, <1>2, <1>3, <1>4, <1>5, <1>6 DEF Next

\* The invariant holds throughout.
LEMMA RowsHolds == Spec => []RowsInv
<1>1. RowsInv /\ [Next]_vars => RowsInv'
  BY RowsStep
<1> QED
  BY <1>1, RowsInit, PTL DEF Spec

\* The row and every copy of it is made of ids that were given, and what the tabs
\* have under way is of the right kind.
THEOREM RowsTypes == Spec => []TypeOK
<1>1. RowsInv => TypeOK
  <2> SUFFICES ASSUME RowsInv PROVE TypeOK
    OBVIOUS
  <2>1. QueuesFit /\ ValuesFit /\ HistoryFits /\ RollbacksFit
    BY DEF RowsInv, VersionsInv, TasksInv
  <2>2. \A t \in Tabs : Fits(store[t], minted) /\ Fits(base[t], minted)
    <3> TAKE t \in Tabs
    <3>1. Fits(store[t], minted)
      BY StoreFits DEF RowsInv
    <3>2. 0 \in Versions(t) /\ Version(t, 0) = base[t]
      <4>1. IsSeq(pending[t])
        BY <2>1 DEF QueuesFit
      <4> QED
        BY <4>1, SeqParts DEF Versions, Version
    <3> QED
      BY <2>1, <3>1, <3>2 DEF ValuesFit
  <2>3. \A s \in {row} \cup {store[t] : t \in Tabs} \cup {base[t] : t \in Tabs} :
          s.active \in 1 .. minted \cup {None} /\ \A x \in Slots(s) : x[2] \in 1 .. minted
    BY <2>1, <2>2 DEF ValuesFit, Fits
  <2>4. ASSUME NEW t \in Tabs
        PROVE  /\ staged[t].id \in 1 .. minted \cup {None}
               /\ \A d \in DOMAIN discards[t] : discards[t][d].left \in 0 .. MaxRetries
               /\ {<<None, p>> : p \in reported[t]} \subseteq removed
    BY <2>1 DEF RollbacksFit, Nothing
  <2> QED
    BY <2>1, <2>3, <2>4 DEF TypeOK, QueuesFit, HistoryFits, RollbacksFit
<1> QED
  BY <1>1, RowsHolds, PTL

\* Only a write changes the row.
LEMMA OnlyWrites ==
  ASSUME RowsInv, Next, row' # row
  PROVE  \E t \in Tabs : CommitWrite(t)
<1>1. ASSUME NEW t, Acted(t) PROVE row' = row
  BY <1>1 DEF Acted, Grows
<1>2. ASSUME NEW t, NEW n, Acts(t, n) PROVE row' = row
  BY <1>2 DEF Acts
<1>3. ASSUME NEW t \in Tabs, People(t) PROVE row' = row
  BY <1>2, <1>3 DEF People, Stage, Restage, Discard, RetryFailedDiscards, SetAnchor, SetActiveProfile, SetRelationship
<1>4. ASSUME NEW t \in Tabs, Records(t) PROVE row' = row
  BY <1>2, <1>4 DEF Records, Regenerate, RenameCharts, AddEvent, EditEvent, RemoveEvent,
                    StartThread, DeleteThread, AppendMessage
<1>5. ASSUME NEW t \in Tabs, FailWrite(t) \/ StagedSaved(t) \/ Reload(t) \/ Discards(t) PROVE row' = row
  BY <1>5 DEF FailWrite, StagedSaved, Reload, Discards, DiscardHolds, DiscardFails, RewriteAfterDelay, Quiet
<1> QED
  BY <1>3, <1>4, <1>5 DEF Next

(* A write of one tab loses nothing that another saved, but for what a user    *)
(* removed and for a list that a first list replaces, and brings nothing back. *)
THEOREM RowsAddUp == Spec => RowAddsUp
<1> DEFINE A == row' # row =>
                  /\ Slots(row) \ Slots(row') \subseteq removed \cup RemovedWithThread \cup replaced'
                  /\ (Slots(row') \ Slots(row)) \cap saved = {}
<1>1. RowsInv /\ [Next]_vars => [A]_vars
  <2> SUFFICES ASSUME RowsInv, Next, row' # row PROVE A
    OBVIOUS
  <2>1. PICK t \in Tabs : CommitWrite(t)
    BY OnlyWrites
  <2>2. /\ \A x \in Slots(row') : x \in Slots(row) \/ (x \in Slots(Version(t, 1)) /\ x \notin Slots(base[t]))
        /\ \A x \in Slots(row) \ Slots(row') : WasRemoved(removed, x) \/ x \in replaced'
    BY <2>1, CommitRow DEF RowsInv
  <2>3. 1 \in Versions(t)
    <3>1. IsSeq(pending[t])
      BY DEF RowsInv, VersionsInv, QueuesFit
    <3> QED
      BY <3>1, SeqParts DEF Versions
  <2>4. Slots(row) \ Slots(row') \subseteq removed \cup RemovedWithThread \cup replaced'
    BY <2>2 DEF WasRemoved, RemovedWithThread
  <2>5. (Slots(row') \ Slots(row)) \cap saved = {}
    BY <2>2, <2>3 DEF RowsInv, VersionsInv, NewIsUnsaved
  <2> QED
    BY <2>4, <2>5
<1> QED
  BY <1>1, RowsHolds, PTL DEF Spec, RowAddsUp

\* A person whose rollback was said to hold is gone for good, whatever other tabs
\* that saw the person write and however late.
THEOREM DiscardsAreHonest == Spec => []DiscardIsHonest
<1>1. RowsInv => DiscardIsHonest
  <2> SUFFICES ASSUME RowsInv, NEW p \in undone, p \in DOMAIN row.entries PROVE FALSE
    BY DEF DiscardIsHonest
  <2>1. <<None, p>> \in Slots(row)
    BY SlotIs
  <2> QED
    BY <2>1 DEF RowsInv, TasksInv, UndoneIsGone
<1> QED
  BY <1>1, RowsHolds, PTL

-----------------------------------------------------------------------------
(* Rows are consistent: the invariant. *)

\* The values the row has in SQLite and in the tabs.
Values == {row} \cup UNION {{Version(t, i) : i \in Versions(t)} : t \in Tabs}

\* One anchor at most, kin point at it and nobody else at anybody, and someone
\* is active when there is anyone.
PeopleSound(s) ==
  LET e == s.entries
  IN /\ e \in [DOMAIN e -> Record("people")]
     /\ \A p, q \in Anchors(e) : p = q
     /\ \A p \in DOMAIN e : e[p].to = IF e[p].rel = "kin" THEN Only(Anchors(e)) ELSE None
     /\ IF DOMAIN e = {} THEN s.active = None ELSE s.active \in DOMAIN e

\* A tab is adding a person it shows.
StagedShown == \A t \in Tabs : staged[t] = Nothing \/ staged[t].id \in DOMAIN store[t].entries

PeopleInv == name = "people" => StagedShown /\ \A s \in Values : PeopleSound(s)

\* A thread counts its messages.
ChatInv == name = "chat" => \A s \in Values : s.entries = Counted(s.entries, s.lists)

ChartsOf(e, o) == {c \in DOMAIN e : e[c].of = o}

\* Who has charts has one primary chart.
ChartsSound(s) ==
  LET e == s.entries
  IN /\ e \in [DOMAIN e -> Record("charts")]
     /\ \A o \in Owners : ChartsOf(e, o) # {} => \E d \in DOMAIN e : Primaries(e, o) = {d}

\* Two values that have a chart have it of the same owner.
Agree(s, u) == \A c \in DOMAIN s.entries \cap DOMAIN u.entries : s.entries[c].of = u.entries[c].of

\* From one value to a later one an owner's primary chart stays, and no chart is
\* added, or the primary chart is one that the first value did not have.
Succeeds(s, u) ==
  \A o \in Owners :
    \/ Primaries(u.entries, o) = Primaries(s.entries, o) /\ ChartsOf(u.entries, o) \subseteq ChartsOf(s.entries, o)
    \/ Primaries(u.entries, o) # {} /\ Primaries(u.entries, o) \cap DOMAIN s.entries = {}

ChoicesNew == \A t \in Tabs : \A i, j \in Versions(t) : i < j => Succeeds(Version(t, i), Version(t, j))

\* A chart a tab knows that is primary in the row was so when the tab knew it.
NonePromoted ==
  \A t \in Tabs, o \in Owners :
    Primaries(row.entries, o) \cap DOMAIN base[t].entries \subseteq Primaries(base[t].entries, o)

ChartsInv ==
  name = "charts" => /\ \A s \in Values : ChartsSound(s)
                     /\ \A s, u \in Values : Agree(s, u)
                     /\ ChoicesNew /\ NonePromoted

-----------------------------------------------------------------------------
\* The first of one id is that id, and of none it is none.
LEMMA OnlyThat ==
  ASSUME NEW d \in Nat
  PROVE  Only({d}) = d /\ Only({}) = None
<1>1. Only({d}) \in {d}
  BY OnlyIn
<1> QED
  BY <1>1 DEF Only

\* Every value is of given ids.
LEMMA ValueFits ==
  ASSUME VersionsInv, NEW s \in Values
  PROVE  Fits(s, minted) /\ minted \in Nat /\ DOMAIN s.entries \subseteq 1 .. minted
<1>1. Fits(s, minted) /\ minted \in Nat
  BY DEF VersionsInv, QueuesFit, ValuesFit, Values
<1> QED
  BY <1>1, FitsParts

\* What a tab knows and what it shows are the first and the last of its versions.
LEMMA StoreIsValue ==
  ASSUME VersionsInv, NEW t \in Tabs
  PROVE  /\ store[t] \in Values /\ base[t] \in Values
         /\ Len(pending[t]) \in Nat /\ Len(pending[t]) + 1 \in Versions(t) /\ 0 \in Versions(t) /\ 1 \in Versions(t)
         /\ Version(t, Len(pending[t]) + 1) = store[t] /\ Version(t, 0) = base[t]
         /\ \A i \in Versions(t) : i \in Nat /\ i <= Len(pending[t]) + 1
<1>1. IsSeq(pending[t])
  BY DEF VersionsInv, QueuesFit
<1>2. Len(pending[t]) \in Nat
  BY <1>1, SeqParts
<1>3. Len(pending[t]) + 1 \in Versions(t) /\ 0 \in Versions(t) /\ 1 \in Versions(t)
  BY <1>2 DEF Versions
<1>4. Version(t, Len(pending[t]) + 1) = store[t] /\ Version(t, 0) = base[t]
  BY <1>2 DEF Version
<1>5. \A i \in Versions(t) : i \in Nat /\ i <= Len(pending[t]) + 1
  BY <1>2 DEF Versions
<1> QED
  BY <1>2, <1>3, <1>4, <1>5 DEF Values

-----------------------------------------------------------------------------
(* The values after a step. *)

\* A tab queues the writes of some states.
Queues(t, states) == /\ Set(t, states) /\ IsSeq(states) /\ Len(states) > 0
                     /\ UNCHANGED <<name, row, base>>

\* After a user's act: what there was, and what was queued.
LEMMA GrownValues ==
  ASSUME VersionsInv, NEW t \in Tabs, NEW states, Queues(t, states)
  PROVE  \A s \in Values' : s \in Values \/ \E j \in 1 .. Len(states) : s = states[j]
<1>1. /\ \A i \in Versions(t)' :
           \/ i \in Versions(t) /\ Version(t, i)' = Version(t, i)
           \/ \E j \in 1 .. Len(states) : Version(t, i)' = states[j]
      /\ \A u \in Tabs \ {t} : pending'[u] = pending[u] /\ store'[u] = store[u]
      /\ row' = row /\ base' = base
  <2>1. QueuesFit /\ IsSeq(states) /\ Len(states) > 0 /\ Set(t, states) /\ base' = base /\ row' = row
    BY DEF VersionsInv, Queues
  <2> QED
    BY <2>1, Grown
<1>2. \A u \in Tabs \ {t} : Versions(u)' = Versions(u) /\ \A i \in Versions(u) : Version(u, i)' = Version(u, i)
  BY <1>1, Kept
<1> QED
  BY <1>1, <1>2 DEF Values

\* After a write: what there was, and the row.
LEMMA CommitValues ==
  ASSUME VersionsInv, NEW t \in Tabs, CommitWrite(t)
  PROVE  /\ Version(t, 1) \in Values /\ Version(t, 1) = Head(pending[t])
         /\ \A i \in Versions(t)' : i \in Versions(t) /\ i + 1 \in Versions(t) /\ Version(t, i)' = Version(t, i + 1)
         /\ \A u \in Tabs \ {t} : Versions(u)' = Versions(u) /\ \A i \in Versions(u) : Version(u, i)' = Version(u, i)
         /\ \A s \in Values' : s \in Values \/ s = row'
<1>1. /\ QueuesFit /\ pending[t] # <<>> /\ Dequeue(t) /\ store' = store
      /\ base' = [base EXCEPT ![t] = Acknowledged(t)]
  BY DEF VersionsInv, CommitWrite
<1>2. /\ Version(t, 1) = Head(pending[t])
      /\ \A i \in Versions(t)' : /\ i \in Versions(t) /\ i + 1 \in Versions(t)
                                 /\ i # 0 => Version(t, i)' = Version(t, i + 1)
      /\ \A u \in Tabs \ {t} : pending'[u] = pending[u]
  BY <1>1, Shrunk
<1>3. base'[t] = Version(t, 1) /\ \A u \in Tabs \ {t} : base'[u] = base[u]
  BY <1>1, <1>2 DEF Acknowledged, QueuesFit
<1>4. \A u \in Tabs \ {t} : Versions(u)' = Versions(u) /\ \A i \in Versions(u) : Version(u, i)' = Version(u, i)
  BY <1>1, <1>2, <1>3, Kept
<1>5. ASSUME NEW i \in Versions(t)' PROVE Version(t, i)' = Version(t, i + 1)
  <2>1. CASE i = 0
    BY <1>3, <2>1 DEF Version
  <2> QED
    BY <1>2, <2>1
<1>6. 1 \in Versions(t)
  BY StoreIsValue
<1> QED
  BY <1>2, <1>4, <1>5, <1>6 DEF Values

-----------------------------------------------------------------------------
(* The merge is consistent. *)

\* What a write makes of the records of people, charts and threads.
LEMMA MergedRecords ==
  ASSUME NEW last \in Nat, NEW b, NEW l, NEW r, Fits(b, last), Fits(l, last), Fits(r, last)
  PROVE  LET m == MergePersisted(name, b, l, r)
             e == MergeMap(b.entries, l.entries, r.entries)
         IN /\ name = "people" => /\ m.entries = NormalizeProfiles(b.entries, l.entries, r.entries, e)
                                  /\ m.active \in DOMAIN e \/ m.active = Only(DOMAIN e)
            /\ name = "charts" => m.entries = NormalizeCharts(b.entries, l.entries, r.entries, e)
            /\ name = "chat" => m.entries = Counted(m.entries, m.lists)
<1> DEFINE B == Sanitize(name, b)
           L == Sanitize(name, l)
           R == Sanitize(name, r)
           e == MergeMap(B.entries, L.entries, R.entries)
           s == MergeLists(B.lists, L.lists, R.lists)
           a == The(MergeNode({B.active}, {L.active}, {R.active}))
           q == Normalize(name, B, L, R, [entries |-> e, lists |-> s, active |-> a])
           m == MergePersisted(name, b, l, r)
<1>1. B.entries = b.entries /\ L.entries = l.entries /\ R.entries = r.entries
  BY SanitizedSide
<1>2. m = Sanitize(name, q)
  BY DEF MergePersisted, MergeState
<1>3. q = [entries |-> q.entries, lists |-> s, active |-> a] /\ DOMAIN q.entries = DOMAIN e
  BY NormalizedPlaces
<1>4. e = MergeMap(b.entries, l.entries, r.entries)
  BY <1>1
<1> HIDE DEF s, a, B, L, R
<1>5. /\ name = "people" => q.entries = NormalizeProfiles(B.entries, L.entries, R.entries, e)
      /\ name = "charts" => q.entries = NormalizeCharts(B.entries, L.entries, R.entries, e)
      /\ name = "chat" => q.entries = Counted(e, s)
  <2> DEFINE p == [entries |-> e, lists |-> s, active |-> a]
  <2>1. p.entries = e /\ p.lists = s /\ DOMAIN p = {"entries", "lists", "active"}
    BY DEF p
  <2>2. q = Normalize(name, B, L, R, p)
    BY DEF q
  <2> HIDE DEF p, e, q
  <2>3. CASE name = "people"
    <3>1. q = [p EXCEPT !.entries = NormalizeProfiles(B.entries, L.entries, R.entries, @)]
      BY <2>2, <2>3 DEF Normalize
    <3> QED
      BY <2>1, <2>3, <3>1
  <2>4. CASE name = "charts"
    <3>1. q = [p EXCEPT !.entries = NormalizeCharts(B.entries, L.entries, R.entries, @)]
      BY <2>2, <2>4 DEF Normalize
    <3> QED
      BY <2>1, <2>4, <3>1
  <2>5. CASE name = "chat"
    <3>1. q = [p EXCEPT !.entries = Counted(@, p.lists)]
      BY <2>2, <2>5 DEF Normalize
    <3> QED
      BY <2>1, <2>5, <3>1
  <2> QED
    BY <2>3, <2>4, <2>5
<1> HIDE DEF e, q, m
<1>6. CASE name = "people"
  <2>1. m = [q EXCEPT !.active = IF @ \in DOMAIN q.entries THEN @ ELSE Only(DOMAIN q.entries)]
    BY <1>2, <1>6 DEF Sanitize
  <2>2. m.entries = q.entries /\ (m.active \in DOMAIN q.entries \/ m.active = Only(DOMAIN q.entries))
    BY <1>3, <2>1
  <2> QED
    BY <1>1, <1>3, <1>4, <1>5, <1>6, <2>2 DEF m
<1>7. CASE name = "charts"
  <2>1. m = q
    BY <1>2, <1>7 DEF Sanitize
  <2> QED
    BY <1>1, <1>4, <1>5, <1>7, <2>1 DEF m
<1>8. CASE name = "chat"
  <2>1. m = [q EXCEPT !.lists = Restrict(@, DOMAIN @ \cap DOMAIN q.entries)]
    BY <1>2, <1>8 DEF Sanitize
  <2>2. m.entries = q.entries /\ m.lists = Restrict(s, DOMAIN s \cap DOMAIN q.entries)
    BY <1>3, <2>1
  <2>3. /\ DOMAIN m.lists = DOMAIN s \cap DOMAIN q.entries
        /\ \A k \in DOMAIN s \cap DOMAIN q.entries : m.lists[k] = s[k]
    BY <2>2 DEF Restrict
  <2>4. q.entries = Counted(e, s) /\ DOMAIN q.entries = DOMAIN e
    BY <1>3, <1>5, <1>8
  <2>5. \A k \in DOMAIN q.entries : k \in DOMAIN m.lists <=> k \in DOMAIN s
    BY <2>3
  <2>6. \A k \in DOMAIN q.entries :
          (IF k \in DOMAIN m.lists THEN Cardinality(DOMAIN m.lists[k]) ELSE 0) =
          (IF k \in DOMAIN s THEN Cardinality(DOMAIN s[k]) ELSE 0)
    BY <2>3, <2>5
  <2>7. Counted(q.entries, m.lists) = Counted(e, s)
    BY <2>4, <2>6, Zenon DEF Counted
  <2> QED
    BY <1>8, <2>2, <2>4, <2>7 DEF m
<1> QED
  BY <1>6, <1>7, <1>8

\* The records of people that a write makes, whatever it merges.
LEMMA NormalizedPeople ==
  ASSUME NEW b, NEW l, NEW r, NEW e, DOMAIN e \in SUBSET Nat, NEW s,
         s.entries = NormalizeProfiles(b, l, r, e),
         s.active \in DOMAIN e \/ s.active = Only(DOMAIN e)
  PROVE  /\ PeopleSound(s) /\ DOMAIN s.entries = DOMAIN e
         /\ Anchors(s.entries) =
              {Only(Preferred(Anchors(b), Anchors(l), Anchors(r), Anchors(e)) \cap DOMAIN e)} \cap DOMAIN e
<1> DEFINE anchors == Preferred(Anchors(b), Anchors(l), Anchors(r), Anchors(e)) \cap DOMAIN e
           anchor == Only(anchors)
           n == NormalizeProfiles(b, l, r, e)
<1>1. /\ DOMAIN n = DOMAIN e
      /\ \A p \in DOMAIN e : n[p] = IF p = anchor THEN [rel |-> "self", to |-> None]
                                    ELSE IF e[p].rel = "kin" THEN [rel |-> "kin", to |-> anchor] ELSE Plain
  BY DEF NormalizeProfiles
<1>2. None \notin Nat
  BY InheritedAssumption
<1>3. anchors \in SUBSET Nat /\ anchors \subseteq DOMAIN e
  OBVIOUS
<1>4. anchor \in DOMAIN e \/ anchor = None
  BY <1>3, OnlyOne
<1>5. n = [p \in DOMAIN e |-> n[p]]
  BY DEF NormalizeProfiles
<1> HIDE DEF n, anchors
<1>6. Anchors(n) = {anchor} \cap DOMAIN e
  <2>1. \A p \in DOMAIN e : n[p].rel = "self" <=> p = anchor
    BY <1>1 DEF Plain
  <2> QED
    BY <1>1, <2>1 DEF Anchors
<1>7. Only(Anchors(n)) = anchor
  <2>1. CASE anchor \in DOMAIN e
    BY <1>6, <2>1, OnlyThat
  <2>2. CASE anchor = None
    BY <1>2, <1>6, <2>2, OnlyThat
  <2> QED
    BY <1>4, <2>1, <2>2
<1>8. \A p \in DOMAIN n : n[p].to = IF n[p].rel = "kin" THEN Only(Anchors(n)) ELSE None
  BY <1>1, <1>7 DEF Plain
<1>9. n \in [DOMAIN n -> Record("people")]
  <2>1. \A p \in DOMAIN e : n[p] \in [rel : {"none", "kin", "self"}, to : Nat \cup {None}]
    BY <1>1, <1>4 DEF Plain
  <2> QED
    BY <1>1, <1>5, <2>1 DEF Record
<1>10. IF DOMAIN n = {} THEN s.active = None ELSE s.active \in DOMAIN n
  BY <1>1, OnlyIn, OnlyThat
<1>11. s.entries = n
  BY DEF n
<1>12. PeopleSound(s)
  BY <1>6, <1>8, <1>9, <1>10, <1>11 DEF PeopleSound
<1> QED
  BY <1>1, <1>6, <1>11, <1>12 DEF anchors

\* A merge has only keys of one of its sides.
LEMMA MergedOf ==
  ASSUME NEW b, NEW l, NEW r
  PROVE  DOMAIN MergeMap(b, l, r) \subseteq DOMAIN l \cup DOMAIN r
<1>1. DOMAIN MergeMap(b, l, r) = {k \in DOMAIN l \cup DOMAIN r : Merged(b, l, r, k) # Absent}
  BY MergedKeys
<1> QED
  BY <1>1

\* What a write merges: what the tab knew, what it writes and what the row holds.
LEMMA CommitParts ==
  ASSUME VersionsInv, NEW t \in Tabs, CommitWrite(t)
  PROVE  /\ base[t] \in Values /\ Version(t, 1) \in Values /\ row \in Values
         /\ Fits(base[t], minted) /\ Fits(Version(t, 1), minted) /\ Fits(row, minted) /\ minted \in Nat
         /\ row' = MergePersisted(name, base[t], Version(t, 1), row)
         /\ DOMAIN MergeMap(base[t].entries, Version(t, 1).entries, row.entries) \in SUBSET (1 .. minted)
<1>1. /\ base[t] \in Values /\ Version(t, 1) \in Values /\ Version(t, 1) = Head(pending[t])
  BY StoreIsValue, CommitValues
<1>2. row \in Values
  BY DEF Values
<1>3. Fits(base[t], minted) /\ Fits(Version(t, 1), minted) /\ Fits(row, minted) /\ minted \in Nat
  BY <1>1, <1>2, ValueFits
<1>4. row' = MergePersisted(name, base[t], Version(t, 1), row)
  BY <1>1 DEF CommitWrite
<1>5. DOMAIN Version(t, 1).entries \subseteq 1 .. minted /\ DOMAIN row.entries \subseteq 1 .. minted
  BY <1>3, FitsParts
<1>6. DOMAIN MergeMap(base[t].entries, Version(t, 1).entries, row.entries)
        \subseteq DOMAIN Version(t, 1).entries \cup DOMAIN row.entries
  BY MergedOf
<1> QED
  BY <1>1, <1>2, <1>3, <1>4, <1>5, <1>6

\* A write leaves the people of the row consistent, and their anchor is the one
\* that was chosen.
LEMMA CommitPeople ==
  ASSUME VersionsInv, name = "people", NEW t \in Tabs, CommitWrite(t)
  PROVE  LET b == base[t].entries
             l == Version(t, 1).entries
             r == row.entries
             e == MergeMap(b, l, r)
             anchors == Preferred(Anchors(b), Anchors(l), Anchors(r), Anchors(e)) \cap DOMAIN e
         IN /\ PeopleSound(row') /\ DOMAIN row'.entries = DOMAIN e
            /\ Anchors(row'.entries) = {Only(anchors)} \cap DOMAIN e
<1> DEFINE b == base[t].entries
           l == Version(t, 1).entries
           r == row.entries
           e == MergeMap(b, l, r)
<1>1. /\ row' = MergePersisted(name, base[t], Version(t, 1), row) /\ minted \in Nat
      /\ Fits(base[t], minted) /\ Fits(Version(t, 1), minted) /\ Fits(row, minted)
      /\ DOMAIN e \in SUBSET (1 .. minted)
  BY CommitParts
<1>2. row'.entries = NormalizeProfiles(b, l, r, e) /\ (row'.active \in DOMAIN e \/ row'.active = Only(DOMAIN e))
  BY <1>1, MergedRecords
<1>3. DOMAIN e \in SUBSET Nat
  BY <1>1
<1> HIDE DEF e, b, l, r
<1>4. PeopleSound(row')
  BY <1>2, <1>3, NormalizedPeople
<1>5. DOMAIN row'.entries = DOMAIN e
  BY <1>2 DEF NormalizeProfiles
<1>6. Anchors(row'.entries) =
        {Only(Preferred(Anchors(b), Anchors(l), Anchors(r), Anchors(e)) \cap DOMAIN e)} \cap DOMAIN e
  BY <1>2, <1>3, NormalizedPeople
<1> QED
  BY <1>4, <1>5, <1>6 DEF e, b, l, r

\* A write keeps the people's invariant.
LEMMA CommitPeopleInv ==
  ASSUME VersionsInv, PeopleInv, NEW t \in Tabs, CommitWrite(t)
  PROVE  PeopleInv'
<1> SUFFICES ASSUME name = "people" PROVE PeopleInv'
  BY DEF PeopleInv, CommitWrite
<1>1. \A s \in Values' : PeopleSound(s)
  BY CommitPeople, CommitValues DEF PeopleInv
<1>2. UNCHANGED <<name, store, staged>>
  BY DEF CommitWrite
<1>3. StagedShown'
  BY <1>2 DEF PeopleInv, StagedShown
<1> QED
  BY <1>1, <1>3 DEF PeopleInv

\* A write counts the messages of every thread.
LEMMA CommitChatInv ==
  ASSUME VersionsInv, ChatInv, NEW t \in Tabs, CommitWrite(t)
  PROVE  ChatInv'
<1> SUFFICES ASSUME name = "chat" PROVE ChatInv'
  BY DEF ChatInv, CommitWrite
<1>1. row'.entries = Counted(row'.entries, row'.lists)
  BY CommitParts, MergedRecords
<1>2. name' = name
  BY DEF CommitWrite
<1> QED
  BY <1>1, <1>2, CommitValues DEF ChatInv

-----------------------------------------------------------------------------
(* A write and the primary charts. *)

\* An owner's primary charts are charts of the owner.
LEMMA ChartSets ==
  ASSUME NEW e, NEW o
  PROVE  /\ Primaries(e, o) \subseteq ChartsOf(e, o) /\ ChartsOf(e, o) \subseteq DOMAIN e
         /\ \A c : c \in ChartsOf(e, o) <=> c \in DOMAIN e /\ e[c].of = o
         /\ \A c : c \in Primaries(e, o) <=> c \in ChartsOf(e, o) /\ e[c].primary
  BY DEF Primaries, ChartsOf

\* The chart of an owner that normalizeCharts selects.
Selected(b, l, r, e, o) ==
  Only(Preferred(Primaries(b, o), Primaries(l, o), Primaries(r, o), Primaries(e, o)) \cap DOMAIN e)

\* What ChangesWin and DeletionWins say of the charts of one owner.
LEMMA MergedCharts ==
  ASSUME NEW b, NEW l, NEW r, NEW o,
         \A c \in DOMAIN b \cap DOMAIN l : b[c].of = l[c].of,
         \A c \in DOMAIN b \cap DOMAIN r : b[c].of = r[c].of,
         \A c \in DOMAIN l \cap DOMAIN r : l[c].of = r[c].of
  PROVE  LET e == MergeMap(b, l, r)
         IN /\ \A c : c \in ChartsOf(e, o) <=>
                       IF c \in DOMAIN b THEN c \in ChartsOf(l, o) /\ c \in ChartsOf(r, o)
                       ELSE c \in ChartsOf(l, o) \/ c \in ChartsOf(r, o)
            /\ \A c \in ChartsOf(e, o) : e[c] = IF c \in DOMAIN l /\ (c \in DOMAIN b => l[c] # b[c]) THEN l[c] ELSE r[c]
<1> DEFINE e == MergeMap(b, l, r)
<1>1. \A c : c \in DOMAIN e <=> IF c \in DOMAIN b THEN c \in DOMAIN l /\ c \in DOMAIN r
                                ELSE c \in DOMAIN l \/ c \in DOMAIN r
  BY DeletionWins
<1>2. \A c \in DOMAIN e : e[c] = IF c \in DOMAIN l /\ (c \in DOMAIN b => l[c] # b[c]) THEN l[c] ELSE r[c]
  BY ChangesWin
<1> HIDE DEF e
<1> QED
  BY <1>1, <1>2 DEF ChartsOf, e

\* What a tab knew of an owner's charts, what it writes, and what the row holds.
Mergeable(b, l, r, o) ==
  /\ DOMAIN l \subseteq Nat /\ DOMAIN r \subseteq Nat
  /\ \A c \in DOMAIN b \cap DOMAIN l : b[c].of = l[c].of
  /\ \A c \in DOMAIN b \cap DOMAIN r : b[c].of = r[c].of
  /\ \A c \in DOMAIN l \cap DOMAIN r : l[c].of = r[c].of
  /\ ChartsOf(b, o) # {} => \E d : Primaries(b, o) = {d}
  /\ ChartsOf(l, o) # {} => \E d : Primaries(l, o) = {d}
  /\ ChartsOf(r, o) # {} => \E d : Primaries(r, o) = {d}
  /\ \/ Primaries(l, o) = Primaries(b, o) /\ ChartsOf(l, o) \subseteq ChartsOf(b, o)
     \/ Primaries(l, o) # {} /\ Primaries(l, o) \cap DOMAIN b = {}
  /\ Primaries(r, o) \cap DOMAIN b \subseteq Primaries(b, o)

\* The chart that a write makes an owner's primary one: one the tab chose since it
\* last knew the row, or else the row's.
LEMMA SelectedIs ==
  ASSUME NEW b, NEW l, NEW r, NEW o, Mergeable(b, l, r, o), ChartsOf(MergeMap(b, l, r), o) # {}
  PROVE  LET e == MergeMap(b, l, r)
             selected == Selected(b, l, r, e, o)
         IN /\ selected \in ChartsOf(e, o)
            /\ \/ Primaries(l, o) # Primaries(b, o) /\ selected \in Primaries(l, o) \ DOMAIN b
               \/ Primaries(l, o) = Primaries(b, o) /\ Primaries(r, o) = {selected}
<1> DEFINE e == MergeMap(b, l, r)
           chosen == Preferred(Primaries(b, o), Primaries(l, o), Primaries(r, o), Primaries(e, o))
           selected == Selected(b, l, r, e, o)
<1>0. selected = Only(chosen \cap DOMAIN e)
  BY DEF Selected
<1>1. \A c : c \in ChartsOf(e, o) <=> IF c \in DOMAIN b THEN c \in ChartsOf(l, o) /\ c \in ChartsOf(r, o)
                                      ELSE c \in ChartsOf(l, o) \/ c \in ChartsOf(r, o)
  BY MergedCharts DEF Mergeable
<1>2. \A c \in ChartsOf(e, o) : e[c] = IF c \in DOMAIN l /\ (c \in DOMAIN b => l[c] # b[c]) THEN l[c] ELSE r[c]
  BY MergedCharts DEF Mergeable
<1> HIDE DEF e, chosen, selected
<1>3. /\ \A c : c \in ChartsOf(l, o) <=> c \in DOMAIN l /\ l[c].of = o
      /\ \A c : c \in ChartsOf(r, o) <=> c \in DOMAIN r /\ r[c].of = o
      /\ \A c : c \in ChartsOf(b, o) <=> c \in DOMAIN b /\ b[c].of = o
      /\ \A c : c \in ChartsOf(e, o) <=> c \in DOMAIN e /\ e[c].of = o
      /\ \A c : c \in Primaries(l, o) <=> c \in ChartsOf(l, o) /\ l[c].primary
      /\ \A c : c \in Primaries(r, o) <=> c \in ChartsOf(r, o) /\ r[c].primary
      /\ \A c : c \in Primaries(b, o) <=> c \in ChartsOf(b, o) /\ b[c].primary
      /\ \A c : c \in Primaries(e, o) <=> c \in ChartsOf(e, o) /\ e[c].primary
  BY ChartSets
<1> USE DEF Mergeable
<1>4. CASE Primaries(l, o) # Primaries(b, o)
  <2>1. PICK d : Primaries(l, o) = {d}
    BY <1>3, <1>4
  <2>2. d \notin DOMAIN b /\ d \in ChartsOf(e, o) /\ d \in DOMAIN e /\ d \in Nat
    BY <1>1, <1>3, <1>4, <2>1
  <2>3. chosen = {d}
    BY <1>4, <2>1 DEF Preferred, chosen
  <2>4. chosen \cap DOMAIN e = {d}
    BY <2>2, <2>3
  <2>5. selected = d
    BY <1>0, <2>2, <2>4, OnlyThat
  <2> QED
    BY <1>4, <2>1, <2>2, <2>5 DEF e, selected
<1>5. CASE Primaries(l, o) = Primaries(b, o)
  <2>1. ChartsOf(l, o) \subseteq ChartsOf(b, o)
    BY <1>3, <1>5
  <2>2. \A c \in ChartsOf(e, o) : c \in ChartsOf(r, o)
    BY <1>1, <1>3, <2>1
  <2>3. PICK d : Primaries(r, o) = {d}
    BY <2>2 DEF e, selected
  <2>4. d \in ChartsOf(r, o) /\ d \in DOMAIN r /\ d \in Nat
    BY <1>3, <2>3
  <2>5. CASE Primaries(r, o) # Primaries(b, o)
    <3>1. d \notin DOMAIN b
      <4> SUFFICES ASSUME d \in DOMAIN b PROVE FALSE
        OBVIOUS
      <4>1. d \in Primaries(b, o)
        BY <2>3
      <4>2. Primaries(b, o) = {d}
        BY <1>3, <4>1
      <4> QED
        BY <2>3, <2>5, <4>2
    <3>2. d \in ChartsOf(e, o) /\ d \in DOMAIN e
      BY <1>1, <1>3, <2>4, <3>1
    <3>3. chosen = {d}
      BY <1>5, <2>3, <2>5 DEF Preferred, chosen
    <3>4. chosen \cap DOMAIN e = {d}
      BY <3>2, <3>3
    <3>5. selected = d
      BY <1>0, <2>4, <3>4, OnlyThat
    <3> QED
      BY <1>5, <2>3, <3>2, <3>5 DEF e, selected
  <2>6. CASE Primaries(r, o) = Primaries(b, o)
    <3>1. d \in ChartsOf(l, o) /\ d \in ChartsOf(r, o) /\ d \in DOMAIN b
      BY <1>3, <1>5, <2>3, <2>6
    <3>2. d \in ChartsOf(e, o) /\ d \in DOMAIN e
      BY <1>1, <1>3, <3>1
    <3>3. ASSUME NEW c \in Primaries(e, o) PROVE c = d
      <4>1. c \in ChartsOf(e, o) /\ e[c].primary
        BY <1>3
      <4>2. CASE e[c] = l[c] /\ c \in DOMAIN l
        <5>1. l[c].primary /\ e[c].of = o
          BY <1>3, <4>1, <4>2
        <5>2. c \in Primaries(l, o)
          BY <1>3, <4>2, <5>1
        <5> QED
          BY <1>5, <2>3, <2>6, <5>2
      <4>3. CASE e[c] = r[c]
        <5>1. c \in Primaries(r, o)
          BY <1>3, <2>2, <4>1, <4>3
        <5> QED
          BY <2>3, <5>1
      <4> QED
        BY <1>2, <4>1, <4>2, <4>3
    <3>4. d \in Primaries(e, o)
      <4>1. d \in Primaries(l, o) /\ d \in Primaries(r, o)
        BY <1>5, <2>3, <2>6
      <4>2. l[d].primary /\ r[d].primary
        BY <1>3, <4>1
      <4>3. e[d] = l[d] \/ e[d] = r[d]
        BY <1>2, <3>2
      <4>4. e[d].primary
        BY <4>2, <4>3
      <4> QED
        BY <1>3, <3>2, <4>4
    <3>5. chosen \cap DOMAIN e = {d}
      <4>1. chosen = Primaries(e, o)
        BY <1>5, <2>6 DEF Preferred, chosen
      <4> QED
        BY <3>2, <3>3, <3>4, <4>1
    <3>6. selected = d
      BY <1>0, <2>4, <3>5, OnlyThat
    <3> QED
      BY <1>5, <2>3, <3>2, <3>6 DEF e, selected
  <2> QED
    BY <2>5, <2>6
<1> QED
  BY <1>4, <1>5

\* The records of charts that a write makes: those of the merge, of which an owner's
\* selected one is primary and no other.
LEMMA NormalizedCharts ==
  ASSUME NEW b, NEW l, NEW r, NEW e, e \in [DOMAIN e -> Record("charts")]
  PROVE  LET n == NormalizeCharts(b, l, r, e)
         IN /\ n \in [DOMAIN e -> Record("charts")]
            /\ \A c \in DOMAIN e : n[c].of = e[c].of
            /\ \A o, c : c \in Primaries(n, o) <=> c \in ChartsOf(e, o) /\ c = Selected(b, l, r, e, o)
<1> DEFINE Sel(o) == Selected(b, l, r, e, o)
           n == NormalizeCharts(b, l, r, e)
<1>1. n = [c \in DOMAIN e |-> [e[c] EXCEPT !.primary = c = Sel(e[c].of)]]
  BY DEF NormalizeCharts, Selected
<1> HIDE DEF n, Sel
<1>2. ASSUME NEW c \in DOMAIN e
      PROVE  /\ n[c] \in Record("charts") /\ n[c].of = e[c].of
             /\ n[c].primary <=> c = Sel(e[c].of)
  <2>1. e[c] \in [of : Owners, primary : BOOLEAN, label : {0, 1}]
    BY DEF Record
  <2>2. n[c] = [e[c] EXCEPT !.primary = c = Sel(e[c].of)]
    BY <1>1
  <2>3. (c = Sel(e[c].of)) \in BOOLEAN
    OBVIOUS
  <2> DEFINE yes == c = Sel(e[c].of)
  <2>4. n[c] = [e[c] EXCEPT !.primary = yes] /\ yes \in BOOLEAN
    BY <2>2, <2>3
  <2> HIDE DEF yes
  <2>5. n[c] \in [of : Owners, primary : BOOLEAN, label : {0, 1}] /\ n[c].of = e[c].of /\ n[c].primary = yes
    BY <2>1, <2>4
  <2> QED
    BY <2>5 DEF Record, yes
<1>3. n \in [DOMAIN e -> Record("charts")]
  BY <1>1, <1>2
<1>4. ASSUME NEW o, NEW c PROVE c \in Primaries(n, o) <=> c \in ChartsOf(e, o) /\ c = Sel(o)
  <2>1. DOMAIN n = DOMAIN e
    BY <1>1
  <2> QED
    BY <1>2, <2>1 DEF Primaries, ChartsOf
<1> QED
  BY <1>2, <1>3, <1>4 DEF n, Sel

\* A write leaves the charts of the row consistent, each the chart it was, and the
\* primary ones are those that were chosen.
LEMMA CommitCharts ==
  ASSUME VersionsInv, ChartsInv, name = "charts", NEW t \in Tabs, CommitWrite(t)
  PROVE  LET b == base[t].entries
             l == Version(t, 1).entries
             r == row.entries
         IN /\ ChartsSound(row')
            /\ \A c \in DOMAIN row'.entries : \E s \in Values : c \in DOMAIN s.entries /\ s.entries[c].of = row'.entries[c].of
            /\ \A o \in Owners : \A c \in Primaries(row'.entries, o) :
                 \/ Primaries(l, o) # Primaries(b, o) /\ c \in Primaries(l, o) \ DOMAIN b
                 \/ Primaries(l, o) = Primaries(b, o) /\ Primaries(r, o) = {c}
<1> DEFINE b == base[t].entries
           l == Version(t, 1).entries
           r == row.entries
           e == MergeMap(b, l, r)
           Sel(o) == Selected(b, l, r, e, o)
           n == row'.entries
<1>1. /\ base[t] \in Values /\ Version(t, 1) \in Values /\ row \in Values
      /\ row' = MergePersisted(name, base[t], Version(t, 1), row) /\ minted \in Nat
      /\ Fits(base[t], minted) /\ Fits(Version(t, 1), minted) /\ Fits(row, minted)
  BY CommitParts
<1>2. n = NormalizeCharts(b, l, r, e)
  BY <1>1, MergedRecords
<1>3. DOMAIN b \subseteq Nat /\ DOMAIN l \subseteq Nat /\ DOMAIN r \subseteq Nat
  <2>1. /\ DOMAIN b \subseteq 1 .. minted /\ DOMAIN l \subseteq 1 .. minted /\ DOMAIN r \subseteq 1 .. minted
    BY <1>1, FitsParts
  <2> QED
    BY <1>1, <2>1
<1>4. /\ b \in [DOMAIN b -> Record("charts")] /\ l \in [DOMAIN l -> Record("charts")]
      /\ r \in [DOMAIN r -> Record("charts")]
      /\ \A o \in Owners : /\ ChartsOf(b, o) # {} => \E d : Primaries(b, o) = {d}
                           /\ ChartsOf(l, o) # {} => \E d : Primaries(l, o) = {d}
                           /\ ChartsOf(r, o) # {} => \E d : Primaries(r, o) = {d}
  <2>1. ChartsSound(base[t]) /\ ChartsSound(Version(t, 1)) /\ ChartsSound(row)
    BY <1>1 DEF ChartsInv
  <2> QED
    BY <2>1 DEF ChartsSound
<1>5. /\ \A c \in DOMAIN b \cap DOMAIN l : b[c].of = l[c].of
      /\ \A c \in DOMAIN b \cap DOMAIN r : b[c].of = r[c].of
      /\ \A c \in DOMAIN l \cap DOMAIN r : l[c].of = r[c].of
  BY <1>1 DEF ChartsInv, Agree
<1>6. \A o \in Owners :
        \/ Primaries(l, o) = Primaries(b, o) /\ ChartsOf(l, o) \subseteq ChartsOf(b, o)
        \/ Primaries(l, o) # {} /\ Primaries(l, o) \cap DOMAIN b = {}
  <2>1. 0 \in Versions(t) /\ 1 \in Versions(t) /\ Version(t, 0) = base[t]
    BY StoreIsValue
  <2>2. ChoicesNew
    BY DEF ChartsInv
  <2>3. Succeeds(Version(t, 0), Version(t, 1))
    BY <2>1, <2>2 DEF ChoicesNew
  <2> QED
    BY <2>1, <2>3 DEF Succeeds
<1>7. \A o \in Owners : Primaries(r, o) \cap DOMAIN b \subseteq Primaries(b, o)
  <2>1. NonePromoted
    BY DEF ChartsInv
  <2> QED
    BY <2>1 DEF NonePromoted
<1> HIDE DEF b, l, r, n
<1>8. /\ DOMAIN e \subseteq DOMAIN l \cup DOMAIN r
      /\ \A c \in DOMAIN e : (c \in DOMAIN l /\ e[c] = l[c]) \/ (c \in DOMAIN r /\ e[c] = r[c])
  <2>1. DOMAIN e \subseteq DOMAIN l \cup DOMAIN r
    BY MergedOf
  <2>2. \A c : c \in DOMAIN e => IF c \in DOMAIN b THEN c \in DOMAIN l /\ c \in DOMAIN r
                                 ELSE c \in DOMAIN l \/ c \in DOMAIN r
    BY DeletionWins
  <2>3. \A c \in DOMAIN e : e[c] = IF c \in DOMAIN l /\ (c \in DOMAIN b => l[c] # b[c]) THEN l[c] ELSE r[c]
    BY ChangesWin
  <2> HIDE DEF e
  <2> QED
    BY <2>1, <2>2, <2>3
<1>9. e \in [DOMAIN e -> Record("charts")]
  <2>1. \A c \in DOMAIN e : e[c] \in Record("charts")
    <3> HIDE DEF e
    <3> QED
      BY <1>4, <1>8
  <2>2. e = [c \in DOMAIN e |-> e[c]]
    BY DEF MergeMap, Present
  <2> HIDE DEF e
  <2> QED
    BY <2>1, <2>2
<1>10. \A o \in Owners : ChartsOf(e, o) # {} =>
         /\ Sel(o) \in ChartsOf(e, o)
         /\ \/ Primaries(l, o) # Primaries(b, o) /\ Sel(o) \in Primaries(l, o) \ DOMAIN b
            \/ Primaries(l, o) = Primaries(b, o) /\ Primaries(r, o) = {Sel(o)}
  <2> SUFFICES ASSUME NEW o \in Owners, ChartsOf(e, o) # {}
               PROVE  /\ Sel(o) \in ChartsOf(e, o)
                      /\ \/ Primaries(l, o) # Primaries(b, o) /\ Sel(o) \in Primaries(l, o) \ DOMAIN b
                         \/ Primaries(l, o) = Primaries(b, o) /\ Primaries(r, o) = {Sel(o)}
    OBVIOUS
  <2>1. /\ ChartsOf(b, o) # {} => \E d : Primaries(b, o) = {d}
        /\ ChartsOf(l, o) # {} => \E d : Primaries(l, o) = {d}
        /\ ChartsOf(r, o) # {} => \E d : Primaries(r, o) = {d}
    BY <1>4
  <2>2. \/ Primaries(l, o) = Primaries(b, o) /\ ChartsOf(l, o) \subseteq ChartsOf(b, o)
        \/ Primaries(l, o) # {} /\ Primaries(l, o) \cap DOMAIN b = {}
    BY <1>6
  <2>3. Primaries(r, o) \cap DOMAIN b \subseteq Primaries(b, o)
    BY <1>7
  <2>4. Mergeable(b, l, r, o)
    BY <1>3, <1>5, <2>1, <2>2, <2>3 DEF Mergeable
  <2> QED
    BY <2>4, SelectedIs
<1>11. /\ n \in [DOMAIN e -> Record("charts")]
       /\ \A c \in DOMAIN e : n[c].of = e[c].of
       /\ \A o, c : c \in Primaries(n, o) <=> c \in ChartsOf(e, o) /\ c = Sel(o)
  <2> HIDE DEF e
  <2>1. n \in [DOMAIN e -> Record("charts")]
    BY <1>2, <1>9, NormalizedCharts
  <2>2. \A c \in DOMAIN e : n[c].of = e[c].of
    BY <1>2, <1>9, NormalizedCharts
  <2>3. \A o, c : c \in Primaries(n, o) <=> c \in ChartsOf(e, o) /\ c = Sel(o)
    BY <1>2, <1>9, NormalizedCharts
  <2> QED
    BY <2>1, <2>2, <2>3
<1> HIDE DEF e, Sel
<1>12. ChartsSound(row')
  <2>1. n \in [DOMAIN n -> Record("charts")] /\ DOMAIN n = DOMAIN e
    BY <1>11
  <2>2. ASSUME NEW o \in Owners, ChartsOf(n, o) # {} PROVE \E d \in DOMAIN n : Primaries(n, o) = {d}
    <3>1. ChartsOf(e, o) # {}
      BY <1>11, <2>1, <2>2 DEF ChartsOf
    <3>2. Sel(o) \in ChartsOf(e, o)
      BY <1>10, <3>1
    <3>3. Primaries(n, o) = {Sel(o)}
      BY <1>11, <3>2
    <3> QED
      BY <2>1, <3>2, <3>3 DEF ChartsOf
  <2> QED
    BY <2>1, <2>2 DEF ChartsSound, n
<1>13. \A c \in DOMAIN n : \E s \in Values : c \in DOMAIN s.entries /\ s.entries[c].of = n[c].of
  <2>1. DOMAIN n = DOMAIN e
    BY <1>11
  <2> QED
    BY <1>1, <1>8, <1>11, <2>1 DEF l, r
<1>14. \A o \in Owners : \A c \in Primaries(n, o) :
         \/ Primaries(l, o) # Primaries(b, o) /\ c \in Primaries(l, o) \ DOMAIN b
         \/ Primaries(l, o) = Primaries(b, o) /\ Primaries(r, o) = {c}
  BY <1>10, <1>11
<1> QED
  BY <1>12, <1>13, <1>14 DEF b, l, r, n

\* A write keeps the charts' invariant.
LEMMA CommitChartsInv ==
  ASSUME VersionsInv, ChartsInv, NEW t \in Tabs, CommitWrite(t)
  PROVE  ChartsInv'
<1> SUFFICES ASSUME name = "charts" PROVE ChartsInv'
  BY DEF ChartsInv, CommitWrite
<1> DEFINE b == base[t].entries
           l == Version(t, 1).entries
           r == row.entries
           n == row'.entries
<1>1. /\ ChartsSound(row')
      /\ \A c \in DOMAIN n : \E s \in Values : c \in DOMAIN s.entries /\ s.entries[c].of = n[c].of
      /\ \A o \in Owners : \A c \in Primaries(n, o) :
           \/ Primaries(l, o) # Primaries(b, o) /\ c \in Primaries(l, o) \ DOMAIN b
           \/ Primaries(l, o) = Primaries(b, o) /\ Primaries(r, o) = {c}
  BY CommitCharts
<1>2. /\ Version(t, 1) \in Values /\ 1 \in Versions(t)
      /\ \A i \in Versions(t)' : i \in Versions(t) /\ i + 1 \in Versions(t) /\ Version(t, i)' = Version(t, i + 1)
      /\ \A u \in Tabs \ {t} : Versions(u)' = Versions(u) /\ \A i \in Versions(u) : Version(u, i)' = Version(u, i)
      /\ \A s \in Values' : s \in Values \/ s = row'
  BY CommitValues, StoreIsValue
<1>3. /\ \A s \in Values : ChartsSound(s)
      /\ \A s, u \in Values : Agree(s, u)
      /\ ChoicesNew /\ NonePromoted
  BY DEF ChartsInv
<1>4. \A s \in Values' : ChartsSound(s)
  BY <1>1, <1>2, <1>3
<1>5. \A s, u \in Values' : Agree(s, u)
  <2>1. ASSUME NEW s \in Values PROVE Agree(s, row') /\ Agree(row', s)
    <3>1. ASSUME NEW c \in DOMAIN s.entries, c \in DOMAIN n PROVE s.entries[c].of = n[c].of
      <4>1. PICK u \in Values : c \in DOMAIN u.entries /\ u.entries[c].of = n[c].of
        BY <1>1, <3>1
      <4>2. Agree(s, u)
        BY <1>3
      <4> QED
        BY <3>1, <4>1, <4>2 DEF Agree
    <3> QED
      BY <3>1 DEF Agree
  <2>2. Agree(row', row')
    BY DEF Agree
  <2> QED
    BY <1>2, <1>3, <2>1, <2>2
<1>6. ChoicesNew'
  <2>1. ASSUME NEW u \in Tabs, NEW i \in Versions(u)', NEW j \in Versions(u)', i < j
        PROVE  Succeeds(Version(u, i), Version(u, j))'
    <3>1. CASE u = t
      <4>1. i + 1 < j + 1
        <5>1. \A k \in Versions(t) : k \in Nat
          BY StoreIsValue
        <5> QED
          BY <1>2, <2>1, <3>1, <5>1
      <4>2. Succeeds(Version(t, i + 1), Version(t, j + 1))
        BY <1>2, <1>3, <2>1, <3>1, <4>1 DEF ChoicesNew
      <4> QED
        BY <1>2, <2>1, <3>1, <4>2 DEF Succeeds
    <3>2. CASE u # t
      <4>1. Succeeds(Version(u, i), Version(u, j))
        BY <1>2, <1>3, <2>1, <3>2 DEF ChoicesNew
      <4> QED
        BY <1>2, <2>1, <3>2, <4>1 DEF Succeeds
    <3> QED
      BY <3>1, <3>2
  <2> QED
    BY <2>1 DEF ChoicesNew
<1>7. NonePromoted'
  <2>1. base'[t] = Version(t, 1) /\ \A u \in Tabs \ {t} : base'[u] = base[u]
    BY CommitRow
  <2>2. ASSUME NEW u \in Tabs, NEW o \in Owners, NEW c \in Primaries(n, o), c \in DOMAIN base'[u].entries
        PROVE  c \in Primaries(base'[u].entries, o)
    <3>1. CASE Primaries(l, o) # Primaries(b, o) /\ c \in Primaries(l, o) \ DOMAIN b
      <4>1. CASE u = t
        BY <2>1, <3>1, <4>1
      <4>2. CASE u # t
        <5>1. Fits(base[t], minted) /\ Fits(base[u], minted) /\ Fits(Version(t, 1), minted) /\ minted \in Nat
          BY <1>2, StoreIsValue, ValueFits
        <5>2. c \in DOMAIN l /\ c \notin DOMAIN b /\ c \in DOMAIN base[u].entries
          BY <2>1, <2>2, <3>1, <4>2 DEF Primaries
        <5>3. /\ <<None, c>> \in Slots(Version(t, 1)) /\ <<None, c>> \notin Slots(base[t])
              /\ <<None, c>> \in Slots(base[u])
          BY <5>1, <5>2, FitsParts, EntrySlot
        <5>4. <<None, c>> \notin saved
          BY <1>2, <5>3 DEF VersionsInv, NewIsUnsaved
        <5>5. Version(u, 0) = base[u] /\ 0 \in Versions(u)
          BY StoreIsValue
        <5>6. <<None, c>> \in saved
          BY <1>2, <4>2, <5>3, <5>5 DEF VersionsInv, UnsavedIsOnes
        <5> QED
          BY <5>4, <5>6
      <4> QED
        BY <4>1, <4>2
    <3>2. CASE Primaries(l, o) = Primaries(b, o) /\ Primaries(r, o) = {c}
      <4>1. CASE u = t
        <5>1. c \in DOMAIN l
          BY <2>1, <2>2, <4>1
        <5>2. ChartsOf(l, o) \subseteq ChartsOf(b, o)
          <6>1. 0 \in Versions(t) /\ Version(t, 0) = base[t]
            BY StoreIsValue
          <6>2. Succeeds(Version(t, 0), Version(t, 1))
            BY <1>2, <1>3, <6>1 DEF ChoicesNew
          <6>3. Primaries(b, o) \subseteq DOMAIN b
            BY DEF Primaries
          <6> QED
            BY <3>2, <6>1, <6>2, <6>3 DEF Succeeds
        <5>3. Agree(Version(t, 1), row)
          BY <1>2, <1>3 DEF Values
        <5>4. c \in DOMAIN r /\ r[c].of = o
          BY <3>2 DEF Primaries
        <5>5. c \in ChartsOf(l, o)
          BY <5>1, <5>3, <5>4 DEF Agree, ChartsOf
        <5>6. c \in DOMAIN b
          BY <5>2, <5>5 DEF ChartsOf
        <5>7. c \in Primaries(b, o)
          BY <1>3, <3>2, <5>6 DEF NonePromoted
        <5> QED
          BY <2>1, <3>2, <4>1, <5>7
      <4>2. CASE u # t
        BY <1>3, <2>1, <2>2, <3>2, <4>2 DEF NonePromoted
      <4> QED
        BY <4>1, <4>2
    <3> QED
      BY <1>1, <3>1, <3>2
  <2> QED
    BY <2>2 DEF NonePromoted
<1>8. name' = name
  BY DEF CommitWrite
<1> QED
  BY <1>4, <1>5, <1>6, <1>7 DEF ChartsInv

-----------------------------------------------------------------------------
(* A write keeps the choices of others. *)

\* Of ids all of which are one, the first is that one.
LEMMA OnlyOfOne ==
  ASSUME NEW ids \in SUBSET Nat, \A p, q \in ids : p = q, NEW D, ids \subseteq D, None \notin D
  PROVE  {Only(ids)} \cap D = ids
<1>1. CASE ids = {}
  BY <1>1, OnlyThat
<1>2. CASE ids # {}
  BY <1>2, OnlyIn
<1> QED
  BY <1>1, <1>2

\* A write of a tab whose user chose no other anchor leaves the row's.
LEMMA AnchorStays ==
  ASSUME VersionsInv, PeopleInv, name = "people", NEW t \in Tabs, CommitWrite(t),
         Anchors(Version(t, 1).entries) = Anchors(base[t].entries)
  PROVE  Anchors(row'.entries) = Anchors(row.entries) \cap DOMAIN row'.entries
<1> DEFINE b == base[t].entries
           l == Version(t, 1).entries
           r == row.entries
           e == MergeMap(b, l, r)
           kept == Anchors(r) \cap DOMAIN e
           chosen == Preferred(Anchors(b), Anchors(l), Anchors(r), Anchors(e)) \cap DOMAIN e
<1>1. Anchors(row'.entries) = {Only(chosen)} \cap DOMAIN e /\ DOMAIN row'.entries = DOMAIN e
  BY CommitPeople
<1>2. /\ \A p, q \in Anchors(r) : p = q
      /\ None \notin DOMAIN e /\ DOMAIN e \subseteq Nat
  <2>1. PeopleSound(row) /\ DOMAIN e \in SUBSET (1 .. minted) /\ minted \in Nat
    BY CommitParts DEF PeopleInv
  <2>2. DOMAIN e \subseteq Nat
    BY <2>1
  <2> QED
    BY <2>1, <2>2, InheritedAssumption DEF PeopleSound
<1>3. chosen = kept
  <2>1. CASE Anchors(r) # Anchors(b)
    BY <2>1 DEF Preferred
  <2>2. CASE Anchors(r) = Anchors(b)
    <3>1. chosen = Anchors(e) \cap DOMAIN e
      BY <2>2 DEF Preferred
    <3>2. \A p : p \in DOMAIN e => IF p \in DOMAIN b THEN p \in DOMAIN l /\ p \in DOMAIN r
                                   ELSE p \in DOMAIN l \/ p \in DOMAIN r
      BY DeletionWins
    <3>3. \A p \in DOMAIN e : e[p] = IF p \in DOMAIN l /\ (p \in DOMAIN b => l[p] # b[p]) THEN l[p] ELSE r[p]
      BY ChangesWin
    <3>4. Anchors(l) = Anchors(r) /\ Anchors(l) \subseteq DOMAIN l /\ Anchors(r) \subseteq DOMAIN r
      BY <2>2 DEF Anchors
    <3> HIDE DEF e
    <3>5. \A p \in DOMAIN e : (p \in DOMAIN l /\ e[p] = l[p]) \/ (p \in DOMAIN r /\ e[p] = r[p])
      BY <3>2, <3>3
    <3>6. ASSUME NEW p \in DOMAIN e PROVE p \in Anchors(e) <=> p \in Anchors(r)
      <4> HIDE DEF b, l, r
      <4>1. CASE p \in DOMAIN l /\ e[p] = l[p]
        <5>1. p \in Anchors(e) <=> p \in Anchors(l)
          BY <3>6, <4>1 DEF Anchors
        <5> QED
          BY <3>4, <5>1
      <4>2. CASE p \in DOMAIN r /\ e[p] = r[p]
        BY <3>6, <4>2 DEF Anchors
      <4> QED
        BY <3>5, <4>1, <4>2
    <3> HIDE DEF chosen
    <3> QED
      BY <3>1, <3>6
  <2> QED
    BY <2>1, <2>2
<1> HIDE DEF e, chosen
<1>4. {Only(kept)} \cap DOMAIN e = kept
  <2>1. kept \in SUBSET Nat /\ kept \subseteq DOMAIN e /\ \A p, q \in kept : p = q
    BY <1>2
  <2> HIDE DEF kept
  <2> QED
    BY <1>2, <2>1, OnlyOfOne
<1> QED
  BY <1>1, <1>3, <1>4

\* A write of a tab whose user chose no other primary chart leaves the row's.
LEMMA PrimaryStays ==
  ASSUME VersionsInv, ChartsInv, name = "charts", NEW t \in Tabs, CommitWrite(t), NEW o \in Owners,
         Primaries(Version(t, 1).entries, o) = Primaries(base[t].entries, o)
  PROVE  Primaries(row'.entries, o) = Primaries(row.entries, o) \cap DOMAIN row'.entries
<1> DEFINE r == row.entries
           n == row'.entries
<1>1. ChartsSound(row') /\ \A c \in Primaries(n, o) : Primaries(r, o) = {c}
  BY CommitCharts
<1>2. /\ \A c \in DOMAIN n : \E s \in Values : c \in DOMAIN s.entries /\ s.entries[c].of = n[c].of
      /\ \A s, u \in Values : Agree(s, u)
  BY CommitCharts DEF ChartsInv
<1>3. ASSUME NEW c \in Primaries(n, o) PROVE c \in Primaries(r, o) \cap DOMAIN n
  BY <1>1, <1>3 DEF Primaries
<1>4. ASSUME NEW c \in Primaries(r, o), c \in DOMAIN n PROVE c \in Primaries(n, o)
  <2>1. c \in DOMAIN r /\ r[c].of = o
    BY <1>4 DEF Primaries
  <2>2. PICK s \in Values : c \in DOMAIN s.entries /\ s.entries[c].of = n[c].of
    BY <1>2, <1>4
  <2>3. Agree(s, row)
    BY <1>2 DEF Values
  <2>4. n[c].of = o
    BY <2>1, <2>2, <2>3 DEF Agree
  <2>5. c \in ChartsOf(n, o)
    BY <1>4, <2>4 DEF ChartsOf
  <2>6. PICK d : Primaries(n, o) = {d}
    BY <1>1, <2>5 DEF ChartsSound
  <2>7. Primaries(r, o) = {d}
    BY <1>1, <2>6
  <2> QED
    BY <1>4, <2>6, <2>7
<1> QED
  BY <1>3, <1>4

-----------------------------------------------------------------------------
(* A write that fails, and a page that is loaded again. *)

\* Either leaves the tabs with values there were.
LEMMA FewerValues ==
  ASSUME VersionsInv, NEW t \in Tabs, FailWrite(t) \/ Reload(t)
  PROVE  /\ Values' \subseteq Values /\ UNCHANGED <<name, row>>
         /\ \A u \in Tabs \ {t} : Versions(u)' = Versions(u) /\ \A i \in Versions(u) : Version(u, i)' = Version(u, i)
         /\ \A i, j \in Versions(t)' : i < j =>
              \/ Version(t, i)' = row /\ Version(t, j)' = row
              \/ \E k, m \in Versions(t) : k < m /\ Version(t, i)' = Version(t, k) /\ Version(t, j)' = Version(t, m)
<1>0. QueuesFit
  BY DEF VersionsInv
<1>1. CASE FailWrite(t)
  <2>1. pending[t] # <<>> /\ Dequeue(t) /\ store' = store /\ base' = base /\ name' = name /\ row' = row
    BY <1>1 DEF FailWrite
  <2>2. /\ \A i \in Versions(t)' : i \in Versions(t) /\ i + 1 \in Versions(t) /\ (i # 0 => Version(t, i)' = Version(t, i + 1))
        /\ \A u \in Tabs \ {t} : pending'[u] = pending[u]
    BY <1>0, <2>1, Shrunk
  <2>3. \A u \in Tabs \ {t} : Versions(u)' = Versions(u) /\ \A i \in Versions(u) : Version(u, i)' = Version(u, i)
    BY <2>1, <2>2, Kept
  <2>4. Version(t, 0)' = Version(t, 0) /\ \A i \in Versions(t) : i \in Nat
    BY <2>1, StoreIsValue DEF Version
  <2>5. Values' \subseteq Values
    BY <2>1, <2>2, <2>3, <2>4 DEF Values
  <2>6. ASSUME NEW i \in Versions(t)', NEW j \in Versions(t)', i < j
        PROVE  \E k, m \in Versions(t) : k < m /\ Version(t, i)' = Version(t, k) /\ Version(t, j)' = Version(t, m)
    <3>1. i \in Nat /\ j \in Nat /\ j # 0 /\ i + 1 < j + 1 /\ i < j + 1
      BY <2>2, <2>4, <2>6
    <3> QED
      BY <2>2, <2>4, <2>6, <3>1
  <2> QED
    BY <2>1, <2>3, <2>5, <2>6
<1>2. CASE Reload(t)
  <2>1. /\ store'[t] = row /\ base'[t] = row /\ pending'[t] = <<>> /\ name' = name /\ row' = row
        /\ \A u \in Tabs \ {t} : pending'[u] = pending[u] /\ store'[u] = store[u] /\ base'[u] = base[u]
    BY <1>0, <1>2 DEF Reload, QueuesFit
  <2>2. \A u \in Tabs \ {t} : Versions(u)' = Versions(u) /\ \A i \in Versions(u) : Version(u, i)' = Version(u, i)
    BY <2>1, Kept
  <2>3. \A i \in Versions(t)' : Version(t, i)' = row
    BY <2>1 DEF Versions, Version
  <2>4. Values' \subseteq Values
    BY <2>1, <2>2, <2>3 DEF Values
  <2> QED
    BY <2>1, <2>2, <2>3, <2>4
<1> QED
  BY <1>1, <1>2

\* Either keeps the invariants.
LEMMA FewerKeeps ==
  ASSUME VersionsInv, TasksInv, PeopleInv, ChatInv, ChartsInv, NEW t \in Tabs, FailWrite(t) \/ Reload(t)
  PROVE  PeopleInv' /\ ChatInv' /\ ChartsInv'
<1>1. /\ Values' \subseteq Values /\ name' = name /\ row' = row
      /\ \A u \in Tabs \ {t} : Versions(u)' = Versions(u) /\ \A i \in Versions(u) : Version(u, i)' = Version(u, i)
      /\ \A i, j \in Versions(t)' : i < j =>
           \/ Version(t, i)' = row /\ Version(t, j)' = row
           \/ \E k, m \in Versions(t) : k < m /\ Version(t, i)' = Version(t, k) /\ Version(t, j)' = Version(t, m)
  BY FewerValues
<1>2. PeopleInv'
  <2>1. StagedShown => StagedShown'
    <3>1. CASE FailWrite(t)
      BY <3>1 DEF FailWrite, StagedShown
    <3>2. CASE Reload(t)
      <4>1. \A u \in Tabs : \/ staged'[u] = Nothing
                            \/ staged'[u] = staged[u] /\ store'[u] = store[u]
        BY <3>2 DEF Reload, VersionsInv, QueuesFit, TasksInv, RollbacksFit
      <4> QED
        BY <4>1 DEF StagedShown, Nothing
    <3> QED
      BY <3>1, <3>2
  <2> QED
    BY <1>1, <2>1 DEF PeopleInv
<1>3. ChatInv'
  BY <1>1 DEF ChatInv
<1>4. ChartsInv'
  <2> SUFFICES ASSUME name = "charts" PROVE ChartsInv'
    BY <1>1 DEF ChartsInv
  <2>1. /\ \A s \in Values : ChartsSound(s)
        /\ \A s, u \in Values : Agree(s, u)
        /\ ChoicesNew /\ NonePromoted
    BY DEF ChartsInv
  <2>2. ChoicesNew'
    <3>1. ASSUME NEW u \in Tabs, NEW i \in Versions(u)', NEW j \in Versions(u)', i < j
          PROVE  Succeeds(Version(u, i)', Version(u, j)')
      <4>1. CASE u # t
        BY <1>1, <2>1, <3>1, <4>1 DEF ChoicesNew
      <4>2. CASE u = t /\ Version(t, i)' = row /\ Version(t, j)' = row
        BY <4>2 DEF Succeeds
      <4>3. CASE u = t /\ ~(Version(t, i)' = row /\ Version(t, j)' = row)
        <5>1. PICK k \in Versions(t), m \in Versions(t) :
                k < m /\ Version(t, i)' = Version(t, k) /\ Version(t, j)' = Version(t, m)
          BY <1>1, <3>1, <4>3
        <5> QED
          BY <2>1, <4>3, <5>1 DEF ChoicesNew
      <4> QED
        BY <4>1, <4>2, <4>3
    <3> QED
      BY <3>1 DEF ChoicesNew
  <2>3. NonePromoted'
    <3>1. \A u \in Tabs : base'[u] = base[u] \/ base'[u] = row
      BY DEF FailWrite, Reload, VersionsInv, QueuesFit
    <3> QED
      BY <1>1, <2>1, <3>1 DEF NonePromoted
  <2> QED
    BY <1>1, <2>1, <2>2, <2>3 DEF ChartsInv
<1> QED
  BY <1>2, <1>3, <1>4

-----------------------------------------------------------------------------
(* What users do with people. *)

\* A row is a record of its parts.
IsRecord(s) == s = [entries |-> s.entries, lists |-> s.lists, active |-> s.active]

\* People one of whom is turned to.
LEMMA ActiveSound ==
  ASSUME NEW s, IsRecord(s), PeopleSound(s), NEW p \in DOMAIN s.entries
  PROVE  LET u == [s EXCEPT !.active = p] IN PeopleSound(u) /\ u.entries = s.entries
<1> DEFINE u == [s EXCEPT !.active = p]
<1>1. u.entries = s.entries /\ u.active = p
  BY DEF IsRecord
<1> HIDE DEF u
<1>2. PeopleSound(u)
  BY <1>1 DEF PeopleSound
<1> QED
  BY <1>1, <1>2 DEF u

\* People one of whom is related otherwise, or made the anchor when there is none.
LEMMA RelatedSound ==
  ASSUME NEW s, IsRecord(s), PeopleSound(s), DOMAIN s.entries \subseteq Nat, NEW p \in DOMAIN s.entries,
         NEW rel \in {"none", "kin", "self"}, rel = "self" => Anchors(s.entries) = {}
  PROVE  LET u == Related(s, p, rel)
         IN PeopleSound(u) /\ DOMAIN u.entries = DOMAIN s.entries /\ IsRecord(u)
<1> DEFINE e == s.entries
           f == [e EXCEPT ![p].rel = rel]
           n == NormalizeRelatedTo(f)
           u == Related(s, p, rel)
<1>1. u.entries = n /\ u.active = s.active /\ IsRecord(u)
  BY DEF IsRecord, Related
<1>2. /\ e \in [DOMAIN e -> [rel : {"none", "kin", "self"}, to : Nat \cup {None}]]
      /\ \A x, y \in Anchors(e) : x = y
      /\ IF DOMAIN e = {} THEN s.active = None ELSE s.active \in DOMAIN e
  BY DEF PeopleSound, Record
<1> HIDE DEF e, u
<1>3. /\ f \in [DOMAIN e -> [rel : {"none", "kin", "self"}, to : Nat \cup {None}]]
      /\ \A x \in DOMAIN e : f[x].rel = IF x = p THEN rel ELSE e[x].rel
  BY <1>2 DEF e
<1> HIDE DEF f
<1>4. \A x, y \in Anchors(f) : x = y
  BY <1>2, <1>3 DEF Anchors, e
<1>5. Anchors(f) \in SUBSET Nat
  BY <1>3 DEF Anchors, e
<1>6. Only(Anchors(f)) \in Nat \cup {None}
  BY <1>5, OnlyOne
<1>7. /\ DOMAIN n = DOMAIN e
      /\ \A x \in DOMAIN e : n[x] = [rel |-> f[x].rel, to |-> IF f[x].rel = "kin" THEN Only(Anchors(f)) ELSE None]
  <2>1. n = [x \in DOMAIN f |-> [f[x] EXCEPT !.to = IF f[x].rel = "kin" THEN Only(Anchors(f)) ELSE None]]
    BY DEF NormalizeRelatedTo
  <2> HIDE DEF n
  <2>2. DOMAIN n = DOMAIN e
    BY <1>3, <2>1
  <2>3. ASSUME NEW x \in DOMAIN e
        PROVE  n[x] = [rel |-> f[x].rel, to |-> IF f[x].rel = "kin" THEN Only(Anchors(f)) ELSE None]
    <3>1. n[x] = [f[x] EXCEPT !.to = IF f[x].rel = "kin" THEN Only(Anchors(f)) ELSE None]
      BY <1>3, <2>1
    <3>2. f[x] \in [rel : {"none", "kin", "self"}, to : Nat \cup {None}]
      BY <1>3
    <3> QED
      BY <3>1, <3>2
  <2> QED
    BY <2>2, <2>3
<1>8. n = [x \in DOMAIN n |-> n[x]]
  BY DEF NormalizeRelatedTo
<1> HIDE DEF n
<1>9. Anchors(n) = Anchors(f)
  <2>1. DOMAIN n = DOMAIN f
    BY <1>3, <1>7
  <2>2. \A x \in DOMAIN f : n[x].rel = f[x].rel
    BY <1>3, <1>7
  <2> QED
    BY <2>1, <2>2 DEF Anchors
<1>10. n \in [DOMAIN n -> Record("people")]
  <2>1. \A x \in DOMAIN n : n[x] \in [rel : {"none", "kin", "self"}, to : Nat \cup {None}]
    BY <1>3, <1>6, <1>7
  <2> QED
    BY <1>8, <2>1 DEF Record
<1>11. \A x \in DOMAIN n : n[x].to = IF n[x].rel = "kin" THEN Only(Anchors(n)) ELSE None
  BY <1>7, <1>9
<1>12. PeopleSound(u)
  BY <1>1, <1>2, <1>4, <1>7, <1>9, <1>10, <1>11 DEF PeopleSound
<1> QED
  BY <1>1, <1>7, <1>12 DEF u, e

\* People to whom one is added.
LEMMA CreatedSound ==
  ASSUME minted \in Nat, NEW s, IsRecord(s), PeopleSound(s), DOMAIN s.entries \subseteq 1 .. minted
  PROVE  LET u == CreateProfile(s)
         IN /\ PeopleSound(u) /\ DOMAIN u.entries = DOMAIN s.entries \cup {NewId} /\ IsRecord(u)
            /\ NewId \in Nat
<1> DEFINE e == s.entries
           n == Put(e, NewId, Plain)
           u == CreateProfile(s)
<1>1. u.entries = n /\ u.active = (IF s.active = None THEN NewId ELSE s.active) /\ IsRecord(u)
  <2>1. u = [s EXCEPT !.entries = n, !.active = IF s.active = None THEN NewId ELSE s.active]
    BY DEF CreateProfile
  <2> HIDE DEF n, u
  <2>2. u = [entries |-> n, lists |-> s.lists, active |-> IF s.active = None THEN NewId ELSE s.active]
    BY <2>1 DEF IsRecord
  <2> QED
    BY <2>2 DEF IsRecord
<1>2. /\ e \in [DOMAIN e -> Record("people")]
      /\ \A x, y \in Anchors(e) : x = y
      /\ \A x \in DOMAIN e : e[x].to = IF e[x].rel = "kin" THEN Only(Anchors(e)) ELSE None
      /\ IF DOMAIN e = {} THEN s.active = None ELSE s.active \in DOMAIN e
  BY DEF PeopleSound
<1>3. NewId \in Nat /\ NewId \notin DOMAIN e
  BY DEF NewId
<1>4. /\ DOMAIN n = DOMAIN e \cup {NewId} /\ n = [x \in DOMAIN n |-> n[x]]
      /\ n[NewId] = Plain /\ \A x \in DOMAIN e : n[x] = e[x]
  BY <1>3 DEF Put
<1> HIDE DEF e, n, u
<1>5. Anchors(n) = Anchors(e)
  BY <1>3, <1>4 DEF Anchors, Plain
<1>6. n \in [DOMAIN n -> Record("people")]
  <2>1. \A x \in DOMAIN n : n[x] \in Record("people")
    BY <1>2, <1>4 DEF Record, Plain
  <2> QED
    BY <1>4, <2>1
<1>7. \A x \in DOMAIN n : n[x].to = IF n[x].rel = "kin" THEN Only(Anchors(n)) ELSE None
  BY <1>2, <1>4, <1>5 DEF Plain
<1>8. u.active \in DOMAIN n /\ DOMAIN n # {}
  BY <1>1, <1>2, <1>4
<1>9. PeopleSound(u)
  BY <1>1, <1>2, <1>5, <1>6, <1>7, <1>8 DEF PeopleSound
<1> QED
  BY <1>1, <1>3, <1>4, <1>9 DEF u, e

\* People of whom one is removed, and another perhaps turned to.
LEMMA RemovedSound ==
  ASSUME NEW s, IsRecord(s), PeopleSound(s), DOMAIN s.entries \subseteq Nat, NEW p, p # None, NEW prev
  PROVE  LET rest == RemoveProfile(s, p)
         IN PeopleSound([rest EXCEPT !.active = IF prev \in DOMAIN rest.entries THEN prev ELSE @])
<1> DEFINE e == s.entries
           D == DOMAIN e \ {p}
           n == [x \in D |-> IF e[x].to = p THEN Plain ELSE e[x]]
           a == IF s.active = p THEN Only(D) ELSE s.active
           rest == RemoveProfile(s, p)
           u == [rest EXCEPT !.active = IF prev \in DOMAIN rest.entries THEN prev ELSE @]
<1>1. rest.entries = n /\ rest.active = a /\ IsRecord(rest)
  <2> DEFINE r == Restrict(e, D)
  <2>1. DOMAIN r = D /\ \A x \in D : r[x] = e[x]
    BY DEF Restrict
  <2>2. rest = [s EXCEPT !.entries = [x \in DOMAIN r |-> IF r[x].to = p THEN Plain ELSE r[x]],
                         !.active = IF s.active = p THEN Only(DOMAIN r) ELSE s.active]
    BY DEF RemoveProfile
  <2>3. [x \in DOMAIN r |-> IF r[x].to = p THEN Plain ELSE r[x]] = n
    BY <2>1
  <2>4. (IF s.active = p THEN Only(DOMAIN r) ELSE s.active) = a
    BY <2>1
  <2> HIDE DEF n, a, r, rest
  <2>5. rest = [s EXCEPT !.entries = n, !.active = a]
    BY <2>2, <2>3, <2>4
  <2>6. rest = [entries |-> n, lists |-> s.lists, active |-> a]
    BY <2>5 DEF IsRecord
  <2> QED
    BY <2>6 DEF IsRecord
<1>2. /\ e \in [DOMAIN e -> Record("people")]
      /\ \A x, y \in Anchors(e) : x = y
      /\ \A x \in DOMAIN e : e[x].to = IF e[x].rel = "kin" THEN Only(Anchors(e)) ELSE None
      /\ IF DOMAIN e = {} THEN s.active = None ELSE s.active \in DOMAIN e
  BY DEF PeopleSound
<1>3. DOMAIN n = D /\ \A x \in D : n[x] = IF e[x].to = p THEN Plain ELSE e[x]
  OBVIOUS
<1>4. n = [x \in D |-> n[x]]
  OBVIOUS
<1>5. D \in SUBSET Nat /\ None \notin Nat
  BY InheritedAssumption
<1>6. \A x \in Anchors(e) : Only(Anchors(e)) = x
  <2> SUFFICES ASSUME NEW x \in Anchors(e) PROVE Only(Anchors(e)) = x
    OBVIOUS
  <2>1. Anchors(e) \in SUBSET Nat /\ Anchors(e) # {}
    BY DEF Anchors
  <2>2. Only(Anchors(e)) \in Anchors(e)
    BY <2>1, OnlyIn
  <2> QED
    BY <1>2, <2>2
<1>7. u.entries = n /\ (u.active = a \/ u.active \in D)
  <2> HIDE DEF n, a, rest
  <2> QED
    BY <1>1, <1>3 DEF IsRecord
<1>8. IF D = {} THEN a = None ELSE a \in D
  <2>1. D # {} => Only(D) \in D
    BY <1>5, OnlyIn
  <2>2. D = {} => Only(D) = None
    BY DEF Only
  <2> QED
    BY <1>2, <2>1, <2>2
<1> HIDE DEF e, D, n, a, u
<1>9. Anchors(n) = Anchors(e) \ {p}
  <2>1. \A x \in Anchors(e) : e[x].rel = "self" /\ e[x].to = None
    BY <1>2 DEF Anchors
  <2>2. \A x \in D : n[x].rel = "self" <=> e[x].rel = "self"
    BY <1>2, <1>3, <2>1 DEF Plain, Anchors, D
  <2> QED
    BY <1>3, <2>2 DEF Anchors, D
<1>10. n \in [DOMAIN n -> Record("people")]
  <2>1. \A x \in D : n[x] \in Record("people")
    BY <1>2, <1>3 DEF Record, Plain, D
  <2> QED
    BY <1>3, <1>4, <2>1
<1>11. ASSUME NEW x \in D PROVE n[x].to = IF n[x].rel = "kin" THEN Only(Anchors(n)) ELSE None
  <2>1. CASE p \in Anchors(e)
    <3>1. Only(Anchors(e)) = p
      BY <1>6, <2>1
    <3>2. n[x].rel # "kin" /\ n[x].to = None
      BY <1>2, <1>3, <3>1 DEF Plain, D
    <3> QED
      BY <3>2
  <2>2. CASE p \notin Anchors(e)
    <3>1. Anchors(n) = Anchors(e)
      BY <1>9, <2>2
    <3>2. e[x].to # p
      <4>1. Anchors(e) # {} => Only(Anchors(e)) \in Anchors(e)
        BY <1>6
      <4>2. Anchors(e) = {} => Only(Anchors(e)) = None
        BY DEF Only
      <4> QED
        BY <1>2, <2>2, <4>1, <4>2 DEF D
    <3> QED
      BY <1>2, <1>3, <3>1, <3>2 DEF D
  <2> QED
    BY <2>1, <2>2
<1>12. \A x, y \in Anchors(n) : x = y
  BY <1>2, <1>9
<1>13. IF DOMAIN n = {} THEN u.active = None ELSE u.active \in DOMAIN n
  BY <1>3, <1>7, <1>8
<1>14. PeopleSound(u)
  BY <1>3, <1>7, <1>10, <1>11, <1>12, <1>13 DEF PeopleSound
<1> QED
  BY <1>14 DEF u

-----------------------------------------------------------------------------
(* What users do with people keeps the invariant. *)

\* A tab queues people that are consistent, and shows whom it is adding.
LEMMA QueuesPeople ==
  ASSUME VersionsInv, PeopleInv, NEW t \in Tabs, NEW states, Queues(t, states),
         name = "people" => \A j \in 1 .. Len(states) : PeopleSound(states[j]),
         name = "people" => staged'[t] = Nothing \/ staged'[t].id \in DOMAIN states[Len(states)].entries,
         \A u \in Tabs \ {t} : staged'[u] = staged[u]
  PROVE  PeopleInv'
<1> SUFFICES ASSUME name = "people" PROVE PeopleInv'
  BY DEF PeopleInv, Queues
<1>1. \A s \in Values' : s \in Values \/ \E j \in 1 .. Len(states) : s = states[j]
  BY GrownValues
<1>2. \A s \in Values' : PeopleSound(s)
  BY <1>1 DEF PeopleInv
<1>3. store'[t] = states[Len(states)] /\ \A u \in Tabs \ {t} : store'[u] = store[u]
  BY DEF Queues, Set, VersionsInv, QueuesFit
<1>4. StagedShown'
  BY <1>3 DEF StagedShown, PeopleInv
<1>5. name' = name
  BY DEF Queues
<1> QED
  BY <1>2, <1>4 DEF PeopleInv

\* What a tab shows is a row of given ids.
LEMMA ShownIs ==
  ASSUME VersionsInv, NEW t \in Tabs
  PROVE  /\ store[t] \in Values /\ IsRecord(store[t]) /\ minted \in Nat
         /\ DOMAIN store[t].entries \subseteq 1 .. minted /\ DOMAIN store[t].entries \subseteq Nat
         /\ name = "chat" => DOMAIN store[t].lists \subseteq DOMAIN store[t].entries
         /\ PeopleInv /\ name = "people" => PeopleSound(store[t])
<1>1. store[t] \in Values
  BY StoreIsValue
<1>2. Fits(store[t], minted) /\ minted \in Nat
  BY <1>1, ValueFits
<1>3. /\ IsRecord(store[t]) /\ DOMAIN store[t].entries \subseteq 1 .. minted
      /\ name = "chat" => DOMAIN store[t].lists \subseteq DOMAIN store[t].entries
  BY <1>2, FitsParts DEF IsRecord
<1>4. DOMAIN store[t].entries \subseteq Nat
  BY <1>2, <1>3
<1> QED
  BY <1>1, <1>2, <1>3, <1>4 DEF PeopleInv

\* A tab that queues one state.
LEMMA QueuesOne ==
  ASSUME NEW t, NEW s, Set(t, <<s>>), UNCHANGED <<name, row, base>>
  PROVE  Queues(t, <<s>>) /\ Len(<<s>>) = 1 /\ \A j \in 1 .. Len(<<s>>) : <<s>>[j] = s
<1>1. IsSeq(<<s>>) /\ Len(<<s>>) = 1 /\ <<s>>[1] = s
  BY OneState
<1> QED
  BY <1>1 DEF Queues

\* A tab that queues one state of people.
LEMMA OnePeople ==
  ASSUME VersionsInv, PeopleInv, NEW t \in Tabs, NEW s, Set(t, <<s>>), UNCHANGED <<name, row, base>>,
         name = "people" => PeopleSound(s),
         name = "people" => staged'[t] = Nothing \/ staged'[t].id \in DOMAIN s.entries,
         \A u \in Tabs \ {t} : staged'[u] = staged[u]
  PROVE  PeopleInv'
<1>1. Queues(t, <<s>>) /\ Len(<<s>>) = 1 /\ \A j \in 1 .. Len(<<s>>) : <<s>>[j] = s
  BY QueuesOne
<1>2. <<s>>[Len(<<s>>)] = s
  BY <1>1
<1> QED
  BY <1>1, <1>2, QueuesPeople

\* A person is turned to, again or not, or related otherwise.
LEMMA EditPeople ==
  ASSUME VersionsInv, PeopleInv, NEW t \in Tabs,
         \/ Restage(t)
         \/ \E p : SetActiveProfile(t, p) \/ SetAnchor(t, p)
         \/ \E p : \E rel \in {"none", "kin"} : SetRelationship(t, p, rel)
  PROVE  PeopleInv'
<1> DEFINE s == store[t]
<1>0. /\ IsRecord(s) /\ DOMAIN s.entries \subseteq Nat /\ (name = "people" => PeopleSound(s))
      /\ name = "people" => StagedShown
  BY ShownIs DEF PeopleInv
<1>1. CASE Restage(t)
  <2>1. /\ name = "people" /\ staged' = staged /\ UNCHANGED <<name, row, base>> /\ staged[t] # Nothing
        /\ Set(t, <<[s EXCEPT !.active = staged[t].id]>>)
    BY <1>1 DEF Restage, Acts, Edits, Elsewhere
  <2>2. staged[t].id \in DOMAIN s.entries
    BY <1>0, <2>1 DEF StagedShown
  <2>3. PeopleSound([s EXCEPT !.active = staged[t].id]) /\ [s EXCEPT !.active = staged[t].id].entries = s.entries
    BY <1>0, <2>1, <2>2, ActiveSound
  <2> QED
    BY <2>1, <2>2, <2>3, OnePeople
<1>2. ASSUME NEW p, SetActiveProfile(t, p) PROVE PeopleInv'
  <2>1. /\ name = "people" /\ staged' = staged /\ UNCHANGED <<name, row, base>> /\ p \in DOMAIN s.entries
        /\ Set(t, <<[s EXCEPT !.active = p]>>)
    BY <1>2 DEF SetActiveProfile, Acts, Edits, Elsewhere
  <2>2. PeopleSound([s EXCEPT !.active = p]) /\ [s EXCEPT !.active = p].entries = s.entries
    BY <1>0, <2>1, ActiveSound
  <2>3. staged'[t] = Nothing \/ staged'[t].id \in DOMAIN s.entries
    BY <1>0, <2>1 DEF StagedShown
  <2> QED
    BY <2>1, <2>2, <2>3, OnePeople
<1>3. ASSUME NEW p \in DOMAIN s.entries, NEW rel \in {"none", "kin", "self"}, rel = "self" => Anchors(s.entries) = {},
             name = "people", Set(t, <<Related(s, p, rel)>>), staged' = staged, UNCHANGED <<name, row, base>>
      PROVE  PeopleInv'
  <2>1. PeopleSound(Related(s, p, rel)) /\ DOMAIN Related(s, p, rel).entries = DOMAIN s.entries
    BY <1>0, <1>3, RelatedSound
  <2>2. staged'[t] = Nothing \/ staged'[t].id \in DOMAIN s.entries
    BY <1>0, <1>3 DEF StagedShown
  <2> QED
    BY <1>3, <2>1, <2>2, OnePeople
<1>4. ASSUME NEW p, SetAnchor(t, p) PROVE PeopleInv'
  BY <1>3, <1>4 DEF SetAnchor, Acts, Edits, Elsewhere
<1>5. ASSUME NEW p, NEW rel \in {"none", "kin"}, SetRelationship(t, p, rel) PROVE PeopleInv'
  BY <1>3, <1>5 DEF SetRelationship, Acts, Edits, Elsewhere
<1> QED
  BY <1>1, <1>2, <1>4, <1>5

\* A person being added is given up.
LEMMA DiscardPeople ==
  ASSUME VersionsInv, TasksInv, PeopleInv, NEW t \in Tabs, Discard(t)
  PROVE  PeopleInv'
<1> DEFINE s == store[t]
           p == staged[t].id
           prev == staged[t].prev
           rest == RemoveProfile(s, p)
           u == [rest EXCEPT !.active = IF prev \in DOMAIN rest.entries THEN prev ELSE @]
<1>1. /\ name = "people" /\ UNCHANGED <<name, row, base>> /\ staged[t] # Nothing
      /\ staged' = [staged EXCEPT ![t] = Nothing] /\ Set(t, <<u>>)
  BY DEF Discard, Acts
<1>2. p # None /\ DOMAIN staged = Tabs
  <2>1. p \in 1 .. minted /\ minted \in Nat /\ DOMAIN staged = Tabs
    BY <1>1, ShownIs DEF TasksInv, RollbacksFit
  <2> QED
    BY <2>1, InheritedAssumption
<1>3. PeopleSound(u)
  BY <1>1, <1>2, ShownIs, RemovedSound
<1>4. staged'[t] = Nothing /\ \A v \in Tabs \ {t} : staged'[v] = staged[v]
  BY <1>1, <1>2
<1> HIDE DEF u
<1> QED
  BY <1>1, <1>3, <1>4, OnePeople

\* What a tab shows is queued again.
LEMMA RewritePeople ==
  ASSUME VersionsInv, PeopleInv, NEW t \in Tabs, Set(t, <<store[t]>>), UNCHANGED <<name, row, base, staged>>
  PROVE  PeopleInv'
<1>1. name = "people" => PeopleSound(store[t]) /\ StagedShown
  BY ShownIs DEF PeopleInv
<1> QED
  BY <1>1, OnePeople DEF StagedShown

\* A person is added, perhaps as kin, and turned to.
LEMMA StagePeople ==
  ASSUME VersionsInv, TasksInv, PeopleInv, NEW t \in Tabs, NEW rel \in {"none", "kin"}, Stage(t, rel)
  PROVE  PeopleInv'
<1> DEFINE created == CreateProfile(store[t])
           related == Related(created, NewId, rel)
           shown == [related EXCEPT !.active = NewId]
           first == IF rel = "kin" THEN <<created, related>> ELSE <<created>>
           states == first \o <<shown>>
<1>1. /\ name = "people" /\ UNCHANGED <<name, row, base>> /\ Set(t, states)
      /\ staged' = [staged EXCEPT ![t] = [id |-> NewId, prev |-> store[t].active]]
  BY DEF Stage, Acts
<1>2. /\ PeopleSound(created) /\ IsRecord(created) /\ NewId \in DOMAIN created.entries
      /\ DOMAIN created.entries \subseteq Nat
  <2>1. /\ IsRecord(store[t]) /\ minted \in Nat /\ DOMAIN store[t].entries \subseteq 1 .. minted
        /\ DOMAIN store[t].entries \subseteq Nat /\ PeopleSound(store[t])
    BY <1>1, ShownIs
  <2>2. PeopleSound(created)
    BY <2>1, CreatedSound
  <2>3. DOMAIN created.entries = DOMAIN store[t].entries \cup {NewId} /\ NewId \in Nat
    BY <2>1, CreatedSound
  <2>4. IsRecord(created)
    BY <2>1, CreatedSound
  <2> QED
    BY <2>1, <2>2, <2>3, <2>4
<1> HIDE DEF created
<1>3. PeopleSound(related) /\ DOMAIN related.entries = DOMAIN created.entries /\ IsRecord(related)
  BY <1>2, RelatedSound
<1> HIDE DEF related
<1>4. PeopleSound(shown) /\ shown.entries = related.entries
  BY <1>2, <1>3, ActiveSound
<1> HIDE DEF shown
<1>5. IsSeq(first) /\ \A j \in 1 .. Len(first) : PeopleSound(first[j])
  <2>1. CASE rel = "kin"
    <3>1. /\ IsSeq(<<created, related>>) /\ Len(<<created, related>>) = 2
          /\ <<created, related>>[1] = created /\ <<created, related>>[2] = related
      BY TwoStates
    <3>2. \A j \in 1 .. Len(<<created, related>>) : j = 1 \/ j = 2
      BY <3>1
    <3> QED
      BY <1>2, <1>3, <2>1, <3>1, <3>2
  <2>2. CASE rel # "kin"
    <3>1. IsSeq(<<created>>) /\ Len(<<created>>) = 1 /\ <<created>>[1] = created
      BY OneState
    <3>2. \A j \in 1 .. Len(<<created>>) : j = 1
      BY <3>1
    <3> QED
      BY <1>2, <2>2, <3>1, <3>2
  <2> QED
    BY <2>1, <2>2
<1> HIDE DEF first
<1>6. /\ IsSeq(states) /\ Len(states) > 0 /\ states[Len(states)] = shown
      /\ \A j \in 1 .. Len(states) : PeopleSound(states[j])
  <2>1. IsSeq(<<shown>>) /\ Len(<<shown>>) = 1 /\ <<shown>>[1] = shown
    BY OneState
  <2>2. Len(first) \in Nat
    BY <1>5, SeqParts
  <2>3. /\ IsSeq(states) /\ Len(states) = Len(first) + 1
        /\ \A i \in 1 .. Len(first) + 1 : states[i] = IF i <= Len(first) THEN first[i] ELSE <<shown>>[i - Len(first)]
    BY <1>5, <2>1, Joined
  <2> HIDE DEF states
  <2>4. \A i \in 1 .. Len(first) + 1 : states[i] = IF i <= Len(first) THEN first[i] ELSE shown
    <3>1. \A i \in 1 .. Len(first) + 1 : i <= Len(first) \/ i - Len(first) = 1
      BY <2>2
    <3> QED
      BY <2>1, <2>3, <3>1
  <2>5. Len(first) + 1 \in 1 .. Len(first) + 1 /\ ~(Len(first) + 1 <= Len(first)) /\ Len(first) + 1 > 0
    BY <2>2
  <2>6. states[Len(states)] = shown
    BY <2>3, <2>4, <2>5
  <2>7. ASSUME NEW j \in 1 .. Len(states) PROVE PeopleSound(states[j])
    <3>1. j <= Len(first) => j \in 1 .. Len(first)
      BY <2>2, <2>3, <2>7
    <3> QED
      BY <1>4, <1>5, <2>3, <2>4, <2>7, <3>1
  <2> QED
    BY <2>3, <2>5, <2>6, <2>7
<1> HIDE DEF states
<1>7. Queues(t, states)
  BY <1>1, <1>6 DEF Queues
<1>8. staged'[t].id = NewId /\ \A u \in Tabs \ {t} : staged'[u] = staged[u]
  BY <1>1 DEF TasksInv, RollbacksFit
<1>9. staged'[t].id \in DOMAIN states[Len(states)].entries
  BY <1>2, <1>3, <1>4, <1>6, <1>8
<1> QED
  BY <1>6, <1>7, <1>8, <1>9, QueuesPeople

-----------------------------------------------------------------------------
(* What users do with chats keeps the invariant. *)

\* A tab queues chats whose threads count their messages.
LEMMA OneChat ==
  ASSUME VersionsInv, ChatInv, NEW t \in Tabs, NEW s, Set(t, <<s>>), UNCHANGED <<name, row, base>>,
         name = "chat" => s.entries = Counted(s.entries, s.lists)
  PROVE  ChatInv'
<1>1. Queues(t, <<s>>) /\ Len(<<s>>) = 1 /\ \A j \in 1 .. Len(<<s>>) : <<s>>[j] = s
  BY QueuesOne
<1>2. \A u \in Values' : u \in Values \/ u = s
  BY <1>1, GrownValues
<1> QED
  BY <1>2 DEF ChatInv

\* What it takes for threads to count their messages.
LEMMA CountsAre ==
  ASSUME NEW e, NEW f, NEW lists, DOMAIN e = DOMAIN f, e = [th \in DOMAIN e |-> e[th]],
         \A th \in DOMAIN f : e[th] = [count |-> IF th \in DOMAIN lists THEN Cardinality(DOMAIN lists[th]) ELSE 0]
  PROVE  e = Counted(e, lists)
  BY DEF Counted

\* What a tab shows of chats.
LEMMA ShownCounts ==
  ASSUME VersionsInv, ChatInv, name = "chat", NEW t \in Tabs
  PROVE  /\ store[t].entries = Counted(store[t].entries, store[t].lists)
         /\ \A th \in DOMAIN store[t].entries :
              store[t].entries[th] =
                [count |-> IF th \in DOMAIN store[t].lists THEN Cardinality(DOMAIN store[t].lists[th]) ELSE 0]
         /\ IsRecord(store[t]) /\ minted \in Nat
         /\ DOMAIN store[t].entries \subseteq 1 .. minted /\ DOMAIN store[t].lists \subseteq DOMAIN store[t].entries
<1>1. store[t].entries = Counted(store[t].entries, store[t].lists)
  BY ShownIs DEF ChatInv
<1>2. \A e, lists : \A th \in DOMAIN e :
        Counted(e, lists)[th] = [count |-> IF th \in DOMAIN lists THEN Cardinality(DOMAIN lists[th]) ELSE 0]
  BY DEF Counted
<1> QED
  BY <1>1, <1>2, ShownIs

\* A thread is started.
LEMMA StartChat ==
  ASSUME VersionsInv, ChatInv, NEW t \in Tabs, StartThread(t)
  PROVE  ChatInv'
<1> DEFINE S == store[t]
           e == Put(S.entries, NewId, [count |-> 0])
           s == [S EXCEPT !.entries = e]
<1>1. name = "chat" /\ UNCHANGED <<name, row, base>> /\ Set(t, <<s>>)
  BY DEF StartThread, Acts
<1>2. s.entries = e /\ s.lists = S.lists
  BY <1>1, ShownCounts DEF IsRecord
<1>3. NewId \notin DOMAIN S.lists /\ NewId \notin DOMAIN S.entries
  <2>1. minted \in Nat /\ DOMAIN S.entries \subseteq 1 .. minted /\ DOMAIN S.lists \subseteq DOMAIN S.entries
    BY <1>1, ShownCounts
  <2> QED
    BY <2>1 DEF NewId
<1>4. /\ DOMAIN e = DOMAIN S.entries \cup {NewId} /\ e = [th \in DOMAIN e |-> e[th]]
      /\ e[NewId] = [count |-> 0] /\ \A th \in DOMAIN S.entries : e[th] = S.entries[th]
  BY <1>3 DEF Put
<1> HIDE DEF e, s
<1>5. \A th \in DOMAIN e : e[th] = [count |-> IF th \in DOMAIN S.lists THEN Cardinality(DOMAIN S.lists[th]) ELSE 0]
  BY <1>1, <1>3, <1>4, ShownCounts
<1>6. s.entries = Counted(s.entries, s.lists)
  BY <1>2, <1>4, <1>5, CountsAre
<1> QED
  BY <1>1, <1>6, OneChat

\* A thread whose save failed is removed with its messages.
LEMMA DeleteChat ==
  ASSUME VersionsInv, ChatInv, NEW t \in Tabs, DeleteThread(t)
  PROVE  ChatInv'
<1> DEFINE S == store[t]
           d == staged[t].id
           e == Restrict(S.entries, DOMAIN S.entries \ {d})
           lists == Restrict(S.lists, DOMAIN S.lists \ {d})
           s == [S EXCEPT !.entries = e, !.lists = lists]
<1>1. name = "chat" /\ UNCHANGED <<name, row, base>> /\ Set(t, <<s>>)
  BY DEF DeleteThread, Acts
<1>2. s.entries = e /\ s.lists = lists
  <2>1. IsRecord(S)
    BY <1>1, ShownCounts
  <2> HIDE DEF e, lists
  <2> QED
    BY <2>1 DEF IsRecord
<1>3. /\ DOMAIN e = DOMAIN S.entries \ {d} /\ e = [th \in DOMAIN e |-> e[th]]
      /\ \A th \in DOMAIN e : e[th] = S.entries[th]
  BY DEF Restrict
<1>4. /\ DOMAIN lists = DOMAIN S.lists \ {d}
      /\ \A th \in DOMAIN lists : lists[th] = S.lists[th]
  BY DEF Restrict
<1> HIDE DEF e, lists, s
<1>5. \A th \in DOMAIN e : e[th] = [count |-> IF th \in DOMAIN lists THEN Cardinality(DOMAIN lists[th]) ELSE 0]
  BY <1>1, <1>3, <1>4, ShownCounts
<1>6. s.entries = Counted(s.entries, s.lists)
  BY <1>2, <1>3, <1>5, CountsAre
<1> QED
  BY <1>1, <1>6, OneChat

\* A message is appended to a thread.
LEMMA AppendChat ==
  ASSUME VersionsInv, ChatInv, NEW t \in Tabs, NEW a, AppendMessage(t, a)
  PROVE  ChatInv'
<1> DEFINE S == store[t]
           list == Put(List(t, a), NewId, 0)
           lists == Put(S.lists, a, list)
           size == Cardinality(DOMAIN list)
           w == WithList(t, a, list)
           s == [w EXCEPT !.entries[a].count = size]
           e == [S.entries EXCEPT ![a].count = size]
<1>1. name = "chat" /\ UNCHANGED <<name, row, base>> /\ Set(t, <<s>>) /\ a \in DOMAIN S.entries
  BY DEF AppendMessage, Acts
<1>2. s.entries = e /\ s.lists = lists
  <2>1. IsRecord(S)
    BY <1>1, ShownCounts
  <2>2. w = [S EXCEPT !.lists = lists]
    BY DEF WithList
  <2> HIDE DEF w, lists, size
  <2>3. w.entries = S.entries /\ w.lists = lists /\ IsRecord(w)
    BY <2>1, <2>2 DEF IsRecord
  <2> QED
    BY <2>3 DEF IsRecord
<1>3. DOMAIN lists = DOMAIN S.lists \cup {a} /\ lists[a] = list /\ \A th \in DOMAIN S.lists \ {a} : lists[th] = S.lists[th]
  BY DEF Put
<1>4. S.entries[a] = [count |-> S.entries[a].count]
  <2>1. S.entries[a] = [count |-> IF a \in DOMAIN S.lists THEN Cardinality(DOMAIN S.lists[a]) ELSE 0]
    BY <1>1, ShownCounts
  <2> DEFINE n == IF a \in DOMAIN S.lists THEN Cardinality(DOMAIN S.lists[a]) ELSE 0
  <2>2. S.entries[a] = [count |-> n]
    BY <2>1
  <2> HIDE DEF n
  <2> QED
    BY <2>2
<1> HIDE DEF lists, size
<1>5. /\ DOMAIN e = DOMAIN S.entries /\ e = [th \in DOMAIN e |-> e[th]]
      /\ e[a] = [count |-> size] /\ \A th \in DOMAIN S.entries \ {a} : e[th] = S.entries[th]
  <2>1. e = [S.entries EXCEPT ![a] = [S.entries[a] EXCEPT !.count = size]]
    OBVIOUS
  <2>2. [S.entries[a] EXCEPT !.count = size] = [count |-> size]
    BY <1>4
  <2>3. e = [S.entries EXCEPT ![a] = [count |-> size]]
    BY <2>1, <2>2
  <2> QED
    BY <1>1, <2>3
<1> HIDE DEF list, e, s
<1>6. \A th \in DOMAIN e : e[th] = [count |-> IF th \in DOMAIN lists THEN Cardinality(DOMAIN lists[th]) ELSE 0]
  <2>1. e[a] = [count |-> IF a \in DOMAIN lists THEN Cardinality(DOMAIN lists[a]) ELSE 0]
    BY <1>3, <1>5 DEF size
  <2>2. ASSUME NEW th \in DOMAIN S.entries \ {a}
        PROVE  e[th] = [count |-> IF th \in DOMAIN lists THEN Cardinality(DOMAIN lists[th]) ELSE 0]
    BY <1>1, <1>3, <1>5, <2>2, ShownCounts
  <2> QED
    BY <1>5, <2>1, <2>2
<1>7. s.entries = Counted(s.entries, s.lists)
  BY <1>2, <1>5, <1>6, CountsAre
<1> QED
  BY <1>1, <1>7, OneChat

-----------------------------------------------------------------------------
(* What users do with charts keeps the invariant. *)

\* From charts a tab shows to charts it queues: none are added but a new one of one
\* owner, and an owner's primary chart stays or is the new one.
Redone(S, s, own) ==
  /\ ChartsSound(s)
  /\ \A c \in DOMAIN s.entries :
       IF c = NewId THEN s.entries[c].of = own
       ELSE c \in DOMAIN S.entries /\ s.entries[c].of = S.entries[c].of
  /\ \A o \in Owners :
       \/ Primaries(s.entries, o) = Primaries(S.entries, o) /\ ChartsOf(s.entries, o) \subseteq ChartsOf(S.entries, o)
       \/ Primaries(s.entries, o) = {NewId}

\* What is queued so succeeds what the shown charts succeed.
LEMMA RedoneSucceeds ==
  ASSUME NEW v, NEW S, NEW s, NEW own, Succeeds(v, S), NewId \notin DOMAIN v.entries, Redone(S, s, own)
  PROVE  Succeeds(v, s)
<1> SUFFICES ASSUME NEW o \in Owners
             PROVE  \/ /\ Primaries(s.entries, o) = Primaries(v.entries, o)
                       /\ ChartsOf(s.entries, o) \subseteq ChartsOf(v.entries, o)
                    \/ Primaries(s.entries, o) # {} /\ Primaries(s.entries, o) \cap DOMAIN v.entries = {}
  BY DEF Succeeds
<1>1. CASE Primaries(s.entries, o) = {NewId}
  BY <1>1
<1>2. CASE /\ Primaries(s.entries, o) = Primaries(S.entries, o)
           /\ ChartsOf(s.entries, o) \subseteq ChartsOf(S.entries, o)
  BY <1>2 DEF Succeeds
<1> QED
  BY <1>1, <1>2 DEF Redone

\* A tab queues charts that are consistent and follow what it shows.
LEMMA QueuesCharts ==
  ASSUME VersionsInv, ChartsInv, NEW t \in Tabs, NEW states, Queues(t, states), NEW own,
         name = "charts" => \A j \in 1 .. Len(states) : Redone(store[t], states[j], own),
         name = "charts" => \A i, j \in 1 .. Len(states) : i <= j => Succeeds(states[i], states[j])
  PROVE  ChartsInv'
<1> SUFFICES ASSUME name = "charts" PROVE ChartsInv'
  BY DEF ChartsInv, Queues
<1> DEFINE n == Len(pending[t])
           k == Len(states)
           S == store[t]
<1>0. \A j \in 1 .. k : Redone(S, states[j], own)
  OBVIOUS
<1>1. /\ \A s \in Values : ChartsSound(s)
      /\ \A s, u \in Values : Agree(s, u)
      /\ ChoicesNew /\ NonePromoted
  BY DEF ChartsInv
<1>2. \A s \in Values' : s \in Values \/ \E j \in 1 .. k : s = states[j]
  BY GrownValues
<1>3. /\ \A i \in Versions(t)' :
           \/ i \in Versions(t) /\ i <= n /\ Version(t, i)' = Version(t, i)
           \/ /\ i > n
              /\ \E j \in 1 .. k : Version(t, i)' = states[j] /\ j = IF i - n <= k THEN i - n ELSE k
      /\ \A u \in Tabs \ {t} : pending'[u] = pending[u] /\ store'[u] = store[u]
      /\ base' = base /\ row' = row /\ name' = name /\ k \in Nat
  <2>1. QueuesFit /\ IsSeq(states) /\ Len(states) > 0 /\ Set(t, states) /\ base' = base
    BY DEF VersionsInv, Queues
  <2>2. /\ \A i \in Versions(t)' :
             \/ i \in Versions(t) /\ i <= n /\ Version(t, i)' = Version(t, i)
             \/ /\ i > n
                /\ \E j \in 1 .. k : Version(t, i)' = states[j] /\ j = IF i - n <= k THEN i - n ELSE k
        /\ \A u \in Tabs \ {t} : pending'[u] = pending[u] /\ store'[u] = store[u]
    BY <2>1, Grown
  <2>3. k \in Nat
    BY <2>1, SeqParts
  <2> QED
    BY <2>2, <2>3 DEF Queues
<1>4. \A u \in Tabs \ {t} : Versions(u)' = Versions(u) /\ \A i \in Versions(u) : Version(u, i)' = Version(u, i)
  BY <1>3, Kept
<1>5. \A s \in Values : NewId \notin DOMAIN s.entries
  <2>1. \A s \in Values : DOMAIN s.entries \subseteq 1 .. minted /\ minted \in Nat
    BY ValueFits
  <2> QED
    BY <2>1 DEF NewId
<1>6. /\ S \in Values /\ n \in Nat /\ n + 1 \in Versions(t) /\ Version(t, n + 1) = S
      /\ \A i \in Versions(t) : i \in Nat /\ Version(t, i) \in Values
  <2>1. \A i \in Versions(t) : Version(t, i) \in Values
    BY DEF Values
  <2> QED
    BY <2>1, StoreIsValue
<1> HIDE DEF n, k, S
<1>7. \A s \in Values' : ChartsSound(s)
  BY <1>0, <1>1, <1>2 DEF Redone
<1>8. \A s, u \in Values' : Agree(s, u)
  <2>1. ASSUME NEW s \in Values, NEW j \in 1 .. k PROVE Agree(s, states[j]) /\ Agree(states[j], s)
    <3>1. Agree(s, S) /\ NewId \notin DOMAIN s.entries /\ Redone(S, states[j], own)
      BY <1>0, <1>1, <1>5, <1>6
    <3> QED
      BY <3>1 DEF Agree, Redone
  <2>2. ASSUME NEW i \in 1 .. k, NEW j \in 1 .. k PROVE Agree(states[i], states[j])
    <3>1. Redone(S, states[i], own) /\ Redone(S, states[j], own)
      BY <1>0
    <3> QED
      BY <3>1 DEF Agree, Redone
  <2> QED
    BY <1>1, <1>2, <2>1, <2>2
<1>9. ChoicesNew'
  <2>1. ASSUME NEW i \in Versions(t)', NEW j \in Versions(t)', i < j
        PROVE  Succeeds(Version(t, i)', Version(t, j)')
    <3>0. \A m \in Versions(t)' : m \in Int
      BY <1>3 DEF Versions
    <3>1. CASE i \in Versions(t) /\ i <= n /\ Version(t, i)' = Version(t, i)
      <4>1. Succeeds(Version(t, i), S)
        BY <1>1, <1>6, <3>0, <3>1 DEF ChoicesNew
      <4>2. CASE j \in Versions(t) /\ j <= n /\ Version(t, j)' = Version(t, j)
        BY <1>1, <2>1, <3>1, <4>2 DEF ChoicesNew
      <4>3. CASE \E m \in 1 .. k : Version(t, j)' = states[m]
        BY <1>0, <1>5, <1>6, <3>1, <4>1, <4>3, RedoneSucceeds
      <4> QED
        BY <1>3, <2>1, <4>2, <4>3
    <3>2. CASE ~(i \in Versions(t) /\ i <= n /\ Version(t, i)' = Version(t, i))
      <4>1. PICK x \in 1 .. k : i > n /\ Version(t, i)' = states[x] /\ x = IF i - n <= k THEN i - n ELSE k
        BY <1>3, <2>1, <3>2
      <4>2. j > n
        BY <1>6, <2>1, <3>0, <4>1
      <4>3. PICK y \in 1 .. k : Version(t, j)' = states[y] /\ y = IF j - n <= k THEN j - n ELSE k
        BY <1>3, <1>6, <2>1, <3>0, <4>2
      <4>4. x <= y
        BY <1>3, <1>6, <2>1, <3>0, <4>1, <4>3
      <4> QED
        BY <4>1, <4>3, <4>4 DEF k
    <3> QED
      BY <3>1, <3>2
  <2>2. ASSUME NEW u \in Tabs \ {t}, NEW i \in Versions(u)', NEW j \in Versions(u)', i < j
        PROVE  Succeeds(Version(u, i)', Version(u, j)')
    BY <1>1, <1>4, <2>2 DEF ChoicesNew
  <2> QED
    BY <2>1, <2>2 DEF ChoicesNew
<1>10. NonePromoted'
  BY <1>1, <1>3 DEF NonePromoted
<1> QED
  BY <1>7, <1>8, <1>9, <1>10 DEF ChartsInv

\* Charts that are those a tab shows but for what does not matter to the choice.
LEMMA SameCharts ==
  ASSUME NEW S, ChartsSound(S), NewId \notin DOMAIN S.entries, NEW s, NEW own,
         s.entries \in [DOMAIN S.entries -> Record("charts")],
         \A c \in DOMAIN S.entries : /\ s.entries[c].of = S.entries[c].of
                                     /\ s.entries[c].primary = S.entries[c].primary
  PROVE  Redone(S, s, own) /\ Succeeds(s, s)
<1>1. DOMAIN s.entries = DOMAIN S.entries
  OBVIOUS
<1>2. \A o \in Owners : Primaries(s.entries, o) = Primaries(S.entries, o) /\ ChartsOf(s.entries, o) = ChartsOf(S.entries, o)
  BY <1>1 DEF Primaries, ChartsOf
<1>3. ChartsSound(s)
  BY <1>1, <1>2 DEF ChartsSound
<1> QED
  BY <1>1, <1>2, <1>3 DEF Redone, Succeeds

\* A tab queues one state of such charts.
LEMMA OneCharts ==
  ASSUME VersionsInv, ChartsInv, NEW t \in Tabs, NEW s, Set(t, <<s>>), UNCHANGED <<name, row, base>>,
         name = "charts" =>
           /\ s.entries \in [DOMAIN store[t].entries -> Record("charts")]
           /\ \A c \in DOMAIN store[t].entries : /\ s.entries[c].of = store[t].entries[c].of
                                                 /\ s.entries[c].primary = store[t].entries[c].primary
  PROVE  ChartsInv'
<1>1. Queues(t, <<s>>) /\ Len(<<s>>) = 1 /\ \A j \in 1 .. Len(<<s>>) : <<s>>[j] = s
  BY QueuesOne
<1>2. name = "charts" => ChartsSound(store[t]) /\ NewId \notin DOMAIN store[t].entries
  BY ShownIs DEF ChartsInv, NewId
<1>3. name = "charts" => Redone(store[t], s, None) /\ Succeeds(s, s)
  BY <1>2, SameCharts
<1> QED
  BY <1>1, <1>3, QueuesCharts

\* What a tab shows is queued again.
LEMMA RewriteCharts ==
  ASSUME VersionsInv, ChartsInv, NEW t \in Tabs, Set(t, <<store[t]>>), UNCHANGED <<name, row, base>>
  PROVE  ChartsInv'
<1>1. name = "charts" => store[t].entries \in [DOMAIN store[t].entries -> Record("charts")]
  BY ShownIs DEF ChartsInv, ChartsSound
<1> QED
  BY <1>1, OneCharts

\* The charts of a person are renamed.
LEMMA RenameKeeps ==
  ASSUME VersionsInv, ChartsInv, NEW t \in Tabs, NEW o, RenameCharts(t, o)
  PROVE  ChartsInv'
<1> DEFINE S == store[t]
           e == [c \in DOMAIN S.entries |->
                   IF S.entries[c].of = o THEN [S.entries[c] EXCEPT !.label = 1 - @] ELSE S.entries[c]]
           s == [S EXCEPT !.entries = e]
<1>1. name = "charts" /\ UNCHANGED <<name, row, base>> /\ Set(t, <<s>>)
  BY DEF RenameCharts, Acts
<1>2. s.entries = e
  BY ShownIs DEF IsRecord
<1>3. \A c \in DOMAIN S.entries : S.entries[c] \in [of : Owners, primary : BOOLEAN, label : {0, 1}]
  BY <1>1, ShownIs DEF ChartsInv, ChartsSound, Record
<1>4. ASSUME NEW c \in DOMAIN S.entries
      PROVE  /\ e[c] \in [of : Owners, primary : BOOLEAN, label : {0, 1}]
             /\ e[c].of = S.entries[c].of /\ e[c].primary = S.entries[c].primary
  <2> DEFINE chart == S.entries[c]
  <2>1. chart \in [of : Owners, primary : BOOLEAN, label : {0, 1}]
    BY <1>3
  <2>2. e[c] = IF chart.of = o THEN [chart EXCEPT !.label = 1 - @] ELSE chart
    OBVIOUS
  <2> HIDE DEF chart, e
  <2>3. 1 - chart.label \in {0, 1}
    BY <2>1
  <2>4. /\ e[c] \in [of : Owners, primary : BOOLEAN, label : {0, 1}]
        /\ e[c].of = chart.of /\ e[c].primary = chart.primary
    BY <2>1, <2>2, <2>3
  <2> QED
    BY <2>4 DEF chart
<1>5. e \in [DOMAIN S.entries -> Record("charts")]
  BY <1>4 DEF Record
<1> HIDE DEF e, s
<1> QED
  BY <1>1, <1>2, <1>4, <1>5, OneCharts

\* What saveChart makes of the charts.
LEMMA SavedCharts ==
  ASSUME NEW charts, charts \in [DOMAIN charts -> Record("charts")], NEW c, c \notin DOMAIN charts, NEW o \in Owners
  PROVE  LET new == SaveChart(charts, c, o)
         IN /\ \A x : x \in DOMAIN new <=> x \in DOMAIN charts \/ x = c
            /\ new \in [DOMAIN new -> Record("charts")]
            /\ new[c].of = o /\ \A x \in DOMAIN charts : new[x].of = charts[x].of
            /\ \A x : x \in Primaries(new, o) <=> x = c
            /\ \A u \in Owners \ {o} : Primaries(new, u) = Primaries(charts, u) /\ ChartsOf(new, u) = ChartsOf(charts, u)
<1> DEFINE rest == [x \in DOMAIN charts |-> [charts[x] EXCEPT !.primary = @ /\ charts[x].of # o]]
           chart == [of |-> o, primary |-> TRUE, label |-> 0]
           new == SaveChart(charts, c, o)
<1>1. new = [x \in DOMAIN rest \cup {c} |-> IF x = c THEN chart ELSE rest[x]]
  BY DEF SaveChart, Put
<1>2. ASSUME NEW x \in DOMAIN charts
      PROVE  /\ rest[x] \in Record("charts") /\ rest[x].of = charts[x].of
             /\ rest[x].primary <=> charts[x].primary /\ charts[x].of # o
  <2> DEFINE yes == charts[x].primary /\ charts[x].of # o
  <2>1. rest[x] = [charts[x] EXCEPT !.primary = yes]
    OBVIOUS
  <2>2. yes \in BOOLEAN
    OBVIOUS
  <2>3. charts[x] \in [of : Owners, primary : BOOLEAN, label : {0, 1}]
    BY DEF Record
  <2> HIDE DEF yes, rest
  <2>4. /\ rest[x] \in [of : Owners, primary : BOOLEAN, label : {0, 1}]
        /\ rest[x].of = charts[x].of /\ rest[x].primary = yes
    BY <2>1, <2>2, <2>3
  <2> QED
    BY <2>4 DEF Record, yes
<1>3. DOMAIN rest = DOMAIN charts
  OBVIOUS
<1> HIDE DEF rest, new
<1>4. chart \in Record("charts") /\ chart.of = o /\ chart.primary
  BY DEF Record
<1> HIDE DEF chart
<1>5. /\ DOMAIN new = DOMAIN charts \cup {c} /\ new[c] = chart
      /\ \A x \in DOMAIN charts : new[x] = rest[x]
  BY <1>1, <1>3
<1>6. DOMAIN new = DOMAIN charts \cup {c} /\ new \in [DOMAIN new -> Record("charts")]
  <2>1. \A x \in DOMAIN new : new[x] \in Record("charts")
    BY <1>2, <1>4, <1>5
  <2>2. new = [x \in DOMAIN new |-> new[x]]
    BY <1>1
  <2> QED
    BY <1>5, <2>1, <2>2
<1>7. ASSUME NEW x PROVE x \in Primaries(new, o) <=> x = c
  BY <1>2, <1>4, <1>5 DEF Primaries
<1>8. ASSUME NEW u \in Owners \ {o}, NEW x
      PROVE  /\ x \in Primaries(new, u) <=> x \in Primaries(charts, u)
             /\ x \in ChartsOf(new, u) <=> x \in ChartsOf(charts, u)
  BY <1>2, <1>4, <1>5 DEF Primaries, ChartsOf
<1>9. \A u \in Owners \ {o} : Primaries(new, u) = Primaries(charts, u) /\ ChartsOf(new, u) = ChartsOf(charts, u)
  BY <1>8
<1> QED
  BY <1>2, <1>4, <1>5, <1>6, <1>7, <1>9 DEF new

\* Charts of which an owner has a new primary one, and perhaps an old one less.
LEMMA RenewedCharts ==
  ASSUME NEW S, ChartsSound(S), NewId \notin DOMAIN S.entries, NEW o \in Owners, NEW gone,
         gone \subseteq Primaries(S.entries, o), NEW s,
         s.entries = LET new == SaveChart(S.entries, NewId, o) IN Restrict(new, DOMAIN new \ gone)
  PROVE  Redone(S, s, o)
<1> DEFINE e == S.entries
           new == SaveChart(e, NewId, o)
           f == s.entries
<1>0. e \in [DOMAIN e -> Record("charts")] /\ NewId \notin DOMAIN e
  BY DEF ChartsSound
<1>1. /\ \A x : x \in DOMAIN new <=> x \in DOMAIN e \/ x = NewId
      /\ new \in [DOMAIN new -> Record("charts")]
      /\ new[NewId].of = o /\ \A x \in DOMAIN e : new[x].of = e[x].of
      /\ \A x : x \in Primaries(new, o) <=> x = NewId
      /\ \A u \in Owners \ {o} : Primaries(new, u) = Primaries(e, u) /\ ChartsOf(new, u) = ChartsOf(e, u)
  <2> HIDE DEF e
  <2> QED
    BY <1>0, SavedCharts
<1>2. \A c \in gone : c \in DOMAIN e /\ e[c].of = o
  BY DEF Primaries
<1>3. f = [x \in DOMAIN new \ gone |-> new[x]]
  BY DEF Restrict
<1> HIDE DEF new, f
<1>4. /\ DOMAIN new = DOMAIN e \cup {NewId} /\ NewId \notin gone /\ NewId \notin DOMAIN e
      /\ DOMAIN f = DOMAIN new \ gone /\ \A x \in DOMAIN f : f[x] = new[x]
  BY <1>1, <1>2, <1>3 DEF e
<1>5. Primaries(f, o) = {NewId}
  <2>1. \A x : x \in Primaries(f, o) <=> x \in Primaries(new, o) /\ x \notin gone
    BY <1>4 DEF Primaries
  <2> QED
    BY <1>1, <1>4, <2>1
<1>6. ASSUME NEW u \in Owners \ {o}
      PROVE  Primaries(f, u) = Primaries(e, u) /\ ChartsOf(f, u) = ChartsOf(e, u)
  <2>1. \A x : /\ x \in Primaries(f, u) <=> x \in Primaries(new, u) /\ x \notin gone
               /\ x \in ChartsOf(f, u) <=> x \in ChartsOf(new, u) /\ x \notin gone
    BY <1>4 DEF Primaries, ChartsOf
  <2>2. \A x \in gone : x \notin Primaries(e, u) /\ x \notin ChartsOf(e, u)
    BY <1>2 DEF Primaries, ChartsOf
  <2> QED
    BY <1>1, <2>1, <2>2
<1>7. ChartsSound(s)
  <2>1. f \in [DOMAIN f -> Record("charts")]
    BY <1>1, <1>3, <1>4
  <2>2. ASSUME NEW u \in Owners, ChartsOf(f, u) # {} PROVE \E d \in DOMAIN f : Primaries(f, u) = {d}
    <3>1. CASE u = o
      BY <1>4, <1>5, <3>1
    <3>2. CASE u # o
      <4>1. Primaries(f, u) = Primaries(e, u) /\ ChartsOf(f, u) = ChartsOf(e, u)
        BY <1>6, <3>2
      <4>2. PICK d : Primaries(e, u) = {d}
        BY <2>2, <4>1 DEF ChartsSound, e
      <4>3. d \in DOMAIN f
        BY <4>1, <4>2 DEF Primaries
      <4> QED
        BY <4>1, <4>2, <4>3
    <3> QED
      BY <3>1, <3>2
  <2> QED
    BY <2>1, <2>2 DEF ChartsSound, f
<1>8. \A c \in DOMAIN f : IF c = NewId THEN f[c].of = o ELSE c \in DOMAIN e /\ f[c].of = e[c].of
  BY <1>1, <1>4
<1> QED
  BY <1>5, <1>6, <1>7, <1>8 DEF Redone, f, e

\* A chart is made for a person, in place of the one before.
LEMMA RegenerateKeeps ==
  ASSUME VersionsInv, ChartsInv, NEW t \in Tabs, NEW o \in Owners, Regenerate(t, o)
  PROVE  ChartsInv'
<1> DEFINE S == store[t]
           new == SaveChart(S.entries, NewId, o)
           prior == Only(Primaries(S.entries, o))
           v == [S EXCEPT !.entries = new]
           w == [S EXCEPT !.entries = Restrict(new, DOMAIN new \ {prior})]
           states == <<v>> \o (IF prior = None THEN <<>> ELSE <<w>>)
<1>1. name = "charts" /\ UNCHANGED <<name, row, base>> /\ Set(t, states)
  BY DEF Regenerate, Acts
<1>2. /\ ChartsSound(S) /\ NewId \notin DOMAIN S.entries /\ IsRecord(S)
      /\ DOMAIN S.entries \subseteq Nat
  BY <1>1, ShownIs DEF ChartsInv, NewId
<1>3. v.entries = new /\ w.entries = Restrict(new, DOMAIN new \ {prior})
  <2> HIDE DEF new
  <2> QED
    BY <1>2 DEF IsRecord
<1>4. Redone(S, v, o)
  <2>1. Restrict(new, DOMAIN new \ {}) = new
    <3>1. new = [x \in DOMAIN new |-> new[x]]
      BY DEF SaveChart, Put
    <3> HIDE DEF new
    <3> QED
      BY <3>1 DEF Restrict
  <2> QED
    BY <1>2, <1>3, <2>1, RenewedCharts
<1>5. prior # None => prior \in Primaries(S.entries, o)
  <2>1. Primaries(S.entries, o) \in SUBSET Nat
    BY <1>2 DEF Primaries
  <2> QED
    BY <2>1, OnlyOne
<1>6. prior # None => Redone(S, w, o)
  <2> SUFFICES ASSUME prior # None PROVE Redone(S, w, o)
    OBVIOUS
  <2>1. {prior} \subseteq Primaries(S.entries, o)
    BY <1>5
  <2> QED
    BY <1>2, <1>3, <2>1, RenewedCharts
<1>7. Succeeds(v, v) /\ Succeeds(w, w)
  BY DEF Succeeds
<1>8. prior # None => Succeeds(v, w)
  <2> SUFFICES ASSUME prior # None, NEW u \in Owners
               PROVE  /\ Primaries(w.entries, u) = Primaries(v.entries, u)
                      /\ ChartsOf(w.entries, u) \subseteq ChartsOf(v.entries, u)
    BY DEF Succeeds
  <2> HIDE DEF new, v, w
  <2>1. /\ DOMAIN w.entries = DOMAIN v.entries \ {prior}
        /\ \A x \in DOMAIN w.entries : w.entries[x] = v.entries[x]
    BY <1>3 DEF Restrict
  <2>2. ChartsOf(w.entries, u) \subseteq ChartsOf(v.entries, u)
    BY <2>1 DEF ChartsOf
  <2>3. Primaries(v.entries, u) = Primaries(w.entries, u) \/ prior \in Primaries(v.entries, u)
    BY <2>1 DEF Primaries
  <2>4. prior \in DOMAIN S.entries /\ S.entries[prior].of = o /\ prior # NewId
    BY <1>2, <1>5 DEF Primaries
  <2>5. v.entries = new /\ Primaries(new, o) = {NewId} /\ new[prior].of = o
    <3>1. S.entries \in [DOMAIN S.entries -> Record("charts")]
      BY <1>2 DEF ChartsSound
    <3> DEFINE e == S.entries
    <3>0. e \in [DOMAIN e -> Record("charts")] /\ NewId \notin DOMAIN e
      BY <1>2, <3>1
    <3> HIDE DEF e
    <3>a. \A x : x \in Primaries(SaveChart(e, NewId, o), o) <=> x = NewId
      BY <3>0, SavedCharts
    <3>b. \A x \in DOMAIN e : SaveChart(e, NewId, o)[x].of = e[x].of
      BY <3>0, SavedCharts
    <3>2. (\A x : x \in Primaries(new, o) <=> x = NewId) /\ \A x \in DOMAIN S.entries : new[x].of = S.entries[x].of
      BY <3>a, <3>b DEF new, e
    <3> QED
      BY <1>3, <2>4, <3>2
  <2>6. prior \notin Primaries(v.entries, u)
    BY <2>4, <2>5 DEF Primaries
  <2> QED
    BY <2>2, <2>3, <2>6
<1> HIDE DEF v, w, S, prior
<1>9. /\ IsSeq(states) /\ Len(states) > 0
      /\ \A i \in 1 .. Len(states) : \/ i = 1 /\ states[i] = v
                                     \/ i = 2 /\ states[i] = w /\ prior # None
  <2>1. CASE prior = None
    <3>1. states = <<v>> \o <<>>
      BY <2>1
    <3>2. IsSeq(<<v>>) /\ Len(<<v>>) = 1 /\ <<v>>[1] = v
      BY OneState
    <3>3. <<v>> \o <<>> = <<v>>
      <4>1. <<v>> \in Seq({v})
        OBVIOUS
      <4> QED
        BY <4>1, ConcatEmptySeq
    <3>4. states = <<v>>
      BY <3>1, <3>3
    <3>5. \A i \in 1 .. 1 : i = 1
      OBVIOUS
    <3> HIDE DEF states
    <3> QED
      BY <3>2, <3>4, <3>5
  <2>2. CASE prior # None
    <3>1. states = <<v>> \o <<w>>
      BY <2>2
    <3>2. /\ IsSeq(<<v>>) /\ Len(<<v>>) = 1 /\ <<v>>[1] = v
          /\ IsSeq(<<w>>) /\ Len(<<w>>) = 1 /\ <<w>>[1] = w
      BY OneState
    <3>3. /\ IsSeq(states) /\ Len(states) = 2
          /\ \A i \in 1 .. 2 : states[i] = IF i <= 1 THEN <<v>>[i] ELSE <<w>>[i - 1]
      BY <3>1, <3>2, Joined
    <3>4. \A i \in 1 .. 2 : i = 1 \/ (i = 2 /\ ~(i <= 1) /\ i - 1 = 1)
      OBVIOUS
    <3> HIDE DEF states
    <3> QED
      BY <2>2, <3>2, <3>3, <3>4
  <2> QED
    BY <2>1, <2>2
<1> HIDE DEF states
<1>10. Queues(t, states)
  BY <1>1, <1>9 DEF Queues
<1>11. \A j \in 1 .. Len(states) : Redone(store[t], states[j], o)
  BY <1>4, <1>6, <1>9 DEF S
<1>12. \A i, j \in 1 .. Len(states) : i <= j => Succeeds(states[i], states[j])
  BY <1>7, <1>8, <1>9
<1> QED
  BY <1>10, <1>11, <1>12, QueuesCharts

\* What a tab shows of the chats is queued again.
LEMMA RewriteChat ==
  ASSUME VersionsInv, ChatInv, NEW t \in Tabs, Set(t, <<store[t]>>), UNCHANGED <<name, row, base>>
  PROVE  ChatInv'
<1>1. name = "chat" => store[t].entries = Counted(store[t].entries, store[t].lists)
  BY ShownCounts
<1> QED
  BY <1>1, OneChat

-----------------------------------------------------------------------------
(* Every step keeps the row and its copies consistent. *)

ConsistentInv == PeopleInv /\ ChatInv /\ ChartsInv

\* What a user does with the people.
LEMMA PeopleKeep ==
  ASSUME RowsInv, ConsistentInv, NEW t \in Tabs, People(t)
  PROVE  ConsistentInv'
<1>0. VersionsInv /\ TasksInv /\ PeopleInv
  BY DEF RowsInv, ConsistentInv
<1>1. name = "people" /\ name' = name
  BY DEF People, Stage, Restage, Discard, RetryFailedDiscards, SetAnchor, SetActiveProfile, SetRelationship, Acts
<1>2. PeopleInv'
  <2>1. ASSUME NEW rel \in {"none", "kin"}, Stage(t, rel) PROVE PeopleInv'
    BY <1>0, <2>1, StagePeople
  <2>2. CASE Restage(t)
    BY <1>0, <2>2, EditPeople
  <2>3. CASE Discard(t)
    BY <1>0, <2>3, DiscardPeople
  <2>4. CASE RetryFailedDiscards(t)
    <3>1. Set(t, <<store[t]>>) /\ UNCHANGED <<name, row, base, staged>>
      BY <2>4 DEF RetryFailedDiscards, Acts
    <3> QED
      BY <1>0, <3>1, RewritePeople
  <2>5. ASSUME NEW p, SetAnchor(t, p) \/ SetActiveProfile(t, p) PROVE PeopleInv'
    BY <1>0, <2>5, EditPeople
  <2>6. ASSUME NEW p, NEW rel \in {"none", "kin"}, SetRelationship(t, p, rel) PROVE PeopleInv'
    BY <1>0, <2>6, EditPeople
  <2> QED
    BY <2>1, <2>2, <2>3, <2>4, <2>5, <2>6 DEF People
<1> QED
  BY <1>1, <1>2 DEF ConsistentInv, ChatInv, ChartsInv

\* What a user does with charts, life events and chats.
LEMMA RecordsKeep ==
  ASSUME RowsInv, ConsistentInv, NEW t \in Tabs, Records(t)
  PROVE  ConsistentInv'
<1>0. VersionsInv /\ ChatInv /\ ChartsInv
  BY DEF RowsInv, ConsistentInv
<1>1. ASSUME name = "charts", name' = name, ChartsInv' PROVE ConsistentInv'
  BY <1>1 DEF ConsistentInv, PeopleInv, ChatInv
<1>2. ASSUME name = "events", name' = name PROVE ConsistentInv'
  BY <1>2 DEF ConsistentInv, PeopleInv, ChatInv, ChartsInv
<1>3. ASSUME name = "chat", name' = name, ChatInv' PROVE ConsistentInv'
  BY <1>3 DEF ConsistentInv, PeopleInv, ChartsInv
<1>4. ASSUME NEW o \in Owners, Regenerate(t, o) PROVE ConsistentInv'
  <2>1. name = "charts" /\ name' = name
    BY <1>4 DEF Regenerate, Acts
  <2> QED
    BY <1>0, <1>1, <1>4, <2>1, RegenerateKeeps
<1>5. ASSUME NEW o \in Owners, RenameCharts(t, o) PROVE ConsistentInv'
  <2>1. name = "charts" /\ name' = name
    BY <1>5 DEF RenameCharts, Acts
  <2> QED
    BY <1>0, <1>1, <1>5, <2>1, RenameKeeps
<1>6. ASSUME NEW o, NEW e, AddEvent(t, o) \/ EditEvent(t, o, e) \/ RemoveEvent(t, o, e) PROVE ConsistentInv'
  <2>1. name = "events" /\ name' = name
    BY <1>6 DEF AddEvent, EditEvent, RemoveEvent, Acts
  <2> QED
    BY <1>2, <2>1
<1>7. ASSUME StartThread(t) \/ DeleteThread(t) PROVE ConsistentInv'
  <2>1. name = "chat" /\ name' = name
    BY <1>7 DEF StartThread, DeleteThread, Acts
  <2> QED
    BY <1>0, <1>3, <1>7, <2>1, StartChat, DeleteChat
<1>8. ASSUME NEW th, AppendMessage(t, th) PROVE ConsistentInv'
  <2>1. name = "chat" /\ name' = name
    BY <1>8 DEF AppendMessage, Acts
  <2> QED
    BY <1>0, <1>3, <1>8, <2>1, AppendChat
<1> QED
  BY <1>4, <1>5, <1>6, <1>7, <1>8 DEF Records

\* A step that changes no value of the row, and stages nobody.
LEMMA SameValuesKeep ==
  ASSUME ConsistentInv, UNCHANGED <<name, row, store, base, pending>>,
         \A t \in Tabs : staged'[t] \in {staged[t], Nothing}
  PROVE  ConsistentInv'
<1>1. \A t \in Tabs : Versions(t)' = Versions(t) /\ \A i \in Versions(t) : Version(t, i)' = Version(t, i)
  BY Kept
<1>2. \A s \in Values' : s \in Values
  BY <1>1 DEF Values
<1>3. StagedShown => StagedShown'
  BY DEF StagedShown, Nothing
<1>4. PeopleInv'
  BY <1>2, <1>3 DEF ConsistentInv, PeopleInv
<1>5. ChatInv'
  BY <1>2 DEF ConsistentInv, ChatInv
<1>6. ChartsInv'
  <2>1. ChoicesNew => ChoicesNew'
    BY <1>1 DEF ChoicesNew
  <2>2. NonePromoted => NonePromoted'
    BY DEF NonePromoted
  <2> QED
    BY <1>2, <2>1, <2>2 DEF ConsistentInv, ChartsInv
<1> QED
  BY <1>4, <1>5, <1>6 DEF ConsistentInv

\* The invariant is inductive.
LEMMA ConsistentStep ==
  ASSUME RowsInv, ConsistentInv, [Next]_vars
  PROVE  ConsistentInv'
<1>0. VersionsInv /\ TasksInv /\ DOMAIN staged = Tabs
  BY DEF RowsInv, TasksInv, RollbacksFit
<1>1. ASSUME NEW t \in Tabs, CommitWrite(t) PROVE ConsistentInv'
  BY <1>0, <1>1, CommitPeopleInv, CommitChatInv, CommitChartsInv DEF ConsistentInv
<1>2. ASSUME NEW t \in Tabs, FailWrite(t) \/ Reload(t) PROVE ConsistentInv'
  BY <1>0, <1>2, FewerKeeps DEF ConsistentInv
<1>3. ASSUME NEW t \in Tabs, StagedSaved(t) PROVE ConsistentInv'
  <2>1. /\ UNCHANGED <<name, row, store, base, pending>>
        /\ \A u \in Tabs : staged'[u] \in {staged[u], Nothing}
    BY <1>0, <1>3 DEF StagedSaved
  <2> QED
    BY <2>1, SameValuesKeep
<1>4. ASSUME NEW t \in Tabs, NEW p, DiscardHolds(t, p) \/ DiscardFails(t, p) PROVE ConsistentInv'
  <2>1. UNCHANGED <<name, row, store, base, pending, staged>>
    BY <1>4 DEF DiscardHolds, DiscardFails, Quiet
  <2> QED
    BY <2>1, SameValuesKeep
<1>5. ASSUME NEW t \in Tabs, NEW p, RewriteAfterDelay(t, p) PROVE ConsistentInv'
  <2>1. Set(t, <<store[t]>>) /\ UNCHANGED <<name, row, base, staged>>
    BY <1>5 DEF RewriteAfterDelay, Quiet
  <2> QED
    BY <1>0, <2>1, RewritePeople, RewriteChat, RewriteCharts DEF ConsistentInv
<1>6. CASE UNCHANGED vars
  <2>1. UNCHANGED <<name, row, store, base, pending, staged>>
    BY <1>6 DEF vars, tab
  <2> QED
    BY <2>1, SameValuesKeep
<1> QED
  BY <1>1, <1>2, <1>3, <1>4, <1>5, <1>6, PeopleKeep, RecordsKeep DEF Next, Discards

-----------------------------------------------------------------------------
(* The row at first, and what the invariant says of it. *)

\* Of some ids there is at most one when all are the same.
LEMMA AtMostOne ==
  ASSUME NEW last \in Nat, NEW ids \in SUBSET (1 .. last)
  PROVE  Cardinality(ids) <= 1 <=> \A p, q \in ids : p = q
<1>1. IsFiniteSet(ids)
  <2>1. IsFiniteSet(1 .. last) /\ ids \subseteq 1 .. last
    BY FS_Interval
  <2> QED
    BY <2>1, FS_Subset
<1>2. ASSUME Cardinality(ids) <= 1, NEW p \in ids, NEW q \in ids, p # q PROVE FALSE
  <2>1. IsFiniteSet({p}) /\ Cardinality({p}) = 1
    BY FS_Singleton
  <2>2. Cardinality({p} \cup {q}) = 2
    BY <1>2, <2>1, FS_AddElement
  <2>3. Cardinality({p} \cup {q}) <= Cardinality(ids)
    BY <1>1, FS_Subset
  <2>4. Cardinality(ids) \in Nat
    BY <1>1, FS_CardinalityType
  <2> QED
    BY <1>2, <2>2, <2>3, <2>4
<1>3. ASSUME \A p, q \in ids : p = q PROVE Cardinality(ids) <= 1
  <2>1. CASE ids = {}
    BY <2>1, FS_EmptySet
  <2>2. CASE ids # {}
    <3>1. PICK p \in ids : ids = {p}
      BY <1>3, <2>2
    <3>2. Cardinality(ids) = 1
      BY <3>1, FS_Singleton
    <3> QED
      BY <3>2
  <2> QED
    BY <2>1, <2>2
<1> QED
  BY <1>2, <1>3

\* A map of nothing is the empty one.
LEMMA EmptyMap ==
  ASSUME NEW R, NEW e, e \in [DOMAIN e -> R]
  PROVE  e = <<>> <=> DOMAIN e = {}
<1>1. DOMAIN <<>> = {}
  OBVIOUS
<1>2. ASSUME DOMAIN e = {} PROVE e = <<>>
  BY <1>2
<1> QED
  BY <1>1, <1>2

\* People are consistent when they are sound.
LEMMA PeopleConsistent ==
  ASSUME name = "people", NEW last \in Nat, NEW s, Fits(s, last), s.entries \in [DOMAIN s.entries -> Record("people")]
  PROVE  Consistent(s) <=> PeopleSound(s)
<1> DEFINE e == s.entries
           anchors == Anchors(e)
<1>1. anchors \in SUBSET (1 .. last)
  BY FitsParts DEF Anchors
<1>2. \A p \in DOMAIN e : e[p] \in [rel : {"none", "kin", "self"}, to : Nat \cup {None}]
  BY DEF Record
<1>3. e = [p \in DOMAIN e |-> e[p]]
  OBVIOUS
<1>4. e = <<>> <=> DOMAIN e = {}
  BY EmptyMap
<1> DEFINE To(p) == IF e[p].rel = "kin" THEN Only(anchors) ELSE None
<1>5. e = NormalizeRelatedTo(e) <=> \A p \in DOMAIN e : e[p].to = To(p)
  <2>1. NormalizeRelatedTo(e) = [p \in DOMAIN e |-> [e[p] EXCEPT !.to = To(p)]]
    BY DEF NormalizeRelatedTo
  <2> HIDE DEF To, e
  <2>2. \A p \in DOMAIN e : e[p] = [e[p] EXCEPT !.to = To(p)] <=> e[p].to = To(p)
    BY <1>2
  <2> QED
    BY <1>3, <2>1, <2>2
<1> HIDE DEF anchors
<1>6. Cardinality(anchors) <= 1 <=> \A p, q \in anchors : p = q
  BY <1>1, AtMostOne
<1>7. s.active \in DOMAIN e \cup (IF e = <<>> THEN {None} ELSE {})
        <=> IF DOMAIN e = {} THEN s.active = None ELSE s.active \in DOMAIN e
  BY <1>4
<1>8. Consistent(s) <=> /\ Cardinality(anchors) <= 1 /\ e = NormalizeRelatedTo(e)
                        /\ s.active \in DOMAIN e \cup (IF e = <<>> THEN {None} ELSE {})
  BY DEF Consistent, anchors
<1>9. PeopleSound(s) <=> /\ \A p, q \in anchors : p = q
                         /\ \A p \in DOMAIN e : e[p].to = To(p)
                         /\ IF DOMAIN e = {} THEN s.active = None ELSE s.active \in DOMAIN e
  BY DEF PeopleSound, anchors
<1> HIDE DEF e, To
<1> QED
  BY <1>5, <1>6, <1>7, <1>8, <1>9

\* Charts are consistent when they are sound.
LEMMA ChartsConsistent ==
  ASSUME name = "charts", NEW last \in Nat, NEW s, Fits(s, last), s.entries \in [DOMAIN s.entries -> Record("charts")]
  PROVE  Consistent(s) <=> ChartsSound(s)
<1> DEFINE e == s.entries
<1>1. \A c \in DOMAIN e : e[c].of \in Owners
  BY DEF Record
<1>2. \A o : Primaries(e, o) \subseteq DOMAIN e
  BY DEF Primaries
<1>3. ASSUME NEW o PROVE Cardinality(Primaries(e, o)) = 1 <=> \E d \in DOMAIN e : Primaries(e, o) = {d}
  <2> DEFINE ids == Primaries(e, o)
  <2>1. IsFiniteSet(ids)
    <3>1. DOMAIN e \subseteq 1 .. last
      BY FitsParts
    <3> QED
      BY <1>2, <3>1, FS_Interval, FS_Subset
  <2> HIDE DEF ids
  <2>2. Cardinality(ids) = 1 <=> \E d : ids = {d}
    BY <2>1, FS_Singleton
  <2> QED
    BY <1>2, <2>2 DEF ids
<1>4. Consistent(s) <=> \A c \in DOMAIN e : Cardinality(Primaries(e, e[c].of)) = 1
  BY DEF Consistent
<1>5. ChartsSound(s) <=> \A o \in Owners : ChartsOf(e, o) # {} => \E d \in DOMAIN e : Primaries(e, o) = {d}
  BY DEF ChartsSound
<1>6. \A o : ChartsOf(e, o) # {} <=> \E c \in DOMAIN e : e[c].of = o
  BY DEF ChartsOf
<1> HIDE DEF e
<1> QED
  BY <1>1, <1>3, <1>4, <1>5, <1>6

\* A row that is consistent at first.
LEMMA ConsistentInit ==
  ASSUME Init, Consistent(row)
  PROVE  ConsistentInv
<1>1. RowsInv
  BY RowsInit
<1>2. Fits(row, minted) /\ minted \in Nat
  BY <1>1 DEF RowsInv, VersionsInv, QueuesFit, ValuesFit
<1>3. row.entries \in [DOMAIN row.entries -> Record(name)]
  BY RecordsAssumption DEF Init
<1>4. \A t \in Tabs : \A i \in Versions(t) : Version(t, i) = row
  BY DEF Init, Versions, Version
<1>5. \A s \in Values : s = row
  BY <1>4 DEF Values
<1>6. PeopleInv
  BY <1>2, <1>3, <1>5, PeopleConsistent DEF PeopleInv, StagedShown, Init
<1>7. ChatInv
  BY <1>5 DEF ChatInv, Consistent
<1>8. ChartsInv
  <2> SUFFICES ASSUME name = "charts" PROVE ChartsInv
    BY DEF ChartsInv
  <2>1. ChartsSound(row)
    BY <1>2, <1>3, ChartsConsistent
  <2>2. Agree(row, row) /\ Succeeds(row, row)
    BY DEF Agree, Succeeds
  <2>3. ChoicesNew
    BY <1>4, <2>2 DEF ChoicesNew
  <2>4. NonePromoted
    BY DEF NonePromoted, Init
  <2> QED
    BY <1>5, <2>1, <2>2, <2>3, <2>4 DEF ChartsInv
<1> QED
  BY <1>6, <1>7, <1>8 DEF ConsistentInv

\* The invariant holds throughout when the row is consistent at first.
LEMMA ConsistentHolds == Spec /\ Consistent(row) => [](RowsInv /\ ConsistentInv)
<1>1. Init /\ Consistent(row) => RowsInv /\ ConsistentInv
  BY RowsInit, ConsistentInit
<1>2. RowsInv /\ ConsistentInv /\ [Next]_vars => (RowsInv /\ ConsistentInv)'
  BY RowsStep, ConsistentStep
<1> QED
  BY <1>1, <1>2, PTL DEF Spec

(* A row that is consistent at first stays so, and so does every copy of it,   *)
(* whatever the tabs did at the same time.                                     *)
THEOREM RowsAreConsistent == Spec /\ Consistent(row) => []RowIsConsistent
<1>1. ASSUME RowsInv, ConsistentInv, NEW s \in Values PROVE Consistent(s)
  <2>1. VersionsInv
    BY <1>1 DEF RowsInv
  <2>2. Fits(s, minted) /\ minted \in Nat
    BY <1>1, <2>1, ValueFits
  <2>3. CASE name = "people"
    <3>1. PeopleSound(s)
      BY <1>1, <2>3 DEF ConsistentInv, PeopleInv
    <3> QED
      BY <2>2, <2>3, <3>1, PeopleConsistent DEF PeopleSound
  <2>4. CASE name = "charts"
    <3>1. ChartsSound(s)
      BY <1>1, <2>4 DEF ConsistentInv, ChartsInv
    <3> QED
      BY <2>2, <2>4, <3>1, ChartsConsistent DEF ChartsSound
  <2>5. CASE name = "chat"
    <3>1. s.entries = Counted(s.entries, s.lists) /\ DOMAIN s.lists \subseteq DOMAIN s.entries
      BY <1>1, <2>2, <2>5, FitsParts DEF ConsistentInv, ChatInv
    <3> QED
      BY <2>5, <3>1 DEF Consistent
  <2>6. CASE name \notin {"people", "charts", "chat"}
    BY <2>6 DEF Consistent
  <2> QED
    BY <2>3, <2>4, <2>5, <2>6
<1>2. RowsInv /\ ConsistentInv => RowIsConsistent
  BY <1>1, StoreIsValue DEF RowIsConsistent, Values, RowsInv
<1> QED
  BY <1>2, ConsistentHolds, PTL

(* No write changes the anchor or a primary chart back to what its tab still   *)
(* shows: it changes them only when the tab's user chose.                      *)
THEOREM ChoicesStay == Spec /\ Consistent(row) => ChoiceStays
<1> DEFINE Stays(t) ==
             LET mine == Head(pending[t]).entries  known == base[t].entries
             IN CASE name = "people" ->
                       Anchors(mine) = Anchors(known) =>
                         Anchors(row'.entries) = Anchors(row.entries) \cap DOMAIN row'.entries
                  [] name = "charts" ->
                       \A o \in Owners : Primaries(mine, o) = Primaries(known, o) =>
                         Primaries(row'.entries, o) = Primaries(row.entries, o) \cap DOMAIN row'.entries
                  [] OTHER -> TRUE
           A == \A t \in Tabs : row' # row /\ pending'[t] # pending[t] => Stays(t)
<1>1. RowsInv /\ ConsistentInv /\ [Next]_vars => [A]_vars
  <2> SUFFICES ASSUME RowsInv, ConsistentInv, Next, NEW t \in Tabs, row' # row, pending'[t] # pending[t]
               PROVE  Stays(t)
    OBVIOUS
  <2>0. VersionsInv /\ PeopleInv /\ ChartsInv
    BY DEF RowsInv, ConsistentInv
  <2>1. PICK u \in Tabs : CommitWrite(u)
    BY OnlyWrites
  <2>2. u = t
    BY <2>1 DEF CommitWrite, Dequeue, RowsInv, VersionsInv, QueuesFit
  <2>3. CommitWrite(t) /\ Version(t, 1) = Head(pending[t])
    BY <2>0, <2>1, <2>2, CommitValues
  <2>4. CASE name = "people"
    BY <2>0, <2>3, <2>4, AnchorStays
  <2>5. CASE name = "charts"
    BY <2>0, <2>3, <2>5, PrimaryStays
  <2> QED
    BY <2>4, <2>5
<1> QED
  BY <1>1, ConsistentHolds, PTL DEF Spec, ChoiceStays
=============================================================================
