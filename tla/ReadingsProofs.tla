--------------------------- MODULE ReadingsProofs ---------------------------
(***************************************************************************)
(* Theorems about Readings, for any charts and bounds: its types, that a    *)
(* reading once shown is saved, that no late result lands on another        *)
(* reading or on a chart that is gone, and that an unreadable row is not    *)
(* overwritten.  They rest on one inductive invariant, ReadingsInv.         *)
(***************************************************************************)
EXTENDS Readings, TLAPS

-----------------------------------------------------------------------------
(* The invariant. *)

\* The guard lets snapshots through.
Saves == guard \in {"none", "held"}

\* No run is older than the clicks.
IdsUsed == \A r \in runs : r.id <= clicks

\* Who forgets a chart also takes its run tokens.
ForgottenIsFree == \A c \in forgotten : active[c] = None

\* Before the row is read the store is empty and every run waits, and only a
\* tab that may save it ever lets one stream.
StartsEmpty == /\ guard = "pending" => entry = NoEntries
               /\ \A r \in runs : r.pc # "wait" => Saves

\* A snapshot is on its way whenever the store's texts are not those of the row,
\* and only when the row was read or is held aside.
RowFits == /\ unsaved => Saves
           /\ ~saved.readable => saved.entries = NoEntries
           /\ guard = "none" => saved.readable
           /\ guard = "held" => quarantine
           /\ Saves /\ ~unsaved =>
                \A c \in Charts, k \in Kinds : entry[c][k].text = saved.entries[c][k].text

\* What was shown is in the row, and in the store that overwrites the row next.
ShownFits ==
  \A c \in Charts, k \in Kinds :
    shown[c][k] # 0 => /\ saved.entries[c][k].text # 0
                       /\ Saves => entry[c][k].text # 0

\* A run that holds its token has its chart, and once it is complete its text.
TokensFit ==
  \A r \in runs :
    r.pc # "wait" /\ active[r.chart][r.kind] = r.id =>
      /\ r.chart \in charts
      /\ r.pc # "stream" => EntryOf(r).text = r.id

\* Saved annotations are those of the saved text.
SavedNotesMatch ==
  \A c \in Charts, k \in Kinds :
    saved.entries[c][k].notes \in {0, saved.entries[c][k].text}

ReadingsInv == /\ ForgottenIsFree /\ StartsEmpty /\ RowFits /\ ShownFits
               /\ TokensFit /\ NotesMatch /\ SavedNotesMatch

-----------------------------------------------------------------------------
(* Types. *)

Entry == [status : {"idle", "generating", "complete", "error"}, text : 0 .. MaxClicks,
          notes : 0 .. MaxClicks, marks : SUBSET (1 .. MaxClicks)]

StoreTyped == /\ forgotten \subseteq Charts /\ entry \in Entries
              /\ active \in [Charts -> [Kinds -> 0 .. clicks]]
              /\ shown \in [Charts -> [Kinds -> 0 .. clicks]]

HookTyped == /\ runs \subseteq Runs
             /\ \A r, s \in runs : r.id = s.id => r = s
             /\ IdsUsed
             /\ flight \in [Kinds -> 0 .. clicks]
             /\ controller \in [Kinds -> 0 .. clicks]

DiskTyped == /\ guard \in {"pending", "none", "held", "failed"}
             /\ saved.readable \in BOOLEAN /\ saved.entries \in Entries
             /\ quarantine \in BOOLEAN /\ unsaved \in BOOLEAN

PageTyped == /\ charts \subseteq Charts /\ page \in Charts \cup {NoChart}
             /\ clicks \in 0 .. MaxClicks /\ upsets \in 0 .. MaxUpsets

AllTyped == StoreTyped /\ HookTyped /\ DiskTyped /\ PageTyped

\* The parts are the type invariant, and what the ids of runs are taken from.
LEMMA TypeParts == AllTyped => TypeOK
  BY DEF AllTyped, StoreTyped, HookTyped, DiskTyped, PageTyped, TypeOK

\* The readings of all charts, as a set of functions into the entries.
LEMMA EntriesAre == Entries = [Charts -> [Kinds -> Entry]]
  BY DEF Entries, Entry

\* The empty reading, the empty store and the empty token maps have their types.
LEMMA Nothing == /\ Empty \in Entry /\ NoEntries \in Entries
                 /\ None \in [Kinds -> {0}] /\ NoRuns \in [Charts -> [Kinds -> {0}]]
  <1>1. 0 \in 0 .. MaxClicks
    BY ReadingsAssumption
  <1>2. Empty \in Entry
    BY <1>1 DEF Empty, Entry
  <1> QED
    BY <1>2, EntriesAre DEF NoEntries, None, NoRuns

\* A value of one chart and kind is replaced, the others are as they were.
LEMMA CellSet ==
  ASSUME NEW S, NEW f \in [Charts -> [Kinds -> S]], NEW c \in Charts, NEW k \in Kinds, NEW e \in S
  PROVE  LET g == [f EXCEPT ![c][k] = e]
         IN /\ g \in [Charts -> [Kinds -> S]]
            /\ \A d \in Charts, j \in Kinds :
                 g[d][j] = IF d = c /\ j = k THEN e ELSE f[d][j]
  OBVIOUS

\* All values of a chart are replaced.
LEMMA ChartSet ==
  ASSUME NEW S, NEW f \in [Charts -> [Kinds -> S]], NEW c \in Charts, NEW h \in [Kinds -> S]
  PROVE  LET g == [f EXCEPT ![c] = h]
         IN /\ g \in [Charts -> [Kinds -> S]]
            /\ \A d \in Charts, j \in Kinds : g[d][j] = IF d = c THEN h[j] ELSE f[d][j]
  OBVIOUS

\* The fields of a run have their types, and no run has the id that stands for none.
LEMMA RunParts ==
  ASSUME NEW r \in Runs
  PROVE  /\ r.id \in 1 .. MaxClicks /\ r.kind \in Kinds /\ r.chart \in Charts
         /\ r.id \in 0 .. MaxClicks /\ r.id # 0
         /\ r.aborted \in BOOLEAN /\ r.left \in BOOLEAN
         /\ r.pc \in {"wait", "stream", "persist", "notes"}
  BY ReadingsAssumption DEF Runs

\* The store changes one entry.
LEMMA SetEntryEffect ==
  ASSUME AllTyped, NEW r \in runs, NEW e \in Entry, SetEntry(r, e)
  PROVE  /\ entry' \in Entries
         /\ \A c \in Charts, k \in Kinds :
              entry'[c][k] = IF c = r.chart /\ k = r.kind THEN e ELSE entry[c][k]
  <1>1. r \in Runs /\ entry \in Entries
    BY DEF AllTyped, HookTyped, StoreTyped
  <1> QED
    BY <1>1, RunParts, CellSet, EntriesAre DEF SetEntry

\* The reading a run writes to is one of the store's.
LEMMA EntryTyped ==
  ASSUME AllTyped, NEW r \in runs
  PROVE  EntryOf(r) \in Entry /\ EntryOf(r) = entry[r.chart][r.kind]
  BY RunParts, EntriesAre DEF AllTyped, StoreTyped, HookTyped, EntryOf

\* A run goes on: it is the same one, at another step.
LEMMA BecomeEffect ==
  ASSUME AllTyped, NEW r \in runs, NEW pc \in {"wait", "stream", "persist", "notes"},
         Become(r, pc)
  PROVE  /\ runs' \subseteq Runs
         /\ \A s, t \in runs' : s.id = t.id => s = t
         /\ \A s \in runs' : s.id <= clicks
         /\ \A s \in runs' : \/ /\ s \in runs /\ s.id # r.id
                             \/ /\ s.id = r.id /\ s.kind = r.kind /\ s.chart = r.chart
                                /\ s.pc = pc
  <1> DEFINE q == [r EXCEPT !.pc = pc]
  <1>1. /\ r \in Runs /\ runs \subseteq Runs
        /\ \A s, t \in runs : s.id = t.id => s = t
        /\ \A s \in runs : s.id <= clicks
    BY DEF AllTyped, HookTyped, IdsUsed
  <1>2. q \in Runs /\ q.id = r.id /\ q.kind = r.kind /\ q.chart = r.chart /\ q.pc = pc
    BY <1>1 DEF Runs
  <1>3. runs' = (runs \ {r}) \cup {q}
    BY DEF Become
  <1> HIDE DEF q
  <1>4. \A s \in runs' : (s \in runs /\ s.id # r.id) \/ s = q
    BY <1>1, <1>3
  <1> QED
    BY <1>1, <1>2, <1>3, <1>4

\* A run that frees the single flight of its kind leaves ids of clicks there.
LEMMA ReleaseType ==
  ASSUME AllTyped, NEW r \in runs, Release(r)
  PROVE  flight' \in [Kinds -> 0 .. clicks]
  <1>1. 0 \in 0 .. clicks
    BY ReadingsAssumption DEF AllTyped, PageTyped
  <1> QED
    BY <1>1 DEF AllTyped, HookTyped, Release

\* A run that ends is taken out; the others stay the runs they were.
LEMMA EndEffect ==
  ASSUME AllTyped, NEW r \in runs, End(r)
  PROVE  /\ runs' \subseteq Runs /\ runs' \subseteq runs /\ r \notin runs'
         /\ \A s, t \in runs' : s.id = t.id => s = t
         /\ \A s \in runs' : s.id <= clicks
         /\ flight' \in [Kinds -> 0 .. clicks]
  BY ReleaseType DEF AllTyped, HookTyped, IdsUsed, End

\* A snapshot is asked for exactly when the guard lets it through.
LEMMA WillSaveEffect ==
  ASSUME AllTyped, WillSave
  PROVE  unsaved' \in BOOLEAN /\ (Saves => unsaved') /\ (~Saves => unsaved' = unsaved)
  BY DEF AllTyped, DiskTyped, WillSave, Refused, Saves

\* The ids in use stay below the clicks.
LEMMA IdInRange ==
  ASSUME AllTyped, NEW r \in runs
  PROVE  r.id \in 0 .. clicks /\ r.id \in 1 .. MaxClicks
  BY RunParts DEF AllTyped, HookTyped, PageTyped, IdsUsed

\* The store forgets a chart.
LEMMA DropEffect ==
  ASSUME AllTyped, NEW c \in Charts, Drop(c)
  PROVE  /\ entry' \in Entries
         /\ active' \in [Charts -> [Kinds -> 0 .. clicks]]
         /\ shown' \in [Charts -> [Kinds -> 0 .. clicks]]
         /\ \A d \in Charts, k \in Kinds :
              /\ entry'[d][k] = IF d = c THEN Empty ELSE entry[d][k]
              /\ active'[d][k] = IF d = c THEN 0 ELSE active[d][k]
              /\ shown'[d][k] = IF d = c THEN 0 ELSE shown[d][k]
         /\ active'[c] = None
         /\ \A d \in Charts \ {c} : active'[d] = active[d]
         /\ unsaved' \in BOOLEAN
  <1>1. 0 \in 0 .. clicks
    BY ReadingsAssumption DEF AllTyped, PageTyped
  <1>2. None \in [Kinds -> 0 .. clicks] /\ \A k \in Kinds : None[k] = 0
    BY <1>1 DEF None
  <1>3. [k \in Kinds |-> Empty] \in [Kinds -> Entry]
    BY Nothing
  <1>4. /\ entry \in [Charts -> [Kinds -> Entry]]
        /\ active \in [Charts -> [Kinds -> 0 .. clicks]]
        /\ shown \in [Charts -> [Kinds -> 0 .. clicks]]
    BY EntriesAre DEF AllTyped, StoreTyped
  <1>5. /\ entry' = [entry EXCEPT ![c] = [k \in Kinds |-> Empty]]
        /\ active' = [active EXCEPT ![c] = None]
        /\ shown' = [shown EXCEPT ![c] = None]
    BY DEF Drop
  <1>6. unsaved' \in BOOLEAN
    BY WillSaveEffect DEF Drop
  <1>7. /\ entry' \in [Charts -> [Kinds -> Entry]]
        /\ \A d \in Charts, k \in Kinds : entry'[d][k] = IF d = c THEN Empty ELSE entry[d][k]
    BY <1>3, <1>4, <1>5, ChartSet
  <1>8. /\ active' \in [Charts -> [Kinds -> 0 .. clicks]]
        /\ \A d \in Charts, k \in Kinds : active'[d][k] = IF d = c THEN 0 ELSE active[d][k]
        /\ active'[c] = None
        /\ \A d \in Charts \ {c} : active'[d] = active[d]
    BY <1>2, <1>4, <1>5, ChartSet
  <1>9. /\ shown' \in [Charts -> [Kinds -> 0 .. clicks]]
        /\ \A d \in Charts, k \in Kinds : shown'[d][k] = IF d = c THEN 0 ELSE shown[d][k]
    BY <1>2, <1>4, <1>5, ChartSet
  <1> QED
    BY <1>6, <1>7, <1>8, <1>9, EntriesAre

\* A page that starts has the types.
LEMMA TypeInit == Init => AllTyped
  <1>1. 0 \in 0 .. MaxClicks /\ 0 \in 0 .. MaxUpsets /\ Library \subseteq Charts
    BY ReadingsAssumption
  <1>2. ASSUME Init PROVE AllTyped
    <2>1. clicks = 0 /\ 0 \in 0 .. clicks
      BY <1>2 DEF Init
    <2>2. StoreTyped
      BY <1>2, <2>1, Nothing DEF Init, StoreTyped
    <2>3. HookTyped
      BY <1>2, <2>1, Nothing DEF Init, HookTyped, IdsUsed
    <2>4. DiskTyped
      BY <1>2, Nothing DEF Init, DiskTyped
    <2>5. PageTyped
      BY <1>1, <1>2 DEF Init, PageTyped
    <2> QED
      BY <2>2, <2>3, <2>4, <2>5 DEF AllTyped
  <1> QED
    BY <1>2

\* A run that begins to stream keeps the types.
LEMMA BeginTypes ==
  ASSUME AllTyped, NEW r \in runs, Begin(r)
  PROVE  AllTyped'
  <1>1. EntryOf(r) \in Entry /\ r \in Runs
    BY EntryTyped DEF AllTyped, HookTyped
  <1>2. /\ Started(EntryOf(r)) \in Entry
        /\ [Started(EntryOf(r)) EXCEPT !.status = "error"] \in Entry
    BY <1>1 DEF Started, Entry
  <1>3. /\ r.id \in 0 .. clicks /\ r.kind \in Kinds /\ r.chart \in Charts
    BY <1>1, IdInRange, RunParts
  <1>4. active' \in [Charts -> [Kinds -> 0 .. clicks]]
    BY <1>3, CellSet DEF Begin, AllTyped, StoreTyped
  <1>5. unsaved' \in BOOLEAN
    BY WillSaveEffect DEF Begin
  <1>6. UNCHANGED <<disk, charts, page, shown, count>> /\ forgotten' \subseteq Charts
    BY DEF Begin, AllTyped, StoreTyped
  <1>7. /\ entry' \in Entries /\ HookTyped'
    <2>1. CASE Refused \/ r.chart \notin charts
      <3>1. /\ SetEntry(r, [Started(EntryOf(r)) EXCEPT !.status = "error"])
            /\ End(r) /\ UNCHANGED controller
        BY <2>1 DEF Begin
      <3> QED
        BY <1>2, <1>6, <3>1, SetEntryEffect, EndEffect DEF AllTyped, HookTyped, IdsUsed, count
    <2>2. CASE ~(Refused \/ r.chart \notin charts)
      <3>1. /\ SetEntry(r, Started(EntryOf(r)))
            /\ Become(r, "stream") /\ UNCHANGED flight
            /\ controller' = [controller EXCEPT ![r.kind] = IF r.left THEN @ ELSE r.id]
        BY <2>2 DEF Begin
      <3>2. controller' \in [Kinds -> 0 .. clicks]
        BY <1>3, <3>1 DEF AllTyped, HookTyped
      <3> QED
        BY <1>2, <1>6, <3>1, <3>2, SetEntryEffect, BecomeEffect
           DEF AllTyped, HookTyped, IdsUsed, count
    <2> QED
      BY <2>1, <2>2
  <1> QED
    BY <1>4, <1>5, <1>6, <1>7 DEF AllTyped, StoreTyped, DiskTyped, PageTyped, disk, count

\* A section that arrives keeps the types.
LEMMA SectionTypes ==
  ASSUME AllTyped, NEW r \in runs, Section(r)
  PROVE  AllTyped'
  <1>1. EntryOf(r) \in Entry /\ r.id \in 1 .. MaxClicks
    BY EntryTyped, IdInRange
  <1>2. [EntryOf(r) EXCEPT !.marks = @ \cup {r.id}] \in Entry
    BY <1>1 DEF Entry
  <1>3. entry' \in Entries /\ unsaved' \in BOOLEAN
    BY <1>2, SetEntryEffect, WillSaveEffect DEF Section
  <1> QED
    BY <1>3 DEF Section, AllTyped, StoreTyped, HookTyped, IdsUsed, DiskTyped, PageTyped,
                hook, disk, count

\* A stream that completes keeps the types.
LEMMA CompleteTypes ==
  ASSUME AllTyped, NEW r \in runs, Complete(r)
  PROVE  AllTyped'
  <1>1. EntryOf(r) \in Entry /\ r.id \in 0 .. MaxClicks /\ 0 \in 0 .. MaxClicks
    BY EntryTyped, RunParts, ReadingsAssumption DEF AllTyped, HookTyped
  <1>2. [EntryOf(r) EXCEPT !.status = "complete", !.text = r.id, !.notes = 0] \in Entry
    BY <1>1 DEF Entry
  <1>3. entry' \in Entries /\ unsaved' \in BOOLEAN
    BY <1>2, SetEntryEffect, WillSaveEffect DEF Complete, AllTyped, StoreTyped
  <1>4. HookTyped'
    BY BecomeEffect DEF Complete, AllTyped, HookTyped, IdsUsed, count
  <1> QED
    BY <1>3, <1>4 DEF Complete, AllTyped, StoreTyped, DiskTyped, PageTyped, disk, count

\* A stream that fails keeps the types.
LEMMA FailTypes ==
  ASSUME AllTyped, NEW r \in runs, Fail(r)
  PROVE  AllTyped'
  <1>1. [EntryOf(r) EXCEPT !.status = "error"] \in Entry
    BY EntryTyped DEF Entry
  <1>2. entry' \in Entries /\ unsaved' \in BOOLEAN
    BY <1>1, SetEntryEffect, WillSaveEffect DEF Fail, AllTyped, StoreTyped, DiskTyped
  <1>3. HookTyped'
    BY EndEffect DEF Fail, AllTyped, HookTyped, IdsUsed, count
  <1> QED
    BY <1>2, <1>3 DEF Fail, AllTyped, StoreTyped, DiskTyped, PageTyped, disk, count

\* A stream that was aborted keeps the types.
LEMMA StopTypes ==
  ASSUME AllTyped, NEW r \in runs, Stop(r)
  PROVE  AllTyped'
  <1>1. HookTyped'
    BY EndEffect DEF Stop, AllTyped, HookTyped, IdsUsed, count
  <1> QED
    BY <1>1 DEF Stop, AllTyped, StoreTyped, DiskTyped, PageTyped, store, disk, count

\* A reading that is shown once it is saved keeps the types.
LEMMA PersistedTypes ==
  ASSUME AllTyped, NEW r \in runs, Persisted(r)
  PROVE  AllTyped'
  <1>1. r \in Runs /\ r.id \in 0 .. clicks
    BY IdInRange DEF AllTyped, HookTyped
  <1>2. shown' \in [Charts -> [Kinds -> 0 .. clicks]]
    BY <1>1, RunParts, CellSet DEF Persisted, AllTyped, StoreTyped
  <1>3. HookTyped'
    <2>1. CASE r.kind = "natal" /\ ~r.aborted
      BY <2>1, BecomeEffect, ReleaseType DEF Persisted, AllTyped, HookTyped, IdsUsed, count
    <2>2. CASE ~(r.kind = "natal" /\ ~r.aborted)
      BY <2>2, EndEffect DEF Persisted, AllTyped, HookTyped, IdsUsed, count
    <2> QED
      BY <2>1, <2>2
  <1> QED
    BY <1>2, <1>3 DEF Persisted, AllTyped, StoreTyped, DiskTyped, PageTyped, store, disk, count

\* Annotations that arrive keep the types.
LEMMA AnnotateTypes ==
  ASSUME AllTyped, NEW r \in runs, Annotate(r)
  PROVE  AllTyped'
  <1>1. r.id \in 0 .. MaxClicks
    BY RunParts DEF AllTyped, HookTyped
  <1>2. [EntryOf(r) EXCEPT !.notes = r.id] \in Entry
    BY <1>1, EntryTyped DEF Entry
  <1>3. entry' \in Entries /\ unsaved' \in BOOLEAN
    BY <1>2, SetEntryEffect, WillSaveEffect DEF Annotate, AllTyped, StoreTyped, DiskTyped
  <1>4. HookTyped'
    BY EndEffect DEF Annotate, AllTyped, HookTyped, IdsUsed, count
  <1> QED
    BY <1>3, <1>4 DEF Annotate, AllTyped, StoreTyped, DiskTyped, PageTyped, disk, count

\* A click adds a run with the next id, and changes no other but aborts some.
LEMMA ClickEffect ==
  ASSUME AllTyped, NEW k \in Kinds, Click(k)
  PROVE  /\ clicks' = clicks + 1 /\ clicks' \in 0 .. MaxClicks
         /\ runs' \subseteq Runs
         /\ \A s, t \in runs' : s.id = t.id => s = t
         /\ \A s \in runs' : s.id <= clicks'
         /\ \A s \in runs' :
              s.pc = "wait" \/ \E r \in runs : /\ s.id = r.id /\ s.kind = r.kind
                                               /\ s.chart = r.chart /\ s.pc = r.pc
  <1> DEFINE new == [id |-> clicks + 1, kind |-> k, chart |-> page, pc |-> "wait",
                     aborted |-> FALSE, left |-> FALSE]
             abort(r) == [r EXCEPT !.aborted = TRUE]
             stopped == {abort(r) : r \in AbortOf(k)}
  <1>1. /\ runs \subseteq Runs /\ \A r \in runs : r.id <= clicks
        /\ \A r, s \in runs : r.id = s.id => r = s
    BY DEF AllTyped, HookTyped, IdsUsed
  <1>2. clicks \in 0 .. MaxClicks /\ clicks < MaxClicks /\ page \in Charts /\ MaxClicks \in Nat
    BY ReadingsAssumption DEF Click, AllTyped, PageTyped
  <1>3. clicks + 1 \in 1 .. MaxClicks /\ clicks + 1 \in 0 .. MaxClicks
    BY <1>2
  <1>4. new \in Runs /\ new.id = clicks + 1 /\ new.pc = "wait"
    BY <1>2, <1>3 DEF Runs
  <1>5. AbortOf(k) \subseteq runs
    BY DEF AbortOf
  <1>6. \A s \in stopped :
          /\ s \in Runs
          /\ \E r \in AbortOf(k) : /\ s.id = r.id /\ s.kind = r.kind /\ s.chart = r.chart
                                   /\ s.pc = r.pc /\ s = abort(r)
    <2>1. ASSUME NEW r \in runs
          PROVE  /\ abort(r) \in Runs /\ abort(r).id = r.id /\ abort(r).kind = r.kind
                 /\ abort(r).chart = r.chart /\ abort(r).pc = r.pc
      BY <1>1 DEF Runs
    <2> HIDE DEF abort
    <2> QED
      BY <1>5, <2>1
  <1>7. runs' = (runs \ AbortOf(k)) \cup stopped \cup {new} /\ clicks' = clicks + 1
    BY DEF Click
  <1> HIDE DEF new, stopped, abort
  <1>8. \A s \in runs' : s \in runs \ AbortOf(k) \/ s \in stopped \/ s = new
    BY <1>7
  <1>9. \A s \in stopped : s.id <= clicks
    BY <1>1, <1>5, <1>6
  <1>10. \A s \in runs' : s \in Runs
    BY <1>1, <1>4, <1>6, <1>8
  <1>11. \A s \in runs \ AbortOf(k), t \in stopped : s.id # t.id
    BY <1>1, <1>5, <1>6
  <1>12. \A s, t \in stopped : s.id = t.id => s = t
    BY <1>1, <1>5, <1>6
  <1>13. \A s \in Runs : s.id <= clicks => s.id # clicks + 1 /\ s.id <= clicks + 1
    BY <1>2 DEF Runs
  <1>14. \A s, t \in runs' : s.id = t.id => s = t
    BY <1>1, <1>4, <1>6, <1>8, <1>9, <1>11, <1>12, <1>13
  <1>15. \A s \in runs' : s.id <= clicks + 1
    BY <1>1, <1>2, <1>4, <1>6, <1>8, <1>9, <1>13
  <1>16. \A s \in runs' :
           s.pc = "wait" \/ \E r \in runs : /\ s.id = r.id /\ s.kind = r.kind
                                            /\ s.chart = r.chart /\ s.pc = r.pc
    BY <1>4, <1>5, <1>6, <1>8
  <1> QED
    BY <1>3, <1>7, <1>10, <1>14, <1>15, <1>16

\* A click, which adds a run and aborts others, keeps the types.
LEMMA ClickTypes ==
  ASSUME AllTyped, NEW k \in Kinds, Click(k)
  PROVE  AllTyped'
  <1>1. /\ clicks' = clicks + 1 /\ clicks' \in 0 .. MaxClicks
        /\ runs' \subseteq Runs
        /\ \A s, t \in runs' : s.id = t.id => s = t
        /\ \A s \in runs' : s.id <= clicks'
    BY ClickEffect
  <1>2. clicks \in Nat
    BY ReadingsAssumption DEF AllTyped, PageTyped
  <1>3. 0 .. clicks \subseteq 0 .. clicks' /\ clicks + 1 \in 0 .. clicks' /\ 0 \in 0 .. clicks'
    BY <1>1, <1>2
  <1>4. /\ active' = active /\ shown' = shown /\ entry' = entry /\ forgotten' = forgotten
    BY DEF Click, store
  <1>5. StoreTyped'
    <2>1. /\ active \in [Charts -> [Kinds -> 0 .. clicks]]
          /\ shown \in [Charts -> [Kinds -> 0 .. clicks]]
      BY DEF AllTyped, StoreTyped
    <2> DEFINE N == 0 .. clicks
               M == 0 .. clicks'
    <2>2. N \subseteq M /\ active \in [Charts -> [Kinds -> N]] /\ shown \in [Charts -> [Kinds -> N]]
      BY <1>3, <2>1
    <2> HIDE DEF N, M
    <2>3. active \in [Charts -> [Kinds -> M]] /\ shown \in [Charts -> [Kinds -> M]]
      BY <2>2
    <2> QED
      BY <1>4, <2>3 DEF AllTyped, StoreTyped, M
  <1>6. flight' \in [Kinds -> 0 .. clicks'] /\ controller' \in [Kinds -> 0 .. clicks']
    <2>1. /\ flight \in [Kinds -> 0 .. clicks] /\ controller \in [Kinds -> 0 .. clicks]
      BY DEF AllTyped, HookTyped
    <2>2. /\ flight' = [flight EXCEPT ![k] = clicks + 1]
          /\ controller' = [controller EXCEPT ![k] = 0]
      BY DEF Click
    <2> QED
      BY <1>3, <2>1, <2>2
  <1> QED
    BY <1>1, <1>5, <1>6 DEF Click, AllTyped, HookTyped, IdsUsed, DiskTyped, PageTyped, disk

\* Leaving the page, which abandons the timeline, keeps the types.
LEMMA LeaveTypes ==
  ASSUME AllTyped, Leave
  PROVE  AllTyped'
  <1> DEFINE streaming == {r \in runs : r.kind = "timeline" /\ r.pc \in {"stream", "persist"}
                                          /\ r.id = flight["timeline"]}
             given == {r \in streaming : AcceptsRun(r)}
             left(r) == [r EXCEPT !.left = TRUE, !.aborted = @ \/ r \in streaming]
  <1>1. 0 \in 0 .. clicks
    BY ReadingsAssumption DEF AllTyped, PageTyped
  <1>2. /\ runs' = {left(r) : r \in runs}
        /\ active' = [c \in Charts |-> [k \in Kinds |->
                        IF \E r \in given : r.chart = c /\ r.kind = k THEN 0 ELSE active[c][k]]]
        /\ entry' = [c \in Charts |-> [k \in Kinds |->
                       IF entry[c][k].status = "generating" /\ \E r \in given : r.chart = c /\ r.kind = k
                       THEN Abandoned(entry[c][k]) ELSE entry[c][k]]]
        /\ unsaved' \in BOOLEAN
    BY WillSaveEffect DEF Leave
  <1>3. \A r \in runs : left(r) \in Runs /\ left(r).id = r.id
    BY DEF Runs, AllTyped, HookTyped
  <1> HIDE DEF left, given
  <1>4. HookTyped'
    <2>1. \A s, t \in runs' : s.id = t.id => s = t
      BY <1>2, <1>3 DEF AllTyped, HookTyped
    <2>2. runs' \subseteq Runs /\ \A s \in runs' : s.id <= clicks
      BY <1>2, <1>3 DEF AllTyped, HookTyped, IdsUsed
    <2>3. flight' \in [Kinds -> 0 .. clicks] /\ controller' \in [Kinds -> 0 .. clicks]
      BY <1>1 DEF Leave, None
    <2> QED
      BY <2>1, <2>2, <2>3 DEF Leave, HookTyped, IdsUsed, count
  <1>5. \A e \in Entry : Abandoned(e) \in Entry
    BY Nothing DEF Abandoned, Entry
  <1>6. entry' \in Entries
    BY <1>2, <1>5, EntriesAre DEF AllTyped, StoreTyped
  <1>7. active' \in [Charts -> [Kinds -> 0 .. clicks]]
    BY <1>1, <1>2 DEF AllTyped, StoreTyped
  <1> QED
    BY <1>2, <1>4, <1>6, <1>7
       DEF Leave, AllTyped, StoreTyped, DiskTyped, PageTyped, disk, count

\* A deleted person and a replaced chart keep the types.
LEMMA GoneTypes ==
  ASSUME AllTyped, NEW c \in Charts,
         DeletePerson(c) \/ \E d \in Charts : Regenerate(c, d)
  PROVE  AllTyped'
  <1>1. Drop(c) /\ UNCHANGED <<hook, disk, clicks>>
    BY DEF DeletePerson, Regenerate
  <1>2. upsets < MaxUpsets /\ upsets' = upsets + 1 /\ upsets \in 0 .. MaxUpsets /\ MaxUpsets \in Nat
    BY ReadingsAssumption DEF DeletePerson, Regenerate, AllTyped, PageTyped
  <1>3. upsets' \in 0 .. MaxUpsets
    BY <1>2
  <1>4. charts' \subseteq Charts /\ page' \in Charts \cup {NoChart} /\ forgotten' \subseteq Charts
    BY DEF DeletePerson, Regenerate, AllTyped, PageTyped, StoreTyped
  <1> QED
    BY <1>1, <1>3, <1>4, DropEffect
       DEF AllTyped, StoreTyped, HookTyped, IdsUsed, DiskTyped, PageTyped, hook, disk

\* A page load keeps the types.
LEMMA ReloadTypes ==
  ASSUME AllTyped, Reload
  PROVE  AllTyped'
  <1>1. upsets < MaxUpsets /\ upsets' = upsets + 1 /\ upsets \in 0 .. MaxUpsets /\ MaxUpsets \in Nat
    BY ReadingsAssumption DEF Reload, AllTyped, PageTyped
  <1>2. upsets' \in 0 .. MaxUpsets
    BY <1>1
  <1>3. 0 \in 0 .. clicks
    BY ReadingsAssumption DEF AllTyped, PageTyped
  <1>4. None \in [Kinds -> 0 .. clicks] /\ NoRuns \in [Charts -> [Kinds -> 0 .. clicks]]
    BY <1>3 DEF None, NoRuns
  <1> QED
    BY <1>2, <1>4, Nothing
       DEF Reload, AllTyped, StoreTyped, HookTyped, IdsUsed, DiskTyped, PageTyped

\* Readings that are loaded, the interrupted ones healed, keep the types.
LEMMA HydrateTypes ==
  ASSUME AllTyped, Hydrate
  PROVE  AllTyped'
  <1>1. \A e \in Entry : Healed(e) \in Entry
    BY Nothing DEF Healed, Entry
  <1>2. entry' \in Entries
    BY <1>1, EntriesAre DEF Hydrate, AllTyped, DiskTyped
  <1> QED
    BY <1>2 DEF Hydrate, AllTyped, StoreTyped, HookTyped, IdsUsed, DiskTyped, PageTyped, hook, count

\* Every step keeps the types.
LEMMA TypeStep ==
  ASSUME AllTyped, [Next]_vars
  PROVE  AllTyped'
  <1>1. ASSUME NEW r \in runs, Step(r) PROVE AllTyped'
    BY <1>1, BeginTypes, SectionTypes, CompleteTypes, FailTypes, StopTypes, PersistedTypes,
       AnnotateTypes DEF Step
  <1>2. ASSUME NEW c \in Charts, Turn(c) PROVE AllTyped'
    BY <1>2 DEF Turn, AllTyped, StoreTyped, HookTyped, IdsUsed, DiskTyped, PageTyped,
                store, hook, disk, count
  <1>3. CASE Flush
    BY <1>3 DEF Flush, AllTyped, StoreTyped, HookTyped, IdsUsed, DiskTyped, PageTyped,
                store, hook, count
  <1>4. CASE HoldUnreadable
    BY <1>4 DEF HoldUnreadable, AllTyped, StoreTyped, HookTyped, IdsUsed, DiskTyped, PageTyped,
                store, hook, count
  <1>5. CASE UNCHANGED vars
    BY <1>5 DEF vars, AllTyped, StoreTyped, HookTyped, IdsUsed, DiskTyped, PageTyped,
                store, hook, disk, count
  <1> QED
    BY <1>1, <1>2, <1>3, <1>4, <1>5, ClickTypes, LeaveTypes, GoneTypes, ReloadTypes, HydrateTypes
       DEF Next

\* Every value of the model has its type: the ids of runs, tokens and texts are
\* those of clicks that were made, and no two runs share one.
THEOREM ReadingsTypes == Spec => []TypeOK
  <1>1. AllTyped /\ [Next]_vars => AllTyped'
    BY TypeStep
  <1> QED
    BY <1>1, TypeInit, TypeParts, PTL DEF Spec

-----------------------------------------------------------------------------
(* The invariant is inductive. *)

\* A run that holds its token is one whose chart is not forgotten.
LEMMA AcceptsIs ==
  ASSUME AllTyped, ForgottenIsFree, NEW r \in runs
  PROVE  AcceptsRun(r) <=> active[r.chart][r.kind] = r.id
  <1>1. r.chart \in Charts /\ r.kind \in Kinds /\ r.id # 0
    BY RunParts DEF AllTyped, HookTyped
  <1>2. None[r.kind] = 0
    BY <1>1 DEF None
  <1> QED
    BY <1>1, <1>2 DEF AcceptsRun, ForgottenIsFree

\* No other run holds the token of a run that holds its own.
LEMMA TokenIsOnes ==
  ASSUME AllTyped, NEW r \in runs, NEW s \in runs, s.id # r.id,
         active[r.chart][r.kind] = r.id, active[s.chart][s.kind] = s.id
  PROVE  ~(s.chart = r.chart /\ s.kind = r.kind)
  OBVIOUS

\* A store change that asks for its snapshot leaves the row in step.
LEMMA RowFitsKept ==
  ASSUME AllTyped, RowFits, UNCHANGED disk,
         \/ WillSave
         \/ UNCHANGED unsaved /\ \A c \in Charts, k \in Kinds : entry'[c][k].text = entry[c][k].text
  PROVE  RowFits'
  BY WillSaveEffect DEF RowFits, Saves, disk

\* A reading that was shown stays while texts are only replaced by texts.
LEMMA ShownFitsKept ==
  ASSUME ShownFits, UNCHANGED disk,
         \A c \in Charts, k \in Kinds : shown'[c][k] # 0 =>
            shown[c][k] # 0 /\ (entry[c][k].text # 0 => entry'[c][k].text # 0)
  PROVE  ShownFits'
  BY DEF ShownFits, Saves, disk

\* While the row stays, so do its annotations.
LEMMA SavedNotesKept ==
  ASSUME SavedNotesMatch, UNCHANGED saved
  PROVE  SavedNotesMatch'
  BY DEF SavedNotesMatch

\* A run that begins takes the token of its chart and keeps the text until it has its own.
LEMMA BeginInv ==
  ASSUME AllTyped, ReadingsInv, NEW r \in runs, Begin(r)
  PROVE  ReadingsInv'
  <1>1. /\ r.id \in 0 .. clicks /\ r.kind \in Kinds /\ r.chart \in Charts /\ r.id # 0
        /\ EntryOf(r) \in Entry /\ EntryOf(r) = entry[r.chart][r.kind]
    BY IdInRange, RunParts, EntryTyped DEF AllTyped, HookTyped
  <1>2. /\ UNCHANGED <<disk, charts, page, shown, count>> /\ forgotten' = forgotten \ {r.chart}
        /\ r.pc = "wait" /\ guard # "pending" /\ WillSave
    BY DEF Begin
  <1>3. /\ \A c \in Charts, k \in Kinds :
             active'[c][k] = IF c = r.chart /\ k = r.kind THEN r.id ELSE active[c][k]
        /\ \A c \in Charts \ {r.chart} : active'[c] = active[c]
    <2>1. active' = [active EXCEPT ![r.chart][r.kind] = r.id]
      BY DEF Begin
    <2> QED
      BY <1>1, <2>1, CellSet DEF AllTyped, StoreTyped
  <1>4. PICK e \in Entry : /\ e.text = EntryOf(r).text /\ e.notes = EntryOf(r).notes /\ e.marks = {}
                           /\ SetEntry(r, e)
    <2>1. /\ Started(EntryOf(r)) \in Entry
          /\ Started(EntryOf(r)).text = EntryOf(r).text
          /\ Started(EntryOf(r)).notes = EntryOf(r).notes
          /\ Started(EntryOf(r)).marks = {}
      BY <1>1 DEF Started, Entry
    <2> DEFINE e == [Started(EntryOf(r)) EXCEPT !.status = "error"]
    <2>2. e \in Entry /\ e.text = EntryOf(r).text /\ e.notes = EntryOf(r).notes /\ e.marks = {}
      BY <2>1 DEF Entry
    <2>3. SetEntry(r, Started(EntryOf(r))) \/ SetEntry(r, e)
      BY DEF Begin
    <2> HIDE DEF e
    <2> QED
      BY <2>1, <2>2, <2>3
  <1>5. \A c \in Charts, k \in Kinds :
          entry'[c][k] = IF c = r.chart /\ k = r.kind THEN e ELSE entry[c][k]
    BY <1>4, SetEntryEffect
  <1>6. \A s \in runs' :
          \/ s \in runs /\ s.id # r.id
          \/ /\ s.id = r.id /\ s.kind = r.kind /\ s.chart = r.chart
             /\ s.pc = "stream" /\ ~Refused /\ r.chart \in charts
    <2>1. CASE Refused \/ r.chart \notin charts
      BY <2>1, EndEffect DEF Begin, AllTyped, HookTyped
    <2>2. CASE ~(Refused \/ r.chart \notin charts)
      BY <2>2, BecomeEffect DEF Begin
    <2> QED
      BY <2>1, <2>2
  <1>7. ForgottenIsFree'
    BY <1>2, <1>3 DEF ReadingsInv, ForgottenIsFree, AllTyped, StoreTyped
  <1>8. StartsEmpty'
    BY <1>2, <1>6 DEF ReadingsInv, StartsEmpty, Saves, Refused, AllTyped, DiskTyped, disk
  <1>9. RowFits'
    BY <1>2, RowFitsKept DEF ReadingsInv
  <1>10. ShownFits'
    BY <1>1, <1>2, <1>4, <1>5, ShownFitsKept DEF ReadingsInv
  <1>11. TokensFit'
    <2> SUFFICES ASSUME NEW s \in runs', s.pc # "wait", active'[s.chart][s.kind] = s.id
                 PROVE  /\ s.chart \in charts'
                        /\ s.pc # "stream" => entry'[s.chart][s.kind].text = s.id
      BY DEF TokensFit, EntryOf
    <2>1. CASE s \in runs /\ s.id # r.id
      <3>1. s.chart \in Charts /\ s.kind \in Kinds
        BY <2>1, RunParts DEF AllTyped, HookTyped
      <3>2. ~(s.chart = r.chart /\ s.kind = r.kind) /\ active[s.chart][s.kind] = s.id
        BY <1>3, <2>1, <3>1
      <3> QED
        BY <1>2, <1>5, <2>1, <3>1, <3>2 DEF ReadingsInv, TokensFit, EntryOf
    <2> QED
      BY <1>2, <1>6, <2>1
  <1>12. NotesMatch'
    BY <1>1, <1>3, <1>4, <1>5 DEF ReadingsInv, NotesMatch
  <1>13. SavedNotesMatch'
    BY <1>2, SavedNotesKept DEF ReadingsInv, disk
  <1> QED
    BY <1>7, <1>8, <1>9, <1>10, <1>11, <1>12, <1>13 DEF ReadingsInv

\* A step in which runs only end or go on from streaming, tokens and the row
\* stay, and at most the entry of the run that moves changes.
LEMMA AnswerInv ==
  ASSUME AllTyped, ReadingsInv, NEW r \in runs, r.pc # "wait",
         NEW e \in Entry, NEW taken \in BOOLEAN,
         UNCHANGED <<active, forgotten, disk, charts, shown>>,
         taken => AcceptsRun(r) /\ SetEntry(r, e) /\ WillSave,
         ~taken => UNCHANGED entry /\ (UNCHANGED unsaved \/ WillSave),
         e.notes \in {0, e.text},
         EntryOf(r).text # 0 => e.text # 0,
         e.status = "generating" =>
           EntryOf(r).status = "generating" /\ e.marks \subseteq EntryOf(r).marks \cup {r.id},
         taken /\ r.pc # "stream" => e.text = r.id,
         \A s \in runs' :
            \/ s \in runs /\ (s.id # r.id \/ s.pc = "stream" \/ e.text = EntryOf(r).text)
            \/ /\ s.id = r.id /\ s.kind = r.kind /\ s.chart = r.chart /\ s.pc # "wait"
               /\ AcceptsRun(r) => IF taken THEN e.text = r.id ELSE r.pc # "stream"
  PROVE  ReadingsInv'
  <1>1. /\ r.kind \in Kinds /\ r.chart \in Charts /\ r.id # 0
        /\ EntryOf(r) \in Entry /\ EntryOf(r) = entry[r.chart][r.kind]
    BY RunParts, EntryTyped DEF AllTyped, HookTyped
  <1>2. AcceptsRun(r) <=> active[r.chart][r.kind] = r.id
    BY AcceptsIs DEF ReadingsInv
  <1>3. \A c \in Charts, k \in Kinds :
          entry'[c][k] = IF taken /\ c = r.chart /\ k = r.kind THEN e ELSE entry[c][k]
    BY SetEntryEffect
  <1>4. guard # "pending" /\ Saves
    BY DEF ReadingsInv, StartsEmpty, Saves
  <1>5. ForgottenIsFree'
    BY DEF ReadingsInv, ForgottenIsFree
  <1>6. StartsEmpty'
    BY <1>4 DEF StartsEmpty, Saves, disk
  <1>7. RowFits'
    BY RowFitsKept DEF ReadingsInv
  <1>8. ShownFits'
    BY <1>1, <1>3, ShownFitsKept DEF ReadingsInv
  <1>9. TokensFit'
    <2> SUFFICES ASSUME NEW s \in runs', s.pc # "wait", active[s.chart][s.kind] = s.id
                 PROVE  /\ s.chart \in charts
                        /\ s.pc # "stream" => entry'[s.chart][s.kind].text = s.id
      BY DEF TokensFit, EntryOf
    <2>1. CASE s \in runs /\ s.id # r.id
      <3>1. s.chart \in Charts /\ s.kind \in Kinds
        BY <2>1, RunParts DEF AllTyped, HookTyped
      <3>2. taken => ~(s.chart = r.chart /\ s.kind = r.kind)
        BY <1>2, <2>1, TokenIsOnes
      <3> QED
        BY <1>3, <2>1, <3>1, <3>2 DEF ReadingsInv, TokensFit, EntryOf
    <2>2. CASE s \in runs /\ s.id = r.id /\ (s.pc = "stream" \/ e.text = EntryOf(r).text)
      BY <1>1, <1>3, <2>2 DEF ReadingsInv, TokensFit, EntryOf, AllTyped, HookTyped
    <2>3. CASE /\ s.id = r.id /\ s.kind = r.kind /\ s.chart = r.chart
               /\ AcceptsRun(r) => IF taken THEN e.text = r.id ELSE r.pc # "stream"
      BY <1>1, <1>2, <1>3, <2>3 DEF ReadingsInv, TokensFit, EntryOf
    <2> QED
      BY <2>1, <2>2, <2>3
  <1>10. NotesMatch'
    <2> SUFFICES ASSUME NEW c \in Charts, NEW k \in Kinds
                 PROVE  /\ entry'[c][k].notes \in {0, entry'[c][k].text}
                        /\ entry'[c][k].status = "generating" => entry'[c][k].marks \subseteq {active[c][k]}
      BY DEF NotesMatch
    <2> QED
      BY <1>1, <1>2, <1>3 DEF ReadingsInv, NotesMatch
  <1>11. SavedNotesMatch'
    BY SavedNotesKept DEF ReadingsInv, disk
  <1> QED
    BY <1>5, <1>6, <1>7, <1>8, <1>9, <1>10, <1>11 DEF ReadingsInv

\* After a run has ended only other runs are left.
LEMMA EndLeavesOthers ==
  ASSUME AllTyped, NEW r \in runs, End(r)
  PROVE  \A s \in runs' : s \in runs /\ s.id # r.id
  BY EndEffect DEF AllTyped, HookTyped

\* A section marks the reading of the run that holds the token, and changes no text.
LEMMA SectionInv ==
  ASSUME AllTyped, ReadingsInv, NEW r \in runs, Section(r)
  PROVE  ReadingsInv'
  <1> DEFINE e == [EntryOf(r) EXCEPT !.marks = @ \cup {r.id}]
  <1>1. EntryOf(r) \in Entry /\ r.id \in 1 .. MaxClicks /\ r.chart \in Charts /\ r.kind \in Kinds
    BY EntryTyped, IdInRange, RunParts DEF AllTyped, HookTyped
  <1>2. /\ e \in Entry /\ e.text = EntryOf(r).text /\ e.notes = EntryOf(r).notes
        /\ e.status = EntryOf(r).status /\ e.marks = EntryOf(r).marks \cup {r.id}
    BY <1>1 DEF Entry
  <1>3. EntryOf(r).notes \in {0, EntryOf(r).text}
    BY <1>1 DEF ReadingsInv, NotesMatch, EntryOf
  <1>4. /\ r.pc = "stream" /\ AcceptsRun(r) /\ SetEntry(r, e) /\ WillSave /\ runs' = runs
        /\ UNCHANGED <<active, forgotten, disk, charts, shown>>
    BY DEF Section, hook
  <1>5. \A s \in runs' : s \in runs /\ (s.id # r.id \/ s.pc = "stream" \/ e.text = EntryOf(r).text)
    BY <1>2, <1>4
  <1> HIDE DEF e
  <1>6. \E taken \in BOOLEAN : taken
    OBVIOUS
  <1> QED
    BY <1>2, <1>3, <1>4, <1>5, <1>6, AnswerInv

\* A completed run has its own text in the store, if it still holds the token.
LEMMA CompleteInv ==
  ASSUME AllTyped, ReadingsInv, NEW r \in runs, Complete(r)
  PROVE  ReadingsInv'
  <1> DEFINE e == [EntryOf(r) EXCEPT !.status = "complete", !.text = r.id, !.notes = 0]
  <1>1. /\ EntryOf(r) \in Entry /\ r.id \in 0 .. MaxClicks /\ r.id # 0
        /\ 0 \in 0 .. MaxClicks
    BY EntryTyped, RunParts, ReadingsAssumption DEF AllTyped, HookTyped
  <1>2. e \in Entry /\ e.text = r.id /\ e.notes = 0 /\ e.status = "complete"
    BY <1>1 DEF Entry
  <1>3. /\ r.pc = "stream" /\ WillSave /\ Become(r, "persist")
        /\ IF AcceptsRun(r) THEN SetEntry(r, e) ELSE UNCHANGED entry
        /\ UNCHANGED <<active, forgotten, disk, charts, shown>>
    BY DEF Complete
  <1> HIDE DEF e
  <1> DEFINE taken == AcceptsRun(r)
  <1>4. taken \in BOOLEAN
    BY DEF AcceptsRun
  <1>5. \A s \in runs' :
           \/ s \in runs /\ s.id # r.id
           \/ s.id = r.id /\ s.kind = r.kind /\ s.chart = r.chart /\ s.pc = "persist"
    BY <1>3, BecomeEffect
  <1>6. /\ taken => AcceptsRun(r) /\ SetEntry(r, e) /\ WillSave
        /\ ~taken => UNCHANGED entry /\ WillSave
        /\ \A s \in runs' :
            \/ s \in runs /\ s.id # r.id
            \/ /\ s.id = r.id /\ s.kind = r.kind /\ s.chart = r.chart /\ s.pc # "wait"
               /\ AcceptsRun(r) => IF taken THEN e.text = r.id ELSE r.pc # "stream"
    BY <1>2, <1>3, <1>5
  <1> HIDE DEF taken
  <1> QED
    BY <1>1, <1>2, <1>3, <1>4, <1>6, AnswerInv

\* A failed run changes the status of its reading and keeps its text.
LEMMA FailInv ==
  ASSUME AllTyped, ReadingsInv, NEW r \in runs, Fail(r)
  PROVE  ReadingsInv'
  <1> DEFINE e == [EntryOf(r) EXCEPT !.status = "error"]
  <1>1. EntryOf(r) \in Entry /\ r.chart \in Charts /\ r.kind \in Kinds
    BY EntryTyped, RunParts DEF AllTyped, HookTyped
  <1>2. /\ e \in Entry /\ e.text = EntryOf(r).text /\ e.notes = EntryOf(r).notes
        /\ e.status = "error"
    BY <1>1 DEF Entry
  <1>3. EntryOf(r).notes \in {0, EntryOf(r).text}
    BY <1>1 DEF ReadingsInv, NotesMatch, EntryOf
  <1>4. /\ r.pc = "stream" /\ End(r)
        /\ IF AcceptsRun(r) THEN SetEntry(r, e) /\ WillSave ELSE UNCHANGED <<entry, unsaved>>
        /\ UNCHANGED <<active, forgotten, disk, charts, shown>>
    BY DEF Fail
  <1> HIDE DEF e
  <1> DEFINE taken == AcceptsRun(r)
  <1>5. taken \in BOOLEAN
    BY DEF AcceptsRun
  <1>6. /\ taken => AcceptsRun(r) /\ SetEntry(r, e) /\ WillSave
        /\ ~taken => UNCHANGED entry /\ UNCHANGED unsaved
        /\ \A s \in runs' : s \in runs /\ s.id # r.id
    BY <1>4, EndLeavesOthers
  <1> HIDE DEF taken
  <1> QED
    BY <1>2, <1>3, <1>4, <1>5, <1>6, AnswerInv

\* An aborted run leaves the store alone.
LEMMA StopInv ==
  ASSUME AllTyped, ReadingsInv, NEW r \in runs, Stop(r)
  PROVE  ReadingsInv'
  <1>1. EntryOf(r) \in Entry /\ r.chart \in Charts /\ r.kind \in Kinds
    BY EntryTyped, RunParts DEF AllTyped, HookTyped
  <1>2. EntryOf(r).notes \in {0, EntryOf(r).text}
    BY <1>1 DEF ReadingsInv, NotesMatch, EntryOf
  <1>3. /\ r.pc = "stream" /\ \A s \in runs' : s \in runs /\ s.id # r.id
        /\ UNCHANGED entry /\ UNCHANGED unsaved
        /\ UNCHANGED <<active, forgotten, disk, charts, shown>>
    BY EndLeavesOthers DEF Stop, store
  <1>4. \E taken \in BOOLEAN : ~taken
    OBVIOUS
  <1> QED
    BY <1>1, <1>2, <1>3, <1>4, AnswerInv

\* Annotations land on the text of their own run or nowhere.
LEMMA AnnotateInv ==
  ASSUME AllTyped, ReadingsInv, NEW r \in runs, Annotate(r)
  PROVE  ReadingsInv'
  <1>1. /\ EntryOf(r) \in Entry /\ r.chart \in Charts /\ r.kind \in Kinds
        /\ r.id \in 0 .. MaxClicks
    BY EntryTyped, RunParts DEF AllTyped, HookTyped
  <1>2. EntryOf(r).notes \in {0, EntryOf(r).text}
    BY <1>1 DEF ReadingsInv, NotesMatch, EntryOf
  <1>3. /\ r.pc = "notes" /\ \A s \in runs' : s \in runs /\ s.id # r.id
        /\ UNCHANGED <<active, forgotten, disk, charts, shown>>
    BY EndLeavesOthers DEF Annotate
  <1>4. CASE ~r.aborted /\ AcceptsRun(r) /\ SetEntry(r, [EntryOf(r) EXCEPT !.notes = r.id]) /\ WillSave
    <2> DEFINE e == [EntryOf(r) EXCEPT !.notes = r.id]
    <2>1. /\ e \in Entry /\ e.text = EntryOf(r).text /\ e.notes = r.id
          /\ e.status = EntryOf(r).status /\ e.marks = EntryOf(r).marks
      BY <1>1 DEF Entry
    <2>2. EntryOf(r).text = r.id
      BY <1>3, <1>4, AcceptsIs DEF ReadingsInv, TokensFit
    <2>3. SetEntry(r, e)
      BY <1>4
    <2> HIDE DEF e
    <2>4. \E taken \in BOOLEAN : taken
      OBVIOUS
    <2> QED
      BY <1>3, <1>4, <2>1, <2>2, <2>3, <2>4, AnswerInv
  <1>5. CASE UNCHANGED <<entry, unsaved>>
    <2>1. \E taken \in BOOLEAN : ~taken
      OBVIOUS
    <2> QED
      BY <1>1, <1>2, <1>3, <1>5, <2>1, AnswerInv
  <1> QED
    BY <1>4, <1>5 DEF Annotate

\* The reading that is shown is the one whose snapshot has just been saved.
LEMMA PersistedInv ==
  ASSUME AllTyped, ReadingsInv, NEW r \in runs, Persisted(r)
  PROVE  ReadingsInv'
  <1>1. /\ r.pc = "persist" /\ ~unsaved /\ Saves
        /\ UNCHANGED <<store, controller, disk, charts, page, unsaved, count>>
    BY DEF Persisted, Durable, ReadingsInv, StartsEmpty
  <1>2. /\ r.kind \in Kinds /\ r.chart \in Charts /\ r.id # 0 /\ r.id \in 0 .. clicks
        /\ EntryOf(r) = entry[r.chart][r.kind]
    BY RunParts, EntryTyped, IdInRange DEF AllTyped, HookTyped
  <1>3. \A s \in runs' :
          \/ s \in runs /\ s.id # r.id
          \/ s.id = r.id /\ s.kind = r.kind /\ s.chart = r.chart /\ s.pc = "notes"
    <2>1. CASE r.kind = "natal" /\ ~r.aborted
      BY <2>1, BecomeEffect DEF Persisted
    <2>2. CASE ~(r.kind = "natal" /\ ~r.aborted)
      BY <2>2, EndLeavesOthers DEF Persisted
    <2> QED
      BY <2>1, <2>2
  <1>4. ForgottenIsFree'
    BY <1>1 DEF ReadingsInv, ForgottenIsFree, store
  <1>5. StartsEmpty'
    BY <1>1 DEF ReadingsInv, StartsEmpty, Saves, store, disk
  <1>6. RowFits'
    BY <1>1, RowFitsKept DEF ReadingsInv, store
  <1>7. ShownFits'
    <2>1. \A c \in Charts, k \in Kinds :
            shown'[c][k] # 0 => \/ shown[c][k] # 0
                                \/ entry[c][k].text # 0
      <3>1. CASE EntryOf(r).text = r.id
        <4>1. shown' = [shown EXCEPT ![r.chart][r.kind] = r.id]
          BY <3>1 DEF Persisted
        <4> QED
          BY <1>2, <3>1, <4>1, CellSet DEF AllTyped, StoreTyped
      <3>2. CASE EntryOf(r).text # r.id
        BY <3>2 DEF Persisted
      <3> QED
        BY <3>1, <3>2
    <2> QED
      BY <1>1, <2>1 DEF ReadingsInv, ShownFits, RowFits, Saves, disk, store
  <1>8. TokensFit'
    BY <1>1, <1>2, <1>3 DEF ReadingsInv, TokensFit, EntryOf, store
  <1>9. NotesMatch'
    BY <1>1 DEF ReadingsInv, NotesMatch, store
  <1>10. SavedNotesMatch'
    BY <1>1, SavedNotesKept DEF ReadingsInv, disk
  <1> QED
    BY <1>4, <1>5, <1>6, <1>7, <1>8, <1>9, <1>10 DEF ReadingsInv

\* Runs that begin to wait, and another page, change nothing of the rest.
LEMMA ClickInv ==
  ASSUME AllTyped, ReadingsInv, NEW k \in Kinds, Click(k)
  PROVE  ReadingsInv'
  <1>1. UNCHANGED <<store, disk, charts, unsaved, shown>>
    BY DEF Click
  <1>2. \A s \in runs' :
          s.pc = "wait" \/ \E r \in runs : /\ s.id = r.id /\ s.kind = r.kind
                                           /\ s.chart = r.chart /\ s.pc = r.pc
    BY ClickEffect
  <1>3. StartsEmpty'
    BY <1>1, <1>2 DEF ReadingsInv, StartsEmpty, Saves, store, disk
  <1>4. TokensFit'
    BY <1>1, <1>2 DEF ReadingsInv, TokensFit, EntryOf, store
  <1> QED
    BY <1>1, <1>3, <1>4
       DEF ReadingsInv, ForgottenIsFree, RowFits, Saves, ShownFits, NotesMatch, SavedNotesMatch,
           store, disk

\* What changes neither store, row, charts nor runs keeps the invariant.
LEMMA StillInv ==
  ASSUME ReadingsInv, UNCHANGED <<store, disk, charts, unsaved, shown, runs>>
  PROVE  ReadingsInv'
  BY DEF ReadingsInv, ForgottenIsFree, StartsEmpty, RowFits, Saves, ShownFits, TokensFit, EntryOf,
         NotesMatch, SavedNotesMatch, store, disk

\* A timeline that is abandoned gives its token back and keeps the text it had.
LEMMA LeaveInv ==
  ASSUME AllTyped, ReadingsInv, Leave
  PROVE  ReadingsInv'
  <1> DEFINE streaming == {r \in runs : r.kind = "timeline" /\ r.pc \in {"stream", "persist"}
                                          /\ r.id = flight["timeline"]}
             given == {r \in streaming : AcceptsRun(r)}
             gives(c, k) == \E r \in given : r.chart = c /\ r.kind = k
             left(r) == [r EXCEPT !.left = TRUE, !.aborted = @ \/ r \in streaming]
  <1>1. /\ runs' = {left(r) : r \in runs}
        /\ active' = [c \in Charts |-> [k \in Kinds |-> IF gives(c, k) THEN 0 ELSE active[c][k]]]
        /\ entry' = [c \in Charts |-> [k \in Kinds |->
                       IF entry[c][k].status = "generating" /\ gives(c, k)
                       THEN Abandoned(entry[c][k]) ELSE entry[c][k]]]
        /\ WillSave
        /\ UNCHANGED <<forgotten, disk, charts, shown>>
    BY DEF Leave
  <1>2. \A s \in runs' : \E r \in runs : /\ s.id = r.id /\ s.kind = r.kind
                                         /\ s.chart = r.chart /\ s.pc = r.pc
    <2>1. \A r \in runs : /\ left(r).id = r.id /\ left(r).kind = r.kind
                          /\ left(r).chart = r.chart /\ left(r).pc = r.pc
      BY DEF AllTyped, HookTyped, Runs
    <2> HIDE DEF left
    <2> QED
      BY <1>1, <2>1
  <1>3. \A c \in Charts, k \in Kinds : gives(c, k) => Saves
    BY DEF ReadingsInv, StartsEmpty
  <1> HIDE DEF gives, left
  <1>4. \A c \in Charts, k \in Kinds : entry[c][k] \in Entry
    BY EntriesAre DEF AllTyped, StoreTyped
  <1>5. \A e \in Entry : /\ Abandoned(e).text = e.text
                         /\ Abandoned(e).status # "generating"
                         /\ Abandoned(e).notes \in {0, e.notes}
    BY DEF Abandoned, Empty, Entry
  <1>6. \A c \in Charts, k \in Kinds :
          /\ entry'[c][k] = IF entry[c][k].status = "generating" /\ gives(c, k)
                            THEN Abandoned(entry[c][k]) ELSE entry[c][k]
          /\ active'[c][k] = IF gives(c, k) THEN 0 ELSE active[c][k]
          /\ entry'[c][k].text = entry[c][k].text
    BY <1>1, <1>4, <1>5
  <1>7. ForgottenIsFree'
    <2> SUFFICES ASSUME NEW c \in forgotten PROVE active'[c] = None
      BY <1>1 DEF ForgottenIsFree
    <2>1. c \in Charts /\ active[c] = [k \in Kinds |-> 0]
      BY DEF ReadingsInv, ForgottenIsFree, AllTyped, StoreTyped, None
    <2> QED
      BY <1>1, <2>1 DEF None
  <1>8. StartsEmpty'
    <2>1. guard = "pending" => entry' = entry
      <3>1. entry \in [Charts -> [Kinds -> Entry]]
        BY EntriesAre DEF AllTyped, StoreTyped
      <3>2. ASSUME guard = "pending" PROVE \A c \in Charts, k \in Kinds : ~gives(c, k)
        BY <1>3, <3>2 DEF Saves
      <3> QED
        BY <1>1, <3>1, <3>2
    <2> QED
      BY <1>1, <1>2, <2>1 DEF ReadingsInv, StartsEmpty, Saves, disk
  <1>9. RowFits'
    BY <1>1, RowFitsKept DEF ReadingsInv
  <1>10. ShownFits'
    BY <1>1, <1>6, ShownFitsKept DEF ReadingsInv
  <1>11. TokensFit'
    <2> SUFFICES ASSUME NEW s \in runs', s.pc # "wait", active'[s.chart][s.kind] = s.id
                 PROVE  /\ s.chart \in charts'
                        /\ s.pc # "stream" => entry'[s.chart][s.kind].text = s.id
      BY DEF TokensFit, EntryOf
    <2>1. PICK r \in runs : /\ s.id = r.id /\ s.kind = r.kind /\ s.chart = r.chart /\ s.pc = r.pc
      BY <1>2
    <2>2. r.chart \in Charts /\ r.kind \in Kinds /\ r.id # 0
      BY RunParts DEF AllTyped, HookTyped
    <2>3. active[r.chart][r.kind] = r.id /\ r.pc # "wait"
      BY <1>6, <2>1, <2>2
    <2>4. r.chart \in charts /\ (r.pc # "stream" => entry[r.chart][r.kind].text = r.id)
      BY <2>3 DEF ReadingsInv, TokensFit, EntryOf
    <2> QED
      BY <1>1, <1>6, <2>1, <2>2, <2>4
  <1>12. NotesMatch'
    <2> SUFFICES ASSUME NEW c \in Charts, NEW k \in Kinds
                 PROVE  /\ entry'[c][k].notes \in {0, entry'[c][k].text}
                        /\ entry'[c][k].status = "generating" => entry'[c][k].marks \subseteq {active'[c][k]}
      BY DEF NotesMatch
    <2> QED
      BY <1>4, <1>5, <1>6 DEF ReadingsInv, NotesMatch
  <1>13. SavedNotesMatch'
    BY <1>1, SavedNotesKept DEF ReadingsInv, disk
  <1> QED
    BY <1>7, <1>8, <1>9, <1>10, <1>11, <1>12, <1>13 DEF ReadingsInv

\* A chart that goes takes its reading, its tokens and what was shown of it.
LEMMA GoneInv ==
  ASSUME AllTyped, ReadingsInv, NEW c \in Charts,
         DeletePerson(c) \/ \E d \in Charts : Regenerate(c, d)
  PROVE  ReadingsInv'
  <1>1. /\ Drop(c) /\ WillSave /\ UNCHANGED <<hook, disk>> /\ guard # "pending"
        /\ forgotten' \subseteq forgotten \cup {c} /\ charts \ {c} \subseteq charts'
    BY DEF DeletePerson, Regenerate, Drop
  <1>2. /\ \A d \in Charts, k \in Kinds :
              /\ entry'[d][k] = IF d = c THEN Empty ELSE entry[d][k]
              /\ active'[d][k] = IF d = c THEN 0 ELSE active[d][k]
              /\ shown'[d][k] = IF d = c THEN 0 ELSE shown[d][k]
        /\ active'[c] = None
        /\ \A d \in Charts \ {c} : active'[d] = active[d]
    BY <1>1, DropEffect
  <1>3. ForgottenIsFree'
    BY <1>1, <1>2 DEF ReadingsInv, ForgottenIsFree, AllTyped, StoreTyped
  <1>4. StartsEmpty'
    BY <1>1 DEF ReadingsInv, StartsEmpty, Saves, hook, disk
  <1>5. RowFits'
    BY <1>1, RowFitsKept DEF ReadingsInv
  <1>6. ShownFits'
    BY <1>1, <1>2, ShownFitsKept DEF ReadingsInv
  <1>7. TokensFit'
    <2> SUFFICES ASSUME NEW s \in runs, s.pc # "wait", active'[s.chart][s.kind] = s.id
                 PROVE  /\ s.chart \in charts'
                        /\ s.pc # "stream" => entry'[s.chart][s.kind].text = s.id
      BY <1>1 DEF TokensFit, EntryOf, hook
    <2>1. s.chart \in Charts /\ s.kind \in Kinds /\ s.id # 0
      BY RunParts DEF AllTyped, HookTyped
    <2>2. s.chart # c /\ active[s.chart][s.kind] = s.id
      BY <1>2, <2>1
    <2> QED
      BY <1>1, <1>2, <2>1, <2>2 DEF ReadingsInv, TokensFit, EntryOf
  <1>8. NotesMatch'
    BY <1>2 DEF ReadingsInv, NotesMatch, Empty
  <1>9. SavedNotesMatch'
    BY <1>1, SavedNotesKept DEF ReadingsInv, disk
  <1> QED
    BY <1>3, <1>4, <1>5, <1>6, <1>7, <1>8, <1>9 DEF ReadingsInv

\* The snapshot carries what was shown into the row.
LEMMA FlushInv ==
  ASSUME AllTyped, ReadingsInv, Flush
  PROVE  ReadingsInv'
  <1>1. /\ saved' = [readable |-> TRUE, entries |-> entry] /\ ~unsaved' /\ Saves
        /\ UNCHANGED <<store, hook, charts, guard, quarantine, shown>>
    BY DEF Flush, ReadingsInv, RowFits
  <1>2. saved'.readable = TRUE /\ saved'.entries = entry
    BY <1>1
  <1>3. RowFits'
    BY <1>1, <1>2 DEF ReadingsInv, RowFits, Saves, store
  <1>4. ShownFits'
    BY <1>1, <1>2 DEF ReadingsInv, ShownFits, Saves, store
  <1>5. SavedNotesMatch'
    BY <1>2 DEF ReadingsInv, SavedNotesMatch, NotesMatch
  <1> QED
    BY <1>1, <1>3, <1>4, <1>5
       DEF ReadingsInv, ForgottenIsFree, StartsEmpty, Saves, TokensFit, EntryOf, NotesMatch,
           store, hook

\* An empty store matches anything.
LEMMA EmptyMatches ==
  \A c \in Charts, k \in Kinds :
    NoEntries[c][k].text = 0 /\ NoEntries[c][k].notes = 0 /\ NoEntries[c][k].status = "idle"
  BY DEF NoEntries, Empty

\* A page load leaves an empty store that nothing may save before the row is read.
LEMMA ReloadInv ==
  ASSUME AllTyped, ReadingsInv, Reload
  PROVE  ReadingsInv'
  <1>1. /\ entry' = NoEntries /\ active' = NoRuns /\ forgotten' = {} /\ runs' = {}
        /\ guard' = "pending" /\ unsaved' = FALSE
        /\ UNCHANGED <<charts, saved, quarantine, shown>>
    BY DEF Reload
  <1>2. RowFits'
    BY <1>1 DEF ReadingsInv, RowFits, Saves
  <1>3. ShownFits'
    BY <1>1 DEF ReadingsInv, ShownFits, Saves
  <1>4. NotesMatch'
    BY <1>1, EmptyMatches DEF NotesMatch
  <1> QED
    BY <1>1, <1>2, <1>3, <1>4, SavedNotesKept
       DEF ReadingsInv, ForgottenIsFree, StartsEmpty, TokensFit

\* What is loaded has the texts that were saved, and nothing generates.
LEMMA HydrateInv ==
  ASSUME AllTyped, ReadingsInv, Hydrate
  PROVE  ReadingsInv'
  <1>1. /\ guard = "pending" /\ saved.readable /\ guard' = "none"
        /\ entry' = [c \in Charts |-> [k \in Kinds |-> Healed(saved.entries[c][k])]]
        /\ UNCHANGED <<active, forgotten, hook, saved, quarantine, charts, unsaved, shown>>
    BY DEF Hydrate
  <1>2. \A e \in Entry : /\ Healed(e).text = e.text /\ Healed(e).status # "generating"
                         /\ Healed(e).notes \in {0, e.notes}
    BY DEF Healed, Empty, Entry
  <1>3. \A c \in Charts, k \in Kinds :
          /\ entry'[c][k].text = saved.entries[c][k].text
          /\ entry'[c][k].status # "generating"
          /\ entry'[c][k].notes \in {0, saved.entries[c][k].notes}
    <2>1. \A c \in Charts, k \in Kinds :
            saved.entries[c][k] \in Entry /\ entry'[c][k] = Healed(saved.entries[c][k])
      BY <1>1, EntriesAre DEF AllTyped, DiskTyped
    <2> QED
      BY <1>2, <2>1
  <1>4. ~unsaved /\ \A r \in runs : r.pc = "wait"
    BY <1>1 DEF ReadingsInv, RowFits, StartsEmpty, Saves
  <1>5. RowFits'
    BY <1>1, <1>3, <1>4 DEF RowFits, Saves
  <1>6. ShownFits'
    BY <1>1, <1>3 DEF ReadingsInv, ShownFits
  <1>7. NotesMatch'
    BY <1>3 DEF ReadingsInv, NotesMatch, SavedNotesMatch
  <1> QED
    BY <1>1, <1>4, <1>5, <1>6, <1>7, SavedNotesKept
       DEF ReadingsInv, ForgottenIsFree, StartsEmpty, Saves, TokensFit, hook

\* Nothing of an unreadable row was ever shown.
LEMMA HoldUnreadableInv ==
  ASSUME AllTyped, ReadingsInv, HoldUnreadable
  PROVE  ReadingsInv'
  <1>1. /\ guard = "pending" /\ ~saved.readable
        /\ \/ guard' = "held" /\ quarantine'
           \/ guard' = "failed" /\ UNCHANGED quarantine
        /\ UNCHANGED <<store, hook, saved, charts, unsaved, shown>>
    BY DEF HoldUnreadable
  <1>2. /\ entry = NoEntries /\ saved.entries = NoEntries /\ ~unsaved
        /\ \A r \in runs : r.pc = "wait"
    BY <1>1 DEF ReadingsInv, RowFits, StartsEmpty, Saves
  <1>3. RowFits'
    BY <1>1, <1>2 DEF RowFits, Saves, store
  <1>4. ShownFits'
    BY <1>1, <1>2, EmptyMatches DEF ReadingsInv, ShownFits
  <1> QED
    BY <1>1, <1>2, <1>3, <1>4, SavedNotesKept
       DEF ReadingsInv, ForgottenIsFree, StartsEmpty, Saves, TokensFit, NotesMatch, store, hook

\* A page that starts has the invariant.
LEMMA ReadingsInvInit == Init => ReadingsInv
  <1> SUFFICES ASSUME Init PROVE ReadingsInv
    OBVIOUS
  <1>1. saved.entries = NoEntries /\ entry = NoEntries /\ guard = "pending" /\ ~unsaved
        /\ runs = {} /\ forgotten = {}
    BY DEF Init
  <1>2. \A c \in Charts, k \in Kinds : shown[c][k] = 0
    BY DEF Init, NoRuns
  <1> QED
    BY <1>1, <1>2, EmptyMatches
       DEF ReadingsInv, ForgottenIsFree, StartsEmpty, RowFits, Saves, ShownFits, TokensFit,
           NotesMatch, SavedNotesMatch

\* Every step keeps the invariant.
LEMMA ReadingsInvStep ==
  ASSUME AllTyped, ReadingsInv, [Next]_vars
  PROVE  ReadingsInv'
  <1>1. ASSUME NEW r \in runs, Step(r) PROVE ReadingsInv'
    BY <1>1, BeginInv, SectionInv, CompleteInv, FailInv, StopInv, PersistedInv, AnnotateInv DEF Step
  <1>2. ASSUME NEW c \in Charts, Turn(c) PROVE ReadingsInv'
    BY <1>2, StillInv DEF Turn, hook
  <1>3. CASE UNCHANGED vars
    BY <1>3, StillInv DEF vars, store, disk
  <1> QED
    BY <1>1, <1>2, <1>3, ClickInv, LeaveInv, GoneInv, FlushInv, ReloadInv, HydrateInv,
       HoldUnreadableInv DEF Next

\* The types and the invariant hold throughout.
LEMMA ReadingsInvHolds == Spec => [](AllTyped /\ ReadingsInv)
  <1>1. Init => AllTyped /\ ReadingsInv
    BY TypeInit, ReadingsInvInit
  <1>2. AllTyped /\ ReadingsInv /\ [Next]_vars => AllTyped' /\ ReadingsInv'
    BY TypeStep, ReadingsInvStep
  <1> QED
    BY <1>1, <1>2, PTL DEF Spec

-----------------------------------------------------------------------------
(* What the invariant gives. *)

\* A reading the user was shown is in SQLite as long as its chart is: a reload at
\* any moment, a newer run, an abandoned one and a failing one included.
THEOREM WhatIsShownIsSaved == Spec => []ShownIsSaved
  <1>1. AllTyped /\ ReadingsInv => ShownIsSaved
    BY DEF ReadingsInv, ShownFits, ShownIsSaved, AllTyped, PageTyped
  <1> QED
    BY <1>1, ReadingsInvHolds, PTL

\* A row that cannot be read is overwritten only after it was held aside.
THEOREM UnreadableIsKept == Spec => UnreadableKept
  <1>1. AllTyped /\ ReadingsInv /\ [Next]_vars
          => [~saved.readable /\ saved'.readable => quarantine]_vars
    <2> SUFFICES ASSUME AllTyped, ReadingsInv, [Next]_vars, ~saved.readable, saved'.readable
                 PROVE  quarantine
      OBVIOUS
    <2>1. Flush \/ UNCHANGED saved
      BY DEF Next, Step, Begin, Section, Complete, Fail, Stop, Persisted, Annotate, Click, Turn,
             DeletePerson, Regenerate, Leave, Reload, Hydrate, HoldUnreadable, vars, disk
    <2>2. Flush
      BY <2>1
    <2> QED
      BY <2>2 DEF Flush, ReadingsInv, RowFits, Saves
  <1> QED
    BY <1>1, ReadingsInvHolds, PTL DEF Spec, UnreadableKept

\* Leaving the page takes no text away and adds none.
LEMMA LeaveTexts ==
  ASSUME AllTyped, Leave
  PROVE  \A c \in Charts, k \in Kinds : entry'[c][k].text = entry[c][k].text
  <1>1. \A e \in Entry : Abandoned(e).text = e.text
    BY DEF Abandoned, Empty, Entry
  <1>2. \A c \in Charts, k \in Kinds : entry[c][k] \in Entry
    BY EntriesAre DEF AllTyped, StoreTyped
  <1>3. \A c \in Charts, k \in Kinds :
          entry'[c][k] = entry[c][k] \/ entry'[c][k] = Abandoned(entry[c][k])
    BY DEF Leave
  <1> QED
    BY <1>1, <1>2, <1>3

\* What a run writes is a text only where its chart still is.
LEMMA RunWrites ==
  ASSUME AllTyped, ReadingsInv, NEW r \in runs, Step(r)
  PROVE  \/ UNCHANGED entry
         \/ \E e \in Entry : SetEntry(r, e) /\ (e.text = EntryOf(r).text \/ r.chart \in charts)
  <1>1. EntryOf(r) \in Entry /\ r.id \in 1 .. MaxClicks /\ r.id \in 0 .. MaxClicks /\ 0 \in 0 .. MaxClicks
    BY EntryTyped, RunParts, ReadingsAssumption DEF AllTyped, HookTyped
  <1>2. CASE Begin(r)
    <2> DEFINE s == Started(EntryOf(r))
               e == [s EXCEPT !.status = "error"]
    <2>1. s \in Entry /\ s.text = EntryOf(r).text
      BY <1>1 DEF Started, Entry
    <2>2. SetEntry(r, s) \/ SetEntry(r, e)
      BY <1>2 DEF Begin
    <2> HIDE DEF s
    <2>3. e \in Entry /\ e.text = EntryOf(r).text
      BY <2>1 DEF Entry
    <2> HIDE DEF e
    <2> QED
      BY <2>1, <2>2, <2>3
  <1>3. CASE Section(r)
    <2> DEFINE e == [EntryOf(r) EXCEPT !.marks = @ \cup {r.id}]
    <2>1. e \in Entry /\ e.text = EntryOf(r).text /\ SetEntry(r, e)
      BY <1>1, <1>3 DEF Entry, Section
    <2> HIDE DEF e
    <2> QED
      BY <2>1
  <1>4. CASE Complete(r)
    <2> DEFINE e == [EntryOf(r) EXCEPT !.status = "complete", !.text = r.id, !.notes = 0]
    <2>1. e \in Entry /\ (AcceptsRun(r) => SetEntry(r, e)) /\ (~AcceptsRun(r) => UNCHANGED entry)
      BY <1>1, <1>4 DEF Entry, Complete
    <2>2. AcceptsRun(r) => r.chart \in charts
      BY <1>4, AcceptsIs DEF Complete, ReadingsInv, TokensFit
    <2> HIDE DEF e
    <2> QED
      BY <2>1, <2>2
  <1>5. CASE Fail(r)
    <2> DEFINE e == [EntryOf(r) EXCEPT !.status = "error"]
    <2>1. e \in Entry /\ e.text = EntryOf(r).text /\ (SetEntry(r, e) \/ UNCHANGED entry)
      BY <1>1, <1>5 DEF Entry, Fail
    <2> HIDE DEF e
    <2> QED
      BY <2>1
  <1>6. CASE Annotate(r)
    <2> DEFINE e == [EntryOf(r) EXCEPT !.notes = r.id]
    <2>1. e \in Entry /\ e.text = EntryOf(r).text /\ (SetEntry(r, e) \/ UNCHANGED entry)
      BY <1>1, <1>6 DEF Entry, Annotate
    <2> HIDE DEF e
    <2> QED
      BY <2>1
  <1> QED
    BY <1>2, <1>3, <1>4, <1>5, <1>6 DEF Step, Stop, Persisted, store

\* A chart that is gone and has no text gets none.
LEMMA NoLateText ==
  ASSUME AllTyped, ReadingsInv, [Next]_vars, NEW c \in Charts \ charts, NEW k \in Kinds,
         guard # "pending", entry[c][k].text = 0
  PROVE  entry'[c][k].text = 0
  <1>1. ASSUME NEW r \in runs, Step(r) PROVE entry'[c][k].text = 0
    <2>1. ASSUME NEW e \in Entry, SetEntry(r, e), e.text = EntryOf(r).text \/ r.chart \in charts
          PROVE  entry'[c][k].text = 0
      BY <2>1, SetEntryEffect, EntryTyped
    <2> QED
      BY <1>1, <2>1, RunWrites
  <1>2. ASSUME NEW d \in Charts, DeletePerson(d) \/ \E f \in Charts : Regenerate(d, f)
        PROVE  entry'[c][k].text = 0
    <2>1. Drop(d)
      BY <1>2 DEF DeletePerson, Regenerate
    <2> QED
      BY <2>1, DropEffect DEF Empty
  <1>3. CASE Leave
    BY <1>3, LeaveTexts
  <1>4. CASE Reload
    BY <1>4, EmptyMatches DEF Reload
  <1>5. ASSUME UNCHANGED entry PROVE entry'[c][k].text = 0
    BY <1>5
  <1> QED
    BY <1>1, <1>2, <1>3, <1>4, <1>5
       DEF Next, Click, Turn, Flush, Hydrate, HoldUnreadable, store, vars

\* No step gives a chart that is gone a reading, and none leaves annotations
\* beside a text they were not written for or sections of another run.
THEOREM LateResultsAreRefused == Spec => NoLateResult
  <1>1. ASSUME AllTyped, ReadingsInv, [Next]_vars, NEW c \in Charts \ charts, NEW k \in Kinds,
               guard # "pending", entry[c][k].text = 0
        PROVE  entry'[c][k].text = 0
    BY <1>1, NoLateText
  <1>2. AllTyped /\ ReadingsInv /\ (AllTyped /\ ReadingsInv)' /\ [Next]_vars
          => [/\ NotesMatch'
              /\ \A c \in Charts \ charts, k \in Kinds :
                   guard # "pending" /\ entry[c][k].text = 0 => entry'[c][k].text = 0]_vars
    BY <1>1 DEF ReadingsInv
  <1> QED
    BY <1>2, ReadingsInvHolds, PTL DEF Spec, NoLateResult
=============================================================================
