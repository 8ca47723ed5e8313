------------------------------ MODULE Readings ------------------------------
(***************************************************************************)
(* Paid AI readings of one tab: the interpretation store                    *)
(* (store/interpretation.ts), the hook that streams into it                 *)
(* (useStreamingInterpretation.ts, useSingleFlight.ts) and the chart        *)
(* regeneration and deletions that take a chart away (regenerate.ts).  A    *)
(* natal reading and a current timeline are two kinds of one protocol.  The *)
(* provider is external: it delivers sections, then a text or an error.     *)
(***************************************************************************)
EXTENDS Naturals

CONSTANTS Charts,     \* chart ids
          Library,    \* the charts stored at first
          NoChart,
          MaxClicks,  \* bound: readings asked for
          MaxUpsets   \* bound: page loads, and charts replaced or deleted

Kinds == {"natal", "timeline"}

ASSUME ReadingsAssumption == /\ Library \subseteq Charts /\ NoChart \notin Charts
                             /\ MaxClicks \in Nat /\ MaxUpsets \in Nat

VARIABLES charts,     \* the chart library
          entry,      \* byChart: what the store holds of each chart and kind
          active,     \* activeRuns, activeTimelineRuns: the run that may write
          forgotten,  \* charts whose late writes are refused
          runs,       \* the runs under way, by id
          flight,     \* useSingleFlight: the run a repeated click attaches to
          controller, \* the run that cancel would abort
          page,       \* the chart the dashboard shows
          guard,      \* setAsideStatus
          saved,      \* the row in SQLite
          quarantine, \* an unreadable row is held aside
          unsaved,    \* a snapshot is on its way to SQLite
          shown,      \* history: readings the user was shown as complete
          clicks, upsets

vars == <<charts, entry, active, forgotten, runs, flight, controller, page, guard, saved,
          quarantine, unsaved, shown, clicks, upsets>>
store == <<entry, active, forgotten>>
hook == <<runs, flight, controller>>
disk == <<saved, quarantine, guard>>
count == <<clicks, upsets>>

(* text and notes are the run that wrote them, 0 for none; marks the runs    *)
(* whose sections are shown.                                                *)
Empty == [status |-> "idle", text |-> 0, notes |-> 0, marks |-> {}]
NoEntries == [c \in Charts |-> [k \in Kinds |-> Empty]]
NoRuns == [c \in Charts |-> [k \in Kinds |-> 0]]
None == [k \in Kinds |-> 0]

Init == /\ charts = Library
        /\ entry = NoEntries /\ active = NoRuns /\ forgotten = {}
        /\ runs = {} /\ flight = None /\ controller = None
        /\ page \in Library
        /\ guard = "pending"
        /\ saved \in [readable : BOOLEAN, entries : {NoEntries}]
        /\ quarantine = FALSE /\ unsaved = FALSE
        /\ shown = NoRuns
        /\ clicks = 0 /\ upsets = 0

(* interpretationWriteRefusal. *)
Refused == guard \in {"pending", "failed"}

\* Mutant of WillSave: nothing protects a row that could not be read.
AlwaysSaves == unsaved' = TRUE

\* Every store change asks for a snapshot of the whole row.
WillSave == unsaved' = IF Refused THEN unsaved ELSE TRUE

\* Mutant of AcceptsRun: only a forgotten chart refuses a late write.
AcceptsAnyRun(r) == r.chart \notin forgotten

AcceptsRun(r) == r.chart \notin forgotten /\ active[r.chart][r.kind] = r.id

SetEntry(r, e) == entry' = [entry EXCEPT ![r.chart][r.kind] = e]
EntryOf(r) == entry[r.chart][r.kind]

\* Mutant of Become: the run goes on beside its old self.
BecomeAlso(r, pc) == runs' = runs \cup {[r EXCEPT !.pc = pc]}

Become(r, pc) == runs' = (runs \ {r}) \cup {[r EXCEPT !.pc = pc]}
Release(r) == flight' = [flight EXCEPT ![r.kind] = IF @ = r.id THEN 0 ELSE @]
End(r) == runs' = runs \ {r} /\ Release(r)

-----------------------------------------------------------------------------
(* Asking for a reading. *)

InFlight(c, k) == \E r \in runs : r.id = flight[k] /\ r.chart = c
Waiting(k) == \E r \in runs : r.kind = k /\ r.pc = "persist" /\ ~r.left
Streaming(c, k) == entry[c][k].status = "generating" \/ InFlight(c, k) \/ Waiting(k)

AbortOf(k) == {r \in runs : r.kind = k /\ r.id = controller[k] /\ controller[k] # 0}

(* A click on the chart shown, when the buttons are enabled: a run for        *)
(* another chart is superseded, and its stream aborted.                      *)
Click(k) ==
  /\ page # NoChart /\ clicks < MaxClicks
  /\ \A j \in Kinds : ~Streaming(page, j)
  /\ clicks' = clicks + 1
  /\ runs' = (runs \ AbortOf(k)) \cup {[r EXCEPT !.aborted = TRUE] : r \in AbortOf(k)}
               \cup {[id |-> clicks + 1, kind |-> k, chart |-> page, pc |-> "wait",
                      aborted |-> FALSE, left |-> FALSE]}
  /\ flight' = [flight EXCEPT ![k] = clicks + 1]
  /\ controller' = [controller EXCEPT ![k] = 0]
  /\ UNCHANGED <<store, disk, charts, page, unsaved, shown, upsets>>

(* Keep-old-until-success. *)
Started(e) == [e EXCEPT !.status = "generating", !.marks = {}]

(* Once the tab is settled and the row is read, the run starts, or says at    *)
(* once why it cannot.                                                       *)
Begin(r) ==
  /\ r.pc = "wait" /\ guard # "pending"
  /\ forgotten' = forgotten \ {r.chart}
  /\ active' = [active EXCEPT ![r.chart][r.kind] = r.id]
  /\ IF Refused \/ r.chart \notin charts
     THEN /\ SetEntry(r, [Started(EntryOf(r)) EXCEPT !.status = "error"])
          /\ End(r) /\ UNCHANGED controller
     ELSE /\ SetEntry(r, Started(EntryOf(r)))
          /\ Become(r, "stream") /\ UNCHANGED flight
          /\ controller' = [controller EXCEPT ![r.kind] = IF r.left THEN @ ELSE r.id]
  /\ WillSave
  /\ UNCHANGED <<disk, charts, page, shown, count>>

(* What the provider delivers to a run that was not aborted. *)
Section(r) ==
  /\ r.pc = "stream" /\ ~r.aborted /\ AcceptsRun(r)
  /\ r.id \notin EntryOf(r).marks
  /\ SetEntry(r, [EntryOf(r) EXCEPT !.marks = @ \cup {r.id}])
  /\ WillSave
  /\ UNCHANGED <<hook, disk, active, forgotten, charts, page, shown, count>>

Complete(r) ==
  /\ r.pc = "stream" /\ ~r.aborted
  /\ IF AcceptsRun(r)
     THEN SetEntry(r, [EntryOf(r) EXCEPT !.status = "complete", !.text = r.id, !.notes = 0])
     ELSE UNCHANGED entry
  /\ WillSave
  /\ Become(r, "persist")
  /\ UNCHANGED <<active, forgotten, flight, controller, disk, charts, page, shown, count>>

Fail(r) ==
  /\ r.pc = "stream" /\ ~r.aborted
  /\ IF AcceptsRun(r) THEN SetEntry(r, [EntryOf(r) EXCEPT !.status = "error"]) /\ WillSave
     ELSE UNCHANGED <<entry, unsaved>>
  /\ End(r)
  /\ UNCHANGED <<active, forgotten, controller, disk, charts, page, shown, count>>

(* An aborted stream just ends. *)
Stop(r) ==
  /\ r.pc = "stream" /\ r.aborted
  /\ End(r)
  /\ UNCHANGED <<store, controller, disk, charts, page, unsaved, shown, count>>

\* Mutant of Durable: the reading is shown before its snapshot is saved.
AtOnce == TRUE

Durable == ~unsaved

(* The snapshot is saved: the reading is shown, and the reading phase ends. *)
Persisted(r) ==
  /\ r.pc = "persist" /\ Durable
  /\ shown' = IF EntryOf(r).text = r.id THEN [shown EXCEPT ![r.chart][r.kind] = r.id] ELSE shown
  /\ IF r.kind = "natal" /\ ~r.aborted THEN Become(r, "notes") /\ Release(r) ELSE End(r)
  /\ UNCHANGED <<store, controller, disk, charts, page, unsaved, count>>

(* Evidence annotations: a step after the reading, its failure is silent. *)
Annotate(r) ==
  /\ r.pc = "notes"
  /\ \/ /\ ~r.aborted /\ AcceptsRun(r)
        /\ SetEntry(r, [EntryOf(r) EXCEPT !.notes = r.id]) /\ WillSave
     \/ UNCHANGED <<entry, unsaved>>
  /\ End(r)
  /\ UNCHANGED <<active, forgotten, controller, disk, charts, page, shown, count>>

-----------------------------------------------------------------------------
(* The page, the library and the row. *)

(* The dashboard opens a chart, or turns to another one. *)
Turn(c) ==
  /\ c \in charts /\ page # c
  /\ page' = c
  /\ UNCHANGED <<store, hook, disk, charts, unsaved, shown, count>>

(* abandonCurrentTimeline of the run that is streaming. *)
Abandoned(e) == IF e.text # 0 THEN [e EXCEPT !.status = "complete", !.marks = {}] ELSE Empty

(* Leaving the dashboard aborts the timeline; a natal run goes on unwatched. *)
Leave ==
  /\ page # NoChart
  /\ page' = NoChart
  /\ flight' = None /\ controller' = None
  /\ LET streaming == {r \in runs : r.kind = "timeline" /\ r.pc \in {"stream", "persist"}
                                      /\ r.id = flight["timeline"]}
         given == {r \in streaming : AcceptsRun(r)}
     IN /\ runs' = {[r EXCEPT !.left = TRUE, !.aborted = @ \/ r \in streaming] : r \in runs}
        /\ active' = [c \in Charts |-> [k \in Kinds |->
                        IF \E r \in given : r.chart = c /\ r.kind = k THEN 0 ELSE active[c][k]]]
        /\ entry' = [c \in Charts |-> [k \in Kinds |->
                       IF entry[c][k].status = "generating" /\ \E r \in given : r.chart = c /\ r.kind = k
                       THEN Abandoned(entry[c][k]) ELSE entry[c][k]]]
        /\ WillSave
  /\ UNCHANGED <<forgotten, disk, charts, shown, count>>

\* reset(chart): the entry and its run tokens go.
Drop(c) == /\ entry' = [entry EXCEPT ![c] = [k \in Kinds |-> Empty]]
           /\ active' = [active EXCEPT ![c] = None]
           /\ shown' = [shown EXCEPT ![c] = None]
           /\ WillSave

(* A changed birth: the new chart replaces the old one, whose reading is      *)
(* dropped and refused from now on.  An id is made from the birth, so a birth *)
(* that is changed back has its old id again.                                *)
Regenerate(c, d) ==
  /\ guard # "pending"
  /\ c \in charts /\ d \notin charts /\ upsets < MaxUpsets
  /\ upsets' = upsets + 1
  /\ charts' = (charts \ {c}) \cup {d}
  /\ Drop(c) /\ forgotten' = forgotten \cup {c}
  /\ page' = IF page = c THEN d ELSE page
  /\ UNCHANGED <<hook, disk, clicks>>

\* deleteForProfile: no chart is marked as forgotten, the tokens are gone.
DeletePerson(c) ==
  /\ guard # "pending"
  /\ c \in charts /\ page # c /\ upsets < MaxUpsets
  /\ upsets' = upsets + 1
  /\ charts' = charts \ {c}
  /\ Drop(c)
  /\ UNCHANGED <<forgotten, hook, page, disk, clicks>>

Flush ==
  /\ unsaved
  /\ saved' = [readable |-> TRUE, entries |-> entry]
  /\ unsaved' = FALSE
  /\ UNCHANGED <<store, hook, charts, page, guard, quarantine, shown, count>>

Reload ==
  /\ upsets < MaxUpsets /\ upsets' = upsets + 1
  /\ entry' = NoEntries /\ active' = NoRuns /\ forgotten' = {}
  /\ runs' = {} /\ flight' = None /\ controller' = None
  /\ guard' = "pending" /\ unsaved' = FALSE
  /\ UNCHANGED <<charts, page, saved, quarantine, shown, clicks>>

\* Mutant of Healed: what was saved is loaded as it is.
AsSaved(e) == e

(* healInterruptedEntry: no stream survives a page load. *)
Healed(e) == IF e.status # "generating" THEN e
             ELSE IF e.text # 0 THEN [e EXCEPT !.status = "complete"] ELSE Empty

Hydrate ==
  /\ guard = "pending" /\ saved.readable
  /\ entry' = [c \in Charts |-> [k \in Kinds |-> Healed(saved.entries[c][k])]]
  /\ guard' = "none"
  /\ UNCHANGED <<active, forgotten, hook, saved, quarantine, charts, page, unsaved, shown, count>>

(* An unreadable row is held aside; until it provably is, nothing is saved. *)
HoldUnreadable ==
  /\ guard = "pending" /\ ~saved.readable
  /\ \/ guard' = "held" /\ quarantine' = TRUE
     \/ guard' = "failed" /\ UNCHANGED quarantine
  /\ UNCHANGED <<store, hook, saved, charts, page, unsaved, shown, count>>

-----------------------------------------------------------------------------
Step(r) == \/ Begin(r) \/ Section(r) \/ Complete(r) \/ Fail(r) \/ Stop(r)
           \/ Persisted(r) \/ Annotate(r)

Next == \/ \E r \in runs : Step(r)
        \/ \E k \in Kinds : Click(k)
        \/ \E c \in Charts : Turn(c) \/ DeletePerson(c)
        \/ \E c, d \in Charts : Regenerate(c, d)
        \/ Leave \/ Flush \/ Reload \/ Hydrate \/ HoldUnreadable

(* Every stream ends, every snapshot is saved; the user may do nothing. *)
Spec == /\ Init /\ [][Next]_vars
        /\ WF_vars(Flush) /\ WF_vars(Hydrate \/ HoldUnreadable)
        /\ \A i \in 1 .. MaxClicks : WF_vars(\E r \in runs : r.id = i /\ Step(r))

-----------------------------------------------------------------------------
(* Properties. *)

Runs == [id : 1 .. MaxClicks, kind : Kinds, chart : Charts,
         pc : {"wait", "stream", "persist", "notes"}, aborted : BOOLEAN, left : BOOLEAN]
Entries == [Charts -> [Kinds -> [status : {"idle", "generating", "complete", "error"},
                                 text : 0 .. MaxClicks, notes : 0 .. MaxClicks,
                                 marks : SUBSET (1 .. MaxClicks)]]]

TypeOK == /\ charts \subseteq Charts /\ forgotten \subseteq Charts
          /\ entry \in Entries
          /\ active \in [Charts -> [Kinds -> 0 .. clicks]]
          /\ runs \subseteq Runs /\ \A r, s \in runs : r.id = s.id => r = s
          /\ flight \in [Kinds -> 0 .. clicks] /\ controller \in [Kinds -> 0 .. clicks]
          /\ page \in Charts \cup {NoChart}
          /\ guard \in {"pending", "none", "held", "failed"}
          /\ saved.readable \in BOOLEAN /\ saved.entries \in Entries
          /\ {quarantine, unsaved} \subseteq BOOLEAN
          /\ shown \in [Charts -> [Kinds -> 0 .. clicks]]
          /\ clicks \in 0 .. MaxClicks /\ upsets \in 0 .. MaxUpsets

(* The model's annotations are only shown beside the reading they were      *)
(* written for, and sections only of the run that generates now: a slow     *)
(* answer of an older run never lands on a newer one.                       *)
NotesMatch ==
  \A c \in Charts, k \in Kinds :
    /\ entry[c][k].notes \in {0, entry[c][k].text}
    /\ entry[c][k].status = "generating" => entry[c][k].marks \subseteq {active[c][k]}

(* Nor does a chart that was replaced or deleted get a reading, however late *)
(* its run completes.  (A page load before the row was saved brings the old  *)
(* one back; the boot repair of references removes it.)                      *)
NoLateResult ==
  [][/\ NotesMatch'
     /\ \A c \in Charts \ charts, k \in Kinds :
          guard # "pending" /\ entry[c][k].text = 0 => entry'[c][k].text = 0]_vars

(* A reading the user was shown as complete is in SQLite as long as its     *)
(* chart is: neither a page load at the wrong moment nor a newer run that   *)
(* fails or is abandoned takes it away.                                     *)
ShownIsSaved ==
  \A c \in charts, k \in Kinds : shown[c][k] # 0 => saved.entries[c][k].text # 0

(* A row that cannot be read is never overwritten unless it is held aside.  *)
UnreadableKept == [][~saved.readable /\ saved'.readable => quarantine]_vars

(* A reading that is being generated comes to an end.                       *)
GeneratingEnds ==
  \A c \in Charts, k \in Kinds :
    entry[c][k].status = "generating" ~> entry[c][k].status # "generating"
=============================================================================
