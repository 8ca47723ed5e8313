---------------------------- MODULE Regeneration ----------------------------
(***************************************************************************)
(* Charts that follow a changed birth: the requests a page awaits           *)
(* (regenerationRequests.ts), the one runner that computes or buffers them  *)
(* (useRegenerationSubscription.ts), the queue of computations              *)
(* (regenerate.ts), the daily re-anchoring that shares it                   *)
(* (useChartReanchor.ts), and what must follow a replaced chart: the chart  *)
(* library, readings, chat links, the person's name and the predictive      *)
(* layer (predictive.ts).  The engine is external: it computes or fails.    *)
(***************************************************************************)
EXTENDS Naturals, FiniteSets, SequencesExt

CONSTANTS Persons,
          Subjects,     \* bound: the persons whose births are edited
          Births,       \* birth details a person may be given, name included
          Names, NameIn,\* NameIn[b] is the name in b
          NoRow,
          MaxRequests,  \* bound: regenerations asked for
          MaxOutages,   \* bound: times the engine goes away
          MaxDays,      \* bound: days that begin
          MaxActs       \* bound: renames, deletions, readings, chats and forecasts

ASSUME RegenerationAssumption ==
  /\ Subjects \subseteq Persons /\ NameIn \in [Births -> Names]
  /\ NoRow \notin [person : Persons, birth : Births]
  /\ NoRow \notin [person : Persons, birth : Births, label : Names, zoned : BOOLEAN]
  /\ {MaxRequests, MaxOutages, MaxDays, MaxActs} \subseteq Nat

VARIABLES persons,    \* the profiles
          name,       \* their names
          charts,     \* the chart library
          readings,   \* charts that have an AI reading
          link,       \* the chart a person's thread was started on
          predictive, \* the predictive store
          inflight,   \* predictive computations under way, by request key
          mounted,    \* the runner is registered
          held,       \* requests made before that
          engine,     \* none, seen by a render, ready (its effect has run)
          buffer,     \* pendingRef: the latest event, and who waits for it
          queue,      \* the chain behind queueTail
          waits,      \* the promise of each request
          asked,      \* history: the events of the requests
          outages, days, acts

vars == <<persons, name, charts, readings, link, predictive, inflight, mounted, held, engine,
          buffer, queue, waits, asked, outages, days, acts>>
people == <<persons, name>>
derived == <<readings, link, predictive, inflight>>
intake == <<mounted, held, buffer, asked>>
outside == <<engine, outages, days, acts>>
other == <<engine, outages, days>>

\* chartId: minted from the birth; births of two people differ.
Id(p, b) == [person |-> p, birth |-> b]
IdOf(row) == Id(row.person, row.birth)
Ids(rows) == {IdOf(row) : row \in rows}
NoEvent == [id |-> 0, who |-> NoRow]
Idle == [status |-> "idle", key |-> NoRow]

\* saveChart replaces the row with this id.
Saved(rows, row) == {r \in rows : IdOf(r) # IdOf(row)} \cup {row}

Init == /\ persons = Persons
        /\ name \in [Persons -> {NameIn[b] : b \in Births}]
        /\ charts \in SUBSET [person : Subjects, birth : Births, label : Names, zoned : BOOLEAN]
        /\ \A r, s \in charts : r.person = s.person => r = s
        /\ \A r \in charts : r.label = name[r.person]
        /\ readings = {} /\ link = [p \in Persons |-> NoRow]
        /\ predictive = Idle /\ inflight = {}
        /\ mounted = FALSE /\ held = <<>>
        /\ engine = "none" /\ buffer = [event |-> NoEvent, waiting |-> {}]
        /\ queue = <<>>
        /\ waits = [i \in 1 .. MaxRequests |-> "none"]
        /\ asked = <<>> /\ outages = 0 /\ days = 0 /\ acts = 0

-----------------------------------------------------------------------------
(* Asking. *)

\* The runner takes the person's name along: a rename made later must win.
Job(event, waiting) ==
  [kind |-> "birth", who |-> event.who, waiting |-> waiting, pc |-> "waiting",
   named |-> name[event.who.person], prior |-> NoRow, intact |-> TRUE]

\* Mutant of Superseded: the caller of the older event is forgotten.
JustNewer(i) == {i}

\* Mutant of Superseded: the newer caller is filed under the next request.
FiledNext(i) == buffer.waiting \cup {i + 1}

\* A newer event replaces an older one, whose caller settles with it.
Superseded(i) == buffer.waiting \cup {i}

Handle(event) ==
  IF engine = "none"
  THEN /\ buffer' = [event |-> event, waiting |-> Superseded(event.id)]
       /\ UNCHANGED queue
  ELSE /\ queue' = Append(queue, Job(event, {event.id}))
       /\ UNCHANGED buffer

Request(p, b) ==
  /\ Len(asked) < MaxRequests /\ p \in persons
  /\ asked' = Append(asked, Id(p, b))
  /\ waits' = [waits EXCEPT ![Len(asked')] = "waiting"]
  /\ LET event == [id |-> Len(asked'), who |-> Id(p, b)]
     IN IF mounted THEN Handle(event) /\ UNCHANGED held
                   ELSE held' = Append(held, event) /\ UNCHANGED <<buffer, queue>>
  /\ UNCHANGED <<people, charts, derived, mounted, outside>>

(* registerRegenerationRunner: what was held is handed over in order. *)
Mount ==
  /\ ~mounted /\ mounted' = TRUE /\ held' = <<>>
  /\ IF engine = "none"
     THEN /\ buffer' = IF held = <<>> THEN buffer
                       ELSE [event |-> Last(held), waiting |-> {held[i].id : i \in DOMAIN held}]
          /\ UNCHANGED queue
     ELSE /\ queue' = queue \o [i \in DOMAIN held |-> Job(held[i], {held[i].id})]
          /\ UNCHANGED buffer
  /\ UNCHANGED <<people, charts, derived, asked, waits, outside>>

(* A render reads the new engine into the ref; the effect that drains the    *)
(* buffer runs later.                                                        *)
EngineUp ==
  /\ engine = "none" /\ engine' = "seen"
  /\ UNCHANGED <<people, charts, derived, intake, queue, waits, outages, days, acts>>

Drain ==
  /\ engine = "seen" /\ engine' = "ready"
  /\ IF buffer.event = NoEvent THEN UNCHANGED <<buffer, queue>>
     ELSE /\ buffer' = [event |-> NoEvent, waiting |-> {}]
          /\ queue' = Append(queue, Job(buffer.event, buffer.waiting))
  /\ UNCHANGED <<people, charts, derived, mounted, held, asked, waits, outages, days, acts>>

EngineDown ==
  /\ engine # "none" /\ outages < MaxOutages
  /\ engine' = "none" /\ outages' = outages + 1
  /\ UNCHANGED <<people, charts, derived, intake, queue, waits, days, acts>>

(* useChartReanchor: a new day, and the chart shown is of an older one. *)
Reanchor(row) ==
  /\ engine # "none" /\ days < MaxDays
  /\ days' = days + 1
  /\ queue' = Append(queue, [kind |-> "day", who |-> IdOf(row), waiting |-> {}, pc |-> "waiting",
                             named |-> row.label, prior |-> NoRow, intact |-> TRUE])
  /\ UNCHANGED <<people, charts, derived, intake, engine, waits, outages, acts>>

-----------------------------------------------------------------------------
(* The queue. *)

\* Mutant of InTurn: every run starts at once.
AtOnce(i) == TRUE

\* Every run is chained behind the one before.
InTurn(i) == i = 1

Settled(job, how) == [n \in DOMAIN waits |-> IF n \in job.waiting THEN how ELSE waits[n]]

PriorOf(job) ==
  LET mine == {r \in charts : IF job.kind = "birth" THEN r.person = job.who.person
                                                     ELSE IdOf(r) = job.who}
  IN IF mine = {} THEN NoRow ELSE CHOOSE r \in mine : TRUE

(* alreadyStored, or a chart that is gone: nothing to compute. *)
Nothing(job, prior) ==
  IF job.kind = "birth" THEN prior # NoRow /\ IdOf(prior) = job.who /\ prior.zoned
                        ELSE prior = NoRow

Start(i) ==
  /\ InTurn(i) /\ queue[i].pc = "waiting"
  /\ LET job == queue[i]
         prior == PriorOf(job)
     IN IF Nothing(job, prior)
        THEN /\ queue' = RemoveAt(queue, i) /\ waits' = Settled(job, "resolved")
        ELSE /\ queue' = [queue EXCEPT ![i].pc = "computing", ![i].prior = prior]
             /\ UNCHANGED waits
  /\ UNCHANGED <<people, charts, derived, intake, outside>>

\* Mutant of Unlinked: the live charts are listed before the old one is gone.
UnlinkedFrom(before, after) ==
  [p \in Persons |-> IF link[p] \in Ids(before \cup after) THEN link[p] ELSE NoRow]

(* unlinkMissingCharts *)
Unlinked(before, after) ==
  [p \in Persons |-> IF link[p] \in Ids(after) THEN link[p] ELSE NoRow]

\* The computed chart replaces the prior one, and what was derived goes.
FinishBirth(i) ==
  LET job == queue[i]
      who == job.who.person
      row == [person |-> who, birth |-> job.who.birth, label |-> NameIn[job.who.birth],
              zoned |-> TRUE]
      replaced == job.prior # NoRow /\ IdOf(job.prior) # job.who
      kept == {r \in Saved(charts, row) : replaced => IdOf(r) # IdOf(job.prior)}
      renamed == who \in persons /\ name[who] = job.named
  IN /\ job.kind = "birth"
     /\ charts' = {IF renamed /\ r.person = who THEN [r EXCEPT !.label = row.label] ELSE r : r \in kept}
     /\ name' = IF renamed THEN [name EXCEPT ![who] = row.label] ELSE name
     /\ readings' = IF replaced THEN readings \ {IdOf(job.prior)} ELSE readings
     /\ link' = IF replaced THEN Unlinked(charts, kept) ELSE link
     /\ predictive' = IF predictive.key # NoRow /\ predictive.key.person = who THEN Idle
                      ELSE predictive
     /\ waits' = Settled(job, "resolved")

\* Mutant of Unchanged: the row is saved whatever happened to it.
Whatever(job) == TRUE

\* findChart(id) === prior
Unchanged(job) == job.intact

FinishDay(i) ==
  /\ queue[i].kind = "day"
  /\ charts' = IF Unchanged(queue[i]) THEN Saved(charts, queue[i].prior) ELSE charts
  /\ UNCHANGED <<name, readings, link, predictive, waits>>

\* A save, a rename or a deletion makes new row objects of p's charts.
Touched(jobs, p) ==
  [i \in DOMAIN jobs |-> IF jobs[i].prior # NoRow /\ jobs[i].prior.person = p
                         THEN [jobs[i] EXCEPT !.intact = FALSE] ELSE jobs[i]]

Finish(i) ==
  /\ queue[i].pc = "computing"
  /\ FinishBirth(i) \/ FinishDay(i)
  /\ queue' = Touched(RemoveAt(queue, i), queue[i].who.person)
  /\ UNCHANGED <<persons, inflight, intake, outside>>

(* The computation fails: the prior chart stays, the next run is served. *)
Fail(i) ==
  /\ queue[i].pc = "computing"
  /\ queue' = RemoveAt(queue, i)
  /\ waits' = Settled(queue[i], "rejected")
  /\ UNCHANGED <<people, charts, derived, intake, outside>>

-----------------------------------------------------------------------------
(* What the user does meanwhile. *)

Act == acts < MaxActs /\ acts' = acts + 1

Rename(p, n) ==
  /\ Act /\ p \in persons /\ name[p] # n
  /\ name' = [name EXCEPT ![p] = n]
  /\ charts' = {IF r.person = p THEN [r EXCEPT !.label = n] ELSE r : r \in charts}
  /\ queue' = IF charts' = charts THEN queue ELSE Touched(queue, p)
  /\ UNCHANGED <<persons, derived, intake, waits, other>>

DeletePerson(p) ==
  /\ Act /\ p \in persons /\ Cardinality(persons) > 1
  /\ persons' = persons \ {p}
  /\ charts' = {r \in charts : r.person # p}
  /\ readings' = {c \in readings : c.person # p}
  /\ link' = [link EXCEPT ![p] = NoRow]
  /\ predictive' = IF predictive.key # NoRow /\ predictive.key.person = p THEN Idle ELSE predictive
  /\ queue' = Touched(queue, p)
  /\ UNCHANGED <<name, inflight, intake, waits, other>>

Read(row) ==
  /\ IdOf(row) \notin readings
  /\ Act
  /\ readings' = readings \cup {IdOf(row)}
  /\ UNCHANGED <<people, charts, link, predictive, inflight, intake, queue, waits, other>>

Chat(row) ==
  /\ row.person \in persons /\ link[row.person] = NoRow
  /\ Act
  /\ link' = [link EXCEPT ![row.person] = IdOf(row)]
  /\ UNCHANGED <<people, charts, readings, predictive, inflight, intake, queue, waits, other>>

(* ensurePredictive: idempotent per request key. *)
Ask(row) ==
  /\ ~(predictive.status \in {"ready", "loading"} /\ predictive.key = IdOf(row))
  /\ Act
  /\ predictive' = [status |-> "loading", key |-> IdOf(row)]
  /\ inflight' = inflight \cup {IdOf(row)}
  /\ UNCHANGED <<people, charts, readings, link, intake, queue, waits, other>>

Awaited(key) == predictive.key = key

Answer(key) ==
  /\ inflight' = inflight \ {key}
  /\ predictive' \in IF Awaited(key) THEN {[status |-> s, key |-> key] : s \in {"ready", "error"}}
                     ELSE {predictive}
  /\ UNCHANGED <<people, charts, readings, link, intake, queue, waits, outside>>

-----------------------------------------------------------------------------
Run == \E i \in DOMAIN queue : Start(i) \/ Finish(i) \/ Fail(i)

Next == \/ \E p \in Subjects, b \in Births : Request(p, b)
        \/ Mount \/ EngineUp \/ Drain \/ EngineDown \/ Run
        \/ \E p \in Subjects, n \in Names : Rename(p, n)
        \/ \E p \in Subjects : DeletePerson(p)
        \/ \E row \in charts : Reanchor(row) \/ Read(row) \/ Chat(row) \/ Ask(row)
        \/ \E key \in inflight : Answer(key)

(* Every computation ends; the engine need not come up. *)
Spec == Init /\ [][Next]_vars /\ WF_vars(Mount) /\ WF_vars(Drain) /\ WF_vars(Run)

-----------------------------------------------------------------------------
(* Properties. *)

ChartIds == [person : Persons, birth : Births]
Rows == [person : Persons, birth : Births, label : Names, zoned : BOOLEAN]
Events == [id : 1 .. MaxRequests, who : ChartIds]
Jobs == [kind : {"birth", "day"}, who : ChartIds, waiting : SUBSET (1 .. MaxRequests),
         pc : {"waiting", "computing"}, named : Names, prior : Rows \cup {NoRow},
         intact : BOOLEAN]

TypeOK ==
  /\ persons \subseteq Persons /\ name \in [Persons -> Names]
  /\ charts \subseteq Rows /\ readings \subseteq ChartIds
  /\ link \in [Persons -> ChartIds \cup {NoRow}]
  /\ predictive.status \in {"idle", "loading", "ready", "error"}
  /\ predictive.key \in ChartIds \cup {NoRow} /\ inflight \subseteq ChartIds
  /\ mounted \in BOOLEAN /\ held \in Seq(Events)
  /\ engine \in {"none", "seen", "ready"}
  /\ buffer.event \in Events \cup {NoEvent}
  /\ buffer.waiting \subseteq DOMAIN asked
  /\ queue \in Seq(Jobs)
  /\ waits \in [1 .. MaxRequests -> {"none", "waiting", "resolved", "rejected"}]
  /\ asked \in Seq(ChartIds) /\ Len(asked) <= MaxRequests
  /\ outages \in 0 .. MaxOutages /\ days \in 0 .. MaxDays
  /\ acts \in 0 .. MaxActs

(* However edits overlap, a person has one chart: the slower of two          *)
(* computations that read the same prior chart leaves no orphan beside the   *)
(* newer one.                                                               *)
OneChart == \A r, s \in charts : r.person = s.person => r = s

(* A replaced or deleted chart leaves no reading and no chat link, also of   *)
(* what was begun while the new one was computing, and the predictive layer  *)
(* shows only a chart that is there.                                         *)
NothingDangling ==
  /\ readings \subseteq Ids(charts)
  /\ \A p \in Persons : link[p] \in Ids(charts) \cup {NoRow}
  /\ predictive.status = "ready" => predictive.key \in Ids(charts)

(* A re-anchoring never brings a deleted or replaced chart back and never    *)
(* undoes a rename.                                                         *)
ReanchorKeepsRows ==
  [][\A i \in DOMAIN queue :
       queue[i].kind = "day" /\ queue' = RemoveAt(queue, i) => charts' = charts]_vars

(* Once the engine is up for good, every caller of requestRegeneration is    *)
(* answered, whether its event was held, buffered, superseded or failed.     *)
RequestsSettle ==
  <>[](engine # "none") =>
     \A n \in 1 .. MaxRequests : waits[n] = "waiting" ~> waits[n] \in {"resolved", "rejected"}
=============================================================================
