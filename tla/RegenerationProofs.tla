------------------------- MODULE RegenerationProofs -------------------------
(***************************************************************************)
(* Theorems about Regeneration: its types, that a person keeps one chart,    *)
(* that nothing refers to a chart that is gone, and that a re-anchoring      *)
(* changes no row another step made.                                         *)
(***************************************************************************)
EXTENDS Regeneration, SequenceTheorems, TLAPS

-----------------------------------------------------------------------------
(* Rows, jobs and queues. *)

\* Nothing that is there is taken for its absence.
LEMMA NoRowApart == NoRow \notin ChartIds /\ NoRow \notin Rows
  BY RegenerationAssumption DEF ChartIds, Rows

\* The row of a chart is not its absence either.
LEMMA RowIds == \A r \in Rows : IdOf(r) \in ChartIds /\ IdOf(r).person = r.person
  BY DEF Rows, ChartIds, IdOf, Id

\* Taking the first entry off a queue moves every other one up.
LEMMA FirstRemoved ==
  ASSUME NEW S, NEW s \in Seq(S), 1 \in DOMAIN s
  PROVE  /\ RemoveAt(s, 1) \in Seq(S)
         /\ Len(RemoveAt(s, 1)) = Len(s) - 1
         /\ \A i \in DOMAIN RemoveAt(s, 1) : i + 1 \in DOMAIN s /\ RemoveAt(s, 1)[i] = s[i + 1]
<1> DEFINE rest == SubSeq(s, 2, Len(s))
<1>0. Len(s) \in Nat /\ Len(s) >= 1
  OBVIOUS
<1>1. DOMAIN s = 1 .. Len(s) /\ \A i \in 2 .. Len(s) : s[i] \in S
  OBVIOUS
<1>2. /\ rest \in Seq(S) /\ Len(rest) = Len(s) - 1
      /\ \A i \in 1 .. Len(s) - 1 : rest[i] = s[i + 1]
  <2>1. /\ rest \in Seq(S)
        /\ Len(rest) = IF 2 <= Len(s) THEN Len(s) - 2 + 1 ELSE 0
        /\ \A i \in 1 .. Len(s) - 2 + 1 : rest[i] = s[2 + i - 1]
    BY <1>0, <1>1, SubSeqProperties
  <2> HIDE DEF rest
  <2>2. ASSUME NEW i \in 1 .. Len(s) - 1 PROVE rest[i] = s[i + 1]
    <3>1. i \in 1 .. Len(s) - 2 + 1 /\ 2 + i - 1 = i + 1
      BY <1>0
    <3> QED
      BY <2>1, <3>1
  <2>3. Len(rest) = Len(s) - 1
    <3>1. CASE 2 <= Len(s)
      BY <1>0, <2>1, <3>1
    <3>2. CASE Len(s) = 1
      BY <2>1, <3>2
    <3>3. \A n \in Nat : n >= 1 => 2 <= n \/ n = 1
      OBVIOUS
    <3> QED
      BY <1>0, <3>1, <3>2, <3>3
  <2> QED
    BY <2>1, <2>2, <2>3
<1>3. SubSeq(s, 1, 0) = <<>>
  BY SubSeqEmpty
<1>4. RemoveAt(s, 1) = <<>> \o rest
  BY <1>3 DEF RemoveAt
<1> HIDE DEF rest
<1>5. RemoveAt(s, 1) = rest
  BY <1>2, <1>4, ConcatEmptySeq
<1>6. DOMAIN rest = 1 .. Len(s) - 1
  BY <1>0, <1>2
<1>7. \A i \in 1 .. Len(s) - 1 : i + 1 \in DOMAIN s
  BY <1>0, <1>1
<1> QED
  BY <1>2, <1>5, <1>6, <1>7

\* Taking a later entry off leaves the first.
LEMMA LaterRemoved ==
  ASSUME NEW S, NEW s \in Seq(S), NEW i \in DOMAIN s, i # 1
  PROVE  /\ Len(RemoveAt(s, i)) = Len(s) - 1
         /\ RemoveAt(s, i)[1] = s[1]
<1> DEFINE before == SubSeq(s, 1, i - 1)
           after == SubSeq(s, i + 1, Len(s))
<1>1. Len(s) \in Nat /\ i \in 2 .. Len(s) /\ \A j \in 1 .. Len(s) : s[j] \in S
  OBVIOUS
<1>2. before \in Seq(S) /\ Len(before) = i - 1 /\ before[1] = s[1]
  BY <1>1, SubSeqProperties
<1>3. after \in Seq(S) /\ Len(after) = Len(s) - i
  BY <1>1, SubSeqProperties
<1>4. RemoveAt(s, i) = before \o after
  BY DEF RemoveAt
<1> HIDE DEF before, after
<1> QED
  BY <1>1, <1>2, <1>3, <1>4, ConcatProperties

\* Marking the jobs of a person changes nothing else about them.
LEMMA TouchedJobs ==
  ASSUME NEW jobs \in Seq(Jobs), NEW p
  PROVE  /\ Touched(jobs, p) \in Seq(Jobs) /\ Len(Touched(jobs, p)) = Len(jobs)
         /\ \A i \in DOMAIN jobs :
              LET job == Touched(jobs, p)[i]
              IN /\ job.kind = jobs[i].kind /\ job.who = jobs[i].who /\ job.pc = jobs[i].pc
                 /\ job.prior = jobs[i].prior /\ job.waiting = jobs[i].waiting
                 /\ job.intact => jobs[i].intact /\ (job.prior # NoRow => job.prior.person # p)
<1> DEFINE f(i) == IF jobs[i].prior # NoRow /\ jobs[i].prior.person = p
                   THEN [jobs[i] EXCEPT !.intact = FALSE] ELSE jobs[i]
<1>1. \A i \in DOMAIN jobs : jobs[i] \in Jobs
  OBVIOUS
<1>2. ASSUME NEW i \in DOMAIN jobs
      PROVE  /\ f(i) \in Jobs
             /\ f(i).kind = jobs[i].kind /\ f(i).who = jobs[i].who /\ f(i).pc = jobs[i].pc
             /\ f(i).prior = jobs[i].prior /\ f(i).waiting = jobs[i].waiting
             /\ f(i).intact => jobs[i].intact /\ (f(i).prior # NoRow => f(i).prior.person # p)
  BY <1>1 DEF Jobs
<1>3. Touched(jobs, p) = [i \in DOMAIN jobs |-> f(i)] /\ DOMAIN jobs = 1 .. Len(jobs) /\ Len(jobs) \in Nat
  BY DEF Touched
<1> HIDE DEF f
<1>4. \A i \in DOMAIN jobs : Touched(jobs, p)[i] = f(i)
  BY <1>3
<1>5. Touched(jobs, p) \in Seq(Jobs) /\ Len(Touched(jobs, p)) = Len(jobs)
  BY <1>2, <1>3
<1> QED
  BY <1>2, <1>4, <1>5

\* A prior chart is a row of the library, if there is one.
LEMMA PriorIsARow ==
  ASSUME charts \subseteq Rows, NEW job \in Jobs
  PROVE  LET mine == {r \in charts : IF job.kind = "birth" THEN r.person = job.who.person
                                     ELSE IdOf(r) = job.who}
         IN (mine = {} /\ PriorOf(job) = NoRow) \/ PriorOf(job) \in mine
  BY DEF PriorOf

-----------------------------------------------------------------------------
(* Types. *)

\* What is held was asked for before.
TypeInv == TypeOK /\ \A i \in DOMAIN held : held[i].id \in DOMAIN asked

\* The bounds are numbers, and a request that was made is one of them.
LEMMA RequestIds ==
  ASSUME TypeOK
  PROVE  /\ MaxRequests \in Nat /\ Len(asked) \in Nat
         /\ DOMAIN asked = 1 .. Len(asked) /\ DOMAIN asked \subseteq 1 .. MaxRequests
  BY RegenerationAssumption DEF TypeOK

\* The run of an event is a job that waits.
LEMMA JobType ==
  ASSUME TypeOK, NEW event \in Events, NEW waiting \in SUBSET (1 .. MaxRequests)
  PROVE  Job(event, waiting) \in Jobs /\ Job(event, waiting).pc = "waiting"
<1>1. event.who \in ChartIds /\ event.who.person \in Persons
  BY DEF Events, ChartIds
<1>2. name[event.who.person] \in Names
  BY <1>1 DEF TypeOK
<1> QED
  BY <1>1, <1>2 DEF Job, Jobs

\* What settles a job answers who waits for it.
LEMMA SettledType ==
  ASSUME TypeOK, NEW job \in Jobs, NEW how \in {"resolved", "rejected"}
  PROVE  Settled(job, how) \in [1 .. MaxRequests -> {"none", "waiting", "resolved", "rejected"}]
  BY DEF Settled, TypeOK

\* The label of a row may be any name.
LEMMA RelabelType ==
  ASSUME NEW r \in Rows, NEW n \in Names
  PROVE  /\ [r EXCEPT !.label = n] \in Rows /\ IdOf([r EXCEPT !.label = n]) = IdOf(r)
         /\ [r EXCEPT !.label = n].person = r.person
  BY DEF Rows, IdOf, Id

\* The types hold at first.
LEMMA InitType == Init => TypeInv
<1> SUFFICES ASSUME Init PROVE TypeInv
  OBVIOUS
<1>1. persons \subseteq Persons /\ name \in [Persons -> Names]
  BY RegenerationAssumption DEF Init
<1>2. charts \subseteq Rows
  BY RegenerationAssumption DEF Init, Rows
<1>3. Len(asked) <= MaxRequests /\ outages \in 0 .. MaxOutages /\ days \in 0 .. MaxDays /\ acts \in 0 .. MaxActs
  BY RegenerationAssumption DEF Init
<1>4. waits \in [1 .. MaxRequests -> {"none", "waiting", "resolved", "rejected"}]
  BY DEF Init
<1>5. /\ predictive.status \in {"idle", "loading", "ready", "error"}
      /\ predictive.key \in ChartIds \cup {NoRow}
  BY DEF Init, Idle
<1>6. buffer.event \in Events \cup {NoEvent} /\ buffer.waiting \subseteq DOMAIN asked
  BY DEF Init
<1>7. held \in Seq(Events) /\ queue \in Seq(Jobs) /\ asked \in Seq(ChartIds) /\ DOMAIN held = {}
  BY DEF Init
<1>8. /\ readings \subseteq ChartIds /\ inflight \subseteq ChartIds /\ mounted \in BOOLEAN
      /\ engine \in {"none", "seen", "ready"} /\ link \in [Persons -> ChartIds \cup {NoRow}]
  BY DEF Init
<1> QED
  BY <1>1, <1>2, <1>3, <1>4, <1>5, <1>6, <1>7, <1>8 DEF TypeInv, TypeOK

\* A request that is held, buffered or queued keeps the types.
LEMMA RequestType ==
  ASSUME TypeInv, NEW p \in Subjects, NEW b \in Births, Request(p, b)
  PROVE  TypeInv'
<1> DEFINE event == [id |-> Len(asked'), who |-> Id(p, b)]
<1>a. TypeOK
  BY DEF TypeInv
<1>1. Id(p, b) \in ChartIds
  BY RegenerationAssumption DEF ChartIds, Id
<1>2. /\ asked' \in Seq(ChartIds) /\ Len(asked') = Len(asked) + 1 /\ Len(asked') \in 1 .. MaxRequests
      /\ DOMAIN asked' = 1 .. Len(asked') /\ DOMAIN asked \subseteq DOMAIN asked'
      /\ Len(asked') \in DOMAIN asked' /\ DOMAIN asked' \subseteq 1 .. MaxRequests
  BY <1>a, <1>1, RequestIds DEF Request, TypeOK
<1>3. event \in Events /\ event.id = Len(asked')
  BY <1>1, <1>2 DEF Events
<1>4. waits' \in [1 .. MaxRequests -> {"none", "waiting", "resolved", "rejected"}]
  BY <1>a, <1>2 DEF Request, TypeOK
<1>5. /\ \/ mounted /\ Handle(event) /\ UNCHANGED held
         \/ ~mounted /\ held' = Append(held, event) /\ UNCHANGED <<buffer, queue>>
      /\ UNCHANGED <<persons, name, charts, readings, link, predictive, inflight, mounted,
                      engine, outages, days, acts>>
  BY DEF Request, people, derived, outside
<1> HIDE DEF event
<1>6. CASE mounted /\ Handle(event) /\ UNCHANGED held
  <2>1. CASE engine = "none"
    <3>1. buffer' = [event |-> event, waiting |-> buffer.waiting \cup {event.id}] /\ queue' = queue
      BY <1>6, <2>1 DEF Handle, Superseded
    <3>2. buffer'.event \in Events \cup {NoEvent} /\ buffer'.waiting \subseteq DOMAIN asked'
      BY <1>a, <1>2, <1>3, <3>1 DEF TypeOK
    <3> QED
      BY <1>a, <1>2, <1>4, <1>5, <1>6, <3>1, <3>2 DEF TypeInv, TypeOK
  <2>2. CASE engine # "none"
    <3>1. buffer' = buffer /\ queue' = Append(queue, Job(event, {event.id}))
      BY <1>6, <2>2 DEF Handle
    <3>2. Job(event, {event.id}) \in Jobs
      BY <1>a, <1>2, <1>3, JobType
    <3>3. queue' \in Seq(Jobs)
      BY <1>a, <3>1, <3>2 DEF TypeOK
    <3> QED
      BY <1>a, <1>2, <1>4, <1>5, <1>6, <3>1, <3>3 DEF TypeInv, TypeOK
  <2> QED
    BY <2>1, <2>2
<1>7. CASE ~mounted /\ held' = Append(held, event) /\ UNCHANGED <<buffer, queue>>
  <2>1. held \in Seq(Events) /\ held' \in Seq(Events)
    BY <1>a, <1>3, <1>7 DEF TypeOK
  <2>2. \A i \in DOMAIN held' : held'[i].id \in DOMAIN asked'
    BY <1>2, <1>3, <1>7, <2>1 DEF TypeInv
  <2> QED
    BY <1>a, <1>2, <1>4, <1>5, <1>7, <2>1, <2>2 DEF TypeInv, TypeOK
<1> QED
  BY <1>5, <1>6, <1>7

\* Mounting and draining what was held keeps the types.
LEMMA MountType ==
  ASSUME TypeInv, Mount
  PROVE  TypeInv'
<1>a. TypeOK /\ \A i \in DOMAIN held : held[i].id \in DOMAIN asked
  BY DEF TypeInv
<1>b. held \in Seq(Events) /\ Len(held) \in Nat /\ DOMAIN held = 1 .. Len(held) /\ queue \in Seq(Jobs)
  BY <1>a DEF TypeOK
<1>1. /\ mounted' = TRUE /\ held' = <<>>
      /\ UNCHANGED <<persons, name, charts, readings, link, predictive, inflight, asked, waits,
                      engine, outages, days, acts>>
  BY DEF Mount, people, derived, outside
<1>2. held' \in Seq(Events) /\ DOMAIN held' = {}
  BY <1>1
<1>3. CASE engine = "none"
  <2>1. queue' = queue
    BY <1>3 DEF Mount
  <2>2. CASE held = <<>>
    <3>1. buffer' = buffer
      BY <1>3, <2>2 DEF Mount
    <3> QED
      BY <1>a, <1>1, <1>2, <2>1, <3>1 DEF TypeInv, TypeOK
  <2>3. CASE held # <<>>
    <3>1. buffer' = [event |-> Last(held), waiting |-> {held[i].id : i \in DOMAIN held}]
      BY <1>3, <2>3 DEF Mount
    <3>2. Last(held) \in Events
      BY <1>b, <2>3 DEF Last
    <3>3. {held[i].id : i \in DOMAIN held} \subseteq DOMAIN asked
      BY <1>a
    <3>4. buffer'.event \in Events \cup {NoEvent} /\ buffer'.waiting \subseteq DOMAIN asked'
      BY <1>1, <3>1, <3>2, <3>3
    <3> QED
      BY <1>a, <1>1, <1>2, <2>1, <3>4 DEF TypeInv, TypeOK
  <2> QED
    BY <2>2, <2>3
<1>4. CASE engine # "none"
  <2> DEFINE more == [i \in DOMAIN held |-> Job(held[i], {held[i].id})]
  <2>1. queue' = queue \o more /\ buffer' = buffer
    BY <1>4 DEF Mount
  <2>2. \A i \in DOMAIN held : held[i] \in Events /\ {held[i].id} \subseteq 1 .. MaxRequests
    BY <1>a, <1>b, RequestIds
  <2>3. \A i \in DOMAIN held : Job(held[i], {held[i].id}) \in Jobs
    BY <1>a, <2>2, JobType
  <2>4. more \in Seq(Jobs)
    BY <1>b, <2>3
  <2> HIDE DEF more
  <2>5. queue' \in Seq(Jobs)
    BY <1>b, <2>1, <2>4
  <2> QED
    BY <1>a, <1>1, <1>2, <2>1, <2>5 DEF TypeInv, TypeOK
<1> QED
  BY <1>3, <1>4

\* The engine coming up, draining the buffer and going keep the types.
LEMMA DrainType ==
  ASSUME TypeInv, Drain
  PROVE  TypeInv'
<1>a. TypeOK
  BY DEF TypeInv
<1>1. /\ engine' = "ready"
      /\ UNCHANGED <<persons, name, charts, readings, link, predictive, inflight, mounted, held,
                      asked, waits, outages, days, acts>>
  BY DEF Drain, people, derived
<1>2. CASE buffer.event = NoEvent
  <2>1. UNCHANGED <<buffer, queue>>
    BY <1>2 DEF Drain
  <2> QED
    BY <1>a, <1>1, <2>1 DEF TypeInv, TypeOK
<1>3. CASE buffer.event # NoEvent
  <2>1. buffer' = [event |-> NoEvent, waiting |-> {}] /\ queue' = Append(queue, Job(buffer.event, buffer.waiting))
    BY <1>3 DEF Drain
  <2>2. buffer.event \in Events /\ buffer.waiting \subseteq 1 .. MaxRequests
    BY <1>a, <1>3, RequestIds DEF TypeOK
  <2>3. Job(buffer.event, buffer.waiting) \in Jobs
    BY <1>a, <2>2, JobType
  <2>4. queue' \in Seq(Jobs)
    BY <1>a, <2>1, <2>3 DEF TypeOK
  <2>5. buffer'.event \in Events \cup {NoEvent} /\ buffer'.waiting \subseteq DOMAIN asked'
    BY <2>1
  <2> QED
    BY <1>a, <1>1, <2>4, <2>5 DEF TypeInv, TypeOK
<1> QED
  BY <1>2, <1>3

\* The re-anchoring of a day keeps the types.
LEMMA ReanchorType ==
  ASSUME TypeInv, NEW row \in charts, Reanchor(row)
  PROVE  TypeInv'
<1> DEFINE job == [kind |-> "day", who |-> IdOf(row), waiting |-> {}, pc |-> "waiting",
                   named |-> row.label, prior |-> NoRow, intact |-> TRUE]
<1>a. TypeOK /\ row \in Rows /\ MaxDays \in Nat
  BY RegenerationAssumption DEF TypeInv, TypeOK
<1>1. job \in Jobs
  <2>1. IdOf(row) \in ChartIds /\ row.label \in Names
    BY <1>a, RowIds DEF Rows
  <2> QED
    BY <2>1 DEF Jobs
<1>2. queue' = Append(queue, job) /\ days' = days + 1 /\ days < MaxDays
  BY DEF Reanchor
<1> HIDE DEF job
<1>3. queue' \in Seq(Jobs) /\ days' \in 0 .. MaxDays
  BY <1>a, <1>1, <1>2 DEF TypeOK
<1> QED
  BY <1>a, <1>3 DEF Reanchor, people, derived, intake, TypeInv, TypeOK

\* The head of the queue starting keeps the types.
LEMMA StartType ==
  ASSUME TypeInv, NEW i \in DOMAIN queue, Start(i)
  PROVE  TypeInv'
<1> DEFINE job == queue[i]
           prior == PriorOf(job)
<1>a. TypeOK /\ queue \in Seq(Jobs) /\ i = 1 /\ charts \subseteq Rows
  BY DEF TypeInv, TypeOK, Start, InTurn
<1>b. job \in Jobs /\ job.pc = "waiting"
  BY <1>a DEF Start
<1>c. prior \in Rows \cup {NoRow}
  BY <1>a, <1>b, PriorIsARow
<1>1. UNCHANGED <<persons, name, charts, readings, link, predictive, inflight, mounted, held,
                  buffer, asked, engine, outages, days, acts>>
  BY DEF Start, people, derived, intake, outside
<1>2. CASE Nothing(job, prior)
  <2>1. queue' = RemoveAt(queue, i) /\ waits' = Settled(job, "resolved")
    BY <1>2 DEF Start
  <2>2. queue' \in Seq(Jobs)
    BY <1>a, <2>1, FirstRemoved
  <2>3. waits' \in [1 .. MaxRequests -> {"none", "waiting", "resolved", "rejected"}]
    BY <1>a, <1>b, <2>1, SettledType
  <2> QED
    BY <1>a, <1>1, <2>2, <2>3 DEF TypeInv, TypeOK
<1>3. CASE ~Nothing(job, prior)
  <2> DEFINE begun == [job EXCEPT !.pc = "computing", !.prior = prior]
  <2>1. queue' = [queue EXCEPT ![i] = begun] /\ waits' = waits
    BY <1>3 DEF Start
  <2>2. begun \in Jobs
    BY <1>b, <1>c DEF Jobs
  <2> HIDE DEF begun
  <2>3. queue' \in Seq(Jobs)
    BY <1>a, <2>1, <2>2
  <2> QED
    BY <1>a, <1>1, <2>1, <2>3 DEF TypeInv, TypeOK
<1> QED
  BY <1>2, <1>3

\* The head of the queue, when it is computing.
LEMMA Computed ==
  ASSUME TypeInv, NEW i \in DOMAIN queue
  PROVE  /\ queue \in Seq(Jobs) /\ queue[i] \in Jobs /\ queue[i].who \in ChartIds
         /\ queue[i].who.person \in Persons /\ queue[i].who.birth \in Births
         /\ queue[i].prior \in Rows \cup {NoRow} /\ queue[i].waiting \subseteq 1 .. MaxRequests
         /\ i = 1 => RemoveAt(queue, i) \in Seq(Jobs)
<1>1. queue \in Seq(Jobs)
  BY DEF TypeInv, TypeOK
<1>2. queue[i] \in Jobs
  BY <1>1
<1>3. i = 1 => RemoveAt(queue, i) \in Seq(Jobs)
  BY <1>1, FirstRemoved
<1> QED
  BY <1>1, <1>2, <1>3 DEF Jobs, ChartIds

\* What a computed chart becomes, and what it leaves of the library.
NewRow(job) == [person |-> job.who.person, birth |-> job.who.birth, label |-> NameIn[job.who.birth],
                zoned |-> TRUE]
Replaced(job) == job.prior # NoRow /\ IdOf(job.prior) # job.who
Kept(job) == {r \in Saved(charts, NewRow(job)) : Replaced(job) => IdOf(r) # IdOf(job.prior)}
Renamed(job) == job.who.person \in persons /\ name[job.who.person] = job.named

\* The row with the name n, if it is one of p and p is renamed.
Relabel(r, renamed, p, n) == IF renamed /\ r.person = p THEN [r EXCEPT !.label = n] ELSE r
Relabelled(rows, renamed, p, n) == {Relabel(r, renamed, p, n) : r \in rows}

\* FinishBirth in these words.
LEMMA FinishBirthIs ==
  ASSUME NEW i, FinishBirth(i)
  PROVE  LET job == queue[i]
         IN /\ job.kind = "birth"
            /\ charts' = Relabelled(Kept(job), Renamed(job), job.who.person, NewRow(job).label)
            /\ name' = IF Renamed(job) THEN [name EXCEPT ![job.who.person] = NewRow(job).label] ELSE name
            /\ readings' = IF Replaced(job) THEN readings \ {IdOf(job.prior)} ELSE readings
            /\ link' = IF Replaced(job) THEN Unlinked(charts, Kept(job)) ELSE link
            /\ predictive' = IF predictive.key # NoRow /\ predictive.key.person = job.who.person THEN Idle
                             ELSE predictive
            /\ waits' = Settled(job, "resolved")
  BY DEF FinishBirth, NewRow, Replaced, Kept, Renamed, Relabelled, Relabel

\* The kept rows and the new one are rows, and relabelling keeps them such.
LEMMA KeptType ==
  ASSUME TypeInv, NEW i \in DOMAIN queue
  PROVE  LET job == queue[i] IN NewRow(job) \in Rows /\ Kept(job) \subseteq Rows
<1>1. queue[i].who.person \in Persons /\ queue[i].who.birth \in Births
  BY Computed
<1>2. NameIn[queue[i].who.birth] \in Names
  BY <1>1, RegenerationAssumption
<1>3. NewRow(queue[i]) \in Rows
  BY <1>1, <1>2 DEF NewRow, Rows
<1>4. charts \subseteq Rows
  BY DEF TypeInv, TypeOK
<1> QED
  BY <1>3, <1>4 DEF Kept, Saved

\* A chart that has been computed keeps the types.
LEMMA FinishType ==
  ASSUME TypeInv, NEW i \in DOMAIN queue, i = 1, Finish(i),
         queue[i].kind = "day" => queue[i].prior # NoRow
  PROVE  TypeInv'
<1> DEFINE job == queue[i]
<1>a. TypeOK
  BY DEF TypeInv
<1>b. /\ queue \in Seq(Jobs) /\ job \in Jobs /\ job.who.person \in Persons
      /\ job.prior \in Rows \cup {NoRow} /\ RemoveAt(queue, i) \in Seq(Jobs)
  BY Computed
<1>1. queue' = Touched(RemoveAt(queue, i), job.who.person)
  BY DEF Finish
<1>2. queue' \in Seq(Jobs)
  BY <1>b, <1>1, TouchedJobs
<1>3. UNCHANGED <<persons, inflight, mounted, held, buffer, asked, engine, outages, days, acts>>
  BY DEF Finish, intake, outside
<1>4. CASE FinishBirth(i)
  <2>1. NewRow(job) \in Rows /\ Kept(job) \subseteq Rows /\ NewRow(job).label \in Names
    BY KeptType DEF Rows
  <2>2. charts' = Relabelled(Kept(job), Renamed(job), job.who.person, NewRow(job).label)
    BY <1>4, FinishBirthIs
  <2>3. \A r \in Kept(job) : r \in Rows /\ [r EXCEPT !.label = NewRow(job).label] \in Rows
    BY <2>1, RelabelType
  <2>4. charts' \subseteq Rows
    BY <2>2, <2>3 DEF Relabelled, Relabel
  <2>5. name' \in [Persons -> Names]
    BY <1>4, <1>a, <1>b, <2>1, FinishBirthIs DEF TypeOK
  <2>6. readings' \subseteq ChartIds
    BY <1>4, <1>a, FinishBirthIs DEF TypeOK
  <2>7. link' \in [Persons -> ChartIds \cup {NoRow}]
    BY <1>4, <1>a, FinishBirthIs DEF TypeOK, Unlinked
  <2>8. /\ predictive'.status \in {"idle", "loading", "ready", "error"}
        /\ predictive'.key \in ChartIds \cup {NoRow}
    BY <1>4, <1>a, FinishBirthIs DEF TypeOK, Idle
  <2>9. waits' \in [1 .. MaxRequests -> {"none", "waiting", "resolved", "rejected"}]
    BY <1>4, <1>a, <1>b, FinishBirthIs, SettledType
  <2> QED
    BY <1>a, <1>2, <1>3, <2>4, <2>5, <2>6, <2>7, <2>8, <2>9 DEF TypeInv, TypeOK
<1>5. CASE FinishDay(i) /\ job.prior # NoRow
  <2>1. charts' \subseteq Rows
    BY <1>5, <1>a, <1>b DEF FinishDay, Saved, TypeOK
  <2> QED
    BY <1>5, <1>a, <1>2, <1>3, <2>1 DEF FinishDay, TypeInv, TypeOK
<1> QED
  BY <1>4, <1>5 DEF Finish, FinishDay

\* A computation that fails keeps the types.
LEMMA FailType ==
  ASSUME TypeInv, NEW i \in DOMAIN queue, i = 1, Fail(i)
  PROVE  TypeInv'
<1>1. TypeOK /\ queue[i] \in Jobs /\ RemoveAt(queue, i) \in Seq(Jobs)
  BY Computed DEF TypeInv
<1>2. waits' \in [1 .. MaxRequests -> {"none", "waiting", "resolved", "rejected"}]
  BY <1>1, SettledType DEF Fail
<1> QED
  BY <1>1, <1>2 DEF Fail, people, derived, intake, outside, TypeInv, TypeOK

\* A rename keeps the types.
LEMMA RenameType ==
  ASSUME TypeInv, NEW p \in Subjects, NEW n \in Names, Rename(p, n)
  PROVE  TypeInv'
<1>a. TypeOK /\ queue \in Seq(Jobs) /\ charts \subseteq Rows /\ MaxActs \in Nat
  BY RegenerationAssumption DEF TypeInv, TypeOK
<1>1. \A r \in charts : [r EXCEPT !.label = n] \in Rows
  BY <1>a, RelabelType
<1>2. charts' \subseteq Rows
  BY <1>a, <1>1 DEF Rename
<1>3. queue' \in Seq(Jobs)
  BY <1>a, TouchedJobs DEF Rename
<1>4. name' \in [Persons -> Names] /\ acts' \in 0 .. MaxActs
  BY <1>a DEF Rename, Act, TypeOK
<1> QED
  BY <1>a, <1>2, <1>3, <1>4 DEF Rename, derived, intake, other, TypeInv, TypeOK

\* The deletion of a person keeps the types.
LEMMA DeletePersonType ==
  ASSUME TypeInv, NEW p \in Subjects, DeletePerson(p)
  PROVE  TypeInv'
<1>a. TypeOK /\ queue \in Seq(Jobs) /\ MaxActs \in Nat
  BY RegenerationAssumption DEF TypeInv, TypeOK
<1>1. queue' \in Seq(Jobs)
  BY <1>a, TouchedJobs DEF DeletePerson
<1>2. /\ persons' \subseteq Persons /\ charts' \subseteq Rows /\ readings' \subseteq ChartIds
      /\ link' \in [Persons -> ChartIds \cup {NoRow}] /\ acts' \in 0 .. MaxActs
  BY <1>a DEF DeletePerson, Act, TypeOK
<1>3. /\ predictive'.status \in {"idle", "loading", "ready", "error"}
      /\ predictive'.key \in ChartIds \cup {NoRow}
  BY <1>a DEF DeletePerson, Idle, TypeOK
<1> QED
  BY <1>a, <1>1, <1>2, <1>3 DEF DeletePerson, intake, other, TypeInv, TypeOK

\* Readings, chats and forecasts keep the types.
LEMMA UseType ==
  ASSUME TypeInv,
         \/ EngineUp \/ EngineDown
         \/ \E row \in charts : Read(row) \/ Chat(row) \/ Ask(row)
         \/ \E key \in inflight : Answer(key)
  PROVE  TypeInv'
<1>a. TypeOK /\ {MaxActs, MaxOutages} \subseteq Nat /\ \A row \in charts : IdOf(row) \in ChartIds
  BY RegenerationAssumption, RowIds DEF TypeInv, TypeOK
<1> USE DEF people, derived, intake, other, outside
<1>1. CASE EngineUp
  BY <1>1, <1>a DEF EngineUp, TypeInv, TypeOK
<1>2. CASE EngineDown
  BY <1>2, <1>a DEF EngineDown, TypeInv, TypeOK
<1>3. ASSUME NEW row \in charts, Read(row) PROVE TypeInv'
  BY <1>3, <1>a DEF Read, Act, TypeInv, TypeOK
<1>4. ASSUME NEW row \in charts, Chat(row) PROVE TypeInv'
  BY <1>4, <1>a DEF Chat, Act, TypeInv, TypeOK
<1>5. ASSUME NEW row \in charts, Ask(row) PROVE TypeInv'
  BY <1>5, <1>a DEF Ask, Act, TypeInv, TypeOK
<1>6. ASSUME NEW key \in inflight, Answer(key) PROVE TypeInv'
  <2>1. predictive' = predictive \/ predictive' \in {[status |-> s, key |-> key] : s \in {"ready", "error"}}
    BY <1>6 DEF Answer
  <2>2. /\ predictive'.status \in {"idle", "loading", "ready", "error"}
        /\ predictive'.key \in ChartIds \cup {NoRow}
    BY <1>a, <2>1 DEF TypeOK
  <2> QED
    BY <1>6, <1>a, <2>2 DEF Answer, TypeInv, TypeOK
<1> QED
  BY <1>1, <1>2, <1>3, <1>4, <1>5, <1>6

-----------------------------------------------------------------------------
(* One chart, and nothing that refers to one that is gone. *)

\* Computations do not overlap: only the head of the queue is computing.
OnlyHeadComputes == \A i \in DOMAIN queue : i # 1 => queue[i].pc = "waiting"

\* While a birth is computed its person has no chart but the prior one; while
\* a re-anchoring is, its row is in the library unless something touched it.
PriorFits(job) ==
  /\ job.pc = "waiting" => job.prior = NoRow
  /\ job.prior # NoRow => /\ job.prior.person = job.who.person
                          /\ job.intact => job.prior \in charts
  /\ job.pc = "computing" /\ job.kind = "day" => job.prior # NoRow /\ IdOf(job.prior) = job.who
  /\ job.pc = "computing" /\ job.kind = "birth" =>
       \A r \in charts : r.person = job.who.person => job.prior # NoRow /\ IdOf(r) = IdOf(job.prior)

PriorsFit == \A i \in DOMAIN queue : PriorFits(queue[i])

\* Readings, links and the predictive layer refer to charts of the library, a
\* link to one of its own person.
RefersToCharts ==
  /\ readings \subseteq Ids(charts)
  /\ \A p \in Persons : link[p] # NoRow => link[p] \in Ids(charts) /\ link[p].person = p
  /\ predictive.key = NoRow => predictive.status = "idle"
  /\ predictive.key # NoRow => predictive.key \in Ids(charts)

QueueInv == OnlyHeadComputes /\ PriorsFit
ChartInv == OneChart /\ QueueInv /\ RefersToCharts

\* A job whose turn has not come.
NotBegun(job) == job.pc = "waiting" /\ job.prior = NoRow

\* A queue that only grew is as good as it was, if the library is the same.
LEMMA QueueGrows ==
  ASSUME QueueInv, charts' = charts,
         \A i \in DOMAIN queue' : \/ i \in DOMAIN queue /\ queue'[i] = queue[i]
                                  \/ NotBegun(queue'[i])
  PROVE  QueueInv'
<1>1. ASSUME NEW i \in DOMAIN queue' PROVE PriorFits(queue[i])' /\ (i # 1 => queue'[i].pc = "waiting")
  <2>1. CASE i \in DOMAIN queue /\ queue'[i] = queue[i]
    BY <2>1 DEF QueueInv, OnlyHeadComputes, PriorsFit, PriorFits
  <2>2. CASE NotBegun(queue'[i])
    BY <2>2 DEF NotBegun, PriorFits
  <2> QED
    BY <2>1, <2>2
<1> QED
  BY <1>1 DEF QueueInv, OnlyHeadComputes, PriorsFit

\* A queue in which nothing has begun says nothing about the library.
LEMMA NothingBegun ==
  ASSUME \A i \in DOMAIN queue' : NotBegun(queue'[i])
  PROVE  QueueInv'
  BY DEF NotBegun, QueueInv, OnlyHeadComputes, PriorsFit, PriorFits

\* Behind the head nothing has begun.
LEMMA RestNotBegun ==
  ASSUME TypeInv, QueueInv, 1 \in DOMAIN queue
  PROVE  \A i \in DOMAIN RemoveAt(queue, 1) : NotBegun(RemoveAt(queue, 1)[i])
<1>1. queue \in Seq(Jobs) /\ Len(RemoveAt(queue, 1)) = Len(queue) - 1 /\ RemoveAt(queue, 1) \in Seq(Jobs)
  BY FirstRemoved DEF TypeInv, TypeOK
<1>2. ASSUME NEW i \in DOMAIN RemoveAt(queue, 1) PROVE NotBegun(RemoveAt(queue, 1)[i])
  <2>1. i + 1 \in DOMAIN queue /\ RemoveAt(queue, 1)[i] = queue[i + 1]
    BY <1>1, FirstRemoved
  <2>2. i + 1 # 1
    BY <1>1
  <2> QED
    BY <2>1, <2>2 DEF QueueInv, OnlyHeadComputes, PriorsFit, PriorFits, NotBegun
<1> QED
  BY <1>2

\* Only the head begins and ends.
LEMMA HeadOnly ==
  ASSUME QueueInv, NEW i \in DOMAIN queue, Start(i) \/ Finish(i) \/ Fail(i)
  PROVE  i = 1
<1>1. CASE Start(i)
  BY <1>1 DEF Start, InTurn
<1>2. CASE Finish(i) \/ Fail(i)
  BY <1>2 DEF Finish, Fail, QueueInv, OnlyHeadComputes
<1> QED
  BY <1>1, <1>2

\* One more job behind the others.
LEMMA OneMore ==
  ASSUME TypeInv, QueueInv, charts' = charts, NEW job \in Jobs, NotBegun(job),
         queue' = Append(queue, job)
  PROVE  QueueInv'
<1>1. queue \in Seq(Jobs)
  BY DEF TypeInv, TypeOK
<1>2. \A i \in DOMAIN queue' : (i \in DOMAIN queue /\ queue'[i] = queue[i]) \/ queue'[i] = job
  BY <1>1
<1> QED
  BY <1>2, QueueGrows

\* What refers to charts keeps doing so when neither changes.
LEMMA SameCharts ==
  ASSUME ChartInv, QueueInv', UNCHANGED <<charts, readings, link, predictive>>
  PROVE  ChartInv'
  BY DEF ChartInv, OneChart, RefersToCharts, Ids

\* What only queues work leaves charts and what refers to them as they were.
LEMMA IntakeCharts ==
  ASSUME TypeInv, ChartInv,
         \/ \E p \in Subjects, b \in Births : Request(p, b)
         \/ Mount \/ EngineUp \/ Drain \/ EngineDown
         \/ \E row \in charts : Reanchor(row)
  PROVE  ChartInv'
<1>a. /\ TypeOK /\ QueueInv /\ queue \in Seq(Jobs) /\ held \in Seq(Events)
      /\ \A i \in DOMAIN held : held[i].id \in DOMAIN asked
  BY DEF TypeInv, TypeOK, ChartInv
<1>b. UNCHANGED queue /\ UNCHANGED charts => QueueInv'
  BY <1>a, QueueGrows
<1>1. ASSUME NEW p \in Subjects, NEW b \in Births, Request(p, b) PROVE ChartInv'
  <2>1. UNCHANGED <<charts, readings, link, predictive>>
    BY <1>1 DEF Request, derived
  <2>2. CASE UNCHANGED queue
    BY <1>b, <2>1, <2>2, SameCharts
  <2>3. CASE mounted /\ engine # "none"
    <3> DEFINE event == [id |-> Len(asked'), who |-> Id(p, b)]
    <3>1. queue' = Append(queue, Job(event, {event.id}))
      BY <1>1, <2>3 DEF Request, Handle
    <3>2. Len(asked') \in 1 .. MaxRequests /\ Id(p, b) \in ChartIds
      BY <1>a, <1>1, RequestIds, RegenerationAssumption DEF Request, TypeOK, ChartIds, Id
    <3>3. event \in Events /\ {event.id} \subseteq 1 .. MaxRequests
      BY <3>2 DEF Events
    <3> HIDE DEF event
    <3>4. Job(event, {event.id}) \in Jobs /\ NotBegun(Job(event, {event.id}))
      BY <1>a, <3>3, JobType DEF NotBegun, Job
    <3> QED
      BY <1>a, <2>1, <3>1, <3>4, OneMore, SameCharts
  <2> QED
    BY <1>1, <2>2, <2>3 DEF Request, Handle
<1>2. CASE Mount
  <2>1. UNCHANGED <<charts, readings, link, predictive>>
    BY <1>2 DEF Mount, derived
  <2>2. CASE engine = "none"
    BY <1>2, <1>b, <2>1, <2>2, SameCharts DEF Mount
  <2>3. CASE engine # "none"
    <3> DEFINE more == [i \in DOMAIN held |-> Job(held[i], {held[i].id})]
    <3>1. queue' = queue \o more
      BY <1>2, <2>3 DEF Mount
    <3>2. \A i \in DOMAIN held : held[i] \in Events /\ {held[i].id} \subseteq 1 .. MaxRequests
      BY <1>a, RequestIds
    <3>3. \A i \in DOMAIN held : more[i] \in Jobs /\ NotBegun(more[i])
      BY <1>a, <3>2, JobType DEF NotBegun, Job
    <3>4. DOMAIN held = 1 .. Len(held) /\ Len(held) \in Nat /\ DOMAIN more = DOMAIN held
      BY <1>a
    <3>5. more \in Seq(Jobs) /\ Len(more) = Len(held)
      BY <3>3, <3>4
    <3> HIDE DEF more
    <3>6. ASSUME NEW i \in DOMAIN queue'
          PROVE  (i \in DOMAIN queue /\ queue'[i] = queue[i]) \/ NotBegun(queue'[i])
      <4>1. CASE i <= Len(queue)
        BY <1>a, <3>1, <3>5, <4>1
      <4>2. CASE i > Len(queue)
        <5>1. i - Len(queue) \in DOMAIN more /\ queue'[i] = more[i - Len(queue)]
          BY <1>a, <3>1, <3>5, <4>2
        <5> QED
          BY <3>3, <3>4, <5>1
      <4>3. i \in Nat /\ Len(queue) \in Nat
        BY <1>a, <3>1, <3>5
      <4> QED
        BY <4>1, <4>2, <4>3
    <3> QED
      BY <1>a, <2>1, <3>6, QueueGrows, SameCharts
  <2> QED
    BY <2>2, <2>3
<1>3. CASE EngineUp
  BY <1>3, <1>b, SameCharts DEF EngineUp, derived
<1>4. CASE Drain
  <2>1. UNCHANGED <<charts, readings, link, predictive>>
    BY <1>4 DEF Drain, derived
  <2>2. CASE buffer.event = NoEvent
    BY <1>4, <1>b, <2>1, <2>2, SameCharts DEF Drain
  <2>3. CASE buffer.event # NoEvent
    <3>1. queue' = Append(queue, Job(buffer.event, buffer.waiting))
      BY <1>4, <2>3 DEF Drain
    <3>2. buffer.event \in Events /\ buffer.waiting \subseteq 1 .. MaxRequests
      BY <1>a, <2>3, RequestIds DEF TypeOK
    <3>3. Job(buffer.event, buffer.waiting) \in Jobs /\ NotBegun(Job(buffer.event, buffer.waiting))
      BY <1>a, <3>2, JobType DEF NotBegun, Job
    <3> QED
      BY <1>a, <2>1, <3>1, <3>3, OneMore, SameCharts
  <2> QED
    BY <2>2, <2>3
<1>5. CASE EngineDown
  BY <1>5, <1>b, SameCharts DEF EngineDown, derived
<1>6. ASSUME NEW row \in charts, Reanchor(row) PROVE ChartInv'
  <2> DEFINE job == [kind |-> "day", who |-> IdOf(row), waiting |-> {}, pc |-> "waiting",
                     named |-> row.label, prior |-> NoRow, intact |-> TRUE]
  <2>1. UNCHANGED <<charts, readings, link, predictive>> /\ queue' = Append(queue, job)
    BY <1>6 DEF Reanchor, derived
  <2>2. row \in Rows /\ IdOf(row) \in ChartIds /\ row.label \in Names
    BY <1>a, RowIds DEF TypeOK, Rows
  <2>3. job \in Jobs /\ NotBegun(job)
    BY <2>2 DEF Jobs, NotBegun
  <2> HIDE DEF job
  <2> QED
    BY <1>a, <2>1, <2>3, OneMore, SameCharts
<1> QED
  BY <1>1, <1>2, <1>3, <1>4, <1>5, <1>6

\* The head of the queue remembers the chart it is to replace.
LEMMA StartCharts ==
  ASSUME TypeInv, ChartInv, NEW i \in DOMAIN queue, Start(i)
  PROVE  ChartInv'
<1> DEFINE job == queue[i]
           prior == PriorOf(job)
<1>0. QueueInv /\ OneChart /\ queue \in Seq(Jobs) /\ charts \subseteq Rows
  BY DEF ChartInv, TypeInv, TypeOK
<1>a. /\ QueueInv /\ OneChart /\ i = 1 /\ queue \in Seq(Jobs) /\ job \in Jobs /\ charts \subseteq Rows
      /\ job.pc = "waiting" /\ UNCHANGED <<charts, readings, link, predictive>>
  <2>1. i = 1
    BY <1>0, HeadOnly
  <2>2. job.pc = "waiting" /\ UNCHANGED <<charts, readings, link, predictive>>
    BY DEF Start, derived
  <2> QED
    BY <1>0, <2>1, <2>2
<1>1. CASE Nothing(job, prior)
  <2>1. queue' = RemoveAt(queue, 1)
    BY <1>1, <1>a DEF Start
  <2> QED
    BY <1>a, <2>1, RestNotBegun, NothingBegun, SameCharts
<1>2. CASE ~Nothing(job, prior)
  <2> DEFINE begun == [job EXCEPT !.pc = "computing", !.prior = prior]
  <2>1. queue' = [queue EXCEPT ![i] = begun]
    BY <1>2 DEF Start
  <2>2. /\ begun.kind = job.kind /\ begun.who = job.who /\ begun.prior = prior /\ begun.pc = "computing"
        /\ job.kind \in {"birth", "day"}
    BY <1>a DEF Jobs
  <2>3. /\ prior # NoRow => /\ prior \in charts
                            /\ IF job.kind = "birth" THEN prior.person = job.who.person
                                                       ELSE IdOf(prior) = job.who
        /\ job.kind = "birth" /\ prior = NoRow => \A r \in charts : r.person # job.who.person
    <3> DEFINE mine == {r \in charts : IF job.kind = "birth" THEN r.person = job.who.person
                                       ELSE IdOf(r) = job.who}
    <3>1. (mine = {} /\ prior = NoRow) \/ prior \in mine
      BY <1>a, PriorIsARow
    <3>2. NoRow \notin mine
      BY <1>a, NoRowApart
    <3> HIDE DEF prior
    <3> QED
      BY <3>1, <3>2
  <2>4. job.kind = "day" => prior # NoRow
    BY <1>2, <2>2 DEF Nothing
  <2>5. IdOf(prior) = job.who => prior.person = job.who.person
    BY DEF IdOf, Id
  <2> HIDE DEF begun, prior
  <2>6. PriorFits(begun)
    BY <1>a, <2>2, <2>3, <2>4, <2>5 DEF PriorFits, OneChart
  <2>7. ASSUME NEW j \in DOMAIN queue' PROVE PriorFits(queue[j])' /\ (j # 1 => queue'[j].pc = "waiting")
    <3>1. j \in DOMAIN queue /\ queue'[j] = IF j = 1 THEN begun ELSE queue[j]
      BY <1>a, <2>1
    <3>2. PriorFits(queue'[j]) /\ (j # 1 => queue'[j].pc = "waiting")
      BY <1>a, <2>6, <3>1 DEF QueueInv, OnlyHeadComputes, PriorsFit
    <3> QED
      BY <1>a, <3>2 DEF PriorFits
  <2>8. QueueInv'
    BY <2>7 DEF QueueInv, OnlyHeadComputes, PriorsFit
  <2> QED
    BY <1>a, <2>8, SameCharts
<1> QED
  BY <1>1, <1>2

\* A failure takes the head out of the queue and touches no chart.
LEMMA FailCharts ==
  ASSUME TypeInv, ChartInv, NEW i \in DOMAIN queue, Fail(i)
  PROVE  ChartInv'
<1>1. QueueInv /\ i = 1
  BY HeadOnly DEF ChartInv
<1>2. queue' = RemoveAt(queue, 1) /\ UNCHANGED <<charts, readings, link, predictive>>
  BY <1>1 DEF Fail, derived
<1> QED
  BY <1>1, <1>2, RestNotBegun, NothingBegun, SameCharts

\* A re-anchoring saves its row only where it is already.
LEMMA FinishDayCharts ==
  ASSUME TypeInv, ChartInv, NEW i \in DOMAIN queue, queue[i].pc = "computing", FinishDay(i)
  PROVE  charts' = charts
<1> DEFINE job == queue[i]
<1>1. CASE ~job.intact
  BY <1>1 DEF FinishDay, Unchanged
<1>2. CASE job.intact
  <2>1. charts' = Saved(charts, job.prior)
    BY <1>2 DEF FinishDay, Unchanged
  <2>2. job.prior # NoRow /\ job.prior \in charts /\ OneChart
    BY <1>2 DEF FinishDay, ChartInv, QueueInv, PriorsFit, PriorFits
  <2>3. \A r \in charts : IdOf(r) = IdOf(job.prior) => r = job.prior
    BY <2>2 DEF OneChart, IdOf, Id
  <2> QED
    BY <2>1, <2>2, <2>3 DEF Saved
<1>3. job.intact \in BOOLEAN
  BY Computed DEF Jobs
<1> QED
  BY <1>1, <1>2

\* When a birth is computed, its person has the new row alone.
LEMMA OnlyTheNewRow ==
  ASSUME TypeInv, ChartInv, NEW i \in DOMAIN queue, queue[i].pc = "computing", queue[i].kind = "birth",
         NEW r \in Kept(queue[i]), r.person = queue[i].who.person
  PROVE  r = NewRow(queue[i])
<1> DEFINE job == queue[i]
<1>1. IdOf(NewRow(job)) = job.who
  BY Computed DEF IdOf, Id, NewRow, ChartIds
<1>2. CASE r \in charts /\ IdOf(r) # job.who
  <2>1. job.prior # NoRow /\ IdOf(r) = IdOf(job.prior)
    BY <1>2 DEF ChartInv, QueueInv, PriorsFit, PriorFits
  <2>2. Replaced(job)
    BY <1>2, <2>1 DEF Replaced
  <2> QED
    BY <2>1, <2>2 DEF Kept
<1> QED
  BY <1>1, <1>2 DEF Kept, Saved

\* Every chart but the replaced one keeps a row.
LEMMA KeptIds ==
  ASSUME TypeInv, ChartInv, NEW i \in DOMAIN queue,
         NEW c \in Ids(charts), Replaced(queue[i]) => c # IdOf(queue[i].prior)
  PROVE  c \in Ids(Kept(queue[i]))
<1> DEFINE job == queue[i]
<1>1. IdOf(NewRow(job)) = job.who
  BY Computed DEF IdOf, Id, NewRow, ChartIds
<1>2. CASE c = job.who
  <2>1. NewRow(job) \in Kept(job)
    BY <1>1 DEF Kept, Saved, Replaced
  <2> QED
    BY <1>1, <1>2, <2>1 DEF Ids
<1>3. CASE c # job.who
  <2>1. PICK r \in charts : IdOf(r) = c
    BY DEF Ids
  <2>2. r \in Kept(job)
    BY <1>1, <1>3, <2>1 DEF Kept, Saved
  <2> QED
    BY <2>1, <2>2 DEF Ids
<1> QED
  BY <1>2, <1>3

\* Relabelling rows leaves the ids that are there, and whose they are.
LEMMA RelabelledIds ==
  ASSUME NEW rows \in SUBSET Rows, NEW p, NEW n \in Names, NEW renamed \in BOOLEAN
  PROVE  /\ Ids(Relabelled(rows, renamed, p, n)) = Ids(rows)
         /\ \A c \in Relabelled(rows, renamed, p, n) :
              \E r \in rows : c.person = r.person /\ c = Relabel(r, renamed, p, n)
<1>1. \A r \in rows : /\ IdOf(Relabel(r, renamed, p, n)) = IdOf(r)
                      /\ Relabel(r, renamed, p, n).person = r.person
  BY RelabelType DEF Relabel
<1> QED
  BY <1>1 DEF Ids, Relabelled

\* A new chart takes the place of the one it follows, and of what referred to that one.
LEMMA FinishBirthCharts ==
  ASSUME TypeInv, ChartInv, NEW i \in DOMAIN queue, i = 1, queue[i].pc = "computing", FinishBirth(i)
  PROVE  OneChart' /\ RefersToCharts'
<1> DEFINE job == queue[i]
           who == job.who.person
<1>a. /\ OneChart /\ RefersToCharts /\ PriorFits(job) /\ job.kind = "birth"
      /\ who \in Persons /\ NewRow(job) \in Rows /\ Kept(job) \subseteq Rows /\ NewRow(job).label \in Names
      /\ link \in [Persons -> ChartIds \cup {NoRow}] /\ charts \subseteq Rows
  <2>1. OneChart /\ RefersToCharts /\ PriorFits(job) /\ job.kind = "birth"
    BY DEF ChartInv, QueueInv, PriorsFit, FinishBirth
  <2>2. who \in Persons /\ NewRow(job) \in Rows /\ Kept(job) \subseteq Rows
    BY Computed, KeptType
  <2> QED
    BY <2>1, <2>2 DEF Rows, TypeInv, TypeOK
<1>b. charts' = Relabelled(Kept(job), Renamed(job), who, NewRow(job).label)
  BY FinishBirthIs
<1>c. Renamed(job) \in BOOLEAN
  BY DEF Renamed
<1>1. Ids(charts') = Ids(Kept(job))
  BY <1>a, <1>b, <1>c, RelabelledIds
<1>2. ASSUME NEW c \in charts', NEW d \in charts', c.person = d.person PROVE c = d
  <2> DEFINE f(r) == Relabel(r, Renamed(job), who, NewRow(job).label)
  <2>0. \A x \in charts' : \E r \in Kept(job) : x.person = r.person /\ x = f(r)
    BY <1>a, <1>b, <1>c, RelabelledIds
  <2> HIDE DEF f
  <2>1. PICK r \in Kept(job) : c.person = r.person /\ c = f(r)
    BY <2>0
  <2>2. PICK s \in Kept(job) : d.person = s.person /\ d = f(s)
    BY <2>0
  <2>3. CASE r.person = who
    BY <1>2, <1>a, <2>1, <2>2, <2>3, OnlyTheNewRow
  <2>4. CASE r.person # who
    <3>0. NewRow(job).person = who
      BY DEF NewRow
    <3>1. r # NewRow(job) /\ s # NewRow(job)
      BY <1>2, <2>1, <2>2, <2>4, <3>0
    <3>2. r \in charts /\ s \in charts
      BY <3>1 DEF Kept, Saved
    <3> QED
      BY <1>2, <1>a, <2>1, <2>2, <3>2 DEF OneChart
  <2> QED
    BY <2>3, <2>4
<1>3. readings' \subseteq Ids(charts')
  <2>1. ASSUME NEW c \in readings' PROVE c \in Ids(charts')
    <3>1. c \in Ids(charts) /\ (Replaced(job) => c # IdOf(job.prior))
      BY <1>a, FinishBirthIs DEF RefersToCharts
    <3> QED
      BY <1>1, <3>1, KeptIds
  <2> QED
    BY <2>1
<1>4. ASSUME NEW p \in Persons, link'[p] # NoRow PROVE link'[p] \in Ids(charts') /\ link'[p].person = p
  <2>1. CASE Replaced(job)
    <3>1. link' = Unlinked(charts, Kept(job))
      BY <2>1, FinishBirthIs
    <3>2. link'[p] = IF link[p] \in Ids(Kept(job)) THEN link[p] ELSE NoRow
      BY <3>1 DEF Unlinked
    <3> QED
      BY <1>4, <1>a, <1>1, <3>2 DEF RefersToCharts
  <2>2. CASE ~Replaced(job)
    <3>1. link' = link
      BY <2>2, FinishBirthIs
    <3>2. link[p] \in Ids(charts) /\ link[p].person = p
      BY <1>4, <1>a, <3>1 DEF RefersToCharts
    <3> QED
      BY <1>1, <2>2, <3>1, <3>2, KeptIds
  <2> QED
    BY <2>1, <2>2
<1>5. /\ predictive'.key = NoRow => predictive'.status = "idle"
      /\ predictive'.key # NoRow => predictive'.key \in Ids(charts')
  <2>1. CASE predictive.key # NoRow /\ predictive.key.person = who
    <3>1. predictive' = Idle
      BY <2>1, FinishBirthIs
    <3> QED
      BY <3>1 DEF Idle
  <2>2. CASE predictive.key = NoRow
    <3>1. predictive' = predictive
      BY <2>2, FinishBirthIs
    <3> QED
      BY <1>a, <2>2, <3>1 DEF RefersToCharts
  <2>3. CASE predictive.key # NoRow /\ predictive.key.person # who
    <3>1. predictive' = predictive
      BY <2>3, FinishBirthIs
    <3>2. predictive.key \in Ids(charts)
      BY <1>a, <2>3 DEF RefersToCharts
    <3>3. Replaced(job) => IdOf(job.prior).person = who
      BY <1>a DEF Replaced, PriorFits, IdOf, Id
    <3>4. predictive.key \in Ids(Kept(job))
      BY <2>3, <3>2, <3>3, KeptIds
    <3> QED
      BY <1>1, <2>3, <3>1, <3>4
  <2> QED
    BY <2>1, <2>2, <2>3
<1> QED
  BY <1>2, <1>3, <1>4, <1>5 DEF OneChart, RefersToCharts

\* A finished computation, of a birth or of a day, keeps the invariant.
LEMMA FinishCharts ==
  ASSUME TypeInv, ChartInv, NEW i \in DOMAIN queue, Finish(i)
  PROVE  ChartInv'
<1>1. QueueInv /\ i = 1 /\ queue[i].pc = "computing" /\ RemoveAt(queue, i) \in Seq(Jobs)
  BY HeadOnly, Computed DEF ChartInv, Finish
<1>2. QueueInv'
  <2> DEFINE rest == RemoveAt(queue, 1)
  <2>1. queue' = Touched(rest, queue[1].who.person) /\ rest \in Seq(Jobs)
    BY <1>1 DEF Finish
  <2>2. \A j \in DOMAIN rest : NotBegun(rest[j])
    BY <1>1, RestNotBegun
  <2> HIDE DEF rest
  <2>3. /\ DOMAIN queue' = DOMAIN rest
        /\ \A j \in DOMAIN rest : queue'[j].pc = rest[j].pc /\ queue'[j].prior = rest[j].prior
    BY <2>1, TouchedJobs DEF Touched
  <2> QED
    BY <2>2, <2>3, NothingBegun DEF NotBegun
<1>3. CASE FinishBirth(i)
  BY <1>1, <1>2, <1>3, FinishBirthCharts DEF ChartInv
<1>4. CASE FinishDay(i)
  BY <1>1, <1>2, <1>4, FinishDayCharts, SameCharts DEF FinishDay
<1> QED
  BY <1>3, <1>4 DEF Finish

\* Marking the jobs of a person whose rows changed keeps the queue right, if
\* the rows of others and the ids of every person stay, or the person goes.
LEMMA TouchedQueue ==
  ASSUME TypeInv, QueueInv, NEW p \in Persons, queue' = Touched(queue, p),
         \A r \in charts' : \E s \in charts : r.person = s.person /\ IdOf(r) = IdOf(s),
         \A r \in charts : r.person # p => r \in charts'
  PROVE  QueueInv'
<1>a. queue \in Seq(Jobs)
  BY DEF TypeInv, TypeOK
<1>1. DOMAIN queue' = DOMAIN queue
  BY DEF Touched
<1>2. ASSUME NEW i \in DOMAIN queue' PROVE PriorFits(queue[i])' /\ (i # 1 => queue'[i].pc = "waiting")
  <2> DEFINE new == queue'[i]
             old == queue[i]
  <2>1. /\ new.kind = old.kind /\ new.who = old.who /\ new.pc = old.pc /\ new.prior = old.prior
        /\ new.intact => old.intact /\ (new.prior # NoRow => new.prior.person # p)
    BY <1>a, <1>1, TouchedJobs
  <2>2. PriorFits(old) /\ (i # 1 => old.pc = "waiting")
    BY <1>1 DEF QueueInv, OnlyHeadComputes, PriorsFit
  <2>3. new.prior # NoRow /\ new.intact => new.prior \in charts'
    BY <2>1, <2>2 DEF PriorFits
  <2>4. ASSUME new.pc = "computing", new.kind = "birth", NEW r \in charts', r.person = new.who.person
        PROVE  new.prior # NoRow /\ IdOf(r) = IdOf(new.prior)
    <3>1. PICK s \in charts : r.person = s.person /\ IdOf(r) = IdOf(s)
      OBVIOUS
    <3> QED
      BY <2>1, <2>2, <2>4, <3>1 DEF PriorFits
  <2> QED
    BY <2>1, <2>2, <2>3, <2>4 DEF PriorFits
<1> QED
  BY <1>2 DEF QueueInv, OnlyHeadComputes, PriorsFit

\* A rename relabels charts and moves none.
LEMMA RenameCharts ==
  ASSUME TypeInv, ChartInv, NEW p \in Subjects, NEW n \in Names, Rename(p, n)
  PROVE  ChartInv'
<1>a. /\ OneChart /\ QueueInv /\ RefersToCharts /\ charts \subseteq Rows /\ p \in Persons
  BY RegenerationAssumption DEF ChartInv, TypeInv, TypeOK
<1>b. PICK renamed \in BOOLEAN : renamed
  OBVIOUS
<1>1. UNCHANGED <<readings, link, predictive>> /\ charts' = Relabelled(charts, renamed, p, n)
  BY <1>b DEF Rename, derived, Relabelled, Relabel
<1>2. Ids(charts') = Ids(charts) /\ \A c \in charts' : \E r \in charts : c.person = r.person /\ c = Relabel(r, renamed, p, n)
  <2>1. charts \in SUBSET Rows /\ n \in Names /\ renamed \in BOOLEAN
    BY <1>a
  <2>2. /\ Ids(Relabelled(charts, renamed, p, n)) = Ids(charts)
        /\ \A c \in Relabelled(charts, renamed, p, n) :
             \E r \in charts : c.person = r.person /\ c = Relabel(r, renamed, p, n)
    BY <2>1, RelabelledIds
  <2> QED
    BY <1>1, <2>2
<1>3. \A c \in charts' : \E r \in charts : c.person = r.person /\ IdOf(c) = IdOf(r)
  BY <1>a, <1>2, RelabelType DEF Relabel
<1>4. \A r \in charts : r.person # p => r \in charts'
  BY <1>1 DEF Relabelled, Relabel
<1>5. QueueInv'
  <2>1. CASE charts' = charts
    <3>1. queue' = queue
      BY <2>1 DEF Rename
    <3> QED
      BY <1>a, <2>1, <3>1, QueueGrows
  <2>2. CASE charts' # charts
    <3>1. queue' = Touched(queue, p)
      BY <2>2 DEF Rename
    <3> QED
      BY <1>a, <1>3, <1>4, <3>1, TouchedQueue
  <2> QED
    BY <2>1, <2>2
<1>6. OneChart'
  BY <1>a, <1>2 DEF OneChart
<1>7. RefersToCharts'
  BY <1>a, <1>1, <1>2 DEF RefersToCharts
<1> QED
  BY <1>5, <1>6, <1>7 DEF ChartInv

\* With a person go the charts and all that refers to them.
LEMMA DeletePersonCharts ==
  ASSUME TypeInv, ChartInv, NEW p \in Subjects, DeletePerson(p)
  PROVE  ChartInv'
<1>a. /\ OneChart /\ QueueInv /\ RefersToCharts /\ charts \subseteq Rows /\ p \in Persons
      /\ link \in [Persons -> ChartIds \cup {NoRow}]
  BY RegenerationAssumption DEF ChartInv, TypeInv, TypeOK
<1>1. /\ charts' = {r \in charts : r.person # p} /\ readings' = {c \in readings : c.person # p}
      /\ link' = [link EXCEPT ![p] = NoRow] /\ queue' = Touched(queue, p)
      /\ predictive' = IF predictive.key # NoRow /\ predictive.key.person = p THEN Idle ELSE predictive
  BY DEF DeletePerson
<1>2. QueueInv'
  BY <1>a, <1>1, TouchedQueue
<1>3. ASSUME NEW c \in Ids(charts), c.person # p PROVE c \in Ids(charts')
  <2>1. PICK r \in charts : IdOf(r) = c
    BY DEF Ids
  <2>2. r.person # p
    BY <1>3, <2>1 DEF IdOf, Id
  <2> QED
    BY <1>1, <2>1, <2>2 DEF Ids
<1>4. OneChart'
  BY <1>a, <1>1 DEF OneChart
<1>5. readings' \subseteq Ids(charts')
  BY <1>a, <1>1, <1>3 DEF RefersToCharts
<1>6. \A x \in Persons : link'[x] # NoRow => link'[x] \in Ids(charts') /\ link'[x].person = x
  BY <1>a, <1>1, <1>3 DEF RefersToCharts
<1>7. /\ predictive'.key = NoRow => predictive'.status = "idle"
      /\ predictive'.key # NoRow => predictive'.key \in Ids(charts')
  BY <1>a, <1>1, <1>3 DEF RefersToCharts, Idle
<1> QED
  BY <1>2, <1>4, <1>5, <1>6, <1>7 DEF ChartInv, RefersToCharts

\* A reading, a chat or a forecast refers to a chart that is there.
LEMMA UseCharts ==
  ASSUME TypeInv, ChartInv,
         \/ \E row \in charts : Read(row) \/ Chat(row) \/ Ask(row)
         \/ \E key \in inflight : Answer(key)
  PROVE  ChartInv'
<1>a. /\ OneChart /\ QueueInv /\ RefersToCharts /\ charts \subseteq Rows /\ inflight \subseteq ChartIds
      /\ link \in [Persons -> ChartIds \cup {NoRow}]
  BY DEF ChartInv, TypeInv, TypeOK
<1>b. charts' = charts /\ queue' = queue
  BY DEF Read, Chat, Ask, Answer
<1>c. OneChart' /\ QueueInv' /\ Ids(charts') = Ids(charts)
  BY <1>a, <1>b, QueueGrows DEF OneChart
<1>d. \A row \in charts : /\ IdOf(row) \in Ids(charts) /\ IdOf(row) \in ChartIds /\ IdOf(row) # NoRow
                          /\ IdOf(row).person = row.person
  BY <1>a, RowIds, NoRowApart DEF Ids
<1>1. ASSUME NEW row \in charts, Read(row) PROVE RefersToCharts'
  BY <1>1, <1>a, <1>c, <1>d DEF Read, RefersToCharts
<1>2. ASSUME NEW row \in charts, Chat(row) PROVE RefersToCharts'
  BY <1>2, <1>a, <1>c, <1>d DEF Chat, RefersToCharts
<1>3. ASSUME NEW row \in charts, Ask(row) PROVE RefersToCharts'
  BY <1>3, <1>a, <1>c, <1>d DEF Ask, RefersToCharts
<1>4. ASSUME NEW key \in inflight, Answer(key) PROVE RefersToCharts'
  <2>1. UNCHANGED <<readings, link>>
    BY <1>4 DEF Answer
  <2>2. \/ predictive' = predictive
        \/ predictive.key = key /\ predictive'.key = key
    BY <1>4 DEF Answer, Awaited
  <2>3. key # NoRow
    BY <1>a, NoRowApart
  <2> QED
    BY <1>a, <1>c, <2>1, <2>2, <2>3 DEF RefersToCharts
<1> QED
  BY <1>c, <1>1, <1>2, <1>3, <1>4 DEF ChartInv

\* The invariant holds at first.
LEMMA InitCharts == Init => ChartInv
<1> SUFFICES ASSUME Init PROVE ChartInv
  OBVIOUS
<1>1. OneChart /\ readings = {} /\ queue = <<>> /\ predictive = Idle
  BY DEF Init, OneChart
<1>2. QueueInv
  BY <1>1 DEF QueueInv, OnlyHeadComputes, PriorsFit
<1>3. RefersToCharts
  BY <1>1 DEF RefersToCharts, Init, Idle
<1> QED
  BY <1>1, <1>2, <1>3 DEF ChartInv

\* Every step keeps types and invariant.
LEMMA NextInv == TypeInv /\ ChartInv /\ [Next]_vars => TypeInv' /\ ChartInv'
<1> SUFFICES ASSUME TypeInv, ChartInv, [Next]_vars PROVE TypeInv' /\ ChartInv'
  OBVIOUS
<1>1. ASSUME NEW p \in Subjects, NEW b \in Births, Request(p, b) PROVE TypeInv' /\ ChartInv'
  BY <1>1, RequestType, IntakeCharts
<1>2. CASE Mount
  BY <1>2, MountType, IntakeCharts
<1>3. CASE EngineUp \/ EngineDown
  BY <1>3, UseType, IntakeCharts
<1>4. CASE Drain
  BY <1>4, DrainType, IntakeCharts
<1>5. ASSUME NEW i \in DOMAIN queue, Start(i) PROVE TypeInv' /\ ChartInv'
  BY <1>5, StartType, StartCharts
<1>6. ASSUME NEW i \in DOMAIN queue, Finish(i) PROVE TypeInv' /\ ChartInv'
  <2>1. i = 1 /\ queue[i].pc = "computing"
    BY <1>6, HeadOnly DEF ChartInv, Finish
  <2>2. queue[i].kind = "day" => queue[i].prior # NoRow
    BY <2>1 DEF ChartInv, QueueInv, PriorsFit, PriorFits
  <2> QED
    BY <1>6, <2>1, <2>2, FinishType, FinishCharts
<1>7. ASSUME NEW i \in DOMAIN queue, Fail(i) PROVE TypeInv' /\ ChartInv'
  BY <1>7, HeadOnly, FailType, FailCharts DEF ChartInv
<1>8. ASSUME NEW p \in Subjects, NEW n \in Names, Rename(p, n) PROVE TypeInv' /\ ChartInv'
  BY <1>8, RenameType, RenameCharts
<1>9. ASSUME NEW p \in Subjects, DeletePerson(p) PROVE TypeInv' /\ ChartInv'
  BY <1>9, DeletePersonType, DeletePersonCharts
<1>10. ASSUME NEW row \in charts, Reanchor(row) PROVE TypeInv' /\ ChartInv'
  BY <1>10, ReanchorType, IntakeCharts
<1>11. ASSUME NEW row \in charts, Read(row) \/ Chat(row) \/ Ask(row) PROVE TypeInv' /\ ChartInv'
  BY <1>11, UseType, UseCharts
<1>12. ASSUME NEW key \in inflight, Answer(key) PROVE TypeInv' /\ ChartInv'
  BY <1>12, UseType, UseCharts
<1>13. CASE UNCHANGED vars
  <2>1. TypeInv'
    BY <1>13 DEF vars, TypeInv, TypeOK
  <2>2. QueueInv'
    BY <1>13, QueueGrows DEF vars, ChartInv
  <2> QED
    BY <1>13, <2>1, <2>2, SameCharts DEF vars
<1> QED
  BY <1>1, <1>2, <1>3, <1>4, <1>5, <1>6, <1>7, <1>8, <1>9, <1>10, <1>11, <1>12, <1>13 DEF Next, Run

\* The inductive invariant holds throughout.
LEMMA InvHolds == Spec => [](TypeInv /\ ChartInv)
<1>1. Init => TypeInv /\ ChartInv
  BY InitType, InitCharts
<1> QED
  BY <1>1, NextInv, PTL DEF Spec

\* Requests, the queue, the library and what is derived from it keep their
\* types, for any persons, births and number of requests.
THEOREM RegenerationTypes == Spec => []TypeOK
<1>1. TypeInv => TypeOK
  BY DEF TypeInv
<1> QED
  BY <1>1, InvHolds, PTL

\* regenerateOnBirthChange, chained behind queueTail: of any number of
\* overlapping edits, re-anchorings, renames and deletions, none leaves a person
\* with two charts.
THEOREM OneChartEach == Spec => []OneChart
<1>1. ChartInv => OneChart
  BY DEF ChartInv
<1> QED
  BY <1>1, InvHolds, PTL

\* The cleanup of a replaced or deleted chart is complete: whatever was read,
\* chatted about or forecast while the new one was computing, no reading, link
\* or predictive layer refers to a chart that is gone.
THEOREM NothingDangles == Spec => []NothingDangling
<1>1. TypeInv /\ ChartInv => NothingDangling
  BY DEF TypeInv, TypeOK, ChartInv, RefersToCharts, NothingDangling
<1> QED
  BY <1>1, InvHolds, PTL

\* A queue from which an entry was taken is not one in which entries were only
\* marked, and if it was a re-anchoring, no birth was finished.
LEMMA ReanchorStep ==
  ASSUME TypeInv, ChartInv, [Next]_vars, NEW n \in DOMAIN queue,
         queue[n].kind = "day", queue' = RemoveAt(queue, n)
  PROVE  charts' = charts
<1>a. queue \in Seq(Jobs) /\ QueueInv /\ Len(queue) \in Nat
  BY DEF TypeInv, TypeOK, ChartInv
<1>b. Len(queue') = Len(queue) - 1
  BY <1>a, FirstRemoved, LaterRemoved
<1>1. ASSUME NEW p \in Subjects, NEW m \in Names, Rename(p, m) PROVE charts' = charts
  <2>1. queue' # Touched(queue, p)
    <3>1. Len(Touched(queue, p)) = Len(queue)
      BY <1>a, TouchedJobs
    <3> QED
      BY <1>a, <1>b, <3>1
  <2> QED
    BY <1>1, <2>1 DEF Rename
<1>2. ASSUME NEW p \in Subjects, DeletePerson(p) PROVE charts' = charts
  <2>1. Len(Touched(queue, p)) = Len(queue) /\ queue' = Touched(queue, p)
    BY <1>2, <1>a, TouchedJobs DEF DeletePerson
  <2> QED
    BY <1>a, <1>b, <2>1
<1>3. ASSUME NEW i \in DOMAIN queue, Finish(i) PROVE charts' = charts
  <2>1. i = 1 /\ queue[1].pc = "computing"
    BY <1>a, <1>3, HeadOnly DEF Finish
  <2>2. CASE FinishDay(i)
    BY <2>1, <2>2, FinishDayCharts
  <2>3. CASE FinishBirth(i)
    <3> DEFINE rest == RemoveAt(queue, 1)
    <3>1. queue[1].kind = "birth"
      BY <2>1, <2>3, FinishBirthIs
    <3>2. n # 1
      BY <3>1
    <3>3. queue'[1] = queue[1] /\ 2 <= Len(queue)
      BY <1>a, <3>2, LaterRemoved
    <3>4. queue' = Touched(rest, queue[1].who.person)
      BY <1>3, <2>1 DEF Finish
    <3>5. rest \in Seq(Jobs) /\ 1 \in DOMAIN rest /\ NotBegun(rest[1])
      BY <1>a, <2>1, <3>3, FirstRemoved, RestNotBegun
    <3> HIDE DEF rest
    <3>6. queue'[1].pc = "waiting"
      BY <3>4, <3>5, TouchedJobs DEF NotBegun
    <3> QED
      BY <2>1, <3>3, <3>6
  <2> QED
    BY <1>3, <2>2, <2>3 DEF Finish
<1>4. CASE UNCHANGED charts
  BY <1>4
<1>5. \A i : Start(i) \/ Fail(i) => UNCHANGED charts
  BY DEF Start, Fail
<1>6. \A row : Reanchor(row) \/ Read(row) \/ Chat(row) \/ Ask(row) \/ Answer(row) => UNCHANGED charts
  BY DEF Reanchor, Read, Chat, Ask, Answer
<1>7. \A p, b : Request(p, b) => UNCHANGED charts
  BY DEF Request
<1>8. Mount \/ EngineUp \/ Drain \/ EngineDown \/ UNCHANGED vars => UNCHANGED charts
  BY DEF Mount, EngineUp, Drain, EngineDown, vars
<1> QED
  BY <1>1, <1>2, <1>3, <1>4, <1>5, <1>6, <1>7, <1>8 DEF Next, Run

\* useChartReanchor saves the re-anchored row only if it is still the one it
\* read: it never brings a deleted or replaced chart back, nor an old name.
THEOREM ReanchorKeeps == Spec => ReanchorKeepsRows
<1>1. TypeInv /\ ChartInv /\ [Next]_vars =>
        [\A i \in DOMAIN queue :
           queue[i].kind = "day" /\ queue' = RemoveAt(queue, i) => charts' = charts]_vars
  BY ReanchorStep
<1> QED
  BY <1>1, InvHolds, PTL DEF Spec, ReanchorKeepsRows
=============================================================================
