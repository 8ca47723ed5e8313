----------------------------- MODULE UserRecords -----------------------------
(***************************************************************************)
(* The records a user writes (life events, birth-time checks), the file     *)
(* that replaces them, and the set-aside records: useBackupRestore.ts,      *)
(* backup.ts, setAsideRecords.ts, portableRepair.ts and the boot repair of  *)
(* profileDataLifecycle.ts.  Every SQLite call is one step, as              *)
(* PortableRepository shows it to be; the lease and the fence are the ones  *)
(* of DatasetGeneration.  A person's records are one list of the row; an     *)
(* entry <<p, r>> is the record r in the list of p.                          *)
(***************************************************************************)
EXTENDS Naturals, Functions

CONSTANTS Tabs, People, Records,
          Files,      \* backup files: [people, lists], the lists may dangle
          Inherited,  \* what SQLite may hold at first: a set of [people, lists]
          Hasty,      \* the user acts on a tab that has records to set aside
          Nobody,
          MaxMoves    \* bound: what the users do in one behaviour

Entries == People \X Records
Lists == UNION {[ps -> SUBSET Records] : ps \in SUBSET People}
Rows == [people : SUBSET People, lists : Lists]

ASSUME RecordsAssumption == /\ Files \subseteq Rows /\ Inherited \subseteq Rows
                            /\ Hasty \in BOOLEAN /\ MaxMoves \in Nat
                            /\ Nobody \notin Tabs

VARIABLES rows,    \* SQLite: the people and the records of the dataset
          held,    \* SQLite: the set-aside records
          gen,     \* the active generation of the dataset
          epoch,   \* SQLite's own count of batches
          lease,   \* the tab that is replacing the dataset
          view,    \* each tab's stores, their merge base and their generations
          task,    \* what each tab is doing
          copies,  \* records in the safety copies the user has
          known,   \* history: records SQLite has held
          givenUp, \* history: records the user removed or chose not to protect, and those
                   \* that another list of their person has replaced whole
          moves

vars == <<rows, held, gen, epoch, lease, view, task, copies, known, givenUp, moves>>
history == <<known, givenUp>>

Recs(lists) == UNION Range(lists)
In(lists) == {i \in Entries : i[1] \in DOMAIN lists /\ i[2] \in lists[i[1]]}
OfPresent(people, lists) == Restrict(lists, DOMAIN lists \cap people)
Dangling(people, lists) == Restrict(lists, DOMAIN lists \ people)
Of(lists, p) == IF p \in DOMAIN lists THEN lists[p] ELSE {}
With(lists, p, r) ==
  [x \in DOMAIN lists \cup {p} |-> IF x = p THEN Of(lists, p) \cup {r} ELSE lists[x]]

Idle == [pc |-> "idle"]
Pc(t) == task[t].pc
To(t, next) == task' = [task EXCEPT ![t] = next]
Goto(t, pc) == To(t, [task[t] EXCEPT !.pc = pc])

Init == /\ rows \in Inherited
        /\ held = {} /\ copies = {} /\ givenUp = {}
        /\ gen = 0 /\ epoch = 0 /\ lease = Nobody
        /\ view = [t \in Tabs |-> [people |-> {}, lists |-> <<>>, base |-> <<>>, pgen |-> 0, lgen |-> 0]]
        /\ task = [t \in Tabs |-> [pc |-> "people"]]
        /\ known = Recs(rows.lists)
        /\ moves = 0

Batch == epoch' = epoch + 1
Move == moves < MaxMoves /\ moves' = moves + 1
Missing(t) == Dangling(view[t].people, view[t].lists)

(* The user turns to a tab that is loaded; only a hasty one does so while any *)
(* tab is between its two readings, or has a repair under way.               *)
AtHand(t) == \/ Pc(t) = "idle" /\ Missing(t) = <<>> /\ \A u \in Tabs : Pc(u) \notin {"records", "adopt"}
             \/ Hasty /\ Pc(t) \in {"idle", "adopt"}

-----------------------------------------------------------------------------
(* Loading a tab, and its writes. *)

Reload(t) == /\ Pc(t) = "idle" /\ Move
             /\ Goto(t, "people")
             /\ UNCHANGED <<rows, held, gen, epoch, lease, view, copies, history>>

\* Another tab's Replace: every store is hydrated again, one after the other.
AdoptGeneration(t) ==
  /\ Pc(t) = "idle" /\ {view[t].pgen, view[t].lgen} # {gen}
  /\ Goto(t, "people")
  /\ UNCHANGED <<rows, held, gen, epoch, lease, view, copies, history, moves>>

HydratePeople(t) ==
  /\ Pc(t) = "people"
  /\ view' = [view EXCEPT ![t].people = rows.people, ![t].pgen = gen]
  /\ Goto(t, "records")
  /\ UNCHANGED <<rows, held, gen, epoch, lease, copies, history, moves>>

HydrateRecords(t) ==
  /\ Pc(t) = "records"
  /\ view' = [view EXCEPT ![t].lists = rows.lists, ![t].base = rows.lists, ![t].lgen = gen]
  /\ To(t, Idle)
  /\ UNCHANGED <<rows, held, gen, epoch, lease, copies, history, moves>>

(* The lists of one row, merged: within a list that all three sides have a    *)
(* deletion on either side wins and an addition survives; a list that has no  *)
(* base is one value, and that of the tab wins (see RowMerge).                *)
MergeList(base, local, remote) == (local \cap remote) \cup ((local \cup remote) \ base)

Merge(base, local, remote) ==
  LET both == DOMAIN local \cap DOMAIN remote
      kept == both \cup ((DOMAIN local \cup DOMAIN remote) \ DOMAIN base)
  IN [p \in kept |-> IF p \in both \cap DOMAIN base THEN MergeList(base[p], local[p], remote[p])
                     ELSE IF p \in DOMAIN local THEN local[p] ELSE remote[p]]

\* What the first list that a tab writes for a person replaces.
Overwritten(base, local, remote) ==
  UNION {remote[p] : p \in (DOMAIN local \cap DOMAIN remote) \ DOMAIN base}

Accepts(t) == lease = Nobody /\ {view[t].pgen, view[t].lgen} = {gen}

(* The stores of a tab become people and lists, without what the user removed, *)
(* and are saved if the fence lets the write through.                        *)
Save(t, people, lists, removed) ==
  IF Accepts(t)
  THEN /\ rows' = [people |-> rows.people \cup people,
                   lists |-> Merge(view[t].base, lists, rows.lists)]
       /\ view' = [view EXCEPT ![t].people = people, ![t].lists = lists, ![t].base = lists]
       /\ known' = known \cup Recs(rows'.lists)
       /\ givenUp' = givenUp \cup removed \cup Overwritten(view[t].base, lists, rows.lists)
       /\ Batch
  ELSE /\ view' = [view EXCEPT ![t].people = people, ![t].lists = lists]
       /\ givenUp' = givenUp \cup removed
       /\ UNCHANGED <<rows, known, epoch>>

Named(row) == row.people \cup DOMAIN row.lists
Everyone == {i[1] : i \in held}
              \cup (UNION {Named(row) : row \in Files \cup Inherited \cup {rows}})
              \cup (UNION {Named(view[t]) \cup DOMAIN view[t].base : t \in Tabs})

\* A new person and a new record have ids of their own.
AddPerson(t, p) ==
  /\ AtHand(t) /\ Move
  /\ p \notin Everyone
  /\ Save(t, view[t].people \cup {p}, view[t].lists, {})
  /\ UNCHANGED <<held, gen, lease, task, copies>>

AddRecord(t, i) ==
  /\ AtHand(t) /\ Move
  /\ i[1] \in view[t].people
  /\ i[2] \notin known \cup UNION ({Recs(f.lists) : f \in Files} \cup {Recs(view[u].lists) : u \in Tabs})
  /\ Save(t, view[t].people, With(view[t].lists, i[1], i[2]), {})
  /\ UNCHANGED <<held, gen, lease, task, copies>>

RemoveRecord(t, i) ==
  /\ AtHand(t) /\ Move
  /\ i \in In(view[t].lists)
  /\ Save(t, view[t].people, [view[t].lists EXCEPT ![i[1]] = @ \ {i[2]}], {i[2]})
  /\ UNCHANGED <<held, gen, lease, task, copies>>

-----------------------------------------------------------------------------
(* The boot repair (reconcilePortableReferences): hold, then drop. *)

HoldDangling(t) ==
  /\ Pc(t) = "idle" /\ {view[t].pgen, view[t].lgen} = {gen}
  /\ Missing(t) # <<>>
  /\ held' = held \cup In(Missing(t))
  /\ Batch
  /\ To(t, [pc |-> "adopt", repaired |-> OfPresent(view[t].people, view[t].lists)])
  /\ UNCHANGED <<rows, gen, lease, view, copies, history, moves>>

(* The repaired state was computed before the hold was awaited. *)
AdoptRepaired(t) ==
  /\ Pc(t) = "adopt"
  /\ Save(t, view[t].people, task[t].repaired, {})
  /\ To(t, Idle)
  /\ UNCHANGED <<held, gen, lease, copies, moves>>

-----------------------------------------------------------------------------
(* Settings: restore a set-aside record, or delete it for good. *)

Attach(t, i, p) ==
  /\ AtHand(t) /\ Pc(t) = "idle" /\ Move
  /\ i \in held /\ p \in view[t].people
  /\ Save(t, view[t].people, With(view[t].lists, p, i[2]), {})
  /\ To(t, [pc |-> "check", item |-> i, onto |-> p])
  /\ UNCHANGED <<held, gen, lease, copies>>

\* Mutant of SavedHolds: the store shows the record, so it counts as saved.
ShowsRecord(t) == task[t].item[2] \in Of(view[t].lists, task[t].onto)

SavedHolds(t) == task[t].item[2] \in Of(rows.lists, task[t].onto)

CheckSaved(t) ==
  /\ Pc(t) = "check"
  /\ IF SavedHolds(t) THEN Goto(t, "release") ELSE To(t, Idle)
  /\ UNCHANGED <<rows, held, gen, epoch, lease, view, copies, history, moves>>

Release(t) ==
  /\ Pc(t) = "release"
  /\ held' = held \ {task[t].item}
  /\ Batch /\ To(t, Idle)
  /\ UNCHANGED <<rows, gen, lease, view, copies, history, moves>>

DeleteHeld(t, i) ==
  /\ AtHand(t) /\ Move
  /\ i \in held
  /\ held' = held \ {i} /\ givenUp' = givenUp \cup {i[2]}
  /\ Batch
  /\ UNCHANGED <<rows, gen, lease, view, task, copies, known>>

-----------------------------------------------------------------------------
(* Import: stage a file, protect what it replaces, replace. *)

HoldsData == rows.people # {} \/ rows.lists # <<>> \/ held # {}
Unchanged == UNCHANGED <<rows, held, gen, epoch, lease, view, copies, history, moves>>

Stage(t, f) ==
  /\ AtHand(t) /\ Pc(t) = "idle" /\ Move
  /\ To(t, [pc |-> "confirm", file |-> f, copyNeeded |-> HoldsData, rev |-> 0, waived |-> FALSE,
            copy |-> {}])
  /\ UNCHANGED <<rows, held, gen, epoch, lease, view, copies, history>>

Cancel(t) == Pc(t) = "confirm" /\ To(t, Idle) /\ Unchanged

(* The first of the two readings of the revision that must agree. *)
Confirm(t) ==
  /\ Pc(t) = "confirm"
  /\ To(t, [task[t] EXCEPT !.pc = IF task[t].copyNeeded THEN "export" ELSE "empty", !.rev = epoch])
  /\ Unchanged

SkipSafety(t) ==
  /\ Pc(t) = "confirm" /\ task[t].copyNeeded
  /\ To(t, [task[t] EXCEPT !.pc = "hold", !.rev = epoch, !.waived = TRUE])
  /\ Unchanged

\* Dangling records stay in the live rows, out of the exported file.
Export(t) ==
  /\ Pc(t) = "export"
  /\ To(t, [task[t] EXCEPT !.pc = "built", !.copy = Recs(OfPresent(rows.people, rows.lists))])
  /\ Unchanged

SaveCopy(t) ==
  /\ Pc(t) = "built"
  /\ \/ /\ task[t].rev = epoch
        /\ copies' = copies \cup task[t].copy
        /\ Goto(t, "hold")
     \/ /\ Goto(t, "confirm")  \* the revision moved, or no file was written
        /\ UNCHANGED copies
  /\ UNCHANGED <<rows, held, gen, epoch, lease, view, history, moves>>

ProveEmpty(t) ==
  /\ Pc(t) = "empty"
  /\ IF HoldsData THEN To(t, Idle) ELSE Goto(t, "stillEmpty")
  /\ Unchanged

StillEmpty(t) ==
  /\ Pc(t) = "stillEmpty"
  /\ IF task[t].rev = epoch THEN Goto(t, "hold") ELSE To(t, Idle)
  /\ Unchanged

FileAside(t) == In(Dangling(task[t].file.people, task[t].file.lists))

(* holdSetAsideRecords: a batch of its own before the lease is taken. *)
HoldFileRecords(t) ==
  /\ Pc(t) = "hold"
  /\ IF FileAside(t) = {} THEN UNCHANGED <<held, epoch, known>>
     ELSE /\ held' = held \cup FileAside(t)
          /\ known' = known \cup {i[2] : i \in FileAside(t)}
          /\ Batch
  /\ Goto(t, "acquire")
  /\ UNCHANGED <<rows, gen, lease, view, copies, givenUp, moves>>

Acquire(t) ==
  /\ Pc(t) = "acquire" /\ lease = Nobody
  /\ lease' = t /\ Batch
  /\ Goto(t, "fence")
  /\ UNCHANGED <<rows, held, gen, view, copies, history, moves>>

\* Mutant of RevisionHolds: any revision passes.
AnyRevision(t) == TRUE

RevisionHolds(t) == epoch = task[t].rev + 1

Enforce(t) ==
  /\ Pc(t) = "fence"
  /\ Goto(t, IF RevisionHolds(t) THEN "commit" ELSE "abort")
  /\ Unchanged

CommitReplace(t) ==
  /\ Pc(t) = "commit"
  /\ rows' = [people |-> task[t].file.people,
              lists |-> OfPresent(task[t].file.people, task[t].file.lists)]
  /\ gen' = gen + 1 /\ lease' = Nobody /\ Batch
  /\ known' = known \cup Recs(rows'.lists)
  /\ givenUp' = IF task[t].waived THEN givenUp \cup Recs(rows.lists) ELSE givenUp
  /\ To(t, [pc |-> "people"])
  /\ UNCHANGED <<held, view, copies, moves>>

\* Mutant of Abort: the lease is kept.
AbortKeepingLease(t) ==
  /\ Pc(t) \in {"abort", "commit"}
  /\ Batch
  /\ To(t, Idle)
  /\ UNCHANGED <<rows, held, gen, lease, view, copies, history, moves>>

(* A refused or failed Replace (abortBackupRestore). *)
Abort(t) ==
  /\ Pc(t) \in {"abort", "commit"}
  /\ lease' = Nobody /\ Batch
  /\ To(t, Idle)
  /\ UNCHANGED <<rows, held, gen, view, copies, history, moves>>

-----------------------------------------------------------------------------
Boot(t) == AdoptGeneration(t) \/ HydratePeople(t) \/ HydrateRecords(t)
Repair(t) == HoldDangling(t) \/ AdoptRepaired(t)
Settings(t) == CheckSaved(t) \/ Release(t)
Replace(t) == HoldFileRecords(t) \/ Acquire(t) \/ Enforce(t) \/ CommitReplace(t) \/ Abort(t)
Protect(t) == Export(t) \/ ProveEmpty(t) \/ StillEmpty(t)

User(t) == \/ Reload(t) \/ Cancel(t) \/ Confirm(t) \/ SkipSafety(t) \/ SaveCopy(t)
           \/ \E p \in People : AddPerson(t, p)
           \/ \E i \in Entries : AddRecord(t, i) \/ RemoveRecord(t, i) \/ DeleteHeld(t, i)
           \/ \E i \in Entries, p \in People : Attach(t, i, p)
           \/ \E f \in Files : Stage(t, f)

Next == \E t \in Tabs : User(t) \/ Boot(t) \/ Repair(t) \/ Settings(t) \/ Protect(t) \/ Replace(t)

(* The steps a tab takes by itself are settled calls; a user may do nothing. *)
Spec == /\ Init /\ [][Next]_vars
        /\ \A t \in Tabs : /\ WF_vars(Boot(t) \/ Repair(t) \/ Settings(t))
                           /\ WF_vars(HoldFileRecords(t)) /\ SF_vars(Acquire(t))
                           /\ WF_vars(Enforce(t) \/ CommitReplace(t) \/ Abort(t))

-----------------------------------------------------------------------------
(* Properties. *)

Stores == [people : SUBSET People, lists : Lists, base : Lists, pgen : Nat, lgen : Nat]

Resting == [pc : {"idle", "people", "records"}]
Repairing == [pc : {"adopt"}, repaired : Lists]
Restoring == [pc : {"check", "release"}, item : Entries, onto : People]
Leasing == {"fence", "commit", "abort"}
Importing == [pc : {"confirm", "export", "built", "empty", "stillEmpty", "hold", "acquire"} \cup Leasing,
              file : Files, copyNeeded : BOOLEAN, rev : Nat, waived : BOOLEAN, copy : SUBSET Records]

TypeOK == /\ rows \in Rows /\ held \subseteq Entries
          /\ gen \in Nat /\ epoch \in Nat /\ moves \in 0 .. MaxMoves
          /\ lease \in Tabs \cup {Nobody}
          /\ \A t \in Tabs : (lease = t) <=> Pc(t) \in Leasing
          /\ view \in [Tabs -> Stores]
          /\ task \in [Tabs -> Resting \cup Repairing \cup Restoring \cup Importing]
          /\ copies \subseteq Records /\ known \subseteq Records /\ givenUp \subseteq Records

(* A record SQLite once held is in the dataset, set aside, or in a safety   *)
(* copy, unless the user removed it or chose to replace it without a copy:  *)
(* no interleaving of repairs, restores, imports and edits of several tabs  *)
(* loses it.                                                                *)
RecordsSurvive == known \subseteq Recs(rows.lists) \cup {i[2] : i \in held} \cup copies \cup givenUp

(* An import the user has confirmed and protected ends.                     *)
ReplaceEnds == \A t \in Tabs : Pc(t) = "acquire" ~> Pc(t) \in {"idle", "people"}
=============================================================================
