---------------------------- MODULE CarefulTabs ----------------------------
(***************************************************************************)
(* DatasetGeneration without the steps that a tab takes on what it no      *)
(* longer knows to be so. NoResurrection and LossIsExplained fail when a   *)
(* tab takes one of them (README, Disagreements); here they hold: these    *)
(* steps are all the ways the fence has of failing.                        *)
(***************************************************************************)
EXTENDS DatasetGeneration

\* The validator refuses a file whose charts or threads name a missing person
\* (assertKnownReference), and repairs the other references of one.
ASSUME BackupsAreWhole == \A b \in Backups : \A i \in b : Owner[i] \in b

-----------------------------------------------------------------------------
\* What an erasure of gone takes: the items and all they own.
Ruined(gone) == {i \in Item : i \in gone \/ Owner[i] \in gone}

\* What a user or a deletion, carried out or recorded, takes from the dataset.
Explained == removed \cup Ruined(erased \cup ledger.tombstones)

\* The fence takes a tab hydrated at h, under a lease at lh, for up to date.
UpToDate(h, lh) == ledger.activeEpoch \in {h, lh}

\* The k-th transaction of r is a store write that the active generation still
\* takes once r is hydrated at lh under a lease.
Savable(r, k, lh) ==
    /\ queue[r][k].type = "write"
    /\ \/ queue[r][k].hydratedEpoch = ledger.activeEpoch
       \/ queue[r][k].hydratedEpoch = Unset /\ lh = ledger.activeEpoch

-----------------------------------------------------------------------------
\* A lease is recovered while its owner lives: only where there are no Web Locks.
TakesLiveLease(r) ==
    /\ Recover(r)
    /\ LeaseActive(Head(queue[r]).epoch)
    /\ OwnerLives

\* A presence read takes the stores for hydrated that hold an older generation.
WakesStale(r) ==
    /\ PresenceRead(r)
    /\ hydrated'[r] # hydrated[r]
    /\ leaseHydrated[r] # ledger.activeEpoch

\* A notice hydrates the stores again while a change made before waits unsaved,
\* and will be saved.
OvertakesWrite(r) ==
    /\ HandleNotice(r)
    /\ HydrationEffects(r)
    /\ \E k \in DOMAIN queue[r] : /\ Savable(r, k, leaseHydrated'[r])
                                  /\ queue[r][k].items # Readable

\* A tab commits a deletion that is not its own while its stores hold what that
\* deletion or an earlier one erases, or lack what they held when it asked.
HelpsUnpurged(r) ==
    /\ CommitDeletion(r)
    /\ LeaseActive(Head(queue[r]).epoch)
    /\ op[r].epoch # ledger.restoreEpoch
    /\ \/ memory[r] \cap Ruined(erased \cup ledger.tombstones) # {}
       \/ ~(Head(queue[r]).items \ memory[r] \subseteq Explained)

\* The notice of a reset or a deletion empties stores that are up to date of
\* what nothing took: a Replace has brought it back since.
HandlesLate(r) ==
    /\ HandleNotice(r)
    /\ UpToDate(hydrated'[r], leaseHydrated'[r])
    /\ \/ NoHydration(r) /\ ~(memory[r] \ memory'[r] \subseteq Explained)
       \/ HydrationEffects(r) /\ ~(Readable \ memory'[r] \subseteq Explained)

ActsStale(r) == TakesLiveLease(r) \/ WakesStale(r) \/ OvertakesWrite(r) \/ HelpsUnpurged(r)

FreshNext == Next /\ \A r \in Realm : ~ActsStale(r)
FreshSpec == Init /\ [][FreshNext]_vars

CarefulNext == FreshNext /\ \A r \in Realm : ~HandlesLate(r)
CarefulSpec == Init /\ [][CarefulNext]_vars
=============================================================================
