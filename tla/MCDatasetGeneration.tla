------------------------ MODULE MCDatasetGeneration ------------------------
(***************************************************************************)
(* Instances of DatasetGeneration and CarefulTabs for TLC: two persons,    *)
(* the second of whom owns the records a and b that tabs add, remove,      *)
(* delete and import.                                                      *)
(***************************************************************************)
EXTENDS CarefulTabs, TLC

CONSTANTS p, q, a, b

MCItem == {p, q, a, b}
MCOwner == [i \in MCItem |-> IF i \in {a, b} THEN q ELSE i]
OneRecord == {p, q, a}
OwnerOfOne == [i \in OneRecord |-> IF i = a THEN q ELSE i]
Family == {p, q, a}
Couple == {q, a}
TwoPersons == {p, q}
OneBackup == {{p, a, q}}
ResetOnly == {{}}
Restores == {"restore"}
DeletesAndRestores == {"delete", "restore"}

\* Every tab hydrated before the first destructive operation.
OpenTabs ==
    /\ ledger = [activeEpoch |-> 0, restoreEpoch |-> 0,
                 restoreInProgress |-> FALSE, tombstones |-> {}, revive |-> {}]
    /\ row = [epoch |-> 0, items |-> InitialItems]
    /\ leaseOwners = [r \in Realm |-> {}]
    /\ booted = [r \in Realm |-> TRUE]
    /\ observed = [r \in Realm |-> [epoch |-> 0, busy |-> FALSE]]
    /\ hydrated = [r \in Realm |-> 0]
    /\ leaseHydrated = [r \in Realm |-> Unset]
    /\ base = [r \in Realm |-> InitialItems]
    /\ memory = [r \in Realm |-> InitialItems]
    /\ queue = [r \in Realm |-> <<>>]
    /\ watching = [r \in Realm |-> Unset]
    /\ op = [r \in Realm |-> NoOp]
    /\ notices = [r \in Realm |-> <<>>]
    /\ dropped = [r \in Realm |-> FALSE]
    /\ created = InitialItems
    /\ removed = {} /\ erased = {} /\ started = 0 /\ reloads = 0
OpenTabsSpec == OpenTabs /\ [][Next]_vars
OpenCarefulSpec == OpenTabs /\ [][CarefulNext]_vars

TabSymmetry == Permutations(Realm)
=============================================================================
