------------------------------ MODULE Dataset ------------------------------
(***************************************************************************)
(* What the deletion ledger promises about the dataset, whoever runs it:   *)
(* one destructive operation at a time, the content frozen while it runs,  *)
(* and its end all or nothing. A recorded deletion ends with exactly what  *)
(* it named gone; a Replace ends with exactly the backup; a lease given up *)
(* before that leaves the content as it was.                               *)
(***************************************************************************)
EXTENDS Integers

CONSTANTS Item, Owner, InitialItems, Backups

VARIABLES
    generation,     \* of the content readers see
    content,        \* the items of that generation
    exclusive,      \* a destructive operation holds the dataset
    doomed          \* what a recorded deletion will erase

dvars == <<generation, content, exclusive, doomed>>

Without(items, gone) == {i \in items : i \notin gone /\ Owner[i] \notin gone}

DatasetInit ==
    /\ generation = 0
    /\ content = InitialItems
    /\ exclusive = FALSE
    /\ doomed = {}

\* Any number of tabs edit the settled dataset.
Save ==
    /\ ~exclusive
    /\ content' \in SUBSET Item
    /\ UNCHANGED <<generation, exclusive, doomed>>

Reserve ==
    /\ ~exclusive
    /\ exclusive' = TRUE
    /\ UNCHANGED <<generation, content, doomed>>

Doom ==
    /\ exclusive
    /\ doomed' \in SUBSET Item
    /\ doomed \subseteq doomed'
    /\ UNCHANGED <<generation, content, exclusive>>

End ==
    /\ exclusive /\ exclusive' = FALSE
    /\ doomed' = {}

Erase ==
    /\ End
    /\ doomed # {}
    /\ generation' \in Nat /\ generation' > generation
    /\ content' = Without(content, doomed)

Replace ==
    /\ End
    /\ doomed = {}
    /\ generation' \in Nat /\ generation' > generation
    /\ content' \in Backups

GiveUp ==
    /\ End
    /\ doomed = {}
    /\ UNCHANGED <<generation, content>>

DatasetNext == Save \/ Reserve \/ Doom \/ Erase \/ Replace \/ GiveUp

DatasetSpec == DatasetInit /\ [][DatasetNext]_dvars
=============================================================================
