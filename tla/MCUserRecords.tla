--------------------------- MODULE MCUserRecords ---------------------------
(* Two tabs; a backup file; a dangling list, or nothing, at first.         *)
EXTENDS UserRecords, TLC

CONSTANTS t1, t2, p, q, n, r1, r2, r3

Row(people, lists) == [people |-> people, lists |-> lists]

MCFiles == {Row({q}, q :> {r2})}
MCInherited == {Row({p}, q :> {r1}), Row({}, <<>>)}
=============================================================================
