------------------------------ MODULE RowMerge ------------------------------
(***************************************************************************)
(* The three-way merge at the SQLite boundary (deletionTombstones.ts): what  *)
(* a tab knew of a row (base), what its store holds (local) and what the     *)
(* row holds (remote) become the row.  Maps are functions; a list of objects *)
(* with ids is the map of its ids, its order aside.  A node of the merge is  *)
(* a set of one value, or the empty set for ABSENT.                           *)
(***************************************************************************)
EXTENDS Functions

Absent == {}
Node(map, k) == IF k \in DOMAIN map THEN {map[k]} ELSE Absent
The(node) == CHOOSE v \in node : TRUE

(* One record is one value: a deletion wins, a conflict is won by the tab. *)
MergeNode(base, local, remote) ==
  IF base = Absent THEN IF local = Absent THEN remote ELSE local
  ELSE IF Absent \in {local, remote} THEN Absent
  ELSE IF local = base THEN remote ELSE local

(* The map of the keys that have a value. *)
Present(nodes) == [k \in {x \in DOMAIN nodes : nodes[x] # Absent} |-> The(nodes[k])]

MergeMap(base, local, remote) ==
  Present([k \in DOMAIN local \cup DOMAIN remote |->
             MergeNode(Node(base, k), Node(local, k), Node(remote, k))])

(* Two lists are merged by id only when the tab knew the list before. *)
MergeList(base, local, remote) ==
  IF Absent \in {base, local, remote} THEN MergeNode(base, local, remote)
  ELSE {MergeMap(The(base), The(local), The(remote))}

MergeLists(base, local, remote) ==
  Present([k \in DOMAIN local \cup DOMAIN remote |->
             MergeList(Node(base, k), Node(local, k), Node(remote, k))])
=============================================================================
