--------------------------- MODULE MCDatasetRows ---------------------------
(* Instances of DatasetRows for TLC: each row holds one thing at first, and  *)
(* the person is not an anchor yet.                                         *)
EXTENDS DatasetRows, TLC

MCPeople == [entries |-> 1 :> Plain, lists |-> <<>>, active |-> 1]
MCCharts == [entries |-> 1 :> [of |-> 1, primary |-> TRUE, label |-> 0],
             lists |-> <<>>, active |-> None]
MCEvents == [entries |-> <<>>, lists |-> 1 :> (1 :> 0), active |-> None]
MCChat == [entries |-> 1 :> [count |-> 1], lists |-> 1 :> (2 :> 0), active |-> None]

MCInherited == [n \in {"people", "charts", "events", "chat"} |->
                  CASE n = "people" -> MCPeople [] n = "charts" -> MCCharts
                    [] n = "events" -> MCEvents [] OTHER -> MCChat]
MCFresh == [n \in {"events"} |-> [entries |-> <<>>, lists |-> <<>>, active |-> None]]
TabSymmetry == Permutations(Tabs)
=============================================================================
