----------------------------- MODULE AtomicRows -----------------------------
(***************************************************************************)
(* What the portable repository promises its callers: a transaction reads   *)
(* every row and writes its changes in one indivisible step, or is refused  *)
(* and changes nothing; an export is the content of one moment between its  *)
(* request and its answer.                                                  *)
(***************************************************************************)
CONSTANTS Callers, Ops, Export, None, Contents, Apply(_, _)

VARIABLES content,  \* canonical rows and quarantine rows
          asked,    \* what each caller waits for
          answer    \* the last export each caller got

vars == <<content, asked, answer>>

Init == /\ content \in Contents
        /\ asked = [c \in Callers |-> None]
        /\ answer = [c \in Callers |-> None]

Ask(c, op) == /\ asked[c] = None
              /\ asked' = [asked EXCEPT ![c] = op]
              /\ UNCHANGED <<content, answer>>

Perform(c) == /\ asked[c] \in Ops
              /\ content' = Apply(asked[c], content)
              /\ asked' = [asked EXCEPT ![c] = None]
              /\ UNCHANGED answer

Answer(c) == /\ asked[c] = Export
             /\ answer' = [answer EXCEPT ![c] = content]
             /\ asked' = [asked EXCEPT ![c] = None]
             /\ UNCHANGED content

Refuse(c) == /\ asked[c] # None
             /\ asked' = [asked EXCEPT ![c] = None]
             /\ UNCHANGED <<content, answer>>

(* A batch that is not fenced by the epoch (a held quarantine row). *)
SideBatch == \E new \in Contents : /\ new.rows = content.rows
                                   /\ content' = new
                                   /\ UNCHANGED <<asked, answer>>

Next == \/ \E c \in Callers : \/ \E op \in Ops \cup {Export} : Ask(c, op)
                              \/ Perform(c)
                              \/ Answer(c)
                              \/ Refuse(c)
        \/ SideBatch

Spec == Init /\ [][Next]_vars
=============================================================================
