-------------------------- MODULE MCSemanticMemory --------------------------
EXTENDS SemanticMemory

CONSTANTS t, u, p, q, m, n

\* m belongs to p, n to q.
MCOwner == [x \in Messages |-> IF x = m THEN p ELSE q]
=============================================================================
