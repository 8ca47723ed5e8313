--------------------------- MODULE MCRegeneration ---------------------------
EXTENDS Regeneration

CONSTANTS p, q, b, c, n, m

\* Both births carry the name n: only a rename gives another one.
MCNameIn == [x \in {b, c} |-> n]
=============================================================================
