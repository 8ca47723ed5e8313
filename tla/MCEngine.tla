------------------------------ MODULE MCEngine ------------------------------
EXTENDS Engine

CONSTANTS b1, b2, b3
=============================================================================
