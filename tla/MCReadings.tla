----------------------------- MODULE MCReadings -----------------------------
EXTENDS Readings

CONSTANTS a, b
=============================================================================
