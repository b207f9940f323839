----------------------------- MODULE MCTurnClock -----------------------------
\* A turn whose round has one call, or two, with or without guests.
EXTENDS TurnClock
CONSTANTS c1, c2
=============================================================================
