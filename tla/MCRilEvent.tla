----------------------------- MODULE MCRilEvent -----------------------------
(* RilEvent for TLC: two threads that request timers.                      *)
EXTENDS RilEvent

CONSTANTS a1, a2
=============================================================================
