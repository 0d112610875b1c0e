---------------------------- MODULE MCRilService ----------------------------
(* RilService for TLC: two vendor threads, the binder thread, the IRadio   *)
(* service of one slot and a client that restarts.                         *)
EXTENDS RilService

CONSTANTS v1, v2
=============================================================================
