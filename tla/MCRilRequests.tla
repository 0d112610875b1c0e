--------------------------- MODULE MCRilRequests ---------------------------
(* RilRequests for TLC: three requests, addresses that are used again, and *)
(* two vendor threads.                                                     *)
EXTENDS RilRequests

CONSTANTS s1, s2, s3, a1, a2, v1, v2
=============================================================================
