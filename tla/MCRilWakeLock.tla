--------------------------- MODULE MCRilWakeLock ---------------------------
(***************************************************************************)
(* RilWakeLock for TLC: vendor thread, the binder thread and a few heap    *)
(* addresses, enough for every grab to have its timer at the same time.    *)
(* The vendor library registers with a version of its own: from 13 on both *)
(* threads and freed addresses that are used again are tried; before, when *)
(* nothing is locked, one thread that sends indications and fresh          *)
(* addresses.                                                              *)
(***************************************************************************)
EXTENDS RilWakeLock

CONSTANTS c1, c2, t1, t2, t3

VARIABLE version13
mcVars == <<vars, version13>>

Old == INSTANCE RilWakeLock WITH Version13 <- FALSE, Reuse <- FALSE, Callers <- {c1}

MCInit == Init /\ version13 \in BOOLEAN
MCNext ==
  \/ version13 /\ Next /\ UNCHANGED version13
  \/ ~version13 /\ Old!Next /\ UNCHANGED version13

MCEventStep ==
  /\ (version13 /\ EventStep) \/ (~version13 /\ Old!EventStep)
  /\ UNCHANGED version13
MCCallerStep(t) ==
  /\ (version13 /\ CallerStep(t)) \/ (~version13 /\ Old!CallerStep(t))
  /\ UNCHANGED version13

MCSpec ==
  /\ MCInit /\ [][MCNext]_mcVars
  /\ WF_mcVars(MCEventStep) /\ \A t \in Callers : WF_mcVars(MCCallerStep(t))
=============================================================================
