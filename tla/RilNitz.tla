------------------------------ MODULE RilNitz ------------------------------
(***************************************************************************)
(* The network time (NITZ) indication.  RIL_onUnsolicitedResponse sends it *)
(* to the client under the write lock, with the time it was received; when *)
(* no client is registered it keeps a copy in s_lastNITZTimeData, outside  *)
(* any lock, for onNewCommandConnect to resend to the next client.         *)
(*                                                                         *)
(* One slot.  NITZ messages are numbered in the order they arrive, and a   *)
(* receive time is the number of the message that set it.  The recovery of *)
(* checkReturnStatus is one step here; RilService has its lock operations. *)
(* The names carry Nitz so that the module can be extended next to         *)
(* RilWakeLock.                                                            *)
(***************************************************************************)
EXTENDS Naturals, Sequences

CONSTANTS
  MaxNitz,    \* bound: NITZ messages
  MaxClients  \* bound: incarnations of the client process

ASSUME NitzAssumption == MaxNitz \in Nat /\ MaxClients \in Nat

NoData == 0            \* s_lastNITZTimeData is NULL
Blank  == MaxNitz + 1  \* calloc'ed and not yet copied to

VARIABLES
  mRadioIndication,   \* the registered client, 0 for NULL
  alive, born,        \* the running incarnation of the client (0: none)
  readLocks,          \* read locks held on the rwlock
  nitz,               \* NITZ messages received so far
  nitzTimeReceived,
  s_lastNITZTimeData,
  vpc,                \* position of the vendor thread
  bpc,                \* position of the binder thread
  delivered           \* [data, time] of each nitzTimeReceived call, in order

clientVars == <<alive, born>>
nitzVars == <<mRadioIndication, clientVars, readLocks, nitz, nitzTimeReceived,
              s_lastNITZTimeData, vpc, bpc, delivered>>

-----------------------------------------------------------------------------
ClientStart ==
  /\ alive = 0
  /\ born < MaxClients
  /\ born' = born + 1
  /\ alive' = born + 1
  /\ UNCHANGED <<mRadioIndication, readLocks, nitz, nitzTimeReceived,
                 s_lastNITZTimeData, vpc, bpc, delivered>>

ClientDie ==
  /\ alive # 0
  /\ alive' = 0
  /\ UNCHANGED <<mRadioIndication, born, readLocks, nitz, nitzTimeReceived,
                 s_lastNITZTimeData, vpc, bpc, delivered>>

(* nitzTimeReceivedInd: -1 without a callback, 0 otherwise, also when the  *)
(* call fails (the client is dead) and when there is no data.              *)
Indicate(data, time) ==
  /\ delivered' = IF mRadioIndication # 0 /\ mRadioIndication = alive /\ data # NoData
                  THEN Append(delivered, [data |-> data, time |-> time]) ELSE delivered
  /\ mRadioIndication' = IF data = NoData \/ mRadioIndication = alive
                         THEN mRadioIndication ELSE 0

-----------------------------------------------------------------------------
(* RIL_onUnsolicitedResponse(RIL_UNSOL_NITZ_TIME_RECEIVED) up to its       *)
(* unlock: a critical section of the write lock.                           *)
NitzReceived ==
  LET n == nitz + 1
  IN  /\ vpc = "idle"
      /\ nitz < MaxNitz
      /\ readLocks = 0
      /\ nitz' = n
      /\ nitzTimeReceived' = n
      /\ Indicate(n, n)
      /\ vpc' = IF mRadioIndication = 0 THEN "free" ELSE "idle"
      /\ UNCHANGED <<clientVars, readLocks, s_lastNITZTimeData, bpc>>

(* Keeping the copy: free the old one, allocate (or give up when there is  *)
(* no memory), copy.                                                       *)
FreeOld ==
  /\ vpc = "free"
  /\ vpc' = "alloc"
  /\ s_lastNITZTimeData' = NoData
  /\ UNCHANGED <<mRadioIndication, clientVars, readLocks, nitz, nitzTimeReceived, bpc,
                 delivered>>

AllocCopy ==
  /\ vpc = "alloc"
  /\ \/ vpc' = "copy" /\ s_lastNITZTimeData' = Blank
     \/ vpc' = "idle" /\ s_lastNITZTimeData' = NoData
  /\ UNCHANGED <<mRadioIndication, clientVars, readLocks, nitz, nitzTimeReceived, bpc,
                 delivered>>

(* memcpy writes through the pointer, which may have become NULL.          *)
CopyData ==
  /\ vpc = "copy"
  /\ vpc' = "idle"
  /\ s_lastNITZTimeData' = IF s_lastNITZTimeData = NoData THEN NoData ELSE nitz
  /\ UNCHANGED <<mRadioIndication, clientVars, readLocks, nitz, nitzTimeReceived, bpc,
                 delivered>>

-----------------------------------------------------------------------------
(* setResponseFunctions and onNewCommandConnect on the binder thread.      *)
SetResponseFunctions ==
  /\ bpc = "idle"
  /\ alive # 0
  /\ mRadioIndication # alive
  /\ readLocks = 0
  /\ mRadioIndication' = alive
  /\ bpc' = "connect"
  /\ UNCHANGED <<clientVars, readLocks, nitz, nitzTimeReceived, s_lastNITZTimeData, vpc,
                 delivered>>

TestLastNITZ ==
  /\ bpc = "connect"
  /\ bpc' = IF s_lastNITZTimeData # NoData THEN "resend" ELSE "idle"
  /\ UNCHANGED <<mRadioIndication, clientVars, readLocks, nitz, nitzTimeReceived,
                 s_lastNITZTimeData, vpc, delivered>>

(* resendLastNITZTimeData: the read lock is released only if the data is   *)
(* still there.                                                            *)
ResendLock ==
  /\ bpc = "resend"
  /\ readLocks' = readLocks + 1
  /\ bpc' = IF s_lastNITZTimeData # NoData THEN "send" ELSE "idle"
  /\ UNCHANGED <<mRadioIndication, clientVars, nitz, nitzTimeReceived,
                 s_lastNITZTimeData, vpc, delivered>>

ResendIndicate ==
  /\ bpc = "send"
  /\ Indicate(s_lastNITZTimeData, nitzTimeReceived)
  /\ bpc' = IF mRadioIndication # 0 THEN "sent" ELSE "unlock"
  /\ UNCHANGED <<clientVars, readLocks, nitz, nitzTimeReceived, s_lastNITZTimeData, vpc>>

(* Fault: the copy that was delivered is kept.                             *)
ResendFree_Keeps ==
  /\ bpc = "sent"
  /\ bpc' = "unlock"
  /\ UNCHANGED <<mRadioIndication, clientVars, readLocks, nitz, nitzTimeReceived,
                 s_lastNITZTimeData, vpc, delivered>>

ResendFree ==
  /\ bpc = "sent"
  /\ s_lastNITZTimeData' = NoData
  /\ bpc' = "unlock"
  /\ UNCHANGED <<mRadioIndication, clientVars, readLocks, nitz, nitzTimeReceived, vpc,
                 delivered>>

ResendUnlock ==
  /\ bpc = "unlock"
  /\ readLocks' = readLocks - 1
  /\ bpc' = "idle"
  /\ UNCHANGED <<mRadioIndication, clientVars, nitz, nitzTimeReceived,
                 s_lastNITZTimeData, vpc, delivered>>

-----------------------------------------------------------------------------
NitzInit ==
  /\ mRadioIndication = 0
  /\ alive = 0
  /\ born = 0
  /\ readLocks = 0
  /\ nitz = 0
  /\ nitzTimeReceived = 0
  /\ s_lastNITZTimeData = NoData
  /\ vpc = "idle"
  /\ bpc = "idle"
  /\ delivered = <<>>

NitzNext ==
  \/ ClientStart \/ ClientDie
  \/ NitzReceived \/ FreeOld \/ AllocCopy \/ CopyData
  \/ SetResponseFunctions \/ TestLastNITZ
  \/ ResendLock \/ ResendIndicate \/ ResendFree \/ ResendUnlock

NitzSpec == NitzInit /\ [][NitzNext]_nitzVars

-----------------------------------------------------------------------------
(* Properties *)

(* Every variable has its type.                                            *)
NitzTypeOK ==
  /\ mRadioIndication \in 0..born
  /\ born \in 0..MaxClients
  /\ alive \in {0, born}
  /\ readLocks \in Nat
  /\ nitz \in 0..MaxNitz
  /\ nitzTimeReceived \in 0..nitz
  /\ s_lastNITZTimeData \in 0..nitz \cup {NoData, Blank}
  /\ vpc \in {"idle", "free", "alloc", "copy"}
  /\ bpc \in {"idle", "connect", "resend", "send", "sent", "unlock"}
  /\ delivered \in Seq([data : 1..Blank, time : 1..MaxNitz])

(* A network time reaches a client at most once, however the resend races  *)
(* with the next NITZ message.                                             *)
DeliveredOnce ==
  \A i, j \in 1..Len(delivered) :
    i < j => delivered[i].data # delivered[j].data \/ delivered[i].data = Blank
=============================================================================
