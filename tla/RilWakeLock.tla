---------------------------- MODULE RilWakeLock ----------------------------
(***************************************************************************)
(* The partial wake lock of rild: grabPartialWakeLock before a response or *)
(* indication that the client must not sleep through, releaseWakeLock when *)
(* the client acknowledges it, and the 200 ms timeout that ends the wake   *)
(* lock when it does not.  From RIL version 13 on, s_wakeLockCountMutex    *)
(* guards the count; older versions have no count and no mutex.  The event *)
(* thread's part, userTimerCallback, takes no mutex in either.             *)
(*                                                                         *)
(* Timers are UserCallbackInfo addresses: a freed address may be allocated *)
(* again, and a stale pointer then writes into the new timer.  Two timers  *)
(* with equal timeouts fire last-in first-out, so no order is assumed.     *)
(***************************************************************************)
EXTENDS Naturals, FiniteSets

CONSTANTS
  Callers,     \* threads of the vendor RIL and the binder thread
  Timers,      \* heap addresses of UserCallbackInfo
  Version13,   \* s_callbacks.version >= 13
  Reuse,       \* the allocator hands out freed addresses again
  MaxGrabs,    \* bound: calls of grabPartialWakeLock
  MaxFailures  \* bound: failed callocs

Null == "NULL"

ASSUME WakeLockAssumption ==
  /\ Null \notin Callers \cup Timers
  /\ Version13 \in BOOLEAN
  /\ Reuse \in BOOLEAN
  /\ MaxGrabs \in Nat
  /\ MaxFailures \in Nat

VARIABLES
  held,                     \* the kernel holds ANDROID_WAKE_LOCK_NAME
  s_wakelock_count,
  s_last_wake_timeout_info, \* a timer or Null
  mutex,                    \* holder of s_wakeLockCountMutex
  armed,                    \* timers in the timer list
  freed,                    \* addresses that were freed
  userParam,                \* userParam # NULL: the timer is cancelled
  pc, new, prev,            \* per caller: position, its timer, the last one read
  evpc, evTimer, evParam,   \* userTimerCallback on the event thread
  grabs, failures           \* bounded counters

callerVars == <<pc, new, prev>>
eventVars  == <<evpc, evTimer, evParam>>
vars == <<held, s_wakelock_count, s_last_wake_timeout_info, mutex, armed, freed,
          userParam, callerVars, eventVars, grabs, failures>>

Live == armed \cup (IF evpc = "idle" THEN {} ELSE {evTimer})

Goto(t, l) == pc' = [pc EXCEPT ![t] = l]

-----------------------------------------------------------------------------
(* internalRequestTimedCallback(wakeTimeoutCallback, NULL, 200 ms): a new  *)
(* timer is allocated, armed and handed to the caller.                     *)
NewTimer(t, n) ==
  /\ n \notin Live
  /\ Reuse \/ n \notin freed
  /\ armed' = armed \cup {n}
  /\ userParam' = [userParam EXCEPT ![n] = FALSE]
  /\ new' = [new EXCEPT ![t] = n]

AllocFails == failures < MaxFailures /\ failures' = failures + 1

(* grabPartialWakeLock, up to the timer it creates (version 13), or all of *)
(* it (older versions, which create the timer after the upcall).           *)
GrabPartialWakeLock(t) ==
  /\ pc[t] = "idle"
  /\ grabs < MaxGrabs
  /\ grabs' = grabs + 1
  /\ \/ /\ Version13
        /\ mutex = Null
        /\ \E n \in Timers : NewTimer(t, n)
        /\ held' = TRUE
        /\ s_wakelock_count' = s_wakelock_count + 1
        /\ mutex' = t
        /\ Goto(t, "read")
        /\ UNCHANGED failures
     \/ /\ Version13
        /\ mutex = Null
        /\ AllocFails
        /\ held' = FALSE
        /\ UNCHANGED <<s_wakelock_count, mutex, armed, userParam, pc, new>>
     \/ /\ ~Version13
        /\ held' = TRUE
        /\ Goto(t, "upcall")
        /\ UNCHANGED <<s_wakelock_count, mutex, armed, userParam, new, failures>>
  /\ UNCHANGED <<freed, s_last_wake_timeout_info, prev, eventVars>>

(* The end of RIL_onUnsolicitedResponse before version 13: create the      *)
(* timer, or release the wake lock when there is no memory for it.         *)
ScheduleTimeout(t) ==
  /\ pc[t] = "upcall"
  /\ \/ /\ \E n \in Timers : NewTimer(t, n)
        /\ Goto(t, "read")
        /\ UNCHANGED <<held, failures>>
     \/ /\ AllocFails
        /\ held' = FALSE
        /\ Goto(t, "idle")
        /\ UNCHANGED <<armed, userParam, new>>
  /\ UNCHANGED <<freed, s_wakelock_count, s_last_wake_timeout_info, mutex,
                 prev, eventVars, grabs>>

(* Cancelling the previous timer: the pointer is read, its userParam is    *)
(* written, and the new timer takes its place.                             *)
ReadLast(t) ==
  /\ pc[t] \in {"read", "relread"}
  /\ prev' = [prev EXCEPT ![t] = s_last_wake_timeout_info]
  /\ Goto(t, IF pc[t] = "read" THEN "cancel" ELSE "relcancel")
  /\ UNCHANGED <<freed, held, s_wakelock_count, s_last_wake_timeout_info,
                 mutex, armed, userParam, new, eventVars, grabs, failures>>

(* Fault: the new timer is cancelled instead of the previous one.          *)
CancelPrevious_CancelsNew(t) ==
  /\ pc[t] = "cancel"
  /\ userParam' = [userParam EXCEPT ![new[t]] = TRUE]
  /\ Goto(t, "store")
  /\ UNCHANGED <<freed, held, s_wakelock_count, s_last_wake_timeout_info,
                 mutex, armed, new, prev, eventVars, grabs, failures>>

CancelPrevious(t) ==
  /\ pc[t] = "cancel"
  /\ userParam' = [n \in Timers |-> userParam[n] \/ n = prev[t]]
  /\ Goto(t, "store")
  /\ UNCHANGED <<freed, held, s_wakelock_count, s_last_wake_timeout_info,
                 mutex, armed, new, prev, eventVars, grabs, failures>>

StoreLast(t) ==
  /\ pc[t] = "store"
  /\ s_last_wake_timeout_info' = new[t]
  /\ mutex' = IF Version13 THEN Null ELSE mutex
  /\ Goto(t, "idle")
  /\ UNCHANGED <<freed, held, s_wakelock_count, armed, userParam, new, prev,
                 eventVars, grabs, failures>>

(* Fault: one acknowledgement releases the wake lock for all responses.    *)
ReleaseWakeLock_AlwaysReleases(t) ==
  /\ pc[t] = "idle"
  /\ mutex = Null
  /\ s_wakelock_count' = IF s_wakelock_count > 1 THEN s_wakelock_count - 1 ELSE 0
  /\ held' = FALSE
  /\ UNCHANGED <<freed, s_last_wake_timeout_info, mutex, armed, userParam, callerVars,
                 eventVars, grabs, failures>>

(* releaseWakeLock: responseAcknowledgement from the client, or the error  *)
(* exit of RIL_onUnsolicitedResponse.                                      *)
ReleaseWakeLock(t) ==
  /\ pc[t] = "idle"
  /\ \/ /\ Version13
        /\ mutex = Null
        /\ s_wakelock_count > 1
        /\ s_wakelock_count' = s_wakelock_count - 1
        /\ UNCHANGED <<held, mutex, pc>>
     \/ /\ Version13
        /\ mutex = Null
        /\ s_wakelock_count <= 1
        /\ s_wakelock_count' = 0
        /\ held' = FALSE
        /\ mutex' = t
        /\ Goto(t, "relread")
     \/ /\ ~Version13
        /\ held' = FALSE
        /\ UNCHANGED <<s_wakelock_count, mutex, pc>>
  /\ UNCHANGED <<freed, s_last_wake_timeout_info, armed, userParam, new, prev,
                 eventVars, grabs, failures>>

ReleaseCancel(t) ==
  /\ pc[t] = "relcancel"
  /\ userParam' = [n \in Timers |-> userParam[n] \/ n = prev[t]]
  /\ mutex' = Null
  /\ Goto(t, "idle")
  /\ UNCHANGED <<freed, held, s_wakelock_count, s_last_wake_timeout_info,
                 armed, new, prev, eventVars, grabs, failures>>

-----------------------------------------------------------------------------
(* userTimerCallback on the event thread.  The argument of the callback is *)
(* read first; wakeTimeoutCallback then waits for the mutex.               *)

FireTimer(n) ==
  /\ evpc = "idle"
  /\ n \in armed
  /\ armed' = armed \ {n}
  /\ evTimer' = n
  /\ evParam' = userParam[n]
  /\ evpc' = "callback"
  /\ UNCHANGED <<freed, held, s_wakelock_count, s_last_wake_timeout_info,
                 mutex, userParam, callerVars, grabs, failures>>

WakeTimeoutCallback ==
  /\ evpc = "callback"
  /\ evpc' = "test"
  /\ \/ /\ evParam
        /\ UNCHANGED <<held, s_wakelock_count>>
     \/ /\ ~evParam
        /\ Version13
        /\ mutex = Null
        /\ held' = FALSE
        /\ s_wakelock_count' = 0
     \/ /\ ~evParam
        /\ ~Version13
        /\ held' = FALSE
        /\ UNCHANGED s_wakelock_count
  /\ UNCHANGED <<freed, s_last_wake_timeout_info, mutex, armed, userParam,
                 callerVars, evTimer, evParam, grabs, failures>>

TestLast ==
  /\ evpc = "test"
  /\ evpc' = IF s_last_wake_timeout_info = evTimer THEN "clear" ELSE "free"
  /\ UNCHANGED <<freed, held, s_wakelock_count, s_last_wake_timeout_info,
                 mutex, armed, userParam, callerVars, evTimer, evParam, grabs,
                 failures>>

ClearLast ==
  /\ evpc = "clear"
  /\ s_last_wake_timeout_info' = Null
  /\ evpc' = "free"
  /\ UNCHANGED <<freed, held, s_wakelock_count, mutex, armed, userParam,
                 callerVars, evTimer, evParam, grabs, failures>>

FreeTimer ==
  /\ evpc = "free"
  /\ evpc' = "idle"
  /\ freed' = freed \cup {evTimer}
  /\ UNCHANGED <<held, s_wakelock_count, s_last_wake_timeout_info, mutex,
                 armed, userParam, callerVars, evTimer, evParam, grabs,
                 failures>>

-----------------------------------------------------------------------------
Init ==
  /\ held = FALSE
  /\ s_wakelock_count = 0
  /\ s_last_wake_timeout_info = Null
  /\ mutex = Null
  /\ armed = {}
  /\ freed = {}
  /\ userParam = [n \in Timers |-> FALSE]
  /\ pc = [t \in Callers |-> "idle"]
  /\ new = [t \in Callers |-> Null]
  /\ prev = [t \in Callers |-> Null]
  /\ evpc = "idle"
  /\ evTimer = Null
  /\ evParam = FALSE
  /\ grabs = 0
  /\ failures = 0

CallerStep(t) ==
  \/ ScheduleTimeout(t) \/ ReadLast(t) \/ CancelPrevious(t) \/ StoreLast(t)
  \/ ReleaseCancel(t)

EventStep ==
  \/ \E n \in Timers : FireTimer(n)
  \/ WakeTimeoutCallback \/ TestLast \/ ClearLast \/ FreeTimer

Next ==
  \/ \E t \in Callers : GrabPartialWakeLock(t) \/ ReleaseWakeLock(t) \/ CallerStep(t)
  \/ EventStep

(* Started calls run to their end, and time passes: an armed timer expires *)
(* and the event loop, which never blocks for longer than that, runs it.   *)
Fairness == WF_vars(EventStep) /\ \A t \in Callers : WF_vars(CallerStep(t))

Spec == Init /\ [][Next]_vars /\ Fairness

-----------------------------------------------------------------------------
(* Properties *)

Granting  == {"read", "cancel", "store"}
Releasing == {"relread", "relcancel"}

(* Every variable has its type.                                            *)
TypeOK ==
  /\ held \in BOOLEAN
  /\ s_wakelock_count \in Nat
  /\ s_last_wake_timeout_info \in Timers \cup {Null}
  /\ mutex \in Callers \cup {Null}
  /\ armed \subseteq Timers
  /\ freed \subseteq Timers
  /\ userParam \in [Timers -> BOOLEAN]
  /\ pc \in [Callers -> {"idle", "upcall"} \cup Granting \cup Releasing]
  /\ new \in [Callers -> Timers \cup {Null}]
  /\ prev \in [Callers -> Timers \cup {Null}]
  /\ evpc \in {"idle", "callback", "test", "clear", "free"}
  /\ evTimer \in Timers \cup {Null}
  /\ evParam \in BOOLEAN
  /\ grabs \in Nat
  /\ failures \in Nat

(* While responses are counted as unacknowledged (s_wakelock_count > 0)    *)
(* the device stays awake, as long as memory did not run out.              *)
CountedMeansHeld == s_wakelock_count > 0 /\ failures = 0 => held

TimerPending ==
  \/ \E n \in armed : ~userParam[n]
  \/ evpc = "callback" /\ ~evParam

(* RIL_onUnsolicitedResponse either releases the wake lock immediately or  *)
(* sets "a timer to release it later": a held wake lock always has a timer *)
(* that is not cancelled, or a call under way that is about to create one. *)
HeldHasTimer == held => TimerPending \/ \E t \in Callers : pc[t] = "upcall"

(* The device goes back to sleep: once no more responses are sent, the     *)
(* wake lock is released, whether or not the client acknowledges them.     *)
EventuallyReleased == held ~> ~held

-----------------------------------------------------------------------------
(* The inductive invariant behind HeldHasTimer from version 13 on.         *)

(* The mutex is held exactly in the two critical sections.                 *)
MutexMatchesPc ==
  /\ \A t \in Callers : pc[t] \in Granting \cup Releasing <=> mutex = t
  /\ \A t \in Callers : pc[t] # "upcall"

(* The last timer is not freed while s_last_wake_timeout_info points to it.*)
LastIsLive ==
  /\ s_last_wake_timeout_info # Null => s_last_wake_timeout_info \in Live
  /\ evpc = "free" => s_last_wake_timeout_info # evTimer
  /\ evpc # "idle" => evTimer \in Timers /\ evTimer \notin armed

(* The timer of a grab under way is its own: neither the pointer it is     *)
(* about to cancel, nor cancelled by anybody, nor past its callback.       *)
NewIsOwn(t) ==
  /\ pc[t] \in Granting =>
       \/ new[t] \in armed /\ ~userParam[new[t]]
       \/ evpc = "callback" /\ evTimer = new[t] /\ ~evParam
  /\ pc[t] = "read" => s_last_wake_timeout_info # new[t]
  /\ pc[t] = "cancel" => prev[t] # new[t]
  /\ pc[t] \in Releasing => ~held

IInv ==
  /\ TypeOK
  /\ MutexMatchesPc
  /\ LastIsLive
  /\ \A t \in Callers : NewIsOwn(t)
  /\ held => TimerPending
=============================================================================
