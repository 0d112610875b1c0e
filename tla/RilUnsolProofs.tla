-------------------------- MODULE RilUnsolProofs --------------------------
(***************************************************************************)
(* Proofs about what RIL_onUnsolicitedResponse does besides sending an     *)
(* indication: the wake lock it grabs (RilWakeLock) and the network time   *)
(* it keeps for the next client (RilNitz).                                 *)
(*                                                                         *)
(* The wake lock, from RIL version 13 on: for any number of threads, heap  *)
(* addresses, grabs and failed allocations, and for an allocator that      *)
(* hands out freed addresses again.  The network time: for any number of   *)
(* NITZ messages and restarts of the client.                               *)
(***************************************************************************)
EXTENDS RilWakeLock, RilNitz, SequenceTheorems, TLAPS

Labels == {"idle", "upcall"} \cup Granting \cup Releasing

(* Every step keeps every variable's type.                                 *)
LEMMA TypeStep ==
  ASSUME TypeOK, Version13, MutexMatchesPc, LastIsLive, [Next]_vars
  PROVE  TypeOK'
<1> USE DEF TypeOK, Granting, Releasing
<1>1. ASSUME NEW t \in Callers, GrabPartialWakeLock(t) PROVE TypeOK'
  <2>h. held' \in BOOLEAN
    BY <1>1, Zenon DEF GrabPartialWakeLock
  <2>1. CASE /\ \E n \in Timers : NewTimer(t, n)
             /\ s_wakelock_count' = s_wakelock_count + 1
             /\ mutex' = t
             /\ Goto(t, "read")
             /\ UNCHANGED failures
    <3>1. PICK n \in Timers : NewTimer(t, n)
      BY <2>1
    <3>2. userParam' \in [Timers -> BOOLEAN]
      BY <3>1, Zenon DEF NewTimer
    <3>3. armed' \subseteq Timers /\ new' \in [Callers -> Timers \cup {Null}]
      BY <3>1 DEF NewTimer
    <3>4. grabs' \in Nat /\ UNCHANGED <<freed, s_last_wake_timeout_info, prev, eventVars>>
      BY <1>1 DEF GrabPartialWakeLock
    <3>5. /\ s_wakelock_count' \in Nat /\ mutex' \in Callers \cup {Null}
          /\ pc' \in [Callers -> Labels] /\ failures' \in Nat
      BY <2>1 DEF Goto, Labels
    <3> QED
      BY <2>h, <3>2, <3>3, <3>4, <3>5 DEF eventVars, Labels
  <2>2. CASE AllocFails /\ UNCHANGED <<s_wakelock_count, mutex, armed, userParam, pc, new>>
    <3>1. grabs' \in Nat /\ UNCHANGED <<freed, s_last_wake_timeout_info, prev, eventVars>>
      BY <1>1 DEF GrabPartialWakeLock
    <3> QED
      BY <2>h, <2>2, <3>1 DEF AllocFails, eventVars
  <2> QED
    BY <1>1, <2>1, <2>2 DEF GrabPartialWakeLock
<1>2. ASSUME NEW t \in Callers, ReleaseWakeLock(t) PROVE TypeOK'
  <2>h. held' \in BOOLEAN
    BY <1>2, Zenon DEF ReleaseWakeLock
  <2>1. /\ s_wakelock_count' \in Nat /\ mutex' \in Callers \cup {Null}
        /\ pc' \in [Callers -> Labels]
    BY <1>2 DEF ReleaseWakeLock, Goto, Labels
  <2>2. UNCHANGED <<freed, s_last_wake_timeout_info, armed, userParam, new, prev, eventVars,
                    grabs, failures>>
    BY <1>2 DEF ReleaseWakeLock
  <2> QED
    BY <2>h, <2>1, <2>2 DEF eventVars, Labels
<1>3. ASSUME NEW t \in Callers, ScheduleTimeout(t) PROVE TypeOK'
  BY <1>3 DEF ScheduleTimeout, MutexMatchesPc
<1>4. ASSUME NEW t \in Callers, ReadLast(t) PROVE TypeOK'
  BY <1>4 DEF ReadLast, Goto, eventVars
<1>5. ASSUME NEW t \in Callers, CancelPrevious(t) PROVE TypeOK'
  BY <1>5 DEF CancelPrevious, Goto, eventVars
<1>6. ASSUME NEW t \in Callers, StoreLast(t) PROVE TypeOK'
  BY <1>6 DEF StoreLast, Goto, eventVars
<1>7. ASSUME NEW t \in Callers, ReleaseCancel(t) PROVE TypeOK'
  BY <1>7 DEF ReleaseCancel, Goto, eventVars
<1>8. ASSUME NEW n \in Timers, FireTimer(n) PROVE TypeOK'
  BY <1>8 DEF FireTimer, callerVars
<1>9. CASE WakeTimeoutCallback
  <2>1. held' \in BOOLEAN
    BY <1>9, Zenon DEF WakeTimeoutCallback
  <2>2. s_wakelock_count' \in Nat
    BY <1>9 DEF WakeTimeoutCallback
  <2> QED
    BY <1>9, <2>1, <2>2 DEF WakeTimeoutCallback, callerVars
<1>10. CASE TestLast
  BY <1>10 DEF TestLast, callerVars
<1>11. CASE ClearLast
  BY <1>11 DEF ClearLast, callerVars
<1>12. CASE FreeTimer
  BY <1>12 DEF FreeTimer, callerVars, LastIsLive
<1>13. CASE UNCHANGED vars
  BY <1>13 DEF vars, callerVars, eventVars
<1> QED
  BY <1>1, <1>2, <1>3, <1>4, <1>5, <1>6, <1>7, <1>8, <1>9, <1>10, <1>11, <1>12, <1>13
     DEF Next, CallerStep, EventStep

(* The mutex brackets both critical sections, and no caller schedules its  *)
(* timer outside it.                                                       *)
LEMMA MutexStep ==
  ASSUME TypeOK, Version13, MutexMatchesPc, [Next]_vars
  PROVE  MutexMatchesPc'
<1> USE DEF TypeOK, Granting, Releasing, MutexMatchesPc
<1>n. Null \notin Callers
  BY WakeLockAssumption
<1>1. ASSUME NEW t \in Callers, GrabPartialWakeLock(t) PROVE MutexMatchesPc'
  BY <1>1, <1>n DEF GrabPartialWakeLock, Goto
<1>2. ASSUME NEW t \in Callers, ReleaseWakeLock(t) PROVE MutexMatchesPc'
  BY <1>2, <1>n DEF ReleaseWakeLock, Goto
<1>3. ASSUME NEW t \in Callers, ScheduleTimeout(t) PROVE MutexMatchesPc'
  BY <1>3 DEF ScheduleTimeout
<1>4. ASSUME NEW t \in Callers, ReadLast(t) PROVE MutexMatchesPc'
  BY <1>4 DEF ReadLast, Goto
<1>5. ASSUME NEW t \in Callers, CancelPrevious(t) PROVE MutexMatchesPc'
  BY <1>5 DEF CancelPrevious, Goto
<1>6. ASSUME NEW t \in Callers, StoreLast(t) PROVE MutexMatchesPc'
  BY <1>6, <1>n DEF StoreLast, Goto
<1>7. ASSUME NEW t \in Callers, ReleaseCancel(t) PROVE MutexMatchesPc'
  BY <1>7, <1>n DEF ReleaseCancel, Goto
<1>8. ASSUME UNCHANGED <<mutex, callerVars>> PROVE MutexMatchesPc'
  BY <1>8 DEF callerVars
<1> QED
  BY <1>1, <1>2, <1>3, <1>4, <1>5, <1>6, <1>7, <1>8
     DEF Next, CallerStep, EventStep, FireTimer, WakeTimeoutCallback, TestLast, ClearLast,
         FreeTimer, vars

(* s_last_wake_timeout_info never outlives its timer: userTimerCallback    *)
(* clears it before the free, and StoreLast publishes a timer whose        *)
(* callback has to wait for the mutex.                                     *)
LEMMA LastStep ==
  ASSUME IInv, Version13, [Next]_vars
  PROVE  LastIsLive'
<1> USE DEF LastIsLive, Live
<1>i. TypeOK /\ MutexMatchesPc /\ LastIsLive /\ \A t \in Callers : NewIsOwn(t)
  BY DEF IInv
<1>n. Null \notin Timers
  BY WakeLockAssumption
<1>1. ASSUME NEW t \in Callers, GrabPartialWakeLock(t) PROVE LastIsLive'
  <2>1. CASE \E n \in Timers : NewTimer(t, n)
    BY <1>1, <2>1, <1>i DEF GrabPartialWakeLock, NewTimer, eventVars
  <2>2. CASE UNCHANGED armed
    BY <1>1, <2>2, <1>i DEF GrabPartialWakeLock, eventVars
  <2> QED
    BY <1>1, <2>1, <2>2 DEF GrabPartialWakeLock
<1>3. ASSUME NEW t \in Callers, ScheduleTimeout(t) PROVE LastIsLive'
  BY <1>3, <1>i DEF ScheduleTimeout, MutexMatchesPc
<1>6. ASSUME NEW t \in Callers, StoreLast(t) PROVE LastIsLive'
  <2>1. NewIsOwn(t) /\ pc[t] \in Granting
    BY <1>6, <1>i DEF StoreLast, Granting
  <2>2. \/ new[t] \in armed
        \/ evpc = "callback" /\ evTimer = new[t]
    BY <2>1 DEF NewIsOwn
  <2> QED
    BY <1>6, <2>2, <1>i DEF StoreLast, eventVars
<1>8. ASSUME NEW n \in Timers, FireTimer(n) PROVE LastIsLive'
  BY <1>8, <1>i DEF FireTimer
<1>9. CASE WakeTimeoutCallback
  BY <1>9, <1>i DEF WakeTimeoutCallback
<1>10. CASE TestLast
  BY <1>10, <1>i DEF TestLast
<1>11. CASE ClearLast
  BY <1>11, <1>i, <1>n DEF ClearLast
<1>12. CASE FreeTimer
  BY <1>12, <1>i DEF FreeTimer
<1>13. ASSUME UNCHANGED <<s_last_wake_timeout_info, armed, eventVars>> PROVE LastIsLive'
  BY <1>13, <1>i DEF eventVars
<1> QED
  BY <1>1, <1>3, <1>6, <1>8, <1>9, <1>10, <1>11, <1>12, <1>13
     DEF Next, CallerStep, EventStep, vars, ReleaseWakeLock, ReadLast, CancelPrevious,
         ReleaseCancel

(* The timer of a grab under way stays armed and uncancelled, or waits in  *)
(* wakeTimeoutCallback for the mutex that the grab holds.                  *)
LEMMA OwnStep ==
  ASSUME IInv, Version13, [Next]_vars, NEW u \in Callers
  PROVE  NewIsOwn(u)'
<1> USE DEF Granting, Releasing
<1>i. TypeOK /\ MutexMatchesPc /\ LastIsLive /\ NewIsOwn(u)
  BY DEF IInv
<1>n. Null \notin Timers \cup Callers
  BY WakeLockAssumption
<1>m. ASSUME NEW t \in Callers, t # u, mutex = t \/ mutex = Null PROVE pc[u] = "idle"
  BY <1>m, <1>i, <1>n DEF MutexMatchesPc, TypeOK
<1>1. ASSUME NEW t \in Callers, GrabPartialWakeLock(t) PROVE NewIsOwn(u)'
  <2>1. CASE mutex' = t
    <3>1. PICK n \in Timers : NewTimer(t, n)
      BY <1>1, <2>1, <1>n DEF GrabPartialWakeLock
    <3>2. CASE u = t
      <4>1. pc'[u] = "read" /\ new'[u] = n /\ n \in armed'
        BY <1>1, <2>1, <3>1, <3>2, <1>n, <1>i DEF GrabPartialWakeLock, NewTimer, Goto, TypeOK
      <4>2. ~userParam'[n]
        BY <3>1, <1>i DEF NewTimer, TypeOK
      <4>3. s_last_wake_timeout_info' # n
        BY <1>1, <3>1, <1>i, <1>n DEF GrabPartialWakeLock, NewTimer, LastIsLive
      <4> QED
        BY <4>1, <4>2, <4>3 DEF NewIsOwn
    <3>3. CASE u # t
      <4>1. pc'[u] = "idle"
        BY <1>1, <2>1, <3>3, <1>m, <1>n, <1>i DEF GrabPartialWakeLock, Goto, TypeOK
      <4> QED
        BY <4>1 DEF NewIsOwn
    <3> QED
      BY <3>2, <3>3
  <2>2. CASE mutex' = mutex /\ pc' = pc
    <3>1. mutex = Null
      BY <1>1 DEF GrabPartialWakeLock
    <3>2. pc'[u] = "idle"
      BY <2>2, <3>1, <1>i, <1>n DEF MutexMatchesPc, TypeOK
    <3> QED
      BY <3>2 DEF NewIsOwn
  <2> QED
    BY <1>1, <2>1, <2>2 DEF GrabPartialWakeLock
<1>2. ASSUME NEW t \in Callers, ReleaseWakeLock(t) PROVE NewIsOwn(u)'
  <2>1. mutex = Null
    BY <1>2 DEF ReleaseWakeLock
  <2>2. pc[u] = "idle"
    BY <2>1, <1>i, <1>n DEF MutexMatchesPc, TypeOK
  <2>3. pc'[u] = "idle" \/ (pc'[u] = "relread" /\ ~held')
    BY <1>2, <2>2, <1>i DEF ReleaseWakeLock, Goto, TypeOK
  <2> QED
    BY <2>3 DEF NewIsOwn
<1>3. ASSUME NEW t \in Callers, ScheduleTimeout(t) PROVE NewIsOwn(u)'
  BY <1>3, <1>i DEF ScheduleTimeout, MutexMatchesPc
<1>4. ASSUME NEW t \in Callers, ReadLast(t) PROVE NewIsOwn(u)'
  <2>1. CASE u = t
    BY <1>4, <2>1, <1>i DEF ReadLast, Goto, NewIsOwn, TypeOK, eventVars
  <2>2. CASE u # t
    BY <1>4, <2>2, <1>i DEF ReadLast, Goto, NewIsOwn, TypeOK, eventVars
  <2> QED
    BY <2>1, <2>2
<1>5. ASSUME NEW t \in Callers, CancelPrevious(t) PROVE NewIsOwn(u)'
  <2>1. mutex = t
    BY <1>5, <1>i DEF CancelPrevious, MutexMatchesPc
  <2>2. CASE u = t
    <3>1. new[u] # prev[u] /\ (new[u] \in Timers => userParam'[new[u]] = (userParam[new[u]] \/ new[u] = prev[t]))
      BY <1>5, <2>2, <1>i DEF CancelPrevious, NewIsOwn
    <3>2. new[u] \in armed /\ ~userParam[new[u]] => new[u] \in armed' /\ ~userParam'[new[u]]
      BY <1>5, <3>1, <2>2, <1>i DEF CancelPrevious, TypeOK
    <3>3. pc'[u] = "store" /\ UNCHANGED <<new, evpc, evTimer, evParam>>
      BY <1>5, <2>2, <1>i DEF CancelPrevious, Goto, TypeOK, eventVars
    <3>4. \/ new[u] \in armed /\ ~userParam[new[u]]
          \/ evpc = "callback" /\ evTimer = new[u] /\ ~evParam
      BY <1>5, <2>2, <1>i DEF CancelPrevious, NewIsOwn
    <3> QED
      BY <3>2, <3>3, <3>4 DEF NewIsOwn
  <2>3. CASE u # t
    <3>1. pc'[u] = "idle"
      BY <1>5, <2>1, <2>3, <1>m, <1>i DEF CancelPrevious, Goto, TypeOK
    <3> QED
      BY <3>1 DEF NewIsOwn
  <2> QED
    BY <2>2, <2>3
<1>6. ASSUME NEW t \in Callers, StoreLast(t) PROVE NewIsOwn(u)'
  <2>1. mutex = t
    BY <1>6, <1>i DEF StoreLast, MutexMatchesPc
  <2>2. pc'[u] = "idle"
    BY <1>6, <2>1, <1>m, <1>i DEF StoreLast, Goto, TypeOK
  <2> QED
    BY <2>2 DEF NewIsOwn
<1>7. ASSUME NEW t \in Callers, ReleaseCancel(t) PROVE NewIsOwn(u)'
  <2>1. mutex = t
    BY <1>7, <1>i DEF ReleaseCancel, MutexMatchesPc
  <2>2. pc'[u] = "idle"
    BY <1>7, <2>1, <1>m, <1>i DEF ReleaseCancel, Goto, TypeOK
  <2> QED
    BY <2>2 DEF NewIsOwn
<1>8. ASSUME NEW n \in Timers, FireTimer(n) PROVE NewIsOwn(u)'
  <2>1. CASE new[u] = n
    BY <1>8, <2>1, <1>i DEF FireTimer, NewIsOwn, callerVars
  <2>2. CASE new[u] # n
    BY <1>8, <2>2, <1>i DEF FireTimer, NewIsOwn, callerVars
  <2> QED
    BY <2>1, <2>2
<1>9. CASE WakeTimeoutCallback
  <2>1. CASE evParam
    BY <1>9, <2>1, <1>i DEF WakeTimeoutCallback, NewIsOwn, callerVars
  <2>2. CASE ~evParam
    <3>1. mutex = Null
      BY <1>9, <2>2 DEF WakeTimeoutCallback
    <3>2. pc'[u] = "idle"
      BY <1>9, <3>1, <1>i, <1>n DEF WakeTimeoutCallback, MutexMatchesPc, TypeOK, callerVars
    <3> QED
      BY <3>2 DEF NewIsOwn
  <2> QED
    BY <2>1, <2>2
<1>10. CASE TestLast
  BY <1>10, <1>i DEF TestLast, NewIsOwn, callerVars
<1>11. CASE ClearLast
  <2>1. pc[u] = "read" => new[u] # Null
    BY <1>11, <1>i, <1>n DEF ClearLast, NewIsOwn, TypeOK
  <2> QED
    BY <1>11, <2>1, <1>i DEF ClearLast, NewIsOwn, callerVars
<1>12. CASE FreeTimer
  BY <1>12, <1>i DEF FreeTimer, NewIsOwn, callerVars
<1>13. CASE UNCHANGED vars
  BY <1>13, <1>i DEF vars, callerVars, eventVars, NewIsOwn
<1> QED
  BY <1>1, <1>2, <1>3, <1>4, <1>5, <1>6, <1>7, <1>8, <1>9, <1>10, <1>11, <1>12, <1>13
     DEF Next, CallerStep, EventStep

(* A held wake lock keeps a timer: the one cancellation that is not of a   *)
(* released wake lock comes after a younger timer was armed.               *)
LEMMA HeldStep ==
  ASSUME IInv, Version13, [Next]_vars
  PROVE  held' => TimerPending'
<1> USE DEF Granting, Releasing
<1>i. TypeOK /\ MutexMatchesPc /\ (held => TimerPending) /\ \A t \in Callers : NewIsOwn(t)
  BY DEF IInv
<1>1. ASSUME NEW t \in Callers, GrabPartialWakeLock(t), held' PROVE TimerPending'
  <2>1. PICK n \in Timers : NewTimer(t, n)
    BY <1>1 DEF GrabPartialWakeLock
  <2>2. n \in armed' /\ ~userParam'[n]
    BY <2>1, <1>i DEF NewTimer, TypeOK
  <2> QED
    BY <2>2 DEF TimerPending
<1>2. ASSUME NEW t \in Callers, ReleaseWakeLock(t), held' PROVE TimerPending'
  BY <1>2, <1>i DEF ReleaseWakeLock, TimerPending, eventVars
<1>3. ASSUME NEW t \in Callers, ScheduleTimeout(t) PROVE TimerPending'
  BY <1>3, <1>i DEF ScheduleTimeout, MutexMatchesPc
<1>4. ASSUME NEW t \in Callers, ReadLast(t), held' PROVE TimerPending'
  BY <1>4, <1>i DEF ReadLast, TimerPending, eventVars
<1>5. ASSUME NEW t \in Callers, CancelPrevious(t) PROVE TimerPending'
  <2>1. NewIsOwn(t)' /\ pc'[t] = "store"
    BY <1>5, OwnStep, <1>i DEF CancelPrevious, Goto, TypeOK
  <2> QED
    BY <2>1 DEF NewIsOwn, TimerPending
<1>6. ASSUME NEW t \in Callers, StoreLast(t), held' PROVE TimerPending'
  BY <1>6, <1>i DEF StoreLast, TimerPending, eventVars
<1>7. ASSUME NEW t \in Callers, ReleaseCancel(t), held' PROVE TimerPending'
  BY <1>7, <1>i DEF ReleaseCancel, NewIsOwn
<1>8. ASSUME NEW n \in Timers, FireTimer(n), held' PROVE TimerPending'
  <2>1. PICK m \in armed : ~userParam[m]
    BY <1>8, <1>i DEF FireTimer, TimerPending
  <2>2. CASE m = n
    BY <1>8, <2>1, <2>2 DEF FireTimer, TimerPending
  <2>3. CASE m # n
    BY <1>8, <2>1, <2>3 DEF FireTimer, TimerPending
  <2> QED
    BY <2>2, <2>3
<1>9. ASSUME WakeTimeoutCallback, held' PROVE TimerPending'
  BY <1>9, <1>i DEF WakeTimeoutCallback, TimerPending
<1>10. ASSUME TestLast, held' PROVE TimerPending'
  BY <1>10, <1>i DEF TestLast, TimerPending
<1>11. ASSUME ClearLast, held' PROVE TimerPending'
  BY <1>11, <1>i DEF ClearLast, TimerPending
<1>12. ASSUME FreeTimer, held' PROVE TimerPending'
  BY <1>12, <1>i DEF FreeTimer, TimerPending
<1>13. ASSUME UNCHANGED vars, held' PROVE TimerPending'
  BY <1>13, <1>i DEF vars, callerVars, eventVars, TimerPending
<1> QED
  BY <1>1, <1>2, <1>3, <1>4, <1>5, <1>6, <1>7, <1>8, <1>9, <1>10, <1>11, <1>12, <1>13
     DEF Next, CallerStep, EventStep

-----------------------------------------------------------------------------
(* The inductive invariant holds in every reachable state from version 13  *)
(* on.                                                                     *)
THEOREM Invariance ==
  ASSUME Version13
  PROVE  Spec => []IInv
<1>1. Init => IInv
  <2> SUFFICES ASSUME Init PROVE IInv
    OBVIOUS
  <2>1. TypeOK
    BY DEF Init, TypeOK, Granting, Releasing
  <2>2. MutexMatchesPc
    BY WakeLockAssumption DEF Init, MutexMatchesPc, Granting, Releasing
  <2>3. LastIsLive
    BY DEF Init, LastIsLive
  <2>4. (\A t \in Callers : NewIsOwn(t)) /\ ~held
    BY DEF Init, NewIsOwn, Granting, Releasing
  <2> QED
    BY <2>1, <2>2, <2>3, <2>4 DEF IInv
<1>2. IInv /\ [Next]_vars => IInv'
  <2> SUFFICES ASSUME IInv, [Next]_vars PROVE IInv'
    OBVIOUS
  <2>1. TypeOK /\ MutexMatchesPc /\ LastIsLive
    BY DEF IInv
  <2>2. TypeOK' /\ MutexMatchesPc'
    BY <2>1, TypeStep, MutexStep
  <2>3. LastIsLive' /\ (\A t \in Callers : NewIsOwn(t)') /\ (held' => TimerPending')
    BY LastStep, OwnStep, HeldStep
  <2> QED
    BY <2>2, <2>3 DEF IInv
<1> QED
  BY <1>1, <1>2, PTL DEF Spec

(* Every variable keeps its type.                                          *)
THEOREM TypeCorrect ==
  ASSUME Version13
  PROVE  Spec => []TypeOK
<1>1. IInv => TypeOK
  BY DEF IInv
<1> QED
  BY <1>1, Invariance, PTL

(* The wake lock is never held without a timer that will release it, for   *)
(* any number of threads and in spite of the unlocked userTimerCallback.   *)
THEOREM HeldHasTimerHolds ==
  ASSUME Version13
  PROVE  Spec => []HeldHasTimer
<1>1. IInv => HeldHasTimer
  BY DEF IInv, HeldHasTimer
<1> QED
  BY <1>1, Invariance, PTL

(* Unacknowledged responses keep the device awake unless an allocation     *)
(* failed.                                                                 *)
THEOREM CountedMeansHeldHolds ==
  ASSUME Version13
  PROVE  Spec => []CountedMeansHeld
<1>1. Init => CountedMeansHeld
  BY DEF Init, CountedMeansHeld
<1>2. TypeOK /\ CountedMeansHeld /\ [Next]_vars => CountedMeansHeld'
  <2> SUFFICES ASSUME TypeOK, CountedMeansHeld, [Next]_vars PROVE CountedMeansHeld'
    OBVIOUS
  <2> USE DEF TypeOK, CountedMeansHeld
  <2>1. ASSUME NEW t \in Callers, GrabPartialWakeLock(t) PROVE CountedMeansHeld'
    BY <2>1 DEF GrabPartialWakeLock, AllocFails
  <2>2. ASSUME NEW t \in Callers, ReleaseWakeLock(t) PROVE CountedMeansHeld'
    BY <2>2 DEF ReleaseWakeLock
  <2>3. ASSUME NEW t \in Callers, ScheduleTimeout(t) PROVE CountedMeansHeld'
    BY <2>3 DEF ScheduleTimeout, AllocFails
  <2>4. CASE WakeTimeoutCallback
    BY <2>4 DEF WakeTimeoutCallback
  <2>5. CASE UNCHANGED <<held, s_wakelock_count, failures>>
    BY <2>5
  <2> QED
    BY <2>1, <2>2, <2>3, <2>4, <2>5
       DEF Next, CallerStep, EventStep, vars, ReadLast, CancelPrevious, StoreLast,
           ReleaseCancel, FireTimer, TestLast, ClearLast, FreeTimer
<1> QED
  BY <1>1, <1>2, TypeCorrect, PTL DEF Spec

-----------------------------------------------------------------------------
(* The network time: the inductive invariant.                              *)

NotDelivered(d) == \A i \in 1..Len(delivered) : delivered[i].data # d

(* The binder thread has the read lock from ResendLock to ResendUnlock, so *)
(* no NITZ message is processed meanwhile.                                 *)
ResendLocked == bpc \in {"send", "sent", "unlock"} => readLocks > 0

(* A delivered time is the one of a message that was received.             *)
DeliveredReceived ==
  /\ nitzTimeReceived = nitz
  /\ \A i \in 1..Len(delivered) : delivered[i].data <= nitz \/ delivered[i].data = Blank
  /\ s_lastNITZTimeData # NoData => nitz > 0

(* The kept copy was not delivered, except between its delivery and the    *)
(* free that follows it.                                                   *)
KeptIsNew ==
  bpc # "sent" /\ s_lastNITZTimeData \notin {NoData, Blank}
    => NotDelivered(s_lastNITZTimeData)

(* While the vendor thread keeps a copy of the last message, the message   *)
(* has not been delivered and no one can see the copy.                     *)
CopyIsNew == vpc # "idle" => nitz > 0 /\ NotDelivered(nitz) /\ s_lastNITZTimeData # nitz

NitzInv ==
  /\ NitzTypeOK /\ ResendLocked /\ DeliveredReceived /\ KeptIsNew /\ CopyIsNew
  /\ DeliveredOnce

-----------------------------------------------------------------------------
(* What nitzTimeReceivedInd does to the calls that were made.              *)
LEMMA IndicateEffect ==
  ASSUME NitzTypeOK, NEW data \in 1..Blank, NEW time \in 1..MaxNitz, Indicate(data, time)
  PROVE  /\ delivered' \in Seq([data : 1..Blank, time : 1..MaxNitz])
         /\ mRadioIndication' \in {mRadioIndication, 0}
         /\ \/ delivered' = delivered
            \/ /\ mRadioIndication # 0
               /\ Len(delivered') = Len(delivered) + 1
               /\ \A i \in 1..Len(delivered) : delivered'[i] = delivered[i]
               /\ delivered'[Len(delivered) + 1].data = data
<1> DEFINE R == [data : 1..Blank, time : 1..MaxNitz]
           d == [data |-> data, time |-> time]
<1>1. delivered \in Seq(R) /\ d \in R /\ d.data = data
  BY DEF NitzTypeOK
<1>2. /\ Append(delivered, d) \in Seq(R)
      /\ Len(Append(delivered, d)) = Len(delivered) + 1
      /\ \A i \in 1..Len(delivered) : Append(delivered, d)[i] = delivered[i]
      /\ Append(delivered, d)[Len(delivered) + 1] = d
  BY <1>1, AppendProperties
<1>3. mRadioIndication' \in {mRadioIndication, 0}
  BY DEF Indicate
<1> HIDE DEF R
<1>4. delivered' = delivered \/ (delivered' = Append(delivered, d) /\ mRadioIndication # 0)
  BY DEF Indicate, NoData
<1> QED
  BY <1>1, <1>2, <1>3, <1>4 DEF R

(* A delivery of something that was not delivered before keeps the         *)
(* property, and leaves every other message undelivered.                   *)
LEMMA DeliverNew ==
  ASSUME NitzInv, NEW data \in 1..Blank, NEW time \in 1..MaxNitz,
         Indicate(data, time),
         data # Blank => NotDelivered(data)
  PROVE  /\ DeliveredOnce'
         /\ \A e \in Nat : NotDelivered(e) /\ e # data => NotDelivered(e)'
         /\ \A i \in 1..Len(delivered') :
              \/ i \in 1..Len(delivered) /\ delivered'[i] = delivered[i]
              \/ delivered'[i].data = data
<1>1. NitzTypeOK /\ DeliveredOnce /\ Len(delivered) \in Nat
  BY DEF NitzInv, NitzTypeOK
<1>2. CASE delivered' = delivered
  BY <1>1, <1>2 DEF DeliveredOnce, NotDelivered
<1>3. CASE /\ Len(delivered') = Len(delivered) + 1
           /\ \A i \in 1..Len(delivered) : delivered'[i] = delivered[i]
           /\ delivered'[Len(delivered) + 1].data = data
  <2>1. \A i \in 1..Len(delivered') : i \in 1..Len(delivered) \/ i = Len(delivered) + 1
    BY <1>1, <1>3
  <2> QED
    BY <1>1, <1>3, <2>1 DEF DeliveredOnce, NotDelivered
<1> QED
  BY <1>1, <1>2, <1>3, IndicateEffect

LEMMA NitzReceivedKeeps ==
  ASSUME NitzInv, NitzReceived
  PROVE  NitzInv'
<1> DEFINE n == nitz + 1
<1>1. /\ n \in 1..Blank /\ n \in 1..MaxNitz /\ n # Blank /\ nitz \in Nat
      /\ Indicate(n, n)
  BY NitzAssumption DEF NitzInv, NitzTypeOK, NitzReceived, Blank
<1>2. NotDelivered(n)
  BY <1>1 DEF NitzInv, DeliveredReceived, NotDelivered
<1>3. /\ DeliveredOnce'
      /\ \A e \in Nat : NotDelivered(e) /\ e # n => NotDelivered(e)'
      /\ \A i \in 1..Len(delivered') :
           \/ i \in 1..Len(delivered) /\ delivered'[i] = delivered[i]
           \/ delivered'[i].data = n
  BY <1>1, <1>2, DeliverNew
<1>4. NitzTypeOK'
  <2>1. /\ delivered' \in Seq([data : 1..Blank, time : 1..MaxNitz])
        /\ mRadioIndication' \in {mRadioIndication, 0} /\ NitzTypeOK
    BY <1>1, IndicateEffect DEF NitzInv
  <2> QED
    BY <1>1, <2>1, NitzAssumption DEF NitzTypeOK, NitzReceived, NoData, Blank, clientVars
<1>5. ResendLocked'
  BY DEF NitzInv, ResendLocked, NitzReceived
<1>6. DeliveredReceived'
  <2>1. nitz' = n /\ nitzTimeReceived' = n
    BY DEF NitzReceived
  <2>2. \A i \in 1..Len(delivered') : delivered'[i].data <= n \/ delivered'[i].data = Blank
    <3>1. \A i \in 1..Len(delivered) : delivered[i].data \in Nat
      <4>1. \A i \in 1..Len(delivered) : delivered[i] \in [data : 1..Blank, time : 1..MaxNitz]
        BY ElementOfSeq DEF NitzInv, NitzTypeOK
      <4> QED
        BY <4>1, NitzAssumption DEF Blank
    <3>2. \A i \in 1..Len(delivered) : delivered[i].data <= nitz \/ delivered[i].data = Blank
      BY DEF NitzInv, DeliveredReceived
    <3> QED
      BY <1>1, <1>3, <3>1, <3>2, SMTT(30)
  <2> QED
    BY <1>1, <2>1, <2>2 DEF DeliveredReceived, Blank
<1>7. s_lastNITZTimeData # n /\ s_lastNITZTimeData' = s_lastNITZTimeData /\ bpc' = bpc
  BY <1>1, NitzAssumption DEF NitzInv, NitzTypeOK, NitzReceived, NoData, Blank
<1>8. KeptIsNew'
  BY <1>3, <1>7, NitzAssumption DEF NitzInv, NitzTypeOK, KeptIsNew, NoData, Blank
<1>9. CopyIsNew'
  <2>1. CASE mRadioIndication = 0
    <3>1. delivered' = delivered
      BY <2>1, <1>1 DEF Indicate
    <3>2. NotDelivered(nitz)' /\ nitz' = n
      BY <1>2, <3>1 DEF NotDelivered, NitzReceived
    <3> QED
      BY <1>1, <1>7, <3>2 DEF CopyIsNew
  <2>2. CASE mRadioIndication # 0
    BY <2>2 DEF NitzReceived, CopyIsNew
  <2> QED
    BY <2>1, <2>2
<1> QED
  BY <1>3, <1>4, <1>5, <1>6, <1>8, <1>9 DEF NitzInv

LEMMA ResendIndicateKeeps ==
  ASSUME NitzInv, ResendIndicate
  PROVE  NitzInv'
<1> DEFINE s == s_lastNITZTimeData
<1>1. s \in Nat /\ nitz \in Nat /\ Blank \in Nat
  BY NitzAssumption DEF NitzInv, NitzTypeOK, NoData, Blank
<1>2. CASE s = NoData
  <2>1. delivered' = delivered /\ mRadioIndication' = mRadioIndication
    BY <1>2 DEF ResendIndicate, Indicate
  <2>2. NitzTypeOK' /\ ResendLocked' /\ DeliveredReceived' /\ KeptIsNew' /\ CopyIsNew'
    BY <1>2, <2>1 DEF NitzInv, NitzTypeOK, ResendIndicate, ResendLocked,
                      DeliveredReceived, KeptIsNew,
                      CopyIsNew, NotDelivered, clientVars, Blank, NoData
  <2> QED
    BY <2>1, <2>2 DEF NitzInv, DeliveredOnce
<1>3. CASE s # NoData
  <2>1. s \in 1..Blank /\ nitzTimeReceived \in 1..MaxNitz /\ Indicate(s, nitzTimeReceived)
    BY <1>1, <1>3, NitzAssumption
       DEF NitzInv, NitzTypeOK, DeliveredReceived, NoData, Blank,
           ResendIndicate
  <2>2. s # Blank => NotDelivered(s)
    BY <1>3 DEF NitzInv, KeptIsNew, ResendIndicate
  <2>3. /\ DeliveredOnce'
        /\ \A e \in Nat : NotDelivered(e) /\ e # s => NotDelivered(e)'
        /\ \A i \in 1..Len(delivered') :
             \/ i \in 1..Len(delivered) /\ delivered'[i] = delivered[i]
             \/ delivered'[i].data = s
    BY <2>1, <2>2, DeliverNew
  <2>4. NitzTypeOK'
    <3>1. /\ delivered' \in Seq([data : 1..Blank, time : 1..MaxNitz])
          /\ mRadioIndication' \in {mRadioIndication, 0} /\ NitzTypeOK
      BY <2>1, IndicateEffect DEF NitzInv
    <3> QED
      BY <3>1, NitzAssumption DEF NitzTypeOK, ResendIndicate, NoData, Blank, clientVars
  <2>5. ResendLocked'
    BY DEF NitzInv, ResendLocked, ResendIndicate
  <2>6. DeliveredReceived'
    <3>1. \A i \in 1..Len(delivered') : delivered'[i].data <= nitz \/ delivered'[i].data = Blank
      BY <1>1, <2>3, SMTT(30) DEF NitzInv, DeliveredReceived, NitzTypeOK, Blank, NoData
    <3> QED
      BY <3>1 DEF NitzInv, DeliveredReceived, ResendIndicate, Blank
  <2>7. KeptIsNew'
    <3>1. CASE mRadioIndication # 0
      BY <3>1 DEF ResendIndicate, KeptIsNew
    <3>2. CASE mRadioIndication = 0
      BY <3>2, <2>2 DEF ResendIndicate, Indicate, KeptIsNew, NotDelivered, NitzInv,
                        Blank
    <3> QED
      BY <3>1, <3>2
  <2>8. CopyIsNew'
    BY <1>1, <2>3 DEF NitzInv, CopyIsNew, ResendIndicate
  <2> QED
    BY <2>3, <2>4, <2>5, <2>6, <2>7, <2>8 DEF NitzInv
<1> QED
  BY <1>2, <1>3

(* The steps that deliver nothing.                                         *)
Quiet ==
  \/ ClientStart \/ ClientDie \/ FreeOld \/ AllocCopy \/ CopyData
  \/ SetResponseFunctions \/ TestLastNITZ \/ ResendLock \/ ResendFree \/ ResendUnlock

LEMMA QuietKeeps ==
  ASSUME NitzInv, Quiet, delivered' = delivered, nitz' = nitz,
         nitzTimeReceived' = nitzTimeReceived
  PROVE  NitzInv'
<1> USE NitzAssumption DEF NoData, Blank, clientVars, NitzInv
<1>1. DeliveredOnce' /\ \A e \in Nat : NotDelivered(e) => NotDelivered(e)'
  BY DEF DeliveredOnce, NotDelivered
<1> USE DEF Quiet, ClientStart, ClientDie, FreeOld, AllocCopy, CopyData,
            SetResponseFunctions, TestLastNITZ, ResendLock, ResendFree, ResendUnlock
<1>2. NitzTypeOK'
  BY DEF NitzTypeOK, ResendLocked
<1>3. ResendLocked'
  BY DEF NitzTypeOK, ResendLocked
<1>4. DeliveredReceived'
  BY DEF DeliveredReceived, CopyIsNew
<1>5. KeptIsNew'
  BY <1>1 DEF NitzTypeOK, KeptIsNew, CopyIsNew
<1>6. CopyIsNew'
  BY <1>1 DEF NitzTypeOK, CopyIsNew
<1> QED
  BY <1>1, <1>2, <1>3, <1>4, <1>5, <1>6

LEMMA NitzInvariance ==
  NitzSpec => []NitzInv
<1>1. NitzInit => NitzInv
  BY NitzAssumption DEF NitzInit, NitzInv, NitzTypeOK, ResendLocked, DeliveredReceived, KeptIsNew,
     CopyIsNew, DeliveredOnce, NoData, Blank
<1>2. NitzInv /\ [NitzNext]_nitzVars => NitzInv'
  <2> SUFFICES ASSUME NitzInv, [NitzNext]_nitzVars PROVE NitzInv'
    OBVIOUS
  <2>1. CASE NitzReceived
    BY <2>1, NitzReceivedKeeps
  <2>2. CASE ResendIndicate
    BY <2>2, ResendIndicateKeeps
  <2>3. CASE Quiet
    <3>1. UNCHANGED <<delivered, nitz, nitzTimeReceived>>
      BY <2>3 DEF Quiet, ClientStart, ClientDie, FreeOld, AllocCopy,
         CopyData, SetResponseFunctions, TestLastNITZ, ResendLock, ResendFree,
         ResendUnlock
    <3> QED
      BY <2>3, <3>1, QuietKeeps
  <2>4. CASE UNCHANGED nitzVars
    BY <2>4 DEF nitzVars, clientVars, NitzInv, NitzTypeOK, ResendLocked, DeliveredReceived,
                KeptIsNew, CopyIsNew, DeliveredOnce, NotDelivered, Blank
  <2> QED
    BY <2>1, <2>2, <2>3, <2>4 DEF NitzNext, Quiet
<1> QED
  BY <1>1, <1>2, PTL DEF NitzSpec

-----------------------------------------------------------------------------
(* Every variable keeps its type.  The read locks stay a natural number    *)
(* because every unlock of resendLastNITZTimeData follows a lock.          *)
THEOREM NitzTypes ==
  NitzSpec => []NitzTypeOK
BY NitzInvariance, PTL DEF NitzInv

(* No network time reaches a client twice, for any number of messages and  *)
(* of restarts of the client, although s_lastNITZTimeData is read, written *)
(* and freed by two threads without a lock: what was resent is freed       *)
(* before the read lock is released, and no message comes in before that.  *)
THEOREM DeliveredOnceHolds ==
  NitzSpec => []DeliveredOnce
BY NitzInvariance, PTL DEF NitzInv
=============================================================================
