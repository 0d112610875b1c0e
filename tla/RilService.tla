----------------------------- MODULE RilService -----------------------------
(***************************************************************************)
(* The callback registry of libril's HIDL service: the response and        *)
(* indication objects the telephony client registers per service           *)
(* (setResponseFunctions), the reader-writer lock that guards them, the    *)
(* upcalls that the vendor RIL's threads make through them, the error      *)
(* answers that the binder thread makes through them without the lock      *)
(* (sendErrorResponse), and the recovery of checkReturnStatus when the     *)
(* client process has died.                                                *)
(*                                                                         *)
(* One rwlock guards all services: getRadioServiceRwlock returns           *)
(* radioServiceRwlock for the slot ids 0 and 1 that a build with           *)
(* SIM_COUNT <= 2 has.  A service is an IRadio or an IOemHook of a slot;   *)
(* its two callback objects are always assigned together, so one value,    *)
(* the incarnation of the client that registered them, stands for both.    *)
(***************************************************************************)
EXTENDS Naturals, Sequences, FiniteSets

CONSTANTS
  Vendor,          \* threads of the vendor RIL that make upcalls
  Binder,          \* the only thread of the HIDL pool
  RadioServices,   \* IRadio services, one per slot
  OemHookServices, \* IOemHook services, one per slot
  MaxClients,      \* bound: incarnations of the client process
  MaxUpcalls       \* bound: upcalls by vendor threads and error answers

Threads  == Vendor \cup {Binder}
Services == RadioServices \cup OemHookServices

NoClient == 0      \* a NULL callback, and "no client process is running"
NoThread == "none" \* the lock has no writer
Clients  == 1..MaxClients

ASSUME ServiceAssumption ==
  /\ IsFiniteSet(Vendor)
  /\ Binder \notin Vendor
  /\ NoThread \notin Threads
  /\ RadioServices # {}
  /\ RadioServices \cap OemHookServices = {}
  /\ MaxClients \in Nat
  /\ MaxUpcalls \in Nat

VARIABLES
  callback,  \* mRadioResponse/mRadioIndication (or the OemHook pair), per service
  mCounter,  \* mCounterRadio / mCounterOemHook, per service
  writer,    \* holder of the write lock
  readers,   \* read locks held: a number, the lock does not know by whom
  pc,        \* where each thread is
  svc,       \* the service the thread's upcall is for
  counter,   \* checkReturnStatus's local copy of the counter
  failed,    \* the client whose call failed, as seen by the thread
  alive,     \* the incarnation of the client process that is running
  born,      \* incarnations started so far
  inbox,     \* setResponseFunctions transactions waiting for the binder thread
  todo,      \* indications onNewCommandConnect still has to send
  bare,      \* the binder thread is in a response function without the lock
  breach,    \* how the locking discipline has been broken so far
  upcalls    \* upcalls and error answers started so far

lockVars   == <<writer, readers>>
clientVars == <<alive, born, inbox>>
modeVars   == <<bare, breach>>
vars == <<callback, mCounter, lockVars, pc, svc, counter, failed, clientVars,
          todo, modeVars, upcalls>>

-----------------------------------------------------------------------------
(* pthread_rwlock_t as bionic implements it: readers are preferred and     *)
(* only counted.  An unlock by a thread that is not the writer takes away  *)
(* one read lock, whoever took it, or fails with EPERM when there is none; *)
(* the assert on its result is compiled out (NDEBUG).                      *)

pthread_rwlock_rdlock(t) ==
  /\ writer = NoThread
  /\ readers' = readers + 1
  /\ UNCHANGED writer

pthread_rwlock_wrlock(t) ==
  /\ writer = NoThread
  /\ readers = 0
  /\ writer' = t
  /\ UNCHANGED readers

pthread_rwlock_unlock(t) ==
  /\ writer'  = IF writer = t THEN NoThread ELSE writer
  /\ readers' = IF writer = NoThread /\ readers > 0 THEN readers - 1 ELSE readers

(* Thread t runs a response function that sendErrorResponse called.        *)
IsBare(t) == t = Binder /\ bare

Goto(t, l) == pc' = [pc EXCEPT ![t] = l]

-----------------------------------------------------------------------------
(* The client process (com.android.phone).  Its calls are one-way binder   *)
(* transactions: they wait in the service's queue and outlive the client.  *)

Registration(s, g) == [service |-> s, client |-> g]
Registrations      == [service : Services, client : Nat]

ClientStart ==
  /\ alive = NoClient
  /\ born < MaxClients
  /\ born'  = born + 1
  /\ alive' = born + 1
  /\ UNCHANGED <<callback, mCounter, lockVars, pc, svc, counter, failed, inbox,
                 todo, modeVars, upcalls>>

ClientRegister(s) ==
  /\ alive # NoClient
  /\ \A i \in 1..Len(inbox) : inbox[i] # Registration(s, alive)
  /\ callback[s] # alive
  /\ inbox' = Append(inbox, Registration(s, alive))
  /\ UNCHANGED <<callback, mCounter, lockVars, pc, svc, counter, failed, alive,
                 born, todo, modeVars, upcalls>>

ClientDie ==
  /\ alive # NoClient
  /\ alive' = NoClient
  /\ UNCHANGED <<callback, mCounter, lockVars, pc, svc, counter, failed, born,
                 inbox, todo, modeVars, upcalls>>

-----------------------------------------------------------------------------
(* An upcall: RIL_onRequestComplete, RIL_onRequestAck and                  *)
(* RIL_onUnsolicitedResponse take the read lock around the response        *)
(* function; the NITZ indication takes the write lock.                     *)

StartUpcall(t, s, lock) ==
  /\ t \in Vendor
  /\ pc[t] = "idle"
  /\ upcalls < MaxUpcalls
  /\ s \in OemHookServices => lock = "rdlock"
  /\ upcalls' = upcalls + 1
  /\ svc' = [svc EXCEPT ![t] = s]
  /\ Goto(t, lock)
  /\ UNCHANGED <<callback, mCounter, lockVars, counter, failed, clientVars, todo,
                 modeVars>>

(* A request of a client that a method of RadioImpl refuses by itself: the *)
(* binder thread runs the response function without taking the lock.       *)
sendErrorResponse(s) ==
  /\ pc[Binder] = "idle"
  /\ born > 0
  /\ upcalls < MaxUpcalls
  /\ upcalls' = upcalls + 1
  /\ svc'  = [svc EXCEPT ![Binder] = s]
  /\ bare' = TRUE
  /\ Goto(Binder, "test")
  /\ UNCHANGED <<callback, mCounter, lockVars, counter, failed, clientVars, todo,
                 breach>>

RdLock(t) ==
  /\ pc[t] = "rdlock"
  /\ pthread_rwlock_rdlock(t)
  /\ Goto(t, "test")
  /\ UNCHANGED <<callback, mCounter, svc, counter, failed, clientVars, todo, modeVars, upcalls>>

WrLock(t) ==
  /\ pc[t] = "wrlock"
  /\ pthread_rwlock_wrlock(t)
  /\ Goto(t, "test")
  /\ UNCHANGED <<callback, mCounter, svc, counter, failed, clientVars, todo, modeVars, upcalls>>

(* Fault: the early return for a NULL callback forgets the caller's unlock.*)
TestCallback_LeaksLock(t) ==
  /\ pc[t] = "test"
  /\ Goto(t, IF callback[svc[t]] = NoClient THEN "idle" ELSE "call")
  /\ UNCHANGED <<callback, mCounter, lockVars, svc, counter, failed, clientVars,
                 todo, modeVars, upcalls>>

(* The NULL test that opens every response and indication function.        *)
TestCallback(t) ==
  /\ pc[t] = "test"
  /\ Goto(t, IF callback[svc[t]] = NoClient THEN "unlock" ELSE "call")
  /\ UNCHANGED <<callback, mCounter, lockVars, svc, counter, failed, clientVars,
                 todo, modeVars, upcalls>>

(* The one-way call itself: it reaches the client, or fails because the    *)
(* process that hosts the callback object is dead; a call through a        *)
(* pointer that has become NULL since the test ends the radio process.     *)
CallClient(t) ==
  /\ pc[t] = "call"
  /\ \/ /\ callback[svc[t]] = NoClient
        /\ pc' = [u \in Threads |-> "crashed"]
        /\ breach' = breach \cup {"null"}
        /\ UNCHANGED failed
     \/ /\ callback[svc[t]] # NoClient
        /\ callback[svc[t]] = alive
        /\ Goto(t, "unlock")
        /\ UNCHANGED <<failed, breach>>
     \/ /\ callback[svc[t]] \notin {NoClient, alive}
        /\ failed' = [failed EXCEPT ![t] = callback[svc[t]]]
        /\ Goto(t, "note")
        /\ UNCHANGED breach
  /\ UNCHANGED <<callback, mCounter, lockVars, svc, counter, clientVars, todo, bare,
                 upcalls>>

(* checkReturnStatus after a failed call, one action per lock operation.   *)
NoteCounter(t) ==
  /\ pc[t] = "note"
  /\ counter' = [counter EXCEPT ![t] = mCounter[svc[t]]]
  /\ Goto(t, "release")
  /\ UNCHANGED <<callback, mCounter, lockVars, svc, failed, clientVars, todo, modeVars, upcalls>>

(* "Caller should already hold rdlock, release that first": the callers of *)
(* sendErrorResponse do not, and give back a read lock that is not theirs. *)
ReleaseLock(t) ==
  /\ pc[t] = "release"
  /\ pthread_rwlock_unlock(t)
  /\ breach' = IF IsBare(t) THEN breach \cup {"unlocked"} ELSE breach
  /\ Goto(t, "upgrade")
  /\ UNCHANGED <<callback, mCounter, svc, counter, failed, clientVars, todo, bare, upcalls>>

(* Fault: the callbacks are reset without the write lock.                  *)
UpgradeLock_Skipped(t) ==
  /\ pc[t] = "upgrade"
  /\ Goto(t, "reset")
  /\ UNCHANGED <<callback, mCounter, lockVars, svc, counter, failed, clientVars, todo,
                 modeVars, upcalls>>

UpgradeLock(t) ==
  /\ pc[t] = "upgrade"
  /\ pthread_rwlock_wrlock(t)
  /\ Goto(t, "reset")
  /\ UNCHANGED <<callback, mCounter, svc, counter, failed, clientVars, todo, modeVars, upcalls>>

(* Fault: the callbacks are reset whatever the counter says.               *)
ResetCallback_AnyCounter(t) ==
  /\ pc[t] = "reset"
  /\ callback' = [callback EXCEPT ![svc[t]] = NoClient]
  /\ mCounter' = [mCounter EXCEPT ![svc[t]] = @ + 1]
  /\ pthread_rwlock_unlock(t)
  /\ Goto(t, "relock")
  /\ UNCHANGED <<svc, counter, failed, clientVars, todo, modeVars, upcalls>>

(* Fault: the write lock is kept, and the read lock taken on top of it.    *)
ResetCallback_KeepsLock(t) ==
  /\ pc[t] = "reset"
  /\ callback' = [callback EXCEPT ![svc[t]] = NoClient]
  /\ mCounter' = [mCounter EXCEPT ![svc[t]] = @ + 1]
  /\ Goto(t, "relock")
  /\ UNCHANGED <<lockVars, svc, counter, failed, clientVars, todo, modeVars, upcalls>>

ResetCallback(t) ==
  /\ pc[t] = "reset"
  /\ LET s == svc[t]
     IN  IF counter[t] = mCounter[s]
         THEN /\ callback' = [callback EXCEPT ![s] = NoClient]
              /\ mCounter' = [mCounter EXCEPT ![s] = @ + 1]
         ELSE UNCHANGED <<callback, mCounter>>
  /\ pthread_rwlock_unlock(t)
  /\ Goto(t, "relock")
  /\ UNCHANGED <<svc, counter, failed, clientVars, todo, modeVars, upcalls>>

RelockRead(t) ==
  /\ pc[t] = "relock"
  /\ pthread_rwlock_rdlock(t)
  /\ Goto(t, "unlock")
  /\ UNCHANGED <<callback, mCounter, svc, counter, failed, clientVars, todo, modeVars, upcalls>>

(* The caller's unlock.  The binder thread goes on with the indications    *)
(* that onNewCommandConnect still has to send.                             *)
Unlock(t) ==
  /\ pc[t] = "unlock"
  /\ ~IsBare(t)
  /\ pthread_rwlock_unlock(t)
  /\ \/ /\ t = Binder /\ todo # <<>>
        /\ Goto(t, Head(todo))
        /\ todo' = Tail(todo)
     \/ /\ ~(t = Binder /\ todo # <<>>)
        /\ Goto(t, "idle")
        /\ UNCHANGED todo
  /\ UNCHANGED <<callback, mCounter, svc, counter, failed, clientVars, modeVars, upcalls>>

(* The response function returns to sendErrorResponse, which took no lock. *)
ErrorSent ==
  /\ pc[Binder] = "unlock"
  /\ bare
  /\ bare' = FALSE
  /\ Goto(Binder, "idle")
  /\ UNCHANGED <<callback, mCounter, lockVars, svc, counter, failed, clientVars, todo,
                 breach, upcalls>>

-----------------------------------------------------------------------------
(* setResponseFunctions on the binder thread: store the callbacks under    *)
(* the write lock, then (IRadio only) onNewCommandConnect sends            *)
(* RIL_UNSOL_RIL_CONNECTED, RIL_UNSOL_RESPONSE_RADIO_STATE_CHANGED and,    *)
(* when one is saved, the last NITZ time.  Whether one is saved is a       *)
(* choice here; RilNitz has the saved time itself and its data races.      *)

TakeRegistration ==
  /\ pc[Binder] = "idle"
  /\ inbox # <<>>
  /\ pthread_rwlock_wrlock(Binder)
  /\ svc' = [svc EXCEPT ![Binder] = Head(inbox).service]
  /\ Goto(Binder, "set")
  /\ UNCHANGED <<callback, mCounter, counter, failed, clientVars, todo, modeVars, upcalls>>

StoreCallbacks ==
  /\ pc[Binder] = "set"
  /\ LET s == svc[Binder]
     IN  /\ callback' = [callback EXCEPT ![s] = Head(inbox).client]
         /\ mCounter' = [mCounter EXCEPT ![s] = @ + 1]
         /\ IF s \in RadioServices
            THEN /\ Goto(Binder, "rdlock")
                 /\ todo' \in {<<"rdlock">>, <<"rdlock", "resend">>}
            ELSE Goto(Binder, "idle") /\ UNCHANGED todo
  /\ inbox' = Tail(inbox)
  /\ pthread_rwlock_unlock(Binder)
  /\ UNCHANGED <<svc, counter, failed, alive, born, modeVars, upcalls>>

(* resendLastNITZTimeData takes the read lock before it tests the saved    *)
(* time again; when a vendor thread's indication has discarded it since    *)
(* onNewCommandConnect's test, it returns and keeps the lock.              *)
resendLastNITZTimeData ==
  /\ pc[Binder] = "resend"
  /\ pthread_rwlock_rdlock(Binder)
  /\ \/ /\ Goto(Binder, "test")
        /\ UNCHANGED breach
     \/ /\ Goto(Binder, "idle")
        /\ breach' = breach \cup {"resend"}
  /\ UNCHANGED <<callback, mCounter, svc, counter, failed, clientVars, todo, bare,
                 upcalls>>

-----------------------------------------------------------------------------
Init ==
  /\ callback = [s \in Services |-> NoClient]
  /\ mCounter = [s \in Services |-> 0]
  /\ writer   = NoThread
  /\ readers  = 0
  /\ pc       = [t \in Threads |-> "idle"]
  /\ svc      \in {[t \in Threads |-> s] : s \in RadioServices}
  /\ counter  = [t \in Threads |-> 0]
  /\ failed   = [t \in Threads |-> NoClient]
  /\ alive    = NoClient
  /\ born     = 0
  /\ inbox    = <<>>
  /\ todo     = <<>>
  /\ bare     = FALSE
  /\ breach   = {}
  /\ upcalls  = 0

ThreadStep(t) ==
  \/ RdLock(t)       \/ WrLock(t)      \/ TestCallback(t)
  \/ CallClient(t)   \/ NoteCounter(t) \/ ReleaseLock(t)
  \/ UpgradeLock(t)  \/ ResetCallback(t)
  \/ RelockRead(t)   \/ Unlock(t)

BinderStep ==
  \/ TakeRegistration
  \/ StoreCallbacks
  \/ resendLastNITZTimeData
  \/ ErrorSent

Next ==
  \/ ClientStart
  \/ \E s \in Services : ClientRegister(s)
  \/ ClientDie
  \/ \E t \in Vendor, s \in Services, l \in {"rdlock", "wrlock"} : StartUpcall(t, s, l)
  \/ \E t \in Threads : ThreadStep(t)
  \/ \E s \in Services : sendErrorResponse(s)
  \/ BinderStep

(* A thread that can go on does: the steps are straight-line code and lock *)
(* operations.  The client and the vendor's decision to make an upcall are *)
(* the environment and get no fairness.                                    *)
Fairness ==
  /\ \A t \in Threads : WF_vars(ThreadStep(t))
  /\ WF_vars(BinderStep)

Spec == Init /\ [][Next]_vars /\ Fairness

-----------------------------------------------------------------------------
(* Properties *)

Labels == {"idle", "rdlock", "wrlock", "test", "call", "note", "release",
           "upgrade", "reset", "relock", "unlock", "set", "resend", "crashed"}

Breaches == {"unlocked", "resend", "null"}

(* Every variable has its type: callbacks and clients are incarnations,    *)
(* lock counts are naturals, pending registrations name a service.         *)
TypeOK ==
  /\ callback \in [Services -> Nat]
  /\ mCounter \in [Services -> Nat]
  /\ writer   \in Threads \cup {NoThread}
  /\ readers  \in Nat
  /\ pc       \in [Threads -> Labels]
  /\ svc      \in [Threads -> Services]
  /\ counter  \in [Threads -> Nat]
  /\ failed   \in [Threads -> Nat]
  /\ alive    \in Nat
  /\ born     \in Nat
  /\ inbox    \in Seq(Registrations)
  /\ todo     \in Seq({"rdlock", "resend"})
  /\ bare     \in BOOLEAN
  /\ breach   \in SUBSET Breaches
  /\ upcalls  \in Nat

(* A response or indication function that runs under the read lock and     *)
(* found a callback object still has it when it makes the call: no other   *)
(* thread's reset or registration gets between the NULL test and the call. *)
(* Two exceptions, both from sendErrorResponse, which takes no lock: its   *)
(* own call is not protected (it may end the process), and once it met a   *)
(* dead client its checkReturnStatus has given back somebody else's lock.  *)
NoNullCall ==
  "unlocked" \notin breach =>
    \A t \in Threads : pc[t] = "call" /\ ~IsBare(t) => callback[svc[t]] # NoClient

Outside == {"idle", "rdlock", "wrlock", "upgrade", "relock", "resend"}
Inside  == {"test", "call", "note", "release", "unlock"}
Writing == {"reset", "set"}
Failing == {"note", "release", "upgrade", "reset"}

(* The threads that are inside a critical section of the read lock.        *)
Holders == {t \in Threads : pc[t] \in Inside /\ writer # t /\ ~IsBare(t)}

(* checkReturnStatus drops and retakes the lock in the middle of its       *)
(* caller's critical section; still the lock is held just as often as      *)
(* there are threads in a critical section, so that it is free when they   *)
(* have all returned.  Exceptions: an error answer that found its client   *)
(* dead, resendLastNITZTimeData's early return, and a crash.               *)
LockReleased ==
  breach = {} =>
    /\ readers = Cardinality(Holders)
    /\ \A t \in Threads : pc[t] = "idle" => writer # t

(* checkReturnStatus "avoid[s] overwriting updates made by another         *)
(* thread": callbacks go back to NULL only when the client that registered *)
(* them is dead, however its failed call interleaves with re-registration, *)
(* and also when an error answer took the lock away from somebody.         *)
LiveClientKept ==
  [][\A s \in Services :
       callback[s] # NoClient /\ callback'[s] = NoClient => callback[s] # alive]_vars

(* A client that registers and does not die gets its callbacks installed,  *)
(* unless a read lock has leaked (the exceptions of LockReleased).  It     *)
(* takes vendor threads whose upcalls come to an end: bionic prefers       *)
(* readers, and MaxUpcalls keeps them from starving the binder thread.     *)
RegistrationSticks ==
  \A s \in Services, g \in Clients :
    (\E i \in 1..Len(inbox) : inbox[i] = Registration(s, g))
      ~> (callback[s] = g \/ alive # g \/ breach # {})

-----------------------------------------------------------------------------
(* The inductive invariant behind NoNullCall, LockReleased and             *)
(* LiveClientKept, by parts.                                               *)

(* The binder thread has given back a read lock that it did not hold, and  *)
(* has not yet taken the one that it will not give back.                   *)
Borrowed == bare /\ pc[Binder] \in {"upgrade", "reset", "relock"}

(* The lock is consistent with what each thread's position lets it assume. *)
LockMatchesPc ==
  /\ writer # NoThread => readers = 0
  /\ \A t \in Threads :
       /\ pc[t] \in Outside => writer # t
       /\ pc[t] \in Writing => writer = t
  /\ bare => pc[Binder] \in (Inside \cup {"upgrade", "reset", "relock", "crashed"})
  /\ bare /\ pc[Binder] \in Inside => writer # Binder

(* No thread in a critical section is without a read lock, but one while   *)
(* the binder thread borrows it; and none is left over but for a breach.   *)
LockCounted ==
  /\ ~Borrowed => Cardinality(Holders) <= readers
  /\ Borrowed  => Cardinality(Holders) <= readers + 1 /\ "unlocked" \in breach
  /\ breach = {} => readers = Cardinality(Holders)

(* No incarnation that has not been started is known to anybody, and only  *)
(* the youngest one can be running.                                        *)
ClientsBorn ==
  /\ alive \in {NoClient, born}
  /\ \A s \in Services : callback[s] <= born
  /\ \A i \in 1..Len(inbox) : inbox[i].client \in 1..born
  /\ pc[Binder] = "set" => inbox # <<>>
  /\ \A t \in Vendor : pc[t] # "set"

(* A thread in checkReturnStatus saw the call of a dead client fail, and   *)
(* as long as the counter it noted is current, the registered callbacks    *)
(* are still that client's, or none.                                       *)
FailureNotedBy(t) ==
  /\ pc[t] \in Failing => failed[t] \in 1..born /\ failed[t] # alive
  /\ pc[t] = "note" => callback[svc[t]] \in {failed[t], NoClient}
  /\ pc[t] \in {"release", "upgrade", "reset"} =>
       /\ counter[t] <= mCounter[svc[t]]
       /\ counter[t] = mCounter[svc[t]] => callback[svc[t]] \in {failed[t], NoClient}

CallSafe(t) ==
  "unlocked" \notin breach /\ pc[t] = "call" /\ ~IsBare(t) => callback[svc[t]] # NoClient

FailureNoted == \A t \in Threads : FailureNotedBy(t) /\ CallSafe(t)

IInv == TypeOK /\ LockMatchesPc /\ LockCounted /\ ClientsBorn /\ FailureNoted
=============================================================================
