-------------------------- MODULE RilServiceProofs --------------------------
(***************************************************************************)
(* Proofs about RilService for every number of vendor threads, services,   *)
(* client incarnations and upcalls: the inductive invariant IInv, and from *)
(* it the safety properties of the callback registry; and about            *)
(* RilDispatch, the requests, responses and indications that pass through  *)
(* those callbacks, for every set of lists and of measurements.            *)
(***************************************************************************)
EXTENDS RilService, RilDispatch, TLAPS, FiniteSetTheorems

(* The threads are finitely many, so the holders of the lock can be        *)
(* counted.                                                                *)
LEMMA HoldersCount ==
  /\ IsFiniteSet(Threads) /\ IsFiniteSet(Holders) /\ Cardinality(Holders) \in Nat
  /\ Binder \in Threads /\ Vendor \subseteq Threads
  /\ NoThread \notin Threads /\ Binder \notin Vendor
<1>1. IsFiniteSet(Threads)
  BY ServiceAssumption, FS_AddElement DEF Threads
<1>2. Holders \subseteq Threads
  BY DEF Holders
<1>3. IsFiniteSet(Holders)
  BY <1>1, <1>2, FS_Subset
<1> QED
  BY <1>1, <1>3, FS_CardinalityType, ServiceAssumption DEF Threads

(* What the operations of the lock leave behind.                           *)
LEMMA LockTypes ==
  ASSUME TypeOK, NEW t \in Threads,
         \/ pthread_rwlock_rdlock(t) \/ pthread_rwlock_wrlock(t)
         \/ pthread_rwlock_unlock(t) \/ UNCHANGED lockVars
  PROVE  writer' \in Threads \cup {NoThread} /\ readers' \in Nat
BY DEF TypeOK, pthread_rwlock_rdlock, pthread_rwlock_wrlock, pthread_rwlock_unlock, lockVars

(* Type correctness is inductive by itself, given that a registration is   *)
(* in the queue while the binder thread stores it.                         *)
LEMMA TypeStep ==
  ASSUME TypeOK, ClientsBorn, [Next]_vars
  PROVE  TypeOK'
<1> USE DEF TypeOK, Labels, Breaches
<1>b. Binder \in Threads /\ Vendor \subseteq Threads
  BY DEF Threads
<1>1. CASE ClientStart
  BY <1>1 DEF ClientStart, lockVars, clientVars, modeVars
<1>2. ASSUME NEW s \in Services, ClientRegister(s) PROVE TypeOK'
  <2>1. Registration(s, alive) \in Registrations
    BY DEF Registration, Registrations
  <2> QED
    BY <1>2, <2>1 DEF ClientRegister, lockVars, clientVars, modeVars
<1>3. CASE ClientDie
  BY <1>3 DEF ClientDie, lockVars, clientVars, NoClient, modeVars
<1>4. ASSUME NEW t \in Vendor, NEW s \in Services, NEW l \in {"rdlock", "wrlock"},
             StartUpcall(t, s, l)
      PROVE  TypeOK'
  <2>1. UNCHANGED <<callback, mCounter, writer, readers, counter, failed, alive, born, inbox,
                    todo, bare, breach>>
    BY <1>4 DEF StartUpcall, lockVars, clientVars, modeVars
  <2>2. pc' \in [Threads -> Labels] /\ svc' \in [Threads -> Services] /\ upcalls' \in Nat
    BY <1>4, <1>b DEF StartUpcall, Goto
  <2> QED
    BY <2>1, <2>2
<1>5. ASSUME NEW t \in Threads, ThreadStep(t) PROVE TypeOK'
  <2>1. CASE RdLock(t)
    BY <2>1, LockTypes DEF RdLock, Goto, clientVars, modeVars
  <2>2. CASE WrLock(t)
    BY <2>2, LockTypes DEF WrLock, Goto, clientVars, modeVars
  <2>3. CASE TestCallback(t)
    BY <2>3 DEF TestCallback, Goto, clientVars, lockVars, modeVars
  <2>4. CASE CallClient(t)
    <3>1. UNCHANGED <<callback, mCounter, writer, readers, svc, counter, alive, born, inbox,
                      todo, bare, upcalls>>
      BY <2>4 DEF CallClient, lockVars, clientVars
    <3>2. pc' \in [Threads -> Labels] /\ failed' \in [Threads -> Nat] /\ breach' \in SUBSET Breaches
      BY <2>4 DEF CallClient, Goto
    <3> QED
      BY <3>1, <3>2
  <2>5. CASE NoteCounter(t)
    BY <2>5 DEF NoteCounter, Goto, clientVars, lockVars, modeVars
  <2>6. CASE ReleaseLock(t)
    <3>1. breach' \in SUBSET Breaches /\ pc' \in [Threads -> Labels]
      BY <2>6 DEF ReleaseLock, Goto
    <3> QED
      BY <2>6, <3>1, LockTypes DEF ReleaseLock, clientVars
  <2>7. CASE UpgradeLock(t)
    BY <2>7, LockTypes DEF UpgradeLock, Goto, clientVars, modeVars
  <2>8. CASE ResetCallback(t)
    <3>1. callback' \in [Services -> Nat] /\ mCounter' \in [Services -> Nat]
      <4>1. CASE counter[t] = mCounter[svc[t]]
        <5>1. callback' = [callback EXCEPT ![svc[t]] = NoClient]
              /\ mCounter' = [mCounter EXCEPT ![svc[t]] = @ + 1]
          BY <2>8, <4>1 DEF ResetCallback
        <5> QED
          BY <5>1 DEF NoClient
      <4>2. CASE counter[t] # mCounter[svc[t]]
        BY <2>8, <4>2 DEF ResetCallback
      <4> QED
        BY <4>1, <4>2
    <3> QED
      BY <2>8, <3>1, LockTypes DEF ResetCallback, Goto, clientVars, modeVars
  <2>9. CASE RelockRead(t)
    BY <2>9, LockTypes DEF RelockRead, Goto, clientVars, modeVars
  <2>10. CASE Unlock(t)
    <3>1. todo' \in Seq({"rdlock", "resend"}) /\ pc' \in [Threads -> Labels]
      <4>1. CASE t = Binder /\ todo # <<>>
        <5>1. Head(todo) \in {"rdlock", "resend"} /\ Tail(todo) \in Seq({"rdlock", "resend"})
          BY <4>1
        <5> QED
          BY <2>10, <4>1, <5>1 DEF Unlock, Goto
      <4>2. CASE ~(t = Binder /\ todo # <<>>)
        BY <2>10, <4>2 DEF Unlock, Goto
      <4> QED
        BY <4>1, <4>2
    <3> QED
      BY <2>10, <3>1, LockTypes DEF Unlock, clientVars, modeVars
  <2> QED
    BY <1>5, <2>1, <2>2, <2>3, <2>4, <2>5, <2>6, <2>7, <2>8, <2>9, <2>10 DEF ThreadStep
<1>6. CASE TakeRegistration
  <2>1. Head(inbox) \in Registrations
    BY <1>6 DEF TakeRegistration
  <2>2. Head(inbox).service \in Services
    BY <2>1 DEF Registrations
  <2> QED
    BY <1>6, <1>b, <2>2, LockTypes DEF TakeRegistration, Goto, clientVars, modeVars
<1>7. CASE StoreCallbacks
  <2>1. inbox # <<>>
    BY <1>7 DEF StoreCallbacks, ClientsBorn
  <2>2. Head(inbox) \in Registrations /\ Tail(inbox) \in Seq(Registrations)
    BY <2>1
  <2>4. writer' \in Threads \cup {NoThread} /\ readers' \in Nat
    BY <1>7, <1>b, LockTypes DEF StoreCallbacks
  <2>5. callback' \in [Services -> Nat] /\ mCounter' \in [Services -> Nat]
    <3>1. PICK g \in Nat : g = Head(inbox).client
      BY <2>2 DEF Registrations
    <3>2. callback' = [callback EXCEPT ![svc[Binder]] = g]
          /\ mCounter' = [mCounter EXCEPT ![svc[Binder]] = @ + 1]
      BY <1>7, <3>1, Zenon DEF StoreCallbacks
    <3> QED
      BY <1>b, <3>2, SMTT(30)
  <2>6. pc' \in [Threads -> Labels] /\ todo' \in Seq({"rdlock", "resend"})
    <3>1. CASE svc[Binder] \in RadioServices
      <4>1. pc' = [pc EXCEPT ![Binder] = "rdlock"]
            /\ todo' \in {<<"rdlock">>, <<"rdlock", "resend">>}
        BY <1>7, <3>1 DEF StoreCallbacks, Goto
      <4>2. <<"rdlock">> \in Seq({"rdlock", "resend"})
            /\ <<"rdlock", "resend">> \in Seq({"rdlock", "resend"})
        OBVIOUS
      <4> QED
        BY <4>1, <4>2
    <3>2. CASE svc[Binder] \notin RadioServices
      BY <1>7, <3>2 DEF StoreCallbacks, Goto
    <3> QED
      BY <3>1, <3>2
  <2> QED
    BY <1>7, <2>2, <2>4, <2>5, <2>6 DEF StoreCallbacks, modeVars
<1>8. CASE resendLastNITZTimeData
  <2>1. pc' \in [Threads -> Labels] /\ breach' \in SUBSET Breaches
    BY <1>8, <1>b DEF resendLastNITZTimeData, Goto
  <2> QED
    BY <1>8, <1>b, <2>1, LockTypes DEF resendLastNITZTimeData, clientVars
<1>9. CASE ErrorSent
  BY <1>9, <1>b DEF ErrorSent, Goto, lockVars, clientVars
<1>10. ASSUME NEW s \in Services, sendErrorResponse(s) PROVE TypeOK'
  BY <1>10, <1>b DEF sendErrorResponse, Goto, lockVars, clientVars
<1>11. CASE UNCHANGED vars
  BY <1>11 DEF vars, lockVars, clientVars, modeVars
<1> QED
  BY <1>1, <1>2, <1>3, <1>4, <1>5, <1>6, <1>7, <1>8, <1>9, <1>10, <1>11 DEF Next, BinderStep

(* Where storing a registration leaves the binder thread, and what it      *)
(* writes, without the case distinction of the action.                     *)
LEMMA StoreShape ==
  ASSUME StoreCallbacks
  PROVE  /\ callback' = [callback EXCEPT ![svc[Binder]] = Head(inbox).client]
         /\ mCounter' = [mCounter EXCEPT ![svc[Binder]] = @ + 1]
         /\ \E l \in {"rdlock", "idle"} : pc' = [pc EXCEPT ![Binder] = l]
         /\ UNCHANGED <<svc, counter, failed, alive, born, bare, breach>>
<1>1. CASE svc[Binder] \in RadioServices
  BY <1>1, Zenon DEF StoreCallbacks, Goto, modeVars
<1>2. CASE svc[Binder] \notin RadioServices
  BY <1>2, Zenon DEF StoreCallbacks, Goto, modeVars
<1> QED
  BY <1>1, <1>2

(* A thread's position and the lock keep up with each other.               *)
LEMMA LockStep ==
  ASSUME TypeOK, LockMatchesPc, ClientsBorn, [Next]_vars
  PROVE  LockMatchesPc'
<1> USE DEF TypeOK, Labels, Outside, Inside, Writing
<1> DEFINE Bares == Inside \cup {"upgrade", "reset", "relock", "crashed"}
<1>b. Binder \in Threads /\ Vendor \subseteq Threads /\ NoThread \notin Threads
      /\ Binder \notin Vendor
  BY ServiceAssumption DEF Threads
<1>q. ASSUME UNCHANGED <<lockVars, pc, bare>> PROVE LockMatchesPc'
  BY <1>q DEF LockMatchesPc, lockVars
<1>1. CASE ClientStart
  BY <1>1, <1>q DEF ClientStart, modeVars
<1>2. ASSUME NEW s \in Services, ClientRegister(s) PROVE LockMatchesPc'
  BY <1>2, <1>q DEF ClientRegister, modeVars
<1>3. CASE ClientDie
  BY <1>3, <1>q DEF ClientDie, modeVars
<1>4. ASSUME NEW t \in Vendor, NEW s \in Services, NEW l \in {"rdlock", "wrlock"},
             StartUpcall(t, s, l)
      PROVE  LockMatchesPc'
  BY <1>4, <1>b DEF StartUpcall, Goto, lockVars, LockMatchesPc, modeVars
<1>r. ASSUME NEW t \in Threads, pthread_rwlock_rdlock(t), NEW l \in Inside \cup {"idle"},
             pc[t] \in Outside, Goto(t, l), bare' = bare, l = "idle" => ~bare
      PROVE  LockMatchesPc'
  BY <1>r, <1>b DEF pthread_rwlock_rdlock, Goto, LockMatchesPc
<1>w. ASSUME NEW t \in Threads, pthread_rwlock_wrlock(t), NEW l \in {"test", "reset", "set"},
             pc[t] \in Outside, Goto(t, l), bare' = bare,
             t = Binder /\ bare => l = "reset"
      PROVE  LockMatchesPc'
  BY <1>w, <1>b DEF pthread_rwlock_wrlock, Goto, LockMatchesPc
<1>u. ASSUME NEW t \in Threads, pthread_rwlock_unlock(t), NEW l \in Outside,
             pc[t] \in Inside \cup Writing, Goto(t, l), bare' = bare,
             t = Binder /\ bare => l \in {"upgrade", "relock"}
      PROVE  LockMatchesPc'
  <2>1. writer' = IF writer = t THEN NoThread ELSE writer
    BY <1>u DEF pthread_rwlock_unlock
  <2>2. writer' # NoThread => readers' = 0
    BY <1>u DEF pthread_rwlock_unlock, LockMatchesPc
  <2>3. ASSUME NEW v \in Threads
        PROVE  (pc'[v] \in Outside => writer' # v) /\ (pc'[v] \in Writing => writer' = v)
    BY <1>u, <2>1, <1>b DEF Goto, LockMatchesPc
  <2>4. bare' => pc'[Binder] \in Bares
    BY <1>u, <1>b DEF Goto, LockMatchesPc
  <2>5. bare' /\ pc'[Binder] \in Inside => writer' # Binder
    BY <1>u, <2>1, <1>b DEF Goto, LockMatchesPc
  <2> QED
    BY <2>2, <2>3, <2>4, <2>5 DEF LockMatchesPc
<1>i. ASSUME NEW t \in Threads, UNCHANGED lockVars, NEW l \in Inside, pc[t] \in Inside,
             Goto(t, l), bare' = bare
      PROVE  LockMatchesPc'
  BY <1>i, <1>b DEF Goto, LockMatchesPc, lockVars
<1>5. ASSUME NEW t \in Threads, ThreadStep(t) PROVE LockMatchesPc'
  <2>1. CASE RdLock(t)
    BY <2>1, <1>r DEF RdLock, modeVars
  <2>2. CASE WrLock(t)
    <3>1. ~(t = Binder /\ bare)
      BY <2>2 DEF WrLock, LockMatchesPc
    <3> QED
      BY <2>2, <1>w, <3>1 DEF WrLock, modeVars
  <2>3. CASE TestCallback(t)
    BY <2>3, <1>i DEF TestCallback, modeVars
  <2>4. CASE CallClient(t)
    <3>1. CASE callback[svc[t]] = NoClient
      <4>1. pc' = [u \in Threads |-> "crashed"] /\ UNCHANGED <<lockVars, bare>>
        BY <2>4, <3>1 DEF CallClient
      <4> QED
        BY <4>1, <1>b DEF LockMatchesPc, lockVars
    <3>2. CASE callback[svc[t]] # NoClient
      BY <2>4, <3>2, <1>i DEF CallClient
    <3> QED
      BY <3>1, <3>2
  <2>5. CASE NoteCounter(t)
    BY <2>5, <1>i DEF NoteCounter, modeVars
  <2>6. CASE ReleaseLock(t)
    BY <2>6, <1>u DEF ReleaseLock
  <2>7. CASE UpgradeLock(t)
    BY <2>7, <1>w DEF UpgradeLock, modeVars
  <2>8. CASE ResetCallback(t)
    BY <2>8, <1>u DEF ResetCallback, modeVars
  <2>9. CASE RelockRead(t)
    BY <2>9, <1>r DEF RelockRead, modeVars
  <2>10. CASE Unlock(t)
    <3>1. PICK l \in {"idle", "rdlock", "resend"} : Goto(t, l)
      <4>1. CASE t = Binder /\ todo # <<>>
        <5>1. Head(todo) \in {"rdlock", "resend"}
          BY <4>1
        <5> QED
          BY <2>10, <4>1, <5>1 DEF Unlock
      <4>2. CASE ~(t = Binder /\ todo # <<>>)
        BY <2>10, <4>2 DEF Unlock
      <4> QED
        BY <4>1, <4>2
    <3> QED
      BY <2>10, <3>1, <1>u DEF Unlock, IsBare, modeVars
  <2> QED
    BY <1>5, <2>1, <2>2, <2>3, <2>4, <2>5, <2>6, <2>7, <2>8, <2>9, <2>10 DEF ThreadStep
<1>6. CASE TakeRegistration
  <2>1. ~bare
    BY <1>6, <1>b DEF TakeRegistration, LockMatchesPc
  <2> QED
    BY <1>6, <2>1, <1>b, <1>w DEF TakeRegistration, modeVars
<1>7. CASE StoreCallbacks
  <2>1. ~bare /\ pc[Binder] \in Writing
    BY <1>7, <1>b DEF StoreCallbacks, LockMatchesPc
  <2>2. PICK l \in {"rdlock", "idle"} : pc' = [pc EXCEPT ![Binder] = l]
    BY <1>7, StoreShape
  <2>3. pthread_rwlock_unlock(Binder) /\ bare' = bare
    BY <1>7, StoreShape DEF StoreCallbacks
  <2> QED
    BY <2>1, <2>2, <2>3, <1>b, <1>u DEF Goto
<1>8. CASE resendLastNITZTimeData
  <2>1. ~bare
    BY <1>8, <1>b DEF resendLastNITZTimeData, LockMatchesPc
  <2> QED
    BY <1>8, <2>1, <1>b, <1>r DEF resendLastNITZTimeData
<1>9. CASE ErrorSent
  BY <1>9, <1>b DEF ErrorSent, Goto, lockVars, LockMatchesPc
<1>10. ASSUME NEW s \in Services, sendErrorResponse(s) PROVE LockMatchesPc'
  BY <1>10, <1>b DEF sendErrorResponse, Goto, lockVars, LockMatchesPc
<1>11. CASE UNCHANGED vars
  BY <1>11, <1>q DEF vars, modeVars
<1> QED
  BY <1>1, <1>2, <1>3, <1>4, <1>5, <1>6, <1>7, <1>8, <1>9, <1>10, <1>11 DEF Next, BinderStep
(* Incarnations only grow, and a registration carries a started one.       *)
LEMMA BornStep ==
  ASSUME TypeOK, ClientsBorn, [Next]_vars
  PROVE  ClientsBorn'
<1> USE DEF TypeOK, Labels, NoClient
<1>b. Binder \in Threads /\ Vendor \subseteq Threads /\ Binder \notin Vendor
  BY ServiceAssumption DEF Threads
<1>1. CASE ClientStart
  <2>1. \A i \in 1..Len(inbox) : inbox[i].client \in 1..(born + 1)
    BY DEF ClientsBorn
  <2> QED
    BY <1>1, <2>1 DEF ClientStart, ClientsBorn
<1>2. ASSUME NEW s \in Services, ClientRegister(s) PROVE ClientsBorn'
  <2> DEFINE r == Registration(s, alive)
  <2>1. r \in Registrations /\ r.client = alive /\ alive \in 1..born
    BY <1>2, SMTT(30) DEF ClientRegister, ClientsBorn, Registration, Registrations
  <2>2. inbox' = Append(inbox, r) /\ UNCHANGED <<callback, pc, alive, born>>
    BY <1>2 DEF ClientRegister
  <2> HIDE DEF r
  <2>3. \A i \in 1..Len(inbox') : inbox'[i] = IF i = Len(inbox) + 1 THEN r ELSE inbox[i]
    BY <2>1, <2>2
  <2>4. Len(inbox') = Len(inbox) + 1 /\ inbox' # <<>>
    BY <2>1, <2>2
  <2>5. ASSUME NEW i \in 1..Len(inbox') PROVE inbox'[i].client \in 1..born
    <3>1. CASE i = Len(inbox) + 1
      <4>1. inbox'[i] = r
        BY <3>1, <2>3
      <4> QED
        BY <4>1, <2>1
    <3>2. CASE i # Len(inbox) + 1
      <4>1. inbox'[i] = inbox[i]
        BY <3>2, <2>3
      <4>2. i \in 1..Len(inbox)
        BY <3>2, <2>4
      <4>3. inbox[i].client \in 1..born
        BY <4>2 DEF ClientsBorn
      <4> QED
        BY <4>1, <4>3
    <3> QED
      BY <3>1, <3>2
  <2> QED
    BY <2>2, <2>4, <2>5 DEF ClientsBorn
<1>3. CASE ClientDie
  BY <1>3 DEF ClientDie, ClientsBorn
<1>4. ASSUME NEW t \in Vendor, NEW s \in Services, NEW l \in {"rdlock", "wrlock"},
             StartUpcall(t, s, l)
      PROVE  ClientsBorn'
  BY <1>4, <1>b DEF StartUpcall, Goto, clientVars, ClientsBorn
<1>m. ASSUME NEW t \in Threads, NEW l \in Labels \ {"set"}, Goto(t, l),
             UNCHANGED <<callback, clientVars>>
      PROVE  ClientsBorn'
  BY <1>m, <1>b DEF Goto, clientVars, ClientsBorn
<1>5. ASSUME NEW t \in Threads, ThreadStep(t) PROVE ClientsBorn'
  <2>2. CASE RdLock(t)
    BY <2>2, <1>m DEF RdLock
  <2>3. CASE WrLock(t)
    BY <2>3, <1>m DEF WrLock
  <2>4. CASE TestCallback(t)
    BY <2>4, <1>m DEF TestCallback
  <2>5. CASE CallClient(t)
    <3>1. CASE callback[svc[t]] = NoClient
      <4>1. pc' = [u \in Threads |-> "crashed"] /\ UNCHANGED <<callback, clientVars>>
        BY <2>5, <3>1 DEF CallClient
      <4> QED
        BY <4>1, <1>b DEF clientVars, ClientsBorn
    <3>2. CASE callback[svc[t]] # NoClient
      BY <2>5, <3>2, <1>m DEF CallClient
    <3> QED
      BY <3>1, <3>2
  <2>6. CASE NoteCounter(t)
    BY <2>6, <1>m DEF NoteCounter
  <2>7. CASE ReleaseLock(t)
    BY <2>7, <1>m DEF ReleaseLock
  <2>8. CASE UpgradeLock(t)
    BY <2>8, <1>m DEF UpgradeLock
  <2>9. CASE ResetCallback(t)
    <3>1. callback' = callback \/ callback' = [callback EXCEPT ![svc[t]] = 0]
      BY <2>9 DEF ResetCallback
    <3>2. pc' = [pc EXCEPT ![t] = "relock"] /\ UNCHANGED clientVars
      BY <2>9 DEF ResetCallback, Goto
    <3>3. ASSUME NEW s \in Services PROVE callback'[s] <= born
      <4>1. callback'[s] = callback[s] \/ callback'[s] = 0
        BY <3>1
      <4> QED
        BY <4>1 DEF ClientsBorn
    <3> QED
      BY <3>2, <3>3, <1>b DEF clientVars, ClientsBorn
  <2>10. CASE RelockRead(t)
    BY <2>10, <1>m DEF RelockRead
  <2>11. CASE Unlock(t)
    <3>1. CASE t = Binder /\ todo # <<>>
      <4>1. Head(todo) \in {"rdlock", "resend"}
        BY <3>1
      <4> QED
        BY <2>11, <3>1, <4>1, <1>m DEF Unlock
    <3>2. CASE ~(t = Binder /\ todo # <<>>)
      BY <2>11, <3>2, <1>m DEF Unlock
    <3> QED
      BY <3>1, <3>2
  <2> QED
    BY <1>5, <2>2, <2>3, <2>4, <2>5, <2>6, <2>7, <2>8, <2>9, <2>10, <2>11 DEF ThreadStep
<1>6. CASE TakeRegistration
  BY <1>6, <1>b DEF TakeRegistration, Goto, clientVars, ClientsBorn
<1>7. CASE StoreCallbacks
  <2>1. inbox # <<>> /\ inbox' = Tail(inbox)
    BY <1>7 DEF StoreCallbacks, ClientsBorn
  <2>2. Len(inbox) \in Nat \ {0} /\ Head(inbox) = inbox[1]
    BY <2>1
  <2>3. PICK g \in 1..born : g = Head(inbox).client
    <3>1. 1 \in 1..Len(inbox)
      BY <2>2
    <3>2. inbox[1].client \in 1..born
      BY <3>1 DEF ClientsBorn
    <3> QED
      BY <3>2, <2>2
  <2>4. /\ Len(inbox') = Len(inbox) - 1
        /\ \A i \in 1..Len(inbox') : inbox'[i] = inbox[i + 1]
    BY <2>1, <2>2
  <2>5. ASSUME NEW i \in 1..Len(inbox') PROVE inbox'[i].client \in 1..born
    <3>1. inbox'[i] = inbox[i + 1] /\ i + 1 \in 1..Len(inbox)
      BY <2>2, <2>4
    <3>2. inbox[i + 1].client \in 1..born
      BY <3>1 DEF ClientsBorn
    <3> QED
      BY <3>1, <3>2
  <2>6. callback' = [callback EXCEPT ![svc[Binder]] = g] /\ UNCHANGED <<alive, born>>
    BY <1>7, <2>3, StoreShape
  <2>7. \A s \in Services : callback'[s] <= born
    BY <2>6, <1>b DEF ClientsBorn
  <2>8. PICK l \in {"rdlock", "idle"} : pc' = [pc EXCEPT ![Binder] = l]
    BY <1>7, StoreShape
  <2> QED
    BY <2>5, <2>6, <2>7, <2>8, <1>b DEF ClientsBorn
<1>8. CASE resendLastNITZTimeData
  BY <1>8, <1>b, <1>m DEF resendLastNITZTimeData
<1>9. CASE ErrorSent
  BY <1>9, <1>b, <1>m DEF ErrorSent
<1>10. ASSUME NEW s \in Services, sendErrorResponse(s) PROVE ClientsBorn'
  BY <1>10, <1>b, <1>m DEF sendErrorResponse
<1>11. CASE UNCHANGED vars
  BY <1>11 DEF vars, clientVars, ClientsBorn
<1> QED
  BY <1>1, <1>2, <1>3, <1>4, <1>5, <1>6, <1>7, <1>8, <1>9, <1>10, <1>11 DEF Next, BinderStep

-----------------------------------------------------------------------------
(* The number of read locks follows the number of threads in a critical    *)
(* section: three ways in which a step can treat both.                     *)

(* Neither changes.                                                        *)
LEMMA CountSame ==
  ASSUME LockCounted, Holders' = Holders, readers' = readers, Borrowed' <=> Borrowed,
         breach' = breach
  PROVE  LockCounted'
BY DEF LockCounted

(* A thread enters a critical section with a read lock.                    *)
LEMMA CountTake ==
  ASSUME TypeOK, LockCounted, NEW t \in Threads, t \notin Holders,
         Holders' = Holders \cup {t}, readers' = readers + 1, Borrowed' <=> Borrowed,
         breach' = breach
  PROVE  LockCounted'
<1>1. Cardinality(Holders') = Cardinality(Holders) + 1
  BY HoldersCount, FS_AddElement
<1> QED
  BY <1>1, HoldersCount DEF LockCounted, TypeOK

(* A thread leaves its critical section and unlocks.                       *)
LEMMA CountGive ==
  ASSUME TypeOK, LockMatchesPc, LockCounted, NEW t \in Holders,
         Holders' = Holders \ {t}, pthread_rwlock_unlock(t), Borrowed' <=> Borrowed,
         breach' = breach
  PROVE  LockCounted'
<1>1. Cardinality(Holders') = Cardinality(Holders) - 1
  BY HoldersCount, FS_RemoveElement
<1>2. Cardinality(Holders) # 0
  BY HoldersCount, FS_EmptySet
<1>3. readers' = IF writer = NoThread /\ readers > 0 THEN readers - 1 ELSE readers
  BY DEF pthread_rwlock_unlock
<1>4. readers \in Nat /\ (writer # NoThread => readers = 0)
  BY DEF TypeOK, LockMatchesPc
<1> QED
  BY <1>1, <1>2, <1>3, <1>4, HoldersCount DEF LockCounted

(* The count of read locks is right after every step.                      *)
LEMMA CountStep ==
  ASSUME TypeOK, LockMatchesPc, LockCounted, ClientsBorn, [Next]_vars
  PROVE  LockCounted'
<1> USE DEF Outside, Inside, Writing
<1>b. /\ Binder \in Threads /\ Vendor \subseteq Threads
      /\ NoThread \notin Threads /\ Binder \notin Vendor
      /\ pc \in [Threads -> Labels] /\ readers \in Nat
      /\ writer \in Threads \cup {NoThread}
  BY HoldersCount DEF TypeOK
<1>q. ASSUME UNCHANGED <<lockVars, pc, bare, breach>> PROVE LockCounted'
  <2>1. Holders' = Holders /\ Borrowed' = Borrowed
    BY <1>q DEF Holders, Borrowed, IsBare, lockVars
  <2> QED
    BY <1>q, <2>1, CountSame DEF lockVars
<1>o. ASSUME NEW t \in Threads, NEW l \in Outside \cup {"reset", "set"}, Goto(t, l),
             pc[t] \in Outside \cup Writing,
             writer' = writer \/ (writer \in {NoThread, t} /\ writer' \in {NoThread, t}),
             UNCHANGED <<readers, bare, breach>>,
             t = Binder /\ bare => pc[t] \in {"upgrade", "reset"} /\ l \in {"reset", "relock"}
      PROVE  LockCounted'
  <2>1. Holders' = Holders
    BY <1>o, <1>b DEF Holders, IsBare, Goto
  <2>2. Borrowed' = Borrowed
    BY <1>o, <1>b DEF Borrowed, Goto
  <2> QED
    BY <1>o, <2>1, <2>2, CountSame
<1>1. CASE ClientStart
  BY <1>1, <1>q DEF ClientStart, modeVars
<1>2. ASSUME NEW s \in Services, ClientRegister(s) PROVE LockCounted'
  BY <1>2, <1>q DEF ClientRegister, modeVars
<1>3. CASE ClientDie
  BY <1>3, <1>q DEF ClientDie, modeVars
<1>4. ASSUME NEW t \in Vendor, NEW s \in Services, NEW l \in {"rdlock", "wrlock"},
             StartUpcall(t, s, l)
      PROVE  LockCounted'
  BY <1>4, <1>b, <1>o DEF StartUpcall, lockVars, modeVars
<1>5. ASSUME NEW t \in Threads, ThreadStep(t) PROVE LockCounted'
  <2>i. ASSUME NEW l \in Inside, pc[t] \in Inside, Goto(t, l), UNCHANGED <<lockVars, bare, breach>>
        PROVE  LockCounted'
    <3>1. Holders' = Holders
      BY <2>i, <1>b DEF Holders, IsBare, Goto, lockVars
    <3>2. Borrowed' = Borrowed
      BY <2>i, <1>b DEF Borrowed, Goto
    <3> QED
      BY <2>i, <3>1, <3>2, CountSame DEF lockVars
  <2>g. ASSUME NEW l \in Outside, pc[t] \in Inside, Goto(t, l), ~IsBare(t), bare' = bare,
               breach' = breach, pthread_rwlock_unlock(t)
        PROVE  LockCounted'
    <3>1. Borrowed' = Borrowed
      BY <2>g, <1>b DEF Borrowed, Goto, IsBare
    <3>2. CASE writer = t
      <4>1. Holders' = Holders
        BY <2>g, <3>2, <1>b DEF Holders, IsBare, Goto, pthread_rwlock_unlock
      <4>2. readers' = readers
        BY <2>g, <3>2, <1>b DEF pthread_rwlock_unlock
      <4> QED
        BY <2>g, <3>1, <4>1, <4>2, CountSame
    <3>3. CASE writer # t
      <4>1. t \in Holders
        BY <2>g, <3>3 DEF Holders
      <4>2. writer' = writer
        BY <2>g, <3>3 DEF pthread_rwlock_unlock
      <4>3. Holders' = Holders \ {t}
        BY <2>g, <4>2, <1>b DEF Holders, IsBare, Goto
      <4> QED
        BY <2>g, <3>1, <4>1, <4>3, CountGive
    <3> QED
      BY <3>2, <3>3
  <2>t. ASSUME NEW l \in Inside, pc[t] \in Outside, Goto(t, l), ~IsBare(t), bare' = bare,
               breach' = breach, pthread_rwlock_rdlock(t)
        PROVE  LockCounted'
    <3>1. Borrowed' = Borrowed
      BY <2>t, <1>b DEF Borrowed, Goto, IsBare
    <3>2. t \notin Holders
      BY <2>t DEF Holders
    <3>3. writer' = writer /\ writer = NoThread /\ readers' = readers + 1
      BY <2>t DEF pthread_rwlock_rdlock
    <3>4. Holders' = Holders \cup {t}
      BY <2>t, <3>3, <1>b DEF Holders, IsBare, Goto
    <3> QED
      BY <2>t, <3>1, <3>2, <3>3, <3>4, CountTake
  <2>1. CASE RdLock(t)
    <3>1. ~IsBare(t)
      BY <2>1 DEF RdLock, LockMatchesPc, IsBare
    <3> QED
      BY <2>1, <2>t, <3>1 DEF RdLock, modeVars
  <2>2. CASE WrLock(t)
    <3>1. ~IsBare(t)
      BY <2>2 DEF WrLock, LockMatchesPc, IsBare
    <3>2. Borrowed' = Borrowed
      BY <2>2, <3>1, <1>b DEF WrLock, Borrowed, Goto, IsBare, modeVars
    <3>3. writer = NoThread /\ writer' = t /\ readers' = readers /\ bare' = bare /\ breach' = breach
      BY <2>2 DEF WrLock, pthread_rwlock_wrlock, modeVars
    <3>4. Holders' = Holders
      BY <2>2, <3>3, <1>b DEF WrLock, Holders, IsBare, Goto
    <3> QED
      BY <3>2, <3>3, <3>4, CountSame
  <2>3. CASE TestCallback(t)
    BY <2>3, <2>i DEF TestCallback, modeVars
  <2>4. CASE CallClient(t)
    <3>1. CASE callback[svc[t]] = NoClient
      <4>1. /\ pc' = [u \in Threads |-> "crashed"] /\ readers' = readers
            /\ breach' = breach \cup {"null"}
        BY <2>4, <3>1 DEF CallClient, lockVars
      <4>2. Holders' = {} /\ ~Borrowed'
        BY <4>1, <1>b DEF Holders, Borrowed
      <4>3. Cardinality(Holders') = 0
        BY <4>2, FS_EmptySet
      <4>4. breach' # {}
        BY <4>1
      <4> QED
        BY <4>1, <4>2, <4>3, <4>4, <1>b DEF LockCounted
    <3>2. CASE callback[svc[t]] # NoClient
      BY <2>4, <3>2, <2>i DEF CallClient
    <3> QED
      BY <3>1, <3>2
  <2>5. CASE NoteCounter(t)
    BY <2>5, <2>i DEF NoteCounter, modeVars
  <2>6. CASE ReleaseLock(t)
    <3>1. CASE IsBare(t)
      <4>1. /\ t = Binder /\ bare /\ bare' = bare
            /\ pc' = [pc EXCEPT ![Binder] = "upgrade"]
            /\ breach' = breach \cup {"unlocked"}
            /\ pc[Binder] = "release"
        BY <2>6, <3>1 DEF ReleaseLock, IsBare, Goto
      <4>2. writer # Binder
        BY <4>1 DEF LockMatchesPc
      <4>3. /\ writer' = writer
            /\ readers' = IF writer = NoThread /\ readers > 0 THEN readers - 1 ELSE readers
        BY <2>6, <4>1, <4>2 DEF ReleaseLock, pthread_rwlock_unlock
      <4>4. Holders' = Holders
        BY <4>1, <4>3, <1>b DEF Holders, IsBare
      <4>5. Borrowed' /\ ~Borrowed
        BY <4>1, <1>b DEF Borrowed
      <4>6. breach' # {} /\ "unlocked" \in breach'
        BY <4>1
      <4>7. Cardinality(Holders) <= readers' + 1
        BY <4>3, <4>5, <1>b, HoldersCount DEF LockCounted
      <4> QED
        BY <4>4, <4>5, <4>6, <4>7 DEF LockCounted
    <3>2. CASE ~IsBare(t)
      BY <2>6, <3>2, <2>g DEF ReleaseLock
    <3> QED
      BY <3>1, <3>2
  <2>7. CASE UpgradeLock(t)
    BY <2>7, <1>o DEF UpgradeLock, pthread_rwlock_wrlock, modeVars
  <2>8. CASE ResetCallback(t)
    <3>1. writer = t
      BY <2>8 DEF ResetCallback, LockMatchesPc
    <3>2. writer' = NoThread /\ readers' = readers
      BY <2>8, <3>1, <1>b DEF ResetCallback, pthread_rwlock_unlock
    <3> QED
      BY <2>8, <3>1, <3>2, <1>o DEF ResetCallback, modeVars
  <2>9. CASE RelockRead(t)
    <3>1. CASE IsBare(t)
      <4>1. /\ t = Binder /\ bare /\ bare' = bare /\ breach' = breach
            /\ pc' = [pc EXCEPT ![Binder] = "unlock"]
            /\ pc[Binder] = "relock"
            /\ writer' = writer /\ readers' = readers + 1
        BY <2>9, <3>1 DEF RelockRead, IsBare, Goto, modeVars, pthread_rwlock_rdlock
      <4>2. Holders' = Holders
        BY <4>1, <1>b DEF Holders, IsBare
      <4>3. Borrowed /\ ~Borrowed'
        BY <4>1, <1>b DEF Borrowed
      <4>4. breach' # {}
        BY <4>1, <4>3 DEF LockCounted
      <4> QED
        BY <4>1, <4>2, <4>3, <4>4, <1>b, HoldersCount DEF LockCounted
    <3>2. CASE ~IsBare(t)
      BY <2>9, <3>2, <2>t DEF RelockRead, modeVars
    <3> QED
      BY <3>1, <3>2
  <2>10. CASE Unlock(t)
    <3>1. PICK l \in {"idle", "rdlock", "resend"} : Goto(t, l)
      <4>1. CASE t = Binder /\ todo # <<>>
        <5>1. Head(todo) \in {"rdlock", "resend"}
          BY <4>1 DEF TypeOK
        <5> QED
          BY <2>10, <4>1, <5>1 DEF Unlock
      <4>2. CASE ~(t = Binder /\ todo # <<>>)
        BY <2>10, <4>2 DEF Unlock
      <4> QED
        BY <4>1, <4>2
    <3> QED
      BY <2>10, <3>1, <2>g DEF Unlock, modeVars
  <2> QED
    BY <1>5, <2>1, <2>2, <2>3, <2>4, <2>5, <2>6, <2>7, <2>8, <2>9, <2>10 DEF ThreadStep
<1>6. CASE TakeRegistration
  <2>1. ~bare
    BY <1>6, <1>b DEF TakeRegistration, LockMatchesPc
  <2> QED
    BY <1>6, <2>1, <1>b, <1>o DEF TakeRegistration, pthread_rwlock_wrlock, modeVars
<1>7. CASE StoreCallbacks
  <2>1. ~bare /\ pc[Binder] \in Writing /\ writer = Binder
    BY <1>7, <1>b DEF StoreCallbacks, LockMatchesPc
  <2>2. PICK l \in {"rdlock", "idle"} : pc' = [pc EXCEPT ![Binder] = l]
    BY <1>7, StoreShape
  <2>3. writer' = NoThread /\ readers' = readers
    BY <1>7, <2>1, <1>b DEF StoreCallbacks, pthread_rwlock_unlock
  <2>4. UNCHANGED <<bare, breach>>
    BY <1>7, StoreShape
  <2> QED
    BY <2>1, <2>2, <2>3, <2>4, <1>b, <1>o DEF Goto
<1>8. CASE resendLastNITZTimeData
  <2>1. ~bare /\ bare' = bare /\ pc[Binder] = "resend"
    BY <1>8, <1>b DEF resendLastNITZTimeData, LockMatchesPc
  <2>2. writer' = writer /\ writer = NoThread /\ readers' = readers + 1
    BY <1>8 DEF resendLastNITZTimeData, pthread_rwlock_rdlock
  <2>3. ~Borrowed /\ ~Borrowed'
    BY <2>1 DEF Borrowed
  <2>4. CASE pc' = [pc EXCEPT ![Binder] = "test"] /\ breach' = breach
    <3>1. Binder \notin Holders
      BY <2>1 DEF Holders
    <3>2. Holders' = Holders \cup {Binder}
      BY <2>1, <2>2, <2>4, <1>b DEF Holders, IsBare
    <3> QED
      BY <2>2, <2>3, <2>4, <3>1, <3>2, <1>b, CountTake
  <2>5. CASE pc' = [pc EXCEPT ![Binder] = "idle"] /\ breach' = breach \cup {"resend"}
    <3>1. Holders' = Holders
      BY <2>1, <2>2, <2>5, <1>b DEF Holders, IsBare
    <3>2. breach' # {}
      BY <2>5
    <3> QED
      BY <2>2, <2>3, <3>1, <3>2, <1>b, HoldersCount DEF LockCounted
  <2> QED
    BY <1>8, <2>4, <2>5 DEF resendLastNITZTimeData, Goto
<1>9. CASE ErrorSent
  <2>1. Holders' = Holders
    BY <1>9, <1>b DEF ErrorSent, Holders, IsBare, Goto, lockVars
  <2>2. ~Borrowed /\ ~Borrowed'
    BY <1>9, <1>b DEF ErrorSent, Borrowed
  <2> QED
    BY <1>9, <2>1, <2>2, CountSame DEF ErrorSent, lockVars
<1>10. ASSUME NEW s \in Services, sendErrorResponse(s) PROVE LockCounted'
  <2>1. Holders' = Holders
    BY <1>10, <1>b DEF sendErrorResponse, Holders, IsBare, Goto, lockVars
  <2>2. ~Borrowed /\ ~Borrowed'
    BY <1>10, <1>b DEF sendErrorResponse, Borrowed, Goto
  <2> QED
    BY <1>10, <2>1, <2>2, CountSame DEF sendErrorResponse, lockVars
<1>11. CASE UNCHANGED vars
  BY <1>11, <1>q DEF vars, modeVars
<1> QED
  BY <1>1, <1>2, <1>3, <1>4, <1>5, <1>6, <1>7, <1>8, <1>9, <1>10, <1>11 DEF Next, BinderStep
(* While somebody holds the write lock no thread is in a critical section  *)
(* of the read lock, unless one was robbed of it.                          *)
LEMMA NoHolders ==
  ASSUME TypeOK, LockMatchesPc, LockCounted, ~Borrowed, writer # NoThread
  PROVE  Holders = {}
<1>1. readers = 0 /\ Cardinality(Holders) <= readers
  BY DEF LockMatchesPc, LockCounted
<1>2. Cardinality(Holders) = 0
  BY <1>1, HoldersCount
<1> QED
  BY <1>2, HoldersCount, FS_EmptySet

(* The registry is written by the holder of the write lock only, and only  *)
(* the binder thread writes anything but NULL.  Then no other thread is    *)
(* between its NULL test and the end of its upcall, and the counter that a *)
(* thread in checkReturnStatus noted is out of date.                       *)
LEMMA RegistryWrite ==
  ASSUME TypeOK, LockMatchesPc, LockCounted, FailureNoted,
         NEW w \in Threads, writer = w,
         NEW s \in Services, NEW g \in Nat, NEW l \in {"relock", "rdlock", "idle"},
         g = NoClient \/ (w = Binder /\ ~Borrowed),
         callback' = [callback EXCEPT ![s] = g],
         mCounter' = [mCounter EXCEPT ![s] = @ + 1],
         pc' = [pc EXCEPT ![w] = l],
         UNCHANGED <<svc, counter, failed, alive, born, bare, breach>>
  PROVE  FailureNoted'
<1> USE DEF TypeOK, Labels, Outside, Inside, Writing, Failing
<1>1. SUFFICES ASSUME NEW t \in Threads PROVE FailureNotedBy(t)' /\ CallSafe(t)'
  BY DEF FailureNoted
<1>2. FailureNotedBy(t) /\ CallSafe(t)
  BY DEF FailureNoted
<1>3. CASE t = w
  BY <1>3 DEF FailureNotedBy, CallSafe
<1>4. CASE t # w
  <2>1. w # NoThread
    BY ServiceAssumption
  <2>2. ~Borrowed => pc[t] \notin Inside \/ IsBare(t)
    <3>1. ~Borrowed => Holders = {}
      BY <2>1, NoHolders
    <3> QED
      BY <3>1, <1>4 DEF Holders
  <2>3. pc'[t] = pc[t]
    BY <1>4
  <2>4. /\ svc[t] # s => callback'[svc[t]] = callback[svc[t]] /\ mCounter'[svc[t]] = mCounter[svc[t]]
        /\ svc[t] = s => callback'[svc[t]] = g /\ mCounter'[svc[t]] = mCounter[svc[t]] + 1
    OBVIOUS
  <2>5. counter[t] \in Nat /\ mCounter[svc[t]] \in Nat
    OBVIOUS
  <2>6. pc'[t] \in Failing => failed'[t] \in 1..born' /\ failed'[t] # alive'
    BY <1>2, <2>3 DEF FailureNotedBy
  <2>7. pc'[t] = "note" => callback'[svc'[t]] \in {failed'[t], NoClient}
    <3>1. SUFFICES ASSUME pc[t] = "note" PROVE callback'[svc[t]] \in {failed[t], NoClient}
      BY <2>3
    <3>2. g = NoClient
      BY <3>1, <2>2, <1>4 DEF IsBare
    <3> QED
      BY <3>1, <3>2, <2>4, <1>2 DEF FailureNotedBy
  <2>8. pc'[t] \in {"release", "upgrade", "reset"} =>
          /\ counter'[t] <= mCounter'[svc'[t]]
          /\ counter'[t] = mCounter'[svc'[t]] => callback'[svc'[t]] \in {failed'[t], NoClient}
    <3>1. SUFFICES ASSUME pc[t] \in {"release", "upgrade", "reset"}
                   PROVE  /\ counter[t] <= mCounter'[svc[t]]
                          /\ counter[t] = mCounter'[svc[t]] =>
                               callback'[svc[t]] \in {failed[t], NoClient}
      BY <2>3
    <3>2. /\ counter[t] <= mCounter[svc[t]]
          /\ counter[t] = mCounter[svc[t]] => callback[svc[t]] \in {failed[t], NoClient}
      BY <3>1, <1>2 DEF FailureNotedBy
    <3> QED
      BY <3>2, <2>4, <2>5
  <2>9. CallSafe(t)'
    <3>1. SUFFICES ASSUME "unlocked" \notin breach, pc[t] = "call", ~IsBare(t) PROVE FALSE
      BY <2>3 DEF CallSafe, IsBare
    <3> QED
      BY <3>1, <2>2 DEF LockCounted
  <2> QED
    BY <2>6, <2>7, <2>8, <2>9 DEF FailureNotedBy
<1> QED
  BY <1>3, <1>4

(* A step that leaves the registry and the clients alone concerns only the *)
(* thread that takes it.                                                   *)
LEMMA ThreadLocal ==
  ASSUME TypeOK, FailureNoted, NEW t \in Threads,
         UNCHANGED <<callback, mCounter, alive, born>>,
         breach \subseteq breach', t = Binder \/ bare' = bare,
         \A u \in Threads \ {t} :
           /\ pc'[u] = pc[u] /\ svc'[u] = svc[u]
           /\ counter'[u] = counter[u] /\ failed'[u] = failed[u],
         FailureNotedBy(t)' /\ CallSafe(t)'
  PROVE  FailureNoted'
<1>1. SUFFICES ASSUME NEW u \in Threads PROVE FailureNotedBy(u)' /\ CallSafe(u)'
  BY DEF FailureNoted
<1>2. CASE u = t
  BY <1>2
<1>3. CASE u # t
  <2>1. FailureNotedBy(u) /\ CallSafe(u)
    BY DEF FailureNoted
  <2>2. FailureNotedBy(u)'
    BY <2>1, <1>3 DEF FailureNotedBy
  <2>3. CallSafe(u)'
    BY <2>1, <1>3 DEF CallSafe, IsBare
  <2> QED
    BY <2>2, <2>3
<1> QED
  BY <1>2, <1>3

(* What a thread in checkReturnStatus knows of the client survives every   *)
(* step of every other thread, and of the client itself.                   *)
LEMMA FailStep ==
  ASSUME IInv, [Next]_vars
  PROVE  FailureNoted'
<1> USE DEF TypeOK, Labels, Outside, Inside, Writing, Failing, NoClient
<1>b. Binder \in Threads /\ Vendor \subseteq Threads /\ Binder \notin Vendor
  BY HoldersCount
<1>i. TypeOK /\ LockMatchesPc /\ LockCounted /\ ClientsBorn /\ FailureNoted
  BY DEF IInv
<1>1. CASE ClientStart
  <2>1. SUFFICES ASSUME NEW t \in Threads PROVE FailureNotedBy(t)' /\ CallSafe(t)'
    BY DEF FailureNoted
  <2>2. FailureNotedBy(t) /\ CallSafe(t)
    BY <1>i DEF FailureNoted
  <2>3. pc[t] \in Failing => failed[t] \in 1..born /\ failed[t] # alive
    BY <2>2 DEF FailureNotedBy
  <2>4. pc[t] \in Failing => failed[t] \in 1..(born + 1) /\ failed[t] # born + 1
    BY <2>3, <1>i
  <2>5. /\ UNCHANGED <<callback, mCounter, pc, svc, counter, failed, bare, breach>>
        /\ alive' = born + 1 /\ born' = born + 1
    BY <1>1 DEF ClientStart, modeVars
  <2>6. FailureNotedBy(t)'
    BY <2>2, <2>4, <2>5 DEF FailureNotedBy
  <2> QED
    BY <2>2, <2>5, <2>6 DEF CallSafe, IsBare
<1>2. ASSUME NEW s \in Services, ClientRegister(s) PROVE FailureNoted'
  BY <1>2, <1>i DEF ClientRegister, FailureNoted, FailureNotedBy, CallSafe, IsBare, modeVars
<1>3. CASE ClientDie
  <2>1. SUFFICES ASSUME NEW t \in Threads PROVE FailureNotedBy(t)' /\ CallSafe(t)'
    BY DEF FailureNoted
  <2>2. FailureNotedBy(t) /\ CallSafe(t)
    BY <1>i DEF FailureNoted
  <2>3. UNCHANGED <<callback, mCounter, pc, svc, counter, failed, born, bare, breach>> /\ alive' = 0
    BY <1>3 DEF ClientDie, modeVars
  <2>4. pc[t] \in Failing => failed[t] # 0
    BY <2>2, <1>i DEF FailureNotedBy
  <2>5. FailureNotedBy(t)'
    BY <2>2, <2>3, <2>4 DEF FailureNotedBy
  <2> QED
    BY <2>2, <2>3, <2>5 DEF CallSafe, IsBare
<1>4. ASSUME NEW t \in Vendor, NEW s \in Services, NEW l \in {"rdlock", "wrlock"},
             StartUpcall(t, s, l)
      PROVE  FailureNoted'
  <2>1. t \in Threads /\ UNCHANGED <<callback, mCounter, alive, born, counter, failed, bare, breach>>
    BY <1>4, <1>b DEF StartUpcall, clientVars, modeVars
  <2>2. pc' = [pc EXCEPT ![t] = l] /\ svc' = [svc EXCEPT ![t] = s]
    BY <1>4 DEF StartUpcall, Goto
  <2>3. FailureNotedBy(t)' /\ CallSafe(t)'
    BY <2>1, <2>2, <1>i DEF FailureNotedBy, CallSafe
  <2> QED
    BY <2>1, <2>2, <2>3, <1>i, ThreadLocal
<1>m. ASSUME NEW t \in Threads, NEW l \in {"test", "unlock", "idle", "rdlock", "relock", "resend"},
             Goto(t, l), UNCHANGED <<callback, mCounter, svc, counter, failed, clientVars>>,
             breach \subseteq breach', t = Binder \/ bare' = bare
      PROVE  FailureNoted'
  <2>1. FailureNotedBy(t)' /\ CallSafe(t)'
    BY <1>m, <1>i DEF Goto, FailureNotedBy, CallSafe
  <2> QED
    BY <2>1, <1>m, <1>i, ThreadLocal DEF Goto, clientVars
<1>5. ASSUME NEW t \in Threads, ThreadStep(t) PROVE FailureNoted'
  <2>k. FailureNotedBy(t) /\ CallSafe(t)
    BY <1>i DEF FailureNoted
  <2>2. CASE RdLock(t)
    BY <2>2, <1>m DEF RdLock, modeVars
  <2>3. CASE WrLock(t)
    BY <2>3, <1>m DEF WrLock, modeVars
  <2>4. CASE TestCallback(t)
    <3>1. PICK l \in {"unlock", "call"} : Goto(t, l) /\ (l = "call" => callback[svc[t]] # 0)
      BY <2>4 DEF TestCallback
    <3>2. UNCHANGED <<callback, mCounter, svc, counter, failed, alive, born, bare, breach>>
      BY <2>4 DEF TestCallback, clientVars, modeVars
    <3>3. FailureNotedBy(t)' /\ CallSafe(t)'
      BY <3>1, <3>2, <1>i DEF Goto, FailureNotedBy, CallSafe
    <3> QED
      BY <3>1, <3>2, <3>3, <1>i, ThreadLocal DEF Goto
  <2>5. CASE CallClient(t)
    <3>1. CASE callback[svc[t]] = NoClient
      <4>1. pc' = [u \in Threads |-> "crashed"]
        BY <2>5, <3>1 DEF CallClient
      <4> QED
        BY <4>1 DEF FailureNoted, FailureNotedBy, CallSafe
    <3>2. CASE callback[svc[t]] # NoClient /\ callback[svc[t]] = alive
      BY <2>5, <3>2, <1>m DEF CallClient
    <3>3. CASE callback[svc[t]] \notin {NoClient, alive}
      <4>1. /\ failed' = [failed EXCEPT ![t] = callback[svc[t]]]
            /\ pc' = [pc EXCEPT ![t] = "note"]
            /\ UNCHANGED <<callback, mCounter, svc, counter, alive, born, bare, breach>>
        BY <2>5, <3>3 DEF CallClient, Goto, clientVars
      <4>2. callback[svc[t]] # 0 /\ callback[svc[t]] <= born /\ callback[svc[t]] \in Nat
        BY <3>3, <1>i DEF ClientsBorn
      <4>3. callback[svc[t]] \in 1..born
        BY <4>2, <1>i
      <4>4. FailureNotedBy(t)' /\ CallSafe(t)'
        BY <4>1, <4>3, <3>3, <1>i DEF FailureNotedBy, CallSafe
      <4> QED
        BY <4>1, <4>4, <1>i, ThreadLocal
    <3> QED
      BY <3>1, <3>2, <3>3
  <2>6. CASE NoteCounter(t)
    <3>1. /\ pc[t] = "note"
          /\ counter' = [counter EXCEPT ![t] = mCounter[svc[t]]]
          /\ pc' = [pc EXCEPT ![t] = "release"]
          /\ UNCHANGED <<callback, mCounter, svc, failed, alive, born, bare, breach>>
      BY <2>6 DEF NoteCounter, Goto, clientVars, modeVars
    <3>2. FailureNotedBy(t)' /\ CallSafe(t)'
      BY <3>1, <2>k, <1>i DEF FailureNotedBy, CallSafe
    <3> QED
      BY <3>1, <3>2, <1>i, ThreadLocal
  <2>7. CASE ReleaseLock(t)
    <3>1. /\ pc[t] = "release"
          /\ pc' = [pc EXCEPT ![t] = "upgrade"]
          /\ breach \subseteq breach'
          /\ UNCHANGED <<callback, mCounter, svc, counter, failed, alive, born, bare>>
      BY <2>7 DEF ReleaseLock, Goto, clientVars
    <3>2. FailureNotedBy(t)' /\ CallSafe(t)'
      BY <3>1, <2>k, <1>i DEF FailureNotedBy, CallSafe
    <3> QED
      BY <3>1, <3>2, <1>i, ThreadLocal
  <2>8. CASE UpgradeLock(t)
    <3>1. /\ pc[t] = "upgrade"
          /\ pc' = [pc EXCEPT ![t] = "reset"]
          /\ UNCHANGED <<callback, mCounter, svc, counter, failed, alive, born, bare, breach>>
      BY <2>8 DEF UpgradeLock, Goto, clientVars, modeVars
    <3>2. FailureNotedBy(t)' /\ CallSafe(t)'
      BY <3>1, <2>k, <1>i DEF FailureNotedBy, CallSafe
    <3> QED
      BY <3>1, <3>2, <1>i, ThreadLocal
  <2>9. CASE ResetCallback(t)
    <3>1. CASE counter[t] = mCounter[svc[t]]
      <4>1. /\ pc[t] = "reset"
            /\ callback' = [callback EXCEPT ![svc[t]] = 0]
            /\ mCounter' = [mCounter EXCEPT ![svc[t]] = @ + 1]
            /\ pc' = [pc EXCEPT ![t] = "relock"]
            /\ UNCHANGED <<svc, counter, failed, alive, born, bare, breach>>
        BY <2>9, <3>1 DEF ResetCallback, Goto, clientVars, modeVars
      <4>2. writer = t
        BY <4>1, <1>i DEF LockMatchesPc
      <4>3. svc[t] \in Services /\ 0 \in Nat
        BY <1>i
      <4> QED
        BY <4>1, <4>2, <4>3, <1>i, RegistryWrite
    <3>2. CASE counter[t] # mCounter[svc[t]]
      BY <2>9, <3>2, <1>m DEF ResetCallback, modeVars
    <3> QED
      BY <3>1, <3>2
  <2>10. CASE RelockRead(t)
    BY <2>10, <1>m DEF RelockRead, modeVars
  <2>11. CASE Unlock(t)
    <3>1. PICK l \in {"idle", "rdlock", "resend"} : Goto(t, l)
      <4>1. CASE t = Binder /\ todo # <<>>
        <5>1. Head(todo) \in {"rdlock", "resend"}
          BY <4>1, <1>i
        <5> QED
          BY <2>11, <4>1, <5>1 DEF Unlock
      <4>2. CASE ~(t = Binder /\ todo # <<>>)
        BY <2>11, <4>2 DEF Unlock
      <4> QED
        BY <4>1, <4>2
    <3> QED
      BY <2>11, <3>1, <1>m DEF Unlock, modeVars
  <2> QED
    BY <1>5, <2>2, <2>3, <2>4, <2>5, <2>6, <2>7, <2>8, <2>9, <2>10, <2>11 DEF ThreadStep
<1>6. CASE TakeRegistration
  <2>1. /\ pc[Binder] = "idle"
        /\ pc' = [pc EXCEPT ![Binder] = "set"]
        /\ svc' = [svc EXCEPT ![Binder] = Head(inbox).service]
        /\ UNCHANGED <<callback, mCounter, counter, failed, alive, born, bare, breach>>
    BY <1>6 DEF TakeRegistration, Goto, clientVars, modeVars
  <2>2. FailureNotedBy(Binder)' /\ CallSafe(Binder)'
    BY <2>1, <1>b, <1>i DEF FailureNotedBy, CallSafe
  <2> QED
    BY <2>1, <2>2, <1>b, <1>i, ThreadLocal
<1>7. CASE StoreCallbacks
  <2>1. writer = Binder /\ pc[Binder] = "set"
    BY <1>7, <1>b, <1>i DEF StoreCallbacks, LockMatchesPc
  <2>n. ~Borrowed
    BY <2>1 DEF Borrowed
  <2>2. Len(inbox) \in Nat \ {0} /\ Head(inbox) = inbox[1]
    BY <1>7, <1>i DEF StoreCallbacks, ClientsBorn
  <2>3. PICK g \in Nat : g = Head(inbox).client
    <3>1. inbox[1].client \in 1..born
      BY <2>2, <1>i DEF ClientsBorn
    <3> QED
      BY <3>1, <2>2, <1>i
  <2>4. callback' = [callback EXCEPT ![svc[Binder]] = g]
    BY <1>7, <2>3, StoreShape, <1>i
  <2>5. PICK l \in {"rdlock", "idle"} : pc' = [pc EXCEPT ![Binder] = l]
    BY <1>7, StoreShape, <1>i
  <2>6. /\ mCounter' = [mCounter EXCEPT ![svc[Binder]] = @ + 1]
        /\ UNCHANGED <<svc, counter, failed, alive, born, bare, breach>>
    BY <1>7, StoreShape, <1>i
  <2>7. svc[Binder] \in Services
    BY <1>b, <1>i
  <2> QED
    BY <2>1, <2>n, <2>4, <2>5, <2>6, <2>7, <1>b, <1>i, RegistryWrite
<1>8. CASE resendLastNITZTimeData
  <2>1. breach \subseteq breach'
    BY <1>8 DEF resendLastNITZTimeData
  <2> QED
    BY <1>8, <2>1, <1>b, <1>m DEF resendLastNITZTimeData
<1>9. CASE ErrorSent
  BY <1>9, <1>b, <1>m DEF ErrorSent
<1>10. ASSUME NEW s \in Services, sendErrorResponse(s) PROVE FailureNoted'
  <2>1. /\ pc' = [pc EXCEPT ![Binder] = "test"]
        /\ svc' = [svc EXCEPT ![Binder] = s]
        /\ UNCHANGED <<callback, mCounter, counter, failed, alive, born, breach>>
    BY <1>10 DEF sendErrorResponse, Goto, clientVars
  <2>2. FailureNotedBy(Binder)' /\ CallSafe(Binder)'
    BY <2>1, <1>b, <1>i DEF FailureNotedBy, CallSafe
  <2> QED
    BY <2>1, <2>2, <1>b, <1>i, ThreadLocal
<1>11. CASE UNCHANGED vars
  BY <1>11, <1>i DEF vars, clientVars, modeVars, FailureNoted, FailureNotedBy, CallSafe, IsBare
<1> QED
  BY <1>1, <1>2, <1>3, <1>4, <1>5, <1>6, <1>7, <1>8, <1>9, <1>10, <1>11 DEF Next, BinderStep

-----------------------------------------------------------------------------
(* The inductive invariant holds in every reachable state, for every set   *)
(* of vendor threads and services and any number of clients and upcalls.   *)
THEOREM Invariance == Spec => []IInv
<1>1. Init => IInv
  <2>1. SUFFICES ASSUME Init PROVE IInv
    OBVIOUS
  <2>2. Holders = {} /\ ~Borrowed
    BY <2>1 DEF Init, Holders, Inside, Borrowed
  <2>3. Cardinality(Holders) = 0
    BY <2>2, FS_EmptySet
  <2>4. LockCounted
    BY <2>1, <2>2, <2>3 DEF Init, LockCounted
  <2>5. TypeOK
    <3>1. inbox \in Seq(Registrations) /\ todo \in Seq({"rdlock", "resend"})
      BY <2>1 DEF Init
    <3>2. svc \in [Threads -> Services]
      BY <2>1 DEF Init, Services
    <3>3. pc \in [Threads -> Labels]
      BY <2>1 DEF Init, Labels
    <3>4. /\ callback \in [Services -> Nat] /\ mCounter \in [Services -> Nat]
          /\ counter \in [Threads -> Nat] /\ failed \in [Threads -> Nat]
      BY <2>1 DEF Init, NoClient
    <3>5. /\ writer \in Threads \cup {NoThread} /\ readers \in Nat /\ alive \in Nat /\ born \in Nat
          /\ bare \in BOOLEAN /\ breach \in SUBSET Breaches /\ upcalls \in Nat
      BY <2>1 DEF Init, NoClient
    <3> QED
      BY <3>1, <3>2, <3>3, <3>4, <3>5 DEF TypeOK
  <2>6. LockMatchesPc
    BY <2>1, ServiceAssumption DEF Init, LockMatchesPc, Writing
  <2>7. ClientsBorn
    BY <2>1, ServiceAssumption DEF Init, ClientsBorn, Threads, NoClient
  <2>8. FailureNoted
    BY <2>1 DEF Init, FailureNoted, FailureNotedBy, CallSafe, Failing
  <2> QED
    BY <2>4, <2>5, <2>6, <2>7, <2>8 DEF IInv
<1>2. IInv /\ [Next]_vars => IInv'
  BY TypeStep, LockStep, CountStep, BornStep, FailStep DEF IInv
<1> QED
  BY <1>1, <1>2, PTL DEF Spec

(* Every variable keeps its type.                                          *)
THEOREM TypeCorrect == Spec => []TypeOK
<1>1. IInv => TypeOK
  BY DEF IInv
<1> QED
  BY <1>1, Invariance, PTL

(* No response or indication function that runs under the read lock calls  *)
(* through a NULL callback, as long as no error answer has given back a    *)
(* lock that was not its own.                                              *)
THEOREM NoNullCallHolds == Spec => []NoNullCall
<1>1. IInv => NoNullCall
  BY DEF IInv, FailureNoted, CallSafe, NoNullCall
<1> QED
  BY <1>1, Invariance, PTL

(* The lock is held once for each thread in a critical section, and by no  *)
(* thread that is back in its caller, until one of the three breaches.     *)
THEOREM LockReleasedHolds == Spec => []LockReleased
<1>1. IInv => LockReleased
  BY DEF IInv, LockMatchesPc, LockCounted, LockReleased, Outside
<1> QED
  BY <1>1, Invariance, PTL

(* The recovery of checkReturnStatus discards only callbacks of a client   *)
(* that is dead, whether or not its caller held the lock.                  *)
THEOREM LiveClientKeptHolds == Spec => LiveClientKept
<1> DEFINE Kept == \A s \in Services :
             callback[s] # NoClient /\ callback'[s] = NoClient => callback[s] # alive
<1>1. IInv /\ [Next]_vars => [Kept]_vars
  <2>1. SUFFICES ASSUME IInv, Next, NEW s \in Services,
                        callback[s] # NoClient, callback'[s] = NoClient
                 PROVE  callback[s] # alive
    OBVIOUS
  <2>2. TypeOK /\ ClientsBorn /\ FailureNoted
    BY <2>1 DEF IInv
  <2>3. CASE \E t \in Threads : ResetCallback(t)
    <3>1. PICK t \in Threads : ResetCallback(t)
      BY <2>3
    <3>2. pc[t] = "reset" /\ s = svc[t] /\ counter[t] = mCounter[svc[t]]
      BY <3>1, <2>1, <2>2 DEF ResetCallback, TypeOK
    <3>3. FailureNotedBy(t)
      BY <2>2 DEF FailureNoted
    <3> QED
      BY <3>2, <3>3, <2>1 DEF FailureNotedBy, Failing
  <2>4. CASE StoreCallbacks
    <3>1. Binder \in Threads
      BY DEF Threads
    <3>2. Len(inbox) \in Nat \ {0} /\ Head(inbox) = inbox[1]
      BY <2>4, <2>2 DEF StoreCallbacks, ClientsBorn, TypeOK
    <3>3. PICK g \in 1..born : g = Head(inbox).client
      BY <3>2, <2>2 DEF ClientsBorn
    <3>4. callback' = [callback EXCEPT ![svc[Binder]] = g]
      BY <2>4, <3>3, <2>2, StoreShape
    <3>5. g # NoClient
      BY <2>2 DEF NoClient, TypeOK
    <3> QED
      BY <3>4, <3>5, <2>1, <2>2 DEF TypeOK
  <2>5. CASE UNCHANGED callback
    BY <2>5, <2>1
  <2> QED
    BY <2>1, <2>3, <2>4, <2>5 DEF Next, ThreadStep, BinderStep, ClientStart, ClientRegister,
       ClientDie, StartUpcall, RdLock, WrLock, TestCallback, CallClient, NoteCounter,
       ReleaseLock, UpgradeLock, RelockRead, Unlock, TakeRegistration, resendLastNITZTimeData,
       ErrorSent, sendErrorResponse
<1> QED
  BY <1>1, Invariance, PTL DEF Spec, LiveClientKept

-----------------------------------------------------------------------------
(* RilDispatch: who answers a request.                                     *)

(* Where the binder thread is with the call, and who has answered it.      *)
AnswerInv ==
    /\ stage \in {"idle", "prepare", "freeing", "crashed"}
    /\ owed \in BOOLEAN /\ call.listed \in BOOLEAN /\ call.truncated \in BOOLEAN
    /\ replies \in {0, 1}
    /\ stage = "crashed" => ~owed
    /\ stage = "prepare" => call.listed /\ ~call.truncated /\ ~owed /\ replies = 0
    /\ stage = "freeing" => call.listed /\ ~call.truncated /\ (owed <=> replies = 0)
    /\ stage = "idle" /\ owed => call.listed /\ ~call.truncated /\ replies = 0
    /\ stage = "idle" /\ ~owed /\ call # NoCall =>
         replies = IF call.listed /\ ~call.truncated THEN 1 ELSE 0
    /\ stage = "idle" /\ call = NoCall => ~owed /\ replies = 0

(* Before the first call nothing is owed.                                  *)
LEMMA DispatchInitHolds == DispatchInit => AnswerInv
<1> SUFFICES ASSUME DispatchInit PROVE AnswerInv
    OBVIOUS
<1>1. /\ call.listed \in BOOLEAN /\ call.truncated \in BOOLEAN
      /\ owed \in BOOLEAN /\ ~owed
    BY Zenon DEF DispatchInit, NoCall
<1> QED
    BY <1>1 DEF DispatchInit, AnswerInv

(* Every step of a dispatch function, of the vendor library and of a       *)
(* response keeps it.                                                      *)
LEMMA DispatchStep == AnswerInv /\ [DispatchNext]_dispatchVars => AnswerInv'
<1> SUFFICES ASSUME AnswerInv, [DispatchNext]_dispatchVars PROVE AnswerInv'
    OBVIOUS
<1> USE DEF AnswerInv
<1>1. ASSUME NEW m, NEW row, Call(m, row) PROVE AnswerInv'
    BY <1>1 DEF Call, Quiet, NoCall
<1>2. ASSUME NEW m, NEW row, CallNotListed(m, row) PROVE AnswerInv'
    BY <1>2 DEF CallNotListed, Quiet, NoCall
<1>3. CASE StepPasses
    BY <1>3 DEF StepPasses
<1>4. CASE StepFails
    BY <1>4 DEF StepFails, NoCall
<1>16. CASE StepTruncates
    <2>1. call'.listed = TRUE /\ call'.truncated = TRUE
        BY <1>16 DEF StepTruncates
    <2> QED
        BY <1>16, <2>1 DEF StepTruncates, NoCall
<1>5. CASE OnRequest
    BY <1>5 DEF OnRequest
<1>6. CASE FreeArguments
    BY <1>6 DEF FreeArguments, NoCall
<1>7. ASSUME NEW e, NEW p, Answer(e, p) PROVE AnswerInv'
    <2>1. owed /\ ~owed' /\ owed' \in BOOLEAN
        BY <1>7, Zenon DEF Answer
    <2>2. replies = 0 /\ replies' = 1
        BY <1>7, <2>1 DEF Answer
    <2> QED
        BY <1>7, <2>1, <2>2 DEF Answer, NoCall
<1>8. ASSUME NEW code, NEW p, Indicate(code, p) PROVE AnswerInv'
    BY <1>8 DEF Indicate
<1>9. ASSUME NEW format, NEW m, Measure(format, m) PROVE AnswerInv'
    BY <1>9 DEF Measure
<1>10. ASSUME NEW accepted, SignalStrength(accepted) PROVE AnswerInv'
    BY <1>10 DEF SignalStrength
<1>11. ASSUME NEW v, NEW n, DataCallList(v, n) PROVE AnswerInv'
    BY <1>11 DEF DataCallList
<1>12. ASSUME NEW kind, NEW rat, NEW n, RegistrationState(kind, rat, n) PROVE AnswerInv'
    BY <1>12 DEF RegistrationState
<1>13. CASE Done
    BY <1>13 DEF Done, NoCall
<1>14. CASE Restart
    BY <1>14 DEF Restart, NoCall
<1>15. CASE UNCHANGED dispatchVars
    BY <1>15 DEF dispatchVars
<1> QED
    BY <1>1, <1>2, <1>3, <1>4, <1>5, <1>6, <1>7, <1>8, <1>9, <1>10, <1>11, <1>12, <1>13,
       <1>14, <1>15, <1>16 DEF DispatchNext

(* Every request of the radio service that was put on the list gets one    *)
(* answer and no other gets one, whichever step of its dispatch function   *)
(* fails and whatever the vendor library does, but for the request whose   *)
(* string was cut short: for every set of measurements and lists.          *)
THEOREM AnsweredOnce == DispatchSpec => []OneAnswer
<1>1. AnswerInv => OneAnswer
    BY DEF AnswerInv, OneAnswer
<1> QED
    BY <1>1, DispatchInitHolds, DispatchStep, PTL DEF DispatchSpec

-----------------------------------------------------------------------------
(* The length of a list of up to nine data calls is that of no list of a   *)
(* newer version.                                                          *)
LEMMA ListGuessed ==
    ASSUME NEW v \in {"v6", "v9", "v11"}, NEW n \in 1..9
    PROVE  convertRilDataCallListToHal(n * sizeofDataCall[v]) = [version |-> v, num |-> n]
<1> DEFINE len == n * sizeofDataCall[v]
<1>1. sizeofDataCall.v6 = 36 /\ sizeofDataCall.v9 = 40 /\ sizeofDataCall.v11 = 44
    BY DEF sizeofDataCall
<1>2. CASE v = "v11"
    <2>1. len = n * 44 /\ len % 44 = 0 /\ len \div 44 = n
        BY <1>1, <1>2
    <2> QED
        BY <1>1, <1>2, <2>1 DEF convertRilDataCallListToHal
<1>3. CASE v = "v9"
    <2>1. len = n * 40 /\ len % 44 # 0 /\ len % 40 = 0 /\ len \div 40 = n
        BY <1>1, <1>3
    <2> QED
        BY <1>1, <1>3, <2>1 DEF convertRilDataCallListToHal
<1>4. CASE v = "v6"
    <2>1. len = n * 36 /\ len % 44 # 0 /\ len % 40 # 0 /\ len \div 36 = n
        BY <1>1, <1>4
    <2> QED
        BY <1>1, <1>4, <2>1 DEF convertRilDataCallListToHal
<1> QED
    BY <1>2, <1>3, <1>4

(* The last list told to the client is what the guess makes of its length. *)
ListInv ==
    upcall.kind = "calls" =>
        /\ upcall.sent.version \in {"v6", "v9", "v11"} /\ upcall.sent.num \in Nat
        /\ upcall.sent = [version |-> upcall.sent.version, num |-> upcall.sent.num]
        /\ upcall.got = convertRilDataCallListToHal(
                            upcall.sent.num * sizeofDataCall[upcall.sent.version])

(* No list has been sent at first.                                         *)
LEMMA ListInitHolds == DispatchInit => ListInv
BY DEF DispatchInit, ListInv, NoUpcall

(* Every response and indication keeps it.                                 *)
LEMMA ListStep == ListInv /\ [DispatchNext]_dispatchVars => ListInv'
<1> SUFFICES ASSUME ListInv, [DispatchNext]_dispatchVars PROVE ListInv'
    OBVIOUS
<1>1. CASE upcall' = upcall
    BY <1>1 DEF ListInv
<1>2. CASE upcall'.kind # "calls"
    BY <1>2 DEF ListInv
<1>3. ASSUME NEW v \in DOMAIN sizeofDataCall, NEW n \in 0..MaxDataCalls, DataCallList(v, n)
      PROVE  ListInv'
    <2>1. upcall' = [kind |-> "calls", sent |-> [version |-> v, num |-> n],
                     got |-> convertRilDataCallListToHal(n * sizeofDataCall[v])]
        BY <1>3 DEF DataCallList
    <2>2. v \in {"v6", "v9", "v11"} /\ n \in Nat
        BY VersionsAssumption DEF sizeofDataCall
    <2> QED
        BY <2>1, <2>2 DEF ListInv
<1>4. ASSUME NEW m, NEW row, Call(m, row) \/ CallNotListed(m, row) PROVE UNCHANGED upcall
    BY <1>4 DEF Call, CallNotListed
<1>5. CASE StepPasses \/ StepTruncates \/ OnRequest \/ FreeArguments
    BY <1>1, <1>5 DEF StepPasses, StepTruncates, OnRequest, FreeArguments
<1>6. CASE StepFails
    BY <1>2, <1>6, SMT DEF StepFails
<1>7. ASSUME NEW e, NEW p, Answer(e, p) PROVE upcall'.kind # "calls"
    BY <1>7, SMT DEF Answer
<1>8. ASSUME NEW code, NEW p, Indicate(code, p) PROVE upcall'.kind # "calls"
    BY <1>8, SMT DEF Indicate
<1>9. ASSUME NEW format, NEW m, Measure(format, m) PROVE UNCHANGED upcall
    BY <1>9 DEF Measure
<1>10. ASSUME NEW accepted, SignalStrength(accepted) PROVE upcall'.kind # "calls"
    BY <1>10, SMT DEF SignalStrength
<1>11. ASSUME NEW kind, NEW rat, NEW n, RegistrationState(kind, rat, n)
       PROVE  upcall'.kind # "calls"
    BY <1>11, SMT DEF RegistrationState
<1>12. CASE Done \/ Restart
    BY <1>2, <1>12, SMT DEF Done, Restart, NoUpcall
<1>13. CASE UNCHANGED dispatchVars
    BY <1>1, <1>13 DEF dispatchVars
<1> QED
    BY <1>1, <1>2, <1>3, <1>4, <1>5, <1>6, <1>7, <1>8, <1>9, <1>10, <1>11, <1>12, <1>13
    DEF DispatchNext

(* The data call list the framework gets is the one the vendor library     *)
(* sent, in the version it was built for, though the library tells the     *)
(* version by the length alone.                                            *)
THEOREM ListsAsSent == DispatchSpec => []CallListAsSent
<1>1. ASSUME ListInv PROVE CallListAsSent
    <2> SUFFICES ASSUME upcall.kind = "calls", upcall.sent.num \in 1..9
                 PROVE  upcall.got = upcall.sent
        BY DEF CallListAsSent
    <2> QED
        BY <1>1, ListGuessed DEF ListInv
<1> QED
    BY <1>1, ListInitHolds, ListStep, PTL DEF DispatchSpec

-----------------------------------------------------------------------------
Strengths ==
    [gw : 0..31 \cup {99}, cdma : Nat, evdo : Nat, lte : Int, rsrp : Int, rsrq : Int,
     cqi : Int, timingAdvance : Nat, rscp : Nat]
Formats == {"v5", "v6", "v8", "v10"}

(* Two structures with the same fields are equal.                          *)
LEMMA Fields ==
    ASSUME NEW s \in Strengths, NEW t \in Strengths, s.gw = t.gw, s.cdma = t.cdma,
           s.evdo = t.evdo, s.lte = t.lte, s.rsrp = t.rsrp, s.rsrq = t.rsrq, s.cqi = t.cqi,
           s.timingAdvance = t.timingAdvance, s.rscp = t.rscp
    PROVE  s = t
BY SMT DEF Strengths

(* One field of a structure is set.                                        *)
LEMMA SetField ==
    ASSUME NEW s \in Strengths
    PROVE  /\ \A a \in 0..31 \cup {99} : [s EXCEPT !.gw = a] \in Strengths
           /\ \A a \in Nat : [s EXCEPT !.cdma = a] \in Strengths
           /\ \A a \in Nat : [s EXCEPT !.evdo = a] \in Strengths
           /\ \A a \in Int : [s EXCEPT !.lte = a] \in Strengths
           /\ \A a \in Int : [s EXCEPT !.rsrp = a] \in Strengths
           /\ \A a \in Int : [s EXCEPT !.rsrq = a] \in Strengths
           /\ \A a \in Int : [s EXCEPT !.cqi = a] \in Strengths
           /\ \A a \in Nat : [s EXCEPT !.timingAdvance = a] \in Strengths
           /\ \A a \in Nat : [s EXCEPT !.rscp = a] \in Strengths
<1>1. ASSUME NEW a \in 0..31 \cup {99} PROVE [s EXCEPT !.gw = a] \in Strengths
    BY SMT DEF Strengths
<1>2. ASSUME NEW a \in Nat PROVE [s EXCEPT !.cdma = a] \in Strengths
    BY SMT DEF Strengths
<1>3. ASSUME NEW a \in Nat PROVE [s EXCEPT !.evdo = a] \in Strengths
    BY SMT DEF Strengths
<1>4. ASSUME NEW a \in Int PROVE [s EXCEPT !.lte = a] \in Strengths
    BY SMT DEF Strengths
<1>5. ASSUME NEW a \in Int PROVE [s EXCEPT !.rsrp = a] \in Strengths
    BY SMT DEF Strengths
<1>6. ASSUME NEW a \in Int PROVE [s EXCEPT !.rsrq = a] \in Strengths
    BY SMT DEF Strengths
<1>7. ASSUME NEW a \in Int PROVE [s EXCEPT !.cqi = a] \in Strengths
    BY SMT DEF Strengths
<1>8. ASSUME NEW a \in Nat PROVE [s EXCEPT !.timingAdvance = a] \in Strengths
    BY SMT DEF Strengths
<1>9. ASSUME NEW a \in Nat PROVE [s EXCEPT !.rscp = a] \in Strengths
    BY SMT DEF Strengths
<1> QED
    BY <1>1, <1>2, <1>3, <1>4, <1>5, <1>6, <1>7, <1>8, <1>9

(* What the fixup does to each field.                                      *)
LEMMA FixupFields ==
    ASSUME NEW s \in Strengths
    PROVE  /\ LteFixup(s) \in Strengths
           /\ LteFixup(s).gw = s.gw /\ LteFixup(s).cdma = s.cdma
           /\ LteFixup(s).evdo = s.evdo /\ LteFixup(s).timingAdvance = s.timingAdvance
           /\ LteFixup(s).rscp = s.rscp
           /\ LteFixup(s).lte = IF s.lte = -1 THEN 99 ELSE s.lte
           /\ LteFixup(s).rsrp = IF s.rsrp = -1 THEN INT_MAX
                                 ELSE IF s.rsrp < -1 THEN -s.rsrp ELSE s.rsrp
           /\ LteFixup(s).rsrq = IF s.rsrq = -1 THEN INT_MAX ELSE s.rsrq
           /\ LteFixup(s).cqi = IF s.cqi = -1 THEN INT_MAX ELSE s.cqi
<1>1. PICK a \in Int : a = IF s.lte = -1 THEN 99 ELSE s.lte
    BY SMT DEF Strengths
<1>2. PICK b \in Int : b = IF s.rsrp = -1 THEN INT_MAX
                           ELSE IF s.rsrp < -1 THEN -s.rsrp ELSE s.rsrp
    BY SMT DEF Strengths, INT_MAX
<1>3. PICK c \in Int : c = IF s.rsrq = -1 THEN INT_MAX ELSE s.rsrq
    BY SMT DEF Strengths, INT_MAX
<1>4. PICK d \in Int : d = IF s.cqi = -1 THEN INT_MAX ELSE s.cqi
    BY SMT DEF Strengths, INT_MAX
<1>5. LteFixup(s) = [s EXCEPT !.lte = a, !.rsrp = b, !.rsrq = c, !.cqi = d]
    BY <1>1, <1>2, <1>3, <1>4, SMT DEF LteFixup
<1>6. [s EXCEPT !.lte = a, !.rsrp = b, !.rsrq = c, !.cqi = d] \in Strengths
    <2>1. PICK s1 \in Strengths : s1 = [s EXCEPT !.lte = a]
        BY SetField
    <2>2. PICK s2 \in Strengths : s2 = [s1 EXCEPT !.rsrp = b]
        BY SetField
    <2>3. PICK s3 \in Strengths : s3 = [s2 EXCEPT !.rsrq = c]
        BY SetField
    <2>4. [s3 EXCEPT !.cqi = d] \in Strengths
        BY SetField
    <2> QED
        BY <2>1, <2>2, <2>3, <2>4, Zenon
<1> QED
    BY <1>1, <1>2, <1>3, <1>4, <1>5, <1>6, SMT DEF Strengths

(* The fixup leaves a structure it has been at alone.                      *)
LEMMA FixupIdempotent ==
    ASSUME NEW s \in Strengths
    PROVE  LteFixup(LteFixup(s)) = LteFixup(s)
<1>1. PICK f \in Strengths : f = LteFixup(s)
    BY FixupFields
<1>2. f.lte # -1 /\ f.rsrp >= 0 /\ f.rsrq # -1 /\ f.cqi # -1
    <2>1. s.lte \in Int /\ s.rsrp \in Int /\ s.rsrq \in Int /\ s.cqi \in Int
        BY SMT DEF Strengths
    <2> QED
        BY <1>1, <2>1, FixupFields, SMT DEF INT_MAX
<1>3. LteFixup(f) = f
    <2>1. PICK g \in Strengths : g = LteFixup(f)
        BY FixupFields
    <2>2. f.rsrp \in Int
        BY SMT DEF Strengths
    <2>3. /\ g.gw = f.gw /\ g.cdma = f.cdma /\ g.evdo = f.evdo /\ g.lte = f.lte
          /\ g.rsrp = f.rsrp /\ g.rsrq = f.rsrq /\ g.cqi = f.cqi
          /\ g.timingAdvance = f.timingAdvance /\ g.rscp = f.rscp
        BY <1>2, <2>1, <2>2, FixupFields, SMT
    <2> QED
        BY <2>1, <2>3, Fields
<1> QED
    BY <1>1, <1>3

(* What SignalAsMeasured says of a report r of the strength m.             *)
AsMeasured(format, m, r) ==
    LET lte == format # "v5"
    IN /\ r.gw = m.gw
       /\ m.cdma \in 0..31 => r.cdma = m.cdma
       /\ ~NextGenModem => r.cdma = m.cdma /\ r.evdo = m.evdo
       /\ r.lte = Told(lte, 99, m.lte)
       /\ r.rsrp = Told(lte, INT_MAX, IF m.rsrp < -1 THEN -m.rsrp ELSE m.rsrp)
       /\ r.rsrq = Told(lte, INT_MAX, m.rsrq) /\ r.cqi = Told(lte, INT_MAX, m.cqi)
       /\ r.timingAdvance = Told(format \in {"v8", "v10"}, INT_MAX, m.timingAdvance)
       /\ r.rscp = Told(format = "v10", INT_MAX, m.rscp)

(* A signal strength in the range of the interface is not changed.         *)
LEMMA ClampKeeps == \A v \in 0..31 \cup {99} : Clamped(v) = v
BY DEF Clamped

(* The clamped value is a number.                                          *)
LEMMA ClampedType == \A v \in Nat : Clamped(v) \in Nat
BY DEF Clamped

(* The fields of a report in each format.                                  *)
Holds(r, s, lte, rsrp, rsrq, cqi, timingAdvance, rscp) ==
    /\ r.gw = s.gw /\ r.cdma = Dbm(s.cdma) /\ r.evdo = Dbm(s.evdo)
    /\ r.lte = lte /\ r.rsrp = rsrp /\ r.rsrq = rsrq /\ r.cqi = cqi
    /\ r.timingAdvance = timingAdvance /\ r.rscp = rscp

(* The fields of the report after both conversions.                        *)
LEMMA ReportFields ==
    ASSUME NEW s \in Strengths
    PROVE  /\ Holds(convertRilSignalStrengthToHalV10(s), s, s.lte, s.rsrp, s.rsrq, s.cqi,
                    s.timingAdvance, s.rscp)
           /\ Holds(convertRilSignalStrengthToHalV8(s), s, s.lte, s.rsrp, s.rsrq, s.cqi,
                    s.timingAdvance, INT_MAX)
           /\ Holds(convertRilSignalStrengthToHalV6(s), s, s.lte, s.rsrp, s.rsrq, s.cqi,
                    INT_MAX, INT_MAX)
           /\ Holds(convertRilSignalStrengthToHalV5(s), s, 99, INT_MAX, INT_MAX, INT_MAX,
                    INT_MAX, INT_MAX)
<1>1. PICK a \in Nat : a = Dbm(s.cdma)
    BY ClampedType, SMT DEF Dbm, Strengths
<1>2. PICK b \in Nat : b = Dbm(s.evdo)
    BY ClampedType, SMT DEF Dbm, Strengths
<1>3. Clamped(s.gw) = s.gw /\ s.gw \in 0..31 \cup {99}
    BY ClampKeeps, SMT DEF Strengths
<1>4. INT_MAX \in Nat /\ INT_MAX \in Int /\ 99 \in Int
    BY DEF INT_MAX
<1>5. PICK v10 \in Strengths : /\ v10 = [s EXCEPT !.gw = s.gw, !.cdma = a, !.evdo = b]
                               /\ v10 = convertRilSignalStrengthToHalV10(s)
    <2>1. PICK s1 \in Strengths : s1 = [s EXCEPT !.gw = s.gw]
        BY <1>3, SetField
    <2>2. PICK s2 \in Strengths : s2 = [s1 EXCEPT !.cdma = a]
        BY SetField
    <2>3. [s2 EXCEPT !.evdo = b] \in Strengths
        BY SetField
    <2>4. [s EXCEPT !.gw = s.gw, !.cdma = a, !.evdo = b] \in Strengths
        BY <2>1, <2>2, <2>3, Zenon
    <2>5. convertRilSignalStrengthToHalV10(s) = [s EXCEPT !.gw = s.gw, !.cdma = a, !.evdo = b]
        BY <1>1, <1>2, <1>3, SMT DEF convertRilSignalStrengthToHalV10
    <2> QED
        BY <2>4, <2>5
<1>6. PICK v8 \in Strengths : /\ v8 = [v10 EXCEPT !.rscp = INT_MAX]
                              /\ v8 = convertRilSignalStrengthToHalV8(s)
    <2>1. convertRilSignalStrengthToHalV8(s) = [v10 EXCEPT !.rscp = INT_MAX]
        BY <1>5 DEF convertRilSignalStrengthToHalV8
    <2> QED
        BY <1>4, <2>1, SetField
<1>7. PICK v6 \in Strengths : /\ v6 = [v8 EXCEPT !.timingAdvance = INT_MAX]
                              /\ v6 = convertRilSignalStrengthToHalV6(s)
    <2>1. convertRilSignalStrengthToHalV6(s) = [v8 EXCEPT !.timingAdvance = INT_MAX]
        BY <1>6 DEF convertRilSignalStrengthToHalV6
    <2> QED
        BY <1>4, <2>1, SetField
<1>8. PICK v5 \in Strengths : /\ v5 = [v6 EXCEPT !.lte = 99, !.rsrp = INT_MAX, !.rsrq = INT_MAX,
                                                 !.cqi = INT_MAX]
                              /\ v5 = convertRilSignalStrengthToHalV5(s)
    <2>1. convertRilSignalStrengthToHalV5(s) =
              [v6 EXCEPT !.lte = 99, !.rsrp = INT_MAX, !.rsrq = INT_MAX, !.cqi = INT_MAX]
        BY <1>7 DEF convertRilSignalStrengthToHalV5
    <2>2. PICK s1 \in Strengths : s1 = [v6 EXCEPT !.lte = 99]
        BY <1>4, SetField
    <2>3. PICK s2 \in Strengths : s2 = [s1 EXCEPT !.rsrp = INT_MAX]
        BY <1>4, SetField
    <2>4. PICK s3 \in Strengths : s3 = [s2 EXCEPT !.rsrq = INT_MAX]
        BY <1>4, SetField
    <2>5. [s3 EXCEPT !.cqi = INT_MAX] \in Strengths
        BY <1>4, SetField
    <2> QED
        BY <2>1, <2>2, <2>3, <2>4, <2>5, Zenon
<1>9. /\ v10.gw = s.gw /\ v10.cdma = a /\ v10.evdo = b /\ v10.lte = s.lte
      /\ v10.rsrp = s.rsrp /\ v10.rsrq = s.rsrq /\ v10.cqi = s.cqi
      /\ v10.timingAdvance = s.timingAdvance /\ v10.rscp = s.rscp
    BY <1>5, SMT DEF Strengths
<1>10. /\ v8.gw = s.gw /\ v8.cdma = a /\ v8.evdo = b /\ v8.lte = s.lte
       /\ v8.rsrp = s.rsrp /\ v8.rsrq = s.rsrq /\ v8.cqi = s.cqi
       /\ v8.timingAdvance = s.timingAdvance /\ v8.rscp = INT_MAX
    BY <1>6, <1>9, SMT DEF Strengths
<1>11. /\ v6.gw = s.gw /\ v6.cdma = a /\ v6.evdo = b /\ v6.lte = s.lte
       /\ v6.rsrp = s.rsrp /\ v6.rsrq = s.rsrq /\ v6.cqi = s.cqi
       /\ v6.timingAdvance = INT_MAX /\ v6.rscp = INT_MAX
    BY <1>7, <1>10, SMT DEF Strengths
<1>12. /\ v5.gw = s.gw /\ v5.cdma = a /\ v5.evdo = b /\ v5.lte = 99
       /\ v5.rsrp = INT_MAX /\ v5.rsrq = INT_MAX /\ v5.cqi = INT_MAX
       /\ v5.timingAdvance = INT_MAX /\ v5.rscp = INT_MAX
    BY <1>8, <1>11, SMT DEF Strengths
<1> QED
    BY <1>1, <1>2, <1>5, <1>6, <1>7, <1>8, <1>9, <1>10, <1>11, <1>12 DEF Holds

(* They are the measurements, or the values for unknown where the format   *)
(* has none.                                                               *)
LEMMA ReportRight ==
    ASSUME NEW m \in Strengths, NEW format \in Formats,
           NEW s, s = IF format = "v5" THEN m ELSE LteFixup(m)
    PROVE  AsMeasured(format, m, convertRilSignalStrengthToHal(s, sizeofSignalStrength[format]))
<1>1. PICK r : r = convertRilSignalStrengthToHal(s, sizeofSignalStrength[format])
    OBVIOUS
<1>2. r = CASE format = "v5" -> convertRilSignalStrengthToHalV5(s)
            [] format = "v6" -> convertRilSignalStrengthToHalV6(s)
            [] format = "v8" -> convertRilSignalStrengthToHalV8(s)
            [] format = "v10" -> convertRilSignalStrengthToHalV10(s)
    BY <1>1, SMT DEF convertRilSignalStrengthToHal, sizeofSignalStrength, Formats
<1>3. s \in Strengths /\ s.gw = m.gw /\ s.cdma = m.cdma /\ s.evdo = m.evdo
      /\ s.timingAdvance = m.timingAdvance /\ s.rscp = m.rscp
    BY FixupFields
<1>4. r.gw = m.gw /\ r.cdma = Dbm(m.cdma) /\ r.evdo = Dbm(m.evdo)
    BY <1>2, <1>3, ReportFields, SMT DEF Formats, Holds
<1>5. (m.cdma \in 0..31 => Dbm(m.cdma) = m.cdma)
      /\ (~NextGenModem => Dbm(m.cdma) = m.cdma /\ Dbm(m.evdo) = m.evdo)
    BY ClampKeeps DEF Dbm
<1>6. /\ r.lte = Told(format # "v5", 99, m.lte)
      /\ r.rsrp = Told(format # "v5", INT_MAX, IF m.rsrp < -1 THEN -m.rsrp ELSE m.rsrp)
      /\ r.rsrq = Told(format # "v5", INT_MAX, m.rsrq)
      /\ r.cqi = Told(format # "v5", INT_MAX, m.cqi)
    <2>1. m.lte \in Int /\ m.rsrp \in Int /\ m.rsrq \in Int /\ m.cqi \in Int
        BY SMT DEF Strengths
    <2>2. CASE format = "v5"
        BY <1>2, <1>3, <2>2, ReportFields, SMT DEF Told, Holds
    <2>3. CASE format # "v5"
        <3>1. r.lte = s.lte /\ r.rsrp = s.rsrp /\ r.rsrq = s.rsrq /\ r.cqi = s.cqi
            BY <1>2, <1>3, <2>3, ReportFields, SMT DEF Formats, Holds
        <3> QED
            BY <2>1, <2>3, <3>1, FixupFields, SMT DEF Told
    <2> QED
        BY <2>2, <2>3
<1>7. /\ r.timingAdvance = Told(format \in {"v8", "v10"}, INT_MAX, m.timingAdvance)
      /\ r.rscp = Told(format = "v10", INT_MAX, m.rscp)
    <2>1. m.timingAdvance # -1 /\ m.rscp # -1
        BY SMT DEF Strengths
    <2> QED
        BY <1>2, <1>3, <2>1, ReportFields, SMT DEF Formats, Told, Holds
<1> QED
    BY <1>1, <1>4, <1>5, <1>6, <1>7, Zenon DEF AsMeasured

(* The structure is what was measured, or its fixup, and the client was    *)
(* told of it as SignalAsMeasured says.                                    *)
SignalInv ==
    /\ strength # NoStrength =>
           /\ strength = [format |-> strength.format, measured |-> strength.measured,
                          struct |-> strength.struct]
           /\ strength.format \in Formats /\ strength.measured \in Strengths
           /\ \/ strength.struct = strength.measured
              \/ /\ strength.format # "v5"
                 /\ strength.struct = LteFixup(strength.measured)
    /\ upcall.kind = "signal" =>
           AsMeasured(strength.format, strength.measured, upcall.report)

(* No strength has been reported at first.                                 *)
LEMMA SignalInitHolds == DispatchInit => SignalInv
BY DEF DispatchInit, SignalInv, NoUpcall

(* Every report keeps it.                                                  *)
LEMMA SignalStep == SignalInv /\ [DispatchNext]_dispatchVars => SignalInv'
<1> SUFFICES ASSUME SignalInv, [DispatchNext]_dispatchVars PROVE SignalInv'
    OBVIOUS
<1>1. CASE UNCHANGED <<strength, upcall>>
    BY <1>1 DEF SignalInv
<1>2. CASE UNCHANGED strength /\ upcall'.kind # "signal"
    BY <1>2 DEF SignalInv
<1>3. CASE strength' = NoStrength /\ upcall' = NoUpcall
    BY <1>3 DEF SignalInv, NoUpcall
<1>4. ASSUME NEW m, NEW row, Call(m, row) \/ CallNotListed(m, row)
      PROVE  UNCHANGED <<strength, upcall>>
    BY <1>4 DEF Call, CallNotListed
<1>5. CASE StepPasses \/ StepTruncates \/ OnRequest \/ FreeArguments
    BY <1>1, <1>5 DEF StepPasses, StepTruncates, OnRequest, FreeArguments
<1>6. CASE StepFails
    BY <1>2, <1>6, SMT DEF StepFails
<1>7. ASSUME NEW e, NEW p, Answer(e, p) PROVE UNCHANGED strength /\ upcall'.kind # "signal"
    BY <1>7, SMT DEF Answer
<1>8. ASSUME NEW code, NEW p, Indicate(code, p)
      PROVE  UNCHANGED strength /\ upcall'.kind # "signal"
    BY <1>8, SMT DEF Indicate
<1>9. ASSUME NEW format \in DOMAIN sizeofSignalStrength, NEW m \in Measurements,
             Measure(format, m)
      PROVE  SignalInv'
    <2>1. strength' = [format |-> format, measured |-> m, struct |-> m]
          /\ upcall' = upcall /\ upcall = NoUpcall
        BY <1>9 DEF Measure, Quiet
    <2>2. format \in Formats
        BY SMT DEF sizeofSignalStrength, Formats
    <2>3. m \in Strengths
        <3>1. PICK I, N : I = -INT_MAX..INT_MAX /\ N = 0..INT_MAX
            OBVIOUS
        <3>2. INT_MAX \in Nat
            BY DEF INT_MAX
        <3>3. I \subseteq Int /\ N \subseteq Nat
            BY <3>1, <3>2
        <3>4. m \in [gw : 0..31 \cup {99}, cdma : Nat, evdo : Nat, lte : I, rsrp : I, rsrq : I,
                     cqi : I, timingAdvance : N, rscp : N]
            BY <3>1, MeasurementsAssumption, SMT
        <3> QED
            <4>1. /\ m.lte \in Int /\ m.rsrp \in Int /\ m.rsrq \in Int /\ m.cqi \in Int
                  /\ m.timingAdvance \in Nat /\ m.rscp \in Nat
                <5>1. /\ m.lte \in I /\ m.rsrp \in I /\ m.rsrq \in I /\ m.cqi \in I
                      /\ m.timingAdvance \in N /\ m.rscp \in N
                    BY <3>4, SMT
                <5> QED
                    BY <3>3, <5>1, Zenon
            <4>2. m.gw \in 0..31 \cup {99} /\ m.cdma \in Nat /\ m.evdo \in Nat
                BY <3>4, SMT
            <4>3. m = [gw |-> m.gw, cdma |-> m.cdma, evdo |-> m.evdo, lte |-> m.lte,
                       rsrp |-> m.rsrp, rsrq |-> m.rsrq, cqi |-> m.cqi,
                       timingAdvance |-> m.timingAdvance, rscp |-> m.rscp]
                BY <3>4, SMT
            <4> QED
                BY <4>1, <4>2, <4>3, SMT DEF Strengths
    <2> QED
        BY <2>1, <2>2, <2>3 DEF SignalInv, NoUpcall
<1>10. ASSUME NEW accepted, SignalStrength(accepted) PROVE SignalInv'
    <2>0. PICK m \in Strengths, format \in Formats : \E struct :
              strength = [format |-> format, measured |-> m, struct |-> struct]
              /\ (struct = m \/ (format # "v5" /\ struct = LteFixup(m)))
        BY <1>10 DEF SignalStrength, SignalInv
    <2>1. PICK struct :
              strength = [format |-> format, measured |-> m, struct |-> struct]
              /\ (struct = m \/ (format # "v5" /\ struct = LteFixup(m)))
        BY <2>0
    <2>2. PICK s : s = IF format = "v5" THEN m ELSE LteFixup(m)
        OBVIOUS
    <2>3. s = IF strength.format = "v5" THEN strength.struct ELSE LteFixup(strength.struct)
        BY <2>1, <2>2, FixupIdempotent
    <2>4. strength' = [strength EXCEPT !.struct = s]
          /\ upcall' = [kind |-> "signal",
                        report |-> convertRilSignalStrengthToHal(s,
                                       sizeofSignalStrength[strength.format])]
        BY <1>10, <2>3, Zenon DEF SignalStrength
    <2>5. strength' = [format |-> format, measured |-> m, struct |-> s]
        BY <2>1, <2>4, SMT
    <2>6. upcall'.report = convertRilSignalStrengthToHal(s, sizeofSignalStrength[format])
        BY <2>1, <2>4, SMT
    <2>7. AsMeasured(format, m, upcall'.report)
        BY <2>2, <2>6, ReportRight
    <2> QED
        BY <2>2, <2>5, <2>7, SMT DEF SignalInv
<1>11. ASSUME NEW v, NEW n, DataCallList(v, n)
       PROVE  UNCHANGED strength /\ upcall'.kind # "signal"
    BY <1>11, SMT DEF DataCallList
<1>12. ASSUME NEW kind, NEW rat, NEW n, RegistrationState(kind, rat, n)
       PROVE  UNCHANGED strength /\ upcall'.kind # "signal"
    BY <1>12, SMT DEF RegistrationState
<1>13. CASE Done \/ Restart
    BY <1>3, <1>13 DEF Done, Restart
<1>14. CASE UNCHANGED dispatchVars
    BY <1>1, <1>14 DEF dispatchVars
<1> QED
    BY <1>1, <1>2, <1>4, <1>5, <1>6, <1>7, <1>8, <1>9, <1>10, <1>11, <1>12, <1>13, <1>14
    DEF DispatchNext

(* The signal strength the framework gets is what the modem measured, for  *)
(* every measurement in range and every format of the vendor library,      *)
(* although the structure is fixed up in place and may be converted more   *)
(* than once.                                                              *)
THEOREM SignalsAsMeasured == DispatchSpec => []SignalAsMeasured
<1>1. SignalInv => SignalAsMeasured
    BY Zenon DEF SignalInv, SignalAsMeasured, AsMeasured
<1> QED
    BY <1>1, SignalInitHolds, SignalStep, PTL DEF DispatchSpec
=============================================================================
