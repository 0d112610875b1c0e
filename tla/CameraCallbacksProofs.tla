------------------------ MODULE CameraCallbacksProofs ------------------------
(***************************************************************************)
(* Proofs about CameraCallbacks for every number of threads of the vendor  *)
(* HAL and every bound on the calls: the inductive invariant IInv, and     *)
(* from it the safety properties of the worker and the preview.            *)
(***************************************************************************)
EXTENDS CameraCallbacks, SequenceTheorems, TLAPS

-----------------------------------------------------------------------------
(* The inductive invariant.                                                *)

IsCallback(m) == m.id = "MSG_EXECUTE_CALLBACK"

(* A call of the client is under way only on an open camera; close is past *)
(* the vendor's part when the camera is not open any more.                 *)
CallMatchesDevice ==
  /\ cpc \in {"clear", "vendor", "unblock"} => opened
  /\ cpc \in {"exit", "join"} => ~opened
  /\ cpc = "clear" => op # "set_preview_window"
  /\ cpc = "vendor" /\ op = "set_preview_window" => gPreviewWindow

(* The HAL is not inside a callback once its device is closed.             *)
HalQuiet == ~opened => \A h \in Hal : hpc[h] = "idle"

(* The worker runs while the camera is open and until it has taken the     *)
(* message that close sends it; then nothing is left for it.               *)
WorkerLives ==
  /\ opened \/ cpc = "exit" => wpc # "none"
  /\ \A i \in 1..Len(m_queue) : m_queue[i] = Exit => cpc = "join"
  /\ wpc = "none" => m_queue = <<>>
  /\ ~opened /\ cpc = "idle" => m_queue = <<>> /\ wpc # "user"

(* Callback m was reported before callback p, if one thread reported both. *)
Before(m, p) == IsCallback(m) /\ IsCallback(p) /\ m.hal = p.hal => m.n < p.n

(* Callback m is not newer than the last one its thread has reported, and  *)
(* older than one that the thread is about to report.                      *)
Reported(m) ==
  IsCallback(m) =>
    /\ m.hal \in Hal
    /\ m.n \in Nat
    /\ m.n <= hmsg[m.hal]
    /\ hpc[m.hal] = "add" => m.n < hmsg[m.hal]

(* What was delivered and what waits, taken together, is in order.         *)
InOrder ==
  /\ \A i \in 1..Len(delivered) : IsCallback(delivered[i]) /\ Reported(delivered[i])
  /\ \A i \in 1..Len(m_queue) : Reported(m_queue[i])
  /\ \A i, j \in 1..Len(delivered) : i < j => Before(delivered[i], delivered[j])
  /\ \A i, j \in 1..Len(m_queue) : i < j => Before(m_queue[i], m_queue[j])
  /\ \A i \in 1..Len(delivered), j \in 1..Len(m_queue) : Before(delivered[i], m_queue[j])

(* A thread's number is one it was given, and there from its first on.     *)
NumbersRaised ==
  \A h \in Hal : hmsg[h] <= raised /\ (hpc[h] = "add" => hmsg[h] > 0)

IInv ==
  /\ TypeOK /\ CallMatchesDevice /\ HalQuiet /\ WorkerLives
  /\ InOrder /\ NumbersRaised

-----------------------------------------------------------------------------
(* What a message is.                                                      *)
LEMMA MessageKinds ==
  /\ Exit \in Messages /\ ~IsCallback(Exit)
  /\ \A k \in 1..MaxSets : Update(k) \in Messages /\ ~IsCallback(Update(k)) /\ Update(k) # Exit
  /\ \A h \in Hal, n \in 1..MaxCallbacks :
       /\ Execute(h, n) \in Messages /\ IsCallback(Execute(h, n)) /\ Execute(h, n) # Exit
       /\ Execute(h, n).hal = h /\ Execute(h, n).n = n
  /\ \A m \in Messages :
       /\ m.id = "MSG_UPDATE_CALLBACKS" => m.set \in 1..MaxSets
       /\ IsCallback(m) => m.hal \in Hal /\ m.n \in 1..MaxCallbacks
<1> USE DEF Messages, Exit, Update, Execute, IsCallback
<1>1. Exit \in Messages /\ ~IsCallback(Exit)
  OBVIOUS
<1>2. ASSUME NEW k \in 1..MaxSets
      PROVE  Update(k) \in Messages /\ ~IsCallback(Update(k)) /\ Update(k) # Exit
  <2>1. Update(k).id # Exit.id
    OBVIOUS
  <2> QED
    BY <2>1
<1>3. ASSUME NEW h \in Hal, NEW n \in 1..MaxCallbacks
      PROVE  /\ Execute(h, n) \in Messages /\ IsCallback(Execute(h, n)) /\ Execute(h, n) # Exit
             /\ Execute(h, n).hal = h /\ Execute(h, n).n = n
  <2>1. Execute(h, n).id # Exit.id
    OBVIOUS
  <2> QED
    BY <2>1
<1>4. ASSUME NEW m \in Messages
      PROVE  /\ m.id = "MSG_UPDATE_CALLBACKS" => m.set \in 1..MaxSets
             /\ IsCallback(m) => m.hal \in Hal /\ m.n \in 1..MaxCallbacks
  <2>1. CASE m = Exit
    BY <2>1
  <2>2. ASSUME NEW k \in 1..MaxSets, m = Update(k)
        PROVE  m.set \in 1..MaxSets /\ ~IsCallback(m)
    BY <2>2
  <2>3. ASSUME NEW h \in Hal, NEW n \in 1..MaxCallbacks, m = Execute(h, n)
        PROVE  m.id # "MSG_UPDATE_CALLBACKS" /\ m.hal \in Hal /\ m.n \in 1..MaxCallbacks
    BY <2>3
  <2> QED
    BY <2>1, <2>2, <2>3
<1> HIDE DEF Messages, Exit, Update, Execute, IsCallback
<1> QED
  BY <1>1, <1>2, <1>3, <1>4

LEMMA InitHolds == Init => IInv
<1> SUFFICES ASSUME Init PROVE IInv
  OBVIOUS
<1> USE CameraAssumption DEF Init
<1>1. TypeOK
  <2>1. <<>> \in Seq(Messages) /\ 0 \in 0..MaxSets /\ 0 \in 0..MaxCallbacks /\ 0 \in 0..MaxCalls
    OBVIOUS
  <2>2. hpc \in [Hal -> {"idle", "add", "sleep"}] /\ hmsg \in [Hal -> 0..MaxCallbacks]
    BY <2>1
  <2> QED
    BY <2>1, <2>2, Zenon DEF TypeOK
<1>2. CallMatchesDevice /\ HalQuiet /\ WorkerLives
  BY DEF CallMatchesDevice, HalQuiet, WorkerLives
<1>3. InOrder /\ NumbersRaised
  BY DEF InOrder, NumbersRaised
<1> QED
  BY <1>1, <1>2, <1>3 DEF IInv

(* The effect of a step on the queue and its worker that Push has.         *)
LEMMA PushTypes ==
  ASSUME TypeOK, NEW m \in Messages, Push(m)
  PROVE  m_queue' \in Seq(Messages) /\ wpc' \in {"none", "take", "wait", "user"}
  BY DEF TypeOK, Push, Notified

LEMMA TypeStep ==
  ASSUME IInv, [Next]_vars
  PROVE  TypeOK'
<1> USE CameraAssumption DEF TypeOK, workerVars, halVars, previewVars
<1>0. TypeOK /\ NumbersRaised
  BY DEF IInv
<1>1. ASSUME NEW h \in Hal, RaiseCallback(h) PROVE TypeOK'
  BY <1>0, <1>1 DEF RaiseCallback
<1>2. ASSUME NEW h \in Hal, AddCallback(h) PROVE TypeOK'
  <2>1. Execute(h, hmsg[h]) \in Messages
    BY <1>0, <1>2, MessageKinds DEF AddCallback, NumbersRaised
  <2>2. m_queue' \in Seq(Messages) /\ wpc' \in {"none", "take", "wait", "user"}
    BY <1>0, <1>2, <2>1, PushTypes DEF AddCallback
  <2> QED
    BY <1>0, <1>2, <2>2 DEF AddCallback
<1>3. ASSUME NEW h \in Hal, CallbackReturns(h) PROVE TypeOK'
  BY <1>0, <1>3 DEF CallbackReturns
<1>4. CASE Wait
  BY <1>0, <1>4 DEF Wait
<1>5. CASE Process
  <2>1. Head(m_queue) \in Messages /\ Tail(m_queue) \in Seq(Messages) /\ <<>> \in Seq(Messages)
    BY <1>0, <1>5 DEF Process
  <2>2. m_queue' \in Seq(Messages) /\ wpc' \in {"none", "take", "wait", "user"}
    BY <1>0, <1>5, <2>1 DEF Process
  <2>3. userCb' \in 0..MaxSets
    BY <1>0, <1>5, <2>1, MessageKinds DEF Process
  <2>4. delivered' \in Seq(Messages)
    <3>1. delivered' = delivered \/ delivered' = Append(delivered, Head(m_queue))
      BY <1>5 DEF Process
    <3>2. delivered \in Seq(Messages)
      BY <1>0
    <3> QED
      BY <2>1, <3>1, <3>2, AppendProperties
  <2> QED
    BY <1>0, <1>5, <2>2, <2>3, <2>4 DEF Process
<1>6. CASE UserReturns
  BY <1>0, <1>6 DEF UserReturns
<1>7. CASE camera2_device_open
  <2>1. opened' \in BOOLEAN /\ BlockCbs' \in BOOLEAN
    BY <1>7, Zenon DEF camera2_device_open
  <2>2. userCb' \in 0..MaxSets /\ wpc' \in {"none", "take", "wait", "user"}
    BY <1>0, <1>7 DEF camera2_device_open
  <2> QED
    BY <1>0, <1>7, <2>1, <2>2 DEF camera2_device_open, Begin
<1>8. CASE camera2_set_callbacks
  <2>1. Update(sets + 1) \in Messages
    BY <1>0, <1>8, MessageKinds DEF camera2_set_callbacks
  <2>2. m_queue' \in Seq(Messages) /\ wpc' \in {"none", "take", "wait", "user"}
    BY <1>0, <1>8, <2>1, PushTypes DEF camera2_set_callbacks
  <2> QED
    BY <1>0, <1>8, <2>2 DEF camera2_set_callbacks, Begin
<1>9. CASE camera2_start_preview
  BY <1>0, <1>9 DEF camera2_start_preview, Begin
<1>10. ASSUME NEW w \in BOOLEAN, camera2_set_preview_window(w) PROVE TypeOK'
  BY <1>0, <1>10 DEF camera2_set_preview_window, Begin
<1>11. CASE camera2_stop_preview \/ camera2_cancel_auto_focus
  <2>1. BlockCbs' \in BOOLEAN
    BY <1>11, Zenon DEF camera2_stop_preview, camera2_cancel_auto_focus
  <2> QED
    BY <1>0, <1>11, <2>1 DEF camera2_stop_preview, camera2_cancel_auto_focus, Begin
<1>12. CASE camera2_auto_focus \/ camera2_pass_through \/ camera2_device_close
  BY <1>0, <1>12 DEF camera2_auto_focus, camera2_pass_through, camera2_device_close, Begin
<1>13. CASE ClearCallbacks
  BY <1>0, <1>13 DEF ClearCallbacks, Notified
<1>14. CASE VendorCall
  <2>1. preview' \in BOOLEAN /\ cpc' \in {"idle", "unblock", "exit"}
    BY <1>0, <1>14 DEF VendorCall
  <2> QED
    BY <1>0, <1>14, <2>1 DEF VendorCall
<1>15. CASE Unblock
  BY <1>0, <1>15 DEF Unblock
<1>16. CASE ExitThread
  <2>1. m_queue' \in Seq(Messages) /\ wpc' \in {"none", "take", "wait", "user"}
    BY <1>0, <1>16, PushTypes, MessageKinds DEF ExitThread
  <2> QED
    BY <1>0, <1>16, <2>1 DEF ExitThread
<1>17. CASE JoinThread
  BY <1>0, <1>17 DEF JoinThread
<1>18. CASE UNCHANGED vars
  BY <1>0, <1>18 DEF vars
<1> QED
  BY <1>1, <1>2, <1>3, <1>4, <1>5, <1>6, <1>7, <1>8, <1>9, <1>10, <1>11, <1>12, <1>13, <1>14,
     <1>15, <1>16, <1>17, <1>18
     DEF Next, ClientCall, ClientStep, WorkerStep, HalStep

LEMMA CallMatchesDeviceStep ==
  ASSUME IInv, [Next]_vars
  PROVE  CallMatchesDevice'
<1> USE DEF CallMatchesDevice, previewVars
<1>0. CallMatchesDevice /\ TypeOK
  BY DEF IInv
<1>1. CASE UNCHANGED <<opened, cpc, op, gPreviewWindow>>
  BY <1>0, <1>1
<1>2. CASE ClientCall
  <2>1. ASSUME NEW w \in BOOLEAN, camera2_set_preview_window(w) PROVE CallMatchesDevice'
    BY <1>0, <2>1 DEF camera2_set_preview_window, Begin
  <2>2. CASE camera2_device_open \/ camera2_set_callbacks \/ camera2_start_preview
    BY <1>0, <2>2 DEF camera2_device_open, camera2_set_callbacks, camera2_start_preview, Begin
  <2>3. CASE camera2_stop_preview \/ camera2_auto_focus \/ camera2_cancel_auto_focus
             \/ camera2_pass_through \/ camera2_device_close
    BY <1>0, <2>3 DEF camera2_stop_preview, camera2_auto_focus, camera2_cancel_auto_focus,
       camera2_pass_through, camera2_device_close, Begin
  <2> QED
    BY <1>2, <2>1, <2>2, <2>3 DEF ClientCall
<1>3. CASE ClearCallbacks
  BY <1>0, <1>3 DEF ClearCallbacks
<1>4. CASE VendorCall
  BY <1>0, <1>4 DEF VendorCall
<1>5. CASE Unblock \/ ExitThread \/ JoinThread
  BY <1>0, <1>5 DEF Unblock, ExitThread, JoinThread
<1> QED
  BY <1>1, <1>2, <1>3, <1>4, <1>5 DEF Next, ClientStep, WorkerStep, HalStep, Wait, Process,
     UserReturns, RaiseCallback, AddCallback, CallbackReturns, vars

LEMMA HalQuietStep ==
  ASSUME IInv, [Next]_vars
  PROVE  HalQuiet'
<1> USE DEF HalQuiet, halVars
<1>0. HalQuiet /\ CallMatchesDevice /\ TypeOK
  BY DEF IInv
<1>1. CASE UNCHANGED <<opened, hpc>>
  BY <1>0, <1>1
<1>2. ASSUME NEW h \in Hal, RaiseCallback(h) \/ HalStep(h) PROVE HalQuiet'
  <2>1. opened /\ opened' = opened
    BY <1>0, <1>2 DEF RaiseCallback, HalStep, AddCallback, CallbackReturns
  <2> QED
    BY <2>1
<1>3. CASE camera2_device_open
  BY <1>0, <1>3 DEF camera2_device_open
<1>4. CASE VendorCall
  BY <1>0, <1>4 DEF VendorCall
<1> QED
  BY <1>1, <1>2, <1>3, <1>4 DEF Next, ClientCall, ClientStep, WorkerStep, Wait, Process,
     UserReturns, camera2_set_callbacks, camera2_start_preview, camera2_set_preview_window,
     camera2_stop_preview, camera2_auto_focus, camera2_cancel_auto_focus, camera2_pass_through,
     camera2_device_close, ClearCallbacks, Unblock, ExitThread, JoinThread, vars

(* A message at the end of the queue.                                      *)
LEMMA PushEffect ==
  ASSUME TypeOK, NEW m \in Messages, Push(m)
  PROVE  /\ Len(m_queue') = Len(m_queue) + 1
         /\ \A i \in 1..Len(m_queue') :
              /\ i <= Len(m_queue) => i \in 1..Len(m_queue) /\ m_queue'[i] = m_queue[i]
              /\ i > Len(m_queue) => i = Len(m_queue) + 1 /\ m_queue'[i] = m
         /\ wpc' # "wait"
         /\ wpc' = "none" <=> wpc = "none"
         /\ wpc' = "user" <=> wpc = "user"
<1>1. m_queue \in Seq(Messages) /\ m_queue' = Append(m_queue, m)
  BY DEF TypeOK, Push
<1>2. /\ wpc' # "wait" /\ (wpc' = "none" <=> wpc = "none")
      /\ (wpc' = "user" <=> wpc = "user")
  BY DEF TypeOK, Push, Notified
<1> QED
  BY <1>1, <1>2

LEMMA WorkerLivesStep ==
  ASSUME IInv, [Next]_vars
  PROVE  WorkerLives'
<1> USE DEF WorkerLives, workerVars
<1>0. WorkerLives /\ HalQuiet /\ CallMatchesDevice /\ TypeOK
  BY DEF IInv
<1>1. CASE UNCHANGED <<opened, m_queue, wpc, cpc>>
  BY <1>0, <1>1
<1>2. ASSUME NEW h \in Hal, AddCallback(h) PROVE WorkerLives'
  <2>1. opened /\ UNCHANGED <<opened, cpc>> /\ hmsg[h] \in 1..MaxCallbacks
    BY <1>0, <1>2, CameraAssumption DEF HalQuiet, AddCallback, IInv, NumbersRaised, TypeOK
  <2>2. Execute(h, hmsg[h]) \in Messages /\ Execute(h, hmsg[h]) # Exit
    BY <2>1, MessageKinds
  <2>3. Push(Execute(h, hmsg[h]))
    BY <1>2 DEF AddCallback
  <2> QED
    BY <1>0, <2>1, <2>2, <2>3, PushEffect
<1>3. CASE Wait \/ UserReturns
  BY <1>0, <1>3 DEF Wait, UserReturns
<1>4. CASE Process
  <2>1. UNCHANGED <<opened, cpc>> /\ wpc = "take" /\ m_queue # <<>>
    BY <1>4 DEF Process
  <2>2. m_queue \in Seq(Messages) /\ Len(m_queue) \in Nat \ {0} /\ Head(m_queue) = m_queue[1]
    BY <1>0, <2>1 DEF TypeOK
  <2>3. CASE m_queue' = Tail(m_queue) /\ wpc' \in {"take", "user"}
    <3>1. /\ Len(m_queue') = Len(m_queue) - 1
          /\ \A i \in 1..Len(m_queue') : i + 1 \in 1..Len(m_queue) /\ m_queue'[i] = m_queue[i + 1]
      BY <2>2, <2>3
    <3>2. ~(~opened /\ cpc = "idle")
      BY <1>0, <2>1
    <3> QED
      BY <1>0, <2>1, <2>3, <3>1, <3>2
  <2>4. CASE Head(m_queue) = Exit /\ m_queue' = <<>> /\ wpc' = "none"
    <3>1. cpc = "join" /\ ~opened
      BY <1>0, <2>2, <2>4 DEF CallMatchesDevice
    <3> QED
      BY <2>1, <2>4, <3>1
  <2> QED
    BY <2>1, <2>3, <2>4, <1>4 DEF Process
<1>5. CASE camera2_device_open
  <2>1. m_queue = <<>> /\ m_queue' = <<>> /\ cpc' = "idle" /\ wpc' # "none" /\ wpc' # "user"
    BY <1>0, <1>5 DEF camera2_device_open, Begin
  <2> QED
    BY <2>1
<1>6. CASE camera2_set_callbacks
  <2>1. opened /\ opened' = opened /\ cpc = "idle" /\ cpc' = "vendor" /\ sets + 1 \in 1..MaxSets
    BY <1>0, <1>6, CameraAssumption DEF camera2_set_callbacks, Begin, TypeOK
  <2>2. Update(sets + 1) \in Messages /\ Update(sets + 1) # Exit
    BY <2>1, MessageKinds
  <2>3. Push(Update(sets + 1))
    BY <1>6 DEF camera2_set_callbacks
  <2> QED
    BY <1>0, <2>1, <2>2, <2>3, PushEffect
<1>7. ASSUME opened, cpc = "idle", UNCHANGED <<opened, m_queue, wpc>> PROVE WorkerLives'
  BY <1>0, <1>7
<1>8. CASE ClearCallbacks
  <2>1. opened /\ opened' = opened /\ m_queue' = <<>> /\ wpc' # "none"
    BY <1>0, <1>8 DEF ClearCallbacks, CallMatchesDevice, Notified
  <2> QED
    BY <2>1
<1>9. CASE VendorCall
  <2>1. opened /\ UNCHANGED <<m_queue, wpc>> /\ cpc = "vendor"
    BY <1>0, <1>9 DEF VendorCall, CallMatchesDevice
  <2>2. opened' \/ cpc' = "exit"
    BY <1>9 DEF VendorCall
  <2> QED
    BY <1>0, <2>1, <2>2
<1>10. CASE Unblock
  BY <1>0, <1>10 DEF Unblock, CallMatchesDevice
<1>11. CASE ExitThread
  <2>1. cpc = "exit" /\ cpc' = "join" /\ ~opened /\ opened' = opened
    BY <1>0, <1>11 DEF ExitThread, CallMatchesDevice
  <2>2. wpc' # "none"
    BY <1>0, <1>11, <2>1, PushEffect, MessageKinds DEF ExitThread
  <2> QED
    BY <2>1, <2>2
<1>12. CASE JoinThread
  BY <1>0, <1>12 DEF JoinThread, CallMatchesDevice
<1> QED
  BY <1>1, <1>2, <1>3, <1>4, <1>5, <1>6, <1>7, <1>8, <1>9, <1>10, <1>11, <1>12
     DEF Next, ClientCall, ClientStep, WorkerStep, HalStep, RaiseCallback, CallbackReturns,
     camera2_start_preview, camera2_set_preview_window, camera2_stop_preview,
     camera2_auto_focus, camera2_cancel_auto_focus, camera2_pass_through,
     camera2_device_close, Begin, vars

LEMMA NumbersRaisedStep ==
  ASSUME IInv, [Next]_vars
  PROVE  NumbersRaised'
<1> USE DEF NumbersRaised, halVars
<1>0. NumbersRaised /\ TypeOK
  BY DEF IInv
<1>1. CASE UNCHANGED <<hpc, hmsg, raised>>
  BY <1>0, <1>1
<1>2. ASSUME NEW h \in Hal, RaiseCallback(h) PROVE NumbersRaised'
  BY <1>0, <1>2, CameraAssumption DEF RaiseCallback, TypeOK
<1>3. ASSUME NEW h \in Hal, HalStep(h) PROVE NumbersRaised'
  BY <1>0, <1>3 DEF HalStep, AddCallback, CallbackReturns, TypeOK
<1> QED
  BY <1>1, <1>2, <1>3 DEF Next, ClientCall, ClientStep, WorkerStep, Wait, Process,
     UserReturns, camera2_device_open, camera2_set_callbacks, camera2_start_preview,
     camera2_set_preview_window, camera2_stop_preview, camera2_auto_focus,
     camera2_cancel_auto_focus, camera2_pass_through, camera2_device_close,
     ClearCallbacks, VendorCall, Unblock, ExitThread, JoinThread, vars

(* A message behind all others: it keeps the order if it is newer than     *)
(* whatever its thread reported before.                                    *)
LEMMA PushInOrder ==
  ASSUME IInv, NEW m \in Messages, Push(m), UNCHANGED delivered,
         Reported(m)',
         \A x : Reported(x) => Reported(x)' /\ Before(x, m)
  PROVE  InOrder'
<1>0. InOrder /\ TypeOK
  BY DEF IInv
<1>1. /\ Len(m_queue') = Len(m_queue) + 1
      /\ \A i \in 1..Len(m_queue') :
           /\ i <= Len(m_queue) => i \in 1..Len(m_queue) /\ m_queue'[i] = m_queue[i]
           /\ i > Len(m_queue) => i = Len(m_queue) + 1 /\ m_queue'[i] = m
  BY <1>0, PushEffect
<1>2. Len(m_queue) \in Nat
  BY <1>0 DEF TypeOK
<1>3. \A i \in 1..Len(delivered) : IsCallback(delivered[i]) /\ Reported(delivered[i])
  BY <1>0 DEF InOrder
<1>4. \A i \in 1..Len(m_queue) : Reported(m_queue[i])
  BY <1>0 DEF InOrder
<1>5. ASSUME NEW i \in 1..Len(delivered') PROVE (IsCallback(delivered[i]) /\ Reported(delivered[i]))'
  <2>1. PICK x : x = delivered[i]
    OBVIOUS
  <2>2. Reported(x)' /\ delivered'[i] = x /\ IsCallback(x)
    BY <1>3, <2>1
  <2> QED
    BY <2>2 DEF Reported
<1>6. ASSUME NEW i \in 1..Len(m_queue') PROVE Reported(m_queue[i])'
  <2>1. PICK x : x = m_queue'[i]
    OBVIOUS
  <2>2. Reported(x)'
    BY <2>1, <1>1, <1>2, <1>4
  <2> QED
    BY <2>1, <2>2 DEF Reported
<1>7. \A i, j \in 1..Len(m_queue') : i < j => Before(m_queue'[i], m_queue'[j])
  BY <1>0, <1>1, <1>2, <1>4 DEF InOrder
<1>8. \A i \in 1..Len(delivered'), j \in 1..Len(m_queue') : Before(delivered'[i], m_queue'[j])
  BY <1>0, <1>1, <1>2, <1>3 DEF InOrder
<1>9. \A i, j \in 1..Len(delivered') : i < j => Before(delivered'[i], delivered'[j])
  BY <1>0 DEF InOrder
<1> QED
  BY <1>5, <1>6, <1>7, <1>8, <1>9 DEF InOrder, Before

LEMMA InOrderStep ==
  ASSUME IInv, [Next]_vars
  PROVE  InOrder'
<1> USE DEF workerVars, halVars
<1>0. InOrder /\ NumbersRaised /\ TypeOK
  BY DEF IInv
<1>1. ASSUME UNCHANGED <<delivered, hmsg>>, m_queue' = m_queue \/ m_queue' = <<>>,
             \A h \in Hal : hpc'[h] = "add" => hpc[h] = "add"
      PROVE  InOrder'
  <2>1. CASE m_queue' = m_queue
    BY <1>0, <1>1, <2>1 DEF InOrder, Before, Reported, IsCallback
  <2>2. CASE m_queue' = <<>>
    BY <1>0, <1>1, <2>2 DEF InOrder, Before, Reported, IsCallback
  <2> QED
    BY <1>1, <2>1, <2>2
<1>2. ASSUME NEW h \in Hal, RaiseCallback(h) PROVE InOrder'
  <2>1. UNCHANGED <<delivered, m_queue>>
    BY <1>2 DEF RaiseCallback
  <2>2. ASSUME NEW g \in Hal
        PROVE  /\ hmsg'[g] \in Nat /\ hmsg[g] \in Nat /\ hmsg[g] <= hmsg'[g]
               /\ hmsg'[g] = hmsg[g] => hpc'[g] = hpc[g]
    BY <1>0, <1>2, CameraAssumption DEF RaiseCallback, TypeOK, NumbersRaised
  <2>3. ASSUME NEW x, Reported(x) PROVE Reported(x)'
    BY <2>2, <2>3 DEF Reported, IsCallback
  <2> QED
    BY <1>0, <2>1, <2>3 DEF InOrder, Before, Reported, IsCallback
<1>3. ASSUME NEW h \in Hal, AddCallback(h) PROVE InOrder'
  <2>1. hmsg[h] \in 1..MaxCallbacks /\ hpc[h] = "add"
    BY <1>0, <1>3, CameraAssumption DEF AddCallback, NumbersRaised, TypeOK
  <2>2. PICK m : m = Execute(h, hmsg[h])
    OBVIOUS
  <2>3. m \in Messages /\ IsCallback(m) /\ m.hal = h /\ m.n = hmsg[h]
    BY <2>1, <2>2, MessageKinds
  <2>4. Push(m) /\ UNCHANGED <<delivered, hmsg>> /\ hpc' = [hpc EXCEPT ![h] = "sleep"]
    BY <1>3, <2>2 DEF AddCallback
  <2>5. Reported(m)'
    BY <1>0, <2>1, <2>3, <2>4, CameraAssumption DEF Reported, TypeOK
  <2>6. ASSUME NEW x, Reported(x) PROVE Reported(x)' /\ Before(x, m)
    BY <1>0, <2>1, <2>3, <2>4, <2>6 DEF Reported, Before, TypeOK, IsCallback
  <2> QED
    BY <2>3, <2>4, <2>5, <2>6, PushInOrder
<1>4. ASSUME NEW m \in Messages, ~IsCallback(m), Push(m), UNCHANGED <<delivered, hmsg, hpc>>
      PROVE  InOrder'
  <2>1. Reported(m)'
    BY <1>4 DEF Reported, IsCallback
  <2>2. ASSUME NEW x, Reported(x) PROVE Reported(x)' /\ Before(x, m)
    BY <1>4, <2>2 DEF Reported, Before, IsCallback
  <2> QED
    BY <1>4, <2>1, <2>2, PushInOrder
<1>5. CASE camera2_set_callbacks
  <2>1. sets + 1 \in 1..MaxSets
    BY <1>0, <1>5, CameraAssumption DEF camera2_set_callbacks, TypeOK
  <2>2. PICK m : m = Update(sets + 1)
    OBVIOUS
  <2> QED
    BY <1>4, <1>5, <2>1, <2>2, MessageKinds DEF camera2_set_callbacks
<1>6. CASE ExitThread
  <2>1. PICK m : m = Exit
    OBVIOUS
  <2> QED
    BY <1>4, <1>6, <2>1, MessageKinds DEF ExitThread
<1>7. CASE Process
  <2>1. UNCHANGED <<hmsg, hpc>> /\ m_queue # <<>>
    BY <1>7 DEF Process
  <2>2. /\ m_queue \in Seq(Messages) /\ delivered \in Seq(Messages)
        /\ Len(m_queue) \in Nat \ {0} /\ Head(m_queue) = m_queue[1] /\ Len(delivered) \in Nat
    BY <1>0, <2>1 DEF TypeOK
  <2>3. CASE m_queue' = <<>> /\ delivered' = delivered
    BY <1>1, <2>1, <2>3
  <2>4. CASE m_queue' = Tail(m_queue)
    <3>1. /\ Len(m_queue') = Len(m_queue) - 1
          /\ \A i \in 1..Len(m_queue') : i + 1 \in 1..Len(m_queue) /\ m_queue'[i] = m_queue[i + 1]
      BY <2>2, <2>4
    <3>2. \A x : Reported(x)' <=> Reported(x)
      BY <2>1 DEF Reported, IsCallback
    <3>3. \A i \in 1..Len(m_queue') : Reported(m_queue'[i])
      BY <1>0, <3>1 DEF InOrder
    <3>4. \A i, j \in 1..Len(m_queue') : i < j => Before(m_queue'[i], m_queue'[j])
      BY <1>0, <2>2, <3>1 DEF InOrder
    <3>5. CASE delivered' = delivered
      <4>1. \A i \in 1..Len(delivered'), j \in 1..Len(m_queue') : Before(delivered'[i], m_queue'[j])
        BY <1>0, <3>1, <3>5 DEF InOrder
      <4> QED
        BY <1>0, <2>1, <3>3, <3>4, <3>5, <4>1 DEF InOrder, Reported, Before, IsCallback
    <3>6. CASE IsCallback(m_queue[1]) /\ delivered' = Append(delivered, m_queue[1])
      <4>1. /\ Len(delivered') = Len(delivered) + 1
            /\ \A i \in 1..Len(delivered') :
                 /\ i <= Len(delivered) => i \in 1..Len(delivered) /\ delivered'[i] = delivered[i]
                 /\ i > Len(delivered) => i = Len(delivered) + 1 /\ delivered'[i] = m_queue[1]
        BY <2>2, <3>6
      <4>2. \A i \in 1..Len(delivered') : IsCallback(delivered'[i]) /\ Reported(delivered'[i])
        BY <1>0, <2>2, <3>6, <4>1 DEF InOrder
      <4>3. \A i, j \in 1..Len(delivered') : i < j => Before(delivered'[i], delivered'[j])
        BY <1>0, <2>2, <4>1 DEF InOrder
      <4>4. \A i \in 1..Len(delivered'), j \in 1..Len(m_queue') : Before(delivered'[i], m_queue'[j])
        BY <1>0, <2>2, <3>1, <4>1 DEF InOrder
      <4> QED
        BY <2>1, <3>3, <3>4, <4>2, <4>3, <4>4 DEF InOrder, Reported, Before, IsCallback
    <3> QED
      BY <1>7, <2>2, <3>5, <3>6 DEF Process, IsCallback
  <2> QED
    BY <1>7, <2>3, <2>4 DEF Process
<1>8. ASSUME NEW h \in Hal, CallbackReturns(h) PROVE InOrder'
  BY <1>0, <1>1, <1>8 DEF CallbackReturns, TypeOK
<1>9. CASE ClearCallbacks
  BY <1>1, <1>9 DEF ClearCallbacks
<1>10. CASE UNCHANGED <<delivered, m_queue, hpc, hmsg>>
  BY <1>1, <1>10
<1> QED
  BY <1>2, <1>3, <1>5, <1>6, <1>7, <1>8, <1>9, <1>10 DEF Next, ClientCall, ClientStep,
     WorkerStep, HalStep, Wait, UserReturns, camera2_device_open, camera2_start_preview,
     camera2_set_preview_window, camera2_stop_preview, camera2_auto_focus,
     camera2_cancel_auto_focus, camera2_pass_through, camera2_device_close,
     VendorCall, Unblock, JoinThread, vars

-----------------------------------------------------------------------------
LEMMA Invariance == Spec => []IInv
<1>1. Init => IInv
  BY InitHolds
<1>2. IInv /\ [Next]_vars => IInv'
  BY TypeStep, CallMatchesDeviceStep, HalQuietStep, WorkerLivesStep, InOrderStep,
     NumbersRaisedStep DEF IInv
<1> QED
  BY <1>1, <1>2, PTL DEF Spec

(* Every variable of the wrapper, its worker and the HAL keeps its type.   *)
THEOREM CameraTypes == Spec => []TypeOK
<1>1. IInv => TypeOK
  BY DEF IInv
<1> QED
  BY <1>1, Invariance, PTL

(* After camera2_device_close has returned, and after an open that failed, *)
(* the worker is not inside a callback of the client.                      *)
THEOREM NoCallbackAfterCloseHolds == Spec => []NoCallbackAfterClose
<1>1. IInv => NoCallbackAfterClose
  BY DEF IInv, WorkerLives, NoCallbackAfterClose
<1> QED
  BY <1>1, Invariance, PTL

(* The worker delivers what each HAL thread reports in the order it was    *)
(* reported and nothing twice, whatever ClearCallbacks and ExitThread drop *)
(* in between.                                                             *)
THEOREM DeliveredInOrderHolds == Spec => []DeliveredInOrder
<1>1. IInv => DeliveredInOrder
  BY DEF IInv, InOrder, Before, DeliveredInOrder
<1> QED
  BY <1>1, Invariance, PTL

(* A deferred start_preview ends by starting the preview on a window that  *)
(* is set, or with the camera closed.                                      *)
THEOREM DeferredPreviewStartsHolds == Spec => DeferredPreviewStarts
<1> DEFINE Kept == gPreviewStartDeferred /\ ~gPreviewStartDeferred'
                     => (gPreviewWindow' /\ preview') \/ ~opened
<1>1. IInv /\ [Next]_vars => [Kept]_vars
  <2> SUFFICES ASSUME IInv, Next, gPreviewStartDeferred, ~gPreviewStartDeferred'
               PROVE  (gPreviewWindow' /\ preview') \/ ~opened
    OBVIOUS
  <2>1. CASE VendorCall
    <3>1. op = "set_preview_window" /\ cpc = "vendor" /\ gPreviewWindow' = gPreviewWindow
      BY <2>1 DEF VendorCall
    <3>2. gPreviewWindow
      BY <3>1 DEF IInv, CallMatchesDevice
    <3>3. preview' = (preview \/ gPreviewStartDeferred)
      BY <2>1, <3>1 DEF VendorCall
    <3> QED
      BY <3>1, <3>2, <3>3
  <2>2. CASE ExitThread
    BY <2>2 DEF ExitThread, IInv, CallMatchesDevice
  <2>3. CASE camera2_start_preview
    BY <2>3 DEF camera2_start_preview
  <2>4. CASE UNCHANGED gPreviewStartDeferred
    BY <2>4
  <2> QED
    BY <2>1, <2>2, <2>3, <2>4 DEF Next, ClientCall, ClientStep, WorkerStep, HalStep, Wait,
       Process, UserReturns, RaiseCallback, AddCallback, CallbackReturns, camera2_device_open,
       camera2_set_callbacks, camera2_set_preview_window, camera2_stop_preview,
       camera2_auto_focus, camera2_cancel_auto_focus, camera2_pass_through,
       camera2_device_close, ClearCallbacks, Unblock, JoinThread, previewVars
<1> QED
  BY <1>1, Invariance, PTL DEF Spec, DeferredPreviewStarts
=============================================================================
