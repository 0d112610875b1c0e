--------------------------- MODULE CameraCallbacks ---------------------------
(***************************************************************************)
(* The camera wrapper: Camera2Wrapper.cpp puts itself between the camera   *)
(* client and Samsung's HAL, and CallbackWorkerThread.cpp takes the HAL's  *)
(* callbacks off the HAL's threads so that they cannot wait for a client   *)
(* that is itself waiting for the HAL.                                     *)
(*                                                                         *)
(* One camera is open at a time, and the client makes one call at a time.  *)
(* Time is left out: a message may be found stale (5 ms) or not, and the   *)
(* guard of cancel_auto_focus (500 ms), once set, may have run out or not. *)
(***************************************************************************)
EXTENDS Naturals, Sequences

CONSTANTS
  Hal,          \* threads of the vendor HAL that make callbacks
  MaxSets,      \* bound: calls of set_callbacks
  MaxCallbacks, \* bound: callbacks of the HAL
  MaxCalls      \* bound: calls of the client

ASSUME CameraAssumption ==
  /\ MaxSets \in Nat
  /\ MaxCallbacks \in Nat
  /\ MaxCalls \in Nat

VARIABLES
  opened,               \* the vendor device is open
  m_queue,              \* messages to the worker
  wpc,                  \* the worker: none, take, wait (for m_cv), user
  userCb,               \* its UserNotifyCb and UserDataCb: a set_callbacks call, 0 for NULL
  BlockCbs,
  CancelAFTimeGuard,    \* auto_focus has set the guard
  gPreviewWindow,       \* a window is set
  gPreviewStartDeferred,
  preview,              \* the vendor has been told to start its preview
  cpc, op,              \* the client: position in its call, and the call
  sets,                 \* calls of set_callbacks so far
  hpc,                  \* the HAL threads: idle, add, sleep
  hmsg,                 \* number of the callback a HAL thread makes
  raised,               \* callbacks so far
  delivered,            \* messages given to the client, in order
  calls                 \* client calls so far

workerVars == <<m_queue, wpc, userCb, delivered>>
halVars    == <<hpc, hmsg, raised>>
previewVars == <<gPreviewWindow, gPreviewStartDeferred, preview>>
vars == <<opened, workerVars, BlockCbs, CancelAFTimeGuard, previewVars, cpc, op,
          sets, halVars, calls>>

Exit            == [id |-> "MSG_EXIT_THREAD"]
Execute(h, n)   == [id |-> "MSG_EXECUTE_CALLBACK", hal |-> h, n |-> n]
Update(k)       == [id |-> "MSG_UPDATE_CALLBACKS", set |-> k]

Messages == {Exit} \cup {Update(k) : k \in 1..MaxSets}
              \cup {Execute(h, n) : h \in Hal, n \in 1..MaxCallbacks}

(* m_cv.notify_one: the worker is the only thread that waits.              *)
Notified == IF wpc = "wait" THEN "take" ELSE wpc

Push(msg) == m_queue' = Append(m_queue, msg) /\ wpc' = Notified

-----------------------------------------------------------------------------
(* WrappedNotifyCb and WrappedDataCb on a HAL thread: the test of BlockCbs,*)
(* AddCallback, and the sleep that slows the HAL down.                     *)

RaiseCallback(h) ==
  /\ opened
  /\ sets > 0
  /\ hpc[h] = "idle"
  /\ raised < MaxCallbacks
  /\ raised' = raised + 1
  /\ hmsg' = [hmsg EXCEPT ![h] = raised + 1]
  /\ hpc' = [hpc EXCEPT ![h] = IF BlockCbs THEN "idle" ELSE "add"]
  /\ UNCHANGED <<opened, workerVars, BlockCbs, CancelAFTimeGuard, previewVars, cpc, op,
                 sets, calls>>

(* Fault: no worker; the callback runs on the HAL's thread and waits for   *)
(* the client.                                                             *)
AddCallback_Direct(h) ==
  /\ hpc[h] = "add"
  /\ cpc = "idle"
  /\ delivered' = Append(delivered, Execute(h, hmsg[h]))
  /\ hpc' = [hpc EXCEPT ![h] = "sleep"]
  /\ UNCHANGED <<opened, m_queue, wpc, userCb, BlockCbs, CancelAFTimeGuard, previewVars,
                 cpc, op, sets, hmsg, raised, calls>>

AddCallback(h) ==
  /\ hpc[h] = "add"
  /\ Push(Execute(h, hmsg[h]))
  /\ hpc' = [hpc EXCEPT ![h] = "sleep"]
  /\ UNCHANGED <<opened, userCb, delivered, BlockCbs, CancelAFTimeGuard, previewVars,
                 cpc, op, sets, hmsg, raised, calls>>

CallbackReturns(h) ==
  /\ hpc[h] = "sleep"
  /\ hpc' = [hpc EXCEPT ![h] = "idle"]
  /\ UNCHANGED <<opened, workerVars, BlockCbs, CancelAFTimeGuard, previewVars, cpc, op,
                 sets, hmsg, raised, calls>>

-----------------------------------------------------------------------------
(* CallbackWorkerThread::Process.                                          *)

Wait ==
  /\ wpc = "take"
  /\ m_queue = <<>>
  /\ wpc' = "wait"
  /\ UNCHANGED <<opened, m_queue, userCb, delivered, BlockCbs, CancelAFTimeGuard, previewVars,
                 cpc, op, sets, halVars, calls>>

(* Fault: the message is handled and not popped.                           *)
Process_NoPop ==
  /\ wpc = "take"
  /\ m_queue # <<>>
  /\ LET msg == Head(m_queue)
     IN  IF msg.id = "MSG_EXECUTE_CALLBACK" /\ userCb # 0
         THEN delivered' = Append(delivered, msg) /\ UNCHANGED <<m_queue, userCb>>
         ELSE /\ userCb' = IF msg.id = "MSG_UPDATE_CALLBACKS" THEN msg.set ELSE userCb
              /\ m_queue' = Tail(m_queue)
              /\ UNCHANGED delivered
  /\ wpc' = wpc
  /\ UNCHANGED <<opened, BlockCbs, CancelAFTimeGuard, previewVars, cpc, op, sets, halVars,
                 calls>>

(* One message: a callback is made unless it is stale or there is none to  *)
(* make; an exit drops what is left in the queue.                          *)
Process ==
  /\ wpc = "take"
  /\ m_queue # <<>>
  /\ LET msg == Head(m_queue)
     IN  \/ /\ msg.id = "MSG_EXECUTE_CALLBACK"
            /\ userCb # 0
            /\ delivered' = Append(delivered, msg)
            /\ wpc' = "user"
            /\ m_queue' = Tail(m_queue)
            /\ UNCHANGED userCb
         \/ /\ msg.id = "MSG_EXECUTE_CALLBACK"
            /\ m_queue' = Tail(m_queue)
            /\ UNCHANGED <<wpc, userCb, delivered>>
         \/ /\ msg.id = "MSG_UPDATE_CALLBACKS"
            /\ userCb' = msg.set
            /\ m_queue' = Tail(m_queue)
            /\ UNCHANGED <<wpc, delivered>>
         \/ /\ msg = Exit
            /\ m_queue' = <<>>
            /\ wpc' = "none"
            /\ UNCHANGED <<userCb, delivered>>
  /\ UNCHANGED <<opened, BlockCbs, CancelAFTimeGuard, previewVars, cpc, op, sets, halVars,
                 calls>>

(* The client "stops processing callbacks until their calling function     *)
(* completes": its callback returns when it makes no call.                 *)
UserReturns ==
  /\ wpc = "user"
  /\ cpc = "idle"
  /\ wpc' = "take"
  /\ UNCHANGED <<opened, m_queue, userCb, delivered, BlockCbs, CancelAFTimeGuard, previewVars,
                 cpc, op, sets, halVars, calls>>

-----------------------------------------------------------------------------
(* The client's calls.  Begin(o, l) starts call o at position l.           *)

Begin(o, l) ==
  /\ cpc = "idle"
  /\ calls < MaxCalls
  /\ calls' = calls + 1
  /\ op' = o
  /\ cpc' = l

(* camera2_device_open: the worker is created, if there is none, before    *)
(* anything can fail.                                                      *)
camera2_device_open ==
  /\ ~opened
  /\ Begin("open", "idle")
  /\ wpc' = IF wpc = "none" THEN "take" ELSE wpc
  /\ userCb' = IF wpc = "none" THEN 0 ELSE userCb
  /\ BlockCbs' = FALSE
  /\ opened' \in BOOLEAN
  /\ UNCHANGED <<m_queue, delivered, CancelAFTimeGuard, previewVars, sets, halVars>>

camera2_set_callbacks ==
  /\ opened
  /\ sets < MaxSets
  /\ Begin("set_callbacks", "vendor")
  /\ sets' = sets + 1
  /\ Push(Update(sets + 1))
  /\ UNCHANGED <<opened, userCb, delivered, BlockCbs, CancelAFTimeGuard, previewVars, halVars>>

camera2_start_preview ==
  /\ opened
  /\ Begin("start_preview", IF gPreviewWindow THEN "vendor" ELSE "idle")
  /\ gPreviewStartDeferred' = (gPreviewStartDeferred \/ ~gPreviewWindow)
  /\ UNCHANGED <<opened, workerVars, BlockCbs, CancelAFTimeGuard, gPreviewWindow, preview,
                 sets, halVars>>

camera2_set_preview_window(w) ==
  /\ opened
  /\ Begin("set_preview_window", IF w THEN "vendor" ELSE "idle")
  /\ gPreviewWindow' = w
  /\ UNCHANGED <<opened, workerVars, BlockCbs, CancelAFTimeGuard, gPreviewStartDeferred,
                 preview, sets, halVars>>

camera2_stop_preview ==
  /\ opened
  /\ Begin("stop_preview", "clear")
  /\ BlockCbs' = TRUE
  /\ UNCHANGED <<opened, workerVars, CancelAFTimeGuard, previewVars, sets, halVars>>

camera2_auto_focus ==
  /\ opened
  /\ Begin("auto_focus", "clear")
  /\ UNCHANGED <<opened, workerVars, BlockCbs, CancelAFTimeGuard, previewVars, sets, halVars>>

camera2_cancel_auto_focus ==
  /\ opened
  /\ Begin("cancel_auto_focus", "clear")
  /\ BlockCbs' = TRUE
  /\ UNCHANGED <<opened, workerVars, CancelAFTimeGuard, previewVars, sets, halVars>>

(* take_picture, set_parameters, start_recording and the other calls that  *)
(* go straight to the vendor.                                              *)
camera2_pass_through ==
  /\ opened
  /\ Begin("pass_through", "vendor")
  /\ UNCHANGED <<opened, workerVars, BlockCbs, CancelAFTimeGuard, previewVars, sets, halVars>>

camera2_device_close ==
  /\ opened
  /\ Begin("close", "vendor")
  /\ UNCHANGED <<opened, workerVars, BlockCbs, CancelAFTimeGuard, previewVars, sets, halVars>>

(* CallbackWorkerThread::ClearCallbacks, and in cancel_auto_focus the test *)
(* of the guard after it: within the guard the call ends here.             *)
ClearCallbacks ==
  /\ cpc = "clear"
  /\ m_queue' = <<>>
  /\ wpc' = Notified
  /\ \/ cpc' = "vendor"
     \/ op = "cancel_auto_focus" /\ CancelAFTimeGuard /\ cpc' = "idle"
  /\ UNCHANGED <<opened, userCb, delivered, BlockCbs, CancelAFTimeGuard, previewVars, op,
                 sets, halVars, calls>>

(* Fault: the deferred start is forgotten when the window comes.           *)
VendorCall_Forgets ==
  /\ cpc = "vendor"
  /\ \A h \in Hal : hpc[h] = "idle"
  /\ preview' = CASE op = "start_preview" -> TRUE
                  [] op \in {"stop_preview", "close"} -> FALSE
                  [] OTHER -> preview
  /\ gPreviewStartDeferred' = (gPreviewStartDeferred /\ op # "set_preview_window")
  /\ opened' = (op # "close")
  /\ cpc' = CASE op \in {"stop_preview", "cancel_auto_focus"} -> "unblock"
              [] op = "close" -> "exit"
              [] OTHER -> "idle"
  /\ CancelAFTimeGuard' = (CancelAFTimeGuard \/ op = "auto_focus")
  /\ UNCHANGED <<workerVars, BlockCbs, gPreviewWindow, op, sets, halVars, calls>>

(* The vendor's part of the call: it "waits for the callback functions to  *)
(* return" before it finishes.  After set_preview_window the vendor is     *)
(* told to start a deferred preview.                                       *)
VendorCall ==
  /\ cpc = "vendor"
  /\ \A h \in Hal : hpc[h] = "idle"
  /\ preview' = CASE op = "start_preview" -> TRUE
                  [] op = "set_preview_window" -> preview \/ gPreviewStartDeferred
                  [] op \in {"stop_preview", "close"} -> FALSE
                  [] OTHER -> preview
  /\ gPreviewStartDeferred' = (gPreviewStartDeferred /\ op # "set_preview_window")
  /\ opened' = (op # "close")
  /\ cpc' = CASE op \in {"stop_preview", "cancel_auto_focus"} -> "unblock"
              [] op = "close" -> "exit"
              [] OTHER -> "idle"
  /\ CancelAFTimeGuard' = (CancelAFTimeGuard \/ op = "auto_focus")
  /\ UNCHANGED <<workerVars, BlockCbs, gPreviewWindow, op, sets, halVars, calls>>

Unblock ==
  /\ cpc = "unblock"
  /\ BlockCbs' = FALSE
  /\ cpc' = "idle"
  /\ UNCHANGED <<opened, workerVars, CancelAFTimeGuard, previewVars, op, sets, halVars, calls>>

(* Fault: close does not wait for the worker.                              *)
ExitThread_NoJoin ==
  /\ cpc = "exit"
  /\ gPreviewWindow' = FALSE
  /\ gPreviewStartDeferred' = FALSE
  /\ Push(Exit)
  /\ cpc' = "idle"
  /\ UNCHANGED <<opened, userCb, delivered, BlockCbs, CancelAFTimeGuard, preview, op, sets,
                 halVars, calls>>

(* The rest of camera2_device_close, with CallbackWorkerThread::ExitThread.*)
ExitThread ==
  /\ cpc = "exit"
  /\ gPreviewWindow' = FALSE
  /\ gPreviewStartDeferred' = FALSE
  /\ Push(Exit)
  /\ cpc' = "join"
  /\ UNCHANGED <<opened, userCb, delivered, BlockCbs, CancelAFTimeGuard, preview, op, sets,
                 halVars, calls>>

JoinThread ==
  /\ cpc = "join"
  /\ wpc = "none"
  /\ cpc' = "idle"
  /\ UNCHANGED <<opened, workerVars, BlockCbs, CancelAFTimeGuard, previewVars, op, sets,
                 halVars, calls>>

-----------------------------------------------------------------------------
Init ==
  /\ opened = FALSE
  /\ m_queue = <<>>
  /\ wpc = "none"
  /\ userCb = 0
  /\ BlockCbs = FALSE
  /\ CancelAFTimeGuard = FALSE
  /\ gPreviewWindow = FALSE
  /\ gPreviewStartDeferred = FALSE
  /\ preview = FALSE
  /\ cpc = "idle"
  /\ op = "none"
  /\ sets = 0
  /\ hpc = [h \in Hal |-> "idle"]
  /\ hmsg = [h \in Hal |-> 0]
  /\ raised = 0
  /\ delivered = <<>>
  /\ calls = 0

ClientCall ==
  \/ camera2_device_open \/ camera2_set_callbacks
  \/ camera2_start_preview \/ camera2_stop_preview
  \/ \E w \in BOOLEAN : camera2_set_preview_window(w)
  \/ camera2_auto_focus \/ camera2_cancel_auto_focus
  \/ camera2_pass_through \/ camera2_device_close

ClientStep == ClearCallbacks \/ VendorCall \/ Unblock \/ ExitThread \/ JoinThread
HalStep(h) == AddCallback(h) \/ CallbackReturns(h)
WorkerStep == Wait \/ Process \/ UserReturns

Next ==
  \/ ClientCall
  \/ ClientStep
  \/ WorkerStep
  \/ \E h \in Hal : RaiseCallback(h) \/ HalStep(h)

(* Each thread goes on when it can; the client and the HAL need not call.  *)
Fairness ==
  /\ WF_vars(ClientStep)
  /\ WF_vars(WorkerStep)
  /\ \A h \in Hal : WF_vars(HalStep(h))

Spec == Init /\ [][Next]_vars /\ Fairness

-----------------------------------------------------------------------------
(* Properties *)

(* Every variable has its type.                                            *)
TypeOK ==
  /\ opened \in BOOLEAN
  /\ m_queue \in Seq(Messages)
  /\ wpc \in {"none", "take", "wait", "user"}
  /\ userCb \in 0..MaxSets
  /\ BlockCbs \in BOOLEAN /\ CancelAFTimeGuard \in BOOLEAN
  /\ gPreviewWindow \in BOOLEAN /\ gPreviewStartDeferred \in BOOLEAN /\ preview \in BOOLEAN
  /\ cpc \in {"idle", "clear", "vendor", "unblock", "exit", "join"}
  /\ sets \in 0..MaxSets
  /\ hpc \in [Hal -> {"idle", "add", "sleep"}]
  /\ hmsg \in [Hal -> 0..MaxCallbacks]
  /\ raised \in 0..MaxCallbacks
  /\ delivered \in Seq(Messages)
  /\ calls \in 0..MaxCalls

(* ExitThread joins the worker: once the camera is closed the client's     *)
(* callback functions, which may be gone, are not running and never run.   *)
NoCallbackAfterClose == ~opened /\ cpc = "idle" => wpc # "user"

(* The worker gives the client what each HAL thread reports in the order   *)
(* it was reported, and nothing twice, whatever is cleared in between.     *)
DeliveredInOrder ==
  \A i, j \in 1..Len(delivered) :
    i < j /\ delivered[i].hal = delivered[j].hal => delivered[i].n < delivered[j].n

(* A start_preview that came before its window is not lost: a deferred     *)
(* start ends only by telling the vendor to start, with the window set, or *)
(* by closing the camera.                                                  *)
DeferredPreviewStarts ==
  [][gPreviewStartDeferred /\ ~gPreviewStartDeferred'
       => (gPreviewWindow' /\ preview') \/ ~opened]_vars

(* camera2_device_close waits for a worker that is in the client's         *)
(* callback, and the callback waits for the client: the one deadlock left. *)
StuckInClose == cpc = "join" /\ wpc = "user"

(* "This worker thread ... allows the HAL to finish the client calls and   *)
(* avoid the deadlock scenario" (CallbackWorkerThread.cpp): a call of the  *)
(* client other than close returns, although the vendor waits for          *)
(* callbacks in it and the callbacks wait for the client.                  *)
CallsReturn == (cpc # "idle") ~> (cpc = "idle" \/ StuckInClose)

=============================================================================
