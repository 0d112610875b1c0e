------------------------------- MODULE RilSap -------------------------------
(***************************************************************************)
(* The SIM access profile service: the methods of ISap build a message and *)
(* hand it to the vendor library (sap_service.cpp, RilSapSocket.cpp), the  *)
(* answer finds it in pendingResponseQueue (rilSocketQueue.h) and goes to  *)
(* the callback the Bluetooth process registered.  Binder threads and the  *)
(* thread of the vendor library share the message, the queue and the       *)
(* callback; only the queue has a lock.                                    *)
(*                                                                         *)
(* Every allocation may fail.  The client gives the requests it has under  *)
(* way different tokens; the queue could not tell them apart otherwise.    *)
(* Memory read after it was freed holds what it held, or the process dies. *)
(***************************************************************************)
EXTENDS Integers, Sequences, SequencesExt

CONSTANTS
    Requests,  \* the requests a client makes
    Methods,   \* the methods of ISap it calls
    MaxInds    \* bound: indications of the vendor library

VARIABLES
    method,    \* the method of each request, "none" before it is made
    pc, at,    \* where the binder thread of each request is
    blocks,    \* the blocks of memory allocated for each request
    queue,     \* pendingResponseQueue, its front first
    owed,      \* the requests the vendor library has not answered
    calling,   \* the requests whose answer is about to go to the callback
    ending,    \* the requests whose onRequestComplete is past the call
    replies,   \* calls of a response method of the callback
    lost,      \* no reply is due: no memory for it, or the callback was gone
    callback,  \* sapCallback: "none", "live", "dead" when its process has died
    failed,    \* the requests whose call of the callback failed, before checkReturnStatus
    unsol,     \* where each indication is
    crashed

vars == <<method, pc, at, blocks, queue, owed, calling, ending, replies, lost, callback, failed, unsol, crashed>>

-----------------------------------------------------------------------------
\* The methods: what createMsgHeader is given and what is allocated or may fail
\* before the message is complete, in this order.
Script(steps) == <<"msg">> \o steps \o <<"size", "buffer", "encode", "payload", "socket", "request">>
connectReq == Script(<<>>)
disconnectReq == Script(<<>>)
apduReq == Script(<<"command">>)
transferAtrReq == Script(<<>>)
powerReq == Script(<<>>)
resetSimReq == Script(<<>>)
transferCardReaderStatusReq == Script(<<>>)
setTransferProtocolReq == Script(<<>>)
Scripts ==
    [ CONNECT |-> connectReq, DISCONNECT |-> disconnectReq, APDU |-> apduReq,
      TRANSFER_ATR |-> transferAtrReq, POWER |-> powerReq, RESET_SIM |-> resetSimReq,
      TRANSFER_CARD_READER_STATUS |-> transferCardReaderStatusReq,
      SET_TRANSFER_PROTOCOL |-> setTransferProtocolReq ]
ASSUME SapAssumption == MaxInds \in Nat /\ Methods \subseteq DOMAIN Scripts

Allocates(step) == step \in {"msg", "command", "buffer", "payload", "request"}

\* (mutant) The buffer of the encoder is forgotten.
FreedBy_KeepsBuffer(step) ==
    CASE step = "msg" -> {}
      [] step = "command" -> {"msg"}
      [] step \in {"size", "buffer", "encode"} -> {"command", "msg"}
      [] step = "payload" -> {"buffer", "msg"}
      [] step = "socket" -> {"payload", "buffer", "msg"}
\* What each failure gives back before it answers: sendFailedResponse frees the
\* pointers it is given.  From "payload" on the command of apduReq is not among them.
FreedBy(step) ==
    CASE step = "msg" -> {}
      [] step = "command" -> {"msg"}
      [] step \in {"size", "buffer"} -> {"command", "msg"}
      [] step = "encode" -> {"command", "buffer", "msg"}
      [] step = "payload" -> {"buffer", "msg"}
      [] step = "socket" -> {"payload", "buffer", "msg"}
\* registerService.
Init ==
    /\ method = [r \in Requests |-> "none"] /\ pc = [r \in Requests |-> "none"]
    /\ at = [r \in Requests |-> 1] /\ blocks = [r \in Requests |-> {}]
    /\ queue = << >> /\ owed = {} /\ calling = {} /\ ending = {}
    /\ replies = [r \in Requests |-> 0] /\ lost = [r \in Requests |-> FALSE]
    /\ callback = "none" /\ failed = {} /\ unsol = [i \in 1..MaxInds |-> "none"] /\ crashed = FALSE

\* The callback is called: the call of a dead one fails, and one that is not there
\* is a NULL pointer.
Reply(r) ==
    CASE callback = "live" -> /\ replies' = [replies EXCEPT ![r] = @ + 1]
                              /\ UNCHANGED <<lost, failed, crashed>>
      [] callback = "dead" -> /\ failed' = failed \cup {r} /\ lost' = [lost EXCEPT ![r] = TRUE]
                              /\ UNCHANGED <<replies, crashed>>
      [] callback = "none" -> crashed' = TRUE /\ UNCHANGED <<replies, lost, failed>>

-----------------------------------------------------------------------------
setCallback ==
    /\ ~crashed
    /\ callback' = "live"
    /\ UNCHANGED <<method, pc, at, blocks, queue, owed, calling, ending, replies, lost, failed, unsol, crashed>>
ClientDies ==
    /\ ~crashed /\ callback = "live"
    /\ callback' = "dead"
    /\ UNCHANGED <<method, pc, at, blocks, queue, owed, calling, ending, replies, lost, failed, unsol, crashed>>

\* The client calls a method, whatever has become of the callback it registered.
Call(r, m) ==
    /\ ~crashed /\ pc[r] = "none"
    /\ method' = [method EXCEPT ![r] = m]
    /\ pc' = [pc EXCEPT ![r] = "prepare"]
    /\ UNCHANGED <<at, blocks, queue, owed, calling, ending, replies, lost, callback, failed, unsol, crashed>>

Step(r) == Scripts[method[r]][at[r]]
Preparing(r) == ~crashed /\ pc[r] = "prepare" /\ at[r] <= Len(Scripts[method[r]])
\* A step of the method, of addPayloadAndDispatchRequest or of dispatchRequest.  An
\* empty command is not allocated.
StepPasses(r) ==
    /\ Preparing(r)
    /\ at' = [at EXCEPT ![r] = @ + 1]
    /\ \E b \in IF Step(r) = "command" THEN {{}, {"command"}}
                ELSE IF Allocates(Step(r)) THEN {{Step(r)}} ELSE {{}} :
          blocks' = [blocks EXCEPT ![r] = @ \cup b]
    /\ UNCHANGED <<method, pc, queue, owed, calling, ending, replies, lost, callback, failed, unsol, crashed>>
\* (mutant) The method returns without sendFailedResponse's answer.
StepFails_Silent(r) ==
    /\ Preparing(r) /\ Step(r) # "request"
    /\ blocks' = [blocks EXCEPT ![r] = @ \ FreedBy(Step(r))]
    /\ pc' = [pc EXCEPT ![r] = "done"]
    /\ UNCHANGED <<method, at, queue, owed, calling, ending, replies, lost, callback, failed, unsol, crashed>>
\* sendFailedResponse frees what it is given and answers.
StepFails(r) ==
    /\ Preparing(r) /\ Step(r) # "request"
    /\ blocks' = [blocks EXCEPT ![r] = @ \ FreedBy(Step(r))]
    /\ Reply(r)
    /\ pc' = [pc EXCEPT ![r] = "done"]
    /\ UNCHANGED <<method, at, queue, owed, calling, ending, callback, unsol>>
\* dispatchRequest has no memory: the message is freed and nobody is answered.
DispatchFails(r) ==
    /\ Preparing(r) /\ Step(r) = "request"
    /\ blocks' = [blocks EXCEPT ![r] = @ \ {"msg"}]
    /\ lost' = [lost EXCEPT ![r] = TRUE]
    /\ pc' = [pc EXCEPT ![r] = "return"]
    /\ UNCHANGED <<method, at, queue, owed, calling, ending, replies, callback, failed, unsol, crashed>>
\* dispatchRequest puts the request in front of the queue and calls onRequest.
dispatchRequest(r) ==
    /\ ~crashed /\ pc[r] = "prepare" /\ at[r] > Len(Scripts[method[r]])
    /\ queue' = <<r>> \o queue
    /\ owed' = owed \cup {r}
    /\ pc' = [pc EXCEPT ![r] = "return"]
    /\ UNCHANGED <<method, at, blocks, calling, ending, replies, lost, callback, failed, unsol, crashed>>
\* free(msg->payload) and free(reqPtr).  The answer, or the failure of
\* dispatchRequest, may have freed msg by now.
FreePayload(r) ==
    /\ ~crashed /\ pc[r] = "return"
    /\ \/ blocks' = [blocks EXCEPT ![r] = @ \ {"payload", "buffer"}] /\ UNCHANGED crashed
       \/ "msg" \notin blocks[r] /\ crashed' = TRUE /\ UNCHANGED blocks
    /\ pc' = [pc EXCEPT ![r] = "done"]
    /\ UNCHANGED <<method, at, queue, owed, calling, ending, replies, lost, callback, failed, unsol>>

-----------------------------------------------------------------------------
\* sapDecodeMessage allocates the message it decodes.  It returns NULL when it has no
\* memory, and when it cannot decode, keeping the block.  The answers that read it:
ReadsMessage(m) == m # "DISCONNECT"
\* RilSapSocket::onRequestComplete: without memory for the payload, or without a
\* callback, the client is not called.
onRequestComplete(r) ==
    /\ ~crashed /\ r \in owed
    /\ owed' = owed \ {r}
    /\ \/ /\ ending' = ending \cup {r} /\ lost' = [lost EXCEPT ![r] = TRUE]
          /\ UNCHANGED <<calling, blocks>>
       \/ /\ \E decoded \in SUBSET {"message"} :
                blocks' = [blocks EXCEPT ![r] = @ \cup {"answer"} \cup decoded]
          /\ IF callback = "none"
             THEN ending' = ending \cup {r} /\ lost' = [lost EXCEPT ![r] = TRUE] /\ UNCHANGED calling
             ELSE calling' = calling \cup {r} /\ UNCHANGED <<lost, ending>>
    /\ UNCHANGED <<method, pc, at, queue, replies, callback, failed, unsol, crashed>>
\* processResponse calls the callback it has tested, or the NULL that another
\* thread has stored meanwhile.
processResponse(r, decoded) ==
    /\ ~crashed /\ r \in calling
    /\ decoded => "message" \in blocks[r]
    /\ calling' = calling \ {r} /\ ending' = ending \cup {r}
    /\ IF decoded \/ ~ReadsMessage(method[r]) THEN Reply(r)
       ELSE crashed' = TRUE /\ UNCHANGED <<replies, lost, failed>>
    /\ UNCHANGED <<method, pc, at, blocks, queue, owed, callback, unsol>>
\* The call has failed: the callback is cleared, whichever it is by now.  A setCallback
\* since the call is undone.
checkReturnStatus(r) ==
    /\ ~crashed /\ r \in failed
    /\ failed' = failed \ {r}
    /\ callback' = "none"
    /\ UNCHANGED <<method, pc, at, blocks, queue, owed, calling, ending, replies, lost, unsol, crashed>>

\* checkAndDequeue: the first request with this id and token, from the front.
Matches(r) == {i \in DOMAIN queue : queue[i] = r}
First(r) == CHOOSE i \in Matches(r) : \A j \in Matches(r) : i <= j
\* The payload of the answer is freed, the request leaves the queue and is freed, and
\* then the message is.
checkAndDequeue(r) ==
    /\ ~crashed /\ r \in ending \ failed
    /\ ending' = ending \ {r}
    /\ LET found == IF Matches(r) = {} THEN {} ELSE {queue[First(r)]}
       IN blocks' = [x \in Requests |-> (blocks[x] \ IF x = r THEN {"answer", "msg"} ELSE {})
                                                   \ IF x \in found THEN {"request"} ELSE {}]
    /\ queue' = IF Matches(r) = {} THEN queue ELSE RemoveAt(queue, First(r))
    /\ UNCHANGED <<method, pc, at, owed, calling, replies, lost, callback, failed, unsol, crashed>>

\* onUnsolicitedResponse: a disconnect or a change of the status.  Without data, without
\* memory or without a callback the client is not called.
onUnsolicitedResponse(i) ==
    /\ ~crashed /\ unsol[i] = "none"
    /\ \E to \in {"done"} \cup IF callback = "none" THEN {} ELSE {"calling"} :
          unsol' = [unsol EXCEPT ![i] = to]
    /\ UNCHANGED <<method, pc, at, blocks, queue, owed, calling, ending, replies, lost, callback, failed, crashed>>
processUnsolResponse(i, decoded) ==
    /\ ~crashed /\ unsol[i] = "calling"
    /\ unsol' = [unsol EXCEPT ![i] = IF callback = "dead" THEN "failed" ELSE "done"]
    /\ crashed' = (callback = "none" \/ ~decoded)
    /\ UNCHANGED <<method, pc, at, blocks, queue, owed, calling, ending, replies, lost, callback, failed>>
UnsolFailed(i) ==
    /\ ~crashed /\ unsol[i] = "failed"
    /\ unsol' = [unsol EXCEPT ![i] = "done"]
    /\ callback' = "none"
    /\ UNCHANGED <<method, pc, at, blocks, queue, owed, calling, ending, replies, lost, failed, crashed>>

RequestStep(r) ==
    \/ \E m \in Methods : Call(r, m)
    \/ StepPasses(r) \/ StepFails(r) \/ DispatchFails(r) \/ dispatchRequest(r)
    \/ FreePayload(r) \/ onRequestComplete(r) \/ checkReturnStatus(r) \/ checkAndDequeue(r)
    \/ \E decoded \in BOOLEAN : processResponse(r, decoded)
UnsolStep(i) ==
    \/ onUnsolicitedResponse(i) \/ UnsolFailed(i)
    \/ \E decoded \in BOOLEAN : processUnsolResponse(i, decoded)
Next ==
    \/ setCallback \/ ClientDies
    \/ \E r \in Requests : RequestStep(r)
    \/ \E i \in 1..MaxInds : UnsolStep(i)

Spec == Init /\ [][Next]_vars

-----------------------------------------------------------------------------
\* When a request is over, on whichever path, its memory is free: whether the
\* answer comes before or after the method frees the payload.  Two blocks are the
\* exceptions.  The command of apduReq is freed only by the failures before
\* "payload", and the message of sapDecodeMessage by nobody: every answer that is
\* decoded leaves one behind (and every indication, which is not counted here).
Over(r) == pc[r] = "done" /\ r \notin owed \cup calling \cup ending \cup failed
NeverFreed(r) ==
    (IF method[r] = "APDU" THEN {"command"} ELSE {}) \cup
    (IF at[r] > Len(Scripts[method[r]]) THEN {"message"} ELSE {})
MemoryReturned == ~crashed => \A r \in Requests : Over(r) => blocks[r] \subseteq NeverFreed(r)

\* A request is answered once, by its method or by the vendor library, unless there
\* was no memory for the answer or the callback had gone.
AnsweredOnce ==
    ~crashed => \A r \in Requests : Over(r) => replies[r] = IF lost[r] THEN 0 ELSE 1
=============================================================================
