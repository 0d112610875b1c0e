---------------------------- MODULE RilRequests ----------------------------
(***************************************************************************)
(* The life of a solicited request: a dispatch function of the IRadio      *)
(* service puts a RequestInfo into the list of pending requests and hands  *)
(* its address to the vendor RIL as the token; RIL_onRequestAck and        *)
(* RIL_onRequestComplete, called from the vendor's threads, look the token *)
(* up in the list, answer the client and, for a completion, free it.       *)
(*                                                                         *)
(* The rwlock around the answers and the wake lock of RESPONSE_SOLICITED_  *)
(* ACK_EXP are the subject of RilService and RilWakeLock.                  *)
(*                                                                         *)
(* One slot.  Serials are the client's numbers for its requests, each used *)
(* once.  A freed RequestInfo's address may be allocated again.  The       *)
(* cancelled and local fields of RequestInfo are never set in this         *)
(* version, so their branches cannot be taken.                             *)
(***************************************************************************)
EXTENDS Naturals, Sequences, FiniteSets

CONSTANTS
  Serials,      \* the client's requests
  Addresses,    \* heap addresses of RequestInfo
  Vendor,       \* threads of the vendor RIL
  Version13,    \* s_callbacks.version >= 13
  StaleRepeats  \* a token may be completed again after its address is used again

None == "none"

ASSUME RequestsAssumption ==
  /\ None \notin Serials \cup Addresses
  /\ Version13 \in BOOLEAN
  /\ StaleRepeats \in BOOLEAN

VARIABLES
  s_pendingRequests, \* addresses, most recent first
  allocated,         \* addresses of live RequestInfos
  token,             \* RequestInfo.token: the serial, per address
  wasAckSent,        \* RequestInfo.wasAckSent, per address
  bpc, breq,         \* binder thread: position and the request it dispatches
  sent,              \* serials the client has used
  owed,              \* <<address, serial>> the vendor has and has not completed
  completed,         \* <<address, serial>> the vendor has completed
  vpc, vreq,         \* vendor threads: position and <<address, serial>> meant
  acks,              \* serials acknowledged to the client
  answers,           \* number of answers to each serial
  ackExpected,       \* serials answered with RESPONSE_SOLICITED_ACK_EXP
  refused            \* serials that never reached the vendor

listVars   == <<s_pendingRequests, allocated, token, wasAckSent>>
binderVars == <<bpc, breq, sent, refused>>
vendorVars == <<owed, completed, vpc, vreq>>
clientVars == <<acks, answers, ackExpected>>
vars == <<listVars, binderVars, vendorVars, clientVars>>

Listed(a) == \E i \in 1..Len(s_pendingRequests) : s_pendingRequests[i] = a

Goto(t, l) == vpc' = [vpc EXCEPT ![t] = l]

-----------------------------------------------------------------------------
(* addRequestToList on the binder thread; when calloc fails the dispatch   *)
(* function returns and the client gets no answer.                         *)
AddRequestToList(s) ==
  /\ bpc = "idle"
  /\ s \notin sent
  /\ sent' = sent \cup {s}
  /\ \/ \E a \in Addresses \ allocated :
          /\ allocated' = allocated \cup {a}
          /\ token' = [token EXCEPT ![a] = s]
          /\ wasAckSent' = [wasAckSent EXCEPT ![a] = FALSE]
          /\ s_pendingRequests' = <<a>> \o s_pendingRequests
          /\ breq' = a
          /\ bpc' = "convert"
          /\ UNCHANGED refused
     \/ /\ refused' = refused \cup {s}
        /\ UNCHANGED <<listVars, breq, bpc>>
  /\ UNCHANGED <<vendorVars, clientVars>>

(* The arguments are converted and the request is handed to the vendor.    *)
OnRequest ==
  /\ bpc = "convert"
  /\ bpc' = "idle"
  /\ owed' = owed \cup {<<breq, token[breq]>>}
  /\ UNCHANGED <<listVars, breq, sent, refused, completed, vpc, vreq, clientVars>>

(* They cannot be converted: sendErrorResponse answers the request, or     *)
(* nobody does: copyHidlStringToRil returns false without it if strlcpy    *)
(* truncates the string.  The RequestInfo stays in the list.               *)
RefuseRequest ==
  /\ bpc = "convert"
  /\ bpc' = "idle"
  /\ refused' = refused \cup {token[breq]}
  /\ \/ answers' = [answers EXCEPT ![token[breq]] = @ + 1]
     \/ UNCHANGED answers
  /\ UNCHANGED <<listVars, breq, sent, vendorVars, acks, ackExpected>>

-----------------------------------------------------------------------------
(* RIL_onRequestAck: checkAndDequeueRequestInfoIfAck(pRI, true) under the  *)
(* list's mutex, then the acknowledgement with the serial read from pRI.   *)
(* The vendor makes its calls for one token one after the other.           *)

RIL_onRequestAck(t, r) ==
  /\ vpc[t] = "idle"
  /\ r \in owed
  /\ \A u \in Vendor : vpc[u] = "idle" \/ vreq[u] # r
  /\ Listed(r[1])
  /\ wasAckSent' = [wasAckSent EXCEPT ![r[1]] = TRUE]
  /\ vreq' = [vreq EXCEPT ![t] = r]
  /\ Goto(t, "ack")
  /\ UNCHANGED <<s_pendingRequests, allocated, token, binderVars, owed, completed, clientVars>>

AcknowledgeRequest(t) ==
  /\ vpc[t] = "ack"
  /\ acks' = acks \cup {token[vreq[t][1]]}
  /\ Goto(t, "idle")
  /\ UNCHANGED <<listVars, binderVars, owed, completed, vreq, answers, ackExpected>>

(* Fault: the entry stays in the list.                                     *)
Dequeue_Peeks(list, a) == list

(* The list without its first entry for a, as the walk unlinks it.         *)
Dequeue(list, a) ==
  LET i == CHOOSE i \in 1..Len(list) :
             list[i] = a /\ \A j \in 1..(i - 1) : list[j] # a
  IN  SubSeq(list, 1, i - 1) \o SubSeq(list, i + 1, Len(list))

(* Fault: the RequestInfo is freed before the response is sent.            *)
RIL_onRequestComplete_FreesFirst(t, r) ==
  /\ vpc[t] = "idle"
  /\ r \in owed
  /\ \A u \in Vendor : vpc[u] = "idle" \/ vreq[u] # r
  /\ owed' = owed \ {r}
  /\ completed' = completed \cup {r}
  /\ s_pendingRequests' = Dequeue(s_pendingRequests, r[1])
  /\ allocated' = allocated \ {r[1]}
  /\ vreq' = [vreq EXCEPT ![t] = r]
  /\ Goto(t, "respond")
  /\ UNCHANGED <<token, wasAckSent, binderVars, clientVars>>

(* RIL_onRequestComplete: checkAndDequeueRequestInfoIfAck(pRI, false); an  *)
(* unknown token is logged and ignored.  ril.h lets the vendor complete a  *)
(* token again.                                                            *)
RIL_onRequestComplete(t, r) ==
  /\ vpc[t] = "idle"
  /\ r \in owed \/ (r \in completed /\ (StaleRepeats \/ token[r[1]] = r[2]))
  /\ \A u \in Vendor : vpc[u] = "idle" \/ vreq[u] # r
  /\ owed' = owed \ {r}
  /\ completed' = completed \cup {r}
  /\ IF Listed(r[1])
     THEN /\ s_pendingRequests' = Dequeue(s_pendingRequests, r[1])
          /\ vreq' = [vreq EXCEPT ![t] = r]
          /\ Goto(t, "respond")
     ELSE UNCHANGED <<s_pendingRequests, vpc, vreq>>
  /\ UNCHANGED <<allocated, token, wasAckSent, binderVars, clientVars>>

(* The response, with the serial and the acknowledgement read from pRI.    *)
ResponseFunction(t) ==
  /\ vpc[t] = "respond"
  /\ LET a == vreq[t][1]
     IN  /\ answers' = [answers EXCEPT ![token[a]] = @ + 1]
         /\ ackExpected' = IF Version13 /\ wasAckSent[a] THEN ackExpected \cup {token[a]}
                           ELSE ackExpected
  /\ Goto(t, "free")
  /\ UNCHANGED <<listVars, binderVars, owed, completed, vreq, acks>>

FreeRequest(t) ==
  /\ vpc[t] = "free"
  /\ allocated' = allocated \ {vreq[t][1]}
  /\ Goto(t, "idle")
  /\ UNCHANGED <<s_pendingRequests, token, wasAckSent, binderVars, owed, completed, vreq,
                 clientVars>>

-----------------------------------------------------------------------------
Init ==
  /\ s_pendingRequests = <<>>
  /\ allocated = {}
  /\ token \in {[a \in Addresses |-> s] : s \in Serials}
  /\ wasAckSent = [a \in Addresses |-> FALSE]
  /\ bpc = "idle"
  /\ breq = None
  /\ sent = {}
  /\ owed = {}
  /\ completed = {}
  /\ vpc = [t \in Vendor |-> "idle"]
  /\ vreq = [t \in Vendor |-> <<None, None>>]
  /\ acks = {}
  /\ answers = [s \in Serials |-> 0]
  /\ ackExpected = {}
  /\ refused = {}

BinderStep == OnRequest \/ RefuseRequest

VendorStep(t) == AcknowledgeRequest(t) \/ ResponseFunction(t) \/ FreeRequest(t)

Next ==
  \/ \E s \in Serials : AddRequestToList(s)
  \/ BinderStep
  \/ \E t \in Vendor, r \in owed \cup completed :
       RIL_onRequestAck(t, r) \/ RIL_onRequestComplete(t, r)
  \/ \E t \in Vendor : VendorStep(t)

(* A call that was entered runs to its end.                                *)
Fairness == WF_vars(BinderStep) /\ \A t \in Vendor : WF_vars(VendorStep(t))

Spec == Init /\ [][Next]_vars /\ Fairness

-----------------------------------------------------------------------------
(* Properties *)

Requests == Addresses \X Serials

(* Every variable has its type.                                            *)
TypeOK ==
  /\ s_pendingRequests \in Seq(Addresses)
  /\ allocated \subseteq Addresses
  /\ token \in [Addresses -> Serials]
  /\ wasAckSent \in [Addresses -> BOOLEAN]
  /\ bpc \in {"idle", "convert"}
  /\ breq \in Addresses \cup {None}
  /\ sent \subseteq Serials
  /\ owed \subseteq Requests
  /\ completed \subseteq Requests
  /\ vpc \in [Vendor -> {"idle", "ack", "respond", "free"}]
  /\ vreq \in [Vendor -> Requests \cup {<<None, None>>}]
  /\ acks \subseteq Serials
  /\ answers \in [Serials -> Nat]
  /\ ackExpected \subseteq Serials
  /\ refused \subseteq Serials

(* What a vendor thread reads through pRI after the list's mutex is        *)
(* released is still the request it was called for: no use after free.     *)
AnswerIsForItsRequest ==
  \A t \in Vendor :
    vpc[t] \in {"ack", "respond"} =>
      vreq[t][1] \in allocated /\ token[vreq[t][1]] = vreq[t][2]

(* What becomes of each request, as the client could see it.               *)
StateOf(s) ==
  CASE s \notin sent -> "unused"
    [] s \in sent /\ answers[s] > 0 -> "answered"
    [] s \in sent /\ answers[s] = 0 /\ s \in refused -> "dropped"
    [] s \in sent /\ answers[s] = 0 /\ s \notin refused ->
         IF \E r \in completed : r[2] = s THEN "decided" ELSE "pending"

Service == INSTANCE RilRequestService WITH state <- [s \in Serials |-> StateOf(s)]

(* The list of pending requests with its tokens implements the service     *)
(* that RilRequestService promises: whatever the threads do, a request is  *)
(* answered at most once and not after it was dropped, acknowledged only   *)
(* before it is decided, its answer is to be acknowledged exactly when it  *)
(* was acknowledged itself, and a completion reaches the client.           *)
RequestService == Service!Spec
=============================================================================
