-------------------------- MODULE RilRequestService --------------------------
(***************************************************************************)
(* What libril promises the telephony client about its requests, without   *)
(* the list of pending requests, the addresses that are tokens and the     *)
(* threads: a request is refused, dropped, or passed on; one that is       *)
(* passed on may be acknowledged until the vendor library decides it, and  *)
(* is then answered, once.  RilRequests implements it.                     *)
(***************************************************************************)
EXTENDS Naturals

CONSTANTS Serials, Version13

VARIABLES
  state,       \* of each request
  answers,     \* number of answers the client has got to it
  acks,        \* requests acknowledged to the client
  ackExpected  \* requests whose answer the client is asked to acknowledge

vars == <<state, answers, acks, ackExpected>>

Init ==
  /\ state = [s \in Serials |-> "unused"]
  /\ answers = [s \in Serials |-> 0]
  /\ acks = {} /\ ackExpected = {}

Becomes(s, from, to) == state[s] = from /\ state' = [state EXCEPT ![s] = to]
Answered(s) == answers' = [answers EXCEPT ![s] = @ + 1]

(* The client asks; without memory the request is lost.                    *)
Ask(s) ==
  /\ Becomes(s, "unused", "pending") \/ Becomes(s, "unused", "dropped")
  /\ UNCHANGED <<answers, acks, ackExpected>>

(* The request is answered with an error, or dropped, and not passed on.   *)
Refuse(s) ==
  /\ \/ Becomes(s, "pending", "answered") /\ Answered(s)
     \/ Becomes(s, "pending", "dropped") /\ UNCHANGED answers
  /\ UNCHANGED <<acks, ackExpected>>

Acknowledge(s) ==
  /\ state[s] = "pending"
  /\ acks' = acks \cup {s}
  /\ UNCHANGED <<state, answers, ackExpected>>

Decide(s) ==
  /\ Becomes(s, "pending", "decided")
  /\ UNCHANGED <<answers, acks, ackExpected>>

Answer(s) ==
  /\ Becomes(s, "decided", "answered")
  /\ Answered(s)
  /\ ackExpected' = IF Version13 /\ s \in acks THEN ackExpected \cup {s} ELSE ackExpected
  /\ UNCHANGED acks

Next == \E s \in Serials : Ask(s) \/ Refuse(s) \/ Acknowledge(s) \/ Decide(s) \/ Answer(s)

Spec == Init /\ [][Next]_vars /\ \A s \in Serials : WF_vars(Answer(s))
=============================================================================
