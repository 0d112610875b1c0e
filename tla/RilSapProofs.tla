---------------------------- MODULE RilSapProofs ----------------------------
(***************************************************************************)
(* Proofs about RilSap for every set of requests and of methods: the       *)
(* inductive invariant IInv, and from it that every request returns its    *)
(* memory and is answered once.                                            *)
(*                                                                         *)
(* Proofs about SecRilClient, the client of the other socket of rild, for  *)
(* every set of descriptors and of tokens and any number of connections,   *)
(* requests, reports and deaths of rild: the inductive invariant           *)
(* ClientInv, and from it that every request gives its token back.         *)
(***************************************************************************)
EXTENDS RilSap, SecRilClient, FiniteSetTheorems, SequenceTheorems, TLAPS

-----------------------------------------------------------------------------
(* What the script of a method holds before each of its steps.             *)

Blocks == {"msg", "command", "buffer", "payload", "request", "answer", "message"}
Steps == {"msg", "command", "size", "buffer", "encode", "payload", "socket", "request"}
Held(step) ==
    CASE step = "msg" -> {}
      [] step = "command" -> {"msg"}
      [] step \in {"size", "buffer"} -> {"command", "msg"}
      [] step \in {"encode", "payload"} -> {"command", "buffer", "msg"}
      [] step \in {"socket", "request"} -> {"command", "payload", "buffer", "msg"}
Gets(step) == IF step = "command" \/ Allocates(step) THEN {step} ELSE {}

(* A sequence that begins with a and goes on with b is their concatenation. *)
LEMMA IsConcat ==
    ASSUME NEW S, NEW a \in Seq(S), NEW b \in Seq(S), NEW c \in Seq(S),
           Len(c) = Len(a) + Len(b),
           \A i \in 1..Len(a) : c[i] = a[i],
           \A i \in 1..Len(b) : c[Len(a) + i] = b[i]
    PROVE  a \o b = c
<1> DEFINE d == a \o b
<1>1. /\ d \in Seq(S) /\ Len(d) = Len(a) + Len(b)
      /\ \A i \in 1..(Len(a) + Len(b)) : d[i] = IF i <= Len(a) THEN a[i] ELSE b[i - Len(a)]
    BY ConcatProperties
<1> HIDE DEF d
<1>2. ASSUME NEW i \in 1..Len(d) PROVE d[i] = c[i]
  <2>1. CASE i <= Len(a)
    BY <1>1, <2>1
  <2>2. CASE ~(i <= Len(a))
    <3>1. i - Len(a) \in 1..Len(b) /\ Len(a) + (i - Len(a)) = i
      BY <1>1, <2>2
    <3> QED
      BY <1>1, <2>2, <3>1
  <2> QED
    BY <2>1, <2>2
<1>3. d = c
    BY <1>1, <1>2, SeqEqual
<1> QED
    BY <1>3 DEF d

LEMMA ScriptOf ==
    /\ Script(<<>>) = <<"msg", "size", "buffer", "encode", "payload", "socket", "request">>
    /\ Script(<<"command">>) =
         <<"msg", "command", "size", "buffer", "encode", "payload", "socket", "request">>
<1>1. PICK rest : rest = <<"size", "buffer", "encode", "payload", "socket", "request">>
    OBVIOUS
<1>2. PICK plain :
        plain = <<"msg", "size", "buffer", "encode", "payload", "socket", "request">>
    OBVIOUS
<1>3. PICK apdu :
        apdu = <<"msg", "command", "size", "buffer", "encode", "payload", "socket", "request">>
    OBVIOUS
<1>4. /\ rest \in Seq(Steps) /\ Len(rest) = 6 /\ rest[1] = "size" /\ rest[2] = "buffer"
      /\ rest[3] = "encode" /\ rest[4] = "payload" /\ rest[5] = "socket" /\ rest[6] = "request"
    BY <1>1 DEF Steps
<1>5. /\ plain \in Seq(Steps) /\ Len(plain) = 7
      /\ plain[1] = "msg" /\ \A i \in 1..6 : plain[1 + i] = rest[i]
    BY <1>1, <1>2 DEF Steps
<1>6. /\ apdu \in Seq(Steps) /\ Len(apdu) = 8
      /\ apdu[1] = "msg" /\ apdu[2] = "command" /\ \A i \in 1..6 : apdu[2 + i] = rest[i]
    BY <1>1, <1>3 DEF Steps
<1>7. PICK one : one = <<"msg">> \o <<>>
    OBVIOUS
<1>8. one \in Seq(Steps) /\ Len(one) = 1 /\ one[1] = "msg"
    BY <1>7, ConcatProperties DEF Steps
<1>9. PICK two : two = <<"msg">> \o <<"command">>
    OBVIOUS
<1>10. two \in Seq(Steps) /\ Len(two) = 2 /\ two[1] = "msg" /\ two[2] = "command"
    BY <1>9, ConcatProperties DEF Steps
<1>11. one \o rest = plain
  <2>1. /\ Len(plain) = Len(one) + Len(rest)
        /\ \A i \in 1..Len(one) : plain[i] = one[i]
        /\ \A i \in 1..Len(rest) : plain[Len(one) + i] = rest[i]
    BY <1>4, <1>5, <1>8
  <2>2. one \in Seq(Steps) /\ rest \in Seq(Steps) /\ plain \in Seq(Steps)
    BY <1>4, <1>5, <1>8
  <2> QED
    BY <2>1, <2>2, IsConcat
<1>12. two \o rest = apdu
  <2>1. /\ Len(apdu) = Len(two) + Len(rest)
        /\ \A i \in 1..Len(two) : apdu[i] = two[i]
        /\ \A i \in 1..Len(rest) : apdu[Len(two) + i] = rest[i]
    BY <1>4, <1>6, <1>10
  <2>2. two \in Seq(Steps) /\ rest \in Seq(Steps) /\ apdu \in Seq(Steps)
    BY <1>4, <1>6, <1>10
  <2> QED
    BY <2>1, <2>2, IsConcat
<1> QED
    BY <1>1, <1>2, <1>3, <1>7, <1>9, <1>11, <1>12 DEF Script

LEMMA ScriptSteps ==
    ASSUME NEW m \in DOMAIN Scripts
    PROVE  /\ Len(Scripts[m]) \in Nat
           /\ Scripts[m][1] = "msg"
           /\ \A k \in 1..Len(Scripts[m]) :
                Scripts[m][k] \in Steps /\ (Scripts[m][k] = "command" => m = "APDU")
           /\ \A k \in 1..Len(Scripts[m]) : k + 1 <= Len(Scripts[m]) =>
                Held(Scripts[m][k]) \cup Gets(Scripts[m][k]) \subseteq Held(Scripts[m][k + 1])
<1> DEFINE Plain == <<"msg", "size", "buffer", "encode", "payload", "socket", "request">>
           Apdu == <<"msg", "command", "size", "buffer", "encode", "payload", "socket", "request">>
<1>1. Scripts[m] = Plain \/ (Scripts[m] = Apdu /\ m = "APDU")
    BY ScriptOf DEF Scripts, connectReq, disconnectReq, apduReq, transferAtrReq, powerReq,
                    resetSimReq, transferCardReaderStatusReq, setTransferProtocolReq
<1>2. CASE Scripts[m] = Plain
    BY <1>2 DEF Steps, Held, Gets, Allocates
<1>3. CASE Scripts[m] = Apdu /\ m = "APDU"
    BY <1>3 DEF Steps, Held, Gets, Allocates
<1> QED
    BY <1>1, <1>2, <1>3

-----------------------------------------------------------------------------
(* The inductive invariant.                                                *)

SapTypes ==
    /\ method \in [Requests -> Methods \cup {"none"}]
    /\ pc \in [Requests -> {"none", "prepare", "return", "done"}]
    /\ at \in [Requests -> Nat]
    /\ blocks \in [Requests -> SUBSET Blocks]
    /\ queue \in Seq(Requests)
    /\ owed \subseteq Requests /\ calling \subseteq Requests /\ ending \subseteq Requests
    /\ replies \in [Requests -> Nat]
    /\ lost \in [Requests -> BOOLEAN]
    /\ callback \in {"none", "live", "dead"}
    /\ crashed \in BOOLEAN

(* The vendor library or onRequestComplete has the request.                *)
Pending(r) == r \in owed \cup calling \cup ending

(* Where a request is in its life.                                         *)
Placed(r) ==
    /\ pc[r] # "none" => method[r] \in Methods
    /\ pc[r] \in {"none", "prepare"} => ~Pending(r)
    /\ r \in owed => r \notin calling \cup ending
    /\ r \in calling => r \notin ending
    /\ Pending(r) => at[r] > Len(Scripts[method[r]])

(* The blocks that it may still have: while the message is built, those of *)
(* the steps before; after that onRequestComplete gives back the answer,   *)
(* the message and the request, and the method the payload and the buffer, *)
(* in either order.                                                        *)
Holds(r) ==
    /\ pc[r] = "none" => at[r] = 1 /\ blocks[r] = {}
    /\ pc[r] = "prepare" => at[r] >= 1
    /\ pc[r] = "prepare" /\ at[r] <= Len(Scripts[method[r]]) => blocks[r] \subseteq Held(Step(r))
    /\ pc[r] = "return" /\ ~Pending(r) => blocks[r] \subseteq {"command", "payload", "buffer", "message"}
    /\ pc[r] = "done" => blocks[r] \subseteq {"command", "msg", "request", "answer", "message"}
    /\ pc[r] = "done" /\ ~Pending(r) => blocks[r] \subseteq {"command", "message"}

(* The two blocks that nobody frees, and who has them.                     *)
Kept(r) ==
    /\ "command" \in blocks[r] => method[r] = "APDU"
    /\ "message" \in blocks[r] => at[r] > Len(Scripts[method[r]])

(* It is answered, or the answer lost, when it is given up or processed.   *)
Answered(r) ==
    /\ pc[r] \in {"none", "prepare"} \/ r \in owed \cup calling => replies[r] = 0 /\ ~lost[r]
    /\ pc[r] \in {"return", "done"} /\ r \notin owed \cup calling =>
         replies[r] = IF lost[r] THEN 0 ELSE 1

Account(r) == Placed(r) /\ Holds(r) /\ Kept(r) /\ Answered(r)

(* The queue holds every pending request once.                             *)
Queued(r) == \E i \in 1..Len(queue) : queue[i] = r
QueueSound ==
    /\ \A i, j \in 1..Len(queue) : queue[i] = queue[j] => i = j
    /\ \A r \in Requests : Pending(r) <=> Queued(r)

IInv ==
    /\ SapTypes
    /\ ~crashed => QueueSound /\ \A r \in Requests : Account(r)

-----------------------------------------------------------------------------
(* A step of one request leaves the account of every other as it is.       *)
Same(x) ==
    /\ method'[x] = method[x] /\ pc'[x] = pc[x] /\ at'[x] = at[x] /\ blocks'[x] = blocks[x]
    /\ replies'[x] = replies[x] /\ lost'[x] = lost[x]
    /\ (x \in owed' <=> x \in owed) /\ (x \in calling' <=> x \in calling)
    /\ (x \in ending' <=> x \in ending)
LEMMA SameAccount ==
    ASSUME NEW x \in Requests, Same(x), Account(x)
    PROVE  Account(x)'
<1>1. (Pending(x)' <=> Pending(x)) /\ Step(x)' = Step(x)
    BY DEF Same, Pending, Step
<1>2. Placed(x)'
    BY <1>1 DEF Same, Account, Placed
<1>3. Holds(x)'
    BY <1>1 DEF Same, Account, Holds
<1>4. Answered(x)' /\ Kept(x)'
    BY DEF Same, Account, Answered, Kept
<1> QED
    BY <1>2, <1>3, <1>4 DEF Account

(* One request's account and the queue are what a step has to keep.        *)
LEMMA KeepsInvariant ==
    ASSUME IInv, ~crashed, SapTypes', NEW r \in Requests,
           ~crashed' => /\ \A x \in Requests \ {r} : Same(x)
                        /\ Account(r)'
                        /\ QueueSound'
    PROVE  IInv'
<1> SUFFICES ASSUME ~crashed' PROVE QueueSound' /\ \A x \in Requests : Account(x)'
    BY DEF IInv
<1>1. ASSUME NEW x \in Requests PROVE Account(x)'
    BY SameAccount DEF IInv
<1> QED
    BY <1>1

(* The queue, when neither it nor the set of pending requests changes.     *)
LEMMA SameQueue ==
    ASSUME QueueSound, queue' = queue, \A x \in Requests : Pending(x)' <=> Pending(x)
    PROVE  QueueSound'
BY DEF QueueSound, Queued

(* An answer that reaches the callback, or finds it dead.                  *)
LEMMA ReplyEffect ==
    ASSUME SapTypes, ~crashed, NEW r \in Requests, Reply(r), replies[r] = 0, ~lost[r]
    PROVE  /\ replies' \in [Requests -> Nat] /\ lost' \in [Requests -> BOOLEAN]
           /\ crashed' \in BOOLEAN
           /\ \A x \in Requests \ {r} : replies'[x] = replies[x] /\ lost'[x] = lost[x]
           /\ ~crashed' => replies'[r] = IF lost'[r] THEN 0 ELSE 1
<1>1. CASE callback = "live"
  <2>1. /\ replies' = [replies EXCEPT ![r] = @ + 1]
        /\ lost' = lost /\ crashed' = crashed
    BY <1>1 DEF Reply
  <2>2. replies' \in [Requests -> Nat] /\ replies'[r] = 1
    BY <2>1 DEF SapTypes
  <2>3. \A x \in Requests \ {r} : replies'[x] = replies[x]
    BY <2>1 DEF SapTypes
  <2>4. lost' \in [Requests -> BOOLEAN] /\ crashed' \in BOOLEAN /\ ~lost'[r]
    BY <2>1 DEF SapTypes
  <2> QED
    BY <1>1, <2>1, <2>2, <2>3, <2>4
<1>2. CASE callback = "dead"
    BY <1>2 DEF Reply, SapTypes
<1>3. CASE callback = "none"
    BY <1>3 DEF Reply, SapTypes
<1> QED
    BY <1>1, <1>2, <1>3 DEF SapTypes

-----------------------------------------------------------------------------
(* The steps of a method.                                                  *)

LEMMA CallKeeps ==
    ASSUME IInv, NEW r \in Requests, NEW m \in Methods, Call(r, m)
    PROVE  IInv'
<1>1. SapTypes /\ ~crashed /\ Account(r) /\ QueueSound
    BY DEF IInv, Call
<1>2. SapTypes'
    BY <1>1 DEF SapTypes, Call
<1>3. \A x \in Requests \ {r} : Same(x)
    BY <1>1 DEF SapTypes, Call, Same
<1>4. /\ method'[r] = m /\ pc'[r] = "prepare" /\ at'[r] = 1 /\ blocks'[r] = {} /\ pc[r] = "none"
      /\ UNCHANGED <<owed, calling, ending, replies, lost>>
    BY <1>1 DEF SapTypes, Call, Account, Holds
<1>5. Account(r)'
    BY <1>1, <1>4 DEF Account, Placed, Holds, Kept, Answered, Pending
<1>6. QueueSound'
    BY <1>1, SameQueue DEF Call, Pending
<1> QED
    BY <1>1, <1>2, <1>3, <1>5, <1>6, KeepsInvariant

LEMMA StepPassesKeeps ==
    ASSUME IInv, NEW r \in Requests, StepPasses(r)
    PROVE  IInv'
<1>1. SapTypes /\ ~crashed /\ Account(r) /\ QueueSound /\ pc[r] = "prepare"
    BY DEF IInv, StepPasses, Preparing
<1> DEFINE s == Scripts[method[r]]
<1>2. /\ method[r] \in DOMAIN Scripts /\ at[r] \in 1..Len(s) /\ Len(s) \in Nat
    BY <1>1, ScriptSteps, SapAssumption
       DEF Account, Placed, Holds, SapTypes, StepPasses, Preparing
<1>3. PICK b \in SUBSET Gets(Step(r)) : blocks' = [blocks EXCEPT ![r] = @ \cup b]
    BY DEF StepPasses, Gets
<1>4. Gets(Step(r)) \subseteq Blocks
    BY DEF Gets, Allocates, Blocks
<1>5. /\ at' = [at EXCEPT ![r] = @ + 1]
      /\ UNCHANGED <<method, pc, queue, owed, calling, ending, replies, lost, callback, crashed>>
    BY DEF StepPasses
<1>6. SapTypes'
    BY <1>1, <1>3, <1>4, <1>5 DEF SapTypes
<1>7. \A x \in Requests \ {r} : Same(x)
    BY <1>1, <1>3, <1>5 DEF SapTypes, Same
<1>8. at'[r] = at[r] + 1 /\ blocks'[r] = blocks[r] \cup b
    BY <1>1, <1>3, <1>5 DEF SapTypes
<1>9. Account(r)'
  <2>1. blocks[r] \subseteq Held(Step(r))
    BY <1>1, <1>2 DEF Account, Holds
  <2>2. at[r] + 1 <= Len(s) => blocks'[r] \subseteq Held(s[at[r] + 1])
    <3>1. at[r] + 1 <= Len(s) => Held(s[at[r]]) \cup Gets(s[at[r]]) \subseteq Held(s[at[r] + 1])
      BY <1>2, ScriptSteps
    <3> QED
      BY <1>3, <1>8, <2>1, <3>1 DEF Step
  <2>3. Step(r)' = s[at[r] + 1]
    BY <1>5, <1>8 DEF Step
  <2>4. Placed(r)' /\ Answered(r)'
    BY <1>1, <1>5 DEF Account, Placed, Answered, Pending
  <2>6. Kept(r)'
    <3>1. "message" \notin blocks'[r] /\ ("command" \in b => Step(r) = "command")
      BY <1>2, <1>3, <1>8, <2>1, ScriptSteps DEF Gets, Allocates, Held, Step, Steps
    <3>2. Step(r) = "command" => method[r] = "APDU"
      BY <1>2, ScriptSteps DEF Step
    <3> QED
      BY <1>1, <1>5, <1>8, <3>1, <3>2 DEF Account, Kept
  <2>5. Holds(r)'
    BY <1>1, <1>2, <1>5, <1>8, <2>2, <2>3 DEF Holds
  <2> QED
    BY <2>4, <2>5, <2>6 DEF Account
<1>10. QueueSound'
    BY <1>1, <1>5, SameQueue DEF Pending
<1> QED
    BY <1>1, <1>6, <1>7, <1>9, <1>10, KeepsInvariant

LEMMA StepFailsKeeps ==
    ASSUME IInv, NEW r \in Requests, StepFails(r)
    PROVE  IInv'
<1>1. SapTypes /\ ~crashed /\ Account(r) /\ QueueSound /\ pc[r] = "prepare"
    BY DEF IInv, StepFails, Preparing
<1> DEFINE s == Scripts[method[r]]
<1>2. /\ method[r] \in DOMAIN Scripts /\ at[r] \in 1..Len(s) /\ Step(r) \in Steps
      /\ Step(r) # "request"
    BY <1>1, ScriptSteps, SapAssumption
       DEF Account, Placed, Holds, SapTypes, StepFails, Preparing, Step
<1>3. Held(Step(r)) \ FreedBy(Step(r)) \subseteq {"command"}
    BY <1>2 DEF Held, FreedBy, Steps
<1>4. /\ blocks' = [blocks EXCEPT ![r] = @ \ FreedBy(Step(r))]
      /\ pc' = [pc EXCEPT ![r] = "done"] /\ Reply(r)
      /\ UNCHANGED <<method, at, queue, owed, calling, ending, callback>>
    BY DEF StepFails
<1>5. replies[r] = 0 /\ ~lost[r] /\ ~Pending(r)
    BY <1>1 DEF Account, Placed, Answered
<1>6. /\ replies' \in [Requests -> Nat] /\ lost' \in [Requests -> BOOLEAN]
      /\ crashed' \in BOOLEAN
      /\ \A x \in Requests \ {r} : replies'[x] = replies[x] /\ lost'[x] = lost[x]
      /\ ~crashed' => replies'[r] = IF lost'[r] THEN 0 ELSE 1
    BY <1>1, <1>4, <1>5, ReplyEffect
<1>7. SapTypes'
    BY <1>1, <1>4, <1>6 DEF SapTypes
<1>8. \A x \in Requests \ {r} : Same(x)
    BY <1>1, <1>4, <1>6 DEF SapTypes, Same
<1>9. pc'[r] = "done" /\ blocks'[r] \subseteq {"command"}
    BY <1>1, <1>2, <1>3, <1>4 DEF SapTypes, Account, Holds
<1>10. ~crashed' => Account(r)'
  <2>1. blocks'[r] \subseteq blocks[r]
    BY <1>1, <1>4 DEF SapTypes
  <2>2. Kept(r)'
    BY <1>1, <1>4, <2>1 DEF Account, Kept
  <2> QED
    BY <1>1, <1>4, <1>5, <1>6, <1>9, <2>2 DEF Account, Placed, Holds, Answered, Pending
<1>11. QueueSound'
    BY <1>1, <1>4, SameQueue DEF Pending
<1> QED
    BY <1>1, <1>7, <1>8, <1>10, <1>11, KeepsInvariant

LEMMA DispatchFailsKeeps ==
    ASSUME IInv, NEW r \in Requests, DispatchFails(r)
    PROVE  IInv'
<1>1. SapTypes /\ ~crashed /\ Account(r) /\ QueueSound /\ pc[r] = "prepare"
    BY DEF IInv, DispatchFails, Preparing
<1>2. blocks[r] \subseteq {"command", "payload", "buffer", "msg"}
    BY <1>1 DEF DispatchFails, Preparing, Account, Holds, Held
<1>3. SapTypes'
    BY <1>1 DEF DispatchFails, SapTypes
<1>4. \A x \in Requests \ {r} : Same(x)
    BY <1>1 DEF DispatchFails, SapTypes, Same
<1>5. /\ pc'[r] = "return" /\ blocks'[r] = blocks[r] \ {"msg"} /\ lost'[r] = TRUE
      /\ UNCHANGED <<method, at, queue, owed, calling, ending, replies>>
    BY <1>1 DEF DispatchFails, SapTypes
<1>6. Account(r)'
    BY <1>1, <1>2, <1>5 DEF Account, Placed, Holds, Kept, Answered, Pending
<1>7. QueueSound'
    BY <1>1, <1>5, SameQueue DEF Pending
<1> QED
    BY <1>1, <1>3, <1>4, <1>6, <1>7, KeepsInvariant

LEMMA dispatchRequestKeeps ==
    ASSUME IInv, NEW r \in Requests, dispatchRequest(r)
    PROVE  IInv'
<1>1. SapTypes /\ ~crashed /\ Account(r) /\ QueueSound /\ pc[r] = "prepare"
    BY DEF IInv, dispatchRequest
<1>2. ~Pending(r) /\ ~Queued(r)
    BY <1>1 DEF Account, Placed, QueueSound
<1>3. /\ queue' \in Seq(Requests) /\ Len(queue') = Len(queue) + 1 /\ queue'[1] = r
      /\ \A i \in 1..Len(queue) : queue'[i + 1] = queue[i]
  <2>1. PICK one : one = <<r>>
    OBVIOUS
  <2>2. one \in Seq(Requests) /\ Len(one) = 1 /\ one[1] = r /\ queue \in Seq(Requests)
    BY <1>1, <2>1 DEF SapTypes
  <2>3. queue' = one \o queue
    BY <2>1 DEF dispatchRequest
  <2>4. /\ queue' \in Seq(Requests) /\ Len(queue') = Len(one) + Len(queue)
        /\ \A i \in 1..(Len(one) + Len(queue)) :
             queue'[i] = IF i <= Len(one) THEN one[i] ELSE queue[i - Len(one)]
    BY <2>2, <2>3, ConcatProperties
  <2>5. Len(queue) \in Nat
    BY <2>2
  <2>6. ASSUME NEW i \in 1..Len(queue) PROVE queue'[i + 1] = queue[i]
    <3>1. /\ i + 1 \in 1..(Len(one) + Len(queue)) /\ ~(i + 1 <= Len(one))
          /\ (i + 1) - Len(one) = i
      BY <2>2, <2>5
    <3> QED
      BY <2>4, <3>1
  <2> QED
    BY <2>2, <2>4, <2>5, <2>6
<1>4. SapTypes'
    BY <1>1, <1>3 DEF dispatchRequest, SapTypes
<1>5. \A x \in Requests \ {r} : Same(x)
    BY <1>1 DEF dispatchRequest, SapTypes, Same
<1>6. /\ pc'[r] = "return" /\ r \in owed' /\ owed' = owed \cup {r}
      /\ UNCHANGED <<method, at, blocks, calling, ending, replies, lost>>
    BY <1>1 DEF dispatchRequest, SapTypes
<1>7. Account(r)'
  <2>1. method[r] \in DOMAIN Scripts /\ at[r] > Len(Scripts[method[r]])
    BY <1>1, SapAssumption DEF dispatchRequest, Account, Placed
  <2>2. Len(Scripts[method[r]]) \in Nat /\ at[r] \in Nat
    BY <1>1, <2>1, ScriptSteps DEF SapTypes
  <2> QED
    BY <1>1, <1>2, <1>6, <2>1, <2>2 DEF Account, Placed, Holds, Kept, Answered, Pending
<1>8. QueueSound'
  <2>0. Len(queue) \in Nat
    BY <1>1 DEF SapTypes
  <2>1. \A i \in 1..Len(queue') :
          i = 1 \/ (i - 1 \in 1..Len(queue) /\ queue'[i] = queue[i - 1])
    <3> SUFFICES ASSUME NEW i \in 1..Len(queue'), i # 1
                 PROVE  i - 1 \in 1..Len(queue) /\ queue'[i] = queue[i - 1]
      OBVIOUS
    <3>1. i - 1 \in 1..Len(queue) /\ (i - 1) + 1 = i
      BY <1>3, <2>0
    <3> QED
      BY <1>3, <3>1
  <2>2. \A i \in 1..Len(queue) : queue[i] # r
    BY <1>2 DEF Queued
  <2>3. ASSUME NEW i \in 1..Len(queue'), NEW j \in 1..Len(queue'), queue'[i] = queue'[j]
        PROVE  i = j
    <3>1. CASE i = 1 \/ j = 1
      BY <1>3, <2>1, <2>2, <2>3, <3>1
    <3>2. CASE i # 1 /\ j # 1
      <4>1. i - 1 = j - 1
        BY <1>1, <2>1, <2>3, <3>2 DEF QueueSound
      <4> QED
        BY <1>3, <2>0, <4>1
    <3> QED
      BY <3>1, <3>2
  <2>4. ASSUME NEW x \in Requests PROVE Pending(x)' <=> Queued(x)'
    <3>1. Pending(x)' <=> x = r \/ Pending(x)
      BY <1>6 DEF Pending
    <3>2. Queued(x)' <=> x = r \/ Queued(x)
      <4>1. Queued(x) => Queued(x)'
        <5> SUFFICES ASSUME NEW i \in 1..Len(queue), queue[i] = x PROVE Queued(x)'
          BY DEF Queued
        <5>1. i + 1 \in 1..Len(queue') /\ queue'[i + 1] = x
          BY <1>3, <2>0
        <5> QED
          BY <5>1 DEF Queued
      <4>2. x = r => Queued(x)'
        <5>1. 1 \in 1..Len(queue')
          BY <1>3, <2>0
        <5> QED
          BY <1>3, <5>1 DEF Queued
      <4>3. Queued(x)' => x = r \/ Queued(x)
        BY <1>3, <2>1 DEF Queued
      <4> QED
        BY <4>1, <4>2, <4>3
    <3> QED
      BY <1>1, <3>1, <3>2 DEF QueueSound
  <2> QED
    BY <2>3, <2>4 DEF QueueSound
<1> QED
    BY <1>1, <1>4, <1>5, <1>7, <1>8, KeepsInvariant

LEMMA FreePayloadKeeps ==
    ASSUME IInv, NEW r \in Requests, FreePayload(r)
    PROVE  IInv'
<1>1. SapTypes /\ ~crashed /\ Account(r) /\ QueueSound /\ pc[r] = "return"
    BY DEF IInv, FreePayload
<1>2. SapTypes'
  <2>1. CASE crashed' = TRUE /\ UNCHANGED blocks
    BY <1>1, <2>1 DEF FreePayload, SapTypes
  <2>2. CASE blocks' = [blocks EXCEPT ![r] = @ \ {"payload", "buffer"}] /\ UNCHANGED crashed
    BY <1>1, <2>2 DEF FreePayload, SapTypes
  <2> QED
    BY <2>1, <2>2 DEF FreePayload
<1>3. UNCHANGED <<method, at, queue, owed, calling, ending, replies, lost>> /\ pc'[r] = "done"
    BY <1>1 DEF FreePayload, SapTypes
<1>4. QueueSound'
    BY <1>1, <1>3, SameQueue DEF Pending
<1>5. ASSUME ~crashed' PROVE (\A x \in Requests \ {r} : Same(x)) /\ Account(r)'
  <2>1. blocks' = [blocks EXCEPT ![r] = @ \ {"payload", "buffer"}]
    BY <1>5 DEF FreePayload
  <2>2. blocks'[r] = blocks[r] \ {"payload", "buffer"} /\ blocks[r] \subseteq Blocks
    BY <1>1, <2>1 DEF SapTypes
  <2>3. \A x \in Requests \ {r} : Same(x)
    BY <1>1, <2>1 DEF FreePayload, SapTypes, Same
  <2>4. Account(r)'
    BY <1>1, <1>3, <2>2 DEF Account, Placed, Holds, Kept, Answered, Pending, Blocks
  <2> QED
    BY <2>3, <2>4
<1> QED
    BY <1>1, <1>2, <1>4, <1>5, KeepsInvariant

-----------------------------------------------------------------------------
(* The steps of the answer.                                                *)

LEMMA onRequestCompleteKeeps ==
    ASSUME IInv, NEW r \in Requests, onRequestComplete(r)
    PROVE  IInv'
<1>1. SapTypes /\ ~crashed /\ Account(r) /\ QueueSound /\ r \in owed
    BY DEF IInv, onRequestComplete
<1>2. /\ owed' = owed \ {r}
      /\ UNCHANGED <<method, pc, at, queue, replies, callback, crashed>>
    BY DEF onRequestComplete
<1>3. /\ r \notin calling \cup ending /\ replies[r] = 0 /\ ~lost[r]
      /\ pc[r] \in {"return", "done"} /\ at[r] > Len(Scripts[method[r]])
    BY <1>1 DEF Account, Placed, Answered, Pending, SapTypes
<1>4. PICK b : b \subseteq {"answer", "message"} /\ blocks' = [blocks EXCEPT ![r] = @ \cup b]
  <2>1. CASE UNCHANGED blocks
    <3>1. blocks' = [blocks EXCEPT ![r] = @ \cup {}]
      BY <1>1, <2>1 DEF SapTypes
    <3> QED
      BY <3>1
  <2>2. CASE \E decoded \in SUBSET {"message"} :
               blocks' = [blocks EXCEPT ![r] = @ \cup {"answer"} \cup decoded]
    <3>1. PICK decoded \in SUBSET {"message"} :
            blocks' = [blocks EXCEPT ![r] = @ \cup {"answer"} \cup decoded]
      BY <2>2
    <3>2. blocks' = [blocks EXCEPT ![r] = @ \cup ({"answer"} \cup decoded)]
      BY <1>1, <3>1 DEF SapTypes
    <3> QED
      BY <3>2
  <2> QED
    BY <2>1, <2>2 DEF onRequestComplete
<1>5. /\ blocks' \in [Requests -> SUBSET Blocks] /\ blocks'[r] = blocks[r] \cup b
      /\ \A x \in Requests \ {r} : blocks'[x] = blocks[x]
    BY <1>1, <1>4 DEF SapTypes, Blocks
<1>6. CASE ending' = ending \cup {r} /\ lost' = [lost EXCEPT ![r] = TRUE] /\ UNCHANGED calling
  <2>1. SapTypes'
    BY <1>1, <1>2, <1>5, <1>6 DEF SapTypes
  <2>2. \A x \in Requests \ {r} : Same(x)
    BY <1>1, <1>2, <1>5, <1>6 DEF SapTypes, Same
  <2>3. lost'[r] = TRUE /\ \A x \in Requests : Pending(x)' <=> Pending(x)
    BY <1>1, <1>2, <1>6 DEF SapTypes, Pending
  <2>4. Account(r)'
    BY <1>1, <1>2, <1>3, <1>4, <1>5, <1>6, <2>3
       DEF Account, Placed, Holds, Kept, Answered, Pending
  <2>5. QueueSound'
    BY <1>1, <1>2, <2>3, SameQueue
  <2> QED
    BY <1>1, <2>1, <2>2, <2>4, <2>5, KeepsInvariant
<1>7. CASE calling' = calling \cup {r} /\ UNCHANGED <<lost, ending>>
  <2>1. SapTypes'
    BY <1>1, <1>2, <1>5, <1>7 DEF SapTypes
  <2>2. \A x \in Requests \ {r} : Same(x)
    BY <1>1, <1>2, <1>5, <1>7 DEF SapTypes, Same
  <2>3. \A x \in Requests : Pending(x)' <=> Pending(x)
    BY <1>1, <1>2, <1>7 DEF Pending
  <2>4. Account(r)'
    BY <1>1, <1>2, <1>3, <1>4, <1>5, <1>7, <2>3
       DEF Account, Placed, Holds, Kept, Answered, Pending, Step
  <2>5. QueueSound'
    BY <1>1, <1>2, <2>3, SameQueue
  <2> QED
    BY <1>1, <2>1, <2>2, <2>4, <2>5, KeepsInvariant
<1> QED
    BY <1>6, <1>7 DEF onRequestComplete

LEMMA processResponseKeeps ==
    ASSUME IInv, NEW r \in Requests, NEW decoded \in BOOLEAN, processResponse(r, decoded)
    PROVE  IInv'
<1>1. SapTypes /\ ~crashed /\ Account(r) /\ QueueSound /\ r \in calling
    BY DEF IInv, processResponse
<1>2. /\ calling' = calling \ {r} /\ ending' = ending \cup {r}
      /\ UNCHANGED <<method, pc, at, blocks, queue, owed, callback>>
    BY DEF processResponse
<1>3. /\ r \notin owed \cup ending /\ replies[r] = 0 /\ ~lost[r]
      /\ pc[r] \in {"return", "done"}
    BY <1>1 DEF Account, Placed, Answered, Pending, SapTypes
<1>4. CASE Reply(r)
  <2>1. /\ replies' \in [Requests -> Nat] /\ lost' \in [Requests -> BOOLEAN]
        /\ crashed' \in BOOLEAN
        /\ \A x \in Requests \ {r} : replies'[x] = replies[x] /\ lost'[x] = lost[x]
        /\ ~crashed' => replies'[r] = IF lost'[r] THEN 0 ELSE 1
    BY <1>1, <1>3, <1>4, ReplyEffect
  <2>2. SapTypes'
    BY <1>1, <1>2, <2>1 DEF SapTypes
  <2>3. \A x \in Requests \ {r} : Same(x)
    BY <1>1, <1>2, <2>1 DEF Same
  <2>4. \A x \in Requests : Pending(x)' <=> Pending(x)
    BY <1>1, <1>2 DEF Pending
  <2>5. ~crashed' => Account(r)'
    BY <1>1, <1>2, <1>3, <2>1, <2>4 DEF Account, Placed, Holds, Kept, Answered, Pending
  <2>6. QueueSound'
    BY <1>1, <1>2, <2>4, SameQueue
  <2> QED
    BY <1>1, <2>2, <2>3, <2>5, <2>6, KeepsInvariant
<1>5. CASE crashed' = TRUE /\ UNCHANGED <<replies, lost>>
    BY <1>1, <1>2, <1>5 DEF IInv, SapTypes
<1> QED
    BY <1>4, <1>5 DEF processResponse

(* The request that is taken from the queue is the one that was answered,  *)
(* and the others stay.                                                    *)
LEMMA DequeueEffect ==
    ASSUME SapTypes, QueueSound, NEW r \in Requests, Pending(r)
    PROVE  LET q == RemoveAt(queue, First(r))
           IN  /\ Matches(r) # {} /\ queue[First(r)] = r
               /\ q \in Seq(Requests)
               /\ \A i, j \in 1..Len(q) : q[i] = q[j] => i = j
               /\ \A x \in Requests :
                    (\E i \in 1..Len(q) : q[i] = x) <=> x # r /\ Queued(x)
<1> DEFINE n == First(r)
           q == RemoveAt(queue, n)
<1>0. queue \in Seq(Requests) /\ Len(queue) \in Nat /\ DOMAIN queue = 1..Len(queue)
    BY DEF SapTypes
<1>1. Matches(r) # {} /\ n \in 1..Len(queue) /\ queue[n] = r
  <2>1. PICK k \in 1..Len(queue) : queue[k] = r
    BY DEF QueueSound, Queued
  <2>2. Matches(r) = {k}
    BY <1>0, <2>1 DEF Matches, QueueSound
  <2>3. n = k
    BY <1>0, <2>2 DEF First
  <2> QED
    BY <2>1, <2>2, <2>3
<1> HIDE DEF n
<1>2. /\ q \in Seq(Requests) /\ Len(q) = Len(queue) - 1
      /\ \A k \in 1..Len(q) : q[k] = IF k < n THEN queue[k] ELSE queue[k + 1]
  <2>1. PICK left : left = SubSeq(queue, 1, n - 1)
    OBVIOUS
  <2>2. PICK right : right = SubSeq(queue, n + 1, Len(queue))
    OBVIOUS
  <2>3. /\ left \in Seq(Requests) /\ Len(left) = n - 1
        /\ \A k \in 1..(n - 1) : left[k] = queue[k]
    BY <1>0, <1>1, <2>1
  <2>4. /\ right \in Seq(Requests) /\ Len(right) = Len(queue) - n
        /\ \A k \in 1..(Len(queue) - n) : right[k] = queue[n + k]
    <3>1. /\ n + 1 \in 1..(Len(queue) + 1) /\ Len(queue) \in n..Len(queue)
          /\ Len(queue) - (n + 1) + 1 = Len(queue) - n
      BY <1>0, <1>1
    <3>2. \A k \in 1..(Len(queue) - n) : (n + 1) + k - 1 = n + k
      BY <1>0, <1>1
    <3>3. right \in Seq(Requests) /\ Len(right) = Len(queue) - n
      <4>1. \A i \in (n + 1)..Len(queue) : queue[i] \in Requests
        BY <1>0, <1>1
      <4>2. /\ right \in Seq(Requests)
            /\ Len(right) = IF n + 1 <= Len(queue) THEN Len(queue) - (n + 1) + 1 ELSE 0
        BY <1>0, <1>1, <2>2, <4>1, SubSeqProperties
      <4>3. CASE n + 1 <= Len(queue)
        BY <1>0, <1>1, <4>2, <4>3
      <4>4. CASE ~(n + 1 <= Len(queue))
        <5>1. n \in Nat /\ Len(queue) \in Nat /\ n <= Len(queue)
          BY <1>0, <1>1
        <5>2. Len(queue) - n = 0
          BY <4>4, <5>1
        <5> QED
          BY <4>2, <4>4, <5>2
      <4> QED
        BY <4>3, <4>4
    <3>4. \A k \in 1..(Len(queue) - n) : right[k] = queue[(n + 1) + k - 1]
      BY <1>0, <1>1, <2>2, <3>1, SubSeqProperties
    <3> QED
      BY <3>2, <3>3, <3>4
  <2>5. q = left \o right
    BY <2>1, <2>2 DEF RemoveAt
  <2> HIDE DEF q
  <2>6. q \in Seq(Requests) /\ Len(q) = Len(left) + Len(right)
    BY <2>3, <2>4, <2>5, ConcatProperties
  <2>7. ASSUME NEW k \in 1..Len(q) PROVE q[k] = IF k < n THEN queue[k] ELSE queue[k + 1]
    <3>1. q[k] = IF k <= Len(left) THEN left[k] ELSE right[k - Len(left)]
      BY <2>3, <2>4, <2>5, <2>6, ConcatProperties, SMTT(30)
    <3>2. CASE k < n
      BY <1>0, <1>1, <2>3, <3>1, <3>2
    <3>3. CASE ~(k < n)
      <4>1. k - Len(left) \in 1..(Len(queue) - n) /\ n + (k - Len(left)) = k + 1
        BY <1>0, <1>1, <2>3, <2>4, <2>6, <3>3
      <4> QED
        BY <1>0, <1>1, <2>3, <2>4, <3>1, <3>3, <4>1
    <3> QED
      BY <3>2, <3>3
  <2> QED
    BY <1>0, <1>1, <2>3, <2>4, <2>6, <2>7
<1> HIDE DEF q
<1>3. ASSUME NEW i \in 1..Len(q), NEW j \in 1..Len(q), q[i] = q[j] PROVE i = j
  <2>1. PICK k \in 1..Len(queue) : q[i] = queue[k] /\ k = IF i < n THEN i ELSE i + 1
    BY <1>0, <1>1, <1>2
  <2>2. PICK l \in 1..Len(queue) : q[j] = queue[l] /\ l = IF j < n THEN j ELSE j + 1
    BY <1>0, <1>1, <1>2
  <2>3. k = l
    BY <1>3, <2>1, <2>2 DEF QueueSound
  <2> QED
    BY <1>1, <2>1, <2>2, <2>3
<1>4. ASSUME NEW x \in Requests
      PROVE  (\E i \in 1..Len(q) : q[i] = x) <=> x # r /\ Queued(x)
  <2>1. ASSUME NEW i \in 1..Len(q), q[i] = x PROVE x # r /\ Queued(x)
    <3>1. PICK j \in 1..Len(queue) : j # n /\ queue[j] = x
      BY <1>0, <1>1, <1>2, <2>1
    <3> QED
      BY <1>1, <3>1 DEF QueueSound, Queued
  <2>2. ASSUME x # r, NEW j \in 1..Len(queue), queue[j] = x
        PROVE  \E i \in 1..Len(q) : q[i] = x
    <3>1. CASE j < n
      BY <1>0, <1>1, <1>2, <2>2, <3>1
    <3>2. CASE j > n
      <4>1. j - 1 \in 1..Len(q) /\ ~(j - 1 < n) /\ (j - 1) + 1 = j
        BY <1>0, <1>1, <1>2, <3>2
      <4> QED
        BY <1>2, <2>2, <4>1
    <3> QED
      BY <1>0, <1>1, <2>2, <3>1, <3>2
  <2> QED
    BY <2>1, <2>2 DEF Queued
<1> QED
    BY <1>1, <1>2, <1>3, <1>4 DEF q, n

LEMMA checkAndDequeueKeeps ==
    ASSUME IInv, NEW r \in Requests, checkAndDequeue(r)
    PROVE  IInv'
<1>1. SapTypes /\ ~crashed /\ Account(r) /\ QueueSound /\ r \in ending /\ Pending(r)
    BY DEF IInv, checkAndDequeue, Pending
<1>2. /\ Matches(r) # {} /\ queue[First(r)] = r /\ queue' = RemoveAt(queue, First(r))
      /\ queue' \in Seq(Requests)
      /\ \A i, j \in 1..Len(queue') : queue'[i] = queue'[j] => i = j
      /\ \A x \in Requests : Queued(x)' <=> x # r /\ Queued(x)
  <2>1. Matches(r) # {} /\ queue' = RemoveAt(queue, First(r))
    BY <1>1, DequeueEffect DEF checkAndDequeue
  <2> QED
    BY <1>1, <2>1, DequeueEffect DEF Queued
<1>3. /\ ending' = ending \ {r}
      /\ UNCHANGED <<method, pc, at, owed, calling, replies, lost, callback, crashed>>
    BY DEF checkAndDequeue
<1>4. blocks' = [x \in Requests |-> IF x = r THEN blocks[x] \ {"answer", "msg", "request"} ELSE blocks[x]]
  <2>1. blocks' = [x \in Requests |-> (blocks[x] \ IF x = r THEN {"answer", "msg"} ELSE {})
                                                 \ IF x \in {r} THEN {"request"} ELSE {}]
    BY <1>2 DEF checkAndDequeue
  <2>2. \A x \in Requests :
          (blocks[x] \ IF x = r THEN {"answer", "msg"} ELSE {}) \ (IF x \in {r} THEN {"request"} ELSE {})
            = IF x = r THEN blocks[x] \ {"answer", "msg", "request"} ELSE blocks[x]
    OBVIOUS
  <2> QED
    BY <2>1, <2>2
<1>5. SapTypes'
    BY <1>1, <1>2, <1>3, <1>4 DEF SapTypes
<1>6. \A x \in Requests \ {r} : Same(x)
    BY <1>3, <1>4 DEF Same
<1>7. Account(r)'
  <2>1. /\ r \notin owed \cup calling /\ pc[r] \in {"return", "done"}
        /\ blocks'[r] = blocks[r] \ {"answer", "msg", "request"} /\ blocks[r] \subseteq Blocks
    BY <1>1, <1>4 DEF SapTypes, Account, Placed, Pending
  <2> QED
    BY <1>1, <1>3, <2>1 DEF Account, Placed, Holds, Kept, Answered, Pending, Blocks
<1>8. QueueSound'
  <2>1. \A x \in Requests : Pending(x)' <=> x # r /\ Pending(x)
    BY <1>1, <1>3 DEF Pending, Account, Placed
  <2> QED
    BY <1>1, <1>2, <2>1 DEF QueueSound
<1> QED
    BY <1>1, <1>5, <1>6, <1>7, <1>8, KeepsInvariant

(* The steps that leave every request as it is.                            *)
LEMMA OtherKeeps ==
    ASSUME IInv,
           \/ setCallback \/ ClientDies \/ UNCHANGED vars
           \/ \E r \in Requests : checkReturnStatus(r)
           \/ \E i \in 1..MaxInds : UnsolStep(i)
    PROVE  IInv'
<1>1. UNCHANGED <<method, pc, at, blocks, queue, owed, calling, ending, replies, lost>>
    BY DEF setCallback, ClientDies, vars, checkReturnStatus, UnsolStep, onUnsolicitedResponse,
           processUnsolResponse, UnsolFailed
<1>2. callback' \in {"none", "live", "dead"} /\ (~crashed' => ~crashed)
    BY DEF setCallback, ClientDies, vars, checkReturnStatus, UnsolStep, onUnsolicitedResponse,
           processUnsolResponse, UnsolFailed, IInv, SapTypes
<1>3. crashed' \in BOOLEAN
    BY Zenon DEF setCallback, ClientDies, vars, checkReturnStatus, UnsolStep,
                 onUnsolicitedResponse, processUnsolResponse, UnsolFailed, IInv, SapTypes
<1>4. SapTypes'
    BY <1>1, <1>2, <1>3 DEF IInv, SapTypes
<1>5. ASSUME ~crashed' PROVE QueueSound' /\ \A x \in Requests : Account(x)'
  <2>1. QueueSound /\ \A x \in Requests : Account(x) /\ Same(x)
    BY <1>1, <1>2, <1>5 DEF IInv, Same
  <2> QED
    BY <1>1, <2>1, SameAccount, SameQueue DEF Pending
<1> QED
    BY <1>4, <1>5 DEF IInv

LEMMA Invariance == Spec => []IInv
<1>1. Init => IInv
  <2> SUFFICES ASSUME Init PROVE IInv
    OBVIOUS
  <2>1. SapTypes
    <3>1. lost \in [Requests -> BOOLEAN] /\ crashed \in BOOLEAN
      BY DEF Init
    <3>2. queue \in Seq(Requests) /\ at \in [Requests -> Nat] /\ replies \in [Requests -> Nat]
      BY DEF Init
    <3>3. blocks \in [Requests -> SUBSET Blocks]
      BY DEF Init
    <3> QED
      BY <3>1, <3>2, <3>3 DEF Init, SapTypes
  <2>2. QueueSound
    BY DEF Init, QueueSound, Pending, Queued
  <2>3. \A r \in Requests : Account(r)
    BY DEF Init, Account, Placed, Holds, Kept, Answered, Pending
  <2> QED
    BY <2>1, <2>2, <2>3 DEF IInv
<1>2. IInv /\ [Next]_vars => IInv'
  <2> SUFFICES ASSUME IInv, [Next]_vars PROVE IInv'
    OBVIOUS
  <2>1. CASE \E r \in Requests : RequestStep(r)
    <3> PICK r \in Requests : RequestStep(r)
      BY <2>1
    <3> QED
      BY CallKeeps, StepPassesKeeps, StepFailsKeeps, DispatchFailsKeeps, dispatchRequestKeeps,
         FreePayloadKeeps, onRequestCompleteKeeps, checkAndDequeueKeeps, processResponseKeeps,
         OtherKeeps
         DEF RequestStep
  <2> QED
    BY <2>1, OtherKeeps DEF Next
<1> QED
    BY <1>1, <1>2, PTL DEF Spec

-----------------------------------------------------------------------------
(* The memory of a request that is over is free, for any number of         *)
(* requests under way, except for the command of apduReq and the message   *)
(* that sapDecodeMessage allocates for an answer, which nobody frees: the  *)
(* method frees the payload and the buffer, onRequestComplete the payload  *)
(* of the answer, the message and the request, in either order, and every  *)
(* failure what the steps before it allocated.                             *)
THEOREM MemoryReturnedHolds == Spec => []MemoryReturned
<1>1. IInv => MemoryReturned
    BY DEF IInv, MemoryReturned, NeverFreed, Over, Account, Holds, Kept, Pending
<1> QED
    BY <1>1, Invariance, PTL

(* A request is answered exactly once, by sendFailedResponse or for the    *)
(* vendor library, unless the answer was lost, and then never, for any     *)
(* number of requests under way.                                           *)
THEOREM AnsweredOnceHolds == Spec => []AnsweredOnce
<1>1. IInv => AnsweredOnce
    BY DEF IInv, AnsweredOnce, Over, Account, Answered
<1> QED
    BY <1>1, Invariance, PTL

-----------------------------------------------------------------------------
(* SecRilClient: the inductive invariant.                                  *)

(* The token that AllocateToken takes from an empty pool.                  *)
T == Min(Tokens)

ReaderTypes == DOMAIN reader = Conns /\ DOMAIN rtoken = Conns /\ DOMAIN rload = Conns

(* Before the first call that waits there is no handler to be found.       *)
NoHandler ==
    ~call.waits /\ ~handler /\ \A c \in Conns : reader[c] \notin {"handled", "unregister"}

(* One token is ever out: what either thread has loaded from the pool, and *)
(* will store again, holds no other, and a reader that is about to free a  *)
(* token frees that one.                                                   *)
OneToken ==
    /\ token_pool \subseteq {T} /\ load \subseteq {T}
    /\ \A c \in Conns : /\ rload[c] \subseteq {T}
                        /\ reader[c] \in {"free", "freed", "clear"} => rtoken[c] = T
    /\ history # << >> => DOMAIN history = {1} /\ history[1].token = T

(* It is out from its record to the step that clears it.                   *)
OutWhileSent ==
    /\ stage \in {"record", "write", "sent", "free", "clear"} => token = T
    /\ stage = "record" => load = {}
    /\ stage \notin {"write", "sent", "free", "clear"} =>
         token_pool = {} /\ history = << >>

ClientInv == ReaderTypes /\ (~waited => NoHandler /\ OneToken /\ OutWhileSent)

-----------------------------------------------------------------------------
(* The history, when it has at most the record of the one token.           *)
OneRecord(h) == h # << >> => DOMAIN h = {1} /\ h[1].token = T

LEMMA EmptyHistory == ASSUME NEW h PROVE [i \in {} |-> h[i]] = << >>
OBVIOUS

LEMMA RecordEffect ==
    ASSUME NEW id
    PROVE  /\ DOMAIN RecordReqHistory(<< >>, T, id) = {1}
           /\ RecordReqHistory(<< >>, T, id)[1].token = T
<1>1. DOMAIN << >> = {} /\ Cardinality({}) = 0
    BY FS_EmptySet
<1>2. {i \in 1..(Cardinality(DOMAIN << >>) + 1) : i \notin DOMAIN << >>} = {1}
    BY <1>1
<1>3. Min({1}) = 1
    BY DEF Min
<1> QED
    BY <1>1, <1>2, <1>3 DEF RecordReqHistory

LEMMA ClearEffect ==
    ASSUME NEW h, OneRecord(h)
    PROVE  ClearReqHistory(h, T) = << >>
<1>1. CASE h = << >>
  <2>1. {i \in DOMAIN h : h[i].token = T} = {}
    BY <1>1
  <2> QED
    BY <1>1, <2>1 DEF ClearReqHistory
<1>2. CASE h # << >>
  <2>1. DOMAIN h = {1} /\ h[1].token = T
    BY <1>2 DEF OneRecord
  <2>2. {i \in DOMAIN h : h[i].token = T} = {1} /\ Min({1}) = 1
    BY <2>1 DEF Min
  <2>3. ClearReqHistory(h, T) = [i \in DOMAIN h \ {1} |-> h[i]]
    BY <2>2 DEF ClearReqHistory
  <2>4. DOMAIN h \ {1} = {}
    BY <2>1
  <2> QED
    BY <2>3, <2>4, EmptyHistory
<1> QED
    BY <1>1, <1>2

-----------------------------------------------------------------------------
(* Every step keeps the invariant.                                         *)

USE DEF ClientInv, ReaderTypes, NoHandler, OutWhileSent
USE DEF shared, kernel, server, client, close, readers, Goto, To, At, Running

(* A call begins, in a thread of the HAL or in the handler of a report.    *)
LEMMA BeginKeeps ==
    ASSUME ClientInv, NEW f \in Functions, Begin(f)
    PROVE  ClientInv'
<1>1. ~waited' => ~waited /\ ~call'.waits
    BY Zenon DEF Begin
<1>2. stage = "idle" /\ stage' \in {"check", "connect"} /\ UNCHANGED <<shared, readers, token, load>>
    BY DEF Begin, ril_connect_if_required
<1> QED
    BY <1>1, <1>2 DEF OneToken

(* The caller up to the allocation of the token, and ril_close.            *)
LEMMA ConnectKeeps ==
    ASSUME ClientInv,
           \/ \E f \in Functions : ril_set(f)
           \/ ConnectSocket \/ ConnectStarts \/ ConnectFails \/ ConnectNoThread
           \/ CallRefused \/ CallRegisters \/ ril_close
           \/ Disconnect_RILD \/ DisconnectAsks \/ ReaderJoined
    PROVE  ClientInv'
<1> USE DEF OneToken
<1>1. CASE \E f \in Functions : ril_set(f)
    BY <1>1, BeginKeeps DEF ril_set
<1>2. CASE ConnectSocket
    BY <1>2 DEF ConnectSocket
<1>3. CASE ConnectStarts
    BY <1>3 DEF ConnectStarts
<1>4. CASE ConnectFails
    BY <1>4 DEF ConnectFails
<1>5. CASE ConnectNoThread
    BY <1>5 DEF ConnectNoThread
<1>6. CASE CallRefused \/ CallRegisters
  <2>1. ~waited => ~handler'
    BY <1>6, Zenon DEF CallRefused, CallRegisters
  <2>2. /\ stage = "check" /\ stage' \in {"idle", "alloc"}
        /\ UNCHANGED <<token_pool, history, readers, call, token, load, waited>>
    BY <1>6 DEF CallRefused, CallRegisters
  <2> QED
    BY <2>1, <2>2
<1>7. CASE ril_close \/ Disconnect_RILD \/ DisconnectAsks \/ ReaderJoined
    BY <1>7 DEF ril_close, Disconnect_RILD, DisconnectAsks, ReaderJoined
<1> QED
    BY <1>1, <1>2, <1>3, <1>4, <1>5, <1>6, <1>7

(* The caller while the token is out.                                      *)
LEMMA SendKeeps ==
    ASSUME ClientInv,
           \/ AllocateToken \/ TokenRecorded \/ WriteSent \/ WriteFails \/ TokenKept
           \/ FreeToken \/ TokenFreed \/ SendFailed
    PROVE  ClientInv'
<1>1. CASE AllocateToken
  <2>1. ~waited => FirstFree = T /\ ~(Tokens \subseteq token_pool)
    <3> SUFFICES ASSUME ~waited PROVE FirstFree = T /\ ~(Tokens \subseteq token_pool)
      OBVIOUS
    <3>1. token_pool = {}
      BY <1>1 DEF AllocateToken
    <3>2. Tokens \ token_pool = Tokens
      BY <3>1
    <3> QED
      BY <3>1, <3>2, ClientAssumption DEF FirstFree, T
  <2> QED
    BY <1>1, <2>1 DEF AllocateToken, OneToken
<1>2. CASE TokenRecorded
  <2>1. ~waited => /\ history' # << >> => DOMAIN history' = {1} /\ history'[1].token = T
                   /\ token_pool' = {T}
    BY <1>2, RecordEffect DEF TokenRecorded
  <2> QED
    BY <1>2, <2>1 DEF TokenRecorded, OneToken
<1>3. CASE WriteSent \/ WriteFails
    BY <1>3 DEF WriteSent, WriteFails, OneToken
<1>4. CASE TokenKept
    BY <1>4 DEF TokenKept, FindReqHandler, OneToken
<1>5. CASE FreeToken
    BY <1>5 DEF FreeToken, OneToken
<1>6. CASE TokenFreed
  <2>1. ~waited => token_pool' = {} /\ history' = << >>
    BY <1>6, ClearEffect DEF TokenFreed, OneToken, OneRecord
  <2> QED
    BY <1>6, <2>1 DEF TokenFreed, OneToken
<1>7. CASE SendFailed
    BY <1>7 DEF SendFailed, OneToken
<1> QED
    BY <1>1, <1>2, <1>3, <1>4, <1>5, <1>6, <1>7

(* A reader: it stores the pool without the token, whatever it loaded, and *)
(* clears the record of the token, whoever made it.                        *)
LEMMA ReaderKeeps ==
    ASSUME ClientInv, NEW c \in Conns, ReaderStep(c)
    PROVE  ClientInv'
<1>1. CASE \/ SelectEntered(c) \/ ReaderEnds(c) \/ SelectReturns(c) \/ SockTested(c)
           \/ ReadEnds(c) \/ processUnsolicited(c) \/ ConnectionLost(c) \/ PipeTested(c)
           \/ ReportLocks(c) \/ ReportUnlocks(c)
  <2>1. /\ UNCHANGED <<token_pool, history, handler, stage, call, token, load, waited, rtoken, rload>>
        /\ reader' = reader
           \/ \E l : /\ reader' = [reader EXCEPT ![c] = l]
                     /\ l \notin {"handled", "unregister", "free", "freed", "clear"}
    BY <1>1 DEF SelectEntered, ReaderEnds, SelectReturns, SockTested, ReadEnds,
                processUnsolicited, TakeMessage, ConnectionLost, PipeTested, Aborts,
                ReportLocks, ReportUnlocks
  <2> QED
    BY <2>1 DEF OneToken
<1>2. CASE processSolicited(c)
  <2> DEFINE m == Head(Message(c))
  <2>0. ReaderTypes'
    BY <1>2 DEF processSolicited
  <2>1. /\ UNCHANGED <<token_pool, history, handler, stage, call, token, load, waited, rload>>
        /\ rtoken' = [rtoken EXCEPT ![c] = IF m.token \in token_pool THEN m.token ELSE 0]
        /\ ~handler => reader' = [reader EXCEPT ![c] = IF m.token \in token_pool THEN "free"
                                                       ELSE "read"]
    BY <1>2 DEF processSolicited, FindReqHandler
  <2>2. PICK t : t = m.token
    OBVIOUS
  <2> HIDE DEF m
  <2>3. CASE t \in token_pool
    BY <2>1, <2>2, <2>3, <2>0 DEF OneToken
  <2>4. CASE t \notin token_pool
    BY <2>1, <2>2, <2>4, <2>0 DEF OneToken
  <2> QED
    BY <2>3, <2>4
<1>3. CASE HandlerDeleted(c) \/ HandlerUnregistered(c)
    BY <1>3 DEF HandlerDeleted, HandlerUnregistered
<1>4. CASE ReaderFrees(c)
    BY <1>4 DEF ReaderFrees, OneToken
<1>5. CASE ReaderFreed(c)
    BY <1>5 DEF ReaderFreed, OneToken
<1>6. CASE ReaderClears(c)
  <2>1. ~waited => history' = << >>
    BY <1>6, ClearEffect DEF ReaderClears, OneToken, OneRecord
  <2> QED
    BY <1>6, <2>1 DEF ReaderClears, OneToken
<1>7. CASE \E f \in Functions : ReportCalls(c, f)
    BY <1>7, BeginKeeps DEF ReportCalls
<1> QED
    BY <1>1, <1>2, <1>3, <1>4, <1>5, <1>6, <1>7 DEF ReaderStep

(* rild has no part in it.                                                 *)
LEMMA RildKeeps ==
    ASSUME ClientInv, RildStep \/ UNCHANGED clientVars
    PROVE  ClientInv'
<1>1. UNCHANGED <<shared, client, readers>>
    BY DEF RildStep, RildReports, RildAnswers, RildDies, RildStarts, clientVars
<1> QED
    BY <1>1 DEF OneToken

HIDE DEF ClientInv, ReaderTypes, NoHandler, OutWhileSent
HIDE DEF shared, kernel, server, client, close, readers, Goto, To, At, Running

LEMMA ClientInvariance == ClientSpec => []ClientInv
<1>1. ClientInit => ClientInv
    BY DEF ClientInit, ClientInv, ReaderTypes, NoHandler, OneToken, OutWhileSent, Library, SetLoopbackTest,
           Request
<1>2. ClientInv /\ [ClientNext]_clientVars => ClientInv'
    BY ConnectKeeps, SendKeeps, ReaderKeeps, RildKeeps DEF ClientNext, CallerStep, CloserStep
<1> QED
    BY <1>1, <1>2, PTL DEF ClientSpec

-----------------------------------------------------------------------------
(* Used as the audio HAL uses it, with no call that waits for its answer,  *)
(* the library leaks no token and no record of a request, for any number   *)
(* of tokens, connections and requests, although caller and reader load    *)
(* and store the pool without a lock: only one token is ever out, so that  *)
(* a store of a stale pool can lose no other (OneToken).                   *)
THEOREM TokensReturnedHolds == ClientSpec => []TokensReturned
<1>1. ClientInv => TokensReturned
    BY DEF ClientInv, OutWhileSent, TokensReturned
<1> QED
    BY <1>1, ClientInvariance, PTL
=============================================================================
