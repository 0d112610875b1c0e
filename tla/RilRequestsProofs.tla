------------------------- MODULE RilRequestsProofs -------------------------
(***************************************************************************)
(* Proofs about RilRequests for every number of requests, addresses and    *)
(* vendor threads, when the vendor library does not complete a token again *)
(* after its address has been given to another request (~StaleRepeats):    *)
(* the inductive invariant IInv, from it that the answer a thread sends is *)
(* to the request it was called for, and that every step is a step of the  *)
(* service RilRequestService promises, or changes nothing the client sees. *)
(***************************************************************************)
EXTENDS RilRequests, SequenceTheorems, TLAPS

-----------------------------------------------------------------------------
(* The inductive invariant.                                                *)

(* An address is in the list once, and only while its RequestInfo lives.   *)
ListSound ==
  /\ \A i, j \in 1..Len(s_pendingRequests) :
       s_pendingRequests[i] = s_pendingRequests[j] => i = j
  /\ \A i \in 1..Len(s_pendingRequests) : s_pendingRequests[i] \in allocated

(* A serial the client has not used has left no trace.                     *)
FreshSerials ==
  /\ refused \subseteq sent
  /\ acks \subseteq sent
  /\ \A s \in Serials \ sent : answers[s] = 0

(* The request that is being converted is listed and nobody knows it yet.  *)
ConvertSound ==
  bpc = "convert" =>
    /\ breq \in Addresses
    /\ Listed(breq)
    /\ ~wasAckSent[breq]
    /\ token[breq] \in sent \ (refused \cup acks)
    /\ answers[token[breq]] = 0
    /\ \A r \in owed \cup completed : r[2] # token[breq]

(* What the vendor owes is listed under its own serial and not answered.   *)
OwedSound ==
  \A r \in owed :
    /\ Listed(r[1])
    /\ token[r[1]] = r[2]
    /\ r[2] \in sent \ refused
    /\ answers[r[2]] = 0
    /\ \A q \in completed : q[2] # r[2]
    /\ \A q \in owed : q[2] = r[2] => q = r

(* What was completed is not listed under its serial any more.             *)
CompletedSound ==
  /\ \A r \in completed :
       /\ r[2] \in sent \ refused
       /\ token[r[1]] = r[2] => ~Listed(r[1])
  /\ \A r, q \in completed : r[2] = q[2] => r = q

(* A thread of the vendor is inside a call for a request that is still     *)
(* there, and no other thread is inside a call for the same one.           *)
ThreadSound(t) ==
  /\ vpc[t] # "idle" => \A u \in Vendor \ {t} : vpc[u] = "idle" \/ vreq[u] # vreq[t]
  /\ vpc[t] = "ack" => vreq[t] \in owed /\ wasAckSent[vreq[t][1]]
  /\ vpc[t] \in {"respond", "free"} =>
       /\ vreq[t] \in completed
       /\ vreq[t][1] \in allocated
       /\ token[vreq[t][1]] = vreq[t][2]
  /\ vpc[t] = "respond" =>
       /\ answers[vreq[t][2]] = 0
       /\ wasAckSent[vreq[t][1]] <=> vreq[t][2] \in acks

ThreadsSound == \A t \in Vendor : ThreadSound(t)

(* wasAckSent says that the client has the acknowledgement, or that a      *)
(* thread is about to send it.                                             *)
AckSound ==
  \A r \in owed :
    wasAckSent[r[1]] <=>
      r[2] \in acks \/ \E t \in Vendor : vpc[t] = "ack" /\ vreq[t] = r

IInv ==
  /\ TypeOK /\ ListSound /\ FreshSerials /\ ConvertSound
  /\ OwedSound /\ CompletedSound /\ ThreadsSound /\ AckSound

-----------------------------------------------------------------------------
(* The walk of checkAndDequeueRequestInfoIfAck over a list of distinct     *)
(* addresses takes out the one it looks for and keeps every other.         *)
LEMMA DequeueEffect ==
  ASSUME NEW S, NEW list \in Seq(S), NEW a,
         \E i \in 1..Len(list) : list[i] = a,
         \A i, j \in 1..Len(list) : list[i] = list[j] => i = j
  PROVE  /\ Dequeue(list, a) \in Seq(S)
         /\ \A i, j \in 1..Len(Dequeue(list, a)) :
              Dequeue(list, a)[i] = Dequeue(list, a)[j] => i = j
         /\ \A b : (\E i \in 1..Len(Dequeue(list, a)) : Dequeue(list, a)[i] = b)
                     <=> b # a /\ \E i \in 1..Len(list) : list[i] = b
<1> DEFINE P(k) == list[k] = a /\ \A j \in 1..(k - 1) : list[j] # a
           n    == CHOOSE k \in 1..Len(list) : P(k)
           D    == Dequeue(list, a)
<1>1. n \in 1..Len(list) /\ list[n] = a
  <2>1. PICK k \in 1..Len(list) : list[k] = a
    OBVIOUS
  <2>2. P(k)
    BY <2>1
  <2>3. P(n) /\ n \in 1..Len(list)
    BY <2>2
  <2> QED
    BY <2>3
<1>2. D = SubSeq(list, 1, n - 1) \o SubSeq(list, n + 1, Len(list))
  BY DEF Dequeue
<1> HIDE DEF n, D
<1>3. /\ D \in Seq(S)
      /\ Len(D) = Len(list) - 1
      /\ \A k \in 1..Len(D) : D[k] = IF k < n THEN list[k] ELSE list[k + 1]
  <2> DEFINE L == SubSeq(list, 1, n - 1)
             R == SubSeq(list, n + 1, Len(list))
  <2>1. /\ L \in Seq(S) /\ Len(L) = n - 1
        /\ \A k \in 1..(n - 1) : L[k] = list[k]
    BY <1>1
  <2>2. /\ R \in Seq(S) /\ Len(R) = Len(list) - n
        /\ \A k \in 1..(Len(list) - n) : R[k] = list[n + k]
    BY <1>1
  <2> HIDE DEF L, R
  <2>3. D = L \o R
    BY <1>2 DEF L, R
  <2>4. D \in Seq(S) /\ Len(D) = Len(L) + Len(R)
    BY <2>1, <2>2, <2>3, ConcatProperties, ZenonT(40)
  <2>5. ASSUME NEW k \in 1..Len(D)
        PROVE  D[k] = IF k < n THEN list[k] ELSE list[k + 1]
    <3>1. CASE k < n
      BY <3>1, <2>1, <2>2, <2>3, <2>4, <1>1
    <3>2. CASE ~(k < n)
      <4>1. k - Len(L) \in 1..(Len(list) - n) /\ n + (k - Len(L)) = k + 1
        BY <3>2, <2>1, <2>2, <2>4, <1>1
      <4>2. D[k] = R[k - Len(L)]
        BY <3>2, <2>1, <2>2, <2>3, <2>4, <1>1, ConcatProperties, SMTT(30)
      <4> QED
        BY <3>2, <4>1, <4>2, <2>2
    <3> QED
      BY <3>1, <3>2
  <2> QED
    BY <2>1, <2>2, <2>4, <2>5, <1>1
<1>4. ASSUME NEW i \in 1..Len(D), NEW j \in 1..Len(D), D[i] = D[j] PROVE i = j
  BY <1>1, <1>3, <1>4, SMTT(30)
<1>5. ASSUME NEW b
      PROVE  (\E i \in 1..Len(D) : D[i] = b) <=> b # a /\ \E i \in 1..Len(list) : list[i] = b
  <2>1. ASSUME NEW i \in 1..Len(D), D[i] = b
        PROVE  b # a /\ \E j \in 1..Len(list) : list[j] = b
    BY <2>1, <1>1, <1>3
  <2>2. ASSUME b # a, NEW i \in 1..Len(list), list[i] = b
        PROVE  \E j \in 1..Len(D) : D[j] = b
    <3>1. CASE i < n
      BY <3>1, <2>2, <1>1, <1>3
    <3>2. CASE i > n
      <4>1. i - 1 \in 1..Len(D) /\ ~(i - 1 < n) /\ (i - 1) + 1 = i
        BY <3>2, <1>1, <1>3
      <4> QED
        BY <4>1, <2>2, <1>3
    <3> QED
      BY <3>1, <3>2, <2>2, <1>1
  <2> QED
    BY <2>1, <2>2
<1> QED
  BY <1>3, <1>4, <1>5 DEF D

(* A pending request is an address and a serial.                           *)
LEMMA RequestParts ==
  ASSUME TypeOK
  PROVE  /\ \A r \in owed \cup completed : r[1] \in Addresses /\ r[2] \in Serials
         /\ \A t \in Vendor : vreq[t] \in owed \cup completed =>
              vreq[t][1] \in Addresses /\ vreq[t][2] \in Serials
  BY DEF TypeOK, Requests

LEMMA InitHolds == Init => IInv
<1> SUFFICES ASSUME Init PROVE IInv
  OBVIOUS
<1>1. TypeOK
  BY DEF Init, TypeOK
<1>2. ListSound /\ FreshSerials /\ ConvertSound
  BY DEF Init, ListSound, FreshSerials, ConvertSound
<1>3. OwedSound /\ CompletedSound /\ ThreadsSound /\ AckSound
  BY DEF Init, OwedSound, CompletedSound, ThreadsSound, ThreadSound, AckSound
<1> QED
  BY <1>1, <1>2, <1>3 DEF IInv

LEMMA AddRequestStep ==
  ASSUME IInv, NEW s \in Serials, AddRequestToList(s)
  PROVE  IInv'
<1> USE DEF IInv, vendorVars, clientVars
<1>1. CASE refused' = refused \cup {s} /\ UNCHANGED <<listVars, breq, bpc>>
  <2> USE <1>1 DEF listVars, AddRequestToList
  <2>1. TypeOK'
    BY DEF TypeOK
  <2>2. ListSound' /\ FreshSerials'
    BY DEF ListSound, FreshSerials
  <2>3. \A b : Listed(b)' <=> Listed(b)
    BY DEF Listed
  <2>4. ConvertSound' /\ AckSound'
    BY <2>3 DEF ConvertSound, AckSound, FreshSerials
  <2>5. OwedSound' /\ CompletedSound'
    BY <2>3 DEF OwedSound, CompletedSound
  <2>6. ThreadsSound'
    BY DEF ThreadsSound, ThreadSound
  <2> QED
    BY <2>1, <2>2, <2>4, <2>5, <2>6
<1>2. ASSUME NEW a \in Addresses \ allocated,
             allocated' = allocated \cup {a},
             token' = [token EXCEPT ![a] = s],
             wasAckSent' = [wasAckSent EXCEPT ![a] = FALSE],
             s_pendingRequests' = <<a>> \o s_pendingRequests,
             breq' = a, bpc' = "convert", UNCHANGED refused
      PROVE  IInv'
  <2>1. UNCHANGED <<owed, completed, vpc, vreq, acks, answers, ackExpected>>
        /\ s \notin sent /\ sent' = sent \cup {s}
    BY DEF AddRequestToList
  <2>2. /\ s_pendingRequests' \in Seq(Addresses)
        /\ Len(s_pendingRequests') = Len(s_pendingRequests) + 1
        /\ \A i \in 1..Len(s_pendingRequests') :
             s_pendingRequests'[i] = IF i = 1 THEN a ELSE s_pendingRequests[i - 1]
    <3>1. s_pendingRequests \in Seq(Addresses) /\ <<a>> \in Seq(Addresses) /\ Len(<<a>>) = 1
      BY DEF TypeOK
    <3> QED
      BY <3>1, <1>2, ConcatProperties
  <2>3. TypeOK'
    BY <1>2, <2>1, <2>2 DEF TypeOK
  <2>4. \A b : Listed(b)' <=> b = a \/ Listed(b)
    <3>1. Len(s_pendingRequests) \in Nat
      BY DEF TypeOK
    <3>2. ASSUME NEW b, Listed(b) PROVE Listed(b)'
      <4>1. PICK i \in 1..Len(s_pendingRequests) : s_pendingRequests[i] = b
        BY <3>2 DEF Listed
      <4>2. i + 1 \in 1..Len(s_pendingRequests') /\ i + 1 # 1 /\ (i + 1) - 1 = i
        BY <2>2, <3>1
      <4> QED
        BY <4>1, <4>2, <2>2 DEF Listed
    <3>3. Listed(a)'
      BY <2>2, <3>1 DEF Listed
    <3>4. ASSUME NEW b, Listed(b)' PROVE b = a \/ Listed(b)
      BY <3>4, <2>2, <3>1 DEF Listed
    <3> QED
      BY <3>2, <3>3, <3>4
  <2>5. ~Listed(a) /\ \A b : Listed(b) => b # a
    BY DEF ListSound, Listed
  <2>6. ListSound'
    <3>1. Len(s_pendingRequests) \in Nat
      BY DEF TypeOK
    <3>2. ASSUME NEW i \in 1..Len(s_pendingRequests')
          PROVE  i = 1 \/ (i # 1 /\ i - 1 \in 1..Len(s_pendingRequests))
      BY <2>2, <3>1
    <3>3. \A i \in 1..Len(s_pendingRequests') : s_pendingRequests'[i] \in allocated'
      BY <1>2, <2>2, <3>2 DEF ListSound
    <3>4. ASSUME NEW i \in 1..Len(s_pendingRequests'), NEW j \in 1..Len(s_pendingRequests'),
                 s_pendingRequests'[i] = s_pendingRequests'[j]
          PROVE  i = j
      <4>1. CASE i # 1 /\ j # 1
        <5>1. i - 1 \in 1..Len(s_pendingRequests) /\ j - 1 \in 1..Len(s_pendingRequests)
          BY <4>1, <3>2
        <5>2. s_pendingRequests[i - 1] = s_pendingRequests[j - 1]
          BY <4>1, <3>4, <2>2
        <5>3. i - 1 = j - 1
          BY <5>1, <5>2 DEF ListSound
        <5> QED
          BY <5>3, <2>2, <3>1
      <4>2. CASE i = 1 \/ j = 1
        BY <4>2, <2>2, <3>2, <3>4 DEF ListSound
      <4> QED
        BY <4>1, <4>2
    <3> QED
      BY <3>3, <3>4 DEF ListSound
  <2>7. FreshSerials'
    BY <1>2, <2>1 DEF FreshSerials
  <2>8. ASSUME NEW r \in owed PROVE token'[r[1]] = token[r[1]] /\ wasAckSent'[r[1]] = wasAckSent[r[1]]
    BY <1>2, <2>5, RequestParts DEF OwedSound, TypeOK
  <2>9. token'[a] = s /\ ~wasAckSent'[a]
    BY <1>2 DEF TypeOK
  <2>10. ConvertSound'
    <3>1. s \notin refused \cup acks /\ answers[s] = 0
      BY <2>1 DEF FreshSerials
    <3>2. \A r \in owed \cup completed : r[2] # s
      BY <2>1 DEF OwedSound, CompletedSound
    <3> QED
      BY <1>2, <2>1, <2>4, <2>9, <3>1, <3>2 DEF ConvertSound
  <2>11. OwedSound'
    BY <1>2, <2>1, <2>4, <2>8 DEF OwedSound
  <2>12. CompletedSound'
    <3>1. ASSUME NEW r \in completed, token'[r[1]] = r[2] PROVE r[1] # a /\ token[r[1]] = r[2]
      BY <3>1, <1>2, <2>1, <2>9, RequestParts DEF CompletedSound, TypeOK
    <3> QED
      BY <1>2, <2>1, <2>4, <3>1 DEF CompletedSound
  <2>13. ThreadsSound'
    <3>1. ASSUME NEW t \in Vendor, vpc[t] # "idle"
          PROVE  token'[vreq[t][1]] = token[vreq[t][1]]
                 /\ wasAckSent'[vreq[t][1]] = wasAckSent[vreq[t][1]]
      <4>1. CASE vpc[t] = "ack"
        BY <4>1, <2>8 DEF ThreadsSound, ThreadSound
      <4>2. CASE vpc[t] \in {"respond", "free"}
        <5>1. vreq[t][1] \in Addresses /\ vreq[t][1] # a
          BY <4>2, <1>2 DEF ThreadsSound, ThreadSound, TypeOK
        <5> QED
          BY <5>1, <1>2 DEF TypeOK
      <4> QED
        BY <3>1, <4>1, <4>2 DEF TypeOK
    <3>2. ASSUME NEW t \in Vendor PROVE ThreadSound(t)'
      <4>1. ThreadSound(t)
        BY DEF ThreadsSound
      <4>2. CASE vpc[t] = "idle"
        BY <4>2, <2>1 DEF ThreadSound
      <4>3. CASE vpc[t] = "ack"
        BY <4>1, <4>3, <2>1, <3>1 DEF ThreadSound
      <4>4. CASE vpc[t] = "respond"
        BY <4>1, <4>4, <1>2, <2>1, <3>1 DEF ThreadSound
      <4>5. CASE vpc[t] = "free"
        BY <4>1, <4>5, <1>2, <2>1, <3>1 DEF ThreadSound
      <4> QED
        BY <4>2, <4>3, <4>4, <4>5 DEF TypeOK
    <3> QED
      BY <3>2 DEF ThreadsSound
  <2>14. AckSound'
    BY <1>2, <2>1, <2>8, ZenonT(40) DEF AckSound
  <2> QED
    BY <2>3, <2>6, <2>7, <2>10, <2>11, <2>12, <2>13, <2>14
<1> QED
  BY <1>1, <1>2 DEF AddRequestToList

LEMMA OnRequestStep ==
  ASSUME IInv, OnRequest
  PROVE  IInv'
<1> DEFINE r0 == <<breq, token[breq]>>
<1> USE DEF IInv, listVars, clientVars
<1>1. /\ bpc = "convert" /\ bpc' = "idle" /\ owed' = owed \cup {r0}
      /\ UNCHANGED <<s_pendingRequests, allocated, token, wasAckSent, breq, sent, refused,
                     completed, vpc, vreq, acks, answers, ackExpected>>
  BY DEF OnRequest
<1>2. /\ r0[1] = breq /\ r0[2] = token[breq] /\ breq \in Addresses
      /\ Listed(breq) /\ ~wasAckSent[breq]
      /\ token[breq] \in sent \ (refused \cup acks)
      /\ answers[token[breq]] = 0
      /\ \A r \in owed \cup completed : r[2] # token[breq]
  BY <1>1 DEF ConvertSound
<1>3. r0 \in Requests
  BY <1>2 DEF TypeOK, Requests
<1> HIDE DEF r0
<1>4. TypeOK'
  BY <1>1, <1>3 DEF TypeOK
<1>5. ListSound' /\ FreshSerials' /\ ConvertSound'
  BY <1>1 DEF ListSound, FreshSerials, ConvertSound
<1>6. \A b : Listed(b)' <=> Listed(b)
  BY <1>1 DEF Listed
<1>7. OwedSound'
  BY <1>1, <1>2, <1>6 DEF OwedSound
<1>8. CompletedSound' /\ ThreadsSound'
  BY <1>1, <1>6 DEF CompletedSound, ThreadsSound, ThreadSound
<1>9. AckSound'
  <2>1. ASSUME NEW t \in Vendor, vpc[t] = "ack" PROVE vreq[t] # r0
    BY <2>1, <1>2 DEF ThreadsSound, ThreadSound
  <2> QED
    BY <1>1, <1>2, <2>1 DEF AckSound
<1> QED
  BY <1>4, <1>5, <1>7, <1>8, <1>9

LEMMA RefuseRequestStep ==
  ASSUME IInv, RefuseRequest
  PROVE  IInv'
<1> USE DEF IInv, listVars, vendorVars
<1>1. /\ bpc = "convert" /\ bpc' = "idle" /\ refused' = refused \cup {token[breq]}
      /\ UNCHANGED <<s_pendingRequests, allocated, token, wasAckSent, breq, sent, owed,
                     completed, vpc, vreq, acks, ackExpected>>
  BY DEF RefuseRequest
<1>2. /\ breq \in Addresses /\ token[breq] \in sent /\ token[breq] \in Serials
      /\ answers[token[breq]] = 0
      /\ \A r \in owed \cup completed : r[2] # token[breq]
  BY <1>1 DEF ConvertSound, TypeOK
<1>3. answers' \in [Serials -> Nat] /\ \A s \in Serials \ {token[breq]} : answers'[s] = answers[s]
  BY <1>2 DEF RefuseRequest, TypeOK
<1>4. TypeOK'
  BY <1>1, <1>2, <1>3 DEF TypeOK
<1>5. ListSound' /\ FreshSerials' /\ ConvertSound' /\ AckSound'
  BY <1>1, <1>2, <1>3 DEF ListSound, FreshSerials, ConvertSound, AckSound
<1>6. \A b : Listed(b)' <=> Listed(b)
  BY <1>1 DEF Listed
<1>7. OwedSound'
  BY <1>1, <1>2, <1>3, <1>6, RequestParts DEF OwedSound
<1>8. CompletedSound'
  BY <1>1, <1>2, <1>6 DEF CompletedSound
<1>9. ThreadsSound'
  <2>1. ASSUME NEW t \in Vendor, vpc[t] = "respond" PROVE answers'[vreq[t][2]] = answers[vreq[t][2]]
    <3>1. vreq[t] \in completed
      BY <2>1 DEF ThreadsSound, ThreadSound
    <3> QED
      BY <3>1, <1>2, <1>3, RequestParts
  <2> QED
    BY <1>1, <2>1 DEF ThreadsSound, ThreadSound
<1> QED
  BY <1>4, <1>5, <1>7, <1>8, <1>9

LEMMA OnRequestAckStep ==
  ASSUME IInv, NEW t \in Vendor, NEW r \in owed \cup completed, RIL_onRequestAck(t, r)
  PROVE  IInv'
<1> USE DEF IInv, binderVars, clientVars
<1>1. /\ vpc[t] = "idle" /\ r \in owed
      /\ \A u \in Vendor : vpc[u] = "idle" \/ vreq[u] # r
      /\ wasAckSent' = [wasAckSent EXCEPT ![r[1]] = TRUE]
      /\ vreq' = [vreq EXCEPT ![t] = r]
      /\ vpc' = [vpc EXCEPT ![t] = "ack"]
      /\ UNCHANGED <<s_pendingRequests, allocated, token, bpc, breq, sent, refused, owed,
                     completed, acks, answers, ackExpected>>
  BY DEF RIL_onRequestAck, Goto
<1>2. /\ r \in Requests /\ r[1] \in Addresses /\ r[2] \in Serials
      /\ Listed(r[1]) /\ token[r[1]] = r[2]
  BY <1>1, RequestParts DEF OwedSound, TypeOK
<1>3. TypeOK'
  BY <1>1, <1>2 DEF TypeOK
<1>4. ListSound' /\ FreshSerials'
  BY <1>1 DEF ListSound, FreshSerials
<1>5. \A b : Listed(b)' <=> Listed(b)
  BY <1>1 DEF Listed
<1>6. \A b \in Addresses : wasAckSent'[b] = IF b = r[1] THEN TRUE ELSE wasAckSent[b]
  BY <1>1, <1>2 DEF TypeOK
<1>7. \A u \in Vendor : /\ vpc'[u] = IF u = t THEN "ack" ELSE vpc[u]
                        /\ vreq'[u] = IF u = t THEN r ELSE vreq[u]
  BY <1>1 DEF TypeOK
<1>8. ConvertSound'
  <2>1. bpc = "convert" => breq # r[1]
    BY <1>1, <1>2 DEF ConvertSound
  <2> QED
    BY <1>1, <1>5, <1>6, <2>1 DEF ConvertSound
<1>9. OwedSound' /\ CompletedSound'
  BY <1>1, <1>5 DEF OwedSound, CompletedSound
<1>10. ThreadsSound'
  <2>1. ASSUME NEW u \in Vendor, u # t, vpc[u] \in {"respond", "free"}
        PROVE  vreq[u][1] # r[1]
    BY <2>1, <1>2 DEF ThreadsSound, ThreadSound, CompletedSound
  <2>2. ASSUME NEW u \in Vendor, u # t PROVE ThreadSound(u)'
    <3>1. vpc[u] # "idle" => vreq[u][1] \in Addresses
      BY RequestParts DEF ThreadsSound, ThreadSound, TypeOK
    <3> QED
      BY <2>1, <2>2, <3>1, <1>1, <1>6, <1>7 DEF ThreadsSound, ThreadSound
  <2>3. ThreadSound(t)'
    <3>1. vpc'[t] = "ack" /\ vreq'[t] = r /\ r \in owed' /\ wasAckSent'[r[1]]
      BY <1>1, <1>2, <1>6, <1>7
    <3>2. \A u \in Vendor \ {t} : vpc'[u] = "idle" \/ vreq'[u] # r
      BY <1>1, <1>7
    <3> QED
      BY <3>1, <3>2 DEF ThreadSound
  <2> QED
    BY <2>2, <2>3 DEF ThreadsSound
<1>11. AckSound'
  <2>1. ASSUME NEW q \in owed, q # r PROVE q[1] # r[1] /\ q[1] \in Addresses
    <3>1. token[q[1]] = q[2] /\ q \in Requests
      BY DEF OwedSound, TypeOK
    <3> QED
      BY <2>1, <3>1, <1>1, <1>2 DEF Requests
  <2>2. ASSUME NEW q \in owed
        PROVE  wasAckSent'[q[1]] <=>
                 q[2] \in acks \/ \E u \in Vendor : vpc'[u] = "ack" /\ vreq'[u] = q
    <3>1. CASE q = r
      BY <3>1, <1>2, <1>6, <1>7
    <3>2. CASE q # r
      <4>1. wasAckSent'[q[1]] = wasAckSent[q[1]]
        BY <3>2, <2>1, <1>6
      <4>2. \A u \in Vendor : (vpc'[u] = "ack" /\ vreq'[u] = q) <=> (vpc[u] = "ack" /\ vreq[u] = q)
        BY <3>2, <1>1, <1>7
      <4> QED
        BY <4>1, <4>2 DEF AckSound
    <3> QED
      BY <3>1, <3>2
  <2> QED
    BY <1>1, <2>2 DEF AckSound
<1> QED
  BY <1>3, <1>4, <1>8, <1>9, <1>10, <1>11

LEMMA AcknowledgeRequestStep ==
  ASSUME IInv, NEW t \in Vendor, AcknowledgeRequest(t)
  PROVE  IInv'
<1> DEFINE r == vreq[t]
<1> USE DEF IInv, listVars, binderVars
<1>1. /\ vpc[t] = "ack"
      /\ acks' = acks \cup {token[r[1]]}
      /\ vpc' = [vpc EXCEPT ![t] = "idle"]
      /\ UNCHANGED <<s_pendingRequests, allocated, token, wasAckSent, bpc, breq, sent,
                     refused, owed, completed, vreq, answers, ackExpected>>
  BY DEF AcknowledgeRequest, Goto
<1>2. r \in owed /\ wasAckSent[r[1]]
  BY <1>1 DEF ThreadsSound, ThreadSound
<1>3. /\ r[1] \in Addresses /\ r[2] \in Serials /\ token[r[1]] = r[2] /\ r[2] \in sent
      /\ \A q \in completed : q[2] # r[2]
      /\ \A q \in owed : q[2] = r[2] => q = r
  BY <1>2, RequestParts DEF OwedSound
<1>4. \A u \in Vendor : vpc'[u] = IF u = t THEN "idle" ELSE vpc[u]
  BY <1>1 DEF TypeOK
<1> HIDE DEF r
<1>5. TypeOK'
  BY <1>1, <1>3 DEF TypeOK
<1>6. ListSound' /\ FreshSerials'
  BY <1>1, <1>3 DEF ListSound, FreshSerials
<1>7. \A b : Listed(b)' <=> Listed(b)
  BY <1>1 DEF Listed
<1>8. ConvertSound'
  BY <1>1, <1>2, <1>3, <1>7 DEF ConvertSound
<1>9. OwedSound' /\ CompletedSound'
  BY <1>1, <1>7 DEF OwedSound, CompletedSound
<1>10. ThreadsSound'
  <2>1. ASSUME NEW u \in Vendor PROVE ThreadSound(u)'
    <3>1. ThreadSound(u)
      BY DEF ThreadsSound
    <3>2. CASE vpc[u] = "respond"
      <4>1. vreq[u] \in completed
        BY <3>1, <3>2 DEF ThreadSound
      <4>2. vreq[u][2] \in acks' <=> vreq[u][2] \in acks
        BY <4>1, <1>1, <1>3
      <4> QED
        BY <3>1, <3>2, <4>2, <1>1, <1>4 DEF ThreadSound
    <3>3. CASE vpc[u] # "respond"
      BY <3>1, <3>3, <1>1, <1>4 DEF ThreadSound
    <3> QED
      BY <3>2, <3>3
  <2> QED
    BY <2>1 DEF ThreadsSound
<1>11. AckSound'
  <2>1. ASSUME NEW q \in owed
        PROVE  wasAckSent[q[1]] <=>
                 q[2] \in acks' \/ \E u \in Vendor : vpc'[u] = "ack" /\ vreq[u] = q
    <3>1. CASE q = r
      BY <3>1, <1>1, <1>2, <1>3
    <3>2. CASE q # r
      <4>1. q[2] \in acks' <=> q[2] \in acks
        BY <3>2, <1>1, <1>3
      <4>2. \A u \in Vendor : (vpc'[u] = "ack" /\ vreq[u] = q) <=> (vpc[u] = "ack" /\ vreq[u] = q)
        BY <3>2, <1>4 DEF r
      <4> QED
        BY <4>1, <4>2 DEF AckSound
    <3> QED
      BY <3>1, <3>2
  <2> QED
    BY <1>1, <2>1 DEF AckSound
<1> QED
  BY <1>5, <1>6, <1>8, <1>9, <1>10, <1>11

(* A completion again of a token whose address was not used since finds    *)
(* nothing in the list.                                                    *)
LEMMA CompleteAgain ==
  ASSUME IInv, ~StaleRepeats, NEW t \in Vendor, NEW r \in owed \cup completed,
         RIL_onRequestComplete(t, r), r \notin owed
  PROVE  UNCHANGED vars
<1>1. r \in completed /\ token[r[1]] = r[2]
  BY DEF RIL_onRequestComplete
<1>2. ~Listed(r[1])
  BY <1>1 DEF IInv, CompletedSound
<1>3. owed' = owed /\ completed' = completed
  BY <1>1 DEF RIL_onRequestComplete
<1> QED
  BY <1>2, <1>3 DEF RIL_onRequestComplete, vars, listVars, binderVars, vendorVars, clientVars

(* The completion of a request the vendor owes.                            *)
LEMMA CompleteOwed ==
  ASSUME IInv, NEW t \in Vendor, NEW r \in owed, RIL_onRequestComplete(t, r)
  PROVE  IInv'
<1> USE DEF IInv, binderVars, clientVars
<1>1. /\ r \in Requests /\ r[1] \in Addresses /\ r[2] \in Serials
      /\ Listed(r[1]) /\ token[r[1]] = r[2] /\ r[2] \in sent \ refused
      /\ answers[r[2]] = 0
      /\ \A q \in completed : q[2] # r[2]
      /\ \A q \in owed : q[2] = r[2] => q = r
  BY RequestParts DEF OwedSound, TypeOK
<1>2. /\ vpc[t] = "idle"
      /\ \A u \in Vendor : vpc[u] = "idle" \/ vreq[u] # r
      /\ owed' = owed \ {r} /\ completed' = completed \cup {r}
      /\ s_pendingRequests' = Dequeue(s_pendingRequests, r[1])
      /\ vreq' = [vreq EXCEPT ![t] = r]
      /\ vpc' = [vpc EXCEPT ![t] = "respond"]
      /\ UNCHANGED <<allocated, token, wasAckSent, bpc, breq, sent, refused, acks, answers,
                     ackExpected>>
  BY <1>1 DEF RIL_onRequestComplete, Goto
<1>3. /\ s_pendingRequests' \in Seq(Addresses)
      /\ \A i, j \in 1..Len(s_pendingRequests') :
           s_pendingRequests'[i] = s_pendingRequests'[j] => i = j
      /\ \A b : Listed(b)' <=> b # r[1] /\ Listed(b)
  <2>1. s_pendingRequests \in Seq(Addresses)
    BY DEF TypeOK
  <2>2. \E i \in 1..Len(s_pendingRequests) : s_pendingRequests[i] = r[1]
    BY <1>1 DEF Listed
  <2>3. \A i, j \in 1..Len(s_pendingRequests) :
          s_pendingRequests[i] = s_pendingRequests[j] => i = j
    BY DEF ListSound
  <2> DEFINE D == Dequeue(s_pendingRequests, r[1])
  <2>4. /\ D \in Seq(Addresses)
        /\ \A i, j \in 1..Len(D) : D[i] = D[j] => i = j
        /\ \A b : (\E i \in 1..Len(D) : D[i] = b)
                    <=> b # r[1] /\ \E i \in 1..Len(s_pendingRequests) : s_pendingRequests[i] = b
    BY <2>1, <2>2, <2>3, DequeueEffect, ZenonT(40)
  <2> QED
    BY <2>4, <1>2 DEF Listed
<1>4. \A u \in Vendor : /\ vpc'[u] = IF u = t THEN "respond" ELSE vpc[u]
                        /\ vreq'[u] = IF u = t THEN r ELSE vreq[u]
  BY <1>2 DEF TypeOK
<1>5. TypeOK'
  BY <1>1, <1>2, <1>3 DEF TypeOK
<1>6. ListSound'
  <2>1. \A b : Listed(b) => b \in allocated
    BY DEF ListSound, Listed
  <2>2. \A b : Listed(b)' => b \in allocated'
    BY <2>1, <1>2, <1>3
  <2>3. \A i \in 1..Len(s_pendingRequests') : s_pendingRequests'[i] \in allocated'
    BY <2>2 DEF Listed
  <2> QED
    BY <2>3, <1>3 DEF ListSound
<1>7. FreshSerials'
  BY <1>2 DEF FreshSerials
<1>8. ConvertSound'
  BY <1>1, <1>2, <1>3 DEF ConvertSound
<1>9. OwedSound'
  <2>1. ASSUME NEW q \in owed, q # r PROVE q[1] # r[1] /\ q[2] # r[2]
    <3>1. token[q[1]] = q[2] /\ q \in Requests
      BY DEF OwedSound, TypeOK
    <3> QED
      BY <2>1, <3>1, <1>1 DEF Requests
  <2> QED
    BY <2>1, <1>2, <1>3 DEF OwedSound
<1>10. CompletedSound'
  BY <1>1, <1>2, <1>3 DEF CompletedSound
<1>11. ThreadsSound'
  <2>1. ASSUME NEW u \in Vendor, u # t PROVE ThreadSound(u)'
    <3>1. ThreadSound(u)
      BY DEF ThreadsSound
    <3>2. vpc'[u] = vpc[u] /\ vreq'[u] = vreq[u]
      BY <2>1, <1>4
    <3>3. vpc[u] # "idle" => vreq[u] # r
      BY <1>2
    <3> QED
      BY <3>1, <3>2, <3>3, <1>2, <1>4 DEF ThreadSound
  <2>2. ThreadSound(t)'
    <3>1. vpc'[t] = "respond" /\ vreq'[t] = r /\ r \in completed'
      BY <1>2, <1>4
    <3>2. \A u \in Vendor \ {t} : vpc'[u] = "idle" \/ vreq'[u] # r
      BY <1>2, <1>4
    <3>3. r[1] \in allocated'
      BY <1>1, <1>2 DEF ListSound, Listed
    <3>4. wasAckSent'[r[1]] <=> r[2] \in acks'
      BY <1>2 DEF AckSound
    <3> QED
      BY <3>1, <3>2, <3>3, <3>4, <1>1, <1>2 DEF ThreadSound
  <2> QED
    BY <2>1, <2>2 DEF ThreadsSound
<1>12. AckSound'
  <2>1. ASSUME NEW q \in owed' PROVE
          \A u \in Vendor : (vpc'[u] = "ack" /\ vreq'[u] = q) <=> (vpc[u] = "ack" /\ vreq[u] = q)
    BY <1>2, <1>4
  <2> QED
    BY <2>1, <1>2 DEF AckSound
<1> QED
  BY <1>5, <1>6, <1>7, <1>8, <1>9, <1>10, <1>11, <1>12

LEMMA ResponseFunctionStep ==
  ASSUME IInv, NEW t \in Vendor, ResponseFunction(t)
  PROVE  IInv'
<1> DEFINE r == vreq[t]
<1> USE DEF IInv, listVars, binderVars
<1>1. /\ vpc[t] = "respond"
      /\ answers' = [answers EXCEPT ![token[r[1]]] = @ + 1]
      /\ ackExpected' = IF Version13 /\ wasAckSent[r[1]] THEN ackExpected \cup {token[r[1]]}
                        ELSE ackExpected
      /\ vpc' = [vpc EXCEPT ![t] = "free"]
      /\ UNCHANGED <<s_pendingRequests, allocated, token, wasAckSent, bpc, breq, sent,
                     refused, owed, completed, vreq, acks>>
  BY DEF ResponseFunction, Goto
<1>2. r \in completed /\ token[r[1]] = r[2] /\ r[1] \in allocated
  BY <1>1 DEF ThreadsSound, ThreadSound
<1>3. r[1] \in Addresses /\ r[2] \in Serials /\ r[2] \in sent
  BY <1>2, RequestParts DEF CompletedSound
<1>4. \A u \in Vendor : vpc'[u] = IF u = t THEN "free" ELSE vpc[u]
  BY <1>1 DEF TypeOK
<1>5. ackExpected' \subseteq Serials
  BY <1>1, <1>2, <1>3 DEF TypeOK
<1>6. /\ answers' \in [Serials -> Nat]
      /\ \A s \in Serials : s # r[2] => answers'[s] = answers[s]
  BY <1>1, <1>2, <1>3 DEF TypeOK
<1> HIDE DEF r
<1>7. TypeOK'
  BY <1>1, <1>5, <1>6 DEF TypeOK
<1>8. ListSound'
  BY <1>1 DEF ListSound
<1>9. FreshSerials'
  BY <1>1, <1>3, <1>6 DEF FreshSerials
<1>10. \A b : Listed(b)' <=> Listed(b)
  BY <1>1 DEF Listed
<1>11. ConvertSound'
  BY <1>1, <1>2, <1>6, <1>10 DEF ConvertSound, TypeOK
<1>12. OwedSound'
  BY <1>1, <1>2, <1>6, <1>10, RequestParts DEF OwedSound
<1>13. CompletedSound'
  BY <1>1, <1>10 DEF CompletedSound
<1>14. ThreadsSound'
  <2>1. ASSUME NEW u \in Vendor, u # t, vpc[u] = "respond"
        PROVE  answers'[vreq[u][2]] = answers[vreq[u][2]]
    <3>1. vreq[u] \in completed /\ vreq[u] # r
      BY <2>1, <1>1 DEF ThreadsSound, ThreadSound, r
    <3>2. vreq[u][2] # r[2]
      BY <3>1, <1>2 DEF CompletedSound
    <3> QED
      BY <3>1, <3>2, <1>6, RequestParts
  <2>2. ASSUME NEW u \in Vendor PROVE ThreadSound(u)'
    <3>1. ThreadSound(u)
      BY DEF ThreadsSound
    <3>2. CASE u = t
      BY <3>1, <3>2, <1>1, <1>4 DEF ThreadSound
    <3>3. CASE u # t
      BY <3>1, <3>3, <2>1, <1>1, <1>4 DEF ThreadSound
    <3> QED
      BY <3>2, <3>3
  <2> QED
    BY <2>2 DEF ThreadsSound
<1>15. AckSound'
  <2>1. \A u \in Vendor : vpc'[u] = "ack" <=> vpc[u] = "ack"
    BY <1>1, <1>4
  <2> QED
    BY <2>1, <1>1 DEF AckSound
<1> QED
  BY <1>7, <1>8, <1>9, <1>11, <1>12, <1>13, <1>14, <1>15

LEMMA FreeRequestStep ==
  ASSUME IInv, NEW t \in Vendor, FreeRequest(t)
  PROVE  IInv'
<1> DEFINE a == vreq[t][1]
<1> USE DEF IInv, binderVars, clientVars
<1>1. /\ vpc[t] = "free"
      /\ allocated' = allocated \ {a}
      /\ vpc' = [vpc EXCEPT ![t] = "idle"]
      /\ UNCHANGED <<s_pendingRequests, token, wasAckSent, bpc, breq, sent, refused, owed,
                     completed, vreq, acks, answers, ackExpected>>
  BY DEF FreeRequest, Goto
<1>2. vreq[t] \in completed /\ token[a] = vreq[t][2]
  BY <1>1 DEF ThreadsSound, ThreadSound
<1>3. ~Listed(a)
  BY <1>2 DEF CompletedSound
<1>4. \A u \in Vendor : vpc'[u] = IF u = t THEN "idle" ELSE vpc[u]
  BY <1>1 DEF TypeOK
<1>5. TypeOK'
  BY <1>1 DEF TypeOK
<1>6. ListSound'
  BY <1>1, <1>3 DEF ListSound, Listed
<1>7. FreshSerials'
  BY <1>1 DEF FreshSerials
<1>8. \A b : Listed(b)' <=> Listed(b)
  BY <1>1 DEF Listed
<1>9. ConvertSound' /\ OwedSound' /\ CompletedSound'
  BY <1>1, <1>8 DEF ConvertSound, OwedSound, CompletedSound
<1>10. ThreadsSound'
  <2>1. ASSUME NEW u \in Vendor, u # t, vpc[u] \in {"respond", "free"} PROVE vreq[u][1] # a
    <3>1. vreq[u] \in completed /\ token[vreq[u][1]] = vreq[u][2] /\ vreq[u] # vreq[t]
      BY <2>1, <1>1 DEF ThreadsSound, ThreadSound
    <3>2. vreq[u][2] # vreq[t][2]
      BY <3>1, <1>2 DEF CompletedSound
    <3> QED
      BY <3>1, <3>2, <1>2
  <2>2. ASSUME NEW u \in Vendor PROVE ThreadSound(u)'
    <3>1. ThreadSound(u)
      BY DEF ThreadsSound
    <3>2. CASE u = t
      BY <3>1, <3>2, <1>1, <1>4 DEF ThreadSound
    <3>3. CASE u # t
      BY <3>1, <3>3, <2>1, <1>1, <1>4 DEF ThreadSound
    <3> QED
      BY <3>2, <3>3
  <2> QED
    BY <2>2 DEF ThreadsSound
<1>11. AckSound'
  <2>1. \A u \in Vendor : vpc'[u] = "ack" <=> vpc[u] = "ack"
    BY <1>1, <1>4
  <2> QED
    BY <2>1, <1>1 DEF AckSound
<1> QED
  BY <1>5, <1>6, <1>7, <1>9, <1>10, <1>11

LEMMA StutterKeeps ==
  ASSUME IInv, UNCHANGED vars
  PROVE  IInv'
<1> USE DEF IInv, vars, listVars, binderVars, vendorVars, clientVars
<1>1. TypeOK' /\ ListSound' /\ FreshSerials'
  BY DEF TypeOK, ListSound, FreshSerials
<1>2. ConvertSound' /\ OwedSound' /\ CompletedSound'
  BY DEF ConvertSound, OwedSound, CompletedSound, Listed
<1>3. ThreadsSound' /\ AckSound'
  BY DEF ThreadsSound, ThreadSound, AckSound
<1> QED
  BY <1>1, <1>2, <1>3

LEMMA InvariantStep ==
  ASSUME IInv, ~StaleRepeats, [Next]_vars
  PROVE  IInv'
<1>1. ASSUME NEW s \in Serials, AddRequestToList(s) PROVE IInv'
  BY <1>1, AddRequestStep
<1>2. CASE BinderStep
  BY <1>2, OnRequestStep, RefuseRequestStep DEF BinderStep
<1>3. ASSUME NEW t \in Vendor, NEW r \in owed \cup completed, RIL_onRequestAck(t, r) PROVE IInv'
  BY <1>3, OnRequestAckStep
<1>4. ASSUME NEW t \in Vendor, NEW r \in owed \cup completed, RIL_onRequestComplete(t, r)
      PROVE  IInv'
  <2>1. CASE r \in owed
    BY <2>1, <1>4, CompleteOwed
  <2>2. CASE r \notin owed
    BY <2>2, <1>4, CompleteAgain, StutterKeeps
  <2> QED
    BY <2>1, <2>2
<1>5. ASSUME NEW t \in Vendor, VendorStep(t) PROVE IInv'
  BY <1>5, AcknowledgeRequestStep, ResponseFunctionStep, FreeRequestStep DEF VendorStep
<1>6. CASE UNCHANGED vars
  BY <1>6, StutterKeeps
<1> QED
  BY <1>1, <1>2, <1>3, <1>4, <1>5, <1>6 DEF Next

-----------------------------------------------------------------------------
LEMMA Invariance ==
  ASSUME ~StaleRepeats
  PROVE  Spec => []IInv
<1>1. Init => IInv
  BY InitHolds
<1>2. IInv /\ [Next]_vars => IInv'
  BY InvariantStep
<1> QED
  BY <1>1, <1>2, PTL DEF Spec

(* Every variable of the request list and its threads keeps its type.      *)
THEOREM RequestTypes ==
  ASSUME ~StaleRepeats
  PROVE  Spec => []TypeOK
<1>1. IInv => TypeOK
  BY DEF IInv
<1> QED
  BY <1>1, Invariance, PTL

(* What RIL_onRequestAck and RIL_onRequestComplete read through pRI after  *)
(* the list's mutex is released is still the request they were called for. *)
THEOREM AnswerIsForItsRequestHolds ==
  ASSUME ~StaleRepeats
  PROVE  Spec => []AnswerIsForItsRequest
<1>1. IInv => AnswerIsForItsRequest
  <2> SUFFICES ASSUME IInv, NEW t \in Vendor, vpc[t] \in {"ack", "respond"}
               PROVE  vreq[t][1] \in allocated /\ token[vreq[t][1]] = vreq[t][2]
    BY DEF AnswerIsForItsRequest
  <2>1. CASE vpc[t] = "ack"
    BY <2>1 DEF IInv, ThreadsSound, ThreadSound, OwedSound, Listed, ListSound
  <2>2. CASE vpc[t] = "respond"
    BY <2>2 DEF IInv, ThreadsSound, ThreadSound
  <2> QED
    BY <2>1, <2>2
<1> QED
  BY <1>1, Invariance, PTL

-----------------------------------------------------------------------------
(* The refinement.                                                         *)

(* The five states of a request, one condition each.                       *)
StatesTold ==
  \A s \in Serials :
    /\ s \notin sent => StateOf(s) = "unused"
    /\ s \in sent /\ answers[s] > 0 => StateOf(s) = "answered"
    /\ s \in sent /\ answers[s] = 0 /\ s \in refused => StateOf(s) = "dropped"
    /\ s \in sent /\ answers[s] = 0 /\ s \notin refused /\ (\E r \in completed : r[2] = s)
         => StateOf(s) = "decided"
    /\ s \in sent /\ answers[s] = 0 /\ s \notin refused /\ (\A r \in completed : r[2] # s)
         => StateOf(s) = "pending"

LEMMA StateCases == TypeOK => StatesTold
<1> SUFFICES ASSUME TypeOK, NEW s \in Serials
             PROVE  /\ s \notin sent => StateOf(s) = "unused"
                    /\ s \in sent /\ answers[s] > 0 => StateOf(s) = "answered"
                    /\ s \in sent /\ answers[s] = 0 /\ s \in refused => StateOf(s) = "dropped"
                    /\ s \in sent /\ answers[s] = 0 /\ s \notin refused /\ (\E r \in completed : r[2] = s)
                         => StateOf(s) = "decided"
                    /\ s \in sent /\ answers[s] = 0 /\ s \notin refused /\ (\A r \in completed : r[2] # s)
                         => StateOf(s) = "pending"
  BY DEF StatesTold
<1>1. answers[s] \in Nat
  BY DEF TypeOK
<1> QED
  BY <1>1 DEF StateOf

LEMMA StateCasesNext == TypeOK' => StatesTold'
  BY StateCases, PTL

(* A step that leaves alone all that StateOf looks at changes no state.    *)
LEMMA SameStates ==
  ASSUME UNCHANGED <<sent, answers, refused, completed>>
  PROVE  \A s \in Serials : StateOf(s)' = StateOf(s)
  BY DEF StateOf

(* The states the client sees, as the refinement mapping gives them.       *)
States == [s \in Serials |-> StateOf(s)]

(* If one request changes its state, so does the mapped variable.          *)
LEMMA OneStateChanges ==
  ASSUME NEW x \in Serials, NEW from, NEW to, StateOf(x) = from, StateOf(x)' = to,
         \A s \in Serials \ {x} : StateOf(s)' = StateOf(s)
  PROVE  States[x] = from /\ States' = [States EXCEPT ![x] = to]
  BY DEF States

LEMMA NoStateChanges ==
  ASSUME \A s \in Serials : StateOf(s)' = StateOf(s)
  PROVE  States' = States
  BY DEF States

LEMMA RefineInit == ASSUME Init PROVE Service!Init
<1>1. TypeOK
  BY InitHolds DEF IInv
<1>2. \A s \in Serials : StateOf(s) = "unused"
  BY <1>1, StateCases DEF Init, StatesTold
<1> QED
  BY <1>2 DEF Init, Service!Init

LEMMA RefineAdd ==
  ASSUME IInv, IInv', NEW s \in Serials, AddRequestToList(s)
  PROVE  Service!Next
<1> USE DEF IInv
<1>1. /\ s \notin sent /\ sent' = sent \cup {s}
      /\ UNCHANGED <<owed, completed, vpc, vreq, acks, answers, ackExpected>>
      /\ refused' = refused \/ refused' = refused \cup {s}
  BY DEF AddRequestToList, vendorVars, clientVars
<1>2. StatesTold /\ StatesTold'
  BY StateCases, StateCasesNext
<1>3. StateOf(s) = "unused"
  BY <1>1, <1>2 DEF StatesTold
<1>4. s \notin refused /\ answers[s] = 0 /\ \A r \in completed : r[2] # s
  BY <1>1 DEF FreshSerials, CompletedSound
<1>5. StateOf(s)' \in {"pending", "dropped"}
  <2>1. CASE refused' = refused
    BY <2>1, <1>1, <1>2, <1>4 DEF StatesTold
  <2>2. CASE refused' = refused \cup {s}
    BY <2>2, <1>1, <1>2, <1>4 DEF StatesTold
  <2> QED
    BY <1>1, <2>1, <2>2
<1>6. ASSUME NEW x \in Serials \ {s} PROVE StateOf(x)' = StateOf(x)
  BY <1>1 DEF StateOf
<1>7. /\ States[s] = "unused"
      /\ States' = [States EXCEPT ![s] = "pending"] \/ States' = [States EXCEPT ![s] = "dropped"]
  BY <1>3, <1>5, <1>6, OneStateChanges
<1>8. Service!Ask(s)
  BY <1>1, <1>7 DEF Service!Ask, Service!Becomes, States
<1> QED
  BY <1>8 DEF Service!Next

LEMMA RefineRefuse ==
  ASSUME IInv, IInv', RefuseRequest
  PROVE  Service!Next
<1> USE DEF IInv
<1>0. PICK s \in Serials : s = token[breq]
  BY DEF RefuseRequest, ConvertSound, TypeOK
<1>1. /\ bpc = "convert" /\ refused' = refused \cup {s}
      /\ UNCHANGED <<sent, completed, acks, ackExpected>>
      /\ answers' = [answers EXCEPT ![s] = @ + 1] \/ answers' = answers
  BY <1>0 DEF RefuseRequest, vendorVars
<1>2. /\ s \in sent \ refused /\ answers[s] = 0
      /\ \A r \in completed : r[2] # s
  BY <1>0, <1>1 DEF ConvertSound
<1>3. StatesTold /\ StatesTold'
  BY StateCases, StateCasesNext
<1>4. StateOf(s) = "pending"
  BY <1>2, <1>3 DEF StatesTold
<1>5. ASSUME NEW x \in Serials \ {s} PROVE StateOf(x)' = StateOf(x)
  <2>1. answers'[x] = answers[x] /\ (x \in refused' <=> x \in refused)
    BY <1>1 DEF TypeOK
  <2> QED
    BY <2>1, <1>1 DEF StateOf
<1>6. CASE answers' = [answers EXCEPT ![s] = @ + 1]
  <2>1. answers'[s] > 0 /\ s \in sent'
    BY <1>6, <1>1, <1>2 DEF TypeOK
  <2>2. StateOf(s)' = "answered"
    BY <2>1, <1>2, <1>3 DEF StatesTold
  <2>3. States[s] = "pending" /\ States' = [States EXCEPT ![s] = "answered"]
    BY <2>2, <1>2, <1>4, <1>5, OneStateChanges
  <2>4. Service!Refuse(s)
    BY <2>3, <1>1, <1>6 DEF Service!Refuse, Service!Becomes, Service!Answered, States
  <2> QED
    BY <2>4, <1>2 DEF Service!Next
<1>7. CASE answers' = answers
  <2>1. StateOf(s)' = "dropped"
    BY <1>7, <1>1, <1>2, <1>3 DEF StatesTold
  <2>2. States[s] = "pending" /\ States' = [States EXCEPT ![s] = "dropped"]
    BY <2>1, <1>2, <1>4, <1>5, OneStateChanges
  <2>3. Service!Refuse(s)
    BY <2>2, <1>1, <1>7 DEF Service!Refuse, Service!Becomes, States
  <2> QED
    BY <2>3, <1>2 DEF Service!Next
<1> QED
  BY <1>1, <1>6, <1>7

LEMMA RefineAcknowledge ==
  ASSUME IInv, NEW t \in Vendor, AcknowledgeRequest(t)
  PROVE  Service!Next
<1> USE DEF IInv
<1>1. vreq[t] \in owed
  BY DEF AcknowledgeRequest, ThreadsSound, ThreadSound
<1> DEFINE s == vreq[t][2]
<1>2. /\ s \in Serials /\ token[vreq[t][1]] = s /\ s \in sent \ refused /\ answers[s] = 0
      /\ \A r \in completed : r[2] # s
  BY <1>1, RequestParts DEF OwedSound
<1>3. /\ acks' = acks \cup {s}
      /\ UNCHANGED <<sent, answers, refused, completed, ackExpected>>
  BY <1>2 DEF AcknowledgeRequest, binderVars
<1> HIDE DEF s
<1>4. States[s] = "pending"
  BY <1>2, StateCases DEF StatesTold, States
<1>5. States' = States
  BY <1>3, SameStates, NoStateChanges
<1>6. Service!Acknowledge(s)
  BY <1>3, <1>4, <1>5 DEF Service!Acknowledge, States
<1> QED
  BY <1>2, <1>6 DEF Service!Next

LEMMA RefineDecide ==
  ASSUME IInv, IInv', NEW t \in Vendor, NEW r \in owed, RIL_onRequestComplete(t, r)
  PROVE  Service!Next
<1> DEFINE s == r[2]
<1> USE DEF IInv
<1>1. /\ s \in Serials /\ s \in sent \ refused /\ answers[s] = 0
      /\ \A q \in completed : q[2] # s
  BY RequestParts DEF OwedSound
<1>2. /\ completed' = completed \cup {r}
      /\ UNCHANGED <<sent, answers, refused, acks, ackExpected>>
  BY DEF RIL_onRequestComplete, binderVars, clientVars
<1>3. \E q \in completed' : q[2] = s
  BY <1>2
<1>4. StatesTold /\ StatesTold'
  BY StateCases, StateCasesNext
<1>5. ASSUME NEW x \in Serials \ {s} PROVE StateOf(x)' = StateOf(x)
  <2>1. (\E q \in completed' : q[2] = x) <=> (\E q \in completed : q[2] = x)
    BY <1>2
  <2> QED
    BY <2>1, <1>2 DEF StateOf
<1> HIDE DEF s
<1>6. StateOf(s) = "pending" /\ StateOf(s)' = "decided"
  BY <1>1, <1>2, <1>3, <1>4 DEF StatesTold
<1>7. States[s] = "pending" /\ States' = [States EXCEPT ![s] = "decided"]
  BY <1>1, <1>5, <1>6, OneStateChanges
<1>8. Service!Decide(s)
  BY <1>2, <1>7 DEF Service!Decide, Service!Becomes, States
<1> QED
  BY <1>1, <1>8 DEF Service!Next

LEMMA RefineAnswer ==
  ASSUME IInv, IInv', NEW t \in Vendor, ResponseFunction(t)
  PROVE  Service!Next
<1> USE DEF IInv
<1>1. vpc[t] = "respond"
  BY DEF ResponseFunction
<1>0. PICK s \in Serials : s = vreq[t][2]
  BY <1>1, RequestParts DEF ThreadsSound, ThreadSound
<1>2. /\ vreq[t] \in completed /\ token[vreq[t][1]] = s /\ answers[s] = 0
      /\ wasAckSent[vreq[t][1]] <=> s \in acks
  BY <1>0, <1>1 DEF ThreadsSound, ThreadSound
<1>3. s \in sent \ refused
  BY <1>0, <1>2 DEF CompletedSound
<1>4. /\ answers' = [answers EXCEPT ![s] = @ + 1]
      /\ UNCHANGED <<sent, refused, completed, acks>>
  BY <1>2 DEF ResponseFunction, binderVars
<1>5. ackExpected' = IF Version13 /\ s \in acks THEN ackExpected \cup {s} ELSE ackExpected
  <2>1. ackExpected' = IF Version13 /\ wasAckSent[vreq[t][1]] THEN ackExpected \cup {s}
                       ELSE ackExpected
    BY <1>2 DEF ResponseFunction
  <2> QED
    BY <2>1, <1>2
<1>6. \E r \in completed : r[2] = s
  BY <1>0, <1>2
<1>7. StatesTold /\ StatesTold'
  BY StateCases, StateCasesNext
<1>8. answers'[s] > 0 /\ s \in sent'
  BY <1>2, <1>3, <1>4 DEF TypeOK
<1>9. StateOf(s) = "decided" /\ StateOf(s)' = "answered"
  BY <1>2, <1>3, <1>6, <1>7, <1>8 DEF StatesTold
<1>10. ASSUME NEW x \in Serials \ {s} PROVE StateOf(x)' = StateOf(x)
  <2>1. answers'[x] = answers[x]
    BY <1>4 DEF TypeOK
  <2> QED
    BY <2>1, <1>4 DEF StateOf
<1>11. States[s] = "decided" /\ States' = [States EXCEPT ![s] = "answered"]
  BY <1>3, <1>9, <1>10, OneStateChanges
<1>12. Service!Answer(s)
  BY <1>4, <1>5, <1>11 DEF Service!Answer, Service!Becomes, Service!Answered, States
<1> QED
  BY <1>3, <1>12 DEF Service!Next

(* The steps the client does not see.                                      *)
LEMMA RefineStutter ==
  ASSUME UNCHANGED <<sent, answers, refused, completed, acks, ackExpected>>
  PROVE  UNCHANGED Service!vars
<1>1. States' = States
  BY SameStates, NoStateChanges
<1> QED
  BY <1>1 DEF Service!vars, States

LEMMA RefineStep ==
  ASSUME IInv, IInv', ~StaleRepeats, [Next]_vars
  PROVE  [Service!Next]_(Service!vars)
<1> USE DEF vars, listVars, binderVars, vendorVars, clientVars
<1>1. ASSUME NEW s \in Serials, AddRequestToList(s) PROVE Service!Next
  BY <1>1, RefineAdd
<1>2. CASE OnRequest
  BY <1>2, RefineStutter DEF OnRequest
<1>3. CASE RefuseRequest
  BY <1>3, RefineRefuse
<1>4. ASSUME NEW t \in Vendor, NEW r \in owed \cup completed, RIL_onRequestAck(t, r)
      PROVE  UNCHANGED Service!vars
  BY <1>4, RefineStutter DEF RIL_onRequestAck
<1>5. ASSUME NEW t \in Vendor, NEW r \in owed \cup completed, RIL_onRequestComplete(t, r)
      PROVE  [Service!Next]_(Service!vars)
  <2>1. CASE r \in owed
    BY <2>1, <1>5, RefineDecide
  <2>2. CASE r \notin owed
    <3>1. UNCHANGED vars
      BY <2>2, <1>5, CompleteAgain
    <3> QED
      BY <3>1, RefineStutter
  <2> QED
    BY <2>1, <2>2
<1>6. ASSUME NEW t \in Vendor, AcknowledgeRequest(t) PROVE Service!Next
  BY <1>6, RefineAcknowledge
<1>7. ASSUME NEW t \in Vendor, ResponseFunction(t) PROVE Service!Next
  BY <1>7, RefineAnswer
<1>8. ASSUME NEW t \in Vendor, FreeRequest(t) PROVE UNCHANGED Service!vars
  BY <1>8, RefineStutter DEF FreeRequest
<1>9. CASE UNCHANGED vars
  BY <1>9, RefineStutter
<1> QED
  BY <1>1, <1>2, <1>3, <1>4, <1>5, <1>6, <1>7, <1>8, <1>9 DEF Next, BinderStep, VendorStep

(* The list of pending requests implements the service libril promises,    *)
(* its fairness apart: whatever the threads do, a request is answered at   *)
(* most once and not after it was dropped, acknowledged only before it is  *)
(* decided, and its answer asks for an acknowledgement exactly when the    *)
(* request was acknowledged itself.                                        *)
THEOREM ImplementsRequestService ==
  ASSUME ~StaleRepeats
  PROVE  Spec => Service!Init /\ [][Service!Next]_(Service!vars)
<1>1. Init => Service!Init
  BY RefineInit
<1>2. IInv /\ IInv' /\ [Next]_vars => [Service!Next]_(Service!vars)
  BY RefineStep
<1> QED
  BY <1>1, <1>2, Invariance, PTL DEF Spec
=============================================================================
