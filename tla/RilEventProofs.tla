--------------------------- MODULE RilEventProofs ---------------------------
(***************************************************************************)
(* Proofs about RilEvent for every number of threads that request timers,  *)
(* of timers and of ticks: the inductive invariant IInv, and from it that  *)
(* select() never sleeps past a timer unnoticed and that no timer is lost  *)
(* or fired twice.                                                         *)
(***************************************************************************)
EXTENDS RilEvent, SequenceTheorems, FiniteSetTheorems, WellFoundedInduction, TLAPS

-----------------------------------------------------------------------------
(* The inductive invariant.                                                *)

In(seq, n) == \E i \in 1..Len(seq) : seq[i] = n

(* No timer is in the list twice; the wakeup event may be.                 *)
Distinct(seq) ==
  \A i, j \in 1..Len(seq) : seq[i] = seq[j] /\ seq[i] # Wakeup => i = j

(* The timer list is in the order of the timers' times.                    *)
Sorted ==
  \A i, j \in 1..Len(timer_list) : i < j => timeout[timer_list[i]] <= timeout[timer_list[j]]

(* The times of the timers requested so far lie before the clock's bound.  *)
TimesBounded == \A n \in 1..added : timeout[n] < MaxTime

(* The loop proper runs with its pipe.                                     *)
PipeThere == lpc \in {"calc", "select", "timeouts", "readies", "fire"} => hasPipe

(* Each requested timer is in exactly one place.                           *)
Placed ==
  /\ Distinct(timer_list) /\ Distinct(pending_list)
  /\ \A n \in Timers : In(timer_list, n) => n \in 1..added /\ n \notin fired /\ ~In(pending_list, n)
  /\ \A n \in Timers : In(pending_list, n) => n \in 1..added /\ n \notin fired
  /\ \A n \in 1..added : In(timer_list, n) \/ In(pending_list, n) \/ n \in fired
  /\ fired \subseteq 1..added

IInv ==
  /\ TypeOK /\ Sorted /\ TimesBounded /\ PipeThere /\ Placed /\ NoOversleep

-----------------------------------------------------------------------------
(* Every set of naturals that is not empty has a least element: the scans  *)
(* of ril_timer_add and processTimeouts stop somewhere first.              *)
LEMMA LeastNatural ==
  ASSUME NEW T \in SUBSET Nat, NEW e \in T
  PROVE  \E m \in T : \A k \in T : m <= k
<1> DEFINE R == {p \in Nat \X Nat : p[1] < p[2]}
<1>1. IsWellFoundedOn(R, Nat)
  BY NatLessThanWellFounded DEF OpToRel
<1>2. PICK m \in T : \A k \in T : <<k, m>> \notin R
  <2> HIDE DEF R
  <2> QED
    BY <1>1, WFMin
<1>3. ASSUME NEW k \in T PROVE m <= k
  <2>1. m \in Nat /\ k \in Nat
    OBVIOUS
  <2>2. ~(k < m)
    BY <1>2, <2>1
  <2> QED
    BY <2>1, <2>2
<1> QED
  BY <1>3

(* InsertionPoint is a position of the list or the one behind it, with the *)
(* earlier timers in front of it and no earlier timer at it.               *)
LEMMA InsertionPointExists ==
  ASSUME TypeOK, NEW when \in Nat
  PROVE  /\ InsertionPoint(timer_list, when) \in 1..(Len(timer_list) + 1)
         /\ \A j \in 1..(InsertionPoint(timer_list, when) - 1) :
              timeout[timer_list[j]] < when
         /\ InsertionPoint(timer_list, when) <= Len(timer_list)
              => ~(timeout[timer_list[InsertionPoint(timer_list, when)]] < when)
<1> DEFINE T == {i \in 1..(Len(timer_list) + 1) :
                   i <= Len(timer_list) => ~(timeout[timer_list[i]] < when)}
           P(i) == /\ \A j \in 1..(i - 1) : timeout[timer_list[j]] < when
                   /\ i <= Len(timer_list) => ~(timeout[timer_list[i]] < when)
<1>1. Len(timer_list) \in Nat
  BY DEF TypeOK
<1>2. T \in SUBSET Nat /\ Len(timer_list) + 1 \in T
  BY <1>1
<1>3. PICK m \in T : \A k \in T : m <= k
  BY <1>2, LeastNatural
<1>4. m \in 1..(Len(timer_list) + 1) /\ (m <= Len(timer_list) => ~(timeout[timer_list[m]] < when))
  OBVIOUS
<1>5. ASSUME NEW j \in 1..(m - 1) PROVE timeout[timer_list[j]] < when
  <2>1. j \in 1..(Len(timer_list) + 1) /\ j <= Len(timer_list) /\ ~(m <= j)
    BY <1>1, <1>4
  <2>2. j \notin T
    BY <2>1, <1>3
  <2> QED
    BY <2>1, <2>2
<1>6. P(m)
  BY <1>4, <1>5
<1>7. InsertionPoint(timer_list, when) = CHOOSE i \in 1..(Len(timer_list) + 1) : P(i)
  BY DEF InsertionPoint
<1> HIDE DEF P
<1>8. /\ InsertionPoint(timer_list, when) \in 1..(Len(timer_list) + 1)
      /\ P(InsertionPoint(timer_list, when))
  BY <1>4, <1>6, <1>7
<1> QED
  BY <1>8 DEF P

(* The timers that have expired are a first part of the list.              *)
LEMMA ExpiredExists ==
  ASSUME TypeOK
  PROVE  Expired(timer_list) \in 0..Len(timer_list)
<1> DEFINE T == {k \in 0..Len(timer_list) :
                   k < Len(timer_list) => ~(now > timeout[timer_list[k + 1]])}
           P(k) == /\ \A i \in 1..k : now > timeout[timer_list[i]]
                   /\ k < Len(timer_list) => ~(now > timeout[timer_list[k + 1]])
<1>1. Len(timer_list) \in Nat
  BY DEF TypeOK
<1>2. T \in SUBSET Nat /\ Len(timer_list) \in T
  BY <1>1
<1>3. PICK m \in T : \A k \in T : m <= k
  BY <1>2, LeastNatural
<1>4. m \in 0..Len(timer_list) /\ (m < Len(timer_list) => ~(now > timeout[timer_list[m + 1]]))
  OBVIOUS
<1>5. ASSUME NEW i \in 1..m PROVE now > timeout[timer_list[i]]
  <2>1. i - 1 \in 0..Len(timer_list) /\ i - 1 < Len(timer_list) /\ ~(m <= i - 1) /\ (i - 1) + 1 = i
    BY <1>1, <1>4
  <2>2. i - 1 \notin T
    BY <2>1, <1>3
  <2> QED
    BY <2>1, <2>2
<1>6. P(m)
  BY <1>4, <1>5
<1>7. Expired(timer_list) = CHOOSE k \in 0..Len(timer_list) : P(k)
  BY DEF Expired
<1> HIDE DEF P
<1> QED
  BY <1>4, <1>6, <1>7

(* What ril_timer_add does to the list, the times and the counter.         *)
LEMMA TimerAddEffect ==
  ASSUME TypeOK, NEW delay \in Nat, ril_timer_add(delay)
  PROVE  \E p \in 1..(Len(timer_list) + 1) :
           /\ timer_list' \in Seq(Timers)
           /\ Len(timer_list') = Len(timer_list) + 1
           /\ \A k \in 1..Len(timer_list') :
                timer_list'[k] = IF k < p THEN timer_list[k]
                                 ELSE IF k = p THEN added + 1 ELSE timer_list[k - 1]
           /\ \A j \in 1..(p - 1) : timeout[timer_list[j]] < now + delay
           /\ p <= Len(timer_list) => ~(timeout[timer_list[p]] < now + delay)
<1>1. /\ timer_list \in Seq(Timers) /\ Len(timer_list) \in Nat
      /\ now + delay \in Nat /\ added + 1 \in Timers
  BY EventAssumption DEF TypeOK, ril_timer_add, Timers
<1>2. PICK p : p = InsertionPoint(timer_list, now + delay)
  OBVIOUS
<1>3. /\ p \in 1..(Len(timer_list) + 1)
      /\ \A j \in 1..(p - 1) : timeout[timer_list[j]] < now + delay
      /\ p <= Len(timer_list) => ~(timeout[timer_list[p]] < now + delay)
  BY <1>1, <1>2, InsertionPointExists
<1> DEFINE L == SubSeq(timer_list, 1, p - 1)
           R == SubSeq(timer_list, p, Len(timer_list))
           M == L \o <<added + 1>>
<1>4. timer_list' = M \o R
  BY <1>2 DEF ril_timer_add
<1>5. L \in Seq(Timers) /\ Len(L) = p - 1 /\ \A k \in 1..(p - 1) : L[k] = timer_list[k]
  BY <1>1, <1>3
<1>6. /\ R \in Seq(Timers) /\ Len(R) = Len(timer_list) - p + 1
      /\ \A k \in 1..(Len(timer_list) - p + 1) : R[k] = timer_list[p + k - 1]
  <2>1. \A i \in p..Len(timer_list) : timer_list[i] \in Timers
    BY <1>1, <1>3
  <2> QED
    BY <1>1, <1>3, <2>1, SubSeqProperties
<1> HIDE DEF L, R
<1>7. /\ M \in Seq(Timers) /\ Len(M) = p
      /\ \A k \in 1..p : M[k] = IF k < p THEN timer_list[k] ELSE added + 1
  <2>1. <<added + 1>> \in Seq(Timers) /\ Len(<<added + 1>>) = 1 /\ <<added + 1>>[1] = added + 1
    BY <1>1
  <2>2. M \in Seq(Timers) /\ Len(M) = p
    BY <1>3, <1>5, <2>1, ConcatProperties
  <2>3. ASSUME NEW k \in 1..p PROVE M[k] = IF k < p THEN timer_list[k] ELSE added + 1
    <3>1. M[k] = IF k <= Len(L) THEN L[k] ELSE <<added + 1>>[k - Len(L)]
      BY <1>3, <1>5, <2>1, ConcatProperties
    <3>2. CASE k < p
      BY <1>3, <1>5, <3>1, <3>2
    <3>3. CASE k = p
      <4>1. k - Len(L) = 1 /\ ~(k <= Len(L))
        BY <1>3, <1>5, <3>3
      <4> QED
        BY <1>3, <2>1, <3>1, <3>3, <4>1
    <3>4. k < p \/ k = p
      BY <1>1, <1>3
    <3> QED
      BY <3>2, <3>3, <3>4
  <2> QED
    BY <2>2, <2>3
<1> HIDE DEF M
<1>8. /\ timer_list' \in Seq(Timers)
      /\ Len(timer_list') = Len(timer_list) + 1
      /\ \A k \in 1..Len(timer_list') :
           timer_list'[k] = IF k <= p THEN M[k] ELSE R[k - p]
  BY <1>1, <1>3, <1>4, <1>6, <1>7, ConcatProperties
<1>9. ASSUME NEW k \in 1..Len(timer_list')
      PROVE  timer_list'[k] = IF k < p THEN timer_list[k]
                              ELSE IF k = p THEN added + 1 ELSE timer_list[k - 1]
  <2>1. CASE k <= p
    BY <1>3, <1>7, <1>8, <2>1
  <2>2. CASE k > p
    <3>1. k - p \in 1..(Len(timer_list) - p + 1) /\ p + (k - p) - 1 = k - 1
      BY <1>1, <1>3, <1>8, <2>2
    <3> QED
      BY <1>3, <1>6, <1>8, <2>2, <3>1
  <2> QED
    BY <1>1, <1>3, <1>8, <2>1, <2>2
<1> QED
  BY <1>3, <1>8, <1>9

(* ril_timer_add keeps the list in order and puts the new timer into it,   *)
(* once, and nothing else.                                                 *)
LEMMA TimerAddKeeps ==
  ASSUME TypeOK, Sorted, TimesBounded, Placed, NEW delay \in Nat, ril_timer_add(delay)
  PROVE  /\ timer_list' \in Seq(Timers) /\ timeout' \in [Timers -> Nat]
         /\ added' = added + 1 /\ added' \in 0..MaxTimers /\ added' \in Timers
         /\ Sorted' /\ TimesBounded' /\ Distinct(timer_list')
         /\ \A n : In(timer_list', n) <=> n = added + 1 \/ In(timer_list, n)
<1>1. PICK p \in 1..(Len(timer_list) + 1) :
           /\ timer_list' \in Seq(Timers)
           /\ Len(timer_list') = Len(timer_list) + 1
           /\ \A k \in 1..Len(timer_list') :
                timer_list'[k] = IF k < p THEN timer_list[k]
                                 ELSE IF k = p THEN added + 1 ELSE timer_list[k - 1]
           /\ \A j \in 1..(p - 1) : timeout[timer_list[j]] < now + delay
           /\ p <= Len(timer_list) => ~(timeout[timer_list[p]] < now + delay)
  BY TimerAddEffect
<1>2. /\ Len(timer_list) \in Nat /\ added \in Nat /\ added + 1 \in Timers
      /\ now + delay \in Nat /\ now + delay < MaxTime
      /\ \A i \in 1..Len(timer_list) : timer_list[i] \in Timers /\ timer_list[i] \in 1..added
  <2>1. \A i \in 1..Len(timer_list) : timer_list[i] \in Timers
    BY DEF TypeOK
  <2>2. \A i \in 1..Len(timer_list) : timer_list[i] \in 1..added
    BY <2>1 DEF Placed, In
  <2>3. Len(timer_list) \in Nat /\ added \in Nat /\ now \in Nat /\ added < MaxTimers
        /\ now + delay < MaxTime
    BY EventAssumption DEF TypeOK, ril_timer_add
  <2>4. added + 1 \in Timers
    BY <2>3, EventAssumption DEF Timers
  <2> QED
    BY <2>1, <2>2, <2>3, <2>4
<1>3. timeout' = [timeout EXCEPT ![added + 1] = now + delay] /\ added' = added + 1
  BY DEF ril_timer_add
<1>4. timeout' \in [Timers -> Nat] /\ timeout'[added + 1] = now + delay
      /\ \A n \in 1..added : timeout'[n] = timeout[n] /\ timeout[n] \in Nat
  BY <1>2, <1>3, EventAssumption DEF TypeOK, Timers
<1>5. TimesBounded'
  <2>1. ASSUME NEW n \in 1..(added + 1) PROVE timeout'[n] < MaxTime
    <3>1. n \in 1..added \/ n = added + 1
      BY <1>2
    <3> QED
      BY <1>2, <1>4, <3>1 DEF TimesBounded
  <2> QED
    BY <1>3, <2>1 DEF TimesBounded
<1>6. ASSUME NEW i \in 1..Len(timer_list)
      PROVE  timeout[timer_list[i]] \in Nat /\ (i >= p => timeout[timer_list[i]] >= now + delay)
  <2>1. timeout[timer_list[i]] \in Nat
    BY <1>2, <1>4
  <2>2. ASSUME i >= p PROVE timeout[timer_list[i]] >= now + delay
    <3>1. p \in 1..Len(timer_list) /\ timeout[timer_list[p]] >= now + delay
      BY <1>1, <1>2, <1>4, <2>2, SMTT(30)
    <3>2. i = p \/ timeout[timer_list[p]] <= timeout[timer_list[i]]
      BY <3>1, <2>2, <1>2 DEF Sorted
    <3>3. timeout[timer_list[p]] \in Nat
      BY <1>2, <1>4, <3>1
    <3> QED
      BY <2>1, <3>1, <3>2, <3>3, <1>2
  <2> QED
    BY <2>1, <2>2
<1>7. Sorted'
  <2>1. ASSUME NEW i \in 1..Len(timer_list'), NEW j \in 1..Len(timer_list'), i < j
        PROVE  timeout'[timer_list'[i]] <= timeout'[timer_list'[j]]
    <3>1. CASE j < p
      <4>1. i \in 1..Len(timer_list) /\ j \in 1..Len(timer_list)
            /\ timer_list'[i] = timer_list[i] /\ timer_list'[j] = timer_list[j]
        BY <1>1, <1>2, <2>1, <3>1
      <4> QED
        BY <1>2, <1>4, <2>1, <4>1 DEF Sorted
    <3>2. CASE j = p
      <4>1. i \in 1..Len(timer_list) /\ i \in 1..(p - 1)
            /\ timer_list'[i] = timer_list[i] /\ timer_list'[j] = added + 1
        BY <1>1, <1>2, <2>1, <3>2
      <4>2. timeout'[timer_list'[i]] = timeout[timer_list[i]] /\ timeout[timer_list[i]] \in Nat
        BY <1>2, <1>4, <4>1
      <4>3. timeout[timer_list[i]] < now + delay
        BY <1>1, <4>1
      <4> QED
        BY <1>2, <1>4, <4>1, <4>2, <4>3
    <3>3. CASE j > p /\ i < p
      <4>1. i \in 1..Len(timer_list) /\ j - 1 \in 1..Len(timer_list) /\ i < j - 1
            /\ timer_list'[i] = timer_list[i] /\ timer_list'[j] = timer_list[j - 1]
        BY <1>1, <1>2, <2>1, <3>3
      <4> QED
        BY <1>2, <1>4, <4>1 DEF Sorted
    <3>4. CASE j > p /\ i = p
      <4>1. j - 1 \in 1..Len(timer_list) /\ j - 1 >= p
            /\ timer_list'[i] = added + 1 /\ timer_list'[j] = timer_list[j - 1]
        BY <1>1, <1>2, <2>1, <3>4
      <4> QED
        BY <1>2, <1>4, <1>6, <4>1
    <3>5. CASE j > p /\ i > p
      <4>1. i - 1 \in 1..Len(timer_list) /\ j - 1 \in 1..Len(timer_list) /\ i - 1 < j - 1
            /\ timer_list'[i] = timer_list[i - 1] /\ timer_list'[j] = timer_list[j - 1]
        BY <1>1, <1>2, <2>1, <3>5
      <4> QED
        BY <1>2, <1>4, <4>1 DEF Sorted
    <3> QED
      BY <1>1, <1>2, <3>1, <3>2, <3>3, <3>4, <3>5
  <2> QED
    BY <2>1 DEF Sorted
<1>8. ASSUME NEW n PROVE In(timer_list', n) <=> n = added + 1 \/ In(timer_list, n)
  <2>1. ASSUME In(timer_list', n) PROVE n = added + 1 \/ In(timer_list, n)
    <3>1. PICK k \in 1..Len(timer_list') : timer_list'[k] = n
      BY <2>1 DEF In
    <3>2. CASE k < p
      BY <1>1, <1>2, <3>1, <3>2, SMTT(30) DEF In
    <3>3. CASE k > p
      <4>1. k - 1 \in 1..Len(timer_list) /\ timer_list[k - 1] = n
        BY <1>1, <1>2, <3>1, <3>3
      <4> QED
        BY <4>1 DEF In
    <3> QED
      BY <1>1, <1>2, <3>1, <3>2, <3>3
  <2>2. p \in 1..Len(timer_list') /\ timer_list'[p] = added + 1
    BY <1>1, <1>2
  <2>3. ASSUME NEW k \in 1..Len(timer_list), timer_list[k] = n PROVE In(timer_list', n)
    <3>1. CASE k < p
      <4>1. k \in 1..Len(timer_list') /\ timer_list'[k] = n
        BY <1>1, <1>2, <2>3, <3>1
      <4> QED
        BY <4>1 DEF In
    <3>2. CASE k >= p
      <4>1. k + 1 \in 1..Len(timer_list') /\ ~(k + 1 < p) /\ k + 1 # p /\ (k + 1) - 1 = k
        BY <1>1, <1>2, <3>2
      <4>2. timer_list'[k + 1] = n
        BY <1>1, <2>3, <4>1
      <4> QED
        BY <4>1, <4>2 DEF In
    <3> QED
      BY <1>1, <1>2, <3>1, <3>2
  <2> QED
    BY <2>1, <2>2, <2>3 DEF In
<1>9. Distinct(timer_list')
  <2>1. ASSUME NEW i \in 1..Len(timer_list'), NEW j \in 1..Len(timer_list'), i < j
        PROVE  timer_list'[i] # timer_list'[j]
    <3>1. added + 1 \notin 1..added
      BY <1>2
    <3>2. ASSUME NEW k \in 1..Len(timer_list), NEW l \in 1..Len(timer_list), k # l
          PROVE  timer_list[k] # timer_list[l]
      BY <3>2, <1>2 DEF Placed, Distinct, Wakeup
    <3>3. CASE j < p
      BY <1>1, <1>2, <2>1, <3>2, <3>3, SMTT(30)
    <3>4. CASE j = p \/ i = p
      BY <1>1, <1>2, <2>1, <3>1, <3>4, SMTT(30)
    <3>5. CASE i < p /\ j > p
      <4>1. j - 1 \in 1..Len(timer_list) /\ i \in 1..Len(timer_list) /\ i # j - 1
            /\ timer_list'[i] = timer_list[i] /\ timer_list'[j] = timer_list[j - 1]
        BY <1>1, <1>2, <3>5
      <4> QED
        BY <3>2, <4>1
    <3>6. CASE i > p
      <4>1. i - 1 \in 1..Len(timer_list) /\ j - 1 \in 1..Len(timer_list) /\ i - 1 # j - 1
            /\ timer_list'[i] = timer_list[i - 1] /\ timer_list'[j] = timer_list[j - 1]
        BY <1>1, <1>2, <2>1, <3>6
      <4> QED
        BY <3>2, <4>1
    <3> QED
      BY <1>1, <1>2, <2>1, <3>3, <3>4, <3>5, <3>6
  <2>2. \A i, j \in 1..Len(timer_list') : i < j \/ j < i \/ i = j
    BY <1>1, <1>2
  <2> QED
    BY <2>1, <2>2 DEF Distinct
<1>10. added' \in 0..MaxTimers /\ added' \in Timers
  BY <1>2, <1>3, EventAssumption DEF Timers
<1> QED
  BY <1>1, <1>3, <1>4, <1>5, <1>7, <1>8, <1>9, <1>10

(* processTimeouts moves a first part of the list behind the pending ones. *)
LEMMA ExpireEffect ==
  ASSUME TypeOK, Sorted, Placed, processTimeouts
  PROVE  /\ timer_list' \in Seq(Timers) /\ pending_list' \in Seq(Timers \cup {Wakeup})
         /\ Sorted' /\ Distinct(timer_list') /\ Distinct(pending_list')
         /\ \A n : In(timer_list', n) => In(timer_list, n) /\ ~In(pending_list', n)
         /\ \A n \in Timers : In(pending_list', n) => In(pending_list, n) \/ In(timer_list, n)
         /\ \A n : In(timer_list, n) \/ In(pending_list, n)
                     => In(timer_list', n) \/ In(pending_list', n)
<1> DEFINE N == Timers \cup {Wakeup}
<1>1. PICK k : k = Expired(timer_list)
  OBVIOUS
<1>2. /\ timer_list \in Seq(Timers) /\ Len(timer_list) \in Nat
      /\ pending_list \in Seq(N) /\ Len(pending_list) \in Nat
      /\ k \in 0..Len(timer_list)
  BY <1>1, ExpiredExists DEF TypeOK
<1> DEFINE F == SubSeq(timer_list, 1, k)
<1>3. timer_list' = SubSeq(timer_list, k + 1, Len(timer_list)) /\ pending_list' = pending_list \o F
      /\ timeout' = timeout
  BY <1>1 DEF processTimeouts
<1>4. /\ timer_list' \in Seq(Timers) /\ Len(timer_list') = Len(timer_list) - k
      /\ \A i \in 1..Len(timer_list') :
           i + k \in 1..Len(timer_list) /\ timer_list'[i] = timer_list[i + k]
  <2>1. \A i \in (k + 1)..Len(timer_list) : timer_list[i] \in Timers
    BY <1>2
  <2>2. /\ timer_list' \in Seq(Timers) /\ Len(timer_list') = Len(timer_list) - k
        /\ \A i \in 1..(Len(timer_list) - (k + 1) + 1) : timer_list'[i] = timer_list[(k + 1) + i - 1]
    BY <1>2, <1>3, <2>1, SubSeqProperties
  <2>3. ASSUME NEW i \in 1..Len(timer_list')
        PROVE  i + k \in 1..Len(timer_list) /\ timer_list'[i] = timer_list[i + k]
    <3>1. i + k \in 1..Len(timer_list) /\ (k + 1) + i - 1 = i + k
          /\ i \in 1..(Len(timer_list) - (k + 1) + 1)
      BY <1>2, <2>2
    <3> QED
      BY <2>2, <3>1
  <2> QED
    BY <2>2, <2>3
<1>5. /\ F \in Seq(N) /\ Len(F) = k
      /\ \A i \in 1..k : i \in 1..Len(timer_list) /\ F[i] = timer_list[i]
  <2>1. \A i \in 1..k : timer_list[i] \in N
    BY <1>2
  <2> QED
    BY <1>2, <2>1, SubSeqProperties
<1> HIDE DEF F, N
<1>6. /\ pending_list' \in Seq(N) /\ Len(pending_list') = Len(pending_list) + k
      /\ \A i \in 1..Len(pending_list') :
           pending_list'[i] = IF i <= Len(pending_list) THEN pending_list[i]
                              ELSE F[i - Len(pending_list)]
  <2>1. /\ pending_list \o F \in Seq(N)
        /\ Len(pending_list \o F) = Len(pending_list) + Len(F)
        /\ \A i \in 1..(Len(pending_list) + Len(F)) :
             (pending_list \o F)[i] = IF i <= Len(pending_list) THEN pending_list[i]
                                      ELSE F[i - Len(pending_list)]
    BY <1>2, <1>5, ConcatProperties
  <2> QED
    BY <1>3, <1>5, <2>1
<1>7. ASSUME NEW i \in 1..Len(pending_list')
      PROVE  \/ i \in 1..Len(pending_list) /\ pending_list'[i] = pending_list[i]
             \/ /\ i > Len(pending_list) /\ i - Len(pending_list) \in 1..k
                /\ i - Len(pending_list) \in 1..Len(timer_list)
                /\ pending_list'[i] = timer_list[i - Len(pending_list)]
  <2>1. CASE i <= Len(pending_list)
    BY <1>2, <1>6, <2>1
  <2>2. CASE i > Len(pending_list)
    <3>1. i - Len(pending_list) \in 1..k
      BY <1>2, <1>6, <2>2
    <3> QED
      BY <1>2, <1>5, <1>6, <2>2, <3>1
  <2> QED
    BY <1>2, <1>6, <2>1, <2>2
<1>8. ASSUME NEW i \in 1..Len(timer_list), NEW j \in 1..Len(timer_list), timer_list[i] = timer_list[j]
      PROVE  i = j
  <2>1. timer_list[i] \in Timers
    BY <1>2
  <2>2. timer_list[i] # Wakeup
    BY <2>1, EventAssumption DEF Timers, Wakeup
  <2> QED
    BY <1>8, <2>2 DEF Placed, Distinct
<1>9. ASSUME NEW i \in 1..Len(timer_list), NEW j \in 1..Len(pending_list)
      PROVE  timer_list[i] # pending_list[j]
  <2>1. timer_list[i] \in Timers /\ In(timer_list, timer_list[i])
    BY <1>2 DEF In
  <2>2. ~In(pending_list, timer_list[i])
    BY <2>1 DEF Placed
  <2> QED
    BY <2>2 DEF In
<1>10. Sorted'
  <2>1. ASSUME NEW i \in 1..Len(timer_list'), NEW j \in 1..Len(timer_list'), i < j
        PROVE  timeout[timer_list'[i]] <= timeout[timer_list'[j]]
    <3>1. i + k < j + k
      BY <1>2, <1>4, <2>1
    <3> QED
      BY <1>4, <3>1 DEF Sorted
  <2> QED
    BY <1>3, <2>1 DEF Sorted
<1>11. Distinct(timer_list')
  <2>1. ASSUME NEW i \in 1..Len(timer_list'), NEW j \in 1..Len(timer_list'),
               timer_list'[i] = timer_list'[j]
        PROVE  i = j
    <3>1. i + k = j + k
      BY <1>4, <1>8, <2>1
    <3> QED
      BY <1>2, <1>4, <3>1
  <2> QED
    BY <2>1 DEF Distinct
<1>12. Distinct(pending_list')
  <2>1. ASSUME NEW i \in 1..Len(pending_list'), NEW j \in 1..Len(pending_list'),
               pending_list'[i] = pending_list'[j], pending_list'[i] # Wakeup
        PROVE  i = j
    <3>1. CASE i \in 1..Len(pending_list) /\ j \in 1..Len(pending_list)
      BY <1>2, <1>7, <2>1, <3>1 DEF Placed, Distinct
    <3>2. CASE i > Len(pending_list) /\ j > Len(pending_list)
      <4>1. i - Len(pending_list) = j - Len(pending_list)
        BY <1>2, <1>7, <1>8, <2>1, <3>2, SMTT(30)
      <4> QED
        BY <1>2, <1>6, <4>1
    <3>3. CASE i \in 1..Len(pending_list) /\ j > Len(pending_list)
      <4>1. pending_list'[i] = pending_list[i]
        BY <1>2, <1>7, <3>3
      <4>2. j - Len(pending_list) \in 1..Len(timer_list)
            /\ pending_list'[j] = timer_list[j - Len(pending_list)]
        BY <1>2, <1>7, <3>3
      <4> QED
        BY <1>9, <2>1, <3>3, <4>1, <4>2
    <3>4. CASE i > Len(pending_list) /\ j \in 1..Len(pending_list)
      <4>1. pending_list'[j] = pending_list[j]
        BY <1>2, <1>7, <3>4
      <4>2. i - Len(pending_list) \in 1..Len(timer_list)
            /\ pending_list'[i] = timer_list[i - Len(pending_list)]
        BY <1>2, <1>7, <3>4
      <4> QED
        BY <1>9, <2>1, <3>4, <4>1, <4>2
    <3> QED
      BY <1>7, <3>1, <3>2, <3>3, <3>4
  <2> QED
    BY <2>1 DEF Distinct
<1>13. ASSUME NEW n, In(timer_list', n) PROVE In(timer_list, n) /\ ~In(pending_list', n)
  <2>1. PICK i \in 1..Len(timer_list') : timer_list'[i] = n
    BY <1>13 DEF In
  <2>2. i + k \in 1..Len(timer_list) /\ timer_list[i + k] = n
    BY <1>4, <2>1
  <2>3. ASSUME NEW j \in 1..Len(pending_list'), pending_list'[j] = n PROVE FALSE
    <3>1. CASE j \in 1..Len(pending_list) /\ pending_list'[j] = pending_list[j]
      BY <1>9, <2>2, <2>3, <3>1
    <3>2. CASE j - Len(pending_list) \in 1..k /\ j - Len(pending_list) \in 1..Len(timer_list)
               /\ pending_list'[j] = timer_list[j - Len(pending_list)]
      <4>1. j - Len(pending_list) = i + k
        BY <1>8, <2>2, <2>3, <3>2
      <4> QED
        BY <1>2, <1>4, <3>2, <4>1
    <3> QED
      BY <1>7, <3>1, <3>2
  <2> QED
    BY <2>2, <2>3 DEF In
<1>14. ASSUME NEW n \in Timers, In(pending_list', n) PROVE In(pending_list, n) \/ In(timer_list, n)
  BY <1>7, <1>14 DEF In
<1>15. ASSUME NEW n, In(timer_list, n) \/ In(pending_list, n)
       PROVE  In(timer_list', n) \/ In(pending_list', n)
  <2>1. ASSUME NEW i \in 1..Len(pending_list), pending_list[i] = n PROVE In(pending_list', n)
    <3>1. i \in 1..Len(pending_list') /\ i <= Len(pending_list)
      BY <1>2, <1>6
    <3>2. pending_list'[i] = n
      BY <1>6, <2>1, <3>1
    <3> QED
      BY <3>1, <3>2 DEF In
  <2>2. ASSUME NEW i \in 1..Len(timer_list), timer_list[i] = n, i <= k PROVE In(pending_list', n)
    <3>1. /\ i + Len(pending_list) \in 1..Len(pending_list')
          /\ ~(i + Len(pending_list) <= Len(pending_list))
          /\ (i + Len(pending_list)) - Len(pending_list) = i /\ i \in 1..k
      BY <1>2, <1>6, <2>2
    <3>2. pending_list'[i + Len(pending_list)] = n
      BY <1>5, <1>6, <2>2, <3>1
    <3> QED
      BY <3>1, <3>2 DEF In
  <2>3. ASSUME NEW i \in 1..Len(timer_list), timer_list[i] = n, i > k PROVE In(timer_list', n)
    <3>1. i - k \in 1..Len(timer_list') /\ (i - k) + k = i
      BY <1>2, <1>4, <2>3
    <3> QED
      BY <1>4, <2>3, <3>1 DEF In
  <2>4. \A i \in 1..Len(timer_list) : i <= k \/ i > k
    BY <1>2
  <2> QED
    BY <1>15, <2>1, <2>2, <2>3, <2>4 DEF In
<1> QED
  BY <1>4, <1>6, <1>10, <1>11, <1>12, <1>13, <1>14, <1>15 DEF N

(* Taking the first of the pending events off its list.                    *)
LEMMA HeadTaken ==
  ASSUME TypeOK, Placed, pending_list # <<>>, pending_list' = Tail(pending_list)
  PROVE  /\ pending_list' \in Seq(Timers \cup {Wakeup})
         /\ Head(pending_list) \in Timers \cup {Wakeup}
         /\ In(pending_list, Head(pending_list))
         /\ Distinct(pending_list')
         /\ \A n : In(pending_list', n) => In(pending_list, n)
         /\ \A n \in Timers : In(pending_list, n) =>
              (In(pending_list', n) <=> n # Head(pending_list))
<1>1. /\ pending_list \in Seq(Timers \cup {Wakeup}) /\ Len(pending_list) \in Nat \ {0}
      /\ Head(pending_list) = pending_list[1] /\ 1 \in 1..Len(pending_list)
      /\ pending_list[1] \in Timers \cup {Wakeup}
  BY DEF TypeOK
<1>2. /\ pending_list' \in Seq(Timers \cup {Wakeup}) /\ Len(pending_list') = Len(pending_list) - 1
      /\ \A i \in 1..Len(pending_list') :
           i + 1 \in 1..Len(pending_list) /\ i + 1 # 1 /\ pending_list'[i] = pending_list[i + 1]
  BY <1>1
<1>3. ASSUME NEW i \in 1..Len(pending_list'), NEW j \in 1..Len(pending_list'),
             pending_list'[i] = pending_list'[j], pending_list'[i] # Wakeup
      PROVE  i = j
  <2>1. i + 1 = j + 1
    BY <1>2, <1>3 DEF Placed, Distinct
  <2> QED
    BY <1>1, <1>2, <2>1
<1>4. ASSUME NEW n, In(pending_list', n) PROVE In(pending_list, n)
  BY <1>2, <1>4 DEF In
<1>5. ASSUME NEW n \in Timers, In(pending_list, n)
      PROVE  In(pending_list', n) <=> n # Head(pending_list)
  <2>1. n # Wakeup
    BY DEF Timers, Wakeup
  <2>2. ASSUME In(pending_list', n), n = Head(pending_list) PROVE FALSE
    <3>1. PICK i \in 1..Len(pending_list') : pending_list'[i] = n
      BY <2>2 DEF In
    <3>2. pending_list[i + 1] = pending_list[1] /\ pending_list[1] # Wakeup
      BY <1>1, <1>2, <2>1, <2>2, <3>1
    <3> QED
      BY <1>1, <1>2, <3>2 DEF Placed, Distinct
  <2>3. ASSUME n # Head(pending_list) PROVE In(pending_list', n)
    <3>1. PICK i \in 1..Len(pending_list) : pending_list[i] = n
      BY <1>5 DEF In
    <3>2. i # 1
      BY <1>1, <2>3, <3>1
    <3>3. i - 1 \in 1..Len(pending_list') /\ (i - 1) + 1 = i
      BY <1>1, <1>2, <3>2
    <3> QED
      BY <1>2, <3>1, <3>3 DEF In
  <2> QED
    BY <2>2, <2>3
<1> QED
  BY <1>1, <1>2, <1>3, <1>4, <1>5 DEF In, Distinct

-----------------------------------------------------------------------------
LEMMA InitHolds == Init => IInv
<1> SUFFICES ASSUME Init PROVE IInv
  OBVIOUS
<1> USE EventAssumption DEF Init
<1>1. TypeOK
  <2>1. /\ now \in 0..MaxTime /\ added \in 0..MaxTimers /\ deadline \in 0..Forever
        /\ bytes \in Nat /\ timeout \in [Timers -> Nat] /\ fired \subseteq Timers
        /\ timer_list \in Seq(Timers) /\ pending_list \in Seq(Timers \cup {Wakeup})
    BY DEF Forever
  <2>2. hasPipe \in BOOLEAN /\ ready \in BOOLEAN
    BY Zenon
  <2>3. apc \in [Adders -> {"idle", "trigger"}]
    OBVIOUS
  <2> QED
    BY <2>1, <2>2, <2>3 DEF TypeOK
<1>2. Sorted /\ TimesBounded /\ PipeThere /\ NoOversleep
  BY DEF Sorted, TimesBounded, PipeThere, NoOversleep
<1>3. Placed
  BY DEF Placed, Distinct, In
<1> QED
  BY <1>1, <1>2, <1>3 DEF IInv

(* A step that leaves the timers, the pending events and their times alone.*)
LEMMA TimersKept ==
  ASSUME Sorted, TimesBounded, Placed,
         UNCHANGED <<timer_list, timeout, added, pending_list, fired>>
  PROVE  Sorted' /\ TimesBounded' /\ Placed'
  BY DEF Sorted, TimesBounded, Placed, Distinct, In

LEMMA RequestTimedCallbackStep ==
  ASSUME IInv, NEW a \in Adders, NEW d \in Delays, RequestTimedCallback(a, d)
  PROVE  IInv'
<1>0. /\ TypeOK /\ Sorted /\ TimesBounded /\ PipeThere /\ Placed
      /\ d \in Nat /\ ril_timer_add(d)
  BY EventAssumption DEF IInv, RequestTimedCallback
<1>1. /\ UNCHANGED <<now, pending_list, fired, bytes, hasPipe, lpc, deadline, ready>>
      /\ apc' = [apc EXCEPT ![a] = "trigger"]
  BY DEF RequestTimedCallback, loopVars
<1>2. /\ timer_list' \in Seq(Timers) /\ timeout' \in [Timers -> Nat]
      /\ added' = added + 1 /\ added' \in 0..MaxTimers /\ added' \in Timers
      /\ Sorted' /\ TimesBounded' /\ Distinct(timer_list')
      /\ \A n : In(timer_list', n) <=> n = added + 1 \/ In(timer_list, n)
  BY <1>0, TimerAddKeeps
<1>3. TypeOK'
  BY <1>0, <1>1, <1>2 DEF TypeOK
<1>4. PipeThere'
  BY <1>0, <1>1 DEF PipeThere
<1>5. added \in Nat
  BY <1>0, EventAssumption DEF TypeOK
<1>6. Placed'
  <2>1. Distinct(timer_list') /\ Distinct(pending_list')
    BY <1>0, <1>1, <1>2 DEF Placed
  <2>2. added + 1 \notin fired /\ ~In(pending_list, added + 1)
    BY <1>0, <1>2, <1>5 DEF Placed
  <2>3. ASSUME NEW n \in Timers, In(timer_list', n)
        PROVE  n \in 1..added' /\ n \notin fired /\ ~In(pending_list, n)
    BY <1>0, <1>2, <1>5, <2>2, <2>3 DEF Placed
  <2>4. ASSUME NEW n \in Timers, In(pending_list, n) PROVE n \in 1..added' /\ n \notin fired
    BY <1>0, <1>2, <1>5, <2>4 DEF Placed
  <2>5. ASSUME NEW n \in 1..added' PROVE In(timer_list', n) \/ In(pending_list, n) \/ n \in fired
    <3>1. n = added + 1 \/ n \in 1..added
      BY <1>2, <1>5
    <3> QED
      BY <1>0, <1>2, <3>1 DEF Placed
  <2>6. fired \subseteq 1..added'
    BY <1>0, <1>2, <1>5 DEF Placed
  <2> QED
    BY <1>1, <2>1, <2>3, <2>4, <2>5, <2>6 DEF Placed
<1>7. NoOversleep'
  <2>1. apc'[a] = "trigger"
    BY <1>0, <1>1 DEF TypeOK
  <2> QED
    BY <2>1 DEF NoOversleep
<1> QED
  BY <1>2, <1>3, <1>4, <1>6, <1>7 DEF IInv

LEMMA TriggerEvLoopStep ==
  ASSUME IInv, NEW a \in Adders, TriggerEvLoop(a)
  PROVE  IInv'
<1>0. TypeOK /\ Sorted /\ TimesBounded /\ PipeThere /\ Placed /\ NoOversleep
  BY DEF IInv
<1>1. /\ bytes' = IF hasPipe THEN bytes + 1 ELSE bytes
      /\ UNCHANGED <<now, timer_list, timeout, added, pending_list, fired, hasPipe, lpc,
                     deadline, ready>>
      /\ apc' = [apc EXCEPT ![a] = "idle"]
  BY DEF TriggerEvLoop, timerVars, loopVars
<1>2. TypeOK'
  BY <1>0, <1>1 DEF TypeOK
<1>3. Sorted' /\ TimesBounded' /\ Placed'
  BY <1>0, <1>1, TimersKept
<1>4. PipeThere'
  BY <1>0, <1>1 DEF PipeThere
<1>5. NoOversleep'
  <2>1. lpc = "select" => bytes' > 0
    BY <1>0, <1>1 DEF PipeThere, TypeOK
  <2> QED
    BY <1>1, <2>1 DEF NoOversleep
<1> QED
  BY <1>2, <1>3, <1>4, <1>5 DEF IInv

(* select() is given the time of the first timer, which is the earliest.   *)
LEMMA CalcNextTimeoutStep ==
  ASSUME IInv, calcNextTimeout
  PROVE  IInv'
<1>0. TypeOK /\ Sorted /\ TimesBounded /\ PipeThere /\ Placed
  BY DEF IInv
<1>1. /\ deadline' = IF timer_list = <<>> THEN Forever
                     ELSE IF timeout[timer_list[1]] > now THEN timeout[timer_list[1]]
                     ELSE now
      /\ lpc = "calc" /\ lpc' = "select"
      /\ UNCHANGED <<now, timer_list, timeout, added, pending_list, fired, bytes, hasPipe,
                     ready, apc>>
  BY DEF calcNextTimeout, timerVars
<1>2. ASSUME timer_list # <<>>
      PROVE  1 \in 1..Len(timer_list) /\ timeout[timer_list[1]] \in 0..MaxTime
  <2>1. 1 \in 1..Len(timer_list) /\ timer_list[1] \in Timers
    BY <1>0, <1>2 DEF TypeOK
  <2>2. timer_list[1] \in 1..added
    BY <1>0, <2>1 DEF Placed, In
  <2> QED
    BY <1>0, <2>1, <2>2, EventAssumption DEF TimesBounded, TypeOK
<1>3. now \in 0..MaxTime /\ MaxTime \in Nat
  BY <1>0, EventAssumption DEF TypeOK
<1>4. deadline' \in 0..Forever
  BY <1>1, <1>2, <1>3 DEF Forever
<1>5. TypeOK'
  BY <1>0, <1>1, <1>4 DEF TypeOK
<1>6. Sorted' /\ TimesBounded' /\ Placed'
  BY <1>0, <1>1, TimersKept
<1>7. PipeThere'
  BY <1>0, <1>1 DEF PipeThere
<1>8. NoOversleep'
  <2>1. ASSUME NEW i \in 1..Len(timer_list), timeout[timer_list[i]] < deadline' PROVE now >= deadline'
    <3>1. timer_list # <<>> /\ Len(timer_list) \in Nat
      BY <1>0 DEF TypeOK
    <3>2. timeout[timer_list[1]] <= timeout[timer_list[i]]
      <4>1. CASE i = 1
        BY <4>1, <1>2, <1>3, <3>1
      <4>2. CASE i > 1
        BY <4>2, <1>0, <1>2, <3>1 DEF Sorted
      <4> QED
        BY <4>1, <4>2, <3>1
    <3>3. timeout[timer_list[i]] \in Nat
      <4>1. timer_list[i] \in Timers
        BY <1>0 DEF TypeOK
      <4> QED
        BY <4>1, <1>0 DEF TypeOK
    <3> QED
      BY <1>1, <1>2, <1>3, <2>1, <3>1, <3>2, <3>3
  <2> QED
    BY <1>1, <2>1 DEF NoOversleep
<1> QED
  BY <1>5, <1>6, <1>7, <1>8 DEF IInv

(* The steps of the event thread that touch no timer.                      *)
LEMMA LoopMoves ==
  ASSUME IInv, EventInit \/ CreatePipe \/ Select \/ SelectInterrupted \/ PendingDone
  PROVE  IInv'
<1>0. TypeOK /\ Sorted /\ TimesBounded /\ PipeThere /\ Placed
  BY DEF IInv
<1> USE DEF EventInit, CreatePipe, Select, SelectInterrupted, PendingDone, timerVars
<1>1. TypeOK'
  <2>1. CASE EventInit \/ SelectInterrupted \/ PendingDone
    BY <1>0, <2>1 DEF TypeOK
  <2>2. CASE CreatePipe
    <3>1. hasPipe \in BOOLEAN
      BY <1>0 DEF TypeOK
    <3>2. hasPipe' \in BOOLEAN
      BY <2>2, <3>1, Zenon
    <3>3. bytes' \in Nat /\ lpc' \in {"calc", "ended"}
      BY <1>0, <2>2 DEF TypeOK
    <3> QED
      BY <1>0, <2>2, <3>2, <3>3 DEF TypeOK
  <2>3. CASE Select
    <3>1. ready' \in BOOLEAN
      BY <2>3
    <3> QED
      BY <1>0, <2>3, <3>1 DEF TypeOK
  <2> QED
    BY <2>1, <2>2, <2>3
<1>2. Sorted' /\ TimesBounded' /\ Placed'
  BY <1>0, TimersKept
<1>3. PipeThere'
  BY <1>0 DEF PipeThere
<1>4. NoOversleep'
  BY DEF NoOversleep
<1> QED
  BY <1>1, <1>2, <1>3, <1>4 DEF IInv

LEMMA ProcessTimeoutsStep ==
  ASSUME IInv, processTimeouts
  PROVE  IInv'
<1>0. TypeOK /\ Sorted /\ TimesBounded /\ PipeThere /\ Placed
  BY DEF IInv
<1>1. /\ lpc = "timeouts" /\ lpc' = "readies"
      /\ UNCHANGED <<now, timeout, added, fired, bytes, hasPipe, deadline, ready, apc>>
  BY DEF processTimeouts
<1>2. /\ timer_list' \in Seq(Timers) /\ pending_list' \in Seq(Timers \cup {Wakeup})
      /\ Sorted' /\ Distinct(timer_list') /\ Distinct(pending_list')
      /\ \A n : In(timer_list', n) => In(timer_list, n) /\ ~In(pending_list', n)
      /\ \A n \in Timers : In(pending_list', n) => In(pending_list, n) \/ In(timer_list, n)
      /\ \A n : In(timer_list, n) \/ In(pending_list, n)
                  => In(timer_list', n) \/ In(pending_list', n)
  BY <1>0, ExpireEffect
<1>3. TypeOK'
  BY <1>0, <1>1, <1>2 DEF TypeOK
<1>4. TimesBounded' /\ PipeThere' /\ NoOversleep'
  BY <1>0, <1>1 DEF TimesBounded, PipeThere, NoOversleep
<1>5. Placed'
  BY <1>0, <1>1, <1>2 DEF Placed
<1> QED
  BY <1>2, <1>3, <1>4, <1>5 DEF IInv

LEMMA ProcessReadReadiesStep ==
  ASSUME IInv, processReadReadies
  PROVE  IInv'
<1>0. TypeOK /\ Sorted /\ TimesBounded /\ PipeThere /\ Placed
  BY DEF IInv
<1>1. /\ pending_list' = pending_list \/ pending_list' = Append(pending_list, Wakeup)
      /\ lpc = "readies" /\ lpc' = "fire"
      /\ UNCHANGED <<now, timer_list, timeout, added, fired, bytes, hasPipe, deadline, ready, apc>>
  BY DEF processReadReadies, timerVars
<1>2. PipeThere' /\ NoOversleep'
  BY <1>0, <1>1 DEF PipeThere, NoOversleep
<1>3. CASE pending_list' = pending_list
  <2>1. TypeOK'
    BY <1>0, <1>1, <1>3 DEF TypeOK
  <2>2. Sorted' /\ TimesBounded' /\ Placed'
    BY <1>0, <1>1, <1>3, TimersKept
  <2> QED
    BY <1>2, <2>1, <2>2 DEF IInv
<1>4. CASE pending_list' = Append(pending_list, Wakeup)
  <2>1. /\ pending_list' \in Seq(Timers \cup {Wakeup}) /\ Len(pending_list) \in Nat
        /\ Len(pending_list') = Len(pending_list) + 1
        /\ \A i \in 1..Len(pending_list') :
             /\ i <= Len(pending_list) => i \in 1..Len(pending_list) /\ pending_list'[i] = pending_list[i]
             /\ i > Len(pending_list) => pending_list'[i] = Wakeup
    BY <1>0, <1>4 DEF TypeOK
  <2>2. TypeOK'
    BY <1>0, <1>1, <2>1 DEF TypeOK
  <2>3. Sorted' /\ TimesBounded'
    BY <1>0, <1>1 DEF Sorted, TimesBounded
  <2>4. Wakeup \notin Timers
    BY EventAssumption DEF Wakeup, Timers
  <2>5. ASSUME NEW n \in Timers PROVE In(pending_list', n) <=> In(pending_list, n)
    <3>1. ASSUME NEW i \in 1..Len(pending_list), pending_list[i] = n PROVE In(pending_list', n)
      <4>1. i \in 1..Len(pending_list') /\ i <= Len(pending_list)
        BY <2>1
      <4> QED
        BY <2>1, <3>1, <4>1 DEF In
    <3>2. ASSUME NEW i \in 1..Len(pending_list'), pending_list'[i] = n PROVE In(pending_list, n)
      BY <2>1, <2>4, <3>2 DEF In
    <3> QED
      BY <3>1, <3>2 DEF In
  <2>6. Distinct(pending_list')
    <3>1. ASSUME NEW i \in 1..Len(pending_list'), NEW j \in 1..Len(pending_list'),
                 pending_list'[i] = pending_list'[j], pending_list'[i] # Wakeup
          PROVE  i = j
      <4>1. i <= Len(pending_list) /\ j <= Len(pending_list)
        BY <2>1, <3>1
      <4> QED
        BY <1>0, <2>1, <3>1, <4>1 DEF Placed, Distinct
    <3> QED
      BY <3>1 DEF Distinct
  <2>7. \A n \in 1..added : n \in Timers
    BY <1>0, EventAssumption DEF TypeOK, Timers
  <2>8. Placed'
    BY <1>0, <1>1, <2>5, <2>6, <2>7 DEF Placed
  <2> QED
    BY <1>2, <2>2, <2>3, <2>8 DEF IInv
<1> QED
  BY <1>1, <1>3, <1>4

(* A timer's callback runs and may request another timer.                  *)
LEMMA FireTimerStep ==
  ASSUME IInv, FireTimer
  PROVE  IInv'
<1>0. TypeOK /\ Sorted /\ TimesBounded /\ PipeThere /\ Placed
  BY DEF IInv
<1>1. PICK f : f = Head(pending_list)
  OBVIOUS
<1>2. /\ lpc = "fire" /\ pending_list # <<>> /\ f # Wakeup
      /\ pending_list' = Tail(pending_list) /\ fired' = fired \cup {f}
      /\ UNCHANGED <<now, bytes, hasPipe, lpc, deadline, ready, apc>>
  BY <1>1 DEF FireTimer, loopVars
<1>3. /\ pending_list' \in Seq(Timers \cup {Wakeup})
      /\ f \in Timers /\ In(pending_list, f) /\ Distinct(pending_list')
      /\ \A n : In(pending_list', n) => In(pending_list, n)
      /\ \A n \in Timers : In(pending_list, n) => (In(pending_list', n) <=> n # f)
  BY <1>0, <1>1, <1>2, HeadTaken
<1>4. f \in 1..added /\ ~In(timer_list, f) /\ added \in Nat /\ \A n \in 1..added : n \in Timers
  BY <1>0, <1>3, EventAssumption DEF Placed, TypeOK, Timers
<1>5. PipeThere' /\ NoOversleep'
  BY <1>0, <1>2 DEF PipeThere, NoOversleep
<1>6. CASE UNCHANGED timerVars
  <2>1. UNCHANGED <<timer_list, timeout, added>>
    BY <1>6 DEF timerVars
  <2>2. TypeOK'
    BY <1>0, <1>2, <1>3, <2>1 DEF TypeOK
  <2>3. Sorted' /\ TimesBounded'
    BY <1>0, <2>1 DEF Sorted, TimesBounded
  <2>4. Placed'
    BY <1>0, <1>2, <1>3, <1>4, <2>1 DEF Placed
  <2> QED
    BY <1>5, <2>2, <2>3, <2>4 DEF IInv
<1>7. ASSUME NEW d \in Delays, ril_timer_add(d) PROVE IInv'
  <2>1. d \in Nat
    BY EventAssumption
  <2>2. /\ timer_list' \in Seq(Timers) /\ timeout' \in [Timers -> Nat]
        /\ added' = added + 1 /\ added' \in 0..MaxTimers /\ added' \in Timers
        /\ Sorted' /\ TimesBounded' /\ Distinct(timer_list')
        /\ \A n : In(timer_list', n) <=> n = added + 1 \/ In(timer_list, n)
    BY <1>0, <1>7, <2>1, TimerAddKeeps
  <2>3. TypeOK'
    BY <1>0, <1>2, <1>3, <2>2 DEF TypeOK
  <2>4. added + 1 \notin fired' /\ ~In(pending_list, added + 1)
    BY <1>0, <1>2, <1>4, <2>2 DEF Placed
  <2>5. ASSUME NEW n \in Timers, In(timer_list', n)
        PROVE  n \in 1..added' /\ n \notin fired' /\ ~In(pending_list', n)
    <3>1. CASE n = added + 1
      BY <1>3, <1>4, <2>2, <2>4, <3>1
    <3>2. CASE In(timer_list, n)
      BY <1>0, <1>2, <1>3, <1>4, <2>2, <3>2 DEF Placed
    <3> QED
      BY <2>2, <2>5, <3>1, <3>2
  <2>6. ASSUME NEW n \in Timers, In(pending_list', n) PROVE n \in 1..added' /\ n \notin fired'
    <3>1. In(pending_list, n) /\ n # f
      BY <1>3, <2>6
    <3> QED
      BY <1>0, <1>2, <1>4, <2>2, <3>1 DEF Placed
  <2>7. ASSUME NEW n \in 1..added' PROVE In(timer_list', n) \/ In(pending_list', n) \/ n \in fired'
    <3>1. n = added + 1 \/ n \in 1..added
      BY <1>4, <2>2
    <3>2. CASE n \in 1..added
      BY <1>0, <1>2, <1>3, <1>4, <2>2, <3>2 DEF Placed
    <3> QED
      BY <2>2, <3>1, <3>2
  <2>8. fired' \subseteq 1..added'
    BY <1>0, <1>2, <1>4, <2>2 DEF Placed
  <2>9. Placed'
    BY <1>3, <2>2, <2>5, <2>6, <2>7, <2>8 DEF Placed
  <2> QED
    BY <1>5, <2>2, <2>3, <2>9 DEF IInv
<1> QED
  BY <1>6, <1>7 DEF FireTimer

LEMMA WakeupCallbackStep ==
  ASSUME IInv, processWakeupCallback
  PROVE  IInv'
<1>0. TypeOK /\ Sorted /\ TimesBounded /\ PipeThere /\ Placed
  BY DEF IInv
<1>1. /\ lpc = "fire" /\ pending_list # <<>> /\ Head(pending_list) = Wakeup
      /\ pending_list' = Tail(pending_list) /\ bytes' = 0
      /\ UNCHANGED <<now, timer_list, timeout, added, fired, hasPipe, lpc, deadline, ready, apc>>
  BY DEF processWakeupCallback, timerVars, loopVars
<1>2. /\ pending_list' \in Seq(Timers \cup {Wakeup}) /\ Distinct(pending_list')
      /\ \A n : In(pending_list', n) => In(pending_list, n)
      /\ \A n \in Timers : In(pending_list, n) => (In(pending_list', n) <=> n # Wakeup)
  BY <1>0, <1>1, HeadTaken
<1>3. Wakeup \notin Timers /\ \A n \in 1..added : n \in Timers
  BY <1>0, EventAssumption DEF Wakeup, Timers, TypeOK
<1>4. TypeOK'
  BY <1>0, <1>1, <1>2 DEF TypeOK
<1>5. Sorted' /\ TimesBounded' /\ PipeThere' /\ NoOversleep'
  BY <1>0, <1>1 DEF Sorted, TimesBounded, PipeThere, NoOversleep
<1>6. Placed'
  BY <1>0, <1>1, <1>2, <1>3 DEF Placed
<1> QED
  BY <1>4, <1>5, <1>6 DEF IInv

LEMMA TickStep ==
  ASSUME IInv, Tick
  PROVE  IInv'
<1>0. TypeOK /\ Sorted /\ TimesBounded /\ PipeThere /\ Placed /\ NoOversleep
  BY DEF IInv
<1>1. /\ now < MaxTime /\ now' = now + 1
      /\ UNCHANGED <<timer_list, timeout, added, pending_list, fired, bytes, hasPipe, lpc,
                     deadline, ready, apc>>
  BY DEF Tick, timerVars, loopVars
<1>2. TypeOK'
  BY <1>0, <1>1, EventAssumption DEF TypeOK
<1>3. Sorted' /\ TimesBounded' /\ Placed'
  BY <1>0, <1>1, TimersKept
<1>4. PipeThere'
  BY <1>0, <1>1 DEF PipeThere
<1>5. NoOversleep'
  <2>1. now \in Nat /\ deadline \in Nat
    BY <1>0, EventAssumption DEF TypeOK, Forever
  <2>2. now >= deadline => now' >= deadline'
    BY <1>1, <2>1
  <2> QED
    BY <1>0, <1>1, <2>2 DEF NoOversleep
<1> QED
  BY <1>2, <1>3, <1>4, <1>5 DEF IInv

LEMMA StutterKeeps ==
  ASSUME IInv, UNCHANGED vars
  PROVE  IInv'
<1>1. /\ TypeOK /\ Sorted /\ TimesBounded /\ PipeThere /\ Placed /\ NoOversleep
      /\ UNCHANGED <<now, timer_list, timeout, added, pending_list, fired, bytes, hasPipe,
                     lpc, deadline, ready, apc>>
  BY DEF IInv, vars, timerVars, loopVars
<1>2. TypeOK' /\ PipeThere' /\ NoOversleep'
  BY <1>1 DEF TypeOK, PipeThere, NoOversleep
<1> QED
  BY <1>1, <1>2, TimersKept DEF IInv

-----------------------------------------------------------------------------
LEMMA Invariance == Spec => []IInv
<1>1. Init => IInv
  BY InitHolds
<1>2. IInv /\ [Next]_vars => IInv'
  BY RequestTimedCallbackStep, TriggerEvLoopStep, CalcNextTimeoutStep, LoopMoves,
     ProcessTimeoutsStep, ProcessReadReadiesStep, FireTimerStep, WakeupCallbackStep,
     TickStep, StutterKeeps DEF Next, LoopStep
<1> QED
  BY <1>1, <1>2, PTL DEF Spec

(* Every variable of the event loop and the adding threads keeps its type. *)
THEOREM EventTypes == Spec => []TypeOK
<1>1. IInv => TypeOK
  BY DEF IInv
<1> QED
  BY <1>1, Invariance, PTL

(* No lost wakeup: select() is not left sleeping past a timer's time       *)
(* without a byte in the wakeup pipe or a thread about to write one.       *)
THEOREM NoOversleepHolds == Spec => []NoOversleep
<1>1. IInv => NoOversleep
  BY DEF IInv
<1> QED
  BY <1>1, Invariance, PTL

(* The number of positions at which a timer is in a list without           *)
(* repetitions is one if it is in it and none if it is not.                *)
LEMMA CountOccurrences ==
  ASSUME NEW seq, Distinct(seq), NEW n, n # Wakeup
  PROVE  Cardinality({i \in 1..Len(seq) : seq[i] = n}) = IF In(seq, n) THEN 1 ELSE 0
<1> DEFINE C == {i \in 1..Len(seq) : seq[i] = n}
<1>1. CASE In(seq, n)
  <2>1. PICK i \in 1..Len(seq) : seq[i] = n
    BY <1>1 DEF In
  <2>2. C = {i}
    BY <2>1 DEF Distinct
  <2> QED
    BY <1>1, <2>2, FS_Singleton
<1>2. CASE ~In(seq, n)
  <2>1. C = {}
    BY <1>2 DEF In
  <2> QED
    BY <1>2, <2>1, FS_EmptySet
<1> QED
  BY <1>1, <1>2

(* A requested timer is in the timer list, pending or fired, and in one of *)
(* them only: no callback is lost and none runs twice.                     *)
THEOREM EachTimerOnceHolds == Spec => []EachTimerOnce
<1>1. IInv => EachTimerOnce
  <2> SUFFICES ASSUME IInv, NEW n \in 1..added
               PROVE  Cardinality({i \in 1..Len(timer_list) : timer_list[i] = n})
                        + Cardinality({i \in 1..Len(pending_list) : pending_list[i] = n})
                        + (IF n \in fired THEN 1 ELSE 0) = 1
    BY DEF EachTimerOnce
  <2>1. n \in Timers /\ n # Wakeup
    BY EventAssumption DEF IInv, TypeOK, Timers, Wakeup
  <2>2. Distinct(timer_list) /\ Distinct(pending_list)
    BY DEF IInv, Placed
  <2>3. Cardinality({i \in 1..Len(timer_list) : timer_list[i] = n})
          = IF In(timer_list, n) THEN 1 ELSE 0
    BY <2>1, <2>2, CountOccurrences
  <2>4. Cardinality({i \in 1..Len(pending_list) : pending_list[i] = n})
          = IF In(pending_list, n) THEN 1 ELSE 0
    BY <2>1, <2>2, CountOccurrences
  <2>5. /\ In(timer_list, n) => n \notin fired /\ ~In(pending_list, n)
        /\ In(pending_list, n) => n \notin fired
        /\ In(timer_list, n) \/ In(pending_list, n) \/ n \in fired
    BY <2>1 DEF IInv, Placed
  <2>6. CASE In(timer_list, n)
    BY <2>3, <2>4, <2>5, <2>6
  <2>7. CASE ~In(timer_list, n) /\ In(pending_list, n)
    BY <2>3, <2>4, <2>5, <2>7
  <2>8. CASE ~In(timer_list, n) /\ ~In(pending_list, n)
    BY <2>3, <2>4, <2>5, <2>8
  <2> QED
    BY <2>6, <2>7, <2>8
<1> QED
  BY <1>1, Invariance, PTL
=============================================================================
