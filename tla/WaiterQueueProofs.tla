------------------------- MODULE WaiterQueueProofs -------------------------
(***************************************************************************)
(* Facts the proofs about the mutex, the semaphore and the read-write lock *)
(* share: what removing or adding one element does to a VecDeque, that     *)
(* each move of a waiter keeps the queue in order (QueueInv), and that a   *)
(* wake-up under way survives what other futures do.                       *)
(***************************************************************************)
EXTENDS WaiterQueue, Integers, TLAPS

\* VecDeque::remove(i): the elements before i stay, the later ones move up.
LEMMA RemoveAtProperties ==
  ASSUME NEW S, NEW s \in Seq(S), NEW i \in DOMAIN s
  PROVE  /\ RemoveAt(s, i) \in Seq(S)
         /\ DOMAIN RemoveAt(s, i) = 1 .. Len(s) - 1
         /\ Len(RemoveAt(s, i)) = Len(s) - 1
         /\ \A j \in 1 .. Len(s) - 1 :
              RemoveAt(s, i)[j] = IF j < i THEN s[j] ELSE s[j + 1]
<1> DEFINE a == SubSeq(s, 1, i - 1)
           b == SubSeq(s, i + 1, Len(s))
<1>1. /\ Len(s) \in Nat /\ DOMAIN s = 1 .. Len(s) /\ i \in 1 .. Len(s)
      /\ \A j \in 1 .. Len(s) : s[j] \in S
  OBVIOUS
<1>2. /\ a \in Seq(S) /\ Len(a) = i - 1
      /\ \A j \in 1 .. i - 1 : a[j] = s[j]
  <2>1. \A j \in 1 .. i - 1 : s[j] \in S
    BY <1>1
  <2>2. i - 1 \in Int /\ 1 \in Int
    BY <1>1
  <2> HIDE DEF a
  <2>3. /\ a \in Seq(S) /\ Len(a) = IF 1 <= i - 1 THEN i - 1 - 1 + 1 ELSE 0
        /\ \A j \in 1 .. i - 1 - 1 + 1 : a[j] = s[1 + j - 1]
    BY <2>1, <2>2 DEF a
  <2> QED BY <2>3, <1>1
<1>3. /\ b \in Seq(S) /\ Len(b) = Len(s) - i
      /\ \A j \in 1 .. Len(s) - i : b[j] = s[i + j]
  <2>1. \A j \in i + 1 .. Len(s) : s[j] \in S
    BY <1>1
  <2>2. i + 1 \in Int /\ Len(s) \in Int
    BY <1>1
  <2> HIDE DEF b
  <2>3. /\ b \in Seq(S)
        /\ Len(b) = IF i + 1 <= Len(s) THEN Len(s) - (i + 1) + 1 ELSE 0
        /\ \A j \in 1 .. Len(s) - (i + 1) + 1 : b[j] = s[i + 1 + j - 1]
    BY <2>1, <2>2 DEF b
  <2>4. Len(b) = Len(s) - i
    <3>1. Len(b) = IF i + 1 <= Len(s) THEN Len(s) - (i + 1) + 1 ELSE 0
      BY <2>3
    <3>2. Len(s) \in Nat /\ i \in 1 .. Len(s)
      BY <1>1
    <3> HIDE DEF a
    <3> QED BY ONLY <3>1, <3>2
  <2>5. ASSUME NEW j \in 1 .. Len(s) - i
        PROVE  b[j] = s[i + j]
    <3>1. j \in 1 .. Len(s) - (i + 1) + 1 /\ i + 1 + j - 1 = i + j
      BY <1>1
    <3> QED BY <3>1, <2>3
  <2> QED BY <2>3, <2>4, <2>5
<1>4. RemoveAt(s, i) = a \o b
  BY DEF RemoveAt
<1> HIDE DEF a, b
<1>5. /\ a \o b \in Seq(S) /\ Len(a \o b) = Len(a) + Len(b)
      /\ \A j \in 1 .. Len(a) + Len(b) :
           (a \o b)[j] = IF j <= Len(a) THEN a[j] ELSE b[j - Len(a)]
  <2>1. a \in Seq(S) /\ b \in Seq(S) /\ Len(a) \in Nat /\ Len(b) \in Nat
    BY <1>2, <1>3
  <2>2. a \o b \in Seq(S) /\ Len(a \o b) = Len(a) + Len(b)
    BY <2>1
  <2>3. \A j \in 1 .. Len(a) + Len(b) :
          (a \o b)[j] = IF j <= Len(a) THEN a[j] ELSE b[j - Len(a)]
    BY <2>1
  <2> QED BY <2>2, <2>3
<1>6. DOMAIN (a \o b) = 1 .. Len(a \o b)
  BY <1>5
<1>7. Len(a) + Len(b) = Len(s) - 1
  BY <1>1, <1>2, <1>3
<1>8. ASSUME NEW j \in 1 .. Len(s) - 1
      PROVE  (a \o b)[j] = IF j < i THEN s[j] ELSE s[j + 1]
  <2>1. CASE j < i
    <3>1. j \in 1 .. i - 1 /\ j <= Len(a) /\ j \in 1 .. Len(a) + Len(b)
      BY <1>1, <1>2, <1>7, <2>1
    <3> QED BY <3>1, <2>1, <1>2, <1>5
  <2>2. CASE ~(j < i)
    <3>1. /\ j - (i - 1) \in 1 .. Len(s) - i /\ i + (j - (i - 1)) = j + 1
          /\ ~(j <= Len(a)) /\ j - Len(a) = j - (i - 1)
          /\ j \in 1 .. Len(a) + Len(b)
      BY <1>1, <1>2, <1>7, <2>2
    <3> QED BY <3>1, <2>2, <1>3, <1>5
  <2> QED BY ZenonT(60), <2>1, <2>2
<1> QED BY <1>4, <1>5, <1>6, <1>7, <1>8

\* What is left after a removal are exactly the other elements, in their order.
LEMMA RemoveAtElements ==
  ASSUME NEW S, NEW s \in Seq(S), NEW i \in DOMAIN s
  PROVE  LET r == RemoveAt(s, i) IN
         /\ \A j \in DOMAIN r : \E k \in DOMAIN s \ {i} : r[j] = s[k]
         /\ \A k \in DOMAIN s \ {i} : \E j \in DOMAIN r : r[j] = s[k]
         /\ \A j1, j2 \in DOMAIN r :
              j1 < j2 => \E k1, k2 \in DOMAIN s \ {i} :
                           k1 < k2 /\ r[j1] = s[k1] /\ r[j2] = s[k2]
         /\ i # 1 => 1 \in DOMAIN r /\ r[1] = s[1]
<1> DEFINE r == RemoveAt(s, i)
           src(j) == IF j < i THEN j ELSE j + 1
<1>1. Len(s) \in Nat /\ DOMAIN s = 1 .. Len(s) /\ i \in 1 .. Len(s)
  OBVIOUS
<1>2. DOMAIN r = 1 .. Len(s) - 1
  BY RemoveAtProperties
<1>3. ASSUME NEW j \in DOMAIN r
      PROVE  src(j) \in DOMAIN s \ {i} /\ r[j] = s[src(j)]
  <2>1. r[j] = IF j < i THEN s[j] ELSE s[j + 1]
    BY ZenonT(60), <1>2, RemoveAtProperties
  <2> HIDE DEF r
  <2> QED BY <1>1, <1>2, <2>1
<1> HIDE DEF r
<1>4. ASSUME NEW k \in DOMAIN s \ {i}
      PROVE  \E j \in DOMAIN r : r[j] = s[k]
  <2>1. CASE k < i
    <3>1. k \in DOMAIN r /\ src(k) = k
      BY <1>1, <1>2, <2>1
    <3> QED BY <1>3, <3>1
  <2>2. CASE ~(k < i)
    <3>1. k - 1 \in DOMAIN r /\ src(k - 1) = k
      BY <1>1, <1>2, <2>2
    <3> QED BY <1>3, <3>1
  <2> QED BY <2>1, <2>2
<1>5. ASSUME NEW j1 \in DOMAIN r, NEW j2 \in DOMAIN r, j1 < j2
      PROVE  src(j1) < src(j2)
  BY <1>1, <1>2, <1>5
<1>6. ASSUME i # 1
      PROVE  1 \in DOMAIN r /\ r[1] = s[1]
  <2>1. 1 \in DOMAIN r /\ src(1) = 1
    BY <1>1, <1>2, <1>6
  <2> QED BY <1>3, <2>1
<1> HIDE DEF src
<1>7. \A j1, j2 \in DOMAIN r :
         j1 < j2 => \E k1, k2 \in DOMAIN s \ {i} :
                      k1 < k2 /\ r[j1] = s[k1] /\ r[j2] = s[k2]
  BY <1>3, <1>5
<1> QED BY <1>3, <1>4, <1>6, <1>7 DEF r

\* VecDeque::push_back keeps the elements and adds one at the end.
LEMMA AppendElements ==
  ASSUME NEW S, NEW s \in Seq(S), NEW e \in S
  PROVE  LET r == Append(s, e) IN
         /\ r \in Seq(S)
         /\ DOMAIN r = 1 .. Len(s) + 1 /\ DOMAIN s = 1 .. Len(s) /\ Len(s) \in Nat
         /\ \A j \in DOMAIN s : j \in DOMAIN r /\ r[j] = s[j]
         /\ r[Len(s) + 1] = e
OBVIOUS
-----------------------------------------------------------------------------
\* The queue starts empty, with every future idle.
LEMMA QueueInitInv == QueueInit => QueueInv
<1> SUFFICES ASSUME QueueInit PROVE QueueInv
  OBVIOUS
<1>1. waiters \in Seq(Waker)
  BY DEF QueueInit
<1>2. WakersTypeOK
  BY ZenonT(60) DEF QueueInit, WakersInit, WakersTypeOK
<1>3. st \in [Futures -> Status]
  BY DEF QueueInit, Status
<1> QED
  BY <1>1, <1>2, <1>3
  DEF QueueInit, QueueInv, QueueTypeOK, QueueMatchesFutures, WakersAreCurrent

\* What TypeOK says about the queue as a function.
LEMMA QueueShape ==
  ASSUME QueueTypeOK
  PROVE  /\ DOMAIN waiters = 1 .. Len(waiters) /\ Len(waiters) \in Nat
         /\ \A i \in DOMAIN waiters :
              waiters[i] \in Waker /\ waiters[i].future \in Futures
         /\ waiters # <<>> => 1 \in DOMAIN waiters /\ Head(waiters) = waiters[1]
         /\ 1 \in DOMAIN waiters => waiters # <<>>
<1>1. DOMAIN waiters = 1 .. Len(waiters) /\ Len(waiters) \in Nat
  BY DEF QueueTypeOK
<1>2. \A i \in DOMAIN waiters : waiters[i] \in Waker
  BY <1>1 DEF QueueTypeOK
<1>3. waiters # <<>> => 1 \in DOMAIN waiters /\ Head(waiters) = waiters[1]
  BY <1>1 DEF QueueTypeOK
<1>4. 1 \in DOMAIN waiters => waiters # <<>>
  BY <1>1
<1> QED BY <1>1, <1>2, <1>3, <1>4 DEF Waker

\* A future whose status changes outside the queue disturbs nobody's waiter.
LEMMA OutsideQueue ==
  ASSUME QueueInv, NEW f \in Futures, NEW s \in Status, Becomes(f, s),
         \A i \in DOMAIN waiters : ~At(i, f), UNCHANGED waiters, WakersTypeOK',
         \A g \in Futures \ {f} : task'[g] = task[g]
  PROVE  QueueInv'
<1> USE DEF QueueInv, QueueTypeOK, Becomes
<1>1. \A i \in DOMAIN waiters : waiters[i].future \in Futures \ {f}
  BY QueueShape DEF At
<1>2. QueueTypeOK'
  OBVIOUS
<1>3. QueueMatchesFutures'
  BY <1>1 DEF QueueMatchesFutures
<1>4. WakersAreCurrent'
  BY <1>1 DEF WakersAreCurrent
<1> QED BY <1>2, <1>3, <1>4

\* push_back: the others stay in place, and f is at the front only if the
\* queue was empty.
LEMMA Joining ==
  ASSUME QueueInv, NEW f \in Futures, NEW t \in Tasks,
         \A i \in DOMAIN waiters : ~At(i, f),
         JoinQueue(f, t), task' = [task EXCEPT ![f] = t], WakersTypeOK'
  PROVE  /\ QueueInv'
         /\ \A h \in Futures : At(1, h)' /\ waiters # <<>> => At(1, h) /\ h # f
<1> USE DEF QueueInv, QueueTypeOK, JoinQueue, Becomes
<1>1. WakerOf(f, t) \in Waker /\ WakerOf(f, t).future = f /\ WakerOf(f, t).task = t
  BY DEF WakerOf, Waker
<1>2. /\ waiters' \in Seq(Waker) /\ Len(waiters) \in Nat
      /\ DOMAIN waiters' = 1 .. Len(waiters) + 1 /\ DOMAIN waiters = 1 .. Len(waiters)
      /\ \A j \in DOMAIN waiters : j \in DOMAIN waiters' /\ waiters'[j] = waiters[j]
      /\ waiters'[Len(waiters) + 1] = WakerOf(f, t)
  BY <1>1, AppendElements
<1>3. \A j \in DOMAIN waiters' : j \in DOMAIN waiters \/ j = Len(waiters) + 1
  BY <1>2
<1>4. \A j \in DOMAIN waiters : waiters[j].future \in Futures \ {f}
  BY QueueShape DEF At
<1>5. QueueTypeOK'
  BY <1>2 DEF Status
<1>6. QueueMatchesFutures'
  <2>1. \A j, k \in DOMAIN waiters' : waiters'[j].future = waiters'[k].future => j = k
    BY <1>1, <1>2, <1>3, <1>4 DEF QueueMatchesFutures
  <2>2. \A j \in DOMAIN waiters' : st'[waiters'[j].future] = "waiting"
    BY <1>1, <1>2, <1>3, <1>4 DEF QueueMatchesFutures
  <2> QED BY <2>1, <2>2 DEF QueueMatchesFutures
<1>7. WakersAreCurrent'
  BY <1>1, <1>2, <1>3, <1>4 DEF WakersAreCurrent, WakersTypeOK
<1>8. ASSUME NEW h \in Futures, At(1, h)', waiters # <<>>
      PROVE  At(1, h) /\ h # f
  BY <1>2, <1>4, <1>8, QueueShape DEF At
<1> QED BY <1>5, <1>6, <1>7, <1>8

\* Re-polling a queued future only replaces its own waker.
LEMMA Staying ==
  ASSUME QueueInv, NEW f \in Futures, NEW t \in Tasks, NEW i \in DOMAIN waiters,
         At(i, f), StayQueued(i, f, t), task' = [task EXCEPT ![f] = t], WakersTypeOK'
  PROVE  /\ QueueInv'
         /\ \A h \in Futures : At(1, h)' => At(1, h) /\ (i # 1 => h # f)
<1> USE DEF QueueInv, QueueTypeOK, StayQueued
<1>1. WakerOf(f, t) \in Waker /\ WakerOf(f, t).future = f /\ WakerOf(f, t).task = t
  BY DEF WakerOf, Waker
<1>2. /\ waiters' \in Seq(Waker) /\ DOMAIN waiters' = DOMAIN waiters
      /\ \A j \in DOMAIN waiters :
           waiters'[j] = IF j = i THEN WakerOf(f, t) ELSE waiters[j]
  BY <1>1, QueueShape
<1>3. \A j \in DOMAIN waiters : waiters'[j].future = waiters[j].future
  BY <1>1, <1>2 DEF At
<1>4. \A j \in DOMAIN waiters \ {i} : waiters[j].future \in Futures \ {f}
  BY QueueShape DEF QueueMatchesFutures, At
<1>5. QueueTypeOK'
  BY <1>2
<1>6. QueueMatchesFutures'
  BY <1>2, <1>3 DEF QueueMatchesFutures
<1>7. WakersAreCurrent'
  <2> SUFFICES ASSUME NEW j \in DOMAIN waiters
               PROVE  waiters'[j].task = task'[waiters'[j].future]
    BY <1>2 DEF WakersAreCurrent
  <2>1. CASE j = i
    BY <1>1, <1>2, <2>1 DEF WakersTypeOK
  <2>2. CASE j # i
    BY <1>2, <1>4, <2>2 DEF WakersAreCurrent, WakersTypeOK
  <2> QED BY <2>1, <2>2
<1>8. ASSUME NEW h \in Futures, At(1, h)'
      PROVE  At(1, h) /\ (i # 1 => h # f)
  BY <1>2, <1>3, <1>4, <1>8 DEF At
<1> QED BY <1>5, <1>6, <1>7, <1>8

\* pop_front or remove: the others stay in order; the front changes only when
\* the front waiter leaves.
LEMMA Leaving ==
  ASSUME QueueInv, NEW f \in Futures, NEW s \in Status, NEW i \in DOMAIN waiters,
         At(i, f), LeaveQueue(i, f, s), WakersTypeOK',
         \A g \in Futures \ {f} : task'[g] = task[g]
  PROVE  /\ QueueInv'
         /\ \A h \in Futures : At(1, h)' => h # f /\ (i # 1 => At(1, h))
<1> USE DEF QueueInv, QueueTypeOK, LeaveQueue, Becomes
<1>1. waiters' \in Seq(Waker)
  BY RemoveAtProperties
<1>2. /\ \A j \in DOMAIN waiters' : \E k \in DOMAIN waiters \ {i} : waiters'[j] = waiters[k]
      /\ \A j1, j2 \in DOMAIN waiters' :
           j1 < j2 => \E k1, k2 \in DOMAIN waiters \ {i} :
                        /\ k1 < k2
                        /\ waiters'[j1] = waiters[k1] /\ waiters'[j2] = waiters[k2]
      /\ i # 1 => 1 \in DOMAIN waiters' /\ waiters'[1] = waiters[1]
  BY RemoveAtElements
<1>3. \A k \in DOMAIN waiters \ {i} : waiters[k].future \in Futures \ {f}
  BY QueueShape DEF QueueMatchesFutures, At
<1>4. (\A j \in DOMAIN waiters' : j \in Nat) /\ (\A j \in DOMAIN waiters : j \in Nat)
  BY <1>1
<1>5. QueueTypeOK'
  BY <1>1
<1>6. QueueMatchesFutures'
  <2>1. ASSUME NEW j \in DOMAIN waiters', NEW k \in DOMAIN waiters', j < k
        PROVE  waiters'[j].future # waiters'[k].future
    <3> PICK j1 \in DOMAIN waiters, k1 \in DOMAIN waiters :
           j1 < k1 /\ waiters'[j] = waiters[j1] /\ waiters'[k] = waiters[k1]
      BY <1>2, <2>1
    <3>1. j1 # k1
      BY <1>4
    <3> QED BY <3>1 DEF QueueMatchesFutures
  <2>2. \A j, k \in DOMAIN waiters' : waiters'[j].future = waiters'[k].future => j = k
    BY <1>4, <2>1
  <2>3. \A j \in DOMAIN waiters' : st'[waiters'[j].future] = "waiting"
    BY <1>2, <1>3 DEF QueueMatchesFutures
  <2> QED BY <2>2, <2>3 DEF QueueMatchesFutures
<1>7. WakersAreCurrent'
  BY <1>2, <1>3 DEF WakersAreCurrent
<1>8. ASSUME NEW h \in Futures, At(1, h)'
      PROVE  h # f /\ (i # 1 => At(1, h))
  <2>1. h # f
    BY <1>2, <1>3, <1>8 DEF At
  <2>2. ASSUME i # 1 PROVE At(1, h)
    <3>1. 1 \in DOMAIN waiters
      BY QueueShape
    <3> QED BY <1>2, <1>8, <2>2, <3>1 DEF At
  <2> QED BY <2>1, <2>2
<1> QED BY <1>5, <1>6, <1>7, <1>8
\* Whoever joins, stays in or leaves the queue leaves the others queued.
LEMMA KeepsAllQueued ==
  ASSUME QueueTypeOK, AllQueued, NEW f \in Futures,
         \/ UNCHANGED waiters /\ \E s \in Status \ {"waiting"} : Becomes(f, s)
         \/ UNCHANGED queueVars
         \/ \E t \in Tasks : JoinQueue(f, t)
         \/ \E i \in DOMAIN waiters, t \in Tasks : At(i, f) /\ StayQueued(i, f, t)
         \/ \E i \in DOMAIN waiters, s \in Status \ {"waiting"} :
              At(i, f) /\ LeaveQueue(i, f, s)
  PROVE  AllQueued'
<1>1. waiters \in Seq(Waker) /\ st \in [Futures -> Status]
  BY DEF QueueTypeOK
<1>2. CASE UNCHANGED waiters /\ \E s \in Status \ {"waiting"} : Becomes(f, s)
  BY <1>1, <1>2 DEF AllQueued, At, Becomes
<1>3. CASE UNCHANGED queueVars
  BY <1>3 DEF AllQueued, At, queueVars
<1>4. ASSUME NEW t \in Tasks, JoinQueue(f, t)
      PROVE  AllQueued'
  <2>1. WakerOf(f, t) \in Waker /\ WakerOf(f, t).future = f
    BY DEF WakerOf, Waker
  <2>2. /\ DOMAIN waiters' = 1 .. Len(waiters) + 1 /\ Len(waiters) \in Nat
        /\ \A j \in DOMAIN waiters : j \in DOMAIN waiters' /\ waiters'[j] = waiters[j]
        /\ waiters'[Len(waiters) + 1] = WakerOf(f, t)
    BY <1>1, <1>4, <2>1, AppendElements DEF JoinQueue
  <2>3. Len(waiters) + 1 \in DOMAIN waiters'
    BY <2>2
  <2>4. ASSUME NEW h \in Futures, st'[h] = "waiting"
        PROVE  \E i \in DOMAIN waiters' : At(i, h)'
    <3>1. CASE h = f
      BY <2>1, <2>2, <2>3, <3>1 DEF At
    <3>2. CASE h # f
      <4>1. PICK i \in DOMAIN waiters : At(i, h)
        BY <1>1, <1>4, <2>4, <3>2 DEF AllQueued, JoinQueue, Becomes
      <4> QED BY <2>2, <4>1 DEF At
    <3> QED BY <3>1, <3>2
  <2> QED BY <2>4 DEF AllQueued
<1>5. ASSUME NEW i \in DOMAIN waiters, NEW t \in Tasks, At(i, f), StayQueued(i, f, t)
      PROVE  AllQueued'
  <2>1. /\ DOMAIN waiters' = DOMAIN waiters /\ UNCHANGED st
        /\ \A j \in DOMAIN waiters : waiters'[j].future = waiters[j].future
    BY <1>1, <1>5 DEF StayQueued, At, WakerOf
  <2> QED BY <2>1 DEF AllQueued, At
<1>6. ASSUME NEW i \in DOMAIN waiters, NEW s \in Status \ {"waiting"}, At(i, f),
             LeaveQueue(i, f, s)
      PROVE  AllQueued'
  <2>1. \A k \in DOMAIN waiters \ {i} : \E j \in DOMAIN waiters' : waiters'[j] = waiters[k]
    BY <1>1, <1>6, RemoveAtElements DEF LeaveQueue
  <2>2. ASSUME NEW h \in Futures, st'[h] = "waiting"
        PROVE  \E j \in DOMAIN waiters' : At(j, h)'
    <3>1. h # f /\ st[h] = "waiting"
      BY <1>1, <1>6, <2>2 DEF LeaveQueue, Becomes
    <3>2. PICK k \in DOMAIN waiters : At(k, h) /\ k # i
      BY <1>6, <3>1 DEF AllQueued, At
    <3> QED BY <2>1, <3>2 DEF At
  <2> QED BY <2>2 DEF AllQueued
<1> QED BY <1>2, <1>3, <1>4, <1>5, <1>6
-----------------------------------------------------------------------------
\* A wake-up of h under way is not disturbed by another future f that is
\* polled, or that leaves its critical section with new wakers to call.
LEMMA WakeSurvives ==
  ASSUME WakersTypeOK, NEW f \in Futures, Running(f), NEW h \in Futures,
         WillBePolled(h), woken'[h] = woken[h], task'[h] = task[h],
         NEW ws, toWake' = [toWake EXCEPT ![f] = ws]
  PROVE  WillBePolled(h)'
<1>1. \A g \in Futures : toWake[g] \subseteq toWake'[g]
  BY DEF Running, WakersTypeOK
<1> QED BY <1>1 DEF WillBePolled, WakerOf

\* A future that leaves its critical section with the wakers ws, having polled
\* at most itself, leaves the wake-ups of the others alone.
LEMMA WakerStep ==
  ASSUME WakersTypeOK, NEW f \in Futures, Running(f), NEW ws \in SUBSET Waker,
         toWake' = [toWake EXCEPT ![f] = ws],
         \/ UNCHANGED <<task, woken>>
         \/ \E t \in Tasks : PolledFrom(f, t)
  PROVE  /\ WakersTypeOK'
         /\ \A h \in Futures \ {f} : task'[h] = task[h] /\ woken'[h] = woken[h]
         /\ \A h \in Futures \ {f} : WillBePolled(h) => WillBePolled(h)'
<1>1. WakersTypeOK'
  BY ZenonT(60) DEF WakersTypeOK, PolledFrom
<1>2. \A h \in Futures \ {f} : task'[h] = task[h] /\ woken'[h] = woken[h]
  BY DEF WakersTypeOK, PolledFrom
<1>3. ASSUME NEW h \in Futures \ {f}, WillBePolled(h)
      PROVE  WillBePolled(h)'
  BY ZenonT(60), <1>2, <1>3, WakeSurvives
<1> QED BY <1>1, <1>2, <1>3

\* Leaving one's critical section without wakers is the special case {}.
LEMMA NoWakers ==
  ASSUME WakersTypeOK, NEW f \in Futures, Running(f), UNCHANGED toWake
  PROVE  toWake' = [toWake EXCEPT ![f] = {}]
BY DEF WakersTypeOK, Running

\* A step that leaves the queue and the futures' statuses alone.
LEMMA QueueUnchanged ==
  ASSUME QueueInv, UNCHANGED <<waiters, st, task>>, WakersTypeOK'
  PROVE  QueueInv'
BY DEF QueueInv, QueueTypeOK, QueueMatchesFutures, WakersAreCurrent

\* Calling a waker turns "about to be woken" into "woken", or does nothing
\* when the future has moved to another task.
LEMMA FireKeepsWakes ==
  ASSUME WakersTypeOK, NEW f \in Futures, FireWake(f)
  PROVE  /\ WakersTypeOK' /\ UNCHANGED task
         /\ \A h \in Futures : WillBePolled(h) => WillBePolled(h)'
<1> USE DEF WakersTypeOK
<1> PICK w \in toWake[f] :
       /\ toWake' = [toWake EXCEPT ![f] = @ \ {w}]
       /\ woken' = [woken EXCEPT ![w.future] = @ \/ w.task = task[w.future]]
       /\ UNCHANGED task
  BY ZenonT(60) DEF FireWake
<1>1. w \in Waker /\ w.future \in Futures /\ w = WakerOf(w.future, w.task)
  BY DEF Waker, WakerOf
<1>2. WakersTypeOK'
  BY <1>1
<1>3. ASSUME NEW h \in Futures, woken[h]
      PROVE  WillBePolled(h)'
  BY <1>1, <1>3 DEF WillBePolled
<1>4. ASSUME NEW h \in Futures, NEW g \in Futures, WakerOf(h, task[h]) \in toWake[g]
      PROVE  WillBePolled(h)'
  <2>1. CASE WakerOf(h, task[h]) = w
    <3>1. w.future = h /\ w.task = task[h]
      BY <2>1 DEF WakerOf
    <3> QED BY ZenonT(60), <3>1 DEF WillBePolled
  <2>2. CASE WakerOf(h, task[h]) # w
    <3>1. WakerOf(h, task'[h]) \in toWake'[g]
      BY <1>4, <2>2
    <3> QED BY <3>1 DEF WillBePolled
  <2> QED BY <2>1, <2>2
<1> QED BY <1>2, <1>3, <1>4 DEF WillBePolled

\* Firing a waker leaves the queue in order.
LEMMA FireKeepsQueue ==
  ASSUME QueueInv, NEW f \in Futures, FireWake(f), UNCHANGED queueVars
  PROVE  QueueInv'
BY FireKeepsWakes
DEF QueueInv, QueueTypeOK, QueueMatchesFutures, WakersAreCurrent, queueVars

\* The front waiter whose waker f's thread took out is about to be woken.
LEMMA FrontWillBePolled ==
  ASSUME QueueInv', NEW f \in Futures, NEW h \in Futures, At(1, h)',
         waiters'[1] \in toWake'[f]
  PROVE  WillBePolled(h)'
<1>1. /\ waiters'[1] \in Waker /\ waiters'[1].future = h
      /\ waiters'[1].task = task'[h]
  BY QueueShape
  DEF QueueInv, QueueTypeOK, WakersAreCurrent, At
<1>2. waiters'[1] = WakerOf(h, task'[h])
  BY <1>1 DEF Waker, WakerOf
<1> QED BY <1>2 DEF WillBePolled
=============================================================================
