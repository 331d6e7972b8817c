---------------------------- MODULE AccessProofs ----------------------------
(***************************************************************************)
(* Proofs about who may access a value.  RwLock: for any finite number of  *)
(* futures, any tasks and any limit, a write guard is the only guard, the  *)
(* counters describe the guards, no wake-up the lock owes is lost and      *)
(* nobody is overtaken.  SetOnce and OnceCell: for any callers, the value  *)
(* is set once and nobody sleeps through it.                               *)
(***************************************************************************)
EXTENDS RwLock, SetOnce, OnceCell, FiniteSetTheorems, WaiterQueueProofs

(* RwLock.                                                                 *)

\* What the counts need of cardinalities.
LEMMA OneMore ==
  ASSUME NEW S \in SUBSET Futures, NEW f \in Futures \ S
  PROVE  Cardinality(S) \in Nat /\ Cardinality(S \cup {f}) = Cardinality(S) + 1
BY Zenon, RwLockAssumption, FS_Subset, FS_CardinalityType, FS_AddElement

\* Taking a member out of a set of futures makes it one smaller.
LEMMA OneLess ==
  ASSUME NEW S \in SUBSET Futures, NEW f \in S
  PROVE  Cardinality(S) \in Nat \ {0} /\ Cardinality(S \ {f}) = Cardinality(S) - 1
<1>1. IsFiniteSet(S)
  BY Zenon, RwLockAssumption, FS_Subset
<1>2. Cardinality(S) \in Nat /\ Cardinality(S \ {f}) = Cardinality(S) - 1
  BY Zenon, <1>1, FS_CardinalityType, FS_RemoveElement
<1>3. Cardinality(S) # 0
  BY Zenon, <1>1, FS_EmptySet
<1> QED BY Zenon, <1>2, <1>3

\* Without a writer nobody holds a write guard.
LEMMA NoWriter ==
  ASSUME CountsOK, ~writer PROVE Holders("write") = {}
<1>1. IsFiniteSet(Holders("write"))
  BY Zenon, RwLockAssumption, FS_Subset DEF Holders
<1> QED BY Zenon, <1>1, FS_EmptySet DEF CountsOK

\* A step that changes neither the guards nor the counts.
LEMMA CountsKept ==
  ASSUME CountsOK, UNCHANGED <<readers, writer>>,
         \A g \in Futures : (st'[g] = "holding") = (st[g] = "holding"),
         \A g \in Futures : st[g] = "holding" => mode'[g] = mode[g]
  PROVE  CountsOK'
<1>1. Holders("read")' = Holders("read") /\ Holders("write")' = Holders("write")
  BY Zenon DEF Holders
<1> QED BY Zenon, <1>1 DEF CountsOK

\* f gets a guard the lock can give.
LEMMA Granted ==
  ASSUME TypeOK, CountsOK, NEW f \in Futures, NEW kind \in Kinds, st[f] # "holding",
         ~writer, kind = "write" => readers = 0,
         kind = "read" => readers' = readers + 1 /\ writer' = writer,
         kind = "write" => writer' = TRUE /\ readers' = readers,
         Becomes(f, "holding"), mode' = [mode EXCEPT ![f] = kind]
  PROVE  CountsOK'
<1> DEFINE R == Holders("read") W == Holders("write")
<1>1. f \notin R /\ f \notin W /\ R \in SUBSET Futures /\ W \in SUBSET Futures
  BY Zenon DEF Holders
<1>2. /\ Holders("read")' = IF kind = "read" THEN R \cup {f} ELSE R
      /\ Holders("write")' = IF kind = "write" THEN W \cup {f} ELSE W
  BY Zenon DEF Holders, Becomes, TypeOK, QueueTypeOK, Kinds
<1>3. W = {} /\ Cardinality({}) = 0
  BY Zenon, NoWriter, FS_EmptySet
<1>4. Cardinality(R) = readers /\ Cardinality(W) = 0
  BY Zenon, <1>3 DEF CountsOK
<1> HIDE DEF R, W
<1>5. Cardinality(R \cup {f}) = readers + 1 /\ Cardinality(W \cup {f}) = 1
  BY <1>1, <1>4, OneMore
<1> QED BY <1>2, <1>4, <1>5 DEF CountsOK, Kinds

\* f drops its guard.
LEMMA ReadReleased ==
  ASSUME TypeOK, CountsOK, NEW f \in Futures, st[f] = "holding", mode[f] = "read",
         readers' = readers - 1, Becomes(f, "idle"), UNCHANGED <<writer, mode>>
  PROVE  CountsOK' /\ readers > 0
<1> DEFINE R == Holders("read") W == Holders("write")
<1>1. f \in R /\ R \in SUBSET Futures
  BY Zenon DEF Holders
<1>2. Holders("read")' = R \ {f} /\ Holders("write")' = W
  BY Zenon DEF Holders, Becomes, TypeOK, QueueTypeOK, Kinds
<1>3. /\ readers = Cardinality(R) /\ Cardinality(W) = (IF writer THEN 1 ELSE 0)
      /\ writer => readers = 0
  BY Zenon DEF CountsOK
<1> HIDE DEF R, W
<1>4. readers \in Nat \ {0} /\ Cardinality(R \ {f}) = readers - 1
  BY ZenonT(60), <1>1, <1>3, OneLess
<1>5. ~writer /\ ~writer' /\ Cardinality(W) = 0
  BY Zenon, <1>3, <1>4
<1> QED BY <1>2, <1>4, <1>5 DEF CountsOK

\* When the writer has left, the counts are those of a free lock.
LEMMA WriteReleased ==
  ASSUME TypeOK, CountsOK, NEW f \in Futures, st[f] = "holding", mode[f] = "write",
         writer' = FALSE, Becomes(f, "idle"), UNCHANGED <<readers, mode>>
  PROVE  CountsOK'
<1> DEFINE R == Holders("read") W == Holders("write")
<1>1. f \in W /\ W \in SUBSET Futures
  BY Zenon DEF Holders
<1>2. Holders("read")' = R /\ Holders("write")' = W \ {f}
  BY Zenon DEF Holders, Becomes, TypeOK, QueueTypeOK, Kinds
<1>3. /\ readers = Cardinality(R) /\ Cardinality(W) = (IF writer THEN 1 ELSE 0)
  BY Zenon DEF CountsOK
<1> HIDE DEF R, W
<1>4. Cardinality(W) # 0 /\ Cardinality(W \ {f}) = Cardinality(W) - 1
  BY Zenon, <1>1, OneLess
<1> QED BY <1>2, <1>3, <1>4 DEF CountsOK

\* f turns its write guard into a read guard.
LEMMA Downgraded ==
  ASSUME TypeOK, CountsOK, NEW f \in Futures, st[f] = "holding", mode[f] = "write",
         writer' = FALSE, readers' = readers + 1, UNCHANGED st,
         mode' = [mode EXCEPT ![f] = "read"]
  PROVE  CountsOK' /\ writer /\ readers = 0
<1> DEFINE R == Holders("read") W == Holders("write")
<1>1. f \in W /\ f \notin R /\ R \in SUBSET Futures /\ W \in SUBSET Futures
  BY Zenon DEF Holders
<1>2. Holders("read")' = R \cup {f} /\ Holders("write")' = W \ {f}
  BY Zenon DEF Holders, TypeOK, QueueTypeOK, Kinds
<1>3. /\ readers = Cardinality(R) /\ Cardinality(W) = (IF writer THEN 1 ELSE 0)
      /\ writer => readers = 0
  BY Zenon DEF CountsOK
<1> HIDE DEF R, W
<1>4. Cardinality(W) # 0 /\ Cardinality(W \ {f}) = Cardinality(W) - 1
  BY Zenon, <1>1, OneLess
<1>5. Cardinality(R \cup {f}) = readers + 1
  BY Zenon, <1>1, <1>3, OneMore
<1> QED BY <1>2, <1>3, <1>4, <1>5 DEF CountsOK
-----------------------------------------------------------------------------
\* A lock whose limit no crowd of futures can exceed has room for a reader that
\* does not hold it yet.
LEMMA RoomForReader ==
  ASSUME TypeOK, CountsOK, NEW h \in Futures, st[h] # "holding",
         ~(limit < Cardinality(Futures))
  PROVE  readers < limit
<1> DEFINE R == Holders("read")
<1>1. R \in SUBSET Futures /\ h \in Futures \ R /\ readers = Cardinality(R)
  BY Zenon DEF Holders, CountsOK
<1> HIDE DEF R
<1>2. IsFiniteSet(Futures) /\ Cardinality(Futures) \in Nat /\ limit \in Nat
  BY Zenon, RwLockAssumption, FS_CardinalityType DEF TypeOK
<1>3. readers \in Nat /\ Cardinality(R \cup {h}) = readers + 1
  BY Zenon, <1>1, OneMore
<1>4. R \cup {h} \in SUBSET Futures
  BY Zenon, <1>1
<1>5. Cardinality(R \cup {h}) <= Cardinality(Futures)
  BY Zenon, <1>2, <1>4, FS_Subset
<1> QED BY <1>2, <1>3, <1>5

\* next_waker takes out nothing but the front waiter's waker, and that one
\* whenever the front waiter can have the lock.
LEMMA NextWakerFront ==
  ASSUME NEW q \in Seq(Waker), NEW r, NEW w
  PROVE  /\ NextWaker(q, r, w) \in SUBSET Waker
         /\ 1 \in DOMAIN q /\ CanAcquire(r, w, mode[q[1].future]) =>
              q[1] \in NextWaker(q, r, w)
<1>1. q # <<>> => Head(q) = q[1] /\ Head(q) \in Waker
  OBVIOUS
<1>2. 1 \in DOMAIN q => q # <<>>
  OBVIOUS
<1> QED BY Zenon, <1>1, <1>2 DEF NextWaker

\* The front waiter is woken if its waker was taken out in this step, or if it
\* was owed its wake-up before and nothing has touched it.
LEMMA FrontIsWoken ==
  ASSUME WakersTypeOK, NoLostWakeup, QueueInv', NEW f \in Futures, Running(f),
         NEW ws, toWake' = [toWake EXCEPT ![f] = ws],
         \A h \in Futures :
           At(1, h)' /\ Owed(h)' =>
             \/ waiters'[1] \in ws
             \/ /\ At(1, h) /\ Owed(h)
                /\ woken'[h] = woken[h] /\ task'[h] = task[h]
  PROVE  NoLostWakeup'
<1> SUFFICES ASSUME NEW h \in Futures, At(1, h)', Owed(h)'
             PROVE  WillBePolled(h)'
  BY Zenon DEF NoLostWakeup
<1>1. CASE waiters'[1] \in ws
  <2>1. waiters'[1] \in toWake'[f]
    BY Zenon, <1>1 DEF WakersTypeOK
  <2> QED BY Zenon, <2>1, FrontWillBePolled
<1>2. CASE At(1, h) /\ Owed(h) /\ woken'[h] = woken[h] /\ task'[h] = task[h]
  <2>1. WillBePolled(h)
    BY Zenon, <1>2 DEF NoLostWakeup
  <2> QED BY ZenonT(60), <1>2, <2>1, WakeSurvives
<1> QED BY Zenon, <1>1, <1>2

\* A step beside the queue: x, which does not wait, may change its status, and
\* the lock either owes nobody more than before or takes out next_waker.
LEMMA AsideStep ==
  ASSUME IInv, NEW f \in Futures, NEW s \in Status \ {"waiting"}, Running(f),
         st[f] # "waiting", NEW ws \in SUBSET Waker,
         toWake' = [toWake EXCEPT ![f] = ws],
         UNCHANGED <<waiters, limit, task, woken>>, UNCHANGED st \/ Becomes(f, s),
         \A h \in Futures \ {f} : mode'[h] = mode[h],
         \/ \A h \in Futures : st[h] = "waiting" /\ Owed(h)' => Owed(h)
         \/ ws = NextWaker(waiters, readers', writer')
  PROVE  QueueInv' /\ NoLostWakeup'
<1>1. /\ QueueInv /\ QueueTypeOK /\ WakersTypeOK /\ NoLostWakeup
      /\ waiters \in Seq(Waker)
  BY Zenon DEF IInv, QueueInv, QueueTypeOK
<1>2. WakersTypeOK'
  BY Zenon, <1>1 DEF WakersTypeOK
<1>3. \A i \in DOMAIN waiters : ~At(i, f)
  BY Zenon, <1>1 DEF QueueInv, QueueMatchesFutures, At
<1>4. QueueInv'
  BY ZenonT(60), <1>1, <1>2, <1>3, OutsideQueue, QueueUnchanged
<1>5. ASSUME NEW h \in Futures, At(1, h)', Owed(h)'
      PROVE  waiters'[1] \in ws \/ (At(1, h) /\ Owed(h))
  <2>1. /\ At(1, h) /\ 1 \in DOMAIN waiters /\ waiters[1].future = h
        /\ h # f /\ mode'[h] = mode[h]
    BY Zenon, <1>3, <1>5 DEF At
  <2>2. st[h] = "waiting"
    BY Zenon, <1>1, <2>1 DEF QueueInv, QueueMatchesFutures
  <2>3. CASE ws = NextWaker(waiters, readers', writer')
    <3>1. CanAcquire(readers', writer', mode[h])
      BY Zenon, <1>5, <2>1 DEF Owed, CanAcquire
    <3> QED BY Zenon, <1>1, <2>1, <2>3, <3>1, NextWakerFront
  <2>4. CASE Owed(h)
    BY Zenon, <2>1, <2>4
  <2> QED BY Zenon, <1>5, <2>2, <2>3, <2>4
<1>6. NoLostWakeup'
  BY ZenonT(60), <1>1, <1>4, <1>5, FrontIsWoken
<1> QED BY Zenon, <1>4, <1>6

\* The lock starts free, with an empty queue and nobody to wake.
LEMMA InitIInv == Init => IInv
<1> SUFFICES ASSUME Init PROVE IInv
  BY Zenon
<1>1. QueueInv /\ QueueTypeOK
  BY Zenon, QueueInitInv DEF Init, QueueInv
<1>2. TypeOK
  BY ZenonT(60), <1>1 DEF Init, TypeOK, Kinds
<1>3. Holders("read") = {} /\ Holders("write") = {} /\ readers = 0 /\ writer = FALSE
  BY Zenon DEF Init, QueueInit, Holders
<1>4. CountsOK
  BY Zenon, <1>3, FS_EmptySet DEF CountsOK
<1>5. NoLostWakeup
  BY DEF Init, QueueInit, NoLostWakeup, At
<1> QED BY Zenon, <1>1, <1>2, <1>4, <1>5 DEF IInv, ReadersExcludeWriter

\* What every step starts from.
LEMMA Start ==
  ASSUME IInv
  PROVE  /\ QueueInv /\ QueueTypeOK /\ WakersTypeOK /\ TypeOK /\ CountsOK
         /\ NoLostWakeup /\ waiters \in Seq(Waker) /\ st \in [Futures -> Status]
         /\ mode \in [Futures -> Kinds] /\ readers \in Nat /\ writer \in BOOLEAN
         /\ limit \in Limits /\ limit \in Nat
         /\ {"idle", "created", "holding"} \subseteq Status \ {"waiting"}
         /\ {} \in SUBSET Waker
BY Zenon, RwLockAssumption DEF IInv, QueueInv, QueueTypeOK, ReadersExcludeWriter, TypeOK, Status

\* Creating a future and taking a lock nobody waits for.
LEMMA RequestStep ==
  ASSUME IInv, NEW f \in Futures, NEW kind \in Kinds, Request(f, kind)
  PROVE  IInv'
<1>1. /\ Running(f) /\ st[f] = "idle" /\ Becomes(f, "created")
      /\ UNCHANGED <<waiters, limit, readers, writer, task, woken, toWake>>
      /\ mode' = [mode EXCEPT ![f] = kind]
  BY Zenon DEF Request, CreateFuture, lockVars, wakerVars
<1>2. toWake' = [toWake EXCEPT ![f] = {}]
  BY Zenon, <1>1, Start, NoWakers
<1>3. \A h \in Futures \ {f} : mode'[h] = mode[h]
  BY Zenon, <1>1, Start
<1>4. \A h \in Futures : st[h] = "waiting" /\ Owed(h)' => Owed(h)
  BY Zenon, <1>1, <1>3 DEF Owed, CanAcquire
<1>5. QueueInv' /\ NoLostWakeup'
  BY ZenonT(60), <1>1, <1>2, <1>3, <1>4, Start, AsideStep
<1>6. CountsOK'
  BY Zenon, <1>1, Start, CountsKept DEF Becomes
<1>7. mode' \in [Futures -> Kinds] /\ QueueTypeOK'
  BY Zenon, <1>1, <1>5, Start DEF QueueInv
<1> QED BY Zenon, <1>1, <1>5, <1>6, <1>7, Start DEF IInv, ReadersExcludeWriter, TypeOK

\* try_read and try_write do not queue, and take what nobody holds against them.
LEMMA TryStep ==
  ASSUME IInv, NEW f \in Futures, TryRead(f) \/ TryWrite(f)
  PROVE  IInv'
<1>1. /\ Running(f) /\ st[f] = "idle" /\ Becomes(f, "holding") /\ ~writer
      /\ UNCHANGED <<waiters, limit, task, woken, toWake>>
  BY Zenon DEF TryRead, TryWrite, wakerVars
<1>2. toWake' = [toWake EXCEPT ![f] = {}]
  BY Zenon, <1>1, Start, NoWakers
<1>3. /\ TypeOK /\ CountsOK /\ readers \in Nat /\ mode \in [Futures -> Kinds]
      /\ "read" \in Kinds /\ "write" \in Kinds
  BY Zenon, Start DEF Kinds
<1>4. /\ \A h \in Futures \ {f} : mode'[h] = mode[h]
      /\ \A h \in Futures : st[h] = "waiting" /\ Owed(h)' => Owed(h)
      /\ mode' \in [Futures -> Kinds] /\ readers' \in Nat /\ writer' \in BOOLEAN
      /\ CountsOK'
  <2>1. CASE TryRead(f)
    <3>1. /\ ~writer' /\ readers' = readers + 1 /\ mode' = [mode EXCEPT ![f] = "read"]
          /\ writer' = writer
      BY Zenon, <2>1 DEF TryRead
    <3>2. CountsOK'
      BY ZenonT(60), <1>1, <1>3, <3>1, Granted
    <3>3. mode' \in [Futures -> Kinds] /\ \A h \in Futures \ {f} : mode'[h] = mode[h]
      BY Zenon, <1>3, <3>1
    <3>4. ASSUME NEW h \in Futures, st[h] = "waiting", Owed(h)'
          PROVE  Owed(h)
      <4>1. mode'[h] = mode[h] /\ limit \in Nat
        BY Zenon, <1>1, <3>3, <3>4, Start
      <4>2. readers' # 0 /\ readers' < limit /\ mode[h] = "read"
        BY <1>1, <1>3, <3>1, <3>4, <4>1 DEF Owed, CanAcquire, Kinds
      <4> QED BY <1>1, <1>3, <3>1, <3>4, <4>1, <4>2 DEF Owed, CanAcquire
    <3> QED BY <1>3, <3>1, <3>2, <3>3, <3>4, Start
  <2>2. CASE TryWrite(f)
    <3>1. /\ writer' = TRUE /\ readers' = readers /\ readers = 0
          /\ mode' = [mode EXCEPT ![f] = "write"]
      BY Zenon, <2>2 DEF TryWrite
    <3>2. CountsOK'
      BY ZenonT(60), <1>1, <1>3, <3>1, Granted
    <3> QED BY Zenon, <1>1, <1>3, <3>1, <3>2 DEF Owed, CanAcquire
  <2> QED BY Zenon, <2>1, <2>2
<1>5. QueueInv' /\ NoLostWakeup'
  BY ZenonT(60), <1>1, <1>2, <1>4, Start, AsideStep
<1>6. QueueTypeOK'
  BY Zenon, <1>5 DEF QueueInv
<1> QED BY ZenonT(60), <1>1, <1>4, <1>5, <1>6, Start DEF IInv, ReadersExcludeWriter, TypeOK

\* The guards are dropped, and a write guard becomes a read guard.
LEMMA ReleaseReadStep ==
  ASSUME IInv, NEW f \in Futures, ReleaseRead(f)
  PROVE  IInv'
<1> DEFINE ws == IF readers' = 0 THEN NextWaker(waiters, 0, writer) ELSE {}
<1>1. /\ Running(f) /\ st[f] = "holding" /\ mode[f] = "read" /\ Becomes(f, "idle")
      /\ readers' = readers - 1 /\ toWake' = [toWake EXCEPT ![f] = ws]
      /\ UNCHANGED <<writer, limit, mode, waiters, task, woken>>
  BY Zenon DEF ReleaseRead, TakeWakers
<1>2. TypeOK /\ CountsOK
  BY Zenon, Start
<1>3. CountsOK' /\ readers > 0
  BY Zenon, <1>1, <1>2, ReadReleased
<1>4. ws \in SUBSET Waker
  BY Zenon, Start, NextWakerFront
<1>5. \/ \A h \in Futures : st[h] = "waiting" /\ Owed(h)' => Owed(h)
      \/ ws = NextWaker(waiters, readers', writer')
  <2>1. CASE readers' = 0
    BY ZenonT(60), <1>1, <2>1
  <2>2. CASE readers' # 0
    <3> SUFFICES ASSUME NEW h \in Futures, st[h] = "waiting", Owed(h)'
                 PROVE  Owed(h)
      BY Zenon
    <3>1. ~(limit < Cardinality(Futures))
      BY Zenon, <1>1, <2>2 DEF Owed
    <3>2. readers < limit
      BY Zenon, <3>1, Start, RoomForReader
    <3> QED BY Zenon, <1>1, <2>2, <3>1, <3>2 DEF Owed, CanAcquire
  <2> QED BY Zenon, <2>1, <2>2
<1> HIDE DEF ws
<1>6. QueueInv' /\ NoLostWakeup'
  BY ZenonT(60), <1>1, <1>4, <1>5, Start, AsideStep
<1>7. QueueTypeOK' /\ readers' \in Nat
  BY <1>1, <1>3, <1>6, Start DEF QueueInv
<1> QED BY ZenonT(60), <1>1, <1>3, <1>6, <1>7, Start DEF IInv, ReadersExcludeWriter, TypeOK

\* Dropping a write guard wakes the front waiter.
LEMMA ReleaseWriteStep ==
  ASSUME IInv, NEW f \in Futures, ReleaseWrite(f)
  PROVE  IInv'
<1> DEFINE ws == NextWaker(waiters, readers, FALSE)
<1>1. /\ Running(f) /\ st[f] = "holding" /\ mode[f] = "write" /\ Becomes(f, "idle")
      /\ writer' = FALSE /\ toWake' = [toWake EXCEPT ![f] = ws]
      /\ UNCHANGED <<readers, limit, mode, waiters, task, woken>>
  BY Zenon DEF ReleaseWrite, TakeWakers
<1>2. TypeOK /\ CountsOK
  BY Zenon, Start
<1>3. CountsOK'
  BY ZenonT(60), <1>1, <1>2, WriteReleased
<1>4. ws \in SUBSET Waker /\ ws = NextWaker(waiters, readers', writer')
  BY ZenonT(60), <1>1, Start, NextWakerFront
<1> HIDE DEF ws
<1>5. QueueInv' /\ NoLostWakeup'
  BY ZenonT(60), <1>1, <1>4, Start, AsideStep
<1>6. QueueTypeOK'
  BY Zenon, <1>5 DEF QueueInv
<1> QED BY ZenonT(60), <1>1, <1>3, <1>5, <1>6, Start DEF IInv, ReadersExcludeWriter, TypeOK

\* A downgraded writer counts as a reader, and wakes a reader at the front.
LEMMA DowngradeStep ==
  ASSUME IInv, NEW f \in Futures, DowngradeWrite(f)
  PROVE  IInv'
<1> DEFINE ws == NextWaker(waiters, readers', FALSE)
<1>1. /\ Running(f) /\ st[f] = "holding" /\ mode[f] = "write" /\ writer' = FALSE
      /\ readers' = readers + 1 /\ toWake' = [toWake EXCEPT ![f] = ws]
      /\ mode' = [mode EXCEPT ![f] = "read"]
      /\ UNCHANGED <<limit, waiters, st, task, woken>>
  BY Zenon DEF DowngradeWrite, TakeWakers
<1>2. CountsOK'
  BY ZenonT(60), <1>1, Start, Downgraded
<1>3. ws \in SUBSET Waker /\ ws = NextWaker(waiters, readers', writer')
  BY ZenonT(60), <1>1, Start, NextWakerFront
<1> HIDE DEF ws
<1>4. \A h \in Futures \ {f} : mode'[h] = mode[h]
  BY Zenon, <1>1, Start
<1>5. QueueInv' /\ NoLostWakeup'
  BY ZenonT(60), <1>1, <1>3, <1>4, Start, AsideStep
<1>6. QueueTypeOK' /\ mode' \in [Futures -> Kinds] /\ readers' \in Nat
  BY <1>1, <1>5, Start DEF QueueInv, Kinds
<1> QED BY ZenonT(60), <1>1, <1>2, <1>5, <1>6, Start DEF IInv, ReadersExcludeWriter, TypeOK

\* A step that leaves the counts and the guards alone keeps the types, once
\* the queue is in order.
LEMMA NoGuardChanges ==
  ASSUME IInv, UNCHANGED <<readers, writer, limit, mode>>, QueueInv', NoLostWakeup',
         \A g \in Futures : (st'[g] = "holding") = (st[g] = "holding")
  PROVE  IInv'
<1>1. CountsOK'
  BY ZenonT(60), Start, CountsKept
<1> QED BY ZenonT(60), <1>1, Start DEF IInv, ReadersExcludeWriter, TypeOK, QueueInv

\* f gets the lock in a poll.
LEMMA GrantStep ==
  ASSUME IInv, NEW f \in Futures, st[f] # "holding", CanAcquire(readers, writer, mode[f]),
         Grant(mode[f]), Becomes(f, "holding"), UNCHANGED mode, QueueInv', NoLostWakeup'
  PROVE  IInv'
<1>1. /\ TypeOK /\ CountsOK /\ readers \in Nat /\ writer \in BOOLEAN
      /\ mode[f] \in Kinds /\ mode' = [mode EXCEPT ![f] = mode[f]]
  BY Zenon, Start
<1>2. ASSUME mode[f] = "read"
      PROVE  CountsOK' /\ readers' \in Nat /\ writer' \in BOOLEAN
  <2>1. ~writer /\ readers' = readers + 1 /\ writer' = writer /\ "read" # "write"
    BY Zenon, <1>2 DEF CanAcquire, Grant
  <2>2. readers' \in Nat /\ writer' \in BOOLEAN
    BY <1>1, <2>1
  <2> QED BY ZenonT(60), <1>1, <1>2, <2>1, <2>2, Granted
<1>3. ASSUME mode[f] = "write"
      PROVE  CountsOK' /\ readers' \in Nat /\ writer' \in BOOLEAN
  <2>1. /\ ~writer /\ readers = 0 /\ writer' = TRUE /\ readers' = readers
        /\ "read" # "write"
    BY Zenon, <1>3 DEF CanAcquire, Grant
  <2> QED BY ZenonT(60), <1>1, <1>3, <2>1, Granted
<1>4. CountsOK' /\ readers' \in Nat /\ writer' \in BOOLEAN /\ limit' = limit
  BY Zenon, <1>1, <1>2, <1>3 DEF Kinds, Grant
<1> QED BY ZenonT(60), <1>4, Start DEF IInv, ReadersExcludeWriter, TypeOK, QueueInv

\* poll_lock of a queued future: it is served from the front, or it stays and
\* leaves the waker of its present task.
LEMMA PollQueuedStep ==
  ASSUME IInv, NEW f \in Futures, NEW t \in Tasks, Running(f), PollQueued(f, t),
         PolledFrom(f, t), UNCHANGED mode
  PROVE  IInv'
<1>1. PICK i \in DOMAIN waiters :
        /\ st[f] = "waiting" /\ At(i, f)
        /\ \/ /\ i = 1 /\ CanAcquire(readers, writer, mode[f])
              /\ LeaveQueue(i, f, "holding")
              /\ Grant(mode[f])
              /\ TakeWakers(f, WakeAfter(f))
           \/ /\ i # 1 \/ ~CanAcquire(readers, writer, mode[f])
              /\ StayQueued(i, f, t)
              /\ UNCHANGED <<lockVars, toWake>>
  BY ZenonT(60) DEF PollQueued
<1>2. task' = [task EXCEPT ![f] = t]
  BY Zenon DEF PolledFrom
<1>3. CASE /\ i = 1 /\ CanAcquire(readers, writer, mode[f])
           /\ LeaveQueue(i, f, "holding") /\ Grant(mode[f])
           /\ TakeWakers(f, WakeAfter(f))
  <2> DEFINE ws == WakeAfter(f)
  <2>1. waiters' \in Seq(Waker)
    BY Zenon, <1>3, Start, RemoveAtProperties DEF LeaveQueue
  <2>2. ws \in SUBSET Waker
    BY Zenon, <2>1, NextWakerFront DEF WakeAfter
  <2>3. toWake' = [toWake EXCEPT ![f] = ws]
    BY Zenon, <1>3 DEF TakeWakers
  <2>4. /\ mode[f] = "read" => ws = NextWaker(waiters', readers', writer')
        /\ mode[f] # "read" => writer' = TRUE
        /\ limit' = limit /\ mode' = mode
    BY Zenon, <1>3 DEF WakeAfter, Grant
  <2> HIDE DEF ws
  <2>5. WakersTypeOK' /\ \A h \in Futures \ {f} : task'[h] = task[h]
    BY ZenonT(60), <2>2, <2>3, Start, WakerStep
  <2>6. QueueInv'
    BY Zenon, <1>1, <1>3, <2>5, Start, Leaving
  <2>7. ASSUME NEW h \in Futures, At(1, h)', Owed(h)'
        PROVE  waiters'[1] \in ws
    <3>1. 1 \in DOMAIN waiters' /\ waiters'[1].future = h
      BY Zenon, <2>7 DEF At
    <3>2. ~writer' /\ CanAcquire(readers', writer', mode[h])
      BY Zenon, <2>4, <2>7 DEF Owed, CanAcquire
    <3>3. ws = NextWaker(waiters', readers', writer')
      BY Zenon, <2>4, <3>2
    <3> QED BY Zenon, <2>1, <3>1, <3>2, <3>3, NextWakerFront
  <2>8. NoLostWakeup'
    BY ZenonT(60), <2>3, <2>6, <2>7, Start, FrontIsWoken
  <2>9. Becomes(f, "holding") /\ st[f] # "holding"
    BY Zenon, <1>1, <1>3 DEF LeaveQueue
  <2> QED BY ZenonT(60), <1>3, <2>6, <2>8, <2>9, GrantStep
<1>4. CASE /\ i # 1 \/ ~CanAcquire(readers, writer, mode[f])
           /\ StayQueued(i, f, t) /\ UNCHANGED <<lockVars, toWake>>
  <2>1. toWake' = [toWake EXCEPT ![f] = {}] /\ UNCHANGED <<readers, writer, limit, mode>>
    BY Zenon, <1>4, Start, NoWakers DEF lockVars
  <2>2. /\ WakersTypeOK'
        /\ \A h \in Futures \ {f} : task'[h] = task[h] /\ woken'[h] = woken[h]
    BY ZenonT(60), <2>1, Start, WakerStep
  <2>3. /\ QueueInv'
        /\ \A h \in Futures : At(1, h)' => At(1, h) /\ (i # 1 => h # f)
    BY ZenonT(60), <1>1, <1>2, <1>4, <2>2, Start, Staying
  <2>4. \A h \in Futures : Owed(h)' => Owed(h) /\ (h = f => CanAcquire(readers, writer, mode[f]))
    BY Zenon, <2>1 DEF Owed, CanAcquire
  <2>5. NoLostWakeup'
    BY ZenonT(60), <1>4, <2>1, <2>2, <2>3, <2>4, Start, FrontIsWoken
  <2> QED BY ZenonT(60), <1>4, <2>1, <2>3, <2>5, NoGuardChanges DEF StayQueued
<1> QED BY ZenonT(60), <1>1, <1>3, <1>4

\* poll_lock of a future outside the queue: it takes a lock nobody waits for,
\* or joins the queue.
LEMMA PollUnqueuedStep ==
  ASSUME IInv, NEW f \in Futures, NEW t \in Tasks, Running(f), PollUnqueued(f, t),
         PolledFrom(f, t), UNCHANGED mode
  PROVE  IInv'
<1>1. /\ \A i \in DOMAIN waiters : ~At(i, f)
      /\ st[f] \in {"created", "waiting"} /\ st[f] # "holding" /\ UNCHANGED toWake
  BY Zenon DEF PollUnqueued, Unqueued
<1>2. task' = [task EXCEPT ![f] = t] /\ toWake' = [toWake EXCEPT ![f] = {}]
  BY Zenon, <1>1, Start, NoWakers DEF PolledFrom
<1>3. /\ WakersTypeOK'
      /\ \A h \in Futures \ {f} : task'[h] = task[h] /\ woken'[h] = woken[h]
  BY ZenonT(60), <1>2, Start, WakerStep
<1>4. CASE /\ waiters = <<>> /\ CanAcquire(readers, writer, mode[f])
           /\ Grant(mode[f]) /\ Becomes(f, "holding") /\ UNCHANGED waiters
  <2>1. QueueInv'
    BY Zenon, <1>1, <1>3, <1>4, Start, OutsideQueue
  <2>2. NoLostWakeup'
    BY <1>4 DEF NoLostWakeup, At
  <2> QED BY ZenonT(60), <1>1, <1>4, <2>1, <2>2, GrantStep
<1>5. CASE /\ waiters # <<>> \/ ~CanAcquire(readers, writer, mode[f])
           /\ JoinQueue(f, t) /\ UNCHANGED lockVars
  <2>1. UNCHANGED <<readers, writer, limit, mode>>
    BY Zenon, <1>5 DEF lockVars
  <2>2. /\ QueueInv'
        /\ \A h \in Futures : At(1, h)' /\ waiters # <<>> => At(1, h) /\ h # f
    BY ZenonT(60), <1>1, <1>2, <1>3, <1>5, Start, Joining
  <2>3. \A h \in Futures : Owed(h)' => Owed(h)
    BY Zenon, <2>1 DEF Owed, CanAcquire
  <2>4. ASSUME waiters = <<>>, NEW h \in Futures, At(1, h)'
        PROVE  ~Owed(h)
    <3>1. waiters' = <<WakerOf(f, t)>>
      BY <1>5, <2>4 DEF JoinQueue
    <3>2. h = f
      BY Zenon, <2>4, <3>1 DEF At, WakerOf
    <3> QED BY Zenon, <1>5, <2>4, <3>2 DEF Owed
  <2>5. NoLostWakeup'
    BY ZenonT(60), <1>2, <1>3, <2>2, <2>3, <2>4, Start, FrontIsWoken
  <2>6. \A g \in Futures : (st'[g] = "holding") = (st[g] = "holding")
    BY Zenon, <1>1, <1>5, Start DEF JoinQueue, Becomes
  <2> QED BY ZenonT(60), <2>1, <2>2, <2>5, <2>6, NoGuardChanges
<1> QED BY ZenonT(60), <1>4, <1>5 DEF PollUnqueued

\* cancel_waiter hands the turn to the next waiter.
LEMMA CancelStep ==
  ASSUME IInv, NEW f \in Futures, Cancel(f)
  PROVE  IInv'
<1>1. Running(f) /\ UNCHANGED <<readers, writer, limit, mode, task, woken>>
  BY Zenon DEF Cancel, lockVars
<1>2. CASE st[f] = "created" /\ Becomes(f, "idle") /\ UNCHANGED <<waiters, toWake>>
  <2>1. toWake' = [toWake EXCEPT ![f] = {}]
    BY Zenon, <1>1, <1>2, Start, NoWakers
  <2>2. \A h \in Futures : st[h] = "waiting" /\ Owed(h)' => Owed(h)
    BY Zenon, <1>1 DEF Owed, CanAcquire
  <2>3. QueueInv' /\ NoLostWakeup'
    BY ZenonT(60), <1>1, <1>2, <2>1, <2>2, Start, AsideStep
  <2>4. \A g \in Futures : (st'[g] = "holding") = (st[g] = "holding")
    BY Zenon, <1>2, Start DEF Becomes
  <2> QED BY ZenonT(60), <1>1, <2>3, <2>4, NoGuardChanges
<1>3. ASSUME NEW i \in DOMAIN waiters, st[f] = "waiting", At(i, f),
             LeaveQueue(i, f, "idle"),
             TakeWakers(f, NextWaker(waiters', readers, writer))
      PROVE  IInv'
  <2> DEFINE ws == NextWaker(waiters', readers, writer)
  <2>1. waiters' \in Seq(Waker)
    BY Zenon, <1>3, Start, RemoveAtProperties DEF LeaveQueue
  <2>2. /\ ws \in SUBSET Waker
        /\ \A h : 1 \in DOMAIN waiters' /\ waiters'[1].future = h
                  /\ CanAcquire(readers, writer, mode[h]) => waiters'[1] \in ws
    BY Zenon, <2>1, NextWakerFront
  <2>3. toWake' = [toWake EXCEPT ![f] = ws]
    BY Zenon, <1>3 DEF TakeWakers
  <2> HIDE DEF ws
  <2>4. WakersTypeOK' /\ \A h \in Futures \ {f} : task'[h] = task[h]
    BY ZenonT(60), <1>1, <2>2, <2>3, Start, WakerStep
  <2>5. QueueInv'
    BY Zenon, <1>3, <2>4, Start, Leaving
  <2>6. \A h \in Futures : At(1, h)' /\ Owed(h)' => waiters'[1] \in ws
    BY Zenon, <1>1, <2>2 DEF Owed, CanAcquire, At
  <2>7. NoLostWakeup'
    BY ZenonT(60), <1>1, <2>3, <2>5, <2>6, Start, FrontIsWoken
  <2>8. \A g \in Futures : (st'[g] = "holding") = (st[g] = "holding")
    BY Zenon, <1>3, Start DEF LeaveQueue, Becomes
  <2> QED BY ZenonT(60), <1>1, <2>5, <2>7, <2>8, NoGuardChanges
<1> QED BY ZenonT(60), <1>2, <1>3 DEF Cancel

\* Calling a waker keeps the wake-ups that are under way.
LEMMA FireStep ==
  ASSUME IInv, NEW f \in Futures, Fire(f)
  PROVE  IInv'
<1>1. FireWake(f) /\ UNCHANGED <<readers, writer, limit, mode, waiters, st>>
  BY Zenon DEF Fire, lockVars
<1>2. QueueInv'
  BY ZenonT(60), <1>1, Start, FireKeepsQueue DEF queueVars
<1>3. \A h \in Futures : (At(1, h)' => At(1, h)) /\ (Owed(h)' => Owed(h))
  BY Zenon, <1>1 DEF At, Owed, CanAcquire
<1>4. NoLostWakeup'
  BY ZenonT(60), <1>1, <1>3, Start, FireKeepsWakes DEF NoLostWakeup
<1> QED BY ZenonT(60), <1>1, <1>2, <1>4, NoGuardChanges

\* Every step of the lock keeps the invariant.
LEMMA NextIInv == IInv /\ [Next]_vars => IInv'
<1> SUFFICES ASSUME IInv, [Next]_vars PROVE IInv'
  BY Zenon
<1>1. CASE UNCHANGED vars
  <2>1. UNCHANGED <<readers, writer, limit, mode, waiters, st, task, woken, toWake>>
    BY Zenon, <1>1 DEF vars
  <2>2. WakersTypeOK'
    BY Zenon, <2>1, Start DEF WakersTypeOK
  <2>3. QueueInv'
    BY ZenonT(60), <2>1, <2>2, Start, QueueUnchanged
  <2>4. NoLostWakeup'
    BY Zenon, <2>1, Start DEF NoLostWakeup, Owed, CanAcquire, At, WillBePolled
  <2> QED BY ZenonT(60), <2>1, <2>3, <2>4, NoGuardChanges
<1>2. ASSUME NEW f \in Futures, NEW t \in Tasks, Poll(f, t)
      PROVE  IInv'
  BY ZenonT(60), <1>2, PollQueuedStep, PollUnqueuedStep DEF Poll
<1> QED
  BY ZenonT(60), <1>1, <1>2, RequestStep, TryStep, CancelStep, ReleaseReadStep,
     ReleaseWriteStep, DowngradeStep, FireStep DEF Next

\* The state of the lock always satisfies the inductive invariant.
THEOREM RwLockInvariant == Spec => []IInv
BY InitIInv, NextIInv, PTL DEF Spec

\* Only the front waiter of the queue, or a newcomer to an empty one, is served.
LEMMA StepServesInOrder ==
  ASSUME IInv, [Next]_vars, NEW f \in Futures, NEW g \in Futures, f # g, Before(f, g),
         st[g] # "holding"
  PROVE  st'[g] # "holding"
<1> SUFFICES ASSUME st'[g] = "holding" PROVE FALSE
  BY Zenon
<1>1. PICK i \in DOMAIN waiters : At(i, f) /\ \A j \in DOMAIN waiters : At(j, g) => i < j
  BY Zenon DEF Before
<1>2. i \in Nat /\ i >= 1 /\ waiters # <<>>
  BY Start, QueueShape
<1>3. st \in [Futures -> Status]
  BY Zenon, Start
<1>4. CASE UNCHANGED vars
  BY Zenon, <1>4 DEF vars
<1>5. ASSUME NEW h \in Futures,
             \/ \E kind \in Kinds : Request(h, kind)
             \/ Cancel(h) \/ ReleaseRead(h) \/ ReleaseWrite(h) \/ DowngradeWrite(h)
             \/ Fire(h)
      PROVE  FALSE
  BY ZenonT(60), <1>3, <1>5
  DEF Request, CreateFuture, Cancel, LeaveQueue, ReleaseRead,
     ReleaseWrite, DowngradeWrite, Fire, Becomes
<1>6. ASSUME NEW h \in Futures, TryRead(h) \/ TryWrite(h)
      PROVE  FALSE
  BY Zenon, <1>2, <1>6 DEF TryRead, TryWrite
<1>7. ASSUME NEW h \in Futures, NEW t \in Tasks, PollUnqueued(h, t)
      PROVE  FALSE
  BY Zenon, <1>2, <1>3, <1>7 DEF PollUnqueued, JoinQueue, Becomes
<1>8. ASSUME NEW h \in Futures, NEW t \in Tasks, PollQueued(h, t)
      PROVE  FALSE
  <2>1. PICK k \in DOMAIN waiters : k = 1 /\ At(k, h) /\ Becomes(h, "holding")
    BY Zenon, <1>3, <1>8 DEF PollQueued, StayQueued, LeaveQueue
  <2>2. h = g
    BY Zenon, <1>3, <2>1 DEF Becomes
  <2> QED BY <1>1, <1>2, <2>1, <2>2
<1> QED BY ZenonT(60), <1>4, <1>5, <1>6, <1>7, <1>8 DEF Next, Poll

\* For any number of futures and any limit: a write guard excludes every other
\* guard and the counters describe the guards (release_read, release_write,
\* downgrade_write), a front waiter that can have the lock is going to be polled,
\* and the lock is granted in the order of the queue (poll_lock, try_read,
\* try_write).
THEOREM RwLockSafety == Spec => RwLockIsSafe
<1>1. IInv => ReadersExcludeWriter /\ NoLostWakeup
  BY Zenon DEF IInv
<1>2. IInv /\ [Next]_vars => [ServedInOrder]_vars
  BY ZenonT(60), StepServesInOrder DEF ServedInOrder
<1> QED BY <1>1, <1>2, RwLockInvariant, PTL DEF Spec, RwLockIsSafe, NoOvertaking

-----------------------------------------------------------------------------
(* SetOnce.                                                                *)

\* The caller won the exchange of set and has not returned from it.
Sets(c) == onceAt[c] \in {"write", "announce", "collect", "wake"}

\* What the place of a setter says of the state and of the value.
SetterOK(c) ==
  /\ onceAt[c] = "write" => state = "WRITING" /\ onceValue = NoValue
  /\ onceAt[c] = "announce" => state = "WRITING" /\ onceValue = c
  /\ onceAt[c] \in {"collect", "wake"} => state = "READY"

\* Whoever waits is awake or registered while there is no value.  Afterwards a
\* future that holds the lock of the waiters is registered before the setter
\* collects them, because the setter needs that lock.
WaiterOK(c) ==
  /\ onceAt[c] = "wait" /\ state # "READY" => c \in onceAwake \cup onceWaiters
  /\ onceAt[c] = "locked" /\ state = "READY" =>
       \E d \in Callers : onceAt[d] = "collect"

\* One setter at a time, a value exactly when READY says so, and nobody read
\* another one.
OnceIInv ==
  /\ OnceTypeOK
  /\ state = "EMPTY" => onceValue = NoValue
  /\ state = "READY" => onceValue # NoValue
  /\ \A c, d \in Callers : Sets(c) /\ Sets(d) => c = d
  /\ \A c \in Callers : SetterOK(c) /\ WaiterOK(c)
  /\ \A c \in Callers : read[c] \in {NoValue, onceValue}
  /\ SetWakesWaiters

\* Initially there is no value, or the one of new_with.
LEMMA OnceStart == OnceInit => OnceIInv
BY Zenon, SetOnceAssumption
   DEF OnceInit, OnceIInv, OnceTypeOK, Sets, SetterOK, WaiterOK, SetWakesWaiters

\* Every step of set and of wait preserves the invariant.
LEMMA OnceNextInv == OnceIInv /\ [OnceNext]_onceVars => OnceIInv'
<1> SUFFICES ASSUME OnceIInv, [OnceNext]_onceVars PROVE OnceIInv'
  BY Zenon
<1> USE SetOnceAssumption
    DEF OnceIInv, OnceTypeOK, Sets, SetterOK, WaiterOK, SetWakesWaiters, OnceTo
<1>1. ASSUME NEW c \in Callers, Claim(c) PROVE OnceIInv'
  BY <1>1 DEF Claim
<1>2. ASSUME NEW c \in Callers, Write(c) PROVE OnceIInv'
  BY Zenon, <1>2 DEF Write
<1>3. ASSUME NEW c \in Callers, Announce(c) PROVE OnceIInv'
  BY <1>3 DEF Announce
<1>4. ASSUME NEW c \in Callers, Collect(c) PROVE OnceIInv'
  BY <1>4 DEF Collect, LockFree
<1>5. ASSUME NEW c \in Callers, Wake(c) PROVE OnceIInv'
  BY <1>5 DEF Wake
<1>6. ASSUME NEW c \in Callers, AwaitValue(c) PROVE OnceIInv'
  BY <1>6 DEF AwaitValue
<1>7. ASSUME NEW c \in Callers, PollWait(c) PROVE OnceIInv'
  BY <1>7 DEF PollWait, ValueFound
<1>8. ASSUME NEW c \in Callers, Register(c) PROVE OnceIInv'
  BY Zenon, <1>8 DEF Register
<1>9. ASSUME NEW c \in Callers, AbandonWait(c) PROVE OnceIInv'
  BY <1>9 DEF AbandonWait
<1>10. CASE UNCHANGED onceVars
  BY Zenon, <1>10 DEF onceVars
<1> HIDE DEF OnceIInv
<1> QED BY <1>1, <1>2, <1>3, <1>4, <1>5, <1>6, <1>7, <1>8, <1>9, <1>10, Zenon
    DEF OnceNext

\* For any number of setters and waiters: get and wait see the one value that was
\* set and never an unwritten one, and set leaves no waiter asleep, though it
\* writes, announces and collects the waiters in separate steps.
THEOREM SetOnceIsSound == OnceSpec => []ValueIsSetOnce
<1>1. OnceIInv => ValueIsSetOnce
  <2> SUFFICES ASSUME OnceIInv PROVE ReadsAreInitialized
    BY Zenon DEF OnceIInv, ValueIsSetOnce
  <2> DEFINE S == {c \in Callers : onceAt[c] \in {"write", "announce", "collect", "wake"}}
  <2>1. Cardinality(S) <= 1
    <3>1. CASE S = {}
      BY <3>1, FS_EmptySet
    <3>2. CASE S # {}
      <4>1. PICK c \in S : TRUE
        BY Zenon, <3>2
      <4>2. S = {c}
        BY Zenon, <4>1 DEF OnceIInv, Sets
      <4> QED BY <4>2, FS_Singleton
    <3> QED BY Zenon, <3>1, <3>2
  <2> QED BY <2>1, Zenon DEF OnceIInv, ReadsAreInitialized
<1> QED BY <1>1, OnceStart, OnceNextInv, PTL DEF OnceSpec

-----------------------------------------------------------------------------
(* OnceCell.                                                               *)

\* The caller is the one that claimed the initialization.
Initializing(c) == cellAt[c] \in {"init", "complete"}

\* Exactly one caller initializes while the flag is set, and a value is there as
\* soon as it is stored; whoever waits is awake or registered.
CellIInv ==
  /\ CellTypeOK
  /\ initialized <=> cellValue # NoContent
  /\ initializing <=> \E c \in CellCallers : Initializing(c)
  /\ \A c, d \in CellCallers : Initializing(c) /\ Initializing(d) => c = d
  /\ initialized => \A c \in CellCallers : cellAt[c] # "init"
  /\ \A c \in CellCallers : cellAt[c] = "acquire" => c \in cellAwake \cup cellWaiters
  /\ InitializerIsReplaced

\* Initially the cell is empty, or holds what new_with was given.
LEMMA CellStart == CellInit => CellIInv
BY OnceCellAssumption, Zenon DEF CellInit, CellIInv, CellTypeOK, Initializing, InitializerIsReplaced

\* A step keeps who initializes unless it is of one who does.
LEMMA CellNextInv == CellIInv /\ [CellNext]_cellVars => CellIInv'
<1> SUFFICES ASSUME CellIInv, [CellNext]_cellVars PROVE CellIInv'
  BY Zenon
<1> USE OnceCellAssumption DEF CellIInv, CellTypeOK, Initializing, InitializerIsReplaced
<1>1. ASSUME NEW c \in CellCallers, SetCell(c) PROVE CellIInv'
  BY Zenon, <1>1 DEF SetCell, WakeCellWaiters
<1>2. ASSUME NEW c \in CellCallers, GetOrInit(c) PROVE CellIInv'
  BY Zenon, <1>2 DEF GetOrInit
<1>3. ASSUME NEW c \in CellCallers, Acquire(c) PROVE CellIInv'
  <2>1. CASE initialized
    BY <1>3, <2>1 DEF Acquire
  <2>2. CASE ~initialized /\ ~initializing
    BY <1>3, <2>2, Zenon DEF Acquire
  <2>3. CASE ~initialized /\ initializing
    BY <1>3, <2>3, Zenon DEF Acquire
  <2> QED BY <2>1, <2>2, <2>3, Zenon
<1>4. ASSUME NEW c \in CellCallers, Store(c) PROVE CellIInv'
  BY Zenon, <1>4 DEF Store
<1>5. ASSUME NEW c \in CellCallers, Complete(c) PROVE CellIInv'
  BY <1>5, Zenon DEF Complete, WakeCellWaiters
<1>6. ASSUME NEW c \in CellCallers, GiveUp(c) PROVE CellIInv'
  BY <1>6, Zenon DEF GiveUp, WakeCellWaiters
<1>7. ASSUME NEW c \in CellCallers, AbandonAcquire(c) PROVE CellIInv'
  BY <1>7 DEF AbandonAcquire
<1>8. CASE Take
  BY <1>8, Zenon DEF Take
<1>9. CASE UNCHANGED cellVars
  BY <1>9, Zenon DEF cellVars
<1> HIDE DEF CellIInv
<1> QED BY <1>1, <1>2, <1>3, <1>4, <1>5, <1>6, <1>7, <1>8, <1>9, Zenon
    DEF CellNext

\* For any number of callers of set, get_or_init and get_or_try_init, cancelled
\* or failing: the cell is initialized by one of them at a time and once, and when
\* the initializer gives up another one is woken to replace it.
THEOREM OnceCellIsSound == CellSpec => []CellIsSetOnce
<1>1. CellIInv => CellIsSetOnce
  <2> SUFFICES ASSUME CellIInv PROVE InitializedOnce
    BY Zenon DEF CellIInv, CellIsSetOnce
  <2>1. Cardinality(Initializers) = (IF initializing THEN 1 ELSE 0)
    <3>1. CASE initializing
      <4>1. PICK c \in CellCallers : Initializing(c)
        BY Zenon, <3>1 DEF CellIInv
      <4>2. Initializers = {c}
        BY Zenon, <4>1 DEF CellIInv, Initializers, Initializing
      <4> QED BY <3>1, <4>2, FS_Singleton, Zenon
    <3>2. CASE ~initializing
      <4>1. Initializers = {}
        BY Zenon, <3>2 DEF CellIInv, Initializers, Initializing
      <4> QED BY Zenon, <3>2, <4>1, FS_EmptySet
    <3> QED BY Zenon, <3>1, <3>2
  <2> QED BY Zenon, <2>1 DEF CellIInv, InitializedOnce
<1> QED BY <1>1, CellStart, CellNextInv, PTL DEF CellSpec
=============================================================================
