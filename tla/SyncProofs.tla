----------------------------- MODULE SyncProofs -----------------------------
(***************************************************************************)
(* Proofs about AsyncMutex, Barrier and Notify: what each promises, for    *)
(* any number of futures and threads, with the inductive invariant it      *)
(* takes.                                                                  *)
(***************************************************************************)
EXTENDS AsyncMutex, Barrier, Notify, WaiterQueueProofs

(* AsyncMutex.  IInv is inductive.                                         *)

\* The mutex starts free, with an empty queue and nobody to wake.
LEMMA InitIInv == Init => IInv
<1> SUFFICES ASSUME Init PROVE IInv
  BY Zenon
<1>1. QueueInv /\ TypeOK
  BY ZenonT(60), QueueInitInv DEF Init, QueueInv, TypeOK
<1>2. MutualExclusion /\ NoLostWakeup
  BY DEF Init, QueueInit, MutualExclusion, NoLostWakeup, Holders, At
<1> QED BY Zenon, <1>1, <1>2 DEF IInv

\* Creating a future and taking a free mutex nobody waits for.
LEMMA StartStep ==
  ASSUME NEW f \in Futures, IInv, Lock(f) \/ TryLock(f)
  PROVE  IInv'
<1> USE DEF IInv, TypeOK, QueueInv, QueueTypeOK
<1>1. /\ st[f] = "idle" /\ UNCHANGED waiters /\ UNCHANGED wakerVars
      /\ Becomes(f, "created") \/ Becomes(f, "holding")
  BY Zenon DEF Lock, TryLock, CreateFuture
<1>2. \A i \in DOMAIN waiters : ~At(i, f)
  BY Zenon, <1>1 DEF At, QueueMatchesFutures
<1>3. QueueInv'
  <2>1. WakersTypeOK' /\ \A g \in Futures \ {f} : task'[g] = task[g]
    BY Zenon, <1>1 DEF wakerVars, WakersTypeOK
  <2>2. "created" \in Status /\ "holding" \in Status
    BY Zenon DEF Status
  <2> HIDE DEF IInv, TypeOK, QueueInv, QueueTypeOK
  <2>3. QueueInv
    BY Zenon DEF IInv
  <2> QED BY Zenon, <1>1, <1>2, <2>1, <2>2, <2>3, OutsideQueue
<1>4. MutualExclusion' /\ locked' \in BOOLEAN
  <2>1. CASE Lock(f)
    BY Zenon, <1>1, <2>1 DEF Lock, CreateFuture, MutualExclusion, Holders, Becomes
  <2>2. CASE TryLock(f)
    BY Zenon, <1>1, <2>2 DEF TryLock, MutualExclusion, Holders, Becomes
  <2> QED BY Zenon, <2>1, <2>2
<1>5. NoLostWakeup'
  <2>1. CASE Lock(f)
    BY Zenon, <1>1, <2>1 DEF Lock, NoLostWakeup, WillBePolled, At, wakerVars
  <2>2. CASE TryLock(f)
    BY Zenon, <2>2 DEF TryLock, NoLostWakeup
  <2> QED BY Zenon, <2>1, <2>2
<1> QED BY Zenon, <1>3, <1>4, <1>5

\* What a poll does to the polled future's task and wake-up, and that it
\* leaves the wake-ups of the others alone.
LEMMA PollFacts ==
  ASSUME WakersTypeOK, NEW f \in Futures, NEW t \in Tasks, PolledFrom(f, t),
         UNCHANGED toWake
  PROVE  /\ WakersTypeOK' /\ task' = [task EXCEPT ![f] = t]
         /\ \A g \in Futures \ {f} : task'[g] = task[g] /\ woken'[g] = woken[g]
         /\ \A h \in Futures \ {f} : WillBePolled(h) => WillBePolled(h)'
BY Zenon DEF PolledFrom, WakersTypeOK, WillBePolled, WakerOf

\* poll_lock either takes the free mutex or leaves f's current waker queued.
LEMMA PollStep ==
  ASSUME NEW f \in Futures, NEW t \in Tasks, IInv, Poll(f, t)
  PROVE  IInv'
<1> USE DEF IInv, TypeOK
<1>1. QueueTypeOK /\ WakersTypeOK
  BY Zenon DEF QueueInv, QueueTypeOK
<1>2. /\ WakersTypeOK' /\ task' = [task EXCEPT ![f] = t]
      /\ \A g \in Futures \ {f} : task'[g] = task[g]
      /\ \A h \in Futures \ {f} : WillBePolled(h) => WillBePolled(h)'
  BY Zenon, <1>1, PollFacts DEF Poll
<1>3. st \in [Futures -> Status] /\ "holding" \in Status
  BY Zenon, <1>1 DEF QueueTypeOK, Status
<1>4. CASE PollQueued(f, t)
  <2> PICK i \in DOMAIN waiters :
         /\ st[f] = "waiting" /\ At(i, f)
         /\ \/ i = 1 /\ ~locked /\ locked' = TRUE /\ LeaveQueue(i, f, "holding")
            \/ (i # 1 \/ locked) /\ StayQueued(i, f, t) /\ UNCHANGED locked
    BY Zenon, <1>4 DEF PollQueued
  <2>1. CASE i = 1 /\ ~locked /\ locked' = TRUE /\ LeaveQueue(i, f, "holding")
    <3>1. QueueInv'
      BY Zenon, <1>2, <1>3, <2>1, Leaving
    <3>2. MutualExclusion'
      BY Zenon, <1>3, <2>1 DEF MutualExclusion, Holders, LeaveQueue, Becomes
    <3>3. NoLostWakeup'
      BY Zenon, <2>1 DEF NoLostWakeup
    <3> QED BY Zenon, <2>1, <3>1, <3>2, <3>3 DEF QueueInv
  <2>2. CASE (i # 1 \/ locked) /\ StayQueued(i, f, t) /\ UNCHANGED locked
    <3>1. /\ QueueInv'
          /\ \A h \in Futures : At(1, h)' => At(1, h) /\ (i # 1 => h # f)
      BY ZenonT(60), <1>2, <2>2, Staying
    <3>2. MutualExclusion'
      BY Zenon, <2>2 DEF MutualExclusion, Holders, StayQueued
    <3>3. NoLostWakeup'
      BY Zenon, <1>2, <2>2, <3>1 DEF NoLostWakeup
    <3> QED BY Zenon, <2>2, <3>1, <3>2, <3>3 DEF QueueInv
  <2> QED BY ZenonT(60), <2>1, <2>2
<1>5. CASE PollUnqueued(f, t)
  <2>1. /\ \A i \in DOMAIN waiters : ~At(i, f)
        /\ st[f] \in {"created", "waiting"}
    BY Zenon, <1>5 DEF PollUnqueued, Unqueued
  <2>2. CASE /\ ~locked /\ waiters = <<>> /\ locked' = TRUE
             /\ Becomes(f, "holding") /\ UNCHANGED waiters
    <3>1. QueueInv'
      BY Zenon, <1>2, <1>3, <2>1, <2>2, OutsideQueue
    <3>2. MutualExclusion'
      BY Zenon, <1>3, <2>2 DEF MutualExclusion, Holders, Becomes
    <3>3. NoLostWakeup'
      BY Zenon, <2>2 DEF NoLostWakeup
    <3> QED BY Zenon, <2>2, <3>1, <3>2, <3>3 DEF QueueInv
  <2>3. CASE (locked \/ waiters # <<>>) /\ JoinQueue(f, t) /\ UNCHANGED locked
    <3>1. /\ QueueInv'
          /\ \A h \in Futures : At(1, h)' /\ waiters # <<>> => At(1, h) /\ h # f
      BY ZenonT(60), <1>2, <2>1, <2>3, Joining
    <3>2. MutualExclusion'
      BY Zenon, <1>3, <2>1, <2>3 DEF MutualExclusion, Holders, JoinQueue, Becomes
    <3>3. NoLostWakeup'
      BY Zenon, <1>2, <2>3, <3>1 DEF NoLostWakeup
    <3> QED BY Zenon, <2>3, <3>1, <3>2, <3>3 DEF QueueInv
  <2> QED BY ZenonT(60), <1>5, <2>2, <2>3 DEF PollUnqueued
<1> QED BY Zenon, <1>4, <1>5 DEF Poll

\* cancel_waiter: the front waiter of a free mutex hands its turn on.
LEMMA CancelStep ==
  ASSUME NEW f \in Futures, IInv, Cancel(f)
  PROVE  IInv'
<1> USE DEF IInv, TypeOK
<1>1. /\ QueueTypeOK /\ WakersTypeOK /\ Running(f) /\ UNCHANGED <<locked, task, woken>>
      /\ st \in [Futures -> Status] /\ "idle" \in Status
  BY Zenon DEF QueueInv, QueueTypeOK, Status, Cancel
<1>2. CASE Unqueued(f) /\ Becomes(f, "idle") /\ UNCHANGED <<waiters, toWake>>
  <2>1. QueueInv'
    BY Zenon, <1>1, <1>2, OutsideQueue DEF Unqueued, WakersTypeOK
  <2>2. MutualExclusion'
    BY Zenon, <1>1, <1>2 DEF MutualExclusion, Holders, Becomes, Unqueued
  <2>3. NoLostWakeup'
    BY Zenon, <1>1, <1>2 DEF NoLostWakeup, WillBePolled, At
  <2> QED BY Zenon, <1>1, <2>1, <2>2, <2>3 DEF QueueInv
<1>3. ASSUME NEW i \in DOMAIN waiters, st[f] = "waiting", At(i, f),
             LeaveQueue(i, f, "idle"),
             TakeWakers(f, IF i = 1 /\ ~locked THEN FrontWaker(waiters') ELSE {})
      PROVE  IInv'
  <2> DEFINE ws == IF i = 1 /\ ~locked THEN FrontWaker(waiters') ELSE {}
  <2>1. toWake' = [toWake EXCEPT ![f] = ws]
    BY Zenon, <1>3 DEF TakeWakers
  <2>2. waiters' \in Seq(Waker)
    BY Zenon, <1>1, <1>3, RemoveAtProperties DEF LeaveQueue, QueueTypeOK
  <2>3. waiters' # <<>> => Head(waiters') = waiters'[1] /\ Head(waiters') \in Waker
    BY <2>2
  <2>4. 1 \in DOMAIN waiters' => waiters' # <<>>
    BY <2>2
  <2>5. ws \subseteq Waker
    BY Zenon, <2>3 DEF FrontWaker
  <2>6. WakersTypeOK'
    <3> HIDE DEF ws
    <3> QED BY Zenon, <1>1, <2>1, <2>5 DEF WakersTypeOK
  <2>7. /\ QueueInv'
        /\ \A h \in Futures : At(1, h)' => h # f /\ (i # 1 => At(1, h))
    BY Zenon, <1>1, <1>3, <2>6, Leaving
  <2>8. MutualExclusion'
    BY Zenon, <1>1, <1>3 DEF MutualExclusion, Holders, LeaveQueue, Becomes
  <2>9. NoLostWakeup'
    <3> SUFFICES ASSUME NEW h \in Futures, ~locked, At(1, h)'
                 PROVE  WillBePolled(h)'
      BY Zenon, <1>1 DEF NoLostWakeup
    <3>1. CASE i = 1
      <4>1. ws = {waiters'[1]}
        BY Zenon, <2>3, <2>4, <3>1 DEF FrontWaker, At
      <4> HIDE DEF ws
      <4>2. waiters'[1] \in toWake'[f]
        BY Zenon, <1>1, <2>1, <4>1 DEF WakersTypeOK
      <4> QED BY Zenon, <2>7, <4>2, FrontWillBePolled
    <3>2. CASE i # 1
      <4>1. WillBePolled(h) /\ woken'[h] = woken[h] /\ task'[h] = task[h]
        BY Zenon, <1>1, <2>7, <3>2 DEF NoLostWakeup
      <4> QED BY ZenonT(60), <1>1, <2>1, <4>1, WakeSurvives
    <3> QED BY Zenon, <3>1, <3>2
  <2> QED BY Zenon, <1>1, <2>7, <2>8, <2>9 DEF QueueInv
<1> QED BY Zenon, <1>2, <1>3 DEF Cancel

\* unlock: the waker of the front waiter is taken out with the lock.
LEMMA UnlockStep ==
  ASSUME NEW f \in Futures, IInv, Unlock(f)
  PROVE  IInv'
<1> USE DEF IInv, TypeOK
<1>1. /\ QueueTypeOK /\ WakersTypeOK /\ Running(f) /\ UNCHANGED <<waiters, task, woken>>
      /\ st \in [Futures -> Status] /\ "idle" \in Status /\ st[f] = "holding"
      /\ locked' = FALSE /\ Becomes(f, "idle")
      /\ toWake' = [toWake EXCEPT ![f] = FrontWaker(waiters)]
  BY Zenon DEF QueueInv, QueueTypeOK, Status, Unlock, TakeWakers
<1>2. FrontWaker(waiters) \subseteq Waker
  BY Zenon, <1>1, QueueShape DEF FrontWaker
<1>3. WakersTypeOK'
  BY Zenon, <1>1, <1>2 DEF WakersTypeOK
<1>4. \A i \in DOMAIN waiters : ~At(i, f)
  BY Zenon, <1>1 DEF At, QueueInv, QueueMatchesFutures
<1>5. QueueInv'
  BY Zenon, <1>1, <1>3, <1>4, OutsideQueue
<1>6. MutualExclusion'
  BY Zenon, <1>1 DEF MutualExclusion, Holders, Becomes
<1>7. NoLostWakeup'
  <2> SUFFICES ASSUME NEW h \in Futures, At(1, h)'
               PROVE  WillBePolled(h)'
    BY Zenon DEF NoLostWakeup
  <2>1. waiters # <<>> /\ Head(waiters) = waiters[1]
    BY Zenon, <1>1, QueueShape DEF At
  <2>2. waiters'[1] \in toWake'[f]
    BY Zenon, <1>1, <2>1 DEF FrontWaker, WakersTypeOK
  <2> QED BY Zenon, <1>5, <2>2, FrontWillBePolled
<1> QED BY ZenonT(60), <1>1, <1>5, <1>6, <1>7 DEF QueueInv

\* Calling a waker keeps the wake-ups that are under way.
LEMMA FireStep ==
  ASSUME NEW f \in Futures, IInv, Fire(f)
  PROVE  IInv'
<1> USE DEF IInv, TypeOK, Fire
<1>1. QueueInv'
  BY Zenon, FireKeepsQueue DEF queueVars
<1>2. MutualExclusion'
  BY Zenon DEF MutualExclusion, Holders
<1>3. NoLostWakeup'
  BY Zenon, FireKeepsWakes DEF NoLostWakeup, At, QueueInv, QueueTypeOK
<1> QED BY Zenon, <1>1, <1>2, <1>3 DEF QueueInv

\* Every step of the mutex keeps the invariant.
LEMMA NextIInv == IInv /\ [Next]_vars => IInv'
<1> SUFFICES ASSUME IInv, [Next]_vars PROVE IInv'
  BY Zenon
<1>1. CASE UNCHANGED vars
  BY Zenon, <1>1 DEF vars, IInv, TypeOK, QueueInv, QueueTypeOK, WakersTypeOK,
     MutualExclusion, Holders, NoLostWakeup, WillBePolled, QueueMatchesFutures,
     WakersAreCurrent, At
<1> QED
  BY Zenon, <1>1, StartStep, PollStep, CancelStep, UnlockStep, FireStep DEF Next

\* The state of the mutex always satisfies the inductive invariant.
THEOREM MutexInvariant == Spec => []IInv
BY InitIInv, NextIInv, PTL DEF Spec

\* Two guards of the mutex never coexist, for any number of futures: the
\* &mut T of deref_mut is unique.
THEOREM MutexIsExclusive == Spec => []MutualExclusion
<1>1. IInv => MutualExclusion
  BY Zenon DEF IInv
<1> QED BY <1>1, MutexInvariant, PTL

\* No interleaving of unlock, cancellation and moves between tasks leaves a
\* free mutex with a front waiter nobody is going to poll.
THEOREM MutexLosesNoWakeup == Spec => []NoLostWakeup
<1>1. IInv => NoLostWakeup
  BY Zenon DEF IInv
<1> QED BY <1>1, MutexInvariant, PTL

\* Waiters get the mutex in the order they queued, and neither try_lock nor a
\* first poll gets past them.
THEOREM MutexIsFifo == Spec => NoOvertaking
<1> DEFINE Overtakes(f, g) ==
             f # g /\ Before(f, g) /\ st[g] # "holding" /\ st'[g] = "holding"
<1>1. ASSUME IInv, [Next]_vars, NEW f \in Futures, NEW g \in Futures
      PROVE  ~Overtakes(f, g)
  <2> SUFFICES ASSUME f # g, NEW i \in DOMAIN waiters, At(i, f),
                      \A j \in DOMAIN waiters : At(j, g) => i < j,
                      st[g] # "holding", st'[g] = "holding"
               PROVE  FALSE
    BY Zenon DEF Before
  <2>1. i \in Nat /\ i >= 1 /\ waiters # <<>>
    BY <1>1, QueueShape DEF IInv, TypeOK
  <2>2. st \in [Futures -> Status]
    BY Zenon, <1>1 DEF IInv, TypeOK, QueueTypeOK
  <2>3. CASE UNCHANGED vars
    BY Zenon, <2>3 DEF vars
  <2>4. ASSUME NEW h \in Futures, Lock(h) \/ Cancel(h) \/ Unlock(h) \/ Fire(h)
        PROVE  FALSE
    BY Zenon, <2>2, <2>4 
    DEF Lock, CreateFuture, Cancel, LeaveQueue, Unlock, Fire, Becomes
  <2>5. ASSUME NEW h \in Futures, TryLock(h)
        PROVE  FALSE
    BY Zenon, <2>1, <2>5 DEF TryLock
  <2>6. ASSUME NEW h \in Futures, NEW t \in Tasks, PollUnqueued(h, t)
        PROVE  FALSE
    BY Zenon, <2>1, <2>2, <2>6 DEF PollUnqueued, JoinQueue, Becomes
  <2>7. ASSUME NEW h \in Futures, NEW t \in Tasks, PollQueued(h, t)
        PROVE  FALSE
    <3>1. PICK k \in DOMAIN waiters : k = 1 /\ At(k, h) /\ Becomes(h, "holding")
      BY Zenon, <2>2, <2>7 DEF PollQueued, StayQueued, LeaveQueue
    <3>2. h = g
      BY Zenon, <2>2, <3>1 DEF Becomes
    <3> QED BY <2>1, <3>1, <3>2
  <2> QED BY Zenon, <1>1, <2>3, <2>4, <2>5, <2>6, <2>7 DEF Next, Poll
<1>2. IInv /\ [Next]_vars => [ServedInOrder]_vars
  BY Zenon, <1>1 DEF ServedInOrder
<1> QED BY <1>2, MutexInvariant, PTL DEF Spec, NoOvertaking

-----------------------------------------------------------------------------
(* Barrier.                                                                *)

\* The rounds that are over had Threshold arrivals and one leader; the current
\* one has the arrivals counted, the later ones have none.
RoundOK(g) ==
  /\ g < generation => count[g] = Threshold /\ \E f \in Threads : leaders[g] = {f}
  /\ g = generation => count[g] = arrived
  /\ g > generation => count[g] = 0
  /\ g >= generation => leaders[g] = {}

\* A registered future of the current round has its last waker in the queue.
ThreadOK(f) ==
  /\ entered[f] <= generation
  /\ threadSt[f] \in {"leader", "follower"} => entered[f] < generation
  /\ threadSt[f] = "registered" =>
       IF entered[f] < generation THEN threadWoken[f]
       ELSE [thread |-> f, task |-> threadTask[f]] \in barrierWaiters

\* The waiters counted are fewer than a round needs, round by round and future
\* by future.
BarrierIInv ==
  /\ BarrierTypeOK /\ arrived < Threshold
  /\ \A g \in Rounds : RoundOK(g)
  /\ \A f \in Threads : ThreadOK(f)

\* Initially round 0 has no arrivals.
LEMMA BarrierStart == BarrierInit => BarrierIInv
BY BarrierAssumption DEF BarrierInit, BarrierIInv, BarrierTypeOK, RoundOK, ThreadOK, Rounds

\* Every poll and every drop preserves the invariant; the arrival that completes
\* a round is the case to look at.
LEMMA BarrierNextInv == BarrierIInv /\ [BarrierNext]_barrierVars => BarrierIInv'
<1> SUFFICES ASSUME BarrierIInv, [BarrierNext]_barrierVars PROVE BarrierIInv'
  BY Zenon
<1> USE BarrierAssumption DEF BarrierIInv, ThreadBecomes
<1>1. ASSUME NEW f \in Threads, Wait(f) PROVE BarrierIInv'
  BY Zenon, <1>1 DEF Wait, BarrierTypeOK, RoundOK, ThreadOK
<1>2. ASSUME NEW f \in Threads, Drop(f) PROVE BarrierIInv'
  BY Zenon, <1>2 DEF Drop, BarrierTypeOK, RoundOK, ThreadOK
<1>3. ASSUME NEW f \in Threads, NEW t \in ThreadTasks, Arrive(f, t) PROVE BarrierIInv'
  <2>1. /\ generation \in Nat /\ generation \in Rounds /\ generation + 1 \in Rounds
        /\ arrived \in Nat /\ Threshold \in Nat
        /\ entered' = [entered EXCEPT ![f] = generation]
        /\ arrivals' = [arrivals EXCEPT ![generation] = @ \cup {f}]
        /\ count' = [count EXCEPT ![generation] = @ + 1]
        /\ threadTask' = [threadTask EXCEPT ![f] = t]
    BY <1>3 DEF Arrive, Polled, BarrierTypeOK, Rounds
  <2>2. /\ entered' \in [Threads -> Rounds] /\ arrivals' \in [Rounds -> SUBSET Threads]
        /\ count' \in [Rounds -> Nat] /\ threadTask' \in [Threads -> ThreadTasks]
    BY <2>1 DEF BarrierTypeOK
  <2>3. CASE arrived + 1 = Threshold
    <3>1. /\ arrived' = 0 /\ generation' = generation + 1
          /\ threadSt' = [threadSt EXCEPT ![f] = "leader"]
          /\ leaders' = [leaders EXCEPT ![generation] = @ \cup {f}]
          /\ WakeThreads(f)
      BY Zenon, <1>3, <2>3 DEF Arrive
    <3>2. BarrierTypeOK' /\ arrived' < Threshold
      BY <2>1, <2>2, <3>1 DEF WakeThreads, BarrierTypeOK
    <3>3. ASSUME NEW g \in Rounds PROVE RoundOK(g)'
      <4>1. g \in Nat /\ RoundOK(g) /\ RoundOK(generation)
        BY <2>1 DEF Rounds
      <4>2. CASE g = generation
        <5>1. count'[g] = Threshold /\ leaders'[g] = {f}
          BY <2>1, <2>3, <3>1, <4>1, <4>2 DEF BarrierTypeOK, RoundOK
        <5> QED BY <2>1, <3>1, <4>2, <5>1 DEF RoundOK
      <4>3. CASE g # generation
        <5>1. count'[g] = count[g] /\ leaders'[g] = leaders[g]
          BY Zenon, <2>1, <3>1, <4>3 DEF BarrierTypeOK
        <5> QED BY <2>1, <3>1, <4>1, <4>3, <5>1 DEF RoundOK
      <4> QED BY Zenon, <4>2, <4>3
    <3>4. ASSUME NEW g \in Threads PROVE ThreadOK(g)'
      BY <2>1, <3>1 DEF WakeThreads, BarrierTypeOK, Rounds, ThreadOK
    <3> QED BY <3>2, <3>3, <3>4, Zenon
  <2>4. CASE arrived + 1 # Threshold
    <3>1. /\ arrived' = arrived + 1 /\ UNCHANGED <<generation, leaders>>
          /\ threadSt' = [threadSt EXCEPT ![f] = "registered"]
          /\ PushWaker(f, t) /\ threadWoken' = [threadWoken EXCEPT ![f] = FALSE]
      BY Zenon, <1>3, <2>4 DEF Arrive
    <3>2. BarrierTypeOK' /\ arrived' < Threshold
      BY <2>1, <2>2, <2>4, <3>1 DEF PushWaker, BarrierTypeOK
    <3>3. ASSUME NEW g \in Rounds PROVE RoundOK(g)'
      BY Zenon, <2>1, <2>4, <3>1 DEF BarrierTypeOK, Rounds, RoundOK
    <3>4. ASSUME NEW g \in Threads PROVE ThreadOK(g)'
      BY <2>1, <3>1 DEF PushWaker, BarrierTypeOK, Rounds, ThreadOK
    <3> QED BY <3>2, <3>3, <3>4, Zenon
  <2> QED BY <2>3, <2>4, Zenon
<1>4. ASSUME NEW f \in Threads, NEW t \in ThreadTasks, PollAgain(f, t) PROVE BarrierIInv'
  <2>1. BarrierTypeOK' /\ arrived' < Threshold /\ \A g \in Rounds : RoundOK(g)'
    BY <1>4 DEF PollAgain, Polled, PushWaker, BarrierTypeOK, RoundOK
  <2>2. ASSUME NEW g \in Threads PROVE ThreadOK(g)'
    <3>1. /\ entered[f] <= generation /\ entered[f] \in Nat /\ generation \in Nat
          /\ UNCHANGED <<generation, entered>> /\ ThreadOK(g)
          /\ threadTask' = [threadTask EXCEPT ![f] = t]
          /\ threadWoken' = [threadWoken EXCEPT ![f] = FALSE]
      <4>1. ThreadOK(f) /\ ThreadOK(g) /\ entered[f] \in Nat /\ generation \in Nat
        BY DEF BarrierTypeOK, Rounds
      <4> QED BY <1>4, <4>1, Zenon DEF PollAgain, Polled, ThreadOK
    <3>2. CASE generation # entered[f]
      <4>1. threadSt' = [threadSt EXCEPT ![f] = "follower"] /\ UNCHANGED barrierWaiters
        BY Zenon, <1>4, <3>2 DEF PollAgain
      <4> QED BY <3>1, <3>2, <4>1 DEF BarrierTypeOK, ThreadOK
    <3>3. CASE generation = entered[f]
      <4>1. threadSt[f] = "registered" /\ UNCHANGED threadSt /\ PushWaker(f, t)
        BY Zenon, <1>4, <3>3 DEF PollAgain
      <4> QED BY <3>1, <3>3, <4>1 DEF BarrierTypeOK, ThreadOK, PushWaker
    <3> QED BY Zenon, <3>2, <3>3
  <2> QED BY <2>1, <2>2, Zenon
<1>5. CASE UNCHANGED barrierVars
  BY Zenon, <1>5 DEF barrierVars, BarrierTypeOK, RoundOK, ThreadOK
<1> HIDE DEF BarrierIInv
<1> QED BY <1>1, <1>2, <1>3, <1>4, <1>5, Zenon DEF BarrierNext

\* For any number of threads, any threshold and any number of rounds: a round
\* ends with exactly Threshold arrivals and one leader, nobody leaves it earlier,
\* and its end wakes everybody who waits in it.
THEOREM BarrierRoundsAreComplete == BarrierSpec => []RoundsAreComplete
<1>1. BarrierIInv => RoundsAreComplete
  <2> SUFFICES ASSUME BarrierIInv PROVE RoundsAreComplete
    BY Zenon
  <2>1. ASSUME NEW g \in Rounds, g < generation PROVE \E f \in Threads : leaders[g] = {f}
    BY Zenon, <2>1 DEF BarrierIInv, RoundOK
  <2>2. ASSUME NEW g \in Rounds
        PROVE  IF g < generation THEN count[g] = Threshold /\ \E f \in Threads : leaders[g] = {f}
               ELSE /\ count[g] = IF g = generation THEN arrived ELSE 0
                    /\ count[g] < Threshold /\ leaders[g] = {}
    <3>1. /\ g \in Nat /\ generation \in Nat /\ arrived < Threshold /\ RoundOK(g)
          /\ 0 < Threshold
      BY BarrierAssumption DEF BarrierIInv, BarrierTypeOK, Rounds
    <3> QED BY <2>1, <3>1 DEF RoundOK
  <2>3. \A f \in Threads : threadSt[f] \in {"leader", "follower"} => entered[f] < generation
    BY Zenon DEF BarrierIInv, ThreadOK
  <2>4. RoundEndWakesAll
    BY Zenon DEF BarrierIInv, ThreadOK, RoundEndWakesAll
  <2> QED BY <2>2, <2>3, <2>4, Zenon DEF BarrierIInv, RoundsAreComplete
<1> QED BY <1>1, BarrierStart, BarrierNextInv, PTL DEF BarrierSpec

(* Notify.                                                                 *)

Entry == [future : Listeners, task : Pollers \cup {Noop}]
OnePerFuture(q) == \A i, j \in DOMAIN q : q[i].future = q[j].future => i = j

\* A queued future is waiting and was created in this generation; no permit is
\* stored while one is queued.
NotifyQueueOK ==
  /\ OnePerFuture(notifyWaiters)
  /\ \A w \in Range(notifyWaiters) : notifySt[w.future] = "live" /\ ~Satisfied(w.future)
  /\ permit => notifyWaiters = <<>>

\* How far a future has come, and what has happened since it was created.
StagesOK ==
  \A f \in Listeners :
    /\ notifySt[f] = "ready" => notified[f] = "CONSUMED"
    /\ created[f] <= notifyGeneration /\ (parked[f] => notifySt[f] = "live")
    /\ notifyDue[f] => notifySt[f] # "idle" /\ (notifySt[f] = "live" => created[f] < notifyGeneration)

\* A sleeping future has its own task's waker in the queue, until it was taken
\* out to be called.
SleepersOK ==
  \A f \in Listeners : parked[f] =>
    IF Satisfied(f) THEN Wk!WillBePolled(f)
    ELSE Wk!WakerOf(f, notifyTask[f]) \in Range(notifyWaiters)

NotifyIInv == NotifyTypeOK /\ NotifyQueueOK /\ StagesOK /\ SleepersOK /\ NotifyOneIsKept

\* A queue that lost its i-th waiter.
LEMMA OneLess ==
  ASSUME NEW S, NEW q \in Seq(S), OnePerFuture(q), NEW i \in DOMAIN q, NEW r \in Seq(S),
         DOMAIN r = 1..(Len(q) - 1),
         \A j \in 1..(Len(q) - 1) : r[j] = IF j < i THEN q[j] ELSE q[j + 1]
  PROVE  /\ OnePerFuture(r) /\ q[i] \in Range(q)
         /\ Range(r) = {w \in Range(q) : w.future # q[i].future}
<1>1. Len(q) \in Nat /\ DOMAIN q = 1..Len(q) /\ i \in 1..Len(q)
  OBVIOUS
<1> DEFINE At0(j) == IF j < i THEN j ELSE j + 1
           n == Len(q)
<1> HIDE DEF n
<1>2. \A j \in 1..(n - 1) : At0(j) \in 1..n /\ At0(j) # i /\ r[j] = q[At0(j)]
  BY <1>1 DEF n
<1>3. \A j, k \in 1..(n - 1) : At0(j) = At0(k) => j = k
  BY <1>1 DEF n
<1>4. \A k \in 1..n : k # i => \E j \in 1..(n - 1) : At0(j) = k
  <2> SUFFICES ASSUME NEW k \in 1..n, k # i PROVE \E j \in 1..(n - 1) : At0(j) = k
    BY Zenon
  <2>1. CASE k < i
    <3>1. k \in 1..(n - 1) /\ At0(k) = k
      BY <2>1, <1>1 DEF n
    <3>2. QED
      BY Zenon, <3>1
  <2>2. CASE ~(k < i)
    <3>1. k - 1 \in 1..(n - 1) /\ At0(k - 1) = k
      BY <2>2, <1>1 DEF n
    <3>2. QED
      BY Zenon, <3>1
  <2>3. QED
    BY Zenon, <2>1, <2>2
<1> HIDE DEF At0
<1>5. DOMAIN q = 1..n /\ DOMAIN r = 1..(n - 1) /\ i \in 1..n
  BY Zenon, <1>1 DEF n
<1>6. OnePerFuture(r)
  <2> SUFFICES ASSUME NEW j \in 1..(n - 1), NEW k \in 1..(n - 1), r[j].future = r[k].future
               PROVE  j = k
    BY Zenon, <1>5 DEF OnePerFuture
  <2>1. At0(j) = At0(k)
    BY <1>2, <1>5 DEF OnePerFuture
  <2>2. QED
    BY Zenon, <2>1, <1>3
<1>7. ASSUME NEW w \in Range(r) PROVE w \in Range(q) /\ w.future # q[i].future
  <2>1. PICK j \in 1..(n - 1) : w = r[j]
    BY Zenon, <1>5 DEF Range
  <2>2. QED
    BY <2>1, <1>2, <1>5 DEF Range, OnePerFuture
<1>8. ASSUME NEW w \in Range(q), w.future # q[i].future PROVE w \in Range(r)
  <2>1. PICK k \in 1..n : w = q[k]
    BY Zenon, <1>5 DEF Range
  <2>2. PICK j \in 1..(n - 1) : At0(j) = k
    BY Zenon, <2>1, <1>8, <1>4
  <2>3. QED
    BY Zenon, <2>1, <2>2, <1>2, <1>5 DEF Range
<1>9. Range(r) = {w \in Range(q) : w.future # q[i].future} /\ q[i] \in Range(q)
  BY Zenon, <1>5, <1>7, <1>8 DEF Range
<1>10. QED
  BY Zenon, <1>6, <1>9

\* The ways a waiter leaves: by its future, from the front and from the back.
LEMMA OneLeaves ==
  ASSUME NEW S, NEW q \in Seq(S), OnePerFuture(q)
  PROVE  /\ \A f : LET r == WithoutWaiter(f, q) IN
              /\ r \in Seq(S) /\ OnePerFuture(r)
              /\ Range(r) = {w \in Range(q) : w.future # f}
         /\ q # <<>> =>
              /\ Tail(q) \in Seq(S) /\ OnePerFuture(Tail(q)) /\ Head(q) \in Range(q)
              /\ Range(Tail(q)) = {w \in Range(q) : w.future # Head(q).future}
         /\ q # <<>> => LET r == SubSeq(q, 1, Len(q) - 1) IN
              /\ r \in Seq(S) /\ OnePerFuture(r) /\ q[Len(q)] \in Range(q)
              /\ Range(r) = {w \in Range(q) : w.future # q[Len(q)].future}
<1>1. ASSUME NEW f
      PROVE  LET r == WithoutWaiter(f, q) IN
              /\ r \in Seq(S) /\ OnePerFuture(r)
              /\ Range(r) = {w \in Range(q) : w.future # f}
  <2>1. CASE \A i \in DOMAIN q : q[i].future # f
    <3>1. WithoutWaiter(f, q) = q
      BY Zenon, <2>1 DEF WithoutWaiter
    <3>2. Range(q) = {w \in Range(q) : w.future # f}
      BY Zenon, <2>1 DEF Range
    <3>3. QED
      BY Zenon, <3>1, <3>2
  <2>2. CASE ~\A i \in DOMAIN q : q[i].future # f
    <3> DEFINE i == CHOOSE i \in DOMAIN q : q[i].future = f
    <3>1. i \in DOMAIN q /\ q[i].future = f
      BY Zenon, <2>2
    <3> HIDE DEF i
    <3> DEFINE a == SubSeq(q, 1, i - 1)
               b == SubSeq(q, i + 1, Len(q))
               r == a \o b
               n == Len(q)
    <3>2. WithoutWaiter(f, q) = r
      BY Zenon, <2>2 DEF WithoutWaiter, i
    <3>3. /\ r \in Seq(S) /\ DOMAIN r = 1..(Len(q) - 1)
          /\ \A j \in 1..(Len(q) - 1) : r[j] = IF j < i THEN q[j] ELSE q[j + 1]
      <4>1. n \in Nat /\ i \in 1..n
        BY <3>1
      <4>2. a \in Seq(S) /\ Len(a) = i - 1 /\ \A j \in 1..(i - 1) : a[j] = q[j]
        BY <4>1 DEF n
      <4>3. b \in Seq(S) /\ Len(b) = n - i /\ \A j \in 1..(n - i) : b[j] = q[j + i]
        BY <4>1 DEF n
      <4> HIDE DEF a, b, n
      <4>4. /\ r \in Seq(S) /\ DOMAIN r = 1..(Len(a) + Len(b))
            /\ \A j \in 1..(Len(a) + Len(b)) : r[j] = IF j <= Len(a) THEN a[j] ELSE b[j - Len(a)]
        <5>1. a \in Seq(S) /\ b \in Seq(S) /\ Len(a) \in Nat /\ Len(b) \in Nat
          BY <4>2, <4>3
        <5>2. r \in Seq(S) /\ Len(r) = Len(a) + Len(b)
          BY <5>1
        <5>3. \A j \in 1..(Len(a) + Len(b)) : r[j] = IF j <= Len(a) THEN a[j] ELSE b[j - Len(a)]
          BY <5>1
        <5>4. QED
          BY <5>2, <5>3
      <4> HIDE DEF r
      <4>5. ASSUME NEW j \in 1..(n - 1) PROVE r[j] = IF j < i THEN q[j] ELSE q[j + 1]
        <5>1. CASE j < i
          BY <5>1, <4>1, <4>2, <4>3, <4>4
        <5>2. CASE ~(j < i)
          <6>1. j - (i - 1) \in 1..(n - i) /\ (j - (i - 1)) + i = j + 1
            BY <5>2, <4>1
          <6>2. r[j] = b[j - (i - 1)]
            BY <5>2, <4>1, <4>2, <4>3, <4>4
          <6>3. QED
            BY Zenon, <5>2, <6>1, <6>2, <4>3
        <5>3. QED
          BY Zenon, <5>1, <5>2
      <4>6. Len(a) + Len(b) = n - 1
        BY <4>1, <4>2, <4>3
      <4>7. QED
        BY Zenon, <4>4, <4>5, <4>6 DEF n
    <3> HIDE DEF r
    <3>4. /\ OnePerFuture(r) /\ q[i] \in Range(q)
          /\ Range(r) = {w \in Range(q) : w.future # q[i].future}
      BY <3>1, <3>3, OneLess
    <3>5. QED
      BY Zenon, <3>1, <3>2, <3>3, <3>4 DEF r
  <2>3. QED
    BY Zenon, <2>1, <2>2
<1>2. ASSUME q # <<>>
      PROVE  /\ Tail(q) \in Seq(S) /\ OnePerFuture(Tail(q)) /\ Head(q) \in Range(q)
             /\ Range(Tail(q)) = {w \in Range(q) : w.future # Head(q).future}
  <2> DEFINE r == Tail(q)
  <2>1. /\ r \in Seq(S) /\ DOMAIN r = 1..(Len(q) - 1) /\ 1 \in DOMAIN q /\ Head(q) = q[1]
        /\ \A j \in 1..(Len(q) - 1) : r[j] = IF j < 1 THEN q[j] ELSE q[j + 1]
    BY <1>2
  <2> HIDE DEF r
  <2>2. OnePerFuture(r) /\ q[1] \in Range(q) /\ Range(r) = {w \in Range(q) : w.future # q[1].future}
    BY <2>1, OneLess
  <2>3. QED
    BY Zenon, <2>1, <2>2 DEF r
<1>3. ASSUME q # <<>>
      PROVE  LET r == SubSeq(q, 1, Len(q) - 1) IN
              /\ r \in Seq(S) /\ OnePerFuture(r) /\ q[Len(q)] \in Range(q)
              /\ Range(r) = {w \in Range(q) : w.future # q[Len(q)].future}
  <2> DEFINE r == SubSeq(q, 1, Len(q) - 1)
  <2>1. Len(q) \in Nat \ {0} /\ DOMAIN q = 1..Len(q)
    BY <1>3
  <2>2. /\ r \in Seq(S) /\ DOMAIN r = 1..(Len(q) - 1) /\ Len(q) \in DOMAIN q
        /\ \A j \in 1..(Len(q) - 1) : r[j] = IF j < Len(q) THEN q[j] ELSE q[j + 1]
    BY <2>1
  <2> HIDE DEF r
  <2>3. /\ OnePerFuture(r) /\ q[Len(q)] \in Range(q)
        /\ Range(r) = {w \in Range(q) : w.future # q[Len(q)].future}
    BY <2>2, OneLess
  <2>4. QED
    BY Zenon, <2>2, <2>3 DEF r
<1>4. QED
  BY Zenon, <1>1, <1>2, <1>3

\* Wakers that a thread took out to call will be called.
LEMMA WakersTaken ==
  ASSUME Wk!WakersTypeOK, NEW f \in Listeners, Wk!Running(f), NEW ws \in SUBSET Entry,
         Wk!TakeWakers(f, Callable(ws)), UNCHANGED <<notifyTask, notifyWoken>>
  PROVE  /\ Wk!WakersTypeOK'
         /\ \A h \in Listeners : Wk!WillBePolled(h) => Wk!WillBePolled(h)'
         /\ \A h \in Listeners :
              Wk!WakerOf(h, notifyTask[h]) \in ws => Wk!WillBePolled(h)'
<1>1. Callable(ws) \subseteq Wk!Waker
  BY Zenon DEF Callable, Entry, Wk!Waker
<1>2. notifyToWake' = [notifyToWake EXCEPT ![f] = Callable(ws)]
  BY Zenon DEF Wk!TakeWakers
<1>3. Wk!WakersTypeOK'
  BY Zenon, <1>1, <1>2 DEF Wk!WakersTypeOK
<1>4. notifyToWake'[f] = Callable(ws) /\ \A k \in Listeners : notifyToWake[k] \subseteq notifyToWake'[k]
  BY Zenon, <1>2 DEF Wk!WakersTypeOK, Wk!Running
<1>5. ASSUME NEW h \in Listeners, Wk!WillBePolled(h) PROVE Wk!WillBePolled(h)'
  BY Zenon, <1>4, <1>5 DEF Wk!WillBePolled
<1>6. ASSUME NEW h \in Listeners, Wk!WakerOf(h, notifyTask[h]) \in ws
      PROVE  Wk!WillBePolled(h)'
  <2>1. Wk!WakerOf(h, notifyTask[h]).task = notifyTask[h] /\ notifyTask[h] # Noop
    BY Zenon, NotifyAssumption DEF Wk!WakerOf, Wk!WakersTypeOK
  <2>2. Wk!WakerOf(h, notifyTask[h]) \in notifyToWake'[f]
    BY Zenon, <2>1, <1>4, <1>6 DEF Callable
  <2>3. QED
    BY Zenon, <2>2 DEF Wk!WillBePolled
<1>7. QED
  BY Zenon, <1>3, <1>5, <1>6

\* Calling a waker leaves the others to be called.
LEMMA WakersFired ==
  ASSUME Wk!WakersTypeOK, NEW f \in Listeners, Wk!FireWake(f)
  PROVE  /\ Wk!WakersTypeOK'
         /\ \A h \in Listeners : Wk!WillBePolled(h) => Wk!WillBePolled(h)'
<1>1. PICK w \in notifyToWake[f] :
        /\ notifyToWake' = [notifyToWake EXCEPT ![f] = @ \ {w}]
        /\ notifyWoken' =
             [notifyWoken EXCEPT ![w.future] = @ \/ w.task = notifyTask[w.future]]
        /\ UNCHANGED notifyTask
  BY Zenon DEF Wk!FireWake
<1>2. w \in Wk!Waker /\ w.future \in Listeners
  BY DEF Wk!WakersTypeOK, Wk!Waker
<1>3. notifyToWake' \in [Listeners -> SUBSET Wk!Waker]
  BY Zenon, <1>1 DEF Wk!WakersTypeOK
<1>4. (notifyWoken[w.future] \/ w.task = notifyTask[w.future]) \in BOOLEAN
  BY Zenon
<1>5. Wk!WakersTypeOK'
  BY Zenon, <1>1, <1>2, <1>3, <1>4 DEF Wk!WakersTypeOK
<1>6. \A h \in Listeners : notifyWoken[h] => notifyWoken'[h]
  BY Zenon, <1>1, <1>2 DEF Wk!WakersTypeOK
<1>7. \A k \in Listeners : \A v \in notifyToWake[k] : v = w \/ v \in notifyToWake'[k]
  BY Zenon, <1>1, <1>2 DEF Wk!WakersTypeOK
<1>8. ASSUME NEW h \in Listeners, w = Wk!WakerOf(h, notifyTask[h]) PROVE notifyWoken'[h]
  <2>1. w.future = h /\ w.task = notifyTask[h]
    BY Zenon, <1>8 DEF Wk!WakerOf
  <2>2. QED
    BY Zenon, <2>1, <1>1 DEF Wk!WakersTypeOK
<1>9. ASSUME NEW h \in Listeners, Wk!WillBePolled(h) PROVE Wk!WillBePolled(h)'
  BY Zenon, <1>1, <1>6, <1>7, <1>8, <1>9 DEF Wk!WillBePolled
<1>10. QED
  BY Zenon, <1>5, <1>9

\* notify_locked picks a waiter, marks and wakes it, or stores a permit.
LEMMA LockedStep ==
  ASSUME NotifyTypeOK, NEW q \in Seq(Entry), OnePerFuture(q), NEW f \in Listeners,
         NEW last, Wk!Running(f), NotifyLocked(f, last, q),
         UNCHANGED <<notifyTask, notifyWoken>>
  PROVE  /\ notifyWaiters' \in Seq(Entry) /\ OnePerFuture(notifyWaiters')
         /\ Wk!WakersTypeOK'
         /\ \A h \in Listeners : Wk!WillBePolled(h) => Wk!WillBePolled(h)'
         /\ \/ \E w \in Range(q) :
                /\ notified' = [notified EXCEPT ![w.future] = "ONE"]
                /\ Range(notifyWaiters') = {x \in Range(q) : x.future # w.future}
                /\ \A h \in Listeners :
                     w = Wk!WakerOf(h, notifyTask[h]) => Wk!WillBePolled(h)'
                /\ q # <<>> /\ UNCHANGED permit
            \/ q = <<>> /\ permit' = TRUE /\ notifyWaiters' = <<>> /\ UNCHANGED notified
<1>1. CASE q # <<>>
  <2>1. PICK w : w = IF last THEN q[Len(q)] ELSE Head(q)
    BY Zenon
  <2>2. /\ notified' = [notified EXCEPT ![w.future] = "ONE"]
        /\ Wk!TakeWakers(f, Callable({w})) /\ UNCHANGED permit
        /\ notifyWaiters' = IF last THEN SubSeq(q, 1, Len(q) - 1) ELSE Tail(q)
    BY Zenon, <1>1, <2>1 DEF NotifyLocked
  <2>3. /\ notifyWaiters' \in Seq(Entry) /\ OnePerFuture(notifyWaiters') /\ w \in Range(q)
        /\ Range(notifyWaiters') = {x \in Range(q) : x.future # w.future}
    <3>1. CASE last
      BY <3>1, <1>1, <2>1, <2>2, OneLeaves
    <3>2. CASE ~last
      BY Zenon, <3>2, <1>1, <2>1, <2>2, OneLeaves
    <3>3. QED
      BY Zenon, <3>1, <3>2
  <2>4. {w} \subseteq Entry
    BY <2>3 DEF Range
  <2>5. /\ Wk!WakersTypeOK'
        /\ \A h \in Listeners : Wk!WillBePolled(h) => Wk!WillBePolled(h)'
        /\ \A h \in Listeners : Wk!WakerOf(h, notifyTask[h]) \in {w} => Wk!WillBePolled(h)'
    BY Zenon, <2>2, <2>4, WakersTaken DEF NotifyTypeOK
  <2>6. QED
    BY Zenon, <1>1, <2>2, <2>3, <2>5
<1>2. CASE q = <<>>
  <2>1. permit' = TRUE /\ notifyWaiters' = q /\ UNCHANGED <<notified, notifyToWake>>
    BY Zenon, <1>2 DEF NotifyLocked
  <2>2. UNCHANGED notifyWakers
    BY Zenon, <2>1 DEF notifyWakers
  <2>3. Wk!WakersTypeOK' /\ \A h \in Listeners : Wk!WillBePolled(h) => Wk!WillBePolled(h)'
    BY Zenon, <2>2 DEF notifyWakers, NotifyTypeOK, Wk!WakersTypeOK, Wk!WillBePolled
  <2>4. QED
    BY Zenon, <1>2, <2>1, <2>3
<1>3. QED
  BY Zenon, <1>1, <1>2

\* A pending poll leaves the polling task's waker in the queue, once; enable
\* leaves the queue's wakers as they are.
LEMMA StayStep ==
  ASSUME NotifyTypeOK, OnePerFuture(notifyWaiters), NEW f \in Listeners,
         NEW t \in Pollers \cup {Noop}, Stay(f, t)
  PROVE  LET r == notifyWaiters' IN
         /\ r \in Seq(Entry) /\ OnePerFuture(r)
         /\ \A w \in Range(r) : w \in Range(notifyWaiters) \/ w.future = f
         /\ \A w \in Range(notifyWaiters) : w.future # f \/ t = Noop => w \in Range(r)
         /\ t # Noop => Wk!WakerOf(f, t) \in Range(r)
<1> DEFINE q == notifyWaiters
           r == notifyWaiters'
           w0 == Wk!WakerOf(f, t)
<1>1. q \in Seq(Entry) /\ w0 \in Entry /\ w0.future = f
  BY Zenon DEF NotifyTypeOK, Entry, Wk!WakerOf
<1>2. /\ InQueue(f) => r = [i \in DOMAIN q |->
                              IF q[i].future = f /\ t # Noop THEN w0 ELSE q[i]]
      /\ ~InQueue(f) => r = Append(q, w0)
  BY Zenon DEF Stay
<1>3. InQueue(f) <=> \E i \in DOMAIN q : q[i].future = f
  BY Zenon DEF InQueue
<1> HIDE DEF q, r, w0
<1>4. CASE InQueue(f)
  <2>1. /\ DOMAIN r = DOMAIN q
        /\ \A i \in DOMAIN q :
             r[i] = (IF q[i].future = f /\ t # Noop THEN w0 ELSE q[i]) /\ q[i] \in Entry
    BY <1>1, <1>2, <1>4
  <2>2. r \in Seq(Entry)
    <3>1. r \in [1..Len(q) -> Entry] /\ Len(q) \in Nat
      BY <1>1, <1>2, <1>4
    <3>2. QED
      BY <3>1
  <2>3. \A i \in DOMAIN q : r[i].future = q[i].future
    BY Zenon, <2>1, <1>1
  <2>4. OnePerFuture(r)
    BY Zenon, <2>1, <2>3 DEF OnePerFuture, q
  <2>5. \A w \in Range(r) : w \in Range(q) \/ w.future = f
    BY Zenon, <2>1, <1>1 DEF Range
  <2>6. \A w \in Range(q) : w.future # f \/ t = Noop => w \in Range(r)
    BY Zenon, <2>1 DEF Range
  <2>7. t # Noop => w0 \in Range(r)
    BY Zenon, <2>1, <1>3, <1>4 DEF Range
  <2>8. QED
    BY Zenon, <2>2, <2>4, <2>5, <2>6, <2>7 DEF q, r, w0
<1>5. CASE ~InQueue(f)
  <2> DEFINE n == Len(q)
  <2>1. /\ r \in Seq(Entry) /\ n \in Nat /\ DOMAIN q = 1..n /\ DOMAIN r = 1..(n + 1)
        /\ \A i \in 1..n : r[i] = q[i]
        /\ r[n + 1] = w0
    BY <1>1, <1>2, <1>5
  <2> HIDE DEF n
  <2>2. \A i \in 1..(n + 1) : i \in 1..n \/ i = n + 1
    BY <2>1
  <2>3. \A i \in 1..n : r[i].future # f /\ i \in 1..(n + 1)
    BY <2>1, <1>3, <1>5
  <2>4. OnePerFuture(r)
    BY Zenon, <2>1, <2>2, <2>3, <1>1 DEF OnePerFuture, q
  <2>5. \A w \in Range(r) : w \in Range(q) \/ w.future = f
    BY Zenon, <2>1, <2>2, <1>1 DEF Range
  <2>6. \A w \in Range(q) : w \in Range(r)
    BY Zenon, <2>1, <2>3 DEF Range
  <2>7. n + 1 \in 1..(n + 1)
    BY <2>1
  <2>8. w0 \in Range(r)
    BY Zenon, <2>1, <2>7 DEF Range
  <2>9. QED
    BY Zenon, <2>1, <2>4, <2>5, <2>6, <2>8 DEF q, r, w0
<1>6. QED
  BY Zenon, <1>4, <1>5

\* A future has one waiter, which waits.
LEMMA QueuedWait ==
  ASSUME NotifyIInv
  PROVE  /\ \A v, w \in Range(notifyWaiters) : v.future = w.future => v = w
         /\ \A w \in Range(notifyWaiters) :
              /\ w \in Entry /\ w.future \in Listeners /\ notifySt[w.future] = "live"
              /\ notified[w.future] = "WAITING" /\ ~Satisfied(w.future)
         /\ \A h \in Listeners :
              InQueue(h) <=> \E w \in Range(notifyWaiters) : w.future = h
<1>1. notifyWaiters \in Seq(Entry)
  BY Zenon DEF NotifyIInv, NotifyTypeOK, Entry
<1>2. \A v, w \in Range(notifyWaiters) : v.future = w.future => v = w
  BY Zenon, <1>1 DEF NotifyIInv, NotifyQueueOK, OnePerFuture, Range
<1>3. Range(notifyWaiters) \subseteq Entry
  BY <1>1 DEF Range
<1>4. \A w \in Range(notifyWaiters) :
        /\ w \in Entry /\ w.future \in Listeners /\ notifySt[w.future] = "live"
        /\ notified[w.future] = "WAITING" /\ ~Satisfied(w.future)
  BY Zenon, <1>3 DEF NotifyIInv, NotifyQueueOK, Satisfied, Entry
<1>5. \A h \in Listeners : InQueue(h) <=> \E w \in Range(notifyWaiters) : w.future = h
  BY Zenon DEF InQueue, Range
<1>6. QED
  BY Zenon, <1>2, <1>4, <1>5

\* A future that is ready takes its waiter out of the queue and the permit, if
\* it needs one.
LEMMA ConsumeStep ==
  ASSUME NotifyIInv, NEW f \in Listeners, notifySt[f] # "idle", Consume(f),
         parked' = [parked EXCEPT ![f] = FALSE], UNCHANGED <<notifyGeneration, created, notifyDue>>,
         Wk!WakersTypeOK',
         \A h \in Listeners \ {f} :
           notifyTask'[h] = notifyTask[h] /\ (Wk!WillBePolled(h) => Wk!WillBePolled(h)')
  PROVE  NotifyIInv'
<1> DEFINE q == notifyWaiters
           r == notifyWaiters'
<1>1. /\ r \in Seq(Entry) /\ OnePerFuture(r) /\ Range(r) = {w \in Range(q) : w.future # f}
      /\ q = <<>> => r = <<>>
  <2>1. r = WithoutWaiter(f, q) /\ q \in Seq(Entry) /\ OnePerFuture(q)
    BY Zenon DEF Consume, NotifyIInv, NotifyTypeOK, NotifyQueueOK, Entry
  <2>2. q = <<>> => WithoutWaiter(f, q) = q
    BY DEF WithoutWaiter
  <2> HIDE DEF q, r
  <2>3. QED
    BY <2>1, <2>2, OneLeaves
<1>2. /\ permit' = (permit /\ Satisfied(f))
      /\ notified' = [notified EXCEPT ![f] = "CONSUMED"]
      /\ notifySt' = [notifySt EXCEPT ![f] = "ready"]
      /\ owed' = (owed /\ notified[f] # "ONE" /\ (Satisfied(f) \/ ~permit))
  BY Zenon DEF Consume
<1>3. permit' \in BOOLEAN /\ owed' \in BOOLEAN
  BY <1>2, Zenon
<1>4. NotifyTypeOK'
  BY Zenon, <1>1, <1>2, <1>3 DEF NotifyIInv, NotifyTypeOK, Marks, Entry
<1>5. \A h \in Listeners : h # f =>
        /\ notified'[h] = notified[h] /\ notifySt'[h] = notifySt[h] /\ parked'[h] = parked[h]
        /\ created'[h] = created[h] /\ (Satisfied(h)' <=> Satisfied(h))
  BY Zenon, <1>2 DEF NotifyIInv, NotifyTypeOK, Satisfied
<1>6. notified'[f] = "CONSUMED" /\ notifySt'[f] = "ready" /\ ~parked'[f]
  BY Zenon, <1>2 DEF NotifyIInv, NotifyTypeOK
<1>7. NotifyQueueOK'
  <2>1. \A w \in Range(r) : notifySt'[w.future] = "live" /\ ~Satisfied(w.future)'
    BY Zenon, <1>1, <1>5, QueuedWait
  <2>2. permit' => r = <<>>
    BY Zenon, <1>1, <1>2 DEF NotifyIInv, NotifyQueueOK
  <2>3. QED
    BY Zenon, <1>1, <2>1, <2>2 DEF NotifyQueueOK
<1>8. StagesOK'
  BY Zenon, <1>5, <1>6 DEF NotifyIInv, StagesOK
<1>9. SleepersOK'
  <2> SUFFICES ASSUME NEW h \in Listeners, parked'[h]
               PROVE  IF Satisfied(h)' THEN Wk!WillBePolled(h)'
                      ELSE Wk!WakerOf(h, notifyTask'[h]) \in Range(r)
    BY Zenon DEF SleepersOK, Wk!WakerOf
  <2>1. h # f /\ parked[h]
    BY Zenon, <1>5, <1>6
  <2>2. Wk!WakerOf(h, notifyTask[h]).future = h
    BY Zenon DEF Wk!WakerOf
  <2>3. Satisfied(h)' => Wk!WillBePolled(h)'
    BY Zenon, <1>5, <2>1 DEF NotifyIInv, SleepersOK
  <2>4. ~Satisfied(h)' => Wk!WakerOf(h, notifyTask[h]) \in Range(q)
    BY Zenon, <1>5, <2>1 DEF NotifyIInv, SleepersOK
  <2>5. notifyTask'[h] = notifyTask[h]
    BY Zenon, <2>1
  <2>6. QED
    BY Zenon, <1>1, <2>1, <2>2, <2>3, <2>4, <2>5
<1>10. NotifyOneIsKept'
  <2> SUFFICES ASSUME owed'
               PROVE  permit' \/ \E k \in Listeners : notifySt'[k] = "live" /\ notified'[k] = "ONE"
    BY Zenon DEF NotifyOneIsKept
  <2>1. owed /\ notified[f] # "ONE" /\ (permit => permit')
    BY Zenon, <1>2
  <2>2. QED
    BY Zenon, <2>1, <1>5 DEF NotifyIInv, NotifyOneIsKept
<1>11. QED
  BY Zenon, <1>4, <1>7, <1>8, <1>9, <1>10 DEF NotifyIInv

\* The futures of D are dropped, those of G are handed a notification.
LEMMA HandedOn ==
  ASSUME NotifyIInv, NEW D \in SUBSET Listeners, NEW G \in SUBSET Listeners,
         notifyWaiters' \in Seq(Entry), OnePerFuture(notifyWaiters'),
         Range(notifyWaiters') = {w \in Range(notifyWaiters) : w.future \notin G \cup D},
         notified' = [h \in Listeners |-> IF h \in G THEN "ONE" ELSE notified[h]],
         notifySt' = [h \in Listeners |-> IF h \in D THEN "idle" ELSE notifySt[h]],
         parked' = [h \in Listeners |-> IF h \in D THEN FALSE ELSE parked[h]],
         created' = [h \in Listeners |-> IF h \in D THEN 0 ELSE created[h]],
         notifyDue' = [h \in Listeners |-> IF h \in D THEN FALSE ELSE notifyDue[h]],
         UNCHANGED <<notifyTask, notifyGeneration>>, Wk!WakersTypeOK',
         \A h \in Listeners : Wk!WillBePolled(h) => Wk!WillBePolled(h)',
         \A h \in G : /\ h \notin D /\ notifySt[h] = "live"
                      /\ parked[h] => Wk!WillBePolled(h)',
         permit' \in BOOLEAN, permit' => notifyWaiters' = <<>>, owed' \in BOOLEAN,
         owed' => \/ permit' \/ G # {}
                  \/ \E k \in Listeners \ D : notifySt[k] = "live" /\ notified[k] = "ONE"
  PROVE  NotifyIInv'
<1> DEFINE q == notifyWaiters
           r == notifyWaiters'
<1>1. NotifyTypeOK'
  <2>1. /\ notified' \in [Listeners -> Marks] /\ created' \in [Listeners -> Nat]
        /\ notifySt' \in [Listeners -> {"idle", "live", "ready"}]
        /\ parked' \in [Listeners -> BOOLEAN] /\ notifyDue' \in [Listeners -> BOOLEAN]
    BY Zenon DEF NotifyIInv, NotifyTypeOK, Marks
  <2>2. QED
    BY Zenon, <2>1 DEF NotifyIInv, NotifyTypeOK, Entry
<1>2. /\ \A h \in Listeners \ D :
           /\ notifySt'[h] = notifySt[h] /\ parked'[h] = parked[h]
           /\ created'[h] = created[h] /\ notifyDue'[h] = notifyDue[h]
      /\ \A h \in D : notifySt'[h] = "idle" /\ ~parked'[h] /\ created'[h] = 0 /\ ~notifyDue'[h]
      /\ \A h \in Listeners \ G : notified'[h] = notified[h]
      /\ \A h \in G : notified'[h] = "ONE"
  BY Zenon
<1>3. /\ \A h \in Listeners \ (D \cup G) : Satisfied(h)' <=> Satisfied(h)
      /\ \A h \in G : Satisfied(h)'
  BY Zenon, <1>2 DEF Satisfied
<1>4. NotifyQueueOK'
  <2>1. \A w \in Range(r) : notifySt'[w.future] = "live" /\ ~Satisfied(w.future)'
    BY Zenon, <1>2, <1>3, QueuedWait
  <2>2. QED
    BY Zenon, <2>1 DEF NotifyQueueOK
<1>5. StagesOK'
  <2> SUFFICES ASSUME NEW h \in Listeners
               PROVE  /\ notifySt'[h] = "ready" => notified'[h] = "CONSUMED"
                      /\ created'[h] <= notifyGeneration /\ (parked'[h] => notifySt'[h] = "live")
                      /\ notifyDue'[h] => notifySt'[h] # "idle"
                      /\ notifyDue'[h] /\ notifySt'[h] = "live" => created'[h] < notifyGeneration
    BY Zenon DEF StagesOK
  <2>1. CASE h \in D
    BY <2>1, <1>2 DEF NotifyIInv, NotifyTypeOK
  <2>2. CASE h \notin D
    BY Zenon, <2>2, <1>2 DEF NotifyIInv, StagesOK
  <2>3. QED
    BY Zenon, <2>1, <2>2
<1>6. SleepersOK'
  <2> SUFFICES ASSUME NEW h \in Listeners, parked'[h]
               PROVE  IF Satisfied(h)' THEN Wk!WillBePolled(h)'
                      ELSE Wk!WakerOf(h, notifyTask[h]) \in Range(r)
    BY Zenon DEF SleepersOK, Wk!WakerOf
  <2>1. h \notin D /\ parked[h]
    BY Zenon, <1>2
  <2>2. CASE h \in G
    BY Zenon, <2>1, <2>2, <1>3
  <2>3. CASE h \notin G
    <3>1. Wk!WakerOf(h, notifyTask[h]).future = h
      BY Zenon DEF Wk!WakerOf
    <3>2. Satisfied(h)' => Wk!WillBePolled(h)'
      BY Zenon, <1>3, <2>1, <2>3 DEF NotifyIInv, SleepersOK
    <3>3. ~Satisfied(h)' => Wk!WakerOf(h, notifyTask[h]) \in Range(q)
      BY Zenon, <1>3, <2>1, <2>3 DEF NotifyIInv, SleepersOK
    <3>4. QED
      BY Zenon, <2>1, <2>3, <3>1, <3>2, <3>3
  <2>4. QED
    BY Zenon, <2>2, <2>3
<1>7. NotifyOneIsKept'
  BY Zenon, <1>2 DEF NotifyOneIsKept
<1>8. QED
  BY Zenon, <1>1, <1>4, <1>5, <1>6, <1>7 DEF NotifyIInv

\* notify_locked keeps the invariant, the futures of D being dropped.
LEMMA LockedKeeps ==
  ASSUME NotifyIInv, NEW D \in SUBSET Listeners, NEW q \in Seq(Entry), OnePerFuture(q),
         Range(q) = {w \in Range(notifyWaiters) : w.future \notin D},
         notifyWaiters = <<>> => q = <<>>,
         NEW f \in Listeners, NEW last, Wk!Running(f), NotifyLocked(f, last, q),
         notifySt' = [h \in Listeners |-> IF h \in D THEN "idle" ELSE notifySt[h]],
         parked' = [h \in Listeners |-> IF h \in D THEN FALSE ELSE parked[h]],
         created' = [h \in Listeners |-> IF h \in D THEN 0 ELSE created[h]],
         notifyDue' = [h \in Listeners |-> IF h \in D THEN FALSE ELSE notifyDue[h]],
         UNCHANGED <<notifyTask, notifyWoken, notifyGeneration>>, owed' \in BOOLEAN
  PROVE  NotifyIInv'
<1> DEFINE r == notifyWaiters'
<1>1. /\ r \in Seq(Entry) /\ OnePerFuture(r) /\ Wk!WakersTypeOK'
      /\ \A h \in Listeners : Wk!WillBePolled(h) => Wk!WillBePolled(h)'
      /\ \/ \E w \in Range(q) :
             /\ notified' = [notified EXCEPT ![w.future] = "ONE"]
             /\ Range(r) = {x \in Range(q) : x.future # w.future}
             /\ \A h \in Listeners : w = Wk!WakerOf(h, notifyTask[h]) => Wk!WillBePolled(h)'
             /\ q # <<>> /\ UNCHANGED permit
         \/ q = <<>> /\ permit' = TRUE /\ r = <<>> /\ UNCHANGED notified
  BY Zenon, LockedStep DEF NotifyIInv
<1>2. CASE q # <<>>
  <2>1. PICK w \in Range(q) :
          /\ notified' = [notified EXCEPT ![w.future] = "ONE"]
          /\ Range(r) = {x \in Range(q) : x.future # w.future}
          /\ \A h \in Listeners : w = Wk!WakerOf(h, notifyTask[h]) => Wk!WillBePolled(h)'
          /\ UNCHANGED permit
    BY Zenon, <1>1, <1>2
  <2>2. PICK k \in Listeners : k = w.future
    BY Zenon, QueuedWait
  <2>3. /\ k \notin D /\ notifySt[k] = "live" /\ ~Satisfied(k) /\ w \in Range(notifyWaiters)
        /\ \A v \in Range(notifyWaiters) : v.future = k => v = w
    BY Zenon, <2>1, <2>2, QueuedWait
  <2>4. parked[k] => Wk!WillBePolled(k)'
    <3>1. Wk!WakerOf(k, notifyTask[k]).future = k
      BY Zenon DEF Wk!WakerOf
    <3>2. parked[k] => Wk!WakerOf(k, notifyTask[k]) \in Range(notifyWaiters)
      BY Zenon, <2>3 DEF NotifyIInv, SleepersOK
    <3>3. QED
      BY Zenon, <2>1, <2>3, <3>1, <3>2
  <2>5. notified' = [h \in Listeners |-> IF h \in {k} THEN "ONE" ELSE notified[h]]
    BY Zenon, <2>1, <2>2 DEF NotifyIInv, NotifyTypeOK
  <2>6. Range(r) = {v \in Range(notifyWaiters) : v.future \notin {k} \cup D}
    BY Zenon, <2>1, <2>2
  <2>7. permit' \in BOOLEAN /\ ~permit'
    BY Zenon, <1>2, <2>1 DEF NotifyIInv, NotifyTypeOK, NotifyQueueOK
  <2>8. {k} \in SUBSET Listeners /\ {k} # {}
    BY Zenon
  <2>9. \A h \in {k} : h \notin D /\ notifySt[h] = "live" /\ (parked[h] => Wk!WillBePolled(h)')
    BY Zenon, <2>3, <2>4
  <2> HIDE DEF r
  <2>10. QED
    BY Zenon, <1>1, <2>5, <2>6, <2>7, <2>8, <2>9, HandedOn DEF r
<1>3. CASE q = <<>>
  <2>1. permit' = TRUE /\ r = <<>> /\ UNCHANGED notified
    BY Zenon, <1>1, <1>3 DEF Range
  <2>2. notified' = [h \in Listeners |-> IF h \in {} THEN "ONE" ELSE notified[h]]
    BY Zenon, <2>1 DEF NotifyIInv, NotifyTypeOK
  <2>3. Range(r) = {v \in Range(notifyWaiters) : v.future \notin {} \cup D}
    BY Zenon, <1>3, <2>1
  <2>4. permit' \in BOOLEAN /\ permit' /\ {} \in SUBSET Listeners
    BY Zenon, <2>1
  <2> HIDE DEF r
  <2>5. QED
    BY Zenon, <1>1, <2>1, <2>2, <2>3, <2>4, HandedOn DEF r
<1>4. QED
  BY Zenon, <1>2, <1>3

\* No notification is lost: a notify_one is stored or carried until consumed,
\* notify_waiters reaches every future created before it, and a sleeping future
\* that would be ready is going to be polled (NotifyState, Notified::poll_notified,
\* cancel).
THEOREM NotifyLosesNothing == NotifySpec => []NoLostNotification
<1>1. NotifyInit => NotifyIInv
  <2> SUFFICES ASSUME NotifyInit PROVE NotifyIInv
    BY Zenon
  <2>1. <<>> \in Seq(Entry) /\ DOMAIN <<>> = {}
    OBVIOUS
  <2>2. NotifyTypeOK
    BY Zenon, <2>1 DEF NotifyInit, NotifyTypeOK, Marks, Entry, Wk!WakersInit, Wk!WakersTypeOK
  <2>3. NotifyQueueOK /\ StagesOK /\ SleepersOK /\ NotifyOneIsKept
    BY <2>1 DEF NotifyInit, NotifyQueueOK, OnePerFuture, StagesOK, SleepersOK,
                NotifyOneIsKept, Range
  <2>4. QED
    BY Zenon, <2>2, <2>3 DEF NotifyIInv
<1>2. NotifyIInv /\ [NotifyNext]_notifyVars => NotifyIInv'
  <2> SUFFICES ASSUME NotifyIInv, [NotifyNext]_notifyVars PROVE NotifyIInv'
    BY Zenon
  <2> DEFINE q == notifyWaiters
             r == notifyWaiters'
  <2>q. q \in Seq(Entry) /\ OnePerFuture(q)
    BY Zenon DEF NotifyIInv, NotifyTypeOK, NotifyQueueOK, Entry
  <2>s. \A h \in Listeners : parked[h] =>
          /\ Satisfied(h) => Wk!WillBePolled(h)
          /\ ~Satisfied(h) => Wk!WakerOf(h, notifyTask[h]) \in Range(q)
          /\ Wk!WakerOf(h, notifyTask[h]).future = h /\ notifySt[h] = "live"
    BY Zenon DEF NotifyIInv, SleepersOK, StagesOK, Wk!WakerOf
  <2>1. ASSUME NEW f \in Listeners, Notified(f) PROVE NotifyIInv'
    <3>1. /\ notifySt[f] = "idle" /\ notifySt' = [notifySt EXCEPT ![f] = "live"]
          /\ notified' = [notified EXCEPT ![f] = "WAITING"]
          /\ created' = [created EXCEPT ![f] = notifyGeneration]
          /\ UNCHANGED <<permit, notifyGeneration, notifyWaiters, parked, notifyDue, owed,
                        notifyTask, notifyWoken, notifyToWake>>
      BY Zenon, <2>1 DEF Notified, notifyWakers
    <3>2. Wk!WakersTypeOK' /\ \A h \in Listeners : Wk!WillBePolled(h)' <=> Wk!WillBePolled(h)
      BY Zenon, <3>1 DEF NotifyIInv, NotifyTypeOK, Wk!WakersTypeOK, Wk!WillBePolled
    <3>3. NotifyTypeOK'
      BY Zenon, <3>1, <3>2 DEF NotifyIInv, NotifyTypeOK, Marks
    <3>4. \A h \in Listeners : h # f =>
            /\ notified'[h] = notified[h] /\ notifySt'[h] = notifySt[h]
            /\ created'[h] = created[h] /\ (Satisfied(h)' <=> Satisfied(h))
      BY Zenon, <3>1 DEF NotifyIInv, NotifyTypeOK, Satisfied
    <3>5. /\ notifySt'[f] = "live" /\ notified'[f] = "WAITING"
          /\ created'[f] = notifyGeneration /\ ~parked[f] /\ ~notifyDue[f]
      BY Zenon, <3>1 DEF NotifyIInv, NotifyTypeOK, StagesOK
    <3>6. \A w \in Range(q) : w.future # f
      BY Zenon, <3>1, QueuedWait
    <3>7. NotifyQueueOK'
      BY Zenon, <3>1, <3>4, <3>6, <2>q, QueuedWait DEF NotifyIInv, NotifyQueueOK
    <3>8. StagesOK'
      BY <3>1, <3>4, <3>5 DEF NotifyIInv, NotifyTypeOK, StagesOK
    <3>9. SleepersOK'
      BY Zenon, <3>1, <3>2, <3>4, <3>5, <2>s DEF SleepersOK, Wk!WakerOf
    <3>10. NotifyOneIsKept'
      BY Zenon, <3>1, <3>4 DEF NotifyIInv, NotifyOneIsKept
    <3>11. QED
      BY Zenon, <3>3, <3>7, <3>8, <3>9, <3>10 DEF NotifyIInv
  <2>2. ASSUME NEW f \in Listeners, NEW t \in Pollers \cup {Noop}, notifySt[f] # "idle",
               Stay(f, t), UNCHANGED <<notifyGeneration, created, notifyDue, notifyToWake>>,
               \/ Wk!PolledFrom(f, t) /\ parked' = [parked EXCEPT ![f] = TRUE] /\ t \in Pollers
               \/ UNCHANGED <<notifyTask, notifyWoken, parked>> /\ t = Noop
        PROVE  NotifyIInv'
    <3>1. /\ r \in Seq(Entry) /\ OnePerFuture(r)
          /\ \A w \in Range(r) : w \in Range(q) \/ w.future = f
          /\ \A w \in Range(q) : w.future # f \/ t = Noop => w \in Range(r)
          /\ t # Noop => Wk!WakerOf(f, t) \in Range(r)
      BY Zenon, <2>2, <2>q, StayStep DEF NotifyIInv
    <3>2. /\ ~Satisfied(f) /\ ~permit
          /\ UNCHANGED <<permit, notified, notifySt, owed, notifyGeneration, created, notifyDue>>
      BY Zenon, <2>2 DEF Stay
    <3>3. notifySt[f] = "live"
      BY Zenon, <2>2, <3>2 DEF NotifyIInv, NotifyTypeOK, StagesOK, Satisfied
    <3>4. /\ notifyTask' \in [Listeners -> Pollers] /\ notifyWoken' \in [Listeners -> BOOLEAN]
          /\ parked' \in [Listeners -> BOOLEAN]
      <4>1. CASE Wk!PolledFrom(f, t) /\ parked' = [parked EXCEPT ![f] = TRUE] /\ t \in Pollers
        BY Zenon, <4>1 DEF NotifyIInv, NotifyTypeOK, Wk!PolledFrom, Wk!WakersTypeOK
      <4>2. CASE UNCHANGED <<notifyTask, notifyWoken, parked>>
        BY Zenon, <4>2 DEF NotifyIInv, NotifyTypeOK, Wk!WakersTypeOK
      <4>3. QED
        BY Zenon, <2>2, <4>1, <4>2
    <3>5. /\ \A h \in Listeners : Satisfied(h)' <=> Satisfied(h)
          /\ \A h \in Listeners : h # f =>
               /\ notifyTask'[h] = notifyTask[h] /\ notifyWoken'[h] = notifyWoken[h]
               /\ parked'[h] = parked[h]
      BY Zenon, <2>2, <3>2 DEF NotifyIInv, NotifyTypeOK, Wk!PolledFrom, Wk!WakersTypeOK, Satisfied
    <3>6. NotifyTypeOK'
      BY Zenon, <2>2, <3>1, <3>2, <3>4 DEF NotifyIInv, NotifyTypeOK, Entry, Wk!WakersTypeOK
    <3>7. NotifyQueueOK'
      BY Zenon, <3>1, <3>2, <3>3, <3>5, QueuedWait DEF NotifyQueueOK
    <3>8. StagesOK'
      BY Zenon, <3>2, <3>3, <3>5 DEF NotifyIInv, StagesOK
    <3>9. SleepersOK'
      <4> SUFFICES ASSUME NEW h \in Listeners, parked'[h]
                   PROVE  IF Satisfied(h) THEN Wk!WillBePolled(h)'
                          ELSE Wk!WakerOf(h, notifyTask'[h]) \in Range(r)
        BY Zenon, <3>5 DEF SleepersOK, Wk!WakerOf
      <4>1. CASE h # f
        <5>1. parked[h] /\ notifyTask'[h] = notifyTask[h]
          BY Zenon, <4>1, <3>5
        <5>2. Wk!WillBePolled(h) => Wk!WillBePolled(h)'
          BY Zenon, <4>1, <3>5, <2>2 DEF Wk!WillBePolled, Wk!WakerOf
        <5>3. QED
          BY <4>1, <5>1, <5>2, <3>1, <2>s
      <4>2. CASE h = f /\ t \in Pollers
        <5>1. notifyTask'[f] = t /\ t # Noop
          BY Zenon, <4>2, <2>2, NotifyAssumption DEF NotifyIInv, NotifyTypeOK, Wk!PolledFrom, Wk!WakersTypeOK
        <5>2. QED
          BY Zenon, <4>2, <5>1, <3>1, <3>2
      <4>3. CASE h = f /\ t = Noop
        <5>1. parked[f] /\ notifyTask'[f] = notifyTask[f]
          BY Zenon, <4>3, <2>2, NotifyAssumption
        <5>2. QED
          BY Zenon, <4>3, <5>1, <3>1, <3>2, <2>s
      <4>4. QED
        BY Zenon, <4>1, <4>2, <4>3
    <3>10. NotifyOneIsKept'
      BY Zenon, <3>2 DEF NotifyIInv, NotifyOneIsKept
    <3>11. QED
      BY Zenon, <3>6, <3>7, <3>8, <3>9, <3>10 DEF NotifyIInv
  <2>3. ASSUME NEW f \in Listeners, Enable(f) PROVE NotifyIInv'
    <3>1. CASE Consume(f) /\ parked' = [parked EXCEPT ![f] = FALSE]
      <4>1. UNCHANGED <<notifyGeneration, created, notifyDue, notifyTask, notifyWoken, notifyToWake>>
        BY Zenon, <2>3 DEF Enable, notifyWakers
      <4>2. /\ Wk!WakersTypeOK'
            /\ \A h \in Listeners \ {f} :
                 notifyTask'[h] = notifyTask[h] /\ (Wk!WillBePolled(h) => Wk!WillBePolled(h)')
        BY Zenon, <4>1 DEF NotifyIInv, NotifyTypeOK, Wk!WakersTypeOK, Wk!WillBePolled
      <4>3. notifySt[f] # "idle"
        BY Zenon, <2>3 DEF Enable
      <4>4. QED
        BY Zenon, <3>1, <4>1, <4>2, <4>3, ConsumeStep
    <3>2. CASE Stay(f, Noop) /\ UNCHANGED parked
      BY Zenon, <2>2, <2>3, <3>2 DEF Enable, notifyWakers
    <3>3. QED
      BY Zenon, <2>3, <3>1, <3>2 DEF Enable
  <2>4. ASSUME NEW f \in Listeners, NEW t \in Pollers, PollNotified(f, t) PROVE NotifyIInv'
    <3>1. CASE Consume(f) /\ parked' = [parked EXCEPT ![f] = FALSE]
      <4>1. /\ UNCHANGED <<notifyGeneration, created, notifyDue, notifyToWake>>
            /\ notifyTask' = [notifyTask EXCEPT ![f] = t]
            /\ notifyWoken' = [notifyWoken EXCEPT ![f] = FALSE] /\ notifySt[f] # "idle"
        BY Zenon, <2>4 DEF PollNotified, Wk!PolledFrom
      <4>2. /\ Wk!WakersTypeOK'
            /\ \A h \in Listeners \ {f} :
                 notifyTask'[h] = notifyTask[h] /\ notifyWoken'[h] = notifyWoken[h]
        BY Zenon, <4>1 DEF NotifyIInv, NotifyTypeOK, Wk!WakersTypeOK
      <4>3. \A h \in Listeners \ {f} :
              notifyTask'[h] = notifyTask[h] /\ (Wk!WillBePolled(h) => Wk!WillBePolled(h)')
        BY Zenon, <4>1, <4>2 DEF Wk!WillBePolled
      <4>4. QED
        BY Zenon, <3>1, <4>1, <4>2, <4>3, ConsumeStep
    <3>2. CASE Stay(f, t) /\ parked' = [parked EXCEPT ![f] = TRUE]
      BY Zenon, <2>2, <2>4, <3>2 DEF PollNotified
    <3>3. QED
      BY Zenon, <2>4, <3>1, <3>2 DEF PollNotified
  <2>5. ASSUME NEW f \in Listeners, NotifyWaiters(f) PROVE NotifyIInv'
    <3>1. /\ notifyGeneration' = notifyGeneration + 1 /\ r = <<>>
          /\ notified' = [k \in Listeners |-> IF InQueue(k) THEN "ALL" ELSE notified[k]]
          /\ notifyDue' = [k \in Listeners |-> notifyDue[k] \/ notifySt[k] = "live"]
          /\ UNCHANGED <<permit, created, notifySt, parked, owed>>
      BY Zenon, <2>5 DEF NotifyWaiters
    <3>2. Range(q) \subseteq Entry
      BY <2>q DEF Range
    <3>3. /\ Wk!WakersTypeOK'
          /\ \A h \in Listeners : Wk!WillBePolled(h) => Wk!WillBePolled(h)'
          /\ \A h \in Listeners :
               Wk!WakerOf(h, notifyTask[h]) \in Range(q) => Wk!WillBePolled(h)'
      BY Zenon, <2>5, <3>2, WakersTaken DEF NotifyWaiters, NotifyIInv, NotifyTypeOK
    <3>4. notifyDue' \in [Listeners -> BOOLEAN]
      BY <3>1, Zenon
    <3>5. NotifyTypeOK'
      <4>1. notified' \in [Listeners -> Marks]
        BY Zenon, <3>1 DEF NotifyIInv, NotifyTypeOK, Marks
      <4>2. r \in Seq(Entry)
        BY <3>1
      <4>3. QED
        BY <3>1, <3>3, <3>4, <4>1, <4>2 DEF NotifyIInv, NotifyTypeOK, Entry
    <3>6. \A h \in Listeners : Satisfied(h)' /\ (notified[h] # "WAITING" => notified'[h] = notified[h])
      <4>1. \A h \in Listeners : created'[h] # notifyGeneration'
        BY <3>1 DEF NotifyIInv, NotifyTypeOK, StagesOK
      <4>2. QED
        BY <3>1, <4>1, QueuedWait DEF Satisfied
    <3>7. NotifyQueueOK'
      <4>1. DOMAIN r = {} /\ Range(r) = {}
        BY <3>1 DEF Range
      <4>2. QED
        BY Zenon, <3>1, <4>1 DEF NotifyQueueOK, OnePerFuture
    <3>8. StagesOK'
      <4> SUFFICES ASSUME NEW h \in Listeners
                   PROVE  /\ notifySt[h] = "ready" => notified'[h] = "CONSUMED"
                          /\ created[h] <= notifyGeneration' /\ (parked[h] => notifySt[h] = "live")
                          /\ notifyDue'[h] => notifySt[h] # "idle"
                          /\ notifyDue'[h] /\ notifySt[h] = "live" => created[h] < notifyGeneration'
        BY Zenon, <3>1 DEF StagesOK
      <4>1. notifyDue'[h] => notifyDue[h] \/ notifySt[h] = "live"
        BY Zenon, <3>1
      <4>2. created[h] \in Nat /\ notifyGeneration \in Nat /\ created[h] <= notifyGeneration
        BY Zenon DEF NotifyIInv, NotifyTypeOK, StagesOK
      <4>3. QED
        BY <3>1, <3>6, <4>1, <4>2 DEF NotifyIInv, StagesOK
    <3>9. SleepersOK'
      BY Zenon, <3>1, <3>3, <3>6, <2>s DEF SleepersOK
    <3>10. NotifyOneIsKept'
      BY Zenon, <3>1, <3>6 DEF NotifyIInv, NotifyOneIsKept
    <3>11. QED
      BY Zenon, <3>5, <3>7, <3>8, <3>9, <3>10 DEF NotifyIInv
  <2>6. ASSUME NEW f \in Listeners, FireNotify(f) PROVE NotifyIInv'
    <3>0. /\ Wk!FireWake(f)
          /\ UNCHANGED <<permit, notifyGeneration, notifyWaiters, notified, created, notifySt,
                        parked, notifyDue, owed>>
      BY Zenon, <2>6 DEF FireNotify, notifyState
    <3>1. UNCHANGED <<permit, notifyGeneration, notifyWaiters, notified, created, notifySt,
                      parked, notifyDue, owed, notifyTask>>
      BY Zenon, <3>0 DEF Wk!FireWake
    <3>2. Wk!WakersTypeOK' /\ \A h \in Listeners : Wk!WillBePolled(h) => Wk!WillBePolled(h)'
      BY Zenon, <3>0, WakersFired DEF NotifyIInv, NotifyTypeOK
    <3>3. NotifyTypeOK'
      BY Zenon, <3>1, <3>2 DEF NotifyIInv, NotifyTypeOK
    <3>4. NotifyQueueOK' /\ StagesOK' /\ NotifyOneIsKept'
      BY Zenon, <3>1 DEF NotifyIInv, NotifyQueueOK, StagesOK, NotifyOneIsKept, Satisfied
    <3>5. SleepersOK'
      BY Zenon, <3>1, <3>2, <2>s DEF SleepersOK, Satisfied, Wk!WakerOf
    <3>6. QED
      BY Zenon, <3>3, <3>4, <3>5 DEF NotifyIInv
  <2>7. ASSUME NEW f \in Listeners, NEW last \in BOOLEAN, NotifyOne(f, last) PROVE NotifyIInv'
    <3>1. /\ NotifyLocked(f, last, q) /\ Wk!Running(f) /\ owed' \in BOOLEAN
          /\ UNCHANGED <<notifyGeneration, created, notifySt, parked, notifyDue, notifyTask, notifyWoken>>
      BY Zenon, <2>7 DEF NotifyOne
    <3>0. PICK D \in SUBSET Listeners : D = {}
      BY Zenon
    <3>2. /\ notifySt' = [h \in Listeners |-> IF h \in D THEN "idle" ELSE notifySt[h]]
          /\ parked' = [h \in Listeners |-> IF h \in D THEN FALSE ELSE parked[h]]
          /\ created' = [h \in Listeners |-> IF h \in D THEN 0 ELSE created[h]]
          /\ notifyDue' = [h \in Listeners |-> IF h \in D THEN FALSE ELSE notifyDue[h]]
      BY Zenon, <3>0, <3>1 DEF NotifyIInv, NotifyTypeOK
    <3>3. Range(q) = {w \in Range(q) : w.future \notin D}
      BY Zenon, <3>0
    <3>4. NotifyIInv /\ UNCHANGED <<notifyTask, notifyWoken, notifyGeneration>>
      BY Zenon, <3>1
    <3> HIDE <3>0
    <3>5. QED
      BY Zenon, <2>q, <3>1, <3>2, <3>3, <3>4, LockedKeeps
  <2>8. ASSUME NEW f \in Listeners, CancelNotified(f) PROVE NotifyIInv'
    <3> DEFINE q0 == WithoutWaiter(f, q)
    <3>1. /\ q0 \in Seq(Entry) /\ OnePerFuture(q0)
          /\ Range(q0) = {w \in Range(q) : w.future # f} /\ (q = <<>> => q0 = <<>>)
      <4>1. q = <<>> => q0 = q
        BY DEF WithoutWaiter
      <4> HIDE DEF q
      <4>2. QED
        BY <4>1, <2>q, OneLeaves
    <3>2. Range(q0) = {w \in Range(q) : w.future \notin {f}}
      BY Zenon, <3>1
    <3>3. /\ Wk!Running(f) /\ UNCHANGED <<notifyGeneration, owed, notifyTask, notifyWoken>>
          /\ \/ notified[f] = "ONE" /\ NotifyLocked(f, FALSE, q0)
             \/ notified[f] # "ONE" /\ r = q0 /\ UNCHANGED <<permit, notified, notifyToWake>>
      BY Zenon, <2>8 DEF CancelNotified
    <3>4. /\ notifySt' = [h \in Listeners |-> IF h \in {f} THEN "idle" ELSE notifySt[h]]
          /\ parked' = [h \in Listeners |-> IF h \in {f} THEN FALSE ELSE parked[h]]
          /\ created' = [h \in Listeners |-> IF h \in {f} THEN 0 ELSE created[h]]
          /\ notifyDue' = [h \in Listeners |-> IF h \in {f} THEN FALSE ELSE notifyDue[h]]
      BY Zenon, <2>8 DEF CancelNotified, NotifyIInv, NotifyTypeOK
    <3>5. owed' \in BOOLEAN
      BY Zenon, <3>3 DEF NotifyIInv, NotifyTypeOK
    <3> HIDE DEF q0
    <3>6. CASE notified[f] = "ONE"
      BY Zenon, <3>1, <3>2, <3>3, <3>4, <3>5, <3>6, LockedKeeps
    <3>7. CASE notified[f] # "ONE"
      <4>1. r = q0 /\ UNCHANGED <<permit, notified, notifyToWake>>
        BY Zenon, <3>3, <3>7
      <4>0. PICK G \in SUBSET Listeners : G = {}
        BY Zenon
      <4>2. notified' = [h \in Listeners |-> IF h \in G THEN "ONE" ELSE notified[h]]
        BY Zenon, <4>0, <4>1 DEF NotifyIInv, NotifyTypeOK
      <4>3. Range(r) = {w \in Range(q) : w.future \notin G \cup {f}}
        BY Zenon, <4>0, <4>1, <3>2
      <4>4. Wk!WakersTypeOK' /\ \A h \in Listeners : Wk!WillBePolled(h) => Wk!WillBePolled(h)'
        BY Zenon, <4>1, <3>3 DEF NotifyIInv, NotifyTypeOK, Wk!WakersTypeOK, Wk!WillBePolled
      <4>5. permit' \in BOOLEAN /\ (permit' => r = <<>>)
        BY Zenon, <4>1, <3>1 DEF NotifyIInv, NotifyTypeOK, NotifyQueueOK
      <4>6. owed' => \/ permit' \/ G # {}
                     \/ \E k \in Listeners \ {f} : notifySt[k] = "live" /\ notified[k] = "ONE"
        BY Zenon, <4>1, <3>3, <3>7 DEF NotifyIInv, NotifyOneIsKept
      <4>7. /\ UNCHANGED <<notifyTask, notifyGeneration>> /\ {f} \in SUBSET Listeners
            /\ r \in Seq(Entry) /\ OnePerFuture(r)
            /\ \A h \in G : /\ h \notin {f} /\ notifySt[h] = "live"
                            /\ parked[h] => Wk!WillBePolled(h)'
        BY Zenon, <4>0, <4>1, <3>1, <3>3
      <4> HIDE <4>0
      <4>8. QED
        BY Zenon, <3>4, <3>5, <4>2, <4>3, <4>4, <4>5, <4>6, <4>7, HandedOn
    <3>8. QED
      BY Zenon, <3>6, <3>7
  <2>9. CASE UNCHANGED notifyVars
    <3>1. UNCHANGED <<permit, notifyGeneration, notifyWaiters, notified, created, notifySt,
                      parked, notifyDue, owed, notifyTask, notifyWoken, notifyToWake>>
      BY Zenon, <2>9 DEF notifyVars, notifyState, notifyWakers
    <3>2. NotifyTypeOK'
      BY Zenon, <3>1 DEF NotifyIInv, NotifyTypeOK, Wk!WakersTypeOK
    <3>3. NotifyQueueOK' /\ StagesOK' /\ SleepersOK' /\ NotifyOneIsKept'
      BY Zenon, <3>1 DEF NotifyIInv, NotifyQueueOK, StagesOK, SleepersOK, NotifyOneIsKept, Satisfied,
                  Wk!WillBePolled
    <3>4. QED
      BY Zenon, <3>2, <3>3 DEF NotifyIInv
  <2>10. QED
    BY Zenon, <2>1, <2>3, <2>4, <2>5, <2>6, <2>7, <2>8, <2>9 DEF NotifyNext
<1>3. NotifyIInv => NoLostNotification
  <2> SUFFICES ASSUME NotifyIInv PROVE NoLostNotification
    BY Zenon
  <2>1. NotifyWaitersReachesAll
    BY DEF NotifyIInv, NotifyTypeOK, StagesOK, NotifyWaitersReachesAll, Satisfied
  <2>2. NotifiedAreWoken
    <3>1. permit => Range(notifyWaiters) = {}
      BY DEF NotifyIInv, NotifyQueueOK, Range
    <3>2. QED
      BY Zenon, <3>1 DEF NotifyIInv, NotifyQueueOK, SleepersOK, NotifiedAreWoken
  <2>3. QED
    BY Zenon, <2>1, <2>2 DEF NotifyIInv, NoLostNotification
<1>4. QED
  BY <1>1, <1>2, <1>3, PTL DEF NotifySpec
=============================================================================
