-------------------------- MODULE SemaphoreProofs --------------------------
(***************************************************************************)
(* Proofs about Semaphore: for any number of futures, any amounts and any  *)
(* limit, no wake-up is lost between the callers that return, cancel and   *)
(* consume permits, close leaves nobody asleep, waiters are served in      *)
(* order, and no permit is created or lost.                                *)
(***************************************************************************)
EXTENDS Semaphore, WaiterQueueProofs, WellFoundedInduction

\* next_waker returns the front waiter whenever the permits are enough for it.
LEMMA NextWakerFront ==
  ASSUME NEW q \in Seq(Waker), NEW p
  PROVE  /\ NextWaker(q, p) \in SUBSET Waker
         /\ 1 \in DOMAIN q /\ p >= want[q[1].future] => q[1] \in NextWaker(q, p)
<1>1. q # <<>> => Head(q) = q[1] /\ Head(q) \in Waker
  OBVIOUS
<1>2. 1 \in DOMAIN q => q # <<>>
  OBVIOUS
<1> QED BY <1>1, <1>2 DEF NextWaker

\* A step of f keeps NoLostWakeup if it takes out the front waiter's waker
\* whenever that waiter has just become satisfiable.
LEMMA FrontIsWoken ==
  ASSUME WakersTypeOK, NoLostWakeup, QueueInv', NEW f \in Futures, Running(f),
         NEW ws, toWake' = [toWake EXCEPT ![f] = ws],
         \A h \in Futures :
           At(1, h)' /\ permits' >= want'[h] =>
             \/ waiters'[1] \in ws
             \/ /\ At(1, h) /\ permits >= want[h]
                /\ woken'[h] = woken[h] /\ task'[h] = task[h]
  PROVE  NoLostWakeup'
<1> SUFFICES ASSUME NEW h \in Futures, At(1, h)', permits' >= want'[h]
             PROVE  WillBePolled(h)'
  BY DEF NoLostWakeup
<1>1. CASE waiters'[1] \in ws
  <2>1. waiters'[1] \in toWake'[f]
    BY <1>1 DEF WakersTypeOK
  <2> QED BY <2>1, FrontWillBePolled
<1>2. CASE /\ At(1, h) /\ permits >= want[h]
           /\ woken'[h] = woken[h] /\ task'[h] = task[h]
  <2>1. WillBePolled(h)
    BY <1>2 DEF NoLostWakeup
  <2> QED BY ZenonT(60), <1>2, <2>1, WakeSurvives
<1> QED BY <1>1, <1>2

\* A closed semaphore stays so, and a step of f keeps the others' wake-ups.
LEMMA StaysClosed ==
  ASSUME WakersTypeOK, CloseReleasesWaiters, NEW f \in Futures, Running(f),
         NEW ws, toWake' = [toWake EXCEPT ![f] = ws],
         UNCHANGED closed, closed => UNCHANGED waiters,
         closed => \A h \in Futures : st'[h] = "waiting" =>
                     st[h] = "waiting" /\ woken'[h] = woken[h] /\ task'[h] = task[h]
  PROVE  CloseReleasesWaiters'
<1> SUFFICES ASSUME closed, NEW h \in Futures, st'[h] = "waiting"
             PROVE  WillBePolled(h)'
  BY DEF CloseReleasesWaiters
<1>1. WillBePolled(h)
  BY DEF CloseReleasesWaiters
<1> QED BY ZenonT(60), <1>1, WakeSurvives

\* Initially all permits are available and nobody waits.
LEMMA InitIInv == Init => IInv
<1> SUFFICES ASSUME Init PROVE IInv
  OBVIOUS
<1>1. QueueInv
  BY QueueInitInv DEF Init
<1>2. TypeOK
  <2>1. permits \in 0 .. MaxPermits /\ supply \in Int
    BY SemaphoreAssumption DEF Init
  <2>2. want \in [Futures -> Nat] /\ held \in [Futures -> Nat] /\ closed \in BOOLEAN
    BY ZenonT(60) DEF Init
  <2> QED BY <1>1, <2>1, <2>2 DEF TypeOK, QueueInv
<1>3. NoLostWakeup /\ CloseReleasesWaiters
  BY DEF Init, QueueInit, NoLostWakeup, CloseReleasesWaiters, At
<1>4. AllQueued
  BY DEF Init, QueueInit, AllQueued
<1> QED BY <1>1, <1>2, <1>3, <1>4 DEF WakeInv, IInv

\* A step that leaves the queue alone and moves one future x between statuses
\* other than "waiting", for all the operations on permits.
LEMMA AsideStep ==
  ASSUME WakeInv, NEW f \in Futures, NEW x \in Futures, NEW s \in Status,
         Running(f), NEW ws \in SUBSET Waker, toWake' = [toWake EXCEPT ![f] = ws],
         UNCHANGED <<waiters, closed, task, woken>>,
         UNCHANGED st \/ (st[x] # "waiting" /\ s # "waiting" /\ Becomes(x, s)),
         \A h \in Futures : st[h] = "waiting" => want'[h] = want[h],
         permits' \in 0 .. MaxPermits,
         permits' <= permits \/ ws = NextWaker(waiters, permits')
  PROVE  QueueInv' /\ NoLostWakeup' /\ CloseReleasesWaiters'
<1>1. /\ QueueInv /\ QueueTypeOK /\ WakersTypeOK /\ permits \in 0 .. MaxPermits
      /\ NoLostWakeup /\ CloseReleasesWaiters /\ waiters \in Seq(Waker)
      /\ st \in [Futures -> Status] /\ want \in [Futures -> Nat]
  BY DEF WakeInv, TypeOK, QueueTypeOK
<1>2. WakersTypeOK'
  BY ZenonT(60), <1>1, WakerStep
<1>3. QueueInv'
  <2>1. CASE UNCHANGED st
    BY <1>1, <1>2, <2>1, QueueUnchanged
  <2>2. CASE st[x] # "waiting" /\ Becomes(x, s)
    <3>1. \A i \in DOMAIN waiters : ~At(i, x)
      BY <1>1, <2>2 DEF At, QueueInv, QueueMatchesFutures
    <3> QED BY <1>1, <1>2, <2>2, <3>1, OutsideQueue
  <2> QED BY <2>1, <2>2
<1>4. NoLostWakeup'
  <2>1. ASSUME NEW h \in Futures, At(1, h)', permits' >= want'[h]
        PROVE  \/ waiters'[1] \in ws
               \/ /\ At(1, h) /\ permits >= want[h]
                  /\ woken'[h] = woken[h] /\ task'[h] = task[h]
    <3>1. At(1, h) /\ 1 \in DOMAIN waiters /\ waiters[1].future = h
      BY <2>1 DEF At
    <3>2. want'[h] = want[h] /\ want[h] \in Nat
      BY <1>1, <3>1 DEF QueueInv, QueueMatchesFutures
    <3>3. CASE permits' <= permits
      <4>1. permits >= want[h]
        BY ONLY <1>1, <2>1, <3>2, <3>3, permits' \in 0 .. MaxPermits,
                SemaphoreAssumption
      <4> QED BY <3>1, <4>1
    <3>4. CASE ws = NextWaker(waiters, permits')
      BY <1>1, <2>1, <3>1, <3>2, <3>4, NextWakerFront
    <3> QED BY <3>3, <3>4
  <2> QED BY ZenonT(60), <1>1, <1>3, <2>1, FrontIsWoken
<1>5. CloseReleasesWaiters'
  <2>1. \A h \in Futures : st'[h] = "waiting" => st[h] = "waiting"
    BY <1>1 DEF Becomes
  <2> QED BY ZenonT(60), <1>1, <2>1, StaysClosed
<1> QED BY <1>3, <1>4, <1>5

\* The operations of a caller that does not wait: creating an acquisition,
\* try_acquire, and everything that is done with permits already at hand.
LEMMA AcquireManyStep ==
  ASSUME NEW f \in Futures, NEW n \in Amounts, WakeInv, AcquireMany(f, n)
  PROVE  WakeInv'
<1>1. /\ WakersTypeOK /\ st[f] = "idle" /\ Running(f) /\ "created" \in Status
      /\ UNCHANGED <<waiters, closed, task, woken, toWake, permits, held, supply>>
      /\ Becomes(f, "created") /\ want' = [want EXCEPT ![f] = n]
  BY DEF WakeInv, TypeOK, QueueTypeOK, AcquireMany, CreateFuture, wakerVars, Status
<1>2. toWake' = [toWake EXCEPT ![f] = {}]
  BY <1>1, NoWakers
<1>3. want \in [Futures -> Nat] /\ permits \in 0 .. MaxPermits /\ n \in Nat
  BY SemaphoreAssumption DEF WakeInv, TypeOK
<1>4. \A h \in Futures : st[h] = "waiting" => want'[h] = want[h]
  BY <1>1, <1>3
<1>5. permits' \in 0 .. MaxPermits /\ permits' <= permits
  BY <1>1, <1>3, SemaphoreAssumption
<1>6. QueueInv' /\ NoLostWakeup' /\ CloseReleasesWaiters'
  BY ZenonT(60), <1>1, <1>2, <1>4, <1>5, AsideStep
<1> QED BY <1>1, <1>3, <1>6 DEF WakeInv, TypeOK, QueueInv

\* try_acquire and its variants take permits only past an empty queue.
LEMMA TryTakeStep ==
  ASSUME NEW f \in Futures, NEW n \in Amounts, WakeInv, TryTake(f, n)
  PROVE  WakeInv'
<1>1. /\ WakersTypeOK /\ st[f] = "idle" /\ Running(f) /\ "holding" \in Status
      /\ UNCHANGED <<waiters, closed, task, woken, toWake, want, supply>>
      /\ Becomes(f, "holding") /\ permits >= n /\ permits' = permits - n
      /\ held' = [held EXCEPT ![f] = n]
  BY DEF WakeInv, TypeOK, QueueTypeOK, TryTake, wakerVars, Status, Holds
<1>2. toWake' = [toWake EXCEPT ![f] = {}]
  BY <1>1, NoWakers
<1>3. permits \in 0 .. MaxPermits /\ n \in Nat /\ MaxPermits \in Nat
  BY SemaphoreAssumption DEF WakeInv, TypeOK
<1>4. permits' \in 0 .. MaxPermits /\ permits' <= permits
  BY <1>1, <1>3
<1>5. QueueInv' /\ NoLostWakeup' /\ CloseReleasesWaiters'
  BY ZenonT(60), <1>1, <1>2, <1>4, AsideStep
<1> QED BY SMTT(30), <1>1, <1>3, <1>4, <1>5 DEF WakeInv, TypeOK, QueueInv

\* add_permits within the limit, whoever calls it; x is the future whose permit
\* is used up by the call, if any.
LEMMA AddLockedStep ==
  ASSUME NEW f \in Futures, NEW n \in Nat, NEW x \in Futures, WakeInv, Running(f),
         AddLocked(f, n), UNCHANGED <<closed, want, waiters, task, woken>>,
         UNCHANGED st \/ (st[x] # "waiting" /\ Becomes(x, "idle"))
  PROVE  /\ permits' \in 0 .. MaxPermits
         /\ QueueInv' /\ NoLostWakeup' /\ CloseReleasesWaiters'
<1>1. /\ waiters \in Seq(Waker) /\ permits \in 0 .. MaxPermits /\ MaxPermits \in Nat
      /\ "idle" \in Status /\ permits + n <= MaxPermits /\ permits' = permits + n
      /\ toWake' = [toWake EXCEPT ![f] = NextWaker(waiters, permits')]
  BY SemaphoreAssumption
  DEF WakeInv, TypeOK, QueueTypeOK, Status, AddLocked, TakeWakers
<1>2. permits' \in 0 .. MaxPermits
  BY <1>1
<1>3. NextWaker(waiters, permits') \in SUBSET Waker
  BY <1>1, NextWakerFront
<1> QED BY ZenonT(60), <1>1, <1>2, <1>3, AsideStep

\* Giving permits back, including the panic above the limit.
LEMMA GiveBackStep ==
  ASSUME NEW f \in Futures, NEW n \in Nat, NEW x \in Futures, WakeInv, Running(f),
         GiveBack(f, n), UNCHANGED <<closed, want, waiters, task, woken>>,
         UNCHANGED st \/ (st[x] # "waiting" /\ Becomes(x, "idle"))
  PROVE  /\ permits' \in 0 .. MaxPermits /\ supply' \in Int
         /\ QueueInv' /\ NoLostWakeup' /\ CloseReleasesWaiters'
<1>1. /\ permits \in 0 .. MaxPermits /\ MaxPermits \in Nat /\ "idle" \in Status
      /\ supply \in Int /\ WakersTypeOK
  BY SemaphoreAssumption DEF WakeInv, TypeOK, QueueTypeOK, Status
<1>2. CASE AddLocked(f, n) /\ UNCHANGED supply
  BY <1>1, <1>2, AddLockedStep
<1>3. CASE UNCHANGED <<permits, toWake>> /\ supply' = supply - n
  <2>1. toWake' = [toWake EXCEPT ![f] = {}]
    BY <1>1, <1>3, NoWakers
  <2>2. permits' \in 0 .. MaxPermits /\ permits' <= permits /\ supply' \in Int
    BY <1>1, <1>3
  <2> QED BY ZenonT(60), <1>1, <2>1, <2>2, AsideStep
<1> QED BY <1>2, <1>3 DEF GiveBack

\* add_permits, which wakes the front waiter if it can be satisfied now.
LEMMA AddPermitsStep ==
  ASSUME NEW f \in Futures, NEW n \in Amounts, WakeInv, AddPermits(f, n)
  PROVE  WakeInv'
<1>1. n \in Nat /\ supply' = supply + n
  BY SemaphoreAssumption DEF AddPermits
<1>2. QueueInv' /\ NoLostWakeup' /\ CloseReleasesWaiters' /\ permits' \in 0 .. MaxPermits
  BY <1>1, AddLockedStep DEF AddPermits
<1> QED BY <1>1, <1>2 DEF AddPermits, WakeInv, TypeOK, QueueInv

\* A dropped permit, or a part of one, goes back to the semaphore.
LEMMA DropStep ==
  ASSUME NEW f \in Futures, WakeInv,
         DropPermit(f) \/ \E n \in Amounts : SplitAndDrop(f, n)
  PROVE  WakeInv'
<1>1. held \in [Futures -> Nat] /\ Amounts \subseteq Nat
  BY SemaphoreAssumption DEF WakeInv, TypeOK
<1>2. CASE DropPermit(f)
  <2>1. /\ permits' \in 0 .. MaxPermits /\ supply' \in Int
        /\ QueueInv' /\ NoLostWakeup' /\ CloseReleasesWaiters'
    BY <1>1, <1>2, GiveBackStep DEF DropPermit
  <2> QED BY <1>1, <1>2, <2>1 DEF DropPermit, WakeInv, TypeOK, QueueInv, Holds
<1>3. ASSUME NEW n \in Amounts, SplitAndDrop(f, n)
      PROVE  WakeInv'
  <2>1. /\ permits' \in 0 .. MaxPermits /\ supply' \in Int
        /\ QueueInv' /\ NoLostWakeup' /\ CloseReleasesWaiters'
    BY <1>1, <1>3, GiveBackStep DEF SplitAndDrop
  <2>2. held' \in [Futures -> Nat]
    <3>1. held[f] - n \in Nat
      BY <1>1, <1>3 DEF SplitAndDrop
    <3> QED BY <1>1, <1>3, <3>1 DEF SplitAndDrop, Holds
  <2> QED BY <1>3, <2>1, <2>2 DEF SplitAndDrop, WakeInv, TypeOK, QueueInv
<1> QED BY <1>2, <1>3

\* merge moves permits between two handles and leaves the queue alone.
LEMMA MergeStep ==
  ASSUME NEW f \in Futures, NEW g \in Futures, WakeInv, Merge(f, g)
  PROVE  WakeInv'
<1>1. /\ permits' \in 0 .. MaxPermits
      /\ QueueInv' /\ NoLostWakeup' /\ CloseReleasesWaiters'
  BY AddLockedStep DEF Merge
<1> QED BY <1>1 DEF Merge, WakeInv, TypeOK, QueueInv

\* forget_permits and forget only take permits away.
LEMMA ForgetStep ==
  ASSUME NEW f \in Futures, WakeInv,
         Forget(f) \/ \E n \in Amounts : ForgetPermits(f, n)
  PROVE  WakeInv'
<1>1. /\ permits \in 0 .. MaxPermits /\ MaxPermits \in Nat /\ "idle" \in Status
      /\ supply \in Int /\ WakersTypeOK /\ held \in [Futures -> Nat]
      /\ Amounts \subseteq Nat
  BY SemaphoreAssumption DEF WakeInv, TypeOK, QueueTypeOK, Status
<1>2. /\ Running(f) /\ UNCHANGED <<closed, want, waiters, task, woken, toWake>>
      /\ UNCHANGED st \/ (st[f] = "holding" /\ Becomes(f, "idle"))
  BY DEF Forget, ForgetPermits, wakerVars
<1>3. toWake' = [toWake EXCEPT ![f] = {}]
  BY <1>1, <1>2, NoWakers
<1>4. permits' \in 0 .. MaxPermits /\ permits' <= permits /\ supply' \in Int
  BY <1>1 DEF Forget, ForgetPermits
<1>5. held' \in [Futures -> Nat]
  BY <1>1 DEF Forget, ForgetPermits, Holds
<1>6. QueueInv' /\ NoLostWakeup' /\ CloseReleasesWaiters'
  BY ZenonT(60), <1>1, <1>2, <1>3, <1>4, AsideStep
<1> QED BY <1>2, <1>4, <1>5, <1>6 DEF WakeInv, TypeOK, QueueInv

\* poll_acquire: the outcomes for a queued future.
LEMMA PollQueuedStep ==
  ASSUME NEW f \in Futures, NEW t \in Tasks, WakeInv, Running(f), PollQueued(f, t),
         PolledFrom(f, t), UNCHANGED <<closed, want, supply>>
  PROVE  WakeInv'
<1>1. /\ QueueInv /\ QueueTypeOK /\ WakersTypeOK /\ permits \in 0 .. MaxPermits
      /\ NoLostWakeup /\ CloseReleasesWaiters /\ waiters \in Seq(Waker)
      /\ st \in [Futures -> Status] /\ want \in [Futures -> Nat] /\ MaxPermits \in Nat
      /\ held \in [Futures -> Nat] /\ closed \in BOOLEAN /\ supply \in Int
      /\ "holding" \in Status
  BY SemaphoreAssumption DEF WakeInv, TypeOK, QueueTypeOK, Status
<1>2. task' = [task EXCEPT ![f] = t]
  BY DEF PolledFrom
<1>3. PICK i \in DOMAIN waiters :
        /\ ~closed /\ At(i, f)
        /\ \/ /\ i = 1 /\ permits >= want[f] /\ permits' = permits - want[f]
              /\ held' = [held EXCEPT ![f] = want[f]]
              /\ LeaveQueue(i, f, "holding")
              /\ toWake' = [toWake EXCEPT ![f] = NextWaker(waiters', permits')]
           \/ /\ i # 1 \/ permits < want[f]
              /\ StayQueued(i, f, t)
              /\ UNCHANGED <<permits, held, toWake>>
  BY DEF PollQueued, Holds, TakeWakers
<1>4. CloseReleasesWaiters'
  BY <1>3 DEF CloseReleasesWaiters
<1>5. CASE /\ i = 1 /\ permits >= want[f] /\ permits' = permits - want[f]
           /\ held' = [held EXCEPT ![f] = want[f]]
           /\ LeaveQueue(i, f, "holding")
           /\ toWake' = [toWake EXCEPT ![f] = NextWaker(waiters', permits')]
  <2>1. waiters' \in Seq(Waker)
    BY <1>1, <1>5, RemoveAtProperties DEF LeaveQueue
  <2>2. NextWaker(waiters', permits') \in SUBSET Waker
    BY <2>1, NextWakerFront
  <2>3. WakersTypeOK' /\ \A g \in Futures \ {f} : task'[g] = task[g]
    BY ZenonT(60), <1>1, <1>5, <2>2, WakerStep
  <2>4. QueueInv'
    BY SMTT(30), <1>1, <1>3, <1>5, <2>3, Leaving
  <2>5. permits' \in 0 .. MaxPermits /\ held' \in [Futures -> Nat]
    BY <1>1, <1>5
  <2>6. NoLostWakeup'
    <3>1. ASSUME NEW h \in Futures, At(1, h)', permits' >= want'[h]
          PROVE  waiters'[1] \in NextWaker(waiters', permits')
      BY <2>1, <3>1, NextWakerFront DEF At
    <3> QED BY ZenonT(60), <1>1, <1>5, <2>4, <3>1, FrontIsWoken
  <2> QED BY <1>1, <1>4, <2>4, <2>5, <2>6 DEF WakeInv, TypeOK, QueueInv
<1>6. CASE /\ i # 1 \/ permits < want[f]
           /\ StayQueued(i, f, t)
           /\ UNCHANGED <<permits, held, toWake>>
  <2>1. toWake' = [toWake EXCEPT ![f] = {}]
    BY <1>1, <1>6, NoWakers
  <2>2. /\ WakersTypeOK'
        /\ \A h \in Futures \ {f} : task'[h] = task[h] /\ woken'[h] = woken[h]
    <3>1. {} \in SUBSET Waker
      OBVIOUS
    <3> QED BY ZenonT(60), <1>1, <2>1, <3>1, WakerStep
  <2>3. /\ QueueInv'
        /\ \A h \in Futures : At(1, h)' => At(1, h) /\ (i # 1 => h # f)
    BY ZenonT(60), <1>1, <1>2, <1>3, <1>6, <2>2, Staying
  <2>4. ASSUME NEW h \in Futures, At(1, h)', permits' >= want'[h]
        PROVE  /\ At(1, h) /\ permits >= want[h]
               /\ woken'[h] = woken[h] /\ task'[h] = task[h]
    <3>1. At(1, h) /\ permits >= want[h]
      BY <1>6, <2>3, <2>4
    <3>2. h # f
      <4>1. CASE i # 1
        BY <2>3, <2>4, <4>1
      <4>2. CASE permits < want[f]
        <5>1. permits \in Nat /\ want[f] \in Nat
          BY <1>1
        <5> QED BY <3>1, <4>2, <5>1
      <4> QED BY <1>6, <4>1, <4>2
    <3> QED BY SMTT(30), <2>2, <3>1, <3>2
  <2>5. NoLostWakeup'
    BY ZenonT(60), <1>1, <2>1, <2>3, <2>4, FrontIsWoken
  <2> QED BY <1>1, <1>4, <1>6, <2>3, <2>5 DEF WakeInv, TypeOK, QueueInv
<1> QED BY <1>3, <1>5, <1>6

\* poll_acquire: the outcomes for a future that is not queued.
LEMMA PollUnqueuedStep ==
  ASSUME NEW f \in Futures, NEW t \in Tasks, WakeInv, Running(f),
         PollUnqueued(f, t) \/ PollClosed(f),
         PolledFrom(f, t), UNCHANGED <<closed, want, supply>>
  PROVE  WakeInv'
<1>1. /\ QueueInv /\ QueueTypeOK /\ WakersTypeOK /\ permits \in 0 .. MaxPermits
      /\ NoLostWakeup /\ CloseReleasesWaiters /\ waiters \in Seq(Waker)
      /\ st \in [Futures -> Status] /\ want \in [Futures -> Nat] /\ MaxPermits \in Nat
      /\ held \in [Futures -> Nat] /\ closed \in BOOLEAN /\ supply \in Int
      /\ "holding" \in Status /\ "idle" \in Status
  BY SemaphoreAssumption DEF WakeInv, TypeOK, QueueTypeOK, Status
<1>2. task' = [task EXCEPT ![f] = t] /\ UNCHANGED toWake
  BY DEF PolledFrom, PollUnqueued, PollClosed
<1>3. toWake' = [toWake EXCEPT ![f] = {}]
  BY <1>1, <1>2, NoWakers
<1>4. /\ WakersTypeOK'
      /\ \A h \in Futures \ {f} : task'[h] = task[h] /\ woken'[h] = woken[h]
  <2>1. {} \in SUBSET Waker
    OBVIOUS
  <2> QED BY ZenonT(60), <1>1, <1>3, <2>1, WakerStep
<1>5. \A i \in DOMAIN waiters : ~At(i, f)
  <2>1. CASE PollUnqueued(f, t)
    BY <2>1 DEF PollUnqueued, Unqueued
  <2>2. CASE PollClosed(f)
    BY <1>1, <2>2 DEF PollClosed, CloseReleasesWaiters, At
  <2> QED BY <2>1, <2>2
<1>6. CASE PollClosed(f)
  <2>1. QueueInv'
    BY <1>1, <1>4, <1>5, <1>6, OutsideQueue DEF PollClosed
  <2>2. waiters' = <<>>
    BY <1>1, <1>6 DEF PollClosed, CloseReleasesWaiters
  <2>3. NoLostWakeup'
    BY <2>2 DEF NoLostWakeup, At
  <2>4. \A h \in Futures : st'[h] = "waiting" => st[h] = "waiting" /\ h # f
    BY <1>1, <1>6 DEF PollClosed, Becomes
  <2>5. CloseReleasesWaiters'
    BY ZenonT(60), <1>1, <1>3, <1>4, <1>6, <2>4, StaysClosed DEF PollClosed
  <2> QED BY <1>1, <1>6, <2>1, <2>3, <2>5 DEF PollClosed, WakeInv, TypeOK, QueueInv
<1>7. CASE /\ ~closed /\ waiters = <<>> /\ permits >= want[f]
           /\ permits' = permits - want[f] /\ held' = [held EXCEPT ![f] = want[f]]
           /\ Becomes(f, "holding") /\ UNCHANGED waiters
  <2>1. QueueInv'
    BY <1>1, <1>4, <1>5, <1>7, OutsideQueue
  <2>2. NoLostWakeup' /\ CloseReleasesWaiters'
    BY <1>7 DEF NoLostWakeup, At, CloseReleasesWaiters
  <2>3. permits' \in 0 .. MaxPermits /\ held' \in [Futures -> Nat]
    BY <1>1, <1>7
  <2> QED BY <1>1, <2>1, <2>2, <2>3 DEF WakeInv, TypeOK, QueueInv
<1>8. CASE /\ ~closed
           /\ waiters # <<>> \/ permits < want[f]
           /\ JoinQueue(f, t) /\ UNCHANGED <<permits, held>>
  <2>1. /\ QueueInv'
        /\ \A h \in Futures : At(1, h)' /\ waiters # <<>> => At(1, h) /\ h # f
    BY ZenonT(60), <1>1, <1>2, <1>4, <1>5, <1>8, Joining
  <2>2. ASSUME NEW h \in Futures, At(1, h)', permits' >= want'[h]
        PROVE  /\ At(1, h) /\ permits >= want[h]
               /\ woken'[h] = woken[h] /\ task'[h] = task[h]
    <3>1. CASE waiters # <<>>
      BY <1>4, <1>8, <2>1, <2>2, <3>1
    <3>2. CASE waiters = <<>> /\ permits < want[f]
      <4>1. h = f
        <5>1. waiters' = Append(<<>>, WakerOf(f, t))
          BY <1>8, <3>2 DEF JoinQueue
        <5>2. waiters'[1] = WakerOf(f, t)
          BY <5>1
        <5> QED BY <2>2, <5>2 DEF At, WakerOf
      <4>2. permits \in Nat /\ want[f] \in Nat /\ permits >= want[f]
        BY <1>1, <1>8, <2>2, <4>1
      <4> QED BY <3>2, <4>2
    <3> QED BY SMTT(30), <1>8, <3>1, <3>2
  <2>3. NoLostWakeup'
    BY ZenonT(60), <1>1, <1>3, <2>1, <2>2, FrontIsWoken
  <2>4. CloseReleasesWaiters'
    BY <1>8 DEF CloseReleasesWaiters
  <2> QED BY <1>1, <1>8, <2>1, <2>3, <2>4 DEF WakeInv, TypeOK, QueueInv
<1> QED BY SMTT(30), <1>6, <1>7, <1>8 DEF PollUnqueued, Holds

\* cancel_waiter: whoever is at the front afterwards is woken if the permits
\* are enough for it.
LEMMA CancelStep ==
  ASSUME NEW f \in Futures, WakeInv, Cancel(f)
  PROVE  WakeInv'
<1>1. /\ QueueInv /\ QueueTypeOK /\ WakersTypeOK /\ permits \in 0 .. MaxPermits
      /\ NoLostWakeup /\ CloseReleasesWaiters /\ waiters \in Seq(Waker)
      /\ st \in [Futures -> Status] /\ "idle" \in Status /\ Running(f)
      /\ UNCHANGED <<permits, closed, want, held, supply, task, woken>>
  BY DEF WakeInv, TypeOK, QueueTypeOK, Status, Cancel
<1>2. CASE Unqueued(f) /\ Becomes(f, "idle") /\ UNCHANGED waiters
  <2>1. PICK ws \in SUBSET Waker : toWake' = [toWake EXCEPT ![f] = ws]
    <3>1. CASE UNCHANGED toWake
      <4>1. {} \in SUBSET Waker /\ toWake' = [toWake EXCEPT ![f] = {}]
        BY <1>1, <3>1, NoWakers
      <4> QED BY ZenonT(60), <4>1
    <3>2. CASE TakeWakers(f, NextWaker(waiters, permits))
      BY ZenonT(60), <1>1, <3>2, NextWakerFront DEF TakeWakers
    <3>3. CASE \E i \in DOMAIN waiters : At(i, f)
      BY <1>2, <3>3 DEF Unqueued
    <3> QED BY <3>1, <3>2, <3>3 DEF Cancel
  <2>2. WakersTypeOK'
    BY ZenonT(60), <1>1, <2>1, WakerStep
  <2>3. QueueInv'
    BY <1>1, <1>2, <2>2, OutsideQueue DEF Unqueued
  <2>4. NoLostWakeup'
    BY ZenonT(60), <1>1, <1>2, <2>1, <2>3, FrontIsWoken DEF At
  <2>5. \A h \in Futures : st'[h] = "waiting" => st[h] = "waiting"
    BY <1>1, <1>2 DEF Becomes
  <2>6. CloseReleasesWaiters'
    BY ZenonT(60), <1>1, <1>2, <2>1, <2>5, StaysClosed
  <2> QED BY <1>1, <2>3, <2>4, <2>6 DEF WakeInv, TypeOK, QueueInv
<1>3. ASSUME NEW i \in DOMAIN waiters, At(i, f), LeaveQueue(i, f, "idle"),
             TakeWakers(f, NextWaker(waiters', permits))
      PROVE  WakeInv'
  <2>1. waiters' \in Seq(Waker)
    BY <1>1, <1>3, RemoveAtProperties DEF LeaveQueue
  <2>2. /\ NextWaker(waiters', permits) \in SUBSET Waker
        /\ toWake' = [toWake EXCEPT ![f] = NextWaker(waiters', permits)]
    BY <1>3, <2>1, NextWakerFront DEF TakeWakers
  <2>3. WakersTypeOK'
    BY ZenonT(60), <1>1, <2>2, WakerStep
  <2>4. QueueInv'
    BY <1>1, <1>3, <2>3, Leaving
  <2>5. NoLostWakeup'
    <3>1. ASSUME NEW h \in Futures, At(1, h)', permits' >= want'[h]
          PROVE  waiters'[1] \in NextWaker(waiters', permits)
      BY <1>1, <2>1, <3>1, NextWakerFront DEF At
    <3> QED BY ZenonT(60), <1>1, <2>2, <2>4, <3>1, FrontIsWoken
  <2>6. ~closed
    BY <1>1, <1>3 DEF CloseReleasesWaiters
  <2>7. CloseReleasesWaiters'
    BY <1>1, <2>6 DEF CloseReleasesWaiters
  <2> QED BY SMTT(30), <1>1, <2>4, <2>5, <2>7 DEF WakeInv, TypeOK, QueueInv
<1>4. CASE st[f] = "created" /\ Becomes(f, "idle") /\ UNCHANGED <<waiters, toWake>>
  <2>1. Unqueued(f)
    BY <1>1, <1>4 DEF Unqueued, At, QueueInv, QueueMatchesFutures
  <2> QED BY <1>2, <1>4, <2>1
<1> QED BY <1>2, <1>3, <1>4 DEF Cancel

\* close: the wakers of the whole queue are taken out.
LEMMA CloseStep ==
  ASSUME NEW f \in Futures, IInv, Close(f)
  PROVE  WakeInv'
<1>1. /\ QueueInv /\ QueueTypeOK /\ WakersTypeOK /\ CloseReleasesWaiters /\ NoLostWakeup
      /\ Running(f) /\ closed' = TRUE /\ waiters' = <<>> /\ waiters \in Seq(Waker)
      /\ toWake' = [toWake EXCEPT ![f] = Range(waiters)]
      /\ UNCHANGED <<permits, want, held, supply, st, task, woken>>
  BY DEF IInv, WakeInv, TypeOK, QueueTypeOK, Close, TakeWakers
<1>2. Range(waiters) \in SUBSET Waker
  BY <1>1, QueueShape DEF Range
<1>3. WakersTypeOK'
  BY ZenonT(60), <1>1, <1>2, WakerStep
<1>4. QueueInv'
  BY <1>1, <1>3
  DEF QueueInv, QueueTypeOK, QueueMatchesFutures, WakersAreCurrent
<1>5. NoLostWakeup'
  BY <1>1 DEF NoLostWakeup, At
<1>6. CloseReleasesWaiters'
  <2> SUFFICES ASSUME NEW h \in Futures, st[h] = "waiting"
               PROVE  WillBePolled(h)'
    BY <1>1 DEF CloseReleasesWaiters
  <2>1. CASE closed
    <3>1. WillBePolled(h)
      BY <1>1, <2>1 DEF CloseReleasesWaiters
    <3> QED BY ZenonT(60), <1>1, <3>1, WakeSurvives
  <2>2. CASE ~closed
    <3>1. PICK i \in DOMAIN waiters : At(i, h)
      BY <2>2 DEF IInv, AllQueued
    <3>2. waiters[i] \in Waker /\ waiters[i].future = h /\ waiters[i].task = task[h]
      BY <1>1, <3>1, QueueShape DEF At, QueueInv, WakersAreCurrent
    <3>3. waiters[i] = WakerOf(h, task'[h])
      BY <1>1, <3>2 DEF Waker, WakerOf
    <3>4. waiters[i] \in toWake'[f]
      BY <1>1 DEF Range, WakersTypeOK
    <3> QED BY <3>3, <3>4 DEF WillBePolled
  <2> QED BY <1>1, <2>1, <2>2 DEF WakeInv, TypeOK
<1> QED BY <1>1, <1>4, <1>5, <1>6 DEF IInv, WakeInv, TypeOK, QueueInv

\* Calling a waker keeps the wake-ups that are under way.
LEMMA FireStep ==
  ASSUME NEW f \in Futures, WakeInv, Fire(f)
  PROVE  WakeInv'
<1> USE DEF WakeInv, TypeOK, Fire
<1>1. QueueInv'
  BY FireKeepsQueue DEF queueVars
<1>2. NoLostWakeup' /\ CloseReleasesWaiters'
  BY FireKeepsWakes
  DEF NoLostWakeup, CloseReleasesWaiters, At, QueueInv, QueueTypeOK
<1> QED BY <1>1, <1>2 DEF QueueInv

\* While the semaphore is open no step loses the waiter of a waiting future.
LEMMA QueuedStep ==
  ASSUME IInv, Next, ~closed'
  PROVE  AllQueued'
<1>1. QueueTypeOK /\ ~closed /\ AllQueued
  <2>1. ~closed
    BY ZenonT(60) DEF Next, AcquireMany, TryTake, AddPermits, ForgetPermits, SplitAndDrop,
       Poll, Merge, Cancel, DropPermit, Forget, Close, Fire
  <2> QED BY <2>1 DEF IInv, WakeInv, TypeOK
<1>2. \A s \in {"idle", "created", "holding"} : s \in Status \ {"waiting"}
  BY DEF Status
<1>3. ASSUME NEW f \in Futures, NEW n \in Amounts,
             \/ AcquireMany(f, n) \/ TryTake(f, n) \/ AddPermits(f, n)
             \/ ForgetPermits(f, n) \/ SplitAndDrop(f, n)
      PROVE  AllQueued'
  BY <1>1, <1>2, <1>3, KeepsAllQueued
  DEF AcquireMany, CreateFuture, TryTake, AddPermits, ForgetPermits, SplitAndDrop,
      queueVars
<1>4. ASSUME NEW f \in Futures, NEW t \in Tasks, Poll(f, t)
      PROVE  AllQueued'
  BY ZenonT(60), <1>1, <1>2, <1>4, KeepsAllQueued
  DEF Poll, PollClosed, PollQueued, PollUnqueued
<1>5. ASSUME NEW f \in Futures, NEW g \in Futures, Merge(f, g)
      PROVE  AllQueued'
  BY <1>1, <1>2, <1>5, KeepsAllQueued DEF Merge
<1>6. ASSUME NEW f \in Futures, Cancel(f)
      PROVE  AllQueued'
  BY SMTT(30), <1>1, <1>2, <1>6, KeepsAllQueued DEF Cancel
<1>7. ASSUME NEW f \in Futures, DropPermit(f) \/ Forget(f) \/ Fire(f)
      PROVE  AllQueued'
  BY <1>1, <1>2, <1>7, KeepsAllQueued DEF DropPermit, Forget, Fire, queueVars
<1>8. ASSUME NEW f \in Futures, Close(f)
      PROVE  FALSE
  BY <1>8 DEF Close
<1> QED BY <1>3, <1>4, <1>5, <1>6, <1>7, <1>8 DEF Next

\* Every step of the semaphore keeps the invariant.
LEMMA NextIInv == IInv /\ [Next]_vars => IInv'
<1> SUFFICES ASSUME IInv, [Next]_vars PROVE IInv'
  OBVIOUS
<1>1. CASE UNCHANGED vars
  BY <1>1 DEF vars, IInv, WakeInv, TypeOK, QueueInv, QueueTypeOK, WakersTypeOK,
     CloseReleasesWaiters, NoLostWakeup, WillBePolled, QueueMatchesFutures,
     WakersAreCurrent, At, AllQueued
<1>2. CASE Next
  <2>1. WakeInv
    BY DEF IInv
  <2>2. ASSUME NEW f \in Futures, NEW t \in Tasks, Poll(f, t)
        PROVE  WakeInv'
    BY <2>1, <2>2, PollQueuedStep, PollUnqueuedStep DEF Poll
  <2>3. WakeInv'
    BY <1>2, <2>1, <2>2, AcquireManyStep, TryTakeStep, AddPermitsStep, ForgetStep,
       DropStep, MergeStep, CancelStep, CloseStep, FireStep DEF Next
  <2>4. ~closed' => AllQueued'
    BY SMTT(30), <1>2, QueuedStep
  <2> QED BY <2>3, <2>4 DEF IInv
<1> QED BY <1>1, <1>2

\* The state of the semaphore always satisfies the inductive invariant.
THEOREM SemaphoreInvariant == Spec => []IInv
BY InitIInv, NextIInv, PTL DEF Spec

\* Whatever callers do with their permits, an acquisition at the front of the
\* queue that can be satisfied is going to be polled.
THEOREM SemaphoreLosesNoWakeup == Spec => []NoLostWakeup
<1>1. IInv => NoLostWakeup
  BY DEF IInv, WakeInv
<1> QED BY <1>1, SemaphoreInvariant, PTL

\* close reaches every waiting acquisition, also one that is just being moved
\* between tasks or whose wake-up is under way.
THEOREM CloseReachesEveryone == Spec => []CloseReleasesWaiters
<1>1. IInv => CloseReleasesWaiters
  BY DEF IInv, WakeInv
<1> QED BY <1>1, SemaphoreInvariant, PTL

\* Only the front waiter of the queue, or a newcomer to an empty one, is served.
LEMMA StepServesInOrder ==
  ASSUME IInv, [Next]_vars, NEW f \in Futures, NEW g \in Futures, f # g, Before(f, g),
         st[g] # "holding"
  PROVE  st'[g] # "holding"
<1> SUFFICES ASSUME st'[g] = "holding" PROVE FALSE
  OBVIOUS
<1>1. PICK i \in DOMAIN waiters : At(i, f) /\ \A j \in DOMAIN waiters : At(j, g) => i < j
  BY DEF Before
<1>2. st \in [Futures -> Status] /\ waiters \in Seq(Waker)
  BY DEF IInv, WakeInv, TypeOK, QueueTypeOK
<1>3. i \in Nat /\ i >= 1 /\ waiters # <<>>
  BY <1>2, QueueShape
<1>4. CASE UNCHANGED vars
  BY <1>4 DEF vars
<1>5. ASSUME NEW h \in Futures, NEW n \in Amounts, TryTake(h, n)
      PROVE  FALSE
  BY <1>3, <1>5 DEF TryTake
<1>6. ASSUME NEW h \in Futures, NEW n \in Amounts,
             AcquireMany(h, n) \/ AddPermits(h, n) \/ ForgetPermits(h, n) \/ SplitAndDrop(h, n)
      PROVE  FALSE
  BY ZenonT(60), <1>2, <1>6
  DEF AcquireMany, CreateFuture, AddPermits, ForgetPermits, SplitAndDrop, Becomes
<1>7. ASSUME NEW h \in Futures,
             \/ \E e \in Futures : Merge(h, e)
             \/ Cancel(h) \/ DropPermit(h) \/ Forget(h) \/ Close(h) \/ Fire(h)
      PROVE  FALSE
  BY ZenonT(60), <1>2, <1>7
  DEF Merge, Cancel, LeaveQueue, DropPermit, Forget, Close, Fire, Becomes
<1>8. ASSUME NEW h \in Futures, NEW t \in Tasks, PollClosed(h) \/ PollUnqueued(h, t)
      PROVE  FALSE
  BY <1>2, <1>3, <1>8 DEF PollClosed, PollUnqueued, JoinQueue, Becomes
<1>9. ASSUME NEW h \in Futures, NEW t \in Tasks, PollQueued(h, t)
      PROVE  FALSE
  <2>1. PICK k \in DOMAIN waiters : k = 1 /\ At(k, h) /\ Becomes(h, "holding")
    BY <1>2, <1>9 DEF PollQueued, StayQueued, LeaveQueue
  <2>2. h = g
    BY <1>2, <2>1 DEF Becomes
  <2> QED BY <1>1, <1>3, <2>1, <2>2
<1> QED BY ZenonT(60), <1>4, <1>5, <1>6, <1>7, <1>8, <1>9 DEF Next, Poll

\* For any amounts, limit and number of futures: permits are handed out in the
\* order of the queue, so that a large acquisition at the front is not starved
\* by smaller ones behind it (try_take, poll_acquire).
THEOREM SemaphoreIsFifo == Spec => NoOvertaking
<1>1. IInv /\ [Next]_vars => [ServedInOrder]_vars
  BY ZenonT(60), StepServesInOrder DEF ServedInOrder
<1> QED BY <1>1, SemaphoreInvariant, PTL DEF Spec, NoOvertaking
-----------------------------------------------------------------------------
(* What a sum over a function is, by induction over finite sets: the fold of *)
(* SumFunction picks the elements in an order that makes no difference.      *)

\* A set of numbers has a smallest one.
LEMMA NatMin ==
  ASSUME NEW S \in SUBSET Nat, S # {}
  PROVE  \E n \in S : \A m \in S : n <= m
<1> DEFINE R == {ss \in Nat \X Nat : ss[1] < ss[2]}
<1>1. IsWellFoundedOn(R, Nat)
  BY NatLessThanWellFounded, Zenon DEF OpToRel
<1>2. \E x \in S : \A y \in S : ~(<<y, x>> \in R)
  <2> HIDE DEF R
  <2> QED BY <1>1, WFMin, Zenon
<1>3. \A x, y \in Nat : <<y, x>> \in R <=> y < x
  OBVIOUS
<1> HIDE DEF R
<1>4. PICK n \in S : \A m \in S : ~(<<m, n>> \in R)
  BY <1>2, Zenon
<1>5. \A m \in S : ~(m < n)
  BY <1>3, <1>4, Zenon
<1>6. \A m \in S : n <= m
  BY <1>5
<1> QED BY <1>6, Zenon

\* s is one of B and includes no other.
IsLeast(s, B) == s \in B /\ \A t \in B : t \subseteq s => t = s

\* Every set of subsets of a finite set has one that includes no other, which
\* serves as induction over finite sets.
LEMMA LeastSubset ==
  ASSUME NEW I, IsFiniteSet(I), NEW C \in SUBSET (SUBSET I), C # {}
  PROVE  \E s : IsLeast(s, C)
<1>1. PICK q \in Seq(I) : \A x \in I : \E n \in 1 .. Len(q) : q[n] = x
  BY Zenon DEF IsFiniteSet
<1> DEFINE U(k) == {q[n] : n \in {m \in 1 .. Len(q) : m <= k}}
           Bad == {k \in Nat : \E B : /\ B \in SUBSET (SUBSET U(k)) /\ B # {}
                                      /\ ~\E s : IsLeast(s, B)}
<1>2. Bad # {} => \E k \in Bad : \A m \in Bad : k <= m
  <2>1. Bad \in SUBSET Nat
    OBVIOUS
  <2> HIDE DEF Bad
  <2> QED BY <2>1, NatMin, Zenon
<1>3. Bad = {}
  <2> SUFFICES ASSUME NEW k \in Bad, \A m \in Bad : k <= m PROVE FALSE
    BY <1>2, Zenon
  <2>1. PICK B : B \in SUBSET (SUBSET U(k)) /\ B # {} /\ ~\E s : IsLeast(s, B)
    BY Zenon
  <2>2. k # 0
    <3> SUFFICES ASSUME k = 0 PROVE FALSE
      OBVIOUS
    <3>1. U(0) = {}
      OBVIOUS
    <3> HIDE DEF U
    <3>2. \A s \in B : s = {}
      BY <2>1, <3>1, Zenon
    <3>3. {} \in B
      <4>1. PICK s : s \in B
        BY <2>1, Zenon
      <4> QED BY <3>2, <4>1, Zenon
    <3>4. IsLeast({}, B)
      BY <3>2, <3>3, Zenon DEF IsLeast
    <3> QED BY <2>1, <3>4, Zenon
  <2>3. k - 1 \in Nat /\ ~(k <= k - 1)
    BY <2>2
  <2>4. \A A : A \in SUBSET (SUBSET U(k - 1)) /\ A # {} => \E s : IsLeast(s, A)
    BY <2>3, Zenon
  <2>5. U(k) \subseteq U(k - 1) \cup {q[k]}
    OBVIOUS
  <2> DEFINE x == q[k]
             A1 == {s \in B : x \notin s}
             A2 == {s \ {x} : s \in B}
  <2> HIDE DEF U, x
  <2>6. CASE A1 # {}
    <3>1. A1 \in SUBSET (SUBSET U(k - 1))
      BY <2>1, <2>5, Zenon DEF x
    <3>2. PICK s : IsLeast(s, A1)
      BY <2>4, <2>6, <3>1, Zenon
    <3>3. IsLeast(s, B)
      BY <3>2, Zenon DEF IsLeast
    <3> QED BY <2>1, <3>3, Zenon
  <2>7. CASE A1 = {}
    <3>1. \A s \in B : x \in s
      BY <2>7, Zenon
    <3>2. A2 \in SUBSET (SUBSET U(k - 1)) /\ A2 # {}
      <4>1. \A s \in B : s \subseteq U(k - 1) \cup {x}
        BY <2>1, <2>5, Zenon DEF x
      <4>2. \A s \in B : s \ {x} \in SUBSET U(k - 1)
        BY <4>1, Zenon
      <4>3. \A r \in A2 : r \in SUBSET U(k - 1)
        BY <4>2, Zenon
      <4>4. PICK s : s \in B
        BY <2>1, Zenon
      <4>5. s \ {x} \in A2
        BY <4>4, Zenon
      <4> HIDE DEF A2
      <4> QED BY <4>3, <4>5, Zenon
    <3>3. PICK r : IsLeast(r, A2)
      BY <2>4, <3>2, Zenon
    <3>4. PICK s \in B : r = s \ {x}
      BY <3>3, Zenon DEF IsLeast
    <3>5. ASSUME NEW t \in B, t \subseteq s PROVE t = s
      <4>1. t \ {x} \in A2 /\ t \ {x} \subseteq r
        BY <3>4, <3>5, Zenon
      <4>2. t \ {x} = s \ {x}
        BY <3>3, <3>4, <4>1, Zenon DEF IsLeast
      <4>3. x \in t /\ x \in s
        BY <3>1, Zenon
      <4>4. \A y : y \in t <=> y \in s
        BY <4>2, <4>3, Zenon
      <4> QED BY <4>4, Zenon
    <3> QED BY <2>1, <3>5, Zenon DEF IsLeast
  <2> QED BY <2>6, <2>7
<1>4. Len(q) \in Nat /\ I \subseteq U(Len(q))
  BY <1>1
<1> HIDE DEF U
<1>5. C \in SUBSET (SUBSET U(Len(q)))
  BY <1>4, Zenon
<1> QED BY <1>3, <1>4, <1>5, Zenon

\* The fold of SumFunction: it takes an arbitrary element out at each step.
Pick(s) == CHOOSE x \in s : TRUE
SumStep(F, s, g) == IF s = {} THEN 0 ELSE F[Pick(s)] + g[s \ {Pick(s)}]
IsSum(g, F, s) == g = [t \in SUBSET s |-> SumStep(F, t, g)]
SumDef(F, s) == CHOOSE g : IsSum(g, F, s)
OneSum(F, I) ==
  \A s \in SUBSET I : \A r \in SUBSET s :
    \A g, h : IsSum(g, F, s) /\ IsSum(h, F, r) => g[r] = h[r]

\* SumFunctionOnSet is the value of the function SumDef.
LEMMA SumUnfold ==
  ASSUME NEW F, NEW I
  PROVE  SumFunctionOnSet(F, I) = SumDef(F, I)[I]
BY Zenon DEF SumFunctionOnSet, FoldFunctionOnSet, MapThenFoldSet, SumDef, IsSum, SumStep, Pick

\* The recursion has at most one solution.
LEMMA SumUnique ==
  ASSUME NEW I, IsFiniteSet(I), NEW F
  PROVE  OneSum(F, I)
<1>0. SUFFICES ASSUME NEW s \in SUBSET I, NEW r \in SUBSET s,
                      NEW g, IsSum(g, F, s), NEW h, IsSum(h, F, r)
               PROVE  g[r] = h[r]
  BY Zenon DEF OneSum
<1> DEFINE B == {t \in SUBSET I : t \subseteq r /\ g[t] # h[t]}
<1> SUFFICES ASSUME B # {} PROVE FALSE
  BY Zenon
<1>1. PICK t : IsLeast(t, B)
  <2>1. B \in SUBSET (SUBSET I)
    BY Zenon
  <2> HIDE DEF B
  <2> QED BY <2>1, LeastSubset, Zenon
<1>2. t \in SUBSET I /\ t \in SUBSET s /\ t \in SUBSET r /\ g[t] # h[t]
  BY <1>1, Zenon DEF IsLeast
<1>3. g[t] = SumStep(F, t, g) /\ h[t] = SumStep(F, t, h)
  BY <1>0, <1>2, Zenon DEF IsSum
<1>4. CASE t = {}
  BY <1>2, <1>3, <1>4, Zenon DEF SumStep
<1>5. CASE t # {}
  <2> DEFINE c == Pick(t)
  <2>1. c \in t /\ g[t] = F[c] + g[t \ {c}] /\ h[t] = F[c] + h[t \ {c}]
    BY <1>3, <1>5, Zenon DEF SumStep, Pick
  <2> HIDE DEF c
  <2>2. t \ {c} \notin B
    BY <1>1, <2>1, Zenon DEF IsLeast
  <2>3. g[t \ {c}] = h[t \ {c}]
    BY <1>2, <2>2, Zenon
  <2> QED BY <1>2, <2>1, <2>3, Zenon
<1> QED BY <1>4, <1>5

\* It has one.
LEMMA SumExists ==
  ASSUME NEW I, IsFiniteSet(I), NEW F
  PROVE  \A s \in SUBSET I : IsSum(SumDef(F, s), F, s)
<1> DEFINE B == {s \in SUBSET I : ~\E g : IsSum(g, F, s)}
<1>1. SUFFICES ASSUME B # {} PROVE FALSE
  BY Zenon DEF SumDef
<1>2. PICK s : IsLeast(s, B)
  <2>1. B \in SUBSET (SUBSET I)
    BY Zenon
  <2> HIDE DEF B
  <2> QED BY <1>1, <2>1, LeastSubset, Zenon
<1>3. s \in SUBSET I /\ ~\E g : IsSum(g, F, s)
  BY <1>2, Zenon DEF IsLeast
<1> DEFINE Less(t) == t \ {Pick(t)}
           val(t) == IF t = {} THEN 0 ELSE F[Pick(t)] + SumDef(F, Less(t))[Less(t)]
           g == [t \in SUBSET s |-> val(t)]
<1>4. ASSUME NEW t \in SUBSET s, t # s PROVE IsSum(SumDef(F, t), F, t)
  <2>1. t \notin B
    BY <1>2, <1>4, Zenon DEF IsLeast
  <2> QED BY <1>3, <2>1, Zenon DEF SumDef
<1>5. ASSUME NEW t \in SUBSET s, t # {}
      PROVE  Less(t) \in SUBSET t /\ Less(t) # s /\ Pick(t) \in t
  BY <1>5, Zenon DEF Pick
<1>6. ASSUME NEW t \in SUBSET s PROVE val(t) = SumStep(F, t, g)
  <2>1. CASE t = {}
    BY <2>1, Zenon DEF SumStep
  <2>2. CASE t # {}
    <3> DEFINE r == Less(t)
    <3>1. r \in SUBSET s /\ r # s
      BY <1>5, <2>2, Zenon
    <3>2. IsSum(SumDef(F, r), F, r)
      <4> HIDE DEF r
      <4> QED BY <1>4, <3>1, Zenon
    <3>3. SumDef(F, r)[r] = SumStep(F, r, SumDef(F, r))
      <4> HIDE DEF r
      <4>1. r \in SUBSET r
        BY Zenon
      <4> DEFINE d == SumDef(F, r)
      <4>2. d = [u \in SUBSET r |-> SumStep(F, u, d)]
        BY <3>2, Zenon DEF IsSum
      <4> HIDE DEF d
      <4>3. d[r] = SumStep(F, r, d)
        BY <4>1, <4>2, Zenon
      <4> QED BY <4>3, Zenon DEF d
    <3>4. g[r] = val(r)
      <4> HIDE DEF r, val
      <4> QED BY <3>1, Zenon
    <3>5. val(r) = SumDef(F, r)[r]
      <4> HIDE DEF r
      <4>1. CASE r = {}
        BY <3>3, <4>1, Zenon DEF SumStep
      <4>2. CASE r # {}
        <5> DEFINE q == Less(r)
        <5>1. q \in SUBSET r /\ q # s /\ q \in SUBSET s
          BY <1>5, <3>1, <4>2, Zenon
        <5> HIDE DEF q
        <5>2. IsSum(SumDef(F, q), F, q)
          BY <1>4, <5>1, Zenon
        <5>3. r \in SUBSET I
          BY <1>3, <3>1, Zenon
        <5>4. OneSum(F, I)
          BY SumUnique, Zenon
        <5>5. SumDef(F, r)[q] = SumDef(F, q)[q]
          BY <3>2, <5>1, <5>2, <5>3, <5>4, Zenon DEF OneSum
        <5> QED BY <3>3, <4>2, <5>5, Zenon DEF SumStep, q
      <4> QED BY <4>1, <4>2
    <3>6. g[r] = SumDef(F, r)[r]
      BY <3>4, <3>5, Zenon
    <3> HIDE DEF g
    <3> QED BY <2>2, <3>6, Zenon DEF SumStep
  <2> QED BY <2>1, <2>2
<1>7. IsSum(g, F, s)
  <2> DEFINE gg == g
  <2>1. \A t \in SUBSET s : val(t) = SumStep(F, t, gg)
    BY <1>6, Zenon
  <2> HIDE DEF gg, val
  <2>2. [t \in SUBSET s |-> val(t)] = [t \in SUBSET s |-> SumStep(F, t, gg)]
    BY <2>1, Zenon
  <2> QED BY <2>2, Zenon DEF IsSum, gg
<1> QED BY <1>3, <1>7, Zenon

\* So SumDef satisfies its recursion.
LEMMA SumDefRec ==
  ASSUME NEW I, IsFiniteSet(I), NEW F
  PROVE  \A s \in SUBSET I : SumDef(F, I)[s] = SumStep(F, s, SumDef(F, I))
<1> DEFINE d == SumDef(F, I)
<1>1. \A s \in SUBSET I : IsSum(SumDef(F, s), F, s)
  BY SumExists, Zenon
<1>2. I \in SUBSET I
  BY Zenon
<1>3. d = [s \in SUBSET I |-> SumStep(F, s, d)]
  BY <1>1, <1>2, Zenon DEF IsSum
<1> HIDE DEF d
<1>4. \A s \in SUBSET I : d[s] = SumStep(F, s, d)
  BY <1>3, Zenon
<1> QED BY <1>4, Zenon DEF d

\* A property of the subsets of a finite set that fails has a counterexample
\* that is none any more without any of its elements.
LEMMA SmallestSubset ==
  ASSUME NEW I, IsFiniteSet(I), NEW B \in SUBSET (SUBSET I), B # {}
  PROVE  \E s \in B : \A x \in s : s \ {x} \notin B
<1>1. PICK s : IsLeast(s, B)
  BY LeastSubset, Zenon
<1>2. s \in B /\ \A x \in s : s \ {x} # s /\ s \ {x} \subseteq s
  BY <1>1, Zenon DEF IsLeast
<1> QED BY <1>1, <1>2, Zenon DEF IsLeast

\* A sum of integers is an integer.
LEMMA SumDefInt ==
  ASSUME NEW I, IsFiniteSet(I), NEW F \in [I -> Int]
  PROVE  \A s \in SUBSET I : SumDef(F, I)[s] \in Int
<1> DEFINE d == SumDef(F, I)
           B == {s \in SUBSET I : d[s] \notin Int}
<1> HIDE DEF d
<1> SUFFICES ASSUME B # {} PROVE FALSE
  BY Zenon DEF d
<1>1. PICK s \in B : \A x \in s : s \ {x} \notin B
  <2>1. B \in SUBSET (SUBSET I)
    BY Zenon
  <2> HIDE DEF B
  <2> QED BY <2>1, SmallestSubset, Zenon
<1>2. d[s] = SumStep(F, s, d)
  BY <1>1, SumDefRec, Zenon DEF d
<1>3. CASE s = {}
  BY <1>1, <1>2, <1>3 DEF SumStep
<1>4. CASE s # {}
  <2>1. Pick(s) \in s
    BY <1>4, Zenon DEF Pick
  <2>2. d[s \ {Pick(s)}] \in Int /\ Pick(s) \in I
    BY <1>1, <2>1, Zenon
  <2>3. d[s] = F[Pick(s)] + d[s \ {Pick(s)}]
    BY <1>2, <1>4, Zenon DEF SumStep
  <2> QED BY <1>1, <2>2, <2>3
<1> QED BY <1>3, <1>4

\* Any element may be taken out first.
LEMMA SumDefRemove ==
  ASSUME NEW I, IsFiniteSet(I), NEW F \in [I -> Int]
  PROVE  \A s \in SUBSET I : \A x \in s : SumDef(F, I)[s] = F[x] + SumDef(F, I)[s \ {x}]
<1> DEFINE d == SumDef(F, I)
           B == {s \in SUBSET I : \E x \in s : d[s] # F[x] + d[s \ {x}]}
<1>0. \A s \in SUBSET I : d[s] \in Int /\ d[s] = SumStep(F, s, d)
  BY SumDefInt, SumDefRec, Zenon
<1> HIDE DEF d
<1> SUFFICES ASSUME B # {} PROVE FALSE
  BY Zenon DEF d
<1>1. PICK s \in B : \A x \in s : s \ {x} \notin B
  <2>1. B \in SUBSET (SUBSET I)
    BY Zenon
  <2> HIDE DEF B
  <2> QED BY <2>1, SmallestSubset, Zenon
<1>2. PICK x \in s : d[s] # F[x] + d[s \ {x}]
  BY <1>1, Zenon
<1> DEFINE c == Pick(s)
           r == (s \ {x}) \ {c}
<1>3. c \in s /\ d[s] = F[c] + d[s \ {c}] /\ c # x
  BY <1>0, <1>1, <1>2, Zenon DEF SumStep, Pick
<1> HIDE DEF c
<1>4. d[s \ {c}] = F[x] + d[(s \ {c}) \ {x}]
  BY <1>1, <1>2, <1>3, Zenon
<1>5. d[s \ {x}] = F[c] + d[r]
  BY <1>1, <1>2, <1>3, Zenon
<1>6. (s \ {c}) \ {x} = r
  BY Zenon
<1>7. F[c] \in Int /\ F[x] \in Int /\ d[r] \in Int
  <2>1. c \in I /\ x \in I /\ r \in SUBSET I
    BY <1>1, <1>2, <1>3, Zenon
  <2>2. F[c] \in Int /\ F[x] \in Int
    BY <2>1
  <2> HIDE DEF r
  <2> QED BY <1>0, <2>1, <2>2, Zenon
<1> HIDE DEF r, B
<1>8. d[s] = F[c] + (F[x] + d[r])
  BY <1>3, <1>4, <1>6, Zenon
<1>9. F[c] + (F[x] + d[r]) = F[x] + (F[c] + d[r])
  BY <1>7
<1> QED BY <1>2, <1>5, <1>8, <1>9, Zenon

\* The sum depends only on the values at the elements summed over.
LEMMA SumDefAgree ==
  ASSUME NEW I, IsFiniteSet(I), NEW F \in [I -> Int], NEW G \in [I -> Int]
  PROVE  \A s \in SUBSET I :
           (\A x \in s : F[x] = G[x]) => SumDef(F, I)[s] = SumDef(G, I)[s]
<1> SUFFICES ASSUME NEW s \in SUBSET I, \A x \in s : F[x] = G[x]
             PROVE  SumDef(F, I)[s] = SumDef(G, I)[s]
  BY Zenon
<1> DEFINE d == SumDef(F, I)
           e == SumDef(G, I)
           B == {t \in SUBSET I : t \subseteq s /\ d[t] # e[t]}
<1>0. \A t \in SUBSET I : d[t] = SumStep(F, t, d) /\ e[t] = SumStep(G, t, e)
  BY SumDefRec, Zenon
<1> HIDE DEF d, e
<1> SUFFICES ASSUME B # {} PROVE FALSE
  BY Zenon DEF d, e
<1>1. PICK t \in B : \A x \in t : t \ {x} \notin B
  <2>1. B \in SUBSET (SUBSET I)
    BY Zenon
  <2> HIDE DEF B
  <2> QED BY <2>1, SmallestSubset, Zenon
<1>2. CASE t = {}
  BY <1>0, <1>1, <1>2, Zenon DEF SumStep
<1>3. CASE t # {}
  <2> DEFINE c == Pick(t)
  <2>1. c \in t /\ d[t] = F[c] + d[t \ {c}] /\ e[t] = G[c] + e[t \ {c}]
    BY <1>0, <1>1, <1>3, Zenon DEF SumStep, Pick
  <2> HIDE DEF c
  <2>2. F[c] = G[c] /\ d[t \ {c}] = e[t \ {c}]
    BY <1>1, <2>1, Zenon
  <2> QED BY <1>1, <2>1, <2>2, Zenon
<1> QED BY <1>2, <1>3

\* SumFunction sums over the whole domain.
LEMMA SumFunctionIs ==
  ASSUME NEW I, NEW F \in [I -> Int]
  PROVE  SumFunction(F) = SumDef(F, I)[I]
<1>1. DOMAIN F = I
  BY Zenon
<1> QED BY <1>1, SumUnfold, Zenon DEF SumFunction

\* SumFunction of integers is an integer.
LEMMA SumInt ==
  ASSUME NEW I, IsFiniteSet(I), NEW F \in [I -> Int]
  PROVE  SumFunction(F) \in Int
<1>1. I \in SUBSET I
  OBVIOUS
<1>2. SumDef(F, I)[I] \in Int
  BY <1>1, SumDefInt, Zenon
<1> QED BY <1>2, SumFunctionIs, Zenon

\* A sum of zeros is zero.
LEMMA SumOfZeros ==
  ASSUME NEW I, IsFiniteSet(I), NEW F \in [I -> Int], \A x \in I : F[x] = 0
  PROVE  SumFunction(F) = 0
<1> DEFINE d == SumDef(F, I)
           B == {t \in SUBSET I : d[t] # 0}
<1>0. \A t \in SUBSET I : d[t] = SumStep(F, t, d)
  BY SumDefRec, Zenon
<1>a. SumFunction(F) = d[I]
  BY SumFunctionIs, Zenon
<1> HIDE DEF d
<1> SUFFICES ASSUME B # {} PROVE FALSE
  BY <1>a, Zenon
<1>1. PICK t \in B : \A x \in t : t \ {x} \notin B
  <2>1. B \in SUBSET (SUBSET I)
    BY Zenon
  <2> HIDE DEF B
  <2> QED BY <2>1, SmallestSubset, Zenon
<1>2. CASE t = {}
  BY <1>0, <1>1, <1>2, Zenon DEF SumStep
<1>3. CASE t # {}
  <2> DEFINE c == Pick(t)
  <2>1. c \in t /\ d[t] = F[c] + d[t \ {c}]
    BY <1>0, <1>1, <1>3, Zenon DEF SumStep, Pick
  <2> HIDE DEF c
  <2>2. F[c] = 0 /\ d[t \ {c}] = 0
    BY <1>1, <2>1, Zenon
  <2> QED BY <1>1, <2>1, <2>2
<1> QED BY <1>2, <1>3

\* Changing one value changes the sum by the difference.
LEMMA SumExcept ==
  ASSUME NEW I, IsFiniteSet(I), NEW F \in [I -> Int], NEW i \in I, NEW v \in Int
  PROVE  SumFunction([F EXCEPT ![i] = v]) = SumFunction(F) - F[i] + v
<1> DEFINE G == [F EXCEPT ![i] = v]
           s == I \ {i}
<1>1. G \in [I -> Int] /\ G[i] = v /\ \A x \in s : F[x] = G[x]
  OBVIOUS
<1>0. I \in SUBSET I /\ s \in SUBSET I
  OBVIOUS
<1> HIDE DEF G
<1>2. SumDef(F, I)[s] = SumDef(G, I)[s]
  <2> HIDE DEF s
  <2>1. \A x \in s : F[x] = G[x]
    BY <1>1, Zenon
  <2>2. \A t \in SUBSET I :
          (\A x \in t : F[x] = G[x]) => SumDef(F, I)[t] = SumDef(G, I)[t]
    BY <1>1, SumDefAgree, Zenon
  <2> QED BY <1>0, <2>1, <2>2, Zenon
<1>3. SumFunction(F) = F[i] + SumDef(F, I)[s]
  <2>0. \A t \in SUBSET I : \A x \in t : SumDef(F, I)[t] = F[x] + SumDef(F, I)[t \ {x}]
    BY SumDefRemove, Zenon
  <2>1. SumDef(F, I)[I] = F[i] + SumDef(F, I)[s]
    BY <1>0, <2>0, Zenon
  <2> QED BY <2>1, SumFunctionIs, Zenon
<1>4. SumFunction(G) = G[i] + SumDef(G, I)[s]
  <2>0. \A t \in SUBSET I : \A x \in t : SumDef(G, I)[t] = G[x] + SumDef(G, I)[t \ {x}]
    BY <1>1, SumDefRemove, Zenon
  <2>1. SumDef(G, I)[I] = G[i] + SumDef(G, I)[s]
    BY <1>0, <2>0, Zenon
  <2> QED BY <1>1, <2>1, SumFunctionIs, Zenon
<1>5. SumDef(F, I)[s] \in Int /\ F[i] \in Int
  <2>1. SumDef(F, I)[s] \in Int
    BY <1>0, SumDefInt, Zenon
  <2> QED BY <2>1
<1>6. SumFunction(G) = SumFunction(F) - F[i] + v
  BY <1>1, <1>2, <1>3, <1>4, <1>5
<1> QED BY <1>6, Zenon DEF G
-----------------------------------------------------------------------------
\* What is available and what is held is in circulation.
Balanced == permits + SumFunction(held) = supply

\* Nobody but the owner of a permit holds any.
Account ==
  /\ \A f \in Futures : st[f] # "holding" => held[f] = 0
  /\ Balanced

\* The sum of what is held follows the size of one permit.
LEMMA SumHeld ==
  ASSUME IInv, NEW f \in Futures, NEW n \in Int, Holds(f, n)
  PROVE  SumFunction(held') = SumFunction(held) - held[f] + n
<1>1. held \in [Futures -> Int] /\ IsFiniteSet(Futures)
  BY SemaphoreAssumption DEF IInv, WakeInv, TypeOK
<1> QED BY <1>1, SumExcept, Zenon DEF Holds

\* The numbers in the account are integers.
LEMMA AccountTypes ==
  ASSUME IInv
  PROVE  /\ held \in [Futures -> Nat] /\ want \in [Futures -> Nat] /\ st \in [Futures -> Status]
         /\ permits \in Int /\ supply \in Int /\ SumFunction(held) \in Int
<1>1. /\ held \in [Futures -> Nat] /\ want \in [Futures -> Nat]
      /\ permits \in 0 .. MaxPermits /\ supply \in Int /\ QueueTypeOK
  BY DEF IInv, WakeInv, TypeOK
<1>2. IsFiniteSet(Futures) /\ held \in [Futures -> Int]
  BY <1>1, SemaphoreAssumption
<1>3. SumFunction(held) \in Int
  BY <1>2, SumInt, Zenon
<1> QED BY <1>1, <1>3, SemaphoreAssumption DEF QueueTypeOK

\* A step that leaves the permits where they are.
LEMMA AccountAside ==
  ASSUME Account, UNCHANGED held, permits' - supply' = permits - supply,
         permits \in Int, supply \in Int, permits' \in Int, supply' \in Int,
         SumFunction(held) \in Int,
         \A h \in Futures : st[h] = "holding" => st'[h] = "holding"
  PROVE  Account'
<1>1. Balanced'
  BY DEF Account, Balanced
<1> QED BY <1>1, Zenon DEF Account

\* A step that moves permits between the state, or the outside, and f.
LEMMA AccountMove ==
  ASSUME IInv, Account, NEW f \in Futures, NEW n \in Nat, Holds(f, n),
         NEW d \in Int, permits' = permits + d, supply' = supply + (d + (n - held[f])),
         n # 0 => st'[f] = "holding",
         \A h \in Futures : h # f => st'[h] = st[h]
  PROVE  Account'
<1>1. SumFunction(held') = SumFunction(held) - held[f] + n
  BY SumHeld
<1>2. /\ permits \in Int /\ supply \in Int /\ SumFunction(held) \in Int
      /\ held \in [Futures -> Nat]
  BY AccountTypes
<1>3. held[f] \in Int /\ n \in Int
  BY <1>2
<1>4. Balanced'
  <2>1. \A p, e, s, h, m \in Int : (p + e) + (s - h + m) = (p + s) + (e + (m - h))
    OBVIOUS
  <2>2. (permits + d) + (SumFunction(held) - held[f] + n)
           = (permits + SumFunction(held)) + (d + (n - held[f]))
    <3>1. permits \in Int /\ SumFunction(held) \in Int /\ held[f] \in Int /\ n \in Int
      BY <1>2, <1>3
    <3> QED BY <2>1, <3>1
  <2>3. permits' + SumFunction(held') = supply'
    BY <1>1, <2>2, Zenon DEF Account, Balanced
  <2> QED BY <2>3 DEF Balanced
<1>5. \A h \in Futures : st'[h] # "holding" => held'[h] = 0
  BY <1>2 DEF Account, Holds
<1> QED BY <1>4, <1>5 DEF Account

\* merge leaves the sum as it is.
LEMMA AccountMerge ==
  ASSUME IInv, Account, NEW f \in Futures, NEW g \in Futures, Merge(f, g)
  PROVE  Account'
<1>1. /\ permits \in Int /\ supply \in Int /\ SumFunction(held) \in Int
      /\ held \in [Futures -> Nat] /\ st \in [Futures -> Status] /\ IsFiniteSet(Futures)
  BY AccountTypes, SemaphoreAssumption
<1> DEFINE both == held[f] + held[g]
           mid == [held EXCEPT ![f] = both]
<1>2. /\ both \in Int /\ held \in [Futures -> Int] /\ mid \in [Futures -> Int]
      /\ held' = [mid EXCEPT ![g] = 0] /\ mid[g] = held[g]
      /\ f # g
  BY <1>1 DEF Merge
<1>3. SumFunction(mid) = SumFunction(held) - held[f] + both
  <2>1. both \in Int /\ held \in [Futures -> Int]
    BY <1>2
  <2> HIDE DEF both
  <2> QED BY <1>1, <2>1, SumExcept, Zenon
<1> HIDE DEF mid
<1>4. SumFunction(held') = SumFunction(mid) - mid[g] + 0
  <2>1. 0 \in Int
    OBVIOUS
  <2> QED BY <1>1, <1>2, <2>1, SumExcept, Zenon
<1>5. SumFunction(held') = SumFunction(held)
  BY <1>1, <1>2, <1>3, <1>4
<1>6. permits' = permits /\ supply' = supply
  BY <1>1 DEF Merge, AddLocked
<1>7. \A h \in Futures : st'[h] # "holding" => held'[h] = 0
  BY <1>1 DEF Account, Merge, Becomes
<1> QED BY <1>5, <1>6, <1>7 DEF Account, Balanced

\* Every step keeps the account.
LEMMA AccountStep == IInv /\ IInv' /\ Account /\ [Next]_vars => Account'
<1> SUFFICES ASSUME IInv, IInv', Account, [Next]_vars PROVE Account'
  OBVIOUS
<1>1. /\ permits \in Int /\ supply \in Int /\ SumFunction(held) \in Int
      /\ held \in [Futures -> Nat] /\ want \in [Futures -> Nat] /\ st \in [Futures -> Status]
  BY AccountTypes
<1>2. permits' \in Int /\ supply' \in Int
  BY SemaphoreAssumption DEF IInv, WakeInv, TypeOK
<1>3. CASE UNCHANGED vars
  BY <1>3, Zenon DEF vars, Account, Balanced
<1>4. ASSUME NEW f \in Futures, NEW n \in Amounts, AcquireMany(f, n) PROVE Account'
  <2>1. /\ UNCHANGED <<held, permits, supply>>
        /\ \A h \in Futures : st[h] = "holding" => st'[h] = "holding"
    BY <1>1, <1>4 DEF AcquireMany, CreateFuture, Becomes
  <2> QED BY <1>1, <1>2, <2>1, AccountAside
<1>5. ASSUME NEW f \in Futures, NEW n \in Amounts, TryTake(f, n) PROVE Account'
  <2>1. /\ Holds(f, n) /\ permits' = permits - n /\ supply' = supply /\ held[f] = 0
        /\ n \in Nat /\ \A h \in Futures : st'[h] = IF h = f THEN "holding" ELSE st[h]
    BY <1>1, <1>5, SemaphoreAssumption DEF TryTake, Account, Becomes
  <2>2. -n \in Int /\ permits' = permits + (-n) /\ supply' = supply + (-n + (n - held[f]))
    BY <1>1, <2>1
  <2> QED BY <2>1, <2>2, AccountMove
<1>6. ASSUME NEW f \in Futures, NEW n \in Amounts, AddPermits(f, n) \/ ForgetPermits(f, n)
      PROVE  Account'
  <2>1. UNCHANGED <<held, st>> /\ permits' - supply' = permits - supply
    BY <1>1, <1>6, SemaphoreAssumption DEF AddPermits, ForgetPermits, AddLocked
  <2> QED BY <1>1, <1>2, <2>1, AccountAside
<1>7. ASSUME NEW f \in Futures, NEW n \in Nat, NEW m \in Nat, GiveBack(f, n), Holds(f, m),
             held[f] = n + m, m # 0 => st'[f] = "holding",
             \A h \in Futures : h # f => st'[h] = st[h]
      PROVE  Account'
  <2>1. \E d \in Int : permits' = permits + d /\ supply' = supply + (d + (m - held[f]))
    <3>1. n \in Int /\ 0 \in Int
      OBVIOUS
    <3>2. CASE AddLocked(f, n) /\ UNCHANGED supply
      BY <1>1, <1>7, <3>1, <3>2 DEF AddLocked
    <3>3. CASE supply' = supply - n /\ UNCHANGED permits
      BY <1>1, <1>7, <3>1, <3>3
    <3> QED BY <1>7, <3>2, <3>3 DEF GiveBack
  <2> QED BY <1>7, <2>1, AccountMove
<1>8. ASSUME NEW f \in Futures, NEW n \in Amounts, SplitAndDrop(f, n) PROVE Account'
  <2>1. /\ n \in Nat /\ held[f] - n \in Nat /\ held[f] = n + (held[f] - n)
        /\ GiveBack(f, n) /\ Holds(f, held[f] - n) /\ UNCHANGED st /\ st'[f] = "holding"
    BY <1>1, <1>8, SemaphoreAssumption DEF SplitAndDrop
  <2> QED BY <1>7, <2>1
<1>9. ASSUME NEW f \in Futures, DropPermit(f) PROVE Account'
  <2>1. /\ held[f] \in Nat /\ held[f] = held[f] + 0
        /\ GiveBack(f, held[f]) /\ Holds(f, 0) /\ \A h \in Futures : h # f => st'[h] = st[h]
    BY <1>1, <1>9 DEF DropPermit, Becomes
  <2> QED BY <1>7, <2>1
<1>10. ASSUME NEW f \in Futures, Forget(f) PROVE Account'
  <2>1. /\ Holds(f, 0) /\ \A h \in Futures : h # f => st'[h] = st[h]
        /\ 0 \in Int /\ permits' = permits + 0 /\ supply' = supply + (0 + (0 - held[f]))
    BY <1>1, <1>10 DEF Forget, Becomes
  <2> QED BY <2>1, AccountMove
<1>11. ASSUME NEW f \in Futures, NEW t \in Tasks, Poll(f, t) PROVE Account'
  <2>1. CASE /\ UNCHANGED <<held, permits>>
             /\ \A h \in Futures : st[h] = "holding" => st'[h] = "holding"
    BY <1>1, <1>2, <1>11, <2>1, AccountAside DEF Poll
  <2>2. CASE /\ st[f] # "holding" /\ permits' = permits - want[f] /\ Holds(f, want[f])
             /\ Becomes(f, "holding")
    <3>1. held[f] = 0 /\ want[f] \in Nat /\ supply' = supply
      BY <1>1, <1>11, <2>2 DEF Account, Poll
    <3>2. /\ -want[f] \in Int /\ permits' = permits + (-want[f])
          /\ supply' = supply + (-want[f] + (want[f] - held[f]))
      BY <1>1, <2>2, <3>1
    <3>3. \A h \in Futures : st'[h] = IF h = f THEN "holding" ELSE st[h]
      BY <1>1, <2>2 DEF Becomes
    <3> QED BY <2>2, <3>1, <3>2, <3>3, AccountMove
  <2>3. CASE PollClosed(f)
    BY <1>1, <2>1, <2>3 DEF PollClosed, Becomes
  <2>4. CASE PollQueued(f, t)
    BY <1>1, <2>1, <2>2, <2>4 DEF PollQueued, LeaveQueue, StayQueued, Becomes
  <2>5. CASE PollUnqueued(f, t)
    BY <1>1, <2>1, <2>2, <2>5 DEF PollUnqueued, Unqueued, JoinQueue, Becomes
  <2> QED BY <1>11, <2>3, <2>4, <2>5 DEF Poll
<1>12. ASSUME NEW f \in Futures, Cancel(f) \/ Close(f) \/ Fire(f) PROVE Account'
  <2>1. UNCHANGED <<held, permits, supply>>
    BY <1>12, Zenon DEF Cancel, Close, Fire
  <2>2. \A h \in Futures : st[h] = "holding" => st'[h] = "holding"
    BY <1>1, <1>12 DEF Cancel, Close, Fire, LeaveQueue, Becomes
  <2> QED BY <1>1, <1>2, <2>1, <2>2, AccountAside
<1> QED
  BY ZenonT(60), <1>3, <1>4, <1>5, <1>6, <1>8, <1>9, <1>10, <1>11, <1>12, AccountMerge DEF Next

\* For any number of futures, amounts and limit: no interleaving of
\* acquisitions, cancellations, splits, merges, drops and close creates or loses
\* a permit, or makes more than MAX_PERMITS available (poll_acquire, add_permits,
\* split, merge).
THEOREM SemaphoreConservesPermits == Spec => []PermitsConserved
<1>1. Init => Account
  <2> SUFFICES ASSUME Init PROVE Account
    OBVIOUS
  <2>1. /\ held \in [Futures -> Int] /\ \A f \in Futures : held[f] = 0
        /\ permits = supply /\ permits \in Int /\ IsFiniteSet(Futures)
    BY SemaphoreAssumption DEF Init
  <2>2. SumFunction(held) = 0
    BY <2>1, SumOfZeros, Zenon
  <2> QED BY <2>1, <2>2 DEF Account, Balanced
<1>2. IInv /\ Account => PermitsConserved
  BY SemaphoreAssumption DEF IInv, WakeInv, TypeOK, Account, Balanced, PermitsConserved
<1> QED BY <1>1, <1>2, AccountStep, SemaphoreInvariant, PTL DEF Spec
=============================================================================
