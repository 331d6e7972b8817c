----------------------------- MODULE AsyncMutex -----------------------------
(***************************************************************************)
(* The asynchronous mutex (sync/mutex.rs): a flag and a FIFO queue of      *)
(* wakers behind a blocking lock.  Every critical section of that lock is  *)
(* one step.  The waker chosen in a critical section is called in a later  *)
(* step (Fire), as in the source.                                          *)
(*                                                                         *)
(* Each f in Futures runs lock() or try_lock() any number of times, one    *)
(* after the other.  The owned and the borrowed future and guard, and the  *)
(* mapped guards, share poll_lock, cancel_waiter and unlock, and differ    *)
(* only in how they refer to the mutex.                                    *)
(***************************************************************************)
EXTENDS WaiterQueue

VARIABLE locked     \* MutexState.locked

vars == <<locked, waiters, st, task, woken, toWake>>

TypeOK == locked \in BOOLEAN /\ QueueTypeOK

Init == locked = FALSE /\ QueueInit
-----------------------------------------------------------------------------
\* lock, lock_owned.
Lock(f) == CreateFuture(f) /\ UNCHANGED locked

\* try_lock, try_lock_owned, and each turn of the blocking_lock loops.  A
\* failed attempt changes nothing.
TryLock(f) ==
  /\ Running(f) /\ st[f] = "idle"
  /\ ~locked /\ waiters = <<>>
  /\ locked' = TRUE
  /\ Becomes(f, "holding")
  /\ UNCHANGED <<waiters, wakerVars>>

\* Mutant: the check that the waiter is at the front is forgotten.
PollQueuedAnywhere(f, t) ==
  \E i \in DOMAIN waiters :
    /\ st[f] = "waiting" /\ At(i, f)
    /\ \/ ~locked /\ locked' = TRUE /\ LeaveQueue(i, f, "holding")
       \/ locked /\ StayQueued(i, f, t) /\ UNCHANGED locked

\* poll_lock of a future with a queued waiter.
PollQueued(f, t) ==
  \E i \in DOMAIN waiters :
    /\ st[f] = "waiting" /\ At(i, f)
    /\ \/ i = 1 /\ ~locked /\ locked' = TRUE /\ LeaveQueue(i, f, "holding")
       \/ (i # 1 \/ locked) /\ StayQueued(i, f, t) /\ UNCHANGED locked

\* Mutant: the fast path forgets that the mutex may be held.
PollUnqueuedUnchecked(f, t) ==
  /\ Unqueued(f)
  /\ \/ waiters = <<>> /\ locked' = TRUE /\ Becomes(f, "holding") /\ UNCHANGED waiters
     \/ waiters # <<>> /\ JoinQueue(f, t) /\ UNCHANGED locked

\* poll_lock of a future that is not in the queue.
PollUnqueued(f, t) ==
  /\ Unqueued(f)
  /\ \/ /\ ~locked /\ waiters = <<>>
        /\ locked' = TRUE
        /\ Becomes(f, "holding")
        /\ UNCHANGED waiters
     \/ /\ locked \/ waiters # <<>>
        /\ JoinQueue(f, t)
        /\ UNCHANGED locked

\* A poll may come at any time: tasks are also woken for other reasons.
Poll(f, t) ==
  /\ Running(f)
  /\ PollQueued(f, t) \/ PollUnqueued(f, t)
  /\ PolledFrom(f, t)
  /\ UNCHANGED toWake

\* cancel_waiter: the future is dropped before it was ready.
Cancel(f) ==
  /\ Running(f)
  /\ \/ /\ Unqueued(f)
        /\ Becomes(f, "idle")
        /\ UNCHANGED <<waiters, toWake>>
     \/ \E i \in DOMAIN waiters :
          /\ st[f] = "waiting" /\ At(i, f)
          /\ LeaveQueue(i, f, "idle")
          /\ TakeWakers(f, IF i = 1 /\ ~locked THEN FrontWaker(waiters') ELSE {})
  /\ UNCHANGED <<locked, task, woken>>

\* unlock: the guard is dropped.
Unlock(f) ==
  /\ Running(f) /\ st[f] = "holding"
  /\ locked' = FALSE
  /\ TakeWakers(f, FrontWaker(waiters))
  /\ Becomes(f, "idle")
  /\ UNCHANGED <<waiters, task, woken>>

Fire(f) == FireWake(f) /\ UNCHANGED <<locked, waiters, st>>

Next ==
  \E f \in Futures :
    \/ Lock(f) \/ TryLock(f) \/ Cancel(f) \/ Unlock(f) \/ Fire(f)
    \/ \E t \in Tasks : Poll(f, t)

Spec == Init /\ [][Next]_vars

\* A woken task is polled (the executor re-polls it, runtime/waker.rs), a
\* thread that took out wakers goes on to call them, and a holder eventually
\* drops its guard.  Nothing else is assumed: no one has to cancel.
Fairness ==
  \A f \in Futures :
    /\ WF_vars(woken[f] /\ \E t \in Tasks : Poll(f, t))
    /\ WF_vars(Fire(f))
    /\ WF_vars(Unlock(f))

FairSpec == Spec /\ Fairness
-----------------------------------------------------------------------------
(* Properties.                                                             *)

Holders == {f \in Futures : st[f] = "holding"}

\* At most one guard is alive, and the mutex is marked locked exactly while
\* one is: the &mut T a guard hands out (deref_mut) is unique.
MutualExclusion ==
  /\ \A f, g \in Holders : f = g
  /\ locked <=> Holders # {}

\* A free mutex with waiters is never left alone: the front waiter's current
\* task has been woken, or a thread that left unlock or cancel_waiter is about
\* to wake it, whatever was cancelled or moved between tasks meanwhile.
NoLostWakeup ==
  ~locked => \A f \in Futures : At(1, f) => WillBePolled(f)

\* poll_lock and try_lock serve waiters in the order they queued: whoever gets
\* the mutex leaves nobody behind who was in the queue before it.
Before(f, g) ==
  \E i \in DOMAIN waiters :
    /\ At(i, f)
    /\ \A j \in DOMAIN waiters : At(j, g) => i < j
ServedInOrder ==
  \A f, g \in Futures :
    f # g /\ Before(f, g) => ~(st[g] # "holding" /\ st'[g] = "holding")
NoOvertaking == [][ServedInOrder]_vars

\* A future that waits and is not dropped gets the mutex.
WaitersAreServed ==
  \A f \in Futures : st[f] = "waiting" ~> st[f] # "waiting"
-----------------------------------------------------------------------------
\* The inductive invariant behind MutualExclusion and NoLostWakeup.
IInv == TypeOK /\ QueueInv /\ MutualExclusion /\ NoLostWakeup
=============================================================================
