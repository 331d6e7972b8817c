----------------------------- MODULE Semaphore -----------------------------
(***************************************************************************)
(* The counting semaphore (sync/semaphore.rs): a number of permits and a   *)
(* FIFO queue of acquisitions of several permits each.  Every critical     *)
(* section of the state's lock is one step; the wakers it chose are called *)
(* in later steps.                                                         *)
(*                                                                         *)
(* Each f in Futures acquires, keeps, splits, merges and drops permits any *)
(* number of times, and its thread may also call add_permits,              *)
(* forget_permits and close.  The owned and the borrowed variants share    *)
(* all of this code.                                                       *)
(***************************************************************************)
EXTENDS WaiterQueue, Integers, Functions

CONSTANTS InitialPermits,  \* the argument of new
          MaxPermits,      \* MAX_PERMITS
          Amounts,         \* the numbers of permits callers name
          MaxSupply        \* bound: the permits in circulation

ASSUME SemaphoreAssumption ==
  /\ MaxPermits \in Nat /\ MaxSupply \in Nat
  /\ InitialPermits \in 0 .. MaxPermits
  /\ Amounts \subseteq Nat
  /\ IsFiniteSet(Futures)

VARIABLES permits,  \* SemaphoreState.permits
          closed,   \* SemaphoreState.closed
          want,     \* want[f]: Acquire.permits, and the permits of f's waiter
          held,     \* held[f]: SemaphorePermit.permits of f's permit
          supply    \* history: the permits in circulation: put in, not forgotten,
                    \* not lost in a panic

vars == <<permits, closed, want, held, supply, waiters, st, task, woken, toWake>>

TypeOK ==
  /\ permits \in 0 .. MaxPermits
  /\ closed \in BOOLEAN
  /\ want \in [Futures -> Nat] /\ held \in [Futures -> Nat]
  /\ supply \in Int
  /\ QueueTypeOK

Init ==
  /\ permits = InitialPermits /\ supply = InitialPermits
  /\ closed = FALSE
  /\ want = [f \in Futures |-> 0] /\ held = [f \in Futures |-> 0]
  /\ QueueInit
-----------------------------------------------------------------------------
\* Mutant: only a waiter for a single permit is considered.
NextWakerSingle(q, p) ==
  IF q # <<>> /\ p >= 1 /\ want[Head(q).future] <= 1 THEN {Head(q)} ELSE {}

\* next_waker: the front waiter, if p permits are enough for it.
NextWaker(q, p) ==
  IF q # <<>> /\ p >= want[Head(q).future] THEN {Head(q)} ELSE {}

Holds(f, n) == held' = [held EXCEPT ![f] = n]

\* acquire, acquire_many, acquire_owned, acquire_many_owned.
AcquireMany(f, n) ==
  /\ CreateFuture(f)
  /\ want' = [want EXCEPT ![f] = n]
  /\ UNCHANGED <<permits, closed, held, supply>>

\* try_take; a failed attempt changes nothing.
TryTake(f, n) ==
  /\ Running(f) /\ st[f] = "idle"
  /\ ~closed /\ waiters = <<>> /\ permits >= n
  /\ permits' = permits - n
  /\ Holds(f, n)
  /\ Becomes(f, "holding")
  /\ UNCHANGED <<closed, want, supply, waiters, wakerVars>>

\* poll_acquire after close: the acquisition fails.
PollClosed(f) ==
  /\ closed /\ st[f] \in {"created", "waiting"}
  /\ Becomes(f, "idle")
  /\ UNCHANGED <<permits, held, waiters, toWake>>

\* Mutant: the next waiter is not told about the permits left over.
PollQueuedKeepsRest(f, t) ==
  \E i \in DOMAIN waiters :
    /\ ~closed /\ st[f] = "waiting" /\ At(i, f)
    /\ \/ /\ i = 1 /\ permits >= want[f]
          /\ permits' = permits - want[f]
          /\ Holds(f, want[f])
          /\ LeaveQueue(i, f, "holding")
          /\ UNCHANGED toWake
       \/ /\ i # 1 \/ permits < want[f]
          /\ StayQueued(i, f, t)
          /\ UNCHANGED <<permits, held, toWake>>

\* poll_acquire of a future with a queued waiter.
PollQueued(f, t) ==
  \E i \in DOMAIN waiters :
    /\ ~closed /\ st[f] = "waiting" /\ At(i, f)
    /\ \/ /\ i = 1 /\ permits >= want[f]
          /\ permits' = permits - want[f]
          /\ Holds(f, want[f])
          /\ LeaveQueue(i, f, "holding")
          /\ TakeWakers(f, NextWaker(waiters', permits'))
       \/ /\ i # 1 \/ permits < want[f]
          /\ StayQueued(i, f, t)
          /\ UNCHANGED <<permits, held, toWake>>

\* Mutant: an acquisition that finds enough permits does not look at the queue.
PollUnqueuedBarges(f, t) ==
  /\ ~closed /\ Unqueued(f)
  /\ \/ /\ permits >= want[f]
        /\ permits' = permits - want[f]
        /\ Holds(f, want[f])
        /\ Becomes(f, "holding")
        /\ UNCHANGED waiters
     \/ /\ permits < want[f]
        /\ JoinQueue(f, t)
        /\ UNCHANGED <<permits, held>>
  /\ UNCHANGED toWake

\* poll_acquire of a future that is not in the queue.
PollUnqueued(f, t) ==
  /\ ~closed /\ Unqueued(f)
  /\ \/ /\ waiters = <<>> /\ permits >= want[f]
        /\ permits' = permits - want[f]
        /\ Holds(f, want[f])
        /\ Becomes(f, "holding")
        /\ UNCHANGED waiters
     \/ /\ waiters # <<>> \/ permits < want[f]
        /\ JoinQueue(f, t)
        /\ UNCHANGED <<permits, held>>
  /\ UNCHANGED toWake

Poll(f, t) ==
  /\ Running(f)
  /\ PollClosed(f) \/ PollQueued(f, t) \/ PollUnqueued(f, t)
  /\ PolledFrom(f, t)
  /\ UNCHANGED <<closed, want, supply>>

\* cancel_waiter: the future is dropped before it was ready.
Cancel(f) ==
  /\ Running(f)
  /\ \/ /\ st[f] = "created"
        /\ Becomes(f, "idle")
        /\ UNCHANGED <<waiters, toWake>>
     \/ /\ st[f] = "waiting" /\ Unqueued(f)
        /\ Becomes(f, "idle")
        /\ TakeWakers(f, NextWaker(waiters, permits))
        /\ UNCHANGED waiters
     \/ \E i \in DOMAIN waiters :
          /\ st[f] = "waiting" /\ At(i, f)
          /\ LeaveQueue(i, f, "idle")
          /\ TakeWakers(f, NextWaker(waiters', permits))
  /\ UNCHANGED <<permits, closed, want, held, supply, task, woken>>
-----------------------------------------------------------------------------
\* The successful part of add_permits.
AddLocked(f, n) ==
  /\ permits + n <= MaxPermits
  /\ permits' = permits + n
  /\ TakeWakers(f, NextWaker(waiters, permits'))

\* Dropping a permit of size n.  Above MAX_PERMITS add_permits panics before
\* it stores the sum, and the permits are gone.
GiveBack(f, n) ==
  \/ AddLocked(f, n) /\ UNCHANGED supply
  \/ /\ permits + n > MaxPermits
     /\ supply' = supply - n
     /\ UNCHANGED <<permits, toWake>>

\* add_permits called directly; a panic changes nothing.
AddPermits(f, n) ==
  /\ Running(f)
  /\ supply + n <= MaxSupply
  /\ AddLocked(f, n)
  /\ supply' = supply + n
  /\ UNCHANGED <<closed, want, held, waiters, st, task, woken>>

\* forget_permits takes up to n permits out of circulation.
ForgetPermits(f, n) ==
  /\ Running(f)
  /\ LET reduced == IF permits < n THEN permits ELSE n
     IN  permits' = permits - reduced /\ supply' = supply - reduced
  /\ UNCHANGED <<closed, want, held, waiters, st, wakerVars>>

\* Drop of a permit.
DropPermit(f) ==
  /\ Running(f) /\ st[f] = "holding"
  /\ GiveBack(f, held[f])
  /\ Holds(f, 0)
  /\ Becomes(f, "idle")
  /\ UNCHANGED <<closed, want, waiters, task, woken>>

\* split, and the drop of the part split off.  The part of a borrowed permit
\* borrows it, so that nothing else is done with it in between.  An owned part
\* that is kept is a permit like that of another future; which permit holds how
\* many is nothing the semaphore sees.
SplitAndDrop(f, n) ==
  /\ Running(f) /\ st[f] = "holding" /\ n <= held[f]
  /\ GiveBack(f, n)
  /\ Holds(f, held[f] - n)
  /\ UNCHANGED <<closed, want, waiters, st, task, woken>>

\* Mutant: the merged permit is not emptied before it is dropped.
MergeKeepsOther(f, g) ==
  /\ f # g
  /\ Running(f) /\ st[f] = "holding"
  /\ Running(g) /\ st[g] = "holding"
  /\ held' = [held EXCEPT ![f] = held[f] + held[g], ![g] = 0]
  /\ Becomes(g, "idle")
  /\ AddLocked(f, held[g])
  /\ UNCHANGED <<closed, want, supply, waiters, task, woken>>

\* merge: g's permit, now of size 0, is dropped at the end.
Merge(f, g) ==
  /\ f # g
  /\ Running(f) /\ st[f] = "holding"
  /\ Running(g) /\ st[g] = "holding"
  /\ held' = [held EXCEPT ![f] = held[f] + held[g], ![g] = 0]
  /\ Becomes(g, "idle")
  /\ AddLocked(f, 0)
  /\ UNCHANGED <<closed, want, supply, waiters, task, woken>>

\* forget: the permit is dropped without returning anything.
Forget(f) ==
  /\ Running(f) /\ st[f] = "holding"
  /\ supply' = supply - held[f]
  /\ Holds(f, 0)
  /\ Becomes(f, "idle")
  /\ UNCHANGED <<permits, closed, want, waiters, wakerVars>>

\* Mutant: closing wakes only the waiter at the front.
CloseWakesOne(f) ==
  /\ Running(f)
  /\ closed' = TRUE
  /\ waiters' = <<>>
  /\ TakeWakers(f, FrontWaker(waiters))
  /\ UNCHANGED <<permits, want, held, supply, st, task, woken>>

\* close drains the queue and wakes everyone who was in it.
Close(f) ==
  /\ Running(f)
  /\ closed' = TRUE
  /\ waiters' = <<>>
  /\ TakeWakers(f, Range(waiters))
  /\ UNCHANGED <<permits, want, held, supply, st, task, woken>>

Fire(f) ==
  FireWake(f) /\ UNCHANGED <<permits, closed, want, held, supply, waiters, st>>

Next ==
  \E f \in Futures :
    \/ \E n \in Amounts : AcquireMany(f, n) \/ TryTake(f, n) \/ AddPermits(f, n)
                          \/ ForgetPermits(f, n) \/ SplitAndDrop(f, n)
    \/ \E t \in Tasks : Poll(f, t)
    \/ \E g \in Futures : Merge(f, g)
    \/ Cancel(f) \/ DropPermit(f) \/ Forget(f) \/ Close(f) \/ Fire(f)

Spec == Init /\ [][Next]_vars

\* Woken tasks are polled, wakers that were taken out are called, and permits
\* are eventually dropped.  Adding permits, cancelling and closing are free.
Fairness ==
  \A f \in Futures :
    /\ WF_vars(woken[f] /\ \E t \in Tasks : Poll(f, t))
    /\ WF_vars(Fire(f))
    /\ WF_vars(DropPermit(f))

FairSpec == Spec /\ Fairness
-----------------------------------------------------------------------------
(* Properties.                                                             *)

\* No acquisition, cancellation, split, merge or close creates or loses a
\* permit: what is available plus what is held is what is in circulation, and
\* what is available never exceeds MAX_PERMITS, whoever gives permits back.
\* Those whose drop would exceed it are lost in the panic of add_permits and are
\* out of circulation.
PermitsConserved ==
  permits + SumFunction(held) = supply /\ permits <= MaxPermits

\* When the permits at hand are enough for the acquisition at the front of the
\* queue, its task is going to poll it.
NoLostWakeup ==
  \A f \in Futures : At(1, f) /\ permits >= want[f] => WillBePolled(f)

\* After close nobody stays asleep in the queue, and nobody can enter it.
CloseReleasesWaiters ==
  closed => /\ waiters = <<>>
            /\ \A f \in Futures : st[f] = "waiting" => WillBePolled(f)

\* The inductive invariant of the proofs: a future that waits on an open
\* semaphore is in the queue, which is what lets close reach it.
WakeInv == TypeOK /\ QueueInv /\ NoLostWakeup /\ CloseReleasesWaiters
IInv == WakeInv /\ (~closed => AllQueued)

\* A large acquisition at the front is not starved by smaller ones: permits
\* are handed out in the order of the queue.
Before(f, g) ==
  \E i \in DOMAIN waiters :
    /\ At(i, f)
    /\ \A j \in DOMAIN waiters : At(j, g) => i < j
ServedInOrder ==
  \A f, g \in Futures :
    f # g /\ Before(f, g) => ~(st[g] # "holding" /\ st'[g] = "holding")
NoOvertaking == [][ServedInOrder]_vars

\* Once permits are no longer added or taken out of circulation, every
\* acquisition that waits is eventually served, unless some waiting one asks
\* for more permits than there are.
WaitersAreServed ==
  <>[][supply' = supply]_vars =>
    \A f \in Futures :
      st[f] = "waiting" ~>
        \/ st[f] # "waiting"
        \/ \E g \in Futures : st[g] = "waiting" /\ want[g] > supply
=============================================================================
