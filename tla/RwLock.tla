------------------------------- MODULE RwLock -------------------------------
(***************************************************************************)
(* The asynchronous read-write lock (sync/rwlock.rs): a reader count, a    *)
(* writer flag and one FIFO queue for readers and writers.  Every critical *)
(* section of the state's lock is one step; the wakers it chose are called *)
(* in later steps.                                                         *)
(*                                                                         *)
(* Each f in Futures takes the lock any number of times, by a future or    *)
(* by try_read and try_write; blocking_read and blocking_write repeat the  *)
(* latter until they succeed.  Owned and mapped guards change nothing in   *)
(* the lock's state until they are dropped.                                *)
(***************************************************************************)
EXTENDS WaiterQueue

CONSTANT Limits  \* the limits a lock may be created with

ASSUME RwLockAssumption == IsFiniteSet(Futures) /\ Limits \subseteq Nat \ {0}

VARIABLES readers,  \* RwLockState.readers
          writer,   \* RwLockState.writer
          limit,    \* max_readers of the lock
          mode      \* mode[f]: the kind f waits for or holds

lockVars == <<readers, writer, limit>>
vars == <<readers, writer, limit, mode, waiters, st, task, woken, toWake>>

Kinds == {"read", "write"}

TypeOK ==
  /\ readers \in Nat
  /\ writer \in BOOLEAN
  /\ limit \in Limits
  /\ mode \in [Futures -> Kinds]
  /\ QueueTypeOK

Init ==
  /\ readers = 0 /\ writer = FALSE /\ limit \in Limits
  /\ mode = [f \in Futures |-> "read"]
  /\ QueueInit
-----------------------------------------------------------------------------
\* Mutant: a reader does not look at the writer flag.
CanAcquireDirty(r, w, kind) ==
  IF kind = "read" THEN r < limit ELSE ~w /\ r = 0

\* can_acquire, for r readers and a writer flag w.
CanAcquire(r, w, kind) ==
  ~w /\ IF kind = "read" THEN r < limit ELSE r = 0

\* next_waker: the front waiter, if it can have the lock.
NextWaker(q, r, w) ==
  IF q # <<>> /\ CanAcquire(r, w, mode[Head(q).future]) THEN {Head(q)} ELSE {}

\* The state changes to one more guard of f's kind.
Grant(kind) ==
  /\ IF kind = "read" THEN readers' = readers + 1 /\ UNCHANGED writer
                      ELSE writer' = TRUE /\ UNCHANGED readers
  /\ UNCHANGED limit

\* read, write, read_owned, write_owned.
Request(f, kind) ==
  /\ CreateFuture(f)
  /\ mode' = [mode EXCEPT ![f] = kind]
  /\ UNCHANGED lockVars

\* try_read, try_read_owned and blocking_read; the limit is not consulted.
TryRead(f) ==
  /\ Running(f) /\ st[f] = "idle"
  /\ ~writer /\ waiters = <<>>
  /\ readers' = readers + 1
  /\ mode' = [mode EXCEPT ![f] = "read"]
  /\ Becomes(f, "holding")
  /\ UNCHANGED <<writer, limit, waiters, wakerVars>>

\* try_write, try_write_owned and blocking_write.
TryWrite(f) ==
  /\ Running(f) /\ st[f] = "idle"
  /\ ~writer /\ readers = 0 /\ waiters = <<>>
  /\ writer' = TRUE
  /\ mode' = [mode EXCEPT ![f] = "write"]
  /\ Becomes(f, "holding")
  /\ UNCHANGED <<readers, limit, waiters, wakerVars>>

\* The waker poll_lock takes out after it granted the lock to the front
\* waiter: a reader lets the next reader follow.
WakeAfter(f) ==
  IF mode[f] = "read" THEN NextWaker(waiters', readers', writer') ELSE {}

\* poll_lock of a future with a queued waiter.
PollQueued(f, t) ==
  \E i \in DOMAIN waiters :
    /\ st[f] = "waiting" /\ At(i, f)
    /\ \/ /\ i = 1 /\ CanAcquire(readers, writer, mode[f])
          /\ LeaveQueue(i, f, "holding")
          /\ Grant(mode[f])
          /\ TakeWakers(f, WakeAfter(f))
       \/ /\ i # 1 \/ ~CanAcquire(readers, writer, mode[f])
          /\ StayQueued(i, f, t)
          /\ UNCHANGED <<lockVars, toWake>>

\* poll_lock of a future that is not in the queue.
PollUnqueued(f, t) ==
  /\ Unqueued(f)
  /\ \/ /\ waiters = <<>> /\ CanAcquire(readers, writer, mode[f])
        /\ Grant(mode[f])
        /\ Becomes(f, "holding")
        /\ UNCHANGED waiters
     \/ /\ waiters # <<>> \/ ~CanAcquire(readers, writer, mode[f])
        /\ JoinQueue(f, t)
        /\ UNCHANGED lockVars
  /\ UNCHANGED toWake

Poll(f, t) ==
  /\ Running(f)
  /\ PollQueued(f, t) \/ PollUnqueued(f, t)
  /\ PolledFrom(f, t)
  /\ UNCHANGED mode

\* Mutant: a cancelled waiter leaves without looking at who is next.
CancelSilently(f) ==
  /\ Running(f)
  /\ \/ /\ st[f] = "created"
        /\ Becomes(f, "idle")
        /\ UNCHANGED <<waiters, toWake>>
     \/ \E i \in DOMAIN waiters :
          /\ st[f] = "waiting" /\ At(i, f)
          /\ LeaveQueue(i, f, "idle")
          /\ UNCHANGED toWake
  /\ UNCHANGED <<lockVars, mode, task, woken>>

\* cancel_waiter: the future is dropped before it was ready.
Cancel(f) ==
  /\ Running(f)
  /\ \/ /\ st[f] = "created"
        /\ Becomes(f, "idle")
        /\ UNCHANGED <<waiters, toWake>>
     \/ \E i \in DOMAIN waiters :
          /\ st[f] = "waiting" /\ At(i, f)
          /\ LeaveQueue(i, f, "idle")
          /\ TakeWakers(f, NextWaker(waiters', readers, writer))
  /\ UNCHANGED <<lockVars, mode, task, woken>>

\* release_read: only the last reader wakes somebody.
ReleaseRead(f) ==
  /\ Running(f) /\ st[f] = "holding" /\ mode[f] = "read"
  /\ readers' = readers - 1
  /\ TakeWakers(f, IF readers' = 0 THEN NextWaker(waiters, 0, writer) ELSE {})
  /\ Becomes(f, "idle")
  /\ UNCHANGED <<writer, limit, mode, waiters, task, woken>>

\* release_write.
ReleaseWrite(f) ==
  /\ Running(f) /\ st[f] = "holding" /\ mode[f] = "write"
  /\ writer' = FALSE
  /\ TakeWakers(f, NextWaker(waiters, readers, FALSE))
  /\ Becomes(f, "idle")
  /\ UNCHANGED <<readers, limit, mode, waiters, task, woken>>

\* downgrade_write: the write guard becomes a read guard.
DowngradeWrite(f) ==
  /\ Running(f) /\ st[f] = "holding" /\ mode[f] = "write"
  /\ writer' = FALSE
  /\ readers' = readers + 1
  /\ TakeWakers(f, NextWaker(waiters, readers', FALSE))
  /\ mode' = [mode EXCEPT ![f] = "read"]
  /\ UNCHANGED <<limit, waiters, st, task, woken>>

Fire(f) ==
  FireWake(f) /\ UNCHANGED <<lockVars, mode, waiters, st>>

Next ==
  \E f \in Futures :
    \/ \E kind \in Kinds : Request(f, kind)
    \/ \E t \in Tasks : Poll(f, t)
    \/ TryRead(f) \/ TryWrite(f) \/ Cancel(f)
    \/ ReleaseRead(f) \/ ReleaseWrite(f) \/ DowngradeWrite(f) \/ Fire(f)

Spec == Init /\ [][Next]_vars

\* Woken tasks are polled, wakers that were taken out are called, and guards
\* are eventually dropped.
Fairness ==
  \A f \in Futures :
    /\ WF_vars(woken[f] /\ \E t \in Tasks : Poll(f, t))
    /\ WF_vars(Fire(f))
    /\ WF_vars(ReleaseRead(f))
    /\ WF_vars(ReleaseWrite(f))

FairSpec == Spec /\ Fairness
-----------------------------------------------------------------------------
(* Properties.                                                             *)

Holders(kind) == {f \in Futures : st[f] = "holding" /\ mode[f] = kind}

\* A write guard, through which the value can be changed, is the only guard;
\* the counters always describe the guards that are alive.
CountsOK ==
  /\ readers = Cardinality(Holders("read"))
  /\ Cardinality(Holders("write")) = (IF writer THEN 1 ELSE 0)
  /\ writer => readers = 0
ReadersExcludeWriter == TypeOK /\ CountsOK

\* A waiter at the front that can have the lock is going to be polled.  There
\* is one exception: a front reader that the reader limit kept out is not told
\* when a slot becomes free, but at the latest when the last reader releases.
Owed(f) ==
  /\ CanAcquire(readers, writer, mode[f])
  /\ limit < Cardinality(Futures) => readers = 0
NoLostWakeup == \A f \in Futures : At(1, f) /\ Owed(f) => WillBePolled(f)

\* Readers do not slip past a queued writer, nor anybody past an earlier
\* waiter: the lock is granted in the order of the queue.
Before(f, g) ==
  \E i \in DOMAIN waiters :
    /\ At(i, f)
    /\ \A j \in DOMAIN waiters : At(j, g) => i < j
ServedInOrder ==
  \A f, g \in Futures :
    f # g /\ Before(f, g) => ~(st[g] # "holding" /\ st'[g] = "holding")
NoOvertaking == [][ServedInOrder]_vars

\* A write guard is the only guard, a waiter at the front that can have the
\* lock is going to be polled, and the lock is granted in the order of the
\* queue (poll_acquire, release_read, release_write).
RwLockIsSafe == [](ReadersExcludeWriter /\ NoLostWakeup) /\ NoOvertaking

\* The inductive invariant of the proofs.
IInv == QueueInv /\ ReadersExcludeWriter /\ NoLostWakeup

\* Every waiter is eventually served or gives up, writers and readers alike.
WaitersAreServed ==
  \A f \in Futures : st[f] = "waiting" ~> st[f] # "waiting"

\* "Creates a read-write lock with a limit on concurrent readers."
ReadersWithinLimit == readers <= limit
=============================================================================
