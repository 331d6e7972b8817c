---------------------------- MODULE WaiterQueue ----------------------------
(***************************************************************************)
(* The queue of waiters that sync/mutex.rs, sync/semaphore.rs and          *)
(* sync/rwlock.rs each keep behind a blocking lock, and the life of a      *)
(* future that may stand in it.  The three files repeat this code; the     *)
(* map refers to the copy in sync/mutex.rs.                                *)
(*                                                                         *)
(* A waiter is the waker of the future's task.  Its numeric id stands for  *)
(* the future, and what else a waiter carries (the number of permits, the  *)
(* kind of access) is a constant copy of a field of the future.            *)
(***************************************************************************)
EXTENDS Wakers

VARIABLES waiters,  \* the VecDeque of waiters
          st        \* st[f]: how far f has come

queueVars == <<waiters, st>>

\* "created": the future exists and has waiter = None; "waiting": waiter =
\* Some(id); "holding": the future is finished and its guard is alive.
Status == {"idle", "created", "waiting", "holding"}

QueueTypeOK ==
  /\ waiters \in Seq(Waker)
  /\ st \in [Futures -> Status]
  /\ WakersTypeOK

QueueInit ==
  /\ waiters = <<>>
  /\ st = [f \in Futures |-> "idle"]
  /\ WakersInit
-----------------------------------------------------------------------------
\* f's waiter is the i-th of the queue; position() of the source.
At(i, f) == i \in DOMAIN waiters /\ waiters[i].future = f

\* f has to be treated as a new arrival: it has no waiter, or had one that is
\* no longer in the queue.
Unqueued(f) ==
  st[f] \in {"created", "waiting"} /\ \A i \in DOMAIN waiters : ~At(i, f)

Becomes(f, s) == st' = [st EXCEPT ![f] = s]

\* push_back of a new waiter.
JoinQueue(f, t) ==
  /\ waiters' = Append(waiters, WakerOf(f, t))
  /\ Becomes(f, "waiting")

\* Mutant: the waker stored first is kept when the task changes.
KeepOldWaker(i, f, t) == UNCHANGED <<waiters, st>>

\* The waiter stays where it is and remembers the task that polls it now.
StayQueued(i, f, t) ==
  /\ waiters' = [waiters EXCEPT ![i] = WakerOf(f, t)]
  /\ UNCHANGED st

\* VecDeque::remove.
RemoveAt(q, i) == SubSeq(q, 1, i - 1) \o SubSeq(q, i + 1, Len(q))

\* pop_front or remove: the i-th waiter, f's, leaves the queue.
LeaveQueue(i, f, s) ==
  /\ waiters' = RemoveAt(waiters, i)
  /\ Becomes(f, s)

\* The clone of the front waiter's waker; the waiter itself stays queued.
FrontWaker(q) == IF q = <<>> THEN {} ELSE {Head(q)}

\* A new future: lock(), read(), write(), acquire().  Nothing happens until
\* it is polled.
CreateFuture(f) ==
  /\ Running(f) /\ st[f] = "idle"
  /\ Becomes(f, "created")
  /\ UNCHANGED <<waiters, wakerVars>>
-----------------------------------------------------------------------------
\* A future has at most one waiter, and only while it waits.
QueueMatchesFutures ==
  /\ \A i, j \in DOMAIN waiters : waiters[i].future = waiters[j].future => i = j
  /\ \A i \in DOMAIN waiters : st[waiters[i].future] = "waiting"

\* The queue holds the waker of the task that polled last (will_wake).
WakersAreCurrent ==
  \A i \in DOMAIN waiters : waiters[i].task = task[waiters[i].future]

\* Every future that waits has its waiter in the queue.
AllQueued ==
  \A f \in Futures : st[f] = "waiting" => \E i \in DOMAIN waiters : At(i, f)

QueueInv == QueueTypeOK /\ QueueMatchesFutures /\ WakersAreCurrent
=============================================================================
