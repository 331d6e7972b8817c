------------------------------ MODULE Barrier ------------------------------
(***************************************************************************)
(* The reusable barrier (sync/barrier.rs).  A poll is one critical section *)
(* of the state's lock; the leader calls the wakers inside it.  A dropped  *)
(* BarrierFuture has no destructor: it stays counted.                      *)
(***************************************************************************)
EXTENDS Naturals, FiniteSets, TLC

CONSTANTS Threads,      \* each calls wait() any number of times
          ThreadTasks,  \* the tasks a BarrierFuture may be polled from
          Threshold,    \* Barrier.threshold
          MaxRounds     \* bound on the generation

\* What the constants are expected to be.
ASSUME BarrierAssumption == Threshold \in Nat \ {0} /\ MaxRounds \in Nat

VARIABLES generation,      \* BarrierState.generation
          arrived,         \* BarrierState.arrived
          barrierWaiters,  \* the wakers in BarrierState.waiters; wake() is idempotent,
                           \* so their order and multiplicity do not matter
          threadSt,        \* threadSt[f]: "idle", "created", "registered" or "leader", "follower"
          entered,         \* entered[f]: BarrierFuture.generation
          threadTask, threadWoken,  \* who polled f last, and whether that task was woken
          arrivals,        \* history: arrivals[g] are the threads that came in round g
          count,           \* history: count[g] is the number of arrivals in round g
          leaders          \* history: leaders[g] led round g

barrierVars == <<generation, arrived, barrierWaiters, threadSt, entered, threadTask,
                 threadWoken, arrivals, count, leaders>>

Rounds == 0..MaxRounds

BarrierTypeOK ==
  /\ generation \in Rounds
  /\ arrived \in Nat
  /\ barrierWaiters \subseteq [thread : Threads, task : ThreadTasks]
  /\ threadSt \in [Threads -> {"idle", "created", "registered", "leader", "follower"}]
  /\ entered \in [Threads -> Rounds]
  /\ threadTask \in [Threads -> ThreadTasks] /\ threadWoken \in [Threads -> BOOLEAN]
  /\ arrivals \in [Rounds -> SUBSET Threads]
  /\ count \in [Rounds -> Nat]
  /\ leaders \in [Rounds -> SUBSET Threads]

BarrierInit ==
  /\ generation = 0 /\ arrived = 0 /\ barrierWaiters = {}
  /\ threadSt = [f \in Threads |-> "idle"]
  /\ entered = [f \in Threads |-> 0]
  /\ threadTask \in [Threads -> ThreadTasks] /\ threadWoken = [f \in Threads |-> FALSE]
  /\ arrivals = [g \in Rounds |-> {}] /\ leaders = [g \in Rounds |-> {}]
  /\ count = [g \in Rounds |-> 0]
-----------------------------------------------------------------------------
\* wait: a new future, not registered.
Wait(f) ==
  /\ threadSt[f] = "idle"
  /\ threadSt' = [threadSt EXCEPT ![f] = "created"]
  /\ UNCHANGED <<generation, arrived, barrierWaiters, entered, threadTask, threadWoken, arrivals,
                 count, leaders>>

ThreadBecomes(f, s) == threadSt' = [threadSt EXCEPT ![f] = s]

\* waiters.push_back(cx.waker().clone())
PushWaker(f, t) == barrierWaiters' = barrierWaiters \cup {[thread |-> f, task |-> t]}

\* Every waker is called; a waker of a task that no longer polls is useless.
WakeThreads(f) ==
  /\ barrierWaiters' = {}
  /\ threadWoken' = [g \in Threads |->
                      /\ g # f
                      /\ \/ threadWoken[g]
                         \/ [thread |-> g, task |-> threadTask[g]] \in barrierWaiters]

Polled(f, t) == threadTask' = [threadTask EXCEPT ![f] = t]

\* Mutant: the last to arrive opens the next round without counting from 0.
ArriveUnreset(f, t) ==
  /\ threadSt[f] = "created" /\ generation < MaxRounds
  /\ entered' = [entered EXCEPT ![f] = generation]
  /\ arrivals' = [arrivals EXCEPT ![generation] = @ \cup {f}]
  /\ count' = [count EXCEPT ![generation] = @ + 1]
  /\ Polled(f, t)
  /\ \/ /\ arrived + 1 >= Threshold
        /\ arrived' = arrived + 1 /\ generation' = generation + 1
        /\ ThreadBecomes(f, "leader")
        /\ leaders' = [leaders EXCEPT ![generation] = @ \cup {f}]
        /\ WakeThreads(f)
     \/ /\ arrived + 1 < Threshold
        /\ arrived' = arrived + 1
        /\ ThreadBecomes(f, "registered")
        /\ PushWaker(f, t)
        /\ threadWoken' = [threadWoken EXCEPT ![f] = FALSE]
        /\ UNCHANGED <<generation, leaders>>

\* The first poll: the future registers; the last one to arrive leads.
Arrive(f, t) ==
  /\ threadSt[f] = "created" /\ generation < MaxRounds
  /\ entered' = [entered EXCEPT ![f] = generation]
  /\ arrivals' = [arrivals EXCEPT ![generation] = @ \cup {f}]
  /\ count' = [count EXCEPT ![generation] = @ + 1]
  /\ Polled(f, t)
  /\ \/ /\ arrived + 1 = Threshold
        /\ arrived' = 0 /\ generation' = generation + 1
        /\ ThreadBecomes(f, "leader")
        /\ leaders' = [leaders EXCEPT ![generation] = @ \cup {f}]
        /\ WakeThreads(f)
     \/ /\ arrived + 1 # Threshold
        /\ arrived' = arrived + 1
        /\ ThreadBecomes(f, "registered")
        /\ PushWaker(f, t)
        /\ threadWoken' = [threadWoken EXCEPT ![f] = FALSE]
        /\ UNCHANGED <<generation, leaders>>

\* Later polls.
PollAgain(f, t) ==
  /\ threadSt[f] = "registered"
  /\ \/ generation # entered[f] /\ ThreadBecomes(f, "follower") /\ UNCHANGED barrierWaiters
     \/ generation = entered[f] /\ PushWaker(f, t) /\ UNCHANGED threadSt
  /\ Polled(f, t)
  /\ threadWoken' = [threadWoken EXCEPT ![f] = FALSE]
  /\ UNCHANGED <<generation, arrived, entered, arrivals, count, leaders>>

\* The result is used, or the future is dropped before it is ready.
Drop(f) ==
  /\ threadSt[f] # "idle"
  /\ ThreadBecomes(f, "idle")
  /\ UNCHANGED <<generation, arrived, barrierWaiters, entered, threadTask, threadWoken, arrivals,
                 count, leaders>>

BarrierNext ==
  \E f \in Threads :
    Wait(f) \/ Drop(f) \/ \E t \in ThreadTasks : Arrive(f, t) \/ PollAgain(f, t)

BarrierSpec == BarrierInit /\ [][BarrierNext]_barrierVars

-----------------------------------------------------------------------------
(* Properties.                                                             *)

\* A future of a round that is over is going to be polled, also if it moved to
\* another task after it registered.
RoundEndWakesAll ==
  \A f \in Threads : threadSt[f] = "registered" /\ entered[f] < generation => threadWoken[f]

\* Each round ends with exactly Threshold arrivals and one leader, nobody
\* passes before the round of its arrival ends, and the next round counts from
\* zero: no arrival is counted in two rounds, whatever futures are dropped;
\* and the end of a round wakes everybody who waits for it (BarrierFuture::poll).
RoundsAreComplete ==
  /\ BarrierTypeOK
  /\ \A g \in Rounds :
       IF g < generation THEN count[g] = Threshold /\ \E f \in Threads : leaders[g] = {f}
       ELSE /\ count[g] = IF g = generation THEN arrived ELSE 0
            /\ count[g] < Threshold /\ leaders[g] = {}
  /\ \A f \in Threads :
       threadSt[f] \in {"leader", "follower"} => entered[f] < generation
  /\ RoundEndWakesAll

\* "Creates a barrier that waits for `n` tasks": a round ends only when n
\* different threads have come to it.
WaitsForDistinctTasks ==
  \A g \in Rounds : g < generation => Cardinality(arrivals[g]) = Threshold
=============================================================================
