------------------------------- MODULE LocalSet ------------------------------
(***************************************************************************)
(* LocalSet (task/local_set.rs): the thread that owns it spawns local      *)
(* tasks and drives them all, by polling the set itself or a RunUntil,     *)
(* while other threads wake and abort them.  One driver at a time.         *)
(***************************************************************************)
EXTENDS Naturals, Sequences, FiniteSets, Functions

CONSTANT LocalTasks

VARIABLES tasks,           \* self.tasks
          taken, left,     \* the tasks poll_tasks works on, and how many are to be polled
          future,          \* of a task: "none", "held", "gone"
          able,            \* tasks whose future can go on
          localCancelled,       \* CancellationState
          polled,          \* tasks with a registered waker
          localResult,          \* what a task's sender sent, in order
          localWaking,          \* tasks whose waker is between its two steps
          notified,
          run_waker,       \* "none", "current" (the driver's), "stale" (of one dropped)
          driver, driverAwake,   \* "none", "LocalSet", "RunUntil"; is its task awake
          driverPc,              \* "idle", "tasks"
          localAlive            \* is the LocalSet

localQueues == <<tasks, taken, left>>
localEnds == <<future, localResult>>
localEvents == <<able, localCancelled, polled, localWaking>>
localState == <<notified, run_waker>>
localDriver == <<driver, driverAwake, driverPc>>
localVars == <<localQueues, localEnds, localEvents, localState, localDriver, localAlive>>

LocalInit ==
  /\ tasks = <<>> /\ taken = <<>> /\ left = 0
  /\ future = [t \in LocalTasks |-> "none"] /\ localResult = [t \in LocalTasks |-> <<>>]
  /\ able = {} /\ localCancelled = {} /\ polled = {} /\ localWaking = {}
  /\ notified = FALSE /\ run_waker = "none"
  /\ driver = "none" /\ driverAwake = FALSE /\ driverPc = "idle" /\ localAlive = TRUE

TakeRunWaker == driverAwake' = (driverAwake \/ run_waker = "current") /\ run_waker' = "none"

\* spawn_named, also from a task that is being polled.
SpawnLocal(t) ==
  /\ localAlive /\ future[t] = "none" /\ future' = [future EXCEPT ![t] = "held"]
  /\ tasks' = Append(tasks, t) /\ able' = able \union {t} /\ notified' = TRUE /\ TakeRunWaker
  /\ UNCHANGED <<taken, left, localResult, localCancelled, polled, localWaking, driver,
                 driverPc, localAlive>>
-----------------------------------------------------------------------------
(* Other threads: TaskWaker::wake, in two steps.                           *)
Wake(t) == IF t \in polled THEN localWaking' = localWaking \union {t} /\ notified' = TRUE
           ELSE UNCHANGED <<localWaking, notified>>

Event(t) ==
  /\ future[t] = "held" /\ t \notin able /\ able' = able \union {t} /\ Wake(t)
  /\ UNCHANGED <<localQueues, localEnds, localCancelled, polled, run_waker, localDriver,
                 localAlive>>

AbortLocal(t) ==
  /\ future[t] = "held" /\ t \notin localCancelled
  /\ localCancelled' = localCancelled \union {t} /\ Wake(t)
  /\ UNCHANGED <<localQueues, localEnds, able, polled, run_waker, localDriver, localAlive>>

WakeRunWaker(t) ==
  /\ t \in localWaking /\ localWaking' = localWaking \ {t} /\ TakeRunWaker
  /\ UNCHANGED <<localQueues, localEnds, able, localCancelled, polled, notified, driver,
                 driverPc, localAlive>>
-----------------------------------------------------------------------------
(* The driver.                                                             *)
Drive(d) ==
  /\ localAlive /\ driver = "none" /\ driver' = d /\ driverAwake' = TRUE
  /\ UNCHANGED <<localQueues, localEnds, localEvents, localState, driverPc, localAlive>>

\* Mutant: a waker that is already there is kept.
StoredOnce == IF run_waker = "none" THEN "current" ELSE run_waker

\* The driver's waker is stored at the start of each of its polls.
Stored == "current"

\* LocalSet::poll, and RunUntil::poll while its future is pending: poll_tasks
\* takes the tasks.
StartPoll ==
  /\ driver # "none" /\ driverPc = "idle" /\ driverPc' = "tasks"
  /\ driverAwake' = FALSE /\ run_waker' = Stored
  /\ taken' = tasks /\ left' = Len(tasks) /\ tasks' = <<>>
  /\ UNCHANGED <<localEnds, localEvents, notified, driver, localAlive>>

\* RunUntil::poll when its future is ready.
RunUntilReady ==
  /\ driver = "RunUntil" /\ driverPc = "idle" 
  /\ driver' = "none" /\ driverAwake' = FALSE /\ run_waker' = "none"
  /\ UNCHANGED <<localQueues, localEnds, localEvents, notified, driverPc, localAlive>>

\* The driving future is dropped; its waker stays where it is.
DropDriver ==
  /\ driver # "none" /\ driverPc = "idle" /\ driver' = "none" /\ driverAwake' = FALSE
  /\ run_waker' = IF run_waker = "current" THEN "stale" ELSE run_waker
  /\ UNCHANGED <<localQueues, localEnds, localEvents, notified, driverPc, localAlive>>

FinishLocal(t, r) ==
  /\ future' = [future EXCEPT ![t] = "gone"]
  /\ localResult' = [localResult EXCEPT ![t] = Append(@, r)]

\* LocalJoin::poll.
PollTask(r) ==
  /\ driverPc = "tasks" /\ left > 0 /\ left' = left - 1
  /\ LET t == Head(taken) IN
     /\ polled' = polled \union {t} /\ able' = able \ {t}
     /\ IF t \in localCancelled
        THEN r = "cancelled" /\ FinishLocal(t, r) /\ taken' = Tail(taken)
        ELSE \/ t \in able /\ r \in {"ok", "panic"} /\ FinishLocal(t, r) /\ taken' = Tail(taken)
             \/ r = "pending" /\ taken' = Append(Tail(taken), t) /\ UNCHANGED localEnds
  /\ UNCHANGED <<tasks, localCancelled, localWaking, localState, localDriver, localAlive>>

\* Tasks spawned while polling go first.
AfterRound == tasks \o taken

\* The end of poll_tasks and of the poll.
EndPoll ==
  /\ driverPc = "tasks" /\ left = 0 /\ driverPc' = "idle"
  /\ taken' = <<>> /\ tasks' = AfterRound /\ notified' = FALSE
  /\ IF driver = "LocalSet" /\ tasks' = <<>>
     THEN driver' = "none" /\ driverAwake' = FALSE /\ run_waker' = "none"
     ELSE driverAwake' = (driverAwake \/ notified) /\ UNCHANGED <<run_waker, driver>>
  /\ UNCHANGED <<left, localEnds, localEvents, localAlive>>

\* Drop for LocalSet, with Drop for LocalJoin of its tasks.
DropLocal ==
  /\ localAlive /\ driver = "none" /\ localAlive' = FALSE /\ tasks' = <<>>
  /\ future' = [t \in LocalTasks |-> IF t \in Range(tasks) THEN "gone" ELSE future[t]]
  /\ localResult' = [t \in LocalTasks |-> IF t \in Range(tasks)
                                         THEN Append(localResult[t], "cancelled")
                                         ELSE localResult[t]]
  /\ UNCHANGED <<taken, left, localEvents, localState, localDriver>>

LocalNext ==
  \/ \E t \in LocalTasks : SpawnLocal(t) \/ Event(t) \/ AbortLocal(t) \/ WakeRunWaker(t)
  \/ Drive("LocalSet") \/ Drive("RunUntil") \/ StartPoll \/ RunUntilReady \/ DropDriver
  \/ \E r \in {"ok", "panic", "pending", "cancelled"} : PollTask(r)
  \/ EndPoll \/ DropLocal

LocalSpec == LocalInit /\ [][LocalNext]_localVars
-----------------------------------------------------------------------------
\* A driver that sleeps has no local task to run: every task that can go on or
\* was aborted is one whose waker is about to take the stored waker (LocalState,
\* TaskWaker::wake, the swap at the end of poll_tasks).
LocalDriverIsWoken ==
  /\ driver # "none" /\ driverPc = "idle" /\ ~driverAwake
  /\ \E t \in LocalTasks : future[t] = "held" /\ t \in able \union localCancelled
  => run_waker = "current" /\ localWaking # {}

\* No task is lost or run twice: a spawned task is in the queues once, and its
\* join handle gets one result when its future is gone, also when the set is
\* dropped (poll_tasks, LocalJoin::poll and drop).
LocalTasksEndOnce ==
  /\ IsInjective(tasks \o taken)
  /\ \A t \in LocalTasks :
       /\ future[t] = "held" <=> t \in Range(tasks \o taken)
       /\ Len(localResult[t]) = IF future[t] = "gone" THEN 1 ELSE 0

\* Both: what the driver of a LocalSet owes its tasks.
LocalTasksAreRun == LocalDriverIsWoken /\ LocalTasksEndOnce
=============================================================================
