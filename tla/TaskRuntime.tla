---------------------------- MODULE TaskRuntime ----------------------------
(***************************************************************************)
(* Spawned tasks (runtime/inner_runtime.rs, runtime/waker.rs and           *)
(* task/task.rs): the runner that polls a future on an FFRT worker, the    *)
(* blocking tasks, cancellation through abort handles, the JoinHandle with *)
(* its oneshot channel, and the process-wide count of active tasks.        *)
(*                                                                         *)
(* Runner, aborters, joiner and whatever the future waits for are separate *)
(* threads; each step is one atomic operation or one critical section.     *)
(* The futures themselves are arbitrary: a poll may be ready, panic or be  *)
(* pending, and a pending future may or may not be woken.                  *)
(***************************************************************************)
EXTENDS Integers, FiniteSets, TLC

CONSTANTS Tasks,    \* the spawned tasks
          Aborters  \* the threads that own AbortHandles

NoTask == "no task"

ASSUME TasksAssumption == IsFiniteSet(Tasks) /\ NoTask \notin Tasks

VARIABLES pc,         \* pc[t]: where the runner of t is
          kind,       \* kind[t]: "async" (spawn) or "blocking" (spawn_blocking)
          cancelled,  \* CancellationState.cancelled
          finished,   \* CancellationState.finished
          slot,       \* CancellationState.waker is Some
          woken,      \* WakerState.woken of the runner
          armed,      \* the future left a waker with what it waits for
          alive,      \* the future or closure has not been dropped
          output,     \* what the runner produced
          chan,       \* the oneshot channel between runner and JoinHandle
          handle,     \* the JoinHandle: "none", "held", "joining", "done", "dropped"
          joinWoken,  \* the task that awaits the handle was woken
          got,        \* what the JoinHandle returned
          active,     \* ACTIVE_TASKS
          holding,    \* holding[a]: the task a's AbortHandle belongs to
          aborting,   \* a stored cancelled and has not yet taken the waker
          late,       \* history: the polls of t's future that began after an abort
          fate        \* history: the Fate of t's first abort

runnerVars == <<pc, kind, finished, alive, output>>
wakeVars   == <<slot, woken, armed>>
joinVars   == <<chan, handle, joinWoken, got>>
abortVars  == <<holding, aborting>>
history == <<late, fate>>
vars == <<runnerVars, wakeVars, joinVars, abortVars, cancelled, active, history>>

Results == {"ok", "panic", "cancelled"}
PCs == {"none", "submitted", "check", "poll", "recheck", "wait", "blocked", "starting",
        "running", "finish", "count", "unhook", "send", "done", "destroyed"}

Over == {"finish", "count", "unhook", "send", "done"}
Heeded == {"submitted", "check", "recheck", "wait", "blocked"}
TooLate == {"starting", "running"} \cup Over

\* What becomes of an abort that finds the runner at p: it is heeded from the
\* submission to the next look at the flag, and comes too late once a closure is
\* past its only look or the result is fixed.  During a poll it depends on
\* whether that poll is the last.
Fate(p) == CASE p \in Heeded -> "heeded" [] p \in TooLate -> "late" [] OTHER -> "open"
Fates == {"never", "heeded", "late", "open"}

Channel == [value : Results \cup {"none"}, tx : BOOLEAN, rx : BOOLEAN, waker : BOOLEAN]

RunnerOK ==
  /\ pc \in [Tasks -> PCs]
  /\ kind \in [Tasks -> {"async", "blocking"}]
  /\ finished \in [Tasks -> BOOLEAN] /\ alive \in [Tasks -> BOOLEAN]
  /\ output \in [Tasks -> Results \cup {"none"}]
WakeOK ==
  slot \in [Tasks -> BOOLEAN] /\ woken \in [Tasks -> BOOLEAN] /\ armed \in [Tasks -> BOOLEAN]
JoinOK ==
  /\ chan \in [Tasks -> Channel]
  /\ handle \in [Tasks -> {"none", "held", "joining", "done", "dropped"}]
  /\ joinWoken \in [Tasks -> BOOLEAN]
  /\ got \in [Tasks -> Results \cup {"none", "closed"}]
AbortOK ==
  /\ holding \in [Aborters -> Tasks \cup {NoTask}]
  /\ aborting \in [Aborters -> BOOLEAN]
  /\ \A a \in Aborters : aborting[a] => holding[a] # NoTask
  /\ cancelled \in [Tasks -> BOOLEAN]
HistoryOK == late \in [Tasks -> Nat] /\ fate \in [Tasks -> Fates]
ShapeOK == RunnerOK /\ WakeOK /\ JoinOK /\ AbortOK /\ HistoryOK
TypeOK == ShapeOK /\ active \in Nat

AllFalse == [t \in Tasks |-> FALSE]

Init ==
  /\ pc = [t \in Tasks |-> "none"]
  /\ kind = [t \in Tasks |-> "async"]
  /\ cancelled = AllFalse /\ finished = AllFalse /\ slot = AllFalse
  /\ woken = AllFalse /\ armed = AllFalse /\ alive = AllFalse
  /\ output = [t \in Tasks |-> "none"] /\ got = [t \in Tasks |-> "none"]
  /\ chan = [t \in Tasks |-> [value |-> "none", tx |-> TRUE, rx |-> TRUE, waker |-> FALSE]]
  /\ handle = [t \in Tasks |-> "none"] /\ joinWoken = AllFalse
  /\ active = 0
  /\ holding = [a \in Aborters |-> NoTask] /\ aborting = [a \in Aborters |-> FALSE]
  /\ late = [t \in Tasks |-> 0] /\ fate = [t \in Tasks |-> "never"]

At(t, p) == pc[t] = p
Goto(t, p) == pc' = [pc EXCEPT ![t] = p]
Set(v, t, x) == [v EXCEPT ![t] = x]
-----------------------------------------------------------------------------
(* Spawning and the two kinds of runners.                                  *)

\* spawn_task and spawn_blocking_named: the state, the channel and the task.
Spawn(t, k) ==
  /\ At(t, "none")
  /\ Goto(t, "submitted")
  /\ kind' = Set(kind, t, k)
  /\ alive' = Set(alive, t, TRUE)
  /\ handle' = Set(handle, t, "held")
  /\ active' = active + 1
  /\ UNCHANGED <<finished, output, wakeVars, chan, joinWoken, got, abortVars,
                 cancelled, history>>

\* Mutant: the waker is not offered to abort.
StartUnregistered(t) ==
  /\ At(t, "submitted") /\ kind[t] = "async"
  /\ Goto(t, "check")
  /\ UNCHANGED <<kind, finished, alive, output, wakeVars, joinVars, abortVars,
                 cancelled, active, history>>

\* task_exec enters poll_once: a new WakerState, registered with the
\* cancellation state before the first check.
Start(t) ==
  /\ At(t, "submitted") /\ kind[t] = "async"
  /\ Goto(t, "check")
  /\ slot' = Set(slot, t, TRUE)
  /\ UNCHANGED <<kind, finished, alive, output, woken, armed, joinVars, abortVars,
                 cancelled, active, history>>

\* Mutant: the future outlives poll_once.
ReturnsAlive(t, r) ==
  /\ output' = Set(output, t, r)
  /\ Goto(t, "finish")
  /\ UNCHANGED alive

\* poll_once or the closure returns r; what it ran has been dropped.
Returns(t, r) ==
  /\ output' = Set(output, t, r)
  /\ alive' = Set(alive, t, FALSE)
  /\ Goto(t, "finish")

\* Mutant: the loop does not look at the flag.
CheckNothing(t) ==
  /\ pc[t] \in {"check", "recheck"}
  /\ Goto(t, IF At(t, "check") THEN "poll" ELSE "wait")
  /\ UNCHANGED <<kind, finished, alive, output, wakeVars, joinVars, abortVars,
                 cancelled, active, history>>

\* The two checks of the loop, before and after the poll.
Check(t) ==
  /\ pc[t] \in {"check", "recheck"}
  /\ \/ cancelled[t] /\ Returns(t, "cancelled")
     \/ /\ ~cancelled[t]
        /\ Goto(t, IF At(t, "check") THEN "poll" ELSE "wait")
        /\ UNCHANGED <<alive, output>>
  /\ UNCHANGED <<kind, finished, wakeVars, joinVars, abortVars, cancelled, active, history>>

\* One poll of the future.  A pending future has left its waker somewhere, or
\* woken itself (yield_now).
Poll(t) ==
  /\ At(t, "poll")
  /\ \/ \E r \in {"ok", "panic"} : Returns(t, r) /\ UNCHANGED <<woken, armed>>
     \/ /\ Goto(t, "recheck")
        /\ \/ armed' = Set(armed, t, TRUE) /\ UNCHANGED woken
           \/ woken' = Set(woken, t, TRUE) /\ UNCHANGED armed
        /\ UNCHANGED <<alive, output>>
  /\ late' = IF cancelled[t] THEN Set(late, t, late[t] + 1) ELSE late
  /\ UNCHANGED <<kind, finished, slot, joinVars, abortVars, cancelled, active, fate>>

\* WakerState::wait up to the condition variable.
Wait(t) ==
  /\ At(t, "wait")
  /\ Goto(t, IF woken[t] THEN "check" ELSE "blocked")
  /\ woken' = Set(woken, t, FALSE)
  /\ UNCHANGED <<kind, finished, alive, output, slot, armed, joinVars, abortVars,
                 cancelled, active, history>>

\* ffrt_cond_wait returns, because of a signal or spuriously, and the flag is
\* cleared.
Unblock(t) ==
  /\ At(t, "blocked")
  /\ Goto(t, "check")
  /\ woken' = Set(woken, t, FALSE)
  /\ UNCHANGED <<kind, finished, alive, output, slot, armed, joinVars, abortVars,
                 cancelled, active, history>>

\* WakerState::wake, called by what the future waits for.
WakeFuture(t) ==
  /\ armed[t]
  /\ armed' = Set(armed, t, FALSE)
  /\ woken' = Set(woken, t, TRUE)
  /\ UNCHANGED <<runnerVars, slot, joinVars, abortVars, cancelled, active, history>>

\* A blocking task looks at the flag once, before its closure.
StartBlocking(t) ==
  /\ At(t, "submitted") /\ kind[t] = "blocking"
  /\ \/ cancelled[t] /\ Returns(t, "cancelled")
     \/ ~cancelled[t] /\ Goto(t, "starting") /\ UNCHANGED <<alive, output>>
  /\ UNCHANGED <<kind, finished, wakeVars, joinVars, abortVars, cancelled, active, history>>

\* Then the closure is called, aborted in the meantime or not.
CallClosure(t) ==
  /\ At(t, "starting")
  /\ Goto(t, "running")
  /\ UNCHANGED <<kind, finished, alive, output, wakeVars, joinVars, abortVars, cancelled,
                 active, history>>

\* Mutant: an abort during the closure turns its result into a cancellation.
RunBlockingThenCheck(t) ==
  /\ At(t, "running")
  /\ \E r \in {"ok", "panic"} : Returns(t, IF cancelled[t] THEN "cancelled" ELSE r)
  /\ UNCHANGED <<kind, finished, wakeVars, joinVars, abortVars, cancelled, active, history>>

RunBlocking(t) ==
  /\ At(t, "running")
  /\ \E r \in {"ok", "panic"} : Returns(t, r)
  /\ UNCHANGED <<kind, finished, wakeVars, joinVars, abortVars, cancelled, active, history>>
-----------------------------------------------------------------------------
(* The end of a runner: finish, then the result is sent.                   *)

FinishFlag(t) ==
  /\ At(t, "finish")
  /\ Goto(t, "count")
  /\ finished' = Set(finished, t, TRUE)
  /\ UNCHANGED <<kind, alive, output, wakeVars, joinVars, abortVars, cancelled,
                 active, history>>

FinishCount(t) ==
  /\ At(t, "count")
  /\ Goto(t, "unhook")
  /\ active' = active - 1
  /\ UNCHANGED <<kind, finished, alive, output, wakeVars, joinVars, abortVars,
                 cancelled, history>>

FinishUnhook(t) ==
  /\ At(t, "unhook")
  /\ Goto(t, "send")
  /\ slot' = Set(slot, t, FALSE)
  /\ UNCHANGED <<kind, finished, alive, output, woken, armed, joinVars, abortVars,
                 cancelled, active, history>>

\* The receiver's waker, if there is one, is taken and called under the lock.
WakeJoiner(t) == joinWoken' = Set(joinWoken, t, joinWoken[t] \/ chan[t].waker)

\* Sender::send; without a receiver the value is dropped.
Send(t) ==
  /\ At(t, "send")
  /\ Goto(t, "done")
  /\ IF chan[t].rx
     THEN /\ chan' = [chan EXCEPT ![t].value = output[t], ![t].tx = FALSE,
                                  ![t].waker = FALSE]
          /\ WakeJoiner(t)
     ELSE UNCHANGED <<chan, joinWoken>>
  /\ UNCHANGED <<kind, finished, alive, output, wakeVars, handle, got, abortVars,
                 cancelled, active, history>>

\* Who holds a reference to t's CancellationState.
Referenced(t) ==
  \/ pc[t] \notin {"none", "done", "destroyed"}
  \/ handle[t] \in {"held", "joining", "done"}
  \/ \E a \in Aborters : holding[a] = t

\* Mutant: there is no Drop for CancellationState.
ReleaseNothing(t) == UNCHANGED active

\* CancellationState::drop, when a step gives up the last reference.
Release(t) ==
  active' = IF Referenced(t) /\ ~Referenced(t)' /\ ~finished[t] THEN active - 1
                                                                 ELSE active

\* task_destroy of a task that FFRT never ran: closure and sender are dropped.
Destroy(t) ==
  /\ At(t, "submitted")
  /\ Goto(t, "destroyed")
  /\ alive' = Set(alive, t, FALSE)
  /\ chan' = [chan EXCEPT ![t].tx = FALSE, ![t].waker = FALSE]
  /\ WakeJoiner(t)
  /\ UNCHANGED <<kind, finished, output, wakeVars, handle, got, abortVars, cancelled, history>>
  /\ Release(t)
-----------------------------------------------------------------------------
(* Abort handles and the join handle.                                      *)

\* JoinHandle::abort_handle.
TakeAbortHandle(a, t) ==
  /\ holding[a] = NoTask /\ handle[t] \in {"held", "joining", "done"}
  /\ holding' = [holding EXCEPT ![a] = t]
  /\ UNCHANGED <<runnerVars, wakeVars, joinVars, aborting, cancelled, active, history>>

\* abort, first half: the flag.
AbortStore(a) ==
  /\ holding[a] # NoTask /\ ~aborting[a]
  /\ cancelled' = Set(cancelled, holding[a], TRUE)
  /\ aborting' = [aborting EXCEPT ![a] = TRUE]
  /\ fate' = IF cancelled[holding[a]] THEN fate
              ELSE Set(fate, holding[a], Fate(pc[holding[a]]))
  /\ UNCHANGED <<runnerVars, wakeVars, joinVars, holding, active, late>>

\* abort, second half: the registered waker is taken and called.
AbortWake(a) ==
  /\ aborting[a]
  /\ LET t == holding[a] IN
     /\ woken' = Set(woken, t, woken[t] \/ slot[t])
     /\ slot' = Set(slot, t, FALSE)
  /\ aborting' = [aborting EXCEPT ![a] = FALSE]
  /\ UNCHANGED <<runnerVars, armed, joinVars, holding, cancelled, active, history>>

DropAbortHandle(a) ==
  \E t \in Tasks :
    /\ holding[a] = t /\ ~aborting[a]
    /\ holding' = [holding EXCEPT ![a] = NoTask]
    /\ UNCHANGED <<runnerVars, wakeVars, joinVars, aborting, cancelled, history>>
    /\ Release(t)

\* Mutant: the receiver looks for a dropped sender before it looks for a value.
PollJoinClosedFirst(t) ==
  /\ handle[t] \in {"held", "joining"}
  /\ joinWoken' = Set(joinWoken, t, FALSE)
  /\ \/ /\ chan[t].value # "none" \/ ~chan[t].tx
        /\ got' = Set(got, t, IF chan[t].tx THEN chan[t].value ELSE "closed")
        /\ handle' = Set(handle, t, "done")
        /\ chan' = [chan EXCEPT ![t].value = "none"]
     \/ /\ chan[t].value = "none" /\ chan[t].tx
        /\ chan' = [chan EXCEPT ![t].waker = TRUE]
        /\ handle' = Set(handle, t, "joining")
        /\ UNCHANGED got
  /\ UNCHANGED <<runnerVars, wakeVars, abortVars, cancelled, active, history>>

\* Polling the JoinHandle or JoinFuture, which polls the oneshot receiver.
PollJoin(t) ==
  /\ handle[t] \in {"held", "joining"}
  /\ joinWoken' = Set(joinWoken, t, FALSE)
  /\ \/ /\ chan[t].value # "none" \/ ~chan[t].tx
        /\ got' = Set(got, t, IF chan[t].value # "none" THEN chan[t].value ELSE "closed")
        /\ handle' = Set(handle, t, "done")
        /\ chan' = [chan EXCEPT ![t].value = "none"]
     \/ /\ chan[t].value = "none" /\ chan[t].tx
        /\ chan' = [chan EXCEPT ![t].waker = TRUE]
        /\ handle' = Set(handle, t, "joining")
        /\ UNCHANGED got
  /\ UNCHANGED <<runnerVars, wakeVars, abortVars, cancelled, active, history>>

\* Dropping the JoinHandle detaches the task; one that returned its result has
\* already given up the channel.
DropHandle(t) ==
  /\ handle[t] \in {"held", "joining", "done"}
  /\ handle' = Set(handle, t, "dropped")
  /\ chan' = [chan EXCEPT ![t].rx = handle[t] = "done"]
  /\ UNCHANGED <<runnerVars, wakeVars, joinWoken, got, abortVars, cancelled, history>>
  /\ Release(t)

RunnerStep(t) ==
  \/ Start(t) \/ Check(t) \/ Poll(t) \/ Wait(t) \/ StartBlocking(t) \/ CallClosure(t)
  \/ RunBlocking(t) \/ FinishFlag(t) \/ FinishCount(t) \/ FinishUnhook(t) \/ Send(t)

Next ==
  \/ \E t \in Tasks :
       \/ \E k \in {"async", "blocking"} : Spawn(t, k)
       \/ RunnerStep(t) \/ Unblock(t) \/ WakeFuture(t) \/ Destroy(t)
       \/ PollJoin(t) \/ DropHandle(t)
  \/ \E a \in Aborters :
       \/ \E t \in Tasks : TakeAbortHandle(a, t)
       \/ AbortStore(a) \/ AbortWake(a) \/ DropAbortHandle(a)

Spec == Init /\ [][Next]_vars

\* FFRT runs submitted tasks and lets their threads proceed; a thread blocked
\* in cond_wait returns if it was signalled; abort calls and woken joiners go
\* on.  What the futures wait for may never happen.
Fairness ==
  /\ \A t \in Tasks :
       /\ WF_vars(RunnerStep(t))
       /\ WF_vars(woken[t] /\ Unblock(t))
       /\ WF_vars(joinWoken[t] /\ PollJoin(t))
  /\ \A a \in Aborters : WF_vars(AbortWake(a))

FairSpec == Spec /\ Fairness
-----------------------------------------------------------------------------
(* Properties.                                                             *)

Ended(t) == pc[t] \in {"done", "destroyed"}

\* "Returns true once the task has stopped and its future was dropped": when
\* is_finished holds, and also when the JoinHandle has returned, the future
\* and everything it owned are gone and is_finished agrees with the result.
FinishedMeansDropped ==
  \A t \in Tasks :
    /\ finished[t] => ~alive[t]
    /\ got[t] # "none" => ~alive[t]
    /\ got[t] \in Results => finished[t]

\* The JoinHandle returns what the runner produced.  A task is reported as
\* cancelled only if it was aborted, and a task that panicked or completed
\* never is, however late the abort came.
ResultIsFaithful ==
  \A t \in Tasks :
    /\ got[t] \in Results => got[t] = output[t]
    /\ got[t] = "closed" => At(t, "destroyed")
    /\ output[t] = "cancelled" => cancelled[t]

\* "Async tasks stop at the next poll boundary": at most the poll that was
\* already decided starts after an abort.
StopsAtPollBoundary == \A t \in Tasks : late[t] <= 1

\* Whether a task is reported as cancelled depends on where its runner was when
\* the first abort came.  "Blocking work can only be cancelled before it starts.
\* Once the closure begins, abort has no effect": an abort that finds the task
\* queued prevents the closure, and one that falls between the look at the flag
\* and the closure, or later, leaves the result as it is.  An async task that is
\* aborted while it waits or is queued ends cancelled, whatever wakes it.
AbortDecides ==
  \A t \in Tasks : got[t] \in Results =>
    /\ fate[t] = "heeded" => got[t] = "cancelled"
    /\ fate[t] \in {"never", "late"} => got[t] # "cancelled"

Counted ==
  {t \in Tasks :
     \/ pc[t] \notin {"none", "unhook", "send", "done", "destroyed"}
     \/ At(t, "destroyed") /\ Referenced(t)}

\* ACTIVE_TASKS counts the tasks that have neither finished nor been dropped
\* unexecuted, each exactly once.
ActiveTasksCounted ==
  active = Cardinality(Counted)

\* What is true of t at each point of its runner: the conjuncts of the
\* inductive invariant.
TaskInv(t) ==
  /\ finished[t] <=> pc[t] \in {"count", "unhook", "send", "done"}
  /\ alive[t] <=> pc[t] \in PCs \ (Over \cup {"none", "destroyed"})
  /\ output[t] # "none" <=> pc[t] \in Over
  /\ output[t] = "cancelled" => cancelled[t]
  /\ chan[t].value \in {"none", output[t]}
  /\ ~chan[t].tx => Ended(t)
  /\ chan[t].value # "none" => At(t, "done")
  /\ At(t, "none") => handle[t] = "none"
  /\ handle[t] \in {"none", "held", "joining"} => chan[t].rx
  /\ At(t, "done") /\ handle[t] \in {"held", "joining"} => chan[t].value = output[t]
  /\ got[t] \in Results => got[t] = output[t] /\ At(t, "done")
  /\ got[t] = "closed" => At(t, "destroyed")
  /\ late[t] \in {0, 1}
  /\ late[t] = 1 => cancelled[t] /\ pc[t] \in Over \cup {"recheck"}
AbortInv(t) ==
  /\ fate[t] = "never" <=> ~cancelled[t]
  /\ fate[t] = "heeded" => pc[t] \in Heeded \cup {"destroyed"} \/ output[t] = "cancelled"
  /\ fate[t] = "late" => pc[t] \in TooLate /\ output[t] # "cancelled"
IInv ==
  /\ TypeOK
  /\ \A t \in Tasks : TaskInv(t) /\ AbortInv(t)
  /\ \A a \in Aborters : holding[a] \in Tasks => ~At(holding[a], "none")
  /\ ActiveTasksCounted

\* An aborted task comes to an end even if nothing ever wakes its future: no
\* interleaving of abort with registration, checks and waiting loses the abort.
AbortedTasksEnd ==
  \A t \in Tasks : cancelled[t] /\ kind[t] = "async" ~> Ended(t)

\* Whoever awaits the handle of a task that ended gets the result.
JoinersAreWoken ==
  \A t \in Tasks : Ended(t) /\ handle[t] = "joining" ~> handle[t] # "joining"
=============================================================================
