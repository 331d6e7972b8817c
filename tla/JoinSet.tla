------------------------------- MODULE JoinSet -------------------------------
(***************************************************************************)
(* JoinSet (task/join_set.rs): every task in the set has a tracker, a task *)
(* of the runtime or of a LocalSet, that awaits it and sends its result    *)
(* into the set's unbounded channel.  The channel and the join handles are *)
(* taken at their promises (modules Mpsc, Oneshot, TaskRuntime).           *)
(***************************************************************************)
EXTENDS Naturals, Sequences, FiniteSets, Functions

CONSTANT SetTasks

ASSUME JoinSetAssumption == IsFiniteSet(SetTasks)

VARIABLES setTask,         \* "none", "runs", "ended"
          aborted,         \* tasks asked to stop
          tracker,         \* of each task: "none", "runtime", "local", "ended", "lost"
          sent,            \* the set's channel, of tasks
          pending, abort_handles,
          joined, detached,  \* history: tasks returned, tasks let go
          set, local,      \* are the JoinSet and the LocalSet there
          setOp, setAwake, recv_waker  \* the task that uses the set

setTaskVars == <<setTask, aborted>>
setHandles == <<pending, abort_handles>>
setHistory == <<joined, detached>>
setThere == <<set, local>>
setUser == <<setOp, setAwake, recv_waker>>
setVars == <<setTaskVars, tracker, sent, setHandles, setHistory, setThere, setUser>>

JoinSetInit ==
  /\ setTask = [t \in SetTasks |-> "none"] /\ aborted = {}
  /\ tracker = [t \in SetTasks |-> "none"] /\ sent = <<>> /\ pending = 0 /\ abort_handles = <<>>
  /\ joined = {} /\ detached = {} /\ set = TRUE /\ local = TRUE
  /\ setOp = "none" /\ setAwake = TRUE /\ recv_waker = FALSE

\* spawn, spawn_on, spawn_blocking with insert; spawn_local with insert_local.
SpawnInSet(t, where) ==
  /\ set /\ setOp = "none" /\ setTask[t] = "none" /\ (where = "local" => local)
  /\ setTask' = [setTask EXCEPT ![t] = "runs"] /\ tracker' = [tracker EXCEPT ![t] = where]
  /\ pending' = pending + 1 /\ abort_handles' = Append(abort_handles, t)
  /\ UNCHANGED <<aborted, sent, setHistory, setThere, setUser>>

\* External: a task returns, panics, or is stopped because it was aborted.
TaskEnds(t) ==
  /\ setTask[t] = "runs" /\ (tracker[t] = "local" => local)
  /\ setTask' = [setTask EXCEPT ![t] = "ended"]
  /\ UNCHANGED <<aborted, tracker, sent, setHandles, setHistory, setThere, setUser>>

\* The AbortHandle that spawn returned.
AbortInSet(t) ==
  /\ setTask[t] = "runs" /\ t \notin aborted /\ aborted' = aborted \union {t}
  /\ UNCHANGED <<setTask, tracker, sent, setHandles, setHistory, setThere, setUser>>

\* track_task, or the tracker of insert_local.
Track(t) ==
  /\ setTask[t] = "ended" /\ tracker[t] \in {"runtime", "local"}
  /\ tracker[t] = "local" => local
  /\ tracker' = [tracker EXCEPT ![t] = "ended"]
  /\ IF set
     THEN /\ sent' = Append(sent, t)
          /\ setAwake' = (setAwake \/ recv_waker) /\ recv_waker' = FALSE
     ELSE UNCHANGED <<sent, setAwake, recv_waker>>
  /\ UNCHANGED <<setTaskVars, setHandles, setHistory, setThere, setOp>>

\* Drop for LocalSet: its tasks end cancelled, and the trackers among them go
\* too.
DropLocalSet ==
  /\ local /\ local' = FALSE
  /\ LET mine == {t \in SetTasks : tracker[t] = "local"} IN
     /\ tracker' = [t \in SetTasks |-> IF t \in mine THEN "lost" ELSE tracker[t]]
     /\ setTask' = [t \in SetTasks |-> IF t \in mine THEN "ended" ELSE setTask[t]]
  /\ UNCHANGED <<aborted, sent, setHandles, setHistory, set, setUser>>
-----------------------------------------------------------------------------
\* Mutant: the handle that swap_remove takes is always the first.
WithoutFirstHandle(t) == IF abort_handles = <<>> THEN <<>> ELSE Tail(abort_handles)

\* remove_abort_handle: swap_remove moves the last handle into the gap.
WithoutHandle(t) ==
  IF t \notin Range(abort_handles) THEN abort_handles
  ELSE LET i == CHOOSE i \in DOMAIN abort_handles : abort_handles[i] = t
           n == Len(abort_handles)
       IN SubSeq([abort_handles EXCEPT ![i] = abort_handles[n]], 1, n - 1)

\* A result is taken from the channel.
TakeResult ==
  /\ sent # <<>> /\ sent' = Tail(sent) /\ pending' = pending - 1
  /\ abort_handles' = WithoutHandle(Head(sent)) /\ joined' = joined \union {Head(sent)}

\* try_join_next_with_id.
TryJoinNext ==
  /\ set /\ setOp = "none" /\ pending # 0 /\ TakeResult
  /\ UNCHANGED <<setTaskVars, tracker, detached, setThere, setUser>>

\* abort_all.
AbortAll == aborted' = aborted \union {t \in Range(abort_handles) : setTask[t] = "runs"}

\* join_next and shutdown begin.
StartJoin(o) ==
  /\ set /\ setOp = "none" /\ setOp' = o /\ setAwake' = TRUE
  /\ (IF o = "shutdown" THEN AbortAll ELSE UNCHANGED aborted)
  /\ UNCHANGED <<setTask, tracker, sent, setHandles, setHistory, setThere, recv_waker>>

\* poll_join_next_with_id; shutdown goes on until there is nothing left.
PollJoinNext ==
  /\ setOp # "none" /\ UNCHANGED <<setTaskVars, tracker, detached, setThere>>
  /\ \/ /\ pending = 0 /\ setOp' = "none"
        /\ UNCHANGED <<sent, setHandles, joined, setAwake, recv_waker>>
     \/ /\ pending # 0 /\ TakeResult
        /\ setOp' = (IF setOp = "shutdown" THEN setOp ELSE "none")
        /\ UNCHANGED <<setAwake, recv_waker>>
     \/ /\ pending # 0 /\ sent = <<>> /\ setAwake' = FALSE /\ recv_waker' = TRUE
        /\ UNCHANGED <<sent, setHandles, joined, setOp>>

\* The future of join_next or of shutdown is dropped.
CancelJoin ==
  /\ setOp # "none" /\ setOp' = "none" /\ setAwake' = TRUE
  /\ UNCHANGED <<setTaskVars, tracker, sent, setHandles, setHistory, setThere, recv_waker>>

\* abort_all by itself.
CallAbortAll ==
  /\ set /\ setOp = "none" /\ AbortAll
  /\ UNCHANGED <<setTask, tracker, sent, setHandles, setHistory, setThere, setUser>>

\* detach_all.
DetachAll ==
  /\ set /\ setOp = "none"
  /\ detached' = detached \union Range(abort_handles) /\ abort_handles' = <<>>
  /\ UNCHANGED <<setTaskVars, tracker, sent, pending, joined, setThere, setUser>>

\* Drop for JoinSet.
DropJoinSet ==
  /\ set /\ setOp = "none" /\ set' = FALSE /\ AbortAll /\ sent' = <<>>
  /\ UNCHANGED <<setTask, tracker, setHandles, setHistory, local, setUser>>

JoinSetNext ==
  \/ \E t \in SetTasks :
       \/ SpawnInSet(t, "runtime") \/ SpawnInSet(t, "local")
       \/ TaskEnds(t) \/ AbortInSet(t) \/ Track(t)
  \/ StartJoin("join_next") \/ StartJoin("shutdown")
  \/ DropLocalSet \/ TryJoinNext \/ PollJoinNext \/ CancelJoin
  \/ CallAbortAll \/ DetachAll \/ DropJoinSet

JoinSetSpec == JoinSetInit /\ [][JoinSetNext]_setVars
-----------------------------------------------------------------------------
Inserted == {t \in SetTasks : setTask[t] # "none"}

\* The set knows its tasks exactly: pending counts those whose result was not
\* returned, each result is in the channel at most once and returned once, and
\* the abort handles are those of the tasks that were neither returned nor
\* detached, so that dropping the set leaves none of them running unasked
\* (insert, remove_abort_handle, Drop for JoinSet).
JoinSetCounts ==
  /\ pending = Cardinality(Inserted \ joined)
  /\ IsInjective(sent) /\ IsInjective(abort_handles) /\ Range(sent) \intersect joined = {}
  /\ set => Range(abort_handles) = (Inserted \ joined) \ detached
  /\ ~set => \A t \in Inserted \ (joined \union detached) :
               setTask[t] = "ended" \/ t \in aborted

\* Who waits in join_next is woken by the next result.
JoinNextIsWoken == setOp # "none" /\ ~setAwake => recv_waker /\ sent = <<>> /\ pending > 0

\* Both: what a JoinSet promises about its tasks.
JoinSetIsExact == JoinSetCounts /\ JoinNextIsWoken

\* A set that is not empty has a result that is still to come: join_next
\* completes when its tasks have ended (is_empty, join_next).  Not so once a
\* LocalSet was dropped with the trackers in it, which sent nothing; README.md
\* lists it among the observations.
PendingTasksCanBeJoined ==
  set /\ pending # 0 => sent # <<>> \/ \E t \in SetTasks : tracker[t] \in {"runtime", "local"}
=============================================================================
