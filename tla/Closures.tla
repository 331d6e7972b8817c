------------------------------- MODULE Closures ------------------------------
(***************************************************************************)
(* Closures handed to the C library: Task::submit (task/task.rs) and the   *)
(* queues (queue.rs).  The library's storage holds a raw pointer to a      *)
(* boxed closure; exec takes the box, destroy frees what exec did not.     *)
(* A Queue is shared by its clones; a QueueTaskHandle waits for one task   *)
(* or cancels it.                                                          *)
(***************************************************************************)
EXTENDS Naturals, FiniteSets

CONSTANTS Jobs, Clones  \* closures; handles to the queue

ClosuresAssumption == IsFiniteSet(Jobs) /\ IsFiniteSet(Clones)

VARIABLES closureVia,    \* how a job was submitted: "none", "task", "queue", "queue_h"
          job,           \* for the library: "none", "queued", "running", "ran", "cancelled", "destroyed"
          func_ptr,      \* in the storage: "null", "box", "freed"
          runs, frees,   \* history: how often a closure was called, its box freed
          closureOwned,  \* does the Queue own the library's queue
          clones,        \* the Queue handles that are held
          queue,         \* the library's queue: "open", "destroyed"
          handle,        \* a job's QueueTaskHandle: "none", "held", "waits", "dropped"
          said           \* what cancel returned, or that wait returned

closureVars == <<closureVia, job, func_ptr, runs, frees, closureOwned, clones, queue,
                 handle, said>>
qvars == <<closureOwned, clones, queue>>

ClosuresInit ==
  /\ closureVia = [j \in Jobs |-> "none"]
  /\ job = closureVia /\ handle = closureVia /\ said = closureVia
  /\ func_ptr = [j \in Jobs |-> "null"] /\ runs = [j \in Jobs |-> 0] /\ frees = runs
  /\ closureOwned \in BOOLEAN /\ clones \in (SUBSET Clones) \ {{}} /\ queue = "open"

Put(f, j, v) == [f EXCEPT ![j] = v]

\* prepare_task: the storage gets the boxed closure.
Prepared(j) == Put(func_ptr, j, "box")

\* submit, submit_h; Task::submit needs no queue.
Submit(j, how) ==
  /\ job[j] = "none" /\ (how # "task" => clones # {})
  /\ closureVia' = Put(closureVia, j, how) /\ job' = Put(job, j, "queued")
  /\ func_ptr' = Prepared(j)
  /\ handle' = IF how = "queue_h" THEN Put(handle, j, "held") ELSE handle
  /\ UNCHANGED <<runs, frees, qvars, said>>

\* task_exec, queue_task_exec: the box is taken and called.
ExecCall(j) ==
  /\ job[j] = "queued" /\ job' = Put(job, j, "running") /\ func_ptr[j] # "null"
  /\ runs' = Put(runs, j, runs[j] + 1) /\ frees' = Put(frees, j, frees[j] + 1)
  /\ func_ptr' = Put(func_ptr, j, "freed") /\ UNCHANGED <<closureVia, qvars, handle, said>>

\* Mutant: the pointer stays in the storage.
AfterExecKept(j) == func_ptr[j]

\* The pointer is cleared after the call.
AfterExec(j) == "null"

ExecReturn(j) ==
  /\ job[j] = "running" /\ job' = Put(job, j, "ran") /\ func_ptr' = Put(func_ptr, j, AfterExec(j))
  /\ UNCHANGED <<closureVia, runs, frees, qvars, handle, said>>

\* task_destroy, queue_task_destroy, called by the library for a job that ran
\* or was cancelled, or that a destroyed queue discards; a task may be discarded
\* at any time.
Destroy(j) ==
  /\ \/ job[j] \in {"ran", "cancelled"}
     \/ job[j] = "queued" /\ (closureVia[j] = "task" \/ queue = "destroyed")
  /\ job' = Put(job, j, "destroyed")
  /\ frees' = IF func_ptr[j] = "null" THEN frees ELSE Put(frees, j, frees[j] + 1)
  /\ func_ptr' = Put(func_ptr, j, "null") /\ UNCHANGED <<closureVia, runs, qvars, handle, said>>

\* QueueTaskHandle::cancel.  External: the library cancels what is queued.
CancelHandle(j) ==
  /\ handle[j] = "held"
  /\ IF job[j] = "queued" THEN job' = Put(job, j, "cancelled") /\ said' = Put(said, j, "cancelled")
     ELSE said' = (IF said[j] = "none" THEN Put(said, j, "refused") ELSE said) /\ UNCHANGED job
  /\ UNCHANGED <<closureVia, func_ptr, runs, frees, qvars, handle>>

\* QueueTaskHandle::wait, of a job that was not cancelled.
Wait(j) ==
  /\ handle[j] = "held" /\ said[j] # "cancelled" /\ handle' = Put(handle, j, "waits")
  /\ UNCHANGED <<closureVia, job, func_ptr, runs, frees, qvars, said>>

WaitReturns(j) ==
  /\ handle[j] = "waits" /\ job[j] \in {"ran", "destroyed"}
  /\ handle' = Put(handle, j, "held") /\ said' = Put(said, j, "waited")
  /\ UNCHANGED <<closureVia, job, func_ptr, runs, frees, qvars>>

DropHandle(j) ==
  /\ handle[j] = "held" /\ handle' = Put(handle, j, "dropped")
  /\ UNCHANGED <<closureVia, job, func_ptr, runs, frees, qvars, said>>

\* The derived Clone of Queue.
Clone(c) ==
  /\ clones # {} /\ c \notin clones /\ clones' = clones \union {c}
  /\ UNCHANGED <<closureVia, job, func_ptr, runs, frees, closureOwned, queue, handle, said>>

\* Drop for Queue, and for QueueInner with the last of them.
DropQueue(c) ==
  /\ c \in clones /\ clones' = clones \ {c}
  /\ queue' = IF clones' = {} /\ closureOwned THEN "destroyed" ELSE queue
  /\ UNCHANGED <<closureVia, job, func_ptr, runs, frees, closureOwned, handle, said>>

ClosuresNext ==
  \/ \E j \in Jobs : \/ Submit(j, "task") \/ Submit(j, "queue") \/ Submit(j, "queue_h")
                     \/ ExecCall(j) \/ ExecReturn(j) \/ Destroy(j)
                     \/ CancelHandle(j) \/ Wait(j) \/ WaitReturns(j) \/ DropHandle(j)
  \/ \E c \in Clones : Clone(c) \/ DropQueue(c)

ClosuresSpec == ClosuresInit /\ [][ClosuresNext]_closureVars
-----------------------------------------------------------------------------
\* A closure runs at most once and its box is freed exactly once, by exec or
\* by destroy, whatever of running, cancelling and the end of the queue comes
\* first; cancel says yes only of one that never runs, and wait returns only
\* after it ran or was discarded with an owned queue (queue_task_exec,
\* queue_task_destroy, QueueTaskHandle).
ClosuresRunOnce ==
  \A j \in Jobs :
    /\ runs[j] <= 1 /\ frees[j] <= 1
    /\ job[j] = "destroyed" => frees[j] = 1
    /\ said[j] = "cancelled" => runs[j] = 0
    /\ said[j] = "waited" => runs[j] = 1 \/ (closureOwned /\ clones = {})
=============================================================================
