------------------------------- MODULE Wakers -------------------------------
(***************************************************************************)
(* The part of Rust's task machinery that every asynchronous primitive of  *)
(* the crate relies on.  A future is polled by some task and leaves a      *)
(* clone of that task's waker behind; whoever satisfies the future takes   *)
(* the waker out under the primitive's lock and calls it only after the    *)
(* lock has been released, so a thread may be descheduled between the two. *)
(*                                                                         *)
(* A future can be moved between tasks (select!, JoinSet, spawn), and a    *)
(* waker of a task that no longer polls the future does not bring it any   *)
(* further: a wake-up counts only if it reaches the task that polled the   *)
(* future last.                                                            *)
(***************************************************************************)
EXTENDS Naturals, Sequences, FiniteSets

CONSTANTS Futures,  \* the futures, each with the thread that drives or drops it
          Tasks     \* the tasks a future may be polled from

ASSUME WakersAssumption == Tasks # {}

VARIABLES task,     \* task[f]: the task that polled f last
          woken,    \* woken[f]: that task was woken and will poll f again
          toWake    \* toWake[f]: wakers f's thread took out and has yet to call

wakerVars == <<task, woken, toWake>>

Waker == [future : Futures, task : Tasks]

WakersTypeOK ==
  /\ task \in [Futures -> Tasks]
  /\ woken \in [Futures -> BOOLEAN]
  /\ toWake \in [Futures -> SUBSET Waker]

WakersInit ==
  /\ task \in [Futures -> Tasks]
  /\ woken = [f \in Futures |-> FALSE]
  /\ toWake = [f \in Futures |-> {}]

WakerOf(f, t) == [future |-> f, task |-> t]

\* f's thread is not in the middle of waking others: it can start a new call.
Running(f) == toWake[f] = {}

\* f is polled from task t; the wake-up that led to the poll is used up.
PolledFrom(f, t) ==
  /\ task' = [task EXCEPT ![f] = t]
  /\ woken' = [woken EXCEPT ![f] = FALSE]

\* f's thread leaves its critical section with the wakers ws still to call.
TakeWakers(f, ws) == toWake' = [toWake EXCEPT ![f] = ws]

\* f's thread calls one of the wakers it took out.
FireWake(f) ==
  \E w \in toWake[f] :
    /\ toWake' = [toWake EXCEPT ![f] = @ \ {w}]
    /\ woken' = [woken EXCEPT ![w.future] = @ \/ w.task = task[w.future]]
    /\ UNCHANGED task

\* A poll of f is certain to follow: its task was woken or is about to be.
WillBePolled(f) ==
  woken[f] \/ \E g \in Futures : WakerOf(f, task[f]) \in toWake[g]
=============================================================================
