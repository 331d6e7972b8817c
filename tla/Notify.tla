------------------------------- MODULE Notify -------------------------------
(***************************************************************************)
(* The notification primitive (sync/notify.rs): a stored permit, a         *)
(* generation that notify_waiters advances and a queue of waiters.  Every  *)
(* critical section is one step; the wakers it took out are called in      *)
(* later steps.                                                            *)
(*                                                                         *)
(* Each f in Listeners is a thread that creates Notified futures, one after*)
(* the other, and that may notify unless it sleeps.  A waiter's Weak       *)
(* reference always upgrades, since a future removes its waiter when it is *)
(* dropped.                                                                *)
(***************************************************************************)
EXTENDS Naturals, Sequences, Functions

CONSTANTS Listeners, Pollers,  \* the futures, and the tasks that may poll them
          Noop,                \* the task of Waker::noop()
          MaxGeneration        \* bound on the calls of notify_waiters

ASSUME NotifyAssumption == Noop \notin Pollers /\ MaxGeneration \in Nat

VARIABLES permit,            \* NotifyState.permit
          notifyGeneration,  \* NotifyState.generation
          notifyWaiters,     \* NotifyState.waiters
          notified,          \* notified[f]: FutureState.notified
          created,           \* created[f]: FutureState.generation
          notifySt,          \* "idle", "live" or "ready", its last poll's result
          parked,            \* parked[f]: f's task polled it and went to sleep
          notifyDue,         \* history: notify_waiters was called after f was created
          owed,              \* history: a notify_one that no future has consumed
          notifyTask, notifyWoken, notifyToWake  \* Wakers

Wk == INSTANCE Wakers
        WITH Futures <- Listeners, Tasks <- Pollers, task <- notifyTask,
             woken <- notifyWoken, toWake <- notifyToWake

notifyWakers == <<notifyTask, notifyWoken, notifyToWake>>
notifyState == <<permit, notifyGeneration, notifyWaiters, notified, created>>
notifyVars == <<notifyState, notifySt, parked, notifyDue, owed, notifyWakers>>

Marks == {"WAITING", "ONE", "ALL", "CONSUMED"}

NotifyTypeOK ==
  /\ permit \in BOOLEAN
  /\ notifyGeneration \in Nat
  /\ notifyWaiters \in Seq([future : Listeners, task : Pollers \cup {Noop}])
  /\ notified \in [Listeners -> Marks]
  /\ created \in [Listeners -> Nat]
  /\ notifySt \in [Listeners -> {"idle", "live", "ready"}]
  /\ parked \in [Listeners -> BOOLEAN]
  /\ notifyDue \in [Listeners -> BOOLEAN]
  /\ owed \in BOOLEAN
  /\ Wk!WakersTypeOK

NotifyInit ==
  /\ permit = FALSE /\ notifyGeneration = 0 /\ notifyWaiters = <<>>
  /\ notified = [f \in Listeners |-> "CONSUMED"]
  /\ created = [f \in Listeners |-> 0]
  /\ notifySt = [f \in Listeners |-> "idle"]
  /\ parked = [f \in Listeners |-> FALSE]
  /\ notifyDue = [f \in Listeners |-> FALSE]
  /\ owed = FALSE
  /\ Wk!WakersInit
-----------------------------------------------------------------------------
InQueue(f) == \E i \in DOMAIN notifyWaiters : notifyWaiters[i].future = f

\* Calling Waker::noop() has no effect.
Callable(ws) == {w \in ws : w.task # Noop}

\* remove_waiter: f's waiter, of which there is at most one, leaves the queue.
WithoutWaiter(f, q) ==
  IF \A i \in DOMAIN q : q[i].future # f THEN q
  ELSE LET i == CHOOSE i \in DOMAIN q : q[i].future = f
       IN SubSeq(q, 1, i - 1) \o SubSeq(q, i + 1, Len(q))

\* notify_locked, called by f's thread when the queue is q.
NotifyLocked(f, last, q) ==
  \/ /\ q # <<>>
     /\ LET w == IF last THEN q[Len(q)] ELSE Head(q) IN
        /\ notified' = [notified EXCEPT ![w.future] = "ONE"]
        /\ Wk!TakeWakers(f, Callable({w}))
     /\ notifyWaiters' = IF last THEN SubSeq(q, 1, Len(q) - 1) ELSE Tail(q)
     /\ UNCHANGED permit
  \/ /\ q = <<>>
     /\ permit' = TRUE
     /\ notifyWaiters' = q
     /\ UNCHANGED <<notified, notifyToWake>>

\* notify_one and notify_last.
NotifyOne(f, last) ==
  /\ Wk!Running(f) /\ ~parked[f]
  /\ NotifyLocked(f, last, notifyWaiters)
  /\ owed' = TRUE
  /\ UNCHANGED <<notifyGeneration, created, notifySt, parked, notifyDue, notifyTask, notifyWoken>>

\* notify_waiters.
NotifyWaiters(f) ==
  /\ Wk!Running(f) /\ ~parked[f] /\ notifyGeneration < MaxGeneration
  /\ notifyGeneration' = notifyGeneration + 1
  /\ notified' = [g \in Listeners |-> IF InQueue(g) THEN "ALL" ELSE notified[g]]
  /\ Wk!TakeWakers(f, Callable(Range(notifyWaiters)))
  /\ notifyWaiters' = <<>>
  /\ notifyDue' = [g \in Listeners |-> notifyDue[g] \/ notifySt[g] = "live"]
  /\ UNCHANGED <<permit, created, notifySt, parked, owed, notifyTask, notifyWoken>>

\* notified and notified_owned.
Notified(f) ==
  /\ Wk!Running(f) /\ notifySt[f] = "idle"
  /\ notifySt' = [notifySt EXCEPT ![f] = "live"]
  /\ notified' = [notified EXCEPT ![f] = "WAITING"]
  /\ created' = [created EXCEPT ![f] = notifyGeneration]
  /\ UNCHANGED <<permit, notifyGeneration, notifyWaiters, parked, notifyDue, owed, notifyWakers>>

\* f has been notified, or notify_waiters was called since it was created.
Satisfied(f) == notified[f] # "WAITING" \/ created[f] # notifyGeneration

\* poll_notified when it is ready.
Consume(f) ==
  /\ Satisfied(f) \/ permit
  /\ permit' = (permit /\ Satisfied(f))
  /\ notifyWaiters' = WithoutWaiter(f, notifyWaiters)
  /\ notified' = [notified EXCEPT ![f] = "CONSUMED"]
  /\ notifySt' = [notifySt EXCEPT ![f] = "ready"]
  /\ owed' = (owed /\ notified[f] # "ONE" /\ (Satisfied(f) \/ ~permit))

\* poll_notified when it is pending; t is the polling task, or Noop when
\* enable is called, which keeps a waker stored before.
Stay(f, t) ==
  /\ ~Satisfied(f) /\ ~permit
  /\ IF InQueue(f)
     THEN notifyWaiters' = [i \in DOMAIN notifyWaiters |->
                        IF notifyWaiters[i].future = f /\ t # Noop THEN Wk!WakerOf(f, t)
                                                             ELSE notifyWaiters[i]]
     ELSE notifyWaiters' = Append(notifyWaiters, Wk!WakerOf(f, t))
  /\ UNCHANGED <<permit, notified, notifySt, owed>>

\* Notified::poll and OwnedNotified::poll.
PollNotified(f, t) ==
  /\ Wk!Running(f) /\ notifySt[f] # "idle"
  /\ \/ Consume(f) /\ parked' = [parked EXCEPT ![f] = FALSE]
     \/ Stay(f, t) /\ parked' = [parked EXCEPT ![f] = TRUE]
  /\ Wk!PolledFrom(f, t)
  /\ UNCHANGED <<notifyGeneration, created, notifyDue, notifyToWake>>

\* enable, called by the task that owns f while it runs; no waker is left, and
\* one left by an earlier poll is kept.
Enable(f) ==
  /\ Wk!Running(f) /\ notifySt[f] # "idle"
  /\ \/ Consume(f) /\ parked' = [parked EXCEPT ![f] = FALSE]
     \/ Stay(f, Noop) /\ UNCHANGED parked
  /\ UNCHANGED <<notifyGeneration, created, notifyDue, notifyWakers>>

\* Mutant: a dropped future keeps the notification it was chosen for.
CancelNotifiedSilently(f) ==
  /\ Wk!Running(f) /\ notifySt[f] # "idle"
  /\ notifyWaiters' = WithoutWaiter(f, notifyWaiters)
  /\ notifySt' = [notifySt EXCEPT ![f] = "idle"]
  /\ parked' = [parked EXCEPT ![f] = FALSE]
  /\ created' = [created EXCEPT ![f] = 0] /\ notifyDue' = [notifyDue EXCEPT ![f] = FALSE]
  /\ UNCHANGED <<permit, notified, notifyGeneration, owed, notifyWakers>>

\* cancel: a future is dropped, and passes on what notify_one gave it.
CancelNotified(f) ==
  /\ Wk!Running(f) /\ notifySt[f] # "idle"
  /\ \/ notified[f] = "ONE" /\ NotifyLocked(f, FALSE, WithoutWaiter(f, notifyWaiters))
     \/ /\ notified[f] # "ONE"
        /\ notifyWaiters' = WithoutWaiter(f, notifyWaiters)
        /\ UNCHANGED <<permit, notified, notifyToWake>>
  /\ notifySt' = [notifySt EXCEPT ![f] = "idle"]
  /\ parked' = [parked EXCEPT ![f] = FALSE]
  /\ created' = [created EXCEPT ![f] = 0] /\ notifyDue' = [notifyDue EXCEPT ![f] = FALSE]
  /\ UNCHANGED <<notifyGeneration, owed, notifyTask, notifyWoken>>

FireNotify(f) ==
  Wk!FireWake(f) /\ UNCHANGED <<notifyState, notifySt, parked, notifyDue, owed>>

NotifyNext ==
  \E f \in Listeners :
    \/ Notified(f) \/ Enable(f) \/ CancelNotified(f) \/ NotifyWaiters(f) \/ FireNotify(f)
    \/ \E last \in BOOLEAN : NotifyOne(f, last)
    \/ \E t \in Pollers : PollNotified(f, t)

NotifySpec == NotifyInit /\ [][NotifyNext]_notifyVars

-----------------------------------------------------------------------------
(* Properties.                                                             *)

\* "Notifies every future created before this call, including unpolled ones":
\* a future that existed at a notify_waiters is ready at its next poll,
\* whether or not it had been polled, enabled or chosen by notify_one.
NotifyWaitersReachesAll ==
  \A f \in Listeners : notifySt[f] = "live" /\ notifyDue[f] => Satisfied(f)

\* "A selected notify_one permit belongs to the queue until consumed": as long
\* as no future consumed a notify_one, the permit is stored or a future that
\* still exists carries it, through any sequence of drops and hand-overs.
NotifyOneIsKept ==
  owed => permit \/ \E f \in Listeners : notifySt[f] = "live" /\ notified[f] = "ONE"

\* A sleeping future that would be ready is going to be polled, and no permit
\* is stored while a future waits in the queue.
NotifiedAreWoken ==
  /\ \A f \in Listeners : parked[f] /\ (Satisfied(f) \/ permit) => Wk!WillBePolled(f)
  /\ permit => notifyWaiters = <<>>

\* All three: what Notify promises.
NoLostNotification == NotifyOneIsKept /\ NotifyWaitersReachesAll /\ NotifiedAreWoken
=============================================================================
