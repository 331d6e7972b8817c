------------------------------- MODULE Watch --------------------------------
(***************************************************************************)
(* The watch channel (sync/watch.rs): receivers observe the latest value.  *)
(* Every operation is one critical section in which the wakers are called  *)
(* as well.  A poll that stays pending registers its waker anew, so a      *)
(* future that moves between tasks is always registered for the last one,  *)
(* and a waker is known by the handle whose future it wakes.               *)
(*                                                                         *)
(* A borrowed Ref keeps the lock, and is modelled by the look it starts    *)
(* with: nothing happens to the channel before it is dropped.              *)
(***************************************************************************)
EXTENDS Integers, FiniteSets

CONSTANTS Senders,     \* handles that may be Sender
          Receivers,   \* handles that may be Receiver
          Values,      \* the values sent
          Wanted,      \* the values the predicate of wait_for accepts
          Width,       \* versions are counted modulo Width
          MaxVersion   \* bound on the number of new versions

\* What the constants are expected to be.
ASSUME WatchAssumption ==
  /\ IsFiniteSet(Senders) /\ IsFiniteSet(Receivers) /\ Senders \cap Receivers = {}
  /\ Wanted \subseteq Values /\ Width \in Nat /\ MaxVersion \in 0..(Width - 2)

VARIABLES value, version, senders, receivers,  \* WatchState
          waiters,        \* handles whose waker is registered in waiters
          closedWaiters,  \* and in closed_waiters
          seen,           \* seen[r] of Receiver
          rop,    \* rop[r]: "none" (no handle), "idle", or the pending future
          sop,    \* sop[s]: the same for Sender
          awake,  \* handles whose future is new or was woken
          unseen  \* history: receivers that have a value to look at, because one
                  \* was sent since they last looked or they marked it so

watchVars == <<value, version, senders, receivers, waiters, closedWaiters, seen, rop, sop,
               awake, unseen>>

Live == {r \in Receivers : rop[r] # "none"}
LiveSenders == {s \in Senders : sop[s] # "none"}

WatchTypeOK ==
  /\ value \in Values /\ version \in 0..(Width - 1) /\ senders \in Nat /\ receivers \in Nat
  /\ waiters \subseteq Receivers /\ closedWaiters \subseteq Senders
  /\ seen \in [Receivers -> 0..(Width - 1)]
  /\ rop \in [Receivers -> {"none", "idle", "changed", "wait_for"}]
  /\ sop \in [Senders -> {"none", "idle", "closed"}]
  /\ awake \subseteq Receivers \cup Senders /\ unseen \subseteq Receivers

\* channel, with one receiver, or Sender::new, with none.
WatchInit ==
  /\ value \in Values /\ version = 0 /\ senders = 1
  /\ waiters = {} /\ closedWaiters = {} /\ awake = {} /\ unseen = {}
  /\ seen = [r \in Receivers |-> 0]
  /\ \E s \in Senders : sop = [t \in Senders |-> IF t = s THEN "idle" ELSE "none"]
  /\ \E R \in SUBSET Receivers :
       /\ Cardinality(R) <= 1 /\ receivers = Cardinality(R)
       /\ rop = [r \in Receivers |-> IF r \in R THEN "idle" ELSE "none"]
-----------------------------------------------------------------------------
(* The sending side.                                                       *)

\* The value is replaced, its version counted and every waiter woken.
Publish(v) ==
  /\ version < MaxVersion
  /\ value' = v
  /\ version' = (version + 1) % Width
  /\ awake' = awake \cup {r \in waiters : rop[r] \notin {"none", "idle"}}
  /\ waiters' = {}
  /\ unseen' = unseen \cup Live
  /\ UNCHANGED <<senders, receivers, closedWaiters, seen, rop, sop>>

\* send; it fails if there are no receivers.
Send(s, v) == sop[s] = "idle" /\ receivers > 0 /\ Publish(v)

\* send_replace, send_modify, broadcast and send_if_modified, which do not look
\* at the receivers; a send_if_modified that returns FALSE left the value alone.
SendAnyway(s, v) == sop[s] = "idle" /\ Publish(v)

\* Mutant: a new receiver has seen nothing yet.
SubscribeUnseen(s, r) ==
  /\ sop[s] = "idle" /\ rop[r] = "none"
  /\ rop' = [rop EXCEPT ![r] = "idle"]
  /\ receivers' = receivers + 1
  /\ seen' = [seen EXCEPT ![r] = 0]
  /\ UNCHANGED <<value, version, senders, waiters, closedWaiters, sop, awake, unseen>>

\* subscribe.
Subscribe(s, r) ==
  /\ sop[s] = "idle" /\ rop[r] = "none"
  /\ rop' = [rop EXCEPT ![r] = "idle"]
  /\ receivers' = receivers + 1
  /\ seen' = [seen EXCEPT ![r] = version]
  /\ UNCHANGED <<value, version, senders, waiters, closedWaiters, sop, awake, unseen>>

\* Clone for Sender.
CloneSender(s, t) ==
  /\ sop[s] # "none" /\ sop[t] = "none"
  /\ sop' = [sop EXCEPT ![t] = "idle"]
  /\ senders' = senders + 1
  /\ UNCHANGED <<value, version, receivers, waiters, closedWaiters, seen, rop, awake, unseen>>

\* Drop for Sender; the last one wakes every waiter.
DropSender(s) ==
  /\ sop[s] = "idle"
  /\ sop' = [sop EXCEPT ![s] = "none"]
  /\ senders' = senders - 1
  /\ IF senders' = 0
     THEN /\ awake' = awake \cup {r \in waiters : rop[r] \notin {"none", "idle"}}
          /\ waiters' = {}
     ELSE UNCHANGED <<awake, waiters>>
  /\ UNCHANGED <<value, version, receivers, closedWaiters, seen, rop, unseen>>

\* closed creates a future.
AwaitClosed(s) ==
  /\ sop[s] = "idle"
  /\ sop' = [sop EXCEPT ![s] = "closed"]
  /\ awake' = awake \cup {s}
  /\ UNCHANGED <<value, version, senders, receivers, waiters, closedWaiters, seen, rop, unseen>>

\* Closed::poll.
PollClosed(s) ==
  /\ sop[s] = "closed"
  /\ awake' = awake \ {s}
  /\ \/ receivers = 0 /\ sop' = [sop EXCEPT ![s] = "idle"] /\ UNCHANGED closedWaiters
     \/ receivers > 0 /\ closedWaiters' = closedWaiters \cup {s} /\ UNCHANGED sop
  /\ UNCHANGED <<value, version, senders, receivers, waiters, seen, rop, unseen>>

\* The Closed future is dropped; its waker stays registered.
AbandonClosed(s) ==
  /\ sop[s] = "closed"
  /\ sop' = [sop EXCEPT ![s] = "idle"]
  /\ awake' = awake \ {s}
  /\ UNCHANGED <<value, version, senders, receivers, waiters, closedWaiters, seen, rop, unseen>>
-----------------------------------------------------------------------------
(* The receiving side.                                                     *)

\* The receiver looks at the current version; o is its operation afterwards.
Look(r, o) ==
  /\ seen' = [seen EXCEPT ![r] = version]
  /\ unseen' = unseen \ {r}
  /\ rop' = [rop EXCEPT ![r] = o]
  /\ awake' = awake \ {r}

\* borrow_and_update, borrow_and_update_version, mark_seen and mark_unchanged.
Update(r) ==
  /\ rop[r] = "idle"
  /\ Look(r, "idle")
  /\ UNCHANGED <<value, version, senders, receivers, waiters, closedWaiters, sop>>

\* mark_changed.
MarkChanged(r) ==
  /\ rop[r] = "idle"
  /\ seen' = [seen EXCEPT ![r] = (version - 1) % Width]
  /\ unseen' = unseen \cup {r}
  /\ UNCHANGED <<value, version, senders, receivers, waiters, closedWaiters, rop, sop, awake>>

\* changed and wait_for create futures.
Await(r, o) ==
  /\ rop[r] = "idle"
  /\ rop' = [rop EXCEPT ![r] = o]
  /\ awake' = awake \cup {r}
  /\ UNCHANGED <<value, version, senders, receivers, waiters, closedWaiters, seen, sop, unseen>>

\* Whether a poll of r's future finds what it waits for.
Found(r) == IF rop[r] = "wait_for" THEN value \in Wanted ELSE version # seen[r]

\* Changed::poll and WaitFor::poll: Ok, RecvError or pending.
PollReceiver(r) ==
  /\ rop[r] \in {"changed", "wait_for"}
  /\ \/ Found(r) /\ Look(r, "idle") /\ UNCHANGED waiters
     \/ /\ ~Found(r) /\ senders = 0
        /\ rop' = [rop EXCEPT ![r] = "idle"] /\ awake' = awake \ {r}
        /\ UNCHANGED <<waiters, seen, unseen>>
     \/ /\ ~Found(r) /\ senders > 0
        /\ waiters' = waiters \cup {r} /\ awake' = awake \ {r}
        /\ UNCHANGED <<rop, seen, unseen>>
  /\ UNCHANGED <<value, version, senders, receivers, closedWaiters, sop>>

\* The future is dropped; its waker stays registered.
AbandonReceiver(r) ==
  /\ rop[r] \in {"changed", "wait_for"}
  /\ rop' = [rop EXCEPT ![r] = "idle"]
  /\ awake' = awake \ {r}
  /\ UNCHANGED <<value, version, senders, receivers, waiters, closedWaiters, seen, sop, unseen>>

\* Clone for Receiver: the clone has seen what the original has.
CloneReceiver(r, q) ==
  /\ rop[r] = "idle" /\ rop[q] = "none"
  /\ rop' = [rop EXCEPT ![q] = "idle"]
  /\ receivers' = receivers + 1
  /\ seen' = [seen EXCEPT ![q] = seen[r]]
  /\ unseen' = IF r \in unseen THEN unseen \cup {q} ELSE unseen
  /\ UNCHANGED <<value, version, senders, waiters, closedWaiters, sop, awake>>

\* Drop for Receiver; the last one wakes whoever awaits closed.
DropReceiver(r) ==
  /\ rop[r] = "idle"
  /\ rop' = [rop EXCEPT ![r] = "none"]
  /\ receivers' = receivers - 1
  /\ seen' = [seen EXCEPT ![r] = 0]   \* the handle is gone
  /\ unseen' = unseen \ {r}
  /\ IF receivers' = 0
     THEN /\ awake' = awake \cup {s \in closedWaiters : sop[s] = "closed"}
          /\ closedWaiters' = {}
     ELSE UNCHANGED <<awake, closedWaiters>>
  /\ UNCHANGED <<value, version, senders, waiters, sop>>

WatchNext ==
  \/ \E s \in Senders :
       \/ \E v \in Values : Send(s, v) \/ SendAnyway(s, v)
       \/ \E r \in Receivers : Subscribe(s, r)
       \/ \E t \in Senders : CloneSender(s, t)
       \/ DropSender(s) \/ AwaitClosed(s) \/ PollClosed(s) \/ AbandonClosed(s)
  \/ \E r \in Receivers :
       \/ Update(r) \/ MarkChanged(r) \/ PollReceiver(r) \/ AbandonReceiver(r)
       \/ DropReceiver(r)
       \/ \E o \in {"changed", "wait_for"} : Await(r, o)
       \/ \E q \in Receivers : CloneReceiver(r, q)

WatchSpec == WatchInit /\ [][WatchNext]_watchVars

-----------------------------------------------------------------------------
(* Properties.                                                             *)

\* Comparing versions tells exactly whether a value was sent, by whatever
\* operation, since the receiver, or the one it was cloned from, last looked,
\* or whether it was marked changed; so changed never reports the same value
\* twice and never passes over the last one, not even when the senders are gone.
ChangeIsExact == \A r \in Live : r \in unseen <=> version # seen[r]

\* A waiting future that would return now is awake: a receiver when there is
\* what it waits for or no sender is left, a sender when no receiver is left.
WatchWakes ==
  /\ \A r \in Receivers :
       rop[r] \in {"changed", "wait_for"} /\ (Found(r) \/ senders = 0) => r \in awake
  /\ \A s \in Senders : sop[s] = "closed" /\ receivers = 0 => s \in awake

\* A receiver learns of every change, once, and sleeps only while there is none
\* (Changed::poll, WaitFor::poll, Closed::poll).
WatchIsExact == WatchTypeOK /\ ChangeIsExact /\ WatchWakes
=============================================================================
