------------------------------ MODULE Broadcast -----------------------------
(***************************************************************************)
(* The broadcast channel (sync/broadcast.rs): each receiver sees every     *)
(* message sent since it was created, or is told how many it missed.       *)
(* Every operation is one critical section in which the wakers are called  *)
(* as well.  A message is known by its sequence number, a waker by the     *)
(* handle whose future it wakes.                                           *)
(***************************************************************************)
EXTENDS Naturals, FiniteSets, Sequences

CONSTANTS Publishers,   \* handles that may be Sender
          Subscribers,  \* handles that may be Receiver
          Capacity,     \* messages retained
          MaxSeq        \* bound on the number of messages

\* The handles are counted, and none is both a Sender and a Receiver.
ASSUME BroadcastAssumption ==
  /\ IsFiniteSet(Publishers) /\ IsFiniteSet(Subscribers) /\ Publishers \cap Subscribers = {}
  /\ Capacity \in Nat \ {0} /\ MaxSeq \in Nat

VARIABLES bQueue, nextSeq, bSenders, bReceivers,  \* BroadcastState
          bWaiters,       \* handles whose waker is registered in waiters
          bCloseWaiters,  \* and in close_waiters
          next,           \* next[r]: next_seq of Receiver
          bRop,           \* of a receiver: "none" (no handle), "idle", or "recv" (a future)
          bSop,           \* of a sender: "none", "idle", or "closed" (a future)
          bAwake,         \* handles whose future is new or was woken
          since,          \* history: since[r] is the first message sent after r was created
          got,            \* history: the messages r received
          missed          \* history: the sum of what Lagged told r

bRing == <<bQueue, nextSeq>>
bWakers == <<bWaiters, bCloseWaiters>>
bHistory == <<since, got, missed>>
broadcastVars == <<bRing, bSenders, bReceivers, bWakers, next, bRop, bSop, bAwake, bHistory>>

LivePublishers == {s \in Publishers : bSop[s] # "none"}
LiveSubscribers == {r \in Subscribers : bRop[r] # "none"}

BroadcastTypeOK ==
  /\ bQueue \in Seq(Nat) /\ nextSeq \in 0..MaxSeq
  /\ bSenders \in Nat /\ bReceivers \in Nat
  /\ bWaiters \subseteq Subscribers /\ bCloseWaiters \subseteq Publishers
  /\ next \in [Subscribers -> 0..MaxSeq] /\ since \in [Subscribers -> 0..MaxSeq]
  /\ bRop \in [Subscribers -> {"none", "idle", "recv"}]
  /\ bSop \in [Publishers -> {"none", "idle", "closed"}]
  /\ bAwake \subseteq Subscribers \cup Publishers
  /\ got \in [Subscribers -> SUBSET (0..MaxSeq)] /\ missed \in [Subscribers -> 0..MaxSeq]

\* channel, with one receiver, or Sender::new, with none.
BroadcastInit ==
  /\ bQueue = <<>> /\ nextSeq = 0 /\ bSenders = 1 /\ bWaiters = {} /\ bCloseWaiters = {}
  /\ bAwake = {} /\ next = [r \in Subscribers |-> 0] /\ since = next /\ missed = next
  /\ got = [r \in Subscribers |-> {}]
  /\ \E s \in Publishers : bSop = [t \in Publishers |-> IF t = s THEN "idle" ELSE "none"]
  /\ \E R \in SUBSET Subscribers :
       /\ Cardinality(R) <= 1 /\ bReceivers = Cardinality(R)
       /\ bRop = [r \in Subscribers |-> IF r \in R THEN "idle" ELSE "none"]
-----------------------------------------------------------------------------
(* The sending side.                                                       *)

WakeReceivers ==
  /\ bAwake' = bAwake \cup {r \in bWaiters : bRop[r] = "recv"}
  /\ bWaiters' = {}

\* push_locked: the oldest message makes room.
Push ==
  /\ nextSeq < MaxSeq
  /\ nextSeq' = nextSeq + 1
  /\ bQueue' = LET q == Append(bQueue, nextSeq)
              IN  IF Len(q) > Capacity THEN Tail(q) ELSE q

\* send; it fails if there are no receivers.
SendMessage(s) ==
  /\ bSop[s] # "none" /\ bReceivers > 0
  /\ Push /\ WakeReceivers
  /\ UNCHANGED <<bSenders, bReceivers, bCloseWaiters, next, bRop, bSop, bHistory>>

\* Drop for Sender; the last one wakes every waiter.
DropPublisher(s) ==
  /\ bSop[s] = "idle"
  /\ bSop' = [bSop EXCEPT ![s] = "none"] /\ bSenders' = bSenders - 1
  /\ IF bSenders' = 0 THEN WakeReceivers ELSE UNCHANGED <<bAwake, bWaiters>>
  /\ UNCHANGED <<bRing, bReceivers, bCloseWaiters, next, bRop, bHistory>>

\* Clone for Sender, and WeakSender::upgrade, which works as long as any handle
\* keeps the channel allocated, even if it is closed.
NewPublisher(s) ==
  /\ bSop[s] = "none" /\ bSenders + bReceivers > 0
  /\ bSop' = [bSop EXCEPT ![s] = "idle"] /\ bSenders' = bSenders + 1
  /\ UNCHANGED <<bRing, bReceivers, bWakers, next, bRop, bAwake, bHistory>>

\* closed creates a future.
AwaitNoReceiver(s) ==
  /\ bSop[s] = "idle"
  /\ bSop' = [bSop EXCEPT ![s] = "closed"] /\ bAwake' = bAwake \cup {s}
  /\ UNCHANGED <<bRing, bSenders, bReceivers, bWakers, next, bRop, bHistory>>

\* The poll of closed.
PollNoReceiver(s) ==
  /\ bSop[s] = "closed"
  /\ bAwake' = bAwake \ {s}
  /\ \/ bReceivers = 0 /\ bSop' = [bSop EXCEPT ![s] = "idle"] /\ UNCHANGED bCloseWaiters
     \/ bReceivers > 0 /\ bCloseWaiters' = bCloseWaiters \cup {s} /\ UNCHANGED bSop
  /\ UNCHANGED <<bRing, bSenders, bReceivers, bWaiters, next, bRop, bHistory>>

\* The future of closed is dropped; its waker stays registered.
AbandonNoReceiver(s) ==
  /\ bSop[s] = "closed"
  /\ bSop' = [bSop EXCEPT ![s] = "idle"] /\ bAwake' = bAwake \ {s}
  /\ UNCHANGED <<bRing, bSenders, bReceivers, bWakers, next, bRop, bHistory>>
-----------------------------------------------------------------------------
(* The receiving side.                                                     *)

\* subscribe, resubscribe and Clone for Receiver: the new one starts at the
\* message to be sent next.
NewSubscriber(r) ==
  /\ bRop[r] = "none"
  /\ \/ LivePublishers # {}
     \/ \E q \in Subscribers : bRop[q] = "idle"
  /\ bRop' = [bRop EXCEPT ![r] = "idle"] /\ bReceivers' = bReceivers + 1
  /\ next' = [next EXCEPT ![r] = nextSeq] /\ since' = [since EXCEPT ![r] = nextSeq]
  /\ UNCHANGED <<bRing, bSenders, bWakers, bSop, bAwake, got, missed>>

\* Where the retained messages are that r has not seen, and the oldest of them.
Ahead(r) == {i \in DOMAIN bQueue : bQueue[i] >= next[r]}
Oldest(r) == bQueue[CHOOSE i \in Ahead(r) : \A j \in Ahead(r) : i <= j]

\* Mutant: the message the receiver is told to have missed includes the one that
\* is there.
TakeLaggingOn(r) ==
  /\ Ahead(r) # {}
  /\ IF Oldest(r) > next[r]
     THEN /\ missed' = [missed EXCEPT ![r] = @ + (Oldest(r) - next[r])]
          /\ next' = [next EXCEPT ![r] = Oldest(r) + 1] /\ UNCHANGED got
     ELSE /\ got' = [got EXCEPT ![r] = @ \cup {Oldest(r)}]
          /\ next' = [next EXCEPT ![r] = @ + 1] /\ UNCHANGED missed

\* try_recv_locked finds a message: it is received, or, if older ones are gone,
\* their number is reported first.
TakeMessage(r) ==
  /\ Ahead(r) # {}
  /\ IF Oldest(r) > next[r]
     THEN /\ missed' = [missed EXCEPT ![r] = @ + (Oldest(r) - next[r])]
          /\ next' = [next EXCEPT ![r] = Oldest(r)] /\ UNCHANGED got
     ELSE /\ got' = [got EXCEPT ![r] = @ \cup {Oldest(r)}]
          /\ next' = [next EXCEPT ![r] = @ + 1] /\ UNCHANGED missed

\* try_recv, and a round of blocking_recv, that finds something; otherwise it
\* says Empty or Closed and changes nothing.
TryRecvMessage(r) ==
  /\ bRop[r] = "idle" /\ TakeMessage(r)
  /\ UNCHANGED <<bRing, bSenders, bReceivers, bWakers, bRop, bSop, bAwake, since>>

\* recv creates a future.
RecvMessage(r) ==
  /\ bRop[r] = "idle"
  /\ bRop' = [bRop EXCEPT ![r] = "recv"] /\ bAwake' = bAwake \cup {r}
  /\ UNCHANGED <<bRing, bSenders, bReceivers, bWakers, next, bSop, bHistory>>

\* RecvFuture::poll.
PollRecvMessage(r) ==
  /\ bRop[r] = "recv"
  /\ bAwake' = bAwake \ {r}
  /\ \/ TakeMessage(r) /\ bRop' = [bRop EXCEPT ![r] = "idle"] /\ UNCHANGED bWaiters
     \/ /\ Ahead(r) = {} /\ UNCHANGED <<next, got, missed>>
        /\ \/ bSenders = 0 /\ bRop' = [bRop EXCEPT ![r] = "idle"] /\ UNCHANGED bWaiters
           \/ bSenders > 0 /\ bWaiters' = bWaiters \cup {r} /\ UNCHANGED bRop
  /\ UNCHANGED <<bRing, bSenders, bReceivers, bCloseWaiters, bSop, since>>

\* The future is dropped; its waker stays registered.
AbandonRecvMessage(r) ==
  /\ bRop[r] = "recv"
  /\ bRop' = [bRop EXCEPT ![r] = "idle"] /\ bAwake' = bAwake \ {r}
  /\ UNCHANGED <<bRing, bSenders, bReceivers, bWakers, next, bSop, bHistory>>

\* Drop for Receiver; the last one wakes whoever awaits closed.
DropSubscriber(r) ==
  /\ bRop[r] = "idle"
  /\ bRop' = [bRop EXCEPT ![r] = "none"] /\ bReceivers' = bReceivers - 1
  /\ next' = [next EXCEPT ![r] = 0] /\ since' = [since EXCEPT ![r] = 0]   \* the handle is gone
  /\ got' = [got EXCEPT ![r] = {}] /\ missed' = [missed EXCEPT ![r] = 0]
  /\ IF bReceivers' = 0
     THEN /\ bAwake' = bAwake \cup {s \in bCloseWaiters : bSop[s] = "closed"}
          /\ bCloseWaiters' = {}
     ELSE UNCHANGED <<bAwake, bCloseWaiters>>
  /\ UNCHANGED <<bRing, bSenders, bWaiters, bSop>>

BroadcastNext ==
  \/ \E s \in Publishers :
       \/ SendMessage(s) \/ DropPublisher(s) \/ NewPublisher(s)
       \/ AwaitNoReceiver(s) \/ PollNoReceiver(s) \/ AbandonNoReceiver(s)
  \/ \E r \in Subscribers :
       \/ NewSubscriber(r) \/ TryRecvMessage(r) \/ RecvMessage(r)
       \/ PollRecvMessage(r) \/ AbandonRecvMessage(r) \/ DropSubscriber(r)

BroadcastSpec == BroadcastInit /\ [][BroadcastNext]_broadcastVars
-----------------------------------------------------------------------------
(* Properties.                                                             *)

\* The channel knows how many handles there are.
HandlesAreCounted ==
  bSenders = Cardinality(LivePublishers) /\ bReceivers = Cardinality(LiveSubscribers)

\* Every message sent since a receiver was created is received once, or counted
\* by Lagged, or still to come; and only what no longer fits the capacity is
\* counted as missed.
MessagesAreCounted ==
  \A r \in LiveSubscribers :
    /\ got[r] \subseteq since[r]..(next[r] - 1)
    /\ Cardinality(got[r]) + missed[r] = next[r] - since[r]
    /\ \A seq \in next[r]..(nextSeq - 1) :
         seq + Capacity >= nextSeq => seq \in {bQueue[i] : i \in DOMAIN bQueue}

\* A waiting future that would return now is awake: a receiver when there is a
\* message or no sender is left, a sender when no receiver is left.
BroadcastWakes ==
  /\ \A r \in Subscribers :
       bRop[r] = "recv" /\ (Ahead(r) # {} \/ bSenders = 0) => r \in bAwake
  /\ \A s \in Publishers : bSop[s] = "closed" /\ bReceivers = 0 => s \in bAwake

\* What the broadcast channel promises: nothing is lost without being counted,
\* the counts of the handles are right, and nobody sleeps through what is there.
LagIsExact ==
  BroadcastTypeOK /\ HandlesAreCounted /\ MessagesAreCounted /\ BroadcastWakes
=============================================================================
