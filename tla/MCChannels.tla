----------------------------- MODULE MCChannels -----------------------------
(***************************************************************************)
(* The channels, for TLC.  They share no state, so nothing is learned from *)
(* interleaving them: a behaviour is about one of them and the others are  *)
(* absent: nobody has a handle to the watch or the broadcast channel, the  *)
(* oneshot channel is unused, the variables of mpsc are 0 throughout.      *)
(***************************************************************************)
EXTENDS Oneshot, Watch, Broadcast, TLC

CONSTANTS Users, Batches, MaxSends  \* Mpsc

VARIABLES which,  \* the channel this behaviour is about
          bounded, queue, reserved, senderCount, receiving, receiveWaker, sendWakers,
          closeWaiters, own, op, asked, permits, stask, swoken, receiver, rtask, rwoken,
          sentN, gotN, ended, late

Mps == INSTANCE Mpsc
         WITH Tasks <- Users, receiverAlive <- receiving, recvWaker <- receiveWaker,
              rx <- receiver

ASSUME ChannelConstants == Mps!MpscAssumption

mpscVars == <<bounded, queue, reserved, senderCount, receiving, receiveWaker, sendWakers,
              closeWaiters, own, op, asked, permits, stask, swoken, receiver, rtask, rwoken,
              sentN, gotN, ended, late>>
vars == <<which, mpscVars, oneshotVars, watchVars, broadcastVars>>

\* Which handle comes first makes no difference.
First(S) == CHOOSE s \in S : TRUE

\* There is no such channel.
NoMpsc ==
  /\ bounded = 0 /\ queue = 0 /\ reserved = 0 /\ senderCount = 0 /\ receiving = 0
  /\ receiveWaker = 0 /\ sendWakers = 0 /\ closeWaiters = 0 /\ own = 0 /\ op = 0
  /\ asked = 0 /\ permits = 0 /\ stask = 0 /\ swoken = 0 /\ receiver = 0
  /\ rtask = 0 /\ rwoken = 0 /\ sentN = 0 /\ gotN = 0 /\ ended = 0 /\ late = 0
UnusedOneshot ==  \* who polled before anything was polled makes no difference
  OneshotInit /\ rxTask = txTask /\ rxTask = CHOOSE t \in Pollers : TRUE
NoWatch ==
  /\ value = (CHOOSE v \in Values : TRUE) /\ version = 0 /\ senders = 0 /\ receivers = 0
  /\ waiters = {} /\ closedWaiters = {} /\ awake = {} /\ unseen = {}
  /\ seen = [r \in Receivers |-> 0] /\ rop = [r \in Receivers |-> "none"]
  /\ sop = [s \in Senders |-> "none"]
NoBroadcast ==
  /\ bQueue = <<>> /\ nextSeq = 0 /\ bSenders = 0 /\ bReceivers = 0 /\ bWaiters = {}
  /\ bCloseWaiters = {} /\ bAwake = {} /\ next = [r \in Subscribers |-> 0]
  /\ since = next /\ missed = next /\ got = [r \in Subscribers |-> {}]
  /\ bRop = [r \in Subscribers |-> "none"] /\ bSop = [s \in Publishers |-> "none"]

Init ==
  \/ /\ which = "Mpsc" /\ UnusedOneshot /\ NoWatch /\ NoBroadcast
     /\ Mps!Init /\ own[First(Senders)]
  \/ /\ which = "Oneshot" /\ NoMpsc /\ UnusedOneshot /\ NoWatch /\ NoBroadcast
  \/ /\ which = "Watch" /\ NoMpsc /\ UnusedOneshot /\ NoBroadcast
     /\ WatchInit /\ sop[First(Senders)] = "idle"
  \/ /\ which = "Broadcast" /\ NoMpsc /\ UnusedOneshot /\ NoWatch
     /\ BroadcastInit /\ bSop[First(Publishers)] = "idle"

Next ==
  \/ which = "Mpsc" /\ Mps!Next /\ UNCHANGED <<which, oneshotVars, watchVars, broadcastVars>>
  \/ which = "Oneshot" /\ OneshotNext /\ UNCHANGED <<which, mpscVars, watchVars, broadcastVars>>
  \/ which = "Watch" /\ WatchNext /\ UNCHANGED <<which, mpscVars, oneshotVars, broadcastVars>>
  \/ which = "Broadcast" /\ BroadcastNext /\ UNCHANGED <<which, mpscVars, oneshotVars, watchVars>>

Spec == Init /\ [][Next]_vars

Symmetry == Permutations(Senders) \cup Permutations(Receivers)
-----------------------------------------------------------------------------
\* What is queued and what was promised fit into a bounded channel (Mpsc).
CapacityRespected == which = "Mpsc" => Mps!CapacityRespected

\* Values of one sender arrive in order and none is lost, a receiver that was
\* told the channel has ended never gets another value, and a future or thread
\* that would return now is awake (Mpsc).
MpscDelivers ==
  which = "Mpsc" => Mps!DeliveredInOrder /\ Mps!EndIsFinal /\ Mps!MpscWakes
=============================================================================
