-------------------------------- MODULE Mpsc --------------------------------
(***************************************************************************)
(* The multi-producer channels (signal/mpsc.rs), bounded and unbounded:    *)
(* one shared state behind a lock, whose wakers are called and whose       *)
(* condition variable is broadcast inside the critical section, so every   *)
(* operation is one step.                                                  *)
(*                                                                         *)
(* Each s in Senders is a thread that may own a Sender and has at most one *)
(* operation under way.  A Sender is borrowed by send, reserve and         *)
(* blocking_send; the futures of send_timeout and closed own the channel   *)
(* and may outlive it.  Its values are numbered, so that a value is known  *)
(* by its sender and its number.                                           *)
(***************************************************************************)
EXTENDS Naturals, FiniteSets, SequencesExt, FiniteSetsExt

CONSTANTS Senders,   \* the sending threads
          Tasks,     \* the tasks futures are polled from
          Capacity,  \* capacity of a bounded channel
          Batches,   \* how much reserve_many asks for; 1 is reserve
          MaxSends   \* bound on the number of values sent

\* What the constants are expected to be.
MpscAssumption ==
  /\ Capacity \in Nat \ {0} /\ Batches \subseteq Nat \ {0} /\ MaxSends \in Nat
  /\ Tasks # {}

VARIABLES bounded,  \* Inner.capacity is Some(Capacity): channel(), or it is None
          queue, reserved, senderCount, receiverAlive,  \* Inner
          recvWaker,                \* recv_waker, as a set of at most one task
          sendWakers, closeWaiters, \* all are called at once, so order and
                                    \* multiplicity do not matter
          own,      \* own[s]: s has a Sender, or an OwnedPermit that has it
          op,       \* op[s]: the operation of s that has not returned
          asked,    \* asked[s]: how much its reserve asks for
          permits,  \* permits[s]: the capacity its permits stand for
          stask, swoken,   \* who polled s's future last; it, or s's thread, is
                           \* new or was woken
          rx,       \* the receiver: "live", "parked" in recv, "blocked", "dropped"
          rtask, rwoken,   \* the same for the receiver
          sentN,    \* history: how many values s sent with Ok
          gotN,     \* history: the number of the last value received from s
          ended,    \* history: the receiver was told that no more values come
          late      \* history: a Sender sent a value after that

inner == <<bounded, queue, reserved, senderCount, receiverAlive, recvWaker, sendWakers,
           closeWaiters>>
sides == <<own, op, asked, permits, stask, rx, rtask>>
history == <<sentN, gotN, ended, late>>
vars == <<inner, sides, swoken, rwoken, history>>

Ops == {"idle", "send", "timed", "blocking", "reserve", "closed"}
CanSend == SumFunction(sentN) < MaxSends
SendWaker == [sender : Senders, task : Tasks]

TypeOK ==
  /\ bounded \in BOOLEAN
  /\ queue \in Seq([from : Senders, n : Nat])
  /\ reserved \in Nat /\ senderCount \in Nat /\ receiverAlive \in BOOLEAN
  /\ recvWaker \subseteq Tasks /\ sendWakers \subseteq SendWaker
  /\ closeWaiters \subseteq SendWaker
  /\ own \in [Senders -> BOOLEAN] /\ op \in [Senders -> Ops]
  /\ asked \in [Senders -> Batches \cup {0}] /\ permits \in [Senders -> Nat]
  /\ stask \in [Senders -> Tasks] /\ swoken \in [Senders -> BOOLEAN]
  /\ rx \in {"live", "parked", "blocked", "dropped"}
  /\ rtask \in Tasks /\ rwoken \in BOOLEAN
  /\ sentN \in [Senders -> 0..MaxSends] /\ gotN \in [Senders -> 0..MaxSends]
  /\ ended \in BOOLEAN /\ late \in BOOLEAN

Init ==
  /\ bounded \in BOOLEAN
  /\ queue = <<>> /\ reserved = 0 /\ senderCount = 1 /\ receiverAlive = TRUE
  /\ recvWaker = {} /\ sendWakers = {} /\ closeWaiters = {}
  /\ \E s \in Senders : own = [r \in Senders |-> r = s]
  /\ op = [s \in Senders |-> "idle"] /\ asked = [s \in Senders |-> 0]
  /\ permits = [s \in Senders |-> 0]
  /\ stask \in [Senders -> Tasks] /\ swoken = [s \in Senders |-> FALSE]
  /\ rx = "live" /\ rtask \in Tasks /\ rwoken = FALSE
  /\ sentN = [s \in Senders |-> 0] /\ gotN = [s \in Senders |-> 0]
  /\ ended = FALSE /\ late = FALSE
-----------------------------------------------------------------------------
(* Wakers and the condition variable, which senders and receiver share.    *)

\* The senders that are awake once the wakers ws were called and the condition
\* variable was broadcast.
SendersAwake(ws) ==
  [s \in Senders |-> \/ swoken[s]
                     \/ op[s] # "idle" /\ [sender |-> s, task |-> stask[s]] \in ws
                     \/ op[s] = "blocking"]

\* The same for the receiver.
ReceiverAwake(ws) == rwoken \/ (rx = "parked" /\ rtask \in ws) \/ rx = "blocked"

HasRoom(n) == ~bounded \/ n + Len(queue) + reserved <= Capacity

\* What try_recv, recv and blocking_recv take for the end of the channel.
Disconnected == senderCount = 0 \/ (~receiverAlive /\ reserved = 0)

Becomes(s, o) == op' = [op EXCEPT ![s] = o]

\* s's operation is over.
Asleep(s) == swoken' = [swoken EXCEPT ![s] = FALSE]

\* The value is queued, the receiver's waker is taken and called, and the
\* condition variable is broadcast; r is the capacity reserved and o the
\* operation of s afterwards.
Push(s, r, o) ==
  /\ CanSend
  /\ queue' = Append(queue, [from |-> s, n |-> sentN[s] + 1])
  /\ reserved' = r
  /\ sentN' = [sentN EXCEPT ![s] = @ + 1]
  /\ late' = (late \/ (ended /\ own[s]))
  /\ recvWaker' = {}
  /\ rwoken' = ReceiverAwake(recvWaker)
  /\ Becomes(s, o)
  /\ swoken' = [SendersAwake({}) EXCEPT ![s] = @ /\ o # "idle"]
  /\ UNCHANGED <<bounded, senderCount, receiverAlive, sendWakers, closeWaiters, gotN,
                 ended>>

\* A future of s was polled from t and is pending.
Park(s, t) == stask' = [stask EXCEPT ![s] = t] /\ Asleep(s)
-----------------------------------------------------------------------------
(* Senders.                                                                *)

\* Clone for Sender, and upgrade of a WeakSender while there are senders.
Clone(s) ==
  /\ ~own[s] /\ senderCount > 0
  /\ own' = [own EXCEPT ![s] = TRUE]
  /\ senderCount' = senderCount + 1
  /\ UNCHANGED <<bounded, queue, reserved, receiverAlive, recvWaker, sendWakers,
                 closeWaiters, op, asked, permits, stask, rx, rtask, swoken, rwoken,
                 history>>

\* Drop for Sender.
DropSender(s) ==
  /\ own[s] /\ op[s] \in {"idle", "timed", "closed"} /\ permits[s] = 0
  /\ own' = [own EXCEPT ![s] = FALSE]
  /\ senderCount' = senderCount - 1
  /\ IF senderCount' = 0 \/ (~receiverAlive /\ reserved = 0)
     THEN /\ recvWaker' = {} /\ rwoken' = ReceiverAwake(recvWaker)
          /\ swoken' = SendersAwake({})
     ELSE UNCHANGED <<recvWaker, rwoken, swoken>>
  /\ UNCHANGED <<bounded, queue, reserved, receiverAlive, sendWakers, closeWaiters, op,
                 asked, permits, stask, rx, rtask, history>>

\* send, send_timeout, reserve and closed create futures.
Begin(s, o, n) ==
  /\ own[s] /\ op[s] = "idle"
  /\ o \in {"send", "timed"} => CanSend
  /\ Becomes(s, o)
  /\ asked' = [asked EXCEPT ![s] = n]
  /\ swoken' = [swoken EXCEPT ![s] = TRUE]
  /\ UNCHANGED <<inner, own, permits, stask, rx, rtask, rwoken, history>>

\* A future is dropped; its wakers stay registered.
Abandon(s) ==
  /\ op[s] \in {"send", "timed", "reserve", "closed"}
  /\ Becomes(s, "idle") /\ Asleep(s)
  /\ asked' = [asked EXCEPT ![s] = 0]
  /\ UNCHANGED <<inner, own, permits, stask, rx, rtask, rwoken, history>>

\* SendFuture::poll and SendTimeoutFuture::poll, whose sleep may be over when
\* the send is pending.
PollSend(s, t) ==
  /\ op[s] \in {"send", "timed"}
  /\ \/ /\ ~receiverAlive
        /\ Becomes(s, "idle") /\ Asleep(s)
        /\ UNCHANGED <<inner, stask, rwoken, history>>
     \/ /\ receiverAlive /\ HasRoom(1)
        /\ Push(s, reserved, "idle")
        /\ UNCHANGED stask
     \/ /\ receiverAlive /\ ~HasRoom(1)
        /\ sendWakers' = sendWakers \cup {[sender |-> s, task |-> t]}
        /\ Park(s, t)
        /\ UNCHANGED op \/ (op[s] = "timed" /\ Becomes(s, "idle"))
        /\ UNCHANGED <<queue, reserved, bounded, senderCount, receiverAlive, recvWaker,
                       closeWaiters, rwoken, history>>
  /\ UNCHANGED <<own, asked, permits, rx, rtask>>

\* Mutant: try_send overlooks the reserved capacity.
TrySendReserved(s) ==
  /\ own[s] /\ op[s] = "idle"
  /\ receiverAlive /\ (bounded => Len(queue) < Capacity)
  /\ Push(s, reserved, "idle")
  /\ UNCHANGED <<own, asked, permits, stask, rx, rtask>>

\* try_send, and send of the unbounded channel; on failure nothing happens.
TrySend(s) ==
  /\ own[s] /\ op[s] = "idle"
  /\ receiverAlive /\ HasRoom(1)
  /\ Push(s, reserved, "idle")
  /\ UNCHANGED <<own, asked, permits, stask, rx, rtask>>

\* One round of the loop of blocking_send.
BlockingSend(s) ==
  /\ bounded /\ own[s] /\ op[s] \in {"idle", "blocking"} /\ CanSend
  /\ \/ /\ ~receiverAlive
        /\ Becomes(s, "idle") /\ Asleep(s)
        /\ UNCHANGED <<inner, rwoken, history>>
     \/ /\ receiverAlive /\ HasRoom(1)
        /\ Push(s, reserved, "idle")
     \/ /\ receiverAlive /\ ~HasRoom(1)
        /\ Becomes(s, "blocking") /\ Asleep(s)
        /\ UNCHANGED <<inner, rwoken, history>>
  /\ UNCHANGED <<own, asked, permits, stask, rx, rtask>>

\* try_reserve, try_reserve_many and try_reserve_owned.
TryReserve(s, n) ==
  /\ bounded /\ own[s] /\ op[s] = "idle"
  /\ receiverAlive /\ HasRoom(n)
  /\ reserved' = reserved + n
  /\ permits' = [permits EXCEPT ![s] = @ + n]
  /\ UNCHANGED <<queue, bounded, senderCount, receiverAlive, recvWaker, sendWakers,
                 closeWaiters, own, op, asked, stask, rx, rtask, swoken, rwoken,
                 history>>

\* poll_reserve.
PollReserve(s, t) ==
  /\ op[s] = "reserve"
  /\ \/ /\ ~receiverAlive
        /\ Becomes(s, "idle") /\ Asleep(s) /\ asked' = [asked EXCEPT ![s] = 0]
        /\ UNCHANGED <<reserved, sendWakers, permits, stask>>
     \/ /\ receiverAlive /\ HasRoom(asked[s])
        /\ reserved' = reserved + asked[s]
        /\ permits' = [permits EXCEPT ![s] = @ + asked[s]]
        /\ Becomes(s, "idle") /\ Asleep(s) /\ asked' = [asked EXCEPT ![s] = 0]
        /\ UNCHANGED <<sendWakers, stask>>
     \/ /\ receiverAlive /\ ~HasRoom(asked[s])
        /\ sendWakers' = sendWakers \cup {[sender |-> s, task |-> t]}
        /\ Park(s, t)
        /\ UNCHANGED <<reserved, op, asked, permits>>
  /\ UNCHANGED <<queue, bounded, senderCount, receiverAlive, recvWaker, closeWaiters,
                 own, rx, rtask, rwoken, history>>

\* send_reserved: Permit::send and OwnedPermit::send, also when closed.
SendReserved(s) ==
  /\ permits[s] > 0 /\ op[s] # "blocking"
  /\ permits' = [permits EXCEPT ![s] = @ - 1]
  /\ Push(s, reserved - 1, op[s])
  /\ UNCHANGED <<own, asked, stask, rx, rtask>>

\* release_reserved: a Permit, an OwnedPermit or the rest of a PermitIterator
\* is dropped.
ReleaseReserved(s, n) ==
  /\ n \in 1..permits[s] /\ op[s] # "blocking"
  /\ permits' = [permits EXCEPT ![s] = @ - n]
  /\ reserved' = reserved - n
  /\ LET over == ~receiverAlive /\ reserved' = 0 IN
     /\ recvWaker' = IF over THEN {} ELSE recvWaker
     /\ rwoken' = ReceiverAwake(IF over THEN recvWaker ELSE {})
  /\ sendWakers' = {}
  /\ swoken' = SendersAwake(sendWakers)
  /\ UNCHANGED <<queue, bounded, senderCount, receiverAlive, closeWaiters, own, op,
                 asked, stask, rx, rtask, history>>

\* SenderClosedFuture::poll.
PollClosed(s, t) ==
  /\ op[s] = "closed"
  /\ \/ /\ ~receiverAlive
        /\ Becomes(s, "idle") /\ Asleep(s)
        /\ UNCHANGED <<closeWaiters, stask>>
     \/ /\ receiverAlive
        /\ closeWaiters' = closeWaiters \cup {[sender |-> s, task |-> t]}
        /\ Park(s, t)
        /\ UNCHANGED op
  /\ UNCHANGED <<queue, reserved, bounded, senderCount, receiverAlive, recvWaker,
                 sendWakers, own, asked, permits, rx, rtask, rwoken, history>>
-----------------------------------------------------------------------------
(* The receiver.                                                           *)

Receiving == rx \in {"live", "parked"}

\* Mutant: only one registered sender is woken.
PopWakingOne(k) ==
  /\ k \in 1..Len(queue)
  /\ queue' = SubSeq(queue, k + 1, Len(queue))
  /\ gotN' = [s \in Senders |-> Max({gotN[s]} \cup
                {queue[i].n : i \in {j \in 1..k : queue[j].from = s}})]
  /\ \E ws \in SUBSET sendWakers :
       /\ Cardinality(ws) = (IF sendWakers = {} THEN 0 ELSE 1)
       /\ sendWakers' = sendWakers \ ws
       /\ swoken' = SendersAwake(ws)
  /\ UNCHANGED <<reserved, bounded, senderCount, receiverAlive, recvWaker, closeWaiters,
                 sentN, ended, late>>

\* Mutant: several values are taken, and the last ones are dropped.
PopLosing(k) ==
  /\ k \in 1..Len(queue)
  /\ queue' = SubSeq(queue, k + 1, Len(queue))
  /\ gotN' = [gotN EXCEPT ![queue[1].from] = queue[1].n]
  /\ sendWakers' = {}
  /\ swoken' = SendersAwake(sendWakers)
  /\ UNCHANGED <<reserved, bounded, senderCount, receiverAlive, recvWaker, closeWaiters,
                 sentN, ended, late>>

\* k values are taken, every registered sender is woken, and the condition
\* variable is broadcast.
Pop(k) ==
  /\ k \in 1..Len(queue)
  /\ queue' = SubSeq(queue, k + 1, Len(queue))
  /\ gotN' = [s \in Senders |-> Max({gotN[s]} \cup
                {queue[i].n : i \in {j \in 1..k : queue[j].from = s}})]
  /\ sendWakers' = {}
  /\ swoken' = SendersAwake(sendWakers)
  /\ UNCHANGED <<reserved, bounded, senderCount, receiverAlive, recvWaker, closeWaiters,
                 sentN, ended, late>>

\* None or Disconnected is returned.
End ==
  /\ queue = <<>> /\ Disconnected
  /\ ended' = TRUE
  /\ UNCHANGED <<inner, swoken, sentN, gotN, late>>

Idle == queue = <<>> /\ ~Disconnected

\* poll_recv_shared, and poll_recv_many_shared taking k values.  A future that
\* is dropped, or whose recv_timeout is over, leaves its waker registered; the
\* next call is then made while rx is still "parked".
PollRecv(k, t) ==
  /\ Receiving
  /\ \/ (Pop(k) \/ End) /\ rx' = "live" /\ UNCHANGED rtask
     \/ /\ Idle
        /\ recvWaker' = {t} /\ rtask' = t /\ rx' = "parked"
        /\ UNCHANGED <<queue, reserved, bounded, senderCount, receiverAlive, sendWakers,
                       closeWaiters, swoken, history>>
  /\ rwoken' = FALSE
  /\ UNCHANGED <<own, op, asked, permits, stask>>

\* try_recv; when the channel is empty nothing happens.
TryRecv ==
  /\ Receiving
  /\ Pop(1) \/ End
  /\ rx' = "live" /\ rwoken' = FALSE
  /\ UNCHANGED <<own, op, asked, permits, stask, rtask>>

\* One round of the loop of blocking_recv.
BlockingRecv ==
  /\ Receiving \/ rx = "blocked"
  /\ \/ (Pop(1) \/ End) /\ rx' = "live"
     \/ Idle /\ rx' = "blocked" /\ UNCHANGED <<inner, swoken, history>>
  /\ rwoken' = FALSE
  /\ UNCHANGED <<own, op, asked, permits, stask, rtask>>

\* close, and Drop for Receiver.
Close(drop) ==
  /\ Receiving
  /\ receiverAlive' = FALSE
  /\ rx' = (IF drop THEN "dropped" ELSE "live") /\ rwoken' = FALSE
  /\ closeWaiters' = {} /\ sendWakers' = {}
  /\ swoken' = SendersAwake(closeWaiters \cup sendWakers)
  /\ UNCHANGED <<queue, reserved, bounded, senderCount, recvWaker, own, op, asked,
                 permits, stask, rtask, history>>

SenderStep(s) ==
  \/ Clone(s) \/ DropSender(s) \/ Abandon(s) \/ TrySend(s) \/ BlockingSend(s)
  \/ SendReserved(s)
  \/ \E o \in {"send", "timed", "closed"} : (bounded \/ o = "closed") /\ Begin(s, o, 0)
  \/ \E n \in Batches : (bounded /\ Begin(s, "reserve", n)) \/ TryReserve(s, n)
  \/ \E n \in 1..permits[s] : ReleaseReserved(s, n)
  \/ \E t \in Tasks : PollSend(s, t) \/ PollReserve(s, t) \/ PollClosed(s, t)

Next ==
  \/ \E s \in Senders : SenderStep(s)
  \/ \E k \in 1..2, t \in Tasks : PollRecv(k, t)
  \/ TryRecv \/ BlockingRecv
  \/ \E drop \in BOOLEAN : Close(drop)

Spec == Init /\ [][Next]_vars

-----------------------------------------------------------------------------
(* Properties.                                                             *)

\* The counters describe the handles that exist, and the queue and the permits
\* together stay within the capacity: a permit's send never needs to wait.
CapacityRespected ==
  /\ TypeOK
  /\ senderCount = Cardinality({s \in Senders : own[s]})
  /\ reserved = SumFunction(permits)
  /\ bounded => Len(queue) + reserved <= Capacity

\* What s sent and the receiver has not yet taken is in the queue, once and in
\* the order of sending: nothing is lost, duplicated or reordered by any
\* mixture of the ways to send, to reserve and to receive.
DeliveredInOrder ==
  \A s \in Senders :
    LET mine == SelectSeq(queue, LAMBDA v : v.from = s) IN
      mine = [i \in 1..(sentN[s] - gotN[s]) |-> [from |-> s, n |-> gotN[s] + i]]

\* Whoever could go on is awake: the receiver when there is a value or the end
\* of the channel, a sender or reserver when there is room or nobody receives,
\* also if futures before it were dropped with their wakers still registered.
MpscWakes ==
  /\ rx \in {"parked", "blocked"} /\ ~Idle => rwoken
  /\ \A s \in Senders :
       \/ op[s] # "idle" /\ ~receiverAlive
       \/ op[s] \in {"send", "timed", "blocking"} /\ HasRoom(1)
       \/ op[s] = "reserve" /\ HasRoom(asked[s])
       => swoken[s]

\* "All senders were closed": once the receiver was told so, nothing comes from
\* a Sender any more, and no WeakSender revives the channel; only a
\* send_timeout future that outlived its Sender can still send.
EndIsFinal == ~late
=============================================================================
