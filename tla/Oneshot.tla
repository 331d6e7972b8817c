------------------------------ MODULE Oneshot ------------------------------
(***************************************************************************)
(* The oneshot channel (signal/oneshot.rs): one sender, one receiver, a    *)
(* slot for the value and one waker for each side.  Every operation is one *)
(* critical section; wakers are called and the condition variable is       *)
(* broadcast inside it.                                                    *)
(*                                                                         *)
(* The receiver may be polled from different tasks, ask with try_recv,     *)
(* block in blocking_recv, close the channel or be dropped; the sender may *)
(* wait for the receiver to close before it sends.                         *)
(***************************************************************************)
EXTENDS Naturals

CONSTANTS Messages,  \* what can be sent
          Pollers    \* the tasks that poll either side

Nothing == "nothing"

\* What the constants are expected to be.
ASSUME OneshotAssumption == Nothing \notin Messages /\ Pollers # {}

VARIABLES slot, senderAlive, receiverAlive,  \* Inner
          recvWaker, closeWaker,  \* the tasks whose wakers are stored
          tx,                     \* "live", "parked" in closed(), "sent", "failed" or "dropped"
          rx,                     \* "live", "parked" in poll, "blocked" in blocking_recv,
                                  \* "got", "closed" (it returned RecvError) or "dropped"
          txTask, rxTask,         \* who polled the two sides last
          txWoken, rxWoken,       \* that task, or the blocked thread, was woken
          sent, received          \* history: the values sent with Ok and received

inner == <<slot, senderAlive, receiverAlive, recvWaker, closeWaker>>
senderSide == <<tx, txTask>>
receiverSide == <<rx, rxTask, received>>
oneshotVars == <<inner, senderSide, receiverSide, txWoken, rxWoken, sent>>

OneshotTypeOK ==
  /\ slot \in Messages \cup {Nothing}
  /\ senderAlive \in BOOLEAN /\ receiverAlive \in BOOLEAN
  /\ recvWaker \subseteq Pollers /\ closeWaker \subseteq Pollers
  /\ tx \in {"live", "parked", "sent", "failed", "dropped"}
  /\ rx \in {"live", "parked", "blocked", "got", "closed", "dropped"}
  /\ txTask \in Pollers /\ rxTask \in Pollers
  /\ txWoken \in BOOLEAN /\ rxWoken \in BOOLEAN
  /\ sent \in Messages \cup {Nothing} /\ received \in Messages \cup {Nothing}

OneshotInit ==
  /\ slot = Nothing /\ senderAlive = TRUE /\ receiverAlive = TRUE
  /\ recvWaker = {} /\ closeWaker = {}
  /\ tx = "live" /\ rx = "live"
  /\ txTask \in Pollers /\ rxTask \in Pollers
  /\ txWoken = FALSE /\ rxWoken = FALSE
  /\ sent = Nothing /\ received = Nothing

HasSender == tx \in {"live", "parked"}
HasReceiver == rx \in {"live", "parked"}
-----------------------------------------------------------------------------
\* recv_waker.take() is called if it is Some, and the condition variable is
\* broadcast.
WakeReceiver ==
  /\ recvWaker' = {}
  /\ rxWoken' = (rxWoken \/ rx = "blocked" \/ rxTask \in recvWaker)

\* close_waker.take() is called if it is Some; the broadcast wakes no sender.
WakeSender ==
  /\ closeWaker' = {}
  /\ txWoken' = (txWoken \/ txTask \in closeWaker)

\* Sender::send.  On failure the value goes back to the caller and the inner
\* state stays as it is.
SendOne(v) ==
  /\ HasSender
  /\ \/ /\ receiverAlive
        /\ slot' = v /\ senderAlive' = FALSE /\ sent' = v /\ tx' = "sent"
        /\ WakeReceiver
     \/ /\ ~receiverAlive
        /\ tx' = "failed"
        /\ UNCHANGED <<slot, senderAlive, sent, recvWaker, rxWoken>>
  /\ UNCHANGED <<receiverAlive, closeWaker, txTask, receiverSide, txWoken>>

\* Drop for Sender.
DropOneSender ==
  /\ HasSender
  /\ senderAlive' = FALSE /\ tx' = "dropped"
  /\ WakeReceiver
  /\ UNCHANGED <<slot, receiverAlive, closeWaker, txTask, receiverSide, txWoken, sent>>

\* ClosedFuture::poll and poll_closed, from task t.
PollOneClosed(t) ==
  /\ HasSender
  /\ \/ ~receiverAlive /\ tx' = "live" /\ UNCHANGED closeWaker
     \/ receiverAlive /\ tx' = "parked" /\ closeWaker' = {t}
  /\ txTask' = t /\ txWoken' = FALSE
  /\ UNCHANGED <<slot, senderAlive, receiverAlive, recvWaker, receiverSide, rxWoken, sent>>

\* Mutant: the receiver does not look for a value once it has closed.
TakeSlotUnlessClosed ==
  \/ /\ slot # Nothing /\ receiverAlive
     /\ received' = slot /\ slot' = Nothing /\ rx' = "got"
  \/ /\ slot = Nothing \/ ~receiverAlive
     /\ ~senderAlive \/ ~receiverAlive
     /\ rx' = "closed"
     /\ UNCHANGED <<slot, received>>

\* What every way to receive does first: the value if there is one, else the
\* end of the channel.  The receiver gives up its reference without running
\* its destructor, so receiver_alive does not change.
TakeSlot ==
  \/ /\ slot # Nothing
     /\ received' = slot /\ slot' = Nothing /\ rx' = "got"
  \/ /\ slot = Nothing
     /\ ~senderAlive \/ ~receiverAlive
     /\ rx' = "closed"
     /\ UNCHANGED <<slot, received>>

Empty == slot = Nothing /\ senderAlive /\ receiverAlive

\* Receiver::poll from task t.
PollOneReceiver(t) ==
  /\ HasReceiver
  /\ \/ TakeSlot /\ UNCHANGED recvWaker
     \/ Empty /\ recvWaker' = {t} /\ rx' = "parked" /\ UNCHANGED <<slot, received>>
  /\ rxTask' = t /\ rxWoken' = FALSE
  /\ UNCHANGED <<senderAlive, receiverAlive, closeWaker, senderSide, txWoken, sent>>

\* try_recv; Empty leaves everything as it is.
TryRecv ==
  /\ HasReceiver
  /\ TakeSlot
  /\ UNCHANGED <<senderAlive, receiverAlive, recvWaker, closeWaker, senderSide, rxTask,
                 txWoken, rxWoken, sent>>

\* blocking_recv consumes the receiver; each round of its loop either ends or
\* waits on the condition variable.
BlockingRecv ==
  /\ HasReceiver \/ rx = "blocked"
  /\ \/ TakeSlot
     \/ Empty /\ rx' = "blocked" /\ UNCHANGED <<slot, received>>
  /\ rxWoken' = FALSE
  /\ UNCHANGED <<senderAlive, receiverAlive, recvWaker, closeWaker, senderSide, rxTask,
                 txWoken, sent>>

\* Receiver::wake_waiter.
WakeWaiter ==
  /\ HasReceiver
  /\ WakeReceiver
  /\ UNCHANGED <<slot, senderAlive, receiverAlive, closeWaker, senderSide, receiverSide,
                 txWoken, sent>>

\* Receiver::close.  The owner of the receiver calls it, so the receiver is not
\* asleep afterwards.
CloseOne ==
  /\ HasReceiver
  /\ receiverAlive' = FALSE /\ rx' = "live"
  /\ WakeSender
  /\ UNCHANGED <<slot, senderAlive, recvWaker, senderSide, rxTask, received, rxWoken, sent>>

\* Drop for Receiver.
DropOneReceiver ==
  /\ HasReceiver
  /\ receiverAlive' = FALSE /\ rx' = "dropped"
  /\ WakeSender
  /\ UNCHANGED <<slot, senderAlive, recvWaker, senderSide, rxTask, received, rxWoken, sent>>

OneshotNext ==
  \/ \E v \in Messages : SendOne(v)
  \/ DropOneSender
  \/ \E t \in Pollers : PollOneClosed(t) \/ PollOneReceiver(t)
  \/ TryRecv \/ BlockingRecv \/ WakeWaiter \/ CloseOne \/ DropOneReceiver

OneshotSpec == OneshotInit /\ [][OneshotNext]_oneshotVars

-----------------------------------------------------------------------------
(* Properties.                                                             *)

\* A value sent with Ok is in the channel, was received once, or went away with
\* the receiver; a send that failed left nothing behind; and the receiver
\* reports a closed channel only if no value was sent to it, also when it
\* closed the channel itself in the meantime.
SentExactlyOnce ==
  /\ OneshotTypeOK
  /\ received # Nothing => received = sent /\ slot = Nothing
  /\ sent # Nothing =>
       IF received = Nothing THEN slot = sent /\ rx # "closed" ELSE rx = "got"
  /\ sent = Nothing => slot = Nothing

\* A receiver that sleeps although it could return, and a sender that waits for
\* a receiver that is gone, were woken.
OneshotWakes ==
  /\ rx \in {"parked", "blocked"} /\ ~Empty => rxWoken
  /\ tx = "parked" /\ ~receiverAlive => txWoken

\* The channel delivers what was sent, once, and wakes who waits for that or
\* for its end (send, Receiver::poll, close, the destructors).
OneshotDelivers == SentExactlyOnce /\ OneshotWakes
=============================================================================
