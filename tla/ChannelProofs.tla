--------------------------- MODULE ChannelProofs ----------------------------
(***************************************************************************)
(* Proofs about the watch channel, the oneshot channel and the broadcast   *)
(* channel: what each promises, for any number of handles and tasks and    *)
(* any messages, with the inductive invariant it takes.                    *)
(***************************************************************************)
EXTENDS Watch, Oneshot, Broadcast, FiniteSetTheorems, TLAPS

(* The watch channel.                                                      *)

\* Versions are below the one that would be taken for the version before 0.
VersionsOK ==
  /\ version \in 0..MaxVersion
  /\ \A r \in Receivers : seen[r] \in 0..version \/ seen[r] = Width - 1
  /\ unseen \subseteq Live
  /\ ChangeIsExact

\* The reference counts are those of the handles.
CountsOK == senders = Cardinality(LiveSenders) /\ receivers = Cardinality(Live)

\* A pending future that is not awake is registered, and would not return now.
PendingOK ==
  /\ \A r \in Receivers :
       rop[r] \in {"changed", "wait_for"} =>
         r \in awake \/ (r \in waiters /\ ~Found(r) /\ senders # 0)
  /\ \A s \in Senders :
       sop[s] = "closed" => s \in awake \/ (s \in closedWaiters /\ receivers # 0)

\* The invariant of the channel.
WatchIInv == WatchTypeOK /\ VersionsOK /\ CountsOK /\ PendingOK

\* A version below the width is not changed by the wrap.
LEMMA NoWrap == ASSUME NEW w \in Nat, NEW x \in 0..(w - 1) PROVE x % w = x
OBVIOUS

\* The version before 0, which mark_changed stores, is the last one.
LEMMA WrapsDown == ASSUME NEW w \in Nat \ {0} PROVE (0 - 1) % w = w - 1
OBVIOUS

\* A handle more.
LEMMA HandleMore ==
  ASSUME NEW S, IsFiniteSet(S), NEW x, x \notin S, NEW T, T = S \cup {x}
  PROVE  Cardinality(T) = Cardinality(S) + 1 /\ Cardinality(S) \in Nat
BY Zenon, FS_AddElement, FS_CardinalityType

\* A handle less.
LEMMA HandleLess ==
  ASSUME NEW S, IsFiniteSet(S), NEW x \in S, NEW T, T = S \ {x}
  PROVE  Cardinality(T) = Cardinality(S) - 1 /\ Cardinality(T) \in Nat
BY Zenon, FS_RemoveElement, FS_CardinalityType, FS_Subset

\* There are finitely many handles.
LEMMA LiveAreFinite == IsFiniteSet(Live) /\ IsFiniteSet(LiveSenders)
BY Zenon, WatchAssumption, FS_Subset DEF Live, LiveSenders

\* Initially there is one sender, and nothing is unseen.
LEMMA WatchStart == WatchInit => WatchIInv
<1> SUFFICES ASSUME WatchInit PROVE WatchIInv
  BY Zenon
<1>1. WatchTypeOK /\ VersionsOK /\ PendingOK
  <2>1. Width \in Nat /\ Width >= 2 /\ MaxVersion \in Nat
    BY WatchAssumption
  <2>2. /\ version = 0 /\ seen = [r \in Receivers |-> 0] /\ unseen = {} /\ senders = 1 /\ value \in Values
        /\ waiters = {} /\ closedWaiters = {} /\ awake = {} /\ senders \in Nat
        /\ sop \in [Senders -> {"idle", "none"}] /\ rop \in [Receivers -> {"idle", "none"}]
    BY Zenon DEF WatchInit
  <2>3. receivers \in Nat
    BY WatchAssumption, FS_Subset, FS_CardinalityType DEF WatchInit
  <2> QED BY <2>1, <2>2, <2>3
          DEF WatchTypeOK, VersionsOK, PendingOK, ChangeIsExact, Live
<1>2. senders = Cardinality(LiveSenders)
  <2>1. PICK s \in Senders : sop = [t \in Senders |-> IF t = s THEN "idle" ELSE "none"]
    BY Zenon DEF WatchInit
  <2>2. LiveSenders = {s}
    BY Zenon, <2>1 DEF LiveSenders
  <2> QED BY <2>2, FS_Singleton, Zenon DEF WatchInit
<1>3. receivers = Cardinality(Live)
  <2>1. PICK R \in SUBSET Receivers :
          /\ receivers = Cardinality(R)
          /\ rop = [r \in Receivers |-> IF r \in R THEN "idle" ELSE "none"]
    BY Zenon DEF WatchInit
  <2>2. Live = R
    BY Zenon, <2>1 DEF Live
  <2> QED BY Zenon, <2>1, <2>2
<1> QED BY Zenon, <1>1, <1>2, <1>3 DEF WatchIInv, CountsOK

\* A new version is unseen by every receiver and empties the waiters.
LEMMA PublishStep == ASSUME WatchIInv, NEW v \in Values, Publish(v) PROVE WatchIInv'
<1>1. /\ version \in Nat /\ Width \in Nat /\ version' = version + 1 /\ version' <= MaxVersion
      /\ MaxVersion \in Nat /\ MaxVersion + 2 <= Width
  <2>1. /\ version \in Nat /\ Width \in Nat /\ version + 1 <= MaxVersion
        /\ MaxVersion \in Nat /\ MaxVersion + 2 <= Width
    BY WatchAssumption DEF WatchIInv, VersionsOK, Publish
  <2>2. version + 1 \in 0..(Width - 1)
    BY <2>1
  <2>3. (version + 1) % Width = version + 1
    BY Zenon, <2>1, <2>2, NoWrap
  <2> QED BY Zenon, <2>1, <2>3 DEF Publish
<1>2. UNCHANGED <<senders, receivers, closedWaiters, seen, rop, sop>> /\ waiters' = {}
  BY Zenon DEF Publish
<1>3. WatchTypeOK'
  BY <1>1, <1>2 DEF WatchIInv, WatchTypeOK, Publish, Live
<1>4. VersionsOK'
  BY <1>1, <1>2 DEF WatchIInv, WatchTypeOK, VersionsOK, ChangeIsExact, Publish, Live
<1>5. CountsOK'
  BY Zenon, <1>2 DEF WatchIInv, CountsOK, Live, LiveSenders
<1>6. PendingOK'
  BY Zenon, <1>2 DEF WatchIInv, WatchTypeOK, PendingOK, Publish
<1> QED BY Zenon, <1>3, <1>4, <1>5, <1>6 DEF WatchIInv

\* A subscriber has seen the current version.
LEMMA SubscribeStep ==
  ASSUME WatchIInv, NEW s \in Senders, NEW r \in Receivers, Subscribe(s, r) PROVE WatchIInv'
<1>1. /\ rop[r] = "none" /\ rop' = [rop EXCEPT ![r] = "idle"] /\ receivers' = receivers + 1
      /\ seen' = [seen EXCEPT ![r] = version]
      /\ UNCHANGED <<value, version, senders, waiters, closedWaiters, sop, awake, unseen>>
  BY Zenon DEF Subscribe
<1>2. WatchTypeOK'
  BY <1>1 DEF WatchIInv, WatchTypeOK
<1>3. VersionsOK'
  BY <1>1 DEF WatchIInv, WatchTypeOK, VersionsOK, ChangeIsExact, Live
<1>4. CountsOK'
  <2>1. Live' = Live \cup {r} /\ r \notin Live /\ LiveSenders' = LiveSenders
    BY Zenon, <1>1 DEF Live, LiveSenders, WatchIInv, WatchTypeOK
  <2>2. Cardinality(Live') = Cardinality(Live) + 1
    BY Zenon, <2>1, LiveAreFinite, HandleMore
  <2> QED BY Zenon, <1>1, <2>1, <2>2 DEF WatchIInv, CountsOK
<1>5. PendingOK'
  BY <1>1 DEF WatchIInv, WatchTypeOK, PendingOK, Found
<1> QED BY Zenon, <1>2, <1>3, <1>4, <1>5 DEF WatchIInv

\* A clone of a sender counts.
LEMMA CloneSenderStep ==
  ASSUME WatchIInv, NEW s \in Senders, NEW t \in Senders, CloneSender(s, t) PROVE WatchIInv'
<1>1. /\ sop[t] = "none" /\ sop' = [sop EXCEPT ![t] = "idle"] /\ senders' = senders + 1
      /\ UNCHANGED <<value, version, receivers, waiters, closedWaiters, seen, rop, awake, unseen>>
  BY Zenon DEF CloneSender
<1>2. WatchTypeOK' /\ VersionsOK'
  BY <1>1 DEF WatchIInv, WatchTypeOK, VersionsOK, ChangeIsExact, Live
<1>3. CountsOK'
  <2>1. LiveSenders' = LiveSenders \cup {t} /\ t \notin LiveSenders /\ Live' = Live
    BY Zenon, <1>1 DEF Live, LiveSenders, WatchIInv, WatchTypeOK
  <2>2. Cardinality(LiveSenders') = Cardinality(LiveSenders) + 1
    BY Zenon, <2>1, LiveAreFinite, HandleMore
  <2> QED BY Zenon, <1>1, <2>1, <2>2 DEF WatchIInv, CountsOK
<1>4. PendingOK'
  BY <1>1 DEF WatchIInv, WatchTypeOK, PendingOK, Found
<1> QED BY Zenon, <1>2, <1>3, <1>4 DEF WatchIInv

\* The last sender wakes the receivers, which return an error.
LEMMA DropSenderStep ==
  ASSUME WatchIInv, NEW s \in Senders, DropSender(s) PROVE WatchIInv'
<1>1. /\ sop[s] = "idle" /\ sop' = [sop EXCEPT ![s] = "none"] /\ senders' = senders - 1
      /\ UNCHANGED <<value, version, receivers, closedWaiters, seen, rop, unseen>>
  BY Zenon DEF DropSender
<1>2. CountsOK' /\ senders' \in Nat
  <2>1. LiveSenders' = LiveSenders \ {s} /\ s \in LiveSenders /\ Live' = Live
    BY Zenon, <1>1 DEF Live, LiveSenders, WatchIInv, WatchTypeOK
  <2>2. Cardinality(LiveSenders') = Cardinality(LiveSenders) - 1 /\ Cardinality(LiveSenders') \in Nat
    BY Zenon, <2>1, LiveAreFinite, HandleLess
  <2> QED BY Zenon, <1>1, <2>1, <2>2 DEF WatchIInv, CountsOK
<1>3. /\ awake \subseteq awake' /\ awake' \subseteq awake \cup waiters /\ waiters' \subseteq waiters
      /\ senders' # 0 => waiters' = waiters
      /\ senders' = 0 => \A r \in waiters : rop[r] \in {"none", "idle"} \/ r \in awake'
  BY Zenon DEF DropSender
<1>4. WatchTypeOK' /\ VersionsOK'
  BY Zenon, <1>1, <1>2, <1>3 DEF WatchIInv, WatchTypeOK, VersionsOK, ChangeIsExact, Live
<1>5. PendingOK'
  BY Zenon, <1>1, <1>3 DEF WatchIInv, WatchTypeOK, PendingOK, Found
<1> QED BY Zenon, <1>2, <1>4, <1>5 DEF WatchIInv

\* A clone of a receiver has seen what the original has.
LEMMA CloneReceiverStep ==
  ASSUME WatchIInv, NEW r \in Receivers, NEW q \in Receivers, CloneReceiver(r, q)
  PROVE  WatchIInv'
<1>1. /\ rop[r] = "idle" /\ rop[q] = "none" /\ rop' = [rop EXCEPT ![q] = "idle"]
      /\ receivers' = receivers + 1 /\ seen' = [seen EXCEPT ![q] = seen[r]]
      /\ unseen' = IF r \in unseen THEN unseen \cup {q} ELSE unseen
      /\ UNCHANGED <<value, version, senders, waiters, closedWaiters, sop, awake>>
  BY Zenon DEF CloneReceiver
<1>2. WatchTypeOK'
  BY <1>1 DEF WatchIInv, WatchTypeOK
<1>3. VersionsOK'
  BY Zenon, <1>1 DEF WatchIInv, WatchTypeOK, VersionsOK, ChangeIsExact, Live
<1>4. CountsOK'
  <2>1. Live' = Live \cup {q} /\ q \notin Live /\ LiveSenders' = LiveSenders
    BY Zenon, <1>1 DEF Live, LiveSenders, WatchIInv, WatchTypeOK
  <2>2. Cardinality(Live') = Cardinality(Live) + 1
    BY Zenon, <2>1, LiveAreFinite, HandleMore
  <2> QED BY Zenon, <1>1, <2>1, <2>2 DEF WatchIInv, CountsOK
<1>5. PendingOK'
  BY <1>1 DEF WatchIInv, WatchTypeOK, PendingOK, Found
<1> QED BY Zenon, <1>2, <1>3, <1>4, <1>5 DEF WatchIInv

\* The last receiver wakes the senders that wait for it.
LEMMA DropReceiverStep ==
  ASSUME WatchIInv, NEW r \in Receivers, DropReceiver(r) PROVE WatchIInv'
<1>1. /\ rop[r] = "idle" /\ rop' = [rop EXCEPT ![r] = "none"] /\ receivers' = receivers - 1
      /\ seen' = [seen EXCEPT ![r] = 0] /\ unseen' = unseen \ {r}
      /\ UNCHANGED <<value, version, senders, waiters, sop>>
  BY Zenon DEF DropReceiver
<1>2. CountsOK' /\ receivers' \in Nat
  <2>1. Live' = Live \ {r} /\ r \in Live /\ LiveSenders' = LiveSenders
    BY Zenon, <1>1 DEF Live, LiveSenders, WatchIInv, WatchTypeOK
  <2>2. Cardinality(Live') = Cardinality(Live) - 1 /\ Cardinality(Live') \in Nat
    BY Zenon, <2>1, LiveAreFinite, HandleLess
  <2> QED BY Zenon, <1>1, <2>1, <2>2 DEF WatchIInv, CountsOK
<1>3. /\ awake \subseteq awake' /\ awake' \subseteq awake \cup closedWaiters
      /\ closedWaiters' \subseteq closedWaiters
      /\ receivers' # 0 => closedWaiters' = closedWaiters
      /\ receivers' = 0 => \A s \in closedWaiters : sop[s] # "closed" \/ s \in awake'
  BY Zenon DEF DropReceiver
<1>4. WatchTypeOK'
  <2>1. 0 \in 0..(Width - 1)
    BY WatchAssumption
  <2> QED BY Zenon, <1>1, <1>2, <1>3, <2>1 DEF WatchIInv, WatchTypeOK
<1>5. VersionsOK'
  BY <1>1 DEF WatchIInv, WatchTypeOK, VersionsOK, ChangeIsExact, Live
<1>6. PendingOK'
  BY Zenon, <1>1, <1>3 DEF WatchIInv, WatchTypeOK, PendingOK, Found
<1> QED BY Zenon, <1>2, <1>4, <1>5, <1>6 DEF WatchIInv

\* What a sender awaits changes nothing for the receivers.
LEMMA SenderStep ==
  ASSUME WatchIInv, NEW s \in Senders, AwaitClosed(s) \/ PollClosed(s) \/ AbandonClosed(s)
  PROVE  WatchIInv'
<1>1. /\ UNCHANGED <<value, version, senders, receivers, waiters, seen, rop, unseen>>
      /\ sop[s] # "none" /\ sop' \in {[sop EXCEPT ![s] = "idle"], [sop EXCEPT ![s] = "closed"], sop}
  BY Zenon DEF AwaitClosed, PollClosed, AbandonClosed
<1>2. WatchTypeOK'
  BY Zenon, <1>1 DEF WatchIInv, WatchTypeOK, AwaitClosed, PollClosed, AbandonClosed
<1>3. VersionsOK' /\ CountsOK'
  <2>1. Live' = Live /\ LiveSenders' = LiveSenders
    BY Zenon, <1>1 DEF WatchIInv, WatchTypeOK, Live, LiveSenders
  <2> QED BY Zenon, <1>1, <2>1 DEF WatchIInv, VersionsOK, ChangeIsExact, CountsOK
<1>4. PendingOK'
  BY <1>1, WatchAssumption
     DEF WatchIInv, WatchTypeOK, PendingOK, Found, AwaitClosed, PollClosed, AbandonClosed
<1> QED BY Zenon, <1>2, <1>3, <1>4 DEF WatchIInv

\* What a receiver does changes what it has seen itself.
LEMMA ReceiverStep ==
  ASSUME WatchIInv, NEW r \in Receivers,
         \/ Update(r) \/ MarkChanged(r) \/ PollReceiver(r) \/ AbandonReceiver(r)
         \/ \E o \in {"changed", "wait_for"} : Await(r, o)
  PROVE  WatchIInv'
<1>1. /\ UNCHANGED <<value, version, senders, receivers, closedWaiters, sop>>
      /\ rop[r] # "none" /\ \A q \in Receivers \ {r} : rop'[q] = rop[q] /\ seen'[q] = seen[q]
      /\ rop'[r] \in {"idle", "changed", "wait_for"}
      /\ rop' \in [Receivers -> {"none", "idle", "changed", "wait_for"}]
  BY Zenon DEF Update, MarkChanged, PollReceiver, AbandonReceiver, Await, Look, WatchIInv, WatchTypeOK
<1>2. /\ Width \in Nat /\ Width >= 2 /\ MaxVersion \in Nat /\ MaxVersion + 2 <= Width
      /\ version \in Nat /\ version <= MaxVersion
  BY WatchAssumption DEF WatchIInv, VersionsOK
<1>3. \/ seen' = seen /\ unseen' = unseen
      \/ seen' = [seen EXCEPT ![r] = version] /\ unseen' = unseen \ {r}
      \/ /\ seen' = [seen EXCEPT ![r] = IF version = 0 THEN Width - 1 ELSE version - 1]
         /\ unseen' = unseen \cup {r}
  <2>1. (version - 1) % Width = IF version = 0 THEN Width - 1 ELSE version - 1
    <3>1. CASE version = 0
      <4>1. Width \in Nat \ {0}
        BY <1>2
      <4>2. (0 - 1) % Width = Width - 1
        BY <4>1, WrapsDown, Zenon
      <4> QED BY Zenon, <3>1, <4>2
    <3>2. CASE version # 0
      <4>1. version - 1 \in 0..(Width - 1)
        BY <1>2, <3>2
      <4> QED BY Zenon, <1>2, <3>2, <4>1, NoWrap
    <3> QED BY Zenon, <3>1, <3>2
  <2> QED BY Zenon, <2>1 DEF Update, MarkChanged, PollReceiver, AbandonReceiver, Await, Look
<1>4. WatchTypeOK'
  BY <1>1, <1>2, <1>3
     DEF WatchIInv, WatchTypeOK, Update, MarkChanged, PollReceiver, AbandonReceiver, Await, Look
<1>5. Live' = Live /\ LiveSenders' = LiveSenders /\ r \in Live
  BY Zenon, <1>1 DEF WatchIInv, WatchTypeOK, Live, LiveSenders
<1>6. VersionsOK'
  <2>1. CASE seen' = seen /\ unseen' = unseen
    BY Zenon, <1>1, <1>5, <2>1 DEF WatchIInv, VersionsOK, ChangeIsExact
  <2>2. CASE seen' = [seen EXCEPT ![r] = version] /\ unseen' = unseen \ {r}
    BY <1>1, <1>2, <1>5, <2>2 DEF WatchIInv, WatchTypeOK, VersionsOK, ChangeIsExact
  <2>3. CASE /\ seen' = [seen EXCEPT ![r] = IF version = 0 THEN Width - 1 ELSE version - 1]
             /\ unseen' = unseen \cup {r}
    <3>1. /\ seen'[r] # version /\ (seen'[r] \in 0..version \/ seen'[r] = Width - 1)
          /\ \A q \in Receivers \ {r} : seen'[q] = seen[q]
      BY <1>2, <2>3 DEF WatchIInv, WatchTypeOK
    <3>2. unseen' \subseteq Live' /\ version' \in 0..MaxVersion /\ \A q \in Receivers : seen[q] \in 0..version \/ seen[q] = Width - 1
      BY Zenon, <1>1, <1>5, <2>3 DEF WatchIInv, VersionsOK
    <3>3. ChangeIsExact'
      BY <1>1, <1>5, <2>3, <3>1 DEF WatchIInv, VersionsOK, ChangeIsExact
    <3> QED BY Zenon, <1>1, <3>1, <3>2, <3>3 DEF VersionsOK
  <2> QED BY <1>3, <2>1, <2>2, <2>3, Zenon
<1>7. CountsOK'
  BY <1>1, <1>5, Zenon DEF WatchIInv, CountsOK
<1>8. PendingOK'
  BY <1>1, <1>3, WatchAssumption
     DEF WatchIInv, WatchTypeOK, PendingOK, Found, Update, MarkChanged, PollReceiver, AbandonReceiver,
         Await, Look
<1> QED BY Zenon, <1>4, <1>6, <1>7, <1>8 DEF WatchIInv

\* Every operation of a handle preserves the invariant.
LEMMA WatchNextInv == WatchIInv /\ [WatchNext]_watchVars => WatchIInv'
<1> SUFFICES ASSUME WatchIInv, [WatchNext]_watchVars PROVE WatchIInv'
  BY Zenon
<1>1. CASE UNCHANGED watchVars
  BY Zenon, <1>1 DEF watchVars, WatchIInv, WatchTypeOK, VersionsOK, ChangeIsExact, CountsOK, PendingOK,
              Found, Live, LiveSenders
<1>2. ASSUME NEW s \in Senders, NEW v \in Values, Send(s, v) \/ SendAnyway(s, v) PROVE WatchIInv'
  BY Zenon, <1>2, PublishStep DEF Send, SendAnyway
<1>3. CASE WatchNext
  BY Zenon, <1>2, <1>3, SubscribeStep, CloneSenderStep, DropSenderStep, SenderStep, ReceiverStep,
     CloneReceiverStep, DropReceiverStep DEF WatchNext
<1> QED BY Zenon, <1>1, <1>3

\* For any number of handles and fewer than 2^64 - 1 versions: has_changed is
\* true exactly for the receivers that have not seen the current value, and
\* changed, wait_for and closed wake up for what they wait for.
THEOREM WatchTellsEveryChange == WatchSpec => []WatchIsExact
<1>1. WatchIInv => WatchIsExact
  BY Zenon DEF WatchIInv, VersionsOK, PendingOK, WatchIsExact, WatchWakes
<1> QED BY <1>1, WatchStart, WatchNextInv, PTL DEF WatchSpec

-----------------------------------------------------------------------------
(* The oneshot channel.                                                    *)

\* How the history of the channel shows in its state: a sender that is left has
\* sent nothing, a receiver has returned a value iff it says so, and it has
\* given up only on a channel that is closed for good.
HistoryOK ==
  /\ HasSender => senderAlive /\ sent = Nothing
  /\ received # Nothing <=> rx = "got"
  /\ rx = "got" => received = sent /\ slot = Nothing /\ sent # Nothing
  /\ rx = "closed" => slot = Nothing /\ sent = Nothing /\ (~senderAlive \/ ~receiverAlive)
  /\ rx # "got" => slot = sent

\* Who sleeps is woken or will be: its last waker is stored.
SleepersOK ==
  /\ rx \in {"parked", "blocked"} => receiverAlive
  /\ rx = "parked" => rxWoken \/ rxTask \in recvWaker
  /\ tx = "parked" => txWoken \/ txTask \in closeWaker

\* Both, and that no wake-up is lost on the way.
OneshotIInv == OneshotTypeOK /\ HistoryOK /\ SleepersOK /\ OneshotWakes

\* Initially nothing was sent.
LEMMA OneshotStart == OneshotInit => OneshotIInv
BY OneshotAssumption, Zenon
   DEF OneshotInit, OneshotIInv, OneshotTypeOK, HistoryOK, SleepersOK, OneshotWakes, HasSender, Empty

\* Every operation of either half preserves the invariant.
LEMMA OneshotNextInv == OneshotIInv /\ [OneshotNext]_oneshotVars => OneshotIInv'
<1> SUFFICES ASSUME OneshotIInv, [OneshotNext]_oneshotVars PROVE OneshotIInv'
  BY Zenon
<1> USE OneshotAssumption
    DEF OneshotIInv, OneshotTypeOK, HistoryOK, SleepersOK, OneshotWakes, HasSender, HasReceiver,
        Empty, senderSide, receiverSide
<1>1. ASSUME NEW v \in Messages, SendOne(v) PROVE OneshotIInv'
  BY <1>1, Zenon DEF SendOne, WakeReceiver
<1>2. CASE DropOneSender
  BY <1>2, Zenon DEF DropOneSender, WakeReceiver
<1>3. ASSUME NEW t \in Pollers, PollOneClosed(t) PROVE OneshotIInv'
  BY <1>3, Zenon DEF PollOneClosed
<1>4. ASSUME NEW t \in Pollers, PollOneReceiver(t) PROVE OneshotIInv'
  BY <1>4, Zenon DEF PollOneReceiver, TakeSlot
<1>5. CASE TryRecv
  BY Zenon, <1>5 DEF TryRecv, TakeSlot
<1>6. CASE BlockingRecv
  BY <1>6, Zenon DEF BlockingRecv, TakeSlot
<1>7. CASE WakeWaiter
  BY Zenon, <1>7 DEF WakeWaiter, WakeReceiver
<1>8. CASE CloseOne
  BY <1>8, Zenon DEF CloseOne, WakeSender
<1>9. CASE DropOneReceiver
  BY <1>9, Zenon DEF DropOneReceiver, WakeSender
<1>10. CASE UNCHANGED oneshotVars
  BY <1>10 DEF oneshotVars, inner
<1> HIDE DEF OneshotIInv
<1> QED BY <1>1, <1>2, <1>3, <1>4, <1>5, <1>6, <1>7, <1>8, <1>9, <1>10, Zenon
    DEF OneshotNext

\* For any messages and polling tasks: the receiver gets what was sent, once, an
\* error only when nothing will come, and neither half sleeps through what the
\* other one did.
THEOREM OneshotDeliversOnce == OneshotSpec => []OneshotDelivers
<1>1. OneshotIInv => OneshotDelivers
  BY Zenon DEF OneshotIInv, OneshotTypeOK, HistoryOK, OneshotDelivers, SentExactlyOnce
<1> QED BY <1>1, OneshotStart, OneshotNextInv, PTL DEF OneshotSpec

-----------------------------------------------------------------------------
(* The broadcast channel.                                                  *)

\* The ring holds the last messages, as many as fit.
RingOK ==
  /\ Len(bQueue) = IF nextSeq < Capacity THEN nextSeq ELSE Capacity
  /\ \A i \in DOMAIN bQueue : bQueue[i] = nextSeq - Len(bQueue) + i - 1

\* Each cursor accounts for what lies behind it; a handle that does not exist has
\* received nothing.
CursorOK(r) ==
  /\ since[r] <= next[r] /\ next[r] <= nextSeq
  /\ got[r] \subseteq since[r]..(next[r] - 1)
  /\ Cardinality(got[r]) + missed[r] = next[r] - since[r]
  /\ bRop[r] = "none" => got[r] = {} /\ missed[r] = 0

\* A pending future is awake, or registered where the event it waits for wakes it.
RecvOK(r) ==
  bRop[r] = "recv" => r \in bAwake \/ (r \in bWaiters /\ next[r] = nextSeq /\ bSenders # 0)
ClosedOK(s) ==
  bSop[s] = "closed" => s \in bAwake \/ (s \in bCloseWaiters /\ bReceivers # 0)

BroadcastIInv ==
  /\ BroadcastTypeOK /\ HandlesAreCounted /\ RingOK
  /\ \A r \in Subscribers : CursorOK(r) /\ RecvOK(r)
  /\ \A s \in Publishers : ClosedOK(s)

\* There is something ahead of a cursor unless it is at the end, and the oldest
\* message ahead is at the cursor or beyond it.
LEMMA AheadIs ==
  ASSUME BroadcastTypeOK, RingOK, NEW r \in Subscribers, CursorOK(r)
  PROVE  /\ Ahead(r) = {} <=> next[r] = nextSeq
         /\ Ahead(r) # {} => Oldest(r) \in Nat /\ next[r] <= Oldest(r) /\ Oldest(r) < nextSeq
<1> DEFINE n == Len(bQueue)
<1>1. /\ n \in Nat /\ DOMAIN bQueue = 1..n /\ nextSeq \in Nat /\ next[r] \in Nat
      /\ next[r] <= nextSeq
  BY DEF BroadcastTypeOK, CursorOK
<1>2. n <= nextSeq /\ (nextSeq # 0 => n # 0)
  BY <1>1, BroadcastAssumption DEF RingOK
<1>3. \A i \in 1..n : bQueue[i] = nextSeq - n + i - 1
  BY Zenon, <1>1 DEF RingOK
<1> HIDE DEF n
<1>4. CASE next[r] = nextSeq
  <2>1. \A i \in 1..n : ~(bQueue[i] >= next[r])
    BY <1>1, <1>3, <1>4
  <2> QED BY Zenon, <1>1, <1>4, <2>1 DEF Ahead
<1>5. CASE next[r] < nextSeq
  <2>1. PICK m \in 1..n :
          bQueue[m] >= next[r] /\ \A j \in 1..n : bQueue[j] >= next[r] => m <= j
    <3>1. CASE next[r] <= nextSeq - n
      <4>1. 1 \in 1..n /\ bQueue[1] >= next[r]
        BY <1>1, <1>2, <1>3, <1>5, <3>1
      <4> QED BY <4>1
    <3>2. CASE next[r] > nextSeq - n
      <4> DEFINE k == next[r] - (nextSeq - n) + 1
      <4>1. k \in 1..n /\ \A j \in 1..n : bQueue[j] >= next[r] <=> k <= j
        BY <1>1, <1>2, <1>3, <1>5, <3>2
      <4>2. k <= k
        BY <4>1
      <4> HIDE DEF k
      <4> QED BY Zenon, <4>1, <4>2
    <3> QED BY <1>1, <3>1, <3>2
  <2>2. m \in Ahead(r) /\ \A j \in Ahead(r) : m <= j
    BY Zenon, <1>1, <2>1 DEF Ahead
  <2>3. PICK c \in Ahead(r) : Oldest(r) = bQueue[c]
    BY Zenon, <2>2 DEF Oldest
  <2>4. c \in 1..n /\ bQueue[c] >= next[r]
    BY Zenon, <1>1, <2>3 DEF Ahead
  <2>5. bQueue[c] \in Nat /\ next[r] <= bQueue[c] /\ bQueue[c] < nextSeq
    BY <1>1, <1>2, <1>3, <2>4
  <2>6. next[r] # nextSeq
    BY <1>1, <1>5
  <2> QED BY Zenon, <2>2, <2>3, <2>5, <2>6
<1> QED BY <1>1, <1>4, <1>5

\* The channel starts empty, with one sender.
LEMMA BroadcastStart == BroadcastInit => BroadcastIInv
<1> SUFFICES ASSUME BroadcastInit PROVE BroadcastIInv
  BY Zenon
<1>1. PICK s \in Publishers : bSop = [t \in Publishers |-> IF t = s THEN "idle" ELSE "none"]
  BY Zenon DEF BroadcastInit
<1>2. PICK R \in SUBSET Subscribers :
        /\ bReceivers = Cardinality(R)
        /\ bRop = [r \in Subscribers |-> IF r \in R THEN "idle" ELSE "none"]
  BY Zenon DEF BroadcastInit
<1>3. LivePublishers = {s} /\ LiveSubscribers = R
  BY Zenon, <1>1, <1>2 DEF LivePublishers, LiveSubscribers
<1>4. bReceivers \in Nat /\ Cardinality({s}) = 1 /\ Cardinality({}) = 0
  BY Zenon, <1>2, FS_Subset, FS_CardinalityType, FS_Singleton, FS_EmptySet, BroadcastAssumption
<1>5. /\ bQueue = <<>> /\ nextSeq = 0 /\ bSenders = 1 /\ bWaiters = {} /\ bCloseWaiters = {}
      /\ bAwake = {} /\ next = [r \in Subscribers |-> 0] /\ since = next /\ missed = next
      /\ got = [r \in Subscribers |-> {}]
  BY Zenon DEF BroadcastInit
<1>6. BroadcastTypeOK
  BY <1>1, <1>2, <1>4, <1>5, BroadcastAssumption DEF BroadcastTypeOK
<1>7. RingOK
  BY <1>5, BroadcastAssumption DEF RingOK
<1>8. ASSUME NEW r \in Subscribers PROVE CursorOK(r) /\ RecvOK(r)
  <2>1. next[r] = 0 /\ since[r] = 0 /\ missed[r] = 0 /\ got[r] = {} /\ bRop[r] # "recv"
    BY Zenon, <1>2, <1>5
  <2>2. CursorOK(r)
    BY <1>4, <1>5, <2>1 DEF CursorOK
  <2> QED BY Zenon, <2>1, <2>2 DEF RecvOK
<1>9. ASSUME NEW t \in Publishers PROVE ClosedOK(t)
  BY Zenon, <1>1 DEF ClosedOK
<1> QED BY Zenon, <1>3, <1>4, <1>2, <1>5, <1>6, <1>7, <1>8, <1>9 DEF BroadcastIInv, HandlesAreCounted

\* There are finitely many handles.
LEMMA HandlesAreFinite == IsFiniteSet(LivePublishers) /\ IsFiniteSet(LiveSubscribers)
BY Zenon, BroadcastAssumption, FS_Subset DEF LivePublishers, LiveSubscribers

\* A cursor that a step leaves alone still accounts for what lies behind it.
LEMMA CursorStays ==
  ASSUME BroadcastTypeOK, NEW r \in Subscribers, CursorOK(r), next'[r] = next[r],
         since'[r] = since[r], got'[r] = got[r], missed'[r] = missed[r],
         nextSeq' \in Nat, nextSeq <= nextSeq', bRop'[r] = "none" => bRop[r] = "none"
  PROVE  CursorOK(r)'
<1>1. next[r] \in Nat /\ nextSeq \in Nat
  BY DEF BroadcastTypeOK
<1>2. next'[r] <= nextSeq'
  BY <1>1 DEF CursorOK
<1> QED BY Zenon, <1>2 DEF CursorOK

\* push_locked keeps the ring's messages consecutive.
LEMMA PushKeepsRing ==
  ASSUME BroadcastTypeOK, RingOK, Push
  PROVE  RingOK' /\ bQueue' \in Seq(Nat) /\ nextSeq' \in 0..MaxSeq /\ nextSeq' = nextSeq + 1
<1> DEFINE n == Len(bQueue)
           q == Append(bQueue, nextSeq)
<1>1. /\ n \in Nat /\ DOMAIN bQueue = 1..n /\ nextSeq \in Nat /\ bQueue \in Seq(Nat)
      /\ Capacity \in Nat \ {0} /\ nextSeq' \in 0..MaxSeq /\ nextSeq' = nextSeq + 1
  BY BroadcastAssumption DEF BroadcastTypeOK, Push
<1>2. /\ n = (IF nextSeq < Capacity THEN nextSeq ELSE Capacity)
      /\ \A i \in 1..n : bQueue[i] = nextSeq - n + i - 1
  BY Zenon, <1>1 DEF RingOK
<1>3. /\ q \in Seq(Nat) /\ Len(q) = n + 1 /\ DOMAIN q = 1..(n + 1)
      /\ \A i \in 1..n : q[i] = bQueue[i]
      /\ q[n + 1] = nextSeq
  BY <1>1
<1>4. bQueue' = IF Len(q) > Capacity THEN Tail(q) ELSE q
  BY Zenon DEF Push
<1> HIDE DEF n, q
<1>5. \A i \in 1..(n + 1) : q[i] = nextSeq - n + i - 1
  BY <1>1, <1>2, <1>3
<1>6. CASE nextSeq < Capacity
  <2>1. bQueue' = q /\ n + 1 = nextSeq' /\ n = nextSeq
    BY <1>1, <1>2, <1>3, <1>4, <1>6
  <2>2. Len(bQueue') = IF nextSeq' < Capacity THEN nextSeq' ELSE Capacity
    BY <1>1, <1>3, <1>6, <2>1
  <2>3. \A i \in DOMAIN bQueue' : bQueue'[i] = nextSeq' - Len(bQueue') + i - 1
    BY <1>1, <1>3, <1>5, <2>1
  <2> QED BY Zenon, <1>1, <1>3, <2>1, <2>2, <2>3 DEF RingOK
<1>7. CASE ~(nextSeq < Capacity)
  <2>1. bQueue' = Tail(q) /\ n = Capacity
    BY <1>1, <1>2, <1>3, <1>4, <1>7
  <2>2. q # <<>>
    BY <1>1, <1>3
  <2>3. /\ Tail(q) \in Seq(Nat) /\ Len(Tail(q)) = n /\ DOMAIN Tail(q) = 1..n
        /\ \A i \in 1..n : Tail(q)[i] = q[i + 1]
    BY <1>1, <1>3, <2>2
  <2>4. Len(bQueue') = IF nextSeq' < Capacity THEN nextSeq' ELSE Capacity
    BY <1>1, <1>7, <2>1, <2>3
  <2>5. \A i \in 1..n : q[i + 1] = nextSeq' - n + i - 1
    BY <1>1, <1>5
  <2>6. \A i \in DOMAIN bQueue' : bQueue'[i] = nextSeq' - Len(bQueue') + i - 1
    BY Zenon, <2>1, <2>3, <2>5
  <2> QED BY Zenon, <1>1, <2>1, <2>3, <2>4, <2>6 DEF RingOK
<1> QED BY Zenon, <1>6, <1>7

\* send: whoever was registered is awake.
LEMMA SendMessageStep ==
  ASSUME BroadcastIInv, NEW s \in Publishers, SendMessage(s) PROVE BroadcastIInv'
<1>1. /\ bAwake' = bAwake \cup {r \in bWaiters : bRop[r] = "recv"} /\ bWaiters' = {}
      /\ UNCHANGED <<bSenders, bReceivers, bCloseWaiters, next, bRop, bSop, bHistory>>
  BY Zenon DEF SendMessage, WakeReceivers
<1>2. RingOK' /\ bQueue' \in Seq(Nat) /\ nextSeq' \in 0..MaxSeq /\ nextSeq' = nextSeq + 1
  BY Zenon, PushKeepsRing DEF SendMessage, BroadcastIInv
<1>3. nextSeq' \in Nat /\ nextSeq <= nextSeq'
  BY <1>2 DEF BroadcastIInv, BroadcastTypeOK
<1>4. BroadcastTypeOK'
  BY Zenon, <1>1, <1>2 DEF BroadcastIInv, BroadcastTypeOK, bHistory
<1>5. HandlesAreCounted'
  BY Zenon, <1>1 DEF BroadcastIInv, HandlesAreCounted, LivePublishers, LiveSubscribers
<1>6. ASSUME NEW r \in Subscribers PROVE CursorOK(r)' /\ RecvOK(r)'
  <2>1. CursorOK(r)'
    BY Zenon, <1>1, <1>3, CursorStays DEF BroadcastIInv, bHistory
  <2>2. RecvOK(r)'
    BY Zenon, <1>1 DEF BroadcastIInv, RecvOK
  <2> QED BY Zenon, <2>1, <2>2
<1>7. ASSUME NEW t \in Publishers PROVE ClosedOK(t)'
  BY Zenon, <1>1 DEF BroadcastIInv, ClosedOK
<1> QED BY Zenon, <1>2, <1>4, <1>5, <1>6, <1>7 DEF BroadcastIInv

\* A step of a sender that sends nothing leaves the messages and cursors alone.
LEMMA PublisherStep ==
  ASSUME BroadcastIInv, UNCHANGED <<bRing, bReceivers, next, bRop, bHistory>>,
         bSenders' \in Nat, bWaiters' \subseteq Subscribers, bCloseWaiters' \subseteq Publishers,
         bSop' \in [Publishers -> {"none", "idle", "closed"}],
         bAwake' \subseteq Subscribers \cup Publishers, bSenders' = Cardinality(LivePublishers'),
         \A r \in Subscribers : RecvOK(r)', \A t \in Publishers : ClosedOK(t)'
  PROVE  BroadcastIInv'
<1>1. BroadcastTypeOK'
  BY Zenon DEF BroadcastIInv, BroadcastTypeOK, bRing, bHistory
<1>2. HandlesAreCounted'
  BY Zenon DEF BroadcastIInv, HandlesAreCounted, LiveSubscribers
<1>3. RingOK'
  BY Zenon DEF BroadcastIInv, RingOK, bRing
<1>4. ASSUME NEW r \in Subscribers PROVE CursorOK(r)'
  BY Zenon DEF BroadcastIInv, CursorOK, bRing, bHistory
<1> QED BY Zenon, <1>1, <1>2, <1>3, <1>4 DEF BroadcastIInv

\* The last sender that goes wakes the receivers.
LEMMA DropPublisherStep ==
  ASSUME BroadcastIInv, NEW s \in Publishers, DropPublisher(s) PROVE BroadcastIInv'
<1>1. /\ bSop[s] = "idle" /\ bSop' = [bSop EXCEPT ![s] = "none"] /\ bSenders' = bSenders - 1
      /\ UNCHANGED <<bRing, bReceivers, bCloseWaiters, next, bRop, bHistory>>
  BY Zenon DEF DropPublisher
<1>2. bSop \in [Publishers -> {"none", "idle", "closed"}] /\ bSenders \in Nat
      /\ bWaiters \subseteq Subscribers /\ bCloseWaiters \subseteq Publishers
      /\ bAwake \subseteq Subscribers \cup Publishers
  BY Zenon DEF BroadcastIInv, BroadcastTypeOK
<1>3. /\ bSop' \in [Publishers -> {"none", "idle", "closed"}]
      /\ bSop'[s] = "none" /\ \A t \in Publishers : t # s => bSop'[t] = bSop[t]
  BY Zenon, <1>1, <1>2
<1>4. LivePublishers' = LivePublishers \ {s} /\ s \in LivePublishers
  BY Zenon, <1>1, <1>3 DEF LivePublishers
<1>5. bSenders' = Cardinality(LivePublishers') /\ bSenders' \in Nat
  BY Zenon, <1>1, <1>4, HandlesAreFinite, HandleLess DEF BroadcastIInv, HandlesAreCounted
<1>6. /\ bWaiters' \subseteq Subscribers /\ bAwake' \subseteq Subscribers \cup Publishers
      /\ bAwake \subseteq bAwake'
      /\ bSenders' # 0 => UNCHANGED <<bAwake, bWaiters>>
      /\ bSenders' = 0 => bAwake' = bAwake \cup {r \in bWaiters : bRop[r] = "recv"}
  BY Zenon, <1>2 DEF DropPublisher, WakeReceivers
<1>7. ASSUME NEW r \in Subscribers PROVE RecvOK(r)'
  BY Zenon, <1>1, <1>6 DEF BroadcastIInv, RecvOK, bRing
<1>8. ASSUME NEW t \in Publishers PROVE ClosedOK(t)'
  BY Zenon, <1>1, <1>3, <1>6 DEF BroadcastIInv, ClosedOK
<1> QED BY Zenon, <1>1, <1>2, <1>3, <1>5, <1>6, <1>7, <1>8, PublisherStep

\* A sender more.
LEMMA NewPublisherStep ==
  ASSUME BroadcastIInv, NEW s \in Publishers, NewPublisher(s) PROVE BroadcastIInv'
<1>1. /\ bSop[s] = "none" /\ bSop' = [bSop EXCEPT ![s] = "idle"] /\ bSenders' = bSenders + 1
      /\ UNCHANGED <<bRing, bReceivers, bWakers, next, bRop, bAwake, bHistory>>
  BY Zenon DEF NewPublisher
<1>2. bSop \in [Publishers -> {"none", "idle", "closed"}] /\ bSenders \in Nat
      /\ bWaiters \subseteq Subscribers /\ bCloseWaiters \subseteq Publishers
      /\ bAwake \subseteq Subscribers \cup Publishers
  BY Zenon DEF BroadcastIInv, BroadcastTypeOK
<1>3. /\ bSop' \in [Publishers -> {"none", "idle", "closed"}]
      /\ bSop'[s] = "idle" /\ \A t \in Publishers : t # s => bSop'[t] = bSop[t]
  BY Zenon, <1>1, <1>2
<1>4. LivePublishers' = LivePublishers \cup {s} /\ s \notin LivePublishers
  BY Zenon, <1>1, <1>3 DEF LivePublishers
<1>5. bSenders' = Cardinality(LivePublishers')
  BY Zenon, <1>1, <1>4, HandlesAreFinite, HandleMore DEF BroadcastIInv, HandlesAreCounted
<1>6. bSenders' \in Nat /\ bSenders' # 0
  BY <1>1, <1>2
<1>7. ASSUME NEW r \in Subscribers PROVE RecvOK(r)'
  BY Zenon, <1>1, <1>6 DEF BroadcastIInv, RecvOK, bRing, bWakers
<1>8. ASSUME NEW t \in Publishers PROVE ClosedOK(t)'
  BY Zenon, <1>1, <1>3 DEF BroadcastIInv, ClosedOK, bWakers
<1> QED BY Zenon, <1>1, <1>2, <1>3, <1>5, <1>6, <1>7, <1>8, PublisherStep DEF bWakers

\* closed, its poll and its drop: only the future of s is concerned, and s is
\* not a receiver.
LEMMA AwaitNoReceiverStep ==
  ASSUME BroadcastIInv, NEW s \in Publishers,
         AwaitNoReceiver(s) \/ PollNoReceiver(s) \/ AbandonNoReceiver(s)
  PROVE  BroadcastIInv'
<1>1. PICK o \in {"idle", "closed"} :
        /\ bSop[s] # "none" /\ bSop' = [bSop EXCEPT ![s] = o]
        /\ bAwake' \in {bAwake \cup {s}, bAwake \ {s}}
        /\ bCloseWaiters' \in {bCloseWaiters, bCloseWaiters \cup {s}}
        /\ o = "closed" => s \in bAwake' \/ (s \in bCloseWaiters' /\ bReceivers > 0)
        /\ UNCHANGED <<bRing, bSenders, bReceivers, bWaiters, next, bRop, bHistory>>
  <2>1. bSop \in [Publishers -> {"none", "idle", "closed"}]
    BY Zenon DEF BroadcastIInv, BroadcastTypeOK
  <2>2. CASE AwaitNoReceiver(s)
    BY Zenon, <2>2 DEF AwaitNoReceiver, bWakers
  <2>3. CASE PollNoReceiver(s)
    <3>1. CASE bReceivers = 0 /\ bSop' = [bSop EXCEPT ![s] = "idle"] /\ UNCHANGED bCloseWaiters
      BY Zenon, <2>3, <3>1 DEF PollNoReceiver
    <3>2. CASE bReceivers > 0 /\ bCloseWaiters' = bCloseWaiters \cup {s} /\ UNCHANGED bSop
      <4>1. bSop' = [bSop EXCEPT ![s] = "closed"] /\ bSop[s] = "closed"
        BY Zenon, <2>1, <2>3, <3>2 DEF PollNoReceiver
      <4> QED BY Zenon, <2>3, <3>2, <4>1 DEF PollNoReceiver
    <3> QED BY Zenon, <2>3, <3>1, <3>2 DEF PollNoReceiver
  <2>4. CASE AbandonNoReceiver(s)
    BY Zenon, <2>4 DEF AbandonNoReceiver, bWakers
  <2> QED BY Zenon, <2>2, <2>3, <2>4
<1>2. bSop \in [Publishers -> {"none", "idle", "closed"}] /\ bSenders \in Nat /\ bReceivers \in Nat
      /\ bWaiters \subseteq Subscribers /\ bCloseWaiters \subseteq Publishers
      /\ bAwake \subseteq Subscribers \cup Publishers
  BY Zenon DEF BroadcastIInv, BroadcastTypeOK
<1>3. /\ bSop' \in [Publishers -> {"none", "idle", "closed"}]
      /\ bSop'[s] = o /\ \A t \in Publishers : t # s => bSop'[t] = bSop[t]
  BY Zenon, <1>1, <1>2
<1>4. LivePublishers' = LivePublishers
  BY Zenon, <1>1, <1>3 DEF LivePublishers
<1>5. bSenders' = Cardinality(LivePublishers')
  BY Zenon, <1>1, <1>4 DEF BroadcastIInv, HandlesAreCounted
<1>6. /\ bCloseWaiters' \subseteq Publishers /\ bAwake' \subseteq Subscribers \cup Publishers
      /\ \A x \in bAwake : x # s => x \in bAwake'
      /\ bCloseWaiters \subseteq bCloseWaiters' /\ \A r \in Subscribers : r # s
  BY Zenon, <1>1, <1>2, BroadcastAssumption
<1>7. ASSUME NEW r \in Subscribers PROVE RecvOK(r)'
  BY Zenon, <1>1, <1>6 DEF BroadcastIInv, RecvOK, bRing
<1>8. ASSUME NEW t \in Publishers PROVE ClosedOK(t)'
  <2>1. bReceivers > 0 => bReceivers # 0
    BY <1>2
  <2> QED BY Zenon, <1>1, <1>3, <1>6, <2>1 DEF BroadcastIInv, ClosedOK
<1> QED BY Zenon, <1>1, <1>2, <1>3, <1>5, <1>6, <1>7, <1>8, PublisherStep

\* A step of one receiver leaves the ring, the senders and the other receivers'
\* cursors alone.
LEMMA SubscriberStep ==
  ASSUME BroadcastIInv, NEW r \in Subscribers, UNCHANGED <<bRing, bSenders, bSop>>,
         bReceivers' \in Nat, bWaiters' \subseteq Subscribers, bCloseWaiters' \subseteq Publishers,
         next' \in [Subscribers -> 0..MaxSeq], since' \in [Subscribers -> 0..MaxSeq],
         bRop' \in [Subscribers -> {"none", "idle", "recv"}],
         bAwake' \subseteq Subscribers \cup Publishers,
         got' \in [Subscribers -> SUBSET (0..MaxSeq)], missed' \in [Subscribers -> 0..MaxSeq],
         bReceivers' = Cardinality(LiveSubscribers'), CursorOK(r)', RecvOK(r)',
         \A q \in Subscribers : q # r =>
           /\ next'[q] = next[q] /\ since'[q] = since[q] /\ got'[q] = got[q]
           /\ missed'[q] = missed[q] /\ bRop'[q] = bRop[q],
         bWaiters \subseteq bWaiters', \A x \in bAwake : x # r => x \in bAwake',
         \A t \in Publishers : ClosedOK(t)'
  PROVE  BroadcastIInv'
<1>1. BroadcastTypeOK'
  BY Zenon DEF BroadcastIInv, BroadcastTypeOK, bRing
<1>2. HandlesAreCounted'
  BY Zenon DEF BroadcastIInv, HandlesAreCounted, LivePublishers
<1>3. RingOK'
  BY Zenon DEF BroadcastIInv, RingOK, bRing
<1>4. ASSUME NEW q \in Subscribers PROVE CursorOK(q)' /\ RecvOK(q)'
  BY Zenon DEF BroadcastIInv, CursorOK, RecvOK, bRing
<1> QED BY Zenon, <1>1, <1>2, <1>3, <1>4 DEF BroadcastIInv

\* What the types say of one receiver.
LEMMA BroadcastTypes ==
  ASSUME BroadcastIInv, NEW r \in Subscribers
  PROVE  /\ bReceivers \in Nat /\ nextSeq \in 0..MaxSeq /\ MaxSeq \in Nat /\ bSenders \in Nat
         /\ bWaiters \subseteq Subscribers /\ bCloseWaiters \subseteq Publishers
         /\ next \in [Subscribers -> 0..MaxSeq] /\ since \in [Subscribers -> 0..MaxSeq]
         /\ bRop \in [Subscribers -> {"none", "idle", "recv"}]
         /\ bAwake \subseteq Subscribers \cup Publishers
         /\ got \in [Subscribers -> SUBSET (0..MaxSeq)] /\ missed \in [Subscribers -> 0..MaxSeq]
         /\ next[r] \in Nat /\ since[r] \in Nat /\ missed[r] \in Nat /\ got[r] \subseteq Nat
         /\ r \notin Publishers
<1>1. next[r] \in 0..MaxSeq /\ since[r] \in 0..MaxSeq /\ missed[r] \in 0..MaxSeq
      /\ got[r] \subseteq 0..MaxSeq
  BY Zenon DEF BroadcastIInv, BroadcastTypeOK
<1>2. r \notin Publishers /\ MaxSeq \in Nat
  BY Zenon, BroadcastAssumption
<1>3. \A x \in 0..MaxSeq : x \in Nat
  BY <1>2
<1> QED BY Zenon, <1>1, <1>2, <1>3 DEF BroadcastIInv, BroadcastTypeOK

\* A new receiver begins at the message to be sent next.
LEMMA NewSubscriberStep ==
  ASSUME BroadcastIInv, NEW r \in Subscribers, NewSubscriber(r) PROVE BroadcastIInv'
<1>1. /\ bRop[r] = "none" /\ bRop' = [bRop EXCEPT ![r] = "idle"] /\ bReceivers' = bReceivers + 1
      /\ next' = [next EXCEPT ![r] = nextSeq] /\ since' = [since EXCEPT ![r] = nextSeq]
      /\ UNCHANGED <<bRing, bSenders, bWakers, bSop, bAwake, got, missed>>
  BY Zenon DEF NewSubscriber
<1>2. /\ next' \in [Subscribers -> 0..MaxSeq] /\ since' \in [Subscribers -> 0..MaxSeq]
      /\ bRop' \in [Subscribers -> {"none", "idle", "recv"}]
      /\ next'[r] = nextSeq /\ since'[r] = nextSeq /\ bRop'[r] = "idle"
      /\ \A q \in Subscribers : q # r =>
           next'[q] = next[q] /\ since'[q] = since[q] /\ bRop'[q] = bRop[q]
  BY Zenon, <1>1, BroadcastTypes
<1>3. LiveSubscribers' = LiveSubscribers \cup {r} /\ r \notin LiveSubscribers
  BY Zenon, <1>1, <1>2 DEF LiveSubscribers
<1>4. bReceivers' = Cardinality(LiveSubscribers')
  BY Zenon, <1>1, <1>3, HandlesAreFinite, HandleMore DEF BroadcastIInv, HandlesAreCounted
<1>5. bReceivers' \in Nat /\ bReceivers' # 0 /\ nextSeq \in Nat
  BY <1>1, BroadcastTypes
<1>6. CursorOK(r)'
  <2>1. got'[r] = {} /\ missed'[r] = 0 /\ nextSeq' = nextSeq /\ Cardinality({}) = 0
    BY Zenon, <1>1, FS_EmptySet DEF BroadcastIInv, CursorOK, bRing
  <2> QED BY <1>2, <1>5, <2>1 DEF CursorOK
<1>7. ASSUME NEW t \in Publishers PROVE ClosedOK(t)'
  BY Zenon, <1>1, <1>5 DEF BroadcastIInv, ClosedOK, bWakers
<1>8. RecvOK(r)'
  BY Zenon, <1>2 DEF RecvOK
<1>9. /\ bWaiters' = bWaiters /\ bCloseWaiters' = bCloseWaiters
      /\ got' = got /\ missed' = missed /\ bAwake' = bAwake
  BY Zenon, <1>1 DEF bWakers
<1>10. /\ bWaiters' \subseteq Subscribers /\ bCloseWaiters' \subseteq Publishers
       /\ got' \in [Subscribers -> SUBSET (0..MaxSeq)] /\ missed' \in [Subscribers -> 0..MaxSeq]
       /\ bAwake' \subseteq Subscribers \cup Publishers /\ bWaiters \subseteq bWaiters'
       /\ \A x \in bAwake : x # r => x \in bAwake'
  BY Zenon, <1>9, BroadcastTypes
<1>11. \A q \in Subscribers : q # r =>
         /\ next'[q] = next[q] /\ since'[q] = since[q] /\ got'[q] = got[q]
         /\ missed'[q] = missed[q] /\ bRop'[q] = bRop[q]
  BY Zenon, <1>2, <1>9
<1>12. UNCHANGED <<bRing, bSenders, bSop>>
  BY Zenon, <1>1
<1> QED BY Zenon, <1>2, <1>4, <1>5, <1>6, <1>7, <1>8, <1>10, <1>11, <1>12, SubscriberStep

\* A message is received, or the number of those that are gone is reported: in
\* both cases the cursor accounts for it.
LEMMA TakeStep ==
  ASSUME BroadcastIInv, NEW r \in Subscribers, TakeMessage(r), bRop[r] # "none",
         UNCHANGED <<bRing, since>>, bRop'[r] # "none"
  PROVE  /\ next' \in [Subscribers -> 0..MaxSeq] /\ got' \in [Subscribers -> SUBSET (0..MaxSeq)]
         /\ missed' \in [Subscribers -> 0..MaxSeq] /\ CursorOK(r)'
         /\ \A q \in Subscribers : q # r =>
              next'[q] = next[q] /\ got'[q] = got[q] /\ missed'[q] = missed[q]
<1>1. PICK m \in Nat : m = Oldest(r) /\ next[r] <= m /\ m < nextSeq
  BY Zenon, AheadIs DEF BroadcastIInv, TakeMessage
<1>2. /\ nextSeq \in 0..MaxSeq /\ MaxSeq \in Nat /\ nextSeq' = nextSeq /\ since'[r] = since[r]
      /\ next[r] \in Nat /\ since[r] \in Nat /\ missed[r] \in Nat /\ got[r] \subseteq Nat
      /\ since[r] <= next[r] /\ got[r] \subseteq since[r]..(next[r] - 1)
      /\ Cardinality(got[r]) + missed[r] = next[r] - since[r]
  BY Zenon, BroadcastTypes DEF BroadcastIInv, CursorOK, bRing
<1>3. IsFiniteSet(got[r])
  <2>1. next[r] - 1 \in Int /\ since[r] \in Int
    BY <1>2
  <2> QED BY Zenon, <1>2, <2>1, FS_Interval, FS_Subset
<1>4. Cardinality(got[r]) \in Nat
  BY Zenon, <1>3, FS_CardinalityType
<1>5. CASE m > next[r]
  <2>1. /\ missed' = [missed EXCEPT ![r] = missed[r] + (m - next[r])]
        /\ next' = [next EXCEPT ![r] = m] /\ got' = got
    BY Zenon, <1>1, <1>5 DEF TakeMessage
  <2>2. m \in 0..MaxSeq /\ missed[r] + (m - next[r]) \in 0..MaxSeq
    BY <1>1, <1>2, <1>4, <1>5
  <2>3. /\ next' \in [Subscribers -> 0..MaxSeq] /\ missed' \in [Subscribers -> 0..MaxSeq]
        /\ next'[r] = m /\ missed'[r] = missed[r] + (m - next[r])
        /\ \A q \in Subscribers : q # r => next'[q] = next[q] /\ missed'[q] = missed[q]
    BY Zenon, <2>1, <2>2, BroadcastTypes
  <2>4. since[r]..(next[r] - 1) \subseteq since[r]..(m - 1)
    BY <1>1, <1>2
  <2>5. since'[r] <= next'[r] /\ next'[r] <= nextSeq'
        /\ Cardinality(got'[r]) + missed'[r] = next'[r] - since'[r]
    BY <1>1, <1>2, <1>4, <2>1, <2>3
  <2>6. got'[r] \subseteq since'[r]..(next'[r] - 1)
    BY Zenon, <1>2, <2>1, <2>3, <2>4
  <2> QED BY Zenon, <2>1, <2>3, <2>5, <2>6, BroadcastTypes DEF CursorOK
<1>6. CASE ~(m > next[r])
  <2>1. /\ got' = [got EXCEPT ![r] = got[r] \cup {m}] /\ m = next[r]
        /\ next' = [next EXCEPT ![r] = next[r] + 1] /\ missed' = missed
    BY <1>1, <1>2, <1>6 DEF TakeMessage
  <2>2. m \in 0..MaxSeq /\ next[r] + 1 \in 0..MaxSeq
    BY <1>1, <1>2, <2>1
  <2>3. got[r] \cup {m} \in SUBSET (0..MaxSeq)
    BY Zenon, <2>2, BroadcastTypes
  <2>4. /\ next' \in [Subscribers -> 0..MaxSeq] /\ got' \in [Subscribers -> SUBSET (0..MaxSeq)]
        /\ next'[r] = next[r] + 1 /\ got'[r] = got[r] \cup {m}
        /\ \A q \in Subscribers : q # r => next'[q] = next[q] /\ got'[q] = got[q]
    BY Zenon, <2>1, <2>2, <2>3, BroadcastTypes
  <2>5. m \notin got[r]
    BY <1>2, <2>1
  <2>6. Cardinality(got[r] \cup {m}) = Cardinality(got[r]) + 1
    BY Zenon, <1>3, <2>5, HandleMore
  <2>7. since'[r] <= next'[r] /\ next'[r] <= nextSeq'
        /\ Cardinality(got'[r]) + missed'[r] = next'[r] - since'[r]
    BY <1>1, <1>2, <1>4, <2>1, <2>4, <2>6
  <2>8. got'[r] \subseteq since'[r]..(next'[r] - 1)
    BY <1>2, <2>1, <2>4
  <2> QED BY Zenon, <2>1, <2>4, <2>7, <2>8, BroadcastTypes DEF CursorOK
<1> QED BY Zenon, <1>5, <1>6

\* recv and the steps of its future: the cursor moves by what TakeStep says or not
\* at all, and a future that stays is registered with nothing to receive.
LEMMA RecvStep ==
  ASSUME BroadcastIInv, NEW r \in Subscribers, NEW o \in {"idle", "recv"},
         bRop[r] # "none", bRop' = [bRop EXCEPT ![r] = o],
         TakeMessage(r) \/ UNCHANGED <<next, got, missed>>,
         UNCHANGED <<bRing, bSenders, bReceivers, bCloseWaiters, bSop, since>>,
         bWaiters' \in {bWaiters, bWaiters \cup {r}}, bAwake' \in {bAwake \cup {r}, bAwake \ {r}, bAwake},
         o = "recv" => r \in bAwake' \/ (r \in bWaiters' /\ next'[r] = nextSeq /\ bSenders > 0)
  PROVE  BroadcastIInv'
<1>1. /\ bRop' \in [Subscribers -> {"none", "idle", "recv"}] /\ bRop'[r] = o
      /\ \A q \in Subscribers : q # r => bRop'[q] = bRop[q]
  BY Zenon, BroadcastTypes
<1>2. o # "none" /\ nextSeq' = nextSeq /\ nextSeq \in Nat /\ nextSeq <= nextSeq'
  BY BroadcastTypes DEF bRing
<1>3. /\ next' \in [Subscribers -> 0..MaxSeq] /\ got' \in [Subscribers -> SUBSET (0..MaxSeq)]
      /\ missed' \in [Subscribers -> 0..MaxSeq] /\ CursorOK(r)'
      /\ \A q \in Subscribers : q # r =>
           next'[q] = next[q] /\ got'[q] = got[q] /\ missed'[q] = missed[q]
  <2>1. CASE TakeMessage(r)
    BY Zenon, <1>1, <1>2, <2>1, TakeStep
  <2>2. CASE UNCHANGED <<next, got, missed>>
    <3>1. CursorOK(r)'
      BY Zenon, <1>1, <1>2, <2>2, CursorStays DEF BroadcastIInv
    <3> QED BY Zenon, <2>2, <3>1, BroadcastTypes
  <2> QED BY Zenon, <2>1, <2>2
<1>4. LiveSubscribers' = LiveSubscribers
  BY Zenon, <1>1 DEF LiveSubscribers
<1>5. bReceivers' = Cardinality(LiveSubscribers') /\ bReceivers' \in Nat
  BY Zenon, <1>4, BroadcastTypes DEF BroadcastIInv, HandlesAreCounted
<1>6. /\ bWaiters' \subseteq Subscribers /\ bCloseWaiters' \subseteq Publishers
      /\ bAwake' \subseteq Subscribers \cup Publishers /\ bWaiters \subseteq bWaiters'
      /\ since' \in [Subscribers -> 0..MaxSeq] /\ \A x \in bAwake : x # r => x \in bAwake'
  <2>1. bWaiters \subseteq Subscribers /\ bCloseWaiters \subseteq Publishers
        /\ bAwake \subseteq Subscribers \cup Publishers
        /\ since \in [Subscribers -> 0..MaxSeq]
    BY Zenon, BroadcastTypes
  <2> QED BY Zenon, <2>1
<1>7. \A q \in Subscribers : q # r =>
        /\ next'[q] = next[q] /\ since'[q] = since[q] /\ got'[q] = got[q]
        /\ missed'[q] = missed[q] /\ bRop'[q] = bRop[q]
  BY Zenon, <1>1, <1>3
<1>8. RecvOK(r)'
  <2>1. bSenders > 0 => bSenders' # 0
    BY BroadcastTypes
  <2> QED BY Zenon, <1>1, <1>2, <2>1 DEF RecvOK
<1>9. ASSUME NEW t \in Publishers PROVE ClosedOK(t)'
  <2>1. t # r
    BY Zenon, BroadcastTypes
  <2> QED BY Zenon, <1>6, <2>1 DEF BroadcastIInv, ClosedOK
<1>10. UNCHANGED <<bRing, bSenders, bSop>>
  BY Zenon
<1> QED BY Zenon, <1>1, <1>3, <1>5, <1>6, <1>7, <1>8, <1>9, <1>10, SubscriberStep

\* try_recv, recv, RecvFuture::poll and the drop of the future are such steps.
LEMMA RecvActions ==
  ASSUME BroadcastIInv, NEW r \in Subscribers,
         TryRecvMessage(r) \/ RecvMessage(r) \/ PollRecvMessage(r) \/ AbandonRecvMessage(r)
  PROVE  BroadcastIInv'
<1>1. bRop \in [Subscribers -> {"none", "idle", "recv"}]
  BY Zenon, BroadcastTypes
<1>2. CASE TryRecvMessage(r)
  <2>1. bRop[r] = "idle" /\ bRop' = [bRop EXCEPT ![r] = "idle"]
    BY Zenon, <1>1, <1>2 DEF TryRecvMessage
  <2> QED BY Zenon, <1>2, <2>1, RecvStep DEF TryRecvMessage, bWakers
<1>3. CASE RecvMessage(r)
  BY Zenon, <1>3, RecvStep DEF RecvMessage, bWakers, bHistory
<1>4. CASE PollRecvMessage(r)
  <2>1. CASE TakeMessage(r) /\ bRop' = [bRop EXCEPT ![r] = "idle"] /\ UNCHANGED bWaiters
    BY Zenon, <1>4, <2>1, RecvStep DEF PollRecvMessage
  <2>2. CASE /\ Ahead(r) = {} /\ UNCHANGED <<next, got, missed>>
             /\ bSenders = 0 /\ bRop' = [bRop EXCEPT ![r] = "idle"] /\ UNCHANGED bWaiters
    BY Zenon, <1>4, <2>2, RecvStep DEF PollRecvMessage
  <2>3. CASE /\ Ahead(r) = {} /\ UNCHANGED <<next, got, missed>>
             /\ bSenders > 0 /\ bWaiters' = bWaiters \cup {r} /\ UNCHANGED bRop
    <3>1. bRop[r] = "recv" /\ bRop' = [bRop EXCEPT ![r] = "recv"]
      BY Zenon, <1>1, <1>4, <2>3 DEF PollRecvMessage
    <3>2. next'[r] = nextSeq
      BY Zenon, <2>3, AheadIs DEF BroadcastIInv
    <3> QED BY Zenon, <1>4, <2>3, <3>1, <3>2, RecvStep DEF PollRecvMessage
  <2> QED BY Zenon, <1>4, <2>1, <2>2, <2>3 DEF PollRecvMessage
<1>5. CASE AbandonRecvMessage(r)
  BY Zenon, <1>5, RecvStep DEF AbandonRecvMessage, bWakers, bHistory
<1> QED BY Zenon, <1>2, <1>3, <1>4, <1>5

\* The last receiver that goes wakes whoever awaits that.
LEMMA DropSubscriberStep ==
  ASSUME BroadcastIInv, NEW r \in Subscribers, DropSubscriber(r) PROVE BroadcastIInv'
<1>1. /\ bRop[r] = "idle" /\ bRop' = [bRop EXCEPT ![r] = "none"] /\ bReceivers' = bReceivers - 1
      /\ next' = [next EXCEPT ![r] = 0] /\ since' = [since EXCEPT ![r] = 0]
      /\ got' = [got EXCEPT ![r] = {}] /\ missed' = [missed EXCEPT ![r] = 0]
      /\ UNCHANGED <<bRing, bSenders, bWaiters, bSop>>
  BY Zenon DEF DropSubscriber
<1>2. 0 \in 0..MaxSeq /\ {} \in SUBSET (0..MaxSeq)
  BY BroadcastAssumption
<1>3. /\ next' \in [Subscribers -> 0..MaxSeq] /\ since' \in [Subscribers -> 0..MaxSeq]
      /\ missed' \in [Subscribers -> 0..MaxSeq] /\ got' \in [Subscribers -> SUBSET (0..MaxSeq)]
      /\ bRop' \in [Subscribers -> {"none", "idle", "recv"}]
  BY Zenon, <1>1, <1>2, BroadcastTypes
<1>4. next'[r] = 0 /\ since'[r] = 0 /\ missed'[r] = 0 /\ got'[r] = {} /\ bRop'[r] = "none"
  BY Zenon, <1>1, BroadcastTypes
<1>5. \A q \in Subscribers : q # r =>
        /\ next'[q] = next[q] /\ since'[q] = since[q] /\ got'[q] = got[q]
        /\ missed'[q] = missed[q] /\ bRop'[q] = bRop[q]
  BY Zenon, <1>1, BroadcastTypes
<1>6. LiveSubscribers' = LiveSubscribers \ {r} /\ r \in LiveSubscribers
  BY Zenon, <1>1, <1>4, <1>5 DEF LiveSubscribers
<1>7. bReceivers' = Cardinality(LiveSubscribers') /\ bReceivers' \in Nat
  BY Zenon, <1>1, <1>6, HandlesAreFinite, HandleLess DEF BroadcastIInv, HandlesAreCounted
<1>8. CursorOK(r)'
  <2>1. Cardinality({}) = 0 /\ nextSeq' \in Nat
    <3>1. nextSeq' = nextSeq /\ nextSeq \in Nat
      BY <1>1, BroadcastTypes DEF bRing
    <3> QED BY Zenon, <3>1, FS_EmptySet
  <2> QED BY <1>4, <2>1 DEF CursorOK
<1>9. RecvOK(r)'
  BY Zenon, <1>4 DEF RecvOK
<1>10. /\ bWaiters' \subseteq Subscribers /\ bWaiters \subseteq bWaiters'
       /\ bCloseWaiters' \subseteq Publishers
       /\ bAwake' \subseteq Subscribers \cup Publishers
       /\ \A x \in bAwake : x # r => x \in bAwake'
  BY Zenon, <1>1, BroadcastTypes DEF DropSubscriber
<1>11. ASSUME NEW t \in Publishers PROVE ClosedOK(t)'
  BY Zenon, <1>1 DEF BroadcastIInv, ClosedOK, DropSubscriber
<1>12. UNCHANGED <<bRing, bSenders, bSop>>
  BY Zenon, <1>1
<1> QED
  BY Zenon, <1>3, <1>5, <1>7, <1>8, <1>9, <1>10, <1>11, <1>12, SubscriberStep

\* Each message is received once or counted as missed, and nobody sleeps through
\* what is there: LagIsExact in every state of Broadcast, for any number of
\* handles and any capacity (push_locked, try_recv_locked, RecvFuture::poll).
THEOREM BroadcastCountsItsLag == BroadcastSpec => []LagIsExact
<1>1. BroadcastIInv /\ [BroadcastNext]_broadcastVars => BroadcastIInv'
  <2> SUFFICES ASSUME BroadcastIInv, [BroadcastNext]_broadcastVars PROVE BroadcastIInv'
    BY Zenon
  <2>1. CASE UNCHANGED broadcastVars
    <3>1. UNCHANGED <<bRing, bSenders, bReceivers, bWakers, next, bRop, bSop, bAwake, bHistory>>
      BY Zenon, <2>1 DEF broadcastVars
    <3>2. UNCHANGED <<bQueue, nextSeq, bWaiters, bCloseWaiters, since, got, missed>>
      BY Zenon, <3>1 DEF bRing, bWakers, bHistory
    <3>3. BroadcastTypeOK' /\ HandlesAreCounted' /\ RingOK'
      BY Zenon, <3>1, <3>2 DEF BroadcastIInv, BroadcastTypeOK, HandlesAreCounted, RingOK,
                LivePublishers, LiveSubscribers
    <3>4. ASSUME NEW r \in Subscribers PROVE CursorOK(r)' /\ RecvOK(r)'
      BY Zenon, <3>1, <3>2 DEF BroadcastIInv, CursorOK, RecvOK
    <3>5. ASSUME NEW s \in Publishers PROVE ClosedOK(s)'
      BY Zenon, <3>1, <3>2 DEF BroadcastIInv, ClosedOK
    <3> QED BY Zenon, <3>3, <3>4, <3>5 DEF BroadcastIInv
  <2>2. ASSUME NEW s \in Publishers,
               \/ SendMessage(s) \/ DropPublisher(s) \/ NewPublisher(s)
               \/ AwaitNoReceiver(s) \/ PollNoReceiver(s) \/ AbandonNoReceiver(s)
        PROVE  BroadcastIInv'
    BY Zenon, <2>2, SendMessageStep, DropPublisherStep, NewPublisherStep, AwaitNoReceiverStep
  <2>3. ASSUME NEW r \in Subscribers,
               \/ NewSubscriber(r) \/ TryRecvMessage(r) \/ RecvMessage(r)
               \/ PollRecvMessage(r) \/ AbandonRecvMessage(r) \/ DropSubscriber(r)
        PROVE  BroadcastIInv'
    BY Zenon, <2>3, NewSubscriberStep, RecvActions, DropSubscriberStep
  <2> QED BY Zenon, <2>1, <2>2, <2>3 DEF BroadcastNext
<1>2. BroadcastIInv => LagIsExact
  <2> SUFFICES ASSUME BroadcastIInv PROVE LagIsExact
    BY Zenon
  <2>1. ASSUME NEW r \in LiveSubscribers PROVE
          /\ got[r] \subseteq since[r]..(next[r] - 1)
          /\ Cardinality(got[r]) + missed[r] = next[r] - since[r]
          /\ \A seq \in next[r]..(nextSeq - 1) :
               seq + Capacity >= nextSeq => seq \in {bQueue[i] : i \in DOMAIN bQueue}
    <3>1. r \in Subscribers
      BY Zenon DEF LiveSubscribers
    <3>2. ASSUME NEW seq \in next[r]..(nextSeq - 1), seq + Capacity >= nextSeq
          PROVE  seq \in {bQueue[i] : i \in DOMAIN bQueue}
      <4> DEFINE n == Len(bQueue)
                 i == seq - (nextSeq - n) + 1
      <4>1. n \in Nat /\ DOMAIN bQueue = 1..n /\ nextSeq \in Nat /\ next[r] \in Nat
        BY <3>1 DEF BroadcastIInv, BroadcastTypeOK
      <4>2. n = (IF nextSeq < Capacity THEN nextSeq ELSE Capacity)
            /\ \A j \in 1..n : bQueue[j] = nextSeq - n + j - 1
        BY Zenon, <4>1 DEF BroadcastIInv, RingOK
      <4> HIDE DEF n
      <4>3. i \in 1..n /\ bQueue[i] = seq
        BY <3>2, <4>1, <4>2, BroadcastAssumption
      <4> HIDE DEF i
      <4> QED BY Zenon, <4>1, <4>3
    <3> QED BY Zenon, <3>1, <3>2 DEF BroadcastIInv, CursorOK
  <2>2. ASSUME NEW r \in Subscribers, bRop[r] = "recv", Ahead(r) # {} \/ bSenders = 0
        PROVE  r \in bAwake
    BY Zenon, <2>2, AheadIs DEF BroadcastIInv, RecvOK
  <2>3. ASSUME NEW s \in Publishers, bSop[s] = "closed", bReceivers = 0 PROVE s \in bAwake
    BY Zenon, <2>3 DEF BroadcastIInv, ClosedOK
  <2> QED BY Zenon, <2>1, <2>2, <2>3 DEF LagIsExact, MessagesAreCounted, BroadcastWakes,
            BroadcastIInv
<1> QED BY <1>1, <1>2, BroadcastStart, PTL DEF BroadcastSpec
=============================================================================
