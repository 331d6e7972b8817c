------------------------------ MODULE IoProofs ------------------------------
(***************************************************************************)
(* Proofs about Reactor, Sockets, ReadBuf and Signals: what each promises, *)
(* for any number of threads, addresses and listeners and buffers of any   *)
(* size, with the inductive invariant it takes.                            *)
(***************************************************************************)
EXTENDS Reactor, Sockets, ReadBuf, Signals, TLAPS

(* Reactor.                                                                *)

Operations == [dir : Directions, style : Styles \cup {"none"}]
Places == {"idle", "peek", "try", "wait", "parked", "clear"}
GenerationsOf == 0..(ReactorGenerations - 1)

\* What the loop fetched comes from one registration, by whose token it knows the
\* present one from those that are gone.
Events == [token : Tokens, stale : BOOLEAN, flags : SUBSET Flags]
EventsOK ==
  /\ batch \subseteq Events /\ \A b, c \in batch : b.token = c.token
  /\ \A b \in batch : Found(b) => ~b.stale

\* The types.
ReactorFunctions ==
  /\ endpoint \in Kinds /\ avail \subseteq Flags /\ registered \in BOOLEAN
  /\ readiness \subseteq Flags /\ generation \in GenerationsOf
  /\ events \subseteq Directions /\ readers \subseteq Users /\ writers \subseteq Users
  /\ token \in Tokens /\ waking \subseteq Threads /\ reactorAwake \subseteq Users
  /\ op \in [Threads -> Operations]
  /\ at \in [Threads -> Places]
  /\ seen \in [Threads -> [flags : SUBSET Flags, generation : GenerationsOf]]

\* An operation in progress is one the endpoint has, and each style comes only to
\* the places of its loop.
Fits(style, place) ==
  /\ place = "peek" => style = "once"
  /\ place = "try" => style \in {"retry", "guard", "once", "direct"}
  /\ place \in {"wait", "parked"} => style \in {"retry", "guard", "ready"}
  /\ place = "clear" => style \in {"retry", "guard", "once"}

OperationOK(f) ==
  /\ op[f] \in Ops[endpoint] \cup {NoOp}
  /\ at[f] # "idle" => f \in Users /\ op[f] \in Ops[endpoint]
  /\ Fits(op[f].style, at[f])

\* Exactly what is not cached is armed, and nothing after an error; the waker of
\* a parked operation is stored until it is taken to be called, which happens to
\* those that have what they wait for.
ArmedOK == events = IF registered THEN Desired(readiness) ELSE {}
ParkedOK(f) ==
  at[f] = "parked" =>
    \/ f \in reactorAwake
    \/ Queued(f) /\ (ReadyFor(f) # {} => waking # {})

\* While nothing is registered nobody uses it.
ReactorIInv ==
  /\ ReactorFunctions /\ EventsOK /\ ArmedOK
  /\ ~registered => readiness = {} /\ \A f \in Threads : at[f] = "idle"
  /\ \A f \in Threads : at[f] = "idle" => op[f] = NoOp
  /\ \A f \in Threads : OperationOK(f) /\ ParkedOK(f)

\* Every operation of an endpoint is in a direction it was registered for.
LEMMA OperationsFit ==
  ASSUME ReactorAssumption, endpoint \in Kinds, NEW o \in Ops[endpoint]
  PROVE  o.dir \in Interest /\ o \in [dir : Directions, style : Styles] /\ Interest \subseteq Directions
<1>1. o \in [dir : Interest, style : Styles]
  BY Zenon DEF ReactorAssumption, Interest
<1>2. Interest \subseteq Directions
  BY Zenon DEF Interest, InterestOf, Directions
<1> QED BY Zenon, <1>1, <1>2

\* A generation stays one when it is counted on.
LEMMA GenerationWraps ==
  ASSUME ReactorAssumption, NEW n \in GenerationsOf PROVE Bump(n) \in GenerationsOf
<1>1. ASSUME NEW w \in Nat \ {0}, NEW x \in Nat PROVE x % w \in 0..(w - 1)
  OBVIOUS
<1>2. ReactorGenerations \in Nat \ {0} /\ n + 1 \in Nat
  BY DEF ReactorAssumption, GenerationsOf
<1> QED BY Zenon, <1>1, <1>2 DEF Bump, GenerationsOf

\* A step of one user that leaves the cached readiness alone and takes no waker
\* but its own concerns no other user.
LEMMA OneUser ==
  ASSUME ReactorIInv, NEW f \in Threads, registered, ReactorFunctions',
         UNCHANGED <<endpoint, registered, readiness, events, token, batch>>,
         \A g \in Threads \ {f} : at'[g] = at[g] /\ op'[g] = op[g],
         readers \subseteq readers', writers \subseteq writers', waking \subseteq waking',
         \A g \in Threads \ {f} : g \in reactorAwake => g \in reactorAwake',
         OperationOK(f)', at'[f] = "idle" => op'[f] = NoOp, ParkedOK(f)'
  PROVE  ReactorIInv'
<1>1. ArmedOK' /\ EventsOK' /\ registered'
  BY Zenon DEF ReactorIInv, ArmedOK, EventsOK, Found, Desired, Interest
<1>2. ASSUME NEW g \in Threads \ {f}
      PROVE  OperationOK(g)' /\ ParkedOK(g)' /\ (at'[g] = "idle" => op'[g] = NoOp)
  <2>1. at'[g] = at[g] /\ op'[g] = op[g] /\ OperationOK(g) /\ ParkedOK(g) /\ (at[g] = "idle" => op[g] = NoOp)
    BY Zenon DEF ReactorIInv
  <2>2. OperationOK(g)' /\ (at'[g] = "idle" => op'[g] = NoOp)
    BY Zenon, <2>1 DEF OperationOK
  <2>3. ParkedOK(g)'
    BY Zenon, <2>1 DEF ParkedOK, Queued, ReadyFor
  <2> QED BY Zenon, <2>2, <2>3
<1> QED BY Zenon, <1>1, <1>2 DEF ReactorIInv

\* Initially everything the endpoint may want is armed.
LEMMA ReactorStart == ASSUME ReactorAssumption PROVE ReactorInit => ReactorIInv
<1> SUFFICES ASSUME ReactorInit PROVE ReactorIInv
  BY Zenon
<1>1. NoOp \in Operations /\ 0 \in GenerationsOf
  BY DEF ReactorAssumption, NoOp, Operations, Directions, Styles, GenerationsOf
<1>2. Interest \subseteq Directions /\ Desired({}) = Interest
  BY Zenon DEF Interest, InterestOf, Directions, Desired
<1>3. ReactorFunctions /\ EventsOK
  BY Zenon, <1>1, <1>2 DEF ReactorInit, ReactorFunctions, EventsOK, Tokens, Places, NoGuard, Flags
<1> QED BY Zenon, <1>2, <1>3 DEF ReactorInit, ReactorIInv, ArmedOK, OperationOK, Fits, ParkedOK

\* Facts about a user in the middle of an operation.
LEMMA UserFacts ==
  ASSUME ReactorAssumption, ReactorIInv, NEW f \in Threads, at[f] # "idle"
  PROVE  /\ f \in Users /\ registered /\ op[f] \in Ops[endpoint]
         /\ op[f].dir \in Interest /\ op[f].style # "none" /\ op[f].dir \in Directions
<1>1. f \in Users /\ registered /\ op[f] \in Ops[endpoint] /\ endpoint \in Kinds
  BY Zenon DEF ReactorIInv, OperationOK, ReactorFunctions
<1> QED BY Zenon, <1>1, OperationsFit DEF Styles

\* An operation begins in the direction of its user, at its entry.
LEMMA StartStep ==
  ASSUME ReactorAssumption, ReactorIInv, NEW f \in Threads, Start(f) PROVE ReactorIInv'
<1>1. PICK o \in Ops[endpoint] : op' = [op EXCEPT ![f] = o] /\ at' = [at EXCEPT ![f] = Entry(o.style)]
  BY Zenon DEF Start, IoTo
<1>2. /\ f \in Users /\ registered
      /\ UNCHANGED <<endpoint, registered, readiness, generation, events, readers, writers, avail, batch,
                     waking, reactorAwake, seen, token>>
  BY Zenon DEF Start, Active, ioVars, wakeVars
<1>3. o \in [dir : Directions, style : Styles]
  BY Zenon, <1>1, OperationsFit DEF ReactorIInv, ReactorFunctions
<1>4. /\ Entry(o.style) \in {"try", "wait", "peek"}
      /\ Entry(o.style) = "try" => o.style \in {"retry", "direct"}
      /\ Entry(o.style) = "wait" => o.style \in {"guard", "ready"}
      /\ Entry(o.style) = "peek" => o.style = "once"
  BY Zenon, <1>3 DEF Entry, Styles
<1>5. ReactorFunctions'
  BY Zenon, <1>1, <1>2, <1>3, <1>4 DEF ReactorIInv, ReactorFunctions, Places, Operations
<1>6. at'[f] = Entry(o.style) /\ op'[f] = o
  BY Zenon, <1>1 DEF ReactorIInv, ReactorFunctions
<1>7. OperationOK(f)' /\ ParkedOK(f)'
  BY Zenon, <1>2, <1>4, <1>6 DEF OperationOK, Fits, ParkedOK
<1>8. \A g \in Threads \ {f} : at'[g] = at[g] /\ op'[g] = op[g]
  BY Zenon, <1>1 DEF ReactorIInv, ReactorFunctions
<1> QED BY Zenon, <1>2, <1>4, <1>5, <1>6, <1>7, <1>8, OneUser

\* A user comes to another place of its operation, or ends it, and takes its
\* own waker back at most.
LEMMA Moves ==
  ASSUME ReactorAssumption, ReactorIInv, NEW f \in Threads, at[f] # "idle",
         UNCHANGED <<endpoint, registered, readiness, generation, events, readers, writers,
                     batch, waking, token>>,
         avail' \in SUBSET Flags, reactorAwake' \in {reactorAwake, reactorAwake \ {f}},
         seen' \in [Threads -> [flags : SUBSET Flags, generation : GenerationsOf]],
         \/ /\ at' = [at EXCEPT ![f] = "idle"] /\ op' = [op EXCEPT ![f] = NoOp]
         \/ \E p \in {"peek", "try", "wait", "clear"} :
              at' = [at EXCEPT ![f] = p] /\ op' = op /\ Fits(op[f].style, p)
  PROVE  ReactorIInv'
<1>1. NoOp \in Operations
  BY Zenon DEF NoOp, Operations, Directions, Styles
<1>2. ReactorFunctions'
  <2>1. at' \in [Threads -> Places] /\ op' \in [Threads -> Operations]
    <3>1. at \in [Threads -> Places] /\ op \in [Threads -> Operations]
      BY Zenon DEF ReactorIInv, ReactorFunctions
    <3>2. {"idle", "peek", "try", "wait", "clear"} \subseteq Places
      BY Zenon DEF Places
    <3>3. \E p \in Places : at' = [at EXCEPT ![f] = p]
      BY Zenon, <3>2
    <3>4. op' \in {op, [op EXCEPT ![f] = NoOp]}
      BY Zenon
    <3> QED BY <1>1, <3>1, <3>3, <3>4
  <2>2. reactorAwake' \subseteq Users
    BY Zenon DEF ReactorIInv, ReactorFunctions
  <2> QED BY Zenon, <2>1, <2>2 DEF ReactorIInv, ReactorFunctions
<1>3. OperationOK(f)' /\ ParkedOK(f)' /\ (at'[f] = "idle" => op'[f] = NoOp)
  <2>1. CASE at' = [at EXCEPT ![f] = "idle"] /\ op' = [op EXCEPT ![f] = NoOp]
    <3>1. at'[f] = "idle" /\ op'[f] = NoOp
      BY Zenon, <2>1 DEF ReactorIInv, ReactorFunctions
    <3> QED BY Zenon, <3>1 DEF OperationOK, Fits, ParkedOK
  <2>2. ASSUME NEW p \in {"peek", "try", "wait", "clear"},
               at' = [at EXCEPT ![f] = p], op' = op, Fits(op[f].style, p)
        PROVE  OperationOK(f)' /\ ParkedOK(f)' /\ (at'[f] = "idle" => op'[f] = NoOp)
    <3>1. at'[f] = p /\ op'[f] = op[f]
      BY Zenon, <2>2 DEF ReactorIInv, ReactorFunctions
    <3> QED BY Zenon, <2>2, <3>1, UserFacts DEF OperationOK, ParkedOK
  <2> QED BY Zenon, <2>1, <2>2
<1>4. \A g \in Threads \ {f} : at'[g] = at[g] /\ op'[g] = op[g]
  BY Zenon DEF ReactorIInv, ReactorFunctions
<1>5. registered
  BY Zenon, UserFacts
<1> QED BY Zenon, <1>2, <1>3, <1>4, <1>5, OneUser

\* A parked operation that is polled again starts over.
LEMMA RepollStep ==
  ASSUME ReactorAssumption, ReactorIInv, NEW f \in Threads, Repoll(f) PROVE ReactorIInv'
<1>1. /\ at[f] = "parked" /\ at' = [at EXCEPT ![f] = Entry(op[f].style)] /\ op' = op
      /\ reactorAwake' = reactorAwake \ {f} /\ seen' = seen
      /\ UNCHANGED <<endpoint, registered, readiness, generation, events, readers, writers,
                     batch, waking, token, avail>>
  BY Zenon DEF Repoll, Active, Keep, IoTo, ioVars
<1>2. op[f].style \in {"retry", "guard", "ready"}
  BY Zenon, <1>1 DEF ReactorIInv, OperationOK, Fits
<1>3. /\ Entry(op[f].style) \in {"peek", "try", "wait", "clear"}
      /\ Fits(op[f].style, Entry(op[f].style))
  BY Zenon, <1>2 DEF Entry, Fits
<1>4. /\ avail' \in SUBSET Flags
      /\ seen' \in [Threads -> [flags : SUBSET Flags, generation : GenerationsOf]]
  BY Zenon, <1>1 DEF ReactorIInv, ReactorFunctions
<1> QED BY <1>1, <1>3, <1>4, Moves, Zenon

\* An operation ends, cancelled or because its system call did.
LEMMA FinishStep ==
  ASSUME ReactorAssumption, ReactorIInv, NEW f \in Threads, CancelIo(f) \/ SyscallDone(f)
  PROVE  ReactorIInv'
<1>1. /\ at[f] # "idle" /\ FinishIo(f) /\ reactorAwake' \in {reactorAwake, reactorAwake \ {f}}
      /\ UNCHANGED <<endpoint, registered, readiness, generation, events, readers, writers,
                     batch, waking, token>>
      /\ avail' \in {avail, avail \ {op[f].dir}}
  BY Zenon DEF CancelIo, SyscallDone, Active, ioVars, wakeVars
<1>2. /\ avail' \in SUBSET Flags
      /\ seen' \in [Threads -> [flags : SUBSET Flags, generation : GenerationsOf]]
  BY <1>1 DEF ReactorIInv, ReactorFunctions, FinishIo, NoGuard, ReactorAssumption, GenerationsOf
<1> QED BY <1>1, <1>2, Moves, Zenon DEF FinishIo, IoTo

\* The guard of a readiness is what the user saw.
LEMMA GuardFacts ==
  ASSUME ReactorAssumption, ReactorIInv, NEW f \in Threads,
         \/ \E r \in SUBSET Flags : seen' = [seen EXCEPT ![f] = [flags |-> r, generation |-> generation]]
         \/ seen' = [seen EXCEPT ![f] = NoGuard]
         \/ seen' = seen
  PROVE  seen' \in [Threads -> [flags : SUBSET Flags, generation : GenerationsOf]]
<1> DEFINE Guards == [flags : SUBSET Flags, generation : GenerationsOf]
<1>1. seen \in [Threads -> Guards] /\ generation \in GenerationsOf
  BY Zenon DEF ReactorIInv, ReactorFunctions
<1>2. NoGuard \in Guards
  BY DEF NoGuard, ReactorAssumption, GenerationsOf
<1>3. \A r \in SUBSET Flags : [flags |-> r, generation |-> generation] \in Guards
  BY Zenon, <1>1
<1> HIDE DEF Guards
<1>4. seen' \in [Threads -> Guards]
  BY Zenon, <1>1, <1>2, <1>3
<1> QED BY Zenon, <1>4 DEF Guards

\* try_io looks at the cached readiness.
LEMMA PeekStep ==
  ASSUME ReactorAssumption, ReactorIInv, NEW f \in Threads, PeekReady(f) PROVE ReactorIInv'
<1>1. /\ at[f] = "peek" /\ (FinishIo(f) \/ Guard(f, ReadyFor(f), "try"))
      /\ UNCHANGED <<endpoint, registered, readiness, generation, events, readers, writers,
                     batch, waking, token, avail, reactorAwake>>
  BY Zenon DEF PeekReady, Active, ioVars, wakeVars
<1>2. ReadyFor(f) \in SUBSET Flags /\ avail' \in SUBSET Flags /\ Fits(op[f].style, "try")
  BY Zenon, <1>1 DEF ReactorIInv, ReactorFunctions, ReadyFor, OperationOK, Fits
<1>3. seen' \in [Threads -> [flags : SUBSET Flags, generation : GenerationsOf]]
  BY Zenon, <1>1, <1>2, GuardFacts DEF FinishIo, Guard
<1> QED BY Zenon, <1>1, <1>2, <1>3, Moves DEF FinishIo, Guard, IoTo

\* A system call that would block goes on by its style.
LEMMA BlocksStep ==
  ASSUME ReactorAssumption, ReactorIInv, NEW f \in Threads, SyscallBlocks(f) PROVE ReactorIInv'
<1>1. /\ at[f] = "try"
      /\ UNCHANGED <<endpoint, registered, readiness, generation, events, readers, writers,
                     batch, waking, token, avail, reactorAwake>>
  BY Zenon DEF SyscallBlocks, Active, ioVars, wakeVars
<1>2. op[f].style \in {"retry", "guard", "once", "direct"} /\ avail' \in SUBSET Flags
  BY Zenon, <1>1 DEF ReactorIInv, ReactorFunctions, OperationOK, Fits
<1>3. \/ op[f].style = "retry" /\ Keep(f, "wait")
      \/ op[f].style \in {"guard", "once"} /\ Keep(f, "clear")
      \/ FinishIo(f)
  BY <1>2, Zenon DEF SyscallBlocks
<1>4. seen' \in [Threads -> [flags : SUBSET Flags, generation : GenerationsOf]]
  BY Zenon, <1>3, GuardFacts DEF FinishIo, Keep
<1> QED BY Zenon, <1>1, <1>2, <1>3, <1>4, Moves DEF FinishIo, Keep, IoTo, Fits

\* poll_ready parks only what is not ready, with its waker stored.
LEMMA PollReadyStep ==
  ASSUME ReactorAssumption, ReactorIInv, NEW f \in Threads, PollReady(f) PROVE ReactorIInv'
<1>1. /\ at[f] = "wait" /\ UNCHANGED <<endpoint, registered, readiness, generation, events, batch, waking,
                                       token, avail, reactorAwake>>
  BY Zenon DEF PollReady, Active, wakeVars
<1>2. /\ op[f].style \in {"retry", "guard", "ready"} /\ avail' \in SUBSET Flags
      /\ ReadyFor(f) \in SUBSET Flags
  BY Zenon, <1>1 DEF ReactorIInv, ReactorFunctions, OperationOK, Fits, ReadyFor
<1>3. CASE ReadyFor(f) # {}
  <2>1. /\ UNCHANGED <<readers, writers>>
        /\ \/ op[f].style = "retry" /\ Guard(f, ReadyFor(f), "clear")
           \/ op[f].style = "guard" /\ Guard(f, ReadyFor(f), "try")
           \/ FinishIo(f)
    BY <1>2, <1>3, Zenon DEF PollReady
  <2>2. seen' \in [Threads -> [flags : SUBSET Flags, generation : GenerationsOf]]
    BY Zenon, <1>2, <2>1, GuardFacts DEF FinishIo, Guard
  <2> QED BY Zenon, <1>1, <1>2, <2>1, <2>2, Moves DEF FinishIo, Guard, IoTo, Fits
<1>4. CASE ReadyFor(f) = {}
  <2>1. /\ readers' = IF op[f].dir = "IN" THEN readers \cup {f} ELSE readers
        /\ writers' = IF op[f].dir = "OUT" THEN writers \cup {f} ELSE writers
        /\ at' = [at EXCEPT ![f] = "parked"] /\ UNCHANGED <<op, seen>>
    BY Zenon, <1>4 DEF PollReady, Keep, IoTo
  <2>2. f \in Users /\ registered /\ op[f].dir \in Directions /\ op[f] \in Ops[endpoint]
    BY Zenon, <1>1, UserFacts
  <2>3. ReactorFunctions'
    BY Zenon, <1>1, <2>1, <2>2 DEF ReactorIInv, ReactorFunctions, Places
  <2>4. at'[f] = "parked" /\ \A g \in Threads \ {f} : at'[g] = at[g]
    BY Zenon, <2>1 DEF ReactorIInv, ReactorFunctions
  <2>5. OperationOK(f)'
    BY Zenon, <1>1, <1>2, <2>1, <2>2, <2>4 DEF OperationOK, Fits
  <2>6. ParkedOK(f)'
    BY Zenon, <1>1, <1>4, <2>1, <2>2, <2>4 DEF ParkedOK, Queued, ReadyFor, Directions
  <2> QED BY Zenon, <1>1, <2>1, <2>2, <2>3, <2>4, <2>5, <2>6, OneUser
<1> QED BY Zenon, <1>3, <1>4

\* Storing a readiness keeps the armed directions in step with it, and an error
\* when arming fails is itself readiness.
LEMMA Stored ==
  ASSUME ReactorAssumption, NEW r \in SUBSET Flags, NEW n \in GenerationsOf,
         NEW u \in UpdateInterest(r), StoreReady(r, n, u), endpoint' = endpoint
  PROVE  /\ events' = Desired(readiness)' /\ events' \subseteq Directions
         /\ readiness' \subseteq Flags /\ generation' \in GenerationsOf
         /\ u.failed \in BOOLEAN /\ (~u.failed => readiness' = r)
<1>1. Interest' = Interest /\ Interest \subseteq Directions
  BY Zenon DEF Interest, InterestOf, Directions
<1>2. \/ u.failed = FALSE /\ u.events = Desired(r)
      \/ u.failed = TRUE /\ u.events = {}
  BY DEF UpdateInterest
<1>3. CASE u.failed = FALSE /\ u.events = Desired(r)
  BY <1>1, <1>3, Zenon DEF StoreReady, Desired
<1>4. CASE u.failed = TRUE /\ u.events = {}
  <2>1. events' = {} /\ readiness' = r \cup {"ERR"} /\ generation' = Bump(n)
    BY Zenon, <1>4 DEF StoreReady
  <2> QED BY <1>1, <1>4, <2>1, GenerationWraps, Zenon DEF Desired, Flags
<1> QED BY <1>2, <1>3, <1>4, Zenon

\* What the callback adds to the readiness it is going to wake.
LEMMA CallbackStep == ASSUME ReactorAssumption, ReactorIInv, ReadinessCallback PROVE ReactorIInv'
<1>1. PICK b \in batch :
        /\ batch' = {}
        /\ \/ /\ Found(b)
              /\ \E u \in UpdateInterest(readiness \cup b.flags) :
                   StoreReady(readiness \cup b.flags, Bump(generation), u)
              /\ waking' = waking \cup {Loop}
           \/ ~Found(b) /\ UNCHANGED <<readiness, generation, events, waking>>
  BY Zenon DEF ReadinessCallback
<1>2. UNCHANGED <<endpoint, registered, token, readers, writers, avail, reactorAwake, op, at, seen>>
  BY Zenon DEF ReadinessCallback, userVars
<1>3. /\ b \in Events /\ readiness \cup b.flags \in SUBSET Flags
      /\ Bump(generation) \in GenerationsOf /\ Loop \in Threads /\ EventsOK'
  BY Zenon, <1>1, GenerationWraps DEF ReactorIInv, ReactorFunctions, EventsOK, Events, ReactorAssumption
<1>4. CASE Found(b)
  <2>1. PICK u \in UpdateInterest(readiness \cup b.flags) :
          StoreReady(readiness \cup b.flags, Bump(generation), u)
    BY <1>1, <1>4, Zenon
  <2>2. /\ events' = Desired(readiness)' /\ events' \subseteq Directions
        /\ readiness' \subseteq Flags /\ generation' \in GenerationsOf
    BY Zenon, <1>2, <1>3, <2>1, Stored
  <2>3. registered /\ waking' = waking \cup {Loop}
    BY Zenon, <1>1, <1>3, <1>4 DEF Found, ReactorIInv, ReactorFunctions
  <2>4. ReactorFunctions'
    BY Zenon, <1>1, <1>2, <1>3, <2>2, <2>3 DEF ReactorIInv, ReactorFunctions
  <2>5. ASSUME NEW f \in Threads PROVE OperationOK(f)' /\ ParkedOK(f)'
    BY Zenon, <1>2, <2>3 DEF ReactorIInv, OperationOK, ParkedOK, Queued
  <2> QED BY Zenon, <1>2, <1>3, <2>2, <2>3, <2>4, <2>5 DEF ReactorIInv, ArmedOK
<1>5. CASE ~Found(b)
  <2>1. UNCHANGED <<readiness, generation, events, waking>> /\ batch' = {}
    BY Zenon, <1>1, <1>5
  <2>2. ReactorFunctions' /\ ArmedOK'
    BY Zenon, <1>2, <2>1 DEF ReactorIInv, ReactorFunctions, ArmedOK, Desired, Interest
  <2>3. ASSUME NEW f \in Threads PROVE OperationOK(f)' /\ ParkedOK(f)'
    BY Zenon, <1>2, <2>1 DEF ReactorIInv, OperationOK, ParkedOK, Queued, ReadyFor
  <2> QED BY Zenon, <1>2, <1>3, <2>1, <2>2, <2>3 DEF ReactorIInv
<1> QED BY Zenon, <1>4, <1>5

\* Whoever is parked on a direction that is ready is woken: nobody is left
\* waiting for a wake_ready that has passed.
LEMMA WakeReadyStep ==
  ASSUME ReactorAssumption, ReactorIInv, NEW f \in Threads, WakeReady(f) PROVE ReactorIInv'
<1> DEFINE r == IF readiness \cap {"IN", "ERR"} # {} THEN readers ELSE {}
           w == IF readiness \cap {"OUT", "ERR"} # {} THEN writers ELSE {}
<1>1. /\ UNCHANGED <<endpoint, registered, readiness, generation, events, avail, batch, op, at, seen,
                     token>>
      /\ waking' = waking \ {f} /\ readers' = readers \ r /\ writers' = writers \ w
      /\ reactorAwake' = reactorAwake \cup {u \in r \cup w : at[u] = "parked"}
  BY Zenon DEF WakeReady, userVars
<1>2. r \subseteq Users /\ w \subseteq Users
  BY Zenon DEF ReactorIInv, ReactorFunctions
<1>3. ReactorFunctions' /\ EventsOK' /\ ArmedOK'
  BY Zenon, <1>1, <1>2 DEF ReactorIInv, ReactorFunctions, EventsOK, Found, ArmedOK, Desired, Interest
<1>4. ASSUME NEW g \in Threads PROVE OperationOK(g)'
  <2>1. OperationOK(g)
    BY Zenon DEF ReactorIInv
  <2> QED BY Zenon, <1>1, <2>1 DEF OperationOK
<1>5. ASSUME NEW g \in Threads PROVE ParkedOK(g)'
  <2> SUFFICES ASSUME at[g] = "parked", g \notin reactorAwake'
               PROVE  Queued(g)' /\ ReadyFor(g)' = {}
    BY Zenon, <1>1 DEF ParkedOK
  <2>1. op[g].dir \in Directions /\ Queued(g)
    <3>1. ParkedOK(g)
      BY Zenon DEF ReactorIInv
    <3> QED BY Zenon, <1>1, <3>1, UserFacts DEF ParkedOK
  <2>2. g \notin r \cup w
    BY Zenon, <1>1
  <2> QED BY Zenon, <1>1, <2>1, <2>2 DEF Queued, ReadyFor, Directions
<1> QED BY Zenon, <1>1, <1>3, <1>4, <1>5 DEF ReactorIInv

\* What clear_ready takes away it arms, and what it adds, an error, it wakes.
LEMMA ClearReadyStep ==
  ASSUME ReactorAssumption, ReactorIInv, NEW f \in Threads, ClearReady(f) PROVE ReactorIInv'
<1>1. /\ at[f] = "clear" /\ AfterClear(f)
      /\ UNCHANGED <<endpoint, registered, readers, writers, avail, batch, reactorAwake, token>>
  BY Zenon DEF ClearReady, Active
<1>2. /\ f \in Users /\ registered /\ op[f] \in Ops[endpoint]
      /\ op[f].style \in {"retry", "guard", "once"} /\ seen[f].flags \subseteq Flags
      /\ generation \in GenerationsOf /\ readiness \ seen[f].flags \in SUBSET Flags
  BY Zenon, <1>1, UserFacts DEF ReactorIInv, ReactorFunctions, OperationOK, Fits
<1>3. /\ events' = Desired(readiness)' /\ events' \subseteq Directions
      /\ readiness' \subseteq Flags /\ generation' \in GenerationsOf
      /\ waking \subseteq waking' /\ waking' \subseteq Threads
      /\ readiness' \subseteq readiness \/ waking' # {}
  <2>1. CASE generation = seen[f].generation
    <3>1. PICK u \in UpdateInterest(readiness \ seen[f].flags) :
             /\ StoreReady(readiness \ seen[f].flags, generation, u)
             /\ waking' = IF u.failed THEN waking \cup {f} ELSE waking
      BY <2>1, Zenon DEF ClearReady
    <3>2. /\ events' = Desired(readiness)' /\ events' \subseteq Directions
          /\ readiness' \subseteq Flags /\ generation' \in GenerationsOf
          /\ u.failed \in BOOLEAN /\ (~u.failed => readiness' = readiness \ seen[f].flags)
      BY <1>1, <1>2, <3>1, Stored, Zenon
    <3> QED BY <3>1, <3>2, Zenon DEF ReactorIInv, ReactorFunctions
  <2>2. CASE generation # seen[f].generation
    <3>1. UNCHANGED <<readiness, generation, events, waking>>
      BY Zenon, <2>2 DEF ClearReady
    <3> QED BY Zenon, <1>1, <1>2, <3>1 DEF ReactorIInv, ReactorFunctions, ArmedOK, Desired, Interest
  <2> QED BY Zenon, <2>1, <2>2
<1>4. \/ /\ at' = [at EXCEPT ![f] = "idle"] /\ op' = [op EXCEPT ![f] = NoOp]
         /\ seen' = [seen EXCEPT ![f] = NoGuard]
      \/ /\ op[f].style = "retry" /\ at' = [at EXCEPT ![f] = "try"] /\ op' = op
         /\ seen' = [seen EXCEPT ![f] = NoGuard]
      \/ /\ op[f].style = "guard" /\ at' = [at EXCEPT ![f] = "wait"] /\ op' = op
         /\ seen' = [seen EXCEPT ![f] = NoGuard]
  BY <1>1, <1>2, Zenon DEF AfterClear, Unguard, FinishIo, IoTo
<1>5. seen' \in [Threads -> [flags : SUBSET Flags, generation : GenerationsOf]]
  BY Zenon, <1>4, GuardFacts
<1>6. at' \in [Threads -> Places] /\ op' \in [Threads -> Operations]
  <2>1. NoOp \in Operations /\ {"idle", "try", "wait"} \subseteq Places
    BY Zenon DEF NoOp, Operations, Directions, Styles, Places
  <2>2. /\ at \in [Threads -> Places] /\ op \in [Threads -> Operations]
    BY Zenon DEF ReactorIInv, ReactorFunctions
  <2>3. /\ \E p \in Places : at' = [at EXCEPT ![f] = p]
        /\ op' = op \/ op' = [op EXCEPT ![f] = NoOp]
    BY Zenon, <1>4, <2>1
  <2> QED BY Zenon, <2>1, <2>2, <2>3
<1>7. ReactorFunctions' /\ EventsOK' /\ ArmedOK'
  BY Zenon, <1>1, <1>2, <1>3, <1>5, <1>6 DEF ReactorIInv, ReactorFunctions, EventsOK, Found, ArmedOK
<1>8. ASSUME NEW g \in Threads \ {f}
      PROVE  OperationOK(g)' /\ ParkedOK(g)' /\ (at'[g] = "idle" => op'[g] = NoOp)
  <2>1. at'[g] = at[g] /\ op'[g] = op[g] /\ OperationOK(g) /\ ParkedOK(g) /\ (at[g] = "idle" => op[g] = NoOp)
    BY Zenon, <1>4 DEF ReactorIInv, ReactorFunctions
  <2>2. OperationOK(g)' /\ (at'[g] = "idle" => op'[g] = NoOp)
    BY Zenon, <1>1, <2>1 DEF OperationOK
  <2>3. ReadyFor(g)' # {} => ReadyFor(g) # {} \/ waking' # {}
    BY Zenon, <1>3, <2>1 DEF ReadyFor
  <2>4. waking # {} => waking' # {}
    BY Zenon, <1>3
  <2>5. ParkedOK(g)'
    BY Zenon, <1>1, <2>1, <2>3, <2>4 DEF ParkedOK, Queued
  <2> QED BY Zenon, <2>2, <2>5
<1>9. OperationOK(f)' /\ ParkedOK(f)' /\ (at'[f] = "idle" => op'[f] = NoOp)
  <2>1. \/ at'[f] = "idle" /\ op'[f] = NoOp
        \/ at'[f] = "try" /\ op'[f] = op[f] /\ op[f].style = "retry"
        \/ at'[f] = "wait" /\ op'[f] = op[f] /\ op[f].style = "guard"
    BY Zenon, <1>4 DEF ReactorIInv, ReactorFunctions
  <2> QED BY Zenon, <1>1, <1>2, <2>1 DEF OperationOK, Fits, ParkedOK
<1> QED BY Zenon, <1>1, <1>2, <1>7, <1>8, <1>9 DEF ReactorIInv

\* The kernel and the loop fetching what it has touch no operation.
LEMMA KernelStep ==
  ASSUME ReactorAssumption, ReactorIInv, (\E flag \in Flags : KernelEvent(flag)) \/ Fetch
  PROVE  ReactorIInv'
<1>1. /\ UNCHANGED <<endpoint, registered, readiness, generation, events, readers, writers, waking,
                     reactorAwake, op, at, seen, token>>
      /\ \/ \E flag \in Flags : avail' = avail \cup {flag} /\ batch' = batch
         \/ /\ avail' = avail
            /\ batch' = {[token |-> token, stale |-> FALSE, flags |-> (events \cup {"ERR"}) \cap avail]}
  BY Zenon DEF KernelEvent, Fetch, ioVars, wakeVars, userVars
<1>2. avail' \subseteq Flags /\ EventsOK'
  <2> DEFINE e == [token |-> token, stale |-> FALSE, flags |-> (events \cup {"ERR"}) \cap avail]
  <2>1. avail \subseteq Flags /\ EventsOK /\ token \in Tokens
    BY Zenon DEF ReactorIInv, ReactorFunctions
  <2>2. e \in Events /\ e.stale = FALSE
    BY Zenon, <2>1 DEF Events
  <2>3. CASE batch' = {e}
    BY Zenon, <1>1, <2>1, <2>2, <2>3 DEF EventsOK
  <2>4. CASE batch' = batch
    BY Zenon, <1>1, <2>1, <2>4 DEF EventsOK, Found
  <2> QED BY <1>1, <2>1, <2>3, <2>4, Zenon
<1>3. ReactorFunctions' /\ ArmedOK'
  BY Zenon, <1>1, <1>2 DEF ReactorIInv, ReactorFunctions, ArmedOK, Desired, Interest
<1>4. ASSUME NEW f \in Threads PROVE OperationOK(f)' /\ ParkedOK(f)'
  BY Zenon, <1>1 DEF ReactorIInv, OperationOK, ParkedOK, Queued, ReadyFor
<1> QED BY Zenon, <1>1, <1>2, <1>3, <1>4 DEF ReactorIInv

\* Nobody uses what is deregistered, and what was fetched for it is stale.
LEMMA DeregisterStep == ASSUME ReactorAssumption, ReactorIInv, Deregister PROVE ReactorIInv'
<1>1. /\ \A f \in Users : at[f] = "idle"
      /\ registered' = FALSE /\ events' = {} /\ avail' = {} /\ readiness' = {}
      /\ generation' = 0 /\ readers' = {} /\ writers' = {}
      /\ batch' = {[b EXCEPT !.stale = TRUE] : b \in batch}
      /\ UNCHANGED <<endpoint, waking, reactorAwake, op, at, seen, token>>
  BY Zenon DEF Deregister, Active, wakeVars, userVars
<1>2. \A f \in Threads : at[f] = "idle"
  BY Zenon, <1>1 DEF ReactorIInv, OperationOK
<1>3. EventsOK' /\ 0 \in GenerationsOf
  <2>1. batch \subseteq Events /\ \A b, c \in batch : b.token = c.token
    BY Zenon DEF ReactorIInv, EventsOK
  <2>2. ASSUME NEW b \in Events
        PROVE  [b EXCEPT !.stale = TRUE] \in Events /\ [b EXCEPT !.stale = TRUE].token = b.token
    BY Zenon DEF Events
  <2>3. 0 \in GenerationsOf
    BY DEF ReactorAssumption, GenerationsOf
  <2>4. ASSUME NEW d \in batch' PROVE d \in Events /\ \E b \in batch : d.token = b.token
    <3>1. PICK b \in batch : d = [b EXCEPT !.stale = TRUE]
      BY <1>1, Zenon
    <3> QED BY Zenon, <2>1, <2>2, <3>1
  <2> QED BY <1>1, <2>1, <2>3, <2>4, Zenon DEF EventsOK, Found
<1>4. ReactorFunctions' /\ ArmedOK'
  BY <1>1, <1>3, Zenon DEF ReactorIInv, ReactorFunctions, ArmedOK
<1>5. ASSUME NEW f \in Threads PROVE OperationOK(f)' /\ ParkedOK(f)'
  BY Zenon, <1>1, <1>2 DEF ReactorIInv, OperationOK, ParkedOK
<1> QED BY Zenon, <1>1, <1>2, <1>3, <1>4, <1>5 DEF ReactorIInv

\* A registration starts with no readiness and its interest armed.
LEMMA RegisterStep == ASSUME ReactorAssumption, ReactorIInv, RegisterIo PROVE ReactorIInv'
<1>1. /\ ~registered /\ endpoint' \in Kinds /\ token' = NextToken
      /\ \/ registered' = TRUE /\ events' = Interest'
         \/ UNCHANGED <<registered, events>>
      /\ UNCHANGED <<readiness, generation, readers, writers, avail, batch, waking, reactorAwake,
                     op, at, seen>>
  BY Zenon DEF RegisterIo, wakeVars, userVars
<1>2. readiness = {} /\ \A f \in Threads : at[f] = "idle" /\ op[f] = NoOp
  BY Zenon, <1>1 DEF ReactorIInv
<1>3. Interest' \subseteq Directions /\ Desired(readiness)' = Interest'
  BY Zenon, <1>1, <1>2 DEF Interest, InterestOf, Directions, Desired
<1>6. EventsOK' /\ token' \in Tokens
  <2>1. batch \subseteq Events /\ (\A b, c \in batch : b.token = c.token) /\ token \in Tokens
    BY Zenon DEF ReactorIInv, ReactorFunctions, EventsOK
  <2>2. 1 - token \in Tokens /\ 1 - token # token
    BY <2>1 DEF Tokens
  <2>3. token' \in Tokens /\ \A b \in batch : b.token # token'
    <3>1. CASE \E b \in batch : b.token = token
      <4>1. token' = 1 - token
        BY Zenon, <1>1, <3>1 DEF NextToken
      <4>2. ASSUME NEW b \in batch PROVE b.token = token
        BY Zenon, <2>1, <3>1
      <4> QED BY Zenon, <2>2, <4>1, <4>2
    <3>2. CASE ~\E b \in batch : b.token = token
      <4>1. token' = token
        BY Zenon, <1>1, <3>2 DEF NextToken
      <4> QED BY Zenon, <2>1, <3>2, <4>1
    <3> QED BY Zenon, <3>1, <3>2
  <2> QED BY Zenon, <1>1, <2>1, <2>3 DEF EventsOK, Found
<1>4. ReactorFunctions' /\ ArmedOK'
  <2>1. registered = FALSE /\ events = {}
    BY Zenon, <1>1 DEF ReactorIInv, ReactorFunctions, ArmedOK
  <2>2. CASE registered' = TRUE /\ events' = Interest'
    BY <1>1, <1>3, <1>6, <2>2, Zenon DEF ReactorIInv, ReactorFunctions, ArmedOK
  <2>3. CASE UNCHANGED <<registered, events>>
    BY Zenon, <1>1, <1>6, <2>1, <2>3 DEF ReactorIInv, ReactorFunctions, ArmedOK
  <2> QED BY <1>1, <2>2, <2>3, Zenon
<1>5. ASSUME NEW f \in Threads PROVE OperationOK(f)' /\ ParkedOK(f)'
  BY Zenon, <1>1, <1>2 DEF ReactorIInv, OperationOK, ParkedOK, Fits
<1> QED BY Zenon, <1>1, <1>2, <1>4, <1>5, <1>6 DEF ReactorIInv

\* Every step preserves the invariant.
LEMMA ReactorNextInv ==
  ASSUME ReactorAssumption PROVE ReactorIInv /\ [ReactorNext]_reactorVars => ReactorIInv'
<1> SUFFICES ASSUME ReactorIInv, [ReactorNext]_reactorVars PROVE ReactorIInv'
  BY Zenon
<1>1. CASE UNCHANGED reactorVars
  <2>1. UNCHANGED <<endpoint, registered, readiness, generation, events, readers, writers, waking,
                    reactorAwake, op, at, seen, token, avail, batch>>
    BY Zenon, <1>1 DEF reactorVars, ioVars, wakeVars, userVars
  <2>2. ReactorFunctions' /\ EventsOK' /\ ArmedOK'
    BY Zenon, <2>1 DEF ReactorIInv, ReactorFunctions, EventsOK, Found, ArmedOK, Desired, Interest
  <2>3. ASSUME NEW f \in Threads PROVE OperationOK(f)' /\ ParkedOK(f)'
    <3>1. OperationOK(f) /\ ParkedOK(f)
      BY Zenon DEF ReactorIInv
    <3> QED BY Zenon, <2>1, <3>1 DEF OperationOK, ParkedOK, Queued, ReadyFor
  <2> QED BY Zenon, <2>1, <2>2, <2>3 DEF ReactorIInv
<1>2. CASE (\E flag \in Flags : KernelEvent(flag)) \/ Fetch
  BY Zenon, <1>2, KernelStep
<1>3. CASE ReadinessCallback \/ Deregister \/ RegisterIo
  BY Zenon, <1>3, CallbackStep, DeregisterStep, RegisterStep
<1>4. ASSUME NEW f \in Threads, WakeReady(f) \/ Start(f) \/ Repoll(f) \/ CancelIo(f) PROVE ReactorIInv'
  BY <1>4, WakeReadyStep, StartStep, RepollStep, FinishStep, Zenon
<1>5. ASSUME NEW f \in Threads,
             PeekReady(f) \/ SyscallDone(f) \/ SyscallBlocks(f) \/ PollReady(f) \/ ClearReady(f)
      PROVE  ReactorIInv'
  BY <1>5, PeekStep, FinishStep, BlocksStep, PollReadyStep, ClearReadyStep, Zenon
<1> QED BY <1>1, <1>2, <1>3, <1>4, <1>5, Zenon DEF ReactorNext

\* For any number of threads, any kinds of endpoint and any width of the
\* generation: nobody sleeps through readiness the kernel announced, even when
\* arming fails, and no event of an earlier owner of the descriptor is taken for
\* one of the present owner.
THEOREM ReadinessReachesItsOperation ==
  ASSUME ReactorAssumption PROVE ReactorSpec => []ReadinessIsExact
<1>1. ReactorInit => ReactorIInv
  BY Zenon, ReactorStart
<1>2. ReactorIInv /\ [ReactorNext]_reactorVars => ReactorIInv'
  BY Zenon, ReactorNextInv
<1>3. ReactorIInv => ReadinessIsExact
  <2> SUFFICES ASSUME ReactorIInv PROVE ReadinessIsExact
    BY Zenon
  <2>1. ReadinessIsOwn
    <3>1. \A f \in Threads :
            /\ op[f] \in Ops[endpoint] \cup {NoOp} /\ at[f] \in Places
            /\ seen[f].flags \subseteq Flags /\ seen[f].generation \in GenerationsOf
      BY Zenon DEF ReactorIInv, ReactorFunctions, OperationOK
    <3> QED BY Zenon, <3>1 
            DEF ReadinessIsOwn, ReactorTypeOK, ReactorIInv, ReactorFunctions, EventsOK, Events, Places, GenerationsOf
  <2>2. NoReadinessLost
    <3> SUFFICES ASSUME NEW f \in Users, at[f] = "parked", f \notin reactorAwake
                 PROVE  Queued(f) /\ (op[f].dir \in events \/ (waking # {} /\ ReadyFor(f) # {}))
      BY Zenon DEF NoReadinessLost
    <3>1. f \in Threads /\ Queued(f) /\ (ReadyFor(f) # {} => waking # {})
      BY Zenon DEF ReactorIInv, ParkedOK, Users
    <3>2. registered /\ op[f].dir \in Interest
      BY Zenon, <3>1, UserFacts
    <3>3. ReadyFor(f) = {} => op[f].dir \in Desired(readiness)
      BY Zenon, <3>2 DEF ReadyFor, Desired
    <3> QED BY Zenon, <3>1, <3>2, <3>3 DEF ReactorIInv, ArmedOK
  <2> QED BY Zenon, <2>1, <2>2 DEF ReadinessIsExact
<1> QED BY <1>1, <1>2, <1>3, PTL DEF ReactorSpec

-----------------------------------------------------------------------------
(* Sockets.                                                                *)

\* Who may share a connected descriptor.
Shares == {"stream", "read", "write", "std"}

\* What belongs to each place of the future of connect: nothing before and
\* between attempts, one unfinished descriptor during one, and afterwards what
\* the owners of the stream make of it.
SocketIInv ==
  /\ socketPc \in {"resolve", "next", "error", "called", "wait", "connected"}
  /\ socketRegistered \in BOOLEAN
  /\ socketPc \in {"resolve", "next", "error"} =>
       fd = "none" /\ owners = {} /\ ~socketRegistered
  /\ socketPc = "called" =>
       /\ owners = {"future"} /\ ~socketRegistered
       /\ fd \in {"refused", "established", "connecting", "unconnected"}
  /\ socketPc = "wait" =>
       /\ owners = {"future"} /\ socketRegistered
       /\ fd \in {"established", "connecting", "unconnected", "failed"}
  /\ socketPc = "connected" =>
       /\ owners \subseteq Shares
       /\ fd \in {"none", "established", "unconnected"}
       /\ fd = "none" <=> owners = {}
       /\ socketRegistered <=> owners \cap {"stream", "read", "write"} # {}
       /\ "std" \in owners => owners = {"std"}
  /\ fd = "unconnected" => socketVia = "UnixStream"

\* Initially there is no descriptor.
LEMMA SocketsStart == SocketsInit => SocketIInv
BY Zenon DEF SocketsInit, SocketIInv

\* Every step preserves the invariant.
LEMMA SocketsNextInv == SocketIInv /\ [SocketsNext]_socketVars => SocketIInv'
<1> SUFFICES ASSUME SocketIInv, [SocketsNext]_socketVars PROVE SocketIInv'
  BY Zenon
<1> USE DEF SocketIInv, Shares, GiveUp, FromStd, Close, Gives, Stays, Shuts, Drops
<1>1. CASE Resolve
  BY <1>1, Zenon DEF Resolve
<1>2. CASE NoAddresses
  BY <1>2, Zenon DEF NoAddresses
<1>3. CASE SocketFails
  BY <1>3, Zenon DEF SocketFails
<1>4. CASE StartConnect
  BY Zenon, <1>4 DEF StartConnect
<1>5. CASE Connected
  BY <1>5, Zenon DEF Connected
<1>6. CASE Kernel
  BY Zenon, <1>6 DEF Kernel
<1>7. CASE Writable \/ WaitFails
  BY <1>7, Zenon DEF Writable, WaitFails
<1>8. CASE DropConnect
  BY <1>8, Zenon DEF DropConnect
<1>9. CASE IntoSplit
  BY Zenon, <1>9 DEF IntoSplit
<1>10. CASE Reunite
  BY Zenon, <1>10 DEF Reunite
<1>11. CASE PollShutdown
  BY Zenon, <1>11 DEF PollShutdown
<1>12. CASE DropWriteHalf \/ Forget
  BY <1>12, ZenonT(60) DEF DropWriteHalf, Forget
<1>13. ASSUME NEW o \in {"stream", "read", "std"}, DropOther(o) PROVE SocketIInv'
  BY <1>13, ZenonT(60) DEF DropOther
<1>14. CASE IntoStd
  BY <1>14, Zenon DEF IntoStd
<1>15. CASE UNCHANGED socketVars
  BY Zenon, <1>15 DEF socketVars
<1> HIDE DEF SocketIInv, GiveUp, FromStd, Close, Gives, Stays, Shuts, Drops
<1> QED BY Zenon, <1>1, <1>2, <1>3, <1>4, <1>5, <1>6, <1>7, <1>8,
           <1>9, <1>10, <1>11, <1>12, <1>13, <1>14, <1>15, Zenon
        DEF SocketsNext

\* For any number of addresses: connect returns a stream that is connected, or in
\* the case of a Unix socket one whose backlog was full, closes every descriptor
\* it gives up, and the halves of a stream keep it open exactly as long as one of
\* them is left.
THEOREM SocketsAreSound == SocketsSpec => []SocketsSound
<1>1. SocketIInv => SocketsSound
  BY Zenon DEF SocketIInv, SocketsSound, Shares
<1> QED BY <1>1, SocketsStart, SocketsNextInv, PTL DEF SocketsSpec

-----------------------------------------------------------------------------
(* ReadBuf.                                                                *)

Bytes == {"uninit", "zero", "data"}
Memory == [1..Size -> Bytes]

BufTypeOK ==
  /\ mem \in Memory /\ filled \in Nat /\ initialized \in Nat /\ expected \in Nat
  /\ taken \in [open : BOOLEAN, len : Nat, filled : Nat, initialized : Nat]

\* The prefixes are nested, in the buffer and in the one taken out of it,
\* which lies within the unfilled part.
Nested ==
  /\ filled <= initialized /\ initialized <= Size
  /\ taken.filled <= taken.initialized /\ taken.initialized <= taken.len
  /\ filled + taken.len <= Size
  /\ ~taken.open => taken = NoneTaken

\* What the reader put into the taken buffer is there.
TakenData == \A i \in 1..taken.filled : mem[filled + i] = "data"

BufIInv == BufTypeOK /\ Nested /\ TakenData /\ NoUninitializedByte

\* Written changes the n bytes after from and no others.
LEMMA WrittenBytes ==
  ASSUME NEW m \in Memory, NEW from \in Nat, NEW n \in Nat, NEW v \in Bytes
  PROVE  /\ Written(m, from, n, v) \in Memory
         /\ \A i \in 1..Size :
              Written(m, from, n, v)[i] = IF from < i /\ i <= from + n THEN v ELSE m[i]
BY DEF Written, Memory

\* initialize_unfilled_to leaves the n bytes after the filled ones
\* initialized and touches none of the initialized ones.
LEMMA ZeroedBytes ==
  ASSUME Size \in Nat,
         NEW m \in Memory, NEW from \in Nat, NEW fill \in Nat, NEW init \in Nat, NEW n \in Nat
  PROVE  /\ Zeroed(m, from, fill, init, n) \in Memory
         /\ \A i \in 1..Size :
              Zeroed(m, from, fill, init, n)[i] =
                IF from + init < i /\ i <= from + fill + n THEN "zero" ELSE m[i]
<1>1. CASE init < fill + n
  <2> DEFINE b == from + init
             l == fill + n - init
  <2>1. l \in Nat /\ b \in Nat /\ "zero" \in Bytes /\ b + l = from + fill + n
    BY <1>1 DEF Bytes
  <2>2. Zeroed(m, from, fill, init, n) = Written(m, b, l, "zero")
    BY Zenon, <1>1 DEF Zeroed
  <2> HIDE DEF b, l
  <2>3. /\ Written(m, b, l, "zero") \in Memory
        /\ \A i \in 1..Size :
             Written(m, b, l, "zero")[i] = IF b < i /\ i <= b + l THEN "zero" ELSE m[i]
    BY <2>1, WrittenBytes
  <2> QED BY Zenon, <2>1, <2>2, <2>3 DEF b
<1>2. CASE ~(init < fill + n)
  BY <1>2 DEF Zeroed
<1> QED BY Zenon, <1>1, <1>2

\* The same for this buffer.
LEMMA ZeroedHere ==
  ASSUME Size \in Nat, mem \in Memory, filled \in Nat, initialized \in Nat, NEW n \in Nat
  PROVE  /\ Zeroed(mem, 0, filled, initialized, n) \in Memory
         /\ \A i \in 1..Size :
              Zeroed(mem, 0, filled, initialized, n)[i] =
                IF initialized < i /\ i <= filled + n THEN "zero" ELSE mem[i]
<1>1. /\ Zeroed(mem, 0, filled, initialized, n) \in Memory
      /\ \A i \in 1..Size :
           Zeroed(mem, 0, filled, initialized, n)[i] =
             IF 0 + initialized < i /\ i <= 0 + filled + n THEN "zero" ELSE mem[i]
  BY ZeroedBytes
<1>2. 0 + initialized = initialized /\ 0 + filled = filled
  OBVIOUS
<1> QED BY ZenonT(60), <1>1, <1>2

\* And for the one taken out of it.
LEMMA ZeroedTaken ==
  ASSUME Size \in Nat, mem \in Memory, filled \in Nat, NEW fill \in Nat, NEW init \in Nat,
         NEW n \in Nat
  PROVE  /\ Zeroed(mem, filled, fill, init, n) \in Memory
         /\ \A i \in 1..Size :
              Zeroed(mem, filled, fill, init, n)[i] =
                IF filled + init < i /\ i <= filled + fill + n THEN "zero" ELSE mem[i]
BY ZeroedBytes

\* A buffer starts with nothing filled.
LEMMA BufStart == ReadBufAssumption /\ Init => BufIInv
BY DEF ReadBufAssumption, Init, BufIInv, BufTypeOK, Memory, Bytes, Nested, TakenData,
       NoUninitializedByte, NoneTaken

\* A reader that has n bytes prepared and fills k of them: put_slice and
\* advance after initialize_unfilled_to.
LEMMA FillStep ==
  ASSUME ReadBufAssumption, BufIInv, NEW n \in Nat, NEW k \in 0..n, InitializeAndAdvance(n, k)
  PROVE  BufIInv'
<1> DEFINE z == Zeroed(mem, 0, filled, initialized, n)
<1>1. /\ mem \in Memory /\ filled \in Nat /\ initialized \in Nat /\ k \in Nat /\ "data" \in Bytes
      /\ filled + n <= Size /\ taken = NoneTaken /\ UNCHANGED taken
      /\ initialized' = IF initialized > filled + n THEN initialized ELSE filled + n
      /\ filled' = filled + k /\ expected' = expected + k /\ Size \in Nat
  BY DEF BufIInv, BufTypeOK, Nested, InitializeAndAdvance, Larger, Bytes, ReadBufAssumption
<1>2. /\ z \in Memory
      /\ \A i \in 1..Size :
           z[i] = IF initialized < i /\ i <= filled + n THEN "zero" ELSE mem[i]
  BY ZenonT(60), <1>1, ZeroedHere
<1>3. mem' = Written(z, filled, k, "data")
  BY Zenon DEF InitializeAndAdvance
<1> HIDE DEF z
<1>4. /\ mem' \in Memory
      /\ \A i \in 1..Size :
           mem'[i] = IF filled < i /\ i <= filled + k THEN "data" ELSE z[i]
  <2>1. /\ Written(z, filled, k, "data") \in Memory
        /\ \A i \in 1..Size : Written(z, filled, k, "data")[i] =
                                IF filled < i /\ i <= filled + k THEN "data" ELSE z[i]
    BY ZenonT(60), <1>1, <1>2, WrittenBytes
  <2> QED BY ZenonT(60), <1>3, <2>1
<1>5. BufTypeOK' /\ Nested' /\ TakenData'
  BY <1>1, <1>4 DEF BufIInv, BufTypeOK, Nested, TakenData, NoneTaken
<1>6. NoUninitializedByte'
  BY <1>1, <1>2, <1>4 DEF BufIInv, BufTypeOK, Nested, NoUninitializedByte, NoneTaken
<1> QED BY Zenon, <1>5, <1>6 DEF BufIInv

\* A reader that writes raw bytes and vouches for them.
LEMMA AssumeInitStep ==
  ASSUME ReadBufAssumption, BufIInv, NEW k \in Nat, AssumeInitAndAdvance(k)
  PROVE  BufIInv'
<1>1. /\ mem \in Memory /\ filled \in Nat /\ initialized \in Nat /\ "data" \in Bytes
      /\ filled + k <= Size /\ taken = NoneTaken /\ UNCHANGED taken
      /\ initialized' = IF initialized > filled + k THEN initialized ELSE filled + k
      /\ filled' = filled + k /\ expected' = expected + k /\ Size \in Nat
      /\ mem' = Written(mem, filled, k, "data")
  BY Zenon DEF BufIInv, BufTypeOK, Nested, AssumeInitAndAdvance, Larger, Bytes, ReadBufAssumption
<1>2. /\ mem' \in Memory
      /\ \A i \in 1..Size :
           mem'[i] = IF filled < i /\ i <= filled + k THEN "data" ELSE mem[i]
  BY <1>1, WrittenBytes
<1>3. BufTypeOK' /\ Nested' /\ TakenData'
  BY <1>1, <1>2 DEF BufIInv, BufTypeOK, Nested, TakenData, NoneTaken
<1>4. NoUninitializedByte'
  BY <1>1, <1>2 DEF BufIInv, BufTypeOK, Nested, NoUninitializedByte, NoneTaken
<1> QED BY Zenon, <1>3, <1>4 DEF BufIInv

\* The reader of the taken buffer has n of its bytes prepared and fills k.
LEMMA FillTakenStep ==
  ASSUME ReadBufAssumption, BufIInv, NEW n \in Nat, NEW k \in 0..n, FillTaken(n, k)
  PROVE  BufIInv'
<1> DEFINE z == Zeroed(mem, filled, taken.filled, taken.initialized, n)
           from == filled + taken.filled
<1>1. /\ mem \in Memory /\ filled \in Nat /\ taken.filled \in Nat /\ taken.initialized \in Nat
      /\ k \in Nat /\ Size \in Nat /\ "data" \in Bytes /\ from \in Nat
  BY DEF BufIInv, BufTypeOK, Bytes, ReadBufAssumption
<1>2. /\ UNCHANGED <<filled, initialized, expected>>
      /\ taken' = [taken EXCEPT !.filled = taken.filled + k,
                               !.initialized = Larger(taken.initialized, taken.filled + n)]
      /\ taken.open /\ n <= taken.len - taken.filled
      /\ mem' = Written(z, from, k, "data")
  BY Zenon DEF FillTaken
<1>3. /\ z \in Memory
      /\ \A i \in 1..Size :
           z[i] = IF filled + taken.initialized < i /\ i <= filled + taken.filled + n
                  THEN "zero" ELSE mem[i]
  BY ZenonT(60), <1>1, ZeroedTaken
<1>4. /\ mem' \in Memory
      /\ \A i \in 1..Size :
           mem'[i] = IF from < i /\ i <= from + k THEN "data" ELSE z[i]
  <2> HIDE DEF z, from
  <2>1. z \in Memory /\ from \in Nat /\ k \in Nat /\ "data" \in Bytes
    BY ZenonT(60), <1>1, <1>3
  <2>2. /\ Written(z, from, k, "data") \in Memory
        /\ \A i \in 1..Size : Written(z, from, k, "data")[i] =
                                IF from < i /\ i <= from + k THEN "data" ELSE z[i]
    BY ZenonT(60), <2>1, WrittenBytes
  <2> QED BY ZenonT(60), <1>2, <2>2
<1> HIDE DEF z
<1>5. /\ taken'.open /\ taken'.len = taken.len /\ taken'.filled = taken.filled + k
      /\ taken'.initialized = IF taken.initialized > taken.filled + n
                              THEN taken.initialized ELSE taken.filled + n
      /\ taken' \in [open : BOOLEAN, len : Nat, filled : Nat, initialized : Nat]
  <2> DEFINE t == IF taken.initialized > taken.filled + n
                  THEN taken.initialized ELSE taken.filled + n
  <2>1. t \in Nat /\ t = Larger(taken.initialized, taken.filled + n)
    BY <1>1 DEF Larger
  <2>2. taken \in [open : BOOLEAN, len : Nat, filled : Nat, initialized : Nat]
    BY Zenon DEF BufIInv, BufTypeOK
  <2> HIDE DEF t
  <2>3. taken' = [taken EXCEPT !.filled = taken.filled + k, !.initialized = t]
    BY Zenon, <1>2, <2>1
  <2>4. taken.filled + k \in Nat /\ t \in Nat /\ taken.open
    BY <1>1, <1>2, <2>1
  <2>5. /\ taken'.open = taken.open /\ taken'.len = taken.len
        /\ taken'.filled = taken.filled + k /\ taken'.initialized = t
    BY Zenon, <2>2, <2>3
  <2>6. taken' \in [open : BOOLEAN, len : Nat, filled : Nat, initialized : Nat]
    BY ZenonT(60), <2>2, <2>3, <2>4
  <2> QED BY Zenon, <2>4, <2>5, <2>6 DEF t
<1>6. BufTypeOK' /\ Nested'
  BY <1>1, <1>2, <1>4, <1>5 DEF BufIInv, BufTypeOK, Nested
<1>7. TakenData'
  BY <1>1, <1>2, <1>3, <1>4, <1>5 DEF BufIInv, BufTypeOK, Nested, TakenData
<1>8. NoUninitializedByte'
  BY <1>1, <1>2, <1>3, <1>4, <1>5 DEF BufIInv, BufTypeOK, Nested, NoUninitializedByte
<1> QED BY Zenon, <1>6, <1>7, <1>8 DEF BufIInv

\* Every step preserves the invariant.
LEMMA BufNextInv == ReadBufAssumption /\ BufIInv /\ [Next]_vars => BufIInv'
<1> SUFFICES ASSUME ReadBufAssumption, BufIInv, [Next]_vars PROVE BufIInv'
  BY Zenon
<1>1. ASSUME NEW n \in 0..Size, PutSlice(n) PROVE BufIInv'
  <2>1. InitializeAndAdvance(n, n)
    BY <1>1 DEF PutSlice, InitializeAndAdvance, BufIInv, BufTypeOK, Larger, ReadBufAssumption
  <2> QED BY <2>1, FillStep
<1>2. ASSUME NEW n \in 0..Size, SetFilled(n) PROVE BufIInv'
  BY <1>2 DEF SetFilled, BufIInv, BufTypeOK, Nested, TakenData, NoUninitializedByte, NoneTaken
<1>3. ASSUME NEW n \in 0..Size, Take(n) PROVE BufIInv'
  BY <1>3 DEF Take, Smaller, BufIInv, BufTypeOK, Nested, TakenData, NoUninitializedByte,
              ReadBufAssumption
<1>4. CASE GiveBack
  BY <1>4 DEF GiveBack, Larger, BufIInv, BufTypeOK, Nested, TakenData, NoUninitializedByte,
              NoneTaken, ReadBufAssumption
<1>5. CASE UNCHANGED vars
  BY Zenon, <1>5 DEF vars, BufIInv, BufTypeOK, Nested, TakenData, NoUninitializedByte
<1> QED BY <1>1, <1>2, <1>3, <1>4, <1>5, FillStep, AssumeInitStep, FillTakenStep
        DEF Next, ReadBufAssumption

\* For a buffer of any size: what filled() and initialized() show a caller was
\* written by a reader or zeroed, never uninitialized memory.
THEOREM NothingUninitializedIsRead ==
  ASSUME ReadBufAssumption PROVE Spec => []NoUninitializedByte
<1>1. Init => BufIInv
  BY Zenon, BufStart
<1>2. BufIInv /\ [Next]_vars => BufIInv'
  BY Zenon, BufNextInv
<1>3. BufIInv => NoUninitializedByte
  BY Zenon DEF BufIInv
<1> QED BY <1>1, <1>2, <1>3, PTL DEF Spec

(* Signals.                                                                *)

SignalPcs == {"none", "install", "idle", "drain", "count", "wake", "blocked", "clear", "check",
              "register", "recheck", "pending"}
SignalsTypeOK ==
  /\ signalGeneration \in [SignalKinds -> Nat] /\ waiters \in [SignalKinds -> SUBSET Listeners]
  /\ socket \in Seq(SignalKinds) /\ signalReady \in BOOLEAN /\ signalReaders \subseteq Listeners
  /\ signalPc \in [Listeners -> SignalPcs] /\ signalKind \in [Listeners -> SignalKinds]
  /\ signalSeen \in [Listeners -> Nat] /\ bytes \in [Listeners -> Seq(SignalKinds)]
  /\ signalAwake \subseteq Listeners
\* Bytes that were read are there until the last of them is handled.
BytesOK == \A l \in Listeners : signalPc[l] \in {"count", "wake"} => bytes[l] # <<>>
\* Nobody waits for a socket that was reported.
SocketOK == signalReady => signalReaders = {}
\* Who got as far as to wait is known to the reactor, and to the signal.
KnownOK ==
  \A l \in Listeners :
    /\ signalPc[l] \in {"check", "register", "recheck", "pending"} =>
         l \in signalReaders \cup signalAwake
    /\ signalPc[l] \in {"recheck", "pending"} => l \in waiters[signalKind[l]] \cup signalAwake
SignalsIInv == SignalsTypeOK /\ BytesOK /\ SocketOK /\ KnownOK /\ SignalsWake

\* A signal listener that sleeps has nothing to receive, though another listener
\* may have drained the socket that its byte was in (SignalDriver::drain,
\* Signal::poll_recv): SignalsWake in every state of Signals.
THEOREM SignalListenersAreWoken == SignalsSpec => []SignalsWake
<1> USE DEF signalVars, handlers, signalCounts, signalReactor, signalSocket, listening, signalHistory
<1>1. SignalsInit => SignalsIInv
  <2>1. AnyKind \in SignalKinds
    BY Zenon, SignalsAssumption DEF AnyKind
  <2>2. SignalsInit => SignalsTypeOK
    <3>1. <<>> \in Seq(SignalKinds) /\ {} \in SUBSET Listeners /\ 0 \in Nat /\ "none" \in SignalPcs
      BY DEF SignalPcs
    <3>2. QED
      BY Zenon, <2>1, <3>1 DEF SignalsInit, SignalsTypeOK
  <2>3. SignalsInit => BytesOK /\ SocketOK /\ KnownOK /\ SignalsWake
    BY Zenon DEF SignalsInit, BytesOK, SocketOK, KnownOK, SignalsWake, Asleep
  <2>4. QED
    BY Zenon, <2>2, <2>3 DEF SignalsIInv
<1>2. SignalsIInv /\ [SignalsNext]_signalVars => SignalsIInv'
  <2> SUFFICES ASSUME SignalsIInv, [SignalsNext]_signalVars PROVE SignalsIInv'
    BY Zenon
  <2> USE DEF SignalsIInv
  <2>1. ASSUME NEW s \in SignalKinds, Raise(s) PROVE SignalsIInv'
    <3>1. socket' = Append(socket, s) \/ socket' = socket
      BY Zenon, <2>1 DEF Raise
    <3>2. socket' \in Seq(SignalKinds)
      <4>1. socket \in Seq(SignalKinds)
        BY Zenon DEF SignalsTypeOK
      <4> HIDE DEF SignalsIInv
      <4>2. Append(socket, s) \in Seq(SignalKinds)
        BY <4>1
      <4> QED BY Zenon, <3>1, <4>1, <4>2
    <3>3. SignalsTypeOK'
      BY Zenon, <2>1, <3>2 DEF Raise, SignalsTypeOK
    <3>4. BytesOK' /\ SocketOK' /\ KnownOK'
      BY Zenon, <2>1 DEF Raise, BytesOK, SocketOK, KnownOK
    <3>5. SignalsWake'
      BY Zenon, <2>1 DEF Raise, SignalsWake, Asleep, SocketOK, KnownOK
    <3>6. QED
      BY Zenon, <3>3, <3>4, <3>5
  <2>2. ASSUME NEW l \in Listeners, NEW s \in SignalKinds, Listen(l, s) PROVE SignalsIInv'
    <3>1. /\ signalPc[l] = "none" /\ signalKind' = [signalKind EXCEPT ![l] = s]
          /\ \E p \in {"idle", "install"} : signalPc' = [signalPc EXCEPT ![l] = p]
          /\ \E n \in Nat : signalSeen' = [signalSeen EXCEPT ![l] = n]
      <4>1. CASE installed[s]
        BY Zenon, <2>2, <4>1 DEF Listen, To, SignalsTypeOK
      <4>2. CASE ~installed[s]
        BY <2>2, <4>2 DEF Listen, To, SignalsTypeOK
      <4>3. QED
        BY Zenon, <4>1, <4>2
    <3>2. SignalsTypeOK'
      BY <2>2, <3>1 DEF Listen, SignalsTypeOK, SignalPcs
    <3>3. BytesOK' /\ SocketOK' /\ KnownOK'
      BY <2>2, <3>1 DEF Listen, BytesOK, SocketOK, KnownOK, SignalsTypeOK
    <3>4. SignalsWake'
      <4>1. /\ signalPc'[l] # "pending"
            /\ \A m \in Listeners : m # l => /\ signalPc'[m] = signalPc[m]
                                           /\ signalKind'[m] = signalKind[m]
                                           /\ signalSeen'[m] = signalSeen[m]
        BY Zenon, <3>1 DEF SignalsTypeOK
      <4>2. UNCHANGED <<signalCounts, signalSocket, bytes, signalAwake>>
        BY Zenon, <2>2 DEF Listen
      <4>3. QED
        BY <3>1, <4>1, <4>2 DEF SignalsWake, Asleep
    <3>5. QED
      BY Zenon, <3>2, <3>3, <3>4
  <2>3. ASSUME NEW l \in Listeners, Install(l) PROVE SignalsIInv'
    <3>1. /\ signalPc[l] = "install"
          /\ \E p \in {"idle", "none"} : signalPc' = [signalPc EXCEPT ![l] = p]
          /\ \E n \in Nat : signalSeen' = [signalSeen EXCEPT ![l] = n]
      BY <2>3 DEF Install, To, SignalsTypeOK
    <3>2. SignalsTypeOK'
      BY <2>3, <3>1 DEF Install, SignalsTypeOK, SignalPcs
    <3>3. BytesOK' /\ SocketOK' /\ KnownOK'
      BY Zenon, <2>3, <3>1 DEF Install, BytesOK, SocketOK, KnownOK, SignalsTypeOK
    <3>4. SignalsWake'
      BY <2>3, <3>1 DEF Install, SignalsWake, Asleep, SignalsTypeOK
    <3>5. QED
      BY Zenon, <3>2, <3>3, <3>4
  <2>4. ASSUME NEW l \in Listeners, SignalPoll(l) PROVE SignalsIInv'
    <3>1. SignalsTypeOK'
      BY Zenon, <2>4 DEF SignalPoll, To, SignalsTypeOK, SignalPcs
    <3>2. BytesOK' /\ SocketOK' /\ KnownOK'
      BY Zenon, <2>4 DEF SignalPoll, To, BytesOK, SocketOK, KnownOK, SignalsTypeOK
    <3>3. SignalsWake'
      BY Zenon, <2>4 DEF SignalPoll, To, SignalsWake, Asleep, SignalsTypeOK
    <3>4. QED
      BY Zenon, <3>1, <3>2, <3>3
  <2>5. ASSUME NEW l \in Listeners, DrainRead(l) PROVE SignalsIInv'
    <3>1. SignalsTypeOK'
      BY <2>5 DEF DrainRead, To, SignalsTypeOK, SignalPcs
    <3>2. BytesOK' /\ SocketOK' /\ KnownOK'
      BY Zenon, <2>5 DEF DrainRead, To, BytesOK, SocketOK, KnownOK, SignalsTypeOK
    <3>3. SignalsWake'
      BY Zenon, <2>5 DEF DrainRead, To, SignalsWake, Asleep, SignalsTypeOK
    <3>4. QED
      BY Zenon, <3>1, <3>2, <3>3
  <2>6. ASSUME NEW l \in Listeners, DrainCount(l) PROVE SignalsIInv'
    <3>1. Head(bytes[l]) \in SignalKinds
      BY <2>6 DEF DrainCount, BytesOK, SignalsTypeOK
    <3>2. SignalsTypeOK'
      BY <2>6, <3>1 DEF DrainCount, To, SignalsTypeOK, SignalPcs
    <3>3. BytesOK' /\ SocketOK' /\ KnownOK'
      BY Zenon, <2>6 DEF DrainCount, To, BytesOK, SocketOK, KnownOK, SignalsTypeOK
    <3>4. SignalsWake'
      BY Zenon, <2>6, <3>1 DEF DrainCount, To, SignalsWake, Asleep, SignalsTypeOK
    <3>5. QED
      BY Zenon, <3>2, <3>3, <3>4
  <2>7. ASSUME NEW l \in Listeners, DrainWake(l) PROVE SignalsIInv'
    <3> DEFINE s == Head(bytes[l])
               p == IF Len(bytes[l]) = 1 THEN "drain" ELSE "count"
    <3>1. /\ s \in SignalKinds /\ Tail(bytes[l]) \in Seq(SignalKinds)
          /\ p \in {"drain", "count"} /\ (p = "count" => Tail(bytes[l]) # <<>>)
      <4>1. bytes[l] \in Seq(SignalKinds) /\ bytes[l] # <<>>
        BY Zenon, <2>7 DEF DrainWake, BytesOK, SignalsTypeOK
      <4>2. s \in SignalKinds /\ Tail(bytes[l]) \in Seq(SignalKinds)
        BY <4>1
      <4>3. Len(bytes[l]) # 1 => Len(Tail(bytes[l])) # 0
        BY <4>1
      <4>4. Len(bytes[l]) # 1 => Tail(bytes[l]) # <<>>
        BY Zenon, <4>3
      <4>5. QED
        BY Zenon, <4>2, <4>4
    <3>2. /\ signalPc[l] = "wake" /\ signalPc' = [signalPc EXCEPT ![l] = p]
          /\ waiters' = [waiters EXCEPT ![s] = {}] /\ signalAwake' = signalAwake \cup waiters[s]
          /\ bytes' = [bytes EXCEPT ![l] = Tail(bytes[l])]
      BY Zenon, <2>7 DEF DrainWake, To, SignalsTypeOK
    <3>3. UNCHANGED <<handlers, signalGeneration, signalSocket, listening, signalHistory>>
      BY Zenon, <2>7 DEF DrainWake
    <3>4. \A m \in Listeners : m # l => signalPc'[m] = signalPc[m] /\ bytes'[m] = bytes[m]
      BY Zenon, <3>2 DEF SignalsTypeOK
    <3>5. signalPc'[l] = p /\ bytes'[l] = Tail(bytes[l])
      BY Zenon, <3>2 DEF SignalsTypeOK
    <3> HIDE DEF s, p
    <3>6. SignalsTypeOK'
      BY Zenon, <3>1, <3>2, <3>3 DEF SignalsTypeOK, SignalPcs
    <3>7. BytesOK' /\ SocketOK'
      BY Zenon, <3>1, <3>3, <3>4, <3>5 DEF BytesOK, SocketOK
    <3>8. KnownOK'
      BY Zenon, <3>1, <3>2, <3>3, <3>4, <3>5 DEF KnownOK, SignalsTypeOK
    <3>9. SignalsWake'
      <4> SUFFICES ASSUME NEW k \in Listeners, Asleep(k)'
                   PROVE  /\ socket' = <<>> \/ (~signalReady' /\ k \in signalReaders')
                          /\ \/ signalGeneration'[signalKind'[k]] = signalSeen'[k]
                             \/ \E m \in Listeners : /\ signalPc'[m] = "wake"
                                                     /\ Head(bytes'[m]) = signalKind'[k]
        BY Zenon DEF SignalsWake
      <4>1. k # l /\ Asleep(k) /\ k \notin waiters[s]
        BY Zenon, <3>1, <3>2, <3>4, <3>5 DEF Asleep
      <4>2. signalKind[k] # s
        BY Zenon, <4>1 DEF KnownOK, Asleep
      <4>3. \A m \in Listeners : signalPc[m] = "wake" /\ Head(bytes[m]) = signalKind[k] => m # l
        BY Zenon, <4>2 DEF s
      <4>4. QED
        BY <3>3, <3>4, <4>1, <4>3 DEF SignalsWake
    <3>10. QED
      BY Zenon, <3>6, <3>7, <3>8, <3>9
  <2>8. ASSUME NEW l \in Listeners, DrainBlock(l) \/ DrainFails(l) PROVE SignalsIInv'
    <3>1. PICK p \in {"blocked", "idle"} : signalPc' = [signalPc EXCEPT ![l] = p]
      BY Zenon, <2>8 DEF DrainBlock, DrainFails, To
    <3>2. /\ signalPc[l] \in {"drain", "blocked"}
          /\ UNCHANGED <<signalCounts, signalSocket, listening, bytes, signalAwake>>
      BY Zenon, <2>8 DEF DrainBlock, DrainFails
    <3>3. SignalsTypeOK'
      BY Zenon, <3>1, <3>2 DEF SignalsTypeOK, SignalPcs
    <3>4. BytesOK' /\ SocketOK' /\ KnownOK'
      BY Zenon, <3>1, <3>2 DEF BytesOK, SocketOK, KnownOK, SignalsTypeOK
    <3>5. SignalsWake'
      BY Zenon, <3>1, <3>2 DEF SignalsWake, Asleep, SignalsTypeOK
    <3>6. QED
      BY Zenon, <3>3, <3>4, <3>5
  <2>14. ASSUME NEW l \in Listeners, DrainPollReady(l) PROVE SignalsIInv'
    <3>1. SignalsTypeOK'
      BY Zenon, <2>14 DEF DrainPollReady, To, SignalsTypeOK, SignalPcs
    <3>2. BytesOK' /\ SocketOK' /\ KnownOK'
      BY Zenon, <2>14 DEF DrainPollReady, To, BytesOK, SocketOK, KnownOK, SignalsTypeOK
    <3>3. SignalsWake'
      <4>1. PICK p \in {"clear", "check"} : signalPc' = [signalPc EXCEPT ![l] = p]
        BY Zenon, <2>14 DEF DrainPollReady, To
      <4>2. /\ signalPc[l] = "blocked" /\ signalReaders \subseteq signalReaders'
            /\ UNCHANGED <<signalCounts, socket, signalReady, listening, bytes, signalAwake>>
        BY Zenon, <2>14 DEF DrainPollReady
      <4>3. QED
        BY Zenon, <4>1, <4>2 DEF SignalsWake, Asleep, SignalsTypeOK
    <3>4. QED
      BY Zenon, <3>1, <3>2, <3>3
  <2>15. ASSUME NEW l \in Listeners, DrainClear(l) PROVE SignalsIInv'
    <3>1. SignalsTypeOK'
      BY Zenon, <2>15 DEF DrainClear, To, SignalsTypeOK, SignalPcs
    <3>2. BytesOK' /\ SocketOK' /\ KnownOK'
      BY Zenon, <2>15 DEF DrainClear, To, BytesOK, SocketOK, KnownOK, SignalsTypeOK
    <3>3. SignalsWake'
      BY Zenon, <2>15 DEF DrainClear, To, SignalsWake, Asleep, SignalsTypeOK
    <3>4. QED
      BY Zenon, <3>1, <3>2, <3>3
  <2>16. CASE SocketReadable
    <3>1. SignalsTypeOK' /\ BytesOK' /\ SocketOK' /\ KnownOK'
      BY Zenon, <2>16 DEF SocketReadable, SignalsTypeOK, BytesOK, SocketOK, KnownOK
    <3>2. \A l \in Listeners : ~Asleep(l)'
      BY Zenon, <2>16 DEF SocketReadable, Asleep, KnownOK
    <3>3. QED
      BY Zenon, <3>1, <3>2 DEF SignalsWake
  <2>9. ASSUME NEW l \in Listeners, Check(l) PROVE SignalsIInv'
    <3>1. SignalsTypeOK'
      <4>1. signalSeen[l] + 1 \in Nat
        BY DEF SignalsTypeOK
      <4>2. /\ \E p \in SignalPcs : signalPc' = [signalPc EXCEPT ![l] = p]
            /\ \E n \in Nat : signalSeen' = [signalSeen EXCEPT ![l] = n]
        BY <2>9, <4>1 DEF Check, Receive, NothingNew, To, SignalsTypeOK, SignalPcs
      <4>3. QED
        BY <2>9, <4>2 DEF Check, SignalsTypeOK
    <3>2. BytesOK' /\ SocketOK' /\ KnownOK'
      BY Zenon, <2>9 DEF Check, Receive, NothingNew, To, BytesOK, SocketOK, KnownOK, SignalsTypeOK
    <3>3. SignalsWake'
      BY <2>9 DEF Check, Receive, NothingNew, To, SignalsWake, Asleep, SignalsTypeOK
    <3>4. QED
      BY Zenon, <3>1, <3>2, <3>3
  <2>10. ASSUME NEW l \in Listeners, SignalRegister(l) PROVE SignalsIInv'
    <3>1. SignalsTypeOK'
      BY Zenon, <2>10 DEF SignalRegister, To, SignalsTypeOK, SignalPcs
    <3>2. BytesOK' /\ SocketOK' /\ KnownOK'
      BY Zenon, <2>10 DEF SignalRegister, To, BytesOK, SocketOK, KnownOK, SignalsTypeOK
    <3>3. SignalsWake'
      BY Zenon, <2>10 DEF SignalRegister, To, SignalsWake, Asleep, SignalsTypeOK
    <3>4. QED
      BY Zenon, <3>1, <3>2, <3>3
  <2>11. ASSUME NEW l \in Listeners, SignalRecheck(l) PROVE SignalsIInv'
    <3>1. SignalsTypeOK'
      <4>1. signalSeen[l] + 1 \in Nat
        BY DEF SignalsTypeOK
      <4>2. /\ \E p \in SignalPcs : signalPc' = [signalPc EXCEPT ![l] = p]
            /\ \E n \in Nat : signalSeen' = [signalSeen EXCEPT ![l] = n]
        BY <2>11, <4>1 DEF SignalRecheck, Receive, NothingNew, To, SignalsTypeOK, SignalPcs
      <4>3. QED
        BY Zenon, <2>11, <4>2 DEF SignalRecheck, SignalsTypeOK
    <3>2. BytesOK' /\ SocketOK' /\ KnownOK'
      BY Zenon, <2>11 DEF SignalRecheck, Receive, NothingNew, To, BytesOK, SocketOK, KnownOK, SignalsTypeOK
    <3>3. Asleep(l)' => /\ ~signalReady /\ l \in signalReaders
                        /\ signalGeneration[signalKind[l]] = signalSeen[l]
                        /\ UNCHANGED signalSeen
      BY Zenon, <2>11 DEF SignalRecheck, Receive, NothingNew, To, Asleep, SignalsTypeOK, SocketOK, KnownOK
    <3>4. SignalsWake'
      <4>1. /\ signalPc[l] = "recheck"
            /\ \A m \in Listeners : m # l => /\ signalPc'[m] = signalPc[m]
                                           /\ signalSeen'[m] = signalSeen[m]
        BY Zenon, <2>11 DEF SignalRecheck, Receive, NothingNew, To, SignalsTypeOK
      <4>2. UNCHANGED <<signalCounts, signalSocket, signalKind, bytes, signalAwake>>
        BY Zenon, <2>11 DEF SignalRecheck
      <4>3. QED
        BY <3>3, <4>1, <4>2 DEF SignalsWake, Asleep
    <3>5. QED
      BY Zenon, <3>1, <3>2, <3>4
  <2>12. CASE UNCHANGED signalVars
    BY Zenon, <2>12 DEF SignalsTypeOK, BytesOK, SocketOK, KnownOK, SignalsWake, Asleep
  <2>13. QED
    BY Zenon, <2>1, <2>2, <2>3, <2>4, <2>5, <2>6, <2>7, <2>8, <2>9, <2>10, <2>11, <2>12,
       <2>14, <2>15, <2>16 DEF SignalsNext
<1>3. SignalsIInv => SignalsWake
  BY Zenon DEF SignalsIInv
<1>4. QED
  BY <1>1, <1>2, <1>3, PTL DEF SignalsSpec
=============================================================================
