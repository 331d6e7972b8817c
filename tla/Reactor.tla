------------------------------- MODULE Reactor -------------------------------
(***************************************************************************)
(* The readiness reactor (reactor.rs) and the endpoints that do their I/O  *)
(* through it (net.rs, net_unix.rs, net_unix_pipe.rs, process.rs): one     *)
(* descriptor, the loop thread that reports its events and the operations  *)
(* of its users.                                                           *)
(*                                                                         *)
(* A critical section (of events, of waiters) is one step, and so is a     *)
(* system call.  Any parked operation may be polled again, so a waker that *)
(* wake_ready took and has yet to call is not told apart from a called one.*)
(* Loop stands for the thread that runs readiness_callback; every other    *)
(* member of Threads is a user with one operation at a time.  "IN" stands  *)
(* for EPOLLIN and EPOLLPRI, "ERR" for EPOLLERR and EPOLLHUP.  FFRT's loop *)
(* is level triggered: it reports a flag as long as the descriptor has it  *)
(* and the flag is armed.                                                  *)
(***************************************************************************)
EXTENDS Naturals, FiniteSets

CONSTANTS Threads,            \* the loop and the users
          Writers,            \* the users that write to what can be read and written
          Loop,               \* the thread of ReactorInner::start
          Kinds,              \* the endpoint types of this instance
          Ops,                \* Ops[k]: the operations of endpoint type k (Endpoints)
          ReactorGenerations  \* values of the u32 generation before it wraps

Users == Threads \ {Loop}
Tokens == {0, 1}
Directions == {"IN", "OUT"}
Flags == Directions \cup {"ERR"}

VARIABLES endpoint,      \* the type of the registered endpoint
          avail,         \* the descriptor's state in the kernel
          registered,    \* ScheduledIo.registered
          readiness,     \* the flags in ScheduledIo.readiness
          generation,    \* the generation in ScheduledIo.readiness
          events,        \* ScheduledIo.events: the directions armed in the loop
          readers,       \* Waiters.readers: users whose waker is registered
          writers,       \* Waiters.writers
          token,         \* ScheduledIo.token
          batch,         \* an event the loop fetched and has yet to deliver, with the
                         \* token it was armed with; stale (history): the registration
                         \* it was fetched for is gone
          waking,        \* threads about to run wake_ready
          reactorAwake,  \* parked users whose waker was taken to be called
          op,            \* op[f]: the operation of user f
          at,            \* at[f]: where f is in it
          seen           \* seen[f]: the flags and generation of f's guard

ioVars == <<endpoint, registered, readiness, generation, events, readers, writers>>
wakeVars == <<waking, reactorAwake>>
userVars == <<op, at, seen>>
reactorVars == <<ioVars, avail, token, batch, wakeVars, userVars>>

NoOp == [dir |-> "IN", style |-> "none"]
NoGuard == [flags |-> {}, generation |-> 0]
\* The interest an endpoint is registered with.
InterestOf(k) == CASE k \in {"TcpListener", "UnixListener", "Receiver", "ChildOutput"} -> {"IN"}
                   [] k \in {"Sender", "ChildStdin"} -> {"OUT"}
                   [] OTHER -> Directions
Interest == InterestOf(endpoint)

\* The styles of an operation (Endpoints).
Styles == {"retry", "guard", "once", "direct", "ready"}

\* What the constants are expected to be: an operation is in a direction its
\* endpoint was registered for.
ReactorAssumption ==
  /\ Loop \in Threads /\ ReactorGenerations \in Nat \ {0}
  /\ \A k \in Kinds : Ops[k] \subseteq [dir : InterestOf(k), style : Styles]
-----------------------------------------------------------------------------
\* ScheduledIo::update_interest with the flags r cached: directions without
\* cached readiness are armed, none after an error.  DEL or ADD may fail, which
\* leaves nothing armed.
Desired(r) == IF "ERR" \in r THEN {} ELSE Interest \ r

UpdateInterest(r) ==
  {[events |-> Desired(r), failed |-> FALSE]}
    \cup (IF Desired(r) = events THEN {} ELSE {[events |-> {}, failed |-> TRUE]})

Bump(g) == (g + 1) % ReactorGenerations

\* Readiness r of generation g is stored and the interest follows it; if that
\* fails, record_error makes it an error of the next generation.
StoreReady(r, g, u) ==
  /\ events' = u.events
  /\ readiness' = IF u.failed THEN r \cup {"ERR"} ELSE r
  /\ generation' = IF u.failed THEN Bump(g) ELSE g

ReactorTypeOK ==
  /\ endpoint \in Kinds /\ avail \subseteq Flags /\ registered \in BOOLEAN
  /\ readiness \subseteq Flags /\ generation \in 0..(ReactorGenerations - 1)
  /\ events \subseteq Directions /\ readers \subseteq Users /\ writers \subseteq Users
  /\ token \in Tokens /\ batch \subseteq [token : Tokens, stale : BOOLEAN, flags : SUBSET Flags]
  /\ waking \subseteq Threads /\ reactorAwake \subseteq Users
  /\ \A f \in Threads :
       /\ op[f] \in Ops[endpoint] \cup {NoOp}
       /\ at[f] \in {"idle", "peek", "try", "wait", "parked", "clear"}
       /\ seen[f].flags \subseteq Flags /\ seen[f].generation \in 0..(ReactorGenerations - 1)

ReactorInit ==
  /\ endpoint \in Kinds /\ avail = {} /\ registered = TRUE
  /\ readiness = {} /\ generation = 0 /\ events = Interest
  /\ readers = {} /\ writers = {} /\ token = 0 /\ batch = {}
  /\ waking = {} /\ reactorAwake = {}
  /\ op = [f \in Threads |-> NoOp] /\ at = [f \in Threads |-> "idle"]
  /\ seen = [f \in Threads |-> NoGuard]
-----------------------------------------------------------------------------
\* f is not in the middle of a wake_ready.
Free(f) == f \notin waking

\* External: the peer sends, makes room, or goes away.
KernelEvent(flag) ==
  /\ registered /\ flag \in (Interest \cup {"ERR"}) \ avail /\ avail' = avail \cup {flag}
  /\ UNCHANGED <<ioVars, batch, wakeVars, userVars, token>>

\* External: FFRT's loop fetches what the descriptor has of the armed flags.
Fetch ==
  /\ batch = {} /\ Free(Loop) /\ events # {}
  /\ LET flags == (events \cup {"ERR"}) \cap avail
     IN flags # {} /\ batch' = {[token |-> token, stale |-> FALSE, flags |-> flags]}
  /\ UNCHANGED <<ioVars, avail, wakeVars, userVars, token>>

\* The registry still has the token of the event.
Found(b) == registered /\ b.token = token

\* readiness_callback up to the release of events; a stale event misses.
ReadinessCallback ==
  \E b \in batch :
    /\ batch' = {}
    /\ \/ /\ Found(b)
          /\ \E u \in UpdateInterest(readiness \cup b.flags) :
               StoreReady(readiness \cup b.flags, Bump(generation), u)
          /\ waking' = waking \cup {Loop}
       \/ ~Found(b) /\ UNCHANGED <<readiness, generation, events, waking>>
    /\ UNCHANGED <<endpoint, registered, token, readers, writers, avail, reactorAwake, userVars>>

\* wake_ready takes the waiters of the directions that are ready and wakes them.
\* It reads the readiness before it locks the waiters: whoever adds to it in
\* between calls wake_ready in turn, so the two are one step here.
WakeReady(f) ==
  /\ f \in waking /\ waking' = waking \ {f}
  /\ LET r == IF readiness \cap {"IN", "ERR"} # {} THEN readers ELSE {}
         w == IF readiness \cap {"OUT", "ERR"} # {} THEN writers ELSE {}
     IN /\ readers' = readers \ r /\ writers' = writers \ w
        /\ reactorAwake' = reactorAwake \cup {u \in r \cup w : at[u] = "parked"}
  /\ UNCHANGED <<endpoint, registered, readiness, generation, events, avail, batch,
                 userVars, token>>
-----------------------------------------------------------------------------
Active(f, place) == f \in Users /\ Free(f) /\ at[f] = place

IoTo(f, place) == at' = [at EXCEPT ![f] = place]

Keep(f, place) == IoTo(f, place) /\ UNCHANGED <<op, seen>>

FinishIo(f) ==
  IoTo(f, "idle") /\ op' = [op EXCEPT ![f] = NoOp] /\ seen' = [seen EXCEPT ![f] = NoGuard]

Guard(f, r, place) ==
  /\ IoTo(f, place) /\ UNCHANGED op
  /\ seen' = [seen EXCEPT ![f] = [flags |-> r, generation |-> generation]]

Unguard(f, place) ==
  IoTo(f, place) /\ seen' = [seen EXCEPT ![f] = NoGuard] /\ UNCHANGED op

\* Where a poll of an operation begins.
Entry(style) == CASE style \in {"retry", "direct"} -> "try"
                  [] style \in {"guard", "ready"} -> "wait"
                  [] style = "once" -> "peek"

Start(f) ==
  /\ Active(f, "idle") /\ registered
  /\ \E o \in Ops[endpoint] :
       /\ Interest = Directions => (o.dir = "OUT" <=> f \in Writers)
       /\ op' = [op EXCEPT ![f] = o] /\ IoTo(f, Entry(o.style))
  /\ UNCHANGED <<ioVars, avail, batch, wakeVars, seen, token>>

\* A parked operation is polled again, woken or not, and starts over.
Repoll(f) ==
  /\ Active(f, "parked")
  /\ Keep(f, Entry(op[f].style)) /\ reactorAwake' = reactorAwake \ {f}
  /\ UNCHANGED <<ioVars, avail, batch, waking, token>>

\* A parked operation is dropped; its waker stays where it is.
CancelIo(f) ==
  /\ Active(f, "parked")
  /\ FinishIo(f) /\ reactorAwake' = reactorAwake \ {f}
  /\ UNCHANGED <<ioVars, avail, batch, waking, token>>

\* Mutant: only the flag of the direction counts as readiness.
ReadyInDirection(f) == readiness \cap {op[f].dir}

\* The cached readiness, masked by the direction and the error flags.
ReadyFor(f) == readiness \cap {op[f].dir, "ERR"}

\* try_io of AsyncFd looks at the cached readiness before the system call.
PeekReady(f) ==
  /\ Active(f, "peek")
  /\ IF ReadyFor(f) = {} THEN FinishIo(f) ELSE Guard(f, ReadyFor(f), "try")
  /\ UNCHANGED <<ioVars, avail, batch, wakeVars, token>>

\* The descriptor can do what f wants, or has an error to report to it.
CanProceed(f) == {op[f].dir, "ERR"} \cap avail # {}

\* The system call succeeds, perhaps using up the data or the room, or fails
\* because of an error of the descriptor: either ends the operation.
SyscallDone(f) ==
  /\ Active(f, "try") /\ CanProceed(f)
  /\ avail' \in {avail, avail \ {op[f].dir}}
  /\ FinishIo(f)
  /\ UNCHANGED <<ioVars, batch, wakeVars, token>>

\* The system call would block.
SyscallBlocks(f) ==
  /\ Active(f, "try") /\ ~CanProceed(f)
  /\ CASE op[f].style = "retry" -> Keep(f, "wait")
       [] op[f].style \in {"guard", "once"} -> Keep(f, "clear")
       [] op[f].style = "direct" -> FinishIo(f)
  /\ UNCHANGED <<ioVars, avail, batch, wakeVars, token>>

\* poll_ready, one critical section of waiters: a guard, or the waker is
\* registered.
PollReady(f) ==
  /\ Active(f, "wait")
  /\ IF ReadyFor(f) # {}
     THEN /\ CASE op[f].style = "retry" -> Guard(f, ReadyFor(f), "clear")
               [] op[f].style = "guard" -> Guard(f, ReadyFor(f), "try")
               [] op[f].style = "ready" -> FinishIo(f)
          /\ UNCHANGED <<readers, writers>>
     ELSE /\ readers' = IF op[f].dir = "IN" THEN readers \cup {f} ELSE readers
          /\ writers' = IF op[f].dir = "OUT" THEN writers \cup {f} ELSE writers
          /\ Keep(f, "parked")
  /\ UNCHANGED <<endpoint, registered, readiness, generation, events,
                 avail, batch, wakeVars, token>>

AfterClear(f) ==
  CASE op[f].style = "retry" -> Unguard(f, "try")
    [] op[f].style = "guard" -> Unguard(f, "wait")
    [] op[f].style = "once" -> FinishIo(f)

\* Mutant: the flags are cleared and nothing is armed again.
ClearWithoutRearm(f) ==
  /\ Active(f, "clear")
  /\ readiness' = IF generation = seen[f].generation THEN readiness \ seen[f].flags ELSE readiness
  /\ AfterClear(f)
  /\ UNCHANGED <<endpoint, registered, generation, events, readers, writers,
                 avail, batch, wakeVars, token>>

\* clear_ready: flags of the generation the guard saw are cleared and armed
\* again; a failure is an error to everybody, whom f then wakes.
ClearReady(f) ==
  /\ Active(f, "clear")
  /\ \/ /\ generation = seen[f].generation
        /\ \E u \in UpdateInterest(readiness \ seen[f].flags) :
             /\ StoreReady(readiness \ seen[f].flags, generation, u)
             /\ waking' = IF u.failed THEN waking \cup {f} ELSE waking
     \/ /\ generation # seen[f].generation
        /\ UNCHANGED <<readiness, generation, events, waking>>
  /\ AfterClear(f)
  /\ UNCHANGED <<endpoint, registered, readers, writers, avail, batch, reactorAwake,
                 token>>
-----------------------------------------------------------------------------
\* Drop or into_inner of an AsyncFd, which nobody borrows: deregister.  The
\* callback has no part of it left to use.
Deregister ==
  /\ registered /\ Free(Loop) /\ \A f \in Users : Active(f, "idle")
  /\ registered' = FALSE /\ events' = {} /\ avail' = {}
  /\ readiness' = {} /\ generation' = 0 /\ readers' = {} /\ writers' = {}
  /\ batch' = {[b EXCEPT !.stale = TRUE] : b \in batch}
  /\ UNCHANGED <<endpoint, wakeVars, userVars, token>>

\* Mutant: the descriptor number serves as token.
SameToken == token

\* next_token counts up and never repeats a value.  One event is pending at most,
\* so a second token is enough to tell a registration from all that went before.
NextToken == IF \E b \in batch : b.token = token THEN 1 - token ELSE token

\* ScheduledIo::register: the descriptor number is used again; ADD may fail.
RegisterIo ==
  /\ ~registered
  /\ endpoint' \in Kinds /\ token' = NextToken
  /\ \/ registered' = TRUE /\ events' = Interest'
     \/ UNCHANGED <<registered, events>>
  /\ UNCHANGED <<readiness, generation, readers, writers, avail, batch, wakeVars, userVars>>

UserStep(f) ==
  \/ PeekReady(f) \/ SyscallDone(f) \/ SyscallBlocks(f) \/ PollReady(f) \/ ClearReady(f)
  \/ f \in reactorAwake /\ Repoll(f)

ReactorNext ==
  \/ \E flag \in Flags : KernelEvent(flag)
  \/ Fetch \/ ReadinessCallback \/ Deregister \/ RegisterIo
  \/ \E f \in Threads :
       \/ WakeReady(f) \/ Start(f) \/ Repoll(f) \/ CancelIo(f)
       \/ PeekReady(f) \/ SyscallDone(f) \/ SyscallBlocks(f) \/ PollReady(f) \/ ClearReady(f)

ReactorSpec == ReactorInit /\ [][ReactorNext]_reactorVars

\* The loop thread keeps running, a thread finishes the call it is in, and a
\* woken task is polled.  The peer owes nothing.
ReactorFairness ==
  /\ WF_reactorVars(Fetch) /\ WF_reactorVars(ReadinessCallback)
  /\ \A f \in Threads :
       WF_reactorVars(WakeReady(f)) /\ WF_reactorVars(UserStep(f))

ReactorFairSpec == ReactorSpec /\ ReactorFairness
-----------------------------------------------------------------------------
(* Properties.                                                             *)

Queued(f) == f \in IF op[f].dir = "IN" THEN readers ELSE writers

\* No readiness is lost between the kernel, the cached flags and the waiters:
\* whoever is parked on a direction the descriptor is ready in is going to be
\* polled, or its waker is queued while the direction is armed, or while a thread
\* is on its way to take it.
NoReadinessLost ==
  \A f \in Users :
    at[f] = "parked" /\ CanProceed(f) =>
      \/ f \in reactorAwake
      \/ Queued(f) /\ (op[f].dir \in events \/ (waking # {} /\ ReadyFor(f) # {}))

\* Readiness is reported for the registration that caches it: the registry takes
\* no event that was fetched for an earlier owner of the descriptor number.
ReadinessIsOwn == ReactorTypeOK /\ \A b \in batch : Found(b) => ~b.stale

\* Readiness is neither lost nor made up: nobody sleeps through what the kernel
\* announced, and no event reaches a registration it is not for
\* (readiness_callback, poll_ready, clear_ready, deregister, next_token).
ReadinessIsExact == NoReadinessLost /\ ReadinessIsOwn

\* An operation on a descriptor that stays ready ends, however the loop thread
\* interleaves with it and even if arming fails.
IoCompletes ==
  \A f \in Users :
    (at[f] # "idle" /\ CanProceed(f)) ~> (at[f] = "idle" \/ ~CanProceed(f))
=============================================================================
