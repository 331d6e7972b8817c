------------------------------- MODULE Signals -------------------------------
(***************************************************************************)
(* Unix signals (signal/unix.rs): the handler writes a byte to a socket,   *)
(* and whichever listener is polled drains it for all of them.  The reactor*)
(* is taken at what its own module shows: bytes in the socket are reported *)
(* unless they are already, which wakes everybody who waits for that.      *)
(***************************************************************************)
EXTENDS Naturals, Sequences, FiniteSets

CONSTANTS Listeners, SignalKinds,
          SocketSize,  \* bytes the socket has room for
          MaxRaised    \* bound on the signals of a behaviour

ASSUME SignalsAssumption ==
  SignalKinds # {} /\ SocketSize \in Nat \ {0} /\ MaxRaised \in Nat

VARIABLES installed, handler,         \* the flags, and what the kernel knows
          signalGeneration, waiters,  \* per signal
          socket,                     \* bytes of the socket
          signalReady, signalReaders, \* its registration: cached readiness, wakers
          guards,                     \* who has a guard of its present generation
          signalPc, signalKind, signalSeen,    \* of every listener
          bytes,        \* what a drain has read and not yet handled
          signalAwake,  \* listeners that were woken since their last poll
          raised,       \* how many signals there were
          forgotten     \* history: signals of which no trace was left

handlers == <<installed, handler>>
signalCounts == <<signalGeneration, waiters>>
signalReactor == <<signalReady, signalReaders, guards>>
signalSocket == <<socket, signalReactor>>
listening == <<signalKind, signalSeen>>
signalHistory == <<raised, forgotten>>
signalVars == <<handlers, signalCounts, signalSocket, signalPc, listening, bytes,
                signalAwake, signalHistory>>

AnyKind == CHOOSE s \in SignalKinds : TRUE

SignalsInit ==
  /\ installed = [s \in SignalKinds |-> FALSE] /\ handler = [s \in SignalKinds |-> FALSE]
  /\ signalGeneration = [s \in SignalKinds |-> 0] /\ waiters = [s \in SignalKinds |-> {}]
  /\ socket = <<>> /\ signalReady = FALSE /\ signalReaders = {} /\ guards = {}
  /\ signalPc = [l \in Listeners |-> "none"] /\ signalKind = [l \in Listeners |-> AnyKind]
  /\ signalSeen = [l \in Listeners |-> 0] /\ bytes = [l \in Listeners |-> <<>>]
  /\ signalAwake = {} /\ raised = 0 /\ forgotten = {}

To(l, p) == signalPc' = [signalPc EXCEPT ![l] = p]

\* The kernel delivers a signal and signal_handler runs; a full socket is
\* ignored.
Raise(s) ==
  /\ handler[s] /\ raised < MaxRaised /\ raised' = raised + 1
  /\ IF Len(socket) < SocketSize
     THEN socket' = Append(socket, s) /\ UNCHANGED forgotten
     ELSE /\ forgotten' = forgotten \cup ({s} \ {socket[i] : i \in DOMAIN socket})
          /\ UNCHANGED socket
  /\ UNCHANGED <<handlers, signalCounts, signalReactor, signalPc, listening, bytes, signalAwake>>

\* External: the reactor reports the socket, also when what it saw there has been
\* read since.
SocketReadable ==
  /\ ~signalReady /\ signalReady' = TRUE /\ guards' = {}
  /\ signalReaders' = {} /\ signalAwake' = signalAwake \cup signalReaders
  /\ UNCHANGED <<handlers, signalCounts, socket, signalPc, listening, bytes, signalHistory>>

\* signal(): the flag is set before the handler is.
Listen(l, s) ==
  /\ signalPc[l] = "none" /\ signalKind' = [signalKind EXCEPT ![l] = s]
  /\ IF installed[s]
     THEN /\ To(l, "idle") /\ signalSeen' = [signalSeen EXCEPT ![l] = signalGeneration[s]]
          /\ UNCHANGED installed
     ELSE /\ To(l, "install") /\ installed' = [installed EXCEPT ![s] = TRUE]
          /\ UNCHANGED signalSeen
  /\ UNCHANGED <<handler, signalCounts, signalSocket, bytes, signalAwake, signalHistory>>

Install(l) ==
  /\ signalPc[l] = "install"
  /\ \/ /\ handler' = [handler EXCEPT ![signalKind[l]] = TRUE] /\ To(l, "idle")
        /\ signalSeen' = [signalSeen EXCEPT ![l] = signalGeneration[signalKind[l]]]
        /\ UNCHANGED installed
     \/ /\ installed' = [installed EXCEPT ![signalKind[l]] = FALSE] /\ To(l, "none")
        /\ UNCHANGED <<handler, signalSeen>>
  /\ UNCHANGED <<signalCounts, signalSocket, signalKind, bytes, signalAwake, signalHistory>>

\* poll_recv starts with a drain.
SignalPoll(l) ==
  /\ signalPc[l] \in {"idle", "pending"} /\ To(l, "drain")
  /\ signalAwake' = signalAwake \ {l}
  /\ UNCHANGED <<handlers, signalCounts, signalSocket, listening, bytes, signalHistory>>

DrainRead(l) ==
  /\ signalPc[l] = "drain" /\ socket # <<>>
  /\ bytes' = [bytes EXCEPT ![l] = socket] /\ socket' = <<>> /\ To(l, "count")
  /\ UNCHANGED <<handlers, signalCounts, signalReactor, listening, signalAwake, signalHistory>>

\* For every byte: count it, then take the waiters of its signal and wake them.
DrainCount(l) ==
  /\ signalPc[l] = "count" /\ To(l, "wake")
  /\ signalGeneration' = [signalGeneration EXCEPT ![Head(bytes[l])] = @ + 1]
  /\ UNCHANGED <<handlers, waiters, signalSocket, listening, bytes, signalAwake,
                 signalHistory>>

DrainWake(l) ==
  LET s == Head(bytes[l])
  IN /\ signalPc[l] = "wake"
     /\ waiters' = [waiters EXCEPT ![s] = {}] /\ signalAwake' = signalAwake \cup waiters[s]
     /\ bytes' = [bytes EXCEPT ![l] = Tail(@)]
     /\ To(l, IF Len(bytes[l]) = 1 THEN "drain" ELSE "count")
     /\ UNCHANGED <<handlers, signalGeneration, signalSocket, listening, signalHistory>>

DrainBlock(l) ==
  /\ signalPc[l] = "drain" /\ socket = <<>> /\ To(l, "blocked")
  /\ UNCHANGED <<handlers, signalCounts, signalSocket, listening, bytes, signalAwake,
                 signalHistory>>

\* After WouldBlock poll_read_ready: a guard, or the listener waits for the
\* socket as well.
DrainPollReady(l) ==
  /\ signalPc[l] = "blocked"
  /\ \/ signalReady /\ guards' = guards \cup {l} /\ To(l, "clear") /\ UNCHANGED signalReaders
     \/ /\ ~signalReady /\ signalReaders' = signalReaders \cup {l} /\ To(l, "check")
        /\ UNCHANGED guards
  /\ UNCHANGED <<handlers, signalCounts, socket, signalReady, listening, bytes, signalAwake,
                 signalHistory>>

\* clear_ready, unless there was a report since; the socket is read again.
DrainClear(l) ==
  /\ signalPc[l] = "clear" /\ To(l, "drain") /\ guards' = guards \ {l}
  /\ signalReady' = (signalReady /\ l \notin guards)
  /\ UNCHANGED <<handlers, signalCounts, socket, signalReaders, listening, bytes, signalAwake,
                 signalHistory>>

\* Another error of read, or one of poll_read_ready: poll_recv returns None.
DrainFails(l) ==
  /\ signalPc[l] \in {"drain", "blocked"} /\ To(l, "idle")
  /\ UNCHANGED <<handlers, signalCounts, signalSocket, listening, bytes, signalAwake,
                 signalHistory>>

\* One occurrence was seen.
Receive(l) ==
  /\ signalGeneration[signalKind[l]] # signalSeen[l] /\ To(l, "idle")
  /\ signalSeen' = [signalSeen EXCEPT ![l] = @ + 1]
NothingNew(l) == signalGeneration[signalKind[l]] = signalSeen[l] /\ UNCHANGED signalSeen

Check(l) ==
  /\ signalPc[l] = "check" /\ (Receive(l) \/ (NothingNew(l) /\ To(l, "register")))
  /\ UNCHANGED <<handlers, signalCounts, signalSocket, signalKind, bytes, signalAwake,
                 signalHistory>>

SignalRegister(l) ==
  /\ signalPc[l] = "register" /\ To(l, "recheck")
  /\ waiters' = [waiters EXCEPT ![signalKind[l]] = @ \cup {l}]
  /\ UNCHANGED <<handlers, signalGeneration, signalSocket, listening, bytes, signalAwake,
                 signalHistory>>

\* Mutant: the count is not looked at again.
RecheckSkipped(l) ==
  /\ signalPc[l] = "recheck" /\ To(l, "pending")
  /\ UNCHANGED <<handlers, signalCounts, signalSocket, listening, bytes, signalAwake,
                 signalHistory>>

SignalRecheck(l) ==
  /\ signalPc[l] = "recheck" /\ (Receive(l) \/ (NothingNew(l) /\ To(l, "pending")))
  /\ UNCHANGED <<handlers, signalCounts, signalSocket, signalKind, bytes, signalAwake,
                 signalHistory>>

SignalsNext ==
  \/ \E s \in SignalKinds : Raise(s) \/ \E l \in Listeners : Listen(l, s)
  \/ SocketReadable
  \/ \E l \in Listeners :
       \/ Install(l) \/ SignalPoll(l) \/ DrainRead(l) \/ DrainCount(l) \/ DrainWake(l)
       \/ DrainBlock(l) \/ DrainPollReady(l) \/ DrainClear(l) \/ DrainFails(l)
       \/ Check(l) \/ SignalRegister(l) \/ SignalRecheck(l)

SignalsSpec == SignalsInit /\ [][SignalsNext]_signalVars
-----------------------------------------------------------------------------
Asleep(l) == signalPc[l] = "pending" /\ l \notin signalAwake

\* A listener sleeps only while there is nothing for it, though others drain
\* the socket on its behalf: bytes in the socket are yet to be reported, to it
\* too, and an occurrence that was counted has somebody about to wake it.
SignalsWake ==
  \A l \in Listeners : Asleep(l) =>
    /\ socket = <<>> \/ (~signalReady /\ l \in signalReaders)
    /\ signalGeneration[signalKind[l]] = signalSeen[l] \/
         \E m \in Listeners : signalPc[m] = "wake" /\ Head(bytes[m]) = signalKind[l]

\* Signals coalesce: one that finds the socket full is dropped only if one of
\* its own kind is in it.
SignalsCoalesce == forgotten = {}
=============================================================================
