------------------------------- MODULE SetOnce ------------------------------
(***************************************************************************)
(* The cell that is set once and awaited (sync/set_once.rs).  The state is *)
(* an atomic of its own beside the lock of the waiters, so each access to  *)
(* either is a step: a setter claims the cell, writes the value, announces *)
(* it, takes the waiters out and wakes them; a waiter looks again after it *)
(* locked the waiters and then registers.                                  *)
(***************************************************************************)
EXTENDS Naturals, FiniteSets

CONSTANTS Callers,  \* whoever uses the cell
          NoValue   \* nothing was written

VARIABLES state,        \* "EMPTY", "WRITING" or "READY"
          onceValue,    \* the caller whose value was written
          onceWaiters,  \* callers whose waker is registered
          onceAt,       \* onceAt[c]: where caller c is in set or in a poll of wait
          onceAwake,    \* callers whose future is new or was woken
          taken,        \* the wakers the setter took out
          read,         \* history: read[c] is what wait returned to c
          refused       \* history: callers that were told the cell is initialized

onceVars == <<state, onceValue, onceWaiters, onceAt, onceAwake, taken, read, refused>>

ASSUME SetOnceAssumption == IsFiniteSet(Callers) /\ NoValue \notin Callers

OnceTypeOK ==
  /\ state \in {"EMPTY", "WRITING", "READY"} /\ onceValue \in Callers \cup {NoValue}
  /\ onceWaiters \subseteq Callers /\ onceAwake \subseteq Callers /\ taken \subseteq Callers
  /\ onceAt \in [Callers -> {"idle", "write", "announce", "collect", "wake", "wait", "locked"}]
  /\ read \in [Callers -> Callers \cup {NoValue}] /\ refused \subseteq Callers

\* const_new, or a cell created with the value of a caller.
OnceInit ==
  /\ onceValue \in Callers \cup {NoValue}
  /\ state = IF onceValue = NoValue THEN "EMPTY" ELSE "READY"
  /\ onceWaiters = {} /\ onceAwake = {} /\ taken = {} /\ refused = {}
  /\ onceAt = [c \in Callers |-> "idle"] /\ read = [c \in Callers |-> NoValue]

\* The waiters are locked across two steps only in wait.
LockFree == \A c \in Callers : onceAt[c] # "locked"

OnceTo(c, place) == onceAt' = [onceAt EXCEPT ![c] = place]

\* set: the exchange of EMPTY for WRITING, or the error if that fails.
Claim(c) ==
  /\ onceAt[c] = "idle"
  /\ \/ state = "EMPTY" /\ state' = "WRITING" /\ OnceTo(c, "write") /\ UNCHANGED refused
     \/ state # "EMPTY" /\ refused' = refused \cup {c} /\ UNCHANGED <<state, onceAt>>
  /\ UNCHANGED <<onceValue, onceWaiters, onceAwake, taken, read>>

\* set writes the value.
Write(c) ==
  /\ onceAt[c] = "write"
  /\ onceValue' = c /\ OnceTo(c, "announce")
  /\ UNCHANGED <<state, onceWaiters, onceAwake, taken, read, refused>>

\* set stores READY.
Announce(c) ==
  /\ onceAt[c] = "announce"
  /\ state' = "READY" /\ OnceTo(c, "collect")
  /\ UNCHANGED <<onceValue, onceWaiters, onceAwake, taken, read, refused>>

\* Mutant: set does not wait for the lock.
CollectUnlocked(c) ==
  /\ onceAt[c] = "collect"
  /\ taken' = onceWaiters /\ onceWaiters' = {} /\ OnceTo(c, "wake")
  /\ UNCHANGED <<state, onceValue, onceAwake, read, refused>>

\* set takes the waiters out under their lock.
Collect(c) ==
  /\ onceAt[c] = "collect" /\ LockFree
  /\ taken' = onceWaiters /\ onceWaiters' = {} /\ OnceTo(c, "wake")
  /\ UNCHANGED <<state, onceValue, onceAwake, read, refused>>

\* set wakes them and returns.
Wake(c) ==
  /\ onceAt[c] = "wake"
  /\ onceAwake' = onceAwake \cup {d \in taken : onceAt[d] \in {"wait", "locked"}}
  /\ taken' = {} /\ OnceTo(c, "idle")
  /\ UNCHANGED <<state, onceValue, onceWaiters, read, refused>>

\* wait creates a future.
AwaitValue(c) ==
  /\ onceAt[c] = "idle"
  /\ OnceTo(c, "wait") /\ onceAwake' = onceAwake \cup {c}
  /\ UNCHANGED <<state, onceValue, onceWaiters, taken, read, refused>>

\* The value is there: the future returns it.
ValueFound(c) ==
  /\ state = "READY"
  /\ read' = [read EXCEPT ![c] = onceValue]
  /\ OnceTo(c, "idle") /\ onceAwake' = onceAwake \ {c}
  /\ UNCHANGED <<state, onceValue, onceWaiters, taken, refused>>

\* A poll that finds no value at first locks the waiters and looks again.
PollWait(c) ==
  /\ onceAt[c] = "wait"
  /\ \/ ValueFound(c)
     \/ /\ state # "READY" /\ LockFree
        /\ OnceTo(c, "locked") /\ onceAwake' = onceAwake \ {c}
        /\ UNCHANGED <<state, onceValue, onceWaiters, taken, read, refused>>

\* Still locked, it registers its waker; the value may have come meanwhile.
Register(c) ==
  /\ onceAt[c] = "locked"
  /\ onceWaiters' = onceWaiters \cup {c} /\ OnceTo(c, "wait")
  /\ UNCHANGED <<state, onceValue, onceAwake, taken, read, refused>>

\* The future is dropped between polls; its waker stays registered.
AbandonWait(c) ==
  /\ onceAt[c] = "wait"
  /\ OnceTo(c, "idle") /\ onceAwake' = onceAwake \ {c}
  /\ UNCHANGED <<state, onceValue, onceWaiters, taken, read, refused>>

OnceNext ==
  \E c \in Callers :
    \/ Claim(c) \/ Write(c) \/ Announce(c) \/ Collect(c) \/ Wake(c)
    \/ AwaitValue(c) \/ PollWait(c) \/ Register(c) \/ AbandonWait(c)

OnceSpec == OnceInit /\ [][OnceNext]_onceVars
-----------------------------------------------------------------------------
(* Properties.                                                             *)

\* Whoever reads the cell reads what the one successful setter wrote: the value
\* is there when the state says so, and is not written again.
ReadsAreInitialized ==
  /\ OnceTypeOK
  /\ state = "READY" => onceValue # NoValue
  /\ \A c \in Callers : read[c] \in {NoValue, onceValue}
  /\ Cardinality({c \in Callers : onceAt[c] \in {"write", "announce", "collect", "wake"}}) <= 1

\* Nobody sleeps once the value is announced, except for those the setter is
\* still going to wake, although the announcement is made outside the lock.
SetWakesWaiters ==
  state = "READY" =>
    \A c \in Callers :
      onceAt[c] = "wait" =>
        \/ c \in onceAwake
        \/ \E d \in Callers : onceAt[d] = "collect" /\ c \in onceWaiters
        \/ \E d \in Callers : onceAt[d] = "wake" /\ c \in taken

\* The value is written once and read only then, and nobody waits for it in
\* vain (set, WaitFuture::poll).
ValueIsSetOnce == ReadsAreInitialized /\ SetWakesWaiters

\* set fails when the cell is already initialized, as the documentation of
\* SetOnceError has it.
SetErrorMeansInitialized == refused # {} => state = "READY"
=============================================================================
