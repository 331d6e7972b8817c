----------------------------- MODULE Combinators -----------------------------
(***************************************************************************)
(* The futures that select!, join! and try_join! expand to                 *)
(* (ffrt-macros/src/select.rs, macros.rs): one task polls N branches in    *)
(* passes, one branch after the other, while other threads make branches   *)
(* ready and wake it.                                                      *)
(***************************************************************************)
EXTENDS Naturals, FiniteSets

CONSTANT N  \* the number of branches

CombinatorsAssumption == N \in Nat \ {0}

Branches == 0..(N - 1)
All == N                   \* results other than the one of a branch
NoResult == N + 1

VARIABLES macro,              \* which of the three
          enabled, fits,      \* a branch's precondition; does its output match
          ready, macroWaker,  \* the branches' futures
          disabled,           \* select!'s array; done in the other two
          start, offset,      \* where a pass starts, and how far it is
          macroPc, macroAwake, result,
          returned, stale     \* history: futures that returned, and that were polled again

macroVars == <<macro, enabled, fits, ready, macroWaker, disabled, start, offset,
               macroPc, macroAwake, result, returned, stale>>
given == <<macro, enabled, fits, start>>

\* Every precondition is evaluated before a future is made; biased starts at
\* 0, and otherwise a start is drawn once.
MacroInit ==
  /\ macro \in {"select", "join", "try_join"}
  /\ enabled \in SUBSET Branches /\ fits \in SUBSET Branches
  /\ macro # "select" => enabled = Branches
  /\ macro = "join" => fits = Branches
  /\ start \in IF macro = "select" THEN Branches ELSE {0}
  /\ disabled = Branches \ enabled
  /\ ready = {} /\ macroWaker = {} /\ offset = 0 /\ returned = {} /\ stale = {}
  /\ macroPc = "idle" /\ macroAwake = TRUE /\ result = NoResult

\* Elsewhere a branch's future becomes ready, and wakes who polled it.
BecomeReady(b) ==
  /\ b \notin ready /\ ready' = ready \union {b}
  /\ macroAwake' = (macroAwake \/ b \in macroWaker) /\ macroWaker' = macroWaker \ {b}
  /\ UNCHANGED <<given, disabled, offset, macroPc, result, returned, stale>>

StartPass ==
  /\ macroPc = "idle" /\ macroPc' = "pass" /\ offset' = 0 /\ macroAwake' = FALSE
  /\ UNCHANGED <<given, ready, macroWaker, disabled, result, returned, stale>>

\* Mutant: only an output that matches disables its branch.
FinishMatching(b) == IF b \in fits THEN disabled \union {b} ELSE disabled

\* A branch that is ready is not polled again, whatever its output.
Finish(b) == disabled \union {b}

Stop(r) == result' = r /\ macroPc' = "done" /\ UNCHANGED offset
GoOn == offset' = offset + 1 /\ UNCHANGED <<macroPc, result>>

\* A branch's future is polled: it registers the waker or is finished.
PollBranch(b) ==
  /\ stale' = stale \union ({b} \intersect returned)
  /\ returned' = returned \union ({b} \intersect ready)
  /\ macroWaker' = IF b \in ready THEN macroWaker ELSE macroWaker \union {b}

\* One turn of the loop that select! expands to.
SelectTurn(b) ==
  /\ macro = "select"
  /\ IF b \in disabled THEN GoOn /\ UNCHANGED <<disabled, macroWaker, returned, stale>>
     ELSE /\ PollBranch(b)
          /\ IF b \notin ready THEN GoOn /\ UNCHANGED disabled
             ELSE /\ disabled' = Finish(b)
                  /\ IF b \in fits THEN Stop(b) ELSE GoOn

\* poll_one of join!.
JoinTurn(b) ==
  /\ macro = "join" /\ GoOn
  /\ IF b \in disabled THEN UNCHANGED <<disabled, macroWaker, returned, stale>>
     ELSE PollBranch(b) /\ disabled' = IF b \in ready THEN Finish(b) ELSE disabled

\* __ffrt_try_poll_one of try_join!: an error ends it.
TryJoinTurn(b) ==
  /\ macro = "try_join"
  /\ IF b \in disabled THEN GoOn /\ UNCHANGED <<disabled, macroWaker, returned, stale>>
     ELSE /\ PollBranch(b)
          /\ disabled' = IF b \in ready THEN Finish(b) ELSE disabled
          /\ IF b \in ready \ fits THEN Stop(b) ELSE GoOn

Turn ==
  /\ macroPc = "pass" /\ offset < N
  /\ LET b == (start + offset) % N IN SelectTurn(b) \/ JoinTurn(b) \/ TryJoinTurn(b)
  /\ UNCHANGED <<given, ready, macroAwake>>

\* A pass that reached no result ends: all, or pending.
EndPass ==
  /\ macroPc = "pass" /\ offset = N
  /\ IF disabled = Branches THEN Stop(All) ELSE macroPc' = "idle" /\ UNCHANGED <<offset, result>>
  /\ UNCHANGED <<given, ready, macroWaker, disabled, macroAwake, returned, stale>>

MacroNext == StartPass \/ Turn \/ EndPass \/ \E b \in Branches : BecomeReady(b)

MacroSpec == MacroInit /\ [][MacroNext]_macroVars
-----------------------------------------------------------------------------
\* What a combinator returns is right: select! a branch that was enabled, is
\* ready and matches, or its else branch only when every branch is out;
\* join! when all are ready; try_join! an error, or all of them (the poll_fn
\* bodies).  No future is polled again after it was ready.
ResultsAreExact ==
  /\ stale = {} /\ ready \subseteq Branches
  /\ result = All =>
       \/ macro = "select" /\ enabled \intersect fits \intersect disabled = {}
       \/ macro # "select" /\ ready = Branches /\ fits = Branches
  /\ result \in Branches =>
       /\ result \in enabled \intersect ready
       /\ result \in fits <=> macro = "select"

\* A combinator that sleeps is registered with every branch that can still
\* finish it, so that whichever becomes ready wakes the task (the loop over
\* all offsets before Pending).
CombinatorsWake == macroPc = "idle" /\ ~macroAwake => Branches \ disabled \subseteq macroWaker

\* select!, join! and try_join! return what their branches say, and sleep only
\* while no branch can go on.
CombinatorsAreExact == ResultsAreExact /\ CombinatorsWake
=============================================================================
