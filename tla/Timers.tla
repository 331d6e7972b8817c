------------------------------- MODULE Timers --------------------------------
(***************************************************************************)
(* Sleep, Timeout and Interval (timer/) on the timers of the FFRT loop     *)
(* (looper.rs): the future is polled, reset and dropped by its task while  *)
(* the loop's thread enters, runs and leaves the callbacks.  Every reset   *)
(* starts a generation with a TimerState and a loop timer of its own.      *)
(***************************************************************************)
EXTENDS Naturals

CONSTANTS MaxTime, Generations,  \* bounds on the clock and on the resets
          Millisecond,           \* ticks of the clock in the unit of the loop
          Tolerance,             \* the 5 ms an Interval may be late
          Period, Durations      \* of an Interval, and of sleeps

TimersAssumption ==
  /\ MaxTime \in Nat /\ Generations \in Nat \ {0} /\ Millisecond \in Nat \ {0}
  /\ Tolerance \in Nat /\ Period \in Nat \ {0} /\ Durations \subseteq Nat

VARIABLES kind, behavior,  \* what the future is
          now,
          g, deadline,     \* the generation of the Sleep and its deadline
          fired, waker,    \* TimerState, per generation
          timer,           \* the loop's timer, per generation
          due,             \* when it goes off
          count,           \* strong references to its TimerData
          owned,           \* registration_owned
          held,            \* does the Sleep hold the LooperTimer
          pc, awake, who,  \* the task, and the waker it polls with
          value,           \* is the future of a Timeout ready
          ticks            \* history: the last tick [at, now, next]

vars == <<kind, behavior, now, g, deadline, fired, waker, timer, due, count, owned, held, pc, awake,
          who, value, ticks>>
loop == <<timer, due, count, owned, held>>
task == <<kind, behavior, g, deadline, pc, who, value, ticks>>

Gens == 1..Generations
NoTick == [at |-> 0, now |-> 0, next |-> 0, late |-> FALSE]

Init ==
  /\ kind \in {"sleep", "timeout", "interval"} /\ behavior \in {"Burst", "Delay", "Skip"}
  /\ kind # "interval" => behavior = "Burst"
  /\ now = 0 /\ g = 1 /\ deadline \in IF kind = "interval" THEN {0} ELSE Durations
  /\ fired = [i \in Gens |-> FALSE] /\ waker = [i \in Gens |-> 0]
  /\ timer = [i \in Gens |-> "none"] /\ due = [i \in Gens |-> 0]
  /\ count = [i \in Gens |-> 0] /\ owned = [i \in Gens |-> FALSE] /\ held = [i \in Gens |-> FALSE]
  /\ pc = "idle" /\ awake = TRUE /\ who = 1 /\ value = FALSE /\ ticks = NoTick

Tick == now < MaxTime /\ now' = now + 1 /\ UNCHANGED <<task, fired, waker, loop, awake>>

\* The other future of a Timeout becomes ready and wakes the task.
ValueReady ==
  /\ kind = "timeout" /\ ~value /\ value' = TRUE /\ awake' = TRUE
  /\ UNCHANGED <<kind, behavior, now, g, deadline, fired, waker, loop, pc, who, ticks>>
-----------------------------------------------------------------------------
(* The loop.                                                               *)
Set(f, i, v) == [f EXCEPT ![i] = v]

\* register_timer, Looper::try_timer_start: whole milliseconds, rounded up, at
\* least one.
Rounded(d) == LET ms == (d + Millisecond - 1) \div Millisecond
              IN Millisecond * IF ms < 1 THEN 1 ELSE ms

StartTimer(i, remaining) ==
  /\ timer' = Set(timer, i, "armed") /\ due' = Set(due, i, now + Rounded(remaining))
  /\ count' = Set(count, i, 2) /\ owned' = Set(owned, i, TRUE) /\ held' = Set(held, i, TRUE)

Callback(i, from, to) == timer[i] = from /\ timer' = Set(timer, i, to)

\* External: the loop enters the callback of a timer that is due.
Enter(i) ==
  /\ Callback(i, "armed", "entered") /\ now >= due[i]
  /\ UNCHANGED <<task, now, fired, waker, due, count, owned, held, awake>>

\* timer_callback takes a reference,
TakeReference(i) ==
  /\ Callback(i, "entered", "running") /\ count' = Set(count, i, count[i] + 1)
  /\ UNCHANGED <<task, now, fired, waker, due, owned, held, awake>>

\* runs TimerState::fire,
FireStore(i) ==
  /\ Callback(i, "running", "stored") /\ fired' = Set(fired, i, TRUE)
  /\ UNCHANGED <<task, now, waker, due, count, owned, held, awake>>

FireWake(i) ==
  /\ Callback(i, "stored", "woken") /\ waker' = Set(waker, i, 0)
  /\ awake' = (awake \/ (waker[i] = who /\ i = g))
  /\ UNCHANGED <<task, now, fired, due, count, owned, held>>

\* TimerData::release_registration.
Released(i, c) == IF owned[i] THEN [c EXCEPT ![i] = @ - 1] ELSE c

\* releases the registration of a timer that does not repeat, and its own
\* reference.
Leave(i) ==
  /\ Callback(i, "woken", "done")
  /\ count' = [Released(i, count) EXCEPT ![i] = @ - 1] /\ owned' = Set(owned, i, FALSE)
  /\ UNCHANGED <<task, now, fired, waker, due, held, awake>>

\* LooperTimer::stop and drop.  External: the C library stops an armed timer;
\* of one whose callback runs it may say either; it says nothing between
\* taking a timer and the callback's first step.
StopTimer(i) ==
  IF ~held[i] THEN UNCHANGED loop
  ELSE \E success \in BOOLEAN :
       /\ held' = Set(held, i, FALSE) /\ UNCHANGED due
       /\ owned[i] => timer[i] # "entered"
       /\ success => owned[i]
       /\ timer[i] = "armed" => success
       /\ timer' = IF timer[i] = "armed" THEN Set(timer, i, "stopped") ELSE timer
       /\ owned' = IF success THEN Set(owned, i, FALSE) ELSE owned
       /\ count' = [(IF success THEN Released(i, count) ELSE count) EXCEPT ![i] = @ - 1]
-----------------------------------------------------------------------------
(* The future.                                                             *)
Elapsed == fired[g] \/ now >= deadline

\* MissedTickBehavior::next_timeout, when a tick is late.
NextTimeout(timeout) ==
  CASE behavior = "Burst" -> timeout + Period
    [] behavior = "Delay" -> now + Period
    [] behavior = "Skip" -> now + Period - ((now - timeout) % Period)

\* The Sleep is ready: its timer is stopped; an Interval resets it, which is
\* one more generation.
Ready ==
  /\ awake' = TRUE /\ UNCHANGED <<kind, behavior, now, fired, waker, who, value>>
  /\ StopTimer(g)
  /\ IF kind = "interval" /\ g < Generations
     THEN LET late == now > deadline + Tolerance
              next == IF late THEN NextTimeout(deadline) ELSE deadline + Period
          IN /\ ticks' = [at |-> deadline, now |-> now, next |-> next, late |-> late]
             /\ deadline' = next /\ g' = g + 1 /\ pc' = "idle"
     ELSE pc' = "ready" /\ UNCHANGED <<g, deadline, ticks>>

\* A Timeout looks at its value first.
PollValue ==
  /\ pc \in {"idle", "pending"} /\ kind = "timeout" /\ value /\ pc' = "value" /\ StopTimer(g)
  /\ UNCHANGED <<kind, behavior, now, g, deadline, fired, waker, awake, who, value, ticks>>

\* A poll, with the waker of the last one or with another.
Poll(w) ==
  /\ pc \in {"idle", "pending"} /\ (kind = "timeout" => ~value)
  /\ IF Elapsed THEN w = who /\ Ready
     ELSE pc' = "register" /\ awake' = FALSE /\ who' = w
          /\ UNCHANGED <<kind, behavior, now, g, deadline, fired, waker, loop, value, ticks>>

\* Mutant: a waker that is there already is kept.
RegisteredFirst(slot) == IF slot = 0 THEN who ELSE slot

\* TimerState::register.
Registered(slot) == IF slot # who THEN who ELSE slot

Register ==
  /\ pc = "register" /\ pc' = "arm" /\ waker' = [waker EXCEPT ![g] = Registered(@)]
  /\ UNCHANGED <<kind, behavior, now, g, deadline, fired, loop, awake, who, value, ticks>>

Arm ==
  /\ pc = "arm" /\ pc' = "recheck"
  /\ IF timer[g] = "none" THEN StartTimer(g, IF deadline > now THEN deadline - now ELSE 0) ELSE UNCHANGED loop
  /\ UNCHANGED <<kind, behavior, now, g, deadline, fired, waker, awake, who, value, ticks>>

\* try_timer_start fails and frees the data again; Sleep::poll panics.
ArmFails ==
  /\ pc = "arm" /\ timer[g] = "none" /\ pc' = "panicked"
  /\ UNCHANGED <<kind, behavior, now, g, deadline, fired, waker, loop, awake, who, value, ticks>>

Recheck ==
  /\ pc = "recheck"
  /\ IF Elapsed THEN Ready
     ELSE pc' = "pending"
          /\ UNCHANGED <<kind, behavior, now, g, deadline, fired, waker, loop, awake, who, value, ticks>>

\* reset, to any later or earlier deadline; the caller polls it again.
Reset(d) ==
  /\ pc \in {"idle", "pending"} /\ kind # "timeout" /\ g < Generations
  /\ StopTimer(g) /\ g' = g + 1 /\ deadline' = now + d /\ pc' = "idle" /\ awake' = TRUE
  /\ UNCHANGED <<kind, behavior, now, fired, waker, who, value, ticks>>

Drop ==
  /\ pc \in {"idle", "pending"} /\ StopTimer(g) /\ pc' = "dropped"
  /\ UNCHANGED <<kind, behavior, now, g, deadline, fired, waker, awake, who, value, ticks>>

LoopStep == \E i \in Gens : Enter(i) \/ TakeReference(i) \/ FireStore(i) \/ FireWake(i) \/ Leave(i)
PollStep == (\E w \in {1, 2} : Poll(w)) \/ Register \/ Arm \/ ArmFails \/ Recheck \/ PollValue

Next == Tick \/ ValueReady \/ LoopStep \/ PollStep \/ Drop \/ \E d \in Durations : Reset(d)

Spec == Init /\ [][Next]_vars
-----------------------------------------------------------------------------
\* A Sleep is not ready before its deadline, whichever of the clock and the
\* rounded loop timer says so; the ticks of an Interval are strictly later
\* each time, Skip keeps them a whole number of periods apart, and after a
\* tick that was late by more than the tolerance Skip and Delay plan the next
\* one in the future (Sleep::poll, register_timer, Interval::poll_tick).
TimersKeepTime ==
  /\ pc = "ready" => now >= deadline
  /\ ticks # NoTick =>
       /\ ticks.at <= ticks.now /\ ticks.at < ticks.next
       /\ behavior = "Skip" => (ticks.next - ticks.at) % Period = 0
       /\ ticks.late /\ behavior # "Burst" => ticks.now < ticks.next

\* A task that sleeps on a timer is going to be woken: the waker of its last
\* poll is in the TimerState of the current generation, and the loop timer of
\* that generation has not yet taken it (the second check of Sleep::poll).
SleepersAreWoken ==
  pc = "pending" /\ ~awake =>
    /\ waker[g] = who
    /\ timer[g] \in {"armed", "entered", "running", "stored"}

\* The references to the data of a loop timer are exactly those of the handle,
\* of the registration and of a running callback, so that the data outlives a
\* callback the loop has entered and is freed once, whoever of stop and the
\* callback gives the registration up (release_registration).
TimerDataIsCounted ==
  \A i \in Gens :
    LET One(b) == IF b THEN 1 ELSE 0 IN
    /\ count[i] = One(held[i]) + One(owned[i]) + One(timer[i] \in {"running", "stored", "woken"})
    /\ timer[i] = "entered" => count[i] > 0

\* All three: a sleep ends neither early nor late, whichever of the callback,
\* the poll and a reset comes first; its task is woken; and what the loop and
\* the sleep share is freed once, after both let go of it (Sleep::poll, reset
\* and drop, LooperTimer::stop, the callback of looper.rs).
SleepsAreExact == TimersKeepTime /\ SleepersAreWoken /\ TimerDataIsCounted
=============================================================================
