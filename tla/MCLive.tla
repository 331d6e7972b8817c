-------------------------------- MODULE MCLive --------------------------------
(***************************************************************************)
(* What must eventually happen, for TLC: the mutex and the semaphore serve *)
(* their waiters, tasks end and are joined, child processes are reaped,    *)
(* and I/O on a ready descriptor completes; and the safety of the mutex.   *)
(* The components share no state: a behaviour picks one of them and leaves *)
(* the others in one of their initial states.                              *)
(***************************************************************************)
EXTENDS AsyncMutex, Integers

CONSTANTS Acquirers, Wakers, Supply,                   \* Semaphore
          Spawned, Aborters,                           \* TaskRuntime
          PipeSize, MaxOutput,                         \* Process
          Threads, Writers, Loop, Kinds, ReactorGenerations \* Reactor

VARIABLES which,
          semWaiters, permits, closed, semSt, semTask, want, held, semWoken, semToWake, supply,
          pc, kind, cancelled, finished, slot, unparked, armed, alive, output, chan, handle,
          joinWoken, got, active, holding, aborting, late, fate,
          kill_on_drop, reads, out, child, killed, stdin, stdout, wrote, pipe, read, childHandle,
          waiting, kept, status, reaper,
          endpoint, avail, registered, readiness, generation, events, readers, writers, batch,
          waking, reactorAwake, op, at, seen, token

Sem == INSTANCE Semaphore
         WITH Futures <- Acquirers, Tasks <- Wakers, InitialPermits <- Supply,
              MaxPermits <- Supply, Amounts <- 1..Supply, MaxSupply <- Supply,
              waiters <- semWaiters, st <- semSt, task <- semTask, woken <- semWoken,
              toWake <- semToWake
Run == INSTANCE TaskRuntime WITH Tasks <- Spawned, woken <- unparked
Proc == INSTANCE Process
          WITH output <- out, got <- read, handle <- childHandle, op <- waiting
Ends == INSTANCE Endpoints
Io == INSTANCE Reactor WITH Ops <- Ends!Methods

ASSUME Constants == Proc!ProcessAssumption /\ Io!ReactorAssumption /\ Supply \in Nat \ {0}

\* Whatever an endpoint does, a UdpSocket does too.
ASSUME UdpSocketDoesAll ==
  \A k \in DOMAIN Ends!Methods : Ends!Methods[k] \subseteq Ends!Methods.UdpSocket

semVars == <<semWaiters, permits, closed, semSt, semTask, want, held, semWoken, semToWake,
             supply>>
runVars == <<pc, kind, cancelled, finished, slot, unparked, armed, alive, output, chan, handle,
             joinWoken, got, active, holding, aborting, late, fate>>
procVars == <<kill_on_drop, reads, out, child, killed, stdin, stdout, wrote, pipe, read, childHandle,
              waiting, kept, status, reaper>>
ioVars == <<endpoint, avail, registered, readiness, generation, events, readers, writers, batch,
            waking, reactorAwake, op, at, seen, token>>
allVars == <<which, vars, semVars, runVars, procVars, ioVars>>

AnyOf(component, S) == IF which = component THEN S ELSE {CHOOSE x \in S : TRUE}

LiveInit ==
  /\ which \in {"Mutex", "Semaphore", "TaskRuntime", "Process", "Reactor"}
  /\ task \in AnyOf("Mutex", [Futures -> Tasks]) /\ Init
  /\ semTask \in AnyOf("Semaphore", [Acquirers -> Wakers]) /\ Sem!Init
  /\ Run!Init
  /\ kill_on_drop \in AnyOf("Process", BOOLEAN) /\ reads \in AnyOf("Process", BOOLEAN)
  /\ out \in AnyOf("Process", 0..MaxOutput) /\ Proc!Init
  /\ endpoint \in AnyOf("Reactor", Kinds) /\ Io!ReactorInit

\* A step of the picked component leaves the others alone.
Mtx(A) == which = "Mutex" /\ A /\ UNCHANGED <<which, semVars, runVars, procVars, ioVars>>
Smp(A) == which = "Semaphore" /\ A /\ UNCHANGED <<which, vars, runVars, procVars, ioVars>>
Rnr(A) == which = "TaskRuntime" /\ A /\ UNCHANGED <<which, vars, semVars, procVars, ioVars>>
Chd(A) == which = "Process" /\ A /\ UNCHANGED <<which, vars, semVars, runVars, ioVars>>
Rct(A) == which = "Reactor" /\ A /\ UNCHANGED <<which, vars, semVars, runVars, procVars>>

LiveNext == Mtx(Next) \/ Smp(Sem!Next) \/ Rnr(Run!Next) \/ Chd(Proc!Next) \/ Rct(Io!ReactorNext)

\* The Fairness of each component.
LiveFairness ==
  /\ \A f \in Futures :
       /\ WF_allVars(Mtx(woken[f] /\ \E t \in Tasks : Poll(f, t)))
       /\ WF_allVars(Mtx(Fire(f))) /\ WF_allVars(Mtx(Unlock(f)))
  /\ \A f \in Acquirers :
       /\ WF_allVars(Smp(semWoken[f] /\ \E t \in Wakers : Sem!Poll(f, t)))
       /\ WF_allVars(Smp(Sem!Fire(f))) /\ WF_allVars(Smp(Sem!DropPermit(f)))
  /\ \A t \in Spawned :
       /\ WF_allVars(Rnr(Run!RunnerStep(t))) /\ WF_allVars(Rnr(unparked[t] /\ Run!Unblock(t)))
       /\ WF_allVars(Rnr(joinWoken[t] /\ Run!PollJoin(t)))
  /\ \A a \in Aborters : WF_allVars(Rnr(Run!AbortWake(a)))
  /\ WF_allVars(Chd(Proc!ChildWrites)) /\ WF_allVars(Chd(Proc!ChildExits))
  /\ WF_allVars(Chd(Proc!WaitTurn)) /\ WF_allVars(Chd(Proc!ReadOutput))
  /\ WF_allVars(Chd(Proc!ReaperTurn))
  /\ WF_allVars(Rct(Io!Fetch)) /\ WF_allVars(Rct(Io!ReadinessCallback))
  /\ \A f \in Threads : WF_allVars(Rct(Io!WakeReady(f))) /\ WF_allVars(Rct(Io!UserStep(f)))

LiveSpec == LiveInit /\ [][LiveNext]_allVars /\ LiveFairness
-----------------------------------------------------------------------------
\* Whoever waits for the mutex, or for permits that exist, gets them or gives
\* up (poll_lock, poll_acquire).  The futures of the mutex are interchangeable:
\* one of them stands for all.
LocksServe ==
  /\ LET f == CHOOSE f \in Futures : TRUE
     IN  st[f] = "waiting" ~> st[f] # "waiting"
  /\ Sem!WaitersAreServed

\* An aborted task ends, and a task that awaits a join handle is woken when the
\* joined task has ended (CancellationState, JoinHandle::poll).
TasksComplete == Run!AbortedTasksEnd /\ Run!JoinersAreWoken

\* What Child returns is what became of the process, and a child somebody waits
\* for or whose handle is gone is reaped (wait, wait_with_output, Drop).
ChildrenAreReaped == []Proc!ChildrenAreAccounted /\ Proc!ChildrenAreReaped

\* An operation on a descriptor that stays ready ends, however the loop
\* thread interleaves with it and even if arming fails (poll_ready, clear_ready).
\* There is one user here; what several of them do to each other's readiness is
\* a matter of ReadinessIsExact.
IoCompletes == Io!IoCompletes
=============================================================================
