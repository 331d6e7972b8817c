--------------------------- MODULE RuntimeProofs ----------------------------
(***************************************************************************)
(* Proofs about Combinators, Closures and Timers: what each promises, for  *)
(* any number of branches and jobs and any clock, with the inductive       *)
(* invariant it takes.                                                     *)
(***************************************************************************)
EXTENDS Combinators, Closures, Timers, TLAPS

(* Combinators.                                                            *)

MacroTypeOK ==
  /\ macro \in {"select", "join", "try_join"} /\ start \in Branches
  /\ enabled \subseteq Branches /\ fits \subseteq Branches /\ ready \subseteq Branches
  /\ macroWaker \subseteq Branches /\ disabled \subseteq Branches /\ returned \subseteq Branches
  /\ offset \in 0..N /\ macroPc \in {"idle", "pass", "done"} /\ macroAwake \in BOOLEAN
  /\ result \in 0..(N + 1)

\* A branch is disabled because of its precondition or because its future
\* returned; which of them may have returned while there is no result.
DisabledOK ==
  /\ macro # "select" => enabled = Branches
  /\ macro = "join" => fits = Branches
  /\ stale = {} /\ disabled = (Branches \ enabled) \union returned
  /\ returned \subseteq ready /\ returned \subseteq enabled
  /\ result \notin Branches => /\ macro = "select" => returned \intersect fits = {}
                               /\ macro = "try_join" => returned \subseteq fits

ResultOK ==
  /\ macroPc # "done" => result = NoResult
  /\ result = All => disabled = Branches
  /\ result \in Branches => result \in returned /\ (result \in fits <=> macro = "select")

\* The branch that the pass polls at an offset.
BranchAt(o) == (start + o) % N

\* What the pass went by can wake the task, unless it is macroAwake already.
PassOK ==
  /\ macroPc = "pass" /\ ~macroAwake =>
       \A o \in 0..(offset - 1) : BranchAt(o) \in disabled \union macroWaker
  /\ CombinatorsWake

MacroIInv == MacroTypeOK /\ DisabledOK /\ ResultOK /\ PassOK

\* The offsets of a pass lead to branches, and to all of them.
LEMMA PassVisitsAll ==
  ASSUME CombinatorsAssumption, start \in Branches
  PROVE  /\ \A o \in 0..N : BranchAt(o) \in Branches
         /\ \A b \in Branches : \E o \in 0..(N - 1) : BranchAt(o) = b
<1> USE DEF Branches, CombinatorsAssumption
<1>1. ASSUME NEW o \in 0..N PROVE BranchAt(o) \in Branches
  BY DEF BranchAt
<1>2. ASSUME NEW b \in Branches PROVE \E o \in 0..(N - 1) : BranchAt(o) = b
  <2>1. CASE b >= start
    <3>1. b - start \in 0..(N - 1) /\ start + (b - start) = b
      BY <2>1
    <3>2. b % N = b
      OBVIOUS
    <3> QED BY ZenonT(60), <3>1, <3>2 DEF BranchAt
  <2>2. CASE b < start
    <3>1. b + N - start \in 0..(N - 1) /\ start + (b + N - start) = b + N
      BY <2>2
    <3>2. (b + N) % N = b
      OBVIOUS
    <3> QED BY ZenonT(60), <3>1, <3>2 DEF BranchAt
  <2> QED BY <2>1, <2>2
<1> QED BY Zenon, <1>1, <1>2

\* Initially no branch was polled.
LEMMA MacroStart == CombinatorsAssumption /\ MacroInit => MacroIInv
BY DEF CombinatorsAssumption, MacroInit, MacroIInv, MacroTypeOK, DisabledOK, ResultOK, PassOK, CombinatorsWake,
       Branches, All, NoResult

\* One turn keeps the invariant, whichever macro it belongs to.
LEMMA TurnStep == ASSUME CombinatorsAssumption, MacroIInv, Turn PROVE MacroIInv'
<1> DEFINE b == BranchAt(offset)
<1>1. /\ macroPc = "pass" /\ offset < N /\ UNCHANGED <<given, ready, macroAwake>>
      /\ SelectTurn(b) \/ JoinTurn(b) \/ TryJoinTurn(b)
  BY Zenon DEF Turn, BranchAt
<1>2. b \in Branches /\ offset \in 0..N /\ N \in Nat /\ NoResult \notin Branches /\ All \notin Branches
      /\ All # NoResult
  BY PassVisitsAll DEF MacroIInv, MacroTypeOK, Branches, NoResult, All, CombinatorsAssumption
<1> HIDE DEF b
<1> USE DEF given, PollBranch, Finish, GoOn, Stop, SelectTurn, JoinTurn, TryJoinTurn
<1>3. MacroTypeOK'
  <2>1. /\ returned' \subseteq Branches /\ disabled' \subseteq Branches /\ macroWaker' \subseteq Branches
        /\ macroPc' \in {"pass", "done"} /\ offset' \in {offset, offset + 1} /\ result' \in {result, b}
    BY Zenon, <1>1, <1>2 DEF MacroIInv, MacroTypeOK
  <2>2. offset' \in 0..N /\ result' \in 0..(N + 1)
    BY <1>1, <1>2, <2>1 DEF MacroIInv, MacroTypeOK, Branches
  <2> QED BY Zenon, <1>1, <2>1, <2>2 DEF MacroIInv, MacroTypeOK
<1>4. DisabledOK'
  <2>1. CASE b \in disabled
    BY Zenon, <1>1, <1>2, <2>1 DEF MacroIInv, MacroTypeOK, DisabledOK, ResultOK
  <2>2. CASE b \notin disabled /\ b \notin ready
    BY <1>1, <1>2, <2>2 DEF MacroIInv, MacroTypeOK, DisabledOK, ResultOK
  <2>3. CASE b \notin disabled /\ b \in ready
    <3>1. b \in enabled /\ b \notin returned /\ returned' = returned \union {b} /\ stale' = {}
          /\ disabled' = disabled \union {b}
      BY <1>1, <1>2, <2>3 DEF MacroIInv, MacroTypeOK, DisabledOK
    <3>2. result' \notin Branches => /\ macro = "select" => b \notin fits
                                     /\ macro = "try_join" => b \in fits
      BY Zenon, <1>1, <1>2, <2>3
    <3>3. result \notin Branches
      BY Zenon, <1>1, <1>2 DEF MacroIInv, ResultOK
    <3> QED BY <1>1, <2>3, <3>1, <3>2, <3>3 DEF MacroIInv, MacroTypeOK, DisabledOK
  <2> QED BY Zenon, <2>1, <2>2, <2>3
<1>5. ResultOK'
  BY <1>1, <1>2 DEF MacroIInv, MacroTypeOK, DisabledOK, ResultOK
<1>6. PassOK'
  <2>1. macroPc' # "idle" /\ start' = start /\ macroAwake' = macroAwake
    BY Zenon, <1>1
  <2>2. ASSUME macroPc' = "pass", ~macroAwake', NEW o \in 0..(offset' - 1)
        PROVE  BranchAt(o) \in disabled' \union macroWaker'
    <3>1. offset' = offset + 1 /\ (b \in disabled' \union macroWaker')
          /\ disabled \subseteq disabled' /\ macroWaker \subseteq macroWaker'
      BY Zenon, <1>1, <2>2
    <3>2. o = offset \/ o \in 0..(offset - 1)
      BY <1>2, <3>1
    <3> QED BY <1>1, <2>1, <2>2, <3>1, <3>2 DEF MacroIInv, PassOK, b
  <2> QED BY Zenon, <2>1, <2>2 DEF PassOK, CombinatorsWake, BranchAt
<1> QED BY Zenon, <1>3, <1>4, <1>5, <1>6 DEF MacroIInv

\* A branch that becomes ready wakes whoever registered with it.
LEMMA BecomeReadyStep ==
  ASSUME CombinatorsAssumption, MacroIInv, NEW b \in Branches, BecomeReady(b)
  PROVE  MacroIInv'
<1>1. /\ UNCHANGED <<macro, enabled, fits, start, disabled, offset, macroPc, result, returned, stale>>
      /\ ready' = ready \union {b} /\ macroWaker' = macroWaker \ {b} /\ macroAwake' \in BOOLEAN
      /\ ~macroAwake' => ~macroAwake /\ b \notin macroWaker
  BY ZenonT(60) DEF BecomeReady, given, MacroIInv, MacroTypeOK
<1>2. MacroTypeOK' /\ DisabledOK' /\ ResultOK'
  BY Zenon, <1>1 DEF MacroIInv, MacroTypeOK, DisabledOK, ResultOK
<1>3. PassOK'
  BY Zenon, <1>1 DEF MacroIInv, PassOK, CombinatorsWake, BranchAt
<1> QED BY Zenon, <1>2, <1>3 DEF MacroIInv

\* Every step preserves the invariant.
LEMMA MacroNextInv == CombinatorsAssumption /\ MacroIInv /\ [MacroNext]_macroVars => MacroIInv'
<1> SUFFICES ASSUME CombinatorsAssumption, MacroIInv, [MacroNext]_macroVars PROVE MacroIInv'
  BY Zenon
<1> USE DEF MacroIInv, MacroTypeOK, DisabledOK, ResultOK, PassOK, CombinatorsWake
<1>1. CASE StartPass
  <2>1. /\ macroPc' = "pass" /\ macroPc = "idle" /\ offset' = 0 /\ macroAwake' = FALSE /\ 0 \in 0..N
        /\ 0..(0 - 1) = {}
        /\ UNCHANGED <<macro, enabled, fits, start, ready, macroWaker, disabled, result, returned, stale>>
    BY <1>1 DEF StartPass, given, CombinatorsAssumption
  <2>2. MacroTypeOK' /\ DisabledOK' /\ ResultOK'
    BY ZenonT(60), <2>1
  <2>3. PassOK'
    BY Zenon, <2>1
  <2> QED BY ZenonT(60), <2>2, <2>3
<1>2. CASE EndPass
  <2>1. /\ macroPc = "pass" /\ offset = N /\ offset' = offset /\ N \in Nat
        /\ UNCHANGED <<macro, enabled, fits, start, ready, macroWaker, disabled, macroAwake, returned, stale>>
        /\ \/ macroPc' = "done" /\ result' = All /\ disabled = Branches
           \/ macroPc' = "idle" /\ result' = result
        /\ result = NoResult /\ All \in 0..(N + 1) /\ All # NoResult
        /\ All \notin Branches /\ NoResult \notin Branches
    BY <1>2 DEF EndPass, Stop, given, All, NoResult, Branches, CombinatorsAssumption
  <2>2. MacroTypeOK' /\ DisabledOK' /\ ResultOK'
    BY Zenon, <2>1
  <2>3. ASSUME ~macroAwake, NEW b \in Branches \ disabled PROVE b \in macroWaker
    BY <2>1, <2>3, PassVisitsAll
  <2>4. PassOK'
    BY Zenon, <2>1, <2>3
  <2> QED BY ZenonT(60), <2>2, <2>4
<1>3. CASE UNCHANGED macroVars
  BY Zenon, <1>3 DEF macroVars, BranchAt
<1> HIDE DEF MacroIInv
<1> QED BY <1>1, <1>2, <1>3, TurnStep, BecomeReadyStep, Zenon DEF MacroNext

\* The invariant holds for any number of branches.
LEMMA MacroInvariant == ASSUME CombinatorsAssumption PROVE MacroSpec => []MacroIInv
<1>1. MacroInit => MacroIInv
  BY Zenon, MacroStart
<1>2. MacroIInv /\ [MacroNext]_macroVars => MacroIInv'
  BY Zenon, MacroNextInv
<1> QED BY <1>1, <1>2, PTL DEF MacroSpec

\* For any number of branches: the result of select!, join! or try_join! is one
\* its branches justify, no future is polled after it returned, and a combinator
\* that sleeps is woken by whichever branch can go on.
THEOREM CombinatorsReturnRight ==
  ASSUME CombinatorsAssumption PROVE MacroSpec => []CombinatorsAreExact
<1>1. MacroIInv => CombinatorsAreExact
  <2> SUFFICES ASSUME MacroIInv PROVE ResultsAreExact /\ CombinatorsWake
    BY Zenon DEF CombinatorsAreExact
  <2>1. All \notin Branches
    BY DEF All, Branches, CombinatorsAssumption
  <2>2. ResultsAreExact
    BY Zenon, <2>1 DEF MacroIInv, MacroTypeOK, DisabledOK, ResultOK, ResultsAreExact
  <2> QED BY Zenon, <2>2 DEF MacroIInv, PassOK
<1> QED BY <1>1, MacroInvariant, PTL

-----------------------------------------------------------------------------
(* Closures.                                                               *)

ClosureTypeOK ==
  /\ closureVia \in [Jobs -> {"none", "task", "queue", "queue_h"}]
  /\ job \in [Jobs -> {"none", "queued", "running", "ran", "cancelled", "destroyed"}]
  /\ func_ptr \in [Jobs -> {"null", "box", "freed"}]
  /\ runs \in [Jobs -> Nat] /\ frees \in [Jobs -> Nat]
  /\ handle \in [Jobs -> {"none", "held", "waits", "dropped"}]
  /\ said \in [Jobs -> {"none", "cancelled", "refused", "waited"}]

\* What the storage, the counts and the handle's answers are in each state of
\* a job; the pointer is null exactly when the box is gone and the library may
\* call destroy.
JobOK(j) ==
  /\ job[j] \in {"none", "queued"} => runs[j] = 0 /\ frees[j] = 0 /\ said[j] = "none"
  /\ job[j] = "none" => handle[j] = "none"
  /\ handle[j] # "none" => closureVia[j] = "queue_h"
  /\ job[j] = "queued" => func_ptr[j] = "box"
  /\ job[j] = "running" =>
       runs[j] = 1 /\ frees[j] = 1 /\ func_ptr[j] = "freed" /\ said[j] \in {"none", "refused"}
  /\ job[j] = "ran" =>
       runs[j] = 1 /\ frees[j] = 1 /\ func_ptr[j] = "null" /\ said[j] # "cancelled"
  /\ job[j] = "cancelled" =>
       runs[j] = 0 /\ frees[j] = 0 /\ func_ptr[j] = "box" /\ said[j] = "cancelled"
  /\ job[j] = "destroyed" =>
       /\ frees[j] = 1 /\ runs[j] \in {0, 1}
       /\ runs[j] = 1 => said[j] # "cancelled"
       /\ runs[j] = 0 => said[j] = "cancelled" \/ queue = "destroyed" \/ closureVia[j] = "task"
  /\ handle[j] = "waits" => said[j] # "cancelled"
  /\ said[j] = "waited" => runs[j] = 1 \/ queue = "destroyed"

\* Only the last handle of an closureOwned queue destroys it, and none comes after.
QueueOK == queue = "destroyed" => closureOwned /\ clones = {}

ClosureIInv == ClosureTypeOK /\ QueueOK /\ \A j \in Jobs : JobOK(j)

\* The step leaves the queue and every job but j alone.
OnlyJob(j) ==
  /\ UNCHANGED qvars
  /\ \A k \in Jobs \ {j} : /\ closureVia'[k] = closureVia[k]
                           /\ job'[k] = job[k] /\ func_ptr'[k] = func_ptr[k]
                           /\ runs'[k] = runs[k] /\ frees'[k] = frees[k]
                           /\ handle'[k] = handle[k] /\ said'[k] = said[k]

\* A step that only concerns job j keeps the others as they are.
LEMMA JobStep ==
  ASSUME ClosureIInv, NEW j \in Jobs, ClosureTypeOK', JobOK(j)', OnlyJob(j)
  PROVE  ClosureIInv'
<1>1. \A k \in Jobs : JobOK(k)'
  BY DEF ClosureIInv, JobOK, OnlyJob, qvars
<1> QED BY Zenon, <1>1 DEF ClosureIInv, QueueOK, OnlyJob, qvars

\* Initially no job was submitted.
LEMMA ClosuresStart == ClosuresInit => ClosureIInv
BY DEF ClosuresInit, ClosureIInv, ClosureTypeOK, QueueOK, JobOK

\* Every step preserves the invariant.
LEMMA ClosuresNextInv == ClosureIInv /\ [ClosuresNext]_closureVars => ClosureIInv'
<1> SUFFICES ASSUME ClosureIInv, [ClosuresNext]_closureVars PROVE ClosureIInv'
  BY Zenon
<1> USE DEF Put, Prepared
<1>1. ASSUME NEW j \in Jobs, NEW how \in {"task", "queue", "queue_h"}, Submit(j, how)
      PROVE  ClosureIInv'
  <2>1. ClosureTypeOK'
    BY Zenon, <1>1 DEF ClosureIInv, ClosureTypeOK, Submit
  <2>2. JobOK(j)'
    BY <1>1 DEF ClosureIInv, ClosureTypeOK, JobOK, Submit, qvars
  <2>3. OnlyJob(j)
    BY Zenon, <1>1 DEF ClosureIInv, ClosureTypeOK, OnlyJob, Submit, qvars
  <2> QED BY <2>1, <2>2, <2>3, JobStep, Zenon
<1>2. ASSUME NEW j \in Jobs, ExecCall(j) PROVE ClosureIInv'
  <2>1. ClosureTypeOK'
    BY <1>2 DEF ClosureIInv, ClosureTypeOK, ExecCall
  <2>2. JobOK(j)'
    BY <1>2 DEF ClosureIInv, ClosureTypeOK, JobOK, ExecCall, qvars
  <2>3. OnlyJob(j)
    BY Zenon, <1>2 DEF ClosureIInv, ClosureTypeOK, OnlyJob, ExecCall, qvars
  <2> QED BY <2>1, <2>2, <2>3, JobStep, Zenon
<1>3. ASSUME NEW j \in Jobs, ExecReturn(j) PROVE ClosureIInv'
  <2>1. ClosureTypeOK'
    BY Zenon, <1>3 DEF ClosureIInv, ClosureTypeOK, ExecReturn, AfterExec
  <2>2. JobOK(j)'
    BY Zenon, <1>3 DEF ClosureIInv, ClosureTypeOK, JobOK, ExecReturn, AfterExec, qvars
  <2>3. OnlyJob(j)
    BY Zenon, <1>3 DEF ClosureIInv, ClosureTypeOK, OnlyJob, ExecReturn, AfterExec, qvars
  <2> QED BY <2>1, <2>2, <2>3, JobStep, Zenon
<1>4. ASSUME NEW j \in Jobs, Destroy(j) PROVE ClosureIInv'
  <2>1. ClosureTypeOK'
    BY <1>4 DEF ClosureIInv, ClosureTypeOK, Destroy
  <2>2. JobOK(j)'
    BY <1>4 DEF ClosureIInv, ClosureTypeOK, JobOK, Destroy, qvars
  <2>3. OnlyJob(j)
    BY Zenon, <1>4 DEF ClosureIInv, ClosureTypeOK, OnlyJob, Destroy, qvars
  <2> QED BY <2>1, <2>2, <2>3, JobStep, Zenon
<1>5. ASSUME NEW j \in Jobs, CancelHandle(j) PROVE ClosureIInv'
  <2>1. ClosureTypeOK'
    BY <1>5 DEF ClosureIInv, ClosureTypeOK, CancelHandle
  <2>2. JobOK(j)'
    BY <1>5 DEF ClosureIInv, ClosureTypeOK, JobOK, CancelHandle, qvars
  <2>3. OnlyJob(j)
    BY <1>5 DEF ClosureIInv, ClosureTypeOK, OnlyJob, CancelHandle, qvars
  <2> QED BY <2>1, <2>2, <2>3, JobStep, Zenon
<1>6. ASSUME NEW j \in Jobs, Wait(j) \/ WaitReturns(j) \/ DropHandle(j) PROVE ClosureIInv'
  <2>1. CASE Wait(j)
    <3>1. ClosureTypeOK'
      BY Zenon, <2>1 DEF ClosureIInv, ClosureTypeOK, Wait
    <3>2. JobOK(j)'
      BY Zenon, <2>1 DEF ClosureIInv, ClosureTypeOK, JobOK, Wait, qvars
    <3>3. OnlyJob(j)
      BY Zenon, <2>1 DEF ClosureIInv, ClosureTypeOK, OnlyJob, Wait, qvars
    <3> QED BY <3>1, <3>2, <3>3, JobStep, Zenon
  <2>2. CASE WaitReturns(j)
    <3>1. ClosureTypeOK'
      BY Zenon, <2>2 DEF ClosureIInv, ClosureTypeOK, WaitReturns
    <3>2. JobOK(j)'
      BY Zenon, <2>2 DEF ClosureIInv, ClosureTypeOK, JobOK, WaitReturns, qvars
    <3>3. OnlyJob(j)
      BY Zenon, <2>2 DEF ClosureIInv, ClosureTypeOK, OnlyJob, WaitReturns, qvars
    <3> QED BY <3>1, <3>2, <3>3, JobStep, Zenon
  <2>3. CASE DropHandle(j)
    <3>1. ClosureTypeOK'
      BY Zenon, <2>3 DEF ClosureIInv, ClosureTypeOK, DropHandle
    <3>2. JobOK(j)'
      BY Zenon, <2>3 DEF ClosureIInv, ClosureTypeOK, JobOK, DropHandle, qvars
    <3>3. OnlyJob(j)
      BY Zenon, <2>3 DEF ClosureIInv, ClosureTypeOK, OnlyJob, DropHandle, qvars
    <3> QED BY <3>1, <3>2, <3>3, JobStep, Zenon
  <2> QED BY Zenon, <1>6, <2>1, <2>2, <2>3
<1>7. ASSUME NEW c \in Clones, Clone(c) \/ DropQueue(c) PROVE ClosureIInv'
  BY <1>7 DEF ClosureIInv, ClosureTypeOK, QueueOK, JobOK, Clone, DropQueue
<1>8. CASE UNCHANGED closureVars
  BY <1>8 DEF closureVars, ClosureIInv, ClosureTypeOK, QueueOK, JobOK
<1> QED BY Zenon, <1>1, <1>2, <1>3, <1>4, <1>5, <1>6, <1>7, <1>8 DEF ClosuresNext

\* For any number of closures: each is called at most once, its box is freed
\* exactly once, and what cancel and wait say of it is true.
THEOREM EveryClosureRunsOnce == ClosuresSpec => []ClosuresRunOnce
<1>1. ClosureIInv => ClosuresRunOnce
  BY DEF ClosureIInv, ClosureTypeOK, QueueOK, JobOK, ClosuresRunOnce
<1> QED BY <1>1, ClosuresStart, ClosuresNextInv, PTL DEF ClosuresSpec

-----------------------------------------------------------------------------
(* Timers.                                                                 *)

Status == {"none", "armed", "entered", "running", "stored", "woken", "done", "stopped"}
Live == {"idle", "pending", "register", "arm", "recheck"}
Ticks == [at : Nat, now : Nat, next : Nat, late : BOOLEAN]

LoopTypeOK ==
  /\ timer \in [Gens -> Status] /\ due \in [Gens -> Nat] /\ count \in [Gens -> Nat]
  /\ owned \in [Gens -> BOOLEAN] /\ held \in [Gens -> BOOLEAN]

TimersTypeOK ==
  /\ LoopTypeOK
  /\ kind \in {"sleep", "timeout", "interval"} /\ behavior \in {"Burst", "Delay", "Skip"}
  /\ now \in Nat /\ g \in Gens /\ deadline \in Nat
  /\ fired \in [Gens -> BOOLEAN] /\ waker \in [Gens -> 0..2]
  /\ pc \in Live \union {"ready", "value", "dropped", "panicked"} /\ awake \in BOOLEAN /\ who \in {1, 2}
  /\ value \in BOOLEAN /\ ticks \in Ticks

One(b) == IF b THEN 1 ELSE 0

\* The registration of a generation: it is owned from its start until the
\* callback or a stop gives it up, and only the current generation is held.
LoopOK(i) ==
  /\ count[i] = One(held[i]) + One(owned[i]) + One(timer[i] \in {"running", "stored", "woken"})
  /\ held[i] => i = g /\ timer[i] # "none"
  /\ i > g => timer[i] = "none"
  /\ timer[i] = "armed" => held[i]
  /\ timer[i] \in {"armed", "entered"} => owned[i]
  /\ timer[i] \in {"none", "done", "stopped"} => ~owned[i]

\* The flag says that the loop's timer went off, and it does so when due.
FiredOK(i) ==
  /\ fired[i] => timer[i] \in {"stored", "woken", "done"}
  /\ timer[i] \in {"stored", "woken", "done"} => fired[i]
  /\ timer[i] \in {"entered", "running", "stored", "woken", "done"} => now >= due[i]

\* The current generation: its timer is not due before the deadline, and is
\* not stopped while the future is in use.
SleepOK ==
  /\ timer[g] # "none" => due[g] >= deadline
  /\ pc \in Live => timer[g] # "stopped"
  /\ pc \in {"recheck", "pending"} => timer[g] # "none"
  /\ pc \in {"arm", "recheck", "pending"} /\ ~awake => waker[g] = who

TimersIInv ==
  /\ TimersTypeOK /\ SleepOK /\ TimersKeepTime /\ SleepersAreWoken
  /\ \A i \in Gens : LoopOK(i) /\ FiredOK(i)

\* A multiple of a period leaves no remainder.
LEMMA MultipleOf == ASSUME NEW p \in Nat \ {0}, NEW q \in Nat PROVE (p * q) % p = 0
OBVIOUS

\* What Skip adds to a deadline that is d in the past is a multiple of the
\* period, and leads into the future.
LEMMA SkipsPeriods ==
  ASSUME NEW p \in Nat \ {0}, NEW d \in Nat
  PROVE  (d + p - (d % p)) % p = 0 /\ d % p \in 0..(p - 1)
<1> DEFINE q == (d \div p) + 1
<1>1. d = p * (d \div p) + (d % p) /\ d % p \in 0..(p - 1) /\ d \div p \in Nat
  OBVIOUS
<1>2. d + p - (d % p) = p * q /\ q \in Nat
  BY <1>1
<1> HIDE DEF q
<1>3. (p * q) % p = 0
  BY ZenonT(60), <1>2, MultipleOf
<1> QED BY Zenon, <1>1, <1>2, <1>3

\* Rounding to milliseconds never shortens.
LEMMA RoundedUp ==
  ASSUME TimersAssumption, NEW d \in Nat
  PROVE  Rounded(d) \in Nat /\ Rounded(d) >= d
<1> DEFINE x == d + Millisecond - 1
           ms == x \div Millisecond
<1>1. Millisecond \in Nat \ {0} /\ x \in Nat
  BY DEF TimersAssumption
<1> HIDE DEF x
<1>2. x = Millisecond * ms + (x % Millisecond) /\ x % Millisecond \in 0..(Millisecond - 1) /\ ms \in Nat
  BY <1>1
<1>3. Millisecond * ms \in Nat
  BY <1>1, <1>2
<1>4. Millisecond * ms >= d
  BY <1>1, <1>2, <1>3 DEF x
<1>5. Rounded(d) = Millisecond * (IF ms < 1 THEN 1 ELSE ms)
  BY Zenon DEF Rounded, x
<1> HIDE DEF ms
<1>6. CASE ms < 1
  BY <1>1, <1>2, <1>4, <1>5, <1>6
<1>7. CASE ~(ms < 1)
  BY Zenon, <1>3, <1>4, <1>5, <1>7
<1> QED BY Zenon, <1>6, <1>7

\* Initially nothing is registered.
LEMMA TimersStart == TimersAssumption /\ Init => TimersIInv
<1> SUFFICES ASSUME TimersAssumption, Init PROVE TimersIInv
  BY Zenon
<1>1. TimersTypeOK
  <2>1. LoopTypeOK
    BY Zenon DEF Init, LoopTypeOK, Status
  <2>2. g \in Gens /\ deadline \in Nat
    BY DEF TimersAssumption, Init, Gens
  <2>3. ticks \in Ticks
    BY Zenon DEF Init, Ticks, NoTick
  <2>4. fired \in [Gens -> BOOLEAN] /\ waker \in [Gens -> 0..2]
    BY DEF Init
  <2> QED BY ZenonT(40), <2>1, <2>2, <2>3, <2>4 DEF Init, TimersTypeOK, Live
<1>2. g \in Gens /\ \A i \in Gens : LoopOK(i) /\ FiredOK(i)
  BY <1>1 DEF Init, LoopOK, FiredOK, One, TimersTypeOK
<1> QED BY Zenon, <1>1, <1>2 DEF Init, TimersIInv, SleepOK, TimersKeepTime, SleepersAreWoken

\* What a stop leaves behind: the handle is gone, and the registration with
\* it unless a callback that runs keeps it.
LEMMA StopFacts ==
  ASSUME TimersIInv, StopTimer(g)
  PROVE  /\ LoopTypeOK' /\ due' = due
         /\ \A i \in Gens \ {g} : /\ timer'[i] = timer[i] /\ count'[i] = count[i]
                                  /\ owned'[i] = owned[i] /\ held'[i] = held[i]
         /\ ~held'[g] /\ timer'[g] # "armed"
         /\ timer'[g] = timer[g] \/ (timer[g] = "armed" /\ timer'[g] = "stopped")
         /\ timer'[g] = "entered" => owned'[g]
         /\ timer'[g] \in {"none", "done", "stopped"} => ~owned'[g]
         /\ count'[g] = One(owned'[g]) + One(timer'[g] \in {"running", "stored", "woken"})
<1>1. LoopTypeOK /\ g \in Gens /\ LoopOK(g)
  BY Zenon DEF TimersIInv, TimersTypeOK
<1>2. CASE ~held[g]
  BY <1>1, <1>2 DEF StopTimer, loop, LoopTypeOK, LoopOK, One
<1>3. ASSUME held[g], NEW success \in BOOLEAN,
             held' = Set(held, g, FALSE), UNCHANGED due,
             owned[g] => timer[g] # "entered", success => owned[g],
             timer[g] = "armed" => success,
             timer' = IF timer[g] = "armed" THEN Set(timer, g, "stopped") ELSE timer,
             owned' = IF success THEN Set(owned, g, FALSE) ELSE owned,
             count' = [(IF success THEN Released(g, count) ELSE count) EXCEPT ![g] = @ - 1]
      PROVE  /\ LoopTypeOK' /\ due' = due
             /\ \A i \in Gens \ {g} : /\ timer'[i] = timer[i] /\ count'[i] = count[i]
                                      /\ owned'[i] = owned[i] /\ held'[i] = held[i]
             /\ ~held'[g] /\ timer'[g] # "armed"
             /\ timer'[g] = timer[g] \/ (timer[g] = "armed" /\ timer'[g] = "stopped")
             /\ timer'[g] = "entered" => owned'[g]
             /\ timer'[g] \in {"none", "done", "stopped"} => ~owned'[g]
             /\ count'[g] = One(owned'[g]) + One(timer'[g] \in {"running", "stored", "woken"})
  <2>1. /\ held' \in [Gens -> BOOLEAN] /\ owned' \in [Gens -> BOOLEAN]
        /\ timer' \in [Gens -> Status] /\ due' \in [Gens -> Nat]
    BY Zenon, <1>1, <1>3 DEF LoopTypeOK, Set, Status
  <2>2. /\ ~held'[g] /\ timer'[g] # "armed" /\ owned'[g] = (owned[g] /\ ~success)
        /\ timer'[g] = IF timer[g] = "armed" THEN "stopped" ELSE timer[g]
        /\ \A i \in Gens \ {g} : timer'[i] = timer[i] /\ owned'[i] = owned[i] /\ held'[i] = held[i]
    BY ZenonT(40), <1>1, <1>3 DEF LoopTypeOK, Set
  <2>3. /\ timer'[g] = "entered" => owned'[g]
        /\ timer'[g] \in {"none", "done", "stopped"} => ~owned'[g]
    BY ZenonT(40), <1>1, <1>3, <2>2 DEF LoopOK
  <2>4. /\ count' \in [Gens -> Nat] /\ \A i \in Gens \ {g} : count'[i] = count[i]
        /\ count'[g] = One(owned'[g]) + One(timer'[g] \in {"running", "stored", "woken"})
    <3>1. CASE success
      <4>1. count' = [count EXCEPT ![g] = count[g] - 1 - 1] /\ count[g] - 1 - 1 \in Nat
        BY <1>1, <1>3, <3>1 DEF LoopTypeOK, Released, LoopOK, One
      <4>2. /\ count' \in [Gens -> Nat] /\ \A i \in Gens \ {g} : count'[i] = count[i]
            /\ count'[g] = count[g] - 1 - 1
        BY Zenon, <1>1, <4>1 DEF LoopTypeOK
      <4>3. ~owned'[g] /\ count[g] = 1 + 1 + One(timer[g] \in {"running", "stored", "woken"})
        BY ZenonT(40), <1>1, <1>3, <2>2, <3>1 DEF LoopTypeOK, LoopOK, One
      <4>4. timer'[g] \in {"running", "stored", "woken"} <=> timer[g] \in {"running", "stored", "woken"}
        BY Zenon, <2>2
      <4> QED BY <1>1, <4>2, <4>3, <4>4 DEF LoopTypeOK, One
    <3>2. CASE ~success
      <4>1. count' = [count EXCEPT ![g] = count[g] - 1] /\ count[g] - 1 \in Nat
        BY <1>1, <1>3, <3>2 DEF LoopTypeOK, LoopOK, One
      <4>2. /\ count' \in [Gens -> Nat] /\ \A i \in Gens \ {g} : count'[i] = count[i]
            /\ count'[g] = count[g] - 1
        BY Zenon, <1>1, <4>1 DEF LoopTypeOK
      <4>3. owned'[g] = owned[g] /\ count[g] = 1 + One(owned[g]) + One(timer[g] \in {"running", "stored", "woken"})
        BY Zenon, <1>1, <1>3, <2>2, <3>2 DEF LoopTypeOK, LoopOK, One
      <4>4. timer'[g] \in {"running", "stored", "woken"} <=> timer[g] \in {"running", "stored", "woken"}
        BY Zenon, <2>2
      <4> QED BY <1>1, <4>2, <4>3, <4>4 DEF LoopTypeOK, One
    <3> QED BY Zenon, <3>1, <3>2
  <2> QED BY ZenonT(40), <1>3, <2>1, <2>2, <2>3, <2>4 DEF LoopTypeOK
<1> QED BY ZenonT(40), <1>2, <1>3 DEF StopTimer

\* After a stop the same or the next generation satisfies what it should of
\* the loop.
LEMMA AfterStop ==
  ASSUME TimersIInv, StopTimer(g), UNCHANGED <<now, fired>>, g' \in {g, g + 1}, g' \in Gens
  PROVE  /\ \A i \in Gens : LoopOK(i)' /\ FiredOK(i)'
         /\ g' = g + 1 => timer'[g'] = "none"
         /\ timer'[g] # "none" => due'[g] >= deadline
<1>1. /\ LoopTypeOK /\ LoopTypeOK' /\ g \in Nat /\ \A i \in Gens : i \in Nat /\ LoopOK(i) /\ FiredOK(i)
  BY StopFacts DEF TimersIInv, TimersTypeOK, Gens
<1>2. ASSUME NEW i \in Gens \ {g} PROVE LoopOK(i)' /\ FiredOK(i)' /\ (i > g => timer'[i] = "none")
  <2>1. /\ timer'[i] = timer[i] /\ count'[i] = count[i] /\ owned'[i] = owned[i]
        /\ held'[i] = held[i] /\ due'[i] = due[i] /\ fired'[i] = fired[i] /\ now' = now
    BY Zenon, <1>2, StopFacts
  <2>2. ~held[i] /\ (i > g' => i > g) /\ i # g
    BY <1>1, <1>2 DEF LoopOK
  <2> QED BY Zenon, <1>1, <2>1, <2>2 DEF LoopOK, FiredOK
<1>3. ASSUME NEW i \in Gens, i = g PROVE LoopOK(i)' /\ FiredOK(i)'
  <2>1. i \in Nat /\ ~(i > g') /\ now' = now /\ fired' = fired
    BY <1>1, <1>3
  <2>2. FiredOK(i)'
    BY ZenonT(40), <1>1, <1>3, <2>1, StopFacts DEF FiredOK
  <2>3. LoopOK(i)'
    <3>1. /\ ~held'[g] /\ timer'[g] # "armed"
          /\ timer'[g] = "entered" => owned'[g]
          /\ timer'[g] \in {"none", "done", "stopped"} => ~owned'[g]
          /\ count'[g] = One(owned'[g]) + One(timer'[g] \in {"running", "stored", "woken"})
      BY ZenonT(40), StopFacts
    <3>2. count'[g] = One(held'[g]) + One(owned'[g]) + One(timer'[g] \in {"running", "stored", "woken"})
      BY <3>1 DEF One
    <3> QED BY ZenonT(40), <1>3, <2>1, <3>1, <3>2 DEF LoopOK
  <2> QED BY Zenon, <2>2, <2>3
<1>4. g' = g + 1 => timer'[g'] = "none"
  BY <1>1, <1>2
<1>5. timer'[g] # "none" => due'[g] >= deadline
  BY ZenonT(40), StopFacts DEF TimersIInv, SleepOK
<1> QED BY Zenon, <1>2, <1>3, <1>4, <1>5

\* An elapsed sleep is past its deadline, also when only the flag says so.
LEMMA ElapsedIsPast == ASSUME TimersIInv, Elapsed PROVE now >= deadline
<1>1. /\ g \in Gens /\ now \in Nat /\ deadline \in Nat /\ due[g] \in Nat
      /\ FiredOK(g) /\ SleepOK
  BY Zenon DEF TimersIInv, TimersTypeOK, LoopTypeOK
<1>2. now >= deadline \/ (now >= due[g] /\ due[g] >= deadline)
  BY ZenonT(40), <1>1 DEF Elapsed, FiredOK, SleepOK
<1> QED BY <1>1, <1>2

\* The next tick of an Interval whose deadline is past.
LEMMA NextTick ==
  ASSUME TimersAssumption, TimersIInv, now >= deadline, NEW late \in BOOLEAN, NEW next,
         late = (now > deadline + Tolerance),
         next = IF late THEN NextTimeout(deadline) ELSE deadline + Period
  PROVE  /\ next \in Nat /\ deadline < next
         /\ behavior = "Skip" => (next - deadline) % Period = 0
         /\ late /\ behavior # "Burst" => now < next
<1>1. /\ now \in Nat /\ deadline \in Nat /\ Period \in Nat \ {0}
      /\ behavior \in {"Burst", "Delay", "Skip"}
  BY Zenon DEF TimersIInv, TimersTypeOK, TimersAssumption
<1> DEFINE d == now - deadline
<1>2. d \in Nat
  BY <1>1
<1>3. (d + Period - (d % Period)) % Period = 0 /\ d % Period \in 0..(Period - 1)
  <2> HIDE DEF d
  <2> QED BY ZenonT(60), <1>1, <1>2, SkipsPeriods
<1>4. Period % Period = 0
  BY <1>1
<1>5. CASE ~late
  <2>1. next = deadline + Period /\ next - deadline = Period
    BY <1>1, <1>5
  <2> QED BY <1>1, <1>4, <1>5, <2>1
<1>6. CASE late /\ behavior = "Burst"
  BY <1>1, <1>6 DEF NextTimeout
<1>7. CASE late /\ behavior = "Delay"
  BY <1>1, <1>7 DEF NextTimeout
<1>8. CASE late /\ behavior = "Skip"
  <2>1. next = now + Period - (d % Period)
    BY Zenon, <1>8 DEF NextTimeout
  <2>2. next - deadline = d + Period - (d % Period) /\ next \in Nat /\ deadline < next /\ now < next
    BY <1>1, <1>2, <1>3, <2>1
  <2> QED BY Zenon, <1>3, <1>8, <2>2
<1> QED BY Zenon, <1>1, <1>5, <1>6, <1>7, <1>8

\* A sleep that is ready ends, or is the next tick's.
LEMMA ReadyStep == ASSUME TimersAssumption, TimersIInv, pc \in Live, Elapsed, Ready PROVE TimersIInv'
<1>1. /\ StopTimer(g) /\ awake' = TRUE /\ UNCHANGED <<kind, behavior, now, fired, waker, who, value>>
      /\ now >= deadline /\ TimersTypeOK /\ Generations \in Nat /\ LoopTypeOK'
  BY Zenon, ElapsedIsPast, StopFacts DEF Ready, TimersIInv, TimersAssumption
<1>2. CASE kind = "interval" /\ g < Generations
  <2> DEFINE late == now > deadline + Tolerance
             next == IF late THEN NextTimeout(deadline) ELSE deadline + Period
  <2>1. /\ ticks' = [at |-> deadline, now |-> now, next |-> next, late |-> late]
        /\ deadline' = next /\ g' = g + 1 /\ pc' = "idle" /\ g' \in Gens /\ late \in BOOLEAN
    <3>1. /\ ticks' = [at |-> deadline, now |-> now, next |-> next, late |-> late]
          /\ deadline' = next /\ g' = g + 1 /\ pc' = "idle"
      BY Zenon, <1>2 DEF Ready
    <3>2. g + 1 \in Gens /\ late \in BOOLEAN
      BY <1>1, <1>2 DEF TimersTypeOK, Gens
    <3> QED BY ZenonT(40), <3>1, <3>2
  <2>2. /\ next \in Nat /\ deadline < next
        /\ behavior = "Skip" => (next - deadline) % Period = 0
        /\ late /\ behavior # "Burst" => now < next
    BY ZenonT(40), <1>1, <2>1, NextTick
  <2> HIDE DEF late, next
  <2>3. TimersTypeOK'
    BY Zenon, <1>1, <2>1, <2>2 DEF TimersTypeOK, Live, Ticks
  <2>4. \A i \in Gens : LoopOK(i)' /\ FiredOK(i)'
    BY Zenon, <1>1, <2>1, AfterStop
  <2>5. timer'[g'] = "none"
    BY Zenon, <1>1, <2>1, AfterStop
  <2>6. SleepOK' /\ SleepersAreWoken'
    BY Zenon, <1>1, <2>1, <2>5 DEF SleepOK, SleepersAreWoken
  <2>7. TimersKeepTime'
    BY Zenon, <1>1, <2>1, <2>2 DEF TimersKeepTime, TimersTypeOK
  <2> QED BY Zenon, <2>3, <2>4, <2>6, <2>7 DEF TimersIInv
<1>3. CASE ~(kind = "interval" /\ g < Generations)
  <2>1. pc' = "ready" /\ UNCHANGED <<g, deadline, ticks>> /\ g' \in Gens
    BY Zenon, <1>1, <1>3 DEF Ready, TimersTypeOK
  <2>2. TimersTypeOK'
    BY Zenon, <1>1, <2>1 DEF TimersTypeOK
  <2>3. \A i \in Gens : LoopOK(i)' /\ FiredOK(i)'
    BY Zenon, <1>1, <2>1, AfterStop
  <2>4. timer'[g] # "none" => due'[g] >= deadline
    BY Zenon, <1>1, <2>1, AfterStop
  <2>5. SleepOK' /\ SleepersAreWoken'
    BY Zenon, <1>1, <2>1, <2>4 DEF SleepOK, SleepersAreWoken, Live
  <2>6. TimersKeepTime'
    BY Zenon, <1>1, <2>1 DEF TimersIInv, TimersKeepTime
  <2> QED BY Zenon, <2>2, <2>3, <2>5, <2>6 DEF TimersIInv
<1> QED BY ZenonT(40), <1>2, <1>3

\* A Timeout that has its value, and a future that is dropped, stop the timer.
LEMMA EndStep == ASSUME TimersIInv, PollValue \/ Drop PROVE TimersIInv'
<1>1. /\ StopTimer(g) /\ UNCHANGED <<kind, behavior, now, g, deadline, fired, waker, awake, who, value, ticks>>
      /\ pc' \in {"value", "dropped"} /\ LoopTypeOK' /\ TimersTypeOK /\ g' \in Gens
  BY ZenonT(40), StopFacts DEF PollValue, Drop, TimersIInv, TimersTypeOK
<1>2. TimersTypeOK'
  BY Zenon, <1>1 DEF TimersTypeOK
<1>3. \A i \in Gens : LoopOK(i)' /\ FiredOK(i)'
  BY Zenon, <1>1, AfterStop
<1>4. timer'[g] # "none" => due'[g] >= deadline
  BY ZenonT(40), <1>1, AfterStop
<1>5. SleepOK' /\ SleepersAreWoken' /\ TimersKeepTime'
  <2>1. pc' \notin Live /\ pc' \notin {"ready", "arm", "recheck", "pending"}
    BY Zenon, <1>1 DEF Live
  <2> QED BY ZenonT(40), <1>1, <1>4, <2>1 DEF TimersIInv, SleepOK, SleepersAreWoken, TimersKeepTime
<1> QED BY ZenonT(40), <1>2, <1>3, <1>5 DEF TimersIInv

\* reset starts a generation.
LEMMA ResetStep == ASSUME TimersAssumption, TimersIInv, NEW d \in Durations, Reset(d) PROVE TimersIInv'
<1>1. /\ StopTimer(g) /\ UNCHANGED <<kind, behavior, now, fired, waker, who, value, ticks>>
      /\ g' = g + 1 /\ g' \in Gens /\ deadline' \in Nat /\ pc' = "idle" /\ awake' = TRUE
      /\ LoopTypeOK' /\ TimersTypeOK
  <2>1. /\ StopTimer(g) /\ UNCHANGED <<kind, behavior, now, fired, waker, who, value, ticks>>
        /\ g' = g + 1 /\ g < Generations /\ deadline' = now + d /\ pc' = "idle" /\ awake' = TRUE
    BY ZenonT(40) DEF Reset
  <2>2. LoopTypeOK' /\ TimersTypeOK
    BY ZenonT(40), <2>1, StopFacts DEF TimersIInv
  <2>3. g + 1 \in Gens /\ now + d \in Nat
    BY <2>1, <2>2 DEF TimersTypeOK, TimersAssumption, Gens
  <2> QED BY ZenonT(40), <2>1, <2>2, <2>3
<1>2. TimersTypeOK'
  BY Zenon, <1>1 DEF TimersTypeOK, Live
<1>3. \A i \in Gens : LoopOK(i)' /\ FiredOK(i)'
  BY Zenon, <1>1, AfterStop
<1>4. timer'[g'] = "none"
  BY ZenonT(40), <1>1, AfterStop
<1>5. SleepOK' /\ SleepersAreWoken' /\ TimersKeepTime'
  BY Zenon, <1>1, <1>4 DEF TimersIInv, SleepOK, SleepersAreWoken, TimersKeepTime
<1> QED BY ZenonT(40), <1>2, <1>3, <1>5 DEF TimersIInv

\* A step that leaves the loop, the clock and the generation alone.
LEMMA SameLoop ==
  ASSUME TimersIInv, UNCHANGED <<loop, now, g, fired>>
  PROVE  /\ LoopTypeOK /\ LoopTypeOK' /\ \A i \in Gens : LoopOK(i)' /\ FiredOK(i)'
         /\ UNCHANGED <<timer, due, now, g, fired>> /\ g \in Gens
<1>1. UNCHANGED <<timer, due, count, owned, held, now, g, fired>>
  BY Zenon DEF loop
<1>2. LoopTypeOK /\ LoopTypeOK' /\ g \in Gens
  BY <1>1, Zenon DEF TimersIInv, TimersTypeOK, LoopTypeOK
<1>3. ASSUME NEW i \in Gens PROVE LoopOK(i)' /\ FiredOK(i)'
  <2>1. LoopOK(i) /\ FiredOK(i)
    BY Zenon DEF TimersIInv
  <2> QED BY <1>1, <2>1, Zenon DEF LoopOK, FiredOK
<1> QED BY <1>1, <1>2, <1>3, Zenon

\* The steps of a poll that is not ready.
LEMMA PollStepKeeps == ASSUME TimersAssumption, TimersIInv, PollStep PROVE TimersIInv'
<1>1. ASSUME NEW w \in {1, 2}, Poll(w) PROVE TimersIInv'
  <2>1. CASE Elapsed
    BY Zenon, <1>1, <2>1, ReadyStep DEF Poll, Live
  <2>2. CASE ~Elapsed
    <3>1. /\ pc \in Live /\ pc' = "register" /\ awake' = FALSE /\ who' = w
          /\ UNCHANGED <<kind, behavior, now, g, deadline, fired, waker, loop, value, ticks>>
      BY Zenon, <1>1, <2>2 DEF Poll, Live
    <3>2. TimersTypeOK' /\ SleepOK'
      BY ZenonT(40), <3>1, SameLoop DEF TimersIInv, TimersTypeOK, Live, SleepOK
    <3>3. TimersKeepTime' /\ SleepersAreWoken'
      BY ZenonT(40), <3>1 DEF TimersIInv, TimersKeepTime, SleepersAreWoken
    <3> QED BY <3>1, <3>2, <3>3, SameLoop, Zenon DEF TimersIInv
  <2> QED BY Zenon, <2>1, <2>2
<1>2. CASE Register
  <2>1. /\ waker' = [waker EXCEPT ![g] = who] /\ pc = "register" /\ pc' = "arm"
        /\ UNCHANGED <<kind, behavior, now, g, deadline, fired, loop, awake, who, value, ticks>>
    BY ZenonT(40), <1>2 DEF Register, Registered
  <2>2. waker' \in [Gens -> 0..2] /\ waker'[g] = who
    BY <2>1 DEF TimersIInv, TimersTypeOK
  <2>3. TimersTypeOK'
    BY ZenonT(40), <2>1, <2>2, SameLoop DEF TimersIInv, TimersTypeOK, Live
  <2>4. SleepOK'
    <3>1. SleepOK /\ UNCHANGED <<timer, due, g>>
      BY ZenonT(40), <2>1, SameLoop DEF TimersIInv
    <3> QED BY ZenonT(40), <2>1, <2>2, <3>1 DEF SleepOK, Live
  <2>5. TimersKeepTime' /\ SleepersAreWoken'
    BY ZenonT(40), <2>1 DEF TimersIInv, TimersKeepTime, SleepersAreWoken
  <2> QED BY <2>1, <2>3, <2>4, <2>5, SameLoop, Zenon DEF TimersIInv
<1>3. CASE Arm
  <2>1. /\ pc = "arm" /\ pc' = "recheck"
        /\ UNCHANGED <<kind, behavior, now, g, deadline, fired, waker, awake, who, value, ticks>>
    BY ZenonT(40), <1>3 DEF Arm
  <2>2. CASE timer[g] # "none"
    <3>1. UNCHANGED loop
      BY ZenonT(40), <1>3, <2>2 DEF Arm
    <3>2. TimersTypeOK'
      BY ZenonT(40), <2>1, <3>1, SameLoop DEF TimersIInv, TimersTypeOK, Live
    <3>3. SleepOK'
      <4>1. SleepOK /\ UNCHANGED <<timer, due, g>>
        BY ZenonT(40), <2>1, <3>1, SameLoop DEF TimersIInv
      <4> QED BY ZenonT(40), <2>1, <2>2, <4>1 DEF SleepOK, Live
    <3>4. TimersKeepTime' /\ SleepersAreWoken'
      BY ZenonT(40), <2>1 DEF TimersIInv, TimersKeepTime, SleepersAreWoken
    <3> QED BY <2>1, <3>1, <3>2, <3>3, <3>4, SameLoop, Zenon DEF TimersIInv
  <2>3. CASE timer[g] = "none"
    <3> DEFINE left == IF deadline > now THEN deadline - now ELSE 0
               at == now + Rounded(left)
    <3>1. left \in Nat /\ g \in Gens /\ now \in Nat /\ deadline \in Nat
      BY DEF TimersIInv, TimersTypeOK
    <3>2. at \in Nat /\ at >= deadline
      <4>1. Rounded(left) \in Nat /\ Rounded(left) >= left
        BY Zenon, <3>1, RoundedUp
      <4> QED BY <3>1, <4>1
    <3> HIDE DEF at
    <3>3. /\ timer' = [timer EXCEPT ![g] = "armed"] /\ due' = [due EXCEPT ![g] = at]
          /\ count' = [count EXCEPT ![g] = 2] /\ owned' = [owned EXCEPT ![g] = TRUE]
          /\ held' = [held EXCEPT ![g] = TRUE]
      BY ZenonT(40), <1>3, <2>3 DEF Arm, StartTimer, Set, at
    <3>4. TimersTypeOK'
      BY ZenonT(40), <2>1, <3>1, <3>2, <3>3 DEF TimersIInv, TimersTypeOK, LoopTypeOK, Status, Live
    <3>5. \A i \in Gens : LoopOK(i)'
      BY <2>1, <3>1, <3>3 DEF TimersIInv, TimersTypeOK, LoopTypeOK, LoopOK, One, Gens
    <3>6. \A i \in Gens : FiredOK(i)'
      BY ZenonT(40), <2>1, <2>3, <3>1, <3>3 DEF TimersIInv, TimersTypeOK, LoopTypeOK, FiredOK
    <3>7. SleepOK' /\ TimersKeepTime' /\ SleepersAreWoken'
      BY Zenon, <2>1, <3>1, <3>2, <3>3 DEF TimersIInv, TimersTypeOK, LoopTypeOK, SleepOK, TimersKeepTime, SleepersAreWoken
    <3> QED BY Zenon, <3>4, <3>5, <3>6, <3>7 DEF TimersIInv
  <2> QED BY Zenon, <2>2, <2>3
<1>4. CASE Recheck
  <2>1. CASE Elapsed
    BY ZenonT(40), <1>4, <2>1, ReadyStep DEF Recheck, Live
  <2>2. CASE ~Elapsed
    <3>1. pc = "recheck" /\ pc' = "pending" /\ ~fired[g] /\ g \in Gens
          /\ UNCHANGED <<kind, behavior, now, g, deadline, fired, waker, loop, awake, who, value, ticks>>
      BY ZenonT(40), <1>4, <2>2 DEF Recheck, Elapsed, TimersIInv, TimersTypeOK
    <3>2. timer[g] \in {"armed", "entered", "running"}
      BY Zenon, <3>1 DEF TimersIInv, TimersTypeOK, LoopTypeOK, Status, Live, FiredOK, SleepOK
    <3>3. TimersTypeOK'
      BY ZenonT(40), <3>1, SameLoop DEF TimersIInv, TimersTypeOK, Live
    <3>4. SleepOK /\ TimersKeepTime /\ UNCHANGED <<timer, due, g>>
      BY ZenonT(40), <3>1, SameLoop DEF TimersIInv
    <3>5. SleepOK' /\ TimersKeepTime'
      BY ZenonT(40), <3>1, <3>2, <3>4 DEF SleepOK, Live, TimersKeepTime
    <3>6. SleepersAreWoken'
      BY ZenonT(40), <3>1, <3>2, <3>4 DEF SleepOK, SleepersAreWoken
    <3> QED BY <3>1, <3>3, <3>5, <3>6, SameLoop, Zenon DEF TimersIInv
  <2> QED BY Zenon, <2>1, <2>2
<1>5. CASE ArmFails
  <2>1. /\ pc' = "panicked"
        /\ UNCHANGED <<kind, behavior, now, g, deadline, fired, waker, loop, awake, who, value, ticks>>
    BY ZenonT(40), <1>5 DEF ArmFails
  <2>2. TimersTypeOK'
    BY ZenonT(40), <2>1, SameLoop DEF TimersIInv, TimersTypeOK
  <2>3. SleepOK /\ TimersKeepTime /\ UNCHANGED <<timer, due, g>>
    BY ZenonT(40), <2>1, SameLoop DEF TimersIInv
  <2>4. SleepOK' /\ TimersKeepTime' /\ SleepersAreWoken'
    BY ZenonT(40), <2>1, <2>3 DEF SleepOK, Live, TimersKeepTime, SleepersAreWoken
  <2> QED BY <2>1, <2>2, <2>4, SameLoop, Zenon DEF TimersIInv
<1> QED BY Zenon, <1>1, <1>2, <1>3, <1>4, <1>5, EndStep DEF PollStep

\* The steps of the loop's thread in the callback of generation i.
LEMMA LoopStepKeeps == ASSUME TimersIInv, LoopStep PROVE TimersIInv'
<1> SUFFICES ASSUME NEW i \in Gens,
                    Enter(i) \/ TakeReference(i) \/ FireStore(i) \/ FireWake(i) \/ Leave(i)
             PROVE  TimersIInv'
  BY Zenon DEF LoopStep
<1>1. /\ LoopTypeOK /\ LoopOK(i) /\ FiredOK(i) /\ g \in Gens /\ now \in Nat
      /\ fired \in [Gens -> BOOLEAN] /\ waker \in [Gens -> 0..2] /\ awake \in BOOLEAN
      /\ UNCHANGED <<task, now, due, held>>
  BY ZenonT(40) DEF TimersIInv, TimersTypeOK, Enter, TakeReference, FireStore, FireWake, Leave
<1>2. \A j \in Gens \ {i} : /\ timer'[j] = timer[j] /\ fired'[j] = fired[j] /\ waker'[j] = waker[j]
                             /\ count'[j] = count[j] /\ owned'[j] = owned[j]
  BY ZenonT(40), <1>1 DEF TimersIInv, TimersTypeOK, LoopTypeOK, Callback, Set, Released, Enter, TakeReference, FireStore,
              FireWake, Leave
<1>3. /\ LoopTypeOK' /\ fired' \in [Gens -> BOOLEAN] /\ waker' \in [Gens -> 0..2] /\ awake' \in BOOLEAN
      /\ LoopOK(i)'
  <2>1. CASE Leave(i)
    <3>1. count' = [count EXCEPT ![i] = One(held[i])] /\ timer[i] = "woken"
      <4>1. /\ timer[i] = "woken" /\ count[i] = One(held[i]) + One(owned[i]) + 1
            /\ count' = [Released(i, count) EXCEPT ![i] = @ - 1]
        BY ZenonT(40), <1>1, <2>1 DEF Leave, Callback, LoopOK, One
      <4>2. CASE owned[i]
        <5>1. count' = [count EXCEPT ![i] = count[i] - 1 - 1] /\ count[i] = One(held[i]) + 1 + 1
          BY Zenon, <1>1, <4>1, <4>2 DEF Released, LoopTypeOK, One
        <5>2. count[i] - 1 - 1 = One(held[i])
          BY <5>1 DEF One
        <5> QED BY ZenonT(60), <4>1, <5>1, <5>2
      <4>3. CASE ~owned[i]
        <5>1. count' = [count EXCEPT ![i] = count[i] - 1] /\ count[i] = One(held[i]) + 0 + 1
          BY ZenonT(40), <1>1, <4>1, <4>3 DEF Released, LoopTypeOK, One
        <5>2. count[i] - 1 = One(held[i])
          BY <5>1 DEF One
        <5> QED BY ZenonT(60), <4>1, <5>1, <5>2
      <4> QED BY ZenonT(40), <4>2, <4>3
    <3>2. /\ timer' = [timer EXCEPT ![i] = "done"] /\ owned' = [owned EXCEPT ![i] = FALSE]
          /\ UNCHANGED <<fired, waker, awake>>
      BY ZenonT(40), <2>1 DEF Leave, Callback, Set
    <3> QED BY SMTT(60), <1>1, <3>1, <3>2 DEF LoopTypeOK, LoopOK, One, Status, task
  <2>2. CASE TakeReference(i)
    <3>1. /\ timer[i] = "entered" /\ timer' = [timer EXCEPT ![i] = "running"]
          /\ count' = [count EXCEPT ![i] = count[i] + 1]
          /\ UNCHANGED <<task, fired, waker, due, owned, held, awake>>
      BY ZenonT(40), <2>2 DEF TakeReference, Callback, Set
    <3> QED BY SMTT(60), <1>1, <3>1 DEF LoopTypeOK, LoopOK, One, Status, task
  <2>3. CASE Enter(i)
    BY ZenonT(40), <1>1, <2>3 DEF Enter, Callback, Set, LoopTypeOK, LoopOK, One, Status,
      task
  <2>4. CASE FireStore(i)
    BY ZenonT(40), <1>1, <2>4 DEF FireStore, Callback, Set, LoopTypeOK, LoopOK, One, Status,
      task
  <2>5. CASE FireWake(i)
    <3>1. /\ timer[i] = "stored" /\ timer' = [timer EXCEPT ![i] = "woken"]
          /\ waker' = [waker EXCEPT ![i] = 0] /\ awake' \in BOOLEAN
          /\ UNCHANGED <<task, fired, due, count, owned, held>>
      BY ZenonT(40), <2>5 DEF FireWake, Callback, Set
    <3> QED BY SMTT(60), <1>1, <3>1 DEF LoopTypeOK, LoopOK, One, Status, task
  <2> QED BY ZenonT(40), <2>1, <2>2, <2>3, <2>4, <2>5
<1>4. FiredOK(i)'
  BY ZenonT(40), <1>1 DEF TimersIInv, TimersTypeOK, LoopTypeOK, FiredOK, Callback, Set, Enter, TakeReference, FireStore,
              FireWake, Leave
<1>5. \A j \in Gens : LoopOK(j)' /\ FiredOK(j)'
  <2> SUFFICES ASSUME NEW j \in Gens, j # i PROVE LoopOK(j)' /\ FiredOK(j)'
    BY ZenonT(60), <1>3, <1>4
  <2>1. LoopOK(j) /\ FiredOK(j)
    BY Zenon DEF TimersIInv
  <2>2. /\ timer'[j] = timer[j] /\ fired'[j] = fired[j] /\ count'[j] = count[j] /\ owned'[j] = owned[j]
        /\ held' = held /\ due' = due /\ g' = g /\ now' = now
    BY ZenonT(60), <1>1, <1>2 DEF task
  <2> QED BY ZenonT(60), <2>1, <2>2 DEF LoopOK, FiredOK
<1>6. TimersTypeOK'
  BY ZenonT(40), <1>1, <1>3 DEF TimersIInv, TimersTypeOK, task
<1>7. SleepOK'
  <2>1. /\ timer[i] # "none" /\ timer'[i] \notin {"none", "stopped"}
        /\ waker'[i] = waker[i] \/ (FireWake(i) /\ (i = g /\ waker[g] = who => awake'))
        /\ awake => awake'
    BY ZenonT(40), <1>1 DEF TimersIInv, TimersTypeOK, LoopTypeOK, Callback, Set, Enter, TakeReference, FireStore, FireWake, Leave
  <2> QED BY ZenonT(40), <1>1, <1>2, <2>1 DEF TimersIInv, TimersTypeOK, SleepOK, task
<1>8. SleepersAreWoken'
  <2> SUFFICES ASSUME pc' = "pending", ~awake'
               PROVE  waker'[g] = who /\ timer'[g] \in {"armed", "entered", "running", "stored"}
    BY ZenonT(40), <1>1 DEF SleepersAreWoken, task
  <2>1. pc = "pending" /\ ~awake
    BY ZenonT(40), <1>1 DEF TimersIInv, TimersTypeOK, task, Enter, TakeReference, FireStore, FireWake, Leave
  <2>2. waker[g] = who /\ timer[g] \in {"armed", "entered", "running", "stored"}
    BY ZenonT(40), <2>1 DEF TimersIInv, SleepersAreWoken
  <2>3. CASE i # g
    BY ZenonT(40), <1>1, <1>2, <2>2, <2>3
  <2>4. CASE i = g
    BY ZenonT(40), <1>1, <2>2, <2>4 DEF LoopTypeOK, Callback, Set, Enter, TakeReference, FireStore, FireWake, Leave
  <2> QED BY ZenonT(40), <2>3, <2>4
<1>9. TimersKeepTime'
  BY Zenon, <1>1 DEF TimersIInv, TimersKeepTime, task
<1> QED BY ZenonT(40), <1>5, <1>6, <1>7, <1>8, <1>9 DEF TimersIInv

\* Every step preserves the invariant.
LEMMA TimersNextInv == TimersAssumption /\ TimersIInv /\ [Next]_vars => TimersIInv'
<1> SUFFICES ASSUME TimersAssumption, TimersIInv, [Next]_vars PROVE TimersIInv'
  BY Zenon
<1>1. CASE Tick
  <2>1. now' = now + 1 /\ now \in Nat /\ UNCHANGED <<task, fired, waker, loop, awake>>
    BY ZenonT(40), <1>1 DEF Tick, TimersIInv, TimersTypeOK
  <2>2. TimersTypeOK' /\ SleepOK' /\ SleepersAreWoken' /\ \A i \in Gens : LoopOK(i)'
    <3>1. UNCHANGED <<timer, due, count, owned, held>> /\ now + 1 \in Nat
      BY <2>1 DEF loop
    <3>2. TimersTypeOK'
      BY ZenonT(40), <2>1, <3>1 DEF TimersIInv, TimersTypeOK, LoopTypeOK, task
    <3>3. SleepOK' /\ SleepersAreWoken'
      BY ZenonT(40), <2>1, <3>1 DEF TimersIInv, SleepOK, SleepersAreWoken, task
    <3>4. ASSUME NEW i \in Gens PROVE LoopOK(i)'
      <4>1. LoopOK(i)
        BY Zenon DEF TimersIInv
      <4> QED BY ZenonT(40), <2>1, <3>1, <4>1 DEF LoopOK, task
    <3> QED BY ZenonT(40), <3>2, <3>3, <3>4
  <2>3. \A i \in Gens : FiredOK(i)'
    BY <2>1 DEF TimersIInv, TimersTypeOK, LoopTypeOK, FiredOK, loop
  <2>4. TimersKeepTime'
    BY <2>1 DEF TimersIInv, TimersTypeOK, TimersKeepTime, task
  <2> QED BY ZenonT(40), <2>2, <2>3, <2>4 DEF TimersIInv
<1>2. ASSUME value' \in BOOLEAN, awake' \in {awake, TRUE},
             UNCHANGED <<kind, behavior, now, g, deadline, fired, waker, loop, pc, who, ticks>>
      PROVE  TimersIInv'
  <2>1. TimersTypeOK'
    BY ZenonT(40), <1>2, SameLoop DEF TimersIInv, TimersTypeOK
  <2>2. SleepOK /\ TimersKeepTime /\ SleepersAreWoken /\ UNCHANGED <<timer, due, g>>
    BY ZenonT(40), <1>2, SameLoop DEF TimersIInv
  <2>3. SleepOK' /\ TimersKeepTime' /\ SleepersAreWoken'
    BY ZenonT(40), <1>2, <2>2 DEF SleepOK, TimersKeepTime, SleepersAreWoken
  <2> QED BY <1>2, <2>1, <2>3, SameLoop, Zenon DEF TimersIInv
<1>3. CASE ValueReady \/ UNCHANGED vars
  <2>1. value \in BOOLEAN
    BY Zenon DEF TimersIInv, TimersTypeOK
  <2> QED BY ZenonT(40), <1>2, <1>3, <2>1 DEF ValueReady, vars, loop
<1> QED BY ZenonT(40), <1>1, <1>2, <1>3, LoopStepKeeps, PollStepKeeps, EndStep, ResetStep DEF Next

\* For any clock, durations, period and number of resets: sleeps end on time,
\* sleepers are woken, and the references to the callback's data are exactly
\* those that the handle, the registration and a running callback hold.
THEOREM SleepsEndExactly == ASSUME TimersAssumption PROVE Spec => []SleepsAreExact
<1>1. Init => TimersIInv
  BY Zenon, TimersStart
<1>2. TimersIInv /\ [Next]_vars => TimersIInv'
  BY ZenonT(40), TimersNextInv
<1>3. TimersIInv => SleepsAreExact
  <2> SUFFICES ASSUME TimersIInv PROVE TimerDataIsCounted
    BY Zenon DEF TimersIInv, SleepsAreExact
  <2> QED BY SMTT(60) DEF TimersIInv, TimersTypeOK, LoopTypeOK, LoopOK, One, TimerDataIsCounted
<1> QED BY <1>1, <1>2, <1>3, PTL DEF Spec
=============================================================================
