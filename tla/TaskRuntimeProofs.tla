------------------------- MODULE TaskRuntimeProofs -------------------------
(***************************************************************************)
(* Proofs about TaskRuntime, for any finite set of tasks and any set of    *)
(* threads with abort handles.  The inductive invariant says, for each     *)
(* point of a runner, which of its flags are set, what the result channel  *)
(* holds and how many polls began after an abort.  LocalSet and JoinSet,   *)
(* each with an invariant of its own, follow at the end.                   *)
(***************************************************************************)
EXTENDS TaskRuntime, LocalSet, JoinSet, FiniteSetTheorems, TLAPS

\* Updating a function at one argument keeps its type.
LEMMA Update ==
  ASSUME NEW D, NEW S, NEW f \in [D -> S], NEW d \in D, NEW x \in S
  PROVE  [f EXCEPT ![d] = x] \in [D -> S]
BY Zenon

\* The variables of the runner keep their types.
LEMMA RunnerShape == ASSUME ShapeOK, [Next]_vars PROVE RunnerOK'
<1> USE DEF RunnerOK
<1>1. CASE UNCHANGED runnerVars
  BY Zenon, <1>1 DEF ShapeOK, runnerVars
<1>2. ASSUME NEW t \in Tasks, NEW r \in Results, Returns(t, r),
             UNCHANGED <<kind, finished>>
      PROVE  RunnerOK'
  BY Zenon, <1>2, "finish" \in PCs, Update DEF ShapeOK, Returns, Goto, Set, PCs
<1>3. ASSUME NEW t \in Tasks, NEW p \in PCs, Goto(t, p), UNCHANGED output,
             kind' = kind \/ \E k \in {"async", "blocking"} : kind' = Set(kind, t, k),
             finished' = finished \/ finished' = Set(finished, t, TRUE),
             alive' = alive \/ \E b \in BOOLEAN : alive' = Set(alive, t, b)
      PROVE  RunnerOK'
  <2>1. pc' \in [Tasks -> PCs]
    BY Zenon, <1>3, Update DEF ShapeOK, Goto
  <2>2. kind' \in [Tasks -> {"async", "blocking"}]
    BY Zenon, <1>3, Update DEF ShapeOK, Set
  <2>3. finished' \in [Tasks -> BOOLEAN] /\ alive' \in [Tasks -> BOOLEAN]
    BY <1>3, ZenonT(60), Update DEF ShapeOK, Set
  <2> QED
    BY Zenon, <1>3, <2>1, <2>2, <2>3 DEF ShapeOK
<1>4. ASSUME NEW t \in Tasks, RunnerStep(t) \/ Unblock(t) PROVE RunnerOK'
  <2> USE DEF Results, PCs, runnerVars
  <2>1. CASE Start(t)
    BY Zenon, <2>1, <1>3 DEF Start
  <2>2. CASE Check(t)
    BY Zenon, <2>2, <1>2, <1>3 DEF Check
  <2>3. CASE Poll(t)
    BY ZenonT(60), <2>3, <1>2, <1>3 DEF Poll
  <2>4. CASE Wait(t)
    BY Zenon, <2>4, <1>3 DEF Wait
  <2>5. CASE StartBlocking(t)
    BY Zenon, <2>5, <1>2, <1>3 DEF StartBlocking
  <2>6. CASE RunBlocking(t)
    BY Zenon, <2>6, <1>2 DEF RunBlocking
  <2>12. CASE CallClosure(t)
    BY Zenon, <2>12, <1>3 DEF CallClosure
  <2>7. CASE FinishFlag(t)
    BY ZenonT(60), <2>7, <1>3 DEF FinishFlag
  <2>8. CASE FinishCount(t)
    BY Zenon, <2>8, <1>3 DEF FinishCount
  <2>9. CASE FinishUnhook(t)
    BY Zenon, <2>9, <1>3 DEF FinishUnhook
  <2>10. CASE Send(t)
    BY Zenon, <2>10, <1>3 DEF Send
  <2>11. CASE Unblock(t)
    BY Zenon, <2>11, <1>3 DEF Unblock
  <2> QED
    BY Zenon, <1>4, <2>1, <2>2, <2>3, <2>4, <2>5, <2>6, <2>7, <2>8, <2>9, <2>10, <2>11, <2>12
    DEF RunnerStep
<1>5. ASSUME NEW t \in Tasks, NEW k \in {"async", "blocking"}, Spawn(t, k) PROVE RunnerOK'
  BY ZenonT(60), <1>5, <1>3 DEF Spawn, PCs
<1>6. ASSUME NEW t \in Tasks, Destroy(t) PROVE RunnerOK'
  BY ZenonT(60), <1>6, <1>3 DEF Destroy, PCs
<1> QED
  BY ZenonT(60), <1>1, <1>4, <1>5, <1>6
  DEF Next, vars, WakeFuture, PollJoin, DropHandle, TakeAbortHandle, AbortStore,
      AbortWake, DropAbortHandle

\* The wake-up flags keep their types.
LEMMA WakeShape == ASSUME ShapeOK, [Next]_vars PROVE WakeOK'
<1>1. CASE UNCHANGED wakeVars
  BY Zenon, <1>1 DEF ShapeOK, WakeOK, wakeVars
<1>2. ASSUME NEW t \in Tasks,
             slot' = slot \/ \E b \in BOOLEAN : slot' = Set(slot, t, b),
             woken' = woken \/ \E b \in BOOLEAN : woken' = Set(woken, t, b),
             armed' = armed \/ \E b \in BOOLEAN : armed' = Set(armed, t, b)
      PROVE  WakeOK'
  BY <1>2, ZenonT(60), Update DEF ShapeOK, WakeOK, Set
<1>3. ASSUME NEW t \in Tasks, RunnerStep(t) \/ Unblock(t) \/ WakeFuture(t) PROVE WakeOK'
  <2> USE DEF wakeVars
  <2>1. CASE Start(t) \/ Wait(t) \/ Unblock(t) \/ WakeFuture(t) \/ FinishUnhook(t)
    BY ZenonT(60), <2>1, <1>2 DEF Start, Wait, Unblock, WakeFuture, FinishUnhook
  <2>2. CASE Poll(t)
    BY ZenonT(60), <2>2, <1>2 DEF Poll
  <2>3. CASE Check(t) \/ StartBlocking(t) \/ CallClosure(t) \/ RunBlocking(t) \/ FinishFlag(t)
             \/ FinishCount(t) \/ Send(t)
    BY ZenonT(60), <2>3, <1>1 DEF Check, StartBlocking, CallClosure, RunBlocking, FinishFlag, FinishCount, Send
  <2> QED
    BY Zenon, <1>3, <2>1, <2>2, <2>3 DEF RunnerStep
<1>4. ASSUME NEW a \in Aborters, AbortWake(a) PROVE WakeOK'
  <2> DEFINE t == holding[a]
  <2>1. t \in Tasks
    BY Zenon, <1>4 DEF AbortWake, ShapeOK, AbortOK
  <2>2. (woken[t] \/ slot[t]) \in BOOLEAN
    BY Zenon, <2>1 DEF ShapeOK, WakeOK
  <2>3. woken' = Set(woken, t, woken[t] \/ slot[t]) /\ slot' = Set(slot, t, FALSE)
        /\ armed' = armed
    BY Zenon, <1>4 DEF AbortWake
  <2> HIDE DEF t
  <2> QED
    BY ZenonT(60), <2>1, <2>2, <2>3, <1>2
<1> QED
  BY ZenonT(60), <1>1, <1>3, <1>4
  DEF Next, vars, Spawn, Destroy, PollJoin, DropHandle, TakeAbortHandle, AbortStore,
      DropAbortHandle

\* The two ends of the result channel and the JoinHandle keep their types.
LEMMA JoinShape == ASSUME ShapeOK, [Next]_vars PROVE JoinOK'
<1> DEFINE Handles == {"none", "held", "joining", "done", "dropped"}
           Gots == Results \cup {"none", "closed"}
<1>1. CASE UNCHANGED joinVars
  BY Zenon, <1>1 DEF ShapeOK, JoinOK, joinVars
<1>2. ASSUME NEW t \in Tasks,
             chan' = chan \/ \E c \in Channel : chan' = Set(chan, t, c),
             handle' = handle \/ \E h \in Handles : handle' = Set(handle, t, h),
             joinWoken' = joinWoken \/ \E b \in BOOLEAN : joinWoken' = Set(joinWoken, t, b),
             got' = got \/ \E g \in Gots : got' = Set(got, t, g)
      PROVE  JoinOK'
  <2>1. chan' \in [Tasks -> Channel]
    BY <1>2, Update DEF ShapeOK, JoinOK, Set
  <2>2. handle' \in [Tasks -> Handles]
    BY Zenon, <1>2, Update DEF ShapeOK, JoinOK, Set
  <2>3. joinWoken' \in [Tasks -> BOOLEAN]
    BY Zenon, <1>2, Update DEF ShapeOK, JoinOK, Set
  <2>4. got' \in [Tasks -> Gots]
    BY Zenon, <1>2, Update DEF ShapeOK, JoinOK, Set
  <2> QED
    BY Zenon, <2>1, <2>2, <2>3, <2>4 DEF JoinOK
<1>3. ASSUME NEW t \in Tasks
      PROVE  /\ chan[t] \in Channel
             /\ (joinWoken[t] \/ chan[t].waker) \in BOOLEAN
             /\ output[t] \in Results \cup {"none"}
             /\ chan[t].value \in Results \cup {"none"}
  BY Zenon, <1>3 DEF ShapeOK, JoinOK, RunnerOK, Channel
<1>4. ASSUME NEW t \in Tasks, Send(t) PROVE JoinOK'
  <2>1. CASE chan[t].rx
    <3>1. [chan[t] EXCEPT !.value = output[t], !.tx = FALSE, !.waker = FALSE] \in Channel
      BY ZenonT(60), <1>3 DEF Channel
    <3>2. chan' = Set(chan, t,
                    [chan[t] EXCEPT !.value = output[t], !.tx = FALSE, !.waker = FALSE])
      BY ZenonT(60), <1>4, <2>1 DEF Send, Set
    <3> QED
      BY ZenonT(60), <1>4, <2>1, <1>2, <1>3, <3>1, <3>2 DEF Send, WakeJoiner
  <2>2. CASE ~chan[t].rx
    BY Zenon, <1>4, <2>2, <1>1 DEF Send, joinVars
  <2> QED
    BY Zenon, <2>1, <2>2
<1>5. ASSUME NEW t \in Tasks, Destroy(t) PROVE JoinOK'
  <2>1. [chan[t] EXCEPT !.tx = FALSE, !.waker = FALSE] \in Channel
    BY ZenonT(60), <1>3 DEF Channel
  <2>2. chan' = Set(chan, t, [chan[t] EXCEPT !.tx = FALSE, !.waker = FALSE])
    BY ZenonT(60), <1>5 DEF Destroy, Set
  <2> QED
    BY ZenonT(60), <1>5, <1>2, <1>3, <2>1, <2>2 DEF Destroy, WakeJoiner
<1>6. ASSUME NEW t \in Tasks, PollJoin(t) PROVE JoinOK'
  <2>1. /\ [chan[t] EXCEPT !.value = "none"] \in Channel
        /\ [chan[t] EXCEPT !.waker = TRUE] \in Channel
    BY ZenonT(60), <1>3 DEF Channel
  <2>2. \E c \in Channel : chan' = Set(chan, t, c)
    BY ZenonT(60), <1>6, <2>1 DEF PollJoin, Set
  <2>3. got' = got \/ \E g \in Gots : got' = Set(got, t, g)
    BY Zenon, <1>6, <1>3 DEF PollJoin, Results
  <2> QED
    BY ZenonT(60), <1>6, <1>2, <2>2, <2>3 DEF PollJoin
<1>7. ASSUME NEW t \in Tasks, DropHandle(t) PROVE JoinOK'
  <2>1. [chan[t] EXCEPT !.rx = (handle[t] = "done")] \in Channel
    BY ZenonT(60), <1>3 DEF Channel
  <2>2. chan' = Set(chan, t, [chan[t] EXCEPT !.rx = (handle[t] = "done")])
    BY Zenon, <1>7 DEF DropHandle, Set
  <2> QED
    BY Zenon, <1>7, <1>2, <2>1, <2>2 DEF DropHandle
<1>8. ASSUME NEW t \in Tasks, NEW k \in {"async", "blocking"}, Spawn(t, k) PROVE JoinOK'
  BY Zenon, <1>8, <1>2 DEF Spawn
<1>9. ASSUME NEW t \in Tasks, RunnerStep(t), ~Send(t) PROVE UNCHANGED joinVars
  BY ZenonT(60), <1>9 DEF RunnerStep, Start, Check, Poll, Wait, StartBlocking, CallClosure, RunBlocking, FinishFlag,
              FinishCount, FinishUnhook, joinVars
<1> QED
  BY ZenonT(60), <1>1, <1>4, <1>5, <1>6, <1>7, <1>8, <1>9
  DEF Next, vars, Unblock, WakeFuture, TakeAbortHandle, AbortStore, AbortWake,
      DropAbortHandle

\* The abort handles and the cancelled flags keep their types, and a thread in
\* the middle of abort holds a handle.
LEMMA AbortShape == ASSUME ShapeOK, [Next]_vars PROVE AbortOK'
<1> USE TasksAssumption DEF AbortOK
<1>1. CASE UNCHANGED <<abortVars, cancelled>>
  BY Zenon, <1>1 DEF ShapeOK, abortVars
<1>2. ASSUME NEW a \in Aborters, NEW t \in Tasks, TakeAbortHandle(a, t) PROVE AbortOK'
  BY Zenon, <1>2 DEF TakeAbortHandle, ShapeOK
<1>3. ASSUME NEW a \in Aborters, AbortStore(a) PROVE AbortOK'
  <2>1. cancelled' \in [Tasks -> BOOLEAN]
    BY Zenon, <1>3, Update DEF AbortStore, ShapeOK, Set
  <2>2. aborting' \in [Aborters -> BOOLEAN]
    BY Zenon, <1>3, Update DEF AbortStore, ShapeOK
  <2> QED
    BY ZenonT(60), <1>3, <2>1, <2>2 DEF AbortStore, ShapeOK
<1>4. ASSUME NEW a \in Aborters, AbortWake(a) PROVE AbortOK'
  <2>1. aborting' \in [Aborters -> BOOLEAN]
    BY Zenon, <1>4, Update DEF AbortWake, ShapeOK
  <2> QED
    BY Zenon, <1>4, <2>1 DEF AbortWake, ShapeOK
<1>5. ASSUME NEW a \in Aborters, DropAbortHandle(a) PROVE AbortOK'
  BY Zenon, <1>5 DEF DropAbortHandle, ShapeOK
<1>6. ASSUME NEW t \in Tasks, RunnerStep(t) PROVE UNCHANGED <<abortVars, cancelled>>
  BY ZenonT(60), <1>6 DEF RunnerStep, Start, Check, Poll, Wait, StartBlocking, CallClosure, RunBlocking, FinishFlag,
              FinishCount, FinishUnhook, Send
<1> QED
  BY ZenonT(60), <1>1, <1>2, <1>3, <1>4, <1>5, <1>6
  DEF Next, vars, Spawn, Unblock, WakeFuture, Destroy, PollJoin, DropHandle

\* The histories keep their types.
LEMMA HistoryShape == ASSUME ShapeOK, [Next]_vars PROVE HistoryOK'
<1> USE DEF HistoryOK
<1>1. CASE UNCHANGED history
  BY Zenon, <1>1 DEF ShapeOK, history
<1>2. ASSUME NEW t \in Tasks, Poll(t) PROVE HistoryOK'
  BY <1>2 DEF Poll, ShapeOK, Set
<1>3. ASSUME NEW t \in Tasks, RunnerStep(t), ~Poll(t) PROVE UNCHANGED history
  BY ZenonT(60), <1>3 DEF RunnerStep, Start, Check, Wait, StartBlocking, CallClosure, RunBlocking,
              FinishFlag, FinishCount, FinishUnhook, Send
<1>4. ASSUME NEW a \in Aborters, AbortStore(a) PROVE HistoryOK'
  <2>1. holding[a] \in Tasks
    BY Zenon, <1>4 DEF AbortStore, ShapeOK, AbortOK
  <2>2. Fate(pc[holding[a]]) \in Fates
    BY Zenon DEF Fate, Fates
  <2> QED
    BY Zenon, <1>4, <2>1, <2>2, Update DEF AbortStore, ShapeOK, Set
<1> QED
  BY ZenonT(60), <1>1, <1>2, <1>3, <1>4
  DEF Next, vars, Spawn, Unblock, WakeFuture, Destroy, PollJoin, DropHandle,
      TakeAbortHandle, AbortWake, DropAbortHandle

\* All of them together.
LEMMA ShapeStep == ASSUME ShapeOK, [Next]_vars PROVE ShapeOK'
BY Zenon, RunnerShape, WakeShape, JoinShape, AbortShape, HistoryShape DEF ShapeOK
-----------------------------------------------------------------------------
\* A step that leaves u alone, except perhaps that u is aborted.
Same(u) ==
  /\ UNCHANGED <<pc[u], finished[u], alive[u], output[u], chan[u], handle[u], got[u], late[u]>>
  /\ cancelled[u] => cancelled'[u]

\* Such a step keeps the invariant of u.
LEMMA Frame == ASSUME NEW u \in Tasks, TaskInv(u), Same(u) PROVE TaskInv(u)'
BY Zenon DEF TaskInv, Same, Ended, At

\* A step of t's runner, of its JoinHandle or of FFRT is not seen by u.
LEMMA OtherTask ==
  ASSUME ShapeOK, NEW t \in Tasks, NEW u \in Tasks, u # t,
         \/ \E k \in {"async", "blocking"} : Spawn(t, k)
         \/ RunnerStep(t) \/ Unblock(t) \/ WakeFuture(t) \/ Destroy(t)
         \/ PollJoin(t) \/ DropHandle(t)
  PROVE  Same(u)
<1> USE DEF Same, ShapeOK, RunnerOK, JoinOK, HistoryOK, Goto, Set, runnerVars, joinVars, history
<1>1. CASE \E k \in {"async", "blocking"} : Spawn(t, k)
  BY <1>1 DEF Spawn
<1>2. CASE Unblock(t) \/ WakeFuture(t) \/ Destroy(t) \/ PollJoin(t) \/ DropHandle(t)
  <2>1. CASE Unblock(t) \/ WakeFuture(t) \/ Destroy(t)
    BY <2>1 DEF Unblock, WakeFuture, Destroy
  <2>2. CASE PollJoin(t) \/ DropHandle(t)
    BY <2>2 DEF PollJoin, DropHandle
  <2> QED
    BY <1>2, <2>1, <2>2
<1>3. CASE Start(t) \/ Wait(t) \/ FinishFlag(t) \/ FinishCount(t) \/ FinishUnhook(t)
  BY Zenon, <1>3 DEF Start, Wait, FinishFlag, FinishCount, FinishUnhook
<1>4. CASE Check(t) \/ StartBlocking(t) \/ CallClosure(t) \/ RunBlocking(t)
  BY Zenon, <1>4 DEF Check, StartBlocking, CallClosure, RunBlocking, Returns
<1>5. CASE Poll(t)
  BY <1>5 DEF Poll, Returns
<1>6. CASE Send(t)
  BY Zenon, <1>6 DEF Send
<1> QED
  BY ZenonT(60), <1>1, <1>2, <1>3, <1>4, <1>5, <1>6 DEF RunnerStep

\* The abort handles change nothing of a task but its cancelled flag.
LEMMA AborterStep ==
  ASSUME ShapeOK, NEW a \in Aborters, NEW u \in Tasks,
         \/ \E t \in Tasks : TakeAbortHandle(a, t)
         \/ AbortStore(a) \/ AbortWake(a) \/ DropAbortHandle(a)
  PROVE  Same(u)
<1>1. CASE AbortStore(a)
  BY Zenon, <1>1 DEF Same, ShapeOK, AbortOK, Set, AbortStore, runnerVars, joinVars
<1>2. CASE ~AbortStore(a)
  BY ZenonT(60), <1>2 DEF Same, TakeAbortHandle, AbortWake, DropAbortHandle, runnerVars, joinVars,
                        history
<1> QED
  BY Zenon, <1>1, <1>2

\* Each step of a task keeps the invariant of that task.
LEMMA OwnStep ==
  ASSUME ShapeOK, NEW t \in Tasks, TaskInv(t),
         \/ \E k \in {"async", "blocking"} : Spawn(t, k)
         \/ RunnerStep(t) \/ Unblock(t) \/ WakeFuture(t) \/ Destroy(t)
         \/ PollJoin(t) \/ DropHandle(t)
  PROVE  TaskInv(t)'
<1> USE DEF ShapeOK, RunnerOK, JoinOK, AbortOK, TaskInv, Goto, Set, At, Ended, Over, PCs,
            Results, Channel, HistoryOK, history
<1>1. CASE \E k \in {"async", "blocking"} : Spawn(t, k)
  BY SMTT(30), <1>1 DEF Spawn
<1>2. CASE Start(t)
  BY Zenon, <1>2 DEF Start, joinVars
<1>3. CASE Check(t)
  BY <1>3 DEF Check, Returns, joinVars
<1>4. CASE Poll(t)
  BY <1>4 DEF Poll, Returns, joinVars
<1>5. CASE Wait(t)
  BY Zenon, <1>5 DEF Wait, joinVars
<1>6. CASE StartBlocking(t)
  BY <1>6 DEF StartBlocking, Returns, joinVars
<1>17. CASE CallClosure(t)
  BY Zenon, <1>17 DEF CallClosure, joinVars
<1>7. CASE RunBlocking(t)
  BY <1>7 DEF RunBlocking, Returns, joinVars
<1>8. CASE FinishFlag(t)
  BY Zenon, <1>8 DEF FinishFlag, joinVars
<1>9. CASE FinishCount(t)
  BY Zenon, <1>9 DEF FinishCount, joinVars
<1>10. CASE FinishUnhook(t)
  BY Zenon, <1>10 DEF FinishUnhook, joinVars
<1>11. CASE Send(t)
  BY <1>11 DEF Send
<1>12. CASE Unblock(t)
  BY Zenon, <1>12 DEF Unblock, joinVars
<1>13. CASE WakeFuture(t)
  BY Zenon, <1>13 DEF WakeFuture, runnerVars, joinVars
<1>14. CASE Destroy(t)
  BY <1>14 DEF Destroy
<1>15. CASE PollJoin(t)
  <2>1. CASE chan[t].value # "none"
    BY <1>15, <2>1 DEF PollJoin, runnerVars
  <2>2. CASE chan[t].value = "none" /\ ~chan[t].tx
    BY <1>15, <2>2 DEF PollJoin, runnerVars
  <2>3. CASE chan[t].value = "none" /\ chan[t].tx
    <3>1. /\ chan' = [chan EXCEPT ![t].waker = TRUE]
          /\ handle[t] \in {"held", "joining"} /\ handle' = [handle EXCEPT ![t] = "joining"]
          /\ UNCHANGED <<pc, finished, alive, output, cancelled, got, late>>
      BY Zenon, <1>15, <2>3 DEF PollJoin, runnerVars
    <3>2. /\ chan'[t].value = "none" /\ chan'[t].tx /\ chan'[t].rx = chan[t].rx
          /\ handle'[t] = "joining"
      BY <2>3, <3>1
    <3> HIDE DEF ShapeOK
    <3> QED
      BY Zenon, <2>3, <3>1, <3>2
  <2> QED
    BY ZenonT(60), <2>1, <2>2, <2>3
<1>16. CASE DropHandle(t)
  BY <1>16 DEF DropHandle, runnerVars
<1> QED
  BY ZenonT(60), <1>1, <1>2, <1>3, <1>4, <1>5, <1>6, <1>7, <1>8, <1>9, <1>10, <1>11, <1>12, <1>13,
     <1>14, <1>15, <1>16, <1>17 DEF RunnerStep

\* Every step keeps the invariant of every task.
LEMMA TaskInvStep ==
  ASSUME ShapeOK, \A t \in Tasks : TaskInv(t), [Next]_vars
  PROVE  \A t \in Tasks : TaskInv(t)'
<1> TAKE u \in Tasks
<1>1. CASE UNCHANGED vars
  BY Zenon, <1>1, Frame DEF vars, runnerVars, joinVars, history, Same
<1>2. ASSUME NEW a \in Aborters,
             \/ \E t \in Tasks : TakeAbortHandle(a, t)
             \/ AbortStore(a) \/ AbortWake(a) \/ DropAbortHandle(a)
      PROVE  TaskInv(u)'
  BY Zenon, <1>2, AborterStep, Frame
<1>3. ASSUME NEW t \in Tasks,
             \/ \E k \in {"async", "blocking"} : Spawn(t, k)
             \/ RunnerStep(t) \/ Unblock(t) \/ WakeFuture(t) \/ Destroy(t)
             \/ PollJoin(t) \/ DropHandle(t)
      PROVE  TaskInv(u)'
  BY Zenon, <1>3, OtherTask, OwnStep, Frame
<1> QED
  BY Zenon, <1>1, <1>2, <1>3 DEF Next
-----------------------------------------------------------------------------
\* A step that aborts nobody keeps u where its first abort left it, if whoever
\* heeds an abort goes on doing so and nobody who was too late begins to.
Settled(u) ==
  /\ cancelled[u] /\ pc[u] \in Heeded \cup {"destroyed"} =>
       pc'[u] \in Heeded \cup {"destroyed"} \/ output'[u] = "cancelled"
  /\ output[u] = "cancelled" => output'[u] = "cancelled"
  /\ pc[u] \in TooLate /\ output[u] # "cancelled" => pc'[u] \in TooLate /\ output'[u] # "cancelled"

LEMMA SettledSteps ==
  ASSUME ShapeOK, NEW t \in Tasks, TaskInv(t),
         \/ \E k \in {"async", "blocking"} : Spawn(t, k)
         \/ RunnerStep(t) \/ Unblock(t) \/ WakeFuture(t) \/ Destroy(t)
         \/ PollJoin(t) \/ DropHandle(t)
  PROVE  Settled(t) /\ UNCHANGED <<cancelled, fate>>
<1> USE DEF ShapeOK, RunnerOK, Settled, Goto, Set, At, Over, Heeded, TooLate, history
<1>1. CASE \E k \in {"async", "blocking"} : Spawn(t, k)
  BY Zenon, <1>1 DEF Spawn
<1>2. CASE Start(t) \/ Wait(t) \/ Unblock(t) \/ Destroy(t)
  BY Zenon, <1>2 DEF Start, Wait, Unblock, Destroy
<1>3. CASE Check(t)
  BY Zenon, <1>3 DEF Check, Returns, TaskInv
<1>4. CASE Poll(t)
  BY Zenon, <1>4 DEF Poll, Returns, TaskInv
<1>5. CASE StartBlocking(t)
  BY Zenon, <1>5 DEF StartBlocking, Returns, TaskInv
<1>6. CASE CallClosure(t)
  BY Zenon, <1>6 DEF CallClosure
<1>7. CASE RunBlocking(t)
  BY Zenon, <1>7 DEF RunBlocking, Returns, TaskInv
<1>8. CASE FinishFlag(t) \/ FinishCount(t) \/ FinishUnhook(t) \/ Send(t)
  BY Zenon, <1>8 DEF FinishFlag, FinishCount, FinishUnhook, Send
<1>9. CASE WakeFuture(t) \/ PollJoin(t) \/ DropHandle(t)
  BY Zenon, <1>9 DEF WakeFuture, PollJoin, DropHandle, runnerVars
<1> QED
  BY Zenon, <1>1, <1>2, <1>3, <1>4, <1>5, <1>6, <1>7, <1>8, <1>9 DEF RunnerStep

\* Every step keeps what the first abort of every task decided.
LEMMA AbortInvStep ==
  ASSUME ShapeOK, \A t \in Tasks : TaskInv(t) /\ AbortInv(t), [Next]_vars
  PROVE  \A t \in Tasks : AbortInv(t)'
<1> TAKE u \in Tasks
<1>1. ASSUME Settled(u), UNCHANGED <<cancelled, fate>> PROVE AbortInv(u)'
  BY Zenon, <1>1 DEF Settled, AbortInv
<1>2. ASSUME UNCHANGED <<pc, output, cancelled, fate>> PROVE AbortInv(u)'
  BY Zenon, <1>2 DEF AbortInv
<1>3. ASSUME NEW t \in Tasks,
             \/ \E k \in {"async", "blocking"} : Spawn(t, k)
             \/ RunnerStep(t) \/ Unblock(t) \/ WakeFuture(t) \/ Destroy(t)
             \/ PollJoin(t) \/ DropHandle(t)
      PROVE  AbortInv(u)'
  <2>1. Settled(t) /\ UNCHANGED <<cancelled, fate>>
    BY Zenon, <1>3, SettledSteps
  <2>2. u # t => Same(u)
    BY Zenon, <1>3, OtherTask
  <2>3. Settled(u)
    BY Zenon, <2>1, <2>2 DEF Same, Settled
  <2> QED
    BY Zenon, <1>1, <2>1, <2>3
<1>4. ASSUME NEW a \in Aborters, AbortStore(a) PROVE AbortInv(u)'
  <2> DEFINE t == holding[a]
  <2>1. /\ t \in Tasks /\ UNCHANGED <<pc, output>> /\ cancelled' = Set(cancelled, t, TRUE)
        /\ fate' = IF cancelled[t] THEN fate ELSE Set(fate, t, Fate(pc[t]))
    BY Zenon, <1>4 DEF AbortStore, ShapeOK, AbortOK, runnerVars
  <2> HIDE DEF t
  <2>2. cancelled \in [Tasks -> BOOLEAN] /\ fate \in [Tasks -> Fates]
    BY Zenon DEF ShapeOK, AbortOK, HistoryOK
  <2>3. CASE cancelled[t]
    <3>1. cancelled' = cancelled
      BY Zenon, <2>1, <2>2, <2>3 DEF Set
    <3> QED
      BY Zenon, <1>2, <2>1, <2>3, <3>1
  <2>4. CASE ~cancelled[t] /\ u # t
    <3>1. cancelled'[u] = cancelled[u] /\ fate'[u] = fate[u]
      BY Zenon, <2>1, <2>2, <2>4 DEF Set
    <3> QED
      BY Zenon, <2>1, <3>1 DEF AbortInv
  <2>5. CASE ~cancelled[t] /\ u = t
    <3>1. cancelled'[u] = TRUE /\ fate'[u] = Fate(pc[u]) /\ output[u] # "cancelled"
      BY Zenon, <2>1, <2>2, <2>5 DEF Set, TaskInv
    <3>2. /\ Fate(pc[u]) # "never"
          /\ Fate(pc[u]) = "heeded" => pc[u] \in Heeded
          /\ Fate(pc[u]) = "late" => pc[u] \in TooLate
      BY Zenon DEF Fate
    <3> QED
      BY Zenon, <2>1, <3>1, <3>2 DEF AbortInv
  <2> QED
    BY Zenon, <2>3, <2>4, <2>5
<1>5. ASSUME NEW a \in Aborters,
             \/ \E t \in Tasks : TakeAbortHandle(a, t)
             \/ AbortWake(a) \/ DropAbortHandle(a)
      PROVE  AbortInv(u)'
  BY Zenon, <1>2, <1>5 DEF TakeAbortHandle, AbortWake, DropAbortHandle, runnerVars, history
<1>6. CASE UNCHANGED vars
  BY Zenon, <1>2, <1>6 DEF vars, runnerVars, history
<1> QED
  BY Zenon, <1>3, <1>4, <1>5, <1>6 DEF Next
-----------------------------------------------------------------------------
\* Abort handles belong to tasks that were spawned.
LEMMA HoldingStep ==
  ASSUME IInv, [Next]_vars
  PROVE  \A a \in Aborters : holding'[a] \in Tasks => pc'[holding'[a]] # "none"
<1> TAKE a \in Aborters
<1>1. ASSUME NEW t \in Tasks, pc[t] # "none" PROVE pc'[t] # "none"
  <2> USE DEF IInv, TypeOK, ShapeOK, RunnerOK, Goto, Set, At, runnerVars
  <2>1. ASSUME NEW u \in Tasks, RunnerStep(u) PROVE pc'[t] # "none"
    BY ZenonT(20), <1>1, <2>1
    DEF RunnerStep, Start, Check, Poll, Wait, StartBlocking, CallClosure, RunBlocking, FinishFlag,
        FinishCount, FinishUnhook, Send, Returns
  <2>2. ASSUME NEW u \in Tasks, NEW k \in {"async", "blocking"},
               Spawn(u, k) \/ Unblock(u) \/ Destroy(u)
        PROVE  pc'[t] # "none"
    BY Zenon, <1>1, <2>2 DEF Spawn, Unblock, Destroy
  <2>3. CASE UNCHANGED pc
    BY Zenon, <1>1, <2>3
  <2> QED
    BY Zenon, <2>1, <2>2, <2>3
    DEF Next, vars, WakeFuture, PollJoin, DropHandle, TakeAbortHandle, AbortStore,
        AbortWake, DropAbortHandle
<1>2. ASSUME NEW b \in Aborters, NEW t \in Tasks, TakeAbortHandle(b, t)
      PROVE  holding'[a] \in Tasks => pc[holding'[a]] # "none"
  BY <1>2 DEF TakeAbortHandle, IInv, TypeOK, ShapeOK, AbortOK, TaskInv, At
<1>3. ASSUME NEW b \in Aborters, DropAbortHandle(b)
      PROVE  holding'[a] \in Tasks => pc[holding'[a]] # "none"
  BY Zenon, <1>3, TasksAssumption DEF DropAbortHandle, IInv, TypeOK, ShapeOK, AbortOK, At
<1>4. ASSUME NEW t \in Tasks, RunnerStep(t) PROVE UNCHANGED holding
  BY ZenonT(60), <1>4 DEF RunnerStep, Start, Check, Poll, Wait, StartBlocking, CallClosure, RunBlocking, FinishFlag,
              FinishCount, FinishUnhook, Send, abortVars
<1>5. holding'[a] \in Tasks => pc[holding'[a]] # "none"
  BY ZenonT(60), <1>2, <1>3, <1>4
  DEF IInv, At, Next, vars, abortVars, Spawn, Unblock, WakeFuture, Destroy, PollJoin,
      DropHandle, AbortStore, AbortWake
<1> QED
  BY Zenon, <1>1, <1>5

\* What a step of the counter and a step of the counted set have to do with
\* each other.
LEMMA CountFacts ==
  ASSUME ActiveTasksCounted
  PROVE  /\ IsFiniteSet(Counted) /\ active \in Nat
         /\ Counted' = Counted /\ active' = active => ActiveTasksCounted'
         /\ \A t \in Tasks : t \notin Counted /\ Counted' = Counted \cup {t}
                             /\ active' = active + 1 => ActiveTasksCounted'
         /\ \A t \in Tasks : t \in Counted /\ Counted' = Counted \ {t}
                             /\ active' = active - 1 => ActiveTasksCounted'
<1>1. Counted \subseteq Tasks
  BY Zenon DEF Counted
<1>2. IsFiniteSet(Counted)
  BY Zenon, <1>1, TasksAssumption, FS_Subset
<1> QED
  BY <1>2, FS_CardinalityType, FS_AddElement, FS_RemoveElement DEF ActiveTasksCounted

\* Every step counts a task up when it is spawned and down once, when it
\* finishes or when the last reference to a destroyed task goes.
LEMMA CountStep ==
  ASSUME IInv, [Next]_vars
  PROVE  ActiveTasksCounted'
<1> DEFINE Uncounted == {"none", "unhook", "send", "done", "destroyed"}
<1>1. ActiveTasksCounted /\ ShapeOK /\ \A t \in Tasks : TaskInv(t)
  BY Zenon DEF IInv, TypeOK
<1>2. ASSUME UNCHANGED active, NEW t \in Tasks,
             \A u \in Tasks \ {t} : pc'[u] = pc[u],
             pc[t] \in Uncounted <=> pc'[t] \in Uncounted,
             pc[t] = "destroyed" <=> pc'[t] = "destroyed",
             \A u \in Tasks : pc[u] = "destroyed" => (Referenced(u)' <=> Referenced(u))
      PROVE  ActiveTasksCounted'
  <2>1. Counted' = Counted
    BY Zenon, <1>2 DEF Counted, At
  <2> QED
    BY Zenon, <1>1, <1>2, <2>1, CountFacts
<1>3. ASSUME NEW t \in Tasks, NEW k \in {"async", "blocking"}, Spawn(t, k)
      PROVE  ActiveTasksCounted'
  <2>1. t \notin Counted /\ Counted' = Counted \cup {t}
    BY <1>1, <1>3 DEF Spawn, Counted, At, Goto, Set, Referenced, ShapeOK, RunnerOK, JoinOK,
                      abortVars
  <2> QED
    BY Zenon, <1>1, <1>3, <2>1, CountFacts DEF Spawn
<1>4. ASSUME NEW t \in Tasks, FinishCount(t) PROVE ActiveTasksCounted'
  <2>1. t \in Counted /\ Counted' = Counted \ {t}
    BY Zenon, <1>1, <1>4 DEF FinishCount, Counted, At, Goto, Referenced, ShapeOK, RunnerOK,
                      joinVars, abortVars
  <2> QED
    BY Zenon, <1>1, <1>4, <2>1, CountFacts DEF FinishCount
<1>5. ASSUME NEW t \in Tasks, RunnerStep(t) \/ Unblock(t), ~FinishCount(t)
      PROVE  ActiveTasksCounted'
  <2> USE <1>1 DEF At, Goto, Set, Referenced, ShapeOK, RunnerOK, joinVars, abortVars
  <2>1. CASE Start(t) \/ Wait(t) \/ FinishFlag(t) \/ FinishUnhook(t) \/ Unblock(t)
    BY <2>1, <1>2 DEF Start, Wait, FinishFlag, FinishUnhook, Unblock
  <2>2. CASE Check(t)
    BY <2>2, <1>2 DEF Check, Returns
  <2>3. CASE Poll(t)
    BY <2>3, <1>2 DEF Poll, Returns
  <2>4. CASE StartBlocking(t) \/ CallClosure(t) \/ RunBlocking(t)
    BY <2>4, <1>2 DEF StartBlocking, CallClosure, RunBlocking, Returns
  <2>5. CASE Send(t)
    BY Zenon, <2>5, <1>2 DEF Send
  <2> QED
    BY Zenon, <1>5, <2>1, <2>2, <2>3, <2>4, <2>5 DEF RunnerStep
<1>6. ASSUME NEW t \in Tasks, Destroy(t) PROVE ActiveTasksCounted'
  <2> USE <1>1, <1>6 DEF Destroy
  <2>1. /\ t \in Counted /\ Referenced(t) /\ ~finished[t]
        /\ pc'[t] = "destroyed"
    BY Zenon DEF Counted, At, Goto, Referenced, ShapeOK, RunnerOK, TaskInv
  <2>2. \A u \in Tasks \ {t} : u \in Counted' <=> u \in Counted
    BY Zenon DEF Counted, At, Goto, Referenced, ShapeOK, RunnerOK, abortVars
  <2>3. t \in Counted' <=> Referenced(t)'
    BY Zenon, <2>1 DEF Counted, At
  <2>4. CASE Referenced(t)'
    <3>1. Counted' = Counted
      BY Zenon, <2>1, <2>2, <2>3, <2>4 DEF Counted
    <3> QED
      BY Zenon, <2>4, <3>1, CountFacts DEF Release
  <2>5. CASE ~Referenced(t)'
    <3>1. Counted' = Counted \ {t}
      BY Zenon, <2>2, <2>3, <2>5 DEF Counted
    <3> QED
      BY Zenon, <2>1, <2>5, <3>1, CountFacts DEF Release
  <2> QED
    BY Zenon, <2>4, <2>5
\* The two steps that give up a reference without moving the runner.
<1>7. ASSUME NEW t \in Tasks, Release(t), UNCHANGED pc, Referenced(t), pc[t] # "none",
             \A u \in Tasks \ {t} : Referenced(u)' <=> Referenced(u)
      PROVE  ActiveTasksCounted'
  <2>1. \A u \in Tasks \ {t} : u \in Counted' <=> u \in Counted
    BY Zenon, <1>7 DEF Counted, At
  <2>2. CASE Referenced(t)' \/ pc[t] # "destroyed"
    <3>1. Counted' = Counted
      BY Zenon, <1>7, <2>1, <2>2 DEF Counted, At
    <3>2. Referenced(t)' \/ finished[t]
      BY Zenon, <1>1, <1>7, <2>2 DEF Referenced, TaskInv, ShapeOK, RunnerOK, PCs
    <3> QED
      BY Zenon, <1>1, <1>7, <3>1, <3>2, CountFacts DEF Release
  <2>3. CASE ~Referenced(t)' /\ pc[t] = "destroyed"
    <3>1. t \in Counted /\ Counted' = Counted \ {t}
      BY Zenon, <1>7, <2>1, <2>3 DEF Counted, At
    <3>2. ~finished[t]
      BY Zenon, <1>1, <2>3 DEF TaskInv
    <3> QED
      BY Zenon, <1>1, <1>7, <2>3, <3>1, <3>2, CountFacts DEF Release
  <2> QED
    BY Zenon, <2>2, <2>3
<1>8. ASSUME NEW t \in Tasks, DropHandle(t) PROVE ActiveTasksCounted'
  <2>1. Referenced(t) /\ pc[t] # "none"
    BY Zenon, <1>1, <1>8 DEF DropHandle, Referenced, TaskInv, At
  <2>2. \A u \in Tasks \ {t} : Referenced(u)' <=> Referenced(u)
    BY Zenon, <1>1, <1>8 DEF DropHandle, Referenced, Set, ShapeOK, JoinOK, runnerVars, abortVars
  <2> QED
    BY Zenon, <1>8, <2>1, <2>2, <1>7 DEF DropHandle, runnerVars
<1>9. ASSUME NEW a \in Aborters, DropAbortHandle(a) PROVE ActiveTasksCounted'
  <2>1. PICK t \in Tasks : /\ holding[a] = t /\ Release(t)
                          /\ holding' = [holding EXCEPT ![a] = NoTask]
                          /\ UNCHANGED <<runnerVars, joinVars>>
    BY Zenon, <1>9 DEF DropAbortHandle
  <2>2. Referenced(t) /\ pc[t] # "none"
    BY Zenon, <2>1 DEF Referenced, IInv, At
  <2>3. \A u \in Tasks \ {t} : Referenced(u)' <=> Referenced(u)
    BY Zenon, <1>1, <2>1, TasksAssumption
    DEF Referenced, Set, ShapeOK, AbortOK, runnerVars, joinVars
  <2> QED
    BY Zenon, <2>1, <2>2, <2>3, <1>7 DEF runnerVars
<1>10. ASSUME UNCHANGED <<pc, active>>, \A u \in Tasks : Referenced(u)' <=> Referenced(u)
       PROVE  ActiveTasksCounted'
  <2>1. Counted' = Counted
    BY Zenon, <1>10 DEF Counted, At
  <2> QED
    BY Zenon, <1>1, <1>10, <2>1, CountFacts
<1>11. ASSUME NEW t \in Tasks, WakeFuture(t) \/ PollJoin(t) PROVE ActiveTasksCounted'
  BY <1>1, <1>10, <1>11 DEF WakeFuture, PollJoin, Referenced, Set, ShapeOK, JoinOK,
                            runnerVars, joinVars, abortVars
<1>12. ASSUME NEW a \in Aborters, NEW t \in Tasks, TakeAbortHandle(a, t)
       PROVE  ActiveTasksCounted'
  BY Zenon, <1>1, <1>10, <1>12, TasksAssumption
  DEF TakeAbortHandle, Referenced, ShapeOK, AbortOK, runnerVars, joinVars
<1>13. ASSUME NEW a \in Aborters, AbortStore(a) \/ AbortWake(a) PROVE ActiveTasksCounted'
  BY ZenonT(60), <1>10, <1>13 DEF AbortStore, AbortWake, Referenced, runnerVars, joinVars
<1>14. CASE UNCHANGED vars
  BY Zenon, <1>10, <1>14 DEF vars, Referenced, runnerVars, joinVars, abortVars
<1> QED
  BY Zenon, <1>3, <1>4, <1>5, <1>6, <1>8, <1>9, <1>11, <1>12, <1>13, <1>14 DEF Next, RunnerStep
-----------------------------------------------------------------------------
\* IInv is an invariant: type correctness, what holds at each point of a
\* runner, and the count of active tasks.
THEOREM TaskInvariant == Spec => []IInv
<1>1. Init => IInv
  <2> SUFFICES ASSUME Init PROVE IInv
    BY Zenon
  <2>1. AllFalse \in [Tasks -> BOOLEAN]
    BY ZenonT(60) DEF AllFalse
  <2>2. \A t \in Tasks : AllFalse[t] = FALSE
    BY ZenonT(60) DEF AllFalse
  <2>3. [value |-> "none", tx |-> TRUE, rx |-> TRUE, waker |-> FALSE] \in Channel
    BY Zenon DEF Channel
  <2>4. RunnerOK /\ WakeOK
    BY Zenon, <2>1 DEF Init, RunnerOK, WakeOK, PCs
  <2>5. JoinOK
    BY Zenon, <2>1, <2>3 DEF Init, JoinOK
  <2>6. AbortOK
    <3>1. aborting \in [Aborters -> BOOLEAN] /\ \A a \in Aborters : ~aborting[a]
      BY ZenonT(60) DEF Init
    <3> QED
      BY Zenon, <2>1, <3>1 DEF Init, AbortOK
  <2>7. \A t \in Tasks : TaskInv(t)
    BY <2>2 DEF Init, TaskInv, At, Ended, Over, PCs, Results
  <2>10. \A t \in Tasks : AbortInv(t)
    BY Zenon, <2>2 DEF Init, AbortInv
  <2>11. HistoryOK
    BY DEF Init, HistoryOK, Fates
  <2>8. \A a \in Aborters : holding[a] \notin Tasks
    BY Zenon, TasksAssumption DEF Init
  <2>9. ActiveTasksCounted
    <3>1. Counted = {}
      BY Zenon DEF Init, Counted, At
    <3> QED
      BY Zenon, <3>1, FS_EmptySet DEF Init, ActiveTasksCounted
  <2> QED
    BY Zenon, <2>4, <2>5, <2>6, <2>7, <2>8, <2>9, <2>10, <2>11 DEF Init, IInv, TypeOK, ShapeOK
<1>2. IInv /\ [Next]_vars => IInv'
  <2> SUFFICES ASSUME IInv, [Next]_vars PROVE IInv'
    BY Zenon
  <2>1. ShapeOK'
    BY Zenon, ShapeStep DEF IInv, TypeOK
  <2>2. \A t \in Tasks : TaskInv(t)'
    BY Zenon, TaskInvStep DEF IInv, TypeOK
  <2>5. \A t \in Tasks : AbortInv(t)'
    BY Zenon, AbortInvStep DEF IInv, TypeOK
  <2>3. ActiveTasksCounted'
    BY Zenon, CountStep
  <2>4. active' \in Nat
    <3>1. Counted' \subseteq Tasks
      BY Zenon DEF Counted
    <3> QED
      BY Zenon, <2>3, <3>1, TasksAssumption, FS_Subset, FS_CardinalityType DEF ActiveTasksCounted
  <2> QED
    BY Zenon, <2>1, <2>2, <2>3, <2>4, <2>5, HoldingStep DEF IInv, TypeOK, At
<1> QED
  BY <1>1, <1>2, PTL DEF Spec

\* When is_finished is true, or the JoinHandle has returned, the future has
\* been dropped.
THEOREM FinishedTasksAreDropped == Spec => []FinishedMeansDropped
<1>1. IInv => FinishedMeansDropped
  BY Zenon DEF IInv, FinishedMeansDropped, TaskInv, TypeOK, ShapeOK, RunnerOK, JoinOK, At, Over, PCs,
         Results
<1> QED
  BY <1>1, TaskInvariant, PTL

\* The JoinHandle returns what the runner produced, and "cancelled" only for
\* tasks that were aborted.
THEOREM JoinResultIsFaithful == Spec => []ResultIsFaithful
<1>1. IInv => ResultIsFaithful
  BY Zenon DEF IInv, ResultIsFaithful, TaskInv, At
<1> QED
  BY <1>1, TaskInvariant, PTL

\* At most one poll of a future begins after its task was aborted.
THEOREM AbortStopsPolling == Spec => []StopsAtPollBoundary
<1>1. IInv => StopsAtPollBoundary
  BY DEF IInv, StopsAtPollBoundary, TaskInv
<1> QED
  BY <1>1, TaskInvariant, PTL

\* The process-wide counter of active tasks is exact.
THEOREM CounterIsExact == Spec => []ActiveTasksCounted
<1>1. IInv => ActiveTasksCounted
  BY Zenon DEF IInv
<1> QED
  BY <1>1, TaskInvariant, PTL

\* Where the runner was when the first abort came decides whether the JoinHandle
\* says "cancelled": never once a blocking closure is past its look at the flag
\* (spawn_blocking_named, poll_once).
THEOREM AbortDecidesTheResult == Spec => []AbortDecides
<1>1. IInv => AbortDecides
  BY Zenon DEF IInv, AbortDecides, TaskInv, AbortInv, At, Heeded, Results
<1> QED
  BY <1>1, TaskInvariant, PTL
-----------------------------------------------------------------------------
(* Queues of tasks.                                                        *)

\* Queues without repetitions: adding at the end, taking from the front, and one
\* after the other.
LEMMA QueueFacts ==
  ASSUME NEW S, NEW q \in Seq(S), IsInjective(q)
  PROVE  /\ \A t \in S \ Range(q) : /\ IsInjective(Append(q, t))
                                    /\ Range(Append(q, t)) = Range(q) \cup {t}
         /\ q # <<>> => /\ Head(q) \in Range(q) /\ IsInjective(Tail(q))
                        /\ Range(Tail(q)) = Range(q) \ {Head(q)}
         /\ \A r \in Seq(S) : IsInjective(r) /\ Range(q) \cap Range(r) = {} =>
              IsInjective(q \o r) /\ Range(q \o r) = Range(q) \cup Range(r)
<1>1. ASSUME NEW t \in S \ Range(q)
      PROVE  IsInjective(Append(q, t)) /\ Range(Append(q, t)) = Range(q) \cup {t}
  <2>1. /\ DOMAIN Append(q, t) = 1..(Len(q) + 1) /\ Append(q, t)[Len(q) + 1] = t
        /\ DOMAIN q = 1..Len(q) /\ Len(q) \in Nat
        /\ \A i \in 1..Len(q) : Append(q, t)[i] = q[i]
    BY <1>1
  <2> DEFINE a == Append(q, t)
  <2> HIDE DEF a
  <2>2. IsInjective(a)
    BY <2>1, <1>1 DEF IsInjective, Range, a
  <2>3. Range(a) = Range(q) \cup {t}
    <3>1. Range(a) \subseteq Range(q) \cup {t}
      BY <2>1 DEF Range, a
    <3>2. Range(q) \subseteq Range(a) /\ t \in Range(a)
      BY <2>1 DEF Range, a
    <3>3. QED
      BY Zenon, <3>1, <3>2
  <2>4. QED
    BY Zenon, <2>2, <2>3 DEF a
<1>2. ASSUME q # <<>>
      PROVE  /\ Head(q) \in Range(q) /\ IsInjective(Tail(q))
             /\ Range(Tail(q)) = Range(q) \ {Head(q)}
  <2>1. /\ Head(q) = q[1] /\ Len(q) \in Nat \ {0} /\ DOMAIN q = 1..Len(q)
        /\ DOMAIN Tail(q) = 1..(Len(q) - 1)
        /\ \A i \in 1..(Len(q) - 1) : Tail(q)[i] = q[i + 1]
    BY <1>2
  <2> DEFINE a == Tail(q)
  <2> HIDE DEF a
  <2>2. IsInjective(a) /\ Head(q) \in Range(q)
    BY <2>1 DEF IsInjective, Range, a
  <2>3. Range(a) = Range(q) \ {Head(q)}
    <3>1. Range(a) \subseteq Range(q) \ {Head(q)}
      BY <2>1 DEF Range, a, IsInjective
    <3>2. ASSUME NEW x \in Range(q), x # Head(q) PROVE x \in Range(a)
      <4>1. PICK i \in 1..Len(q) : x = q[i]
        BY Zenon, <2>1 DEF Range
      <4>2. i - 1 \in 1..(Len(q) - 1) /\ a[i - 1] = q[i]
        BY <4>1, <3>2, <2>1 DEF a
      <4>3. QED
        BY Zenon, <4>1, <4>2, <2>1 DEF Range, a
    <3>3. QED
      BY Zenon, <3>1, <3>2
  <2>4. QED
    BY Zenon, <2>2, <2>3 DEF a
<1>3. ASSUME NEW r \in Seq(S), IsInjective(r), Range(q) \cap Range(r) = {}
      PROVE  IsInjective(q \o r) /\ Range(q \o r) = Range(q) \cup Range(r)
  <2>1. /\ Len(q) \in Nat /\ DOMAIN q = 1..Len(q) /\ Len(r) \in Nat /\ DOMAIN r = 1..Len(r)
        /\ DOMAIN (q \o r) = 1..(Len(q) + Len(r))
        /\ \A i \in 1..Len(q) : (q \o r)[i] = q[i]
        /\ \A i \in 1..Len(r) : (q \o r)[Len(q) + i] = r[i]
    BY <1>3
  <2> DEFINE a == q \o r
  <2> HIDE DEF a
  <2>2. \A i \in DOMAIN a : i \in 1..Len(q) \/ (i - Len(q) \in 1..Len(r) /\ a[i] = r[i - Len(q)])
    <3> SUFFICES ASSUME NEW i \in DOMAIN a, i \notin 1..Len(q)
                 PROVE  i - Len(q) \in 1..Len(r) /\ a[i] = r[i - Len(q)]
      BY Zenon
    <3>1. i - Len(q) \in 1..Len(r) /\ Len(q) + (i - Len(q)) = i
      BY <2>1 DEF a
    <3>2. QED
      BY Zenon, <2>1, <3>1 DEF a
  <2>3. Range(a) = Range(q) \cup Range(r)
    <3>1. Range(a) \subseteq Range(q) \cup Range(r)
      BY Zenon, <2>1, <2>2 DEF Range, a
    <3>2. Range(q) \subseteq Range(a)
      BY <2>1 DEF Range, a
    <3>3. ASSUME NEW i \in 1..Len(r) PROVE r[i] \in Range(a)
      <4>1. Len(q) + i \in DOMAIN a
        BY <2>1 DEF a
      <4>2. QED
        BY Zenon, <4>1, <2>1 DEF Range, a
    <3>4. QED
      BY Zenon, <3>1, <3>2, <3>3, <2>1 DEF Range
  <2>4. IsInjective(a)
    <3> SUFFICES ASSUME NEW i \in DOMAIN a, NEW j \in DOMAIN a, a[i] = a[j] PROVE i = j
      BY Zenon DEF IsInjective
    <3>1. i \in Int /\ j \in Int
      BY <2>1 DEF a
    <3>2. CASE i \in 1..Len(q) /\ j \in 1..Len(q)
      BY Zenon, <3>2, <2>1 DEF IsInjective, a
    <3>3. CASE i \notin 1..Len(q) /\ j \notin 1..Len(q)
      <4>1. i - Len(q) = j - Len(q)
        BY <3>3, <1>3, <2>1, <2>2 DEF IsInjective
      <4>2. QED
        BY <4>1, <3>1, <2>1
    <3>4. ASSUME NEW k \in DOMAIN a, NEW l \in DOMAIN a, k \in 1..Len(q), l \notin 1..Len(q)
          PROVE  a[k] # a[l]
      <4>1. a[k] \in Range(q)
        BY Zenon, <3>4, <2>1 DEF Range, a
      <4>2. a[l] \in Range(r)
        BY Zenon, <3>4, <2>1, <2>2 DEF Range
      <4>3. QED
        BY Zenon, <4>1, <4>2, <1>3
    <3>5. QED
      BY Zenon, <3>2, <3>3, <3>4
  <2>5. QED
    BY Zenon, <2>3, <2>4 DEF a
<1>4. QED
  BY Zenon, <1>1, <1>2, <1>3

(* LocalSet.                                                               *)

LocalTypeOK ==
  /\ tasks \in Seq(LocalTasks) /\ taken \in Seq(LocalTasks) /\ left \in Nat
  /\ future \in [LocalTasks -> {"none", "held", "gone"}]
  /\ localResult \in [LocalTasks -> Seq({"ok", "panic", "cancelled"})]
  /\ able \subseteq LocalTasks /\ localCancelled \subseteq LocalTasks
  /\ polled \subseteq LocalTasks /\ localWaking \subseteq LocalTasks
  /\ notified \in BOOLEAN /\ run_waker \in {"none", "current", "stale"}
  /\ driver \in {"none", "LocalSet", "RunUntil"} /\ driverAwake \in BOOLEAN
  /\ driverPc \in {"idle", "tasks"} /\ localAlive \in BOOLEAN

\* Tasks are taken for a pass of a driver and are back when it ends; a driver that
\* sleeps has its waker stored.
DriverOK ==
  /\ left <= Len(taken) /\ (driverPc = "idle" => taken = <<>>)
  /\ driverPc = "tasks" => driver # "none"
  /\ driver # "none" => localAlive /\ (driverAwake \/ run_waker = "current")

\* The same as LocalTasksEndOnce, of the two queues by themselves.
QueuesOK ==
  /\ IsInjective(tasks) /\ IsInjective(taken) /\ Range(tasks) \cap Range(taken) = {}
  /\ \A t \in LocalTasks :
       /\ future[t] = "held" <=> t \in Range(tasks) \cup Range(taken)
       /\ Len(localResult[t]) = IF future[t] = "gone" THEN 1 ELSE 0

\* A task that this pass does not come to any more has its waker registered, and
\* if it can go on that waker was called.
Coming(t) == \E i \in 1..left : taken[i] = t
Noticed(t) == t \in polled /\ (t \in able \cup localCancelled => t \in localWaking)
NoticedOK ==
  driver # "none" /\ ~driverAwake /\ (driverPc = "idle" \/ ~notified) =>
    \A t \in LocalTasks : future[t] = "held" => Coming(t) \/ Noticed(t)

LocalIInv == LocalTypeOK /\ DriverOK /\ QueuesOK /\ NoticedOK

\* A LocalSet loses no task and no wake-up: LocalTasksAreRun in every state of
\* LocalSet (LocalSet::poll, poll_tasks, TaskWaker::wake, Drop for LocalSet).
THEOREM LocalSetRunsItsTasks == LocalSpec => []LocalTasksAreRun
<1> USE DEF localVars, localQueues, localEnds, localEvents, localState, localDriver
<1>1. LocalInit => LocalIInv
  <2> SUFFICES ASSUME LocalInit PROVE LocalIInv
    BY Zenon
  <2>1. LocalTypeOK
    <3>1. <<>> \in Seq(LocalTasks) /\ <<>> \in Seq({"ok", "panic", "cancelled"})
      OBVIOUS
    <3>2. QED
      BY Zenon, <3>1 DEF LocalInit, LocalTypeOK
  <2>2. DriverOK /\ NoticedOK
    BY DEF LocalInit, DriverOK, NoticedOK
  <2>3. QueuesOK
    BY DEF LocalInit, QueuesOK, IsInjective, Range
  <2>4. QED
    BY Zenon, <2>1, <2>2, <2>3 DEF LocalIInv
<1>2. LocalIInv /\ [LocalNext]_localVars => LocalIInv'
  <2> SUFFICES ASSUME LocalIInv, [LocalNext]_localVars PROVE LocalIInv'
    BY Zenon
  <2> USE DEF LocalIInv
  <2>1. ASSUME NEW t \in LocalTasks, SpawnLocal(t) PROVE LocalIInv'
    <3>1. LocalTypeOK'
      BY <2>1 DEF SpawnLocal, TakeRunWaker, LocalTypeOK
    <3>2. DriverOK'
      BY Zenon, <2>1 DEF SpawnLocal, TakeRunWaker, DriverOK, LocalTypeOK
    <3>3. QueuesOK'
      <4>1. t \notin Range(tasks) /\ t \notin Range(taken)
        BY Zenon, <2>1 DEF SpawnLocal, QueuesOK
      <4>2. IsInjective(tasks') /\ Range(tasks') = Range(tasks) \cup {t}
        BY Zenon, <2>1, <4>1, QueueFacts DEF SpawnLocal, QueuesOK, LocalTypeOK
      <4>3. UNCHANGED <<taken, localResult>> /\ future[t] = "none"
            /\ future' = [future EXCEPT ![t] = "held"]
        BY Zenon, <2>1 DEF SpawnLocal
      <4>4. QED
        BY <4>1, <4>2, <4>3 DEF QueuesOK, LocalTypeOK
    <3>4. NoticedOK'
      BY Zenon, <2>1 DEF SpawnLocal, TakeRunWaker, NoticedOK, DriverOK
    <3>5. QED
      BY Zenon, <3>1, <3>2, <3>3, <3>4
  <2>2. ASSUME NEW t \in LocalTasks, Event(t) PROVE LocalIInv'
    <3>1. LocalTypeOK'
      BY Zenon, <2>2 DEF Event, Wake, LocalTypeOK
    <3>2. DriverOK' /\ QueuesOK'
      BY Zenon, <2>2 DEF Event, DriverOK, QueuesOK
    <3>3. NoticedOK'
      BY Zenon, <2>2 DEF Event, Wake, NoticedOK, Coming, Noticed
    <3>4. QED
      BY Zenon, <3>1, <3>2, <3>3
  <2>3. ASSUME NEW t \in LocalTasks, AbortLocal(t) PROVE LocalIInv'
    <3>1. LocalTypeOK'
      BY Zenon, <2>3 DEF AbortLocal, Wake, LocalTypeOK
    <3>2. DriverOK' /\ QueuesOK'
      BY Zenon, <2>3 DEF AbortLocal, DriverOK, QueuesOK
    <3>3. NoticedOK'
      BY Zenon, <2>3 DEF AbortLocal, Wake, NoticedOK, Coming, Noticed
    <3>4. QED
      BY Zenon, <3>1, <3>2, <3>3
  <2>4. ASSUME NEW t \in LocalTasks, WakeRunWaker(t) PROVE LocalIInv'
    <3>1. LocalTypeOK'
      BY Zenon, <2>4 DEF WakeRunWaker, TakeRunWaker, LocalTypeOK
    <3>2. DriverOK' /\ QueuesOK'
      BY Zenon, <2>4 DEF WakeRunWaker, TakeRunWaker, DriverOK, QueuesOK
    <3>3. NoticedOK'
      BY Zenon, <2>4 DEF WakeRunWaker, TakeRunWaker, NoticedOK, DriverOK
    <3>4. QED
      BY Zenon, <3>1, <3>2, <3>3
  <2>5. ASSUME NEW d \in {"LocalSet", "RunUntil"}, Drive(d) PROVE LocalIInv'
    BY Zenon, <2>5 DEF Drive, LocalTypeOK, DriverOK, QueuesOK, NoticedOK
  <2>6. CASE StartPoll
    <3>1. Len(tasks) \in Nat /\ taken = <<>> /\ driver # "none"
      BY <2>6 DEF StartPoll, LocalTypeOK, DriverOK
    <3>2. LocalTypeOK' /\ DriverOK'
      <4>1. <<>> \in Seq(LocalTasks)
        OBVIOUS
      <4>2. LocalTypeOK'
        BY Zenon, <2>6, <3>1, <4>1 DEF StartPoll, Stored, LocalTypeOK
      <4>3. DriverOK'
        BY <2>6, <3>1 DEF StartPoll, Stored, DriverOK
      <4>4. QED
        BY Zenon, <4>2, <4>3
    <3>3. Range(<<>>) = {} /\ IsInjective(<<>>)
      BY DEF Range, IsInjective
    <3>4. QueuesOK'
      BY Zenon, <2>6, <3>1, <3>3 DEF StartPoll, QueuesOK
    <3>5. NoticedOK'
      <4>1. \A t \in Range(tasks) : \E i \in 1..Len(tasks) : tasks[i] = t
        BY DEF Range, LocalTypeOK
      <4>2. QED
        BY Zenon, <2>6, <3>1, <3>3, <4>1 DEF StartPoll, QueuesOK, NoticedOK, Coming
    <3>6. QED
      BY Zenon, <3>2, <3>4, <3>5
  <2>7. CASE RunUntilReady
    BY Zenon, <2>7 DEF RunUntilReady, LocalTypeOK, DriverOK, QueuesOK, NoticedOK
  <2>8. CASE DropDriver
    BY Zenon, <2>8 DEF DropDriver, LocalTypeOK, DriverOK, QueuesOK, NoticedOK
  <2>9. ASSUME NEW r \in {"ok", "panic", "pending", "cancelled"}, PollTask(r) PROVE LocalIInv'
    <3>0. PICK t \in LocalTasks : t = Head(taken)
      BY <2>9 DEF PollTask, LocalTypeOK, DriverOK
    <3>1. taken # <<>> /\ left - 1 \in Nat /\ left - 1 <= Len(Tail(taken)) /\ Len(taken) \in Nat
          /\ Tail(taken) \in Seq(LocalTasks) /\ t = taken[1]
          /\ Len(Tail(taken)) = Len(taken) - 1
      BY <2>9, <3>0 DEF PollTask, LocalTypeOK, DriverOK
    <3>2. /\ t \in Range(taken) /\ IsInjective(Tail(taken))
          /\ Range(Tail(taken)) = Range(taken) \ {t} /\ future[t] = "held"
      BY <3>0, <3>1, QueueFacts DEF QueuesOK, LocalTypeOK
    <3>3. /\ polled' = polled \cup {t} /\ able' = able \ {t} /\ left' = left - 1
          /\ UNCHANGED <<tasks, localCancelled, localWaking, localState, localDriver, localAlive>>
      BY Zenon, <2>9, <3>0 DEF PollTask
    <3>4. \/ /\ r # "pending" /\ FinishLocal(t, r) /\ taken' = Tail(taken)
          \/ /\ r = "pending" /\ t \notin localCancelled /\ taken' = Append(Tail(taken), t)
             /\ UNCHANGED localEnds
      BY Zenon, <2>9, <3>0 DEF PollTask
    <3>5. \A i \in 1..(left - 1) : taken'[i] = taken[i + 1]
      <4>1. \A i \in 1..(left - 1) : i \in 1..Len(Tail(taken)) /\ Tail(taken)[i] = taken[i + 1]
        BY <3>1 DEF LocalTypeOK
      <4>2. QED
        BY <3>1, <3>4, <4>1
    <3>6. \A x \in LocalTasks : x # t /\ Coming(x) => Coming(x)'
      <4> SUFFICES ASSUME NEW x \in LocalTasks, x # t, NEW i \in 1..left, taken[i] = x
                   PROVE  \E j \in 1..left' : taken'[j] = x
        BY Zenon DEF Coming
      <4>1. left \in Nat /\ i # 1
        BY Zenon, <3>1 DEF LocalTypeOK
      <4>2. i - 1 \in 1..(left - 1) /\ (i - 1) + 1 = i
        BY <4>1
      <4>3. taken'[i - 1] = taken[i]
        BY Zenon, <3>5, <4>2
      <4>4. QED
        BY Zenon, <3>3, <4>2, <4>3
    <3>7. CASE r # "pending" /\ FinishLocal(t, r) /\ taken' = Tail(taken)
      <4>1. Append(localResult[t], r) \in Seq({"ok", "panic", "cancelled"})
            /\ Len(Append(localResult[t], r)) = Len(localResult[t]) + 1
        <5>1. localResult[t] \in Seq({"ok", "panic", "cancelled"}) /\ r \in {"ok", "panic", "cancelled"}
          BY Zenon, <2>9, <3>7 DEF LocalTypeOK
        <5>2. QED
          BY <5>1
      <4>2. LocalTypeOK'
        BY Zenon, <3>1, <3>3, <3>7, <4>1 DEF FinishLocal, LocalTypeOK
      <4>3. DriverOK'
        <5>1. left' <= Len(taken') /\ driverPc' = "tasks"
          BY Zenon, <3>1, <3>3, <3>7, <2>9 DEF PollTask
        <5>2. QED
          BY Zenon, <5>1, <3>3 DEF DriverOK
      <4>4. QueuesOK'
        <5>1. Len(localResult'[t]) = 1 /\ future'[t] = "gone"
          <6>1. localResult'[t] = Append(localResult[t], r) /\ future'[t] = "gone"
            BY Zenon, <3>7 DEF FinishLocal, LocalTypeOK
          <6>2. Len(localResult[t]) = 0
            BY Zenon, <3>2 DEF QueuesOK
          <6>3. QED
            BY <4>1, <6>1, <6>2
        <5>2. \A x \in LocalTasks : x # t => future'[x] = future[x]
                                             /\ localResult'[x] = localResult[x]
          BY Zenon, <3>7 DEF FinishLocal, LocalTypeOK
        <5>3. IsInjective(tasks') /\ IsInjective(taken') /\ Range(tasks') \cap Range(taken') = {}
              /\ t \notin Range(tasks')
          BY Zenon, <3>2, <3>3, <3>7 DEF QueuesOK
        <5>4. QED
          BY <5>1, <5>2, <5>3, <3>2, <3>3, <3>7 DEF QueuesOK
      <4>5. NoticedOK'
        <5>1. future'[t] # "held" /\ \A x \in LocalTasks : x # t => future'[x] = future[x]
          BY Zenon, <3>1, <3>7 DEF FinishLocal, LocalTypeOK
        <5>2. \A x \in LocalTasks : x # t /\ Noticed(x) => Noticed(x)'
          BY Zenon, <3>3 DEF Noticed
        <5>3. QED
          BY Zenon, <5>1, <5>2, <3>3, <3>6 DEF NoticedOK
      <4>6. QED
        BY Zenon, <4>2, <4>3, <4>4, <4>5
    <3>8. CASE r = "pending" /\ t \notin localCancelled /\ taken' = Append(Tail(taken), t)
               /\ UNCHANGED localEnds
      <4>1. taken' \in Seq(LocalTasks) /\ Len(taken') = Len(taken)
        BY <3>1, <3>8
      <4>2. LocalTypeOK'
        BY Zenon, <3>1, <3>3, <3>8, <4>1 DEF LocalTypeOK
      <4>3. DriverOK'
        BY <3>1, <3>3, <4>1, <2>9 DEF DriverOK, PollTask
      <4>4. QueuesOK'
        <5>1. IsInjective(taken') /\ Range(taken') = Range(taken)
          <6>1. t \in LocalTasks \ Range(Tail(taken))
            BY Zenon, <3>1, <3>2
          <6>2. \A x \in LocalTasks \ Range(Tail(taken)) :
                  /\ IsInjective(Append(Tail(taken), x))
                  /\ Range(Append(Tail(taken), x)) = Range(Tail(taken)) \cup {x}
            BY Zenon, <3>1, <3>2, QueueFacts
          <6>3. IsInjective(taken') /\ Range(taken') = Range(Tail(taken)) \cup {t}
            BY <6>1, <6>2, <3>8, Zenon
          <6>4. Range(Tail(taken)) \cup {t} = Range(taken)
            BY Zenon, <3>2
          <6>5. QED
            BY Zenon, <6>3, <6>4
        <5>2. QED
          BY Zenon, <5>1, <3>3, <3>8 DEF QueuesOK
      <4>5. NoticedOK'
        <5>1. Noticed(t)'
          BY Zenon, <3>3, <3>8 DEF Noticed
        <5>2. \A x \in LocalTasks : x # t /\ Noticed(x) => Noticed(x)'
          BY Zenon, <3>3 DEF Noticed
        <5>3. QED
          BY Zenon, <5>1, <5>2, <3>3, <3>6, <3>8 DEF NoticedOK
      <4>6. QED
        BY Zenon, <4>2, <4>3, <4>4, <4>5
    <3>9. QED
      BY Zenon, <3>4, <3>7, <3>8
  <2>10. CASE EndPoll
    <3>1. tasks' \in Seq(LocalTasks) /\ taken' = <<>> /\ Len(taken') = 0 /\ taken' \in Seq(LocalTasks)
      BY <2>10 DEF EndPoll, AfterRound, LocalTypeOK
    <3>2. LocalTypeOK'
      BY Zenon, <2>10, <3>1 DEF EndPoll, LocalTypeOK
    <3>3. DriverOK'
      BY <2>10, <3>1 DEF EndPoll, DriverOK, LocalTypeOK
    <3>4. Range(<<>>) = {} /\ IsInjective(<<>>)
      BY DEF Range, IsInjective
    <3>5. IsInjective(tasks') /\ Range(tasks') = Range(tasks) \cup Range(taken)
      BY Zenon, <2>10, QueueFacts DEF EndPoll, AfterRound, QueuesOK, LocalTypeOK
    <3>6. QueuesOK'
      BY Zenon, <2>10, <3>1, <3>4, <3>5 DEF EndPoll, QueuesOK
    <3>7. NoticedOK'
      <4>1. \A t \in LocalTasks : ~Coming(t)
        BY <2>10 DEF EndPoll, Coming
      <4>2. driver' # "none" /\ ~driverAwake' => driver # "none" /\ ~driverAwake /\ ~notified
        BY Zenon, <2>10 DEF EndPoll, DriverOK
      <4>3. UNCHANGED <<localEnds, localEvents>>
        BY Zenon, <2>10 DEF EndPoll
      <4>4. QED
        BY Zenon, <4>1, <4>2, <4>3 DEF NoticedOK, Noticed
    <3>8. QED
      BY Zenon, <3>2, <3>3, <3>6, <3>7
  <2>11. CASE DropLocal
    <3>1. driverPc = "idle" /\ taken = <<>>
      BY Zenon, <2>11 DEF DropLocal, DriverOK, LocalTypeOK
    <3>2. Range(<<>>) = {} /\ IsInjective(<<>>)
      BY DEF Range, IsInjective
    <3>3. \A t \in LocalTasks : /\ Append(localResult[t], "cancelled") \in Seq({"ok", "panic", "cancelled"})
                                /\ Len(Append(localResult[t], "cancelled")) = Len(localResult[t]) + 1
      BY DEF LocalTypeOK
    <3>4. LocalTypeOK'
      <4>1. <<>> \in Seq(LocalTasks)
        OBVIOUS
      <4>2. QED
        BY Zenon, <2>11, <3>3, <4>1 DEF DropLocal, LocalTypeOK
    <3>5. DriverOK' /\ NoticedOK'
      BY Zenon, <2>11 DEF DropLocal, DriverOK, NoticedOK
    <3>6. QueuesOK'
      <4>1. tasks' = <<>> /\ taken' = <<>>
        BY Zenon, <2>11, <3>1 DEF DropLocal
      <4>2. ASSUME NEW t \in LocalTasks
            PROVE  future'[t] # "held" /\ Len(localResult'[t]) = IF future'[t] = "gone" THEN 1 ELSE 0
        <5>1. CASE t \in Range(tasks)
          BY <5>1, <2>11, <3>3 DEF DropLocal, QueuesOK
        <5>2. CASE t \notin Range(tasks)
          BY Zenon, <5>2, <2>11, <3>1, <3>2 DEF DropLocal, QueuesOK
        <5>3. QED
          BY Zenon, <5>1, <5>2
      <4>3. QED
        BY Zenon, <4>1, <4>2, <3>2 DEF QueuesOK
    <3>7. QED
      BY Zenon, <3>4, <3>5, <3>6
  <2>12. CASE UNCHANGED localVars
    BY Zenon, <2>12 DEF LocalTypeOK, DriverOK, QueuesOK, NoticedOK, Coming, Noticed
  <2>13. QED
    BY Zenon, <2>1, <2>2, <2>3, <2>4, <2>5, <2>6, <2>7, <2>8, <2>9, <2>10, <2>11, <2>12 DEF LocalNext
<1>3. LocalIInv => LocalTasksAreRun
  <2> SUFFICES ASSUME LocalIInv PROVE LocalTasksAreRun
    BY Zenon
  <2>1. LocalDriverIsWoken
    <3>1. driverPc = "idle" => \A t \in LocalTasks : ~Coming(t)
      BY DEF LocalIInv, DriverOK, LocalTypeOK, Coming
    <3>2. QED
      BY Zenon, <3>1 DEF LocalIInv, DriverOK, NoticedOK, Noticed, LocalDriverIsWoken
  <2>2. IsInjective(tasks \o taken) /\ Range(tasks \o taken) = Range(tasks) \cup Range(taken)
    BY Zenon, QueueFacts DEF LocalIInv, QueuesOK, LocalTypeOK
  <2>3. LocalTasksEndOnce
    BY Zenon, <2>2 DEF LocalIInv, QueuesOK, LocalTasksEndOnce
  <2>4. QED
    BY Zenon, <2>1, <2>3 DEF LocalTasksAreRun
<1>4. QED
  BY <1>1, <1>2, <1>3, PTL DEF LocalSpec

(* JoinSet.                                                                *)

JoinSetTypeOK ==
  /\ setTask \in [SetTasks -> {"none", "runs", "ended"}] /\ aborted \subseteq SetTasks
  /\ tracker \in [SetTasks -> {"none", "runtime", "local", "ended", "lost"}]
  /\ sent \in Seq(SetTasks) /\ pending \in Nat /\ abort_handles \in Seq(SetTasks)
  /\ joined \subseteq SetTasks /\ detached \subseteq SetTasks
  /\ set \in BOOLEAN /\ local \in BOOLEAN
  /\ setOp \in {"none", "join_next", "shutdown"}
  /\ setAwake \in BOOLEAN /\ recv_waker \in BOOLEAN

\* What was sent or returned is the result of a tracker that has ended; detached
\* tasks were inserted; nobody uses a set that is gone.
TrackersOK ==
  /\ \A t \in SetTasks : tracker[t] = "none" <=> setTask[t] = "none"
  /\ \A t \in Range(sent) \cup joined : tracker[t] = "ended"
  /\ detached \subseteq Inserted
  /\ ~set => sent = <<>> /\ setOp = "none"

JoinSetIInv == JoinSetTypeOK /\ TrackersOK /\ JoinSetCounts /\ JoinNextIsWoken

\* swap_remove takes one handle and keeps the others, each once.
LEMMA SwapRemove ==
  ASSUME abort_handles \in Seq(SetTasks), IsInjective(abort_handles), NEW t \in SetTasks
  PROVE  /\ WithoutHandle(t) \in Seq(SetTasks) /\ IsInjective(WithoutHandle(t))
         /\ Range(WithoutHandle(t)) = Range(abort_handles) \ {t}
<1>1. CASE t \notin Range(abort_handles)
  BY Zenon, <1>1 DEF WithoutHandle
<1>2. CASE t \in Range(abort_handles)
  <2> DEFINE i == CHOOSE i \in DOMAIN abort_handles : abort_handles[i] = t
             n == Len(abort_handles)
             h == [abort_handles EXCEPT ![i] = abort_handles[n]]
             w == SubSeq(h, 1, n - 1)
  <2>1. DOMAIN abort_handles = 1..n /\ n \in Nat
    OBVIOUS
  <2>2. i \in 1..n /\ abort_handles[i] = t
    BY Zenon, <1>2, <2>1 DEF Range
  <2>3. WithoutHandle(t) = w
    BY Zenon, <1>2 DEF WithoutHandle
  <2> HIDE DEF i
  <2>4. h \in Seq(SetTasks) /\ Len(h) = n
    BY <2>1, <2>2
  <2>5. /\ h[i] = abort_handles[n]
        /\ \A j \in 1..n : j # i => h[j] = abort_handles[j]
    BY Zenon, <2>1, <2>2
  <2> HIDE DEF h
  <2>6. w \in Seq(SetTasks) /\ DOMAIN w = 1..(n - 1) /\ \A j \in 1..(n - 1) : w[j] = h[j]
    BY <2>1, <2>2, <2>4
  <2> HIDE DEF w, n
  <2>7. IsInjective(w)
    <3> SUFFICES ASSUME NEW j \in 1..(n - 1), NEW k \in 1..(n - 1), w[j] = w[k] PROVE j = k
      BY Zenon, <2>6 DEF IsInjective
    <3>1. h[j] = h[k] /\ j \in 1..n /\ k \in 1..n /\ j # n /\ k # n /\ n \in 1..n
      BY <2>1, <2>2, <2>6
    <3>2. CASE j = i \/ k = i
      BY Zenon, <3>1, <3>2, <2>1, <2>5 DEF IsInjective
    <3>3. CASE j # i /\ k # i
      BY Zenon, <3>1, <3>3, <2>1, <2>5 DEF IsInjective
    <3>4. QED
      BY Zenon, <3>2, <3>3
  <2>8. ASSUME NEW j \in 1..(n - 1) PROVE w[j] \in Range(abort_handles) \ {t}
    <3>1. j \in 1..n /\ j # n /\ n \in 1..n /\ w[j] = h[j]
      BY <2>1, <2>6
    <3>2. CASE j = i
      BY Zenon, <3>1, <3>2, <2>1, <2>2, <2>5 DEF Range, IsInjective
    <3>3. CASE j # i
      BY Zenon, <3>1, <3>3, <2>1, <2>2, <2>5 DEF Range, IsInjective
    <3>4. QED
      BY Zenon, <3>2, <3>3
  <2>9. ASSUME NEW x \in Range(abort_handles), x # t PROVE x \in Range(w)
    <3>1. PICK k \in 1..n : x = abort_handles[k]
      BY Zenon, <2>1 DEF Range
    <3>2. k # i
      BY Zenon, <3>1, <2>9, <2>2
    <3>3. CASE k = n
      <4>1. i \in 1..(n - 1)
        BY <3>2, <3>3, <2>1, <2>2
      <4>2. w[i] = x
        BY Zenon, <4>1, <3>1, <3>3, <2>5, <2>6
      <4>3. QED
        BY Zenon, <4>1, <4>2, <2>6 DEF Range
    <3>4. CASE k # n
      <4>1. k \in 1..(n - 1)
        BY <3>1, <3>4, <2>1
      <4>2. w[k] = x
        BY Zenon, <4>1, <3>1, <3>2, <2>5, <2>6
      <4>3. QED
        BY Zenon, <4>1, <4>2, <2>6 DEF Range
    <3>5. QED
      BY Zenon, <3>3, <3>4
  <2>10. Range(w) = Range(abort_handles) \ {t}
    <3>1. Range(w) \subseteq Range(abort_handles) \ {t}
      BY Zenon, <2>6, <2>8 DEF Range
    <3>2. QED
      BY Zenon, <3>1, <2>9
  <2>11. QED
    BY Zenon, <2>3, <2>6, <2>7, <2>10
<1>3. QED
  BY Zenon, <1>1, <1>2

\* A result that is taken was in the channel once and is counted once.
LEMMA TakeKeepsJoinSet ==
  ASSUME JoinSetIInv, TakeResult, UNCHANGED <<setTaskVars, tracker, detached, setThere>>
  PROVE  /\ sent' \in Seq(SetTasks) /\ pending' \in Nat /\ abort_handles' \in Seq(SetTasks)
         /\ joined' \subseteq SetTasks /\ TrackersOK' /\ JoinSetCounts'
<1> USE DEF JoinSetIInv, setTaskVars, setThere
<1>1. sent \in Seq(SetTasks) /\ sent # <<>> /\ IsInjective(sent) /\ set /\ Head(sent) \in SetTasks
  BY DEF TakeResult, JoinSetTypeOK, JoinSetCounts, TrackersOK
<1>2. PICK h \in SetTasks : h = Head(sent)
  BY Zenon, <1>1
<1>3. /\ sent' = Tail(sent) /\ pending' = pending - 1 /\ abort_handles' = WithoutHandle(h)
      /\ joined' = joined \cup {h}
  BY Zenon, <1>2 DEF TakeResult
<1>4. sent' \in Seq(SetTasks)
  BY <1>1, <1>3
<1>5. h \in Range(sent) /\ IsInjective(sent') /\ Range(sent') = Range(sent) \ {h}
  BY Zenon, <1>1, <1>2, <1>3, QueueFacts
<1>6. /\ abort_handles' \in Seq(SetTasks) /\ IsInjective(abort_handles')
      /\ Range(abort_handles') = Range(abort_handles) \ {h}
  BY Zenon, <1>3, SwapRemove DEF JoinSetTypeOK, JoinSetCounts
<1>7. h \in Inserted /\ h \notin joined /\ tracker[h] = "ended"
  BY Zenon, <1>5 DEF TrackersOK, JoinSetCounts, Inserted
<1>8. pending' = Cardinality(Inserted \ joined') /\ pending' \in Nat
  <2>1. Inserted \ joined' = (Inserted \ joined) \ {h}
    BY Zenon, <1>3
  <2>2. IsFiniteSet(Inserted \ joined)
    BY Zenon, JoinSetAssumption, FS_Subset DEF Inserted
  <2>3. /\ IsFiniteSet((Inserted \ joined) \ {h})
        /\ Cardinality((Inserted \ joined) \ {h}) = Cardinality(Inserted \ joined) - 1
    BY Zenon, <1>7, <2>2, FS_RemoveElement
  <2>4. QED
    BY Zenon, <1>3, <2>1, <2>3, FS_CardinalityType DEF JoinSetCounts
<1>9. Inserted' = Inserted
  BY Zenon DEF Inserted
<1>10. TrackersOK'
  BY Zenon, <1>1, <1>3, <1>5, <1>7, <1>9 DEF TrackersOK
<1>11. Range(sent') \intersect joined' = {}
  BY Zenon, <1>3, <1>5 DEF JoinSetCounts
<1>12. Range(abort_handles') = (Inserted \ joined') \ detached
  BY Zenon, <1>1, <1>3, <1>6 DEF JoinSetCounts
<1>13. JoinSetCounts'
  BY Zenon, <1>1, <1>5, <1>6, <1>8, <1>9, <1>11, <1>12 DEF JoinSetCounts
<1>14. QED
  BY Zenon, <1>3, <1>4, <1>6, <1>8, <1>10, <1>13 DEF JoinSetTypeOK

\* A JoinSet returns every task once and counts those it owes: JoinSetIsExact in
\* every state of JoinSet (insert, track_task, poll_join_next, detach_all, Drop).
THEOREM JoinSetKnowsItsTasks == JoinSetSpec => []JoinSetIsExact
<1> USE DEF setVars, setTaskVars, setHandles, setHistory, setThere, setUser
<1>1. JoinSetInit => JoinSetIInv
  <2> SUFFICES ASSUME JoinSetInit PROVE JoinSetIInv
    BY Zenon
  <2>1. <<>> \in Seq(SetTasks) /\ Range(<<>>) = {} /\ IsInjective(<<>>)
    BY DEF Range, IsInjective
  <2>2. Inserted = {} /\ Inserted \ joined = {}
    BY Zenon DEF JoinSetInit, Inserted
  <2>3. JoinSetTypeOK
    BY Zenon, <2>1 DEF JoinSetInit, JoinSetTypeOK
  <2>4. TrackersOK /\ JoinNextIsWoken
    BY Zenon, <2>1 DEF JoinSetInit, TrackersOK, JoinNextIsWoken
  <2>5. JoinSetCounts
    BY Zenon, <2>1, <2>2, FS_EmptySet DEF JoinSetInit, JoinSetCounts
  <2>6. QED
    BY Zenon, <2>3, <2>4, <2>5 DEF JoinSetIInv
<1>2. JoinSetIInv /\ [JoinSetNext]_setVars => JoinSetIInv'
  <2> SUFFICES ASSUME JoinSetIInv, [JoinSetNext]_setVars PROVE JoinSetIInv'
    BY Zenon
  <2> USE DEF JoinSetIInv
  <2>1. ASSUME NEW t \in SetTasks, NEW where \in {"runtime", "local"}, SpawnInSet(t, where)
        PROVE  JoinSetIInv'
    <3>1. /\ setTask[t] = "none" /\ tracker[t] = "none" /\ set
          /\ t \notin Inserted /\ t \notin joined /\ t \notin Range(sent) /\ t \notin detached
          /\ t \notin Range(abort_handles)
      BY Zenon, <2>1 DEF SpawnInSet, TrackersOK, JoinSetCounts, Inserted
    <3>2. JoinSetTypeOK'
      BY <2>1 DEF SpawnInSet, JoinSetTypeOK
    <3>3. Inserted' = Inserted \cup {t}
      BY Zenon, <2>1 DEF SpawnInSet, Inserted, JoinSetTypeOK
    <3>4. TrackersOK'
      BY <2>1, <3>1, <3>3 DEF SpawnInSet, TrackersOK, JoinSetTypeOK
    <3>5. /\ IsInjective(abort_handles')
          /\ Range(abort_handles') = Range(abort_handles) \cup {t}
      BY <2>1, <3>1, QueueFacts DEF SpawnInSet, JoinSetTypeOK, JoinSetCounts
    <3>6. pending' = Cardinality(Inserted' \ joined')
      <4>1. Inserted' \ joined' = (Inserted \ joined) \cup {t}
        BY Zenon, <2>1, <3>1, <3>3 DEF SpawnInSet
      <4>2. IsFiniteSet(Inserted \ joined)
        BY Zenon, JoinSetAssumption, FS_Subset DEF Inserted
      <4>3. Cardinality((Inserted \ joined) \cup {t}) = Cardinality(Inserted \ joined) + 1
        BY Zenon, <3>1, <4>2, FS_AddElement
      <4>4. QED
        BY Zenon, <2>1, <4>1, <4>3 DEF SpawnInSet, JoinSetCounts
    <3>7. /\ UNCHANGED <<sent, joined, detached, set, setUser>>
      BY Zenon, <2>1 DEF SpawnInSet
    <3>8. Range(abort_handles') = (Inserted' \ joined') \ detached'
      BY Zenon, <3>1, <3>3, <3>5, <3>7 DEF JoinSetCounts
    <3>9. JoinSetCounts'
      BY Zenon, <3>1, <3>5, <3>6, <3>7, <3>8 DEF JoinSetCounts
    <3>10. JoinNextIsWoken'
      BY Zenon, <2>1 DEF SpawnInSet, JoinNextIsWoken
    <3>11. QED
      BY Zenon, <3>2, <3>4, <3>9, <3>10
  <2>2. ASSUME NEW t \in SetTasks, TaskEnds(t) PROVE JoinSetIInv'
    <3>1. JoinSetTypeOK' /\ JoinNextIsWoken'
      BY Zenon, <2>2 DEF TaskEnds, JoinSetTypeOK, JoinNextIsWoken
    <3>2. Inserted' = Inserted
      BY Zenon, <2>2 DEF TaskEnds, Inserted, JoinSetTypeOK
    <3>3. TrackersOK'
      BY Zenon, <2>2, <3>2 DEF TaskEnds, TrackersOK, JoinSetTypeOK
    <3>4. \A x \in SetTasks : setTask[x] = "ended" => setTask'[x] = "ended"
      BY Zenon, <2>2 DEF TaskEnds, JoinSetTypeOK
    <3>5. JoinSetCounts'
      BY Zenon, <2>2, <3>2, <3>4 DEF TaskEnds, JoinSetCounts, Inserted
    <3>6. QED
      BY Zenon, <3>1, <3>3, <3>5
  <2>3. ASSUME NEW t \in SetTasks, AbortInSet(t) PROVE JoinSetIInv'
    <3>1. Inserted' = Inserted
      BY Zenon, <2>3 DEF AbortInSet, Inserted
    <3>2. QED
      BY Zenon, <2>3, <3>1 DEF AbortInSet, JoinSetTypeOK, TrackersOK, JoinSetCounts, JoinNextIsWoken
  <2>4. ASSUME NEW t \in SetTasks, Track(t) PROVE JoinSetIInv'
    <3>1. Inserted' = Inserted /\ t \notin Range(sent) /\ t \notin joined /\ t \in Inserted
      BY Zenon, <2>4 DEF Track, Inserted, TrackersOK
    <3>2. JoinSetTypeOK'
      <4>1. sent' \in Seq(SetTasks) /\ setAwake' \in BOOLEAN /\ recv_waker' \in BOOLEAN
        <5>1. CASE set
          <6>1. sent' \in Seq(SetTasks)
            <7>1. Append(sent, t) \in Seq(SetTasks)
              BY DEF JoinSetTypeOK
            <7>2. QED
              BY <5>1, <7>1, <2>4, Zenon DEF Track
          <6>2. setAwake' \in BOOLEAN /\ recv_waker' \in BOOLEAN
            BY <5>1, <2>4, Zenon DEF Track
          <6>3. QED
            BY Zenon, <6>1, <6>2
        <5>2. CASE ~set
          BY Zenon, <5>2, <2>4 DEF Track, JoinSetTypeOK
        <5>3. QED
          BY Zenon, <5>1, <5>2
      <4>2. QED
        BY Zenon, <2>4, <4>1 DEF Track, JoinSetTypeOK
    <3>3. set => IsInjective(sent') /\ Range(sent') = Range(sent) \cup {t}
      <4>1. /\ IsInjective(Append(sent, t)) /\ Range(Append(sent, t)) = Range(sent) \cup {t}
        BY <3>1, QueueFacts DEF JoinSetTypeOK, JoinSetCounts
      <4>2. QED
        BY Zenon, <2>4, <4>1 DEF Track
    <3>4. TrackersOK'
      BY <2>4, <3>1, <3>3 DEF Track, TrackersOK, JoinSetTypeOK
    <3>5. JoinSetCounts'
      BY Zenon, <2>4, <3>1, <3>3 DEF Track, JoinSetCounts
    <3>6. JoinNextIsWoken'
      BY Zenon, <2>4 DEF Track, JoinNextIsWoken, TrackersOK
    <3>7. QED
      BY Zenon, <3>2, <3>4, <3>5, <3>6
  <2>5. ASSUME NEW o \in {"join_next", "shutdown"}, StartJoin(o) PROVE JoinSetIInv'
    <3>1. Inserted' = Inserted
      BY Zenon, <2>5 DEF StartJoin, Inserted
    <3>2. aborted \subseteq aborted' /\ aborted' \subseteq SetTasks
      BY <2>5 DEF StartJoin, AbortAll, JoinSetTypeOK, Range
    <3>3. JoinSetTypeOK' /\ TrackersOK'
      BY Zenon, <2>5, <3>1, <3>2 DEF StartJoin, JoinSetTypeOK, TrackersOK
    <3>4. JoinSetCounts' /\ JoinNextIsWoken'
      BY Zenon, <2>5, <3>1, <3>2 DEF StartJoin, JoinSetCounts, JoinNextIsWoken
    <3>5. QED
      BY Zenon, <3>3, <3>4
  <2>6. CASE DropLocalSet
    <3>1. \A t \in SetTasks : tracker[t] = "local" => setTask[t] # "none"
      BY Zenon DEF TrackersOK
    <3>2. Inserted' = Inserted
      BY Zenon, <2>6, <3>1 DEF DropLocalSet, Inserted
    <3>3. JoinSetTypeOK'
      BY Zenon, <2>6 DEF DropLocalSet, JoinSetTypeOK
    <3>4. TrackersOK'
      BY <2>6, <3>1, <3>2 DEF DropLocalSet, TrackersOK, JoinSetTypeOK, Range
    <3>5. \A x \in SetTasks : setTask[x] = "ended" => setTask'[x] = "ended"
      BY Zenon, <2>6 DEF DropLocalSet
    <3>6. JoinSetCounts' /\ JoinNextIsWoken'
      BY Zenon, <2>6, <3>2, <3>5 DEF DropLocalSet, JoinSetCounts, JoinNextIsWoken, Inserted
    <3>7. QED
      BY Zenon, <3>3, <3>4, <3>6
  <2>7. CASE TryJoinNext
    <3>1. TakeResult /\ UNCHANGED <<setTaskVars, tracker, detached, setThere, setUser>> /\ setOp = "none"
      BY Zenon, <2>7 DEF TryJoinNext
    <3>2. /\ sent' \in Seq(SetTasks) /\ pending' \in Nat /\ abort_handles' \in Seq(SetTasks)
          /\ joined' \subseteq SetTasks /\ TrackersOK' /\ JoinSetCounts'
      BY Zenon, <3>1, TakeKeepsJoinSet
    <3>3. JoinSetTypeOK' /\ JoinNextIsWoken'
      BY Zenon, <3>1, <3>2 DEF JoinSetTypeOK, JoinNextIsWoken
    <3>4. QED
      BY Zenon, <3>2, <3>3
  <2>8. CASE PollJoinNext
    <3>1. CASE TakeResult /\ setOp' = (IF setOp = "shutdown" THEN setOp ELSE "none")
               /\ UNCHANGED <<setAwake, recv_waker>>
      <4>1. /\ sent' \in Seq(SetTasks) /\ pending' \in Nat /\ abort_handles' \in Seq(SetTasks)
            /\ joined' \subseteq SetTasks /\ TrackersOK' /\ JoinSetCounts'
        BY Zenon, <2>8, <3>1, TakeKeepsJoinSet DEF PollJoinNext
      <4>2. JoinSetTypeOK'
        BY Zenon, <2>8, <3>1, <4>1 DEF PollJoinNext, JoinSetTypeOK
      <4>3. JoinNextIsWoken'
        BY Zenon, <2>8, <3>1 DEF PollJoinNext, TakeResult, JoinNextIsWoken
      <4>4. QED
        BY Zenon, <4>1, <4>2, <4>3
    <3>2. CASE /\ UNCHANGED <<sent, setHandles, joined>>
               /\ \/ setOp' = "none" /\ UNCHANGED <<setAwake, recv_waker>>
                  \/ /\ sent = <<>> /\ pending # 0 /\ setAwake' = FALSE /\ recv_waker' = TRUE
                     /\ UNCHANGED setOp
      <4>1. /\ UNCHANGED <<setTaskVars, tracker, sent, setHandles, setHistory, setThere>>
            /\ Inserted' = Inserted
        BY Zenon, <2>8, <3>2 DEF PollJoinNext, Inserted
      <4>2. \/ setOp' = "none" /\ UNCHANGED <<setAwake, recv_waker>>
            \/ sent = <<>> /\ pending # 0 /\ ~setAwake' /\ recv_waker' /\ UNCHANGED setOp
        BY Zenon, <3>2
      <4>3. JoinSetTypeOK'
        BY Zenon, <3>2, <4>1 DEF JoinSetTypeOK
      <4>4. TrackersOK' /\ JoinSetCounts'
        BY Zenon, <4>1, <4>2 DEF TrackersOK, JoinSetCounts
      <4>5. JoinNextIsWoken'
        BY <4>1, <4>2 DEF JoinNextIsWoken, JoinSetTypeOK
      <4>6. QED
        BY Zenon, <4>3, <4>4, <4>5
    <3>3. QED
      BY Zenon, <2>8, <3>1, <3>2 DEF PollJoinNext
  <2>9. CASE CancelJoin
    <3>1. Inserted' = Inserted
      BY Zenon, <2>9 DEF CancelJoin, Inserted
    <3>2. QED
      BY Zenon, <2>9, <3>1 DEF CancelJoin, JoinSetTypeOK, TrackersOK, JoinSetCounts, JoinNextIsWoken
  <2>10. CASE CallAbortAll
    <3>1. Inserted' = Inserted
      BY Zenon, <2>10 DEF CallAbortAll, Inserted
    <3>2. aborted \subseteq aborted' /\ aborted' \subseteq SetTasks
      BY <2>10 DEF CallAbortAll, AbortAll, JoinSetTypeOK, Range
    <3>3. JoinSetTypeOK' /\ TrackersOK'
      BY Zenon, <2>10, <3>1, <3>2 DEF CallAbortAll, JoinSetTypeOK, TrackersOK
    <3>4. JoinSetCounts' /\ JoinNextIsWoken'
      BY Zenon, <2>10, <3>1, <3>2 DEF CallAbortAll, JoinSetCounts, JoinNextIsWoken
    <3>5. QED
      BY Zenon, <3>3, <3>4
  <2>11. CASE DetachAll
    <3>1. Inserted' = Inserted /\ Range(abort_handles) \subseteq Inserted
      BY Zenon, <2>11 DEF DetachAll, Inserted, JoinSetCounts
    <3>2. <<>> \in Seq(SetTasks) /\ Range(<<>>) = {} /\ IsInjective(<<>>)
      BY DEF Range, IsInjective
    <3>3. JoinSetTypeOK' /\ TrackersOK'
      BY Zenon, <2>11, <3>1, <3>2 DEF DetachAll, JoinSetTypeOK, TrackersOK, Inserted
    <3>4. (Inserted' \ joined') \ detached' = {}
      BY Zenon, <2>11, <3>1 DEF DetachAll, JoinSetCounts
    <3>5. JoinSetCounts' /\ JoinNextIsWoken'
      BY Zenon, <2>11, <3>1, <3>2, <3>4 DEF DetachAll, JoinSetCounts, JoinNextIsWoken
    <3>6. QED
      BY Zenon, <3>3, <3>5
  <2>12. CASE DropJoinSet
    <3>1. Inserted' = Inserted
      BY Zenon, <2>12 DEF DropJoinSet, Inserted
    <3>2. aborted' \subseteq SetTasks
      BY <2>12 DEF DropJoinSet, AbortAll, JoinSetTypeOK, Range
    <3>3. <<>> \in Seq(SetTasks) /\ Range(<<>>) = {} /\ IsInjective(<<>>)
      BY DEF Range, IsInjective
    <3>4. JoinSetTypeOK' /\ TrackersOK'
      BY Zenon, <2>12, <3>1, <3>2, <3>3 DEF DropJoinSet, JoinSetTypeOK, TrackersOK
    <3>5. \A t \in Inserted \ (joined \cup detached) : setTask[t] = "ended" \/ t \in aborted'
      BY Zenon, <2>12 DEF DropJoinSet, AbortAll, JoinSetCounts, JoinSetTypeOK, Inserted
    <3>6. JoinSetCounts' /\ JoinNextIsWoken'
      BY Zenon, <2>12, <3>1, <3>3, <3>5 DEF DropJoinSet, JoinSetCounts, JoinNextIsWoken
    <3>7. QED
      BY Zenon, <3>4, <3>6
  <2>13. CASE UNCHANGED setVars
    <3>1. Inserted' = Inserted
      BY Zenon, <2>13 DEF Inserted
    <3>2. QED
      BY Zenon, <2>13, <3>1 DEF JoinSetTypeOK, TrackersOK, JoinSetCounts, JoinNextIsWoken
  <2>14. QED
    BY Zenon, <2>1, <2>2, <2>3, <2>4, <2>5, <2>6, <2>7, <2>8, <2>9, <2>10, <2>11, <2>12, <2>13
       DEF JoinSetNext
<1>3. JoinSetIInv => JoinSetIsExact
  BY Zenon DEF JoinSetIInv, JoinSetIsExact
<1>4. QED
  BY <1>1, <1>2, <1>3, PTL DEF JoinSetSpec
=============================================================================
