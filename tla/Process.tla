------------------------------- MODULE Process -------------------------------
(***************************************************************************)
(* A Child (process.rs): the child process, which may need the end of its  *)
(* standard input and room in its standard output to go on; the operations *)
(* of its handle, which poll waitpid on a timer; and the task that reaps a *)
(* child whose handle is gone.                                             *)
(***************************************************************************)
EXTENDS Naturals

CONSTANTS PipeSize,       \* room in the pipe of standard output
          MaxOutput       \* bound on what the child writes to it

ProcessAssumption == PipeSize \in Nat \ {0} /\ MaxOutput \in Nat

VARIABLES kill_on_drop,  \* the option
          reads, output, \* does the child read to the end of its input; all it writes
          child,         \* "running", "exited", "reaped"; before, "none"
          killed,        \* was it killed
          stdin,         \* is our end of its standard input open
          stdout,        \* our end of its standard output: "held", "reading", "closed"
          wrote, pipe, got,  \* bytes the child wrote, in the pipe, and read by us
          handle,        \* of the Child: "none", "held", "dropped", "failed"
          op, kept,      \* the operation under way; is the handle the caller's still
          status,        \* has an operation returned the exit status
          reaper         \* the task spawned by drop: "none", "runs", "ended"

vars == <<kill_on_drop, reads, output, child, killed, stdin, stdout, wrote, pipe, got, handle, op,
          kept, status, reaper>>
fixed == <<kill_on_drop, reads, output>>
data == <<stdin, stdout, wrote, pipe, got>>

Init ==
  /\ kill_on_drop \in BOOLEAN /\ reads \in BOOLEAN /\ output \in 0..MaxOutput
  /\ child = "none" /\ killed = FALSE /\ stdin = FALSE /\ stdout = "closed"
  /\ wrote = 0 /\ pipe = 0 /\ got = 0 /\ handle = "none" /\ op = "none" /\ kept = TRUE
  /\ status = FALSE /\ reaper = "none"

\* Command::spawn.  from_std may fail to register a pipe: the child runs, and
\* what of its handle there was is dropped, with the pipes.
Spawn(ok) ==
  /\ handle = "none" /\ child' = "running"
  /\ UNCHANGED <<fixed, killed, wrote, pipe, got, op, kept, status, reaper>>
  /\ IF ok THEN stdin' = TRUE /\ stdout' = "held" /\ handle' = "held"
     ELSE UNCHANGED <<stdin, stdout>> /\ handle' = "failed"
-----------------------------------------------------------------------------
(* External: the child.                                                    *)
ChildWrites ==
  /\ child = "running" /\ wrote < output /\ wrote' = wrote + 1
  /\ IF stdout = "closed" THEN UNCHANGED pipe ELSE pipe < PipeSize /\ pipe' = pipe + 1
  /\ UNCHANGED <<fixed, child, killed, stdin, stdout, got, handle, op, kept, status, reaper>>

\* It ends when all is written and its input has ended, or when killed.
ChildExits ==
  /\ child = "running" /\ (killed \/ (wrote = output /\ (reads => ~stdin)))
  /\ child' = "exited"
  /\ UNCHANGED <<fixed, killed, data, handle, op, kept, status, reaper>>
-----------------------------------------------------------------------------
Kill == IF child = "reaped" THEN UNCHANGED killed ELSE killed' = TRUE

\* External: waitpid without waiting.
TryWait == child' = IF child = "exited" THEN "reaped" ELSE child
Gone == child \in {"exited", "reaped"}

\* start_kill.
StartKill ==
  /\ handle = "held" /\ op = "none" /\ Kill
  /\ UNCHANGED <<fixed, child, data, handle, op, kept, status, reaper>>

\* Mutant: the input stays open while the caller waits.
StdinAfterWaitKept == stdin

\* self.stdin.take() of wait.
StdinAfterWait == FALSE

\* The first poll of wait, of kill and of wait_with_output, which takes the
\* Child and reads its output while it waits.
Wait(o) ==
  /\ handle = "held" /\ op = "none" /\ ~status /\ kept
  /\ o \in {"wait", "kill", "output"} /\ op' = o
  /\ (IF o = "kill" THEN Kill ELSE UNCHANGED killed)
  /\ stdin' = StdinAfterWait
  /\ stdout' = IF o = "output" THEN "reading" ELSE stdout
  /\ kept' = (o # "output")
  /\ UNCHANGED <<fixed, child, wrote, pipe, got, handle, status, reaper>>

\* The loop of wait, every 5 ms.  output returns with the join of the wait and
\* the read.
WaitTurn ==
  /\ op # "none" /\ ~status /\ TryWait
  /\ status' = Gone
  /\ op' = IF Gone /\ op # "output" THEN "none" ELSE op
  /\ UNCHANGED <<fixed, killed, data, handle, kept, reaper>>

\* wait_with_output's read_to_end: a byte, or the end of the output.
ReadOutput ==
  /\ stdout = "reading"
  /\ \/ pipe > 0 /\ pipe' = pipe - 1 /\ got' = got + 1 /\ UNCHANGED stdout
     \/ pipe = 0 /\ Gone /\ stdout' = "closed" /\ UNCHANGED <<pipe, got>>
  /\ UNCHANGED <<fixed, child, killed, stdin, wrote, handle, op, kept, status, reaper>>

OutputReturned == op = "output" /\ status /\ stdout = "closed"

\* The future of an operation is dropped; the Child of wait_with_output with it.
Cancel ==
  /\ op \in {"wait", "kill"} /\ op' = "none"
  /\ UNCHANGED <<fixed, child, killed, data, handle, kept, status, reaper>>

\* Is it still running for try_wait in Drop.
Reaps == child = "running"

\* Drop for Child.
Drop ==
  /\ handle = "held" /\ (op = "none" \/ op = "output")
  /\ handle' = "dropped" /\ op' = (IF OutputReturned THEN op ELSE "none") /\ kept' = FALSE
  /\ (IF kill_on_drop THEN Kill ELSE UNCHANGED killed)
  /\ TryWait
  /\ reaper' = IF Reaps THEN "runs" ELSE "none"
  /\ stdin' = FALSE /\ stdout' = "closed" /\ pipe' = 0
  /\ UNCHANGED <<fixed, wrote, got, status>>

\* The reaping task's loop.
ReaperTurn ==
  /\ reaper = "runs" /\ TryWait /\ reaper' = IF Gone THEN "ended" ELSE reaper
  /\ UNCHANGED <<fixed, killed, data, handle, op, kept, status>>

ChildStep == ChildWrites \/ ChildExits
Next ==
  \/ ChildStep \/ WaitTurn \/ ReadOutput \/ ReaperTurn \/ StartKill \/ Cancel \/ Drop
  \/ \E ok \in BOOLEAN : Spawn(ok)
  \/ \E o \in {"wait", "kill", "output"} : Wait(o)

\* The child goes on when it can; the timers of wait and of the reaper go off
\* and the runtime polls them; a readable pipe wakes its reader.
Fairness == WF_vars(ChildWrites) /\ WF_vars(ChildExits) /\ WF_vars(WaitTurn) /\ WF_vars(ReadOutput)
            /\ WF_vars(ReaperTurn)

Spec == Init /\ [][Next]_vars /\ Fairness
-----------------------------------------------------------------------------
\* An exit status is returned, and the handle forgotten without a reaper, only
\* of a child that was reaped; kill_on_drop leaves no child running that was
\* not killed; the output that is returned is all that the child wrote
\* (wait, wait_with_output, Drop for Child).
ChildrenAreAccounted ==
  /\ status => child = "reaped"
  /\ handle = "dropped" => child = "reaped" \/ reaper = "runs"
  /\ handle = "dropped" /\ kill_on_drop => killed \/ child = "reaped"
  /\ OutputReturned => got = wrote

\* A child whose exit someone waits for or whose handle is gone is reaped in
\* the end: none of the operations leaves it waiting for input or for room in
\* a pipe that nobody empties (stdin.take() in wait, join! in
\* wait_with_output, the reaper).
ChildrenAreReaped ==
  /\ op = "output" ~> (child = "reaped" \/ handle = "dropped")
  /\ (handle = "dropped" ~> child = "reaped")
  /\ (op = "wait" /\ output <= PipeSize ~> (child = "reaped" \/ op # "wait"))
=============================================================================
