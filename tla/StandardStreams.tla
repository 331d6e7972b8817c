--------------------------- MODULE StandardStreams ---------------------------
(***************************************************************************)
(* Stdin, Stdout and Stderr of io.rs: a handle keeps the one blocking task *)
(* it has started.  A handle is borrowed by one future at a time, which    *)
(* may be dropped while the task runs; the next future meets that task and *)
(* collects its result, with a buffer of its own.                          *)
(***************************************************************************)
EXTENDS Naturals, Sequences, FiniteSets, Functions

CONSTANTS MaxInput,  \* the bytes of the standard input
          MaxCalls,  \* bound on the calls of a writer
          Sizes      \* of the callers' buffers

StandardStreamsAssumption == MaxInput \in Nat /\ MaxCalls \in Nat /\ Sizes \subseteq Nat \ {0}

VARIABLES input,      \* bytes the process has not read, numbered
          reading,    \* Stdin: the operation
          reader,     \* the room in the buffer of the read that is polled, or 0
          received,   \* bytes the callers of Stdin got
          lost,       \* bytes that did not fit: put_slice panicked
          abandoned,  \* history: a read was dropped
          writing,    \* Stdout or Stderr: the operation, and the call that started it
          output,     \* the stream: for every byte, the call it comes from
          calls       \* history: writes and flushes, and what they were told of which
                      \* call's bytes; the last one may be the one that is polled

input_side == <<input, reading, reader, received, lost, abandoned>>
output_side == <<writing, output, calls>>
vars == <<input_side, output_side>>

NoRead == [n |-> 0, bytes |-> <<>>, done |-> FALSE]
NoWrite == [kind |-> "none", call |-> 0, n |-> 0, done |-> FALSE]

Init ==
  /\ input = [i \in 1..MaxInput |-> i]
  /\ reading = NoRead /\ reader = 0 /\ received = <<>> /\ lost = {} /\ abandoned = FALSE
  /\ writing = NoWrite /\ output = <<>> /\ calls = <<>>
-----------------------------------------------------------------------------
\* poll_read of a new future starts a read as large as the caller's buffer,
\* unless one is there.
StdinStart(n) ==
  /\ reader = 0 /\ reader' = n
  /\ reading' = IF reading = NoRead THEN [NoRead EXCEPT !.n = n] ELSE reading
  /\ UNCHANGED <<input, received, lost, abandoned, output_side>>

\* The task reads some bytes, or none: the end of the input, or an error.
StdinRuns ==
  /\ reading # NoRead /\ ~reading.done
  /\ \E k \in 0..reading.n :
       /\ k <= Len(input)
       /\ reading' = [reading EXCEPT !.done = TRUE, !.bytes = SubSeq(input, 1, k)]
       /\ input' = SubSeq(input, k + 1, Len(input))
  /\ UNCHANGED <<reader, received, lost, abandoned, output_side>>

\* poll_read finds the task done and forgets it; put_slice asserts that the
\* bytes fit the buffer of this caller.
StdinReady ==
  /\ reader # 0 /\ reading.done
  /\ IF Len(reading.bytes) <= reader
     THEN received' = received \o reading.bytes /\ UNCHANGED lost
     ELSE lost' = lost \cup Range(reading.bytes) /\ UNCHANGED received
  /\ reading' = NoRead /\ reader' = 0
  /\ UNCHANGED <<input, abandoned, output_side>>

\* The future is dropped; the handle keeps the task.
StdinDrop ==
  /\ reader # 0 /\ reader' = 0 /\ abandoned' = TRUE
  /\ UNCHANGED <<input, reading, received, lost, output_side>>
-----------------------------------------------------------------------------
Last == Len(calls)
Polled == calls # <<>> /\ calls[Last].state = "polled"

\* The first poll of a write of n bytes or of a flush: it starts its task unless
\* one is there.  One of the other kind is an error and stays.
StartOutput(kind, n) ==
  LET Call(state) == [kind |-> kind, size |-> n, state |-> state, from |-> 0, told |-> 0]
  IN /\ ~Polled /\ Last < MaxCalls
     /\ IF writing = NoWrite
        THEN writing' = [kind |-> kind, call |-> Last + 1, n |-> n, done |-> FALSE]
        ELSE UNCHANGED writing
     /\ calls' = Append(calls, Call(IF writing.kind \in {"none", kind} THEN "polled" ELSE "refused"))
     /\ UNCHANGED <<output, input_side>>

\* The task writes some bytes, or none: a flush, or an error.
OutputRuns ==
  /\ writing # NoWrite /\ ~writing.done
  /\ \E k \in 0..writing.n :
       /\ writing' = [writing EXCEPT !.done = TRUE, !.n = k]
       /\ output' = output \o [i \in 1..k |-> writing.call]
  /\ UNCHANGED <<calls, input_side>>

\* Mutant: the handle keeps a task whose result was returned.
OutputReadyKept ==
  /\ Polled /\ writing.done
  /\ calls' = [calls EXCEPT ![Last].state = "told", ![Last].from = writing.call,
                            ![Last].told = writing.n]
  /\ UNCHANGED <<writing, output, input_side>>

\* The poll finds the task done and returns what it wrote, of whatever buffer.
OutputReady ==
  /\ Polled /\ writing.done /\ writing' = NoWrite
  /\ calls' = [calls EXCEPT ![Last].state = "told", ![Last].from = writing.call,
                            ![Last].told = writing.n]
  /\ UNCHANGED <<output, input_side>>

OutputDrop ==
  /\ Polled /\ calls' = [calls EXCEPT ![Last].state = "dropped"]
  /\ UNCHANGED <<writing, output, input_side>>

Next == \/ \E n \in Sizes : StdinStart(n) \/ StartOutput("write", n)
        \/ StdinRuns \/ StdinReady \/ StdinDrop
        \/ StartOutput("flush", 0) \/ OutputRuns \/ OutputReady \/ OutputDrop

Spec == Init /\ [][Next]_vars
-----------------------------------------------------------------------------
\* Every byte of the standard input is received once and in order, also when the
\* read that asked for it was dropped, or is still on its way.  Bytes are lost
\* together, in a panic of put_slice, and only after a read was dropped.
InputConserved ==
  LET known == received \o reading.bytes \o input
  IN /\ \A i, j \in DOMAIN known : i < j => known[i] < known[j]
     /\ Range(known) \cup lost = 1..MaxInput /\ Len(known) + Cardinality(lost) = MaxInput
     /\ lost # {} => abandoned

Written(c) == Cardinality({i \in DOMAIN output : output[i] = c})
Told(c) == calls[c].state = "told"

\* The bytes on the stream are in the order of the calls, and the result of a
\* task goes to one caller.  It is the caller that started the task, who is told
\* how many of its own bytes are on the stream, unless that one was dropped: then
\* the next caller is told the number, and none of its own bytes are written.
OutputAccounted ==
  /\ \A i, j \in DOMAIN output : i < j => output[i] <= output[j]
  /\ \A c \in DOMAIN calls :
       /\ Written(c) <= calls[c].size
       /\ Written(c) > 0 =>
            writing.call = c \/ \E d \in DOMAIN calls : Told(d) /\ calls[d].from = c
       /\ Told(c) =>
            /\ calls[c].told = Written(calls[c].from)
            /\ calls[c].from # c =>
                 Written(c) = 0 /\ calls[calls[c].from].state = "dropped"
            /\ \A d \in DOMAIN calls : Told(d) /\ calls[d].from = calls[c].from => d = c

\* A dropped read or write is neither lost nor done twice: what it read, and the
\* number it wrote, goes to the next caller (poll_read, poll_standard_write).
StandardStreamsConserve == InputConserved /\ OutputAccounted

\* What the task of an earlier, dropped read returns fits the buffer of the
\* caller that collects it, as ReadBuf::put_slice asserts.
StdinFits == lost = {}
=============================================================================
