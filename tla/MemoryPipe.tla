----------------------------- MODULE MemoryPipe ------------------------------
(***************************************************************************)
(* duplex and simplex of io.rs: two streams over two bounded pipes in      *)
(* memory, each stream split into halves that different tasks own.  The    *)
(* pipe of end e holds what e wrote and the other end has not read.        *)
(***************************************************************************)
EXTENDS Naturals, Sequences, FiniteSets

CONSTANTS Capacity,  \* max_buf_size
          MaxBytes   \* bound on what each end writes

MemoryPipeAssumption == Capacity \in Nat \ {0} /\ MaxBytes \in Nat

Ends == {"a", "b"}
Other(e) == CHOOSE o \in Ends : o # e

VARIABLES buffer, writer_closed, reader_closed,  \* of the pipe that e writes to
          reader_waker, writer_waker,            \* is a waker registered there
          halves,   \* the halves of the stream of e that still exist
          asleep,   \* tasks that got Pending and were not woken: <<e, half>>
          sent, received, ended  \* history: bytes written and read, reads of EOF

vars == <<buffer, writer_closed, reader_closed, reader_waker, writer_waker, halves, asleep,
          sent, received, ended>>

\* simplex drops the halves it does not hand out, which closes nothing.
Init ==
  /\ \/ halves = [e \in Ends |-> {"read", "write"}]
     \/ halves = [e \in Ends |-> IF e = "a" THEN {"write"} ELSE {"read"}]
  /\ buffer = [e \in Ends |-> <<>>]
  /\ writer_closed = [e \in Ends |-> FALSE] /\ reader_closed = [e \in Ends |-> FALSE]
  /\ reader_waker = [e \in Ends |-> FALSE] /\ writer_waker = [e \in Ends |-> FALSE]
  /\ asleep = {} /\ sent = [e \in Ends |-> 0] /\ received = [e \in Ends |-> <<>>]
  /\ ended = [e \in Ends |-> FALSE]

\* Take the waker of the pipe of p and wake its task: its reader at the other
\* end, or its writer.
WakeReader(p, sleepers) == IF reader_waker[p] THEN sleepers \ {<<Other(p), "read">>} ELSE sleepers

WakeWriter(p, sleepers) == IF writer_waker[p] THEN sleepers \ {<<p, "write">>} ELSE sleepers

\* A task polls a half it owns again, whether or not it was woken.
Awoken(e, half) == asleep \ {<<e, half>>}

\* poll_read with bytes in the pipe.
PollRead(e, n) ==
  LET p == Other(e)
      k == IF n < Len(buffer[p]) THEN n ELSE Len(buffer[p])
  IN /\ "read" \in halves[e] /\ buffer[p] # <<>>
     /\ buffer' = [buffer EXCEPT ![p] = SubSeq(@, k + 1, Len(@))]
     /\ received' = [received EXCEPT ![p] = @ \o SubSeq(buffer[p], 1, k)]
     /\ writer_waker' = [writer_waker EXCEPT ![p] = FALSE]
     /\ asleep' = WakeWriter(p, Awoken(e, "read"))
     /\ UNCHANGED <<writer_closed, reader_closed, reader_waker, halves, sent, ended>>

\* poll_read of an empty pipe: the end of a closed one, Pending otherwise.
PollReadEmpty(e) ==
  LET p == Other(e)
  IN /\ "read" \in halves[e] /\ buffer[p] = <<>>
     /\ IF writer_closed[p]
        THEN ended' = [ended EXCEPT ![p] = TRUE] /\ asleep' = Awoken(e, "read") /\ UNCHANGED reader_waker
        ELSE /\ reader_waker' = [reader_waker EXCEPT ![p] = TRUE]
             /\ asleep' = asleep \cup {<<e, "read">>} /\ UNCHANGED ended
     /\ UNCHANGED <<buffer, writer_closed, reader_closed, writer_waker, halves, sent, received>>

\* Mutant: a write is accepted whole when any of it fits.
FitsAll(n, p) == n

\* How much of a write fits in the pipe of p.
Fits(n, p) == LET room == Capacity - Len(buffer[p]) IN IF n < room THEN n ELSE room

\* poll_write: BrokenPipe, Pending on a full pipe, or as much as fits.
PollWrite(e, n) ==
  LET room == Capacity - Len(buffer[e])
      k == Fits(n, e)
  IN /\ "write" \in halves[e] /\ sent[e] + n <= MaxBytes
     /\ \/ /\ reader_closed[e] /\ asleep' = Awoken(e, "write")
           /\ UNCHANGED <<buffer, sent, reader_waker, writer_waker>>
        \/ /\ ~reader_closed[e] /\ room = 0
           /\ writer_waker' = [writer_waker EXCEPT ![e] = TRUE]
           /\ asleep' = asleep \cup {<<e, "write">>}
           /\ UNCHANGED <<buffer, sent, reader_waker>>
        \/ /\ ~reader_closed[e] /\ room > 0
           /\ buffer' = [buffer EXCEPT ![e] = @ \o [i \in 1..k |-> sent[e] + i]]
           /\ sent' = [sent EXCEPT ![e] = @ + k]
           /\ reader_waker' = [reader_waker EXCEPT ![e] = FALSE]
           /\ asleep' = WakeReader(e, Awoken(e, "write"))
           /\ UNCHANGED writer_waker
     /\ UNCHANGED <<writer_closed, reader_closed, halves, received, ended>>

PollShutdown(e) ==
  /\ "write" \in halves[e]
  /\ writer_closed' = [writer_closed EXCEPT ![e] = TRUE]
  /\ reader_waker' = [reader_waker EXCEPT ![e] = FALSE]
  /\ asleep' = WakeReader(e, Awoken(e, "write"))
  /\ UNCHANGED <<buffer, reader_closed, writer_waker, halves, sent, received, ended>>

\* Dropping a half does nothing until it is the last: then the stream closes
\* the pipe it writes to, and after that the one it reads from.
DropHalf(e, half) ==
  /\ half \in halves[e]
  /\ halves' = [halves EXCEPT ![e] = @ \ {half}]
  /\ IF halves[e] = {half}
     THEN /\ writer_closed' = [writer_closed EXCEPT ![e] = TRUE]
          /\ reader_waker' = [reader_waker EXCEPT ![e] = FALSE]
          /\ asleep' = WakeReader(e, Awoken(e, half))
     ELSE asleep' = Awoken(e, half) /\ UNCHANGED <<writer_closed, reader_waker>>
  /\ UNCHANGED <<buffer, reader_closed, writer_waker, sent, received, ended>>

CloseIncoming(e) ==
  LET p == Other(e)
  IN /\ halves[e] = {} /\ ~reader_closed[p]
     /\ reader_closed' = [reader_closed EXCEPT ![p] = TRUE]
     /\ writer_waker' = [writer_waker EXCEPT ![p] = FALSE]
     /\ asleep' = WakeWriter(p, asleep)
     /\ UNCHANGED <<buffer, writer_closed, reader_waker, halves, sent, received, ended>>

Next ==
  \E e \in Ends :
    \/ \E n \in 1..Capacity : PollRead(e, n) \/ PollWrite(e, n)
    \/ PollReadEmpty(e) \/ PollShutdown(e) \/ CloseIncoming(e)
    \/ \E half \in {"read", "write"} : DropHalf(e, half)

Spec == Init /\ [][Next]_vars

\* Every byte arrives once, in order and within the capacity, and a reader is
\* told of the end only when the writer shut down or is gone.
PipesDeliver ==
  \A e \in Ends :
    /\ received[e] \o buffer[e] = [i \in 1..sent[e] |-> i]
    /\ Len(buffer[e]) <= Capacity
    /\ ended[e] => writer_closed[e]

\* A task that got Pending sleeps only as long as it would get it again: no
\* read, write, shutdown or drop of the other side goes unnoticed.
PipesWake ==
  \A e \in Ends :
    /\ <<Other(e), "read">> \in asleep => buffer[e] = <<>> /\ ~writer_closed[e]
    /\ <<e, "write">> \in asleep => Len(buffer[e]) = Capacity /\ ~reader_closed[e]
=============================================================================
