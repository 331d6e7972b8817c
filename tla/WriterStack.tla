----------------------------- MODULE WriterStack -----------------------------
(***************************************************************************)
(* The writing side of io.rs: the futures of AsyncWriteExt and the copy    *)
(* functions, on a sink or on a BufWriter around it.  The sink answers     *)
(* every poll as it likes: it accepts some bytes, none, has no room yet, or*)
(* fails.  One step is one poll of the sink or of the source of a copy; a  *)
(* future may be dropped before any of them.                               *)
(***************************************************************************)
EXTENDS Naturals, Sequences, FiniteSets, Functions

CONSTANTS Capacity,  \* of the BufWriter
          Chunk,     \* the buffer of a copy
          MaxBytes,  \* bound on the bytes that are ever written
          Vectors    \* the lengths of the slices of vectored writes

WriterAssumption ==
  /\ Capacity \in Nat \ {0} /\ Chunk \in Nat \ {0} /\ MaxBytes \in Nat
  /\ \A v \in Vectors : \A i \in DOMAIN v : v[i] \in Nat

VARIABLES stack,      \* "plain" or "buffered"
          vectored,   \* does the sink take several slices at once
          buf,        \* BufWriter: accepted bytes, and how many
          written,    \*   of them the sink has
          seek,       \* BufWriter: is a seek waiting for the buffer
          sink,       \* the bytes the sink has
          accepted,   \* the bytes callers were told are written
          made,       \* bytes made up so far; bytes are numbered
          fut,        \* the future being polled
          input,      \* bytes it has in hand, still to be written
          source,     \* bytes a copy has still to read
          last        \* the last result

vars == <<stack, vectored, buf, written, seek, sink, accepted, made, fut, input, source, last>>
writer == <<buf, written, seek>>

NoFuture == [op |-> "none", from |-> 0, want |-> <<>>, slices |-> <<>>, phase |-> "none"]
NoResult == [op |-> "none", got |-> <<>>, want |-> <<>>, reach |-> 0, accepted |-> 0]

Buffered == SubSeq(buf, written + 1, Len(buf))
After(s, k) == SubSeq(s, k + 1, Len(s))
Upto(s, k) == SubSeq(s, 1, k)
Total(v) == FoldFunction(+, 0, v)

Init ==
  /\ stack \in {"plain", "buffered"} /\ vectored \in BOOLEAN
  /\ buf = <<>> /\ written = 0 /\ seek = FALSE
  /\ sink = <<>> /\ accepted = <<>> /\ made = 0
  /\ fut = NoFuture /\ input = <<>> /\ source = <<>> /\ last = NoResult

Simple == {"write", "write_all", "copy", "copy_buf", "copy_direction"}
Passing == {"flush", "shutdown", "read", "seek"}
Copies == {"copy", "copy_buf", "copy_direction"}

\* A call of op with the given slices creates a future.
Begin(op, slices) ==
  LET total == Total(slices)
      bytes == [i \in 1..total |-> made + i]
  IN /\ fut = NoFuture /\ made + total <= MaxBytes
     /\ made' = made + total
     /\ fut' = [op |-> op, from |-> Len(accepted), want |-> bytes, slices |-> slices,
                phase |-> IF op \in Passing THEN "pass" ELSE IF op \in Copies THEN "fill" ELSE "write"]
     /\ input' = IF op \in Copies THEN <<>> ELSE bytes
     /\ source' = IF op \in Copies THEN bytes ELSE <<>>
     /\ UNCHANGED <<stack, vectored, writer, sink, accepted, last>>

Start ==
  \/ \E op \in Simple, k \in 1..Capacity + 1 : Begin(op, <<k>>)
  \/ \E v \in Vectors : Begin("vectored", v)
  \/ \E op \in Passing \ {"seek"} : Begin(op, <<>>)

\* Seek: start_seek when it is first polled; one that was dropped half way
\* makes it fail.
StartSeek ==
  /\ stack = "buffered" /\ ~seek /\ fut = NoFuture
  /\ seek' = TRUE
  /\ fut' = [NoFuture EXCEPT !.op = "seek", !.from = Len(accepted), !.phase = "pass"]
  /\ UNCHANGED <<stack, vectored, buf, written, sink, accepted, made, input, source, last>>

Gone == fut' = NoFuture /\ input' = <<>> /\ source' = <<>>

Result ==
  [op |-> fut.op, got |-> After(accepted, fut.from), want |-> fut.want,
   reach |-> Len(sink), accepted |-> Len(accepted)]

\* Dropped, or ended by an error of the sink or by WriteZero.
Drop ==
  /\ fut # NoFuture /\ Gone
  /\ UNCHANGED <<stack, vectored, writer, sink, accepted, made, last>>
-----------------------------------------------------------------------------
\* The first slice with bytes in it.
FirstSlice == LET i == CHOOSE i \in DOMAIN fut.slices :
                         fut.slices[i] > 0 /\ \A j \in 1..i - 1 : fut.slices[j] = 0
              IN Upto(input, fut.slices[i])

\* What a write has to find room for in one piece: the whole input, or the
\* first slice if the sink takes one slice at a time.
Piece == IF fut.op = "vectored" /\ ~vectored /\ input # <<>> THEN FirstSlice ELSE input

\* BufWriter empties its buffer before anything that the buffer has no room
\* for, and before everything that passes it by.
NeedsFlush ==
  /\ stack = "buffered" /\ buf # <<>>
  /\ \/ fut.phase = "pass"
     \/ fut.phase = "write" /\ Len(Piece) > Capacity - Len(buf)

\* Mutant: a partial write of the buffer is repeated from the start.
PollFlushBufRestarts ==
  /\ NeedsFlush
  /\ \E k \in 1..Len(buf) :
       sink' = sink \o Upto(buf, k) /\ buf' = IF k = Len(buf) THEN <<>> ELSE buf
  /\ UNCHANGED <<stack, vectored, written, seek, accepted, made, fut, input, source, last>>

\* BufWriter::poll_flush_buf gives the sink some of the buffer.
PollFlushBuf ==
  /\ NeedsFlush
  /\ \E k \in 1..Len(Buffered) :
       /\ sink' = sink \o Upto(Buffered, k)
       /\ IF written + k = Len(buf) THEN buf' = <<>> /\ written' = 0
                                    ELSE written' = written + k /\ UNCHANGED buf
  /\ UNCHANGED <<stack, vectored, seek, accepted, made, fut, input, source, last>>

\* poll_write took n bytes: a write is done, the others go on; a copy reads
\* again when it has nothing in hand.
Wrote(n) ==
  /\ accepted' = accepted \o Upto(input, n) /\ UNCHANGED made
  /\ IF fut.op \in {"write", "vectored"}
     THEN Gone /\ last' = [Result EXCEPT !.got = After(accepted', fut.from)]
     ELSE /\ input' = After(input, n)
          /\ fut' = IF n = Len(input) /\ fut.op \in Copies THEN [fut EXCEPT !.phase = "fill"] ELSE fut
          /\ UNCHANGED <<source, last>>

Writing == fut.phase = "write" /\ input # <<>> /\ ~NeedsFlush
Direct == stack = "plain" \/ (buf = <<>> /\ Len(Piece) >= Capacity)

\* The sink takes some of a write that the buffer is not used for.
WriteThrough ==
  /\ Writing /\ Direct
  /\ \E n \in 1..Len(IF vectored THEN input ELSE Piece) : sink' = sink \o Upto(input, n) /\ Wrote(n)
  /\ UNCHANGED <<stack, vectored, writer>>

\* How many bytes of the slices fit in the room, slice by slice.
WholeSlices(room) ==
  LET ends == {Total(Upto(fut.slices, i)) : i \in 0..Len(fut.slices)}
  IN CHOOSE n \in ends : n <= room /\ \A m \in ends : m <= room => m <= n

\* BufWriter::poll_write and poll_write_vectored put the bytes in the buffer.
WriteBuffered ==
  /\ Writing /\ ~Direct
  /\ LET room == Capacity - Len(buf)
         n == IF fut.op = "vectored" THEN WholeSlices(room)
              ELSE IF Len(input) < room THEN Len(input) ELSE room
     IN buf' = buf \o Upto(input, n) /\ Wrote(n)
  /\ UNCHANGED <<stack, vectored, written, seek, sink>>

\* write_all has nothing left, a vectored write had nothing.
WriteDone ==
  /\ fut.op \in {"write_all", "vectored"} /\ input = <<>>
  /\ last' = Result /\ Gone
  /\ UNCHANGED <<stack, vectored, writer, sink, accepted, made>>

\* A copy has written what it had and reads more, or finds the end.  copy_buf
\* leaves the bytes in the reader until they are written.
FillCopy ==
  /\ fut.phase = "fill"
  /\ \/ /\ source = <<>> /\ fut' = [fut EXCEPT !.phase = "pass"] /\ UNCHANGED <<input, source>>
     \/ \E k \in 1..Chunk :
          /\ k <= Len(source) /\ input' = Upto(source, k) /\ source' = After(source, k)
          /\ fut' = [fut EXCEPT !.phase = "write"]
  /\ UNCHANGED <<stack, vectored, writer, sink, accepted, made, last>>

\* flush, shutdown, read and a pending seek reach the sink when the buffer is
\* empty; a copy ends with a flush or, between two streams, with a shutdown.
Pass ==
  /\ fut.phase = "pass" /\ ~NeedsFlush
  /\ seek' = (IF fut.op = "seek" THEN FALSE ELSE seek)
  /\ last' = Result /\ Gone
  /\ UNCHANGED <<stack, vectored, buf, written, sink, accepted, made>>

Next == Start \/ StartSeek \/ Drop \/ PollFlushBuf \/ WriteThrough \/ WriteBuffered
        \/ WriteDone \/ FillCopy \/ Pass

Spec == Init /\ [][Next]_vars
-----------------------------------------------------------------------------
(* Properties.                                                             *)

\* The sink gets the bytes callers were told are written, each once and in the
\* order of the calls, whatever is dropped half way.
WritesInOrder == sink \o Buffered = accepted /\ Len(buf) <= Capacity

\* Where a bigger write, a flush, a copy, a read or a seek succeeds, it has
\* happened to everything written before it: write_all and the copies wrote
\* all their bytes, and nothing is left in the buffer when the sink is flushed,
\* shut down, read or moved.
WritesAreComplete ==
  /\ last.op \in {"write_all"} \cup Copies => last.got = last.want
  /\ last.op \in Passing \cup Copies => last.reach = last.accepted
=============================================================================
