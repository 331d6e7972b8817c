------------------------------- MODULE Readers -------------------------------
(***************************************************************************)
(* The reading adapters of io.rs over a source that answers every poll as  *)
(* it likes: with some bytes, with none yet, or with an error.  One step   *)
(* is one poll of the innermost reader; a future may be dropped before any *)
(* of them.  A result is compared with what a reader of the whole content  *)
(* at once would return.                                                   *)
(***************************************************************************)
EXTENDS Integers, Sequences, FiniteSets, FiniteSetsExt

CONSTANTS Bytes,      \* "n" is a newline, "r" a carriage return, "u" is not UTF-8
          MaxLength,  \* bound on the content of the source
          Capacity,   \* of the BufReader
          Chunk,      \* the 8 KiB of read_to_end and read_to_string
          Sizes       \* lengths of the caller's buffers, and limits of Take

ReadersAssumption ==
  /\ MaxLength \in Nat /\ Capacity \in Nat \ {0} /\ Chunk \in Nat \ {0}
  /\ Sizes \subseteq Nat /\ {"n", "r", "u"} \subseteq Bytes

VARIABLES content,  \* everything the source or the two sources of a chain hold
          stack,    \* the adapter the operations are called on
          st,       \* the state of the sources and of the adapter
          allowed,  \* how much of the content the adapter lets through
          fut,      \* the future being polled
          held,     \* bytes the future took from the adapter
          gone,     \* how many bytes earlier futures took
          last      \* the last result

vars == <<content, stack, st, allowed, fut, held, gone, last>>

Contents == UNION {[1..k -> Bytes] : k \in 0..MaxLength}
NoFuture == [op |-> "none", n |-> 0]
NoResult == [op |-> "none", n |-> 0, from |-> 0, bytes |-> <<>>, out |-> "none"]

Min2(a, b) == IF a < b THEN a ELSE b
Upto(s, k) == SubSeq(s, 1, k)
After(s, k) == SubSeq(s, k + 1, Len(s))

Outcome(res, bytes, s) == [res |-> res, bytes |-> bytes, st |-> s]

\* External: the innermost reader may be pending, fail, or give up to n bytes;
\* it gives none only at its end.
SourceRead(q, n) ==
  {[res |-> "pending", k |-> 0], [res |-> "error", k |-> 0]}
    \cup {[res |-> "ready", k |-> k] :
            k \in IF n = 0 \/ q = <<>> THEN {0} ELSE 1..Min2(n, Len(q))}

PlainRead(s, n) ==
  {Outcome(o.res, Upto(s.left, o.k), [s EXCEPT !.left = After(@, o.k)]) :
     o \in SourceRead(s.left, n)}

SecondRead(s, n) ==
  {Outcome(o.res, Upto(s.right, o.k), [s EXCEPT !.right = After(@, o.k)]) :
     o \in SourceRead(s.right, n)}

\* Chain: the end of the first reader moves on to the second in the same poll.
ChainRead(s, n) ==
  IF ~s.reading_first THEN SecondRead(s, n)
  ELSE LET first == PlainRead(s, n)
           ended == {o \in first : o.res = "ready" /\ o.bytes = <<>>}
       IN (first \ ended)
            \cup UNION {SecondRead([o.st EXCEPT !.reading_first = FALSE], n) : o \in ended}

\* Take: no more than the limit, which shrinks by what was read.
TakeRead(s, n) ==
  IF s.limit = 0 \/ n = 0 THEN {Outcome("ready", <<>>, s)}
  ELSE {[o EXCEPT !.st.limit = @ - Len(o.bytes)] : o \in PlainRead(s, Min2(s.limit, n))}

\* BufReader hands out up to n bytes of what it has buffered.
HandOut(s, n) ==
  LET k == Min2(n, Len(s.buf)) IN Outcome("ready", Upto(s.buf, k), [s EXCEPT !.buf = After(@, k)])

\* BufReader::poll_fill_buf refills an empty buffer.
FillBuf(s) ==
  IF s.buf # <<>> THEN {Outcome("ready", s.buf, s)}
  ELSE {IF o.res = "ready" THEN [o EXCEPT !.st.buf = o.bytes] ELSE o : o \in PlainRead(s, Capacity)}

\* Mutant: a large read goes past the buffer even if it holds bytes.
BufReadBypasses(s, n) ==
  CASE n = 0 -> {Outcome("ready", <<>>, s)}
    [] n >= Capacity -> PlainRead(s, n)
    [] OTHER -> {IF o.res = "ready" THEN HandOut(o.st, n) ELSE o : o \in FillBuf(s)}

\* BufReader::poll_read: an empty buffer is passed by if the caller's is as large.
BufRead(s, n) ==
  CASE n = 0 -> {Outcome("ready", <<>>, s)}
    [] n > 0 /\ s.buf = <<>> /\ n >= Capacity -> PlainRead(s, n)
    [] OTHER -> {IF o.res = "ready" THEN HandOut(o.st, n) ELSE o : o \in FillBuf(s)}

PollRead(s, n) == CASE stack = "plain" -> PlainRead(s, n)
                    [] stack = "chain" -> ChainRead(s, n)
                    [] stack = "take" -> TakeRead(s, n)
                    [] stack = "buffered" -> BufRead(s, n)

Init ==
  /\ content \in Contents /\ stack \in {"plain", "chain", "take", "buffered"}
  /\ \E cut \in 0..Len(content), limit \in Sizes :
       /\ stack # "chain" => cut = Len(content)
       /\ stack # "take" => limit = CHOOSE n \in Sizes : TRUE
       /\ st = [left |-> Upto(content, cut), right |-> After(content, cut),
                reading_first |-> TRUE, limit |-> limit, buf |-> <<>>]
       /\ allowed = IF stack = "take" THEN Min2(limit, Len(content)) ELSE Len(content)
  /\ fut = NoFuture /\ held = <<>> /\ gone = 0 /\ last = NoResult
-----------------------------------------------------------------------------
AnyReader == {"read", "read_exact", "read_to_end", "read_to_string"}
BufReaders == {"fill_buf", "read_until", "read_line", "next_line", "next_segment"}

\* A call creates a future.
Start(op, n) ==
  /\ fut = NoFuture
  /\ op \in IF stack = "buffered" THEN AnyReader \cup BufReaders ELSE AnyReader
  /\ n # 0 => op \in {"read", "read_exact"}
  /\ fut' = [op |-> op, n |-> n]
  /\ UNCHANGED <<content, stack, st, allowed, held, gone, last>>

\* The future ends: bytes are its result, all are the bytes it took.
Finish(out, bytes, all) ==
  /\ last' = [op |-> fut.op, n |-> fut.n, from |-> gone, bytes |-> bytes, out |-> out]
  /\ gone' = gone + Len(all) /\ held' = <<>> /\ fut' = NoFuture

Goes(h) == held' = h /\ UNCHANGED <<fut, gone, last>>

Stays == UNCHANGED <<content, stack, allowed>>

\* A future that ends without a result: what it took is gone with it, or left
\* in the caller's buffer.
Lose == gone' = gone + Len(held) /\ held' = <<>> /\ fut' = NoFuture /\ UNCHANGED last

Drop == fut # NoFuture /\ Lose /\ Stays /\ UNCHANGED st

\* The source has nothing yet, or fails and the future passes the error on; a
\* chain may have moved on to its second reader before that.
NotReady ==
  /\ fut # NoFuture /\ Stays
  /\ \E o \in PollRead(st, 1) :
       /\ o.res # "ready" /\ st' = o.st
       /\ IF o.res = "pending" THEN Goes(held) ELSE Lose

Read ==
  /\ fut.op = "read" /\ Stays
  /\ \/ fut.n = 0 /\ Finish("ok", <<>>, <<>>) /\ UNCHANGED st
     \/ fut.n > 0 /\ \E o \in PollRead(st, fut.n) :
          /\ o.res = "ready" /\ st' = o.st /\ Finish("ok", o.bytes, o.bytes)

ReadExact ==
  /\ fut.op = "read_exact" /\ Stays
  /\ \/ Len(held) = fut.n /\ Finish("ok", held, held) /\ UNCHANGED st
     \/ Len(held) < fut.n /\ \E o \in PollRead(st, fut.n - Len(held)) :
          /\ o.res = "ready" /\ st' = o.st
          /\ IF o.bytes = <<>> THEN Finish("eof", held, held) ELSE Goes(held \o o.bytes)

ReadToEnd ==
  /\ fut.op = "read_to_end" /\ Stays
  /\ \E o \in PollRead(st, Chunk) :
       /\ o.res = "ready" /\ st' = o.st
       /\ IF o.bytes = <<>> THEN Finish("ok", held, held) ELSE Goes(held \o o.bytes)

Utf8(s) == \A i \in DOMAIN s : s[i] # "u"

\* The bytes are checked once the end is reached.
FinishString(s, stripped) ==
  IF Utf8(s) THEN Finish("ok", stripped, s) ELSE Finish("invalid", <<>>, s)

ReadToString ==
  /\ fut.op = "read_to_string" /\ Stays
  /\ \E o \in PollRead(st, Chunk) :
       /\ o.res = "ready" /\ st' = o.st
       /\ IF o.bytes = <<>> THEN FinishString(held, held) ELSE Goes(held \o o.bytes)

\* The caller looks at the buffer and consumes some of it.
FillBufAndConsume ==
  /\ fut.op = "fill_buf" /\ Stays
  /\ \E o \in FillBuf(st) :
       /\ o.res = "ready"
       /\ \E k \in 0..Len(o.bytes) :
            st' = HandOut(o.st, k).st /\ Finish("ok", Upto(o.bytes, k), Upto(o.bytes, k))

\* How much of the available bytes belongs to the segment.
Used(available, d) ==
  LET ends == {i \in DOMAIN available : available[i] = d}
  IN IF ends = {} THEN Len(available) ELSE Min(ends)

Ends(s, d) == s # <<>> /\ s[Len(s)] = d
Chop(s, d) == IF Ends(s, d) THEN Upto(s, Len(s) - 1) ELSE s

\* read_until and, on top of it, next_segment: through the delimiter, or to the
\* end.
ReadUntil ==
  /\ fut.op \in {"read_until", "next_segment"} /\ Stays
  /\ \E o \in FillBuf(st) :
       LET u == Used(o.bytes, "n")
           h == held \o Upto(o.bytes, u)
       IN /\ o.res = "ready" /\ st' = HandOut(o.st, u).st
          /\ IF o.bytes = <<>> \/ Ends(h, "n")
             THEN IF fut.op = "read_until" THEN Finish("ok", h, h)
                  ELSE Finish(IF h = <<>> THEN "none" ELSE "ok", Chop(h, "n"), h)
             ELSE Goes(h)

\* next_line drops a line feed and a carriage return before it.
Stripped(h) == IF Ends(h, "n") THEN Chop(Chop(h, "n"), "r") ELSE h

ReadLine ==
  /\ fut.op \in {"read_line", "next_line"} /\ Stays
  /\ \E o \in FillBuf(st) :
       LET u == Used(o.bytes, "n")
           h == held \o Upto(o.bytes, u)
       IN /\ o.res = "ready" /\ st' = HandOut(o.st, u).st
          /\ IF o.bytes = <<>> \/ Ends(h, "n")
             THEN CASE fut.op = "read_line" -> FinishString(h, h)
                    [] h = <<>> -> Finish("none", <<>>, <<>>)
                    [] OTHER -> FinishString(h, Stripped(h))
             ELSE Goes(h)

\* The buffer is dropped and the inner reader goes to p, for the caller to.
SeekTo(p, to) ==
  /\ st' = [st EXCEPT !.buf = <<>>, !.left = After(content, p)]
  /\ gone' = to /\ last' = NoResult /\ Stays /\ UNCHANGED <<fut, held>>

\* start_seek and poll_complete of BufReader over a reader that seeks: an offset
\* from the current position counts from the first buffered byte.  If the inner
\* reader fails, what was buffered is passed over.
Seek ==
  LET inner == Len(content) - Len(st.left)
  IN /\ stack = "buffered" /\ fut = NoFuture
     /\ \/ \E p \in 0..Len(content) : SeekTo(p, p)
        \/ \E by \in -gone..(Len(content) - gone) :
             SeekTo(inner + (by - Len(st.buf)), gone + by)
        \/ SeekTo(inner, inner)

Next ==
  \/ \E op \in AnyReader \cup BufReaders, n \in Sizes \cup {0} : Start(op, n)
  \/ Drop \/ NotReady \/ Read \/ ReadExact \/ ReadToEnd \/ ReadToString
  \/ FillBufAndConsume \/ ReadUntil \/ ReadLine \/ Seek

Spec == Init /\ [][Next]_vars
-----------------------------------------------------------------------------
(* Properties.                                                             *)

\* What the stack lets through.
Whole == Upto(content, allowed)

\* Where the segment that starts after position a ends.
SegmentEnd(a) ==
  LET ends == {i \in (a + 1)..allowed : content[i] = "n"}
  IN IF ends = {} THEN allowed ELSE Min(ends)

\* No byte is lost, repeated or reordered by buffering, bypassing the buffer,
\* chaining, limiting or seeking: what futures took, hold and can still read is the
\* content.
BytesConserved ==
  held \o st.buf \o st.left \o st.right = After(content, gone)

\* Whatever the pieces the source answers in, a future returns what it would
\* return from the whole content at once.
ResultsAreWhole ==
  LET a == last.from
      b == last.bytes
      rest == After(Whole, a)
      segment == SubSeq(content, a + 1, SegmentEnd(a))
  IN CASE last.op = "read" ->
            b = Upto(rest, Len(b)) /\ (b = <<>> => last.n = 0 \/ rest = <<>>)
       [] last.op = "read_exact" ->
            IF last.out = "ok" THEN b = Upto(rest, last.n) ELSE b = rest /\ Len(rest) < last.n
       [] last.op = "read_to_end" -> b = rest
       [] last.op = "read_to_string" ->
            IF last.out = "ok" THEN b = rest /\ Utf8(rest) ELSE ~Utf8(rest)
       [] last.op = "read_until" -> b = segment
       [] last.op = "next_segment" ->
            b = Chop(segment, "n") /\ (last.out = "none" <=> rest = <<>>)
       [] last.op = "read_line" ->
            IF last.out = "ok" THEN b = segment /\ Utf8(segment) ELSE ~Utf8(segment)
       [] last.op = "next_line" ->
            /\ last.out = "none" <=> rest = <<>>
            /\ last.out = "ok" => b = Stripped(segment)
            /\ last.out = "invalid" <=> ~Utf8(segment)
       [] OTHER -> TRUE

\* Reading through the adapters is reading the content.
ReadersAreExact == BytesConserved /\ ResultsAreWhole
=============================================================================
