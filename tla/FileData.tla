------------------------------ MODULE FileData -------------------------------
(* The content of a file and the positions in it.                          *)
EXTENDS Integers, Sequences

NoSeek == [from |-> "none", by |-> 0]

\* c with the bytes b at position p; a gap reads as zeros.
Overwritten(c, p, b) ==
  LET end == IF p + Len(b) > Len(c) THEN p + Len(b) ELSE Len(c)
  IN IF b = <<>> THEN c
     ELSE [i \in 1..end |-> IF i \in p + 1..p + Len(b) THEN b[i - p]
                            ELSE IF i <= Len(c) THEN c[i] ELSE 0]

\* Where the seek r goes from position p in content c.
Target(r, p, c) == CASE r.from = "start" -> r.by
                     [] r.from = "current" -> p + r.by
                     [] r.from = "end" -> Len(c) + r.by
=============================================================================
