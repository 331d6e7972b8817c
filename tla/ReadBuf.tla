------------------------------- MODULE ReadBuf -------------------------------
(***************************************************************************)
(* ReadBuf of io.rs: a buffer whose bytes may be uninitialized memory, with*)
(* a filled and an initialized prefix.  Readers fill it through any of its *)
(* methods, or through a second ReadBuf that take() opens over the bytes   *)
(* that are still free.                                                    *)
(***************************************************************************)
EXTENDS Naturals

CONSTANT Size  \* of the buffer

ReadBufAssumption == Size \in Nat \ {0}

VARIABLES mem,          \* "uninit", "zero" or "data", for every byte
          filled,
          initialized,
          taken,        \* the ReadBuf over part of this one
          expected      \* how many bytes readers put in since the last clear

vars == <<mem, filled, initialized, taken, expected>>

NoneTaken == [open |-> FALSE, len |-> 0, filled |-> 0, initialized |-> 0]

\* ReadBuf::new and ReadBuf::uninit.
Init ==
  /\ \/ mem = [i \in 1..Size |-> "zero"] /\ initialized = Size
     \/ mem = [i \in 1..Size |-> "uninit"] /\ initialized = 0
  /\ filled = 0 /\ taken = NoneTaken /\ expected = 0

Larger(a, b) == IF a > b THEN a ELSE b
Smaller(a, b) == IF a < b THEN a ELSE b
Written(m, from, n, v) == [i \in DOMAIN m |-> IF i \in from + 1..from + n THEN v ELSE m[i]]

\* Mutant: the bytes up to the filled prefix count as zeroed, too.
ZeroedTooFew(m, from, fill, init, n) ==
  IF init < fill + n THEN Written(m, from + fill, n - 1, "zero") ELSE m

\* initialize_unfilled_to: the bytes past the initialized ones are zeroed.
Zeroed(m, from, fill, init, n) ==
  IF init < fill + n THEN Written(m, from + init, fill + n - init, "zero") ELSE m

\* put_slice: the source has to fit.
PutSlice(n) ==
  /\ ~taken.open /\ n <= Size - filled
  /\ mem' = Written(Zeroed(mem, 0, filled, initialized, n), filled, n, "data")
  /\ initialized' = Larger(initialized, filled + n)
  /\ filled' = filled + n /\ expected' = expected + n
  /\ UNCHANGED taken

\* A reader asks for n zeroed bytes, writes k of them and advances.
InitializeAndAdvance(n, k) ==
  /\ ~taken.open /\ n <= Size - filled /\ k <= n
  /\ mem' = Written(Zeroed(mem, 0, filled, initialized, n), filled, k, "data")
  /\ initialized' = Larger(initialized, filled + n)
  /\ filled + k <= initialized' /\ filled' = filled + k /\ expected' = expected + k
  /\ UNCHANGED taken

\* A reader writes k of the raw unfilled bytes, says so and advances.
AssumeInitAndAdvance(k) ==
  /\ ~taken.open /\ filled + k <= Size
  /\ mem' = Written(mem, filled, k, "data")
  /\ initialized' = Larger(initialized, filled + k)
  /\ filled' = filled + k /\ expected' = expected + k
  /\ UNCHANGED taken

\* set_filled to less, and clear: the bytes stay.
SetFilled(n) ==
  /\ ~taken.open /\ n < filled
  /\ filled' = n /\ expected' = n
  /\ UNCHANGED <<mem, initialized, taken>>

\* take: initialized as far as this buffer is.
Take(n) ==
  /\ ~taken.open
  /\ LET amount == Smaller(n, Size - filled)
         known == IF initialized > filled THEN initialized - filled ELSE 0
     IN taken' = [open |-> TRUE, len |-> amount, filled |-> 0, initialized |-> Smaller(known, amount)]
  /\ UNCHANGED <<mem, filled, initialized, expected>>

\* The reader fills the taken buffer: put_slice, or zeroed bytes it only looks at.
FillTaken(n, k) ==
  /\ taken.open /\ n <= taken.len - taken.filled /\ k <= n
  /\ mem' = Written(Zeroed(mem, filled, taken.filled, taken.initialized, n), filled + taken.filled, k, "data")
  /\ taken' = [taken EXCEPT !.filled = @ + k, !.initialized = Larger(@, taken.filled + n)]
  /\ UNCHANGED <<filled, initialized, expected>>

\* The taken buffer is done: its bytes are now this buffer's.
GiveBack ==
  /\ taken.open /\ taken' = NoneTaken
  /\ initialized' = Larger(initialized, filled + taken.initialized)
  /\ filled' = filled + taken.filled /\ expected' = expected + taken.filled
  /\ UNCHANGED mem

Next ==
  \/ \E n \in 0..Size : \/ PutSlice(n) \/ AssumeInitAndAdvance(n) \/ SetFilled(n) \/ Take(n)
                        \/ \E k \in 0..n : InitializeAndAdvance(n, k) \/ FillTaken(n, k)
  \/ GiveBack

Spec == Init /\ [][Next]_vars

\* Whatever the readers did, the initialized part holds no uninitialized byte
\* and the filled part, which the caller reads, is exactly what readers wrote
\* (ReadBuf of io.rs, also through a buffer that take opened).
NoUninitializedByte ==
  /\ \A i \in 1..initialized : mem[i] # "uninit"
  /\ \A i \in 1..taken.initialized : mem[filled + i] # "uninit"
  /\ filled = expected /\ \A i \in 1..filled : mem[i] = "data"
=============================================================================
