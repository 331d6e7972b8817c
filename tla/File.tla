--------------------------------- MODULE File --------------------------------
(***************************************************************************)
(* File of fs.rs: at most one blocking operation at a time runs on the     *)
(* operating system's file, on another thread; bytes that were read and not*)
(* taken wait in a buffer.  A future may be dropped after any poll, which  *)
(* leaves the operation running: an action is one poll, and the next one   *)
(* may be of another kind.                                                 *)
(***************************************************************************)
EXTENDS FileData, FiniteSets

CONSTANTS Bytes, MaxLength,  \* bound on the content of the file
          Requests,          \* the seeks callers ask for
          max_buf_size

FileAssumption == /\ 0 \in Bytes /\ MaxLength \in Nat /\ max_buf_size \in Nat \ {0}
                  /\ \A r \in Requests : r.from \in {"start", "current", "end"} /\ r.by \in Int

VARIABLES data, cursor,   \* the file and the position of the operating system
          operation, buffered_read, pending_seek,
          seeking,        \* does the future of the last seek still exist
          strays,         \* tasks of sync_all and the like that still hold the file
          got, told,      \* what the last read and the last seek returned
          converted       \* the outcome of into_std

vars == <<data, cursor, operation, buffered_read, pending_seek, seeking, strays, got, told, converted>>

Slices(n) == UNION {[1..k -> Bytes] : k \in 1..n}
Upto(s, k) == SubSeq(s, 1, k)
After(s, k) == SubSeq(s, k + 1, Len(s))

NoOperation == [kind |-> "none", n |-> 0, bytes |-> <<>>, seek |-> NoSeek, ok |-> TRUE, done |-> FALSE]

Init ==
  /\ data \in {<<>>} \cup Slices(MaxLength) /\ cursor = 0
  /\ operation = NoOperation /\ buffered_read = <<>> /\ pending_seek = NoSeek
  /\ seeking = FALSE /\ strays = 0 /\ got = <<>> /\ told = 0 /\ converted = "no"

\* A blocking task does the operation: a read of up to n bytes, a write after
\* going back over n unread bytes, or a seek.  Whether it fails, and how much of
\* a write gets through before that, was decided when it was handed over.
RunOperation ==
  /\ operation.kind # "none" /\ ~operation.done
  /\ \/ /\ operation.kind = "read" /\ operation.ok /\ UNCHANGED data
        /\ \E k \in 0..operation.n :
             /\ k = 0 <=> cursor >= Len(data)
             /\ cursor + k <= Len(data) \/ k = 0
             /\ cursor' = cursor + k
             /\ operation' = [operation EXCEPT !.done = TRUE, !.bytes = SubSeq(data, cursor + 1, cursor + k)]
     \/ /\ operation.kind = "write" /\ operation' = [operation EXCEPT !.done = TRUE]
        /\ data' = Overwritten(data, cursor - operation.n, operation.bytes)
        /\ cursor' = cursor - operation.n + Len(operation.bytes)
     \/ /\ operation.kind = "seek" /\ operation.ok /\ UNCHANGED data
        /\ cursor' = Target(operation.seek, cursor, data) /\ operation' = [operation EXCEPT !.done = TRUE]
     \/ /\ operation.kind \in {"read", "seek"} /\ ~operation.ok
        /\ operation' = [operation EXCEPT !.done = TRUE] /\ UNCHANGED <<data, cursor>>
  /\ UNCHANGED <<buffered_read, pending_seek, seeking, strays, got, told, converted>>

Calling == ~seeking /\ converted = "no"
Idle == operation = NoOperation

\* poll_operation and finish_operation, at the head of every poll: the bytes
\* of a read go to the buffer.  An error ends the future that was polled.
Collect ==
  /\ operation.done /\ converted = "no"
  /\ seeking => operation.kind # "seek"
  /\ operation' = NoOperation
  /\ buffered_read' = IF operation.kind = "read" THEN buffered_read \o operation.bytes ELSE buffered_read
  /\ seeking' = (seeking /\ operation.ok)
  /\ UNCHANGED <<data, cursor, pending_seek, strays, got, told, converted>>

PollRead(n) ==
  /\ Calling
  /\ \/ /\ buffered_read # <<>>
        /\ LET k == IF n < Len(buffered_read) THEN n ELSE Len(buffered_read)
           IN got' = Upto(buffered_read, k) /\ buffered_read' = After(buffered_read, k)
        /\ UNCHANGED operation
     \/ /\ buffered_read = <<>> /\ Idle
        /\ \E ok \in BOOLEAN :
             operation' = [NoOperation EXCEPT !.kind = "read", !.ok = ok,
                                              !.n = IF n < max_buf_size THEN n ELSE max_buf_size]
        /\ UNCHANGED <<buffered_read, got>>
     \/ /\ buffered_read = <<>> /\ operation.kind = "read" /\ operation.done /\ operation.ok
        /\ operation.bytes = <<>>
        /\ got' = <<>> /\ operation' = NoOperation /\ UNCHANGED buffered_read
  /\ UNCHANGED <<data, cursor, pending_seek, seeking, strays, told, converted>>

\* Mutant: the write goes where the last read ended.
UnreadIgnored == 0

Unread == Len(buffered_read)

\* The caller is told that the bytes are written when the task has them.
PollWrite(b) ==
  LET bytes == IF Len(b) > max_buf_size THEN Upto(b, max_buf_size) ELSE b
  IN /\ Calling /\ Idle /\ cursor - Unread + Len(bytes) <= MaxLength
     /\ \/ \E k \in 0..Len(bytes) :
             operation' = [NoOperation EXCEPT !.kind = "write", !.n = Unread, !.ok = (k = Len(bytes)),
                                              !.bytes = Upto(bytes, k)]
        \/ operation' = [NoOperation EXCEPT !.kind = "write", !.ok = FALSE]  \* going back fails
     /\ buffered_read' = <<>>
     /\ UNCHANGED <<data, cursor, pending_seek, seeking, strays, got, told, converted>>

\* Refused while an earlier seek is pending, even one whose future is gone.
StartSeek(r) ==
  /\ Calling /\ pending_seek = NoSeek /\ operation.kind # "seek"
  /\ pending_seek' = r /\ seeking' = TRUE
  /\ UNCHANGED <<data, cursor, operation, buffered_read, strays, got, told, converted>>

\* poll_complete: the seek is handed over, relative to what was consumed.
PollComplete ==
  /\ seeking /\ Idle
  /\ LET r == IF pending_seek.from = "current" THEN [pending_seek EXCEPT !.by = @ - Unread] ELSE pending_seek
     IN \E ok \in BOOLEAN :
          /\ ok => Target(r, cursor, data) \in 0..MaxLength
          /\ operation' = [NoOperation EXCEPT !.kind = "seek", !.seek = r, !.ok = ok]
  /\ pending_seek' = NoSeek /\ buffered_read' = <<>>
  /\ UNCHANGED <<data, cursor, seeking, strays, got, told, converted>>

SeekDone ==
  /\ seeking /\ operation.kind = "seek" /\ operation.done
  /\ operation' = NoOperation /\ seeking' = FALSE
  /\ told' = IF operation.ok THEN cursor ELSE told
  /\ UNCHANGED <<data, cursor, buffered_read, pending_seek, strays, got, converted>>

DropSeek ==
  /\ seeking /\ seeking' = FALSE
  /\ UNCHANGED <<data, cursor, operation, buffered_read, pending_seek, strays, got, told, converted>>

\* sync_all and the other calls on a shared file wait for the operation and
\* start a task of their own, which goes on if their future is dropped.
SyncAll ==
  /\ Calling /\ (Idle \/ operation.done) /\ strays = 0 /\ strays' = 1
  /\ UNCHANGED <<data, cursor, operation, buffered_read, pending_seek, seeking, got, told, converted>>

StrayEnds ==
  /\ strays = 1 /\ strays' = 0
  /\ UNCHANGED <<data, cursor, operation, buffered_read, pending_seek, seeking, got, told, converted>>

\* into_std, after the operation was collected: the position goes back over
\* the unread bytes, or panics; a file that others still hold cannot be
\* converted.
IntoStd ==
  /\ Calling /\ Idle
  /\ \/ /\ cursor' = cursor - Unread /\ buffered_read' = <<>>
        /\ converted' = IF strays = 0 THEN "ok" ELSE "panicked"
     \/ buffered_read # <<>> /\ converted' = "panicked" /\ UNCHANGED <<cursor, buffered_read>>
  /\ UNCHANGED <<data, operation, pending_seek, seeking, strays, got, told>>

TryIntoStd ==
  /\ Calling /\ Idle /\ buffered_read = <<>> /\ strays = 0 /\ converted' = "ok"
  /\ UNCHANGED <<data, cursor, operation, buffered_read, pending_seek, seeking, strays, got, told>>

Next ==
  \/ RunOperation \/ Collect \/ PollComplete \/ SeekDone \/ DropSeek \/ SyncAll \/ StrayEnds
  \/ IntoStd \/ TryIntoStd
  \/ \E n \in 1..max_buf_size + 1 : PollRead(n)
  \/ \E b \in Slices(max_buf_size + 1) : PollWrite(b)
  \/ \E r \in Requests : StartSeek(r)

Spec == Init /\ [][Next]_vars
-----------------------------------------------------------------------------
(* Properties.                                                             *)

\* What the operation that was handed over will have done.
Content ==
  IF operation.kind = "write" /\ ~operation.done
  THEN Overwritten(data, cursor - operation.n, operation.bytes) ELSE data

Position ==
  CASE operation.done /\ operation.kind = "read" -> cursor - Len(operation.bytes)
    [] ~operation.done /\ operation.kind = "write" -> cursor - operation.n + Len(operation.bytes)
    [] ~operation.done /\ operation.kind = "seek" /\ operation.ok -> Target(operation.seek, cursor, data)
    [] OTHER -> cursor - Len(buffered_read)

Writing == IF operation.kind = "write" THEN operation.bytes ELSE <<>>

Failed == operation.kind \in {"write", "seek"} /\ ~operation.ok

Atomic == INSTANCE AtomicFile
  WITH content <- Content, position <- Position, request <- pending_seek, writing <- Writing,
       failed <- Failed, Skip <- max_buf_size

\* However operations, dropped futures and leftover bytes interleave, reads,
\* accepted writes, seeks and the conversion to a standard file behave like
\* those of a file without buffers and background tasks, but that a seek which
\* fails, or a write that cannot go back first, leaves out what was read ahead.
FileIsAtomic == Atomic!Spec

\* into_std succeeds once the pending operation is done.  Not so while the task
\* of a dropped sync_all holds the file; README.md lists it among the
\* observations.
IntoStdSucceeds == converted # "panicked"
=============================================================================
