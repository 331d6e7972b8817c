----------------------------- MODULE AtomicFile ------------------------------
(***************************************************************************)
(* What a file promises: every read, write and seek happens at one moment, *)
(* at the position the one before it left.  A seek that fails, and a write *)
(* that fails before its first byte, may still move on over bytes that were*)
(* read ahead, at most Skip of them.                                       *)
(***************************************************************************)
EXTENDS FileData

CONSTANTS Bytes, Skip

VARIABLES content, position,
          request,  \* the seek that was asked for
          writing,  \* what the last write wrote, until it is collected
          failed,   \* did the last write or seek fail, until it is collected
          got,      \* the bytes the last read returned
          told      \* the position the last seek returned

vars == <<content, position, request, writing, failed, got, told>>

Init == content \in Seq(Bytes) /\ position = 0 /\ request = NoSeek /\ writing = <<>>
        /\ failed = FALSE /\ got = <<>> /\ told = 0

\* At least one byte, unless the position is at the end.
Read ==
  /\ position' >= position
  /\ position' = position <=> position >= Len(content)
  /\ position' > position => position' <= Len(content)
  /\ got' = SubSeq(content, position + 1, position')
  /\ UNCHANGED <<content, request, writing, failed, told>>

Idle == writing = <<>> /\ ~failed

\* A write that fails writes less than it was given, or nothing.
Write ==
  /\ Idle /\ writing' # <<>> /\ failed' \in BOOLEAN
  /\ content' = Overwritten(content, position, writing')
  /\ position' = position + Len(writing')
  /\ UNCHANGED <<request, got, told>>

WriteNothing ==
  /\ Idle /\ failed' = TRUE /\ position' \in position..position + Skip
  /\ UNCHANGED <<content, request, writing, got, told>>

Collect ==
  writing' = <<>> /\ failed' = FALSE /\ UNCHANGED <<content, position, request, got, told>>

AskToSeek ==
  /\ request = NoSeek /\ request' # NoSeek
  /\ UNCHANGED <<content, position, writing, failed, got, told>>

Seek ==
  /\ Idle /\ request # NoSeek /\ request' = NoSeek
  /\ IF failed' THEN position' \in position..position + Skip
     ELSE position' = Target(request, position, content)
  /\ failed' \in BOOLEAN /\ UNCHANGED <<content, writing, got, told>>

Tell == told' = position /\ UNCHANGED <<content, position, request, writing, failed, got>>

Next == Read \/ Write \/ WriteNothing \/ Collect \/ AskToSeek \/ Seek \/ Tell

Spec == Init /\ [][Next]_vars
=============================================================================
