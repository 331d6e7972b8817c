--------------------------------- MODULE MCIo ---------------------------------
(*****************************************************************************)
(* The I/O traits and what implements them without the reactor, for TLC.     *)
(* The components share no state: a behaviour is about one of them, and the  *)
(* others are absent: their variables are 0 throughout, the file is empty    *)
(* and the ReadBuf, whose module this one extends, as it was initially.      *)
(*****************************************************************************)
EXTENDS ReadBuf, Integers, Sequences

\* The slices of vectored writes, and the seeks, by their lengths.
SomeVectors == {<<0, 1>>, <<1, 1>>, <<1, 2>>, <<2, 1>>}
SomeRequests ==
  {[from |-> "start", by |-> 1], [from |-> "current", by |-> -1], [from |-> "end", by |-> 0]}

CONSTANTS Bytes, MaxLength, Capacity, Chunk, Sizes,         \* Readers
          WriterCapacity, CopyChunk, MaxBytes, Vectors,     \* WriterStack
          PipeCapacity, MaxSent,                            \* MemoryPipe
          MaxInput, MaxCalls, StdSizes,                     \* StandardStreams
          FileBytes, FileLength, Requests, max_buf_size     \* File

VARIABLES which,
          content, readerStack, st, allowed, readerFut, held, gone, readerLast,
          writerStack, vectored, buf, written, seek, sink, accepted, made, writerFut,
          writerInput, source, writerLast,
          buffer, writer_closed, reader_closed, reader_waker, writer_waker, halves,
          asleep, sent, pipeReceived, ended,
          stdInput, reading, reader, stdReceived, lost, abandoned, writing, output, calls,
          data, cursor, operation, buffered_read, pending_seek, seeking, strays, got,
          told, converted

Rd == INSTANCE Readers
       WITH stack <- readerStack, fut <- readerFut, last <- readerLast
Wr == INSTANCE WriterStack
       WITH Capacity <- WriterCapacity, Chunk <- CopyChunk, stack <- writerStack,
            fut <- writerFut, input <- writerInput, last <- writerLast
Mem == INSTANCE MemoryPipe
        WITH Capacity <- PipeCapacity, MaxBytes <- MaxSent, received <- pipeReceived
Std == INSTANCE StandardStreams
        WITH Sizes <- StdSizes, input <- stdInput, received <- stdReceived
Fil == INSTANCE File
        WITH Bytes <- FileBytes, MaxLength <- FileLength

ASSUME Constants == Rd!ReadersAssumption /\ Wr!WriterAssumption
                /\ ReadBufAssumption /\ Mem!MemoryPipeAssumption
                /\ Std!StandardStreamsAssumption /\ Fil!FileAssumption

readerVars == <<content, readerStack, st, allowed, readerFut, held, gone, readerLast>>
writerVars == <<writerStack, vectored, buf, written, seek, sink, accepted, made,
                writerFut, writerInput, source, writerLast>>
pipeVars == <<buffer, writer_closed, reader_closed, reader_waker, writer_waker, halves,
              asleep, sent, pipeReceived, ended>>
stdVars == <<stdInput, reading, reader, stdReceived, lost, abandoned, writing, output, calls>>
fileVars == <<data, cursor, operation, buffered_read, pending_seek, seeking, strays,
              got, told, converted>>
allVars == <<which, readerVars, writerVars, vars, pipeVars, stdVars, fileVars>>

\* There is no such component.
NoReaders ==
  /\ content = 0 /\ readerStack = 0 /\ st = 0 /\ allowed = 0 /\ readerFut = 0
  /\ held = 0 /\ gone = 0 /\ readerLast = 0
NoWriterStack ==
  /\ writerStack = 0 /\ vectored = 0 /\ buf = 0 /\ written = 0 /\ seek = 0
  /\ sink = 0 /\ accepted = 0 /\ made = 0 /\ writerFut = 0 /\ writerInput = 0
  /\ source = 0 /\ writerLast = 0
NoReadBuf == Init /\ initialized = 0
NoMemoryPipe ==
  /\ buffer = 0 /\ writer_closed = 0 /\ reader_closed = 0 /\ reader_waker = 0
  /\ writer_waker = 0 /\ halves = 0 /\ asleep = 0 /\ sent = 0 /\ pipeReceived = 0
  /\ ended = 0
NoStandardStreams ==
  /\ stdInput = 0 /\ reading = 0 /\ reader = 0 /\ stdReceived = 0 /\ lost = 0
  /\ abandoned = 0 /\ writing = 0 /\ output = 0 /\ calls = 0

\* A file that nobody uses is empty and stays so.
NoFile == Fil!Init /\ data = <<>>

IoInit ==
  \/ /\ which = "Readers" /\ NoWriterStack /\ NoReadBuf /\ NoMemoryPipe
     /\ NoStandardStreams /\ NoFile /\ Rd!Init
  \/ /\ which = "WriterStack" /\ NoReaders /\ NoReadBuf /\ NoMemoryPipe
     /\ NoStandardStreams /\ NoFile /\ Wr!Init
  \/ /\ which = "ReadBuf" /\ NoReaders /\ NoWriterStack /\ NoMemoryPipe
     /\ NoStandardStreams /\ NoFile /\ Init
  \/ /\ which = "MemoryPipe" /\ NoReaders /\ NoWriterStack /\ NoReadBuf
     /\ NoStandardStreams /\ NoFile /\ Mem!Init
  \/ /\ which = "StandardStreams" /\ NoReaders /\ NoWriterStack /\ NoReadBuf
     /\ NoMemoryPipe /\ NoFile /\ Std!Init
  \/ /\ which = "File" /\ NoReaders /\ NoWriterStack /\ NoReadBuf /\ NoMemoryPipe
     /\ NoStandardStreams /\ Fil!Init

IoNext ==
  \/ /\ which = "Readers" /\ Rd!Next
     /\ UNCHANGED <<which, writerVars, vars, pipeVars, stdVars, fileVars>>
  \/ /\ which = "WriterStack" /\ Wr!Next
     /\ UNCHANGED <<which, readerVars, vars, pipeVars, stdVars, fileVars>>
  \/ /\ which = "ReadBuf" /\ Next
     /\ UNCHANGED <<which, readerVars, writerVars, pipeVars, stdVars, fileVars>>
  \/ /\ which = "MemoryPipe" /\ Mem!Next
     /\ UNCHANGED <<which, readerVars, writerVars, vars, stdVars, fileVars>>
  \/ /\ which = "StandardStreams" /\ Std!Next
     /\ UNCHANGED <<which, readerVars, writerVars, vars, pipeVars, fileVars>>
  \/ /\ which = "File" /\ Fil!Next
     /\ UNCHANGED <<which, readerVars, writerVars, vars, pipeVars, stdVars>>

IoSpec == IoInit /\ [][IoNext]_allVars
-----------------------------------------------------------------------------
\* Whatever the pieces a source answers in, reading through Chain, Take and
\* BufReader loses no byte, and a future returns what it would return from
\* the whole content at once (Readers).
ReadersAreExact == which = "Readers" => Rd!ReadersAreExact

\* The sink gets the bytes callers were told are written, once and in order;
\* what succeeded after them found none of them in the buffer (WriterStack).
WritesAreExact == which = "WriterStack" => Wr!WritesInOrder /\ Wr!WritesAreComplete

\* Through a pipe in memory every byte arrives once and in order, and neither
\* end sleeps through what the other does (MemoryPipe).  Every byte of standard
\* input is received once and in order, except those of a dropped read that do
\* not fit the next caller's buffer, and a caller of standard output is told how
\* many of its own bytes are on the stream, except that the number a dropped
\* write wrote goes to the next caller instead (StandardStreams).
StreamsConserve ==
  /\ which = "MemoryPipe" => Mem!PipesDeliver /\ Mem!PipesWake
  /\ which = "StandardStreams" => Std!StandardStreamsConserve

\* A file whose operations run elsewhere, one at a time, and which reads ahead,
\* behaves like one whose operations are atomic (File implements AtomicFile).
FileIsAtomic == Fil!FileIsAtomic
=============================================================================
