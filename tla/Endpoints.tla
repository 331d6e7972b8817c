------------------------------ MODULE Endpoints ------------------------------
(***************************************************************************)
(* What the endpoints of the reactor (net.rs, net_unix.rs,                 *)
(* net_unix_pipe.rs, process.rs, AsyncFd of reactor.rs) do through it: the *)
(* operations of each type, by direction and by style.                     *)
(* "retry"  a system call; on WouldBlock wait, clear and try again         *)
(* "guard"  wait for readiness; on WouldBlock clear it and wait again      *)
(* "once"   only with cached readiness, which WouldBlock clears            *)
(* "direct" a system call that leaves the reactor alone                    *)
(* "ready"  wait for readiness and do no I/O                               *)
(***************************************************************************)

Reads(styles) == {[dir |-> "IN", style |-> s] : s \in styles}
Writes(styles) == {[dir |-> "OUT", style |-> s] : s \in styles}
Both(styles) == Reads(styles) \cup Writes(styles)

\* The futures of readable, writable and ready, and poll_*_ready.
AsyncFdWaits == Both({"ready"})

\* try_io and try_io_mut, async_io and async_io_mut.
AsyncFdIo == Both({"once", "guard"})

\* TcpStream, from ready to try_write_vectored.
TcpWaits == Both({"ready", "direct"})

\* Its owned reads and writes.
TcpOwnedIo == Both({"retry"})

\* Its peek, poll_peek, try_io and async_io.
TcpPeekAndIo == Reads({"guard", "retry"}) \cup Both({"once", "guard"})

\* Its poll_read_slice, poll_write_slice, AsyncRead and AsyncWrite.
TcpPolls == Both({"retry"})

\* The borrowed halves.
TcpReadHalfOps == Reads({"ready", "retry", "guard", "direct"})
TcpWriteHalfOps == Writes({"ready", "direct", "retry"})

\* The owned halves, which share the registration of the stream they split.
TcpOwnedReadHalfOps == Reads({"ready", "direct", "retry"})
TcpOwnedWriteHalfOps == Writes({"ready", "direct", "retry"})

\* accept, try_accept and poll_accept of a listener.
TcpListenerOps == Reads({"retry", "direct"})
UnixListenerOps == Reads({"retry"})

\* UdpSocket: readiness, receive and send, peek, try_io and async_io, poll_io.
UdpWaits == Both({"ready"})
UdpTransfers == Both({"retry", "direct"})
UdpPeeks == Reads({"guard", "retry", "direct"})
UdpIo == Both({"once", "guard"})

\* UnixStream: readiness and try_*, try_io and async_io, the polls.
UnixWaits == Both({"ready", "direct"})
UnixIo == Both({"once", "guard"})
UnixPolls == Both({"retry"})
UnixReadHalfOps == Reads({"ready", "direct", "retry"})
UnixWriteHalfOps == Writes({"ready", "direct", "retry"})
UnixOwnedReadHalfOps == Reads({"ready", "direct", "retry"})
UnixOwnedWriteHalfOps == Writes({"ready", "direct", "retry"})

\* UnixDatagram.
DatagramTransfers == Both({"ready", "retry", "direct"})
DatagramIo == Both({"once", "guard"})

\* The ends of a pipe: try_read and try_write need cached readiness here.
SenderTries == Writes({"ready", "once"})
SenderPolls == Writes({"retry"})
ReceiverTries == Reads({"ready", "once"})
ReceiverPolls == Reads({"retry"})

\* The pipes of a child process.
ChildStdinOps == Writes({"retry"})
ChildOutputOps == Reads({"retry"})

\* What the methods of each endpoint type do, for the constant Ops of Reactor.
Methods == [AsyncFd      |-> AsyncFdWaits \cup AsyncFdIo,
            TcpStream    |-> TcpWaits \cup TcpOwnedIo \cup TcpPeekAndIo \cup TcpPolls,
            TcpHalves    |-> TcpReadHalfOps \cup TcpWriteHalfOps,
            TcpOwned     |-> TcpOwnedReadHalfOps \cup TcpOwnedWriteHalfOps,
            TcpListener  |-> TcpListenerOps,
            UdpSocket    |-> UdpWaits \cup UdpTransfers \cup UdpPeeks \cup UdpIo,
            UnixStream   |-> UnixWaits \cup UnixIo \cup UnixPolls,
            UnixHalves   |-> UnixReadHalfOps \cup UnixWriteHalfOps,
            UnixOwned    |-> UnixOwnedReadHalfOps \cup UnixOwnedWriteHalfOps,
            UnixListener |-> UnixListenerOps,
            UnixDatagram |-> DatagramTransfers \cup DatagramIo,
            Sender       |-> SenderTries \cup SenderPolls,
            Receiver     |-> ReceiverTries \cup ReceiverPolls,
            ChildStdin   |-> ChildStdinOps,
            ChildOutput  |-> ChildOutputOps]
=============================================================================
