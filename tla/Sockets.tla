------------------------------- MODULE Sockets -------------------------------
(***************************************************************************)
(* The descriptor of a stream socket from connect to close: TcpStream,     *)
(* TcpSocket and UnixStream connect without blocking, and the connected    *)
(* stream is split, reunited, turned into a standard one or dropped.  What *)
(* is read and written through it is modelled with the reactor.            *)
(***************************************************************************)
EXTENDS Naturals, FiniteSets

CONSTANT MaxAddresses  \* bound on what a name resolves to

SocketsAssumption == MaxAddresses \in Nat \ {0}

VARIABLES socketVia,         \* which connect this is
          addresses,         \* how many are still to be tried
          socketPc,          \* where the future of connect is
          fd,                \* the state of the descriptor
          socketRegistered,  \* is it registered with the reactor
          owners,            \* the values that share it
          fin                \* was its write direction shut down

socketVars == <<socketVia, addresses, socketPc, fd, socketRegistered, owners, fin>>

SocketsInit ==
  /\ socketVia \in {"TcpStream", "TcpSocket", "UnixStream"}
  /\ addresses = 0 /\ socketPc = "resolve" /\ fd = "none" /\ socketRegistered = FALSE
  /\ owners = {} /\ fin = FALSE

\* resolve; a TcpSocket or a Unix path is one address.
Resolve ==
  /\ socketPc = "resolve" /\ socketPc' = "next"
  /\ addresses' \in IF socketVia = "TcpStream" THEN 0..MaxAddresses ELSE {1}
  /\ UNCHANGED <<socketVia, fd, socketRegistered, owners, fin>>

Close == fd' = "none" /\ socketRegistered' = FALSE /\ owners' = {}

\* This address failed: the next one, if there is one.
GiveUp == /\ Close /\ UNCHANGED <<socketVia, fin>>
          /\ addresses' = addresses - 1
          /\ socketPc' = IF addresses = 1 THEN "error" ELSE "next"

\* The descriptor becomes a stream, or it cannot be registered: TcpStream does
\* that after its loop over the addresses and fails for good.
FromStd ==
  /\ UNCHANGED <<socketVia, addresses, fin>>
  /\ \/ socketPc' = "connected" /\ socketRegistered' = TRUE /\ owners' = {"stream"} /\ UNCHANGED fd
     \/ socketPc' = "error" /\ Close

NoAddresses ==
  /\ socketPc = "next" /\ addresses = 0 /\ socketPc' = "error"
  /\ UNCHANGED <<socketVia, addresses, fd, socketRegistered, owners, fin>>

\* socket and connect: refused at once, connected at once, or in progress.  A
\* Unix socket also takes a full backlog for progress.
SocketFails == socketPc = "next" /\ addresses > 0 /\ GiveUp

StartConnect ==
  /\ socketPc = "next" /\ addresses > 0 /\ socketPc' = "called"
  /\ fd' \in {"refused", "established", "connecting"}
               \cup (IF socketVia = "UnixStream" THEN {"unconnected"} ELSE {})
  /\ owners' = {"future"}
  /\ UNCHANGED <<socketVia, addresses, socketRegistered, fin>>

Connected ==
  /\ socketPc = "called"
  /\ \/ fd = "refused" /\ GiveUp
     \/ fd = "established" /\ FromStd
     \/ fd \in {"connecting", "unconnected"} /\ GiveUp  \* it cannot be registered
     \/ /\ fd \in {"connecting", "unconnected"} /\ socketRegistered' = TRUE /\ socketPc' = "wait"
        /\ UNCHANGED <<socketVia, addresses, fd, owners, fin>>

\* External: the kernel finishes the handshake.
Kernel ==
  /\ fd = "connecting" /\ socketRegistered /\ fd' \in {"established", "failed"}
  /\ UNCHANGED <<socketVia, addresses, socketPc, socketRegistered, owners, fin>>

\* Mutant: the error of the socket is not asked for.
WritableIsConnected ==
  /\ socketPc = "wait" /\ fd \in {"established", "failed", "unconnected"}
  /\ IF socketVia = "TcpStream" THEN FromStd
     ELSE /\ socketPc' = "connected" /\ owners' = {"stream"}
          /\ UNCHANGED <<socketVia, addresses, fd, socketRegistered, fin>>

\* writable returned: the socket has an error or is connected.  TcpStream takes
\* it out of its first registration and makes a second one.
Writable ==
  /\ socketPc = "wait" /\ fd \in {"established", "failed", "unconnected"}
  /\ IF fd = "failed" THEN GiveUp
     ELSE IF socketVia = "TcpStream" THEN FromStd
     ELSE /\ socketPc' = "connected" /\ owners' = {"stream"}
          /\ UNCHANGED <<socketVia, addresses, fd, socketRegistered, fin>>

\* writable or take_error fails, whatever became of the socket.
WaitFails == socketPc = "wait" /\ GiveUp

DropConnect ==
  /\ socketPc \in {"next", "wait"} /\ socketPc' = "error" /\ Close
  /\ UNCHANGED <<socketVia, addresses, fin>>
-----------------------------------------------------------------------------
Gives(from, to) ==
  /\ from \subseteq owners /\ owners' = (owners \ from) \cup to
  /\ UNCHANGED <<socketVia, addresses, socketPc>>

Stays == UNCHANGED <<fd, socketRegistered, fin>>
Shuts == fin' = TRUE /\ UNCHANGED <<fd, socketRegistered>>

\* The last owner closes the descriptor.
Drops(o) ==
  /\ Gives({o}, {})
  /\ IF owners = {o} THEN fd' = "none" /\ socketRegistered' = FALSE
                     ELSE UNCHANGED <<fd, socketRegistered>>

IntoSplit == Gives({"stream"}, {"read", "write"}) /\ Stays
Reunite == Gives({"read", "write"}, {"stream"}) /\ Stays
PollShutdown == owners \cap {"stream", "write"} # {} /\ Gives({}, {}) /\ Shuts

\* Dropping the write half tells the peer; forgetting it does not.
DropWriteHalf == Drops("write") /\ fin' = TRUE
Forget == Drops("write") /\ UNCHANGED fin
DropOther(o) == o # "write" /\ Drops(o) /\ UNCHANGED fin

\* Only an unshared stream; it is taken out of the reactor.
IntoStd ==
  /\ Gives({"stream"}, {"std"}) /\ owners = {"stream"}
  /\ socketRegistered' = FALSE /\ UNCHANGED <<fd, fin>>

SocketsNext ==
  \/ Resolve \/ NoAddresses \/ SocketFails \/ StartConnect \/ Connected
  \/ Kernel \/ Writable \/ WaitFails \/ DropConnect
  \/ IntoSplit \/ Reunite \/ PollShutdown \/ DropWriteHalf \/ Forget \/ IntoStd
  \/ \E o \in {"stream", "read", "std"} : DropOther(o)

SocketsSpec == SocketsInit /\ [][SocketsNext]_socketVars

\* A TCP connect that succeeds returns an established connection, the reactor
\* knows the descriptor exactly while a stream or a half uses it, and it is
\* closed when nobody does: no failed or dropped attempt leaks one.
SocketsSound ==
  /\ owners \cap {"stream", "read", "write"} # {} =>
       socketRegistered /\ (socketVia # "UnixStream" => fd = "established")
  /\ fd = "none" <=> owners = {}
  /\ socketRegistered => fd # "none" /\ "std" \notin owners
=============================================================================
