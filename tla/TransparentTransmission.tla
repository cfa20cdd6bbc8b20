------------------------ MODULE TransparentTransmission ------------------------
(***************************************************************************)
(* A task that forwards bytes between a TCP connection and a UART          *)
(* (TransparentTransmission/Task.c, Net.c), as a client that connects or   *)
(* as a server that accepts.  Four threads: two receive, from the network  *)
(* and from the UART, and write into a pipe each; two read a pipe and      *)
(* send.  The receiver of the network notices that the peer has gone,      *)
(* shuts the socket down and gets another one; the sender reads the same   *)
(* variable socketFd without a lock.                                       *)
(*                                                                         *)
(* Modelled from the four threads' start on.  Bytes are numbered in each   *)
(* direction in the order in which they came; 0 is the greeting "SOJO".    *)
(* TCP is Linux's (external).                                              *)
(***************************************************************************)
EXTENDS Integers, Sequences

CONSTANTS
  Roles,      \* "client", "server"
  MaxSockets, \* sockets that can be open: none is ever closed
  PipeMax,    \* what a pipe holds
  MaxUart,    \* bound: bytes that come from the UART
  MaxNet      \* bound: bytes the peers send

ASSUME RolesAssumption == Roles \subseteq {"client", "server"}
ASSUME SizesAssumption ==
  /\ MaxSockets \in Nat \ {0} /\ PipeMax \in Nat \ {0}
  /\ MaxUart \in Nat /\ MaxNet \in Nat

VARIABLES
  role,
  socketFd,  \* the shared variable: which connection, 0 for -1
  recvPc,    \* where the receiver of the network is
  newFd,     \* its socket, before TCP_NetConnect or TCP_NetAccept returns
  toUart,    \* what it has received and not yet written into the pipe
  tcp2Uart,  \* the pipe to the UART's sender
  uartChunk, \* what the UART's sender has read from it and not yet written
  uartOut,   \* what the UART has got
  fromUart,  \* what the UART's receiver has read, not yet in the pipe
  uartRead,  \* bytes read from the UART so far
  uart2Tcp,  \* the pipe to the network's sender
  sendPc,    \* where the sender of the network is
  sendFd,    \* its copy of socketFd
  toNet,     \* what it is sending
  tcp,       \* of each connection so far: the state of the socket here
  err,       \* sk_err: the reset has not been reported
  inbox,     \* what can be received on it
  got,       \* what its peer has got
  netSent,   \* bytes the peers have sent
  dead,      \* the process has died of SIGPIPE
  refused    \* history: bytes that write() to the UART was given and did not take

receiver == <<recvPc, newFd, toUart>>
sender   == <<sendPc, sendFd, toNet>>
uart     == <<tcp2Uart, uartChunk, uartOut, refused, fromUart, uartRead, uart2Tcp>>
network  == <<tcp, err, inbox, got, netSent>>
vars == <<role, socketFd, receiver, sender, uart, network, dead>>

Conns == 1..Len(tcp)
Bytes(s) == {s[i] : i \in 1..Len(s)}

\* "fin": the peer has closed; "shut": shut down here.
States == {"open", "fin", "reset", "shut"}

Init ==
  /\ role \in Roles
  /\ socketFd = 1 /\ newFd = 0
  /\ recvPc = "recv" /\ toUart = <<>>
  /\ tcp2Uart = <<>> /\ uartChunk = <<>> /\ uartOut = <<>> /\ refused = {}
  /\ fromUart = <<>> /\ uartRead = 0 /\ uart2Tcp = <<>>
  /\ sendPc = "read" /\ sendFd = 0 /\ toNet = <<>>
  /\ tcp = <<"open">> /\ err = <<FALSE>> /\ inbox = <<<<>>>> /\ got = <<<<0>>>>
  /\ netSent = 0 /\ dead = FALSE

-----------------------------------------------------------------------------
(* The peers and the network (external).                                   *)

PeerSends ==
  /\ netSent < MaxNet
  /\ \E c \in Conns :
       /\ tcp[c] = "open"
       /\ inbox' = [inbox EXCEPT ![c] = Append(@, netSent + 1)]
  /\ netSent' = netSent + 1
  /\ UNCHANGED <<role, socketFd, receiver, sender, uart, tcp, err, got, dead>>

PeerCloses ==
  /\ \E c \in Conns : tcp[c] = "open" /\ tcp' = [tcp EXCEPT ![c] = "fin"]
  /\ UNCHANGED <<role, socketFd, receiver, sender, uart, err, inbox, got, netSent, dead>>

\* Also the answer to what was sent to a peer that had closed: then the error
\* is EPIPE, which the next send reports with the signal.
PeerResets ==
  /\ \E c \in Conns :
       /\ tcp[c] \in {"open", "fin"}
       /\ tcp' = [tcp EXCEPT ![c] = "reset"]
       /\ err' = [err EXCEPT ![c] = tcp[c] = "open"]
  /\ UNCHANGED <<role, socketFd, receiver, sender, uart, inbox, got, netSent, dead>>

-----------------------------------------------------------------------------
(* TCPClientReceivePthread, TCPServerReceivePthread.                       *)

\* recv returns -1: nothing is done about it, and the next call finds the end.
RecvFails ==
  /\ recvPc = "recv" /\ inbox[socketFd] = <<>>
  /\ tcp[socketFd] = "reset" /\ err[socketFd]
  /\ err' = [err EXCEPT ![socketFd] = FALSE]
  /\ UNCHANGED <<role, socketFd, receiver, sender, uart, tcp, inbox, got, netSent, dead>>

RecvData ==
  /\ recvPc = "recv" /\ inbox[socketFd] # <<>>
  /\ \E k \in 1..Len(inbox[socketFd]) :
       /\ toUart' = SubSeq(inbox[socketFd], 1, k)
       /\ inbox' = [inbox EXCEPT ![socketFd] = SubSeq(@, k + 1, Len(@))]
  /\ recvPc' = "write"
  /\ UNCHANGED <<role, socketFd, newFd, sender, uart, tcp, err, got, netSent, dead>>

\* Mutated: what does not go into the pipe at once is dropped.
WritePipe_DropsTheRest ==
  /\ recvPc = "write" /\ Len(tcp2Uart) < PipeMax
  /\ tcp2Uart' = Append(tcp2Uart, Head(toUart))
  /\ toUart' = <<>> /\ recvPc' = "recv"
  /\ UNCHANGED <<role, socketFd, newFd, sender, uartChunk, uartOut, refused, fromUart, uartRead,
                 uart2Tcp, network, dead>>

\* Mutated: the chunk is written whatever the pipe still takes.
WritePipe_NoLimit ==
  /\ recvPc = "write"
  /\ tcp2Uart' = tcp2Uart \o toUart
  /\ toUart' = <<>> /\ recvPc' = "recv"
  /\ UNCHANGED <<role, socketFd, newFd, sender, uartChunk, uartOut, refused, fromUart, uartRead,
                 uart2Tcp, network, dead>>

\* write() into the pipe blocks while that is full.
WritePipe ==
  /\ recvPc = "write" /\ Len(tcp2Uart) < PipeMax
  /\ tcp2Uart' = Append(tcp2Uart, Head(toUart))
  /\ toUart' = Tail(toUart)
  /\ recvPc' = IF toUart' = <<>> THEN "recv" ELSE "write"
  /\ UNCHANGED <<role, socketFd, newFd, sender, uartChunk, uartOut, refused, fromUart, uartRead,
                 uart2Tcp, network, dead>>

\* Mutated: the end of the connection is looked for in errors only.
RecvEnd_ErrorsOnly ==
  /\ recvPc = "recv" /\ inbox[socketFd] = <<>>
  /\ tcp[socketFd] = "reset" /\ err[socketFd]
  /\ recvPc' = "shutdown"
  /\ UNCHANGED <<role, socketFd, newFd, toUart, sender, uart, network, dead>>

\* recv returns 0.
RecvEnd ==
  /\ recvPc = "recv" /\ inbox[socketFd] = <<>>
  /\ tcp[socketFd] = "fin" \/ (tcp[socketFd] = "reset" /\ ~err[socketFd])
  /\ recvPc' = "shutdown"
  /\ UNCHANGED <<role, socketFd, newFd, toUart, sender, uart, network, dead>>

\* TCP_CloseConnect: shutdown until it succeeds, which it never does on a
\* socket that has been reset (ENOTCONN); then the shared variable.
Shutdown ==
  /\ recvPc = "shutdown" /\ tcp[socketFd] # "reset"
  /\ tcp' = [tcp EXCEPT ![socketFd] = "shut"]
  /\ recvPc' = "clear"
  /\ UNCHANGED <<role, socketFd, newFd, toUart, sender, uart, err, inbox, got, netSent, dead>>

ClearFd ==
  /\ recvPc = "clear"
  /\ socketFd' = 0
  /\ recvPc' = "connect"
  /\ UNCHANGED <<role, newFd, toUart, sender, uart, network, dead>>

\* TCP_NetConnect, TCP_NetAccept: both wait for the peer, a second between
\* two tries, and greet it.
NewConnection ==
  /\ tcp' = Append(tcp, "open") /\ err' = Append(err, FALSE)
  /\ inbox' = Append(inbox, <<>>)
  /\ newFd' = Len(tcp) + 1
  /\ UNCHANGED <<role, toUart, sender, uart, netSent, dead>>

\* Mutated: the shared variable is set before the greeting.
Connected_FdFirst ==
  /\ recvPc = "connect" /\ Len(tcp) < MaxSockets
  /\ NewConnection
  /\ socketFd' = Len(tcp) + 1
  /\ got' = Append(got, <<>>)
  /\ recvPc' = "greet"

Connected ==
  /\ recvPc = "connect" /\ Len(tcp) < MaxSockets
  /\ NewConnection
  /\ got' = Append(got, <<>>)
  /\ recvPc' = "greet"
  /\ UNCHANGED socketFd

\* What write() returns is not looked at.
Greet ==
  /\ recvPc = "greet"
  /\ got' = IF tcp[newFd] = "open" THEN [got EXCEPT ![newFd] = Append(@, 0)] ELSE got
  /\ err' = [err EXCEPT ![newFd] = FALSE]
  /\ dead' = (tcp[newFd] = "reset" /\ ~err[newFd])
  /\ recvPc' = "assign"
  /\ UNCHANGED <<role, socketFd, newFd, toUart, sender, uart, tcp, inbox, netSent>>

AssignFd ==
  /\ recvPc = "assign"
  /\ socketFd' = newFd /\ newFd' = 0
  /\ recvPc' = "recv"
  /\ UNCHANGED <<role, toUart, sender, uart, network, dead>>

\* No descriptor is left: socket() fails and the client's thread returns;
\* accept() fails and the server tries on.
NoSocket ==
  /\ recvPc = "connect" /\ Len(tcp) = MaxSockets
  /\ role = "client"
  /\ recvPc' = "done"
  /\ UNCHANGED <<role, socketFd, newFd, toUart, sender, uart, network, dead>>

Receiver ==
  RecvFails \/ RecvData \/ WritePipe \/ RecvEnd \/ Shutdown \/ ClearFd \/ Greet \/ AssignFd
  \/ NoSocket

-----------------------------------------------------------------------------
(* TCPClientSendPthread, TCPServerSendPthread.                             *)

\* Mutated: one byte less leaves the pipe than is sent.
ReadPipe_OneStays ==
  /\ sendPc = "read" /\ uart2Tcp # <<>>
  /\ \E k \in 1..Len(uart2Tcp) :
       /\ toNet' = SubSeq(uart2Tcp, 1, k)
       /\ uart2Tcp' = SubSeq(uart2Tcp, k, Len(uart2Tcp))
  /\ sendPc' = "load"
  /\ UNCHANGED <<role, socketFd, receiver, sendFd, tcp2Uart, uartChunk, uartOut, refused, fromUart,
                 uartRead, network, dead>>

ReadPipe ==
  /\ sendPc = "read" /\ uart2Tcp # <<>>
  /\ \E k \in 1..Len(uart2Tcp) :
       /\ toNet' = SubSeq(uart2Tcp, 1, k)
       /\ uart2Tcp' = SubSeq(uart2Tcp, k + 1, Len(uart2Tcp))
  /\ sendPc' = "load"
  /\ UNCHANGED <<role, socketFd, receiver, sendFd, tcp2Uart, uartChunk, uartOut, refused, fromUart,
                 uartRead, network, dead>>

\* The argument of send() is read; the call comes later.
LoadFd ==
  /\ sendPc = "load"
  /\ sendFd' = socketFd
  /\ sendPc' = "send"
  /\ UNCHANGED <<role, socketFd, receiver, toNet, uart, network, dead>>

\* After an error the loop goes on with the next read: the bytes are lost.
SendDone ==
  /\ sendPc' = "read" /\ toNet' = <<>>
  /\ sendFd' = 0

SendOpen ==
  /\ sendFd # 0 /\ tcp[sendFd] = "open"
  /\ got' = [got EXCEPT ![sendFd] = @ \o toNet]
  /\ SendDone
  /\ UNCHANGED <<err, dead>>

\* To a peer that has closed: taken by the kernel, read by nobody.
SendUnread ==
  /\ sendFd # 0 /\ tcp[sendFd] = "fin"
  /\ SendDone
  /\ UNCHANGED <<err, got, dead>>

\* EBADF, or the reset is reported here.
SendFails ==
  /\ sendFd # 0 => tcp[sendFd] = "reset" /\ err[sendFd]
  /\ err' = [c \in Conns |-> err[c] /\ c # sendFd]
  /\ SendDone
  /\ UNCHANGED <<got, dead>>

\* EPIPE comes with a signal nobody handles.
SendPipe ==
  /\ sendFd # 0
  /\ tcp[sendFd] = "shut" \/ (tcp[sendFd] = "reset" /\ ~err[sendFd])
  /\ dead' = TRUE
  /\ SendDone
  /\ UNCHANGED <<err, got>>

Send ==
  /\ sendPc = "send"
  /\ SendOpen \/ SendUnread \/ SendFails \/ SendPipe
  /\ UNCHANGED <<role, socketFd, receiver, uart, tcp, inbox, netSent>>

-----------------------------------------------------------------------------
(* UartReceivePthread and UartSendPthread.                                 *)

UartRead ==
  /\ fromUart = <<>> /\ uartRead < MaxUart
  /\ uartRead' = uartRead + 1
  /\ fromUart' = <<uartRead + 1>>
  /\ UNCHANGED <<role, socketFd, receiver, sender, tcp2Uart, uartChunk, uartOut, refused, uart2Tcp,
                 network, dead>>

UartWritePipe ==
  /\ fromUart # <<>> /\ Len(uart2Tcp) < PipeMax
  /\ uart2Tcp' = uart2Tcp \o fromUart
  /\ fromUart' = <<>>
  /\ UNCHANGED <<role, socketFd, receiver, sender, tcp2Uart, uartChunk, uartOut, refused, uartRead,
                 network, dead>>

UartTake ==
  /\ uartChunk = <<>> /\ tcp2Uart # <<>>
  /\ \E k \in 1..Len(tcp2Uart) :
       /\ uartChunk' = SubSeq(tcp2Uart, 1, k)
       /\ tcp2Uart' = SubSeq(tcp2Uart, k + 1, Len(tcp2Uart))
  /\ UNCHANGED <<role, socketFd, receiver, sender, uartOut, refused, fromUart, uartRead, uart2Tcp,
                 network, dead>>

\* An error of write() is printed, a short count not looked at: either way the
\* next chunk is read, and what the UART did not take is lost.
UartWrite ==
  /\ uartChunk # <<>>
  /\ \E k \in 0..Len(uartChunk) :
       /\ uartOut' = uartOut \o SubSeq(uartChunk, 1, k)
       /\ refused' = refused \cup Bytes(SubSeq(uartChunk, k + 1, Len(uartChunk)))
  /\ uartChunk' = <<>>
  /\ UNCHANGED <<role, socketFd, receiver, sender, tcp2Uart, fromUart, uartRead, uart2Tcp,
                 network, dead>>

UartSend == UartTake \/ UartWrite

Threads == Receiver \/ Connected \/ ReadPipe \/ LoadFd \/ Send \/ UartRead \/ UartWritePipe \/ UartSend

Next ==
  \/ ~dead /\ Threads
  \/ PeerSends \/ PeerCloses \/ PeerResets

Spec == Init /\ [][Next]_vars

\* The threads run.  Somebody listens or connects again in the end.
Fairness ==
  /\ WF_vars(~dead /\ Receiver) /\ SF_vars(~dead /\ Connected)
  /\ WF_vars(~dead /\ UartSend)

FairSpec == Spec /\ Fairness

-----------------------------------------------------------------------------
Ascending(s) == \A i, j \in 1..Len(s) : i < j => s[i] < s[j]

TypeOK ==
  /\ role \in Roles
  /\ Len(tcp) <= MaxSockets
  /\ socketFd \in 0..Len(tcp) /\ newFd \in 0..Len(tcp) /\ sendFd \in 0..Len(tcp)
  /\ recvPc \in {"recv", "write", "shutdown", "clear", "connect", "greet", "assign", "done"}
  /\ sendPc \in {"read", "load", "send"}
  /\ uartRead \in 0..MaxUart /\ netSent \in 0..MaxNet
  /\ toUart \in Seq(1..MaxNet) /\ tcp2Uart \in Seq(1..MaxNet)
  /\ uartChunk \in Seq(1..MaxNet) /\ uartOut \in Seq(1..MaxNet) /\ refused \subseteq 1..MaxNet
  /\ fromUart \in Seq(1..MaxUart) /\ uart2Tcp \in Seq(1..MaxUart) /\ toNet \in Seq(1..MaxUart)
  /\ tcp \in Seq(States) /\ err \in Seq(BOOLEAN) /\ Len(err) = Len(tcp)
  /\ inbox \in Seq(Seq(1..MaxNet)) /\ Len(inbox) = Len(tcp)
  /\ got \in Seq(Seq(0..MaxUart)) /\ Len(got) = Len(tcp)
  /\ Len(tcp2Uart) <= PipeMax /\ Len(uart2Tcp) <= PipeMax
  /\ dead \in BOOLEAN

\* Bytes of the UART reach the peers in their order, none twice, also over the
\* change from one connection to the next: all that a peer got is before all
\* that a later peer got.
PeersGetInOrder ==
  /\ \A c \in Conns : \A i, j \in 1..Len(got[c]) : i < j => got[c][i] < got[c][j]
  /\ \A c, d \in Conns : c < d =>
       \A i \in 1..Len(got[c]), j \in 1..Len(got[d]) : got[d][j] = 0 \/ got[c][i] < got[d][j]

\* A peer that gets anything gets the greeting first: the sender cannot reach
\* a connection that is not yet greeted.
GreetedFirst ==
  \A c \in Conns : got[c] # <<>> => got[c][1] = 0

\* Of what the peers sent, only what a write() to the UART did not take is ever
\* lost: all else is under way or has come out, once and in order, also while
\* the connection changes.
LostOnlyAtUart ==
  LET inside == uartOut \o uartChunk \o tcp2Uart \o toUart
      onNet  == UNION {Bytes(inbox[c]) : c \in Conns}
  IN  Ascending(inside) /\ Bytes(inside) \cup onNet = (1..netSent) \ refused

\* A connection whose peer closes is replaced, unless no descriptor is left,
\* the peer resets it before it is shut down, or the process dies of what the
\* UART had to send meanwhile.
Reconnects ==
  \A c \in 1..MaxSockets - 1 :
    (c = Len(tcp) /\ tcp[c] \in {"fin", "shut"}) ~>
      (Len(tcp) > c /\ socketFd > c) \/ dead \/ (c \in Conns /\ tcp[c] = "reset")

=============================================================================
