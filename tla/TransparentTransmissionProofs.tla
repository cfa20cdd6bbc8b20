--------------------- MODULE TransparentTransmissionProofs ---------------------
(***************************************************************************)
(* For any number of connections, bytes and pipe sizes: of what comes from *)
(* the network only what a write() to the UART does not take is lost, and  *)
(* nothing is reordered; bytes of the UART reach the peers in order also   *)
(* over a change of connection; and a peer gets the greeting first,        *)
(* although the sender reads socketFd without a lock.                      *)
(***************************************************************************)
EXTENDS TransparentTransmission, SequenceTheorems, TLAPS

\* Where the threads are and which connection they hold.
Placed ==
  /\ Len(tcp) >= 1
  /\ socketFd = IF recvPc \in {"recv", "write", "shutdown", "clear"} THEN Len(tcp) ELSE 0
  /\ newFd = IF recvPc \in {"greet", "assign"} THEN Len(tcp) ELSE 0
  /\ recvPc = "write" <=> toUart # <<>>
  /\ Len(fromUart) <= 1
  /\ sendPc # "send" => sendFd = 0
  /\ newFd # 0 => sendFd < newFd

\* Only the last connection is in use; the others have been drained.
Retired ==
  /\ \A c \in Conns : c < Len(tcp) \/ recvPc \in {"clear", "connect", "done"} =>
       tcp[c] = "shut" /\ inbox[c] = <<>>
  /\ recvPc = "shutdown" => tcp[socketFd] \in {"fin", "reset"} /\ inbox[socketFd] = <<>>

\* A connection that can be sent on has been greeted.
Greeted ==
  /\ recvPc = "greet" => got[newFd] = <<>>
  /\ \A c \in Conns : tcp[c] = "open" /\ c # newFd => got[c] # <<>>
  /\ recvPc = "assign" /\ tcp[newFd] = "open" => got[newFd] # <<>>
  /\ GreetedFirst

\* What came from the network, in the order in which it came, but for what the
\* UART did not take.
AtUart  == uartOut \o uartChunk
Coming  == (tcp2Uart \o toUart) \o inbox[Len(tcp)]
FromNet == AtUart \o Coming
NetFlow ==
  /\ refused \subseteq 1..netSent
  /\ Ascending(FromNet)
  /\ Bytes(FromNet) = (1..netSent) \ refused

\* What came from the UART and has not been sent: the last of the numbers.
FromUart == (toNet \o uart2Tcp) \o fromUart
Sent     == uartRead - Len(FromUart)
UartLine ==
  /\ sendPc = "read" => toNet = <<>>
  /\ Sent >= 0
  /\ \A i \in 1..Len(FromUart) : FromUart[i] = Sent + i

\* No peer has more than what has been sent, and no later peer something older.
PeersBehind ==
  /\ \A c \in Conns : \A i \in 1..Len(got[c]) : got[c][i] <= Sent
  \* The sender's copy of socketFd may be old: then nothing has been sent on a
  \* later connection.
  /\ sendFd # 0 => \A d \in Conns : d > sendFd => \A j \in 1..Len(got[d]) : got[d][j] = 0
  /\ PeersGetInOrder

-----------------------------------------------------------------------------
\* Sequences.

\* A sequence of sequences, one of which gets something more.
LEMMA ElementSet ==
  ASSUME NEW S, NEW s \in Seq(S), NEW c \in 1..Len(s), NEW v \in S
  PROVE  /\ [s EXCEPT ![c] = v] \in Seq(S) /\ Len([s EXCEPT ![c] = v]) = Len(s)
         /\ \A d \in 1..Len(s) : [s EXCEPT ![c] = v][d] = IF d = c THEN v ELSE s[d]
BY ExceptSeq

LEMMA FunctionIsSeq ==
  ASSUME NEW S, NEW n \in Nat, NEW f \in [1..n -> S]
  PROVE  f \in Seq(S) /\ Len(f) = n
OBVIOUS

\* A piece from the front of a sequence is taken.
LEMMA Split ==
  ASSUME NEW S, NEW s \in Seq(S), NEW k \in 1..Len(s)
  PROVE  /\ SubSeq(s, 1, k) \in Seq(S) /\ SubSeq(s, k + 1, Len(s)) \in Seq(S)
         /\ SubSeq(s, 1, k) # <<>>
         /\ Len(SubSeq(s, k + 1, Len(s))) <= Len(s)
         /\ SubSeq(s, 1, k) \o SubSeq(s, k + 1, Len(s)) = s
<1>1. Len(s) \in Nat /\ \A i \in 1..Len(s) : s[i] \in S
  BY LenProperties
<1>2. SubSeq(s, 1, k) \in Seq(S) /\ Len(SubSeq(s, 1, k)) = k
  BY <1>1, SubSeqProperties
<1>3. /\ SubSeq(s, k + 1, Len(s)) \in Seq(S)
      /\ Len(SubSeq(s, k + 1, Len(s))) = IF k + 1 <= Len(s) THEN Len(s) - k ELSE 0
  BY <1>1, SubSeqProperties
<1>4. SubSeq(s, 1, k) \o SubSeq(s, k + 1, Len(s)) = SubSeq(s, 1, Len(s))
  BY <1>1, ConcatAdjacentSubSeq
<1>5. QED
  BY <1>1, <1>2, <1>3, <1>4, SubSeqFull

\* The same, where it may be none.
LEMMA SplitOrNone ==
  ASSUME NEW S, NEW s \in Seq(S), NEW k \in 0..Len(s)
  PROVE  /\ SubSeq(s, 1, k) \in Seq(S) /\ SubSeq(s, k + 1, Len(s)) \in Seq(S)
         /\ SubSeq(s, 1, k) \o SubSeq(s, k + 1, Len(s)) = s
<1>1. CASE k = 0
  <2>1. SubSeq(s, 1, k) = <<>>
    BY <1>1, SubSeqEmpty
  <2>2. SubSeq(s, k + 1, Len(s)) = s
    BY <1>1, SubSeqFull
  <2>3. <<>> \o s = s /\ <<>> \in Seq(S)
    BY ConcatEmptySeq
  <2>4. QED
    BY <2>1, <2>2, <2>3, Zenon
<1>2. CASE k # 0
  <2>1. k \in 1..Len(s)
    BY <1>2, LenProperties
  <2>2. QED
    BY <2>1, Split
<1>3. QED
  BY <1>1, <1>2

-----------------------------------------------------------------------------
\* Types and places.

\* The parts of TypeOK.
ThreadsTyped ==
  /\ role \in Roles
  /\ recvPc \in {"recv", "write", "shutdown", "clear", "connect", "greet", "assign", "done"}
  /\ sendPc \in {"read", "load", "send"}
  /\ sendFd \in 0..Len(tcp)
  /\ dead \in BOOLEAN

BytesTyped ==
  /\ uartRead \in 0..MaxUart /\ netSent \in 0..MaxNet
  /\ toUart \in Seq(1..MaxNet) /\ tcp2Uart \in Seq(1..MaxNet)
  /\ uartChunk \in Seq(1..MaxNet) /\ uartOut \in Seq(1..MaxNet) /\ refused \subseteq 1..MaxNet
  /\ fromUart \in Seq(1..MaxUart) /\ uart2Tcp \in Seq(1..MaxUart) /\ toNet \in Seq(1..MaxUart)
  /\ Len(tcp2Uart) <= PipeMax /\ Len(uart2Tcp) <= PipeMax

NetTyped ==
  /\ Len(tcp) <= MaxSockets
  /\ tcp \in Seq(States) /\ err \in Seq(BOOLEAN) /\ Len(err) = Len(tcp)
  /\ inbox \in Seq(Seq(1..MaxNet)) /\ Len(inbox) = Len(tcp)
  /\ got \in Seq(Seq(0..MaxUart)) /\ Len(got) = Len(tcp)

Typed == ThreadsTyped /\ BytesTyped /\ NetTyped /\ Placed

LEMMA TypedIsTypeOK == Typed => TypeOK
<1> SUFFICES ASSUME Typed PROVE TypeOK
  OBVIOUS
<1>1. Len(tcp) \in Nat
  BY DEF Typed, NetTyped
<1>2. socketFd \in 0..Len(tcp) /\ newFd \in 0..Len(tcp)
  BY <1>1 DEF Typed, Placed
<1>3. QED
  BY <1>2 DEF Typed, ThreadsTyped, BytesTyped, NetTyped, TypeOK

LEMMA TypedInit == Init => Typed
<1> SUFFICES ASSUME Init PROVE Typed
  OBVIOUS
<1>1. /\ tcp = <<"open">> /\ err = <<FALSE>> /\ inbox = <<<<>>>> /\ got = <<<<0>>>>
      /\ toUart = <<>> /\ fromUart = <<>>
  BY DEF Init
<1>2. NetTyped
  BY <1>1, SizesAssumption DEF NetTyped, States
<1>3. BytesTyped
  BY SizesAssumption DEF Init, BytesTyped
<1>4. ThreadsTyped
  <2>1. Len(tcp) = 1
    BY <1>1
  <2>2. dead \in BOOLEAN
    BY DEF Init
  <2>3. role \in Roles /\ recvPc = "recv" /\ sendPc = "read" /\ sendFd = 0
    BY DEF Init
  <2>4. QED
    BY <2>1, <2>2, <2>3 DEF ThreadsTyped
<1>5. Placed
  BY <1>1 DEF Init, Placed
<1>6. QED
  BY <1>2, <1>3, <1>4, <1>5 DEF Typed

\* The connection the receiver works on, and the one the sender has loaded.
LEMMA ConnsInUse ==
  ASSUME Typed
  PROVE  /\ Len(tcp) \in Conns
         /\ recvPc \in {"recv", "write", "shutdown", "clear"} => socketFd \in Conns
         /\ recvPc \in {"greet", "assign"} => newFd \in Conns
         /\ sendFd # 0 => sendFd \in Conns
         /\ Conns = 1..Len(inbox) /\ Conns = 1..Len(got) /\ Conns = 1..Len(err)
BY DEF Typed, ThreadsTyped, NetTyped, Placed, Conns

\* What the peers and the network do.
LEMMA PeersTyped ==
  ASSUME Typed, PeerSends \/ PeerCloses \/ PeerResets
  PROVE  Typed'
<1> USE ConnsInUse DEF Typed
<1>1. CASE PeerSends
  <2>1. PICK c \in Conns : inbox' = [inbox EXCEPT ![c] = Append(@, netSent + 1)]
    BY <1>1 DEF PeerSends
  <2>2. netSent \in 0..MaxNet /\ netSent' = netSent + 1 /\ netSent + 1 \in 1..MaxNet
    BY <1>1, SizesAssumption DEF PeerSends, BytesTyped
  <2>3. inbox[c] \in Seq(1..MaxNet)
    BY ElementOfSeq DEF NetTyped
  <2>4. Append(inbox[c], netSent + 1) \in Seq(1..MaxNet)
    BY <2>2, <2>3
  <2>5. inbox' \in Seq(Seq(1..MaxNet)) /\ Len(inbox') = Len(inbox)
    BY <2>1, <2>4, ElementSet DEF NetTyped
  <2>6. NetTyped' /\ ThreadsTyped' /\ Placed'
    BY <1>1, <2>5 DEF PeerSends, NetTyped, ThreadsTyped, Placed, receiver, sender, uart
  <2>7. BytesTyped'
    BY <1>1, <2>2 DEF PeerSends, BytesTyped, receiver, sender, uart
  <2>8. QED
    BY <2>6, <2>7
<1>2. CASE PeerCloses \/ PeerResets
  <2>1. PICK c \in Conns, to \in {"fin", "reset"} : tcp' = [tcp EXCEPT ![c] = to]
    BY <1>2 DEF PeerCloses, PeerResets
  <2>2. tcp' \in Seq(States) /\ Len(tcp') = Len(tcp)
    BY <2>1, ElementSet DEF NetTyped, States, Conns
  <2>3. err' \in Seq(BOOLEAN) /\ Len(err') = Len(err)
    <3>1. CASE PeerCloses
      BY <3>1 DEF PeerCloses, NetTyped
    <3>2. CASE PeerResets
      <4>1. PICK e \in Conns : err' = [err EXCEPT ![e] = tcp[e] = "open"]
        BY <3>2 DEF PeerResets
      <4>2. (tcp[e] = "open") \in BOOLEAN
        OBVIOUS
      <4>3. QED
        BY <4>1, <4>2, ElementSet DEF NetTyped
    <3>3. QED
      BY <1>2, <3>1, <3>2
  <2>4. UNCHANGED <<role, socketFd, receiver, sender, uart, inbox, got, netSent, dead>>
    BY <1>2 DEF PeerCloses, PeerResets
  <2>5. NetTyped'
    BY <2>2, <2>3, <2>4 DEF NetTyped
  <2>6. ThreadsTyped' /\ Placed'
    BY <2>2, <2>4 DEF ThreadsTyped, Placed, receiver, sender, uart
  <2>7. BytesTyped'
    BY <2>4 DEF BytesTyped, receiver, sender, uart
  <2>8. QED
    BY <2>5, <2>6, <2>7
<1>3. QED
  BY <1>1, <1>2

\* The receiver of the network.
LEMMA ReceiverTyped ==
  ASSUME Typed, Receiver \/ Connected
  PROVE  Typed'
<1> USE ConnsInUse DEF Typed
<1>1. CASE RecvFails
  <2>1. err' \in Seq(BOOLEAN) /\ Len(err') = Len(err)
    BY <1>1, ElementSet DEF RecvFails, NetTyped
  <2>2. QED
    BY <1>1, <2>1 DEF RecvFails, NetTyped, ThreadsTyped, BytesTyped, Placed, receiver, sender, uart
<1>2. CASE RecvData
  <2>1. inbox[socketFd] \in Seq(1..MaxNet)
    BY <1>2, ElementOfSeq DEF RecvData, NetTyped
  <2>2. PICK k \in 1..Len(inbox[socketFd]) :
          /\ toUart' = SubSeq(inbox[socketFd], 1, k)
          /\ inbox' = [inbox EXCEPT ![socketFd] = SubSeq(@, k + 1, Len(@))]
    BY <1>2 DEF RecvData
  <2>3. toUart' \in Seq(1..MaxNet) /\ toUart' # <<>>
    BY <2>1, <2>2, Split
  <2>4. inbox' \in Seq(Seq(1..MaxNet)) /\ Len(inbox') = Len(inbox)
    <3>1. SubSeq(inbox[socketFd], k + 1, Len(inbox[socketFd])) \in Seq(1..MaxNet)
      BY <2>1, Split
    <3>2. socketFd \in 1..Len(inbox) /\ inbox \in Seq(Seq(1..MaxNet))
      BY <1>2 DEF RecvData, NetTyped
    <3>3. QED
      BY <2>2, <3>1, <3>2, ElementSet
  <2>5. NetTyped'
    BY <1>2, <2>4 DEF RecvData, NetTyped
  <2>6. ThreadsTyped' /\ BytesTyped' /\ Placed'
    BY <1>2, <2>3 DEF RecvData, ThreadsTyped, BytesTyped, Placed, sender, uart
  <2>7. QED
    BY <2>5, <2>6
<1>3. CASE WritePipe
  <2>1. toUart # <<>> /\ toUart \in Seq(1..MaxNet) /\ tcp2Uart \in Seq(1..MaxNet)
    BY <1>3 DEF WritePipe, Placed, BytesTyped
  <2>2. Head(toUart) \in 1..MaxNet /\ Tail(toUart) \in Seq(1..MaxNet)
    BY <2>1, HeadTailProperties
  <2>3. /\ Append(tcp2Uart, Head(toUart)) \in Seq(1..MaxNet)
        /\ Len(Append(tcp2Uart, Head(toUart))) = Len(tcp2Uart) + 1
    BY <2>1, <2>2
  <2>4. tcp2Uart' \in Seq(1..MaxNet) /\ toUart' \in Seq(1..MaxNet) /\ Len(tcp2Uart') <= PipeMax
    <3>1. Len(tcp2Uart) < PipeMax /\ Len(tcp2Uart) \in Nat
      BY <1>3, <2>1 DEF WritePipe
    <3>2. tcp2Uart' = Append(tcp2Uart, Head(toUart)) /\ toUart' = Tail(toUart)
      BY <1>3 DEF WritePipe
    <3>3. QED
      BY <2>2, <2>3, <3>1, <3>2, SizesAssumption
  <2>5. BytesTyped'
    BY <1>3, <2>4 DEF WritePipe, BytesTyped, sender, network
  <2>6. NetTyped' /\ ThreadsTyped' /\ Placed'
    BY <1>3 DEF WritePipe, NetTyped, ThreadsTyped, Placed, sender, network
  <2>7. QED
    BY <2>5, <2>6
<1>4. CASE RecvEnd \/ NoSocket
  BY <1>4 DEF RecvEnd, NoSocket, NetTyped, ThreadsTyped, BytesTyped, Placed, sender, uart, network
<1>5. CASE Shutdown
  <2>1. tcp' \in Seq(States) /\ Len(tcp') = Len(tcp)
    BY <1>5, ElementSet DEF Shutdown, NetTyped, States, Conns
  <2>2. QED
    BY <1>5, <2>1 DEF Shutdown, NetTyped, ThreadsTyped, BytesTyped, Placed, sender, uart
<1>6. CASE ClearFd \/ AssignFd
  BY <1>6 DEF ClearFd, AssignFd, NetTyped, ThreadsTyped, BytesTyped, Placed, sender, uart, network
<1>7. CASE Greet
  <2>1. newFd \in Conns
    BY <1>7 DEF Greet
  <2>2. got' \in Seq(Seq(0..MaxUart)) /\ Len(got') = Len(got)
    <3>1. got[newFd] \in Seq(0..MaxUart) /\ 0 \in 0..MaxUart
      BY <2>1, ElementOfSeq, SizesAssumption DEF NetTyped
    <3>2. Append(got[newFd], 0) \in Seq(0..MaxUart)
      BY <3>1
    <3>3. newFd \in 1..Len(got) /\ got \in Seq(Seq(0..MaxUart))
      BY <2>1 DEF NetTyped
    <3>4. \/ got' = got
          \/ got' = [got EXCEPT ![newFd] = Append(got[newFd], 0)]
      BY <1>7 DEF Greet
    <3>5. CASE got' = [got EXCEPT ![newFd] = Append(got[newFd], 0)]
      BY <3>2, <3>3, <3>5, ElementSet
    <3>6. QED
      BY <3>3, <3>4, <3>5
  <2>3. err' \in Seq(BOOLEAN) /\ Len(err') = Len(err)
    BY <1>7, <2>1, ElementSet DEF Greet, NetTyped
  <2>4. NetTyped'
    BY <1>7, <2>2, <2>3 DEF Greet, NetTyped
  <2>5. dead' \in BOOLEAN
    BY <1>7 DEF Greet
  <2>6. ThreadsTyped' /\ BytesTyped' /\ Placed'
    BY <1>7, <2>5 DEF Greet, ThreadsTyped, BytesTyped, Placed, sender, uart
  <2>7. QED
    BY <2>4, <2>6
<1>8. CASE Connected
  <2>1. Len(tcp) < MaxSockets /\ Len(tcp) \in Nat
    BY <1>8 DEF Connected, NetTyped
  <2>2. tcp' \in Seq(States) /\ Len(tcp') = Len(tcp) + 1
    BY <1>8, AppendProperties DEF Connected, NewConnection, NetTyped, States
  <2>3. err' \in Seq(BOOLEAN) /\ Len(err') = Len(err) + 1
    BY <1>8, AppendProperties DEF Connected, NewConnection, NetTyped
  <2>4. inbox' \in Seq(Seq(1..MaxNet)) /\ Len(inbox') = Len(inbox) + 1
    <3>1. <<>> \in Seq(1..MaxNet)
      OBVIOUS
    <3>2. QED
      BY <1>8, <3>1, AppendProperties DEF Connected, NewConnection, NetTyped
  <2>5. got' \in Seq(Seq(0..MaxUart)) /\ Len(got') = Len(got) + 1
    <3>1. <<>> \in Seq(0..MaxUart)
      OBVIOUS
    <3>2. QED
      BY <1>8, <3>1, AppendProperties DEF Connected, NewConnection, NetTyped
  <2>6. NetTyped'
    BY <2>1, <2>2, <2>3, <2>4, <2>5, SizesAssumption DEF NetTyped
  <2>7. ThreadsTyped' /\ BytesTyped' /\ Placed'
    BY <1>8, <2>1, <2>2, SMTT(40) DEF Connected, NewConnection, ThreadsTyped, BytesTyped, Placed, sender, uart
  <2>8. QED
    BY <2>6, <2>7
<1>9. QED
  BY <1>1, <1>2, <1>3, <1>4, <1>5, <1>6, <1>7, <1>8 DEF Receiver

\* The sender of the network.
LEMMA SenderTyped ==
  ASSUME Typed, ReadPipe \/ LoadFd \/ Send
  PROVE  Typed'
<1> USE ConnsInUse DEF Typed
<1>1. CASE ReadPipe
  <2>1. uart2Tcp \in Seq(1..MaxUart) /\ Len(uart2Tcp) \in Nat /\ Len(uart2Tcp) <= PipeMax
    BY DEF BytesTyped
  <2>2. PICK k \in 1..Len(uart2Tcp) :
          toNet' = SubSeq(uart2Tcp, 1, k) /\ uart2Tcp' = SubSeq(uart2Tcp, k + 1, Len(uart2Tcp))
    BY <1>1 DEF ReadPipe
  <2>3. toNet' \in Seq(1..MaxUart) /\ uart2Tcp' \in Seq(1..MaxUart) /\ Len(uart2Tcp') <= Len(uart2Tcp)
    BY <2>1, <2>2, Split
  <2>4. Len(uart2Tcp') <= PipeMax
    BY <2>1, <2>3, SizesAssumption
  <2>5. BytesTyped'
    BY <1>1, <2>3, <2>4 DEF ReadPipe, BytesTyped, receiver, network
  <2>6. NetTyped' /\ ThreadsTyped' /\ Placed'
    BY <1>1 DEF ReadPipe, NetTyped, ThreadsTyped, Placed, receiver, network
  <2>7. QED
    BY <2>5, <2>6
<1>2. CASE LoadFd
  <2>1. UNCHANGED <<role, socketFd, receiver, toNet, uart, network, dead>> /\ sendPc' = "send"
        /\ sendFd' = socketFd
    BY <1>2 DEF LoadFd
  <2>2. socketFd \in 0..Len(tcp) /\ (newFd # 0 => socketFd < newFd)
    BY DEF Placed, NetTyped
  <2>3. ThreadsTyped' /\ Placed'
    BY <2>1, <2>2 DEF ThreadsTyped, Placed, receiver, uart, network
  <2>4. NetTyped' /\ BytesTyped'
    BY <2>1 DEF NetTyped, BytesTyped, receiver, uart, network
  <2>5. QED
    BY <2>3, <2>4
<1>3. CASE Send
  <2>1. SendDone /\ UNCHANGED <<role, socketFd, receiver, uart, tcp, inbox, netSent>>
    BY <1>3 DEF Send, SendOpen, SendUnread, SendFails, SendPipe
  <2>2. got' \in Seq(Seq(0..MaxUart)) /\ Len(got') = Len(got)
    <3>1. CASE UNCHANGED got
      BY <3>1 DEF NetTyped
    <3>2. CASE sendFd # 0 /\ got' = [got EXCEPT ![sendFd] = @ \o toNet]
      <4>1. sendFd \in 1..Len(got) /\ got \in Seq(Seq(0..MaxUart))
        BY <3>2 DEF NetTyped
      <4>2. got[sendFd] \in Seq(0..MaxUart)
        BY <4>1, ElementOfSeq
      <4>3. toNet \in Seq(0..MaxUart)
        <5>1. 1..MaxUart \subseteq 0..MaxUart /\ toNet \in Seq(1..MaxUart)
          BY SizesAssumption DEF BytesTyped
        <5>2. QED
          BY <5>1, SeqMonotonic
      <4>4. got[sendFd] \o toNet \in Seq(0..MaxUart)
        BY <4>2, <4>3, ConcatProperties
      <4>5. QED
        BY <3>2, <4>1, <4>4, ElementSet
    <3>3. QED
      BY <1>3, <3>1, <3>2 DEF Send, SendOpen, SendUnread, SendFails, SendPipe
  <2>3. err' \in Seq(BOOLEAN) /\ Len(err') = Len(err)
    <3>1. UNCHANGED err \/ err' = [c \in Conns |-> err[c] /\ c # sendFd]
      BY <1>3 DEF Send, SendOpen, SendUnread, SendFails, SendPipe
    <3>2. [c \in Conns |-> err[c] /\ c # sendFd] \in [1..Len(tcp) -> BOOLEAN]
      BY DEF Conns
    <3>3. Len(tcp) \in Nat /\ Len(err) = Len(tcp) /\ err \in Seq(BOOLEAN)
      BY DEF NetTyped
    <3>4. CASE err' = [c \in Conns |-> err[c] /\ c # sendFd]
      BY <3>2, <3>3, <3>4, FunctionIsSeq
    <3>5. QED
      BY <3>1, <3>3, <3>4
  <2>4. dead' \in BOOLEAN
    BY <1>3 DEF Send, SendOpen, SendUnread, SendFails, SendPipe, ThreadsTyped
  <2>5. NetTyped'
    BY <2>1, <2>2, <2>3 DEF NetTyped
  <2>6. ThreadsTyped' /\ Placed'
    BY <2>1, <2>4 DEF SendDone, ThreadsTyped, Placed, receiver, uart
  <2>7. BytesTyped'
    BY <2>1 DEF SendDone, BytesTyped, receiver, uart
  <2>8. QED
    BY <2>5, <2>6, <2>7
<1>4. QED
  BY <1>1, <1>2, <1>3

\* The threads of the UART.
LEMMA UartTyped ==
  ASSUME Typed, UartRead \/ UartWritePipe \/ UartSend
  PROVE  Typed'
<1> USE DEF Typed
<1>1. CASE UartRead
  <2>1. uartRead \in 0..MaxUart /\ uartRead < MaxUart
    BY <1>1 DEF UartRead, BytesTyped
  <2>2. uartRead + 1 \in 1..MaxUart
    BY <2>1, SizesAssumption
  <2>3. fromUart' = <<uartRead + 1>>
    BY <1>1 DEF UartRead
  <2>4. fromUart' \in Seq(1..MaxUart) /\ Len(fromUart') = 1
    BY <2>2, <2>3
  <2>5. uartRead' \in 0..MaxUart
    BY <1>1, <2>2 DEF UartRead
  <2>6. BytesTyped'
    BY <1>1, <2>4, <2>5 DEF UartRead, BytesTyped, receiver, sender, network
  <2>7. ThreadsTyped' /\ NetTyped' /\ Placed'
    BY <1>1, <2>4 DEF UartRead, NetTyped, ThreadsTyped, Placed, receiver, sender, network
  <2>8. QED
    BY <2>6, <2>7
<1>2. CASE UartWritePipe
  <2>1. /\ fromUart \in Seq(1..MaxUart) /\ uart2Tcp \in Seq(1..MaxUart)
        /\ Len(fromUart) <= 1 /\ Len(uart2Tcp) < PipeMax
    BY <1>2 DEF UartWritePipe, BytesTyped, Placed
  <2>2. /\ uart2Tcp \o fromUart \in Seq(1..MaxUart)
        /\ Len(uart2Tcp \o fromUart) = Len(uart2Tcp) + Len(fromUart)
        /\ Len(uart2Tcp) \in Nat /\ Len(fromUart) \in Nat
    BY <2>1, ConcatProperties, LenProperties
  <2>3. Len(uart2Tcp \o fromUart) <= PipeMax
    BY <2>1, <2>2, SizesAssumption
  <2>4. BytesTyped'
    BY <1>2, <2>2, <2>3 DEF UartWritePipe, BytesTyped, receiver, sender, network
  <2>5. ThreadsTyped' /\ NetTyped' /\ Placed'
    BY <1>2 DEF UartWritePipe, NetTyped, ThreadsTyped, Placed, receiver, sender, network
  <2>6. QED
    BY <2>4, <2>5
<1>3. CASE UartTake
  <2>1. PICK k \in 1..Len(tcp2Uart) :
          /\ uartChunk' = SubSeq(tcp2Uart, 1, k)
          /\ tcp2Uart' = SubSeq(tcp2Uart, k + 1, Len(tcp2Uart))
    BY <1>3 DEF UartTake
  <2>2. tcp2Uart \in Seq(1..MaxNet) /\ Len(tcp2Uart) \in Nat /\ Len(tcp2Uart) <= PipeMax
    BY LenProperties DEF BytesTyped
  <2>3. /\ uartChunk' \in Seq(1..MaxNet) /\ tcp2Uart' \in Seq(1..MaxNet)
        /\ Len(tcp2Uart') <= Len(tcp2Uart)
    BY <2>1, <2>2, Split
  <2>4. Len(tcp2Uart') <= PipeMax
    BY <2>2, <2>3, LenProperties, SizesAssumption
  <2>5. BytesTyped'
    BY <1>3, <2>3, <2>4 DEF UartTake, BytesTyped, receiver, sender, network
  <2>6. ThreadsTyped' /\ NetTyped' /\ Placed'
    BY <1>3 DEF UartTake, NetTyped, ThreadsTyped, Placed, receiver, sender, network
  <2>7. QED
    BY <2>5, <2>6
<1>4. CASE UartWrite
  <2>1. PICK k \in 0..Len(uartChunk) :
          /\ uartOut' = uartOut \o SubSeq(uartChunk, 1, k)
          /\ refused' = refused \cup Bytes(SubSeq(uartChunk, k + 1, Len(uartChunk)))
    BY <1>4 DEF UartWrite
  <2> DEFINE taken == SubSeq(uartChunk, 1, k)
  <2> DEFINE lost == SubSeq(uartChunk, k + 1, Len(uartChunk))
  <2>2. taken \in Seq(1..MaxNet) /\ lost \in Seq(1..MaxNet)
    BY SplitOrNone DEF BytesTyped
  <2>3. uartOut' = uartOut \o taken /\ refused' = refused \cup Bytes(lost)
    BY <2>1
  <2> HIDE DEF taken, lost
  <2>4. uartOut' \in Seq(1..MaxNet)
    BY <2>2, <2>3, ConcatProperties DEF BytesTyped
  <2>5. Bytes(lost) \subseteq 1..MaxNet
    <3>1. \A i \in 1..Len(lost) : lost[i] \in 1..MaxNet
      BY <2>2, ElementOfSeq
    <3>2. QED
      BY <3>1 DEF Bytes
  <2>6. uartChunk' = <<>> /\ refused' \subseteq 1..MaxNet
    BY <1>4, <2>3, <2>5 DEF UartWrite, BytesTyped
  <2>7. BytesTyped'
    BY <1>4, <2>4, <2>6 DEF UartWrite, BytesTyped, receiver, sender, network
  <2>8. ThreadsTyped' /\ NetTyped' /\ Placed'
    BY <1>4 DEF UartWrite, NetTyped, ThreadsTyped, Placed, receiver, sender, network
  <2>9. QED
    BY <2>7, <2>8
<1>5. QED
  BY <1>1, <1>2, <1>3, <1>4 DEF UartSend

LEMMA TypedStep == Typed /\ [Next]_vars => Typed'
<1> SUFFICES ASSUME Typed, [Next]_vars PROVE Typed'
  OBVIOUS
<1>1. CASE UNCHANGED vars
  BY <1>1 DEF vars, receiver, sender, uart, network, Typed, ThreadsTyped, BytesTyped, NetTyped, Placed
<1>2. QED
  BY <1>1, PeersTyped, ReceiverTyped, SenderTyped, UartTyped DEF Next, Threads

\* No variable leaves its type, and no pipe takes more than it holds: the
\* connection in socketFd is one there is, or none (Task.c).
THEOREM TransparentTypeCorrect == Spec => []TypeOK
BY TypedInit, TypedStep, TypedIsTypeOK, PTL DEF Spec

-----------------------------------------------------------------------------
\* Connections.

\* A new connection is the last one, and the others stay as they are.
LEMMA OneMoreConnection ==
  ASSUME Typed, Connected
  PROVE  /\ Len(tcp) \in Nat \ {0} /\ Len(tcp') = Len(tcp) + 1
         /\ \A c \in Conns : tcp'[c] = tcp[c] /\ inbox'[c] = inbox[c] /\ got'[c] = got[c]
         /\ tcp'[Len(tcp) + 1] = "open" /\ inbox'[Len(tcp) + 1] = <<>> /\ got'[Len(tcp) + 1] = <<>>
         /\ newFd' = Len(tcp) + 1
<1> USE DEF Connected, NewConnection
<1>1. Len(tcp) \in Nat \ {0} /\ Len(inbox) = Len(tcp) /\ Len(got) = Len(tcp)
  BY DEF Typed, NetTyped, Placed
<1>2. tcp \in Seq(States) /\ inbox \in Seq(Seq(1..MaxNet)) /\ got \in Seq(Seq(0..MaxUart))
  BY DEF Typed, NetTyped
<1>3. Len(tcp') = Len(tcp) + 1 /\ tcp'[Len(tcp) + 1] = "open" /\ \A c \in Conns : tcp'[c] = tcp[c]
  BY <1>1, <1>2, AppendProperties DEF States, Conns
<1>4. inbox'[Len(tcp) + 1] = <<>> /\ \A c \in Conns : inbox'[c] = inbox[c]
  <2>1. <<>> \in Seq(1..MaxNet)
    OBVIOUS
  <2>2. QED
    BY <1>1, <1>2, <2>1, AppendProperties DEF Conns
<1>5. got'[Len(tcp) + 1] = <<>> /\ \A c \in Conns : got'[c] = got[c]
  <2>1. <<>> \in Seq(0..MaxUart)
    OBVIOUS
  <2>2. QED
    BY <1>1, <1>2, <2>1, AppendProperties DEF Conns
<1>6. QED
  BY <1>1, <1>3, <1>4, <1>5

LEMMA RetiredInit == Init => Retired
<1> SUFFICES ASSUME Init PROVE Retired
  OBVIOUS
<1>1. Len(tcp) = 1 /\ recvPc = "recv"
  BY DEF Init
<1>2. QED
  BY <1>1 DEF Retired, Conns

LEMMA RetiredStep == Typed /\ Retired /\ [Next]_vars => Retired'
<1> SUFFICES ASSUME Typed, Retired, [Next]_vars PROVE Retired'
  OBVIOUS
<1> USE ConnsInUse
<1>1. Len(tcp) \in Nat \ {0}
  BY DEF Typed, NetTyped, Placed
<1>2. CASE PeerSends
  <2>1. PICK c \in Conns : tcp[c] = "open" /\ inbox' = [inbox EXCEPT ![c] = Append(@, netSent + 1)]
    BY <1>2 DEF PeerSends
  <2>2. c = Len(tcp) /\ recvPc \notin {"clear", "connect", "done", "shutdown"}
    BY <1>1, <2>1 DEF Retired, Conns, Placed, Typed
  <2>3. \A d \in Conns : d # c => inbox'[d] = inbox[d]
    BY <2>1 DEF Typed, NetTyped
  <2>4. UNCHANGED <<tcp, recvPc, socketFd>>
    BY <1>2 DEF PeerSends, receiver
  <2>5. QED
    BY <1>1, <2>2, <2>3, <2>4 DEF Retired, Conns
<1>3. CASE PeerCloses \/ PeerResets
  <2>1. PICK c \in Conns, to \in {"fin", "reset"} :
          tcp[c] \in {"open", "fin"} /\ tcp' = [tcp EXCEPT ![c] = to]
    BY <1>3 DEF PeerCloses, PeerResets
  <2>2. c = Len(tcp) /\ recvPc \notin {"clear", "connect", "done"}
    BY <1>1, <2>1 DEF Retired, Conns
  <2>3. /\ \A d \in Conns : d # c => tcp'[d] = tcp[d]
        /\ tcp'[c] \in {"fin", "reset"} /\ Len(tcp') = Len(tcp)
    BY <2>1 DEF Typed, NetTyped, Conns
  <2>4. UNCHANGED <<inbox, recvPc, socketFd>>
    BY <1>3 DEF PeerCloses, PeerResets, receiver
  <2>5. recvPc = "shutdown" => socketFd = c
    BY <2>2 DEF Typed, Placed
  <2>6. QED
    BY <1>1, <2>2, <2>3, <2>4, <2>5 DEF Retired, Conns
<1>4. CASE RecvFails \/ WritePipe \/ Greet \/ AssignFd
  BY <1>4 DEF RecvFails, WritePipe, Greet, AssignFd, Retired, Conns, receiver, network
<1>5. CASE RecvData
  <2>1. socketFd = Len(tcp)
    BY <1>5 DEF RecvData, Typed, Placed
  <2>2. \A d \in Conns : d # socketFd => inbox'[d] = inbox[d]
    BY <1>5 DEF RecvData, Typed, NetTyped
  <2>3. QED
    BY <1>1, <1>5, <2>1, <2>2 DEF RecvData, Retired, Conns
<1>6. CASE RecvEnd
  BY <1>6 DEF RecvEnd, Retired, Conns, network
<1>7. CASE Shutdown
  <2>1. socketFd = Len(tcp) /\ inbox[socketFd] = <<>>
    BY <1>7 DEF Shutdown, Typed, Placed, Retired
  <2>2. /\ \A d \in Conns : d # socketFd => tcp'[d] = tcp[d]
        /\ tcp'[socketFd] = "shut" /\ Len(tcp') = Len(tcp)
    BY <1>7 DEF Shutdown, Typed, NetTyped, Conns
  <2>3. QED
    BY <1>1, <1>7, <2>1, <2>2 DEF Shutdown, Retired, Conns
<1>8. CASE ClearFd
  BY <1>8 DEF ClearFd, Retired, Conns, network
<1>9. CASE NoSocket
  BY <1>9 DEF NoSocket, Retired, Conns, network
<1>10. CASE Connected
  <2>1. \A c \in Conns : tcp[c] = "shut" /\ inbox[c] = <<>>
    BY <1>10 DEF Connected, Retired
  <2>2. recvPc' = "greet"
    BY <1>10 DEF Connected
  <2>3. QED
    BY <1>1, <1>10, <2>1, <2>2, OneMoreConnection DEF Retired, Conns
<1>11. CASE ReadPipe \/ LoadFd \/ Send \/ UartRead \/ UartWritePipe \/ UartSend \/ UNCHANGED vars
  BY <1>11 DEF ReadPipe, LoadFd, Send, UartRead, UartWritePipe, UartSend, UartTake, UartWrite, vars, receiver, network,
               Retired, Conns
<1>12. QED
  BY <1>2, <1>3, <1>4, <1>5, <1>6, <1>7, <1>8, <1>9, <1>10, <1>11 DEF Next, Threads, Receiver

-----------------------------------------------------------------------------
\* The greeting.

LEMMA GreetedInit == Init => Greeted
<1> SUFFICES ASSUME Init PROVE Greeted
  OBVIOUS
<1>1. Len(tcp) = 1 /\ recvPc = "recv" /\ newFd = 0 /\ got = <<<<0>>>>
  BY DEF Init
<1>2. got[1] # <<>> /\ got[1][1] = 0
  BY <1>1
<1>3. QED
  BY <1>1, <1>2 DEF Greeted, GreetedFirst, Conns

\* No connection is open again.
LEMMA GreetedKept ==
  ASSUME Greeted, UNCHANGED <<got, newFd, Len(tcp)>>,
         recvPc' \in {"greet", "assign"} => recvPc' = recvPc,
         \A c \in Conns \cup {newFd} : tcp'[c] = "open" => tcp[c] = "open"
  PROVE  Greeted'
BY DEF Greeted, GreetedFirst, Conns

\* What the sender sends goes behind the greeting.
LEMMA SentAfterGreeting ==
  ASSUME Typed, Greeted, sendFd # 0, tcp[sendFd] = "open",
         got' = [got EXCEPT ![sendFd] = @ \o toNet], UNCHANGED <<tcp, recvPc, newFd>>
  PROVE  Greeted'
<1> USE ConnsInUse
<1>1. sendFd \in Conns /\ sendFd # newFd /\ Len(tcp) \in Nat
  BY DEF Typed, ThreadsTyped, Placed, NetTyped
<1>2. got[sendFd] # <<>> /\ got[sendFd][1] = 0
  BY <1>1 DEF Greeted, GreetedFirst
<1>3. got[sendFd] \in Seq(0..MaxUart) /\ toNet \in Seq(0..MaxUart)
  <2>1. 1..MaxUart \subseteq 0..MaxUart /\ toNet \in Seq(1..MaxUart)
    BY SizesAssumption DEF Typed, BytesTyped
  <2>2. got \in Seq(Seq(0..MaxUart)) /\ sendFd \in 1..Len(got)
    BY <1>1 DEF Typed, NetTyped
  <2>3. QED
    BY <2>1, <2>2, SeqMonotonic, ElementOfSeq
<1>4. /\ Len(got[sendFd]) \in Nat \ {0} /\ Len(toNet) \in Nat
      /\ Len(got[sendFd] \o toNet) = Len(got[sendFd]) + Len(toNet)
      /\ (got[sendFd] \o toNet)[1] = got[sendFd][1]
  BY <1>2, <1>3, ConcatProperties, LenProperties, EmptySeq
<1>5. got[sendFd] \o toNet # <<>>
  BY <1>4
<1>6. \A c \in Conns : got'[c] = IF c = sendFd THEN got[c] \o toNet ELSE got[c]
  BY DEF Typed, NetTyped, Conns
<1>7. recvPc = "greet" => got'[newFd] = got[newFd]
  BY <1>1, <1>6
<1>8. recvPc = "assign" => got'[newFd] = got[newFd]
  BY <1>1, <1>6
<1>9. QED
  BY <1>1, <1>2, <1>4, <1>5, <1>6, <1>7, <1>8 DEF Greeted, GreetedFirst, Conns

LEMMA GreetedStep == Typed /\ Greeted /\ [Next]_vars => Greeted'
<1> SUFFICES ASSUME Typed, Greeted, [Next]_vars PROVE Greeted'
  OBVIOUS
<1> USE ConnsInUse
<1>1. Len(tcp) \in Nat \ {0} /\ 0 \notin Conns
  BY DEF Typed, NetTyped, Placed, Conns
<1>2. CASE PeerSends \/ RecvFails \/ RecvData \/ WritePipe \/ RecvEnd \/ ClearFd \/ NoSocket
  BY <1>2, GreetedKept DEF PeerSends, RecvFails, RecvData, WritePipe, RecvEnd, ClearFd, NoSocket,
                           receiver, network
<1>3. CASE PeerCloses \/ PeerResets \/ Shutdown
  <2>1. PICK c \in Conns, to \in {"fin", "reset", "shut"} : tcp' = [tcp EXCEPT ![c] = to]
    BY <1>3 DEF PeerCloses, PeerResets, Shutdown
  <2>2. Len(tcp') = Len(tcp)
    BY <2>1, ExceptSeq DEF Typed, NetTyped, States, Conns
  <2>3. \A d : tcp'[d] = "open" => tcp[d] = "open"
    BY <2>1 DEF Typed, NetTyped, States
  <2>4. UNCHANGED <<got, newFd>> /\ (recvPc' = recvPc \/ recvPc' = "clear")
    BY <1>3 DEF PeerCloses, PeerResets, Shutdown, receiver
  <2>5. QED
    BY <2>2, <2>3, <2>4, GreetedKept
<1>4. CASE Greet
  <2>1. newFd \in Conns /\ got[newFd] = <<>> /\ recvPc' = "assign" /\ UNCHANGED <<tcp, newFd>>
    BY <1>4 DEF Greet, Greeted
  <2>2. CASE tcp[newFd] = "open"
    <3>1. \A c \in Conns : got'[c] = IF c = newFd THEN <<0>> ELSE got[c]
      BY <1>4, <2>1, <2>2 DEF Greet, Typed, NetTyped
    <3>2. /\ got'[newFd] # <<>> /\ got'[newFd][1] = 0
          /\ \A c \in Conns : c # newFd => got'[c] = got[c]
      BY <2>1, <3>1
    <3>3. Conns' = Conns /\ newFd' = newFd /\ tcp' = tcp /\ recvPc' # "greet"
      BY <2>1 DEF Conns
    <3>4. QED
      BY <2>1, <3>2, <3>3 DEF Greeted, GreetedFirst
  <2>3. CASE tcp[newFd] # "open"
    <3>1. got' = got
      BY <1>4, <2>3 DEF Greet
    <3>2. QED
      BY <2>1, <2>3, <3>1 DEF Greeted, GreetedFirst, Conns
  <2>4. QED
    BY <2>2, <2>3
<1>5. CASE AssignFd
  BY <1>1, <1>5 DEF AssignFd, Greeted, GreetedFirst, Conns, network
<1>6. CASE Connected
  <2>1. newFd = 0 /\ recvPc' = "greet"
    BY <1>6 DEF Connected, Typed, Placed
  <2>2. QED
    BY <1>1, <1>6, <2>1, OneMoreConnection DEF Greeted, GreetedFirst, Conns
<1>7. CASE Send
  <2>1. UNCHANGED <<tcp, recvPc, newFd>>
    BY <1>7 DEF Send, receiver
  <2>2. CASE SendOpen
    BY <2>1, <2>2, SentAfterGreeting DEF SendOpen
  <2>3. CASE UNCHANGED got
    BY <2>1, <2>3, GreetedKept
  <2>4. QED
    BY <1>7, <2>2, <2>3 DEF Send, SendUnread, SendFails, SendPipe
<1>8. CASE ReadPipe \/ LoadFd \/ UartRead \/ UartWritePipe \/ UartSend \/ UNCHANGED vars
  BY <1>8, GreetedKept DEF ReadPipe, LoadFd, UartRead, UartWritePipe, UartSend, UartTake, UartWrite, vars, receiver, network
<1>9. QED
  BY <1>2, <1>3, <1>4, <1>5, <1>6, <1>7, <1>8 DEF Next, Threads, Receiver

\* A peer that gets anything gets the greeting first, although the sender uses
\* whatever it finds in socketFd (Task.c): the receiver sets that only after
\* TCP_NetConnect or TCP_NetAccept has greeted.
THEOREM TransparentGreets == Spec => []GreetedFirst
<1>1. Greeted => GreetedFirst
  BY DEF Greeted
<1>2. QED
  BY <1>1, TypedInit, TypedStep, GreetedInit, GreetedStep, PTL DEF Spec

-----------------------------------------------------------------------------
\* From the network to the UART.

\* The types of what flows from the network.
NetBytes == 1..MaxNet

LEMMA Associative ==
  ASSUME NEW a \in Seq(NetBytes), NEW b \in Seq(NetBytes), NEW c \in Seq(NetBytes)
  PROVE  (a \o b) \o c = a \o (b \o c)
BY ConcatAssociative

\* One sequence after another ascends if both do and the first is below.
LEMMA ConcatAscending ==
  ASSUME NEW x \in Seq(NetBytes), NEW y \in Seq(NetBytes)
  PROVE  /\ x \o y \in Seq(NetBytes)
         /\ Bytes(x \o y) = Bytes(x) \cup Bytes(y)
         /\ Ascending(x \o y) <=>
              Ascending(x) /\ Ascending(y) /\ \A a \in Bytes(x), b \in Bytes(y) : a < b
<1> DEFINE s == x \o y
           m == Len(x)
           n == Len(y)
<1>1. /\ m \in Nat /\ n \in Nat
      /\ s \in Seq(NetBytes) /\ Len(s) = m + n
      /\ \A i \in 1..(m + n) : s[i] = IF i <= m THEN x[i] ELSE y[i - m]
  BY ConcatProperties, LenProperties
<1>2. (\A i \in 1..m : x[i] \in Int) /\ (\A i \in 1..n : y[i] \in Int)
  BY SizesAssumption, LenProperties DEF NetBytes
<1> HIDE DEF s, m, n
<1>3. \A i \in 1..m : i \in 1..(m + n) /\ s[i] = x[i]
  BY <1>1
<1>4. ASSUME NEW i \in 1..n PROVE m + i \in 1..(m + n) /\ s[m + i] = y[i]
  <2>1. m + i \in 1..(m + n) /\ ~(m + i <= m) /\ (m + i) - m = i
    BY <1>1
  <2>2. QED
    BY <1>1, <2>1
<1>5. ASSUME NEW i \in 1..(m + n), ~(i <= m) PROVE i - m \in 1..n /\ s[i] = y[i - m]
  BY <1>1, <1>5
<1>6. Bytes(s) = Bytes(x) \cup Bytes(y)
  <2>1. ASSUME NEW i \in 1..(m + n) PROVE s[i] \in Bytes(x) \cup Bytes(y)
    <3>1. CASE i <= m
      BY <1>1, <3>1 DEF Bytes, m
    <3>2. CASE ~(i <= m)
      BY <1>5, <3>2 DEF Bytes, n
    <3>3. QED
      BY <3>1, <3>2
  <2>2. \A i \in 1..m : x[i] \in Bytes(s)
    BY <1>1, <1>3 DEF Bytes
  <2>3. \A i \in 1..n : y[i] \in Bytes(s)
    BY <1>1, <1>4 DEF Bytes
  <2>4. Bytes(s) = {s[i] : i \in 1..(m + n)}
    BY <1>1 DEF Bytes
  <2>5. Bytes(x) = {x[i] : i \in 1..m} /\ Bytes(y) = {y[i] : i \in 1..n}
    BY DEF Bytes, m, n
  <2>6. Bytes(s) \subseteq Bytes(x) \cup Bytes(y)
    BY <2>1, <2>4
  <2>7. Bytes(x) \subseteq Bytes(s) /\ Bytes(y) \subseteq Bytes(s)
    BY <2>2, <2>3, <2>5
  <2>8. QED
    BY <2>6, <2>7
<1>7. ASSUME Ascending(s)
      PROVE  Ascending(x) /\ Ascending(y) /\ \A a \in Bytes(x), b \in Bytes(y) : a < b
  <2>1. \A i, j \in 1..(m + n) : i < j => s[i] < s[j]
    BY <1>1, <1>7 DEF Ascending
  <2>2. \A i, j \in 1..m : i < j => x[i] < x[j]
    BY <1>3, <2>1
  <2>3. ASSUME NEW i \in 1..n, NEW j \in 1..n, i < j PROVE y[i] < y[j]
    <3>1. m + i < m + j
      BY <1>1, <2>3
    <3>2. QED
      BY <1>4, <2>1, <3>1
  <2>4. ASSUME NEW i \in 1..m, NEW j \in 1..n PROVE x[i] < y[j]
    <3>1. i < m + j
      BY <1>1
    <3>2. QED
      BY <1>3, <1>4, <2>1, <3>1
  <2>5. Ascending(x) /\ Ascending(y)
    BY <2>2, <2>3 DEF Ascending, m, n
  <2>6. QED
    BY <2>4, <2>5 DEF Bytes, m, n
<1>8. ASSUME Ascending(x), Ascending(y), \A a \in Bytes(x), b \in Bytes(y) : a < b
      PROVE  Ascending(s)
  <2>1. (\A i, j \in 1..m : i < j => x[i] < x[j]) /\ (\A i, j \in 1..n : i < j => y[i] < y[j])
    BY <1>8 DEF Ascending, m, n
  <2>2. \A i \in 1..m, j \in 1..n : x[i] < y[j]
    BY <1>8 DEF Bytes, m, n
  <2>3. ASSUME NEW i \in 1..(m + n), NEW j \in 1..(m + n), i < j PROVE s[i] < s[j]
    <3>1. CASE j <= m
      BY <1>1, <2>1, <2>3, <3>1
    <3>2. CASE i <= m /\ ~(j <= m)
      <4>1. i \in 1..m /\ s[i] = x[i] /\ j - m \in 1..n /\ s[j] = y[j - m]
        BY <1>1, <1>5, <3>2
      <4>2. QED
        BY <2>2, <4>1
    <3>3. CASE ~(i <= m)
      <4>1. ~(j <= m) /\ i - m < j - m
        BY <1>1, <2>3, <3>3
      <4>2. i - m \in 1..n /\ s[i] = y[i - m] /\ j - m \in 1..n /\ s[j] = y[j - m]
        BY <1>5, <3>3, <4>1
      <4>3. QED
        BY <2>1, <4>1, <4>2
    <3>4. QED
      BY <3>1, <3>2, <3>3
  <2>4. QED
    BY <1>1, <2>3 DEF Ascending
<1>9. QED
  BY <1>1, <1>6, <1>7, <1>8 DEF s

\* A piece is lost from the middle of what ascends.
LEMMA PieceLost ==
  ASSUME NEW x \in Seq(NetBytes), NEW y \in Seq(NetBytes), NEW z \in Seq(NetBytes),
         Ascending((x \o y) \o z)
  PROVE  Ascending(x \o z) /\ Bytes(x \o z) = Bytes((x \o y) \o z) \ Bytes(y)
<1> DEFINE xy == x \o y
<1>1. xy \in Seq(NetBytes) /\ Bytes(xy) = Bytes(x) \cup Bytes(y)
  BY ConcatAscending
<1>2. Ascending(xy) <=> Ascending(x) /\ Ascending(y) /\ \A a \in Bytes(x), b \in Bytes(y) : a < b
  BY ConcatAscending
<1>3. Ascending(xy \o z)
  OBVIOUS
<1> HIDE DEF xy
<1>4. /\ Bytes(xy \o z) = Bytes(xy) \cup Bytes(z)
      /\ Ascending(xy) /\ Ascending(z) /\ \A a \in Bytes(xy), b \in Bytes(z) : a < b
  BY <1>1, <1>3, ConcatAscending
<1>5. /\ Bytes(x \o z) = Bytes(x) \cup Bytes(z)
      /\ Ascending(x \o z) <=>
           Ascending(x) /\ Ascending(z) /\ \A a \in Bytes(x), b \in Bytes(z) : a < b
  BY ConcatAscending
<1>6. Ascending(x \o z)
  BY <1>1, <1>2, <1>4, <1>5
<1>7. Bytes(x) \subseteq Int /\ Bytes(y) \subseteq Int /\ Bytes(z) \subseteq Int
  BY SizesAssumption, LenProperties DEF Bytes, NetBytes
<1>8. \A a \in Bytes(x) \cup Bytes(z) : a \notin Bytes(y)
  <2>1. \A a \in Bytes(x), b \in Bytes(y) : a # b
    BY <1>2, <1>4, <1>7
  <2>2. \A a \in Bytes(y), b \in Bytes(z) : a # b
    BY <1>1, <1>4, <1>7
  <2>3. QED
    BY <2>1, <2>2
<1>9. Bytes(x \o z) = Bytes(xy \o z) \ Bytes(y)
  BY <1>1, <1>4, <1>5, <1>8
<1>10. QED
  BY <1>6, <1>9 DEF xy

LEMMA HeadFirst ==
  ASSUME NEW S, NEW c \in Seq(S), c # <<>>
  PROVE  Head(c) \in S /\ Tail(c) \in Seq(S) /\ c = <<Head(c)>> \o Tail(c)
<1>1. Len(c) \in Nat \ {0}
  BY EmptySeq
<1>2. SubSeq(c, 1, Len(c)) = <<c[1]>> \o SubSeq(c, 2, Len(c))
  BY <1>1, SubSeqRecursiveFirst
<1>3. QED
  BY <1>1, <1>2, SubSeqFull, TailIsSubSeq, HeadTailProperties

LEMMA FlowTyped ==
  ASSUME Typed
  PROVE  /\ uartOut \in Seq(NetBytes) /\ uartChunk \in Seq(NetBytes)
         /\ tcp2Uart \in Seq(NetBytes) /\ toUart \in Seq(NetBytes)
         /\ inbox[Len(tcp)] \in Seq(NetBytes) /\ Len(tcp) \in Conns /\ netSent \in Nat
         /\ AtUart \in Seq(NetBytes) /\ tcp2Uart \o toUart \in Seq(NetBytes)
         /\ Coming \in Seq(NetBytes) /\ FromNet \in Seq(NetBytes)
<1>1. /\ uartOut \in Seq(NetBytes) /\ uartChunk \in Seq(NetBytes)
      /\ tcp2Uart \in Seq(NetBytes) /\ toUart \in Seq(NetBytes)
  BY DEF Typed, BytesTyped, NetBytes
<1>2. inbox[Len(tcp)] \in Seq(NetBytes) /\ Len(tcp) \in Conns
  BY ConnsInUse, ElementOfSeq DEF Typed, NetTyped, NetBytes
<1>3. netSent \in Nat
  BY SizesAssumption DEF Typed, BytesTyped
<1>4. AtUart \in Seq(NetBytes) /\ tcp2Uart \o toUart \in Seq(NetBytes)
  BY <1>1, ConcatProperties DEF AtUart
<1>5. Coming \in Seq(NetBytes)
  BY <1>2, <1>4, ConcatProperties DEF Coming
<1>6. QED
  BY <1>1, <1>2, <1>3, <1>4, <1>5, ConcatProperties DEF FromNet

LEMMA FlowInit == Init => NetFlow
<1> SUFFICES ASSUME Init PROVE NetFlow
  OBVIOUS
<1>1. /\ uartOut = <<>> /\ uartChunk = <<>> /\ tcp2Uart = <<>> /\ toUart = <<>> /\ netSent = 0
      /\ inbox = <<<<>>>> /\ tcp = <<"open">> /\ refused = {}
  BY DEF Init
<1>2. inbox[Len(tcp)] = <<>> /\ <<>> \o <<>> = <<>>
  BY <1>1
<1>3. FromNet = <<>>
  BY <1>1, <1>2 DEF FromNet, AtUart, Coming
<1>4. Ascending(<<>>) /\ Bytes(<<>>) = {}
  BY DEF Ascending, Bytes
<1>5. QED
  BY <1>1, <1>3, <1>4 DEF NetFlow

\* A byte comes behind all others.
LEMMA OneMoreByte ==
  ASSUME Typed, Retired, NetFlow, PeerSends
  PROVE  NetFlow'
<1> USE ConnsInUse
<1>1. PICK c \in Conns : tcp[c] = "open" /\ inbox' = [inbox EXCEPT ![c] = Append(@, netSent + 1)]
  BY DEF PeerSends
<1>2. c = Len(tcp)
  BY <1>1, FlowTyped DEF Retired, Conns
<1>3. inbox'[Len(tcp)] = Append(inbox[Len(tcp)], netSent + 1)
  BY <1>1, <1>2 DEF Typed, NetTyped, Conns
<1> DEFINE n == netSent + 1
           last == <<n>>
           piped == tcp2Uart \o toUart
           rest == inbox[Len(tcp)]
<1>4. netSent \in Nat /\ n \in NetBytes
  BY SizesAssumption DEF PeerSends, Typed, BytesTyped, NetBytes
<1>5. piped \in Seq(NetBytes) /\ rest \in Seq(NetBytes) /\ last \in Seq(NetBytes)
  BY <1>4, FlowTyped
<1>6. Append(rest, n) = rest \o last
  BY <1>4, <1>5, AppendIsConcat
<1>7. FromNet' = AtUart \o (piped \o (rest \o last)) /\ Coming = piped \o rest
  BY <1>3, <1>6 DEF PeerSends, FromNet, AtUart, Coming, receiver, uart
<1>8. Bytes(last) = {n} /\ Ascending(last)
  BY DEF Bytes, Ascending
<1> HIDE DEF last, piped, rest
<1>9. piped \o (rest \o last) = Coming \o last
  BY <1>5, <1>7, Associative
<1>10. AtUart \o (Coming \o last) = FromNet \o last
  <2>1. AtUart \in Seq(NetBytes) /\ Coming \in Seq(NetBytes)
    BY FlowTyped
  <2>2. (AtUart \o Coming) \o last = AtUart \o (Coming \o last)
    BY <1>5, <2>1, Associative
  <2>3. QED
    BY <2>2 DEF FromNet
<1>11. FromNet' = FromNet \o last
  BY <1>7, <1>9, <1>10
<1>12. FromNet \in Seq(NetBytes)
  BY FlowTyped
<1>13. /\ Bytes(FromNet \o last) = Bytes(FromNet) \cup Bytes(last)
       /\ Ascending(FromNet \o last) <=>
            Ascending(FromNet) /\ Ascending(last) /\ \A a \in Bytes(FromNet), b \in Bytes(last) : a < b
  BY <1>5, <1>12, ConcatAscending
<1>14. netSent' = n /\ refused' = refused
  BY DEF PeerSends, uart
<1>15. Bytes(FromNet) = (1..netSent) \ refused /\ refused \subseteq 1..netSent /\ Ascending(FromNet)
  BY DEF NetFlow
<1>16. \A a \in Bytes(FromNet), b \in Bytes(last) : a < b
  BY <1>4, <1>8, <1>15
<1>17. (Bytes(FromNet) \cup {n}) = (1..n) \ refused /\ refused \subseteq 1..n
  BY <1>4, <1>15
<1> HIDE DEF n
<1>18. Ascending(FromNet') /\ Bytes(FromNet') = (1..n) \ refused
  BY <1>8, <1>11, <1>13, <1>15, <1>16, <1>17
<1>19. QED
  BY <1>14, <1>17, <1>18 DEF NetFlow

\* What the UART does not take is lost, and nothing else.
LEMMA UartTakesPart ==
  ASSUME Typed, NetFlow, UartWrite
  PROVE  NetFlow'
<1>1. PICK k \in 0..Len(uartChunk) :
        /\ uartOut' = uartOut \o SubSeq(uartChunk, 1, k)
        /\ refused' = refused \cup Bytes(SubSeq(uartChunk, k + 1, Len(uartChunk)))
  BY DEF UartWrite
<1> DEFINE taken == SubSeq(uartChunk, 1, k)
           lost == SubSeq(uartChunk, k + 1, Len(uartChunk))
           out == uartOut \o taken
<1>2. taken \in Seq(NetBytes) /\ lost \in Seq(NetBytes) /\ taken \o lost = uartChunk
  BY SplitOrNone, FlowTyped
<1>3. uartOut' = out /\ refused' = refused \cup Bytes(lost)
  BY <1>1
<1> HIDE DEF taken, lost
<1>4. out \in Seq(NetBytes) /\ out \o lost = AtUart
  <2>1. uartOut \in Seq(NetBytes)
    BY FlowTyped
  <2>2. (uartOut \o taken) \o lost = uartOut \o (taken \o lost)
    BY <1>2, <2>1, Associative
  <2>3. QED
    BY <1>2, <2>1, <2>2, ConcatProperties DEF AtUart
<1> HIDE DEF out
<1>5. uartChunk' = <<>> /\ Coming' = Coming /\ netSent' = netSent
  BY DEF UartWrite, Coming, receiver, network
<1>6. FromNet' = out \o Coming
  BY <1>3, <1>4, <1>5, ConcatEmptySeq DEF FromNet, AtUart
<1>7. /\ refused \subseteq 1..netSent /\ Ascending((out \o lost) \o Coming)
      /\ Bytes((out \o lost) \o Coming) = (1..netSent) \ refused
  BY <1>4 DEF NetFlow, FromNet
<1>8. Coming \in Seq(NetBytes)
  BY FlowTyped
<1>9. /\ Ascending(out \o Coming)
      /\ Bytes(out \o Coming) = Bytes((out \o lost) \o Coming) \ Bytes(lost)
  BY <1>2, <1>4, <1>7, <1>8, PieceLost
<1>10. Bytes(lost) \subseteq 1..netSent
  <2> DEFINE all == out \o lost
  <2>1. all \in Seq(NetBytes) /\ Bytes(all) = Bytes(out) \cup Bytes(lost)
    BY <1>2, <1>4, ConcatAscending
  <2>2. Bytes(all \o Coming) = (1..netSent) \ refused
    BY <1>7
  <2> HIDE DEF all
  <2>3. Bytes(all \o Coming) = Bytes(all) \cup Bytes(Coming)
    BY <1>8, <2>1, ConcatAscending
  <2>4. QED
    BY <2>1, <2>2, <2>3
<1>11. Bytes(FromNet') = (1..netSent) \ refused' /\ refused' \subseteq 1..netSent
  BY <1>3, <1>6, <1>7, <1>9, <1>10
<1>12. QED
  BY <1>5, <1>6, <1>9, <1>11 DEF NetFlow

LEMMA FlowStep == Typed /\ Retired /\ NetFlow /\ [Next]_vars => NetFlow'
<1> SUFFICES ASSUME Typed, Retired, NetFlow, [Next]_vars PROVE NetFlow'
  OBVIOUS
<1> USE ConnsInUse
<1>1. ASSUME FromNet' = FromNet, UNCHANGED <<refused, netSent>> PROVE NetFlow'
  BY <1>1 DEF NetFlow
<1>2. ASSUME UNCHANGED <<uartOut, uartChunk, tcp2Uart, toUart, inbox, Len(tcp)>> PROVE FromNet' = FromNet
  BY <1>2 DEF FromNet, AtUart, Coming
<1>3. CASE RecvData
  <2>1. socketFd = Len(tcp) /\ toUart = <<>>
    BY <1>3 DEF RecvData, Typed, Placed
  <2>2. PICK k \in 1..Len(inbox[Len(tcp)]) :
          /\ toUart' = SubSeq(inbox[Len(tcp)], 1, k)
          /\ inbox' = [inbox EXCEPT ![Len(tcp)] = SubSeq(@, k + 1, Len(@))]
    BY <1>3, <2>1 DEF RecvData
  <2>3. inbox'[Len(tcp)] = SubSeq(inbox[Len(tcp)], k + 1, Len(inbox[Len(tcp)]))
    BY <2>2, FlowTyped DEF Typed, NetTyped, Conns
  <2> DEFINE chunk == SubSeq(inbox[Len(tcp)], 1, k)
             rest == SubSeq(inbox[Len(tcp)], k + 1, Len(inbox[Len(tcp)]))
  <2>4. chunk \in Seq(NetBytes) /\ rest \in Seq(NetBytes) /\ chunk \o rest = inbox[Len(tcp)]
    BY Split, FlowTyped
  <2>5. toUart' = chunk /\ inbox'[Len(tcp)] = rest
    BY <2>2, <2>3
  <2> HIDE DEF chunk, rest
  <2>6. Coming' = (tcp2Uart \o chunk) \o rest
    BY <1>3, <2>5 DEF RecvData, Coming, uart
  <2>7. (tcp2Uart \o chunk) \o rest = tcp2Uart \o (chunk \o rest)
    <3>1. tcp2Uart \in Seq(NetBytes)
      BY FlowTyped
    <3>2. QED
      BY <2>4, <3>1, Associative
  <2>8. tcp2Uart \o toUart = tcp2Uart
    BY <2>1, ConcatEmptySeq, FlowTyped
  <2>9. Coming' = Coming
    BY <2>4, <2>6, <2>7, <2>8 DEF Coming
  <2>10. QED
    BY <1>1, <1>3, <2>9 DEF RecvData, FromNet, AtUart, uart
<1>4. CASE WritePipe
  <2>1. toUart # <<>>
    BY <1>4 DEF WritePipe, Typed, Placed
  <2> DEFINE h == Head(toUart)
             t == Tail(toUart)
             first == <<h>>
  <2>2. tcp2Uart \in Seq(NetBytes) /\ toUart \in Seq(NetBytes)
    BY FlowTyped
  <2>3. h \in NetBytes /\ t \in Seq(NetBytes) /\ toUart = first \o t
    BY <2>1, <2>2, HeadFirst
  <2>4. first \in Seq(NetBytes) /\ Append(tcp2Uart, h) = tcp2Uart \o first
    BY <2>2, <2>3, AppendIsConcat
  <2>5. tcp2Uart' = tcp2Uart \o first /\ toUart' = t
    BY <1>4, <2>4 DEF WritePipe
  <2> HIDE DEF h, t, first
  <2>6. (tcp2Uart \o first) \o t = tcp2Uart \o (first \o t)
    BY <2>2, <2>3, <2>4, Associative
  <2>7. Coming' = Coming
    BY <1>4, <2>3, <2>5, <2>6 DEF WritePipe, Coming, network
  <2>8. QED
    BY <1>1, <1>4, <2>7 DEF WritePipe, FromNet, AtUart, network
<1>5. CASE UartTake
  <2>1. PICK k \in 1..Len(tcp2Uart) :
          /\ uartChunk' = SubSeq(tcp2Uart, 1, k)
          /\ tcp2Uart' = SubSeq(tcp2Uart, k + 1, Len(tcp2Uart))
    BY <1>5 DEF UartTake
  <2> DEFINE chunk == SubSeq(tcp2Uart, 1, k)
             rest == SubSeq(tcp2Uart, k + 1, Len(tcp2Uart))
             net == inbox[Len(tcp)]
  <2>2. chunk \in Seq(NetBytes) /\ rest \in Seq(NetBytes) /\ chunk \o rest = tcp2Uart
    BY Split, FlowTyped
  <2>3. uartChunk' = chunk /\ tcp2Uart' = rest
    BY <2>1
  <2>4. uartOut \in Seq(NetBytes) /\ toUart \in Seq(NetBytes) /\ net \in Seq(NetBytes)
    BY FlowTyped
  <2>5. AtUart = uartOut /\ Coming = ((chunk \o rest) \o toUart) \o net
    BY <1>5, <2>2, <2>4, ConcatEmptySeq DEF UartTake, AtUart, Coming
  <2>6. FromNet' = (uartOut \o chunk) \o ((rest \o toUart) \o net)
    BY <1>5, <2>3 DEF UartTake, FromNet, AtUart, Coming, receiver, network
  <2> HIDE DEF chunk, rest, net
  <2>7. rest \o toUart \in Seq(NetBytes)
    BY <2>2, <2>4, ConcatProperties
  <2>8. (chunk \o rest) \o toUart = chunk \o (rest \o toUart)
    BY <2>2, <2>4, Associative
  <2>9. (chunk \o (rest \o toUart)) \o net = chunk \o ((rest \o toUart) \o net)
    BY <2>2, <2>4, <2>7, Associative
  <2> DEFINE behind == (rest \o toUart) \o net
  <2>10. behind \in Seq(NetBytes)
    BY <2>4, <2>7, ConcatProperties
  <2>11. FromNet = uartOut \o (chunk \o behind) /\ FromNet' = (uartOut \o chunk) \o behind
    BY <2>5, <2>6, <2>8, <2>9 DEF FromNet
  <2> HIDE DEF behind
  <2>12. (uartOut \o chunk) \o behind = uartOut \o (chunk \o behind)
    <3>1. uartOut \in Seq(NetBytes) /\ chunk \in Seq(NetBytes)
      BY <2>2, <2>4
    <3>2. QED
      BY <2>10, <3>1, Associative, Zenon
  <2>13. QED
    BY <1>1, <1>5, <2>11, <2>12 DEF UartTake, network
<1>6. CASE Connected
  <2>1. inbox[Len(tcp)] = <<>> /\ inbox'[Len(tcp')] = <<>>
    BY <1>6, OneMoreConnection DEF Connected, Retired
  <2>2. FromNet' = FromNet
    BY <1>6, <2>1 DEF Connected, NewConnection, FromNet, AtUart, Coming, uart
  <2>3. QED
    BY <1>1, <1>6, <2>2 DEF Connected, NewConnection, uart
<1>7. CASE PeerCloses \/ PeerResets \/ Shutdown
  <2>1. PICK c \in Conns, to \in {"fin", "reset", "shut"} : tcp' = [tcp EXCEPT ![c] = to]
    BY <1>7 DEF PeerCloses, PeerResets, Shutdown
  <2>2. Len(tcp') = Len(tcp)
    BY <2>1, ExceptSeq DEF Typed, NetTyped, States, Conns
  <2>3. QED
    BY <1>1, <1>2, <1>7, <2>2 DEF PeerCloses, PeerResets, Shutdown, receiver, uart
<1>8. CASE RecvFails \/ RecvEnd \/ ClearFd \/ Greet \/ AssignFd \/ NoSocket
  BY <1>1, <1>2, <1>8 DEF RecvFails, RecvEnd, ClearFd, Greet, AssignFd, NoSocket, receiver, uart, network
<1>9. CASE ReadPipe \/ LoadFd \/ Send \/ UartRead \/ UartWritePipe \/ UNCHANGED vars
  BY <1>1, <1>2, <1>9
  DEF ReadPipe, LoadFd, Send, UartRead, UartWritePipe, vars, receiver, uart, network
<1>10. QED
  BY <1>3, <1>4, <1>5, <1>6, <1>7, <1>8, <1>9, OneMoreByte, UartTakesPart
  DEF Next, Threads, Receiver, UartSend

LEMMA FlowIsComplete == Typed /\ Retired /\ NetFlow => LostOnlyAtUart
<1> SUFFICES ASSUME Typed, Retired, NetFlow PROVE LostOnlyAtUart
  OBVIOUS
<1> DEFINE piped == AtUart \o tcp2Uart
           inside == piped \o toUart
           rest == inbox[Len(tcp)]
<1>1. /\ AtUart \in Seq(NetBytes) /\ tcp2Uart \in Seq(NetBytes) /\ toUart \in Seq(NetBytes)
      /\ rest \in Seq(NetBytes) /\ tcp2Uart \o toUart \in Seq(NetBytes)
  BY FlowTyped
<1>2. AtUart \o (tcp2Uart \o toUart) = inside
  BY <1>1, Associative
<1>3. inside \in Seq(NetBytes)
  BY <1>1, ConcatProperties
<1>4. AtUart \o ((tcp2Uart \o toUart) \o rest) = (AtUart \o (tcp2Uart \o toUart)) \o rest
  <2> DEFINE p == tcp2Uart \o toUart
  <2>1. AtUart \in Seq(NetBytes) /\ p \in Seq(NetBytes) /\ rest \in Seq(NetBytes)
    BY <1>1
  <2> HIDE DEF p, rest
  <2>2. AtUart \o (p \o rest) = (AtUart \o p) \o rest
    BY <2>1, Associative, Zenon
  <2>3. QED
    BY <2>2 DEF p
<1>5. FromNet = inside \o rest
  BY <1>2, <1>4 DEF FromNet, Coming
<1>6. Ascending(FromNet) /\ Bytes(FromNet) = (1..netSent) \ refused
  BY DEF NetFlow
<1>7. \A c \in Conns : c # Len(tcp) => inbox[c] = <<>>
  BY ConnsInUse DEF Retired, Conns
<1>8. UNION {Bytes(inbox[c]) : c \in Conns} = Bytes(rest)
  <2>1. Bytes(<<>>) = {}
    BY DEF Bytes
  <2>2. Len(tcp) \in Conns
    BY FlowTyped
  <2>3. \A c \in Conns : Bytes(inbox[c]) \subseteq Bytes(rest)
    BY <1>7, <2>1
  <2>4. QED
    BY <2>2, <2>3
<1>9. inside = uartOut \o uartChunk \o tcp2Uart \o toUart
  BY DEF AtUart
<1> HIDE DEF inside, rest
<1>10. Ascending(inside) /\ Bytes(inside) \cup Bytes(rest) = (1..netSent) \ refused
  BY <1>1, <1>3, <1>5, <1>6, ConcatAscending
<1>11. QED
  BY <1>8, <1>9, <1>10 DEF LostOnlyAtUart

\* Of what comes from the network only what a write() to the UART does not take
\* is lost, and nothing overtakes, whatever the size of the pipe and however
\* often the connection changes (the receive thread, the pipe and
\* UartSendPthread in Task.c).
THEOREM TransparentLosesAtUartOnly == Spec => []LostOnlyAtUart
BY TypedInit, TypedStep, RetiredInit, RetiredStep, FlowInit, FlowStep, FlowIsComplete, PTL DEF Spec

-----------------------------------------------------------------------------
\* From the UART to the peers.

UartBytes == 1..MaxUart

LEMMA LineTyped ==
  ASSUME Typed
  PROVE  /\ toNet \in Seq(UartBytes) /\ uart2Tcp \in Seq(UartBytes) /\ fromUart \in Seq(UartBytes)
         /\ toNet \o uart2Tcp \in Seq(UartBytes) /\ FromUart \in Seq(UartBytes)
         /\ Len(toNet) \in Nat /\ Len(FromUart) \in Nat /\ uartRead \in Nat
<1>1. toNet \in Seq(UartBytes) /\ uart2Tcp \in Seq(UartBytes) /\ fromUart \in Seq(UartBytes)
  BY DEF Typed, BytesTyped, UartBytes
<1>2. uartRead \in Nat
  BY SizesAssumption DEF Typed, BytesTyped
<1>3. toNet \o uart2Tcp \in Seq(UartBytes)
  BY <1>1, ConcatProperties
<1>4. (toNet \o uart2Tcp) \o fromUart \in Seq(UartBytes)
  BY <1>1, <1>3, ConcatProperties
<1>5. QED
  BY <1>1, <1>2, <1>3, <1>4, LenProperties DEF FromUart

LEMMA LineInit == Init => UartLine
<1> SUFFICES ASSUME Init PROVE UartLine
  OBVIOUS
<1>1. toNet = <<>> /\ uart2Tcp = <<>> /\ fromUart = <<>> /\ uartRead = 0
  BY DEF Init
<1>2. FromUart = <<>>
  BY <1>1 DEF FromUart
<1>3. Len(FromUart) = 0
  BY <1>2
<1>4. QED
  BY <1>1, <1>3 DEF UartLine, Sent

\* What waits stays the same, or the UART adds one.
LEMMA LineKept ==
  ASSUME Typed, UartLine, UartRead \/ UartWritePipe \/ ReadPipe
  PROVE  UartLine' /\ Sent' = Sent
<1> USE DEF UartLine, Sent
<1>1. CASE UartRead
  <2> DEFINE n == uartRead + 1
  <2> DEFINE out == toNet \o uart2Tcp
  <2>1. n \in UartBytes
    BY <1>1, SizesAssumption DEF UartRead, Typed, BytesTyped, UartBytes
  <2>2. out \in Seq(UartBytes) /\ FromUart \in Seq(UartBytes) /\ Len(FromUart) \in Nat /\ uartRead \in Nat
    BY LineTyped
  <2>3. FromUart = out \o <<>> /\ FromUart' = out \o <<n>>
    BY <1>1 DEF UartRead, FromUart, sender
  <2> HIDE DEF out
  <2>4. FromUart = out
    BY <2>2, <2>3, ConcatEmptySeq
  <2>5. FromUart' = Append(FromUart, n)
    BY <2>1, <2>2, <2>3, <2>4, AppendIsConcat
  <2>6. /\ Len(FromUart') = Len(FromUart) + 1 /\ FromUart'[Len(FromUart) + 1] = n
        /\ \A i \in 1..Len(FromUart) : FromUart'[i] = FromUart[i]
    BY <2>1, <2>2, <2>5, AppendProperties
  <2>7. Sent' = Sent
    BY <1>1, <2>2, <2>6 DEF UartRead
  <2>8. \A i \in 1..Len(FromUart') : FromUart'[i] = Sent' + i
    BY <2>2, <2>6, <2>7
  <2>9. QED
    BY <1>1, <2>7, <2>8 DEF UartRead, sender
<1>2. CASE UartWritePipe
  <2>1. toNet \in Seq(UartBytes) /\ uart2Tcp \in Seq(UartBytes) /\ fromUart \in Seq(UartBytes)
    BY LineTyped
  <2>2. uart2Tcp \o fromUart \in Seq(UartBytes)
    BY <2>1, ConcatProperties
  <2>3. toNet \o (uart2Tcp \o fromUart) = (toNet \o uart2Tcp) \o fromUart
    BY <2>1, ConcatAssociative, SMTT(40)
  <2>4. FromUart' = (toNet \o (uart2Tcp \o fromUart)) \o <<>>
    BY <1>2 DEF UartWritePipe, FromUart, sender
  <2>5. FromUart' = FromUart
    <3>1. FromUart' = FromUart \o <<>>
      BY <2>3, <2>4 DEF FromUart
    <3>2. QED
      BY <3>1, LineTyped, ConcatEmptySeq
  <2>6. QED
    BY <1>2, <2>5 DEF UartWritePipe, sender
<1>3. CASE ReadPipe
  <2>1. toNet = <<>> /\ uart2Tcp \in Seq(UartBytes)
    BY <1>3, LineTyped DEF ReadPipe
  <2>2. PICK k \in 1..Len(uart2Tcp) :
          toNet' = SubSeq(uart2Tcp, 1, k) /\ uart2Tcp' = SubSeq(uart2Tcp, k + 1, Len(uart2Tcp))
    BY <1>3 DEF ReadPipe
  <2>3. toNet' \o uart2Tcp' = uart2Tcp
    BY <2>1, <2>2, Split
  <2>4. toNet \o uart2Tcp = uart2Tcp
    BY <2>1, ConcatEmptySeq
  <2>5. FromUart' = FromUart
    BY <1>3, <2>3, <2>4 DEF ReadPipe, FromUart
  <2>6. QED
    BY <1>3, <2>5 DEF ReadPipe
<1>4. QED
  BY <1>1, <1>2, <1>3

\* What is sent, or lost with the connection, is the first that waits.
LEMMA LineSent ==
  ASSUME Typed, UartLine, Send
  PROVE  /\ UartLine' /\ Sent' = Sent + Len(toNet) /\ Sent \in Nat
         /\ \A i \in 1..Len(toNet) : toNet[i] = Sent + i
<1> USE DEF UartLine, Sent
<1> DEFINE rest == uart2Tcp \o fromUart
<1>1. toNet' = <<>> /\ UNCHANGED <<uart2Tcp, fromUart, uartRead>>
  BY DEF Send, SendOpen, SendUnread, SendFails, SendPipe, SendDone, uart
<1>2. /\ toNet \in Seq(UartBytes) /\ uart2Tcp \in Seq(UartBytes) /\ fromUart \in Seq(UartBytes)
      /\ Len(toNet) \in Nat /\ Len(FromUart) \in Nat /\ uartRead \in Nat
  BY LineTyped
<1>3. rest \in Seq(UartBytes)
  BY <1>2, ConcatProperties
<1>4. FromUart = toNet \o rest
  BY <1>2, ConcatAssociative, SMTT(40) DEF FromUart
<1>5. FromUart' = rest
  <2>1. <<>> \o uart2Tcp = uart2Tcp
    BY <1>2, ConcatEmptySeq
  <2>2. QED
    BY <1>1, <2>1 DEF FromUart
<1> HIDE DEF rest
<1>6. /\ Len(FromUart) = Len(toNet) + Len(rest) /\ Len(rest) \in Nat
      /\ \A i \in 1..(Len(toNet) + Len(rest)) :
           FromUart[i] = IF i <= Len(toNet) THEN toNet[i] ELSE rest[i - Len(toNet)]
  BY <1>2, <1>3, <1>4, ConcatProperties, LenProperties
<1>7. Sent' = Sent + Len(toNet) /\ Sent \in Nat
  BY <1>1, <1>2, <1>5, <1>6
<1>8. \A i \in 1..Len(toNet) : toNet[i] = Sent + i
  BY <1>2, <1>6
<1>9. ASSUME NEW i \in 1..Len(rest) PROVE rest[i] = Sent' + i
  <2>1. /\ Len(toNet) + i \in 1..Len(FromUart) /\ ~(Len(toNet) + i <= Len(toNet))
        /\ Len(toNet) + i - Len(toNet) = i
    BY <1>2, <1>6
  <2>2. FromUart[Len(toNet) + i] = rest[i] /\ FromUart[Len(toNet) + i] = Sent + (Len(toNet) + i)
    BY <1>6, <2>1
  <2>3. QED
    BY <1>2, <1>7, <2>2
<1>10. QED
  BY <1>1, <1>2, <1>5, <1>7, <1>8, <1>9

LEMMA LineStep == Typed /\ UartLine /\ [Next]_vars => UartLine'
<1> SUFFICES ASSUME Typed, UartLine, [Next]_vars PROVE UartLine'
  OBVIOUS
<1>1. ASSUME UNCHANGED <<toNet, uart2Tcp, fromUart, uartRead>>, sendPc' = sendPc \/ sendPc' = "send"
      PROVE  UartLine' /\ Sent' = Sent
  BY <1>1 DEF UartLine, Sent, FromUart
<1>2. CASE PeerSends \/ PeerCloses \/ PeerResets \/ Receiver \/ Connected \/ UNCHANGED vars
  BY <1>1, <1>2 DEF PeerSends, PeerCloses, PeerResets, Receiver, RecvFails, RecvData, WritePipe,
       RecvEnd, Shutdown, ClearFd, Greet, AssignFd, NoSocket, Connected, NewConnection, vars,
       sender, uart
<1>3. CASE LoadFd \/ UartSend
  BY <1>1, <1>3 DEF LoadFd, UartSend, UartTake, UartWrite, sender, uart
<1>4. QED
  BY <1>2, <1>3, LineKept, LineSent DEF Next, Threads

-----------------------------------------------------------------------------
\* The peers.

LEMMA BehindInit == Init => PeersBehind
<1> SUFFICES ASSUME Init PROVE PeersBehind
  OBVIOUS
<1>1. Len(tcp) = 1 /\ got = <<<<0>>>> /\ sendFd = 0
  BY DEF Init
<1>2. Sent = 0
  <2>1. toNet = <<>> /\ uart2Tcp = <<>> /\ fromUart = <<>> /\ uartRead = 0
    BY DEF Init
  <2>2. FromUart = <<>>
    BY <2>1 DEF FromUart
  <2>3. Len(FromUart) = 0
    BY <2>2
  <2>4. QED
    BY <2>1, <2>3 DEF Sent
<1>3. Len(got[1]) = 1 /\ got[1][1] = 0
  BY <1>1
<1>4. QED
  BY <1>1, <1>2, <1>3 DEF PeersBehind, PeersGetInOrder, Conns

\* The elements a peer has got are numbers.
LEMMA GotTyped ==
  ASSUME Typed, NEW c \in Conns
  PROVE  /\ got[c] \in Seq(0..MaxUart) /\ Len(got[c]) \in Nat
         /\ \A i \in 1..Len(got[c]) : got[c][i] \in Nat
<1>1. got[c] \in Seq(0..MaxUart)
  BY ConnsInUse, ElementOfSeq DEF Typed, NetTyped
<1>2. QED
  BY <1>1, SizesAssumption, ElementOfSeq, LenProperties

LEMMA BehindKept ==
  ASSUME PeersBehind, UNCHANGED <<got, Len(tcp), Sent>>, sendFd' = sendFd \/ sendFd' = 0
  PROVE  PeersBehind'
BY DEF PeersBehind, PeersGetInOrder, Conns

\* The bytes just sent are later than everything the peers have.
LEMMA SentIsLater ==
  ASSUME Typed, UartLine, PeersBehind, Send, SendOpen
  PROVE  PeersBehind'
<1> USE ConnsInUse
<1>1. /\ sendFd \in Conns /\ Len(tcp) \in Nat /\ got' = [got EXCEPT ![sendFd] = @ \o toNet]
      /\ sendFd' = 0 /\ Conns' = Conns
  BY DEF SendOpen, SendDone, Send, Typed, NetTyped, Conns
<1>2. /\ Sent' = Sent + Len(toNet) /\ Sent \in Nat /\ Len(toNet) \in Nat
      /\ \A i \in 1..Len(toNet) : toNet[i] = Sent + i
  BY LineSent, LineTyped
<1>3. \A c \in Conns : got'[c] = IF c = sendFd THEN got[c] \o toNet ELSE got[c]
  BY <1>1 DEF Typed, NetTyped, Conns
<1> DEFINE old == got[sendFd]
<1> DEFINE new == old \o toNet
<1>4. /\ Len(new) = Len(old) + Len(toNet) /\ Len(old) \in Nat
      /\ \A i \in 1..Len(new) : new[i] = IF i <= Len(old) THEN old[i] ELSE Sent + (i - Len(old))
  <2>1. old \in Seq(0..MaxUart) /\ toNet \in Seq(0..MaxUart) /\ Len(old) \in Nat
    <3>1. 1..MaxUart \subseteq 0..MaxUart /\ toNet \in Seq(1..MaxUart)
      BY SizesAssumption DEF Typed, BytesTyped
    <3>2. QED
      BY <1>1, <3>1, SeqMonotonic, GotTyped
  <2>2. /\ Len(new) = Len(old) + Len(toNet)
        /\ \A i \in 1..(Len(old) + Len(toNet)) : new[i] =
             IF i <= Len(old) THEN old[i] ELSE toNet[i - Len(old)]
    BY <2>1, ConcatProperties
  <2> HIDE DEF old, new
  <2>3. \A i \in 1..Len(new) : ~(i <= Len(old)) => i - Len(old) \in 1..Len(toNet)
    BY <1>2, <2>1, <2>2
  <2>4. QED
    BY <1>2, <2>1, <2>2, <2>3
<1>5. \A c \in Conns : \A i \in 1..Len(got[c]) : got[c][i] \in Nat /\ got[c][i] <= Sent
  BY GotTyped DEF PeersBehind
<1>6. /\ \A i \in 1..Len(old) : old[i] \in Nat /\ old[i] <= Sent
      /\ \A i, j \in 1..Len(old) : i < j => old[i] < old[j]
  BY <1>1, <1>5 DEF PeersBehind, PeersGetInOrder
<1>7. \A d \in Conns : d > sendFd => \A j \in 1..Len(got[d]) : got[d][j] = 0
  BY <1>1 DEF PeersBehind, Conns
<1>8. \A c \in Conns : c < sendFd =>
        \A i \in 1..Len(got[c]), j \in 1..Len(old) : old[j] = 0 \/ got[c][i] < old[j]
  BY <1>1 DEF PeersBehind, PeersGetInOrder
<1>9. got'[sendFd] = new /\ \A c \in Conns : c # sendFd => got'[c] = got[c]
  BY <1>1, <1>3
<1> HIDE DEF old, new
<1>10. /\ \A i \in 1..Len(new) : new[i] <= Sent'
       /\ \A i, j \in 1..Len(new) : i < j => new[i] < new[j]
       /\ \A c \in Conns : c < sendFd =>
            \A i \in 1..Len(got[c]), j \in 1..Len(new) : new[j] = 0 \/ got[c][i] < new[j]
  <2>1. ASSUME NEW i \in 1..Len(new) PROVE new[i] <= Sent'
    BY <1>2, <1>4, <1>6
  <2>2. ASSUME NEW i \in 1..Len(new), NEW j \in 1..Len(new), i < j PROVE new[i] < new[j]
    <3>1. CASE j <= Len(old)
      BY <1>4, <1>6, <2>2, <3>1
    <3>2. CASE i <= Len(old) /\ ~(j <= Len(old))
      <4>1. new[i] <= Sent /\ new[i] \in Nat /\ new[j] = Sent + (j - Len(old))
        BY <1>4, <1>6, <3>2
      <4>2. QED
        BY <1>2, <1>4, <3>2, <4>1
    <3>3. CASE ~(i <= Len(old))
      <4>1. ~(j <= Len(old))
        BY <1>4, <2>2, <3>3
      <4>2. QED
        BY <1>2, <1>4, <2>2, <3>3, <4>1
    <3>4. QED
      BY <3>1, <3>2, <3>3
  <2>3. ASSUME NEW c \in Conns, c < sendFd, NEW i \in 1..Len(got[c]), NEW j \in 1..Len(new)
        PROVE  new[j] = 0 \/ got[c][i] < new[j]
    <3>1. CASE j <= Len(old)
      BY <1>4, <1>8, <2>3, <3>1
    <3>2. CASE ~(j <= Len(old))
      <4>1. new[j] = Sent + (j - Len(old)) /\ got[c][i] \in Nat /\ got[c][i] <= Sent
        BY <1>4, <1>5, <3>2
      <4>2. QED
        BY <1>2, <1>4, <3>2, <4>1
    <3>3. QED
      BY <3>1, <3>2
  <2>4. QED
    BY <2>1, <2>2, <2>3
<1>11. \A c \in Conns : \A i \in 1..Len(got'[c]) : got'[c][i] <= Sent'
  BY <1>2, <1>5, <1>9, <1>10, SMTT(40)
<1>12. \A c \in Conns : \A i, j \in 1..Len(got'[c]) : i < j => got'[c][i] < got'[c][j]
  BY <1>9, <1>10 DEF PeersBehind, PeersGetInOrder
<1>13. ASSUME NEW c \in Conns, NEW d \in Conns, c < d,
              NEW i \in 1..Len(got'[c]), NEW j \in 1..Len(got'[d])
       PROVE  got'[d][j] = 0 \/ got'[c][i] < got'[d][j]
  <2>1. CASE c = sendFd
    BY <1>7, <1>9, <1>13, <2>1 DEF Conns
  <2>2. CASE d = sendFd
    BY <1>9, <1>10, <1>13, <2>2 DEF Conns
  <2>3. CASE c # sendFd /\ d # sendFd
    BY <1>9, <1>13, <2>3 DEF PeersBehind, PeersGetInOrder
  <2>4. QED
    BY <2>1, <2>2, <2>3
<1>14. QED
  BY <1>1, <1>11, <1>12, <1>13 DEF PeersBehind, PeersGetInOrder

LEMMA BehindStep == Typed /\ Greeted /\ UartLine /\ PeersBehind /\ [Next]_vars => PeersBehind'
<1> SUFFICES ASSUME Typed, Greeted, UartLine, PeersBehind, [Next]_vars PROVE PeersBehind'
  OBVIOUS
<1> USE ConnsInUse
<1>1. Len(tcp) \in Nat \ {0} /\ Sent >= 0
  BY DEF Typed, NetTyped, Placed, UartLine
<1>2. ASSUME UNCHANGED <<toNet, uart2Tcp, fromUart, uartRead>> PROVE Sent' = Sent
  BY <1>2 DEF Sent, FromUart
<1>3. CASE PeerSends \/ RecvFails \/ RecvData \/ WritePipe \/ RecvEnd \/ ClearFd \/ AssignFd \/ NoSocket
           \/ UartSend \/ UNCHANGED vars
  BY <1>2, <1>3, BehindKept DEF PeerSends, RecvFails, RecvData, WritePipe, RecvEnd, ClearFd, AssignFd,
       NoSocket, UartSend, UartTake, UartWrite, vars, sender, uart, network
<1>4. CASE PeerCloses \/ PeerResets \/ Shutdown
  <2>1. PICK c \in Conns, to \in {"fin", "reset", "shut"} : tcp' = [tcp EXCEPT ![c] = to]
    BY <1>4 DEF PeerCloses, PeerResets, Shutdown
  <2>2. Len(tcp') = Len(tcp)
    BY <2>1, ExceptSeq DEF Typed, NetTyped, States, Conns
  <2>3. QED
    BY <1>2, <1>4, <2>2, BehindKept DEF PeerCloses, PeerResets, Shutdown, sender, uart
<1>5. CASE ReadPipe \/ UartRead \/ UartWritePipe
  BY <1>5, LineKept, BehindKept DEF ReadPipe, UartRead, UartWritePipe, sender, network
<1>6. CASE Greet
  <2>1. newFd = Len(tcp) /\ got[newFd] = <<>> /\ Conns' = Conns /\ sendFd' = sendFd /\ Sent' = Sent
    BY <1>2, <1>6 DEF Greet, Greeted, Typed, Placed, Conns, sender, uart
  <2>2. CASE tcp[newFd] = "open"
    <3>1. got' = [got EXCEPT ![newFd] = <<0>>]
      BY <1>6, <2>1, <2>2 DEF Greet
    <3>2. got'[newFd] = <<0>> /\ \A c \in Conns : c # newFd => got'[c] = got[c]
      BY <2>1, <3>1, SMTT(40) DEF Typed, NetTyped, Conns
    <3>3. Len(got'[newFd]) = 1 /\ got'[newFd][1] = 0
      BY <3>2
    <3>4. \A c \in Conns : c # newFd => c < newFd
      BY <1>1, <2>1 DEF Conns
    <3>5. /\ \A c \in Conns : \A i \in 1..Len(got'[c]) : got'[c][i] <= Sent'
          /\ \A c \in Conns : \A i, j \in 1..Len(got'[c]) : i < j => got'[c][i] < got'[c][j]
      BY <1>1, <2>1, <3>2, <3>3, SMTT(40) DEF PeersBehind, PeersGetInOrder
    <3>6. sendFd' # 0 => \A d \in Conns : d > sendFd' => \A j \in 1..Len(got'[d]) : got'[d][j] = 0
      BY <2>1, <3>2, <3>3 DEF PeersBehind
    <3>7. ASSUME NEW c \in Conns, NEW d \in Conns, c < d,
                 NEW i \in 1..Len(got'[c]), NEW j \in 1..Len(got'[d])
          PROVE  got'[d][j] = 0 \/ got'[c][i] < got'[d][j]
      <4>1. CASE d = newFd
        BY <3>3, <4>1, <3>7
      <4>2. CASE d # newFd
        <5>1. c # newFd
          BY <1>1, <2>1, <3>4, <3>7, <4>2 DEF Conns
        <5>2. QED
          BY <3>2, <3>7, <4>2, <5>1 DEF PeersBehind, PeersGetInOrder
      <4>3. QED
        BY <4>1, <4>2
    <3>8. QED
      BY <2>1, <3>5, <3>6, <3>7 DEF PeersBehind, PeersGetInOrder
  <2>3. CASE tcp[newFd] # "open"
    <3>1. got' = got /\ Len(tcp') = Len(tcp)
      BY <1>6, <2>3 DEF Greet
    <3>2. QED
      BY <2>1, <3>1, BehindKept
  <2>4. QED
    BY <2>2, <2>3
<1>7. CASE Connected
  <2>1. sendFd' = sendFd /\ Sent' = Sent
    BY <1>2, <1>7 DEF Connected, NewConnection, sender, uart
  <2>2. /\ Conns' = Conns \cup {Len(tcp) + 1} /\ got'[Len(tcp) + 1] = <<>>
        /\ \A c \in Conns : got'[c] = got[c]
    BY <1>1, <1>7, OneMoreConnection DEF Conns
  <2>3. Len(got'[Len(tcp) + 1]) = 0
    BY <2>2
  <2>4. QED
    BY <2>1, <2>2, <2>3, SMTT(40) DEF PeersBehind, PeersGetInOrder
<1>8. CASE LoadFd
  <2>1. sendFd' = socketFd /\ UNCHANGED <<got, tcp>> /\ Sent' = Sent
    BY <1>2, <1>8 DEF LoadFd, uart, network
  <2>2. sendFd' = 0 \/ sendFd' = Len(tcp)
    BY <2>1 DEF Typed, Placed
  <2>3. QED
    BY <1>1, <2>1, <2>2 DEF PeersBehind, PeersGetInOrder, Conns
<1>9. CASE Send
  <2>1. CASE SendOpen
    BY <1>9, <2>1, SentIsLater
  <2>2. CASE UNCHANGED got
    <3>1. Sent' = Sent + Len(toNet) /\ Sent \in Nat /\ Len(toNet) \in Nat
      BY <1>9, LineSent, LineTyped
    <3>2. sendFd' = 0 /\ Conns' = Conns
      BY <1>9 DEF Send, SendOpen, SendUnread, SendFails, SendPipe, SendDone, Conns
    <3>3. \A c \in Conns : \A i \in 1..Len(got[c]) : got[c][i] \in Nat /\ got[c][i] <= Sent
      BY GotTyped DEF PeersBehind
    <3>4. \A c \in Conns : \A i \in 1..Len(got[c]) : got[c][i] <= Sent'
      BY <3>1, <3>3
    <3>5. QED
      BY <2>2, <3>2, <3>4 DEF PeersBehind, PeersGetInOrder
  <2>3. QED
    BY <1>9, <2>1, <2>2 DEF Send, SendUnread, SendFails, SendPipe
<1>10. QED
  BY <1>3, <1>4, <1>5, <1>6, <1>7, <1>8, <1>9 DEF Next, Threads, Receiver

\* The bytes of the UART reach the peers in their order, none twice, although
\* the sender may still use a connection that has been replaced (Task.c): while
\* it holds an old one, nothing but the greeting has gone out on a later one.
THEOREM TransparentPeersInOrder == Spec => []PeersGetInOrder
<1>1. PeersBehind => PeersGetInOrder
  BY DEF PeersBehind
<1>2. QED
  BY <1>1, TypedInit, TypedStep, GreetedInit, GreetedStep, LineInit, LineStep, BehindInit, BehindStep,
     PTL DEF Spec

=============================================================================
