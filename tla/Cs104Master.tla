----------------------------- MODULE Cs104Master -----------------------------
(***************************************************************************)
(* The IEC 60870-5-104 controlling station of the gateway: the link and    *)
(* application layer of master104/cs104MasterApp.c, run by one thread per  *)
(* device (CS104_Master_Startup), over the TCP client thread of            *)
(* tcp_socket/client.c, against a controlled station that follows the      *)
(* standard.  The station and the network are external.                    *)
(*                                                                         *)
(* One pass of CS104_Master_Clock is the cycle                             *)
(*    net -> read -> send -> timer [-> t1 -> ack -> t3 -> app] -> net      *)
(* of the program counter pc; the client thread, the network and the       *)
(* station interleave between any two steps of it.                         *)
(*                                                                         *)
(* Time.  The code compares differences of gettimeofday() with T1, T2, T3  *)
(* (getCurrentTime, getAlarmOfMs).  That clock may be stepped, so a timer  *)
(* whose flag is set may be seen expired in any pass: a timer is its bit   *)
(* of Tick.Flag.  SetTimer(1) stamps every entry of timeBeginT1 with the   *)
(* same time and every received frame clears the T1 bit before the array   *)
(* is shifted, so the K start times of T1 act as one.                      *)
(***************************************************************************)
EXTENDS Integers, Sequences, FiniteSets

CONSTANTS
  K,          \* CS104_MASTER_K: unacknowledged I frames before sending stops (12)
  W,          \* CS104_MASTER_W: received I frames before an S frame is due (4)
  SeqMax,     \* the largest sequence number, 32767 in the code
  PeerK,      \* the station's own window
  PeerMay,    \* what the station may also do, a subset of PeerChoices
  Commands,   \* requests of other devices: a subset of {"REMOTECTL", "CLOCKSYN"}
  SplitReads, \* TRUE: an I frame may arrive in two TCP segments
  MaxSend,    \* bound: no periodic interrogation at or above this N(S)
  MaxRecv,    \* bound: the station sends no I frame at or above this N(S)
  MaxConn,    \* bound: number of TCP connections
  ChanCap     \* bound: frames under way before timers and station pause

PeerChoices == {"test", "icEnd", "reset", "stopdt"}

ASSUME ConstantsAssumption ==
  /\ K \in Nat \ {0}  /\ W \in Nat \ {0}  /\ SeqMax \in Nat \ {0}
  /\ PeerK \in Nat /\ MaxSend \in Nat /\ MaxRecv \in Nat
  /\ MaxConn \in Nat /\ ChanCap \in Nat
  /\ PeerMay \subseteq PeerChoices
  /\ Commands \subseteq {"REMOTECTL", "CLOCKSYN"}
  /\ SplitReads \in BOOLEAN

VARIABLES
  pc,           \* where the master thread is in CS104_Master_Clock
  connect,      \* CS104MasterLink.Connect
  NS, NR,       \* send and receive state variables
  NRACK,        \* NR as last told to the station
  peerNoAckNum, \* what the station has not acknowledged
  stopSendFlag, \* CS104MasterLink.StopSendFlag
  tick,         \* Tick.Flag: the timers that run, a subset of {1, 2, 3}
  appConnect,   \* CS104MasterApp.Connect: STARTDT con has been seen
  firstInit, firstAllData,
  sendDateType, \* requests waiting to be packed
  rxdBuf,       \* RxdBuf: frames fetched from the queue, not yet decoded
  rxdStatus,    \* "start", "head" (header seen, body missing) or "void" (that header zeroed)
  otherLoaded,  \* sendDateType as a calling thread has loaded it, in a set
  running,      \* client.c: the client thread believes it is connected
  txBuf,        \* s_ethernet_client_tx_buf
  rxQueue,      \* s_ethernet_client_rxcb
  net,          \* the TCP connection: "down", "up", or "broken" and not noticed
  toPeer, toMaster,                         \* bytes in the network
  pStarted, pVS, pVR, pAcked, pAckSent, pTest, \* the station
  \* History: the master has seen the link down since the last connection
  \* (noticed); the current one began after that with empty buffers and the
  \* station has not confirmed a STOPDT that nobody sent (clean);
  \* a test frame was sent on it (tested); the station found a protocol error
  \* (rejected); connections so far (conns).
  noticed, clean, tested, rejected, conns

seqVars    == <<NS, NR, NRACK, peerNoAckNum, stopSendFlag>>
appVars    == <<appConnect, firstInit, firstAllData, sendDateType>>
rxdVars    == <<rxdBuf, rxdStatus>>
masterVars == <<pc, connect, seqVars, tick, appVars, rxdVars, tested>>
wireVars   == <<toPeer, toMaster>>
peerVars   == <<pStarted, pVS, pVR, pAcked, pAckSent, pTest, rejected>>
outerVars  == <<otherLoaded, noticed, clean, conns>>
vars == <<masterVars, running, txBuf, rxQueue, net, wireVars, peerVars, outerVars>>

-----------------------------------------------------------------------------
(* Frames.  A header token stands for the first bytes of an I frame that    *)
(* a TCP segment boundary has cut; the frame itself follows it.             *)

UKinds == {"STARTDT_ACT", "STARTDT_CON", "STOPDT_CON", "TESTFR_ACT", "TESTFR_CON"}
Requests == {"REMOTECTL", "CLOCKSYN", "ALLDATA"}
Asdus  == Requests \cup {"data", "icEnd", "reset", "none"}
Frame  == [k : UKinds \cup {"I", "S", "HEADER"}, ns : 0..SeqMax, nr : 0..SeqMax, asdu : Asdus]

UFrame(fn)         == [k |-> fn,  ns |-> 0, nr |-> 0, asdu |-> "none"]
SFrame(nr)         == [k |-> "S", ns |-> 0, nr |-> nr, asdu |-> "none"]
IFrame(ns, nr, a)  == [k |-> "I", ns |-> ns, nr |-> nr, asdu |-> a]
HeaderToken        == [k |-> "HEADER", ns |-> 0, nr |-> 0, asdu |-> "none"]
\* What a header zeroed by a reset decodes as: an I frame with N(R) = 0.
ZeroedFrame        == IFrame(0, 0, "none")

\* pFrame->NR = NR << 1 in 16 bits: 32768 goes out as 0.
WireNR == NR % (SeqMax + 1)

\* Mutated: an acknowledgement that counts N(R) itself; a wrap one too early.
UnackedOf_AckIsInclusive(nr) == IF nr + 1 <= NS THEN NS - nr - 1 ELSE SeqMax + NS - nr
UnackedOf_StrictCompare(nr) == IF nr < NS THEN NS - nr ELSE SeqMax + NS - nr

\* Distances as the code computes them, in uint16_t: the wrap adds 32767, not
\* 32768, so that ToAcknowledge is -1, 65535, when NR has wrapped from 32768.
UnackedOf(nr) == IF nr <= NS THEN NS - nr ELSE SeqMax + NS - nr
ToAcknowledge == IF NRACK <= NR THEN NR - NRACK ELSE (SeqMax + NR - NRACK) % 65536


\* Mutated: > for >=.
WindowReached_OneLate == ToAcknowledge > W
WindowReached == ToAcknowledge >= W

\* Bound on optional transmissions.
Room == Len(txBuf) + Len(toPeer) < ChanCap

-----------------------------------------------------------------------------
Init ==
  /\ pc = "net" /\ connect = FALSE
  /\ NS = 0 /\ NR = 0 /\ NRACK = 0 /\ peerNoAckNum = 0 /\ stopSendFlag = FALSE
  /\ tick = {}
  /\ appConnect = FALSE /\ firstInit = 0 /\ firstAllData = FALSE /\ sendDateType = {}
  /\ otherLoaded = {}
  /\ rxdBuf = <<>> /\ rxdStatus = "start"
  /\ running = FALSE /\ txBuf = <<>> /\ rxQueue = <<>>
  /\ net = "down" /\ toPeer = <<>> /\ toMaster = <<>>
  /\ pStarted = FALSE /\ pVS = 0 /\ pVR = 0 /\ pAcked = 0 /\ pAckSent = 0 /\ pTest = FALSE
  /\ noticed = TRUE /\ clean = FALSE /\ tested = FALSE /\ rejected = FALSE /\ conns = 0

\* Mutated: one sequence number forgotten.
ResetLink_KeepsNR ==
  /\ connect' = FALSE
  /\ NS' = 0 /\ NRACK' = 0 /\ peerNoAckNum' = 0 /\ stopSendFlag' = FALSE
  /\ tick' = {}
  /\ appConnect' = FALSE /\ firstInit' = 0 /\ firstAllData' = FALSE /\ sendDateType' = {}
  /\ tested' = FALSE /\ UNCHANGED NR

\* Mutated: the application's part is left as it is.
ResetLink_LinkOnly ==
  /\ connect' = FALSE
  /\ NS' = 0 /\ NR' = 0 /\ NRACK' = 0 /\ peerNoAckNum' = 0 /\ stopSendFlag' = FALSE
  /\ tick' = {}
  /\ tested' = FALSE /\ UNCHANGED appVars

\* CS104_Master_AppInitReset without the receive buffer.
ResetLink ==
  /\ connect' = FALSE
  /\ NS' = 0 /\ NR' = 0 /\ NRACK' = 0 /\ peerNoAckNum' = 0 /\ stopSendFlag' = FALSE
  /\ tick' = {}
  /\ appConnect' = FALSE /\ firstInit' = 0 /\ firstAllData' = FALSE /\ sendDateType' = {}
  /\ tested' = FALSE

\* The receive buffer is zeroed, but RxdStatus, RxdTail and RxdLength stay:
\* a header waiting for its body is now a frame of zeros.
AppInitReset ==
  /\ ResetLink
  /\ rxdBuf' = <<>>
  /\ rxdStatus' = IF rxdStatus = "start" THEN "start" ELSE "void"

\* Mutated: the socket is not closed.
StopLink_SocketLeftOpen == running' = FALSE /\ UNCHANGED <<net, wireVars>>

\* setClientCloseLink: the transmit buffer and the receive queue keep what
\* they hold.
StopLink ==
  /\ running' = FALSE
  /\ net' = "down"
  /\ toPeer' = <<>> /\ toMaster' = <<>>

KeepLink == UNCHANGED <<running, net, wireVars>>

-----------------------------------------------------------------------------
(* The master thread, CS104_Master_Clock.                                  *)

\* CS104_MASTER_NetTest: the connection is sampled once a pass.
NetTest ==
  /\ pc = "net"
  /\ \/ /\ running
        /\ connect' = TRUE
        /\ pc' = "read"
        /\ UNCHANGED <<seqVars, tick, appVars, rxdVars, tested, noticed>>
     \/ /\ ~running
        /\ AppInitReset
        /\ pc' = "net"
        /\ noticed' = TRUE
  /\ KeepLink /\ UNCHANGED <<txBuf, rxQueue, peerVars, otherLoaded, clean, conns>>

\* CS104_MASTER_ReadMISIData fetches everything the queue holds;
\* SearchValidFrame then decodes one frame and leaves the rest for the next
\* pass.  A pair <<frame, rest of the buffer>> when there is one to decode.
Fetched == rxdBuf \o rxQueue

Decodable ==
  IF rxdStatus = "void"
  THEN {<<ZeroedFrame, Fetched>>}
  ELSE IF Fetched = <<>> THEN {}
  ELSE IF Head(Fetched).k # "HEADER" THEN {<<Head(Fetched), Tail(Fetched)>>}
  ELSE IF Len(Fetched) >= 2 THEN {<<Fetched[2], SubSeq(Fetched, 3, Len(Fetched))>>}
  ELSE {}

ReadNothing ==
  /\ pc = "read"
  /\ Decodable = {}
  /\ pc' = "send"
  /\ rxdBuf' = Fetched /\ rxQueue' = <<>>
  /\ rxdStatus' = IF Fetched = <<>> THEN rxdStatus ELSE "head"
  /\ KeepLink
  /\ UNCHANGED <<connect, seqVars, tick, appVars, tested, txBuf, peerVars, outerVars>>

\* Mutated: the frames behind the decoded one are lost.
Consume_DropsTheRest(rest) ==
  /\ rxdBuf' = <<>>
  /\ rxdStatus' = "start"
  /\ rxQueue' = <<>>

Consume(rest) ==
  /\ rxdBuf' = rest
  /\ rxdStatus' = "start"
  /\ rxQueue' = <<>>

\* PeerNoAckNumProcess calls exit(1) on an acknowledgement of more than is
\* outstanding: the whole process ends.
AbortOnAck(f, rest) ==
  /\ UnackedOf(f.nr) > peerNoAckNum
  /\ NR' = 0 /\ NS' = 0 /\ NRACK' = 0 /\ peerNoAckNum' = 0
  /\ UNCHANGED stopSendFlag
  /\ pc' = "exit"
  /\ Consume(rest) /\ StopLink
  /\ UNCHANGED <<connect, appVars, tested, txBuf>>

DecodeSFrame(f, rest) ==
  /\ f.k = "S"
  /\ tick' = (tick \ {1}) \cup {3}
  /\ \/ AbortOnAck(f, rest)
     \/ /\ UnackedOf(f.nr) <= peerNoAckNum
        /\ peerNoAckNum' = UnackedOf(f.nr)
        /\ stopSendFlag' = IF UnackedOf(f.nr) >= K THEN stopSendFlag ELSE FALSE
        /\ pc' = "send"
        /\ Consume(rest) /\ KeepLink
        /\ UNCHANGED <<connect, NS, NR, NRACK, appVars, tested, txBuf>>
  /\ UNCHANGED <<peerVars, outerVars>>

\* Mutated: without the test for zero.
Confirmed_NoCheck(f) == IF f.k = "TESTFR_CON" THEN peerNoAckNum - 1 ELSE peerNoAckNum

\* A test confirmation takes one off what is unacknowledged.
Confirmed(f) ==
  IF f.k = "TESTFR_CON" /\ peerNoAckNum > 0 THEN peerNoAckNum - 1 ELSE peerNoAckNum

\* Mutated: the confirmation is not noted.
Started_Never(f) == appConnect

Started(f) == appConnect \/ f.k = "STARTDT_CON"

DecodeUFrame(f, rest) ==
  /\ f.k \in UKinds
  /\ pc' = "send"
  /\ Consume(IF f.k = "STOPDT_CON" THEN <<>> ELSE rest)
  /\ \/ /\ f.k = "STOPDT_CON"
        /\ ResetLink
        /\ UNCHANGED txBuf
     \/ /\ f.k # "STOPDT_CON"
        /\ tick' = (tick \ {1}) \cup {3}
        /\ appConnect' = Started(f)
        /\ peerNoAckNum' = Confirmed(f)
        /\ txBuf' = IF f.k = "TESTFR_ACT" THEN Append(txBuf, UFrame("TESTFR_CON")) ELSE txBuf
        /\ UNCHANGED <<connect, NS, NR, NRACK, stopSendFlag, firstInit, firstAllData,
                       sendDateType, tested>>
  /\ KeepLink /\ UNCHANGED <<peerVars, outerVars>>

\* Mutated: T2 is not started.
ReceivedTimers_NoT2 == (tick \ {1}) \cup {3}

\* What an I frame does to the timers: T1 off, T2 and T3 from now.
ReceivedTimers == (tick \ {1}) \cup {2, 3}

\* DecodeIFrame with CS104_MASTER_AppProcess.  N(S) of the frame is not
\* looked at.  NR is one of 0..SeqMax+1: it wraps one too late.
DecodeIFrame(f, rest) ==
  /\ f.k = "I"
  /\ \/ AbortOnAck(f, rest) /\ UNCHANGED tick
     \/ /\ UnackedOf(f.nr) <= peerNoAckNum
        /\ UnackedOf(f.nr) >= K \/ f.asdu = "reset"
        /\ ResetLink /\ StopLink
        /\ Consume(<<>>)
        /\ pc' = "send" /\ UNCHANGED txBuf
     \/ /\ UnackedOf(f.nr) <= peerNoAckNum
        /\ UnackedOf(f.nr) < K
        /\ f.asdu # "reset"
        /\ peerNoAckNum' = UnackedOf(f.nr)
        /\ NR' = IF NR = SeqMax + 1 THEN 0 ELSE NR + 1
        /\ stopSendFlag' = FALSE
        /\ tick' = ReceivedTimers
        /\ firstAllData' = (firstAllData \/ f.asdu = "icEnd")
        /\ pc' = "send"
        /\ Consume(rest) /\ KeepLink
        /\ UNCHANGED <<connect, NS, NRACK, appConnect, firstInit, sendDateType, tested, txBuf>>
  /\ UNCHANGED <<peerVars, outerVars>>

Read ==
  \/ ReadNothing
  \/ /\ pc = "read"
     /\ \E d \in Decodable : \/ DecodeSFrame(d[1], d[2])
                             \/ DecodeUFrame(d[1], d[2])
                             \/ DecodeIFrame(d[1], d[2])

\* packDataOfTime takes the request of highest priority; LinkSendProcess
\* numbers it.  Neither StopSendFlag nor App.Connect is consulted.
Requested ==
  CASE "REMOTECTL" \in sendDateType -> "REMOTECTL"
    [] "REMOTECTL" \notin sendDateType /\ "CLOCKSYN" \in sendDateType -> "CLOCKSYN"
    [] OTHER -> "ALLDATA"

SendProcess ==
  /\ pc = "send"
  /\ pc' = "timer"
  /\ \/ /\ sendDateType = {}
        /\ UNCHANGED <<seqVars, tick, sendDateType, txBuf>>
     \/ /\ sendDateType # {}
        /\ sendDateType' = sendDateType \ {Requested}
        /\ txBuf' = Append(txBuf, IFrame(NS, WireNR, Requested))
        /\ NRACK' = NR /\ UNCHANGED NR
        /\ peerNoAckNum' = peerNoAckNum + 1
        /\ NS' = IF NS + 1 > SeqMax THEN 0 ELSE NS + 1
        /\ stopSendFlag' = (stopSendFlag \/ peerNoAckNum + 1 >= K)
        /\ tick' = (tick \ {2}) \cup {1, 3}
  /\ KeepLink
  /\ UNCHANGED <<connect, appConnect, firstInit, firstAllData, rxdVars, tested, rxQueue,
                 peerVars, outerVars>>

(* LinkOnTimer, in the order of its tests.                                 *)

\* While STARTDT is not confirmed: repeat STARTDT act every second, and stop
\* the pass there.
StartdtDue ==
  /\ pc = "timer" /\ ~appConnect
  /\ Room
  /\ pc' = "net"
  /\ txBuf' = Append(txBuf, UFrame("STARTDT_ACT"))
  /\ tick' = tick \cup {3}
  /\ KeepLink
  /\ UNCHANGED <<connect, seqVars, appVars, rxdVars, tested, rxQueue, peerVars, outerVars>>

StartdtNotDue ==
  /\ pc = "timer"
  /\ pc' = IF appConnect THEN "t1" ELSE "net"
  /\ KeepLink
  /\ UNCHANGED <<connect, seqVars, tick, appVars, rxdVars, tested, txBuf, rxQueue,
                 peerVars, outerVars>>

\* T1 over with something unacknowledged: StopDTOper.
T1Expired ==
  /\ pc = "t1"
  /\ 1 \in tick /\ peerNoAckNum > 0
  /\ AppInitReset /\ StopLink
  /\ pc' = "ack"
  /\ UNCHANGED <<txBuf, rxQueue, peerVars, outerVars>>

T1Running ==
  /\ pc = "t1"
  /\ pc' = "ack"
  /\ KeepLink
  /\ UNCHANGED <<connect, seqVars, tick, appVars, rxdVars, tested, txBuf, rxQueue,
                 peerVars, outerVars>>

\* An S frame once W frames are unacknowledged, or T2 after one was received.
AckDue ==
  /\ pc = "ack"
  /\ WindowReached \/ 2 \in tick
  /\ txBuf' = Append(txBuf, SFrame(WireNR))
  /\ NRACK' = NR
  /\ tick' = tick \ {2}
  /\ pc' = "t3"
  /\ KeepLink
  /\ UNCHANGED <<connect, NS, NR, peerNoAckNum, stopSendFlag, appVars, rxdVars, tested,
                 rxQueue, peerVars, outerVars>>

AckNotDue ==
  /\ pc = "ack"
  /\ ~WindowReached
  /\ pc' = "t3"
  /\ KeepLink
  /\ UNCHANGED <<connect, seqVars, tick, appVars, rxdVars, tested, txBuf, rxQueue,
                 peerVars, outerVars>>

\* T3 over: a test frame if nothing is outstanding, else T1 is started again.
T3Expired ==
  /\ pc = "t3"
  /\ 3 \in tick
  /\ pc' = "app"
  /\ \/ /\ peerNoAckNum = 0
        /\ Room
        /\ txBuf' = Append(txBuf, UFrame("TESTFR_ACT"))
        /\ tick' = tick \cup {1}
        /\ peerNoAckNum' = 1
        /\ tested' = TRUE
     \/ /\ peerNoAckNum > 0
        /\ tick' = (tick \ {3}) \cup {1}
        /\ UNCHANGED <<txBuf, peerNoAckNum, tested>>
  /\ KeepLink
  /\ UNCHANGED <<connect, NS, NR, NRACK, stopSendFlag, appVars, rxdVars, rxQueue,
                 peerVars, outerVars>>

T3Running ==
  /\ pc = "t3"
  /\ pc' = "app"
  /\ KeepLink
  /\ UNCHANGED <<connect, seqVars, tick, appVars, rxdVars, tested, txBuf, rxQueue,
                 peerVars, outerVars>>

\* Clock synchronisation and the general interrogation follow the start of
\* the link; afterwards the interrogation repeats by its own clock.
QueueRequests ==
  /\ pc = "app"
  /\ pc' = "net"
  /\ \/ /\ firstInit < 2
        /\ sendDateType' = sendDateType \cup {IF firstInit = 0 THEN "CLOCKSYN" ELSE "ALLDATA"}
        /\ firstInit' = firstInit + 1
     \/ /\ firstInit = 2
        /\ UNCHANGED firstInit
        /\ \/ UNCHANGED sendDateType
           \/ /\ NS < MaxSend /\ Room
              /\ sendDateType' = sendDateType \cup {"ALLDATA"}
  /\ KeepLink
  /\ UNCHANGED <<connect, seqVars, tick, appConnect, firstAllData, rxdVars, tested, txBuf,
                 rxQueue, peerVars, outerVars>>

LinkOnTimer == \/ StartdtDue \/ StartdtNotDue \/ T1Expired \/ T1Running \/ AckDue \/ AckNotDue
               \/ T3Expired \/ T3Running \/ QueueRequests

Clock == NetTest \/ Read \/ SendProcess \/ LinkOnTimer

\* otherYkSendData and otherSYNSendData, the callbacks registered for the
\* threads of other modules: sendDateType |= bit, without a lock.
OtherLoad ==
  /\ pc # "exit"
  /\ connect
  /\ Commands # {} /\ NS < MaxSend
  /\ otherLoaded = {}
  /\ otherLoaded' = {sendDateType}
  /\ UNCHANGED <<masterVars, running, txBuf, rxQueue, net, wireVars, peerVars, noticed, clean, conns>>

\* The master thread is about to change sendDateType in the same way; if it
\* has loaded the old value already, the caller's store is lost.
MasterUpdates == pc = "app" \/ (pc = "send" /\ sendDateType # {})

OtherStore ==
  /\ pc # "exit"
  /\ \E seen \in otherLoaded, t \in Commands :
       \/ sendDateType' = seen \cup {t}
       \/ MasterUpdates /\ UNCHANGED sendDateType
  /\ otherLoaded' = {}
  /\ KeepLink
  /\ UNCHANGED <<pc, connect, seqVars, tick, appConnect, firstInit, firstAllData, rxdVars,
                 tested, txBuf, rxQueue, peerVars, noticed, clean, conns>>

\* After exit(1) nothing of the process runs.
Exited == pc = "exit" /\ UNCHANGED vars

-----------------------------------------------------------------------------
(* The client thread, thread_client, at the grain of whole frames.         *)

\* connect() succeeds: a new connection, on which the station starts afresh.
\* Neither the transmit buffer nor the receive queue is emptied.
ClientConnect ==
  /\ pc # "exit"
  /\ ~running /\ net = "down"
  /\ conns < MaxConn
  /\ conns' = conns + 1
  /\ running' = TRUE /\ net' = "up"
  /\ toPeer' = <<>> /\ toMaster' = <<>>
  /\ pStarted' = FALSE /\ pVS' = 0 /\ pVR' = 0 /\ pAcked' = 0 /\ pAckSent' = 0 /\ pTest' = FALSE
  /\ rejected' = FALSE
  /\ clean' = (noticed /\ txBuf = <<>> /\ rxQueue = <<>>)
  /\ noticed' = FALSE
  /\ UNCHANGED <<masterVars, txBuf, rxQueue, otherLoaded>>

ClientRead ==
  /\ running /\ toMaster # <<>>
  /\ rxQueue' = Append(rxQueue, Head(toMaster))
  /\ toMaster' = Tail(toMaster)
  /\ UNCHANGED <<masterVars, running, net, txBuf, toPeer, peerVars, outerVars>>

\* Only when select() finds nothing to read.  What is written to a connection
\* that has failed unnoticed is lost.
ClientWrite ==
  /\ running
  /\ toMaster = <<>> /\ txBuf # <<>>
  /\ toPeer' = IF net = "up" THEN toPeer \o txBuf ELSE toPeer
  /\ txBuf' = <<>>
  /\ UNCHANGED <<masterVars, running, net, rxQueue, toMaster, peerVars, outerVars>>

\* read() or write() reports that the connection is gone.
ClientLost ==
  /\ running /\ net = "broken"
  /\ StopLink
  /\ UNCHANGED <<masterVars, txBuf, rxQueue, peerVars, outerVars>>

-----------------------------------------------------------------------------
(* The controlled station and the network (external): a station that       *)
(* follows IEC 60870-5-104, and a connection that may break at any time.    *)

Next1(n) == (n + 1) % (SeqMax + 1)
Between(lo, hi) == (hi - lo) % (SeqMax + 1)
ValidAck(nr) == Between(nr, pVS) <= Between(pAcked, pVS)

PeerKeep == UNCHANGED <<masterVars, running, txBuf, rxQueue, outerVars>>

PeerReply(f) == toMaster' = Append(toMaster, f)

PeerReceive ==
  /\ net = "up" /\ toPeer # <<>>
  /\ toPeer' = Tail(toPeer)
  /\ LET f == Head(toPeer) IN
     \/ /\ f.k = "STARTDT_ACT"
        /\ pStarted' = TRUE
        /\ PeerReply(UFrame("STARTDT_CON"))
        /\ UNCHANGED <<pVS, pVR, pAcked, pAckSent, pTest>>
     \/ /\ f.k = "TESTFR_ACT"
        /\ PeerReply(UFrame("TESTFR_CON"))
        /\ UNCHANGED <<pStarted, pVS, pVR, pAcked, pAckSent, pTest>>
     \/ /\ f.k = "TESTFR_CON"
        /\ pTest' = FALSE
        /\ UNCHANGED <<toMaster, pStarted, pVS, pVR, pAcked, pAckSent>>
     \/ /\ f.k = "S" /\ ValidAck(f.nr)
        /\ pAcked' = f.nr
        /\ UNCHANGED <<toMaster, pStarted, pVS, pVR, pAckSent, pTest>>
     \/ /\ f.k = "I" /\ ValidAck(f.nr) /\ pStarted /\ f.ns = pVR
        /\ pAcked' = f.nr
        /\ pVR' = Next1(pVR)
        /\ UNCHANGED <<toMaster, pStarted, pVS, pAckSent, pTest>>
  /\ UNCHANGED <<rejected, net>> /\ PeerKeep

\* A frame the standard forbids: out of sequence, acknowledging what was not
\* sent, or data before STARTDT.  The station closes the connection.
PeerReject ==
  /\ net = "up" /\ toPeer # <<>>
  /\ LET f == Head(toPeer) IN
     \/ f.k \in {"S", "I"} /\ ~ValidAck(f.nr)
     \/ f.k = "I" /\ (~pStarted \/ f.ns # pVR)
  /\ rejected' = TRUE
  /\ net' = "broken" /\ toPeer' = <<>>
  /\ UNCHANGED <<toMaster, pStarted, pVS, pVR, pAcked, pAckSent, pTest>> /\ PeerKeep

Quiet == Len(toMaster) + Len(rxQueue) < ChanCap

PeerSendI ==
  /\ net = "up" /\ pStarted
  /\ Between(pAcked, pVS) < PeerK /\ pVS < MaxRecv /\ Quiet
  /\ \E a \in {"data"} \cup (PeerMay \cap {"icEnd", "reset"}) :
       toMaster' = toMaster \o (IF SplitReads THEN <<HeaderToken>> ELSE <<>>)
                            \o <<IFrame(pVS, pVR, a)>>
  /\ pVS' = Next1(pVS) /\ pAckSent' = pVR
  /\ UNCHANGED <<net, toPeer, pStarted, pVR, pAcked, pTest, rejected>> /\ PeerKeep

PeerSendS ==
  /\ net = "up" /\ pAckSent # pVR /\ Quiet
  /\ PeerReply(SFrame(pVR))
  /\ pAckSent' = pVR
  /\ UNCHANGED <<net, toPeer, pStarted, pVS, pVR, pAcked, pTest, rejected>> /\ PeerKeep

PeerSendU ==
  /\ net = "up" /\ Quiet
  /\ \/ /\ "test" \in PeerMay /\ ~pTest
        /\ pTest' = TRUE /\ PeerReply(UFrame("TESTFR_ACT"))
        /\ UNCHANGED <<pStarted, clean>>
     \/ /\ "stopdt" \in PeerMay /\ pStarted /\ clean \* once
        /\ pStarted' = FALSE /\ PeerReply(UFrame("STOPDT_CON"))
        /\ clean' = FALSE /\ UNCHANGED pTest
  /\ UNCHANGED <<net, toPeer, pVS, pVR, pAcked, pAckSent, rejected>>
  /\ UNCHANGED <<masterVars, running, txBuf, rxQueue, otherLoaded, noticed, conns>>

\* The station closes, or the network fails.
ConnectionBreaks ==
  /\ net = "up"
  /\ net' = "broken" /\ toPeer' = <<>>
  /\ UNCHANGED <<toMaster, peerVars>> /\ PeerKeep

Client      == ClientConnect \/ ClientRead \/ ClientWrite \/ ClientLost
Environment == PeerReceive \/ PeerReject \/ PeerSendI \/ PeerSendS \/ PeerSendU \/ ConnectionBreaks

Next == Clock \/ OtherLoad \/ OtherStore \/ Exited \/ Client \/ Environment

Spec == Init /\ [][Next]_vars

\* The master thread runs a pass every 20 ms and the client thread turns its
\* select() every millisecond.  A timer that stays set is seen expired in
\* the end; T2 is restarted by at most W frames before an S frame is due
\* anyway.  The station answers.  Nothing obliges anybody to connect.
Fairness ==
  /\ WF_vars(Clock)
  /\ SF_vars(StartdtDue) /\ SF_vars(AckDue)
  /\ WF_vars(ClientRead) /\ WF_vars(ClientWrite) /\ WF_vars(ClientLost)
  /\ WF_vars(PeerReceive) /\ WF_vars(PeerReject)

FairSpec == Spec /\ Fairness

-----------------------------------------------------------------------------
FlagsTyped ==
  /\ connect \in BOOLEAN /\ stopSendFlag \in BOOLEAN
  /\ appConnect \in BOOLEAN /\ firstAllData \in BOOLEAN
  /\ running \in BOOLEAN
  /\ pStarted \in BOOLEAN /\ pTest \in BOOLEAN
  /\ noticed \in BOOLEAN /\ clean \in BOOLEAN /\ tested \in BOOLEAN /\ rejected \in BOOLEAN

NumbersTyped ==
  /\ pc \in {"net", "read", "send", "timer", "t1", "ack", "t3", "app", "exit"}
  /\ NS \in 0..SeqMax /\ NR \in 0..(SeqMax + 1) /\ NRACK \in 0..(SeqMax + 1)
  /\ peerNoAckNum \in Nat
  /\ tick \subseteq {1, 2, 3}
  /\ firstInit \in 0..2
  /\ sendDateType \subseteq Requests /\ otherLoaded \subseteq SUBSET Requests
  /\ rxdStatus \in {"start", "head", "void"}
  /\ net \in {"down", "up", "broken"}
  /\ pVS \in 0..SeqMax /\ pVR \in 0..SeqMax /\ pAcked \in 0..SeqMax /\ pAckSent \in 0..SeqMax
  /\ conns \in Nat

BuffersTyped ==
  /\ rxdBuf \in Seq(Frame) /\ rxQueue \in Seq(Frame)
  /\ txBuf \in Seq(Frame)
  /\ toPeer \in Seq(Frame) /\ toMaster \in Seq(Frame)

TypeOK == FlagsTyped /\ NumbersTyped /\ BuffersTyped

\* A connection that began after the master had seen the previous one end
\* (NetTest), with nothing left over in the client's buffers.
OnCleanLink == clean /\ net = "up"

\* The number of I frames in a sequence of frames.
IFrames(s) == Cardinality({n \in DOMAIN s : s[n].k = "I"})

\* Every I frame the station has sent on a cleanly begun connection is
\* counted once by the master or is still on its way: NR is the number of
\* frames received (cs104MasterApp.h:476).
ReceivedExactly ==
  OnCleanLink =>
    pVS = (NR + IFrames(toMaster) + IFrames(Fetched)) % (SeqMax + 1)

\* Likewise NS is the number of I frames sent, numbered without gap.
SentExactly ==
  OnCleanLink =>
    NS = (pVR + IFrames(toPeer) + IFrames(txBuf)) % (SeqMax + 1)

\* A station that follows the standard never finds fault with a master whose
\* connection began clean.
StationAccepts == clean => ~rejected

\* With a started link no pass of CS104_Master_Clock ends with W or more
\* received frames unacknowledged: the station's window is opened in time.
AcknowledgedByW == pc = "net" /\ appConnect => ToAcknowledge < W

\* The process is not ended by an acknowledgement as long as no test frame
\* had to be sent: peerNoAckNum is then exactly what the station has not
\* acknowledged.
NoAbortUntested == clean /\ ~tested => pc # "exit"

\* What has been received is acknowledged in the end, by an S frame (T2, or
\* W frames) or with an I frame, as long as the link lives.
Acknowledged ==
  (appConnect /\ NR # NRACK) ~> (NR = NRACK \/ ~appConnect \/ pc = "exit")

\* The master takes a connection for started on which the station still waits
\* for STARTDT: it never saw the previous one end (NetTest samples every 20 ms,
\* cs104MasterApp.c:949), or read the confirmation that one had left in the queue.
Deceived == ~clean /\ appConnect /\ ~pStarted

\* A connection is started at both ends (STARTDT sent, obeyed and confirmed) or
\* lost, whatever the previous one left in the buffers, unless the master is
\* deceived, which cannot happen on a connection begun clean.
LinkStarts ==
  running ~> ((appConnect /\ pStarted) \/ Deceived \/ ~running \/ pc = "exit")

\* The counters of master and station implement the service of a 104 link,
\* on a connection begun clean, until a test frame enters peerNoAckNum.
InSession == OnCleanLink /\ ~tested
Sides(m, s) == [d \in {"master", "station"} |->
                  IF ~InSession THEN 0 ELSE IF d = "master" THEN m ELSE s]

Service == INSTANCE Cs104Service WITH
  up    <- InSession,
  sent  <- Sides(NS, pVS),
  got   <- Sides(pVR, NR),
  acked <- Sides(NS - peerNoAckNum, pAcked)

ServiceSpec == Service!Spec

=============================================================================
