-------------------------- MODULE Cs104MasterProofs -------------------------
(***************************************************************************)
(* Proofs about the controlling station of Cs104Master, for every window   *)
(* K, W, sequence number space, station and number of connections.         *)
(***************************************************************************)
EXTENDS Cs104Master, SequenceTheorems, FiniteSetTheorems, TLAPS

-----------------------------------------------------------------------------
(* Types of what the actions are built from.                               *)

LEMMA ModRange == ASSUME NEW a \in Int, NEW b \in Nat \ {0}
                  PROVE  a % b \in 0..(b - 1)
  OBVIOUS

LEMMA FrameType ==
  /\ \A fn \in UKinds : UFrame(fn) \in Frame
  /\ \A nr \in 0..SeqMax : SFrame(nr) \in Frame
  /\ \A ns, nr \in 0..SeqMax, a \in Asdus : IFrame(ns, nr, a) \in Frame
  /\ HeaderToken \in Frame /\ ZeroedFrame \in Frame
  BY ConstantsAssumption DEF UFrame, SFrame, IFrame, HeaderToken, ZeroedFrame, Frame, UKinds, Asdus, Requests

LEMMA NumberType ==
  ASSUME NumbersTyped
  PROVE  /\ WireNR \in 0..SeqMax
         /\ \A n \in 0..SeqMax : Next1(n) \in 0..SeqMax
         /\ \A nr \in 0..SeqMax : UnackedOf(nr) \in Nat
  <1>1. WireNR \in 0..SeqMax
    BY ModRange, ConstantsAssumption DEF NumbersTyped, WireNR
  <1>2. ASSUME NEW n \in 0..SeqMax PROVE Next1(n) \in 0..SeqMax
    BY ModRange, ConstantsAssumption DEF Next1
  <1>3. ASSUME NEW nr \in 0..SeqMax PROVE UnackedOf(nr) \in Nat
    BY ConstantsAssumption DEF NumbersTyped, UnackedOf
  <1> QED BY <1>1, <1>2, <1>3

\* A frame to decode, with the rest of the buffer.
LEMMA DecodableType ==
  ASSUME BuffersTyped
  PROVE  /\ Fetched \in Seq(Frame)
         /\ \A d \in Decodable : d[1] \in Frame /\ d[2] \in Seq(Frame)
  <1>1. Fetched \in Seq(Frame)
    BY DEF BuffersTyped, Fetched
  <1>2. ASSUME NEW d \in Decodable PROVE d[1] \in Frame /\ d[2] \in Seq(Frame)
    <2>0. ZeroedFrame \in Frame
      BY FrameType
    <2> HIDE DEF Fetched
    <2>1. CASE rxdStatus = "void"
      BY <1>1, <1>2, <2>0, <2>1 DEF Decodable
    <2>2. CASE rxdStatus # "void" /\ Fetched # <<>> /\ Head(Fetched).k # "HEADER"
      <3>1. d = <<Head(Fetched), Tail(Fetched)>>
        BY <1>2, <2>2 DEF Decodable
      <3> QED BY <1>1, <2>2, <3>1
    <2>3. CASE rxdStatus # "void" /\ Fetched # <<>> /\ Head(Fetched).k = "HEADER"
      <3>1. Len(Fetched) >= 2 /\ d = <<Fetched[2], SubSeq(Fetched, 3, Len(Fetched))>>
        BY <1>2, <2>3 DEF Decodable
      <3>2. Fetched[2] \in Frame
        BY <1>1, <3>1
      <3>3. SubSeq(Fetched, 3, Len(Fetched)) \in Seq(Frame)
        BY <1>1, <3>1
      <3> QED BY <3>1, <3>2, <3>3
    <2>4. CASE rxdStatus # "void" /\ Fetched = <<>>
      BY <1>2, <2>4 DEF Decodable
    <2> QED BY <2>1, <2>2, <2>3, <2>4
  <1> QED BY <1>1, <1>2

-----------------------------------------------------------------------------
(* Type correctness: one lemma for each group of variables.                *)

\* An action leaves a group alone, or says what it puts into it.
LEMMA FlagsStep == FlagsTyped /\ [Next]_vars => FlagsTyped'
  <1> SUFFICES ASSUME FlagsTyped, [Next]_vars PROVE FlagsTyped'
    OBVIOUS
  <1> USE DEF FlagsTyped, KeepLink, StopLink, ResetLink, AppInitReset, Consume, PeerKeep, PeerReply,
              masterVars, seqVars, appVars, rxdVars, wireVars, peerVars, outerVars
  <1>1. CASE NetTest
    BY <1>1, Zenon DEF NetTest
  <1>2. CASE ReadNothing
    BY <1>2, Zenon DEF ReadNothing
  <1>3. ASSUME NEW f, NEW rest, DecodeSFrame(f, rest) PROVE FlagsTyped'
    <2>1. CASE AbortOnAck(f, rest)
      BY <1>3, <2>1, Zenon DEF DecodeSFrame, AbortOnAck
    <2>2. CASE ~AbortOnAck(f, rest)
      BY <1>3, <2>2, ZenonT(40) DEF DecodeSFrame
    <2> QED BY <2>1, <2>2
  <1>4. ASSUME NEW f, NEW rest, DecodeUFrame(f, rest) PROVE FlagsTyped'
    <2>1. CASE f.k = "STOPDT_CON"
      BY <1>4, <2>1, Zenon DEF DecodeUFrame
    <2>2. CASE f.k # "STOPDT_CON"
      BY <1>4, <2>2, Zenon DEF DecodeUFrame, Started
    <2> QED BY <2>1, <2>2
  <1>5. ASSUME NEW f, NEW rest, DecodeIFrame(f, rest) PROVE FlagsTyped'
    <2>1. CASE AbortOnAck(f, rest)
      <3>1. UNCHANGED <<connect, appConnect, firstAllData, stopSendFlag, tested>> /\ running' = FALSE
        BY <2>1, Zenon DEF AbortOnAck
      <3>2. UNCHANGED <<peerVars, outerVars>>
        BY <1>5, Zenon DEF DecodeIFrame
      <3> QED BY <3>1, <3>2, Zenon
    <2>2. CASE ResetLink /\ StopLink /\ UNCHANGED <<peerVars, outerVars>>
      BY <2>2, Zenon
    <2>3. CASE /\ UNCHANGED <<connect, appConnect, tested, peerVars, outerVars>> /\ KeepLink
               /\ stopSendFlag' = FALSE
               /\ firstAllData' = (firstAllData \/ f.asdu = "icEnd")
      BY <2>3, Zenon
    <2> QED
      <3> HIDE DEF FlagsTyped, StopLink, ResetLink, AppInitReset, KeepLink, peerVars, outerVars
      <3> QED BY <1>5, <2>1, <2>2, <2>3, Zenon DEF DecodeIFrame
  <1>6. CASE SendProcess
    <2>1. UNCHANGED <<connect, appConnect, firstAllData, tested, peerVars, outerVars>> /\ KeepLink
      BY <1>6, Zenon DEF SendProcess
    <2>2. stopSendFlag' \in BOOLEAN
      BY <1>6, Zenon DEF SendProcess
    <2> QED BY <2>1, <2>2, Zenon
  <1>7. CASE LinkOnTimer
    <2>1. CASE StartdtDue
      BY <2>1, Zenon DEF StartdtDue
    <2>2. CASE StartdtNotDue
      BY <2>2, Zenon DEF StartdtNotDue
    <2>3. CASE T1Expired
      BY <2>3, Zenon DEF T1Expired
    <2>4. CASE T1Running
      BY <2>4, Zenon DEF T1Running
    <2>5. CASE AckDue
      BY <2>5, Zenon DEF AckDue
    <2>6. CASE AckNotDue
      BY <2>6, Zenon DEF AckNotDue
    <2>7. CASE T3Expired
      <3>1. tested' \in BOOLEAN
        BY <2>7, Zenon DEF T3Expired
      <3>2. UNCHANGED <<connect, stopSendFlag, appConnect, firstAllData, peerVars, outerVars>> /\ KeepLink
        BY <2>7, Zenon DEF T3Expired
      <3> QED BY <3>1, <3>2, Zenon
    <2>8. CASE T3Running
      BY <2>8, Zenon DEF T3Running
    <2>9. CASE QueueRequests
      BY <2>9, Zenon DEF QueueRequests
    <2> QED
      BY <1>7, <2>1, <2>2, <2>3, <2>4, <2>5, <2>6, <2>7, <2>8, <2>9, Zenon DEF LinkOnTimer
  <1>8. CASE OtherLoad \/ OtherStore
    BY <1>8, ZenonT(40) DEF OtherLoad, OtherStore
  <1>9. CASE Client
    <2>1. CASE ClientConnect
      BY <2>1, Zenon DEF ClientConnect
    <2>2. CASE ClientRead
      BY <2>2, Zenon DEF ClientRead
    <2>3. CASE ClientWrite
      BY <2>3, Zenon DEF ClientWrite
    <2>4. CASE ClientLost
      BY <2>4, Zenon DEF ClientLost
    <2> QED
      BY <1>9, <2>1, <2>2, <2>3, <2>4, Zenon DEF Client
  <1>10. CASE Environment
    <2>1. CASE PeerReceive
      BY <2>1, Zenon DEF PeerReceive
    <2>2. CASE PeerReject
      BY <2>2, Zenon DEF PeerReject
    <2>3. CASE PeerSendI
      BY <2>3, Zenon DEF PeerSendI
    <2>4. CASE PeerSendS
      BY <2>4, Zenon DEF PeerSendS
    <2>5. CASE PeerSendU
      BY <2>5, Zenon DEF PeerSendU
    <2>6. CASE ConnectionBreaks
      BY <2>6, Zenon DEF ConnectionBreaks
    <2> QED
      BY <1>10, <2>1, <2>2, <2>3, <2>4, <2>5, <2>6, Zenon DEF Environment
  <1>11. CASE UNCHANGED vars
    BY <1>11, Zenon DEF vars
  <1> QED
    BY <1>1, <1>2, <1>3, <1>4, <1>5, <1>6, <1>7, <1>8, <1>9, <1>10, <1>11
       DEF Next, Clock, Read, Exited

LEMMA NumbersStep ==
  ASSUME NumbersTyped, BuffersTyped, [Next]_vars
  PROVE  NumbersTyped'
  <1> USE ConstantsAssumption DEF NumbersTyped, KeepLink, StopLink,
        Consume, PeerKeep, masterVars, seqVars, appVars, rxdVars, wireVars, peerVars, outerVars
  <1>0. ASSUME ResetLink
        PROVE  /\ NS' = 0 /\ NR' = 0 /\ NRACK' = 0 /\ peerNoAckNum' = 0
               /\ tick' = {} /\ firstInit' = 0 /\ sendDateType' = {}
    BY <1>0 DEF ResetLink
  <1>1. CASE NetTest
    <2>1. CASE running
      BY <1>1, <2>1 DEF NetTest
    <2>2. CASE ~running
      <3>1. ResetLink /\ pc' = "net" /\ rxdStatus' \in {"start", "void"}
        BY <1>1, <2>2 DEF NetTest, AppInitReset
      <3>2. UNCHANGED <<net, pVS, pVR, pAcked, pAckSent, conns, otherLoaded>>
        BY <1>1 DEF NetTest
      <3> QED BY <1>0, <3>1, <3>2
    <2> QED BY <2>1, <2>2
  <1>2. CASE ReadNothing
    BY <1>2 DEF ReadNothing
  <1>3. ASSUME NEW d \in Decodable PROVE d[1].nr \in 0..SeqMax /\ UnackedOf(d[1].nr) \in Nat
    BY DecodableType, NumberType DEF Frame
  <1>4. ASSUME NEW d \in Decodable, DecodeSFrame(d[1], d[2]) PROVE NumbersTyped'
    <2>1. tick' \subseteq {1, 2, 3} /\ UNCHANGED <<pVS, pVR, pAcked, pAckSent, conns, otherLoaded>>
      BY <1>4 DEF DecodeSFrame
    <2>2. CASE AbortOnAck(d[1], d[2])
      <3>1. /\ NS' = 0 /\ NR' = 0 /\ NRACK' = 0 /\ peerNoAckNum' = 0
            /\ pc' = "exit" /\ rxdStatus' = "start" /\ net' = "down"
            /\ UNCHANGED <<firstInit, sendDateType>>
        BY <2>2 DEF AbortOnAck
      <3> QED BY <2>1, <2>2, <3>1
    <2>3. CASE ~AbortOnAck(d[1], d[2])
      <3>1. /\ peerNoAckNum' = UnackedOf(d[1].nr) /\ pc' = "send" /\ rxdStatus' = "start"
            /\ UNCHANGED <<net, NS, NR, NRACK, firstInit, sendDateType>>
        BY <1>4, <2>3 DEF DecodeSFrame
      <3> QED BY <1>3, <2>1, <3>1
    <2> QED BY <2>2, <2>3
  <1>5. ASSUME NEW d \in Decodable, DecodeUFrame(d[1], d[2]) PROVE NumbersTyped'
    <2>1. /\ pc' = "send" /\ rxdStatus' = "start"
          /\ UNCHANGED <<net, pVS, pVR, pAcked, pAckSent, conns, otherLoaded>>
      BY <1>5 DEF DecodeUFrame
    <2>2. CASE ResetLink
      BY <1>0, <2>1, <2>2
    <2>3. CASE ~ResetLink
      <3>1. /\ tick' = (tick \ {1}) \cup {3}
            /\ peerNoAckNum' \in {peerNoAckNum, peerNoAckNum - 1}
            /\ peerNoAckNum' = peerNoAckNum \/ peerNoAckNum > 0
            /\ UNCHANGED <<NS, NR, NRACK, firstInit, sendDateType>>
        BY <1>5, <2>3 DEF DecodeUFrame, Confirmed
      <3> QED BY <2>1, <3>1
    <2> QED BY <2>2, <2>3
  <1>6. ASSUME NEW d \in Decodable, DecodeIFrame(d[1], d[2]) PROVE NumbersTyped'
    <2>1. UNCHANGED <<pVS, pVR, pAcked, pAckSent, conns, otherLoaded>>
      BY <1>6 DEF DecodeIFrame
    <2>2. CASE AbortOnAck(d[1], d[2]) /\ UNCHANGED tick
      <3>1. /\ NS' = 0 /\ NR' = 0 /\ NRACK' = 0 /\ peerNoAckNum' = 0
            /\ pc' = "exit" /\ rxdStatus' = "start" /\ net' = "down"
            /\ UNCHANGED <<firstInit, sendDateType>>
        BY <2>2 DEF AbortOnAck
      <3> QED BY <2>1, <2>2, <3>1
    <2>3. CASE ResetLink /\ pc' = "send" /\ rxdStatus' = "start" /\ net' = "down"
      BY <1>0, <2>1, <2>3
    <2>4. CASE /\ peerNoAckNum' = UnackedOf(d[1].nr)
               /\ NR' = IF NR = SeqMax + 1 THEN 0 ELSE NR + 1
               /\ tick' = ReceivedTimers
               /\ pc' = "send" /\ rxdStatus' = "start"
               /\ UNCHANGED <<net, NS, NRACK, firstInit, sendDateType>>
      BY <1>3, <2>1, <2>4 DEF ReceivedTimers
    <2> QED BY <1>6, <2>2, <2>3, <2>4 DEF DecodeIFrame
  <1>7. CASE SendProcess
    <2>1. pc' = "timer" /\ UNCHANGED <<net, firstInit, rxdStatus, pVS, pVR, pAcked, pAckSent, conns, otherLoaded>>
      BY <1>7 DEF SendProcess
    <2>2. CASE sendDateType = {}
      BY <1>7, <2>1, <2>2 DEF SendProcess
    <2>3. CASE sendDateType # {}
      <3>1. /\ NRACK' = NR /\ UNCHANGED NR
            /\ peerNoAckNum' = peerNoAckNum + 1
            /\ NS' = IF NS + 1 > SeqMax THEN 0 ELSE NS + 1
            /\ sendDateType' = sendDateType \ {Requested}
            /\ tick' = (tick \ {2}) \cup {1, 3}
        BY <1>7, <2>3 DEF SendProcess
      <3>2. NS' \in 0..SeqMax /\ NRACK' \in 0..(SeqMax + 1) /\ peerNoAckNum' \in Nat
        BY <3>1
      <3>3. tick' \subseteq {1, 2, 3} /\ sendDateType' \subseteq Requests
        BY <3>1
      <3> QED BY <2>1, <3>1, <3>2, <3>3
    <2> QED BY <2>2, <2>3
  <1>8. CASE StartdtDue \/ StartdtNotDue
    BY <1>8 DEF StartdtDue, StartdtNotDue
  <1>9. CASE T1Expired \/ T1Running
    <2>1. CASE T1Expired
      <3>1. /\ ResetLink /\ pc' = "ack" /\ rxdStatus' \in {"start", "void"} /\ net' = "down"
            /\ UNCHANGED <<pVS, pVR, pAcked, pAckSent, conns, otherLoaded>>
        BY <2>1 DEF T1Expired, AppInitReset
      <3> QED BY <1>0, <3>1
    <2>2. CASE T1Running
      BY <2>2 DEF T1Running
    <2> QED BY <1>9, <2>1, <2>2
  <1>10. CASE AckDue \/ AckNotDue
    BY <1>10 DEF AckDue, AckNotDue
  <1>11. CASE T3Expired \/ T3Running
    <2>1. CASE T3Expired
      <3>1. /\ pc' = "app" /\ peerNoAckNum' \in {peerNoAckNum, 1} /\ tick' \subseteq tick \cup {1}
            /\ UNCHANGED <<net, NS, NR, NRACK, firstInit, sendDateType, rxdStatus,
                           pVS, pVR, pAcked, pAckSent, conns, otherLoaded>>
        BY <2>1 DEF T3Expired
      <3> QED BY <3>1
    <2>2. CASE T3Running
      BY <2>2 DEF T3Running
    <2> QED BY <1>11, <2>1, <2>2
  <1>12. CASE QueueRequests
    <2>1. /\ pc' = "net" /\ firstInit' \in 0..2
          /\ sendDateType' \subseteq sendDateType \cup {"CLOCKSYN", "ALLDATA"}
          /\ UNCHANGED <<net, NS, NR, NRACK, peerNoAckNum, tick, rxdStatus,
                         pVS, pVR, pAcked, pAckSent, conns, otherLoaded>>
      BY <1>12 DEF QueueRequests
    <2> QED BY <2>1 DEF Requests
  <1>13. CASE OtherLoad \/ OtherStore
    <2>1. CASE OtherLoad
      <3>1. otherLoaded' = {sendDateType} /\ UNCHANGED sendDateType
        BY <2>1 DEF OtherLoad
      <3> QED BY <2>1, <3>1 DEF OtherLoad
    <2>2. CASE OtherStore
      <3>1. sendDateType' \subseteq Requests /\ otherLoaded' = {}
        BY <2>2 DEF OtherStore, Requests
      <3> QED BY <2>2, <3>1 DEF OtherStore
    <2> QED BY <1>13, <2>1, <2>2
  <1>14. CASE Client
    <2>1. UNCHANGED <<otherLoaded, pc, NS, NR, NRACK, peerNoAckNum, tick, firstInit, sendDateType, rxdStatus>>
      BY <1>14 DEF Client, ClientConnect, ClientRead, ClientWrite, ClientLost
    <2>2. CASE ClientConnect
      <3>1. net' = "up" /\ conns' = conns + 1 /\ pVS' = 0 /\ pVR' = 0 /\ pAcked' = 0 /\ pAckSent' = 0
        BY <2>2 DEF ClientConnect
      <3> QED BY <2>1, <3>1
    <2>3. CASE ClientRead \/ ClientWrite \/ ClientLost
      BY <2>1, <2>3 DEF ClientRead, ClientWrite, ClientLost
    <2> QED BY <1>14, <2>2, <2>3 DEF Client
  <1>15. Next1(pVS) \in 0..SeqMax /\ Next1(pVR) \in 0..SeqMax
    BY NumberType
  <1>16. CASE PeerReceive
    <2>1. Head(toPeer) \in Frame
      BY <1>16 DEF PeerReceive, BuffersTyped
    <2>2. Head(toPeer).nr \in 0..SeqMax
      BY <2>1 DEF Frame
    <2> QED BY <1>15, <1>16, <2>2 DEF PeerReceive
  <1>17. CASE PeerReject \/ PeerSendI \/ PeerSendS \/ PeerSendU \/ ConnectionBreaks
    BY <1>15, <1>17 DEF PeerReject, PeerSendI, PeerSendS, PeerSendU, ConnectionBreaks
  <1>18. CASE UNCHANGED vars
    BY <1>18 DEF vars
  <1> QED
    BY <1>1, <1>2, <1>4, <1>5, <1>6, <1>7, <1>8, <1>9, <1>10, <1>11, <1>12, <1>13, <1>14,
       <1>16, <1>17, <1>18 DEF Next, Clock, Read, LinkOnTimer, Environment, Exited

LEMMA BuffersStep ==
  ASSUME NumbersTyped, BuffersTyped, [Next]_vars
  PROVE  BuffersTyped'
  <1> USE DEF BuffersTyped, KeepLink, StopLink, AppInitReset, Consume, PeerKeep, PeerReply,
              masterVars, rxdVars, wireVars, peerVars
  <1>0. <<>> \in Seq(Frame)
    OBVIOUS
  <1>1. CASE NetTest
    <2>1. rxdBuf' \in {rxdBuf, <<>>} /\ UNCHANGED <<rxQueue, txBuf, toPeer, toMaster>>
      BY <1>1 DEF NetTest
    <2> QED BY <1>0, <2>1
  <1>2. CASE ReadNothing
    BY <1>2, DecodableType DEF ReadNothing
  <1>3. ASSUME NEW d \in Decodable, DecodeSFrame(d[1], d[2]) PROVE BuffersTyped'
    <2>1. /\ rxdBuf' = d[2] /\ rxQueue' = <<>> /\ UNCHANGED txBuf
          /\ toPeer' \in {toPeer, <<>>} /\ toMaster' \in {toMaster, <<>>}
      BY <1>3 DEF DecodeSFrame, AbortOnAck
    <2> QED BY <1>0, <2>1, DecodableType
  <1>4. ASSUME NEW d \in Decodable, DecodeUFrame(d[1], d[2]) PROVE BuffersTyped'
    <2>1. txBuf' \in {txBuf, Append(txBuf, UFrame("TESTFR_CON"))}
      BY <1>4 DEF DecodeUFrame
    <2>2. Append(txBuf, UFrame("TESTFR_CON")) \in Seq(Frame)
      <3>1. UFrame("TESTFR_CON") \in Frame
        BY FrameType DEF UKinds
      <3> QED BY <3>1
    <2>3. rxdBuf' \in {d[2], <<>>} /\ rxQueue' = <<>> /\ UNCHANGED <<toPeer, toMaster>>
      BY <1>4 DEF DecodeUFrame
    <2> QED BY <1>0, <2>1, <2>2, <2>3, DecodableType
  <1>5. ASSUME NEW d \in Decodable, DecodeIFrame(d[1], d[2]) PROVE BuffersTyped'
    <2>1. /\ rxdBuf' \in {d[2], <<>>} /\ rxQueue' = <<>> /\ UNCHANGED txBuf
          /\ toPeer' \in {toPeer, <<>>} /\ toMaster' \in {toMaster, <<>>}
      BY <1>5 DEF DecodeIFrame, AbortOnAck
    <2> QED BY <1>0, <2>1, DecodableType
  <1>6. CASE SendProcess
    <2>1. Requested \in Asdus
      BY DEF Requested, Asdus, Requests
    <2>2. IFrame(NS, WireNR, Requested) \in Frame
      BY <2>1, FrameType, NumberType DEF NumbersTyped
    <2>5. Append(txBuf, IFrame(NS, WireNR, Requested)) \in Seq(Frame)
      BY <2>2
    <2>3. txBuf' \in {txBuf, Append(txBuf, IFrame(NS, WireNR, Requested))}
      BY <1>6 DEF SendProcess
    <2>4. UNCHANGED <<rxdBuf, rxQueue, toPeer, toMaster>>
      BY <1>6 DEF SendProcess
    <2> QED BY <2>3, <2>4, <2>5
  <1>7. CASE StartdtDue \/ T3Expired
    <2>1. /\ Append(txBuf, UFrame("STARTDT_ACT")) \in Seq(Frame)
          /\ Append(txBuf, UFrame("TESTFR_ACT")) \in Seq(Frame)
      <3>1. UFrame("STARTDT_ACT") \in Frame /\ UFrame("TESTFR_ACT") \in Frame
        BY FrameType DEF UKinds
      <3> QED BY <3>1
    <2>2. /\ txBuf' \in {txBuf, Append(txBuf, UFrame("STARTDT_ACT")), Append(txBuf, UFrame("TESTFR_ACT"))}
          /\ UNCHANGED <<rxdBuf, rxQueue, toPeer, toMaster>>
      BY <1>7 DEF StartdtDue, T3Expired
    <2> QED BY <2>1, <2>2
  <1>8. CASE AckDue
    <2>1. SFrame(WireNR) \in Frame
      BY FrameType, NumberType
    <2> QED BY <1>8, <2>1 DEF AckDue
  <1>9. CASE T1Expired
    BY <1>9 DEF T1Expired
  <1>10. CASE StartdtNotDue \/ T1Running \/ AckNotDue \/ T3Running \/ QueueRequests
    BY <1>10 DEF StartdtNotDue, T1Running, AckNotDue, T3Running, QueueRequests
  <1>11. CASE OtherLoad \/ OtherStore
    BY <1>11 DEF OtherLoad, OtherStore
  <1>12. CASE Client
    <2>1. CASE ClientConnect \/ ClientLost
      <3>1. toPeer' = <<>> /\ toMaster' = <<>> /\ UNCHANGED <<rxdBuf, rxQueue, txBuf>>
        BY <2>1 DEF ClientConnect, ClientLost
      <3> QED BY <3>1
    <2>2. CASE ClientRead
      BY <2>2 DEF ClientRead
    <2>3. CASE ClientWrite
      <3>1. toPeer' \in {toPeer, toPeer \o txBuf} /\ txBuf' = <<>> /\ UNCHANGED <<rxdBuf, rxQueue, toMaster>>
        BY <2>3 DEF ClientWrite
      <3>2. toPeer \o txBuf \in Seq(Frame)
        OBVIOUS
      <3> QED BY <1>0, <3>1, <3>2
    <2> QED BY <1>12, <2>1, <2>2, <2>3 DEF Client
  <1>13. CASE PeerReceive
    <2>1. /\ Append(toMaster, UFrame("STARTDT_CON")) \in Seq(Frame)
          /\ Append(toMaster, UFrame("TESTFR_CON")) \in Seq(Frame)
      <3>1. UFrame("STARTDT_CON") \in Frame /\ UFrame("TESTFR_CON") \in Frame
        BY FrameType DEF UKinds
      <3> QED BY <3>1
    <2>2. /\ toMaster' \in {toMaster, Append(toMaster, UFrame("STARTDT_CON")),
                            Append(toMaster, UFrame("TESTFR_CON"))}
          /\ toPeer # <<>> /\ toPeer' = Tail(toPeer)
          /\ UNCHANGED <<rxdBuf, rxQueue, txBuf>>
      BY <1>13 DEF PeerReceive
    <2>3. toMaster' \in Seq(Frame)
      BY <2>1, <2>2
    <2>4. toPeer' \in Seq(Frame)
      <3>1. toPeer # <<>> /\ toPeer' = Tail(toPeer)
        BY <2>2
      <3> QED BY <3>1
    <2> QED BY <2>2, <2>3, <2>4
  <1>14. CASE PeerReject \/ ConnectionBreaks
    <2>1. toPeer' = <<>> /\ UNCHANGED <<rxdBuf, rxQueue, txBuf, toMaster>>
      BY <1>14 DEF PeerReject, ConnectionBreaks
    <2> QED BY <2>1
  <1>15. CASE PeerSendI
    <2>1. PICK a \in {"data"} \cup (PeerMay \cap {"icEnd", "reset"}) :
             toMaster' = toMaster \o (IF SplitReads THEN <<HeaderToken>> ELSE <<>>)
                                  \o <<IFrame(pVS, pVR, a)>>
      BY <1>15 DEF PeerSendI
    <2>2. IFrame(pVS, pVR, a) \in Frame /\ HeaderToken \in Frame
      BY <2>1, FrameType DEF Asdus, Requests, NumbersTyped
    <2>3. toMaster' \in Seq(Frame)
      BY <2>1, <2>2
    <2> QED BY <1>15, <2>3 DEF PeerSendI
  <1>16. CASE PeerSendS
    <2>1. SFrame(pVR) \in Frame
      BY FrameType DEF NumbersTyped
    <2> QED BY <1>16, <2>1 DEF PeerSendS
  <1>17. CASE PeerSendU
    <2>1. /\ Append(toMaster, UFrame("TESTFR_ACT")) \in Seq(Frame)
          /\ Append(toMaster, UFrame("STOPDT_CON")) \in Seq(Frame)
      <3>1. UFrame("TESTFR_ACT") \in Frame /\ UFrame("STOPDT_CON") \in Frame
        BY FrameType DEF UKinds
      <3> QED BY <3>1
    <2>2. /\ toMaster' \in {Append(toMaster, UFrame("TESTFR_ACT")), Append(toMaster, UFrame("STOPDT_CON"))}
          /\ UNCHANGED <<rxdBuf, rxQueue, txBuf, toPeer>>
      BY <1>17 DEF PeerSendU
    <2> QED BY <2>1, <2>2
  <1>18. CASE UNCHANGED vars
    BY <1>18 DEF vars
  <1> QED
    BY <1>1, <1>2, <1>3, <1>4, <1>5, <1>6, <1>7, <1>8, <1>9, <1>10, <1>11, <1>12, <1>13, <1>14,
       <1>15, <1>16, <1>17, <1>18
       DEF Next, Clock, Read, LinkOnTimer, Environment, Exited

\* Every variable keeps its type, and every sequence number its range, NR's
\* reaching one past SeqMax (cs104MasterApp.c:554).
THEOREM TypeCorrect == Spec => []TypeOK
  <1>1. Init => FlagsTyped
    BY Zenon DEF Init, FlagsTyped
  <1>2. Init => NumbersTyped
    BY ConstantsAssumption DEF Init, NumbersTyped
  <1>3. Init => BuffersTyped
    BY DEF Init, BuffersTyped
  <1>4. TypeOK /\ [Next]_vars => TypeOK'
    BY FlagsStep, NumbersStep, BuffersStep DEF TypeOK
  <1> QED BY <1>1, <1>2, <1>3, <1>4, PTL DEF Spec, TypeOK

-----------------------------------------------------------------------------
(* The receive window.                                                      *)

\* From the acknowledgement test on to the end of the pass, less than W
\* frames wait.  AcknowledgedByW alone is not inductive: it says nothing of
\* the steps between the test and the end of the pass.
WindowKept == pc \in {"t3", "app", "net"} /\ appConnect => ToAcknowledge < W

\* No pass of CS104_Master_Clock on a started link ends with W received
\* frames unacknowledged, whatever arrives in the pass and after wrapping.
THEOREM WindowAcknowledged == Spec => []AcknowledgedByW
  <1>1. Init => WindowKept
    BY DEF Init, WindowKept
  <1>2. TypeOK /\ WindowKept /\ [Next]_vars => WindowKept'
    <2> SUFFICES ASSUME TypeOK, WindowKept, [Next]_vars PROVE WindowKept'
      OBVIOUS
    <2> USE DEF WindowKept, seqVars, appVars
    <2>0. UNCHANGED <<NR, NRACK>> => ToAcknowledge' = ToAcknowledge
      BY DEF ToAcknowledge
    <2>1. CASE NetTest
      BY <2>1 DEF NetTest, AppInitReset, ResetLink
    <2>2. CASE Read
      BY <2>2 DEF Read, ReadNothing, DecodeSFrame, DecodeUFrame, DecodeIFrame, AbortOnAck
    <2>3. CASE SendProcess
      BY <2>3 DEF SendProcess
    <2>4. CASE StartdtDue \/ StartdtNotDue
      BY <2>4 DEF StartdtDue, StartdtNotDue
    <2>5. CASE T1Expired \/ T1Running
      BY <2>0, <2>5 DEF T1Expired, T1Running
    <2>6. CASE AckDue
      BY <2>6, ConstantsAssumption DEF AckDue, WindowReached, TypeOK, NumbersTyped, ToAcknowledge
    <2>7. CASE AckNotDue
      BY <2>0, <2>7, ConstantsAssumption DEF AckNotDue, WindowReached, TypeOK, NumbersTyped, ToAcknowledge
    <2>8. CASE T3Expired \/ T3Running
      BY <2>0, <2>8 DEF T3Expired, T3Running
    <2>9. CASE QueueRequests
      BY <2>0, <2>9 DEF QueueRequests
    <2>10. CASE OtherLoad \/ OtherStore
      BY <2>0, <2>10 DEF OtherLoad, OtherStore, masterVars
    <2>11. CASE Client
      BY <2>0, <2>11 DEF Client, ClientConnect, ClientRead, ClientWrite, ClientLost, masterVars
    <2>12. CASE Environment
      BY <2>0, <2>12 DEF Environment, PeerReceive, PeerReject, PeerSendI, PeerSendS, PeerSendU,
                   ConnectionBreaks, PeerKeep, masterVars
    <2>13. CASE UNCHANGED vars
      BY <2>0, <2>13 DEF vars, masterVars
    <2> QED
      BY <2>1, <2>2, <2>3, <2>4, <2>5, <2>6, <2>7, <2>8, <2>9, <2>10, <2>11, <2>12, <2>13
         DEF Next, Clock, LinkOnTimer, Exited
  <1>3. WindowKept => AcknowledgedByW
    BY DEF WindowKept, AcknowledgedByW
  <1> QED BY <1>1, <1>2, <1>3, TypeCorrect, PTL DEF Spec

-----------------------------------------------------------------------------
(* Remainders: sequence numbers are counted modulo SeqMax + 1.             *)

LEMMA Division ==
  ASSUME NEW x \in Int, NEW m \in Int, m > 0
  PROVE  x = m * (x \div m) + (x % m)
  BY SMT

LEMMA QuotientAndRest ==
  ASSUME NEW x \in Int, NEW m \in Nat \ {0}
  PROVE  x = m * (x \div m) + (x % m) /\ x % m \in 0..(m - 1) /\ x \div m \in Int
  <1>1. m \in Int /\ m > 0
    OBVIOUS
  <1>2. x = m * (x \div m) + (x % m)
    <2>1. \A n \in Int : n > 0 => x = n * (x \div n) + (x % n)
      BY Division
    <2> QED BY <1>1, <2>1, Zenon
  <1>3. x % m \in 0..(m - 1) /\ x \div m \in Int
    BY <1>1
  <1> QED BY <1>2, <1>3, Zenon

LEMMA AtLeastOnce == ASSUME NEW a \in Int, NEW m \in Nat \ {0}, a >= 1
                     PROVE  m * a >= m
  OBVIOUS

\* The remainder is the only r in 0..(m - 1) that x exceeds by a multiple of m.
LEMMA RestIsUnique ==
  ASSUME NEW m \in Nat \ {0}, NEW q \in Int, NEW r \in 0..(m - 1), NEW x \in Int, x = m * q + r
  PROVE  x % m = r
  <1> DEFINE p == x \div m
             s == x % m
  <1>1. x = m * p + s /\ s \in 0..(m - 1) /\ p \in Int
    BY QuotientAndRest
  <1> HIDE DEF p, s
  <1>2. m * (p - q) = r - s
    BY <1>1
  <1>3. CASE p - q >= 1
    BY <1>1, <1>2, <1>3, AtLeastOnce
  <1>4. CASE q - p >= 1
    <2>1. m * (q - p) = s - r
      BY <1>1
    <2> QED BY <1>1, <1>4, <2>1, AtLeastOnce
  <1>5. CASE p = q
    BY <1>1, <1>2, <1>5 DEF s
  <1> QED BY <1>1, <1>3, <1>4, <1>5

LEMMA RestOfSum ==
  ASSUME NEW m \in Nat \ {0}, NEW x \in Int, NEW y \in Int
  PROVE  ((x % m) + y) % m = (x + y) % m
  <1> DEFINE a == x + y
             p == x \div m
             q == a \div m
             s == x % m
             t == a % m
             d == q - p
             z == s + y
  <1>1. x = m * p + s /\ s \in 0..(m - 1) /\ p \in Int
    BY QuotientAndRest
  <1>2. a = m * q + t /\ t \in 0..(m - 1) /\ q \in Int
    BY QuotientAndRest
  <1> HIDE DEF p, q, s, t
  <1>3. z = m * d + t /\ z \in Int /\ d \in Int
    BY <1>1, <1>2
  <1> HIDE DEF d, z
  <1>4. z % m = t
    BY <1>2, <1>3, RestIsUnique
  <1> QED BY <1>4, Zenon DEF s, t, z

LEMMA RestOfSmall == ASSUME NEW m \in Nat \ {0}, NEW x \in 0..(m - 1) PROVE x % m = x
  <1>1. x = m * 0 + x
    OBVIOUS
  <1> QED BY <1>1, RestIsUnique


-----------------------------------------------------------------------------
(* The number of I frames in a buffer.                                     *)

LEMMA CountEmpty == IFrames(<<>>) = 0
  <1>1. {n \in DOMAIN <<>> : <<>>[n].k = "I"} = {}
    OBVIOUS
  <1>2. QED
    BY <1>1, FS_EmptySet DEF IFrames

LEMMA PlacesFinite ==
  ASSUME NEW S, NEW s \in Seq(S)
  PROVE  IsFiniteSet({n \in DOMAIN s : s[n].k = "I"})
  <1> DEFINE P == {n \in DOMAIN s : s[n].k = "I"}
  <1>1. Len(s) \in Nat /\ DOMAIN s = 1..Len(s)
    OBVIOUS
  <1>2. IsFiniteSet(1..Len(s))
    BY <1>1, FS_Interval
  <1>3. P \subseteq 1..Len(s)
    BY <1>1
  <1> HIDE DEF P
  <1>4. IsFiniteSet(P)
    BY <1>2, <1>3, FS_Subset
  <1>5. QED
    BY <1>4 DEF P

LEMMA CountType == ASSUME NEW S, NEW s \in Seq(S) PROVE IFrames(s) \in Nat
  BY PlacesFinite, FS_CardinalityType DEF IFrames

LEMMA CountConcat ==
  ASSUME NEW S, NEW s \in Seq(S), NEW t \in Seq(S)
  PROVE  IFrames(s \o t) = IFrames(s) + IFrames(t)
  <1> DEFINE u == s \o t
           A == {n \in DOMAIN s : s[n].k = "I"}
           B == {n \in DOMAIN t : t[n].k = "I"}
           C == {n \in DOMAIN u : u[n].k = "I"}
           a == Len(s)
           b == Len(t)
           D == {n \in (a + 1)..(a + b) : n - a \in B}
           f == [n \in B |-> n + a]
  <1>1. /\ a \in Nat /\ b \in Nat /\ DOMAIN s = 1..a /\ DOMAIN t = 1..b /\ DOMAIN u = 1..(a + b)
        /\ \A n \in 1..a : u[n] = s[n]
        /\ \A n \in (a + 1)..(a + b) : u[n] = t[n - a]
    BY ConcatProperties
  <1>2. A \subseteq 1..a /\ B \subseteq 1..b /\ D \subseteq (a + 1)..(a + b)
    BY <1>1
  <1>3. C = A \cup D
    <2> HIDE DEF u
    <2>1. ASSUME NEW n \in 1..(a + b) PROVE n \in C <=> n \in A \cup D
      <3>1. CASE n \in 1..a
        <4>1. n \notin D
          BY <1>1, <3>1
        <4>2. n \in C <=> s[n].k = "I"
          BY <1>1, <3>1
        <4>3. n \in A <=> s[n].k = "I"
          BY <1>1, <3>1
        <4>4. QED
          BY <4>1, <4>2, <4>3
      <3>2. CASE n \in (a + 1)..(a + b)
        <4>1. n \notin A
          BY <1>1, <3>2
        <4>2. n \in C <=> t[n - a].k = "I"
          BY <1>1, <3>2
        <4>3. n - a \in DOMAIN t
          BY <1>1, <3>2
        <4>4. n \in D <=> t[n - a].k = "I"
          BY <4>3, <3>2
        <4>5. QED
          BY <4>1, <4>2, <4>4
      <3>3. QED
        BY <1>1, <3>1, <3>2
    <2>2. C \subseteq 1..(a + b) /\ A \cup D \subseteq 1..(a + b)
      BY <1>1, <1>2
    <2> HIDE DEF A, C, D
    <2>3. QED
      BY <2>1, <2>2
  <1>4. IsFiniteSet(A) /\ IsFiniteSet(B)
    BY PlacesFinite
  <1> HIDE DEF u, A, B, C
  <1>5. f \in Bijection(B, D)
    <2>1. \A n \in B : n + a \in D
      BY <1>1, <1>2
    <2>2. \A m, n \in B : m + a = n + a => m = n
      BY <1>1, <1>2
    <2>3. \A d \in D : \E n \in B : n + a = d
      BY <1>1, <1>2
    <2> HIDE DEF D
    <2>4. QED
      BY <2>1, <2>2, <2>3 DEF Bijection, Injection, Surjection, IsInjective
  <1> HIDE DEF f, D
  <1>6. IsFiniteSet(D) /\ Cardinality(D) = Cardinality(B)
    BY <1>4, <1>5, FS_Bijection DEF ExistsBijection
  <1>7. A \cap D = {}
    BY <1>1, <1>2
  <1>8. Cardinality(C) = Cardinality(A) + Cardinality(D) - Cardinality(A \cap D)
    BY <1>3, <1>4, <1>6, FS_Union
  <1>9. Cardinality(A) \in Nat /\ Cardinality(B) \in Nat /\ Cardinality(A \cap D) = 0
    BY <1>4, <1>7, FS_CardinalityType, FS_EmptySet
  <1>10. Cardinality(C) = Cardinality(A) + Cardinality(B)
    BY <1>6, <1>8, <1>9
  <1>11. QED
    BY <1>10 DEF A, B, C, u, IFrames

LEMMA CountOne ==
  ASSUME NEW S, NEW x \in S
  PROVE  IFrames(<<x>>) = IF x.k = "I" THEN 1 ELSE 0
  <1>1. {n \in DOMAIN <<x>> : <<x>>[n].k = "I"} = IF x.k = "I" THEN {1} ELSE {}
    OBVIOUS
  <1>2. QED
    BY <1>1, FS_EmptySet, FS_Singleton DEF IFrames

LEMMA CountAppend ==
  ASSUME NEW S, NEW s \in Seq(S), NEW x \in S
  PROVE  IFrames(Append(s, x)) = IFrames(s) + (IF x.k = "I" THEN 1 ELSE 0)
  <1>1. Append(s, x) = s \o <<x>> /\ <<x>> \in Seq(S)
    BY AppendIsConcat
  <1>2. QED
    BY <1>1, CountConcat, CountOne, Zenon

LEMMA CountTail ==
  ASSUME NEW S, NEW s \in Seq(S), s # <<>>
  PROVE  IFrames(s) = (IF Head(s).k = "I" THEN 1 ELSE 0) + IFrames(Tail(s))
  <1>1. Head(s) \in S /\ Tail(s) \in Seq(S) /\ <<Head(s)>> \in Seq(S)
    OBVIOUS
  <1>2. s = <<Head(s)>> \o Tail(s)
    OBVIOUS
  <1>3. IFrames(<<Head(s)>> \o Tail(s)) = IFrames(<<Head(s)>>) + IFrames(Tail(s))
    BY <1>1, CountConcat
  <1>4. IFrames(s) = IFrames(<<Head(s)>>) + IFrames(Tail(s))
    BY <1>2, <1>3, Zenon
  <1>5. IFrames(<<Head(s)>>) = IF Head(s).k = "I" THEN 1 ELSE 0
    BY <1>1, CountOne
  <1>6. QED
    BY <1>4, <1>5, Zenon

-----------------------------------------------------------------------------
(* How a connection begins and ends.                                       *)

\* The master has the connection, or is about to decode what came over it.
Reading == running \/ pc = "read"

\* The client thread knows of a connection exactly while there is a socket.
SocketKnown == (net = "down" => ~running) /\ (~running => net = "down")

\* A connection that the master has seen end has left nothing behind.
FreshStart ==
  noticed =>
    /\ pc = "net" /\ ~running
    /\ NS = 0 /\ NR = 0 /\ peerNoAckNum = 0
    /\ rxdBuf = <<>> /\ rxdStatus # "head"
    /\ ~tested /\ ~appConnect /\ firstInit = 0

\* A header zeroed by a reset (cs104MasterApp.c:239) is decoded before the
\* master sends anything.
VoidFirst ==
  clean /\ ~tested /\ Reading /\ rxdStatus = "void" => pc \in {"net", "read"} /\ NS = 0 /\ peerNoAckNum = 0

Free(s) == \A n \in 1..Len(s) : s[n].k # "STOPDT_CON"

\* The station has confirmed no STOPDT.
NotStopped == clean => Free(rxdBuf) /\ Free(rxQueue) /\ Free(toMaster)

Connected == SocketKnown /\ FreshStart /\ VoidFirst /\ NotStopped

LEMMA FreeType ==
  ASSUME NEW s \in Seq(Frame), Free(s)
  PROVE  /\ \A f \in Frame : f.k # "STOPDT_CON" => Free(Append(s, f))
         /\ \A t \in Seq(Frame) : Free(t) => Free(s \o t)
         /\ s # <<>> => Head(s).k # "STOPDT_CON" /\ Free(Tail(s))
  <1>1. ASSUME NEW f \in Frame, f.k # "STOPDT_CON" PROVE Free(Append(s, f))
    BY <1>1 DEF Free
  <1>2. ASSUME NEW t \in Seq(Frame), Free(t) PROVE Free(s \o t)
    <2>1. Len(s) \in Nat /\ Len(t) \in Nat
      OBVIOUS
    <2> DEFINE u == s \o t
    <2>2. Len(u) = Len(s) + Len(t)
          /\ \A n \in 1..(Len(s) + Len(t)) : u[n] = IF n <= Len(s) THEN s[n] ELSE t[n - Len(s)]
      BY ConcatProperties
    <2> HIDE DEF u
    <2>3. ASSUME NEW n \in 1..Len(u) PROVE u[n].k # "STOPDT_CON"
      <3>1. CASE n <= Len(s)
        BY <2>1, <2>2, <2>3, <3>1 DEF Free
      <3>2. CASE n > Len(s)
        <4>1. n - Len(s) \in 1..Len(t) /\ u[n] = t[n - Len(s)]
          BY <2>1, <2>2, <2>3, <3>2
        <4> QED BY <1>2, <4>1 DEF Free
      <3> QED BY <2>1, <2>2, <3>1, <3>2
    <2> QED BY <2>3 DEF Free, u
  <1>3. ASSUME s # <<>> PROVE Head(s).k # "STOPDT_CON" /\ Free(Tail(s))
    BY <1>3, HeadTailProperties DEF Free
  <1> QED BY <1>1, <1>2, <1>3

LEMMA FreeEmpty == Free(<<>>)
  BY DEF Free

\* What is decoded comes out of the buffer, and the rest stays.
LEMMA DecodableParts ==
  ASSUME BuffersTyped, NEW d \in Decodable
  PROVE  \/ rxdStatus = "void" /\ d[1] = ZeroedFrame /\ d[2] = Fetched
         \/ /\ rxdStatus # "void" /\ Fetched # <<>>
            /\ \/ d[1] = Head(Fetched) /\ d[2] = Tail(Fetched)
               \/ /\ Head(Fetched).k = "HEADER" /\ Tail(Fetched) # <<>>
                  /\ d[1] = Head(Tail(Fetched)) /\ d[2] = Tail(Tail(Fetched))
  <1>1. Fetched \in Seq(Frame)
    BY DecodableType
  <1> HIDE DEF Fetched
  <1>2. CASE rxdStatus = "void"
    BY <1>2 DEF Decodable
  <1>3. CASE rxdStatus # "void" /\ Fetched # <<>> /\ Head(Fetched).k # "HEADER"
    BY <1>3 DEF Decodable
  <1>4. CASE rxdStatus # "void" /\ Fetched # <<>> /\ Head(Fetched).k = "HEADER"
    <2>1. Len(Fetched) >= 2 /\ d = <<Fetched[2], SubSeq(Fetched, 3, Len(Fetched))>>
      BY <1>4 DEF Decodable
    <2>2. Len(Tail(Fetched)) = Len(Fetched) - 1 /\ Tail(Fetched) \in Seq(Frame)
          /\ Tail(Fetched)[1] = Fetched[2]
      BY <1>1, <1>4, <2>1, HeadTailProperties
    <2>3. Tail(Fetched) # <<>> /\ Head(Tail(Fetched)) = Fetched[2]
      <3> DEFINE t == Tail(Fetched)
      <3>1. t \in Seq(Frame) /\ Len(t) >= 1 /\ t[1] = Fetched[2]
        BY <1>1, <2>1, <2>2
      <3> HIDE DEF t
      <3>2. t # <<>> /\ Head(t) = t[1]
        BY <3>1
      <3> QED BY <3>1, <3>2 DEF t
    <2>4. Tail(Fetched) = SubSeq(Fetched, 2, Len(Fetched))
      BY <1>1, <1>4, TailIsSubSeq
    <2>5. Tail(SubSeq(Fetched, 2, Len(Fetched))) = SubSeq(Fetched, 2 + 1, Len(Fetched))
      <3>1. Len(Fetched) \in Nat /\ 2 \in 1..Len(Fetched) /\ Len(Fetched) \in 2..Len(Fetched)
        BY <1>1, <2>1
      <3> QED BY <1>1, <3>1, HeadTailOfSubSeq
    <2>6. Tail(Tail(Fetched)) = SubSeq(Fetched, 3, Len(Fetched))
      BY <2>4, <2>5
    <2> QED BY <1>4, <2>1, <2>3, <2>6
  <1>5. CASE rxdStatus # "void" /\ Fetched = <<>>
    BY <1>5 DEF Decodable
  <1> QED BY <1>2, <1>3, <1>4, <1>5

LEMMA SocketKnownStep ==
  ASSUME FlagsTyped, SocketKnown, [Next]_vars
  PROVE  SocketKnown'
  <1> USE DEF SocketKnown, KeepLink, StopLink, PeerKeep
  <1>1. CASE UNCHANGED <<net, running>>
    BY <1>1, Zenon
  <1>2. CASE net' = "down" /\ running' = FALSE
    BY <1>2, Zenon
  <1>3. CASE net' # "down" /\ running' = TRUE
    BY <1>3, Zenon
  <1>4. CASE net # "down" /\ net' # "down" /\ running' = running
    BY <1>4, Zenon
  <1>5. CASE Clock
    <2>1. UNCHANGED <<net, running>> \/ (net' = "down" /\ running' = FALSE)
      BY <1>5 DEF Clock, NetTest, Read, ReadNothing, DecodeSFrame, DecodeUFrame, DecodeIFrame, AbortOnAck,
                  SendProcess, LinkOnTimer, StartdtDue, StartdtNotDue, T1Expired, T1Running, AckDue,
                  AckNotDue, T3Expired, T3Running, QueueRequests
    <2> QED BY <1>1, <1>2, <2>1, Zenon
  <1>6. CASE OtherLoad \/ OtherStore
    BY <1>1, <1>6, Zenon DEF OtherLoad, OtherStore
  <1>7. CASE Client
    <2>1. CASE ClientConnect
      <3>1. net' = "up" /\ running' = TRUE
        BY <2>1 DEF ClientConnect
      <3> QED BY <1>3, <3>1
    <2>2. CASE ClientRead \/ ClientWrite
      BY <1>1, <2>2, Zenon DEF ClientRead, ClientWrite
    <2>3. CASE ClientLost
      BY <1>2, <2>3, Zenon DEF ClientLost
    <2> QED BY <1>7, <2>1, <2>2, <2>3 DEF Client
  <1>8. CASE PeerReceive \/ PeerSendI \/ PeerSendS \/ PeerSendU
    BY <1>1, <1>8, Zenon DEF PeerReceive, PeerSendI, PeerSendS, PeerSendU
  <1>9. CASE PeerReject \/ ConnectionBreaks
    <2>1. net = "up" /\ net' = "broken" /\ running' = running
      BY <1>9 DEF PeerReject, ConnectionBreaks
    <2> QED BY <1>4, <2>1
  <1>10. CASE UNCHANGED vars
    BY <1>1, <1>10, Zenon DEF vars
  <1> QED BY <1>5, <1>6, <1>7, <1>8, <1>9, <1>10 DEF Next, Environment, Exited

\* Nothing but NetTest is done by a master that has seen the end, and NetTest
\* leaves it as it is, until the client connects.
LEMMA FreshStartStep ==
  ASSUME TypeOK, FreshStart, [Next]_vars
  PROVE  FreshStart'
  <1> SUFFICES ASSUME noticed'
               PROVE  /\ pc' = "net" /\ ~running'
                      /\ NS' = 0 /\ NR' = 0 /\ peerNoAckNum' = 0
                      /\ rxdBuf' = <<>> /\ rxdStatus' # "head"
                      /\ ~tested' /\ ~appConnect' /\ firstInit' = 0
    BY Zenon DEF FreshStart
  <1>1. CASE NetTest
    <2>1. CASE running
      <3>1. noticed' = noticed
        BY <1>1, <2>1, Zenon DEF NetTest
      <3> QED BY <2>1, <3>1, Zenon DEF FreshStart
    <2>2. CASE ~running
      <3>1. AppInitReset /\ pc' = "net" /\ running' = running
        BY <1>1, <2>2, Zenon DEF NetTest, KeepLink
      <3>2. rxdStatus' # "head" /\ rxdBuf' = <<>>
        BY <3>1, Zenon DEF AppInitReset
      <3> QED BY <2>2, <3>1, <3>2, Zenon DEF AppInitReset, ResetLink
    <2> QED BY <2>1, <2>2
  <1>2. CASE /\ noticed' = noticed /\ pc = "net"
             /\ UNCHANGED <<pc, running, NS, NR, peerNoAckNum, rxdBuf, rxdStatus, tested, appConnect, firstInit>>
    BY <1>2, Zenon DEF FreshStart
  <1>3. CASE noticed' = noticed /\ (pc # "net" \/ running)
    BY <1>3, Zenon DEF FreshStart
  <1>4. CASE Read \/ SendProcess \/ LinkOnTimer
    <2>1. UNCHANGED noticed
      BY <1>4 DEF Read, ReadNothing, DecodeSFrame, DecodeUFrame, DecodeIFrame, SendProcess,
                  LinkOnTimer, StartdtDue, StartdtNotDue, T1Expired, T1Running, AckDue, AckNotDue,
                  T3Expired, T3Running, QueueRequests, outerVars
    <2>2. pc # "net"
      BY <1>4 DEF Read, ReadNothing, SendProcess,
                  LinkOnTimer, StartdtDue, StartdtNotDue, T1Expired, T1Running, AckDue, AckNotDue,
                  T3Expired, T3Running, QueueRequests
    <2> QED BY <1>3, <2>1, <2>2, Zenon
  <1>5. CASE ClientConnect
    BY <1>5, Zenon DEF ClientConnect
  <1>6. CASE ClientRead \/ ClientWrite \/ ClientLost
    BY <1>3, <1>6, Zenon DEF ClientRead, ClientWrite, ClientLost, outerVars
  <1>7. CASE OtherLoad \/ OtherStore \/ Environment \/ UNCHANGED vars
    <2>1. /\ noticed' = noticed
          /\ UNCHANGED <<pc, running, NS, NR, peerNoAckNum, rxdBuf, rxdStatus, tested, appConnect, firstInit>>
      BY <1>7 DEF OtherLoad, OtherStore, Environment, PeerReceive, PeerReject, PeerSendI, PeerSendS, PeerSendU,
                  ConnectionBreaks, PeerKeep, KeepLink, vars, masterVars, seqVars, appVars, rxdVars, outerVars
    <2> QED BY <1>2, <1>3, <2>1, Zenon
  <1> QED BY <1>1, <1>4, <1>5, <1>6, <1>7 DEF Next, Clock, Client, Exited

LEMMA NotStoppedStep ==
  ASSUME TypeOK, FreshStart, NotStopped, [Next]_vars
  PROVE  NotStopped'
  <1> USE DEF KeepLink, StopLink, PeerKeep, Consume, outerVars, wireVars
  <1>0. /\ Free(<<>>)
        /\ rxdBuf \in Seq(Frame) /\ rxQueue \in Seq(Frame) /\ toMaster \in Seq(Frame)
    BY FreeEmpty DEF TypeOK, BuffersTyped
  <1>1. ASSUME clean, clean' = clean PROVE Free(rxdBuf) /\ Free(rxQueue) /\ Free(toMaster) /\ Free(Fetched)
    <2>1. Free(rxdBuf) /\ Free(rxQueue) /\ Free(toMaster)
      BY <1>1, Zenon DEF NotStopped
    <2> QED BY <1>0, <2>1, FreeType DEF Fetched
  <1>2. ASSUME NEW d \in Decodable, clean, clean' = clean PROVE Free(d[2]) /\ d[1].k # "STOPDT_CON"
    <2>1. Fetched \in Seq(Frame)
      BY DecodableType DEF TypeOK
    <2>2. Free(Fetched)
      BY <1>1, <1>2
    <2>3. CASE d[1] = ZeroedFrame /\ d[2] = Fetched
      BY <2>2, <2>3 DEF ZeroedFrame, IFrame
    <2> HIDE DEF Fetched
    <2>4. CASE Fetched # <<>> /\ d[1] = Head(Fetched) /\ d[2] = Tail(Fetched)
      BY <2>1, <2>2, <2>4, FreeType
    <2>5. CASE /\ Fetched # <<>> /\ Tail(Fetched) # <<>>
               /\ d[1] = Head(Tail(Fetched)) /\ d[2] = Tail(Tail(Fetched))
      <3>1. Tail(Fetched) \in Seq(Frame) /\ Free(Tail(Fetched))
        BY <2>1, <2>2, <2>5, FreeType, HeadTailProperties
      <3> QED BY <2>5, <3>1, FreeType
    <2> QED BY <2>3, <2>4, <2>5, DecodableParts DEF TypeOK
  <1>3. CASE Clock
    <2>1. clean' = clean
      BY <1>3 DEF Clock, NetTest, Read, ReadNothing, DecodeSFrame, DecodeUFrame, DecodeIFrame,
                  SendProcess, LinkOnTimer, StartdtDue, StartdtNotDue, T1Expired, T1Running, AckDue, AckNotDue,
                  T3Expired, T3Running, QueueRequests
    <2>2. toMaster' \in {toMaster, <<>>}
      BY <1>3 DEF Clock, NetTest, Read, ReadNothing, DecodeSFrame, DecodeUFrame, DecodeIFrame, AbortOnAck,
                  SendProcess, LinkOnTimer, StartdtDue, StartdtNotDue, T1Expired, T1Running, AckDue, AckNotDue,
                  T3Expired, T3Running, QueueRequests
    <2>3. CASE Read
      <3>1. rxQueue' = <<>> /\ (rxdBuf' \in {<<>>, Fetched} \/ \E d \in Decodable : rxdBuf' = d[2])
        BY <2>3 DEF Read, ReadNothing, DecodeSFrame, DecodeUFrame, DecodeIFrame, AbortOnAck
      <3>2. clean => Free(rxdBuf')
        BY <1>0, <1>1, <1>2, <2>1, <3>1
      <3> QED BY <1>0, <1>1, <2>1, <2>2, <3>1, <3>2 DEF NotStopped
    <2>4. CASE ~Read
      <3>1. rxQueue' = rxQueue /\ rxdBuf' \in {<<>>, rxdBuf}
        BY <1>3, <2>4 DEF Clock, NetTest, SendProcess, LinkOnTimer, StartdtDue, StartdtNotDue, T1Expired, T1Running,
                  AckDue, AckNotDue, T3Expired, T3Running, QueueRequests, rxdVars, AppInitReset
      <3> QED BY <1>0, <1>1, <2>1, <2>2, <3>1 DEF NotStopped
    <2> QED BY <2>3, <2>4
  <1>4. CASE OtherLoad \/ OtherStore \/ UNCHANGED vars
    <2>1. UNCHANGED <<clean, rxdBuf, rxQueue, toMaster>>
      BY <1>4 DEF OtherLoad, OtherStore, vars, masterVars, rxdVars
    <2> QED BY <2>1, <1>1 DEF NotStopped, Free
  <1>5. CASE ClientConnect
    <2>1. toMaster' = <<>> /\ UNCHANGED <<rxdBuf, rxQueue>>
      BY <1>5 DEF ClientConnect, masterVars, rxdVars
    <2>2. ASSUME clean' PROVE rxQueue = <<>> /\ rxdBuf = <<>>
      <3>1. noticed /\ rxQueue = <<>>
        BY <1>5, <2>2, Zenon DEF ClientConnect
      <3> QED BY <3>1, Zenon DEF FreshStart
    <2> QED BY <1>0, <2>1, <2>2 DEF NotStopped
  <1>6. CASE ClientRead
    <2>1. /\ toMaster # <<>> /\ rxQueue' = Append(rxQueue, Head(toMaster)) /\ toMaster' = Tail(toMaster)
          /\ UNCHANGED <<clean, rxdBuf>>
      BY <1>6 DEF ClientRead, masterVars, rxdVars
    <2>2. ASSUME clean PROVE Free(Append(rxQueue, Head(toMaster))) /\ Free(Tail(toMaster))
      <3>1. Head(toMaster) \in Frame /\ Head(toMaster).k # "STOPDT_CON" /\ Free(Tail(toMaster))
        BY <1>0, <1>1, <2>1, <2>2, FreeType, HeadTailProperties
      <3> QED BY <1>0, <1>1, <2>1, <2>2, <3>1, FreeType
    <2> QED BY <1>1, <2>1, <2>2 DEF NotStopped
  <1>7. CASE ClientWrite \/ ClientLost
    <2>1. toMaster' \in {toMaster, <<>>} /\ UNCHANGED <<clean, rxdBuf, rxQueue>>
      BY <1>7 DEF ClientWrite, ClientLost, masterVars, rxdVars
    <2> QED BY <1>0, <1>1, <2>1 DEF NotStopped
  <1>8. CASE Environment
    <2>1. UNCHANGED <<rxdBuf, rxQueue>>
      BY <1>8 DEF Environment, PeerReceive, PeerReject, PeerSendI, PeerSendS, PeerSendU,
                  ConnectionBreaks, masterVars, rxdVars
    <2>2. CASE clean' = FALSE
      BY <2>2 DEF NotStopped
    <2>3. CASE clean' = clean /\ toMaster' = toMaster
      BY <1>1, <2>1, <2>3 DEF NotStopped
    <2>4. ASSUME clean' = clean, NEW f \in Frame, f.k # "STOPDT_CON", toMaster' = Append(toMaster, f)
          PROVE  NotStopped'
      <3>1. clean => Free(Append(toMaster, f))
        BY <1>0, <1>1, <2>4, FreeType
      <3> QED BY <1>1, <2>1, <2>4, <3>1 DEF NotStopped
    <2>5. CASE PeerReceive
      <3>1. UFrame("STARTDT_CON") \in Frame /\ UFrame("TESTFR_CON") \in Frame
        BY FrameType DEF UKinds
      <3>2. clean' = clean
        BY <2>5 DEF PeerReceive
      <3>3. \/ toMaster' = toMaster
            \/ toMaster' = Append(toMaster, UFrame("STARTDT_CON"))
            \/ toMaster' = Append(toMaster, UFrame("TESTFR_CON"))
        BY <2>5 DEF PeerReceive, PeerReply
      <3>4. UFrame("STARTDT_CON").k # "STOPDT_CON" /\ UFrame("TESTFR_CON").k # "STOPDT_CON"
        BY DEF UFrame
      <3> QED BY <2>3, <2>4, <3>1, <3>2, <3>3, <3>4
    <2>6. CASE PeerReject \/ ConnectionBreaks
      BY <2>3, <2>6 DEF PeerReject, ConnectionBreaks
    <2>7. CASE PeerSendI
      <3>1. PICK a \in {"data"} \cup (PeerMay \cap {"icEnd", "reset"}) :
               toMaster' = toMaster \o (IF SplitReads THEN <<HeaderToken>> ELSE <<>>)
                                    \o <<IFrame(pVS, pVR, a)>>
        BY <2>7 DEF PeerSendI
      <3> DEFINE hs == IF SplitReads THEN <<HeaderToken>> ELSE <<>>
                 is == <<IFrame(pVS, pVR, a)>>
      <3>2. IFrame(pVS, pVR, a) \in Frame /\ HeaderToken \in Frame
        BY <3>1, FrameType DEF Asdus, Requests, TypeOK, NumbersTyped
      <3>3. hs \in Seq(Frame) /\ is \in Seq(Frame)
        BY <3>2
      <3>4. Free(hs) /\ Free(is)
        BY DEF Free, HeaderToken, IFrame
      <3>5. clean' = clean /\ toMaster' = toMaster \o hs \o is
        BY <2>7, <3>1 DEF PeerSendI
      <3> HIDE DEF hs, is
      <3>6. clean => Free((toMaster \o hs) \o is)
        <4> SUFFICES ASSUME clean PROVE Free((toMaster \o hs) \o is)
          OBVIOUS
        <4>1. Free(toMaster \o hs) /\ toMaster \o hs \in Seq(Frame)
          BY <1>0, <1>1, <3>3, <3>4, <3>5, FreeType, ConcatProperties
        <4> QED BY <3>3, <3>4, <4>1, FreeType
      <3> QED BY <1>1, <2>1, <3>5, <3>6 DEF NotStopped
    <2>8. CASE PeerSendS
      <3>1. SFrame(pVR) \in Frame /\ SFrame(pVR).k # "STOPDT_CON"
        BY FrameType DEF TypeOK, NumbersTyped, SFrame
      <3> QED BY <2>4, <2>8, <3>1 DEF PeerSendS, PeerReply
    <2>9. CASE PeerSendU
      <3>1. UFrame("TESTFR_ACT") \in Frame /\ UFrame("TESTFR_ACT").k # "STOPDT_CON"
        <4>1. UFrame("TESTFR_ACT") \in Frame
          BY FrameType DEF UKinds
        <4> QED BY <4>1 DEF UFrame
      <3> QED BY <2>2, <2>4, <2>9, <3>1 DEF PeerSendU, PeerReply
    <2> QED BY <1>8, <2>5, <2>6, <2>7, <2>8, <2>9 DEF Environment
  <1> QED BY <1>3, <1>4, <1>5, <1>6, <1>7, <1>8 DEF Next, Client, Exited

LEMMA VoidFirstStep ==
  ASSUME TypeOK, FreshStart, VoidFirst, [Next]_vars
  PROVE  VoidFirst'
  <1> SUFFICES ASSUME clean', ~tested', Reading', rxdStatus' = "void"
               PROVE  pc' \in {"net", "read"} /\ NS' = 0 /\ peerNoAckNum' = 0
    BY Zenon DEF VoidFirst
  <1> USE DEF KeepLink, StopLink, PeerKeep, Consume, masterVars, seqVars, rxdVars, outerVars
  <1>1. CASE /\ UNCHANGED <<clean, tested, running, rxdStatus, NS, peerNoAckNum>>
             /\ pc' = pc \/ (pc = "net" /\ pc' = "read" /\ running)
    <2>1. Reading
      BY <1>1, Zenon DEF Reading
    <2>2. pc \in {"net", "read"} /\ NS = 0 /\ peerNoAckNum = 0
      BY <1>1, <2>1, Zenon DEF VoidFirst
    <2> QED BY <1>1, <2>2
  <1>2. CASE clean' = clean /\ ~tested /\ rxdStatus = "void" /\ running' = running /\ pc \notin {"net", "read"} /\ pc' # "read"
    <2>1. Reading
      BY <1>2, Zenon DEF Reading
    <2>2. pc \in {"net", "read"}
      BY <1>2, <2>1, Zenon DEF VoidFirst
    <2> QED BY <1>2, <2>2
  <1>3. CASE ~running' /\ pc' # "read"
    BY <1>3, Zenon DEF Reading
  <1>4. CASE NetTest
    <2>1. CASE running
      BY <1>1, <1>4, <2>1 DEF NetTest
    <2>2. CASE ~running
      <3>1. pc' = "net" /\ running' = running
        BY <1>4, <2>2, Zenon DEF NetTest
      <3> QED BY <1>3, <2>2, <3>1, Zenon
    <2> QED BY <2>1, <2>2
  <1>5. CASE Read
    <2>1. CASE ReadNothing
      <3>1. Decodable = {} /\ rxdStatus' = "void"
        BY <2>1, Zenon DEF ReadNothing
      <3>2. rxdStatus # "void"
        BY <3>1 DEF Decodable
      <3>3. rxdStatus' \in {rxdStatus, "head"}
        BY <2>1 DEF ReadNothing
      <3> QED BY <3>1, <3>2, <3>3
    <2>2. CASE ~ReadNothing
      <3>1. rxdStatus' = "start"
        BY <1>5, <2>2 DEF Read, DecodeSFrame, DecodeUFrame, DecodeIFrame, AbortOnAck
      <3> QED BY <3>1
    <2> QED BY <2>1, <2>2
  <1>6. CASE SendProcess \/ (LinkOnTimer /\ ~T1Expired)
    <2>1. /\ clean' = clean /\ running' = running /\ rxdStatus' = rxdStatus
          /\ pc \notin {"net", "read"} /\ pc' # "read"
      BY <1>6 DEF SendProcess, LinkOnTimer, StartdtDue, StartdtNotDue, T1Running, AckDue, AckNotDue,
                  T3Expired, T3Running, QueueRequests
    <2>2. tested' = tested \/ tested' = TRUE
      BY <1>6 DEF SendProcess, LinkOnTimer, StartdtDue, StartdtNotDue, T1Running, AckDue, AckNotDue,
                  T3Expired, T3Running, QueueRequests
    <2>3. ~tested
      BY <2>2, Zenon
    <2> QED BY <1>2, <2>1, <2>3
  <1>7. CASE T1Expired
    <2>1. pc' = "ack" /\ running' = FALSE
      BY <1>7, Zenon DEF T1Expired
    <2> QED BY <1>3, <2>1
  <1>8. CASE ClientConnect
    <2>1. noticed /\ UNCHANGED <<pc, NS, peerNoAckNum>>
      <3>1. noticed
        BY <1>8, Zenon DEF ClientConnect
      <3>2. UNCHANGED <<pc, NS, peerNoAckNum>>
        BY <1>8 DEF ClientConnect
      <3> QED BY <3>1, <3>2
    <2> QED BY <2>1, Zenon DEF FreshStart
  <1>9. CASE OtherLoad \/ OtherStore \/ ClientRead \/ ClientWrite \/ UNCHANGED vars
    BY <1>1, <1>9 DEF OtherLoad, OtherStore, ClientRead, ClientWrite, vars
  <1>10. CASE ClientLost
    <2>1. running /\ UNCHANGED <<clean, tested, pc, rxdStatus, NS, peerNoAckNum>>
      <3>1. running
        BY <1>10, Zenon DEF ClientLost
      <3>2. UNCHANGED <<clean, tested, pc, rxdStatus, NS, peerNoAckNum>>
        BY <1>10 DEF ClientLost
      <3> QED BY <3>1, <3>2
    <2>2. pc \in {"net", "read"} /\ NS = 0 /\ peerNoAckNum = 0
      BY <2>1, Zenon DEF VoidFirst, Reading
    <2> QED BY <2>1, <2>2
  <1>11. CASE Environment
    <2>1. UNCHANGED <<tested, running, rxdStatus, NS, peerNoAckNum, pc>>
      BY <1>11 DEF Environment, PeerReceive, PeerReject, PeerSendI, PeerSendS, PeerSendU, ConnectionBreaks
    <2>2. clean' = clean \/ clean' = FALSE
      BY <1>11 DEF Environment, PeerReceive, PeerReject, PeerSendI, PeerSendS, PeerSendU, ConnectionBreaks
    <2>3. clean' = clean
      BY <2>2, Zenon
    <2> QED BY <1>1, <2>1, <2>3
  <1> QED BY <1>4, <1>5, <1>6, <1>7, <1>8, <1>9, <1>10, <1>11 DEF Next, Clock, Client, Exited

LEMMA ConnectedAlways == Spec => []Connected
  <1>1. Init => SocketKnown /\ FreshStart
    BY Zenon DEF Init, SocketKnown, FreshStart
  <1>2. Init => VoidFirst /\ NotStopped
    BY Zenon DEF Init, VoidFirst, NotStopped
  <1>3. TypeOK /\ Connected /\ [Next]_vars => Connected'
    BY SocketKnownStep, FreshStartStep, VoidFirstStep, NotStoppedStep DEF Connected, TypeOK
  <1> QED BY <1>1, <1>2, <1>3, TypeCorrect, PTL DEF Spec, Connected

-----------------------------------------------------------------------------
(* What one step does to the frames under way and to the counters.         *)

\* The frames on their way to the master and to the station, in the order in
\* which they will be taken.
Coming == Fetched \o toMaster
Going  == toPeer \o txBuf

counters  == <<NS, NR, peerNoAckNum, tested>>
atStation == <<pStarted, pVS, pVR, pAcked, rejected>>
socket    == <<clean, net, running>>

\* f was the first frame of Coming, or the second behind a header, and is gone.
FirstGone(f) ==
  \E k \in {1, 2} :
    /\ Len(Coming) = k + Len(Coming') /\ Coming[k] = f
    /\ k = 2 => Coming[1].k = "HEADER"
    /\ \A i \in 1..Len(Coming') : Coming'[i] = Coming[i + k]

Decoded(f) ==
  \/ rxdStatus = "void" /\ f = ZeroedFrame /\ Coming' = Coming
  \/ /\ rxdStatus # "void" /\ FirstGone(f)
     /\ IFrames(Coming) = (IF f.k = "I" THEN 1 ELSE 0) + IFrames(Coming')

Stays ==
  /\ UNCHANGED <<counters, atStation, socket, Coming>>
  /\ net = "up" => Going' = Going
  /\ pc' = "exit" => pc = "exit"
  /\ pc' = "read" => Reading

\* The connection ends for the master, or was not clean.
Ends ==
  /\ UNCHANGED <<atStation, clean>>
  /\ ~clean \/ (net' = "down" /\ ~Reading')
  /\ pc' = "exit" => \E d \in Decodable : pc = "read" /\ d[1].k \in {"S", "I"} /\ UnackedOf(d[1].nr) > peerNoAckNum
  /\ pc' = "exit" => tested' = tested

\* The connection fails, noticed or not.
Breaks ==
  /\ UNCHANGED <<counters, clean, pVR, pc>>
  /\ net' # "up" /\ (Reading' => Reading)
  /\ Coming' \in {Coming, Fetched}

Opens ==
  /\ UNCHANGED <<counters, pc>>
  /\ pc # "exit"
  /\ net' = "up" /\ ~rejected' /\ ~pStarted'
  /\ pVS' = 0 /\ pVR' = 0 /\ pAcked' = 0
  /\ clean' => noticed /\ Coming' = <<>> /\ Going' = <<>>

Sends ==
  /\ UNCHANGED <<atStation, socket, Coming, NR, tested>>
  /\ NS' = IF NS + 1 > SeqMax THEN 0 ELSE NS + 1
  /\ peerNoAckNum' = peerNoAckNum + 1
  /\ Going' = Append(Going, IFrame(NS, WireNR, Requested))
  /\ pc = "send" /\ pc' = "timer" /\ sendDateType # {}

Puts(f) ==
  /\ UNCHANGED <<atStation, socket, Coming, NS, NR>>
  /\ Going' = Append(Going, f)
  /\ \/ f \in {SFrame(WireNR), UFrame("STARTDT_ACT")} /\ UNCHANGED <<tested, peerNoAckNum>>
     \/ f = UFrame("TESTFR_ACT") /\ tested' = TRUE
  /\ pc \notin {"read", "net"} /\ pc' \notin {"exit", "read"}

Takes(f) ==
  /\ UNCHANGED <<atStation, socket, NS, tested>>
  /\ pc = "read" /\ pc' = "send"
  /\ Decoded(f)
  /\ \/ /\ f.k = "S" /\ UnackedOf(f.nr) <= peerNoAckNum
        /\ peerNoAckNum' = UnackedOf(f.nr) /\ UNCHANGED <<NR, Going>>
     \/ /\ f.k \in UKinds \ {"STOPDT_CON"}
        /\ peerNoAckNum' = Confirmed(f) /\ UNCHANGED NR
        /\ Going' = IF f.k = "TESTFR_ACT" THEN Append(Going, UFrame("TESTFR_CON")) ELSE Going
     \/ /\ f.k = "I" /\ UnackedOf(f.nr) <= peerNoAckNum
        /\ peerNoAckNum' = UnackedOf(f.nr)
        /\ NR' = (IF NR = SeqMax + 1 THEN 0 ELSE NR + 1) /\ UNCHANGED Going

\* The station takes f and may answer.
StationTakes(f) ==
  /\ UNCHANGED <<counters, socket, pc, rejected, pVS>>
  /\ net = "up" /\ Going # <<>> /\ f = Head(Going) /\ Going' = Tail(Going)
  /\ \/ /\ f.k = "STARTDT_ACT" /\ pStarted' /\ UNCHANGED <<pVR, pAcked>>
        /\ Coming' = Append(Coming, UFrame("STARTDT_CON"))
     \/ /\ f.k = "TESTFR_ACT" /\ UNCHANGED <<pStarted, pVR, pAcked>>
        /\ Coming' = Append(Coming, UFrame("TESTFR_CON"))
     \/ f.k = "TESTFR_CON" /\ UNCHANGED <<pStarted, pVR, pAcked, Coming>>
     \/ f.k = "S" /\ ValidAck(f.nr) /\ pAcked' = f.nr /\ UNCHANGED <<pStarted, pVR, Coming>>
     \/ /\ f.k = "I" /\ ValidAck(f.nr) /\ pStarted /\ f.ns = pVR
        /\ pAcked' = f.nr /\ pVR' = Next1(pVR) /\ UNCHANGED <<pStarted, Coming>>

StationSends(f) ==
  /\ UNCHANGED <<counters, net, running, pc, rejected, pVR, pAcked, Going>>
  /\ net = "up"
  /\ clean' => clean /\ pStarted' = pStarted
  /\ \/ /\ f.k = "I" /\ f.nr = pVR /\ pVS' = Next1(pVS)
        /\ Coming' \in {Append(Coming, f), Append(Append(Coming, HeaderToken), f)}
     \/ /\ f \in {SFrame(pVR), UFrame("TESTFR_ACT"), UFrame("STOPDT_CON")} /\ UNCHANGED pVS
        /\ Coming' = Append(Coming, f)

\* Every step of the link, seen from the session.
Move ==
  \/ Stays \/ Ends \/ Breaks \/ Opens \/ Sends
  \/ \E f \in Frame : Puts(f) \/ Takes(f) \/ StationTakes(f) \/ StationSends(f)

\* Something is added behind, or moved from one buffer to the next.
LEMMA AppendBehind ==
  ASSUME NEW S, NEW a \in Seq(S), NEW b \in Seq(S), NEW e \in S
  PROVE  a \o Append(b, e) = Append(a \o b, e)
  <1>1. <<e>> \in Seq(S) /\ a \o b \in Seq(S)
    BY ConcatProperties
  <1>2. Append(b, e) = b \o <<e>> /\ Append(a \o b, e) = (a \o b) \o <<e>>
    BY <1>1, AppendIsConcat
  <1> QED BY <1>1, <1>2, ConcatAssociative

LEMMA HeadFirst ==
  ASSUME NEW S, NEW c \in Seq(S), c # <<>>
  PROVE  /\ Head(c) \in S /\ Tail(c) \in Seq(S) /\ c = <<Head(c)>> \o Tail(c)
         /\ Head(c) = c[1] /\ Len(c) = 1 + Len(Tail(c)) /\ Len(Tail(c)) \in Nat
         /\ \A i \in 1..Len(Tail(c)) : Tail(c)[i] = c[i + 1]
  <1>1. Len(c) \in Nat \ {0}
    BY EmptySeq
  <1>2. SubSeq(c, 1, Len(c)) = <<c[1]>> \o SubSeq(c, 2, Len(c))
    BY <1>1, SubSeqRecursiveFirst
  <1>3. Head(c) = c[1]
    OBVIOUS
  <1>4. c = <<Head(c)>> \o Tail(c)
    BY <1>1, <1>2, <1>3, SubSeqFull, TailIsSubSeq
  <1> QED BY <1>1, <1>3, <1>4, HeadTailProperties

\* The first frame is taken from a \o b.
LEMMA HeadOfConcat ==
  ASSUME NEW S, NEW a \in Seq(S), NEW b \in Seq(S), a # <<>>
  PROVE  /\ a \o b \in Seq(S) /\ a \o b # <<>>
         /\ Head(a \o b) = Head(a) /\ Tail(a \o b) = Tail(a) \o b
  <1> DEFINE u == a \o b
             v == Tail(a) \o b
  <1>1. Len(a) \in Nat \ {0} /\ Len(b) \in Nat
    BY EmptySeq
  <1>2. /\ u \in Seq(S) /\ Len(u) = Len(a) + Len(b)
        /\ \A i \in 1..Len(a) + Len(b) : u[i] = IF i <= Len(a) THEN a[i] ELSE b[i - Len(a)]
    BY ConcatProperties
  <1>3. /\ Tail(a) \in Seq(S) /\ Len(a) = 1 + Len(Tail(a)) /\ Head(a) = a[1]
        /\ \A i \in 1..Len(Tail(a)) : Tail(a)[i] = a[i + 1]
    BY HeadFirst
  <1>4. /\ v \in Seq(S) /\ Len(v) = Len(Tail(a)) + Len(b)
        /\ \A i \in 1..Len(Tail(a)) + Len(b) :
             v[i] = IF i <= Len(Tail(a)) THEN Tail(a)[i] ELSE b[i - Len(Tail(a))]
    BY <1>3, ConcatProperties
  <1> HIDE DEF u, v
  <1>5. u # <<>>
    BY <1>1, <1>2
  <1>6. Head(u) = Head(a)
    BY <1>1, <1>2, <1>3, <1>5
  <1>7. /\ Tail(u) \in Seq(S) /\ Len(u) = 1 + Len(Tail(u)) /\ Len(Tail(u)) \in Nat
        /\ \A i \in 1..Len(Tail(u)) : Tail(u)[i] = u[i + 1]
    BY <1>2, <1>5, HeadFirst
  <1> DEFINE w == Tail(u)
             t == Tail(a)
  <1> HIDE DEF w, t
  <1>8. Len(w) = Len(v)
    BY <1>1, <1>2, <1>3, <1>4, <1>7 DEF w, t
  <1>9. ASSUME NEW i \in 1..Len(w) PROVE w[i] = v[i]
    <2>1. i + 1 \in 1..Len(a) + Len(b) /\ w[i] = u[i + 1] /\ Len(a) = 1 + Len(t) /\ Len(t) \in Nat
      BY <1>1, <1>2, <1>3, <1>7, <1>9 DEF w, t
    <2>2. CASE i <= Len(t)
      <3>1. w[i] = a[i + 1]
        BY <1>2, <2>1, <2>2
      <3>2. v[i] = a[i + 1]
        BY <1>1, <1>3, <1>4, <2>1, <2>2 DEF t
      <3> QED BY <3>1, <3>2
    <2>3. CASE i > Len(t)
      <3>1. w[i] = b[(i + 1) - Len(a)]
        BY <1>1, <1>2, <2>1, <2>3
      <3>2. v[i] = b[i - Len(t)]
        BY <1>1, <1>4, <2>1, <2>3 DEF t
      <3>3. (i + 1) - Len(a) = i - Len(t)
        BY <2>1
      <3> QED BY <3>1, <3>2, <3>3
    <2> QED BY <2>1, <2>2, <2>3
  <1>10. w = v
    BY <1>4, <1>7, <1>8, <1>9, SeqEqual DEF w
  <1> QED BY <1>2, <1>5, <1>6, <1>10 DEF u, v, w

LEMMA BuffersFlow ==
  ASSUME BuffersTyped
  PROVE  /\ Fetched \in Seq(Frame) /\ Coming \in Seq(Frame) /\ Going \in Seq(Frame)
         /\ Len(Coming) \in Nat /\ Len(Going) \in Nat
         /\ \A n \in 1..Len(Coming) : Coming[n] \in Frame
         /\ \A n \in 1..Len(Going) : Going[n] \in Frame
  <1>1. Fetched \in Seq(Frame)
    BY DecodableType
  <1>2. Coming \in Seq(Frame)
    BY <1>1, ConcatProperties DEF Coming, BuffersTyped
  <1>3. Going \in Seq(Frame)
    BY ConcatProperties DEF Going, BuffersTyped
  <1> QED BY <1>1, <1>2, <1>3, ElementOfSeq, LenProperties

\* The first one or two frames of a sequence.
LEMMA FirstOfTwo ==
  ASSUME NEW s \in Seq(Frame), s # <<>>
  PROVE  /\ Len(s) = 1 + Len(Tail(s)) /\ s[1] = Head(s)
         /\ \A i \in 1..Len(Tail(s)) : Tail(s)[i] = s[i + 1]
         /\ Tail(s) # <<>> =>
              /\ Len(s) = 2 + Len(Tail(Tail(s))) /\ s[2] = Head(Tail(s))
              /\ \A i \in 1..Len(Tail(Tail(s))) : Tail(Tail(s))[i] = s[i + 2]
  <1> DEFINE t == Tail(s)
  <1>1. /\ t \in Seq(Frame) /\ Head(s) = s[1] /\ Len(s) = 1 + Len(t) /\ Len(t) \in Nat
        /\ \A i \in 1..Len(t) : t[i] = s[i + 1]
    BY HeadFirst
  <1> HIDE DEF t
  <1>2. ASSUME t # <<>>
        PROVE  /\ Len(s) = 2 + Len(Tail(t)) /\ s[2] = Head(t)
               /\ \A i \in 1..Len(Tail(t)) : Tail(t)[i] = s[i + 2]
    <2> DEFINE u == Tail(t)
    <2>1. /\ Head(t) = t[1] /\ Len(t) = 1 + Len(u) /\ Len(u) \in Nat
          /\ \A i \in 1..Len(u) : u[i] = t[i + 1]
      BY <1>1, <1>2, HeadFirst
    <2> HIDE DEF u
    <2>2. s[2] = t[1] /\ Len(s) = 2 + Len(u)
      BY <1>1, <2>1
    <2>3. \A i \in 1..Len(u) : u[i] = s[i + 2]
      <3> SUFFICES ASSUME NEW i \in 1..Len(u) PROVE u[i] = s[i + 2]
        OBVIOUS
      <3>1. i + 1 \in 1..Len(t) /\ (i + 1) + 1 = i + 2
        BY <2>1
      <3>2. u[i] = t[i + 1] /\ t[i + 1] = s[(i + 1) + 1]
        BY <1>1, <2>1, <3>1
      <3> QED BY <3>1, <3>2
    <2> QED BY <2>1, <2>2, <2>3 DEF u
  <1> QED BY <1>1, <1>2 DEF t

LEMMA DecodedStep ==
  ASSUME BuffersTyped, NEW d \in Decodable, Fetched' = d[2], toMaster' = toMaster
  PROVE  d[1] \in Frame /\ Decoded(d[1])
  <1> DEFINE f == d[1]
  <1>1. d[1] \in Frame
    BY DecodableType
  <1>2. Coming' = d[2] \o toMaster
    BY DEF Coming
  <1>3. Fetched \in Seq(Frame) /\ Coming \in Seq(Frame) /\ toMaster \in Seq(Frame)
    BY BuffersFlow DEF BuffersTyped
  <1>4. CASE rxdStatus = "void" /\ d[1] = ZeroedFrame /\ d[2] = Fetched
    BY <1>1, <1>2, <1>4 DEF Decoded, Coming
  <1>5. CASE rxdStatus # "void" /\ Fetched # <<>> /\ d[1] = Head(Fetched) /\ d[2] = Tail(Fetched)
    <2>1. Coming # <<>> /\ Head(Coming) = d[1] /\ Coming' = Tail(Coming)
      BY <1>2, <1>3, <1>5, HeadOfConcat DEF Coming
    <2> HIDE DEF Coming, Fetched
    <2>2. FirstGone(d[1])
      <3>1. /\ Len(Coming) = 1 + Len(Coming') /\ Coming[1] = d[1]
            /\ \A i \in 1..Len(Coming') : Coming'[i] = Coming[i + 1]
        BY <1>3, <2>1, FirstOfTwo
      <3> QED BY <3>1 DEF FirstGone
    <2>3. IFrames(Coming) = (IF d[1].k = "I" THEN 1 ELSE 0) + IFrames(Coming')
      BY <1>3, <2>1, CountTail
    <2> QED BY <1>1, <1>5, <2>2, <2>3 DEF Decoded
  <1>6. CASE /\ rxdStatus # "void" /\ Fetched # <<>>
             /\ Head(Fetched).k = "HEADER" /\ Tail(Fetched) # <<>>
             /\ d[1] = Head(Tail(Fetched)) /\ d[2] = Tail(Tail(Fetched))
    <2>1. Coming # <<>> /\ Head(Coming) = Head(Fetched) /\ Tail(Coming) = Tail(Fetched) \o toMaster
      BY <1>3, <1>6, HeadOfConcat DEF Coming
    <2>2. Tail(Fetched) \in Seq(Frame)
      BY <1>3, <1>6, HeadTailProperties
    <2> HIDE DEF Coming, Fetched
    <2> DEFINE t == Tail(Fetched)
    <2>3. t \in Seq(Frame) /\ t # <<>> /\ d[1] = Head(t) /\ d[2] = Tail(t) /\ Tail(Coming) = t \o toMaster
      BY <1>6, <2>1, <2>2
    <2> HIDE DEF t
    <2>4. Tail(Coming) # <<>> /\ Head(Tail(Coming)) = d[1] /\ Coming' = Tail(Tail(Coming))
          /\ Tail(Coming) \in Seq(Frame)
      <3>1. /\ t \o toMaster \in Seq(Frame) /\ t \o toMaster # <<>>
            /\ Head(t \o toMaster) = Head(t) /\ Tail(t \o toMaster) = Tail(t) \o toMaster
        BY <1>3, <2>3, HeadOfConcat
      <3>2. Coming' = Tail(t) \o toMaster
        BY <1>2, <2>3
      <3> QED BY <2>3, <3>1, <3>2
    <2>5. FirstGone(d[1])
      <3>1. /\ Len(Coming) = 2 + Len(Coming') /\ Coming[2] = d[1] /\ Coming[1].k = "HEADER"
            /\ \A i \in 1..Len(Coming') : Coming'[i] = Coming[i + 2]
        BY <1>3, <1>6, <2>1, <2>4, FirstOfTwo
      <3> QED BY <3>1 DEF FirstGone
    <2>6. IFrames(Coming) = (IF d[1].k = "I" THEN 1 ELSE 0) + IFrames(Coming')
      <3>1. IFrames(Coming) = 0 + IFrames(Tail(Coming))
        <4>1. Head(Coming).k # "I"
          BY <1>6, <2>1
        <4>2. IFrames(Coming) = (IF Head(Coming).k = "I" THEN 1 ELSE 0) + IFrames(Tail(Coming))
          BY <1>3, <2>1, CountTail
        <4> QED BY <4>1, <4>2
      <3>2. IFrames(Tail(Coming)) = (IF d[1].k = "I" THEN 1 ELSE 0) + IFrames(Coming')
        BY <2>4, CountTail
      <3>3. IFrames(Tail(Coming)) \in Nat /\ IFrames(Coming') \in Nat
        <4>1. Coming' \in Seq(Frame)
          BY <2>4, HeadTailProperties
        <4> QED BY <2>4, <4>1, CountType
      <3> QED BY <3>1, <3>2, <3>3
    <2> QED BY <1>1, <1>6, <2>5, <2>6 DEF Decoded
  <1> QED BY <1>4, <1>5, <1>6, DecodableParts

\* Of the master thread: what moves frames, and what does not.
LEMMA ReadNothingStays ==
  ASSUME TypeOK, ReadNothing
  PROVE  Stays
  <1>1. Fetched' = Fetched
    <2>1. Fetched' = Fetched \o <<>>
      BY DEF ReadNothing, Fetched
    <2>2. Fetched \in Seq(Frame)
      BY BuffersFlow DEF TypeOK
    <2> QED BY <2>1, <2>2, ConcatEmptySeq
  <1>2. Coming' = Coming
    BY <1>1 DEF Coming, ReadNothing, KeepLink, wireVars
  <1>3. UNCHANGED <<counters, atStation, socket, Going>> /\ pc' = "send"
    BY DEF ReadNothing, KeepLink, wireVars, seqVars, peerVars, outerVars, counters, atStation, socket, Going
  <1> QED BY <1>2, <1>3 DEF Stays

LEMMA DecodeMoves ==
  ASSUME TypeOK, Connected, NEW d \in Decodable, pc = "read",
         DecodeSFrame(d[1], d[2]) \/ DecodeUFrame(d[1], d[2]) \/ DecodeIFrame(d[1], d[2])
  PROVE  Ends \/ \E f \in Frame : Takes(f)
  <1> USE DEF peerVars, outerVars, atStation
  <1>0. <<>> \in Seq(Frame) /\ d[1] \in Frame /\ d[2] \in Seq(Frame)
    BY DecodableType DEF TypeOK
  <1>1. UNCHANGED <<atStation, clean>>
    BY DEF DecodeSFrame, DecodeUFrame, DecodeIFrame
  <1>2. ASSUME Consume(d[2]), KeepLink, Decoded(d[1]) => Takes(d[1])
        PROVE  \E f \in Frame : Takes(f)
    <2>1. Fetched' = d[2] /\ toMaster' = toMaster
      <3>1. Fetched' = d[2] \o <<>> /\ toMaster' = toMaster
        BY <1>2 DEF Consume, KeepLink, Fetched, wireVars
      <3> QED BY <1>0, <3>1, ConcatEmptySeq
    <2>2. Decoded(d[1])
      BY <2>1, DecodedStep DEF TypeOK
    <2> QED BY <1>0, <1>2, <2>2
  <1>3. ASSUME net' = "down", running' = FALSE, pc' = "send" PROVE Ends
    <2>1. ~Reading'
      BY <1>3 DEF Reading
    <2> QED BY <1>1, <1>3, <2>1 DEF Ends
  <1>4. ASSUME AbortOnAck(d[1], d[2]), d[1].k \in {"S", "I"} PROVE Ends
    <2>1. /\ net' = "down" /\ running' = FALSE /\ pc' = "exit" /\ tested' = tested
          /\ UnackedOf(d[1].nr) > peerNoAckNum
      BY <1>4 DEF AbortOnAck, StopLink
    <2>2. ~Reading'
      BY <2>1 DEF Reading
    <2> QED BY <1>1, <1>4, <2>1, <2>2 DEF Ends
  <1>5. CASE DecodeSFrame(d[1], d[2])
    <2>1. CASE AbortOnAck(d[1], d[2])
      BY <1>4, <1>5, <2>1 DEF DecodeSFrame
    <2>2. CASE ~AbortOnAck(d[1], d[2])
      <3>1. /\ d[1].k = "S" /\ UnackedOf(d[1].nr) <= peerNoAckNum
            /\ peerNoAckNum' = UnackedOf(d[1].nr) /\ pc' = "send"
            /\ Consume(d[2]) /\ KeepLink
            /\ UNCHANGED <<NS, NR, tested, txBuf>>
        BY <1>5, <2>2 DEF DecodeSFrame
      <3>2. UNCHANGED <<socket, Going>>
        BY <1>1, <3>1 DEF KeepLink, wireVars, socket, Going
      <3>3. Decoded(d[1]) => Takes(d[1])
        BY <1>1, <3>1, <3>2 DEF Takes
      <3> QED BY <1>2, <3>1, <3>3
    <2> QED BY <2>1, <2>2
  <1>6. CASE DecodeUFrame(d[1], d[2])
    <2>1. CASE d[1].k = "STOPDT_CON"
      <3>1. ~clean
        <4> SUFFICES ASSUME clean PROVE FALSE
          OBVIOUS
        <4>1. Fetched \in Seq(Frame)
          BY BuffersFlow DEF TypeOK
        <4>2. Free(Fetched)
          <5>1. Free(rxdBuf) /\ Free(rxQueue)
            BY Zenon DEF Connected, NotStopped
          <5> QED BY <5>1, FreeType DEF Fetched, TypeOK, BuffersTyped
        <4>3. CASE d[1] = ZeroedFrame
          BY <2>1, <4>3 DEF ZeroedFrame, IFrame
        <4> HIDE DEF Fetched
        <4>4. CASE Fetched # <<>> /\ d[1] = Head(Fetched)
          BY <2>1, <4>1, <4>2, <4>4, FreeType
        <4>5. CASE Fetched # <<>> /\ Tail(Fetched) # <<>> /\ d[1] = Head(Tail(Fetched))
          <5>1. Tail(Fetched) \in Seq(Frame) /\ Free(Tail(Fetched))
            BY <4>1, <4>2, <4>5, FreeType, HeadTailProperties
          <5> QED BY <2>1, <4>5, <5>1, FreeType
        <4> QED BY <4>3, <4>4, <4>5, DecodableParts DEF TypeOK
      <3>2. pc' = "send"
        BY <1>6 DEF DecodeUFrame
      <3> QED BY <1>1, <3>1, <3>2 DEF Ends
    <2>2. CASE d[1].k # "STOPDT_CON"
      <3>1. /\ d[1].k \in UKinds /\ pc' = "send"
            /\ Consume(d[2]) /\ KeepLink
            /\ peerNoAckNum' = Confirmed(d[1])
            /\ txBuf' = IF d[1].k = "TESTFR_ACT" THEN Append(txBuf, UFrame("TESTFR_CON")) ELSE txBuf
            /\ UNCHANGED <<NS, NR, tested>>
        BY <1>6, <2>2 DEF DecodeUFrame
      <3>2. UNCHANGED <<socket, toPeer>>
        BY <1>1, <3>1 DEF KeepLink, wireVars, socket
      <3>3. Going' = IF d[1].k = "TESTFR_ACT" THEN Append(Going, UFrame("TESTFR_CON")) ELSE Going
        <4>1. UFrame("TESTFR_CON") \in Frame
          BY FrameType DEF UKinds
        <4>2. toPeer \o Append(txBuf, UFrame("TESTFR_CON")) = Append(toPeer \o txBuf, UFrame("TESTFR_CON"))
          BY <4>1, AppendBehind DEF TypeOK, BuffersTyped
        <4> QED BY <3>1, <3>2, <4>2 DEF Going
      <3>4. Decoded(d[1]) => Takes(d[1])
        BY <1>1, <2>2, <3>1, <3>2, <3>3 DEF Takes
      <3> QED BY <1>2, <3>1, <3>4
    <2> QED BY <2>1, <2>2
  <1>7. CASE DecodeIFrame(d[1], d[2])
    <2>1. CASE AbortOnAck(d[1], d[2])
      BY <1>4, <1>7, <2>1 DEF DecodeIFrame
    <2>2. CASE StopLink /\ pc' = "send"
      BY <1>3, <2>2 DEF StopLink
    <2>3. CASE /\ d[1].k = "I" /\ UnackedOf(d[1].nr) <= peerNoAckNum
               /\ peerNoAckNum' = UnackedOf(d[1].nr)
               /\ NR' = IF NR = SeqMax + 1 THEN 0 ELSE NR + 1
               /\ pc' = "send" /\ Consume(d[2]) /\ KeepLink
               /\ UNCHANGED <<NS, tested, txBuf>>
      <3>1. UNCHANGED <<socket, Going>>
        BY <1>1, <2>3 DEF KeepLink, wireVars, socket, Going
      <3>2. Decoded(d[1]) => Takes(d[1])
        BY <1>1, <2>3, <3>1 DEF Takes
      <3> QED BY <1>2, <2>3, <3>2
    <2> QED
      <3> HIDE DEF peerVars, outerVars, atStation
      <3> QED BY <1>7, <2>1, <2>2, <2>3 DEF DecodeIFrame
  <1> QED BY <1>5, <1>6, <1>7

\* The master puts a frame into the transmit buffer.
LEMMA PutBehind ==
  ASSUME TypeOK, NEW f \in Frame, txBuf' = Append(txBuf, f), KeepLink
  PROVE  Going' = Append(Going, f)
  <1>1. toPeer \o Append(txBuf, f) = Append(toPeer \o txBuf, f)
    BY AppendBehind DEF TypeOK, BuffersTyped
  <1> QED BY <1>1 DEF Going, KeepLink, wireVars

LEMMA ClockMoves ==
  ASSUME TypeOK, Connected, Clock
  PROVE  Move
  <1> USE DEF counters, atStation, socket
  <1>1. ASSUME rxdBuf' = rxdBuf, rxQueue' = rxQueue, KeepLink PROVE Coming' = Coming
    BY <1>1 DEF Coming, Fetched, KeepLink, wireVars
  <1>2. CASE NetTest
    <2>1. CASE running
      <3>1. UNCHANGED <<counters, atStation, socket, rxdBuf, rxQueue, Going>> /\ KeepLink /\ pc' = "read"
        BY <1>2, <2>1 DEF NetTest, KeepLink, seqVars, rxdVars, peerVars, outerVars, Going, wireVars
      <3>2. Reading
        BY <2>1, Zenon DEF Reading
      <3> QED BY <1>1, <3>1, <3>2 DEF Stays, Move
    <2>2. CASE ~running
      <3>1. UNCHANGED <<atStation, clean, net, running>> /\ pc' = "net"
        BY <1>2, <2>2 DEF NetTest, KeepLink, peerVars, outerVars
      <3>2. net' = "down"
        <4>1. net = "down"
          BY <2>2, Zenon DEF Connected, SocketKnown
        <4> QED BY <3>1, <4>1
      <3>3. ~Reading'
        <4>1. running' = running /\ pc' # "read"
          BY <3>1
        <4> QED BY <2>2, <4>1, Zenon DEF Reading
      <3> QED BY <3>1, <3>2, <3>3 DEF Ends, Move
    <2> QED BY <2>1, <2>2
  <1>3. CASE Read
    <2>1. CASE ReadNothing
      BY <2>1, ReadNothingStays DEF Move
    <2>2. CASE ~ReadNothing
      <3>1. PICK d \in Decodable :
              pc = "read" /\ (DecodeSFrame(d[1], d[2]) \/ DecodeUFrame(d[1], d[2]) \/ DecodeIFrame(d[1], d[2]))
        BY <1>3, <2>2 DEF Read
      <3>2. Ends \/ \E f \in Frame : Takes(f)
        BY <3>1, DecodeMoves
      <3> QED BY <3>2 DEF Move
    <2> QED BY <2>1, <2>2
  <1>4. CASE SendProcess
    <2>1. UNCHANGED <<atStation, socket, rxdBuf, rxQueue, toPeer, tested>> /\ KeepLink /\ pc = "send" /\ pc' = "timer"
      BY <1>4 DEF SendProcess, KeepLink, peerVars, outerVars, rxdVars, wireVars
    <2>2. CASE sendDateType = {}
      <3>1. UNCHANGED <<counters, Going>>
        BY <1>4, <2>1, <2>2 DEF SendProcess, seqVars, Going
      <3> QED BY <1>1, <2>1, <3>1 DEF Stays, Move
    <2>3. CASE sendDateType # {}
      <3>1. /\ txBuf' = Append(txBuf, IFrame(NS, WireNR, Requested))
            /\ UNCHANGED NR
            /\ peerNoAckNum' = peerNoAckNum + 1
            /\ NS' = IF NS + 1 > SeqMax THEN 0 ELSE NS + 1
        BY <1>4, <2>3 DEF SendProcess
      <3>2. IFrame(NS, WireNR, Requested) \in Frame
        BY FrameType, NumberType DEF TypeOK, NumbersTyped, Requested, Asdus, Requests
      <3>3. Going' = Append(Going, IFrame(NS, WireNR, Requested))
        BY <2>1, <3>1, <3>2, PutBehind
      <3> QED BY <1>1, <2>1, <2>3, <3>1, <3>3 DEF Sends, Move
    <2> QED BY <2>2, <2>3
  <1>5. ASSUME NEW f \in Frame, txBuf' = Append(txBuf, f), KeepLink,
               f \in {SFrame(WireNR), UFrame("STARTDT_ACT")},
               UNCHANGED <<NS, NR, peerNoAckNum, tested, peerVars, outerVars, rxdBuf, rxQueue>>,
               pc \notin {"read", "net"}, pc' \notin {"exit", "read"}
        PROVE  Move
    <2>1. UNCHANGED <<atStation, socket>>
      BY <1>5 DEF KeepLink, peerVars, outerVars
    <2>2. Coming' = Coming /\ Going' = Append(Going, f)
      BY <1>1, <1>5, PutBehind
    <2>3. Puts(f)
      BY <1>5, <2>1, <2>2 DEF Puts
    <2> QED BY <2>3 DEF Move
  <1>6. ASSUME KeepLink, UNCHANGED <<NS, NR, peerNoAckNum, tested, peerVars, outerVars, rxdBuf, rxQueue, txBuf>>,
               pc' \notin {"exit", "read"}
        PROVE  Move
    <2>1. UNCHANGED <<counters, atStation, socket, Going>>
      BY <1>6 DEF KeepLink, peerVars, outerVars, Going, wireVars
    <2> QED BY <1>1, <1>6, <2>1 DEF Stays, Move
  <1>7. CASE StartdtDue
    <2>1. UFrame("STARTDT_ACT") \in Frame
      BY FrameType DEF UKinds
    <2> QED BY <1>5, <1>7, <2>1 DEF StartdtDue, seqVars, rxdVars
  <1>8. CASE StartdtNotDue
    BY <1>6, <1>8 DEF StartdtNotDue, seqVars, rxdVars
  <1>9. CASE T1Expired
    <2>1. /\ pc' = "ack" /\ net' = "down" /\ running' = FALSE /\ UNCHANGED <<atStation, clean>>
      BY <1>9 DEF T1Expired, StopLink, peerVars, outerVars
    <2>2. ~Reading'
      BY <2>1 DEF Reading
    <2> QED BY <2>1, <2>2 DEF Ends, Move
  <1>10. CASE T1Running
    BY <1>6, <1>10 DEF T1Running, seqVars, rxdVars
  <1>11. CASE AckDue
    <2>1. SFrame(WireNR) \in Frame
      BY FrameType, NumberType DEF TypeOK
    <2> QED BY <1>5, <1>11, <2>1 DEF AckDue, rxdVars
  <1>12. CASE AckNotDue
    BY <1>6, <1>12 DEF AckNotDue, seqVars, rxdVars
  <1>13. CASE T3Expired
    <2>1. CASE UNCHANGED <<txBuf, peerNoAckNum, tested>>
      BY <1>6, <1>13, <2>1 DEF T3Expired, rxdVars
    <2>2. CASE txBuf' = Append(txBuf, UFrame("TESTFR_ACT")) /\ tested' = TRUE
      <3>1. UFrame("TESTFR_ACT") \in Frame
        BY FrameType DEF UKinds
      <3>2. /\ UNCHANGED <<NS, NR, atStation, socket, rxdBuf, rxQueue>> /\ KeepLink
            /\ pc \notin {"read", "net"} /\ pc' \notin {"exit", "read"}
        BY <1>13 DEF T3Expired, rxdVars, KeepLink, peerVars, outerVars
      <3>3. Coming' = Coming /\ Going' = Append(Going, UFrame("TESTFR_ACT"))
        BY <1>1, <2>2, <3>1, <3>2, PutBehind
      <3>4. Puts(UFrame("TESTFR_ACT"))
        BY <2>2, <3>2, <3>3 DEF Puts
      <3> QED BY <3>1, <3>4 DEF Move
    <2> QED BY <1>13, <2>1, <2>2 DEF T3Expired
  <1>14. CASE T3Running
    BY <1>6, <1>14 DEF T3Running, seqVars, rxdVars
  <1>15. CASE QueueRequests
    BY <1>6, <1>15 DEF QueueRequests, seqVars, rxdVars
  <1> QED
    BY <1>2, <1>3, <1>4, <1>7, <1>8, <1>9, <1>10, <1>11, <1>12, <1>13, <1>14, <1>15, Zenon
       DEF Clock, LinkOnTimer

LEMMA ClientMoves ==
  ASSUME TypeOK, Connected, Client
  PROVE  Move
  <1> USE DEF counters, atStation, socket
  <1>1. CASE ClientConnect
    <2>1. /\ UNCHANGED <<counters, pc, rxdBuf, txBuf, rxQueue>> /\ pc # "exit"
          /\ net' = "up" /\ pVS' = 0 /\ pVR' = 0 /\ pAcked' = 0
          /\ toPeer' = <<>> /\ toMaster' = <<>>
      BY <1>1 DEF ClientConnect, masterVars, seqVars, rxdVars
    <2>2. ~rejected' /\ ~pStarted'
      BY <1>1, Zenon DEF ClientConnect
    <2>3. ASSUME clean' PROVE noticed /\ Coming' = <<>> /\ Going' = <<>>
      <3>1. noticed /\ txBuf = <<>> /\ rxQueue = <<>>
        BY <1>1, <2>3, Zenon DEF ClientConnect
      <3>2. rxdBuf = <<>>
        BY <3>1, Zenon DEF Connected, FreshStart
      <3>3. Coming' = (<<>> \o <<>>) \o <<>> /\ Going' = <<>> \o <<>>
        BY <2>1, <3>1, <3>2 DEF Coming, Going, Fetched
      <3>4. (<<>> \o <<>>) \o <<>> = <<>> /\ <<>> \o <<>> = <<>>
        BY EmptySeq, ConcatEmptySeq
      <3> QED BY <3>1, <3>3, <3>4
    <2>4. Opens
      BY <2>1, <2>2, <2>3 DEF Opens
    <2> QED BY <2>4 DEF Move
  <1>2. CASE ClientRead
    <2>1. /\ toMaster # <<>> /\ rxQueue' = Append(rxQueue, Head(toMaster)) /\ toMaster' = Tail(toMaster)
          /\ UNCHANGED <<counters, atStation, socket, pc, rxdBuf, txBuf, toPeer>>
      BY <1>2 DEF ClientRead, masterVars, seqVars, rxdVars, peerVars, outerVars
    <2>2. Coming' = Coming
      <3> DEFINE h == Head(toMaster)
                 t == Tail(toMaster)
                 hs == <<h>>
      <3>1. rxdBuf \in Seq(Frame) /\ rxQueue \in Seq(Frame) /\ toMaster \in Seq(Frame) /\ Fetched \in Seq(Frame)
        BY BuffersFlow DEF TypeOK, BuffersTyped
      <3>2. h \in Frame /\ t \in Seq(Frame) /\ toMaster = hs \o t
        BY <2>1, <3>1, HeadFirst
      <3>3. Coming' = Fetched' \o t /\ Fetched' = rxdBuf \o Append(rxQueue, h)
        BY <2>1 DEF Coming, Fetched
      <3> HIDE DEF h, t
      <3>4. Fetched' = Append(Fetched, h)
        BY <3>1, <3>2, <3>3, AppendBehind DEF Fetched
      <3> HIDE DEF Fetched
      <3>5. Append(Fetched, h) = Fetched \o hs /\ hs \in Seq(Frame)
        BY <3>1, <3>2, AppendIsConcat
      <3> HIDE DEF hs
      <3>6. (Fetched \o hs) \o t = Fetched \o (hs \o t)
        <4> DEFINE f == Fetched
        <4>1. f \in Seq(Frame) /\ hs \in Seq(Frame) /\ t \in Seq(Frame)
          BY <3>1, <3>2, <3>5
        <4> HIDE DEF f
        <4>2. (f \o hs) \o t = f \o (hs \o t)
          BY <4>1, ConcatAssociative
        <4> QED BY <4>2 DEF f
      <3>7. Coming' = Fetched \o toMaster
        BY <3>2, <3>3, <3>4, <3>5, <3>6
      <3> QED BY <3>7 DEF Coming
    <2> QED BY <2>1, <2>2 DEF Stays, Move, Going, Reading
  <1>3. CASE ClientWrite
    <2>1. /\ toPeer' = (IF net = "up" THEN toPeer \o txBuf ELSE toPeer) /\ txBuf' = <<>>
          /\ UNCHANGED <<counters, atStation, socket, pc, rxdBuf, rxQueue, toMaster>>
      BY <1>3 DEF ClientWrite, masterVars, seqVars, rxdVars, peerVars, outerVars
    <2>2. net = "up" => Going' = Going
      <3>1. Going \in Seq(Frame)
        BY BuffersFlow DEF TypeOK
      <3>2. net = "up" => Going' = Going \o <<>>
        BY <2>1 DEF Going
      <3> QED BY <3>1, <3>2, ConcatEmptySeq
    <2>3. Coming' = Coming
      BY <2>1 DEF Coming, Fetched
    <2> QED BY <2>1, <2>2, <2>3 DEF Stays, Move, Reading
  <1>4. CASE ClientLost
    <2>1. /\ net' = "down" /\ running' = FALSE /\ toMaster' = <<>>
          /\ UNCHANGED <<counters, clean, pVR, pc, rxdBuf, rxQueue>>
      BY <1>4 DEF ClientLost, StopLink, masterVars, seqVars, rxdVars, peerVars, outerVars
    <2>2. Coming' = Fetched
      <3>1. Coming' = Fetched \o <<>>
        BY <2>1 DEF Coming, Fetched
      <3> QED BY <3>1, BuffersFlow, ConcatEmptySeq DEF TypeOK
    <2>3. Reading' => Reading
      BY <2>1 DEF Reading
    <2> QED BY <2>1, <2>2, <2>3 DEF Breaks, Move
  <1> QED BY <1>1, <1>2, <1>3, <1>4 DEF Client

LEMMA EnvironmentMoves ==
  ASSUME TypeOK, Connected, Environment
  PROVE  Move
  <1> USE DEF counters, atStation, socket
  <1>0. UNCHANGED <<counters, pc, running, rxdBuf, rxQueue, txBuf>>
    BY DEF Environment, PeerReceive, PeerReject, PeerSendI, PeerSendS, PeerSendU, ConnectionBreaks,
           PeerKeep, masterVars, seqVars, rxdVars
  <1>1. Coming \in Seq(Frame) /\ Going \in Seq(Frame) /\ Fetched' = Fetched
    BY <1>0, BuffersFlow DEF TypeOK, Fetched
  \* The station's answers go behind what is coming.
  <1>2. ASSUME NEW f \in Frame, toMaster' = Append(toMaster, f) PROVE Coming' = Append(Coming, f)
    <2>1. Fetched \in Seq(Frame) /\ toMaster \in Seq(Frame)
      BY BuffersFlow DEF TypeOK, BuffersTyped
    <2> HIDE DEF Fetched
    <2>2. Fetched \o Append(toMaster, f) = Append(Fetched \o toMaster, f)
      BY <2>1, AppendBehind
    <2> QED BY <1>1, <1>2, <2>2 DEF Coming
  <1>3. toMaster' = toMaster => Coming' = Coming
    BY <1>1 DEF Coming
  <1>4. CASE PeerReceive
    <2>1. net = "up" /\ toPeer # <<>> /\ toPeer' = Tail(toPeer) /\ UNCHANGED <<socket, rejected, pVS>>
      BY <1>4 DEF PeerReceive, PeerKeep, outerVars
    <2>2. Going # <<>> /\ Head(toPeer) = Head(Going) /\ Going' = Tail(Going) /\ Head(toPeer) \in Frame
      BY <1>0, <2>1, HeadOfConcat, HeadTailProperties DEF Going, TypeOK, BuffersTyped
    <2> DEFINE f == Head(toPeer)
    <2>3. \/ /\ f.k = "STARTDT_ACT" /\ pStarted' = TRUE /\ toMaster' = Append(toMaster, UFrame("STARTDT_CON"))
             /\ UNCHANGED <<pVR, pAcked>>
          \/ /\ f.k = "TESTFR_ACT" /\ toMaster' = Append(toMaster, UFrame("TESTFR_CON"))
             /\ UNCHANGED <<pStarted, pVR, pAcked>>
          \/ f.k = "TESTFR_CON" /\ UNCHANGED <<toMaster, pStarted, pVR, pAcked>>
          \/ f.k = "S" /\ ValidAck(f.nr) /\ pAcked' = f.nr /\ UNCHANGED <<toMaster, pStarted, pVR>>
          \/ /\ f.k = "I" /\ ValidAck(f.nr) /\ pStarted /\ f.ns = pVR
             /\ pAcked' = f.nr /\ pVR' = Next1(pVR) /\ UNCHANGED <<toMaster, pStarted>>
      BY <1>4, Zenon DEF PeerReceive, PeerReply
    <2>4. UFrame("STARTDT_CON") \in Frame /\ UFrame("TESTFR_CON") \in Frame
      BY FrameType DEF UKinds
    <2>5. f \in Frame /\ f = Head(Going) /\ Going' = Tail(Going) /\ Going # <<>>
      BY <2>2
    <2> HIDE DEF f
    <2>6. UNCHANGED <<counters, socket, pc, rejected, pVS>>
      BY <1>0, <2>1
    <2>7. StationTakes(f)
      <3>1. CASE f.k = "STARTDT_ACT" /\ pStarted' = TRUE /\ toMaster' = Append(toMaster, UFrame("STARTDT_CON"))
                 /\ UNCHANGED <<pVR, pAcked>>
        BY <1>2, <2>1, <2>4, <2>5, <2>6, <3>1 DEF StationTakes
      <3>2. CASE f.k = "TESTFR_ACT" /\ toMaster' = Append(toMaster, UFrame("TESTFR_CON"))
                 /\ UNCHANGED <<pStarted, pVR, pAcked>>
        BY <1>2, <2>1, <2>4, <2>5, <2>6, <3>2 DEF StationTakes
      <3>3. CASE f.k = "TESTFR_CON" /\ UNCHANGED <<toMaster, pStarted, pVR, pAcked>>
        BY <1>3, <2>1, <2>5, <2>6, <3>3 DEF StationTakes
      <3>4. CASE f.k = "S" /\ ValidAck(f.nr) /\ pAcked' = f.nr /\ UNCHANGED <<toMaster, pStarted, pVR>>
        BY <1>3, <2>1, <2>5, <2>6, <3>4 DEF StationTakes
      <3>5. CASE f.k = "I" /\ ValidAck(f.nr) /\ pStarted /\ f.ns = pVR
                 /\ pAcked' = f.nr /\ pVR' = Next1(pVR) /\ UNCHANGED <<toMaster, pStarted>>
        BY <1>3, <2>1, <2>5, <2>6, <3>5 DEF StationTakes
      <3> QED BY <2>3, <3>1, <3>2, <3>3, <3>4, <3>5
    <2> QED BY <2>5, <2>7 DEF Move
  <1>5. CASE PeerReject \/ ConnectionBreaks
    <2>1. net' = "broken" /\ UNCHANGED <<clean, pVR, toMaster>>
      BY <1>5 DEF PeerReject, ConnectionBreaks, PeerKeep, outerVars, peerVars
    <2>2. Reading' => Reading
      BY <1>0 DEF Reading
    <2> QED BY <1>0, <1>3, <2>1, <2>2 DEF Breaks, Move
  <1>6. ASSUME NEW f \in Frame, net = "up", clean' => clean /\ pStarted' = pStarted,
               UNCHANGED <<net, toPeer, rejected, pVR, pAcked, pVS>>,
               f \in {SFrame(pVR), UFrame("TESTFR_ACT"), UFrame("STOPDT_CON")},
               toMaster' = Append(toMaster, f)
        PROVE  Move
    <2>1. Coming' = Append(Coming, f)
      BY <1>2, <1>6
    <2>2. StationSends(f)
      BY <1>0, <1>6, <2>1 DEF StationSends, Going
    <2> QED BY <2>2 DEF Move
  <1>7. CASE PeerSendI
    <2>1. PICK a \in {"data"} \cup (PeerMay \cap {"icEnd", "reset"}) :
             toMaster' = toMaster \o (IF SplitReads THEN <<HeaderToken>> ELSE <<>>)
                                  \o <<IFrame(pVS, pVR, a)>>
      BY <1>7 DEF PeerSendI
    <2> DEFINE f == IFrame(pVS, pVR, a)
    <2>2. f \in Frame /\ HeaderToken \in Frame
      BY <2>1, FrameType DEF Asdus, Requests, TypeOK, NumbersTyped
    <2>3. f.k = "I" /\ f.nr = pVR
      BY DEF IFrame
    <2>4. toMaster' = toMaster \o (IF SplitReads THEN <<HeaderToken>> ELSE <<>>) \o <<f>>
      BY <2>1
    <2> HIDE DEF f
    <2>5. toMaster \in Seq(Frame) /\ Fetched \in Seq(Frame)
      BY BuffersFlow DEF TypeOK, BuffersTyped
    <2>6. ASSUME SplitReads PROVE Coming' = Append(Append(Coming, HeaderToken), f)
      <3>1. toMaster \o <<HeaderToken>> = Append(toMaster, HeaderToken)
            /\ Append(toMaster, HeaderToken) \in Seq(Frame)
        BY <2>2, <2>5, AppendIsConcat, AppendProperties
      <3>2. toMaster' = Append(Append(toMaster, HeaderToken), f)
        BY <2>2, <2>4, <2>6, <3>1, AppendIsConcat
      <3> HIDE DEF Fetched
      <3>3. Fetched \o Append(Append(toMaster, HeaderToken), f) = Append(Fetched \o Append(toMaster, HeaderToken), f)
        BY <2>2, <2>5, <3>1, AppendBehind
      <3>4. Fetched \o Append(toMaster, HeaderToken) = Append(Fetched \o toMaster, HeaderToken)
        BY <2>2, <2>5, AppendBehind
      <3>5. Coming' = Fetched \o toMaster'
        BY <1>1 DEF Coming
      <3> QED BY <3>2, <3>3, <3>4, <3>5 DEF Coming
    <2>7. ASSUME ~SplitReads PROVE Coming' = Append(Coming, f)
      <3>1. toMaster' = (toMaster \o <<>>) \o <<f>>
        BY <2>4, <2>7
      <3>2. toMaster' = Append(toMaster, f)
        BY <2>2, <2>5, <3>1, ConcatEmptySeq, AppendIsConcat
      <3> QED BY <1>2, <2>2, <3>2
    <2>8. Coming' \in {Append(Coming, f), Append(Append(Coming, HeaderToken), f)}
      BY <2>6, <2>7
    <2>9. /\ net = "up" /\ pVS' = Next1(pVS) /\ clean' = clean
          /\ UNCHANGED <<net, toPeer, pStarted, pVR, pAcked, rejected>>
      BY <1>7 DEF PeerSendI, PeerKeep, outerVars
    <2>10. StationSends(f)
      BY <1>0, <2>3, <2>8, <2>9 DEF StationSends, Going
    <2> QED BY <2>2, <2>10 DEF Move
  <1>8. CASE PeerSendS
    <2>1. SFrame(pVR) \in Frame
      BY FrameType DEF TypeOK, NumbersTyped
    <2> QED BY <1>6, <1>8, <2>1 DEF PeerSendS, PeerReply, PeerKeep, outerVars
  <1>9. CASE PeerSendU
    <2>1. UFrame("TESTFR_ACT") \in Frame /\ UFrame("STOPDT_CON") \in Frame
      BY FrameType DEF UKinds
    <2>2. /\ net = "up" /\ UNCHANGED <<net, toPeer, rejected, pVR, pAcked, pVS>>
          /\ \/ toMaster' = Append(toMaster, UFrame("TESTFR_ACT")) /\ UNCHANGED <<pStarted, clean>>
             \/ toMaster' = Append(toMaster, UFrame("STOPDT_CON")) /\ clean' = FALSE
      BY <1>9 DEF PeerSendU, PeerReply
    <2> QED BY <1>6, <2>1, <2>2
  <1> QED BY <1>4, <1>5, <1>7, <1>8, <1>9, Zenon DEF Environment

LEMMA MoveStep ==
  ASSUME TypeOK, Connected, [Next]_vars
  PROVE  Move
  <1>1. CASE OtherLoad \/ OtherStore \/ UNCHANGED vars
    <2>1. /\ UNCHANGED <<counters, atStation, socket, pc, rxdBuf, rxQueue, toMaster, toPeer, txBuf>>
      BY <1>1 DEF OtherLoad, OtherStore, KeepLink, wireVars, vars, masterVars, seqVars, rxdVars, peerVars, outerVars,
                  counters, atStation, socket
    <2>2. UNCHANGED <<Coming, Going>>
      BY <2>1 DEF Coming, Going, Fetched
    <2> QED BY <2>1, <2>2 DEF Stays, Move, Reading
  <1> QED BY <1>1, ClockMoves, ClientMoves, EnvironmentMoves DEF Next, Exited

-----------------------------------------------------------------------------
(* The sequence numbers of the two sides.                                  *)

Numbers == SeqMax + 1

LEMMA NextNumber ==
  ASSUME NEW n \in 0..SeqMax
  PROVE  (n + 1) % Numbers = IF n + 1 > SeqMax THEN 0 ELSE n + 1
  <1> USE ConstantsAssumption DEF Numbers
  <1>1. CASE n + 1 > SeqMax
    <2>1. n + 1 = Numbers * 1 + 0 /\ 0 \in 0..(Numbers - 1)
      BY <1>1
    <2>2. (n + 1) % Numbers = 0
      <3> HIDE DEF Numbers
      <3>1. Numbers \in Nat \ {0}
        BY DEF Numbers
      <3> QED BY <2>1, <3>1, RestIsUnique
    <2> QED BY <1>1, <2>2
  <1>2. CASE n + 1 <= SeqMax
    <2>1. n + 1 \in 0..(Numbers - 1) /\ Numbers \in Nat \ {0}
      BY <1>2
    <2>2. (n + 1) % Numbers = n + 1
      BY <2>1, RestOfSmall DEF Numbers
    <2> QED BY <1>2, <2>2
  <1> QED BY <1>1, <1>2

LEMMA NextIs ==
  ASSUME NEW n \in 0..SeqMax, n < SeqMax
  PROVE  Next1(n) = n + 1
  <1>1. Next1(n) = IF n + 1 > SeqMax THEN 0 ELSE n + 1
    BY NextNumber DEF Next1, Numbers
  <1> HIDE DEF Next1
  <1> QED BY <1>1, ConstantsAssumption

\* Counting on from a remainder.
LEMMA CountOn ==
  ASSUME NEW a \in Int, NEW b \in Int
  PROVE  /\ ((a % Numbers) + b) % Numbers = (a + b) % Numbers
         /\ a % Numbers \in 0..SeqMax
  <1>1. Numbers \in Nat \ {0}
    BY ConstantsAssumption DEF Numbers
  <1>2. Numbers - 1 = SeqMax
    BY ConstantsAssumption DEF Numbers
  <1> HIDE DEF Numbers
  <1> QED BY <1>1, <1>2, RestOfSum, ModRange

LEMMA CountFlow ==
  ASSUME BuffersTyped
  PROVE  /\ IFrames(Coming) = IFrames(toMaster) + IFrames(Fetched) /\ IFrames(Coming) \in Nat
         /\ IFrames(Going) = IFrames(toPeer) + IFrames(txBuf) /\ IFrames(Going) \in Nat
         /\ \A f \in Frame : /\ IFrames(Append(Coming, f)) = IFrames(Coming) + (IF f.k = "I" THEN 1 ELSE 0)
                             /\ IFrames(Append(Going, f)) = IFrames(Going) + (IF f.k = "I" THEN 1 ELSE 0)
         /\ Going # <<>> =>
              /\ IFrames(Going) = (IF Head(Going).k = "I" THEN 1 ELSE 0) + IFrames(Tail(Going))
              /\ IFrames(Tail(Going)) \in Nat
  <1>1. /\ Fetched \in Seq(Frame) /\ Coming \in Seq(Frame) /\ Going \in Seq(Frame)
        /\ toMaster \in Seq(Frame) /\ toPeer \in Seq(Frame) /\ txBuf \in Seq(Frame)
    BY BuffersFlow DEF BuffersTyped
  <1>2. IFrames(Fetched \o toMaster) = IFrames(Fetched) + IFrames(toMaster)
    <2> HIDE DEF Fetched
    <2> QED BY <1>1, CountConcat
  <1>3. IFrames(toPeer \o txBuf) = IFrames(toPeer) + IFrames(txBuf)
    BY <1>1, CountConcat
  <1>4. /\ IFrames(Fetched) \in Nat /\ IFrames(toMaster) \in Nat
        /\ IFrames(Coming) \in Nat /\ IFrames(Going) \in Nat
    BY <1>1, CountType
  <1>5. /\ IFrames(Coming) = IFrames(toMaster) + IFrames(Fetched)
        /\ IFrames(Going) = IFrames(toPeer) + IFrames(txBuf)
    BY <1>2, <1>3, <1>4 DEF Coming, Going
  <1> HIDE DEF Coming, Going, Fetched
  <1>6. ASSUME NEW f \in Frame
        PROVE  /\ IFrames(Append(Coming, f)) = IFrames(Coming) + (IF f.k = "I" THEN 1 ELSE 0)
               /\ IFrames(Append(Going, f)) = IFrames(Going) + (IF f.k = "I" THEN 1 ELSE 0)
    BY <1>1, CountAppend
  <1>7. ASSUME Going # <<>>
        PROVE  /\ IFrames(Going) = (IF Head(Going).k = "I" THEN 1 ELSE 0) + IFrames(Tail(Going))
               /\ IFrames(Tail(Going)) \in Nat
    <2>1. Tail(Going) \in Seq(Frame)
      BY <1>1, <1>7, HeadTailProperties
    <2> QED BY <1>1, <1>7, <2>1, CountTail, CountType
  <1> QED BY <1>4, <1>5, <1>6, <1>7

\* SentExactly, with what is on its way in one piece.
SentInStep == OnCleanLink => NS = (pVR + IFrames(Going)) % Numbers

LEMMA SentStep ==
  ASSUME TypeOK, Connected, SentInStep, [Next]_vars
  PROVE  SentInStep'
  <1> SUFFICES ASSUME OnCleanLink' PROVE NS' = (pVR' + IFrames(Going')) % Numbers
    BY DEF SentInStep, Numbers
  <1> DEFINE g == IFrames(Going)
  <1>0. g \in Nat /\ NS \in 0..SeqMax /\ pVR \in 0..SeqMax
    BY CountFlow DEF TypeOK, NumbersTyped
  <1>1. Move
    BY MoveStep
  <1> USE DEF counters, atStation, socket
  <1>2. ASSUME UNCHANGED <<NS, pVR, clean, net, Going>> PROVE NS' = (pVR' + IFrames(Going')) % Numbers
    BY <1>2 DEF SentInStep, OnCleanLink
  <1>3. CASE Stays
    <2>1. net = "up"
      BY <1>3 DEF Stays, OnCleanLink
    <2> QED BY <1>2, <1>3, <2>1 DEF Stays
  <1>4. CASE Ends \/ Breaks
    BY <1>4 DEF Ends, Breaks, OnCleanLink
  <1>5. CASE Opens
    <2>1. noticed /\ Going' = <<>> /\ pVR' = 0 /\ NS' = NS
      BY <1>5, Zenon DEF Opens, OnCleanLink
    <2>2. NS = 0
      BY <2>1, Zenon DEF Connected, FreshStart
    <2>3. (0 + 0) % Numbers = 0
      BY RestOfSmall, ConstantsAssumption DEF Numbers
    <2>4. IFrames(Going') = 0
      BY <2>1, CountEmpty
    <2> QED BY <2>1, <2>2, <2>3, <2>4
  <1>6. CASE Sends
    <2>1. IFrame(NS, WireNR, Requested) \in Frame
      BY FrameType, NumberType DEF TypeOK, NumbersTyped, Requested, Asdus, Requests
    <2>2. IFrame(NS, WireNR, Requested).k = "I"
      BY DEF IFrame
    <2>3. IFrames(Going') = g + 1
      BY <1>6, <2>1, <2>2, CountFlow DEF Sends, TypeOK
    <2>4. NS = (pVR + g) % Numbers
      BY <1>6 DEF Sends, SentInStep, OnCleanLink
    <2>5. NS' = (NS + 1) % Numbers /\ pVR' = pVR
      BY <1>0, <1>6, NextNumber DEF Sends
    <2> HIDE DEF g
    <2>6. (((pVR + g) % Numbers) + 1) % Numbers = ((pVR + g) + 1) % Numbers
      BY <1>0, CountOn
    <2>7. (pVR + g) + 1 = pVR' + IFrames(Going')
      BY <1>0, <2>3, <2>5
    <2> QED BY <2>4, <2>5, <2>6, <2>7
  <1>7. ASSUME NEW f \in Frame, Puts(f) PROVE NS' = (pVR' + IFrames(Going')) % Numbers
    <2>1. f.k # "I"
      BY <1>7 DEF Puts, SFrame, UFrame
    <2>2. IFrames(Going') = g
      BY <1>0, <1>7, <2>1, CountFlow DEF Puts, TypeOK
    <2> QED BY <1>7, <2>2 DEF Puts, SentInStep, OnCleanLink
  <1>8. ASSUME NEW f \in Frame, Takes(f) PROVE NS' = (pVR' + IFrames(Going')) % Numbers
    <2>1. UFrame("TESTFR_CON") \in Frame /\ UFrame("TESTFR_CON").k # "I"
      <3>1. UFrame("TESTFR_CON") \in Frame
        BY FrameType DEF UKinds
      <3> QED BY <3>1 DEF UFrame
    <2>2. Going' \in {Going, Append(Going, UFrame("TESTFR_CON"))}
      BY <1>8 DEF Takes
    <2>3. IFrames(Append(Going, UFrame("TESTFR_CON"))) = g
      <3> DEFINE y == UFrame("TESTFR_CON")
      <3>1. y \in Frame /\ y.k # "I"
        BY <2>1
      <3> HIDE DEF y
      <3>2. IFrames(Append(Going, y)) = g + 0
        BY <3>1, CountFlow DEF TypeOK
      <3> QED BY <1>0, <3>2 DEF y
    <2>4. IFrames(Going') = g
      BY <2>2, <2>3
    <2> QED BY <1>8, <2>4 DEF Takes, SentInStep, OnCleanLink
  <1>9. ASSUME NEW f \in Frame, StationTakes(f) PROVE NS' = (pVR' + IFrames(Going')) % Numbers
    <2>1. /\ Going # <<>> /\ f = Head(Going) /\ Going' = Tail(Going) /\ NS' = NS
          /\ UNCHANGED <<clean, net>>
      BY <1>9 DEF StationTakes
    <2>2. NS = (pVR + g) % Numbers
      BY <2>1 DEF SentInStep, OnCleanLink
    <2> DEFINE h == IFrames(Going')
    <2>3. g = (IF f.k = "I" THEN 1 ELSE 0) + h /\ h \in Nat
      BY <2>1, CountFlow DEF TypeOK
    <2>4. CASE f.k = "I"
      <3>1. pVR' = (pVR + 1) % Numbers
        BY <1>9, <2>4 DEF StationTakes, Next1, Numbers
      <3> HIDE DEF g, h
      <3>2. (((pVR + 1) % Numbers) + h) % Numbers = ((pVR + 1) + h) % Numbers
        BY <1>0, <2>3, CountOn
      <3>3. (pVR + 1) + h = pVR + g
        BY <1>0, <2>3, <2>4
      <3>4. NS' = (pVR' + h) % Numbers
        BY <2>1, <2>2, <3>1, <3>2, <3>3
      <3> QED BY <3>4 DEF h
    <2>5. CASE f.k # "I"
      <3>1. pVR' = pVR
        BY <1>9, <2>5 DEF StationTakes
      <3> QED BY <2>1, <2>2, <2>3, <2>5, <3>1
    <2> QED BY <2>4, <2>5
  <1>10. ASSUME NEW f \in Frame, StationSends(f) PROVE NS' = (pVR' + IFrames(Going')) % Numbers
    <2>1. clean /\ UNCHANGED <<NS, pVR, net, Going>>
      <3>1. clean'
        BY Zenon DEF OnCleanLink
      <3>2. clean
        BY <1>10, <3>1, Zenon DEF StationSends
      <3> QED BY <1>10, <3>2 DEF StationSends
    <2> QED BY <1>2, <2>1 DEF SentInStep, OnCleanLink
  <1> QED BY <1>1, <1>3, <1>4, <1>5, <1>6, <1>7, <1>8, <1>9, <1>10 DEF Move

\* On a connection begun clean NS is the number of I frames the station has
\* taken and of those on their way to it, modulo SeqMax + 1: no reset of the
\* link (StopDTOper, a STOPDT that nobody sent apart) forgets or repeats one.
THEOREM LinkSendsExactly == Spec => []SentExactly
  <1>1. Init => SentInStep
    BY Zenon DEF Init, SentInStep, OnCleanLink
  <1>2. TypeOK /\ Connected /\ SentInStep /\ [Next]_vars => SentInStep'
    BY SentStep
  <1>3. TypeOK /\ SentInStep => SentExactly
    <2> SUFFICES ASSUME TypeOK, SentInStep, OnCleanLink
                 PROVE  NS = (pVR + IFrames(toPeer) + IFrames(txBuf)) % (SeqMax + 1)
      BY DEF SentExactly
    <2>1. IFrames(Going) = IFrames(toPeer) + IFrames(txBuf)
      BY CountFlow DEF TypeOK
    <2>2. IFrames(toPeer) \in Nat /\ IFrames(txBuf) \in Nat
      BY CountType DEF TypeOK, BuffersTyped
    <2>3. pVR + IFrames(Going) = pVR + IFrames(toPeer) + IFrames(txBuf)
      BY <2>1, <2>2 DEF TypeOK, NumbersTyped
    <2> QED BY <2>3 DEF SentInStep, Numbers
  <1> QED BY <1>1, <1>2, <1>3, TypeCorrect, ConnectedAlways, PTL DEF Spec

\* ReceivedExactly, with what is on its way in one piece.
RecvInStep == OnCleanLink => pVS = (NR + IFrames(Coming)) % Numbers

\* No header was cut off by the reset before the connection began: the code
\* keeps RxdStatus when it zeroes RxdBuf (cs104MasterApp.c:239), and would
\* count the zeros as a frame.
HeadersWhole == OnCleanLink => rxdStatus # "void"

\* NR has not yet been incremented to 32768 (cs104MasterApp.c:554).
NotWrapped == OnCleanLink => NR <= SeqMax

\* What the master has counted and what is on its way to it grow only when
\* the station sends.
LEMMA RecvFlow ==
  ASSUME TypeOK, Connected, HeadersWhole, NotWrapped, OnCleanLink', [Next]_vars
  PROVE  \/ pVS' = 0 /\ NR' + IFrames(Coming') = 0
         \/ OnCleanLink /\ pVS' = pVS /\ NR' + IFrames(Coming') = NR + IFrames(Coming)
         \/ OnCleanLink /\ pVS' = Next1(pVS) /\ NR' + IFrames(Coming') = NR + IFrames(Coming) + 1
  <1> DEFINE g == IFrames(Coming)
  <1>0. g \in Nat /\ NR \in Nat /\ pVS \in 0..SeqMax /\ Coming \in Seq(Frame)
    BY ConstantsAssumption, CountFlow, BuffersFlow DEF TypeOK, NumbersTyped
  <1>1. Move
    BY MoveStep
  <1> USE DEF counters, atStation, socket
  <1>2. ASSUME UNCHANGED <<pVS, NR, clean, net, Coming>>
        PROVE  OnCleanLink /\ pVS' = pVS /\ NR' + IFrames(Coming') = NR + IFrames(Coming)
    BY <1>2 DEF OnCleanLink
  <1>3. CASE Stays
    BY <1>2, <1>3 DEF Stays
  <1>4. CASE Ends \/ Breaks
    BY <1>4 DEF Ends, Breaks, OnCleanLink
  <1>5. CASE Opens
    <2>1. noticed /\ Coming' = <<>> /\ pVS' = 0 /\ NR' = NR
      BY <1>5, Zenon DEF Opens, OnCleanLink
    <2>2. NR = 0
      BY <2>1, Zenon DEF Connected, FreshStart
    <2>3. IFrames(Coming') = 0
      BY <2>1, CountEmpty
    <2> QED BY <2>1, <2>2, <2>3
  <1>6. CASE Sends
    BY <1>2, <1>6 DEF Sends
  <1>7. ASSUME NEW f \in Frame, Puts(f)
        PROVE  OnCleanLink /\ pVS' = pVS /\ NR' + IFrames(Coming') = NR + g
    BY <1>2, <1>7 DEF Puts
  <1>8. ASSUME NEW f \in Frame, Takes(f)
        PROVE  OnCleanLink /\ pVS' = pVS /\ NR' + IFrames(Coming') = NR + g
    <2>1. OnCleanLink /\ UNCHANGED <<pVS, clean, net>>
      BY <1>8 DEF Takes, OnCleanLink
    <2> DEFINE h == IFrames(Coming')
    <2>3. Decoded(f) /\ rxdStatus # "void" /\ NR <= SeqMax
      BY <1>8, <2>1 DEF Takes, HeadersWhole, NotWrapped
    <2>4. g = (IF f.k = "I" THEN 1 ELSE 0) + h
      BY <2>3 DEF Decoded
    <2>5. h \in Nat
      <3>1. BuffersTyped'
        BY BuffersStep DEF TypeOK
      <3>2. Fetched' \in Seq(Frame)
        BY <3>1, ConcatProperties DEF Fetched, BuffersTyped
      <3>3. Coming' \in Seq(Frame)
        BY <3>1, <3>2, ConcatProperties DEF Coming, BuffersTyped
      <3> QED BY <3>3, CountType
    <2>6. NR' = NR + (IF f.k = "I" THEN 1 ELSE 0)
      <3>1. CASE f.k = "I"
        BY <1>0, <1>8, <2>3, <3>1, ConstantsAssumption DEF Takes, UKinds
      <3>2. CASE f.k # "I"
        BY <1>0, <1>8, <3>2 DEF Takes, UKinds
      <3> QED BY <3>1, <3>2
    <2> HIDE DEF g, h
    <2>7. NR + g = NR' + h
      BY <1>0, <2>4, <2>5, <2>6
    <2> QED BY <2>1, <2>7 DEF h
  <1>9. ASSUME NEW f \in Frame, StationTakes(f)
        PROVE  OnCleanLink /\ pVS' = pVS /\ NR' + IFrames(Coming') = NR + g
    <2>1. OnCleanLink /\ UNCHANGED <<pVS, NR, clean, net>>
      BY <1>9 DEF StationTakes, OnCleanLink
    <2>2. \/ Coming' = Coming
          \/ Coming' = Append(Coming, UFrame("STARTDT_CON"))
          \/ Coming' = Append(Coming, UFrame("TESTFR_CON"))
      BY <1>9 DEF StationTakes
    <2>3. ASSUME NEW y \in Frame, y.k # "I" PROVE IFrames(Append(Coming, y)) = g
      <3>1. IFrames(Append(Coming, y)) = g + 0
        BY <2>3, CountFlow DEF TypeOK
      <3> QED BY <1>0, <3>1
    <2>4. /\ UFrame("STARTDT_CON") \in Frame /\ UFrame("STARTDT_CON").k # "I"
          /\ UFrame("TESTFR_CON") \in Frame /\ UFrame("TESTFR_CON").k # "I"
      <3>1. UFrame("STARTDT_CON") \in Frame /\ UFrame("TESTFR_CON") \in Frame
        BY FrameType DEF UKinds
      <3> QED BY <3>1 DEF UFrame
    <2>5. IFrames(Coming') = g
      <3>1. /\ IFrames(Append(Coming, UFrame("STARTDT_CON"))) = g
            /\ IFrames(Append(Coming, UFrame("TESTFR_CON"))) = g
        <4> HIDE DEF g
        <4> QED BY <2>3, <2>4
      <3> QED BY <2>2, <3>1
    <2> QED BY <2>1, <2>5
  <1>10. ASSUME NEW f \in Frame, StationSends(f)
         PROVE  /\ OnCleanLink
                /\ \/ pVS' = pVS /\ NR' + IFrames(Coming') = NR + g
                   \/ pVS' = Next1(pVS) /\ NR' + IFrames(Coming') = NR + g + 1
    <2>1. clean /\ OnCleanLink /\ UNCHANGED <<NR, net>>
      <3>1. clean' /\ net' = "up"
        BY Zenon DEF OnCleanLink
      <3>2. clean
        BY <1>10, <3>1, Zenon DEF StationSends
      <3> QED BY <1>10, <3>1, <3>2 DEF StationSends, OnCleanLink
    <2>3. ASSUME NEW y \in Frame PROVE IFrames(Append(Coming, y)) = g + (IF y.k = "I" THEN 1 ELSE 0)
      BY CountFlow DEF TypeOK
    <2>4. CASE f.k = "I"
      <3>1. pVS' = Next1(pVS) /\ Coming' \in {Append(Coming, f), Append(Append(Coming, HeaderToken), f)}
        BY <1>10, <2>4 DEF StationSends, SFrame, UFrame
      <3>2. IFrames(Coming') = g + 1
        <4> DEFINE c == Append(Coming, HeaderToken)
        <4>1. HeaderToken \in Frame /\ HeaderToken.k # "I"
          <5>1. HeaderToken \in Frame
            BY FrameType
          <5> QED BY <5>1 DEF HeaderToken
        <4>2. c \in Seq(Frame)
          BY <1>0, <4>1
        <4>3. IFrames(c) = g
          BY <1>0, <2>3, <4>1
        <4> HIDE DEF c
        <4>4. IFrames(Append(c, f)) = IFrames(c) + 1
          BY <2>4, <4>2, CountAppend
        <4> QED BY <2>3, <2>4, <3>1, <4>3, <4>4 DEF c
      <3> HIDE DEF g
      <3> QED BY <1>0, <2>1, <3>1, <3>2
    <2>5. CASE f.k # "I"
      <3>1. pVS' = pVS /\ Coming' = Append(Coming, f)
        BY <1>10, <2>5 DEF StationSends
      <3>2. IFrames(Coming') = g
        BY <1>0, <2>3, <2>5, <3>1
      <3> QED BY <2>1, <3>1, <3>2
    <2> QED BY <2>4, <2>5
  <1> QED BY <1>1, <1>3, <1>4, <1>5, <1>6, <1>7, <1>8, <1>9, <1>10 DEF Move

LEMMA RecvStep ==
  ASSUME TypeOK, Connected, HeadersWhole, NotWrapped, RecvInStep, [Next]_vars
  PROVE  RecvInStep'
  <1> SUFFICES ASSUME OnCleanLink' PROVE pVS' = (NR' + IFrames(Coming')) % Numbers
    BY DEF RecvInStep, Numbers
  <1> DEFINE g == IFrames(Coming)
             h == IFrames(Coming')
  <1>0. g \in Nat /\ NR \in Nat
    BY ConstantsAssumption, CountFlow DEF TypeOK, NumbersTyped
  <1>1. OnCleanLink => pVS = (NR + g) % Numbers
    BY DEF RecvInStep
  <1>2. \/ pVS' = 0 /\ NR' + h = 0
        \/ OnCleanLink /\ pVS' = pVS /\ NR' + h = NR + g
        \/ OnCleanLink /\ pVS' = Next1(pVS) /\ NR' + h = NR + g + 1
    BY RecvFlow
  <1> HIDE DEF g, h
  <1>3. CASE pVS' = 0 /\ NR' + h = 0
    <2>1. 0 % Numbers = 0
      BY RestOfSmall, ConstantsAssumption DEF Numbers
    <2> QED BY <1>3, <2>1 DEF h
  <1>4. CASE OnCleanLink /\ pVS' = pVS /\ NR' + h = NR + g
    BY <1>1, <1>4 DEF h
  <1>5. CASE OnCleanLink /\ pVS' = Next1(pVS) /\ NR' + h = NR + g + 1
    <2>1. (((NR + g) % Numbers) + 1) % Numbers = ((NR + g) + 1) % Numbers
      BY <1>0, CountOn
    <2>2. pVS' = (pVS + 1) % Numbers
      BY <1>5 DEF Next1, Numbers
    <2> QED BY <1>1, <1>5, <2>1, <2>2 DEF h
  <1> QED BY <1>2, <1>3, <1>4, <1>5

\* On a connection begun clean the master counts every I frame of the station
\* once, whole or cut in two by a segment boundary: N(S) of the station is NR
\* plus what is on its way, as long as the two slips of the code named in
\* HeadersWhole and NotWrapped have not happened.
THEOREM LinkReceivesExactly == Spec /\ []HeadersWhole /\ []NotWrapped => []ReceivedExactly
  <1>1. Init => RecvInStep
    BY Zenon DEF Init, RecvInStep, OnCleanLink
  <1>2. TypeOK /\ Connected /\ HeadersWhole /\ NotWrapped /\ RecvInStep /\ [Next]_vars => RecvInStep'
    BY RecvStep
  <1>3. TypeOK /\ RecvInStep => ReceivedExactly
    <2> SUFFICES ASSUME TypeOK, RecvInStep, OnCleanLink
                 PROVE  pVS = (NR + IFrames(toMaster) + IFrames(Fetched)) % (SeqMax + 1)
      BY DEF ReceivedExactly
    <2>1. IFrames(Coming) = IFrames(toMaster) + IFrames(Fetched)
      BY CountFlow DEF TypeOK
    <2>2. IFrames(toMaster) \in Nat /\ IFrames(Fetched) \in Nat
      BY CountType, BuffersFlow DEF TypeOK, BuffersTyped
    <2>3. NR + IFrames(Coming) = NR + IFrames(toMaster) + IFrames(Fetched)
      BY <2>1, <2>2 DEF TypeOK, NumbersTyped
    <2> QED BY <2>3 DEF RecvInStep, Numbers
  <1> QED BY <1>1, <1>2, <1>3, TypeCorrect, ConnectedAlways, PTL DEF Spec

-----------------------------------------------------------------------------
(* Acknowledgements and numbers on their way.                              *)

\* S and I frames carry an acknowledgement.
Counted(f) == f.k \in {"S", "I"}

\* The acknowledgements in s never step back, from lo to hi.
Acks(s, lo, hi) ==
  /\ \A n \in 1..Len(s) : Counted(s[n]) => s[n].nr \in lo..hi
  /\ \A m, n \in 1..Len(s) : m < n /\ Counted(s[m]) /\ Counted(s[n]) => s[m].nr <= s[n].nr

\* The I frames in s are numbered from lo to hi - 1, in this order.
Numbered(s, lo, hi) ==
  /\ \A n \in 1..Len(s) : s[n].k = "I" => s[n].ns \in lo..(hi - 1)
  /\ \A m, n \in 1..Len(s) : m < n /\ s[m].k = "I" /\ s[n].k = "I" => s[m].ns < s[n].ns
  /\ \A x \in lo..(hi - 1) : \E n \in 1..Len(s) : s[n].k = "I" /\ s[n].ns = x

Without(s, kind) == \A n \in 1..Len(s) : s[n].k # kind

LEMMA NothingUnderWay ==
  ASSUME NEW n \in Int
  PROVE  /\ Acks(<<>>, n, n) /\ Numbered(<<>>, n, n)
         /\ \A kind : Without(<<>>, kind)
  BY DEF Acks, Numbered, Without

LEMMA AcksWiden ==
  ASSUME NEW s, NEW lo \in Int, NEW hi \in Int, NEW top \in Int, Acks(s, lo, hi), hi <= top
  PROVE  Acks(s, lo, top)
  BY DEF Acks

\* A frame is added behind.
LEMMA AddedBehind ==
  ASSUME NEW s \in Seq(Frame), NEW f \in Frame
  PROVE  /\ Append(s, f) \in Seq(Frame) /\ Len(Append(s, f)) = Len(s) + 1 /\ Len(s) \in Nat
         /\ Append(s, f)[Len(s) + 1] = f
         /\ \A n \in 1..Len(s) : Append(s, f)[n] = s[n]
  OBVIOUS

LEMMA AcksAdded ==
  ASSUME NEW s \in Seq(Frame), NEW f \in Frame, NEW lo \in Int, NEW hi \in Int,
         Acks(s, lo, hi), Counted(f) => f.nr = hi /\ lo <= hi
  PROVE  Acks(Append(s, f), lo, hi)
  <1> DEFINE t == Append(s, f)
  <1>1. /\ Len(t) = Len(s) + 1 /\ Len(s) \in Nat /\ t[Len(s) + 1] = f
        /\ \A n \in 1..Len(s) : t[n] = s[n]
    BY AddedBehind
  <1> HIDE DEF t
  <1>2. \A n \in 1..Len(t) : n \in 1..Len(s) \/ n = Len(s) + 1
    BY <1>1
  <1>3. ASSUME NEW n \in 1..Len(t), Counted(t[n]) PROVE t[n].nr \in lo..hi
    BY <1>1, <1>2, <1>3 DEF Acks
  <1>4. ASSUME NEW m \in 1..Len(t), NEW n \in 1..Len(t), m < n, Counted(t[m]), Counted(t[n])
        PROVE  t[m].nr <= t[n].nr
    <2>1. m \in 1..Len(s) /\ t[m] = s[m] /\ s[m].nr \in lo..hi
      BY <1>1, <1>2, <1>4 DEF Acks
    <2>2. CASE n \in 1..Len(s)
      BY <1>1, <1>4, <2>1, <2>2 DEF Acks
    <2>3. CASE n = Len(s) + 1
      BY <1>1, <1>4, <2>1, <2>3
    <2> QED BY <1>2, <2>2, <2>3
  <1> QED BY <1>3, <1>4 DEF Acks, t

LEMMA NumberedAdded ==
  ASSUME NEW s \in Seq(Frame), NEW f \in Frame, NEW lo \in Int, NEW hi \in Int, Numbered(s, lo, hi)
  PROVE  /\ f.k # "I" => Numbered(Append(s, f), lo, hi)
         /\ f.k = "I" /\ f.ns = hi /\ lo <= hi => Numbered(Append(s, f), lo, hi + 1)
  <1> DEFINE t == Append(s, f)
  <1>1. /\ Len(t) = Len(s) + 1 /\ Len(s) \in Nat /\ t[Len(s) + 1] = f
        /\ \A n \in 1..Len(s) : t[n] = s[n] /\ n \in 1..Len(t)
    BY AddedBehind
  <1> HIDE DEF t
  <1>2. \A n \in 1..Len(t) : n \in 1..Len(s) \/ n = Len(s) + 1
    BY <1>1
  <1>3. ASSUME f.k # "I" PROVE Numbered(t, lo, hi)
    <2>1. \A n \in 1..Len(t) : t[n].k = "I" => n \in 1..Len(s) /\ t[n] = s[n]
      BY <1>1, <1>2, <1>3
    <2>2. \A n \in 1..Len(s) : t[n] = s[n] /\ n \in 1..Len(t)
      BY <1>1
    <2> QED BY <2>1, <2>2 DEF Numbered
  <1>4. ASSUME f.k = "I", f.ns = hi, lo <= hi PROVE Numbered(t, lo, hi + 1)
    <2>1. ASSUME NEW n \in 1..Len(t), t[n].k = "I" PROVE t[n].ns \in lo..((hi + 1) - 1)
      BY <1>1, <1>2, <1>4, <2>1 DEF Numbered
    <2>2. ASSUME NEW m \in 1..Len(t), NEW n \in 1..Len(t), m < n, t[m].k = "I", t[n].k = "I"
          PROVE  t[m].ns < t[n].ns
      <3>1. m \in 1..Len(s) /\ t[m] = s[m] /\ s[m].ns \in lo..(hi - 1)
        BY <1>1, <1>2, <2>2 DEF Numbered
      <3>2. CASE n \in 1..Len(s)
        BY <1>1, <2>2, <3>1, <3>2 DEF Numbered
      <3>3. CASE n = Len(s) + 1
        BY <1>1, <1>4, <2>2, <3>1, <3>3
      <3> QED BY <1>2, <3>2, <3>3
    <2>3. ASSUME NEW x \in lo..((hi + 1) - 1)
          PROVE  \E n \in 1..Len(t) : t[n].k = "I" /\ t[n].ns = x
      <3>1. CASE x = hi
        <4>1. Len(s) + 1 \in 1..Len(t) /\ t[Len(s) + 1].k = "I" /\ t[Len(s) + 1].ns = x
          BY <1>1, <1>4, <3>1
        <4> QED BY <4>1
      <3>2. CASE x # hi
        <4>1. x \in lo..(hi - 1)
          BY <3>2
        <4>2. PICK n \in 1..Len(s) : s[n].k = "I" /\ s[n].ns = x
          BY <4>1 DEF Numbered
        <4> QED BY <1>1, <4>2
      <3> QED BY <3>1, <3>2
    <2> QED BY <2>1, <2>2, <2>3 DEF Numbered
  <1> QED BY <1>3, <1>4 DEF t

LEMMA WithoutAdded ==
  ASSUME NEW s \in Seq(Frame), NEW f \in Frame, NEW kind, Without(s, kind), f.k # kind
  PROVE  Without(Append(s, f), kind)
  <1> DEFINE t == Append(s, f)
  <1>1. /\ Len(t) = Len(s) + 1 /\ Len(s) \in Nat /\ t[Len(s) + 1] = f
        /\ \A n \in 1..Len(s) : t[n] = s[n]
    BY AddedBehind
  <1> HIDE DEF t
  <1>2. \A n \in 1..Len(t) : n \in 1..Len(s) \/ n = Len(s) + 1
    BY <1>1
  <1> QED BY <1>1, <1>2 DEF Without, t

\* The first frame, or the second behind a header, is taken; t stays.
Leaves(s, k, t) ==
  /\ k \in {1, 2} /\ Len(s) = k + Len(t)
  /\ \A i \in 1..Len(t) : t[i] = s[i + k]

LEMMA TakenFirst ==
  ASSUME NEW s \in Seq(Frame), NEW t \in Seq(Frame), NEW k, Leaves(s, k, t)
  PROVE  /\ k \in 1..Len(s) /\ Len(t) \in Nat /\ k \in Nat
         /\ \A i \in 1..Len(t) : i + k \in 1..Len(s) /\ t[i] = s[i + k] /\ k < i + k
         /\ \A n \in 1..Len(s) : n > k => n - k \in 1..Len(t) /\ t[n - k] = s[n]
  <1>1. Len(t) \in Nat /\ Len(s) = k + Len(t) /\ k \in {1, 2}
    BY DEF Leaves
  <1>2. \A i \in 1..Len(t) : t[i] = s[i + k]
    BY DEF Leaves
  <1>3. \A i \in 1..Len(t) : i + k \in 1..Len(s) /\ k < i + k
    BY <1>1
  <1>4. ASSUME NEW n \in 1..Len(s), n > k PROVE n - k \in 1..Len(t) /\ t[n - k] = s[n]
    <2>1. n - k \in 1..Len(t) /\ (n - k) + k = n
      BY <1>1, <1>4
    <2> QED BY <1>2, <2>1
  <1> QED BY <1>1, <1>2, <1>3, <1>4

LEMMA AcksTaken ==
  ASSUME NEW s \in Seq(Frame), NEW t \in Seq(Frame), NEW k, Leaves(s, k, t),
         NEW lo \in Int, NEW hi \in Int, Acks(s, lo, hi)
  PROVE  /\ Acks(t, lo, hi)
         /\ Counted(s[k]) => s[k].nr \in lo..hi /\ Acks(t, s[k].nr, hi)
  <1>1. /\ k \in 1..Len(s)
        /\ \A i \in 1..Len(t) : i + k \in 1..Len(s) /\ t[i] = s[i + k] /\ k < i + k
    BY TakenFirst
  <1>2. ASSUME NEW m \in 1..Len(t), NEW n \in 1..Len(t), m < n, Counted(t[m]), Counted(t[n])
        PROVE  t[m].nr <= t[n].nr
    <2>1. m + k < n + k /\ m + k \in 1..Len(s) /\ n + k \in 1..Len(s) /\ t[m] = s[m + k] /\ t[n] = s[n + k]
      BY <1>1, <1>2, TakenFirst
    <2> QED BY <1>2, <2>1 DEF Acks
  <1>3. \A n \in 1..Len(t) : Counted(t[n]) => t[n].nr \in lo..hi
    BY <1>1 DEF Acks
  <1>4. ASSUME Counted(s[k]) PROVE s[k].nr \in lo..hi /\ Acks(t, s[k].nr, hi)
    <2>1. s[k].nr \in lo..hi
      BY <1>1, <1>4 DEF Acks
    <2>2. ASSUME NEW n \in 1..Len(t), Counted(t[n]) PROVE t[n].nr \in s[k].nr..hi
      <3>1. s[k].nr <= t[n].nr
        BY <1>1, <1>4, <2>2 DEF Acks
      <3>2. t[n].nr \in lo..hi
        BY <1>3, <2>2
      <3> QED BY <2>1, <3>1, <3>2
    <2> QED BY <1>2, <2>1, <2>2 DEF Acks
  <1> QED BY <1>2, <1>3, <1>4 DEF Acks

LEMMA WithoutTaken ==
  ASSUME NEW s \in Seq(Frame), NEW t \in Seq(Frame), NEW k, Leaves(s, k, t), NEW kind, Without(s, kind)
  PROVE  s[k].k # kind /\ Without(t, kind)
  <1>1. /\ k \in 1..Len(s)
        /\ \A i \in 1..Len(t) : i + k \in 1..Len(s) /\ t[i] = s[i + k]
    BY TakenFirst
  <1> QED BY <1>1 DEF Without

LEMMA NumberedTaken ==
  ASSUME NEW s \in Seq(Frame), NEW t \in Seq(Frame), Leaves(s, 1, t),
         NEW lo \in Int, NEW hi \in Int, Numbered(s, lo, hi)
  PROVE  /\ s[1].k # "I" => Numbered(t, lo, hi)
         /\ s[1].k = "I" => s[1].ns = lo /\ lo < hi /\ Numbered(t, lo + 1, hi)
  <1>1. /\ 1 \in 1..Len(s) /\ Len(t) \in Nat
        /\ \A i \in 1..Len(t) : i + 1 \in 1..Len(s) /\ t[i] = s[i + 1] /\ 1 < i + 1
        /\ \A n \in 1..Len(s) : n > 1 => n - 1 \in 1..Len(t) /\ t[n - 1] = s[n]
    <2> DEFINE k == 1
    <2>1. Leaves(s, k, t)
      OBVIOUS
    <2> HIDE DEF k
    <2>2. /\ k \in 1..Len(s) /\ Len(t) \in Nat
          /\ \A i \in 1..Len(t) : i + k \in 1..Len(s) /\ t[i] = s[i + k] /\ k < i + k
          /\ \A n \in 1..Len(s) : n > k => n - k \in 1..Len(t) /\ t[n - k] = s[n]
      BY <2>1, TakenFirst
    <2> QED BY <2>2 DEF k
  <1>2. ASSUME NEW m \in 1..Len(t), NEW n \in 1..Len(t), m < n, t[m].k = "I", t[n].k = "I"
        PROVE  t[m].ns < t[n].ns
    <2>0. m + 1 < n + 1
      BY <1>1, <1>2
    <2>1. m + 1 < n + 1 /\ m + 1 \in 1..Len(s) /\ n + 1 \in 1..Len(s) /\ t[m] = s[m + 1] /\ t[n] = s[n + 1]
      BY <1>1, <2>0
    <2> QED BY <1>2, <2>1 DEF Numbered
  <1>3. \A n \in 1..Len(t) : t[n].k = "I" => t[n].ns \in lo..(hi - 1)
    BY <1>1 DEF Numbered
  <1>4. ASSUME NEW x \in lo..(hi - 1), s[1].k # "I" \/ s[1].ns # x
        PROVE  \E n \in 1..Len(t) : t[n].k = "I" /\ t[n].ns = x
    <2>1. PICK n \in 1..Len(s) : s[n].k = "I" /\ s[n].ns = x
      BY DEF Numbered
    <2>2. n > 1
      BY <1>1, <1>4, <2>1
    <2> QED BY <1>1, <2>1, <2>2
  <1>5. ASSUME s[1].k # "I" PROVE Numbered(t, lo, hi)
    BY <1>2, <1>3, <1>4, <1>5 DEF Numbered
  <1>6. ASSUME s[1].k = "I" PROVE s[1].ns = lo /\ lo < hi /\ Numbered(t, lo + 1, hi)
    <2>1. s[1].ns \in lo..(hi - 1)
      BY <1>1, <1>6 DEF Numbered
    <2>2. ASSUME NEW n \in 1..Len(t), t[n].k = "I" PROVE s[1].ns < t[n].ns
      <3> DEFINE j == n + 1
      <3>1. j \in 1..Len(s) /\ t[n] = s[j] /\ 1 < j
        BY <1>1
      <3> HIDE DEF j
      <3> QED BY <1>1, <1>6, <2>2, <3>1 DEF Numbered
    <2>3. s[1].ns = lo
      <3> SUFFICES ASSUME s[1].ns # lo PROVE FALSE
        OBVIOUS
      <3>1. lo \in lo..(hi - 1)
        BY <2>1
      <3>2. PICK n \in 1..Len(t) : t[n].k = "I" /\ t[n].ns = lo
        BY <1>4, <3>1
      <3> QED BY <2>1, <2>2, <3>2
    <2>4. \A n \in 1..Len(t) : t[n].k = "I" => t[n].ns \in (lo + 1)..(hi - 1)
      BY <1>3, <2>2, <2>3
    <2>5. ASSUME NEW x \in (lo + 1)..(hi - 1)
          PROVE  \E n \in 1..Len(t) : t[n].k = "I" /\ t[n].ns = x
      <3>1. x \in lo..(hi - 1) /\ s[1].ns # x
        BY <2>3
      <3> QED BY <1>4, <3>1
    <2> QED BY <1>2, <2>1, <2>3, <2>4, <2>5 DEF Numbered
  <1> QED BY <1>5, <1>6

\* Of two parts in sequence, the first.
LEMMA FirstPart ==
  ASSUME NEW a \in Seq(Frame), NEW b \in Seq(Frame), NEW lo \in Int, NEW hi \in Int
  PROVE  /\ Acks(a \o b, lo, hi) => Acks(a, lo, hi)
         /\ \A kind : Without(a \o b, kind) => Without(a, kind)
  <1> DEFINE c == a \o b
  <1>1. \A n \in 1..Len(a) : n \in 1..Len(c) /\ c[n] = a[n]
    BY ConcatProperties
  <1> HIDE DEF c
  <1>2. Acks(c, lo, hi) => Acks(a, lo, hi)
    BY <1>1 DEF Acks
  <1>3. ASSUME NEW kind, Without(c, kind) PROVE Without(a, kind)
    BY <1>1, <1>3 DEF Without
  <1> QED BY <1>2, <1>3 DEF c

LEMMA BuffersNext ==
  ASSUME BuffersTyped'
  PROVE  Coming' \in Seq(Frame) /\ Going' \in Seq(Frame)
  <1>1. Fetched' \in Seq(Frame)
    BY ConcatProperties DEF Fetched, BuffersTyped
  <1>2. Coming' \in Seq(Frame)
    BY <1>1, ConcatProperties DEF Coming, BuffersTyped
  <1>3. Going' \in Seq(Frame)
    BY ConcatProperties DEF Going, BuffersTyped
  <1> QED BY <1>2, <1>3

LEMMA FrameGone ==
  ASSUME NEW f, FirstGone(f)
  PROVE  \E k : Leaves(Coming, k, Coming') /\ Coming[k] = f
  BY DEF FirstGone, Leaves

\* The station takes the first frame under way to it.
LEMMA HeadGone ==
  ASSUME NEW s \in Seq(Frame), s # <<>>
  PROVE  Tail(s) \in Seq(Frame) /\ Leaves(s, 1, Tail(s)) /\ s[1] = Head(s)
  BY HeadFirst DEF Leaves

LEMMA Kinds ==
  /\ \A fn : UFrame(fn).k = fn /\ (fn \in UKinds => UFrame(fn) \in Frame /\ ~Counted(UFrame(fn)))
  /\ \A n \in 0..SeqMax : /\ SFrame(n) \in Frame /\ SFrame(n).k = "S" /\ SFrame(n).nr = n
                          /\ Counted(SFrame(n))
  /\ HeaderToken \in Frame /\ HeaderToken.k = "HEADER" /\ ~Counted(HeaderToken)
  <1>1. \A fn : UFrame(fn).k = fn
    BY DEF UFrame
  <1>2. ASSUME NEW fn \in UKinds PROVE UFrame(fn) \in Frame /\ ~Counted(UFrame(fn))
    BY <1>1, <1>2, FrameType DEF Counted, UKinds
  <1>3. ASSUME NEW n \in 0..SeqMax
        PROVE  SFrame(n) \in Frame /\ SFrame(n).k = "S" /\ SFrame(n).nr = n /\ Counted(SFrame(n))
    <2>1. SFrame(n) \in Frame
      BY FrameType DEF SFrame
    <2> QED BY <2>1 DEF SFrame, Counted
  <1>4. HeaderToken \in Frame
    BY FrameType
  <1> QED BY <1>1, <1>2, <1>3, <1>4 DEF HeaderToken, Counted

-----------------------------------------------------------------------------
(* What the station acknowledges, and what the master makes of it.         *)

\* What the master takes as acknowledged.
Due == NS - peerNoAckNum

InSight == clean /\ ~tested /\ Reading

\* peerNoAckNum is what the station has not acknowledged: the acknowledgements
\* on their way, also those of a connection that has just failed, start at
\* what the master knows and end at what the station has received.
InAcks ==
  InSight =>
    /\ Due \in 0..pVR /\ pVR <= NS
    /\ Acks(Coming, Due, pVR)
    /\ Without(Coming, "TESTFR_CON")
    /\ net = "up" => Without(Going, "TESTFR_ACT")

\* The I frames on their way to the station are the next ones it expects.
OutOrder == OnCleanLink => pVR <= NS /\ Numbered(Going, pVR, NS)

\* Neither side has used up its numbers on this connection.
NumbersLeft == clean => NS < SeqMax /\ pVS < SeqMax

LEMMA OutOrderStep ==
  ASSUME TypeOK, Connected, NumbersLeft, OutOrder, [Next]_vars
  PROVE  OutOrder'
  <1> SUFFICES ASSUME OnCleanLink' PROVE pVR' <= NS' /\ Numbered(Going', pVR', NS')
    BY DEF OutOrder
  <1>0. /\ NS \in Int /\ NS >= 0 /\ pVR \in Int /\ SeqMax \in Nat
        /\ NS \in 0..SeqMax /\ pVR \in 0..SeqMax
    BY ConstantsAssumption DEF TypeOK, NumbersTyped
  <1>00. Going \in Seq(Frame)
    BY BuffersFlow DEF TypeOK
  <1>1. Move
    BY MoveStep
  <1> USE DEF counters, atStation, socket
  <1>2. ASSUME UNCHANGED <<pVR, NS, clean, net, Going>> PROVE pVR' <= NS' /\ Numbered(Going', pVR', NS')
    BY <1>2 DEF OutOrder, OnCleanLink
  <1>3. CASE Stays
    <2>1. net = "up"
      BY <1>3 DEF Stays, OnCleanLink
    <2> QED BY <1>2, <1>3, <2>1 DEF Stays
  <1>4. CASE Ends \/ Breaks
    BY <1>4 DEF Ends, Breaks, OnCleanLink
  <1>5. CASE Opens
    <2>1. noticed /\ Going' = <<>> /\ pVR' = 0 /\ NS' = NS
      BY <1>5, Zenon DEF Opens, OnCleanLink
    <2>2. NS = 0
      BY <2>1, Zenon DEF Connected, FreshStart
    <2> QED BY <2>1, <2>2, NothingUnderWay
  <1>6. CASE Sends
    <2>1. /\ pVR <= NS /\ Numbered(Going, pVR, NS) /\ NS < SeqMax
          /\ Going' = Append(Going, IFrame(NS, WireNR, Requested)) /\ pVR' = pVR
      BY <1>6 DEF Sends, OutOrder, OnCleanLink, NumbersLeft
    <2>2. NS' = NS + 1
      BY <1>0, <1>6, <2>1 DEF Sends
    <2>3. IFrame(NS, WireNR, Requested) \in Frame
      BY FrameType, NumberType DEF TypeOK, NumbersTyped, Requested, Asdus, Requests
    <2> DEFINE f == IFrame(NS, WireNR, Requested)
    <2>4. f \in Frame /\ f.k = "I" /\ f.ns = NS /\ Going' = Append(Going, f)
      BY <2>1, <2>3 DEF IFrame
    <2> HIDE DEF f
    <2>5. Numbered(Append(Going, f), pVR, NS + 1)
      BY <1>0, <1>00, <2>1, <2>4, NumberedAdded
    <2> QED BY <1>0, <2>1, <2>2, <2>4, <2>5
  <1>7. ASSUME NEW f \in Frame, f.k # "I", UNCHANGED <<pVR, NS, clean, net>>, Going' = Append(Going, f)
        PROVE  pVR' <= NS' /\ Numbered(Going', pVR', NS')
    <2>1. pVR <= NS /\ Numbered(Going, pVR, NS)
      BY <1>7 DEF OutOrder, OnCleanLink
    <2>2. Numbered(Append(Going, f), pVR, NS)
      BY <1>0, <1>00, <1>7, <2>1, NumberedAdded
    <2> QED BY <1>7, <2>1, <2>2
  <1>8. ASSUME NEW f \in Frame, Puts(f) PROVE pVR' <= NS' /\ Numbered(Going', pVR', NS')
    <2>1. f.k # "I"
      BY <1>8 DEF Puts, SFrame, UFrame
    <2> QED BY <1>7, <1>8, <2>1 DEF Puts
  <1>9. ASSUME NEW f \in Frame, Takes(f) PROVE pVR' <= NS' /\ Numbered(Going', pVR', NS')
    <2>1. UNCHANGED <<pVR, NS, clean, net>>
      BY <1>9 DEF Takes
    <2>2. Going' = Going \/ Going' = Append(Going, UFrame("TESTFR_CON"))
      BY <1>9 DEF Takes
    <2>3. UFrame("TESTFR_CON") \in Frame /\ UFrame("TESTFR_CON").k # "I"
      BY Kinds DEF UKinds
    <2> QED BY <1>2, <1>7, <2>1, <2>2, <2>3
  <1>10. ASSUME NEW f \in Frame, StationTakes(f) PROVE pVR' <= NS' /\ Numbered(Going', pVR', NS')
    <2>1. /\ Going # <<>> /\ f = Head(Going) /\ Going' = Tail(Going)
          /\ UNCHANGED <<NS, clean, net>>
      BY <1>10 DEF StationTakes
    <2>2. pVR <= NS /\ Numbered(Going, pVR, NS)
      BY <2>1 DEF OutOrder, OnCleanLink
    <2> DEFINE t == Tail(Going)
    <2>3. t \in Seq(Frame) /\ Leaves(Going, 1, t) /\ Going[1] = f /\ Going' = t
      BY <1>00, <2>1, HeadGone
    <2> HIDE DEF t
    <2>4. /\ f.k # "I" => Numbered(t, pVR, NS)
          /\ f.k = "I" => pVR < NS /\ Numbered(t, pVR + 1, NS)
      BY <1>0, <1>00, <2>2, <2>3, NumberedTaken
    <2>5. CASE f.k = "I"
      <3>1. pVR' = Next1(pVR)
        BY <1>10, <2>5 DEF StationTakes
      <3>2. pVR' = pVR + 1
        <4>1. pVR < NS
          BY <2>4, <2>5
        <4>2. pVR < SeqMax
          BY <1>0, <4>1
        <4>3. Next1(pVR) = pVR + 1
          BY <1>0, <4>2, NextIs
        <4> QED BY <3>1, <4>3
      <3>3. pVR + 1 <= NS /\ Numbered(t, pVR + 1, NS) /\ NS' = NS /\ Going' = t
        BY <1>0, <2>1, <2>3, <2>4, <2>5
      <3> QED BY <3>2, <3>3
    <2>6. CASE f.k # "I"
      <3>1. pVR' = pVR
        BY <1>10, <2>6 DEF StationTakes
      <3> QED BY <2>1, <2>2, <2>3, <2>4, <2>6, <3>1
    <2> QED BY <2>5, <2>6
  <1>11. ASSUME NEW f \in Frame, StationSends(f) PROVE pVR' <= NS' /\ Numbered(Going', pVR', NS')
    <2>1. clean /\ UNCHANGED <<NS, pVR, net, Going>>
      <3>1. clean'
        BY Zenon DEF OnCleanLink
      <3>2. clean
        BY <1>11, <3>1, Zenon DEF StationSends
      <3> QED BY <1>11, <3>2 DEF StationSends
    <2> QED BY <1>2, <2>1 DEF OutOrder, OnCleanLink
  <1> QED BY <1>1, <1>3, <1>4, <1>5, <1>6, <1>8, <1>9, <1>10, <1>11 DEF Move

LEMMA InAcksStep ==
  ASSUME TypeOK, TypeOK', Connected, NumbersLeft, OutOrder, InAcks, [Next]_vars
  PROVE  InAcks'
  <1> DEFINE Goal == /\ Due' \in 0..pVR' /\ pVR' <= NS'
                     /\ Acks(Coming', Due', pVR')
                     /\ Without(Coming', "TESTFR_CON")
                     /\ net' = "up" => Without(Going', "TESTFR_ACT")
  <1> SUFFICES ASSUME InSight' PROVE Goal
    BY DEF InAcks
  <1>0. NS \in 0..SeqMax /\ pVR \in 0..SeqMax /\ peerNoAckNum \in Nat /\ SeqMax \in Nat
    BY ConstantsAssumption DEF TypeOK, NumbersTyped
  <1>b. /\ Coming \in Seq(Frame) /\ Going \in Seq(Frame)
         /\ Coming' \in Seq(Frame) /\ Going' \in Seq(Frame)
    BY BuffersFlow, BuffersNext DEF TypeOK
  <1>a. clean' /\ ~tested' /\ Reading'
    BY DEF InSight
  <1>1. Move
    BY MoveStep
  <1> USE DEF counters, atStation, socket
  <1>2. ASSUME clean, ~tested, Reading
        PROVE  /\ Due \in 0..pVR /\ pVR <= NS /\ NS < SeqMax
               /\ Acks(Coming, Due, pVR) /\ Without(Coming, "TESTFR_CON")
               /\ net = "up" => Without(Going, "TESTFR_ACT")
    BY <1>2 DEF InAcks, InSight, NumbersLeft
  <1>3. CASE Stays
    <2>1. clean /\ ~tested /\ UNCHANGED <<NS, peerNoAckNum, pVR, net, Coming>>
      BY <1>a, <1>3 DEF Stays
    <2>2. Reading
      BY <1>a, <1>3 DEF Stays, Reading
    <2>3. Due' = Due /\ (net' = "up" => Going' = Going)
      BY <1>3, <2>1 DEF Stays, Due
    <2> QED BY <1>2, <2>1, <2>2, <2>3
  <1>4. CASE Ends
    BY <1>a, <1>4 DEF Ends
  <1>5. CASE Breaks
    <2>1. clean /\ ~tested /\ Reading /\ UNCHANGED <<NS, peerNoAckNum, pVR>> /\ net' # "up"
      BY <1>a, <1>5 DEF Breaks
    <2>2. Due' = Due /\ Due \in Int
      BY <1>0, <2>1 DEF Due
    <2>3. /\ Acks(Fetched, Due, pVR) /\ Without(Fetched, "TESTFR_CON")
      <3> DEFINE d == Due
      <3>1. d \in Int /\ Acks(Coming, d, pVR) /\ Without(Coming, "TESTFR_CON") /\ pVR \in Int
        BY <1>0, <1>2, <2>1, <2>2
      <3>2. Fetched \in Seq(Frame) /\ toMaster \in Seq(Frame) /\ Coming = Fetched \o toMaster
        BY BuffersFlow DEF TypeOK, BuffersTyped, Coming
      <3> HIDE DEF d, Coming, Fetched
      <3>3. /\ Acks(Fetched \o toMaster, d, pVR) => Acks(Fetched, d, pVR)
            /\ Without(Fetched \o toMaster, "TESTFR_CON") => Without(Fetched, "TESTFR_CON")
        BY <3>1, <3>2, FirstPart
      <3> QED BY <3>1, <3>2, <3>3 DEF d
    <2>4. Coming' \in {Coming, Fetched}
      BY <1>5 DEF Breaks
    <2> QED BY <1>2, <2>1, <2>2, <2>3, <2>4
  <1>6. CASE Opens
    <2>1. noticed /\ Coming' = <<>> /\ Going' = <<>> /\ pVR' = 0 /\ UNCHANGED <<NS, peerNoAckNum>>
      BY <1>a, <1>6, Zenon DEF Opens
    <2>2. NS = 0 /\ peerNoAckNum = 0
      BY <2>1, Zenon DEF Connected, FreshStart
    <2>3. Due' = 0 /\ NS' = 0
      BY <2>1, <2>2 DEF Due
    <2>4. Acks(<<>>, 0, 0) /\ Without(<<>>, "TESTFR_CON") /\ Without(<<>>, "TESTFR_ACT")
      BY NothingUnderWay
    <2> QED BY <2>1, <2>3, <2>4
  <1>7. CASE Sends
    <2>1. /\ clean /\ ~tested /\ UNCHANGED <<net, running, pVR, Coming>> /\ pc' = "timer"
          /\ Going' = Append(Going, IFrame(NS, WireNR, Requested))
      BY <1>a, <1>7 DEF Sends
    <2>2. Reading
      BY <1>a, <2>1 DEF Reading
    <2>3. NS' = NS + 1 /\ peerNoAckNum' = peerNoAckNum + 1
      BY <1>0, <1>2, <1>7, <2>1, <2>2 DEF Sends
    <2>4. Due' = Due
      BY <1>0, <2>3 DEF Due
    <2>5. IFrame(NS, WireNR, Requested) \in Frame
      BY FrameType, NumberType DEF TypeOK, NumbersTyped, Requested, Asdus, Requests
    <2> DEFINE f == IFrame(NS, WireNR, Requested)
    <2>6. f \in Frame /\ f.k # "TESTFR_ACT" /\ Going' = Append(Going, f)
      BY <2>1, <2>5 DEF IFrame
    <2> HIDE DEF f
    <2>7. net' = "up" => Without(Going', "TESTFR_ACT")
      BY <1>b, <1>2, <2>1, <2>2, <2>6, WithoutAdded
    <2>8. pVR' <= NS'
      BY <1>0, <1>2, <2>1, <2>2, <2>3
    <2> QED BY <1>2, <2>1, <2>2, <2>4, <2>7, <2>8
  <1>8. ASSUME NEW f \in Frame, Puts(f) PROVE Goal
    <2>1. /\ clean /\ UNCHANGED <<NS, net, running, pVR, Coming>> /\ pc' # "read"
          /\ Going' = Append(Going, f)
      BY <1>a, <1>8 DEF Puts
    <2>2. f \in {SFrame(WireNR), UFrame("STARTDT_ACT")} /\ UNCHANGED <<tested, peerNoAckNum>>
      BY <1>a, <1>8, Zenon DEF Puts
    <2>3. ~tested /\ Reading
      BY <1>a, <2>1, <2>2 DEF Reading
    <2>4. f.k # "TESTFR_ACT"
      BY <2>2 DEF SFrame, UFrame
    <2>5. net' = "up" => Without(Going', "TESTFR_ACT")
      BY <1>b, <1>2, <2>1, <2>3, <2>4, WithoutAdded
    <2>6. Due' = Due
      BY <2>1, <2>2 DEF Due
    <2> QED BY <1>2, <2>1, <2>3, <2>5, <2>6
  <1>9. ASSUME NEW f \in Frame, Takes(f) PROVE Goal
    <2>1. clean /\ ~tested /\ Reading /\ UNCHANGED <<NS, net, pVR>> /\ Decoded(f)
      BY <1>a, <1>9 DEF Takes, Reading
    <2>2. /\ Due \in 0..pVR /\ pVR <= NS /\ Acks(Coming, Due, pVR) /\ Without(Coming, "TESTFR_CON")
          /\ net = "up" => Without(Going, "TESTFR_ACT")
      BY <1>2, <2>1
    <2>3. net' = "up" => Without(Going', "TESTFR_ACT")
      <3>1. Going' = Going \/ Going' = Append(Going, UFrame("TESTFR_CON"))
        BY <1>9 DEF Takes
      <3>2. UFrame("TESTFR_CON") \in Frame /\ UFrame("TESTFR_CON").k # "TESTFR_ACT"
        BY Kinds DEF UKinds
      <3> DEFINE y == UFrame("TESTFR_CON")
      <3> HIDE DEF y
      <3>3. Without(Going, "TESTFR_ACT") => Without(Append(Going, y), "TESTFR_ACT")
        BY <1>b, <3>2, WithoutAdded DEF y
      <3> QED BY <2>1, <2>2, <3>1, <3>3 DEF y
    <2> DEFINE d == Due
    <2>4. d \in Int /\ d = NS - peerNoAckNum /\ Due' = NS - peerNoAckNum'
      BY <1>0, <2>1 DEF Due
    <2> HIDE DEF d
    <2>5. CASE rxdStatus = "void" /\ f = ZeroedFrame /\ Coming' = Coming
      <3>1. NS = 0 /\ peerNoAckNum = 0
        BY <2>1, <2>5, Zenon DEF Connected, VoidFirst
      <3>2. f.k = "I" /\ f.nr = 0
        BY <2>5 DEF ZeroedFrame, IFrame
      <3>3. peerNoAckNum' = UnackedOf(0)
        BY <1>9, <3>2 DEF Takes, UKinds
      <3>4. peerNoAckNum' = 0
        BY <3>1, <3>3 DEF UnackedOf
      <3>5. Due' = Due
        BY <2>1, <3>1, <3>4 DEF Due
      <3> QED BY <2>1, <2>2, <2>3, <2>5, <3>5
    <2>6. CASE FirstGone(f)
      <3>1. PICK k : Leaves(Coming, k, Coming') /\ Coming[k] = f
        BY <2>6, FrameGone
      <3>2. /\ Acks(Coming', d, pVR)
            /\ Counted(f) => f.nr \in d..pVR /\ Acks(Coming', f.nr, pVR)
        <4>1. Acks(Coming, d, pVR) /\ pVR \in Int
          BY <1>0, <2>2 DEF d
        <4> QED BY <1>b, <2>4, <3>1, <4>1, AcksTaken
      <3>3. f.k # "TESTFR_CON" /\ Without(Coming', "TESTFR_CON")
        BY <1>b, <2>2, <3>1, WithoutTaken
      <3>4. CASE Counted(f)
        <4>1. f.nr \in d..pVR /\ d \in 0..pVR /\ f.nr <= NS /\ f.nr \in Int
          BY <1>0, <2>2, <2>4, <3>2, <3>4 DEF d
        <4>2. peerNoAckNum' = UnackedOf(f.nr)
          BY <1>9, <3>4 DEF Takes, UKinds, Counted
        <4>3. peerNoAckNum' = NS - f.nr
          BY <4>1, <4>2 DEF UnackedOf
        <4>4. Due' = f.nr
          BY <1>0, <2>4, <4>1, <4>3
        <4>5. Due' \in 0..pVR
          BY <1>0, <2>4, <4>1, <4>4
        <4> QED BY <2>1, <2>2, <2>3, <3>2, <3>3, <3>4, <4>4, <4>5
      <3>5. CASE ~Counted(f)
        <4>1. peerNoAckNum' = Confirmed(f)
          BY <1>9, <3>5 DEF Takes, Counted
        <4>2. peerNoAckNum' = peerNoAckNum
          BY <3>3, <4>1 DEF Confirmed
        <4>3. Due' = d
          BY <2>4, <4>2
        <4> QED BY <2>1, <2>2, <2>3, <3>2, <3>3, <4>3 DEF d
      <3> QED BY <3>4, <3>5
    <2> QED BY <2>1, <2>5, <2>6 DEF Decoded
  <1>10. ASSUME NEW f \in Frame, StationTakes(f) PROVE Goal
    <2>1. /\ clean /\ ~tested /\ Reading /\ net = "up"
          /\ UNCHANGED <<NS, peerNoAckNum, net>>
      BY <1>a, <1>10 DEF StationTakes, Reading
    <2>2. /\ Due \in 0..pVR /\ pVR <= NS /\ Acks(Coming, Due, pVR) /\ Without(Coming, "TESTFR_CON")
          /\ Without(Going, "TESTFR_ACT")
      BY <1>2, <2>1
    <2>3. Going # <<>> /\ f = Head(Going) /\ Going' = Tail(Going)
      BY <1>10 DEF StationTakes
    <2> DEFINE t == Tail(Going)
    <2>4. t \in Seq(Frame) /\ Leaves(Going, 1, t) /\ Going[1] = f /\ Going' = t
      BY <1>b, <2>3, HeadGone
    <2> HIDE DEF t
    <2>5. f.k # "TESTFR_ACT" /\ Without(t, "TESTFR_ACT")
      BY <1>b, <2>2, <2>4, WithoutTaken
    <2> DEFINE d == Due
    <2>6. d \in Int /\ Due' = d /\ pVR \in Int /\ d \in 0..pVR
      BY <1>0, <2>1, <2>2 DEF Due
    <2> HIDE DEF d
    <2>7. CASE f.k = "STARTDT_ACT"
      <3>1. pVR' = pVR /\ Coming' = Append(Coming, UFrame("STARTDT_CON"))
        BY <1>10, <2>7 DEF StationTakes
      <3> DEFINE y == UFrame("STARTDT_CON")
      <3>2. y \in Frame /\ ~Counted(y) /\ y.k # "TESTFR_CON"
        BY Kinds DEF UKinds
      <3> HIDE DEF y
      <3>3. Acks(Append(Coming, y), d, pVR) /\ Without(Append(Coming, y), "TESTFR_CON")
        BY <1>b, <2>2, <2>6, <3>2, AcksAdded, WithoutAdded DEF d
      <3> QED BY <2>1, <2>2, <2>4, <2>5, <2>6, <3>1, <3>3 DEF y
    <2>8. CASE f.k \in {"TESTFR_CON", "S"}
      <3>1. pVR' = pVR /\ Coming' = Coming
        BY <1>10, <2>8 DEF StationTakes
      <3> QED BY <2>1, <2>2, <2>4, <2>5, <2>6, <3>1 DEF d
    <2>9. CASE f.k = "I"
      <3>1. pVR' = Next1(pVR) /\ Coming' = Coming
        BY <1>10, <2>9 DEF StationTakes
      <3>2. pVR < NS
        <4>1. Numbered(Going, pVR, NS)
          BY <2>1 DEF OutOrder, OnCleanLink
        <4>2. NS \in Int /\ pVR \in Int
          BY <1>0
        <4> QED BY <1>b, <2>4, <2>9, <4>1, <4>2, NumberedTaken
      <3>3. pVR' = pVR + 1
        <4>1. pVR < SeqMax
          BY <1>0, <3>2
        <4>2. Next1(pVR) = pVR + 1
          BY <1>0, <4>1, NextIs
        <4> QED BY <3>1, <4>2
      <3>4. Acks(Coming, d, pVR + 1)
        <4>1. Acks(Coming, d, pVR) /\ pVR + 1 \in Int /\ pVR <= pVR + 1
          BY <2>2, <2>6 DEF d
        <4> QED BY <2>6, <4>1, AcksWiden
      <3>5. pVR' <= NS' /\ d \in 0..pVR'
        BY <1>0, <2>1, <2>6, <3>2, <3>3
      <3>6. Acks(Coming', Due', pVR')
        BY <2>6, <3>1, <3>3, <3>4
      <3> QED BY <2>1, <2>2, <2>4, <2>5, <2>6, <3>1, <3>5, <3>6
    <2> QED BY <1>10, <2>5, <2>7, <2>8, <2>9 DEF StationTakes
  <1>11. ASSUME NEW f \in Frame, StationSends(f) PROVE Goal
    <2>1. /\ clean /\ ~tested /\ Reading /\ net = "up"
          /\ UNCHANGED <<NS, peerNoAckNum, net, pVR, Going>>
      <3>1. clean
        BY <1>a, <1>11, Zenon DEF StationSends
      <3> QED BY <1>a, <1>11, <3>1 DEF StationSends, Reading
    <2>2. /\ Due \in 0..pVR /\ pVR <= NS /\ Acks(Coming, Due, pVR) /\ Without(Coming, "TESTFR_CON")
          /\ Without(Going, "TESTFR_ACT")
      BY <1>2, <2>1
    <2> DEFINE d == Due
    <2>6. d \in Int /\ Due' = d /\ pVR \in Int /\ d <= pVR
      BY <1>0, <2>1, <2>2 DEF Due
    <2> HIDE DEF d
    <2>7. ASSUME NEW s \in Seq(Frame), Acks(s, d, pVR), Without(s, "TESTFR_CON"),
                 NEW y \in Frame, y.k # "TESTFR_CON", Counted(y) => y.nr = pVR
          PROVE  Acks(Append(s, y), d, pVR) /\ Without(Append(s, y), "TESTFR_CON")
      BY <2>6, <2>7, AcksAdded, WithoutAdded
    <2>8. ASSUME Acks(Coming', d, pVR), Without(Coming', "TESTFR_CON") PROVE Goal
      BY <2>1, <2>2, <2>6, <2>8 DEF d
    <2>9. Acks(Coming, d, pVR) /\ Without(Coming, "TESTFR_CON")
      BY <2>2 DEF d
    <2>10. f.k # "TESTFR_CON" /\ (Counted(f) => f.nr = pVR)
      <3>1. CASE f.k = "I"
        BY <1>11, <3>1 DEF StationSends, SFrame, UFrame
      <3>2. CASE f.k # "I"
        <4>1. f \in {SFrame(pVR), UFrame("TESTFR_ACT"), UFrame("STOPDT_CON")}
          BY <1>11, <3>2 DEF StationSends
        <4>2. /\ SFrame(pVR).k = "S" /\ SFrame(pVR).nr = pVR
              /\ UFrame("TESTFR_ACT").k = "TESTFR_ACT" /\ UFrame("STOPDT_CON").k = "STOPDT_CON"
          BY DEF SFrame, UFrame
        <4> QED BY <4>1, <4>2 DEF Counted
      <3> QED BY <3>1, <3>2
    <2>11. Acks(Append(Coming, f), d, pVR) /\ Without(Append(Coming, f), "TESTFR_CON")
      BY <1>b, <2>7, <2>9, <2>10
    <2>12. ASSUME Coming' = Append(Append(Coming, HeaderToken), f) PROVE Goal
      <3> DEFINE c == Append(Coming, HeaderToken)
      <3>1. HeaderToken \in Frame /\ HeaderToken.k # "TESTFR_CON" /\ ~Counted(HeaderToken)
        BY Kinds
      <3>2. c \in Seq(Frame) /\ Acks(c, d, pVR) /\ Without(c, "TESTFR_CON")
        BY <1>b, <2>7, <2>9, <3>1, AddedBehind
      <3> HIDE DEF c
      <3>3. Acks(Append(c, f), d, pVR) /\ Without(Append(c, f), "TESTFR_CON")
        BY <2>7, <2>10, <3>2
      <3> QED BY <2>8, <2>12, <3>3 DEF c
    <2>13. Coming' \in {Append(Coming, f), Append(Append(Coming, HeaderToken), f)}
      BY <1>11 DEF StationSends
    <2> QED BY <2>8, <2>11, <2>12, <2>13
  <1> QED BY <1>1, <1>3, <1>4, <1>5, <1>6, <1>7, <1>8, <1>9, <1>10, <1>11 DEF Move

\* What is decoded is the zeroed frame, or is among the first two under way.
LEMMA DecodedComes ==
  ASSUME BuffersTyped, NEW d \in Decodable
  PROVE  \/ rxdStatus = "void" /\ d[1] = ZeroedFrame
         \/ \E n \in 1..Len(Coming) : d[1] = Coming[n]
  <1>1. Fetched \in Seq(Frame) /\ toMaster \in Seq(Frame) /\ Coming \in Seq(Frame)
    BY BuffersFlow DEF BuffersTyped
  <1>2. /\ Len(Fetched) \in Nat /\ Len(toMaster) \in Nat /\ Len(Coming) = Len(Fetched) + Len(toMaster)
        /\ \A n \in 1..Len(Fetched) : Coming[n] = Fetched[n]
    <2> HIDE DEF Fetched
    <2> QED BY <1>1, ConcatProperties DEF Coming
  <1>3. CASE Fetched # <<>> /\ d[1] = Head(Fetched)
    <2> HIDE DEF Fetched, Coming
    <2>1. d[1] = Fetched[1] /\ Len(Fetched) >= 1
      BY <1>1, <1>3, EmptySeq
    <2>2. 1 \in 1..Len(Coming) /\ d[1] = Coming[1]
      BY <1>2, <2>1
    <2> QED BY <2>2
  <1>4. CASE Fetched # <<>> /\ Tail(Fetched) # <<>> /\ d[1] = Head(Tail(Fetched))
    <2> HIDE DEF Fetched, Coming
    <2>1. d[1] = Fetched[2] /\ Len(Fetched) = 2 + Len(Tail(Tail(Fetched)))
      BY <1>1, <1>4, FirstOfTwo
    <2>2. Len(Fetched) >= 2
      <3>1. Tail(Tail(Fetched)) \in Seq(Frame)
        BY <1>1, <1>4, HeadTailProperties
      <3> QED BY <2>1, <3>1, LenProperties
    <2>3. 2 \in 1..Len(Coming) /\ d[1] = Coming[2]
      BY <1>2, <2>1, <2>2
    <2> QED BY <2>3
  <1> QED BY <1>3, <1>4, DecodableParts

LEMMA NoAbortStep ==
  ASSUME TypeOK, Connected, InAcks, NoAbortUntested, [Next]_vars
  PROVE  NoAbortUntested'
  <1> SUFFICES ASSUME clean', ~tested', pc' = "exit" PROVE FALSE
    BY DEF NoAbortUntested
  <1>0. NS \in 0..SeqMax /\ pVR \in 0..SeqMax /\ peerNoAckNum \in Nat /\ SeqMax \in Nat
    BY ConstantsAssumption DEF TypeOK, NumbersTyped
  <1>1. Move
    BY MoveStep
  <1> USE DEF counters, atStation, socket
  <1>2. ASSUME clean, ~tested, pc = "exit" PROVE FALSE
    BY <1>2 DEF NoAbortUntested
  <1>3. CASE Stays
    BY <1>2, <1>3 DEF Stays
  <1>4. CASE Ends
    <2>1. clean /\ ~tested
      BY <1>4 DEF Ends
    <2>2. PICK d \in Decodable : pc = "read" /\ d[1].k \in {"S", "I"} /\ UnackedOf(d[1].nr) > peerNoAckNum
      BY <1>4 DEF Ends
    <2>3. Reading
      BY <2>2 DEF Reading
    <2>4. CASE rxdStatus = "void" /\ d[1] = ZeroedFrame
      <3>1. NS = 0 /\ peerNoAckNum = 0
        BY <2>1, <2>3, <2>4, Zenon DEF Connected, VoidFirst
      <3>2. d[1].nr = 0
        BY <2>4 DEF ZeroedFrame, IFrame
      <3>3. UnackedOf(0) = 0
        BY <3>1 DEF UnackedOf
      <3> QED BY <2>2, <3>1, <3>2, <3>3
    <2>5. ASSUME NEW n \in 1..Len(Coming), d[1] = Coming[n] PROVE FALSE
      <3>1. Acks(Coming, Due, pVR) /\ Due \in 0..pVR /\ pVR <= NS
        BY <2>1, <2>3 DEF InAcks, InSight
      <3>2. Coming[n].nr \in Due..pVR
        BY <2>2, <2>5, <3>1 DEF Acks, Counted
      <3> DEFINE r == Coming[n].nr
      <3> HIDE DEF r
      <3>3. r \in Int /\ NS - peerNoAckNum <= r /\ r <= NS
        BY <1>0, <3>1, <3>2 DEF Due, r
      <3>4. UnackedOf(r) = NS - r
        BY <3>3 DEF UnackedOf
      <3> QED BY <1>0, <2>2, <2>5, <3>3, <3>4 DEF r
    <2> QED BY <2>4, <2>5, DecodedComes DEF TypeOK
  <1>5. CASE Breaks
    BY <1>2, <1>5 DEF Breaks
  <1>6. CASE Opens
    BY <1>6 DEF Opens
  <1>7. CASE Sends
    BY <1>7 DEF Sends
  <1>8. ASSUME NEW f \in Frame, Puts(f) \/ Takes(f) \/ StationTakes(f) \/ StationSends(f) PROVE FALSE
    <2>1. CASE Puts(f)
      BY <2>1 DEF Puts
    <2>2. CASE Takes(f)
      BY <2>2 DEF Takes
    <2>3. CASE StationTakes(f)
      BY <1>2, <2>3 DEF StationTakes
    <2>4. CASE StationSends(f)
      <3>1. clean
        BY <2>4, Zenon DEF StationSends
      <3> QED BY <1>2, <2>4, <3>1 DEF StationSends
    <2> QED BY <1>8, <2>1, <2>2, <2>3, <2>4
  <1> QED BY <1>1, <1>3, <1>4, <1>5, <1>6, <1>7, <1>8 DEF Move

\* No acknowledgement ends the process while no test frame has been sent on a
\* connection begun clean: peerNoAckNum is then exactly what the station has
\* not acknowledged, so that PeerNoAckNumProcess never reaches its exit(1).
THEOREM LinkNoAbort == Spec /\ []NumbersLeft => []NoAbortUntested
  <1>1. Init => InAcks /\ OutOrder /\ NoAbortUntested
    BY Zenon DEF Init, InAcks, InSight, OutOrder, OnCleanLink, NoAbortUntested
  <1>2. TypeOK /\ Connected /\ NumbersLeft /\ OutOrder /\ [Next]_vars => OutOrder'
    BY OutOrderStep
  <1>3. TypeOK /\ TypeOK' /\ Connected /\ NumbersLeft /\ OutOrder /\ InAcks /\ [Next]_vars => InAcks'
    BY InAcksStep
  <1>4. TypeOK /\ Connected /\ InAcks /\ NoAbortUntested /\ [Next]_vars => NoAbortUntested'
    BY NoAbortStep
  <1> QED BY <1>1, <1>2, <1>3, <1>4, TypeCorrect, ConnectedAlways, PTL DEF Spec

-----------------------------------------------------------------------------
(* What the master acknowledges, and what the station makes of it.         *)

\* The other direction: the acknowledgements on their way to the station start
\* at what it knows and end at what the master has received.
OutAcks ==
  OnCleanLink =>
    /\ pVS = NR + IFrames(Coming)
    /\ pAcked <= NR
    /\ Acks(Going, pAcked, NR)

LEMMA OutAcksBounds ==
  ASSUME TypeOK, OutAcks
  PROVE  NotWrapped /\ (OnCleanLink => WireNR = NR /\ NR <= pVS)
  <1> SUFFICES ASSUME OnCleanLink PROVE NR <= SeqMax /\ WireNR = NR /\ NR <= pVS
    BY DEF NotWrapped
  <1> DEFINE g == IFrames(Coming)
  <1>1. pVS = NR + g /\ g \in Nat
    BY CountFlow DEF OutAcks, TypeOK
  <1> HIDE DEF g
  <1>2. NR \in Nat /\ pVS \in 0..SeqMax /\ SeqMax \in Nat
    BY ConstantsAssumption DEF TypeOK, NumbersTyped
  <1>3. NR <= pVS /\ NR \in 0..SeqMax
    BY <1>1, <1>2
  <1>4. NR % Numbers = NR
    BY <1>2, <1>3, RestOfSmall DEF Numbers
  <1> QED BY <1>2, <1>3, <1>4 DEF WireNR, Numbers

LEMMA OutAcksStep ==
  ASSUME TypeOK, Connected, HeadersWhole, NumbersLeft, OutAcks, [Next]_vars
  PROVE  OutAcks'
  <1> DEFINE g == IFrames(Coming)
             h == IFrames(Coming')
             Goal == pAcked' <= NR' /\ Acks(Going', pAcked', NR')
  <1> SUFFICES ASSUME OnCleanLink' PROVE pVS' = NR' + h /\ Goal
    BY DEF OutAcks
  <1>0. /\ NR \in Nat /\ pVS \in 0..SeqMax /\ pAcked \in 0..SeqMax /\ SeqMax \in Nat
        /\ NR \in Int /\ pAcked \in Int
    BY ConstantsAssumption DEF TypeOK, NumbersTyped
  <1>b. Going \in Seq(Frame) /\ NotWrapped
    BY BuffersFlow, OutAcksBounds DEF TypeOK
  <1>c. ASSUME OnCleanLink
        PROVE  /\ pVS = NR + g /\ pAcked <= NR /\ Acks(Going, pAcked, NR) /\ NR <= SeqMax
               /\ pVS < SeqMax /\ WireNR = NR
    BY <1>c, <1>b, OutAcksBounds DEF OutAcks, NotWrapped, NumbersLeft, OnCleanLink
  <1>d. pVS' = NR' + h
    <2>1. \/ pVS' = 0 /\ NR' + h = 0
          \/ OnCleanLink /\ pVS' = pVS /\ NR' + h = NR + g
          \/ OnCleanLink /\ pVS' = Next1(pVS) /\ NR' + h = NR + g + 1
      BY <1>b, RecvFlow
    <2>2. g \in Nat
      BY CountFlow DEF TypeOK
    <2> HIDE DEF g, h
    <2>3. CASE OnCleanLink /\ pVS' = Next1(pVS) /\ NR' + h = NR + g + 1
      <3>1. pVS = NR + g /\ pVS < SeqMax
        BY <1>c, <2>3
      <3>2. Next1(pVS) = pVS + 1
        BY <1>0, <3>1, NextIs
      <3>3. pVS + 1 = NR + g + 1
        BY <1>0, <2>2, <3>1
      <3> QED BY <2>3, <3>2, <3>3
    <2> QED BY <1>c, <2>1, <2>3
  <1>1. Move
    BY MoveStep
  <1> USE DEF counters, atStation, socket
  <1>2. ASSUME OnCleanLink, UNCHANGED <<pAcked, NR, Going>> PROVE Goal
    BY <1>c, <1>2
  <1>3. ASSUME Stays PROVE Goal
    <2>1. OnCleanLink
      BY <1>3 DEF Stays, OnCleanLink
    <2>2. UNCHANGED <<pAcked, NR, Going>>
      BY <1>3, <2>1 DEF Stays, OnCleanLink
    <2> QED BY <1>2, <2>1, <2>2
  <1>4. CASE Ends \/ Breaks
    BY <1>4 DEF Ends, Breaks, OnCleanLink
  <1>5. ASSUME Opens PROVE Goal
    <2>1. noticed /\ Going' = <<>> /\ pAcked' = 0 /\ NR' = NR
      BY <1>5, Zenon DEF Opens, OnCleanLink
    <2>2. NR = 0
      BY <2>1, Zenon DEF Connected, FreshStart
    <2>3. Acks(<<>>, 0, 0)
      BY NothingUnderWay
    <2> QED BY <2>1, <2>2, <2>3
  <1>6. ASSUME NEW f \in Frame, Counted(f) => f.nr = NR, UNCHANGED <<pAcked, NR, clean, net>>,
               Going' = Append(Going, f)
        PROVE  Goal
    <2>1. pAcked <= NR /\ Acks(Going, pAcked, NR)
      BY <1>c, <1>6 DEF OnCleanLink
    <2>2. Acks(Append(Going, f), pAcked, NR)
      BY <1>0, <1>b, <1>6, <2>1, AcksAdded
    <2> QED BY <1>6, <2>1, <2>2
  <1>7. ASSUME Sends PROVE Goal
    <2>1. /\ Going' = Append(Going, IFrame(NS, WireNR, Requested))
          /\ UNCHANGED <<pAcked, NR, clean, net>> /\ WireNR = NR
      BY <1>c, <1>7 DEF Sends, OnCleanLink
    <2>2. IFrame(NS, WireNR, Requested) \in Frame
      BY FrameType, NumberType DEF TypeOK, NumbersTyped, Requested, Asdus, Requests
    <2> DEFINE f == IFrame(NS, WireNR, Requested)
    <2>3. f \in Frame /\ f.nr = NR /\ Going' = Append(Going, f)
      BY <2>1, <2>2 DEF IFrame
    <2> HIDE DEF f
    <2>4. UNCHANGED <<pAcked, NR, clean, net>>
      BY <2>1
    <2> QED BY <1>6, <2>3, <2>4
  <1>8. ASSUME NEW f \in Frame, Puts(f) PROVE Goal
    <2>1. /\ Going' = Append(Going, f) /\ UNCHANGED <<pAcked, NR, clean, net>> /\ WireNR = NR
          /\ f \in {SFrame(WireNR), UFrame("STARTDT_ACT"), UFrame("TESTFR_ACT")}
      BY <1>c, <1>8 DEF Puts, OnCleanLink
    <2>2. Counted(f) => f.nr = NR
      BY <2>1 DEF SFrame, UFrame, Counted
    <2> QED BY <1>6, <2>1, <2>2
  <1>9. ASSUME NEW f \in Frame, Takes(f) PROVE Goal
    <2>1. UNCHANGED <<pAcked, clean, net>> /\ OnCleanLink
      BY <1>9 DEF Takes, OnCleanLink
    <2>2. pAcked <= NR /\ Acks(Going, pAcked, NR) /\ NR <= SeqMax
      BY <1>c, <2>1
    <2>3. CASE f.k = "I"
      <3>1. Going' = Going /\ NR' = NR + 1
        BY <1>0, <1>9, <2>2, <2>3 DEF Takes, UKinds
      <3>2. Acks(Going, pAcked, NR + 1)
        <4>1. NR + 1 \in Int /\ NR <= NR + 1
          BY <1>0
        <4> QED BY <1>0, <2>2, <4>1, AcksWiden
      <3>3. pAcked <= NR + 1
        BY <1>0, <2>2
      <3> QED BY <2>1, <3>1, <3>2, <3>3
    <2>4. CASE f.k # "I"
      <3>1. NR' = NR /\ (Going' = Going \/ Going' = Append(Going, UFrame("TESTFR_CON")))
        BY <1>9, <2>4 DEF Takes
      <3>2. UFrame("TESTFR_CON") \in Frame /\ ~Counted(UFrame("TESTFR_CON"))
        BY Kinds DEF UKinds
      <3>3. UNCHANGED <<pAcked, NR, clean, net>>
        BY <2>1, <3>1
      <3>4. CASE Going' = Going
        BY <1>2, <2>1, <3>3, <3>4
      <3>5. CASE Going' = Append(Going, UFrame("TESTFR_CON"))
        BY <1>6, <3>2, <3>3, <3>5
      <3> QED BY <3>1, <3>4, <3>5
    <2> QED BY <2>3, <2>4
  <1>10. ASSUME NEW f \in Frame, StationTakes(f) PROVE Goal
    <2>1. /\ Going # <<>> /\ f = Head(Going) /\ Going' = Tail(Going)
          /\ UNCHANGED <<NR, clean, net>> /\ OnCleanLink
      BY <1>10 DEF StationTakes, OnCleanLink
    <2>2. pAcked <= NR /\ Acks(Going, pAcked, NR)
      BY <1>c, <2>1
    <2> DEFINE t == Tail(Going)
    <2>3. t \in Seq(Frame) /\ Leaves(Going, 1, t) /\ Going[1] = f /\ Going' = t
      BY <1>b, <2>1, HeadGone
    <2> HIDE DEF t
    <2>4. /\ Acks(t, pAcked, NR)
          /\ Counted(f) => f.nr \in pAcked..NR /\ Acks(t, f.nr, NR)
      BY <1>0, <1>b, <2>2, <2>3, AcksTaken
    <2>5. CASE Counted(f)
      <3>1. pAcked' = f.nr
        BY <1>10, <2>5 DEF StationTakes, Counted
      <3>2. f.nr <= NR
        BY <1>0, <2>4, <2>5
      <3> QED BY <2>1, <2>3, <2>4, <2>5, <3>1, <3>2
    <2>6. CASE ~Counted(f)
      <3>1. pAcked' = pAcked
        BY <1>10, <2>6 DEF StationTakes, Counted
      <3> QED BY <2>1, <2>2, <2>3, <2>4, <3>1
    <2> QED BY <2>5, <2>6
  <1>11. ASSUME NEW f \in Frame, StationSends(f) PROVE Goal
    <2>1. clean /\ UNCHANGED <<NR, pAcked, net, Going>>
      <3>1. clean'
        BY Zenon DEF OnCleanLink
      <3>2. clean
        BY <1>11, <3>1, Zenon DEF StationSends
      <3> QED BY <1>11, <3>2 DEF StationSends
    <2>2. OnCleanLink
      BY <2>1 DEF OnCleanLink
    <2> QED BY <1>2, <2>1, <2>2
  <1> QED BY <1>d, <1>1, <1>3, <1>4, <1>5, <1>7, <1>8, <1>9, <1>10, <1>11 DEF Move

-----------------------------------------------------------------------------
(* The link implements Cs104Service.                                       *)

\* A value of each side, as the abstract specification keeps it.
Pair(m, s) == [d \in {"master", "station"} |-> IF d = "master" THEN m ELSE s]

LEMMA PairParts ==
  ASSUME NEW m, NEW s
  PROVE  /\ Pair(m, s)["master"] = m /\ Pair(m, s)["station"] = s
         /\ \A x : [Pair(m, s) EXCEPT !["master"] = x] = Pair(x, s)
         /\ \A x : [Pair(m, s) EXCEPT !["station"] = x] = Pair(m, x)
  BY DEF Pair

\* What each side has counted, in session and out of it.
LEMMA SidesAre ==
  /\ InSession =>
       /\ Sides(NS, pVS) = Pair(NS, pVS) /\ Sides(pVR, NR) = Pair(pVR, NR)
       /\ Sides(NS - peerNoAckNum, pAcked) = Pair(Due, pAcked)
  /\ ~InSession =>
       /\ Sides(NS, pVS) = Service!Zero /\ Sides(pVR, NR) = Service!Zero
       /\ Sides(NS - peerNoAckNum, pAcked) = Service!Zero
  /\ InSession' =>
       /\ Sides(NS, pVS)' = Pair(NS', pVS') /\ Sides(pVR, NR)' = Pair(pVR', NR')
       /\ Sides(NS - peerNoAckNum, pAcked)' = Pair(Due', pAcked')
  /\ ~InSession' =>
       /\ Sides(NS, pVS)' = Service!Zero /\ Sides(pVR, NR)' = Service!Zero
       /\ Sides(NS - peerNoAckNum, pAcked)' = Service!Zero
  <1>1. InSession => /\ Sides(NS, pVS) = Pair(NS, pVS) /\ Sides(pVR, NR) = Pair(pVR, NR)
                     /\ Sides(NS - peerNoAckNum, pAcked) = Pair(Due, pAcked)
    BY DEF Sides, Pair, Due
  <1>2. ~InSession => /\ Sides(NS, pVS) = Service!Zero /\ Sides(pVR, NR) = Service!Zero
                      /\ Sides(NS - peerNoAckNum, pAcked) = Service!Zero
    BY DEF Sides, Service!Zero, Service!Sides
  <1>3. InSession' => /\ Sides(NS, pVS)' = Pair(NS', pVS') /\ Sides(pVR, NR)' = Pair(pVR', NR')
                      /\ Sides(NS - peerNoAckNum, pAcked)' = Pair(Due', pAcked')
    BY DEF Sides, Pair, Due
  <1>4. ~InSession' => /\ Sides(NS, pVS)' = Service!Zero /\ Sides(pVR, NR)' = Service!Zero
                       /\ Sides(NS - peerNoAckNum, pAcked)' = Service!Zero
    BY DEF Sides, Service!Zero, Service!Sides
  <1> QED BY <1>1, <1>2, <1>3, <1>4

\* The counters that the service is about; one of them moves at a time, an
\* acknowledgement with it.
served == <<NS, pVS, pVR, NR, Due, pAcked>>

SessionMoves ==
  \/ UNCHANGED served
  \/ NS' = NS + 1 /\ UNCHANGED <<pVS, pVR, NR, Due, pAcked>>
  \/ pVS' = pVS + 1 /\ UNCHANGED <<NS, pVR, NR, Due, pAcked>>
  \/ pVR < NS /\ pVR' = pVR + 1 /\ pAcked' \in pAcked..NR /\ UNCHANGED <<NS, pVS, NR, Due>>
  \/ NR < pVS /\ NR' = NR + 1 /\ Due' \in Due..pVR /\ UNCHANGED <<NS, pVS, pVR, pAcked>>
  \/ Due' \in Due..pVR /\ UNCHANGED <<NS, pVS, pVR, NR, pAcked>>
  \/ pAcked' \in pAcked..NR /\ UNCHANGED <<NS, pVS, pVR, NR, Due>>

LEMMA SessionStep ==
  ASSUME TypeOK, TypeOK', Connected, HeadersWhole, NumbersLeft, InAcks, OutOrder, OutAcks,
         InSession, InSession', [Next]_vars
  PROVE  SessionMoves
  <1>0. /\ NS \in 0..SeqMax /\ pVR \in 0..SeqMax /\ pVS \in 0..SeqMax /\ pAcked \in 0..SeqMax
        /\ NR \in Nat /\ peerNoAckNum \in Nat /\ SeqMax \in Nat
    BY ConstantsAssumption DEF TypeOK, NumbersTyped
  <1>b. /\ Coming \in Seq(Frame) /\ Going \in Seq(Frame)
        /\ Coming' \in Seq(Frame) /\ Going' \in Seq(Frame)
    BY BuffersFlow, BuffersNext DEF TypeOK
  <1>c. clean /\ net = "up" /\ ~tested /\ clean' /\ net' = "up" /\ ~tested' /\ OnCleanLink
    BY DEF InSession, OnCleanLink
  <1>d. running /\ Reading
    BY <1>c, Zenon DEF Connected, SocketKnown, Reading
  <1>e. /\ Due \in 0..pVR /\ pVR <= NS /\ NS < SeqMax /\ pVS < SeqMax
        /\ Acks(Coming, Due, pVR) /\ Without(Coming, "TESTFR_CON")
        /\ Numbered(Going, pVR, NS)
        /\ pVS = NR + IFrames(Coming) /\ pAcked <= NR /\ Acks(Going, pAcked, NR) /\ NR <= SeqMax
        /\ rxdStatus # "void"
    BY <1>c, <1>d, OutAcksBounds
    DEF InAcks, InSight, OutOrder, OutAcks, NumbersLeft, NotWrapped, HeadersWhole
  <1>1. Move
    BY MoveStep
  <1> USE DEF counters, atStation, socket
  <1>2. ASSUME UNCHANGED <<NS, pVS, pVR, NR, peerNoAckNum, pAcked>> PROVE SessionMoves
    BY <1>2 DEF SessionMoves, served, Due
  <1>3. CASE Stays
    BY <1>2, <1>3 DEF Stays
  <1>4. CASE Ends \/ Breaks
    BY <1>c, <1>4 DEF Ends, Breaks
  <1>5. CASE Opens
    BY <1>c, <1>d, <1>5, Zenon DEF Opens, Connected, FreshStart
  <1>6. CASE Sends
    <2>1. NS' = NS + 1 /\ peerNoAckNum' = peerNoAckNum + 1 /\ UNCHANGED <<pVS, pVR, NR, pAcked>>
      BY <1>0, <1>e, <1>6 DEF Sends
    <2>2. Due' = Due
      BY <1>0, <2>1 DEF Due
    <2> QED BY <2>1, <2>2 DEF SessionMoves
  <1>7. ASSUME NEW f \in Frame, Puts(f) PROVE SessionMoves
    <2>1. UNCHANGED peerNoAckNum
      BY <1>c, <1>7, Zenon DEF Puts
    <2> QED BY <1>2, <1>7, <2>1 DEF Puts
  <1>8. ASSUME NEW f \in Frame, Takes(f) PROVE SessionMoves
    <2>1. FirstGone(f) /\ IFrames(Coming) = (IF f.k = "I" THEN 1 ELSE 0) + IFrames(Coming')
      BY <1>8, <1>e DEF Takes, Decoded
    <2>2. UNCHANGED <<NS, pVS, pVR, pAcked>>
      BY <1>8 DEF Takes
    <2> DEFINE d == Due
    <2>3. d \in Int /\ d = NS - peerNoAckNum /\ Due' = NS - peerNoAckNum' /\ d \in 0..pVR
      BY <1>0, <1>e, <2>2 DEF Due
    <2> HIDE DEF d
    <2>4. PICK k : Leaves(Coming, k, Coming') /\ Coming[k] = f
      BY <2>1, FrameGone
    <2>5. f.k # "TESTFR_CON"
      BY <1>b, <1>e, <2>4, WithoutTaken
    <2>6. CASE Counted(f)
      <3>1. f.nr \in d..pVR
        <4>1. Acks(Coming, d, pVR) /\ pVR \in Int
          BY <1>0, <1>e DEF d
        <4> QED BY <1>b, <2>3, <2>4, <2>6, <4>1, AcksTaken
      <3>2. peerNoAckNum' = UnackedOf(f.nr)
        BY <1>8, <2>6 DEF Takes, UKinds, Counted
      <3>3. f.nr <= NS /\ f.nr \in Int
        BY <1>0, <1>e, <2>3, <3>1
      <3>4. peerNoAckNum' = NS - f.nr
        BY <3>2, <3>3 DEF UnackedOf
      <3>5. Due' \in Due..pVR
        BY <1>0, <2>3, <3>1, <3>3, <3>4 DEF d
      <3>6. CASE f.k = "I"
        <4> DEFINE g == IFrames(Coming)
                   h == IFrames(Coming')
        <4>1. g = 1 + h /\ h \in Nat /\ pVS = NR + g
          BY <1>b, <1>e, <2>1, <3>6, CountType
        <4> HIDE DEF g, h
        <4>2. NR < pVS
          BY <1>0, <4>1
        <4>3. NR' = NR + 1
          BY <1>0, <1>e, <1>8, <3>6 DEF Takes, UKinds
        <4> QED BY <2>2, <3>5, <4>2, <4>3 DEF SessionMoves
      <3>7. CASE f.k = "S"
        <4>1. NR' = NR
          BY <1>8, <3>7 DEF Takes, UKinds
        <4> QED BY <2>2, <3>5, <4>1 DEF SessionMoves
      <3> QED BY <2>6, <3>6, <3>7 DEF Counted
    <2>7. CASE ~Counted(f)
      <3>1. peerNoAckNum' = Confirmed(f) /\ NR' = NR
        BY <1>8, <2>7 DEF Takes, Counted
      <3>2. peerNoAckNum' = peerNoAckNum
        BY <2>5, <3>1 DEF Confirmed
      <3> QED BY <1>2, <2>2, <3>1, <3>2
    <2> QED BY <2>6, <2>7
  <1>9. ASSUME NEW f \in Frame, StationTakes(f) PROVE SessionMoves
    <2>1. /\ Going # <<>> /\ f = Head(Going) /\ UNCHANGED <<NS, pVS, NR, peerNoAckNum>>
      BY <1>9 DEF StationTakes
    <2>2. Due' = Due
      BY <2>1 DEF Due
    <2> DEFINE t == Tail(Going)
    <2>3. t \in Seq(Frame) /\ Leaves(Going, 1, t) /\ Going[1] = f
      BY <1>b, <2>1, HeadGone
    <2> HIDE DEF t
    <2>4. Counted(f) => f.nr \in pAcked..NR
      <3>1. pAcked \in Int /\ NR \in Int
        BY <1>0
      <3> QED BY <1>b, <1>e, <2>3, <3>1, AcksTaken
    <2>5. CASE f.k = "I"
      <3>1. pVR' = Next1(pVR) /\ pAcked' = f.nr
        BY <1>9, <2>5 DEF StationTakes
      <3>2. pVR < NS
        <4>1. NS \in Int /\ pVR \in Int
          BY <1>0
        <4> QED BY <1>b, <1>e, <2>3, <2>5, <4>1, NumberedTaken
      <3>3. Next1(pVR) = pVR + 1
        <4>1. pVR < SeqMax
          BY <1>0, <3>2
        <4> QED BY <1>0, <4>1, NextIs
      <3>4. pVR' = pVR + 1 /\ pAcked' \in pAcked..NR
        BY <2>4, <2>5, <3>1, <3>3 DEF Counted
      <3> QED BY <2>1, <2>2, <3>2, <3>4 DEF SessionMoves
    <2>6. CASE f.k = "S"
      <3>1. pVR' = pVR /\ pAcked' \in pAcked..NR
        BY <1>9, <2>4, <2>6 DEF StationTakes, Counted
      <3> QED BY <2>1, <2>2, <3>1 DEF SessionMoves
    <2>7. CASE f.k \notin {"I", "S"}
      <3>1. UNCHANGED <<pVR, pAcked>>
        BY <1>9, <2>7 DEF StationTakes
      <3> QED BY <1>2, <2>1, <3>1
    <2> QED BY <2>5, <2>6, <2>7
  <1>10. ASSUME NEW f \in Frame, StationSends(f) PROVE SessionMoves
    <2>1. UNCHANGED <<NS, peerNoAckNum, NR, pVR, pAcked>>
      BY <1>10 DEF StationSends
    <2>2. pVS' = pVS \/ pVS' = Next1(pVS)
      BY <1>10 DEF StationSends
    <2>3. Next1(pVS) = pVS + 1
      BY <1>0, <1>e, NextIs
    <2>4. Due' = Due
      BY <2>1 DEF Due
    <2> QED BY <2>1, <2>2, <2>3, <2>4 DEF SessionMoves, served
  <1> QED BY <1>1, <1>3, <1>4, <1>5, <1>6, <1>7, <1>8, <1>9, <1>10 DEF Move

\* A session begins with nothing counted.
LEMMA SessionOpens ==
  ASSUME TypeOK, Connected, ~InSession, InSession', [Next]_vars
  PROVE  NS' = 0 /\ pVS' = 0 /\ pVR' = 0 /\ NR' = 0 /\ Due' = 0 /\ pAcked' = 0
  <1>1. Move
    BY MoveStep
  <1> USE DEF counters, atStation, socket
  <1>2. ASSUME UNCHANGED <<tested, net>>, clean' => clean PROVE FALSE
    BY <1>2 DEF InSession, OnCleanLink
  <1>3. CASE Opens
    <2>1. clean'
      BY Zenon DEF InSession, OnCleanLink
    <2>2. noticed /\ pVS' = 0 /\ pVR' = 0 /\ pAcked' = 0 /\ UNCHANGED <<NS, NR, peerNoAckNum>>
      BY <1>3, <2>1, Zenon DEF Opens
    <2>3. NS = 0 /\ NR = 0 /\ peerNoAckNum = 0
      BY <2>2, Zenon DEF Connected, FreshStart
    <2> QED BY <2>2, <2>3 DEF Due
  <1>4. CASE Ends \/ Breaks
    BY <1>4 DEF Ends, Breaks, InSession, OnCleanLink
  <1>5. CASE Stays
    BY <1>2, <1>5 DEF Stays
  <1>6. CASE Sends
    BY <1>2, <1>6 DEF Sends
  <1>7. ASSUME NEW f \in Frame, Puts(f) PROVE FALSE
    <2>1. ~tested'
      BY Zenon DEF InSession
    <2> QED BY <1>2, <1>7, <2>1 DEF Puts
  <1>8. ASSUME NEW f \in Frame, Takes(f) \/ StationTakes(f) PROVE FALSE
    BY <1>2, <1>8 DEF Takes, StationTakes
  <1>9. ASSUME NEW f \in Frame, StationSends(f) PROVE FALSE
    BY <1>2, <1>9 DEF StationSends
  <1> QED BY <1>1, <1>3, <1>4, <1>5, <1>6, <1>7, <1>8, <1>9 DEF Move

\* In a session, a step of the link is one of the service, or none.
LEMMA ServiceMoves ==
  ASSUME TypeOK, InSession, InSession', SessionMoves, InAcks, OutAcks, Connected
  PROVE  [Service!Next]_(Service!vars)
  <1> DEFINE snt == Sides(NS, pVS)
             rcv == Sides(pVR, NR)
             ack == Sides(NS - peerNoAckNum, pAcked)
  <1>1. /\ snt = Pair(NS, pVS) /\ rcv = Pair(pVR, NR) /\ ack = Pair(Due, pAcked)
        /\ snt' = Pair(NS', pVS') /\ rcv' = Pair(pVR', NR') /\ ack' = Pair(Due', pAcked')
    BY SidesAre
  <1>2. Service!Next \/ UNCHANGED <<InSession, snt, rcv, ack>> => [Service!Next]_(Service!vars)
    BY DEF Service!vars
  <1>3. Due \in 0..pVR /\ pAcked \in 0..NR /\ pVR \in Nat /\ NR \in Nat
    <2>1. net = "up" /\ clean /\ ~tested
      BY DEF InSession, OnCleanLink
    <2>2. Reading
      BY <2>1, Zenon DEF Connected, SocketKnown, Reading
    <2>3. Due \in 0..pVR /\ pAcked <= NR
      BY <2>1, <2>2 DEF InAcks, InSight, OutAcks, OnCleanLink
    <2>4. pAcked \in Nat /\ NR \in Nat /\ pVR \in Nat
      BY ConstantsAssumption DEF TypeOK, NumbersTyped
    <2> QED BY <2>3, <2>4
  <1>4. ASSUME UNCHANGED served PROVE UNCHANGED <<InSession, snt, rcv, ack>>
    <2>1. snt' = snt /\ rcv' = rcv /\ ack' = ack
      BY <1>1, <1>4 DEF served
    <2> HIDE DEF snt, rcv, ack
    <2> QED BY <2>1
  <1>5. "master" \in Service!Sides /\ "station" \in Service!Sides
        /\ Service!Other("master") = "station" /\ Service!Other("station") = "master"
    BY DEF Service!Sides, Service!Other
  <1>p. /\ \A m, s : Pair(m, s)["master"] = m /\ Pair(m, s)["station"] = s
        /\ \A m, s, x : [Pair(m, s) EXCEPT !["master"] = x] = Pair(x, s)
        /\ \A m, s, x : [Pair(m, s) EXCEPT !["station"] = x] = Pair(m, x)
    BY PairParts
  <1>s. ASSUME NEW d \in Service!Sides, Service!Send(d) \/ Service!Deliver(d) \/ Service!Acknowledge(d)
        PROVE  Service!Next
    BY <1>s DEF Service!Next
  <1>6. ASSUME NS' = NS + 1, UNCHANGED <<pVS, pVR, NR, Due, pAcked>>
        PROVE  Service!Send("master")
    <2>1. snt' = Pair(NS + 1, pVS) /\ snt' = [snt EXCEPT !["master"] = snt["master"] + 1]
      BY <1>1, <1>6, <1>p
    <2>2. rcv' = rcv /\ ack' = ack
      BY <1>1, <1>6
    <2> HIDE DEF snt, rcv, ack
    <2> QED BY <2>1, <2>2 DEF Service!Send, snt, rcv, ack
  <1>7. ASSUME pVS' = pVS + 1, UNCHANGED <<NS, pVR, NR, Due, pAcked>>
        PROVE  Service!Send("station")
    <2>1. snt' = Pair(NS, pVS + 1) /\ snt' = [snt EXCEPT !["station"] = snt["station"] + 1]
      BY <1>1, <1>7, <1>p
    <2>2. rcv' = rcv /\ ack' = ack
      BY <1>1, <1>7
    <2> HIDE DEF snt, rcv, ack
    <2> QED BY <2>1, <2>2 DEF Service!Send, snt, rcv, ack
  \* The two ways to learn of an acknowledgement.
  <1>8. ASSUME Due' \in Due..pVR, UNCHANGED <<NS, pVS, pVR, pAcked>>
        PROVE  /\ snt' = snt /\ ack["master"] = Due /\ rcv["master"] = pVR
               /\ ack' = [ack EXCEPT !["master"] = Due'] /\ Due' \in 0..rcv["master"]
    <2>1. Due' \in 0..pVR
      BY <1>3, <1>8
    <2> QED BY <1>1, <1>p, <1>8, <2>1
  <1>9. ASSUME pAcked' \in pAcked..NR, UNCHANGED <<NS, pVS, NR, Due>>
        PROVE  /\ snt' = snt /\ ack["station"] = pAcked /\ rcv["station"] = NR
               /\ ack' = [ack EXCEPT !["station"] = pAcked'] /\ pAcked' \in 0..rcv["station"]
    <2>1. pAcked' \in 0..NR
      BY <1>3, <1>9
    <2> QED BY <1>1, <1>p, <1>9, <2>1
  <1>10. ASSUME pVR < NS, pVR' = pVR + 1, pAcked' \in pAcked..NR, UNCHANGED <<NS, pVS, NR, Due>>
         PROVE  Service!Deliver("master")
    <2>1. rcv' = [rcv EXCEPT !["master"] = rcv["master"] + 1] /\ rcv["master"] = pVR /\ snt["master"] = NS
      BY <1>1, <1>p, <1>10
    <2>2. /\ snt' = snt /\ ack["station"] = pAcked /\ rcv["station"] = NR
          /\ ack' = [ack EXCEPT !["station"] = pAcked'] /\ pAcked' \in 0..rcv["station"]
      BY <1>9, <1>10
    <2> HIDE DEF snt, rcv, ack
    <2>3. \E n \in 0..rcv["station"] : n \in ack["station"]..rcv["station"]
                                       /\ ack' = [ack EXCEPT !["station"] = n]
      BY <1>10, <2>2
    <2> QED BY <1>5, <1>10, <2>1, <2>2, <2>3 DEF Service!Deliver, Service!Learns, snt, rcv, ack
  <1>11. ASSUME NR < pVS, NR' = NR + 1, Due' \in Due..pVR, UNCHANGED <<NS, pVS, pVR, pAcked>>
         PROVE  Service!Deliver("station")
    <2>1. rcv' = [rcv EXCEPT !["station"] = rcv["station"] + 1] /\ rcv["station"] = NR /\ snt["station"] = pVS
      BY <1>1, <1>p, <1>11
    <2>2. /\ snt' = snt /\ ack["master"] = Due /\ rcv["master"] = pVR
          /\ ack' = [ack EXCEPT !["master"] = Due'] /\ Due' \in 0..rcv["master"]
      BY <1>8, <1>11
    <2> HIDE DEF snt, rcv, ack
    <2>3. \E n \in 0..rcv["master"] : n \in ack["master"]..rcv["master"]
                                      /\ ack' = [ack EXCEPT !["master"] = n]
      BY <1>11, <2>2
    <2> QED BY <1>5, <1>11, <2>1, <2>2, <2>3 DEF Service!Deliver, Service!Learns, snt, rcv, ack
  <1>12. ASSUME Due' \in Due..pVR, UNCHANGED <<NS, pVS, pVR, NR, pAcked>>
         PROVE  Service!Acknowledge("master")
    <2>1. rcv' = rcv
      BY <1>1, <1>12
    <2>2. /\ snt' = snt /\ ack["master"] = Due /\ rcv["master"] = pVR
          /\ ack' = [ack EXCEPT !["master"] = Due'] /\ Due' \in 0..rcv["master"]
      BY <1>8, <1>12
    <2> HIDE DEF snt, rcv, ack
    <2>3. \E n \in 0..rcv["master"] : n \in ack["master"]..rcv["master"]
                                      /\ ack' = [ack EXCEPT !["master"] = n]
      BY <1>12, <2>2
    <2> QED BY <2>1, <2>2, <2>3 DEF Service!Acknowledge, Service!Learns, snt, rcv, ack
  <1>13. ASSUME pAcked' \in pAcked..NR, UNCHANGED <<NS, pVS, pVR, NR, Due>>
         PROVE  Service!Acknowledge("station")
    <2>1. rcv' = rcv
      BY <1>1, <1>13
    <2>2. /\ snt' = snt /\ ack["station"] = pAcked /\ rcv["station"] = NR
          /\ ack' = [ack EXCEPT !["station"] = pAcked'] /\ pAcked' \in 0..rcv["station"]
      BY <1>9, <1>13
    <2> HIDE DEF snt, rcv, ack
    <2>3. \E n \in 0..rcv["station"] : n \in ack["station"]..rcv["station"]
                                       /\ ack' = [ack EXCEPT !["station"] = n]
      BY <1>13, <2>2
    <2> QED BY <2>1, <2>2, <2>3 DEF Service!Acknowledge, Service!Learns, snt, rcv, ack
  <1> HIDE DEF snt, rcv, ack
  <1>14. SessionMoves => Service!Next \/ UNCHANGED <<InSession, snt, rcv, ack>>
    BY <1>4, <1>5, <1>s, <1>6, <1>7, <1>10, <1>11, <1>12, <1>13 DEF SessionMoves
  <1> QED BY <1>2, <1>14

\* Every step of the link is one of the service, or none.
LEMMA ServiceStep ==
  ASSUME TypeOK, TypeOK', Connected, HeadersWhole, NumbersLeft, InAcks, OutOrder, OutAcks, [Next]_vars
  PROVE  [Service!Next]_(Service!vars)
  <1> DEFINE snt == Sides(NS, pVS)
             rcv == Sides(pVR, NR)
             ack == Sides(NS - peerNoAckNum, pAcked)
  <1>1. CASE InSession /\ InSession'
    BY <1>1, SessionStep, ServiceMoves
  <1>2. CASE ~InSession /\ ~InSession'
    <2>1. /\ snt = Service!Zero /\ rcv = Service!Zero /\ ack = Service!Zero
          /\ snt' = Service!Zero /\ rcv' = Service!Zero /\ ack' = Service!Zero
      BY <1>2, SidesAre
    <2>2. InSession' = InSession
      BY <1>2, Zenon DEF InSession
    <2> QED BY <2>1, <2>2 DEF Service!vars
  <1>3. CASE InSession /\ ~InSession'
    <2>1. snt' = Service!Zero /\ rcv' = Service!Zero /\ ack' = Service!Zero
      BY <1>3, SidesAre
    <2>2. Service!Close
      BY <1>3, <2>1 DEF Service!Close
    <2> QED BY <2>2 DEF Service!Next
  <1>4. CASE ~InSession /\ InSession'
    <2>1. NS' = 0 /\ pVS' = 0 /\ pVR' = 0 /\ NR' = 0 /\ Due' = 0 /\ pAcked' = 0
      BY <1>4, SessionOpens
    <2>2. /\ snt = Service!Zero /\ rcv = Service!Zero /\ ack = Service!Zero
          /\ snt' = Pair(0, 0) /\ rcv' = Pair(0, 0) /\ ack' = Pair(0, 0)
      BY <1>4, <2>1, SidesAre
    <2>3. Pair(0, 0) = Service!Zero
      BY DEF Pair, Service!Zero, Service!Sides
    <2>4. snt' = snt /\ rcv' = rcv /\ ack' = ack
      BY <2>2, <2>3
    <2>5. Service!Open
      BY <1>4, <2>4 DEF Service!Open
    <2> QED BY <2>5 DEF Service!Next
  <1> QED BY <1>1, <1>2, <1>3, <1>4

\* Master and station implement the service of a 104 link: in each direction
\* the I frames arrive in the order of their numbers, each once, and neither
\* side takes as acknowledged what the other has not received.
THEOREM LinkImplementsService == Spec /\ []HeadersWhole /\ []NumbersLeft => ServiceSpec
  <1>1. Init => InAcks /\ OutOrder /\ OutAcks
    BY Zenon DEF Init, InAcks, InSight, OutOrder, OutAcks, OnCleanLink
  <1>2. Init => Service!Init
    <2> SUFFICES ASSUME Init PROVE Service!Init
      OBVIOUS
    <2>1. ~InSession
      BY Zenon DEF Init, InSession, OnCleanLink
    <2> QED BY <2>1, SidesAre DEF Service!Init, Service!Closed
  <1>3. TypeOK /\ Connected /\ NumbersLeft /\ OutOrder /\ [Next]_vars => OutOrder'
    BY OutOrderStep
  <1>4. TypeOK /\ TypeOK' /\ Connected /\ NumbersLeft /\ OutOrder /\ InAcks /\ [Next]_vars => InAcks'
    BY InAcksStep
  <1>5. TypeOK /\ Connected /\ HeadersWhole /\ NumbersLeft /\ OutAcks /\ [Next]_vars => OutAcks'
    BY OutAcksStep
  <1>6. /\ TypeOK /\ TypeOK' /\ Connected /\ HeadersWhole /\ NumbersLeft /\ InAcks /\ OutOrder /\ OutAcks
        /\ [Next]_vars
        => [Service!Next]_(Service!vars)
    BY ServiceStep
  <1> QED BY <1>1, <1>2, <1>3, <1>4, <1>5, <1>6, TypeCorrect, ConnectedAlways, PTL
          DEF Spec, ServiceSpec, Service!Spec

-----------------------------------------------------------------------------
(* The start of the link, when no other module of the gateway sends.       *)

AfterTimer == pc \in {"t1", "ack", "t3", "app"}

\* The master asks for nothing before the station has confirmed STARTDT.
AskedFirst ==
  /\ noticed => sendDateType = {}
  /\ OnCleanLink => (AfterTimer \/ sendDateType # {} => appConnect)

LEMMA AskedStep ==
  ASSUME Commands = {}, TypeOK, Connected, AskedFirst, [Next]_vars
  PROVE  AskedFirst'
  <1> USE DEF KeepLink, StopLink, PeerKeep, Consume, masterVars, seqVars, rxdVars, appVars, outerVars
  <1>a. noticed => pc = "net" /\ ~running
    BY Zenon DEF Connected, FreshStart
  <1>b. ~running => net = "down"
    BY Zenon DEF Connected, SocketKnown
  <1>1. ASSUME noticed' PROVE sendDateType' = {}
    <2>1. CASE UNCHANGED <<noticed, sendDateType>>
      <3>1. noticed
        BY <1>1, <2>1, Zenon
      <3> QED BY <2>1, <3>1, Zenon DEF AskedFirst
    <2>2. CASE NetTest
      <3>1. CASE running
        <4>1. UNCHANGED <<noticed, sendDateType>>
          BY <2>2, <3>1 DEF NetTest
        <4> QED BY <2>1, <4>1
      <3>2. CASE ~running
        BY <2>2, <3>2 DEF NetTest, AppInitReset, ResetLink
      <3> QED BY <3>1, <3>2
    <2>3. CASE Read \/ SendProcess \/ LinkOnTimer
      <3>1. UNCHANGED noticed /\ pc # "net"
        BY <2>3 DEF Read, ReadNothing, DecodeSFrame, DecodeUFrame, DecodeIFrame, SendProcess,
                    LinkOnTimer, StartdtDue, StartdtNotDue, T1Expired, T1Running, AckDue, AckNotDue,
                    T3Expired, T3Running, QueueRequests
      <3> QED BY <1>a, <1>1, <3>1, Zenon
    <2>4. CASE OtherStore
      BY <2>4 DEF OtherStore
    <2>5. CASE ClientConnect
      BY <1>1, <2>5, Zenon DEF ClientConnect
    <2>6. CASE OtherLoad \/ ClientRead \/ ClientWrite \/ ClientLost \/ Environment \/ UNCHANGED vars
      <3>1. UNCHANGED <<noticed, sendDateType>>
        BY <2>6 DEF OtherLoad, ClientRead, ClientWrite, ClientLost, Environment, PeerReceive, PeerReject, PeerSendI,
                    PeerSendS, PeerSendU, ConnectionBreaks, vars
      <3> QED BY <2>1, <3>1
    <2> QED BY <2>2, <2>3, <2>4, <2>5, <2>6 DEF Next, Clock, Client, Exited
  <1>2. ASSUME OnCleanLink', AfterTimer' \/ sendDateType' # {} PROVE appConnect'
    <2>a. clean' /\ net' = "up"
      BY <1>2, Zenon DEF OnCleanLink
    <2>1. ASSUME UNCHANGED <<net, pc, sendDateType, appConnect>>, clean' => clean PROVE appConnect'
      <3>1. OnCleanLink /\ (AfterTimer \/ sendDateType # {})
        BY <1>2, <2>a, <2>1 DEF OnCleanLink, AfterTimer
      <3> QED BY <2>1, <3>1, Zenon DEF AskedFirst
    <2>2. ASSUME UNCHANGED <<net, clean>>, sendDateType' \subseteq sendDateType, pc' \notin {"t1", "ack", "t3", "app"},
                 appConnect => appConnect'
          PROVE  appConnect'
      <3>1. OnCleanLink /\ sendDateType # {}
        BY <1>2, <2>a, <2>2 DEF OnCleanLink, AfterTimer
      <3> QED BY <2>2, <3>1, Zenon DEF AskedFirst
    <2>3. ASSUME UNCHANGED <<net, clean, appConnect>>, AfterTimer PROVE appConnect'
      <3>1. OnCleanLink
        BY <2>a, <2>3 DEF OnCleanLink
      <3> QED BY <2>3, <3>1, Zenon DEF AskedFirst
    <2>4. CASE NetTest
      <3>1. CASE running
        BY <2>2, <2>4, <3>1 DEF NetTest
      <3>2. CASE ~running
        <4>1. net' = net
          BY <2>4, <3>2 DEF NetTest
        <4> QED BY <1>b, <2>a, <3>2, <4>1
      <3> QED BY <3>1, <3>2
    <2>5. CASE Read
      <3>1. CASE ReadNothing
        BY <2>2, <3>1 DEF ReadNothing
      <3>2. CASE ~ReadNothing
        <4>1. PICK d \in Decodable : DecodeSFrame(d[1], d[2]) \/ DecodeUFrame(d[1], d[2]) \/ DecodeIFrame(d[1], d[2])
          BY <2>5, <3>2 DEF Read
        <4>2. CASE DecodeSFrame(d[1], d[2])
          BY <2>a, <2>2, <4>2 DEF DecodeSFrame, AbortOnAck
        <4>3. CASE DecodeUFrame(d[1], d[2])
          <5>1. pc' = "send" /\ UNCHANGED <<net, clean>>
            BY <4>3 DEF DecodeUFrame
          <5>2. CASE d[1].k = "STOPDT_CON"
            <6>1. sendDateType' = {}
              BY <4>3, <5>2 DEF DecodeUFrame, ResetLink
            <6> QED BY <1>2, <5>1, <6>1 DEF AfterTimer
          <5>3. CASE d[1].k # "STOPDT_CON"
            <6>1. sendDateType' = sendDateType /\ appConnect' = Started(d[1])
              BY <4>3, <5>3 DEF DecodeUFrame
            <6>2. appConnect => appConnect'
              BY <6>1, Zenon DEF Started
            <6> QED BY <2>2, <5>1, <6>1, <6>2
          <5> QED BY <5>2, <5>3
        <4>4. CASE DecodeIFrame(d[1], d[2])
          BY <2>a, <2>2, <4>4 DEF DecodeIFrame, AbortOnAck
        <4> QED BY <4>1, <4>2, <4>3, <4>4
      <3> QED BY <3>1, <3>2
    <2>6. CASE SendProcess
      BY <2>2, <2>6 DEF SendProcess
    <2>7. CASE StartdtDue
      BY <2>2, <2>7 DEF StartdtDue
    <2>8. CASE StartdtNotDue
      <3>1. CASE appConnect
        BY <2>8, <3>1 DEF StartdtNotDue
      <3>2. CASE ~appConnect
        BY <2>2, <2>8, <3>2 DEF StartdtNotDue
      <3> QED BY <3>1, <3>2
    <2>9. CASE T1Expired
      BY <2>a, <2>9 DEF T1Expired
    <2>10. CASE T1Running \/ AckDue \/ AckNotDue \/ T3Expired \/ T3Running \/ QueueRequests
      <3>1. UNCHANGED <<net, clean, appConnect>> /\ AfterTimer
        BY <2>10 DEF T1Running, AckDue, AckNotDue, T3Expired, T3Running, QueueRequests, AfterTimer
      <3> QED BY <2>3, <3>1
    <2>11. CASE OtherStore
      BY <2>11 DEF OtherStore
    <2>12. CASE ClientConnect
      <3>1. noticed /\ UNCHANGED <<pc, sendDateType>>
        <4>1. noticed
          BY <2>a, <2>12, Zenon DEF ClientConnect
        <4> QED BY <2>12, <4>1 DEF ClientConnect
      <3>2. pc = "net" /\ sendDateType = {}
        BY <1>a, <3>1, Zenon DEF AskedFirst
      <3> QED BY <1>2, <3>1, <3>2 DEF AfterTimer
    <2>13. CASE ClientLost
      BY <2>a, <2>13 DEF ClientLost
    <2>14. CASE OtherLoad \/ ClientRead \/ ClientWrite \/ UNCHANGED vars
      BY <2>1, <2>14 DEF OtherLoad, ClientRead, ClientWrite, vars
    <2>15. CASE Environment
      <3>1. UNCHANGED <<pc, sendDateType, appConnect>>
        BY <2>15 DEF Environment, PeerReceive, PeerReject, PeerSendI, PeerSendS, PeerSendU, ConnectionBreaks
      <3>2. net' = net
        BY <2>a, <2>15 DEF Environment, PeerReceive, PeerReject, PeerSendI, PeerSendS, PeerSendU, ConnectionBreaks
      <3>3. clean' = clean \/ clean' = FALSE
        BY <2>15 DEF Environment, PeerReceive, PeerReject, PeerSendI, PeerSendS, PeerSendU, ConnectionBreaks
      <3>4. clean' => clean
        BY <3>3, Zenon
      <3> QED BY <2>1, <3>1, <3>2, <3>4
    <2> QED BY <2>4, <2>5, <2>6, <2>7, <2>8, <2>9, <2>10, <2>11, <2>12, <2>13, <2>14, <2>15
            DEF Next, Clock, LinkOnTimer, Client, Exited
  <1> QED BY <1>1, <1>2 DEF AskedFirst

\* Only a confirmation that is decoded sets App.Connect.
LEMMA ConfirmedByDecoding ==
  ASSUME TypeOK, [Next]_vars, appConnect'
  PROVE  appConnect \/ (pc = "read" /\ \E d \in Decodable : d[1].k = "STARTDT_CON")
  <1> USE DEF KeepLink, StopLink, PeerKeep, Consume, masterVars, seqVars, rxdVars, appVars, outerVars
  <1>1. ASSUME appConnect' = appConnect \/ appConnect' = FALSE PROVE appConnect
    BY <1>1, Zenon
  <1>2. CASE NetTest \/ SendProcess \/ LinkOnTimer
    <2>1. appConnect' = appConnect \/ appConnect' = FALSE
      BY <1>2 DEF NetTest, AppInitReset, ResetLink, SendProcess, LinkOnTimer, StartdtDue, StartdtNotDue, T1Expired,
                  T1Running, AckDue, AckNotDue, T3Expired, T3Running, QueueRequests
    <2> QED BY <1>1, <2>1
  <1>3. CASE Read
    <2>1. CASE ReadNothing
      BY <1>1, <2>1 DEF ReadNothing
    <2>2. CASE ~ReadNothing
      <3>1. PICK d \in Decodable : DecodeSFrame(d[1], d[2]) \/ DecodeUFrame(d[1], d[2]) \/ DecodeIFrame(d[1], d[2])
        BY <1>3, <2>2 DEF Read
      <3>2. CASE DecodeSFrame(d[1], d[2]) \/ DecodeIFrame(d[1], d[2])
        <4>1. appConnect' = appConnect \/ appConnect' = FALSE
          BY <3>2 DEF DecodeSFrame, DecodeIFrame, AbortOnAck, ResetLink
        <4> QED BY <1>1, <4>1
      <3>3. CASE DecodeUFrame(d[1], d[2])
        <4>1. appConnect' = FALSE \/ appConnect' = Started(d[1])
          BY <3>3 DEF DecodeUFrame, ResetLink
        <4>2. appConnect \/ d[1].k = "STARTDT_CON"
          BY <4>1, Zenon DEF Started
        <4>3. pc = "read"
          BY <1>3, <2>2 DEF Read
        <4> QED BY <3>1, <4>2, <4>3
      <3> QED BY <3>1, <3>2, <3>3
    <2> QED BY <2>1, <2>2
  <1>4. CASE OtherLoad \/ OtherStore \/ Client \/ Environment \/ UNCHANGED vars
    <2>1. appConnect' = appConnect
      BY <1>4 DEF OtherLoad, OtherStore, Client, ClientConnect, ClientRead, ClientWrite, ClientLost, Environment,
                  PeerReceive, PeerReject, PeerSendI, PeerSendS, PeerSendU, ConnectionBreaks, vars
    <2> QED BY <1>1, <2>1
  <1> QED BY <1>2, <1>3, <1>4 DEF Next, Clock, Exited

\* The master knows of the start only what the station said, and has sent
\* nothing to a station that has not started.
StartedFirst ==
  OnCleanLink =>
    /\ appConnect => pStarted
    /\ ~pStarted => Without(Coming, "STARTDT_CON") /\ Without(Going, "I")

LEMMA StartedStep ==
  ASSUME TypeOK, TypeOK', Connected, AskedFirst, StartedFirst, [Next]_vars
  PROVE  StartedFirst'
  <1> DEFINE Goal == /\ appConnect' => pStarted'
                     /\ ~pStarted' => Without(Coming', "STARTDT_CON") /\ Without(Going', "I")
  <1> SUFFICES ASSUME OnCleanLink' PROVE Goal
    BY DEF StartedFirst
  <1>a. clean' /\ net' = "up"
    BY Zenon DEF OnCleanLink
  <1>b. /\ Coming \in Seq(Frame) /\ Going \in Seq(Frame)
        /\ Coming' \in Seq(Frame) /\ Going' \in Seq(Frame)
    BY BuffersFlow, BuffersNext DEF TypeOK
  <1>c. ASSUME OnCleanLink, appConnect' PROVE pStarted
    <2>1. SUFFICES ASSUME ~pStarted PROVE FALSE
      BY Zenon
    <2>2. ~appConnect /\ Without(Coming, "STARTDT_CON")
      BY <1>c, <2>1, Zenon DEF StartedFirst
    <2>3. PICK d \in Decodable : d[1].k = "STARTDT_CON"
      BY <1>c, <2>2, ConfirmedByDecoding, Zenon
    <2>4. d[1] # ZeroedFrame
      BY <2>3 DEF ZeroedFrame, IFrame
    <2> QED BY <2>2, <2>3, <2>4, DecodedComes DEF TypeOK, Without
  <1>1. Move
    BY MoveStep
  <1> USE DEF counters, atStation, socket
  <1>2. ASSUME OnCleanLink, pStarted' = pStarted,
               Without(Coming, "STARTDT_CON") => Without(Coming', "STARTDT_CON"),
               Without(Going, "I") => Without(Going', "I")
        PROVE  Goal
    <2>1. appConnect' => pStarted'
      BY <1>2, <1>c, Zenon
    <2>2. ~pStarted' => Without(Coming', "STARTDT_CON") /\ Without(Going', "I")
      BY <1>2, Zenon DEF StartedFirst
    <2> QED BY <2>1, <2>2
  <1>3. ASSUME Stays PROVE Goal
    <2>1. OnCleanLink /\ pStarted' = pStarted /\ Coming' = Coming /\ Going' = Going
      BY <1>a, <1>3 DEF Stays, OnCleanLink
    <2> QED BY <1>2, <2>1
  <1>4. ASSUME Ends \/ Breaks PROVE Goal
    BY <1>a, <1>4 DEF Ends, Breaks
  <1>5. ASSUME Opens PROVE Goal
    <2>1. noticed /\ Coming' = <<>> /\ Going' = <<>>
      BY <1>a, <1>5, Zenon DEF Opens
    <2>2. pc = "net" /\ ~appConnect
      BY <2>1, Zenon DEF Connected, FreshStart
    <2>3. ~appConnect'
      <3>1. pc # "read"
        BY <2>2
      <3> QED BY <2>2, <3>1, ConfirmedByDecoding, Zenon
    <2>4. Without(<<>>, "STARTDT_CON") /\ Without(<<>>, "I")
      BY NothingUnderWay
    <2> QED BY <2>1, <2>3, <2>4
  <1>6. ASSUME Sends PROVE Goal
    <2>1. OnCleanLink /\ pStarted' = pStarted /\ sendDateType # {}
      BY <1>a, <1>6 DEF Sends, OnCleanLink
    <2>2. appConnect
      BY <2>1, Zenon DEF AskedFirst
    <2>3. pStarted
      BY <2>1, <2>2, Zenon DEF StartedFirst
    <2>4. pStarted'
      BY <2>1, <2>3, Zenon
    <2> QED BY <2>4
  <1>7. ASSUME NEW f \in Frame, f.k # "I"
        PROVE  Without(Going, "I") => Without(Append(Going, f), "I")
    BY <1>b, <1>7, WithoutAdded
  <1>8. ASSUME NEW f \in Frame, Puts(f) PROVE Goal
    <2>1. OnCleanLink /\ pStarted' = pStarted /\ Coming' = Coming /\ Going' = Append(Going, f)
      BY <1>a, <1>8 DEF Puts, OnCleanLink
    <2>2. f.k # "I"
      BY <1>8 DEF Puts, SFrame, UFrame
    <2> QED BY <1>2, <1>7, <2>1, <2>2
  <1>9. ASSUME NEW f \in Frame, Takes(f) PROVE Goal
    <2>1. OnCleanLink /\ pStarted' = pStarted /\ Decoded(f)
      BY <1>a, <1>9 DEF Takes, OnCleanLink
    <2>2. Without(Coming, "STARTDT_CON") => Without(Coming', "STARTDT_CON")
      <3>1. CASE Coming' = Coming
        BY <3>1
      <3>2. CASE FirstGone(f)
        <4>1. PICK k : Leaves(Coming, k, Coming') /\ Coming[k] = f
          BY <3>2, FrameGone
        <4> QED BY <1>b, <4>1, WithoutTaken
      <3> QED BY <2>1, <3>1, <3>2 DEF Decoded
    <2>3. Without(Going, "I") => Without(Going', "I")
      <3>1. Going' = Going \/ Going' = Append(Going, UFrame("TESTFR_CON"))
        BY <1>9 DEF Takes
      <3>2. UFrame("TESTFR_CON") \in Frame /\ UFrame("TESTFR_CON").k # "I"
        BY Kinds DEF UKinds
      <3> QED BY <1>7, <3>1, <3>2
    <2> QED BY <1>2, <2>1, <2>2, <2>3
  <1>10. ASSUME NEW f \in Frame, StationTakes(f) PROVE Goal
    <2>1. /\ OnCleanLink /\ Going # <<>> /\ Going' = Tail(Going)
      BY <1>a, <1>10 DEF StationTakes, OnCleanLink
    <2>2. Without(Going, "I") => Without(Going', "I")
      <3> DEFINE t == Tail(Going)
      <3>1. t \in Seq(Frame) /\ Leaves(Going, 1, t) /\ Going' = t
        BY <1>b, <2>1, HeadGone
      <3> HIDE DEF t
      <3> QED BY <1>b, <3>1, WithoutTaken
    <2>3. CASE pStarted'
      BY <2>3
    <2>4. CASE ~pStarted'
      <3>1. /\ pStarted' = pStarted
            /\ Coming' = Coming \/ Coming' = Append(Coming, UFrame("TESTFR_CON"))
        BY <1>10, <2>4 DEF StationTakes
      <3>2. UFrame("TESTFR_CON") \in Frame /\ UFrame("TESTFR_CON").k # "STARTDT_CON"
        BY Kinds DEF UKinds
      <3> DEFINE y == UFrame("TESTFR_CON")
      <3> HIDE DEF y
      <3>3. Without(Coming, "STARTDT_CON") => Without(Append(Coming, y), "STARTDT_CON")
        BY <1>b, <3>2, WithoutAdded DEF y
      <3>4. Without(Coming, "STARTDT_CON") => Without(Coming', "STARTDT_CON")
        BY <3>1, <3>3 DEF y
      <3> QED BY <1>2, <2>1, <2>2, <3>1, <3>4
    <2> QED BY <2>3, <2>4
  <1>11. ASSUME NEW f \in Frame, StationSends(f) PROVE Goal
    <2>1. clean /\ pStarted' = pStarted
      BY <1>a, <1>11, Zenon DEF StationSends
    <2>2. OnCleanLink /\ Going' = Going
      BY <1>a, <1>11, <2>1 DEF StationSends, OnCleanLink
    <2>3. f.k # "STARTDT_CON"
      <3>1. CASE f.k = "I"
        BY <3>1
      <3>2. CASE f.k # "I"
        <4>1. f \in {SFrame(pVR), UFrame("TESTFR_ACT"), UFrame("STOPDT_CON")}
          BY <1>11, <3>2 DEF StationSends
        <4> QED BY <4>1 DEF SFrame, UFrame
      <3> QED BY <3>1, <3>2
    <2>4. Without(Coming, "STARTDT_CON") => Without(Coming', "STARTDT_CON")
      <3> SUFFICES ASSUME Without(Coming, "STARTDT_CON") PROVE Without(Coming', "STARTDT_CON")
        OBVIOUS
      <3> DEFINE c == Append(Coming, HeaderToken)
      <3>1. HeaderToken \in Frame /\ HeaderToken.k # "STARTDT_CON"
        BY Kinds
      <3>2. c \in Seq(Frame) /\ Without(c, "STARTDT_CON")
        BY <1>b, <3>1, AddedBehind, WithoutAdded
      <3> HIDE DEF c
      <3>3. Without(Append(c, f), "STARTDT_CON") /\ Without(Append(Coming, f), "STARTDT_CON")
        BY <1>b, <2>3, <3>2, WithoutAdded
      <3>4. Coming' = Append(Coming, f) \/ Coming' = Append(c, f)
        BY <1>11 DEF StationSends, c
      <3> QED BY <3>3, <3>4
    <2> QED BY <1>2, <2>1, <2>2, <2>4
  <1> QED BY <1>1, <1>3, <1>4, <1>5, <1>6, <1>8, <1>9, <1>10, <1>11 DEF Move

\* An acknowledgement between what the station knows and what it has sent.
LEMMA AckValid ==
  ASSUME NEW n \in Int, pAcked \in 0..SeqMax, pVS \in 0..SeqMax, n \in pAcked..pVS
  PROVE  ValidAck(n)
  <1>1. SeqMax \in Nat
    BY ConstantsAssumption
  <1>2. pVS - n \in 0..SeqMax /\ pVS - pAcked \in 0..SeqMax /\ pVS - n <= pVS - pAcked
    BY <1>1
  <1>3. ASSUME NEW x \in 0..SeqMax PROVE x % (SeqMax + 1) = x
    <2>1. x \in 0..((SeqMax + 1) - 1) /\ SeqMax + 1 \in Nat \ {0}
      BY <1>1
    <2> QED BY <2>1, RestOfSmall
  <1>4. Between(n, pVS) = pVS - n /\ Between(pAcked, pVS) = pVS - pAcked
    BY <1>2, <1>3 DEF Between
  <1> HIDE DEF Between
  <1> QED BY <1>2, <1>4 DEF ValidAck

\* The next frame under way is one that the station accepts.
LEMMA NextAccepted ==
  ASSUME TypeOK, OutOrder, OutAcks, StartedFirst, OnCleanLink, Going # <<>>
  PROVE  /\ Counted(Head(Going)) => ValidAck(Head(Going).nr)
         /\ Head(Going).k = "I" => pStarted /\ Head(Going).ns = pVR
  <1>0. /\ NS \in Int /\ pVR \in Int /\ NR \in Int /\ pAcked \in 0..SeqMax /\ pVS \in 0..SeqMax /\ pAcked \in Int
        /\ SeqMax \in Nat
    BY ConstantsAssumption DEF TypeOK, NumbersTyped
  <1>1. Going \in Seq(Frame)
    BY BuffersFlow DEF TypeOK
  <1>2. Numbered(Going, pVR, NS) /\ Acks(Going, pAcked, NR) /\ NR <= pVS
    BY OutAcksBounds DEF OutOrder, OutAcks
  <1> DEFINE t == Tail(Going)
             f == Head(Going)
  <1>3. t \in Seq(Frame) /\ Leaves(Going, 1, t) /\ Going[1] = f
    BY <1>1, HeadGone
  <1> HIDE DEF t, f
  <1>4. Counted(f) => f.nr \in pAcked..NR
    BY <1>0, <1>1, <1>2, <1>3, AcksTaken
  <1>5. f.k = "I" => f.ns = pVR
    BY <1>0, <1>1, <1>2, <1>3, NumberedTaken
  <1>6. ASSUME Counted(f) PROVE ValidAck(f.nr)
    <2> DEFINE r == f.nr
    <2> HIDE DEF r
    <2>1. r \in Int /\ r \in pAcked..pVS
      BY <1>0, <1>2, <1>4, <1>6 DEF r
    <2> QED BY <1>0, <2>1, AckValid DEF r
  <1>7. ASSUME f.k = "I" PROVE pStarted
    <2>1. SUFFICES ASSUME ~pStarted PROVE FALSE
      BY Zenon
    <2>2. Without(Going, "I")
      BY <2>1, Zenon DEF StartedFirst
    <2> QED BY <1>1, <1>3, <1>7, <2>2, WithoutTaken
  <1> QED BY <1>5, <1>6, <1>7 DEF f

LEMMA AcceptStep ==
  ASSUME TypeOK, Connected, OutOrder, OutAcks, StartedFirst, StationAccepts, [Next]_vars
  PROVE  StationAccepts'
  <1> SUFFICES ASSUME clean', rejected' PROVE FALSE
    BY DEF StationAccepts
  <1>1. ASSUME rejected' = rejected, clean' = clean \/ clean' = FALSE PROVE FALSE
    BY <1>1, Zenon DEF StationAccepts
  <1>2. CASE PeerReject
    <2>1. net = "up" /\ toPeer # <<>> /\ clean' = clean
      BY <1>2 DEF PeerReject, PeerKeep, outerVars
    <2>2. OnCleanLink
      BY <2>1 DEF OnCleanLink
    <2>3. toPeer \in Seq(Frame) /\ txBuf \in Seq(Frame)
      BY DEF TypeOK, BuffersTyped
    <2>4. Going # <<>> /\ Head(Going) = Head(toPeer)
      BY <2>1, <2>3, HeadOfConcat DEF Going
    <2> DEFINE f == Head(toPeer)
    <2>5. /\ Counted(f) => ValidAck(f.nr)
          /\ f.k = "I" => pStarted /\ f.ns = pVR
      BY <2>2, <2>4, NextAccepted
    <2>6. \/ f.k \in {"S", "I"} /\ ~ValidAck(f.nr)
          \/ f.k = "I" /\ (~pStarted \/ f.ns # pVR)
      BY <1>2, Zenon DEF PeerReject
    <2> HIDE DEF f
    <2> QED BY <2>5, <2>6 DEF Counted
  <1>3. CASE ClientConnect
    BY <1>3, Zenon DEF ClientConnect
  <1>4. CASE Clock \/ OtherLoad \/ OtherStore \/ UNCHANGED vars \/ ClientRead \/ ClientWrite \/ ClientLost
    <2>1. rejected' = rejected /\ clean' = clean
      BY <1>4 DEF Clock, NetTest, Read, ReadNothing, DecodeSFrame, DecodeUFrame, DecodeIFrame, SendProcess, LinkOnTimer,
                  StartdtDue, StartdtNotDue, T1Expired, T1Running, AckDue, AckNotDue, T3Expired, T3Running,
                  QueueRequests, OtherLoad, OtherStore, vars, ClientRead, ClientWrite, ClientLost, peerVars, outerVars
    <2> QED BY <1>1, <2>1
  <1>5. CASE PeerReceive \/ PeerSendI \/ PeerSendS \/ PeerSendU \/ ConnectionBreaks
    <2>1. rejected' = rejected
      BY <1>5 DEF PeerReceive, PeerSendI, PeerSendS, PeerSendU, ConnectionBreaks, peerVars
    <2>2. clean' = clean \/ clean' = FALSE
      BY <1>5 DEF PeerReceive, PeerSendI, PeerSendS, PeerSendU, ConnectionBreaks, PeerKeep, outerVars
    <2> QED BY <1>1, <2>1, <2>2
  <1> QED BY <1>2, <1>3, <1>4, <1>5 DEF Next, Client, Environment, Exited

\* A station that follows the standard never closes a connection begun clean
\* for what the master sends: its I frames are numbered without gap, its
\* acknowledgements neither step back nor run ahead, and none of its data
\* precedes STARTDT, as long as no other module asks it to send (the
\* callbacks do not look at App.Connect).
THEOREM LinkStationAccepts ==
  ASSUME Commands = {}
  PROVE  Spec /\ []HeadersWhole /\ []NumbersLeft => []StationAccepts
  <1>1. Init => OutOrder /\ OutAcks
    BY Zenon DEF Init, OutOrder, OutAcks, OnCleanLink
  <1>2. Init => AskedFirst /\ StartedFirst /\ StationAccepts
    BY Zenon DEF Init, AskedFirst, StartedFirst, StationAccepts, OnCleanLink
  <1>3. TypeOK /\ Connected /\ NumbersLeft /\ OutOrder /\ [Next]_vars => OutOrder'
    BY OutOrderStep
  <1>4. TypeOK /\ Connected /\ HeadersWhole /\ NumbersLeft /\ OutAcks /\ [Next]_vars => OutAcks'
    BY OutAcksStep
  <1>5. TypeOK /\ Connected /\ AskedFirst /\ [Next]_vars => AskedFirst'
    BY AskedStep
  <1>6. TypeOK /\ TypeOK' /\ Connected /\ AskedFirst /\ StartedFirst /\ [Next]_vars => StartedFirst'
    BY StartedStep
  <1>7. /\ TypeOK /\ Connected /\ OutOrder /\ OutAcks /\ StartedFirst /\ StationAccepts /\ [Next]_vars
        => StationAccepts'
    BY AcceptStep
  <1> QED BY <1>1, <1>2, <1>3, <1>4, <1>5, <1>6, <1>7, TypeCorrect, ConnectedAlways, PTL DEF Spec

=============================================================================
