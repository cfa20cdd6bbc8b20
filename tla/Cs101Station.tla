----------------------------- MODULE Cs101Station -----------------------------
(***************************************************************************)
(* The unbalanced 101 slave (slave101/cs101SlaveApp.c): one thread per     *)
(* link that reads what has arrived, frame by frame, and then answers once *)
(* (CS101_Slave_Clock).  A request is new if it is unnumbered, if its FCB  *)
(* differs from the last one's or if it is the first since a reset; a      *)
(* repeated one makes the last answer go out again.                        *)
(*                                                                         *)
(* Not modelled: balanced mode, and the spontaneous classes of data, for   *)
(* which the data base behind the slave is empty in this version, and the  *)
(* timers of CS101_Slave_LinkOnTimer, whose clock stands still             *)
(* (CS101_Slave_getAlarmOfMs returns 0).                                   *)
(***************************************************************************)
EXTENDS Cs101Line

CONSTANTS
  Store1Max,  \* replies kept for class 1: CS101_SLAVE_STOREDATA1NUM - 1
  Store2Max,  \* for class 2: CS101_SLAVE_STOREDATA2NUM - 1
  MaxRetry    \* CS101_SLAVE_NUMOF_MAXRETRY

ASSUME StationAssumption ==
  Store1Max \in Nat /\ Store2Max \in Nat /\ MaxRetry \in Nat

VARIABLE station \* CS101_Slave_App of each

\* asked: the bits REQSTATUS, RECONFIRM, REDATA1, REDATA2 of LinkFlag;
\* initEnd, first: its bits INITEND and FIRST_RlaConCode;
\* fcb, noTurn: of RlaConCode, and FCBNoTurnNum;
\* data1: Data1Flag; stage: AllDataFlag and the addresses that go with it;
\* store1, store2: how many replies wait in StoreDATA1Buf and StoreDATA2Buf;
\* lastTx: TxdBuf_Pri; initflag: the static of CS101_Slave_DecodeFrame10.
StationStates ==
  [asked : SUBSET {"status", "confirm", "class1", "class2"},
   initEnd : BOOLEAN, first : BOOLEAN, fcb : 0..1, noTurn : 0..MaxRetry,
   data1 : SUBSET {"init", "call", "stored"}, stage : 0..Ended,
   store1 : 0..Store1Max, store2 : 0..Store2Max,
   lastTx : {<<>>} \cup {<<f>> : f \in StationFrames}, initflag : BOOLEAN]

PoweredOn ==
  [asked |-> {}, initEnd |-> FALSE, first |-> FALSE, fcb |-> 0, noTurn |-> 0,
   data1 |-> {}, stage |-> 0, store1 |-> 0, store2 |-> 0, lastTx |-> <<>>,
   initflag |-> FALSE]

StationInit == station = [i \in Stations |-> PoweredOn]

StationTypeOK == station \in [Stations -> StationStates]

\* External: what has not been read is lost, what was sent is on the line.
Restart(i) ==
  /\ faults < MaxFaults /\ faults' = faults + 1
  /\ station[i] # PoweredOn
  /\ station' = [station EXCEPT ![i] = PoweredOn]
  /\ toStation' = [toStation EXCEPT ![i] = <<>>]
  /\ UNCHANGED toMaster

-----------------------------------------------------------------------------
(* CS101_Slave_ReadMISIData: one frame of what has arrived.                *)

Arrived(i, kinds) == toStation[i] # <<>> /\ Head(toStation[i]).kind \in kinds

Taken(i) == toStation' = [toStation EXCEPT ![i] = Tail(@)]

\* Mutated: a repetition is taken for a new request.
New_Always(i) == TRUE

New(i) ==
  LET f == Head(toStation[i]) IN
  f.kind \in Unnumbered \/ f.fcb # station[i].fcb \/ ~station[i].first

Counted(i) ==
  [station[i] EXCEPT !.fcb = Head(toStation[i]).fcb, !.noTurn = MaxRetry, !.first = TRUE]

Read(i, s) == Taken(i) /\ station' = [station EXCEPT ![i] = s] /\ UNCHANGED <<toMaster, faults>>

ReadRequest(i) ==
  /\ Arrived(i, {"request"})
  /\ Read(i, [station[i] EXCEPT !.asked = @ \cup {"status"}])

\* Mutated: the first numbered frame must differ from the last one's FCB.
ReadReset_KeepsFirst(i) ==
  /\ Arrived(i, {"reset"})
  /\ Read(i, [station[i] EXCEPT
       !.asked = {"confirm"}, !.initEnd = TRUE, !.initflag = TRUE,
       !.data1 = IF station[i].initflag THEN {} ELSE {"init"},
       !.store1 = 0, !.store2 = 0])

\* CS101_Slave_StatusReset and what follows it.
ReadReset(i) ==
  /\ Arrived(i, {"reset"})
  /\ Read(i, [station[i] EXCEPT
       !.asked = {"confirm"}, !.initEnd = TRUE, !.first = FALSE, !.initflag = TRUE,
       !.data1 = IF station[i].initflag THEN {} ELSE {"init"},
       !.store1 = 0, !.store2 = 0])

\* The FCB is noted even if the link has not been reset.
ReadClass(i) ==
  LET class == IF Head(toStation[i]).kind = "stair" THEN "class1" ELSE "class2" IN
  /\ Arrived(i, {"stair", "second"}) /\ New(i)
  /\ Read(i, [Counted(i) EXCEPT !.asked = IF station[i].initEnd THEN @ \cup {class} ELSE @])

\* A reply that finds its store full is dropped.
UpTo(n, max) == IF n < max THEN n + 1 ELSE n

\* CS101_Slave_AppProcess.
Processed(s, f) ==
  CASE ~f.known                     -> [s EXCEPT !.store1 = UpTo(@, Store1Max)]
    [] f.known /\ f.kind = "call"   -> [s EXCEPT !.data1 = @ \cup {"call"}, !.stage = 0]
    [] f.known /\ f.kind = "clock"  -> [s EXCEPT !.store2 = UpTo(@, Store2Max)]

ReadCommand(i) ==
  /\ Arrived(i, {"call", "clock"}) /\ New(i)
  /\ Read(i, IF station[i].initEnd
             THEN Processed([Counted(i) EXCEPT !.asked = @ \cup {"confirm"}], Head(toStation[i]))
             ELSE station[i])

ReadRepeated(i) ==
  /\ toStation[i] # <<>> /\ ~New(i)
  /\ Taken(i)
  /\ \/ /\ station[i].noTurn > 0
        /\ station' = [station EXCEPT ![i].noTurn = @ - 1]
        /\ toMaster' = toMaster \o station[i].lastTx
     \/ station[i].noTurn = 0 /\ UNCHANGED <<station, toMaster>>
  /\ UNCHANGED faults

-----------------------------------------------------------------------------
(* CS101_Slave_SendProcess: one answer.                                    *)

Answer(i, s, kind, pos) ==
  LET fixed == kind \in {"accept", "nothing", "state"}
      f == [from |-> i, kind |-> kind, pos |-> pos, acd |-> fixed /\ s.data1 # {}]
  IN /\ station' = [station EXCEPT ![i] = [s EXCEPT !.lastTx = <<f>>]]
     /\ toMaster' = Append(toMaster, f)
     /\ UNCHANGED <<toStation, faults>>

AnswerStatus(i) ==
  /\ "status" \in station[i].asked
  /\ Answer(i, [station[i] EXCEPT !.asked = @ \ {"status"}], "state", 0)

AnswerConfirm(i) ==
  /\ "confirm" \in station[i].asked /\ "status" \notin station[i].asked
  /\ Answer(i, [station[i] EXCEPT !.asked = @ \ {"confirm"}], "accept", 0)

DataTurn(i) ==
  station[i].asked # {} /\ station[i].asked \cap {"status", "confirm"} = {}

\* CS101_Slave_SetFlagProcess and the end of CS101_Slave_SendProcess; nothing
\* takes the flag for stored replies back but a reset.
Flagged(s) ==
  [s EXCEPT !.asked = {}, !.data1 = IF s.store1 > 0 THEN @ \cup {"stored"} ELSE @]

AnswerClock(i) ==
  /\ DataTurn(i) /\ "class1" \notin station[i].asked /\ station[i].store2 > 0
  /\ Answer(i, Flagged([station[i] EXCEPT !.store2 = @ - 1]), "clock", 0)

\* CS101_Slave_Data1Process, also when there is no data of class 2.
Data1Turn(i) == DataTurn(i) /\ ("class1" \in station[i].asked \/ station[i].store2 = 0)

AnswerInit(i) ==
  /\ Data1Turn(i) /\ "init" \in station[i].data1
  /\ Answer(i, Flagged([station[i] EXCEPT !.data1 = @ \ {"init"}]), "init", 0)

\* CS101_Slave_ReadAllDataProcess.
AnswerCall(i) ==
  LET s == station[i] IN
  /\ Data1Turn(i) /\ "init" \notin s.data1 /\ "call" \in s.data1 /\ s.store1 = 0
  /\ Answer(i, Flagged(IF s.stage < Ended THEN [s EXCEPT !.stage = @ + 1]
                       ELSE [s EXCEPT !.stage = 0, !.data1 = @ \ {"call"}]), "call", s.stage)

AnswerStored(i) ==
  /\ Data1Turn(i) /\ "init" \notin station[i].data1 /\ station[i].store1 > 0
  /\ Answer(i, Flagged([station[i] EXCEPT !.store1 = @ - 1]), "error", 0)

AnswerNothing(i) ==
  LET s == station[i] IN
  /\ Data1Turn(i) /\ s.data1 \cap {"init", "call"} = {} /\ s.store1 = 0
  /\ Answer(i, Flagged(s), "nothing", 0)

StationStep(i) ==
  \/ ReadRequest(i) \/ ReadReset(i) \/ ReadClass(i) \/ ReadCommand(i) \/ ReadRepeated(i)
  \/ AnswerStatus(i) \/ AnswerConfirm(i) \/ AnswerClock(i)
  \/ AnswerInit(i) \/ AnswerCall(i) \/ AnswerStored(i) \/ AnswerNothing(i)

=============================================================================
