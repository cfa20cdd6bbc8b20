-------------------------- MODULE Cs101PollingProofs --------------------------
(***************************************************************************)
(* For any number of stations, repetitions, replies kept and faults: what  *)
(* an interrogation brings reaches the master without a gap and without a  *)
(* repetition, master and station agree on the FCB, and at most one        *)
(* station of those whose link is up has something to say.                 *)
(***************************************************************************)
EXTENDS Cs101Polling, SequenceTheorems, FiniteSetTheorems, WellFoundedInduction, TLAPS

\* The frames of i on their way to the master.
Air(i) == {n \in DOMAIN toMaster : toMaster[n].from = i}

\* A request or the answer to it is under way, or neither.
OneMessage(i) ==
  /\ Len(toStation[i]) <= 1
  /\ toStation[i] # <<>> => station[i].asked = {} /\ Air(i) = {}
  /\ station[i].asked # {} => Air(i) = {}
  /\ \A a, b \in station[i].asked : a = b
  /\ \A m, n \in Air(i) : m = n

\* What is under way is a request of one of the kinds, or the answer to one.
About(i, kinds, bits, answers) ==
  /\ toStation[i] # <<>> => Head(toStation[i]).kind \in kinds
  /\ station[i].asked \subseteq bits
  /\ \A n \in Air(i) : toMaster[n].kind \in answers

\* Where a link is between being set up and being given up.
Lasting(i) == link[i].flags \ {"jump"}
ToRequest(i) == link[i].flags = {} /\ link[i].pack = {"request"} /\ Idle(i)
Requesting(i) ==
  /\ Lasting(i) = {"requested", "wait"} /\ link[i].pack = {}
  /\ About(i, {"request"}, {"status"}, {"state"})
ToReset(i) ==
  /\ Lasting(i) = {} /\ Idle(i)
  /\ "reset" \in link[i].pack /\ link[i].pack \subseteq {"reset", "stair"}
Resetting(i) ==
  /\ Lasting(i) = {"resetting", "wait"} /\ link[i].pack \subseteq {"stair"}
  /\ About(i, {"reset"}, {"confirm"}, {"accept"})
  /\ station[i].asked # {} \/ Air(i) # {} => ~station[i].first

\* What i has counted is the request that the master waits for.
HasCounted(i) == station[i].first /\ station[i].fcb = link[i].fcb
Replied(i) ==
  /\ Waits(i) /\ HasCounted(i) /\ station[i].asked = {}
  /\ station[i].lastTx # <<>> /\ station[i].lastTx[1].kind = "call"
Interrogating(i) == Waits(i) /\ link[i].last[1].kind = "call"

Agreed(i) ==
  /\ Waits(i) =>
       /\ link[i].last[1].fcb = link[i].fcb /\ link[i].last[1].known = link[i].known
       /\ link[i].last[1].kind \notin Unnumbered
       /\ toStation[i] # <<>> => Head(toStation[i]) = link[i].last[1]
  /\ station[i].first /\ (~Waits(i) \/ station[i].asked # {} \/ Air(i) # {}) =>
       station[i].fcb = link[i].fcb

InStep(i) ==
  /\ Interrogating(i) => heard[i] = <<>>
  /\ "call" \in station[i].data1 /\ ~(Interrogating(i) /\ ~HasCounted(i)) =>
       station[i].stage = IF Replied(i) THEN Len(heard[i]) + 1 ELSE Len(heard[i])
  /\ Replied(i) => station[i].lastTx[1].pos = Len(heard[i])
  /\ \A n \in Air(i) :
       /\ toMaster[n].kind = "call" => toMaster[n].pos = Len(heard[i])
       /\ station[i].first => station[i].lastTx = <<toMaster[n]>>

Running(i) ==
  /\ Up(i) /\ link[i].flags \cap {"requested", "resetting"} = {}
  /\ link[i].pack \cap Unnumbered = {}
  /\ Agreed(i) /\ InStep(i)

\* A link given up while an answer may be under way; no request is ruled out.
Abandoned(i) ==
  /\ link[i].flags \cap {"est", "requested", "resetting"} = {}
  /\ link[i].pack \cap Unnumbered = {}

Orderly(i) ==
  /\ OneMessage(i)
  /\ ~Idle(i) => cur = i /\ {"jump", "wait"} \subseteq link[i].flags
  /\ ToRequest(i) \/ Requesting(i) \/ ToReset(i) \/ Resetting(i) \/ Running(i)

Phased == \A i \in Stations : Abandoned(i) \/ Orderly(i)

\* Whatever the state of the link.
Sane(i) ==
  /\ Waits(i) => link[i].last # <<>>
  /\ "call" \in station[i].data1 => station[i].first /\ station[i].initEnd /\ link[i].known
  /\ station[i].initEnd \/ station[i].asked \subseteq {"status"}
  /\ station[i].initEnd \/ station[i].lastTx = <<>> \/ station[i].lastTx[1].kind = "state"
  /\ station[i].lastTx # <<>> => station[i].lastTx[1].from = i
  /\ \A n \in DOMAIN toStation[i] : toStation[i][n].known => link[i].known
  /\ link[i].last # <<>> /\ link[i].last[1].known => link[i].known
AllSane == \A i \in Stations : Sane(i)

Polling == TypeOK /\ AllSane /\ Phased /\ AnswersInOrder

-----------------------------------------------------------------------------
\* Least elements and stations.

LEMMA LeastExists ==
  ASSUME NEW T, T \subseteq Nat, T # {}
  PROVE  \E x \in T : \A y \in T : x <= y
<1> DEFINE R == OpToRel(<, Nat)
<1>1. \E x \in T : \A y \in T : <<y, x>> \notin R
  <2>1. IsWellFoundedOn(R, Nat)
    BY NatLessThanWellFounded
  <2> HIDE DEF R
  <2>2. QED
    BY <2>1, WFMin
<1>2. \A x, y \in Nat : <<y, x>> \in R <=> y < x
  BY DEF OpToRel
<1> HIDE DEF R
<1>3. PICK x \in T : \A y \in T : <<y, x>> \notin R
  BY <1>1
<1>4. \A y \in T : ~(y < x)
  BY <1>2, <1>3
<1>5. QED
  BY <1>4

\* The set of the code's first match.
LEMMA MinIsLeast ==
  ASSUME NEW T, T \subseteq Nat, T # {}
  PROVE  Min(T) \in T /\ \A y \in T : Min(T) <= y
BY LeastExists DEF Min

LEMMA StationsAreNumbers ==
  /\ Cardinality(Stations) \in Nat \ {0} /\ Stations \subseteq Nat \ {0}
  /\ 1 \in Stations /\ \A i \in Stations : Succ(i) \in Stations
<1>1. Cardinality(Stations) \in Nat
  BY LineAssumption, FS_CardinalityType
<1> DEFINE N == Cardinality(Stations)
<1>2. N \in Nat /\ Stations = 1..N /\ Stations # {}
  BY <1>1, LineAssumption
<1> HIDE DEF N
<1>3. N # 0 /\ Stations \subseteq Nat \ {0} /\ 1 \in Stations
  BY <1>2
<1>4. QED
  BY <1>2, <1>3 DEF Succ, N

LEMMA PackChosen ==
  ASSUME NEW i, link[i].pack \subseteq Requests, link[i].pack # {}
  PROVE  /\ NextPack(i) \in link[i].pack
         /\ "request" \in link[i].pack => NextPack(i) = "request"
         /\ "reset" \in link[i].pack /\ "request" \notin link[i].pack => NextPack(i) = "reset"
<1> DEFINE T == {n \in DOMAIN Priority : Priority[n] \in link[i].pack}
<1>1. DOMAIN Priority = 1..6
  BY DEF Priority
<1>2. T \subseteq 1..6
  BY <1>1
<1>3. T # {}
  <2>1. PICK k \in link[i].pack : k \in Requests
    OBVIOUS
  <2>2. \E n \in 1..6 : Priority[n] = k
    BY <2>1 DEF Priority, Requests, Unnumbered
  <2>3. QED
    BY <1>1, <2>1, <2>2
<1>4. Min(T) \in T /\ \A y \in T : Min(T) <= y
  BY <1>2, <1>3, MinIsLeast
<1>5. NextPack(i) = Priority[Min(T)]
  BY DEF NextPack
<1>6. Priority[1] = "request" /\ Priority[2] = "reset"
  BY DEF Priority
<1>7. "request" \in link[i].pack => 1 \in T
  BY <1>1, <1>6
<1>8. "reset" \in link[i].pack => 2 \in T
  BY <1>1, <1>6
<1>9. "request" \notin link[i].pack => 1 \notin T
  BY <1>6
<1> HIDE DEF T
<1>10. NextPack(i) \in link[i].pack
  BY <1>4, <1>5 DEF T
<1>11. Min(T) \in 1..6
  BY <1>2, <1>4
<1>12. "request" \in link[i].pack => Min(T) = 1
  BY <1>4, <1>7, <1>11
<1>13. "reset" \in link[i].pack /\ "request" \notin link[i].pack => Min(T) = 2
  <2>1. ASSUME "reset" \in link[i].pack, "request" \notin link[i].pack PROVE Min(T) = 2
    <3>1. Min(T) <= 2 /\ Min(T) # 1
      BY <1>4, <1>8, <1>9, <2>1
    <3>2. QED
      BY <1>11, <3>1
  <2>2. QED
    BY <2>1
<1>14. QED
  BY <1>5, <1>6, <1>10, <1>12, <1>13

-----------------------------------------------------------------------------
\* Sequences.

\* One element is taken out.
LEMMA Removed ==
  ASSUME NEW S, NEW s \in Seq(S), NEW n \in DOMAIN s
  PROVE  /\ RemoveAt(s, n) \in Seq(S) /\ Len(RemoveAt(s, n)) = Len(s) - 1
         /\ \A m \in 1..(Len(s) - 1) : RemoveAt(s, n)[m] = IF m < n THEN s[m] ELSE s[m + 1]
<1> DEFINE front == SubSeq(s, 1, n - 1)
           back == SubSeq(s, n + 1, Len(s))
<1>1. Len(s) \in Nat /\ n \in 1..Len(s) /\ \A i \in 1..Len(s) : s[i] \in S
  BY LenProperties
<1>2. /\ front \in Seq(S) /\ Len(front) = n - 1
      /\ \A i \in 1..(n - 1) : front[i] = s[i]
  <2>1. \A i \in 1..(n - 1) : s[i] \in S
    BY <1>1
  <2>2. n - 1 \in Int /\ 1 \in Int
    BY <1>1
  <2>3. /\ front \in Seq(S) /\ Len(front) = IF 1 <= n - 1 THEN (n - 1) - 1 + 1 ELSE 0
        /\ \A i \in 1..((n - 1) - 1 + 1) : front[i] = s[1 + i - 1]
    BY <2>1, <2>2, SubSeqProperties
  <2>4. QED
    BY <1>1, <2>3
<1>3. /\ back \in Seq(S) /\ Len(back) = Len(s) - n
      /\ \A i \in 1..(Len(s) - n) : back[i] = s[i + n]
  <2>1. \A i \in (n + 1)..Len(s) : s[i] \in S
    BY <1>1
  <2>2. n + 1 \in Int /\ Len(s) \in Int
    BY <1>1
  <2>3. /\ back \in Seq(S) /\ Len(back) = IF n + 1 <= Len(s) THEN Len(s) - (n + 1) + 1 ELSE 0
        /\ \A i \in 1..(Len(s) - (n + 1) + 1) : back[i] = s[(n + 1) + i - 1]
    BY <2>1, <2>2, SubSeqProperties
  <2>4. QED
    BY <1>1, <2>3
<1>4. RemoveAt(s, n) = front \o back
  BY DEF RemoveAt
<1> HIDE DEF front, back
<1>5. /\ front \o back \in Seq(S) /\ Len(front \o back) = Len(front) + Len(back)
      /\ \A i \in 1..(Len(front) + Len(back)) :
           (front \o back)[i] = IF i <= Len(front) THEN front[i] ELSE back[i - Len(front)]
  BY <1>2, <1>3, ConcatProperties
<1>6. ASSUME NEW m \in 1..(Len(s) - 1)
      PROVE  (front \o back)[m] = IF m < n THEN s[m] ELSE s[m + 1]
  <2>1. CASE m < n
    BY <1>1, <1>2, <1>3, <1>5, <2>1
  <2>2. CASE ~(m < n)
    <3>1. m - (n - 1) \in 1..(Len(s) - n) /\ (m - (n - 1)) + n = m + 1
      BY <1>1, <2>2
    <3>2. back[m - (n - 1)] = s[m + 1]
      BY <1>3, <3>1
    <3>3. m \in 1..(Len(front) + Len(back)) /\ ~(m <= Len(front))
      BY <1>1, <1>2, <1>3, <2>2
    <3>4. (front \o back)[m] = back[m - Len(front)]
      BY <1>5, <3>3
    <3>5. QED
      BY <1>2, <2>2, <3>2, <3>4
  <2>3. QED
    BY <2>1, <2>2
<1>7. QED
  BY <1>1, <1>2, <1>3, <1>4, <1>5, <1>6, SMTT(40)

\* The elements up to one are dropped.
LEMMA Dropped ==
  ASSUME NEW S, NEW s \in Seq(S), NEW n \in DOMAIN s
  PROVE  /\ SubSeq(s, n + 1, Len(s)) \in Seq(S)
         /\ Len(SubSeq(s, n + 1, Len(s))) = Len(s) - n
         /\ \A m \in 1..(Len(s) - n) : SubSeq(s, n + 1, Len(s))[m] = s[m + n]
<1>1. Len(s) \in Nat /\ n \in 1..Len(s) /\ \A i \in 1..Len(s) : s[i] \in S
  BY LenProperties
<1>2. \A i \in (n + 1)..Len(s) : s[i] \in S
  BY <1>1
<1>3. n + 1 \in Int /\ Len(s) \in Int
  BY <1>1
<1>4. /\ SubSeq(s, n + 1, Len(s)) \in Seq(S)
      /\ Len(SubSeq(s, n + 1, Len(s))) = IF n + 1 <= Len(s) THEN Len(s) - (n + 1) + 1 ELSE 0
      /\ \A i \in 1..(Len(s) - (n + 1) + 1) : SubSeq(s, n + 1, Len(s))[i] = s[(n + 1) + i - 1]
  BY <1>2, <1>3, SubSeqProperties
<1>5. QED
  BY <1>1, <1>4

-----------------------------------------------------------------------------
\* Types.

LEMMA ReadTyped ==
  ASSUME TypeOK, NEW i \in Stations, toStation[i] # <<>>, NEW s \in StationStates, Read(i, s)
  PROVE  LineTypeOK' /\ StationTypeOK'
<1>1. Tail(toStation[i]) \in Seq(MasterFrames)
  BY HeadTailProperties DEF TypeOK, LineTypeOK
<1>2. LineTypeOK'
  BY <1>1 DEF TypeOK, LineTypeOK, Read, Taken
<1>3. StationTypeOK'
  BY DEF TypeOK, StationTypeOK, Read
<1>4. QED
  BY <1>2, <1>3

LEMMA AnswerTyped ==
  ASSUME TypeOK, NEW i \in Stations, NEW s \in StationStates, NEW kind \in Answers,
         NEW pos \in 0..Ended, Answer(i, s, kind, pos)
  PROVE  LineTypeOK' /\ StationTypeOK'
<1> DEFINE f == [from |-> i, kind |-> kind, pos |-> pos,
                 acd |-> kind \in {"accept", "nothing", "state"} /\ s.data1 # {}]
<1>1. f \in StationFrames
  BY DEF StationFrames
<1>2. station' = [station EXCEPT ![i] = [s EXCEPT !.lastTx = <<f>>]]
      /\ toMaster' = Append(toMaster, f) /\ UNCHANGED <<toStation, faults>>
  BY DEF Answer
<1> HIDE DEF f
<1>3. toMaster' \in Seq(StationFrames)
  BY <1>1, <1>2, AppendProperties DEF TypeOK, LineTypeOK
<1>4. LineTypeOK'
  BY <1>2, <1>3 DEF TypeOK, LineTypeOK
<1>5. [s EXCEPT !.lastTx = <<f>>] \in StationStates
  BY <1>1 DEF StationStates
<1>6. StationTypeOK'
  BY <1>2, <1>5 DEF TypeOK, StationTypeOK
<1>7. QED
  BY <1>4, <1>6

LEMMA FlaggedTyped ==
  ASSUME NEW s \in StationStates
  PROVE  Flagged(s) \in StationStates
BY DEF Flagged, StationStates

\* What has arrived first.
LEMMA HeadTyped ==
  ASSUME TypeOK, NEW i \in Stations, toStation[i] # <<>>
  PROVE  Head(toStation[i]) \in MasterFrames /\ Counted(i) \in StationStates
<1>1. Head(toStation[i]) \in MasterFrames
  BY HeadTailProperties DEF TypeOK, LineTypeOK
<1>2. Head(toStation[i]).fcb \in 0..1
  BY <1>1 DEF MasterFrames
<1>3. station[i] \in StationStates /\ MaxRetry \in Nat
  BY StationAssumption DEF TypeOK, StationTypeOK
<1> DEFINE b == Head(toStation[i]).fcb
<1>4. Counted(i) = [station[i] EXCEPT !.fcb = b, !.noTurn = MaxRetry, !.first = TRUE]
  BY DEF Counted
<1>5. b \in 0..1 /\ MaxRetry \in 0..MaxRetry
  BY <1>2, <1>3
<1> HIDE DEF b
<1>6. Counted(i) \in StationStates
  BY <1>3, <1>4, <1>5 DEF StationStates
<1>7. QED
  BY <1>1, <1>6

LEMMA StationTyped ==
  ASSUME TypeOK, NEW i \in Stations, StationStep(i) \/ Restart(i)
  PROVE  LineTypeOK' /\ StationTypeOK'
<1> DEFINE s == station[i]
<1>1. s \in StationStates /\ Store1Max \in Nat /\ Store2Max \in Nat /\ MaxRetry \in Nat
      /\ Ended \in Nat /\ 0 \in 0..Ended
  BY StationAssumption, LineAssumption DEF TypeOK, StationTypeOK, Ended
<1>2. CASE ReadRequest(i)
  <2>1. [s EXCEPT !.asked = @ \cup {"status"}] \in StationStates
    BY <1>1 DEF StationStates
  <2>2. QED
    BY <1>2, <2>1, ReadTyped DEF ReadRequest, Arrived
<1>3. CASE ReadReset(i)
  <2> DEFINE d == IF s.initflag THEN {} ELSE {"init"}
             t == [s EXCEPT
       !.asked = {"confirm"}, !.initEnd = TRUE, !.first = FALSE, !.initflag = TRUE,
       !.data1 = d, !.store1 = 0, !.store2 = 0]
  <2>1. t \in StationStates
    <3>1. d \in SUBSET {"init", "call", "stored"}
      OBVIOUS
    <3> HIDE DEF d
    <3>2. 0 \in 0..Store1Max /\ 0 \in 0..Store2Max
      BY <1>1
    <3>3. QED
      BY <1>1, <3>1, <3>2 DEF StationStates
  <2>2. Read(i, t) /\ toStation[i] # <<>>
    BY <1>3 DEF ReadReset, Arrived
  <2> HIDE DEF t
  <2>3. QED
    BY <2>1, <2>2, ReadTyped
<1>4. CASE ReadClass(i)
  <2>1. PICK class \in {"class1", "class2"} :
          Read(i, [Counted(i) EXCEPT !.asked = IF s.initEnd THEN @ \cup {class} ELSE @])
    BY <1>4 DEF ReadClass
  <2>2. toStation[i] # <<>>
    BY <1>4 DEF ReadClass, Arrived
  <2>3. Counted(i) \in StationStates
    BY <2>2, HeadTyped
  <2> DEFINE t == [Counted(i) EXCEPT !.asked = IF s.initEnd THEN @ \cup {class} ELSE @]
  <2>4. t \in StationStates
    BY <2>3 DEF StationStates
  <2>5. Read(i, t)
    BY <2>1
  <2> HIDE DEF t
  <2>6. QED
    BY <2>2, <2>4, <2>5, ReadTyped
<1>5. CASE ReadCommand(i)
  <2>1. toStation[i] # <<>> /\ Head(toStation[i]).kind \in {"call", "clock"}
    BY <1>5 DEF ReadCommand, Arrived
  <2> DEFINE c == [Counted(i) EXCEPT !.asked = @ \cup {"confirm"}]
             t == IF s.initEnd THEN Processed(c, Head(toStation[i])) ELSE s
  <2>2. Counted(i) \in StationStates
    BY <2>1, HeadTyped
  <2>3. c \in StationStates
    BY <2>2 DEF StationStates
  <2>4. Read(i, t)
    BY <1>5 DEF ReadCommand
  <2> HIDE DEF c
  <2>5. /\ [c EXCEPT !.store1 = UpTo(@, Store1Max)] \in StationStates
        /\ [c EXCEPT !.data1 = @ \cup {"call"}, !.stage = 0] \in StationStates
        /\ [c EXCEPT !.store2 = UpTo(@, Store2Max)] \in StationStates
    <3>1. UpTo(c.store1, Store1Max) \in 0..Store1Max
      BY <1>1, <2>3 DEF StationStates, UpTo
    <3>2. UpTo(c.store2, Store2Max) \in 0..Store2Max
      BY <1>1, <2>3 DEF StationStates, UpTo
    <3>3. [c EXCEPT !.store1 = UpTo(@, Store1Max)] \in StationStates
      BY <2>3, <3>1 DEF StationStates
    <3>4. [c EXCEPT !.store2 = UpTo(@, Store2Max)] \in StationStates
      BY <2>3, <3>2 DEF StationStates
    <3>5. [c EXCEPT !.data1 = @ \cup {"call"}, !.stage = 0] \in StationStates
      BY <1>1, <2>3 DEF StationStates
    <3>6. QED
      BY <3>3, <3>4, <3>5
  <2>6. Processed(c, Head(toStation[i])) \in StationStates
    BY <2>1, <2>5 DEF Processed
  <2>7. t \in StationStates
    BY <1>1, <2>6
  <2> HIDE DEF t
  <2>8. QED
    BY <2>1, <2>4, <2>7, ReadTyped
<1>6. CASE ReadRepeated(i)
  <2>1. Tail(toStation[i]) \in Seq(MasterFrames)
    BY <1>6, HeadTailProperties DEF TypeOK, LineTypeOK, ReadRepeated
  <2>2. s.lastTx \in Seq(StationFrames)
    <3>1. s.lastTx \in {<<>>} \cup {<<f>> : f \in StationFrames}
      BY <1>1 DEF StationStates
    <3>2. \A f \in StationFrames : <<f>> \in Seq(StationFrames)
      OBVIOUS
    <3>3. <<>> \in Seq(StationFrames)
      OBVIOUS
    <3>4. QED
      BY <3>1, <3>2, <3>3
  <2>3. toMaster' \in Seq(StationFrames)
    BY <1>6, <2>2, ConcatProperties, ZenonT(40) DEF ReadRepeated, TypeOK, LineTypeOK
  <2>4. LineTypeOK'
    BY <1>6, <2>1, <2>3 DEF ReadRepeated, TypeOK, LineTypeOK, Taken
  <2>5. StationTypeOK'
    <3>1. CASE s.noTurn > 0 /\ station' = [station EXCEPT ![i].noTurn = @ - 1]
      <4>1. [s EXCEPT !.noTurn = @ - 1] \in StationStates
        BY <1>1, <3>1 DEF StationStates
      <4>2. QED
        BY <3>1, <4>1 DEF TypeOK, StationTypeOK
    <3>2. CASE UNCHANGED station
      BY <3>2 DEF TypeOK, StationTypeOK
    <3>3. QED
      BY <1>6, <3>1, <3>2 DEF ReadRepeated
  <2>6. QED
    BY <2>4, <2>5
<1>7. CASE AnswerStatus(i)
  <2>1. [s EXCEPT !.asked = @ \ {"status"}] \in StationStates
    BY <1>1 DEF StationStates
  <2>2. QED
    BY <1>1, <1>7, <2>1, AnswerTyped DEF AnswerStatus, Answers
<1>8. CASE AnswerConfirm(i)
  <2>1. [s EXCEPT !.asked = @ \ {"confirm"}] \in StationStates
    BY <1>1 DEF StationStates
  <2>2. QED
    BY <1>1, <1>8, <2>1, AnswerTyped DEF AnswerConfirm, Answers
<1>9. CASE AnswerClock(i)
  <2>1. [s EXCEPT !.store2 = @ - 1] \in StationStates
    BY <1>1, <1>9, SMTT(40) DEF StationStates, AnswerClock
  <2>2. QED
    BY <1>1, <1>9, <2>1, FlaggedTyped, AnswerTyped DEF AnswerClock, Answers
<1>10. CASE AnswerInit(i)
  <2>1. [s EXCEPT !.data1 = @ \ {"init"}] \in StationStates
    BY <1>1 DEF StationStates
  <2>2. QED
    BY <1>1, <1>10, <2>1, FlaggedTyped, AnswerTyped DEF AnswerInit, Answers
<1>11. CASE AnswerCall(i)
  <2> DEFINE t == IF s.stage < Ended THEN [s EXCEPT !.stage = @ + 1]
                  ELSE [s EXCEPT !.stage = 0, !.data1 = @ \ {"call"}]
  <2>1. t \in StationStates /\ s.stage \in 0..Ended
    <3>1. s.stage \in 0..Ended
      BY <1>1 DEF StationStates
    <3>2. s.stage < Ended => s.stage + 1 \in 0..Ended
      BY <1>1, <3>1
    <3>3. s.stage < Ended => [s EXCEPT !.stage = @ + 1] \in StationStates
      BY <1>1, <3>2 DEF StationStates
    <3>4. [s EXCEPT !.stage = 0, !.data1 = @ \ {"call"}] \in StationStates
      BY <1>1 DEF StationStates
    <3>5. QED
      BY <3>1, <3>3, <3>4
  <2>2. Answer(i, Flagged(t), "call", s.stage)
    BY <1>11 DEF AnswerCall
  <2> HIDE DEF t
  <2>3. QED
    BY <2>1, <2>2, FlaggedTyped, AnswerTyped DEF Answers
<1>12. CASE AnswerStored(i)
  <2>1. [s EXCEPT !.store1 = @ - 1] \in StationStates
    BY <1>1, <1>12 DEF StationStates, AnswerStored
  <2>2. QED
    BY <1>1, <1>12, <2>1, FlaggedTyped, AnswerTyped DEF AnswerStored, Answers
<1>13. CASE AnswerNothing(i)
  BY <1>1, <1>13, FlaggedTyped, AnswerTyped DEF AnswerNothing, Answers
<1>14. CASE Restart(i)
  <2>1. PoweredOn \in StationStates
    BY <1>1 DEF PoweredOn, StationStates
  <2>2. StationTypeOK'
    BY <1>14, <2>1 DEF Restart, TypeOK, StationTypeOK
  <2>3. faults' \in 0..MaxFaults
    BY <1>14, LineAssumption DEF Restart, TypeOK, LineTypeOK
  <2>4. LineTypeOK'
    BY <1>14, <2>3 DEF Restart, TypeOK, LineTypeOK
  <2>5. QED
    BY <2>2, <2>4
<1>15. QED
  BY <1>2, <1>3, <1>4, <1>5, <1>6, <1>7, <1>8, <1>9, <1>10, <1>11, <1>12, <1>13, <1>14
     DEF StationStep

LinkFlags == {"est", "wait", "requested", "resetting", "jump", "synced", "clockAsked"}

\* What is left of the flags, what is added to the requests.
LEMMA FlagsTyped ==
  ASSUME NEW L \in LinkStates, NEW F \in SUBSET LinkFlags, NEW P \in SUBSET Requests
  PROVE  /\ [L EXCEPT !.flags = F, !.pack = P] \in LinkStates
         /\ [L EXCEPT !.flags = F] \in LinkStates /\ [L EXCEPT !.pack = P] \in LinkStates
         /\ L.flags \in SUBSET LinkFlags /\ L.pack \in SUBSET Requests
BY DEF LinkStates, LinkFlags

LEMMA LeaveTyped ==
  ASSUME TypeOK, NEW L \in LinkStates, Leave(L)
  PROVE  /\ link' \in [Stations -> LinkStates]
         /\ toMaster' \in Seq(StationFrames)
         /\ cur' \in Stations /\ pc' \in {"visit", "treat", "receive"}
         /\ fault' \in Stations \cup {0} /\ nextFault' \in Stations
<1> DEFINE l == [link EXCEPT ![cur] = [L EXCEPT !.flags = @ \ {"jump"}]]
<1>1. [L EXCEPT !.flags = @ \ {"jump"}] \in LinkStates
  BY FlagsTyped DEF LinkFlags
<1>2. link' = l /\ toMaster' = <<>> /\ cur' = Succ(cur) /\ pc' \in {"visit", "treat"}
      /\ (<<fault', nextFault'>> = Search(l) \/ UNCHANGED <<fault, nextFault>>)
  <2>1. Succ(cur) = 1 => <<fault', nextFault'>> = <<Search(l)[1], Search(l)[2]>>
    BY DEF Leave
  <2>2. Search(l) = <<Search(l)[1], Search(l)[2]>>
    BY DEF Search
  <2>3. QED
    BY <2>1, <2>2 DEF Leave
<1>3. link' \in [Stations -> LinkStates]
  BY <1>1, <1>2 DEF TypeOK, MasterTypeOK
<1> HIDE DEF l
<1>4. cur' \in Stations
  BY <1>2, StationsAreNumbers DEF TypeOK, MasterTypeOK
<1>5. fault' \in Stations \cup {0} /\ nextFault' \in Stations
  <2>1. CASE UNCHANGED <<fault, nextFault>>
    BY <2>1 DEF TypeOK, MasterTypeOK
  <2>2. CASE Search(l) = <<fault, nextFault>> /\ <<fault', nextFault'>> = Search(l)
    BY <2>2 DEF TypeOK, MasterTypeOK
  <2>3. CASE Down(l) # {} /\ <<fault', nextFault'>> = Search(l)
             /\ Search(l) = <<FirstDown(Down(l), nextFault), Succ(FirstDown(Down(l), nextFault))>>
    <3>1. Down(l) \subseteq Stations /\ Down(l) \subseteq Nat
      BY StationsAreNumbers DEF Down
    <3>2. FirstDown(Down(l), nextFault) \in Down(l)
      <4> DEFINE D == Down(l)
                 T == {k \in D : k >= nextFault}
      <4>1. D \subseteq Nat /\ D # {} /\ T \subseteq Nat
        BY <2>3, <3>1
      <4>2. FirstDown(D, nextFault) = IF \E k \in D : k >= nextFault THEN Min(T) ELSE Min(D)
        BY DEF FirstDown
      <4>3. (\E k \in D : k >= nextFault) => T # {}
        OBVIOUS
      <4>4. T \subseteq D
        OBVIOUS
      <4> HIDE DEF D, T
      <4>5. Min(D) \in D /\ (T # {} => Min(T) \in T)
        BY <4>1, MinIsLeast
      <4>6. FirstDown(D, nextFault) \in D
        BY <4>2, <4>3, <4>4, <4>5
      <4>7. QED
        BY <4>6 DEF D
    <3>3. fault' = FirstDown(Down(l), nextFault) /\ nextFault' = Succ(FirstDown(Down(l), nextFault))
      BY <2>3
    <3>4. QED
      BY <3>1, <3>2, <3>3, StationsAreNumbers
  <2>4. QED
    BY <1>2, <2>1, <2>2, <2>3 DEF Search
<1>6. <<>> \in Seq(StationFrames)
  OBVIOUS
<1>7. QED
  BY <1>2, <1>3, <1>4, <1>5, <1>6

LEMMA ClearedTyped ==
  ASSUME NEW L \in LinkStates, NEW F, NEW P \in SUBSET Requests
  PROVE  Cleared(L, F, P) \in LinkStates
<1>1. L.flags \in SUBSET LinkFlags /\ L.pack \in SUBSET Requests
  BY FlagsTyped
<1>2. QED
  BY <1>1, FlagsTyped DEF Cleared

LEMMA AcceptedTyped ==
  ASSUME NEW L \in LinkStates
  PROVE  Accepted(L) \in LinkStates
<1> DEFINE P == (IF "resetting" \in L.flags THEN {"call"} ELSE {})
                \cup (IF "clockAsked" \in L.flags THEN {"second"} ELSE {})
           S == Cleared(L, {"resetting", "clockAsked"}, P)
<1>1. P \subseteq Requests
  BY DEF Requests
<1> HIDE DEF P
<1>2. S \in LinkStates
  BY <1>1, ClearedTyped
<1>3. Accepted(L) = IF "resetting" \in L.flags THEN [S EXCEPT !.flags = @ \cup {"est"}] ELSE S
  BY DEF Accepted, P
<1> HIDE DEF S
<1>4. S.flags \cup {"est"} \in SUBSET LinkFlags
  BY <1>2, FlagsTyped DEF LinkFlags
<1>5. QED
  BY <1>2, <1>3, <1>4, FlagsTyped
LEMMA AnalysedTyped ==
  ASSUME NEW L \in LinkStates, NEW f \in StationFrames
  PROVE  Analysed(L, f) \in LinkStates
<1>1. \A F : \A P \in SUBSET Requests : Cleared(L, F, P) \in LinkStates
  BY ClearedTyped
<1>2. \A S \in LinkStates : AccessDemanded(S, f) \in LinkStates
  <2> TAKE S \in LinkStates
  <2>1. S.pack \cup {"stair"} \in SUBSET Requests
    BY FlagsTyped DEF Requests
  <2>2. QED
    BY <2>1, FlagsTyped DEF AccessDemanded
<1>3. Accepted(L) \in LinkStates
  BY AcceptedTyped
<1>4. StateTold(L) \in LinkStates
  <2> DEFINE P == IF "requested" \in L.flags THEN {"reset"} ELSE {}
  <2>1. P \subseteq Requests
    BY DEF Requests, Unnumbered
  <2>2. StateTold(L) = Cleared(L, {"requested"}, P)
    BY DEF StateTold
  <2> HIDE DEF P
  <2>3. QED
    BY <1>1, <2>1, <2>2
<1>5. DataTaken(L, f) \in LinkStates
  <2> DEFINE C == Cleared(L, {}, {})
             S == [C EXCEPT !.known = TRUE]
  <2>1. C \in LinkStates
    BY <1>1
  <2> HIDE DEF C
  <2>2. S \in LinkStates
    BY <2>1 DEF LinkStates
  <2>3. DataTaken(L, f) = IF f.kind = "call" /\ f.pos = Ended /\ "synced" \notin L.flags
          THEN [S EXCEPT !.flags = @ \cup {"synced"}, !.pack = @ \cup {"clock"}] ELSE S
    BY DEF DataTaken, C
  <2> HIDE DEF S
  <2>4. S.flags \cup {"synced"} \in SUBSET LinkFlags /\ S.pack \cup {"clock"} \in SUBSET Requests
    BY <2>2, FlagsTyped DEF LinkFlags, Requests
  <2>5. [S EXCEPT !.flags = @ \cup {"synced"}, !.pack = @ \cup {"clock"}] \in LinkStates
    BY <2>2, <2>4, FlagsTyped
  <2>6. QED
    BY <2>2, <2>3, <2>5
<1>6. Cleared(L, {}, {}) \in LinkStates
  BY <1>1
<1>7. QED
  BY <1>2, <1>3, <1>4, <1>5, <1>6 DEF Analysed

\* What the master writes and what it remembers of its link.
LEMMA WriteTyped ==
  ASSUME TypeOK, NEW f \in MasterFrames, Write(f)
  PROVE  LineTypeOK'
<1>1. Append(toStation[cur], f) \in Seq(MasterFrames)
  BY AppendProperties DEF TypeOK, LineTypeOK, MasterTypeOK
<1>2. toStation' = [toStation EXCEPT ![cur] = Append(@, f)] /\ UNCHANGED <<toMaster, faults>>
  BY DEF Write
<1>3. DOMAIN toStation' = Stations
  BY <1>2 DEF TypeOK, LineTypeOK
<1>4. \A i \in Stations : toStation'[i] \in Seq(MasterFrames)
  BY <1>1, <1>2 DEF TypeOK, LineTypeOK
<1>5. QED
  BY <1>2, <1>3, <1>4 DEF TypeOK, LineTypeOK

LEMMA UpdateTyped ==
  ASSUME TypeOK, NEW L \in LinkStates, Update(L)
  PROVE  link' \in [Stations -> LinkStates]
BY DEF TypeOK, MasterTypeOK, Update

LEMMA GivenUpTyped ==
  ASSUME NEW L \in LinkStates
  PROVE  GivenUp(L) \in LinkStates /\ Requested(L) \in LinkStates
<1>1. ASSUME NEW F \in SUBSET LinkFlags, NEW P \in SUBSET Requests, NEW b \in 0..1,
             NEW r \in 0..RetryNumber
      PROVE  /\ [L EXCEPT !.flags = F, !.fcb = b, !.retries = r] \in LinkStates
             /\ [L EXCEPT !.flags = F, !.pack = P, !.fcb = b, !.retries = r] \in LinkStates
  BY DEF LinkStates, LinkFlags
<1>2. 0 \in 0..RetryNumber /\ 0 \in 0..1
  BY MasterAssumption
<1>3. {"request"} \in SUBSET Requests /\ {} \in SUBSET LinkFlags
  BY DEF Requests, Unnumbered
<1>4. QED
  BY <1>1, <1>2, <1>3 DEF GivenUp, Requested

LEMMA JumpTyped ==
  ASSUME TypeOK, NEW L \in LinkStates, NEW unread \in Seq(StationFrames), Jump(L, unread)
  PROVE  /\ link' \in [Stations -> LinkStates]
         /\ toMaster' \in Seq(StationFrames)
         /\ cur' \in Stations /\ pc' \in {"visit", "treat", "receive"}
         /\ fault' \in Stations \cup {0} /\ nextFault' \in Stations
<1>1. CASE Leave(L)
  BY <1>1, LeaveTyped
<1>2. CASE Update(L) /\ toMaster' = unread /\ pc' = "treat" /\ UNCHANGED <<cur, fault, nextFault>>
  BY <1>2, UpdateTyped DEF TypeOK, MasterTypeOK
<1>3. QED
  BY <1>1, <1>2 DEF Jump

\* The first frame for the master in charge.
LEMMA OwnFirst ==
  ASSUME TypeOK, Own # {}
  PROVE  Min(Own) \in Own /\ Min(Own) \in DOMAIN toMaster /\ toMaster[Min(Own)] \in StationFrames
<1>1. DOMAIN toMaster = 1..Len(toMaster) /\ Len(toMaster) \in Nat
  BY LenProperties DEF TypeOK, LineTypeOK
<1>2. Own \subseteq Nat
  BY <1>1 DEF Own
<1>3. Min(Own) \in Own
  BY <1>2, MinIsLeast
<1>4. Min(Own) \in DOMAIN toMaster
  BY <1>3 DEF Own
<1>5. QED
  BY <1>1, <1>3, <1>4, ElementOfSeq DEF TypeOK, LineTypeOK

LEMMA RequestTyped ==
  ASSUME TypeOK, link[cur].pack # {}
  PROVE  LET L == link[cur]
             k == NextPack(cur)
             f == [kind |-> k, fcb |-> IF k \in Unnumbered THEN 0 ELSE FcbFor(L, k),
                   known |-> L.known]
             S == [L EXCEPT !.flags = @ \cup {"wait", "jump"} \cup Noted(k), !.pack = @ \ {k},
                            !.fcb = FcbFor(L, k), !.last = <<f>>]
         IN  k \in L.pack /\ k \in Requests /\ f \in MasterFrames /\ S \in LinkStates
<1> DEFINE L == link[cur]
           k == NextPack(cur)
           f == [kind |-> k, fcb |-> IF k \in Unnumbered THEN 0 ELSE FcbFor(L, k), known |-> L.known]
           F == L.flags \cup {"wait", "jump"} \cup Noted(k)
           P == L.pack \ {k}
           b == FcbFor(L, k)
<1>1. L \in LinkStates
  BY DEF TypeOK, MasterTypeOK
<1>2. k \in L.pack /\ L.pack \subseteq Requests
  BY <1>1, FlagsTyped, PackChosen
<1>3. L.fcb \in 0..1 /\ L.known \in BOOLEAN
  BY <1>1 DEF LinkStates
<1>4. b \in 0..1
  BY <1>3 DEF FcbFor
<1>5. f \in MasterFrames
  BY <1>2, <1>3, <1>4 DEF MasterFrames
<1>6. F \in SUBSET LinkFlags
  <2>1. Noted(k) \subseteq LinkFlags
    BY DEF Noted, LinkFlags
  <2>2. QED
    BY <1>1, <2>1, FlagsTyped DEF LinkFlags
<1>7. P \in SUBSET Requests
  BY <1>2
<1>8. [L EXCEPT !.flags = F, !.pack = P, !.fcb = b, !.last = <<f>>] \in LinkStates
  <2> HIDE DEF F, P, b, f, L, k
  <2>1. QED
    BY <1>1, <1>4, <1>5, <1>6, <1>7 DEF LinkStates, LinkFlags
<1>9. QED
  BY <1>2, <1>5, <1>8

LEMMA MasterTyped ==
  ASSUME TypeOK, Sane(cur), MasterStep \/ MasterDue \/ Relink \/ Repeat \/ StopWaiting
  PROVE  LineTypeOK' /\ MasterTypeOK'
<1> DEFINE L == link[cur]
<1>1. /\ L \in LinkStates /\ cur \in Stations /\ RetryNumber \in Nat
      /\ L.flags \in SUBSET LinkFlags /\ L.pack \in SUBSET Requests
  BY FlagsTyped, MasterAssumption DEF TypeOK, MasterTypeOK
<1>2. CASE Relink
  <2> DEFINE S == IF Up(cur) THEN link[cur] ELSE Requested(link[cur])
  <2>1. S \in LinkStates
    BY <1>1, GivenUpTyped
  <2>2. Update(S) /\ fault' = 0 /\ pc' = "treat" /\ UNCHANGED <<line, cur, nextFault, calls, heard>>
    BY <1>2 DEF Relink
  <2> HIDE DEF S
  <2>3. QED
    BY <2>1, <2>2, UpdateTyped DEF TypeOK, LineTypeOK, MasterTypeOK, line
<1>3. CASE Visit
  BY <1>3 DEF Visit, TypeOK, LineTypeOK, MasterTypeOK, line
<1>4. CASE PollDue
  <2> DEFINE S == [L EXCEPT !.pack = @ \cup {"second"}]
  <2>1. S \in LinkStates
    BY <1>1, FlagsTyped DEF Requests
  <2>2. Update(S) /\ UNCHANGED <<line, cur, pc, fault, nextFault, calls, heard>>
    BY <1>4 DEF PollDue
  <2> HIDE DEF S
  <2>3. QED
    BY <2>1, <2>2, UpdateTyped DEF TypeOK, LineTypeOK, MasterTypeOK, line
<1>5. CASE CallDue
  <2> DEFINE S == [L EXCEPT !.pack = @ \cup {"call"}]
  <2>1. S \in LinkStates
    BY <1>1, FlagsTyped DEF Requests
  <2>2. Update(S) /\ calls' = calls + 1 /\ calls < MaxCalls
        /\ UNCHANGED <<line, cur, pc, fault, nextFault, heard>>
    BY <1>5 DEF CallDue
  <2> HIDE DEF S
  <2>3. calls' \in 0..MaxCalls
    BY <2>2, MasterAssumption DEF TypeOK, MasterTypeOK
  <2>4. QED
    BY <2>1, <2>2, <2>3, UpdateTyped DEF TypeOK, LineTypeOK, MasterTypeOK, line
<1>6. CASE SendPacked
  <2> DEFINE k == NextPack(cur)
             f == [kind |-> k, fcb |-> IF k \in Unnumbered THEN 0 ELSE FcbFor(L, k),
                   known |-> L.known]
             S == [L EXCEPT !.flags = @ \cup {"wait", "jump"} \cup Noted(k), !.pack = @ \ {k},
                            !.fcb = FcbFor(L, k), !.last = <<f>>]
             T == IF Up(cur) /\ L.retries = RetryNumber THEN GivenUp(S) ELSE S
  <2>1. L.pack # {} /\ Write(f) /\ Update(T) /\ pc' = "receive"
        /\ heard' = [heard EXCEPT ![cur] = IF k = "call" THEN <<>> ELSE @]
        /\ UNCHANGED <<cur, fault, nextFault, calls>>
    BY <1>6 DEF SendPacked
  <2>2. f \in MasterFrames /\ S \in LinkStates
    BY <2>1, RequestTyped
  <2>3. T \in LinkStates
    BY <2>2, GivenUpTyped
  <2> HIDE DEF f, S, T
  <2>4. heard' \in [Stations -> Seq(0..Ended)]
    <3>1. <<>> \in Seq(0..Ended)
      OBVIOUS
    <3>2. QED
      BY <2>1, <3>1 DEF TypeOK, MasterTypeOK
  <2>5. QED
    BY <2>1, <2>2, <2>3, <2>4, WriteTyped, UpdateTyped DEF TypeOK, MasterTypeOK
<1>7. CASE Repeat
  <2> DEFINE S == [L EXCEPT !.retries = @ + 1, !.flags = @ \cup {"jump"}]
  <2>1. Waits(cur) /\ L.retries < RetryNumber /\ Write(L.last[1]) /\ Update(S) /\ pc' = "receive"
        /\ UNCHANGED <<cur, fault, nextFault, calls, heard>>
    BY <1>7 DEF Repeat
  <2>2. L.last # <<>>
    BY <2>1 DEF Sane
  <2>3. L.last[1] \in MasterFrames
    <3>1. L.last \in {<<>>} \cup {<<f>> : f \in MasterFrames}
      BY <1>1 DEF LinkStates
    <3>2. QED
      BY <2>2, <3>1
  <2>4. S \in LinkStates
    <3>1. L.retries + 1 \in 0..RetryNumber
      BY <1>1, <2>1 DEF LinkStates
    <3>2. L.flags \cup {"jump"} \in SUBSET LinkFlags
      BY <1>1 DEF LinkFlags
    <3>3. QED
      BY <1>1, <3>1, <3>2 DEF LinkStates, LinkFlags
  <2> HIDE DEF S
  <2>5. QED
    BY <2>1, <2>3, <2>4, WriteTyped, UpdateTyped DEF TypeOK, MasterTypeOK
<1>8. CASE GiveUp
  <2>1. Update(GivenUp(L)) /\ pc' = "receive"
        /\ UNCHANGED <<line, cur, fault, nextFault, calls, heard>>
    BY <1>8 DEF GiveUp
  <2>2. QED
    BY <1>1, <2>1, GivenUpTyped, UpdateTyped DEF TypeOK, LineTypeOK, MasterTypeOK, line
<1>9. CASE SendNothing
  <2> DEFINE S == [L EXCEPT !.retries = 0, !.flags = @ \ {"jump"}]
             T == IF Up(cur) /\ ~Waits(cur) THEN S ELSE L
  <2>1. Update(T) /\ pc' = "receive" /\ UNCHANGED <<line, cur, fault, nextFault, calls, heard>>
    BY <1>9 DEF SendNothing
  <2>2. S \in LinkStates
    <3>1. 0 \in 0..RetryNumber /\ L.flags \ {"jump"} \in SUBSET LinkFlags
      BY <1>1
    <3>2. QED
      BY <1>1, <3>1 DEF LinkStates, LinkFlags
  <2>3. T \in LinkStates
    BY <1>1, <2>2
  <2> HIDE DEF T
  <2>4. QED
    BY <2>1, <2>3, UpdateTyped DEF TypeOK, LineTypeOK, MasterTypeOK, line
<1>10. CASE StopWaiting
  <2>1. Leave(L) /\ UNCHANGED <<toStation, faults, calls, heard>>
    BY <1>10 DEF StopWaiting
  <2>2. QED
    BY <1>1, <2>1, LeaveTyped DEF TypeOK, LineTypeOK, MasterTypeOK
<1>11. CASE Receive
  <2> DEFINE n == Min(Own)
             f == toMaster[n]
             rest == SubSeq(toMaster, n + 1, Len(toMaster))
             S == Analysed(L, f)
  <2>1. Own # {} /\ Jump(S, rest) /\ UNCHANGED <<toStation, faults, calls>>
        /\ heard' = [heard EXCEPT ![cur] =
             IF f.kind = "call" /\ Up(cur) THEN Append(@, f.pos) ELSE @]
    BY <1>11 DEF Receive
  <2>2. n \in DOMAIN toMaster /\ f \in StationFrames
    BY <2>1, OwnFirst
  <2>3. rest \in Seq(StationFrames)
    BY <2>2, Dropped DEF TypeOK, LineTypeOK
  <2>4. S \in LinkStates
    BY <1>1, <2>2, AnalysedTyped
  <2>5. heard' \in [Stations -> Seq(0..Ended)]
    <3>1. f.pos \in 0..Ended
      BY <2>2 DEF StationFrames
    <3>2. Append(heard[cur], f.pos) \in Seq(0..Ended)
      BY <1>1, <3>1, AppendProperties DEF TypeOK, MasterTypeOK
    <3> HIDE DEF f
    <3>3. QED
      BY <2>1, <3>2 DEF TypeOK, MasterTypeOK
  <2> HIDE DEF S, rest
  <2>6. QED
    BY <2>1, <2>3, <2>4, <2>5, JumpTyped DEF TypeOK, LineTypeOK, MasterTypeOK
<1>12. CASE ReceiveNothing
  <2>1. Jump(L, <<>>) /\ UNCHANGED <<toStation, faults, calls, heard>>
    BY <1>12 DEF ReceiveNothing
  <2>2. <<>> \in Seq(StationFrames)
    OBVIOUS
  <2>3. QED
    BY <1>1, <2>1, <2>2, JumpTyped DEF TypeOK, LineTypeOK, MasterTypeOK
<1>13. QED
  BY <1>2, <1>3, <1>4, <1>5, <1>6, <1>7, <1>8, <1>9, <1>10, <1>11, <1>12 DEF MasterStep, MasterDue

LEMMA LoseTyped == ASSUME TypeOK, Lose PROVE LineTypeOK'
<1>1. faults' \in 0..MaxFaults
  BY LineAssumption DEF Lose, TypeOK, LineTypeOK
<1>2. CASE /\ \E i \in Stations : \E n \in DOMAIN toStation[i] :
                toStation' = [toStation EXCEPT ![i] = RemoveAt(@, n)]
           /\ UNCHANGED toMaster
  <2>1. PICK i \in Stations : \E n \in DOMAIN toStation[i] :
          toStation' = [toStation EXCEPT ![i] = RemoveAt(@, n)]
    BY <1>2
  <2>2. PICK n \in DOMAIN toStation[i] : toStation' = [toStation EXCEPT ![i] = RemoveAt(@, n)]
    BY <2>1
  <2>3. RemoveAt(toStation[i], n) \in Seq(MasterFrames)
    BY Removed DEF TypeOK, LineTypeOK
  <2>4. QED
    BY <1>1, <1>2, <2>2, <2>3 DEF TypeOK, LineTypeOK
<1>3. CASE /\ \E n \in DOMAIN toMaster : toMaster' = RemoveAt(toMaster, n)
           /\ UNCHANGED toStation
  <2>1. toMaster' \in Seq(StationFrames)
    BY <1>3, Removed DEF TypeOK, LineTypeOK
  <2>2. QED
    BY <1>1, <1>3, <2>1 DEF TypeOK, LineTypeOK
<1>4. QED
  BY <1>2, <1>3 DEF Lose

LEMMA TypeStep == TypeOK /\ AllSane /\ [Next]_vars => TypeOK'
<1> SUFFICES ASSUME TypeOK, AllSane, [Next]_vars PROVE TypeOK'
  OBVIOUS
<1>1. Sane(cur)
  BY DEF AllSane, TypeOK, MasterTypeOK
<1>2. CASE (MasterStep \/ MasterDue \/ Timeout) /\ UNCHANGED station
  <2>1. MasterStep \/ MasterDue \/ Relink \/ Repeat \/ StopWaiting
    BY <1>2 DEF Timeout, GivesUpWaiting
  <2>2. LineTypeOK' /\ MasterTypeOK'
    BY <1>1, <2>1, MasterTyped
  <2>3. QED
    BY <1>2, <2>2 DEF TypeOK, StationTypeOK
<1>3. CASE \E i \in Stations : (StationStep(i) \/ Restart(i)) /\ UNCHANGED master
  <2>1. LineTypeOK' /\ StationTypeOK' /\ UNCHANGED master
    BY <1>3, StationTyped
  <2>2. QED
    BY <2>1 DEF TypeOK, MasterTypeOK, master
<1>4. CASE Lose /\ UNCHANGED <<station, master>>
  BY <1>4, LoseTyped DEF TypeOK, MasterTypeOK, StationTypeOK, master
<1>5. CASE UNCHANGED vars
  BY <1>5 DEF TypeOK, LineTypeOK, MasterTypeOK, StationTypeOK, vars, line, master
<1>6. QED
  BY <1>2, <1>3, <1>4, <1>5 DEF Next

LEMMA TypeInit == Init => TypeOK
<1> SUFFICES ASSUME Init PROVE TypeOK
  OBVIOUS
<1>1. 1 \in Stations /\ MaxFaults \in Nat /\ MaxCalls \in Nat /\ RetryNumber \in Nat
      /\ Store1Max \in Nat /\ Store2Max \in Nat /\ MaxRetry \in Nat /\ Ended \in Nat
  BY LineAssumption, MasterAssumption, StationAssumption, StationsAreNumbers DEF Ended
<1>2. LineTypeOK
  <2>1. <<>> \in Seq(MasterFrames) /\ <<>> \in Seq(StationFrames)
    OBVIOUS
  <2>2. QED
    BY <1>1, <2>1 DEF Init, LineInit, LineTypeOK
<1>3. StationTypeOK
  <2>1. PoweredOn \in StationStates
    BY <1>1 DEF PoweredOn, StationStates
  <2>2. QED
    BY <2>1 DEF Init, StationInit, StationTypeOK
<1>4. MasterTypeOK
  <2>1. \A b \in BOOLEAN :
          [flags |-> {}, pack |-> {"request"}, fcb |-> 0, retries |-> 0, last |-> <<>>,
           known |-> b] \in LinkStates
    BY <1>1 DEF LinkStates, Requests, Unnumbered
  <2>2. link \in [Stations -> LinkStates]
    <3>1. \A i \in Stations : (i \in KnownFrom) \in BOOLEAN
      OBVIOUS
    <3>2. \A i \in Stations :
            [flags |-> {}, pack |-> {"request"}, fcb |-> 0, retries |-> 0, last |-> <<>>,
             known |-> i \in KnownFrom] \in LinkStates
      BY <2>1, <3>1
    <3>3. QED
      BY <3>2 DEF Init, MasterInit
  <2>3. <<>> \in Seq(0..Ended)
    OBVIOUS
  <2>4. heard \in [Stations -> Seq(0..Ended)]
    BY <2>3 DEF Init, MasterInit
  <2>5. QED
    BY <1>1, <2>2, <2>4 DEF Init, MasterInit, MasterTypeOK
<1>5. QED
  BY <1>2, <1>3, <1>4 DEF TypeOK

-----------------------------------------------------------------------------
\* What is under way.

LEMMA IdleMeans ==
  ASSUME NEW i
  PROVE  Idle(i) <=> toStation[i] = <<>> /\ station[i].asked = {} /\ Air(i) = {}
BY DEF Idle, Air

\* Of the frames of i that are on their way none has been added.
Fewer(i) ==
  /\ \A m \in Air(i)' : \E n \in Air(i) : toMaster'[m] = toMaster[n]
  /\ (\A m, n \in Air(i) : m = n) => \A m, n \in Air(i)' : m = n

LEMMA FewerWhenSame == ASSUME NEW i, toMaster' = toMaster PROVE Fewer(i) /\ Air(i)' = Air(i)
BY DEF Fewer, Air

LEMMA FewerWhenEmpty == ASSUME NEW i, toMaster' = <<>> PROVE Fewer(i) /\ Air(i)' = {}
BY DEF Fewer, Air

LEMMA FewerWhenRemoved ==
  ASSUME TypeOK, NEW k \in DOMAIN toMaster, toMaster' = RemoveAt(toMaster, k), NEW i
  PROVE  Fewer(i)
<1> DEFINE Was(m) == IF m < k THEN m ELSE m + 1
<1>1. toMaster \in Seq(StationFrames) /\ DOMAIN toMaster = 1..Len(toMaster)
      /\ Len(toMaster) \in Nat /\ k \in 1..Len(toMaster)
  BY DEF TypeOK, LineTypeOK
<1>2. /\ toMaster' \in Seq(StationFrames) /\ Len(toMaster') = Len(toMaster) - 1
      /\ \A m \in 1..(Len(toMaster) - 1) : toMaster'[m] = toMaster[Was(m)]
  <2>1. /\ toMaster' \in Seq(StationFrames) /\ Len(toMaster') = Len(toMaster) - 1
        /\ \A m \in 1..(Len(toMaster) - 1) :
             toMaster'[m] = IF m < k THEN toMaster[m] ELSE toMaster[m + 1]
    BY <1>1, Removed
  <2>2. QED
    BY <2>1
<1>3. DOMAIN toMaster' = 1..(Len(toMaster) - 1)
  BY <1>2
<1>4. \A m \in 1..(Len(toMaster) - 1) : Was(m) \in DOMAIN toMaster
  BY <1>1
<1>5. \A m, n \in 1..(Len(toMaster) - 1) : Was(m) = Was(n) => m = n
  BY <1>1
<1> HIDE DEF Was
<1>6. \A m \in Air(i)' : m \in 1..(Len(toMaster) - 1) /\ Was(m) \in Air(i)
        /\ toMaster'[m] = toMaster[Was(m)]
  BY <1>2, <1>3, <1>4 DEF Air
<1>7. QED
  BY <1>5, <1>6 DEF Fewer

LEMMA FewerWhenDropped ==
  ASSUME TypeOK, NEW k \in DOMAIN toMaster,
         toMaster' = SubSeq(toMaster, k + 1, Len(toMaster)), NEW i
  PROVE  /\ Fewer(i)
         /\ k \in Air(i) /\ (\A m, n \in Air(i) : m = n) => Air(i)' = {}
<1>1. toMaster \in Seq(StationFrames) /\ DOMAIN toMaster = 1..Len(toMaster)
      /\ Len(toMaster) \in Nat /\ k \in 1..Len(toMaster)
  BY DEF TypeOK, LineTypeOK
<1>2. /\ toMaster' \in Seq(StationFrames) /\ Len(toMaster') = Len(toMaster) - k
      /\ \A m \in 1..(Len(toMaster) - k) : toMaster'[m] = toMaster[m + k]
  BY <1>1, Dropped
<1>3. DOMAIN toMaster' = 1..(Len(toMaster) - k)
  BY <1>2
<1>4. \A m \in 1..(Len(toMaster) - k) : m + k \in DOMAIN toMaster /\ m + k # k
  BY <1>1
<1>5. \A m, n \in 1..(Len(toMaster) - k) : m + k = n + k => m = n
  BY <1>1
<1> DEFINE Was(m) == m + k
<1>6. \A m \in Air(i)' : m \in 1..(Len(toMaster) - k) /\ Was(m) \in Air(i)
        /\ toMaster'[m] = toMaster[Was(m)] /\ Was(m) # k
  BY <1>2, <1>3, <1>4 DEF Air
<1>7. \A m, n \in 1..(Len(toMaster) - k) : Was(m) = Was(n) => m = n
  BY <1>5
<1> HIDE DEF Was
<1>8. QED
  BY <1>6, <1>7 DEF Fewer

\* A frame is added behind the others.
LEMMA AirWhenAppended ==
  ASSUME TypeOK, NEW f \in StationFrames, toMaster' = Append(toMaster, f), NEW i
  PROVE  /\ f.from # i => Fewer(i)
         /\ f.from = i /\ Air(i) = {} =>
              \E k \in Nat : Air(i)' = {k} /\ toMaster'[k] = f
<1> DEFINE N == Len(toMaster)
<1>1. toMaster \in Seq(StationFrames) /\ DOMAIN toMaster = 1..N /\ N \in Nat
  BY DEF TypeOK, LineTypeOK
<1>2. /\ toMaster' \in Seq(StationFrames) /\ Len(toMaster') = N + 1
      /\ \A m \in 1..N : toMaster'[m] = toMaster[m]
      /\ toMaster'[N + 1] = f
  BY <1>1, AppendProperties
<1>3. DOMAIN toMaster' = 1..(N + 1)
  BY <1>2
<1>4. 1..(N + 1) = (1..N) \cup {N + 1}
  BY <1>1
<1> HIDE DEF N
<1>5. \A m \in Air(i)' :
        \/ m = N + 1 /\ f.from = i
        \/ m \in Air(i) /\ toMaster'[m] = toMaster[m]
  <2> TAKE m \in Air(i)'
  <2>1. m \in 1..(N + 1) /\ toMaster'[m].from = i
    BY <1>3 DEF Air
  <2>2. CASE m = N + 1
    BY <1>2, <2>1, <2>2
  <2>3. CASE m \in 1..N
    BY <1>1, <1>2, <2>1, <2>3 DEF Air
  <2>4. QED
    BY <1>4, <2>1, <2>2, <2>3
<1>6. f.from # i => Fewer(i)
  BY <1>5 DEF Fewer
<1>7. ASSUME f.from = i, Air(i) = {} PROVE Air(i)' = {N + 1}
  BY <1>2, <1>3, <1>4, <1>5, <1>7 DEF Air
<1>8. N + 1 \in Nat
  BY <1>1
<1>9. QED
  BY <1>2, <1>6, <1>7, <1>8

\* Nothing happens to i, or it loses what was under way.
LEMMA OrderlyWhenLost ==
  ASSUME NEW i \in Stations, Orderly(i),
         link'[i] = link[i], station'[i] = station[i], heard'[i] = heard[i],
         toStation'[i] = toStation[i] \/ toStation'[i] = <<>>, Fewer(i),
         cur' = cur \/ Idle(i)
  PROVE  Orderly(i)'
<1>1. Air(i) = {} => Air(i)' = {}
  BY DEF Fewer
<1>2. OneMessage(i)'
  <2>1. Len(<<>>) = 0
    OBVIOUS
  <2>2. OneMessage(i)
    BY DEF Orderly
  <2>3. Len(toStation'[i]) <= 1
    BY <2>1, <2>2 DEF OneMessage
  <2>4. \A m, n \in Air(i)' : m = n
    BY <2>2 DEF OneMessage, Fewer
  <2>5. QED
    BY <1>1, <2>2, <2>3, <2>4 DEF OneMessage
<1>3. Idle(i) => Idle(i)'
  BY <1>1 DEF Idle, Air
<1>4. ~Idle(i)' => (cur = i /\ {"jump", "wait"} \subseteq link[i].flags)'
  BY <1>3 DEF Orderly
<1>5. \A K, B, A : About(i, K, B, A) => About(i, K, B, A)'
  BY DEF About, Fewer
<1>6. ToRequest(i) => ToRequest(i)'
  BY <1>3 DEF ToRequest
<1>7. Requesting(i) => Requesting(i)'
  BY <1>5 DEF Requesting, Lasting
<1>8. ToReset(i) => ToReset(i)'
  BY <1>3 DEF ToReset, Lasting
<1>9. Resetting(i) => Resetting(i)'
  BY <1>1, <1>5 DEF Resetting, Lasting
<1>10. Running(i) => Running(i)'
  <2> SUFFICES ASSUME Running(i) PROVE Running(i)'
    OBVIOUS
  <2>1. Agreed(i)'
    BY <1>1 DEF Running, Agreed, Waits
  <2>2. InStep(i)'
    BY DEF Running, InStep, Interrogating, Replied, HasCounted, Waits, Fewer
  <2>3. QED
    BY <2>1, <2>2 DEF Running, Up
<1>11. QED
  BY <1>2, <1>4, <1>6, <1>7, <1>8, <1>9, <1>10 DEF Orderly

-----------------------------------------------------------------------------
\* A station reads, answers or starts again.

LEMMA OnlyWhatWasSent ==
  ASSUME TypeOK, NEW i \in Stations, toStation[i] # <<>>, Len(toStation[i]) <= 1
  PROVE  /\ Tail(toStation[i]) = <<>> /\ Head(toStation[i]) = toStation[i][1]
         /\ DOMAIN toStation[i] = {1}
<1> DEFINE s == toStation[i]
<1>1. s \in Seq(MasterFrames) /\ s # <<>> /\ Len(s) <= 1
  BY DEF TypeOK, LineTypeOK
<1> HIDE DEF s
<1>2. Len(s) = 1
  <2>1. Len(s) \in Nat /\ Len(s) # 0
    BY <1>1, EmptySeq
  <2>2. Len(s) <= 1
    BY <1>1
  <2>3. QED
    BY <2>1, <2>2
<1>3. Tail(s) \in Seq(MasterFrames) /\ Len(Tail(s)) = 0
  BY <1>1, <1>2, HeadTailProperties
<1>4. DOMAIN s = 1..1
  BY <1>1, <1>2
<1>5. QED
  BY <1>1, <1>3, <1>4 DEF s

LEMMA ReadEffect ==
  ASSUME TypeOK, NEW i \in Stations, Orderly(i), toStation[i] # <<>>, NEW s, Read(i, s)
  PROVE  /\ station[i].asked = {} /\ Air(i) = {} /\ Air(i)' = {}
         /\ toStation'[i] = <<>> /\ station'[i] = s
         /\ cur = i /\ {"jump", "wait"} \subseteq link[i].flags
<1>1. station[i].asked = {} /\ Air(i) = {} /\ Len(toStation[i]) <= 1
  BY DEF Orderly, OneMessage
<1>2. toStation'[i] = <<>> /\ station'[i] = s
  BY <1>1, OnlyWhatWasSent DEF Read, Taken, TypeOK, LineTypeOK, StationTypeOK
<1>3. Air(i)' = {}
  BY <1>1, FewerWhenSame DEF Read
<1>4. QED
  BY <1>1, <1>2, <1>3, IdleMeans DEF Orderly

\* The frame that has gone out is the last one, for the master and for i.
GoesOut(i, s, kind, pos) ==
  \E f \in StationFrames : \E k \in Nat :
    /\ f.kind = kind /\ f.pos = pos
    /\ station'[i] = [s EXCEPT !.lastTx = <<f>>]
    /\ Air(i)' = {k} /\ toMaster'[k] = f

LEMMA AnswerEffect ==
  ASSUME TypeOK, NEW i \in Stations, Orderly(i), station[i].asked # {},
         NEW s, NEW kind \in Answers, NEW pos \in 0..Ended, Answer(i, s, kind, pos)
  PROVE  /\ toStation[i] = <<>> /\ toStation'[i] = <<>> /\ Air(i) = {}
         /\ cur = i /\ {"jump", "wait"} \subseteq link[i].flags
         /\ GoesOut(i, s, kind, pos)
<1> DEFINE f == [from |-> i, kind |-> kind, pos |-> pos,
                 acd |-> kind \in {"accept", "nothing", "state"} /\ s.data1 # {}]
<1>1. f \in StationFrames /\ f.from = i /\ f.kind = kind /\ f.pos = pos
  BY DEF StationFrames
<1>2. /\ station' = [station EXCEPT ![i] = [s EXCEPT !.lastTx = <<f>>]]
      /\ toMaster' = Append(toMaster, f) /\ UNCHANGED toStation
  BY DEF Answer
<1> HIDE DEF f
<1>3. toStation[i] = <<>> /\ Air(i) = {}
  BY DEF Orderly, OneMessage
<1>4. station'[i] = [s EXCEPT !.lastTx = <<f>>]
  BY <1>2 DEF TypeOK, StationTypeOK
<1>5. \E k \in Nat : Air(i)' = {k} /\ toMaster'[k] = f
  BY <1>1, <1>2, <1>3, AirWhenAppended
<1>6. cur = i /\ {"jump", "wait"} \subseteq link[i].flags
  BY IdleMeans DEF Orderly
<1>7. GoesOut(i, s, kind, pos)
  BY <1>1, <1>4, <1>5 DEF GoesOut
<1>8. QED
  BY <1>2, <1>3, <1>6, <1>7

\* Where a link is while something is under way.
LEMMA BusyPhases ==
  ASSUME NEW i, Orderly(i), ~Idle(i)
  PROVE  Requesting(i) \/ Resetting(i) \/ Running(i)
BY DEF Orderly, ToRequest, ToReset

\* One message: nothing of it but an answer to come, or nothing but an answer.
LEMMA OnlyAsked ==
  ASSUME NEW i, toStation'[i] = <<>>, Air(i)' = {},
         station'[i].asked = {} \/ \E a : station'[i].asked = {a}
  PROVE  OneMessage(i)'
<1>1. Len(<<>>) = 0
  OBVIOUS
<1>2. QED
  BY <1>1 DEF OneMessage

LEMMA OnlyAnswered ==
  ASSUME NEW i, toStation'[i] = <<>>, station'[i].asked = {}, NEW k, Air(i)' = {k}
  PROVE  OneMessage(i)'
<1>1. Len(<<>>) = 0
  OBVIOUS
<1>2. QED
  BY <1>1 DEF OneMessage

\* A numbered request that a station takes for a new one.
LEMMA NewRunning ==
  ASSUME NEW i \in Stations, Running(i), Waits(i), toStation[i] # <<>>,
         UNCHANGED <<link, heard>>, ~HasCounted(i),
         station'[i].first, station'[i].fcb = Head(toStation[i]).fcb,
         toStation'[i] = <<>>, Air(i)' = {}, ~Replied(i)',
         "call" \in station'[i].data1 =>
           \/ Interrogating(i) /\ station'[i].stage = 0
           \/ /\ ~Interrogating(i) /\ "call" \in station[i].data1
              /\ station'[i].stage = station[i].stage
  PROVE  Running(i)'
<1>1. Agreed(i) /\ InStep(i)
  BY DEF Running
<1>2. Head(toStation[i]).fcb = link[i].fcb
  BY <1>1 DEF Agreed
<1>3. Agreed(i)'
  BY <1>1, <1>2 DEF Agreed, Waits
<1>4. ~Replied(i)
  BY DEF Replied
<1>5. Interrogating(i) => heard[i] = <<>> /\ Len(heard[i]) = 0
  BY <1>1 DEF InStep
<1>6. HasCounted(i)' /\ (Interrogating(i)' <=> Interrogating(i))
  BY <1>2 DEF HasCounted, Interrogating, Waits
<1>7. InStep(i)'
  <2>1. Interrogating(i)' => heard'[i] = <<>>
    BY <1>5, <1>6
  <2>2. "call" \in station'[i].data1 => station'[i].stage = Len(heard'[i])
    BY <1>1, <1>4, <1>5 DEF InStep
  <2>3. QED
    BY <2>1, <2>2 DEF InStep
<1>8. QED
  BY <1>3, <1>7 DEF Running, Up

\* An answer to what a running link has asked for.
LEMMA AnswerRunning ==
  ASSUME NEW i \in Stations, Sane(i), Running(i), Waits(i),
         station[i].asked # {}, UNCHANGED <<link, heard>>,
         station'[i].first = station[i].first, station'[i].fcb = station[i].fcb,
         station'[i].asked = {}, toStation'[i] = <<>>,
         NEW f \in StationFrames, NEW k \in Nat, Air(i)' = {k}, toMaster'[k] = f,
         station'[i].lastTx = <<f>>,
         f.kind = "call" =>
           /\ "call" \in station[i].data1 /\ f.pos = station[i].stage
           /\ "call" \in station'[i].data1 => station'[i].stage = station[i].stage + 1,
         f.kind # "call" /\ "call" \in station'[i].data1 =>
           "call" \in station[i].data1 /\ station'[i].stage = station[i].stage
  PROVE  Running(i)'
<1>1. Agreed(i) /\ InStep(i)
  BY DEF Running
<1>2. station[i].first => HasCounted(i)
  BY <1>1 DEF Agreed, HasCounted
<1>3. ~Replied(i)
  BY DEF Replied
<1>4. "call" \in station[i].data1 =>
        HasCounted(i) /\ station[i].stage = Len(heard[i])
  BY <1>1, <1>2, <1>3 DEF InStep, Sane
<1>5. Agreed(i)'
  BY <1>1 DEF Agreed, Waits
<1>6. <<f>> # <<>> /\ <<f>>[1] = f
  OBVIOUS
<1>7. Replied(i)' <=> HasCounted(i) /\ f.kind = "call"
  BY <1>6 DEF Replied, HasCounted, Waits
<1>8. "call" \in station'[i].data1 => "call" \in station[i].data1
  OBVIOUS
<1>9. InStep(i)'
  <2>1. Interrogating(i)' => heard'[i] = <<>>
    BY <1>1 DEF InStep, Interrogating, Waits
  <2>2. ASSUME "call" \in station'[i].data1
        PROVE  station'[i].stage = IF Replied(i)' THEN Len(heard'[i]) + 1 ELSE Len(heard'[i])
    <3>1. CASE f.kind = "call"
      BY <1>4, <1>7, <1>8, <2>2, <3>1
    <3>2. CASE f.kind # "call"
      BY <1>4, <1>7, <1>8, <2>2, <3>2
    <3>3. QED
      BY <3>1, <3>2
  <2>3. f.kind = "call" => f.pos = Len(heard'[i])
    BY <1>4
  <2>4. Replied(i)' => station'[i].lastTx[1].pos = Len(heard'[i])
    BY <1>6, <1>7, <2>3
  <2>5. QED
    BY <2>1, <2>2, <2>3, <2>4 DEF InStep
<1>10. QED
  BY <1>5, <1>9 DEF Running, Up

LEMMA BusyWaits ==
  ASSUME NEW i, Orderly(i), ~Idle(i)
  PROVE  Waits(i) /\ cur = i /\ {"jump", "wait"} \subseteq link[i].flags
BY DEF Orderly, Waits

\* What the parts of Orderly come to when the master does nothing.
LEMMA StillOrderly ==
  ASSUME NEW i \in Stations, UNCHANGED master, Orderly(i), ~Idle(i), OneMessage(i)',
         Requesting(i)' \/ Resetting(i)' \/ Running(i)'
  PROVE  Orderly(i)'
BY DEF Orderly, master

LEMMA ReadOrderly ==
  ASSUME TypeOK, NEW i \in Stations, Sane(i), Orderly(i), UNCHANGED master,
         ReadRequest(i) \/ ReadReset(i) \/ ReadClass(i) \/ ReadCommand(i)
  PROVE  Orderly(i)'
<1> DEFINE s == station[i]
           f == Head(toStation[i])
<1>1. toStation[i] # <<>> /\ ~Idle(i)
  BY DEF ReadRequest, ReadReset, ReadClass, ReadCommand, Arrived, Idle
<1>2. /\ Waits(i) /\ (Requesting(i) \/ Resetting(i) \/ Running(i))
      /\ s.asked = {} /\ Air(i) = {}
  BY <1>1, BusyWaits, BusyPhases DEF Orderly, OneMessage
<1>3. s \in StationStates
  BY DEF TypeOK, StationTypeOK
<1>4. CASE ReadRequest(i)
  <2>1. /\ Air(i)' = {} /\ toStation'[i] = <<>>
        /\ station'[i] = [s EXCEPT !.asked = @ \cup {"status"}]
    BY <1>1, <1>4, ReadEffect DEF ReadRequest
  <2>2. station'[i].asked = {"status"}
    BY <1>2, <1>3, <2>1 DEF StationStates
  <2>3. f.kind = "request"
    BY <1>4 DEF ReadRequest, Arrived
  <2>4. Requesting(i)
    <3>1. ~Resetting(i)
      BY <1>1, <2>3 DEF Resetting, About
    <3>2. ~Running(i)
      BY <1>1, <1>2, <2>3 DEF Running, Agreed, Unnumbered
    <3>3. QED
      BY <1>2, <3>1, <3>2
  <2>5. Requesting(i)'
    BY <2>1, <2>2, <2>4 DEF Requesting, Lasting, About, master
  <2>6. OneMessage(i)'
    BY <2>1, <2>2, OnlyAsked
  <2>7. QED
    BY <1>1, <2>5, <2>6, StillOrderly
<1>5. CASE ReadReset(i)
  <2> DEFINE t == [s EXCEPT
       !.asked = {"confirm"}, !.initEnd = TRUE, !.first = FALSE, !.initflag = TRUE,
       !.data1 = IF s.initflag THEN {} ELSE {"init"}, !.store1 = 0, !.store2 = 0]
  <2>1. Read(i, t)
    BY <1>5 DEF ReadReset
  <2>2. t.asked = {"confirm"} /\ ~t.first
    BY <1>3 DEF StationStates
  <2> HIDE DEF t
  <2>3. Air(i)' = {} /\ toStation'[i] = <<>> /\ station'[i] = t
    BY <1>1, <2>1, ReadEffect
  <2>4. f.kind = "reset"
    BY <1>5 DEF ReadReset, Arrived
  <2>5. Resetting(i)
    <3>1. ~Requesting(i)
      BY <1>1, <2>4 DEF Requesting, About
    <3>2. ~Running(i)
      BY <1>1, <1>2, <2>4 DEF Running, Agreed, Unnumbered
    <3>3. QED
      BY <1>2, <3>1, <3>2
  <2>6. Resetting(i)'
    BY <2>2, <2>3, <2>5 DEF Resetting, Lasting, About, master
  <2>7. OneMessage(i)'
    BY <2>2, <2>3, OnlyAsked
  <2>8. QED
    BY <1>1, <2>6, <2>7, StillOrderly
<1>6. ASSUME f.kind \notin Unnumbered PROVE Running(i) /\ Agreed(i) /\ InStep(i) /\ f = link[i].last[1]
  <2>1. ~Requesting(i) /\ ~Resetting(i)
    BY <1>1, <1>6 DEF Requesting, Resetting, About, Unnumbered
  <2>2. QED
    BY <1>1, <1>2, <2>1 DEF Running, Agreed
<1>7. ASSUME f.kind \notin Unnumbered, New(i) PROVE ~HasCounted(i)
  <2>1. f.fcb = link[i].fcb
    BY <1>1, <1>2, <1>6, <1>7 DEF Agreed
  <2>2. QED
    BY <1>7, <2>1 DEF New, HasCounted
<1>8. CASE ReadClass(i)
  <2>1. f.kind \in {"stair", "second"} /\ New(i)
    BY <1>8 DEF ReadClass, Arrived
  <2>2. PICK class \in {"class1", "class2"} :
          Read(i, [Counted(i) EXCEPT !.asked = IF s.initEnd THEN @ \cup {class} ELSE @])
    BY <1>8 DEF ReadClass
  <2> DEFINE t == [Counted(i) EXCEPT !.asked = IF s.initEnd THEN @ \cup {class} ELSE @]
  <2>3. /\ t.asked = IF s.initEnd THEN {class} ELSE {}
        /\ t.first /\ t.fcb = f.fcb /\ t.data1 = s.data1 /\ t.stage = s.stage
        /\ t.lastTx = s.lastTx /\ t.initEnd = s.initEnd
    BY <1>2, <1>3 DEF Counted, StationStates
  <2>4. Read(i, t)
    BY <2>2
  <2> HIDE DEF t
  <2>5. Air(i)' = {} /\ toStation'[i] = <<>> /\ station'[i] = t
    BY <1>1, <2>4, ReadEffect
  <2>6. f.kind \notin Unnumbered /\ f.kind # "call"
    BY <2>1 DEF Unnumbered
  <2>7. ~Interrogating(i)
    BY <1>6, <2>6 DEF Interrogating
  <2>8. ~Replied(i)'
    <3>1. CASE s.initEnd
      BY <2>3, <2>5, <3>1 DEF Replied
    <3>2. CASE ~s.initEnd
      BY <2>3, <2>5, <3>2 DEF Replied, Sane
    <3>3. QED
      BY <3>1, <3>2
  <2>9. UNCHANGED <<link, heard>>
    BY DEF master
  <2>10. Running(i)'
    BY <1>1, <1>2, <1>6, <1>7, <2>1, <2>3, <2>5, <2>6, <2>7, <2>8, <2>9, NewRunning
  <2>11. OneMessage(i)'
    BY <2>3, <2>5, OnlyAsked
  <2>12. QED
    BY <1>1, <2>10, <2>11, StillOrderly
<1>9. CASE ReadCommand(i)
  <2>1. f.kind \in {"call", "clock"} /\ New(i) /\ f.kind \notin Unnumbered
    BY <1>9 DEF ReadCommand, Arrived, Unnumbered
  <2>2. UNCHANGED <<link, heard>> /\ cur' = cur
    BY DEF master
  <2>3. CASE ~s.initEnd
    <3>1. Read(i, s)
      BY <1>9, <2>3 DEF ReadCommand
    <3>2. toStation'[i] = <<>> /\ station'[i] = s
      BY <1>1, <3>1, ReadEffect
    <3>3. Fewer(i)
      BY <3>1, FewerWhenSame DEF Read
    <3>4. QED
      BY <2>2, <3>2, <3>3, OrderlyWhenLost
  <2>4. CASE s.initEnd
    <3> DEFINE c == [Counted(i) EXCEPT !.asked = @ \cup {"confirm"}]
               t == Processed(c, f)
    <3>1. /\ c.asked = {"confirm"} /\ c.first /\ c.fcb = f.fcb /\ c.data1 = s.data1
          /\ c.stage = s.stage /\ c \in StationStates
      <4>1. Counted(i) \in StationStates
        BY <1>1, HeadTyped
      <4>2. c \in StationStates
        BY <4>1 DEF StationStates
      <4>3. QED
        BY <1>2, <1>3, <4>2 DEF Counted, StationStates
    <3>2. Read(i, t)
      BY <1>9, <2>4 DEF ReadCommand
    <3> HIDE DEF c
    <3>3. /\ t.asked = {"confirm"} /\ t.first /\ t.fcb = f.fcb
          /\ "call" \in t.data1 =>
               \/ f.known /\ f.kind = "call" /\ t.stage = 0
               \/ f.kind # "call" /\ "call" \in s.data1 /\ t.stage = s.stage
               \/ ~f.known /\ "call" \in s.data1
      <4>1. CASE ~f.known
        <5>1. t = [c EXCEPT !.store1 = UpTo(@, Store1Max)]
          BY <4>1 DEF Processed
        <5>2. QED
          BY <3>1, <4>1, <5>1 DEF StationStates
      <4>2. CASE f.known /\ f.kind = "call"
        <5>1. t = [c EXCEPT !.data1 = @ \cup {"call"}, !.stage = 0]
          BY <2>1, <4>2 DEF Processed
        <5>2. QED
          BY <3>1, <4>2, <5>1 DEF StationStates
      <4>3. CASE f.known /\ f.kind = "clock"
        <5>1. t = [c EXCEPT !.store2 = UpTo(@, Store2Max)]
          BY <2>1, <4>3 DEF Processed
        <5>2. QED
          BY <3>1, <4>3, <5>1 DEF StationStates
      <4>4. QED
        BY <2>1, <4>1, <4>2, <4>3
    <3> HIDE DEF t
    <3>4. Air(i)' = {} /\ toStation'[i] = <<>> /\ station'[i] = t
      BY <1>1, <3>2, ReadEffect
    <3>5. ~Replied(i)'
      BY <3>3, <3>4 DEF Replied
    <3>6. "call" \in s.data1 => f.known
      BY <1>2, <1>6, <2>1 DEF Sane, Agreed
    <3>7. Interrogating(i) <=> f.kind = "call"
      BY <1>2, <1>6, <2>1 DEF Interrogating
    <3>8. Running(i)'
      BY <1>1, <1>2, <1>6, <1>7, <2>1, <2>2, <3>3, <3>4, <3>5, <3>6, <3>7, NewRunning
    <3>9. OneMessage(i)'
      BY <3>3, <3>4, OnlyAsked
    <3>10. QED
      BY <1>1, <3>8, <3>9, StillOrderly
  <2>5. QED
    BY <2>3, <2>4
<1>10. QED
  BY <1>4, <1>5, <1>8, <1>9

LEMMA RepeatedOrderly ==
  ASSUME TypeOK, NEW i \in Stations, Sane(i), Orderly(i), UNCHANGED master, ReadRepeated(i)
  PROVE  Orderly(i)'
<1> DEFINE s == station[i]
           f == Head(toStation[i])
<1>1. toStation[i] # <<>> /\ ~Idle(i)
  BY DEF ReadRepeated, Idle
<1>2. /\ Waits(i) /\ (Requesting(i) \/ Resetting(i) \/ Running(i))
      /\ s.asked = {} /\ Air(i) = {} /\ Len(toStation[i]) <= 1
  BY <1>1, BusyWaits, BusyPhases DEF Orderly, OneMessage
<1>3. s \in StationStates /\ DOMAIN station = Stations /\ DOMAIN toStation = Stations
  BY DEF TypeOK, StationTypeOK, LineTypeOK
<1>4. toStation'[i] = <<>>
  BY <1>1, <1>2, <1>3, OnlyWhatWasSent DEF ReadRepeated, Taken
<1>5. f.kind \notin Unnumbered /\ f.fcb = s.fcb /\ s.first
  BY DEF ReadRepeated, New
<1>6. Running(i) /\ Agreed(i) /\ InStep(i) /\ f = link[i].last[1]
  <2>1. ~Requesting(i) /\ ~Resetting(i)
    BY <1>1, <1>5 DEF Requesting, Resetting, About, Unnumbered
  <2>2. QED
    BY <1>1, <1>2, <2>1 DEF Running, Agreed
<1>7. HasCounted(i)
  BY <1>2, <1>5, <1>6 DEF HasCounted, Agreed
<1>8. UNCHANGED <<link, heard>> /\ cur' = cur
  BY DEF master
<1>9. CASE UNCHANGED <<station, toMaster>>
  BY <1>4, <1>8, <1>9, FewerWhenSame, OrderlyWhenLost
<1>10. CASE station' = [station EXCEPT ![i].noTurn = @ - 1] /\ toMaster' = toMaster \o s.lastTx
  <2>1. station'[i] = [s EXCEPT !.noTurn = @ - 1]
    BY <1>3, <1>10
  <2>2. /\ station'[i].asked = {} /\ station'[i].first = s.first /\ station'[i].fcb = s.fcb
        /\ station'[i].data1 = s.data1 /\ station'[i].stage = s.stage
        /\ station'[i].lastTx = s.lastTx
    BY <1>2, <1>3, <2>1 DEF StationStates
  <2>3. Agreed(i)'
    BY <1>4, <1>5, <1>6, <1>7, <1>8, <2>2 DEF Agreed, Waits, HasCounted
  <2>4. (Replied(i)' <=> Replied(i)) /\ (Interrogating(i)' <=> Interrogating(i))
        /\ (HasCounted(i)' <=> HasCounted(i))
    BY <1>2, <1>8, <2>2 DEF Replied, Interrogating, HasCounted, Waits
  <2>5. CASE s.lastTx = <<>>
    <3>1. toMaster' = toMaster
      BY <1>10, <2>5, ConcatEmptySeq DEF TypeOK, LineTypeOK
    <3>2. Air(i)' = {}
      BY <1>2, <3>1, FewerWhenSame
    <3>3. OneMessage(i)'
      BY <1>4, <2>2, <3>2, OnlyAsked
    <3>4. InStep(i)'
      BY <1>6, <1>8, <2>2, <2>4, <3>2 DEF InStep
    <3>5. Running(i)'
      BY <1>6, <1>8, <2>3, <3>4 DEF Running, Up
    <3>6. QED
      BY <1>1, <3>3, <3>5, StillOrderly
  <2>6. CASE s.lastTx # <<>>
    <3>1. PICK g \in StationFrames : s.lastTx = <<g>>
      BY <1>3, <2>6 DEF StationStates
    <3>2. s.lastTx[1] = g /\ g.from = i
      BY <2>6, <3>1 DEF Sane
    <3>3. toMaster' = Append(toMaster, g)
      BY <1>10, <3>1, AppendIsConcat DEF TypeOK, LineTypeOK
    <3>4. \E k \in Nat : Air(i)' = {k} /\ toMaster'[k] = g
      <4>1. Air(i) = {}
        BY <1>2
      <4>2. QED
        BY <3>2, <3>3, <4>1, AirWhenAppended, ZenonT(40)
    <3> PICK k \in Nat : Air(i)' = {k} /\ toMaster'[k] = g
      BY <3>4
    <3>5. OneMessage(i)'
      BY <1>4, <2>2, <3>4, OnlyAnswered
    <3>6. g.kind = "call" => Replied(i)
      BY <1>2, <1>7, <2>6, <3>2 DEF Replied
    <3>7. g.kind = "call" => g.pos = Len(heard[i])
      BY <1>6, <3>2, <3>6 DEF InStep
    <3>8. InStep(i)'
      BY <1>6, <1>8, <2>2, <2>4, <3>1, <3>4, <3>7 DEF InStep
    <3>9. Running(i)'
      BY <1>6, <1>8, <2>3, <3>8 DEF Running, Up
    <3>10. QED
      BY <1>1, <3>5, <3>9, StillOrderly
  <2>7. QED
    BY <2>5, <2>6
<1>11. QED
  BY <1>9, <1>10 DEF ReadRepeated

\* The answers other than a frame of an interrogation.
LEMMA OtherAnswerOrderly ==
  ASSUME TypeOK, NEW i \in Stations, Sane(i), Orderly(i), UNCHANGED master, Running(i),
         station[i].asked # {}, NEW t \in StationStates, NEW kind \in Answers, kind # "call",
         Answer(i, t, kind, 0),
         t.asked = {}, t.first = station[i].first, t.fcb = station[i].fcb,
         t.stage = station[i].stage, "call" \in t.data1 => "call" \in station[i].data1
  PROVE  Orderly(i)'
<1>1. 0 \in 0..Ended
  BY LineAssumption DEF Ended
<1>2. PICK f \in StationFrames : \E k \in Nat :
        /\ f.kind = kind /\ f.pos = 0
        /\ station'[i] = [t EXCEPT !.lastTx = <<f>>]
        /\ Air(i)' = {k} /\ toMaster'[k] = f
  <2>1. GoesOut(i, t, kind, 0)
    BY <1>1, AnswerEffect
  <2>2. QED
    BY <2>1 DEF GoesOut
<1>3. PICK k \in Nat :
        /\ f.kind = kind /\ f.pos = 0
        /\ station'[i] = [t EXCEPT !.lastTx = <<f>>]
        /\ Air(i)' = {k} /\ toMaster'[k] = f
  BY <1>2
<1>4. toStation'[i] = <<>>
  BY <1>1, AnswerEffect
<1>5. /\ station'[i].asked = {} /\ station'[i].first = t.first /\ station'[i].fcb = t.fcb
      /\ station'[i].stage = t.stage /\ station'[i].data1 = t.data1
      /\ station'[i].lastTx = <<f>>
  BY <1>3 DEF StationStates
<1>6. ~Idle(i) /\ Waits(i)
  BY BusyWaits DEF Idle
<1>7. UNCHANGED <<link, heard>>
  BY DEF master
<1>8. Running(i)'
  BY <1>3, <1>4, <1>5, <1>6, <1>7, AnswerRunning
<1>9. OneMessage(i)'
  BY <1>3, <1>4, <1>5, OnlyAnswered
<1>10. QED
  BY <1>6, <1>8, <1>9, StillOrderly

LEMMA StatusOrderly ==
  ASSUME TypeOK, NEW i \in Stations, Sane(i), Orderly(i), UNCHANGED master,
         AnswerStatus(i) \/ AnswerConfirm(i)
  PROVE  Orderly(i)'
<1> DEFINE s == station[i]
<1>1. s.asked # {} /\ ~Idle(i)
  BY DEF AnswerStatus, AnswerConfirm, Idle
<1>2. /\ Waits(i) /\ (Requesting(i) \/ Resetting(i) \/ Running(i))
      /\ \A a, b \in s.asked : a = b
  BY <1>1, BusyWaits, BusyPhases DEF Orderly, OneMessage
<1>3. s \in StationStates /\ 0 \in 0..Ended
  BY LineAssumption DEF TypeOK, StationTypeOK, Ended
<1>4. PICK a \in {"status", "confirm"} :
        /\ a \in s.asked
        /\ Answer(i, [s EXCEPT !.asked = @ \ {a}], IF a = "status" THEN "state" ELSE "accept", 0)
  BY DEF AnswerStatus, AnswerConfirm
<1> DEFINE t == [s EXCEPT !.asked = @ \ {a}]
           kind == IF a = "status" THEN "state" ELSE "accept"
<1>5. /\ t.asked = {} /\ t.first = s.first /\ t.fcb = s.fcb /\ t.stage = s.stage
      /\ t.data1 = s.data1
  BY <1>2, <1>3, <1>4 DEF StationStates
<1>6. t \in StationStates
  BY <1>3 DEF StationStates
<1>7. kind \in Answers /\ kind # "call" /\ Answer(i, t, kind, 0)
  BY <1>4 DEF Answers
<1> HIDE DEF t, kind
<1>8. CASE Running(i)
  <2>1. "call" \in t.data1 => "call" \in s.data1
    BY <1>5
  <2>2. QED
    BY <1>1, <1>5, <1>6, <1>7, <1>8, <2>1, OtherAnswerOrderly
<1>9. CASE Requesting(i) \/ Resetting(i)
  <2>1. GoesOut(i, t, kind, 0) /\ toStation'[i] = <<>>
    BY <1>1, <1>3, <1>7, AnswerEffect
  <2>2. PICK f \in StationFrames : \E k \in Nat :
          /\ f.kind = kind /\ station'[i] = [t EXCEPT !.lastTx = <<f>>]
          /\ Air(i)' = {k} /\ toMaster'[k] = f
    BY <2>1 DEF GoesOut
  <2>3. PICK k \in Nat :
          /\ f.kind = kind /\ station'[i] = [t EXCEPT !.lastTx = <<f>>]
          /\ Air(i)' = {k} /\ toMaster'[k] = f
    BY <2>2
  <2>4. station'[i].asked = {} /\ station'[i].first = s.first
    BY <1>5, <1>6, <2>3 DEF StationStates
  <2>5. OneMessage(i)'
    BY <2>1, <2>3, <2>4, OnlyAnswered
  <2>6. Requesting(i) => Requesting(i)'
    BY <1>4, <2>1, <2>3, <2>4 DEF Requesting, About, Lasting, kind, master
  <2>7. Resetting(i) => Resetting(i)'
    BY <1>1, <1>4, <2>1, <2>3, <2>4 DEF Resetting, About, Lasting, kind, master
  <2>8. QED
    BY <1>1, <1>9, <2>5, <2>6, <2>7, StillOrderly
<1>10. QED
  BY <1>2, <1>8, <1>9

LEMMA FlaggedKeeps ==
  ASSUME NEW s \in StationStates
  PROVE  /\ Flagged(s).asked = {} /\ Flagged(s).first = s.first /\ Flagged(s).fcb = s.fcb
         /\ Flagged(s).stage = s.stage
         /\ "call" \in Flagged(s).data1 <=> "call" \in s.data1
BY DEF Flagged, StationStates

LEMMA DataOrderly ==
  ASSUME TypeOK, NEW i \in Stations, Sane(i), Orderly(i), UNCHANGED master,
         AnswerClock(i) \/ AnswerInit(i) \/ AnswerCall(i) \/ AnswerStored(i) \/ AnswerNothing(i)
  PROVE  Orderly(i)'
<1> DEFINE s == station[i]
<1>1. DataTurn(i) /\ s.asked # {} /\ ~Idle(i)
  BY DEF AnswerClock, AnswerInit, AnswerCall, AnswerStored, AnswerNothing, Data1Turn, DataTurn, Idle
<1>2. /\ Waits(i) /\ (Requesting(i) \/ Resetting(i) \/ Running(i))
  BY <1>1, BusyWaits, BusyPhases
<1>3. Running(i)
  BY <1>1, <1>2 DEF DataTurn, Requesting, Resetting, About
<1>4. s \in StationStates /\ 0 \in 0..Ended /\ Ended \in Nat
      /\ Store1Max \in Nat /\ Store2Max \in Nat
  BY LineAssumption, StationAssumption DEF TypeOK, StationTypeOK, Ended
<1>5. ASSUME NEW t \in StationStates, NEW kind \in Answers, kind # "call",
             Answer(i, Flagged(t), kind, 0), t.first = s.first, t.fcb = s.fcb,
             t.stage = s.stage, "call" \in t.data1 => "call" \in s.data1
      PROVE  Orderly(i)'
  <2> DEFINE u == Flagged(t)
  <2>1. /\ u.asked = {} /\ u.first = s.first /\ u.fcb = s.fcb
        /\ u.stage = s.stage /\ u \in StationStates
        /\ "call" \in u.data1 => "call" \in s.data1
    BY <1>5, FlaggedKeeps, FlaggedTyped
  <2>2. Answer(i, u, kind, 0)
    BY <1>5
  <2> HIDE DEF u
  <2>3. QED
    BY <1>1, <1>3, <1>5, <2>1, <2>2, OtherAnswerOrderly
<1>6. CASE AnswerClock(i)
  <2> DEFINE t == [s EXCEPT !.store2 = @ - 1]
  <2>1. /\ t \in StationStates /\ t.first = s.first /\ t.fcb = s.fcb /\ t.stage = s.stage
        /\ t.data1 = s.data1
    BY <1>4, <1>6 DEF AnswerClock, StationStates
  <2>2. Answer(i, Flagged(t), "clock", 0)
    BY <1>6 DEF AnswerClock
  <2> HIDE DEF t
  <2>3. QED
    BY <1>5, <2>1, <2>2 DEF Answers
<1>7. CASE AnswerInit(i)
  <2> DEFINE t == [s EXCEPT !.data1 = @ \ {"init"}]
  <2>1. /\ t \in StationStates /\ t.first = s.first /\ t.fcb = s.fcb /\ t.stage = s.stage
        /\ "call" \in t.data1 => "call" \in s.data1
    BY <1>4 DEF StationStates
  <2>2. Answer(i, Flagged(t), "init", 0)
    BY <1>7 DEF AnswerInit
  <2> HIDE DEF t
  <2>3. QED
    BY <1>5, <2>1, <2>2 DEF Answers
<1>8. CASE AnswerStored(i)
  <2> DEFINE t == [s EXCEPT !.store1 = @ - 1]
  <2>1. /\ t \in StationStates /\ t.first = s.first /\ t.fcb = s.fcb /\ t.stage = s.stage
        /\ t.data1 = s.data1
    BY <1>4, <1>8 DEF AnswerStored, StationStates
  <2>2. Answer(i, Flagged(t), "error", 0)
    BY <1>8 DEF AnswerStored
  <2> HIDE DEF t
  <2>3. QED
    BY <1>5, <2>1, <2>2 DEF Answers
<1>9. CASE AnswerNothing(i)
  <2>1. Answer(i, Flagged(s), "nothing", 0)
    BY <1>9 DEF AnswerNothing
  <2>2. QED
    BY <1>4, <1>5, <2>1 DEF Answers
<1>10. CASE AnswerCall(i)
  <2> DEFINE t == IF s.stage < Ended THEN [s EXCEPT !.stage = @ + 1]
                  ELSE [s EXCEPT !.stage = 0, !.data1 = @ \ {"call"}]
             u == Flagged(t)
  <2>1. s.stage \in 0..Ended /\ "call" \in s.data1 /\ Answer(i, u, "call", s.stage)
    BY <1>4, <1>10 DEF AnswerCall, StationStates
  <2>2. /\ t \in StationStates /\ t.first = s.first /\ t.fcb = s.fcb
        /\ "call" \in t.data1 => t.stage = s.stage + 1
    <3>1. CASE s.stage < Ended
      BY <1>4, <2>1, <3>1 DEF StationStates
    <3>2. CASE ~(s.stage < Ended)
      BY <1>4, <3>2 DEF StationStates
    <3>3. QED
      BY <3>1, <3>2
  <2>3. /\ u.asked = {} /\ u.first = s.first /\ u.fcb = s.fcb /\ u \in StationStates
        /\ "call" \in u.data1 => u.stage = s.stage + 1
    <3> HIDE DEF t
    <3>1. QED
      BY <2>2, FlaggedKeeps, FlaggedTyped
  <2> HIDE DEF u
  <2>4. GoesOut(i, u, "call", s.stage) /\ toStation'[i] = <<>>
    BY <1>1, <2>1, AnswerEffect DEF Answers
  <2>5. PICK f \in StationFrames : \E k \in Nat :
          /\ f.kind = "call" /\ f.pos = s.stage /\ station'[i] = [u EXCEPT !.lastTx = <<f>>]
          /\ Air(i)' = {k} /\ toMaster'[k] = f
    BY <2>4 DEF GoesOut
  <2>6. PICK k \in Nat :
          /\ f.kind = "call" /\ f.pos = s.stage /\ station'[i] = [u EXCEPT !.lastTx = <<f>>]
          /\ Air(i)' = {k} /\ toMaster'[k] = f
    BY <2>5
  <2>7. /\ station'[i].asked = {} /\ station'[i].first = s.first /\ station'[i].fcb = s.fcb
        /\ station'[i].stage = u.stage /\ station'[i].data1 = u.data1
        /\ station'[i].lastTx = <<f>>
    BY <2>3, <2>6 DEF StationStates
  <2>8. UNCHANGED <<link, heard>>
    BY DEF master
  <2>9. Running(i)'
    BY <1>1, <1>2, <1>3, <2>1, <2>3, <2>4, <2>6, <2>7, <2>8, AnswerRunning
  <2>10. OneMessage(i)'
    BY <2>4, <2>6, <2>7, OnlyAnswered
  <2>11. QED
    BY <1>1, <2>9, <2>10, StillOrderly
<1>11. QED
  BY <1>6, <1>7, <1>8, <1>9, <1>10

LEMMA RestartOrderly ==
  ASSUME TypeOK, NEW i \in Stations, Orderly(i), UNCHANGED master, Restart(i)
  PROVE  Orderly(i)'
<1>1. /\ toStation'[i] = <<>> /\ Air(i)' = Air(i) /\ toMaster' = toMaster
      /\ station'[i] = PoweredOn
  BY FewerWhenSame DEF Restart, TypeOK, LineTypeOK, StationTypeOK
<1>2. PoweredOn.asked = {} /\ ~PoweredOn.first /\ "call" \notin PoweredOn.data1
  BY DEF PoweredOn
<1>3. Len(<<>>) = 0
  OBVIOUS
<1>4. OneMessage(i)'
  BY <1>1, <1>2, <1>3 DEF Orderly, OneMessage
<1>5. ~Idle(i)' => ~Idle(i)
  BY <1>1, <1>2 DEF Idle
<1>6. ToRequest(i) => ToRequest(i)'
  BY <1>5 DEF ToRequest, master
<1>7. ToReset(i) => ToReset(i)'
  BY <1>5 DEF ToReset, Lasting, master
<1>8. Requesting(i) => Requesting(i)'
  BY <1>1, <1>2 DEF Requesting, Lasting, About, master
<1>9. Resetting(i) => Resetting(i)'
  BY <1>1, <1>2 DEF Resetting, Lasting, About, master
<1>10. Running(i) => Running(i)'
  <2> SUFFICES ASSUME Running(i) PROVE Running(i)'
    OBVIOUS
  <2>1. Agreed(i)'
    BY <1>1, <1>2 DEF Running, Agreed, Waits, master
  <2>2. ~Replied(i)'
    BY <1>1, <1>2 DEF Replied, HasCounted
  <2>3. InStep(i)'
    BY <1>1, <1>2, <2>2 DEF Running, InStep, Interrogating, Waits, master
  <2>4. QED
    BY <2>1, <2>3 DEF Running, Up, master
<1>11. QED
  BY <1>4, <1>5, <1>6, <1>7, <1>8, <1>9, <1>10 DEF Orderly, master

\* Sane is a matter of each station and its link.
LEMMA StationSane ==
  ASSUME TypeOK, AllSane, NEW i \in Stations, StationStep(i) \/ Restart(i), UNCHANGED master
  PROVE  Sane(i)'
<1> DEFINE s == station[i]
           f == Head(toStation[i])
<1>1. /\ s \in StationStates /\ Sane(i) /\ 0 \in 0..Ended
      /\ DOMAIN station = Stations /\ DOMAIN toStation = Stations
      /\ toStation[i] \in Seq(MasterFrames)
  BY LineAssumption DEF TypeOK, LineTypeOK, StationTypeOK, AllSane, Ended
<1>2. link' = link
  BY DEF master
<1> DEFINE Fits(t) ==
      /\ "call" \in t.data1 => t.first /\ t.initEnd /\ link[i].known
      /\ t.initEnd \/ t.asked \subseteq {"status"}
      /\ t.initEnd \/ t.lastTx = <<>> \/ t.lastTx[1].kind = "state"
      /\ t.lastTx # <<>> => t.lastTx[1].from = i
           Kept == \A n \in DOMAIN toStation'[i] : toStation'[i][n].known => link[i].known
           Right(t, kind) ==
      /\ "call" \in t.data1 => t.first /\ t.initEnd /\ link[i].known
      /\ t.initEnd \/ (kind = "state" /\ t.asked \subseteq {"status"})
<1>3. ASSUME Fits(station'[i]), Kept PROVE Sane(i)'
  BY <1>1, <1>2, <1>3 DEF Sane, Waits
<1>4. Fits(s)
  BY <1>1 DEF Sane
<1>5. UNCHANGED toStation => Kept
  BY <1>1 DEF Sane
<1>6. toStation[i] # <<>> /\ Taken(i) => Kept /\ (f.known => link[i].known)
  <2> SUFFICES ASSUME toStation[i] # <<>>, Taken(i) PROVE Kept /\ (f.known => link[i].known)
    OBVIOUS
  <2> DEFINE q == toStation[i]
  <2>1. q \in Seq(MasterFrames) /\ q # <<>> /\ \A n \in DOMAIN q : q[n].known => link[i].known
    BY <1>1 DEF Sane
  <2>2. toStation'[i] = Tail(q)
    BY <1>1 DEF Taken
  <2> HIDE DEF q
  <2>3. /\ Tail(q) \in Seq(MasterFrames) /\ Len(Tail(q)) = Len(q) - 1
        /\ \A n \in 1..Len(Tail(q)) : Tail(q)[n] = q[n + 1]
    BY <2>1, HeadTailProperties
  <2>4. DOMAIN q = 1..Len(q) /\ Len(q) \in Nat /\ DOMAIN Tail(q) = 1..Len(Tail(q))
    BY <2>1, <2>3
  <2>5. \A n \in DOMAIN Tail(q) : n + 1 \in DOMAIN q /\ Tail(q)[n] = q[n + 1]
    BY <2>3, <2>4
  <2>6. \A n \in DOMAIN Tail(q) : Tail(q)[n].known => link[i].known
    BY <2>1, <2>5
  <2>7. Head(q) = q[1] /\ 1 \in DOMAIN q
    <3>1. Len(q) # 0
      BY <2>1, EmptySeq
    <3>2. QED
      BY <2>1, <2>4, <3>1
  <2>8. QED
    BY <2>1, <2>2, <2>6, <2>7 DEF q
<1> HIDE DEF Fits, Kept, Right
<1>7. ASSUME NEW t \in StationStates, Read(i, t), toStation[i] # <<>>, Fits(t) PROVE Sane(i)'
  <2>1. station'[i] = t /\ Taken(i)
    BY <1>1, <1>7 DEF Read
  <2>2. QED
    BY <1>3, <1>6, <1>7, <2>1
<1>8. ASSUME NEW t \in StationStates, NEW kind \in Answers, NEW pos \in 0..Ended,
             Answer(i, t, kind, pos), Right(t, kind)
      PROVE  Sane(i)'
  <2> DEFINE g == [from |-> i, kind |-> kind, pos |-> pos,
                   acd |-> kind \in {"accept", "nothing", "state"} /\ t.data1 # {}]
  <2>1. g.from = i /\ g.kind = kind
    OBVIOUS
  <2>2. station'[i] = [t EXCEPT !.lastTx = <<g>>] /\ UNCHANGED toStation
    BY <1>1, <1>8 DEF Answer
  <2> HIDE DEF g
  <2>3. station'[i].data1 = t.data1 /\ station'[i].first = t.first
        /\ station'[i].asked = t.asked
        /\ station'[i].initEnd = t.initEnd /\ station'[i].lastTx = <<g>>
    BY <1>8, <2>2 DEF StationStates
  <2>4. <<g>>[1] = g
    OBVIOUS
  <2>5. Fits(station'[i])
    BY <1>8, <2>1, <2>3, <2>4 DEF Fits, Right
  <2>6. QED
    BY <1>3, <1>5, <2>2, <2>5
<1>9. CASE ReadRequest(i)
  <2> DEFINE t == [s EXCEPT !.asked = @ \cup {"status"}]
  <2>1. t \in StationStates /\ t.data1 = s.data1 /\ t.first = s.first /\ t.initEnd = s.initEnd
        /\ t.lastTx = s.lastTx /\ t.asked = s.asked \cup {"status"}
    BY <1>1 DEF StationStates
  <2>2. Read(i, t) /\ toStation[i] # <<>>
    BY <1>9 DEF ReadRequest, Arrived
  <2> HIDE DEF t
  <2>3. Fits(t)
    BY <1>4, <2>1 DEF Fits
  <2>4. QED
    BY <1>7, <2>1, <2>2, <2>3
<1>10. CASE ReadReset(i)
  <2> DEFINE d == IF s.initflag THEN {} ELSE {"init"}
             t == [s EXCEPT
       !.asked = {"confirm"}, !.initEnd = TRUE, !.first = FALSE, !.initflag = TRUE,
       !.data1 = d, !.store1 = 0, !.store2 = 0]
  <2>1. Read(i, t) /\ toStation[i] # <<>>
    BY <1>10 DEF ReadReset, Arrived
  <2>2. "call" \notin d
    OBVIOUS
  <2> HIDE DEF d
  <2>3. t.data1 = d /\ t.initEnd = TRUE /\ t.lastTx = s.lastTx
    BY <1>1 DEF StationStates
  <2>4. station'[i] = t /\ Taken(i)
    BY <1>1, <2>1 DEF Read
  <2> HIDE DEF t
  <2>5. Fits(station'[i])
    BY <1>4, <2>2, <2>3, <2>4 DEF Fits
  <2>6. QED
    BY <1>3, <1>6, <2>1, <2>4, <2>5
<1>11. CASE ReadClass(i)
  <2>1. toStation[i] # <<>>
    BY <1>11 DEF ReadClass, Arrived
  <2>2. PICK class \in {"class1", "class2"} :
          Read(i, [Counted(i) EXCEPT !.asked = IF s.initEnd THEN @ \cup {class} ELSE @])
    BY <1>11 DEF ReadClass
  <2> DEFINE t == [Counted(i) EXCEPT !.asked = IF s.initEnd THEN @ \cup {class} ELSE @]
  <2>3. /\ t.data1 = s.data1 /\ t.first = TRUE /\ t.initEnd = s.initEnd /\ t.lastTx = s.lastTx
        /\ t.initEnd \/ t.asked = s.asked
    BY <1>1 DEF Counted, StationStates
  <2>4. station'[i] = t /\ Taken(i)
    BY <1>1, <2>2 DEF Read
  <2> HIDE DEF t
  <2>5. Fits(station'[i])
    BY <1>4, <2>3, <2>4 DEF Fits
  <2>6. QED
    BY <1>3, <1>6, <2>1, <2>4, <2>5
<1>12. CASE ReadCommand(i)
  <2>1. toStation[i] # <<>> /\ f.kind \in {"call", "clock"} /\ f \in MasterFrames
        /\ Counted(i) \in StationStates
    BY <1>12, HeadTyped DEF ReadCommand, Arrived
  <2> DEFINE c == [Counted(i) EXCEPT !.asked = @ \cup {"confirm"}]
             t == IF s.initEnd THEN Processed(c, f) ELSE s
  <2>2. Read(i, t)
    BY <1>12 DEF ReadCommand
  <2>3. station'[i] = t /\ Taken(i)
    BY <1>1, <2>2 DEF Read
  <2>4. f.known => link[i].known
    BY <1>6, <2>1, <2>3
  <2>5. /\ c \in StationStates /\ c.data1 = s.data1 /\ c.first = TRUE /\ c.initEnd = s.initEnd
        /\ c.lastTx = s.lastTx
    BY <1>1, <2>1 DEF Counted, StationStates
  <2> HIDE DEF c
  <2>6. Fits(t)
    <3>1. CASE ~s.initEnd
      BY <1>4, <3>1
    <3>2. CASE s.initEnd /\ ~f.known
      <4>1. t = [c EXCEPT !.store1 = UpTo(@, Store1Max)]
        BY <2>1, <3>2 DEF Processed
      <4>2. t.data1 = c.data1 /\ t.first = c.first /\ t.initEnd = c.initEnd /\ t.lastTx = c.lastTx
        BY <2>5, <4>1 DEF StationStates
      <4> HIDE DEF t
      <4>3. QED
        BY <1>4, <2>5, <3>2, <4>2 DEF Fits
    <3>3. CASE s.initEnd /\ f.known /\ f.kind = "call"
      <4>1. t = [c EXCEPT !.data1 = @ \cup {"call"}, !.stage = 0]
        BY <3>3 DEF Processed
      <4>2. t.first = c.first /\ t.initEnd = c.initEnd /\ t.lastTx = c.lastTx
        BY <2>5, <4>1 DEF StationStates
      <4> HIDE DEF t
      <4>3. QED
        BY <1>4, <2>4, <2>5, <3>3, <4>2 DEF Fits
    <3>4. CASE s.initEnd /\ f.known /\ f.kind = "clock"
      <4>1. t = [c EXCEPT !.store2 = UpTo(@, Store2Max)]
        BY <3>4 DEF Processed
      <4>2. t.data1 = c.data1 /\ t.first = c.first /\ t.initEnd = c.initEnd /\ t.lastTx = c.lastTx
        BY <2>5, <4>1 DEF StationStates
      <4> HIDE DEF t
      <4>3. QED
        BY <1>4, <2>5, <3>4, <4>2 DEF Fits
    <3>5. QED
      BY <2>1, <3>1, <3>2, <3>3, <3>4
  <2>7. QED
    BY <1>3, <1>6, <2>1, <2>3, <2>6
<1>13. CASE ReadRepeated(i)
  <2>1. toStation[i] # <<>> /\ Taken(i)
    BY <1>13 DEF ReadRepeated
  <2>2. /\ station'[i].data1 = s.data1 /\ station'[i].first = s.first
        /\ station'[i].initEnd = s.initEnd /\ station'[i].lastTx = s.lastTx
        /\ station'[i].asked = s.asked
    BY <1>1, <1>13 DEF ReadRepeated, StationStates
  <2>3. Fits(station'[i])
    BY <1>4, <2>2 DEF Fits
  <2>4. QED
    BY <1>3, <1>6, <2>1, <2>3
<1>14. CASE AnswerStatus(i)
  <2> DEFINE t == [s EXCEPT !.asked = @ \ {"status"}]
  <2>1. /\ t \in StationStates /\ t.data1 = s.data1 /\ t.first = s.first
        /\ t.initEnd = s.initEnd /\ t.asked \subseteq s.asked
    BY <1>1 DEF StationStates
  <2>2. Answer(i, t, "state", 0)
    BY <1>14 DEF AnswerStatus
  <2> HIDE DEF t
  <2>3. /\ "call" \in t.data1 => t.first /\ t.initEnd /\ link[i].known
        /\ t.initEnd \/ t.asked \subseteq {"status"}
    BY <1>1, <2>1 DEF Sane
  <2>4. Right(t, "state")
    BY <2>3 DEF Right
  <2>5. QED
    BY <1>1, <1>8, <2>1, <2>2, <2>4 DEF Answers
<1>15. ASSUME NEW t \in StationStates, NEW kind \in Answers, NEW pos \in 0..Ended,
              Answer(i, t, kind, pos), s.initEnd,
              t.first = s.first, t.initEnd = s.initEnd, "call" \in t.data1 => "call" \in s.data1
       PROVE  Sane(i)'
  <2>1. /\ "call" \in t.data1 => t.first /\ t.initEnd /\ link[i].known
        /\ t.initEnd
    BY <1>1, <1>15 DEF Sane
  <2>2. Right(t, kind)
    BY <2>1 DEF Right
  <2>3. QED
    BY <1>8, <1>15, <2>2
<1>16. CASE AnswerConfirm(i)
  <2> DEFINE t == [s EXCEPT !.asked = @ \ {"confirm"}]
  <2>1. t \in StationStates /\ t.data1 = s.data1 /\ t.first = s.first /\ t.initEnd = s.initEnd
    BY <1>1 DEF StationStates
  <2>2. Answer(i, t, "accept", 0) /\ "confirm" \in s.asked
    BY <1>16 DEF AnswerConfirm
  <2> HIDE DEF t
  <2>3. s.initEnd
    BY <1>1, <2>2 DEF Sane
  <2>4. QED
    BY <1>1, <1>15, <2>1, <2>2, <2>3 DEF Answers
<1>17. DataTurn(i) => s.initEnd
  BY <1>1 DEF DataTurn, Sane
<1>18. ASSUME NEW t \in StationStates, NEW kind \in Answers, NEW pos \in 0..Ended,
              Answer(i, Flagged(t), kind, pos), DataTurn(i),
              t.first = s.first, t.initEnd = s.initEnd, "call" \in t.data1 => "call" \in s.data1
       PROVE  Sane(i)'
  <2> DEFINE u == Flagged(t)
  <2>1. /\ u \in StationStates /\ u.first = s.first /\ u.initEnd = s.initEnd
        /\ "call" \in u.data1 => "call" \in s.data1
    <3>1. u.initEnd = t.initEnd
      BY <1>18 DEF Flagged, StationStates
    <3> HIDE DEF u
    <3>2. QED
      BY <1>18, <3>1, FlaggedKeeps, FlaggedTyped DEF u
  <2>2. Answer(i, u, kind, pos)
    BY <1>18
  <2> HIDE DEF u
  <2>3. QED
    BY <1>15, <1>17, <1>18, <2>1, <2>2
<1>19. CASE AnswerClock(i)
  <2> DEFINE t == [s EXCEPT !.store2 = @ - 1]
  <2>1. /\ t \in StationStates /\ t.first = s.first /\ t.initEnd = s.initEnd /\ t.data1 = s.data1
    BY <1>1, <1>19, StationAssumption, SMTT(40) DEF AnswerClock, StationStates
  <2>2. Answer(i, Flagged(t), "clock", 0) /\ DataTurn(i)
    BY <1>19 DEF AnswerClock
  <2> HIDE DEF t
  <2>3. QED
    BY <1>1, <1>18, <2>1, <2>2 DEF Answers
<1>20. CASE AnswerInit(i)
  <2> DEFINE t == [s EXCEPT !.data1 = @ \ {"init"}]
  <2>1. /\ t \in StationStates /\ t.first = s.first /\ t.initEnd = s.initEnd
        /\ "call" \in t.data1 => "call" \in s.data1
    BY <1>1 DEF StationStates
  <2>2. Answer(i, Flagged(t), "init", 0) /\ DataTurn(i)
    BY <1>20 DEF AnswerInit, Data1Turn
  <2> HIDE DEF t
  <2>3. QED
    BY <1>1, <1>18, <2>1, <2>2 DEF Answers
<1>21. CASE AnswerCall(i)
  <2> DEFINE t == IF s.stage < Ended THEN [s EXCEPT !.stage = @ + 1]
                  ELSE [s EXCEPT !.stage = 0, !.data1 = @ \ {"call"}]
  <2>1. s.stage \in 0..Ended /\ Answer(i, Flagged(t), "call", s.stage) /\ DataTurn(i)
        /\ "call" \in s.data1
    BY <1>1, <1>21 DEF AnswerCall, Data1Turn, StationStates
  <2>2. Ended \in Nat
    BY LineAssumption DEF Ended
  <2>3. t \in StationStates /\ t.first = s.first /\ t.initEnd = s.initEnd
    <3>1. CASE s.stage < Ended
      BY <1>1, <2>1, <2>2, <3>1 DEF StationStates
    <3>2. CASE ~(s.stage < Ended)
      BY <1>1, <2>2, <3>2 DEF StationStates
    <3>3. QED
      BY <3>1, <3>2
  <2> HIDE DEF t
  <2>4. QED
    BY <1>18, <2>1, <2>3 DEF Answers
<1>22. CASE AnswerStored(i)
  <2> DEFINE t == [s EXCEPT !.store1 = @ - 1]
  <2>1. /\ t \in StationStates /\ t.first = s.first /\ t.initEnd = s.initEnd /\ t.data1 = s.data1
    BY <1>1, <1>22, StationAssumption, SMTT(40) DEF AnswerStored, StationStates
  <2>2. Answer(i, Flagged(t), "error", 0) /\ DataTurn(i)
    BY <1>22 DEF AnswerStored, Data1Turn
  <2> HIDE DEF t
  <2>3. QED
    BY <1>1, <1>18, <2>1, <2>2 DEF Answers
<1>23. CASE AnswerNothing(i)
  <2>1. Answer(i, Flagged(s), "nothing", 0) /\ DataTurn(i)
    BY <1>23 DEF AnswerNothing, Data1Turn
  <2>2. QED
    BY <1>1, <1>18, <2>1 DEF Answers
<1>24. CASE Restart(i)
  <2>1. station'[i] = PoweredOn /\ toStation'[i] = <<>>
    BY <1>1, <1>24 DEF Restart
  <2>2. Fits(station'[i])
    BY <2>1 DEF Fits, PoweredOn
  <2>3. Kept
    BY <2>1 DEF Kept
  <2>4. QED
    BY <1>3, <2>2, <2>3
<1>25. QED
  BY <1>9, <1>10, <1>11, <1>12, <1>13, <1>14, <1>16, <1>19, <1>20, <1>21, <1>22, <1>23, <1>24
     DEF StationStep

-----------------------------------------------------------------------------
\* The master's steps.

LEMMA LeaveEffect ==
  ASSUME TypeOK, NEW L \in LinkStates, Leave(L)
  PROVE  /\ link' = [link EXCEPT ![cur] = [L EXCEPT !.flags = @ \ {"jump"}]]
         /\ toMaster' = <<>>
BY DEF Leave

\* The end of a pass: link and line are what they were given.
LEMMA JumpEffect ==
  ASSUME TypeOK, NEW L \in LinkStates, NEW unread, Jump(L, unread)
  PROVE  /\ link' = [link EXCEPT ![cur] = L]
         /\ \/ cur' = cur /\ toMaster' = unread
            \/ "jump" \notin L.flags /\ toMaster' = <<>>
<1>1. CASE "jump" \notin L.flags /\ Leave(L)
  <2>1. [L EXCEPT !.flags = @ \ {"jump"}] = L
    BY <1>1 DEF LinkStates
  <2>2. QED
    BY <1>1, <2>1, LeaveEffect
<1>2. CASE Update(L) /\ toMaster' = unread /\ pc' = "treat" /\ UNCHANGED <<cur, fault, nextFault>>
  BY <1>2 DEF Update
<1>3. QED
  BY <1>1, <1>2 DEF Jump

\* What the flags and requests are after an answer.
LEMMA AnalysedEffect ==
  ASSUME NEW L \in LinkStates, NEW f \in StationFrames, NEW M, M = Analysed(L, f)
  PROVE  /\ M \in LinkStates
         /\ M.fcb = L.fcb /\ M.last = L.last /\ (L.known => M.known)
         /\ "wait" \in M.flags => "wait" \in L.flags /\ "est" \notin L.flags
         /\ "jump" \in M.flags <=> "jump" \in L.flags
         /\ "est" \in L.flags => "est" \in M.flags
         /\ "est" \in M.flags => "est" \in L.flags \/ "resetting" \in L.flags
         /\ M.flags \cap {"requested", "resetting"} \subseteq L.flags
         /\ "requested" \notin L.flags => M.pack \cap Unnumbered \subseteq L.pack
         /\ f.kind = "state" /\ "requested" \in L.flags =>
              /\ M.flags = L.flags \ {"wait", "requested"}
              /\ "reset" \in M.pack /\ M.pack \subseteq L.pack \cup {"reset", "stair"}
         /\ f.kind = "accept" /\ "resetting" \in L.flags =>
              /\ M.flags = (L.flags \ {"wait", "resetting", "clockAsked"}) \cup {"est"}
              /\ M.pack \cap Unnumbered \subseteq L.pack
<1>1. ASSUME NEW S \in LinkStates
      PROVE  LET A == AccessDemanded(S, f) IN
             /\ A.flags = S.flags /\ A.fcb = S.fcb /\ A.last = S.last /\ A.known = S.known
             /\ A.pack = S.pack \/ A.pack = S.pack \cup {"stair"}
  BY <1>1 DEF AccessDemanded, LinkStates
<1>2. ASSUME NEW F, NEW P
      PROVE  LET C == Cleared(L, F, P) IN
             /\ C.flags = L.flags \ ({"wait"} \cup F) /\ C.pack = L.pack \cup P
             /\ C.fcb = L.fcb /\ C.last = L.last /\ C.known = L.known
  BY DEF Cleared, LinkStates
<1>3. M \in LinkStates
  BY AnalysedTyped
<1>4. CASE f.kind = "accept"
  <2> DEFINE A == Accepted(L)
  <2>1. M = AccessDemanded(A, f)
    BY <1>4 DEF Analysed
  <2>2. A \in LinkStates
    BY AcceptedTyped
  <2>3. /\ A.flags = IF "resetting" \in L.flags
                     THEN (L.flags \ {"wait", "resetting", "clockAsked"}) \cup {"est"}
                     ELSE L.flags \ {"wait", "resetting", "clockAsked"}
        /\ A.pack \subseteq L.pack \cup {"call", "second"}
        /\ A.fcb = L.fcb /\ A.last = L.last /\ A.known = L.known
    <3> DEFINE P == (IF "resetting" \in L.flags THEN {"call"} ELSE {})
                    \cup (IF "clockAsked" \in L.flags THEN {"second"} ELSE {})
               S == Cleared(L, {"resetting", "clockAsked"}, P)
    <3>1. P \subseteq {"call", "second"}
      OBVIOUS
    <3> HIDE DEF P
    <3>2. /\ S.flags = L.flags \ {"wait", "resetting", "clockAsked"}
          /\ S.pack \subseteq L.pack \cup {"call", "second"}
          /\ S.fcb = L.fcb /\ S.last = L.last /\ S.known = L.known
      <4>1. /\ S.flags = L.flags \ ({"wait"} \cup {"resetting", "clockAsked"})
            /\ S.pack = L.pack \cup P
            /\ S.fcb = L.fcb /\ S.last = L.last /\ S.known = L.known
        BY <1>2
      <4> HIDE DEF S
      <4>2. QED
        BY <3>1, <4>1
    <3>3. S \in LinkStates
      BY <3>1, ClearedTyped DEF Requests
    <3>4. A = IF "resetting" \in L.flags THEN [S EXCEPT !.flags = @ \cup {"est"}] ELSE S
      BY DEF Accepted, P
    <3> HIDE DEF S, A
    <3>5. QED
      BY <3>2, <3>3, <3>4 DEF LinkStates
  <2> HIDE DEF A
  <2>4. /\ M.flags = A.flags /\ M.fcb = L.fcb /\ M.last = L.last /\ M.known = L.known
        /\ M.pack \subseteq L.pack \cup {"call", "second", "stair"}
    BY <1>1, <2>1, <2>2, <2>3
  <2>5. M.pack \cap Unnumbered \subseteq L.pack
    BY <2>4 DEF Unnumbered
  <2>6. QED
    BY <1>3, <1>4, <2>3, <2>4, <2>5
<1>5. CASE f.kind = "nothing"
  <2> DEFINE C == Cleared(L, {}, {})
  <2>1. M = AccessDemanded(C, f)
    BY <1>5 DEF Analysed
  <2>2. C \in LinkStates
    BY ClearedTyped
  <2>3. /\ C.flags = L.flags \ {"wait"} /\ C.pack = L.pack
        /\ C.fcb = L.fcb /\ C.last = L.last /\ C.known = L.known
    <3>1. /\ C.flags = L.flags \ ({"wait"} \cup {}) /\ C.pack = L.pack \cup {}
          /\ C.fcb = L.fcb /\ C.last = L.last /\ C.known = L.known
      BY <1>2, ZenonT(40)
    <3> HIDE DEF C
    <3>2. QED
      BY <3>1
  <2> HIDE DEF C
  <2>4. /\ M.flags = C.flags /\ M.fcb = L.fcb /\ M.last = L.last /\ M.known = L.known
        /\ M.pack \subseteq L.pack \cup {"stair"}
    BY <1>1, <2>1, <2>2, <2>3
  <2>5. M.pack \cap Unnumbered \subseteq L.pack
    BY <2>4 DEF Unnumbered
  <2>6. QED
    BY <1>3, <1>5, <2>3, <2>4, <2>5
<1>6. CASE f.kind = "state"
  <2> DEFINE P == IF "requested" \in L.flags THEN {"reset"} ELSE {}
             C == Cleared(L, {"requested"}, P)
  <2>1. M = AccessDemanded(C, f)
    BY <1>6 DEF Analysed, StateTold
  <2>2. C \in LinkStates
    BY ClearedTyped DEF Requests, Unnumbered
  <2>3. /\ C.flags = L.flags \ {"wait", "requested"} /\ C.pack = L.pack \cup P
        /\ C.fcb = L.fcb /\ C.last = L.last /\ C.known = L.known
    BY <1>2
  <2> HIDE DEF C
  <2>4. /\ M.flags = C.flags /\ M.fcb = L.fcb /\ M.last = L.last /\ M.known = L.known
        /\ C.pack \subseteq M.pack /\ M.pack \subseteq C.pack \cup {"stair"}
    BY <1>1, <2>1, <2>2, <2>3
  <2>5. "requested" \notin L.flags => M.pack \cap Unnumbered \subseteq L.pack
    BY <2>3, <2>4 DEF Unnumbered
  <2>6. "requested" \in L.flags => "reset" \in M.pack /\ M.pack \subseteq L.pack \cup {"reset", "stair"}
    BY <2>3, <2>4
  <2>7. QED
    BY <1>3, <1>6, <2>3, <2>4, <2>5, <2>6
<1>7. CASE f.kind \notin {"accept", "nothing", "state"} /\ "est" \in L.flags
  <2> DEFINE C == Cleared(L, {}, {})
             S == [C EXCEPT !.known = TRUE]
  <2>1. M = IF f.kind = "call" /\ f.pos = Ended /\ "synced" \notin L.flags
            THEN [S EXCEPT !.flags = @ \cup {"synced"}, !.pack = @ \cup {"clock"}] ELSE S
    BY <1>7 DEF Analysed, DataTaken
  <2>2. C \in LinkStates
    BY ClearedTyped
  <2>3. /\ C.flags = L.flags \ {"wait"} /\ C.pack = L.pack
        /\ C.fcb = L.fcb /\ C.last = L.last
    <3>1. /\ C.flags = L.flags \ ({"wait"} \cup {}) /\ C.pack = L.pack \cup {}
          /\ C.fcb = L.fcb /\ C.last = L.last /\ C.known = L.known
      <4> HIDE DEF S
      <4>1. QED
        BY <1>2, ZenonT(40)
    <3> HIDE DEF C
    <3>2. QED
      BY <3>1
  <2> HIDE DEF C
  <2>4. /\ M.flags = C.flags \/ M.flags = C.flags \cup {"synced"}
        /\ M.fcb = L.fcb /\ M.last = L.last /\ M.known = TRUE
        /\ M.pack \subseteq L.pack \cup {"clock"}
    BY <2>1, <2>2, <2>3 DEF LinkStates
  <2>5. M.pack \cap Unnumbered \subseteq L.pack
    BY <2>4 DEF Unnumbered
  <2>6. QED
    BY <1>3, <1>7, <2>3, <2>4, <2>5
<1>8. CASE f.kind \notin {"accept", "nothing", "state"} /\ "est" \notin L.flags
  <2>1. M = L
    BY <1>8 DEF Analysed
  <2>2. QED
    BY <1>3, <1>8, <2>1
<1>9. QED
  BY <1>4, <1>5, <1>6, <1>7, <1>8

\* What a running link is running with stays.
LEMMA RunningKept ==
  ASSUME NEW i \in Stations, Running(i), NEW M, link'[i] = M, heard'[i] = heard[i],
         station'[i] = station[i], toStation'[i] = toStation[i], Fewer(i),
         M.fcb = link[i].fcb, M.last = link[i].last, M.known = link[i].known,
         "wait" \in M.flags <=> "wait" \in link[i].flags,
         "est" \in M.flags, M.flags \cap {"requested", "resetting"} = {},
         M.pack \cap Unnumbered = {}
  PROVE  Running(i)'
<1>1. Waits(i)' <=> Waits(i)
  BY DEF Waits
<1>2. Air(i) = {} => Air(i)' = {}
  BY DEF Fewer
<1>3. (HasCounted(i)' <=> HasCounted(i)) /\ (Interrogating(i)' <=> Interrogating(i))
  BY <1>1 DEF HasCounted, Interrogating
<1>4. Replied(i)' <=> Replied(i)
  BY <1>1, <1>3 DEF Replied
<1>5. Agreed(i)'
  BY <1>1, <1>2 DEF Running, Agreed
<1>6. InStep(i)'
  BY <1>3, <1>4 DEF Running, InStep, Fewer
<1>7. QED
  BY <1>5, <1>6 DEF Running, Up

\* Nothing is under way.
LEMMA NothingUnderWay ==
  ASSUME NEW i, toStation'[i] = <<>>, station'[i].asked = {}, Air(i)' = {}
  PROVE  OneMessage(i)' /\ Idle(i)'
<1>1. Len(<<>>) = 0
  OBVIOUS
<1>2. OneMessage(i)'
  BY <1>1 DEF OneMessage
<1>3. Idle(i)'
  BY DEF Idle, Air
<1>4. QED
  BY <1>2, <1>3

\* A link with nothing under way is left as it is, but for its number of
\* repetitions, its data requests and whether the visit goes on.
LEMMA QuietKept ==
  ASSUME NEW i \in Stations, Orderly(i), Idle(i), NEW M, link'[i] = M,
         heard'[i] = heard[i], station'[i] = station[i], toStation'[i] = toStation[i], Fewer(i),
         M.fcb = link[i].fcb, M.last = link[i].last, M.known = link[i].known,
         M.flags = link[i].flags \ {"jump"} \/ M.flags = link[i].flags,
         M.pack = link[i].pack \/ (Up(i) /\ M.pack \cap Unnumbered = {})
  PROVE  Orderly(i)'
<1>1. toStation'[i] = <<>> /\ station'[i].asked = {} /\ Air(i)' = {}
  BY IdleMeans DEF Fewer
<1>2. OneMessage(i)' /\ Idle(i)'
  BY <1>1, NothingUnderWay
<1>3. \A K, B, A : About(i, K, B, A)'
  BY <1>1 DEF About
<1>4. Lasting(i)' = Lasting(i)
  BY DEF Lasting
<1>5. CASE Running(i)
  <2>1. "wait" \in M.flags <=> "wait" \in link[i].flags
    OBVIOUS
  <2>2. "est" \in M.flags /\ M.flags \cap {"requested", "resetting"} = {}
    BY <1>5 DEF Running, Up
  <2>3. M.pack \cap Unnumbered = {}
    BY <1>5 DEF Running
  <2>4. Running(i)'
    BY <1>5, <2>1, <2>2, <2>3, RunningKept
  <2>5. QED
    BY <1>2, <2>4 DEF Orderly
<1>6. CASE ToRequest(i)
  <2>1. ToRequest(i)'
    BY <1>2, <1>6 DEF ToRequest, Up
  <2>2. QED
    BY <1>2, <2>1 DEF Orderly
<1>7. CASE Requesting(i)
  <2>1. Requesting(i)'
    BY <1>3, <1>4, <1>7 DEF Requesting, Up, Lasting
  <2>2. QED
    BY <1>2, <2>1 DEF Orderly
<1>8. CASE ToReset(i)
  <2>1. ToReset(i)'
    BY <1>2, <1>4, <1>8 DEF ToReset, Up, Lasting
  <2>2. QED
    BY <1>2, <2>1 DEF Orderly
<1>9. CASE Resetting(i)
  <2>1. Resetting(i)'
    BY <1>1, <1>3, <1>4, <1>9 DEF Resetting, Up, Lasting
  <2>2. QED
    BY <1>2, <2>1 DEF Orderly
<1>10. QED
  BY <1>5, <1>6, <1>7, <1>8, <1>9 DEF Orderly

\* The links but the one that is visited.
LEMMA OthersKept ==
  ASSUME TypeOK, Phased, NEW M, link' = [link EXCEPT ![cur] = M], UNCHANGED station,
         \A j \in Stations : j # cur => toStation'[j] = toStation[j] /\ heard'[j] = heard[j],
         \A j \in Stations : Fewer(j)
  PROVE  \A j \in Stations : j # cur => Abandoned(j)' \/ Orderly(j)'
<1> SUFFICES ASSUME NEW j \in Stations, j # cur PROVE Abandoned(j)' \/ Orderly(j)'
  OBVIOUS
<1>1. link'[j] = link[j] /\ station'[j] = station[j]
  BY DEF TypeOK, MasterTypeOK
<1>2. CASE Abandoned(j)
  BY <1>1, <1>2 DEF Abandoned
<1>3. CASE Orderly(j)
  <2>1. Idle(j)
    BY <1>3 DEF Orderly
  <2>2. QED
    BY <1>1, <1>3, <2>1, OrderlyWhenLost
<1>4. QED
  BY <1>2, <1>3 DEF Phased

\* Which link is running: the only phase in which one is up.
LEMMA UpIsRunning ==
  ASSUME NEW i \in Stations, Phased, Up(i)
  PROVE  Orderly(i) /\ Running(i)
<1>1. ~Abandoned(i)
  BY DEF Abandoned, Up
<1>2. ~ToRequest(i) /\ ~Requesting(i) /\ ~ToReset(i) /\ ~Resetting(i)
  BY DEF ToRequest, Requesting, ToReset, Resetting, Lasting, Up
<1>3. QED
  BY <1>1, <1>2 DEF Phased, Orderly

\* It is enough to look at the link that is visited.
LEMMA VisitedDecides ==
  ASSUME TypeOK, Phased, NEW i \in Stations, i = cur, NEW M,
         link' = [link EXCEPT ![i] = M], UNCHANGED station,
         \A j \in Stations : j # i => toStation'[j] = toStation[j] /\ heard'[j] = heard[j],
         \A j \in Stations : Fewer(j), Abandoned(i)' \/ Orderly(i)'
  PROVE  Phased'
<1>1. link' = [link EXCEPT ![cur] = M]
  OBVIOUS
<1>2. \A j \in Stations : j # cur => Abandoned(j)' \/ Orderly(j)'
  BY <1>1, OthersKept
<1>3. QED
  BY <1>2 DEF Phased

\* The steps that neither write nor read.
LEMMA InwardPhased ==
  ASSUME TypeOK, Phased, UNCHANGED station, NEW i \in Stations, i = cur,
         Visit \/ PollDue \/ CallDue \/ GiveUp \/ SendNothing \/ (Idle(i) /\ Relink)
  PROVE  Phased'
<1> DEFINE L == link[i]
<1>1. i \in Stations /\ L \in LinkStates /\ DOMAIN link = Stations
  BY DEF TypeOK, MasterTypeOK
<1>2. UNCHANGED <<toStation, toMaster, heard, cur>>
  BY DEF Visit, PollDue, CallDue, GiveUp, SendNothing, Relink, line
<1>3. \A j \in Stations : Fewer(j) /\ Air(j)' = Air(j)
  BY <1>2, FewerWhenSame
<1>4. ASSUME NEW M, link' = [link EXCEPT ![i] = M], Abandoned(i)' \/ Orderly(i)'
      PROVE  Phased'
  BY <1>2, <1>3, <1>4, VisitedDecides
<1>5. ASSUME NEW M \in LinkStates, Update(M),
             M.fcb = L.fcb, M.last = L.last, M.known = L.known, M = L \/ Idle(i),
             M.flags = L.flags \/ M.flags = L.flags \ {"jump"},
             M.pack = L.pack \/ (Up(i) /\ M.pack \cap Unnumbered = {})
      PROVE  Phased'
  <2>1. link' = [link EXCEPT ![i] = M]
    BY <1>5 DEF Update
  <2>2. link'[i] = M
    BY <1>1, <2>1
  <2>3. CASE Abandoned(i)
    <3>1. Abandoned(i)'
      BY <1>2, <1>5, <2>2, <2>3 DEF Abandoned, Up
    <3>2. QED
      BY <1>4, <2>1, <3>1
  <2>4. CASE Orderly(i) /\ Idle(i)
    <3>1. Orderly(i)'
      BY <1>1, <1>2, <1>3, <1>5, <2>2, <2>4, QuietKept
    <3>2. QED
      BY <1>4, <2>1, <3>1
  <2>5. CASE Orderly(i) /\ ~Idle(i)
    <3>1. M = L
      BY <1>5, <2>5
    <3>2. link'[i] = link[i]
      BY <2>2, <3>1
    <3>3. Orderly(i)'
      BY <1>1, <1>2, <1>3, <2>5, <3>2, OrderlyWhenLost
    <3>4. QED
      BY <1>4, <2>1, <3>3
  <2>6. QED
    BY <1>1, <2>3, <2>4, <2>5 DEF Phased
<1>6. CASE Visit
  <2>1. UNCHANGED link
    BY <1>6 DEF Visit
  <2>2. link' = [link EXCEPT ![i] = L]
    BY <1>1, <2>1 DEF TypeOK, MasterTypeOK
  <2>3. Update(L)
    BY <2>2 DEF Update
  <2>4. QED
    BY <1>1, <1>5, <2>3
<1>7. CASE PollDue
  <2> DEFINE M == [L EXCEPT !.pack = @ \cup {"second"}]
  <2>1. /\ M.fcb = L.fcb /\ M.last = L.last /\ M.known = L.known /\ M.flags = L.flags
        /\ M.pack = L.pack \cup {"second"} /\ M \in LinkStates
    <3>1. M \in LinkStates
      BY <1>1, FlagsTyped DEF Requests
    <3>2. QED
      BY <1>1, <3>1 DEF LinkStates
  <2>2. Update(M) /\ Up(i) /\ ~Waits(i)
    BY <1>7 DEF PollDue
  <2> HIDE DEF M
  <2>3. Running(i) /\ Orderly(i)
    BY <1>1, <2>2, UpIsRunning
  <2>4. Idle(i)
    BY <2>2, <2>3 DEF Orderly, Waits
  <2>5. M.pack \cap Unnumbered = {}
    BY <2>1, <2>3 DEF Running, Unnumbered
  <2>6. QED
    BY <1>5, <2>1, <2>2, <2>4, <2>5
<1>8. CASE CallDue
  <2> DEFINE M == [L EXCEPT !.pack = @ \cup {"call"}]
  <2>1. /\ M.fcb = L.fcb /\ M.last = L.last /\ M.known = L.known /\ M.flags = L.flags
        /\ M.pack = L.pack \cup {"call"} /\ M \in LinkStates
    <3>1. M \in LinkStates
      BY <1>1, FlagsTyped DEF Requests
    <3>2. QED
      BY <1>1, <3>1 DEF LinkStates
  <2>2. Update(M) /\ Up(i)
    BY <1>8 DEF CallDue
  <2> HIDE DEF M
  <2>3. Running(i) /\ Orderly(i)
    BY <1>1, <2>2, UpIsRunning
  <2>4. M.pack \cap Unnumbered = {}
    BY <2>1, <2>3 DEF Running, Unnumbered
  <2>5. link' = [link EXCEPT ![i] = M]
    BY <2>2 DEF Update
  <2>6. link'[i] = M
    BY <1>1, <2>5
  <2>7. Running(i)'
    <3>1. "est" \in M.flags /\ M.flags \cap {"requested", "resetting"} = {}
      BY <2>1, <2>3 DEF Running, Up
    <3>2. QED
      BY <1>1, <1>2, <1>3, <2>1, <2>3, <2>4, <2>6, <3>1, RunningKept
  <2>8. OneMessage(i)'
    <3>1. Air(i)' = Air(i)
      BY <1>3
    <3> DEFINE A == Air(i)
               B == Air(i)'
    <3>2. B = A /\ toStation'[i] = toStation[i] /\ station'[i] = station[i]
      BY <1>2, <3>1
    <3>3. /\ Len(toStation[i]) <= 1
          /\ toStation[i] # <<>> => station[i].asked = {} /\ A = {}
          /\ station[i].asked # {} => A = {}
          /\ \A a, b \in station[i].asked : a = b
          /\ \A m, n \in A : m = n
      BY <2>3 DEF Orderly, OneMessage
    <3> HIDE DEF A, B
    <3>4. /\ Len(toStation'[i]) <= 1
          /\ toStation'[i] # <<>> => station'[i].asked = {} /\ B = {}
          /\ station'[i].asked # {} => B = {}
          /\ \A a, b \in station'[i].asked : a = b
          /\ \A m, n \in B : m = n
      BY <3>2, <3>3
    <3>5. QED
      BY <3>4 DEF OneMessage, B
  <2>9. Idle(i)' <=> Idle(i)
    BY <1>2 DEF Idle
  <2>10. Orderly(i)'
    BY <1>2, <2>1, <2>3, <2>6, <2>7, <2>8, <2>9 DEF Orderly
  <2>11. QED
    BY <1>4, <2>5, <2>10
<1>9. CASE GiveUp
  <2> DEFINE M == GivenUp(L)
  <2>1. M.flags = {} /\ M.pack = L.pack
    BY <1>1 DEF GivenUp, LinkStates
  <2>2. Update(M) /\ Up(i)
    BY <1>9 DEF GiveUp
  <2> HIDE DEF M
  <2>3. link' = [link EXCEPT ![i] = M]
    BY <2>2 DEF Update
  <2>4. link'[i] = M
    BY <1>1, <2>3
  <2>5. Abandoned(i)'
    BY <1>1, <1>2, <2>1, <2>2, <2>4, UpIsRunning DEF Running, Abandoned
  <2>6. QED
    BY <1>4, <2>3, <2>5
<1>10. CASE SendNothing
  <2> DEFINE S == [L EXCEPT !.retries = 0, !.flags = @ \ {"jump"}]
             M == IF Up(i) /\ ~Waits(i) THEN S ELSE L
  <2>1. Update(M)
    BY <1>10 DEF SendNothing
  <2>2. CASE Up(i) /\ ~Waits(i)
    <3>1. Running(i) /\ Orderly(i)
      BY <1>1, <2>2, UpIsRunning
    <3>2. Idle(i)
      BY <2>2, <3>1 DEF Orderly, Waits
    <3>3. S \in LinkStates
      <4>1. 0 \in 0..RetryNumber
        BY MasterAssumption
      <4>2. L.flags \in SUBSET LinkFlags
        BY <1>1, FlagsTyped
      <4> DEFINE F == L.flags \ {"jump"}
      <4>3. F \in SUBSET LinkFlags
        BY <4>2
      <4>4. S = [L EXCEPT !.retries = 0, !.flags = F]
        OBVIOUS
      <4> HIDE DEF F
      <4>5. QED
        BY <1>1, <4>1, <4>3, <4>4 DEF LinkStates, LinkFlags
    <3>4. /\ S.fcb = L.fcb /\ S.last = L.last /\ S.known = L.known
          /\ S.flags = L.flags \ {"jump"} /\ S.pack = L.pack
      BY <1>1 DEF LinkStates
    <3>5. Update(S)
      BY <2>1, <2>2
    <3> HIDE DEF S
    <3>6. QED
      BY <1>5, <3>2, <3>3, <3>4, <3>5
  <2>3. CASE ~(Up(i) /\ ~Waits(i))
    <3>1. Update(L)
      BY <2>1, <2>3
    <3>2. QED
      BY <1>1, <1>5, <3>1
  <2>4. QED
    BY <2>2, <2>3
<1>11. CASE Idle(i) /\ Relink
  <2>1. CASE Up(i)
    <3>1. Update(L)
      BY <1>11, <2>1 DEF Relink
    <3>2. QED
      BY <1>1, <1>5, <3>1
  <2>2. CASE ~Up(i)
    <3> DEFINE M == Requested(L)
    <3>1. M.flags = {} /\ M.pack = {"request"}
      BY <1>1 DEF Requested, LinkStates
    <3>2. Update(M)
      BY <1>11, <2>2 DEF Relink
    <3> HIDE DEF M
    <3>3. link' = [link EXCEPT ![i] = M]
      BY <3>2 DEF Update
    <3>4. link'[i] = M
      BY <1>1, <3>3
    <3>5. OneMessage(i)' /\ Idle(i)'
      <4>1. toStation[i] = <<>> /\ station[i].asked = {} /\ Air(i) = {}
        BY <1>11, IdleMeans
      <4>2. Air(i)' = {}
        BY <1>1, <1>2, <1>3, <4>1, FewerWhenSame DEF Air
      <4>3. OneMessage(i)'
        <5>1. Len(<<>>) = 0
          OBVIOUS
        <5>2. QED
          BY <1>2, <4>1, <4>2, <5>1 DEF OneMessage
      <4>4. Idle(i)'
        BY <1>2, <1>11 DEF Idle
      <4>5. QED
        BY <4>3, <4>4
    <3>6. ToRequest(i)'
      BY <1>2, <3>1, <3>4, <3>5 DEF ToRequest
    <3>7. Orderly(i)'
      BY <3>5, <3>6 DEF Orderly
    <3>8. QED
      BY <1>4, <3>3, <3>7
  <2>3. QED
    BY <2>1, <2>2
<1>12. QED
  BY <1>6, <1>7, <1>8, <1>9, <1>10, <1>11

\* A request leaves: what was to be asked is asked.
LEMMA SendPackedPhased ==
  ASSUME TypeOK, Phased, UNCHANGED station, NEW i \in Stations, i = cur, SendPacked
  PROVE  Phased'
<1> DEFINE L == link[i]
           k == NextPack(i)
           f == [kind |-> k, fcb |-> IF k \in Unnumbered THEN 0 ELSE FcbFor(L, k),
                 known |-> L.known]
           S == [L EXCEPT !.flags = @ \cup {"wait", "jump"} \cup Noted(k), !.pack = @ \ {k},
                          !.fcb = FcbFor(L, k), !.last = <<f>>]
           M == IF Up(i) /\ L.retries = RetryNumber THEN GivenUp(S) ELSE S
<1>1. /\ ~Waits(i) /\ L.pack # {} /\ Write(f) /\ Update(M) /\ cur' = cur
      /\ heard' = [heard EXCEPT ![i] = IF k = "call" THEN <<>> ELSE @]
  BY DEF SendPacked
<1>2. k \in L.pack /\ k \in Requests /\ f \in MasterFrames /\ S \in LinkStates
  BY <1>1, RequestTyped
<1>3. L \in LinkStates /\ DOMAIN link = Stations /\ DOMAIN toStation = Stations
      /\ DOMAIN heard = Stations
  BY DEF TypeOK, MasterTypeOK, LineTypeOK
<1>4. f.kind = k /\ f.known = L.known /\ (k \notin Unnumbered => f.fcb = FcbFor(L, k))
  OBVIOUS
<1>5. /\ S.flags = L.flags \cup {"wait", "jump"} \cup Noted(k) /\ S.pack = L.pack \ {k}
      /\ S.fcb = FcbFor(L, k) /\ S.last = <<f>> /\ S.known = L.known
  BY <1>3 DEF LinkStates
<1>6. M = S \/ (Up(i) /\ M.flags = {} /\ M.pack = S.pack)
  BY <1>2 DEF GivenUp, LinkStates
<1>7. ~Up(i) => M = S
  OBVIOUS
<1>8. L.pack \subseteq Requests
  BY <1>3, FlagsTyped
<1>9. /\ "request" \in L.pack => k = "request"
      /\ "reset" \in L.pack /\ "request" \notin L.pack => k = "reset"
  BY <1>1, <1>8, PackChosen
<1> HIDE DEF f, S, M, k
<1>10. link' = [link EXCEPT ![i] = M] /\ toStation' = [toStation EXCEPT ![i] = Append(@, f)]
       /\ toMaster' = toMaster
  BY <1>1 DEF Update, Write
<1>11. link'[i] = M /\ toStation'[i] = Append(toStation[i], f)
       /\ heard'[i] = IF k = "call" THEN <<>> ELSE heard[i]
  BY <1>1, <1>3, <1>10
<1>12. \A j \in Stations : j # i => toStation'[j] = toStation[j] /\ heard'[j] = heard[j]
  BY <1>1, <1>3, <1>10
<1>13. \A j \in Stations : Fewer(j) /\ Air(j)' = Air(j)
  BY <1>10, FewerWhenSame
<1>14. Air(i)' = Air(i)
  BY <1>13
<1>15. SUFFICES Abandoned(i)' \/ Orderly(i)'
  BY <1>10, <1>12, <1>13, VisitedDecides
<1>16. k \notin Unnumbered => Noted(k) \subseteq {"clockAsked"}
  BY <1>2 DEF Noted, Requests, Unnumbered
<1>17. CASE Abandoned(i)
  <2>1. M = S /\ k \notin Unnumbered
    BY <1>2, <1>7, <1>17 DEF Abandoned, Up
  <2>2. M.flags \subseteq L.flags \cup {"wait", "jump", "clockAsked"} /\ M.pack \subseteq L.pack
    BY <1>5, <1>16, <2>1
  <2>3. QED
    BY <1>11, <1>17, <2>2 DEF Abandoned
<1>18. CASE Orderly(i)
  <2>1. toStation[i] = <<>> /\ station[i].asked = {} /\ Air(i) = {}
    BY <1>1, <1>18, BusyWaits, IdleMeans
  <2>2. toStation'[i] = <<f>> /\ station'[i] = station[i] /\ Air(i)' = {}
    BY <1>11, <1>14, <2>1
  <2>3. Len(toStation'[i]) = 1 /\ Head(toStation'[i]) = f /\ toStation'[i] # <<>>
    BY <2>2
  <2>4. OneMessage(i)'
    BY <2>1, <2>2, <2>3 DEF OneMessage
  <2>5. M = S => cur' = i /\ {"jump", "wait"} \subseteq M.flags /\ Waits(i)'
    BY <1>1, <1>5, <1>11 DEF Waits
  <2>6. ASSUME NEW K, NEW B, NEW A, k \in K PROVE About(i, K, B, A)'
    BY <1>4, <2>1, <2>2, <2>3, <2>6 DEF About
  <2>7. CASE ToRequest(i)
    <3>1. k = "request" /\ M = S
      BY <1>7, <1>9, <2>7 DEF ToRequest, Up
    <3>2. S.flags = {"requested", "wait", "jump"} /\ S.pack = {}
      BY <1>5, <2>7, <3>1 DEF ToRequest, Noted
    <3>3. Requesting(i)'
      BY <1>11, <2>6, <3>1, <3>2 DEF Requesting, Lasting
    <3>4. QED
      BY <1>11, <2>4, <2>5, <3>1, <3>3 DEF Orderly
  <2>8. CASE ToReset(i)
    <3>1. k = "reset" /\ M = S
      BY <1>7, <1>9, <2>8 DEF ToReset, Lasting, Up
    <3>2. S.flags = L.flags \cup {"wait", "jump", "resetting"} /\ S.pack \subseteq {"stair"}
      BY <1>5, <2>8, <3>1 DEF ToReset, Noted
    <3>3. S.flags \ {"jump"} = {"resetting", "wait"}
      BY <2>8, <3>2 DEF ToReset, Lasting
    <3>4. Resetting(i)'
      BY <1>11, <2>1, <2>2, <2>6, <3>1, <3>2, <3>3 DEF Resetting, Lasting
    <3>5. QED
      BY <1>11, <2>4, <2>5, <3>1, <3>4 DEF Orderly
  <2>9. CASE Running(i)
    <3>1. k \notin Unnumbered /\ M.pack \cap Unnumbered = {}
      BY <1>2, <1>5, <1>6, <2>9 DEF Running
    <3>2. CASE M # S
      BY <1>6, <1>11, <3>1, <3>2 DEF Abandoned
    <3>3. CASE M = S
      <4>1. "est" \in M.flags /\ M.flags \cap {"requested", "resetting"} = {}
        BY <1>5, <1>16, <2>9, <3>1, <3>3 DEF Running, Up
      <4>2. f.fcb = FcbFor(L, k) /\ FcbFor(L, k) = 1 - L.fcb
        BY <1>4, <3>1 DEF FcbFor
      <4>3. link'[i].fcb = f.fcb /\ link'[i].known = f.known /\ link'[i].last = <<f>>
        BY <1>4, <1>5, <1>11, <3>3, <4>2
      <4>4. L.fcb \in 0..1
        BY <1>3 DEF LinkStates
      <4>5. station[i].first => station[i].fcb = L.fcb
        BY <1>1, <2>9 DEF Running, Agreed
      <4>6. ~HasCounted(i)'
        BY <2>2, <4>2, <4>3, <4>4, <4>5 DEF HasCounted
      <4>7. ~Replied(i)'
        BY <4>6 DEF Replied
      <4>8. Agreed(i)'
        BY <1>4, <2>1, <2>2, <2>3, <2>5, <3>1, <3>3, <4>3 DEF Agreed
      <4>9. Interrogating(i)' <=> k = "call"
        BY <1>4, <2>5, <3>3, <4>3 DEF Interrogating
      <4>10. ~Interrogating(i) /\ ~Replied(i)
        BY <1>1 DEF Interrogating, Replied
      <4>11. InStep(i)'
        <5>1. k # "call" /\ "call" \in station[i].data1 => station[i].stage = Len(heard[i])
          BY <2>9, <4>10 DEF Running, InStep
        <5>2. QED
          BY <1>11, <2>2, <4>6, <4>7, <4>9, <5>1 DEF InStep
      <4>12. Running(i)'
        BY <1>11, <3>1, <4>1, <4>8, <4>11 DEF Running, Up
      <4>13. QED
        BY <1>11, <2>4, <2>5, <3>3, <4>12 DEF Orderly
    <3>4. QED
      BY <3>2, <3>3
  <2>10. ~Requesting(i) /\ ~Resetting(i)
    BY <1>1 DEF Requesting, Resetting, Lasting, Waits
  <2>11. QED
    BY <1>18, <2>7, <2>8, <2>9, <2>10 DEF Orderly
<1>19. QED
  BY <1>17, <1>18 DEF Phased

\* A request goes out again: nothing of it or of its answer was left.
LEMMA RepeatPhased ==
  ASSUME TypeOK, Phased, UNCHANGED station, NEW i \in Stations, i = cur, Idle(i), Sane(i), Repeat
  PROVE  Phased'
<1> DEFINE L == link[i]
           f == L.last[1]
           F == L.flags \cup {"jump"}
           M == [L EXCEPT !.retries = @ + 1, !.flags = @ \cup {"jump"}]
<1>1. /\ Up(i) /\ Waits(i) /\ Write(f) /\ Update(M)
      /\ UNCHANGED <<cur, heard>>
  BY DEF Repeat
<1>2. L \in LinkStates /\ DOMAIN link = Stations /\ DOMAIN toStation = Stations
  BY DEF TypeOK, MasterTypeOK, LineTypeOK
<1>3. /\ M.fcb = L.fcb /\ M.last = L.last /\ M.known = L.known /\ M.flags = F
      /\ M.pack = L.pack
  BY <1>2 DEF LinkStates
<1> HIDE DEF f, M
<1>4. link' = [link EXCEPT ![i] = M] /\ toStation' = [toStation EXCEPT ![i] = Append(@, f)]
      /\ toMaster' = toMaster
  BY <1>1 DEF Update, Write
<1>5. link'[i] = M /\ toStation'[i] = Append(toStation[i], f)
      /\ heard'[i] = heard[i] /\ station'[i] = station[i]
  BY <1>1, <1>2, <1>4
<1>6. \A j \in Stations : j # i => toStation'[j] = toStation[j] /\ heard'[j] = heard[j]
  BY <1>1, <1>2, <1>4
<1>7. \A j \in Stations : Fewer(j) /\ Air(j)' = Air(j)
  BY <1>4, FewerWhenSame
<1>8. Air(i)' = Air(i)
  BY <1>7
<1>9. SUFFICES Orderly(i)'
  BY <1>4, <1>6, <1>7, VisitedDecides
<1>10. Orderly(i) /\ Running(i)
  BY <1>1, UpIsRunning
<1>11. toStation[i] = <<>> /\ station[i].asked = {} /\ Air(i) = {}
  BY IdleMeans
<1>12. toStation'[i] = <<f>> /\ Air(i)' = {}
  BY <1>5, <1>8, <1>11
<1>13. Len(toStation'[i]) = 1 /\ Head(toStation'[i]) = f /\ toStation'[i] # <<>>
  BY <1>12
<1>14. OneMessage(i)'
  BY <1>5, <1>11, <1>12, <1>13 DEF OneMessage
<1>15. "wait" \in L.flags /\ "est" \in L.flags
  BY <1>1 DEF Waits, Up
<1>16. (Waits(i)' <=> Waits(i)) /\ Waits(i)
  BY <1>1, <1>3, <1>5 DEF Waits
<1>17. (HasCounted(i)' <=> HasCounted(i)) /\ (Interrogating(i)' <=> Interrogating(i))
  BY <1>3, <1>5, <1>16 DEF HasCounted, Interrogating
<1>18. Replied(i)' <=> Replied(i)
  BY <1>5, <1>16, <1>17 DEF Replied
<1>19. Agreed(i)'
  <2>1. /\ f.fcb = L.fcb /\ f.known = L.known /\ f.kind \notin Unnumbered
    BY <1>10, <1>16 DEF Running, Agreed, f
  <2>2. M.last[1] = f
    BY <1>3 DEF f
  <2>3. QED
    BY <1>3, <1>5, <1>11, <1>12, <1>13, <1>16, <2>1, <2>2 DEF Agreed
<1>20. InStep(i)'
  BY <1>5, <1>10, <1>12, <1>17, <1>18 DEF Running, InStep
<1>21. M.flags \cap {"requested", "resetting"} = {} /\ M.pack \cap Unnumbered = {}
       /\ "est" \in M.flags
  BY <1>3, <1>10, <1>15 DEF Running
<1>22. Running(i)'
  BY <1>5, <1>19, <1>20, <1>21 DEF Running, Up
<1>23. {"jump", "wait"} \subseteq M.flags /\ cur' = i
  BY <1>1, <1>3, <1>15
<1>24. QED
  BY <1>5, <1>14, <1>22, <1>23 DEF Orderly

\* The master goes on to the next link.
LEMMA StopWaitingPhased ==
  ASSUME TypeOK, Phased, UNCHANGED station, NEW i \in Stations, i = cur, Idle(i), StopWaiting
  PROVE  Phased'
<1> DEFINE L == link[i]
           F == L.flags \ {"jump"}
           M == [L EXCEPT !.flags = @ \ {"jump"}]
<1>1. L \in LinkStates /\ DOMAIN link = Stations
  BY DEF TypeOK, MasterTypeOK
<1>2. Leave(L) /\ UNCHANGED <<toStation, heard>>
  BY DEF StopWaiting
<1>3. link' = [link EXCEPT ![i] = M] /\ toMaster' = <<>>
  BY <1>1, <1>2, LeaveEffect
<1>4. M.flags = F /\ M.pack = L.pack /\ M.fcb = L.fcb /\ M.last = L.last /\ M.known = L.known
  BY <1>1 DEF LinkStates
<1> HIDE DEF M
<1>5. link'[i] = M
  BY <1>1, <1>3
<1>6. \A j \in Stations : Fewer(j)
  BY <1>3, FewerWhenEmpty
<1>7. Abandoned(i) => Abandoned(i)'
  BY <1>4, <1>5 DEF Abandoned
<1>8. Orderly(i) => Orderly(i)'
  BY <1>2, <1>4, <1>5, <1>6, QuietKept
<1>9. QED
  BY <1>2, <1>3, <1>6, <1>7, <1>8, VisitedDecides DEF Phased

\* A pass without a frame of the station that is visited.
LEMMA ReceiveNothingPhased ==
  ASSUME TypeOK, Phased, UNCHANGED station, NEW i \in Stations, i = cur, ReceiveNothing
  PROVE  Phased'
<1> DEFINE L == link[i]
<1>1. L \in LinkStates /\ DOMAIN link = Stations /\ link \in [Stations -> LinkStates]
  BY DEF TypeOK, MasterTypeOK
<1>2. Jump(L, <<>>) /\ UNCHANGED <<toStation, heard>>
  BY DEF ReceiveNothing
<1>3. /\ link' = [link EXCEPT ![i] = L]
      /\ toMaster' = <<>> /\ (cur' = cur \/ "jump" \notin L.flags)
  BY <1>1, <1>2, JumpEffect
<1>4. link'[i] = link[i]
  BY <1>1, <1>3
<1>5. \A j \in Stations : Fewer(j)
  BY <1>3, FewerWhenEmpty
<1>6. Abandoned(i) => Abandoned(i)'
  BY <1>4 DEF Abandoned
<1>7. Orderly(i) => Orderly(i)'
  <2>1. ASSUME Orderly(i) PROVE cur' = cur \/ Idle(i)
    BY <1>3, <2>1 DEF Orderly
  <2>2. QED
    BY <1>2, <1>4, <1>5, <2>1, OrderlyWhenLost
<1>8. QED
  BY <1>2, <1>3, <1>5, <1>6, <1>7, VisitedDecides DEF Phased

\* What is received when the link is up carries the interrogation on.
LEMMA ReceivedEffect ==
  ASSUME TypeOK, NEW i \in Stations, i = cur, Receive
  PROVE  \E n \in Air(i) : \E M \in LinkStates :
           /\ n \in DOMAIN toMaster /\ toMaster[n] \in StationFrames
           /\ M = Analysed(link[i], toMaster[n])
           /\ link' = [link EXCEPT ![i] = M]
           /\ heard' = [heard EXCEPT ![i] =
                IF toMaster[n].kind = "call" /\ Up(i) THEN Append(@, toMaster[n].pos) ELSE @]
           /\ toStation' = toStation
           /\ \/ cur' = cur /\ toMaster' = SubSeq(toMaster, n + 1, Len(toMaster))
              \/ "jump" \notin M.flags /\ toMaster' = <<>>
<1> DEFINE n == Min(Own)
           L == link[i]
           M == Analysed(L, toMaster[n])
<1>1. Own # {} /\ Own = Air(i)
  BY DEF Receive, Own, Air
<1>2. n \in Own /\ n \in DOMAIN toMaster /\ toMaster[n] \in StationFrames
  BY <1>1, OwnFirst
<1>3. L \in LinkStates
  BY DEF TypeOK, MasterTypeOK
<1>4. M \in LinkStates
  BY <1>2, <1>3, AnalysedTyped
<1>5. /\ Jump(M, SubSeq(toMaster, n + 1, Len(toMaster)))
      /\ heard' = [heard EXCEPT ![i] =
           IF toMaster[n].kind = "call" /\ Up(i) THEN Append(@, toMaster[n].pos) ELSE @]
      /\ toStation' = toStation
  BY DEF Receive
<1> HIDE DEF M, n
<1>6. /\ link' = [link EXCEPT ![i] = M]
      /\ \/ cur' = cur /\ toMaster' = SubSeq(toMaster, n + 1, Len(toMaster))
         \/ "jump" \notin M.flags /\ toMaster' = <<>>
  BY <1>4, <1>5, JumpEffect
<1>7. n \in Air(i) /\ M = Analysed(link[i], toMaster[n])
  BY <1>1, <1>2 DEF M
<1>8. QED
  BY <1>2, <1>4, <1>5, <1>6, <1>7

LEMMA ReceivePhased ==
  ASSUME TypeOK, Phased, AllSane, UNCHANGED station, NEW i \in Stations, i = cur, Receive
  PROVE  Phased'
<1> DEFINE L == link[i]
<1>1. PICK n \in Air(i) : \E M \in LinkStates :
           /\ n \in DOMAIN toMaster /\ toMaster[n] \in StationFrames
           /\ M = Analysed(link[i], toMaster[n])
           /\ link' = [link EXCEPT ![i] = M]
           /\ heard' = [heard EXCEPT ![i] =
                IF toMaster[n].kind = "call" /\ Up(i) THEN Append(@, toMaster[n].pos) ELSE @]
           /\ toStation' = toStation
           /\ \/ cur' = cur /\ toMaster' = SubSeq(toMaster, n + 1, Len(toMaster))
              \/ "jump" \notin M.flags /\ toMaster' = <<>>
  BY ReceivedEffect
<1> DEFINE f == toMaster[n]
<1>2. PICK M \in LinkStates :
           /\ n \in DOMAIN toMaster /\ f \in StationFrames
           /\ M = Analysed(L, f)
           /\ link' = [link EXCEPT ![i] = M]
           /\ heard' = [heard EXCEPT ![i] =
                IF f.kind = "call" /\ Up(i) THEN Append(@, f.pos) ELSE @]
           /\ toStation' = toStation
           /\ \/ cur' = cur /\ toMaster' = SubSeq(toMaster, n + 1, Len(toMaster))
              \/ "jump" \notin M.flags /\ toMaster' = <<>>
  BY <1>1
<1>3. L \in LinkStates /\ DOMAIN link = Stations /\ heard \in [Stations -> Seq(0..Ended)]
  BY DEF TypeOK, MasterTypeOK
<1>4. /\ link'[i] = M /\ toStation'[i] = toStation[i] /\ station'[i] = station[i]
      /\ heard'[i] = IF f.kind = "call" /\ Up(i) THEN Append(heard[i], f.pos) ELSE heard[i]
      /\ \A j \in Stations : j # i => toStation'[j] = toStation[j] /\ heard'[j] = heard[j]
  BY <1>2, <1>3
<1>5. \A j \in Stations : Fewer(j)
  <2>1. CASE toMaster' = <<>>
    BY <2>1, FewerWhenEmpty
  <2>2. CASE toMaster' = SubSeq(toMaster, n + 1, Len(toMaster))
    BY <1>2, <2>2, FewerWhenDropped
  <2>3. QED
    BY <1>2, <2>1, <2>2
<1> HIDE DEF f
<1>6. SUFFICES Abandoned(i)' \/ Orderly(i)'
  BY <1>2, <1>4, <1>5, VisitedDecides
<1>7. /\ M.fcb = L.fcb /\ M.last = L.last
      /\ "wait" \in M.flags => "wait" \in L.flags /\ "est" \notin L.flags
      /\ "jump" \in M.flags <=> "jump" \in L.flags
      /\ "est" \in L.flags => "est" \in M.flags
      /\ "est" \in M.flags => "est" \in L.flags \/ "resetting" \in L.flags
      /\ M.flags \cap {"requested", "resetting"} \subseteq L.flags
      /\ "requested" \notin L.flags => M.pack \cap Unnumbered \subseteq L.pack
      /\ f.kind = "state" /\ "requested" \in L.flags =>
           /\ M.flags = L.flags \ {"wait", "requested"}
           /\ "reset" \in M.pack /\ M.pack \subseteq L.pack \cup {"reset", "stair"}
      /\ f.kind = "accept" /\ "resetting" \in L.flags =>
           /\ M.flags = (L.flags \ {"wait", "resetting", "clockAsked"}) \cup {"est"}
           /\ M.pack \cap Unnumbered \subseteq L.pack
  BY <1>2, <1>3, AnalysedEffect
<1>8. CASE Abandoned(i)
  BY <1>4, <1>7, <1>8 DEF Abandoned
<1>9. CASE Orderly(i)
  <2>1. Air(i) # {} /\ ~Idle(i)
    BY IdleMeans
  <2>2. toStation[i] = <<>> /\ station[i].asked = {} /\ \A m, k \in Air(i) : m = k
    BY <1>9, <2>1 DEF Orderly, OneMessage
  <2>3. Waits(i) /\ "jump" \in M.flags
    BY <1>7, <1>9, <2>1, BusyWaits
  <2>4. toMaster' = SubSeq(toMaster, n + 1, Len(toMaster))
    BY <1>2, <2>3
  <2>5. Air(i)' = {}
    BY <1>2, <2>2, <2>4, FewerWhenDropped
  <2>6. toStation'[i] = <<>> /\ station'[i].asked = {}
    BY <1>4, <2>2
  <2>7. OneMessage(i)' /\ Idle(i)'
    BY <2>5, <2>6, NothingUnderWay
  <2>8. CASE Requesting(i)
    <3>1. f.kind = "state" /\ "requested" \in L.flags
      BY <2>8 DEF Requesting, Lasting, About, f
    <3>2. ToReset(i)'
      BY <1>4, <1>7, <2>7, <2>8, <3>1 DEF ToReset, Requesting, Lasting
    <3>3. QED
      BY <2>7, <3>2 DEF Orderly
  <2>9. CASE Resetting(i)
    <3>1. f.kind = "accept" /\ "resetting" \in L.flags
      BY <2>9 DEF Resetting, Lasting, About, f
    <3>2. ~station[i].first /\ "call" \notin station[i].data1
      BY <2>1, <2>9 DEF Resetting, AllSane, Sane
    <3>3. ~Waits(i)' /\ Up(i)'
      BY <1>4, <1>7, <3>1 DEF Waits, Up
    <3>4. Agreed(i)'
      BY <1>4, <3>2, <3>3 DEF Agreed
    <3>5. ~Interrogating(i)' /\ ~Replied(i)'
      BY <3>3 DEF Interrogating, Replied
    <3>6. InStep(i)'
      BY <1>4, <2>5, <3>2, <3>5 DEF InStep
    <3>7. M.flags \cap {"requested", "resetting"} = {} /\ M.pack \cap Unnumbered = {}
      BY <1>7, <2>9, <3>1 DEF Resetting, Lasting, Unnumbered
    <3>8. Running(i)'
      BY <1>4, <3>3, <3>4, <3>6, <3>7 DEF Running
    <3>9. QED
      BY <2>7, <3>8 DEF Orderly
  <2>10. CASE Running(i)
    <3>1. "est" \in L.flags /\ Up(i)
      BY <2>10 DEF Running, Up
    <3>2. ~Waits(i)' /\ Up(i)'
      BY <1>4, <1>7, <3>1 DEF Waits, Up
    <3>3. M.flags \cap {"requested", "resetting"} = {} /\ M.pack \cap Unnumbered = {}
      BY <1>7, <2>10 DEF Running
    <3>4. station[i].first => station[i].fcb = L.fcb
      BY <2>1, <2>10 DEF Running, Agreed
    <3>5. Agreed(i)'
      BY <1>4, <1>7, <3>2, <3>4 DEF Agreed
    <3>6. ~Interrogating(i)' /\ ~Replied(i)'
      BY <3>2 DEF Interrogating, Replied
    <3>7. ASSUME "call" \in station[i].data1 PROVE station[i].stage = Len(heard'[i])
      <4>1. station[i].first
        BY <3>7 DEF AllSane, Sane
      <4>2. HasCounted(i)
        BY <3>4, <4>1 DEF HasCounted
      <4>3. station[i].lastTx = <<f>>
        BY <2>10, <4>1 DEF Running, InStep, f
      <4>4. Replied(i) <=> f.kind = "call"
        BY <2>2, <2>3, <4>2, <4>3 DEF Replied
      <4>5. station[i].stage = IF Replied(i) THEN Len(heard[i]) + 1 ELSE Len(heard[i])
        BY <2>10, <3>7, <4>2 DEF Running, InStep
      <4>6. heard[i] \in Seq(0..Ended) /\ f.pos \in 0..Ended
        BY <1>2, <1>3 DEF StationFrames
      <4>7. Len(Append(heard[i], f.pos)) = Len(heard[i]) + 1
        BY <4>6
      <4>8. QED
        BY <1>4, <3>1, <4>4, <4>5, <4>7
    <3>8. InStep(i)'
      BY <1>4, <2>5, <3>6, <3>7 DEF InStep
    <3>9. Running(i)'
      BY <1>4, <3>2, <3>3, <3>5, <3>8 DEF Running
    <3>10. QED
      BY <2>7, <3>9 DEF Orderly
  <2>11. QED
    BY <1>9, <2>1, <2>8, <2>9, <2>10, BusyPhases
<1>10. QED
  BY <1>8, <1>9 DEF Phased

-----------------------------------------------------------------------------
\* What each step leaves in order.

\* A station touches nothing of another one.
LEMMA StationTouches ==
  ASSUME TypeOK, AllSane, NEW i \in Stations, StationStep(i) \/ Restart(i), NEW j \in Stations, j # i
  PROVE  station'[j] = station[j] /\ toStation'[j] = toStation[j] /\ Fewer(j)
<1>1. /\ DOMAIN station = Stations /\ DOMAIN toStation = Stations /\ station[i] \in StationStates
      /\ toMaster \in Seq(StationFrames) /\ 0 \in 0..Ended
  BY LineAssumption DEF TypeOK, LineTypeOK, StationTypeOK, Ended
<1>2. ASSUME NEW s, Read(i, s) PROVE station'[j] = station[j] /\ toStation'[j] = toStation[j] /\ Fewer(j)
  BY <1>1, <1>2, FewerWhenSame DEF Read, Taken
<1>3. ASSUME NEW s, NEW kind \in Answers, NEW pos \in 0..Ended, Answer(i, s, kind, pos)
      PROVE  station'[j] = station[j] /\ toStation'[j] = toStation[j] /\ Fewer(j)
  <2> DEFINE f == [from |-> i, kind |-> kind, pos |-> pos,
                   acd |-> kind \in {"accept", "nothing", "state"} /\ s.data1 # {}]
  <2>1. f \in StationFrames /\ f.from = i
    BY DEF StationFrames
  <2>2. /\ station' = [station EXCEPT ![i] = [s EXCEPT !.lastTx = <<f>>]]
        /\ toMaster' = Append(toMaster, f) /\ toStation' = toStation
    BY <1>3 DEF Answer
  <2> HIDE DEF f
  <2>3. Fewer(j)
    BY <2>1, <2>2, AirWhenAppended
  <2>4. QED
    BY <1>1, <2>2, <2>3
<1>4. CASE ReadRequest(i) \/ ReadReset(i) \/ ReadClass(i) \/ ReadCommand(i)
  BY <1>2, <1>4 DEF ReadRequest, ReadReset, ReadClass, ReadCommand
<1>5. CASE ReadRepeated(i)
  <2>1. station'[j] = station[j] /\ toStation'[j] = toStation[j]
    BY <1>1, <1>5 DEF ReadRepeated, Taken
  <2>2. CASE toMaster' = toMaster
    BY <2>1, <2>2, FewerWhenSame
  <2>3. CASE toMaster' = toMaster \o station[i].lastTx
    <3>1. CASE station[i].lastTx = <<>>
      <4>1. toMaster' = toMaster
        BY <1>1, <2>3, <3>1, ConcatEmptySeq
      <4>2. QED
        BY <2>1, <4>1, FewerWhenSame
    <3>2. CASE station[i].lastTx # <<>>
      <4>1. PICK g \in StationFrames : station[i].lastTx = <<g>>
        BY <1>1, <3>2 DEF StationStates
      <4>2. station[i].lastTx[1] = g /\ g.from = i
        BY <3>2, <4>1 DEF AllSane, Sane
      <4>3. toMaster' = Append(toMaster, g)
        BY <1>1, <2>3, <4>1, AppendIsConcat
      <4>4. QED
        BY <2>1, <4>2, <4>3, AirWhenAppended
    <3>3. QED
      BY <3>1, <3>2
  <2>4. QED
    BY <1>5, <2>2, <2>3 DEF ReadRepeated
<1>6. CASE AnswerStatus(i) \/ AnswerConfirm(i)
  <2>1. "state" \in Answers /\ "accept" \in Answers
    BY DEF Answers
  <2>2. QED
    BY <1>1, <1>3, <1>6, <2>1 DEF AnswerStatus, AnswerConfirm
<1>7. CASE AnswerClock(i) \/ AnswerInit(i) \/ AnswerStored(i) \/ AnswerNothing(i)
  <2>1. "clock" \in Answers /\ "init" \in Answers /\ "error" \in Answers /\ "nothing" \in Answers
    BY DEF Answers
  <2>2. QED
    BY <1>1, <1>3, <1>7, <2>1 DEF AnswerClock, AnswerInit, AnswerStored, AnswerNothing
<1>8. CASE AnswerCall(i)
  <2>1. "call" \in Answers /\ station[i].stage \in 0..Ended
    BY <1>1 DEF Answers, StationStates
  <2>2. QED
    BY <1>3, <1>8, <2>1 DEF AnswerCall
<1>9. CASE Restart(i)
  BY <1>1, <1>9, FewerWhenSame DEF Restart
<1>10. QED
  BY <1>4, <1>5, <1>6, <1>7, <1>8, <1>9 DEF StationStep

LEMMA StationPhased ==
  ASSUME TypeOK, AllSane, Phased, NEW i \in Stations, StationStep(i) \/ Restart(i),
         UNCHANGED master
  PROVE  Phased'
<1>1. UNCHANGED <<link, cur, heard>>
  BY DEF master
<1>2. ASSUME NEW j \in Stations, j # i PROVE Abandoned(j)' \/ Orderly(j)'
  <2>1. station'[j] = station[j] /\ toStation'[j] = toStation[j] /\ Fewer(j)
    BY <1>2, StationTouches
  <2>2. Abandoned(j) => Abandoned(j)'
    BY <1>1 DEF Abandoned
  <2>3. Orderly(j) => Orderly(j)'
    BY <1>1, <2>1, OrderlyWhenLost
  <2>4. QED
    BY <2>2, <2>3 DEF Phased
<1>3. Abandoned(i) => Abandoned(i)'
  BY <1>1 DEF Abandoned
<1>4. ASSUME Orderly(i) PROVE Orderly(i)'
  <2>1. Sane(i)
    BY DEF AllSane
  <2>2. CASE ReadRequest(i) \/ ReadReset(i) \/ ReadClass(i) \/ ReadCommand(i)
    BY <1>4, <2>1, <2>2, ReadOrderly
  <2>3. CASE ReadRepeated(i)
    BY <1>4, <2>1, <2>3, RepeatedOrderly
  <2>4. CASE AnswerStatus(i) \/ AnswerConfirm(i)
    BY <1>4, <2>1, <2>4, StatusOrderly
  <2>5. CASE AnswerClock(i) \/ AnswerInit(i) \/ AnswerCall(i) \/ AnswerStored(i) \/ AnswerNothing(i)
    BY <1>4, <2>1, <2>5, DataOrderly
  <2>6. CASE Restart(i)
    BY <1>4, <2>6, RestartOrderly
  <2>7. QED
    BY <2>2, <2>3, <2>4, <2>5, <2>6 DEF StationStep
<1>5. Abandoned(i)' \/ Orderly(i)'
  BY <1>3, <1>4 DEF Phased
<1>6. QED
  BY <1>2, <1>5 DEF Phased

\* What the line loses.
LEMMA LostEffect ==
  ASSUME TypeOK, Lose, NEW j \in Stations
  PROVE  /\ Fewer(j)
         /\ Len(toStation[j]) <= 1 => toStation'[j] = toStation[j] \/ toStation'[j] = <<>>
         /\ \A n \in DOMAIN toStation'[j] : \E m \in DOMAIN toStation[j] :
              toStation'[j][n] = toStation[j][m]
<1> DEFINE q == toStation[j]
<1>1. q \in Seq(MasterFrames) /\ DOMAIN toStation = Stations
  BY DEF TypeOK, LineTypeOK
<1>2. CASE UNCHANGED toMaster /\ \E i \in Stations : \E n \in DOMAIN toStation[i] :
             toStation' = [toStation EXCEPT ![i] = RemoveAt(@, n)]
  <2>1. PICK i \in Stations : \E n \in DOMAIN toStation[i] :
          toStation' = [toStation EXCEPT ![i] = RemoveAt(@, n)]
    BY <1>2
  <2>2. PICK n \in DOMAIN toStation[i] : toStation' = [toStation EXCEPT ![i] = RemoveAt(@, n)]
    BY <2>1
  <2>3. Fewer(j)
    BY <1>2, FewerWhenSame
  <2>4. CASE i # j
    <3>1. toStation'[j] = toStation[j]
      BY <1>1, <2>2, <2>4
    <3>2. QED
      BY <2>3, <3>1
  <2>5. CASE i = j
    <3>1. toStation'[j] = RemoveAt(q, n) /\ n \in DOMAIN q
      BY <1>1, <2>2, <2>5
    <3> HIDE DEF q
    <3>2. /\ RemoveAt(q, n) \in Seq(MasterFrames) /\ Len(RemoveAt(q, n)) = Len(q) - 1
          /\ \A m \in 1..(Len(q) - 1) : RemoveAt(q, n)[m] = IF m < n THEN q[m] ELSE q[m + 1]
      BY <1>1, <3>1, Removed
    <3>3. DOMAIN q = 1..Len(q) /\ Len(q) \in Nat /\ n \in 1..Len(q)
      BY <1>1, <3>1
    <3> DEFINE r == RemoveAt(q, n)
    <3> HIDE DEF r
    <3>4. DOMAIN r = 1..(Len(q) - 1) /\ r \in Seq(MasterFrames) /\ Len(r) = Len(q) - 1
      BY <3>2 DEF r
    <3>5. Len(q) <= 1 => r = <<>>
      BY <3>3, <3>4
    <3>6. ASSUME NEW m \in DOMAIN r PROVE \E k \in DOMAIN q : r[m] = q[k]
      <4>1. m \in 1..(Len(q) - 1)
        BY <3>4
      <4>2. m \in DOMAIN q /\ m + 1 \in DOMAIN q
        BY <3>3, <4>1
      <4>3. r[m] = q[m] \/ r[m] = q[m + 1]
        BY <3>2, <4>1 DEF r
      <4>4. QED
        BY <4>2, <4>3
    <3>7. toStation'[j] = r
      BY <3>1 DEF r
    <3>8. QED
      BY <2>3, <3>5, <3>6, <3>7 DEF q
  <2>6. QED
    BY <2>4, <2>5
<1>3. CASE (\E n \in DOMAIN toMaster : toMaster' = RemoveAt(toMaster, n)) /\ UNCHANGED toStation
  <2>1. Fewer(j)
    BY <1>3, FewerWhenRemoved
  <2>2. QED
    BY <1>3, <2>1
<1>4. QED
  BY <1>2, <1>3 DEF Lose

LEMMA LosePhased ==
  ASSUME TypeOK, Phased, Lose, UNCHANGED <<station, master>>
  PROVE  Phased'
<1> SUFFICES ASSUME NEW j \in Stations PROVE Abandoned(j)' \/ Orderly(j)'
  BY DEF Phased
<1>1. UNCHANGED <<link, cur, heard, station>>
  BY DEF master
<1>2. Abandoned(j) => Abandoned(j)'
  BY <1>1 DEF Abandoned
<1>3. ASSUME Orderly(j) PROVE Orderly(j)'
  <2>1. Fewer(j) /\ (toStation'[j] = toStation[j] \/ toStation'[j] = <<>>)
    BY <1>3, LostEffect DEF Orderly, OneMessage
  <2>2. QED
    BY <1>1, <1>3, <2>1, OrderlyWhenLost
<1>4. QED
  BY <1>2, <1>3 DEF Phased

LEMMA PhasedStep == TypeOK /\ AllSane /\ Phased /\ [Next]_vars => Phased'
<1> SUFFICES ASSUME TypeOK, AllSane, Phased, [Next]_vars PROVE Phased'
  OBVIOUS
<1>1. CASE (MasterStep \/ MasterDue \/ Timeout) /\ UNCHANGED station
  <2>1. PICK i \in Stations : i = cur
    BY DEF TypeOK, MasterTypeOK
  <2>2. Sane(i)
    BY DEF AllSane
  <2>3. CASE Visit \/ PollDue \/ CallDue \/ GiveUp \/ SendNothing \/ (Idle(i) /\ Relink)
    BY <1>1, <2>1, <2>3, InwardPhased
  <2>4. CASE SendPacked
    BY <1>1, <2>1, <2>4, SendPackedPhased
  <2>5. CASE Idle(i) /\ Repeat
    BY <1>1, <2>1, <2>2, <2>5, RepeatPhased
  <2>6. CASE Idle(i) /\ StopWaiting
    BY <1>1, <2>1, <2>6, StopWaitingPhased
  <2>7. CASE Receive
    BY <1>1, <2>1, <2>7, ReceivePhased
  <2>8. CASE ReceiveNothing
    BY <1>1, <2>1, <2>8, ReceiveNothingPhased
  <2>9. QED
    BY <1>1, <2>1, <2>3, <2>4, <2>5, <2>6, <2>7, <2>8
    DEF MasterStep, MasterDue, Timeout, GivesUpWaiting
<1>2. CASE \E i \in Stations : (StationStep(i) \/ Restart(i)) /\ UNCHANGED master
  BY <1>2, StationPhased
<1>3. CASE Lose /\ UNCHANGED <<station, master>>
  BY <1>3, LosePhased
<1>4. CASE UNCHANGED vars
  <2>1. UNCHANGED <<link, cur, heard, station, toStation, toMaster>>
    BY <1>4 DEF vars, line, master
  <2>2. ASSUME NEW j \in Stations, Orderly(j) PROVE Orderly(j)'
    BY <2>1, <2>2, FewerWhenSame, OrderlyWhenLost
  <2>3. ASSUME NEW j \in Stations, Abandoned(j) PROVE Abandoned(j)'
    BY <2>1, <2>3 DEF Abandoned
  <2>4. QED
    BY <2>2, <2>3 DEF Phased
<1>5. QED
  BY <1>1, <1>2, <1>3, <1>4 DEF Next

\* What a step of the master may do to the link it visits.
LEMMA VisitedSane ==
  ASSUME TypeOK, AllSane, UNCHANGED station, NEW i \in Stations, i = cur, NEW M,
         link' = [link EXCEPT ![i] = M],
         link[i].known => M.known,
         "wait" \in M.flags => "wait" \in link[i].flags \/ M.last # <<>>,
         M.last = link[i].last \/ (M.last # <<>> /\ (M.last[1].known => M.known)),
         \A j \in Stations : j # i => toStation'[j] = toStation[j],
         \A n \in DOMAIN toStation'[i] : toStation'[i][n].known => M.known
  PROVE  AllSane'
<1> SUFFICES ASSUME NEW j \in Stations PROVE Sane(j)'
  BY DEF AllSane
<1>1. DOMAIN link = Stations /\ Sane(j)
  BY DEF TypeOK, MasterTypeOK, AllSane
<1>2. CASE j # i
  <2>1. link'[j] = link[j] /\ station'[j] = station[j] /\ toStation'[j] = toStation[j]
    BY <1>1, <1>2
  <2>2. QED
    BY <1>1, <2>1 DEF Sane, Waits
<1>3. CASE j = i
  <2>1. link'[i] = M /\ station'[i] = station[i] /\ Sane(i)
    BY <1>1, <1>3
  <2>2. Waits(i)' => M.last # <<>>
    BY <2>1 DEF Sane, Waits
  <2>3. M.last # <<>> /\ M.last[1].known => M.known
    BY <2>1 DEF Sane
  <2>4. QED
    BY <1>3, <2>1, <2>2, <2>3 DEF Sane
<1>4. QED
  BY <1>2, <1>3

\* What is added behind a sequence.
LEMMA AllOfAppended ==
  ASSUME NEW q \in Seq(MasterFrames), NEW f \in MasterFrames, NEW b \in BOOLEAN,
         \A n \in DOMAIN q : q[n].known => b, f.known => b
  PROVE  \A n \in DOMAIN Append(q, f) : Append(q, f)[n].known => b
<1>1. /\ Append(q, f) \in Seq(MasterFrames) /\ Len(Append(q, f)) = Len(q) + 1
      /\ \A n \in 1..Len(q) : Append(q, f)[n] = q[n]
      /\ Append(q, f)[Len(q) + 1] = f
  BY AppendProperties
<1>2. DOMAIN Append(q, f) = 1..(Len(q) + 1) /\ DOMAIN q = 1..Len(q) /\ Len(q) \in Nat
  BY <1>1
<1>3. 1..(Len(q) + 1) = (1..Len(q)) \cup {Len(q) + 1}
  BY <1>2
<1>4. QED
  BY <1>1, <1>2, <1>3

LEMMA MasterSane ==
  ASSUME TypeOK, AllSane, UNCHANGED station, NEW i \in Stations, i = cur,
         MasterStep \/ MasterDue \/ Relink \/ Repeat \/ StopWaiting
  PROVE  AllSane'
<1> DEFINE L == link[i]
<1>1. /\ L \in LinkStates /\ DOMAIN link = Stations /\ link \in [Stations -> LinkStates]
      /\ DOMAIN toStation = Stations /\ toStation[i] \in Seq(MasterFrames)
      /\ Sane(i) /\ L.known \in BOOLEAN
  BY DEF TypeOK, LineTypeOK, MasterTypeOK, AllSane, LinkStates
<1>2. \A n \in DOMAIN toStation[i] : toStation[i][n].known => L.known
  BY <1>1 DEF Sane
<1>3. ASSUME NEW M, link' = [link EXCEPT ![i] = M], toStation' = toStation,
             L.known => M.known, M.last = L.last, "wait" \in M.flags => "wait" \in L.flags
      PROVE  AllSane'
  <2>1. \A n \in DOMAIN toStation'[i] : toStation'[i][n].known => M.known
    BY <1>2, <1>3
  <2>2. QED
    BY <1>3, <2>1, VisitedSane
<1>4. ASSUME NEW M, NEW f \in MasterFrames, Write(f), Update(M), f.known => L.known,
             M.known = L.known, M.last = <<f>> \/ M.last = L.last,
             "wait" \in M.flags => "wait" \in L.flags \/ M.last # <<>>
      PROVE  AllSane'
  <2>1. /\ link' = [link EXCEPT ![i] = M]
        /\ toStation' = [toStation EXCEPT ![i] = Append(@, f)]
    BY <1>4 DEF Write, Update
  <2>2. toStation'[i] = Append(toStation[i], f)
        /\ \A j \in Stations : j # i => toStation'[j] = toStation[j]
    BY <1>1, <2>1
  <2>3. \A n \in DOMAIN Append(toStation[i], f) : Append(toStation[i], f)[n].known => L.known
    BY <1>1, <1>2, <1>4, AllOfAppended
  <2>4. \A n \in DOMAIN toStation'[i] : toStation'[i][n].known => M.known
    BY <1>4, <2>2, <2>3
  <2>5. M.last = L.last \/ (M.last # <<>> /\ (M.last[1].known => M.known))
    <3>1. <<f>>[1] = f /\ <<f>> # <<>>
      OBVIOUS
    <3>2. CASE M.last = <<f>>
      <4>1. M.last[1] = f /\ M.last # <<>>
        BY <3>1, <3>2
      <4>2. QED
        BY <1>4, <4>1
    <3>3. QED
      BY <1>4, <3>2
  <2>6. QED
    BY <1>4, <2>1, <2>2, <2>4, <2>5, VisitedSane
<1>5. ASSUME NEW M \in LinkStates, Update(M), toStation' = toStation, M.known = L.known,
             M.last = L.last, M.flags \subseteq L.flags
      PROVE  AllSane'
  BY <1>3, <1>5 DEF Update
<1>6. CASE Visit
  <2>1. link' = [link EXCEPT ![i] = L] /\ toStation' = toStation
    BY <1>1, <1>6 DEF Visit, line
  <2>2. QED
    BY <1>3, <2>1
<1>7. CASE PollDue \/ CallDue
  <2>1. PICK P \in SUBSET Requests : Update([L EXCEPT !.pack = P]) /\ toStation' = toStation
    <3>1. L.pack \cup {"second"} \in SUBSET Requests /\ L.pack \cup {"call"} \in SUBSET Requests
      BY <1>1 DEF LinkStates, Requests
    <3>2. QED
      BY <1>7, <3>1 DEF PollDue, CallDue, line
  <2> DEFINE M == [L EXCEPT !.pack = P]
  <2>2. M \in LinkStates /\ M.known = L.known /\ M.last = L.last /\ M.flags = L.flags
    BY <1>1 DEF LinkStates
  <2>3. Update(M)
    BY <2>1
  <2> HIDE DEF M
  <2>4. QED
    BY <1>5, <2>1, <2>2, <2>3
<1>8. CASE GiveUp \/ (Relink /\ ~Up(i))
  <2> DEFINE G == GivenUp(L)
             R == Requested(L)
  <2>1. G.flags = {} /\ G.known = L.known /\ G.last = L.last /\ G \in LinkStates
    BY <1>1, GivenUpTyped DEF GivenUp, LinkStates
  <2>2. R.flags = {} /\ R.known = L.known /\ R.last = L.last /\ R \in LinkStates
    BY <1>1, GivenUpTyped DEF Requested, LinkStates
  <2>3. (Update(G) \/ Update(R)) /\ toStation' = toStation
    BY <1>8 DEF GiveUp, Relink, line
  <2> HIDE DEF G, R
  <2>4. QED
    BY <1>5, <2>1, <2>2, <2>3
<1>9. CASE Relink /\ Up(i)
  BY <1>1, <1>5, <1>9 DEF Relink, line
<1>10. CASE SendNothing
  <2> DEFINE S == [L EXCEPT !.retries = 0, !.flags = @ \ {"jump"}]
  <2>1. S.flags = L.flags \ {"jump"} /\ S.known = L.known /\ S.last = L.last
    BY <1>1 DEF LinkStates
  <2>2. (Update(S) \/ Update(L)) /\ toStation' = toStation
    BY <1>10 DEF SendNothing, line
  <2> HIDE DEF S
  <2>3. CASE Update(S)
    <3>1. "wait" \in S.flags => "wait" \in L.flags
      BY <2>1
    <3>2. link' = [link EXCEPT ![i] = S]
      BY <2>3 DEF Update
    <3>3. QED
      BY <1>3, <2>1, <2>2, <3>1, <3>2
  <2>4. CASE Update(L)
    BY <1>1, <1>5, <2>2, <2>4
  <2>5. QED
    BY <2>2, <2>3, <2>4
<1>11. CASE SendPacked
  <2> DEFINE k == NextPack(i)
             f == [kind |-> k, fcb |-> IF k \in Unnumbered THEN 0 ELSE FcbFor(L, k),
                   known |-> L.known]
             S == [L EXCEPT !.flags = @ \cup {"wait", "jump"} \cup Noted(k), !.pack = @ \ {k},
                            !.fcb = FcbFor(L, k), !.last = <<f>>]
             M == IF Up(i) /\ L.retries = RetryNumber THEN GivenUp(S) ELSE S
  <2>1. L.pack # {} /\ Write(f) /\ Update(M)
    BY <1>11 DEF SendPacked
  <2>2. f \in MasterFrames /\ S \in LinkStates
    BY <2>1, RequestTyped
  <2>3. f.known = L.known /\ S.last = <<f>> /\ S.known = L.known
    BY <1>1 DEF LinkStates
  <2> HIDE DEF f, S
  <2>4. M.last = S.last /\ M.known = S.known
    BY <2>2 DEF GivenUp, LinkStates
  <2> HIDE DEF M
  <2>5. M.last # <<>>
    BY <2>3, <2>4
  <2>6. QED
    BY <1>4, <2>1, <2>2, <2>3, <2>4, <2>5
<1>12. CASE Repeat
  <2> DEFINE M == [L EXCEPT !.retries = @ + 1, !.flags = @ \cup {"jump"}]
             f == L.last[1]
  <2>1. Waits(i) /\ Write(f) /\ Update(M)
    BY <1>12 DEF Repeat
  <2>2. M.last = L.last /\ M.known = L.known /\ M.flags = L.flags \cup {"jump"}
    BY <1>1 DEF LinkStates
  <2>3. L.last # <<>>
    BY <1>1, <2>1 DEF Sane
  <2>4. f \in MasterFrames
    <3>1. PICK g \in MasterFrames : L.last = <<g>>
      BY <1>1, <2>3 DEF LinkStates
    <3>2. QED
      BY <3>1
  <2>5. f.known => L.known
    BY <1>1, <2>3 DEF Sane
  <2> HIDE DEF M, f
  <2>6. "wait" \in M.flags => "wait" \in L.flags
    BY <2>2
  <2>7. QED
    BY <1>4, <2>1, <2>2, <2>4, <2>5, <2>6
<1>13. CASE StopWaiting
  <2> DEFINE M == [L EXCEPT !.flags = @ \ {"jump"}]
  <2>1. link' = [link EXCEPT ![i] = M] /\ toStation' = toStation
    BY <1>1, <1>13, LeaveEffect DEF StopWaiting
  <2>2. M.flags = L.flags \ {"jump"} /\ M.known = L.known /\ M.last = L.last
    BY <1>1 DEF LinkStates
  <2> HIDE DEF M
  <2>3. "wait" \in M.flags => "wait" \in L.flags
    BY <2>2
  <2>4. QED
    BY <1>3, <2>1, <2>2, <2>3
<1>14. CASE Receive
  <2>1. PICK n \in Air(i) : \E M \in LinkStates :
           /\ n \in DOMAIN toMaster /\ toMaster[n] \in StationFrames
           /\ M = Analysed(link[i], toMaster[n])
           /\ link' = [link EXCEPT ![i] = M]
           /\ heard' = [heard EXCEPT ![i] =
                IF toMaster[n].kind = "call" /\ Up(i) THEN Append(@, toMaster[n].pos) ELSE @]
           /\ toStation' = toStation
           /\ \/ cur' = cur /\ toMaster' = SubSeq(toMaster, n + 1, Len(toMaster))
              \/ "jump" \notin M.flags /\ toMaster' = <<>>
    BY <1>14, ReceivedEffect
  <2> DEFINE f == toMaster[n]
  <2>2. PICK M \in LinkStates : /\ f \in StationFrames /\ M = Analysed(L, f)
                                /\ link' = [link EXCEPT ![i] = M] /\ toStation' = toStation
    BY <2>1
  <2> HIDE DEF f
  <2>3. /\ M.last = L.last /\ (L.known => M.known)
        /\ "wait" \in M.flags => "wait" \in L.flags
    BY <1>1, <2>2, AnalysedEffect
  <2>4. QED
    BY <1>3, <2>2, <2>3
<1>15. CASE ReceiveNothing
  <2>1. Jump(L, <<>>) /\ toStation' = toStation
    BY <1>15 DEF ReceiveNothing
  <2>2. link' = [link EXCEPT ![i] = L]
    BY <1>1, <2>1, JumpEffect
  <2>3. QED
    BY <1>3, <2>1, <2>2
<1>16. QED
  BY <1>6, <1>7, <1>8, <1>9, <1>10, <1>11, <1>12, <1>13, <1>14, <1>15 DEF MasterStep, MasterDue

LEMMA SaneStep == TypeOK /\ AllSane /\ [Next]_vars => AllSane'
<1> SUFFICES ASSUME TypeOK, AllSane, [Next]_vars PROVE AllSane'
  OBVIOUS
<1>1. CASE (MasterStep \/ MasterDue \/ Timeout) /\ UNCHANGED station
  <2>1. PICK i \in Stations : i = cur
    BY DEF TypeOK, MasterTypeOK
  <2>2. MasterStep \/ MasterDue \/ Relink \/ Repeat \/ StopWaiting
    BY <1>1 DEF Timeout, GivesUpWaiting
  <2>3. QED
    BY <1>1, <2>1, <2>2, MasterSane
<1>2. CASE \E i \in Stations : (StationStep(i) \/ Restart(i)) /\ UNCHANGED master
  <2>1. PICK i \in Stations : (StationStep(i) \/ Restart(i)) /\ UNCHANGED master
    BY <1>2
  <2>2. ASSUME NEW j \in Stations, j # i PROVE Sane(j)'
    <3>1. station'[j] = station[j] /\ toStation'[j] = toStation[j] /\ link' = link
      BY <2>1, <2>2, StationTouches DEF master
    <3>2. QED
      BY <3>1 DEF AllSane, Sane, Waits
  <2>3. Sane(i)'
    BY <2>1, StationSane
  <2>4. QED
    BY <2>2, <2>3 DEF AllSane
<1>3. CASE Lose /\ UNCHANGED <<station, master>>
  <2>1. ASSUME NEW j \in Stations PROVE Sane(j)'
    <3>1. station' = station /\ link' = link /\ Sane(j)
      BY <1>3 DEF master, AllSane
    <3>2. \A n \in DOMAIN toStation'[j] : \E m \in DOMAIN toStation[j] :
              toStation'[j][n] = toStation[j][m]
      BY <1>3, LostEffect
    <3>3. \A n \in DOMAIN toStation'[j] : toStation'[j][n].known => link[j].known
      BY <3>1, <3>2 DEF Sane
    <3>4. QED
      BY <3>1, <3>3 DEF Sane, Waits
  <2>2. QED
    BY <2>1 DEF AllSane
<1>4. CASE UNCHANGED vars
  BY <1>4 DEF AllSane, Sane, Waits, vars, line, master
<1>5. QED
  BY <1>1, <1>2, <1>3, <1>4 DEF Next

\* The frames of an interrogation: the next one is the one that is taken.
LEMMA AnswersStep ==
  TypeOK /\ Phased /\ AnswersInOrder /\ [Next]_vars => AnswersInOrder'
<1> SUFFICES ASSUME TypeOK, Phased, AnswersInOrder, [Next]_vars PROVE AnswersInOrder'
  OBVIOUS
<1>1. heard \in [Stations -> Seq(0..Ended)]
  BY DEF TypeOK, MasterTypeOK
<1>2. CASE UNCHANGED heard
  BY <1>2 DEF AnswersInOrder
<1>3. ASSUME NEW i \in Stations, NEW q, heard' = [heard EXCEPT ![i] = q],
             \A n \in DOMAIN q : q[n] = n - 1
      PROVE  AnswersInOrder'
  <2> SUFFICES ASSUME NEW j \in Stations, NEW n \in DOMAIN heard'[j]
               PROVE  heard'[j][n] = n - 1
    BY DEF AnswersInOrder
  <2>1. heard'[j] = IF j = i THEN q ELSE heard[j]
    BY <1>1, <1>3
  <2>2. QED
    BY <1>3, <2>1 DEF AnswersInOrder
<1>4. PICK i \in Stations : i = cur
  BY DEF TypeOK, MasterTypeOK
<1>5. \A n \in DOMAIN heard[i] : heard[i][n] = n - 1
  BY DEF AnswersInOrder
<1>6. CASE SendPacked
  <2>1. heard' = [heard EXCEPT ![i] = <<>>] \/ UNCHANGED heard
    BY <1>1, <1>4, <1>6 DEF SendPacked
  <2>2. QED
    BY <1>2, <1>3, <2>1
<1>7. CASE Receive
  <2>1. PICK n \in Air(i) : \E M \in LinkStates :
           /\ n \in DOMAIN toMaster /\ toMaster[n] \in StationFrames
           /\ M = Analysed(link[i], toMaster[n])
           /\ link' = [link EXCEPT ![i] = M]
           /\ heard' = [heard EXCEPT ![i] =
                IF toMaster[n].kind = "call" /\ Up(i) THEN Append(@, toMaster[n].pos) ELSE @]
           /\ toStation' = toStation
           /\ \/ cur' = cur /\ toMaster' = SubSeq(toMaster, n + 1, Len(toMaster))
              \/ "jump" \notin M.flags /\ toMaster' = <<>>
    BY <1>4, <1>7, ReceivedEffect
  <2> DEFINE f == toMaster[n]
             q == heard[i]
  <2>2. heard' = [heard EXCEPT ![i] = IF f.kind = "call" /\ Up(i) THEN Append(@, f.pos) ELSE @]
        /\ f \in StationFrames
    BY <2>1
  <2>3. CASE f.kind = "call" /\ Up(i)
    <3>1. f.pos = Len(q)
      BY <2>3, UpIsRunning DEF Running, InStep
    <3>2. q \in Seq(0..Ended) /\ f.pos \in 0..Ended
      BY <1>1, <2>2 DEF StationFrames
    <3>3. heard' = [heard EXCEPT ![i] = Append(q, f.pos)]
      BY <1>1, <2>2, <2>3
    <3>4. \A m \in DOMAIN q : q[m] = m - 1
      BY <1>5
    <3> DEFINE p == f.pos
    <3>5. p = Len(q) /\ p \in 0..Ended
      BY <3>1, <3>2
    <3> HIDE DEF f, q, p
    <3>6. /\ Len(Append(q, p)) = Len(q) + 1 /\ Append(q, p) \in Seq(0..Ended)
          /\ \A m \in 1..Len(q) : Append(q, p)[m] = q[m]
          /\ Append(q, p)[Len(q) + 1] = p
      BY <3>2, <3>5, AppendProperties
    <3>7. DOMAIN Append(q, p) = 1..(Len(q) + 1) /\ Len(q) \in Nat /\ DOMAIN q = 1..Len(q)
      BY <3>2, <3>6
    <3>8. ASSUME NEW m \in DOMAIN Append(q, p) PROVE Append(q, p)[m] = m - 1
      <4>1. m \in 1..Len(q) \/ m = Len(q) + 1
        BY <3>7
      <4>2. CASE m \in 1..Len(q)
        BY <3>4, <3>6, <3>7, <4>2
      <4>3. CASE m = Len(q) + 1
        BY <3>5, <3>6, <3>7, <4>3
      <4>4. QED
        BY <4>1, <4>2, <4>3
    <3>9. QED
      BY <1>3, <3>3, <3>8 DEF p
  <2>4. CASE ~(f.kind = "call" /\ Up(i))
    <3>1. UNCHANGED heard
      BY <1>1, <2>2, <2>4
    <3>2. QED
      BY <1>2, <3>1
  <2>5. QED
    BY <2>3, <2>4
<1>8. UNCHANGED heard \/ SendPacked \/ Receive
  BY DEF Next, MasterStep, MasterDue, Timeout, GivesUpWaiting, Visit, GiveUp, SendNothing,
         ReceiveNothing, PollDue, CallDue, Relink, Repeat, StopWaiting, vars, master
<1>9. QED
  BY <1>2, <1>6, <1>7, <1>8

-----------------------------------------------------------------------------
LEMMA PollingInit == Init => Polling
<1> SUFFICES ASSUME Init PROVE Polling
  OBVIOUS
<1>1. TypeOK
  BY TypeInit
<1>2. /\ toStation = [i \in Stations |-> <<>>] /\ toMaster = <<>>
      /\ station = [i \in Stations |-> PoweredOn] /\ heard = [i \in Stations |-> <<>>]
      /\ link = [i \in Stations |->
           [flags |-> {}, pack |-> {"request"}, fcb |-> 0, retries |-> 0, last |-> <<>>,
            known |-> i \in KnownFrom]]
  BY DEF Init, LineInit, StationInit, MasterInit
<1>3. ASSUME NEW i \in Stations PROVE Sane(i) /\ Orderly(i)
  <2>1. /\ toStation[i] = <<>> /\ Air(i) = {} /\ DOMAIN toStation[i] = {}
        /\ link[i].flags = {} /\ link[i].pack = {"request"} /\ link[i].last = <<>>
    BY <1>2 DEF Air
  <2>2. /\ station[i].asked = {} /\ station[i].data1 = {} /\ ~station[i].initEnd
        /\ station[i].lastTx = <<>>
    BY <1>2 DEF PoweredOn
  <2>3. Idle(i)
    BY <1>2, <2>1, <2>2 DEF Idle
  <2>4. Len(toStation[i]) <= 1
    BY <2>1
  <2>5. OneMessage(i)
    BY <2>1, <2>2, <2>4 DEF OneMessage
  <2>6. ToRequest(i)
    BY <2>1, <2>3 DEF ToRequest
  <2>7. Sane(i)
    BY <2>1, <2>2 DEF Sane, Waits
  <2>8. QED
    BY <2>3, <2>5, <2>6, <2>7 DEF Orderly
<1>4. AnswersInOrder
  BY <1>2 DEF AnswersInOrder
<1>5. QED
  BY <1>1, <1>3, <1>4 DEF Polling, Phased, AllSane

LEMMA PollingInvariant == Spec => []Polling
<1>1. Polling /\ [Next]_vars => Polling'
  BY TypeStep, SaneStep, PhasedStep, AnswersStep DEF Polling
<1>2. QED
  BY PollingInit, <1>1, PTL DEF Spec

\* Frames, links, stations and the list position stay what they are, whatever
\* is lost and whenever a station starts again: the thread never repeats a
\* request that it has not kept, and its search for a link that is down never
\* leaves the list (cs101_master_data_send, cs101_master_run_thread).
THEOREM PollingTypeCorrect == Spec => []TypeOK
<1>1. Polling => TypeOK
  BY DEF Polling
<1>2. QED
  BY PollingInvariant, <1>1, PTL

\* What the master hears of an interrogation is its confirmation, its data and
\* its end in this order, without a gap and without a repetition, whatever the
\* line loses (FCB of cs101_master_conitor_pack, CS101_Slave_JudgeFCB).
THEOREM PollingAnswersInOrder == Spec => []AnswersInOrder
<1>1. Polling => AnswersInOrder
  BY DEF Polling
<1>2. QED
  BY PollingInvariant, <1>1, PTL

\* Between two requests the station's last FCB is the master's, once the
\* station has counted one since its reset.
THEOREM PollingFcbAgree == Spec => []FcbAgree
<1>1. Polling => FcbAgree
  BY UpIsRunning DEF Polling, FcbAgree, Running, Agreed
<1>2. QED
  BY PollingInvariant, <1>1, PTL

\* Two stations whose links are up never have something to say at a time: who
\* has is the one that is visited, and its visit lasts (cs101_master_wait_jump).
THEOREM PollingOneTalker == Spec => []OneTalker
<1>1. Polling => OneTalker
  BY UpIsRunning DEF Polling, OneTalker, Orderly
<1>2. QED
  BY PollingInvariant, <1>1, PTL

=============================================================================
