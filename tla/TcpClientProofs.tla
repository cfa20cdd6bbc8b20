--------------------------- MODULE TcpClientProofs ---------------------------
(***************************************************************************)
(* For every number of descriptors, size of the buffer and number of       *)
(* closings: the length of the transmit buffer, counted up and down by two *)
(* threads without a lock, never falls below 0 (it may exceed the buffer:  *)
(* nothing asks whether a put fits); no descriptor of another link is      *)
(* closed as long as the two threads do not close or open at the same      *)
(* time; and bytes leave in their order until a put meets a write or does  *)
(* not fit, or a write is partial or goes out on another link's socket.    *)
(***************************************************************************)
EXTENDS TcpClient, TLAPS

\* A length that has been read is out of date in one direction only: the
\* client thread has read no more, and the master no less, than there is.
StaleLengths ==
  /\ mpc = "add" => len <= mLenRead
  /\ pc = "readLen" => wrote <= len
  /\ pc = "subtract" => wrote <= lenRead /\ lenRead <= len

Lengths == LengthsTyped /\ StaleLengths

InLoop == pc \in {"loop", "write", "readLen", "subtract", "clear", "clearFlag"}

\* The inductive strengthening of OwnSocketOnly.
Sockets ==
  /\ ~robbed
  /\ \A f \in Fds : owner[f] = "link" => f = sock /\ pc # "forget" /\ mpc # "forget"
  /\ sock # None => owner[sock] = "link" \/ pc = "forget" \/ mpc = "forget"
  /\ pc = "socket" \/ mpc = "stop" \/ (InLoop /\ ~running) => sock = None

SocketsUnlessCrossed == ~crossed => Sockets

LEMMA ModRange == ASSUME NEW a \in Nat, NEW b \in Nat \ {0} PROVE a % b \in 0..(b - 1)
  BY SMT

LEMMA NoneIsNoFd == None \notin Fds
  BY Assumption DEF None

-----------------------------------------------------------------------------
LEMMA ThreadStep == ThreadTyped /\ [Next]_vars => ThreadTyped'
<1> SUFFICES ASSUME ThreadTyped, [Next]_vars PROVE ThreadTyped'
  OBVIOUS
<1> USE Assumption DEF ThreadTyped, ThreadKeeps, MasterKeeps, sockVars, faultVars, closeVars
<1>1. CASE OpenSocket
  BY <1>1 DEF OpenSocket, Free
<1>2. CASE Connect \/ ConnectFails \/ SetRunning \/ SelectTimesOut \/ SelectFails \/ WriteFails
  BY <1>2 DEF Connect, ConnectFails, SetRunning, SelectTimesOut, SelectFails, WriteFails
<1>3. CASE LeaveLoop
  BY <1>3 DEF LeaveLoop, Close
<1>4. ASSUME NEW n \in 0..len, WriteTakes(n) PROVE ThreadTyped'
  BY <1>4 DEF WriteTakes
<1>5. CASE ReadLen \/ Subtract \/ TestLen \/ ClearFlag
  BY <1>5 DEF ReadLen, Subtract, TestLen, ClearFlag
<1>6. CASE CloseOwn
  BY <1>6 DEF CloseOwn, Close
<1>7. CASE Forget
  BY <1>7 DEF Forget
<1>8. CASE Put
  BY <1>8 DEF Put, Copy, SetFlag, ReadLenToAdd, Add
<1>9. CASE CloseLink
  <2>1. owner' \in [Fds -> {"free", "link", "other"}] /\ broken' \subseteq Fds
    BY <1>9 DEF CloseLink, Close
  <2>2. crossed' \in BOOLEAN /\ robbed' \in BOOLEAN
    BY <1>9 DEF CloseLink, Close
  <2>3. closes' \in 0..MaxCloses
    BY <1>9 DEF CloseLink
  <2>4. QED
    BY <1>9, <2>1, <2>2, <2>3 DEF CloseLink
<1>10. CASE ForgetLink \/ StopLink
  BY <1>10 DEF ForgetLink, StopLink
<1>11. CASE Others
  BY <1>11 DEF Others, OthersOpen, OthersClose, Free
<1>12. CASE Break
  BY <1>12 DEF Break, Alive
<1>13. CASE Dies
  BY <1>13 DEF Dies
<1>14. CASE UNCHANGED vars
  BY <1>14 DEF vars
<1>15. QED
  BY <1>1, <1>2, <1>3, <1>4, <1>5, <1>6, <1>7, <1>8, <1>9, <1>10, <1>11, <1>12, <1>13, <1>14
  DEF Next, Thread, Master, CopyDies, WriteDies

\* What two threads make of the length without a lock does not fall below 0.
LEMMA LengthStep == ThreadTyped /\ Lengths /\ [Next]_vars => Lengths'
<1> SUFFICES ASSUME ThreadTyped, Lengths, [Next]_vars PROVE Lengths'
  OBVIOUS
<1> USE Assumption DEF ThreadTyped, Lengths, LengthsTyped, StaleLengths, ThreadKeeps, MasterKeeps, bufVars
<1>1. CASE OpenSocket \/ Connect \/ ConnectFails \/ SetRunning \/ LeaveLoop
  BY <1>1 DEF OpenSocket, Connect, ConnectFails, SetRunning, LeaveLoop
<1>2. CASE SelectTimesOut \/ SelectFails \/ WriteFails \/ CloseOwn \/ Forget
  BY <1>2 DEF SelectTimesOut, SelectFails, WriteFails, CloseOwn, Forget
<1>3. ASSUME NEW n \in 0..len, WriteTakes(n) PROVE Lengths'
  BY <1>3 DEF WriteTakes
<1>4. CASE ReadLen
  BY <1>4 DEF ReadLen
<1>5. CASE Subtract
  BY <1>5 DEF Subtract
<1>6. CASE TestLen \/ ClearFlag
  BY <1>6 DEF TestLen, ClearFlag
<1>7. CASE Copy \/ SetFlag
  BY <1>7 DEF Copy, SetFlag
<1>8. CASE ReadLenToAdd
  BY <1>8 DEF ReadLenToAdd
<1>9. CASE Add
  BY <1>9 DEF Add
<1>10. CASE CloseLink \/ ForgetLink \/ StopLink
  BY <1>10 DEF CloseLink, ForgetLink, StopLink
<1>11. CASE Others \/ Break
  BY <1>11 DEF Others, Break
<1>12. CASE Dies \/ UNCHANGED vars
  BY <1>12 DEF Dies, vars
<1>13. QED
  BY <1>1, <1>2, <1>3, <1>4, <1>5, <1>6, <1>7, <1>8, <1>9, <1>10, <1>11, <1>12
  DEF Next, Thread, Master, Put, CopyDies, WriteDies

LEMMA FollowTyped ==
  ASSUME BytesTyped,
         NEW b \in [0..Size - 1 -> 0..Numbers - 1], NEW n \in 0..Numbers - 1,
         NEW s \in 0..Numbers - 1, NEW o \in BOOLEAN, NEW p \in BOOLEAN,
         Follow(b, n, s, o, p), sending' \in BOOLEAN
  PROVE  BytesTyped'
<1>1. 0 \in 0..Numbers - 1 /\ Blank \in [0..Size - 1 -> 0..Numbers - 1]
  BY Assumption DEF Blank, Numbers
<1>2. CASE spoilt \/ p
  BY <1>1, <1>2 DEF Follow, BytesTyped
<1>3. CASE ~(spoilt \/ p)
  BY <1>3 DEF Follow, BytesTyped
<1>4. QED
  BY <1>2, <1>3

LEMMA BytesStep == TypeOK /\ [Next]_vars => BytesTyped'
<1> SUFFICES ASSUME TypeOK, [Next]_vars PROVE BytesTyped'
  OBVIOUS
<1>1. Numbers \in Nat \ {0}
  BY Assumption DEF Numbers
<1>2. CASE UNCHANGED bufVars
  BY <1>2 DEF bufVars, TypeOK, BytesTyped
<1>3. CASE UNCHANGED <<buf, next, sent, ordered, spoilt>> /\ sending' \in BOOLEAN
  BY <1>3 DEF TypeOK, BytesTyped
<1>4. ASSUME NEW n \in 0..len, WriteTakes(n) PROVE BytesTyped'
  <2> DEFINE s == (sent + n) % Numbers
             o == ordered /\ \A k \in 0..n - 1 : buf[k] = (sent + k) % Numbers
             p == Putting \/ n < len \/ OnOther
  <2>1. s \in 0..Numbers - 1
    BY <1>1, ModRange DEF TypeOK, BytesTyped
  <2>2. o \in BOOLEAN /\ p \in BOOLEAN
    BY DEF TypeOK, BytesTyped, Putting, OnOther
  <2>3. Follow(buf, next, s, o, p) /\ sending' = sending
    BY <1>4 DEF WriteTakes
  <2>4. QED
    BY <2>1, <2>2, <2>3, FollowTyped DEF TypeOK, BytesTyped
<1>5. CASE Copy
  <2>1. Succ(next) \in 0..Numbers - 1
    BY <1>1, ModRange DEF TypeOK, BytesTyped, Succ
  <2>2. [buf EXCEPT ![len] = next] \in [0..Size - 1 -> 0..Numbers - 1]
    BY DEF TypeOK, BytesTyped
  <2>3. (Writing \/ len >= Size) \in BOOLEAN
    BY DEF Writing
  <2>4. /\ Follow([buf EXCEPT ![len] = next], Succ(next), sent, ordered, Writing \/ len >= Size)
        /\ sending' = sending
    BY <1>5 DEF Copy
  <2>5. QED
    BY <2>1, <2>2, <2>3, <2>4, FollowTyped, ZenonT(40) DEF TypeOK, BytesTyped
<1>6. CASE CopyDies \/ WriteDies
  BY <1>6, <1>2 DEF CopyDies, WriteDies, Dies
<1>7. CASE Subtract \/ ClearFlag \/ WriteFails
  BY <1>7, <1>2, <1>3 DEF Subtract, ClearFlag, WriteFails, TypeOK, BytesTyped
<1>8. CASE OpenSocket \/ Connect \/ ConnectFails \/ SetRunning \/ LeaveLoop
           \/ SelectTimesOut \/ SelectFails \/ ReadLen \/ TestLen \/ CloseOwn \/ Forget
  BY <1>8, <1>2 DEF OpenSocket, Connect, ConnectFails, SetRunning, LeaveLoop,
     SelectTimesOut, SelectFails, ReadLen, TestLen, CloseOwn, Forget
<1>9. CASE SetFlag \/ ReadLenToAdd \/ Add
  BY <1>9, <1>2, <1>3 DEF SetFlag, ReadLenToAdd, Add, TypeOK, BytesTyped
<1>10. CASE CloseLink \/ ForgetLink \/ StopLink \/ Others \/ Break \/ UNCHANGED vars
  BY <1>10, <1>2 DEF CloseLink, ForgetLink, StopLink, Others, Break, vars
<1>11. QED
  BY <1>4, <1>5, <1>6, <1>7, <1>8, <1>9, <1>10 DEF Next, Thread, Master, Put

LEMMA InitTyped == Init => TypeOK /\ Lengths
<1> SUFFICES ASSUME Init PROVE TypeOK /\ Lengths
  OBVIOUS
<1>1. ThreadTyped
  <2>1. pc \in {"socket"} /\ mpc \in {"idle"} /\ sock \in {None}
    BY DEF Init
  <2>2. running \in BOOLEAN /\ dead \in BOOLEAN /\ crossed \in BOOLEAN /\ robbed \in BOOLEAN
    BY DEF Init
  <2>3. owner \in [Fds -> {"free", "link", "other"}] /\ broken \subseteq Fds
    BY DEF Init
  <2>4. closes \in 0..MaxCloses /\ breaks \in 0..MaxBreaks
    BY Assumption DEF Init
  <2>5. QED
    BY <2>1, <2>2, <2>3, <2>4 DEF ThreadTyped
<1>2. Lengths
  BY Assumption DEF Init, Lengths, LengthsTyped, StaleLengths
<1>3. BytesTyped
  <2>1. 0 \in 0..Numbers - 1
    BY Assumption DEF Numbers
  <2>2. buf \in [0..Size - 1 -> 0..Numbers - 1]
    BY <2>1 DEF Init, Blank
  <2>3. sending \in BOOLEAN /\ ordered \in BOOLEAN /\ spoilt \in BOOLEAN
    BY DEF Init
  <2>4. QED
    BY <2>1, <2>2, <2>3 DEF Init, BytesTyped
<1>4. QED
  BY <1>1, <1>2, <1>3 DEF TypeOK, Lengths

\* The variables of the client keep their types (thread_client,
\* ethernet_client_put).  The length of the buffer is a natural number: its
\* unlocked loads and stores never take it below 0, where 16 bits would make
\* it one of some 65000.  Upwards nothing in the code bounds it.
THEOREM ClientTypeCorrect == Spec => []TypeOK
<1>1. TypeOK /\ Lengths /\ [Next]_vars => (TypeOK /\ Lengths)'
  BY ThreadStep, LengthStep, BytesStep DEF TypeOK, Lengths
<1>2. QED
  BY InitTyped, <1>1, PTL DEF Spec

-----------------------------------------------------------------------------
\* No step that does not meet another closing or opening closes a descriptor
\* of another link, or forgets one of this.
LEMMA SocketStep == ThreadTyped /\ SocketsUnlessCrossed /\ [Next]_vars => SocketsUnlessCrossed'
<1> SUFFICES ASSUME ThreadTyped, SocketsUnlessCrossed, [Next]_vars, ~crossed' PROVE Sockets'
  BY DEF SocketsUnlessCrossed
<1> USE NoneIsNoFd DEF ThreadTyped, SocketsUnlessCrossed, Sockets, InLoop, ThreadKeeps, MasterKeeps,
        sockVars, closeVars
<1>1. CASE OpenSocket
  BY <1>1 DEF OpenSocket, Free
<1>2. CASE Connect \/ ConnectFails
  BY <1>2 DEF Connect, ConnectFails
<1>3. CASE SetRunning
  BY <1>3 DEF SetRunning
<1>4. CASE LeaveLoop
  BY <1>4 DEF LeaveLoop, Close
<1>5. CASE SelectTimesOut \/ SelectFails \/ WriteFails
  BY <1>5 DEF SelectTimesOut, SelectFails, WriteFails
<1>6. ASSUME NEW n \in 0..len, WriteTakes(n) PROVE Sockets'
  BY <1>6 DEF WriteTakes
<1>7. CASE ReadLen \/ Subtract
  BY <1>7 DEF ReadLen, Subtract
<1>8. CASE TestLen \/ ClearFlag
  BY <1>8 DEF TestLen, ClearFlag
<1>9. CASE CloseOwn
  BY <1>9 DEF CloseOwn, Close
<1>10. CASE Forget
  BY <1>10 DEF Forget
<1>11. CASE Put
  <2>1. CASE Copy
    BY <2>1 DEF Copy
  <2>2. CASE SetFlag
    BY <2>2 DEF SetFlag
  <2>3. CASE ReadLenToAdd
    BY <2>3 DEF ReadLenToAdd
  <2>4. CASE Add
    BY <2>4 DEF Add
  <2>5. QED
    BY <1>11, <2>1, <2>2, <2>3, <2>4 DEF Put
<1>12. CASE CloseLink
  BY <1>12 DEF CloseLink, Close
<1>13. CASE ForgetLink
  BY <1>13 DEF ForgetLink
<1>14. CASE StopLink
  BY <1>14 DEF StopLink
<1>15. CASE Others
  BY <1>15 DEF Others, OthersOpen, OthersClose, Free
<1>16. CASE Break
  BY <1>16 DEF Break
<1>17. CASE Dies \/ UNCHANGED vars
  BY <1>17 DEF Dies, vars
<1>18. QED
  BY <1>1, <1>2, <1>3, <1>4, <1>5, <1>6, <1>7, <1>8, <1>9, <1>10, <1>11, <1>12, <1>13,
     <1>14, <1>15, <1>16, <1>17 DEF Next, Thread, Master, CopyDies, WriteDies

\* A link closes no descriptor but its own and loses none of its own, as long
\* as setClientCloseLink meets neither a closing nor an opening of the client
\* thread.
THEOREM ClosesOwnSocket == Spec => []OwnSocketOnly
<1>1. Init => SocketsUnlessCrossed
  BY DEF Init, SocketsUnlessCrossed, Sockets, InLoop
<1>2. SocketsUnlessCrossed => OwnSocketOnly
  BY DEF SocketsUnlessCrossed, Sockets, OwnSocketOnly
<1>3. TypeOK /\ SocketsUnlessCrossed /\ [Next]_vars => SocketsUnlessCrossed'
  BY SocketStep DEF TypeOK
<1>4. QED
  BY ClientTypeCorrect, <1>1, <1>2, <1>3, PTL DEF Spec

-----------------------------------------------------------------------------
\* The bytes.

\* How many bytes from the front of the buffer are put and not sent: the length
\* is behind from the copy to the add, and from the write to the subtraction.
Waiting == IF Writing THEN 0 ELSE IF Putting THEN len + 1 ELSE len

\* The inductive strengthening of SentInOrder, until the bytes are spoilt:
\* until then all that waits is in the buffer.
Stream ==
  /\ len <= Size /\ Waiting <= Size
  /\ ordered /\ ~(Putting /\ Writing)
  /\ \A k \in 0..Waiting - 1 : buf[k] = (sent + k) % Numbers
  /\ next = (sent + Waiting) % Numbers
  /\ (len > 0 /\ ~Writing) \/ mpc \in {"read", "add"} => sending
  /\ mpc = "add" => mLenRead = len
  /\ pc = "readLen" => wrote = len
  /\ pc = "subtract" => wrote = lenRead /\ lenRead = len
  /\ pc \in {"clear", "clearFlag"} => len = 0

StreamUnlessSpoilt == ~spoilt => Stream

LEMMA ModOnce ==
  ASSUME NEW n \in Nat \ {0}, NEW a \in 0..(2 * n - 1)
  PROVE  a % n = IF a < n THEN a ELSE a - n
BY SMT

LEMMA ModSmall == ASSUME NEW n \in Nat \ {0}, NEW a \in 0..(n - 1) PROVE a % n = a
BY SMT

LEMMA ModSucc ==
  ASSUME NEW n \in Nat \ {0}, NEW a \in 0..(2 * n - 2)
  PROVE  ((a % n) + 1) % n = (a + 1) % n
<1>1. \A m \in 0..(2 * n - 1) : m % n = IF m < n THEN m ELSE m - n
  BY ModOnce, Zenon
<1> DEFINE b == a + 1
<1>2. b \in 0..(2 * n - 1) /\ a \in 0..(2 * n - 1)
  OBVIOUS
<1>3. a % n = (IF a < n THEN a ELSE a - n) /\ b % n = (IF b < n THEN b ELSE b - n)
  BY <1>1, <1>2, Zenon
<1> DEFINE c == (a % n) + 1
<1>4. c \in 0..(2 * n - 1)
  BY <1>3
<1>5. c % n = (IF c < n THEN c ELSE c - n)
  BY <1>1, <1>4, Zenon
<1>6. QED
  BY <1>3, <1>5

LEMMA StreamInit == Init => StreamUnlessSpoilt
<1> SUFFICES ASSUME Init PROVE Stream
  BY DEF StreamUnlessSpoilt
<1>1. Waiting = 0
  BY DEF Init, Waiting, Writing, Putting
<1>2. Numbers \in Nat \ {0}
  BY Assumption DEF Numbers
<1>3. (0 + 0) % Numbers = 0
  BY <1>2, ModOnce
<1>4. QED
  BY <1>1, <1>3, Assumption DEF Init, Stream, Writing, Putting

\* A step that neither puts nor sends.
LEMMA StreamKept ==
  ASSUME Stream, UNCHANGED <<buf, next, sent, ordered, len, sending, mLenRead, wrote, lenRead>>,
         Writing' <=> Writing, Putting' <=> Putting,
         mpc' \in {"read", "add"} => mpc' = mpc,
         pc' = pc \/ pc' \notin {"readLen", "subtract", "clear", "clearFlag"}
  PROVE  Stream'
BY DEF Stream, Waiting, Putting, Writing

LEMMA StreamStep == TypeOK /\ Lengths /\ StreamUnlessSpoilt /\ [Next]_vars => StreamUnlessSpoilt'
<1> SUFFICES ASSUME TypeOK, Lengths, StreamUnlessSpoilt, [Next]_vars, ~spoilt' PROVE Stream'
  BY DEF StreamUnlessSpoilt
<1>1. Numbers \in Nat \ {0} /\ Numbers = 2 * Size /\ Size \in Nat \ {0}
  BY Assumption DEF Numbers
<1>2. /\ len \in Nat /\ sent \in 0..Numbers - 1 /\ next \in 0..Numbers - 1
      /\ buf \in [0..Size - 1 -> 0..Numbers - 1]
  BY DEF TypeOK, BytesTyped, LengthsTyped
<1>3. ~spoilt
  BY DEF Next, Thread, Master, Put, OpenSocket, Connect, ConnectFails, SetRunning, LeaveLoop,
     SelectTimesOut, SelectFails, WriteTakes, WriteFails, ReadLen, Subtract, TestLen, ClearFlag,
     CloseOwn, Forget, Copy, SetFlag, ReadLenToAdd, Add, CloseLink, ForgetLink, StopLink,
     Others, Break, CopyDies, WriteDies, Dies, Follow, bufVars, vars
<1>4. Stream
  BY <1>3 DEF StreamUnlessSpoilt
<1>5. CASE OpenSocket \/ Connect \/ ConnectFails \/ SetRunning \/ LeaveLoop \/ SelectTimesOut
           \/ SelectFails \/ WriteFails \/ CloseOwn \/ Forget
  <2>1. /\ pc \notin {"readLen", "subtract", "clear", "clearFlag"}
        /\ pc' \notin {"readLen", "subtract", "clear", "clearFlag"}
    BY <1>5 DEF OpenSocket, Connect, ConnectFails, SetRunning, LeaveLoop, SelectTimesOut,
       SelectFails, WriteFails, CloseOwn, Forget
  <2>2. UNCHANGED <<buf, next, sent, ordered, len, sending, mLenRead, wrote, lenRead, mpc>>
    BY <1>5 DEF OpenSocket, Connect, ConnectFails, SetRunning, LeaveLoop, SelectTimesOut,
       SelectFails, WriteFails, CloseOwn, Forget, ThreadKeeps, bufVars
  <2>3. QED
    BY <1>4, <2>1, <2>2, StreamKept DEF Writing, Putting
<1>6. ASSUME NEW n \in 0..len, WriteTakes(n) PROVE Stream'
  <2>1. /\ pc = "write" /\ (n = 0 => len = 0) /\ wrote' = n
        /\ pc' = (IF n = 0 THEN "clear" ELSE "readLen")
        /\ UNCHANGED <<mpc, mLenRead, lenRead, len, sending>>
        /\ Follow(buf, next, (sent + n) % Numbers,
                  ordered /\ \A k \in 0..n - 1 : buf[k] = (sent + k) % Numbers,
                  Putting \/ n < len \/ OnOther)
        /\ n \in 0..len
    BY <1>6 DEF WriteTakes, ThreadKeeps
  <2>2. /\ ~Putting /\ n = len
        /\ buf' = buf /\ next' = next /\ sent' = (sent + n) % Numbers
        /\ ordered' = (ordered /\ \A k \in 0..n - 1 : buf[k] = (sent + k) % Numbers)
    BY <1>2, <2>1 DEF Follow
  <2>3. Waiting = len /\ Waiting' = 0 /\ Writing'
    BY <2>1, <2>2 DEF Waiting, Writing
  <2>4. ordered'
    BY <1>4, <2>2, <2>3 DEF Stream
  <2>5. sent' = next /\ next' = (sent' + Waiting') % Numbers
    <3>1. sent' = next
      BY <1>4, <2>2, <2>3 DEF Stream
    <3>2. next % Numbers = next
      BY <1>1, <1>2, ModSmall, Zenon
    <3>3. sent' + Waiting' = next
      BY <1>2, <2>3, <3>1
    <3>4. QED
      BY <2>2, <3>1, <3>2, <3>3
  <2>6. ~Putting' /\ mpc' \notin {"read", "add"}
    BY <2>1, <2>2 DEF Putting
  <2>7. len' <= Size /\ Waiting' <= Size
    BY <1>1, <1>4, <2>1, <2>3 DEF Stream
  <2>8. QED
    BY <1>2, <2>1, <2>2, <2>3, <2>4, <2>5, <2>6, <2>7 DEF Stream
<1>7. CASE ReadLen
  BY <1>4, <1>7 DEF ReadLen, ThreadKeeps, bufVars, Stream, Waiting, Putting, Writing
<1>8. CASE Subtract
  <2>1. len' = 0
    BY <1>2, <1>4, <1>8 DEF Subtract, Stream
  <2>2. QED
    BY <1>4, <1>8, <2>1 DEF Subtract, ThreadKeeps, Stream, Waiting, Putting, Writing
<1>9. CASE TestLen \/ ClearFlag
  <2>1. len = 0 /\ len' = len /\ Writing /\ ~Putting /\ UNCHANGED <<mpc, buf, next, sent, ordered>>
    BY <1>4, <1>9 DEF TestLen, ClearFlag, ThreadKeeps, bufVars, Stream, Writing
  <2>2. Waiting = 0 /\ Waiting' = 0
    BY <2>1 DEF Waiting, Putting
  <2>3. pc' \in {"clearFlag", "loop"} /\ ~Putting' /\ mpc' \notin {"read", "add"}
    BY <1>9, <2>1 DEF TestLen, ClearFlag, Putting
  <2>4. QED
    BY <1>4, <2>1, <2>2, <2>3 DEF Stream
<1>10. CASE Copy
  <2>1. /\ mpc = "idle" /\ mpc' = "flag"
        /\ Follow([buf EXCEPT ![len] = next], Succ(next), sent, ordered, Writing \/ len >= Size)
        /\ UNCHANGED <<pc, wrote, lenRead, len, sending, mLenRead>>
    BY <1>10 DEF Copy, MasterKeeps
  <2>2. /\ ~Writing /\ len < Size /\ buf' = [buf EXCEPT ![len] = next] /\ next' = Succ(next)
        /\ sent' = sent /\ ordered' = ordered
    BY <1>1, <1>2, <2>1 DEF Follow
  <2>3. Waiting = len /\ Waiting' = len + 1 /\ ~Writing'
    BY <2>1, <2>2 DEF Waiting, Putting, Writing
  <2>4. next = (sent + len) % Numbers
    BY <1>4, <2>3 DEF Stream
  <2>5. next' = (sent + (len + 1)) % Numbers
    <3>1. sent + len \in 0..(2 * Numbers - 2) /\ sent + (len + 1) = (sent + len) + 1
      BY <1>1, <1>2, <2>2
    <3>2. QED
      BY <1>1, <2>2, <2>4, <3>1, ModSucc DEF Succ
  <2>6. ASSUME NEW k \in 0..len PROVE buf'[k] = (sent + k) % Numbers
    <3>1. CASE k = len
      BY <1>1, <1>2, <2>2, <2>4, <3>1
    <3>2. CASE k # len
      <4>1. k \in 0..len - 1
        BY <1>2, <3>2
      <4>2. QED
        BY <1>2, <1>4, <2>2, <2>3, <4>1 DEF Stream
    <3>3. QED
      BY <3>1, <3>2
  <2>7. \A k \in 0..Waiting' - 1 : buf'[k] = (sent' + k) % Numbers
    BY <1>2, <2>2, <2>3, <2>6
  <2>8. len' <= Size /\ Waiting' <= Size
    BY <1>1, <1>2, <2>1, <2>2, <2>3
  <2>9. QED
    BY <1>4, <2>1, <2>2, <2>3, <2>5, <2>7, <2>8 DEF Stream, Writing
<1>11. CASE SetFlag \/ ReadLenToAdd
  <2>1. Putting /\ Putting' /\ mpc' \in {"read", "add"} /\ sending'
        /\ UNCHANGED <<pc, wrote, lenRead, len, buf, next, sent, ordered>>
    BY <1>4, <1>11 DEF SetFlag, ReadLenToAdd, MasterKeeps, bufVars, Putting, Stream
  <2>2. Waiting' = Waiting /\ Writing' = Writing
    BY <2>1 DEF Waiting, Writing
  <2>3. mpc' = "add" => mLenRead' = len'
    BY <1>11 DEF SetFlag, ReadLenToAdd, bufVars
  <2>4. QED
    BY <1>4, <2>1, <2>2, <2>3 DEF Stream
<1>12. CASE Add
  <2>1. /\ mpc = "add" /\ mpc' = "idle" /\ len' = len + 1 /\ sending /\ ~Writing
        /\ UNCHANGED <<pc, wrote, lenRead, buf, sending, next, sent, ordered>>
    BY <1>4, <1>12 DEF Add, MasterKeeps, Stream, Putting
  <2>2. Waiting' = Waiting /\ ~Writing' /\ ~Putting'
    BY <2>1 DEF Waiting, Writing, Putting
  <2>3. len' <= Size /\ Waiting' <= Size
    BY <1>4, <2>1, <2>2 DEF Stream, Waiting
  <2>4. QED
    BY <1>4, <2>1, <2>2, <2>3 DEF Stream, Writing
<1>13. CASE CloseLink \/ ForgetLink \/ StopLink
  <2>1. /\ ~Putting /\ ~Putting' /\ mpc' \notin {"read", "add"}
        /\ UNCHANGED <<pc, wrote, lenRead, mLenRead, buf, len, sending, next, sent, ordered>>
    BY <1>13 DEF CloseLink, ForgetLink, StopLink, MasterKeeps, bufVars, Putting
  <2>2. QED
    BY <1>4, <2>1, StreamKept DEF Writing
<1>14. CASE Others \/ Break \/ Dies \/ UNCHANGED vars
  <2>1. UNCHANGED <<pc, mpc, wrote, lenRead, mLenRead, buf, len, sending, next, sent, ordered>>
    BY <1>14 DEF Others, Break, Dies, vars, bufVars
  <2>2. QED
    BY <1>4, <2>1, StreamKept DEF Writing, Putting
<1>15. QED
  BY <1>5, <1>6, <1>7, <1>8, <1>9, <1>10, <1>11, <1>12, <1>13, <1>14
  DEF Next, Thread, Master, Put, CopyDies, WriteDies

\* The bytes of ethernet_client_put leave in their order, each once, over any
\* number of connections, and the flag is set while any waits: until a put
\* meets a write or does not fit, or a write is partial or goes out on another
\* link's socket.  Without the semaphores nothing more can be said then.
THEOREM ClientSendsInOrder == Spec => []SentInOrder
<1>1. StreamUnlessSpoilt => SentInOrder
  <2> SUFFICES ASSUME StreamUnlessSpoilt, ~spoilt
               PROVE  /\ ordered
                      /\ ~Putting /\ ~Writing =>
                           /\ \A k \in 0..len - 1 : buf[k] = (sent + k) % Numbers
                           /\ next = (sent + len) % Numbers
                           /\ len > 0 => sending
    BY DEF SentInOrder
  <2>1. Stream
    BY DEF StreamUnlessSpoilt
  <2>2. ~Putting /\ ~Writing => Waiting = len
    BY DEF Waiting
  <2>3. QED
    BY <2>1, <2>2 DEF Stream
<1>2. TypeOK /\ Lengths /\ [Next]_vars => (TypeOK /\ Lengths)'
  BY ThreadStep, LengthStep, BytesStep DEF TypeOK, Lengths
<1>3. QED
  BY InitTyped, StreamInit, StreamStep, <1>1, <1>2, PTL DEF Spec

=============================================================================
