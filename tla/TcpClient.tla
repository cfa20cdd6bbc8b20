------------------------------ MODULE TcpClient ------------------------------
(***************************************************************************)
(* One link of the TCP client (tcp_socket/client.c) at the grain at which  *)
(* its two threads meet: the client thread, which opens the socket, writes *)
(* what the transmit buffer holds and closes the socket when it fails, and *)
(* the thread of the 104 master, which puts bytes into the buffer and may  *)
(* close the link.  The semaphores around the buffer are commented out, so *)
(* every access to a shared variable is a step; a call with its arguments  *)
(* is one step, and a local variable is 0 when it is no longer used.       *)
(* Any free descriptor may be handed out, to this link and to others.      *)
(*                                                                         *)
(* The bytes put are numbered, modulo Numbers, and followed until they are *)
(* spoilt.  Nothing asks whether a put still fits: it may go past the end  *)
(* of the buffer, which ends the process or spoils the bytes; what lies    *)
(* behind the buffer is not modelled.  Nor is what is read (see            *)
(* ByteQueue).                                                             *)
(***************************************************************************)
EXTENDS Integers

CONSTANTS
  Fds,       \* descriptors the process may have open
  Size,      \* CLIENT_2404_TX_BUFSIZE
  MaxLen,    \* bound: a put that finds so much waiting, past the end, ends the process
  MaxCloses, \* bound: calls of setClientCloseLink
  MaxBreaks  \* bound: connections that the station or the network ends

ASSUME Assumption ==
  Fds \subseteq Nat
  /\ Size \in Nat \ {0} /\ MaxLen \in Nat /\ MaxCloses \in Nat /\ MaxBreaks \in Nat

VARIABLES
  sock,    \* client_sock
  running,
  owner,   \* of each descriptor: "free", "link", "other"
  broken,  \* descriptors of this link whose connection has ended
  pc,      \* of the client thread
  buf,     \* s_ethernet_client_tx_buf
  len,     \* s_ethernet_client_len
  sending, \* CLIENT_SENDING of s_ethernet_client_flag
  wrote,   \* err: what write() returned
  lenRead, \* the client thread's copy of len
  mpc,     \* of the thread of the 104 master
  mLenRead,
  next,    \* number of the next byte to put
  closes, breaks,
  dead,    \* the process has ended
  sent,    \* history: number of the next byte to be sent in order
  ordered, \* history: all bytes went out in order, each once
  spoilt,  \* history: a put has met a write or gone past the end, or a write
           \* was partial or went out on the socket of another link
  crossed, \* history: setClientCloseLink has met another closing or socket()
  robbed   \* history: a descriptor of another link has been closed

sockVars == <<sock, running, owner, broken>>
bufVars == <<buf, len, sending, next, sent, ordered, spoilt>>
faultVars == <<closes, breaks>>
closeVars == <<crossed, robbed>>
vars == <<sockVars, pc, wrote, lenRead, mpc, mLenRead, bufVars, faultVars, dead, closeVars>>

None == -1
Numbers == 2 * Size
Succ(n) == (n + 1) % Numbers

Blank == [n \in 0..Size - 1 |-> 0]

Init ==
  /\ sock = None /\ running = FALSE /\ broken = {}
  /\ owner = [f \in Fds |-> "free"]
  /\ pc = "socket" /\ wrote = 0 /\ lenRead = 0
  /\ buf = Blank /\ len = 0 /\ sending = FALSE
  /\ mpc = "idle" /\ mLenRead = 0 /\ next = 0
  /\ closes = 0 /\ breaks = 0 /\ dead = FALSE
  /\ sent = 0 /\ ordered = TRUE
  /\ spoilt = FALSE /\ crossed = FALSE /\ robbed = FALSE

\* What is known of the bytes, unless this step or an earlier one spoils it.
Follow(b, n, s, inOrder, spoils) ==
  IF spoilt \/ spoils
  THEN buf' = Blank /\ next' = 0 /\ sent' = 0 /\ spoilt' = TRUE /\ UNCHANGED ordered
  ELSE buf' = b /\ next' = n /\ sent' = s /\ ordered' = inOrder /\ UNCHANGED spoilt

Free == {f \in Fds : owner[f] = "free"}

Alive == sock # None /\ owner[sock] = "link" /\ sock \notin broken

\* Closed by the other thread, and the number handed out again.
OnOther == sock # None /\ owner[sock] = "other"

\* close(client_sock)
Close ==
  IF sock = None THEN UNCHANGED <<owner, broken, robbed>>
  ELSE /\ owner' = [owner EXCEPT ![sock] = "free"]
       /\ broken' = broken \ {sock}
       /\ robbed' = (robbed \/ owner[sock] = "other")

-----------------------------------------------------------------------------
(* The client thread: thread_client.                                       *)

ThreadKeeps == UNCHANGED <<mpc, mLenRead, faultVars, dead>>

OpenSocket ==
  /\ pc = "socket"
  /\ \/ \E f \in Free : sock' = f /\ owner' = [owner EXCEPT ![f] = "link"]
     \/ Free = {} /\ sock' = None /\ UNCHANGED owner
  /\ crossed' = (crossed \/ mpc \in {"forget", "stop"})
  /\ pc' = "connect"
  /\ ThreadKeeps /\ UNCHANGED <<running, broken, robbed, wrote, lenRead, bufVars>>

Connect ==
  /\ pc = "connect" /\ (Alive \/ OnOther)
  /\ pc' = "connected"
  /\ ThreadKeeps /\ UNCHANGED <<sockVars, wrote, lenRead, bufVars, closeVars>>

ConnectFails ==
  /\ pc = "connect"
  /\ pc' = "close"
  /\ ThreadKeeps /\ UNCHANGED <<sockVars, wrote, lenRead, bufVars, closeVars>>

SetRunning ==
  /\ pc = "connected"
  /\ running' = TRUE /\ pc' = "loop"
  /\ ThreadKeeps /\ UNCHANGED <<sock, owner, broken, wrote, lenRead, bufVars, closeVars>>

\* The link has been closed by the master: the socket is closed once more.
LeaveLoop ==
  /\ pc = "loop" /\ ~running
  /\ Close /\ crossed' = (crossed \/ mpc = "forget")
  /\ pc' = "socket"
  /\ ThreadKeeps /\ UNCHANGED <<sock, running, wrote, lenRead, bufVars>>

\* select() finds nothing to read within its time; so it does without a socket.
SelectTimesOut ==
  /\ pc = "loop" /\ running /\ (Alive \/ OnOther \/ sock = None)
  /\ pc' = IF sending THEN "write" ELSE "loop"
  /\ ThreadKeeps /\ UNCHANGED <<sockVars, wrote, lenRead, bufVars, closeVars>>

\* select() or the read() after it fails.
SelectFails ==
  /\ pc = "loop" /\ running /\ sock # None /\ ~Alive
  /\ pc' = "close"
  /\ ThreadKeeps /\ UNCHANGED <<sockVars, wrote, lenRead, bufVars, closeVars>>

Putting == mpc \in {"flag", "read", "add"}

\* write(), which may take a part.
WriteTakes(n) ==
  /\ pc = "write" /\ sock # None /\ owner[sock] # "free" /\ n \in 0..len /\ (n = 0 => len = 0)
  /\ wrote' = n
  /\ Follow(buf, next, (sent + n) % Numbers,
            ordered /\ \A k \in 0..n - 1 : buf[k] = (sent + k) % Numbers,
            Putting \/ n < len \/ OnOther)
  /\ pc' = IF n = 0 THEN "clear" ELSE "readLen"
  /\ ThreadKeeps /\ UNCHANGED <<sockVars, lenRead, len, sending, closeVars>>

\* Mutated: a failed write is tried again.
WriteFails_Retries ==
  /\ pc = "write" /\ ~Alive
  /\ pc' = "loop"
  /\ ThreadKeeps /\ UNCHANGED <<sockVars, wrote, lenRead, bufVars, closeVars>>

\* Mutated: what waits is thrown away.
WriteFails_Drops ==
  /\ pc = "write" /\ ~Alive
  /\ pc' = "close" /\ len' = 0
  /\ ThreadKeeps
  /\ UNCHANGED <<sockVars, wrote, lenRead, buf, sending, next, sent, ordered, spoilt, closeVars>>

WriteFails ==
  /\ pc = "write" /\ ~Alive
  /\ pc' = "close"
  /\ ThreadKeeps /\ UNCHANGED <<sockVars, wrote, lenRead, bufVars, closeVars>>

\* len -= err, a load and a store.
ReadLen ==
  /\ pc = "readLen"
  /\ lenRead' = len /\ pc' = "subtract"
  /\ ThreadKeeps /\ UNCHANGED <<sockVars, wrote, bufVars, closeVars>>

Subtract ==
  /\ pc = "subtract"
  /\ len' = lenRead - wrote /\ wrote' = 0 /\ lenRead' = 0 /\ pc' = "clear"
  /\ ThreadKeeps
  /\ UNCHANGED <<sockVars, buf, sending, next, sent, ordered, spoilt, closeVars>>

\* The length is looked at, and then the flag cleared.
TestLen ==
  /\ pc = "clear"
  /\ pc' = IF len = 0 THEN "clearFlag" ELSE "loop"
  /\ ThreadKeeps /\ UNCHANGED <<sockVars, wrote, lenRead, bufVars, closeVars>>

ClearFlag ==
  /\ pc = "clearFlag"
  /\ sending' = FALSE /\ pc' = "loop"
  /\ ThreadKeeps
  /\ UNCHANGED <<sockVars, wrote, lenRead, buf, len, next, sent, ordered, spoilt, closeVars>>

CloseOwn ==
  /\ pc = "close"
  /\ Close /\ crossed' = (crossed \/ mpc = "forget")
  /\ pc' = "forget"
  /\ ThreadKeeps /\ UNCHANGED <<sock, running, wrote, lenRead, bufVars>>

Forget ==
  /\ pc = "forget"
  /\ sock' = None /\ running' = FALSE /\ pc' = "socket"
  /\ ThreadKeeps /\ UNCHANGED <<owner, broken, wrote, lenRead, bufVars, closeVars>>

Thread ==
  /\ ~dead
  /\ \/ OpenSocket \/ Connect \/ ConnectFails \/ SetRunning \/ LeaveLoop
     \/ SelectTimesOut \/ SelectFails \/ (\E n \in 0..len : WriteTakes(n)) \/ WriteFails
     \/ ReadLen \/ Subtract \/ TestLen \/ ClearFlag \/ CloseOwn \/ Forget

-----------------------------------------------------------------------------
(* The thread of the 104 master.                                           *)

MasterKeeps == UNCHANGED <<pc, wrote, lenRead, breaks, dead>>
Writing == pc \in {"readLen", "subtract", "clear", "clearFlag"}

\* ethernet_client_put: copy, set the flag, add to the length.  Only the put
\* itself is asked for its length, not how much waits already.
Copy ==
  /\ mpc = "idle" /\ len < MaxLen
  /\ Follow([buf EXCEPT ![len] = next], Succ(next), sent, ordered, Writing \/ len >= Size)
  /\ mpc' = "flag"
  /\ MasterKeeps /\ UNCHANGED <<sockVars, len, sending, mLenRead, closes, closeVars>>

SetFlag ==
  /\ mpc = "flag"
  /\ sending' = TRUE /\ mpc' = "read"
  /\ MasterKeeps
  /\ UNCHANGED <<sockVars, buf, len, next, sent, ordered, spoilt, mLenRead, closes, closeVars>>

ReadLenToAdd ==
  /\ mpc = "read"
  /\ mLenRead' = len /\ mpc' = "add"
  /\ MasterKeeps /\ UNCHANGED <<sockVars, bufVars, closes, closeVars>>

Add ==
  /\ mpc = "add"
  /\ len' = mLenRead + 1 /\ mLenRead' = 0 /\ mpc' = "idle"
  /\ MasterKeeps
  /\ UNCHANGED <<sockVars, buf, sending, next, sent, ordered, spoilt, closes, closeVars>>

\* setClientCloseLink.
CloseLink ==
  /\ mpc = "idle" /\ closes < MaxCloses
  /\ closes' = closes + 1
  /\ Close /\ crossed' = (crossed \/ pc = "forget")
  /\ mpc' = "forget"
  /\ MasterKeeps /\ UNCHANGED <<sock, running, bufVars, mLenRead>>

\* Mutated: the descriptor is kept.
ForgetLink_KeepsSocket ==
  /\ mpc = "forget"
  /\ mpc' = "stop"
  /\ MasterKeeps /\ UNCHANGED <<sockVars, bufVars, mLenRead, closes, closeVars>>

ForgetLink ==
  /\ mpc = "forget"
  /\ sock' = None /\ mpc' = "stop"
  /\ MasterKeeps /\ UNCHANGED <<running, owner, broken, bufVars, mLenRead, closes, closeVars>>

\* Mutated: the buffer is emptied with the link.
StopLink_EmptiesBuffer ==
  /\ mpc = "stop"
  /\ running' = FALSE /\ len' = 0 /\ mpc' = "idle"
  /\ MasterKeeps
  /\ UNCHANGED <<sock, owner, broken, buf, sending, next, sent, ordered, spoilt, mLenRead,
                 closes, closeVars>>

StopLink ==
  /\ mpc = "stop"
  /\ running' = FALSE /\ mpc' = "idle"
  /\ MasterKeeps /\ UNCHANGED <<sock, owner, broken, bufVars, mLenRead, closes, closeVars>>

Put == Copy \/ SetFlag \/ ReadLenToAdd \/ Add
Master == ~dead /\ (Put \/ CloseLink \/ ForgetLink \/ StopLink)

-----------------------------------------------------------------------------
(* The end of the process.                                                 *)

Dies ==
  /\ ~dead /\ dead' = TRUE
  /\ UNCHANGED <<sockVars, pc, wrote, lenRead, mpc, mLenRead, bufVars, faultVars, closeVars>>

\* The copy goes past the end of the buffer.
CopyDies == mpc = "idle" /\ len >= Size /\ Dies

\* The station has reset the connection, and nobody handles SIGPIPE.
WriteDies == pc = "write" /\ sock \in broken /\ Dies

-----------------------------------------------------------------------------
(* External: the other links of the process, and the network.              *)

OthersOpen ==
  /\ \A f \in Fds : owner[f] # "other"
  /\ \E f \in Free : owner' = [owner EXCEPT ![f] = "other"]
  /\ UNCHANGED <<sock, running, broken>>

OthersClose ==
  /\ \E f \in Fds : owner[f] = "other" /\ owner' = [owner EXCEPT ![f] = "free"]
  /\ UNCHANGED <<sock, running, broken>>

Break ==
  /\ ~dead /\ pc # "connect" /\ Alive /\ breaks < MaxBreaks
  /\ broken' = broken \cup {sock} /\ breaks' = breaks + 1
  /\ UNCHANGED <<sock, running, owner, pc, wrote, lenRead, mpc, mLenRead, bufVars, closes,
                 dead, closeVars>>

Others ==
  /\ ~dead /\ (OthersOpen \/ OthersClose)
  /\ UNCHANGED <<pc, wrote, lenRead, mpc, mLenRead, bufVars, faultVars, dead, closeVars>>

Next == Thread \/ Master \/ Others \/ Break \/ CopyDies \/ WriteDies \/ (dead /\ UNCHANGED vars)

Spec == Init /\ [][Next]_vars

\* Both threads run, an attempt to connect succeeds now and then, and a master
\* that takes the link for connected puts something again when nothing is
\* marked for sending: STARTDT or test frames.
Fairness ==
  /\ WF_vars(Thread) /\ SF_vars(~dead /\ Alive /\ Connect)
  /\ WF_vars(mpc # "idle" /\ Master)
  /\ SF_vars(~dead /\ running /\ ~sending /\ (Copy \/ CopyDies))

FairSpec == Spec /\ Fairness

-----------------------------------------------------------------------------
ThreadTyped ==
  /\ pc \in {"socket", "connect", "connected", "loop", "write", "readLen", "subtract",
             "clear", "clearFlag", "close", "forget"}
  /\ mpc \in {"idle", "flag", "read", "add", "forget", "stop"}
  /\ sock \in Fds \cup {None} /\ running \in BOOLEAN
  /\ owner \in [Fds -> {"free", "link", "other"}] /\ broken \subseteq Fds
  /\ closes \in 0..MaxCloses /\ breaks \in 0..MaxBreaks
  /\ dead \in BOOLEAN /\ crossed \in BOOLEAN /\ robbed \in BOOLEAN

\* A length below 0 would be one of some 65000, which write() would be given.
LengthsTyped ==
  /\ len \in Nat /\ wrote \in Nat /\ lenRead \in Nat /\ mLenRead \in Nat

BytesTyped ==
  /\ buf \in [0..Size - 1 -> 0..Numbers - 1] /\ sending \in BOOLEAN
  /\ next \in 0..Numbers - 1 /\ sent \in 0..Numbers - 1
  /\ ordered \in BOOLEAN /\ spoilt \in BOOLEAN

\* The length is counted up and down by two threads without a lock and never
\* falls below 0; all else is of its type.
TypeOK == ThreadTyped /\ LengthsTyped /\ BytesTyped

\* Bytes leave in the order in which they were put, each once, over any number
\* of connections, and none is forgotten in the buffer, as long as puts fit and
\* meet no write, and writes are whole and go to this link's own socket.
SentInOrder ==
  /\ ~spoilt => ordered
  /\ ~spoilt /\ ~Putting /\ ~Writing =>
       /\ \A k \in 0..len - 1 : buf[k] = (sent + k) % Numbers
       /\ next = (sent + len) % Numbers
       /\ len > 0 => sending

\* As long as setClientCloseLink meets neither a closing nor an opening of the
\* client thread, no descriptor of another link is closed and none of this
\* link is lost.
OwnSocketOnly ==
  ~crossed => ~robbed /\ \A f \in Fds : owner[f] = "link" => f = sock

\* Descriptors of this link that nothing refers to any more; all, but at most one.
Leaked == {f \in Fds : owner[f] = "link" /\ f # sock}
Exhausted == \E f \in Fds : Fds \ {f} \subseteq Leaked

\* However closings cross, and even when the thread runs on without a socket or
\* on that of another link, the link is connected again, unless the process ends
\* or crossings have used up the descriptors.
Reconnects == []<>((running /\ Alive) \/ dead \/ Exhausted)

=============================================================================
