------------------------------ MODULE ByteQueue ------------------------------
(***************************************************************************)
(* The ring of bytes between the TCP client thread, which writes what it   *)
(* has received (QueueWriteBlock), and the master thread, which reads it   *)
(* byte by byte in its pass (ethernet_client_get, QueueRead):              *)
(* queue/queue.c, one writer, one reader, no lock.                         *)
(*                                                                         *)
(* Pointers are indices into Buf, so End is Size.  A byte is the number it *)
(* was written as: the first byte is 1; 0 is what memset left in the ring. *)
(* A step is one access to memory the other thread accesses too.           *)
(***************************************************************************)
EXTENDS Integers

CONSTANTS
  Size,    \* SizeOfBuf, CLIENT_2404_RX_BUFSIZE (3584)
  Backlog, \* the most bytes ever written and not yet read
  Total    \* bound: bytes written, and bytes read, altogether

ASSUME SizeAssumption == Size \in Nat \ {0} /\ Backlog \in Nat /\ Total \in Nat

VARIABLES
  In, Out, buf, \* the DataQueue
  wpc, rpc,     \* where the two threads are
  written,      \* history: bytes QueueWrite has entered
  got, last,    \* history: bytes QueueRead has returned, and the last of them
  raced         \* history: a read was begun while In was End and the ring empty

vars == <<In, Out, buf, wpc, rpc, written, got, last, raced>>

\* QueueCreate, and the memset of the client thread.
Init ==
  /\ In = 0 /\ Out = 0
  /\ buf = [i \in 0..Size - 1 |-> 0]
  /\ wpc = "idle" /\ rpc = "idle"
  /\ written = 0 /\ got = 0 /\ last = 0
  /\ raced = FALSE

-----------------------------------------------------------------------------
(* QueueWrite.  The test for a full queue is commented out.                *)

\* In[0] = Data
Store ==
  /\ wpc = "idle"
  /\ written - got < Backlog /\ written < Total
  /\ buf' = [buf EXCEPT ![In] = written + 1]
  /\ wpc' = "stored"
  /\ UNCHANGED <<In, Out, rpc, written, got, last, raced>>

\* In++: both builds store it before the test against End.
Advance ==
  /\ wpc = "stored"
  /\ In' = In + 1
  /\ written' = written + 1
  /\ wpc' = "moved"
  /\ UNCHANGED <<Out, buf, rpc, got, last, raced>>

\* Mutated: the ring is taken for one byte longer.
WrapIn_OneLate ==
  /\ wpc = "moved"
  /\ In' = IF In > Size THEN 0 ELSE In
  /\ wpc' = "idle"
  /\ UNCHANGED <<Out, buf, rpc, written, got, last, raced>>

WrapIn ==
  /\ wpc = "moved"
  /\ In' = IF In >= Size THEN 0 ELSE In
  /\ wpc' = "idle"
  /\ UNCHANGED <<Out, buf, rpc, written, got, last, raced>>

QueueWrite == Store \/ Advance \/ WrapIn

-----------------------------------------------------------------------------
(* QueueRead.  Out is the reader's own.                                    *)

\* Mutated: no test for an empty queue.
FindByte_Untested ==
  /\ rpc = "idle" /\ got < Total
  /\ rpc' = "found"
  /\ raced' = (raced \/ (In = Size /\ got = written))
  /\ UNCHANGED <<In, Out, buf, wpc, written, got, last>>

\* Out != In.  QUEUE_EMPTY changes nothing.
FindByte ==
  /\ rpc = "idle" /\ got < Total
  /\ Out # In
  /\ rpc' = "found"
  /\ raced' = (raced \/ (In = Size /\ got = written))
  /\ UNCHANGED <<In, Out, buf, wpc, written, got, last>>

TakeByte ==
  /\ rpc = "found"
  /\ last' = buf[Out]
  /\ got' = got + 1
  /\ Out' = IF Out + 1 >= Size THEN 0 ELSE Out + 1
  /\ rpc' = "idle"
  /\ UNCHANGED <<In, buf, wpc, written, raced>>

QueueRead == FindByte \/ TakeByte

Next == QueueWrite \/ QueueRead

Spec == Init /\ [][Next]_vars

-----------------------------------------------------------------------------
TypeOK ==
  /\ In \in 0..Size /\ Out \in 0..Size - 1
  /\ (wpc # "moved" => In < Size)
  /\ buf \in [0..Size - 1 -> Nat]
  /\ wpc \in {"idle", "stored", "moved"} /\ rpc \in {"idle", "found"}
  /\ written \in Nat /\ got \in Nat /\ last \in Nat
  /\ raced \in BOOLEAN

\* Bytes come out in the order they went in, each once, none invented
\* ("FIFO mode", queue.c:208), until a read races with the wrap of In.
InOrder == ~raced => last = got /\ got <= written

=============================================================================
