--------------------------- MODULE ByteQueueProofs ---------------------------
(***************************************************************************)
(* For every size of the ring: its variables keep their types, and as long *)
(* as the writer is never Size bytes ahead of the reader and no read has   *)
(* raced with the wrap of In, bytes come out in order.                     *)
(***************************************************************************)
EXTENDS ByteQueue, TLAPS

\* The bytes not yet read lie in the ring from Out to In, in order: in one
\* piece, in two pieces, or there are none while In is still End.
OnePiece ==
  /\ Out <= In /\ In - Out = written - got
  /\ \A p \in Out..(In - 1) : buf[p] = got + 1 + (p - Out)

TwoPieces ==
  /\ In < Out /\ In + Size - Out = written - got
  /\ \A p \in Out..(Size - 1) : buf[p] = got + 1 + (p - Out)
  /\ \A p \in 0..(In - 1) : buf[p] = got + 1 + (p + Size - Out)

EmptyAtEnd == wpc = "moved" /\ In = Size /\ Out = 0 /\ written = got

Layout == OnePiece \/ TwoPieces \/ EmptyAtEnd

Counts ==
  /\ last = got /\ got <= written
  /\ written - got <= Backlog
  /\ (wpc = "stored" => written - got < Backlog)
  /\ (rpc = "found" => got < written)

\* The inductive strengthening of InOrder.
Ring ==
  /\ Counts
  /\ Layout
  /\ (wpc = "stored" => buf[In] = written + 1)

RingUnlessRaced == ~raced => Ring

-----------------------------------------------------------------------------
\* Every step of writer and reader keeps the types; In is End only between
\* the two stores of QueueWrite.
LEMMA TypeStep == TypeOK /\ [Next]_vars => TypeOK'
<1> SUFFICES ASSUME TypeOK, [Next]_vars PROVE TypeOK'
  OBVIOUS
<1> USE SizeAssumption DEF TypeOK
<1>1. CASE Store
  BY <1>1, SMT DEF Store
<1>2. CASE Advance
  BY <1>2, SMT DEF Advance
<1>3. CASE WrapIn
  BY <1>3, SMT DEF WrapIn
<1>4. CASE FindByte
  <2>1. raced' \in BOOLEAN
    BY <1>4, Zenon DEF FindByte
  <2>2. QED
    BY <1>4, <2>1, SMT DEF FindByte
<1>5. CASE TakeByte
  BY <1>5, SMT DEF TakeByte
<1>6. CASE UNCHANGED vars
  BY <1>6 DEF vars
<1>7. QED
  BY <1>1, <1>2, <1>3, <1>4, <1>5, <1>6 DEF Next, QueueWrite, QueueRead

\* Types hold in every reachable state, for every Size.
THEOREM QueueTypeCorrect == Spec => []TypeOK
<1>1. Init => TypeOK
  <2> SUFFICES ASSUME Init PROVE TypeOK
    OBVIOUS
  <2>1. buf \in [0..Size - 1 -> Nat]
    BY DEF Init
  <2>2. In = 0 /\ 0 \in 0..Size /\ 0 \in 0..Size - 1 /\ 0 < Size
    BY SizeAssumption DEF Init
  <2>3. QED
    BY <2>1, <2>2 DEF Init, TypeOK
<1>2. QED
  BY <1>1, TypeStep, PTL DEF Spec

-----------------------------------------------------------------------------
\* A byte is stored behind the unread ones, never over one of them.
LEMMA StoreKeeps ==
  ASSUME TypeOK, Backlog < Size, Ring, Store PROVE Ring'
<1> USE SizeAssumption DEF TypeOK, Ring, Store
<1>1. Counts'
  BY DEF Counts
<1>2. In < Size /\ wpc = "idle" /\ In \in 0..(Size - 1)
  OBVIOUS
<1>3. \A p \in 0..(Size - 1) : p # In => buf'[p] = buf[p]
  OBVIOUS
<1>4. buf'[In] = written + 1
  BY <1>2
<1>5. CASE OnePiece
  <2>1. OnePiece'
    BY <1>2, <1>3, <1>5 DEF OnePiece
  <2>2. QED
    BY <1>1, <1>4, <2>1 DEF Layout
<1>6. CASE TwoPieces
  <2>1. TwoPieces'
    BY <1>2, <1>3, <1>6 DEF TwoPieces
  <2>2. QED
    BY <1>1, <1>4, <2>1 DEF Layout
<1>7. QED
  BY <1>2, <1>5, <1>6 DEF Layout, EmptyAtEnd

\* Moving In makes the stored byte the last of the unread ones.
LEMMA AdvanceKeeps ==
  ASSUME TypeOK, Backlog < Size, Ring, Advance PROVE Ring'
<1> USE SizeAssumption DEF TypeOK, Ring, Advance
<1>1. Counts'
  BY DEF Counts
<1>2. wpc = "stored" /\ In < Size /\ buf[In] = written + 1 /\ written - got < Backlog
  BY DEF Counts
<1>3. CASE OnePiece
  <2>1. OnePiece'
    BY <1>2, <1>3 DEF OnePiece
  <2>2. QED
    BY <1>1, <2>1 DEF Layout
<1>4. CASE TwoPieces
  <2>1. TwoPieces'
    BY <1>2, <1>4 DEF TwoPieces
  <2>2. QED
    BY <1>1, <2>1 DEF Layout
<1>5. QED
  BY <1>2, <1>3, <1>4 DEF Layout, EmptyAtEnd

\* Wrapping In from End to Buf turns one piece into two, or the empty ring at
\* End into the empty ring at Buf.  A full ring would be taken for empty:
\* this is where Backlog < Size is needed.
LEMMA WrapKeeps ==
  ASSUME TypeOK, Backlog < Size, Ring, WrapIn PROVE Ring'
<1> USE SizeAssumption DEF TypeOK, Ring, WrapIn
<1>1. Counts'
  BY DEF Counts
<1>2. CASE In < Size
  BY <1>1, <1>2 DEF Layout, OnePiece, TwoPieces, EmptyAtEnd
<1>3. CASE In = Size /\ OnePiece
  <2>1. Out > 0
    BY <1>3 DEF OnePiece, Counts
  <2>2. In' = 0 /\ Out' = Out /\ buf' = buf /\ written' = written /\ got' = got
    BY <1>3
  <2>3. TwoPieces'
    BY <1>3, <2>1, <2>2 DEF OnePiece, TwoPieces
  <2>4. QED
    BY <1>1, <2>3 DEF Layout
<1>4. CASE EmptyAtEnd
  <2>1. OnePiece'
    BY <1>4 DEF EmptyAtEnd, OnePiece
  <2>2. QED
    BY <1>1, <2>1 DEF Layout
<1>5. QED
  BY <1>2, <1>3, <1>4 DEF Layout, TwoPieces

\* A read begun while the ring is not empty finds an unread byte.
LEMMA FindKeeps ==
  ASSUME TypeOK, Backlog < Size, Ring, FindByte, ~raced' PROVE Ring'
<1> USE SizeAssumption DEF TypeOK, Ring, FindByte
<1>1. got < written
  <2>1. ~(In = Size /\ got = written)
    OBVIOUS
  <2>2. QED
    BY <2>1 DEF Layout, OnePiece, TwoPieces, EmptyAtEnd
<1>2. Counts'
  BY <1>1 DEF Counts
<1>3. Layout'
  BY DEF Layout, OnePiece, TwoPieces, EmptyAtEnd
<1>4. QED
  BY <1>2, <1>3

\* The byte at Out is the oldest unread one.
LEMMA TakeKeeps ==
  ASSUME TypeOK, Backlog < Size, Ring, TakeByte PROVE Ring'
<1> USE SizeAssumption DEF TypeOK, Ring, TakeByte
<1>1. rpc = "found" /\ got < written
  BY DEF Counts
<1>2. buf[Out] = got + 1
  BY <1>1 DEF Layout, OnePiece, TwoPieces, EmptyAtEnd
<1>3. Counts'
  BY <1>1, <1>2 DEF Counts
<1>4. Layout'
  <2>1. CASE OnePiece /\ Out + 1 < Size
    <3>1. OnePiece'
      BY <1>1, <2>1 DEF OnePiece
    <3>2. QED
      BY <3>1 DEF Layout
  <2>2. CASE OnePiece /\ Out + 1 >= Size
    <3>1. EmptyAtEnd'
      BY <1>1, <2>2 DEF OnePiece, EmptyAtEnd
    <3>2. QED
      BY <3>1 DEF Layout
  <2>3. CASE TwoPieces /\ Out + 1 < Size
    <3>1. TwoPieces'
      BY <1>1, <2>3 DEF TwoPieces
    <3>2. QED
      BY <3>1 DEF Layout
  <2>4. CASE TwoPieces /\ Out + 1 >= Size
    <3>1. Out = Size - 1 /\ Out' = 0 /\ In' = In /\ got' = got + 1
          /\ buf' = buf /\ written' = written
      BY <2>4
    <3>2. In = written - got - 1 /\ Out' <= In'
      BY <2>4, <3>1 DEF TwoPieces
    <3>3. \A p \in 0..(In - 1) : buf[p] = got + 1 + (p + Size - Out)
      BY <2>4 DEF TwoPieces
    <3>4. \A p \in 0..(In - 1) : buf[p] = got' + 1 + (p - 0)
      BY <3>1, <3>3
    <3>5. OnePiece'
      BY <3>1, <3>2, <3>4 DEF OnePiece
    <3>6. QED
      BY <3>5 DEF Layout
  <2>5. QED
    BY <1>1, <2>1, <2>2, <2>3, <2>4 DEF Layout, EmptyAtEnd
<1>5. QED
  BY <1>3, <1>4

\* Bytes come out in order for every ring, provided the writer stays less
\* than Size bytes ahead (TCP flow against one fetch of 256 bytes per pass)
\* and no read meets In at End with the ring empty.
THEOREM QueueOrder == ASSUME Backlog < Size PROVE Spec => []InOrder
<1>1. Init => RingUnlessRaced
  BY SizeAssumption DEF Init, RingUnlessRaced, Ring, Counts, Layout, OnePiece
<1>2. TypeOK /\ RingUnlessRaced /\ [Next]_vars => RingUnlessRaced'
  <2> SUFFICES ASSUME TypeOK, RingUnlessRaced, [Next]_vars, ~raced'
               PROVE Ring'
    BY DEF RingUnlessRaced
  <2>1. ~raced /\ Ring
    <3>1. raced => raced'
      BY DEF Next, QueueWrite, QueueRead, Store, Advance, WrapIn, FindByte, TakeByte, vars
    <3>2. QED
      BY <3>1 DEF RingUnlessRaced
  <2>2. CASE UNCHANGED vars
    BY <2>1, <2>2 DEF vars, Ring, Counts, Layout, OnePiece, TwoPieces, EmptyAtEnd
  <2>3. QED
    BY <2>1, <2>2, StoreKeeps, AdvanceKeeps, WrapKeeps, FindKeeps, TakeKeeps
       DEF Next, QueueWrite, QueueRead
<1>3. RingUnlessRaced => InOrder
  BY DEF RingUnlessRaced, Ring, Counts, InOrder
<1>4. QED
  BY <1>1, <1>2, <1>3, QueueTypeCorrect, PTL DEF Spec

=============================================================================
