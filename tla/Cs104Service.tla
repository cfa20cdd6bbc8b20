---------------------------- MODULE Cs104Service ----------------------------
(***************************************************************************)
(* What a started IEC 60870-5-104 link promises to the two applications:   *)
(* in each direction the I frames of one connection arrive in the order of *)
(* their numbers, each once, and a sender is told of an acknowledgement    *)
(* only for what the receiver has got.  Closing the connection forgets     *)
(* everything.  CS104_MASTER_LINKINFO keeps one side of this state.        *)
(***************************************************************************)
EXTENDS Integers

VARIABLES
  up,    \* the connection is open
  sent,  \* sent[d]: I frames numbered by side d
  got,   \* got[d]: how many of them the other side has counted
  acked  \* acked[d]: how many of them d knows the other side has

vars == <<up, sent, got, acked>>

Sides == {"master", "station"}
Other(d) == IF d = "master" THEN "station" ELSE "master"
Zero == [d \in Sides |-> 0]

Closed == sent = Zero /\ got = Zero /\ acked = Zero

Init == ~up /\ Closed

Open ==
  /\ ~up /\ up'
  /\ UNCHANGED <<sent, got, acked>>

Send(d) ==
  /\ up
  /\ sent' = [sent EXCEPT ![d] = @ + 1]
  /\ UNCHANGED <<up, got, acked>>

\* d learns that the other side has n of its frames.
Learns(d, n) ==
  /\ n \in acked[d]..got[d]
  /\ acked' = [acked EXCEPT ![d] = n]

\* A frame of d arrives and tells the other side what d has got from it.
Deliver(d) ==
  /\ up /\ got[d] < sent[d]
  /\ got' = [got EXCEPT ![d] = @ + 1]
  /\ \E n \in 0..got[Other(d)] : Learns(Other(d), n)
  /\ UNCHANGED <<up, sent>>

Acknowledge(d) ==
  /\ up
  /\ \E n \in 0..got[d] : Learns(d, n)
  /\ UNCHANGED <<up, sent, got>>

Close ==
  /\ up /\ ~up'
  /\ sent' = Zero /\ got' = Zero /\ acked' = Zero

Next == Open \/ Close \/ \E d \in Sides : Send(d) \/ Deliver(d) \/ Acknowledge(d)

Spec == Init /\ [][Next]_vars

\* Nobody believes more acknowledged than was received, nor receives more
\* than was sent: the order of the counters of a 104 link.
CountersOrdered == \A d \in Sides : acked[d] <= got[d] /\ got[d] <= sent[d]

=============================================================================
