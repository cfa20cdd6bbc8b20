---------------------------- MODULE MCCs104Master ---------------------------
(***************************************************************************)
(* Model checking of Cs104Master: what comments of the code say of the     *)
(* link, stated as they say it.  The code does otherwise; each is checked  *)
(* by a run that expects the violation.                                    *)
(***************************************************************************)
EXTENDS Cs104Master

\* "When a test confirmation is received, t1 is to be cleared; at that time
\* t1 times the test only" (DecodeUFrame, cs104MasterApp.c:516): when one frame
\* is counted as unacknowledged, which the confirmation takes off the count, it
\* is the test frame, and no I frame is on its way to the station.
TestConfirmAlone ==
  /\ OnCleanLink /\ pc = "read" /\ peerNoAckNum = 1
  /\ \E d \in Decodable : d[1].k = "TESTFR_CON"
  => IFrames(txBuf) + IFrames(toPeer) = 0

=============================================================================
