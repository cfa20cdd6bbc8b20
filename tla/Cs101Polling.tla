----------------------------- MODULE Cs101Polling -----------------------------
(***************************************************************************)
(* A 101 master and its stations on one line.                              *)
(***************************************************************************)
EXTENDS Cs101Station, Cs101Master

vars == <<line, station, master>>

Init == LineInit /\ StationInit /\ MasterInit

\* i owes no answer, and none is on its way.
Idle(i) ==
  /\ toStation[i] = <<>> /\ station[i].asked = {}
  /\ \A n \in DOMAIN toMaster : toMaster[n].from # i

\* An answer is faster than the master's time-outs: only what is not going to
\* be answered runs into one.
GivesUpWaiting == Idle(cur) /\ (Waits(cur) \/ link[cur].pack = {}) /\ StopWaiting
Timeout == (Idle(cur) /\ (Relink \/ Repeat)) \/ GivesUpWaiting

Next ==
  \/ (MasterStep \/ MasterDue \/ Timeout) /\ UNCHANGED station
  \/ \E i \in Stations : (StationStep(i) \/ Restart(i)) /\ UNCHANGED master
  \/ Lose /\ UNCHANGED <<station, master>>

Spec == Init /\ [][Next]_vars

\* The threads run, and a time that is looked at again and again expires: the
\* one that is awaited while a link is polled or a request repeated is another
\* for each link.
Fairness ==
  /\ WF_vars(MasterStep /\ UNCHANGED station)
  /\ \A i \in Stations : WF_vars(StationStep(i) /\ UNCHANGED master)
  /\ SF_vars(Idle(cur) /\ Relink /\ UNCHANGED station)
  /\ SF_vars(GivesUpWaiting /\ UNCHANGED station)
  /\ \A i \in Stations :
       SF_vars(cur = i /\ (PollDue \/ (Idle(i) /\ Repeat)) /\ UNCHANGED station)

FairSpec == Spec /\ Fairness

-----------------------------------------------------------------------------
TypeOK == LineTypeOK /\ StationTypeOK /\ MasterTypeOK

\* The frames of an interrogation reach the master without a gap and without
\* a repetition, whatever the line loses.
AnswersInOrder == \A i \in Stations : \A n \in DOMAIN heard[i] : heard[i][n] = n - 1

\* A station that owes nothing to a link that is up agrees on the last FCB.
FcbAgree ==
  \A i \in Stations :
    Up(i) /\ ~Waits(i) /\ station[i].first /\ Idle(i) => station[i].fcb = link[i].fcb

\* Two stations have something to say at a time only after one of the links
\* has been given up.
OneTalker ==
  \A i, j \in Stations : ~Idle(i) /\ ~Idle(j) /\ Up(i) /\ Up(j) => i = j

\* A station goes on announcing class 1 data that it no longer has.
Insists == \E i \in Stations : "stored" \in station[i].data1 /\ station[i].store1 = 0

\* Every link is visited again and again: no station keeps the master, but one
\* that insists.
EveryoneServed == (\A i \in Stations : []<>(cur = i)) \/ <>[]Insists

\* Each link comes up in the end and stays up, with the same exception.
LinksComeUp == (\A i \in Stations : <>[]Up(i)) \/ <>[]Insists

\* An interrogation asked for is answered to its end, or the link goes down,
\* with the same exception.
Complete(i) == Len(heard[i]) = Ended + 1
Asked(i) == Up(i) /\ link[i].known /\ "call" \in link[i].pack
Interrogated ==
  (\A i \in Stations : Asked(i) ~> Complete(i) \/ ~Up(i)) \/ <>[]Insists

=============================================================================
