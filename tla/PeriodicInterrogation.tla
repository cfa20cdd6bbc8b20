------------------------ MODULE PeriodicInterrogation ------------------------
(***************************************************************************)
(* The periodic general interrogation of the 104 masters: the end of       *)
(* CS104_MASTER_LinkOnTimer (master104/cs104MasterApp.c), run by one       *)
(* thread per device.  When to start timing is remembered in               *)
(* sendI_InitFlg, a static of the function and so shared by the threads,   *)
(* while the start time itself belongs to the device.                      *)
(*                                                                         *)
(* Every thread makes one pass per tick of 20 ms, in any order.  The link  *)
(* of a device is "down", "connected" (TCP only: STARTDT is not confirmed) *)
(* or "started"; how it changes is Cs104Master's subject and external      *)
(* here.                                                                   *)
(***************************************************************************)
EXTENDS Integers

CONSTANTS
  Devices, \* one master thread each
  Period   \* sendIClock[ALLDATA] in ticks

ASSUME PeriodAssumption == Period \in Nat \ {0}

VARIABLES
  link,          \* "down", "connected" or "started"
  offered,       \* STARTDT act has been sent on this link
  firstInit,     \* CS104MasterApp.FirstInit
  allData,       \* the ALLDATA bit of sendDateType
  sendI_InitFlg, \* static, shared by the threads
  age,           \* ticks since timeBeginSendI[ALLDATA], Period for "at least Period"
  stage,         \* where the thread is in its pass
  since,         \* history: ticks since the link's own requests or the last periodic one
  meddled        \* history: another thread has been in StartTiming since d's STARTDT act

vars == <<link, offered, firstInit, allData, sendI_InitFlg, age, stage, since, meddled>>

\* timeBeginSendI is 0 in memory: the epoch.
Init ==
  /\ link = [d \in Devices |-> "down"]
  /\ offered = [d \in Devices |-> FALSE]
  /\ firstInit = [d \in Devices |-> 0]
  /\ allData = [d \in Devices |-> FALSE]
  /\ sendI_InitFlg = FALSE
  /\ age = [d \in Devices |-> Period]
  /\ stage = [d \in Devices |-> "read"]
  /\ since = [d \in Devices |-> 0]
  /\ meddled = [d \in Devices |-> FALSE]

\* CS104_MASTER_NetTest and what the read half of the pass finds.  A lost
\* link is reset (AppInitReset), which leaves timeBeginSendI alone.
LinkChanges(d) ==
  /\ stage[d] = "read"
  /\ \/ link[d] = "down" /\ link' = [link EXCEPT ![d] = "connected"]
     \/ link[d] = "connected" /\ offered[d] /\ link' = [link EXCEPT ![d] = "started"]
     \/ link[d] # "down" /\ link' = [link EXCEPT ![d] = "down"]
  /\ offered' = [offered EXCEPT ![d] = @ /\ link'[d] # "down"]
  /\ firstInit' = [firstInit EXCEPT ![d] = IF link'[d] = "down" THEN 0 ELSE @]
  /\ allData' = [allData EXCEPT ![d] = @ /\ link'[d] # "down"]
  /\ UNCHANGED <<sendI_InitFlg, age, stage, since, meddled>>

\* CS104_Master_Clock without a connection.
Unconnected(d) ==
  /\ stage[d] = "read" /\ link[d] = "down"
  /\ stage' = [stage EXCEPT ![d] = "asleep"]
  /\ UNCHANGED <<link, offered, firstInit, allData, sendI_InitFlg, age, since, meddled>>

\* SendProcess has sent what was asked for.  LinkOnTimer before STARTDT con.
\* Mutated: the flag keeps its value.
NotStarted_KeepsFlag(d) ==
  /\ stage[d] = "read" /\ link[d] = "connected"
  /\ offered' = [offered EXCEPT ![d] = TRUE]
  /\ allData' = [allData EXCEPT ![d] = FALSE]
  /\ stage' = [stage EXCEPT ![d] = "asleep"]
  /\ meddled' = [meddled EXCEPT ![d] = FALSE]
  /\ UNCHANGED <<link, firstInit, sendI_InitFlg, age, since>>

NotStarted(d) ==
  /\ stage[d] = "read" /\ link[d] = "connected"
  /\ offered' = [offered EXCEPT ![d] = TRUE]
  /\ allData' = [allData EXCEPT ![d] = FALSE]
  /\ sendI_InitFlg' = FALSE
  /\ stage' = [stage EXCEPT ![d] = "asleep"]
  /\ meddled' = [meddled EXCEPT ![d] = FALSE]
  /\ UNCHANGED <<link, firstInit, age, since>>

\* The two requests that follow the start of the link: clock, then all data.
FirstRequests(d) ==
  /\ stage[d] = "read" /\ link[d] = "started" /\ firstInit[d] < 2
  /\ allData' = [allData EXCEPT ![d] = firstInit[d] = 1]
  /\ firstInit' = [firstInit EXCEPT ![d] = @ + 1]
  /\ since' = [since EXCEPT ![d] = 0]
  /\ stage' = [stage EXCEPT ![d] = "asleep"]
  /\ UNCHANGED <<link, offered, sendI_InitFlg, age, meddled>>

\* Mutated: the flag is not set, so timing starts again in every pass.
StartTiming_FlagNotSet(d) ==
  /\ stage[d] = "read" /\ link[d] = "started" /\ firstInit[d] = 2
  /\ age' = [age EXCEPT ![d] = IF sendI_InitFlg THEN @ ELSE 0]
  /\ allData' = [allData EXCEPT ![d] = FALSE]
  /\ stage' = [stage EXCEPT ![d] = "request"]
  /\ meddled' = [e \in Devices |-> meddled[e] \/ e # d]
  /\ UNCHANGED <<link, offered, firstInit, sendI_InitFlg, since>>

StartTiming(d) ==
  /\ stage[d] = "read" /\ link[d] = "started" /\ firstInit[d] = 2
  /\ age' = [age EXCEPT ![d] = IF sendI_InitFlg THEN @ ELSE 0]
  /\ sendI_InitFlg' = TRUE
  /\ allData' = [allData EXCEPT ![d] = FALSE]
  /\ stage' = [stage EXCEPT ![d] = "request"]
  /\ meddled' = [e \in Devices |-> meddled[e] \/ e # d]
  /\ UNCHANGED <<link, offered, firstInit, since>>

Due(d) == sendI_InitFlg /\ age[d] >= Period

\* The flag is read a second time: another thread may have cleared it.
RequestPeriodic(d) ==
  /\ stage[d] = "request"
  /\ stage' = [stage EXCEPT ![d] = "asleep"]
  /\ \/ /\ Due(d)
        /\ allData' = [allData EXCEPT ![d] = TRUE]
        /\ age' = [age EXCEPT ![d] = 0]
        /\ since' = [since EXCEPT ![d] = 0]
     \/ ~Due(d) /\ UNCHANGED <<allData, age, since>>
  /\ UNCHANGED <<link, offered, firstInit, sendI_InitFlg, meddled>>

Pass(d) == Unconnected(d) \/ NotStarted(d) \/ FirstRequests(d) \/ StartTiming(d) \/ RequestPeriodic(d)

\* usleep(20000) in CS104_Master_Startup.
UpTo(n) == IF n < Period THEN n + 1 ELSE n
Tick ==
  /\ \A d \in Devices : stage[d] = "asleep"
  /\ stage' = [d \in Devices |-> "read"]
  /\ age' = [d \in Devices |-> UpTo(age[d])]
  /\ since' = [d \in Devices |-> UpTo(since[d])]
  /\ UNCHANGED <<link, offered, firstInit, allData, sendI_InitFlg, meddled>>

Next == Tick \/ \E d \in Devices : LinkChanges(d) \/ Pass(d)

Spec == Init /\ [][Next]_vars

\* Every thread goes on; no link is obliged to come up or to be started.
Fairness == WF_vars(Tick) /\ \A d \in Devices : WF_vars(Pass(d))

FairSpec == Spec /\ Fairness

-----------------------------------------------------------------------------
Requests(d) == stage[d] = "request" /\ allData'[d]

\* "Start timing after the link is established" (cs104MasterApp.c:1097): the
\* first periodic interrogation comes a whole period after the link's own
\* start-up requests, and so does each later one after its predecessor, unless
\* another device's thread has set the flag that d's STARTDT had cleared.
WholePeriod ==
  [][\A d \in Devices : Requests(d) /\ ~meddled[d] => since[d] = Period]_vars

Settled(d) == link[d] = "started" /\ firstInit[d] = 2

\* "Send periodically the commands whose flag is TRUE" (:1109): a started
\* device is interrogated again and again.
Interrogated ==
  \A d \in Devices : Settled(d) /\ ~allData[d] ~> allData[d] \/ ~Settled(d)

\* The same as long as, in the end, no other device stays connected without
\* its STARTDT being confirmed.
InterrogatedWhenAllStart ==
  <>[](\A d \in Devices : link[d] # "connected") => Interrogated

=============================================================================
