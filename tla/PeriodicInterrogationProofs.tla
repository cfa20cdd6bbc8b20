--------------------- MODULE PeriodicInterrogationProofs ---------------------
(***************************************************************************)
(* For any number of devices and any period: the first periodic            *)
(* interrogation of a device, and each later one, comes a whole period     *)
(* after the one before, unless the thread of another device has set the   *)
(* shared flag since this device's STARTDT cleared it.                     *)
(***************************************************************************)
EXTENDS PeriodicInterrogation, TLAPS

Typed ==
  /\ link \in [Devices -> {"down", "connected", "started"}]
  /\ offered \in [Devices -> BOOLEAN]
  /\ firstInit \in [Devices -> 0..2]
  /\ allData \in [Devices -> BOOLEAN]
  /\ sendI_InitFlg \in BOOLEAN
  /\ age \in [Devices -> 0..Period]
  /\ stage \in [Devices -> {"read", "request", "asleep"}]
  /\ since \in [Devices -> 0..Period]
  /\ meddled \in [Devices -> BOOLEAN]

\* What a link that comes up finds, and what a thread has done when it comes
\* to the second look at the flag.
InOrder(d) ==
  /\ link[d] = "down" => ~offered[d]
  /\ link[d] # "started" => firstInit[d] = 0
  /\ stage[d] = "request" => link[d] = "started" /\ ~allData[d]

\* STARTDT act clears the flag.  Who finds it set and has not been meddled
\* with has set it, and then its start time is no older than its requests.
OwnTiming(d) ==
  ~meddled[d] /\ sendI_InitFlg =>
    /\ link[d] = "connected" => ~offered[d]
    /\ link[d] = "started" => firstInit[d] = 2 /\ age[d] <= since[d]

Timing == Typed /\ \A d \in Devices : InOrder(d) /\ OwnTiming(d)

LEMMA TimingInit == Init => Timing
<1> SUFFICES ASSUME Init PROVE Timing
  OBVIOUS
<1>1. link \in [Devices -> {"down", "connected", "started"}]
  BY DEF Init
<1>2. offered \in [Devices -> BOOLEAN] /\ allData \in [Devices -> BOOLEAN] /\ meddled \in [Devices -> BOOLEAN]
  BY DEF Init
<1>3. firstInit \in [Devices -> 0..2] /\ stage \in [Devices -> {"read", "request", "asleep"}]
  BY DEF Init
<1>4. age \in [Devices -> 0..Period] /\ since \in [Devices -> 0..Period]
  BY PeriodAssumption DEF Init
<1>5. \A d \in Devices : InOrder(d) /\ OwnTiming(d)
  BY DEF Init, InOrder, OwnTiming
<1>6. QED
  BY <1>1, <1>2, <1>3, <1>4, <1>5 DEF Init, Timing, Typed

LEMMA UpToRange ==
  ASSUME NEW m \in 0..Period, NEW n \in 0..Period, m <= n
  PROVE  UpTo(m) \in 0..Period /\ UpTo(n) \in 0..Period /\ UpTo(m) <= UpTo(n)
BY PeriodAssumption DEF UpTo

LEMMA TypedStep == Typed /\ [Next]_vars => Typed'
<1> SUFFICES ASSUME Typed, [Next]_vars PROVE Typed'
  OBVIOUS
<1> USE PeriodAssumption DEF Typed
<1>1. CASE Tick
  <2>1. age' \in [Devices -> 0..Period] /\ since' \in [Devices -> 0..Period]
    BY <1>1, UpToRange DEF Tick
  <2>2. QED
    BY <1>1, <2>1 DEF Tick
<1>2. ASSUME NEW d \in Devices, LinkChanges(d) PROVE Typed'
  BY <1>2 DEF LinkChanges
<1>3. ASSUME NEW d \in Devices, Unconnected(d) \/ NotStarted(d) PROVE Typed'
  BY <1>3 DEF Unconnected, NotStarted
<1>4. ASSUME NEW d \in Devices, FirstRequests(d) PROVE Typed'
  BY <1>4 DEF FirstRequests
<1>5. ASSUME NEW d \in Devices, StartTiming(d) PROVE Typed'
  BY <1>5 DEF StartTiming
<1>6. ASSUME NEW d \in Devices, RequestPeriodic(d) PROVE Typed'
  <2>1. CASE Due(d)
    <3>1. /\ allData' = [allData EXCEPT ![d] = TRUE] /\ age' = [age EXCEPT ![d] = 0]
          /\ since' = [since EXCEPT ![d] = 0] /\ stage' = [stage EXCEPT ![d] = "asleep"]
      BY <1>6, <2>1 DEF RequestPeriodic
    <3>2. allData' \in [Devices -> BOOLEAN]
      BY <3>1
    <3>3. /\ age' \in [Devices -> 0..Period] /\ since' \in [Devices -> 0..Period]
          /\ stage' \in [Devices -> {"read", "request", "asleep"}]
      BY <3>1
    <3>4. QED
      BY <1>6, <3>2, <3>3 DEF RequestPeriodic
  <2>2. CASE ~Due(d)
    BY <1>6, <2>2 DEF RequestPeriodic
  <2>3. QED
    BY <2>1, <2>2
<1>7. CASE UNCHANGED vars
  BY <1>7 DEF vars
<1>8. QED
  BY <1>1, <1>2, <1>3, <1>4, <1>5, <1>6, <1>7 DEF Next, Pass

LEMMA TimingStep == Timing /\ [Next]_vars => Timing'
<1> SUFFICES ASSUME Timing, [Next]_vars, NEW e \in Devices PROVE InOrder(e)' /\ OwnTiming(e)'
  BY TypedStep DEF Timing
<1> USE PeriodAssumption DEF Timing, Typed, InOrder, OwnTiming
<1>1. CASE Tick
  <2>1. age[e] <= since[e] => age'[e] <= since'[e]
    BY <1>1, UpToRange DEF Tick
  <2>2. QED
    BY <1>1, <2>1 DEF Tick
<1>2. ASSUME NEW d \in Devices, LinkChanges(d) PROVE InOrder(e)' /\ OwnTiming(e)'
  BY <1>2 DEF LinkChanges
<1>3. ASSUME NEW d \in Devices, Unconnected(d) \/ NotStarted(d) PROVE InOrder(e)' /\ OwnTiming(e)'
  BY <1>3 DEF Unconnected, NotStarted
<1>4. ASSUME NEW d \in Devices, FirstRequests(d) PROVE InOrder(e)' /\ OwnTiming(e)'
  BY <1>4 DEF FirstRequests
<1>5. ASSUME NEW d \in Devices, StartTiming(d) PROVE InOrder(e)' /\ OwnTiming(e)'
  <2>1. CASE d = e
    BY <1>5, <2>1 DEF StartTiming
  <2>2. CASE d # e
    <3>1. meddled'[e]
      BY <1>5, <2>2 DEF StartTiming
    <3>2. UNCHANGED <<link[e], offered[e], firstInit[e], allData[e], stage[e]>>
      BY <1>5, <2>2 DEF StartTiming
    <3>3. QED
      BY <3>1, <3>2
  <2>3. QED
    BY <2>1, <2>2
<1>6. ASSUME NEW d \in Devices, RequestPeriodic(d) PROVE InOrder(e)' /\ OwnTiming(e)'
  BY <1>6 DEF RequestPeriodic
<1>7. CASE UNCHANGED vars
  BY <1>7 DEF vars
<1>8. QED
  BY <1>1, <1>2, <1>3, <1>4, <1>5, <1>6, <1>7 DEF Next, Pass

\* Only the second look at the flag requests anything, and then the device's
\* own start time is a period old.
LEMMA RequestsAfterPeriod ==
  ASSUME Timing, [Next]_vars, NEW d \in Devices, Requests(d), ~meddled[d]
  PROVE  since[d] = Period
<1> USE DEF Timing, Typed, InOrder, OwnTiming, Requests
<1>1. ~allData[d] /\ allData'[d] /\ stage[d] = "request"
  OBVIOUS
<1>2. CASE Tick \/ UNCHANGED vars
  BY <1>1, <1>2 DEF Tick, vars
<1>3. ASSUME NEW e \in Devices, LinkChanges(e) \/ Unconnected(e) \/ NotStarted(e) PROVE FALSE
  BY <1>1, <1>3 DEF LinkChanges, Unconnected, NotStarted
<1>4. ASSUME NEW e \in Devices, FirstRequests(e) \/ StartTiming(e) PROVE FALSE
  BY <1>1, <1>4 DEF FirstRequests, StartTiming
<1>5. ASSUME NEW e \in Devices, RequestPeriodic(e) PROVE since[d] = Period
  BY <1>1, <1>5, PeriodAssumption DEF RequestPeriodic, Due
<1>6. QED
  BY <1>2, <1>3, <1>4, <1>5 DEF Next, Pass

\* For every number of devices: timing starts after the link is established
\* (cs104MasterApp.c:1097), so that a whole period lies before each periodic
\* interrogation of a device nobody has meddled with.
THEOREM PeriodsAreWhole == Spec => WholePeriod
<1>1. Timing /\ [Next]_vars =>
        [\A d \in Devices : Requests(d) /\ ~meddled[d] => since[d] = Period]_vars
  BY RequestsAfterPeriod
<1>2. QED
  BY <1>1, TimingInit, TimingStep, PTL DEF Spec, WholePeriod

=============================================================================
