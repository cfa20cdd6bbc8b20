-------------------------- MODULE SensorStoreProofs --------------------------
(***************************************************************************)
(* For any number of tables, publishers and devices, with processes killed *)
(* at any moment: the System V semaphore with SEM_UNDO lets at most one    *)
(* process into the database, and is free when none is there; the two      *)
(* statements of a save act as one, for the table and for who polls it;    *)
(* and a row is the device's own.                                          *)
(*                                                                         *)
(* The semaphore's invariant is stated of any three values (Held), so that *)
(* what one move of one process does to it is a lemma about functions.     *)
(* The rows' invariant rests on it: a statement can fail only next to a    *)
(* publisher's CREATE, which is outside the semaphore, and no publisher    *)
(* comes back to that.                                                     *)
(***************************************************************************)
EXTENDS SensorStore, TLAPS

Places == Waiting \cup Critical \cup Unsettled \cup {"read", "publish", "dead"}

\* Positions at, semaphore s, undo counts u: a process has as much to give
\* back as it holds, one process at most is inside, and s says whether.
Held(at, s, u) ==
  /\ at \in [Procs -> Places]
  /\ u \in [Procs -> {0, 1}]
  /\ \A p \in Procs : u[p] = 1 <=> at[p] \in Critical
  /\ \A p, q \in Procs : at[p] \in Critical /\ at[q] \in Critical => p = q
  /\ s = IF \E p \in Procs : at[p] \in Critical THEN 0 ELSE 1

Guarded == Held(pc, sem, undo)

\* A step of one process that leaves it on the same side of the semaphore.
LEMMA SameSide ==
  ASSUME NEW at, NEW s, NEW u, Held(at, s, u), NEW p \in Procs, NEW to \in Places,
         at[p] \in Critical <=> to \in Critical
  PROVE  Held([at EXCEPT ![p] = to], s, u)
<1> DEFINE after == [at EXCEPT ![p] = to]
<1>1. after \in [Procs -> Places]
  BY DEF Held
<1>2. \A q \in Procs : after[q] \in Critical <=> at[q] \in Critical
  BY DEF Held
<1>3. QED
  BY <1>1, <1>2 DEF Held

\* Semaphore_P: one process enters the free semaphore.
LEMMA Enters ==
  ASSUME NEW at, NEW s, NEW u, Held(at, s, u), NEW p \in Procs, NEW to \in Places,
         s > 0, to \in Critical
  PROVE  Held([at EXCEPT ![p] = to], s - 1, [u EXCEPT ![p] = @ + 1])
<1> DEFINE after == [at EXCEPT ![p] = to]
<1> DEFINE left == [u EXCEPT ![p] = @ + 1]
<1>1. s = 1 /\ \A q \in Procs : at[q] \notin Critical
  BY DEF Held
<1>2. after \in [Procs -> Places]
  BY DEF Held
<1>3. \A q \in Procs : after[q] \in Critical <=> q = p
  BY <1>1 DEF Held
<1>4. \A q \in Procs : u[q] = 0
  BY <1>1 DEF Held
<1>5. left \in [Procs -> {0, 1}] /\ \A q \in Procs : left[q] = 1 <=> q = p
  BY <1>4 DEF Held
<1>6. s - 1 = IF \E q \in Procs : after[q] \in Critical THEN 0 ELSE 1
  BY <1>1, <1>3
<1>7. QED
  BY <1>2, <1>3, <1>5, <1>6 DEF Held

\* A process leaves, by Semaphore_V or by dying: it gives back what it held.
LEMMA Leaves ==
  ASSUME NEW at, NEW s, NEW u, Held(at, s, u), NEW p \in Procs, NEW to \in Places,
         to \notin Critical
  PROVE  Held([at EXCEPT ![p] = to], s + u[p], [u EXCEPT ![p] = 0])
<1> DEFINE after == [at EXCEPT ![p] = to]
<1> DEFINE left == [u EXCEPT ![p] = 0]
<1>1. after \in [Procs -> Places] /\ left \in [Procs -> {0, 1}]
  BY DEF Held
<1>2. \A q \in Procs : after[q] \in Critical <=> (at[q] \in Critical /\ q # p)
  BY DEF Held
<1>3. \A q \in Procs : left[q] = 1 <=> after[q] \in Critical
  <2>1. \A q \in Procs : left[q] = IF q = p THEN 0 ELSE u[q]
    BY DEF Held
  <2>2. \A q \in Procs : u[q] = 1 <=> at[q] \in Critical
    BY DEF Held
  <2> HIDE DEF after, left
  <2>3. QED
    BY <1>2, <2>1, <2>2
<1> HIDE DEF after
<1>4. s + u[p] = IF \E q \in Procs : after[q] \in Critical THEN 0 ELSE 1
  <2>1. CASE at[p] \in Critical
    <3>1. s = 0 /\ u[p] = 1
      BY <2>1 DEF Held
    <3>2. \A q \in Procs : after[q] \notin Critical
      BY <1>2, <2>1 DEF Held
    <3>3. ~\E q \in Procs : after[q] \in Critical
      BY <3>2
    <3>4. QED
      BY <3>1, <3>3
  <2>2. CASE at[p] \notin Critical
    <3>1. u[p] = 0 /\ s \in {0, 1}
      BY <2>2 DEF Held
    <3>2. (\E q \in Procs : after[q] \in Critical) <=> (\E q \in Procs : at[q] \in Critical)
      BY <1>2, <2>2
    <3>3. s = IF \E q \in Procs : at[q] \in Critical THEN 0 ELSE 1
      BY DEF Held
    <3>4. s = IF \E q \in Procs : after[q] \in Critical THEN 0 ELSE 1
      BY <3>2, <3>3
    <3>5. QED
      BY <3>1, <3>4
  <2>3. QED
    BY <2>1, <2>2
<1>5. \A q, r \in Procs : after[q] \in Critical /\ after[r] \in Critical => q = r
  BY <1>2 DEF Held
<1>6. QED
  BY <1>1, <1>3, <1>4, <1>5 DEF Held, after

\* What V gives back is what the process holds.
LEMMA GivesBack ==
  ASSUME NEW at, NEW s, NEW u, Held(at, s, u), NEW p \in Procs, at[p] \in Critical
  PROVE  u[p] = 1 /\ [u EXCEPT ![p] = @ - 1] = [u EXCEPT ![p] = 0]
<1>1. u[p] = 1
  BY DEF Held
<1>2. QED
  BY <1>1 DEF Held

\* The two operations, and the steps between, on the state itself.
LEMMA TakesSemaphore ==
  ASSUME Held(pc, sem, undo), NEW p \in Procs, NEW from, NEW to \in Places,
         to \in Critical, Semaphore_P(p, from, to)
  PROVE  Held(pc', sem', undo')
<1>1. /\ pc' = [pc EXCEPT ![p] = to] /\ sem > 0 /\ sem' = sem - 1
      /\ undo' = [undo EXCEPT ![p] = @ + 1]
  BY DEF Semaphore_P, Goes
<1>2. Held([pc EXCEPT ![p] = to], sem - 1, [undo EXCEPT ![p] = @ + 1])
  BY <1>1, Enters
<1>3. QED
  BY <1>1, <1>2

LEMMA GivesSemaphore ==
  ASSUME Held(pc, sem, undo), NEW p \in Procs, NEW from \in Critical, NEW to \in Places,
         to \notin Critical, Semaphore_V(p, from, to)
  PROVE  Held(pc', sem', undo')
<1>1. /\ pc[p] = from /\ pc' = [pc EXCEPT ![p] = to] /\ sem' = sem + 1
      /\ undo' = [undo EXCEPT ![p] = @ - 1]
  BY DEF Semaphore_V, Goes
<1>2. undo[p] = 1 /\ [undo EXCEPT ![p] = @ - 1] = [undo EXCEPT ![p] = 0]
  BY <1>1, GivesBack
<1>3. Held([pc EXCEPT ![p] = to], sem + undo[p], [undo EXCEPT ![p] = 0])
  BY Leaves
<1>4. QED
  BY <1>1, <1>2, <1>3

LEMMA KeepsSemaphore ==
  ASSUME Held(pc, sem, undo), NEW p \in Procs, NEW to \in Places,
         pc[p] \in Critical <=> to \in Critical,
         pc' = [pc EXCEPT ![p] = to], UNCHANGED <<sem, undo>>
  PROVE  Held(pc', sem', undo')
<1>1. Held([pc EXCEPT ![p] = to], sem, undo)
  BY SameSide
<1>2. QED
  BY <1>1

\* A process that dies inside does not take the semaphore with it.
LEMMA DeathKeeps ==
  ASSUME Held(pc, sem, undo), NEW p \in Procs, Dies(p)
  PROVE  Held(pc', sem', undo')
<1>1. "dead" \notin Critical
  BY DEF Critical
<1>2. "dead" \in Places
  BY DEF Places, Waiting, Critical, Unsettled
<1>3. Held([pc EXCEPT ![p] = "dead"], sem + undo[p], [undo EXCEPT ![p] = 0])
  BY <1>1, <1>2, Leaves
<1>4. QED
  BY <1>3 DEF Dies

\* A step of a sensor process.
LEMMA SensorKeeps ==
  ASSUME Held(pc, sem, undo), NEW t \in Tables, SensorStep(t)
  PROVE  Held(pc', sem', undo')
<1>1. Sensor(t) \in Procs
  BY DEF Procs
<1>2. /\ "create" \in Critical /\ "creating" \in Critical /\ "v0" \in Critical
      /\ "delete" \in Critical /\ "deleting" \in Critical /\ "insert" \in Critical
      /\ "inserting" \in Critical /\ "v" \in Critical
      /\ "read" \notin Critical /\ "p" \notin Critical
  BY DEF Critical
<1>3. CASE Semaphore_P(Sensor(t), "p0", "create")
  <2>1. "create" \in Places
    BY DEF Places, Waiting, Critical, Unsettled
  <2>2. QED
    BY <1>1, <1>2, <1>3, <2>1, TakesSemaphore
<1>4. CASE Semaphore_P(Sensor(t), "p", "delete")
  <2>1. "delete" \in Places
    BY DEF Places, Waiting, Critical, Unsettled
  <2>2. QED
    BY <1>1, <1>2, <1>4, <2>1, TakesSemaphore
<1>5. "read" \in Places
  BY DEF Places, Waiting, Critical, Unsettled
<1>6. CASE Semaphore_V(Sensor(t), "v0", "read")
  BY <1>1, <1>2, <1>5, <1>6, GivesSemaphore
<1>7. CASE Semaphore_V(Sensor(t), "v", "read")
  BY <1>1, <1>2, <1>5, <1>7, GivesSemaphore
<1>8. CASE CreateTable(t) /\ UNCHANGED <<sem, undo>>
  <2>1. PICK to \in {"creating", "v0"} : pc' = [pc EXCEPT ![Sensor(t)] = to]
    BY <1>8 DEF CreateTable, BeginWrite, Goes
  <2>2. pc[Sensor(t)] \in {"create", "creating"}
    BY <1>8 DEF CreateTable, BeginWrite, Goes
  <2>3. to \in Places
    BY <2>1 DEF Places, Critical, Unsettled, Waiting
  <2>4. pc[Sensor(t)] \in Critical <=> to \in Critical
    BY <1>2, <2>1, <2>2
  <2>5. QED
    BY <1>1, <1>8, <2>1, <2>3, <2>4, KeepsSemaphore
<1>9. CASE ReadRegisters(t) /\ UNCHANGED <<sem, undo>>
  <2>1. pc[Sensor(t)] = "read" /\ pc' = [pc EXCEPT ![Sensor(t)] = "p"]
    BY <1>9 DEF ReadRegisters, Goes
  <2>2. "p" \in Places
    BY DEF Places, Waiting, Critical, Unsettled
  <2>3. QED
    BY <1>1, <1>2, <1>9, <2>1, <2>2, KeepsSemaphore
<1>10. CASE DeleteTableData(t) /\ UNCHANGED <<sem, undo>>
  <2>1. PICK to \in {"deleting", "insert"} : pc' = [pc EXCEPT ![Sensor(t)] = to]
    BY <1>10 DEF DeleteTableData, BeginWrite, Goes
  <2>2. pc[Sensor(t)] \in {"delete", "deleting"}
    BY <1>10 DEF DeleteTableData, BeginWrite, Goes
  <2>3. to \in Places
    BY <2>1 DEF Places, Critical, Unsettled, Waiting
  <2>4. pc[Sensor(t)] \in Critical <=> to \in Critical
    BY <1>2, <2>1, <2>2
  <2>5. QED
    BY <1>1, <1>10, <2>1, <2>3, <2>4, KeepsSemaphore
<1>11. CASE InsertTableData(t) /\ UNCHANGED <<sem, undo>>
  <2>1. PICK to \in {"inserting", "v"} : pc' = [pc EXCEPT ![Sensor(t)] = to]
    BY <1>11 DEF InsertTableData, BeginWrite, Goes
  <2>2. pc[Sensor(t)] \in {"insert", "inserting"}
    BY <1>11 DEF InsertTableData, BeginWrite, Goes
  <2>3. to \in Places
    BY <2>1 DEF Places, Critical, Unsettled, Waiting
  <2>4. pc[Sensor(t)] \in Critical <=> to \in Critical
    BY <1>2, <2>1, <2>2
  <2>5. QED
    BY <1>1, <1>11, <2>1, <2>3, <2>4, KeepsSemaphore
<1>12. QED
  BY <1>3, <1>4, <1>6, <1>7, <1>8, <1>9, <1>10, <1>11 DEF SensorStep

\* A step of a publisher; its CREATE is outside the semaphore.
LEMMA PublisherKeeps ==
  ASSUME Held(pc, sem, undo), NEW t \in Publishing, PublisherStep(t)
  PROVE  Held(pc', sem', undo')
<1>1. Publisher(t) \in Procs
  BY DEF Procs
<1>2. /\ "select" \in Critical /\ "selecting" \in Critical /\ "v" \in Critical
      /\ "p" \notin Critical /\ "publish" \notin Critical
  BY DEF Critical
<1>3. "Create" \notin Critical /\ "Creating" \notin Critical /\ "Checking" \notin Critical
  BY DEF Critical
<1>4. "select" \in Places /\ "publish" \in Places /\ "p" \in Places
  BY DEF Places, Waiting, Critical, Unsettled
<1>5. CASE CreateUnguarded(t) /\ UNCHANGED <<sem, undo>>
  <2>1. PICK to \in {"Creating", "Checking", "p"} : pc' = [pc EXCEPT ![Publisher(t)] = to]
    BY <1>5 DEF CreateUnguarded, BeginWrite, BeginRead, Goes
  <2>2. pc[Publisher(t)] \in {"Create", "Creating", "Checking"}
    BY <1>5 DEF CreateUnguarded, BeginWrite, BeginRead, Goes
  <2>3. to \in Places
    BY <2>1 DEF Places, Critical, Unsettled, Waiting
  <2>4. pc[Publisher(t)] \in Critical <=> to \in Critical
    BY <1>2, <1>3, <2>1, <2>2
  <2>5. QED
    BY <1>1, <1>5, <2>1, <2>3, <2>4, KeepsSemaphore
<1>6. CASE Semaphore_P(Publisher(t), "p", "select")
  BY <1>1, <1>2, <1>4, <1>6, TakesSemaphore
<1>7. CASE BeginRead(Publisher(t), "select", "selecting") /\ UNCHANGED <<sem, undo>>
  <2>1. pc[Publisher(t)] = "select" /\ pc' = [pc EXCEPT ![Publisher(t)] = "selecting"]
    BY <1>7 DEF BeginRead, Goes
  <2>2. "selecting" \in Places
    BY DEF Places, Waiting, Critical, Unsettled
  <2>3. QED
    BY <1>1, <1>2, <1>7, <2>1, <2>2, KeepsSemaphore
<1>8. CASE Dies(Publisher(t))
  BY <1>1, <1>8, DeathKeeps
<1>9. CASE Goes(Publisher(t), "selecting", "v") /\ UNCHANGED <<sem, undo>>
  <2>1. pc[Publisher(t)] = "selecting" /\ pc' = [pc EXCEPT ![Publisher(t)] = "v"]
    BY <1>9 DEF Goes
  <2>2. "v" \in Places
    BY DEF Places, Waiting, Critical, Unsettled
  <2>3. QED
    BY <1>1, <1>2, <1>9, <2>1, <2>2, KeepsSemaphore
<1>10. CASE Semaphore_V(Publisher(t), "v", "publish")
  BY <1>1, <1>2, <1>4, <1>10, GivesSemaphore
<1>11. CASE Publish(t) /\ UNCHANGED <<sem, undo>>
  <2>1. pc[Publisher(t)] = "publish" /\ pc' = [pc EXCEPT ![Publisher(t)] = "p"]
    BY <1>11 DEF Publish, Goes
  <2>2. QED
    BY <1>1, <1>2, <1>4, <1>11, <2>1, KeepsSemaphore
<1>12. CASE CreateUnguarded(t) /\ UNCHANGED <<sem, undo, rows, regs, dev, clean, saved, polled>>
  BY <1>5, <1>12
<1>13. CASE PollData(t)
  BY <1>6, <1>7, <1>8, <1>9, <1>10, <1>13 DEF PollData
<1>14. QED
  BY <1>11, <1>12, <1>13 DEF PublisherStep

\* The semaphore's invariant of the whole program.
LEMMA GuardedInit == Init => Guarded
<1> SUFFICES ASSUME Init PROVE Guarded
  OBVIOUS
<1>1. \A p \in Procs : pc[p] = IF p[1] = "sensor" THEN "p0" ELSE "Create"
  BY DEF Init
<1>2. "p0" \notin Critical /\ "Create" \notin Critical
  BY DEF Critical
<1>3. \A p \in Procs : pc[p] \notin Critical
  BY <1>1, <1>2
<1>4. pc \in [Procs -> Places]
  BY DEF Init, Places, Waiting, Unsettled
<1>5. undo = [p \in Procs |-> 0] /\ sem = 1
  BY DEF Init
<1>6. QED
  BY <1>3, <1>4, <1>5 DEF Guarded, Held

LEMMA GuardedStep == Guarded /\ [Next]_vars => Guarded'
<1> SUFFICES ASSUME Held(pc, sem, undo), [Next]_vars PROVE Held(pc', sem', undo')
  BY DEF Guarded
<1>1. CASE \E p \in Procs : Killed(p)
  BY <1>1, DeathKeeps DEF Killed
<1>2. CASE UNCHANGED vars
  BY <1>2 DEF vars
<1>3. CASE \E t \in Tables : SensorStep(t)
  BY <1>3, SensorKeeps
<1>4. CASE \E t \in Publishing : PublisherStep(t)
  BY <1>4, PublisherKeeps
<1>5. QED
  BY <1>1, <1>2, <1>3, <1>4 DEF Next

\* For every instance, and with processes dying at any moment: at most one
\* process is in the database under the semaphore, and it is never lost.
THEOREM StoreExclusive == Spec => []SemaphoreKept
<1>1. Guarded => SemaphoreKept
  BY DEF Guarded, Held, SemaphoreKept, Inside
<1>2. QED
  BY <1>1, GuardedInit, GuardedStep, PTL DEF Spec

-----------------------------------------------------------------------------
\* Types.

\* What of TypeOK is about the database and the processes' own variables.
StoreTyped ==
  /\ tables \subseteq Tables
  /\ rows \in [Tables -> [1..Devices -> Seq(0..Devices)]]
  /\ regs \in [Tables -> 0..Devices] /\ dev \in [Tables -> 1..Devices]
  /\ clean \in [Tables -> [1..Devices -> BOOLEAN]] /\ saved \in [Tables -> [1..Devices -> BOOLEAN]]
  /\ polled \in [Tables -> [1..Devices -> Seq(0..Devices)]]

\* One cell of a table of tables is set.
LEMMA CellSet ==
  ASSUME NEW S, NEW f \in [Tables -> [1..Devices -> S]], NEW t \in Tables,
         NEW d \in 1..Devices, NEW v \in S
  PROVE  /\ [f EXCEPT ![t][d] = v] \in [Tables -> [1..Devices -> S]]
         /\ \A u \in Tables, e \in 1..Devices :
              [f EXCEPT ![t][d] = v][u][e] = IF u = t /\ e = d THEN v ELSE f[u][e]
OBVIOUS

LEMMA TypedInit == Init => StoreTyped
<1> SUFFICES ASSUME Init PROVE StoreTyped
  OBVIOUS
<1>1. [t \in Tables |-> [d \in 1..Devices |-> <<>>]] \in [Tables -> [1..Devices -> Seq(0..Devices)]]
  OBVIOUS
<1>2. [t \in Tables |-> [d \in 1..Devices |-> FALSE]] \in [Tables -> [1..Devices -> BOOLEAN]]
  OBVIOUS
<1>3. regs \in [Tables -> 0..Devices] /\ dev \in [Tables -> 1..Devices]
  BY StoreAssumption DEF Init
<1>4. QED
  BY <1>1, <1>2, <1>3 DEF Init, StoreTyped

LEMMA SensorTyped ==
  ASSUME StoreTyped, NEW t \in Tables, SensorStep(t)
  PROVE  StoreTyped'
<1> USE StoreAssumption DEF StoreTyped
<1>1. CASE UNCHANGED <<tables, rows, regs, dev, clean, saved, polled>>
  BY <1>1
<1>2. CASE CreateTable(t) /\ UNCHANGED <<rows, regs, dev, clean, saved, polled>>
  BY <1>2 DEF CreateTable
<1>3. CASE ReadRegisters(t) /\ UNCHANGED <<tables, rows, dev, clean, saved, polled>>
  <2>1. regs' \in [Tables -> 0..Devices]
    BY <1>3 DEF ReadRegisters
  <2>2. QED
    BY <1>3, <2>1
<1>4. CASE DeleteTableData(t) /\ UNCHANGED <<tables, regs, dev, saved, polled>>
  <2>1. Settled \in BOOLEAN
    BY DEF Settled
  <2>2. [clean EXCEPT ![t][dev[t]] = Settled] \in [Tables -> [1..Devices -> BOOLEAN]]
    BY <2>1, CellSet
  <2>3. [rows EXCEPT ![t][dev[t]] = <<>>] \in [Tables -> [1..Devices -> Seq(0..Devices)]]
    BY CellSet
  <2>4. \/ clean' = [clean EXCEPT ![t][dev[t]] = Settled] /\ UNCHANGED rows
        \/ (rows' = [rows EXCEPT ![t][dev[t]] = <<>>] \/ UNCHANGED rows) /\ UNCHANGED clean
    BY <1>4 DEF DeleteTableData
  <2>5. QED
    BY <1>4, <2>2, <2>3, <2>4
<1>5. CASE InsertTableData(t) /\ UNCHANGED <<tables, regs, dev, clean, polled>>
  <2>1. Append(rows[t][dev[t]], regs[t]) \in Seq(0..Devices)
    OBVIOUS
  <2>2. [rows EXCEPT ![t][dev[t]] = Append(@, regs[t])] \in [Tables -> [1..Devices -> Seq(0..Devices)]]
    BY <2>1, CellSet
  <2>3. (saved[t][dev[t]] \/ clean[t][dev[t]]) \in BOOLEAN
    OBVIOUS
  <2>4. [saved EXCEPT ![t][dev[t]] = @ \/ clean[t][dev[t]]] \in [Tables -> [1..Devices -> BOOLEAN]]
    BY <2>3, CellSet
  <2>5. \/ UNCHANGED <<rows, saved>>
        \/ /\ rows' = [rows EXCEPT ![t][dev[t]] = Append(@, regs[t])] \/ UNCHANGED rows
           /\ saved' = [saved EXCEPT ![t][dev[t]] = @ \/ clean[t][dev[t]]]
    BY <1>5 DEF InsertTableData, Inserted
  <2>6. QED
    BY <1>5, <2>2, <2>4, <2>5
<1>6. CASE NextDevice(t) /\ UNCHANGED <<tables, rows, regs, clean, saved, polled>>
  <2>1. dev' \in [Tables -> 1..Devices]
    BY <1>6 DEF NextDevice
  <2>2. QED
    BY <1>6, <2>1
<1>7. QED
  BY <1>1, <1>2, <1>3, <1>4, <1>5, <1>6 DEF SensorStep

LEMMA PublisherTyped ==
  ASSUME StoreTyped, NEW t \in Publishing, PublisherStep(t)
  PROVE  StoreTyped'
<1> USE StoreAssumption DEF StoreTyped
<1>1. tables' \subseteq Tables
  BY DEF PublisherStep, CreateUnguarded
<1>2. polled' \in [Tables -> [1..Devices -> Seq(0..Devices)]]
  <2>1. UNCHANGED polled \/ polled' = [polled EXCEPT ![t] = rows[t]]
    BY DEF PublisherStep, PollData
  <2>2. QED
    BY <2>1
<1>3. UNCHANGED <<rows, regs, dev, clean, saved>>
  BY DEF PublisherStep
<1>4. QED
  BY <1>1, <1>2, <1>3

LEMMA TypedStep == StoreTyped /\ [Next]_vars => StoreTyped'
<1> SUFFICES ASSUME StoreTyped, [Next]_vars PROVE StoreTyped'
  OBVIOUS
<1>1. CASE (\E p \in Procs : Killed(p)) \/ UNCHANGED vars
  BY <1>1 DEF Killed, vars, StoreTyped
<1>2. QED
  BY <1>1, SensorTyped, PublisherTyped DEF Next

\* No variable leaves its type, whatever fails or dies (DataProcess.c,
\* SqliteInterface.c): the semaphore's value and each undo count are 0 or 1.
THEOREM StoreTypeCorrect == Spec => []TypeOK
<1>1. Guarded /\ StoreTyped => TypeOK
  <2> SUFFICES ASSUME Guarded, StoreTyped PROVE TypeOK
    OBVIOUS
  <2>1. sem \in 0..1 /\ undo \in [Procs -> 0..1]
    BY DEF Guarded, Held
  <2>2. pc \in [Procs -> Waiting \cup Critical \cup Unsettled \cup {"read", "publish", "dead"}]
    BY DEF Guarded, Held, Places
  <2>3. QED
    BY <2>1, <2>2 DEF StoreTyped, TypeOK
<1>2. QED
  BY <1>1, GuardedInit, GuardedStep, TypedInit, TypedStep, PTL DEF Spec

-----------------------------------------------------------------------------
\* Rows and polls.

At(t) == pc[Sensor(t)]

\* The save of a device from its delete on.
Saving == {"deleting", "insert", "inserting", "v"}

\* The inductive strengthening of OneRowEach, for device d of table t.  A save
\* that began when every publisher was done with its CREATE goes on like that,
\* so that neither of its statements fails.
RowsKept(t, d) ==
  /\ At(t) \notin Unsettled
  /\ t \notin tables => rows[t][d] = <<>> /\ ~saved[t][d]
  /\ At(t) \in {"deleting", "inserting"} => t \in tables
  /\ dev[t] = d /\ At(t) \in Saving /\ clean[t][d] => Settled
  /\ dev[t] = d /\ At(t) \in {"insert", "inserting"} /\ clean[t][d] => rows[t][d] = <<>>
  /\ saved[t][d] /\ clean[t][d]
     /\ ~(dev[t] = d /\ At(t) \in {"deleting", "insert", "inserting", "dead"}) =>
       Len(rows[t][d]) = 1

AllRowsKept == \A t \in Tables, d \in 1..Devices : RowsKept(t, d)

LEMMA ProcsDiffer ==
  /\ \A t \in Tables : Sensor(t) \in Procs
  /\ \A t \in Publishing : Publisher(t) \in Procs /\ t \in Tables
  /\ \A t, u \in Tables : Sensor(t) = Sensor(u) => t = u
  /\ \A t, u : Sensor(t) # Publisher(u)
BY StoreAssumption DEF Sensor, Publisher, Procs

\* A process that goes on leaves the others where they are.
LEMMA OnlyOneMoves ==
  ASSUME Guarded, NEW p \in Procs, NEW to, pc' = [pc EXCEPT ![p] = to]
  PROVE  pc'[p] = to /\ \A q \in Procs : q # p => pc'[q] = pc[q]
BY DEF Guarded, Held

\* Under the semaphore and with every CREATE done, nobody else is in the
\* database, and so no statement fails.
LEMMA Alone ==
  ASSUME Guarded, AllRowsKept, NEW t \in Tables, At(t) \in Critical, Settled
  PROVE  Commits(Sensor(t)) /\ ~Others(Sensor(t), Writing)
<1>1. ASSUME NEW q \in Procs, q # Sensor(t) PROVE pc[q] \notin InFlight
  <2>1. pc[q] \notin Critical
    BY <1>1, ProcsDiffer DEF Guarded, Held, At
  <2>2. pc[q] \notin Unsettled
    <3>1. CASE q \in {Sensor(u) : u \in Tables}
      BY <3>1, StoreAssumption DEF AllRowsKept, RowsKept, At
    <3>2. CASE q \in {Publisher(u) : u \in Publishing}
      BY <3>2 DEF Settled
    <3>3. QED
      BY <3>1, <3>2 DEF Procs
  <2>3. QED
    BY <2>1, <2>2 DEF InFlight, Writing, Reading, Critical, Unsettled
<1>2. Writing \subseteq InFlight
  BY DEF InFlight
<1>3. QED
  BY <1>1, <1>2 DEF Commits, Others

\* No publisher goes back to its CREATE.
LEMMA SettledStays ==
  ASSUME Guarded, Settled, [Next]_vars
  PROVE  Settled'
<1> USE ProcsDiffer
<1> SUFFICES ASSUME NEW u \in Publishing PROVE pc'[Publisher(u)] \notin Unsettled
  BY DEF Settled
<1>1. pc[Publisher(u)] \notin Unsettled
  BY DEF Settled
<1>2. ASSUME NEW p \in Procs, NEW to, to \notin Unsettled, pc' = [pc EXCEPT ![p] = to]
      PROVE  pc'[Publisher(u)] \notin Unsettled
  BY <1>1, <1>2, OnlyOneMoves
<1>3. ASSUME NEW t \in Tables, SensorStep(t) PROVE pc'[Publisher(u)] \notin Unsettled
  <2>1. \E to : pc' = [pc EXCEPT ![Sensor(t)] = to]
    BY <1>3 DEF SensorStep, Semaphore_P, Semaphore_V, CreateTable, ReadRegisters, DeleteTableData,
                InsertTableData, BeginWrite, Goes
  <2>2. QED
    BY <1>1, <2>1, OnlyOneMoves
<1>4. ASSUME NEW t \in Publishing, PublisherStep(t) PROVE pc'[Publisher(u)] \notin Unsettled
  <2>1. CASE CreateUnguarded(t)
    <3>1. pc[Publisher(t)] \in Unsettled
      BY <2>1 DEF CreateUnguarded, BeginWrite, BeginRead, Goes, Unsettled
    <3>2. QED
      BY <3>1 DEF Settled
  <2>2. CASE PollData(t) \/ Publish(t)
    <3>1. PICK to \in {"select", "selecting", "dead", "v", "publish", "p"} :
            pc' = [pc EXCEPT ![Publisher(t)] = to]
      BY <2>2 DEF PollData, Publish, Semaphore_P, Semaphore_V, BeginRead, Dies, Goes
    <3>2. to \notin Unsettled
      BY DEF Unsettled
    <3>3. QED
      BY <1>2, <3>1, <3>2
  <2>3. QED
    BY <1>4, <2>1, <2>2 DEF PublisherStep
<1>5. ASSUME NEW p \in Procs, Killed(p) PROVE pc'[Publisher(u)] \notin Unsettled
  BY <1>2, <1>5 DEF Killed, Dies, Unsettled
<1>6. CASE UNCHANGED vars
  BY <1>1, <1>6 DEF vars
<1>7. QED
  BY <1>3, <1>4, <1>5, <1>6 DEF Next

\* A step of another process, which may at most create the table.
LEMMA RowsElsewhere ==
  ASSUME NEW t \in Tables, NEW d \in 1..Devices, RowsKept(t, d), Settled => Settled',
         pc'[Sensor(t)] = pc[Sensor(t)], tables \subseteq tables',
         UNCHANGED <<rows[t][d], dev[t], clean[t][d], saved[t][d]>>
  PROVE  RowsKept(t, d)'
BY DEF RowsKept, At

\* The cell a sensor process works on.
LEMMA OwnCell ==
  ASSUME StoreTyped, NEW t \in Tables
  PROVE  /\ Append(rows[t][dev[t]], regs[t]) \in Seq(0..Devices)
         /\ Len(Append(rows[t][dev[t]], regs[t])) = Len(rows[t][dev[t]]) + 1
         /\ \A v \in Seq(0..Devices) : [rows EXCEPT ![t][dev[t]] = v][t][dev[t]] = v
         /\ \A v \in Seq(0..Devices), d \in 1..Devices :
              [rows EXCEPT ![t][dev[t]] = v][t][d] = IF d = dev[t] THEN v ELSE rows[t][d]
<1>1. /\ dev[t] \in 1..Devices /\ regs[t] \in 0..Devices
      /\ rows \in [Tables -> [1..Devices -> Seq(0..Devices)]]
  BY DEF StoreTyped
<1>2. rows[t][dev[t]] \in Seq(0..Devices)
  BY <1>1
<1>3. ASSUME NEW v \in Seq(0..Devices), NEW d \in 1..Devices
      PROVE  [rows EXCEPT ![t][dev[t]] = v][t][d] = IF d = dev[t] THEN v ELSE rows[t][d]
  <2>1. \A u \in Tables, e \in 1..Devices :
          [rows EXCEPT ![t][dev[t]] = v][u][e] = IF u = t /\ e = dev[t] THEN v ELSE rows[u][e]
    BY <1>1, CellSet
  <2>2. QED
    BY <2>1
<1>4. QED
  BY <1>1, <1>2, <1>3

\* The steps of the table's own sensor process.
LEMMA RowsOfSensor ==
  ASSUME Guarded, StoreTyped, AllRowsKept, NEW t \in Tables, SensorStep(t), [Next]_vars,
         NEW d \in 1..Devices
  PROVE  RowsKept(t, d)'
<1> USE ProcsDiffer
<1>1. Settled => Settled'
  BY SettledStays
<1>2. RowsKept(t, d) /\ At(t) \in Places
  BY DEF AllRowsKept, Guarded, Held, At
<1>3. ASSUME NEW from, NEW to, Goes(Sensor(t), from, to) PROVE At(t) = from /\ At(t)' = to
  BY <1>3, OnlyOneMoves DEF Goes, At
<1>4. CASE /\ UNCHANGED <<tables, rows, regs, dev, clean, saved, polled>>
           /\ \/ Semaphore_P(Sensor(t), "p0", "create")
              \/ Semaphore_V(Sensor(t), "v0", "read")
              \/ Semaphore_P(Sensor(t), "p", "delete")
  <2>1. At(t) \in {"p0", "v0", "p"} /\ At(t)' \in {"create", "read", "delete"}
    BY <1>3, <1>4 DEF Semaphore_P, Semaphore_V
  <2>2. QED
    BY <1>1, <1>2, <1>4, <2>1 DEF RowsKept, Saving, Unsettled
<1>5. CASE CreateTable(t) /\ UNCHANGED <<rows, regs, dev, clean, saved, polled>>
  <2>1. At(t) \in {"create", "creating"} /\ At(t)' \in {"creating", "v0"} /\ tables \subseteq tables'
    BY <1>3, <1>5 DEF CreateTable, BeginWrite
  <2>2. QED
    BY <1>1, <1>2, <1>5, <2>1 DEF RowsKept, Saving, Unsettled
<1>6. CASE ReadRegisters(t) /\ UNCHANGED <<tables, rows, dev, clean, saved, polled>>
  <2>1. At(t) = "read" /\ At(t)' = "p"
    BY <1>3, <1>6 DEF ReadRegisters
  <2>2. QED
    BY <1>1, <1>2, <1>6, <2>1 DEF RowsKept, Saving, Unsettled
<1>7. CASE DeleteTableData(t) /\ UNCHANGED <<sem, undo, tables, regs, dev, saved, polled>>
  <2>1. CASE /\ clean' = [clean EXCEPT ![t][dev[t]] = Settled] /\ UNCHANGED rows
             /\ IF t \in tables THEN BeginWrite(Sensor(t), "delete", "deleting", "insert")
                                ELSE Goes(Sensor(t), "delete", "insert")
    <3>1. /\ clean'[t][dev[t]] = Settled
          /\ d # dev[t] => clean'[t][d] = clean[t][d]
      <4>1. Settled \in BOOLEAN
        BY DEF Settled
      <4>2. dev[t] \in 1..Devices /\ clean \in [Tables -> [1..Devices -> BOOLEAN]]
        BY DEF StoreTyped
      <4>3. \A u \in Tables, e \in 1..Devices :
              [clean EXCEPT ![t][dev[t]] = Settled][u][e] =
                IF u = t /\ e = dev[t] THEN Settled ELSE clean[u][e]
        BY <4>1, <4>2, CellSet
      <4>4. QED
        BY <2>1, <4>2, <4>3
    <3>2. At(t) = "delete" /\ At(t)' \in {"deleting", "insert"} /\ (At(t)' = "deleting" => t \in tables)
      BY <1>3, <2>1 DEF BeginWrite
    <3>3. t \in tables /\ Settled => At(t)' = "deleting"
      BY <1>3, <2>1, <3>2, Alone DEF BeginWrite, Critical
    <3>4. QED
      BY <1>1, <1>2, <1>7, <2>1, <3>1, <3>2, <3>3 DEF RowsKept, Saving, Unsettled
  <2>2. CASE /\ Goes(Sensor(t), "deleting", "insert") /\ UNCHANGED clean
             /\ rows' = IF Commits(Sensor(t)) THEN [rows EXCEPT ![t][dev[t]] = <<>>] ELSE rows
    <3>1. At(t) = "deleting" /\ At(t)' = "insert"
      BY <1>3, <2>2
    <3>2. d # dev[t] => rows'[t][d] = rows[t][d]
      BY <2>2, CellSet DEF StoreTyped
    <3>3. Settled => rows'[t][dev[t]] = <<>>
      <4>1. Settled => Commits(Sensor(t))
        BY <3>1, Alone DEF Critical
      <4>2. <<>> \in Seq(0..Devices)
        OBVIOUS
      <4>3. [rows EXCEPT ![t][dev[t]] = <<>>][t][dev[t]] = <<>>
        BY <4>2, OwnCell
      <4>4. QED
        BY <2>2, <4>1, <4>3
    <3>4. QED
      BY <1>1, <1>2, <1>7, <2>2, <3>1, <3>2, <3>3 DEF RowsKept, Saving, Unsettled
  <2>3. QED
    BY <1>7, <2>1, <2>2 DEF DeleteTableData
<1>8. CASE InsertTableData(t) /\ UNCHANGED <<sem, undo, tables, regs, dev, clean, polled>>
  <2>1. CASE /\ UNCHANGED <<rows, saved>>
             /\ IF t \in tables THEN BeginWrite(Sensor(t), "insert", "inserting", "v")
                                ELSE Goes(Sensor(t), "insert", "v")
    <3>1. At(t) = "insert" /\ At(t)' \in {"inserting", "v"} /\ (At(t)' = "inserting" => t \in tables)
      BY <1>3, <2>1 DEF BeginWrite
    <3>2. t \in tables /\ Settled => At(t)' = "inserting"
      BY <1>3, <2>1, <3>1, Alone DEF BeginWrite, Critical
    <3>3. QED
      BY <1>1, <1>2, <1>8, <2>1, <3>1, <3>2 DEF RowsKept, Saving, Unsettled
  <2>2. CASE /\ Goes(Sensor(t), "inserting", "v") /\ rows' = Inserted(t)
             /\ saved' = [saved EXCEPT ![t][dev[t]] = @ \/ clean[t][dev[t]]]
    <3>1. At(t) = "inserting" /\ At(t)' = "v"
      BY <1>3, <2>2
    <3>2. Append(rows[t][dev[t]], regs[t]) \in Seq(0..Devices)
      BY OwnCell
    <3>3. d # dev[t] => rows'[t][d] = rows[t][d] /\ saved'[t][d] = saved[t][d]
      BY <2>2, <3>2, CellSet DEF StoreTyped, Inserted
    <3>4. Settled => rows'[t][dev[t]] = Append(rows[t][dev[t]], regs[t])
      <4>1. Settled => Commits(Sensor(t))
        BY <3>1, Alone DEF Critical
      <4>2. [rows EXCEPT ![t][dev[t]] = Append(@, regs[t])][t][dev[t]] = Append(rows[t][dev[t]], regs[t])
        BY <3>2, OwnCell
      <4>3. QED
        BY <2>2, <4>1, <4>2 DEF Inserted
    <3>5. rows[t][dev[t]] = <<>> => Len(Append(rows[t][dev[t]], regs[t])) = 1
      BY OwnCell
    <3>6. QED
      BY <1>1, <1>2, <1>8, <2>2, <3>1, <3>3, <3>4, <3>5 DEF RowsKept, Saving, Unsettled
  <2>3. QED
    BY <1>8, <2>1, <2>2 DEF InsertTableData
<1>9. CASE /\ Semaphore_V(Sensor(t), "v", "read") /\ NextDevice(t)
           /\ UNCHANGED <<tables, rows, regs, clean, saved, polled>>
  <2>1. At(t) = "v" /\ At(t)' = "read"
    BY <1>3, <1>9 DEF Semaphore_V
  <2>2. QED
    BY <1>1, <1>2, <1>9, <2>1 DEF RowsKept, Saving, Unsettled
<1>10. QED
  BY <1>4, <1>5, <1>6, <1>7, <1>8, <1>9 DEF SensorStep

LEMMA SensorLeavesOthers ==
  ASSUME Guarded, StoreTyped, NEW t \in Tables, SensorStep(t), NEW u \in Tables, u # t
  PROVE  /\ pc'[Sensor(u)] = pc[Sensor(u)] /\ tables \subseteq tables'
         /\ UNCHANGED <<rows[u], regs[u], dev[u], clean[u], saved[u], polled>>
<1>1. pc'[Sensor(u)] = pc[Sensor(u)]
  <2>1. \E to : pc' = [pc EXCEPT ![Sensor(t)] = to]
    BY DEF SensorStep, Semaphore_P, Semaphore_V, CreateTable, ReadRegisters, DeleteTableData,
           InsertTableData, BeginWrite, Goes
  <2>2. QED
    BY <2>1, ProcsDiffer, OnlyOneMoves
<1>2. tables \subseteq tables' /\ UNCHANGED polled
  BY DEF SensorStep, CreateTable
<1>3. UNCHANGED rows[u]
  BY DEF SensorStep, DeleteTableData, InsertTableData, Inserted, StoreTyped
<1>4. UNCHANGED <<regs[u], dev[u]>>
  BY DEF SensorStep, ReadRegisters, NextDevice, StoreTyped
<1>5. UNCHANGED <<clean[u], saved[u]>>
  BY DEF SensorStep, DeleteTableData, InsertTableData, StoreTyped
<1>6. QED
  BY <1>1, <1>2, <1>3, <1>4, <1>5

LEMMA PublisherLeavesSensors ==
  ASSUME Guarded, NEW t \in Publishing, PublisherStep(t), NEW u \in Tables
  PROVE  /\ pc'[Sensor(u)] = pc[Sensor(u)] /\ tables \subseteq tables'
         /\ UNCHANGED <<rows, regs, dev, clean, saved>>
<1>1. \E to : pc' = [pc EXCEPT ![Publisher(t)] = to]
  BY DEF PublisherStep, CreateUnguarded, PollData, Publish, Semaphore_P, Semaphore_V,
         BeginWrite, BeginRead, Dies, Goes
<1>2. pc'[Sensor(u)] = pc[Sensor(u)]
  BY <1>1, ProcsDiffer, OnlyOneMoves
<1>3. tables \subseteq tables' /\ UNCHANGED <<rows, regs, dev, clean, saved>>
  BY DEF PublisherStep, CreateUnguarded
<1>4. QED
  BY <1>2, <1>3

LEMMA RowsInit == Init => AllRowsKept
<1> SUFFICES ASSUME Init, NEW t \in Tables, NEW d \in 1..Devices PROVE RowsKept(t, d)
  BY DEF AllRowsKept
<1>1. At(t) = "p0"
  BY ProcsDiffer DEF Init, At, Sensor
<1>2. rows[t][d] = <<>> /\ ~saved[t][d]
  BY DEF Init
<1>3. QED
  BY <1>1, <1>2 DEF RowsKept, Unsettled, Saving

LEMMA RowsStep == Guarded /\ StoreTyped /\ AllRowsKept /\ [Next]_vars => AllRowsKept'
<1> SUFFICES ASSUME Guarded, StoreTyped, AllRowsKept, [Next]_vars,
                    NEW t \in Tables, NEW d \in 1..Devices
             PROVE  RowsKept(t, d)'
  BY DEF AllRowsKept
<1> USE ProcsDiffer
<1>1. Settled => Settled'
  BY SettledStays
<1>2. RowsKept(t, d)
  BY DEF AllRowsKept
<1>3. ASSUME NEW u \in Tables, SensorStep(u) PROVE RowsKept(t, d)'
  <2>1. CASE u = t
    BY <1>3, <2>1, RowsOfSensor
  <2>2. CASE u # t
    BY <1>1, <1>2, <1>3, <2>2, SensorLeavesOthers, RowsElsewhere
  <2>3. QED
    BY <2>1, <2>2
<1>4. ASSUME NEW u \in Publishing, PublisherStep(u) PROVE RowsKept(t, d)'
  BY <1>1, <1>2, <1>4, PublisherLeavesSensors, RowsElsewhere
<1>5. ASSUME NEW p \in Procs, Killed(p) PROVE RowsKept(t, d)'
  <2>1. /\ pc' = [pc EXCEPT ![p] = "dead"]
        /\ UNCHANGED <<tables, rows, regs, dev, clean, saved, polled>>
    BY <1>5 DEF Killed, Dies
  <2>2. CASE p = Sensor(t)
    <3>1. At(t)' = "dead"
      BY <2>1, <2>2, OnlyOneMoves DEF At
    <3>2. QED
      BY <1>1, <1>2, <2>1, <3>1 DEF RowsKept, Saving, Unsettled
  <2>3. CASE p # Sensor(t)
    BY <1>1, <1>2, <2>1, <2>3, OnlyOneMoves, RowsElsewhere
  <2>4. QED
    BY <2>2, <2>3
<1>6. CASE UNCHANGED vars
  BY <1>1, <1>2, <1>6, RowsElsewhere DEF vars
<1>7. QED
  BY <1>3, <1>4, <1>5, <1>6 DEF Next

\* A saved device has one row, except while it is being saved: the DELETE and
\* the INSERT of SaveData (DataProcess.c) act as one statement.
THEOREM StoreOneRow == Spec => []OneRowEach
<1>1. AllRowsKept => OneRowEach
  <2> SUFFICES ASSUME AllRowsKept, NEW t \in Tables, NEW d \in 1..Devices,
                      saved[t][d] /\ clean[t][d],
                      ~(dev[t] = d /\ pc[Sensor(t)] \in Critical \cup {"dead"})
               PROVE  Len(rows[t][d]) = 1
    BY DEF OneRowEach
  <2>1. RowsKept(t, d)
    BY DEF AllRowsKept
  <2>2. QED
    BY <2>1 DEF RowsKept, At, Critical
<1>2. QED
  BY <1>1, GuardedInit, GuardedStep, TypedInit, TypedStep, RowsInit, RowsStep, PTL DEF Spec

-----------------------------------------------------------------------------
\* What a publisher has polled.

\* While a publisher is between its SELECT and its V no sensor is at work.
LEMMA SensorsWait ==
  ASSUME Guarded, NEW t \in Publishing, pc[Publisher(t)] \in Critical, NEW u \in Tables
  PROVE  At(u) \notin Critical
BY ProcsDiffer DEF Guarded, Held, At

\* The SELECT itself: a saved device is seen once.
LEMMA SelectSees ==
  ASSUME Guarded, StoreTyped, AllRowsKept, NEW t \in Publishing,
         Goes(Publisher(t), "selecting", "v"), polled' = [polled EXCEPT ![t] = rows[t]],
         NEW d \in 1..Devices, saved[t][d], clean[t][d], pc[Sensor(t)] # "dead"
  PROVE  Len(polled'[t][d]) = 1
<1> USE ProcsDiffer
<1>1. RowsKept(t, d)
  BY DEF AllRowsKept
<1>2. pc[Publisher(t)] = "selecting"
  BY DEF Goes
<1>3. At(t) \notin Critical
  BY <1>2, SensorsWait DEF Critical
<1>4. Len(rows[t][d]) = 1
  BY <1>1, <1>3 DEF RowsKept, At, Critical
<1>5. polled'[t] = rows[t]
  BY DEF StoreTyped
<1>6. QED
  BY <1>4, <1>5

LEMMA PollsInit == Init => PollsSeeSaved
<1> SUFFICES ASSUME Init, NEW t \in Publishing PROVE pc[Publisher(t)] # "v"
  BY DEF PollsSeeSaved
<1>1. pc[Publisher(t)] = "Create"
  BY ProcsDiffer DEF Init, Publisher
<1>2. QED
  BY <1>1

LEMMA PollsStep ==
  Guarded /\ StoreTyped /\ AllRowsKept /\ PollsSeeSaved /\ [Next]_vars => PollsSeeSaved'
<1> SUFFICES ASSUME Guarded, StoreTyped, AllRowsKept, PollsSeeSaved, [Next]_vars,
                    NEW t \in Publishing, NEW d \in 1..Devices,
                    pc'[Publisher(t)] = "v", saved'[t][d], clean'[t][d], pc'[Sensor(t)] # "dead"
             PROVE  Len(polled'[t][d]) = 1
  BY DEF PollsSeeSaved
<1> USE ProcsDiffer
<1>1. ASSUME pc[Publisher(t)] = "v", UNCHANGED <<saved[t][d], clean[t][d], polled[t]>>,
             pc[Sensor(t)] # "dead"
      PROVE  Len(polled'[t][d]) = 1
  BY <1>1 DEF PollsSeeSaved
<1>2. ASSUME NEW u \in Tables, SensorStep(u) PROVE Len(polled'[t][d]) = 1
  <2>1. PICK to : pc' = [pc EXCEPT ![Sensor(u)] = to]
    BY <1>2 DEF SensorStep, Semaphore_P, Semaphore_V, CreateTable, ReadRegisters, DeleteTableData,
                InsertTableData, BeginWrite, Goes
  <2>2. pc[Publisher(t)] = "v" /\ (u # t => pc[Sensor(t)] # "dead")
    BY <2>1, OnlyOneMoves
  <2>3. At(u) \notin Critical
    BY <2>2, SensorsWait DEF Critical
  <2>4. UNCHANGED <<clean, saved, polled>> /\ pc[Sensor(u)] # "dead"
    BY <1>2, <2>3 DEF SensorStep, Semaphore_P, Semaphore_V, CreateTable, ReadRegisters,
                      DeleteTableData, InsertTableData, BeginWrite, Goes, At, Critical
  <2>5. QED
    BY <1>1, <2>2, <2>4
<1>3. ASSUME NEW u \in Publishing, PublisherStep(u) PROVE Len(polled'[t][d]) = 1
  <2>1. pc'[Sensor(t)] = pc[Sensor(t)] /\ UNCHANGED <<clean, saved>>
    BY <1>3, PublisherLeavesSensors
  <2>2. CASE Goes(Publisher(u), "selecting", "v") /\ polled' = [polled EXCEPT ![u] = rows[u]]
    <3>1. CASE u = t
      BY <2>1, <2>2, <3>1, SelectSees
    <3>2. CASE u # t
      <4>1. pc'[Publisher(t)] = pc[Publisher(t)]
        BY <2>2, <3>2, OnlyOneMoves DEF Goes, Publisher
      <4>2. UNCHANGED polled[t]
        BY <2>2, <3>2 DEF StoreTyped
      <4>3. QED
        BY <1>1, <2>1, <4>1, <4>2
    <3>3. QED
      BY <3>1, <3>2
  <2>3. CASE /\ UNCHANGED polled
             /\ \E to : to # "v" /\ pc' = [pc EXCEPT ![Publisher(u)] = to]
    <3>1. pc'[Publisher(t)] = pc[Publisher(t)]
      BY <2>3, OnlyOneMoves
    <3>2. QED
      BY <1>1, <2>1, <2>3, <3>1
  <2>4. QED
    BY <1>3, <2>2, <2>3 DEF PublisherStep, CreateUnguarded, PollData, Publish, Semaphore_P,
                            Semaphore_V, BeginWrite, BeginRead, Dies, Goes
<1>4. ASSUME NEW p \in Procs, Killed(p) PROVE Len(polled'[t][d]) = 1
  <2>1. pc' = [pc EXCEPT ![p] = "dead"] /\ UNCHANGED <<clean, saved, polled>>
    BY <1>4 DEF Killed, Dies
  <2>2. pc[Publisher(t)] = "v" /\ pc[Sensor(t)] # "dead"
    BY <2>1, OnlyOneMoves
  <2>3. QED
    BY <1>1, <2>1, <2>2
<1>5. CASE UNCHANGED vars
  BY <1>1, <1>5 DEF vars
<1>6. QED
  BY <1>2, <1>3, <1>4, <1>5 DEF Next

\* A poll (pollAllRecord) finds each saved device once, and never the gap
\* between a sensor's DELETE and its INSERT.
THEOREM StorePolls == Spec => []PollsSeeSaved
BY GuardedInit, GuardedStep, TypedInit, TypedStep, RowsInit, RowsStep, PollsInit, PollsStep,
   PTL DEF Spec

-----------------------------------------------------------------------------
\* What the rows hold.

\* From the read to the insert the registers are those of the device polled.
OwnRows(t) ==
  /\ At(t) \in {"p", "delete", "deleting", "insert", "inserting"} => regs[t] = dev[t]
  /\ \A d \in 1..Devices : \A i \in 1..Len(rows[t][d]) : rows[t][d][i] = d

AllOwn == ~ReadsFail => \A t \in Tables : OwnRows(t)

LEMMA OwnInit == Init => AllOwn
<1> SUFFICES ASSUME Init, NEW t \in Tables PROVE OwnRows(t)
  BY DEF AllOwn
<1>1. At(t) = "p0"
  BY ProcsDiffer DEF Init, At, Sensor
<1>2. \A d \in 1..Devices : rows[t][d] = <<>>
  BY DEF Init
<1>3. QED
  BY <1>1, <1>2 DEF OwnRows

\* The registers stay those of the device through a step that keeps both.
LEMMA OwnKept ==
  ASSUME NEW t \in Tables, OwnRows(t), UNCHANGED <<rows[t], regs[t], dev[t]>>,
         \/ pc'[Sensor(t)] = pc[Sensor(t)]
         \/ pc'[Sensor(t)] \notin {"p", "delete", "deleting", "insert", "inserting"}
         \/ pc[Sensor(t)] \in {"p", "delete", "deleting", "insert", "inserting"}
  PROVE  OwnRows(t)'
BY DEF OwnRows, At

LEMMA OwnOfSensor ==
  ASSUME Guarded, StoreTyped, ~ReadsFail, NEW t \in Tables, OwnRows(t), SensorStep(t)
  PROVE  OwnRows(t)'
<1> USE ProcsDiffer
<1>1. ASSUME NEW from, NEW to, Goes(Sensor(t), from, to) PROVE At(t) = from /\ At(t)' = to
  BY <1>1, OnlyOneMoves DEF Goes, At
<1>2. CASE /\ UNCHANGED <<rows, regs, dev>>
           /\ \/ Semaphore_P(Sensor(t), "p0", "create")
              \/ Semaphore_V(Sensor(t), "v0", "read")
              \/ Semaphore_P(Sensor(t), "p", "delete")
              \/ CreateTable(t)
  <2>1. At(t)' \in {"create", "read", "creating", "v0"} \/ At(t) = "p"
    BY <1>1, <1>2 DEF Semaphore_P, Semaphore_V, CreateTable, BeginWrite
  <2>2. QED
    BY <1>2, <2>1, OwnKept DEF At
<1>3. CASE ReadRegisters(t) /\ UNCHANGED <<rows, dev>>
  <2>1. regs'[t] = dev[t]
    BY <1>3 DEF ReadRegisters, StoreTyped
  <2>2. QED
    BY <1>3, <2>1 DEF OwnRows
<1>4. CASE DeleteTableData(t) /\ UNCHANGED <<regs, dev>>
  <2>1. At(t) \in {"delete", "deleting"}
    BY <1>1, <1>4 DEF DeleteTableData, BeginWrite
  <2>2. CASE UNCHANGED rows
    BY <1>4, <2>1, <2>2, OwnKept DEF At
  <2>3. CASE rows' = [rows EXCEPT ![t][dev[t]] = <<>>]
    <3>1. \A d \in 1..Devices : rows'[t][d] = IF d = dev[t] THEN <<>> ELSE rows[t][d]
      <4>1. <<>> \in Seq(0..Devices)
        OBVIOUS
      <4>2. QED
        BY <2>3, <4>1, OwnCell, ZenonT(40)
    <3>2. QED
      BY <1>4, <2>1, <3>1 DEF OwnRows
  <2>4. QED
    BY <1>4, <2>2, <2>3 DEF DeleteTableData
<1>5. CASE InsertTableData(t) /\ UNCHANGED <<regs, dev>>
  <2>1. At(t) \in {"insert", "inserting"}
    BY <1>1, <1>5 DEF InsertTableData, BeginWrite
  <2>2. CASE UNCHANGED rows
    BY <1>5, <2>1, <2>2, OwnKept DEF At
  <2>3. CASE rows' = [rows EXCEPT ![t][dev[t]] = Append(@, regs[t])]
    <3>1. \A d \in 1..Devices :
            rows'[t][d] = IF d = dev[t] THEN Append(rows[t][d], dev[t]) ELSE rows[t][d]
      <4>1. regs[t] = dev[t]
        BY <2>1 DEF OwnRows
      <4>2. Append(rows[t][dev[t]], regs[t]) \in Seq(0..Devices)
        BY OwnCell
      <4>3. rows' = [rows EXCEPT ![t][dev[t]] = Append(rows[t][dev[t]], regs[t])]
        BY <2>3
      <4>4. \A d \in 1..Devices :
              rows'[t][d] = IF d = dev[t] THEN Append(rows[t][dev[t]], regs[t]) ELSE rows[t][d]
        BY <4>2, <4>3, OwnCell, ZenonT(40)
      <4>5. QED
        BY <4>1, <4>4
    <3>2. ASSUME NEW d \in 1..Devices, NEW i \in 1..Len(rows'[t][d]) PROVE rows'[t][d][i] = d
      <4>1. rows[t][d] \in Seq(0..Devices) /\ \A j \in 1..Len(rows[t][d]) : rows[t][d][j] = d
        BY ZenonT(40) DEF OwnRows, StoreTyped
      <4>2. CASE d = dev[t]
        <5>1. rows'[t][d] = Append(rows[t][d], d)
          BY <3>1, <4>2
        <5>2. QED
          BY <3>2, <4>1, <5>1
      <4>3. CASE d # dev[t]
        BY <3>1, <3>2, <4>1, <4>3
      <4>4. QED
        BY <4>2, <4>3
    <3>3. QED
      BY <1>5, <2>1, <3>2 DEF OwnRows
  <2>4. QED
    BY <1>5, <2>2, <2>3 DEF InsertTableData, Inserted
<1>6. CASE Semaphore_V(Sensor(t), "v", "read") /\ UNCHANGED <<rows, regs>>
  <2>1. At(t)' = "read"
    BY <1>1, <1>6 DEF Semaphore_V
  <2>2. QED
    BY <1>6, <2>1 DEF OwnRows
<1>7. QED
  BY <1>2, <1>3, <1>4, <1>5, <1>6 DEF SensorStep

LEMMA OwnStep == Guarded /\ StoreTyped /\ AllOwn /\ [Next]_vars => AllOwn'
<1> SUFFICES ASSUME Guarded, StoreTyped, AllOwn, [Next]_vars, ~ReadsFail, NEW t \in Tables
             PROVE  OwnRows(t)'
  BY DEF AllOwn
<1> USE ProcsDiffer
<1>1. OwnRows(t)
  BY DEF AllOwn
<1>2. ASSUME NEW u \in Tables, SensorStep(u) PROVE OwnRows(t)'
  <2>1. CASE u = t
    BY <1>1, <1>2, <2>1, OwnOfSensor
  <2>2. CASE u # t
    BY <1>1, <1>2, <2>2, SensorLeavesOthers, OwnKept
  <2>3. QED
    BY <2>1, <2>2
<1>3. ASSUME NEW u \in Publishing, PublisherStep(u) PROVE OwnRows(t)'
  BY <1>1, <1>3, PublisherLeavesSensors, OwnKept
<1>4. ASSUME NEW p \in Procs, Killed(p) PROVE OwnRows(t)'
  <2>1. pc' = [pc EXCEPT ![p] = "dead"] /\ UNCHANGED <<rows, regs, dev>>
    BY <1>4 DEF Killed, Dies
  <2>2. pc'[Sensor(t)] = pc[Sensor(t)] \/ pc'[Sensor(t)] = "dead"
    BY <2>1, OnlyOneMoves
  <2>3. QED
    BY <1>1, <2>1, <2>2, OwnKept
<1>5. CASE UNCHANGED vars
  BY <1>1, <1>5, OwnKept DEF vars
<1>6. QED
  BY <1>2, <1>3, <1>4, <1>5 DEF Next

\* A row holds what was read from the device it is stored for, whoever dies
\* and whichever statement fails, as long as modbus_read_registers does not
\* (NoiseSensor.c).
THEOREM StoreRowsOwn == Spec => []RowsOwn
<1>1. AllOwn => RowsOwn
  BY DEF AllOwn, OwnRows, RowsOwn
<1>2. QED
  BY <1>1, GuardedInit, GuardedStep, TypedInit, TypedStep, OwnInit, OwnStep, PTL DEF Spec

=============================================================================
