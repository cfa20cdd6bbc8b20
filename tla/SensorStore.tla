----------------------------- MODULE SensorStore -----------------------------
(***************************************************************************)
(* The database the gateway's processes share: the sensor processes that   *)
(* save what they read (DeviceApp/NoiseSensor and its siblings), the       *)
(* publishers that poll it (MQTT/MqttPublish.c), the operations between    *)
(* them (DataStorage/DataProcess.c, SqliteInterface.c) and the semaphore   *)
(* that guards them (ProcessCommunication/ProcessSignal.c).                *)
(*                                                                         *)
(* One table per user name: one sensor process writes it, with a row for   *)
(* each of its devices, and at most one publisher reads it.  All tables    *)
(* are in one SQLite file.  A statement is two steps, begun and committed, *)
(* with SQLite's rules: two writers exclude each other, a writer cannot    *)
(* commit while a reader reads, and who loses gets SQLITE_BUSY at once,    *)
(* for no busy timeout is set.                                             *)
(***************************************************************************)
EXTENDS Integers, Sequences

CONSTANTS
  Tables,     \* user names
  Publishing, \* those with a publisher
  Devices,    \* modbus devices polled by each sensor process, 1..Devices
  ReadsFail,  \* TRUE: modbus_read_registers may fail
  MayDie      \* TRUE: a process may be killed

ASSUME StoreAssumption ==
  /\ Publishing \subseteq Tables /\ Devices \in Nat \ {0}
  /\ ReadsFail \in BOOLEAN /\ MayDie \in BOOLEAN

Sensor(t)    == <<"sensor", t>>
Publisher(t) == <<"mqtt", t>>
Procs == {Sensor(t) : t \in Tables} \cup {Publisher(t) : t \in Publishing}

VARIABLES
  pc,     \* where each process is
  sem,    \* the System V semaphore
  undo,   \* what the kernel gives back when a process ends (SEM_UNDO)
  tables, \* tables that exist
  rows,   \* rows[t][d]: the values of the rows for device d
  regs,   \* tabRegisters of each sensor: the device they were read from, 0 for none
  dev,    \* the device being polled
  \* History: the save of rows[t][d] saw every publisher done with its CREATE
  \* (clean); such a save has happened (saved); what the last poll found.
  clean, saved, polled

vars == <<pc, sem, undo, tables, rows, regs, dev, clean, saved, polled>>

Waiting  == {"p0", "p"}
Critical == {"create", "creating", "v0", "delete", "deleting", "insert", "inserting",
             "select", "selecting", "v"}
Writing  == {"creating", "deleting", "inserting", "Creating"}
Reading  == {"selecting", "Checking"}
InFlight == Writing \cup Reading

\* A publisher's own CREATE is outside the semaphore: its states are written
\* with a capital.
Unsettled == {"Create", "Creating", "Checking"}
Settled == \A t \in Publishing : pc[Publisher(t)] \notin Unsettled

Init ==
  /\ pc = [p \in Procs |-> IF p[1] = "sensor" THEN "p0" ELSE "Create"]
  /\ sem = 1 /\ undo = [p \in Procs |-> 0]
  /\ tables = {}
  /\ rows = [t \in Tables |-> [d \in 1..Devices |-> <<>>]]
  /\ regs = [t \in Tables |-> 0] /\ dev = [t \in Tables |-> 1]
  /\ clean = [t \in Tables |-> [d \in 1..Devices |-> FALSE]]
  /\ saved = clean
  /\ polled = rows

Goes(p, from, to) == pc[p] = from /\ pc' = [pc EXCEPT ![p] = to]
Others(p, where)  == \E q \in Procs \ {p} : pc[q] \in where

-----------------------------------------------------------------------------
(* The semaphore.                                                          *)

\* Mutated: SEM_UNDO is left out.
Semaphore_P_NoUndo(p, from, to) ==
  /\ Goes(p, from, to)
  /\ sem > 0 /\ sem' = sem - 1
  /\ UNCHANGED undo

\* Mutated: IPC_NOWAIT, and what semop returns is not looked at.
Semaphore_P_Ignored(p, from, to) ==
  /\ Goes(p, from, to)
  /\ sem' = IF sem > 0 THEN sem - 1 ELSE sem
  /\ undo' = IF sem > 0 THEN [undo EXCEPT ![p] = 1] ELSE undo

Semaphore_P(p, from, to) ==
  /\ Goes(p, from, to)
  /\ sem > 0 /\ sem' = sem - 1
  /\ undo' = [undo EXCEPT ![p] = @ + 1]

Semaphore_V(p, from, to) ==
  /\ Goes(p, from, to)
  /\ sem' = sem + 1
  /\ undo' = [undo EXCEPT ![p] = @ - 1]

\* The process is killed, or dies of a null pointer.
Dies(p) ==
  /\ pc' = [pc EXCEPT ![p] = "dead"]
  /\ sem' = sem + undo[p] /\ undo' = [undo EXCEPT ![p] = 0]

-----------------------------------------------------------------------------
(* SQLite statements (external).                                           *)

\* A writer takes the reserved lock, unless another has it.
BeginWrite(p, from, doing, failed) ==
  \/ ~Others(p, Writing) /\ Goes(p, from, doing)
  \/ Others(p, Writing) /\ Goes(p, from, failed)

\* A reader may still enter before the writer's commit, or find it at work.
BeginRead(p, from, doing) == Goes(p, from, doing)

Commits(p) == ~Others(p, InFlight)

-----------------------------------------------------------------------------
(* The sensor process of table t.                                          *)

\* CreateDataFile under the semaphore.  Its result is printed and ignored.
CreateTable(t) ==
  \/ /\ t \notin tables
     /\ BeginWrite(Sensor(t), "create", "creating", "v0")
     /\ UNCHANGED tables
  \/ /\ t \in tables
     /\ Goes(Sensor(t), "create", "v0")
     /\ UNCHANGED tables
  \/ /\ Goes(Sensor(t), "creating", "v0")
     /\ tables' = IF Commits(Sensor(t)) THEN tables \cup {t} ELSE tables

\* Mutated: the slave ID stays that of the first device.
ReadRegisters_FirstSlave(t) ==
  /\ Goes(Sensor(t), "read", "p")
  /\ regs' = [regs EXCEPT ![t] = 1]

\* modbus_read_registers: a failed read leaves the registers as they were.
ReadRegisters(t) ==
  /\ Goes(Sensor(t), "read", "p")
  /\ \E ok \in IF ReadsFail THEN BOOLEAN ELSE {TRUE} :
       regs' = [regs EXCEPT ![t] = IF ok THEN dev[t] ELSE @]

\* Mutated: the rows of every device go.
DeleteTableData_AllDevices(t) ==
  \/ /\ IF t \in tables THEN BeginWrite(Sensor(t), "delete", "deleting", "insert")
                        ELSE Goes(Sensor(t), "delete", "insert")
     /\ clean' = [clean EXCEPT ![t][dev[t]] = Settled]
     /\ UNCHANGED rows
  \/ /\ Goes(Sensor(t), "deleting", "insert")
     /\ rows' = IF Commits(Sensor(t)) THEN [rows EXCEPT ![t] = [d \in 1..Devices |-> <<>>]] ELSE rows
     /\ UNCHANGED clean

\* The first half of SaveData; SQLITE_BUSY is ignored.
DeleteTableData(t) ==
  \/ /\ IF t \in tables THEN BeginWrite(Sensor(t), "delete", "deleting", "insert")
                        ELSE Goes(Sensor(t), "delete", "insert")
     /\ clean' = [clean EXCEPT ![t][dev[t]] = Settled]
     /\ UNCHANGED rows
  \/ /\ Goes(Sensor(t), "deleting", "insert")
     /\ rows' = IF Commits(Sensor(t)) THEN [rows EXCEPT ![t][dev[t]] = <<>>] ELSE rows
     /\ UNCHANGED clean

\* The second half: one row more for the device.
Inserted(t) ==
  IF Commits(Sensor(t)) THEN [rows EXCEPT ![t][dev[t]] = Append(@, regs[t])] ELSE rows

InsertTableData(t) ==
  \/ /\ IF t \in tables THEN BeginWrite(Sensor(t), "insert", "inserting", "v")
                        ELSE Goes(Sensor(t), "insert", "v")
     /\ UNCHANGED <<rows, saved>>
  \/ /\ Goes(Sensor(t), "inserting", "v")
     /\ rows' = Inserted(t)
     /\ saved' = [saved EXCEPT ![t][dev[t]] = @ \/ clean[t][dev[t]]]

NextDevice(t) == dev' = [dev EXCEPT ![t] = IF @ = Devices THEN 1 ELSE @ + 1]

SensorStep(t) ==
  \/ /\ \/ Semaphore_P(Sensor(t), "p0", "create")
        \/ Semaphore_V(Sensor(t), "v0", "read")
        \/ Semaphore_P(Sensor(t), "p", "delete")
     /\ UNCHANGED <<tables, rows, regs, dev, clean, saved, polled>>
  \/ /\ CreateTable(t)
     /\ UNCHANGED <<sem, undo, rows, regs, dev, clean, saved, polled>>
  \/ /\ ReadRegisters(t)
     /\ UNCHANGED <<sem, undo, tables, rows, dev, clean, saved, polled>>
  \/ /\ DeleteTableData(t)
     /\ UNCHANGED <<sem, undo, tables, regs, dev, saved, polled>>
  \/ /\ InsertTableData(t)
     /\ UNCHANGED <<sem, undo, tables, regs, dev, clean, polled>>
  \/ /\ Semaphore_V(Sensor(t), "v", "read")
     /\ NextDevice(t)
     /\ UNCHANGED <<tables, rows, regs, clean, saved, polled>>

-----------------------------------------------------------------------------
(* The publisher of table t.                                               *)

\* CreateDataFile without the semaphore; where the table exists the statement
\* only reads the schema.
CreateUnguarded(t) ==
  \/ /\ t \notin tables
     /\ BeginWrite(Publisher(t), "Create", "Creating", "p")
     /\ UNCHANGED tables
  \/ /\ t \in tables
     /\ BeginRead(Publisher(t), "Create", "Checking")
     /\ UNCHANGED tables
  \/ /\ Goes(Publisher(t), "Creating", "p")
     /\ tables' = IF Commits(Publisher(t)) THEN tables \cup {t} ELSE tables
  \/ /\ Goes(Publisher(t), "Checking", "p")
     /\ UNCHANGED tables

\* Mutated: the poll is not guarded.
PollData_Unguarded(t) ==
  /\ t \in tables
  /\ \/ Goes(Publisher(t), "p", "selecting") /\ UNCHANGED polled
     \/ Goes(Publisher(t), "selecting", "v") /\ polled' = [polled EXCEPT ![t] = rows[t]]
     \/ Goes(Publisher(t), "v", "publish") /\ UNCHANGED polled
  /\ UNCHANGED <<sem, undo>>

\* PollData under the semaphore.  pollAllRecord goes on with a null result
\* when the SELECT fails, without the table or next to a writer, and reads past
\* the end of the result of an empty table, which may or may not end the process.
PollData(t) ==
  \/ Semaphore_P(Publisher(t), "p", "select") /\ UNCHANGED polled
  \/ /\ t \in tables
     /\ BeginRead(Publisher(t), "select", "selecting")
     /\ UNCHANGED <<sem, undo, polled>>
  \/ /\ \/ pc[Publisher(t)] = "select" /\ (t \notin tables \/ Others(Publisher(t), Writing))
        \/ pc[Publisher(t)] = "selecting" /\ \A d \in 1..Devices : rows[t][d] = <<>>
     /\ Dies(Publisher(t)) /\ UNCHANGED polled
  \/ /\ Goes(Publisher(t), "selecting", "v")
     /\ polled' = [polled EXCEPT ![t] = rows[t]]
     /\ UNCHANGED <<sem, undo>>
  \/ Semaphore_V(Publisher(t), "v", "publish") /\ UNCHANGED polled

\* The payloads are sent and the process sleeps.
Publish(t) == Goes(Publisher(t), "publish", "p")

PublisherStep(t) ==
  \/ CreateUnguarded(t) /\ UNCHANGED <<sem, undo, rows, regs, dev, clean, saved, polled>>
  \/ PollData(t) /\ UNCHANGED <<tables, rows, regs, dev, clean, saved>>
  \/ Publish(t) /\ UNCHANGED <<sem, undo, tables, rows, regs, dev, clean, saved, polled>>

\* Nobody starts a process again.
Killed(p) ==
  /\ MayDie /\ pc[p] # "dead"
  /\ Dies(p)
  /\ UNCHANGED <<tables, rows, regs, dev, clean, saved, polled>>

Next ==
  \/ \E t \in Tables : SensorStep(t)
  \/ \E t \in Publishing : PublisherStep(t)
  \/ \E p \in Procs : Killed(p)

Spec == Init /\ [][Next]_vars

\* Every process goes on, and semop wakes those that wait in turn.
Fairness ==
  /\ \A t \in Tables : SF_vars(SensorStep(t))
  /\ \A t \in Publishing : SF_vars(PublisherStep(t))

FairSpec == Spec /\ Fairness

-----------------------------------------------------------------------------
TypeOK ==
  /\ pc \in [Procs -> Waiting \cup Critical \cup Unsettled \cup {"read", "publish", "dead"}]
  /\ sem \in 0..1 /\ undo \in [Procs -> 0..1]
  /\ tables \subseteq Tables
  /\ rows \in [Tables -> [1..Devices -> Seq(0..Devices)]]
  /\ regs \in [Tables -> 0..Devices] /\ dev \in [Tables -> 1..Devices]
  /\ clean \in [Tables -> [1..Devices -> BOOLEAN]] /\ saved \in [Tables -> [1..Devices -> BOOLEAN]]
  /\ polled \in [Tables -> [1..Devices -> Seq(0..Devices)]]

\* At most one process is in the database under the semaphore, and the
\* semaphore is free exactly when none is, also after one has died there.
Inside == {p \in Procs : pc[p] \in Critical}
SemaphoreKept ==
  /\ \A p, q \in Inside : p = q
  /\ (Inside = {} <=> sem = 1)

\* A device whose save met no unguarded CREATE has exactly one row until its
\* next save: the two statements of SaveData act as one.
OneRowEach ==
  \A t \in Tables, d \in 1..Devices :
    saved[t][d] /\ clean[t][d] /\ ~(dev[t] = d /\ pc[Sensor(t)] \in Critical \cup {"dead"}) =>
      Len(rows[t][d]) = 1

\* A row saved for a device holds what was read from that device
\* (NoiseSensor.c:147-151), as long as no read fails: the result of
\* modbus_read_registers is not looked at.
RowsOwn ==
  ~ReadsFail => \A t \in Tables, d \in 1..Devices :
                  \A i \in 1..Len(rows[t][d]) : rows[t][d][i] = d

\* A poll finds every device once that has been saved so before, unless its
\* sensor process has died: it never sees the gap between delete and insert.
PollsSeeSaved ==
  \A t \in Publishing, d \in 1..Devices :
    pc[Publisher(t)] = "v" /\ saved[t][d] /\ clean[t][d] /\ pc[Sensor(t)] # "dead" =>
      Len(polled[t][d]) = 1

\* Every publisher polls again and again, or is dead; a process that dies
\* under the semaphore does not stop the others.
KeepsPolling ==
  \A t \in Publishing : []<>(pc[Publisher(t)] \in {"publish", "dead"})

=============================================================================
