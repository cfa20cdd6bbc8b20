----------------------------- MODULE ProcessTree -----------------------------
(***************************************************************************)
(* The processes of the gateway (Main.c).  The main process sets the       *)
(* semaphore and forks one worker after the other: Creat*Process, in the   *)
(* order of Kinds.  A worker whose function comes back returns from its    *)
(* Creat function into main(), goes on with the later Creat functions as   *)
(* if it were the main process, and ends up in the indicator loop.         *)
(*                                                                         *)
(* A worker asks to be signalled when its parent dies                      *)
(* (SetProcessCloseSignal), which it can only do after the fork.  Nobody   *)
(* waits for a worker; the main process may be started again.              *)
(***************************************************************************)
EXTENDS Integers, Sequences, FiniteSets

CONSTANTS
  Procs,     \* room in the process table: numbers, 0 is not one of them
  Workers,   \* the configuration: the kinds of the workers, as they are forked
  ForksFail, \* TRUE: fork() may return -1
  MaxStarts  \* bound: times the main process is started

Net2Uart == 1  Noise == 2   AirQuality == 3  SojoRelay == 4
Iec101 == 5    Iec104 == 6  Mqtt == 7        Web == 8
Kinds == Net2Uart..Web

\* Kinds that use the database, and so the semaphore; kinds whose function
\* comes back: without a UART or a socket, without modbus, when goahead ends.
Stores  == Noise..Mqtt
Returns == {Net2Uart, Noise, AirQuality, SojoRelay, Web}

ASSUME ProcsAssumption == Procs \subseteq Nat \ {0} /\ Procs # {} /\ IsFiniteSet(Procs)
ASSUME WorkersAssumption ==
  /\ Workers \in Seq(Kinds)
  /\ \A i, j \in 1..Len(Workers) : i < j => Workers[i] <= Workers[j]
ASSUME StartsAssumption == ForksFail \in BOOLEAN /\ MaxStarts \in Nat

VARIABLES
  at,       \* where each process is, "none" for a free place
  job,      \* the worker it was forked to be, 0 for the main process
  parent,   \* who forked it, 0 once that one is gone
  pos,      \* in the Creat functions: the worker to be forked next
  guarded,  \* SetProcessCloseSignal has been called
  signal,   \* SIGINT or SIGHUP is pending
  sem,      \* the System V semaphore
  undo,     \* what the kernel gives back when a process ends (SEM_UNDO)
  starts,   \* starts of the main process so far
  \* History: the parent died between fork and prctl, or was itself stray
  \* (stray); kinds that have come back into main; the semaphore was set while
  \* a process was in the database (setOver).
  stray, returned, setOver

processVars == <<at, job, parent, pos, guarded, signal, stray>>
semVars     == <<sem, undo, setOver>>
vars == <<processVars, semVars, starts, returned>>

Free   == {p \in Procs : at[p] = "none"}
Live   == Procs \ Free
Main   == {p \in Live : job[p] = 0}
Inside == {p \in Procs : at[p] = "inside"}

Kind(p) == Workers[job[p]]

Init ==
  /\ at = [p \in Procs |-> "none"]
  /\ job = [p \in Procs |-> 0] /\ parent = job /\ pos = [p \in Procs |-> 1]
  /\ guarded = [p \in Procs |-> FALSE] /\ signal = guarded /\ stray = guarded
  /\ sem = 1 /\ undo = [p \in Procs |-> 0]
  /\ starts = 0
  /\ returned = {} /\ setOver = FALSE

Goes(p, from, to) == at[p] = from /\ at' = [at EXCEPT ![p] = to]

-----------------------------------------------------------------------------
(* Processes begin and end.                                                *)

\* A free place keeps the values it had in Init.
NewProcess(q, where, what, by) ==
  /\ at' = [at EXCEPT ![q] = where]
  /\ job' = [job EXCEPT ![q] = what]
  /\ parent' = [parent EXCEPT ![q] = by]
  /\ stray' = [stray EXCEPT ![q] = by # 0 /\ stray[by]]

\* Somebody starts the program; not while its main process lives.
Start(q) ==
  /\ q \in Free /\ \A p \in Free : q <= p
  /\ Main = {} /\ starts < MaxStarts
  /\ NewProcess(q, "setup", 0, 0)
  /\ starts' = starts + 1
  /\ UNCHANGED <<pos, guarded, signal, semVars, returned>>

\* SETVAL also clears what the kernel would undo, of every process.
SetSemValue(p) ==
  /\ Goes(p, "setup", "creating")
  /\ sem' = 1 /\ undo' = [q \in Procs |-> 0]
  /\ setOver' = (setOver \/ Inside # {})
  /\ UNCHANGED <<job, parent, pos, guarded, signal, stray, starts, returned>>

\* The kernel gives back what SEM_UNDO has counted and signals the children
\* that have asked for it (PR_SET_PDEATHSIG).
Dies(p) ==
  /\ at' = [at EXCEPT ![p] = "none"]
  /\ job' = [job EXCEPT ![p] = 0] /\ pos' = [pos EXCEPT ![p] = 1]
  /\ guarded' = [guarded EXCEPT ![p] = FALSE]
  /\ parent' = [q \in Procs |-> IF q = p \/ parent[q] = p THEN 0 ELSE parent[q]]
  /\ signal' = [q \in Procs |-> q # p /\ (signal[q] \/ (parent[q] = p /\ guarded[q]))]
  /\ stray' = [q \in Procs |-> q # p /\ (stray[q] \/ (parent[q] = p /\ at[q] = "forked"))]
  /\ sem' = IF sem + undo[p] < 0 THEN 0 ELSE sem + undo[p]
  /\ undo' = [undo EXCEPT ![p] = 0]
  /\ UNCHANGED <<starts, returned, setOver>>

Killed(p) == p \in Live /\ Dies(p)

\* HandleSignal calls exit(0); without the handler SIGINT ends the process too.
HandleSignal(p) == p \in Live /\ signal[p] /\ Dies(p)

\* Ctrl-C reaches the whole process group; system() ignores it while it waits.
CtrlC ==
  /\ Main # {}
  /\ signal' = [p \in Procs |-> signal[p] \/
                  (p \in Live /\ ~(at[p] = "begin" /\ job[p] # 0 /\ Kind(p) = Web))]
  /\ UNCHANGED <<at, job, parent, pos, guarded, stray, semVars, starts, returned>>

-----------------------------------------------------------------------------
(* The Creat functions, in the main process or in a worker that came back. *)

\* Mutated: one turn of the loop too many.
Fork_OneMore(p) ==
  /\ at[p] = "creating" /\ pos[p] <= Len(Workers) + 1
  /\ \/ \E q \in Free : (\A r \in Free : q <= r) /\ NewProcess(q, "forked", pos[p], p)
     \/ /\ ForksFail \/ Free = {}
        /\ UNCHANGED <<at, job, parent, stray>>
  /\ pos' = [pos EXCEPT ![p] = @ + 1]
  /\ UNCHANGED <<guarded, signal, semVars, starts, returned>>

\* fork(); that it returned -1 is noticed by nobody.
Fork(p) ==
  /\ at[p] = "creating" /\ pos[p] <= Len(Workers)
  /\ \/ \E q \in Free : (\A r \in Free : q <= r) /\ NewProcess(q, "forked", pos[p], p)
     \/ /\ ForksFail \/ Free = {}
        /\ UNCHANGED <<at, job, parent, stray>>
  /\ pos' = [pos EXCEPT ![p] = @ + 1]
  /\ UNCHANGED <<guarded, signal, semVars, starts, returned>>

\* All are forked: the indicator loop.
IndicatorLedRunning(p) ==
  /\ pos[p] > Len(Workers) /\ Goes(p, "creating", "led")
  /\ pos' = [pos EXCEPT ![p] = 1]
  /\ UNCHANGED <<job, parent, guarded, signal, stray, semVars, starts, returned>>

-----------------------------------------------------------------------------
(* The worker.                                                             *)

\* Mutated: the handlers are set, the calls of prctl left out.
SetProcessCloseSignal_HandlerOnly(p) ==
  /\ Goes(p, "forked", "begin")
  /\ UNCHANGED <<job, parent, pos, guarded, signal, stray, semVars, starts, returned>>

\* Too late for a parent that has gone meanwhile.
SetProcessCloseSignal(p) ==
  /\ Goes(p, "forked", "begin")
  /\ guarded' = [guarded EXCEPT ![p] = TRUE]
  /\ UNCHANGED <<job, parent, pos, signal, stray, semVars, starts, returned>>

\* The modbus, the IEC links or the MQTT client are ready.
Initialised(p) ==
  /\ Goes(p, "begin", "outside") /\ Kind(p) \in Stores
  /\ UNCHANGED <<job, parent, pos, guarded, signal, stray, semVars, starts, returned>>

\* Mutated: the worker goes on with its own Creat function's loop.
ReturnsIntoMain_OwnLoop(p) ==
  /\ at[p] = "begin" /\ Kind(p) \in Returns
  /\ at' = [at EXCEPT ![p] = "creating"]
  /\ pos' = [pos EXCEPT ![p] = job[p]]
  /\ returned' = returned \cup {Kind(p)}
  /\ UNCHANGED <<job, parent, guarded, signal, stray, semVars, starts>>

\* "return NO_ERROR" in the child: the loop of its own kind is left, those of
\* the later kinds are run.
ReturnsIntoMain(p) ==
  /\ at[p] = "begin" /\ Kind(p) \in Returns
  /\ at' = [at EXCEPT ![p] = "creating"]
  /\ \E j \in 1..Len(Workers) + 1 :
       /\ \A i \in 1..Len(Workers) : i < j <=> Workers[i] <= Kind(p)
       /\ pos' = [pos EXCEPT ![p] = j]
  /\ returned' = returned \cup {Kind(p)}
  /\ UNCHANGED <<job, parent, guarded, signal, stray, semVars, starts>>

\* Mutated: sem_flg is 0.
Semaphore_P_NoUndo(p) ==
  /\ Goes(p, "outside", "inside")
  /\ sem > 0 /\ sem' = sem - 1
  /\ UNCHANGED <<job, parent, pos, guarded, signal, stray, undo, setOver, starts, returned>>

Semaphore_P(p) ==
  /\ Goes(p, "outside", "inside")
  /\ sem > 0 /\ sem' = sem - 1
  /\ undo' = [undo EXCEPT ![p] = @ + 1]
  /\ UNCHANGED <<job, parent, pos, guarded, signal, stray, setOver, starts, returned>>

Semaphore_V(p) ==
  /\ Goes(p, "inside", "outside")
  /\ sem' = sem + 1
  /\ undo' = [undo EXCEPT ![p] = @ - 1]
  /\ UNCHANGED <<job, parent, pos, guarded, signal, stray, setOver, starts, returned>>

Next ==
  \/ CtrlC
  \/ \E p \in Procs :
       \/ Start(p) \/ SetSemValue(p) \/ Killed(p) \/ HandleSignal(p)
       \/ Fork(p) \/ IndicatorLedRunning(p)
       \/ SetProcessCloseSignal(p) \/ Initialised(p) \/ ReturnsIntoMain(p)
       \/ Semaphore_P(p) \/ Semaphore_V(p)

Spec == Init /\ [][Next]_vars

\* The kernel delivers signals.  Nothing else has to happen.
FairSpec == Spec /\ \A p \in Procs : WF_vars(HandleSignal(p))

-----------------------------------------------------------------------------
TypeOK ==
  /\ at \in [Procs -> {"none", "setup", "creating", "led", "forked", "begin",
                       "outside", "inside"}]
  /\ job \in [Procs -> 0..Len(Workers)] /\ parent \in [Procs -> Procs \cup {0}]
  /\ pos \in [Procs -> 1..Len(Workers) + 1]
  /\ guarded \in [Procs -> BOOLEAN] /\ signal \in [Procs -> BOOLEAN]
  /\ stray \in [Procs -> BOOLEAN]
  /\ sem \in Nat /\ undo \in [Procs -> Int]
  /\ starts \in 0..MaxStarts
  /\ returned \subseteq Kinds /\ setOver \in BOOLEAN

\* A worker runs twice only where a worker of an earlier kind has come back
\* into main, or where one of the two is left from a main process that died:
\* about to be signalled, or stray.
OneCopyEach ==
  \A p, q \in Live :
    /\ p # q /\ job[p] = job[q] /\ job[p] # 0
    => \/ \E k \in returned : k < Kind(p)
       \/ signal[p] \/ signal[q] \/ stray[p] \/ stray[q]

\* A worker whose parent is gone is being signalled, unless the parent went
\* between fork and prctl.
NobodyForgotten ==
  \A p \in Live : job[p] # 0 /\ parent[p] = 0 => signal[p] \/ stray[p]

\* One process at most is in the database, and the semaphore is there when
\* none is: across returns, deaths and restarts, unless a restart has set the
\* semaphore while a process left over was in the database.
ExclusiveAcrossRestarts ==
  ~setOver =>
    /\ \A p, q \in Inside : p = q
    /\ sem = IF Inside = {} THEN 1 ELSE 0

\* When the main process is gone for good, what descends from it goes too.
EndsWithMain ==
  (starts = MaxStarts /\ Main = {}) ~> (\A p \in Live : stray[p])

=============================================================================
