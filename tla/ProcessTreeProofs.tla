-------------------------- MODULE ProcessTreeProofs --------------------------
(***************************************************************************)
(* For any configuration, any room in the process table and any number of  *)
(* restarts, with processes killed at any moment: no worker outlives its   *)
(* parent unsignalled, none runs twice without one of the reasons the code *)
(* gives, and the semaphore excludes until a restart sets it over somebody.*)
(***************************************************************************)
EXTENDS ProcessTree, TLAPS

\* What may put two copies of a worker side by side, said of one of them.
Excused(p) == signal[p] \/ stray[p] \/ \E k \in returned : k < Kind(p)

Roles ==
  /\ \A p, q \in Procs : p \in Main /\ q \in Main => p = q
  /\ \A p \in Procs :
       /\ at[p] = "none" => job[p] = 0
       /\ job[p] = 0 => parent[p] = 0
       /\ at[p] = "setup" => job[p] = 0
       /\ at[p] \in {"forked", "begin", "outside", "inside"} => job[p] # 0
       /\ job[p] # 0 /\ at[p] # "forked" => guarded[p]
       /\ parent[p] # 0 => at[parent[p]] \in {"creating", "led"}

\* A worker that forks has come back, and forks later kinds only.
CameBack ==
  \A p \in Procs : at[p] = "creating" /\ job[p] # 0 =>
    /\ Kind(p) \in returned
    /\ \A j \in 1..Len(Workers) : pos[p] <= j => Kind(p) < Workers[j]

\* The others were forked by the main process, each in its turn.
InTurn ==
  \A p \in Procs : job[p] # 0 =>
    \/ Excused(p)
    \/ parent[p] \in Main /\ (at[parent[p]] = "creating" => job[p] < pos[parent[p]])

Tree == TypeOK /\ Roles /\ CameBack /\ InTurn /\ NobodyForgotten /\ OneCopyEach

LEMMA WorkersAreKinds ==
  /\ Len(Workers) \in Nat
  /\ \A j \in 1..Len(Workers) : Workers[j] \in Kinds /\ Workers[j] \in Nat
BY WorkersAssumption DEF Kinds, Net2Uart, Web

LEMMA TypeInit == Init => Tree
<1> SUFFICES ASSUME Init PROVE Tree
  OBVIOUS
<1>1. TypeOK
  <2>1. /\ guarded \in [Procs -> BOOLEAN] /\ signal \in [Procs -> BOOLEAN]
        /\ stray \in [Procs -> BOOLEAN] /\ setOver \in BOOLEAN
    BY DEF Init
  <2>2. job \in [Procs -> 0..Len(Workers)] /\ parent \in [Procs -> Procs \cup {0}]
    BY WorkersAreKinds DEF Init
  <2>3. pos \in [Procs -> 1..Len(Workers) + 1]
    BY WorkersAreKinds DEF Init
  <2>4. QED
    BY <2>1, <2>2, <2>3, StartsAssumption DEF Init, TypeOK
<1>2. Live = {} /\ Main = {}
  BY DEF Init, Main, Live, Free
<1>3. \A p \in Procs : at[p] = "none" /\ job[p] = 0 /\ parent[p] = 0
  BY DEF Init
<1>4. QED
  BY <1>1, <1>2, <1>3 DEF Tree, Roles, CameBack, InTurn, NobodyForgotten, OneCopyEach

LEMMA StartStep ==
  ASSUME Tree, NEW p \in Procs, Start(p)
  PROVE  Tree'
<1> USE ProcsAssumption, StartsAssumption, WorkersAreKinds
<1>1. TypeOK'
  BY DEF Tree, TypeOK, Start, NewProcess, Free, semVars
<1>2. at[p] = "none" /\ job[p] = 0 /\ parent[p] = 0
  BY DEF Tree, Roles, Start, Free
<1>3. job' = job /\ parent' = parent /\ Main = {} /\ Main' = {p}
  BY <1>2 DEF Tree, TypeOK, Start, NewProcess, Main, Live, Free
<1>4. \A q \in Procs : q # p => at'[q] = at[q] /\ stray'[q] = stray[q]
  BY DEF Tree, TypeOK, Start, NewProcess
<1>5. at'[p] = "setup" /\ stray'[p] = FALSE
  BY DEF Tree, TypeOK, Start, NewProcess
<1>6. UNCHANGED <<pos, guarded, signal, returned>>
  BY DEF Start
<1>7. Roles'
  BY <1>2, <1>3, <1>4, <1>5, <1>6 DEF Tree, TypeOK, Roles
<1>8. QED
  BY <1>1, <1>2, <1>3, <1>4, <1>5, <1>6, <1>7
     DEF Tree, Roles, CameBack, InTurn, NobodyForgotten, OneCopyEach, Excused, Kind, Live, Free

\* A step that leaves at, the family and the signals as they are, but for the
\* place of one process that is neither forking before nor after.
LEMMA MoveStep ==
  ASSUME Tree, NEW p \in Procs, NEW from, NEW to,
         Goes(p, from, to), TypeOK',
         from \in {"setup", "forked", "begin", "creating", "inside", "outside"},
         to \in {"creating", "led", "begin", "outside", "inside"},
         from = "setup" => to = "creating",
         to = "creating" => from = "setup",
         to = "led" <=> from = "creating",
         UNCHANGED <<job, parent, signal, stray, returned>>,
         \A q \in Procs : q # p => pos'[q] = pos[q] /\ guarded'[q] = guarded[q],
         to # "led" => pos' = pos,
         guarded[p] => guarded'[p],
         from = "forked" => guarded'[p]
  PROVE  Tree'
<1> USE ProcsAssumption, WorkersAreKinds
<1>1. Live' = Live /\ Main' = Main
  BY DEF Goes, Main, Live, Free, Tree, TypeOK
<1>2. at'[p] = to /\ \A q \in Procs : q # p => at'[q] = at[q]
  BY DEF Goes, Tree, TypeOK
<1>3. at[p] = from
  BY DEF Goes
<1>4. Roles'
  <2>1. \A q \in Procs :
          /\ at'[q] = "none" => job'[q] = 0
          /\ job'[q] = 0 => parent'[q] = 0
          /\ at'[q] = "setup" => job'[q] = 0
          /\ job'[q] # 0 /\ at'[q] # "forked" => guarded'[q]
    BY <1>2, <1>3 DEF Tree, Roles
  <2>2. \A q \in Procs : at'[q] \in {"forked", "begin", "outside", "inside"} => job'[q] # 0
    BY <1>2, <1>3 DEF Tree, Roles
  <2>3. \A q \in Procs : parent'[q] # 0 => at'[parent'[q]] \in {"creating", "led"}
    <3> SUFFICES ASSUME NEW q \in Procs, parent[q] # 0
                 PROVE  at'[parent[q]] \in {"creating", "led"}
      OBVIOUS
    <3>1. parent[q] \in Procs /\ at[parent[q]] \in {"creating", "led"}
      BY DEF Tree, TypeOK, Roles
    <3>2. QED
      BY <1>2, <1>3, <3>1
  <2>4. QED
    BY <1>1, <2>1, <2>2, <2>3 DEF Tree, Roles
<1>5. CameBack'
  BY <1>2, <1>3 DEF Tree, CameBack, Kind, Roles
<1>6. \A q \in Procs : Excused(q)' <=> Excused(q)
  BY DEF Excused, Kind
<1>7. InTurn'
  <2> SUFFICES ASSUME NEW q \in Procs, job[q] # 0, ~Excused(q)
               PROVE  /\ parent[q] \in Main
                      /\ at'[parent[q]] = "creating" => job[q] < pos'[parent[q]]
    BY <1>1, <1>6 DEF InTurn
  <2>1. parent[q] \in Main /\ (at[parent[q]] = "creating" => job[q] < pos[parent[q]])
    BY DEF Tree, InTurn
  <2>2. parent[q] \in Procs /\ at[parent[q]] \in {"creating", "led"}
    BY <2>1, ProcsAssumption DEF Tree, Roles, Main, Live
  <2>3. QED
    BY <1>2, <1>3, <2>1, <2>2
<1>8. QED
  BY <1>1, <1>4, <1>5, <1>6, <1>7 DEF Tree, NobodyForgotten, OneCopyEach, Kind

LEMMA DiesStep ==
  ASSUME Tree, NEW p \in Procs, p \in Live, Dies(p)
  PROVE  Tree'
<1> USE ProcsAssumption, WorkersAreKinds
<1>1. TypeOK'
  <2>1. /\ guarded' \in [Procs -> BOOLEAN] /\ signal' \in [Procs -> BOOLEAN]
        /\ stray' \in [Procs -> BOOLEAN] /\ setOver' \in BOOLEAN
    BY DEF Tree, TypeOK, Dies
  <2>2. job' \in [Procs -> 0..Len(Workers)] /\ parent' \in [Procs -> Procs \cup {0}]
    BY DEF Tree, TypeOK, Dies
  <2>3. pos' \in [Procs -> 1..Len(Workers) + 1]
    BY DEF Tree, TypeOK, Dies
  <2>4. sem' \in Nat /\ undo' \in [Procs -> Int]
    BY DEF Tree, TypeOK, Dies
  <2>5. QED
    BY <2>1, <2>2, <2>3, <2>4 DEF Tree, TypeOK, Dies
<1>2. /\ at'[p] = "none" /\ job'[p] = 0 /\ parent'[p] = 0
      /\ returned' = returned
  BY DEF Tree, TypeOK, Dies
<1>3. \A q \in Procs : q # p =>
        /\ at'[q] = at[q] /\ job'[q] = job[q] /\ pos'[q] = pos[q] /\ guarded'[q] = guarded[q]
        /\ parent'[q] = IF parent[q] = p THEN 0 ELSE parent[q]
  BY DEF Tree, TypeOK, Dies
<1>4. \A q \in Procs : q # p =>
        /\ signal'[q] <=> signal[q] \/ (parent[q] = p /\ guarded[q])
        /\ stray'[q] <=> stray[q] \/ (parent[q] = p /\ at[q] = "forked")
  BY DEF Tree, TypeOK, Dies
<1>5. Live' = Live \ {p} /\ Main' = Main \ {p}
  BY <1>2, <1>3 DEF Main, Live, Free
<1>6. Roles'
  <2>1. \A q \in Procs : parent'[q] # 0 =>
          q # p /\ parent'[q] = parent[q] /\ parent[q] # p /\ parent[q] \in Procs
    BY <1>2, <1>3 DEF Tree, TypeOK
  <2>2. \A q \in Procs : parent'[q] # 0 => at'[parent'[q]] \in {"creating", "led"}
    <3> SUFFICES ASSUME NEW q \in Procs, parent'[q] # 0
                 PROVE  at'[parent'[q]] \in {"creating", "led"}
      OBVIOUS
    <3>1. parent'[q] = parent[q] /\ parent[q] # p /\ parent[q] \in Procs /\ parent[q] # 0
      BY <2>1
    <3>2. at[parent[q]] \in {"creating", "led"}
      BY <3>1 DEF Tree, Roles
    <3>3. QED
      BY <1>3, <3>1, <3>2
  <2>3. \A q \in Procs :
          /\ at'[q] = "none" => job'[q] = 0
          /\ job'[q] = 0 => parent'[q] = 0
          /\ at'[q] = "setup" => job'[q] = 0
          /\ job'[q] # 0 /\ at'[q] # "forked" => guarded'[q]
    BY <1>2, <1>3 DEF Tree, Roles
  <2>4. \A q \in Procs : at'[q] \in {"forked", "begin", "outside", "inside"} => job'[q] # 0
    BY <1>2, <1>3 DEF Tree, Roles
  <2>5. QED
    BY <1>5, <2>2, <2>3, <2>4 DEF Tree, Roles
<1>7. CameBack'
  BY <1>2, <1>3 DEF Tree, CameBack, Kind
\* A child of p is signalled, or stray.
<1>8. \A q \in Procs : q # p /\ parent[q] = p => signal'[q] \/ stray'[q]
  <2> SUFFICES ASSUME NEW q \in Procs, q # p, parent[q] = p PROVE signal'[q] \/ stray'[q]
    OBVIOUS
  <2>1. at[q] = "forked" \/ guarded[q]
    BY DEF Tree, Roles
  <2>2. QED
    BY <1>4, <2>1
<1>9. \A q \in Procs : q # p /\ Excused(q) => Excused(q)'
  BY <1>2, <1>3, <1>4 DEF Excused, Kind
<1>10. InTurn'
  <2> SUFFICES ASSUME NEW q \in Procs, job'[q] # 0, ~Excused(q)'
               PROVE  /\ parent'[q] \in Main'
                      /\ at'[parent'[q]] = "creating" => job'[q] < pos'[parent'[q]]
    BY DEF InTurn
  <2>1. q # p /\ parent[q] # p /\ ~Excused(q)
    BY <1>2, <1>8, <1>9 DEF Excused
  <2>2. parent'[q] = parent[q] /\ job'[q] = job[q]
    BY <1>3, <2>1
  <2>3. parent[q] \in Main /\ (at[parent[q]] = "creating" => job[q] < pos[parent[q]])
    BY <2>1, <2>2 DEF Tree, InTurn
  <2>4. parent[q] \in Procs
    BY <2>3 DEF Main, Live
  <2>5. QED
    BY <1>3, <1>5, <2>1, <2>2, <2>3, <2>4
<1>11. NobodyForgotten'
  <2> SUFFICES ASSUME NEW q \in Live', job'[q] # 0, parent'[q] = 0
               PROVE  signal'[q] \/ stray'[q]
    BY DEF NobodyForgotten
  <2>1. q \in Live /\ q \in Procs /\ q # p /\ job[q] # 0
    BY <1>3, <1>5 DEF Live
  <2>2. CASE parent[q] = p
    BY <1>8, <2>1, <2>2
  <2>3. CASE parent[q] # p
    BY <1>3, <1>4, <2>1, <2>3 DEF Tree, NobodyForgotten
  <2>4. QED
    BY <2>2, <2>3
<1>12. OneCopyEach'
  <2> SUFFICES ASSUME NEW q \in Live', NEW r \in Live', q # r, job'[q] = job'[r], job'[q] # 0
               PROVE  Excused(q)' \/ Excused(r)'
    BY DEF OneCopyEach, Excused, Kind
  <2>1. /\ q \in Live /\ r \in Live /\ q \in Procs /\ r \in Procs
        /\ q # p /\ r # p /\ job[q] = job[r] /\ job[q] # 0
    BY <1>3, <1>5 DEF Live
  <2>2. Excused(q) \/ Excused(r)
    BY <2>1 DEF Tree, OneCopyEach, Excused, Kind
  <2>3. QED
    BY <1>9, <2>1, <2>2
<1>13. QED
  BY <1>1, <1>6, <1>7, <1>10, <1>11, <1>12 DEF Tree

LEMMA CtrlCStep ==
  ASSUME Tree, CtrlC
  PROVE  Tree'
<1>1. TypeOK'
  BY DEF Tree, TypeOK, CtrlC, semVars
<1>2. /\ UNCHANGED <<at, job, parent, pos, guarded, stray, returned>>
      /\ \A q \in Procs : signal[q] => signal'[q]
  BY DEF Tree, TypeOK, CtrlC
<1>3. Live' = Live /\ Main' = Main
  BY <1>2 DEF Main, Live, Free
<1>4. \A q \in Procs : Excused(q) => Excused(q)'
  BY <1>2 DEF Excused, Kind
<1>5. Roles' /\ CameBack'
  BY <1>2, <1>3 DEF Tree, Roles, CameBack, Kind
<1>6. InTurn'
  BY <1>2, <1>3, <1>4 DEF Tree, InTurn
<1>7. NobodyForgotten' /\ OneCopyEach'
  BY <1>2, <1>3 DEF Tree, NobodyForgotten, OneCopyEach, Live, Kind
<1>8. QED
  BY <1>1, <1>5, <1>6, <1>7 DEF Tree

LEMMA ForkStep ==
  ASSUME Tree, NEW p \in Procs, Fork(p)
  PROVE  Tree'
<1> USE ProcsAssumption, WorkersAreKinds
<1>1. /\ at[p] = "creating" /\ pos[p] \in 1..Len(Workers)
      /\ pos' = [pos EXCEPT ![p] = @ + 1] /\ UNCHANGED <<guarded, signal, returned>>
  BY DEF Fork, Tree, TypeOK
<1>2. pos'[p] = pos[p] + 1 /\ \A r \in Procs : r # p => pos'[r] = pos[r]
  BY <1>1 DEF Tree, TypeOK
<1>3. pos' \in [Procs -> 1..Len(Workers) + 1]
  BY <1>1 DEF Tree, TypeOK
<1>4. \A r \in Procs : pos[r] <= pos'[r] /\ pos[r] \in Nat /\ pos'[r] \in Nat /\ job[r] \in Nat
  BY <1>2, <1>3 DEF Tree, TypeOK
<1>5. CASE UNCHANGED <<at, job, parent, stray>>
  <2>1. TypeOK'
    BY <1>1, <1>3, <1>5 DEF Tree, TypeOK, Fork, semVars
  <2>2. Live' = Live /\ Main' = Main
    BY <1>5 DEF Live, Main, Free
  <2>3. Roles' /\ CameBack'
    BY <1>1, <1>2, <1>5, <2>2 DEF Tree, TypeOK, Roles, CameBack, Kind
  <2>5. \A r \in Procs : Excused(r)' <=> Excused(r)
    BY <1>1, <1>5 DEF Excused, Kind
  <2>6. InTurn'
    <3> SUFFICES ASSUME NEW r \in Procs, job[r] # 0, ~Excused(r)
                 PROVE  /\ parent[r] \in Main
                        /\ at[parent[r]] = "creating" => job[r] < pos'[parent[r]]
      BY <1>5, <2>2, <2>5 DEF InTurn
    <3>1. parent[r] \in Main /\ (at[parent[r]] = "creating" => job[r] < pos[parent[r]])
      BY DEF Tree, InTurn
    <3>2. parent[r] \in Procs
      BY <3>1 DEF Main, Live
    <3>3. /\ pos[parent[r]] <= pos'[parent[r]] /\ job[r] \in Nat
          /\ pos[parent[r]] \in Nat /\ pos'[parent[r]] \in Nat
      BY <1>4, <3>2
    <3>4. QED
      BY <3>1, <3>3
  <2>7. NobodyForgotten' /\ OneCopyEach'
    BY <1>1, <1>5, <2>2 DEF Tree, NobodyForgotten, OneCopyEach, Kind
  <2>8. QED
    BY <2>1, <2>3, <2>6, <2>7 DEF Tree
<1>6. ASSUME NEW q \in Free, NewProcess(q, "forked", pos[p], p)
      PROVE  Tree'
  <2>1. TypeOK'
    <3>1. q \in Procs /\ stray' \in [Procs -> BOOLEAN]
      BY <1>6 DEF Tree, TypeOK, NewProcess, Free
    <3>2. job' \in [Procs -> 0..Len(Workers)]
      <4>1. pos[p] \in 0..Len(Workers)
        BY <1>1
      <4>2. QED
        BY <1>6, <4>1 DEF Tree, TypeOK, NewProcess
    <3>6. parent' \in [Procs -> Procs \cup {0}]
      BY <1>6 DEF Tree, TypeOK, NewProcess
    <3>3. UNCHANGED <<guarded, signal, sem, undo, setOver, starts, returned>>
      BY DEF Fork, semVars
    <3>4. at' \in [Procs -> {"none", "setup", "creating", "led", "forked", "begin",
                             "outside", "inside"}]
      BY <1>6 DEF Tree, TypeOK, NewProcess
    <3>5. QED
      BY <1>3, <3>1, <3>2, <3>3, <3>4, <3>6 DEF Tree, TypeOK
  <2>2. /\ q \in Procs /\ q # p /\ at[q] = "none" /\ job[q] = 0 /\ parent[q] = 0
        /\ p # 0 /\ pos[p] # 0
    BY <1>1 DEF Free, Tree, Roles
  <2>3. at'[q] = "forked" /\ job'[q] = pos[p] /\ parent'[q] = p /\ stray'[q] = stray[p]
    BY <1>6, <2>2 DEF NewProcess, Tree, TypeOK
  <2>4. \A r \in Procs : r # q =>
          /\ at'[r] = at[r] /\ job'[r] = job[r] /\ parent'[r] = parent[r] /\ stray'[r] = stray[r]
    BY <1>6, <2>2 DEF NewProcess, Tree, TypeOK
  <2>5. Live' = Live \cup {q} /\ Main' = Main
    BY <2>2, <2>3, <2>4, ZenonT(40) DEF Live, Main, Free
  <2>6. \A r \in Procs : parent[r] # q
    <3>1. \A r \in Procs : parent[r] = q => at[q] \in {"creating", "led"}
      BY <2>2 DEF Tree, Roles
    <3>2. QED
      BY <2>2, <3>1
  <2>7. Roles'
    <3>1. \A r \in Procs : parent'[r] # 0 => at'[parent'[r]] \in {"creating", "led"}
      <4> SUFFICES ASSUME NEW r \in Procs, parent'[r] # 0
                   PROVE  at'[parent'[r]] \in {"creating", "led"}
        OBVIOUS
      <4>1. CASE r = q
        BY <1>1, <2>2, <2>3, <2>4, <4>1
      <4>2. CASE r # q
        <5>1. parent'[r] = parent[r] /\ parent[r] \in Procs /\ parent[r] # q
          BY <2>4, <2>6, <4>2 DEF Tree, TypeOK
        <5>2. at[parent[r]] \in {"creating", "led"}
          BY <5>1 DEF Tree, Roles
        <5>3. QED
          BY <2>4, <5>1, <5>2
      <4>3. QED
        BY <4>1, <4>2
    <3>2. \A r \in Procs :
            /\ at'[r] = "none" => job'[r] = 0
            /\ job'[r] = 0 => parent'[r] = 0
            /\ at'[r] = "setup" => job'[r] = 0
            /\ job'[r] # 0 /\ at'[r] # "forked" => guarded'[r]
      BY <1>1, <2>2, <2>3, <2>4 DEF Tree, Roles
    <3>3. \A r \in Procs : at'[r] \in {"forked", "begin", "outside", "inside"} => job'[r] # 0
      BY <1>1, <2>2, <2>3, <2>4 DEF Tree, Roles
    <3>4. QED
      BY <2>5, <3>1, <3>2, <3>3 DEF Tree, Roles
  <2>8. CameBack'
    BY <1>1, <1>2, <2>3, <2>4, SMTT(40) DEF Tree, CameBack, Kind, TypeOK
  <2>9. \A r \in Procs : r # q => (Excused(r)' <=> Excused(r))
    BY <1>1, <2>4 DEF Excused, Kind
  \* A worker that came back forks later kinds, which its return excuses.
  <2>10. p \in Main \/ Excused(q)'
    <3>1. CASE job[p] = 0
      BY <1>1, <3>1 DEF Main, Live, Free
    <3>2. CASE job[p] # 0
      <4>1. Kind(p) \in returned /\ Kind(p) < Workers[pos[p]]
        BY <1>1, <3>2 DEF Tree, CameBack
      <4>2. QED
        BY <1>1, <2>3, <4>1 DEF Excused, Kind
    <3>3. QED
      BY <3>1, <3>2
  <2>11. InTurn'
    <3> SUFFICES ASSUME NEW r \in Procs, job'[r] # 0, ~Excused(r)'
                 PROVE  /\ parent'[r] \in Main'
                        /\ at'[parent'[r]] = "creating" => job'[r] < pos'[parent'[r]]
      BY DEF InTurn
    <3>1. CASE r = q
      BY <1>1, <1>2, <2>3, <2>5, <2>10, <3>1
    <3>2. CASE r # q
      <4>1. /\ parent[r] \in Main /\ (at[parent[r]] = "creating" => job[r] < pos[parent[r]])
            /\ parent'[r] = parent[r] /\ job'[r] = job[r]
        BY <2>4, <2>9, <3>2 DEF Tree, InTurn
      <4>2. parent[r] \in Procs /\ parent[r] # q /\ at'[parent[r]] = at[parent[r]]
        BY <2>4, <2>6, <4>1 DEF Main, Live
      <4>3. /\ pos[parent[r]] <= pos'[parent[r]] /\ job[r] \in Nat
            /\ pos[parent[r]] \in Nat /\ pos'[parent[r]] \in Nat
        BY <1>4, <4>2
      <4>5. at[parent[r]] = "creating" => job[r] < pos'[parent[r]]
        BY <4>1, <4>3
      <4>6. QED
        BY <2>5, <4>1, <4>2, <4>5
    <3>3. QED
      BY <3>1, <3>2
  <2>12. NobodyForgotten'
    BY <1>1, <2>2, <2>3, <2>4, <2>5 DEF Tree, NobodyForgotten, Live
  \* The main process is past the workers it has forked.
  <2>13. \A r \in Procs : r # q /\ job[r] = pos[p] => Excused(r) \/ Excused(q)'
    <3> SUFFICES ASSUME NEW r \in Procs, r # q, job[r] = pos[p], ~Excused(r), p \in Main
                 PROVE  FALSE
      BY <2>10
    <3>1. parent[r] \in Main /\ (at[parent[r]] = "creating" => job[r] < pos[parent[r]])
      BY <2>2 DEF Tree, InTurn
    <3>2. parent[r] = p
      BY <3>1 DEF Tree, Roles, Main, Live
    <3>3. QED
      BY <1>1, <3>1, <3>2
  <2>14. OneCopyEach'
    <3> SUFFICES ASSUME NEW r \in Live', NEW s \in Live', r # s, job'[r] = job'[s], job'[r] # 0
                 PROVE  Excused(r)' \/ Excused(s)'
      BY DEF OneCopyEach, Excused, Kind
    <3>1. r \in Procs /\ s \in Procs
      BY <2>5, <2>2 DEF Live
    <3>2. CASE r = q
      BY <2>3, <2>4, <2>9, <2>13, <3>1, <3>2
    <3>3. CASE s = q
      BY <2>3, <2>4, <2>9, <2>13, <3>1, <3>3
    <3>4. CASE r # q /\ s # q
      <4>1. r \in Live /\ s \in Live /\ job[r] = job[s] /\ job[r] # 0
        BY <2>4, <2>5, <3>1, <3>4
      <4>2. Excused(r) \/ Excused(s)
        BY <4>1 DEF Tree, OneCopyEach, Excused, Kind
      <4>3. QED
        BY <2>9, <3>1, <3>4, <4>2
    <3>5. QED
      BY <3>2, <3>3, <3>4
  <2>15. QED
    BY <2>1, <2>7, <2>8, <2>11, <2>12, <2>14 DEF Tree
<1>7. QED
  BY <1>5, <1>6 DEF Fork

LEMMA ReturnStep ==
  ASSUME Tree, NEW p \in Procs, ReturnsIntoMain(p)
  PROVE  Tree'
<1> USE ProcsAssumption, WorkersAreKinds
<1>1. PICK j \in 1..Len(Workers) + 1 :
        /\ \A i \in 1..Len(Workers) : i < j <=> Workers[i] <= Kind(p)
        /\ pos' = [pos EXCEPT ![p] = j]
  BY DEF ReturnsIntoMain
<1>2. /\ at[p] = "begin" /\ at' = [at EXCEPT ![p] = "creating"]
      /\ returned' = returned \cup {Kind(p)}
      /\ UNCHANGED <<job, parent, guarded, signal, stray, sem, undo, setOver, starts>>
  BY DEF ReturnsIntoMain, semVars
<1>3. job[p] \in 1..Len(Workers) /\ Kind(p) \in Kinds /\ Kind(p) \in Nat
  BY <1>2 DEF Tree, TypeOK, Roles, Kind
<1>4. TypeOK'
  <2>1. pos' \in [Procs -> 1..Len(Workers) + 1]
    BY <1>1 DEF Tree, TypeOK
  <2>2. returned' \subseteq Kinds
    BY <1>2, <1>3 DEF Tree, TypeOK
  <2>3. QED
    BY <1>2, <2>1, <2>2 DEF Tree, TypeOK
<1>5. /\ at'[p] = "creating" /\ pos'[p] = j
      /\ \A q \in Procs : q # p => at'[q] = at[q] /\ pos'[q] = pos[q]
  BY <1>1, <1>2 DEF Tree, TypeOK
<1>6. Live' = Live /\ Main' = Main
  BY <1>2, <1>5 DEF Main, Live, Free
<1>7. \A q \in Procs : parent[q] # p
  <2>1. \A q \in Procs : parent[q] = p => at[p] \in {"creating", "led"}
    BY DEF Tree, Roles
  <2>2. QED
    BY <1>2, <2>1
<1>8. Roles'
  <2>1. \A q \in Procs : parent[q] # 0 => at'[parent[q]] \in {"creating", "led"}
    <3> SUFFICES ASSUME NEW q \in Procs, parent[q] # 0
                 PROVE  at'[parent[q]] \in {"creating", "led"}
      OBVIOUS
    <3>1. parent[q] \in Procs /\ at[parent[q]] \in {"creating", "led"}
      BY DEF Tree, TypeOK, Roles
    <3>2. QED
      BY <1>5, <1>7, <3>1
  <2>2. \A q \in Procs :
          /\ at'[q] = "none" => job[q] = 0
          /\ at'[q] = "setup" => job[q] = 0
          /\ job[q] # 0 /\ at'[q] # "forked" => guarded[q]
    BY <1>2, <1>5 DEF Tree, Roles
  <2>3. \A q \in Procs : at'[q] \in {"forked", "begin", "outside", "inside"} => job[q] # 0
    BY <1>5 DEF Tree, Roles
  <2>4. QED
    BY <1>2, <1>6, <2>1, <2>2, <2>3 DEF Tree, Roles
<1>9. CameBack'
  <2> SUFFICES ASSUME NEW q \in Procs, at'[q] = "creating", job[q] # 0
               PROVE  /\ Kind(q) \in returned'
                      /\ \A i \in 1..Len(Workers) : pos'[q] <= i => Kind(q) < Workers[i]
    BY <1>2 DEF CameBack, Kind
  <2>1. CASE q = p
    BY <1>1, <1>2, <1>3, <1>5, <2>1
  <2>2. CASE q # p
    BY <1>2, <1>5, <2>2 DEF Tree, CameBack
  <2>3. QED
    BY <2>1, <2>2
<1>10. \A q \in Procs : Excused(q) => Excused(q)'
  BY <1>2 DEF Excused, Kind
<1>11. InTurn'
  <2> SUFFICES ASSUME NEW q \in Procs, job[q] # 0, ~Excused(q)
               PROVE  /\ parent[q] \in Main
                      /\ at'[parent[q]] = "creating" => job[q] < pos'[parent[q]]
    BY <1>2, <1>6, <1>10 DEF InTurn
  <2>1. parent[q] \in Main /\ (at[parent[q]] = "creating" => job[q] < pos[parent[q]])
    BY DEF Tree, InTurn
  <2>2. parent[q] \in Procs /\ parent[q] # p
    BY <1>7, <2>1 DEF Main, Live
  <2>3. QED
    BY <1>5, <2>1, <2>2
<1>12. NobodyForgotten'
  BY <1>2, <1>6 DEF Tree, NobodyForgotten
<1>13. OneCopyEach'
  BY <1>2, <1>6 DEF Tree, OneCopyEach, Kind
<1>14. QED
  BY <1>4, <1>8, <1>9, <1>11, <1>12, <1>13 DEF Tree

LEMMA TreeStep == Tree /\ [Next]_vars => Tree'
<1> SUFFICES ASSUME Tree, [Next]_vars PROVE Tree'
  OBVIOUS
<1> USE ProcsAssumption
<1>1. ASSUME NEW p \in Procs, SetSemValue(p) PROVE Tree'
  <2>1. Goes(p, "setup", "creating") /\ UNCHANGED <<job, parent, pos, guarded, signal, stray, returned>>
    BY <1>1 DEF SetSemValue
  <2>2. TypeOK'
    BY <1>1, <2>1 DEF SetSemValue, Goes, Tree, TypeOK
  <2>3. QED
    BY <2>1, <2>2, MoveStep
<1>2. ASSUME NEW p \in Procs, IndicatorLedRunning(p) PROVE Tree'
  <2>1. /\ Goes(p, "creating", "led") /\ UNCHANGED <<job, parent, guarded, signal, stray, returned>>
        /\ pos' = [pos EXCEPT ![p] = 1]
    BY <1>2 DEF IndicatorLedRunning
  <2>2. TypeOK'
    <3>1. pos' \in [Procs -> 1..Len(Workers) + 1]
      BY <2>1, WorkersAreKinds DEF Tree, TypeOK
    <3>2. QED
      BY <1>2, <2>1, <3>1 DEF IndicatorLedRunning, Goes, Tree, TypeOK, semVars
  <2>3. \A q \in Procs : q # p => pos'[q] = pos[q]
    BY <2>1 DEF Tree, TypeOK
  <2>4. QED
    BY <2>1, <2>2, <2>3, MoveStep
<1>3. ASSUME NEW p \in Procs, SetProcessCloseSignal(p) PROVE Tree'
  <2>1. /\ Goes(p, "forked", "begin") /\ UNCHANGED <<job, parent, pos, signal, stray, returned>>
        /\ guarded' = [guarded EXCEPT ![p] = TRUE]
    BY <1>3 DEF SetProcessCloseSignal
  <2>2. TypeOK'
    <3>1. guarded' \in [Procs -> BOOLEAN]
      BY <2>1 DEF Tree, TypeOK
    <3>2. QED
      BY <1>3, <2>1, <3>1 DEF SetProcessCloseSignal, Goes, Tree, TypeOK, semVars
  <2>3. guarded'[p] /\ \A q \in Procs : q # p => guarded'[q] = guarded[q]
    BY <2>1 DEF Tree, TypeOK
  <2>4. QED
    BY <2>1, <2>2, <2>3, MoveStep
<1>4. ASSUME NEW p \in Procs, Initialised(p) PROVE Tree'
  <2>1. /\ Goes(p, "begin", "outside") /\ UNCHANGED <<job, parent, pos, guarded, signal, stray, returned>>
    BY <1>4 DEF Initialised
  <2>2. TypeOK'
    BY <1>4, <2>1 DEF Initialised, Goes, Tree, TypeOK, semVars
  <2>3. QED
    BY <2>1, <2>2, MoveStep
<1>5. ASSUME NEW p \in Procs, Semaphore_P(p) PROVE Tree'
  <2>1. /\ Goes(p, "outside", "inside") /\ UNCHANGED <<job, parent, pos, guarded, signal, stray, returned>>
    BY <1>5 DEF Semaphore_P
  <2>2. sem' \in Nat /\ undo' \in [Procs -> Int]
    BY <1>5 DEF Semaphore_P, Tree, TypeOK
  <2>3. TypeOK'
    BY <1>5, <2>1, <2>2, SMTT(40) DEF Semaphore_P, Goes, Tree, TypeOK
  <2>4. QED
    BY <2>1, <2>3, MoveStep
<1>6. ASSUME NEW p \in Procs, Semaphore_V(p) PROVE Tree'
  <2>1. /\ Goes(p, "inside", "outside") /\ UNCHANGED <<job, parent, pos, guarded, signal, stray, returned>>
    BY <1>6 DEF Semaphore_V
  <2>2. sem' \in Nat /\ undo' \in [Procs -> Int]
    BY <1>6 DEF Semaphore_V, Tree, TypeOK
  <2>3. TypeOK'
    BY <1>6, <2>1, <2>2, SMTT(40) DEF Semaphore_V, Goes, Tree, TypeOK
  <2>4. QED
    BY <2>1, <2>3, MoveStep
<1>7. CASE UNCHANGED vars
  <2>1. UNCHANGED <<at, job, parent, pos, guarded, signal, stray, sem, undo, setOver, starts, returned>>
    BY <1>7 DEF vars, processVars, semVars
  <2>2. TypeOK' /\ Roles' /\ CameBack' /\ Live' = Live /\ Main' = Main
    BY <2>1 DEF Tree, TypeOK, Roles, CameBack, Kind, Main, Live, Free
  <2>3. InTurn' /\ NobodyForgotten' /\ OneCopyEach'
    BY <2>1, <2>2 DEF Tree, InTurn, NobodyForgotten, OneCopyEach, Excused, Kind
  <2>4. QED
    BY <2>2, <2>3 DEF Tree
<1>8. QED
  BY <1>1, <1>2, <1>3, <1>4, <1>5, <1>6, <1>7, StartStep, DiesStep, CtrlCStep, ForkStep, ReturnStep
     DEF Next, Killed, HandleSignal

\* The invariant of the family of processes.
LEMMA TreeKept == Spec => []Tree
BY TypeInit, TreeStep, PTL DEF Spec

\* No value leaves its type, however often processes die, come back into main
\* or are started again (Main.c:38-86).
THEOREM TreeTypeCorrect == Spec => []TypeOK
BY TreeKept, PTL DEF Tree

\* A worker whose parent has gone is being signalled, or its parent went
\* before it had called prctl (ProcessSignal.c:118-124).
THEOREM NoWorkerForgotten == Spec => []NobodyForgotten
BY TreeKept, PTL DEF Tree

\* Two copies of a worker need a worker of an earlier kind that came back into
\* main, or a main process that died (Main.c:51-65).
THEOREM WorkersOnce == Spec => []OneCopyEach
BY TreeKept, PTL DEF Tree

-----------------------------------------------------------------------------
(* The semaphore.                                                          *)

\* What the kernel would give back for a process is what it holds.
Undone ==
  ~setOver => /\ \A p \in Procs : undo[p] = IF at[p] = "inside" THEN 1 ELSE 0
              /\ ExclusiveAcrossRestarts

\* A step that moves one process outside the database leaves all that alone.
LEMMA ElsewhereStep ==
  ASSUME Undone, UNCHANGED <<sem, undo, setOver>>,
         \A p \in Procs : at'[p] = "inside" <=> at[p] = "inside"
  PROVE  Undone'
<1>1. Inside' = Inside
  BY DEF Inside
<1>2. QED
  BY <1>1 DEF Undone, ExclusiveAcrossRestarts

LEMMA UndoneStep == TypeOK /\ Undone /\ [Next]_vars => Undone'
<1> SUFFICES ASSUME TypeOK, Undone, [Next]_vars PROVE Undone'
  OBVIOUS
<1> USE DEF TypeOK
<1>1. ASSUME NEW p \in Procs, SetSemValue(p) PROVE Undone'
  <2> SUFFICES ASSUME ~setOver' PROVE Undone'
    BY DEF Undone
  <2>1. Inside = {} /\ sem' = 1 /\ undo' = [q \in Procs |-> 0]
    BY <1>1 DEF SetSemValue
  <2>2. \A q \in Procs : at'[q] # "inside"
    BY <1>1, <2>1 DEF SetSemValue, Goes, Inside
  <2>3. Inside' = {}
    BY <2>2 DEF Inside
  <2>4. QED
    BY <2>1, <2>2, <2>3 DEF Undone, ExclusiveAcrossRestarts
<1>2. ASSUME NEW p \in Procs, Semaphore_P(p) PROVE Undone'
  <2> SUFFICES ASSUME ~setOver PROVE Undone'
    BY <1>2 DEF Semaphore_P, Undone
  <2>1. Inside = {} /\ sem' = 0
    BY <1>2 DEF Semaphore_P, Undone, ExclusiveAcrossRestarts
  <2>2. \A q \in Procs : at'[q] = IF q = p THEN "inside" ELSE at[q]
    BY <1>2 DEF Semaphore_P, Goes
  <2>3. \A q \in Procs : at[q] # "inside" /\ undo[q] = 0
    BY <2>1 DEF Inside, Undone
  <2>4. \A q \in Procs : undo'[q] = IF q = p THEN 1 ELSE 0
    BY <1>2, <2>3 DEF Semaphore_P
  <2>5. Inside' = {p}
    BY <2>2, <2>3 DEF Inside
  <2>6. QED
    BY <2>1, <2>2, <2>3, <2>4, <2>5 DEF Undone, ExclusiveAcrossRestarts
<1>3. ASSUME NEW p \in Procs, Semaphore_V(p) PROVE Undone'
  <2> SUFFICES ASSUME ~setOver PROVE Undone'
    BY <1>3 DEF Semaphore_V, Undone
  <2>1. Inside = {p} /\ sem = 0
    BY <1>3 DEF Semaphore_V, Goes, Inside, Undone, ExclusiveAcrossRestarts
  <2>2. \A q \in Procs : at'[q] = IF q = p THEN "outside" ELSE at[q]
    BY <1>3 DEF Semaphore_V, Goes
  <2>3. \A q \in Procs : at'[q] # "inside"
    BY <2>1, <2>2 DEF Inside
  <2>4. \A q \in Procs : undo'[q] = 0
    BY <1>3, <2>1 DEF Semaphore_V, Undone, Inside
  <2>5. Inside' = {} /\ sem' = 1
    BY <1>3, <2>1, <2>3 DEF Inside, Semaphore_V
  <2>6. QED
    BY <2>3, <2>4, <2>5 DEF Undone, ExclusiveAcrossRestarts
<1>4. ASSUME NEW p \in Procs, Dies(p) PROVE Undone'
  <2> SUFFICES ASSUME ~setOver PROVE Undone'
    BY <1>4 DEF Dies, Undone
  <2>1. \A q \in Procs : at'[q] = IF q = p THEN "none" ELSE at[q]
    BY <1>4 DEF Dies
  <2>2. \A q \in Procs : undo'[q] = IF q = p THEN 0 ELSE undo[q]
    BY <1>4 DEF Dies
  <2>3. Inside' = Inside \ {p}
    BY <2>1 DEF Inside
  <2>4. sem' = IF Inside' = {} THEN 1 ELSE 0
    <3>1. CASE at[p] = "inside"
      <4>1. Inside = {p} /\ sem = 0 /\ undo[p] = 1
        BY <3>1 DEF Inside, Undone, ExclusiveAcrossRestarts
      <4>2. QED
        BY <1>4, <2>3, <4>1 DEF Dies
    <3>2. CASE at[p] # "inside"
      <4>1. Inside' = Inside /\ undo[p] = 0
        BY <2>3, <3>2 DEF Inside, Undone
      <4>2. sem = IF Inside = {} THEN 1 ELSE 0
        BY DEF Undone, ExclusiveAcrossRestarts
      <4>3. QED
        BY <1>4, <4>1, <4>2 DEF Dies
    <3>3. QED
      BY <3>1, <3>2
  <2>5. QED
    BY <2>1, <2>2, <2>3, <2>4 DEF Undone, ExclusiveAcrossRestarts
<1>5. ASSUME NEW p \in Procs,
             \/ Start(p) \/ Fork(p) \/ IndicatorLedRunning(p)
             \/ SetProcessCloseSignal(p) \/ Initialised(p) \/ ReturnsIntoMain(p)
      PROVE  Undone'
  <2>1. UNCHANGED <<sem, undo, setOver>>
    BY <1>5 DEF Start, Fork, IndicatorLedRunning, SetProcessCloseSignal, Initialised, ReturnsIntoMain,
                semVars
  <2>2. \A q \in Procs : at'[q] = "inside" <=> at[q] = "inside"
    <3>1. CASE Start(p)
      BY <3>1 DEF Start, NewProcess, Free
    <3>2. CASE Fork(p)
      BY <3>2 DEF Fork, NewProcess, Free
    <3>3. CASE \/ IndicatorLedRunning(p) \/ SetProcessCloseSignal(p) \/ Initialised(p)
               \/ ReturnsIntoMain(p)
      BY <3>3 DEF IndicatorLedRunning, SetProcessCloseSignal, Initialised, ReturnsIntoMain, Goes
    <3>4. QED
      BY <1>5, <3>1, <3>2, <3>3
  <2>3. QED
    BY <2>1, <2>2, ElsewhereStep
<1>6. CASE CtrlC \/ UNCHANGED vars
  <2>1. UNCHANGED <<at, sem, undo, setOver>>
    BY <1>6 DEF CtrlC, vars, processVars, semVars
  <2>2. QED
    BY <2>1, ElsewhereStep
<1>7. QED
  BY <1>1, <1>2, <1>3, <1>4, <1>5, <1>6 DEF Next, Killed, HandleSignal

\* At most one process is in the database, whatever dies, comes back or is
\* started again, until a restart sets the semaphore over a process inside
\* (Main.c:46-47, ProcessSignal.c:38-110).
THEOREM ExclusiveUntilSetOver == Spec => []ExclusiveAcrossRestarts
<1>1. Init => Undone
  BY DEF Init, Undone, ExclusiveAcrossRestarts, Inside
<1>2. Undone => ExclusiveAcrossRestarts
  BY DEF Undone, ExclusiveAcrossRestarts
<1>3. QED
  BY <1>1, <1>2, UndoneStep, TreeTypeCorrect, PTL DEF Spec
=============================================================================
