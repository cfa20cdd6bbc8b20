------------------------------ MODULE Cs101Line ------------------------------
(***************************************************************************)
(* The serial line that a 101 master shares with its stations (external:   *)
(* an RS485 bus).  A frame is kept by what its control field and ASDU say: *)
(*   to a station    request FC9, reset FC0, stair FC10 and second FC11    *)
(*                   (class 1, class 2 data), call and clock FC3;          *)
(*   to the master   accept, nothing and state (fixed frames with FC0, FC9 *)
(*                   and FC11), and ASDUs: init (end of initialisation),   *)
(*                   clock (confirmation), error, call (pos 0 confirms an  *)
(*                   interrogation, the last pos ends it, data between).   *)
(* A frame for another address is read and thrown away by everyone, so     *)
(* each station has a queue of its own.                                    *)
(***************************************************************************)
EXTENDS Integers, Sequences, FiniteSets, SequencesExt

CONSTANTS
  Stations,   \* link addresses, in the order of the master's list of links
  CallFrames, \* frames of data that answer an interrogation
  MaxFaults   \* bound: frames lost or spoilt, and power cycles of stations

ASSUME LineAssumption ==
  /\ IsFiniteSet(Stations) /\ Stations # {} /\ Stations = 1..Cardinality(Stations)
  /\ CallFrames \in Nat \ {0} /\ MaxFaults \in Nat

VARIABLES
  toStation, \* what each station has not read yet
  toMaster,  \* what the master has not read yet
  faults

line == <<toStation, toMaster, faults>>

Unnumbered == {"request", "reset"}
Requests == Unnumbered \cup {"stair", "second", "call", "clock"}
Answers == {"accept", "nothing", "state", "init", "clock", "error", "call"}
Ended == CallFrames + 1

\* known: the ASDU carries the station's common address.
MasterFrames == [kind : Requests, fcb : 0..1, known : BOOLEAN]
StationFrames == [from : Stations, kind : Answers, pos : 0..Ended, acd : BOOLEAN]

LineInit ==
  /\ toStation = [i \in Stations |-> <<>>]
  /\ toMaster = <<>>
  /\ faults = 0

LineTypeOK ==
  /\ DOMAIN toStation = Stations
  /\ \A i \in Stations : toStation[i] \in Seq(MasterFrames)
  /\ toMaster \in Seq(StationFrames)
  /\ faults \in 0..MaxFaults

\* External.
Lose ==
  /\ faults < MaxFaults /\ faults' = faults + 1
  /\ \/ /\ \E i \in Stations : \E n \in DOMAIN toStation[i] :
             toStation' = [toStation EXCEPT ![i] = RemoveAt(@, n)]
        /\ UNCHANGED toMaster
     \/ /\ \E n \in DOMAIN toMaster : toMaster' = RemoveAt(toMaster, n)
        /\ UNCHANGED toStation

=============================================================================
