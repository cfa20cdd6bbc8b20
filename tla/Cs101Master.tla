----------------------------- MODULE Cs101Master -----------------------------
(***************************************************************************)
(* The 101 master (master101/101master.c) in the mode in which the product *)
(* runs it (iec101_init sets balanMode to 0): one thread per serial port   *)
(* visits its links in turn (cs101_master_run_thread); a visit lasts while *)
(* a request waits for its answer (cs101_master_run, _wait_jump).  A link  *)
(* that is down is asked again every ten seconds, one such link at a time. *)
(*                                                                         *)
(* Not modelled: balanced mode and remote control, which nothing in the    *)
(* repository calls; what is done with the data received.                  *)
(***************************************************************************)
EXTENDS Cs101Line

CONSTANTS
  RetryNumber, \* CS101_MASTER_RETRY_NUMBER
  KnownFrom,   \* stations whose common address is the configured one
  MaxCalls     \* bound: cyclic general interrogations

ASSUME MasterAssumption ==
  /\ RetryNumber \in Nat /\ KnownFrom \subseteq Stations
  /\ MaxCalls \in Nat

VARIABLES
  link,      \* CS101_MASTER_LINK_t of each station
  cur,       \* p_temp_node_link_run
  pc,        \* where the thread is in its visit of cur
  fault,     \* now_module_id, 0 for -1
  nextFault, \* p_temp_node_link_fault
  calls,     \* cyclic interrogations so far
  heard      \* history: what has been heard of the interrogation last asked for

master == <<link, cur, pc, fault, nextFault, calls, heard>>

\* flags: link_flag; pack: pack_flag; fcb: masterFCB; retries: retry_num_con;
\* last: tx_re_frame; known: ASDU_addr is the station's.
LinkStates ==
  [flags : SUBSET {"est", "wait", "requested", "resetting", "jump", "synced", "clockAsked"},
   pack : SUBSET Requests, fcb : 0..1, retries : 0..RetryNumber,
   last : {<<>>} \cup {<<f>> : f \in MasterFrames}, known : BOOLEAN]

\* cs101_master_link_init, then cs101_master_request_link.
MasterInit ==
  /\ link = [i \in Stations |->
       [flags |-> {}, pack |-> {"request"}, fcb |-> 0, retries |-> 0, last |-> <<>>,
        known |-> i \in KnownFrom]]
  /\ cur = 1 /\ pc = "treat" /\ fault = 0 /\ nextFault = 1
  /\ calls = 0 /\ heard = [i \in Stations |-> <<>>]

MasterTypeOK ==
  /\ link \in [Stations -> LinkStates]
  /\ cur \in Stations /\ pc \in {"visit", "treat", "receive"}
  /\ fault \in Stations \cup {0} /\ nextFault \in Stations
  /\ calls \in 0..MaxCalls
  /\ heard \in [Stations -> Seq(0..Ended)]

Up(i) == "est" \in link[i].flags
Waits(i) == "wait" \in link[i].flags
Succ(i) == IF i + 1 \in Stations THEN i + 1 ELSE 1

Update(L) == link' = [link EXCEPT ![cur] = L]

-----------------------------------------------------------------------------
(* The head of a visit of the link that is to be set up anew.              *)

\* cs101_master_request_link.
Requested(L) == [L EXCEPT !.flags = {}, !.pack = {"request"}, !.fcb = 0, !.retries = 0]

\* Mutated: the flags of the old link survive.
Relink_KeepsFlags ==
  /\ pc = "visit" /\ cur = fault
  /\ fault' = 0 /\ pc' = "treat"
  /\ Update(IF Up(cur) THEN link[cur] ELSE [link[cur] EXCEPT !.pack = {"request"}])
  /\ UNCHANGED <<line, cur, nextFault, calls, heard>>

\* The timer for it expires.
Relink ==
  /\ pc = "visit" /\ cur = fault
  /\ fault' = 0 /\ pc' = "treat"
  /\ Update(IF Up(cur) THEN link[cur] ELSE Requested(link[cur]))
  /\ UNCHANGED <<line, cur, nextFault, calls, heard>>

\* Not yet.
Visit ==
  /\ pc = "visit" /\ pc' = "treat"
  /\ UNCHANGED <<line, link, cur, fault, nextFault, calls, heard>>

-----------------------------------------------------------------------------
(* One pass: cs101_master_data_treating, _data_pack and _data_send.        *)

\* call_data_time has expired.
PollDue ==
  /\ pc = "treat" /\ Up(cur) /\ ~Waits(cur) /\ "second" \notin link[cur].pack
  /\ Update([link[cur] EXCEPT !.pack = @ \cup {"second"}])
  /\ UNCHANGED <<line, cur, pc, fault, nextFault, calls, heard>>

\* all_call_time has expired.
CallDue ==
  /\ pc = "treat" /\ Up(cur) /\ "call" \notin link[cur].pack
  /\ calls < MaxCalls /\ calls' = calls + 1
  /\ Update([link[cur] EXCEPT !.pack = @ \cup {"call"}])
  /\ UNCHANGED <<line, cur, pc, fault, nextFault, heard>>

Priority == <<"request", "reset", "stair", "clock", "call", "second">>
NextPack(i) == Priority[Min({n \in DOMAIN Priority : Priority[n] \in link[i].pack})]

Write(f) == toStation' = [toStation EXCEPT ![cur] = Append(@, f)] /\ UNCHANGED <<toMaster, faults>>

\* The link is to be set up anew.
GivenUp(L) == [L EXCEPT !.flags = {}, !.fcb = 0, !.retries = 0]

\* What a request of kind k leaves in link_flag.
Noted(k) == CASE k = "request" -> {"requested"} [] k = "reset" -> {"resetting"}
              [] k = "clock" -> {"clockAsked"} [] OTHER -> {}

\* cs101_master_conitor_pack: the FCB of a request of kind k.
\* Mutated: a general interrogation keeps the FCB.
FcbFor_CallKeeps(L, k) == IF k \in Unnumbered \cup {"call"} THEN L.fcb ELSE 1 - L.fcb

FcbFor(L, k) == IF k \in Unnumbered THEN L.fcb ELSE 1 - L.fcb

\* If all repetitions are used up, the link is given up at once.
SendPacked ==
  LET L == link[cur]
      k == NextPack(cur)
      f == [kind |-> k, fcb |-> IF k \in Unnumbered THEN 0 ELSE FcbFor(L, k), known |-> L.known]
      S == [L EXCEPT !.flags = @ \cup {"wait", "jump"} \cup Noted(k), !.pack = @ \ {k},
                     !.fcb = FcbFor(L, k), !.last = <<f>>]
  IN /\ pc = "treat" /\ ~Waits(cur) /\ L.pack # {}
     /\ Write(f)
     /\ Update(IF Up(cur) /\ L.retries = RetryNumber THEN GivenUp(S) ELSE S)
     /\ heard' = [heard EXCEPT ![cur] = IF k = "call" THEN <<>> ELSE @]
     /\ pc' = "receive"
     /\ UNCHANGED <<cur, fault, nextFault, calls>>

\* Mutated: one repetition more.
Repeat_OneMore ==
  /\ pc = "treat" /\ Up(cur) /\ Waits(cur)
  /\ Write(link[cur].last[1])
  /\ Update([link[cur] EXCEPT !.retries = @ + 1, !.flags = @ \cup {"jump"}])
  /\ pc' = "receive"
  /\ UNCHANGED <<cur, fault, nextFault, calls, heard>>

\* retry_time has expired.
Repeat ==
  /\ pc = "treat" /\ Up(cur) /\ Waits(cur) /\ link[cur].retries < RetryNumber
  /\ Write(link[cur].last[1])
  /\ Update([link[cur] EXCEPT !.retries = @ + 1, !.flags = @ \cup {"jump"}])
  /\ pc' = "receive"
  /\ UNCHANGED <<cur, fault, nextFault, calls, heard>>

GiveUp ==
  /\ pc = "treat" /\ Up(cur) /\ Waits(cur) /\ link[cur].retries = RetryNumber
  /\ Update(GivenUp(link[cur]))
  /\ pc' = "receive"
  /\ UNCHANGED <<line, cur, fault, nextFault, calls, heard>>

\* Nothing is sent.
SendNothing ==
  LET L == link[cur] IN
  /\ pc = "treat" /\ (Waits(cur) \/ L.pack = {})
  /\ ~(Up(cur) /\ Waits(cur) /\ L.retries = RetryNumber)
  /\ Update(IF Up(cur) /\ ~Waits(cur) THEN [L EXCEPT !.retries = 0, !.flags = @ \ {"jump"}] ELSE L)
  /\ pc' = "receive"
  /\ UNCHANGED <<line, cur, fault, nextFault, calls, heard>>

-----------------------------------------------------------------------------
(* cs101_master_wait_jump, and the end of a round.                         *)

\* Where the search for a link to set up anew stops, from i on.
Down(l) == {i \in Stations : "est" \notin l[i].flags}
FirstDown(D, i) == IF \E k \in D : k >= i THEN Min({k \in D : k >= i}) ELSE Min(D)

\* now_module_id and p_temp_node_link_fault after a round.
Search(l) ==
  IF fault = 0 /\ Down(l) # {}
  THEN LET k == FirstDown(Down(l), nextFault) IN <<k, Succ(k)>>
  ELSE <<fault, nextFault>>

\* Whatever has come in is thrown away.
Leave(L) ==
  LET l == [link EXCEPT ![cur] = [L EXCEPT !.flags = @ \ {"jump"}]]
      F == IF Succ(cur) = 1 THEN Search(l) ELSE <<fault, nextFault>>
  IN /\ link' = l /\ toMaster' = <<>>
     /\ cur' = Succ(cur) /\ pc' = IF Succ(cur) = F[1] THEN "visit" ELSE "treat"
     /\ fault' = F[1] /\ nextFault' = F[2]

\* Mutated: the visit ends with the pass.
Jump_Never(L, unread) == Leave(L)

\* The visit goes on as long as something sent may be answered.
Jump(L, unread) ==
  \/ "jump" \notin L.flags /\ Leave(L)
  \/ /\ "jump" \in L.flags
     /\ Update(L) /\ toMaster' = unread /\ pc' = "treat"
     /\ UNCHANGED <<cur, fault, nextFault>>

\* await_time has expired.
StopWaiting ==
  /\ pc = "treat" /\ "jump" \in link[cur].flags
  /\ Leave(link[cur])
  /\ UNCHANGED <<toStation, faults, calls, heard>>

-----------------------------------------------------------------------------
(* cs101_master_search_message, cs101_master_message_analysis.             *)

Cleared(L, flags, pack) == [L EXCEPT !.flags = @ \ ({"wait"} \cup flags), !.pack = @ \cup pack]

\* cs101_master_fixed_analysis.
Accepted(L) ==
  LET S == Cleared(L, {"resetting", "clockAsked"},
             (IF "resetting" \in L.flags THEN {"call"} ELSE {})
             \cup (IF "clockAsked" \in L.flags THEN {"second"} ELSE {}))
  IN IF "resetting" \in L.flags THEN [S EXCEPT !.flags = @ \cup {"est"}] ELSE S

StateTold(L) == Cleared(L, {"requested"}, IF "requested" \in L.flags THEN {"reset"} ELSE {})

\* Mutated: asked for whether demanded or not.
AccessDemanded_Always(L, f) == [L EXCEPT !.pack = @ \cup {"stair"}]

AccessDemanded(L, f) == IF f.acd THEN [L EXCEPT !.pack = @ \cup {"stair"}] ELSE L

\* cs101_master_variable_analysis; the address received replaces the known one.
DataTaken(L, f) ==
  LET S == [Cleared(L, {}, {}) EXCEPT !.known = TRUE] IN
  IF f.kind = "call" /\ f.pos = Ended /\ "synced" \notin L.flags
  THEN [S EXCEPT !.flags = @ \cup {"synced"}, !.pack = @ \cup {"clock"}]
  ELSE S

Analysed(L, f) ==
  CASE f.kind = "accept"  -> AccessDemanded(Accepted(L), f)
    [] f.kind = "nothing" -> AccessDemanded(Cleared(L, {}, {}), f)
    [] f.kind = "state"   -> AccessDemanded(StateTold(L), f)
    [] OTHER              -> IF "est" \in L.flags THEN DataTaken(L, f) ELSE L

Own == {n \in DOMAIN toMaster : toMaster[n].from = cur}

\* At most one frame in a pass; the frames of other stations are skipped.
Receive ==
  LET n == Min(Own)
      f == toMaster[n]
  IN /\ pc = "receive" /\ Own # {}
     /\ Jump(Analysed(link[cur], f), SubSeq(toMaster, n + 1, Len(toMaster)))
     /\ heard' = [heard EXCEPT ![cur] =
          IF f.kind = "call" /\ Up(cur) THEN Append(@, f.pos) ELSE @]
     /\ UNCHANGED <<toStation, faults, calls>>

ReceiveNothing ==
  /\ pc = "receive" /\ Own = {}
  /\ Jump(link[cur], <<>>)
  /\ UNCHANGED <<toStation, faults, calls, heard>>

MasterStep ==
  \/ Visit \/ SendPacked \/ GiveUp \/ SendNothing
  \/ Receive \/ ReceiveNothing

MasterDue == PollDue \/ CallDue

=============================================================================
