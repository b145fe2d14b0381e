-------------------------- MODULE HostStatusProofs --------------------------
(***************************************************************************)
(* Proofs about HostStatus, for every set of hosts, every period and every *)
(* number of faults.                                                       *)
(*                                                                         *)
(* The inductive invariant relates the sweep that is under way to the      *)
(* clock: at most one unit passes between its SELECT and its UPDATE, so    *)
(* its cutoff tells when its period began, and what its UPDATE will mark   *)
(* is among what its SELECT found.  The last section follows the contact   *)
(* with the other agents, by which a sweep does not find those that run.   *)
(***************************************************************************)
EXTENDS HostStatus, TLAPS

\* A sweep is under way only in an agent that runs, and for a unit at most.
SweepInTime ==
  /\ ~up => sweep = Idle
  /\ sweep.next = "select" => sweep = Idle
  /\ sweep.next = "send" => sweepDue > 0 /\ sweep.cutoff = StaleAfter
  /\ sweep.next = "update" => sweepDue + sweep.cutoff = SweepEvery + StaleAfter

\* The hosts that an UPDATE would mark now are selected.
MarkableIsSelected ==
  sweep.next = "update" =>
    \A h \in Host : Stale(h, sweep.cutoff) => h \in sweep.stale

\* A host that is online was seen within the threshold when the period began;
\* one that was not is about to be marked.
FreshSincePeriod ==
  up /\ swept =>
    \A h \in Host : status[h] = "online" =>
      IF sweep.next = "update"
        THEN age[h] <= SweepEvery + sweep.cutoff
        ELSE age[h] + sweepDue <= StaleAfter + SweepEvery

IInv == TypeOK /\ SweepInTime /\ MarkableIsSelected /\ FreshSincePeriod

(***************************************************************************)
(* Types.                                                                  *)
(***************************************************************************)

\* The three operations on the hosts table keep its type.
LEMMA TableType ==
  ASSUME TypeOK, NEW h \in Host,
         UpsertHost(h) \/ SetOffline(h) \/ UNCHANGED <<status, age, told>>
  PROVE  /\ status' \in [Host -> {"none", "online", "offline"}]
         /\ age' \in [Host -> 0..MaxAge]
         /\ told' \in SUBSET Host
<1>1. 0 \in 0..MaxAge
  BY HostStatusAssumption DEF MaxAge
<1>2. CASE UpsertHost(h)
  BY <1>1, <1>2 DEF TypeOK, UpsertHost
<1>3. CASE SetOffline(h)
  BY <1>1, <1>3 DEF TypeOK, SetOffline
<1>4. CASE UNCHANGED <<status, age, told>>
  BY <1>4 DEF TypeOK
<1>5. QED BY <1>2, <1>3, <1>4

\* The initial state has the types and meets the rest of the invariant.
LEMMA InitInv == Init => IInv
<1>1. SUFFICES ASSUME Init PROVE IInv
  OBVIOUS
<1>2. TypeOK
  <2>1. age \in [Host -> 0..MaxAge] /\ status \in [Host -> {"none", "online", "offline"}]
    BY <1>1, HostStatusAssumption DEF Init, MaxAge
  <2>2. sweep \in [next: {"select", "update", "send"},
                  cutoff: {StaleAfter, StaleAfter + 1}, stale: SUBSET Host]
    BY <1>1 DEF Init, Idle
  <2>3. alive \in [Agent \cup Device -> BOOLEAN] /\ due \in [Agent -> 0..Beat]
    BY <1>1, HostStatusAssumption DEF Init
  <2>4. up \in BOOLEAN /\ swept \in BOOLEAN
    BY <1>1 DEF Init
  <2>5. beat \in 0..Beat /\ sweepDue \in 0..SweepEvery /\ faults \in 0..MaxFaults
    BY <1>1, HostStatusAssumption DEF Init
  <2>6. known \in SUBSET Agent /\ calls \in SUBSET Calls /\ told \in SUBSET Host
    BY <1>1 DEF Init
  <2>7. QED
    BY <2>1, <2>2, <2>3, <2>4, <2>5, <2>6 DEF TypeOK
<1>3. SweepInTime /\ MarkableIsSelected /\ FreshSincePeriod
  BY <1>1 DEF Init, SweepInTime, MarkableIsSelected, FreshSincePeriod, Idle
<1>4. QED BY <1>2, <1>3 DEF IInv

\* Every step keeps the types: the cutoff of an agent that is down, where time
\* passes freely, is that of no sweep.
LEMMA TypeStep == TypeOK /\ SweepInTime /\ [Next]_vars => TypeOK'
<1> SUFFICES ASSUME TypeOK, SweepInTime, [Next]_vars PROVE TypeOK'
  OBVIOUS
<1> USE HostStatusAssumption
<1>0. /\ \A h \in Agent \cup Device \cup {Self} : h \in Host
      /\ Idle \in [next: {"select", "update", "send"},
                   cutoff: {StaleAfter, StaleAfter + 1}, stale: SUBSET Host]
  BY DEF Host, Idle
<1>1. CASE Start
  <2>1. Self \in Host /\ UpsertHost(Self)
    BY <1>0, <1>1 DEF Start
  <2>2. up' \in BOOLEAN /\ swept' \in BOOLEAN
    BY <1>1 DEF Start
  <2>3. beat' \in 0..Beat /\ sweepDue' \in 0..SweepEvery
    BY <1>1 DEF Start
  <2>4. QED
    BY <1>1, <2>1, <2>2, <2>3, TableType DEF Start, TypeOK
<1>2. CASE Crash
  <2>1. up' \in BOOLEAN
    BY <1>2 DEF Crash
  <2>2. faults' \in 0..MaxFaults
    BY <1>2 DEF Crash, Fault, TypeOK
  <2>3. QED
    BY <1>0, <1>2, <2>1, <2>2 DEF Crash, TypeOK
<1>3. CASE Tick
  <2>1. age' \in [Host -> 0..MaxAge]
    BY <1>3 DEF Tick, TypeOK, MaxAge
  <2>2. due' \in [Agent -> 0..Beat] /\ beat' \in 0..Beat
    BY <1>3 DEF Tick, TypeOK, Less
  <2>3. sweepDue' \in 0..SweepEvery
    BY <1>3 DEF Tick, TypeOK
  <2>4. sweep' \in [next: {"select", "update", "send"},
                   cutoff: {StaleAfter, StaleAfter + 1}, stale: SUBSET Host]
    <3>1. sweep.next = "update" => sweep.cutoff = StaleAfter
      BY <1>3 DEF Tick, SweepInTime, Idle, TypeOK
    <3>2. QED
      BY <1>3, <3>1 DEF Tick, TypeOK
  <2>5. QED
    BY <1>3, <2>1, <2>2, <2>3, <2>4 DEF Tick, TypeOK
<1>4. ASSUME NEW h \in Agent \cup Device, Appear(h) \/ Disappear(h) PROVE TypeOK'
  <2>1. alive' \in [Agent \cup Device -> BOOLEAN]
    BY <1>4 DEF Appear, Disappear, TypeOK
  <2>2. due' \in [Agent -> 0..Beat] /\ faults' \in 0..MaxFaults
    BY <1>4 DEF Appear, Disappear, Fault, TypeOK
  <2>3. QED
    BY <1>4, <2>1, <2>2 DEF Appear, Disappear, TypeOK
<1>5. ASSUME NEW h \in Agent, HeartbeatFrom(h) \/ LoseHeartbeat(h) PROVE TypeOK'
  <2>1. h \in Host /\ due' \in [Agent -> 0..Beat]
    BY <1>0, <1>5 DEF HeartbeatFrom, LoseHeartbeat, TypeOK
  <2>2. UpsertHost(h) \/ UNCHANGED <<status, age, told>>
    BY <1>5 DEF HeartbeatFrom, LoseHeartbeat
  <2>3. known' \in SUBSET Agent /\ faults' \in 0..MaxFaults
    BY <1>5 DEF HeartbeatFrom, LoseHeartbeat, Fault, TypeOK
  <2>4. QED
    BY <1>5, <2>1, <2>2, <2>3, TableType DEF HeartbeatFrom, LoseHeartbeat, TypeOK
<1>6. CASE SendHeartbeats
  BY <1>6 DEF SendHeartbeats, TypeOK, Calls
<1>7. ASSUME NEW c \in calls, Exchange(c) \/ CallFails(c) \/ AnswerGarbled(c)
      PROVE  TypeOK'
  <2>1. c.host \in Agent /\ c.host \in Host
    BY <1>0 DEF TypeOK, Calls
  <2>2. UpsertHost(c.host) \/ SetOffline(c.host) \/ UNCHANGED <<status, age, told>>
    BY <1>7 DEF Exchange, CallFails, AnswerGarbled
  <2>3. known' \in SUBSET Agent /\ calls' \in SUBSET Calls /\ faults' \in 0..MaxFaults
    BY <1>7, <2>1 DEF Exchange, CallFails, AnswerGarbled, Fault, TypeOK
  <2>4. QED
    BY <1>7, <2>1, <2>2, <2>3, TableType DEF Exchange, CallFails, AnswerGarbled, TypeOK
<1>8. ASSUME NEW h \in Device, Scan(h) PROVE TypeOK'
  <2>1. h \in Host /\ UpsertHost(h)
    BY <1>0, <1>8 DEF Scan
  <2>2. QED
    BY <1>8, <2>1, TableType DEF Scan, TypeOK
<1>9. ASSUME NEW h \in Host, DeleteHost(h) PROVE TypeOK'
  BY <1>9 DEF DeleteHost, Fault, TypeOK, MaxAge
<1>10. CASE SweepSelect
  <2>1. swept' \in BOOLEAN
    BY <1>10 DEF SweepSelect, TypeOK
  <2>2. sweep' \in [next: {"select", "update", "send"},
                   cutoff: {StaleAfter, StaleAfter + 1}, stale: SUBSET Host]
    <3>1. sweep \in [next: {"select", "update", "send"},
                    cutoff: {StaleAfter, StaleAfter + 1}, stale: SUBSET Host]
      BY DEF TypeOK
    <3>2. PICK found \in SUBSET Host :
            sweep' = sweep \/ sweep' = [sweep EXCEPT !.next = "update", !.stale = found]
      BY <1>10 DEF SweepSelect
    <3>3. QED
      BY <3>1, <3>2
  <2>3. sweepDue' \in 0..SweepEvery
    BY <1>10 DEF SweepSelect
  <2>4. QED
    BY <1>10, <2>1, <2>2, <2>3 DEF SweepSelect, TypeOK
<1>11. CASE SweepUpdate
  BY <1>11 DEF SweepUpdate, TypeOK
<1>12. ASSUME NEW h \in Host, Announce(h) PROVE TypeOK'
  BY <1>0, <1>12 DEF Announce, TypeOK
<1>13. CASE UNCHANGED vars
  BY <1>13 DEF vars, TypeOK
<1>14. QED
  BY <1>1, <1>2, <1>3, <1>4, <1>5, <1>6, <1>7, <1>8, <1>9, <1>10, <1>11, <1>12,
     <1>13 DEF Next

(***************************************************************************)
(* The sweep and the clock.                                                *)
(***************************************************************************)

\* What the operations on the hosts table can make of a row: nobody gets online
\* without being seen now, and nobody's last sight moves back.
LEMMA RowStep ==
  ASSUME TypeOK, NEW h \in Host,
         UpsertHost(h) \/ SetOffline(h) \/ UNCHANGED <<status, age, told>>
  PROVE  \A g \in Host : status'[g] = "online" =>
           age'[g] = 0 \/ (status[g] = "online" /\ age'[g] = age[g])
<1>1. CASE UpsertHost(h)
  BY <1>1 DEF TypeOK, UpsertHost
<1>2. CASE SetOffline(h)
  BY <1>2 DEF TypeOK, SetOffline
<1>3. CASE UNCHANGED <<status, age, told>>
  BY <1>3
<1>4. QED BY <1>1, <1>2, <1>3

\* A step that leaves the sweep, its clock and the agent alone, and puts hosts
\* online only as RowStep says, keeps the invariant.
Calm ==
  /\ UNCHANGED <<up, swept, sweep, sweepDue>>
  /\ \A g \in Host : status'[g] = "online" =>
       age'[g] = 0 \/ (status[g] = "online" /\ age'[g] = age[g])

LEMMA CalmStep ==
  ASSUME IInv, Calm
  PROVE  SweepInTime' /\ MarkableIsSelected' /\ FreshSincePeriod'
<1> USE HostStatusAssumption
<1>1. SweepInTime'
  BY DEF IInv, Calm, SweepInTime, Idle
<1>2. MarkableIsSelected'
  BY DEF IInv, Calm, MarkableIsSelected, Stale, TypeOK
<1>3. FreshSincePeriod'
  BY DEF IInv, Calm, FreshSincePeriod, TypeOK
<1>4. QED BY <1>1, <1>2, <1>3

\* The actions that are calm.
LEMMA CalmActions ==
  ASSUME IInv, Next,
         ~Start, ~Crash, ~Tick, ~SweepSelect, ~SweepUpdate,
         \A h \in Host : ~Announce(h)
  PROVE  Calm
<1>0. \A h \in Agent \cup Device : h \in Host
  BY DEF Host
<1>1. TypeOK
  BY DEF IInv
<1>2. ASSUME NEW h \in Agent \cup Device, Appear(h) \/ Disappear(h) PROVE Calm
  BY <1>2 DEF Appear, Disappear, Calm
<1>3. ASSUME NEW h \in Agent, HeartbeatFrom(h) \/ LoseHeartbeat(h) PROVE Calm
  <2>1. h \in Host /\ (UpsertHost(h) \/ UNCHANGED <<status, age, told>>)
    BY <1>0, <1>3 DEF HeartbeatFrom, LoseHeartbeat
  <2>2. UNCHANGED <<up, swept, sweep, sweepDue>>
    BY <1>3 DEF HeartbeatFrom, LoseHeartbeat
  <2>3. QED
    BY <1>1, <2>1, <2>2, RowStep DEF Calm
<1>4. CASE SendHeartbeats
  BY <1>4 DEF SendHeartbeats, Calm
<1>5. ASSUME NEW c \in calls, Exchange(c) \/ CallFails(c) \/ AnswerGarbled(c)
      PROVE  Calm
  <2>1. c.host \in Host
    BY <1>0, <1>1 DEF TypeOK, Calls
  <2>2. UpsertHost(c.host) \/ SetOffline(c.host) \/ UNCHANGED <<status, age, told>>
    BY <1>5 DEF Exchange, CallFails, AnswerGarbled
  <2>3. UNCHANGED <<up, swept, sweep, sweepDue>>
    BY <1>5 DEF Exchange, CallFails, AnswerGarbled
  <2>4. QED
    BY <1>1, <2>1, <2>2, <2>3, RowStep DEF Calm
<1>6. ASSUME NEW h \in Device, Scan(h) PROVE Calm
  <2>1. h \in Host /\ UpsertHost(h)
    BY <1>0, <1>6 DEF Scan
  <2>2. QED
    BY <1>1, <1>6, <2>1, RowStep DEF Calm, Scan
<1>7. ASSUME NEW h \in Host, DeleteHost(h) PROVE Calm
  BY <1>1, <1>7 DEF DeleteHost, Calm, TypeOK
<1>8. QED
  BY <1>2, <1>3, <1>4, <1>5, <1>6, <1>7 DEF Next

\* Every step keeps the invariant.
LEMMA StepInv == IInv /\ [Next]_vars => IInv'
<1> SUFFICES ASSUME IInv, [Next]_vars PROVE IInv'
  OBVIOUS
<1> USE HostStatusAssumption
<1>0. TypeOK /\ SweepInTime /\ MarkableIsSelected /\ FreshSincePeriod
  BY DEF IInv
<1>1. TypeOK'
  BY <1>0, TypeStep
<1>2. CASE Start
  <2>1. SweepInTime' /\ sweep' = Idle /\ ~swept'
    BY <1>0, <1>2 DEF Start, SweepInTime, Idle
  <2>2. QED
    BY <1>1, <2>1 DEF IInv, MarkableIsSelected, FreshSincePeriod, Idle
<1>3. CASE Crash
  <2>1. sweep' = Idle /\ ~up'
    BY <1>3 DEF Crash
  <2>2. QED
    BY <1>1, <2>1 DEF IInv, SweepInTime, MarkableIsSelected, FreshSincePeriod, Idle
<1>4. CASE Tick
  <2>1. /\ UNCHANGED <<up, status, swept>>
        /\ \A h \in Host : age'[h] \in Nat /\ age'[h] <= age[h] + 1
    BY <1>0, <1>4 DEF Tick, TypeOK, MaxAge
  <2>2. sweep.next # "update" => sweep' = sweep
    BY <1>4 DEF Tick
  <2>3. sweep.next = "update" =>
          /\ up
          /\ sweep' = [sweep EXCEPT !.cutoff = @ + 1]
          /\ sweep.cutoff = StaleAfter
    BY <1>0, <1>4 DEF Tick, SweepInTime, Idle
  <2>4. up => sweep.next # "send" /\ sweepDue > 0 /\ sweepDue' = sweepDue - 1
    BY <1>4 DEF Tick
  <2>5. CASE sweep.next = "update"
    <3>1. /\ sweep'.next = "update"
          /\ sweep'.cutoff = sweep.cutoff + 1
          /\ sweep'.stale = sweep.stale
      BY <1>0, <2>3, <2>5 DEF TypeOK
    <3>2. SweepInTime'
      BY <1>0, <2>1, <2>3, <2>4, <2>5, <3>1 DEF SweepInTime, TypeOK
    <3>3. MarkableIsSelected'
      BY <1>0, <2>1, <2>3, <2>5, <3>1 DEF MarkableIsSelected, Stale, TypeOK
    <3>4. FreshSincePeriod'
      BY <1>0, <2>1, <2>3, <2>5, <3>1 DEF FreshSincePeriod, TypeOK
    <3>5. QED
      BY <1>1, <3>2, <3>3, <3>4 DEF IInv
  <2>6. CASE sweep.next # "update"
    <3>1. SweepInTime'
      BY <1>0, <2>1, <2>2, <2>4, <2>6 DEF SweepInTime, Idle, TypeOK
    <3>2. MarkableIsSelected'
      BY <2>2, <2>6 DEF MarkableIsSelected
    <3>3. FreshSincePeriod'
      BY <1>0, <2>1, <2>2, <2>4, <2>6 DEF FreshSincePeriod, TypeOK
    <3>4. QED
      BY <1>1, <3>1, <3>2, <3>3 DEF IInv
  <2>7. QED BY <2>5, <2>6
<1>5. CASE SweepSelect
  <2> DEFINE stale == {h \in Host : Stale(h, StaleAfter)}
  <2>1. /\ up /\ sweepDue = 0 /\ sweepDue' = SweepEvery
        /\ UNCHANGED <<up, status, age>>
    BY <1>5 DEF SweepSelect
  <2>2. sweep = Idle
    BY <1>0, <2>1 DEF SweepInTime, TypeOK
  <2>3. CASE stale = {}
    <3>1. sweep' = Idle
      BY <1>5, <2>2, <2>3 DEF SweepSelect
    <3>2. \A h \in Host : status[h] = "online" => age[h] <= StaleAfter
      BY <1>0, <2>3 DEF Stale, TypeOK
    <3>3. SweepInTime' /\ MarkableIsSelected'
      BY <3>1 DEF SweepInTime, MarkableIsSelected, Idle
    <3>4. FreshSincePeriod'
      BY <1>0, <2>1, <3>1, <3>2 DEF FreshSincePeriod, Idle, TypeOK
    <3>5. QED
      BY <1>1, <3>3, <3>4 DEF IInv
  <2>4. CASE stale # {}
    <3>1. sweep' = [next |-> "update", cutoff |-> StaleAfter, stale |-> stale] /\ swept' = swept
      BY <1>5, <2>2, <2>4 DEF SweepSelect, Idle
    <3>2. SweepInTime'
      BY <2>1, <3>1 DEF SweepInTime
    <3>3. MarkableIsSelected'
      BY <2>1, <3>1 DEF MarkableIsSelected, Stale
    <3>4. FreshSincePeriod'
      BY <1>0, <2>1, <2>2, <3>1 DEF FreshSincePeriod, Idle, TypeOK
    <3>5. QED
      BY <1>1, <3>2, <3>3, <3>4 DEF IInv
  <2>5. QED BY <2>3, <2>4
<1>6. CASE SweepUpdate
  <2>1. /\ sweep.next = "update"
        /\ sweep'.next = "send" /\ sweep'.cutoff = StaleAfter
        /\ UNCHANGED <<up, age, sweepDue>>
    BY <1>0, <1>6 DEF SweepUpdate, TypeOK
  <2>2. \A h \in Host : status'[h] = "online" => age[h] <= sweep.cutoff
    BY <1>0, <1>6 DEF SweepUpdate, Stale, TypeOK
  <2>3. up /\ sweepDue + sweep.cutoff = SweepEvery + StaleAfter /\ sweepDue > 0
    BY <1>0, <2>1 DEF SweepInTime, Idle, TypeOK
  <2>4. SweepInTime' /\ MarkableIsSelected'
    BY <2>1, <2>3 DEF SweepInTime, MarkableIsSelected
  <2>5. FreshSincePeriod'
    BY <1>0, <2>1, <2>2, <2>3 DEF FreshSincePeriod, TypeOK
  <2>6. QED
    BY <1>1, <2>4, <2>5 DEF IInv
<1>7. ASSUME NEW h \in Host, Announce(h) PROVE IInv'
  <2>1. /\ sweep.next = "send"
        /\ sweep' = Idle \/ sweep' = [sweep EXCEPT !.stale = @ \ {h}]
        /\ UNCHANGED <<up, status, age, sweepDue, swept>>
    BY <1>7 DEF Announce
  <2>2. sweep'.next # "update" /\ (sweep' = Idle \/ sweep'.next = "send")
    BY <1>0, <2>1 DEF Idle, TypeOK
  <2>3. sweep'.cutoff = StaleAfter /\ up
    BY <1>0, <2>1 DEF SweepInTime, Idle, TypeOK
  <2>4. SweepInTime' /\ MarkableIsSelected'
    BY <1>0, <2>1, <2>2, <2>3 DEF SweepInTime, MarkableIsSelected, Idle
  <2>5. FreshSincePeriod'
    BY <1>0, <2>1, <2>2 DEF FreshSincePeriod
  <2>6. QED
    BY <1>1, <2>4, <2>5 DEF IInv
<1>8. CASE UNCHANGED vars
  <2>1. Calm
    BY <1>8 DEF Calm, vars
  <2>2. QED
    BY <1>1, <2>1, CalmStep DEF IInv
<1>9. CASE Next /\ ~Start /\ ~Crash /\ ~Tick /\ ~SweepSelect /\ ~SweepUpdate
           /\ \A h \in Host : ~Announce(h)
  <2>1. Calm
    BY <1>9, CalmActions
  <2>2. QED
    BY <1>1, <2>1, CalmStep DEF IInv
<1>10. QED
  BY <1>2, <1>3, <1>4, <1>5, <1>6, <1>7, <1>8, <1>9

LEMMA Invariant == Spec => []IInv
BY InitInv, StepInv, PTL DEF Spec

(***************************************************************************)
(* The properties.                                                         *)
(***************************************************************************)

\* The variables keep their types, whatever happens.
THEOREM TypeCorrect == Spec => []TypeOK
<1>1. IInv => TypeOK
  BY DEF IInv
<1>2. QED
  BY <1>1, Invariant, PTL

\* From the first sweep after a start on, nobody is shown online who was not
\* seen for the threshold, a sweep period and a unit (run.go:438-454).
THEOREM FreshnessCorrect == Spec => []OnlineIsFresh
<1>1. IInv => OnlineIsFresh
  BY HostStatusAssumption DEF IInv, OnlineIsFresh, FreshSincePeriod, SweepInTime, TypeOK
<1>2. QED
  BY <1>1, Invariant, PTL

\* What the UPDATE of a sweep marks, its SELECT had found (hosts.go:157-188).
THEOREM MarkedCorrect == Spec => MarkedIsSelected
<1> DEFINE Marked == sweep.next = "update" /\ sweep'.next = "send" =>
                       \A h \in Host : status[h] # status'[h] => h \in sweep'.stale
<1>1. IInv /\ [Next]_vars => [Marked]_vars
  <2>1. SUFFICES ASSUME IInv, Next, sweep.next = "update", sweep'.next = "send"
                 PROVE  \A h \in Host : status[h] # status'[h] => h \in sweep'.stale
    OBVIOUS
  <2>2. CASE Calm
    BY <2>1, <2>2 DEF Calm
  <2>3. CASE SweepUpdate
    <3>1. sweep'.stale = sweep.stale
      BY <2>1, <2>3 DEF SweepUpdate, IInv, TypeOK
    <3>2. \A h \in Host : status[h] # status'[h] => Stale(h, sweep.cutoff)
      BY <2>3 DEF SweepUpdate
    <3>3. QED
      BY <2>1, <3>1, <3>2 DEF IInv, MarkableIsSelected
  <2>4. CASE Start \/ Crash \/ Tick \/ SweepSelect
    BY <2>1, <2>4 DEF Start, Crash, Tick, SweepSelect, IInv, TypeOK, Idle
  <2>5. CASE \E h \in Host : Announce(h)
    BY <2>1, <2>5 DEF Announce
  <2>6. QED
    BY <2>1, <2>2, <2>3, <2>4, <2>5, CalmActions
<1>2. QED
  BY <1>1, Invariant, PTL DEF Spec, MarkedIsSelected

\* A host goes offline because it is stale by the clock or because a call to it
\* failed, and for no other reason (hosts.go:181-183, heartbeat.go:156-161).
THEOREM SweepCorrect == Spec => SweepSparesTheSeen
<1> DEFINE Spared ==
      \A h \in Host :
        status[h] = "online" /\ status'[h] = "offline" =>
          \/ age[h] > StaleAfter
          \/ \E c \in calls \ calls' : c.host = h
<1>1. IInv /\ [Next]_vars => [Spared]_vars
  <2>1. SUFFICES ASSUME IInv, Next, NEW h \in Host,
                        status[h] = "online", status'[h] = "offline"
                 PROVE  age[h] > StaleAfter \/ \E c \in calls \ calls' : c.host = h
    OBVIOUS
  <2>2. TypeOK
    BY <2>1 DEF IInv
  <2>3. ASSUME NEW g \in Host, UpsertHost(g) PROVE FALSE
    BY <2>1, <2>2, <2>3 DEF UpsertHost, TypeOK
  <2>4. status # status'
    BY <2>1
  <2>5. CASE SweepUpdate
    <3>1. age[h] > sweep.cutoff
      BY <2>1, <2>5 DEF SweepUpdate, Stale
    <3>2. QED
      BY <2>2, <3>1, HostStatusAssumption DEF TypeOK
  <2>6. ASSUME NEW c \in calls, CallFails(c)
        PROVE  \E d \in calls \ calls' : d.host = h
    <3>1. SetOffline(c.host) /\ c \in calls \ calls'
      BY <2>4, <2>6 DEF CallFails
    <3>2. c.host = h
      BY <2>1, <2>2, <3>1 DEF SetOffline, TypeOK
    <3>3. QED
      BY <3>1, <3>2
  <2>7. ASSUME NEW c \in calls, Exchange(c) PROVE FALSE
    BY <2>2, <2>3, <2>7 DEF Exchange, TypeOK, Calls, Host
  <2>8. ASSUME NEW c \in calls, AnswerGarbled(c) PROVE FALSE
    BY <2>4, <2>8 DEF AnswerGarbled
  <2>9. ASSUME NEW g \in Agent, HeartbeatFrom(g) \/ LoseHeartbeat(g) PROVE FALSE
    BY <2>3, <2>4, <2>9 DEF HeartbeatFrom, LoseHeartbeat, Host
  <2>10. ASSUME NEW g \in Agent \cup Device, Appear(g) \/ Disappear(g) PROVE FALSE
    BY <2>4, <2>10 DEF Appear, Disappear
  <2>11. ASSUME NEW g \in Device, Scan(g) PROVE FALSE
    BY <2>3, <2>11 DEF Scan, Host
  <2>12. ASSUME NEW g \in Host, DeleteHost(g) PROVE FALSE
    BY <2>1, <2>2, <2>12 DEF DeleteHost, TypeOK
  <2>13. ASSUME NEW g \in Host, Announce(g) PROVE FALSE
    BY <2>4, <2>13 DEF Announce
  <2>14. CASE Start
    BY <2>3, <2>14 DEF Start, Host
  <2>15. CASE Crash \/ Tick \/ SweepSelect \/ SendHeartbeats
    BY <2>4, <2>15 DEF Crash, Tick, SweepSelect, SendHeartbeats
  <2>16. QED
    BY <2>1, <2>5, <2>6, <2>7, <2>8, <2>9, <2>10, <2>11, <2>12, <2>13, <2>14,
       <2>15 DEF Next
<1>2. QED
  BY <1>1, Invariant, PTL DEF Spec, SweepSparesTheSeen

-----------------------------------------------------------------------------
(***************************************************************************)
(* No false alarm.  Two ways lead to a row: the calls of this agent and the*)
(* heartbeats of the other.  With two faults at most one of them keeps an  *)
(* agent that runs fresh, also after a restart, however long it took.      *)
(***************************************************************************)
FewFaults == MaxFaults <= 2 /\ 2 * Beat <= StaleAfter /\ Beat <= SweepEvery

OwnCall(h) == [host |-> h, row |-> "own"]

\* Units until this agent calls h next; a call under way counts as now.
NextCall(h) == IF OwnCall(h) \in calls THEN 0 ELSE beat

\* The last call was answered, or the one before it.
Answered(h) == age[h] + NextCall(h) <= Beat
AnsweredBefore(h) == age[h] + NextCall(h) <= 2 * Beat

\* The last heartbeat of h arrived.
Heard(h) == alive[h] /\ age[h] + due[h] <= Beat

\* The first call after the start is still to come or to be answered.
JustStarted(h) == NextCall(h) = 0 /\ sweepDue = SweepEvery

\* The next heartbeat of h comes before the sweep.
WillBeHeard(h) == alive[h] /\ due[h] + SweepEvery <= Beat + sweepDue

\* Which of these hold, by the faults so far.
InTouch(h) ==
  /\ faults = 0 => Heard(h) /\ Answered(h)
  /\ faults = 1 => Answered(h) \/ (Heard(h) /\ AnsweredBefore(h)) \/ JustStarted(h)
  /\ faults = 2 => AnsweredBefore(h) \/ Heard(h) \/ JustStarted(h) \/ WillBeHeard(h)

TouchInv ==
  /\ ~up => calls = {}
  /\ \A h \in Agent : status[h] = "online" =>
       h \in known /\ IF up THEN InTouch(h) ELSE faults > 0

\* The numbers of one agent.
LEMMA AgentNumbers ==
  ASSUME TypeOK, NEW h \in Agent
  PROVE  /\ age[h] \in Nat /\ due[h] \in 0..Beat /\ beat \in 0..Beat /\ NextCall(h) \in 0..Beat
         /\ sweepDue \in 0..SweepEvery /\ faults \in Nat /\ faults <= MaxFaults
         /\ Beat \in Nat /\ SweepEvery \in Nat /\ SweepEvery > 1 /\ StaleAfter \in Nat
         /\ MaxFaults \in Nat
         /\ alive[h] \in BOOLEAN /\ up \in BOOLEAN /\ h \in Host
BY HostStatusAssumption DEF TypeOK, Host, NextCall, MaxAge

\* Contact in either direction.
LEMMA Contact ==
  ASSUME TypeOK', NEW h \in Agent, alive'[h], age'[h] = 0
  PROVE  InTouch(h)'
<1>1. /\ due'[h] \in 0..Beat /\ beat' \in 0..Beat /\ Beat \in Nat
  BY HostStatusAssumption DEF TypeOK
<1>2. Heard(h)' BY <1>1 DEF Heard
<1>3. NextCall(h)' \in 0..Beat BY <1>1 DEF NextCall
<1>4. Answered(h)' BY <1>1, <1>3 DEF Answered
<1>5. AnsweredBefore(h)' BY <1>1, <1>3 DEF AnsweredBefore
<1> QED BY <1>2, <1>4, <1>5 DEF InTouch

\* What is still known of h when nothing about it changes, with or without a
\* fault, of h's own or of another host.
LEMMA NothingNew ==
  ASSUME TypeOK, FewFaults, NEW h \in Agent, InTouch(h),
         age'[h] = age[h], due'[h] = due[h],
         NextCall(h)' = NextCall(h), sweepDue' = sweepDue,
         \/ faults' = faults /\ (alive[h] => alive'[h])
         \/ faults < MaxFaults /\ faults' = faults + 1
  PROVE  InTouch(h)'
<1>1. /\ faults \in Nat /\ faults <= 2 /\ MaxFaults \in Nat /\ MaxFaults <= 2
      /\ age[h] \in Nat /\ NextCall(h) \in Nat /\ Beat \in Nat
  BY AgentNumbers DEF FewFaults
<1>2. /\ Answered(h)' <=> Answered(h)
      /\ AnsweredBefore(h)' <=> AnsweredBefore(h)
      /\ JustStarted(h)' <=> JustStarted(h)
      /\ Answered(h) => AnsweredBefore(h)
  BY <1>1 DEF Answered, AnsweredBefore, JustStarted
<1>3. CASE faults' = faults /\ (alive[h] => alive'[h])
  <2>1. (Heard(h) => Heard(h)') /\ (WillBeHeard(h) => WillBeHeard(h)')
    BY <1>3 DEF Heard, WillBeHeard
  <2> QED BY <1>1, <1>2, <1>3, <2>1 DEF InTouch
<1>4. CASE faults < MaxFaults /\ faults' = faults + 1
  <2>1. CASE faults = 0
    <3>1. faults' = 1 /\ Answered(h)' BY <1>2, <1>4, <2>1 DEF InTouch
    <3> QED BY <3>1 DEF InTouch
  <2>2. CASE faults = 1
    <3>1. faults' = 2 /\ (AnsweredBefore(h)' \/ JustStarted(h)')
      BY <1>2, <1>4, <2>2 DEF InTouch
    <3> QED BY <3>1 DEF InTouch
  <2> QED BY <1>1, <1>4, <2>1, <2>2
<1> QED BY <1>3, <1>4

\* An answer that cannot be read: the call is over and h has not been met.
LEMMA Garbled ==
  ASSUME TypeOK, TypeOK', FewFaults, NEW h \in Agent, InTouch(h), alive[h],
         age'[h] = age[h], due'[h] = due[h], alive' = alive, sweepDue' = sweepDue,
         NextCall(h) = 0, faults < MaxFaults, faults' = faults + 1
  PROVE  InTouch(h)'
<1>1. /\ faults \in Nat /\ MaxFaults \in Nat /\ MaxFaults <= 2 /\ Beat \in Nat
      /\ age[h] \in Nat /\ due[h] \in 0..Beat /\ SweepEvery \in Nat
  BY AgentNumbers DEF FewFaults
<1>2. NextCall(h)' \in 0..Beat BY HostStatusAssumption DEF TypeOK, NextCall
<1>3. CASE faults = 0
  <2>1. Heard(h)' BY <1>3 DEF InTouch, Heard
  <2>2. AnsweredBefore(h)' BY <1>1, <1>2, <1>3 DEF InTouch, Answered, AnsweredBefore
  <2> QED BY <1>3, <2>1, <2>2 DEF InTouch
<1>4. CASE faults = 1
  <2>1. CASE Answered(h)
    <3>1. AnsweredBefore(h)' BY <1>1, <1>2, <2>1 DEF Answered, AnsweredBefore
    <3> QED BY <1>4, <3>1 DEF InTouch
  <2>2. CASE Heard(h)
    <3>1. Heard(h)' BY <2>2 DEF Heard
    <3> QED BY <1>4, <3>1 DEF InTouch
  <2>3. CASE JustStarted(h)
    <3>1. WillBeHeard(h)' BY <1>1, <2>3 DEF JustStarted, WillBeHeard
    <3> QED BY <1>4, <3>1 DEF InTouch
  <2> QED BY <1>4, <2>1, <2>2, <2>3 DEF InTouch
<1> QED BY <1>1, <1>3, <1>4

\* A call that ends says something of the next call of its own host only, and
\* only if the row that was called has that host's id.
LEMMA OtherCalls ==
  ASSUME TypeOK, NEW h \in Agent, NEW c \in calls, calls' = calls \ {c},
         c.host # h \/ c.row # "own", beat' = beat
  PROVE  NextCall(h)' = NextCall(h)
<1>1. c # OwnCall(h) BY DEF OwnCall
<1> QED BY <1>1 DEF NextCall, OwnCall

\* Every step keeps every online agent in touch: what a fault costs is one of
\* the two ways, or one call, and the first call after a start needs neither.
LEMMA TouchStep ==
  IInv /\ TypeOK' /\ FewFaults /\ TouchInv /\ [Next]_vars => TouchInv'
<1> SUFFICES ASSUME IInv, TypeOK', FewFaults, TouchInv, [Next]_vars
             PROVE  TouchInv'
  OBVIOUS
<1>0. /\ TypeOK /\ Beat \in Nat \ {0} /\ SweepEvery \in Nat \ {0, 1} /\ StaleAfter \in Nat
      /\ MaxFaults \in Nat /\ MaxFaults <= 2 /\ faults \in Nat /\ faults <= MaxFaults
      /\ Agent \cap Device = {} /\ Self \notin Agent
  BY HostStatusAssumption DEF IInv, TypeOK, FewFaults
<1>1. (~up => calls = {})'
  <2>1. ASSUME NEW c \in calls, Exchange(c) \/ CallFails(c) \/ AnswerGarbled(c)
        PROVE  (~up => calls = {})'
    BY <2>1 DEF TouchInv, Exchange, CallFails, AnswerGarbled
  <2>2. ASSUME NEW h, Appear(h) \/ Disappear(h) \/ HeartbeatFrom(h) \/ LoseHeartbeat(h)
                      \/ Scan(h) \/ DeleteHost(h) \/ Announce(h)
        PROVE  (~up => calls = {})'
    BY <2>2 DEF TouchInv, Appear, Disappear, HeartbeatFrom, LoseHeartbeat, Scan,
       DeleteHost, Announce
  <2>3. CASE Start \/ Crash \/ Tick \/ SendHeartbeats \/ SweepSelect \/ SweepUpdate
             \/ UNCHANGED vars
    BY <2>3 DEF TouchInv, Start, Crash, Tick, SendHeartbeats, SweepSelect, SweepUpdate, vars
  <2> QED BY <2>1, <2>2, <2>3 DEF Next
<1>2. SUFFICES ASSUME NEW h \in Agent, status'[h] = "online"
               PROVE  h \in known' /\ (up' => InTouch(h)') /\ (~up' => faults' > 0)
  BY <1>1 DEF TouchInv
<1> DEFINE Kept == h \in known' /\ (up' => InTouch(h)') /\ (~up' => faults' > 0)
<1>3. /\ age[h] \in Nat /\ due[h] \in 0..Beat /\ beat \in 0..Beat
      /\ NextCall(h) \in 0..Beat /\ sweepDue \in 0..SweepEvery /\ up \in BOOLEAN
      /\ NextCall(h)' \in 0..Beat /\ h # Self /\ h \notin Device /\ h \in Host
  <2>1. NextCall(h)' \in 0..Beat BY <1>0 DEF TypeOK, NextCall
  <2> QED BY <1>0, <2>1, AgentNumbers
<1>4. status[h] = "online" => h \in known /\ (up => InTouch(h)) /\ (~up => faults > 0)
  BY DEF TouchInv
<1>5. CASE Start
  <2>1. status[h] = "online" /\ ~up /\ calls = {} /\ known' = known /\ faults' = faults /\ up'
    BY <1>2, <1>3, <1>5 DEF Start, UpsertHost, TouchInv, IInv, TypeOK
  <2>2. JustStarted(h)'
    BY <1>5, <2>1 DEF Start, JustStarted, NextCall
  <2> QED BY <1>0, <1>4, <2>1, <2>2 DEF InTouch
<1>6. CASE Crash
  BY <1>0, <1>2, <1>4, <1>6 DEF Crash, Fault
<1>7. CASE Tick
  <2>1. /\ status[h] = "online" /\ known' = known /\ faults' = faults /\ up' = up
        /\ alive' = alive /\ calls' = calls
    BY <1>2, <1>7 DEF Tick
  <2>2. CASE ~up
    BY <1>4, <2>1, <2>2
  <2>3. CASE up
    <3>1. NextCall(h) = beat /\ beat > 0 /\ NextCall(h)' = beat - 1 /\ sweepDue' = sweepDue - 1
          /\ sweepDue > 0
      BY <1>3, <1>7, <2>3 DEF Tick, NextCall, Less
    <3>2. age'[h] \in Nat /\ age'[h] <= age[h] + 1
      BY <1>0, <1>3, <1>7 DEF Tick, MaxAge, TypeOK
    <3>3. alive[h] => due[h] > 0 /\ due'[h] = due[h] - 1
      BY <1>0, <1>3, <1>7 DEF Tick, Less
    <3>4. (Answered(h) => Answered(h)') /\ (AnsweredBefore(h) => AnsweredBefore(h)')
      BY <1>0, <1>3, <3>1, <3>2 DEF Answered, AnsweredBefore
    <3>5. (Heard(h) => Heard(h)') /\ (WillBeHeard(h) => WillBeHeard(h)')
      BY <1>0, <1>3, <2>1, <3>1, <3>2, <3>3 DEF Heard, WillBeHeard
    <3>6. ~JustStarted(h)
      BY <1>3, <3>1 DEF JustStarted
    <3> QED BY <1>4, <2>1, <2>3, <3>4, <3>5, <3>6 DEF InTouch
  <2> QED BY <2>2, <2>3, <1>3
<1>8. ASSUME NEW g \in Agent \cup Device, Appear(g) PROVE Kept
  <2>1. /\ status[h] = "online" /\ known' = known /\ faults' = faults /\ up' = up
        /\ age' = age /\ NextCall(h)' = NextCall(h) /\ sweepDue' = sweepDue
    BY <1>2, <1>8 DEF Appear, NextCall
  <2>2. CASE g = h
    <3>1. ~Heard(h) /\ ~WillBeHeard(h) BY <1>8, <2>2 DEF Appear, Heard, WillBeHeard
    <3>2. (Answered(h) => Answered(h)') /\ (AnsweredBefore(h) => AnsweredBefore(h)')
          /\ (JustStarted(h) => JustStarted(h)')
      BY <2>1 DEF Answered, AnsweredBefore, JustStarted
    <3> QED BY <1>4, <2>1, <3>1, <3>2 DEF InTouch
  <2>3. CASE g # h
    <3>1. due'[h] = due[h] /\ alive'[h] = alive[h]
      BY <1>0, <1>8, <2>3 DEF Appear, TypeOK
    <3> QED BY <1>0, <1>4, <2>1, <3>1, NothingNew
  <2> QED BY <2>2, <2>3
<1>9. ASSUME NEW g \in Agent \cup Device, Disappear(g) PROVE Kept
  <2>1. /\ status[h] = "online" /\ known' = known /\ up' = up /\ due' = due
        /\ age' = age /\ NextCall(h)' = NextCall(h) /\ sweepDue' = sweepDue
        /\ faults < MaxFaults /\ faults' = faults + 1
    BY <1>2, <1>9 DEF Disappear, Fault, NextCall
  <2> QED BY <1>0, <1>4, <2>1, NothingNew

<1>10. ASSUME NEW g \in Agent, HeartbeatFrom(g) PROVE Kept
  <2>1. /\ faults' = faults /\ up' = up /\ alive' = alive /\ alive[g]
        /\ NextCall(h)' = NextCall(h) /\ sweepDue' = sweepDue
    BY <1>10 DEF HeartbeatFrom, NextCall
  <2>2. CASE ~up
    BY <1>2, <1>4, <1>10, <2>1, <2>2 DEF HeartbeatFrom
  <2>3. CASE up /\ g = h
    <3>1. age'[h] = 0 /\ h \in known'
      BY <1>0, <1>3, <1>10, <2>3 DEF HeartbeatFrom, UpsertHost, TypeOK
    <3> QED BY <2>1, <2>3, <3>1, Contact
  <2>4. CASE up /\ g # h
    <3>1. status[h] = "online" /\ age'[h] = age[h] /\ due'[h] = due[h] /\ known \subseteq known'
      BY <1>0, <1>2, <1>3, <1>10, <2>4 DEF HeartbeatFrom, UpsertHost, TypeOK
    <3> QED BY <1>0, <1>4, <2>1, <2>4, <3>1, NothingNew
  <2> QED BY <2>2, <2>3, <2>4
<1>11. ASSUME NEW g \in Agent, LoseHeartbeat(g) PROVE Kept
  <2>1. /\ status[h] = "online" /\ known' = known /\ up' = up /\ alive' = alive
        /\ age' = age /\ NextCall(h)' = NextCall(h) /\ sweepDue' = sweepDue
        /\ faults < MaxFaults /\ faults' = faults + 1
    BY <1>2, <1>11 DEF LoseHeartbeat, Fault, NextCall
  <2>2. CASE g = h
    <3>1. /\ Answered(h) => Answered(h)' /\ AnsweredBefore(h)'
          /\ AnsweredBefore(h) => AnsweredBefore(h)'
          /\ JustStarted(h) => JustStarted(h)'
      BY <1>0, <1>3, <2>1 DEF Answered, AnsweredBefore, JustStarted
    <3>2. CASE faults = 0
      BY <1>4, <2>1, <3>1, <3>2 DEF InTouch
    <3>3. CASE faults = 1
      BY <1>4, <2>1, <3>1, <3>3 DEF InTouch
    <3> QED BY <1>0, <2>1, <3>2, <3>3
  <2>3. CASE g # h
    <3>1. due'[h] = due[h]
      BY <1>0, <1>11, <2>3 DEF LoseHeartbeat, TypeOK
    <3> QED BY <1>0, <1>4, <2>1, <3>1, NothingNew
  <2> QED BY <2>2, <2>3
<1>12. CASE SendHeartbeats
  <2>1. /\ status[h] = "online" /\ known' = known /\ up' = up /\ up /\ alive' = alive
        /\ age' = age /\ due' = due /\ sweepDue' = sweepDue /\ faults' = faults /\ h \in known
    BY <1>2, <1>4, <1>12 DEF SendHeartbeats
  <2>2. OwnCall(h) \in calls'
    BY <1>12, <2>1 DEF SendHeartbeats, OwnCall
  <2>3. NextCall(h)' = NextCall(h)
    BY <1>12, <2>2 DEF SendHeartbeats, NextCall
  <2> QED BY <1>0, <1>4, <2>1, <2>3, NothingNew
<1>13. ASSUME NEW c \in calls, Exchange(c) PROVE Kept
  <2>1. /\ faults' = faults /\ up' = up /\ up /\ alive' = alive /\ alive[c.host]
        /\ due' = due /\ sweepDue' = sweepDue /\ beat' = beat /\ calls' = calls \ {c}
    BY <1>13 DEF Exchange, TouchInv
  <2>2. CASE c.host = h
    <3>1. age'[h] = 0 /\ h \in known'
      BY <1>0, <1>3, <1>13, <2>2 DEF Exchange, UpsertHost, TypeOK
    <3> QED BY <2>1, <2>2, <3>1, Contact
  <2>3. CASE c.host # h
    <3>1. status[h] = "online" /\ age'[h] = age[h] /\ known \subseteq known'
      BY <1>0, <1>2, <1>3, <1>13, <2>3 DEF Exchange, UpsertHost, TypeOK
    <3>2. NextCall(h)' = NextCall(h)
      BY <1>0, <2>1, <2>3, OtherCalls
    <3> QED BY <1>0, <1>4, <2>1, <3>1, <3>2, NothingNew
  <2> QED BY <2>2, <2>3
<1>14. ASSUME NEW c \in calls, CallFails(c) PROVE Kept
  <2>1. /\ up' = up /\ up /\ alive' = alive /\ known' = known
        /\ due' = due /\ sweepDue' = sweepDue /\ beat' = beat /\ calls' = calls \ {c}
    BY <1>14 DEF CallFails, TouchInv
  <2>2. faults' = faults \/ (faults < MaxFaults /\ faults' = faults + 1)
    BY <1>14 DEF CallFails, Fault
  <2>3. c.host # h \/ c.row # "own"
    BY <1>0, <1>2, <1>3, <1>14 DEF CallFails, SetOffline, TypeOK
  <2>4. status[h] = "online" /\ age'[h] = age[h]
    <3>1. CASE c.row = "own"
      BY <1>0, <1>2, <1>3, <1>14, <2>3, <3>1 DEF CallFails, SetOffline, TypeOK
    <3>2. CASE c.row # "own"
      BY <1>2, <1>14, <3>2 DEF CallFails
    <3> QED BY <3>1, <3>2
  <2>5. NextCall(h)' = NextCall(h)
    BY <1>0, <2>1, <2>3, OtherCalls
  <2> QED BY <1>0, <1>4, <2>1, <2>2, <2>4, <2>5, NothingNew
<1>15. ASSUME NEW c \in calls, AnswerGarbled(c) PROVE Kept
  <2>1. /\ up' = up /\ up /\ alive' = alive /\ known' = known /\ alive[c.host]
        /\ due' = due /\ sweepDue' = sweepDue /\ beat' = beat /\ calls' = calls \ {c}
        /\ faults < MaxFaults /\ faults' = faults + 1 /\ status[h] = "online" /\ age' = age
    BY <1>2, <1>15 DEF AnswerGarbled, Fault, TouchInv
  <2>2. CASE c.host = h /\ c.row = "own"
    <3>1. c = OwnCall(h)
      BY <1>0, <2>2 DEF OwnCall, TypeOK, Calls
    <3>2. NextCall(h) = 0
      BY <3>1 DEF NextCall
    <3> QED BY <1>0, <1>4, <2>1, <2>2, <3>2, Garbled
  <2>3. CASE c.host # h \/ c.row # "own"
    <3>1. NextCall(h)' = NextCall(h)
      BY <1>0, <2>1, <2>3, OtherCalls
    <3> QED BY <1>0, <1>4, <2>1, <3>1, NothingNew
  <2> QED BY <2>2, <2>3
<1>16. ASSUME NEW g \in Device, Scan(g) PROVE Kept
  <2>1. /\ up' = up /\ alive' = alive /\ known' = known /\ due' = due
        /\ sweepDue' = sweepDue /\ NextCall(h)' = NextCall(h) /\ faults' = faults
    BY <1>16 DEF Scan, NextCall
  <2>2. status[h] = "online" /\ age'[h] = age[h]
    BY <1>0, <1>2, <1>3, <1>16 DEF Scan, UpsertHost, TypeOK
  <2> QED BY <1>0, <1>4, <2>1, <2>2, NothingNew
<1>17. ASSUME NEW g \in Host, DeleteHost(g) PROVE Kept
  <2>1. /\ up' = up /\ alive' = alive /\ known' = known /\ due' = due
        /\ sweepDue' = sweepDue /\ NextCall(h)' = NextCall(h)
        /\ faults < MaxFaults /\ faults' = faults + 1
    BY <1>17 DEF DeleteHost, Fault, NextCall
  <2>2. status[h] = "online" /\ age'[h] = age[h]
    BY <1>0, <1>2, <1>3, <1>17 DEF DeleteHost, TypeOK
  <2> QED BY <1>0, <1>4, <2>1, <2>2, NothingNew
<1>18. CASE SweepSelect
  <2>1. /\ up' = up /\ alive' = alive /\ known' = known /\ due' = due /\ age' = age
        /\ sweepDue = 0 /\ sweepDue' = SweepEvery /\ NextCall(h)' = NextCall(h)
        /\ faults' = faults /\ status[h] = "online"
    BY <1>2, <1>18 DEF SweepSelect, NextCall
  <2>2. /\ Answered(h) => Answered(h)'
        /\ AnsweredBefore(h) => AnsweredBefore(h)'
        /\ Heard(h) => Heard(h)'
        /\ ~JustStarted(h)
        /\ WillBeHeard(h) => WillBeHeard(h)'
    BY <1>0, <1>3, <2>1 DEF Answered, AnsweredBefore, Heard, JustStarted, WillBeHeard
  <2> QED BY <1>4, <2>1, <2>2 DEF InTouch
<1>19. ASSUME SweepUpdate \/ (\E g \in Host : Announce(g)) \/ UNCHANGED vars PROVE Kept
  <2>1. /\ up' = up /\ alive' = alive /\ known' = known /\ due' = due /\ age' = age
        /\ sweepDue' = sweepDue /\ NextCall(h)' = NextCall(h) /\ faults' = faults
    BY <1>19 DEF SweepUpdate, Announce, vars, NextCall
  <2>2. status[h] = "online"
    BY <1>2, <1>3, <1>19 DEF SweepUpdate, Announce, vars
  <2> QED BY <1>0, <1>4, <2>1, <2>2, NothingNew
<1> QED
  BY <1>5, <1>6, <1>7, <1>8, <1>9, <1>10, <1>11, <1>12, <1>13, <1>14, <1>15, <1>16,
     <1>17, <1>18, <1>19 DEF Next

\* A host that is selected is online and was not seen for the whole threshold;
\* an agent in touch that is due later than now was seen within it.
LEMMA Selected ==
  ASSUME IInv, FewFaults, TouchInv, SweepSelect, NEW h \in Agent,
         status[h] = "online", age[h] > StaleAfter
  PROVE  ~alive[h] \/ due[h] = 0
<1>1. InTouch(h) /\ sweepDue = 0
  BY DEF TouchInv, SweepSelect
<1>2. /\ faults \in {0, 1, 2} /\ age[h] \in Nat /\ due[h] \in 0..Beat /\ Beat \in Nat
      /\ NextCall(h) \in 0..Beat /\ SweepEvery \in Nat /\ SweepEvery > 1
      /\ StaleAfter \in Nat /\ 2 * Beat <= StaleAfter /\ Beat <= SweepEvery
  BY AgentNumbers DEF IInv, FewFaults
<1>3. ~Answered(h) /\ ~AnsweredBefore(h) /\ ~Heard(h)
  BY <1>2 DEF Answered, AnsweredBefore, Heard
<1>4. ~JustStarted(h)
  BY <1>1, <1>2 DEF JustStarted
<1>5. WillBeHeard(h) => due[h] = 0
  BY <1>1, <1>2 DEF WillBeHeard
<1> QED BY <1>1, <1>2, <1>3, <1>4, <1>5 DEF InTouch

\* No false alarm: as long as there were at most two deaths, losses, deletions
\* and restarts, and with periods like those of the code, a host whose agent
\* runs and has sent its first heartbeat is not selected (run.go:438-446).
THEOREM NoFalseAlarmHolds ==
  ASSUME FewFaults
  PROVE  Spec => NoFalseAlarm
<1>1. Init => TouchInv
  BY HostStatusAssumption DEF Init, TouchInv, Host
<1>2. IInv /\ IInv' /\ TouchInv /\ [Next]_vars => TouchInv'
  BY TouchStep DEF IInv
<1>3. IInv /\ TouchInv /\ [Next]_vars =>
        [\A h \in Agent :
           sweep.next = "select" /\ h \in sweep'.stale => ~alive[h] \/ due[h] = 0]_vars
  <2> SUFFICES ASSUME IInv, TouchInv, Next, NEW h \in Agent,
                      sweep.next = "select", h \in sweep'.stale
               PROVE  ~alive[h] \/ due[h] = 0
    BY DEF vars
  <2>1. sweep = Idle
    BY DEF IInv, SweepInTime
  <2>2. h \notin sweep.stale
    BY <2>1 DEF Idle
  <2>3. CASE SweepSelect
    <3>1. sweep'.stale = {g \in Host : Stale(g, StaleAfter)}
      BY <2>1, <2>2, <2>3 DEF SweepSelect, Idle
    <3>2. status[h] = "online" /\ age[h] > StaleAfter
      BY <3>1 DEF Stale
    <3> QED BY <2>3, <3>2, Selected
  <2>4. CASE Start
    BY <2>2, <2>4 DEF Start
  <2>5. CASE Crash
    BY <2>5 DEF Crash, Idle
  <2>6. CASE Tick
    BY <2>1, <2>2, <2>6 DEF Tick, Idle
  <2>7. ASSUME NEW g, Appear(g) \/ Disappear(g) \/ HeartbeatFrom(g) \/ LoseHeartbeat(g)
                      \/ Scan(g) \/ DeleteHost(g) PROVE FALSE
    BY <2>2, <2>7 DEF Appear, Disappear, HeartbeatFrom, LoseHeartbeat, Scan, DeleteHost
  <2>8. ASSUME NEW c \in calls, Exchange(c) \/ CallFails(c) \/ AnswerGarbled(c) PROVE FALSE
    BY <2>2, <2>8 DEF Exchange, CallFails, AnswerGarbled
  <2>9. CASE SendHeartbeats
    BY <2>2, <2>9 DEF SendHeartbeats
  <2>10. ~SweepUpdate /\ \A g \in Host : ~Announce(g)
    BY DEF SweepUpdate, Announce
  <2> QED BY <2>3, <2>4, <2>5, <2>6, <2>7, <2>8, <2>9, <2>10 DEF Next
<1>4. Spec => [](IInv /\ TouchInv)
  <2>1. IInv /\ [Next]_vars => IInv'
    BY StepInv
  <2> QED BY <1>1, <1>2, <2>1, InitInv, PTL DEF Spec
<1> QED BY <1>3, <1>4, PTL DEF Spec, NoFalseAlarm
=============================================================================
