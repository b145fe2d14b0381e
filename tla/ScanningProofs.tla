-------------------------- MODULE ScanningProofs ---------------------------
(***************************************************************************)
(* Proofs about scans: which agent makes them (ScanDedup), for every set   *)
(* of agents, every interval and every number of events, and what becomes  *)
(* of the devices they find (Devices), for every set of addresses, every   *)
(* vendor table and every number of restarts.                              *)
(*                                                                         *)
(* Four arguments: what an agent believes of a peer's last scan is never   *)
(* more recent than the scan; its two loops keep their distance, so that   *)
(* it is never long without a scan; the news of a scan comes on two ways,  *)
(* one of which is open; and a row is only written by what knows of it.    *)
(***************************************************************************)
EXTENDS ScanDedup, Devices, TLAPS

\* A scan time is no more recent than the scan at each place it passes: in the
\* scanning agent, in a message, in the agent that recorded it.
ScanTimesAreOld ==
  /\ \A n \in Node : local[n] >= last[n]
  /\ \A x \in msgs : x.scan >= last[x.from]
  /\ \A n, m \in Node : seen[n][m] >= last[m]

IInv == TypeOK /\ ScanTimesAreOld

\* A time grows older and stays a time; what is more recent stays so.
LEMMA OlderAges ==
  ASSUME NEW a \in Age \cup {Never}, NEW b \in Age \cup {Never}
  PROVE  /\ Older(a) \in Age \cup {Never}
         /\ a >= b => Older(a) >= Older(b)
BY ScanAssumption DEF Age, Never, Older

\* Never is the oldest time there is, zero the most recent.
LEMMA Ages ==
  ASSUME NEW a \in Age \cup {Never}
  PROVE  0 \in Age /\ Interval \in Age /\ Never >= a /\ a >= 0
BY ScanAssumption DEF Age, Never

\* The initial state meets the invariant.
LEMMA InitInv == Init => IInv
<1> SUFFICES ASSUME Init PROVE IInv
  OBVIOUS
<1>1. TypeOK
  BY ScanAssumption DEF Init, TypeOK, Age, Never, MaxQuiet, Gap
<1>2. ScanTimesAreOld
  BY ScanAssumption DEF Init, ScanTimesAreOld, Never
<1>3. QED BY <1>1, <1>2 DEF IInv

\* One entry of a table of scans or of scan times changes.
LEMMA OneEntry ==
  ASSUME TypeOK, NEW n \in Node
  PROVE  /\ \A k \in Kind : \A v \in 0..(ScanUnits + 1) :
              [busy EXCEPT ![n][k] = v] \in [Node -> [Kind -> 0..(ScanUnits + 1)]]
         /\ \A m \in Node : \A a \in Age \cup {Never} :
              [seen EXCEPT ![n][m] = a] \in [Node -> [Node -> Age \cup {Never}]]
         /\ \A k \in Loop : \A a \in Age :
              [due EXCEPT ![n][k] = a] \in [Node -> [Loop -> Age]]
         /\ \A k \in Loop :
              [ticking EXCEPT ![n] = @ \cup {k}] \in [Node -> SUBSET Loop]
BY DEF TypeOK

\* Every step keeps the types.
LEMMA TypeStep == TypeOK /\ [Next]_vars => TypeOK'
<1> SUFFICES ASSUME TypeOK, [Next]_vars PROVE TypeOK'
  OBVIOUS
<1> USE ScanAssumption
<1>0. /\ 0 \in Age /\ Interval \in Age /\ Half \in Age
      /\ 0 \in 0..(ScanUnits + 1) /\ ScanUnits + 1 \in 0..(ScanUnits + 1)
      /\ Loop \subseteq Kind /\ "manual" \in Kind
      /\ MaxQuiet \in Nat /\ 0 \in 0..MaxQuiet
  BY DEF Age, Kind, MaxQuiet, Gap
<1>1. ASSUME NEW n \in Node, Start(n) PROVE TypeOK'
  <2>1. due' \in [Node -> [Loop -> Age]]
    BY <1>0, <1>1 DEF Start, TypeOK
  <2>2. seen' \in [Node -> [Node -> Age \cup {Never}]]
    BY <1>1 DEF Start, TypeOK
  <2>3. QED
    BY <1>1, <2>1, <2>2 DEF Start, TypeOK
<1>2. ASSUME NEW n \in Node, Crash(n) PROVE TypeOK'
  BY <1>0, <1>2 DEF Crash, Event, TypeOK
<1>3. ASSUME NEW n \in Node, TriggerScan(n) PROVE TypeOK'
  <2>1. busy' \in [Node -> [Kind -> 0..(ScanUnits + 1)]]
    BY <1>0, <1>3, OneEntry DEF TriggerScan
  <2>2. events' \in 0..MaxEvents
    BY <1>3 DEF TriggerScan, Event, TypeOK
  <2>3. QED
    BY <1>3, <2>1, <2>2 DEF TriggerScan, TypeOK
<1>4. ASSUME NEW n \in Node, SendHeartbeats(n) PROVE TypeOK'
  <2>1. msgs' \in SUBSET Msg
    BY <1>4 DEF SendHeartbeats, TypeOK, Msg
  <2>2. beat' \in [Node -> 0..Beat]
    BY <1>4 DEF SendHeartbeats, TypeOK
  <2>3. QED
    BY <1>4, <2>1, <2>2 DEF SendHeartbeats, TypeOK
<1>5. ASSUME NEW n \in Node, NEW k \in Loop, Round(n, k) PROVE TypeOK'
  <2>1. due' \in [Node -> [Loop -> Age]]
    BY <1>0, <1>5, OneEntry DEF Round
  <2>2. \/ busy' = [busy EXCEPT ![n][k] = ScanUnits + 1] /\ UNCHANGED ticking
        \/ ticking' = [ticking EXCEPT ![n] = @ \cup {k}] /\ UNCHANGED busy
    BY <1>5 DEF Round
  <2>3. /\ busy' \in [Node -> [Kind -> 0..(ScanUnits + 1)]]
        /\ ticking' \in [Node -> SUBSET Loop]
    <3>1. CASE busy' = [busy EXCEPT ![n][k] = ScanUnits + 1] /\ UNCHANGED ticking
      BY <1>0, <3>1, OneEntry DEF TypeOK
    <3>2. CASE ticking' = [ticking EXCEPT ![n] = @ \cup {k}] /\ UNCHANGED busy
      BY <3>2, OneEntry DEF TypeOK
    <3>3. QED BY <2>2, <3>1, <3>2
  <2>4. QED
    BY <1>5, <2>1, <2>3 DEF Round, TypeOK
<1>6. ASSUME NEW n \in Node, NEW k \in Kind, Complete(n, k) PROVE TypeOK'
  <2>1. quiet' \in [Node -> 0..MaxQuiet]
    BY <1>0, <1>6 DEF Complete
  <2>2. ticking' \in [Node -> SUBSET Loop] /\ due' \in [Node -> [Loop -> Age]]
    <3>1. CASE k \in Loop \ ticking[n]
      <4>1. /\ ticking' = [ticking EXCEPT ![n] = @ \cup {k}]
            /\ due' = [due EXCEPT ![n][k] = Interval]
        BY <1>6, <3>1 DEF Complete
      <4>2. k \in Loop
        BY <3>1
      <4>3. QED
        BY <1>0, <4>1, <4>2, OneEntry
    <3>2. CASE k \notin Loop \ ticking[n]
      BY <1>6, <3>2 DEF Complete, TypeOK
    <3>3. QED BY <3>1, <3>2
  <2>3. busy' \in [Node -> [Kind -> 0..(ScanUnits + 1)]]
    BY <1>6 DEF Complete, TypeOK
  <2>4. local' \in [Node -> Age \cup {Never}] /\ last' \in [Node -> Age \cup {Never}]
    BY <1>0, <1>6 DEF Complete, TypeOK
  <2>5. QED
    BY <1>6, <2>1, <2>2, <2>3, <2>4 DEF Complete, TypeOK
<1>7. ASSUME NEW x \in msgs, Arrive(x) PROVE TypeOK'
  <2>1. x \in Msg
    BY DEF TypeOK
  <2>2. seen' \in [Node -> [Node -> Age \cup {Never}]]
    <3>1. seen' = seen \/ seen' = [seen EXCEPT ![x.to][x.from] = x.scan]
      BY <1>7 DEF Arrive, Recorded
    <3>2. x.to \in Node /\ x.from \in Node /\ x.scan \in Age \cup {Never}
      BY <2>1 DEF Msg
    <3>3. [seen EXCEPT ![x.to][x.from] = x.scan] \in [Node -> [Node -> Age \cup {Never}]]
      BY <3>2, OneEntry
    <3>4. QED
      BY <3>1, <3>3 DEF TypeOK
  <2>3. msgs' \in SUBSET Msg
    <3>1. \A y \in msgs' : \/ y \in msgs
                          \/ y = [from |-> x.to, to |-> x.from,
                                  scan |-> local[x.to], answer |-> TRUE]
      BY <1>7 DEF Arrive
    <3>2. [from |-> x.to, to |-> x.from, scan |-> local[x.to], answer |-> TRUE] \in Msg
      BY <2>1 DEF TypeOK, Msg
    <3>3. QED
      BY <3>1, <3>2 DEF TypeOK
  <2>4. QED
    BY <1>7, <2>2, <2>3 DEF Arrive, TypeOK
<1>8. ASSUME NEW x \in msgs, Lose(x) PROVE TypeOK'
  BY <1>8 DEF Lose, Event, TypeOK
<1>9. CASE Tick
  <2>1. /\ local' \in [Node -> Age \cup {Never}]
        /\ last' \in [Node -> Age \cup {Never}]
        /\ seen' \in [Node -> [Node -> Age \cup {Never}]]
    BY <1>9, OlderAges DEF Tick, TypeOK
  <2>2. due' \in [Node -> [Loop -> Age]]
    BY <1>9 DEF Tick, TypeOK, Age
  <2>3. beat' \in [Node -> 0..Beat] /\ quiet' \in [Node -> 0..MaxQuiet]
    BY <1>0, <1>9 DEF Tick, TypeOK
  <2>4. busy' \in [Node -> [Kind -> 0..(ScanUnits + 1)]]
    BY <1>9 DEF Tick, TypeOK
  <2>5. QED
    BY <1>9, <2>1, <2>2, <2>3, <2>4 DEF Tick, TypeOK
<1>10. CASE UNCHANGED vars
  BY <1>10 DEF vars, TypeOK
<1>11. QED
  BY <1>1, <1>2, <1>3, <1>4, <1>5, <1>6, <1>7, <1>8, <1>9, <1>10 DEF Next

\* Every step keeps the invariant.
LEMMA StepInv == IInv /\ [Next]_vars => IInv'
<1> SUFFICES ASSUME IInv, [Next]_vars PROVE IInv'
  OBVIOUS
<1>0. /\ TypeOK /\ TypeOK' /\ ScanTimesAreOld
      /\ \A a \in Age \cup {Never} : Never >= a /\ a >= 0 /\ 0 >= 0
  BY TypeStep, Ages DEF IInv
<1> SUFFICES ScanTimesAreOld'
  BY <1>0 DEF IInv
<1>1. ASSUME NEW n \in Node, Start(n) PROVE ScanTimesAreOld'
  BY <1>0, <1>1 DEF Start, ScanTimesAreOld, TypeOK
<1>2. ASSUME NEW n \in Node, Crash(n) PROVE ScanTimesAreOld'
  BY <1>0, <1>2 DEF Crash, ScanTimesAreOld
<1>3. ASSUME NEW n \in Node, TriggerScan(n) PROVE ScanTimesAreOld'
  BY <1>0, <1>3 DEF TriggerScan, ScanTimesAreOld
<1>4. ASSUME NEW n \in Node, SendHeartbeats(n) PROVE ScanTimesAreOld'
  <2>1. \A x \in msgs' : x \in msgs \/ (x.from = n /\ x.scan = local[n])
    BY <1>4 DEF SendHeartbeats
  <2>2. QED
    BY <1>0, <1>4, <2>1 DEF SendHeartbeats, ScanTimesAreOld
<1>5. ASSUME NEW n \in Node, NEW k \in Loop, Round(n, k) PROVE ScanTimesAreOld'
  BY <1>0, <1>5 DEF Round, ScanTimesAreOld
<1>6. ASSUME NEW n \in Node, NEW k \in Kind, Complete(n, k) PROVE ScanTimesAreOld'
  <2>1. \A m \in Node : \/ last'[m] = 0 /\ local'[m] = 0
                        \/ last'[m] = last[m] /\ local'[m] = local[m]
    <3>1. /\ local' = [local EXCEPT ![n] = 0] /\ last' = [last EXCEPT ![n] = 0]
          /\ local \in [Node -> Age \cup {Never}] /\ last \in [Node -> Age \cup {Never}]
      BY <1>0, <1>6 DEF Complete, TypeOK
    <3>2. QED
      BY <3>1
  <2>2. msgs' = msgs /\ seen' = seen
    BY <1>6 DEF Complete
  <2>3. /\ \A m \in Node : local'[m] \in Age \cup {Never}
        /\ \A x \in msgs : x.from \in Node /\ x.scan \in Age \cup {Never}
        /\ \A m, p \in Node : seen[m][p] \in Age \cup {Never}
    BY <1>0 DEF TypeOK, Msg
  <2>4. QED
    BY <1>0, <2>1, <2>2, <2>3 DEF ScanTimesAreOld
<1>7. ASSUME NEW x \in msgs, Arrive(x) PROVE ScanTimesAreOld'
  <2>1. x.from \in Node /\ x.to \in Node
    BY <1>0 DEF TypeOK, Msg
  <2>2. \A y \in msgs' : y \in msgs \/ (y.from = x.to /\ y.scan = local[x.to])
    BY <1>7 DEF Arrive
  <2>3. \A n, m \in Node : seen'[n][m] = seen[n][m] \/ (m = x.from /\ seen'[n][m] = x.scan)
    <3>1. seen' = seen \/ seen' = [seen EXCEPT ![x.to][x.from] = x.scan]
      BY <1>7 DEF Arrive, Recorded
    <3>2. seen \in [Node -> [Node -> Age \cup {Never}]]
      BY <1>0 DEF TypeOK
    <3>3. QED
      BY <2>1, <3>1, <3>2
  <2>4. UNCHANGED <<local, last>>
    BY <1>7 DEF Arrive
  <2>5. QED
    BY <1>0, <2>1, <2>2, <2>3, <2>4 DEF ScanTimesAreOld
<1>8. ASSUME NEW x \in msgs, Lose(x) PROVE ScanTimesAreOld'
  BY <1>0, <1>8 DEF Lose, ScanTimesAreOld
<1>9. CASE Tick
  <2>1. msgs' = {}
    BY <1>9 DEF Tick
  <2>2. \A n \in Node : local'[n] = Older(local[n]) /\ last'[n] = Older(last[n])
    BY <1>9 DEF Tick
  <2>3. \A n, m \in Node : seen'[n][m] = Older(seen[n][m])
    BY <1>9 DEF Tick
  <2>4. /\ \A n \in Node : local[n] \in Age \cup {Never} /\ last[n] \in Age \cup {Never}
        /\ \A n, m \in Node : seen[n][m] \in Age \cup {Never}
    BY <1>0 DEF TypeOK
  <2>5. QED
    BY <1>0, <2>1, <2>2, <2>3, <2>4, OlderAges DEF ScanTimesAreOld
<1>10. CASE UNCHANGED vars
  BY <1>0, <1>10 DEF vars, ScanTimesAreOld
<1>11. QED
  BY <1>1, <1>2, <1>3, <1>4, <1>5, <1>6, <1>7, <1>8, <1>9, <1>10 DEF Next

LEMMA Invariant == Spec => []IInv
BY InitInv, StepInv, PTL DEF Spec

\* The variables keep their types, whatever happens.
THEOREM TypeCorrect == Spec => []TypeOK
<1>1. IInv => TypeOK
  BY DEF IInv
<1>2. QED
  BY <1>1, Invariant, PTL

\* No agent believes that a peer scanned more recently than it did
\* (heartbeat.go:194-196, handlers.go:110-113, scan_coordinator.go:46-50).
THEOREM SeenCorrect == Spec => []SeenIsReal
<1>1. IInv => SeenIsReal
  BY DEF IInv, ScanTimesAreOld, SeenIsReal
<1>2. QED
  BY <1>1, Invariant, PTL

-----------------------------------------------------------------------------
(***************************************************************************)
(* The network is scanned as long as an agent runs, for every set of       *)
(* agents and however often they stop.  It takes that the two loops of an  *)
(* agent keep their distance: a scan is over before the other loop's turn. *)
(***************************************************************************)
ScansAreShort == ScanUnits < Half /\ Half + ScanUnits < Interval

\* The two loops of agent n, from its start on: nothing has been done yet; the
\* first ARP scan is under way; the ARP loop ticks, half an interval and what
\* its first scan took ahead of the mDNS loop; the first mDNS scan is under
\* way; both tick, either of them next.
Apart(n) ==
  LET toArp  == due[n]["arp"]
      toMdns == due[n]["mdns"]
  IN \/ /\ "arp" \notin ticking[n] /\ busy[n]["arp"] = 0 /\ toArp = 0
        /\ "mdns" \notin ticking[n] /\ busy[n]["mdns"] = 0 /\ toMdns = Half
        /\ quiet[n] = 0
     \/ /\ "arp" \notin ticking[n] /\ busy[n]["arp"] > 0
        /\ toArp + (ScanUnits + 1 - busy[n]["arp"]) = Interval
        /\ "mdns" \notin ticking[n] /\ busy[n]["mdns"] = 0
        /\ toMdns + (ScanUnits + 1 - busy[n]["arp"]) = Half
     \/ /\ "arp" \in ticking[n]
        /\ "mdns" \notin ticking[n] /\ busy[n]["mdns"] = 0
        /\ toArp + Half <= toMdns + Interval + ScanUnits /\ toMdns + Interval <= toArp + Half
     \/ /\ "arp" \in ticking[n]
        /\ "mdns" \notin ticking[n] /\ busy[n]["mdns"] > 0
        /\ toMdns + (ScanUnits + 1 - busy[n]["mdns"]) = Interval
        /\ toArp + Half <= toMdns + ScanUnits /\ toMdns <= toArp + Half
     \/ /\ "arp" \in ticking[n] /\ "mdns" \in ticking[n]
        /\ \/ toArp + Half <= toMdns + ScanUnits /\ toMdns <= toArp + Half + ScanUnits
           \/ /\ toArp + Half <= toMdns + Interval + ScanUnits
              /\ toMdns + Interval <= toArp + Half + ScanUnits

\* A scan of n under way will be over in time, or a round of n begins in time.
Served(n) ==
  \/ \E k \in Loop : busy[n][k] > 0 /\ quiet[n] + busy[n][k] <= MaxQuiet
  \/ \E k \in Loop : quiet[n] + due[n][k] < Interval + Gap

\* A scan anyone completed is one the quiet of each agent began after.
ScansEndQuiet ==
  \A n \in up, m \in Node : last[m] < Interval => quiet[n] <= last[m]

\* An agent that does not run scans nothing and waits for nothing.
DownIsIdle ==
  \A n \in Node \ up : quiet[n] = 0 /\ \A k \in Kind : busy[n][k] = 0

QuietInv ==
  /\ \A n \in up : Apart(n) /\ Served(n)
  /\ ScansEndQuiet
  /\ DownIsIdle

\* What the types say of one agent.
LEMMA AgentTypes ==
  ASSUME TypeOK, NEW n \in Node
  PROVE  /\ \A k \in Loop : due[n][k] \in 0..Interval /\ busy[n][k] \in 0..(ScanUnits + 1)
         /\ "arp" \in Loop /\ "mdns" \in Loop
         /\ quiet[n] \in 0..MaxQuiet
         /\ Interval \in Nat /\ Half \in Nat /\ ScanUnits \in Nat
         /\ Gap \in Nat /\ MaxQuiet \in Nat
         /\ Gap >= Half + ScanUnits /\ Gap >= (Interval - Half) + ScanUnits
         /\ MaxQuiet = Interval + Gap + ScanUnits
BY ScanAssumption DEF TypeOK, Age, Loop, Kind, Gap, MaxQuiet

\* An agent none of whose loops moves stays served; scans of others help.
LEMMA Unmoved ==
  ASSUME TypeOK, TypeOK', NEW n \in Node, Apart(n), Served(n),
         due'[n] = due[n], ticking'[n] = ticking[n], quiet'[n] <= quiet[n],
         \A k \in Loop : busy'[n][k] = busy[n][k]
  PROVE  Apart(n)' /\ Served(n)'
<1>1. /\ quiet[n] \in Nat /\ quiet'[n] \in Nat
      /\ \A k \in Loop : due[n][k] \in Nat /\ busy[n][k] \in Nat
      /\ "arp" \in Loop /\ "mdns" \in Loop
      /\ Interval \in Nat /\ Gap \in Nat /\ MaxQuiet \in Nat
  BY AgentTypes DEF TypeOK
<1>2. Apart(n)' BY <1>1 DEF Apart
<1>3. Served(n)' BY <1>1 DEF Served
<1> QED BY <1>2, <1>3

\* A unit passes: the loops come nearer to their next rounds together.
LEMMA TickServes ==
  ASSUME TypeOK, TypeOK', NEW n \in up, Apart(n), Served(n), Tick
  PROVE  Apart(n)' /\ Served(n)'
<1>1. n \in Node BY DEF TypeOK
<1>2. /\ \A k \in Loop : due[n][k] > 0 /\ due'[n][k] = due[n][k] - 1
      /\ \A k \in Loop : busy[n][k] # 1
      /\ \A k \in Loop : busy'[n][k] = IF busy[n][k] = 0 THEN 0 ELSE busy[n][k] - 1
      /\ quiet'[n] = IF quiet[n] < MaxQuiet THEN quiet[n] + 1 ELSE quiet[n]
      /\ ticking'[n] = ticking[n]
  BY <1>1 DEF Tick, Kind
<1>3. /\ \A k \in Loop : due[n][k] \in 0..Interval /\ busy[n][k] \in 0..(ScanUnits + 1)
      /\ "arp" \in Loop /\ "mdns" \in Loop
      /\ quiet[n] \in 0..MaxQuiet
      /\ Interval \in Nat /\ Half \in Nat /\ ScanUnits \in Nat
      /\ Gap \in Nat /\ MaxQuiet \in Nat
      /\ MaxQuiet = Interval + Gap + ScanUnits
  BY <1>1, AgentTypes
<1>4. Apart(n)'
  <2>1. /\ due'[n]["arp"] = due[n]["arp"] - 1 /\ due'[n]["mdns"] = due[n]["mdns"] - 1
        /\ due[n]["arp"] > 0 /\ due[n]["mdns"] > 0
        /\ due[n]["arp"] \in Nat /\ due[n]["mdns"] \in Nat
    BY <1>2, <1>3
  <2>2. /\ busy[n]["arp"] \in Nat /\ busy[n]["mdns"] \in Nat
        /\ busy[n]["arp"] # 1 /\ busy[n]["mdns"] # 1
        /\ busy'[n]["arp"] = IF busy[n]["arp"] = 0 THEN 0 ELSE busy[n]["arp"] - 1
        /\ busy'[n]["mdns"] = IF busy[n]["mdns"] = 0 THEN 0 ELSE busy[n]["mdns"] - 1
    BY <1>2, <1>3
  <2>3. /\ Interval \in Nat /\ Half \in Nat /\ ScanUnits \in Nat
        /\ ticking'[n] = ticking[n]
    BY <1>2, <1>3
  <2> HIDE DEF Loop, Kind
  <2> QED BY <2>1, <2>2, <2>3, SMTT(60) DEF Apart
<1>5. Served(n)'
  <2>1. ASSUME NEW k \in Loop, busy[n][k] > 0, quiet[n] + busy[n][k] <= MaxQuiet
        PROVE  Served(n)'
    <3>1. busy'[n][k] > 0 /\ quiet'[n] + busy'[n][k] <= MaxQuiet
      BY <1>2, <1>3, <2>1
    <3> QED BY <3>1 DEF Served
  <2>2. ASSUME NEW k \in Loop, quiet[n] + due[n][k] < Interval + Gap
        PROVE  Served(n)'
    <3>1. quiet'[n] + due'[n][k] < Interval + Gap BY <1>2, <1>3, <2>2
    <3> QED BY <3>1 DEF Served
  <2> QED BY <2>1, <2>2 DEF Served
<1> QED BY <1>4, <1>5

\* A round: a scan begins in time, or one that another agent made is recent, and
\* the other loop's turn is near.
LEMMA RoundServes ==
  ASSUME IInv, TypeOK', ScansEndQuiet, ScansAreShort,
         NEW n \in up, Apart(n), Served(n), NEW k \in Loop, Round(n, k)
  PROVE  Apart(n)' /\ Served(n)'
<1>1. n \in Node /\ TypeOK BY DEF TypeOK, IInv
<1>2. /\ due[n][k] = 0 /\ busy[n][k] = 0
      /\ \A j \in Loop : due'[n][j] = IF j = k THEN Interval ELSE due[n][j]
      /\ quiet'[n] = quiet[n]
  BY <1>1 DEF Round, TypeOK
<1>3. /\ \A j \in Loop : due[n][j] \in 0..Interval /\ busy[n][j] \in 0..(ScanUnits + 1)
      /\ "arp" \in Loop /\ "mdns" \in Loop
      /\ quiet[n] \in 0..MaxQuiet
      /\ Interval \in Nat /\ Half \in Nat /\ ScanUnits \in Nat
      /\ Gap \in Nat /\ MaxQuiet \in Nat
      /\ Gap >= Half + ScanUnits /\ Gap >= (Interval - Half) + ScanUnits
      /\ MaxQuiet = Interval + Gap + ScanUnits
  BY <1>1, AgentTypes
<1>4. k = "arp" \/ k = "mdns" BY DEF Loop
<1>5. CASE ShouldScan(n)
  <2>1. /\ \A j \in Loop : busy'[n][j] = IF j = k THEN ScanUnits + 1 ELSE busy[n][j]
        /\ ticking'[n] = ticking[n]
    BY <1>1, <1>5 DEF Round, TypeOK, Kind
  <2>2. Apart(n)'
    <3>1. CASE k = "arp" BY <1>2, <1>3, <2>1, <3>1 DEF Apart, ScansAreShort
    <3>2. CASE k = "mdns" BY <1>2, <1>3, <2>1, <3>2 DEF Apart, ScansAreShort
    <3> QED BY <1>4, <3>1, <3>2
  <2>3. Served(n)'
    <3>1. ASSUME NEW j \in Loop, busy[n][j] > 0, quiet[n] + busy[n][j] <= MaxQuiet
          PROVE  Served(n)'
      <4>1. busy'[n][j] > 0 /\ quiet'[n] + busy'[n][j] <= MaxQuiet
        BY <1>2, <2>1, <3>1
      <4> QED BY <4>1 DEF Served
    <3>2. ASSUME NEW j \in Loop, quiet[n] + due[n][j] < Interval + Gap
          PROVE  Served(n)'
      <4>1. busy'[n][k] > 0 /\ quiet'[n] + busy'[n][k] <= MaxQuiet
        BY <1>2, <1>3, <2>1, <3>2
      <4> QED BY <4>1 DEF Served
    <3> QED BY <3>1, <3>2 DEF Served
  <2> QED BY <2>2, <2>3
<1>6. CASE ~ShouldScan(n)
  <2>1. /\ busy' = busy
        /\ ticking'[n] = ticking[n] \cup {k}
    BY <1>1, <1>6 DEF Round, TypeOK
  <2>2. quiet[n] < Interval
    <3>1. PICK m \in Node : ~(seen[n][m] >= Interval) BY <1>6 DEF ShouldScan
    <3>2. /\ seen[n][m] >= last[m]
          /\ seen[n][m] \in Nat /\ last[m] \in Nat
      <4>1. /\ seen[n][m] \in Age \cup {Never} /\ last[m] \in Age \cup {Never}
            /\ seen[n][m] = Never \/ seen[n][m] >= last[m]
        BY <1>1 DEF IInv, ScanTimesAreOld, TypeOK
      <4> QED BY <1>3, <4>1 DEF Age, Never
    <3>3. quiet[n] <= last[m] BY <1>3, <3>1, <3>2 DEF ScansEndQuiet
    <3> QED BY <1>3, <3>1, <3>2, <3>3
  <2>3. Apart(n)'
    <3>1. CASE k = "arp" BY <1>2, <1>3, <2>1, <3>1 DEF Apart, ScansAreShort
    <3>2. CASE k = "mdns" BY <1>2, <1>3, <2>1, <3>2 DEF Apart, ScansAreShort
    <3> QED BY <1>4, <3>1, <3>2
  <2>4. Served(n)'
    <3>1. CASE k = "arp"
      <4>1. due[n]["mdns"] <= Gap BY <1>2, <1>3, <3>1 DEF Apart, ScansAreShort
      <4>2. quiet'[n] + due'[n]["mdns"] < Interval + Gap
        BY <1>2, <1>3, <2>2, <3>1, <4>1
      <4> QED BY <1>3, <4>2 DEF Served
    <3>2. CASE k = "mdns"
      <4>1. due[n]["arp"] <= Gap BY <1>2, <1>3, <3>2 DEF Apart, ScansAreShort
      <4>2. quiet'[n] + due'[n]["arp"] < Interval + Gap
        BY <1>2, <1>3, <2>2, <3>2, <4>1
      <4> QED BY <1>3, <4>2 DEF Served
    <3> QED BY <1>4, <3>1, <3>2
  <2> QED BY <2>3, <2>4
<1> QED BY <1>5, <1>6

\* A scan of the agent is complete.
LEMMA CompleteServes ==
  ASSUME TypeOK, TypeOK', ScansAreShort,
         NEW n \in up, Apart(n), NEW k \in Loop, Complete(n, k)
  PROVE  Apart(n)' /\ Served(n)'
<1>1. n \in Node BY DEF TypeOK
<1>2. /\ busy[n][k] \in 1..ScanUnits
      /\ \A j \in Loop : busy'[n][j] = IF j = k THEN 0 ELSE busy[n][j]
      /\ quiet'[n] = 0
  BY <1>1 DEF Complete, TypeOK, Kind
<1>3. /\ ticking'[n] = ticking[n] \cup {k}
      /\ \A j \in Loop : due'[n][j] = IF j = k /\ k \notin ticking[n] THEN Interval ELSE due[n][j]
  BY <1>1 DEF Complete, TypeOK
<1>4. /\ \A j \in Loop : due[n][j] \in 0..Interval /\ busy[n][j] \in 0..(ScanUnits + 1)
      /\ "arp" \in Loop /\ "mdns" \in Loop
      /\ Interval \in Nat /\ Half \in Nat /\ ScanUnits \in Nat /\ Gap \in Nat
      /\ Gap >= Half + ScanUnits
  BY <1>1, AgentTypes
<1>5. k = "arp" \/ k = "mdns" BY DEF Loop
<1>6. Apart(n)'
  <2>1. CASE k = "arp" BY <1>2, <1>3, <1>4, <2>1 DEF Apart, ScansAreShort
  <2>2. CASE k = "mdns" BY <1>2, <1>3, <1>4, <2>2 DEF Apart, ScansAreShort
  <2> QED BY <1>5, <2>1, <2>2
<1>7. Served(n)'
  <2>1. quiet'[n] + due'[n]["arp"] < Interval + Gap
    BY <1>2, <1>3, <1>4 DEF ScansAreShort
  <2> QED BY <1>4, <2>1 DEF Served
<1> QED BY <1>6, <1>7

\* Every step keeps each agent that runs served.
LEMMA ServedStep ==
  ASSUME IInv, TypeOK', QuietInv, ScansAreShort, [Next]_vars, NEW n \in up'
  PROVE  Apart(n)' /\ Served(n)'
<1>0. TypeOK BY DEF IInv
<1>1. n \in Node BY DEF TypeOK
<1>2. ASSUME n \in up, due'[n] = due[n], ticking'[n] = ticking[n],
             quiet'[n] = quiet[n] \/ quiet'[n] = 0,
             \A k \in Loop : busy'[n][k] = busy[n][k]
      PROVE  Apart(n)' /\ Served(n)'
  <2>1. quiet'[n] <= quiet[n] BY <1>0, <1>1, <1>2, AgentTypes
  <2> QED BY <1>0, <1>1, <1>2, <2>1, Unmoved DEF QuietInv
<1>3. ASSUME NEW m \in Node, Start(m) PROVE Apart(n)' /\ Served(n)'
  <2>1. CASE n = m
    <3>1. /\ \A k \in Loop : due'[n][k] = IF k = "arp" THEN 0 ELSE Half
          /\ ticking'[n] = {}
      BY <1>0, <1>1, <1>3, <2>1 DEF Start, TypeOK
    <3>2. /\ busy'[n]["arp"] = 0 /\ busy'[n]["mdns"] = 0 /\ quiet'[n] = 0
      BY <1>1, <1>3, <2>1 DEF Start, QuietInv, DownIsIdle, Kind, Loop
    <3>3. /\ Interval \in Nat /\ Half \in Nat /\ Gap \in Nat /\ Gap >= Half + ScanUnits
          /\ ScanUnits \in Nat /\ "arp" \in Loop /\ "mdns" \in Loop
      BY <1>0, <1>1, AgentTypes
    <3>4. Apart(n)' BY <3>1, <3>2, <3>3 DEF Apart
    <3>5. quiet'[n] + due'[n]["arp"] < Interval + Gap
      BY <3>1, <3>2, <3>3 DEF ScansAreShort
    <3> QED BY <3>3, <3>4, <3>5 DEF Served
  <2>2. CASE n # m
    BY <1>0, <1>2, <1>3, <2>2 DEF Start, TypeOK
  <2> QED BY <2>1, <2>2
<1>4. ASSUME NEW m \in Node, Crash(m) PROVE Apart(n)' /\ Served(n)'
  BY <1>0, <1>1, <1>2, <1>4 DEF Crash, TypeOK
<1>5. ASSUME NEW m \in Node, TriggerScan(m) PROVE Apart(n)' /\ Served(n)'
  <2>1. \A k \in Loop : busy'[n][k] = busy[n][k]
    BY <1>0, <1>1, <1>5 DEF TriggerScan, TypeOK, Loop, Kind
  <2> QED BY <1>2, <1>5, <2>1 DEF TriggerScan
<1>6. ASSUME NEW m \in Node, SendHeartbeats(m) PROVE Apart(n)' /\ Served(n)'
  BY <1>2, <1>6 DEF SendHeartbeats
<1>7. ASSUME NEW m \in Node, NEW k \in Loop, Round(m, k) PROVE Apart(n)' /\ Served(n)'
  <2>1. n \in up BY <1>7 DEF Round
  <2>2. CASE n = m BY <1>7, <2>1, <2>2, RoundServes DEF QuietInv
  <2>3. CASE n # m
    <3>1. /\ due'[n] = due[n] /\ ticking'[n] = ticking[n] /\ busy'[n] = busy[n]
          /\ quiet'[n] = quiet[n]
      BY <1>0, <1>1, <1>7, <2>3 DEF Round, TypeOK
    <3> QED BY <1>2, <2>1, <3>1
  <2> QED BY <2>2, <2>3
<1>8. ASSUME NEW m \in Node, NEW k \in Kind, Complete(m, k) PROVE Apart(n)' /\ Served(n)'
  <2>1. n \in up /\ quiet'[n] = 0 BY <1>1, <1>8 DEF Complete
  <2>2. CASE n = m /\ k \in Loop
    BY <1>0, <1>8, <2>1, <2>2, CompleteServes DEF QuietInv
  <2>3. CASE n = m /\ k \notin Loop
    <3>1. \A j \in Loop : busy'[n][j] = busy[n][j]
      BY <1>0, <1>1, <1>8, <2>3 DEF Complete, TypeOK, Kind
    <3> QED BY <1>2, <1>8, <2>1, <2>3, <3>1 DEF Complete
  <2>4. CASE n # m
    <3>1. /\ due'[n] = due[n] /\ ticking'[n] = ticking[n] /\ busy'[n] = busy[n]
      BY <1>0, <1>1, <1>8, <2>4 DEF Complete, TypeOK
    <3> QED BY <1>2, <2>1, <3>1
  <2> QED BY <2>2, <2>3, <2>4
<1>9. ASSUME NEW x \in msgs, Arrive(x) PROVE Apart(n)' /\ Served(n)'
  BY <1>2, <1>9 DEF Arrive
<1>10. ASSUME NEW x \in msgs, Lose(x) PROVE Apart(n)' /\ Served(n)'
  BY <1>2, <1>10 DEF Lose
<1>11. CASE Tick
  <2>1. n \in up BY <1>11 DEF Tick
  <2> QED BY <1>0, <1>11, <2>1, TickServes DEF QuietInv
<1>12. CASE UNCHANGED vars
  BY <1>2, <1>12 DEF vars
<1> QED
  BY <1>3, <1>4, <1>5, <1>6, <1>7, <1>8, <1>9, <1>10, <1>11, <1>12 DEF Next

\* Every step keeps the order of scans and quiet.
LEMMA ScansEndQuietStep ==
  ASSUME IInv, TypeOK', ScansEndQuiet, DownIsIdle, [Next]_vars
  PROVE  ScansEndQuiet'
<1>0. /\ TypeOK
      /\ \A n \in Node : /\ quiet[n] \in Nat /\ quiet'[n] \in Nat
                         /\ last[n] \in Nat /\ last'[n] \in Nat
      /\ Interval \in Nat /\ up \subseteq Node /\ up' \subseteq Node
  BY ScanAssumption DEF IInv, TypeOK, Age, Never
<1>1. SUFFICES ASSUME NEW n \in up', NEW m \in Node, last'[m] < Interval
               PROVE  quiet'[n] <= last'[m]
  BY DEF ScansEndQuiet
<1>2. n \in Node BY <1>0
<1>3. quiet'[n] = 0 => quiet'[n] <= last'[m] BY <1>0, <1>2
<1>4. ASSUME n \in up, quiet'[n] = quiet[n], last'[m] = last[m]
      PROVE  quiet'[n] <= last'[m]
  BY <1>1, <1>4 DEF ScansEndQuiet
<1>5. ASSUME NEW q \in Node, Start(q) PROVE quiet'[n] <= last'[m]
  <2>1. CASE n \in up BY <1>4, <1>5, <2>1 DEF Start
  <2>2. CASE n \notin up
    <3>1. n = q /\ n \notin up BY <1>5, <2>2 DEF Start
    <3>2. quiet'[n] = 0 BY <1>2, <1>5, <3>1 DEF Start, DownIsIdle
    <3> QED BY <1>3, <3>2
  <2> QED BY <2>1, <2>2
<1>6. ASSUME NEW q \in Node, Crash(q) PROVE quiet'[n] <= last'[m]
  BY <1>0, <1>2, <1>4, <1>6 DEF Crash, TypeOK
<1>7. ASSUME NEW q \in Node, TriggerScan(q) PROVE quiet'[n] <= last'[m]
  BY <1>4, <1>7 DEF TriggerScan
<1>8. ASSUME NEW q \in Node, SendHeartbeats(q) PROVE quiet'[n] <= last'[m]
  BY <1>4, <1>8 DEF SendHeartbeats
<1>9. ASSUME NEW q \in Node, NEW k \in Loop, Round(q, k) PROVE quiet'[n] <= last'[m]
  BY <1>4, <1>9 DEF Round
<1>10. ASSUME NEW q \in Node, NEW k \in Kind, Complete(q, k) PROVE quiet'[n] <= last'[m]
  BY <1>2, <1>3, <1>10 DEF Complete
<1>11. ASSUME NEW x \in msgs, Arrive(x) PROVE quiet'[n] <= last'[m]
  BY <1>4, <1>11 DEF Arrive
<1>12. ASSUME NEW x \in msgs, Lose(x) PROVE quiet'[n] <= last'[m]
  BY <1>4, <1>12 DEF Lose
<1>13. CASE Tick
  <2>1. n \in up /\ last'[m] = Older(last[m]) /\ quiet'[n] <= quiet[n] + 1
    BY <1>0, <1>2, <1>13 DEF Tick, MaxQuiet
  <2>2. last'[m] = last[m] + 1 BY <1>0, <1>1, <2>1 DEF Older
  <2>3. quiet[n] <= last[m] BY <1>0, <1>1, <2>1, <2>2 DEF ScansEndQuiet
  <2> QED BY <1>0, <1>2, <2>1, <2>2, <2>3
<1>14. CASE UNCHANGED vars
  BY <1>4, <1>14 DEF vars
<1> QED
  BY <1>5, <1>6, <1>7, <1>8, <1>9, <1>10, <1>11, <1>12, <1>13, <1>14 DEF Next

LEMMA DownIsIdleStep ==
  ASSUME TypeOK, DownIsIdle, [Next]_vars
  PROVE  DownIsIdle'
<1>1. SUFFICES ASSUME NEW n \in Node \ up'
               PROVE  quiet'[n] = 0 /\ \A k \in Kind : busy'[n][k] = 0
  BY DEF DownIsIdle
<1>2. n \notin up => quiet[n] = 0 /\ \A k \in Kind : busy[n][k] = 0
  BY <1>1 DEF DownIsIdle
<1>3. ASSUME n \notin up, quiet'[n] = quiet[n], busy'[n] = busy[n]
      PROVE  quiet'[n] = 0 /\ \A k \in Kind : busy'[n][k] = 0
  BY <1>2, <1>3
<1>4. ASSUME NEW q \in Node, Start(q)
      PROVE  quiet'[n] = 0 /\ \A k \in Kind : busy'[n][k] = 0
  BY <1>1, <1>3, <1>4 DEF Start
<1>5. ASSUME NEW q \in Node, Crash(q)
      PROVE  quiet'[n] = 0 /\ \A k \in Kind : busy'[n][k] = 0
  <2>1. CASE q = n BY <1>5, <2>1 DEF Crash, TypeOK
  <2>2. CASE q # n
    <3>1. n \notin up BY <1>1, <1>5, <2>2 DEF Crash
    <3>2. quiet'[n] = quiet[n] /\ busy'[n] = busy[n]
      BY <1>1, <1>5, <2>2 DEF Crash, TypeOK
    <3> QED BY <1>3, <3>1, <3>2
  <2> QED BY <2>1, <2>2
<1>6. ASSUME NEW q \in Node, TriggerScan(q)
      PROVE  quiet'[n] = 0 /\ \A k \in Kind : busy'[n][k] = 0
  <2>1. n \notin up /\ q # n BY <1>1, <1>6 DEF TriggerScan
  <2>2. busy'[n] = busy[n] BY <1>1, <1>6, <2>1 DEF TriggerScan, TypeOK
  <2> QED BY <1>3, <1>6, <2>1, <2>2 DEF TriggerScan
<1>7. ASSUME NEW q \in Node, SendHeartbeats(q)
      PROVE  quiet'[n] = 0 /\ \A k \in Kind : busy'[n][k] = 0
  BY <1>1, <1>3, <1>7 DEF SendHeartbeats
<1>8. ASSUME NEW q \in Node, NEW j \in Loop, Round(q, j)
      PROVE  quiet'[n] = 0 /\ \A k \in Kind : busy'[n][k] = 0
  <2>1. n \notin up /\ q # n BY <1>1, <1>8 DEF Round
  <2>2. busy'[n] = busy[n] BY <1>1, <1>8, <2>1 DEF Round, TypeOK
  <2> QED BY <1>3, <1>8, <2>1, <2>2 DEF Round
<1>9. ASSUME NEW q \in Node, NEW j \in Kind, Complete(q, j)
      PROVE  quiet'[n] = 0 /\ \A k \in Kind : busy'[n][k] = 0
  <2>1. n \notin up /\ quiet'[n] = 0 BY <1>1, <1>9 DEF Complete
  <2>2. n # q BY <1>2, <1>9, <2>1 DEF Complete
  <2>3. busy'[n] = busy[n] BY <1>1, <1>9, <2>2 DEF Complete, TypeOK
  <2> QED BY <1>2, <2>1, <2>3
<1>10. ASSUME NEW x \in msgs, Arrive(x) \/ Lose(x)
      PROVE  quiet'[n] = 0 /\ \A k \in Kind : busy'[n][k] = 0
  BY <1>1, <1>3, <1>10 DEF Arrive, Lose
<1>11. CASE Tick
  <2>1. n \notin up BY <1>1, <1>11 DEF Tick
  <2>2. quiet'[n] = quiet[n] BY <1>1, <1>11, <2>1 DEF Tick
  <2>3. \A k \in Kind : busy'[n][k] = IF busy[n][k] = 0 THEN 0 ELSE busy[n][k] - 1
    BY <1>1, <1>11 DEF Tick
  <2> QED BY <1>2, <2>1, <2>2, <2>3
<1>12. CASE UNCHANGED vars
  BY <1>1, <1>3, <1>12 DEF vars
<1> QED
  BY <1>4, <1>5, <1>6, <1>7, <1>8, <1>9, <1>10, <1>11, <1>12 DEF Next

\* The network is scanned by one agent or another, however scans, stops and
\* starts interleave (NetworkIsScanned; scan_coordinator.go:52-70,
\* run.go:355-399).
THEOREM ScannedCorrect ==
  ASSUME ScansAreShort
  PROVE  Spec => []NetworkIsScanned
<1>1. Init => IInv /\ QuietInv
  BY InitInv DEF Init, QuietInv, ScansEndQuiet, DownIsIdle
<1>2. ASSUME IInv, QuietInv, [Next]_vars PROVE IInv' /\ QuietInv'
  <2>1. IInv' BY <1>2, StepInv
  <2>2. TypeOK' BY <2>1 DEF IInv
  <2>3. ScansEndQuiet' BY <1>2, <2>2, ScansEndQuietStep DEF QuietInv
  <2>4. DownIsIdle' BY <1>2, DownIsIdleStep DEF QuietInv, IInv
  <2>5. \A n \in up' : Apart(n)' /\ Served(n)' BY <1>2, <2>2, ServedStep
  <2> QED BY <2>1, <2>3, <2>4, <2>5 DEF QuietInv
<1>3. ASSUME IInv, QuietInv PROVE NetworkIsScanned
  <2> SUFFICES ASSUME NEW n \in up PROVE quiet[n] < MaxQuiet
    BY DEF NetworkIsScanned
  <2>1. n \in Node /\ Served(n) BY <1>3 DEF IInv, TypeOK, QuietInv
  <2>2. /\ \A k \in Loop : due[n][k] \in Nat /\ busy[n][k] \in Nat
        /\ quiet[n] \in Nat /\ Interval \in Nat /\ Gap \in Nat /\ ScanUnits \in Nat
        /\ MaxQuiet \in Nat /\ MaxQuiet = Interval + Gap + ScanUnits
    BY <1>3, <2>1, AgentTypes DEF IInv
  <2> QED BY <2>1, <2>2 DEF Served
<1> QED BY <1>1, <1>2, <1>3, PTL DEF Spec

-----------------------------------------------------------------------------
(***************************************************************************)
(* A known scan holds an agent back, for every set of agents and however   *)
(* often they stop.  The news of a scan of m reaches n on two ways, with   *)
(* the next heartbeat of m and with the answer to the next one of n; one   *)
(* lost message cuts one of them.                                          *)
(***************************************************************************)
OneLoss == MaxLost <= 1 /\ Beat < Interval

\* What n believes of the last scan of m is so.
Told(n, m) == seen[n][m] = local[m]

\* News that comes in p units is soon enough: the scan is not older than a beat
\* then, or no ticker of n fires before.
InTime(n, m, p) == local[m] + p <= Beat \/ \A k \in ticking[n] : due[n][k] > p

HeartbeatTo(n, m) == \E x \in msgs : x.from = m /\ x.to = n /\ ~x.answer
AnswerTo(n, m) == \E x \in msgs : x.from = m /\ x.to = n /\ x.answer

\* The next heartbeat of m comes in time, or is there.
TheyTell(n, m) ==
  \/ InTime(n, m, beat[m])
  \/ InTime(n, m, 0) /\ HeartbeatTo(n, m)

\* The next heartbeat of n will be answered in time, or is on its way, or its
\* answer is.
TheyAnswer(n, m) ==
  \/ InTime(n, m, beat[n])
  \/ InTime(n, m, 0) /\ (HeartbeatTo(m, n) \/ AnswerTo(n, m))

Informed(n, m) ==
  \/ Told(n, m)
  \/ TheyTell(n, m) /\ TheyAnswer(n, m)
  \/ lost > 0 /\ (TheyTell(n, m) \/ TheyAnswer(n, m))

\* A message tells the last scan, or its sender has made another one just now.
MessagesAreNew ==
  \A x \in msgs : x.from \in up /\ (local[x.from] = 0 \/ x.scan = local[x.from])

NewsInv ==
  /\ MessagesAreNew
  /\ \A n \in up : \A m \in up \ {n} : local[m] < Interval => Informed(n, m)

\* The numbers of two agents.
LEMMA NewsTypes ==
  ASSUME TypeOK, NEW n \in Node, NEW m \in Node
  PROVE  /\ \A k \in Loop : due[n][k] \in Nat
         /\ ticking[n] \subseteq Loop /\ Loop \subseteq Kind
         /\ beat[n] \in 0..Beat /\ beat[m] \in 0..Beat
         /\ local[m] \in Nat /\ seen[n][m] \in Nat /\ lost \in Nat /\ lost <= MaxLost
         /\ Beat \in Nat /\ Interval \in Nat /\ Never = Interval + 1 /\ MaxLost \in Nat
BY ScanAssumption DEF TypeOK, Age, Never, Kind

\* A scan that has just been made will be told and asked for in time.
LEMMA NewScan ==
  ASSUME TypeOK, NEW n \in Node, NEW m \in Node, local[m] = 0
  PROVE  TheyTell(n, m) /\ TheyAnswer(n, m)
BY NewsTypes DEF TheyTell, TheyAnswer, InTime

\* An agent that has just started will hear of every scan before its tickers.
LEMMA NewAgent ==
  ASSUME NEW n \in Node, NEW m \in Node, ticking[n] = {}
  PROVE  TheyTell(n, m) /\ TheyAnswer(n, m)
BY DEF TheyTell, TheyAnswer, InTime

\* Rounds and scans of n put off its tickers; those of others, and what becomes
\* of other agents, change nothing between n and m.
LEMMA NoNews ==
  ASSUME TypeOK, TypeOK', OneLoss, NEW n \in Node, NEW m \in Node, Informed(n, m),
         local'[m] = local[m], seen'[n][m] = seen[n][m], lost' = lost,
         beat'[n] = beat[n], beat'[m] = beat[m],
         HeartbeatTo(n, m) => HeartbeatTo(n, m)',
         HeartbeatTo(m, n) => HeartbeatTo(m, n)',
         AnswerTo(n, m) => AnswerTo(n, m)',
         \A k \in ticking'[n] : \/ due'[n][k] = Interval
                                \/ k \in ticking[n] /\ due'[n][k] = due[n][k]
  PROVE  Informed(n, m)'
<1>1. /\ beat[n] \in 0..Beat /\ beat[m] \in 0..Beat /\ local[m] \in Nat
      /\ Beat \in Nat /\ Interval \in Nat /\ Beat < Interval
  BY NewsTypes DEF OneLoss
<1>2. ASSUME NEW p \in 0..Beat, InTime(n, m, p)
      PROVE  local'[m] + p <= Beat \/ \A k \in ticking'[n] : due'[n][k] > p
  BY <1>1, <1>2 DEF InTime
<1>3. TheyTell(n, m) => TheyTell(n, m)'
  <2>1. InTime(n, m, beat[m]) => InTime(n, m, beat[m])'
    BY <1>1, <1>2 DEF InTime
  <2>2. InTime(n, m, 0) => InTime(n, m, 0)'
    BY <1>1, <1>2 DEF InTime
  <2> QED BY <2>1, <2>2 DEF TheyTell
<1>4. TheyAnswer(n, m) => TheyAnswer(n, m)'
  <2>1. InTime(n, m, beat[n]) => InTime(n, m, beat[n])'
    BY <1>1, <1>2 DEF InTime
  <2>2. InTime(n, m, 0) => InTime(n, m, 0)'
    BY <1>1, <1>2 DEF InTime
  <2> QED BY <2>1, <2>2 DEF TheyAnswer
<1>5. Told(n, m) => Told(n, m)' BY DEF Told
<1> QED BY <1>3, <1>4, <1>5 DEF Informed

\* A unit passes: what comes in p units comes in p - 1 now.
LEMMA NewsTick ==
  ASSUME TypeOK, NEW n \in up, NEW m \in up, Informed(n, m), Tick, local'[m] < Interval
  PROVE  Informed(n, m)'
<1>1. /\ n \in Node /\ m \in Node BY DEF TypeOK
<1>2. /\ msgs = {} /\ lost' = lost
      /\ beat[n] > 0 /\ beat'[n] = beat[n] - 1 /\ beat[m] > 0 /\ beat'[m] = beat[m] - 1
      /\ ticking'[n] = ticking[n]
      /\ \A k \in Loop : due'[n][k] = due[n][k] - 1
      /\ local'[m] = Older(local[m]) /\ seen'[n][m] = Older(seen[n][m])
  BY <1>1 DEF Tick
<1>3. /\ \A k \in Loop : due[n][k] \in Nat
      /\ ticking[n] \subseteq Loop
      /\ beat[n] \in 0..Beat /\ beat[m] \in 0..Beat /\ Beat \in Nat
      /\ local[m] \in Nat /\ seen[n][m] \in Nat /\ Interval \in Nat
  BY <1>1, NewsTypes
<1>4. local'[m] = local[m] + 1
  BY <1>2, <1>3 DEF Older
<1>5. Told(n, m) => Told(n, m)'
  BY <1>2 DEF Told
<1>6. TheyTell(n, m) => TheyTell(n, m)'
  <2>1. InTime(n, m, beat[m]) => InTime(n, m, beat[m])'
    BY <1>2, <1>3, <1>4 DEF InTime
  <2> QED BY <1>2, <2>1 DEF TheyTell, HeartbeatTo
<1>7. TheyAnswer(n, m) => TheyAnswer(n, m)'
  <2>1. InTime(n, m, beat[n]) => InTime(n, m, beat[n])'
    BY <1>2, <1>3, <1>4 DEF InTime
  <2> QED BY <1>2, <2>1 DEF TheyAnswer, HeartbeatTo, AnswerTo
<1> QED BY <1>2, <1>5, <1>6, <1>7 DEF Informed

\* Heartbeats go out when they are due, to n among others.
LEMMA NewsSent ==
  ASSUME TypeOK, TypeOK', OneLoss, NEW n \in up, NEW m \in up \ {n}, Informed(n, m),
         NEW p \in Node, SendHeartbeats(p)
  PROVE  Informed(n, m)'
<1>1. /\ n \in Node /\ m \in Node BY DEF TypeOK
<1>2. /\ UNCHANGED <<due, ticking, local, seen, lost>>
      /\ beat[p] = 0 /\ \A q \in Node : q # p => beat'[q] = beat[q]
      /\ msgs \subseteq msgs'
  BY DEF SendHeartbeats, TypeOK
<1>3. ASSUME NEW q \in Node \ {p}
      PROVE  \E x \in msgs' : x.from = p /\ x.to = q /\ ~x.answer
  <2> DEFINE y == [from |-> p, to |-> q, scan |-> local[p], answer |-> FALSE]
  <2>1. y \in msgs' BY DEF SendHeartbeats
  <2>2. y.from = p /\ y.to = q /\ ~y.answer OBVIOUS
  <2> QED BY <2>1, <2>2
<1>4. /\ HeartbeatTo(n, m) => HeartbeatTo(n, m)'
      /\ HeartbeatTo(m, n) => HeartbeatTo(m, n)'
      /\ AnswerTo(n, m) => AnswerTo(n, m)'
  BY <1>2 DEF HeartbeatTo, AnswerTo
<1>5. InTime(n, m, 0) => InTime(n, m, 0)'
  BY <1>2 DEF InTime
<1>6. Told(n, m) => Told(n, m)'
  BY <1>2 DEF Told
<1>7. CASE p = m
  <2>1. HeartbeatTo(n, m)' BY <1>1, <1>3, <1>7 DEF HeartbeatTo
  <2>2. beat[m] = 0 /\ beat'[n] = beat[n] BY <1>1, <1>2, <1>7
  <2>3. TheyTell(n, m) => TheyTell(n, m)'
    BY <1>5, <2>1, <2>2 DEF TheyTell
  <2>4. InTime(n, m, beat[n]) => InTime(n, m, beat[n])'
    BY <1>2, <2>2 DEF InTime
  <2>5. TheyAnswer(n, m) => TheyAnswer(n, m)'
    BY <1>4, <1>5, <2>4 DEF TheyAnswer
  <2> QED BY <1>2, <1>6, <2>3, <2>5 DEF Informed
<1>8. CASE p = n
  <2>1. HeartbeatTo(m, n)' BY <1>1, <1>3, <1>8 DEF HeartbeatTo
  <2>2. beat[n] = 0 /\ beat'[m] = beat[m] BY <1>1, <1>2, <1>8
  <2>3. TheyAnswer(n, m) => TheyAnswer(n, m)'
    BY <1>5, <2>1, <2>2 DEF TheyAnswer
  <2>4. InTime(n, m, beat[m]) => InTime(n, m, beat[m])'
    BY <1>2, <2>2 DEF InTime
  <2>5. TheyTell(n, m) => TheyTell(n, m)'
    BY <1>4, <1>5, <2>4 DEF TheyTell
  <2> QED BY <1>2, <1>6, <2>3, <2>5 DEF Informed
<1>9. CASE p # n /\ p # m
  BY <1>1, <1>2, <1>4, <1>9, NoNews
<1> QED BY <1>7, <1>8, <1>9

\* A message arrives: the news itself, the question for it, or another one.
LEMMA NewsArrives ==
  ASSUME TypeOK, TypeOK', OneLoss, MessagesAreNew,
         NEW n \in up, NEW m \in up \ {n}, local[m] < Interval, Informed(n, m),
         NEW x \in msgs, Arrive(x)
  PROVE  Informed(n, m)'
<1>1. /\ n \in Node /\ m \in Node /\ x \in Msg BY DEF TypeOK
<1>2. /\ UNCHANGED <<due, ticking, local, beat, lost>> /\ msgs \ {x} \subseteq msgs'
  BY DEF Arrive
<1>3. CASE local[m] = 0
  <2>1. beat[n] \in 0..Beat /\ beat[m] \in 0..Beat /\ Beat \in Nat
    BY <1>1, NewsTypes
  <2>2. InTime(n, m, beat[m])' /\ InTime(n, m, beat[n])'
    BY <1>2, <1>3, <2>1 DEF InTime
  <2>3. (TheyTell(n, m) /\ TheyAnswer(n, m))'
    BY <2>2 DEF TheyTell, TheyAnswer
  <2> QED BY <2>3 DEF Informed
<1>4. CASE local[m] # 0 /\ x.from = m /\ x.to = n
  <2>1. x.scan = local[m] /\ x.scan # Never
    BY <1>1, <1>4, NewsTypes DEF MessagesAreNew
  <2>2. seen' = [seen EXCEPT ![n][m] = local[m]]
    BY <1>4, <2>1 DEF Arrive, Recorded
  <2>3. seen'[n][m] = local'[m]
    BY <1>1, <1>2, <2>2 DEF TypeOK
  <2> QED BY <2>3 DEF Informed, Told
<1>5. CASE ~(x.from = m /\ x.to = n)
  <2>1. seen'[n][m] = seen[n][m]
    <3>1. seen' = seen \/ seen' = [seen EXCEPT ![x.to][x.from] = x.scan]
      BY DEF Arrive, Recorded
    <3> QED BY <1>1, <1>5, <3>1 DEF TypeOK, Msg
  <2>2. /\ HeartbeatTo(n, m) => HeartbeatTo(n, m)'
        /\ AnswerTo(n, m) => AnswerTo(n, m)'
    BY <1>2, <1>5 DEF HeartbeatTo, AnswerTo
  <2>3. CASE x.from = n /\ x.to = m /\ ~x.answer
    <3>1. AnswerTo(n, m)'
      <4> DEFINE y == [from |-> m, to |-> n, scan |-> local[m], answer |-> TRUE]
      <4>1. y \in msgs' BY <2>3 DEF Arrive
      <4>2. y.from = m /\ y.to = n /\ y.answer OBVIOUS
      <4> QED BY <4>1, <4>2 DEF AnswerTo
    <3>2. /\ Told(n, m) => Told(n, m)'
          /\ TheyTell(n, m) => TheyTell(n, m)'
          /\ TheyAnswer(n, m) => TheyAnswer(n, m)'
      BY <1>2, <2>1, <2>2, <3>1 DEF Told, TheyTell, TheyAnswer, InTime
    <3> QED BY <1>2, <3>2 DEF Informed
  <2>4. CASE ~(x.from = n /\ x.to = m /\ ~x.answer)
    <3>1. HeartbeatTo(m, n) => HeartbeatTo(m, n)'
      BY <1>2, <2>4 DEF HeartbeatTo
    <3> QED BY <1>1, <1>2, <2>1, <2>2, <3>1, NoNews
  <2> QED BY <2>3, <2>4
<1> QED BY <1>3, <1>4, <1>5

\* The one message that is lost was on one of the two ways at most.
LEMMA NewsLost ==
  ASSUME TypeOK, OneLoss, NEW n \in up, NEW m \in up \ {n}, Informed(n, m),
         NEW x \in msgs, Lose(x)
  PROVE  Informed(n, m)'
<1>1. /\ n \in Node /\ m \in Node BY DEF TypeOK
<1>2. /\ UNCHANGED <<due, ticking, local, seen, beat>> /\ msgs' = msgs \ {x}
      /\ lost = 0 /\ lost' = 1
  BY <1>1, NewsTypes DEF Lose, OneLoss
<1>3. Told(n, m) => Told(n, m)'
  BY <1>2 DEF Told
<1>4. /\ InTime(n, m, beat[m]) => InTime(n, m, beat[m])'
      /\ InTime(n, m, beat[n]) => InTime(n, m, beat[n])'
      /\ InTime(n, m, 0) => InTime(n, m, 0)'
  BY <1>2 DEF InTime
<1>5. CASE x.from = m /\ ~x.answer
  <2>1. /\ HeartbeatTo(m, n) => HeartbeatTo(m, n)'
        /\ AnswerTo(n, m) => AnswerTo(n, m)'
    BY <1>2, <1>5 DEF HeartbeatTo, AnswerTo
  <2>2. TheyAnswer(n, m) => TheyAnswer(n, m)'
    BY <1>4, <2>1 DEF TheyAnswer
  <2> QED BY <1>2, <1>3, <2>2 DEF Informed
<1>6. CASE x.from # m \/ x.answer
  <2>1. HeartbeatTo(n, m) => HeartbeatTo(n, m)'
    BY <1>2, <1>6 DEF HeartbeatTo
  <2>2. TheyTell(n, m) => TheyTell(n, m)'
    BY <1>4, <2>1 DEF TheyTell
  <2> QED BY <1>2, <1>3, <2>2 DEF Informed
<1> QED BY <1>5, <1>6

\* Every step keeps the messages new.
LEMMA MessagesStep ==
  ASSUME TypeOK, MessagesAreNew, [Next]_vars
  PROVE  MessagesAreNew'
<1>0. /\ \A x \in msgs : x.from \in up /\ x.from \in Node /\ x.to \in Node
      /\ up \subseteq Node
  BY DEF MessagesAreNew, TypeOK, Msg
<1>1. ASSUME NEW p \in Node, Start(p) PROVE MessagesAreNew'
  BY <1>0, <1>1 DEF Start, MessagesAreNew, TypeOK
<1>2. ASSUME NEW p \in Node, Crash(p) PROVE MessagesAreNew'
  BY <1>2 DEF Crash, MessagesAreNew
<1>3. ASSUME NEW p \in Node, TriggerScan(p) PROVE MessagesAreNew'
  BY <1>3 DEF TriggerScan, MessagesAreNew
<1>4. ASSUME NEW p \in Node, SendHeartbeats(p) PROVE MessagesAreNew'
  <2>1. \A x \in msgs' : x \in msgs \/ (x.from = p /\ x.scan = local[p])
    BY <1>4 DEF SendHeartbeats
  <2> QED BY <1>4, <2>1 DEF SendHeartbeats, MessagesAreNew
<1>5. ASSUME NEW p \in Node, NEW k \in Loop, Round(p, k) PROVE MessagesAreNew'
  BY <1>5 DEF Round, MessagesAreNew
<1>6. ASSUME NEW p \in Node, NEW k \in Kind, Complete(p, k) PROVE MessagesAreNew'
  <2>1. local' = [local EXCEPT ![p] = 0] /\ msgs' = msgs /\ up' = up
    BY <1>6 DEF Complete
  <2> QED BY <1>0, <2>1 DEF MessagesAreNew, TypeOK
<1>7. ASSUME NEW x \in msgs, Arrive(x) PROVE MessagesAreNew'
  <2>1. \A y \in msgs' : \/ y \in msgs
                         \/ x.to \in up /\ y.from = x.to /\ y.scan = local[x.to]
    BY <1>7 DEF Arrive
  <2> QED BY <1>7, <2>1 DEF Arrive, MessagesAreNew
<1>8. ASSUME NEW x \in msgs, Lose(x) PROVE MessagesAreNew'
  BY <1>8 DEF Lose, MessagesAreNew
<1>9. CASE Tick
  BY <1>9 DEF Tick, MessagesAreNew
<1>10. CASE UNCHANGED vars
  BY <1>10 DEF vars, MessagesAreNew
<1> QED BY <1>1, <1>2, <1>3, <1>4, <1>5, <1>6, <1>7, <1>8, <1>9, <1>10 DEF Next

\* Every step keeps every agent informed of the recent scans of every other.
LEMMA NewsStep ==
  TypeOK /\ TypeOK' /\ OneLoss /\ NewsInv /\ [Next]_vars => NewsInv'
<1> SUFFICES ASSUME TypeOK, TypeOK', OneLoss, NewsInv, [Next]_vars,
                    NEW n \in up', NEW m \in up' \ {n}, local'[m] < Interval
             PROVE  Informed(n, m)'
  BY MessagesStep DEF NewsInv
<1>0. /\ n \in Node /\ m \in Node /\ n # m /\ Loop \subseteq Kind
      /\ Never = Interval + 1 /\ Interval \in Nat /\ MessagesAreNew
  <2>1. n \in Node /\ m \in Node BY DEF TypeOK
  <2> QED BY <2>1, NewsTypes DEF NewsInv
<1>1. n \in up /\ m \in up /\ local[m] < Interval => Informed(n, m)
  BY <1>0 DEF NewsInv
<1>2. ASSUME n \in up, m \in up, local'[m] = local[m], seen'[n][m] = seen[n][m],
             lost' = lost, beat'[n] = beat[n], beat'[m] = beat[m],
             \A x \in msgs : x.from \in {n, m} /\ x.to \in {n, m} => x \in msgs',
             \A k \in ticking'[n] :
               due'[n][k] = Interval \/ (k \in ticking[n] /\ due'[n][k] = due[n][k])
      PROVE  Informed(n, m)'
  <2>1. /\ HeartbeatTo(n, m) => HeartbeatTo(n, m)'
        /\ HeartbeatTo(m, n) => HeartbeatTo(m, n)'
        /\ AnswerTo(n, m) => AnswerTo(n, m)'
    BY <1>2 DEF HeartbeatTo, AnswerTo
  <2> QED BY <1>0, <1>1, <1>2, <2>1, NoNews
<1>3. ASSUME NEW p \in Node, Start(p) PROVE Informed(n, m)'
  <2>1. CASE p = m
    <3>1. local'[m] = Never BY <1>0, <1>3, <2>1 DEF Start, TypeOK
    <3> QED BY <1>0, <3>1
  <2>2. CASE p = n
    <3>1. ticking'[n] = {} BY <1>0, <1>3, <2>2 DEF Start, TypeOK
    <3>2. (TheyTell(n, m) /\ TheyAnswer(n, m))'
      BY <3>1 DEF TheyTell, TheyAnswer, InTime
    <3> QED BY <3>2 DEF Informed
  <2>3. CASE p # n /\ p # m
    BY <1>0, <1>2, <1>3, <2>3 DEF Start, TypeOK
  <2> QED BY <2>1, <2>2, <2>3
<1>4. ASSUME NEW p \in Node, Crash(p) PROVE Informed(n, m)'
  <2>1. p # n /\ p # m BY <1>4 DEF Crash
  <2> QED BY <1>0, <1>2, <1>4, <2>1 DEF Crash
<1>5. ASSUME NEW p \in Node, TriggerScan(p) PROVE Informed(n, m)'
  BY <1>2, <1>5 DEF TriggerScan
<1>6. ASSUME NEW p \in Node, SendHeartbeats(p) PROVE Informed(n, m)'
  <2>1. n \in up /\ m \in up \ {n} /\ Informed(n, m)
    BY <1>0, <1>1, <1>6 DEF SendHeartbeats
  <2> QED BY <1>6, <2>1, NewsSent
<1>7. ASSUME NEW p \in Node, NEW k \in Loop, Round(p, k) PROVE Informed(n, m)'
  <2>1. \A j \in ticking'[n] :
          due'[n][j] = Interval \/ (j \in ticking[n] /\ due'[n][j] = due[n][j])
    BY <1>0, <1>7 DEF Round, TypeOK
  <2> QED BY <1>2, <1>7, <2>1 DEF Round
<1>8. ASSUME NEW p \in Node, NEW k \in Kind, Complete(p, k) PROVE Informed(n, m)'
  <2>1. CASE p = m
    <3>1. local'[m] = 0 BY <1>0, <1>8, <2>1 DEF Complete, TypeOK
    <3>2. (TheyTell(n, m) /\ TheyAnswer(n, m))'
      <4>1. beat'[n] \in 0..Beat /\ beat'[m] \in 0..Beat /\ Beat \in Nat
        BY <1>0, ScanAssumption DEF TypeOK
      <4>2. InTime(n, m, beat[m])' /\ InTime(n, m, beat[n])'
        BY <3>1, <4>1 DEF InTime
      <4> QED BY <4>2 DEF TheyTell, TheyAnswer
    <3> QED BY <3>2 DEF Informed
  <2>2. CASE p # m
    <3>1. \A j \in ticking'[n] :
          due'[n][j] = Interval \/ (j \in ticking[n] /\ due'[n][j] = due[n][j])
      BY <1>0, <1>8 DEF Complete, TypeOK
    <3>2. local'[m] = local[m] BY <1>0, <1>8, <2>2 DEF Complete, TypeOK
    <3> QED BY <1>2, <1>8, <3>1, <3>2 DEF Complete
  <2> QED BY <2>1, <2>2
<1>9. ASSUME NEW x \in msgs, Arrive(x) PROVE Informed(n, m)'
  <2>1. n \in up /\ m \in up \ {n} /\ local[m] < Interval
    BY <1>0, <1>9 DEF Arrive
  <2> QED BY <1>0, <1>1, <1>9, <2>1, NewsArrives
<1>10. ASSUME NEW x \in msgs, Lose(x) PROVE Informed(n, m)'
  <2>1. n \in up /\ m \in up \ {n} /\ local[m] < Interval
    BY <1>0, <1>10 DEF Lose
  <2> QED BY <1>1, <1>10, <2>1, NewsLost
<1>11. CASE Tick
  <2>1. /\ n \in up /\ m \in up /\ local'[m] = Older(local[m]) /\ local[m] \in Nat
    <3>1. local[m] \in Nat BY <1>0, NewsTypes
    <3> QED BY <1>0, <1>11, <3>1 DEF Tick
  <2>2. local[m] < Interval BY <1>0, <2>1 DEF Older
  <2> QED BY <1>1, <1>11, <2>1, <2>2, NewsTick
<1>12. CASE UNCHANGED vars
  <2>1. \A j \in ticking'[n] : j \in ticking[n] /\ due'[n][j] = due[n][j]
    BY <1>12 DEF vars
  <2> QED BY <1>2, <1>12, <2>1 DEF vars
<1> QED
  BY <1>3, <1>4, <1>5, <1>6, <1>7, <1>8, <1>9, <1>10, <1>11, <1>12 DEF Next

\* With one message lost at most, an agent past its first round begins no scan
\* within an interval of one that a running peer has completed, unless that was
\* less than a beat ago; restarts do not matter (scan_coordinator.go:52-70,
\* heartbeat.go:190-196).
THEOREM SuppressedCorrect ==
  ASSUME OneLoss
  PROVE  Spec => KnownScansSuppress
<1>1. Init => NewsInv
  BY DEF Init, NewsInv, MessagesAreNew
<1>2. IInv /\ IInv' /\ NewsInv /\ [Next]_vars => NewsInv'
  BY NewsStep DEF IInv
<1>3. IInv /\ NewsInv /\ [Next]_vars =>
        [\A n \in Node : \A k \in ticking[n] :
           busy[n][k] = 0 /\ busy'[n][k] > 0 =>
             \A m \in up \ {n} : local[m] <= Beat \/ local[m] >= Interval]_vars
  <2> SUFFICES ASSUME IInv, NewsInv, Next, NEW n \in Node, NEW k \in ticking[n],
                      busy[n][k] = 0, busy'[n][k] > 0,
                      NEW m \in up \ {n}
               PROVE  local[m] <= Beat \/ local[m] >= Interval
    BY DEF vars
  <2>0. /\ TypeOK /\ m \in Node /\ k \in Loop /\ k \in Kind /\ k # "manual"
        /\ Beat \in Nat /\ Interval \in Nat
        /\ beat[n] \in 0..Beat /\ beat[m] \in 0..Beat
        /\ local[m] \in Nat /\ due[n][k] \in Nat
    <3>1. TypeOK /\ m \in Node BY DEF IInv, TypeOK
    <3>2. k \in Loop BY <3>1, NewsTypes
    <3> QED BY <3>1, <3>2, NewsTypes DEF Loop, Kind
  <2>1. Round(n, k)
    <3>1. ASSUME NEW p \in Node, Start(p) PROVE FALSE
      BY <3>1 DEF Start
    <3>2. ASSUME NEW p \in Node, Crash(p) PROVE FALSE
      BY <2>0, <3>2 DEF Crash, TypeOK
    <3>3. ASSUME NEW p \in Node, TriggerScan(p) PROVE FALSE
      BY <2>0, <3>3 DEF TriggerScan, TypeOK
    <3>4. ASSUME NEW p \in Node, SendHeartbeats(p) PROVE FALSE
      BY <3>4 DEF SendHeartbeats
    <3>5. ASSUME NEW p \in Node, NEW j \in Loop, Round(p, j), p # n \/ j # k PROVE FALSE
      <4>1. busy' = busy \/ busy' = [busy EXCEPT ![p][j] = ScanUnits + 1]
        BY <3>5 DEF Round
      <4>2. /\ busy \in [Node -> [Kind -> 0..(ScanUnits + 1)]] /\ j \in Kind
        BY <2>0, <3>5 DEF TypeOK, Kind
      <4>3. CASE p # n BY <2>0, <4>1, <4>2, <4>3
      <4>4. CASE p = n /\ j # k BY <2>0, <4>1, <4>2, <4>4
      <4> QED BY <3>5, <4>3, <4>4
    <3>6. ASSUME NEW p \in Node, NEW j \in Kind, Complete(p, j) PROVE FALSE
      BY <2>0, <3>6 DEF Complete, TypeOK
    <3>7. ASSUME NEW x \in msgs, Arrive(x) \/ Lose(x) PROVE FALSE
      BY <3>7 DEF Arrive, Lose
    <3>8. ~Tick
      BY <2>0 DEF Tick
    <3> QED BY <3>1, <3>2, <3>3, <3>4, <3>5, <3>6, <3>7, <3>8 DEF Next
  <2>2. n \in up /\ due[n][k] = 0
    BY <2>1 DEF Round
  <2> SUFFICES ASSUME local[m] < Interval PROVE local[m] <= Beat
    BY <2>0
  <2>3. ~Told(n, m)
    <3>1. seen[n][m] >= Interval
      BY <2>0, <2>1 DEF Round, ShouldScan, TypeOK
    <3>2. seen[n][m] \in Nat BY <2>0, NewsTypes
    <3> QED BY <2>0, <3>1, <3>2 DEF Told
  <2>4. TheyTell(n, m) \/ TheyAnswer(n, m)
    BY <2>2, <2>3 DEF NewsInv, Informed
  <2>5. InTime(n, m, beat[m]) \/ InTime(n, m, beat[n]) \/ InTime(n, m, 0)
    BY <2>4 DEF TheyTell, TheyAnswer
  <2> QED BY <2>0, <2>2, <2>5 DEF InTime
<1>4. Spec => [](IInv /\ NewsInv)
  BY <1>1, <1>2, InitInv, StepInv, PTL DEF Spec
<1> QED BY <1>3, <1>4, PTL DEF Spec, KnownScansSuppress

-----------------------------------------------------------------------------
(***************************************************************************)
(* The devices that scans, syncs and the vendor check find.  A job that    *)
(* has no MAC to go by has an address that is reported without one.        *)
(***************************************************************************)
FoundByAddress == \A j \in Jobs : job[j].mac \/ job[j].ip \in Macless \cup {None}

DevicesInv == DevicesTypeOK /\ FoundByAddress

EntryOf == [mac : BOOLEAN, ip : Ips \cup {None}, vendor : BOOLEAN]

JobOf == [pc : {"idle", "lookup", "online", "store"}, mac : BOOLEAN,
          ip : Ips \cup {None}, vendor : BOOLEAN]

\* Every source reports devices with a MAC, or with an address known for that.
LEMMA SourcesFind ==
  ASSUME DevicesTypeOK,
         NEW e \in ArpEntries \cup MdnsEntries \cup FritzBox \cup Unifi \cup HomeAssistant
                     \cup PiHole \cup PfSense \cup Entry({TRUE}, {None}, {FALSE})
  PROVE  e \in EntryOf /\ (e.mac \/ e.ip \in Macless)
<1>1. at \in Ips \cup {None} /\ arp \subseteq Ips /\ Macless \subseteq Ips
  BY DevicesAssumption DEF DevicesTypeOK
<1>2. CASE e \in ArpEntries \cup MdnsEntries
  BY <1>1, <1>2 DEF ArpEntries, MdnsEntries, Entry, EntryOf
<1>3. CASE e \in FritzBox \cup Unifi
  BY <1>1, <1>3 DEF FritzBox, Unifi, Entry, EntryOf
<1>4. CASE e \in HomeAssistant \cup PfSense
  BY <1>1, <1>4 DEF HomeAssistant, PfSense, Entry, EntryOf
<1>5. CASE e \in PiHole
  BY <1>1, <1>5 DEF PiHole, Entry, EntryOf
<1>6. CASE e \in Entry({TRUE}, {None}, {FALSE})
  BY <1>6 DEF Entry, EntryOf
<1> QED BY <1>2, <1>3, <1>4, <1>5, <1>6

\* A job takes up a device.
LEMMA SeeKeeps ==
  ASSUME DevicesInv, NEW j \in Jobs,
         NEW entries \in SUBSET (ArpEntries \cup MdnsEntries \cup FritzBox \cup Unifi
            \cup HomeAssistant \cup PiHole \cup PfSense \cup Entry({TRUE}, {None}, {FALSE})),
         See(j, entries)
  PROVE  DevicesInv'
<1>1. PICK e \in entries : job' = [job EXCEPT ![j] =
             [pc |-> NextStep(e), mac |-> e.mac, ip |-> e.ip, vendor |-> e.vendor]]
  BY DEF See
<1>2. e \in EntryOf /\ (e.mac \/ e.ip \in Macless) BY SourcesFind DEF DevicesInv
<1>3. NextStep(e) \in {"lookup", "store"} BY DEF NextStep
<1>4. [pc |-> NextStep(e), mac |-> e.mac, ip |-> e.ip, vendor |-> e.vendor] \in JobOf
  BY <1>2, <1>3 DEF JobOf, EntryOf
<1>5. job \in [Jobs -> JobOf] BY DEF DevicesInv, DevicesTypeOK, JobOf
<1>6. job' \in [Jobs -> JobOf] BY <1>1, <1>4, <1>5
<1>7. DevicesTypeOK'
  BY <1>6 DEF DevicesInv, DevicesTypeOK, See, JobOf
<1>8. FoundByAddress'
  BY <1>1, <1>2, <1>5 DEF DevicesInv, FoundByAddress, JobOf
<1> QED BY <1>7, <1>8 DEF DevicesInv

\* A job goes on with the device it has.
LEMMA JobGoesOn ==
  ASSUME DevicesInv, NEW j \in Jobs, NEW p \in {"lookup", "online", "store"},
         NEW v \in BOOLEAN,
         job' = [job EXCEPT ![j].pc = p, ![j].vendor = v] \/ job' = [job EXCEPT ![j].pc = p]
  PROVE  job' \in [Jobs -> JobOf] /\ FoundByAddress'
<1>1. job \in [Jobs -> JobOf] BY DEF DevicesInv, DevicesTypeOK, JobOf
<1>2. \A i \in Jobs : job'[i].mac = job[i].mac /\ job'[i].ip = job[i].ip
  BY <1>1 DEF JobOf
<1>3. job' \in [Jobs -> JobOf] BY <1>1 DEF JobOf
<1> QED BY <1>2, <1>3 DEF DevicesInv, FoundByAddress

\* A job is done, or all are with a restart.
LEMMA JobEnds ==
  ASSUME DevicesInv, NEW j \in Jobs,
         job' = [job EXCEPT ![j] = Idle] \/ job' = [i \in Jobs |-> Idle]
  PROVE  job' \in [Jobs -> JobOf] /\ FoundByAddress'
<1>1. job \in [Jobs -> JobOf] BY DEF DevicesInv, DevicesTypeOK, JobOf
<1>2. Idle \in JobOf /\ Idle.ip = None BY DEF JobOf, Idle
<1>3. job' \in [Jobs -> JobOf] BY <1>1, <1>2
<1>4. \A i \in Jobs : job'[i] = job[i] \/ job'[i].ip = None BY <1>1, <1>2
<1> QED BY <1>3, <1>4 DEF DevicesInv, FoundByAddress

RowOf == {Absent} \cup [ip : Ips, vendor : BOOLEAN, type : {"other", "class", "user"}]

\* The row of a device that is stored: a vendor stays, and a type that is known.
LEMMA RowIsKept ==
  ASSUME row \in RowOf, NEW d \in JobOf, d.ip # None
  PROVE  /\ RowAfter(d) \in RowOf
         /\ row.vendor => RowAfter(d).vendor
         /\ There /\ RowAfter(d).type = "other" => row.type = "other"
<1> DEFINE type == IF Classified(d) THEN "class" ELSE IF There THEN row.type ELSE "other"
<1>1. /\ row.vendor \in BOOLEAN
      /\ There => row.type \in {"other", "class", "user"}
  <2>1. CASE row = Absent BY <2>1 DEF Absent, There
  <2>2. CASE row \in [ip : Ips, vendor : BOOLEAN, type : {"other", "class", "user"}]
    BY <2>2
  <2> QED BY <2>1, <2>2 DEF RowOf
<1>2. type \in {"other", "class", "user"} BY <1>1
<1>3. There /\ type = "other" => row.type = "other" BY <1>1
<1>4. d.ip \in Ips /\ (d.vendor \/ row.vendor) \in BOOLEAN BY <1>1 DEF JobOf
<1> DEFINE vendor == d.vendor \/ row.vendor
<1>5. RowAfter(d) = [ip |-> d.ip, vendor |-> vendor, type |-> type]
  BY DEF RowAfter
<1>6. vendor \in BOOLEAN /\ (row.vendor => vendor) BY <1>4
<1> HIDE DEF type, vendor
<1>7. RowAfter(d).vendor = vendor /\ RowAfter(d).type = type BY <1>5
<1>8. [ip |-> d.ip, vendor |-> vendor, type |-> type]
        \in [ip : Ips, vendor : BOOLEAN, type : {"other", "class", "user"}]
  BY <1>2, <1>4, <1>6
<1>9. RowAfter(d) \in RowOf BY <1>5, <1>8, Zenon DEF RowOf
<1> QED BY <1>3, <1>6, <1>7, <1>9, Zenon

\* What a step may do to a row that stays.
RowKeeps ==
  There /\ There' =>
    /\ row.vendor => row'.vendor
    /\ row'.type = "other" => row.type = "other" \/ Retype

\* A job stores its device in the row of its MAC or of its address.
LEMMA StoreKeeps ==
  ASSUME DevicesInv, NEW j \in Jobs, Store(j)
  PROVE  DevicesInv' /\ RowKeeps
<1>1. job \in [Jobs -> JobOf] /\ row \in RowOf /\ loose \subseteq Macless
  BY DEF DevicesInv, DevicesTypeOK, JobOf, RowOf
<1>2. PICK d \in JobOf : d = job[j] BY <1>1
<1>3. d.mac \/ d.ip \in Macless \cup {None}
  BY <1>2 DEF DevicesInv, FoundByAddress
<1>4. Stored(d) BY <1>2 DEF Store
<1>5. row' \in RowOf /\ loose' \subseteq Macless /\ RowKeeps
  <2>1. CASE UNCHANGED <<row, loose>> BY <1>1, <2>1 DEF RowKeeps
  <2>2. CASE d.ip # None /\ d.mac /\ row' = RowAfter(d) /\ UNCHANGED loose
    BY <1>1, <2>2, RowIsKept DEF RowKeeps
  <2>3. CASE d.ip # None /\ ~d.mac /\ loose' = loose \cup {d.ip} /\ UNCHANGED row
    BY <1>1, <1>3, <2>3 DEF RowKeeps
  <2> QED BY <1>4, <2>1, <2>2, <2>3 DEF Stored, Upsert
<1>6. job' = [job EXCEPT ![j] = Idle] /\ UNCHANGED <<at, arp, cache, stops>>
  BY DEF Store
<1>7. job' \in [Jobs -> JobOf] /\ FoundByAddress' BY <1>6, JobEnds
<1> QED BY <1>5, <1>6, <1>7 DEF DevicesInv, DevicesTypeOK, JobOf, RowOf

\* The vendor check adds a vendor, and the type that is known by it.
LEMMA UpdateVendorKeeps ==
  ASSUME DevicesInv, UpdateVendor
  PROVE  DevicesInv' /\ RowKeeps
<1>1. row \in RowOf BY DEF DevicesInv, DevicesTypeOK, RowOf
<1>2. row' \in RowOf /\ RowKeeps
  <2>1. CASE UNCHANGED row BY <1>1, <2>1 DEF RowKeeps
  <2>2. CASE /\ There
             /\ row' = [row EXCEPT !.vendor = TRUE, !.type = IF Recognised THEN "class" ELSE @]
    <3>1. row \in [ip : Ips, vendor : BOOLEAN, type : {"other", "class", "user"}]
      BY <1>1, <2>2 DEF RowOf, Absent, There
    <3>2. row'.vendor = TRUE /\ row'.type = IF Recognised THEN "class" ELSE row.type
      BY <2>2, <3>1
    <3>3. row' \in RowOf BY <2>2, <3>1 DEF RowOf
    <3> QED BY <3>2, <3>3 DEF RowKeeps
  <2> QED BY <2>1, <2>2 DEF UpdateVendor
<1>3. job' = [job EXCEPT !["check"] = Idle] /\ UNCHANGED <<at, arp, cache, loose, stops>>
  BY DEF UpdateVendor
<1>4. job' \in [Jobs -> JobOf] /\ FoundByAddress' BY <1>3, JobEnds DEF Jobs
<1> QED BY <1>2, <1>3, <1>4 DEF DevicesInv, DevicesTypeOK, JobOf, RowOf

\* Every step keeps the types, and what is known of a device.
LEMMA DevicesStep ==
  ASSUME DevicesInv, [DevicesNext]_deviceVars
  PROVE  DevicesInv' /\ RowKeeps
<1>0. row' = row => RowKeeps BY DEF RowKeeps
<1>1. CASE Move \/ Traffic \/ Expire
  BY <1>0, <1>1 DEF Move, Traffic, Expire, DevicesInv, DevicesTypeOK, FoundByAddress
<1>2. CASE ScanArp \/ ScanMdns \/ Sync \/ Check
  <2>1. CASE ScanArp
    BY <1>0, <2>1, SeeKeeps DEF ScanArp, See, Scans, Jobs
  <2>2. CASE ScanMdns
    BY <1>0, <2>2, SeeKeeps DEF ScanMdns, See, Scans, Jobs
  <2>3. CASE Sync
    BY <1>0, <2>3, SeeKeeps DEF Sync, See, Jobs
  <2>4. CASE Check
    BY <1>0, <2>4, SeeKeeps DEF Check, See, Jobs
  <2> QED BY <1>2, <2>1, <2>2, <2>3, <2>4
<1>3. ASSUME NEW j \in Jobs, Lookup(j) PROVE DevicesInv' /\ RowKeeps
  <2>1. PICK p \in {"online", "store"}, v \in BOOLEAN :
          job' = [job EXCEPT ![j].pc = p, ![j].vendor = v] \/ job' = [job EXCEPT ![j].pc = p]
    BY <1>3 DEF Lookup, Found
  <2>2. job' \in [Jobs -> JobOf] /\ FoundByAddress' BY <2>1, JobGoesOn
  <2> QED BY <1>0, <1>3, <2>2 DEF Lookup, DevicesInv, DevicesTypeOK, JobOf
<1>4. ASSUME NEW j \in Jobs, Online(j) PROVE DevicesInv' /\ RowKeeps
  <2>1. PICK v \in BOOLEAN : job' = [job EXCEPT ![j].pc = "store", ![j].vendor = v]
    BY <1>4 DEF Online, Found
  <2>2. job' \in [Jobs -> JobOf] /\ FoundByAddress' BY <2>1, JobGoesOn
  <2> QED BY <1>0, <1>4, <2>2 DEF Online, DevicesInv, DevicesTypeOK, JobOf
<1>5. CASE Retype
  <2>1. PICK t \in {"user", "other"} : row' = [row EXCEPT !.type = t] BY <1>5 DEF Retype
  <2>2. row \in [ip : Ips, vendor : BOOLEAN, type : {"other", "class", "user"}]
    BY <1>5 DEF Retype, DevicesInv, DevicesTypeOK, Absent, There
  <2>3. /\ row' \in [ip : Ips, vendor : BOOLEAN, type : {"other", "class", "user"}]
        /\ row'.vendor = row.vendor
    BY <2>1, <2>2
  <2> QED BY <1>5, <2>3 DEF Retype, RowKeeps, DevicesInv, DevicesTypeOK, FoundByAddress
<1>6. CASE DeleteHost
  <2>1. CASE row' = Absent /\ UNCHANGED loose
    BY <1>6, <2>1 DEF DeleteHost, There, Absent, RowKeeps, DevicesInv, DevicesTypeOK, FoundByAddress
  <2>2. CASE UNCHANGED row
    BY <1>0, <1>6, <2>2 DEF DeleteHost, DevicesInv, DevicesTypeOK, FoundByAddress
  <2> QED BY <1>6, <2>1, <2>2 DEF DeleteHost
<1>7. CASE Restart
  <2>1. job' \in [Jobs -> JobOf] /\ FoundByAddress' BY <1>7, JobEnds DEF Restart, Jobs
  <2>2. cache' \in {"unknown", "none", "vendor"} BY <1>7 DEF Restart, OuiDB
  <2>3. stops' \in 0..MaxStops
    BY <1>7, DevicesAssumption DEF Restart, DevicesInv, DevicesTypeOK
  <2> QED BY <1>0, <1>7, <2>1, <2>2, <2>3 DEF Restart, DevicesInv, DevicesTypeOK, JobOf
<1>8. CASE UNCHANGED deviceVars
  BY <1>0, <1>8 DEF deviceVars, DevicesInv, DevicesTypeOK, FoundByAddress
<1> QED
  BY <1>1, <1>2, <1>3, <1>4, <1>5, <1>6, <1>7, <1>8, StoreKeeps, UpdateVendorKeeps
  DEF DevicesNext

LEMMA DevicesStart == DevicesInit => DevicesInv
<1> SUFFICES ASSUME DevicesInit PROVE DevicesInv OBVIOUS
<1>1. Idle \in JobOf /\ Idle.ip = None BY DEF JobOf, Idle
<1>2. job \in [Jobs -> JobOf] BY <1>1 DEF DevicesInit
<1>3. FoundByAddress BY <1>1 DEF DevicesInit, FoundByAddress
<1> QED
  BY <1>2, <1>3, DevicesAssumption
  DEF DevicesInit, DevicesInv, DevicesTypeOK, OuiDB, JobOf

\* The variables keep their types; a row has an address, and only an address
\* that is reported without a MAC has a row of its own.
THEOREM DevicesTypeCorrect == DevicesSpec => []DevicesTypeOK
<1>1. DevicesInv /\ [DevicesNext]_deviceVars => DevicesInv' BY DevicesStep
<1>2. DevicesInv => DevicesTypeOK BY DEF DevicesInv
<1> QED BY <1>1, <1>2, DevicesStart, PTL DEF DevicesSpec

\* No vendor is lost and no job turns a type into "other", however scans, syncs
\* and the vendor check overtake each other and whatever the service answers
\* (KnownIsKept; devices.go:43-58, hosts.go:125-134).
THEOREM KnownCorrect == DevicesSpec => KnownIsKept
<1>1. DevicesInv /\ [DevicesNext]_deviceVars => DevicesInv' BY DevicesStep
<1>2. DevicesInv /\ [DevicesNext]_deviceVars =>
        [There /\ There' =>
          /\ row.vendor => row'.vendor
          /\ row'.type = "other" => row.type = "other" \/ Retype]_deviceVars
  BY DevicesStep DEF RowKeeps
<1> QED BY <1>1, <1>2, DevicesStart, PTL DEF DevicesSpec, KnownIsKept
=============================================================================
