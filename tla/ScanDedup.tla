----------------------------- MODULE ScanDedup ------------------------------
(***************************************************************************)
(* Which agent scans the network, and when.                                *)
(*                                                                         *)
(* Every agent with scanning on has two loops, one for ARP and one for     *)
(* mDNS, half an interval apart.  When a loop's time has come it asks the  *)
(* scan coordinator, which says no if a peer is known to have scanned less *)
(* than an interval ago; peers tell each other the time of their last scan *)
(* in heartbeats.  The coordinator does not ask about the agent's own last *)
(* scan, nor what kind of scan a peer made.                                *)
(*                                                                         *)
(* Scan times are kept as ages, in units.  Clocks are taken to agree, as   *)
(* the code does when it compares a peer's time with its own.              *)
(***************************************************************************)
EXTENDS Naturals

CONSTANTS
  Node,
  Interval,   \* units between two scans of a loop
  Half,       \* units the mDNS loop starts after the ARP loop
  Beat,       \* units between two heartbeats of an agent
  ScanUnits,  \* units a scan lasts at most
  MaxEvents,  \* bound: crashes and scans by hand
  MaxLost     \* bound: lost messages

ASSUME ScanAssumption ==
  /\ Interval \in Nat \ {0}
  /\ Half \in 1..Interval
  /\ Beat \in Nat \ {0}
  /\ ScanUnits \in 1..Interval
  /\ MaxEvents \in Nat
  /\ MaxLost \in Nat

Loop  == {"arp", "mdns"}
Kind  == Loop \cup {"manual"}
Never == Interval + 1          \* no scan yet; ages stop at Interval
Age   == 0..Interval
Msg   == [from: Node, to: Node, scan: Age \cup {Never}, answer: BOOLEAN]

VARIABLES
  up,       \* the agents that run
  due,      \* due[n][k]: units until loop k of n is due
  ticking,  \* ticking[n]: the loops of n that are past their first round
  busy,     \* busy[n][k]: 0, or 1 + the units this scan of n may still last
  local,    \* local[n]: the age of n's localScanTime
  seen,     \* seen[n][m]: the age of n's peerScanTimes entry for m
  beat,     \* beat[n]: units until n's next heartbeats
  msgs,     \* heartbeats and answers under way
  last,     \* last[n]: the age of the last scan n completed (history)
  quiet,    \* quiet[n]: units n has run without a scan by anyone (history)
  events,   \* crashes and scans by hand so far
  lost      \* messages lost so far

vars == <<up, due, ticking, busy, local, seen, beat, msgs, last, quiet, events, lost>>

\* The longest wait of an agent for the next round of one of its loops: they are
\* apart by half an interval, and by what the first scan of one of them takes.
Gap == (IF 2 * Half >= Interval THEN Half ELSE Interval - Half) + ScanUnits

\* What quiet counts up to.
MaxQuiet == Interval + Gap + ScanUnits

TypeOK ==
  /\ up \in SUBSET Node
  /\ due \in [Node -> [Loop -> Age]]
  /\ ticking \in [Node -> SUBSET Loop]
  /\ busy \in [Node -> [Kind -> 0..(ScanUnits + 1)]]
  /\ local \in [Node -> Age \cup {Never}]
  /\ seen \in [Node -> [Node -> Age \cup {Never}]]
  /\ beat \in [Node -> 0..Beat]
  /\ msgs \in SUBSET Msg
  /\ last \in [Node -> Age \cup {Never}]
  /\ quiet \in [Node -> 0..MaxQuiet]
  /\ events \in 0..MaxEvents
  /\ lost \in 0..MaxLost

Event ==
  /\ events < MaxEvents
  /\ events' = events + 1

Older(a) == IF a < Interval THEN a + 1 ELSE a

\* Mutant: one peer that has not scanned is enough.
ShouldScanAny(n) == \E m \in Node : seen[n][m] >= Interval

\* Mutant: a peer that ever scanned will do it again.
ShouldScanOnce(n) == \A m \in Node : seen[n][m] = Never

\* No peer scanned within the interval, as far as n knows.
ShouldScan(n) == \A m \in Node : seen[n][m] >= Interval

\* Mutant: the time of arrival is recorded.
RecordedNow(n, m, scan) ==
  IF scan = Never THEN seen ELSE [seen EXCEPT ![n][m] = 0]

\* RecordPeerScan at n: the time in the message replaces whatever is there.
\* A peer that has not scanned sends no time.
Recorded(n, m, scan) ==
  IF scan = Never THEN seen ELSE [seen EXCEPT ![n][m] = scan]

Init ==
  /\ up = {}
  /\ due = [n \in Node |-> [k \in Loop |-> 0]]
  /\ ticking = [n \in Node |-> {}]
  /\ busy = [n \in Node |-> [k \in Kind |-> 0]]
  /\ local = [n \in Node |-> Never]
  /\ seen = [n \in Node |-> [m \in Node |-> Never]]
  /\ beat = [n \in Node |-> 0]
  /\ msgs = {}
  /\ last = [n \in Node |-> Never]
  /\ quiet = [n \in Node |-> 0]
  /\ events = 0
  /\ lost = 0

\* An agent starts with an empty coordinator.
Start(n) ==
  /\ n \notin up
  /\ up' = up \cup {n}
  /\ due' = [due EXCEPT ![n] = [k \in Loop |-> IF k = "arp" THEN 0 ELSE Half]]
  /\ ticking' = [ticking EXCEPT ![n] = {}]
  /\ local' = [local EXCEPT ![n] = Never]
  /\ seen' = [seen EXCEPT ![n] = [m \in Node |-> Never]]
  /\ beat' = [beat EXCEPT ![n] = 0]
  /\ UNCHANGED <<busy, msgs, last, quiet, events, lost>>

Crash(n) ==
  /\ n \in up
  /\ Event
  /\ up' = up \ {n}
  /\ busy' = [busy EXCEPT ![n] = [k \in Kind |-> 0]]
  /\ msgs' = {x \in msgs : x.to # n /\ x.from # n}
  /\ quiet' = [quiet EXCEPT ![n] = 0]
  /\ UNCHANGED <<due, ticking, local, seen, beat, last, lost>>

\* A unit passes.  Loops and heartbeats that are due have run by then,
\* messages have arrived or are lost, and no scan lasts longer than ScanUnits.
Tick ==
  /\ msgs = {}
  /\ \A n \in up : /\ beat[n] > 0
                   /\ \A k \in Loop : due[n][k] > 0
                   /\ \A k \in Kind : busy[n][k] # 1
  /\ due' = [n \in Node |-> [k \in Loop |->
               IF n \in up THEN due[n][k] - 1 ELSE due[n][k]]]
  /\ busy' = [n \in Node |-> [k \in Kind |->
                IF busy[n][k] = 0 THEN 0 ELSE busy[n][k] - 1]]
  /\ beat' = [n \in Node |-> IF n \in up THEN beat[n] - 1 ELSE beat[n]]
  /\ local' = [n \in Node |-> Older(local[n])]
  /\ seen' = [n \in Node |-> [m \in Node |-> Older(seen[n][m])]]
  /\ last' = [n \in Node |-> Older(last[n])]
  /\ quiet' = [n \in Node |->
                 IF n \in up /\ quiet[n] < MaxQuiet THEN quiet[n] + 1 ELSE quiet[n]]
  /\ UNCHANGED <<up, ticking, msgs, events, lost>>

(***************************************************************************)
(* Scans.                                                                  *)
(***************************************************************************)

\* A loop's time has come, and its last scan is over: it scans or skips this
\* round.  Its first round comes after the agent's first heartbeats (10 s and 5 s
\* after the start), and its ticker starts when the first round is over.
Round(n, k) ==
  /\ n \in up
  /\ due[n][k] = 0
  /\ busy[n][k] = 0
  /\ k \notin ticking[n] => beat[n] > 0
  /\ due' = [due EXCEPT ![n][k] = Interval]
  /\ IF ShouldScan(n)
       THEN busy' = [busy EXCEPT ![n][k] = ScanUnits + 1] /\ UNCHANGED ticking
       ELSE ticking' = [ticking EXCEPT ![n] = @ \cup {k}] /\ UNCHANGED busy
  /\ UNCHANGED <<up, local, seen, beat, msgs, last, quiet, events, lost>>

\* The operator starts a scan: nobody asks the coordinator.
TriggerScan(n) ==
  /\ n \in up
  /\ busy[n]["manual"] = 0
  /\ Event
  /\ busy' = [busy EXCEPT ![n]["manual"] = ScanUnits + 1]
  /\ UNCHANGED <<up, due, ticking, local, seen, beat, msgs, last, quiet, lost>>

\* A scan is complete and recorded, in a later unit than it began: the code
\* compares times of a finer grain than units, and to it the end of a scan is
\* always after its beginning.
Complete(n, k) ==
  /\ busy[n][k] \in 1..ScanUnits
  /\ busy' = [busy EXCEPT ![n][k] = 0]
  /\ local' = [local EXCEPT ![n] = 0]
  /\ last' = [last EXCEPT ![n] = 0]
  /\ quiet' = [m \in Node |-> 0]
  /\ IF k \in Loop \ ticking[n]
       THEN /\ ticking' = [ticking EXCEPT ![n] = @ \cup {k}]
            /\ due' = [due EXCEPT ![n][k] = Interval]
       ELSE UNCHANGED <<ticking, due>>
  /\ UNCHANGED <<up, seen, beat, msgs, events, lost>>

(***************************************************************************)
(* Heartbeats.                                                             *)
(***************************************************************************)
SendHeartbeats(n) ==
  /\ n \in up
  /\ beat[n] = 0
  /\ beat' = [beat EXCEPT ![n] = Beat]
  /\ msgs' = msgs \cup [from: {n}, to: Node \ {n}, scan: {local[n]}, answer: {FALSE}]
  /\ UNCHANGED <<up, due, ticking, busy, local, seen, last, quiet, events, lost>>

\* x arrives: its scan time is recorded, and a heartbeat is answered with the
\* receiver's own.  A receiver that is down answers nothing.
Arrive(x) ==
  /\ IF x.to \in up
       THEN /\ seen' = Recorded(x.to, x.from, x.scan)
            /\ msgs' = (msgs \ {x}) \cup
                 IF x.answer THEN {}
                 ELSE {[from |-> x.to, to |-> x.from, scan |-> local[x.to],
                        answer |-> TRUE]}
       ELSE msgs' = msgs \ {x} /\ UNCHANGED seen
  /\ UNCHANGED <<up, due, ticking, busy, local, beat, last, quiet, events, lost>>

Lose(x) ==
  /\ lost < MaxLost
  /\ lost' = lost + 1
  /\ msgs' = msgs \ {x}
  /\ UNCHANGED <<up, due, ticking, busy, local, seen, beat, last, quiet, events>>

Next ==
  \/ \E n \in Node : Start(n) \/ Crash(n) \/ TriggerScan(n) \/ SendHeartbeats(n)
  \/ \E n \in Node : \E k \in Loop : Round(n, k)
  \/ \E n \in Node : \E k \in Kind : Complete(n, k)
  \/ \E x \in msgs : Arrive(x) \/ Lose(x)
  \/ Tick

Spec == Init /\ [][Next]_vars

(***************************************************************************)
(* Properties.                                                             *)
(***************************************************************************)

\* What an agent believes of a peer's last scan is never more recent than the
\* scan: neither delays nor the relay through answers, nor restarts of either
\* side, make a scan look younger (heartbeat.go:194-196, handlers.go:110-113).
SeenIsReal ==
  \A n, m \in Node : n \in up /\ seen[n][m] # Never => seen[n][m] >= last[m]

\* The agents hold each other back but never all at once: however its peers
\* scan, stop and start again, an agent that runs is never without a scan, by
\* itself or by another one, for longer than an interval, the wait for its next
\* round and the duration of a scan (scan_coordinator.go:52-70, run.go:355-399).
NetworkIsScanned == \A n \in up : quiet[n] < MaxQuiet

\* The coordinator does its work: past its first round an agent begins a scan
\* only if no peer that runs has completed one in the interval, unless so
\* recently that the peer's heartbeat was not due yet; one lost message does
\* not matter, and neither do restarts (scan_coordinator.go:11-14).
KnownScansSuppress ==
  [][\A n \in Node : \A k \in ticking[n] :
       busy[n][k] = 0 /\ busy'[n][k] > 0 =>
         \A m \in up \ {n} : local[m] <= Beat \/ local[m] >= Interval]_vars

=============================================================================
