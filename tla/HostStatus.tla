----------------------------- MODULE HostStatus -----------------------------
(***************************************************************************)
(* The status column of one agent's hosts table, against time.             *)
(*                                                                         *)
(* Several goroutines write it.  A heartbeat exchange, in either direction,*)
(* sets a host online; a heartbeat that cannot be delivered sets it        *)
(* offline at once; a scan sets a device online; and once a minute a sweep *)
(* looks for hosts that are online and were last seen too long ago, marks  *)
(* them offline and announces them.  The sweep is a SELECT, an UPDATE with *)
(* the same condition, and one notification per selected host: the other   *)
(* goroutines run between them.                                            *)
(*                                                                         *)
(* Time passes in units (half a minute).  The periods of the code are      *)
(* multiples of it; what happens within a unit happens in any order.       *)
(***************************************************************************)
EXTENDS Naturals

CONSTANTS
  Agent,       \* other agents of the mesh
  Device,      \* devices without an agent, found by scans
  Self,        \* the agent whose table this is
  Dialled,     \* agents that a --peer flag names: called by a row of its own
  Beat,        \* units between two heartbeats
  SweepEvery,  \* units between two sweeps
  StaleAfter,  \* units after which a host counts as stale
  MaxFaults    \* bound: deaths, losses, deletions and crashes

Host   == Agent \cup Device \cup {Self}
MaxAge == StaleAfter + SweepEvery + 2   \* ages are counted up to here
Calls  == [host: Agent, row: {"own", "pending"}]

ASSUME HostStatusAssumption ==
  /\ Agent \cap Device = {}
  /\ Self \notin Agent \cup Device
  /\ Dialled \subseteq Agent
  /\ Beat \in Nat \ {0}
  /\ SweepEvery \in Nat \ {0, 1}
  /\ StaleAfter \in Nat
  /\ MaxFaults \in Nat

VARIABLES
  up,        \* this agent runs
  alive,     \* alive[h]: the other agent runs, the device is there
  due,       \* due[h]: units until agent h sends its next heartbeat
  status,    \* status[h]: of the hosts row, or "none" without a row
  age,       \* age[h]: units since last_seen
  known,     \* the agents that have a row with their own id in peers
  beat,      \* units until this agent sends its next heartbeats
  calls,     \* heartbeats of this agent under way
  sweepDue,  \* units until the next sweep
  sweep,     \* the sweep: what it does next, its cutoff, the hosts it selected
  swept,     \* there was a sweep since the agent started (history)
  told,      \* hosts announced offline since they were last set online (history)
  faults

vars == <<up, alive, due, status, age, known, beat, calls, sweepDue, sweep,
          swept, told, faults>>

TypeOK ==
  /\ up \in BOOLEAN
  /\ alive \in [Agent \cup Device -> BOOLEAN]
  /\ due \in [Agent -> 0..Beat]
  /\ status \in [Host -> {"none", "online", "offline"}]
  /\ age \in [Host -> 0..MaxAge]
  /\ known \in SUBSET Agent
  /\ beat \in 0..Beat
  /\ calls \in SUBSET Calls
  /\ sweepDue \in 0..SweepEvery
  /\ sweep \in [next: {"select", "update", "send"},
                cutoff: {StaleAfter, StaleAfter + 1}, stale: SUBSET Host]
  /\ swept \in BOOLEAN
  /\ told \in SUBSET Host
  /\ faults \in 0..MaxFaults

(***************************************************************************)
(* The hosts table.                                                        *)
(***************************************************************************)

\* Mutant: the upsert leaves the status of a row that is there alone.
UpsertHostKeepsStatus(h) ==
  /\ status' = [status EXCEPT ![h] = IF @ = "none" THEN "online" ELSE @]
  /\ age' = [age EXCEPT ![h] = 0]
  /\ told' = told \ {h}

\* A row for h, new or old, that is online and seen now.
UpsertHost(h) ==
  /\ status' = [status EXCEPT ![h] = "online"]
  /\ age' = [age EXCEPT ![h] = 0]
  /\ told' = told \ {h}

\* The row of h, if there is one, is offline; last_seen is now all the same.
SetOffline(h) ==
  /\ status' = [status EXCEPT ![h] = IF @ = "none" THEN @ ELSE "offline"]
  /\ age' = [age EXCEPT ![h] = IF status[h] = "none" THEN @ ELSE 0]
  /\ UNCHANGED told

\* Mutant: only hosts with an agent count.
StaleAgent(h, cutoff) ==
  h \notin Device /\ status[h] = "online" /\ age[h] > cutoff

Stale(h, cutoff) == status[h] = "online" /\ age[h] > cutoff

Idle == [next |-> "select", cutoff |-> StaleAfter, stale |-> {}]

Fault ==
  /\ faults < MaxFaults
  /\ faults' = faults + 1

(***************************************************************************)
(* This agent, the others, and time.                                       *)
(***************************************************************************)
Init ==
  /\ up = FALSE
  /\ alive = [h \in Agent \cup Device |-> FALSE]
  /\ due = [h \in Agent |-> 0]
  /\ status = [h \in Host |-> "none"]
  /\ age = [h \in Host |-> 0]
  /\ known = {}
  /\ beat = 0
  /\ calls = {}
  /\ sweepDue = SweepEvery
  /\ sweep = Idle
  /\ swept = FALSE
  /\ told = {}
  /\ faults = 0

\* Mutant: the first heartbeats go out after a whole period.
StartWithoutBeat ==
  /\ ~up
  /\ up' = TRUE
  /\ UpsertHost(Self)
  /\ beat' = Beat
  /\ sweepDue' = SweepEvery
  /\ swept' = FALSE
  /\ UNCHANGED <<alive, due, known, calls, sweep, faults>>

\* The agent starts: its own row is online, its first heartbeats go out after
\* 5 s, and its first sweep is a period away.
Start ==
  /\ ~up
  /\ up' = TRUE
  /\ UpsertHost(Self)
  /\ beat' = 0
  /\ sweepDue' = SweepEvery
  /\ swept' = FALSE
  /\ UNCHANGED <<alive, due, known, calls, sweep, faults>>

\* The tables stay, whatever was under way is gone.
Crash ==
  /\ up
  /\ Fault
  /\ up' = FALSE
  /\ calls' = {}
  /\ sweep' = Idle
  /\ UNCHANGED <<alive, due, status, age, known, beat, sweepDue, swept, told>>

\* Another agent starts or a device appears.  An agent's first heartbeat comes
\* after 5 s.
Appear(h) ==
  /\ ~alive[h]
  /\ alive' = [alive EXCEPT ![h] = TRUE]
  /\ due' = [g \in Agent |-> IF g = h THEN 0 ELSE due[g]]
  /\ UNCHANGED <<up, status, age, known, beat, calls, sweepDue, sweep, swept, told, faults>>

Disappear(h) ==
  /\ alive[h]
  /\ Fault
  /\ alive' = [alive EXCEPT ![h] = FALSE]
  /\ UNCHANGED <<up, due, status, age, known, beat, calls, sweepDue, sweep, swept, told>>

Less(t) == IF t = 0 THEN 0 ELSE t - 1

\* A unit passes.  What is due has been done by then, and the calls, which
\* last 10 s at most, are over.  The unit may end while the sweep is between
\* SELECT and UPDATE: its cutoff, a point in time, is a unit older then.
Tick ==
  /\ \A h \in Agent : alive[h] => due[h] > 0
  /\ up => /\ beat > 0
           /\ sweepDue > 0
           /\ calls = {}
           /\ sweep.next # "send"
           /\ sweep.cutoff = StaleAfter
  /\ age' = [h \in Host |-> IF age[h] < MaxAge THEN age[h] + 1 ELSE MaxAge]
  /\ due' = [h \in Agent |-> Less(due[h])]
  /\ beat' = Less(beat)
  /\ sweepDue' = IF up THEN sweepDue - 1 ELSE sweepDue
  /\ sweep' = IF sweep.next = "update" THEN [sweep EXCEPT !.cutoff = @ + 1]
                                       ELSE sweep
  /\ UNCHANGED <<up, alive, status, known, calls, swept, told, faults>>

(***************************************************************************)
(* Heartbeats.                                                             *)
(***************************************************************************)

\* A heartbeat of agent h arrives here, unless this agent is down.
HeartbeatFrom(h) ==
  /\ alive[h]
  /\ due[h] = 0
  /\ due' = [due EXCEPT ![h] = Beat]
  /\ IF up THEN UpsertHost(h) /\ known' = known \cup {h}
           ELSE UNCHANGED <<status, age, told, known>>
  /\ UNCHANGED <<up, alive, beat, calls, sweepDue, sweep, swept, faults>>

LoseHeartbeat(h) ==
  /\ alive[h]
  /\ due[h] = 0
  /\ Fault
  /\ due' = [due EXCEPT ![h] = Beat]
  /\ UNCHANGED <<up, alive, status, age, known, beat, calls, sweepDue, sweep, swept, told>>

\* The ticker of this agent: one call for every row of its peers table.
SendHeartbeats ==
  /\ up
  /\ beat = 0
  /\ beat' = Beat
  /\ calls' = calls \cup [host: known, row: {"own"}]
                    \cup [host: Dialled, row: {"pending"}]
  /\ UNCHANGED <<up, alive, due, status, age, known, sweepDue, sweep, swept, told, faults>>

\* The answer to a call arrives.
Exchange(c) ==
  /\ alive[c.host]
  /\ UpsertHost(c.host)
  /\ known' = known \cup {c.host}
  /\ calls' = calls \ {c}
  /\ UNCHANGED <<up, alive, due, beat, sweepDue, sweep, swept, faults>>

\* The call fails or times out.  The failure is booked on the id of the peers
\* row that was called, and a "pending" id has no host.
CallFails(c) ==
  /\ IF alive[c.host] THEN Fault ELSE UNCHANGED faults
  /\ IF c.row = "own" THEN SetOffline(c.host) ELSE UNCHANGED <<status, age, told>>
  /\ calls' = calls \ {c}
  /\ UNCHANGED <<up, alive, due, known, beat, sweepDue, sweep, swept>>

\* The answer cannot be decoded: nothing changes.
AnswerGarbled(c) ==
  /\ alive[c.host]
  /\ Fault
  /\ calls' = calls \ {c}
  /\ UNCHANGED <<up, alive, due, status, age, known, beat, sweepDue, sweep, swept, told>>

(***************************************************************************)
(* Scans, and the operator.                                                *)
(***************************************************************************)

\* A scan finds device h; the operator may start one at any time.
Scan(h) ==
  /\ up
  /\ alive[h]
  /\ UpsertHost(h)
  /\ UNCHANGED <<up, alive, due, known, beat, calls, sweepDue, sweep, swept, faults>>

\* The operator deletes a host.  Its row in peers stays.
DeleteHost(h) ==
  /\ up
  /\ status[h] # "none"
  /\ Fault
  /\ status' = [status EXCEPT ![h] = "none"]
  /\ age' = [age EXCEPT ![h] = 0]
  /\ told' = told \ {h}
  /\ UNCHANGED <<up, alive, due, known, beat, calls, sweepDue, sweep, swept>>

(***************************************************************************)
(* The sweep.                                                              *)
(***************************************************************************)

\* Mutant: minutes for seconds.
SweepSelectLate ==
  /\ up
  /\ sweepDue = 0
  /\ sweepDue' = SweepEvery
  /\ LET stale == {h \in Host : Stale(h, StaleAfter + 2)}
     IN  IF stale = {}
           THEN swept' = TRUE /\ UNCHANGED sweep
           ELSE /\ sweep' = [sweep EXCEPT !.next = "update", !.stale = stale]
                /\ UNCHANGED swept
  /\ UNCHANGED <<up, alive, due, status, age, known, beat, calls, told, faults>>

\* SELECT: the sweep is over if there is no stale host.
SweepSelect ==
  /\ up
  /\ sweepDue = 0
  /\ sweepDue' = SweepEvery
  /\ LET stale == {h \in Host : Stale(h, StaleAfter)}
     IN  IF stale = {}
           THEN swept' = TRUE /\ UNCHANGED sweep
           ELSE /\ sweep' = [sweep EXCEPT !.next = "update", !.stale = stale]
                /\ UNCHANGED swept
  /\ UNCHANGED <<up, alive, due, status, age, known, beat, calls, told, faults>>

\* Mutant: the selected hosts are marked by id.
SweepUpdateById ==
  /\ sweep.next = "update"
  /\ status' = [h \in Host |-> IF h \in sweep.stale /\ status[h] # "none"
                                 THEN "offline" ELSE status[h]]
  /\ sweep' = [sweep EXCEPT !.next = "send", !.cutoff = StaleAfter]
  /\ swept' = TRUE
  /\ UNCHANGED <<up, alive, due, age, known, beat, calls, sweepDue, told, faults>>

\* Mutant: the cutoff is computed again.
SweepUpdateAnew ==
  /\ sweep.next = "update"
  /\ status' = [h \in Host |-> IF Stale(h, StaleAfter) THEN "offline" ELSE status[h]]
  /\ sweep' = [sweep EXCEPT !.next = "send", !.cutoff = StaleAfter]
  /\ swept' = TRUE
  /\ UNCHANGED <<up, alive, due, age, known, beat, calls, sweepDue, told, faults>>

\* UPDATE: the condition of the SELECT again, with the same cutoff.
SweepUpdate ==
  /\ sweep.next = "update"
  /\ status' = [h \in Host |-> IF Stale(h, sweep.cutoff) THEN "offline" ELSE status[h]]
  /\ sweep' = [sweep EXCEPT !.next = "send", !.cutoff = StaleAfter]
  /\ swept' = TRUE
  /\ UNCHANGED <<up, alive, due, age, known, beat, calls, sweepDue, told, faults>>

\* Mutant: the sweep ends with the first notification.
AnnounceOne(h) ==
  /\ sweep.next = "send"
  /\ h \in sweep.stale
  /\ told' = told \cup {h}
  /\ sweep' = Idle
  /\ UNCHANGED <<up, alive, due, status, age, known, beat, calls, sweepDue, swept, faults>>

\* One selected host is announced; the sweep ends with the last one.
Announce(h) ==
  /\ sweep.next = "send"
  /\ h \in sweep.stale
  /\ told' = told \cup {h}
  /\ sweep' = IF sweep.stale = {h} THEN Idle ELSE [sweep EXCEPT !.stale = @ \ {h}]
  /\ UNCHANGED <<up, alive, due, status, age, known, beat, calls, sweepDue, swept, faults>>

Next ==
  \/ Start
  \/ Crash
  \/ Tick
  \/ \E h \in Agent \cup Device : Appear(h) \/ Disappear(h)
  \/ \E h \in Agent : HeartbeatFrom(h) \/ LoseHeartbeat(h)
  \/ SendHeartbeats
  \/ \E c \in calls : Exchange(c) \/ CallFails(c) \/ AnswerGarbled(c)
  \/ \E h \in Device : Scan(h)
  \/ \E h \in Host : DeleteHost(h)
  \/ SweepSelect
  \/ SweepUpdate
  \/ \E h \in Host : Announce(h)

Spec == Init /\ [][Next]_vars

(***************************************************************************)
(* Fairness: time passes, the agent is started again, tickers fire, calls  *)
(* end and the sweep's goroutine runs on.  Losses, deaths and crashes are  *)
(* not fair, and neither is the return of what disappeared.                *)
(***************************************************************************)
Fairness ==
  /\ WF_vars(Tick)
  /\ WF_vars(Start)
  /\ WF_vars(SendHeartbeats)
  /\ \A h \in Agent : WF_vars(HeartbeatFrom(h))
  /\ WF_vars(\E c \in calls : Exchange(c) \/ (~alive[c.host] /\ CallFails(c)))
  /\ WF_vars(SweepSelect)
  /\ WF_vars(SweepUpdate)
  /\ \A h \in Host : WF_vars(Announce(h))

FairSpec == Spec /\ Fairness

(***************************************************************************)
(* Properties.                                                             *)
(***************************************************************************)

\* From the first sweep after a start on, a host that is shown online was seen
\* within the stale threshold and a sweep period, and a unit more for a sweep
\* that runs on into the next: also this agent itself, a device, and a host
\* nobody has called since (run.go:438-454, hosts.go:157-189).
OnlineIsFresh ==
  up /\ swept =>
    \A h \in Host : status[h] = "online" => age[h] <= StaleAfter + SweepEvery + 1

\* A host that was seen after the sweep computed its cutoff is not marked by
\* it: between SELECT and UPDATE a heartbeat or a scan saves the host
\* (hosts.go:181-183).  Without the sweep only a failed call sets it offline.
SweepSparesTheSeen ==
  [][\A h \in Host :
       status[h] = "online" /\ status'[h] = "offline" =>
         \/ age[h] > StaleAfter
         \/ \E c \in calls \ calls' : c.host = h]_vars

\* The sweep never marks a host that it does not announce afterwards, though
\* the hosts it marks and the hosts it announces come from two statements.
MarkedIsSelected ==
  [][sweep.next = "update" /\ sweep'.next = "send" =>
       \A h \in Host : status[h] # status'[h] => h \in sweep'.stale]_vars

\* No false alarm: a host whose agent runs and has sent its first heartbeat is
\* not selected, not after a restart of this agent however long it was down,
\* and not when a heartbeat or an answer was lost (run.go:438, heartbeat.go:60-61).
NoFalseAlarm ==
  [][\A h \in Agent :
       sweep.next = "select" /\ h \in sweep'.stale => ~alive[h] \/ due[h] = 0]_vars

\* What is gone is shown offline for good, and what stays is shown online for
\* good, whatever was lost, deleted or restarted before.
GoneGoesOffline ==
  \A h \in Agent \cup Device : <>[](~alive[h]) => <>[](status[h] # "online")

AliveGoesOnline ==
  \A h \in Agent : <>[](alive[h]) => <>[](status[h] = "online")

\* Who was online and is gone gets announced, unless it comes back, is deleted
\* or the agent stops in between.
GetsAnnounced(h) ==
  (status[h] = "online" /\ ~alive[h])
    ~> (h \in told \/ alive[h] \/ status[h] = "none" \/ ~up)

DevicesAreAnnounced == \A h \in Device : GetsAnnounced(h)

\* The design's first notification is "Host goes offline (automatic detection
\* via stale heartbeat)" (DESIGN.md:165): the same for agents.
AgentsAreAnnounced == \A h \in Agent : GetsAnnounced(h)

=============================================================================
