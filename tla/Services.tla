------------------------------ MODULE Services ------------------------------
(***************************************************************************)
(* One port of one host, from the socket to the services tables: the       *)
(* observers see it, the discovery engine stores it, heartbeats carry it   *)
(* to the peers, and on every node a sweep marks rows that were not        *)
(* refreshed as gone.  Time is counted in ticks; a job that runs "every k" *)
(* runs at least once in k ticks.                                          *)
(***************************************************************************)
EXTENDS Integers

CONSTANTS Owner,         \* the node the port belongs to
          Peers,         \* nodes it exchanges heartbeats with
          CollectEvery,  \* each observer succeeds at least this often
          DiscoverEvery, BeatEvery, SweepEvery,
          Delay,         \* of a heartbeat
          StaleAfter     \* MarkStaleServicesGone

Nodes == Peers \cup {Owner}

\* Rows outlive a round of discovery and a heartbeat under way: ten minutes
\* against a minute and the ten seconds of the client.
ASSUME ServicesAssumption ==
    /\ Owner \notin Peers
    /\ CollectEvery \in Nat \ {0} /\ DiscoverEvery \in Nat \ {0} /\ BeatEvery \in Nat \ {0}
    /\ SweepEvery \in Nat \ {0} /\ Delay \in Nat \ {0} /\ StaleAfter \in Nat \ {0}
    /\ DiscoverEvery <= StaleAfter /\ BeatEvery + Delay <= StaleAfter

VARIABLES kind,        \* who has the port: nobody, a process or a container
          ports,       \* is it in PortsObserver.latest?
          docker,      \* is it in DockerObserver.latest?
          discovering, \* is runDiscovery between its two parts?
          status,      \* the row of the port on each node
          named,       \* has the owner's row a name or a category?
          age,         \* ticks since the row's last_seen
          wire,        \* heartbeats with the port under way: the ticks each has left
          portsAt, dockerAt, discoverAt, beatAt, sweepAt, \* ticks since each job ran
          since        \* ticks without the port, or with it and undisturbed

world == <<kind, since>>
latest == <<ports, docker, portsAt, dockerAt>>
engine == <<discovering, discoverAt>>
rows == <<status, named, age>>
net == <<wire, beatAt>>
vars == <<world, latest, engine, rows, net, sweepAt>>

\* For how long a row may be active without its port.
OwnerLag == CollectEvery + StaleAfter + SweepEvery
PeerLag  == OwnerLag + Delay + StaleAfter + SweepEvery

Init ==
    /\ kind = "nobody" /\ since = 0
    /\ ports = FALSE /\ docker = FALSE
    /\ discovering = FALSE
    /\ status = [n \in Nodes |-> "absent"]
    /\ named = FALSE
    /\ age = [n \in Nodes |-> 0]
    /\ wire = [p \in Peers |-> {}]
    /\ portsAt = 0 /\ dockerAt = 0 /\ discoverAt = 0
    /\ beatAt = [p \in Peers |-> 0]
    /\ sweepAt = [n \in Nodes |-> 0]

-----------------------------------------------------------------------------
(* The host                                                                *)

Listen ==
    /\ kind = "nobody" /\ kind' \in {"process", "container"}
    /\ since' = 0
    /\ UNCHANGED <<latest, engine, rows, net, sweepAt>>

Close ==
    /\ kind # "nobody" /\ kind' = "nobody"
    /\ since' = 0
    /\ UNCHANGED <<latest, engine, rows, net, sweepAt>>

\* Something keeps the port from being seen or told about: its time starts again.
Disturbed == kind' = kind /\ since' = IF kind = "nobody" THEN since ELSE 0

\* Mutant: the list is added to, not replaced.
CollectPortsAdds ==
    /\ ports' \in BOOLEAN
    /\ kind = "nobody" => ports' = ports
    /\ kind = "process" => ports' = TRUE
    /\ portsAt' = 0
    /\ UNCHANGED <<world, docker, dockerAt, engine, rows, net, sweepAt>>

\* The ports observer replaces its list.  Docker's proxy may or may not listen
\* for a container.  A collection that fails keeps the old list.
CollectPorts ==
    /\ ports' \in BOOLEAN
    /\ kind = "nobody" => ports' = FALSE
    /\ kind = "process" => ports' = TRUE
    /\ portsAt' = 0
    /\ UNCHANGED <<world, docker, dockerAt, engine, rows, net, sweepAt>>

CollectDocker ==
    /\ docker' = (kind = "container")
    /\ dockerAt' = 0
    /\ UNCHANGED <<world, ports, portsAt, engine, rows, net, sweepAt>>

\* Without an answer of Docker its list is emptied.
DockerFails ==
    /\ docker' = FALSE
    /\ Disturbed
    /\ UNCHANGED <<ports, portsAt, dockerAt, engine, rows, net, sweepAt>>

-----------------------------------------------------------------------------
(* Discovery                                                               *)

\* Mutant: a row that exists keeps its last_seen.
UpsertKeepsTime(n) ==
    /\ status' = [status EXCEPT ![n] = "active"]
    /\ UNCHANGED age

\* UpsertService on node n: the row is active and seen now.
Upsert(n) ==
    /\ status' = [status EXCEPT ![n] = "active"]
    /\ age' = [age EXCEPT ![n] = 0]

\* The engine: a fingerprint, the process or a well-known port names the row,
\* or else it is "unknown" in name and category.
DiscoverPorts ==
    /\ ~discovering /\ discovering' = TRUE
    /\ \/ ports /\ named' = TRUE /\ Upsert(Owner) /\ UNCHANGED world
       \/ ports /\ named' = FALSE /\ Upsert(Owner) /\ Disturbed
       \/ ~ports /\ UNCHANGED <<rows, world>>
    /\ UNCHANGED <<latest, discoverAt, net, sweepAt>>

\* Then the containers, over the same rows.
DiscoverDocker ==
    /\ discovering /\ discovering' = FALSE
    /\ discoverAt' = 0
    /\ \/ docker /\ named' = TRUE /\ Upsert(Owner)
       \/ ~docker /\ UNCHANGED rows
    /\ UNCHANGED <<world, latest, net, sweepAt>>

\* MarkStaleServicesGone, over the rows of every host.
Sweep(n) ==
    /\ status' = [status EXCEPT ![n] = IF @ = "active" /\ age[n] > StaleAfter THEN "gone" ELSE @]
    /\ sweepAt' = [sweepAt EXCEPT ![n] = 0]
    /\ UNCHANGED <<world, latest, engine, named, age, net>>

-----------------------------------------------------------------------------
(* Heartbeats                                                              *)

\* A heartbeat to p, or the answer to one of p's, takes the owner's active
\* rows that are not unknown.
Beat(p) ==
    /\ wire' = IF status[Owner] = "active" /\ named THEN [wire EXCEPT ![p] = @ \cup {Delay}] ELSE wire
    /\ beatAt' = [beatAt EXCEPT ![p] = 0]
    /\ UNCHANGED <<world, latest, engine, rows, sweepAt>>

\* p stores the rows it gets, as they were when they were sent.
Deliver(p) ==
    /\ \E d \in wire[p] : wire' = [wire EXCEPT ![p] = @ \ {d}]
    /\ Upsert(p)
    /\ UNCHANGED <<world, latest, engine, named, beatAt, sweepAt>>

Lose(p) ==
    /\ \E d \in wire[p] : wire' = [wire EXCEPT ![p] = @ \ {d}]
    /\ Disturbed
    /\ UNCHANGED <<latest, engine, rows, beatAt, sweepAt>>

\* handleDeleteHost: the host's services go with it, on the node of the UI only.
DeleteHost(n) ==
    /\ status[n] # "absent"
    /\ status' = [status EXCEPT ![n] = "absent"]
    /\ age' = [age EXCEPT ![n] = 0]
    /\ named' = IF n = Owner THEN FALSE ELSE named
    /\ Disturbed
    /\ UNCHANGED <<latest, engine, net, sweepAt>>

\* The owner's process stops and starts: what the observers saw is lost.
Restart ==
    /\ ports' = FALSE /\ docker' = FALSE /\ discovering' = FALSE
    /\ Disturbed
    /\ UNCHANGED <<portsAt, dockerAt, discoverAt, rows, net, sweepAt>>

Older(w) == {d - 1 : d \in w}

Tick ==
    /\ portsAt < CollectEvery /\ portsAt' = portsAt + 1
    /\ dockerAt < CollectEvery /\ dockerAt' = dockerAt + 1
    /\ ~discovering /\ discoverAt < DiscoverEvery /\ discoverAt' = discoverAt + 1
    /\ \A p \in Peers : beatAt[p] < BeatEvery /\ 0 \notin wire[p]
    /\ \A n \in Nodes : sweepAt[n] < SweepEvery
    /\ beatAt' = [p \in Peers |-> beatAt[p] + 1]
    /\ sweepAt' = [n \in Nodes |-> sweepAt[n] + 1]
    /\ wire' = [p \in Peers |-> Older(wire[p])]
    /\ age' = [n \in Nodes |-> IF status[n] = "active" /\ age[n] <= StaleAfter THEN age[n] + 1 ELSE age[n]]
    /\ since' = IF since <= PeerLag THEN since + 1 ELSE since
    /\ UNCHANGED <<kind, ports, docker, discovering, status, named>>

-----------------------------------------------------------------------------
Next ==
    \/ Listen \/ Close
    \/ CollectPorts \/ CollectDocker \/ DockerFails
    \/ DiscoverPorts \/ DiscoverDocker
    \/ \E n \in Nodes : Sweep(n) \/ DeleteHost(n)
    \/ \E p \in Peers : Beat(p) \/ Deliver(p) \/ Lose(p)
    \/ Restart \/ Tick

Spec == Init /\ [][Next]_vars

-----------------------------------------------------------------------------
\* Types of every variable.
TypeOK ==
    /\ kind \in {"nobody", "process", "container"}
    /\ ports \in BOOLEAN /\ docker \in BOOLEAN /\ discovering \in BOOLEAN /\ named \in BOOLEAN
    /\ status \in [Nodes -> {"absent", "active", "gone"}]
    /\ age \in [Nodes -> 0..(StaleAfter + 1)]
    /\ wire \in [Peers -> SUBSET (0..Delay)]
    /\ portsAt \in 0..CollectEvery /\ dockerAt \in 0..CollectEvery
    /\ discoverAt \in 0..DiscoverEvery
    /\ beatAt \in [Peers -> 0..BeatEvery]
    /\ sweepAt \in [Nodes -> 0..SweepEvery]
    /\ since \in 0..(PeerLag + 1)

\* A service that went away is shown as active for a bounded time only: by its
\* own node for one collection, the ten minutes and one sweep; by the others,
\* who hear nothing of "gone", for the ten minutes and a sweep of their own
\* after the last heartbeat that still had it.  Failed deliveries, restarts and
\* deletions of the host do not make it longer.
ActiveWasOpen ==
    kind = "nobody" =>
       /\ status[Owner] = "active" => since <= OwnerLag
       /\ \A p \in Peers : status[p] = "active" => since <= PeerLag

\* A service that is there, seen, named and delivered is shown as active by
\* every node: no sweep takes it between two heartbeats.
OpenIsActive ==
    kind # "nobody" =>
       /\ since > CollectEvery + DiscoverEvery => status[Owner] = "active"
       /\ since > CollectEvery + DiscoverEvery + BeatEvery + Delay => \A p \in Peers : status[p] = "active"
=============================================================================
