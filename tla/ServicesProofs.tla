--------------------------- MODULE ServicesProofs ---------------------------
(***************************************************************************)
(* Proofs about Services, for any periods, delay, staleness and peers: how *)
(* long a port that was closed stays on the pages, and that an open one is *)
(* on all of them.                                                         *)
(***************************************************************************)
EXTENDS Services, TLAPS

\* The time by which the owner's row of an open port is there, and by which a
\* heartbeat has told p of it.
OwnerBy == CollectEvery + DiscoverEvery
PeerBy  == OwnerBy + BeatEvery

-----------------------------------------------------------------------------
(* A port that was closed                                                  *)

\* What an observer still lists has been there since it last looked; a row has
\* been refreshed from such a list, a heartbeat made from such a row, and a
\* peer's row made from such a heartbeat.
SeenSince == (ports => since <= portsAt) /\ (docker => since <= dockerAt)

RowSince(n, lag) == status[n] = "active" =>
    /\ age[n] <= StaleAfter => since <= lag + age[n]
    /\ age[n] > StaleAfter => since <= lag + StaleAfter + sweepAt[n]

WireSince(p) == \A d \in wire[p] : since <= OwnerLag + (Delay - d)

ClosedInv == kind = "nobody" =>
    /\ SeenSince
    /\ RowSince(Owner, CollectEvery)
    /\ \A p \in Peers : WireSince(p) /\ RowSince(p, OwnerLag + Delay)

-----------------------------------------------------------------------------
(* A port that is open                                                     *)

Seen ==
    /\ kind = "process" /\ since > portsAt => ports
    /\ kind = "container" /\ since > dockerAt => docker

\* In the middle of a round the row of a process is there already.
Halfway ==
    discovering /\ kind = "process" /\ since > CollectEvery =>
        status[Owner] = "active" /\ named /\ age[Owner] = 0

Shown ==
    since > CollectEvery + discoverAt =>
        status[Owner] = "active" /\ named /\ age[Owner] <= discoverAt

\* The heartbeat p was sent y ticks ago is under way or has arrived.
Told(p, y) == Delay - y \in wire[p] \/ (status[p] = "active" /\ age[p] <= y)

LastTold(p) == since > OwnerBy + beatAt[p] => Told(p, beatAt[p])

\* Looking back more than x ticks, one was sent in the BeatEvery ticks before.
OftenTold(p) ==
    \A x \in 0..Delay : since > PeerBy + x => \E y \in (x + 1)..(x + BeatEvery) : Told(p, y)

OpenInv == kind # "nobody" =>
    Seen /\ Halfway /\ Shown /\ \A p \in Peers : LastTold(p) /\ OftenTold(p)

IInv == TypeOK /\ ClosedInv /\ OpenInv

-----------------------------------------------------------------------------
LEMMA Naturals ==
  /\ OwnerBy \in Nat /\ PeerBy \in Nat /\ OwnerLag \in Nat /\ PeerLag \in Nat
  /\ PeerLag >= PeerBy + Delay
BY ServicesAssumption DEF OwnerBy, PeerBy, OwnerLag, PeerLag

LEMMA OwnerIsNode == Owner \in Nodes /\ Peers \subseteq Nodes /\ \A p \in Peers : p # Owner
BY ServicesAssumption DEF Nodes

\* Every step keeps the types.
LEMMA TypeStep == TypeOK /\ [Next]_vars => TypeOK'
<1> SUFFICES ASSUME TypeOK, [Next]_vars PROVE TypeOK'
  OBVIOUS
<1> USE ServicesAssumption, Naturals, OwnerIsNode
    DEF TypeOK, world, latest, engine, rows, net, Disturbed
<1>1. CASE Listen \/ Close
  BY <1>1 DEF Listen, Close
<1>0. ASSUME Disturbed PROVE since' \in 0..(PeerLag + 1) /\ UNCHANGED kind
  BY <1>0
<1>2. CASE CollectPorts \/ CollectDocker \/ DockerFails \/ Restart
  <2>1. CASE CollectPorts
    BY <2>1 DEF CollectPorts
  <2>2. CASE CollectDocker
    <3>1. docker' \in BOOLEAN
      BY <2>2, Zenon DEF CollectDocker
    <3>2. QED
      BY <2>2, <3>1 DEF CollectDocker
  <2>3. CASE DockerFails
    BY <1>0, <2>3 DEF DockerFails
  <2>4. CASE Restart
    BY <1>0, <2>4 DEF Restart
  <2>5. QED
    BY <1>2, <2>1, <2>2, <2>3, <2>4
<1>3. ASSUME NEW n \in Nodes, Upsert(n)
      PROVE  status' \in [Nodes -> {"absent", "active", "gone"}] /\ age' \in [Nodes -> 0..(StaleAfter + 1)]
  BY <1>3 DEF Upsert
<1>4. CASE DiscoverPorts
  <2>1. /\ status' \in [Nodes -> {"absent", "active", "gone"}]
        /\ age' \in [Nodes -> 0..(StaleAfter + 1)]
    BY <1>3, <1>4 DEF DiscoverPorts
  <2>2. since' \in 0..(PeerLag + 1) /\ UNCHANGED kind
    BY <1>0, <1>4 DEF DiscoverPorts
  <2>3. named' \in BOOLEAN /\ discovering' \in BOOLEAN
    BY <1>4 DEF DiscoverPorts
  <2>4. QED
    BY <1>4, <2>1, <2>2, <2>3 DEF DiscoverPorts
<1>5. CASE DiscoverDocker
  <2>1. /\ status' \in [Nodes -> {"absent", "active", "gone"}]
        /\ age' \in [Nodes -> 0..(StaleAfter + 1)]
    BY <1>3, <1>5 DEF DiscoverDocker
  <2>2. named' \in BOOLEAN /\ discovering' \in BOOLEAN
    BY <1>5 DEF DiscoverDocker
  <2>3. QED
    BY <1>5, <2>1, <2>2 DEF DiscoverDocker
<1>6. ASSUME NEW n \in Nodes, Sweep(n) PROVE TypeOK'
  BY <1>6 DEF Sweep
<1>7. ASSUME NEW n \in Nodes, DeleteHost(n) PROVE TypeOK'
  <2>1. since' \in 0..(PeerLag + 1) /\ UNCHANGED kind
    BY <1>0, <1>7 DEF DeleteHost
  <2>2. /\ status' \in [Nodes -> {"absent", "active", "gone"}]
        /\ age' \in [Nodes -> 0..(StaleAfter + 1)]
    BY <1>7 DEF DeleteHost
  <2>3. named' \in BOOLEAN
    <3>1. named' = FALSE \/ named' = named
      BY <1>7 DEF DeleteHost
    <3>2. QED
      BY <3>1
  <2>4. QED
    BY <1>7, <2>1, <2>2, <2>3 DEF DeleteHost
<1>8. ASSUME NEW p \in Peers, Beat(p) PROVE TypeOK'
  BY <1>8 DEF Beat
<1>9. ASSUME NEW p \in Peers, Deliver(p) PROVE TypeOK'
  BY <1>3, <1>9 DEF Deliver
<1>10. ASSUME NEW p \in Peers, Lose(p) PROVE TypeOK'
  BY <1>10 DEF Lose
<1>11. CASE Tick
  <2>1. wire' \in [Peers -> SUBSET (0..Delay)]
    BY <1>11 DEF Tick, Older
  <2>2. age' \in [Nodes -> 0..(StaleAfter + 1)] /\ sweepAt' \in [Nodes -> 0..SweepEvery]
    BY <1>11 DEF Tick
  <2>3. beatAt' \in [Peers -> 0..BeatEvery] /\ since' \in 0..(PeerLag + 1)
    BY <1>11 DEF Tick
  <2>4. portsAt' \in 0..CollectEvery /\ dockerAt' \in 0..CollectEvery /\ discoverAt' \in 0..DiscoverEvery
    BY <1>11 DEF Tick
  <2>5. QED
    BY <1>11, <2>1, <2>2, <2>3, <2>4 DEF Tick
<1>12. CASE UNCHANGED vars
  BY <1>12 DEF vars
<1>13. QED
  BY <1>1, <1>2, <1>4, <1>5, <1>6, <1>7, <1>8, <1>9, <1>10, <1>11, <1>12 DEF Next

LEMMA InitInv == Init => IInv
<1> SUFFICES ASSUME Init PROVE IInv
  OBVIOUS
<1> USE ServicesAssumption, Naturals, OwnerIsNode DEF Init
<1>1. TypeOK
  <2>1. ports \in BOOLEAN /\ docker \in BOOLEAN /\ discovering \in BOOLEAN /\ named \in BOOLEAN
    OBVIOUS
  <2>2. /\ status \in [Nodes -> {"absent", "active", "gone"}]
        /\ age \in [Nodes -> 0..(StaleAfter + 1)]
        /\ wire \in [Peers -> SUBSET (0..Delay)]
    OBVIOUS
  <2>3. /\ portsAt \in 0..CollectEvery /\ dockerAt \in 0..CollectEvery
        /\ discoverAt \in 0..DiscoverEvery /\ since \in 0..(PeerLag + 1)
        /\ beatAt \in [Peers -> 0..BeatEvery] /\ sweepAt \in [Nodes -> 0..SweepEvery]
    OBVIOUS
  <2>4. QED
    BY <2>1, <2>2, <2>3 DEF TypeOK
<1>2. ClosedInv
  BY DEF ClosedInv, SeenSince, RowSince, WireSince
<1>3. OpenInv
  BY DEF OpenInv
<1>4. QED
  BY <1>1, <1>2, <1>3 DEF IInv

\* How long an active row may be without its port, from its invariant.
LEMMA RowLag ==
  ASSUME TypeOK, NEW n \in Nodes, NEW lag \in Nat, RowSince(n, lag), status[n] = "active"
  PROVE  since <= lag + StaleAfter + SweepEvery
BY ServicesAssumption, Naturals DEF TypeOK, RowSince

\* What keeps a row's invariant: refreshed in time, swept, deleted, or older.
LEMMA RowKept ==
  ASSUME TypeOK, TypeOK', NEW n \in Nodes, NEW lag \in Nat, RowSince(n, lag),
         \/ status'[n] # "active"
         \/ UNCHANGED since /\ age'[n] = 0 /\ since <= lag
         \/ UNCHANGED <<since, status>> /\ age'[n] = age[n] /\ sweepAt'[n] = sweepAt[n]
         \/ UNCHANGED since /\ Sweep(n)
         \/ Tick
  PROVE  RowSince(n, lag)'
<1> USE ServicesAssumption, Naturals DEF TypeOK, RowSince
<1>1. CASE status'[n] # "active"
  BY <1>1
<1>2. CASE UNCHANGED since /\ age'[n] = 0 /\ since <= lag
  BY <1>2
<1>3. CASE UNCHANGED <<since, status>> /\ age'[n] = age[n] /\ sweepAt'[n] = sweepAt[n]
  BY <1>3
<1>4. CASE UNCHANGED since /\ Sweep(n)
  BY <1>4 DEF Sweep
<1>5. CASE Tick
  <2>1. status' = status /\ sweepAt'[n] = sweepAt[n] + 1 /\ since' <= since + 1
    BY <1>5 DEF Tick
  <2>2. age'[n] = IF status[n] = "active" /\ age[n] <= StaleAfter THEN age[n] + 1 ELSE age[n]
    BY <1>5 DEF Tick
  <2>3. QED
    BY <2>1, <2>2
<1>6. QED
  BY <1>1, <1>2, <1>3, <1>4, <1>5

\* A closed port is seen by nobody, and everything that remembers it is bounded
\* by what it was copied from.
LEMMA ClosedStep == TypeOK /\ TypeOK' /\ ClosedInv /\ [Next]_vars => ClosedInv'
<1> SUFFICES ASSUME TypeOK, TypeOK', ClosedInv, [Next]_vars, kind' = "nobody"
             PROVE  /\ SeenSince'
                    /\ RowSince(Owner, CollectEvery)'
                    /\ \A p \in Peers : WireSince(p)' /\ RowSince(p, OwnerLag + Delay)'
  BY DEF ClosedInv, OwnerLag
<1> DEFINE Goal == /\ SeenSince'
                   /\ RowSince(Owner, CollectEvery)'
                   /\ \A p \in Peers : WireSince(p)' /\ RowSince(p, OwnerLag + Delay)'
<1> USE ServicesAssumption, Naturals, OwnerIsNode
<1>1. CASE since' = 0
  BY <1>1 DEF TypeOK, SeenSince, RowSince, WireSince
<1>2. CASE since' # 0
  <2>1. kind = "nobody" /\ (since' = since \/ Tick)
    BY <1>2 DEF Next, Listen, Close, CollectPorts, CollectDocker, DockerFails, DiscoverPorts,
                DiscoverDocker, Sweep, DeleteHost, Beat, Deliver, Lose, Restart, Tick, Disturbed,
                world, vars
  <2>2. /\ SeenSince
        /\ RowSince(Owner, CollectEvery)
        /\ \A p \in Peers : WireSince(p) /\ RowSince(p, OwnerLag + Delay)
    BY <2>1 DEF ClosedInv
  <2>3. CASE CollectPorts \/ CollectDocker \/ DockerFails \/ Restart
    <3>1. UNCHANGED <<status, age, wire, sweepAt, since>> \/ Tick
      BY <2>1, <2>3 DEF CollectPorts, CollectDocker, DockerFails, Restart, rows, net
    <3>2. ~Tick
      BY <2>3 DEF TypeOK, CollectPorts, CollectDocker, DockerFails, Restart, Tick, latest, net
    <3>3. SeenSince'
      <4>1. ports' => since <= portsAt'
        BY <2>1, <2>2, <2>3 DEF SeenSince, CollectPorts, CollectDocker, DockerFails, Restart
      <4>2. CASE CollectDocker
        <5>1. docker' = FALSE
          BY <2>1, <4>2, Zenon DEF CollectDocker
        <5>2. QED
          BY <3>1, <3>2, <4>1, <5>1 DEF SeenSince
      <4>3. CASE CollectPorts \/ DockerFails \/ Restart
        <5>1. docker' => since <= dockerAt'
          BY <2>2, <4>3 DEF SeenSince, CollectPorts, DockerFails, Restart
        <5>2. QED
          BY <3>1, <3>2, <4>1, <5>1 DEF SeenSince
      <4>4. QED
        BY <2>3, <4>2, <4>3
    <3>4. QED
      BY <2>2, <3>1, <3>2, <3>3 DEF RowSince, WireSince
  <2>4. CASE DiscoverPorts \/ DiscoverDocker
    <3>1. UNCHANGED <<ports, docker, portsAt, dockerAt, wire, sweepAt, since>>
      BY <2>1, <2>4 DEF DiscoverPorts, DiscoverDocker, Disturbed, world, latest, net
    <3>2. \/ UNCHANGED <<status, age>>
          \/ (ports \/ docker) /\ Upsert(Owner)
      BY <2>4 DEF DiscoverPorts, DiscoverDocker, rows
    <3>3. SeenSince' /\ \A p \in Peers : WireSince(p)'
      BY <2>2, <3>1 DEF SeenSince, WireSince
    <3>4. \A p \in Peers : status'[p] = status[p] /\ age'[p] = age[p]
      BY <3>2 DEF TypeOK, Upsert
    <3>5. \A p \in Peers : RowSince(p, OwnerLag + Delay)'
      BY <2>2, <3>1, <3>4 DEF RowSince
    <3>6. CASE Upsert(Owner) /\ (ports \/ docker)
      <4>1. since <= CollectEvery
        BY <2>2, <3>6 DEF TypeOK, SeenSince
      <4>2. age'[Owner] = 0
        BY <3>6 DEF TypeOK, Upsert
      <4>3. RowSince(Owner, CollectEvery)'
        BY <2>2, <3>1, <4>1, <4>2, RowKept
      <4>4. QED
        BY <3>3, <3>5, <4>3
    <3>7. QED
      BY <2>2, <3>1, <3>2, <3>3, <3>5, <3>6 DEF RowSince
  <2>5. ASSUME NEW n \in Nodes, Sweep(n) \/ DeleteHost(n) PROVE Goal
    <3>1. UNCHANGED <<ports, docker, portsAt, dockerAt, wire, since>>
      BY <2>1, <2>5 DEF Sweep, DeleteHost, Disturbed, world, latest, net
    <3>2. SeenSince' /\ \A p \in Peers : WireSince(p)'
      BY <2>2, <3>1 DEF SeenSince, WireSince
    <3>3. ASSUME NEW m \in Nodes, NEW lag \in Nat, RowSince(m, lag) PROVE RowSince(m, lag)'
      <4>1. CASE m # n
        BY <2>5, <3>1, <3>3, <4>1 DEF TypeOK, RowSince, Sweep, DeleteHost
      <4>2. CASE m = n /\ Sweep(n)
        BY <3>1, <3>3, <4>2, RowKept
      <4>3. CASE m = n /\ DeleteHost(n)
        BY <4>3 DEF TypeOK, RowSince, DeleteHost
      <4>4. QED
        BY <2>5, <4>1, <4>2, <4>3
    <3>4. QED
      BY <2>2, <3>2, <3>3
  <2>6. ASSUME NEW q \in Peers, Beat(q) \/ Deliver(q) \/ Lose(q) PROVE Goal
    <3>1. UNCHANGED <<ports, docker, portsAt, dockerAt, sweepAt, since>>
      BY <2>1, <2>6 DEF Beat, Deliver, Lose, Disturbed, world, latest
    <3>2. \A p \in Peers : wire'[p] \subseteq wire[p] \/ (Beat(p) /\ wire'[p] \subseteq wire[p] \cup {Delay} /\ status[Owner] = "active")
      BY <2>6 DEF TypeOK, Beat, Deliver, Lose
    <3>3. status[Owner] = "active" => since <= OwnerLag
      BY <2>2, RowLag DEF OwnerLag
    <3>4. \A p \in Peers : WireSince(p)'
      BY <2>2, <3>1, <3>2, <3>3 DEF TypeOK, WireSince
    <3>5. CASE Beat(q) \/ Lose(q)
      BY <2>2, <3>1, <3>4, <3>5 DEF SeenSince, RowSince, Beat, Lose, rows
    <3>6. CASE Deliver(q)
      <4>1. PICK d \in wire[q] : TRUE
        BY <3>6 DEF Deliver
      <4>2. since <= OwnerLag + Delay
        BY <2>2, <4>1 DEF TypeOK, WireSince
      <4>3. age'[q] = 0 /\ \A n \in Nodes \ {q} : age'[n] = age[n] /\ status'[n] = status[n]
        BY <3>6 DEF TypeOK, Deliver, Upsert
      <4>4. RowSince(q, OwnerLag + Delay)'
        BY <2>2, <3>1, <4>2, <4>3, RowKept
      <4>5. RowSince(Owner, CollectEvery)' /\ \A p \in Peers \ {q} : RowSince(p, OwnerLag + Delay)'
        BY <2>2, <3>1, <4>3 DEF RowSince
      <4>6. QED
        BY <2>2, <3>1, <3>4, <4>4, <4>5 DEF SeenSince
    <3>7. QED
      BY <2>6, <3>5, <3>6
  <2>7. CASE Tick
    <3>1. SeenSince'
      BY <2>2, <2>7 DEF TypeOK, SeenSince, Tick
    <3>2. ASSUME NEW p \in Peers PROVE WireSince(p)'
      <4>1. wire'[p] = {d - 1 : d \in wire[p]} /\ since' <= since + 1
        BY <2>7 DEF TypeOK, Tick, Older
      <4>2. QED
        BY <2>2, <4>1 DEF TypeOK, WireSince
    <3>3. RowSince(Owner, CollectEvery)' /\ \A p \in Peers : RowSince(p, OwnerLag + Delay)'
      BY <2>2, <2>7, RowKept
    <3>4. QED
      BY <3>1, <3>2, <3>3
  <2>8. CASE Listen \/ Close \/ UNCHANGED vars
    BY <1>2, <2>1, <2>2, <2>8
      DEF Listen, Close, SeenSince, RowSince, WireSince, vars, world, latest, rows, net
  <2>9. QED
    BY <2>3, <2>4, <2>5, <2>6, <2>7, <2>8 DEF Next
<1>3. QED
  BY <1>1, <1>2

\* When the port's time starts again, nothing is due yet.
LEMMA Restarted == TypeOK' /\ since' = 0 => OpenInv'
<1> SUFFICES ASSUME TypeOK', since' = 0 PROVE OpenInv'
  OBVIOUS
<1> USE ServicesAssumption, Naturals DEF TypeOK
<1>1. Seen' /\ Halfway' /\ Shown'
  <2>0. portsAt' \in Nat /\ dockerAt' \in Nat
    OBVIOUS
  <2>1. ~(since' > portsAt') /\ ~(since' > dockerAt')
    BY <2>0
  <2>2. ~(since' > CollectEvery) /\ ~(since' > CollectEvery + discoverAt')
    <3>1. \A i, j \in Nat : ~(0 > i) /\ ~(0 > i + j)
      OBVIOUS
    <3>2. discoverAt' \in Nat /\ CollectEvery \in Nat /\ since' = 0
      OBVIOUS
    <3>3. QED
      BY <3>1, <3>2, Zenon
  <2>3. QED
    BY <2>1, <2>2, Zenon DEF Seen, Halfway, Shown
<1>2. \A p \in Peers : LastTold(p)'
  BY DEF LastTold, OwnerBy
<1>3. \A p \in Peers : OftenTold(p)'
  BY DEF OftenTold, PeerBy, OwnerBy
<1>4. QED
  BY <1>1, <1>2, <1>3 DEF OpenInv

\* A heartbeat p was sent in time is not lost within a tick: it is on its way,
\* or its row is fresher than the sweep asks for.
LEMMA ToldStays ==
  ASSUME TypeOK, TypeOK', NEW p \in Peers, NEW y \in 0..StaleAfter, Told(p, y),
         \/ UNCHANGED <<wire, status, age>>
         \/ \E n \in Nodes : Sweep(n)
         \/ \E q \in Peers : Beat(q) \/ Deliver(q)
         \/ Upsert(Owner) /\ UNCHANGED wire
  PROVE  Told(p, y)'
<1> USE ServicesAssumption, OwnerIsNode DEF TypeOK, Told
<1>1. CASE UNCHANGED <<wire, status, age>>
  BY <1>1
<1>2. ASSUME NEW n \in Nodes, Sweep(n) PROVE Told(p, y)'
  BY <1>2 DEF Sweep, net
<1>3. ASSUME NEW q \in Peers, Beat(q) PROVE Told(p, y)'
  BY <1>3 DEF Beat, rows
<1>4. ASSUME NEW q \in Peers, Deliver(q) PROVE Told(p, y)'
  <2>1. CASE q = p
    <3>1. PICK d \in wire[p] : wire' = [wire EXCEPT ![p] = @ \ {d}]
      BY <1>4, <2>1 DEF Deliver
    <3>2. status'[p] = "active" /\ age'[p] = 0
      BY <1>4, <2>1 DEF Deliver, Upsert
    <3>3. QED
      BY <3>2
  <2>2. CASE q # p
    BY <1>4, <2>2 DEF Deliver, Upsert
  <2>3. QED
    BY <2>1, <2>2
<1>5. CASE Upsert(Owner) /\ UNCHANGED wire
  BY <1>5 DEF Upsert
<1>6. QED
  BY <1>1, <1>2, <1>3, <1>4, <1>5

\* A tick makes it one tick older.
LEMMA ToldTick ==
  ASSUME TypeOK, NEW p \in Peers, NEW y \in 0..StaleAfter, Told(p, y), Tick
  PROVE  Told(p, y + 1)'
<1> USE ServicesAssumption, OwnerIsNode DEF TypeOK, Told
<1>1. wire'[p] = {d - 1 : d \in wire[p]} /\ status' = status
  BY DEF Tick, Older
<1>2. status[p] = "active" => age'[p] <= age[p] + 1
  BY DEF Tick
<1>3. CASE Delay - y \in wire[p]
  <2>1. (Delay - y) - 1 \in wire'[p]
    BY <1>1, <1>3
  <2>2. (Delay - y) - 1 = Delay - (y + 1)
    OBVIOUS
  <2>3. QED
    BY <2>1, <2>2
<1>4. CASE status[p] = "active" /\ age[p] <= y
  <2>1. age'[p] <= y + 1
    BY <1>2, <1>4 DEF Tick
  <2>2. QED
    BY <1>1, <1>4, <2>1
<1>5. QED
  BY <1>3, <1>4

\* With the port open and undisturbed, the peers' invariants last while what they
\* speak of does.
LEMMA PeersKept ==
  ASSUME TypeOK, TypeOK', NEW p \in Peers, LastTold(p), OftenTold(p),
         since' = since, beatAt'[p] = beatAt[p],
         \/ UNCHANGED <<wire, status, age>>
         \/ \E n \in Nodes : Sweep(n)
         \/ \E q \in Peers : Beat(q) \/ Deliver(q)
         \/ Upsert(Owner) /\ UNCHANGED wire
  PROVE  LastTold(p)' /\ OftenTold(p)'
<1> USE ServicesAssumption, Naturals
<1>1. beatAt[p] \in 0..StaleAfter
  BY DEF TypeOK
<1>2. \A x \in 0..Delay : \A y \in (x + 1)..(x + BeatEvery) : y \in 0..StaleAfter
  OBVIOUS
<1>3. LastTold(p)'
  BY <1>1, ToldStays DEF LastTold, OwnerBy
<1>4. OftenTold(p)'
  <2>1. SUFFICES ASSUME NEW x \in 0..Delay, since > PeerBy + x
                 PROVE  \E y \in (x + 1)..(x + BeatEvery) : Told(p, y)'
    BY DEF OftenTold, PeerBy, OwnerBy
  <2>2. PICK y \in (x + 1)..(x + BeatEvery) : Told(p, y)
    BY <2>1 DEF OftenTold
  <2>3. QED
    BY <1>2, <2>2, ToldStays
<1>5. QED
  BY <1>3, <1>4

\* An open port is seen by every collection, hence by every round of discovery,
\* hence told by every heartbeat.
LEMMA OpenStep == TypeOK /\ TypeOK' /\ OpenInv /\ [Next]_vars => OpenInv'
<1> SUFFICES ASSUME TypeOK, TypeOK', OpenInv, [Next]_vars, kind' # "nobody", since' # 0
             PROVE  OpenInv'
  BY Restarted DEF OpenInv, Seen, Halfway, Shown, LastTold, OftenTold
<1> USE ServicesAssumption, Naturals, OwnerIsNode
<1>1. kind' = kind /\ (since' = since \/ Tick)
  BY DEF TypeOK, Next, Listen, Close, CollectPorts, CollectDocker, DockerFails, DiscoverPorts,
         DiscoverDocker, Sweep, DeleteHost, Beat, Deliver, Lose, Restart, Tick, Disturbed,
         world, vars
<1>2. Seen /\ Halfway /\ Shown /\ \A p \in Peers : LastTold(p) /\ OftenTold(p)
  BY <1>1 DEF OpenInv
<1>3. SUFFICES Seen' /\ Halfway' /\ Shown' /\ \A p \in Peers : LastTold(p)' /\ OftenTold(p)'
  BY DEF OpenInv
<1> DEFINE Goal == Seen' /\ Halfway' /\ Shown' /\ \A p \in Peers : LastTold(p)' /\ OftenTold(p)'
<1> HIDE DEF Goal
<1>4. ASSUME UNCHANGED <<status, age, wire, beatAt>>, since' = since
      PROVE  \A p \in Peers : LastTold(p)' /\ OftenTold(p)'
  BY <1>2, <1>4, PeersKept
<1>5. CASE CollectPorts \/ CollectDocker
  <2>1. UNCHANGED <<status, age, named, wire, beatAt, discovering, discoverAt, since>>
    BY <1>5 DEF CollectPorts, CollectDocker, world, engine, rows, net
  <2>2. Halfway' /\ Shown'
    BY <1>1, <1>2, <2>1 DEF Halfway, Shown
  <2>3. Seen'
    <3>1. CASE CollectPorts
      BY <1>1, <1>2, <2>1, <3>1 DEF Seen, CollectPorts
    <3>2. CASE CollectDocker
      <4>1. kind = "container" => docker'
        BY <3>2, Zenon DEF CollectDocker
      <4>2. QED
        BY <1>1, <1>2, <2>1, <3>2, <4>1 DEF Seen, CollectDocker
    <3>3. QED
      BY <1>5, <3>1, <3>2
  <2>4. QED
    BY <1>4, <2>1, <2>2, <2>3
<1>6. ASSUME DockerFails \/ Restart \/ (\E n \in Nodes : DeleteHost(n)) \/ (\E p \in Peers : Lose(p))
      PROVE  FALSE
  BY <1>1, <1>6 DEF TypeOK, DockerFails, Restart, DeleteHost, Lose, Disturbed, Tick, Beat, latest,
                    engine, rows, net
<1>7. CASE DiscoverPorts
  <2>1. /\ UNCHANGED <<kind, since, ports, docker, portsAt, dockerAt, discoverAt, wire, beatAt>>
        /\ \/ ports /\ named' /\ Upsert(Owner)
           \/ ~ports /\ UNCHANGED <<status, named, age>>
    BY <1>1, <1>6, <1>7 DEF TypeOK, DiscoverPorts, Disturbed, Tick, world, latest, rows, net
  <2>2. Upsert(Owner) => status'[Owner] = "active" /\ age'[Owner] = 0
    BY DEF TypeOK, Upsert
  <2>3. kind = "process" /\ since > CollectEvery => ports
    BY <1>2 DEF TypeOK, Seen
  <2>4. Seen' /\ Halfway' /\ Shown'
    <3>1. Seen'
      BY <1>2, <2>1 DEF Seen
    <3>2. Halfway'
      BY <2>1, <2>2, <2>3 DEF Halfway
    <3>3. Shown'
      <4>1. CASE named' /\ Upsert(Owner)
        <5>1. discoverAt' >= 0
          BY DEF TypeOK
        <5>2. QED
          BY <2>2, <4>1, <5>1 DEF Shown
      <4>2. CASE UNCHANGED <<status, named, age>>
        BY <1>2, <2>1, <4>2 DEF Shown
      <4>3. QED
        BY <2>1, <4>1, <4>2
    <3>4. QED
      BY <3>1, <3>2, <3>3
  <2>5. \A p \in Peers : LastTold(p)' /\ OftenTold(p)'
    BY <1>2, <2>1, PeersKept
  <2>6. QED
    BY <2>4, <2>5
<1>8. CASE DiscoverDocker
  <2>1. /\ UNCHANGED <<kind, since, ports, docker, portsAt, dockerAt, wire, beatAt>>
        /\ discovering /\ ~discovering' /\ discoverAt' = 0
        /\ \/ docker /\ named' /\ Upsert(Owner)
           \/ ~docker /\ UNCHANGED <<status, named, age>>
    BY <1>8 DEF DiscoverDocker, world, latest, rows, net
  <2>2. Upsert(Owner) => status'[Owner] = "active" /\ age'[Owner] = 0
    BY DEF TypeOK, Upsert
  <2>3. kind \in {"process", "container"} /\ (kind = "container" /\ since > CollectEvery => docker)
    BY <1>1, <1>2 DEF TypeOK, Seen
  <2>4. Seen' /\ Halfway' /\ Shown'
    <3>1. Seen' /\ Halfway'
      BY <1>2, <2>1 DEF Seen, Halfway
    <3>2. Shown'
      <4>1. CASE Upsert(Owner) /\ docker
        <5>1. named' /\ status'[Owner] = "active" /\ age'[Owner] = 0
          BY <2>1, <2>2, <4>1
        <5>2. QED
          BY <2>1, <5>1 DEF Shown
      <4>2. CASE ~docker /\ UNCHANGED <<status, named, age>>
        <5>1. since > CollectEvery => kind = "process"
          BY <2>3, <4>2
        <5>2. since > CollectEvery => status[Owner] = "active" /\ named /\ age[Owner] = 0
          BY <1>2, <2>1, <5>1 DEF Halfway
        <5>3. QED
          BY <2>1, <4>2, <5>2 DEF TypeOK, Shown
      <4>3. QED
        BY <2>1, <4>1, <4>2
    <3>3. QED
      BY <3>1, <3>2
  <2>5. \A p \in Peers : LastTold(p)' /\ OftenTold(p)'
    BY <1>2, <2>1, PeersKept
  <2>6. QED
    BY <2>4, <2>5
<1>9. ASSUME NEW n \in Nodes, Sweep(n) PROVE Goal
  <2>1. UNCHANGED <<kind, since, ports, docker, portsAt, dockerAt, discovering, discoverAt, named, age, beatAt>>
    BY <1>9 DEF Sweep, world, latest, engine, net
  <2>2. status[Owner] = "active" /\ age[Owner] <= StaleAfter => status'[Owner] = "active"
    BY <1>9 DEF TypeOK, Sweep
  <2>3. Seen' /\ Halfway' /\ Shown'
    BY <1>2, <2>1, <2>2 DEF TypeOK, Seen, Halfway, Shown
  <2>4. \A p \in Peers : LastTold(p)' /\ OftenTold(p)'
    BY <1>2, <1>9, <2>1, PeersKept
  <2>5. QED
    BY <2>3, <2>4 DEF Goal
<1>10. ASSUME NEW q \in Peers, Beat(q) PROVE Goal
  <2>1. UNCHANGED <<kind, since, ports, docker, portsAt, dockerAt, discovering, discoverAt, named, age, status>>
    BY <1>10 DEF Beat, world, latest, engine, rows
  <2>2. Seen' /\ Halfway' /\ Shown'
    BY <1>2, <2>1 DEF Seen, Halfway, Shown
  <2>3. ASSUME NEW p \in Peers, p # q PROVE LastTold(p)' /\ OftenTold(p)'
    <3>1. beatAt'[p] = beatAt[p]
      BY <1>10, <2>3 DEF TypeOK, Beat
    <3>2. QED
      BY <1>2, <1>10, <2>1, <3>1, PeersKept
  <2>4. LastTold(q)'
    <3>1. beatAt'[q] = 0
      BY <1>10 DEF TypeOK, Beat
    <3>2. since > OwnerBy => Delay \in wire'[q]
      BY <1>2, <1>10 DEF TypeOK, Shown, OwnerBy, Beat
    <3>3. QED
      BY <2>1, <3>1, <3>2 DEF LastTold, Told, OwnerBy
  <2>5. OftenTold(q)'
    <3>1. SUFFICES ASSUME NEW x \in 0..Delay, since > PeerBy + x
                   PROVE  \E y \in (x + 1)..(x + BeatEvery) : Told(q, y)'
      BY <2>1 DEF OftenTold, PeerBy, OwnerBy
    <3>2. PICK y \in (x + 1)..(x + BeatEvery) : Told(q, y)
      BY <1>2, <3>1 DEF OftenTold
    <3>3. y \in 0..StaleAfter
      OBVIOUS
    <3>4. QED
      BY <1>10, <3>2, <3>3, ToldStays
  <2>6. QED
    BY <2>2, <2>3, <2>4, <2>5 DEF Goal
<1>11. ASSUME NEW q \in Peers, Deliver(q) PROVE Goal
  <2>1. UNCHANGED <<kind, since, ports, docker, portsAt, dockerAt, discovering, discoverAt, named, beatAt>>
    BY <1>11 DEF Deliver, world, latest, engine
  <2>2. status'[Owner] = status[Owner] /\ age'[Owner] = age[Owner]
    BY <1>11 DEF TypeOK, Deliver, Upsert
  <2>3. Seen' /\ Halfway' /\ Shown'
    BY <1>2, <2>1, <2>2 DEF Seen, Halfway, Shown
  <2>4. \A p \in Peers : LastTold(p)' /\ OftenTold(p)'
    BY <1>2, <1>11, <2>1, PeersKept
  <2>5. QED
    BY <2>3, <2>4 DEF Goal
<1>12. CASE Tick
  <2>1. /\ UNCHANGED <<kind, ports, docker, named, status, discovering>> /\ ~discovering
        /\ portsAt' = portsAt + 1 /\ dockerAt' = dockerAt + 1 /\ discoverAt' = discoverAt + 1
        /\ since' <= since + 1
        /\ \A p \in Peers : beatAt'[p] = beatAt[p] + 1
    BY <1>12 DEF TypeOK, Tick
  <2>2. status[Owner] = "active" => age'[Owner] <= age[Owner] + 1
    BY <1>12 DEF TypeOK, Tick
  <2>3. Seen'
    BY <1>2, <2>1 DEF TypeOK, Seen
  <2>4. Halfway' /\ Shown'
    BY <1>2, <2>1, <2>2 DEF TypeOK, Halfway, Shown
  <2>5. ASSUME NEW p \in Peers PROVE LastTold(p)' /\ OftenTold(p)'
    <3>1. PICK b \in 0..StaleAfter : b = beatAt[p] /\ b + 1 \in 1..BeatEvery
      BY <1>12 DEF TypeOK, Tick
    <3>2. since > OwnerBy + b => Told(p, b + 1)'
      BY <1>2, <1>12, <3>1, ToldTick DEF LastTold
    <3>3. LastTold(p)'
      <4>1. beatAt'[p] = b + 1
        BY <2>1, <3>1
      <4>2. since' > OwnerBy + (b + 1) => since > OwnerBy + b
        BY <2>1, <3>1 DEF TypeOK
      <4>3. QED
        BY <3>2, <4>1, <4>2 DEF LastTold, OwnerBy
    <3>4. SUFFICES ASSUME NEW x \in 0..Delay, since' > PeerBy + x
                   PROVE  \E y \in (x + 1)..(x + BeatEvery) : Told(p, y)'
      BY <3>3 DEF OftenTold, PeerBy, OwnerBy
    <3>5. CASE x = 0
      <4>1. since > OwnerBy + b
        BY <2>1, <3>1, <3>4, <3>5 DEF TypeOK, PeerBy
      <4>2. QED
        BY <3>1, <3>2, <3>5, <4>1
    <3>6. CASE x # 0
      <4>1. x - 1 \in 0..Delay /\ since > PeerBy + (x - 1)
        BY <2>1, <3>4, <3>6 DEF TypeOK
      <4>2. PICK y \in ((x - 1) + 1)..((x - 1) + BeatEvery) : Told(p, y)
        BY <1>2, <4>1 DEF OftenTold
      <4>3. y \in 0..StaleAfter /\ y + 1 \in (x + 1)..(x + BeatEvery)
        BY <4>1
      <4>4. QED
        BY <1>12, <4>2, <4>3, ToldTick
    <3>7. QED
      BY <3>5, <3>6
  <2>6. QED
    BY <2>3, <2>4, <2>5
<1>13. CASE Listen \/ Close \/ UNCHANGED vars
  <2>1. UNCHANGED vars
    BY <1>1, <1>13 DEF Listen, Close
  <2>2. QED
    BY <1>2, <2>1 DEF vars, world, latest, engine, rows, net, Seen, Halfway, Shown, LastTold,
                      OftenTold, Told
<1>14. QED
  BY <1>5, <1>6, <1>7, <1>8, <1>9, <1>10, <1>11, <1>12, <1>13 DEF Next, Goal

LEMMA Invariant == Spec => []IInv
<1>1. IInv /\ [Next]_vars => IInv'
  BY TypeStep, ClosedStep, OpenStep DEF IInv
<1>2. QED
  BY InitInv, <1>1, PTL DEF Spec

\* The variables keep their types.
THEOREM TypeCorrect == Spec => []TypeOK
<1>1. IInv => TypeOK
  BY DEF IInv
<1>2. QED
  BY <1>1, Invariant, PTL

\* A port that was closed leaves the owner's page within OwnerLag and those of
\* its peers within PeerLag, whatever is lost, restarted or deleted meanwhile
\* (services.go:67-75, heartbeat.go, run.go:424-436).
THEOREM ActiveCorrect == Spec => []ActiveWasOpen
<1>1. IInv => ActiveWasOpen
  <2> SUFFICES ASSUME IInv, kind = "nobody"
               PROVE  /\ status[Owner] = "active" => since <= OwnerLag
                      /\ \A p \in Peers : status[p] = "active" => since <= PeerLag
    BY DEF ActiveWasOpen
  <2>1. status[Owner] = "active" => since <= OwnerLag
    BY ServicesAssumption, OwnerIsNode, RowLag DEF IInv, ClosedInv, OwnerLag
  <2>2. ASSUME NEW p \in Peers, status[p] = "active" PROVE since <= PeerLag
    <3>1. OwnerLag + Delay \in Nat
      BY ServicesAssumption, Naturals
    <3>2. QED
      BY <2>2, <3>1, OwnerIsNode, RowLag DEF IInv, ClosedInv, PeerLag
  <2>3. QED
    BY <2>1, <2>2
<1>2. QED
  BY <1>1, Invariant, PTL

\* A port that is open and undisturbed is on the owner's page after a collection
\* and a round of discovery, and on its peers' after a heartbeat more, and no
\* sweep takes it off as long as rows outlive the periods (ServicesAssumption).
THEOREM OpenCorrect == Spec => []OpenIsActive
<1>1. IInv => OpenIsActive
  <2> SUFFICES ASSUME IInv, kind # "nobody"
               PROVE  /\ since > CollectEvery + DiscoverEvery => status[Owner] = "active"
                      /\ since > CollectEvery + DiscoverEvery + BeatEvery + Delay =>
                            \A p \in Peers : status[p] = "active"
    BY DEF OpenIsActive
  <2>1. since > CollectEvery + DiscoverEvery => status[Owner] = "active"
    BY ServicesAssumption DEF IInv, OpenInv, TypeOK, Shown
  <2>2. ASSUME NEW p \in Peers, since > CollectEvery + DiscoverEvery + BeatEvery + Delay
        PROVE  status[p] = "active"
    <3>1. Delay \in 0..Delay /\ since > PeerBy + Delay
      BY <2>2, ServicesAssumption DEF PeerBy, OwnerBy
    <3>2. PICK y \in (Delay + 1)..(Delay + BeatEvery) : Told(p, y)
      BY <3>1 DEF IInv, OpenInv, OftenTold
    <3>3. Delay - y \notin wire[p]
      BY ServicesAssumption DEF IInv, TypeOK
    <3>4. QED
      BY <3>2, <3>3 DEF Told
  <2>3. QED
    BY <2>1, <2>2
<1>2. QED
  BY <1>1, Invariant, PTL

=============================================================================
