-------------------------------- MODULE Mesh --------------------------------
(***************************************************************************)
(* The peer table of every agent and the heartbeat exchange that fills it. *)
(*                                                                         *)
(* Every agent lists its peers once a minute and posts one heartbeat to    *)
(* each row, concurrently; the answer is the other agent's heartbeat.      *)
(* Both heartbeats carry the sender's whole peer table, and both sides run *)
(* the same gossip loop over it: look an entry up, and insert it if it is  *)
(* absent.  The look-up and the insert are two database calls, so loops of *)
(* one agent interleave between them.                                      *)
(*                                                                         *)
(* The module is the projection of the heartbeat code on the peers table.  *)
(* The host, service and metric rows the same handlers write, and the scan *)
(* times they record, are read by none of the conditions below; the host   *)
(* rows and the scan times are the subject of modules of their own.        *)
(***************************************************************************)
EXTENDS Naturals, FiniteSets

CONSTANTS
  Node,          \* the agents, by node id
  Addr,          \* host:port addresses
  AddrOf,        \* AddrOf[n]: the addresses agent n can come up at
  InitialPeers,  \* InitialPeers[n]: the addresses of n's --peer flags
  Posted,        \* the <<m, n>> for which somebody posts n's registration to m
  NoRow,         \* there is no row with this id
  MaxCallers,    \* bound: agents with calls outstanding at once
  MaxLoops,      \* bound: gossip loops running at once in the whole mesh
  MaxFaults      \* bound: crashes, losses and timeouts in a behaviour

\* The row of a --peer flag has the id "pending-" + address until the end of
\* time; the address itself stands for that id.
PeerId == Node \cup Addr
Row    == [addr: Addr, status: {"online", "unknown"}]
Entry  == [id: PeerId, addr: Addr]
Call   == [from: Node, id: PeerId, addr: Addr]

ASSUME MeshAssumption ==
  /\ Node \cap Addr = {}
  /\ AddrOf \in [Node -> (SUBSET Addr) \ {{}}]
  /\ InitialPeers \in [Node -> SUBSET Addr]
  /\ Posted \subseteq {p \in Node \X Node : p[1] # p[2]}
  /\ NoRow \notin Row
  /\ MaxCallers \in Nat
  /\ MaxLoops \in Nat
  /\ MaxFaults \in Nat

VARIABLES
  up,       \* the agents that run
  at,       \* at[n]: the address agent n has, or had when it last ran
  held,     \* held[n]: every address n ever had (history)
  peers,    \* peers[n][i]: n's row with id i (on disk), or NoRow
  sends,    \* heartbeats handed to the HTTP client and not yet served
  loops,    \* gossip loops of handlers and of callers
  replies,  \* answers on their way to the caller
  faults    \* faults so far

vars == <<up, at, held, peers, sends, loops, replies, faults>>

Send  == [call: Call, known: SUBSET Entry]
Reply == [call: Call, by: Node, known: SUBSET Entry]

\* duty is "reply" in a handler whose caller waits, "orphan" in one whose
\* caller gave up, and "own" in the loop the caller runs over the answer.
Loop  == [node: Node, call: Call, duty: {"reply", "orphan", "own"},
          todo: SUBSET Entry, adding: SUBSET Entry]

TypeOK ==
  /\ up \in SUBSET Node
  /\ at \in [Node -> Addr]
  /\ held \in [Node -> SUBSET Addr]
  /\ peers \in [Node -> [PeerId -> Row \cup {NoRow}]]
  /\ sends \in SUBSET Send
  /\ loops \in SUBSET Loop
  /\ replies \in SUBSET Reply
  /\ faults \in Nat

(***************************************************************************)
(* The peers table.                                                        *)
(***************************************************************************)
Rows(n) == {i \in PeerId : peers[n][i] # NoRow}

UpsertPeer(n, i, a, s) ==
  peers' = [peers EXCEPT ![n][i] = [addr |-> a, status |-> s]]

\* Mutant: only peers that were not in contact yet are passed on.
KnownPeersUnmet(n) ==
  {[id |-> i, addr |-> peers[n][i].addr] :
     i \in {j \in Rows(n) : peers[n][j].status = "unknown"}}

\* The KnownPeers of a heartbeat of n: one entry for every row.
KnownPeers(n) == {[id |-> i, addr |-> peers[n][i].addr] : i \in Rows(n)}

\* Mutant: the loop skips only the agent it talked to.
GossipWithSelf(known, n, m) == {e \in known : e.id # m}

\* The entries of a heartbeat of m that agent n looks at: not itself, and
\* not the agent it just talked to.
Gossip(known, n, m) == {e \in known : e.id \notin {n, m}}

(***************************************************************************)
(* An agent starts and stops.                                              *)
(***************************************************************************)
Init ==
  /\ up = {}
  /\ at = [n \in Node |-> CHOOSE a \in AddrOf[n] : TRUE]
  /\ held = [n \in Node |-> {}]
  /\ peers = [n \in Node |-> [i \in PeerId |-> NoRow]]
  /\ sends = {}
  /\ loops = {}
  /\ replies = {}
  /\ faults = 0

\* Mutant: the peers table is kept in memory and starts out empty.
StartWithoutTable(n, a) ==
  /\ n \notin up
  /\ a \in AddrOf[n]
  /\ \A m \in up : at[m] # a
  /\ up' = up \cup {n}
  /\ at' = [at EXCEPT ![n] = a]
  /\ held' = [held EXCEPT ![n] = @ \cup {a}]
  /\ peers' = [peers EXCEPT ![n] =
       [i \in PeerId |-> IF i \in InitialPeers[n]
                           THEN [addr |-> i, status |-> "unknown"]
                           ELSE NoRow]]
  /\ UNCHANGED <<sends, loops, replies, faults>>

\* n comes up at a, an address no running agent has.  The peers table is the
\* one on disk; each --peer address gets its row, new or overwritten.
Start(n, a) ==
  /\ n \notin up
  /\ a \in AddrOf[n]
  /\ \A m \in up : at[m] # a
  /\ up' = up \cup {n}
  /\ at' = [at EXCEPT ![n] = a]
  /\ held' = [held EXCEPT ![n] = @ \cup {a}]
  /\ peers' = [peers EXCEPT ![n] =
       [i \in PeerId |-> IF i \in InitialPeers[n]
                           THEN [addr |-> i, status |-> "unknown"]
                           ELSE peers[n][i]]]
  /\ UNCHANGED <<sends, loops, replies, faults>>

Fault ==
  /\ faults < MaxFaults
  /\ faults' = faults + 1

\* n stops with all its goroutines and connections.  A handler elsewhere that
\* serves a call of n is an orphan from now on.
Crash(n) ==
  /\ n \in up
  /\ Fault
  /\ up' = up \ {n}
  /\ sends' = {s \in sends : s.call.from # n}
  /\ replies' = {r \in replies : r.call.from # n}
  /\ loops' = {IF l.call.from = n THEN [l EXCEPT !.duty = "orphan"] ELSE l :
                 l \in {k \in loops : k.node # n}}
  /\ UNCHANGED <<at, held, peers>>

(***************************************************************************)
(* The caller: sendHeartbeats and sendToPeer.                              *)
(***************************************************************************)

\* The calls of n that its HTTP client still waits for.
Waiting(n) ==
  \/ \E s \in sends : s.call.from = n
  \/ \E r \in replies : r.call.from = n
  \/ \E l \in loops : l.call.from = n /\ l.duty = "reply"

\* One tick of the heartbeat ticker.  The peers are listed once: the rows to
\* call, the addresses to dial and the gossip in the body are of this moment.
\* A call lasts at most 10 s and a tick comes every 60 s, so the calls of the
\* tick before are over.
SendHeartbeats(n) ==
  /\ n \in up
  /\ ~Waiting(n)
  /\ Cardinality({m \in Node : Waiting(m)}) < MaxCallers
  /\ Rows(n) # {}
  /\ sends' = sends \cup
       {[call |-> [from |-> n, id |-> i, addr |-> peers[n][i].addr],
         known |-> KnownPeers(n)] : i \in Rows(n)}
  /\ UNCHANGED <<up, at, held, peers, loops, replies, faults>>

\* Nobody listens at the address: the call fails, and no peers row changes.
Refused(s) ==
  /\ \A m \in up : at[m] # s.call.addr
  /\ sends' = sends \ {s}
  /\ UNCHANGED <<up, at, held, peers, loops, replies, faults>>

\* The request is lost, or the caller gives up before it is served.
LoseRequest(s) ==
  /\ Fault
  /\ sends' = sends \ {s}
  /\ UNCHANGED <<up, at, held, peers, loops, replies>>

LoseReply(r) ==
  /\ Fault
  /\ replies' = replies \ {r}
  /\ UNCHANGED <<up, at, held, peers, sends, loops>>

\* The caller gives up while the handler runs.  The handler's context is
\* cancelled, which cuts the loop short, unless it goes unnoticed.
TimeOut(l) ==
  /\ l.duty = "reply"
  /\ Fault
  /\ \/ loops' = loops \ {l}
     \/ loops' = (loops \ {l}) \cup {[l EXCEPT !.duty = "orphan"]}
  /\ UNCHANGED <<up, at, held, peers, sends, replies>>

\* Mutant: the address is read from the row again instead of the one dialled.
ReceiveReadsRow(r) ==
  /\ Cardinality(loops) < MaxLoops
  /\ UpsertPeer(r.call.from, r.by, peers[r.call.from][r.call.id].addr, "online")
  /\ loops' = loops \cup
       {[node |-> r.call.from, call |-> r.call, duty |-> "own",
         todo |-> Gossip(r.known, r.call.from, r.by), adding |-> {}]}
  /\ replies' = replies \ {r}
  /\ UNCHANGED <<up, at, held, sends, faults>>

\* The answer arrives: the row of the agent that answered gets the address
\* that was dialled, and the gossip loop starts.
Receive(r) ==
  /\ Cardinality(loops) < MaxLoops
  /\ UpsertPeer(r.call.from, r.by, r.call.addr, "online")
  /\ loops' = loops \cup
       {[node |-> r.call.from, call |-> r.call, duty |-> "own",
         todo |-> Gossip(r.known, r.call.from, r.by), adding |-> {}]}
  /\ replies' = replies \ {r}
  /\ UNCHANGED <<up, at, held, sends, faults>>

(***************************************************************************)
(* The called agent: handleHeartbeat and handleRegister.                   *)
(***************************************************************************)

\* Mutant: the handler gossips and answers but does not store the caller.
ServeWithoutCaller(s, m) ==
  /\ m \in up
  /\ at[m] = s.call.addr
  /\ Cardinality(loops) < MaxLoops
  /\ loops' = loops \cup
       {[node |-> m, call |-> s.call, duty |-> "reply",
         todo |-> Gossip(s.known, m, s.call.from), adding |-> {}]}
  /\ sends' = sends \ {s}
  /\ UNCHANGED <<up, at, held, peers, replies, faults>>

\* Agent m, which is whoever has the dialled address now, serves the request:
\* the caller's row gets the address the request came from, and the gossip
\* loop starts.  m may be the caller itself.
Serve(s, m) ==
  /\ m \in up
  /\ at[m] = s.call.addr
  /\ Cardinality(loops) < MaxLoops
  /\ UpsertPeer(m, s.call.from, at[s.call.from], "online")
  /\ loops' = loops \cup
       {[node |-> m, call |-> s.call, duty |-> "reply",
         todo |-> Gossip(s.known, m, s.call.from), adding |-> {}]}
  /\ sends' = sends \ {s}
  /\ UNCHANGED <<up, at, held, replies, faults>>

\* Agent n is registered at m by hand (no code of the agent posts this).
Register(m, n) ==
  /\ <<m, n>> \in Posted
  /\ m \in up
  /\ n \in up
  /\ UpsertPeer(m, n, at[n], "online")
  /\ UNCHANGED <<up, at, held, sends, loops, replies, faults>>

(***************************************************************************)
(* The gossip loop, the same code in the caller and in the handler.        *)
(***************************************************************************)

\* The look-up of entry e finds nothing: the insert is what comes next.
GossipLookup(l, e) ==
  /\ l.adding = {}
  /\ e \in l.todo
  /\ peers[l.node][e.id] = NoRow
  /\ loops' = (loops \ {l}) \cup {[l EXCEPT !.todo = @ \ {e}, !.adding = {e}]}
  /\ UNCHANGED <<up, at, held, peers, sends, replies, faults>>

\* The insert: an upsert, whatever happened since the look-up.
GossipInsert(l) ==
  \E e \in l.adding :
    /\ UpsertPeer(l.node, e.id, e.addr, "unknown")
    /\ loops' = (loops \ {l}) \cup {[l EXCEPT !.adding = {}]}
    /\ UNCHANGED <<up, at, held, sends, replies, faults>>

\* Every entry left has a row (rows are never deleted, so the order in which
\* the look-ups found them does not matter).  A handler whose caller waits
\* answers with its own peer table.
GossipDone(l) ==
  /\ l.adding = {}
  /\ \A e \in l.todo : peers[l.node][e.id] # NoRow
  /\ loops' = loops \ {l}
  /\ replies' = IF l.duty = "reply"
                  THEN replies \cup {[call |-> l.call, by |-> l.node,
                                      known |-> KnownPeers(l.node)]}
                  ELSE replies
  /\ UNCHANGED <<up, at, held, peers, sends, faults>>

Next ==
  \/ \E n \in Node : \E a \in Addr : Start(n, a)
  \/ \E n \in Node : Crash(n)
  \/ \E n \in Node : SendHeartbeats(n)
  \/ \E s \in sends : Refused(s)
  \/ \E s \in sends : LoseRequest(s)
  \/ \E s \in sends : \E m \in Node : Serve(s, m)
  \/ \E m, n \in Node : Register(m, n)
  \/ \E l \in loops : \E e \in l.todo : GossipLookup(l, e)
  \/ \E l \in loops : GossipInsert(l)
  \/ \E l \in loops : GossipDone(l)
  \/ \E l \in loops : TimeOut(l)
  \/ \E r \in replies : Receive(r)
  \/ \E r \in replies : LoseReply(r)

Spec == Init /\ [][Next]_vars

(***************************************************************************)
(* Fairness: every agent is started and its ticker goes on; as long as     *)
(* requests or answers are under way some of them arrive; every goroutine  *)
(* gets to run.  MaxCallers only delays an agent's tick, which the code    *)
(* never holds back: hence strong fairness for it.  Faults are not fair.   *)
(***************************************************************************)
Arrive   == \E s \in sends : Refused(s) \/ \E m \in Node : Serve(s, m)
Answered == \E r \in replies : Receive(r)

Gossips(n) ==
  \E l \in loops : /\ l.node = n
                   /\ \/ GossipInsert(l)
                      \/ GossipDone(l)
                      \/ \E e \in l.todo : GossipLookup(l, e)

Fairness ==
  /\ WF_vars(Arrive)
  /\ WF_vars(Answered)
  /\ \A n \in Node : /\ WF_vars(\E a \in Addr : Start(n, a))
                     /\ SF_vars(SendHeartbeats(n))
                     /\ WF_vars(Gossips(n))

FairSpec == Spec /\ Fairness

(***************************************************************************)
(* Properties.                                                             *)
(***************************************************************************)

\* The addresses that are right for a row: those the agent ever had, and for
\* the row of a --peer flag its own address.
HeldBy(i) == IF i \in Node THEN held[i] ELSE {i}

\* Whatever was lost, reordered or repeated, and whoever moved to another
\* address or took over somebody's old one: the address in a row was once an
\* address of the very agent the row is about, so a row may be out of date but
\* never points at a stranger's address (heartbeat.go:181-191, 198-213,
\* handlers.go:89-130).
AddressesWereHeld ==
  \A n \in Node : \A i \in Rows(n) : peers[n][i].addr \in HeldBy(i)

\* An agent that answers a heartbeat has the caller in its own table first, so
\* when a caller learns of a peer through an answer the peer can call back,
\* even if both restart in between (handlers.go:100-108 before 132-170).
AnsweredCallerIsKnown ==
  \A r \in replies : r.call.from \in Rows(r.by)

\* The gossip filters keep an agent from becoming its own peer, except through
\* the row of a --peer flag that names one of its addresses, or through an
\* address that two agents can have (heartbeat.go:200-202, handlers.go:117-119).
ExclusiveAddresses ==
  \A n, m \in Node : n # m => AddrOf[n] \cap AddrOf[m] = {}

SelfRowOnlyThroughPending ==
  ExclusiveAddresses =>
    \A n \in Node : n \in Rows(n) => \E a \in AddrOf[n] : a \in Rows(n)

\* However few --peer flags there are, as long as they connect the agents, and
\* whatever was lost or restarted before, in the end every agent has every
\* other one in its table as online, for good: gossip completes the mesh, and
\* no later exchange or insert undoes it (heartbeat.go:85-216, handlers.go:66-171).
Converged ==
  \A n, m \in Node : n # m => m \in Rows(n) /\ peers[n][m].status = "online"

MeshCompletes == <>[]Converged

\* Discovery as a whole does what PeerDiscovery promises: entries come from an
\* operator, from contact or from another table, and none is ever lost.
Discovery == INSTANCE PeerDiscovery WITH
  Node <- Node, Seed <- Addr, knows <- [n \in Node |-> Rows(n)]

ImplementsDiscovery == Discovery!Spec

=============================================================================
