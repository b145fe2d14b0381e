----------------------------- MODULE MeshProofs -----------------------------
(***************************************************************************)
(* Proofs about Mesh, for every set of agents and addresses, every choice  *)
(* of --peer flags and every bound.                                        *)
(***************************************************************************)
EXTENDS Mesh, TLAPS

(***************************************************************************)
(* Type correctness.                                                       *)
(***************************************************************************)

\* An upsert of a well-formed row keeps the table well-formed.
LEMMA UpsertType ==
  ASSUME TypeOK, NEW n \in Node, NEW i \in PeerId, NEW a \in Addr,
         NEW s \in {"online", "unknown"}, UpsertPeer(n, i, a, s)
  PROVE  peers' \in [Node -> [PeerId -> Row \cup {NoRow}]]
  BY DEF TypeOK, UpsertPeer, Row

\* The gossip of a heartbeat is a set of entries.
LEMMA KnownPeersType ==
  ASSUME TypeOK, NEW n \in Node
  PROVE  KnownPeers(n) \in SUBSET Entry
<1> SUFFICES ASSUME NEW i \in Rows(n)
             PROVE  [id |-> i, addr |-> peers[n][i].addr] \in Entry
  BY DEF KnownPeers
<1>1. i \in PeerId /\ peers[n][i] \in Row
  BY DEF Rows, TypeOK
<1> QED BY <1>1 DEF Entry, Row

\* What the steps of a gossip loop do to its record leaves it well-formed.
LEMMA LoopEdits ==
  ASSUME NEW l \in Loop, NEW d \in {"reply", "orphan", "own"},
         NEW t \in SUBSET Entry, NEW a \in SUBSET Entry
  PROVE  /\ [l EXCEPT !.duty = d] \in Loop
         /\ [l EXCEPT !.adding = a] \in Loop
         /\ [l EXCEPT !.todo = t, !.adding = a] \in Loop
  BY DEF Loop

LEMMA InitType == Init => TypeOK
<1> SUFFICES ASSUME Init PROVE TypeOK
  OBVIOUS
<1>1. at \in [Node -> Addr]
  BY MeshAssumption DEF Init
<1> QED BY <1>1 DEF Init, TypeOK, Send, Loop, Reply

LEMMA StepType == TypeOK /\ [Next]_vars => TypeOK'
<1> SUFFICES ASSUME TypeOK, [Next]_vars PROVE TypeOK'
  OBVIOUS
<1>1. ASSUME NEW n \in Node, NEW a \in Addr, Start(n, a) PROVE TypeOK'
  <2>1. peers' \in [Node -> [PeerId -> Row \cup {NoRow}]]
    BY <1>1, MeshAssumption DEF Start, TypeOK, PeerId, Row
  <2> QED BY <1>1, <2>1 DEF Start, TypeOK
<1>2. ASSUME NEW n \in Node, Crash(n) PROVE TypeOK'
  <2>1. \A l \in loops : l \in Loop /\ [l EXCEPT !.duty = "orphan"] \in Loop
    BY LoopEdits DEF TypeOK
  <2>2. loops' \in SUBSET Loop
    BY <1>2, <2>1 DEF Crash
  <2> QED BY <1>2, <2>2 DEF Crash, Fault, TypeOK
<1>3. ASSUME NEW n \in Node, SendHeartbeats(n) PROVE TypeOK'
  <2>1. ASSUME NEW i \in Rows(n)
        PROVE  [call |-> [from |-> n, id |-> i, addr |-> peers[n][i].addr],
                known |-> KnownPeers(n)] \in Send
    <3>1. i \in PeerId /\ peers[n][i].addr \in Addr
      BY DEF Rows, TypeOK, Row
    <3> QED BY <3>1, KnownPeersType DEF Send, Call
  <2>2. sends' \in SUBSET Send
    BY <1>3, <2>1 DEF SendHeartbeats, TypeOK
  <2> QED BY <1>3, <2>2 DEF SendHeartbeats, TypeOK
<1>4. ASSUME NEW s \in sends, Refused(s) \/ LoseRequest(s) PROVE TypeOK'
  BY <1>4 DEF Refused, LoseRequest, Fault, TypeOK
<1>5. ASSUME NEW s \in sends, NEW m \in Node, Serve(s, m) PROVE TypeOK'
  <2>1. s.call \in Call /\ s.known \in SUBSET Entry /\ s.call.from \in Node
    BY DEF TypeOK, Send, Call
  <2>2. peers' \in [Node -> [PeerId -> Row \cup {NoRow}]]
    BY <1>5, <2>1, UpsertType DEF Serve, TypeOK, PeerId
  <2>3. loops' \in SUBSET Loop
    BY <1>5, <2>1 DEF Serve, TypeOK, Loop, Gossip
  <2> QED BY <1>5, <2>2, <2>3 DEF Serve, TypeOK
<1>6. ASSUME NEW m \in Node, NEW n \in Node, Register(m, n) PROVE TypeOK'
  <2>1. peers' \in [Node -> [PeerId -> Row \cup {NoRow}]]
    BY <1>6, UpsertType DEF Register, TypeOK, PeerId
  <2> QED BY <1>6, <2>1 DEF Register, TypeOK
<1>7. ASSUME NEW l \in loops, NEW e \in l.todo, GossipLookup(l, e) PROVE TypeOK'
  <2>1. l \in Loop /\ l.todo \ {e} \in SUBSET Entry /\ {e} \in SUBSET Entry
    BY DEF TypeOK, Loop
  <2>2. [l EXCEPT !.todo = @ \ {e}, !.adding = {e}] \in Loop
    BY <2>1, LoopEdits
  <2>3. loops' \in SUBSET Loop
    BY <1>7, <2>2 DEF GossipLookup, TypeOK
  <2> QED BY <1>7, <2>3 DEF GossipLookup, TypeOK
<1>8. ASSUME NEW l \in loops, GossipInsert(l) PROVE TypeOK'
  <2>1. PICK e \in l.adding : UpsertPeer(l.node, e.id, e.addr, "unknown")
    BY <1>8 DEF GossipInsert
  <2>2. l.node \in Node /\ e.id \in PeerId /\ e.addr \in Addr
    BY DEF TypeOK, Loop, Entry
  <2>3. peers' \in [Node -> [PeerId -> Row \cup {NoRow}]]
    BY <2>1, <2>2, UpsertType
  <2>4. [l EXCEPT !.adding = {}] \in Loop
    BY LoopEdits DEF TypeOK
  <2>5. loops' \in SUBSET Loop
    BY <1>8, <2>4 DEF GossipInsert, TypeOK
  <2> QED BY <1>8, <2>3, <2>5 DEF GossipInsert, TypeOK
<1>9. ASSUME NEW l \in loops, GossipDone(l) PROVE TypeOK'
  <2>1. l.call \in Call /\ l.node \in Node
    BY DEF TypeOK, Loop
  <2>2. [call |-> l.call, by |-> l.node, known |-> KnownPeers(l.node)] \in Reply
    BY <2>1, KnownPeersType DEF Reply
  <2>3. replies' \in SUBSET Reply
    BY <1>9, <2>2 DEF GossipDone, TypeOK
  <2> QED BY <1>9, <2>3 DEF GossipDone, TypeOK
<1>10. ASSUME NEW l \in loops, TimeOut(l) PROVE TypeOK'
  <2>1. l \in Loop /\ [l EXCEPT !.duty = "orphan"] \in Loop
    BY LoopEdits DEF TypeOK
  <2>2. loops' \in SUBSET Loop
    BY <1>10, <2>1 DEF TimeOut, TypeOK
  <2> QED BY <1>10, <2>2 DEF TimeOut, Fault, TypeOK
<1>11. ASSUME NEW r \in replies, Receive(r) PROVE TypeOK'
  <2>1. r.call \in Call /\ r.by \in Node /\ r.known \in SUBSET Entry
    BY DEF TypeOK, Reply
  <2>2. r.call.from \in Node /\ r.call.addr \in Addr
    BY <2>1 DEF Call
  <2>3. peers' \in [Node -> [PeerId -> Row \cup {NoRow}]]
    BY <1>11, <2>1, <2>2, UpsertType DEF Receive, PeerId
  <2>4. loops' \in SUBSET Loop
    BY <1>11, <2>1, <2>2 DEF Receive, TypeOK, Loop, Gossip
  <2> QED BY <1>11, <2>3, <2>4 DEF Receive, TypeOK
<1>12. ASSUME NEW r \in replies, LoseReply(r) PROVE TypeOK'
  BY <1>12 DEF LoseReply, Fault, TypeOK
<1>13. CASE UNCHANGED vars
  BY <1>13 DEF vars, TypeOK
<1> QED
  BY <1>1, <1>2, <1>3, <1>4, <1>5, <1>6, <1>7, <1>8, <1>9, <1>10, <1>11,
     <1>12, <1>13 DEF Next

\* Every variable keeps its type, whatever the constants.
THEOREM TypeCorrect == Spec => []TypeOK
  BY InitType, StepType, PTL DEF Spec

(***************************************************************************)
(* The inductive invariant.  A row gets its address from one of three      *)
(* places: the operator, a call or an entry of somebody's gossip.  So what *)
(* has to be said of the rows must be said of every call and every entry   *)
(* that is under way, in a request, in a loop or in an answer, and also    *)
(* that nobody lives at an address without having held it.                 *)
(***************************************************************************)

\* A gossip entry: an address its agent held, copied from somebody's row.
EntrySound(e) ==
  /\ e.addr \in HeldBy(e.id)
  /\ \E m \in Node : e.id \in Rows(m)

\* A call: to an address its row's agent held, made for a row of the caller.
CallSound(c) ==
  /\ c.addr \in HeldBy(c.id)
  /\ c.id \in Rows(c.from)

AgentsSound ==
  \A n \in Node : held[n] \subseteq AddrOf[n] /\ (n \in up => at[n] \in held[n])

SendsSound ==
  \A s \in sends : /\ s.call.from \in up
                   /\ CallSound(s.call)
                   /\ \A e \in s.known : EntrySound(e)

LoopsSound ==
  \A l \in loops :
    /\ \A e \in l.todo \cup l.adding : EntrySound(e) /\ e.id # l.node
    /\ l.duty = "reply" => /\ CallSound(l.call)
                           /\ l.call.addr \in held[l.node]
                           /\ l.call.from \in Rows(l.node)

RepliesSound ==
  \A r \in replies : /\ CallSound(r.call)
                     /\ r.call.addr \in held[r.by]
                     /\ \A e \in r.known : EntrySound(e)

IInv ==
  /\ TypeOK
  /\ AgentsSound
  /\ SendsSound
  /\ LoopsSound
  /\ RepliesSound
  /\ AddressesWereHeld
  /\ AnsweredCallerIsKnown
  /\ SelfRowOnlyThroughPending

\* A step other than an upsert of a row that is there already only adds rows
\* and held addresses.
LEMMA Growth ==
  ASSUME TypeOK, [Next]_vars
  PROVE  /\ \A n \in Node : Rows(n) \subseteq Rows(n)'
         /\ \A n \in Node : held[n] \subseteq held'[n]
<1>1. ASSUME NEW n \in Node, NEW i \in PeerId, NEW a \in Addr,
             NEW s \in {"online", "unknown"}, UpsertPeer(n, i, a, s)
      PROVE  \A m \in Node : Rows(m) \subseteq Rows(m)'
  <2>1. [addr |-> a, status |-> s] # NoRow
    BY MeshAssumption DEF Row
  <2> QED BY <1>1, <2>1 DEF UpsertPeer, Rows, TypeOK
<1>2. ASSUME NEW n \in Node, NEW a \in Addr, Start(n, a)
      PROVE  /\ \A m \in Node : Rows(m) \subseteq Rows(m)'
             /\ \A m \in Node : held[m] \subseteq held'[m]
  <2>1. \A i \in Addr : [addr |-> i, status |-> "unknown"] # NoRow
    BY MeshAssumption DEF Row
  <2>2. InitialPeers[n] \subseteq Addr
    BY MeshAssumption
  <2>3. \A m \in Node : Rows(m) \subseteq Rows(m)'
    BY <1>2, <2>1, <2>2 DEF Start, Rows, TypeOK
  <2> QED BY <1>2, <2>3 DEF Start, TypeOK
<1>3. ASSUME NEW s \in sends, NEW m \in Node, Serve(s, m)
      PROVE  \A n \in Node : Rows(n) \subseteq Rows(n)'
  <2>1. s.call.from \in Node /\ at[s.call.from] \in Addr
    BY DEF TypeOK, Send, Call
  <2> QED BY <1>1, <1>3, <2>1 DEF Serve, PeerId
<1>4. ASSUME NEW m \in Node, NEW n \in Node, Register(m, n)
      PROVE  \A k \in Node : Rows(k) \subseteq Rows(k)'
  BY <1>1, <1>4 DEF Register, PeerId, TypeOK
<1>5. ASSUME NEW l \in loops, GossipInsert(l)
      PROVE  \A n \in Node : Rows(n) \subseteq Rows(n)'
  <2>1. PICK e \in l.adding : UpsertPeer(l.node, e.id, e.addr, "unknown")
    BY <1>5 DEF GossipInsert
  <2>2. l.node \in Node /\ e.id \in PeerId /\ e.addr \in Addr
    BY DEF TypeOK, Loop, Entry
  <2> QED BY <1>1, <2>1, <2>2
<1>6. ASSUME NEW r \in replies, Receive(r)
      PROVE  \A n \in Node : Rows(n) \subseteq Rows(n)'
  <2>1. r.call.from \in Node /\ r.by \in PeerId /\ r.call.addr \in Addr
    BY DEF TypeOK, Reply, Call, PeerId
  <2> QED BY <1>1, <1>6, <2>1 DEF Receive
<1> QED
  BY <1>2, <1>3, <1>4, <1>5, <1>6
  DEF Next, vars, Rows, Crash, SendHeartbeats, Refused, LoseRequest, Serve,
      Register, GossipLookup, GossipInsert, GossipDone, TimeOut, Receive,
      LoseReply

\* So what was sound about an entry or a call that is under way stays sound.
LEMMA EntryStaysSound ==
  ASSUME TypeOK, [Next]_vars, NEW e \in Entry, EntrySound(e)
  PROVE  EntrySound(e)'
  BY Growth DEF EntrySound, HeldBy, Entry

LEMMA CallStaysSound ==
  ASSUME TypeOK, [Next]_vars, NEW c \in Call, CallSound(c)
  PROVE  CallSound(c)'
  BY Growth DEF CallSound, HeldBy, Call

\* What an agent tells of its own table is sound.
LEMMA KnownPeersSound ==
  ASSUME IInv, NEW n \in Node
  PROVE  \A e \in KnownPeers(n) : e \in Entry /\ EntrySound(e)
<1> SUFFICES ASSUME NEW i \in Rows(n)
             PROVE  LET e == [id |-> i, addr |-> peers[n][i].addr]
                    IN  e \in Entry /\ EntrySound(e)
  BY DEF KnownPeers
<1>1. i \in PeerId /\ peers[n][i] \in Row
  BY DEF Rows, IInv, TypeOK
<1>2. peers[n][i].addr \in HeldBy(i)
  BY DEF IInv, AddressesWereHeld
<1> QED BY <1>1, <1>2 DEF Entry, Row, EntrySound

LEMMA AgentsSoundStep ==
  ASSUME IInv, [Next]_vars
  PROVE  AgentsSound'
<1> USE DEF IInv, TypeOK, AgentsSound
<1>1. ASSUME NEW n \in Node, NEW a \in Addr, Start(n, a) PROVE AgentsSound'
  BY <1>1 DEF Start
<1>2. ASSUME NEW n \in Node, Crash(n) PROVE AgentsSound'
  BY <1>2 DEF Crash
<1> QED
  BY <1>1, <1>2
  DEF Next, vars, SendHeartbeats, Refused, LoseRequest, Serve, Register,
      GossipLookup, GossipInsert, GossipDone, TimeOut, Receive, LoseReply

\* Records under way that a step leaves alone stay sound.
LEMMA SendStaysSound ==
  ASSUME IInv, [Next]_vars, NEW s \in sends
  PROVE  CallSound(s.call)' /\ \A e \in s.known : EntrySound(e)'
<1>1. s.call \in Call /\ s.known \subseteq Entry
  BY DEF IInv, TypeOK, Send
<1> QED BY <1>1, CallStaysSound, EntryStaysSound DEF IInv, SendsSound

LEMMA SendsSoundStep ==
  ASSUME IInv, [Next]_vars
  PROVE  SendsSound'
<1>1. \A s \in sends : CallSound(s.call)' /\ \A e \in s.known : EntrySound(e)'
  BY SendStaysSound
<1>2. ASSUME NEW n \in Node, SendHeartbeats(n) PROVE SendsSound'
  <2>1. ASSUME NEW i \in Rows(n), NEW c,
               c = [from |-> n, id |-> i, addr |-> peers[n][i].addr]
        PROVE  c \in Call /\ CallSound(c)
    <3>1. i \in PeerId /\ peers[n][i] \in Row
      BY DEF Rows, IInv, TypeOK
    <3>2. peers[n][i].addr \in HeldBy(i)
      BY DEF IInv, AddressesWereHeld
    <3> QED BY <2>1, <3>1, <3>2 DEF Call, Row, CallSound
  <2>2. \A s \in sends' \ sends : CallSound(s.call)' /\ s.call.from = n
    BY <1>2, <2>1, CallStaysSound DEF SendHeartbeats, IInv
  <2>3. \A e \in KnownPeers(n) : EntrySound(e)'
    BY KnownPeersSound, EntryStaysSound DEF IInv
  <2>4. \A s \in sends' \ sends : \A e \in s.known : EntrySound(e)'
    BY <1>2, <2>3 DEF SendHeartbeats
  <2> QED BY <1>1, <1>2, <2>2, <2>4 DEF SendHeartbeats, SendsSound, IInv
<1>3. ASSUME NEW n \in Node, Crash(n) PROVE SendsSound'
  BY <1>1, <1>3 DEF Crash, SendsSound, IInv
<1>4. CASE sends' \subseteq sends /\ up \subseteq up'
  BY <1>1, <1>4 DEF SendsSound, IInv
<1> QED
  BY <1>2, <1>3, <1>4
  DEF Next, vars, Start, Refused, LoseRequest, Serve, Register,
      GossipLookup, GossipInsert, GossipDone, TimeOut, Receive, LoseReply

\* What LoopsSound says of one loop, so that it can be said of a new one.
LoopSound(l) ==
  /\ \A e \in l.todo \cup l.adding : EntrySound(e) /\ e.id # l.node
  /\ l.duty = "reply" => /\ CallSound(l.call)
                         /\ l.call.addr \in held[l.node]
                         /\ l.call.from \in Rows(l.node)

LEMMA LoopStaysSound ==
  ASSUME IInv, [Next]_vars, NEW l \in loops
  PROVE  LoopSound(l)'
<1>1. l.todo \cup l.adding \subseteq Entry /\ l.call \in Call /\ l.node \in Node
  BY DEF IInv, TypeOK, Loop
<1>2. \A e \in l.todo \cup l.adding : EntrySound(e)' /\ e.id # l.node
  BY <1>1, EntryStaysSound DEF IInv, LoopsSound
<1>3. l.duty = "reply" => /\ CallSound(l.call)'
                          /\ l.call.addr \in held'[l.node]
                          /\ l.call.from \in Rows(l.node)'
  BY <1>1, CallStaysSound, Growth DEF IInv, LoopsSound
<1> QED BY <1>2, <1>3 DEF LoopSound

LEMMA LoopsSoundStep ==
  ASSUME IInv, [Next]_vars
  PROVE  LoopsSound'
<1> SUFFICES \A l \in loops' : LoopSound(l)'
  BY DEF LoopsSound, LoopSound
<1>1. \A l \in loops : LoopSound(l)'
  BY LoopStaysSound
<1>2. ASSUME NEW n \in Node, Crash(n) PROVE \A l \in loops' : LoopSound(l)'
  <2>1. \A l \in loops : LoopSound([l EXCEPT !.duty = "orphan"])'
    BY <1>1 DEF LoopSound, IInv, TypeOK, Loop
  <2> QED BY <1>1, <1>2, <2>1 DEF Crash
<1>3. ASSUME NEW s \in sends, NEW m \in Node, Serve(s, m)
      PROVE  \A l \in loops' : LoopSound(l)'
  <2> DEFINE new == [node |-> m, call |-> s.call, duty |-> "reply",
                     todo |-> Gossip(s.known, m, s.call.from), adding |-> {}]
  <2>1. s.call \in Call /\ s.call.from \in Node /\ at[s.call.from] \in Addr
    BY DEF IInv, TypeOK, Send, Call
  <2>2. CallSound(s.call)' /\ \A e \in s.known : EntrySound(e)'
    BY SendStaysSound
  <2>3. s.call.addr \in held'[m]
    BY <1>3 DEF Serve, IInv, AgentsSound
  <2>4. s.call.from \in Rows(m)'
    <3>1. [addr |-> at[s.call.from], status |-> "online"] # NoRow
      BY <2>1, MeshAssumption DEF Row
    <3> QED BY <1>3, <2>1, <3>1 DEF Serve, UpsertPeer, Rows, PeerId, IInv, TypeOK
  <2>5. LoopSound(new)'
    BY <2>2, <2>3, <2>4 DEF LoopSound, Gossip
  <2> QED BY <1>1, <1>3, <2>5 DEF Serve
<1>4. ASSUME NEW l \in loops, NEW e \in l.todo, GossipLookup(l, e)
      PROVE  \A k \in loops' : LoopSound(k)'
  <2>1. l \in Loop /\ LoopSound(l)'
    BY <1>1 DEF IInv, TypeOK
  <2>2. LoopSound([l EXCEPT !.todo = @ \ {e}, !.adding = {e}])'
    BY <2>1 DEF LoopSound, Loop
  <2> QED BY <1>1, <1>4, <2>2 DEF GossipLookup
<1>5. ASSUME NEW l \in loops, GossipInsert(l) PROVE \A k \in loops' : LoopSound(k)'
  <2>1. l \in Loop /\ LoopSound(l)'
    BY <1>1 DEF IInv, TypeOK
  <2>2. LoopSound([l EXCEPT !.adding = {}])'
    BY <2>1 DEF LoopSound, Loop
  <2> QED BY <1>1, <1>5, <2>2 DEF GossipInsert
<1>6. ASSUME NEW l \in loops, TimeOut(l) PROVE \A k \in loops' : LoopSound(k)'
  <2>1. l \in Loop /\ LoopSound(l)'
    BY <1>1 DEF IInv, TypeOK
  <2>2. LoopSound([l EXCEPT !.duty = "orphan"])'
    BY <2>1 DEF LoopSound, Loop
  <2> QED BY <1>1, <1>6, <2>2 DEF TimeOut
<1>7. ASSUME NEW r \in replies, Receive(r) PROVE \A l \in loops' : LoopSound(l)'
  <2> DEFINE new == [node |-> r.call.from, call |-> r.call, duty |-> "own",
                     todo |-> Gossip(r.known, r.call.from, r.by), adding |-> {}]
  <2>1. r.known \subseteq Entry
    BY DEF IInv, TypeOK, Reply
  <2>2. \A e \in r.known : EntrySound(e)'
    BY <2>1, EntryStaysSound DEF IInv, RepliesSound
  <2>3. LoopSound(new)'
    BY <2>2 DEF LoopSound, Gossip
  <2> QED BY <1>1, <1>7, <2>3 DEF Receive
<1>8. CASE loops' \subseteq loops
  BY <1>1, <1>8
<1> QED
  BY <1>2, <1>3, <1>4, <1>5, <1>6, <1>7, <1>8
  DEF Next, vars, Start, SendHeartbeats, Refused, LoseRequest, Register,
      GossipDone, LoseReply

LEMMA RepliesSoundStep ==
  ASSUME IInv, [Next]_vars
  PROVE  RepliesSound' /\ AnsweredCallerIsKnown'
<1>1. ASSUME NEW r \in replies
      PROVE  /\ CallSound(r.call)'
             /\ r.call.addr \in held'[r.by]
             /\ r.call.from \in Rows(r.by)'
             /\ \A e \in r.known : EntrySound(e)'
  <2>1. r.call \in Call /\ r.by \in Node /\ r.known \subseteq Entry
    BY DEF IInv, TypeOK, Reply
  <2> QED
    BY <2>1, CallStaysSound, EntryStaysSound, Growth
    DEF IInv, RepliesSound, AnsweredCallerIsKnown
<1>2. ASSUME NEW l \in loops, GossipDone(l)
      PROVE  RepliesSound' /\ AnsweredCallerIsKnown'
  <2>1. LoopSound(l)' /\ l.node \in Node
    BY LoopStaysSound DEF IInv, TypeOK, Loop
  <2>2. \A e \in KnownPeers(l.node) : EntrySound(e)'
    BY <2>1, KnownPeersSound, EntryStaysSound DEF IInv
  <2> QED
    BY <1>1, <1>2, <2>1, <2>2
    DEF GossipDone, LoopSound, RepliesSound, AnsweredCallerIsKnown
<1>3. CASE replies' \subseteq replies
  BY <1>1, <1>3 DEF RepliesSound, AnsweredCallerIsKnown
<1> QED
  BY <1>2, <1>3
  DEF Next, vars, Start, Crash, SendHeartbeats, Refused, LoseRequest, Serve,
      Register, GossipLookup, GossipInsert, TimeOut, Receive, LoseReply

LEMMA AddressesStep ==
  ASSUME IInv, [Next]_vars
  PROVE  AddressesWereHeld'
<1>1. \A n \in Node : \A i \in Rows(n) : peers[n][i].addr \in HeldBy(i)'
  BY Growth DEF IInv, AddressesWereHeld, HeldBy, Rows, PeerId
<1>2. ASSUME NEW n \in Node, NEW i \in PeerId, NEW a \in Addr,
             NEW s \in {"online", "unknown"}, UpsertPeer(n, i, a, s),
             a \in HeldBy(i)'
      PROVE  AddressesWereHeld'
  BY <1>1, <1>2 DEF UpsertPeer, AddressesWereHeld, IInv, TypeOK, Rows
<1>3. ASSUME NEW n \in Node, NEW a \in Addr, Start(n, a)
      PROVE  AddressesWereHeld'
  <2>1. InitialPeers[n] \subseteq Addr /\ Node \cap Addr = {}
    BY MeshAssumption
  <2>2. \A i \in Addr : HeldBy(i)' = {i}
    BY <2>1 DEF HeldBy
  <2>3. \A m \in Node : m # n => peers'[m] = peers[m]
    BY <1>3 DEF Start, IInv, TypeOK
  <2>4. \A i \in PeerId : \/ peers'[n][i] = peers[n][i]
                          \/ i \in Addr /\ peers'[n][i].addr = i
    BY <1>3, <2>1 DEF Start, IInv, TypeOK
  <2> QED BY <1>1, <2>2, <2>3, <2>4 DEF AddressesWereHeld, Rows
<1>4. ASSUME NEW s \in sends, NEW m \in Node, Serve(s, m)
      PROVE  AddressesWereHeld'
  <2>1. s.call.from \in Node /\ at[s.call.from] \in Addr
    BY DEF IInv, TypeOK, Send, Call
  <2>2. at[s.call.from] \in HeldBy(s.call.from)'
    BY <1>4, <2>1 DEF Serve, IInv, SendsSound, AgentsSound, HeldBy
  <2> QED BY <1>2, <1>4, <2>1, <2>2 DEF Serve, PeerId
<1>5. ASSUME NEW m \in Node, NEW n \in Node, Register(m, n)
      PROVE  AddressesWereHeld'
  <2>1. at[n] \in Addr /\ at[n] \in HeldBy(n)'
    BY <1>5 DEF Register, IInv, TypeOK, AgentsSound, HeldBy
  <2> QED BY <1>2, <1>5, <2>1 DEF Register, PeerId
<1>6. ASSUME NEW l \in loops, GossipInsert(l) PROVE AddressesWereHeld'
  <2>1. PICK e \in l.adding : UpsertPeer(l.node, e.id, e.addr, "unknown")
    BY <1>6 DEF GossipInsert
  <2>2. l.node \in Node /\ e \in Entry /\ e.id \in PeerId /\ e.addr \in Addr
    BY DEF IInv, TypeOK, Loop, Entry
  <2>3. EntrySound(e)'
    BY <2>2, EntryStaysSound DEF IInv, LoopsSound
  <2> QED BY <1>2, <2>1, <2>2, <2>3 DEF EntrySound
<1>7. ASSUME NEW r \in replies, Receive(r) PROVE AddressesWereHeld'
  <2>1. /\ r.call.from \in Node
        /\ r.by \in Node
        /\ r.call.addr \in Addr
    BY DEF IInv, TypeOK, Reply, Call
  <2>2. r.call.addr \in HeldBy(r.by)'
    BY <1>7, <2>1 DEF Receive, IInv, RepliesSound, HeldBy
  <2> QED BY <1>2, <1>7, <2>1, <2>2 DEF Receive, PeerId
<1>8. CASE UNCHANGED peers
  BY <1>1, <1>8 DEF AddressesWereHeld, Rows
<1> QED
  BY <1>3, <1>4, <1>5, <1>6, <1>7, <1>8
  DEF Next, vars, Crash, SendHeartbeats, Refused, LoseRequest, GossipLookup,
      GossipDone, TimeOut, LoseReply

\* A call that reaches its caller's own address was made for the caller's row
\* for itself, or for the row of a --peer flag.
LEMMA OwnCall ==
  ASSUME IInv, ExclusiveAddresses, NEW c \in Call, CallSound(c),
         c.addr \in AddrOf[c.from]
  PROVE  \E a \in AddrOf[c.from] : a \in Rows(c.from)
<1>1. CASE c.id \in Node
  <2>1. c.addr \in AddrOf[c.id]
    BY <1>1 DEF IInv, CallSound, HeldBy, AgentsSound
  <2>2. c.id = c.from
    BY <1>1, <2>1 DEF ExclusiveAddresses, Call
  <2> QED BY <2>2 DEF IInv, SelfRowOnlyThroughPending, CallSound, Call
<1>2. CASE c.id \notin Node
  BY <1>2 DEF CallSound, HeldBy, Call
<1> QED BY <1>1, <1>2

LEMMA SelfRowStep ==
  ASSUME IInv, [Next]_vars
  PROVE  SelfRowOnlyThroughPending'
<1> SUFFICES ASSUME ExclusiveAddresses, NEW n \in Node, n \in Rows(n)'
             PROVE  \E a \in AddrOf[n] : a \in Rows(n)'
  BY DEF SelfRowOnlyThroughPending, ExclusiveAddresses
<1>1. SUFFICES n \in Rows(n) \/ \E a \in AddrOf[n] : a \in Rows(n)
  BY Growth DEF IInv, SelfRowOnlyThroughPending
<1>2. ASSUME NEW m \in Node, NEW i \in PeerId, NEW a, NEW s,
             UpsertPeer(m, i, a, s), m = n => i # n
      PROVE  n \in Rows(n)
  BY <1>2 DEF UpsertPeer, Rows, IInv, TypeOK
<1>3. ASSUME NEW m \in Node, NEW a \in Addr, Start(m, a) PROVE n \in Rows(n)
  BY <1>3, MeshAssumption DEF Start, Rows, IInv, TypeOK
<1>4. ASSUME NEW s \in sends, NEW m \in Node, Serve(s, m)
      PROVE  n \in Rows(n) \/ \E a \in AddrOf[n] : a \in Rows(n)
  <2>1. s.call \in Call /\ s.call.from \in Node /\ CallSound(s.call)
    BY DEF IInv, TypeOK, Send, Call, SendsSound
  <2>2. s.call.addr \in AddrOf[m]
    BY <1>4 DEF Serve, IInv, AgentsSound
  <2>3. CASE m = n /\ s.call.from = n
    BY <2>1, <2>2, <2>3, OwnCall
  <2>4. CASE ~(m = n /\ s.call.from = n)
    BY <1>2, <1>4, <2>1, <2>4 DEF Serve, PeerId
  <2> QED BY <2>3, <2>4
<1>5. ASSUME NEW m \in Node, NEW k \in Node, Register(m, k) PROVE n \in Rows(n)
  <2>1. m # k
    BY <1>5, MeshAssumption DEF Register
  <2> QED BY <1>2, <1>5, <2>1 DEF Register, PeerId
<1>6. ASSUME NEW l \in loops, GossipInsert(l) PROVE n \in Rows(n)
  <2>1. PICK e \in l.adding : UpsertPeer(l.node, e.id, e.addr, "unknown")
    BY <1>6 DEF GossipInsert
  <2>2. l.node \in Node /\ e.id \in PeerId /\ e.id # l.node
    BY DEF IInv, TypeOK, Loop, Entry, LoopsSound
  <2> QED BY <1>2, <2>1, <2>2
<1>7. ASSUME NEW r \in replies, Receive(r)
      PROVE  n \in Rows(n) \/ \E a \in AddrOf[n] : a \in Rows(n)
  <2>1. /\ r.call \in Call
        /\ r.call.from \in Node
        /\ r.by \in Node
        /\ CallSound(r.call)
    BY DEF IInv, TypeOK, Reply, Call, RepliesSound
  <2>2. r.call.addr \in AddrOf[r.by]
    BY <2>1 DEF IInv, RepliesSound, AgentsSound
  <2>3. CASE r.by = n /\ r.call.from = n
    BY <2>1, <2>2, <2>3, OwnCall
  <2>4. CASE ~(r.by = n /\ r.call.from = n)
    BY <1>2, <1>7, <2>1, <2>4 DEF Receive, PeerId
  <2> QED BY <2>3, <2>4
<1>8. CASE UNCHANGED peers
  BY <1>8 DEF Rows
<1> QED
  BY <1>3, <1>4, <1>5, <1>6, <1>7, <1>8
  DEF Next, vars, Crash, SendHeartbeats, Refused, LoseRequest, GossipLookup,
      GossipDone, TimeOut, LoseReply

LEMMA InitInv == Init => IInv
<1> SUFFICES ASSUME Init PROVE IInv
  OBVIOUS
<1>1. \A n \in Node : Rows(n) = {}
  BY DEF Init, Rows
<1> QED
  BY <1>1, InitType
  DEF Init, IInv, AgentsSound, SendsSound, LoopsSound, RepliesSound,
      AddressesWereHeld, AnsweredCallerIsKnown, SelfRowOnlyThroughPending

LEMMA StepInv == IInv /\ [Next]_vars => IInv'
<1> SUFFICES ASSUME IInv, [Next]_vars PROVE IInv'
  OBVIOUS
<1>1. TypeOK'
  BY StepType DEF IInv
<1> QED
  BY <1>1, AgentsSoundStep, SendsSoundStep, LoopsSoundStep, RepliesSoundStep,
     AddressesStep, SelfRowStep DEF IInv

LEMMA Invariant == Spec => []IInv
  BY InitInv, StepInv, PTL DEF Spec

\* A row may be out of date but never points at a stranger's address, for any
\* number of agents, moves, crashes, losses and reorderings.
THEOREM AddressesCorrect == Spec => []AddressesWereHeld
<1>1. IInv => AddressesWereHeld
  BY DEF IInv
<1> QED BY <1>1, Invariant, PTL

\* Who gets an answer is in the table of the agent that gave it.
THEOREM AnsweredCallerCorrect == Spec => []AnsweredCallerIsKnown
<1>1. IInv => AnsweredCallerIsKnown
  BY DEF IInv
<1> QED BY <1>1, Invariant, PTL

\* Gossip alone never makes an agent its own peer.
THEOREM SelfRowCorrect == Spec => []SelfRowOnlyThroughPending
<1>1. IInv => SelfRowOnlyThroughPending
  BY DEF IInv
<1> QED BY <1>1, Invariant, PTL

(***************************************************************************)
(* The refinement: every step of Mesh is a step of PeerDiscovery under the *)
(* mapping of Discovery, or leaves what the agents know alone.             *)
(***************************************************************************)

\* An upsert adds its id to what the agent knows, and changes nothing else.
LEMMA UpsertKnows ==
  ASSUME TypeOK, NEW n \in Node, NEW i \in PeerId, NEW a \in Addr,
         NEW s \in {"online", "unknown"}, UpsertPeer(n, i, a, s)
  PROVE  [k \in Node |-> Rows(k)'] =
           [[k \in Node |-> Rows(k)] EXCEPT ![n] = @ \cup {i}]
<1>1. [addr |-> a, status |-> s] # NoRow
  BY MeshAssumption DEF Row
<1>2. \A k \in Node : Rows(k)' = IF k = n THEN Rows(k) \cup {i} ELSE Rows(k)
  BY <1>1 DEF UpsertPeer, Rows, TypeOK
<1> QED BY <1>2

LEMMA DiscoveryStep ==
  ASSUME IInv, [Next]_vars
  PROVE  [Discovery!Next]_([n \in Node |-> Rows(n)])
<1> DEFINE knows == [n \in Node |-> Rows(n)]
<1>1. ASSUME NEW n \in Node, NEW a \in Addr, Start(n, a) PROVE Discovery!Next
  <2>1. InitialPeers[n] \in SUBSET Addr
    BY MeshAssumption
  <2>2. \A i \in Addr : [addr |-> i, status |-> "unknown"] # NoRow
    BY MeshAssumption DEF Row
  <2>3. \A k \in Node :
          Rows(k)' = IF k = n THEN Rows(k) \cup InitialPeers[n] ELSE Rows(k)
    BY <1>1, <2>1, <2>2 DEF Start, Rows, PeerId, IInv, TypeOK
  <2>4. Discovery!Introduce(n, InitialPeers[n])
    BY <2>3 DEF Discovery!Introduce
  <2> QED BY <2>1, <2>4 DEF Discovery!Next
<1>2. ASSUME NEW s \in sends, NEW m \in Node, Serve(s, m) PROVE Discovery!Next
  <2>1. s.call.from \in Node /\ at[s.call.from] \in Addr
    BY DEF IInv, TypeOK, Send, Call
  <2>2. Discovery!Meet(m, s.call.from)
    BY <1>2, <2>1, UpsertKnows DEF Serve, PeerId, Discovery!Meet, IInv
  <2> QED BY <2>1, <2>2 DEF Discovery!Next
<1>3. ASSUME NEW m \in Node, NEW n \in Node, Register(m, n) PROVE Discovery!Next
  <2>1. at[n] \in Addr
    BY DEF IInv, TypeOK
  <2>2. Discovery!Meet(m, n)
    BY <1>3, <2>1, UpsertKnows DEF Register, PeerId, Discovery!Meet, IInv
  <2> QED BY <2>2 DEF Discovery!Next
<1>4. ASSUME NEW r \in replies, Receive(r) PROVE Discovery!Next
  <2>1. r.call.from \in Node /\ r.by \in Node /\ r.call.addr \in Addr
    BY DEF IInv, TypeOK, Reply, Call
  <2>2. Discovery!Meet(r.call.from, r.by)
    BY <1>4, <2>1, UpsertKnows DEF Receive, PeerId, Discovery!Meet, IInv
  <2> QED BY <2>1, <2>2 DEF Discovery!Next
<1>5. ASSUME NEW l \in loops, GossipInsert(l) PROVE Discovery!Next
  <2>1. PICK e \in l.adding : UpsertPeer(l.node, e.id, e.addr, "unknown")
    BY <1>5 DEF GossipInsert
  <2>2. l.node \in Node /\ e.id \in PeerId /\ e.addr \in Addr /\ EntrySound(e)
    BY DEF IInv, TypeOK, Loop, Entry, LoopsSound
  <2>3. PICK m \in Node : e.id \in Rows(m)
    BY <2>2 DEF EntrySound
  <2>4. Discovery!Spread(l.node, m, e.id)
    BY <2>1, <2>2, <2>3, UpsertKnows DEF Discovery!Spread, IInv
  <2> QED BY <2>2, <2>4 DEF Discovery!Next, Discovery!Known, PeerId
<1>6. CASE UNCHANGED peers
  <2>1. \A n \in Node : Rows(n)' = Rows(n)
    BY <1>6 DEF Rows
  <2>2. knows' = knows
    BY <2>1
  <2> QED BY <2>2
<1> QED
  BY <1>1, <1>2, <1>3, <1>4, <1>5, <1>6
  DEF Next, vars, Crash, SendHeartbeats, Refused, LoseRequest, GossipLookup,
      GossipDone, TimeOut, LoseReply

\* Discovery invents no peer and forgets none, across crashes and restarts:
\* Mesh implements PeerDiscovery.
THEOREM DiscoveryImplemented == Spec => ImplementsDiscovery
<1>1. Init => Discovery!Init
  BY DEF Init, Rows, Discovery!Init
<1>2. IInv /\ [Next]_vars => [Discovery!Next]_([n \in Node |-> Rows(n)])
  BY DiscoveryStep
<1> QED
  BY <1>1, <1>2, Invariant, PTL DEF Spec, ImplementsDiscovery, Discovery!Spec


=============================================================================
