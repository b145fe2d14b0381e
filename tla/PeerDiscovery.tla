--------------------------- MODULE PeerDiscovery ---------------------------
(***************************************************************************)
(* What peer discovery promises, without messages, tables or addresses.    *)
(*                                                                         *)
(* Every agent keeps a set of peers it knows.  An entry gets into that set *)
(* in one of three ways only: the operator names an address (--peer), the  *)
(* two agents are in direct contact, or the entry is copied from an agent  *)
(* that already has it.  Nothing is invented and nothing is forgotten, not *)
(* even by an agent that restarts.  Mesh.tla implements this module.       *)
(***************************************************************************)

CONSTANTS
  Node,   \* the agents
  Seed    \* what an operator can name before the agent behind it is known

VARIABLE
  knows   \* knows[n]: the nodes and seeds agent n keeps a row for

Known == Node \cup Seed

Init == knows = [n \in Node |-> {}]

\* Agent n starts with the seeds its operator gave it.
Introduce(n, seeds) ==
  knows' = [knows EXCEPT ![n] = @ \cup seeds]

\* Agent n learns of agent m because it talks to m itself.
Meet(n, m) ==
  knows' = [knows EXCEPT ![n] = @ \cup {m}]

\* Agent n copies entry i from agent m.
Spread(n, m, i) ==
  /\ i \in knows[m]
  /\ knows' = [knows EXCEPT ![n] = @ \cup {i}]

Next ==
  \/ \E n \in Node : \E seeds \in SUBSET Seed : Introduce(n, seeds)
  \/ \E n, m \in Node : Meet(n, m)
  \/ \E n, m \in Node : \E i \in Known : Spread(n, m, i)

Spec == Init /\ [][Next]_knows

=============================================================================
