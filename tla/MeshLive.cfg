CONSTANTS
  A = A
  B = B
  C = C
  a1 = a1
  a2 = a2
  a3 = a3
  NoRow = NoRow
  Node = {A, B, C}
  Addr = {a1, a2, a3}
  AddrOf <- TrioAddr
  InitialPeers <- TrioInit
  Posted = {}
  MaxCallers = 1
  MaxLoops = 2
  MaxFaults = 1
SPECIFICATION FairSpec
INVARIANT SelfRowOnlyThroughPending
PROPERTY MeshCompletes
