CONSTANTS
  A = A
  B = B
  C = C
  a1 = a1
  a2 = a2
  a3 = a3
  NoRow = NoRow
  Node = {A, B}
  Addr = {a1, a2, a3}
  AddrOf <- PairAddr
  InitialPeers <- PairInit
  Posted <- AllPairs
  MaxCallers = 1
  MaxLoops = 2
  MaxFaults = 2
SPECIFICATION Spec
INVARIANTS  AnsweredCallerIsKnown
 
