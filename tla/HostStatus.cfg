CONSTANTS
  A = A
  P = P
  S = S
  Agent = {A}
  Device = {P}
  Self = S
  Dialled = {A}
  Beat = 2
  SweepEvery = 2
  StaleAfter = 5
  MaxFaults = 2
SPECIFICATION FairSpec
INVARIANTS OnlineIsFresh
PROPERTIES SweepSparesTheSeen MarkedIsSelected 
PROPERTIES  AliveGoesOnline 
