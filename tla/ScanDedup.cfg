CONSTANTS
  A = A
  B = B
  Node = {A, B}
  Interval = 10
  Half = 5
  Beat = 2
  ScanUnits = 1
  MaxEvents = 1
  MaxLost = 1
SPECIFICATION Spec
INVARIANTS SeenIsReal NetworkIsScanned
PROPERTY KnownScansSuppress
