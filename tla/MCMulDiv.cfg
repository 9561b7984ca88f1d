SPECIFICATION Spec
CONSTANTS
  Width = 3
  MulCycles = 2
  DivCycles = 5
INVARIANTS
  LoopInvariant
PROPERTY
  ImplementsUnit
