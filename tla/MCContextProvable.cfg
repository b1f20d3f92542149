CONSTANTS
  ContextDepth = 5
  PrimitiveDepth = 4
  ProofDepth = 3
  Scalars <- MCScalars
  Heaps <- MCHeaps
  Written <- MCWritten
  Times = {0, 1}
  MaxStored = 2
  MaxExports = 1
  MaxWrites = 1
  MaxSteps = 3
SPECIFICATION Spec
INVARIANT ContextProvable
CHECK_DEADLOCK FALSE
