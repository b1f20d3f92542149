CONSTANTS
  Values = {ctx, deepctx, small, deepdata, failure}
  Uncommittable = {deepctx, deepdata}
  EmptyContext = ctx
  NoContext = NoContext
  NoCommitment = NoCommitment
  NoProof = NoProof
  Blank = Blank
  Goroutines = {g1, g2}
  Ids = {a, b}
  Primitives = {p}
  Exposes <- SourceCallback
  Payloads = {small}
  FailureData = failure
  Contexts = {ctx}
  InvalidContexts = {}
  Times = {1}
  ContextTime <- TimeOne
  NoResult = NoResult
  MaxDepth = 1
  MaxDrift = 0
  MaxEpoch = 4
SYMMETRY Interchangeable
SPECIFICATION Spec
INVARIANTS RegistrationExclusive UniqueIds EpochIdentifiesConfiguration
PROPERTIES PermitCoversConfiguration MutationsSerialised ImplementsGate
