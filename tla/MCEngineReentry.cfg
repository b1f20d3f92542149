CONSTANTS
  Values = {ctx, deepctx, small, deepdata, failure}
  Uncommittable = {deepctx, deepdata}
  EmptyContext = ctx
  NoContext = NoContext
  NoCommitment = NoCommitment
  NoProof = NoProof
  Blank = Blank
  Goroutines = {g1}
  Ids = {a}
  Primitives = {p}
  Exposes <- SourceCallback
  Payloads = {small}
  FailureData = failure
  Contexts = {ctx}
  InvalidContexts = {}
  Times = {1}
  ContextTime <- TimeOne
  NoResult = NoResult
  MaxDepth = 3
  MaxDrift = 0
  MaxEpoch = 2
SPECIFICATION FairSpec
INVARIANTS TypeOK RecursionDenied ReentryDeniesParent CallbackTableExact
PROPERTY RegistrationReleased
