CONSTANTS
  Values = {ctx, deepctx, small, deepdata, failure}
  Uncommittable = {deepctx, deepdata}
  EmptyContext = ctx
  NoContext = NoContext
  NoCommitment = NoCommitment
  NoProof = NoProof
  Blank = Blank
  Goroutines = {g1}
  Ids = {a}
  Primitives = {p}
  Exposes <- NoCallbacks
  Payloads = {small}
  FailureData = failure
  Contexts = {ctx}
  InvalidContexts = {}
  Times = {1}
  ContextTime <- TimeOne
  NoResult = NoResult
  MaxDepth = 2
  MaxDrift = 0
  MaxEpoch = 1
SPECIFICATION Spec
INVARIANT NestedEvaluationDenied
