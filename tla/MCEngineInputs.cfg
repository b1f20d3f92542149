CONSTANTS
  Values = {ctx, deepctx, small, deepdata, failure}
  Uncommittable = {deepctx, deepdata}
  EmptyContext = ctx
  NoContext = NoContext
  NoCommitment = NoCommitment
  NoProof = NoProof
  Blank = Blank
  Goroutines = {g1}
  Ids = {a, b}
  Primitives = {p}
  Exposes <- AllCallbacks
  Payloads = {small, deepdata}
  FailureData = failure
  Contexts = {ctx, deepctx}
  InvalidContexts = {badctx}
  Times = {0, 1}
  ContextTime <- TimeOne
  NoResult = NoResult
  MaxDepth = 1
  MaxDrift = 1
  MaxEpoch = 4
SPECIFICATION Spec
INVARIANTS DecisionIsProved PermitUntainted
