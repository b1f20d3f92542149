CONSTANTS
  Values = {empty, deep, payload}
  Uncommittable = {deep}
  EmptyContext = empty
  NoContext = NoContext
  NoCommitment = NoCommitment
  NoProof = NoProof
  Blank = Blank
  Ids = {a, b}
  Versions = {v1, v2}
  Reasons = {denied}
  Times = {t0, t1}
  MaxPrimitives = 2
  MaxCorruptions <- FewCorruptions
SYMMETRY Interchangeable
SPECIFICATION Spec
INVARIANTS TypeOK IssuedVerifies TamperEvident LegacyFailsClosed ReconstructionIsBound
