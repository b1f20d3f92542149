CONSTANTS
  Values = {empty, deep, payload}
  Uncommittable = {deep}
  EmptyContext = empty
  NoContext = NoContext
  NoCommitment = NoCommitment
  NoProof = NoProof
  Blank = Blank
  Ids = {a}
  Versions = {v1, v2}
  Reasons = {denied}
  Times = {t0}
  MaxPrimitives = 1
  MaxCorruptions <- NoCorruptions
SYMMETRY Interchangeable
SPECIFICATION Spec
INVARIANT RoundTripVerifies
