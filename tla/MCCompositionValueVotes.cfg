CONSTANTS
  Children = {v}
  Nil = Nil
  References = {}
  Fickle = {v}
  Type <- OneType
  Exposes <- Named
  First <- OneName
  Operators = {"threshold"}
  Lists <- AllLists
  MaxThreshold = 3
  MaxDrift <- NamesDrift
SPECIFICATION Spec
INVARIANT ThresholdIsUnique
