CONSTANTS
  Children = {p, q}
  Nil = Nil
  References = {p, q}
  Fickle = {}
  Type <- OneType
  Exposes <- NamedAndConfigured
  First <- OwnConfigurations
  Operators = {"parallel-and"}
  Lists <- AllLists
  MaxThreshold = 3
  MaxDrift <- ConfigurationsDrift
SPECIFICATION Spec
INVARIANT DriftFailsClosed
