CONSTANTS
  Children = {p, q, r}
  Nil = Nil
  References = {p, r}
  Fickle = {r}
  Type <- OneType
  Exposes <- ConfiguredUnlessFickle
  First <- OwnNamesAndConfigurations
  Operators = {"sequential-and", "parallel-and", "threshold"}
  Lists <- ListsApart
  MaxThreshold = 3
  MaxDrift <- BothDrift
SPECIFICATION Spec
INVARIANTS TypeOK ThresholdIsUnique ValidIsEarned SequentialStops VotesUntainted VersionCovers
