CONSTANTS
  c1 = c1
  c2 = c2
  Connections = {c1}
  OrdinaryNames = {"related"}
  Weights = {0, 1, 2}
  FullWeight = 2
  Policies <- TwoPolicies
  MaxNodes = 2
  MaxRelations = 2
  MaxRevision = 6
SPECIFICATION Spec
INVARIANT CurrentOverlayFits
PROPERTY RoutedIndexFits
