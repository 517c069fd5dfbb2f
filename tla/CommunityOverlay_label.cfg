CONSTANTS
  c1 = c1
  c2 = c2
  Connections = {c1, c2}
  OrdinaryNames = {"related"}
  Weights = {0, 1, 2}
  FullWeight = 2
  Policies <- OnePolicy
  MaxNodes = 2
  MaxRelations = 1
  MaxRevision = 4
SPECIFICATION Spec
INVARIANT CurrentOverlayFits
