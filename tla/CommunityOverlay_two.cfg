CONSTANTS
  c1 = c1
  c2 = c2
  Connections = {c1, c2}
  OrdinaryNames = {"related"}
  Weights = {1, 2}
  FullWeight = 2
  Policies <- OnePolicy
  MaxNodes = 2
  MaxRelations = 2
  MaxRevision = 4
SYMMETRY Alike
SPECIFICATION Spec
INVARIANTS TypeOK MembershipsWhole FineRefinesCoarse
