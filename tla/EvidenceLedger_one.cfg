CONSTANTS
  c1 = c1
  c2 = c2
  k1 = k1
  k2 = k2
  k3 = k3
  e1 = e1
  e2 = e2
  e3 = e3
  g1 = g1
  g2 = g2
  Connections = {c1}
  Keys = {k1, k2, k3}
  EvidenceIds = {e1, e2, e3}
  Groups = {g1, g2}
  OrdinaryNames = {"related"}
  Bundles <- RivalBundles
  NoKey = NoKey
  NoBundle = NoBundle
  NoGroup = NoGroup
  NoArg = NoArg
  MaxBundleItems = 2
  MaxReferences = 1
  MaxNodes = 1
  MaxOrdinary = 2
  MaxFeedback = 2
SPECIFICATION Spec
INVARIANTS TypeOK ProjectionComplete ConflictGroupsAgree FeedbackCountExact NothingDangles
PROPERTIES RollbackStaysInside NodeIdsNeverReused
