CONSTANTS
  k1 = k1
  k2 = k2
  e1 = e1
  e2 = e2
  task1 = task1
  task2 = task2
  shell = shell
  object = object
  Server = Server
  Tasks = {task1, task2}
  Shells = {shell}
  Objects = {object}
  Connections = {Server, shell, object}
  NoTask = NoTask
  Invalid = Invalid
  Plans <- AllPlans
  Keys = {k1, k2}
  EvidenceIds = {e1, e2}
  Groups = {}
  OrdinaryNames = {"related"}
  Bundles <- BothBundles
  NoKey = NoKey
  NoBundle = NoBundle
  NoGroup = NoGroup
  NoArg = NoArg
  MaxBundleItems = 1
  MaxReferences = 1
  MaxNodes = 9
  MaxOrdinary = 3
  MaxFeedback = 2
SPECIFICATION ClientsSpec
INVARIANTS ClientsTypeOK
PROPERTIES ServerReportsOneMoment AnswersTellEffects RequestsEnd
CHECK_DEADLOCK FALSE
