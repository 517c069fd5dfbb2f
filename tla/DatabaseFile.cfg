CONSTANTS
  p1 = p1
  p2 = p2
  Processes = {p1, p2}
  Plans <- AllPlans
  Databases <- Files
  NoFile = NoFile
  NoProcess = NoProcess
  FixtureNodes <- TwoNodes
  FixtureEdges <- OneEdge
  MaxCrashes = 2
SPECIFICATION Spec
INVARIANTS TypeOK FilesComplete OverlayMislabelledByRaceOnly CheckedIsOpenable RefusalsRetriable
PROPERTIES MigrationKeepsMemories RefusedUntouched FreshIds IngestAtomic
CHECK_DEADLOCK FALSE
