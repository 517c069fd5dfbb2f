CONSTANTS
  Content <- Contents
  Kind <- TwoKinds
  Importance <- OneImportant
  Cases <- AllCases
  NewBundles <- ThreeBundles
  NewWeight <- Half
  Thresholds <- WeightThresholds
SPECIFICATION Spec
INVARIANTS
  TypeOK WorkWithinBudgets PathsReconstruct BestPathWins OnlyRacesLookCorrupt
  RivalsOnlyByRace ContextAccounted ContextComplete ParentsDescend CommunitiesAreComponents
PROPERTIES MergesAsPromised CallAnswers
CHECK_DEADLOCK FALSE
