\* Two processes on one memory, each with the ids of the default seed.
SPECIFICATION Spec
CONSTANTS
  Funnel <- TwoRounds
  MutationEnabled = TRUE
  MaxLineageDepth = 5
  MutationTarget = 2
  BatchSize = 1
  Ratings = {"low", "high"}
  IdsRepeat = TRUE
  MaxIdeas = 2
  MaxDays = 2
  MaxFaults = 0
PROPERTIES
  NothingIsErased
CHECK_DEADLOCK FALSE
