\* Three days of two ideas each and their descendants, one fault anywhere.
SPECIFICATION Spec
CONSTANTS
  Funnel <- TwoRounds
  MutationEnabled = TRUE
  MaxLineageDepth = 1
  MutationTarget = 2
  BatchSize = 2
  Ratings = {"low", "high"}
  IdsRepeat = FALSE
  MaxIdeas = 3
  MaxDays = 3
  MaxFaults = 1
INVARIANTS
  MovesAreLegal
  GravesAreMirrored
  OneHeirEach
  LineageBounded
  EveryoneIsHeard
  WinnersAreProduced
PROPERTIES
  ImplementsIdeaLife
CHECK_DEADLOCK FALSE
