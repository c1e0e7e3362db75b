SPECIFICATION Spec
CONSTANTS
  Ideas = {1, 2, 3}
  Texts <- SomeTexts
  Twins <- SomeTwins
  Critics <- RedAndBlue
  Replies <- RedAndBlueReplies
  Novelties = {70}
  Weights <- DefaultWeights
  Funnel <- FunnelWidths
  TargetConcepts = 3
  Grain = 10
  MaxPasses = 2
  MaxFaults = 1
INVARIANTS
  RoundsAreJust
  SilentCriticsAreNoticed
PROPERTIES
  OnceBlockedAlwaysCapped
CHECK_DEADLOCK FALSE
