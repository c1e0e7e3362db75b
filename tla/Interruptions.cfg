\* Two kills or uncaught exceptions at any steps, a model-call budget that an eager
\* HUNT runs out of, restarts, and the stop command next to a running brain; every
\* process ends.  No score varies: the duplicates DIGESTION measures are what calls
\* for EXPLORATION.
SPECIFICATION FairSpec
CONSTANTS
  CreativeFloor = 250
  ResearchFloor = 200
  CriticalFloor = 200
  MemoryPressureCeiling = 700
  NoveltyPressureCeiling = 650
  NoveltyFloor = 400
  DuplicateRateCeiling = 35
  MinObservations = 3
  MinSeeds = 4
  DreamModeEnabled = TRUE
  ExplorationEnabled = TRUE
  SecondWindEnabled = TRUE
  DreamFlagEnabled = TRUE
  ResearchYield = {2}
  MaxLlmCalls = 3
  CyclesRequested = {1}
  MaxSingleCycles = 1
  ObservationYield = {8}
  SeedYield = {4}
  QualityScores = {}
  NoveltyScores = {300}
  DuplicateRates = {50}
  Leftovers = {}
  EventBurst <- ShippedEvents
  CallBurst <- EagerCalls
  FailingPhases = {}
  MaxFaults = 2
  MaxStopCommands = 1
INVARIANTS
  DayClosesAsleep
  CountersAgree
PROPERTIES
  FloorsRespected
  CompletedWorkSurvives
  ImplementsDay
  ProcessEnds
