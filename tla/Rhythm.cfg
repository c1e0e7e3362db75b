\* A brain nobody kills, over three cycles: weak and strong winners or none, few and
\* many observations, quiet and busy event traffic, five phases that may fail, and a
\* HUNT whose model calls fit the budget of the process or run it out.
SPECIFICATION Spec
CONSTANTS
  CreativeFloor = 250
  ResearchFloor = 200
  CriticalFloor = 200
  MemoryPressureCeiling = 700
  NoveltyPressureCeiling = 650
  NoveltyFloor = 400
  DuplicateRateCeiling = 35
  MinObservations = 3
  MinSeeds = 4
  DreamModeEnabled = TRUE
  ExplorationEnabled = TRUE
  SecondWindEnabled = TRUE
  DreamFlagEnabled = TRUE
  ResearchYield = {2}
  MaxLlmCalls = 5
  CyclesRequested = {3}
  MaxSingleCycles = 0
  ObservationYield = {0, 8}
  SeedYield = {4}
  QualityScores = {800}
  NoveltyScores = {300}
  DuplicateRates = {50}
  Leftovers = {}
  EventBurst <- QuietOrBusyEvents
  CallBurst <- HuntCalls
  FailingPhases = {"OBSERVATION", "HUNT", "FOCUS", "REFLECTION", "CONSOLIDATION"}
  MaxFaults = 0
  MaxStopCommands = 0
INVARIANTS
  TypeOK
  DayIsProductive
  MemoryBeforeDreams
  WorkInOrder
