\* A document of two chunks, a variant, as many processes as like and one fault between
\* any two writes: two days with ids of their own, or a day for every process, each
\* with the ids of the last.
SPECIFICATION Spec
CONSTANTS
  Documents = {"essay"}
  Chunks <- TwoEach
  Observations = {1}
  QuestionsEach = 2
  ResearchTopics = 1
  SeedHeats <- SomeHeats
  ConceptTarget = 2
  Fragments = {1}
  Variants = 1
  Skippable = {}
  DreamsBefore = {"EXPLORATION"}
  Unreliable = {}
  Comfort = 30
  MaxDays <- TwoDaysOrOne
  MaxFaults = 1
INVARIANTS
  TracesLead
  SeedsWorkedOnce
  CorpusReadOnce
CHECK_DEADLOCK FALSE
