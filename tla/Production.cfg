\* Two cycles over two dates and one fault anywhere: enough for an idea to be carried
\* forward, a winner to be stranded between any two writes, and a second process to
\* find what the first left.
SPECIFICATION Spec
CONSTANTS
  Gaps = {{}, {"PITCH_BUILDER"}, {"CREATIVE_JUDGE_AGENT"}}
  Silences = {{}, {"TITLE_AGENT", "PITCH_BUILDER"}}
  Strengths = {{"game_engine"}}
  HandoffEnabled = TRUE
  IdsRepeat = FALSE
  Skippable = {"EXPLORATION"}
  MaxCycles = 2
  MaxDates = 2
  MaxFaults = 1
INVARIANTS
  OutcomeTellsTheTruth
  ProjectsAreWhole
PROPERTY
  ImplementsPublishing
CHECK_DEADLOCK FALSE
