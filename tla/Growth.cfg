\* Three nights of consolidation by two processes that share a data directory, a
\* kill anywhere and one run of the reset script.
SPECIFICATION Spec
CONSTANTS
  Procs = {daemon, command}
  Key <- KeyOf
  Reports <- SomeReports
  Blank = ""
  LearningEnabled = TRUE
  NewEntriesCap = 3
  BucketCap = 2
  DecayWindow = 2
  MinEvents = 2
  Cycles <- SomeCycles
  Proposals = {1}
  ShippedSnapshots <- FreshOrShipped
  MaxNights = 3
  MaxKills = 1
  MaxResets = 1
SYMMETRY Alike
INVARIANTS
  SnapshotsAccountedFor
  FadesOnceANight
PROPERTIES
  NothingUnlearned
CHECK_DEADLOCK FALSE
