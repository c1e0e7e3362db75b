SPECIFICATION HostSpec
CONSTANTS
  JobNames = {"wake", "dream"}
  Delays <- SomeDelays
  EventNames = {"IDEA_BORN"}
  Handlers = {"h", "i"}
  MaxRetries = 1
  MaxTime = 1
  MaxJobs = 3
  MaxEvents = 2
INVARIANTS
  JobsAccountedFor
  EveryHandlerIsServed
CHECK_DEADLOCK FALSE
