\* Two shells and an operator who edits the root once between any two steps.
SPECIFICATION Spec
CONSTANTS
  Shells = {"left", "right"}
  Commands = {"demo", "start", "status", "stop"}
  Roots <- SomeRoots
  Environments <- SomeEnvironments
  MaxEdits = 1
  MaxCommands = 2
INVARIANTS
  AnsweredAsLaunched
CHECK_DEADLOCK FALSE
