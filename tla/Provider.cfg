\* A provider that answers or fails as it likes, slow or fast, behind all the
\* guards at once: a tight limiter, two attempts, a breaker that opens after two
\* failed requests and a budget that runs out.
SPECIFICATION RouterSpec
CONSTANTS
  MaxCallsPerCycle = 3
  MaxCostPerCycle = 5
  MaxAttempts = 3
  BaseDelay = 1
  MaxDelay = 1
  Multiplier = 2
  FailureThreshold = 2
  ResetAfter = 6
  MaxCalls = 2
  PerSeconds = 4
  Latencies = {0, 2}
  Prices = {1, 3}
  Oversleeps = {0, 1}
  Pauses = {2}
  Horizon = 12
INVARIANTS
  WindowRespected
  DownProviderIsSpared
  BudgetHolds
  AnsweredInTime
PROPERTIES
  RefusedForAReason
