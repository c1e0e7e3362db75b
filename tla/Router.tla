------------------------------- MODULE Router -------------------------------
(***************************************************************************)
(* ModelRouter.complete (adapters/llm/router.py) and the guards it puts    *)
(* around a model provider (adapters/resilience.py): the call budget, the  *)
(* circuit breaker, the rate limiter and the retries, in that order.  The  *)
(* brain makes one request at a time, so a request is a sequence of steps  *)
(* of one process; time passes while a step sleeps or the provider thinks, *)
(* and between requests.  Time is counted in ticks, money in cents.        *)
(***************************************************************************)
EXTENDS FiniteSetsExt, Integers, Sequences

CONSTANTS
  MaxCallsPerCycle, MaxCostPerCycle,           \* CallBudget
  MaxAttempts, BaseDelay, MaxDelay, Multiplier,\* RetryPolicy
  FailureThreshold, ResetAfter,                \* CircuitBreaker
  MaxCalls, PerSeconds,                        \* RateLimiter; 0 calls: unlimited
  Latencies,   \* ticks one call to the provider may take
  Prices,      \* cents one completed call may cost
  Oversleeps,  \* ticks by which a sleep may last longer than asked
  Pauses,      \* ticks the brain may spend between two requests
  Horizon      \* bound: no request starts later

ASSUME RouterAssumption ==
  /\ {MaxCallsPerCycle, MaxCostPerCycle, MaxAttempts, FailureThreshold} \subseteq Nat \ {0}
  /\ {BaseDelay, MaxDelay, Multiplier, ResetAfter, MaxCalls, PerSeconds, Horizon} \subseteq Nat
  /\ Latencies \subseteq Nat /\ Prices \subseteq Nat
  /\ Oversleeps \subseteq Nat /\ Pauses \subseteq Nat

VARIABLES
  guard,       \* "idle" between requests, else the guard the request is at
  now,
  answer,      \* how the last request ended
  attempt,     \* the retry loop's counter
  calls, cost, \* CallBudget
  failures, opened_at,   \* CircuitBreaker
  timestamps,            \* RateLimiter
  \* What an observer would have noted, for the properties only: when the
  \* current request came, when the latest requests were admitted, and when
  \* requests failed since the last success.
  asked_at, admitted_at, failed_at

budget == <<calls, cost>>
breaker == <<failures, opened_at>>
notes == <<asked_at, admitted_at, failed_at>>

routerVars == <<guard, now, answer, attempt, budget, breaker, timestamps, notes>>

NotOpen == -1

Answers == {"none", "response", "failure", "BudgetExceeded", "CircuitOpen"}

\* s with t at its end, of which only the last n entries are kept.
Noted(s, t, n) ==
  LET all == Append(s, t) IN
    IF Len(all) > n THEN SubSeq(all, Len(all) - n + 1, Len(all)) ELSE all

RouterInit ==
  /\ guard = "idle" /\ now = 0 /\ answer = "none" /\ attempt = 0
  /\ calls = 0 /\ cost = 0
  /\ failures = 0 /\ opened_at = NotOpen
  /\ timestamps = <<>>
  /\ asked_at = 0 /\ admitted_at = <<>> /\ failed_at = <<>>

-----------------------------------------------------------------------------
(* The guards. *)

\* Variant for mutation runs: the ceiling itself is still spendable.
ExhaustedTooLate == calls > MaxCallsPerCycle \/ cost > MaxCostPerCycle

\* CallBudget.check.
Exhausted == calls >= MaxCallsPerCycle \/ cost >= MaxCostPerCycle

\* CircuitBreaker.allow: closed, or open for long enough to be tried again.
Closed == opened_at = NotOpen
Elapsed == opened_at # NotOpen /\ now - opened_at >= ResetAfter

\* Variant for mutation runs: the failure that reaches the threshold is forgiven.
OpenedLate(at) == IF failures + 1 > FailureThreshold THEN at ELSE opened_at

\* CircuitBreaker.record_failure.
OpenedBy(at) == IF failures + 1 >= FailureThreshold THEN at ELSE opened_at

\* Variant for mutation runs: the cap on the backoff is forgotten.
UncappedDelay(n) == BaseDelay * Multiplier ^ (n - 1)

\* RetryPolicy.delay_for.
DelayFor(n) ==
  LET raw == BaseDelay * Multiplier ^ (n - 1) IN IF raw < MaxDelay THEN raw ELSE MaxDelay

\* The admissions a rate limiter still counts at an instant: timestamps is in order,
\* so those it forgets are the first.
Pruned(at) ==
  LET stale == {i \in 1 .. Len(timestamps) : at - timestamps[i] >= PerSeconds}
  IN  SubSeq(timestamps, Max({0} \cup stale) + 1, Len(timestamps))

\* timestamps is in order, so the oldest is the first.
SlotFree == Len(Pruned(now)) < MaxCalls
SlotFreeAt == PerSeconds + Head(Pruned(now))

-----------------------------------------------------------------------------
(* One request. *)

RefuseOverBudget ==
  /\ guard = "idle" /\ now <= Horizon
  /\ Exhausted
  /\ answer' = "BudgetExceeded"
  /\ UNCHANGED <<guard, now, attempt, budget, breaker, timestamps, notes>>

RefuseCircuitOpen ==
  /\ guard = "idle" /\ now <= Horizon
  /\ ~Exhausted
  /\ ~Closed /\ ~Elapsed
  /\ answer' = "CircuitOpen"
  /\ UNCHANGED <<guard, now, attempt, budget, breaker, timestamps, notes>>

Accept ==
  /\ guard = "idle" /\ now <= Horizon
  /\ ~Exhausted
  /\ Closed \/ Elapsed
  /\ failures' = IF Elapsed THEN 0 ELSE failures
  /\ opened_at' = NotOpen
  /\ guard' = "limiter"
  /\ answer' = "none"
  /\ asked_at' = now
  /\ UNCHANGED <<now, attempt, budget, timestamps, admitted_at, failed_at>>

\* Variant for mutation runs: the instant is not read again after the sleep.
AcquireStale ==
  /\ guard = "limiter"
  /\ \/ /\ MaxCalls = 0 \/ SlotFree
        /\ now' = now
     \/ /\ MaxCalls > 0 /\ ~SlotFree
        /\ \E late \in Oversleeps : now' = SlotFreeAt + late
  /\ timestamps' = IF MaxCalls = 0 THEN timestamps ELSE Append(Pruned(now'), now)
  /\ admitted_at' = Noted(admitted_at, now', MaxCalls + 1)
  /\ guard' = "attempt" /\ attempt' = 1
  /\ UNCHANGED <<answer, budget, breaker, asked_at, failed_at>>

\* RateLimiter.acquire: one slot per request, waited for if need be.
Acquire ==
  /\ guard = "limiter"
  /\ \/ /\ MaxCalls = 0 \/ SlotFree
        /\ now' = now
     \/ /\ MaxCalls > 0 /\ ~SlotFree
        /\ \E late \in Oversleeps : now' = SlotFreeAt + late
  /\ timestamps' = IF MaxCalls = 0 THEN timestamps ELSE Append(Pruned(now'), now')
  /\ admitted_at' = Noted(admitted_at, now', MaxCalls + 1)
  /\ guard' = "attempt" /\ attempt' = 1
  /\ UNCHANGED <<answer, budget, breaker, asked_at, failed_at>>

\* Variant for mutation runs: a success does not clear the failures before it.
ProviderAnswersUnforgiven ==
  /\ guard = "attempt"
  /\ \E latency \in Latencies : now' = now + latency
  /\ \E price \in Prices : cost' = cost + price
  /\ calls' = calls + 1
  /\ guard' = "idle" /\ answer' = "response"
  /\ failed_at' = <<>>
  /\ UNCHANGED <<attempt, breaker, timestamps, asked_at, admitted_at>>

ProviderAnswers ==
  /\ guard = "attempt"
  /\ \E latency \in Latencies : now' = now + latency
  /\ \E price \in Prices : cost' = cost + price
  /\ calls' = calls + 1
  /\ failures' = 0 /\ opened_at' = NotOpen
  /\ guard' = "idle" /\ answer' = "response"
  /\ failed_at' = <<>>
  /\ UNCHANGED <<attempt, timestamps, asked_at, admitted_at>>

\* A failed attempt with another one to come, after the backoff.
ProviderFailsRetry ==
  /\ guard = "attempt"
  /\ attempt < MaxAttempts
  /\ \E latency \in Latencies, late \in Oversleeps :
       now' = now + latency + DelayFor(attempt) + late
  /\ attempt' = attempt + 1
  /\ UNCHANGED <<guard, answer, budget, breaker, timestamps, asked_at, admitted_at, failed_at>>

\* The last attempt failed: the request counts once against the breaker and
\* not at all against the budget.
ProviderFailsForGood ==
  /\ guard = "attempt"
  /\ attempt >= MaxAttempts
  /\ \E latency \in Latencies : now' = now + latency
  /\ failures' = failures + 1
  /\ opened_at' = OpenedBy(now')
  /\ guard' = "idle" /\ answer' = "failure"
  /\ failed_at' = Noted(failed_at, now', FailureThreshold + 1)
  /\ UNCHANGED <<attempt, budget, timestamps, asked_at, admitted_at>>

\* The brain does something else for a while (past the Horizon, for no time).
Pause ==
  /\ guard = "idle"
  /\ \E pause \in Pauses : now' = IF now > Horizon THEN now ELSE now + pause
  /\ answer' = "none"
  /\ UNCHANGED <<guard, attempt, budget, breaker, timestamps, notes>>

RouterNext ==
  \/ RefuseOverBudget
  \/ RefuseCircuitOpen
  \/ Accept
  \/ Acquire
  \/ ProviderAnswers
  \/ ProviderFailsRetry
  \/ ProviderFailsForGood
  \/ Pause

RouterSpec == RouterInit /\ [][RouterNext]_routerVars

-----------------------------------------------------------------------------

RouterTypeOK ==
  /\ guard \in {"idle", "limiter", "attempt"}
  /\ now \in Nat /\ asked_at \in Nat
  /\ answer \in Answers
  /\ attempt \in 0 .. MaxAttempts
  /\ calls \in Nat /\ cost \in Nat
  /\ failures \in Nat /\ opened_at \in Nat \cup {NotOpen}
  /\ {timestamps, admitted_at, failed_at} \subseteq Seq(Nat)

=============================================================================
