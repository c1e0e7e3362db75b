-------------------------- MODULE RouterProperties --------------------------
(***************************************************************************)
(* What the guards around the provider promise together.                   *)
(***************************************************************************)
EXTENDS Router

\* There are finitely many prices, so one of them is the highest.
ASSUME PricesHaveATop ==
  \E top \in Prices \cup {1} : \A price \in Prices \cup {1} : price <= top

\* The same of the times a call and a late waking may take.
ASSUME TimesHaveATop ==
  \A times \in {Latencies, Oversleeps} : \E top \in times : \A t \in times : t <= top

\* Powers are numbers: arithmetic, of which the prover knows no more than this.
ASSUME PowersAreNumbers == \A n \in 1 .. MaxAttempts : Multiplier ^ (n - 1) \in Nat

\* More than n of the noted instants never fall within one span of time.
AtMost(n, instants, span) ==
  Len(instants) > n => instants[Len(instants)] - instants[Len(instants) - n] >= span

\* However requests bunch up, wait for a slot or oversleep, at most MaxCalls of
\* them are admitted in any PerSeconds.
WindowRespected == MaxCalls > 0 => AtMost(MaxCalls, admitted_at, PerSeconds)

\* A provider that is down is left alone: FailureThreshold + 1 failed requests
\* without a success between them take at least ResetAfter, whatever the
\* retries, the limiter's waits and the breaker's second chances.
DownProviderIsSpared == AtMost(FailureThreshold, failed_at, ResetAfter)

\* The breaker never refuses a provider that works: behind a refusal there are
\* FailureThreshold failed requests in a row, the last less than ResetAfter ago.
RefusedForAReason ==
  [][ answer # "CircuitOpen" /\ answer' = "CircuitOpen" =>
        /\ Len(failed_at) >= FailureThreshold
        /\ now - failed_at[Len(failed_at)] < ResetAfter ]_routerVars

\* Neither ceiling of the budget is passed by more than the call in flight:
\* the calls never, the cost by less than one price.
BudgetHolds ==
  /\ calls <= MaxCallsPerCycle
  /\ cost < MaxCostPerCycle + Max(Prices \cup {1})

\* The longest a request can take: one wait for a slot, MaxAttempts calls and
\* the backoffs between them, no backoff longer than MaxDelay.
LongestRequest ==
  PerSeconds + Max(Oversleeps)
    + MaxAttempts * Max(Latencies) + (MaxAttempts - 1) * (MaxDelay + Max(Oversleeps))

\* A request is answered within a bounded time, even by a provider that is down.
AnsweredInTime ==
  answer \in {"response", "failure"} => now - asked_at <= LongestRequest

=============================================================================
