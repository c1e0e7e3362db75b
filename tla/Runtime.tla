------------------------------- MODULE Runtime -------------------------------
(***************************************************************************)
(* The autonomous loop (runtime/__init__.py) driving the circadian policy  *)
(* and the orchestrator's phases (application/orchestration), with its two *)
(* files: circadian_state.json, written first, and the checkpoint, written *)
(* second.  One process runs at a time; it can be asked to stop, raise out *)
(* of a phase, or be killed between any two steps, and it can be started   *)
(* again.  "creative-brain stop" is a second, short-lived process on the   *)
(* same files.                                                             *)
(***************************************************************************)
EXTENDS CircadianPolicy

CONSTANTS
  CyclesRequested,   \* the values --cycles is given
  MaxSingleCycles,   \* bound: cycle numbers run_single_cycle may reach
  ObservationYield,  \* how many observations one OBSERVATION may store
  ResearchYield,     \* how many findings one HUNT may store
  SeedYield,         \* how many seeds one generative phase may store
  QualityScores,     \* winner.total_score, tenths
  NoveltyScores,     \* winner.genome.novelty_score, tenths
  DuplicateRates,    \* what DIGESTION may measure, percent
  Leftovers,         \* records earlier processes may have filed under a cycle id
                     \* this one mints again: every process draws its ids from
                     \* the same seed, unless it is given another ({} then)
  EventBurst,        \* per phase: how many events its work may publish
  CallBurst,         \* per phase: how many model calls its work may want
  DreamFlagEnabled,  \* the feature flag _dream looks at; the policy's own switch
                     \* is that flag AND the clock's toggle
  FailingPhases,     \* phases whose work may fail with a CreativeBrainError
  MaxFaults,         \* bound: kills and uncaught exceptions
  MaxStopCommands    \* bound: uses of "creative-brain stop"

\* Variant for mutation runs: a limit the canonical day does not fit in.
TenPhases == 10

MAX_PHASES_PER_CYCLE == 40

\* min(20, 0.6 * events) is constant from here on, so the count saturates.
EventCap == 34

ASSUME EnvironmentAssumption ==
  /\ CyclesRequested \subseteq Nat /\ MaxSingleCycles \in Nat
  /\ ObservationYield \subseteq Nat /\ ResearchYield \subseteq Nat
  /\ SeedYield \subseteq Nat
  /\ QualityScores \subseteq Nat /\ NoveltyScores \subseteq Nat
  /\ DuplicateRates \subseteq Nat
  /\ EventBurst \in [Phases -> SUBSET Nat]
  /\ CallBurst \in [Phases -> SUBSET Nat]
  /\ DreamFlagEnabled \in BOOLEAN /\ (DreamModeEnabled => DreamFlagEnabled)
  /\ FailingPhases \subseteq Phases
  /\ MaxFaults \in Nat /\ MaxStopCommands \in Nat

Stored == [observations : Nat, research : Nat, seeds : Nat]
NothingStored == [observations |-> 0, research |-> 0, seeds |-> 0]

ASSUME LeftoversAssumption ==
  /\ Leftovers \subseteq Stored
  /\ \A r \in Leftovers : r.observations = 0 => r.research = 0   \* findings of what was seen

VARIABLES
  pc,                \* where the process is; "off" when there is none
  state,             \* runtime.state
  stored,            \* records filed under the running cycle's id
  events,            \* events of the running cycle in the bus history
  calls,             \* router.budget.calls of this process
  outcome,           \* orchestrator.outcome: is there a winner, was it learned
  cycles,            \* the bound start() was given
  cycles_completed,
  last_outcome,      \* whether this process has finished a cycle
  stop_requested,
  saved_state,       \* circadian_state.json (a missing file reads as FreshState)
  saved_completed,   \* cycles_completed in the checkpoint (missing reads as 0)
  faults, stops      \* bounds only

vars == <<pc, state, stored, events, calls, outcome, cycles, cycles_completed,
          last_outcome, stop_requested, saved_state, saved_completed, faults, stops>>

disk == <<saved_state, saved_completed>>
bounds == <<faults, stops>>
session == <<cycles, cycles_completed, last_outcome>>

Outcome == [winner : BOOLEAN, learned : BOOLEAN]
NoOutcome == [winner |-> FALSE, learned |-> FALSE]

PcValues ==
  {"off", "loop", "single", "decide", "execute", "forced", "sync", "checkpoint", "ended",
   "last_checkpoint", "shutdown", "shutdown_checkpoint"}

TypeOK ==
  /\ pc \in PcValues
  /\ state \in CircadianState
  /\ stored \in Stored
  /\ events \in 0 .. EventCap
  /\ calls \in Nat
  /\ outcome \in Outcome
  /\ cycles \in Nat
  /\ cycles_completed \in Nat
  /\ last_outcome \in BOOLEAN
  /\ stop_requested \in BOOLEAN
  /\ saved_state \in CircadianState
  /\ saved_completed \in Nat
  /\ faults \in 0 .. MaxFaults
  /\ stops \in 0 .. MaxStopCommands

Init ==
  /\ pc = "off"
  /\ state = FreshState
  /\ stored = NothingStored
  /\ events = 0
  /\ calls = 0
  /\ outcome = NoOutcome
  /\ cycles = 0
  /\ cycles_completed = 0
  /\ last_outcome = FALSE
  /\ stop_requested = FALSE
  /\ saved_state = FreshState
  /\ saved_completed = 0
  /\ faults = 0
  /\ stops = 0

\* What a process that is gone leaves in memory: nothing.
Vanish ==
  /\ pc' = "off"
  /\ state' = FreshState
  /\ stored' = NothingStored
  /\ events' = 0
  /\ calls' = 0
  /\ outcome' = NoOutcome
  /\ cycles' = 0
  /\ cycles_completed' = 0
  /\ last_outcome' = FALSE
  /\ stop_requested' = FALSE

Publish(n) == IF events + n > EventCap THEN EventCap ELSE events + n

-----------------------------------------------------------------------------
(* Starting, stopping, dying. *)

\* Variant for mutation runs: the checkpoint is not read back.
BootWithoutCheckpoint(n) ==
  /\ pc = "off"
  /\ pc' = "loop"
  /\ state' = saved_state
  /\ cycles' = n
  /\ UNCHANGED <<stored, events, calls, outcome, cycles_completed, last_outcome,
                 stop_requested, disk, bounds>>

\* build_brain and bootstrap: both files are read back, the budget is new.  (What
\* bootstrap reads of input/ is modelled in Perception.)
Boot(n) ==
  /\ pc = "off"
  /\ pc' = "loop"
  /\ state' = saved_state
  /\ cycles_completed' = saved_completed
  /\ cycles' = n
  /\ UNCHANGED <<stored, events, calls, outcome, last_outcome, stop_requested>>
  /\ UNCHANGED <<disk, bounds>>

\* run_single_cycle: the same bootstrap, then one cycle whatever the counter
\* says.  With a bound of 0 the loop is left as soon as that cycle is over.
BootSingle ==
  /\ pc = "off"
  /\ saved_state.cycle_number < MaxSingleCycles
  /\ pc' = "single"
  /\ state' = saved_state
  /\ cycles_completed' = saved_completed
  /\ cycles' = 0
  /\ UNCHANGED <<stored, events, calls, outcome, last_outcome, stop_requested>>
  /\ UNCHANGED <<disk, bounds>>

\* SIGINT/SIGTERM: only the while condition of start() looks at the flag.
RequestStop ==
  /\ pc # "off"
  /\ ~stop_requested
  /\ stop_requested' = TRUE
  /\ UNCHANGED <<pc, state, stored, events, calls, outcome, session, disk, bounds>>

LeaveLoop ==
  /\ pc = "loop"
  /\ stop_requested \/ cycles_completed >= cycles
  /\ pc' = "shutdown"
  /\ UNCHANGED <<state, stored, events, calls, outcome, session, stop_requested,
                 disk, bounds>>

\* An exception run_cycle does not catch: not a CreativeBrainError, or raised
\* while saving or while handling BudgetExceeded.  start()'s finally runs.
Raise ==
  /\ pc \in {"execute", "forced", "sync", "checkpoint", "ended", "last_checkpoint"}
  /\ faults < MaxFaults
  /\ faults' = faults + 1
  /\ pc' = "shutdown"
  /\ UNCHANGED <<state, stored, events, calls, outcome, session, stop_requested,
                 disk, stops>>

ShutdownSaveState ==
  /\ pc = "shutdown"
  /\ pc' = "shutdown_checkpoint"
  /\ saved_state' = state
  /\ UNCHANGED <<state, stored, events, calls, outcome, session, stop_requested,
                 saved_completed, bounds>>

ShutdownSaveCheckpoint ==
  /\ pc = "shutdown_checkpoint"
  /\ saved_completed' = cycles_completed
  /\ Vanish
  /\ UNCHANGED <<saved_state, bounds>>

Kill ==
  /\ pc # "off"
  /\ faults < MaxFaults
  /\ faults' = faults + 1
  /\ Vanish
  /\ UNCHANGED <<disk, stops>>

\* "creative-brain stop": a brain that was built but never bootstrapped shuts
\* down, saving what it holds.
StopCommand ==
  /\ stops < MaxStopCommands
  /\ stops' = stops + 1
  /\ saved_state' = FreshState
  /\ saved_completed' = 0
  /\ UNCHANGED <<pc, state, stored, events, calls, outcome, session,
                 stop_requested, faults>>

-----------------------------------------------------------------------------
(* One cycle. *)

\* What the new cycle's id already finds filed, if an earlier process minted it.
Found == IF saved_state # FreshState \/ stops > 0 THEN Leftovers ELSE {}

BeginCycle ==
  /\ \/ pc = "single"
     \/ pc = "loop" /\ ~stop_requested /\ cycles_completed < cycles
  /\ pc' = "decide"
  /\ state' = BeginDay(state)
  /\ stored' \in {NothingStored} \cup Found
  /\ events' = 1
  /\ outcome' = NoOutcome
  /\ UNCHANGED <<calls, session, stop_requested, disk, bounds>>

EnterPhase ==
  /\ pc = "decide"
  /\ pc' = "execute"
  /\ \E p \in {Decide(state)} : state' = Enter(state, p)
  /\ events' = Publish(1)
  /\ UNCHANGED <<stored, calls, outcome, session, stop_requested, disk, bounds>>

\* orchestrator._refresh_signals, which runs only after a handler returned.
Refreshed(s, records, published) ==
  [s EXCEPT !.observation_backlog = records.observations,
            !.research_backlog = records.research,
            !.seed_backlog = records.seeds,
            !.energy = Restore(s.energy, "MEMORY_PRESSURE",
                               IF 6 * published > 200 THEN 200 ELSE 6 * published)]

\* Phases that return at once when the cycle has no observation to work on.
Idle(p) == p \in {"HUNT", "FOCUS"} /\ stored.observations = 0

WantedCalls(p) == IF Idle(p) THEN {0} ELSE CallBurst[p]
Published(p) == IF Idle(p) THEN {0} ELSE EventBurst[p]

\* How many records there are after n more: a record whose id was minted before
\* overwrites its namesake.
Filed(old, n) ==
  {old + n} \cup (IF Leftovers = {} THEN {} ELSE {IF old > n THEN old ELSE n})

\* Records a phase adds to the stores of the running cycle.
Yields(p) ==
  IF p = "OBSERVATION"
  THEN UNION {{[stored EXCEPT !.observations = m] : m \in Filed(stored.observations, n)} :
               n \in ObservationYield}
  ELSE IF p = "HUNT" /\ ~Idle(p)
  THEN UNION {{[stored EXCEPT !.research = m] : m \in Filed(stored.research, n)} :
               n \in ResearchYield}
  ELSE IF p \in {"CREATION", "EXPLORATION"} \/ (p = "DREAMING" /\ DreamFlagEnabled)
  THEN UNION {{[stored EXCEPT !.seeds = m] : m \in Filed(stored.seeds, n)} : n \in SeedYield}
  ELSE {stored}

\* What a phase's work leaves in the clock's state, before the refresh.
Effects(p) ==
  IF p = "DIGESTION"
  THEN {[state EXCEPT !.duplicate_rate = d] : d \in DuplicateRates}
  ELSE IF p = "CONSOLIDATION"
  THEN {[state EXCEPT !.energy = Spend(state.energy, "MEMORY_PRESSURE", 600)]}
  ELSE {state}

\* REFLECTION judges: a winner leaves its scores, no winner leaves no trace.
Judgement(score) ==
  <<[state EXCEPT !.recent_quality = score[1], !.recent_novelty = score[2]],
    [outcome EXCEPT !.winner = TRUE]>>

Judged ==
  {Judgement(score) : score \in QualityScores \X NoveltyScores} \cup {<<state, outcome>>}

\* CONSOLIDATION hands the cycle's winner, if it has one by then, to the DNA.
Learned(p) ==
  IF p = "CONSOLIDATION" THEN [outcome EXCEPT !.learned = outcome.winner]
  ELSE outcome

Results(p) ==
  IF p = "REFLECTION" THEN Judged ELSE {<<s, Learned(p)>> : s \in Effects(p)}

\* Agents contain BudgetExceeded, so a phase spends up to the ceiling and no
\* further; HUNT calls the router directly and does not contain it.
CallsAfter(n) == IF calls + n > MaxLlmCalls THEN MaxLlmCalls ELSE calls + n

HuntOverBudget(n) == calls + n > MaxLlmCalls

PhaseReturns ==
  /\ pc = "execute"
  /\ \E n \in WantedCalls(state.phase), e \in Published(state.phase),
        records \in Yields(state.phase), r \in Results(state.phase) :
       /\ ~(state.phase = "HUNT" /\ HuntOverBudget(n))
       /\ calls' = CallsAfter(n)
       /\ events' = Publish(e)
       /\ stored' = records
       /\ state' = Refreshed(r[1], records, Publish(e))
       /\ outcome' = r[2]
  /\ pc' = "sync"
  /\ UNCHANGED <<session, stop_requested, disk, bounds>>

\* A CreativeBrainError out of the handler: part of the work is filed, the
\* signals are not refreshed, and the loop carries on.
PhaseFails ==
  /\ pc = "execute"
  /\ state.phase \in FailingPhases
  /\ \E n \in WantedCalls(state.phase), e \in Published(state.phase) \cup {0},
        records \in Yields(state.phase) \cup {stored} :
       /\ ~(state.phase = "HUNT" /\ HuntOverBudget(n))
       /\ calls' = CallsAfter(n)
       /\ events' = Publish(e)
       /\ stored' = records
  /\ outcome' \in {outcome, Learned(state.phase)}
  /\ pc' = "sync"
  /\ UNCHANGED <<state, session, stop_requested, disk, bounds>>

\* BudgetExceeded out of HUNT: _force_sleep enters DEEP_SLEEP at once.
BudgetExceeded ==
  /\ pc = "execute"
  /\ state.phase = "HUNT"
  /\ \E n \in WantedCalls("HUNT"), e \in Published("HUNT") \cup {0},
        records \in Yields("HUNT") \cup {stored} :
       /\ HuntOverBudget(n)
       /\ events' = Publish(e)
       /\ stored' = records
  /\ calls' = MaxLlmCalls
  /\ state' = Enter(state, "DEEP_SLEEP")
  /\ pc' = "forced"
  /\ UNCHANGED <<outcome, session, stop_requested, disk, bounds>>

\* The forced night: refresh, publish, and out of the loop without a save.
ForcedSleep ==
  /\ pc = "forced"
  /\ pc' = "ended"
  /\ state' = Refreshed(state, stored, events)
  /\ events' = Publish(1)
  /\ UNCHANGED <<stored, calls, outcome, session, stop_requested, disk, bounds>>

\* _sync_budget, then the first half of checkpoint_now.
SyncAndSaveState ==
  /\ pc = "sync"
  /\ pc' = "checkpoint"
  /\ state' = [state EXCEPT !.llm_calls = calls]
  /\ saved_state' = state'
  /\ UNCHANGED <<stored, events, calls, outcome, session, stop_requested,
                 saved_completed, bounds>>

\* The second half, then "break" or the next turn of the for loop, of which
\* there are MAX_PHASES_PER_CYCLE: every turn so far entered one phase.
SaveCheckpoint ==
  /\ pc = "checkpoint"
  /\ saved_completed' = cycles_completed
  /\ pc' = IF EndsCycle(state) \/ Len(state.phases_visited) >= MAX_PHASES_PER_CYCLE
           THEN "ended" ELSE "decide"
  /\ UNCHANGED <<state, stored, events, calls, outcome, session, stop_requested,
                 saved_state, bounds>>

\* Variant for mutation runs: a cycle the call budget cut short does not count, and
\* is given back to be run again.
EndCycleUnlessCut ==
  /\ pc = "ended"
  /\ pc' = "last_checkpoint"
  /\ LET cut == calls >= MaxLlmCalls IN
     /\ state' = IF cut THEN [EndDay(state) EXCEPT !.cycle_number = @ - 1] ELSE EndDay(state)
     /\ cycles_completed' = IF cut THEN cycles_completed ELSE cycles_completed + 1
  /\ last_outcome' = TRUE
  /\ saved_state' = state'
  /\ UNCHANGED <<stored, events, calls, outcome, cycles, stop_requested,
                 saved_completed, bounds>>

\* end_cycle, the counter, and the first half of the last checkpoint_now.
EndCycle ==
  /\ pc = "ended"
  /\ pc' = "last_checkpoint"
  /\ state' = EndDay(state)
  /\ cycles_completed' = cycles_completed + 1
  /\ last_outcome' = TRUE
  /\ saved_state' = state'
  /\ UNCHANGED <<stored, events, calls, outcome, cycles, stop_requested,
                 saved_completed, bounds>>

SaveLastCheckpoint ==
  /\ pc = "last_checkpoint"
  /\ pc' = "loop"
  /\ saved_completed' = cycles_completed
  /\ UNCHANGED <<state, stored, events, calls, outcome, session, stop_requested,
                 saved_state, bounds>>

-----------------------------------------------------------------------------

\* What the interpreter does next when it is left alone.
Step ==
  \/ LeaveLoop
  \/ BeginCycle
  \/ EnterPhase
  \/ PhaseReturns
  \/ PhaseFails
  \/ BudgetExceeded
  \/ ForcedSleep
  \/ SyncAndSaveState
  \/ SaveCheckpoint
  \/ EndCycle
  \/ SaveLastCheckpoint
  \/ ShutdownSaveState
  \/ ShutdownSaveCheckpoint

Next ==
  \/ Step
  \/ \E n \in CyclesRequested : Boot(n)
  \/ BootSingle
  \/ RequestStop
  \/ Raise
  \/ Kill
  \/ StopCommand

Spec == Init /\ [][Next]_vars

\* A started process keeps executing; nobody is obliged to start it again.
FairSpec == Spec /\ WF_vars(Step)

=============================================================================
