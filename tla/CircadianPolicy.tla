--------------------------- MODULE CircadianPolicy ---------------------------
(***************************************************************************)
(* The biological clock of the creative brain: the state it reads          *)
(* (domain/entities/circadian.py) and the pure policy that picks the next  *)
(* phase (domain/policies/circadian.py).  The thresholds are configuration *)
(* and therefore CONSTANTS; gauges and scores are counted in tenths of a   *)
(* point and the duplicate rate in percent.                                *)
(*                                                                         *)
(* Of CircadianState the record keeps every field some rule reads, the     *)
(* phases already run and the cycle number.  concept_backlog,              *)
(* graveyard_size, unconsolidated_events, failure_rate, the research-call  *)
(* counter and unfinished_cycles are read by no rule.  The cost ceiling is *)
(* the call ceiling's twin (both are "spent >= maximum" over a counter the *)
(* router accumulates) and llm_calls stands for both.                      *)
(***************************************************************************)
EXTENDS Energy, Sequences

CONSTANTS
  CreativeFloor, ResearchFloor, CriticalFloor,       \* tenths of a gauge point
  MemoryPressureCeiling, NoveltyPressureCeiling,     \* tenths of a gauge point
  NoveltyFloor,                                      \* tenths of a score point
  DuplicateRateCeiling,                              \* percent
  MinObservations,      \* min_observations_before_creating
  MinSeeds,             \* min_seeds_before_tournament
  MaxLlmCalls,          \* max_llm_calls_per_cycle
  DreamModeEnabled, ExplorationEnabled, SecondWindEnabled

ASSUME ThresholdsAssumption ==
  /\ {CreativeFloor, ResearchFloor, CriticalFloor, MemoryPressureCeiling,
      NoveltyPressureCeiling, NoveltyFloor, DuplicateRateCeiling,
      MinObservations, MinSeeds} \subseteq Nat
  /\ MaxLlmCalls \in Nat \ {0}
  /\ {DreamModeEnabled, ExplorationEnabled, SecondWindEnabled} \subseteq BOOLEAN

-----------------------------------------------------------------------------
(* Vocabulary. *)

PHASE_ORDER ==
  <<"AWAKENING", "OBSERVATION", "HUNT", "FOCUS", "CREATION", "DIGESTION",
    "REFLECTION", "SECOND_WIND", "EXPLORATION", "CONSOLIDATION", "DREAMING",
    "DEEP_SLEEP">>

Phases ==
  {"AWAKENING", "OBSERVATION", "HUNT", "FOCUS", "CREATION", "DIGESTION",
   "REFLECTION", "SECOND_WIND", "EXPLORATION", "CONSOLIDATION", "DREAMING",
   "DEEP_SLEEP"}

\* Answered by a rule that does not apply.
NoPhase == "NONE"

PhaseGauge ==
  [AWAKENING |-> "CREATIVE", OBSERVATION |-> "RESEARCH", HUNT |-> "RESEARCH",
   FOCUS |-> "CRITICAL", CREATION |-> "CREATIVE", DIGESTION |-> "CRITICAL",
   REFLECTION |-> "CRITICAL", SECOND_WIND |-> "CREATIVE",
   EXPLORATION |-> "CREATIVE", CONSOLIDATION |-> "CRITICAL",
   DREAMING |-> "CREATIVE", DEEP_SLEEP |-> "CREATIVE"]

PhaseCost ==
  [AWAKENING |-> 20, OBSERVATION |-> 120, HUNT |-> 250, FOCUS |-> 100,
   CREATION |-> 300, DIGESTION |-> 80, REFLECTION |-> 200, SECOND_WIND |-> 220,
   EXPLORATION |-> 180, CONSOLIDATION |-> 150, DREAMING |-> 80, DEEP_SLEEP |-> 0]

CircadianState ==
  [cycle_number : Nat,
   phase : Phases,
   energy : EnergyProfile,
   observation_backlog : Nat,
   research_backlog : Nat,
   seed_backlog : Nat,
   recent_novelty : Nat,
   recent_quality : Nat,
   duplicate_rate : Nat,
   llm_calls : Nat,
   phases_visited : Seq(Phases)]

\* CircadianState(): what a brain that has never run starts from.
FreshState ==
  [cycle_number |-> 0,
   phase |-> "DEEP_SLEEP",
   energy |-> Rested,
   observation_backlog |-> 0,
   research_backlog |-> 0,
   seed_backlog |-> 0,
   recent_novelty |-> 500,
   recent_quality |-> 500,
   duplicate_rate |-> 0,
   llm_calls |-> 0,
   phases_visited |-> <<>>]

Visited(s, p) == \E i \in 1 .. Len(s.phases_visited) : s.phases_visited[i] = p

-----------------------------------------------------------------------------
(* Transitions of the state. *)

\* CircadianState.enter: record the phase and pay for it, whatever is left.
Enter(s, p) ==
  [s EXCEPT !.phase = p,
            !.phases_visited = Append(s.phases_visited, p),
            !.energy = Spend(s.energy, PhaseGauge[p], PhaseCost[p])]

\* Variant for mutation runs: the cycle number is not advanced.
BeginDayUncounted(s) == [s EXCEPT !.phases_visited = <<>>, !.llm_calls = 0]

\* CircadianState.begin_cycle: the backlogs and the quality signals survive.
BeginDay(s) ==
  [s EXCEPT !.cycle_number = s.cycle_number + 1,
            !.phases_visited = <<>>,
            !.llm_calls = 0]

\* Variant for mutation runs: the night restores nothing.
EndDayWithoutRest(s) == s

\* CircadianState.end_cycle.
EndDay(s) == [s EXCEPT !.energy = RestoredBySleep(s.energy)]

-----------------------------------------------------------------------------
(* The rules, in the order decide() consults them.  Each answers a phase   *)
(* or NoPhase.                                                             *)

Level(s, kind) == s.energy[kind]

OverBudget(s) == s.llm_calls >= MaxLlmCalls

RuleBudgetExhausted(s) ==
  IF ~OverBudget(s) THEN NoPhase
  ELSE IF Visited(s, "CONSOLIDATION") THEN "DEEP_SLEEP" ELSE "CONSOLIDATION"

\* Variant for mutation runs: only a sleeper is woken.
RuleWakeSleeper(s) == IF s.phase = "DEEP_SLEEP" THEN "AWAKENING" ELSE NoPhase

RuleMustAwaken(s) ==
  IF s.phase = "DEEP_SLEEP" \/ s.phases_visited = <<>> THEN "AWAKENING" ELSE NoPhase

RuleMemoryPressure(s) ==
  IF /\ Level(s, "MEMORY_PRESSURE") >= MemoryPressureCeiling
     /\ ~Visited(s, "CONSOLIDATION")
  THEN "CONSOLIDATION" ELSE NoPhase

AllGaugesLow(s) ==
  /\ Level(s, "CREATIVE") < CreativeFloor
  /\ Level(s, "CRITICAL") < CriticalFloor
  /\ Level(s, "RESEARCH") < 300

RuleExhausted(s) ==
  IF ~AllGaugesLow(s) THEN NoPhase
  ELSE IF ~Visited(s, "CONSOLIDATION") THEN "CONSOLIDATION"
  ELSE IF DreamModeEnabled /\ ~Visited(s, "DREAMING") THEN "DREAMING"
  ELSE "DEEP_SLEEP"

RuleNeedsObservation(s) ==
  IF /\ ~Visited(s, "OBSERVATION")
     /\ Level(s, "RESEARCH") >= ResearchFloor
  THEN "OBSERVATION" ELSE NoPhase

RuleNeedsResearch(s) ==
  IF /\ ~Visited(s, "HUNT")
     /\ Level(s, "RESEARCH") >= ResearchFloor
     /\ s.observation_backlog > 0
  THEN "HUNT" ELSE NoPhase

Intake(s) == s.observation_backlog + s.research_backlog

RuleDigestBeforeCreating(s) ==
  IF /\ Intake(s) >= 8
     /\ Visited(s, "HUNT")
     /\ ~Visited(s, "DIGESTION")
  THEN "DIGESTION" ELSE NoPhase

RuleReadyToCreate(s) ==
  IF Visited(s, "CREATION") \/ Level(s, "CREATIVE") < CreativeFloor THEN NoPhase
  ELSE IF Visited(s, "FOCUS") THEN "CREATION"
  ELSE IF Intake(s) >= MinObservations THEN "FOCUS"
  ELSE NoPhase

RuleNeedsReflection(s) ==
  IF /\ Visited(s, "CREATION")
     /\ ~Visited(s, "REFLECTION")
     /\ Level(s, "CRITICAL") >= CriticalFloor
  THEN "REFLECTION" ELSE NoPhase

\* Variant for mutation runs: a second wind without a first judgement.
RuleSecondWindUnjudged(s) ==
  IF /\ SecondWindEnabled
     /\ ~Visited(s, "SECOND_WIND")
     /\ s.recent_quality < 550 \/ s.seed_backlog < MinSeeds
     /\ Level(s, "CREATIVE") >= CreativeFloor
  THEN "SECOND_WIND" ELSE NoPhase

RuleSecondWind(s) ==
  IF /\ SecondWindEnabled
     /\ ~Visited(s, "SECOND_WIND")
     /\ Visited(s, "REFLECTION")
     /\ s.recent_quality < 550 \/ s.seed_backlog < MinSeeds
     /\ Level(s, "CREATIVE") >= CreativeFloor
  THEN "SECOND_WIND" ELSE NoPhase

TooSimilar(s) ==
  \/ s.recent_novelty < NoveltyFloor
  \/ s.duplicate_rate > DuplicateRateCeiling
  \/ Level(s, "NOVELTY_PRESSURE") > NoveltyPressureCeiling

RuleExploration(s) ==
  IF /\ ExplorationEnabled
     /\ ~Visited(s, "EXPLORATION")
     /\ Visited(s, "REFLECTION")
     /\ TooSimilar(s)
     /\ Level(s, "CREATIVE") >= CreativeFloor
  THEN "EXPLORATION" ELSE NoPhase

RuleConsolidate(s) ==
  IF Visited(s, "REFLECTION") /\ ~Visited(s, "CONSOLIDATION")
  THEN "CONSOLIDATION" ELSE NoPhase

\* Variant for mutation runs: dreaming does not wait for memory.
RuleDreamAnytime(s) ==
  IF DreamModeEnabled /\ ~Visited(s, "DREAMING") THEN "DREAMING" ELSE NoPhase

RuleDream(s) ==
  IF /\ DreamModeEnabled
     /\ ~Visited(s, "DREAMING")
     /\ Visited(s, "CONSOLIDATION")
  THEN "DREAMING" ELSE NoPhase

-----------------------------------------------------------------------------
(* The fallback: forward through the canonical day. *)

\* The floor of each gauge; a gauge without one is never too low.
FloorOf ==
  [CREATIVE |-> CreativeFloor, RESEARCH |-> ResearchFloor, CRITICAL |-> CriticalFloor,
   NOVELTY_PRESSURE |-> 0, MEMORY_PRESSURE |-> 0]

\* Variant for mutation runs: the fallback ignores the floors.
CanAlwaysAfford(p, s) == p \in Phases

CanAfford(p, s) ==
  PhaseCost[p] = 0 \/ Level(s, PhaseGauge[p]) >= FloorOf[PhaseGauge[p]]

Position(p) == CHOOSE i \in 1 .. 12 : PHASE_ORDER[i] = p

\* The phases still ahead in the canonical day that could run now.
Ahead(s) ==
  {i \in (Position(s.phase) + 1) .. 12 :
     /\ ~Visited(s, PHASE_ORDER[i])
     /\ CanAfford(PHASE_ORDER[i], s)}

First(indices) == CHOOSE i \in indices : \A j \in indices : i <= j

Fallback(s) ==
  IF Ahead(s) # {} THEN PHASE_ORDER[First(Ahead(s))]
  ELSE IF ~Visited(s, "CONSOLIDATION") THEN "CONSOLIDATION"
  ELSE "DEEP_SLEEP"

\* What the thirteen rules say, in the order they are consulted.
Answers(s) ==
  <<RuleBudgetExhausted(s), RuleMustAwaken(s), RuleMemoryPressure(s),
    RuleExhausted(s), RuleNeedsObservation(s), RuleNeedsResearch(s),
    RuleDigestBeforeCreating(s), RuleReadyToCreate(s), RuleNeedsReflection(s),
    RuleSecondWind(s), RuleExploration(s), RuleConsolidate(s), RuleDream(s)>>

Applying(s) == {i \in 1 .. 13 : Answers(s)[i] # NoPhase}

\* The first rule that applies wins; the fallback answers for none.
Decide(s) ==
  IF Applying(s) # {} THEN Answers(s)[First(Applying(s))] ELSE Fallback(s)

EndsCycle(s) == s.phase = "DEEP_SLEEP"

=============================================================================
