---------------------------- MODULE RuntimeProofs ----------------------------
(***************************************************************************)
(* Theorems about the runtime for every value of its constants: any        *)
(* thresholds, budget, backlogs, scores, event traffic, failing phases and *)
(* any number of kills, uncaught exceptions and stop commands.             *)
(***************************************************************************)
EXTENDS RuntimeProperties, FiniteSetTheorems, TLAPS

-----------------------------------------------------------------------------
(* One decision of the circadian policy, whatever the thresholds, gauges,  *)
(* backlogs and budget: what the theorems below lift to whole runs.        *)

-----------------------------------------------------------------------------
(* The first rule and the first phase ahead exist. *)

\* Every non-empty set of at most thirteen positions has a first one.
LEMMA FirstExists ==
  ASSUME NEW S \in SUBSET (1 .. 13), S # {}
  PROVE  /\ First(S) \in S
         /\ \A j \in S : First(S) <= j
<1>1. \E i \in S : \A j \in S : i <= j
  <2> SUFFICES ASSUME \A i \in S : \E j \in S : j < i PROVE FALSE
    OBVIOUS
  <2>1. 1 \notin S /\ 2 \notin S /\ 3 \notin S
    OBVIOUS
  <2>2. 4 \notin S /\ 5 \notin S /\ 6 \notin S
    BY <2>1
  <2>3. 7 \notin S /\ 8 \notin S /\ 9 \notin S
    BY <2>1, <2>2
  <2>4. 10 \notin S /\ 11 \notin S /\ 12 \notin S /\ 13 \notin S
    BY <2>1, <2>2, <2>3
  <2>5. PICK i \in 1 .. 13 : i \in S
    OBVIOUS
  <2>6. \/ i = 1 \/ i = 2 \/ i = 3 \/ i = 4 \/ i = 5 \/ i = 6 \/ i = 7
        \/ i = 8 \/ i = 9 \/ i = 10 \/ i = 11 \/ i = 12 \/ i = 13
    BY <2>5
  <2> QED BY <2>1, <2>2, <2>3, <2>4, <2>5, <2>6
<1> QED BY <1>1 DEF First

\* The fallback answers a phase that has not run and that its gauge can pay
\* for, consolidation if it has not run, or sleep.
LEMMA FallbackAnswer ==
  ASSUME NEW s \in CircadianState
  PROVE  \/ Fallback(s) \in Phases /\ ~Visited(s, Fallback(s)) /\ CanAfford(Fallback(s), s)
         \/ Fallback(s) = "CONSOLIDATION" /\ ~Visited(s, "CONSOLIDATION")
         \/ Fallback(s) = "DEEP_SLEEP"
<1>1. \A i \in 1 .. 12 : PHASE_ORDER[i] \in Phases
  BY DEF PHASE_ORDER, Phases
<1>2. CASE Ahead(s) # {}
  <2>1. Position(s.phase) \in 1 .. 12
    <3>1. s.phase \in Phases
      BY DEF CircadianState
    <3>2. \E i \in 1 .. 12 : PHASE_ORDER[i] = s.phase
      BY <3>1 DEF PHASE_ORDER, Phases
    <3> QED BY <3>2 DEF Position
  <2>2. Ahead(s) \in SUBSET (1 .. 12)
    BY <2>1 DEF Ahead
  <2>3. First(Ahead(s)) \in Ahead(s)
    BY <1>2, <2>2, FirstExists
  <2>4. Fallback(s) = PHASE_ORDER[First(Ahead(s))]
    BY <1>2 DEF Fallback
  <2> QED BY <1>1, <2>2, <2>3, <2>4 DEF Ahead
<1>3. CASE Ahead(s) = {}
  BY <1>3 DEF Fallback
<1> QED BY <1>2, <1>3

\* A decision is the answer of some rule that applies, or the fallback's.
LEMMA DecisionComesFromARule ==
  ASSUME NEW s
  PROVE  \/ \E i \in 1 .. 13 : Answers(s)[i] # NoPhase /\ Decide(s) = Answers(s)[i]
         \/ Decide(s) = Fallback(s)
<1>1. Applying(s) \in SUBSET (1 .. 13)
  BY DEF Applying
<1>2. CASE Applying(s) # {}
  BY <1>1, <1>2, FirstExists DEF Applying, Decide
<1>3. CASE Applying(s) = {}
  BY <1>3 DEF Decide
<1> QED BY <1>2, <1>3

-----------------------------------------------------------------------------
(* What a rule may answer. *)

\* The state a decision is taken in: nobody has gone to sleep today.
Awake(s) ==
  /\ ~Visited(s, "DEEP_SLEEP")
  /\ s.phases_visited # <<>> => s.phase # "DEEP_SLEEP"

\* Nothing has happened yet: AWAKENING has not run either.
LEMMA NothingVisited ==
  ASSUME NEW s, NEW p, s.phases_visited = <<>>
  PROVE  ~Visited(s, p)
BY DEF Visited

\* Each of the thirteen rules answers nothing, or a phase that has not run.
LEMMA RulesAnswerUnvisited ==
  ASSUME NEW s \in CircadianState, Awake(s), NEW i \in 1 .. 13,
         Answers(s)[i] # NoPhase
  PROVE  Answers(s)[i] \in Phases /\ ~Visited(s, Answers(s)[i])
<1> DEFINE Good(p) == p # NoPhase => p \in Phases /\ ~Visited(s, p)
<1>1. Good(RuleBudgetExhausted(s))
  BY DEF RuleBudgetExhausted, Phases, Awake
<1>2. Good(RuleMustAwaken(s))
  BY NothingVisited DEF RuleMustAwaken, Phases, Awake
<1>3. Good(RuleMemoryPressure(s))
  BY DEF RuleMemoryPressure, Phases
<1>4. Good(RuleExhausted(s))
  BY DEF RuleExhausted, Phases, Awake
<1>5. Good(RuleNeedsObservation(s))
  BY DEF RuleNeedsObservation, Phases
<1>6. Good(RuleNeedsResearch(s))
  BY DEF RuleNeedsResearch, Phases
<1>7. Good(RuleDigestBeforeCreating(s))
  BY DEF RuleDigestBeforeCreating, Phases
<1>8. Good(RuleReadyToCreate(s))
  BY DEF RuleReadyToCreate, Phases
<1>9. Good(RuleNeedsReflection(s))
  BY DEF RuleNeedsReflection, Phases
<1>10. Good(RuleSecondWind(s))
  BY DEF RuleSecondWind, Phases
<1>11. Good(RuleExploration(s))
  BY DEF RuleExploration, Phases
<1>12. Good(RuleConsolidate(s))
  BY DEF RuleConsolidate, Phases
<1>13. Good(RuleDream(s))
  BY DEF RuleDream, Phases
<1> QED
  BY <1>1, <1>2, <1>3, <1>4, <1>5, <1>6, <1>7, <1>8, <1>9, <1>10, <1>11,
     <1>12, <1>13 DEF Answers

\* A decision never repeats a phase of the day and is always a phase.
THEOREM DecisionIsUnvisited ==
  ASSUME NEW s \in CircadianState, Awake(s)
  PROVE  Decide(s) \in Phases /\ ~Visited(s, Decide(s))
<1>1. CASE \E i \in 1 .. 13 : Answers(s)[i] # NoPhase /\ Decide(s) = Answers(s)[i]
  BY <1>1, RulesAnswerUnvisited
<1>2. CASE Decide(s) = Fallback(s)
  BY <1>2, FallbackAnswer DEF Phases, Awake
<1> QED BY <1>1, <1>2, DecisionComesFromARule

\* A day that has spent no call yet starts by waking up.
THEOREM DayStartsAwakening ==
  ASSUME NEW s \in CircadianState, s.phases_visited = <<>>, s.llm_calls = 0
  PROVE  Decide(s) = "AWAKENING"
<1>1. RuleBudgetExhausted(s) = NoPhase
  BY ThresholdsAssumption DEF RuleBudgetExhausted, OverBudget, CircadianState
<1>2. RuleMustAwaken(s) = "AWAKENING" /\ RuleMustAwaken(s) # NoPhase
  BY DEF RuleMustAwaken, NoPhase
<1>3. Applying(s) \in SUBSET (1 .. 13) /\ 1 \notin Applying(s) /\ 2 \in Applying(s)
  BY <1>1, <1>2 DEF Applying, Answers
<1>4. First(Applying(s)) = 2
  BY <1>3, FirstExists
<1> QED BY <1>2, <1>3, <1>4 DEF Decide, Answers

-----------------------------------------------------------------------------
(* The floors. *)

Affordable(s, p) == Level(s, PhaseGauge[p]) >= FloorOf[PhaseGauge[p]]

Demanding ==
  {"OBSERVATION", "HUNT", "CREATION", "REFLECTION", "SECOND_WIND", "EXPLORATION"}

\* Every gauge holds a number.
LEMMA LevelIsNumber ==
  ASSUME NEW s \in CircadianState, NEW kind \in EnergyKinds
  PROVE  Level(s, kind) \in Int
<1>1. EnergyLevel \subseteq Int
  BY DEF EnergyLevel, EnergyMin, EnergyMax
<1>2. s.energy \in [EnergyKinds -> EnergyLevel]
  BY DEF CircadianState, EnergyProfile
<1>3. s.energy[kind] \in EnergyLevel
  BY <1>2
<1> QED BY <1>1, <1>3 DEF Level

\* A rule that answers a demanding phase has looked at its gauge.
LEMMA RulesRespectFloors ==
  ASSUME NEW s \in CircadianState, NEW i \in 1 .. 13, Answers(s)[i] \in Demanding
  PROVE  Affordable(s, Answers(s)[i])
<1> DEFINE Good(p) == p \in Demanding => Affordable(s, p)
<1>1. Good(RuleBudgetExhausted(s))
  BY DEF RuleBudgetExhausted, Demanding, NoPhase
<1>2. Good(RuleMustAwaken(s))
  BY DEF RuleMustAwaken, Demanding, NoPhase
<1>3. Good(RuleMemoryPressure(s))
  BY DEF RuleMemoryPressure, Demanding, NoPhase
<1>4. Good(RuleExhausted(s))
  BY DEF RuleExhausted, Demanding, NoPhase
<1>5. Good(RuleNeedsObservation(s))
  BY DEF RuleNeedsObservation, Demanding, NoPhase, Affordable, PhaseGauge, FloorOf
<1>6. Good(RuleNeedsResearch(s))
  BY DEF RuleNeedsResearch, Demanding, NoPhase, Affordable, PhaseGauge, FloorOf
<1>7. Good(RuleDigestBeforeCreating(s))
  BY DEF RuleDigestBeforeCreating, Demanding, NoPhase
<1>8. Good(RuleReadyToCreate(s))
  <2>1. Level(s, "CREATIVE") \in Int
    BY LevelIsNumber DEF EnergyKinds
  <2>2. CreativeFloor \in Int
    BY ThresholdsAssumption DEF ThresholdsAssumption
  <2>3. CASE Level(s, "CREATIVE") < CreativeFloor
    BY <2>3 DEF RuleReadyToCreate, Demanding, NoPhase
  <2>4. CASE Level(s, "CREATIVE") >= CreativeFloor
    <3>1. Affordable(s, "CREATION")
      BY <2>4 DEF Affordable, PhaseGauge, FloorOf
    <3>2. RuleReadyToCreate(s) \in {"CREATION", "FOCUS", NoPhase}
      BY DEF RuleReadyToCreate
    <3> QED BY <3>1, <3>2 DEF Demanding, NoPhase
  <2>5. Level(s, "CREATIVE") < CreativeFloor \/ Level(s, "CREATIVE") >= CreativeFloor
    BY <2>1, <2>2
  <2> QED BY <2>3, <2>4, <2>5
<1>9. Good(RuleNeedsReflection(s))
  BY DEF RuleNeedsReflection, Demanding, NoPhase, Affordable, PhaseGauge, FloorOf
<1>10. Good(RuleSecondWind(s))
  BY DEF RuleSecondWind, Demanding, NoPhase, Affordable, PhaseGauge, FloorOf
<1>11. Good(RuleExploration(s))
  BY DEF RuleExploration, Demanding, NoPhase, Affordable, PhaseGauge, FloorOf
<1>12. Good(RuleConsolidate(s))
  BY DEF RuleConsolidate, Demanding, NoPhase
<1>13. Good(RuleDream(s))
  BY DEF RuleDream, Demanding, NoPhase
<1> QED
  BY <1>1, <1>2, <1>3, <1>4, <1>5, <1>6, <1>7, <1>8, <1>9, <1>10, <1>11,
     <1>12, <1>13 DEF Answers

\* No decision, by rule or by fallback, picks a demanding phase below its floor.
THEOREM DecisionRespectsFloors ==
  ASSUME NEW s \in CircadianState, Decide(s) \in Demanding
  PROVE  Affordable(s, Decide(s))
<1>1. CASE \E i \in 1 .. 13 : Answers(s)[i] # NoPhase /\ Decide(s) = Answers(s)[i]
  BY <1>1, RulesRespectFloors
<1>2. CASE Decide(s) = Fallback(s)
  <2>1. CanAfford(Decide(s), s)
    BY <1>2, FallbackAnswer DEF Demanding
  <2>2. PhaseCost[Decide(s)] # 0
    BY DEF Demanding, PhaseCost
  <2> QED BY <2>1, <2>2 DEF CanAfford, Affordable
<1> QED BY <1>1, <1>2, DecisionComesFromARule

-----------------------------------------------------------------------------
(* The order of the day. *)

\* The phases that do the day's work, in the order WorkInOrder asks for.
Rank ==
  [OBSERVATION |-> 1, HUNT |-> 2, FOCUS |-> 3, CREATION |-> 4, REFLECTION |-> 5,
   SECOND_WIND |-> 6, EXPLORATION |-> 6]

Working ==
  {"OBSERVATION", "HUNT", "FOCUS", "CREATION", "REFLECTION", "SECOND_WIND", "EXPLORATION"}

\* The day's work so far was done in order.
InOrder(s) ==
  \A i, j \in 1 .. Len(s.phases_visited) :
    /\ i < j
    /\ s.phases_visited[i] \in Working
    /\ s.phases_visited[j] \in Working
    => Rank[s.phases_visited[i]] <= Rank[s.phases_visited[j]]

\* The day is past the work of rank k.
Past(s, k) == \E p \in Working : Rank[p] > k /\ Visited(s, p)

\* Work the day is past was done, or the gauge it draws on, which no phase refills,
\* stays below its floor.
TurnsAreOver(s) ==
  /\ Past(s, 1) => Visited(s, "OBSERVATION") \/ Level(s, "RESEARCH") < ResearchFloor
  /\ Past(s, 2) \/ Visited(s, "DIGESTION") =>
       Visited(s, "HUNT") \/ Level(s, "RESEARCH") < ResearchFloor
  /\ Past(s, 4) => \/ Visited(s, "CREATION") \/ Level(s, "CREATIVE") < CreativeFloor
                   \/ ~Visited(s, "FOCUS")
  /\ Past(s, 5) => Visited(s, "REFLECTION") \/ Level(s, "CRITICAL") < CriticalFloor

\* The mind awakens before everything else.
WakesFirst(s) == s.phases_visited # <<>> /\ s.phase = "AWAKENING" => Len(s.phases_visited) = 1

OrderedDay(s) == InOrder(s) /\ TurnsAreOver(s) /\ WakesFirst(s)

HasFocused(s) == Visited(s, "FOCUS") \/ Visited(s, "CREATION") \/ Level(s, "CREATIVE") < CreativeFloor

\* Stale signals do not call for FOCUS once its turn is over: too little is taken in,
\* and the signals say so truly.  A digestion meets enough, or leaves them true.
IntakeSettled(s, current) ==
  /\ Past(s, 3) => HasFocused(s) \/ (current /\ Intake(s) < MinObservations)
  /\ s.phases_visited # <<>> /\ s.phase = "DIGESTION" =>
       HasFocused(s) \/ Intake(s) >= 8 \/ current

\* Findings are of what was observed.
SeenFirst(s) == s.observation_backlog = 0 => s.research_backlog = 0

\* The intake that makes creating worthwhile is some, and no more than what is digested.
SensibleIntake == MinObservations \in 1 .. 8

\* The last phase entered is the one the mind is in.
Placed(s) == s.phases_visited # <<>> => s.phase = s.phases_visited[Len(s.phases_visited)]

\* The rule whose answer is taken is the first to have one; the fallback only
\* speaks when all thirteen are silent.
LEMMA DecisionIsTheFirstAnswer ==
  ASSUME NEW s
  PROVE  \/ \E i \in 1 .. 13 :
              /\ Answers(s)[i] # NoPhase
              /\ Decide(s) = Answers(s)[i]
              /\ \A j \in 1 .. 13 : j < i => Answers(s)[j] = NoPhase
         \/ /\ Decide(s) = Fallback(s)
            /\ \A j \in 1 .. 13 : Answers(s)[j] = NoPhase
<1>1. Applying(s) \in SUBSET (1 .. 13)
  BY DEF Applying
<1>2. CASE Applying(s) # {}
  <2>1. /\ First(Applying(s)) \in Applying(s)
        /\ \A j \in Applying(s) : First(Applying(s)) <= j
    BY <1>1, <1>2, FirstExists
  <2>2. \A j \in 1 .. 13 : j < First(Applying(s)) => j \notin Applying(s)
    BY <1>1, <2>1
  <2> QED BY <1>2, <2>1, <2>2 DEF Applying, Decide
<1>3. CASE Applying(s) = {}
  BY <1>3 DEF Applying, Decide
<1> QED BY <1>2, <1>3

\* What each rule may answer.
LEMMA RuleAnswers ==
  ASSUME NEW s
  PROVE  /\ Answers(s)[1] \in {NoPhase, "CONSOLIDATION", "DEEP_SLEEP"}
         /\ Answers(s)[2] \in {NoPhase, "AWAKENING"}
         /\ Answers(s)[3] \in {NoPhase, "CONSOLIDATION"}
         /\ Answers(s)[4] \in {NoPhase, "CONSOLIDATION", "DREAMING", "DEEP_SLEEP"}
         /\ Answers(s)[5] \in {NoPhase, "OBSERVATION"}
         /\ Answers(s)[6] \in {NoPhase, "HUNT"}
         /\ Answers(s)[7] \in {NoPhase, "DIGESTION"}
         /\ Answers(s)[8] \in {NoPhase, "FOCUS", "CREATION"}
         /\ Answers(s)[9] \in {NoPhase, "REFLECTION"}
         /\ Answers(s)[10] \in {NoPhase, "SECOND_WIND"}
         /\ Answers(s)[11] \in {NoPhase, "EXPLORATION"}
         /\ Answers(s)[12] \in {NoPhase, "CONSOLIDATION"}
         /\ Answers(s)[13] \in {NoPhase, "DREAMING"}
<1>1. /\ Answers(s)[1] \in {NoPhase, "CONSOLIDATION", "DEEP_SLEEP"}
      /\ Answers(s)[2] \in {NoPhase, "AWAKENING"}
      /\ Answers(s)[3] \in {NoPhase, "CONSOLIDATION"}
      /\ Answers(s)[4] \in {NoPhase, "CONSOLIDATION", "DREAMING", "DEEP_SLEEP"}
  BY DEF Answers, RuleBudgetExhausted, RuleMustAwaken, RuleMemoryPressure, RuleExhausted
<1>2. /\ Answers(s)[5] \in {NoPhase, "OBSERVATION"}
      /\ Answers(s)[6] \in {NoPhase, "HUNT"}
      /\ Answers(s)[7] \in {NoPhase, "DIGESTION"}
      /\ Answers(s)[8] \in {NoPhase, "FOCUS", "CREATION"}
      /\ Answers(s)[9] \in {NoPhase, "REFLECTION"}
  BY DEF Answers, RuleNeedsObservation, RuleNeedsResearch, RuleDigestBeforeCreating,
         RuleReadyToCreate, RuleNeedsReflection
<1>3. /\ Answers(s)[10] \in {NoPhase, "SECOND_WIND"}
      /\ Answers(s)[11] \in {NoPhase, "EXPLORATION"}
      /\ Answers(s)[12] \in {NoPhase, "CONSOLIDATION"}
      /\ Answers(s)[13] \in {NoPhase, "DREAMING"}
  BY DEF Answers, RuleSecondWind, RuleExploration, RuleConsolidate, RuleDream
<1> QED BY <1>1, <1>2, <1>3

\* Nothing comes before its turn: a rule that gives the mind work found the rules
\* for earlier work silent, and so did the fallback.
LEMMA EarlierWorkIsSilent ==
  ASSUME NEW s
  PROVE  /\ Decide(s) \in Working \ {"OBSERVATION"} => Answers(s)[5] = NoPhase
         /\ Decide(s) \in Working \ {"OBSERVATION", "HUNT"} => Answers(s)[6] = NoPhase
<1>1. CASE \A j \in 1 .. 13 : Answers(s)[j] = NoPhase
  BY <1>1
<1>2. ASSUME NEW i \in 1 .. 13, Answers(s)[i] # NoPhase, Decide(s) = Answers(s)[i],
             \A j \in 1 .. 13 : j < i => Answers(s)[j] = NoPhase
      PROVE  /\ Decide(s) \in Working \ {"OBSERVATION"} => Answers(s)[5] = NoPhase
             /\ Decide(s) \in Working \ {"OBSERVATION", "HUNT"} => Answers(s)[6] = NoPhase
  <2>1. CASE i <= 4
    BY <1>2, <2>1, RuleAnswers DEF Working, NoPhase
  <2>2. CASE i = 5
    BY <1>2, <2>2, RuleAnswers DEF NoPhase
  <2>3. CASE i = 6
    BY <1>2, <2>3, RuleAnswers DEF NoPhase
  <2>4. CASE i > 6
    BY <1>2, <2>4
  <2> QED BY <2>1, <2>2, <2>3, <2>4
<1> QED BY <1>1, <1>2, DecisionIsTheFirstAnswer

\* The fallback looks forward: what it answers comes later in PHASE_ORDER, can be
\* afforded, and nothing in between was left that could.
LEMMA FallbackLooksAhead ==
  ASSUME NEW s \in CircadianState, Fallback(s) \notin {"CONSOLIDATION", "DEEP_SLEEP"}
  PROVE  \E m, k \in 1 .. 12 :
           /\ m < k /\ PHASE_ORDER[m] = s.phase /\ PHASE_ORDER[k] = Fallback(s)
           /\ CanAfford(Fallback(s), s)
           /\ \A j \in 1 .. 12 : m < j /\ j < k =>
                Visited(s, PHASE_ORDER[j]) \/ ~CanAfford(PHASE_ORDER[j], s)
<1>1. Ahead(s) # {} /\ Fallback(s) = PHASE_ORDER[First(Ahead(s))]
  BY DEF Fallback
<1>2. Position(s.phase) \in 1 .. 12 /\ PHASE_ORDER[Position(s.phase)] = s.phase
  <2>1. s.phase \in Phases
    BY DEF CircadianState
  <2>2. \E i \in 1 .. 12 : PHASE_ORDER[i] = s.phase
    BY <2>1 DEF PHASE_ORDER, Phases
  <2> QED BY <2>2 DEF Position
<1>3. Ahead(s) \in SUBSET (1 .. 12)
  BY <1>2 DEF Ahead
<1>4. First(Ahead(s)) \in Ahead(s) /\ \A j \in Ahead(s) : First(Ahead(s)) <= j
  BY <1>1, <1>3, FirstExists
<1>5. /\ First(Ahead(s)) \in 1 .. 12 /\ Position(s.phase) < First(Ahead(s))
      /\ CanAfford(Fallback(s), s)
  BY <1>1, <1>2, <1>4 DEF Ahead
<1>6. ASSUME NEW j \in 1 .. 12, Position(s.phase) < j, j < First(Ahead(s))
      PROVE  Visited(s, PHASE_ORDER[j]) \/ ~CanAfford(PHASE_ORDER[j], s)
  <2>1. j \notin Ahead(s)
    BY <1>4, <1>5, <1>6
  <2> QED BY <1>2, <1>6, <2>1 DEF Ahead
<1> QED BY <1>1, <1>2, <1>5, <1>6

\* PHASE_ORDER lists the day's work by rank.
LEMMA CanonicalDay ==
  ASSUME NEW m \in 1 .. 12, NEW k \in 1 .. 12, m < k
  PROVE  /\ PHASE_ORDER[m] \in Working /\ PHASE_ORDER[k] \in Working
              => Rank[PHASE_ORDER[m]] <= Rank[PHASE_ORDER[k]]
         /\ PHASE_ORDER[k] # "AWAKENING"
         /\ PHASE_ORDER[m] # "DEEP_SLEEP"
BY SMTT(30) DEF PHASE_ORDER, Working, Rank

LEMMA RanksAreNumbers == \A p \in Working : Rank[p] \in 1 .. 6
BY DEF Working, Rank

\* A day in order stays in order when what is added is no work, or work it is not
\* past yet.
LEMMA OrderGrows ==
  ASSUME NEW s, NEW t, NEW p, s.phases_visited \in Seq(Phases), InOrder(s),
         t.phases_visited = Append(s.phases_visited, p),
         p \in Working => ~Past(s, Rank[p])
  PROVE  InOrder(t)
<1> DEFINE v == s.phases_visited
           w == t.phases_visited
<1>1. /\ Len(v) \in Nat /\ Len(w) = Len(v) + 1
      /\ \A i \in 1 .. Len(v) : w[i] = v[i]
      /\ w[Len(v) + 1] = p
  OBVIOUS
<1>2. /\ \A i, j \in 1 .. Len(v) :
           i < j /\ v[i] \in Working /\ v[j] \in Working => Rank[v[i]] <= Rank[v[j]]
      /\ \A q \in Working : (\E i \in 1 .. Len(v) : v[i] = q) /\ p \in Working
           => ~(Rank[q] > Rank[p])
  BY DEF InOrder, Past, Visited
<1> HIDE DEF v, w
<1>3. ASSUME NEW i \in 1 .. Len(w), NEW j \in 1 .. Len(w), i < j,
             w[i] \in Working, w[j] \in Working
      PROVE  Rank[w[i]] <= Rank[w[j]]
  <2>1. i \in 1 .. Len(v)
    BY <1>1, <1>3
  <2>2. CASE j \in 1 .. Len(v)
    BY <1>1, <1>2, <1>3, <2>1, <2>2
  <2>3. CASE j = Len(v) + 1
    <3>1. PICK q \in Working : q = w[i]
      BY <1>3
    <3>2. p \in Working /\ w[j] = p
      BY <1>1, <1>3, <2>3
    <3>3. ~(Rank[q] > Rank[p])
      BY <1>1, <1>2, <2>1, <3>1, <3>2
    <3>4. Rank[q] \in 1 .. 6 /\ Rank[p] \in 1 .. 6
      BY <3>2, RanksAreNumbers
    <3>5. Rank[q] <= Rank[p]
      BY <3>3, <3>4
    <3> QED BY <3>1, <3>2, <3>5
  <2> QED BY <1>1, <1>3, <2>2, <2>3
<1> QED BY <1>3 DEF InOrder, w

\* While the mind is at work, the day is not past the work it is at.
LEMMA NotPastItself ==
  ASSUME NEW s \in CircadianState, s.phases_visited # <<>>, Placed(s), InOrder(s), WakesFirst(s)
  PROVE  /\ Visited(s, s.phase)
         /\ s.phase \in Working => ~Past(s, Rank[s.phase])
         /\ s.phase = "AWAKENING" => ~Past(s, 0)
<1>0. /\ s.phases_visited \in Seq(Phases) /\ Len(s.phases_visited) \in Nat \ {0}
      /\ s.phase = s.phases_visited[Len(s.phases_visited)]
  BY DEF CircadianState, Placed
<1>1. ASSUME s.phase \in Working, NEW p \in Working, Visited(s, p) PROVE Rank[p] <= Rank[s.phase]
  <2>1. PICK i \in 1 .. Len(s.phases_visited) : s.phases_visited[i] = p
    BY <1>1 DEF Visited
  <2>2. CASE i = Len(s.phases_visited)
    BY <1>0, <1>1, <2>1, <2>2, RanksAreNumbers
  <2>3. CASE i # Len(s.phases_visited)
    <3>1. i < Len(s.phases_visited) /\ Len(s.phases_visited) \in 1 .. Len(s.phases_visited)
      BY <1>0, <2>3
    <3> QED BY <1>0, <1>1, <2>1, <3>1 DEF InOrder
  <2> QED BY <2>2, <2>3
<1>2. ASSUME s.phase = "AWAKENING", NEW p \in Working, Visited(s, p) PROVE FALSE
  <2>1. Len(s.phases_visited) = 1
    BY <1>2 DEF WakesFirst
  <2>2. PICK i \in 1 .. Len(s.phases_visited) : s.phases_visited[i] = p
    BY <1>2 DEF Visited
  <2>3. p = s.phase
    BY <1>0, <2>1, <2>2
  <2> QED BY <1>2, <2>3 DEF Working
<1>3. ASSUME s.phase \in Working, Past(s, Rank[s.phase]) PROVE FALSE
  BY <1>1, <1>3, RanksAreNumbers DEF Past
<1>4. Visited(s, s.phase)
  BY <1>0 DEF Visited
<1> QED BY <1>2, <1>3, <1>4 DEF Past

\* A day past rank k is past every lower rank.
LEMMA PastIsMonotone ==
  ASSUME NEW s, NEW k \in Int, NEW n \in Int, n <= k, Past(s, k) PROVE Past(s, n)
BY RanksAreNumbers DEF Past

LEMMA WorkIsBehind ==
  ASSUME NEW s
  PROVE  /\ Visited(s, "FOCUS") => Past(s, 1) /\ Past(s, 2)
         /\ Visited(s, "CREATION") => Past(s, 1) /\ Past(s, 2) /\ Past(s, 3)
         /\ Visited(s, "REFLECTION") => Past(s, 1) /\ Past(s, 2) /\ Past(s, 3) /\ Past(s, 4)
         /\ Visited(s, "SECOND_WIND") \/ Visited(s, "EXPLORATION") =>
              Past(s, 1) /\ Past(s, 2) /\ Past(s, 3) /\ Past(s, 4) /\ Past(s, 5)
         /\ ~Past(s, 6)
BY DEF Past, Working, Rank

\* What a floor under a phase's gauge says.
LEMMA WhatIsAffordable ==
  ASSUME NEW s \in CircadianState
  PROVE  /\ CanAfford("HUNT", s) <=> ~(Level(s, "RESEARCH") < ResearchFloor)
         /\ \A p \in {"FOCUS", "DIGESTION", "REFLECTION"} :
              CanAfford(p, s) <=> ~(Level(s, "CRITICAL") < CriticalFloor)
         /\ CanAfford("CREATION", s) <=> ~(Level(s, "CREATIVE") < CreativeFloor)
<1>1. /\ Level(s, "CREATIVE") \in Int /\ Level(s, "RESEARCH") \in Int /\ Level(s, "CRITICAL") \in Int
  BY LevelIsNumber DEF EnergyKinds
<1>2. CreativeFloor \in Int /\ CriticalFloor \in Int /\ ResearchFloor \in Int
  BY ThresholdsAssumption DEF ThresholdsAssumption
<1> QED BY <1>1, <1>2 DEF CanAfford, PhaseCost, PhaseGauge, FloorOf

\* Where the fallback sends the mind on, and what it then leaves behind for good.
LEMMA FallbackLeaves ==
  ASSUME NEW s \in CircadianState, s.phases_visited # <<>>, Placed(s), InOrder(s), WakesFirst(s),
         Decide(s) = Fallback(s), Decide(s) \in Working \cup {"DIGESTION"}
  PROVE  /\ s.phase \in Working \cup {"AWAKENING", "DIGESTION"}
         /\ Decide(s) \in Working /\ s.phase \in Working => Rank[s.phase] <= Rank[Decide(s)]
         /\ s.phase = "DIGESTION" =>
              \/ Decide(s) = "REFLECTION" /\ ~(Level(s, "CRITICAL") < CriticalFloor)
              \/ Decide(s) \in {"SECOND_WIND", "EXPLORATION"}
         /\ Decide(s) \notin {"OBSERVATION", "HUNT"} /\ s.phase \in {"AWAKENING", "OBSERVATION"} =>
              Visited(s, "HUNT") \/ Level(s, "RESEARCH") < ResearchFloor
         /\ Decide(s) = "DIGESTION" /\ s.phase \in {"AWAKENING", "OBSERVATION", "HUNT"} =>
              Visited(s, "FOCUS")
         /\ /\ Decide(s) \in {"REFLECTION", "SECOND_WIND", "EXPLORATION"}
            /\ s.phase \in {"AWAKENING", "OBSERVATION", "HUNT", "FOCUS"}
            => Visited(s, "CREATION") \/ Level(s, "CREATIVE") < CreativeFloor
         /\ /\ Decide(s) \in {"SECOND_WIND", "EXPLORATION"}
            /\ s.phase \notin {"REFLECTION", "SECOND_WIND", "EXPLORATION"}
            => Visited(s, "REFLECTION") \/ Level(s, "CRITICAL") < CriticalFloor
         /\ Decide(s) = "DIGESTION" =>
              s.phase \notin {"DIGESTION", "REFLECTION", "SECOND_WIND", "EXPLORATION"}
<1>1. PICK m, k \in 1 .. 12 :
        /\ m < k /\ PHASE_ORDER[m] = s.phase /\ PHASE_ORDER[k] = Decide(s)
        /\ CanAfford(Decide(s), s)
        /\ \A j \in 1 .. 12 : m < j /\ j < k =>
             Visited(s, PHASE_ORDER[j]) \/ ~CanAfford(PHASE_ORDER[j], s)
  BY FallbackLooksAhead DEF Working
<1>2. k \in {2, 3, 4, 5, 6, 7, 8, 9}
  BY <1>1 DEF PHASE_ORDER, Working
<1>3. m \in {1, 2, 3, 4, 5, 6, 7, 8}
  BY <1>1, <1>2
<1>4. s.phase \in Working \cup {"AWAKENING", "DIGESTION"}
  BY <1>1, <1>3 DEF PHASE_ORDER, Working
<1>5. Decide(s) \in Working /\ s.phase \in Working => Rank[s.phase] <= Rank[Decide(s)]
  BY <1>1, CanonicalDay
<1>6. s.phase = "DIGESTION" =>
        \/ Decide(s) = "REFLECTION" /\ ~(Level(s, "CRITICAL") < CriticalFloor)
        \/ Decide(s) \in {"SECOND_WIND", "EXPLORATION"}
  BY <1>1, <1>2, WhatIsAffordable DEF PHASE_ORDER
<1>7. Decide(s) \notin {"OBSERVATION", "HUNT"} /\ s.phase \in {"AWAKENING", "OBSERVATION"} =>
        Visited(s, "HUNT") \/ Level(s, "RESEARCH") < ResearchFloor
  <2>1. SUFFICES ASSUME Decide(s) \notin {"OBSERVATION", "HUNT"}, s.phase \in {"AWAKENING", "OBSERVATION"}
                 PROVE  Visited(s, "HUNT") \/ Level(s, "RESEARCH") < ResearchFloor
    OBVIOUS
  <2>2. m < 3 /\ 3 < k
    BY <1>1, <1>2, <1>3, <2>1 DEF PHASE_ORDER
  <2> QED BY <1>1, <2>2, WhatIsAffordable DEF PHASE_ORDER
<1>8. Decide(s) = "DIGESTION" /\ s.phase \in {"AWAKENING", "OBSERVATION", "HUNT"} => Visited(s, "FOCUS")
  <2>1. SUFFICES ASSUME Decide(s) = "DIGESTION", s.phase \in {"AWAKENING", "OBSERVATION", "HUNT"}
                 PROVE  Visited(s, "FOCUS")
    OBVIOUS
  <2>2. m < 4 /\ 4 < k
    BY <1>1, <1>2, <1>3, <2>1 DEF PHASE_ORDER
  <2>3. Visited(s, "FOCUS") \/ ~CanAfford("FOCUS", s)
    BY <1>1, <2>2 DEF PHASE_ORDER
  <2> QED BY <1>1, <2>1, <2>3, WhatIsAffordable
<1>9. /\ Decide(s) \in {"REFLECTION", "SECOND_WIND", "EXPLORATION"}
      /\ s.phase \in {"AWAKENING", "OBSERVATION", "HUNT", "FOCUS"}
      => Visited(s, "CREATION") \/ Level(s, "CREATIVE") < CreativeFloor
  <2>1. SUFFICES ASSUME Decide(s) \in {"REFLECTION", "SECOND_WIND", "EXPLORATION"},
                        s.phase \in {"AWAKENING", "OBSERVATION", "HUNT", "FOCUS"}
                 PROVE  Visited(s, "CREATION") \/ Level(s, "CREATIVE") < CreativeFloor
    OBVIOUS
  <2>2. m < 5 /\ 5 < k
    BY <1>1, <1>2, <1>3, <2>1 DEF PHASE_ORDER
  <2> QED BY <1>1, <2>2, WhatIsAffordable DEF PHASE_ORDER
<1>10. /\ Decide(s) \in {"SECOND_WIND", "EXPLORATION"}
       /\ s.phase \notin {"REFLECTION", "SECOND_WIND", "EXPLORATION"}
       => Visited(s, "REFLECTION") \/ Level(s, "CRITICAL") < CriticalFloor
  <2>1. SUFFICES ASSUME Decide(s) \in {"SECOND_WIND", "EXPLORATION"},
                        s.phase \notin {"REFLECTION", "SECOND_WIND", "EXPLORATION"}
                 PROVE  Visited(s, "REFLECTION") \/ Level(s, "CRITICAL") < CriticalFloor
    OBVIOUS
  <2>2. m < 7 /\ 7 < k
    BY <1>1, <1>2, <1>3, <2>1 DEF PHASE_ORDER
  <2> QED BY <1>1, <2>2, WhatIsAffordable DEF PHASE_ORDER
<1>11. Decide(s) = "DIGESTION" =>
         s.phase \notin {"DIGESTION", "REFLECTION", "SECOND_WIND", "EXPLORATION"}
  BY <1>1, <1>2, <1>3 DEF PHASE_ORDER
<1> QED BY <1>4, <1>5, <1>6, <1>7, <1>8, <1>9, <1>10, <1>11


\* Every work the mind is given comes from one rule, which says what it found.
LEMMA WorkComesFrom ==
  ASSUME NEW s \in CircadianState, Decide(s) \in Working \cup {"DIGESTION"}
  PROVE  \/ Decide(s) = Fallback(s) /\ \A j \in 1 .. 13 : Answers(s)[j] = NoPhase
         \/ /\ Decide(s) = "OBSERVATION"
            /\ ~Visited(s, "OBSERVATION") /\ ~(Level(s, "RESEARCH") < ResearchFloor)
         \/ /\ Decide(s) = "HUNT"
            /\ ~Visited(s, "HUNT") /\ ~(Level(s, "RESEARCH") < ResearchFloor)
         \/ /\ Decide(s) = "DIGESTION" /\ Visited(s, "HUNT") /\ Intake(s) >= 8
         \/ /\ Decide(s) = "FOCUS" /\ ~HasFocused(s) /\ Intake(s) >= MinObservations
         \/ /\ Decide(s) = "CREATION" /\ Visited(s, "FOCUS")
            /\ ~Visited(s, "CREATION") /\ ~(Level(s, "CREATIVE") < CreativeFloor)
         \/ /\ Decide(s) = "REFLECTION" /\ Visited(s, "CREATION")
            /\ ~Visited(s, "REFLECTION") /\ ~(Level(s, "CRITICAL") < CriticalFloor)
         \/ /\ Decide(s) \in {"SECOND_WIND", "EXPLORATION"} /\ Visited(s, "REFLECTION")
<1>0. /\ Level(s, "CREATIVE") \in Int /\ Level(s, "RESEARCH") \in Int /\ Level(s, "CRITICAL") \in Int
      /\ CreativeFloor \in Int /\ CriticalFloor \in Int /\ ResearchFloor \in Int
  BY LevelIsNumber, ThresholdsAssumption DEF ThresholdsAssumption, EnergyKinds
<1>1. CASE Decide(s) = Fallback(s) /\ \A j \in 1 .. 13 : Answers(s)[j] = NoPhase
  BY <1>1
<1>2. ASSUME NEW i \in 1 .. 13, Answers(s)[i] # NoPhase, Decide(s) = Answers(s)[i] PROVE
         \/ /\ Decide(s) = "OBSERVATION"
            /\ ~Visited(s, "OBSERVATION") /\ ~(Level(s, "RESEARCH") < ResearchFloor)
         \/ /\ Decide(s) = "HUNT"
            /\ ~Visited(s, "HUNT") /\ ~(Level(s, "RESEARCH") < ResearchFloor)
         \/ /\ Decide(s) = "DIGESTION" /\ Visited(s, "HUNT") /\ Intake(s) >= 8
         \/ /\ Decide(s) = "FOCUS" /\ ~HasFocused(s) /\ Intake(s) >= MinObservations
         \/ /\ Decide(s) = "CREATION" /\ Visited(s, "FOCUS")
            /\ ~Visited(s, "CREATION") /\ ~(Level(s, "CREATIVE") < CreativeFloor)
         \/ /\ Decide(s) = "REFLECTION" /\ Visited(s, "CREATION")
            /\ ~Visited(s, "REFLECTION") /\ ~(Level(s, "CRITICAL") < CriticalFloor)
         \/ /\ Decide(s) \in {"SECOND_WIND", "EXPLORATION"} /\ Visited(s, "REFLECTION")
  <2>1. i \in 5 .. 11
    BY <1>2, RuleAnswers DEF Working, NoPhase
  <2>2. CASE i \in {5, 6}
    BY <1>0, <1>2, <2>2 DEF Answers, RuleNeedsObservation, RuleNeedsResearch, NoPhase
  <2>3. CASE i = 7
    BY <1>2, <2>3 DEF Answers, RuleDigestBeforeCreating, NoPhase
  <2>4. CASE i = 8
    BY <1>0, <1>2, <2>4 DEF Answers, RuleReadyToCreate, NoPhase, HasFocused
  <2>5. CASE i = 9
    BY <1>0, <1>2, <2>5 DEF Answers, RuleNeedsReflection, NoPhase
  <2>6. CASE i \in {10, 11}
    BY <1>2, <2>6 DEF Answers, RuleSecondWind, RuleExploration, NoPhase
  <2> QED BY <2>1, <2>2, <2>3, <2>4, <2>5, <2>6
<1> QED BY <1>1, <1>2, DecisionComesFromARule, DecisionIsTheFirstAnswer

\* No work is taken up once later work was done.
LEMMA WorkIsTakenInTurn ==
  ASSUME NEW s \in CircadianState, s.phases_visited # <<>>, s.phase # "DEEP_SLEEP", Placed(s),
         OrderedDay(s), NEW current \in BOOLEAN, IntakeSettled(s, current), SensibleIntake
  PROVE  /\ Decide(s) \in Working => ~Past(s, Rank[Decide(s)])
         /\ Decide(s) # "AWAKENING"
<1>0. InOrder(s) /\ TurnsAreOver(s) /\ WakesFirst(s)
  BY DEF OrderedDay
<1>1. Decide(s) # "AWAKENING"
  <2>1. Answers(s)[2] = NoPhase
    BY DEF Answers, RuleMustAwaken
  <2>2. ASSUME NEW i \in 1 .. 13, Answers(s)[i] # NoPhase, Decide(s) = Answers(s)[i]
        PROVE  Decide(s) # "AWAKENING"
    BY <2>1, <2>2, RuleAnswers DEF NoPhase
  <2>3. ASSUME Decide(s) = Fallback(s) PROVE Decide(s) # "AWAKENING"
    BY <2>3, FallbackLooksAhead, CanonicalDay
  <2> QED BY <2>2, <2>3, DecisionIsTheFirstAnswer
<1>2. SUFFICES ASSUME Decide(s) \in Working, Past(s, Rank[Decide(s)]) PROVE FALSE
  BY <1>1
<1>3. Rank[Decide(s)] \in 1 .. 6
  BY <1>2, RanksAreNumbers
<1>4. CASE Decide(s) = Fallback(s)
  <2>1. CASE s.phase = "DIGESTION"
    <3>1. \/ Decide(s) = "REFLECTION" /\ ~(Level(s, "CRITICAL") < CriticalFloor)
          \/ Decide(s) \in {"SECOND_WIND", "EXPLORATION"}
      BY <1>0, <1>2, <1>4, <2>1, FallbackLeaves
    <3>2. CASE Decide(s) \in {"SECOND_WIND", "EXPLORATION"}
      BY <1>2, <3>2, WorkIsBehind DEF Rank
    <3>3. CASE Decide(s) = "REFLECTION" /\ ~(Level(s, "CRITICAL") < CriticalFloor)
      <4>1. Past(s, 5) /\ Visited(s, "REFLECTION")
        BY <1>0, <1>2, <3>3 DEF Rank, TurnsAreOver
      <4>2. PICK m, k \in 1 .. 12 :
              /\ m < k /\ PHASE_ORDER[m] = s.phase /\ PHASE_ORDER[k] = Decide(s)
        BY <1>2, <1>4, FallbackLooksAhead DEF Working
      <4>3. ~Visited(s, Decide(s))
        BY <1>4, <3>3, FallbackAnswer
      <4> QED BY <3>3, <4>1, <4>3
    <3> QED BY <3>1, <3>2, <3>3
  <2>2. CASE s.phase = "AWAKENING"
    BY <1>0, <1>2, <1>3, <2>2, PastIsMonotone, NotPastItself
  <2>3. CASE s.phase \in Working
    <3>1. Rank[s.phase] <= Rank[Decide(s)] /\ Rank[s.phase] \in 1 .. 6
      BY <1>0, <1>2, <1>4, <2>3, FallbackLeaves, RanksAreNumbers
    <3>2. Past(s, Rank[s.phase])
      BY <1>2, <1>3, <3>1, PastIsMonotone
    <3> QED BY <1>0, <2>3, <3>2, NotPastItself
  <2> QED BY <1>0, <1>2, <1>4, <2>1, <2>2, <2>3, FallbackLeaves
<1>5. CASE Decide(s) # Fallback(s)
  <2>1. CASE Decide(s) \in {"OBSERVATION", "HUNT"}
    BY <1>0, <1>2, <1>5, <2>1, WorkComesFrom DEF Rank, TurnsAreOver
  <2>2. CASE Decide(s) = "FOCUS"
    <3>1. ~HasFocused(s) /\ Intake(s) >= MinObservations
      BY <1>2, <1>5, <2>2, WorkComesFrom
    <3>2. Intake(s) < MinObservations
      BY <1>2, <2>2, <3>1 DEF Rank, IntakeSettled
    <3>3. Intake(s) \in Int /\ MinObservations \in Int
      BY ThresholdsAssumption DEF ThresholdsAssumption, Intake, CircadianState
    <3> QED BY <3>1, <3>2, <3>3
  <2>3. CASE Decide(s) = "CREATION"
    BY <1>0, <1>2, <1>5, <2>3, WorkComesFrom DEF Rank, TurnsAreOver
  <2>4. CASE Decide(s) = "REFLECTION"
    BY <1>0, <1>2, <1>5, <2>4, WorkComesFrom DEF Rank, TurnsAreOver
  <2>5. CASE Decide(s) \in {"SECOND_WIND", "EXPLORATION"}
    BY <1>2, <2>5, WorkIsBehind DEF Rank
  <2> QED BY <1>2, <2>1, <2>2, <2>3, <2>4, <2>5 DEF Working
<1> QED BY <1>4, <1>5


-----------------------------------------------------------------------------
(* Entering a phase. *)

\* No gauge of t that work draws on holds more than in s.
NoRicher(s, t) ==
  \A kind \in {"CREATIVE", "RESEARCH", "CRITICAL"} : Level(t, kind) <= Level(s, kind)

\* Entering a phase adds it to the day and pays for it; the rest stays.
LEMMA EnterChanges ==
  ASSUME NEW s \in CircadianState, NEW p \in Phases
  PROVE  /\ \A q : Visited(Enter(s, p), q) <=> Visited(s, q) \/ q = p
         /\ NoRicher(s, Enter(s, p))
         /\ Level(Enter(s, p), "NOVELTY_PRESSURE") = Level(s, "NOVELTY_PRESSURE")
         /\ Intake(Enter(s, p)) = Intake(s)
         /\ Enter(s, p).observation_backlog = s.observation_backlog
         /\ Enter(s, p).research_backlog = s.research_backlog
         /\ Enter(s, p).seed_backlog = s.seed_backlog
         /\ Enter(s, p).recent_quality = s.recent_quality
         /\ Enter(s, p).recent_novelty = s.recent_novelty
         /\ Enter(s, p).duplicate_rate = s.duplicate_rate
<1> DEFINE v == s.phases_visited
           t == Enter(s, p)
<1>1. /\ t.phases_visited = Append(v, p)
      /\ t.energy = Spend(s.energy, PhaseGauge[p], PhaseCost[p])
      /\ t.observation_backlog = s.observation_backlog
      /\ t.research_backlog = s.research_backlog
      /\ t.seed_backlog = s.seed_backlog
      /\ t.recent_quality = s.recent_quality
      /\ t.recent_novelty = s.recent_novelty
      /\ t.duplicate_rate = s.duplicate_rate
  BY DEF Enter, CircadianState
<1>2. v \in Seq(Phases) /\ Len(v) \in Nat
  BY DEF CircadianState
<1>3. \A q : Visited(t, q) <=> Visited(s, q) \/ q = p
  <2>1. /\ Len(Append(v, p)) = Len(v) + 1
        /\ \A i \in 1 .. Len(v) : Append(v, p)[i] = v[i]
        /\ Append(v, p)[Len(v) + 1] = p
    BY <1>2
  <2>2. 1 .. (Len(v) + 1) = (1 .. Len(v)) \cup {Len(v) + 1}
    BY <1>2
  <2> QED BY <1>1, <2>1, <2>2 DEF Visited
<1>4. /\ PhaseGauge[p] \in {"CREATIVE", "RESEARCH", "CRITICAL"}
      /\ PhaseCost[p] \in Nat
  BY DEF PhaseGauge, PhaseCost, Phases
<1>5. /\ s.energy \in [EnergyKinds -> EnergyLevel]
      /\ s.energy[PhaseGauge[p]] \in EnergyLevel
  <2>1. s.energy \in [EnergyKinds -> EnergyLevel]
    BY DEF CircadianState, EnergyProfile
  <2> QED BY <1>4, <2>1 DEF EnergyKinds
<1>6. Clamped(s.energy[PhaseGauge[p]] - PhaseCost[p]) <= s.energy[PhaseGauge[p]]
  <2>1. \A level \in EnergyLevel, cost \in Nat : Clamped(level - cost) <= level
    BY DEF Clamped, EnergyLevel, EnergyMin, EnergyMax
  <2> QED BY <1>4, <1>5, <2>1
<1>7. \A kind \in EnergyKinds :
        t.energy[kind] = IF kind = PhaseGauge[p]
                         THEN Clamped(s.energy[kind] - PhaseCost[p]) ELSE s.energy[kind]
  BY <1>1, <1>5 DEF Spend
<1> HIDE DEF t
<1>8. Level(t, "NOVELTY_PRESSURE") = Level(s, "NOVELTY_PRESSURE")
  BY <1>4, <1>7 DEF Level, EnergyKinds
<1>9. ASSUME NEW kind \in {"CREATIVE", "RESEARCH", "CRITICAL"}
      PROVE  Level(t, kind) <= Level(s, kind)
  <2>1. kind \in EnergyKinds /\ Level(s, kind) \in Int
    BY LevelIsNumber DEF EnergyKinds
  <2>2. CASE kind = PhaseGauge[p]
    BY <1>6, <1>7, <2>1, <2>2 DEF Level
  <2>3. CASE kind # PhaseGauge[p]
    BY <1>7, <2>1, <2>3 DEF Level
  <2> QED BY <2>2, <2>3
<1>10. Intake(t) = Intake(s)
  BY <1>1 DEF Intake, t
<1> QED BY <1>1, <1>3, <1>8, <1>9, <1>10 DEF t, NoRicher


-----------------------------------------------------------------------------
(* Types of the pure operators. *)

LEMMA ClampedType ==
  ASSUME NEW v \in Int PROVE Clamped(v) \in EnergyLevel
BY DEF Clamped, EnergyLevel, EnergyMin, EnergyMax

LEMMA GaugeType ==
  ASSUME NEW energy \in EnergyProfile, NEW kind \in EnergyKinds
  PROVE  energy[kind] \in Int
<1>1. EnergyLevel \subseteq Int
  BY DEF EnergyLevel, EnergyMin, EnergyMax
<1>2. energy[kind] \in EnergyLevel
  BY DEF EnergyProfile
<1> QED BY <1>1, <1>2

LEMMA SpendType ==
  ASSUME NEW energy \in EnergyProfile, NEW kind \in EnergyKinds, NEW amount \in Int
  PROVE  Spend(energy, kind, amount) \in EnergyProfile
<1>1. Clamped(energy[kind] - amount) \in EnergyLevel
  BY GaugeType, ClampedType
<1> QED BY <1>1 DEF Spend, EnergyProfile

LEMMA RestoreType ==
  ASSUME NEW energy \in EnergyProfile, NEW kind \in EnergyKinds, NEW amount \in Int
  PROVE  Restore(energy, kind, amount) \in EnergyProfile
<1>1. Clamped(energy[kind] + amount) \in EnergyLevel
  BY GaugeType, ClampedType
<1> QED BY <1>1 DEF Restore, EnergyProfile

LEMMA SleepType ==
  ASSUME NEW energy \in EnergyProfile
  PROVE  RestoredBySleep(energy) \in EnergyProfile
<1>1. ASSUME NEW kind \in EnergyKinds
      PROVE  Clamped(energy[kind] + SleepEffect[kind]) \in EnergyLevel
  <2>1. SleepEffect[kind] \in Int
    BY DEF SleepEffect, EnergyKinds
  <2> QED BY <2>1, GaugeType, ClampedType
<1> QED BY <1>1 DEF RestoredBySleep, EnergyProfile

LEMMA FreshStateType == FreshState \in CircadianState
<1>1. Rested \in EnergyProfile
  BY DEF Rested, EnergyProfile, EnergyLevel, EnergyMin, EnergyMax
<1>2. <<>> \in Seq(Phases)
  OBVIOUS
<1>3. "DEEP_SLEEP" \in Phases
  BY DEF Phases
<1> QED BY <1>1, <1>2, <1>3 DEF FreshState, CircadianState

LEMMA EnterType ==
  ASSUME NEW s \in CircadianState, NEW p \in Phases
  PROVE  Enter(s, p) \in CircadianState
<1>1. PhaseGauge[p] \in EnergyKinds /\ PhaseCost[p] \in Int
  BY DEF Phases, PhaseGauge, PhaseCost, EnergyKinds
<1>2. Spend(s.energy, PhaseGauge[p], PhaseCost[p]) \in EnergyProfile
  BY <1>1, SpendType DEF CircadianState
<1>3. Append(s.phases_visited, p) \in Seq(Phases)
  BY DEF CircadianState
<1> QED BY <1>2, <1>3 DEF Enter, CircadianState

LEMMA BeginDayType ==
  ASSUME NEW s \in CircadianState PROVE BeginDay(s) \in CircadianState
<1>1. <<>> \in Seq(Phases)
  OBVIOUS
<1>2. s.cycle_number + 1 \in Nat
  BY DEF CircadianState
<1> QED BY <1>1, <1>2 DEF BeginDay, CircadianState

LEMMA EndDayType ==
  ASSUME NEW s \in CircadianState PROVE EndDay(s) \in CircadianState
<1>1. RestoredBySleep(s.energy) \in EnergyProfile
  BY SleepType DEF CircadianState
<1> QED BY <1>1 DEF EndDay, CircadianState

LEMMA RefreshedType ==
  ASSUME NEW s \in CircadianState, NEW records \in Stored, NEW published \in Nat
  PROVE  Refreshed(s, records, published) \in CircadianState
<1> DEFINE rise == IF 6 * published > 200 THEN 200 ELSE 6 * published
<1>1. rise \in Int
  OBVIOUS
<1>2. "MEMORY_PRESSURE" \in EnergyKinds
  BY DEF EnergyKinds
<1> HIDE DEF rise
<1>3. Restore(s.energy, "MEMORY_PRESSURE", rise) \in EnergyProfile
  BY <1>1, <1>2, RestoreType DEF CircadianState
<1> QED BY <1>3 DEF Refreshed, CircadianState, Stored, rise

LEMMA PublishType ==
  ASSUME NEW n \in Nat, events \in 0 .. EventCap
  PROVE  Publish(n) \in 0 .. EventCap
BY DEF Publish, EventCap

LEMMA CallsAfterType ==
  ASSUME NEW n \in Nat, calls \in Nat
  PROVE  CallsAfter(n) \in Nat
BY ThresholdsAssumption DEF CallsAfter, ThresholdsAssumption

\* The numbers the environment supplies to a phase are numbers.
LEMMA WorkType ==
  ASSUME NEW p \in Phases
  PROVE  WantedCalls(p) \subseteq Nat /\ Published(p) \subseteq Nat
BY EnvironmentAssumption DEF EnvironmentAssumption, WantedCalls, Published

LEMMA FiledType ==
  ASSUME NEW old \in Nat, NEW n \in Nat
  PROVE  Filed(old, n) \subseteq Nat
BY DEF Filed

LEMMA YieldsType ==
  ASSUME NEW p \in Phases, stored \in Stored
  PROVE  Yields(p) \subseteq Stored
<1>1. /\ \A n \in ObservationYield : Filed(stored.observations, n) \subseteq Nat
      /\ \A n \in ResearchYield : Filed(stored.research, n) \subseteq Nat
      /\ \A n \in SeedYield : Filed(stored.seeds, n) \subseteq Nat
  BY EnvironmentAssumption, FiledType DEF EnvironmentAssumption, Stored
<1>2. /\ \A m \in Nat : [stored EXCEPT !.observations = m] \in Stored
      /\ \A m \in Nat : [stored EXCEPT !.research = m] \in Stored
      /\ \A m \in Nat : [stored EXCEPT !.seeds = m] \in Stored
  BY DEF Stored
<1> QED BY <1>1, <1>2 DEF Yields

LEMMA EffectsType ==
  ASSUME NEW p \in Phases, state \in CircadianState
  PROVE  Effects(p) \subseteq CircadianState
<1>1. Spend(state.energy, "MEMORY_PRESSURE", 600) \in EnergyProfile
  BY SpendType DEF CircadianState, EnergyKinds
<1>2. [state EXCEPT !.energy = Spend(state.energy, "MEMORY_PRESSURE", 600)]
        \in CircadianState
  BY SMTT(30), <1>1 DEF CircadianState
<1>3. \A d \in DuplicateRates : [state EXCEPT !.duplicate_rate = d] \in CircadianState
  BY EnvironmentAssumption DEF EnvironmentAssumption, CircadianState
<1> QED BY <1>2, <1>3 DEF Effects

\* What a phase's work leaves, and that it touches neither the list of phases
\* nor the cycle number.
LEMMA ResultsType ==
  ASSUME NEW p \in Phases, state \in CircadianState, outcome \in Outcome,
         NEW r \in Results(p)
  PROVE  /\ r[1] \in CircadianState
         /\ r[2] \in Outcome
         /\ r[1].phases_visited = state.phases_visited
         /\ r[1].phase = state.phase
         /\ r[1].cycle_number = state.cycle_number
<1>1. Learned(p) \in Outcome
  BY DEF Learned, Outcome
<1>2. CASE p = "REFLECTION"
  <2>1. r \in Judged
    BY <1>2 DEF Results
  <2>2. CASE r = <<state, outcome>>
    BY <2>2
  <2>3. ASSUME NEW score \in QualityScores \X NoveltyScores, r = Judgement(score)
        PROVE  /\ r[1] \in CircadianState
               /\ r[2] \in Outcome
               /\ r[1].phases_visited = state.phases_visited
               /\ r[1].phase = state.phase
               /\ r[1].cycle_number = state.cycle_number
    <3>1. score[1] \in Nat /\ score[2] \in Nat
      BY EnvironmentAssumption DEF EnvironmentAssumption
    <3> QED BY <2>3, <3>1 DEF Judgement, CircadianState, Outcome
  <2>4. \/ r = <<state, outcome>>
        \/ \E score \in QualityScores \X NoveltyScores : r = Judgement(score)
    BY <2>1 DEF Judged
  <2> QED BY <2>2, <2>3, <2>4
<1>3. CASE p # "REFLECTION"
  <2>1. PICK s \in Effects(p) : r = <<s, Learned(p)>>
    BY <1>3 DEF Results
  <2>2. s \in CircadianState
    BY <2>1, EffectsType
  <2>3. /\ s.phases_visited = state.phases_visited
        /\ s.phase = state.phase
        /\ s.cycle_number = state.cycle_number
    BY <2>1 DEF Effects, CircadianState
  <2> QED BY <1>1, <2>1, <2>2, <2>3
<1> QED BY <1>2, <1>3

-----------------------------------------------------------------------------
(* Type correctness. *)

LEMMA NothingTyped == NothingStored \in Stored /\ NoOutcome \in Outcome
BY DEF NothingStored, Stored, NoOutcome, Outcome

\* A process that is gone leaves well-typed emptiness behind.
LEMMA VanishType ==
  ASSUME TypeOK, Vanish, saved_state' \in CircadianState, saved_completed' \in Nat,
         faults' \in 0 .. MaxFaults, stops' \in 0 .. MaxStopCommands
  PROVE  TypeOK'
<1>1. state' \in CircadianState
  BY FreshStateType DEF Vanish
<1>2. stored' \in Stored /\ outcome' \in Outcome
  BY NothingTyped DEF Vanish
<1>3. last_outcome' \in BOOLEAN /\ stop_requested' \in BOOLEAN
  BY DEF Vanish
<1>4. /\ pc' \in PcValues
      /\ events' \in 0 .. EventCap
      /\ calls' \in Nat /\ cycles' \in Nat /\ cycles_completed' \in Nat
  BY DEF Vanish, PcValues, EventCap
<1> QED BY <1>1, <1>2, <1>3, <1>4 DEF TypeOK

LEMMA BootType ==
  ASSUME TypeOK, NEW n \in CyclesRequested, Boot(n) PROVE TypeOK'
<1>1. n \in Nat
  BY EnvironmentAssumption DEF EnvironmentAssumption
<1> QED BY <1>1 DEF TypeOK, Boot, PcValues, disk, bounds

\* A phase that returned: calls, events, records, results and refreshed signals.
LEMMA PhaseReturnsType ==
  ASSUME TypeOK, PhaseReturns PROVE TypeOK'
<1> USE DEF TypeOK
<1>1. state.phase \in Phases
  BY DEF CircadianState
<1>2. PICK n \in WantedCalls(state.phase), e \in Published(state.phase),
            records \in Yields(state.phase), r \in Results(state.phase) :
        /\ calls' = CallsAfter(n)
        /\ events' = Publish(e)
        /\ stored' = records
        /\ state' = Refreshed(r[1], records, Publish(e))
        /\ outcome' = r[2]
  BY DEF PhaseReturns
<1>3. n \in Nat /\ e \in Nat
  BY <1>1, <1>2, WorkType
<1>4. records \in Stored
  BY <1>1, <1>2, YieldsType
<1>5. r[1] \in CircadianState /\ r[2] \in Outcome
  BY <1>1, <1>2, ResultsType
<1>6. Publish(e) \in 0 .. EventCap /\ Publish(e) \in Nat
  BY <1>3, PublishType DEF EventCap
<1>7. state' \in CircadianState
  BY <1>2, <1>4, <1>5, <1>6, RefreshedType
<1>8. calls' \in Nat
  BY <1>2, <1>3, CallsAfterType
<1> QED
  BY <1>2, <1>4, <1>5, <1>6, <1>7, <1>8
  DEF PhaseReturns, PcValues, session, disk, bounds

LEMMA PhaseFailsType ==
  ASSUME TypeOK, PhaseFails PROVE TypeOK'
<1> USE DEF TypeOK
<1>1. state.phase \in Phases
  BY DEF CircadianState
<1>2. PICK n \in WantedCalls(state.phase), e \in Published(state.phase) \cup {0},
            records \in Yields(state.phase) \cup {stored} :
        /\ calls' = CallsAfter(n)
        /\ events' = Publish(e)
        /\ stored' = records
  BY DEF PhaseFails
<1>3. n \in Nat /\ e \in Nat
  BY <1>1, <1>2, WorkType
<1>4. records \in Stored
  BY <1>1, <1>2, YieldsType
<1>5. outcome' \in Outcome
  BY DEF PhaseFails, Learned, Outcome
<1>6. calls' \in Nat /\ events' \in 0 .. EventCap
  BY <1>2, <1>3, CallsAfterType, PublishType
<1> QED
  BY <1>2, <1>4, <1>5, <1>6 DEF PhaseFails, PcValues, session, disk, bounds

LEMMA BudgetExceededType ==
  ASSUME TypeOK, BudgetExceeded PROVE TypeOK'
<1> USE DEF TypeOK
<1>1. "HUNT" \in Phases /\ "DEEP_SLEEP" \in Phases
  BY DEF Phases
<1>p. PICK n \in WantedCalls("HUNT"), e \in Published("HUNT") \cup {0},
            records \in Yields("HUNT") \cup {stored} :
        /\ events' = Publish(e)
        /\ stored' = records
  BY DEF BudgetExceeded
<1>2. stored' \in Stored
  BY <1>1, <1>p, YieldsType
<1>5. e \in Nat
  BY <1>1, <1>p, WorkType
<1>6. events' \in 0 .. EventCap
  BY <1>p, <1>5, PublishType
<1>3. state' \in CircadianState
  BY <1>1, EnterType DEF BudgetExceeded
<1>4. calls' \in Nat
  BY ThresholdsAssumption DEF ThresholdsAssumption, BudgetExceeded
<1> QED
  BY <1>2, <1>3, <1>4, <1>6 DEF BudgetExceeded, PcValues, session, disk, bounds

\* A decision is a phase even where the day is not sound.
LEMMA DecisionIsAPhase ==
  ASSUME NEW s \in CircadianState PROVE Decide(s) \in Phases
<1>1. ASSUME NEW i \in 1 .. 13, Answers(s)[i] # NoPhase PROVE Answers(s)[i] \in Phases
  BY <1>1 DEF Answers, Phases, NoPhase, RuleBudgetExhausted, RuleMustAwaken,
       RuleMemoryPressure, RuleExhausted, RuleNeedsObservation, RuleNeedsResearch,
       RuleDigestBeforeCreating, RuleReadyToCreate, RuleNeedsReflection,
       RuleSecondWind, RuleExploration, RuleConsolidate, RuleDream
<1>2. Fallback(s) \in Phases
  BY FallbackAnswer DEF Phases
<1> QED BY <1>1, <1>2, DecisionComesFromARule

LEMMA TypeStep == TypeOK /\ [Next]_vars => TypeOK'
<1> SUFFICES ASSUME TypeOK, [Next]_vars PROVE TypeOK'
  OBVIOUS
<1> USE DEF TypeOK, PcValues, session, disk, bounds
<1>1. CASE LeaveLoop
  BY <1>1 DEF LeaveLoop
<1>2. CASE BeginCycle
  <2>1. state' \in CircadianState
    BY <1>2, BeginDayType DEF BeginCycle
  <2>2. stored' \in Stored
    BY <1>2, LeftoversAssumption, NothingTyped DEF BeginCycle, Found
  <2> QED
    BY <1>2, <2>1, <2>2 DEF BeginCycle, NoOutcome, Outcome, EventCap
<1>3. CASE EnterPhase
  <2>1. state' \in CircadianState
    BY <1>3, EnterType, DecisionIsAPhase DEF EnterPhase
  <2>2. events' \in 0 .. EventCap
    BY <1>3, PublishType DEF EnterPhase
  <2> QED BY <1>3, <2>1, <2>2 DEF EnterPhase
<1>4. CASE PhaseReturns
  BY <1>4, PhaseReturnsType
<1>5. CASE PhaseFails
  BY <1>5, PhaseFailsType
<1>6. CASE BudgetExceeded
  BY <1>6, BudgetExceededType
<1>7. CASE ForcedSleep
  <2>1. state' \in CircadianState
    BY <1>7, RefreshedType DEF ForcedSleep, EventCap
  <2>2. events' \in 0 .. EventCap
    BY <1>7, PublishType DEF ForcedSleep
  <2> QED BY <1>7, <2>1, <2>2 DEF ForcedSleep
<1>8. CASE SyncAndSaveState
  <2>1. state' \in CircadianState
    BY <1>8 DEF SyncAndSaveState, CircadianState
  <2> QED BY <1>8, <2>1 DEF SyncAndSaveState
<1>9. CASE SaveCheckpoint
  BY <1>9 DEF SaveCheckpoint
<1>10. CASE EndCycle
  <2>1. state' \in CircadianState
    BY <1>10, EndDayType DEF EndCycle
  <2> QED BY <1>10, <2>1 DEF EndCycle
<1>11. CASE SaveLastCheckpoint
  BY <1>11 DEF SaveLastCheckpoint
<1>12. CASE ShutdownSaveState
  BY <1>12 DEF ShutdownSaveState
<1>13. CASE ShutdownSaveCheckpoint
  BY <1>13, VanishType DEF ShutdownSaveCheckpoint
<1>14. CASE \E n \in CyclesRequested : Boot(n)
  BY <1>14, BootType
<1>15. CASE BootSingle
  BY <1>15 DEF BootSingle
<1>16. CASE RequestStop
  BY <1>16 DEF RequestStop
<1>17. CASE Raise
  BY <1>17, EnvironmentAssumption DEF Raise, EnvironmentAssumption
<1>18. CASE Kill
  <2>1. faults' \in 0 .. MaxFaults
    BY <1>18, EnvironmentAssumption DEF Kill, EnvironmentAssumption
  <2> QED BY <1>18, <2>1, VanishType DEF Kill
<1>19. CASE StopCommand
  <2>1. stops' \in 0 .. MaxStopCommands
    BY <1>19, EnvironmentAssumption DEF StopCommand, EnvironmentAssumption
  <2> QED BY <1>19, <2>1, FreshStateType DEF StopCommand
<1>20. CASE UNCHANGED vars
  BY <1>20 DEF vars
<1> QED
  BY <1>1, <1>2, <1>3, <1>4, <1>5, <1>6, <1>7, <1>8, <1>9, <1>10, <1>11, <1>12,
     <1>13, <1>14, <1>15, <1>16, <1>17, <1>18, <1>19, <1>20 DEF Next, Step

\* The runtime's state always has its type: in particular every gauge stays
\* between 0 and 100, however many phases spend from it.
THEOREM TypeCorrect == Spec => []TypeOK
<1>1. Init => TypeOK
  <2>1. 0 \in 0 .. MaxFaults /\ 0 \in 0 .. MaxStopCommands /\ 0 \in 0 .. EventCap
    BY EnvironmentAssumption DEF EnvironmentAssumption, EventCap
  <2>2. ASSUME Init PROVE last_outcome \in BOOLEAN /\ stop_requested \in BOOLEAN
    BY <2>2 DEF Init
  <2>3. ASSUME Init PROVE pc \in PcValues /\ state \in CircadianState
    BY <2>3, FreshStateType DEF Init, PcValues
  <2>4. ASSUME Init PROVE saved_state \in CircadianState /\ saved_completed \in Nat
    BY <2>4, FreshStateType DEF Init
  <2> QED BY <2>1, <2>2, <2>3, <2>4, NothingTyped DEF Init, TypeOK
<1> QED BY <1>1, TypeStep, PTL DEF Spec

-----------------------------------------------------------------------------
(* The day keeps its shape. *)

SameDay(s, t) == t.phases_visited = s.phases_visited /\ t.phase = s.phase

LEMMA SameDayIsSound ==
  ASSUME NEW s, NEW t, SoundDay(s), SameDay(s, t) PROVE SoundDay(t)
BY DEF SoundDay, SameDay, LastPhase

LEMMA EmptyDayIsSound ==
  ASSUME NEW s, s.phases_visited = <<>> PROVE SoundDay(s)
BY DEF SoundDay

\* Sleep can only be the last phase, so a mind that is not asleep has not slept.
LEMMA AwakeMind ==
  ASSUME NEW s \in CircadianState, SoundDay(s),
         s.phases_visited # <<>> => s.phase # "DEEP_SLEEP"
  PROVE  Awake(s)
<1>1. ASSUME NEW i \in 1 .. Len(s.phases_visited), s.phases_visited[i] = "DEEP_SLEEP"
      PROVE  FALSE
  <2>1. i = Len(s.phases_visited) /\ s.phases_visited # <<>>
    BY <1>1 DEF SoundDay, CircadianState
  <2> QED BY <1>1, <2>1 DEF SoundDay, LastPhase
<1> QED BY <1>1 DEF Awake, Visited

\* Entering a phase that has not run, before any sleep, keeps the day sound.
LEMMA EnterIsSound ==
  ASSUME NEW s \in CircadianState, NEW p \in Phases, SoundDay(s),
         ~Visited(s, p), ~Visited(s, "DEEP_SLEEP")
  PROVE  /\ SoundDay(Enter(s, p))
         /\ Enter(s, p).phases_visited # <<>>
         /\ Enter(s, p).phase = p
<1> DEFINE v == s.phases_visited
           w == Append(v, p)
<1>1. v \in Seq(Phases) /\ Len(v) \in Nat
  BY DEF CircadianState
<1>2. /\ Enter(s, p).phases_visited = w
      /\ Enter(s, p).phase = p
  BY DEF Enter, CircadianState
<1>3. /\ Len(w) = Len(v) + 1
      /\ w[Len(w)] = p
      /\ \A i \in 1 .. Len(v) : w[i] = v[i]
      /\ w # <<>>
  BY <1>1
<1>4. \A i \in 1 .. Len(v) : v[i] # p /\ v[i] # "DEEP_SLEEP"
  BY DEF Visited
<1>5. \A i \in 1 .. Len(w) : i \in 1 .. Len(v) \/ i = Len(w)
  BY <1>1, <1>3
<1>6. \A i, j \in 1 .. Len(v) : v[i] = v[j] => i = j
  BY DEF SoundDay
<1> HIDE DEF v, w
<1>7. \A i, j \in 1 .. Len(w) : w[i] = w[j] => i = j
  BY <1>3, <1>4, <1>5, <1>6
<1>8. \A i \in 1 .. Len(w) : w[i] = "DEEP_SLEEP" => i = Len(w)
  BY <1>3, <1>4, <1>5
<1> QED BY <1>2, <1>3, <1>7, <1>8 DEF SoundDay, LastPhase

LEMMA MorePlacesThanPhases ==
  ASSUME NEW n \in Nat, n > 12, NEW f \in [1 .. n -> 1 .. 12]
  PROVE  \E i, j \in 1 .. n : i # j /\ f[i] = f[j]
<1>1. 1 \in Int /\ n \in Int /\ 12 \in Int
  OBVIOUS
<1>2. /\ IsFiniteSet(1 .. n)
      /\ Cardinality(1 .. n) = IF 1 > n THEN 0 ELSE n - 1 + 1
  BY <1>1, FS_Interval, Zenon
<1>3. /\ IsFiniteSet(1 .. 12)
      /\ Cardinality(1 .. 12) = IF 1 > 12 THEN 0 ELSE 12 - 1 + 1
  BY <1>1, FS_Interval, Zenon
<1>4. Cardinality(1 .. 12) < Cardinality(1 .. n)
  <2>1. Cardinality(1 .. n) = n
    BY <1>2
  <2>2. Cardinality(1 .. 12) = 12
    BY <1>3
  <2> QED BY <2>1, <2>2
<1> QED BY <1>2, <1>3, <1>4, FS_PigeonHole, Zenon

\* There are only twelve phases: a sound day is far shorter than the limit.
LEMMA SoundDayIsShort ==
  ASSUME NEW s \in CircadianState, SoundDay(s)
  PROVE  Len(s.phases_visited) <= 12
<1> DEFINE v == s.phases_visited
           places == [i \in 1 .. Len(v) |-> Position(v[i])]
<1>1. v \in Seq(Phases) /\ Len(v) \in Nat /\ \A i \in 1 .. Len(v) : v[i] \in Phases
  BY DEF CircadianState
<1>2. \A p \in Phases : Position(p) \in 1 .. 12 /\ PHASE_ORDER[Position(p)] = p
  <2> TAKE p \in Phases
  <2>1. \E i \in 1 .. 12 : PHASE_ORDER[i] = p
    BY DEF PHASE_ORDER, Phases
  <2> QED BY <2>1 DEF Position
<1>3. places \in [1 .. Len(v) -> 1 .. 12]
  BY <1>1, <1>2
<1>4. SUFFICES ASSUME Len(v) > 12 PROVE FALSE
  BY <1>1
<1>5. \E i, j \in 1 .. Len(v) : i # j /\ places[i] = places[j]
  <2> HIDE DEF v, places
  <2> QED BY <1>1, <1>3, <1>4, MorePlacesThanPhases
<1>6. PICK i, j \in 1 .. Len(v) : i # j /\ places[i] = places[j]
  BY <1>5
<1>7. v[i] = v[j]
  BY <1>1, <1>2, <1>6
<1> QED BY <1>6, <1>7 DEF SoundDay

LEMMA RefreshedSameDay ==
  ASSUME NEW s \in CircadianState, NEW records, NEW published
  PROVE  SameDay(s, Refreshed(s, records, published))
BY DEF Refreshed, SameDay, CircadianState

LEMMA PhaseReturnsSameDay ==
  ASSUME TypeOK, PhaseReturns
  PROVE  SameDay(state, state') /\ state'.cycle_number = state.cycle_number
<1>1. state \in CircadianState /\ state.phase \in Phases /\ outcome \in Outcome
  BY DEF TypeOK, CircadianState
<1>2. PICK n \in WantedCalls(state.phase), e \in Published(state.phase),
            records \in Yields(state.phase), r \in Results(state.phase) :
        state' = Refreshed(r[1], records, Publish(e))
  BY DEF PhaseReturns
<1>3. /\ r[1] \in CircadianState
      /\ r[1].phases_visited = state.phases_visited
      /\ r[1].phase = state.phase
      /\ r[1].cycle_number = state.cycle_number
  BY <1>1, <1>2, ResultsType
<1>4. Refreshed(r[1], records, Publish(e)).cycle_number = r[1].cycle_number
  BY <1>3 DEF Refreshed, CircadianState
<1> QED BY <1>2, <1>3, <1>4, RefreshedSameDay DEF SameDay

LEMMA DayStep == TypeOK /\ DayInvariant /\ [Next]_vars => DayInvariant'
<1> SUFFICES ASSUME TypeOK, DayInvariant, [Next]_vars PROVE DayInvariant'
  OBVIOUS
<1> USE DEF DayInvariant
<1>0. state \in CircadianState /\ saved_state \in CircadianState
  BY DEF TypeOK
<1>1. CASE LeaveLoop
  BY <1>1 DEF LeaveLoop, PlaceInDay, disk
<1>2. CASE BeginCycle
  <2>1. state'.phases_visited = <<>> /\ state'.llm_calls = 0
    BY <1>0, <1>2 DEF BeginCycle, BeginDay, CircadianState
  <2>2. SoundDay(state')
    BY <2>1, EmptyDayIsSound
  <2> QED BY <1>2, <2>1, <2>2 DEF BeginCycle, PlaceInDay, disk
<1>3. CASE EnterPhase
  <2>1. Awake(state)
    BY <1>0, <1>3, AwakeMind DEF EnterPhase, PlaceInDay
  <2>2. Decide(state) \in Phases /\ ~Visited(state, Decide(state))
    BY <1>0, <2>1, DecisionIsUnvisited
  <2>3. SoundDay(state') /\ state'.phases_visited # <<>>
    BY <1>0, <1>3, <2>1, <2>2, EnterIsSound DEF EnterPhase, Awake
  <2> QED BY <1>3, <2>3 DEF EnterPhase, PlaceInDay, disk
<1>4. CASE PhaseReturns
  <2>1. SameDay(state, state')
    BY <1>4, PhaseReturnsSameDay
  <2>2. SoundDay(state')
    BY <2>1, SameDayIsSound
  <2> QED BY <1>4, <2>1, <2>2 DEF PhaseReturns, PlaceInDay, SameDay, disk
<1>5. CASE PhaseFails
  BY <1>5 DEF PhaseFails, PlaceInDay, disk
<1>6. CASE BudgetExceeded
  <2>1. Awake(state)
    BY <1>0, <1>6, AwakeMind DEF BudgetExceeded
  <2>2. "DEEP_SLEEP" \in Phases
    BY DEF Phases
  <2>3. SoundDay(state') /\ state'.phases_visited # <<>> /\ state'.phase = "DEEP_SLEEP"
    BY <1>0, <1>6, <2>1, <2>2, EnterIsSound DEF BudgetExceeded, Awake
  <2> QED BY <1>6, <2>3 DEF BudgetExceeded, PlaceInDay, disk
<1>7. CASE ForcedSleep
  <2>1. SameDay(state, state')
    BY <1>0, <1>7, RefreshedSameDay DEF ForcedSleep
  <2>2. SoundDay(state')
    BY <2>1, SameDayIsSound
  <2> QED BY <1>7, <2>1, <2>2 DEF ForcedSleep, PlaceInDay, SameDay, disk
<1>8. CASE SyncAndSaveState
  <2>1. SameDay(state, state')
    BY <1>0, <1>8 DEF SyncAndSaveState, SameDay, CircadianState
  <2>2. SoundDay(state')
    BY <2>1, SameDayIsSound
  <2> QED BY <1>8, <2>1, <2>2 DEF SyncAndSaveState, PlaceInDay, SameDay
<1>9. CASE SaveCheckpoint
  <2>1. Len(state.phases_visited) <= 12 /\ Len(state.phases_visited) \in Nat
    BY SMTT(30), <1>0, SoundDayIsShort DEF CircadianState
  <2>2. ~(Len(state.phases_visited) >= MAX_PHASES_PER_CYCLE)
    BY <2>1 DEF MAX_PHASES_PER_CYCLE
  <2>3. pc' = IF state.phase = "DEEP_SLEEP" THEN "ended" ELSE "decide"
    BY <1>9, <2>2 DEF SaveCheckpoint, EndsCycle
  <2>4. state.phases_visited # <<>>
    BY <1>9 DEF SaveCheckpoint, PlaceInDay
  <2> QED BY <1>9, <2>3, <2>4 DEF SaveCheckpoint, PlaceInDay
<1>10. CASE EndCycle
  <2>1. SameDay(state, state')
    BY <1>0, <1>10 DEF EndCycle, EndDay, SameDay, CircadianState
  <2>2. SoundDay(state')
    BY <2>1, SameDayIsSound
  <2> QED BY <1>10, <2>2 DEF EndCycle, PlaceInDay
<1>11. CASE SaveLastCheckpoint
  BY <1>11 DEF SaveLastCheckpoint, PlaceInDay
<1>12. CASE ShutdownSaveState
  BY <1>12 DEF ShutdownSaveState, PlaceInDay
<1>13. SoundDay(FreshState)
  BY EmptyDayIsSound DEF FreshState
<1>14. CASE ShutdownSaveCheckpoint
  BY <1>13, <1>14 DEF ShutdownSaveCheckpoint, Vanish, PlaceInDay
<1>15. CASE \E n \in CyclesRequested : Boot(n)
  BY <1>15 DEF Boot, PlaceInDay, disk
<1>16. CASE BootSingle
  BY <1>16 DEF BootSingle, PlaceInDay, disk
<1>17. CASE RequestStop
  BY <1>17 DEF RequestStop, PlaceInDay, disk
<1>18. CASE Raise
  BY <1>18 DEF Raise, PlaceInDay, disk
<1>19. CASE Kill
  BY <1>13, <1>19 DEF Kill, Vanish, PlaceInDay, disk
<1>20. CASE StopCommand
  BY <1>13, <1>20 DEF StopCommand, PlaceInDay
<1>21. CASE UNCHANGED vars
  BY <1>21 DEF vars, PlaceInDay
<1> QED
  BY <1>1, <1>2, <1>3, <1>4, <1>5, <1>6, <1>7, <1>8, <1>9, <1>10, <1>11, <1>12,
     <1>14, <1>15, <1>16, <1>17, <1>18, <1>19, <1>20, <1>21 DEF Next, Step

\* Memory and disk only ever hold sound days, and the loop is where its day says.
THEOREM DayInvariantHolds == Spec => []DayInvariant
<1>1. Init => DayInvariant
  <2>1. SoundDay(FreshState)
    BY EmptyDayIsSound DEF FreshState
  <2> QED BY <2>1 DEF Init, DayInvariant, PlaceInDay
<1> QED BY <1>1, DayStep, TypeCorrect, PTL DEF Spec

\* Within a cycle no phase runs twice.
THEOREM NoPhaseRunsTwice == Spec => []NoPhaseTwice
<1>1. DayInvariant => NoPhaseTwice
  BY DEF DayInvariant, SoundDay, NoPhaseTwice
<1> QED BY <1>1, DayInvariantHolds, PTL

\* A cycle only ends through DEEP_SLEEP: MAX_PHASES_PER_CYCLE is never reached.
THEOREM DaysCloseAsleep == Spec => []DayClosesAsleep
<1>1. TypeOK /\ DayInvariant => DayClosesAsleep
  <2> SUFFICES ASSUME TypeOK, DayInvariant, pc = "ended"
               PROVE  /\ Len(state.phases_visited) > 0
                      /\ state.phases_visited[Len(state.phases_visited)] = "DEEP_SLEEP"
    BY DEF DayClosesAsleep
  <2>1. state.phases_visited # <<>> /\ state.phase = "DEEP_SLEEP"
    BY DEF DayInvariant, PlaceInDay
  <2>2. state.phases_visited \in Seq(Phases)
    BY DEF TypeOK, CircadianState
  <2> QED BY <2>1, <2>2 DEF DayInvariant, SoundDay, LastPhase
<1> QED BY <1>1, TypeCorrect, DayInvariantHolds, PTL

-----------------------------------------------------------------------------
(* The floors. *)

\* Only one action leads from a decision into a phase.
LEMMA OnlyDecisionsEnterPhases ==
  ASSUME [Next]_vars, pc = "decide", pc' = "execute" PROVE EnterPhase
<1>1. ~(LeaveLoop \/ BeginCycle \/ PhaseReturns \/ PhaseFails \/ BudgetExceeded)
  BY DEF LeaveLoop, BeginCycle, PhaseReturns, PhaseFails, BudgetExceeded
<1>2. ~(ForcedSleep \/ SyncAndSaveState \/ SaveCheckpoint \/ EndCycle
          \/ SaveLastCheckpoint \/ ShutdownSaveState \/ ShutdownSaveCheckpoint)
  BY DEF ForcedSleep, SyncAndSaveState, SaveCheckpoint, EndCycle, SaveLastCheckpoint,
         ShutdownSaveState, ShutdownSaveCheckpoint
<1>3. ~((\E n \in CyclesRequested : Boot(n)) \/ BootSingle \/ RequestStop \/ Raise
          \/ Kill \/ StopCommand \/ UNCHANGED vars)
  BY DEF Boot, BootSingle, RequestStop, Raise, Kill, Vanish, StopCommand, vars
<1> QED BY <1>1, <1>2, <1>3 DEF Next, Step

\* No phase that draws on a floored gauge is entered below its floor.
THEOREM FloorsAreRespected == Spec => FloorsRespected
<1> DEFINE Respected ==
             pc = "decide" /\ pc' = "execute" /\ state'.phase \in Floored
               => state.energy[PhaseGauge[state'.phase]] >= FloorOf[PhaseGauge[state'.phase]]
<1>1. TypeOK /\ [Next]_vars => [Respected]_vars
  <2> SUFFICES ASSUME TypeOK, [Next]_vars, pc = "decide", pc' = "execute",
                      state'.phase \in Floored
               PROVE  state.energy[PhaseGauge[state'.phase]]
                        >= FloorOf[PhaseGauge[state'.phase]]
    OBVIOUS
  <2>1. state \in CircadianState
    BY DEF TypeOK
  <2>2. state'.phase = Decide(state)
    BY <2>1, OnlyDecisionsEnterPhases DEF EnterPhase, Enter, CircadianState
  <2>3. Decide(state) \in Demanding
    BY <2>2 DEF Floored, Demanding
  <2>4. Affordable(state, Decide(state))
    BY <2>1, <2>3, DecisionRespectsFloors
  <2> QED BY <2>2, <2>4 DEF Affordable, Level
<1> QED BY <1>1, TypeCorrect, PTL DEF Spec, FloorsRespected

-----------------------------------------------------------------------------
(* The two files and their counters. *)

LEMMA CheckpointStep ==
  TypeOK /\ CheckpointNeverAhead /\ [Next]_vars => CheckpointNeverAhead'
<1> SUFFICES ASSUME TypeOK, CheckpointNeverAhead, [Next]_vars
             PROVE  CheckpointNeverAhead'
  OBVIOUS
<1> USE DEF CheckpointNeverAhead
<1>1. saved_completed \in Nat /\ cycles_completed \in Nat
  BY DEF TypeOK
<1>2. CASE Step
  <2>1. CASE EndCycle
    BY <1>1, <2>1 DEF EndCycle
  <2>2. CASE SaveCheckpoint \/ SaveLastCheckpoint \/ ShutdownSaveCheckpoint
    BY <1>1, <2>2 DEF SaveCheckpoint, SaveLastCheckpoint, ShutdownSaveCheckpoint, Vanish,
         session
  <2>3. CASE LeaveLoop \/ BeginCycle \/ EnterPhase \/ PhaseReturns \/ PhaseFails
    BY <2>3 DEF LeaveLoop, BeginCycle, EnterPhase, PhaseReturns, PhaseFails, session, disk
  <2>4. CASE BudgetExceeded \/ ForcedSleep \/ SyncAndSaveState \/ ShutdownSaveState
    BY <2>4 DEF BudgetExceeded, ForcedSleep, SyncAndSaveState, ShutdownSaveState,
         session, disk
  <2> QED BY <1>2, <2>1, <2>2, <2>3, <2>4 DEF Step
<1>3. CASE (\E n \in CyclesRequested : Boot(n)) \/ BootSingle
  BY <1>1, <1>3 DEF Boot, BootSingle, disk
<1>4. CASE RequestStop \/ Raise \/ Kill
  BY <1>4 DEF RequestStop, Raise, Kill, Vanish, session, disk
<1>5. CASE StopCommand
  BY <1>1, <1>5 DEF StopCommand, session
<1>6. CASE UNCHANGED vars
  BY <1>6 DEF vars
<1> QED BY <1>2, <1>3, <1>4, <1>5, <1>6 DEF Next

THEOREM CheckpointIsNeverAhead == Spec => []CheckpointNeverAhead
<1>1. Init => CheckpointNeverAhead
  BY DEF Init, CheckpointNeverAhead
<1> QED BY <1>1, CheckpointStep, TypeCorrect, PTL DEF Spec

\* A cycle the checkpoint counts stays counted, whatever crashes; only the stop
\* command may take it away.
THEOREM CountedWorkSurvives == Spec => CompletedWorkSurvives
<1>1. TypeOK /\ CheckpointNeverAhead /\ [Next]_vars
        => [stops' = stops => saved_completed' >= saved_completed]_vars
  <2> SUFFICES ASSUME TypeOK, CheckpointNeverAhead, [Next]_vars, stops' = stops
               PROVE  saved_completed' >= saved_completed
    OBVIOUS
  <2>1. saved_completed \in Nat /\ cycles_completed \in Nat /\ stops \in Nat
    BY EnvironmentAssumption DEF TypeOK, EnvironmentAssumption
  <2>2. CASE Step
    <3>1. CASE SaveCheckpoint \/ SaveLastCheckpoint \/ ShutdownSaveCheckpoint
      BY <2>1, <3>1 DEF SaveCheckpoint, SaveLastCheckpoint, ShutdownSaveCheckpoint,
           CheckpointNeverAhead
    <3>2. CASE LeaveLoop \/ BeginCycle \/ EnterPhase \/ PhaseReturns \/ PhaseFails
      BY <2>1, <3>2 DEF LeaveLoop, BeginCycle, EnterPhase, PhaseReturns, PhaseFails, disk
    <3>3. CASE BudgetExceeded \/ ForcedSleep \/ SyncAndSaveState \/ ShutdownSaveState
                 \/ EndCycle
      BY <2>1, <3>3 DEF BudgetExceeded, ForcedSleep, SyncAndSaveState,
           ShutdownSaveState, EndCycle, disk
    <3> QED BY <2>2, <3>1, <3>2, <3>3 DEF Step
  <2>3. CASE (\E n \in CyclesRequested : Boot(n)) \/ BootSingle
    BY <2>1, <2>3 DEF Boot, BootSingle, disk
  <2>4. CASE RequestStop \/ Raise \/ Kill
    BY <2>1, <2>4 DEF RequestStop, Raise, Kill, disk
  <2>5. CASE StopCommand
    BY <2>1, <2>5 DEF StopCommand
  <2>6. CASE UNCHANGED vars
    BY <2>1, <2>6 DEF vars
  <2> QED BY <2>2, <2>3, <2>4, <2>5, <2>6 DEF Next
<1> QED BY <1>1, TypeCorrect, CheckpointIsNeverAhead, PTL DEF Spec, CompletedWorkSurvives

-----------------------------------------------------------------------------
(* The runtime implements the abstract creative day. *)

\* A step that changes neither list is a stutter of the abstract day.
LEMMA Stutters ==
  ASSUME state'.phases_visited = state.phases_visited,
         saved_state'.phases_visited = saved_state.phases_visited
  PROVE  [Day!Next]_(Day!vars)
BY DEF Day!vars

\* Entering an admissible phase is the abstract EnterPhase.
LEMMA EnterRefines ==
  ASSUME state \in CircadianState, NEW p \in Phases, Awake(state), ~Visited(state, p),
         state.phases_visited = <<>> => p = "AWAKENING",
         state' = Enter(state, p), saved_state' = saved_state
  PROVE  Day!Next
<1>1. state'.phases_visited = Append(state.phases_visited, p)
  BY DEF Enter, CircadianState
<1>2. ~Day!Happened(p) /\ ~Day!Happened("DEEP_SLEEP")
  BY DEF Day!Happened, Visited, Awake
<1>3. Day!EnterPhase(p)
  BY <1>1, <1>2 DEF Day!EnterPhase
<1> QED BY <1>3 DEF Day!Next

LEMMA DayStepRefines ==
  TypeOK /\ DayInvariant /\ [Next]_vars => [Day!Next]_(Day!vars)
<1> SUFFICES ASSUME TypeOK, DayInvariant, [Next]_vars PROVE [Day!Next]_(Day!vars)
  OBVIOUS
<1>0. /\ state \in CircadianState
      /\ SoundDay(state)
      /\ PlaceInDay
  BY DEF TypeOK, DayInvariant
<1>1. CASE BeginCycle
  <2>1. state'.phases_visited = <<>> /\ saved_state' = saved_state
    BY <1>0, <1>1 DEF BeginCycle, BeginDay, CircadianState, disk
  <2> QED BY <2>1 DEF Day!Next, Day!Dawn
<1>2. CASE EnterPhase
  <2>1. Awake(state)
    BY <1>0, <1>2, AwakeMind DEF EnterPhase, PlaceInDay
  <2>2. Decide(state) \in Phases /\ ~Visited(state, Decide(state))
    BY <1>0, <2>1, DecisionIsUnvisited
  <2>3. state.phases_visited = <<>> => Decide(state) = "AWAKENING"
    BY <1>0, <1>2, DayStartsAwakening DEF EnterPhase, PlaceInDay
  <2>4. state' = Enter(state, Decide(state)) /\ saved_state' = saved_state
    BY <1>2 DEF EnterPhase, disk
  <2> QED BY <1>0, <2>1, <2>2, <2>3, <2>4, EnterRefines
<1>3. CASE BudgetExceeded
  <2>1. Awake(state)
    BY <1>0, <1>3, AwakeMind DEF BudgetExceeded
  <2>2. "DEEP_SLEEP" \in Phases /\ ~Visited(state, "DEEP_SLEEP")
    BY <2>1 DEF Phases, Awake
  <2>3. state.phases_visited # <<>>
    BY <1>0, <1>3 DEF BudgetExceeded, PlaceInDay
  <2>4. state' = Enter(state, "DEEP_SLEEP") /\ saved_state' = saved_state
    BY <1>3 DEF BudgetExceeded, disk
  <2> QED BY <1>0, <2>1, <2>2, <2>3, <2>4, EnterRefines
<1>4. CASE SyncAndSaveState \/ EndCycle \/ ShutdownSaveState
  <2>1. /\ state'.phases_visited = state.phases_visited
        /\ saved_state'.phases_visited = state.phases_visited
    BY <1>0, <1>4 DEF SyncAndSaveState, EndCycle, EndDay, ShutdownSaveState, CircadianState
  <2> QED BY <2>1 DEF Day!Next, Day!Keep
<1>5. CASE ShutdownSaveCheckpoint \/ Kill
  <2>1. state'.phases_visited = <<>> /\ saved_state' = saved_state
    BY <1>5 DEF ShutdownSaveCheckpoint, Kill, Vanish, FreshState, disk
  <2> QED BY <2>1 DEF Day!Next, Day!Die
<1>6. CASE (\E n \in CyclesRequested : Boot(n)) \/ BootSingle
  <2>1. state' = saved_state /\ saved_state' = saved_state
    BY <1>6 DEF Boot, BootSingle, disk
  <2> QED BY <2>1 DEF Day!Next, Day!Resume
<1>7. CASE StopCommand
  <2>1. state' = state /\ saved_state'.phases_visited = <<>>
    BY <1>7 DEF StopCommand, FreshState
  <2> QED BY <2>1 DEF Day!Next, Day!Erase
<1>8. CASE PhaseReturns
  <2>1. state'.phases_visited = state.phases_visited
    BY <1>8, PhaseReturnsSameDay DEF SameDay
  <2> QED BY <1>8, <2>1, Stutters DEF PhaseReturns, disk
<1>9. CASE ForcedSleep
  <2>1. state'.phases_visited = state.phases_visited
    BY <1>0, <1>9, RefreshedSameDay DEF ForcedSleep, SameDay
  <2> QED BY <1>9, <2>1, Stutters DEF ForcedSleep, disk
<1>10. CASE LeaveLoop \/ PhaseFails \/ SaveCheckpoint \/ SaveLastCheckpoint
  BY <1>10, Stutters DEF LeaveLoop, PhaseFails, SaveCheckpoint, SaveLastCheckpoint, disk
<1>11. CASE RequestStop \/ Raise \/ UNCHANGED vars
  BY <1>11, Stutters DEF RequestStop, Raise, vars, disk
<1> QED
  BY <1>1, <1>2, <1>3, <1>4, <1>5, <1>6, <1>7, <1>8, <1>9, <1>10, <1>11
  DEF Next, Step

\* Whatever the gauges, the budget, the failures and the restarts, every run is
\* a run of the abstract creative day.
THEOREM RuntimeImplementsDay == Spec => ImplementsDay
<1>1. Init => Day!Init
  BY DEF Init, FreshState, Day!Init
<1> QED
  BY <1>1, DayStepRefines, TypeCorrect, DayInvariantHolds, PTL
  DEF Spec, ImplementsDay, Day!Spec

-----------------------------------------------------------------------------
(* The clock's cycle number and the checkpoint's counter. *)

LEMMA CounterTypes ==
  ASSUME TypeOK
  PROVE  /\ state.cycle_number \in Nat /\ saved_state.cycle_number \in Nat
         /\ cycles_completed \in Nat /\ saved_completed \in Nat
         /\ faults \in Nat /\ stops \in Nat
<1>1. state \in CircadianState /\ saved_state \in CircadianState
  BY DEF TypeOK
<1> QED
  BY <1>1, EnvironmentAssumption DEF TypeOK, CircadianState, EnvironmentAssumption

\* Steps inside a cycle that write nothing and count nothing.
LEMMA QuietStepCounts ==
  ASSUME TypeOK, CounterInvariant,
         state'.cycle_number = state.cycle_number,
         UNCHANGED <<cycles_completed, saved_state, saved_completed, faults, stops>>,
         pc' = pc \/ (pc \in {"decide", "execute", "forced", "sync"}
                       /\ pc' \in {"execute", "forced", "sync", "ended"})
  PROVE  CounterInvariant'
<1>1. /\ CheckpointNeverAhead'
      /\ CountersLinked'
  BY CounterTypes DEF CounterInvariant, CheckpointNeverAhead, CountersLinked, InCycle
<1>2. CountersAgree'
  BY CounterTypes DEF CounterInvariant, CountersAgree, InCycle
<1> QED BY <1>1, <1>2 DEF CounterInvariant

LEMMA CounterStep ==
  TypeOK /\ CounterInvariant /\ [Next]_vars => CounterInvariant'
<1> SUFFICES ASSUME TypeOK, CounterInvariant, [Next]_vars PROVE CounterInvariant'
  OBVIOUS
<1> USE DEF CounterInvariant
<1>t. /\ state \in CircadianState
      /\ state.cycle_number \in Nat /\ saved_state.cycle_number \in Nat
      /\ cycles_completed \in Nat /\ saved_completed \in Nat
      /\ faults \in Nat /\ stops \in Nat
  BY CounterTypes DEF TypeOK
<1>c. CheckpointNeverAhead'
  BY CheckpointStep
<1>1. CASE LeaveLoop
  <2>1. CountersLinked'
    BY <1>1, <1>t DEF LeaveLoop, CountersLinked, InCycle, session, disk, bounds
  <2>2. CountersAgree'
    BY <1>1, <1>t DEF LeaveLoop, CountersAgree, InCycle, session, disk, bounds
  <2> QED BY <1>c, <2>1, <2>2
<1>2. CASE BeginCycle
  <2>0. state'.cycle_number = state.cycle_number + 1
    BY <1>2, <1>t DEF BeginCycle, BeginDay, CircadianState
  <2>1. CountersLinked'
    BY <1>2, <1>t, <2>0
    DEF BeginCycle, CountersLinked, CountersAgree, InCycle, session, disk, bounds
  <2>2. CountersAgree'
    BY <1>2, <1>t, <2>0 DEF BeginCycle, CountersAgree, InCycle, session, disk, bounds
  <2> QED BY <1>c, <2>1, <2>2
<1>3. CASE EnterPhase
  <2>1. state'.cycle_number = state.cycle_number
    BY <1>3, <1>t DEF EnterPhase, Enter, CircadianState
  <2> QED BY <1>3, <2>1, QuietStepCounts DEF EnterPhase, session, disk, bounds
<1>4. CASE PhaseReturns
  <2>1. state'.cycle_number = state.cycle_number
    BY <1>4, PhaseReturnsSameDay
  <2> QED BY <1>4, <2>1, QuietStepCounts DEF PhaseReturns, session, disk, bounds
<1>5. CASE PhaseFails
  BY <1>5, QuietStepCounts DEF PhaseFails, session, disk, bounds
<1>6. CASE BudgetExceeded
  <2>1. state'.cycle_number = state.cycle_number
    BY <1>6, <1>t DEF BudgetExceeded, Enter, CircadianState
  <2> QED BY <1>6, <2>1, QuietStepCounts DEF BudgetExceeded, session, disk, bounds
<1>7. CASE ForcedSleep
  <2>1. state'.cycle_number = state.cycle_number
    BY <1>7, <1>t DEF ForcedSleep, Refreshed, CircadianState
  <2> QED BY <1>7, <2>1, QuietStepCounts DEF ForcedSleep, session, disk, bounds
<1>8. CASE SyncAndSaveState
  <2>0. /\ state'.cycle_number = state.cycle_number
        /\ saved_state'.cycle_number = state.cycle_number
    BY <1>8, <1>t DEF SyncAndSaveState, CircadianState
  <2>1. CountersLinked'
    BY <1>8, <1>t, <2>0 DEF SyncAndSaveState, CountersLinked, InCycle, session, bounds
  <2>2. CountersAgree'
    BY <1>8, <1>t, <2>0
    DEF SyncAndSaveState, CountersAgree, CountersLinked, InCycle, session, bounds
  <2> QED BY <1>c, <2>1, <2>2
<1>9. CASE SaveCheckpoint
  <2>0. pc' \in {"ended", "decide"}
    BY <1>9 DEF SaveCheckpoint
  <2>1. CountersLinked'
    BY <1>9, <1>t, <2>0 DEF SaveCheckpoint, CountersLinked, InCycle, session, bounds
  <2>2. CountersAgree'
    BY <1>9, <1>t, <2>0
    DEF SaveCheckpoint, CountersAgree, CountersLinked, InCycle, session, bounds
  <2> QED BY <1>c, <2>1, <2>2
<1>10. CASE EndCycle
  <2>0. /\ state'.cycle_number = state.cycle_number
        /\ saved_state'.cycle_number = state.cycle_number
    BY <1>10, <1>t DEF EndCycle, EndDay, CircadianState
  <2>1. CountersLinked'
    BY <1>10, <1>t, <2>0 DEF EndCycle, CountersLinked, InCycle, bounds
  <2>2. CountersAgree'
    BY <1>10, <1>t, <2>0 DEF EndCycle, CountersAgree, CountersLinked, InCycle, bounds
  <2> QED BY <1>c, <2>1, <2>2
<1>11. CASE SaveLastCheckpoint
  <2>1. CountersLinked'
    BY <1>11, <1>t
    DEF SaveLastCheckpoint, CountersLinked, CountersAgree, InCycle, session, bounds
  <2>2. CountersAgree'
    BY <1>11, <1>t
    DEF SaveLastCheckpoint, CountersAgree, CountersLinked, InCycle, session, bounds
  <2> QED BY <1>c, <2>1, <2>2
<1>12. CASE ShutdownSaveState
  <2>1. CountersLinked'
    BY <1>12, <1>t DEF ShutdownSaveState, CountersLinked, InCycle, session, bounds
  <2>2. CountersAgree'
    BY <1>12, <1>t
    DEF ShutdownSaveState, CountersAgree, CountersLinked, CheckpointNeverAhead, InCycle,
        session, bounds
  <2> QED BY <1>c, <2>1, <2>2
<1>13. CASE ShutdownSaveCheckpoint
  <2>1. CountersLinked'
    BY <1>13 DEF ShutdownSaveCheckpoint, Vanish, CountersLinked, InCycle, bounds
  <2>2. CountersAgree'
    BY <1>13, <1>t
    DEF ShutdownSaveCheckpoint, Vanish, CountersAgree, CountersLinked, InCycle, bounds
  <2> QED BY <1>c, <2>1, <2>2
<1>14. CASE (\E n \in CyclesRequested : Boot(n)) \/ BootSingle
  <2>0. /\ pc = "off" /\ pc' \in {"loop", "single"}
        /\ state' = saved_state /\ cycles_completed' = saved_completed
        /\ UNCHANGED <<saved_state, saved_completed, faults, stops>>
    BY <1>14 DEF Boot, BootSingle, disk, bounds
  <2>1. CountersLinked'
    BY <1>t, <2>0 DEF CountersLinked, CountersAgree, InCycle
  <2>2. CountersAgree'
    BY <1>t, <2>0 DEF CountersAgree, InCycle
  <2> QED BY <1>c, <2>1, <2>2
<1>15. CASE RequestStop
  BY <1>15, QuietStepCounts DEF RequestStop, session, disk, bounds
<1>16. CASE Raise
  <2>1. CountersLinked'
    BY <1>16, <1>t DEF Raise, CountersLinked, CountersAgree, InCycle, session, disk
  <2>2. CountersAgree'
    BY <1>16, <1>t DEF Raise, CountersAgree, InCycle, session, disk
  <2> QED BY <1>c, <2>1, <2>2
<1>17. CASE Kill
  <2>1. CountersLinked'
    BY <1>17 DEF Kill, Vanish, CountersLinked, InCycle
  <2>2. /\ pc' = "off" /\ faults' = faults + 1
        /\ UNCHANGED <<saved_state, saved_completed, stops>>
    BY <1>17 DEF Kill, Vanish, disk
  <2>3. stops = 0 => saved_state.cycle_number <= saved_completed + faults + 1
    BY <1>t DEF CountersAgree
  <2>4. CountersAgree'
    BY <1>t, <2>2, <2>3 DEF CountersAgree, InCycle
  <2> QED BY <1>c, <2>1, <2>4
<1>18. CASE StopCommand
  <2>1. stops' # 0
    BY <1>18, <1>t DEF StopCommand
  <2> QED BY <1>c, <2>1 DEF CountersLinked, CountersAgree
<1>19. CASE UNCHANGED vars
  BY <1>19, QuietStepCounts DEF vars
<1> QED
  BY <1>1, <1>2, <1>3, <1>4, <1>5, <1>6, <1>7, <1>8, <1>9, <1>10, <1>11, <1>12,
     <1>13, <1>14, <1>15, <1>16, <1>17, <1>18, <1>19 DEF Next, Step

\* The two files never disagree by more than one cycle per kill or uncaught
\* exception, and the checkpoint never counts a cycle the clock has not begun.
THEOREM CountersStayTogether == Spec => []CountersAgree
<1>1. Init => CounterInvariant
  BY DEF Init, CounterInvariant, CheckpointNeverAhead, CountersLinked, CountersAgree,
       InCycle, FreshState
<1>2. CounterInvariant => CountersAgree
  BY DEF CounterInvariant
<1> QED BY <1>1, <1>2, CounterStep, TypeCorrect, PTL DEF Spec

-----------------------------------------------------------------------------
(* The order of the day. *)

\* A decision keeps the day in order, and leaves no call for work it is past.
LEMMA DecisionKeepsOrder ==
  ASSUME NEW s \in CircadianState, s.phases_visited # <<>>, s.phase # "DEEP_SLEEP", Placed(s),
         OrderedDay(s), NEW current \in BOOLEAN, IntakeSettled(s, current), SensibleIntake,
         SeenFirst(s), Decide(s) \in Phases, ~Visited(s, Decide(s))
  PROVE  OrderedDay(Enter(s, Decide(s))) /\ IntakeSettled(Enter(s, Decide(s)), current)
<1> DEFINE d == Decide(s)
           t == Enter(s, d)
           LowIn(u, kind, floor) == Level(u, kind) < floor
<1>0. InOrder(s) /\ TurnsAreOver(s) /\ WakesFirst(s)
  BY DEF OrderedDay
<1>1. /\ t.phases_visited = Append(s.phases_visited, d) /\ t.phase = d
      /\ s.phases_visited \in Seq(Phases)
      /\ Intake(t) = Intake(s)
      /\ \A q : Visited(t, q) <=> Visited(s, q) \/ q = d
  BY EnterChanges DEF Enter, CircadianState
<1>2. /\ Level(s, "RESEARCH") < ResearchFloor => Level(t, "RESEARCH") < ResearchFloor
      /\ Level(s, "CREATIVE") < CreativeFloor => Level(t, "CREATIVE") < CreativeFloor
      /\ Level(s, "CRITICAL") < CriticalFloor => Level(t, "CRITICAL") < CriticalFloor
  <2>1. t \in CircadianState
    BY EnterType
  <2>2. /\ \A kind \in {"CREATIVE", "RESEARCH", "CRITICAL"} :
             Level(s, kind) \in Int /\ Level(t, kind) \in Int /\ Level(t, kind) <= Level(s, kind)
        /\ {ResearchFloor, CreativeFloor, CriticalFloor} \subseteq Int
    BY <2>1, EnterChanges, LevelIsNumber, ThresholdsAssumption
    DEF NoRicher, EnergyKinds, ThresholdsAssumption
  <2> QED BY <2>2
<1>3. /\ d \in Working => ~Past(s, Rank[d])
      /\ d # "AWAKENING"
  BY WorkIsTakenInTurn
<1>4. \A k : Past(t, k) <=> Past(s, k) \/ (d \in Working /\ Rank[d] > k)
  BY <1>1 DEF Past
<1>5. /\ Visited(s, s.phase)
      /\ s.phase \in {"FOCUS", "CREATION", "REFLECTION", "SECOND_WIND", "EXPLORATION"} => Past(s, 2)
      /\ s.phase \in {"CREATION", "REFLECTION", "SECOND_WIND", "EXPLORATION"} => Past(s, 3)
      /\ s.phase \in {"SECOND_WIND", "EXPLORATION"} => Past(s, 5)
  BY <1>0, NotPastItself, WorkIsBehind
<1>6. /\ Level(s, "CREATIVE") \in Int /\ Level(s, "RESEARCH") \in Int
      /\ CreativeFloor \in Int /\ ResearchFloor \in Int
      /\ Intake(s) \in Nat /\ MinObservations \in 1 .. 8
      /\ s.observation_backlog \in Nat /\ s.research_backlog \in Nat
      /\ Intake(s) = s.observation_backlog + s.research_backlog
  <2>1. s.observation_backlog \in Nat /\ s.research_backlog \in Nat
    BY DEF CircadianState
  <2>2. /\ Level(s, "CREATIVE") \in Int /\ Level(s, "RESEARCH") \in Int
        /\ CreativeFloor \in Int /\ ResearchFloor \in Int
    BY LevelIsNumber, ThresholdsAssumption DEF ThresholdsAssumption, EnergyKinds
  <2> QED BY <2>1, <2>2 DEF Intake, SensibleIntake
<1>7. Answers(s)[8] = NoPhase =>
        \/ Visited(s, "CREATION") \/ Level(s, "CREATIVE") < CreativeFloor
        \/ (~Visited(s, "FOCUS") /\ Intake(s) < MinObservations)
  BY <1>6 DEF Answers, RuleReadyToCreate, NoPhase
<1>8. d \in Working \cup {"DIGESTION"} /\ d = Fallback(s) =>
        \/ s.phase \in Working \cup {"AWAKENING", "DIGESTION"}
  BY <1>0, FallbackLeaves
<1> HIDE DEF d, t
<1>9. InOrder(t)
  BY <1>0, <1>1, <1>3, OrderGrows
<1>10. WakesFirst(t)
  BY <1>1, <1>3 DEF WakesFirst
<1>11. Past(t, 1) => Visited(t, "OBSERVATION") \/ Level(t, "RESEARCH") < ResearchFloor
  <2>1. CASE Past(s, 1)
    BY <1>0, <1>1, <1>2, <2>1 DEF TurnsAreOver
  <2>2. CASE d \in Working /\ Rank[d] > 1
    <3>1. d \in Working \ {"OBSERVATION"}
      BY <2>2 DEF Rank
    <3>2. Answers(s)[5] = NoPhase
      BY <3>1, EarlierWorkIsSilent DEF d
    <3>3. Visited(s, "OBSERVATION") \/ Level(s, "RESEARCH") < ResearchFloor
      BY <1>6, <3>2 DEF Answers, RuleNeedsObservation, NoPhase
    <3> QED BY <1>1, <1>2, <3>3
  <2> QED BY <1>4, <2>1, <2>2
<1>12. Past(t, 2) \/ Visited(t, "DIGESTION") =>
         Visited(t, "HUNT") \/ Level(t, "RESEARCH") < ResearchFloor
  <2>1. CASE Past(s, 2) \/ Visited(s, "DIGESTION")
    BY <1>0, <1>1, <1>2, <2>1 DEF TurnsAreOver
  <2>2. ASSUME ~Past(s, 2), ~Visited(s, "DIGESTION"),
               d \in (Working \ {"OBSERVATION", "HUNT"}) \cup {"DIGESTION"}
        PROVE  Visited(s, "HUNT") \/ Level(s, "RESEARCH") < ResearchFloor
    <3>1. CASE d = Fallback(s)
      <4>1. s.phase \in {"AWAKENING", "OBSERVATION", "HUNT"}
        BY <1>5, <1>8, <2>2, <3>1 DEF Working
      <4>2. CASE s.phase = "HUNT"
        BY <1>5, <4>2
      <4>3. CASE s.phase \in {"AWAKENING", "OBSERVATION"}
        BY <1>0, <2>2, <3>1, <4>3, FallbackLeaves DEF d, Working
      <4> QED BY <4>1, <4>2, <4>3
    <3>2. CASE d # Fallback(s)
      <4>1. ~Visited(s, "FOCUS") /\ ~Visited(s, "CREATION") /\ ~Visited(s, "REFLECTION")
        BY <2>2, WorkIsBehind
      <4>2. \/ d = "DIGESTION" /\ Visited(s, "HUNT")
            \/ d = "FOCUS" /\ Intake(s) >= MinObservations
        BY <2>2, <3>2, <4>1, WorkComesFrom DEF d, Working
      <4>3. CASE d = "FOCUS" /\ Intake(s) >= MinObservations
        <5>1. s.observation_backlog > 0
          BY <1>6, <4>3 DEF SeenFirst
        <5>2. Answers(s)[6] = NoPhase
          BY <4>3, EarlierWorkIsSilent DEF d, Working
        <5> QED BY <1>6, <5>1, <5>2 DEF Answers, RuleNeedsResearch, NoPhase
      <4> QED BY <4>2, <4>3
    <3> QED BY <3>1, <3>2
  <2>3. \/ Past(s, 2) \/ Visited(s, "DIGESTION")
        \/ d \in (Working \ {"OBSERVATION", "HUNT"}) \cup {"DIGESTION"}
        \/ ~(Past(t, 2) \/ Visited(t, "DIGESTION"))
    BY <1>1, <1>4 DEF Working, Rank
  <2> QED BY <1>1, <1>2, <2>1, <2>2, <2>3
<1>13. Past(t, 4) => \/ Visited(t, "CREATION") \/ Level(t, "CREATIVE") < CreativeFloor
                     \/ ~Visited(t, "FOCUS")
  <2>1. CASE Past(s, 4)
    <3>1. Past(s, 3)
      BY <2>1, PastIsMonotone
    <3>2. d # "FOCUS"
      BY <1>3, <3>1 DEF Working, Rank
    <3> QED BY <1>0, <1>1, <1>2, <2>1, <3>2 DEF TurnsAreOver
  <2>2. ASSUME ~Past(s, 4), d \in {"REFLECTION", "SECOND_WIND", "EXPLORATION"}
        PROVE  \/ Visited(s, "CREATION") \/ Level(s, "CREATIVE") < CreativeFloor
               \/ ~Visited(s, "FOCUS")
    <3>1. CASE Answers(s)[8] = NoPhase
      BY <1>7, <3>1
    <3>2. CASE Answers(s)[8] # NoPhase
      <4>1. (d = "REFLECTION" /\ Visited(s, "CREATION")) \/ Visited(s, "REFLECTION")
        BY <2>2, <3>2, WorkComesFrom DEF d, Working
      <4> QED BY <2>2, <4>1, WorkIsBehind
    <3> QED BY <3>1, <3>2
  <2>3. Past(s, 4) \/ d \in {"REFLECTION", "SECOND_WIND", "EXPLORATION"} \/ ~Past(t, 4)
    BY <1>4 DEF Working, Rank
  <2> QED BY <1>1, <1>2, <2>1, <2>2, <2>3
<1>14. Past(t, 5) => Visited(t, "REFLECTION") \/ Level(t, "CRITICAL") < CriticalFloor
  <2>1. CASE Past(s, 5)
    BY <1>0, <1>1, <1>2, <2>1 DEF TurnsAreOver
  <2>2. ASSUME ~Past(s, 5), d \in {"SECOND_WIND", "EXPLORATION"}
        PROVE  Visited(s, "REFLECTION") \/ Level(s, "CRITICAL") < CriticalFloor
    <3>1. CASE d = Fallback(s)
      BY <1>0, <1>5, <2>2, <3>1, FallbackLeaves DEF d, Working
    <3>2. CASE d # Fallback(s)
      BY <2>2, <3>2, WorkComesFrom DEF d, Working
    <3> QED BY <3>1, <3>2
  <2>3. Past(s, 5) \/ d \in {"SECOND_WIND", "EXPLORATION"} \/ ~Past(t, 5)
    BY <1>4 DEF Working, Rank
  <2> QED BY <1>1, <1>2, <2>1, <2>2, <2>3
<1>15. Past(t, 3) => HasFocused(t) \/ (current /\ Intake(t) < MinObservations)
  <2>1. HasFocused(s) => HasFocused(t)
    BY <1>1, <1>2 DEF HasFocused
  <2>2. CASE Past(s, 3)
    BY <1>1, <2>1, <2>2 DEF IntakeSettled
  <2>3. CASE d = "CREATION"
    BY <1>1, <2>3 DEF HasFocused
  <2>4. ASSUME ~Past(s, 3), d \in {"REFLECTION", "SECOND_WIND", "EXPLORATION"}
        PROVE  HasFocused(s) \/ (current /\ Intake(s) < MinObservations)
    <3>1. CASE Answers(s)[8] # NoPhase \/ d # Fallback(s)
      <4>1. (d = "REFLECTION" /\ Visited(s, "CREATION")) \/ Visited(s, "REFLECTION")
        BY <2>4, <3>1, WorkComesFrom DEF d, Working
      <4> QED BY <2>4, <4>1, WorkIsBehind DEF HasFocused
    <3>2. CASE Answers(s)[8] = NoPhase /\ d = Fallback(s)
      <4>1. s.phase \in {"AWAKENING", "OBSERVATION", "HUNT", "FOCUS", "DIGESTION"}
        BY <1>5, <1>8, <2>4, <3>2 DEF Working
      <4>2. CASE s.phase = "DIGESTION"
        BY <1>6, <1>7, <3>2, <4>2 DEF IntakeSettled, HasFocused
      <4>3. CASE s.phase # "DIGESTION"
        BY <1>0, <2>4, <3>2, <4>1, <4>3, FallbackLeaves DEF d, Working, HasFocused
      <4> QED BY <4>2, <4>3
    <3> QED BY <3>1, <3>2
  <2>5. \/ Past(s, 3) \/ d = "CREATION" \/ d \in {"REFLECTION", "SECOND_WIND", "EXPLORATION"}
        \/ ~Past(t, 3)
    BY <1>4 DEF Working, Rank
  <2> QED BY <1>1, <2>1, <2>2, <2>3, <2>4, <2>5
<1>16. d = "DIGESTION" => HasFocused(t) \/ Intake(t) >= 8 \/ current
  <2>1. SUFFICES ASSUME d = "DIGESTION" PROVE HasFocused(s) \/ Intake(s) >= 8
    BY <1>1, <1>2 DEF HasFocused
  <2>2. CASE d = Fallback(s)
    <3>1. s.phase \in {"AWAKENING", "OBSERVATION", "HUNT", "FOCUS", "CREATION"}
      BY <1>0, <1>8, <2>1, <2>2, FallbackLeaves DEF d, Working
    <3> QED BY <1>0, <1>5, <2>1, <2>2, <3>1, FallbackLeaves DEF d, HasFocused
  <2>3. CASE d # Fallback(s)
    BY <2>1, <2>3, WorkComesFrom DEF d, Working
  <2> QED BY <2>2, <2>3
<1> QED
  BY <1>1, <1>9, <1>10, <1>11, <1>12, <1>13, <1>14, <1>15, <1>16
  DEF OrderedDay, TurnsAreOver, IntakeSettled, d, t

\* What the signals say was taken in is what is filed under this cycle's id: true
\* when a phase has just returned, and false for a while when one fails.
SignalsAreCurrent ==
  /\ state.observation_backlog = stored.observations
  /\ state.research_backlog = stored.research

WorkInvariant ==
  /\ InOrder(state) /\ InOrder(saved_state)
  /\ SeenFirst(state) /\ SeenFirst(saved_state)
  /\ stored.observations = 0 => stored.research = 0
  /\ pc \in {"decide", "execute", "sync", "checkpoint"} =>
       OrderedDay(state) /\ IntakeSettled(state, SignalsAreCurrent)

LEMMA SameListSameOrder ==
  ASSUME NEW s, NEW t, t.phases_visited = s.phases_visited
  PROVE  /\ InOrder(s) => InOrder(t)
         /\ \A k : Past(t, k) <=> Past(s, k)
         /\ \A p : Visited(t, p) <=> Visited(s, p)
BY DEF InOrder, Past, Visited

LEMMA EmptyDayIsOrdered ==
  ASSUME NEW s, NEW current, s.phases_visited = <<>>
  PROVE  InOrder(s) /\ OrderedDay(s) /\ IntakeSettled(s, current)
BY DEF InOrder, Past, Visited, OrderedDay, TurnsAreOver, WakesFirst, IntakeSettled

\* What a phase files: seeds are only added, and only OBSERVATION and HUNT file
\* observations and findings, of what was observed.
LEMMA YieldsOnlyAdd ==
  ASSUME NEW p \in Phases, stored \in Stored, NEW records \in Yields(p)
  PROVE  /\ records \in Stored
         /\ records.seeds >= stored.seeds
         /\ p # "OBSERVATION" => records.observations = stored.observations
         /\ p # "HUNT" => records.research = stored.research
         /\ (stored.observations = 0 => stored.research = 0)
              => (records.observations = 0 => records.research = 0)
<1>1. /\ \A m : [stored EXCEPT !.observations = m].seeds = stored.seeds
      /\ \A m : [stored EXCEPT !.observations = m].research = stored.research
      /\ \A m : [stored EXCEPT !.observations = m].observations = m
      /\ \A m : [stored EXCEPT !.research = m].seeds = stored.seeds
      /\ \A m : [stored EXCEPT !.research = m].observations = stored.observations
      /\ \A m : [stored EXCEPT !.seeds = m].seeds = m
      /\ \A m : [stored EXCEPT !.seeds = m].observations = stored.observations
      /\ \A m : [stored EXCEPT !.seeds = m].research = stored.research
  BY DEF Stored
<1>2. stored.seeds \in Nat /\ stored.observations \in Nat
  BY DEF Stored
<1>3. /\ \A n \in SeedYield : \A m \in Filed(stored.seeds, n) : m >= stored.seeds
      /\ \A n \in ObservationYield : \A m \in Filed(stored.observations, n) :
           m \in Nat /\ m >= stored.observations
  BY <1>2, EnvironmentAssumption DEF EnvironmentAssumption, Filed
<1>4. records \in Stored
  BY YieldsType
<1>5. CASE records = stored
  BY <1>2, <1>4, <1>5
<1>6. CASE p = "OBSERVATION"
  <2>1. PICK n \in ObservationYield :
          \E m \in Filed(stored.observations, n) : records = [stored EXCEPT !.observations = m]
    BY <1>6 DEF Yields
  <2>2. PICK m \in Filed(stored.observations, n) : records = [stored EXCEPT !.observations = m]
    BY <2>1
  <2>3. m = 0 => stored.observations = 0
    BY <1>2, <1>3
  <2> QED BY <1>1, <1>2, <1>4, <1>6, <2>2, <2>3
<1>7. CASE p = "HUNT" /\ records # stored
  <2>1. ~Idle(p)
    BY <1>7 DEF Yields
  <2>2. stored.observations # 0
    BY <1>7, <2>1 DEF Idle
  <2>3. \E m : records = [stored EXCEPT !.research = m]
    BY <1>7 DEF Yields
  <2> QED BY <1>1, <1>2, <1>4, <1>7, <2>2, <2>3
<1>8. CASE p \notin {"OBSERVATION", "HUNT"} /\ records # stored
  <2>1. \E n \in SeedYield : \E m \in Filed(stored.seeds, n) : records = [stored EXCEPT !.seeds = m]
    BY <1>8 DEF Yields
  <2> QED BY <1>1, <1>3, <1>4, <1>8, <2>1
<1> QED BY <1>5, <1>6, <1>7, <1>8

\* What a phase leaves in the signals: only judging scores, only digestion
\* measures, and no phase refills a gauge.
LEMMA ResultsKeepSignals ==
  ASSUME NEW p \in Phases, state \in CircadianState, NEW r \in Results(p)
  PROVE  /\ p # "REFLECTION" => /\ r[1].recent_quality = state.recent_quality
                                /\ r[1].recent_novelty = state.recent_novelty
         /\ p # "DIGESTION" => r[1].duplicate_rate = state.duplicate_rate
         /\ \A kind \in EnergyKinds \ {"MEMORY_PRESSURE"} :
              r[1].energy[kind] = state.energy[kind]
<1>1. CASE p = "REFLECTION"
  <2>1. \/ r = <<state, outcome>>
        \/ \E score \in QualityScores \X NoveltyScores : r = Judgement(score)
    BY <1>1 DEF Results, Judged
  <2>2. CASE r = <<state, outcome>>
    BY <1>1, <2>2
  <2>3. ASSUME NEW score \in QualityScores \X NoveltyScores, r = Judgement(score)
        PROVE  r[1].duplicate_rate = state.duplicate_rate /\ r[1].energy = state.energy
    BY <2>3 DEF Judgement, CircadianState
  <2> QED BY <1>1, <2>1, <2>2, <2>3
<1>2. CASE p # "REFLECTION"
  <2>1. PICK s \in Effects(p) : r = <<s, Learned(p)>>
    BY <1>2 DEF Results
  <2>2. CASE p = "DIGESTION"
    BY <1>2, <2>1, <2>2 DEF Effects, CircadianState
  <2>3. CASE p = "CONSOLIDATION"
    <3>1. s = [state EXCEPT !.energy = Spend(state.energy, "MEMORY_PRESSURE", 600)]
      BY <2>1, <2>3 DEF Effects
    <3>2. \A kind \in EnergyKinds \ {"MEMORY_PRESSURE"} :
            Spend(state.energy, "MEMORY_PRESSURE", 600)[kind] = state.energy[kind]
      BY DEF Spend, CircadianState, EnergyProfile
    <3>3. /\ s.recent_quality = state.recent_quality
          /\ s.recent_novelty = state.recent_novelty
          /\ s.duplicate_rate = state.duplicate_rate
          /\ s.energy = Spend(state.energy, "MEMORY_PRESSURE", 600)
      BY <3>1 DEF CircadianState
    <3> QED BY <2>1, <3>2, <3>3
  <2>4. CASE p \notin {"DIGESTION", "CONSOLIDATION"}
    BY <1>2, <2>1, <2>4 DEF Effects
  <2> QED BY <2>2, <2>3, <2>4
<1> QED BY <1>1, <1>2

LEMMA RefreshReads ==
  ASSUME NEW s \in CircadianState, NEW records \in Stored, NEW published \in Nat
  PROVE  LET t == Refreshed(s, records, published) IN
         /\ t.observation_backlog = records.observations
         /\ t.research_backlog = records.research
         /\ t.seed_backlog = records.seeds
         /\ t.recent_quality = s.recent_quality
         /\ t.recent_novelty = s.recent_novelty
         /\ t.duplicate_rate = s.duplicate_rate
         /\ \A kind \in EnergyKinds \ {"MEMORY_PRESSURE"} : t.energy[kind] = s.energy[kind]
<1> DEFINE rise == IF 6 * published > 200 THEN 200 ELSE 6 * published
           e == Restore(s.energy, "MEMORY_PRESSURE", rise)
<1>1. \A kind \in EnergyKinds \ {"MEMORY_PRESSURE"} : e[kind] = s.energy[kind]
  BY DEF Restore, CircadianState, EnergyProfile
<1> HIDE DEF rise
<1>2. Refreshed(s, records, published) =
        [s EXCEPT !.observation_backlog = records.observations,
                  !.research_backlog = records.research,
                  !.seed_backlog = records.seeds,
                  !.energy = e]
  BY DEF Refreshed, rise
<1> HIDE DEF e
<1> QED BY <1>1, <1>2 DEF CircadianState

\* A step that leaves the day and refills none of its gauges leaves it in order.
LEMMA SameDayStaysInOrder ==
  ASSUME NEW s \in CircadianState, NEW t \in CircadianState, OrderedDay(s),
         t.phases_visited = s.phases_visited, t.phase = s.phase,
         \A kind \in {"CREATIVE", "RESEARCH", "CRITICAL"} : t.energy[kind] = s.energy[kind]
  PROVE  /\ OrderedDay(t)
         /\ HasFocused(t) <=> HasFocused(s)
         /\ \A k : Past(t, k) <=> Past(s, k)
<1>1. /\ InOrder(t)
      /\ \A k : Past(t, k) <=> Past(s, k)
      /\ \A p : Visited(t, p) <=> Visited(s, p)
  BY SameListSameOrder DEF OrderedDay
<1>2. TurnsAreOver(t)
  BY <1>1 DEF OrderedDay, TurnsAreOver, Level
<1> QED BY <1>1, <1>2 DEF OrderedDay, WakesFirst, HasFocused, Level

\* Once its turn is over, and in a digestion, the mind does not perceive.
LEMMA PerceivingComesEarly ==
  ASSUME NEW s \in CircadianState, s.phases_visited # <<>>, Placed(s), OrderedDay(s)
  PROVE  Past(s, 3) \/ s.phase = "DIGESTION" => s.phase \notin {"OBSERVATION", "HUNT"}
<1>1. Past(s, 3) => Past(s, 1) /\ Past(s, 2)
  BY PastIsMonotone
<1>2. s.phase \in {"OBSERVATION", "HUNT"} => ~Past(s, Rank[s.phase])
  BY NotPastItself DEF OrderedDay, Working
<1> QED BY <1>1, <1>2 DEF Rank

\* A phase that returns leaves the signals current.
LEMMA ReturningKeepsOrder ==
  ASSUME TypeOK, DayInvariant, WorkInvariant, PhaseReturns
  PROVE  /\ OrderedDay(state') /\ IntakeSettled(state, SignalsAreCurrent)'
         /\ SeenFirst(state') /\ (stored'.observations = 0 => stored'.research = 0)
<1>1. /\ state \in CircadianState /\ state' \in CircadianState
      /\ stored \in Stored /\ outcome \in Outcome
      /\ state.phase \in Phases
  BY PhaseReturnsType DEF TypeOK, CircadianState
<1>2. /\ state.phases_visited # <<>> /\ Placed(state)
      /\ OrderedDay(state) /\ IntakeSettled(state, SignalsAreCurrent)
      /\ stored.observations = 0 => stored.research = 0
  BY DEF PhaseReturns, DayInvariant, PlaceInDay, SoundDay, Placed, LastPhase, WorkInvariant
<1>3. PICK n \in WantedCalls(state.phase), e \in Published(state.phase),
            records \in Yields(state.phase), r \in Results(state.phase) :
        /\ stored' = records
        /\ state' = Refreshed(r[1], records, Publish(e))
  BY DEF PhaseReturns
<1>4. /\ records \in Stored
      /\ state.phase # "OBSERVATION" => records.observations = stored.observations
      /\ state.phase # "HUNT" => records.research = stored.research
      /\ records.observations = 0 => records.research = 0
  BY <1>1, <1>2, <1>3, YieldsOnlyAdd
<1>5. Publish(e) \in Nat
  <2>1. e \in Nat /\ events \in Nat
    BY <1>1, <1>3, WorkType DEF TypeOK, EventCap
  <2> QED BY <2>1 DEF Publish, EventCap
<1>6. r[1] \in CircadianState
  BY <1>1, <1>3, ResultsType
<1>7. /\ state'.observation_backlog = records.observations
      /\ state'.research_backlog = records.research
      /\ \A kind \in EnergyKinds \ {"MEMORY_PRESSURE"} : state'.energy[kind] = state.energy[kind]
  BY <1>1, <1>3, <1>4, <1>5, <1>6, RefreshReads, ResultsKeepSignals
<1>8. state'.phases_visited = state.phases_visited /\ state'.phase = state.phase
  BY PhaseReturnsSameDay DEF SameDay
<1>9. /\ OrderedDay(state')
      /\ HasFocused(state') <=> HasFocused(state)
      /\ \A k : Past(state', k) <=> Past(state, k)
  BY <1>1, <1>2, <1>7, <1>8, SameDayStaysInOrder DEF EnergyKinds
<1>10. SignalsAreCurrent'
  BY <1>3, <1>7 DEF SignalsAreCurrent
<1>11. Past(state, 3) /\ SignalsAreCurrent => Intake(state') = Intake(state)
  BY <1>1, <1>2, <1>4, <1>7, PerceivingComesEarly DEF SignalsAreCurrent, Intake
<1>12. IntakeSettled(state, SignalsAreCurrent)'
  BY <1>2, <1>9, <1>10, <1>11 DEF IntakeSettled
<1> QED BY <1>3, <1>4, <1>7, <1>9, <1>12 DEF SeenFirst

\* A phase that fails leaves the signals as they were, current or not.
LEMMA FailingKeepsOrder ==
  ASSUME TypeOK, DayInvariant, WorkInvariant, PhaseFails
  PROVE  /\ OrderedDay(state') /\ IntakeSettled(state, SignalsAreCurrent)'
         /\ stored'.observations = 0 => stored'.research = 0
<1>1. /\ state' = state /\ state.phases_visited # <<>> /\ Placed(state)
      /\ OrderedDay(state) /\ IntakeSettled(state, SignalsAreCurrent)
      /\ stored.observations = 0 => stored.research = 0
      /\ state.phase \in Phases /\ state \in CircadianState /\ stored \in Stored
  BY DEF PhaseFails, WorkInvariant, TypeOK, CircadianState, DayInvariant, PlaceInDay, SoundDay,
         Placed, LastPhase
<1>2. PICK records \in Yields(state.phase) \cup {stored} : stored' = records
  BY DEF PhaseFails
<1>3. /\ state.phase # "OBSERVATION" => records.observations = stored.observations
      /\ state.phase # "HUNT" => records.research = stored.research
      /\ records.observations = 0 => records.research = 0
  BY <1>1, <1>2, YieldsOnlyAdd
<1>4. Past(state, 3) \/ state.phase = "DIGESTION" => (SignalsAreCurrent' <=> SignalsAreCurrent)
  BY <1>1, <1>2, <1>3, PerceivingComesEarly DEF SignalsAreCurrent
<1> QED BY <1>1, <1>2, <1>3, <1>4 DEF IntakeSettled

LEMMA DecidingKeepsOrder ==
  ASSUME SensibleIntake, TypeOK, DayInvariant, WorkInvariant, EnterPhase
  PROVE  /\ OrderedDay(state') /\ IntakeSettled(state, SignalsAreCurrent)'
         /\ SeenFirst(state')
<1>1. /\ stored' = stored
      /\ state' = Enter(state, Decide(state))
      /\ state \in CircadianState
      /\ state.phases_visited # <<>> => state.phase # "DEEP_SLEEP"
      /\ state.phases_visited = <<>> => state.llm_calls = 0
      /\ Placed(state) /\ OrderedDay(state) /\ IntakeSettled(state, SignalsAreCurrent)
      /\ SeenFirst(state)
  BY DEF EnterPhase, DayInvariant, PlaceInDay, SoundDay, Placed, LastPhase, WorkInvariant, TypeOK
<1>2. Decide(state) \in Phases /\ ~Visited(state, Decide(state))
  <2>1. Awake(state)
    BY <1>1, AwakeMind DEF EnterPhase, DayInvariant
  <2> QED BY <1>1, <2>1, DecisionIsUnvisited
<1>3. /\ state'.observation_backlog = state.observation_backlog
      /\ state'.research_backlog = state.research_backlog
      /\ state'.phases_visited = Append(state.phases_visited, Decide(state))
      /\ state'.phase = Decide(state)
  BY <1>1 DEF Enter, CircadianState
<1>4. SeenFirst(state') /\ (SignalsAreCurrent' <=> SignalsAreCurrent)
  BY <1>1, <1>3 DEF SeenFirst, SignalsAreCurrent
<1>5. CASE state.phases_visited = <<>>
  <2>1. state'.phases_visited = <<"AWAKENING">> /\ state'.phase = "AWAKENING"
    BY <1>1, <1>3, <1>5, DayStartsAwakening
  <2>2. InOrder(state') /\ (\A k : ~Past(state', k)) /\ ~Visited(state', "DIGESTION")
    BY <2>1 DEF InOrder, Past, Visited, Working
  <2> QED BY <1>4, <2>1, <2>2 DEF OrderedDay, TurnsAreOver, WakesFirst, IntakeSettled
<1>6. CASE state.phases_visited # <<>>
  <2>1. SignalsAreCurrent \in BOOLEAN
    BY DEF SignalsAreCurrent
  <2>2. OrderedDay(state') /\ IntakeSettled(state', SignalsAreCurrent)
    BY <1>1, <1>2, <1>6, <2>1, DecisionKeepsOrder
  <2>3. IntakeSettled(state, SignalsAreCurrent)'
    BY <1>4, <2>2 DEF IntakeSettled
  <2> QED BY <1>4, <2>2, <2>3
<1> QED BY <1>5, <1>6

LEMMA WorkStep ==
  ASSUME SensibleIntake
  PROVE  TypeOK /\ DayInvariant /\ WorkInvariant /\ [Next]_vars => WorkInvariant'
<1> SUFFICES ASSUME TypeOK, DayInvariant, WorkInvariant, [Next]_vars PROVE WorkInvariant'
  OBVIOUS
<1>0. /\ state \in CircadianState /\ saved_state \in CircadianState
      /\ state' \in CircadianState /\ stored \in Stored /\ events \in Nat
      /\ InOrder(state) /\ InOrder(saved_state)
      /\ SeenFirst(state) /\ SeenFirst(saved_state)
      /\ stored.observations = 0 => stored.research = 0
  BY TypeStep DEF WorkInvariant, TypeOK
<1>1. CASE EnterPhase
  BY <1>0, <1>1, DecidingKeepsOrder DEF EnterPhase, WorkInvariant, OrderedDay, disk
<1>2. CASE PhaseReturns
  BY <1>0, <1>2, ReturningKeepsOrder DEF PhaseReturns, WorkInvariant, OrderedDay, disk
<1>3. CASE PhaseFails
  BY <1>0, <1>3, FailingKeepsOrder DEF PhaseFails, WorkInvariant, OrderedDay, disk
<1>4. CASE SyncAndSaveState
  <2>1. /\ state'.phases_visited = state.phases_visited /\ state'.phase = state.phase
        /\ state'.energy = state.energy
        /\ state'.observation_backlog = state.observation_backlog
        /\ state'.research_backlog = state.research_backlog
        /\ saved_state' = state' /\ stored' = stored /\ pc = "sync" /\ pc' = "checkpoint"
    BY <1>0, <1>4 DEF SyncAndSaveState, CircadianState
  <2>2. OrderedDay(state) /\ IntakeSettled(state, SignalsAreCurrent)
    BY <2>1 DEF WorkInvariant
  <2>3. /\ OrderedDay(state')
        /\ HasFocused(state') <=> HasFocused(state)
        /\ \A k : Past(state', k) <=> Past(state, k)
    BY <1>0, <2>1, <2>2, SameDayStaysInOrder
  <2>4. IntakeSettled(state, SignalsAreCurrent)' /\ SeenFirst(state')
    BY <1>0, <2>1, <2>2, <2>3 DEF IntakeSettled, SignalsAreCurrent, Intake, SeenFirst
  <2> QED BY <1>0, <2>1, <2>3, <2>4 DEF WorkInvariant, OrderedDay
<1>5. CASE SaveCheckpoint
  BY <1>0, <1>5 DEF SaveCheckpoint, WorkInvariant, SignalsAreCurrent
<1>6. CASE BeginCycle
  <2>1. /\ state'.phases_visited = <<>>
        /\ state'.observation_backlog = state.observation_backlog
        /\ state'.research_backlog = state.research_backlog
    BY <1>0, <1>6 DEF BeginCycle, BeginDay, CircadianState
  <2>2. stored'.observations = 0 => stored'.research = 0
    BY <1>6, LeftoversAssumption DEF BeginCycle, NothingStored, Found, LeftoversAssumption
  <2>3. OrderedDay(state') /\ IntakeSettled(state, SignalsAreCurrent)'
    BY <2>1, EmptyDayIsOrdered
  <2>4. SeenFirst(state')
    BY <1>0, <2>1 DEF SeenFirst
  <2> QED BY <1>0, <1>6, <2>2, <2>3, <2>4 DEF BeginCycle, WorkInvariant, OrderedDay, disk
<1>7. CASE BudgetExceeded
  <2>1. /\ state'.phases_visited = Append(state.phases_visited, "DEEP_SLEEP")
        /\ state.phases_visited \in Seq(Phases)
        /\ state'.observation_backlog = state.observation_backlog
        /\ state'.research_backlog = state.research_backlog
    BY <1>0, <1>7 DEF BudgetExceeded, Enter, CircadianState
  <2>2. "DEEP_SLEEP" \notin Working
    BY DEF Working
  <2>3. InOrder(state') /\ SeenFirst(state')
    BY <1>0, <2>1, <2>2, OrderGrows DEF SeenFirst
  <2>4. PICK records \in Yields("HUNT") \cup {stored} : stored' = records
    BY <1>7 DEF BudgetExceeded
  <2>5. stored'.observations = 0 => stored'.research = 0
    BY <1>0, <2>4, YieldsOnlyAdd DEF Phases
  <2>6. pc' = "forced" /\ saved_state' = saved_state
    BY <1>7 DEF BudgetExceeded, disk
  <2> QED BY <1>0, <2>3, <2>5, <2>6 DEF WorkInvariant
<1>8. CASE ForcedSleep
  <2>1. state'.phases_visited = state.phases_visited
    BY <1>0, <1>8, RefreshedSameDay DEF ForcedSleep, SameDay
  <2>2. SeenFirst(state')
    BY <1>0, <1>8, RefreshReads DEF ForcedSleep, SeenFirst
  <2> QED BY <1>0, <1>8, <2>1, <2>2, SameListSameOrder DEF ForcedSleep, WorkInvariant, disk
<1>9. CASE EndCycle
  <2>1. /\ state'.phases_visited = state.phases_visited
        /\ state'.observation_backlog = state.observation_backlog
        /\ state'.research_backlog = state.research_backlog
    BY <1>0, <1>9 DEF EndCycle, EndDay, CircadianState
  <2>2. InOrder(state') /\ SeenFirst(state')
    BY <1>0, <2>1, SameListSameOrder DEF SeenFirst
  <2> QED BY <1>0, <1>9, <2>2 DEF EndCycle, WorkInvariant
<1>10. InOrder(FreshState) /\ SeenFirst(FreshState)
  BY EmptyDayIsOrdered DEF FreshState, SeenFirst
<1>11. CASE ShutdownSaveCheckpoint \/ Kill
  BY <1>0, <1>10, <1>11 DEF ShutdownSaveCheckpoint, Kill, Vanish, WorkInvariant, disk, NothingStored
<1>12. CASE (\E n \in CyclesRequested : Boot(n)) \/ BootSingle
  BY <1>0, <1>12 DEF Boot, BootSingle, WorkInvariant, disk
<1>13. CASE StopCommand
  BY <1>0, <1>10, <1>13 DEF StopCommand, WorkInvariant, SignalsAreCurrent
<1>14. CASE LeaveLoop \/ SaveLastCheckpoint \/ ShutdownSaveState \/ Raise
  BY <1>0, <1>14 DEF LeaveLoop, SaveLastCheckpoint, ShutdownSaveState, Raise, WorkInvariant, disk
<1>15. CASE RequestStop \/ UNCHANGED vars
  BY <1>15 DEF RequestStop, vars, WorkInvariant, SignalsAreCurrent, disk
<1> QED
  BY <1>1, <1>2, <1>3, <1>4, <1>5, <1>6, <1>7, <1>8, <1>9, <1>11, <1>12, <1>13, <1>14, <1>15
  DEF Next, Step

\* The day's work is done in order, whatever the floors, the budget, the failing
\* phases, the kills and the restarts, when the least intake worth creating from is
\* something, and no more than what calls for a digestion.
THEOREM WorkIsInOrder ==
  ASSUME SensibleIntake PROVE Spec => []WorkInOrder
<1>1. Init => WorkInvariant
  <2>1. InOrder(FreshState) /\ SeenFirst(FreshState)
    BY EmptyDayIsOrdered DEF FreshState, SeenFirst
  <2> QED BY <2>1 DEF Init, WorkInvariant, NothingStored
<1>2. WorkInvariant => WorkInOrder
  <2> DEFINE day == <<"OBSERVATION", "HUNT", "FOCUS", "CREATION", "REFLECTION">>
  <2>1. /\ \A n \in 1 .. Len(day) : day[n] \in Working /\ Rank[day[n]] = n
        /\ \A late \in {"SECOND_WIND", "EXPLORATION"} : late \in Working /\ Rank[late] = 6
        /\ Len(day) = 5
    BY DEF Working, Rank
  <2>2. ASSUME WorkInvariant, NEW p \in Working, NEW q \in Working, Rank[p] < Rank[q],
               RanBefore(q, p)
        PROVE  FALSE
    <3>1. PICK i, j \in 1 .. Len(state.phases_visited) :
            i < j /\ state.phases_visited[i] = q /\ state.phases_visited[j] = p
      BY <2>2 DEF RanBefore
    <3>2. Rank[q] <= Rank[p]
      BY <2>2, <3>1 DEF WorkInvariant, InOrder
    <3> QED BY <2>2, <3>2, RanksAreNumbers
  <2> HIDE DEF day
  <2>3. ASSUME WorkInvariant, NEW m \in 1 .. Len(day), NEW n \in 1 .. Len(day)
        PROVE  /\ m < n => ~RanBefore(day[n], day[m])
               /\ \A late \in {"SECOND_WIND", "EXPLORATION"} : ~RanBefore(late, day[m])
    BY <2>1, <2>2, <2>3
  <2> QED BY <2>3 DEF WorkInOrder, day
<1> QED BY <1>1, <1>2, WorkStep, TypeCorrect, DayInvariantHolds, PTL DEF Spec

-----------------------------------------------------------------------------
(* Memory before dreams, in a life nobody interrupts. *)

\* What the day took from the critical gauge so far.
Spent(s) ==
  (IF Visited(s, "FOCUS") THEN 100 ELSE 0) + (IF Visited(s, "DIGESTION") THEN 80 ELSE 0)
    + (IF Visited(s, "REFLECTION") THEN 200 ELSE 0)
    + (IF Visited(s, "CONSOLIDATION") THEN 150 ELSE 0)

\* The day consolidated before it dreamt, and before it slept unless it fell asleep
\* out of a hunt.
Remembers(s) ==
  \A j \in 1 .. Len(s.phases_visited) :
    s.phases_visited[j] \in {"DREAMING", "DEEP_SLEEP"} =>
      \/ \E i \in 1 .. Len(s.phases_visited) : i < j /\ s.phases_visited[i] = "CONSOLIDATION"
      \/ s.phases_visited[j] = "DEEP_SLEEP" /\ j > 1 /\ s.phases_visited[j - 1] = "HUNT"

\* Only a mind without calls left goes to sleep on what it did not consolidate.
SleepsOnMemory ==
  Visited(state, "DEEP_SLEEP") => Visited(state, "CONSOLIDATION") \/ calls >= MaxLlmCalls

\* A whole night makes up for any day: the critical gauge is full every morning.
ReserveInvariant ==
  /\ InCycle => /\ Level(state, "CRITICAL") >= 1000 - Spent(state)
                /\ Remembers(state) /\ SleepsOnMemory
  /\ ~InCycle => Level(state, "CRITICAL") = 1000 /\ Level(saved_state, "CRITICAL") = 1000
  /\ calls <= MaxLlmCalls

\* While consolidation is affordable, the fallback answers it before a dream or sleep.
LEMMA FallbackRemembers ==
  ASSUME NEW s \in CircadianState, Fallback(s) \in {"DREAMING", "DEEP_SLEEP"},
         CanAfford("CONSOLIDATION", s)
  PROVE  Visited(s, "CONSOLIDATION") \/ s.phase \in {"CONSOLIDATION", "DREAMING", "DEEP_SLEEP"}
<1>1. SUFFICES ASSUME ~Visited(s, "CONSOLIDATION")
               PROVE  s.phase \in {"CONSOLIDATION", "DREAMING", "DEEP_SLEEP"}
  OBVIOUS
<1>2. Ahead(s) # {} /\ Fallback(s) = PHASE_ORDER[First(Ahead(s))]
  BY <1>1 DEF Fallback
<1>3. Position(s.phase) \in 1 .. 12 /\ PHASE_ORDER[Position(s.phase)] = s.phase
  <2>1. s.phase \in Phases
    BY DEF CircadianState
  <2>2. \E i \in 1 .. 12 : PHASE_ORDER[i] = s.phase
    BY <2>1 DEF PHASE_ORDER, Phases
  <2> QED BY <2>2 DEF Position
<1>4. Ahead(s) \in SUBSET (1 .. 12)
  BY <1>3 DEF Ahead
<1>5. First(Ahead(s)) \in Ahead(s) /\ \A j \in Ahead(s) : First(Ahead(s)) <= j
  BY <1>2, <1>4, FirstExists
<1>6. First(Ahead(s)) \in {11, 12}
  BY <1>2, <1>4, <1>5 DEF PHASE_ORDER
<1>7. 10 \notin Ahead(s)
  BY <1>5, <1>6
<1>8. PHASE_ORDER[10] = "CONSOLIDATION"
  BY DEF PHASE_ORDER
<1>9. ~(Position(s.phase) + 1 <= 10)
  BY <1>1, <1>3, <1>7, <1>8 DEF Ahead
<1>10. Position(s.phase) \in {10, 11, 12}
  BY <1>3, <1>9
<1> QED BY <1>3, <1>10 DEF PHASE_ORDER

LEMMA DecisionRemembers ==
  ASSUME NEW s \in CircadianState, Decide(s) \in {"DREAMING", "DEEP_SLEEP"},
         ~Visited(s, "CONSOLIDATION") => CanAfford("CONSOLIDATION", s)
  PROVE  Visited(s, "CONSOLIDATION") \/ s.phase \in {"CONSOLIDATION", "DREAMING", "DEEP_SLEEP"}
<1>1. CASE Decide(s) = Fallback(s)
  BY <1>1, FallbackRemembers
<1>2. ASSUME NEW i \in 1 .. 13, Answers(s)[i] # NoPhase, Decide(s) = Answers(s)[i]
      PROVE  Visited(s, "CONSOLIDATION")
  <2>1. i \in {1, 4, 13}
    BY <1>2, RuleAnswers DEF NoPhase
  <2> QED
    BY <1>2, <2>1 DEF Answers, RuleBudgetExhausted, RuleExhausted, RuleDream, NoPhase
<1> QED BY <1>1, <1>2, DecisionComesFromARule

\* The critical gauge pays for a phase what the day's account says.
LEMMA EnterIsAccounted ==
  ASSUME NEW s \in CircadianState, NEW p \in Phases, NEW full \in Nat, ~Visited(s, p),
         Level(s, "CRITICAL") >= full - Spent(s)
  PROVE  Level(Enter(s, p), "CRITICAL") >= full - Spent(Enter(s, p))
<1> DEFINE t == Enter(s, p)
           paid == IF PhaseGauge[p] = "CRITICAL" THEN PhaseCost[p] ELSE 0
<1>1. \A q : Visited(t, q) <=> Visited(s, q) \/ q = p
  BY EnterChanges
<1>2. Spent(t) = Spent(s) + paid
  BY <1>1 DEF Spent, PhaseGauge, PhaseCost, Phases
<1>3. s.energy \in [EnergyKinds -> EnergyLevel] /\ Level(s, "CRITICAL") \in EnergyLevel
  BY DEF CircadianState, EnergyProfile, EnergyKinds, Level
<1>4. t.energy = Spend(s.energy, PhaseGauge[p], PhaseCost[p])
  BY DEF Enter, CircadianState
<1>5. paid \in Nat
  BY DEF Phases, PhaseGauge, PhaseCost
<1>6. Level(t, "CRITICAL") = IF PhaseGauge[p] = "CRITICAL"
                             THEN Clamped(Level(s, "CRITICAL") - PhaseCost[p])
                             ELSE Level(s, "CRITICAL")
  BY <1>3, <1>4 DEF Spend, Level, EnergyKinds
<1>7. Spent(s) \in Nat /\ Spent(t) \in Nat
  BY DEF Spent
<1> HIDE DEF t
<1>8. CASE PhaseGauge[p] = "CRITICAL"
  <2>1. \A level \in EnergyLevel, cost \in Nat : Clamped(level - cost) >= level - cost
    BY DEF Clamped, EnergyLevel, EnergyMin, EnergyMax
  <2>2. Level(t, "CRITICAL") >= Level(s, "CRITICAL") - paid
    BY <1>3, <1>5, <1>6, <1>8, <2>1
  <2>3. Level(s, "CRITICAL") \in Int /\ Level(t, "CRITICAL") \in Int
    <3>1. Level(s, "CRITICAL") \in Int
      BY <1>3 DEF EnergyLevel, EnergyMin, EnergyMax
    <3>2. \A x \in Int : Clamped(x) \in Int
      BY DEF Clamped, EnergyMin, EnergyMax
    <3>3. PhaseCost[p] \in Int
      BY <1>5, <1>8
    <3>4. Level(t, "CRITICAL") = Clamped(Level(s, "CRITICAL") - PhaseCost[p])
      BY <1>6, <1>8
    <3> QED BY <3>1, <3>2, <3>3, <3>4
  <2> HIDE DEF paid
  <2>4. Level(t, "CRITICAL") >= full - Spent(t)
    BY <1>2, <1>5, <1>7, <2>2, <2>3
  <2> QED BY <2>4 DEF t
<1>9. CASE PhaseGauge[p] # "CRITICAL"
  <2>1. paid = 0 /\ Level(t, "CRITICAL") = Level(s, "CRITICAL")
    BY <1>6, <1>9
  <2> QED BY <1>2, <1>7, <2>1 DEF t
<1> QED BY <1>8, <1>9

\* What leaves the list of phases and the critical gauge alone leaves the account alone.
LEMMA SameAccount ==
  ASSUME NEW s, NEW t, t.phases_visited = s.phases_visited,
         t.energy["CRITICAL"] = s.energy["CRITICAL"],
         Level(s, "CRITICAL") >= 1000 - Spent(s), Remembers(s)
  PROVE  Level(t, "CRITICAL") >= 1000 - Spent(t) /\ Remembers(t)
<1>1. \A p : Visited(t, p) <=> Visited(s, p)
  BY DEF Visited
<1>2. Spent(t) = Spent(s)
  BY <1>1 DEF Spent
<1>3. Level(t, "CRITICAL") = Level(s, "CRITICAL")
  BY DEF Level
<1>4. Remembers(t)
  BY DEF Remembers
<1> QED BY <1>2, <1>3, <1>4

LEMMA NightRestores ==
  ASSUME NEW s \in CircadianState, Level(s, "CRITICAL") >= 1000 - Spent(s)
  PROVE  Level(EndDay(s), "CRITICAL") = 1000
<1>1. EndDay(s).energy = RestoredBySleep(s.energy)
  BY DEF EndDay, CircadianState
<1>2. Level(s, "CRITICAL") \in EnergyLevel
  BY DEF CircadianState, EnergyProfile, EnergyKinds, Level
<1>3. Level(EndDay(s), "CRITICAL") = Clamped(Level(s, "CRITICAL") + 700)
  BY <1>1 DEF RestoredBySleep, SleepEffect, Level, EnergyKinds
<1>4. Spent(s) \in 0 .. 530
  BY DEF Spent
<1>5. Level(s, "CRITICAL") >= 470
  <2>1. Level(s, "CRITICAL") \in Int
    BY <1>2 DEF EnergyLevel, EnergyMin, EnergyMax
  <2> QED BY <1>4, <2>1
<1> QED BY <1>2, <1>3, <1>5 DEF Clamped, EnergyLevel, EnergyMin, EnergyMax

\* A phase's work leaves the account alone.
LEMMA WorkIsNotCharged ==
  ASSUME TypeOK, PhaseReturns
  PROVE  /\ state'.phases_visited = state.phases_visited
         /\ state'.energy["CRITICAL"] = state.energy["CRITICAL"]
<1>1. /\ state \in CircadianState /\ state.phase \in Phases
      /\ stored \in Stored /\ outcome \in Outcome
  BY DEF TypeOK, CircadianState
<1>2. PICK n \in WantedCalls(state.phase), e \in Published(state.phase),
            records \in Yields(state.phase), r \in Results(state.phase) :
        state' = Refreshed(r[1], records, Publish(e))
  BY DEF PhaseReturns
<1>3. records \in Stored /\ r[1] \in CircadianState
  BY <1>1, <1>2, YieldsType, ResultsType
<1>4. Publish(e) \in Nat
  <2>1. e \in Nat /\ events \in Nat
    BY <1>1, <1>2, WorkType DEF TypeOK, EventCap
  <2> QED BY <2>1 DEF Publish, EventCap
<1>5. state'.energy["CRITICAL"] = r[1].energy["CRITICAL"]
  BY <1>2, <1>3, <1>4, RefreshReads DEF EnergyKinds
<1>6. r[1].energy["CRITICAL"] = state.energy["CRITICAL"]
  BY <1>1, <1>2, ResultsKeepSignals DEF EnergyKinds
<1> QED BY <1>5, <1>6, PhaseReturnsSameDay DEF SameDay

LEMMA CallsAreCapped ==
  ASSUME TypeOK, NEW n \in Nat PROVE CallsAfter(n) <= MaxLlmCalls
BY ThresholdsAssumption DEF TypeOK, CallsAfter, ThresholdsAssumption

\* A decision of the day is accounted for, and dreams and sleep come after memory.
LEMMA DecidingRemembers ==
  ASSUME CriticalFloor <= 620, TypeOK, DayInvariant, ReserveInvariant, EnterPhase
  PROVE  /\ Level(state', "CRITICAL") >= 1000 - Spent(state')
         /\ Remembers(state') /\ SleepsOnMemory'
<1> DEFINE p == Decide(state)
<1>1. /\ pc = "decide" /\ state' = Enter(state, p)
      /\ state \in CircadianState
      /\ state.phases_visited # <<>> => state.phase # "DEEP_SLEEP"
      /\ state.phases_visited = <<>> => state.llm_calls = 0
      /\ state.phases_visited # <<>> => state.phase = LastPhase(state)
      /\ Level(state, "CRITICAL") >= 1000 - Spent(state) /\ Remembers(state)
  BY DEF EnterPhase, DayInvariant, PlaceInDay, SoundDay, ReserveInvariant, TypeOK, InCycle
<1>2. p \in Phases /\ ~Visited(state, p)
  <2>1. Awake(state)
    BY <1>1, AwakeMind DEF DayInvariant
  <2> QED BY <1>1, <2>1, DecisionIsUnvisited
<1>3. Level(state', "CRITICAL") >= 1000 - Spent(state')
  BY <1>1, <1>2, EnterIsAccounted
<1>4. /\ state.phases_visited \in Seq(Phases) /\ Len(state.phases_visited) \in Nat
      /\ state'.phases_visited = Append(state.phases_visited, p)
  BY <1>1 DEF Enter, CircadianState
<1>5. ~Visited(state, "CONSOLIDATION") => CanAfford("CONSOLIDATION", state)
  <2>1. Level(state, "CRITICAL") \in Int
    BY <1>1, LevelIsNumber DEF EnergyKinds
  <2>2. ~Visited(state, "CONSOLIDATION") => Spent(state) \in 0 .. 380
    BY DEF Spent
  <2>3. CriticalFloor \in Int
    BY ThresholdsAssumption DEF ThresholdsAssumption
  <2>4. ~Visited(state, "CONSOLIDATION") => Level(state, "CRITICAL") >= CriticalFloor
    <3>1. SUFFICES ASSUME ~Visited(state, "CONSOLIDATION")
                   PROVE  Level(state, "CRITICAL") >= CriticalFloor
      OBVIOUS
    <3>2. Spent(state) \in 0 .. 380 /\ Level(state, "CRITICAL") >= 1000 - Spent(state)
      BY <1>1, <2>2, <3>1
    <3> QED BY <2>1, <2>3, <3>2
  <2>5. PhaseGauge["CONSOLIDATION"] = "CRITICAL" /\ FloorOf["CRITICAL"] = CriticalFloor
    BY DEF PhaseGauge, FloorOf
  <2> QED BY <2>4, <2>5 DEF CanAfford
<1>6. p \in {"DREAMING", "DEEP_SLEEP"} => Visited(state, "CONSOLIDATION")
  <2>1. SUFFICES ASSUME p \in {"DREAMING", "DEEP_SLEEP"} PROVE Visited(state, "CONSOLIDATION")
    OBVIOUS
  <2>2. state.phases_visited # <<>>
    BY <1>1, <2>1, DayStartsAwakening
  <2>3. Len(state.phases_visited) \in 1 .. Len(state.phases_visited)
        /\ state.phase = state.phases_visited[Len(state.phases_visited)]
    BY <1>1, <1>4, <2>2 DEF LastPhase
  <2>4. Visited(state, "CONSOLIDATION") \/ state.phase \in {"CONSOLIDATION", "DREAMING"}
    BY <1>1, <1>5, <2>1, <2>2, DecisionRemembers
  <2>5. CASE state.phase = "CONSOLIDATION"
    BY <2>3, <2>5 DEF Visited
  <2>6. CASE state.phase = "DREAMING"
    <3>1. PICK i \in 1 .. Len(state.phases_visited) : state.phases_visited[i] = "CONSOLIDATION"
      <4>1. /\ Len(state.phases_visited) \in 1 .. Len(state.phases_visited)
            /\ state.phases_visited[Len(state.phases_visited)] = "DREAMING"
        BY <2>3, <2>6
      <4>2. Remembers(state)
        BY <1>1
      <4> QED BY <4>1, <4>2 DEF Remembers
    <3> QED BY <3>1 DEF Visited
  <2> QED BY <2>4, <2>5, <2>6
<1>7. Remembers(state')
  <2> DEFINE v == state.phases_visited
             w == state'.phases_visited
  <2>1. /\ Len(w) = Len(v) + 1 /\ Len(v) \in Nat
        /\ \A i \in 1 .. Len(v) : w[i] = v[i]
        /\ w[Len(v) + 1] = p
    BY <1>4
  <2>2. /\ \A j \in 1 .. Len(v) : v[j] \in {"DREAMING", "DEEP_SLEEP"} =>
             \/ \E i \in 1 .. Len(v) : i < j /\ v[i] = "CONSOLIDATION"
             \/ v[j] = "DEEP_SLEEP" /\ j > 1 /\ v[j - 1] = "HUNT"
        /\ p \in {"DREAMING", "DEEP_SLEEP"} => \E i \in 1 .. Len(v) : v[i] = "CONSOLIDATION"
    BY <1>1, <1>6 DEF Remembers, Visited
  <2> HIDE DEF v, w, p
  <2>3. \A j \in 1 .. Len(w) : w[j] \in {"DREAMING", "DEEP_SLEEP"} =>
          \/ \E i \in 1 .. Len(w) : i < j /\ w[i] = "CONSOLIDATION"
          \/ w[j] = "DEEP_SLEEP" /\ j > 1 /\ w[j - 1] = "HUNT"
    <3>1. SUFFICES ASSUME NEW j \in 1 .. Len(w), w[j] \in {"DREAMING", "DEEP_SLEEP"}
                   PROVE  \/ \E i \in 1 .. Len(w) : i < j /\ w[i] = "CONSOLIDATION"
                          \/ w[j] = "DEEP_SLEEP" /\ j > 1 /\ w[j - 1] = "HUNT"
      OBVIOUS
    <3>2. CASE j = Len(v) + 1
      BY <2>1, <2>2, <3>1, <3>2
    <3>3. CASE j \in 1 .. Len(v)
      <4>1. j > 1 => j - 1 \in 1 .. Len(v)
        BY <2>1, <3>3
      <4> QED BY <2>1, <2>2, <3>1, <3>3, <4>1
    <3> QED BY <2>1, <3>2, <3>3
  <2> QED BY <2>3 DEF Remembers, w
<1>8. SleepsOnMemory'
  <2>1. /\ \A q : Visited(state', q) <=> Visited(state, q) \/ q = p
        /\ SleepsOnMemory /\ calls' = calls
    BY <1>1, <1>2, EnterChanges DEF EnterPhase, ReserveInvariant, InCycle
  <2> QED BY <1>6, <2>1 DEF SleepsOnMemory
<1> QED BY <1>3, <1>7, <1>8

\* The calls only grow, up to the ceiling, while the day stays the same.
LEMMA SameSleep ==
  ASSUME TypeOK, calls <= MaxLlmCalls, SleepsOnMemory,
         state'.phases_visited = state.phases_visited,
         calls' = calls \/ \E n \in Nat : calls' = CallsAfter(n)
  PROVE  SleepsOnMemory'
<1>1. calls >= MaxLlmCalls => calls' >= MaxLlmCalls
  BY ThresholdsAssumption DEF TypeOK, CallsAfter, ThresholdsAssumption
<1> QED BY <1>1 DEF SleepsOnMemory, Visited

LEMMA ReserveStep ==
  ASSUME MaxFaults = 0, CriticalFloor <= 620
  PROVE  TypeOK /\ DayInvariant /\ ReserveInvariant /\ [Next]_vars => ReserveInvariant'
<1> SUFFICES ASSUME TypeOK, DayInvariant, ReserveInvariant, [Next]_vars PROVE ReserveInvariant'
  OBVIOUS
<1>0. /\ state \in CircadianState /\ saved_state \in CircadianState
      /\ calls \in Nat /\ calls <= MaxLlmCalls /\ MaxLlmCalls \in Nat
      /\ state.phase \in Phases
  BY ThresholdsAssumption DEF ReserveInvariant, TypeOK, ThresholdsAssumption, CircadianState
<1>1. CASE EnterPhase
  BY <1>1, DecidingRemembers DEF EnterPhase, ReserveInvariant, InCycle
<1>2. CASE PhaseReturns
  <2>1. /\ state'.phases_visited = state.phases_visited
        /\ state'.energy["CRITICAL"] = state.energy["CRITICAL"]
    BY <1>2, WorkIsNotCharged
  <2>2. \E n \in Nat : calls' = CallsAfter(n)
    <3>1. PICK n \in WantedCalls(state.phase) : calls' = CallsAfter(n)
      BY <1>2 DEF PhaseReturns
    <3> QED BY <1>0, <3>1, WorkType
  <2>3. pc = "execute" /\ pc' = "sync"
    BY <1>2 DEF PhaseReturns
  <2>4. Level(state', "CRITICAL") >= 1000 - Spent(state') /\ Remembers(state')
    BY <2>1, <2>3, SameAccount DEF ReserveInvariant, InCycle
  <2>5. SleepsOnMemory'
    BY <1>0, <2>1, <2>2, <2>3, SameSleep DEF ReserveInvariant, InCycle
  <2> QED BY <2>2, <2>3, <2>4, <2>5, CallsAreCapped DEF ReserveInvariant, InCycle
<1>3. CASE PhaseFails
  <2>1. \E n \in Nat : calls' = CallsAfter(n)
    <3>1. PICK n \in WantedCalls(state.phase) : calls' = CallsAfter(n)
      BY <1>3 DEF PhaseFails
    <3> QED BY <1>0, <3>1, WorkType
  <2>2. pc = "execute" /\ pc' = "sync" /\ state' = state
    BY <1>3 DEF PhaseFails
  <2>3. SleepsOnMemory'
    BY <1>0, <2>1, <2>2, SameSleep DEF ReserveInvariant, InCycle
  <2> QED BY <2>1, <2>2, <2>3, CallsAreCapped DEF ReserveInvariant, InCycle
<1>4. CASE BudgetExceeded
  <2>1. /\ pc = "execute" /\ pc' = "forced" /\ state.phase = "HUNT"
        /\ calls' = MaxLlmCalls /\ state' = Enter(state, "DEEP_SLEEP")
        /\ state.phases_visited # <<>> /\ state.phase = LastPhase(state)
        /\ Level(state, "CRITICAL") >= 1000 - Spent(state) /\ Remembers(state)
    BY <1>4 DEF BudgetExceeded, DayInvariant, PlaceInDay, SoundDay, ReserveInvariant, InCycle
  <2>2. "DEEP_SLEEP" \in Phases /\ ~Visited(state, "DEEP_SLEEP")
    BY <1>0, <2>1, AwakeMind DEF DayInvariant, Awake, Phases
  <2>3. Level(state', "CRITICAL") >= 1000 - Spent(state')
    BY <1>0, <2>1, <2>2, EnterIsAccounted
  <2>4. Remembers(state')
    <3> DEFINE v == state.phases_visited
               w == state'.phases_visited
    <3>1. w = Append(v, "DEEP_SLEEP") /\ v \in Seq(Phases) /\ v # <<>>
      BY <1>0, <2>1 DEF Enter, CircadianState
    <3>2. /\ Len(w) = Len(v) + 1 /\ Len(v) \in Nat \ {0}
          /\ \A i \in 1 .. Len(v) : w[i] = v[i]
          /\ w[Len(v) + 1] = "DEEP_SLEEP" /\ v[Len(v)] = "HUNT"
      BY <2>1, <3>1 DEF LastPhase
    <3>3. \A j \in 1 .. Len(v) : v[j] \in {"DREAMING", "DEEP_SLEEP"} =>
            \/ \E i \in 1 .. Len(v) : i < j /\ v[i] = "CONSOLIDATION"
            \/ v[j] = "DEEP_SLEEP" /\ j > 1 /\ v[j - 1] = "HUNT"
      BY <2>1 DEF Remembers
    <3> HIDE DEF v, w
    <3>4. ASSUME NEW j \in 1 .. Len(w), w[j] \in {"DREAMING", "DEEP_SLEEP"}
          PROVE  \/ \E i \in 1 .. Len(w) : i < j /\ w[i] = "CONSOLIDATION"
                 \/ w[j] = "DEEP_SLEEP" /\ j > 1 /\ w[j - 1] = "HUNT"
      <4>1. CASE j = Len(v) + 1
        <5>1. j - 1 = Len(v) /\ Len(v) \in 1 .. Len(v) /\ j > 1
          BY <3>2, <4>1
        <5> QED BY <3>2, <4>1, <5>1
      <4>2. CASE j \in 1 .. Len(v)
        <5>1. j > 1 => j - 1 \in 1 .. Len(v)
          BY <3>2, <4>2
        <5> QED BY <3>2, <3>3, <3>4, <4>2, <5>1
      <4> QED BY <3>2, <4>1, <4>2
    <3> QED BY <3>4 DEF Remembers, w
  <2>5. SleepsOnMemory'
    BY <1>0, <2>1 DEF SleepsOnMemory
  <2> QED BY <1>0, <2>1, <2>3, <2>4, <2>5 DEF ReserveInvariant, InCycle
<1>5. CASE ForcedSleep
  <2>1. /\ state'.phases_visited = state.phases_visited
        /\ state'.energy["CRITICAL"] = state.energy["CRITICAL"]
    <3>1. stored \in Stored /\ events \in Nat
      BY DEF TypeOK, EventCap
    <3>2. state' = Refreshed(state, stored, events)
      BY <1>5 DEF ForcedSleep
    <3> QED BY <1>0, <3>1, <3>2, RefreshReads, RefreshedSameDay DEF SameDay, EnergyKinds
  <2>2. pc = "forced" /\ pc' = "ended" /\ calls' = calls
    BY <1>5 DEF ForcedSleep
  <2>3. Level(state', "CRITICAL") >= 1000 - Spent(state') /\ Remembers(state')
    BY <2>1, <2>2, SameAccount DEF ReserveInvariant, InCycle
  <2>4. SleepsOnMemory'
    BY <1>0, <2>1, <2>2, SameSleep DEF ReserveInvariant, InCycle
  <2> QED BY <1>0, <2>2, <2>3, <2>4 DEF ReserveInvariant, InCycle
<1>6. CASE SyncAndSaveState
  <2>1. state'.phases_visited = state.phases_visited /\ state'.energy = state.energy
    BY <1>0, <1>6 DEF SyncAndSaveState, CircadianState
  <2>2. pc = "sync" /\ pc' = "checkpoint" /\ calls' = calls
    BY <1>6 DEF SyncAndSaveState
  <2>3. Level(state', "CRITICAL") >= 1000 - Spent(state') /\ Remembers(state')
    BY <2>1, <2>2, SameAccount DEF ReserveInvariant, InCycle
  <2>4. SleepsOnMemory'
    BY <1>0, <2>1, <2>2, SameSleep DEF ReserveInvariant, InCycle
  <2> QED BY <1>0, <2>2, <2>3, <2>4 DEF ReserveInvariant, InCycle
<1>7. CASE SaveCheckpoint
  BY <1>7 DEF SaveCheckpoint, ReserveInvariant, InCycle, SleepsOnMemory
<1>8. CASE BeginCycle
  <2>1. state'.phases_visited = <<>> /\ state'.energy = state.energy
    BY <1>0, <1>8 DEF BeginCycle, BeginDay, CircadianState
  <2>2. Spent(state') = 0 /\ Remembers(state') /\ SleepsOnMemory'
    BY <2>1 DEF Spent, Remembers, Visited, SleepsOnMemory
  <2>3. Level(state', "CRITICAL") = 1000
    BY <1>8, <2>1 DEF BeginCycle, ReserveInvariant, InCycle, Level
  <2> QED BY <1>8, <2>2, <2>3 DEF BeginCycle, ReserveInvariant, InCycle
<1>9. CASE EndCycle
  <2>1. Level(state', "CRITICAL") = 1000
    BY <1>0, <1>9, NightRestores DEF EndCycle, ReserveInvariant, InCycle
  <2> QED BY <1>9, <2>1 DEF EndCycle, ReserveInvariant, InCycle
<1>10. Level(FreshState, "CRITICAL") = 1000
  BY DEF Level, FreshState, Rested, EnergyKinds, EnergyMax
<1>11. CASE ShutdownSaveState \/ ShutdownSaveCheckpoint
  BY <1>0, <1>10, <1>11
  DEF ShutdownSaveState, ShutdownSaveCheckpoint, Vanish, ReserveInvariant, InCycle
<1>12. CASE (\E n \in CyclesRequested : Boot(n)) \/ BootSingle
  BY <1>12 DEF Boot, BootSingle, ReserveInvariant, InCycle, disk
<1>13. CASE StopCommand
  BY <1>10, <1>13 DEF StopCommand, ReserveInvariant, InCycle, SleepsOnMemory
<1>14. CASE LeaveLoop \/ SaveLastCheckpoint
  BY <1>14 DEF LeaveLoop, SaveLastCheckpoint, ReserveInvariant, InCycle, disk
<1>15. CASE Raise \/ Kill
  <2>1. faults < 0 /\ faults \in 0 .. 0
    BY <1>15 DEF Raise, Kill, TypeOK
  <2> QED BY <2>1
<1>16. CASE RequestStop \/ UNCHANGED vars
  BY <1>16 DEF RequestStop, vars, ReserveInvariant, InCycle, disk, SleepsOnMemory
<1> QED
  BY <1>1, <1>2, <1>3, <1>4, <1>5, <1>6, <1>7, <1>8, <1>9, <1>11, <1>12, <1>13, <1>14,
     <1>15, <1>16 DEF Next, Step

\* In a life without kills or uncaught exceptions, with a critical floor of at most 62
\* points, every cycle consolidates before it dreams, and before it sleeps unless the
\* budget ran out under HUNT: whatever fails, whatever HUNT asks the model and whatever
\* the other thresholds are.
THEOREM MemoryComesFirst ==
  ASSUME MaxFaults = 0, CriticalFloor <= 620
  PROVE  Spec => []MemoryBeforeDreams
<1>1. Init => ReserveInvariant
  <2>1. Level(FreshState, "CRITICAL") = 1000
    BY DEF Level, FreshState, Rested, EnergyKinds, EnergyMax
  <2> QED
    BY <2>1, ThresholdsAssumption DEF Init, ReserveInvariant, InCycle, ThresholdsAssumption
<1>2. TypeOK /\ DayInvariant /\ ReserveInvariant => MemoryBeforeDreams
  <2> SUFFICES ASSUME TypeOK, DayInvariant, ReserveInvariant, pc = "ended"
               PROVE  /\ Ran("CONSOLIDATION") \/ ForcedNight
                      /\ Ran("DREAMING") => RanBefore("CONSOLIDATION", "DREAMING")
    BY DEF MemoryBeforeDreams
  <2>1. /\ Remembers(state) /\ SleepsOnMemory
        /\ state.phases_visited # <<>> /\ state.phase = "DEEP_SLEEP"
        /\ state.phase = LastPhase(state)
        /\ state.phases_visited \in Seq(Phases)
    BY DEF ReserveInvariant, InCycle, DayInvariant, PlaceInDay, SoundDay, TypeOK, CircadianState
  <2>2. Len(state.phases_visited) \in 1 .. Len(state.phases_visited)
        /\ state.phases_visited[Len(state.phases_visited)] = "DEEP_SLEEP"
    BY <2>1 DEF LastPhase
  <2>3. Ran("CONSOLIDATION") \/ ForcedNight
    <3>1. SUFFICES ASSUME ~Ran("CONSOLIDATION") PROVE ForcedNight
      OBVIOUS
    <3>2. calls >= MaxLlmCalls
      BY <2>1, <2>2, <3>1 DEF SleepsOnMemory, Visited, Ran
    <3>3. /\ Len(state.phases_visited) > 1
          /\ state.phases_visited[Len(state.phases_visited) - 1] = "HUNT"
      BY <2>1, <2>2, <3>1 DEF Remembers, Ran, Visited
    <3>4. Len(state.phases_visited) \in 2 .. Len(state.phases_visited)
      BY <2>2, <3>3
    <3> QED BY <2>2, <3>2, <3>3, <3>4 DEF ForcedNight
  <2>4. Ran("DREAMING") => RanBefore("CONSOLIDATION", "DREAMING")
    BY <2>1 DEF Remembers, Ran, Visited, RanBefore
  <2> QED BY <2>3, <2>4
<1> QED BY <1>1, <1>2, ReserveStep, TypeCorrect, DayInvariantHolds, PTL DEF Spec

-----------------------------------------------------------------------------
(* A productive day, in a life nobody interrupts. *)

\* What a day may do before it focuses.
Preparing == {"AWAKENING", "OBSERVATION", "HUNT", "DIGESTION", "CONSOLIDATION"}

Only(s, S) == \A j \in 1 .. Len(s.phases_visited) : s.phases_visited[j] \in S

\* Phase q, if it ran, ran after p.
Follows(s, p, q) ==
  \A j \in 1 .. Len(s.phases_visited) :
    s.phases_visited[j] = q => \E i \in 1 .. Len(s.phases_visited) : i < j /\ s.phases_visited[i] = p

\* The day so far: it prepares, focuses, creates and judges, in this order.
Diligent(s) ==
  /\ ~Visited(s, "FOCUS") => Only(s, Preparing)
  /\ ~Visited(s, "CREATION") => Only(s, Preparing \cup {"FOCUS"})
  /\ ~Visited(s, "REFLECTION") => Only(s, Preparing \cup {"FOCUS", "CREATION"})
  /\ Follows(s, "FOCUS", "CREATION") /\ Follows(s, "CREATION", "REFLECTION")
  /\ ~Visited(s, "FOCUS") /\ Visited(s, "CONSOLIDATION") => Visited(s, "DIGESTION")
  /\ s.phases_visited # <<>> => s.phases_visited[1] = "AWAKENING"

\* The gauges a day needs, and what it took from them.
Strong(s) ==
  /\ ~Visited(s, "CREATION") =>
       Level(s, "CREATIVE") >= 600 - (IF Visited(s, "AWAKENING") THEN 20 ELSE 0)
  /\ Level(s, "CRITICAL") >= 700 - Spent(s)

\* A whole night gives every morning this much, whatever the day before took.
Morning(s) ==
  /\ Level(s, "CREATIVE") >= 600 /\ Level(s, "CRITICAL") >= 700
  /\ Level(s, "MEMORY_PRESSURE") <= 200

Pressure(s) ==
  (IF Visited(s, "OBSERVATION") THEN 200 ELSE 0) + (IF Visited(s, "HUNT") THEN 200 ELSE 0)

\* Until it focuses or digests, memory stays under its ceiling by the phases to come.
Light(s, due) ==
  ~Visited(s, "FOCUS") /\ ~Visited(s, "DIGESTION") =>
    Level(s, "MEMORY_PRESSURE") + due < MemoryPressureCeiling - 400 + Pressure(s)

\* A day that digested has something to create from.
Fed ==
  /\ state.observation_backlog <= stored.observations
  /\ state.research_backlog <= stored.research
  /\ ~Visited(state, "FOCUS") /\ Visited(state, "DIGESTION") => Intake(state) >= 8

Waking == state.phases_visited = <<>> \/ (pc = "execute" /\ state.phase = "AWAKENING")

\* While calls are left, the day is on course.
OnCourse ==
  /\ pc # "forced" /\ state.llm_calls <= calls
  /\ Diligent(state) /\ Strong(state)
  /\ Waking => /\ Level(state, "MEMORY_PRESSURE") <= 200
               /\ events = (IF pc = "decide" THEN 1 ELSE 2)
  /\ ~Waking => Fed /\ Light(state, IF pc = "execute" THEN 200 ELSE 0)

DiligenceInvariant ==
  /\ InCycle /\ calls < MaxLlmCalls => OnCourse
  /\ ~InCycle => Morning(state) /\ Morning(saved_state)

\* A life nobody interrupts, in which the mind at least wakes up every day.
UndisturbedLife == MaxFaults = 0 /\ "AWAKENING" \notin FailingPhases

\* Thresholds that a whole night's sleep can meet: what wakes a mind and two
\* perceiving phases publish does not fill its memory.
MeetableThresholds ==
  /\ CreativeFloor <= 580 /\ CriticalFloor <= 370 /\ MinObservations <= 8
  /\ \A e \in EventBurst["AWAKENING"] : 6 * (e + 2) + 600 < MemoryPressureCeiling


\* The first phase to come, if no rule speaks before the eighth and that one does.
LEMMA EarlierRules ==
  ASSUME NEW s, NEW k \in 1 .. 13, Answers(s)[k] # NoPhase
  PROVE  \E i \in 1 .. 13 :
           /\ i <= k /\ Decide(s) = Answers(s)[i] /\ Answers(s)[i] # NoPhase
           /\ \A j \in 1 .. 13 : j < i => Answers(s)[j] = NoPhase
<1>1. CASE \E i \in 1 .. 13 :
             /\ Answers(s)[i] # NoPhase
             /\ Decide(s) = Answers(s)[i]
             /\ \A j \in 1 .. 13 : j < i => Answers(s)[j] = NoPhase
  <2>1. PICK i \in 1 .. 13 :
             /\ Answers(s)[i] # NoPhase
             /\ Decide(s) = Answers(s)[i]
             /\ \A j \in 1 .. 13 : j < i => Answers(s)[j] = NoPhase
    BY <1>1
  <2>2. i <= k
    BY <2>1
  <2> QED BY <2>1, <2>2
<1>2. CASE \A j \in 1 .. 13 : Answers(s)[j] = NoPhase
  BY <1>2
<1> QED BY <1>1, <1>2, DecisionIsTheFirstAnswer

\* A mind in the middle of a day, with the budget and the strength to judge.
Able(s) ==
  /\ s.phases_visited # <<>> /\ s.phase # "DEEP_SLEEP" /\ ~OverBudget(s)
  /\ Level(s, "CRITICAL") >= CriticalFloor
  /\ ~Visited(s, "CREATION") => Level(s, "CREATIVE") >= CreativeFloor

\* The four rules that come first say nothing to it but to consolidate.
LEMMA AbleMindIsLeftAlone ==
  ASSUME NEW s \in CircadianState, Able(s)
  PROVE  /\ Answers(s)[1] = NoPhase /\ Answers(s)[2] = NoPhase /\ Answers(s)[4] = NoPhase
         /\ Answers(s)[3] # NoPhase =>
              Level(s, "MEMORY_PRESSURE") >= MemoryPressureCeiling
<1>1. Answers(s)[1] = NoPhase
  BY DEF Able, Answers, RuleBudgetExhausted
<1>2. Answers(s)[2] = NoPhase
  BY DEF Able, Answers, RuleMustAwaken
<1>3. Answers(s)[4] = NoPhase
  <2>1. Level(s, "CRITICAL") \in Int /\ CriticalFloor \in Int
    BY LevelIsNumber, ThresholdsAssumption DEF ThresholdsAssumption, EnergyKinds
  <2>2. ~AllGaugesLow(s)
    BY <2>1 DEF Able, AllGaugesLow
  <2> QED BY <2>2 DEF Answers, RuleExhausted
<1>4. Answers(s)[3] # NoPhase => Level(s, "MEMORY_PRESSURE") >= MemoryPressureCeiling
  BY DEF Answers, RuleMemoryPressure
<1> QED BY <1>1, <1>2, <1>3, <1>4

\* Once it has created it judges, unless there is something to perceive or to file first.
LEMMA JudgementComes ==
  ASSUME NEW s \in CircadianState, Able(s), Visited(s, "CREATION"), ~Visited(s, "REFLECTION")
  PROVE  Decide(s) \in Preparing \cup {"REFLECTION"}
<1>1. Answers(s)[9] # NoPhase
  BY DEF Able, Answers, RuleNeedsReflection, NoPhase
<1>2. PICK i \in 1 .. 13 :
        /\ i <= 9 /\ Decide(s) = Answers(s)[i] /\ Answers(s)[i] # NoPhase
  BY <1>1, EarlierRules
<1>3. Answers(s)[8] = NoPhase
  BY DEF Answers, RuleReadyToCreate
<1>4. i \in {3, 5, 6, 7, 9}
  BY <1>2, <1>3, AbleMindIsLeftAlone
<1> QED BY <1>2, <1>4, RuleAnswers DEF Preparing

\* Once it has focused it creates, unless there is something to perceive or to file first.
LEMMA CreationComes ==
  ASSUME NEW s \in CircadianState, Able(s), Visited(s, "FOCUS"), ~Visited(s, "CREATION")
  PROVE  Decide(s) \in Preparing \cup {"CREATION"}
<1>1. Answers(s)[8] = "CREATION"
  <2>1. Level(s, "CREATIVE") \in Int /\ CreativeFloor \in Int
    BY LevelIsNumber, ThresholdsAssumption DEF ThresholdsAssumption, EnergyKinds
  <2> QED BY <2>1 DEF Able, Answers, RuleReadyToCreate
<1>2. PICK i \in 1 .. 13 :
        /\ i <= 8 /\ Decide(s) = Answers(s)[i] /\ Answers(s)[i] # NoPhase
  BY <1>1, EarlierRules DEF NoPhase
<1>3. i \in {3, 5, 6, 7, 8}
  BY <1>2, AbleMindIsLeftAlone
<1> QED BY <1>1, <1>2, <1>3, RuleAnswers DEF Preparing

\* A mind that prepares focuses in the end: it digests only what is enough to create
\* from, and pressure sends it to consolidate only after that.
LEMMA FocusComes ==
  ASSUME NEW s \in CircadianState, Able(s), Only(s, Preparing), s.phase \in Preparing,
         MinObservations <= 8,
         Visited(s, s.phase),
         Visited(s, "DIGESTION") => Intake(s) >= 8,
         ~Visited(s, "DIGESTION") => Level(s, "MEMORY_PRESSURE") < MemoryPressureCeiling,
         Visited(s, "CONSOLIDATION") => Visited(s, "DIGESTION")
  PROVE  /\ Decide(s) \in Preparing \cup {"FOCUS"}
         /\ Decide(s) = "CONSOLIDATION" => Visited(s, "DIGESTION")
         /\ Decide(s) = "DIGESTION" => Intake(s) >= 8
<1>0. /\ Level(s, "CREATIVE") \in Int /\ Level(s, "CRITICAL") \in Int
      /\ Level(s, "MEMORY_PRESSURE") \in Int /\ MemoryPressureCeiling \in Int
      /\ CreativeFloor \in Int /\ CriticalFloor \in Int
      /\ MinObservations \in Int /\ Intake(s) \in Nat
  <2>1. /\ Level(s, "CREATIVE") \in Int /\ Level(s, "CRITICAL") \in Int
        /\ Level(s, "MEMORY_PRESSURE") \in Int
    BY LevelIsNumber DEF EnergyKinds
  <2>2. /\ MemoryPressureCeiling \in Int /\ CreativeFloor \in Int /\ CriticalFloor \in Int
        /\ MinObservations \in Int
    BY ThresholdsAssumption DEF ThresholdsAssumption
  <2>3. Intake(s) \in Nat
    BY DEF Intake, CircadianState
  <2> QED BY <2>1, <2>2, <2>3
<1>1. ~Visited(s, "FOCUS") /\ ~Visited(s, "CREATION") /\ ~Visited(s, "REFLECTION")
  BY DEF Only, Preparing, Visited
<1>2. Answers(s)[3] # NoPhase => Visited(s, "DIGESTION")
  BY <1>0, AbleMindIsLeftAlone
<1>3. Answers(s)[7] # NoPhase => Intake(s) >= 8
  BY DEF Answers, RuleDigestBeforeCreating
<1>4. Answers(s)[8] # "CREATION"
  BY <1>1 DEF Answers, RuleReadyToCreate, NoPhase
<1>5. Answers(s)[9] = NoPhase /\ Answers(s)[10] = NoPhase /\ Answers(s)[11] = NoPhase
      /\ Answers(s)[12] = NoPhase
  BY <1>1 DEF Answers, RuleNeedsReflection, RuleSecondWind, RuleExploration, RuleConsolidate
<1>6. Visited(s, "DIGESTION") => Answers(s)[8] = "FOCUS"
  <2>1. Visited(s, "DIGESTION") => Intake(s) >= MinObservations
    BY <1>0
  <2> QED BY <1>0, <1>1, <2>1 DEF Able, Answers, RuleReadyToCreate
<1>7. CASE Visited(s, "DIGESTION")
  <2>1. PICK i \in 1 .. 13 :
          /\ i <= 8 /\ Decide(s) = Answers(s)[i] /\ Answers(s)[i] # NoPhase
    BY <1>6, <1>7, EarlierRules DEF NoPhase
  <2>2. i \in {3, 5, 6, 7, 8}
    BY <2>1, AbleMindIsLeftAlone
  <2> QED BY <1>3, <1>6, <1>7, <2>1, <2>2, RuleAnswers DEF Preparing
<1>8. CASE ~Visited(s, "DIGESTION")
  <2>1. Answers(s)[13] = NoPhase
    BY <1>8 DEF Answers, RuleDream
  <2>2. ASSUME NEW i \in 1 .. 13, Answers(s)[i] # NoPhase, Decide(s) = Answers(s)[i]
        PROVE  /\ Decide(s) \in {"OBSERVATION", "HUNT", "DIGESTION", "FOCUS"}
               /\ Decide(s) = "DIGESTION" => Intake(s) >= 8
    <3>1. i \in {5, 6, 7, 8}
      BY <1>2, <1>5, <1>8, <2>1, <2>2, AbleMindIsLeftAlone
    <3> QED BY <1>3, <1>4, <2>2, <3>1, RuleAnswers
  <2>3. ASSUME Decide(s) = Fallback(s)
        PROVE  Decide(s) \in {"OBSERVATION", "HUNT", "FOCUS"}
    <3>1. s.phase \in {"AWAKENING", "OBSERVATION", "HUNT"}
      BY <1>8 DEF Preparing
    <3>2. Position(s.phase) \in {1, 2, 3}
      <4>1. \E i \in 1 .. 12 : PHASE_ORDER[i] = s.phase
        BY <3>1 DEF PHASE_ORDER
      <4>2. Position(s.phase) \in 1 .. 12 /\ PHASE_ORDER[Position(s.phase)] = s.phase
        BY <4>1 DEF Position
      <4> QED BY <3>1, <4>2 DEF PHASE_ORDER
    <3>3. CanAfford("FOCUS", s)
      BY <1>0 DEF CanAfford, Able, PhaseGauge, FloorOf
    <3>4. 4 \in Ahead(s) /\ Ahead(s) \in SUBSET (1 .. 12)
      BY <1>1, <3>2, <3>3 DEF Ahead, PHASE_ORDER
    <3>5. /\ First(Ahead(s)) \in Ahead(s) /\ First(Ahead(s)) <= 4
      BY <3>4, FirstExists
    <3>6. First(Ahead(s)) \in {2, 3, 4}
      BY <3>2, <3>4, <3>5 DEF Ahead
    <3>7. Fallback(s) = PHASE_ORDER[First(Ahead(s))]
      BY <3>4 DEF Fallback
    <3> QED BY <2>3, <3>6, <3>7 DEF PHASE_ORDER
  <2> QED BY <2>2, <2>3, DecisionComesFromARule DEF Preparing
<1> QED BY <1>7, <1>8

\* The critical gauge pays for a phase what the day's account says, and the creative
\* gauge is not touched between awakening and creation.
LEMMA EnterKeepsStrength ==
  ASSUME NEW s \in CircadianState, NEW p \in Phases, ~Visited(s, p), Strong(s),
         ~Visited(s, "CREATION") => p \in Preparing \cup {"FOCUS", "CREATION"}
  PROVE  Strong(Enter(s, p))
<1> DEFINE t == Enter(s, p)
<1>1. \A q : Visited(t, q) <=> Visited(s, q) \/ q = p
  BY EnterChanges
<1>2. Level(t, "CRITICAL") >= 700 - Spent(t)
  BY EnterIsAccounted DEF Strong
<1>3. SUFFICES ASSUME ~Visited(t, "CREATION")
               PROVE  Level(t, "CREATIVE") >= 600 - (IF Visited(t, "AWAKENING") THEN 20 ELSE 0)
  BY <1>2 DEF Strong
<1>4. ~Visited(s, "CREATION") /\ p \in Preparing \cup {"FOCUS"}
  BY <1>1, <1>3
<1>5. t.energy = Spend(s.energy, PhaseGauge[p], PhaseCost[p])
  BY DEF Enter, CircadianState
<1>6. Level(s, "CREATIVE") \in EnergyLevel
  BY DEF CircadianState, EnergyProfile, EnergyKinds, Level
<1>7. s.energy \in [EnergyKinds -> EnergyLevel]
  BY DEF CircadianState, EnergyProfile
<1>8. Level(s, "CREATIVE") >= 600 - (IF Visited(s, "AWAKENING") THEN 20 ELSE 0)
  BY <1>4 DEF Strong
<1> HIDE DEF t
<1>9. CASE p = "AWAKENING"
  <2>1. Level(t, "CREATIVE") = Clamped(Level(s, "CREATIVE") - 20)
    BY <1>5, <1>7, <1>9 DEF Spend, Level, EnergyKinds, PhaseGauge, PhaseCost
  <2>2. Level(s, "CREATIVE") >= 600
    BY <1>8, <1>9
  <2>3. Level(t, "CREATIVE") >= 580
    BY <1>6, <2>1, <2>2 DEF Clamped, EnergyLevel, EnergyMin, EnergyMax
  <2> QED BY <1>1, <1>9, <2>3 DEF t
<1>10. CASE p # "AWAKENING"
  <2>1. PhaseGauge[p] \in {"RESEARCH", "CRITICAL"}
    BY <1>4, <1>10 DEF PhaseGauge, Preparing
  <2>2. Level(t, "CREATIVE") = Level(s, "CREATIVE")
    BY <1>5, <1>7, <2>1 DEF Spend, Level, EnergyKinds
  <2> QED BY <1>1, <1>8, <1>10, <2>2 DEF t
<1> QED BY <1>9, <1>10

\* What the next phase of a diligent day may be.
Apt(s, p) ==
  /\ s.phases_visited = <<>> => p = "AWAKENING"
  /\ ~Visited(s, "FOCUS") => p \in Preparing \cup {"FOCUS"}
  /\ ~Visited(s, "FOCUS") /\ p = "CONSOLIDATION" => Visited(s, "DIGESTION")
  /\ ~Visited(s, "FOCUS") /\ p = "DIGESTION" => Intake(s) >= 8
  /\ Visited(s, "FOCUS") /\ ~Visited(s, "CREATION") => p \in Preparing \cup {"CREATION"}
  /\ Visited(s, "CREATION") /\ ~Visited(s, "REFLECTION") => p \in Preparing \cup {"REFLECTION"}

\* What ran after something still does when one more phase has run.
LEMMA FollowsGrows ==
  ASSUME NEW s \in CircadianState, NEW t, NEW p, NEW a, NEW b, Follows(s, a, b),
         t.phases_visited = Append(s.phases_visited, p), p = b => Visited(s, a)
  PROVE  Follows(t, a, b)
<1> DEFINE v == s.phases_visited
           w == t.phases_visited
<1>1. /\ Len(w) = Len(v) + 1 /\ Len(v) \in Nat
      /\ \A i \in 1 .. Len(v) : w[i] = v[i]
      /\ w[Len(v) + 1] = p
  BY DEF CircadianState
<1>2. \A j \in 1 .. Len(v) : v[j] = b => \E i \in 1 .. Len(v) : i < j /\ v[i] = a
  BY DEF Follows
<1>3. p = b => \E i \in 1 .. Len(v) : v[i] = a
  BY DEF Visited
<1> HIDE DEF v, w
<1>4. \A j \in 1 .. Len(w) : w[j] = b => \E i \in 1 .. Len(w) : i < j /\ w[i] = a
  BY <1>1, <1>2, <1>3
<1> QED BY <1>4 DEF Follows, w

LEMMA OnlyGrows ==
  ASSUME NEW s \in CircadianState, NEW t, NEW p, NEW S, Only(s, S), p \in S,
         t.phases_visited = Append(s.phases_visited, p)
  PROVE  Only(t, S)
BY DEF Only, CircadianState

LEMMA OnlyWidens ==
  ASSUME NEW s, NEW S, NEW T, Only(s, S), S \subseteq T PROVE Only(s, T)
BY DEF Only

\* A phase that is apt keeps the day diligent.
LEMMA EnterKeepsDiligence ==
  ASSUME NEW s \in CircadianState, NEW p \in Phases, Diligent(s), Apt(s, p)
  PROVE  Diligent(Enter(s, p))
<1> DEFINE t == Enter(s, p)
<1>1. \A q : Visited(t, q) <=> Visited(s, q) \/ q = p
  BY EnterChanges
<1>2. t.phases_visited = Append(s.phases_visited, p) /\ s.phases_visited \in Seq(Phases)
  BY DEF Enter, CircadianState
<1> HIDE DEF t
<1>3. Visited(s, "CREATION") => Visited(s, "FOCUS")
  BY DEF Diligent, Follows, Visited
<1>4. Visited(s, "REFLECTION") => Visited(s, "CREATION")
  BY DEF Diligent, Follows, Visited
<1>5. ~Visited(t, "FOCUS") => Only(t, Preparing)
  BY <1>1, <1>2, OnlyGrows DEF Diligent, Apt
<1>6. ~Visited(t, "CREATION") => Only(t, Preparing \cup {"FOCUS"})
  <2>1. SUFFICES ASSUME ~Visited(t, "CREATION") PROVE Only(t, Preparing \cup {"FOCUS"})
    OBVIOUS
  <2>2. p \in Preparing \cup {"FOCUS"} /\ Only(s, Preparing \cup {"FOCUS"})
    BY <1>1, <2>1 DEF Diligent, Apt
  <2> QED BY <1>2, <2>2, OnlyGrows
<1>7. ~Visited(t, "REFLECTION") => Only(t, Preparing \cup {"FOCUS", "CREATION"})
  <2>1. SUFFICES ASSUME ~Visited(t, "REFLECTION")
                 PROVE  Only(t, Preparing \cup {"FOCUS", "CREATION"})
    OBVIOUS
  <2>2. /\ p \in Preparing \cup {"FOCUS", "CREATION"}
        /\ Only(s, Preparing \cup {"FOCUS", "CREATION"})
    BY <1>1, <2>1 DEF Diligent, Apt
  <2> QED BY <1>2, <2>2, OnlyGrows
<1>8. Follows(t, "FOCUS", "CREATION")
  <2>1. p = "CREATION" => Visited(s, "FOCUS")
    BY DEF Apt, Preparing
  <2> QED BY <1>2, <2>1, FollowsGrows DEF Diligent
<1>9. Follows(t, "CREATION", "REFLECTION")
  <2>1. p = "REFLECTION" => Visited(s, "CREATION")
    BY DEF Apt, Preparing
  <2> QED BY <1>2, <2>1, FollowsGrows DEF Diligent
<1>10. ~Visited(t, "FOCUS") /\ Visited(t, "CONSOLIDATION") => Visited(t, "DIGESTION")
  BY <1>1 DEF Diligent, Apt
<1>11. t.phases_visited[1] = "AWAKENING"
  <2>1. CASE s.phases_visited = <<>>
    BY <1>2, <2>1 DEF Apt
  <2>2. CASE s.phases_visited # <<>>
    <3>1. Len(s.phases_visited) >= 1 /\ s.phases_visited[1] = "AWAKENING"
      BY <1>2, <2>2 DEF Diligent
    <3> QED BY <1>2, <3>1
  <2> QED BY <2>1, <2>2
<1> QED BY <1>5, <1>6, <1>7, <1>8, <1>9, <1>10, <1>11 DEF Diligent, t

LEMMA EnoughRemains ==
  ASSUME NEW level \in Int, NEW floor \in Int, NEW spent \in 0 .. 330,
         level >= 700 - spent, floor <= 370
  PROVE  level >= floor
OBVIOUS

LEMMA StillBelow ==
  ASSUME NEW level \in Int, NEW ceiling \in Int, NEW pressure \in 0 .. 400,
         level + 0 < ceiling - 400 + pressure
  PROVE  level < ceiling
OBVIOUS

\* The policy decides aptly, as long as nothing wore the mind out.
LEMMA DecisionIsApt ==
  ASSUME CreativeFloor <= 580, CriticalFloor <= 370, MinObservations <= 8,
         NEW s \in CircadianState, SoundDay(s), Diligent(s), Strong(s), ~OverBudget(s),
         s.phases_visited = <<>> => s.llm_calls = 0,
         s.phases_visited # <<>> => s.phase # "DEEP_SLEEP" /\ Light(s, 0),
         ~Visited(s, "FOCUS") /\ Visited(s, "DIGESTION") => Intake(s) >= 8
  PROVE  Apt(s, Decide(s))
<1>1. CASE s.phases_visited = <<>>
  <2>1. Decide(s) = "AWAKENING"
    BY <1>1, DayStartsAwakening
  <2>2. \A q : ~Visited(s, q)
    BY <1>1, NothingVisited
  <2> QED BY <2>1, <2>2 DEF Apt, Preparing
<1>2. CASE s.phases_visited # <<>>
  <2>1. /\ Level(s, "CREATIVE") \in Int /\ Level(s, "CRITICAL") \in Int
        /\ Level(s, "MEMORY_PRESSURE") \in Int
    BY LevelIsNumber DEF EnergyKinds
  <2>2. /\ MemoryPressureCeiling \in Int /\ CreativeFloor \in Int /\ CriticalFloor \in Int
    BY ThresholdsAssumption DEF ThresholdsAssumption
  <2>3. Visited(s, "CREATION") => Visited(s, "FOCUS")
    BY DEF Diligent, Follows, Visited
  <2>4. Visited(s, "REFLECTION") => Visited(s, "CREATION")
    BY DEF Diligent, Follows, Visited
  <2>5. SUFFICES ASSUME ~Visited(s, "REFLECTION") PROVE Apt(s, Decide(s))
    BY <1>2, <2>3, <2>4 DEF Apt
  <2>6. Able(s)
    <3>1. Spent(s) \in 0 .. 330
      BY <2>5 DEF Spent
    <3>2. Level(s, "CRITICAL") >= CriticalFloor
      <4>1. Level(s, "CRITICAL") >= 700 - Spent(s)
        BY DEF Strong
      <4> QED BY <2>1, <2>2, <3>1, <4>1, EnoughRemains
    <3>3. ~Visited(s, "CREATION") => Level(s, "CREATIVE") >= CreativeFloor
      BY <2>1, <2>2 DEF Strong
    <3> QED BY <1>2, <3>2, <3>3 DEF Able
  <2>7. CASE Visited(s, "CREATION")
    BY <1>2, <2>3, <2>5, <2>6, <2>7, JudgementComes DEF Apt
  <2>8. CASE Visited(s, "FOCUS") /\ ~Visited(s, "CREATION")
    BY <1>2, <2>6, <2>8, CreationComes DEF Apt
  <2>9. CASE ~Visited(s, "FOCUS")
    <3>1. Only(s, Preparing)
      BY <2>9 DEF Diligent
    <3>2. /\ Len(s.phases_visited) \in 1 .. Len(s.phases_visited)
          /\ s.phase = s.phases_visited[Len(s.phases_visited)]
      BY <1>2 DEF SoundDay, LastPhase, CircadianState
    <3>3. s.phase \in Preparing /\ Visited(s, s.phase)
      BY <3>1, <3>2 DEF Only, Visited
    <3>4. Pressure(s) \in 0 .. 400
      BY DEF Pressure
    <3>5. ~Visited(s, "DIGESTION") => Level(s, "MEMORY_PRESSURE") < MemoryPressureCeiling
      <4>1. ~Visited(s, "DIGESTION") =>
              Level(s, "MEMORY_PRESSURE") + 0 < MemoryPressureCeiling - 400 + Pressure(s)
        BY <1>2, <2>9 DEF Light
      <4> QED BY <2>1, <2>2, <3>4, <4>1, StillBelow
    <3>6. Visited(s, "CONSOLIDATION") => Visited(s, "DIGESTION")
      BY <2>9 DEF Diligent
    <3>7. /\ Decide(s) \in Preparing \cup {"FOCUS"}
          /\ Decide(s) = "CONSOLIDATION" => Visited(s, "DIGESTION")
          /\ Decide(s) = "DIGESTION" => Intake(s) >= 8
      BY <2>6, <2>9, <3>1, <3>3, <3>5, <3>6, FocusComes
    <3> QED BY <1>2, <2>3, <2>9, <3>7 DEF Apt
  <2> QED BY <2>7, <2>8, <2>9
<1> QED BY <1>1, <1>2

\* No phase takes back what was filed.
LEMMA FilesOnlyGrow ==
  ASSUME NEW p \in Phases, stored \in Stored, NEW records \in Yields(p)
  PROVE  records.observations >= stored.observations /\ records.research >= stored.research
<1>1. stored.observations \in Nat /\ stored.research \in Nat
  BY DEF Stored
<1>2. /\ \A n \in ObservationYield : \A m \in Filed(stored.observations, n) : m >= stored.observations
      /\ \A n \in ResearchYield : \A m \in Filed(stored.research, n) : m >= stored.research
  BY <1>1, EnvironmentAssumption DEF EnvironmentAssumption, Filed
<1>3. /\ \A m : [stored EXCEPT !.observations = m].observations = m
      /\ \A m : [stored EXCEPT !.research = m].research = m
  BY DEF Stored
<1>4. CASE p = "OBSERVATION"
  <2>1. \E n \in ObservationYield : \E m \in Filed(stored.observations, n) :
          records = [stored EXCEPT !.observations = m]
    BY <1>4 DEF Yields
  <2>2. records.research = stored.research
    BY <1>4, YieldsOnlyAdd
  <2> QED BY <1>1, <1>2, <1>3, <2>1, <2>2
<1>5. CASE p = "HUNT"
  <2>1. \/ records = stored
        \/ \E n \in ResearchYield : \E m \in Filed(stored.research, n) :
             records = [stored EXCEPT !.research = m]
    BY <1>5 DEF Yields
  <2>2. records.observations = stored.observations
    BY <1>5, YieldsOnlyAdd
  <2>3. ASSUME NEW n \in ResearchYield, NEW m \in Filed(stored.research, n),
               records = [stored EXCEPT !.research = m]
        PROVE  records.research >= stored.research
    BY <1>2, <1>3, <2>3
  <2> QED BY <1>1, <2>1, <2>2, <2>3
<1>6. CASE p \notin {"OBSERVATION", "HUNT"}
  BY <1>1, <1>6, YieldsOnlyAdd
<1> QED BY <1>4, <1>5, <1>6

\* A phase's work never adds to the memory pressure; consolidation relieves it.
LEMMA WorkRelieves ==
  ASSUME NEW p \in Phases, state \in CircadianState, NEW r \in Results(p)
  PROVE  Level(r[1], "MEMORY_PRESSURE") <= Level(state, "MEMORY_PRESSURE")
<1>0. Level(state, "MEMORY_PRESSURE") \in EnergyLevel /\ Level(state, "MEMORY_PRESSURE") \in Int
  <2>1. Level(state, "MEMORY_PRESSURE") \in EnergyLevel
    BY DEF CircadianState, EnergyProfile, EnergyKinds, Level
  <2> QED BY <2>1 DEF EnergyLevel, EnergyMin, EnergyMax
<1>1. CASE r[1].energy = state.energy
  <2>1. Level(r[1], "MEMORY_PRESSURE") = Level(state, "MEMORY_PRESSURE")
    BY <1>1 DEF Level
  <2> QED BY <1>0, <2>1
<1>2. CASE r[1].energy = Spend(state.energy, "MEMORY_PRESSURE", 600)
  <2>1. Level(r[1], "MEMORY_PRESSURE") = Clamped(Level(state, "MEMORY_PRESSURE") - 600)
    BY <1>2 DEF Level, Spend, CircadianState, EnergyProfile, EnergyKinds
  <2> QED BY <1>0, <2>1 DEF Clamped, EnergyLevel, EnergyMin, EnergyMax
<1>3. r[1].energy \in {state.energy, Spend(state.energy, "MEMORY_PRESSURE", 600)}
  <2>1. CASE p = "REFLECTION"
    <3>1. \/ r = <<state, outcome>>
          \/ \E score \in QualityScores \X NoveltyScores : r = Judgement(score)
      BY <2>1 DEF Results, Judged
    <3>2. ASSUME NEW score \in QualityScores \X NoveltyScores, r = Judgement(score)
          PROVE  r[1].energy = state.energy
      BY <3>2 DEF Judgement, CircadianState
    <3>3. r = <<state, outcome>> => r[1].energy = state.energy
      OBVIOUS
    <3> QED BY <3>1, <3>2, <3>3
  <2>2. CASE p # "REFLECTION"
    <3>1. PICK s \in Effects(p) : r = <<s, Learned(p)>>
      BY <2>2 DEF Results
    <3>2. s.energy \in {state.energy, Spend(state.energy, "MEMORY_PRESSURE", 600)}
      BY <3>1 DEF Effects, CircadianState
    <3> QED BY <3>1, <3>2
  <2> QED BY <2>1, <2>2
<1> QED BY <1>1, <1>2, <1>3

\* What a phase that returned did to what the day still needs.
LEMMA ReturningCosts ==
  ASSUME TypeOK, PhaseReturns
  PROVE  /\ state'.energy["CREATIVE"] = state.energy["CREATIVE"]
         /\ state'.energy["CRITICAL"] = state.energy["CRITICAL"]
         /\ state'.observation_backlog = stored'.observations
         /\ state'.research_backlog = stored'.research
         /\ stored'.observations >= stored.observations
         /\ stored'.research >= stored.research
         /\ Level(state', "MEMORY_PRESSURE") <= Level(state, "MEMORY_PRESSURE") + 200
         /\ \E e \in Published(state.phase) :
              Level(state', "MEMORY_PRESSURE")
                <= Level(state, "MEMORY_PRESSURE") + 6 * (events + e)
<1>1. /\ state \in CircadianState /\ state.phase \in Phases
      /\ stored \in Stored /\ outcome \in Outcome /\ events \in 0 .. EventCap
  BY DEF TypeOK, CircadianState
<1>2. PICK n \in WantedCalls(state.phase), e \in Published(state.phase),
            records \in Yields(state.phase), r \in Results(state.phase) :
        /\ stored' = records
        /\ state' = Refreshed(r[1], records, Publish(e))
  BY DEF PhaseReturns
<1>3. records \in Stored /\ r[1] \in CircadianState
  BY <1>1, <1>2, YieldsType, ResultsType
<1>4. Publish(e) \in Nat /\ Publish(e) <= events + e /\ e \in Nat /\ events \in Nat
  <2>1. e \in Nat /\ events \in Nat
    BY <1>1, <1>2, WorkType DEF EventCap
  <2> QED BY <2>1 DEF Publish, EventCap
<1>5. /\ state'.energy["CREATIVE"] = state.energy["CREATIVE"]
      /\ state'.energy["CRITICAL"] = state.energy["CRITICAL"]
  <2>1. /\ state'.energy["CREATIVE"] = r[1].energy["CREATIVE"]
        /\ state'.energy["CRITICAL"] = r[1].energy["CRITICAL"]
    BY <1>2, <1>3, <1>4, RefreshReads DEF EnergyKinds
  <2>2. /\ r[1].energy["CREATIVE"] = state.energy["CREATIVE"]
        /\ r[1].energy["CRITICAL"] = state.energy["CRITICAL"]
    BY <1>1, <1>2, ResultsKeepSignals DEF EnergyKinds
  <2> QED BY <2>1, <2>2
<1>6. /\ state'.observation_backlog = stored'.observations
      /\ state'.research_backlog = stored'.research
  BY <1>2, <1>3, <1>4, RefreshReads
<1>7. stored'.observations >= stored.observations /\ stored'.research >= stored.research
  BY <1>1, <1>2, FilesOnlyGrow
<1> DEFINE rise == IF 6 * Publish(e) > 200 THEN 200 ELSE 6 * Publish(e)
<1>8. rise \in Int /\ rise <= 200 /\ rise <= 6 * (events + e)
  <2>1. \A x, y \in Nat : x <= y =>
          LET z == IF 6 * x > 200 THEN 200 ELSE 6 * x IN z \in Int /\ z <= 200 /\ z <= 6 * y
    OBVIOUS
  <2>2. events + e \in Nat
    BY <1>4
  <2> QED BY <1>4, <2>1, <2>2
<1>9. Level(state', "MEMORY_PRESSURE") = Clamped(Level(r[1], "MEMORY_PRESSURE") + rise)
  <2>1. state'.energy = Restore(r[1].energy, "MEMORY_PRESSURE", rise)
    BY <1>2, <1>3 DEF Refreshed, CircadianState
  <2> HIDE DEF rise
  <2> QED BY <1>3, <2>1 DEF Restore, Level, CircadianState, EnergyProfile, EnergyKinds
<1>10. /\ Level(r[1], "MEMORY_PRESSURE") \in Nat
       /\ Level(state, "MEMORY_PRESSURE") \in Nat
       /\ Level(r[1], "MEMORY_PRESSURE") <= Level(state, "MEMORY_PRESSURE")
  <2>1. /\ Level(r[1], "MEMORY_PRESSURE") \in EnergyLevel
        /\ Level(state, "MEMORY_PRESSURE") \in EnergyLevel
    BY <1>1, <1>3 DEF CircadianState, EnergyProfile, EnergyKinds, Level
  <2>2. Level(r[1], "MEMORY_PRESSURE") <= Level(state, "MEMORY_PRESSURE")
    BY <1>1, <1>2, WorkRelieves
  <2> QED BY <2>1, <2>2 DEF EnergyLevel, EnergyMin, EnergyMax
<1>11. \A x \in Nat, y \in Int : y >= 0 => Clamped(x + y) <= x + y /\ Clamped(x + y) \in Int
  BY DEF Clamped, EnergyMin, EnergyMax
<1>12. rise >= 0
  BY <1>4
<1> HIDE DEF rise
<1>13. /\ Level(state', "MEMORY_PRESSURE") <= Level(r[1], "MEMORY_PRESSURE") + rise
       /\ Level(state', "MEMORY_PRESSURE") \in Int
  BY <1>8, <1>9, <1>10, <1>11, <1>12
<1>14. Level(state', "MEMORY_PRESSURE") <= Level(state, "MEMORY_PRESSURE") + 200
  BY <1>8, <1>10, <1>13
<1>15. Level(state', "MEMORY_PRESSURE") <= Level(state, "MEMORY_PRESSURE") + 6 * (events + e)
  <2> DEFINE due == 6 * (events + e)
  <2>1. due \in Int /\ rise <= due
    BY <1>4, <1>8
  <2> HIDE DEF due
  <2>2. Level(state', "MEMORY_PRESSURE") <= Level(state, "MEMORY_PRESSURE") + due
    BY <1>8, <1>10, <1>13, <2>1
  <2> QED BY <2>2 DEF due
<1> QED BY <1>2, <1>5, <1>6, <1>7, <1>14, <1>15

\* Whatever the day took, a night later the mind can prepare, create and judge.
LEMMA NightPrepares ==
  ASSUME NEW s \in CircadianState PROVE Morning(EndDay(s))
<1>1. EndDay(s).energy = RestoredBySleep(s.energy)
  BY DEF EndDay, CircadianState
<1>2. /\ Level(s, "CREATIVE") \in EnergyLevel /\ Level(s, "CRITICAL") \in EnergyLevel
      /\ Level(s, "MEMORY_PRESSURE") \in EnergyLevel
  BY DEF CircadianState, EnergyProfile, EnergyKinds, Level
<1>3. /\ Level(EndDay(s), "CREATIVE") = Clamped(Level(s, "CREATIVE") + 600)
      /\ Level(EndDay(s), "CRITICAL") = Clamped(Level(s, "CRITICAL") + 700)
      /\ Level(EndDay(s), "MEMORY_PRESSURE") = Clamped(Level(s, "MEMORY_PRESSURE") + -800)
  BY <1>1 DEF RestoredBySleep, SleepEffect, Level, EnergyKinds
<1>4. \A x \in EnergyLevel : /\ Clamped(x + 600) >= 600 /\ Clamped(x + 700) >= 700
                             /\ Clamped(x + -800) <= 200
  BY DEF Clamped, EnergyLevel, EnergyMin, EnergyMax
<1> QED BY <1>2, <1>3, <1>4 DEF Morning

LEMMA FreshMorning == Morning(FreshState)
BY DEF Morning, Level, FreshState, Rested, EnergyKinds, EnergyMax, EnergyMin

\* What leaves the list of phases and the two productive gauges alone keeps the day
\* diligent and strong.
LEMMA SameDiligence ==
  ASSUME NEW s, NEW t, t.phases_visited = s.phases_visited,
         t.energy["CREATIVE"] = s.energy["CREATIVE"],
         t.energy["CRITICAL"] = s.energy["CRITICAL"]
  PROVE  /\ \A p : Visited(t, p) <=> Visited(s, p)
         /\ Diligent(s) => Diligent(t)
         /\ Strong(s) => Strong(t)
<1>1. \A p : Visited(t, p) <=> Visited(s, p)
  BY DEF Visited
<1>2. Spent(t) = Spent(s)
  BY <1>1 DEF Spent
<1>3. Diligent(s) => Diligent(t)
  BY <1>1 DEF Diligent, Only, Follows
<1>4. Strong(s) => Strong(t)
  BY <1>1, <1>2 DEF Strong, Level
<1> QED BY <1>1, <1>3, <1>4

\* Pressure may grow by a phase's due, which is then no longer due.
LEMMA DueIsPaid ==
  ASSUME NEW s \in CircadianState, NEW t \in CircadianState, Light(s, 200),
         t.phases_visited = s.phases_visited,
         Level(t, "MEMORY_PRESSURE") <= Level(s, "MEMORY_PRESSURE") + 200
  PROVE  Light(t, 0)
<1>1. \A p : Visited(t, p) <=> Visited(s, p)
  BY DEF Visited
<1>2. Pressure(t) = Pressure(s) /\ Pressure(s) \in Int
  BY <1>1 DEF Pressure
<1>3. SUFFICES ASSUME ~Visited(s, "FOCUS"), ~Visited(s, "DIGESTION")
               PROVE  Level(t, "MEMORY_PRESSURE") + 0 < MemoryPressureCeiling - 400 + Pressure(t)
  BY <1>1 DEF Light
<1>4. Level(s, "MEMORY_PRESSURE") + 200 < MemoryPressureCeiling - 400 + Pressure(s)
  BY <1>3 DEF Light
<1>5. /\ Level(s, "MEMORY_PRESSURE") \in Int /\ Level(t, "MEMORY_PRESSURE") \in Int
      /\ MemoryPressureCeiling \in Int
  BY LevelIsNumber, ThresholdsAssumption DEF EnergyKinds, ThresholdsAssumption
<1> QED BY <1>2, <1>4, <1>5

\* Calls are only spent: while some are left, some were left before.
LEMMA CallsAreSpent ==
  ASSUME TypeOK, NEW n \in Nat
  PROVE  CallsAfter(n) < MaxLlmCalls => calls <= CallsAfter(n) /\ calls < MaxLlmCalls
BY ThresholdsAssumption DEF TypeOK, CallsAfter, ThresholdsAssumption

\* A decision keeps the day on course.
LEMMA DecidingKeepsCourse ==
  ASSUME UndisturbedLife, MeetableThresholds, TypeOK, DayInvariant,
         OnCourse, calls < MaxLlmCalls, EnterPhase
  PROVE  OnCourse'
<1> DEFINE p == Decide(state)
<1>1. /\ pc = "decide" /\ pc' = "execute" /\ state' = Enter(state, p)
      /\ events' = Publish(1) /\ stored' = stored /\ calls' = calls
      /\ state \in CircadianState /\ stored \in Stored
      /\ SoundDay(state)
      /\ state.phases_visited # <<>> => state.phase # "DEEP_SLEEP"
      /\ state.phases_visited = <<>> => state.llm_calls = 0
      /\ state.llm_calls <= calls /\ Diligent(state) /\ Strong(state)
  BY DEF EnterPhase, DayInvariant, PlaceInDay, TypeOK, OnCourse
<1>2. p \in Phases /\ ~Visited(state, p)
  <2>1. Awake(state)
    BY <1>1, AwakeMind
  <2> QED BY <1>1, <2>1, DecisionIsUnvisited
<1>3. state.phases_visited # <<>> => ~Waking
  BY <1>1 DEF Waking
<1>4. Apt(state, p)
  <2>1. ~OverBudget(state)
    <3>1. state.llm_calls \in Nat /\ calls \in Nat /\ MaxLlmCalls \in Nat
      BY <1>1, ThresholdsAssumption DEF TypeOK, CircadianState, ThresholdsAssumption
    <3> QED BY <1>1, <3>1 DEF OverBudget
  <2>2. state.phases_visited # <<>> => Light(state, 0)
    BY <1>1, <1>3 DEF OnCourse
  <2>3. ~Visited(state, "FOCUS") /\ Visited(state, "DIGESTION") => Intake(state) >= 8
    <3>1. Visited(state, "DIGESTION") => state.phases_visited # <<>>
      BY NothingVisited
    <3> QED BY <1>3, <3>1 DEF OnCourse, Fed
  <2> QED BY <1>1, <2>1, <2>2, <2>3, DecisionIsApt DEF MeetableThresholds
<1>5. /\ \A q : Visited(state', q) <=> Visited(state, q) \/ q = p
      /\ Intake(state') = Intake(state)
      /\ state'.observation_backlog = state.observation_backlog
      /\ state'.research_backlog = state.research_backlog
  BY <1>1, <1>2, EnterChanges
<1>6. /\ state'.phases_visited = Append(state.phases_visited, p)
      /\ state'.phases_visited # <<>> /\ state'.phase = p
      /\ state'.llm_calls = state.llm_calls
      /\ state'.energy = Spend(state.energy, PhaseGauge[p], PhaseCost[p])
  BY <1>1 DEF Enter, CircadianState
<1>7. Level(state', "MEMORY_PRESSURE") = Level(state, "MEMORY_PRESSURE")
  <2>1. PhaseGauge[p] # "MEMORY_PRESSURE"
    BY <1>2 DEF PhaseGauge, Phases
  <2>2. state.energy \in [EnergyKinds -> EnergyLevel]
    BY <1>1 DEF CircadianState, EnergyProfile
  <2> QED BY <1>6, <2>1, <2>2 DEF Level, Spend, EnergyKinds
<1>8. Diligent(state')
  BY <1>1, <1>2, <1>4, EnterKeepsDiligence
<1>9. Strong(state')
  <2>1. ~Visited(state, "CREATION") => p \in Preparing \cup {"FOCUS", "CREATION"}
    BY <1>4 DEF Apt
  <2> QED BY <1>1, <1>2, <2>1, EnterKeepsStrength
<1>10. CASE state.phases_visited = <<>>
  <2>1. p = "AWAKENING" /\ Waking /\ Waking'
    BY <1>1, <1>4, <1>6, <1>10 DEF Apt, Waking
  <2>2. events' = 2
    BY <1>1, <2>1 DEF OnCourse, Publish, EventCap
  <2>3. Level(state', "MEMORY_PRESSURE") <= 200
    BY <1>7, <2>1 DEF OnCourse
  <2>4. pc' # "forced" /\ pc' # "decide" /\ state'.llm_calls <= calls'
    BY <1>1, <1>6
  <2> QED BY <1>8, <1>9, <2>1, <2>2, <2>3, <2>4 DEF OnCourse
<1>11. CASE state.phases_visited # <<>>
  <2>1. p # "AWAKENING"
    <3>1. Len(state.phases_visited) >= 1 /\ state.phases_visited[1] = "AWAKENING"
      BY <1>1, <1>11 DEF Diligent, CircadianState
    <3> QED BY <1>1, <1>2, <3>1 DEF Visited, CircadianState
  <2>2. ~Waking /\ ~Waking'
    BY <1>3, <1>6, <1>11, <2>1 DEF Waking
  <2>3. Fed /\ Light(state, 0)
    BY <1>1, <2>2 DEF OnCourse
  <2>4. Fed'
    BY <1>1, <1>4, <1>5, <2>3 DEF Fed, Apt
  <2>5. Light(state', 200)
    <3>1. SUFFICES ASSUME ~Visited(state', "FOCUS"), ~Visited(state', "DIGESTION")
                   PROVE  Level(state', "MEMORY_PRESSURE") + 200
                            < MemoryPressureCeiling - 400 + Pressure(state')
      BY DEF Light
    <3>2. ~Visited(state, "FOCUS") /\ ~Visited(state, "DIGESTION") /\ p \notin {"FOCUS", "DIGESTION"}
      BY <1>5, <3>1
    <3>3. p \in {"OBSERVATION", "HUNT"}
      BY <1>4, <2>1, <3>2 DEF Apt, Preparing
    <3>4. Pressure(state') = Pressure(state) + 200
      BY <1>2, <1>5, <3>3 DEF Pressure
    <3>5. Level(state, "MEMORY_PRESSURE") + 0 < MemoryPressureCeiling - 400 + Pressure(state)
      BY <2>3, <3>2 DEF Light
    <3>6. /\ Level(state, "MEMORY_PRESSURE") \in Int /\ MemoryPressureCeiling \in Int
          /\ Pressure(state) \in Int
      BY <1>1, LevelIsNumber, ThresholdsAssumption DEF EnergyKinds, ThresholdsAssumption, Pressure
    <3> QED BY <1>7, <3>4, <3>5, <3>6
  <2>6. pc' # "forced" /\ pc' = "execute" /\ state'.llm_calls <= calls'
    BY <1>1, <1>6
  <2> QED BY <1>8, <1>9, <2>2, <2>4, <2>5, <2>6 DEF OnCourse
<1> QED BY <1>10, <1>11

\* So does a phase that returns.
LEMMA ReturningKeepsCourse ==
  ASSUME UndisturbedLife, MeetableThresholds, TypeOK, DayInvariant,
         OnCourse, calls <= calls', PhaseReturns
  PROVE  OnCourse'
<1>1. /\ pc = "execute" /\ pc' = "sync"
      /\ state \in CircadianState /\ state' \in CircadianState
      /\ stored \in Stored /\ stored' \in Stored
      /\ state.phases_visited # <<>> /\ SoundDay(state)
      /\ calls \in Nat /\ calls' \in Nat
  BY PhaseReturnsType DEF TypeOK, DayInvariant, PlaceInDay, PhaseReturns
<1>2. state'.phases_visited = state.phases_visited /\ state'.phase = state.phase
  BY PhaseReturnsSameDay DEF SameDay
<1>3. /\ state'.energy["CREATIVE"] = state.energy["CREATIVE"]
      /\ state'.energy["CRITICAL"] = state.energy["CRITICAL"]
      /\ state'.observation_backlog = stored'.observations
      /\ state'.research_backlog = stored'.research
      /\ stored'.observations >= stored.observations
      /\ stored'.research >= stored.research
      /\ Level(state', "MEMORY_PRESSURE") <= Level(state, "MEMORY_PRESSURE") + 200
  BY ReturningCosts
<1>4. /\ Diligent(state') /\ Strong(state')
      /\ \A q : Visited(state', q) <=> Visited(state, q)
  BY <1>2, <1>3, SameDiligence DEF OnCourse
<1>5. state'.llm_calls = state.llm_calls
  <2>1. PICK n \in WantedCalls(state.phase), e \in Published(state.phase),
              records \in Yields(state.phase), r \in Results(state.phase) :
          state' = Refreshed(r[1], records, Publish(e))
    BY DEF PhaseReturns
  <2>2. r[1] \in CircadianState
    BY <1>1, <2>1, ResultsType DEF TypeOK, CircadianState
  <2>3. state'.llm_calls = r[1].llm_calls
    BY <2>1, <2>2 DEF Refreshed, CircadianState
  <2>4. r[1].llm_calls = state.llm_calls
    <3>1. CASE state.phase = "REFLECTION"
      <4>1. \/ r = <<state, outcome>>
            \/ \E score \in QualityScores \X NoveltyScores : r = Judgement(score)
        BY <3>1, <2>1 DEF Results, Judged
      <4>2. ASSUME NEW score \in QualityScores \X NoveltyScores, r = Judgement(score)
            PROVE  r[1].llm_calls = state.llm_calls
        BY <1>1, <4>2 DEF Judgement, CircadianState
      <4>3. r = <<state, outcome>> => r[1].llm_calls = state.llm_calls
        OBVIOUS
      <4> QED BY <4>1, <4>2, <4>3
    <3>2. CASE state.phase # "REFLECTION"
      <4>1. PICK s \in Effects(state.phase) : r = <<s, Learned(state.phase)>>
        BY <3>2, <2>1 DEF Results
      <4>2. \/ s = state
            \/ \E d : s = [state EXCEPT !.duplicate_rate = d]
            \/ \E x : s = [state EXCEPT !.energy = x]
        BY <4>1 DEF Effects
      <4>3. s.llm_calls = state.llm_calls
        BY <1>1, <4>2 DEF CircadianState
      <4> QED BY <4>1, <4>3
    <3> QED BY <3>1, <3>2
  <2> QED BY <2>3, <2>4
<1>6. pc' # "forced" /\ pc' # "execute" /\ state'.llm_calls <= calls'
  <2>1. state.llm_calls \in Nat /\ state.llm_calls <= calls
    BY <1>1 DEF CircadianState, OnCourse
  <2> QED BY <1>1, <1>5, <2>1
<1>7. ~Waking'
  BY <1>1, <1>2 DEF Waking
<1>8. CASE state.phase = "AWAKENING"
  <2>1. Waking /\ Level(state, "MEMORY_PRESSURE") <= 200 /\ events = 2
    BY <1>1, <1>8 DEF Waking, OnCourse
  <2>2. \A i \in 1 .. Len(state.phases_visited) : state.phases_visited[i] = "AWAKENING"
    <3>1. Len(state.phases_visited) >= 1 /\ Len(state.phases_visited) \in Nat
      BY <1>1 DEF CircadianState
    <3>2. state.phases_visited[1] = "AWAKENING"
      BY <1>1 DEF OnCourse, Diligent
    <3>3. state.phases_visited[Len(state.phases_visited)] = "AWAKENING"
      BY <1>1, <1>8 DEF SoundDay, LastPhase
    <3>4. Len(state.phases_visited) = 1
      <4>1. \A i, j \in 1 .. Len(state.phases_visited) :
              state.phases_visited[i] = state.phases_visited[j] => i = j
        BY <1>1 DEF SoundDay
      <4>2. /\ 1 \in 1 .. Len(state.phases_visited)
            /\ Len(state.phases_visited) \in 1 .. Len(state.phases_visited)
        BY <3>1
      <4> QED BY <3>2, <3>3, <4>1, <4>2
    <3> QED BY <3>2, <3>4
  <2>3. Fed'
    <3>1. ~Visited(state', "DIGESTION")
      BY <1>4, <2>2 DEF Visited
    <3>2. stored'.observations \in Nat /\ stored'.research \in Nat
      BY <1>1 DEF Stored
    <3> QED BY <1>3, <3>1, <3>2 DEF Fed
  <2>4. Level(state', "MEMORY_PRESSURE") + 0 < MemoryPressureCeiling - 400 + Pressure(state')
    <3>1. PICK e \in Published(state.phase) :
            Level(state', "MEMORY_PRESSURE") <= Level(state, "MEMORY_PRESSURE") + 6 * (events + e)
      BY ReturningCosts
    <3>2. e \in EventBurst["AWAKENING"] /\ e \in Nat
      <4>1. e \in EventBurst["AWAKENING"]
        BY <1>8, <3>1 DEF Published, Idle
      <4> QED BY <4>1, EnvironmentAssumption DEF EnvironmentAssumption, Phases
    <3>3. 6 * (e + 2) + 600 < MemoryPressureCeiling
      BY <3>2 DEF MeetableThresholds
    <3>4. /\ Level(state, "MEMORY_PRESSURE") \in Int /\ Level(state', "MEMORY_PRESSURE") \in Int
          /\ MemoryPressureCeiling \in Int
      BY <1>1, LevelIsNumber, ThresholdsAssumption DEF EnergyKinds, ThresholdsAssumption
    <3>5. Pressure(state') \in Nat
      BY DEF Pressure
    <3>6. 6 * (events + e) = 6 * (e + 2)
      BY <2>1, <3>2
    <3> DEFINE rise == 6 * (e + 2)
    <3>7. rise \in Nat
      BY <3>2
    <3> HIDE DEF rise
    <3>8. Level(state', "MEMORY_PRESSURE") <= 200 + rise /\ rise + 600 < MemoryPressureCeiling
      BY <2>1, <3>1, <3>3, <3>4, <3>6, <3>7 DEF rise
    <3> QED BY <3>4, <3>5, <3>7, <3>8
  <2>5. Light(state', 0)
    BY <2>4 DEF Light
  <2> QED BY <1>4, <1>6, <1>7, <2>3, <2>5 DEF OnCourse
<1>9. CASE state.phase # "AWAKENING"
  <2>1. ~Waking
    BY <1>1, <1>9 DEF Waking
  <2>2. Fed /\ Light(state, 200)
    BY <1>1, <2>1 DEF OnCourse
  <2>3. Fed'
    <3>1. /\ stored'.observations \in Nat /\ stored'.research \in Nat
          /\ stored.observations \in Nat /\ stored.research \in Nat
          /\ state.observation_backlog \in Nat /\ state.research_backlog \in Nat
      BY <1>1 DEF Stored, CircadianState
    <3>2. Intake(state') >= Intake(state) /\ Intake(state') \in Nat /\ Intake(state) \in Nat
      BY <1>3, <2>2, <3>1 DEF Intake, Fed
    <3>3. /\ state'.observation_backlog <= stored'.observations
          /\ state'.research_backlog <= stored'.research
      BY <1>3, <3>1
    <3>4. ~Visited(state', "FOCUS") /\ Visited(state', "DIGESTION") => Intake(state') >= 8
      BY <1>4, <2>2, <3>2 DEF Fed
    <3> QED BY <3>3, <3>4 DEF Fed
  <2>4. Light(state', 0)
    BY <1>1, <1>2, <1>3, <2>2, DueIsPaid
  <2> QED BY <1>4, <1>6, <1>7, <2>3, <2>4 DEF OnCourse
<1> QED BY <1>8, <1>9

\* And a phase that fails: it has filed part of its work, and refreshed nothing.
LEMMA FailingKeepsCourse ==
  ASSUME UndisturbedLife, TypeOK, DayInvariant, OnCourse, calls <= calls', PhaseFails
  PROVE  OnCourse'
<1>1. /\ pc = "execute" /\ pc' = "sync" /\ state' = state
      /\ state \in CircadianState /\ stored \in Stored
      /\ state.phases_visited # <<>> /\ state.phase \in Phases
      /\ state.phase # "AWAKENING"
      /\ calls \in Nat /\ calls' \in Nat
  BY PhaseFailsType
  DEF TypeOK, DayInvariant, PlaceInDay, PhaseFails, UndisturbedLife, CircadianState
<1>2. PICK records \in Yields(state.phase) \cup {stored} : stored' = records
  BY DEF PhaseFails
<1>3. /\ stored'.observations \in Nat /\ stored'.research \in Nat
      /\ stored'.observations >= stored.observations
      /\ stored'.research >= stored.research
      /\ stored.observations \in Nat /\ stored.research \in Nat
  <2>1. stored.observations \in Nat /\ stored.research \in Nat
    BY <1>1 DEF Stored
  <2>2. CASE stored' = stored
    BY <2>1, <2>2
  <2>3. CASE stored' \in Yields(state.phase)
    <3>1. stored' \in Stored
      BY <1>1, <2>3, YieldsType
    <3> QED BY <1>1, <2>1, <2>3, <3>1, FilesOnlyGrow DEF Stored
  <2> QED BY <1>2, <2>2, <2>3
<1>4. ~Waking /\ ~Waking'
  BY <1>1 DEF Waking
<1>5. Fed /\ Light(state, 200)
  BY <1>1, <1>4 DEF OnCourse
<1>6. Fed'
  <2>1. state.observation_backlog \in Nat /\ state.research_backlog \in Nat
    BY <1>1 DEF CircadianState
  <2> QED BY <1>1, <1>3, <1>5, <2>1 DEF Fed
<1>7. Light(state', 0)
  <2>1. Level(state', "MEMORY_PRESSURE") <= Level(state, "MEMORY_PRESSURE") + 200
    <3>1. Level(state, "MEMORY_PRESSURE") \in Int
      BY <1>1, LevelIsNumber DEF EnergyKinds
    <3> QED BY <1>1, <3>1
  <2> QED BY <1>1, <1>5, <2>1, DueIsPaid
<1>8. pc' # "forced" /\ pc' # "execute" /\ state'.llm_calls <= calls'
  <2>1. state.llm_calls \in Nat /\ state.llm_calls <= calls
    BY <1>1 DEF CircadianState, OnCourse
  <2> QED BY <1>1, <2>1
<1>9. Diligent(state') /\ Strong(state')
  BY <1>1 DEF OnCourse
<1> QED BY <1>4, <1>6, <1>7, <1>8, <1>9 DEF OnCourse

LEMMA DiligenceStep ==
  ASSUME UndisturbedLife, MeetableThresholds
  PROVE  TypeOK /\ DayInvariant /\ DiligenceInvariant /\ [Next]_vars => DiligenceInvariant'
<1> SUFFICES ASSUME TypeOK, DayInvariant, DiligenceInvariant, [Next]_vars
             PROVE  DiligenceInvariant'
  OBVIOUS
<1>0. /\ state \in CircadianState /\ saved_state \in CircadianState
      /\ calls \in Nat /\ MaxLlmCalls \in Nat /\ state.phase \in Phases
  BY ThresholdsAssumption DEF TypeOK, ThresholdsAssumption, CircadianState
<1>1. CASE EnterPhase
  <2>1. pc = "decide" /\ InCycle /\ InCycle' /\ calls' = calls
    BY <1>1 DEF EnterPhase, InCycle
  <2> QED BY <1>1, <2>1, DecidingKeepsCourse DEF DiligenceInvariant
<1>2. CASE PhaseReturns
  <2>1. PICK n \in WantedCalls(state.phase) : calls' = CallsAfter(n)
    BY <1>2 DEF PhaseReturns
  <2>2. n \in Nat
    BY <1>0, <2>1, WorkType
  <2>3. calls' < MaxLlmCalls => calls <= calls' /\ calls < MaxLlmCalls
    BY <2>1, <2>2, CallsAreSpent
  <2>4. InCycle /\ InCycle'
    BY <1>2 DEF PhaseReturns, InCycle
  <2> QED BY <1>2, <2>3, <2>4, ReturningKeepsCourse DEF DiligenceInvariant
<1>3. CASE PhaseFails
  <2>1. PICK n \in WantedCalls(state.phase) : calls' = CallsAfter(n)
    BY <1>3 DEF PhaseFails
  <2>2. n \in Nat
    BY <1>0, <2>1, WorkType
  <2>3. calls' < MaxLlmCalls => calls <= calls' /\ calls < MaxLlmCalls
    BY <2>1, <2>2, CallsAreSpent
  <2>4. InCycle /\ InCycle'
    BY <1>3 DEF PhaseFails, InCycle
  <2> QED BY <1>3, <2>3, <2>4, FailingKeepsCourse DEF DiligenceInvariant
<1>4. CASE BudgetExceeded
  <2>1. calls' = MaxLlmCalls /\ InCycle'
    BY <1>4 DEF BudgetExceeded, InCycle
  <2> QED BY <1>0, <2>1 DEF DiligenceInvariant
<1>5. CASE ForcedSleep
  <2>1. calls' = calls /\ InCycle /\ InCycle' /\ pc = "forced"
    BY <1>5 DEF ForcedSleep, InCycle
  <2> QED BY <2>1 DEF DiligenceInvariant, OnCourse
<1>6. CASE SyncAndSaveState
  <2>1. /\ pc = "sync" /\ pc' = "checkpoint" /\ InCycle /\ InCycle'
        /\ calls' = calls /\ stored' = stored
        /\ state' = [state EXCEPT !.llm_calls = calls]
    BY <1>6 DEF SyncAndSaveState, InCycle
  <2>2. SUFFICES ASSUME OnCourse PROVE OnCourse'
    BY <2>1 DEF DiligenceInvariant
  <2>3. /\ state'.phases_visited = state.phases_visited /\ state'.energy = state.energy
        /\ state'.observation_backlog = state.observation_backlog
        /\ state'.research_backlog = state.research_backlog
        /\ state'.llm_calls = calls
    BY <1>0, <2>1 DEF CircadianState
  <2>4. /\ \A q : Visited(state', q) <=> Visited(state, q)
        /\ Diligent(state') /\ Strong(state')
    BY <2>2, <2>3, SameDiligence DEF OnCourse
  <2>5. ~Waking /\ ~Waking'
    BY <2>1, <2>3 DEF Waking, DayInvariant, PlaceInDay
  <2>6. Fed /\ Light(state, 0)
    BY <2>1, <2>2, <2>5 DEF OnCourse
  <2>7. Fed'
    BY <2>1, <2>3, <2>4, <2>6 DEF Fed, Intake
  <2>8. Light(state', 0)
    BY <2>3, <2>4, <2>6 DEF Light, Level, Pressure
  <2>9. pc' # "forced" /\ pc' # "execute" /\ state'.llm_calls <= calls'
    BY <1>0, <2>1, <2>3
  <2> QED BY <2>4, <2>5, <2>7, <2>8, <2>9 DEF OnCourse
<1>7. CASE SaveCheckpoint
  <2>1. /\ pc = "checkpoint" /\ pc' \in {"decide", "ended"} /\ InCycle /\ InCycle'
        /\ UNCHANGED <<calls, stored, state, events>>
    BY <1>7 DEF SaveCheckpoint, InCycle
  <2>2. ~Waking /\ ~Waking'
    BY <2>1 DEF Waking, DayInvariant, PlaceInDay
  <2> QED BY <2>1, <2>2 DEF DiligenceInvariant, OnCourse, Fed
<1>8. CASE BeginCycle
  <2>1. /\ pc' = "decide" /\ InCycle' /\ ~InCycle
        /\ state' = BeginDay(state) /\ events' = 1 /\ calls' = calls
    BY <1>8 DEF BeginCycle, InCycle
  <2>2. /\ state'.phases_visited = <<>> /\ state'.energy = state.energy
        /\ state'.llm_calls = 0
    BY <1>0, <2>1 DEF BeginDay, CircadianState
  <2>3. \A q : ~Visited(state', q)
    BY <2>2, NothingVisited
  <2>4. Morning(state)
    BY <2>1 DEF DiligenceInvariant
  <2>5. Diligent(state')
    BY <2>2, <2>3 DEF Diligent, Only, Follows
  <2>6. Strong(state')
    <3>1. Spent(state') = 0
      BY <2>3 DEF Spent
    <3> QED BY <2>2, <2>3, <2>4, <3>1 DEF Strong, Morning, Level
  <2>7. Waking' /\ Level(state', "MEMORY_PRESSURE") <= 200
    BY <2>2, <2>4 DEF Waking, Morning, Level
  <2>8. pc' # "forced" /\ state'.llm_calls <= calls'
    BY <1>0, <2>1, <2>2
  <2> QED BY <2>1, <2>5, <2>6, <2>7, <2>8 DEF DiligenceInvariant, OnCourse
<1>9. CASE EndCycle
  <2>1. ~InCycle' /\ state' = EndDay(state) /\ saved_state' = state'
    BY <1>9 DEF EndCycle, InCycle
  <2> QED BY <1>0, <2>1, NightPrepares DEF DiligenceInvariant
<1>10. CASE ShutdownSaveState
  BY <1>10 DEF ShutdownSaveState, DiligenceInvariant, InCycle
<1>11. CASE ShutdownSaveCheckpoint
  BY <1>11, FreshMorning DEF ShutdownSaveCheckpoint, Vanish, DiligenceInvariant, InCycle
<1>12. CASE (\E n \in CyclesRequested : Boot(n)) \/ BootSingle
  BY <1>12 DEF Boot, BootSingle, DiligenceInvariant, InCycle, disk
<1>13. CASE StopCommand
  <2>1. /\ InCycle' <=> InCycle
        /\ UNCHANGED <<pc, state, stored, events, calls>>
        /\ saved_state' = FreshState
    BY <1>13 DEF StopCommand, InCycle
  <2>2. OnCourse => OnCourse'
    BY <2>1 DEF OnCourse, Waking, Fed
  <2> QED BY <2>1, <2>2, FreshMorning DEF DiligenceInvariant
<1>14. CASE LeaveLoop \/ SaveLastCheckpoint
  BY <1>14 DEF LeaveLoop, SaveLastCheckpoint, DiligenceInvariant, InCycle, disk
<1>15. CASE Raise \/ Kill
  <2>1. faults < 0 /\ faults \in 0 .. 0
    BY <1>15 DEF Raise, Kill, TypeOK, UndisturbedLife
  <2> QED BY <2>1
<1>16. CASE RequestStop \/ UNCHANGED vars
  <2>1. /\ InCycle' <=> InCycle
        /\ UNCHANGED <<pc, state, stored, events, calls, saved_state>>
    BY <1>16 DEF RequestStop, vars, InCycle, disk
  <2>2. OnCourse => OnCourse'
    BY <2>1 DEF OnCourse, Waking, Fed
  <2> QED BY <2>1, <2>2 DEF DiligenceInvariant
<1> QED
  BY <1>1, <1>2, <1>3, <1>4, <1>5, <1>6, <1>7, <1>8, <1>9, <1>10, <1>11, <1>12, <1>13, <1>14,
     <1>15, <1>16 DEF Next, Step

\* In a life without kills or uncaught exceptions in which AWAKENING never fails, with
\* thresholds a night can meet, every cycle that ends with calls left has focused, then
\* created, then judged: whatever is observed, found, scored and published, whichever
\* other phases fail, and however often the day before starved a gauge.
THEOREM EveryDayIsProductive ==
  ASSUME UndisturbedLife, MeetableThresholds
  PROVE  Spec => []DayIsProductive
<1>1. Init => DiligenceInvariant
  BY FreshMorning DEF Init, DiligenceInvariant, InCycle
<1>2. TypeOK /\ DayInvariant /\ DiligenceInvariant => DayIsProductive
  <2> SUFFICES ASSUME TypeOK, DayInvariant, DiligenceInvariant, pc = "ended", calls < MaxLlmCalls
               PROVE  RanBefore("FOCUS", "CREATION") /\ RanBefore("CREATION", "REFLECTION")
    BY DEF DayIsProductive
  <2>1. /\ Diligent(state) /\ state.phases_visited # <<>>
        /\ state.phase = "DEEP_SLEEP" /\ state.phase = LastPhase(state)
        /\ state.phases_visited \in Seq(Phases)
    BY DEF DiligenceInvariant, OnCourse, InCycle, DayInvariant, PlaceInDay, SoundDay, TypeOK,
           CircadianState
  <2>2. Len(state.phases_visited) \in 1 .. Len(state.phases_visited)
        /\ state.phases_visited[Len(state.phases_visited)] = "DEEP_SLEEP"
    BY <2>1 DEF LastPhase
  <2>3. Visited(state, "REFLECTION")
    BY <2>1, <2>2 DEF Diligent, Only, Preparing
  <2>4. RanBefore("CREATION", "REFLECTION")
    BY <2>1, <2>3 DEF Diligent, Follows, Visited, RanBefore
  <2>5. Visited(state, "CREATION")
    BY <2>4 DEF RanBefore, Visited
  <2>6. RanBefore("FOCUS", "CREATION")
    BY <2>1, <2>5 DEF Diligent, Follows, Visited, RanBefore
  <2> QED BY <2>4, <2>6
<1> QED BY <1>1, <1>2, DiligenceStep, TypeCorrect, DayInvariantHolds, PTL DEF Spec

=============================================================================
