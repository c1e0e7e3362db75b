------------------------------ MODULE Society ------------------------------
(***************************************************************************)
(* How an idea becomes a number, and who wins: the critics                 *)
(* (application/use_cases/evaluating.py, agents/base.py, society.py), the  *)
(* scoreboard (value_objects/scores.py, policies/scoring.py), the          *)
(* elimination rounds (services/tournament_service.py, composition/        *)
(* config.py) and the judge (use_cases/competing.py, constitution.py).     *)
(* In Concepts any idea may survive a round; here the scores decide.       *)
(***************************************************************************)
EXTENDS FiniteSetsExt, Integers, Lists, SequencesExt

CONSTANTS
  Ideas,          \* 1 .. n, in the order the repository lists them
  Texts,          \* what is measured of each idea's text
  Twins,          \* pairs of ideas whose texts are too similar
  Critics,        \* the live critics, in the order they are heard
  Replies,        \* what each critic's model may come back with
  Novelties,      \* what the novelty of an idea may measure
  Weights,        \* of the criteria
  Funnel,         \* widths of the rounds, as configured
  TargetConcepts, \* targets.concepts: what the funnel is scaled to
  Grain,          \* ticks in a point: the precision scores are rounded to
  MaxPasses,      \* bound: batches evaluated
  MaxFaults       \* bound: phases abandoned

Nobody == 0

-----------------------------------------------------------------------------
(* Scores.  All are kept in ticks, and rounded to one. *)

Criteria ==
  {"originality", "narrative_potential", "depth", "plausibility", "emotional_impact",
   "commercial_potential", "authorial_identity", "expandability", "audiovisual_potential"}

Points(n) == n * Grain

Scores == 0 .. Points(100)

\* total / n to the nearest tick.
Mean(total, n) == (2 * total + n) \div (2 * n)

\* A board holds the criteria measured so far.
IsBoard(board) == DOMAIN board \subseteq Criteria /\ board \in [DOMAIN board -> Scores]

EmptyBoard == [criterion \in {} |-> 0]

Get(board, criterion) == IF criterion \in DOMAIN board THEN board[criterion] ELSE 0

\* What both measured is averaged.
Merge(board, other) ==
  [criterion \in DOMAIN board \cup DOMAIN other |->
     IF criterion \in DOMAIN board \cap DOMAIN other
     THEN Mean(board[criterion] + other[criterion], 2)
     ELSE Get(board, criterion) + Get(other, criterion)]

\* Of a board, or of the weights.
SumOver(board) ==
  Get(board, "originality") + Get(board, "narrative_potential") + Get(board, "depth")
    + Get(board, "plausibility") + Get(board, "emotional_impact")
    + Get(board, "commercial_potential") + Get(board, "authorial_identity")
    + Get(board, "expandability") + Get(board, "audiovisual_potential")

WeightedTotal(board) ==
  Mean(SumOver([criterion \in Criteria |-> Get(board, criterion) * Weights[criterion]]),
       SumOver(Weights))

\* The scoring policy refuses weights that sum to nothing or sell out.
ASSUME WeightsAssumption ==
  /\ Weights \in [Criteria -> Nat] /\ SumOver(Weights) > 0
  /\ 100 * Weights["commercial_potential"] <= 25 * SumOver(Weights)

-----------------------------------------------------------------------------
(* The critics. *)

CRITIC_AGENTS ==
  <<"PEDRO_DNA_AGENT", "ANTI_CLICHE_AGENT", "NOVELTY_AGENT", "REALITY_ANCHOR_AGENT",
    "BRAZILIAN_REALITY_AGENT", "HUMAN_DRAMA_AGENT", "ELEGANCE_AGENT", "MARKET_AGENT",
    "RED_TEAM_AGENT", "BLUE_TEAM_AGENT">>

ASSUME CriticsAssumption ==
  \E live \in SUBSET ToSet(CRITIC_AGENTS) : Critics = Among(CRITIC_AGENTS, live)

\* A critic's run ends with a critique, or without one: the prompt or the model
\* fails, the answer has no data, or the data does not fit the schema.
Outcomes == {"valid", "raised", "empty", "malformed"}

ASSUME RepliesAssumption ==
  /\ DOMAIN Replies = 1 .. Len(Critics)
  /\ \A n \in 1 .. Len(Critics) : \A reply \in Replies[n] :
       reply.kind \in Outcomes /\ (reply.kind = "valid" => IsBoard(reply.scores))

\* The fallback: an opinion like any other, without scores.
Unavailable ==
  [kind |-> "valid", verdict |-> "NEUTRAL", confidence |-> 0, scores |-> EmptyBoard]

\* A verdict nobody defined is a neutral one.
Verdict(raw) == IF raw \in {"SUPPORT", "REJECT", "NEUTRAL", "ABSTAIN"} THEN raw ELSE "NEUTRAL"

IsBlocking(critique) == Verdict(critique.verdict) = "REJECT" /\ critique.confidence >= 70

Unmet == [calls |-> 0, failures |-> 0, schema_violations |-> 0, empty_outputs |-> 0]

Count(yes) == IF yes THEN 1 ELSE 0

\* Agent.run: a malformed answer is no failure.
AfterRun(health, outcome) ==
  [calls |-> health.calls + 1,
   failures |-> health.failures + Count(outcome \in {"raised", "empty"}),
   schema_violations |-> health.schema_violations + Count(outcome = "malformed"),
   empty_outputs |-> health.empty_outputs + Count(outcome = "empty")]

\* Variant for mutation runs: three malformed answers are not enough.
IsUnhealthyLate(health) ==
  /\ health.calls >= 3
  /\ \/ 2 * health.failures > health.calls
     \/ health.schema_violations > 3
     \/ health.empty_outputs > 3

IsUnhealthy(health) ==
  /\ health.calls >= 3
  /\ \/ 2 * health.failures > health.calls
     \/ health.schema_violations >= 3
     \/ health.empty_outputs >= 3

-----------------------------------------------------------------------------
(* Ideas, as far as they are judged. *)

\* What is measured of a text is a score, in whole points; ideas are numbered.
ASSUME IdeasAssumption ==
  /\ IsFiniteSet(Ideas) /\ Ideas \subseteq Nat \ {Nobody}
  /\ Texts \in [Ideas -> [intended : 0 .. 100, measured : 0 .. 100, question : BOOLEAN]]
  /\ Novelties \subseteq 0 .. 100 /\ Grain \in Nat \ {0}

\* The opinions on an idea accumulate; only how they add up is kept.
IsIdea(idea) ==
  /\ idea \in [board : {idea.board}, novelty : Scores, distance : Scores, total : Scores,
               mutation_potential : Scores, support : 0 .. idea.voting, voting : Nat,
               blocks : Nat, opinions : Nat]
  /\ IsBoard(idea.board)

Newborn(i) ==
  [board |-> EmptyBoard, novelty |-> Points(50), distance |-> Points(Texts[i].intended),
   total |-> 0, mutation_potential |-> Points(50),
   support |-> 0, voting |-> 0, blocks |-> 0, opinions |-> 0]

\* The distance measured pulls the one on record, by measurement_weight.
Reconciled(distance, measured) == Mean(65 * distance + 35 * measured, 100)

\* Variant for mutation runs: only the latest verdicts count.
MeasuredAfresh(idea, i, novelty) ==
  [idea EXCEPT !.novelty = Points(novelty), !.blocks = 0,
               !.distance = Reconciled(@, Points(Texts[i].measured))]

\* EvaluateNovelty, CalculateCreativeDistance.
AfterMeasures(idea, i, novelty) ==
  [idea EXCEPT !.novelty = Points(novelty),
               !.distance = Reconciled(@, Points(Texts[i].measured))]

AddOpinion(idea, critique) ==
  [idea EXCEPT !.board = Merge(@, critique.scores),
               !.support = @ + Count(Verdict(critique.verdict) = "SUPPORT"),
               !.voting = @ + Count(Verdict(critique.verdict) # "ABSTAIN"),
               !.blocks = @ + Count(IsBlocking(critique)),
               !.opinions = @ + 1]

\* What nobody scored gets the mean of what was; originality meets the novelty
\* measured.  Without any score the board stays empty.
FillMissing(idea) ==
  LET measured == DOMAIN idea.board
      neutral == Mean(SumOver(idea.board), Cardinality(measured))
      filled == [criterion \in Criteria |->
                   IF criterion \in measured THEN idea.board[criterion] ELSE neutral]
  IN  IF measured = {} THEN idea
      ELSE [idea EXCEPT !.board =
              [filled EXCEPT !["originality"] = Mean(@ + idea.novelty, 2)]]

BlockedCeiling == Points(45)

TotalFor(idea) ==
  LET total == WeightedTotal(idea.board)
  IN  IF idea.blocks > 0 THEN Min({total, BlockedCeiling}) ELSE total

\* How far from unanimous, of scale: 0 if all or nobody support.
Disagreement(idea, scale) ==
  IF idea.voting = 0 THEN 0
  ELSE scale - Mean(scale * Max({2 * idea.support - idea.voting,
                                 idea.voting - 2 * idea.support}), idea.voting)

MutationPotential(idea) ==
  Min({Points(100), Points(30) + Mean(12 * Max({0, idea.novelty - idea.total}), 10)
                      + Disagreement(idea, Points(20))})

Concluded(idea) ==
  LET filled == FillMissing(idea)
      scored == [filled EXCEPT !.total = TotalFor(filled)]
  IN  [scored EXCEPT !.mutation_potential = MutationPotential(scored)]

-----------------------------------------------------------------------------
(* The rounds. *)

NearCopy(idea) == idea.distance < Points(12)

Disqualifies(idea) == Get(idea.board, "originality") < Points(35) \/ NearCopy(idea)

\* A funnel has rounds, and a round keeps somebody.
ASSUME FunnelAssumption ==
  /\ Funnel \in Seq(Nat \ {0}) /\ TargetConcepts \in Nat
  /\ MaxPasses \in Nat /\ MaxFaults \in Nat

\* _scale_funnel: a round but the last is narrower than what enters it.
Scaled(n, previous) ==
  LET width == Min({Funnel[n], previous})
  IN  IF width = previous /\ n < Len(Funnel) THEN Max({1, previous - 1}) ELSE width

Widths ==
  LET widths[n \in 0 .. Len(Funnel)] ==
        IF n = 0 THEN Max({1, TargetConcepts}) ELSE Scaled(n, widths[n - 1])
  IN  [n \in 1 .. Len(Funnel) |-> widths[n]]

\* _sort_key: total, then novelty, then support; ties keep the order of the list.
Ratio(x, y) == x.support * Max({1, y.voting})

Outranks(x, y) ==
  \/ x.total > y.total
  \/ x.total = y.total /\ x.novelty > y.novelty
  \/ x.total = y.total /\ x.novelty = y.novelty /\ Ratio(x, y) > Ratio(y, x)

Before(record, i, j) ==
  Outranks(record[i], record[j]) \/ (i < j /\ ~Outranks(record[j], record[i]))

Ranked(record, pool) ==
  InOrder(pool, {pair \in pool \X pool : Before(record, pair[1], pair[2])})

Similar(i, j) == {i, j} \in Twins

\* Variant for mutation runs: a slot is filled whoever sits next to it.
AdmitTwins(record, kept, i, keep) ==
  IF Disqualifies(record[i]) \/ Cardinality(kept) >= keep THEN kept ELSE kept \cup {i}

Admit(record, kept, i, keep) ==
  IF \/ Disqualifies(record[i])
     \/ Cardinality(kept) >= keep
     \/ \E j \in kept : Similar(i, j)
  THEN kept ELSE kept \cup {i}

\* The ranking is walked from the top.
Admitted(record, ranking, keep) ==
  LET kept[n \in 0 .. Len(ranking)] ==
        IF n = 0 THEN {} ELSE Admit(record, kept[n - 1], ranking[n], keep)
  IN  kept[Len(ranking)]

\* select(): a round never comes back empty.
Select(record, pool, width) ==
  LET ranking == Ranked(record, pool)
      kept == Admitted(record, ranking, Max({1, Min({width, Cardinality(pool)})}))
  IN  IF kept = {} THEN {Head(ranking)} ELSE kept

\* ConstitutionPolicy: the articles an idea breaks.
Violations(idea, i) ==
  {article \in {3, 4, 6, 9, 14} :
     CASE article = 3 -> NearCopy(idea)
       [] article = 4 -> Get(idea.board, "depth") < Points(30)
       [] article = 6 -> Get(idea.board, "emotional_impact") < Points(30)
       [] article = 9 -> ~Texts[i].question
       [] article = 14 -> idea.opinions = 0}

-----------------------------------------------------------------------------
(* The phases. *)

VARIABLES
  pc,        \* what the orchestrator is doing
  reflecting,\* is the batch evaluated for a tournament?
  todo,      \* ideas the loop at hand has still to visit
  subject,   \* the idea before the critics
  mind,      \* that idea as it is in memory
  turn,      \* which critic is heard next
  field,     \* ideas left in the tournament
  round,     \* rounds held
  last,      \* the last round: who entered, how many it kept, who survived
  champion,  \* the idea the judge approved
  stored,    \* every idea as it was last saved
  alive,     \* ideas that may compete
  gone,      \* ideas that no longer do
  health,    \* of every critic
  passes, faults \* bounds only

session == <<subject, mind, turn>>
tournament == <<field, round, last, champion>>
people == <<alive, gone>>
vars == <<pc, reflecting, todo, session, tournament, stored, people, health, passes, faults>>

NoRound == [pool |-> {}, width |-> 0, kept |-> {}]

Init ==
  /\ pc = "idle" /\ reflecting = FALSE /\ todo = {}
  /\ subject = Nobody /\ mind = Nobody /\ turn = 0
  /\ field = {} /\ round = 0 /\ last = NoRound /\ champion = Nobody
  /\ stored = [i \in Ideas |-> Newborn(i)]
  /\ alive = {} /\ gone = {}
  /\ health = [n \in 1 .. Len(Critics) |-> Unmet]
  /\ passes = 0 /\ faults = 0

Unborn == Ideas \ (alive \cup gone)

\* CREATION builds ideas nobody evaluates yet.
Create ==
  /\ pc = "idle"
  /\ \E born \in SUBSET Unborn : born # {} /\ alive' = alive \cup born
  /\ UNCHANGED <<pc, reflecting, todo, session, tournament, stored, gone, health>>
  /\ UNCHANGED <<passes, faults>>

TakeUp(batch) ==
  /\ pc = "idle" /\ passes < MaxPasses
  /\ pc' = "evaluating" /\ todo' = batch /\ passes' = passes + 1
  /\ field' = {} /\ round' = 0 /\ last' = NoRound /\ champion' = Nobody
  /\ UNCHANGED <<session, stored, gone, health, faults>>

\* EXPLORATION and SECOND_WIND evaluate the ideas they have just made.
Explore ==
  \E born \in SUBSET Unborn :
    /\ born # {} /\ TakeUp(born)
    /\ alive' = alive \cup born /\ reflecting' = FALSE

\* REFLECTION evaluates everything that competes, again if need be.
Reflect ==
  alive # {} /\ TakeUp(alive) /\ reflecting' = TRUE /\ UNCHANGED alive

\* The next idea is measured and comes before the critics.
Begin ==
  /\ pc = "evaluating" /\ subject = Nobody /\ todo # {}
  /\ subject' = Min(todo) /\ turn' = 1
  /\ \E novelty \in Novelties : mind' = AfterMeasures(stored[subject'], subject', novelty)
  /\ UNCHANGED <<pc, reflecting, todo, tournament, stored, people, health, passes, faults>>

\* A critic is heard; one that fails is replaced by its fallback.
Hear ==
  /\ subject # Nobody /\ turn <= Len(Critics)
  /\ \E reply \in Replies[turn] :
       LET critique == IF reply.kind = "valid" THEN reply ELSE Unavailable
       IN  /\ health' = [health EXCEPT ![turn] = AfterRun(@, reply.kind)]
           /\ mind' = AddOpinion(mind, critique)
  /\ turn' = turn + 1
  /\ UNCHANGED <<pc, reflecting, todo, subject, tournament, stored, people, passes, faults>>

\* The session closes: missing criteria, total, potential, save.
Conclude ==
  /\ subject # Nobody /\ turn > Len(Critics)
  /\ stored' = [stored EXCEPT ![subject] = Concluded(mind)]
  /\ todo' = todo \ {subject}
  /\ subject' = Nobody /\ mind' = Nobody /\ turn' = 0
  /\ UNCHANGED <<pc, reflecting, tournament, people, health, passes, faults>>

EndPass ==
  /\ pc = "evaluating" /\ subject = Nobody /\ todo = {}
  /\ pc' = IF reflecting THEN "funnel" ELSE "idle"
  /\ field' = IF reflecting THEN alive ELSE {}
  /\ UNCHANGED <<reflecting, todo, session, round, last, champion, stored, people, health>>
  /\ UNCHANGED <<passes, faults>>

\* One round; the losers are rejected.
Round ==
  /\ pc = "funnel" /\ round < Len(Funnel)
  /\ round' = round + 1
  /\ field' = Select(stored, field, Widths[round'])
  /\ last' = [pool |-> field, width |-> Widths[round'], kept |-> field']
  /\ alive' = alive \ (field \ field') /\ gone' = gone \cup (field \ field')
  /\ UNCHANGED <<pc, reflecting, todo, session, champion, stored, health, passes, faults>>

OpenJudging ==
  /\ pc = "funnel" /\ round = Len(Funnel)
  /\ pc' = "judging" /\ todo' = field
  /\ UNCHANGED <<reflecting, session, tournament, stored, people, health, passes, faults>>

\* The best finalist the judge has not seen yet.
Foremost == Head(Ranked(stored, todo))

\* The constitution or the judge -- or the judge's fallback -- turns it down.
Refuse ==
  /\ pc = "judging" /\ todo # {}
  /\ todo' = todo \ {Foremost}
  /\ alive' = alive \ {Foremost} /\ gone' = gone \cup {Foremost}
  /\ UNCHANGED <<pc, reflecting, session, tournament, stored, health, passes, faults>>

\* The winner; the other finalists stay where they are and compete no more.
Approve ==
  /\ pc = "judging" /\ todo # {}
  /\ Violations(stored[Foremost], Foremost) = {}
  /\ champion' = Foremost
  /\ pc' = "idle" /\ todo' = {}
  /\ alive' = alive \ field /\ gone' = gone \cup field
  /\ UNCHANGED <<reflecting, session, field, round, last, stored, health, passes, faults>>

NoWinner ==
  /\ pc = "judging" /\ todo = {}
  /\ pc' = "idle"
  /\ UNCHANGED <<reflecting, todo, session, tournament, stored, people, health>>
  /\ UNCHANGED <<passes, faults>>

\* The phase raises: what was in memory only is lost, what was saved stays.
Abandon ==
  /\ pc # "idle" /\ faults < MaxFaults
  /\ faults' = faults + 1
  /\ pc' = "idle" /\ todo' = {}
  /\ subject' = Nobody /\ mind' = Nobody /\ turn' = 0
  /\ UNCHANGED <<reflecting, tournament, stored, people, health, passes>>

Next ==
  \/ Create \/ Explore \/ Reflect
  \/ Begin \/ Hear \/ Conclude \/ EndPass
  \/ Round \/ OpenJudging \/ Refuse \/ Approve \/ NoWinner
  \/ Abandon

Spec == Init /\ [][Next]_vars

-----------------------------------------------------------------------------
\* Every variable has its type, and scores stay on their scale.
TypeOK ==
  /\ pc \in {"idle", "evaluating", "funnel", "judging"} /\ reflecting \in BOOLEAN
  /\ subject \in Ideas \cup {Nobody} /\ champion \in Ideas \cup {Nobody}
  /\ todo \subseteq alive /\ field \subseteq Ideas
  /\ alive \subseteq Ideas /\ gone \subseteq Ideas \ alive
  /\ turn \in 0 .. Len(Critics) + 1 /\ round \in 0 .. Len(Funnel)
  /\ DOMAIN stored = Ideas /\ \A i \in Ideas : IsIdea(stored[i])
  /\ subject # Nobody => IsIdea(mind)
  /\ passes \in 0 .. MaxPasses /\ faults \in 0 .. MaxFaults

=============================================================================
