----------------------------- MODULE AgentProofs -----------------------------
(***************************************************************************)
(* Theorems about the agents and the provider that answers them.           *)
(*                                                                         *)
(* Of the critics' sessions and of the rounds, for any ideas, critics,     *)
(* replies, weights and funnel: a critic that never answers is reported    *)
(* unhealthy, scores stay on their scale, a confident rejection caps an    *)
(* idea for good, and every round keeps the ideas it should.               *)
(*                                                                         *)
(* Of the guards around the provider, for every configuration of them,     *)
(* every latency, every late waking and any number of requests: the budget *)
(* holds, the limiter's window is respected, a provider that is down is    *)
(* spared and one that works is not refused, and a request is answered in  *)
(* time.                                                                   *)
(***************************************************************************)
EXTENDS SocietyProperties, RouterProperties, ListProofs

-----------------------------------------------------------------------------
(* The critics. *)

Healths == [calls : Nat, failures : Nat, schema_violations : Nat, empty_outputs : Nat]

\* Nobody has attacked an idea before a session begins with it.
HealthInv == health \in [1 .. Len(Critics) -> Healths]

LEMMA HealthIsCounted ==
  ASSUME NEW h \in Healths, NEW outcome
  PROVE  AfterRun(h, outcome) \in Healths
BY DEF AfterRun, Healths, Count

\* The counters of every critic's health are counters.
LEMMA HealthsAreKept == Spec => []HealthInv
<1>1. Init => HealthInv
  BY DEF Init, HealthInv, Unmet, Healths
<1>2. HealthInv /\ [Next]_vars => HealthInv'
  <2> SUFFICES ASSUME HealthInv, [Next]_vars PROVE HealthInv'
    OBVIOUS
  <2>1. CASE Hear
    <3>1. turn \in DOMAIN health =>
            \E outcome : health' = [health EXCEPT ![turn] = AfterRun(health[turn], outcome)]
      BY <2>1 DEF Hear
    <3>2. turn \notin DOMAIN health => health' = health
      BY <2>1 DEF Hear, HealthInv
    <3> QED BY <3>1, <3>2, HealthIsCounted DEF HealthInv
  <2>2. CASE UNCHANGED health
    BY <2>2 DEF HealthInv
  <2>3. Hear \/ UNCHANGED health
    BY DEF Next, vars, Create, Explore, Reflect, TakeUp, Begin, Conclude, EndPass, Round,
           OpenJudging, Refuse, Approve, NoWinner, Abandon
  <2> QED BY <2>1, <2>2, <2>3
<1> QED BY <1>1, <1>2, PTL DEF Spec

\* A critic that was asked five times and never gave a valid answer is reported
\* unhealthy, however its failures spread over the counters (agents/base.py:
\* AgentHealth.is_unhealthy).
THEOREM SilenceIsNoticed == Spec => []SilentCriticsAreNoticed
<1>1. HealthInv => SilentCriticsAreNoticed
  <2> SUFFICES ASSUME HealthInv, NEW n \in 1 .. Len(Critics),
                      health[n].calls >= 5,
                      health[n].calls = health[n].failures + health[n].schema_violations
               PROVE  IsUnhealthy(health[n])
    BY DEF SilentCriticsAreNoticed
  <2>1. health[n].failures \in Nat /\ health[n].schema_violations \in Nat
    BY DEF HealthInv, Healths
  <2> QED BY SMTT(30), <2>1 DEF IsUnhealthy
<1> QED BY <1>1, HealthsAreKept, PTL

-----------------------------------------------------------------------------
(* Numbers. *)

\* A mean of shares of at most top is at most top.
LEMMA MeanIsBetween ==
  ASSUME NEW top \in Nat, NEW n \in Nat \ {0}, NEW total \in Nat, total <= top * n
  PROVE  Mean(total, n) \in 0 .. top
<1> DEFINE a == 2 * total + n
           d == 2 * n
<1>1. a \in Nat /\ d \in Nat /\ d > 0
  OBVIOUS
<1>2. a < d * (top + 1)
  <2>1. d * (top + 1) = 2 * (top * n) + 2 * n
    BY SMTT(30)
  <2>2. top * n \in Nat
    OBVIOUS
  <2>3. \A p \in Nat : total <= p => 2 * total + n < 2 * p + 2 * n
    OBVIOUS
  <2> QED BY <2>1, <2>2, <2>3
<1> HIDE DEF a, d
<1>3. a \div d \in Nat /\ d * (a \div d) <= a
  BY <1>1, SMTT(30)
<1>4. a \div d <= top
  <2> SUFFICES ASSUME a \div d >= top + 1 PROVE FALSE
    BY <1>3
  <2>1. d * (a \div d) >= d * (top + 1)
    BY <1>1, <1>3, SMTT(30)
  <2> QED BY <1>1, <1>2, <1>3, <2>1, SMTT(30)
<1> QED BY <1>3, <1>4 DEF Mean, a, d

LEMMA LeastOfTwo ==
  \A x, y \in Int : /\ Min({x, y}) \in {x, y} /\ Min({x, y}) <= x /\ Min({x, y}) <= y
                    /\ Max({x, y}) \in {x, y} /\ Max({x, y}) >= x /\ Max({x, y}) >= y
<1> TAKE x, y \in Int
<1>1. \E m \in {x, y} : m <= x /\ m <= y
  OBVIOUS
<1>2. \E m \in {x, y} : m >= x /\ m >= y
  OBVIOUS
<1>3. Min({x, y}) = CHOOSE m \in {x, y} : \A k \in {x, y} : m <= k
  BY DEF Min
<1>4. Max({x, y}) = CHOOSE m \in {x, y} : \A k \in {x, y} : m >= k
  BY DEF Max
<1>5. Min({x, y}) \in {x, y} /\ \A k \in {x, y} : Min({x, y}) <= k
  BY <1>1, <1>3
<1>6. Max({x, y}) \in {x, y} /\ \A k \in {x, y} : Max({x, y}) >= k
  BY <1>2, <1>4
<1> QED BY <1>5, <1>6

-----------------------------------------------------------------------------
(* Scores and boards. *)

Top == Points(100)

LEMMA TheScale == Top \in Nat /\ Scores = 0 .. Top
  BY IdeasAssumption DEF Top, Points, Scores

LEMMA MeansAreScores ==
  ASSUME NEW n \in Nat \ {0}, NEW total \in Nat, total <= Top * n
  PROVE  Mean(total, n) \in Scores
BY TheScale, MeanIsBetween

LEMMA PairsMeet ==
  ASSUME NEW x \in Scores, NEW y \in Scores PROVE Mean(x + y, 2) \in Scores
<1>1. x + y \in Nat /\ x + y <= Top * 2
  BY TheScale
<1> QED BY <1>1, MeansAreScores

LEMMA GottenIsScore ==
  ASSUME NEW board, IsBoard(board), NEW criterion PROVE Get(board, criterion) \in Scores
BY TheScale DEF IsBoard, Get

LEMMA MergedIsBoard ==
  ASSUME NEW board, IsBoard(board), NEW other, IsBoard(other)
  PROVE  IsBoard(Merge(board, other))
<1> DEFINE both == DOMAIN board \cup DOMAIN other
<1>1. Merge(board, other) = [criterion \in both |->
           IF criterion \in DOMAIN board \cap DOMAIN other
           THEN Mean(board[criterion] + other[criterion], 2)
           ELSE Get(board, criterion) + Get(other, criterion)]
  BY DEF Merge
<1>2. ASSUME NEW criterion \in DOMAIN board \cap DOMAIN other
      PROVE  Mean(board[criterion] + other[criterion], 2) \in Scores
  BY PairsMeet DEF IsBoard
<1>3. ASSUME NEW criterion \in both, criterion \notin DOMAIN board \cap DOMAIN other
      PROVE  Get(board, criterion) + Get(other, criterion) \in Scores
  <2>1. Get(board, criterion) = 0 \/ Get(other, criterion) = 0
    BY <1>3 DEF Get
  <2> QED BY <2>1, GottenIsScore, TheScale
<1>4. both \subseteq Criteria
  BY DEF IsBoard
<1> HIDE DEF both
<1> QED BY <1>1, <1>2, <1>3, <1>4 DEF IsBoard

-----------------------------------------------------------------------------
(* Ideas. *)

\* The parts of an idea that is one.
LEMMA PartsOfAnIdea ==
  ASSUME NEW idea, IsIdea(idea)
  PROVE  /\ IsBoard(idea.board) /\ idea.novelty \in Scores /\ idea.distance \in Scores
         /\ idea.total \in Scores /\ idea.mutation_potential \in Scores
         /\ idea.support \in Nat /\ idea.voting \in Nat /\ idea.support <= idea.voting
         /\ idea.blocks \in Nat /\ idea.opinions \in Nat
<1>1. /\ idea.novelty \in Scores /\ idea.distance \in Scores
      /\ idea.total \in Scores /\ idea.mutation_potential \in Scores
      /\ idea.support \in 0 .. idea.voting /\ idea.voting \in Nat
      /\ idea.blocks \in Nat /\ idea.opinions \in Nat
  BY DEF IsIdea
<1> QED BY <1>1 DEF IsIdea

LEMMA TextsAreScored ==
  ASSUME NEW i \in Ideas
  PROVE  /\ Points(Texts[i].intended) \in Scores /\ Points(Texts[i].measured) \in Scores
         /\ Points(50) \in Scores /\ 0 \in Scores /\ IsBoard(EmptyBoard)
         /\ \A novelty \in Novelties : Points(novelty) \in Scores
<1>1. \A n \in 0 .. 100 : Points(n) \in Scores
  BY IdeasAssumption, SMTT(30) DEF Points, Scores
<1>2. Texts[i].intended \in 0 .. 100 /\ Texts[i].measured \in 0 .. 100
  BY IdeasAssumption
<1>3. IsBoard(EmptyBoard)
  BY DEF IsBoard, EmptyBoard
<1>4. 0 \in Scores
  BY TheScale
<1>5. \A novelty \in Novelties : Points(novelty) \in Scores
  <2>1. Novelties \subseteq 0 .. 100
    BY IdeasAssumption
  <2> QED BY <1>1, <2>1
<1>6. Points(Texts[i].intended) \in Scores /\ Points(Texts[i].measured) \in Scores
  BY <1>1, <1>2
<1>7. Points(50) \in Scores
  BY <1>1
<1> QED BY <1>3, <1>4, <1>5, <1>6, <1>7

LEMMA NewbornIsIdea == ASSUME NEW i \in Ideas PROVE IsIdea(Newborn(i))
BY TextsAreScored DEF IsIdea, Newborn

LEMMA MeasuredIsIdea ==
  ASSUME NEW idea, IsIdea(idea), NEW i \in Ideas, NEW novelty \in Novelties
  PROVE  /\ IsIdea(AfterMeasures(idea, i, novelty))
         /\ AfterMeasures(idea, i, novelty).blocks = idea.blocks
<1> DEFINE d == Points(Texts[i].measured)
           r == Reconciled(idea.distance, d)
<1>1. d \in Scores /\ Points(novelty) \in Scores /\ idea.distance \in Scores
  BY TextsAreScored, PartsOfAnIdea
<1>2. r \in Scores
  <2> HIDE DEF d
  <2>1. 65 * idea.distance + 35 * d \in Nat /\ 65 * idea.distance + 35 * d <= Top * 100
    BY <1>1, TheScale
  <2> QED BY <2>1, MeansAreScores DEF Reconciled
<1>3. AfterMeasures(idea, i, novelty) = [idea EXCEPT !.novelty = Points(novelty), !.distance = r]
  BY DEF AfterMeasures
<1> HIDE DEF r
<1> QED BY <1>1, <1>2, <1>3 DEF IsIdea

\* Opinions keep the scale and take back no rejection.
LEMMA OpinionKeepsIdea ==
  ASSUME NEW idea, IsIdea(idea), NEW critique, IsBoard(critique.scores)
  PROVE  IsIdea(AddOpinion(idea, critique)) /\ AddOpinion(idea, critique).blocks >= idea.blocks
<1> DEFINE b == Merge(idea.board, critique.scores)
           s == idea.support + Count(Verdict(critique.verdict) = "SUPPORT")
           v == idea.voting + Count(Verdict(critique.verdict) # "ABSTAIN")
           k == idea.blocks + Count(IsBlocking(critique))
<1>1. IsBoard(b)
  BY PartsOfAnIdea, MergedIsBoard
<1>2. s \in Nat /\ v \in Nat /\ s <= v
  <2>1. Count(Verdict(critique.verdict) = "SUPPORT") <= Count(Verdict(critique.verdict) # "ABSTAIN")
    BY DEF Count
  <2>2. Count(Verdict(critique.verdict) = "SUPPORT") \in Nat /\ Count(Verdict(critique.verdict) # "ABSTAIN") \in Nat
    BY DEF Count
  <2>3. idea.support \in Nat /\ idea.voting \in Nat /\ idea.support <= idea.voting
    BY PartsOfAnIdea
  <2>4. \A a, c, x, y \in Nat : a <= c /\ x <= y => a + x <= c + y
    OBVIOUS
  <2> QED BY <2>1, <2>2, <2>3, <2>4
<1>3. k \in Nat /\ k >= idea.blocks
  BY PartsOfAnIdea DEF Count
<1>4. AddOpinion(idea, critique) =
        [idea EXCEPT !.board = b, !.support = s, !.voting = v, !.blocks = k, !.opinions = @ + 1]
  BY DEF AddOpinion
<1> HIDE DEF b, s, v, k
<1>5. idea.opinions + 1 \in Nat /\ s \in 0 .. v
  BY <1>2, PartsOfAnIdea
<1>6. AddOpinion(idea, critique) \in
        [board : {b}, novelty : Scores, distance : Scores, total : Scores,
         mutation_potential : Scores, support : 0 .. v, voting : Nat, blocks : Nat,
         opinions : Nat]
  BY <1>2, <1>3, <1>4, <1>5 DEF IsIdea
<1>7. /\ AddOpinion(idea, critique).board = b /\ AddOpinion(idea, critique).voting = v
      /\ AddOpinion(idea, critique).blocks = k
  BY <1>4 DEF IsIdea
<1> QED BY <1>1, <1>3, <1>6, <1>7 DEF IsIdea

-----------------------------------------------------------------------------
(* Sums and totals. *)

\* One criterion more to add up, and to count if it was measured.
LEMMA OneMoreCriterion ==
  ASSUME NEW board, IsBoard(board), NEW S \in SUBSET Criteria, IsFiniteSet(S),
         NEW c \in Criteria, c \notin S, NEW x \in Nat,
         x <= Top * Cardinality(DOMAIN board \cap S)
  PROVE  /\ IsFiniteSet(S \cup {c}) /\ S \cup {c} \in SUBSET Criteria
         /\ x + Get(board, c) \in Nat
         /\ x + Get(board, c) <= Top * Cardinality(DOMAIN board \cap (S \cup {c}))
<1> DEFINE m == DOMAIN board \cap S
           n == Cardinality(m)
<1>1. IsFiniteSet(S \cup {c}) /\ IsFiniteSet(m) /\ n \in Nat
  BY FS_AddElement, FS_Subset, FS_CardinalityType
<1>2. CASE c \in DOMAIN board
  <2>1. DOMAIN board \cap (S \cup {c}) = m \cup {c} /\ c \notin m
    BY <1>2
  <2>2. Cardinality(DOMAIN board \cap (S \cup {c})) = n + 1
    BY <1>1, <2>1, FS_AddElement
  <2>3. Get(board, c) \in 0 .. Top
    BY GottenIsScore, TheScale
  <2>4. Top * (n + 1) = Top * n + Top /\ Top * n \in Nat
    BY <1>1, TheScale, SMTT(30)
  <2>5. \A p, g \in Nat : x <= p /\ g <= Top => x + g <= p + Top
    BY TheScale
  <2> HIDE DEF m, n
  <2>6. x <= Top * n
    BY DEF n, m
  <2> QED BY <1>1, <2>2, <2>3, <2>4, <2>5, <2>6
<1>3. CASE c \notin DOMAIN board
  <2>1. DOMAIN board \cap (S \cup {c}) = m
    BY <1>3
  <2>2. x + Get(board, c) = x
    BY <1>3 DEF Get
  <2> QED BY <1>1, <2>1, <2>2
<1> QED BY <1>1, <1>2, <1>3

LEMMA SumIsBounded ==
  ASSUME NEW board, IsBoard(board)
  PROVE  /\ IsFiniteSet(DOMAIN board) /\ SumOver(board) \in Nat
         /\ SumOver(board) <= Top * Cardinality(DOMAIN board)
<1> DEFINE c1 == "originality"
           c2 == "narrative_potential"
           c3 == "depth"
           c4 == "plausibility"
           c5 == "emotional_impact"
           c6 == "commercial_potential"
           c7 == "authorial_identity"
           c8 == "expandability"
           c9 == "audiovisual_potential"
           S(x, s) == /\ IsFiniteSet(s) /\ s \in SUBSET Criteria /\ x \in Nat
                      /\ x <= Top * Cardinality(DOMAIN board \cap s)
           g1 == Get(board, c1)
           g2 == g1 + Get(board, c2)
           g3 == g2 + Get(board, c3)
           g4 == g3 + Get(board, c4)
           g5 == g4 + Get(board, c5)
           g6 == g5 + Get(board, c6)
           g7 == g6 + Get(board, c7)
           g8 == g7 + Get(board, c8)
           g9 == g8 + Get(board, c9)
<1>0. \A x, s : S(x, s) => \A c \in Criteria \ s : S(x + Get(board, c), s \cup {c})
  BY OneMoreCriterion
<1>1. S(0, {})
  BY FS_EmptySet, TheScale, FS_Subset
<1>c. {c1, c2, c3, c4, c5, c6, c7, c8, c9} = Criteria
  BY DEF Criteria
<1> HIDE DEF S
<1>2. S(0 + g1, {c1})
  <2>1. c1 \in Criteria \ {} /\ {} \cup {c1} = {c1}
    BY <1>c
  <2> QED BY <1>0, <1>1, <2>1
<1>3. S(g1, {c1})
  <2>1. 0 + g1 = g1
    BY GottenIsScore, TheScale
  <2> QED BY <1>2, <2>1
<1>4. S(g2, {c1, c2})
  <2>1. c2 \in Criteria \ {c1} /\ {c1} \cup {c2} = {c1, c2}
    BY <1>c
  <2> QED BY <1>0, <1>3, <2>1
<1>5. S(g3, {c1, c2, c3})
  <2>1. c3 \in Criteria \ {c1, c2} /\ {c1, c2} \cup {c3} = {c1, c2, c3}
    BY <1>c
  <2> QED BY <1>0, <1>4, <2>1
<1>6. S(g4, {c1, c2, c3, c4})
  <2>1. c4 \in Criteria \ {c1, c2, c3} /\ {c1, c2, c3} \cup {c4} = {c1, c2, c3, c4}
    BY <1>c
  <2> QED BY <1>0, <1>5, <2>1
<1>7. S(g5, {c1, c2, c3, c4, c5})
  <2>1. c5 \in Criteria \ {c1, c2, c3, c4} /\ {c1, c2, c3, c4} \cup {c5} = {c1, c2, c3, c4, c5}
    BY <1>c
  <2> QED BY <1>0, <1>6, <2>1
<1>8. S(g6, {c1, c2, c3, c4, c5, c6})
  <2>1. /\ c6 \in Criteria \ {c1, c2, c3, c4, c5}
        /\ {c1, c2, c3, c4, c5} \cup {c6} = {c1, c2, c3, c4, c5, c6}
    BY <1>c
  <2> QED BY <1>0, <1>7, <2>1
<1>9. S(g7, {c1, c2, c3, c4, c5, c6, c7})
  <2>1. /\ c7 \in Criteria \ {c1, c2, c3, c4, c5, c6}
        /\ {c1, c2, c3, c4, c5, c6} \cup {c7} = {c1, c2, c3, c4, c5, c6, c7}
    BY <1>c
  <2> QED BY <1>0, <1>8, <2>1
<1>10. S(g8, {c1, c2, c3, c4, c5, c6, c7, c8})
  <2>1. /\ c8 \in Criteria \ {c1, c2, c3, c4, c5, c6, c7}
        /\ {c1, c2, c3, c4, c5, c6, c7} \cup {c8} = {c1, c2, c3, c4, c5, c6, c7, c8}
    BY <1>c
  <2> QED BY <1>0, <1>9, <2>1
<1>11. S(g9, Criteria)
  <2>1. /\ c9 \in Criteria \ {c1, c2, c3, c4, c5, c6, c7, c8}
        /\ {c1, c2, c3, c4, c5, c6, c7, c8} \cup {c9} = Criteria
    BY <1>c
  <2> QED BY <1>0, <1>10, <2>1
<1>12. g9 = SumOver(board)
  BY DEF SumOver
<1>13. DOMAIN board \cap Criteria = DOMAIN board /\ IsFiniteSet(DOMAIN board)
  BY <1>11, FS_Subset DEF S, IsBoard
<1> HIDE DEF g9
<1> QED BY <1>11, <1>12, <1>13 DEF S

\* Criteria weigh something together, and scores weigh no more than a perfect one.
LEMMA WeightedIsScore == ASSUME NEW board, IsBoard(board) PROVE WeightedTotal(board) \in Scores
<1> DEFINE w == [criterion \in Criteria |-> Get(board, criterion) * Weights[criterion]]
<1>1. \A a \in 0 .. Top, b \in Nat : a * b \in Nat /\ a * b <= Top * b
  BY TheScale, SMTT(30)
<1>2. \A c \in Criteria : w[c] \in Nat /\ w[c] <= Top * Weights[c] /\ Weights[c] \in Nat
  <2> SUFFICES ASSUME NEW c \in Criteria
               PROVE  w[c] \in Nat /\ w[c] <= Top * Weights[c] /\ Weights[c] \in Nat
    OBVIOUS
  <2>1. Get(board, c) \in 0 .. Top /\ Weights[c] \in Nat
    BY GottenIsScore, TheScale, WeightsAssumption
  <2>2. w[c] = Get(board, c) * Weights[c]
    OBVIOUS
  <2> QED BY <1>1, <2>1, <2>2
<1>3. DOMAIN w = Criteria /\ DOMAIN Weights = Criteria
  BY WeightsAssumption
<1> HIDE DEF w
<1>4. /\ SumOver(w) = w["originality"] + w["narrative_potential"] + w["depth"]
            + w["plausibility"] + w["emotional_impact"] + w["commercial_potential"]
            + w["authorial_identity"] + w["expandability"] + w["audiovisual_potential"]
      /\ SumOver(Weights) = Weights["originality"] + Weights["narrative_potential"]
            + Weights["depth"] + Weights["plausibility"] + Weights["emotional_impact"]
            + Weights["commercial_potential"] + Weights["authorial_identity"]
            + Weights["expandability"] + Weights["audiovisual_potential"]
  BY <1>3 DEF SumOver, Get, Criteria
<1> DEFINE H(x, y) == x \in Nat /\ y \in Nat /\ x <= Top * y
           v == Weights
           a2 == w["originality"] + w["narrative_potential"]
           b2 == v["originality"] + v["narrative_potential"]
           a3 == a2 + w["depth"]
           b3 == b2 + v["depth"]
           a4 == a3 + w["plausibility"]
           b4 == b3 + v["plausibility"]
           a5 == a4 + w["emotional_impact"]
           b5 == b4 + v["emotional_impact"]
           a6 == a5 + w["commercial_potential"]
           b6 == b5 + v["commercial_potential"]
           a7 == a6 + w["authorial_identity"]
           b7 == b6 + v["authorial_identity"]
           a8 == a7 + w["expandability"]
           b8 == b7 + v["expandability"]
           a9 == a8 + w["audiovisual_potential"]
           b9 == b8 + v["audiovisual_potential"]
<1>5. \A x, y, z, u : H(x, y) /\ H(z, u) => H(x + z, y + u)
  <2>1. \A y, u \in Nat : Top * (y + u) = Top * y + Top * u /\ Top * y \in Nat /\ Top * u \in Nat
    BY TheScale, SMTT(30)
  <2> QED BY <2>1
<1>a. \A c \in Criteria : H(w[c], v[c])
  BY <1>2
<1> HIDE DEF H
<1>b. H(a2, b2)
  BY <1>5, <1>a DEF Criteria
<1>c. H(a3, b3)
  <2> HIDE DEF a2, b2
  <2> QED BY <1>5, <1>a, <1>b DEF Criteria
<1>d. H(a4, b4)
  <2> HIDE DEF a3, b3
  <2> QED BY <1>5, <1>a, <1>c DEF Criteria
<1>e. H(a5, b5)
  <2> HIDE DEF a4, b4
  <2> QED BY <1>5, <1>a, <1>d DEF Criteria
<1>f. H(a6, b6)
  <2> HIDE DEF a5, b5
  <2> QED BY <1>5, <1>a, <1>e DEF Criteria
<1>g. H(a7, b7)
  <2> HIDE DEF a6, b6
  <2> QED BY <1>5, <1>a, <1>f DEF Criteria
<1>h. H(a8, b8)
  <2> HIDE DEF a7, b7
  <2> QED BY <1>5, <1>a, <1>g DEF Criteria
<1>i. H(a9, b9)
  <2> HIDE DEF a8, b8
  <2> QED BY <1>5, <1>a, <1>h DEF Criteria
<1>6. /\ SumOver(w) \in Nat /\ SumOver(Weights) \in Nat
      /\ SumOver(w) <= Top * SumOver(Weights)
  BY <1>4, <1>i DEF H
<1>7. SumOver(Weights) > 0
  BY WeightsAssumption
<1>8. Mean(SumOver(w), SumOver(Weights)) \in Scores
  BY <1>6, <1>7, MeansAreScores
<1> QED BY <1>8 DEF WeightedTotal, w

LEMMA FilledIsIdea ==
  ASSUME NEW idea, IsIdea(idea)
  PROVE  /\ IsIdea(FillMissing(idea)) /\ FillMissing(idea).blocks = idea.blocks
<1> DEFINE measured == DOMAIN idea.board
           neutral == Mean(SumOver(idea.board), Cardinality(measured))
           filled == [criterion \in Criteria |->
                        IF criterion \in measured THEN idea.board[criterion] ELSE neutral]
           board == [filled EXCEPT !["originality"] = Mean(@ + idea.novelty, 2)]
<1>1. CASE measured = {}
  BY <1>1 DEF FillMissing
<1>2. CASE measured # {}
  <2>0. IsBoard(idea.board) /\ idea.novelty \in Scores
    BY PartsOfAnIdea
  <2>1. Cardinality(measured) \in Nat \ {0}
    BY <1>2, <2>0, SumIsBounded, FS_EmptySet, FS_CardinalityType
  <2>2. neutral \in Scores
    BY <2>0, <2>1, SumIsBounded, MeansAreScores
  <2>3. filled \in [Criteria -> Scores]
    <3> HIDE DEF neutral
    <3> QED BY <2>0, <2>2 DEF IsBoard
  <2>4. IsBoard(board)
    <3> HIDE DEF filled
    <3>1. Mean(filled["originality"] + idea.novelty, 2) \in Scores
      BY <2>0, <2>3, PairsMeet DEF Criteria
    <3> QED BY <2>3, <3>1 DEF IsBoard
  <2>5. FillMissing(idea) = [idea EXCEPT !.board = board]
    BY <1>2 DEF FillMissing
  <2> HIDE DEF board
  <2> QED BY <2>4, <2>5 DEF IsIdea
<1> QED BY <1>1, <1>2

LEMMA TotalIsCapped ==
  ASSUME NEW idea, IsIdea(idea)
  PROVE  /\ TotalFor(idea) \in Scores
         /\ idea.blocks > 0 => TotalFor(idea) <= BlockedCeiling
<1>1. WeightedTotal(idea.board) \in Scores
  BY PartsOfAnIdea, WeightedIsScore
<1>2. BlockedCeiling \in Scores
  BY IdeasAssumption, SMTT(30) DEF BlockedCeiling, Points, Scores
<1>3. Min({WeightedTotal(idea.board), BlockedCeiling}) \in Scores
  BY <1>1, <1>2, LeastOfTwo, TheScale
<1>4. Min({WeightedTotal(idea.board), BlockedCeiling}) <= BlockedCeiling
  BY <1>1, <1>2, LeastOfTwo, TheScale
<1> QED BY <1>1, <1>3, <1>4 DEF TotalFor

LEMMA DisagreementIsBounded ==
  ASSUME NEW idea, IsIdea(idea), NEW scale \in Nat
  PROVE  Disagreement(idea, scale) \in 0 .. scale
<1> DEFINE s == idea.support
           v == idea.voting
           gap == Max({2 * s - v, v - 2 * s})
<1>1. s \in Nat /\ v \in Nat /\ s <= v
  BY PartsOfAnIdea
<1>2. CASE v # 0
  <2>1. gap \in Nat /\ gap <= v
    <3> HIDE DEF s, v
    <3>1. 2 * s - v \in Int /\ v - 2 * s \in Int
      BY <1>1
    <3>2. gap \in {2 * s - v, v - 2 * s} /\ gap >= 2 * s - v /\ gap >= v - 2 * s
      BY <3>1, LeastOfTwo
    <3> QED BY <1>1, <3>1, <3>2
  <2> HIDE DEF gap
  <2>2. scale * gap \in Nat /\ scale * gap <= scale * v
    BY <1>1, <2>1, SMTT(30)
  <2>3. Mean(scale * gap, v) \in 0 .. scale
    BY <1>1, <1>2, <2>2, MeanIsBetween
  <2>4. Disagreement(idea, scale) = scale - Mean(scale * gap, v)
    BY <1>2 DEF Disagreement, gap
  <2> QED BY <2>3, <2>4
<1>3. CASE v = 0
  BY <1>3 DEF Disagreement
<1> QED BY <1>2, <1>3

LEMMA PotentialIsScore ==
  ASSUME NEW idea, IsIdea(idea) PROVE MutationPotential(idea) \in Scores
<1> DEFINE gap == Max({0, idea.novelty - idea.total})
           mean == Mean(12 * gap, 10)
           rest == Disagreement(idea, Points(20))
           sum == Points(30) + mean + rest
<1>1. idea.novelty - idea.total \in Int /\ idea.novelty - idea.total <= Top
  BY PartsOfAnIdea, TheScale
<1>2. gap \in 0 .. Top
  <2>1. \A y \in Int : Max({0, y}) \in {0, y} /\ Max({0, y}) >= 0
    <3>1. 0 \in Int
      OBVIOUS
    <3> QED BY <3>1, LeastOfTwo
  <2>2. gap \in {0, idea.novelty - idea.total} /\ gap >= 0
    BY <1>1, <2>1
  <2> QED BY <1>1, <2>2, TheScale
<1>3. mean \in Nat
  <2>1. 12 * gap \in Nat /\ 12 * gap <= (2 * Top) * 10
    <3> HIDE DEF gap
    <3> QED BY <1>2, TheScale
  <2> HIDE DEF gap
  <2>2. 2 * Top \in Nat /\ 10 \in Nat \ {0}
    BY TheScale
  <2>3. Mean(12 * gap, 10) \in 0 .. 2 * Top
    BY <2>1, <2>2, MeanIsBetween
  <2> QED BY <2>3
<1>4. Points(30) \in Nat /\ Points(20) \in Nat
  BY IdeasAssumption DEF Points
<1>5. rest \in Nat
  BY <1>4, DisagreementIsBounded
<1> HIDE DEF mean, rest
<1>6. sum \in Nat
  BY <1>3, <1>4, <1>5
<1> HIDE DEF sum
<1>7. Min({Top, sum}) \in Scores
  <2>1. Min({Top, sum}) \in {Top, sum} /\ Min({Top, sum}) <= Top
    <3>1. Top \in Int /\ sum \in Int
      BY <1>6, TheScale
    <3> QED BY <3>1, LeastOfTwo
  <2> QED BY <1>6, <2>1, TheScale
<1> QED BY <1>7 DEF MutationPotential, Top, sum, mean, rest

\* A session that closes leaves an idea, and a capped one if anybody blocked it.
LEMMA ConcludedIsCapped ==
  ASSUME NEW idea, IsIdea(idea)
  PROVE  /\ IsIdea(Concluded(idea)) /\ Concluded(idea).blocks = idea.blocks
         /\ idea.blocks > 0 => Concluded(idea).total <= BlockedCeiling
<1> DEFINE filled == FillMissing(idea)
           total == TotalFor(filled)
           scored == [filled EXCEPT !.total = total]
           potential == MutationPotential(scored)
<1>1. IsIdea(filled) /\ filled.blocks = idea.blocks
  BY FilledIsIdea
<1>2. total \in Scores /\ (filled.blocks > 0 => total <= BlockedCeiling)
  BY <1>1, TotalIsCapped
<1> HIDE DEF filled, total
<1>3. IsIdea(scored) /\ scored.blocks = filled.blocks /\ scored.total = total
  BY <1>1, <1>2 DEF IsIdea
<1>4. potential \in Scores
  BY <1>3, PotentialIsScore
<1>5. Concluded(idea) = [scored EXCEPT !.mutation_potential = potential]
  BY DEF Concluded, filled, total
<1> HIDE DEF scored, potential
<1>6. /\ IsIdea(Concluded(idea)) /\ Concluded(idea).blocks = scored.blocks
      /\ Concluded(idea).total = scored.total
  BY <1>3, <1>4, <1>5 DEF IsIdea
<1> QED BY <1>1, <1>2, <1>3, <1>6

-----------------------------------------------------------------------------
(* The ranking. *)

\* Shares of a support compare like fractions.
LEMMA SharesCompare ==
  ASSUME NEW s1 \in Nat, NEW s2 \in Nat, NEW s3 \in Nat,
         NEW v1 \in Nat \ {0}, NEW v2 \in Nat \ {0}, NEW v3 \in Nat \ {0}
  PROVE  /\ s1 * v2 > s2 * v1 /\ s2 * v3 > s3 * v2 => s1 * v3 > s3 * v1
         /\ s1 * v2 <= s2 * v1 /\ s2 * v3 <= s3 * v2 => s1 * v3 <= s3 * v1
<1> DEFINE a == s1 * v2
           b == s2 * v1
           c == s2 * v3
           d == s3 * v2
           e == s1 * v3
           f == s3 * v1
<1>1. a * v3 = e * v2 /\ b * v3 = c * v1 /\ d * v1 = f * v2
  BY SMTT(30)
<1>2. a \in Nat /\ b \in Nat /\ c \in Nat /\ d \in Nat /\ e \in Nat /\ f \in Nat
  BY SMTT(30)
<1>3. \A x, y \in Nat, v \in Nat \ {0} : (x > y => x * v > y * v) /\ (x <= y => x * v <= y * v)
  BY SMTT(30)
<1>4. \A x, y \in Nat, v \in Nat \ {0} : x * v \in Nat /\ y * v \in Nat
  OBVIOUS
<1> HIDE DEF a, b, c, d, e, f
<1>5. ASSUME a > b, c > d PROVE e > f
  <2>1. a * v3 > b * v3 /\ c * v1 > d * v1
    BY <1>2, <1>3, <1>5
  <2>2. e * v2 > f * v2
    BY <1>1, <1>2, <1>4, <2>1
  <2>3. ~(e <= f)
    BY <1>2, <1>3, <1>4, <2>2
  <2> QED BY <1>2, <2>3
<1>6. ASSUME a <= b, c <= d PROVE e <= f
  <2>1. a * v3 <= b * v3 /\ c * v1 <= d * v1
    BY <1>2, <1>3, <1>6
  <2>2. e * v2 <= f * v2
    BY <1>1, <1>2, <1>4, <2>1
  <2>3. ~(e > f)
    BY <1>2, <1>3, <1>4, <2>2
  <2> QED BY <1>2, <2>3
<1> QED BY <1>5, <1>6 DEF a, b, c, d, e, f

LEMMA OutrankingIsStrict ==
  ASSUME NEW x, IsIdea(x), NEW y, IsIdea(y), NEW z, IsIdea(z)
  PROVE  /\ ~Outranks(x, x)
         /\ Outranks(x, y) /\ Outranks(y, z) => Outranks(x, z)
         /\ ~Outranks(x, y) /\ ~Outranks(y, z) => ~Outranks(x, z)
<1>1. /\ x.total \in Int /\ y.total \in Int /\ z.total \in Int
      /\ x.novelty \in Int /\ y.novelty \in Int /\ z.novelty \in Int
  BY PartsOfAnIdea, TheScale
<1> DEFINE v(i) == Max({1, i.voting})
<1>2. v(x) \in Nat \ {0} /\ v(y) \in Nat \ {0} /\ v(z) \in Nat \ {0}
  <2>1. \A i : IsIdea(i) => i.voting \in Int
    BY PartsOfAnIdea
  <2>2. \A k \in Int : Max({1, k}) \in {1, k} /\ Max({1, k}) >= 1
    <3>1. 1 \in Int
      OBVIOUS
    <3> QED BY <3>1, LeastOfTwo
  <2>3. \A k \in Int : Max({1, k}) \in Nat \ {0}
    BY <2>2
  <2> QED BY <2>1, <2>3
<1>3. x.support \in Nat /\ y.support \in Nat /\ z.support \in Nat
  BY PartsOfAnIdea
<1>4. /\ Ratio(x, y) = x.support * v(y) /\ Ratio(y, x) = y.support * v(x)
      /\ Ratio(y, z) = y.support * v(z) /\ Ratio(z, y) = z.support * v(y)
      /\ Ratio(x, z) = x.support * v(z) /\ Ratio(z, x) = z.support * v(x)
      /\ Ratio(x, x) = x.support * v(x)
  BY DEF Ratio
<1> HIDE DEF v
<1>5. /\ Ratio(x, y) > Ratio(y, x) /\ Ratio(y, z) > Ratio(z, y) => Ratio(x, z) > Ratio(z, x)
      /\ Ratio(x, y) <= Ratio(y, x) /\ Ratio(y, z) <= Ratio(z, y) => Ratio(x, z) <= Ratio(z, x)
  BY <1>2, <1>3, <1>4, SharesCompare
<1>6. \A a \in Nat, b \in Nat \ {0} : a * b \in Nat
  OBVIOUS
<1>7. /\ Ratio(x, y) \in Nat /\ Ratio(y, x) \in Nat /\ Ratio(y, z) \in Nat
      /\ Ratio(z, y) \in Nat /\ Ratio(x, z) \in Nat /\ Ratio(z, x) \in Nat
      /\ Ratio(x, x) \in Nat
  BY <1>2, <1>3, <1>4, <1>6
<1>8. ~Outranks(x, x)
  BY <1>1, <1>7 DEF Outranks
<1>9. Outranks(x, y) /\ Outranks(y, z) => Outranks(x, z)
  BY <1>1, <1>5, <1>7 DEF Outranks
<1>10. ~Outranks(x, y) /\ ~Outranks(y, z) => ~Outranks(x, z)
  BY <1>1, <1>5, <1>7 DEF Outranks
<1> QED BY <1>8, <1>9, <1>10

\* All that is ranked is ideas.
Judged(record) == \A i \in Ideas : IsIdea(record[i])

\* The ranking is a strict total order, ties being broken by the list.
LEMMA RankingIsTotal ==
  ASSUME NEW record, Judged(record), NEW i \in Ideas, NEW j \in Ideas, NEW k \in Ideas
  PROVE  /\ ~Before(record, i, i)
         /\ i # j => Before(record, i, j) \/ Before(record, j, i)
         /\ Before(record, i, j) /\ Before(record, j, k) => Before(record, i, k)
<1> DEFINE O(x, y) == Outranks(record[x], record[y])
<1>1. \A x, y, z \in Ideas : /\ ~O(x, x)
                             /\ O(x, y) /\ O(y, z) => O(x, z)
                             /\ ~O(x, y) /\ ~O(y, z) => ~O(x, z)
  BY OutrankingIsStrict DEF Judged
<1>2. \A x, y : Before(record, x, y) <=> O(x, y) \/ (x < y /\ ~O(y, x))
  BY DEF Before
<1> HIDE DEF O
<1>3. i \in Int /\ j \in Int /\ k \in Int
  BY IdeasAssumption
<1>4. ~Before(record, i, i)
  BY <1>1, <1>2, <1>3
<1>5. i # j => Before(record, i, j) \/ Before(record, j, i)
  BY <1>1, <1>2, <1>3
<1>6. Before(record, i, j) /\ Before(record, j, k) => Before(record, i, k)
  BY <1>1, <1>2, <1>3
<1> QED BY <1>4, <1>5, <1>6

\* The better ones before the others.
Placed(record, pool, n, ranking) ==
  /\ ranking \in [1 .. n -> pool]
  /\ \A m, k \in 1 .. n : m < k => Before(record, ranking[m], ranking[k])

\* A ranking puts everybody in an order, and the better ones before the others.
LEMMA RankedInOrder ==
  ASSUME NEW record, Judged(record), NEW pool \in SUBSET Ideas
  PROVE  LET ranking == Ranked(record, pool)
         IN  /\ Cardinality(pool) \in Nat
             /\ Placed(record, pool, Cardinality(pool), ranking)
             /\ \A i \in pool : \E m \in 1 .. Cardinality(pool) : ranking[m] = i
<1> DEFINE R == {pair \in pool \X pool : Before(record, pair[1], pair[2])}
           n == Cardinality(pool)
           r == InOrder(pool, R)
<1>1. IsFiniteSet(pool)
  BY IdeasAssumption, FS_Subset
<1>2. \A i, j \in pool : <<i, j>> \in R <=> Before(record, i, j)
  OBVIOUS
<1> HIDE DEF R
<1>3. Orders(R, pool)
  BY <1>2, RankingIsTotal DEF Orders
<1>4. n \in Nat /\ Sorted(R, pool, n, r) /\ \A i \in pool : \E m \in 1 .. n : r[m] = i
  BY <1>1, <1>3, InOrderSorts
<1> HIDE DEF r
<1>5. Placed(record, pool, n, r)
  <2>1. r \in [1 .. n -> pool] /\ \A m, k \in 1 .. n : m < k => <<r[m], r[k]>> \in R
    BY <1>4 DEF Sorted
  <2>2. \A m \in 1 .. n : r[m] \in pool
    BY <2>1
  <2> QED BY <1>2, <2>1, <2>2 DEF Placed
<1> QED BY <1>4, <1>5 DEF Ranked, R, r

-----------------------------------------------------------------------------
(* The walk down the ranking. *)

\* One place further down.
Step(kept, record, ranking, keep, n) ==
  IF n = 0 THEN {} ELSE Admit(record, kept[n - 1], ranking[n], keep)

LEMMA WalkExists ==
  ASSUME NEW record, NEW T, NEW ranking \in Seq(T), NEW keep
  PROVE  \E kept : /\ kept = [n \in 0 .. Len(ranking) |-> Step(kept, record, ranking, keep, n)]
                   /\ Admitted(record, ranking, keep) = kept[Len(ranking)]
<1> DEFINE Upto(m) == \E g : g = [n \in 0 .. m |-> Step(g, record, ranking, keep, n)]
           E == {m \in Nat : Upto(m)}
<1>1. 0 \in E
  <2> DEFINE g == [n \in 0 .. 0 |-> {}]
  <2>1. g = [n \in 0 .. 0 |-> Step(g, record, ranking, keep, n)]
    BY DEF Step
  <2> QED BY <2>1
<1>2. \A m \in E : m + 1 \in E
  <2> SUFFICES ASSUME NEW m \in Nat, NEW g, g = [n \in 0 .. m |-> Step(g, record, ranking, keep, n)]
               PROVE  Upto(m + 1)
    OBVIOUS
  <2> DEFINE h == [n \in 0 .. m + 1 |->
                     IF n = m + 1 THEN Step(g, record, ranking, keep, n) ELSE g[n]]
  <2>1. \A n \in 0 .. m : g[n] = Step(g, record, ranking, keep, n)
    BY SMTT(30)
  <2>2. \A n \in 0 .. m : h[n] = g[n]
    OBVIOUS
  <2>3. \A n \in 0 .. m + 1 : Step(h, record, ranking, keep, n) = Step(g, record, ranking, keep, n)
    <3> SUFFICES ASSUME NEW n \in 0 .. m + 1, n # 0 PROVE h[n - 1] = g[n - 1]
      BY DEF Step
    <3>1. n - 1 \in 0 .. m
      OBVIOUS
    <3> QED BY <2>2, <3>1
  <2>4. \A n \in 0 .. m + 1 : h[n] = Step(g, record, ranking, keep, n)
    BY <2>1
  <2>5. h = [n \in 0 .. m + 1 |-> h[n]]
    OBVIOUS
  <2> HIDE DEF h
  <2>6. h = [n \in 0 .. m + 1 |-> Step(h, record, ranking, keep, n)]
    BY <2>3, <2>4, <2>5
  <2> QED BY <2>6
<1>3. E = Nat
  <2> HIDE DEF E
  <2>1. E \in SUBSET Nat
    BY DEF E
  <2> QED BY SMTT(30), <1>1, <1>2, <2>1, NumbersInduct
<1>4. Upto(Len(ranking))
  BY <1>3
<1> DEFINE kept == CHOOSE kept : kept = [n \in 0 .. Len(ranking) |->
              IF n = 0 THEN {} ELSE Admit(record, kept[n - 1], ranking[n], keep)]
<1>5. kept = [n \in 0 .. Len(ranking) |-> Step(kept, record, ranking, keep, n)]
  BY <1>4 DEF Step
<1>6. Admitted(record, ranking, keep) = kept[Len(ranking)]
  BY DEF Admitted
<1> HIDE DEF kept
<1> QED BY <1>5, <1>6

Fit(record, i) == ~Disqualifies(record[i])

\* What has been admitted after n places of a ranking, and why the others were not.
Fair(record, ranking, keep, n, kept) ==
  /\ IsFiniteSet(kept) /\ Cardinality(kept) <= keep
  /\ \A i \in kept : Fit(record, i) /\ \E m \in 1 .. n : ranking[m] = i
  /\ \A i, j \in kept : i # j => ~Similar(i, j)
  /\ \A m \in 1 .. n : Fit(record, ranking[m]) /\ ranking[m] \notin kept =>
       \/ \E j \in kept : Before(record, j, ranking[m]) /\ Similar(ranking[m], j)
       \/ Cardinality(kept) = keep /\ \A j \in kept : Before(record, j, ranking[m])

\* What a place down the ranking adds to the reasons.
LEMMA StepIsFair ==
  ASSUME NEW record, NEW pool, NEW N \in Nat, NEW ranking, Placed(record, pool, N, ranking),
         NEW keep \in Nat, NEW n \in Nat, n + 1 <= N, NEW kept,
         Fair(record, ranking, keep, n, kept)
  PROVE  Fair(record, ranking, keep, n + 1, Admit(record, kept, ranking[n + 1], keep))
<1> DEFINE x == ranking[n + 1]
           new == Admit(record, kept, x, keep)
<1>1. \A m \in 1 .. n + 1 : m \in 1 .. n \/ m = n + 1
  OBVIOUS
<1>2. \A m \in 1 .. n : m \in 1 .. n + 1 /\ m \in 1 .. N /\ m < n + 1 /\ n + 1 \in 1 .. N
  OBVIOUS
<1>3. \A m \in 1 .. n : Before(record, ranking[m], x)
  BY <1>2 DEF Placed
<1>4. \A j \in kept : Before(record, j, x)
  BY <1>3 DEF Fair
<1>5. IsFiniteSet(kept) /\ Cardinality(kept) \in Nat /\ Cardinality(kept) <= keep
  BY FS_CardinalityType DEF Fair
<1> HIDE DEF x
<1>6. \A i \in kept : Fit(record, i) /\ \E m \in 1 .. n + 1 : ranking[m] = i
  BY <1>2 DEF Fair
<1>a. \A i, j \in kept : i # j => ~Similar(i, j)
  BY DEF Fair
<1>b. \A m \in 1 .. n : Fit(record, ranking[m]) /\ ranking[m] \notin kept =>
       \/ \E j \in kept : Before(record, j, ranking[m]) /\ Similar(ranking[m], j)
       \/ Cardinality(kept) = keep /\ \A j \in kept : Before(record, j, ranking[m])
  BY DEF Fair
<1>7. CASE new = kept /\ ( \/ Disqualifies(record[x]) \/ Cardinality(kept) >= keep
                           \/ \E j \in kept : Similar(x, j))
  <2>1. Fit(record, x) =>
          \/ \E j \in kept : Before(record, j, x) /\ Similar(x, j)
          \/ Cardinality(kept) = keep /\ \A j \in kept : Before(record, j, x)
    BY <1>4, <1>5, <1>7 DEF Fit
  <2>2. ranking[n + 1] = x
    BY DEF x
  <2>3. \A m \in 1 .. n + 1 : Fit(record, ranking[m]) /\ ranking[m] \notin kept =>
       \/ \E j \in kept : Before(record, j, ranking[m]) /\ Similar(ranking[m], j)
       \/ Cardinality(kept) = keep /\ \A j \in kept : Before(record, j, ranking[m])
    BY <1>1, <1>b, <2>1, <2>2
  <2>4. Fair(record, ranking, keep, n + 1, kept)
    BY <1>5, <1>6, <1>a, <2>3 DEF Fair
  <2> QED BY <1>7, <2>4 DEF x
<1>8. CASE /\ new = kept \cup {x} /\ ~Disqualifies(record[x]) /\ Cardinality(kept) < keep
           /\ \A j \in kept : ~Similar(x, j)
  <2> DEFINE all == kept \cup {x}
  <2>1. IsFiniteSet(all) /\ Cardinality(all) <= keep
    <3>1. IsFiniteSet(all) /\ (Cardinality(all) = Cardinality(kept) \/ Cardinality(all) = Cardinality(kept) + 1)
      BY <1>5, FS_AddElement
    <3> QED BY <1>5, <1>8, <3>1
  <2>2. Fit(record, x) /\ \E m \in 1 .. n + 1 : ranking[m] = x
    BY <1>8 DEF Fit, x
  <2>3. \A i \in all : Fit(record, i) /\ \E m \in 1 .. n + 1 : ranking[m] = i
    BY <1>6, <2>2
  <2>4. \A i, j : Similar(i, j) <=> Similar(j, i)
    <3>1. \A i, j : {i, j} = {j, i}
      OBVIOUS
    <3> QED BY <3>1 DEF Similar
  <2>5. \A i, j \in all : i # j => ~Similar(i, j)
    BY <1>8, <1>a, <2>4
  <2>6. \A m \in 1 .. n + 1 : Fit(record, ranking[m]) /\ ranking[m] \notin all =>
       \/ \E j \in all : Before(record, j, ranking[m]) /\ Similar(ranking[m], j)
       \/ Cardinality(all) = keep /\ \A j \in all : Before(record, j, ranking[m])
    <3> SUFFICES ASSUME NEW m \in 1 .. n + 1, Fit(record, ranking[m]), ranking[m] \notin all
                 PROVE  \E j \in all : Before(record, j, ranking[m]) /\ Similar(ranking[m], j)
      OBVIOUS
    <3>1. m \in 1 .. n
      BY <1>1 DEF x
    <3> QED BY <1>5, <1>8, <1>b, <3>1
  <2>7. Fair(record, ranking, keep, n + 1, all)
    BY <2>1, <2>3, <2>5, <2>6 DEF Fair
  <2> QED BY <1>8, <2>7 DEF x
<1> QED BY <1>5, <1>7, <1>8 DEF Admit

LEMMA AdmittedIsFair ==
  ASSUME NEW record, NEW pool, NEW N \in Nat, NEW ranking, Placed(record, pool, N, ranking),
         NEW keep \in Nat
  PROVE  Fair(record, ranking, keep, N, Admitted(record, ranking, keep))
<1>0. ranking \in Seq(pool) /\ Len(ranking) = N
  <2>1. ranking \in [1 .. N -> pool]
    BY DEF Placed
  <2> QED BY <2>1, FunctionsAreLists
<1>a. PICK kept : /\ kept = [n \in 0 .. Len(ranking) |-> Step(kept, record, ranking, keep, n)]
                  /\ Admitted(record, ranking, keep) = kept[Len(ranking)]
  <2>1. ranking \in Seq(pool)
    BY <1>0
  <2> QED BY <2>1, WalkExists
<1>1. Admitted(record, ranking, keep) = kept[N]
  BY <1>0, <1>a
<1>2. \A n \in 0 .. N : kept[n] = Step(kept, record, ranking, keep, n)
  <2>1. \A n \in 0 .. Len(ranking) : kept[n] = Step(kept, record, ranking, keep, n)
    BY <1>a, SMTT(30)
  <2> QED BY <1>0, <2>1
<1> DEFINE E == {n \in Nat : n <= N => Fair(record, ranking, keep, n, kept[n])}
<1>3. 0 \in E
  <2>1. kept[0] = {}
    BY <1>2 DEF Step
  <2>2. Fair(record, ranking, keep, 0, {})
    <3>1. IsFiniteSet({}) /\ Cardinality({}) = 0
      BY FS_EmptySet
    <3> QED BY <3>1 DEF Fair
  <2> QED BY <2>1, <2>2
<1>4. ASSUME NEW n \in E PROVE n + 1 \in E
  <2> SUFFICES ASSUME n + 1 <= N PROVE Fair(record, ranking, keep, n + 1, kept[n + 1])
    BY <1>4
  <2>1. n \in Nat /\ n + 1 \in 0 .. N /\ n + 1 # 0 /\ n + 1 - 1 = n /\ n <= N
    BY <1>4
  <2>2. kept[n + 1] = Admit(record, kept[n], ranking[n + 1], keep)
    BY <1>2, <2>1 DEF Step
  <2>3. Fair(record, ranking, keep, n, kept[n])
    BY <1>4, <2>1
  <2> QED BY <2>1, <2>2, <2>3, StepIsFair
<1>5. E = Nat
  <2>1. E \in SUBSET Nat
    OBVIOUS
  <2> HIDE DEF E
  <2> QED BY <1>3, <1>4, <2>1, NumbersInduct
<1> QED BY <1>1, <1>5

\* A round over ideas that were judged ends as it should.
LEMMA SelectionIsJust ==
  ASSUME NEW record, Judged(record), NEW pool \in SUBSET Ideas, pool # {},
         NEW width \in Nat \ {0}
  PROVE  Just(record, pool, width, Select(record, pool, width))
<1> DEFINE N == Cardinality(pool)
           ranking == Ranked(record, pool)
           keep == Max({1, Min({width, N})})
           kept == Admitted(record, ranking, keep)
           survivors == Select(record, pool, width)
           fit == {i \in pool : ~Disqualifies(record[i])}
<1>1. IsFiniteSet(pool) /\ N \in Nat \ {0}
  BY IdeasAssumption, FS_Subset, FS_CardinalityType, FS_EmptySet
<1>2. /\ Placed(record, pool, N, ranking)
      /\ \A i \in pool : \E m \in 1 .. N : ranking[m] = i
  BY RankedInOrder
<1>3. keep \in Nat \ {0} /\ keep <= width /\ keep <= N /\ (keep = width \/ keep = N)
  <2>1. \A x, y \in Nat \ {0} : LET k == Max({1, Min({x, y})})
                                IN k \in Nat \ {0} /\ k <= x /\ k <= y /\ (k = x \/ k = y)
    <3> TAKE x, y \in Nat \ {0}
    <3> DEFINE l == Min({x, y})
    <3>1. l \in {x, y} /\ l <= x /\ l <= y
      BY LeastOfTwo
    <3>2. l \in Int /\ 1 \in Int /\ l >= 1
      BY <3>1
    <3> HIDE DEF l
    <3>3. Max({1, l}) \in {1, l} /\ Max({1, l}) >= l
      BY <3>2, LeastOfTwo
    <3>4. Max({1, l}) = l
      BY <3>2, <3>3
    <3> QED BY <3>1, <3>2, <3>4 DEF l
  <2> QED BY <1>1, <2>1
<1>4. survivors = IF kept = {} THEN {Head(ranking)} ELSE kept
  BY DEF Select
<1> HIDE DEF ranking, keep
<1>5. Fair(record, ranking, keep, N, kept)
  BY <1>1, <1>2, <1>3, AdmittedIsFair
<1> HIDE DEF kept, survivors
<1>6. ranking \in [1 .. N -> pool] /\ \A m, k \in 1 .. N : m < k => Before(record, ranking[m], ranking[k])
  BY <1>2 DEF Placed
<1>7. CASE kept = {}
  <2>1. fit = {}
    <3> SUFFICES ASSUME NEW i \in fit PROVE FALSE
      OBVIOUS
    <3>1. PICK m \in 1 .. N : ranking[m] = i
      BY <1>2
    <3>2. Cardinality(kept) = keep
      BY <1>5, <1>7, <3>1 DEF Fair, Fit
    <3> QED BY <1>3, <1>7, <3>2, FS_EmptySet
  <2>2. 1 \in 1 .. N
    BY <1>1
  <2>3. survivors = {ranking[1]} /\ ranking[1] \in pool
    <3>1. Head(ranking) = ranking[1]
      <4>1. ranking \in Seq(pool) /\ Len(ranking) = N
        BY <1>1, <1>6, FunctionsAreLists
      <4>2. ranking # <<>>
        BY <1>1, <4>1
      <4> QED BY <4>1, <4>2, TailShifts
    <3> QED BY <1>4, <1>6, <1>7, <2>2, <3>1
  <2>4. Cardinality(survivors) = 1
    BY <2>3, FS_Singleton
  <2>5. \A j \in pool \ survivors : Before(record, ranking[1], j)
    <3> SUFFICES ASSUME NEW j \in pool \ survivors PROVE Before(record, ranking[1], j)
      OBVIOUS
    <3>1. PICK m \in 1 .. N : ranking[m] = j
      BY <1>2
    <3>2. 1 < m
      BY <1>1, <2>3, <3>1
    <3> QED BY <1>6, <2>2, <3>1, <3>2
  <2>6. \A i, j \in survivors : i = j
    BY <2>3
  <2>7. 1 <= width
    OBVIOUS
  <2>8. \A i \in survivors, j \in pool \ survivors : Before(record, i, j)
    BY <2>3, <2>5
  <2>9. survivors # {} /\ survivors \subseteq pool /\ Cardinality(survivors) <= width
    BY <2>3, <2>4, <2>7
  <2> QED BY <2>1, <2>6, <2>8, <2>9 DEF Just, survivors
<1>8. CASE kept # {}
  <2>1. survivors = kept
    BY <1>4, <1>8
  <2>2. kept \subseteq fit
    <3> SUFFICES ASSUME NEW i \in kept PROVE i \in fit
      OBVIOUS
    <3>1. Fit(record, i) /\ \E m \in 1 .. N : ranking[m] = i
      BY <1>5 DEF Fair
    <3> QED BY <1>6, <3>1 DEF Fit
  <2>3. Cardinality(kept) \in Nat /\ Cardinality(kept) <= keep
    BY <1>5, FS_CardinalityType DEF Fair
  <2>4. Cardinality(kept) <= width
    BY <1>3, <2>3
  <2>5. \A i, j \in kept : i # j => ~Similar(i, j)
    BY <1>5 DEF Fair
  <2>6. ASSUME NEW i \in fit \ kept
        PROVE  \/ \E j \in kept : Before(record, j, i) /\ Similar(i, j)
               \/ Cardinality(kept) = width /\ \A j \in kept : Before(record, j, i)
    <3>1. PICK m \in 1 .. N : ranking[m] = i
      BY <1>2
    <3>2. \/ \E j \in kept : Before(record, j, i) /\ Similar(i, j)
          \/ Cardinality(kept) = keep /\ \A j \in kept : Before(record, j, i)
      BY <1>5, <3>1 DEF Fair, Fit
    <3>3. keep # N \/ Cardinality(kept) # keep
      <4> SUFFICES ASSUME Cardinality(kept) = N PROVE FALSE
        OBVIOUS
      <4>1. kept \in SUBSET pool
        BY <2>2
      <4>2. kept = pool
        BY <1>1, <4>1, FS_Subset
      <4> QED BY <4>2
    <3> QED BY <1>3, <3>2, <3>3
  <2>7. fit # {} /\ kept \subseteq pool
    BY <1>8, <2>2
  <2>8. \A i \in fit \ kept :
          \/ \E j \in {j \in kept : Before(record, j, i)} : Similar(i, j)
          \/ {j \in kept : Before(record, j, i)} = kept /\ Cardinality(kept) = width
    BY <2>6
  <2>9. Just(record, pool, width, kept)
    BY <1>8, <2>2, <2>4, <2>5, <2>7, <2>8 DEF Just
  <2> QED BY <2>1, <2>9 DEF survivors
<1> QED BY <1>7, <1>8

-----------------------------------------------------------------------------
(* The funnel. *)

\* One round further.
Width(widths, n) == IF n = 0 THEN Max({1, TargetConcepts}) ELSE Scaled(n, widths[n - 1])

LEMMA FunnelExists ==
  \E widths : /\ widths = [n \in 0 .. Len(Funnel) |-> Width(widths, n)]
              /\ Widths = [n \in 1 .. Len(Funnel) |-> widths[n]]
<1> DEFINE Upto(m) == \E g : g = [n \in 0 .. m |-> Width(g, n)]
           E == {m \in Nat : Upto(m)}
<1>1. 0 \in E
  <2> DEFINE g == [n \in 0 .. 0 |-> Max({1, TargetConcepts})]
  <2>1. g = [n \in 0 .. 0 |-> Width(g, n)]
    BY DEF Width
  <2> QED BY <2>1
<1>2. \A m \in E : m + 1 \in E
  <2> SUFFICES ASSUME NEW m \in Nat, NEW g, g = [n \in 0 .. m |-> Width(g, n)] PROVE Upto(m + 1)
    OBVIOUS
  <2> DEFINE h == [n \in 0 .. m + 1 |-> IF n = m + 1 THEN Width(g, n) ELSE g[n]]
  <2>1. \A n \in 0 .. m : g[n] = Width(g, n)
    BY SMTT(30)
  <2>2. \A n \in 0 .. m : h[n] = g[n]
    OBVIOUS
  <2>3. \A n \in 0 .. m + 1 : Width(h, n) = Width(g, n)
    <3> SUFFICES ASSUME NEW n \in 0 .. m + 1, n # 0 PROVE h[n - 1] = g[n - 1]
      BY DEF Width
    <3>1. n - 1 \in 0 .. m
      OBVIOUS
    <3> QED BY <2>2, <3>1
  <2>4. \A n \in 0 .. m + 1 : h[n] = Width(h, n)
    BY <2>1, <2>3
  <2>5. h = [n \in 0 .. m + 1 |-> h[n]]
    OBVIOUS
  <2> HIDE DEF h
  <2>6. h = [n \in 0 .. m + 1 |-> Width(h, n)]
    BY <2>4, <2>5
  <2> QED BY <2>6
<1>3. E = Nat
  <2> HIDE DEF E
  <2>1. E \in SUBSET Nat
    BY DEF E
  <2> QED BY SMTT(30), <1>1, <1>2, <2>1, NumbersInduct
<1>4. Upto(Len(Funnel))
  <2>1. Len(Funnel) \in Nat
    BY FunnelAssumption
  <2> QED BY <1>3, <2>1
<1> DEFINE widths == CHOOSE widths : widths = [n \in 0 .. Len(Funnel) |->
              IF n = 0 THEN Max({1, TargetConcepts}) ELSE Scaled(n, widths[n - 1])]
<1>5. widths = [n \in 0 .. Len(Funnel) |-> Width(widths, n)]
  BY <1>4 DEF Width
<1>6. Widths = [n \in 1 .. Len(Funnel) |-> widths[n]]
  BY DEF Widths
<1> HIDE DEF widths
<1> QED BY <1>5, <1>6

\* Every round keeps somebody.
LEMMA WidthsArePositive == \A n \in 1 .. Len(Funnel) : Widths[n] \in Nat \ {0}
<1>0. Len(Funnel) \in Nat /\ \A n \in 1 .. Len(Funnel) : Funnel[n] \in Nat \ {0}
  BY FunnelAssumption
<1>1. PICK widths : /\ widths = [n \in 0 .. Len(Funnel) |-> Width(widths, n)]
                    /\ Widths = [n \in 1 .. Len(Funnel) |-> widths[n]]
  BY FunnelExists
<1>2. \A n \in 0 .. Len(Funnel) : widths[n] = Width(widths, n)
  BY <1>1, SMTT(30)
<1>a. \A y \in Int : Max({1, y}) \in Nat \ {0}
  <2>1. 1 \in Int
    OBVIOUS
  <2>2. \A y \in Int : Max({1, y}) \in {1, y} /\ Max({1, y}) >= 1
    BY <2>1, LeastOfTwo
  <2> QED BY <2>2
<1>b. \A x, y \in Nat \ {0} : Min({x, y}) \in Nat \ {0}
  BY LeastOfTwo
<1> DEFINE E == {n \in Nat : n <= Len(Funnel) => widths[n] \in Nat \ {0}}
<1>3. 0 \in E
  <2>1. widths[0] = Max({1, TargetConcepts})
    <3>1. 0 \in 0 .. Len(Funnel)
      BY <1>0
    <3>2. widths[0] = Width(widths, 0)
      BY <1>2, <3>1
    <3> QED BY <3>2 DEF Width
  <2>2. TargetConcepts \in Int
    BY FunnelAssumption
  <2> QED BY <1>a, <2>1, <2>2
<1>4. ASSUME NEW n \in E PROVE n + 1 \in E
  <2> SUFFICES ASSUME n + 1 <= Len(Funnel) PROVE widths[n + 1] \in Nat \ {0}
    BY <1>4
  <2>1. n \in Nat /\ n + 1 \in 1 .. Len(Funnel) /\ n + 1 \in 0 .. Len(Funnel) /\ n + 1 # 0 /\ n + 1 - 1 = n
    BY <1>0, <1>4
  <2>2. widths[n + 1] = Scaled(n + 1, widths[n]) /\ widths[n] \in Nat \ {0}
    BY <1>0, <1>2, <1>4, <2>1 DEF Width
  <2>3. Min({Funnel[n + 1], widths[n]}) \in Nat \ {0}
    BY <1>0, <1>b, <2>1, <2>2
  <2>4. Max({1, widths[n] - 1}) \in Nat \ {0}
    <3>1. widths[n] - 1 \in Int
      BY <2>2
    <3> QED BY <1>a, <3>1
  <2> QED BY <2>2, <2>3, <2>4 DEF Scaled
<1>5. E = Nat
  <2>1. E \in SUBSET Nat
    OBVIOUS
  <2> HIDE DEF E
  <2> QED BY <1>3, <1>4, <2>1, NumbersInduct
<1>6. \A n \in 0 .. Len(Funnel) : widths[n] \in Nat \ {0}
  <2> HIDE DEF E
  <2>1. \A n \in 0 .. Len(Funnel) : n \in E
    BY <1>0, <1>5
  <2> QED BY <1>0, <2>1 DEF E
<1> QED BY <1>0, <1>1, <1>6

-----------------------------------------------------------------------------
(* The phases. *)

LEMMA TheNextIsWaiting == \A batch \in SUBSET Ideas : batch # {} => Min(batch) \in batch
<1> SUFFICES ASSUME NEW batch \in SUBSET Ideas, batch # {} PROVE Min(batch) \in batch
  OBVIOUS
<1> DEFINE E == {n \in Nat : \A k \in 0 .. n : k \notin batch}
<1>0. batch \subseteq Nat
  BY IdeasAssumption
<1>1. SUFFICES ASSUME \A x \in batch : \E y \in batch : ~(x <= y) PROVE FALSE
  BY DEF Min
<1>2. \A x \in batch : \E y \in batch : y < x
  BY <1>0, <1>1
<1>3. 0 \in E
  BY <1>0, <1>2
<1>4. ASSUME NEW n \in E PROVE n + 1 \in E
  <2>1. n \in Nat /\ \A k \in 0 .. n : k \notin batch
    BY <1>4
  <2>2. n + 1 \notin batch
    BY <1>0, <1>2, <2>1
  <2> QED BY <2>1, <2>2
<1>5. E = Nat
  <2>1. E \in SUBSET Nat
    OBVIOUS
  <2> HIDE DEF E
  <2> QED BY <1>3, <1>4, <2>1, NumbersInduct
<1>6. PICK x \in batch : TRUE
  OBVIOUS
<1>7. x \in Nat /\ x \in 0 .. x
  BY <1>0
<1>8. x \in E
  <2> HIDE DEF E
  <2> QED BY <1>5, <1>7
<1> QED BY <1>7, <1>8

\* A confident rejection on record is a ceiling.
CapInv == \A i \in Ideas : stored[i].blocks > 0 => stored[i].total <= BlockedCeiling

\* Critics are heard in an evaluation, and an idea in memory forgets no rejection.
SessionInv ==
  subject # Nobody => pc = "evaluating" /\ turn >= 1 /\ mind.blocks >= stored[subject].blocks

\* No round is on record while ideas are evaluated, and rounds begin with somebody.
FieldInv ==
  /\ pc = "evaluating" => last.pool = {} /\ (reflecting => alive # {})
  /\ pc = "funnel" => todo = {} /\ field # {} /\ field \subseteq alive

IInv == TypeOK /\ CapInv /\ SessionInv /\ FieldInv

LEMMA Bounds ==
  /\ Len(Critics) \in Nat /\ Len(Funnel) \in Nat /\ MaxPasses \in Nat /\ MaxFaults \in Nat
  /\ Nobody \notin Ideas
<1>1. CRITIC_AGENTS \in Seq(ToSet(CRITIC_AGENTS))
  BY DEF CRITIC_AGENTS, ToSet
<1>2. Len(Critics) \in Nat
  BY <1>1, CriticsAssumption, AmongKeeps
<1>3. Len(Funnel) \in Nat /\ MaxPasses \in Nat /\ MaxFaults \in Nat
  BY FunnelAssumption
<1>4. Nobody \notin Ideas
  BY IdeasAssumption
<1> QED BY <1>2, <1>3, <1>4

LEMMA BeginsWell == Init => IInv
<1> SUFFICES ASSUME Init PROVE IInv
  OBVIOUS
<1>1. \A i \in Ideas : IsIdea(stored[i]) /\ stored[i].blocks = 0
  BY NewbornIsIdea DEF Init, Newborn
<1>2. TypeOK
  <2>1. /\ turn \in 0 .. Len(Critics) + 1 /\ round \in 0 .. Len(Funnel)
        /\ passes \in 0 .. MaxPasses /\ faults \in 0 .. MaxFaults
    BY Bounds DEF Init
  <2>2. DOMAIN stored = Ideas
    BY DEF Init
  <2>3. /\ pc \in {"idle", "evaluating", "funnel", "judging"} /\ reflecting \in BOOLEAN
        /\ subject = Nobody /\ champion = Nobody
        /\ todo = {} /\ field = {} /\ alive = {} /\ gone = {}
    BY DEF Init
  <2> QED BY <1>1, <2>1, <2>2, <2>3 DEF TypeOK
<1>3. CapInv
  BY <1>1 DEF CapInv
<1> QED BY <1>2, <1>3 DEF Init, IInv, SessionInv, FieldInv

LEMMA CreateKeeps == IInv /\ Create => IInv'
<1> SUFFICES ASSUME IInv, Create PROVE IInv'
  OBVIOUS
<1>1. TypeOK'
  BY DEF IInv, TypeOK, Create, Unborn, session, tournament
<1> QED BY <1>1 DEF IInv, CapInv, SessionInv, FieldInv, Create, session, tournament

LEMMA TakingUpKeeps == IInv /\ (Explore \/ Reflect) => IInv'
<1> SUFFICES ASSUME IInv, Explore \/ Reflect PROVE IInv'
  OBVIOUS
<1>1. PICK batch \in SUBSET Ideas :
        /\ TakeUp(batch) /\ batch # {} /\ batch \subseteq alive' /\ reflecting' \in BOOLEAN
        /\ alive \subseteq alive' /\ alive' \subseteq Ideas /\ gone \subseteq Ideas \ alive'
  BY DEF Explore, Reflect, Unborn, IInv, TypeOK
<1>2. subject = Nobody
  BY <1>1 DEF TakeUp, IInv, SessionInv
<1>3. TypeOK'
  BY <1>1, Bounds DEF IInv, TypeOK, TakeUp, session
<1> QED BY <1>1, <1>2, <1>3 DEF IInv, CapInv, SessionInv, FieldInv, TakeUp, session, NoRound

LEMMA BeginKeeps == IInv /\ Begin => IInv'
<1> SUFFICES ASSUME IInv, Begin PROVE IInv'
  OBVIOUS
<1>1. subject' \in Ideas /\ subject' \in todo
  BY TheNextIsWaiting DEF Begin, IInv, TypeOK
<1>2. IsIdea(stored[subject'])
  BY <1>1 DEF IInv, TypeOK
<1>3. IsIdea(mind') /\ mind'.blocks = stored[subject'].blocks
  BY <1>1, <1>2, MeasuredIsIdea DEF Begin
<1>4. stored[subject'].blocks \in Nat
  BY <1>2, PartsOfAnIdea
<1>5. TypeOK'
  BY <1>1, <1>3, Bounds DEF IInv, TypeOK, Begin, tournament, people
<1>6. SessionInv'
  BY <1>3, <1>4 DEF SessionInv, Begin
<1> QED BY <1>5, <1>6 DEF IInv, CapInv, FieldInv, Begin, tournament, people

LEMMA HearKeeps == IInv /\ Hear => IInv'
<1> SUFFICES ASSUME IInv, Hear PROVE IInv'
  OBVIOUS
<1>1. turn \in 1 .. Len(Critics) /\ IsIdea(mind) /\ subject \in Ideas
  BY Bounds DEF Hear, IInv, TypeOK, SessionInv
<1>2. PICK reply \in Replies[turn] :
        mind' = AddOpinion(mind, IF reply.kind = "valid" THEN reply ELSE Unavailable)
  BY DEF Hear
<1> DEFINE critique == IF reply.kind = "valid" THEN reply ELSE Unavailable
<1>3. IsBoard(critique.scores)
  BY <1>1, RepliesAssumption, TextsAreScored DEF Unavailable
<1>4. mind' = AddOpinion(mind, critique)
  BY <1>2
<1> HIDE DEF critique
<1>5. IsIdea(mind') /\ mind'.blocks >= mind.blocks
  BY <1>1, <1>3, <1>4, OpinionKeepsIdea
<1>6. UNCHANGED <<pc, reflecting, todo, subject, tournament, stored, people, passes, faults>>
      /\ turn' = turn + 1
  BY DEF Hear
<1>7. TypeOK'
  BY <1>1, <1>4, <1>5, <1>6, Bounds DEF IInv, TypeOK, tournament, people
<1>8. SessionInv'
  <2>1. mind.blocks \in Nat /\ mind'.blocks \in Nat /\ stored[subject].blocks \in Nat
    BY <1>1, <1>5, PartsOfAnIdea DEF IInv, TypeOK
  <2> QED BY <1>1, <1>5, <1>6, <2>1 DEF IInv, SessionInv
<1> QED BY <1>6, <1>7, <1>8 DEF IInv, CapInv, FieldInv, tournament, people

LEMMA ConcludeKeeps ==
  IInv /\ Conclude => /\ IInv'
                      /\ \A i \in Ideas : stored[i].blocks > 0 => stored'[i].blocks > 0
<1> SUFFICES ASSUME IInv, Conclude
             PROVE  IInv' /\ \A i \in Ideas : stored[i].blocks > 0 => stored'[i].blocks > 0
  OBVIOUS
<1> DEFINE c == Concluded(mind)
<1>1. IsIdea(mind) /\ subject \in Ideas /\ mind.blocks >= stored[subject].blocks
  BY DEF Conclude, IInv, TypeOK, SessionInv
<1>2. IsIdea(c) /\ c.blocks = mind.blocks /\ (mind.blocks > 0 => c.total <= BlockedCeiling)
  BY <1>1, ConcludedIsCapped
<1>a. \A i \in Ideas : stored[i].blocks \in Nat
  BY PartsOfAnIdea DEF IInv, TypeOK
<1>b. mind.blocks \in Nat
  BY <1>1, PartsOfAnIdea
<1>3. stored' = [stored EXCEPT ![subject] = c]
  BY DEF Conclude
<1> HIDE DEF c
<1>4. /\ DOMAIN stored' = Ideas /\ stored'[subject] = c
      /\ \A i \in Ideas : i # subject => stored'[i] = stored[i]
  BY <1>1, <1>3 DEF IInv, TypeOK
<1>5. \A i \in Ideas : IsIdea(stored'[i])
  BY <1>2, <1>4 DEF IInv, TypeOK
<1>6. TypeOK'
  BY <1>4, <1>5, Bounds DEF IInv, TypeOK, Conclude, tournament, people
<1>7. CapInv'
  BY <1>2, <1>4 DEF IInv, CapInv
<1>8. \A i \in Ideas : stored[i].blocks > 0 => stored'[i].blocks > 0
  BY <1>1, <1>2, <1>4, <1>a, <1>b
<1>9. SessionInv' /\ FieldInv'
  BY DEF IInv, SessionInv, FieldInv, Conclude, tournament, people
<1> QED BY <1>6, <1>7, <1>8, <1>9 DEF IInv

\* Who is left after a round, and that it ended as it should.
LEMMA RoundKeeps == IInv /\ Round => IInv' /\ RoundsAreJust'
<1> SUFFICES ASSUME IInv, Round PROVE IInv' /\ RoundsAreJust'
  OBVIOUS
<1> DEFINE width == Widths[round']
<1>1. round' \in 1 .. Len(Funnel) /\ round' = round + 1
  BY Bounds DEF Round, IInv, TypeOK
<1>2. width \in Nat \ {0}
  BY <1>1, WidthsArePositive
<1>3. Judged(stored) /\ field \in SUBSET Ideas /\ field # {} /\ field \subseteq alive
  BY DEF Judged, Round, IInv, TypeOK, FieldInv
<1>4. /\ field' = Select(stored, field, width)
      /\ last' = [pool |-> field, width |-> width, kept |-> field']
      /\ alive' = alive \ (field \ field') /\ gone' = gone \cup (field \ field')
      /\ UNCHANGED <<pc, reflecting, todo, session, champion, stored, health, passes, faults>>
      /\ pc = "funnel"
  BY DEF Round
<1> HIDE DEF width
<1>5. Just(stored, field, width, field')
  BY <1>2, <1>3, <1>4, SelectionIsJust
<1>6. RoundsAreJust'
  BY <1>4, <1>5 DEF RoundsAreJust
<1>7. field' # {} /\ field' \subseteq field
  BY <1>5 DEF Just
<1>8. todo = {}
  BY <1>4 DEF IInv, FieldInv
<1>9. TypeOK'
  BY <1>1, <1>3, <1>4, <1>7, <1>8 DEF IInv, TypeOK, session
<1> QED BY <1>3, <1>4, <1>6, <1>7, <1>8, <1>9
        DEF IInv, CapInv, SessionInv, FieldInv, session

LEMMA ForemostIsWaiting == TypeOK /\ todo # {} => Foremost \in todo
<1> SUFFICES ASSUME TypeOK, todo # {} PROVE Foremost \in todo
  OBVIOUS
<1> DEFINE ranking == Ranked(stored, todo)
           n == Cardinality(todo)
<1>1. Judged(stored) /\ todo \in SUBSET Ideas
  BY DEF TypeOK, Judged
<1>2. n \in Nat /\ Placed(stored, todo, n, ranking)
  BY <1>1, RankedInOrder
<1>3. n # 0
  BY <1>1, IdeasAssumption, FS_Subset, FS_EmptySet
<1> HIDE DEF ranking, n
<1>4. ranking \in [1 .. n -> todo]
  BY <1>2 DEF Placed
<1>5. ranking \in Seq(todo) /\ Len(ranking) = n
  BY <1>2, <1>4, FunctionsAreLists
<1>6. ranking # <<>>
  BY <1>3, <1>5
<1>7. Head(ranking) \in todo
  BY <1>5, <1>6, TailShifts
<1> QED BY <1>7 DEF Foremost, ranking

LEMMA JudgingKeeps == IInv /\ (Refuse \/ Approve) => IInv' /\ UNCHANGED <<stored, last>>
<1> SUFFICES ASSUME IInv, Refuse \/ Approve PROVE IInv' /\ UNCHANGED <<stored, last>>
  OBVIOUS
<1>1. Foremost \in todo /\ todo \subseteq Ideas
  BY ForemostIsWaiting DEF Refuse, Approve, IInv, TypeOK
<1>2. CASE Refuse
  <2>1. TypeOK'
    BY <1>1, <1>2, Bounds DEF IInv, TypeOK, Refuse, session, tournament
  <2> QED BY <1>2, <2>1 DEF IInv, CapInv, SessionInv, FieldInv, Refuse, session, tournament
<1>3. CASE Approve
  <2>1. TypeOK'
    BY <1>1, <1>3, Bounds DEF IInv, TypeOK, Approve, session
  <2> QED BY <1>3, <2>1 DEF IInv, CapInv, SessionInv, FieldInv, Approve, session
<1> QED BY <1>2, <1>3

LEMMA EndingsKeep ==
  IInv /\ (EndPass \/ OpenJudging \/ NoWinner \/ Abandon) => IInv' /\ UNCHANGED <<stored, last>>
<1> SUFFICES ASSUME IInv, EndPass \/ OpenJudging \/ NoWinner \/ Abandon
             PROVE  IInv' /\ UNCHANGED <<stored, last>>
  OBVIOUS
<1>1. CASE EndPass
  <2>1. TypeOK'
    BY <1>1, Bounds DEF IInv, TypeOK, EndPass, session, people
  <2> QED BY <1>1, <2>1 DEF IInv, CapInv, SessionInv, FieldInv, EndPass, session, people
<1>2. CASE OpenJudging
  <2>1. TypeOK'
    BY <1>2, Bounds DEF IInv, TypeOK, FieldInv, OpenJudging, session, tournament, people
  <2> QED BY <1>2, <2>1
          DEF IInv, CapInv, SessionInv, FieldInv, OpenJudging, session, tournament, people
<1>3. CASE NoWinner
  <2>1. TypeOK'
    BY <1>3, Bounds DEF IInv, TypeOK, NoWinner, session, tournament, people
  <2> QED BY <1>3, <2>1
          DEF IInv, CapInv, SessionInv, FieldInv, NoWinner, session, tournament, people
<1>4. CASE Abandon
  <2>1. TypeOK'
    BY <1>4, Bounds DEF IInv, TypeOK, Abandon, tournament, people
  <2> QED BY <1>4, <2>1
          DEF IInv, CapInv, SessionInv, FieldInv, Abandon, tournament, people
<1> QED BY <1>1, <1>2, <1>3, <1>4

LEMMA StutterKeeps == IInv /\ UNCHANGED vars => IInv'
<1> SUFFICES ASSUME IInv, UNCHANGED vars PROVE IInv'
  OBVIOUS
<1>1. TypeOK'
  BY DEF IInv, TypeOK, vars, session, tournament, people
<1> QED BY <1>1 DEF IInv, CapInv, SessionInv, FieldInv, vars, session, tournament, people

LEMMA PhasesKeep == Spec => []IInv
<1>1. IInv /\ [Next]_vars => IInv'
  BY CreateKeeps, TakingUpKeeps, BeginKeeps, HearKeeps, ConcludeKeeps, RoundKeeps, JudgingKeeps,
     EndingsKeep, StutterKeeps DEF Next
<1> QED BY BeginsWell, <1>1, PTL DEF Spec

\* Every number stays on its scale, whatever critics answer: boards hold known
\* criteria, means and totals never leave 0 to 100, and shares of a vote are shares
\* (value_objects/scores.py, evaluating.py: EvaluateConcepts).
THEOREM ScoresStayOnScale == Spec => []TypeOK
<1>1. IInv => TypeOK
  BY DEF IInv
<1> QED BY <1>1, PhasesKeep, PTL

\* A confident rejection is never forgotten: whatever later sessions say, and however
\* often the idea is carried forward and judged again, its total stays under the
\* ceiling (policies/scoring.py: total_for).
THEOREM BlockedForGood == Spec => OnceBlockedAlwaysCapped
<1> DEFINE A == \A i \in Ideas : stored[i].blocks > 0 =>
                  stored'[i].blocks > 0 /\ stored'[i].total <= BlockedCeiling
<1>1. IInv /\ IInv' /\ [Next]_vars => [A]_stored
  <2> SUFFICES ASSUME IInv, IInv', [Next]_vars, UNCHANGED stored \/ Conclude PROVE [A]_stored
    BY DEF Next, vars, Create, Explore, Reflect, TakeUp, Begin, Hear, EndPass, Round,
           OpenJudging, Refuse, Approve, NoWinner, Abandon
  <2>1. CASE Conclude
    <3>1. \A i \in Ideas : stored[i].blocks > 0 => stored'[i].blocks > 0
      BY <2>1, ConcludeKeeps
    <3>2. \A i \in Ideas : stored'[i].blocks > 0 => stored'[i].total <= BlockedCeiling
      BY DEF IInv, CapInv
    <3> QED BY <3>1, <3>2
  <2> QED BY <2>1
<1> QED BY <1>1, PhasesKeep, PTL DEF Spec, OnceBlockedAlwaysCapped

\* A round keeps at least one idea and at most its width; the survivors are fit and no
\* two are twins, and a fit idea that was left out is the twin of a better survivor or
\* found every place taken by a better one; if none is fit, the best survives alone
\* (services/tournament_service.py: select).
THEOREM EveryRoundIsJust == Spec => []RoundsAreJust
<1>1. Init => RoundsAreJust
  BY DEF Init, RoundsAreJust, NoRound
<1>2. IInv /\ RoundsAreJust /\ [Next]_vars => RoundsAreJust'
  <2> SUFFICES ASSUME IInv, RoundsAreJust, [Next]_vars PROVE RoundsAreJust'
    OBVIOUS
  <2>1. CASE Round
    BY <2>1, RoundKeeps
  <2>3. CASE UNCHANGED <<stored, last>>
    BY <2>3 DEF RoundsAreJust
  <2>4. CASE Conclude
    <3>1. last'.pool = {}
      BY <2>4 DEF Conclude, IInv, SessionInv, FieldInv, tournament
    <3> QED BY <3>1 DEF RoundsAreJust
  <2>5. CASE Explore \/ Reflect
    <3>1. last'.pool = {}
      BY <2>5 DEF Explore, Reflect, TakeUp, NoRound
    <3> QED BY <3>1 DEF RoundsAreJust
  <2>6. CASE Create \/ Begin \/ Hear \/ EndPass \/ OpenJudging \/ Refuse \/ Approve \/ NoWinner
             \/ Abandon \/ UNCHANGED vars
    <3>1. UNCHANGED <<stored, last>>
      BY <2>6 DEF Create, Begin, Hear, EndPass, OpenJudging, Refuse, Approve, NoWinner, Abandon,
                  vars, tournament
    <3> QED BY <2>3, <3>1
  <2> QED BY <2>1, <2>4, <2>5, <2>6 DEF Next
<1> QED BY <1>1, <1>2, PhasesKeep, PTL DEF Spec

-----------------------------------------------------------------------------
(* The budget. *)

LEMMA ConstantsAreNumbers ==
  /\ MaxCallsPerCycle \in Nat \ {0} /\ MaxCostPerCycle \in Nat \ {0}
  /\ MaxAttempts \in Nat \ {0} /\ FailureThreshold \in Nat \ {0}
  /\ BaseDelay \in Nat /\ MaxDelay \in Nat /\ ResetAfter \in Nat
  /\ MaxCalls \in Nat /\ PerSeconds \in Nat /\ Horizon \in Nat
  /\ Latencies \subseteq Nat /\ Prices \subseteq Nat
  /\ Oversleeps \subseteq Nat /\ Pauses \subseteq Nat
BY RouterAssumption

\* A request on its way past the budget was let in below both ceilings, and only
\* its own answer counts.
BudgetInv ==
  /\ guard \in {"idle", "limiter", "attempt"}
  /\ calls \in Nat /\ cost \in Nat
  /\ guard # "idle" => ~Exhausted
  /\ BudgetHolds

\* The dearest call, or one cent.
Dearest == Max(Prices \cup {1})

LEMMA DearestIsDear == Dearest \in Nat \ {0} /\ \A price \in Prices : price =< Dearest
<1>1. Prices \cup {1} \subseteq Nat
  BY RouterAssumption
<1>2. \E top \in Prices \cup {1} : \A price \in Prices \cup {1} : price =< top
  BY PricesHaveATop
<1>3. Dearest \in Prices \cup {1} /\ \A price \in Prices \cup {1} : price =< Dearest
  BY <1>1, <1>2 DEF Dearest, Max
<1> QED BY <1>1, <1>3

LEMMA BudgetIsKept == RouterSpec => []BudgetInv
<1>1. RouterInit => BudgetInv
  BY ConstantsAreNumbers, DearestIsDear DEF RouterInit, BudgetInv, BudgetHolds, Dearest
<1>2. BudgetInv /\ [RouterNext]_routerVars => BudgetInv'
  <2> SUFFICES ASSUME BudgetInv, [RouterNext]_routerVars PROVE BudgetInv'
    OBVIOUS
  <2>1. CASE ProviderAnswers
    <3>1. PICK price \in Prices : cost' = cost + price
      BY <2>1 DEF ProviderAnswers
    <3>2. price \in Nat /\ price =< Dearest /\ Dearest \in Nat
      BY ConstantsAreNumbers, DearestIsDear
    <3>3. calls < MaxCallsPerCycle /\ cost < MaxCostPerCycle
      BY <2>1, ConstantsAreNumbers DEF ProviderAnswers, BudgetInv, Exhausted
    <3>4. calls' = calls + 1 /\ guard' = "idle"
      BY <2>1 DEF ProviderAnswers
    <3>5. calls' \in Nat /\ cost' \in Nat /\ calls' =< MaxCallsPerCycle
          /\ cost' < MaxCostPerCycle + Dearest
      BY <3>1, <3>2, <3>3, <3>4, ConstantsAreNumbers DEF BudgetInv
    <3> QED BY <3>4, <3>5 DEF BudgetInv, BudgetHolds, Dearest
  <2>2. CASE Accept
    BY <2>2 DEF Accept, BudgetInv, BudgetHolds, Exhausted, budget
  <2>3. CASE UNCHANGED <<guard, budget>>
    BY <2>3 DEF BudgetInv, BudgetHolds, Exhausted, budget
  <2>4. CASE Acquire \/ ProviderFailsForGood
    BY <2>4 DEF Acquire, ProviderFailsForGood, BudgetInv, BudgetHolds, Exhausted, budget
  <2> QED
    BY <2>1, <2>2, <2>3, <2>4
    DEF RouterNext, routerVars, RefuseOverBudget, RefuseCircuitOpen, ProviderFailsRetry, Pause
<1> QED BY <1>1, <1>2, PTL DEF RouterSpec

\* The calls never pass their ceiling, and the cost passes its own by less than
\* the price of one call (router.py: CallBudget, ModelRouter.complete).
THEOREM BudgetAlwaysHolds == RouterSpec => []BudgetHolds
<1>1. BudgetInv => BudgetHolds
  BY DEF BudgetInv
<1> QED BY <1>1, BudgetIsKept, PTL

-----------------------------------------------------------------------------
(* The greatest of a set of numbers. *)

\* A bounded set of numbers has a greatest one: of the intervals from its members up to
\* the bound, one holds no other.
LEMMA GreatestExists ==
  ASSUME NEW n \in Nat, NEW T \in SUBSET (0 .. n), T # {}
  PROVE  Max(T) \in T /\ \A i \in T : i <= Max(T)
<1> DEFINE S == 0 .. n
           I == {m .. n : m \in T}
<1>1. IsFiniteSet(S)
  BY FS_Interval
<1>2. IsWellFoundedOn(StrictSubsetOrdering(S), FiniteSubsetsOf(S))
  BY <1>1, FS_StrictSubsetOrderingWellFounded
<1>3. I # {}
  OBVIOUS
<1>4. I \subseteq FiniteSubsetsOf(S)
  <2>1. \A m \in T : IsFiniteSet(m .. n)
    BY FS_Interval
  <2> QED BY <2>1 DEF FiniteSubsetsOf
<1>5. PICK x \in I : \A y \in I : ~ (<<y, x>> \in StrictSubsetOrdering(S))
  <2> HIDE DEF I, S
  <2> QED BY <1>2, <1>3, <1>4, WFMin
<1>6. PICK top \in T : x = top .. n
  BY <1>5
<1>7. \A m \in T : m <= top
  <2> SUFFICES ASSUME NEW m \in T, ~(m <= top) PROVE FALSE
    OBVIOUS
  <2>1. m \in Int /\ top \in Int /\ m <= n /\ top <= n /\ top >= 0 /\ m >= 0
    OBVIOUS
  <2>2. m .. n \subseteq top .. n /\ top .. n # m .. n
    BY <2>1
  <2>3. top .. n \subseteq S /\ m .. n \subseteq S
    BY <2>1
  <2>4. m .. n \in I
    OBVIOUS
  <2>5. <<m .. n, x>> \in StrictSubsetOrdering(S)
    BY <1>6, <2>2, <2>3 DEF StrictSubsetOrdering
  <2> QED BY <1>5, <2>4, <2>5
<1> QED BY <1>7 DEF Max

-----------------------------------------------------------------------------
(* Lists of instants. *)

\* The latest entries of a list, counted back from the last.
Back(s, j) == s[Len(s) - j]

Chronological(s) == \A i, j \in 1 .. Len(s) : i <= j => s[i] <= s[j]

\* Instants in order, none of them later than a given one.
Past(s, at) == Chronological(s) /\ \A i \in 1 .. Len(s) : s[i] <= at

LEMMA PastStaysPast ==
  ASSUME NEW s \in Seq(Nat), NEW t \in Nat, NEW at \in Nat, Past(s, t), t <= at
  PROVE  Past(s, at)
<1>1. \A i \in 1 .. Len(s) : s[i] \in Nat /\ s[i] <= t
  BY DEF Past
<1>2. \A m \in Nat : m <= t => m <= at
  OBVIOUS
<1> QED BY <1>1, <1>2 DEF Past

LEMMA TailCounts ==
  ASSUME NEW s \in Seq(Nat), NEW k \in 0 .. Len(s), Chronological(s)
  PROVE  LET kept == SubSeq(s, k + 1, Len(s)) IN
           /\ kept \in Seq(Nat) /\ Len(kept) = Len(s) - k /\ Chronological(kept)
           /\ \A i \in 1 .. Len(kept) : kept[i] = s[i + k]
           /\ \A j \in 0 .. Len(kept) - 1 : Back(kept, j) = Back(s, j)
<1> DEFINE kept == SubSeq(s, k + 1, Len(s))
<1>1. Len(s) \in Nat /\ k \in Nat
  OBVIOUS
<1>2. /\ kept \in Seq(Nat) /\ Len(kept) = Len(s) - k
      /\ \A i \in 1 .. Len(kept) : kept[i] = s[i + k]
  <2>1. CASE k = Len(s)
    BY <1>1, <2>1
  <2>2. CASE k < Len(s)
    BY <1>1, <2>2
  <2> QED BY <1>1, <2>1, <2>2
<1> HIDE DEF kept
<1>3. Chronological(kept)
  <2> SUFFICES ASSUME NEW i \in 1 .. Len(kept), NEW j \in 1 .. Len(kept), i <= j
               PROVE  kept[i] <= kept[j]
    BY DEF Chronological
  <2>1. i + k \in 1 .. Len(s) /\ j + k \in 1 .. Len(s) /\ i + k <= j + k
    BY <1>1, <1>2
  <2>2. kept[i] = s[i + k] /\ kept[j] = s[j + k]
    BY <1>2
  <2> QED BY <2>1, <2>2 DEF Chronological
<1>4. \A j \in 0 .. Len(kept) - 1 : Back(kept, j) = Back(s, j)
  <2> SUFFICES ASSUME NEW j \in 0 .. Len(kept) - 1 PROVE Back(kept, j) = Back(s, j)
    OBVIOUS
  <2>1. Len(kept) - j \in 1 .. Len(kept) /\ Len(kept) - j + k = Len(s) - j
    BY <1>1, <1>2
  <2>2. kept[Len(kept) - j] = s[Len(kept) - j + k]
    BY <1>2, <2>1
  <2> QED BY <2>1, <2>2 DEF Back
<1> QED BY <1>2, <1>3, <1>4 DEF kept

LEMMA NotingKeepsTheLatest ==
  ASSUME NEW s \in Seq(Nat), NEW t \in Nat, NEW n \in Nat \ {0}, Past(s, t), Len(s) <= n
  PROVE  LET noted == Noted(s, t, n) IN
           /\ noted \in Seq(Nat) /\ Past(noted, t)
           /\ Len(noted) = IF Len(s) < n THEN Len(s) + 1 ELSE n
           /\ Back(noted, 0) = t
           /\ \A j \in 1 .. Len(noted) - 1 : j - 1 \in 0 .. Len(s) - 1 /\ Back(noted, j) = Back(s, j - 1)
<1> DEFINE all == Append(s, t)
           noted == Noted(s, t, n)
<1>1. /\ Len(s) \in Nat /\ all \in Seq(Nat) /\ Len(all) = Len(s) + 1
      /\ \A i \in 1 .. Len(s) : all[i] = s[i]
      /\ all[Len(s) + 1] = t
  OBVIOUS
<1> HIDE DEF all
<1>2. Past(all, t)
  <2>1. \A i \in 1 .. Len(all) : i \in 1 .. Len(s) \/ i = Len(s) + 1
    BY <1>1
  <2>2. \A i \in 1 .. Len(all) : all[i] <= t
    <3> SUFFICES ASSUME NEW i \in 1 .. Len(all) PROVE all[i] <= t
      OBVIOUS
    <3>1. CASE i \in 1 .. Len(s)
      <4>1. s[i] <= t
        BY <3>1 DEF Past
      <4> QED BY <1>1, <3>1, <4>1
    <3>2. CASE i = Len(s) + 1
      <4>1. all[i] = t
        BY <1>1, <3>2
      <4> QED BY <4>1
    <3> QED BY <2>1, <3>1, <3>2
  <2>3. \A i, j \in 1 .. Len(all) : i <= j => all[i] <= all[j]
    <3> SUFFICES ASSUME NEW i \in 1 .. Len(all), NEW j \in 1 .. Len(all), i <= j
                 PROVE  all[i] <= all[j]
      OBVIOUS
    <3>1. CASE j = Len(s) + 1
      BY <1>1, <2>2, <3>1
    <3>2. CASE j \in 1 .. Len(s)
      <4>1. i \in 1 .. Len(s)
        BY <1>1, <3>2
      <4>2. s[i] <= s[j]
        BY <3>2, <4>1 DEF Past, Chronological
      <4> QED BY <1>1, <3>2, <4>1, <4>2
    <3> QED BY <2>1, <3>1, <3>2
  <2> QED BY <2>2, <2>3 DEF Past, Chronological
\* The list with t at its end, counted back.
<1>5. Back(all, 0) = t /\ \A j \in 1 .. Len(all) - 1 : Back(all, j) = Back(s, j - 1)
  <2>1. Back(all, 0) = t
    BY <1>1 DEF Back
  <2> SUFFICES ASSUME NEW j \in 1 .. Len(all) - 1 PROVE Back(all, j) = Back(s, j - 1)
    BY <2>1
  <2>2. Len(all) - j \in 1 .. Len(s) /\ Len(all) - j = Len(s) - (j - 1)
    BY <1>1
  <2>3. all[Len(all) - j] = s[Len(all) - j]
    BY <1>1, <2>2
  <2> QED BY <2>2, <2>3 DEF Back
<1>3. CASE Len(s) < n
  <2>1. noted = all
    BY <1>1, <1>3 DEF Noted, all
  <2>2. \A j \in 1 .. Len(all) - 1 : j - 1 \in 0 .. Len(s) - 1
    BY <1>1
  <2> HIDE DEF noted
  <2> QED BY <1>1, <1>2, <1>3, <1>5, <2>1, <2>2 DEF noted
<1>4. CASE Len(s) = n
  <2>1. noted = SubSeq(all, 1 + 1, Len(all))
    BY <1>1, <1>4 DEF Noted, all
  <2>2. /\ noted \in Seq(Nat) /\ Len(noted) = n /\ Chronological(noted)
        /\ \A i \in 1 .. Len(noted) : noted[i] = all[i + 1]
        /\ \A j \in 0 .. Len(noted) - 1 : Back(noted, j) = Back(all, j)
    BY <1>1, <1>2, <1>4, <2>1, TailCounts DEF Past
  <2> HIDE DEF noted
  <2>4. \A i \in 1 .. Len(noted) : noted[i] <= t
    <3>1. \A i \in 1 .. Len(noted) : i + 1 \in 1 .. Len(all)
      BY <1>1, <1>4, <2>2
    <3> QED BY <1>2, <2>2, <3>1 DEF Past
  <2>5. \A j \in 1 .. Len(noted) - 1 : j - 1 \in 0 .. Len(s) - 1 /\ j \in 1 .. Len(all) - 1
                                        /\ j \in 0 .. Len(noted) - 1
    BY <1>1, <1>4, <2>2
  <2>6. 0 \in 0 .. Len(noted) - 1
    BY <1>1, <1>4, <2>2
  <2>7. Back(noted, 0) = t /\ \A j \in 1 .. Len(noted) - 1 : Back(noted, j) = Back(s, j - 1)
    BY <1>5, <2>2, <2>5, <2>6
  <2> QED BY <1>4, <2>2, <2>4, <2>5, <2>7 DEF noted, Past
<1> QED BY <1>1, <1>3, <1>4

-----------------------------------------------------------------------------
(* Slots. *)

TypeInv ==
  /\ guard \in {"idle", "limiter", "attempt"} /\ (guard = "attempt" => attempt \in 1 .. MaxAttempts)
  /\ now \in Nat /\ asked_at \in Nat
  /\ failures \in Nat /\ opened_at \in Nat \cup {NotOpen}
  /\ timestamps \in Seq(Nat) /\ admitted_at \in Seq(Nat) /\ failed_at \in Seq(Nat)

\* The limiter's list is the end of the list of all admissions, in order, and what it
\* forgot was a span or more before the latest.
InStep(t, a) ==
  /\ Len(t) <= MaxCalls /\ Len(t) <= Len(a)
  /\ \A j \in 0 .. Len(t) - 1 : Back(t, j) = Back(a, j)
  /\ \A j \in Len(t) .. Len(a) - 1 : Back(a, 0) - Back(a, j) >= PerSeconds

SlotInv ==
  /\ Past(timestamps, now) /\ Past(admitted_at, now)
  /\ Len(admitted_at) <= MaxCalls + 1
  /\ MaxCalls > 0 => InStep(timestamps, admitted_at)

\* What the limiter still counts is the end of its list, and the rest is stale.
LEMMA PrunedIsFresh ==
  ASSUME TypeInv, SlotInv, NEW at \in Nat
  PROVE  /\ Pruned(at) \in Seq(Nat) /\ Chronological(Pruned(at)) /\ Len(Pruned(at)) <= Len(timestamps)
         /\ \A j \in 0 .. Len(Pruned(at)) - 1 : Back(Pruned(at), j) = Back(timestamps, j)
         /\ \A i \in 1 .. Len(Pruned(at)) :
              /\ at - Pruned(at)[i] < PerSeconds
              /\ \E n \in 1 .. Len(timestamps) : Pruned(at)[i] = timestamps[n]
         /\ \A j \in Len(Pruned(at)) .. Len(timestamps) - 1 : at - Back(timestamps, j) >= PerSeconds
<1> DEFINE stale == {i \in 1 .. Len(timestamps) : at - timestamps[i] >= PerSeconds}
           k == Max({0} \cup stale)
           kept == SubSeq(timestamps, k + 1, Len(timestamps))
<1>1. /\ timestamps \in Seq(Nat) /\ Len(timestamps) \in Nat /\ PerSeconds \in Nat
      /\ \A i \in 1 .. Len(timestamps) : timestamps[i] \in Nat
  <2>1. timestamps \in Seq(Nat)
    BY DEF TypeInv
  <2> QED BY <2>1, ConstantsAreNumbers
<1>0. Chronological(timestamps)
  BY DEF SlotInv, Past
<1>2. k \in {0} \cup stale /\ \A i \in {0} \cup stale : i <= k
  <2>1. {0} \cup stale \in SUBSET (0 .. Len(timestamps)) /\ {0} \cup stale # {}
    BY <1>1
  <2> HIDE DEF stale
  <2> QED BY <1>1, <2>1, GreatestExists
<1>3. k \in 0 .. Len(timestamps)
  BY <1>1, <1>2
<1>4. \A i \in 1 .. Len(timestamps) : i > k => at - timestamps[i] < PerSeconds
  <2> SUFFICES ASSUME NEW i \in 1 .. Len(timestamps), i > k, ~(at - timestamps[i] < PerSeconds)
               PROVE  FALSE
    OBVIOUS
  <2>1. i \in stale
    BY <1>1
  <2> HIDE DEF stale, k
  <2> QED BY <1>1, <1>2, <1>3, <2>1
<1>5. \A i \in 1 .. Len(timestamps) : i <= k => at - timestamps[i] >= PerSeconds
  <2> SUFFICES ASSUME NEW i \in 1 .. Len(timestamps), i <= k
               PROVE  at - timestamps[i] >= PerSeconds
    OBVIOUS
  <2>1. k \in 1 .. Len(timestamps) /\ k \in stale
    BY <1>1, <1>2, <1>3
  <2>2. at - timestamps[k] >= PerSeconds
    BY <2>1
  <2> HIDE DEF stale, k
  <2>3. timestamps[i] <= timestamps[k]
    BY <1>0, <2>1 DEF Chronological
  <2> QED BY <1>1, <2>1, <2>2, <2>3
<1>6. Pruned(at) = kept
  BY DEF Pruned
<1> HIDE DEF stale, k
<1>7. /\ kept \in Seq(Nat) /\ Len(kept) = Len(timestamps) - k /\ Chronological(kept)
      /\ \A i \in 1 .. Len(kept) : kept[i] = timestamps[i + k]
      /\ \A j \in 0 .. Len(kept) - 1 : Back(kept, j) = Back(timestamps, j)
  BY <1>1, <1>0, <1>3, TailCounts
<1> HIDE DEF kept
<1>8. \A i \in 1 .. Len(kept) :
        at - kept[i] < PerSeconds /\ \E n \in 1 .. Len(timestamps) : kept[i] = timestamps[n]
  <2> SUFFICES ASSUME NEW i \in 1 .. Len(kept)
               PROVE  /\ at - kept[i] < PerSeconds
                      /\ \E n \in 1 .. Len(timestamps) : kept[i] = timestamps[n]
    OBVIOUS
  <2>1. i + k \in 1 .. Len(timestamps) /\ i + k > k
    BY <1>1, <1>3, <1>7
  <2> QED BY <1>4, <1>7, <2>1
<1>9. \A j \in Len(kept) .. Len(timestamps) - 1 : at - Back(timestamps, j) >= PerSeconds
  <2> SUFFICES ASSUME NEW j \in Len(kept) .. Len(timestamps) - 1
               PROVE  at - Back(timestamps, j) >= PerSeconds
    OBVIOUS
  <2>1. Len(timestamps) - j \in 1 .. Len(timestamps) /\ Len(timestamps) - j <= k
    BY <1>1, <1>3, <1>7
  <2> QED BY <1>5, <2>1 DEF Back
<1>10. Len(kept) <= Len(timestamps)
  BY <1>1, <1>3, <1>7
<1> QED BY <1>6, <1>7, <1>8, <1>9, <1>10

\* Time never runs backwards, and a wait for a slot ends with a slot.
LEMMA AcquireWaits ==
  ASSUME TypeInv, SlotInv, Acquire
  PROVE  \E at \in Nat :
           /\ now' = at /\ at >= now
           /\ MaxCalls > 0 => Len(Pruned(at)) < MaxCalls
           /\ \/ at = now
              \/ MaxCalls > 0 /\ \E late \in Oversleeps : at <= now + PerSeconds + late
<1>0. now \in Nat /\ PerSeconds \in Nat /\ MaxCalls \in Nat /\ Oversleeps \subseteq Nat
  BY ConstantsAreNumbers DEF TypeInv
<1>1. CASE now' = now /\ (MaxCalls = 0 \/ SlotFree)
  BY <1>0, <1>1 DEF SlotFree
<1>2. ASSUME MaxCalls > 0, ~SlotFree, NEW late \in Oversleeps, NEW at, at = SlotFreeAt + late
      PROVE  /\ at \in Nat /\ at >= now /\ Len(Pruned(at)) < MaxCalls
             /\ at <= now + PerSeconds + late
  <2>1. /\ Pruned(now) \in Seq(Nat) /\ Chronological(Pruned(now))
        /\ Len(Pruned(now)) <= Len(timestamps)
        /\ \A j \in 0 .. Len(Pruned(now)) - 1 : Back(Pruned(now), j) = Back(timestamps, j)
        /\ \A i \in 1 .. Len(Pruned(now)) :
             /\ now - Pruned(now)[i] < PerSeconds
             /\ \E n \in 1 .. Len(timestamps) : Pruned(now)[i] = timestamps[n]
    BY <1>0, PrunedIsFresh DEF SlotInv, Past, InStep
  <2>2. Len(Pruned(now)) >= MaxCalls /\ 1 \in 1 .. Len(Pruned(now)) /\ Len(Pruned(now)) \in Nat
    BY <1>0, <1>2, <2>1 DEF SlotFree
  <2>3. PICK oldest \in Nat : oldest = Pruned(now)[1] /\ now - oldest < PerSeconds /\ oldest <= now
    BY <2>1, <2>2 DEF SlotInv, Past, InStep
  <2>4. SlotFreeAt = PerSeconds + oldest
    BY <2>1, <2>2, <2>3 DEF SlotFreeAt
  <2>5. /\ at \in Nat /\ at >= now /\ at <= now + PerSeconds + late
        /\ at - oldest >= PerSeconds
    BY <1>0, <1>2, <2>3, <2>4
  <2>6. Len(Pruned(at)) < MaxCalls
    <3>1. /\ Len(Pruned(at)) \in Nat /\ Len(Pruned(at)) <= Len(timestamps)
          /\ \A i \in 1 .. Len(Pruned(at)) : at - Pruned(at)[i] < PerSeconds
          /\ \A j \in 0 .. Len(Pruned(at)) - 1 : Back(Pruned(at), j) = Back(timestamps, j)
      <4>1. at \in Nat /\ Chronological(timestamps)
        BY <2>5 DEF SlotInv, Past, InStep
      <4>2. Pruned(at) \in Seq(Nat)
        BY <4>1, PrunedIsFresh
      <4>3. Len(Pruned(at)) <= Len(timestamps)
        BY <4>1, PrunedIsFresh
      <4>4. \A i \in 1 .. Len(Pruned(at)) : at - Pruned(at)[i] < PerSeconds
        BY <4>1, PrunedIsFresh
      <4>5. \A j \in 0 .. Len(Pruned(at)) - 1 : Back(Pruned(at), j) = Back(timestamps, j)
        BY <4>1, PrunedIsFresh
      <4> QED BY <4>2, <4>3, <4>4, <4>5
    <3>2. Len(timestamps) = MaxCalls /\ Len(Pruned(now)) = Len(timestamps)
      <4>1. Len(timestamps) <= MaxCalls /\ Len(timestamps) \in Nat
        BY <1>2 DEF SlotInv, InStep, TypeInv
      <4> QED BY <1>0, <2>1, <2>2, <4>1
    <3>3. oldest = Back(timestamps, Len(timestamps) - 1)
      <4>1. Len(timestamps) - 1 \in 0 .. Len(Pruned(now)) - 1
        BY <2>2, <3>2
      <4>2. Back(Pruned(now), Len(timestamps) - 1) = Pruned(now)[1]
        BY <2>2, <3>2 DEF Back
      <4> QED BY <2>1, <2>3, <4>1, <4>2
    <3>4. CASE Len(Pruned(at)) = MaxCalls
      <4>1. Back(Pruned(at), MaxCalls - 1) = oldest
        BY <1>0, <1>2, <3>1, <3>2, <3>3, <3>4
      <4>2. Back(Pruned(at), MaxCalls - 1) = Pruned(at)[1] /\ 1 \in 1 .. Len(Pruned(at))
        BY <1>0, <1>2, <3>4 DEF Back
      <4>3. at - oldest < PerSeconds
        BY <3>1, <4>1, <4>2
      <4> QED BY <1>0, <2>5, <4>3
    <3>5. CASE Len(Pruned(at)) # MaxCalls
      <4>1. Len(Pruned(at)) \in Nat /\ Len(Pruned(at)) <= MaxCalls
        BY <3>1, <3>2
      <4> QED BY <1>0, <3>5, <4>1
    <3> QED BY <3>4, <3>5
  <2> QED BY <2>5, <2>6
<1> QED BY <1>0, <1>1, <1>2 DEF Acquire

\* An admission with a free slot keeps the lists in step.
LEMMA AdmissionKeepsStep ==
  ASSUME TypeInv, SlotInv, MaxCalls > 0, NEW at \in Nat, at >= now, Len(Pruned(at)) < MaxCalls
  PROVE  LET t == Append(Pruned(at), at)
             a == Noted(admitted_at, at, MaxCalls + 1)
         IN  Past(t, at) /\ InStep(t, a)
<1> DEFINE p == Pruned(at)
           t == Append(p, at)
           a == Noted(admitted_at, at, MaxCalls + 1)
<1>0. /\ MaxCalls \in Nat /\ PerSeconds \in Nat /\ now \in Nat
      /\ Len(timestamps) \in Nat /\ Len(admitted_at) \in Nat
      /\ timestamps \in Seq(Nat) /\ admitted_at \in Seq(Nat)
  BY ConstantsAreNumbers DEF TypeInv
<1>1. /\ p \in Seq(Nat) /\ Chronological(p) /\ Len(p) <= Len(timestamps) /\ Len(p) \in Nat
      /\ \A j \in 0 .. Len(p) - 1 : Back(p, j) = Back(timestamps, j)
      /\ \A i \in 1 .. Len(p) : \E n \in 1 .. Len(timestamps) : p[i] = timestamps[n]
      /\ \A j \in Len(p) .. Len(timestamps) - 1 : at - Back(timestamps, j) >= PerSeconds
  <2>1. Chronological(timestamps)
    BY DEF SlotInv, Past, InStep
  <2>2. p \in Seq(Nat)
    BY <2>1, PrunedIsFresh
  <2>3. Chronological(p) /\ Len(p) <= Len(timestamps)
    BY <2>1, PrunedIsFresh
  <2>4. \A j \in 0 .. Len(p) - 1 : Back(p, j) = Back(timestamps, j)
    BY <2>1, PrunedIsFresh
  <2>5. \A i \in 1 .. Len(p) : \E n \in 1 .. Len(timestamps) : p[i] = timestamps[n]
    BY <2>1, PrunedIsFresh
  <2>6. \A j \in Len(p) .. Len(timestamps) - 1 : at - Back(timestamps, j) >= PerSeconds
    BY <2>1, PrunedIsFresh
  <2> QED BY <2>2, <2>3, <2>4, <2>5, <2>6
<1>2. Len(p) < MaxCalls
  OBVIOUS
<1> HIDE DEF p
<1>3. \A i \in 1 .. Len(timestamps) : timestamps[i] \in Nat /\ timestamps[i] <= at
  <2> SUFFICES ASSUME NEW i \in 1 .. Len(timestamps)
               PROVE  timestamps[i] \in Nat /\ timestamps[i] <= at
    OBVIOUS
  <2>1. timestamps[i] \in Nat /\ timestamps[i] <= now
    BY <1>0 DEF SlotInv, Past
  <2> QED BY <1>0, <2>1
<1>4. \A i \in 1 .. Len(p) : p[i] \in Nat /\ p[i] <= at
  BY <1>1, <1>3
<1>5. /\ t \in Seq(Nat) /\ Len(t) = Len(p) + 1
      /\ \A i \in 1 .. Len(p) : t[i] = p[i]
      /\ t[Len(p) + 1] = at
  BY <1>1
<1> HIDE DEF t
<1>6. Chronological(t) /\ \A i \in 1 .. Len(t) : t[i] <= at
  <2>1. \A i \in 1 .. Len(t) : i \in 1 .. Len(p) \/ i = Len(p) + 1
    BY <1>1, <1>5
  <2>2. \A i \in 1 .. Len(t) : t[i] \in Nat /\ t[i] <= at
    BY <1>4, <1>5, <2>1
  <2> SUFFICES ASSUME NEW i \in 1 .. Len(t), NEW j \in 1 .. Len(t), i <= j PROVE t[i] <= t[j]
    BY <2>2 DEF Chronological
  <2>3. CASE j = Len(p) + 1
    BY <1>5, <2>2, <2>3
  <2>4. CASE j \in 1 .. Len(p)
    <3>1. i \in 1 .. Len(p)
      BY <1>1, <1>5, <2>4
    <3>2. p[i] <= p[j]
      BY <1>1, <2>4, <3>1 DEF Chronological
    <3> QED BY <1>5, <2>4, <3>1, <3>2
  <2> QED BY <2>1, <2>3, <2>4
<1>7. /\ a \in Seq(Nat) /\ Len(a) \in Nat
      /\ Len(a) = IF Len(admitted_at) < MaxCalls + 1 THEN Len(admitted_at) + 1 ELSE MaxCalls + 1
      /\ Back(a, 0) = at
      /\ \A j \in 1 .. Len(a) - 1 :
           j - 1 \in 0 .. Len(admitted_at) - 1 /\ Back(a, j) = Back(admitted_at, j - 1)
  <2>1. Past(admitted_at, at)
    BY <1>0, PastStaysPast DEF SlotInv
  <2>2. Len(admitted_at) <= MaxCalls + 1 /\ MaxCalls + 1 \in Nat \ {0}
    BY <1>0 DEF SlotInv
  <2> QED BY <1>0, <2>1, <2>2, NotingKeepsTheLatest
<1> HIDE DEF a
<1>8. /\ Len(timestamps) <= Len(admitted_at)
      /\ \A j \in 0 .. Len(timestamps) - 1 : Back(timestamps, j) = Back(admitted_at, j)
      /\ \A j \in Len(timestamps) .. Len(admitted_at) - 1 :
           Back(admitted_at, 0) - Back(admitted_at, j) >= PerSeconds
  BY DEF SlotInv, Past, InStep
<1>9. Len(t) <= MaxCalls /\ Len(t) <= Len(a)
  <2>1. Len(t) = Len(p) + 1 /\ Len(p) <= Len(timestamps) /\ Len(timestamps) <= Len(admitted_at)
    BY <1>1, <1>5, <1>8
  <2>2. Len(p) \in Nat /\ Len(timestamps) \in Nat /\ Len(admitted_at) \in Nat
    BY <1>0, <1>1
  <2> QED BY <1>0, <1>2, <1>7, <2>1, <2>2
<1>10. \A j \in 0 .. Len(t) - 1 : Back(t, j) = Back(a, j)
  <2> SUFFICES ASSUME NEW j \in 0 .. Len(t) - 1 PROVE Back(t, j) = Back(a, j)
    OBVIOUS
  <2>1. CASE j = 0
    BY <1>1, <1>5, <1>7, <2>1 DEF Back
  <2>2. CASE j # 0
    <3>1. /\ j - 1 \in 0 .. Len(p) - 1 /\ j - 1 \in 0 .. Len(timestamps) - 1
          /\ j \in 1 .. Len(a) - 1
      <4>1. Len(t) = Len(p) + 1 /\ Len(p) \in Nat /\ Len(p) <= Len(timestamps)
        BY <1>1, <1>5
      <4>2. Len(t) <= Len(a) /\ Len(a) \in Nat /\ Len(timestamps) \in Nat
        BY <1>0, <1>7, <1>9
      <4> QED BY <2>2, <4>1, <4>2
    <3>2. Back(t, j) = Back(p, j - 1)
      <4>1. Len(t) - j = Len(p) - (j - 1) /\ Len(t) - j \in 1 .. Len(p)
        BY <1>1, <1>5, <3>1
      <4> QED BY <1>5, <4>1 DEF Back
    <3> QED BY <1>1, <1>7, <1>8, <3>1, <3>2
  <2> QED BY <2>1, <2>2
<1>11. \A j \in Len(t) .. Len(a) - 1 : Back(a, 0) - Back(a, j) >= PerSeconds
  <2> SUFFICES ASSUME NEW j \in Len(t) .. Len(a) - 1 PROVE at - Back(admitted_at, j - 1) >= PerSeconds
    <3>1. \A j \in Len(t) .. Len(a) - 1 : j \in 1 .. Len(a) - 1
      BY <1>1, <1>5, <1>7
    <3> QED BY <1>7, <3>1
  <2>1. j - 1 \in Len(p) .. Len(admitted_at) - 1
    <3>1. j \in 1 .. Len(a) - 1
      BY <1>1, <1>5, <1>7
    <3>2. j - 1 \in 0 .. Len(admitted_at) - 1
      BY <1>7, <3>1
    <3> QED BY <1>1, <1>5, <3>1, <3>2
  <2>2. CASE j - 1 \in 0 .. Len(timestamps) - 1
    <3>1. j - 1 \in Len(p) .. Len(timestamps) - 1
      BY <1>1, <2>1, <2>2
    <3> QED BY <1>1, <1>8, <2>2, <3>1
  <2>3. CASE ~(j - 1 \in 0 .. Len(timestamps) - 1)
    <3>1. j - 1 \in Len(timestamps) .. Len(admitted_at) - 1
      BY <1>0, <1>1, <2>1, <2>3
    <3>2. Back(admitted_at, 0) - Back(admitted_at, j - 1) >= PerSeconds
      BY <1>8, <3>1
    <3>3. /\ Len(admitted_at) - 0 \in 1 .. Len(admitted_at)
          /\ Len(admitted_at) - (j - 1) \in 1 .. Len(admitted_at)
      BY <1>0, <3>1
    <3>4. /\ Back(admitted_at, 0) \in Nat /\ Back(admitted_at, j - 1) \in Nat
          /\ Back(admitted_at, 0) <= now
      <4>1. \A i \in 1 .. Len(admitted_at) : admitted_at[i] \in Nat /\ admitted_at[i] <= now
        BY SMTT(30), <1>0 DEF SlotInv, Past, InStep
      <4> QED BY <3>3, <4>1 DEF Back
    <3> QED BY SMTT(30), <1>0, <3>2, <3>4
  <2> QED BY <2>2, <2>3
<1> QED BY <1>6, <1>9, <1>10, <1>11 DEF t, a, p, Past, InStep

-----------------------------------------------------------------------------
(* Time. *)

LEMMA DelayIsShort ==
  ASSUME NEW n \in 1 .. MaxAttempts PROVE DelayFor(n) \in 0 .. MaxDelay
<1>1. PICK power \in Nat : Multiplier ^ (n - 1) = power
  BY PowersAreNumbers
<1>2. BaseDelay \in Nat /\ MaxDelay \in Nat
  BY ConstantsAreNumbers
<1>3. BaseDelay * power \in Nat
  BY <1>2
<1> QED BY <1>1, <1>2, <1>3 DEF DelayFor

LEMMA TimePasses ==
  ASSUME TypeInv, SlotInv, [RouterNext]_routerVars PROVE now' \in Nat /\ now' >= now
<1>0. now \in Nat /\ Latencies \subseteq Nat /\ Oversleeps \subseteq Nat /\ Pauses \subseteq Nat
  BY ConstantsAreNumbers DEF TypeInv
<1>1. CASE Acquire
  <2>1. PICK at \in Nat : now' = at /\ at >= now
    BY <1>1, AcquireWaits
  <2> QED BY <2>1
<1>2. CASE ProviderFailsRetry
  <2>1. attempt \in 1 .. MaxAttempts
    BY <1>2 DEF ProviderFailsRetry, TypeInv
  <2>2. PICK latency \in Latencies, late \in Oversleeps :
          now' = now + latency + DelayFor(attempt) + late
    BY <1>2 DEF ProviderFailsRetry
  <2>3. DelayFor(attempt) \in Nat
    BY <2>1, DelayIsShort, ConstantsAreNumbers
  <2> QED BY <1>0, <2>2, <2>3
<1>3. CASE ProviderAnswers \/ ProviderFailsForGood
  <2>1. PICK latency \in Latencies : now' = now + latency
    BY <1>3 DEF ProviderAnswers, ProviderFailsForGood
  <2> QED BY <1>0, <2>1
<1>4. CASE Pause
  <2>1. PICK pause \in Pauses : now' = IF now > Horizon THEN now ELSE now + pause
    BY <1>4 DEF Pause
  <2> QED BY <1>0, <2>1
<1>5. CASE now' = now
  BY <1>0, <1>5
<1> QED
  BY <1>1, <1>2, <1>3, <1>4, <1>5 DEF RouterNext, routerVars, RefuseOverBudget, RefuseCircuitOpen, Accept

LEMMA SlotStep ==
  ASSUME TypeInv, SlotInv, [RouterNext]_routerVars PROVE TypeInv' /\ SlotInv'
<1>0. /\ now' \in Nat /\ now' >= now /\ now \in Nat
      /\ MaxAttempts \in Nat \ {0} /\ MaxCalls \in Nat /\ FailureThreshold \in Nat \ {0}
  BY TimePasses, ConstantsAreNumbers DEF TypeInv
<1>1. TypeInv'
  <2>1. CASE Acquire
    <3>1. PICK at \in Nat : now' = at /\ at >= now
      BY <2>1, AcquireWaits
    <3>2. timestamps' \in Seq(Nat)
      <4>1. Pruned(at) \in Seq(Nat)
        BY PrunedIsFresh DEF SlotInv
      <4> QED BY <2>1, <3>1, <4>1 DEF Acquire, TypeInv
    <3>3. admitted_at' \in Seq(Nat)
      <4>1. Past(admitted_at, at)
        BY <1>0, <3>1, PastStaysPast DEF SlotInv, TypeInv
      <4>2. admitted_at \in Seq(Nat) /\ Len(admitted_at) <= MaxCalls + 1 /\ MaxCalls + 1 \in Nat \ {0}
        BY <1>0 DEF TypeInv, SlotInv
      <4>3. Noted(admitted_at, at, MaxCalls + 1) \in Seq(Nat)
        BY <4>1, <4>2, NotingKeepsTheLatest
      <4> QED BY <2>1, <3>1, <4>3 DEF Acquire
    <3> QED BY <1>0, <2>1, <3>2, <3>3 DEF Acquire, TypeInv, breaker
  <2>2. CASE ProviderFailsForGood
    <3>1. failed_at' \in Seq(Nat)
      <4>1. failed_at \in Seq(Nat) /\ Append(failed_at, now') \in Seq(Nat)
        BY <1>0 DEF TypeInv
      <4>2. Len(Append(failed_at, now')) \in Nat
        BY <4>1
      <4>3. CASE Len(Append(failed_at, now')) > FailureThreshold + 1
        <5>1. \A s \in Seq(Nat) : Len(s) > FailureThreshold + 1 =>
                SubSeq(s, Len(s) - (FailureThreshold + 1) + 1, Len(s)) \in Seq(Nat)
          BY <1>0
        <5> QED BY <2>2, <4>1, <4>3, <5>1 DEF ProviderFailsForGood, Noted
      <4>4. CASE ~(Len(Append(failed_at, now')) > FailureThreshold + 1)
        BY <2>2, <4>1, <4>4 DEF ProviderFailsForGood, Noted
      <4> QED BY <4>3, <4>4
    <3>2. opened_at' \in Nat \cup {NotOpen} /\ failures' \in Nat
      BY <1>0, <2>2 DEF ProviderFailsForGood, OpenedBy, TypeInv
    <3> QED BY <1>0, <2>2, <3>1, <3>2 DEF ProviderFailsForGood, TypeInv
  <2>3. CASE ProviderFailsRetry
    <3>1. attempt' \in 1 .. MaxAttempts
      BY <1>0, <2>3 DEF ProviderFailsRetry, TypeInv
    <3> QED BY <1>0, <2>3, <3>1 DEF ProviderFailsRetry, TypeInv, breaker
  <2>4. CASE ProviderAnswers
    BY <1>0, <2>4 DEF ProviderAnswers, TypeInv
  <2>5. CASE Accept
    BY <1>0, <2>5 DEF Accept, TypeInv
  <2>6. CASE RefuseOverBudget \/ RefuseCircuitOpen \/ Pause \/ UNCHANGED routerVars
    BY <1>0, <2>6 DEF RefuseOverBudget, RefuseCircuitOpen, Pause, routerVars, breaker, notes, TypeInv
  <2> QED BY <2>1, <2>2, <2>3, <2>4, <2>5, <2>6 DEF RouterNext
<1>2. CASE Acquire
  <2>1. PICK at \in Nat : now' = at /\ at >= now /\ (MaxCalls > 0 => Len(Pruned(at)) < MaxCalls)
    BY <1>2, AcquireWaits
  <2>2. /\ Past(timestamps, at) /\ Past(admitted_at, at)
        /\ admitted_at \in Seq(Nat) /\ Len(admitted_at) \in Nat /\ Len(admitted_at) <= MaxCalls + 1
        /\ MaxCalls + 1 \in Nat \ {0}
    BY <1>0, <2>1, PastStaysPast DEF SlotInv, TypeInv
  <2>3. PICK a : a = Noted(admitted_at, at, MaxCalls + 1) /\ admitted_at' = a
    BY <1>2, <2>1 DEF Acquire
  <2>4. Past(a, at) /\ Len(a) <= MaxCalls + 1
    <3>1. Past(a, at)
      BY <2>2, <2>3, NotingKeepsTheLatest
    <3>2. Len(a) = IF Len(admitted_at) < MaxCalls + 1 THEN Len(admitted_at) + 1 ELSE MaxCalls + 1
      BY <2>2, <2>3, NotingKeepsTheLatest
    <3> QED BY <1>0, <2>2, <3>1, <3>2
  <2>5. CASE MaxCalls = 0
    <3>1. timestamps' = timestamps
      BY <1>2, <2>5 DEF Acquire
    <3>2. Past(timestamps', now') /\ Past(admitted_at', now') /\ Len(admitted_at') <= MaxCalls + 1
      BY <2>1, <2>2, <2>3, <2>4, <3>1
    <3> QED BY <1>1, <2>5, <3>2 DEF SlotInv
  <2>6. CASE MaxCalls > 0
    <3>1. PICK t : t = Append(Pruned(at), at) /\ timestamps' = t
      BY <1>2, <2>1, <2>6 DEF Acquire
    <3>2. Past(t, at) /\ InStep(t, a)
      BY <2>1, <2>3, <2>6, <3>1, AdmissionKeepsStep
    <3>3. /\ Past(timestamps', now') /\ Past(admitted_at', now')
          /\ Len(admitted_at') <= MaxCalls + 1 /\ InStep(timestamps', admitted_at')
      BY <2>1, <2>3, <2>4, <3>1, <3>2
    <3> QED BY <1>1, <3>3 DEF SlotInv
  <2> QED BY <1>0, <1>1, <2>5, <2>6
<1>3. CASE UNCHANGED <<timestamps, admitted_at>>
  <2>1. Past(timestamps, now') /\ Past(admitted_at, now')
    BY <1>0, PastStaysPast DEF SlotInv, TypeInv
  <2>2. SlotInv'
    BY <1>3, <2>1 DEF SlotInv
  <2> QED BY <1>1, <2>2
<1> QED
  BY <1>2, <1>3
  DEF RouterNext, routerVars, notes, RefuseOverBudget, RefuseCircuitOpen, Accept, ProviderAnswers,
      ProviderFailsRetry, ProviderFailsForGood, Pause

-----------------------------------------------------------------------------
(* The limiter. *)

SlotsAreTyped == TypeInv /\ SlotInv

LEMMA SlotsAreKept == RouterSpec => []SlotsAreTyped
<1>1. RouterInit => SlotsAreTyped
  <2>1. <<>> \in Seq(Nat) /\ Len(<<>>) = 0
    OBVIOUS
  <2>2. Chronological(<<>>)
    BY <2>1 DEF Chronological
  <2>3. Past(<<>>, 0)
    BY <2>1, <2>2 DEF Past
  <2>4. MaxCalls \in Nat
    BY ConstantsAreNumbers
  <2>5. MaxCalls > 0 => InStep(<<>>, <<>>)
    BY <2>1, <2>4 DEF InStep
  <2> QED BY <2>1, <2>3, <2>4, <2>5 DEF RouterInit, SlotsAreTyped, TypeInv, SlotInv, NotOpen
<1>2. SlotsAreTyped /\ [RouterNext]_routerVars => SlotsAreTyped'
  BY SlotStep DEF SlotsAreTyped
<1> QED BY <1>1, <1>2, PTL DEF RouterSpec

\* However requests bunch up, wait for a slot or oversleep, at most MaxCalls of them are
\* admitted in any PerSeconds (resilience.py: RateLimiter.acquire).
THEOREM WindowIsRespected == RouterSpec => []WindowRespected
<1>1. SlotsAreTyped => WindowRespected
  <2> SUFFICES ASSUME SlotsAreTyped, MaxCalls > 0, Len(admitted_at) > MaxCalls
               PROVE  admitted_at[Len(admitted_at)] - admitted_at[Len(admitted_at) - MaxCalls]
                        >= PerSeconds
    BY DEF WindowRespected, AtMost
  <2>1. /\ MaxCalls \in Nat /\ Len(admitted_at) \in Nat /\ Len(timestamps) \in Nat
        /\ InStep(timestamps, admitted_at)
    <3>1. timestamps \in Seq(Nat) /\ admitted_at \in Seq(Nat) /\ InStep(timestamps, admitted_at)
      BY DEF SlotsAreTyped, TypeInv, SlotInv
    <3> QED BY <3>1, ConstantsAreNumbers
  <2>2. MaxCalls \in Len(timestamps) .. Len(admitted_at) - 1
    BY <2>1 DEF InStep
  <2>3. Back(admitted_at, 0) - Back(admitted_at, MaxCalls) >= PerSeconds
    BY <2>1, <2>2 DEF InStep
  <2> QED BY <2>1, <2>3 DEF Back
<1> QED BY <1>1, SlotsAreKept, PTL

-----------------------------------------------------------------------------
(* The breaker. *)

\* What lies further back than the failures counted failed a reset or more ago.
LongPast(s, n, at) == \A j \in n .. Len(s) - 1 : at >= Back(s, j) + ResetAfter

\* The breaker counts the latest failures in a row, and is open since the last of them.
BreakerInv ==
  /\ Past(failed_at, now)
  /\ failures <= Len(failed_at) /\ Len(failed_at) <= FailureThreshold + 1
  /\ Closed => failures < FailureThreshold /\ LongPast(failed_at, failures, now)
  /\ ~Closed => /\ guard = "idle"
                /\ Len(failed_at) >= FailureThreshold /\ opened_at = Back(failed_at, 0)
  /\ DownProviderIsSpared

LEMMA LongPastStays ==
  ASSUME NEW s \in Seq(Nat), NEW n \in Nat, NEW t \in Nat, NEW at \in Nat, t <= at,
         LongPast(s, n, t)
  PROVE  LongPast(s, n, at)
<1> SUFFICES ASSUME NEW j \in n .. Len(s) - 1 PROVE at >= Back(s, j) + ResetAfter
  BY DEF LongPast
<1>1. n \in Nat /\ Len(s) \in Nat /\ j \in n .. Len(s) - 1
  OBVIOUS
<1>4. Len(s) - j \in 1 .. Len(s)
  BY <1>1
<1>2. Back(s, j) \in Nat /\ ResetAfter \in Nat
  <2>1. ResetAfter \in Nat
    BY ConstantsAreNumbers
  <2> QED BY <1>4, <2>1 DEF Back
<1>3. t >= Back(s, j) + ResetAfter
  BY DEF LongPast
<1> QED BY <1>2, <1>3

\* One more failure of a provider behind a closed breaker.
LEMMA FailureIsCounted ==
  ASSUME TypeInv, BreakerInv, Closed, NEW at \in Nat, at >= now
  PROVE  LET f == Noted(failed_at, at, FailureThreshold + 1) IN
           /\ f \in Seq(Nat) /\ Past(f, at) /\ failures + 1 <= Len(f) /\ Len(f) <= FailureThreshold + 1
           /\ Back(f, 0) = at
           /\ LongPast(f, failures + 1, at)
           /\ AtMost(FailureThreshold, f, ResetAfter)
<1> DEFINE f == Noted(failed_at, at, FailureThreshold + 1)
<1>1. /\ failed_at \in Seq(Nat) /\ Len(failed_at) \in Nat /\ failures \in Nat /\ now \in Nat
      /\ FailureThreshold \in Nat \ {0} /\ ResetAfter \in Nat
      /\ failures <= Len(failed_at) /\ Len(failed_at) <= FailureThreshold + 1
      /\ failures < FailureThreshold /\ LongPast(failed_at, failures, now)
  BY ConstantsAreNumbers DEF TypeInv, BreakerInv
<1>2. Past(failed_at, at) /\ LongPast(failed_at, failures, at)
  <2>1. Past(failed_at, now)
    BY DEF BreakerInv
  <2>2. Past(failed_at, at)
    BY <1>1, <2>1, PastStaysPast
  <2>3. LongPast(failed_at, failures, at)
    BY <1>1, LongPastStays
  <2> QED BY <2>2, <2>3
<1>3. FailureThreshold + 1 \in Nat \ {0}
  BY <1>1
<1>4. f \in Seq(Nat) /\ Past(f, at) /\ Back(f, 0) = at
  BY <1>1, <1>2, <1>3, NotingKeepsTheLatest
<1>5. Len(f) = IF Len(failed_at) < FailureThreshold + 1 THEN Len(failed_at) + 1 ELSE FailureThreshold + 1
  BY <1>1, <1>2, <1>3, NotingKeepsTheLatest
<1>6. \A j \in 1 .. Len(f) - 1 :
        j - 1 \in 0 .. Len(failed_at) - 1 /\ Back(f, j) = Back(failed_at, j - 1)
  BY <1>1, <1>2, <1>3, NotingKeepsTheLatest
<1> HIDE DEF f
<1>7. failures + 1 <= Len(f) /\ Len(f) <= FailureThreshold + 1 /\ Len(f) \in Nat
  BY <1>1, <1>5
<1>8. \A j \in failures + 1 .. Len(f) - 1 : at >= Back(f, j) + ResetAfter
  <2> SUFFICES ASSUME NEW j \in failures + 1 .. Len(f) - 1 PROVE at >= Back(f, j) + ResetAfter
    OBVIOUS
  <2>1. j \in 1 .. Len(f) - 1 /\ j \in Int
    BY <1>1, <1>7
  <2>2. j - 1 \in 0 .. Len(failed_at) - 1 /\ Back(f, j) = Back(failed_at, j - 1)
    BY <1>6, <2>1
  <2>3. j - 1 \in failures .. Len(failed_at) - 1
    BY <1>1, <2>1, <2>2
  <2>4. at >= Back(failed_at, j - 1) + ResetAfter
    BY <1>2, <2>3 DEF LongPast
  <2> QED BY <2>2, <2>4
<1>9. AtMost(FailureThreshold, f, ResetAfter)
  <2> SUFFICES ASSUME Len(f) > FailureThreshold
               PROVE  f[Len(f)] - f[Len(f) - FailureThreshold] >= ResetAfter
    BY DEF AtMost
  <2>1. FailureThreshold \in failures + 1 .. Len(f) - 1
    BY <1>1, <1>7
  <2>2. at >= Back(f, FailureThreshold) + ResetAfter
    BY <1>8, <2>1
  <2>3. Len(f) - FailureThreshold \in 1 .. Len(f)
    BY <1>1, <1>7, <2>1
  <2>4. f[Len(f) - FailureThreshold] \in Nat
    BY <1>4, <2>3
  <2>5. f[Len(f)] = at /\ Back(f, FailureThreshold) = f[Len(f) - FailureThreshold]
    BY <1>4, <1>7 DEF Back
  <2> QED BY <1>1, <2>2, <2>4, <2>5
<1> QED BY <1>4, <1>7, <1>8, <1>9 DEF f, LongPast

LEMMA BreakerStep ==
  ASSUME TypeInv, SlotInv, BreakerInv, [RouterNext]_routerVars PROVE BreakerInv'
<1>0. /\ now' \in Nat /\ now' >= now /\ now \in Nat /\ failures \in Nat
      /\ failed_at \in Seq(Nat) /\ Len(failed_at) \in Nat
      /\ FailureThreshold \in Nat \ {0} /\ ResetAfter \in Nat
      /\ opened_at \in Nat \cup {NotOpen}
  BY TimePasses, ConstantsAreNumbers DEF TypeInv
<1>1. Past(failed_at, now') /\ (Closed => LongPast(failed_at, failures, now'))
  BY <1>0, PastStaysPast, LongPastStays DEF BreakerInv
<1>2. CASE UNCHANGED <<breaker, failed_at>> /\ (guard' = "idle" \/ Closed)
  BY <1>1, <1>2 DEF BreakerInv, breaker, Closed, DownProviderIsSpared
<1>3. CASE RefuseOverBudget \/ RefuseCircuitOpen \/ Pause \/ UNCHANGED routerVars
  <2>1. UNCHANGED <<breaker, failed_at, guard>>
    BY <1>3 DEF RefuseOverBudget, RefuseCircuitOpen, Pause, routerVars, notes
  <2> QED BY <1>2, <2>1 DEF BreakerInv
<1>4. CASE Acquire \/ ProviderFailsRetry
  <2>1. UNCHANGED <<breaker, failed_at>> /\ guard # "idle"
    BY <1>4 DEF Acquire, ProviderFailsRetry
  <2> QED BY <1>2, <2>1 DEF BreakerInv
<1>5. CASE Accept
  <2>1. opened_at' = NotOpen /\ failed_at' = failed_at /\ now' = now
    BY <1>5 DEF Accept
  <2>2. CASE Closed
    <3>1. failures' = failures
      BY <1>5, <2>2 DEF Accept, Elapsed, Closed
    <3> QED BY <1>1, <2>1, <2>2, <3>1 DEF BreakerInv, Closed, DownProviderIsSpared
  <2>3. CASE ~Closed
    <3>1. Elapsed /\ failures' = 0
      BY <1>5, <2>3 DEF Accept
    <3>2. LongPast(failed_at, 0, now)
      <4> SUFFICES ASSUME NEW j \in 0 .. Len(failed_at) - 1 PROVE now >= Back(failed_at, j) + ResetAfter
        BY DEF LongPast
      <4>0. Len(failed_at) \in Nat /\ j \in Nat /\ j <= Len(failed_at) - 1
        BY <1>0
      <4>1. /\ Len(failed_at) - j \in 1 .. Len(failed_at) /\ Len(failed_at) \in 1 .. Len(failed_at)
            /\ Len(failed_at) - j <= Len(failed_at)
        BY <4>0
      <4>2. failed_at[Len(failed_at) - j] <= failed_at[Len(failed_at)]
        BY <4>1 DEF BreakerInv, Past, Chronological
      <4>3. opened_at = failed_at[Len(failed_at)]
        BY <1>0, <2>3 DEF BreakerInv, Back
      <4>4. now - opened_at >= ResetAfter
        BY <3>1 DEF Elapsed
      <4>5. failed_at[Len(failed_at) - j] \in Nat /\ failed_at[Len(failed_at)] \in Nat
        BY <1>0, <4>1
      <4>6. opened_at \in Nat /\ now >= opened_at + ResetAfter
        BY SMTT(30), <1>0, <4>3, <4>4, <4>5
      <4>7. now >= failed_at[Len(failed_at) - j] + ResetAfter
        BY SMTT(30), <1>0, <4>2, <4>3, <4>5, <4>6
      <4> QED BY <4>7 DEF Back
    <3>3. 0 <= Len(failed_at) /\ 0 < FailureThreshold
      BY <1>0
    <3> QED BY <2>1, <3>1, <3>2, <3>3 DEF BreakerInv, Closed, DownProviderIsSpared
  <2> QED BY <2>2, <2>3
<1>6. CASE ProviderAnswers
  <2>1. failures' = 0 /\ opened_at' = NotOpen /\ failed_at' = <<>>
    BY <1>6 DEF ProviderAnswers
  <2>2. Len(<<>>) = 0 /\ \A n \in 0 .. 0 - 1 : FALSE
    OBVIOUS
  <2>3. LongPast(<<>>, 0, now')
    BY <2>2 DEF LongPast
  <2>4. Past(<<>>, now')
    BY <2>2 DEF Past, Chronological
  <2>5. AtMost(FailureThreshold, <<>>, ResetAfter)
    BY <1>0, <2>2 DEF AtMost
  <2>6. 0 <= Len(<<>>) /\ Len(<<>>) <= FailureThreshold + 1 /\ 0 < FailureThreshold
    BY <1>0, <2>2
  <2> QED BY <2>1, <2>3, <2>4, <2>5, <2>6 DEF BreakerInv, Closed, DownProviderIsSpared
<1>7. CASE ProviderFailsForGood
  <2>1. PICK at \in Nat : at = now' /\ at >= now
    BY <1>0
  <2>2. PICK f : f = Noted(failed_at, at, FailureThreshold + 1) /\ failed_at' = f
    BY <1>7, <2>1 DEF ProviderFailsForGood
  <2>3. Closed /\ guard' = "idle" /\ failures' = failures + 1
    BY <1>7 DEF ProviderFailsForGood, BreakerInv
  <2>4. f \in Seq(Nat) /\ Past(f, at) /\ failures + 1 <= Len(f) /\ Len(f) <= FailureThreshold + 1
    BY <2>1, <2>2, <2>3, FailureIsCounted
  <2>5. Back(f, 0) = at /\ LongPast(f, failures + 1, at)
    BY <2>1, <2>2, <2>3, FailureIsCounted
  <2>6. AtMost(FailureThreshold, f, ResetAfter)
    BY <2>1, <2>2, <2>3, FailureIsCounted
  <2>7. CASE failures + 1 >= FailureThreshold
    <3>1. opened_at' = at
      BY <1>7, <2>1, <2>7 DEF ProviderFailsForGood, OpenedBy
    <3>2. at # NotOpen /\ Len(f) >= FailureThreshold
      BY <1>0, <2>4, <2>7 DEF NotOpen
    <3> QED
      BY <2>1, <2>2, <2>3, <2>4, <2>5, <2>6, <3>1, <3>2 DEF BreakerInv, Closed, DownProviderIsSpared
  <2>8. CASE ~(failures + 1 >= FailureThreshold)
    <3>1. opened_at' = NotOpen
      BY <1>7, <2>3, <2>8 DEF ProviderFailsForGood, OpenedBy, Closed
    <3>2. failures + 1 < FailureThreshold
      BY <1>0, <2>8
    <3> QED
      BY <2>1, <2>2, <2>3, <2>4, <2>5, <2>6, <3>1, <3>2 DEF BreakerInv, Closed, DownProviderIsSpared
  <2> QED BY <2>7, <2>8
<1> QED BY <1>3, <1>4, <1>5, <1>6, <1>7 DEF RouterNext

GuardInv == SlotsAreTyped /\ BreakerInv

LEMMA BreakerIsKept == RouterSpec => []GuardInv
<1>1. RouterInit => BreakerInv
  <2>1. Len(<<>>) = 0 /\ \A n \in 0 .. 0 - 1 : FALSE
    OBVIOUS
  <2>2. LongPast(<<>>, 0, 0) /\ Past(<<>>, 0)
    BY <2>1 DEF LongPast, Past, Chronological
  <2>3. FailureThreshold \in Nat \ {0}
    BY ConstantsAreNumbers
  <2>4. AtMost(FailureThreshold, <<>>, ResetAfter)
    BY <2>1, <2>3 DEF AtMost
  <2> QED BY <2>1, <2>2, <2>3, <2>4 DEF RouterInit, BreakerInv, Closed, DownProviderIsSpared
<1>2. SlotsAreTyped /\ BreakerInv /\ [RouterNext]_routerVars => BreakerInv'
  BY BreakerStep DEF SlotsAreTyped
<1> QED BY <1>1, <1>2, SlotsAreKept, PTL DEF RouterSpec, GuardInv

\* A provider that is down is left alone: FailureThreshold + 1 failed requests without a
\* success between them take at least ResetAfter (resilience.py: CircuitBreaker).
THEOREM DownProvidersAreSpared == RouterSpec => []DownProviderIsSpared
<1>1. GuardInv => DownProviderIsSpared
  BY DEF GuardInv, BreakerInv
<1> QED BY <1>1, BreakerIsKept, PTL

\* The breaker never refuses a provider that works: behind a refusal there are
\* FailureThreshold failed requests in a row, the last less than ResetAfter ago
\* (resilience.py: CircuitBreaker.allow).
THEOREM RefusalsHaveReasons == RouterSpec => RefusedForAReason
<1>1. GuardInv /\ [RouterNext]_routerVars =>
        [ answer # "CircuitOpen" /\ answer' = "CircuitOpen" =>
            /\ Len(failed_at) >= FailureThreshold
            /\ now - failed_at[Len(failed_at)] < ResetAfter ]_routerVars
  <2> SUFFICES ASSUME GuardInv, RouterNext, answer # "CircuitOpen", answer' = "CircuitOpen"
               PROVE  /\ Len(failed_at) >= FailureThreshold
                      /\ now - failed_at[Len(failed_at)] < ResetAfter
    OBVIOUS
  <2>1. RefuseCircuitOpen
    BY DEF RouterNext, RefuseOverBudget, Accept, Acquire, ProviderAnswers, ProviderFailsRetry,
           ProviderFailsForGood, Pause
  <2>2. ~Closed /\ ~Elapsed
    BY <2>1 DEF RefuseCircuitOpen
  <2>3. /\ Len(failed_at) >= FailureThreshold /\ opened_at = Back(failed_at, 0)
        /\ now \in Nat /\ opened_at \in Nat /\ ResetAfter \in Nat /\ Len(failed_at) \in Nat
    BY <2>2, ConstantsAreNumbers DEF GuardInv, BreakerInv, SlotsAreTyped, TypeInv, Closed
  <2>4. ~(now - opened_at >= ResetAfter)
    BY <2>2 DEF Elapsed, Closed
  <2>5. opened_at = failed_at[Len(failed_at)]
    BY <2>3 DEF Back
  <2> QED BY <2>3, <2>4, <2>5
<1> QED BY <1>1, BreakerIsKept, PTL DEF RouterSpec, RefusedForAReason

-----------------------------------------------------------------------------
(* The clock. *)

SlowestCall == Max(Latencies)
LatestWaking == Max(Oversleeps)

\* One failed attempt and the backoff after it, and the wait for a slot before the first.
SlowestRound == SlowestCall + MaxDelay + LatestWaking
Wait == PerSeconds + LatestWaking

LEMMA TimesAreShort ==
  /\ SlowestCall \in Nat /\ \A latency \in Latencies : latency \in Nat /\ latency <= SlowestCall
  /\ LatestWaking \in Nat /\ \A late \in Oversleeps : late \in Nat /\ late <= LatestWaking
<1>1. Latencies \subseteq Nat /\ Oversleeps \subseteq Nat
  BY ConstantsAreNumbers
<1>2. PICK slowest \in Latencies : \A t \in Latencies : t <= slowest
  BY TimesHaveATop
<1>3. PICK latest \in Oversleeps : \A t \in Oversleeps : t <= latest
  BY TimesHaveATop
<1>4. SlowestCall \in Latencies /\ \A t \in Latencies : t <= SlowestCall
  BY <1>1, <1>2 DEF SlowestCall, Max
<1>5. LatestWaking \in Oversleeps /\ \A t \in Oversleeps : t <= LatestWaking
  BY <1>1, <1>3 DEF LatestWaking, Max
<1> QED BY <1>1, <1>4, <1>5

LEMMA RoundsAreNumbers == SlowestRound \in Nat /\ Wait \in Nat
<1>1. MaxDelay \in Nat /\ PerSeconds \in Nat
  BY ConstantsAreNumbers
<1> QED BY <1>1, TimesAreShort DEF SlowestRound, Wait

LEMMA RoundsAddUp ==
  ASSUME NEW r \in Nat, NEW k \in Nat
  PROVE  k * r \in Nat /\ (k + 1) * r = k * r + r
  OBVIOUS

\* A request in progress is never behind the rounds it has been through.
ClockInv ==
  /\ guard # "idle" => answer = "none"
  /\ guard = "limiter" => now = asked_at
  /\ guard = "attempt" => now <= asked_at + Wait + (attempt - 1) * SlowestRound
  /\ AnsweredInTime

\* MaxAttempts calls, and a backoff after each but the last.
LEMMA LongestIsRounds ==
  LongestRequest \in Nat /\ LongestRequest = Wait + (MaxAttempts - 1) * SlowestRound + SlowestCall
<1> DEFINE k == MaxAttempts - 1
           c == SlowestCall
           d == MaxDelay + LatestWaking
<1>1. k \in Nat /\ c \in Nat /\ d \in Nat /\ Wait \in Nat /\ MaxAttempts = k + 1
  BY TimesAreShort, ConstantsAreNumbers DEF Wait
<1>2. SlowestRound = c + d
  BY TimesAreShort, ConstantsAreNumbers DEF SlowestRound
<1>3. LongestRequest = Wait + MaxAttempts * c + k * d
  BY DEF LongestRequest, Wait, SlowestCall, LatestWaking
<1> HIDE DEF k, c, d
<1>4. (k + 1) * c = k * c + c /\ k * (c + d) = k * c + k * d
  BY <1>1
<1>5. k * c \in Nat /\ k * d \in Nat
  BY <1>1
<1>6. LongestRequest = Wait + k * SlowestRound + c /\ LongestRequest \in Nat
  BY <1>1, <1>2, <1>3, <1>4, <1>5
<1> QED BY <1>6 DEF k, c

\* Earlier attempts have been through fewer rounds.
LEMMA AttemptsEndInTime ==
  ASSUME TypeInv, ClockInv, guard = "attempt", NEW latency \in Latencies
  PROVE  now + latency <= asked_at + LongestRequest
<1>1. /\ attempt \in 1 .. MaxAttempts /\ now \in Nat /\ asked_at \in Nat
      /\ SlowestRound \in Nat /\ Wait \in Nat /\ SlowestCall \in Nat /\ MaxAttempts \in Nat \ {0}
      /\ latency \in Nat /\ latency <= SlowestCall
  BY TimesAreShort, RoundsAreNumbers, ConstantsAreNumbers DEF TypeInv
<1>2. now <= asked_at + Wait + (attempt - 1) * SlowestRound
  BY DEF ClockInv
<1>3. \A a \in Nat, b \in Nat, r \in Nat : a <= b => a * r \in Nat /\ b * r \in Nat /\ a * r <= b * r
  <2>1. \A a \in Nat, d \in Nat, r \in Nat : (a + d) * r = a * r + d * r /\ a * r \in Nat /\ d * r \in Nat
    OBVIOUS
  <2> SUFFICES ASSUME NEW a \in Nat, NEW b \in Nat, NEW r \in Nat, a <= b
               PROVE  a * r \in Nat /\ b * r \in Nat /\ a * r <= b * r
    OBVIOUS
  <2>2. PICK d \in Nat : b = a + d
    <3>1. b - a \in Nat /\ b = a + (b - a)
      OBVIOUS
    <3> QED BY <3>1
  <2>3. b * r = a * r + d * r /\ a * r \in Nat /\ d * r \in Nat
    BY <2>1, <2>2
  <2> QED BY <2>3
<1>4. attempt - 1 \in Nat /\ MaxAttempts - 1 \in Nat /\ attempt - 1 <= MaxAttempts - 1
  BY <1>1
<1>5. PICK x \in Nat, y \in Nat : x = (attempt - 1) * SlowestRound /\ y = (MaxAttempts - 1) * SlowestRound /\ x <= y
  BY <1>1, <1>3, <1>4
<1>6. LongestRequest = Wait + y + SlowestCall
  BY <1>5, LongestIsRounds
<1> QED BY <1>1, <1>2, <1>5, <1>6

LEMMA ClockStep ==
  ASSUME TypeInv, SlotInv, ClockInv, [RouterNext]_routerVars PROVE ClockInv'
<1>0. /\ now \in Nat /\ asked_at \in Nat /\ LongestRequest \in Nat
      /\ SlowestRound \in Nat /\ Wait \in Nat /\ PerSeconds \in Nat
  BY LongestIsRounds, RoundsAreNumbers, ConstantsAreNumbers DEF TypeInv
<1>1. CASE RefuseOverBudget \/ RefuseCircuitOpen \/ Pause
  <2>1. guard = "idle" /\ guard' = "idle" /\ answer' \in {"none", "BudgetExceeded", "CircuitOpen"}
    BY <1>1 DEF RefuseOverBudget, RefuseCircuitOpen, Pause
  <2> QED BY <2>1 DEF ClockInv, AnsweredInTime
<1>2. CASE Accept
  BY <1>2 DEF Accept, ClockInv, AnsweredInTime
<1>3. CASE Acquire
  <2>1. PICK at \in Nat : /\ now' = at
                          /\ \/ at = now
                             \/ \E late \in Oversleeps : at <= now + PerSeconds + late
    BY <1>3, AcquireWaits
  <2>2. guard' = "attempt" /\ attempt' = 1 /\ asked_at' = asked_at /\ answer' = "none" /\ now = asked_at
    BY <1>3 DEF Acquire, ClockInv
  <2>3. at <= asked_at + Wait
    BY <1>0, <2>1, <2>2, TimesAreShort DEF Wait
  <2>4. (1 - 1) * SlowestRound = 0
    BY <1>0
  <2>5. at <= asked_at + Wait + (1 - 1) * SlowestRound
    BY <1>0, <2>3, <2>4
  <2> QED BY <2>1, <2>2, <2>5 DEF ClockInv, AnsweredInTime, SlowestRound, Wait, SlowestCall, LatestWaking
<1>4. CASE ProviderFailsRetry
  <2>0. attempt \in 1 .. MaxAttempts /\ MaxAttempts \in Nat
    BY <1>4, ConstantsAreNumbers DEF ProviderFailsRetry, TypeInv
  <2>1. attempt \in 1 .. MaxAttempts /\ attempt \in Nat /\ attempt - 1 \in Nat
    BY <2>0
  <2>2. PICK latency \in Latencies, late \in Oversleeps :
          now' = now + latency + DelayFor(attempt) + late
    BY <1>4 DEF ProviderFailsRetry
  <2>3. PICK delay \in Nat : delay = DelayFor(attempt) /\ delay <= MaxDelay
    BY <2>1, DelayIsShort, ConstantsAreNumbers
  <2>4. PICK at \in Nat : at = now' /\ at <= now + SlowestRound
    BY <1>0, <2>2, <2>3, TimesAreShort, ConstantsAreNumbers DEF SlowestRound
  <2>5. PICK x \in Nat : x = (attempt - 1) * SlowestRound /\ attempt * SlowestRound = x + SlowestRound
    <3>1. (attempt - 1) * SlowestRound \in Nat /\ (attempt - 1 + 1) * SlowestRound = (attempt - 1) * SlowestRound + SlowestRound
      BY <1>0, <2>1, RoundsAddUp
    <3>2. attempt - 1 + 1 = attempt
      BY <2>1
    <3> QED BY <3>1, <3>2
  <2>6. now <= asked_at + Wait + x
    BY <1>4, <2>5 DEF ProviderFailsRetry, ClockInv
  <2>7. at <= asked_at + Wait + attempt * SlowestRound
    BY <1>0, <2>4, <2>5, <2>6
  <2>8. /\ guard' = "attempt" /\ asked_at' = asked_at /\ answer' = "none" /\ attempt' = attempt + 1
        /\ attempt + 1 - 1 = attempt
    BY <1>4, <2>1 DEF ProviderFailsRetry, ClockInv
  <2>9. now' <= asked_at' + Wait + (attempt' - 1) * SlowestRound
    <3>1. PICK n \in Nat : n = attempt + 1 /\ n - 1 = attempt
      BY <2>1
    <3>2. at <= asked_at + Wait + (n - 1) * SlowestRound
      BY <2>7, <3>1
    <3>3. attempt' = n
      BY <2>8, <3>1
    <3> QED BY <2>4, <2>8, <3>2, <3>3
  <2> QED BY <2>8, <2>9 DEF ClockInv, AnsweredInTime, SlowestRound, Wait, SlowestCall, LatestWaking
<1>5. CASE ProviderAnswers \/ ProviderFailsForGood
  <2>1. PICK latency \in Latencies : now' = now + latency
    BY <1>5 DEF ProviderAnswers, ProviderFailsForGood
  <2>2. guard = "attempt" /\ guard' = "idle" /\ asked_at' = asked_at /\ answer' \in {"response", "failure"}
    BY <1>5 DEF ProviderAnswers, ProviderFailsForGood
  <2>3. PICK at \in Nat : at = now' /\ at <= asked_at + LongestRequest
    <3>1. now + latency <= asked_at + LongestRequest /\ latency \in Nat
      BY <2>2, AttemptsEndInTime, TimesAreShort
    <3> QED BY <1>0, <2>1, <3>1
  <2>4. at - asked_at <= LongestRequest
    <3>1. \A m, n, d \in Nat : m <= n + d => m - n <= d
      OBVIOUS
    <3> QED BY <1>0, <2>3, <3>1
  <2>5. now' - asked_at' <= LongestRequest
    BY <2>2, <2>3, <2>4
  <2> QED BY <2>2, <2>5 DEF ClockInv, AnsweredInTime, LongestRequest
<1>6. CASE UNCHANGED routerVars
  BY <1>6 DEF routerVars, notes, ClockInv, AnsweredInTime, SlowestRound, Wait, LongestRequest
<1> QED BY <1>1, <1>2, <1>3, <1>4, <1>5, <1>6 DEF RouterNext

\* However slow the provider, however many attempts fail and however late each sleep ends, a
\* request is answered within LongestRequest (router.py: ModelRouter.complete; resilience.py:
\* RetryPolicy, RateLimiter.acquire).
THEOREM RequestsAreAnsweredInTime == RouterSpec => []AnsweredInTime
<1>1. RouterInit => ClockInv
  BY DEF RouterInit, ClockInv, AnsweredInTime
<1>2. SlotsAreTyped /\ ClockInv /\ [RouterNext]_routerVars => ClockInv'
  BY ClockStep DEF SlotsAreTyped
<1>3. ClockInv => AnsweredInTime
  BY DEF ClockInv
<1> QED BY <1>1, <1>2, <1>3, SlotsAreKept, PTL DEF RouterSpec

=============================================================================
