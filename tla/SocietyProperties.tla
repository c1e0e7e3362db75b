------------------------- MODULE SocietyProperties -------------------------
(* What the evaluation promises, and the instance TLC checks. *)
EXTENDS Society, TLC

\* How a round of this width should end, given who entered it.
Just(record, pool, width, kept) ==
  LET fit == {i \in pool : ~Disqualifies(record[i])}
      better(i) == {j \in kept : Before(record, j, i)}
  IN  /\ kept # {} /\ kept \subseteq pool
      /\ Cardinality(kept) <= width
      /\ \A i, j \in kept : i # j => ~Similar(i, j)
      /\ fit # {} =>
           /\ kept \subseteq fit
           /\ \A i \in fit \ kept :
                \/ \E j \in better(i) : Similar(i, j)
                \/ better(i) = kept /\ Cardinality(kept) = width
      /\ fit = {} => \A i \in kept, j \in pool \ kept : Before(record, i, j)

\* A round keeps at least one idea and at most its width.  If any idea is fit, the
\* survivors are fit, no two are twins, and a fit idea that was left out is the
\* twin of a better survivor or found every place taken by a better one; if none
\* is, the best survives alone (services/tournament_service.py: select).
RoundsAreJust == last.pool # {} => Just(stored, last.pool, last.width, last.kept)

\* A confident rejection is never forgotten: whatever later sessions say, and
\* however often the idea is carried forward and judged again, its total stays
\* under the ceiling (policies/scoring.py: total_for).
OnceBlockedAlwaysCapped ==
  [][\A i \in Ideas : stored[i].blocks > 0 =>
       stored'[i].blocks > 0 /\ stored'[i].total <= BlockedCeiling]_stored

\* A critic that was asked five times and never gave a valid answer is reported
\* unhealthy, however its failures are spread over the counters (agents/base.py).
SilentCriticsAreNoticed ==
  \A n \in 1 .. Len(Critics) :
    /\ health[n].calls >= 5
    /\ health[n].calls = health[n].failures + health[n].schema_violations
    => IsUnhealthy(health[n])

-----------------------------------------------------------------------------
SomeTexts ==
  [i \in Ideas |-> IF i = 1 THEN [intended |-> 15, measured |-> 0, question |-> TRUE]
                   ELSE [intended |-> 50, measured |-> 90, question |-> i = 2]]

DefaultWeights ==
  [originality |-> 20, narrative_potential |-> 15, depth |-> 15, plausibility |-> 10,
   emotional_impact |-> 10, commercial_potential |-> 10, authorial_identity |-> 10,
   expandability |-> 5, audiovisual_potential |-> 5]

SomeTwins == {{2, 3}}

RedAndBlue == <<"RED_TEAM_AGENT", "BLUE_TEAM_AGENT">>

Silent(kind) == [Unavailable EXCEPT !.kind = kind]

Attack ==
  [kind |-> "valid", verdict |-> "REJECT", confidence |-> 80,
   scores |-> ("originality" :> Points(60) @@ "depth" :> Points(90))]

Defence ==
  [kind |-> "valid", verdict |-> "SUPPORT", confidence |-> 60,
   scores |-> ("originality" :> Points(80) @@ "emotional_impact" :> Points(90))]

RedAndBlueReplies ==
  <<{Attack, Silent("raised"), Silent("malformed")}, {Defence, Silent("empty")}>>

FunnelWidths == <<3, 2>>
=============================================================================
