----------------------------- MODULE Production -----------------------------
(***************************************************************************)
(* From the verdict to the files a person opens: judging, developing the  *)
(* winner, promoting it to a project, handing it to the production engines *)
(* and writing the record of the cycle (application/use_cases/competing.py,*)
(* application/orchestration, domain/entities/project.py, the output       *)
(* writer and the hand-off adapters).  Everything a phase leaves behind is *)
(* a write of its own; the process may be killed between any two, and dies *)
(* of the KeyError of an agent the configuration disabled.                 *)
(* The clock enters these phases at most once a cycle and in this order    *)
(* (NoPhaseTwice and WorkInOrder of RuntimeProperties, which leaves the    *)
(* order of EXPLORATION and DREAMING open: days where a dream comes first  *)
(* are left out); rounds and scores are in Concepts and Society, so any    *)
(* survivors and any verdict may come.  Every id is drawn from one stream  *)
(* of the process, and with the seed of the default configuration every    *)
(* process draws the same ones and writes over the files of the last.      *)
(***************************************************************************)
EXTENDS Integers, FiniteSets, SequencesExt

CONSTANTS
  Gaps,            \* bound: the sets of agents a configuration may disable
  Silences,        \* bound: the sets of agents that may fall back on an empty answer
  Strengths,       \* bound: the sets of engines a concept's scores may call for
  HandoffEnabled,  \* flags.production_handoff_enabled
  IdsRepeat,       \* does every process draw its ids from the same seed?
  Skippable,       \* bound: phases a cycle may leave out
  MaxCycles,       \* bound: cycles begun
  MaxDates,        \* bound: the last date
  MaxFaults        \* bound: phases abandoned and processes killed

\* An idea has a handful of scores.
ASSUME StrengthsAreFinite == \A strong \in Strengths : IsFiniteSet(strong)

VARIABLES
  phase,    \* the phase, "between" two phases, "asleep", or "down"
  step,     \* what the phase does once nothing is owed
  visited,  \* phases of the cycle
  cycle,    \* the current cycle
  society,  \* the agents live in this process
  today,    \* the date
  folder,   \* the date folder of this process
  former,   \* the files of other processes whose ids this one draws again
  todo,     \* the writes the phase still owes
  hand,     \* what the phase holds in memory: finalists, or the winner and its project
  outcome,  \* CycleOutcome
  disk,     \* every file, by place
  faults

held == <<visited, cycle, society, folder, former, outcome>>
vars == <<phase, step, todo, hand, today, disk, faults, held>>

-----------------------------------------------------------------------------
(* Places and writes. *)

Holds(place, value) == place \in DOMAIN disk /\ disk[place] = value
Stored(kind) == {p[2] : p \in {q \in DOMAIN disk : q[1] = kind}}
Concept(i) == disk[<<"concepts", i>>]

Write(place, value) == [place |-> place, value |-> value]

\* The files, with this one written.
With(place, value) ==
  [q \in DOMAIN disk \cup {place} |-> IF q = place THEN value ELSE disk[q]]

\* Variant for mutation runs: the folder follows the date.
OutToday(path, value) == Write(<<"outputs", today, cycle, path>>, value)

\* outputs/<date the process started>/<cycle>/<path>
Out(path, value) == Write(<<"outputs", folder, cycle, path>>, value)

\* JSON goes through a temporary file; the rest is written in place.
InPlace == {"concepts/leaderboard.md", "winner/concept.md", "winner/premise.md", "winner/pitch.md",
            "winner/synopsis.md", "winner/world_bible.md", "winner/characters.md",
            "genome/creative_genome.yaml"}
MayTear(w) == w.place[1] = "outputs" /\ w.place[4] \in InPlace

Saved(i, c) == Write(<<"concepts", i>>, c)
SavedAt(i, stage) == Saved(i, [Concept(i) EXCEPT !.stage = stage])

\* Those of a set, in some order.
SavedEach(S, stage) == SetToSeq({SavedAt(i, stage) : i \in S})

-----------------------------------------------------------------------------
(* Ideas, projects and their manifests. *)

Nobody == 0
Nothing == [winner |-> Nobody, title |-> "", project |-> 0]

AliveStages == {"SEED", "CONCEPT", "PREMISE", "PITCH", "EXPERIMENT", "CANDIDATE", "FINALIST", "APPROVED",
                "PROJECT", "PRODUCTION_READY"}

\* An idea as BuildCreativeConcepts leaves it; the premise is optional.  "REJECTED"
\* stands for wherever a rejected idea is sent.
Draft(premised, strong) ==
  [stage |-> "CONCEPT", cycle |-> cycle, title |-> "working", strong |-> strong,
   artifacts |-> [key \in (IF premised THEN {"premise"} ELSE {}) |-> <<"premise">>]]

\* Variant for mutation runs: every living idea competes again, whatever its day.
CompetitorsOfEveryDay == {i \in Stored("concepts") : Concept(i).stage \in AliveStages}

\* The living ideas of the cycle, and those carried forward from earlier ones.
Competitors ==
  {i \in Stored("concepts") : \/ Concept(i).cycle = cycle /\ Concept(i).stage \in AliveStages
                              \/ Concept(i).cycle # cycle /\ Concept(i).stage = "CONCEPT"}

Builders == {"WORLD_ARCHITECT_AGENT", "CHARACTER_ARCHITECT_AGENT", "EXTREME_CONSEQUENCE_AGENT",
             "PITCH_BUILDER", "SYNOPSIS_BUILDER"}

\* What an agent writes: nothing where it fell back on its empty answer.
Said(agent, silent, text) == IF agent \in silent THEN <<>> ELSE <<text>>

ProposedTitle(c, silent) ==
  IF "TITLE_AGENT" \in society \ silent THEN "proposed" ELSE c.title

\* The consequences are appended to the premise, or to the logline that stands for one.
Developed(c, silent) ==
  LET premise == IF "premise" \in DOMAIN c.artifacts THEN c.artifacts["premise"] ELSE <<"logline">>
      built == [world_bible |-> Said("WORLD_ARCHITECT_AGENT", silent, "world"),
                characters |-> Said("CHARACTER_ARCHITECT_AGENT", silent, "characters"),
                premise |-> premise \o Said("EXTREME_CONSEQUENCE_AGENT", silent, "consequences"),
                pitch |-> Said("PITCH_BUILDER", silent, "pitch"),
                synopsis |-> Said("SYNOPSIS_BUILDER", silent, "synopsis")]
      all == [key \in DOMAIN built \cup DOMAIN c.artifacts |->
                IF key \in DOMAIN built THEN built[key] ELSE c.artifacts[key]]
  IN  [c EXCEPT !.title = ProposedTitle(c, silent), !.artifacts = all]

\* A book always; the others where their score reaches the threshold.
SuggestEngines(c) == {"living_book_engine"} \cup c.strong

Project(i, c) ==
  [concept |-> i, title |-> c.title, cycle |-> cycle, artifacts |-> c.artifacts,
   status |-> "PRODUCTION_READY", engines |-> SuggestEngines(c), traces |-> <<"CREATIVE_JUDGE_AGENT">>]

Manifest(id, p) ==
  [project |-> id, concept |-> p.concept, title |-> p.title, cycle |-> p.cycle, status |-> p.status,
   engines |-> p.engines, artifacts |-> DOMAIN p.artifacts]

Accepts(engine, manifest) == HandoffEnabled /\ engine \in manifest.engines

-----------------------------------------------------------------------------
(* The record of a cycle. *)

PhaseInputs ==
  << Out("observations/observations.json", cycle), Out("questions/questions.json", cycle),
     Out("seeds/seeds.json", cycle) >>

ConceptRecord(ids) ==
  << Out("concepts/concepts.json", ids), Out("concepts/leaderboard.md", ids),
     Out("rejected/rejected.json", {i \in ids : Concept(i).stage = "REJECTED"}) >>

Tournament(winner, finished) == [winner |-> winner, finished |-> finished]
SavedTournament(t) == << Write(<<"tournaments", cycle>>, t) >>
TournamentRecord(t) == << Out("tournament/tournament.json", t) >>
FinalistRecord(ids) == << Out("finalists/finalists.json", ids) >>

\* A markdown artifact: a notice stands for a text that is missing or empty.
Md(artifacts, key) ==
  IF key \in DOMAIN artifacts /\ artifacts[key] # <<>> THEN artifacts[key] ELSE <<"not generated">>

\* The files of a package, each with what it says.
PackageFiles(i, artifacts, id, p) ==
  << <<"winner/concept.md", <<"logline">> >>, <<"winner/premise.md", Md(artifacts, "premise")>>,
     <<"winner/pitch.md", Md(artifacts, "pitch")>>, <<"winner/synopsis.md", Md(artifacts, "synopsis")>>,
     <<"winner/world_bible.md", Md(artifacts, "world_bible")>>,
     <<"winner/characters.md", Md(artifacts, "characters")>>, <<"genome/creative_genome.yaml", i>>,
     <<"winner/evaluation.json", i>>, <<"winner/execution_manifest.json", Manifest(id, p)>> >>

WinnerPackage(i, c, id, p) ==
  LET files == PackageFiles(i, c.artifacts, id, p)
  IN  [k \in DOMAIN files |-> Out(files[k][1], files[k][2])]

DreamRecord == << Out("learning/dream.json", cycle) >>
LearningRecord == << Out("learning/learning.json", outcome.title) >>
RuntimeRecord == << Out("runtime/runtime.json", outcome) >>

-----------------------------------------------------------------------------
(* The process and its cycle. *)

Init ==
  /\ phase = "down" /\ step = "start" /\ visited = {} /\ cycle = 0 /\ society = {}
  /\ today = 1 /\ folder = 1 /\ former = {} /\ todo = <<>> /\ hand = Nobody /\ outcome = Nothing
  /\ disk = <<>> /\ faults = 0

\* build_brain(): the society of this configuration, the date of the output folder
\* and, from a seed of its own or the last one's, the ids to come.
Boot ==
  /\ phase = "down" /\ phase' = "asleep" /\ folder' = today
  /\ \E gap \in Gaps :
       society' = (Builders \cup {"TITLE_AGENT", "LORE_CONNECTION_AGENT", "CREATIVE_JUDGE_AGENT"}) \ gap
  /\ IF IdsRepeat THEN former' = DOMAIN disk /\ cycle' = 0 ELSE UNCHANGED <<former, cycle>>
  /\ UNCHANGED <<step, visited, today, todo, hand, outcome, disk, faults>>

BeginCycle ==
  /\ phase = "asleep" /\ cycle < MaxCycles
  /\ cycle' = cycle + 1 /\ outcome' = Nothing /\ phase' = "between" /\ visited' = {}
  /\ UNCHANGED <<step, society, folder, former, today, todo, hand, disk, faults>>

Midnight ==
  /\ phase # "down" /\ today < MaxDates /\ today' = today + 1
  /\ UNCHANGED <<phase, step, todo, hand, disk, faults, held>>

CycleOrder == <<"CREATION", "REFLECTION", "EXPLORATION", "CONSOLIDATION", "DREAMING", "DEEP_SLEEP">>

\* Nothing but skippable phases is left out before the n-th.
Reached(n) == \A k \in 1 .. n - 1 : CycleOrder[k] \in visited \cup Skippable

Enter(n) ==
  /\ phase = "between" /\ Reached(n) /\ \A k \in n .. Len(CycleOrder) : CycleOrder[k] \notin visited
  /\ phase' = CycleOrder[n] /\ step' = "start" /\ visited' = visited \cup {CycleOrder[n]}
  /\ UNCHANGED <<cycle, society, folder, former, outcome, todo, hand, today, disk, faults>>

At(p, s) == phase = p /\ step = s /\ todo = <<>>

\* The phase owes these writes, holds this, and goes on to next.
Owe(writes, holding, next) ==
  /\ todo' = writes /\ hand' = holding /\ step' = next
  /\ UNCHANGED <<phase, today, disk, faults, held>>

WriteNext ==
  /\ todo # <<>> /\ todo' = Tail(todo)
  /\ disk' = With(Head(todo).place, Head(todo).value) /\ former' = former \ {Head(todo).place}
  /\ UNCHANGED <<phase, step, hand, today, faults, visited, cycle, society, folder, outcome>>

Leave ==
  /\ step = "done" /\ todo = <<>>
  /\ phase' = (IF phase = "DEEP_SLEEP" THEN "asleep" ELSE "between") /\ step' = "start" /\ hand' = Nobody
  /\ UNCHANGED <<todo, today, disk, faults, held>>

-----------------------------------------------------------------------------
(* The phases. *)

\* The next id of a kind.
NewId(kind) == Cardinality({i \in Stored(kind) : <<kind, i>> \notin former}) + 1

Born(premised, strong) == Saved(NewId("concepts"), Draft(premised, strong))

Create ==
  /\ At("CREATION", "start")
  /\ \/ Owe(PhaseInputs, Nobody, "done")
     \/ \E premised \in BOOLEAN, strong \in Strengths :
          Owe(<<Born(premised, strong)>> \o PhaseInputs, Nobody, "done")

\* The funnel: those who fall are saved as they fall, the others promoted.
Compete ==
  /\ At("REFLECTION", "start") /\ Competitors # {}
  /\ \E finalists \in SUBSET Competitors \ {{}} :
       Owe(ConceptRecord(Competitors)
           \o SavedEach(Competitors \ finalists, "REJECTED")
           \o SavedEach(finalists, "FINALIST")
           \o SavedTournament(Tournament(Nobody, FALSE)) \o TournamentRecord(Tournament(Nobody, FALSE))
           \o FinalistRecord(finalists), finalists, "judge")

NobodyCompetes == At("REFLECTION", "start") /\ Competitors = {} /\ Owe(<<>>, Nobody, "done")

\* The judge refuses some finalists and approves the next, who is not looked at again.
Approve ==
  /\ At("REFLECTION", "judge") /\ "CREATIVE_JUDGE_AGENT" \in society
  /\ \E i \in hand : \E refused \in SUBSET (hand \ {i}) :
       Owe(SavedEach(refused, "REJECTED") \o <<SavedAt(i, "APPROVED")>>, i, "develop")

RefuseAll ==
  /\ At("REFLECTION", "judge") /\ "CREATIVE_JUDGE_AGENT" \in society
  /\ Owe(SavedEach(hand, "REJECTED") \o SavedTournament(Tournament(Nobody, TRUE)),
         Nobody, "done")

DevelopWinner ==
  /\ At("REFLECTION", "develop") /\ Builders \subseteq society
  /\ \E silent \in Silences : Owe(<<Saved(hand, Developed(Concept(hand), silent))>>, hand, "approve")

\* The project, its concept, the canon, the outboxes, the tournament and the package, in this order.
ApproveCreativeProject ==
  /\ At("REFLECTION", "approve")
  /\ LET id == NewId("projects")
         c == [Concept(hand) EXCEPT !.stage = "PRODUCTION_READY"]
         p == Project(hand, c)
         t == Tournament(hand, TRUE)
         takers == {e \in SuggestEngines(c) : Accepts(e, Manifest(id, p))}
     IN  Owe(<<Write(<<"projects", id>>, p), Saved(hand, c), Write(<<"canon", id>>, p.title)>>
             \o SetToSeq({Write(<<"handoff", id, e>>, Manifest(id, p)) : e \in takers})
             \o SavedTournament(t) \o TournamentRecord(t) \o WinnerPackage(hand, c, id, p),
             [winner |-> hand, title |-> c.title, project |-> id], "announce")

\* Variant for mutation runs: the judge goes on to the finalists that are left.
AnnounceAndGoOn ==
  /\ At("REFLECTION", "announce") /\ outcome' = hand
  /\ LET left == {i \in Stored("concepts") : Concept(i).stage = "FINALIST"} IN
       IF left = {} THEN step' = "done" /\ hand' = Nobody ELSE step' = "judge" /\ hand' = left
  /\ UNCHANGED <<phase, todo, today, disk, faults, visited, cycle, society, folder, former>>

\* Only now does the outcome of the cycle name the winner.
Announce ==
  /\ At("REFLECTION", "announce") /\ outcome' = hand /\ step' = "done" /\ hand' = Nobody
  /\ UNCHANGED <<phase, todo, today, disk, faults, visited, cycle, society, folder, former>>

Explore ==
  /\ At("EXPLORATION", "start")
  /\ \E strong \in Strengths : Owe(<<Born(FALSE, strong)>>, Nobody, "done")

Consolidate == At("CONSOLIDATION", "start") /\ Owe(LearningRecord, Nobody, "done")
Dream == At("DREAMING", "start") /\ Owe(DreamRecord, Nobody, "done")
DeepSleep == At("DEEP_SLEEP", "start") /\ Owe(RuntimeRecord, Nobody, "done")

-----------------------------------------------------------------------------
(* What goes wrong. *)

Die ==
  /\ phase' = "down" /\ step' = "start" /\ todo' = <<>> /\ hand' = Nobody
  /\ UNCHANGED <<today, held>>

\* society.get() of a disabled agent: no phase handles a KeyError.
Missing ==
  /\ \/ At("REFLECTION", "judge") /\ "CREATIVE_JUDGE_AGENT" \notin society
     \/ At("REFLECTION", "develop") /\ ~ Builders \subseteq society
  /\ Die /\ UNCHANGED <<disk, faults>>

\* A kill, or an OSError; a file written in place may be left half written.
Kill ==
  /\ phase # "down" /\ faults < MaxFaults /\ faults' = faults + 1 /\ Die
  /\ \/ UNCHANGED disk
     \/ /\ todo # <<>> /\ MayTear(Head(todo))
        /\ disk' = With(Head(todo).place, <<"torn">>)

\* Reading the canon for LORE_CONNECTION_AGENT fails on a damaged project file: the
\* phase is abandoned with nothing of the development saved, and the day goes on.
Abandon ==
  /\ At("REFLECTION", "develop") /\ Builders \cup {"LORE_CONNECTION_AGENT"} \subseteq society
  /\ Stored("projects") # {} /\ faults < MaxFaults /\ faults' = faults + 1
  /\ phase' = "between" /\ step' = "start" /\ hand' = Nobody
  /\ UNCHANGED <<todo, today, disk, held>>

Next ==
  \/ Boot \/ BeginCycle \/ Midnight \/ \E n \in 1 .. Len(CycleOrder) : Enter(n)
  \/ Create \/ NobodyCompetes \/ Compete \/ Approve \/ RefuseAll \/ DevelopWinner
  \/ ApproveCreativeProject \/ Announce \/ Explore \/ Consolidate \/ Dream \/ DeepSleep
  \/ WriteNext \/ Leave \/ Missing \/ Kill \/ Abandon

Spec == Init /\ [][Next]_vars

=============================================================================
