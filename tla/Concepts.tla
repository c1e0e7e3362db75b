------------------------------ MODULE Concepts ------------------------------
(***************************************************************************)
(* The life of a concept: domain/policies/lifecycle.py and                 *)
(* domain/entities/concept.py, and the phases that move concepts through   *)
(* it -- building (generating.py), evaluation, tournament, judgement and   *)
(* approval (evaluating.py, competing.py), mutation and dreams             *)
(* (subconscious.py) -- over the concept store, its graveyard mirror and   *)
(* the projects (adapters/persistence/filesystem.py).  A phase can be      *)
(* abandoned between any two writes.                                       *)
(***************************************************************************)
EXTENDS FiniteSetsExt, Integers, Sequences

CONSTANTS
  Funnel,            \* the rounds: <<[stage |-> ..., survivors |-> ...], ...>>
  MutationEnabled,   \* the feature flag and the policy's own switch
  MaxLineageDepth,   \* max_lineage_depth
  MutationTarget,    \* targets.mutations, at most max_mutations_per_cycle
  BatchSize,         \* bound: concepts one building phase may add
  Ratings,           \* bound: potentials an evaluation may find
  IdsRepeat,         \* does every process draw its ids from the same seed?
  MaxIdeas,          \* bound: ids a process may mint
  MaxDays,           \* bound: cycles begun
  MaxFaults          \* bound: phases that raise and processes killed

-----------------------------------------------------------------------------
(* The lifecycle. *)

ADVANCING_ORDER ==
  <<"SEED", "CONCEPT", "PREMISE", "PITCH", "EXPERIMENT", "CANDIDATE", "FINALIST",
    "APPROVED", "PROJECT", "PRODUCTION_READY">>

MainLine ==
  {"SEED", "CONCEPT", "PREMISE", "PITCH", "EXPERIMENT", "CANDIDATE", "FINALIST",
   "APPROVED", "PROJECT", "PRODUCTION_READY"}

REVIVABLE_STAGES == {"REJECTED", "ARCHIVED", "GRAVEYARD", "MUTATION_POOL", "SLEEPING"}

Stages == MainLine \cup REVIVABLE_STAGES

Fallible == {"REJECTED", "ARCHIVED", "SLEEPING"}

Transitions ==
  [SEED |-> {"CONCEPT"} \cup Fallible,
   CONCEPT |-> {"PREMISE"} \cup Fallible,
   PREMISE |-> {"PITCH"} \cup Fallible,
   PITCH |-> {"EXPERIMENT", "CANDIDATE"} \cup Fallible,
   EXPERIMENT |-> {"CANDIDATE"} \cup Fallible,
   CANDIDATE |-> {"FINALIST"} \cup Fallible,
   FINALIST |-> {"APPROVED"} \cup Fallible,
   APPROVED |-> {"PROJECT", "ARCHIVED"},
   PROJECT |-> {"PRODUCTION_READY", "ARCHIVED"},
   PRODUCTION_READY |-> {},
   REJECTED |-> {"MUTATION_POOL", "GRAVEYARD", "ARCHIVED"},
   ARCHIVED |-> {"MUTATION_POOL", "GRAVEYARD"},
   GRAVEYARD |-> {"MUTATION_POOL"},
   MUTATION_POOL |-> {"SEED", "CONCEPT", "GRAVEYARD"},
   SLEEPING |-> {"CONCEPT", "MUTATION_POOL", "ARCHIVED"}]

CanTransition(from, to) == to \in Transitions[from]

\* Where a stage is on the main line.
Index(stage) == CHOOSE n \in 1 .. 10 : ADVANCING_ORDER[n] = stage

\* The funnel never widens, which TournamentFunnel enforces, and climbs to FINALIST
\* from CONCEPT or higher, as config/scoring.yaml and its default do: a funnel that
\* ends elsewhere would leave the judge nothing it may approve.
ASSUME FunnelAssumption ==
  /\ Funnel \in Seq([stage : MainLine, survivors : Nat \ {0}])
  /\ Len(Funnel) > 0 /\ Funnel[Len(Funnel)].stage = "FINALIST"
  /\ \A n \in 1 .. Len(Funnel) :
       /\ Funnel[n].stage \in {"CONCEPT", "PREMISE", "PITCH", "CANDIDATE", "FINALIST"}
       /\ n > 1 => /\ Index(Funnel[n].stage) > Index(Funnel[n - 1].stage)
                   /\ Funnel[n].survivors <= Funnel[n - 1].survivors

\* mutation_potential: below the mutation policy's 40, below dreaming's 55, or not.
Potentials == {"low", "fair", "high"}

ASSUME ConceptsAssumption ==
  /\ MutationEnabled \in BOOLEAN /\ IdsRepeat \in BOOLEAN
  /\ Ratings \subseteq Potentials
  /\ {MaxLineageDepth, MutationTarget, BatchSize, MaxIdeas, MaxDays, MaxFaults} \subseteq Nat

-----------------------------------------------------------------------------
(* The stores and the working day. *)

Ids == 1 .. MaxIdeas
Nobody == 0

Origins == {"seed", "mutation", "resurrection"}

Idea ==
  [stage : Stages, cycle : Nat, depth : Nat, potential : Potentials,
   parent : Ids \cup {Nobody}, origin : Origins]

Unborn == [stage |-> "UNBORN"]

\* The phases that touch concepts, in the order of an undisturbed day.  WorkInOrder
\* leaves the order of the last three among themselves open: days where a failed
\* phase of perception turned it round are left out.
WorkingDay == <<"CREATION", "REFLECTION", "SECOND_WIND", "EXPLORATION", "DREAMING">>

VARIABLES
  pc,        \* where the orchestrator is
  day,       \* cycle_id, as the number of ids of its kind the process has drawn
  hour,      \* place in WorkingDay of the last phase that had something to do
  work,      \* ideas the loop at hand has still to visit
  field,     \* ideas it is about: the competitors left, or the newly born
  round,     \* of the funnel
  rising,    \* survivors of the round still to be promoted
  parent,    \* a buried parent whose child is not saved yet
  champion,  \* the approved idea while it becomes a project
  due,       \* an idea buried in the working directory, not yet in its mirror
  next,      \* the next concept id the process draws
  idea,      \* memory/creative/concepts: the working directory
  graves,    \* memory/graveyard: the mirror
  projects,  \* concepts with a saved project
  crowned,   \* winners named by a saved tournament
  days, faults           \* bounds only

memory == <<pc, work, field, round, rising, parent, champion, due>>
disk == <<idea, graves, projects, crowned>>
calendar == <<day, hour, days>>

vars == <<memory, calendar, next, disk, faults>>

Places ==
  {"asleep", "awake", "building", "evaluating", "funnel", "judging", "approving",
   "handing", "crowning", "mutating", "dreaming"}

Init ==
  /\ pc = "asleep" /\ day = 0 /\ hour = 0
  /\ work = {} /\ field = {} /\ round = 0 /\ rising = {}
  /\ parent = Nobody /\ champion = Nobody /\ due = Nobody
  /\ next = 1
  /\ idea = [i \in Ids |-> Unborn]
  /\ graves = [i \in Ids |-> Unborn]
  /\ projects = {} /\ crowned = {}
  /\ days = 0 /\ faults = 0

Stage(i) == idea[i].stage
Born == {i \in Ids : idea[i] # Unborn}
Buried == {i \in Ids : graves[i] # Unborn}
Alive(i) == Stage(i) \in MainLine

\* The phase is over, whatever it had in hand.
PutDown(place) ==
  /\ pc' = place
  /\ work' = {} /\ field' = {} /\ round' = 0 /\ rising' = {}
  /\ parent' = Nobody /\ champion' = Nobody /\ due' = Nobody

\* Phase number h of the day starts, with ideas to visit and a field.  A phase
\* that is skipped and one that finds nothing to do are the same here.
TakeUp(h, place, ideas, competitors) ==
  /\ pc = "awake" /\ hour < h
  /\ hour' = h
  /\ pc' = place /\ work' = ideas /\ field' = competitors
  /\ UNCHANGED <<round, rising, parent, champion, due, day, days, next, disk, faults>>

-----------------------------------------------------------------------------
(* Days, failures, restarts. *)

BeginCycle ==
  /\ pc = "asleep" /\ days < MaxDays
  /\ pc' = "awake" /\ day' = day + 1 /\ days' = days + 1
  /\ UNCHANGED <<hour, work, field, round, rising, parent, champion, due, next, disk, faults>>

EndCycle ==
  /\ pc = "awake" /\ pc' = "asleep" /\ hour' = 0
  /\ UNCHANGED <<work, field, round, rising, parent, champion, due>>
  /\ UNCHANGED <<day, days, next, disk, faults>>

\* The next process draws its first ids where this one did, if the seed repeats.
Restart ==
  /\ next' = IF IdsRepeat THEN 1 ELSE next
  /\ day' = IF IdsRepeat THEN 0 ELSE day

Shutdown ==
  /\ pc = "asleep"
  /\ Restart
  /\ UNCHANGED <<memory, hour, days, disk, faults>>

\* A move the lifecycle forbids is about to be tried.
Forbidden ==
  \/ pc = "funnel" /\ \E i \in work : ~CanTransition(Stage(i), "REJECTED")
  \/ pc = "funnel" /\ \E i \in rising : ~Alive(i)
  \/ pc = "judging" /\ \E i \in work : ~CanTransition(Stage(i), "REJECTED")
                                       \/ ~CanTransition(Stage(i), "APPROVED")
  \/ pc = "mutating" /\ \E i \in work : ~CanTransition(Stage(i), "GRAVEYARD")

\* The phase raises and the day goes on: a store fails, or the lifecycle does.
PhaseRaises ==
  /\ pc \notin {"asleep", "awake"}
  /\ Forbidden \/ faults < MaxFaults
  /\ faults' = IF Forbidden THEN faults ELSE faults + 1
  /\ PutDown("awake")
  /\ UNCHANGED <<calendar, next, disk>>

Kill ==
  /\ pc # "asleep" /\ faults < MaxFaults
  /\ faults' = faults + 1
  /\ PutDown("asleep") /\ hour' = 0
  /\ Restart
  /\ UNCHANGED <<days, disk>>

-----------------------------------------------------------------------------
(* Writes of the concept store. *)

\* save() of a concept that is not buried.
Save(i, record) == idea' = [idea EXCEPT ![i] = record] /\ UNCHANGED <<graves, due>>

\* Variant for mutation runs: save() forgets the mirror.
BuryUnmirrored(i) ==
  /\ idea' = [idea EXCEPT ![i].stage = "GRAVEYARD"] /\ UNCHANGED <<graves, due>>

\* save() of a buried concept: the mirror comes second.
Bury(i) ==
  /\ idea' = [idea EXCEPT ![i].stage = "GRAVEYARD"] /\ due' = i /\ UNCHANGED graves

\* The second file of save(); nothing else happens before.
Mirror ==
  /\ due # Nobody
  /\ graves' = [graves EXCEPT ![due] = idea[due]] /\ due' = Nobody
  /\ UNCHANGED <<pc, work, field, round, rising, parent, champion>>
  /\ UNCHANGED <<calendar, next, idea, projects, crowned, faults>>

\* Variant for mutation runs: the depth of the lineage is not looked at.
IsMutableAtAnyDepth(record) == record.potential \in {"fair", "high"}

\* MutationPolicy.is_mutable, of an idea that is off the main line.
IsMutable(record) ==
  record.depth < MaxLineageDepth /\ record.potential \in {"fair", "high"}

\* reject(), and then the mutation pool or the grave: one save.
Fall(i) ==
  IF MutationEnabled /\ IsMutable(idea[i])
  THEN Save(i, [idea[i] EXCEPT !.stage = "MUTATION_POOL"])
  ELSE Bury(i)

Germinated(d, p, o) ==
  [stage |-> "CONCEPT", cycle |-> day, depth |-> d, potential |-> "fair",
   parent |-> p, origin |-> o]

\* A new concept under the next id, over whatever had that id.
Bear(record) ==
  /\ next <= MaxIdeas
  /\ Save(next, record)
  /\ next' = next + 1

-----------------------------------------------------------------------------
(* CREATION and EXPLORATION build; EXPLORATION also evaluates. *)

StartBuilding == \E h \in {1, 4} : TakeUp(h, "building", {}, {})

Build ==
  /\ pc = "building" /\ Cardinality(field) < BatchSize
  /\ Bear(Germinated(0, Nobody, "seed"))
  /\ field' = field \cup {next}
  /\ UNCHANGED <<pc, work, round, rising, parent, champion>>
  /\ UNCHANGED <<calendar, projects, crowned, faults>>

\* The ideas of the field go to the critics, if there are any.
ToEvaluation ==
  IF field = {} THEN PutDown("awake")
  ELSE /\ pc' = "evaluating" /\ work' = field
       /\ UNCHANGED <<field, round, rising, parent, champion, due>>

StopBuilding ==
  /\ pc = "building"
  /\ IF WorkingDay[hour] = "EXPLORATION" THEN ToEvaluation ELSE PutDown("awake")
  /\ UNCHANGED <<calendar, next, disk, faults>>

Evaluate ==
  /\ pc = "evaluating"
  /\ \E i \in work, p \in Ratings :
       /\ Save(i, [idea[i] EXCEPT !.potential = p])
       /\ work' = work \ {i}
  /\ UNCHANGED <<pc, field, round, rising, parent, champion>>
  /\ UNCHANGED <<calendar, next, projects, crowned, faults>>

EndEvaluation ==
  /\ pc = "evaluating" /\ work = {}
  /\ IF WorkingDay[hour] = "REFLECTION"
     THEN pc' = "funnel" /\ UNCHANGED <<work, field, round, rising, parent, champion, due>>
     ELSE PutDown("awake")
  /\ UNCHANGED <<calendar, next, disk, faults>>

-----------------------------------------------------------------------------
(* REFLECTION: evaluation, the funnel, the judge, the project. *)

\* Variant for mutation runs: nothing is carried forward.
CompetitorsOfToday == {i \in Born : Alive(i) /\ idea[i].cycle = day}

\* Variant for mutation runs: whatever was left by an earlier cycle is carried.
CompetitorsOfAnyStage ==
  {i \in Born : Alive(i) /\ idea[i].cycle = day} \cup {i \in Born : idea[i].cycle # day}

\* _competitors: today's living ideas, and those an earlier day left at CONCEPT.
Competitors ==
  {i \in Born : Alive(i) /\ idea[i].cycle = day}
    \cup {i \in Born : Stage(i) = "CONCEPT" /\ idea[i].cycle # day}

StartReflection ==
  Competitors # {} /\ TakeUp(2, "evaluating", Competitors, Competitors)

\* TournamentService.select keeps somebody and at most the round's width; who
\* it is depends on scores, redundancy and disqualifications.
Selections(candidates, width) ==
  {s \in SUBSET candidates : s # {} /\ Cardinality(s) <= width}

Round ==
  /\ pc = "funnel" /\ due = Nobody /\ work = {} /\ rising = {}
  /\ round < Len(Funnel)
  /\ round' = round + 1
  /\ \E s \in Selections(field, Funnel[round'].survivors) :
       field' = s /\ rising' = s /\ work' = field \ s
  /\ UNCHANGED <<pc, parent, champion, due, calendar, next, disk, faults>>

Eliminate ==
  /\ pc = "funnel" /\ due = Nobody
  /\ \E i \in work :
       /\ CanTransition(Stage(i), "REJECTED")
       /\ Fall(i)
       /\ work' = work \ {i}
  /\ UNCHANGED <<pc, field, round, rising, parent, champion>>
  /\ UNCHANGED <<calendar, next, projects, crowned, faults>>

\* _promote: up to the round's stage, one legal step at a time, then one save.
Promote ==
  /\ pc = "funnel" /\ due = Nobody /\ work = {}
  /\ \E i \in rising :
       /\ Alive(i)
       /\ Save(i, [idea[i] EXCEPT !.stage =
                     IF Index(Stage(i)) < Index(Funnel[round].stage)
                     THEN Funnel[round].stage ELSE Stage(i)])
       /\ rising' = rising \ {i}
  /\ UNCHANGED <<pc, work, field, round, parent, champion>>
  /\ UNCHANGED <<calendar, next, projects, crowned, faults>>

\* The tournament is saved, still without a winner.
CloseFunnel ==
  /\ pc = "funnel" /\ due = Nobody /\ work = {} /\ rising = {}
  /\ round = Len(Funnel)
  /\ pc' = "judging" /\ work' = field
  /\ UNCHANGED <<field, round, rising, parent, champion, due>>
  /\ UNCHANGED <<calendar, next, disk, faults>>

RejectFinalist ==
  /\ pc = "judging" /\ due = Nobody
  /\ \E i \in work :
       /\ CanTransition(Stage(i), "REJECTED")
       /\ Fall(i)
       /\ work' = work \ {i}
  /\ UNCHANGED <<pc, field, round, rising, parent, champion>>
  /\ UNCHANGED <<calendar, next, projects, crowned, faults>>

NoWinner ==
  /\ pc = "judging" /\ due = Nobody /\ work = {}
  /\ PutDown("awake")
  /\ UNCHANGED <<calendar, next, disk, faults>>

\* The first finalist the judge approves ends the judging.
Approve ==
  /\ pc = "judging" /\ due = Nobody
  /\ \E i \in work :
       /\ CanTransition(Stage(i), "APPROVED")
       /\ Save(i, [idea[i] EXCEPT !.stage = "APPROVED"])
       /\ champion' = i
  /\ pc' = "approving" /\ work' = {}
  /\ UNCHANGED <<field, round, rising, parent>>
  /\ UNCHANGED <<calendar, next, projects, crowned, faults>>

\* DevelopWinner attaches prose and saves; then the project is saved first ...
SaveProject ==
  /\ pc = "approving" /\ pc' = "handing"
  /\ projects' = projects \cup {champion}
  /\ UNCHANGED <<work, field, round, rising, parent, champion, due>>
  /\ UNCHANGED <<calendar, next, idea, graves, crowned, faults>>

\* Variant for mutation runs: the concept's last stage is not saved.
SaveWinnerLost ==
  /\ pc = "handing" /\ pc' = "crowning"
  /\ UNCHANGED <<work, field, round, rising, parent, champion, due>>
  /\ UNCHANGED <<calendar, next, disk, faults>>

\* ... the concept second ...
SaveWinner ==
  /\ pc = "handing" /\ pc' = "crowning"
  /\ Save(champion, [idea[champion] EXCEPT !.stage = "PRODUCTION_READY"])
  /\ UNCHANGED <<work, field, round, rising, parent, champion>>
  /\ UNCHANGED <<calendar, next, projects, crowned, faults>>

\* ... and the tournament, with its winner, last.
Crown ==
  /\ pc = "crowning"
  /\ crowned' = crowned \cup {champion}
  /\ PutDown("awake")
  /\ UNCHANGED <<calendar, next, idea, graves, projects, faults>>

-----------------------------------------------------------------------------
(* SECOND_WIND: mutation. *)

Mutables == {i \in Born : Stage(i) = "MUTATION_POOL" /\ IsMutable(idea[i])}

\* rank() orders by potential and depth; here any of the mutable may come first.
Picks(candidates, n) ==
  {s \in SUBSET candidates : Cardinality(s) = IF Cardinality(candidates) < n
                                              THEN Cardinality(candidates) ELSE n}

StartSecondWind ==
  /\ MutationEnabled
  /\ \E s \in Picks(Mutables, MutationTarget) : s # {} /\ TakeUp(3, "mutating", s, {})

\* The agent had no title to offer.
SkipMutation ==
  /\ pc = "mutating" /\ due = Nobody /\ parent = Nobody
  /\ \E i \in work : work' = work \ {i}
  /\ UNCHANGED <<pc, field, round, rising, parent, champion, due>>
  /\ UNCHANGED <<calendar, next, disk, faults>>

\* Variant for mutation runs: the parent is left in the pool.
EntombParentInName ==
  /\ pc = "mutating" /\ due = Nobody /\ parent = Nobody
  /\ next <= MaxIdeas
  /\ \E i \in work : parent' = i /\ work' = work \ {i}
  /\ UNCHANGED <<pc, field, round, rising, champion, due>>
  /\ UNCHANGED <<calendar, next, disk, faults>>

\* The parent is buried and saved first ...
EntombParent ==
  /\ pc = "mutating" /\ due = Nobody /\ parent = Nobody
  /\ next <= MaxIdeas
  /\ \E i \in work :
       /\ CanTransition(Stage(i), "GRAVEYARD")
       /\ Bury(i)
       /\ parent' = i /\ work' = work \ {i}
  /\ UNCHANGED <<pc, field, round, rising, champion>>
  /\ UNCHANGED <<calendar, next, projects, crowned, faults>>

\* ... and the child second.
SaveChild ==
  /\ pc = "mutating" /\ due = Nobody /\ parent # Nobody
  /\ Bear(Germinated(idea[parent].depth + 1, parent, "mutation"))
  /\ field' = field \cup {next} /\ parent' = Nobody
  /\ UNCHANGED <<pc, work, round, rising, champion>>
  /\ UNCHANGED <<calendar, projects, crowned, faults>>

EndMutation ==
  /\ pc = "mutating" /\ due = Nobody /\ parent = Nobody /\ work = {}
  /\ ToEvaluation
  /\ UNCHANGED <<calendar, next, disk, faults>>

-----------------------------------------------------------------------------
(* DREAMING: resurrection, from the mirror. *)

Dreamable == {i \in Buried : graves[i].potential = "high"}

\* Two at most are sampled, and each is revived or not.
StartDreaming ==
  \E s \in SUBSET Dreamable :
    s # {} /\ Cardinality(s) <= 2 /\ TakeUp(5, "dreaming", s, {})

\* Variant for mutation runs: the grave itself is opened.
ResurrectInPlace ==
  /\ pc = "dreaming"
  /\ \E i \in work :
       /\ Save(i, [idea[i] EXCEPT !.stage = "MUTATION_POOL", !.origin = "resurrection"])
       /\ work' = work \ {i}
  /\ UNCHANGED <<pc, field, round, rising, parent, champion>>
  /\ UNCHANGED <<calendar, next, projects, crowned, faults>>

\* resurrect_as: a copy in the pool; the original stays where it is.
Resurrect ==
  /\ pc = "dreaming"
  /\ \E i \in work :
       /\ Bear([stage |-> "MUTATION_POOL", cycle |-> day, depth |-> graves[i].depth + 1,
                potential |-> graves[i].potential, parent |-> i, origin |-> "resurrection"])
       /\ work' = work \ {i}
  /\ UNCHANGED <<pc, field, round, rising, parent, champion>>
  /\ UNCHANGED <<calendar, projects, crowned, faults>>

\* The dream ends with its sample (or where the bound on ids cuts it short).
EndDream ==
  /\ pc = "dreaming" /\ (work = {} \/ next > MaxIdeas)
  /\ PutDown("awake")
  /\ UNCHANGED <<calendar, next, disk, faults>>

-----------------------------------------------------------------------------

Next ==
  \/ BeginCycle \/ EndCycle \/ Shutdown
  \/ PhaseRaises \/ Kill
  \/ Mirror
  \/ StartBuilding \/ Build \/ StopBuilding
  \/ Evaluate \/ EndEvaluation
  \/ StartReflection \/ Round \/ Eliminate \/ Promote \/ CloseFunnel
  \/ RejectFinalist \/ NoWinner \/ Approve \/ SaveProject \/ SaveWinner \/ Crown
  \/ StartSecondWind \/ SkipMutation \/ EntombParent \/ SaveChild \/ EndMutation
  \/ StartDreaming \/ Resurrect \/ EndDream

Spec == Init /\ [][Next]_vars

-----------------------------------------------------------------------------

TypeOK ==
  /\ pc \in Places /\ day \in 0 .. MaxDays
  /\ hour \in 0 .. Len(WorkingDay)
  /\ work \subseteq Ids /\ field \subseteq Ids /\ rising \subseteq Ids
  /\ round \in 0 .. Len(Funnel)
  /\ {parent, champion, due} \subseteq Ids \cup {Nobody}
  /\ next \in 1 .. MaxIdeas + 1
  /\ idea \in [Ids -> Idea \cup {Unborn}]
  /\ graves \in [Ids -> Idea \cup {Unborn}]
  /\ projects \subseteq Ids /\ crowned \subseteq Ids
  /\ pc \in {"asleep", "awake"} =>
       /\ work \cup field \cup rising = {} /\ round = 0
       /\ {parent, champion, due} = {Nobody}
  /\ days \in 0 .. MaxDays /\ faults \in 0 .. MaxFaults

=============================================================================
