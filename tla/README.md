# TLA+ models of the creative brain

This directory holds TLA+ models of *dna-my-creative-brain*, the TLC configurations that check
them and the TLAPS proofs about them. The models are translated from the Python code of the
repository; paths below are relative to the repository's root (`src/creative_brain/...` is the
package), and `PROJECT.json` maps every definition to the lines it stands for.

    tlc -workers 4 -config Interruptions.cfg MCRuntime.tla      # model-check one run
    tlapm ConceptsProofs.tla                                    # check the proofs of a module

## 1. The system

The program is an autonomous "creative brain". One process runs *cycles* (creative days). In a
cycle a policy picks phases one at a time (wake, observe, research, focus, create, digest,
reflect, ..., sleep); each phase runs agents, use cases and stores; the state is saved after every
phase so that a killed process can be started again.

| component | code | state it keeps | operations | modelled in |
|---|---|---|---|---|
| Runtime | `runtime/__init__.py` | stop flag, cycle counter, cycles bound, last outcome | `bootstrap`, `start`, `run_single_cycle`, `run_cycle`, `stop`, `shutdown`, `checkpoint_now` | `Runtime` |
| Circadian state and energy | `domain/entities/circadian.py`, `domain/value_objects/energy.py` | phase, phases visited, five gauges, backlogs, signals, budget counters | `enter`, `begin_cycle`, `end_cycle`, `spend`, `restore` | `CircadianPolicy`, `Energy` |
| Circadian policy | `domain/policies/circadian.py` | none (pure) | `decide`: 13 ordered rules and a fallback; `ends_cycle` | `CircadianPolicy` |
| Orchestrator | `application/orchestration/orchestrator.py` | the cycle's outcome, the files of its record | one handler per phase, `_refresh_signals` | `Runtime`, and each handler in the module of its use case |
| Perception | `use_cases/observing.py`, `generating.py`, `adapters/filesystem`, vector memory | observations, findings, questions, seeds, corpus manifest, vectors, graph | capture, research, ask, seed, build, ingest | `Perception` |
| Concepts | `domain/entities/concept.py`, `policies/lifecycle.py`, `value_objects/lineage.py` | stage of each concept, ancestry | `germinate`, `advance_to`, `reject`, `send_to_mutation_pool`, `entomb`, `resurrect_as`, `record_mutation` | `Concepts` |
| Evaluation | `use_cases/evaluating.py`, `agents/base.py`, `society.py`, `policies/scoring.py`, `services/tournament_service.py` | opinions, scoreboard, health of each agent | critics' sessions, merging, totals, rounds, judging | `Society` |
| Competition and production | `use_cases/competing.py`, `domain/entities/project.py`, `adapters/filesystem` output and hand-off | tournaments, projects, canon, outputs, hand-offs | funnel, approval, development, package, hand-off | `Concepts`, `Production` |
| Subconscious | `use_cases/subconscious.py`, `policies/mutation.py` | — | mutation, dreams, resurrection, harvest | `Concepts`, `Perception` |
| Learning | `use_cases/learning.py`, `value_objects/dna.py`, `policies/dna_evolution.py`, `memory_policy.py` | memory records, evolving DNA and its versions | remember, distil, fade, evolve | `Consolidation` |
| Model router | `adapters/llm/router.py`, `adapters/resilience.py` | budget counters, breaker, limiter's instants | `complete` | `Router` |
| Composition and CLI | `composition/`, `cli/main.py` | configuration, adapters, society of a process | load, wire, refuse, dispatch | `Launch` |
| Event bus and scheduler | `adapters/events`, `adapters/scheduler` | handlers, history, dead letters, jobs | `publish`, `subscribe`, `schedule`, `cancel`, `run_pending` | `Wiring` |
| Vault export | `use_cases/exporting.py`, `adapters/vault` | the notes and the canvas | one export | `Vault` |

How they interact: inside one process everything is a plain sequential call chain, *runtime ->
policy -> orchestrator -> use case -> agent -> router -> provider*. The concurrency and the
disorder come from elsewhere: signals, which set a flag at any moment; exceptions, which leave any
phase half done; kills and restarts, which keep only the files; and the other short-lived processes
of the CLI and the scripts, which read and write the same files without a lock.

### What is hard

The full list, with lines, is under `hazards` in `PROJECT.json`. In short:

* *Protocol.* Thirteen rules, a fallback and a forced night all have to agree on what a day may
  contain; the only memory they share is `phases_visited`, and the night is reached only because
  some rule eventually answers `DEEP_SLEEP`. Stale backlogs, a phase that failed and a day
  resumed from disk all reach the same rules.
* *Crash and restart.* Almost every step of a phase is several files written one after the other:
  clock and checkpoint, concept and grave, child and parent, DNA and snapshot, record and vector,
  documents and manifest, the fifteen files behind a winner.
* *Partial failure.* A handler that raises leaves records filed and signals not refreshed;
  `BudgetExceeded` out of HUNT enters `DEEP_SLEEP` without the save every other phase gets; a
  disabled agent is a `KeyError` in the middle of a phase; a job that raises stops the batch.
* *Interleaving.* Two processes consolidate on one directory; a vault is exported while the brain
  writes; a configuration is edited while a command starts; a handler publishes, a job cancels.
* *Stale state and scope.* Counters that belong to a process are compared with limits that belong
  to a cycle, and the other way round; ids are drawn again by every process.
* *Time.* Waiting for a slot, backing off, and a breaker's cool-down meet inside one request.
* *Numbers.* Scores are capped, merged, rounded and ranked over several passes; lists have limits.

### What makes each component correct

* *Policy and runtime:* no phase twice in a day; a day closes through `DEEP_SLEEP`; no demanding
  phase below its floor; work in its order, every cycle consolidates; the counters on disk and in
  memory stay within one cycle per fault; a completed cycle stays counted; a started process ends.
* *Router:* budget, limiter, breaker and retries each keep their promise while the others act.
* *Concepts, competition and their stores:* no phase tries a move the lifecycle forbids; every idea
  left over is heard by a later tournament; a buried idea is in its mirror; a named winner has its
  project and is production-ready; a parent has one heir and a lineage a ceiling; nobody dead
  competes and nobody leads two lives.
* *Perception:* everything filed can be traced to what it came from; nothing is worked or read twice.
* *Evaluation:* the right ideas survive a round; a blocking opinion is never forgotten; a critic
  that is broken is noticed.
* *Production:* a record that names a winner stands for the whole package; one project per idea, whole
  before it is told of, and never undone by a later day.
* *Learning:* every version of the DNA is accounted for; learning unlearns nothing; one fading a night.
* *Wiring:* no job lost or run twice, no handler left out. *Vault:* links lead, the map matches.
* *Launch:* an agent is answered by the provider its launch was configured with.

## 2. The modules

| module | models | builds on |
|---|---|---|
| `Energy` | the five gauges and what spends and restores them | |
| `CircadianPolicy` | the clock's state, its transitions, the rules and the fallback | `Energy` |
| `Runtime` | the loop, the phases as the clock sees them, both files, crashes, restarts, signals, the stop command | `CircadianPolicy` |
| `CreativeDay` | abstract: what a creative day promises | |
| `RuntimeProperties`, `MCRuntime` | the properties of the loop and the refinement; constants for TLC | `Runtime`, `CreativeDay` |
| `Concepts` | the lifecycle, and the phases that move concepts through it over store, graves, projects and tournaments | |
| `IdeaLife` | abstract: what the brain promises about an idea | |
| `ConceptsProperties`, `MCConcepts` | the properties of the concepts and the refinement; a funnel for TLC | `Concepts`, `IdeaLife` |
| `Perception`, `PerceptionProperties` | the corpus, the records of a day, the vector memory and the graph | |
| `Society`, `SocietyProperties` | critics, scores, rounds and the judge | |
| `Production` | from a verdict to the files a person opens | |
| `Publishing` | abstract: what the brain promises about the works it publishes | |
| `ProductionProperties` | the properties of the files and the refinement | `Production`, `Publishing` |
| `Consolidation`, `ConsolidationProperties` | memory and the evolving DNA, by several processes | |
| `Router`, `RouterProperties` | one request under budget, breaker, limiter and retries | |
| `Launch`, `MCLaunch` | commands, configuration and which model answers whom | |
| `Lists` | sieving and sorting by recursive and indexed functions, for the modules whose lists are proved about | |
| `Wiring` | scheduler and event bus, with their two properties | `Lists` |
| `Vault`, `MCVault` | the export, with its two properties | `Lists` |
| `RuntimeProofs`, `ConceptsProofs`, `ConsolidationProofs`, `PerceptionProofs`, `ProductionProofs` | theorems | the properties of each, `ListProofs` |
| `AgentProofs` | theorems about the critics and about the provider that answers them | `SocietyProperties`, `RouterProperties`, `ListProofs` |
| `ListProofs` | lemmas about lists | `Lists` |
| `HostProofs` | theorems about the launch, the vault and the wiring | `MCLaunch`, `Vault`, `Wiring`, `ListProofs` |

How the parts are composed: `Runtime` composes policy, gauges, orchestrator and files and refines
`CreativeDay`; its `NoPhaseTwice` (a part of that refinement) and `WorkInOrder` are what `Concepts`, `Perception` and
`Production` take for granted when they enter their phases in order and once a day. `WorkInOrder`
holds where a day asks for at least one observation and for no more than eight (`min_observations_before_creating`,
shipped as 3): with none, or with twelve, a failing OBSERVATION lets the fallback put the day in
another order. It leaves open where a dream comes, and which of SECOND_WIND and EXPLORATION is first;
when perceiving phases fail that order may differ. `Perception` lets a dream come anywhere;
`Concepts` and `Production` take these last phases in the order of an undisturbed day, and the days
of another order are left out of them. `Concepts`
lets any ideas survive a round; `Society` shows which do. `Production` takes up the winner
`Concepts` approves, with its files one by one. `Launch` ends where a run begins. Each of these is
a module of its own because the product of two would have many times the states and no question
of its own.

### Runtime

`pc` is where the process is in `start`/`run_cycle`; `"off"` means there is none, and then only
`saved_state` and `saved_completed`, the two files, have a meaning. Each action is one stretch of
code between two places where the process can be killed or a file is written:

| action | code |
|---|---|
| `Boot`, `BootSingle` | `build_brain`, then `bootstrap`, from `start` and `run_single_cycle` |
| `BeginCycle` | `begin_cycle` and a new outcome |
| `EnterPhase` | `decide`, `state.enter`, the phase event |
| `PhaseReturns` | the handler and `_refresh_signals` |
| `PhaseFails` | a handler that raises a `CreativeBrainError`: records of a part of the work, no refresh |
| `BudgetExceeded`, `ForcedSleep` | the other `except`: `_force_sleep`, then `break` without a save |
| `SyncAndSaveState`, `SaveCheckpoint` | `_sync_budget` and the two writes of `checkpoint_now` |
| `EndCycle`, `SaveLastCheckpoint` | `end_cycle`, the counter and the last `checkpoint_now` |
| `LeaveLoop`, `ShutdownSaveState`, `ShutdownSaveCheckpoint` | the end of `start` and `shutdown` |
| `RequestStop` | SIGINT or SIGTERM |
| `Raise`, `Kill` | an exception the loop does not catch; the end of the process at any step |
| `StopCommand` | `creative-brain stop`, a process of its own on the same files |

Data is abstracted to what the rules read. A phase files a number of records (`ObservationYield`,
`ResearchYield`, `SeedYield`), publishes a number of events (`EventBurst`, which becomes memory
pressure) and wants a number of model calls (`CallBurst`); a judgement is a pair of scores or no
winner. Gauges are counted in tenths of a point: every amount in the code is a multiple of a
tenth, so the arithmetic is exact. Further abstractions:

* The cost ceiling and the call ceiling are both "spent >= maximum" over a counter of the router;
  in `Runtime` one counter stands for both (`Router` has the two).
* A run without a bound (`--autonomous`) is a run with a large one.
* Ids are drawn from a generator every process seeds with the same constant
  (`composition/config.py:281`), so a process begins its cycles under the ids of an earlier one
  and finds the records that one filed, and files its own over them. `Leftovers` is the set of
  record counts a first cycle may find (`Found`, `Filed`); it is empty in the configurations, and
  the theorems hold for every value of it.
* The research-call limit is configuration that nothing reads.
* A file that does not exist reads as the fresh state and as zero completed cycles, which is what
  `bootstrap` makes of it.
* The documents `bootstrap` reads and indexes are in `Perception`; the clock knows nothing of them.
* `_refresh_signals` itself is not made to fail; a store that cannot be read is covered by `Raise`.
* No handler is subscribed to the bus by the composition; here the history is a count of the running
  cycle's events, and what a host that subscribes meets is in `Wiring`.

### Router

A request goes through `idle -> limiter -> attempt -> idle`; time passes in the sleeps of the
limiter and of the backoff, in the provider and between requests. The provider answers or fails as
it likes and takes any of `Latencies`; a sleep may last longer than asked. `asked_at`,
`admitted_at` and `failed_at` are notes an observer takes, read by the properties only;
each keeps the last `n + 1` instants, which is what a claim about `n` of them needs.
`CallBudget.reset` is left out because nothing calls it.

### Concepts

A state is the working directory (`idea`), the mirror (`graves`), the saved projects and
tournaments, and what the phase at work holds in memory: the list it walks (`work`), the
competitors left (`field`), a parent buried before its child is saved, the champion between its
three files, a grave that is due in the mirror. Each action ends with at most one write, so that a
fault can strike between any two.

| action | code |
|---|---|
| `StartBuilding`, `Build`, `StopBuilding` | `_create`, `_explore`, `BuildCreativeConcepts` |
| `Evaluate`, `EndEvaluation` | `EvaluateConcepts`, one concept and one save at a time |
| `StartReflection`, `Round`, `Eliminate`, `Promote`, `CloseFunnel` | `_competitors`, `RunCreativeTournament` |
| `RejectFinalist`, `NoWinner`, `Approve` | `JudgeFinalists` |
| `SaveProject`, `SaveWinner`, `Crown` | `DevelopWinner`, `ApproveCreativeProject`, the last tournament save of `_reflect` |
| `StartSecondWind`, `SkipMutation`, `EntombParent`, `SaveChild`, `EndMutation` | `MutateRejectedConcepts` |
| `StartDreaming`, `Resurrect`, `EndDream` | `StartDreamCycle._resurrect` |
| `Mirror` | the second file of `FileConceptRepository.save` |
| `PhaseRaises` | a handler that raises, by a fault or because the lifecycle forbids the move: the day goes on |
| `Kill`, `Shutdown` | the process ends; the next one draws its ids again (`Restart`) |

Scores are choices: who survives a round is any nonempty set no wider than the round
(`Selections`), the judge approves or rejects whom it likes, an evaluation finds any potential of
`Ratings`. The walk of `_promote` is one step because it saves once, and every step of it is legal
whenever the start is on the main line. A phase that is skipped and one that finds nothing to do
are the same: neither writes a concept. The day's order (`hour`) is not assumed but checked of the
runtime, as `WorkInOrder` in `rhythm`, and it holds as well in the configuration of
`interruptions`. The listing limits of the store (100, 200, 40) are not modelled.

### Perception

Each record a phase makes is filed, indexed and drawn by writes of its own; `todo` holds the
writes the stage still owes and `WriteNext` does the first, so that `Abandon` (an exception) and
`Kill` can come between any two. `Restart` reads the vector memory and the manifest back, and no graph.

| action | code |
|---|---|
| `Restart`, `Ingest`, `SaveManifest`, `IndexChunk`, `Ready` | `build_brain` and `bootstrap`: what is new in `input/`, the manifest of what was read, and its chunks in the vector memory one by one (`runtime/__init__.py:79`) |
| `Ingest`, `SaveManifest` again | AWAKENING, which reads what arrived since and indexes none of it |
| `CaptureObservation`, `RunResearch`, `GenerateQuestions` | `use_cases/observing.py`; several questions for one observation |
| `GenerateSeeds`, `BuildConcepts` | `use_cases/generating.py`, from CREATION and again from EXPLORATION |
| `ConnectLore` | the edge from the winner to the canon (`competing.py:243`) |
| `Mutate`, `Resurrect` | mutants and revenants, each with an edge to what it was made of and no node (`subconscious.py:88`, `:209`) |
| `Harvest` | the seeds of a dream (`subconscious.py:171`) |
| `BeginDay`, `Enter`, `Leave`, `EndDay`, `Stop` | the order of phases the clock keeps |

`Init` chooses `idsRepeat`: whether every process draws its ids from one seed, as the default
configuration has it (`composition/config.py:281`), or each from its own. If they repeat, a new process
begins at the first day again, its records are numbered from one and replace those of the same id,
and a listing of the cycle returns what an earlier process filed under it. Both are in the run, and
the theorems speak of both. A seed keeps its heat, because the hottest are built first; every other
content is left out. What an agent leaves out (a record an `Unreliable` phase does not make) is a
choice. The ideas a mutation ranks first or a dream draws are stood for by the oldest, the winner
by the newest: no property tells them apart.

### Society

One action is one critic's reply for one idea (`Hear`), with what it does to the agent's health
and to the opinions; `Conclude` merges the opinions into the scoreboard, caps and rounds the
total and saves the idea; `Round` is `tournament_service.select`; `OpenJudging`, `Refuse`,
`Approve` and `NoWinner` are the judge. `Create`, `Explore` and `Reflect` are the three phases that
evaluate a batch, `Abandon` the exception between two steps. Scores are integers in ticks
(`Grain` ticks in a point), rounded to one tick as the code rounds to two decimals. What novelty
and distance measure of a text is an input (`Texts`, `Novelties`, `Twins`), what a model comes
back with is any member of `Replies`. The attacks a defender is shown are a list made for each
concept (`evaluating.py:128`) and no state of the model.

### Production

`disk` is every file by place, and a phase owes its writes in the order of the code. JSON goes
through a temporary file; the Markdown files are written in place and a kill may tear them
(`MayTear`). `Missing` is the `KeyError` of an agent the configuration disabled, which kills the
process; `Midnight` changes the date under a process whose output folder does not follow.
`Silences` are the agents that fall back on their empty answer, so that a text is absent.
`DevelopWinner`, `ApproveCreativeProject`, `Announce`, `Consolidate`, `Dream` and `DeepSleep` are
the steps of the orchestrator's handlers that write the record of the cycle; ideas are born
(`Create`, `Explore`), compete (`Compete`) and are judged (`Approve`, `RefuseAll`) by choice.

Cycles, concepts and projects are numbered as the process draws them. Where `IdsRepeat`, a new process
draws the ids of the one before: `Boot` begins at cycle zero again, `former` is the files it finds
under ids it has not drawn yet, `NewId` draws them, and a write replaces what is there. The run and
the theorems take `IdsRepeat = FALSE`, every process with a seed of its own: with the default seed a
later process writes its concepts, tournament and output folder over those of an earlier one, and no
promise about a finished work can hold across processes, as `erased` shows of the concepts.

### Consolidation

`proc[p]` is what a process holds in memory: the records still to remember, the batch being faded,
the DNA it loaded. `Begin`, `Remember`, `Distil`, `ListEpisodes`, `SaveFaded`, `LoadEvolving`,
`SaveEvolving` and `SaveSnapshot` follow the orchestrator's `_consolidate`, `ConsolidateMemory` and `UpdateEvolvingDna` file by file; any two processes may
interleave and `Kill` and `Reset` (`scripts/reset_state.py`) come when they like, the reset while
nobody runs. `overlapped`, `lost`, `nightfalls`, `since` are notes of an observer. One bucket of
the DNA stands for its six, which are treated alike; an entry is known by its lower-case form.

### Launch

A shell's process goes through stages: configuration read, providers built, society built,
command dispatched, run, ended or refused. `Edit` replaces the files of the root at any moment. A
run is abstracted to the calls it makes: `Complete` picks a live agent, and `call` records what
answered it. Roles share an adapter when provider and model agree, as in the container's cache.

### Wiring

`jobs` is the list of the scheduler, `due` what the `run_pending` at hand still has to run,
`deliveries` the stack of publishes in progress. While a job or a handler is at work it may
schedule, cancel, subscribe and publish, and it ends by returning or by raising. A delivery has
`passed` so many of its audience; a handler that fails its last attempt leaves a dead letter, which
is kept in memory and then written to a folder. `LetterUnwritten` is the write that fails: its error
escapes `publish`, nobody behind that handler is called, and `unfiled` notes the letter. A handler
whose publish ended so has itself failed or caught it, as it chooses. A negative delay is none
(`Moment`). An exception that is no `Exception` (an interrupt) ends the process and with it all the
state of these two adapters; `clear` is called by nobody. Neither is modelled.

### Vault

The export reads questions, ideas and projects in three steps while `Ask`, `Conceive`, `SaveIdea`
and `Win` change the store, and writes note by note into a directory it never cleans. `Titles` are
slugs and `Cleaned` is what the adapter makes of them on disk, the conversion that links and files
do differently.

## 3. The runs

| run | module and configuration | question |
|---|---|---|
| `rhythm` | `MCRuntime`, `Rhythm.cfg` | does an undisturbed brain keep its rhythm when phases fail and backlogs are stale? |
| `interruptions` | `MCRuntime`, `Interruptions.cfg` | what survives kills, exceptions, restarts, an exhausted budget and a second process, and does every process end? |
| `ideas` | `MCConcepts`, `Ideas.cfg` | does every idea lead one life, and every file agree with the others? |
| `evaluation` | `SocietyProperties`, `Evaluating.cfg` | do the scores decide as they should when critics fail? |
| `production` | `ProductionProperties`, `Production.cfg` | is the record of a winner true, whatever was interrupted? |
| `perception` | `PerceptionProperties`, `Perceiving.cfg` | can everything be traced, and is nothing worked twice? |
| `growth` | `ConsolidationProperties`, `Growth.cfg` | what do two processes, a kill and a reset do to what was learned? |
| `provider` | `RouterProperties`, `Provider.cfg` | do budget, breaker, limiter and retries keep their promises together? |
| `launch` | `MCLaunch`, `Launch.cfg` | who answers an agent while the configuration is edited? |
| `hosting` | `Wiring`, `Hosting.cfg` | is a job or a delivery ever lost or doubled? |
| `export` | `MCVault`, `Export.cfg` | does an exported vault hold together? |
| `erased` | `MCConcepts`, `Erased.cfg` | does a grave survive a restart? (It does not: the one violated run.) |

**rhythm.** `DayIsProductive`, `MemoryBeforeDreams` and `WorkInOrder` say that the day has its
order of substance in every cycle, although perception may bring nothing, although OBSERVATION,
HUNT, FOCUS, REFLECTION and CONSOLIDATION may raise, and although each cycle starts on the backlogs
and the tiredness of the one before. HUNT asks the model three times, of a budget of five, so the
budget of a process lasts for one HUNT and ends in the second. `DayIsProductive` needs it to last:
without it the policy goes straight to the night, by design. `MemoryBeforeDreams` is asked of the
nights the policy chose (a night forced by the budget skips the consolidation). The failing phases
are the ones whose failure leaves the rules a stale backlog, nothing perceived, no judgement and no
consolidation. `DayIsProductive` and
`MemoryBeforeDreams` are not asked of a brain that is killed: a resumed day can reach SECOND_WIND
on gauges another day has spent.

**interruptions.** `DayClosesAsleep`, `FloorsRespected`, `CountersAgree`,
`CompletedWorkSurvives` and `ImplementsDay` hold with two faults anywhere, one use of the stop
command, any restart and a budget of three calls, which a HUNT of two or four calls leaves,
exhausts between phases or exceeds in the middle of one. `ProcessEnds` is
`(pc # "off") ~> (pc = "off")`: the for loop always reaches the night and `start` always leaves its
while loop, for every mixture of failures.

**ideas.** `MovesAreLegal` (no phase reaches a transition the lifecycle would refuse, although the
funnel, the judge and the mutation engine work on lists read earlier), `EveryoneIsHeard` (what is
left at CONCEPT by an evening phase or by a fault competes before the next judgement),
`GravesAreMirrored`, `OneHeirEach`, `LineageBounded` and `WinnersAreProduced` (each allows as many
exceptions as there were faults, and shows that there are no others) and `ImplementsIdeaLife`, the
refinement: a grave and a victory are for ever, whatever phase comes next. Processes have
different seeds here (`IdsRepeat = FALSE`); with the default seed `erased` shows what happens.

**evaluation.** `RoundsAreJust` compares what a round kept with a definition that says nothing of
the loop that fills it; `OnceBlockedAlwaysCapped` follows a blocking opinion through a second
evaluation with other opinions; `SilentCriticsAreNoticed` shows that three counters and three
thresholds leave no gap a silent critic fits through.

**production.** `OutcomeTellsTheTruth` starts from the one file a person opens and follows it to
the project, the concept, the tournament, the canon, the outboxes and every text of the package;
`ProjectsAreWhole` says that an idea is developed and produced once, whatever stage an
interruption left it at. Both are about one state; `ImplementsPublishing` is about how the files
come about. The works are the stored projects in their order, a work is *begun* once its project is
stored, *whole* once everything it stands for is delivered (`Finished`: the same `Delivered` that
`OutcomeTellsTheTruth` asks for), *told* once a runtime.json names it, and every write is a step of
`Publishing` or none: one work for an idea, one a day, only the latest worked on, told of when it is
whole, and nothing finished or told ever undone. Every process has a seed of its own here.

**perception.** `TracesLead`: sources exist and are of the day, except those of a mutant or revenant,
which exist; an entry of the vector memory is a filed record's or a document's chunk; an edge starts
at a record and leads to one or to the canon; only a fault leaves something unindexed. It holds
whether ids repeat or not. `SeedsWorkedOnce`: once per building phase, where ids do not repeat; where
they do a later day's seeds take the ids of an earlier one's and the claim means nothing. A dream's
seeds are filed under the cycle that ends, so they are built only where EXPLORATION comes after the
dream or where a later process repeats the cycle's id (section 5). `CorpusReadOnce`: a document is
read by one process, and one the manifest names is in the vector memory with all its chunks, unless
it came after the process started or a kill came first.

**growth.** `SnapshotsAccountedFor`, `NothingUnlearned` and `FadesOnceANight` each say exactly which
accidents (a kill between two files, an overlap of two processes, a reset, a shelf longer than the
listing) excuse an exception, and show that there is no other.

**provider.** `WindowRespected` (never more than `MaxCalls` *admissions* in any `PerSeconds`,
oversleeping included), `DownProviderIsSpared` (a provider that fails is left alone for
`ResetAfter` after each `FailureThreshold` requests), `RefusedForAReason` (and one that works is
never refused), `BudgetHolds` (calls never pass the ceiling, cost by less than one price) and
`AnsweredInTime` (a bound on a request's duration that every guard contributes to).

**launch, hosting, export.** `AnsweredAsLaunched` relates the answer an agent gets to the
configuration as it was when the command started, with an edit between any two steps and another
shell at work. `JobsAccountedFor` and `EveryHandlerIsServed` balance the books of scheduler and bus
with nested publishes, jobs that cancel and jobs that raise; every handler heard its event or left
one dead letter, but for those behind a letter that could not be written, who have neither. `LinksLead` and `MapHolds` hold for
names a file can spell (`Plain`); for others see section 5.

### Bounds, and why they are enough

* *Runtime.* Gauges saturate and a night restores more than half of each, so what one cycle hands
  on is forgotten after two nights; `rhythm` runs three cycles from a rested start, the interrupted
  run two. `EventCap = 34`: memory pressure is `min(20, 0.6 * events)`, constant from 34 on.
  `MaxFaults = 2` puts one fault in a day that another one had already broken; `MaxStopCommands = 1`
  because a second one writes what the first wrote; `MaxSingleCycles = 1` bounds the otherwise
  unbounded use of `cycle run`. In `interruptions` no score varies; the duplicates DIGESTION
  measures call for EXPLORATION, so that the full day has all twelve phases. Yields are the
  extremes the rules can tell apart.
* *Router.* Two admissions per window, two failures to open the breaker, three attempts and three
  calls are the smallest values at which the guards act on one another; `Horizon = 12` lets the
  breaker open, cool down and open again.
* *Concepts.* Three ideas are two generations and a revenant, or a parent with the two heirs it
  must not have; three days are one that leaves ideas over, one that judges them and one that meets
  what that left; two rounds of two are the least funnel that eliminates, promotes twice and gives
  the judge a choice; `MaxLineageDepth = 1` lets three ideas reach the ceiling; one fault breaks any
  pair of writes.
* *Perception.* Two days and one fault: a record of yesterday a phase must not take for today's, and
  a second process; where ids repeat, one day, which every process begins anew on the files of the
  last. One document of two chunks, so that a kill finds it half indexed. Two questions for an
  observation, one seed a generation and two places, so that CREATION would reach a seed of
  yesterday's dream if it listed the seeds of every day; one mutant or revenant; a dream before or
  after EXPLORATION. Every phase takes place and no agent leaves a record out (`Skippable`,
  `Unreliable` are empty): a phase abandoned at once stands for both, and the theorems hold for every
  value of these bounds.
* *Society.* Three ideas of which two are twins, in two rounds; an attacker and a defender, each of
  whom may be valid, silent or nonsense; two passes, the least in which an opinion can be lost.
* *Production.* Two cycles over two dates and one fault: an idea carried forward, a winner stranded
  between any two writes, a process that outlives its date.
* *Consolidation.* Two processes, three nights, a bucket of two entries and a listing of two records,
  so that both limits are reached; one kill, one reset.
* *Launch.* Two shells, two commands, one edit: a second edit would replace what the first left.
* *Wiring.* Three jobs, delays of -1, 0 and 1, two events, two handlers, one retry: a batch with
  something after the job that raises, and an event inside the delivery of another.
* *Vault.* Two exports and four changes of the store; three titles, of which two share a file.

*Symmetry* is used in `growth` only (`Alike`, the processes): they start alike, no action tells
them apart, and the one temporal property of that run is an action property and so safe.
Deadlock is not checked where a bound ends the behaviour; in `rhythm`, `interruptions` and
`provider` it is.

*Fairness.* The only fairness is `WF_vars(Step)` in `interruptions`: "an interpreter that can
execute its next statement does". Nobody is obliged to start the brain again, to signal it or to
make a phase succeed.

## 4. The proofs

`tlapm` checks every proof below for all values of the constants that satisfy the named assumptions
of the modules, which TLC evaluates on every run: thresholds and rates are naturals, switches are
Booleans, a dream switch implies its feature flag (`EnvironmentAssumption`), the funnel climbs the
main line (`FunnelAssumption`), commands are the CLI's (`CommandsAssumption`), the critics are the
shipped ones in their order (`CriticsAssumption`), prices and waiting times have a top
(`PricesHaveATop`, `TimesHaveATop`), powers of numbers are numbers (`PowersAreNumbers`), ideas are
finitely many and a valid reply has scores of the scale (`IdeasAssumption`, `RepliesAssumption`),
reports and the subjects of a cycle are lists (`ListsAreLists`), targets of seeds and concepts are
numbers (`TargetsAreNumbers`), an idea has finitely many strong points (`StrengthsAreFinite`), caps
and limits are naturals (`CapsAreNatural`, `VaultAssumption`), cleaning a clean file name changes
nothing (`NamesClean`), what an earlier life left over is counted in naturals (`LeftoversAssumption`).

| theorem | shows | rests on |
|---|---|---|
| `RuntimeProofs`: `DecisionIsUnvisited`, `DecisionRespectsFloors`, `DayStartsAwakening` | what the pure policy answers | the rules, one by one |
| `TypeCorrect` | `[]TypeOK` | one lemma per action; gauges are clamped |
| `NoPhaseRunsTwice`, `DaysCloseAsleep` | `[]NoPhaseTwice`, `[]DayClosesAsleep` | `DayInvariant`, `DecisionIsUnvisited`; twelve distinct phases fit in forty turns |
| `DecisionKeepsOrder`, `WorkIsInOrder` | `[]WorkInOrder` | the order of the rules; that a day asks for one to eight observations (below) |
| `MemoryComesFirst` | `[]MemoryBeforeDreams` | what pressure does to the next decision; no faults and a critical floor under what waking leaves (below) |
| `EveryDayIsProductive` | `[]DayIsProductive` | `DiligenceInvariant`: the day is a chain, and strength and backlogs suffice at each link (below) |
| `FloorsAreRespected` | `FloorsRespected` | `TypeCorrect`, `DecisionRespectsFloors` |
| `CountedWorkSurvives`, `CountersStayTogether` | `CompletedWorkSurvives`, `[]CountersAgree` | `CounterInvariant` |
| `RuntimeImplementsDay` | `Day!Spec` | `DayInvariant`, `DayStartsAwakening` |
| `ConceptsProofs`: `IdeasAreInOrder` | `[]IInv` | one lemma per conjunct |
| `MovesAreAlwaysLegal`, `LineagesAreBounded` | `[]MovesAreLegal`, `[]LineageBounded` | `IInv` |
| `PhasesImplementIdeaLife` | `Lives!Spec` | `IInv`, one step per action that saves |
| `EveryParentHasOneHeir`, `NobodyWaitsUnheard` | `[]OneHeirEach`, `[]EveryoneIsHeard` | `IInv` with `HeirInv`, `HeardInv` |
| `EveryGraveHasAMirror`, `EveryWinnerIsProduced` | `[]GravesAreMirrored`, `[]WinnersAreProduced` | `IInv`; which phase is between its two saves |
| `ConsolidationProofs`: `EveryVersionIsCovered`, `SnapshotsAreAccountedFor` | `[]IInv`, `[]SnapshotsAccountedFor` | what the learning processes hold in memory |
| `LearningIsNeverUndone` | `NothingUnlearned` | `LearningInv`: without an overlap a process learns from the live DNA; a bucket loses only its oldest entries, and only when full |
| `EpisodesFadeOnceANight` | `[]FadesOnceANight` | `ShelfInv`, `TendedInv`: who still has to fade what, counted per night |
| `AgentProofs`: `SilenceIsNoticed` | `[]SilentCriticsAreNoticed` | counters are naturals |
| `ScoresStayOnScale` | `[]TypeOK` | averages, caps and roundings of numbers of the scale stay on it |
| `BlockedForGood`, `EveryRoundIsJust` | `OnceBlockedAlwaysCapped`, `[]RoundsAreJust` | `ScoresStayOnScale`; a total is under its cap; what a sieve and a ranking keep |
| `BudgetAlwaysHolds` | `[]BudgetHolds` | `BudgetInv` |
| `WindowIsRespected`, `DownProvidersAreSpared` | `[]WindowRespected`, `[]DownProviderIsSpared` | `SlotInv`: the slots of a window are its calls; `BreakerInv`: an open breaker knows when it opened |
| `RefusalsHaveReasons`, `RequestsAreAnsweredInTime` | `[]RefusedForAReason`, `[]AnsweredInTime` | `BudgetInv`, `BreakerInv`; `ClockInv`: what is left to wait bounds the hour of the answer |
| `PerceptionProofs`: `CorpusIsReadOnce` | `[]CorpusReadOnce` | `CorpusInv`: what is not in the manifest has only been read by processes a fault stopped, and what is has its chunks or somebody who is indexing them |
| `EveryTraceLeads`, `SeedsAreWorkedOnce` | `[]TracesLead`, `[]SeedsWorkedOnce` | `ShelfInv`, `TodoInv`, `MemoryInv`, `DayInv`, `SeedInv` (below) |
| `ProductionProofs`: `EveryOutcomeTellsTheTruth`, `EveryProjectIsWhole` | `[]OutcomeTellsTheTruth`, `[]ProjectsAreWhole` | `StoreInv`, `TodoInv`, and what holds of the files once nothing is owed (below) |
| `ProductionImplementsPublishing` | `Library!Spec` | the same with `LibraryInv`; one step per kind of file written, torn ones included |
| `HostProofs`: `LaunchInvariant`, `AnsweredAsLaunchedHolds` | `[]IInv`, `[]AnsweredAsLaunched` | every role of a wired process could be built |
| `LinksAlwaysLead`, `MapAlwaysHolds` | `[]LinksLead`, `[]MapHolds` | `VaultSafe`: each note due links to the vault or to a note written before it |
| `JobsAlwaysAccountedFor` | `[]JobsAccountedFor` | `JobsInv`: numbers are apart, and the head of what is due has run exactly when it is acting |
| `EveryHandlerIsAlwaysServed` | `[]EveryHandlerIsServed` | `BusInv`: nested deliveries are of distinct events, and whoever was passed heard, died or stands behind a letter that was not written |

*Hypotheses that are not assumptions of the model.* `WorkIsInOrder` takes any phase to fail, perceiving
ones included: the orchestrator's handlers catch nothing (`orchestrator.py:143`), HUNT passes on what
the router raises (`observing.py:106`; agents contain it), and a store that cannot be read may raise
in any of them. It assumes that a day asks for one to eight observations
(`SensibleIntake`; 3 as shipped): AWAKENING and two failed attempts leave strength for what eight
observations allow, while simulation finds days out of order with a minimum of 0 and of 12.
`MemoryComesFirst` assumes an undisturbed life (`MaxFaults = 0`) and a critical floor of at most 62
points (20 as shipped), whatever HUNT asks and whichever phases fail; that the night was not forced is
part of the property. All theorems of `ConceptsProofs` and `ProductionProofs` assume `~IdsRepeat`,
every process with a seed of its own: with the default seed those of the concepts are false, as
`erased` shows, and so are those of the files, for the same reason. The theorems of `PerceptionProofs`
need no such hypothesis. `EveryDayIsProductive` speaks of an undisturbed life (`UndisturbedLife`: no kills, no uncaught
exceptions, an AWAKENING that does not fail) and of four numbers within what waking leaves and
AWAKENING publishes (`MeetableThresholds`; the shipped ones are, and so are the run's); every other
threshold, every yield, backlog, target, number of cycles and set of failing phases is arbitrary.
In the code AWAKENING calls nothing that raises a domain error; a raw `OSError` no phase contains.
If it could fail the theorem would be false: a stale backlog would send the day to
DIGESTION and, its minimum unmet, by the fallback to REFLECTION before FOCUS. The property is
stated of a state that still has calls to spend (`calls < MaxLlmCalls`).

*Why strengthenings are needed.*

* `NoPhaseTwice` is not inductive: the policy consults `phases_visited`, but also `phase` (a sleeper
  is woken), and a state whose `phase` is not the last one entered could be given `AWAKENING` again.
  `DayInvariant` adds that to the day in memory *and to the one on disk*, because a restart turns the
  second into the first, and says what each place of the loop knows (`PlaceInDay`).
* `DayIsProductive` says which phases a finished day holds, and each is chosen by gauges that every
  phase before it spends. `DiligenceInvariant` states the chain the rules impose: which phases come
  only after which (`Diligent`), how much strength is left for those still ahead (`Strong`), how
  little memory presses (`Light`) and that what was observed is there to be digested (`Fed`). Between
  cycles the night has restored the gauges, in memory and on disk (`Morning`). It is claimed while
  calls are left: a spent budget sends the day to bed, wherever it is.
* `CountersAgree` speaks of four numbers in two files and in memory. `CounterInvariant` adds that
  between the two writes of a `checkpoint_now` the first is already equal to memory, and that the
  distance between clock and checkpoint is paid for by a fault already counted or by the cycle in
  progress.
* `MovesAreLegal` needs to know where every idea *in hand* stands (`HandInv`), what the hour says of
  today's ideas (`HourInv`), that ids are drawn in order (`BirthInv`), that only buried ideas have
  mirrors (`GraveInv`), and how deep a lineage may be (`DepthInv`). `HeirInv` adds that the parent of
  every mutation is buried, so that no list can hold it again; `HeardInv` that from its start on
  REFLECTION holds every CONCEPT there is.
* `SnapshotsAccountedFor` needs the version a learning process has *loaded* to be covered too, since
  it may save an older DNA over a newer one; and that without an overlap what is about to be
  snapshotted is the live DNA.
* `BudgetHolds` needs that a request on its way was let in below both ceilings and that nothing is
  spent between its admission and its answer.
* `AnsweredAsLaunched` needs that a wired process has a buildable adapter for every role, and that
  two roles share an adapter only if provider and model agree.
* `LinksLead` speaks of the notes in the vault; the notes still *due* are written in an order, so the
  invariant says of each that its links lead to the vault or to a note before it in that order.
* `NothingUnlearned` compares the DNA with the one before the step, but a process saves what it
  loaded earlier; `LearningInv` says that the two differ only if processes overlapped.
  `FadesOnceANight` counts fadings of an episode since it was filed; `ShelfInv` relates them to the
  nights that fell, on the shelf and in the batch a process holds, and `TendedInv` says that without a
  kill whatever has not faded tonight is still in somebody's batch.
* `OnceBlockedAlwaysCapped` and `RoundsAreJust` follow from what one merge and one selection return,
  for every list of critics and every field; the invariant keeps every score on the scale.
* `TracesLead` and `SeedsWorkedOnce` speak of records filed, but a stage lays out all its writes
  before the first. `TodoInv` says that what is owed is planned (the records of one kind, numbered on,
  each followed by its own index, node and edge) and that the next write is due; `ShelfInv` that the
  records of a kind and a day are numbered from one without a gap and cite what was filed;
  `MemoryInv` that one fault loses one index; `DayInv` that a day builds only before it dreams, and
  `SeedInv` that the concepts of a phase, those still owed included, are from distinct seeds.
* `OutcomeTellsTheTruth` speaks of runtime.json, the last of the files the phases of a
  day write, while any of them may be the last one written. `TodoInv` says of every write still owed where it
  may go and what it may say; `Final` is the disk once all of them are done. The approval promises the
  outcome of `Final` at the moment it decides, no write changes `Final`, and no later phase owes a file
  that would break the promise, so it is kept of the disk itself when REFLECTION is done and through
  the night. `ProjectsAreWhole` needs that a concept a project owns is never moved or developed again.
* `ImplementsPublishing` needs to know which work a file written now is about. `BookInv` says that
  the projects are of different days in their order, and that there is one of today only once the
  verdict is in; so today's project is the last. `ManifestInv` says that a manifest, the last write of
  its package, stands for all of it, and `ReportInv` that the report closes its day; so a package
  becomes whole by its manifest and by no other file, before it is told of, and no file of an older day
  comes late.
* `JobsAccountedFor` and `EveryHandlerIsServed` count, so a job must not be due twice and a handler
  not twice in an audience: job numbers are drawn in order and subscriptions kept once. The bus is
  asked when nothing is being delivered; `BusInv` says of each delivery in progress that those it
  has passed are settled and that nobody ahead of it has heard or died yet.

*Lists.* What a filter keeps is induction over data. `SelectSeq` is a recursive definition the provers
know nothing of, so `Lists!Among` sieves by a recursive *function* on numbers, which exists by
well-foundedness of finite sets: `NumbersInduct` is that induction for one set of numbers at a time,
and `AmongKeeps` follows from it for every list.

*Only model-checked.* `ProcessEnds` is liveness under fairness, and `NothingIsErased` is false. Every
other property of a passing run is the subject of a theorem.

## 5. Findings

`erased` is a violated run: a process with the default seed draws the ids of the process before it,
saves its concepts over the stored ones and in time buries one in an earlier idea's grave, although
the grave copy is "the permanent record and is never removed" (`adapters/persistence/filesystem.py:178`).

Noticed while reading, and stated by the models as the code has it, but not run as findings:

*The day.* From the second cycle on memory pressure may send the day to CONSOLIDATION before
REFLECTION, and then the winner is never handed to the DNA; a winner of a later day is never
remembered as successful. The "per-cycle ceilings" are per process, since nothing calls
`CallBudget.reset`. `creative-brain stop` overwrites the saved clock and checkpoint with those of a
brain that never ran, and `clock status` reports such a one. The bound of a run is compared with
the counter of all runs, so a second "run one cycle" on a data directory runs none. A forced night
skips the consolidation the README describes. "Never create straight out of an empty head"
(`config/biological_clock.yaml:26`), but the fallback can. The "nothing affordable left" branch
cannot be reached; the fallback reaches DREAMING with the switch off; `novelty_pressure` is raised
by nobody; the `cost` of the phases and `research_budget_per_cycle` in the YAML are not read. The
last winner is lost from the status after a restart.

*Ideas.* Finalists ranked below the approved one stay FINALIST for ever; a winner interrupted after
APPROVED is stranded. A revenant deeper than the lineage ceiling stays in the mutation pool for
ever, of which only the hundred newest are looked at. "A disqualified candidate never survives"
(`domain/services/tournament_service.py:6`), but the fallback of `select` promotes one when all are.
`_scale_funnel` widens by targets, not by the pool. The red team's "veto" only caps a total. An
agent with three schema violations is unhealthy for ever. Nothing enforces "CREATOR != JUDGE", the
autonomy policy or the decision rights.

*Stores.* A snapshot of the DNA is not immutable: a reset keeps the old ones and overlapping
processes overwrite each other's. "Turn dream
fragments into seeds the next cycle can work with" (`subconscious.py:171`), but a dream's
seeds are filed under the cycle that ends, and the next one lists its own; they are built only when
the same cycle explores after the dream, or when a process with the default seed repeats its id. A
document that was read but not indexed when the process was killed is never indexed, because the
manifest names it; nor is one that arrives while the brain runs. Each process overwrites the creative graph with its own. Memory fades only within the
newest 500 records. `read_json` is documented to answer None for a corrupt file and raises. An
error of a write is a raw `OSError` that no phase contains.

*Edges.* Retries do not pass the limiter; a half-open breaker needs the full number of failures
again. A role missing from the routing gets the model `mock-<role>` even with a real provider, and
provider names in the routing are not lower-cased. The demo runs on the real data directory. A
disabled agent that a phase calls for ends the process. The output folder keeps the date the process
started on. A job already due still runs when an earlier one of its batch cancels it, and is lost
when that one raises; a handler that publishes and then fails publishes again on its retry; a nested
event may be heard before the outer one. The bus is documented as "isolating handler failures from
the creative loop" (`adapters/events/__init__.py:35`), but an error of writing a dead letter leaves
`publish`. In the vault, a question whose name ends in "?" is linked
under a name no file has, a buried idea keeps its old note, and the index counts ideas that were
not exported.

## 6. What is left

1. The listing limits of the concept store (100, 200, 40), with enough ideas to reach them.
2. Similarity and saturation as operators over small texts, if a property comes to depend on them.

## 7. Not modelled

Prompt texts, schemas, how similar two texts are, the canned answers of the mock model, the wording
of notes and records, metrics and logging are data or output no rule reads back. The vendors' model
providers, the file system (beyond torn and missing writes) and the operating system's clock are the
environment. Of the policies over content, the allocation of zones and the autonomy levels are
inputs or consulted by nobody; `archive` and `sleep` of a concept and
`CallBudget.reset` are called by nobody; where a document is cut into chunks is content, their number
an input; the check for secrets and the cleaning script touch no state
of the brain. `PROJECT.json` lists every component with its status and the reason.
