------------------------------- MODULE Launch -------------------------------
(***************************************************************************)
(* Commands over one project root: what each reads before it is wired, when*)
(* it is refused, which model answers which agent, and what it writes      *)
(* (cli, composition/container.py and config.py, the society of agents,    *)
(* the constructors of the prompt library and of the model adapters).      *)
(* Several commands run side by side while an operator edits the root.  A  *)
(* run is the calls it makes; its cycle is in the other modules.           *)
(***************************************************************************)
EXTENDS FiniteSets, Integers, SequencesExt

CONSTANTS
  Shells,        \* terminals: a command runs in each
  Commands,      \* bound: the commands typed
  Roots,         \* bound: what the operator may leave in config/, prompts/ and memory/core_dna
  Environments,  \* bound: the environment variables and packages a shell may have
  MaxEdits,      \* bound: edits of the root
  MaxCommands    \* bound: commands typed

VARIABLES
  root,     \* the files of the root
  shell,    \* the process of each shell
  call,     \* the call of a model this step makes, if any
  edits, typed

vars == <<root, shell, call, edits, typed>>

-----------------------------------------------------------------------------
(* The society. *)

Absent == "absent"
Vendors == {"anthropic", "openai"}
ModelRoles == <<"research", "creative", "criticism", "judging", "structuring", "dreaming">>

AgentsOf ==
  [research |-> {"OBSERVER_AGENT", "RESEARCH_AGENT"},
   creative |-> {"CURIOSITY_AGENT", "WHAT_IF_AGENT", "CONCEPT_COLLIDER_AGENT", "INVERSION_AGENT",
                 "PARADOX_AGENT", "CONCEPT_BUILDER", "PITCH_BUILDER", "TITLE_AGENT",
                 "LORE_CONNECTION_AGENT", "MUTATION_AGENT"},
   criticism |-> {"PEDRO_DNA_AGENT", "REALITY_ANCHOR_AGENT", "BRAZILIAN_REALITY_AGENT",
                  "HUMAN_DRAMA_AGENT", "ELEGANCE_AGENT", "ANTI_CLICHE_AGENT", "NOVELTY_AGENT",
                  "MARKET_AGENT", "RED_TEAM_AGENT", "BLUE_TEAM_AGENT", "OBSESSION_AGENT"},
   judging |-> {"CREATIVE_JUDGE_AGENT", "LEARNING_AGENT", "META_COGNITION_AGENT", "BIOLOGICAL_CLOCK_AGENT"},
   structuring |-> {"SYNOPSIS_BUILDER", "EXTREME_CONSEQUENCE_AGENT", "WORLD_ARCHITECT_AGENT",
                    "CHARACTER_ARCHITECT_AGENT", "MEMORY_AGENT"},
   dreaming |-> {"THE_UNKNOWN_AGENT", "DREAM_AGENT"}]

Declared == UNION {AgentsOf[r] : r \in DOMAIN AgentsOf}

\* config/agents.yaml overrides a definition by its name.
Enabled(files) == Declared \ files.disabled

\* The biological clock runs on a policy: it has no output schema and is never live.
Live(files) == Enabled(files) \ {"BIOLOGICAL_CLOCK_AGENT"}

\* The agents some phase fetches with get(), which raises when they are not live.
Required == {"OBSERVER_AGENT", "CURIOSITY_AGENT", "CONCEPT_BUILDER", "CREATIVE_JUDGE_AGENT",
             "WORLD_ARCHITECT_AGENT", "CHARACTER_ARCHITECT_AGENT", "EXTREME_CONSEQUENCE_AGENT",
             "PITCH_BUILDER", "SYNOPSIS_BUILDER", "MEMORY_AGENT", "LEARNING_AGENT", "MUTATION_AGENT",
             "DREAM_AGENT"}

-----------------------------------------------------------------------------
(* Which model a role gets. *)

\* Names are taken in lower case from the environment and from `provider`,
\* as spelt from `routing`.
Lower(name) == IF name = "OpenAI" THEN "openai" ELSE name

\* The environment comes before the file, the mock after both.
DefaultProvider(files, env) ==
  IF env.provider # Absent THEN Lower(env.provider)
  ELSE IF files.provider # Absent THEN Lower(files.provider) ELSE "mock"

ProviderOf(r, p) ==
  IF p.mock THEN "mock"
  ELSE IF r \in DOMAIN p.files.routing /\ p.files.routing[r].provider # Absent
       THEN p.files.routing[r].provider ELSE DefaultProvider(p.files, p.env)

\* A role the file gives no model has a mock's name for one, whoever provides it.
ModelOf(r, p) ==
  IF r \in DOMAIN p.files.routing /\ p.files.routing[r].model # <<>> THEN p.files.routing[r].model
  ELSE <<"mock", r>>

Entry(r, p) == [provider |-> ProviderOf(r, p), model |-> ModelOf(r, p)]

\* Variant for mutation runs: models are remembered by name alone.
KeyOfModel(e) == <<e.model>>

\* The adapters built so far are remembered by provider and model.
Key(e) == <<e.provider, e.model>>

\* The adapter of a role is the one built for the first role with its key.
Adapter(r, p) ==
  LET first == SelectInSeq(ModelRoles, LAMBDA q : Key(Entry(q, p)) = Key(Entry(r, p)))
  IN  Entry(ModelRoles[first], p)

\* An adapter of a vendor wants a key and the vendor's package.
Buildable(e, env) ==
  e.provider = "mock" \/ e.provider \in Vendors \cap env.keys \cap env.packages

-----------------------------------------------------------------------------
(* A command, up to where it is wired. *)

Runs == {"start", "cycle", "demo"}
Looks == {"status", "memory", "graveyard", "tournament", "agents", "clock"}

NoFiles == [sound |-> TRUE, provider |-> Absent, routing |-> <<>>, disabled |-> {}, prompts |-> FALSE,
            core |-> FALSE]
ASSUME CommandsAssumption == Commands \subseteq Runs \cup Looks \cup {"export", "stop"}

Idle == [command |-> Absent, stage |-> "idle", mock |-> FALSE, env |-> Absent, files |-> NoFiles,
         society |-> {}, wrote |-> {}]
NoCall == [role |-> Absent]

Init ==
  /\ root \in Roots /\ shell = [s \in Shells |-> Idle] /\ call = NoCall
  /\ edits = 0 /\ typed = 0

\* The process of s goes on to this.
Becomes(s, p) == shell' = [shell EXCEPT ![s] = p]
Moves(s, stage) == Becomes(s, [shell[s] EXCEPT !.stage = stage])

\* A demo is offline whether or not --mock was given.
Invoke(s) ==
  /\ shell[s].stage \in {"idle", "done", "refused", "crashed"} /\ typed < MaxCommands
  /\ \E c \in Commands, flag \in BOOLEAN, env \in Environments :
       Becomes(s, [Idle EXCEPT !.command = c, !.stage = "reading", !.env = env,
                               !.mock = flag \/ c = "demo"])
  /\ typed' = typed + 1 /\ call' = NoCall /\ UNCHANGED <<root, edits>>

\* BrainConfig.load(): a file that is not a mapping refuses the command.
LoadConfig(s) ==
  /\ shell[s].stage = "reading"
  /\ IF root.sound THEN Becomes(s, [shell[s] EXCEPT !.stage = "routing", !.files = root])
     ELSE Moves(s, "refused")
  /\ call' = NoCall /\ UNCHANGED <<root, edits, typed>>

BuildProviders(s) ==
  /\ shell[s].stage = "routing"
  /\ IF \A r \in ToSet(ModelRoles) : Buildable(Entry(r, shell[s]), shell[s].env)
     THEN Moves(s, "gathering") ELSE Moves(s, "refused")
  /\ call' = NoCall /\ UNCHANGED <<root, edits, typed>>

\* The core DNA and the prompts are read as they are by now; without either there is
\* no society.  Its agents are those of the configuration read before.
BuildSociety(s) ==
  /\ shell[s].stage = "gathering"
  /\ IF root.core /\ root.prompts
     THEN Becomes(s, [shell[s] EXCEPT !.stage = "wired", !.society = Live(shell[s].files)])
     ELSE Moves(s, "refused")
  /\ call' = NoCall /\ UNCHANGED <<root, edits, typed>>

-----------------------------------------------------------------------------
(* What a wired command does. *)

Ends(s, stage, wrote) ==
  /\ Becomes(s, [shell[s] EXCEPT !.stage = stage, !.wrote = @ \cup wrote])
  /\ call' = NoCall /\ UNCHANGED <<root, edits, typed>>

\* A look writes nothing, an export only the vault; a stop writes the clock and the
\* checkpoint of a runtime that has restored neither.
Written(command) ==
  CASE command \in Looks -> {} [] command = "export" -> {"vault"} [] command = "stop" -> {"clock", "checkpoint"}

Dispatch(s) ==
  /\ shell[s].stage = "wired" /\ shell[s].command \notin Runs
  /\ Ends(s, "done", Written(shell[s].command))

Start(s) == shell[s].stage = "wired" /\ shell[s].command \in Runs /\ Ends(s, "running", {})

Running(s) == shell[s].stage = "running"

\* ModelRouter.complete(): the adapter of the agent's role answers.  Research speaks
\* for RESEARCH_AGENT whether or not it is live.
Complete(s) ==
  /\ Running(s)
  /\ \E r \in DOMAIN AgentsOf :
       /\ r = "research" \/ AgentsOf[r] \cap shell[s].society # {}
       /\ call' = [role |-> r, command |-> shell[s].command, mock |-> shell[s].mock,
                   files |-> shell[s].files, env |-> shell[s].env, answered |-> Adapter(r, shell[s])]
  /\ Becomes(s, [shell[s] EXCEPT !.wrote = @ \cup {"memory"}])
  /\ UNCHANGED <<root, edits, typed>>

\* Whatever ends a run, shutdown() persists the clock and the checkpoint.
Finish(s) == Running(s) /\ Ends(s, "done", {"clock", "checkpoint"})

Missing(s) ==
  /\ Running(s) /\ ~ Required \subseteq shell[s].society
  /\ Ends(s, "crashed", {"clock", "checkpoint"})

\* The operator edits the root under whatever runs.
Edit ==
  /\ edits < MaxEdits /\ edits' = edits + 1 /\ root' \in Roots \ {root}
  /\ call' = NoCall /\ UNCHANGED <<shell, typed>>

Next ==
  \/ Edit
  \/ \E s \in Shells :
       \/ Invoke(s) \/ LoadConfig(s) \/ BuildProviders(s) \/ BuildSociety(s)
       \/ Dispatch(s) \/ Start(s)
       \/ Complete(s) \/ Finish(s) \/ Missing(s)

Spec == Init /\ [][Next]_vars

-----------------------------------------------------------------------------

Stages ==
  {"idle", "reading", "routing", "gathering", "wired", "running", "done", "refused", "crashed"}

Processes ==
  [command : Commands \cup {Absent}, stage : Stages, mock : BOOLEAN,
   env : Environments \cup {Absent}, files : Roots \cup {NoFiles}, society : SUBSET Declared,
   wrote : SUBSET {"vault", "clock", "checkpoint", "memory"}]

TypeOK ==
  /\ root \in Roots /\ shell \in [Shells -> Processes]
  /\ edits \in Nat /\ typed \in Nat

=============================================================================
