------------------------------ MODULE MCLaunch ------------------------------
(***************************************************************************)
(* What the launch run asks, and values for the constants of Launch.       *)
(***************************************************************************)
EXTENDS Launch

\* What the file and the environment a command was started with say of a role.
Meant(c) ==
  IF c.mock THEN "mock"
  ELSE IF c.role \in DOMAIN c.files.routing /\ c.files.routing[c.role].provider # Absent
       THEN c.files.routing[c.role].provider ELSE DefaultProvider(c.files, c.env)

\* Only a command that runs cycles calls a model, and each role is answered by the
\* provider the configuration of its launch gave it, whatever was edited since, what
\* runs in the other shell and which models share a name; a mock run or a demo
\* reaches no vendor, and no vendor is reached without its key.  A command that was
\* refused, or only looks, has written nothing.
AnsweredAsLaunched ==
  /\ call # NoCall =>
       /\ call.command \in Runs
       /\ call.answered.provider = Meant(call)
       /\ call.answered.provider # "mock" => call.answered.provider \in call.env.keys
  /\ \A s \in Shells :
       shell[s].stage = "refused" \/ shell[s].command \in Looks => shell[s].wrote = {}

-----------------------------------------------------------------------------
(* The values of the run. *)

Shipped ==
  [sound |-> TRUE, provider |-> "mock", disabled |-> {}, prompts |-> TRUE, core |-> TRUE,
   routing |-> [r \in ToSet(ModelRoles) |-> [provider |-> "mock", model |-> <<"mock", r>>]]]

\* Creator and judge on two vendors under one model name, the rest left to the
\* environment; the dreamer's provider as it is spelt on the vendor's site.
Mixed ==
  [Shipped EXCEPT
     !.provider = Absent, !.disabled = {"RESEARCH_AGENT", "DREAM_AGENT"},
     !.routing = [creative |-> [provider |-> "openai", model |-> <<"large">>],
                  judging |-> [provider |-> "anthropic", model |-> <<"large">>],
                  criticism |-> [provider |-> Absent, model |-> <<"large">>]]]
Misspelt == [Mixed EXCEPT !.routing = [dreaming |-> [provider |-> "OpenAI", model |-> <<>>]]]

SomeRoots ==
  {Mixed, Misspelt, [Shipped EXCEPT !.sound = FALSE], [Mixed EXCEPT !.core = FALSE]}

SomeEnvironments ==
  {[provider |-> Absent, keys |-> Vendors, packages |-> {}],
   [provider |-> "OpenAI", keys |-> Vendors, packages |-> Vendors]}

=============================================================================
