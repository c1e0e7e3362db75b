------------------------------ MODULE Wiring ------------------------------
(***************************************************************************)
(* The scheduler and the event bus (adapters/scheduler, adapters/events)   *)
(* in the one thread of their host: a job or a handler may, before it      *)
(* returns or raises, schedule, cancel, subscribe and publish.  The        *)
(* program as composed publishes and subscribes nobody; jobs and handlers  *)
(* are whoever uses the two ports.                                         *)
(***************************************************************************)
EXTENDS Lists

CONSTANTS
  JobNames, Delays,
  EventNames, Handlers,
  MaxRetries,
  MaxTime, MaxJobs, MaxEvents  \* bounds

Wildcard == "*"

ASSUME WiringAssumption == Delays \subseteq Int /\ Wildcard \notin EventNames

VARIABLES
  now,
  jobs,        \* _jobs: soonest first
  due,         \* jobs the run_pending at hand has still to run
  acting,      \* is the first of them running?
  handlers,    \* _handlers: who listens to a name, or to the wildcard
  history,     \* _history, with the handlers each event went to
  deliveries,  \* publishes in progress, the innermost last
  heard,       \* what has been delivered: an event and a handler of it
  dead,        \* _dead_letters
  unfiled,     \* dead letters that could not be written to their folder
  minted,      \* jobs ever scheduled
  ran, withdrawn, lost  \* what became of them

scheduler == <<jobs, due, acting, minted, ran, withdrawn, lost>>
bus == <<handlers, history, deliveries, heard, dead, unfiled>>
hostVars == <<now, scheduler, bus>>

HostInit ==
  /\ now = 0
  /\ jobs = <<>> /\ due = <<>> /\ acting = FALSE
  /\ minted = 0 /\ ran = {} /\ withdrawn = {} /\ lost = {}
  /\ handlers = [name \in EventNames \cup {Wildcard} |-> <<>>]
  /\ history = <<>> /\ deliveries = <<>> /\ heard = {} /\ dead = <<>> /\ unfiled = {}

Numbers(sequence) == {job.number : job \in ToSet(sequence)}

Delivering == deliveries # <<>>

\* Somebody outside the two adapters has the thread: the host, a job or a handler.
InHand == IF Delivering THEN Last(deliveries).trying ELSE due = <<>> \/ acting

-----------------------------------------------------------------------------
(* The scheduler. *)

Under(name) == {job \in ToSet(jobs) : job.name = name}

Without(name) == Among(jobs, ToSet(jobs) \ Under(name))

\* cancel() forgets what waits under that name, not what is about to be run.
Cancelled(name) == withdrawn' = withdrawn \cup {job.number : job \in Under(name)}

Until(time, sequence) == {job \in ToSet(sequence) : job.due_at <= time}
After(time, sequence) == {job \in ToSet(sequence) : job.due_at > time}

\* list.sort is stable: among equals the one scheduled first stays first.
Insert(job, sequence) ==
  Among(sequence, Until(job.due_at, sequence)) \o <<job>> \o Among(sequence, After(job.due_at, sequence))

\* A delay below zero is none.
Moment(delay) == now + (IF delay > 0 THEN delay ELSE 0)

\* schedule() replaces the job that waits under the name.
Schedule(name, delay) ==
  /\ InHand /\ minted < MaxJobs /\ Moment(delay) <= MaxTime
  /\ Cancelled(name)
  /\ minted' = minted + 1
  /\ jobs' = Insert([number |-> minted', name |-> name, due_at |-> Moment(delay)], Without(name))
  /\ UNCHANGED <<now, due, acting, ran, lost, bus>>

Cancel(name) ==
  /\ InHand
  /\ Cancelled(name) /\ jobs' = Without(name)
  /\ UNCHANGED <<now, due, acting, minted, ran, lost, bus>>

\* Variant for mutation runs: a job due this very moment is run and kept.
RunPendingAndKeep ==
  /\ due = <<>> /\ ~Delivering
  /\ due' = Among(jobs, Until(now, jobs))
  /\ jobs' = Among(jobs, After(now - 1, jobs))
  /\ UNCHANGED <<now, acting, minted, ran, withdrawn, lost, bus>>

\* run_pending(): everything due is forgotten before the first job runs.
RunPending ==
  /\ due = <<>> /\ ~Delivering
  /\ due' = Among(jobs, Until(now, jobs))
  /\ jobs' = Among(jobs, After(now, jobs))
  /\ UNCHANGED <<now, acting, minted, ran, withdrawn, lost, bus>>

RunJob ==
  /\ due # <<>> /\ ~acting
  /\ acting' = TRUE /\ ran' = ran \cup {Head(due).number}
  /\ UNCHANGED <<now, jobs, due, minted, withdrawn, lost, bus>>

JobReturns ==
  /\ acting /\ ~Delivering
  /\ acting' = FALSE /\ due' = Tail(due)
  /\ UNCHANGED <<now, jobs, minted, ran, withdrawn, lost, bus>>

\* Nobody catches what a job raises: run_pending ends there.
JobRaises ==
  /\ acting /\ ~Delivering
  /\ acting' = FALSE /\ due' = <<>>
  /\ lost' = lost \cup Numbers(Tail(due))
  /\ UNCHANGED <<now, jobs, minted, ran, withdrawn, bus>>

-----------------------------------------------------------------------------
(* The bus. *)

\* One callable subscribed twice is two handlers here.
Subscribe(name, handler) ==
  /\ InHand /\ \A n \in DOMAIN handlers : handler \notin ToSet(handlers[n])
  /\ handlers' = [handlers EXCEPT ![name] = Append(@, handler)]
  /\ UNCHANGED <<now, scheduler, history, deliveries, heard, dead, unfiled>>

\* Who hears an event: those subscribed to its name, then those to all.
Audience(name) == handlers[name] \o handlers[Wildcard]

\* publish(): the event is history first; the audience is taken once.
Publish(name) ==
  /\ InHand /\ Len(history) < MaxEvents
  /\ history' = Append(history, Audience(name))
  /\ deliveries' = Append(deliveries, [event |-> Len(history'), passed |-> 0,
                                       failures |-> 0, trying |-> FALSE])
  /\ UNCHANGED <<now, scheduler, handlers, heard, dead, unfiled>>

Top == Last(deliveries)

OnTop(delivery) == [deliveries EXCEPT ![Len(deliveries)] = delivery]

\* Has the innermost event handlers left, and what is its next delivery?
Waited == Top.passed < Len(history[Top.event])
Letter == <<Top.event, history[Top.event][Top.passed + 1]>>

CallHandler ==
  /\ Delivering /\ ~Top.trying /\ Waited
  /\ deliveries' = OnTop([Top EXCEPT !.trying = TRUE])
  /\ UNCHANGED <<now, scheduler, handlers, history, heard, dead, unfiled>>

Done(delivery) == [delivery EXCEPT !.passed = @ + 1, !.failures = 0, !.trying = FALSE]

HandlerReturns ==
  /\ Delivering /\ Top.trying
  /\ heard' = heard \cup {Letter}
  /\ deliveries' = OnTop(Done(Top))
  /\ UNCHANGED <<now, scheduler, handlers, history, dead, unfiled>>

\* Variant for mutation runs: the last failure ends the whole delivery.
HandlerRaisesForAll ==
  /\ Delivering /\ Top.trying
  /\ IF Top.failures < MaxRetries
     THEN /\ deliveries' = OnTop([Top EXCEPT !.failures = @ + 1, !.trying = FALSE])
          /\ UNCHANGED dead
     ELSE /\ dead' = Append(dead, Letter)
          /\ deliveries' = OnTop([Done(Top) EXCEPT !.passed = Len(history[Top.event])])
  /\ UNCHANGED <<now, scheduler, handlers, history, heard, unfiled>>

\* _dispatch: max_retries more attempts, then a dead letter, kept and filed.
HandlerRaises ==
  /\ Delivering /\ Top.trying
  /\ IF Top.failures < MaxRetries
     THEN /\ deliveries' = OnTop([Top EXCEPT !.failures = @ + 1, !.trying = FALSE])
          /\ UNCHANGED dead
     ELSE /\ dead' = Append(dead, Letter)
          /\ deliveries' = OnTop(Done(Top))
  /\ UNCHANGED <<now, scheduler, handlers, history, heard, unfiled>>

\* The letter is kept but its file cannot be written (no folder, no room, a payload JSON
\* does not know): nobody catches that, and publish() ends there.
LetterUnwritten ==
  /\ Delivering /\ Top.trying /\ Top.failures >= MaxRetries
  /\ dead' = Append(dead, Letter) /\ unfiled' = unfiled \cup {Letter}
  /\ deliveries' = Front(deliveries)
  /\ UNCHANGED <<now, scheduler, handlers, history, heard>>

\* publish() returns to whoever called it.
PublishReturns ==
  /\ Delivering /\ ~Waited
  /\ deliveries' = Front(deliveries)
  /\ UNCHANGED <<now, scheduler, handlers, history, heard, dead, unfiled>>

Tick ==
  /\ now < MaxTime /\ now' = now + 1
  /\ UNCHANGED <<scheduler, bus>>

HostNext ==
  \/ \E name \in JobNames : Cancel(name) \/ \E delay \in Delays : Schedule(name, delay)
  \/ RunPending \/ RunJob \/ JobReturns \/ JobRaises
  \/ \E name \in EventNames \cup {Wildcard}, handler \in Handlers : Subscribe(name, handler)
  \/ \E name \in EventNames : Publish(name)
  \/ CallHandler \/ HandlerReturns \/ HandlerRaises \/ LetterUnwritten \/ PublishReturns
  \/ Tick

HostSpec == HostInit /\ [][HostNext]_hostVars

-----------------------------------------------------------------------------
\* Every job ever scheduled waits, is about to run, or has met one end: it ran
\* once, it was cancelled or replaced while it waited and never runs, or a job
\* before it raised (scheduler/__init__.py: run_pending, cancel).
JobsAccountedFor ==
  LET ends == <<Numbers(jobs), Numbers(due) \ ran, ran, withdrawn, lost>>
  IN  /\ UNION ToSet(ends) = 1 .. minted
      /\ \A m, n \in 1 .. Len(ends) : m # n => ends[m] \cap ends[n] = {}

\* Behind a handler whose dead letter could not be written nobody was called.
CutOff(event, place) ==
  \E earlier \in 1 .. place - 1 : <<event, history[event][earlier]>> \in unfiled

\* When the host has the thread again, every handler an event was published to
\* has either heard it or left one dead letter, whatever the others raised,
\* published or subscribed in the meantime; only behind a letter that could not be
\* written a handler has neither (events/__init__.py: publish, _to_dead_letter).
EveryHandlerIsServed ==
  ~Delivering =>
    \A event \in 1 .. Len(history) :
      \A place \in 1 .. Len(history[event]) :
        LET letter == <<event, history[event][place]>>
            letters == {n \in 1 .. Len(dead) : dead[n] = letter}
        IN  /\ Cardinality(letters) = (IF letter \in heard \/ CutOff(event, place) THEN 0 ELSE 1)
            /\ CutOff(event, place) => letter \notin heard

-----------------------------------------------------------------------------
(* The instance TLC checks. *)
SomeDelays == {-1, 0, 1}

=============================================================================
