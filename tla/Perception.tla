----------------------------- MODULE Perception -----------------------------
(***************************************************************************)
(* What a process reads of the corpus when it starts, what a day perceives *)
(* and what it makes of it: observations, research, questions, seeds, the  *)
(* concepts built from them, the mutants and revenants made of those, and  *)
(* the seeds a dream leaves (runtime's bootstrap, application/use_cases/   *)
(* observing.py, generating.py, competing.py and subconscious.py), each    *)
(* filed, indexed in vector memory and drawn into the knowledge graph by a *)
(* write of its own (adapters/filesystem, adapters/persistence).  A phase  *)
(* may be abandoned, and the process killed, between any two writes.       *)
(* The clock promises every phase at most once a day, and those of the     *)
(* working day in this order (NoPhaseTwice and WorkInOrder of              *)
(* RuntimeProperties); a dream may come anywhere.                          *)
(***************************************************************************)
EXTENDS FiniteSets, Integers, Lists, SequencesExt

CONSTANTS
  Documents,       \* the files of input/, by content
  Chunks,          \* how many chunks each is split into
  Observations,    \* bound: how many observations a batch may hold
  QuestionsEach,   \* targets.questions_per_observation
  ResearchTopics,  \* targets.research_topics
  SeedHeats,       \* bound: the heats of the seeds a generation may yield, a sequence
  ConceptTarget,   \* targets.concepts
  Fragments,       \* bound: how many fragments a dream may have
  Variants,        \* bound: mutants and revenants
  Skippable,       \* bound: phases a day may leave out
  DreamsBefore,    \* bound: phases that may follow a dream
  Unreliable,      \* bound: phases whose agents may leave a record out
  Comfort,         \* the comfort share of the exploration policy, in percent
  MaxDays,         \* bound: cycles begun, by whether ids repeat
  MaxFaults        \* bound: phases abandoned and processes killed

ASSUME TargetsAreNumbers ==
  /\ Observations \cup Fragments \subseteq Nat /\ SeedHeats \subseteq Seq(Nat)
  /\ {ResearchTopics, ConceptTarget, QuestionsEach, Variants} \subseteq Nat
  /\ Chunks \in [Documents -> Nat] /\ MaxDays \in [BOOLEAN -> Nat]

VARIABLES
  idsRepeat,  \* the configuration: does every process draw its ids from one seed?
  day,        \* the current cycle
  phase,      \* the phase, "BOOTSTRAP", "between" two phases, "asleep", or "down"
  step,       \* what the phase does once nothing is owed
  visited,    \* phases_visited
  todo,       \* the writes the stage still owes
  filed,      \* every record of every repository
  mine,       \* the ids of the day's records that this process filed
  indexed,    \* the keys of the vector memory: each index() saves them all
  graph,      \* the nodes and edges this process knows
  graphFile,  \* creative_graph.json
  known,      \* checksums this process takes for ingested
  manifest,   \* _ingest_manifest.json
  documents,  \* what documents() hands to research in this process
  readings,   \* the phases that have read each document, for the properties
  faults

disk == <<idsRepeat, filed, mine, indexed, graphFile, manifest>>
vars == <<idsRepeat, day, phase, step, visited, todo, filed, mine, indexed, graph, graphFile,
          known, manifest, documents, readings, faults>>

-----------------------------------------------------------------------------
(* Records and the writes that file them. *)

Of(kind) == {r \in filed : r.kind = kind /\ r.day = day}

\* Was r filed after s, of the same kind?
Newer(r, s) == r.day > s.day \/ (r.day = s.day /\ r.n > s.n)

\* list_for_cycle(): the cycle's records, the newest file first.
NewestFirst(kind) == InOrder(Of(kind), {p \in Of(kind) \X Of(kind) : Newer(p[1], p[2])})

Id(r) == <<r.kind, r.day, r.n>>

\* The ids drawn for the day's records: those of another process with the same
\* seed are drawn again.
Numbered(kind) == {r \in Of(kind) : idsRepeat => Id(r) \in mine}

\* The i-th record a stage makes of its kind, and the records it cites.
Record(kind, i, from, heat) ==
  [kind |-> kind, day |-> day, made |-> phase, n |-> Cardinality(Numbered(kind)) + i,
   from |-> from, heat |-> heat]

Write(op, r) == [op |-> op, record |-> r]

Filing == <<"file">>
Indexing == <<"file", "index">>
Drawing == <<"file", "index", "node", "edge">>
Linking == <<"file", "edge">>

\* What a stage owes: its records, one after the other.
Owed(records, ops) ==
  [i \in 1 .. Len(records) * Len(ops) |->
     Write(ops[((i - 1) % Len(ops)) + 1], records[((i - 1) \div Len(ops)) + 1])]

NoGraph == [nodes |-> {}, edges |-> {}]

Init ==
  /\ idsRepeat \in BOOLEAN /\ day = 0 /\ phase = "down" /\ step = "end" /\ visited = {} /\ todo = <<>>
  /\ filed = {} /\ mine = {} /\ indexed = {}
  /\ graph = NoGraph /\ graphFile = NoGraph
  /\ known = {} /\ manifest = {} /\ documents = {}
  /\ readings = [d \in Documents |-> <<>>] /\ faults = 0

-----------------------------------------------------------------------------
(* The process and its day. *)

\* Variant for mutation runs: the manifest is not read back.
RestartUnaware ==
  /\ phase = "down" /\ phase' = "BOOTSTRAP" /\ step' = "start"
  /\ known' = {} /\ documents' = {} /\ graph' = NoGraph
  /\ day' = (IF idsRepeat THEN 0 ELSE day)
  /\ UNCHANGED <<visited, todo, disk, readings, faults>>

\* A new process reads the vector memory and the manifest back, and no graph; with
\* a seed of its own it draws ids nobody has, with the same seed those of the last.
Restart ==
  /\ phase = "down" /\ phase' = "BOOTSTRAP" /\ step' = "start"
  /\ known' = manifest /\ documents' = {} /\ graph' = NoGraph
  /\ day' = (IF idsRepeat THEN 0 ELSE day)
  /\ UNCHANGED <<visited, todo, disk, readings, faults>>

BeginDay ==
  /\ phase = "asleep" /\ day < MaxDays[idsRepeat]
  /\ day' = day + 1 /\ phase' = "AWAKENING" /\ step' = "start" /\ visited' = {"AWAKENING"}
  /\ mine' = {}
  /\ UNCHANGED <<idsRepeat, todo, filed, indexed, graph, graphFile, known, manifest, documents,
                 readings, faults>>

\* The order WorkInOrder promises; a dream has no place in it.
WorkingDay ==
  <<{"OBSERVATION"}, {"HUNT"}, {"FOCUS"}, {"CREATION"}, {"REFLECTION"}, {"SECOND_WIND", "EXPLORATION"}>>

Enterable == {"DREAMING"} \cup UNION {WorkingDay[n] : n \in DOMAIN WorkingDay}

\* What the day has yet to go through.
Ahead == Enterable \ (visited \cup Skippable)

Enter(p) ==
  /\ phase = "between" /\ p \notin visited
  /\ p = "DREAMING" => Ahead \subseteq {"DREAMING"} \cup DreamsBefore
  /\ \A n \in DOMAIN WorkingDay : p \in WorkingDay[n] =>
       /\ \A k \in 1 .. n - 1 : WorkingDay[k] \subseteq visited \cup Skippable
       /\ \A k \in n + 1 .. Len(WorkingDay) : WorkingDay[k] \cap visited = {}
  /\ phase' = p /\ step' = "start" /\ visited' = visited \cup {p}
  /\ UNCHANGED <<day, todo, disk, graph, known, documents, readings, faults>>

EndDay ==
  /\ phase = "between" /\ Ahead = {} /\ phase' = "asleep"
  /\ UNCHANGED <<day, step, visited, todo, disk, graph, known, documents, readings, faults>>

At(p, s) == phase = p /\ step = s /\ todo = <<>>

\* The stage owes these writes and goes on to next.
Owe(writes, next) ==
  /\ todo' = writes /\ step' = next
  /\ UNCHANGED <<day, phase, visited, disk, graph, known, documents, readings, faults>>

Leave ==
  /\ step = "end" /\ todo = <<>> /\ phase \notin {"BOOTSTRAP", "between", "asleep", "down"}
  /\ phase' = "between"
  /\ UNCHANGED <<day, step, visited, todo, disk, graph, known, documents, readings, faults>>

-----------------------------------------------------------------------------
(* The corpus: everything new that can be read, then the manifest; only a  *)
(* process that starts indexes what it read, a chunk at a time.            *)

Reading(at) == phase \in {"BOOTSTRAP", "AWAKENING"} /\ step = at /\ todo = <<>>

Ingest ==
  /\ Reading("start")
  /\ \E readable \in SUBSET Documents :
       LET fresh == readable \ known IN
       /\ known' = known \cup fresh
       /\ documents' = documents \cup fresh
       /\ readings' = [d \in Documents |->
                         IF d \in fresh THEN Append(readings[d], phase) ELSE readings[d]]
  /\ step' = "manifest"
  /\ UNCHANGED <<day, phase, visited, todo, disk, graph, faults>>

SaveManifest ==
  /\ Reading("manifest")
  /\ manifest' = known /\ step' = (IF phase = "BOOTSTRAP" THEN "chunks" ELSE "end")
  /\ UNCHANGED <<idsRepeat, day, phase, visited, todo, filed, mine, indexed, graph, graphFile,
                 known, documents, readings, faults>>

Chunk(d, i) == <<"chunk", d, i>>

\* The documents in whatever order, each from its first chunk to its last.
IndexChunk ==
  /\ phase = "BOOTSTRAP" /\ step = "chunks"
  /\ \E d \in documents : \E i \in 1 .. Chunks[d] :
       /\ Chunk(d, i) \notin indexed /\ \A j \in 1 .. i - 1 : Chunk(d, j) \in indexed
       /\ indexed' = indexed \cup {Chunk(d, i)}
  /\ UNCHANGED <<idsRepeat, day, phase, step, visited, todo, filed, mine, graph, graphFile, known,
                 manifest, documents, readings, faults>>

Ready ==
  /\ phase = "BOOTSTRAP" /\ step = "chunks"
  /\ \A d \in documents : \A i \in 1 .. Chunks[d] : Chunk(d, i) \in indexed
  /\ phase' = "asleep" /\ step' = "end"
  /\ UNCHANGED <<day, visited, todo, disk, graph, known, documents, readings, faults>>

-----------------------------------------------------------------------------
(* The phases that perceive and create. *)

\* Some of the things, in the order given: an agent that fails, a blank statement
\* or a research failure leaves its record out.
Some(things) ==
  IF phase \in Unreliable
  THEN {Among(things, kept) : kept \in SUBSET ToSet(things)}
  ELSE {things}

\* Variant for mutation runs: the list is gone through again until there are n.
FirstInTurn(things, n) ==
  IF things = <<>> THEN <<>> ELSE [i \in 1 .. n |-> things[((i - 1) % Len(things)) + 1]]

FirstOf(things, n) == SubSeq(things, 1, IF Len(things) < n THEN Len(things) ELSE n)

CaptureObservation ==
  /\ At("OBSERVATION", "start")
  /\ \E count \in Observations :
       Owe(Owed([i \in 1 .. count |-> Record("observation", i, {}, 0)], Indexing), "end")

\* The newest observations stand for the most salient ones.
RunResearch ==
  /\ At("HUNT", "start")
  /\ \E topics \in Some(FirstOf(NewestFirst("observation"), ResearchTopics)) :
       Owe(Owed([i \in DOMAIN topics |-> Record("finding", i, {Id(topics[i])}, 0)], Indexing), "end")

\* Lists of up to n members of S.
ListsOf(S, n) == UNION {[1 .. m -> S] : m \in 0 .. n}

\* Observation by observation; a blank question is skipped.
GenerateQuestions ==
  /\ At("FOCUS", "start")
  /\ \E asked \in ListsOf(Of("observation"), QuestionsEach * Cardinality(Of("observation"))) :
       /\ \A i, j \in DOMAIN asked : i < j => asked[i] = asked[j] \/ Newer(asked[i], asked[j])
       /\ \A o \in Of("observation") : Cardinality({i \in DOMAIN asked : asked[i] = o}) <= QuestionsEach
       /\ phase \in Unreliable \/ Len(asked) = QuestionsEach * Cardinality(Of("observation"))
       /\ Owe(Owed([i \in DOMAIN asked |-> Record("question", i, {Id(asked[i])}, 0)], Filing), "end")

\* Seeds take the cycle's questions in turn and all cite the same observation.
SourcesOf(i) ==
  LET questions == NewestFirst("question")
      observations == NewestFirst("observation")
  IN (IF questions = <<>> THEN {} ELSE {Id(questions[((i - 1) % Len(questions)) + 1])})
       \cup (IF observations = <<>> THEN {} ELSE {Id(observations[1])})

\* _explore takes 15 points off the comfort share and gives them to the unknown:
\* a share smaller than that no longer adds up, and the policy's constructor raises.
Tilts == phase = "EXPLORATION" => Comfort >= 15

GenerateSeeds ==
  /\ phase \in {"CREATION", "EXPLORATION"} /\ step = "start" /\ todo = <<>>
  /\ IF Tilts
     THEN \E heats \in SeedHeats :
            Owe(Owed([i \in DOMAIN heats |-> Record("seed", i, SourcesOf(i), heats[i])], Filing),
                "build")
     ELSE Owe(<<>>, "end")

\* Variant for mutation runs: every seed ever sown is listed.
SeedsEverSown(cycle) == {r \in filed : r.kind = "seed" /\ r.day <= cycle}

SeedsOf(cycle) == {r \in filed : r.kind = "seed" /\ r.day = cycle}

\* sorted() by heat keeps the newest first among equals.
Hotter(r, s) == r.heat > s.heat \/ (r.heat = s.heat /\ Newer(r, s))

HottestFirst(seeds) == InOrder(seeds, {p \in seeds \X seeds : Hotter(p[1], p[2])})

\* A draft without a title leaves its seed unused.
BuildConcepts ==
  /\ phase \in {"CREATION", "EXPLORATION"} /\ step = "build" /\ todo = <<>>
  /\ \E built \in Some(FirstOf(HottestFirst(SeedsOf(day)), ConceptTarget)) :
       Owe(Owed([i \in DOMAIN built |-> Record("concept", i, {Id(built[i])}, 0)], Drawing), "end")

Canon == <<"canon">>

Draw(nodes, edges) ==
  LET drawn == [nodes |-> graph.nodes \cup nodes, edges |-> graph.edges \cup edges] IN
  graph' = drawn /\ graphFile' = drawn

Ideas == {r \in filed : r.kind \in {"concept", "variant"}}

\* Developing the winner, for which the newest idea stands, may connect it to the
\* canon, which is nobody's node.
ConnectLore ==
  /\ At("REFLECTION", "start") /\ step' = "end"
  /\ \/ UNCHANGED <<graph, graphFile>>
     \/ \E idea \in Ideas : /\ \A r \in Ideas : ~Newer(r, idea)
                           /\ Draw({}, {<<Id(idea), Canon>>})
  /\ UNCHANGED <<idsRepeat, day, phase, visited, todo, filed, mine, indexed, known, manifest,
                 documents, readings, faults>>

\* A mutant, or a revenant, is filed and linked to the idea it was made of, which
\* may be of any day; it has neither a node nor a place in the vector memory.  The
\* oldest ideas stand for those that are ranked first, or drawn.
MakeVariants ==
  \E sources \in ListsOf(Ideas, Variants) :
    /\ Len(sources) + Cardinality({r \in filed : r.kind = "variant"}) <= Variants
    /\ \A i, j \in DOMAIN sources : sources[i] = sources[j] => i = j
    /\ \A i \in DOMAIN sources : \A r \in Ideas \ ToSet(sources) : ~Newer(sources[i], r)
    /\ Owe(Owed([i \in DOMAIN sources |-> Record("variant", i, {Id(sources[i])}, 0)], Linking), "end")

Mutate == At("SECOND_WIND", "start") /\ MakeVariants

\* The heat of a dream's seeds is read before the dream is given its strangeness.
Harvest ==
  /\ At("DREAMING", "start")
  /\ \E count \in Fragments :
       Owe(Owed([i \in 1 .. count |-> Record("seed", i, {}, 0)], Filing), "revive")

Resurrect == At("DREAMING", "revive") /\ MakeVariants

-----------------------------------------------------------------------------
(* The writes themselves, and what interrupts them. *)

\* The record's file, in the place of one with the same id.
Put(r) == filed' = {s \in filed : Id(s) # Id(r)} \cup {r} /\ mine' = mine \cup {Id(r)}

WriteNext ==
  /\ todo # <<>> /\ todo' = Tail(todo)
  /\ LET r == Head(todo).record
         op == Head(todo).op
     IN \/ op = "file" /\ Put(r) /\ UNCHANGED <<indexed, graph, graphFile>>
        \/ op = "index" /\ indexed' = indexed \cup {Id(r)} /\ UNCHANGED <<filed, mine, graph, graphFile>>
        \/ op = "node" /\ Draw({Id(r)}, {}) /\ UNCHANGED <<filed, mine, indexed>>
        \/ op = "edge" /\ Draw({}, {<<Id(r), source>> : source \in r.from})
           /\ UNCHANGED <<filed, mine, indexed>>
  /\ UNCHANGED <<idsRepeat, day, phase, step, visited, known, manifest, documents, readings, faults>>

Awake == phase \notin {"asleep", "down"}

\* A phase raises: the loop goes on with the next, or the exceeded budget of a
\* HUNT puts the brain to sleep.
Abandon ==
  /\ Awake /\ phase \notin {"BOOTSTRAP", "between"} /\ faults < MaxFaults
  /\ todo' = <<>> /\ step' = "end" /\ faults' = faults + 1
  /\ phase' \in {"between"} \cup (IF phase = "HUNT" THEN {"asleep"} ELSE {})
  /\ UNCHANGED <<day, visited, disk, graph, known, documents, readings>>

\* A kill, or an error that escapes bootstrap.
Kill ==
  /\ Awake /\ faults < MaxFaults
  /\ todo' = <<>> /\ step' = "end" /\ phase' = "down"
  /\ faults' = faults + 1
  /\ UNCHANGED <<day, visited, disk, graph, known, documents, readings>>

Stop ==
  /\ phase = "asleep" /\ phase' = "down"
  /\ UNCHANGED <<day, step, visited, todo, disk, graph, known, documents, readings, faults>>

Next ==
  \/ Restart \/ Ingest \/ SaveManifest \/ IndexChunk \/ Ready
  \/ BeginDay \/ (\E p \in Enterable : Enter(p)) \/ Leave \/ EndDay
  \/ CaptureObservation \/ RunResearch \/ GenerateQuestions
  \/ GenerateSeeds \/ BuildConcepts \/ ConnectLore \/ Mutate \/ Harvest \/ Resurrect
  \/ WriteNext \/ Abandon \/ Kill \/ Stop

Spec == Init /\ [][Next]_vars

=============================================================================
