------------------------------- MODULE Vault -------------------------------
(***************************************************************************)
(* The export of the creative mind into a vault of notes and a map         *)
(* (application/use_cases/exporting.py, adapters/vault).  The export is a  *)
(* process of its own: it reads the repositories one after the other while *)
(* the brain works, and writes file over file into a directory that it     *)
(* never cleans.  Of a title only its slug is kept: what the application   *)
(* names a note and a link after, and Cleaned, what the adapter makes of   *)
(* it on disk.  A listing of one repository is one step.                   *)
(***************************************************************************)
EXTENDS Lists

CONSTANTS
  Titles,        \* slugs of questions and of ideas
  Cleaned,       \* the file name of each
  Limits,        \* what --limit may be
  MaxSaves, MaxExports  \* bounds

ASSUME VaultAssumption ==
  /\ Limits \subseteq Nat
  /\ "CORE_DNA" \in Titles => Cleaned["CORE_DNA"] = "CORE_DNA"

ASSUME NamesClean == \A title \in Titles : Cleaned[Cleaned[title]] = Cleaned[title]

VARIABLES
  questions,  \* the stored questions, newest file first
  ideas,      \* the stored concepts, newest file first
  projects,   \* the stored projects, newest file first
  export,     \* the export in progress
  notes,      \* the vault's notes
  canvas,     \* Mapa Criativo.canvas
  saves, exports  \* how many so far

store == <<questions, ideas, projects, saves>>
vault == <<notes, canvas>>
exportVars == <<store, export, vault, exports>>

-----------------------------------------------------------------------------
(* The brain at work. *)

Save ==
  /\ saves < MaxSaves /\ saves' = saves + 1
  /\ UNCHANGED <<export, vault, exports>>

Ask ==
  /\ Save
  /\ \E title \in Titles : questions' = <<[id |-> Len(questions) + 1, title |-> title]>> \o questions
  /\ UNCHANGED <<ideas, projects>>

\* A concept answers a question asked before it, or none (0).
Conceive ==
  /\ Save
  /\ \E title \in Titles, question \in 0 .. Len(questions) :
       ideas' = <<[id |-> Len(ideas) + 1, title |-> title, question |-> question, buried |-> FALSE]>> \o ideas
  /\ UNCHANGED <<questions, projects>>

\* Any other save of a concept, its burial among them, makes its file the newest.
SaveIdea ==
  /\ Save
  /\ \E i \in 1 .. Len(ideas), buried \in BOOLEAN :
       /\ ideas[i].buried => buried
       /\ ideas' = <<[ideas[i] EXCEPT !.buried = buried]>> \o RemoveAt(ideas, i)
  /\ UNCHANGED <<questions, projects>>

Won(idea) == \E project \in ToSet(projects) : project.id = idea.id

\* A project takes its concept's title, and is told apart by the concept here.
Win ==
  /\ Save
  /\ \E idea \in ToSet(ideas) :
       /\ ~idea.buried /\ ~Won(idea)
       /\ projects' = <<[id |-> idea.id, title |-> idea.title]>> \o projects
  /\ UNCHANGED <<questions, ideas>>

-----------------------------------------------------------------------------
(* What an export makes of what it read. *)

Recent(records, limit) == SubSeq(records, 1, IF limit < Len(records) THEN limit ELSE Len(records))

NoteAt(folder, title, links) == [at |-> <<folder, Cleaned[title]>>, links |-> links]

DnaNote == [at |-> <<"DNA", "CORE_DNA">>, links |-> {}]
IndexNote == [at |-> <<"", "README">>, links |-> {"CORE_DNA"}]

QuestionNote(question) == NoteAt("Perguntas", question.title, {"CORE_DNA"})

\* question_slugs.get(concept.question_id)
Parents(idea, asked) == {question \in ToSet(asked) : question.id = idea.question}

Folder(idea) == IF idea.buried THEN "Cemitério" ELSE "Conceitos"

ConceptNote(idea, asked) ==
  NoteAt(Folder(idea), idea.title, {"CORE_DNA"} \cup {question.title : question \in Parents(idea, asked)})

ProjectNote(project) == NoteAt("Projetos", project.title, {"CORE_DNA"})

Each(records, Made(_)) == [i \in DOMAIN records |-> Made(records[i])]

\* Variant for mutation runs: the concepts' notes before the questions'.
NotesBackwards(read) ==
  <<DnaNote>> \o Each(read.ideas, LAMBDA idea : ConceptNote(idea, read.questions))
    \o Each(read.questions, QuestionNote) \o Each(read.projects, ProjectNote) \o <<IndexNote>>

NotesOf(read) ==
  <<DnaNote>> \o Each(read.questions, QuestionNote)
    \o Each(read.ideas, LAMBDA idea : ConceptNote(idea, read.questions))
    \o Each(read.projects, ProjectNote) \o <<IndexNote>>

Node(kind, record, folder) ==
  [id |-> <<kind, record.id>>, at |-> <<folder, record.title>>, label |-> record.title]

DnaNode == [id |-> <<"dna", 0>>, at |-> <<"DNA", "CORE_DNA">>, label |-> "CORE_DNA"]

Arrow(from, to) == [from |-> from, to |-> to]

\* Each question read with each idea read that answers it.
Answers(read) ==
  {pair \in ToSet(read.questions) \X ToSet(read.ideas) : pair[1] \in Parents(pair[2], read.questions)}

\* "file" is named after the slug, whatever the file is called on disk.
CanvasOf(read) ==
  [nodes |-> {DnaNode}
      \cup {Node("q", question, "Perguntas") : question \in ToSet(read.questions)}
      \cup {Node("c", idea, Folder(idea)) : idea \in ToSet(read.ideas)}
      \cup {Node("p", project, "Projetos") : project \in ToSet(read.projects)},
   edges |-> {Arrow(<<"dna", 0>>, <<"q", question.id>>) : question \in ToSet(read.questions)}
      \cup {Arrow(<<"q", pair[1].id>>, <<"c", pair[2].id>>) : pair \in Answers(read)}
      \cup {Arrow(<<"c", project.id>>, <<"p", project.id>>) : project \in ToSet(read.projects)}]

-----------------------------------------------------------------------------
(* The export. *)

NothingRead == [questions |-> <<>>, ideas |-> <<>>, projects |-> <<>>]
NoExport == [step |-> "none", limit |-> 0, graveyard |-> TRUE, read |-> NothingRead, todo |-> <<>>]
NoCanvas == [nodes |-> {}, edges |-> {}]

ExportInit ==
  /\ questions = <<>> /\ ideas = <<>> /\ projects = <<>>
  /\ export = NoExport /\ notes = {} /\ canvas = NoCanvas
  /\ saves = 0 /\ exports = 0

Begin ==
  /\ export.step = "none" /\ exports < MaxExports
  /\ \E limit \in Limits, graveyard \in BOOLEAN :
       export' = [NoExport EXCEPT !.step = "questions", !.limit = limit, !.graveyard = graveyard]
  /\ exports' = exports + 1
  /\ UNCHANGED <<store, vault>>

ReadQuestions ==
  /\ export.step = "questions"
  /\ export' = [export EXCEPT !.step = "ideas", !.read.questions = Recent(questions, export.limit)]
  /\ UNCHANGED <<store, vault, exports>>

\* The limit counts the buried ones that are then passed over.
ReadIdeas ==
  /\ export.step = "ideas"
  /\ LET recent == Recent(ideas, export.limit)
         shown == {idea \in ToSet(recent) : idea.buried => export.graveyard}
     IN  export' = [export EXCEPT !.step = "projects", !.read.ideas = Among(recent, shown)]
  /\ UNCHANGED <<store, vault, exports>>

ReadProjects ==
  /\ export.step = "projects"
  /\ LET read == [export.read EXCEPT !.projects = Recent(projects, export.limit)] IN
     export' = [export EXCEPT !.step = "notes", !.read = read, !.todo = NotesOf(read)]
  /\ UNCHANGED <<store, vault, exports>>

\* A note replaces the one in its place.
With(note) == {other \in notes : other.at # note.at} \cup {note}

WriteNote ==
  /\ export.step = "notes" /\ export.todo # <<>>
  /\ notes' = With(Head(export.todo))
  /\ export' = [export EXCEPT !.todo = Tail(@)]
  /\ UNCHANGED <<store, canvas, exports>>

\* Variant for mutation runs: the map does not wait for the notes.
WriteCanvasFirst ==
  /\ export.step = "notes" /\ canvas' = CanvasOf(export.read)
  /\ export' = NoExport
  /\ UNCHANGED <<store, notes, exports>>

WriteCanvas ==
  /\ export.step = "notes" /\ export.todo = <<>>
  /\ canvas' = CanvasOf(export.read)
  /\ export' = NoExport
  /\ UNCHANGED <<store, notes, exports>>

\* write_text is not atomic: the file being written may be left empty.
Torn(note) == With([note EXCEPT !.links = {}])

Kill ==
  /\ export.step # "none"
  /\ \/ UNCHANGED vault
     \/ export.todo # <<>> /\ notes' = Torn(Head(export.todo)) /\ UNCHANGED canvas
     \/ export.step = "notes" /\ export.todo = <<>> /\ canvas' = NoCanvas /\ UNCHANGED notes
  /\ export' = NoExport
  /\ UNCHANGED <<store, exports>>

ExportNext ==
  \/ Ask \/ Conceive \/ SaveIdea \/ Win
  \/ Begin \/ ReadQuestions \/ ReadIdeas \/ ReadProjects
  \/ WriteNote \/ WriteCanvas \/ Kill

ExportSpec == ExportInit /\ [][ExportNext]_exportVars

-----------------------------------------------------------------------------
(* Properties. *)

\* Titles the adapter has nothing to clean in: of a question only its first
\* sixty characters count, which seldom reach the question mark.
Plain == {title \in Titles : Cleaned[title] = title} \cup {"CORE_DNA"}

Linked(title) == \E note \in notes : note.at[2] = title

\* Every link with a plain name that any note of the vault ever shows leads to
\* a note, also while the export runs, when it was killed, and after later
\* exports read other questions (exporting.py:74, vault/__init__.py:174).
LinksLead == \A note \in notes : \A link \in note.links \cap Plain : Linked(link)

Drawn(id) == \E node \in canvas.nodes : node.id = id

IsWinners(edge) == edge.to[1] = "p"

\* The map on disk is never ahead of the vault: what a node with a plain name
\* opens exists, and no arrow but a winner's starts from an idea that is not on
\* the map, however the readings interleave with the brain (exporting.py:109-149).
MapHolds ==
  /\ \A node \in canvas.nodes : node.label \in Plain => \E note \in notes : note.at = node.at
  /\ \A edge \in canvas.edges : Drawn(edge.to) /\ (IsWinners(edge) \/ Drawn(edge.from))
=============================================================================
