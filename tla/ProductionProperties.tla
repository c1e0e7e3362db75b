------------------------ MODULE ProductionProperties ------------------------
(***************************************************************************)
(* What the production run asks, of processes each with a seed of its own: *)
(* where IdsRepeat a later process writes over the files of an earlier one *)
(* and no promise about a finished work holds.                             *)
(***************************************************************************)
EXTENDS Production

\* What a package says of its project, file by file.
Says(at, i, id, p) ==
  \A file \in ToSet(PackageFiles(i, p.artifacts, id, p)) : Holds(<<at[1], at[2], at[3], file[1]>>, file[2])

\* Everything a winner stands for, as the folder at[2] of the cycle at[3] shows it: the
\* project and its production-ready concept, the tournament that named it, its place in
\* the canon, every outbox that takes it and, in that folder, the whole package, no file
\* half written and each saying what the project says.
Delivered(at, i, id) ==
  /\ id \in Stored("projects") \cap Stored("canon")
  /\ LET p == disk[<<"projects", id>>] IN
       /\ p.concept = i /\ p.cycle = at[3]
       /\ Concept(i).stage = "PRODUCTION_READY"
       /\ Holds(<<"tournaments", at[3]>>, Tournament(i, TRUE))
       /\ Holds(<<"outputs", at[2], at[3], "tournament/tournament.json">>, Tournament(i, TRUE))
       /\ HandoffEnabled => \A e \in p.engines : <<"handoff", id, e>> \in DOMAIN disk
       /\ Says(at, i, id, p)

\* The files of a kind in the output folders.
Files(path) == {q \in DOMAIN disk : q[1] = "outputs" /\ q[4] = path}

\* A person who opens runtime.json and reads a winner finds everything it stands for,
\* in the same folder, whatever was killed, abandoned or dated between.
OutcomeTellsTheTruth ==
  \A at \in Files("runtime/runtime.json") :
    LET told == disk[at] IN
    told.winner # Nobody =>
      Delivered(at, told.winner, told.project) /\ disk[<<"projects", told.project>>].title = told.title

Times(text, s) == Cardinality({k \in DOMAIN s : s[k] = text})

\* An idea becomes a project once, developed once: a stored project is the only one
\* of its concept, carries every text a production engine needs and one timeline of
\* consequences at most, agrees with the stored concept, and no engine was handed a
\* project that is not stored or did not ask for it; a winner whose development was
\* interrupted is never developed again on top of what was saved.
ProjectsAreWhole ==
  /\ \A id \in Stored("projects") :
       LET p == disk[<<"projects", id>>] IN
       /\ \A other \in Stored("projects") : disk[<<"projects", other>>].concept = p.concept => other = id
       /\ {"premise", "world_bible", "characters", "pitch", "synopsis"} \subseteq DOMAIN p.artifacts
       /\ Times("consequences", p.artifacts["premise"]) <= 1
       /\ Concept(p.concept).artifacts = p.artifacts
       /\ Concept(p.concept).stage \in {"APPROVED", "PRODUCTION_READY"}
  /\ \A at \in {q \in DOMAIN disk : q[1] = "handoff"} :
       at[2] \in Stored("projects") /\ at[3] \in disk[<<"projects", at[2]>>].engines

-----------------------------------------------------------------------------
(* The files as the works that were published. *)

Told(id) ==
  \E at \in Files("runtime/runtime.json") : disk[at].winner # Nobody /\ disk[at].project = id

Finished(id) ==
  \E at \in Files("winner/execution_manifest.json") :
    Delivered(at, disk[<<"projects", id>>].concept, id)

\* A project is a work: begun once it is stored, whole once everything it stands for is
\* delivered, told once a runtime.json names it.
Book(id) ==
  [idea |-> disk[<<"projects", id>>].concept, day |-> disk[<<"projects", id>>].cycle,
   stage |-> IF Told(id) THEN "told" ELSE IF Finished(id) THEN "whole" ELSE "begun"]

Works == [id \in 1 .. Cardinality(Stored("projects")) |-> Book(id)]

Library == INSTANCE Publishing WITH books <- Works

\* The files a brain leaves behind, killed wherever it may be, are those of a publisher:
\* one work for an idea and one a day, told of only when it is whole, and neither a
\* later day nor a later process undoes what was finished or finishes what was left.
ImplementsPublishing == Library!Spec

=============================================================================
