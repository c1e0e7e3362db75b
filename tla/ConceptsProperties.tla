------------------------- MODULE ConceptsProperties -------------------------
(***************************************************************************)
(* What the concept runs ask.  IdsRepeat is FALSE when every process is    *)
(* given a seed of its own.                                                *)
(***************************************************************************)
EXTENDS Concepts

Graveyard == {i \in Born : Stage(i) = "GRAVEYARD"}
Finished == {i \in Born : Stage(i) = "PRODUCTION_READY"}

\* No phase ever tries a move the lifecycle forbids, which would raise half way
\* through it: the funnel, the judge and the mutation engine only hold ideas
\* that are where they think they are, carried forward or not.
MovesAreLegal == ~Forbidden

\* "A concept in the GRAVEYARD is written to both": only a write cut short by a
\* fault leaves a grave without its mirror, where no dream finds it, and a mirror
\* always agrees with the working copy.
GravesAreMirrored ==
  /\ Cardinality({i \in Graveyard : graves[i] = Unborn})
       <= faults + (IF due = Nobody THEN 0 ELSE 1)
  /\ \A i \in Buried : graves[i] = idea[i]

\* A rejected idea gets one second life: no two ideas are mutations of the same
\* parent, whatever is killed between burying the parent and saving the child.
OneHeirEach ==
  \A i, j \in Born :
    /\ idea[i].origin = "mutation" /\ idea[j].origin = "mutation"
    /\ idea[i].parent = idea[j].parent
    => i = j

\* Mutation looks at the depth of a lineage and resurrection does not; still no
\* mutation is deeper than the ceiling and no revenant more than one past it,
\* however the two take turns.
LineageBounded ==
  \A i \in Born :
    idea[i].depth <= MaxLineageDepth + (IF idea[i].origin = "resurrection" THEN 1 ELSE 0)

\* Every idea an earlier night left at CONCEPT has competed by the time the judge
\* sees the finalists: none is passed over.
EveryoneIsHeard == pc = "judging" => \A i \in Born : Stage(i) # "CONCEPT"

\* A winner named by a tournament has its project and is production-ready; a
\* project without a finished concept is the work of a fault, or in progress;
\* and no day has more than one.
WinnersAreProduced ==
  /\ crowned \subseteq Finished
  /\ Finished \subseteq projects
  /\ Cardinality(projects \ Finished) <= faults + (IF pc = "handing" THEN 1 ELSE 0)
  /\ Cardinality(projects) <= days

Life(i) ==
  IF idea[i] = Unborn THEN "unborn"
  ELSE IF Stage(i) \in {"APPROVED", "PROJECT", "PRODUCTION_READY"} THEN "won"
  ELSE IF Stage(i) \in MainLine THEN "competing"
  ELSE IF Stage(i) = "GRAVEYARD" THEN "buried" ELSE "resting"

\* The phases and their stores implement the abstract life of an idea.
Lives == INSTANCE IdeaLife WITH life <- [i \in Ids |-> Life(i)]

ImplementsIdeaLife == Lives!Spec

-----------------------------------------------------------------------------
(* What the repository says of itself and the code does not do. *)

\* "The grave copy is the permanent record and is never removed": no later idea
\* is buried in an earlier one's grave, restarts included.
NothingIsErased == [][\A i \in Buried : graves'[i] = graves[i]]_vars

=============================================================================
