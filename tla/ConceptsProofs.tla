--------------------------- MODULE ConceptsProofs ---------------------------
(***************************************************************************)
(* The lifecycle is never broken, no grave or winner is lost but to a      *)
(* fault, and the phases implement the abstract life of an idea, for every *)
(* funnel, bound, rating and fault, provided that no process draws the ids *)
(* of an earlier one again.                                                *)
(***************************************************************************)
EXTENDS ConceptsProperties, FiniteSetTheorems, TLAPS

-----------------------------------------------------------------------------
(* The inductive invariant. *)

\* Where the funnel may meet an idea.
Competing == {"CONCEPT", "PREMISE", "PITCH", "CANDIDATE", "FINALIST"}

TypeInv == TypeOK /\ day <= days

\* Ids are drawn in order, and no idea is of a day to come.
BirthInv ==
  \A i \in Ids : (idea[i] # Unborn <=> i < next) /\ (idea[i] # Unborn => idea[i].cycle <= day)

\* A mirror agrees with its idea, which is buried.
GraveInv ==
  /\ \A i \in Ids : graves[i] # Unborn => graves[i] = idea[i] /\ Stage(i) = "GRAVEYARD"
  /\ due # Nobody => Stage(due) = "GRAVEYARD"

\* Past the ceiling there are only revenants that nobody may mutate.
Shallow(record) ==
  \/ record.depth <= MaxLineageDepth
  \/ /\ record.depth = MaxLineageDepth + 1
     /\ record.origin = "resurrection" /\ record.stage = "MUTATION_POOL"

DepthInv == \A i \in Ids : idea[i] # Unborn => Shallow(idea[i])

\* Until REFLECTION everything born today is a CONCEPT.
HourInv ==
  /\ pc = "building" => hour \in {1, 4}
  /\ pc \notin {"asleep", "awake", "building"} => hour >= 2
  /\ pc # "asleep" /\ hour < 2 =>
       \A i \in Ids : idea[i] # Unborn /\ idea[i].cycle = day => Stage(i) = "CONCEPT"

\* What each phase holds is where the phase thinks it is.
HandInv ==
  /\ pc \notin {"funnel", "judging", "approving", "handing", "crowning"} => round = 0 /\ rising = {}
  /\ pc = "building" => \A i \in field : Stage(i) = "CONCEPT"
  /\ pc \in {"evaluating", "funnel"} => \A i \in work \cup field : Stage(i) \in Competing
  /\ pc = "funnel" =>
       /\ work \cap field = {} /\ rising \subseteq field /\ (rising # {} => round > 0)
       /\ round > 0 => \A i \in field \ rising : Index(Stage(i)) >= Index(Funnel[round].stage)
  /\ pc = "judging" => \A i \in work : Stage(i) = "FINALIST"
  /\ pc \in {"approving", "handing", "crowning"} => champion # Nobody
  /\ pc \in {"approving", "handing"} => Stage(champion) = "APPROVED"
  /\ pc = "mutating" =>
       /\ \A i \in work : Stage(i) = "MUTATION_POOL" /\ idea[i].depth < MaxLineageDepth
       /\ \A i \in field : Stage(i) = "CONCEPT"
       /\ parent # Nobody => Stage(parent) = "GRAVEYARD" /\ idea[parent].depth < MaxLineageDepth
  /\ pc = "dreaming" => \A i \in work : graves[i] # Unborn

IInv == TypeInv /\ BirthInv /\ GraveInv /\ DepthInv /\ HourInv /\ HandInv

-----------------------------------------------------------------------------
(* What a step does to the stores. *)

\* The moves of a stored idea that do not bury or crown it, and those that do.
Way(record, stage) ==
  \/ record.stage \in Competing /\ stage \in Competing \cup {"MUTATION_POOL", "GRAVEYARD"}
  \/ record.stage = "FINALIST" /\ stage = "APPROVED"
  \/ record.stage = "APPROVED" /\ stage = "PRODUCTION_READY"
  \/ record.stage = "MUTATION_POOL" /\ stage = "GRAVEYARD" /\ record.depth < MaxLineageDepth

Rewritten(i, record) ==
  /\ idea[i] # Unborn /\ record \in Idea /\ Way(idea[i], record.stage)
  /\ record.cycle = idea[i].cycle /\ record.depth = idea[i].depth
  /\ record.origin = idea[i].origin /\ record.parent = idea[i].parent
  /\ idea' = [idea EXCEPT ![i] = record] /\ UNCHANGED <<graves, next, day>>
  /\ due' = due \/ (due' = i /\ record.stage = "GRAVEYARD")

Borne(record) ==
  /\ next <= MaxIdeas /\ record \in Idea /\ Shallow(record) /\ record.cycle = day
  /\ record.stage \in {"CONCEPT", "MUTATION_POOL"}
  /\ idea' = [idea EXCEPT ![next] = record] /\ next' = next + 1
  /\ UNCHANGED <<graves, due, day>>

Mirrored ==
  /\ due # Nobody /\ graves' = [graves EXCEPT ![due] = idea[due]]
  /\ due' = Nobody /\ UNCHANGED <<idea, next, day>>

Untouched ==
  UNCHANGED <<idea, graves, next>> /\ due' \in {due, Nobody} /\ day' \in {day, day + 1}

Stored ==
  \/ Untouched \/ Mirrored
  \/ \E i \in Ids, record \in Idea : Rewritten(i, record)
  \/ \E record \in Idea : Borne(record)

-----------------------------------------------------------------------------
(* Every step does one of these. *)

LEMMA IdeasAreRecords ==
  ASSUME TypeInv, NEW i \in Ids
  PROVE  /\ idea[i] # Unborn <=> idea[i] \in Idea
         /\ idea[i] # Unborn <=> Stage(i) # "UNBORN"
         /\ Stage(i) \in Stages \cup {"UNBORN"}
         /\ idea[i] \in Idea \cup {Unborn}
<1>1. Unborn \notin Idea
  BY DEF Unborn, Idea, Stages, MainLine, REVIVABLE_STAGES
<1>2. \A r \in Idea : r.stage \in Stages /\ r.stage # "UNBORN"
  BY DEF Idea, Stages, MainLine, REVIVABLE_STAGES
<1>3. idea[i] \in Idea \cup {Unborn}
  BY DEF TypeInv, TypeOK
<1> QED BY <1>1, <1>2, <1>3 DEF Stage, Unborn

\* A new stage for an idea on its way.
LEMMA StageIsWritten ==
  ASSUME TypeInv, NEW i \in Ids, NEW stage \in Stages, idea[i] # Unborn,
         idea' = [idea EXCEPT ![i].stage = stage], UNCHANGED <<graves, next, day>>,
         Way(idea[i], stage), due' = due \/ (due' = i /\ stage = "GRAVEYARD")
  PROVE  \E record \in Idea : Rewritten(i, record) /\ record.stage = stage
                             /\ record.potential = idea[i].potential
<1> DEFINE record == [idea[i] EXCEPT !.stage = stage]
<1>1. idea[i] \in Idea
  BY IdeasAreRecords
<1>2. /\ record \in Idea /\ record.stage = stage /\ record.cycle = idea[i].cycle
      /\ record.depth = idea[i].depth /\ record.origin = idea[i].origin
      /\ record.parent = idea[i].parent /\ record.potential = idea[i].potential
  BY <1>1 DEF Idea
<1>3. idea' = [idea EXCEPT ![i] = record]
  OBVIOUS
<1> HIDE DEF record
<1> QED BY <1>2, <1>3 DEF Rewritten

\* An idea that loses falls into the pool or into its grave.
LEMMA FallsAreWays ==
  ASSUME TypeInv, NEW i \in Ids, Stage(i) \in Competing, Fall(i), UNCHANGED <<next, day>>
  PROVE  \E record \in Idea : Rewritten(i, record) /\ record.stage \in {"MUTATION_POOL", "GRAVEYARD"}
<1>1. idea[i] # Unborn
  BY DEF Stage, Unborn, Competing
<1>2. CASE idea' = [idea EXCEPT ![i].stage = "GRAVEYARD"] /\ due' = i /\ UNCHANGED graves
  BY <1>1, <1>2, StageIsWritten DEF Way, Stage, Stages, REVIVABLE_STAGES
<1>3. CASE idea' = [idea EXCEPT ![i].stage = "MUTATION_POOL"] /\ UNCHANGED <<graves, due>>
  BY <1>1, <1>3, StageIsWritten DEF Way, Stage, Stages, REVIVABLE_STAGES
<1> QED BY <1>2, <1>3 DEF Fall, Save, Bury

\* Where the stages of the funnel are on the main line.
LEMMA IndexIsAPlace ==
  ASSUME NEW stage \in MainLine
  PROVE  Index(stage) \in 1 .. 10 /\ ADVANCING_ORDER[Index(stage)] = stage
<1>1. \E n \in 1 .. 10 : ADVANCING_ORDER[n] = stage
  BY DEF ADVANCING_ORDER, MainLine
<1> QED BY <1>1 DEF Index

LEMMA FinalistsAreLast ==
  /\ Index("FINALIST") = 7
  /\ \A stage \in Competing : Index(stage) \in 1 .. 10 /\ (Index(stage) >= 7 => stage = "FINALIST")
<1>1. Competing \subseteq MainLine
  BY DEF Competing, MainLine
<1>2. \A stage \in Competing : Index(stage) \in 1 .. 10 /\ ADVANCING_ORDER[Index(stage)] = stage
  BY <1>1, IndexIsAPlace
<1>3. \A n \in 1 .. 10 : ADVANCING_ORDER[n] \in Competing /\ n >= 7 => n = 7
  BY DEF ADVANCING_ORDER, Competing
<1>4. \A n \in 1 .. 10 : ADVANCING_ORDER[n] = "FINALIST" <=> n = 7
  BY DEF ADVANCING_ORDER
<1>5. "FINALIST" \in Competing
  BY DEF Competing
<1> QED BY <1>2, <1>3, <1>4, <1>5

\* The rounds stop at stages where the funnel may meet an idea, the last at FINALIST.
LEMMA RoundsCompete ==
  /\ \A n \in 1 .. Len(Funnel) : Funnel[n].stage \in Competing
  /\ Len(Funnel) \in Nat \ {0} /\ Funnel[Len(Funnel)].stage = "FINALIST"
BY FunnelAssumption DEF Competing

LEMMA StepsStore ==
  ASSUME IInv, ~IdsRepeat, [Next]_vars PROVE Stored
<1> USE DEF IInv
<1>1. CASE UNCHANGED vars
  BY <1>1 DEF vars, memory, calendar, disk, Stored, Untouched
<1>2. CASE BeginCycle \/ EndCycle \/ Shutdown \/ PhaseRaises \/ Kill
  BY <1>2
  DEF BeginCycle, EndCycle, Shutdown, PhaseRaises, Kill, Restart, PutDown, memory, calendar, disk,
      Stored, Untouched
<1>3. CASE \/ StartBuilding \/ StartReflection \/ StartSecondWind \/ StartDreaming
           \/ StopBuilding \/ EndEvaluation \/ EndMutation \/ EndDream
  BY <1>3
  DEF StartBuilding, StartReflection, StartSecondWind, StartDreaming, TakeUp, StopBuilding,
      EndEvaluation, EndMutation, EndDream, ToEvaluation, PutDown, memory, calendar, disk, Stored,
      Untouched
<1>4. CASE Round \/ CloseFunnel \/ NoWinner \/ SaveProject \/ Crown \/ SkipMutation
  BY <1>4
  DEF Round, CloseFunnel, NoWinner, SaveProject, Crown, SkipMutation, PutDown, memory, calendar,
      disk, Stored, Untouched
<1>5. CASE Mirror
  BY <1>5 DEF Mirror, calendar, Stored, Mirrored
<1>6. CASE Build
  <2> DEFINE record == Germinated(0, Nobody, "seed")
  <2>1. record \in Idea /\ Shallow(record) /\ record.cycle = day /\ record.stage = "CONCEPT"
    BY ConceptsAssumption
    DEF TypeInv, TypeOK, Germinated, Idea, Shallow, Stages, MainLine, Potentials, Origins
  <2>2. Borne(record)
    BY <1>6, <2>1 DEF Build, Bear, Save, Borne, calendar
  <2> QED BY <2>1, <2>2 DEF Stored
<1>7. CASE SaveChild
  <2> DEFINE record == Germinated(idea[parent].depth + 1, parent, "mutation")
  <2>1. /\ parent \in Ids /\ idea[parent] # Unborn /\ idea[parent].depth < MaxLineageDepth
    BY <1>7 DEF SaveChild, HandInv, TypeInv, TypeOK, Stage, Unborn
  <2>2. idea[parent].depth \in Nat
    BY <2>1, IdeasAreRecords DEF Idea
  <2>3. record \in Idea /\ Shallow(record) /\ record.cycle = day /\ record.stage = "CONCEPT"
    <3>1. day \in Nat /\ MaxLineageDepth \in Nat
      BY ConceptsAssumption DEF TypeInv, TypeOK
    <3>2. idea[parent].depth + 1 \in Nat /\ idea[parent].depth + 1 <= MaxLineageDepth
      BY <2>1, <2>2, <3>1
    <3> HIDE DEF IInv
    <3> QED
      BY <2>1, <3>1, <3>2 DEF Germinated, Idea, Shallow, Stages, MainLine, Potentials, Origins
  <2>4. Borne(record)
    BY <1>7, <2>3 DEF SaveChild, Bear, Save, Borne, calendar
  <2> QED BY <2>3, <2>4 DEF Stored
<1>8. CASE Resurrect
  <2>1. PICK i \in work :
          Bear([stage |-> "MUTATION_POOL", cycle |-> day, depth |-> graves[i].depth + 1,
                potential |-> graves[i].potential, parent |-> i, origin |-> "resurrection"])
    BY <1>8 DEF Resurrect
  <2> DEFINE record ==
        [stage |-> "MUTATION_POOL", cycle |-> day, depth |-> graves[i].depth + 1,
         potential |-> graves[i].potential, parent |-> i, origin |-> "resurrection"]
  <2>2. i \in Ids /\ graves[i] # Unborn /\ graves[i] = idea[i] /\ Stage(i) = "GRAVEYARD"
    BY <1>8 DEF Resurrect, HandInv, GraveInv, TypeInv, TypeOK
  <2>3. idea[i] \in Idea /\ idea[i].depth <= MaxLineageDepth
    BY <2>2, IdeasAreRecords DEF DepthInv, Shallow, Stage
  <2>4. record \in Idea /\ Shallow(record) /\ record.cycle = day /\ record.stage = "MUTATION_POOL"
    <3>1. day \in Nat /\ MaxLineageDepth \in Nat
      BY ConceptsAssumption DEF TypeInv, TypeOK
    <3>2. graves[i].depth + 1 \in Nat /\ graves[i].depth + 1 <= MaxLineageDepth + 1
          /\ graves[i].potential \in Potentials
      BY <2>2, <2>3, <3>1 DEF Idea
    <3>3. graves[i].depth + 1 <= MaxLineageDepth \/ graves[i].depth + 1 = MaxLineageDepth + 1
      BY <3>1, <3>2
    <3> HIDE DEF IInv
    <3> QED
      BY <2>2, <3>1, <3>2, <3>3 DEF Idea, Shallow, Stages, REVIVABLE_STAGES, Origins
  <2>5. Borne(record)
    BY <1>8, <2>1, <2>4 DEF Resurrect, Bear, Save, Borne, calendar
  <2> QED BY <2>4, <2>5 DEF Stored
<1>9. CASE Evaluate
  <2>1. PICK i \in work, p \in Ratings : Save(i, [idea[i] EXCEPT !.potential = p])
    BY <1>9 DEF Evaluate
  <2> DEFINE record == [idea[i] EXCEPT !.potential = p]
  <2>2. i \in Ids /\ Stage(i) \in Competing /\ p \in Potentials
    BY <1>9, ConceptsAssumption DEF Evaluate, HandInv, TypeInv, TypeOK
  <2>3. idea[i] \in Idea /\ idea[i] # Unborn
    BY <2>2, IdeasAreRecords DEF Stage, Unborn, Competing
  <2>4. record \in Idea /\ record.stage = idea[i].stage /\ record.cycle = idea[i].cycle
        /\ record.depth = idea[i].depth /\ record.origin = idea[i].origin
        /\ record.parent = idea[i].parent
    BY <2>2, <2>3 DEF Idea
  <2>5. Rewritten(i, record)
    BY <1>9, <2>1, <2>2, <2>3, <2>4 DEF Evaluate, Save, Rewritten, Way, Stage, calendar
  <2> QED BY <2>2, <2>4, <2>5 DEF Stored
<1>10. CASE Eliminate \/ RejectFinalist
  <2>1. PICK i \in work : Fall(i)
    BY <1>10 DEF Eliminate, RejectFinalist
  <2>2. i \in Ids /\ Stage(i) \in Competing /\ UNCHANGED <<next, day>>
    BY <1>10 DEF Eliminate, RejectFinalist, HandInv, TypeInv, TypeOK, Competing, calendar
  <2> QED BY <2>1, <2>2, FallsAreWays DEF Stored
<1>11. CASE Promote
  <2>1. PICK i \in rising :
          Save(i, [idea[i] EXCEPT !.stage =
                     IF Index(Stage(i)) < Index(Funnel[round].stage)
                     THEN Funnel[round].stage ELSE Stage(i)])
    BY <1>11 DEF Promote
  <2>2. i \in Ids /\ Stage(i) \in Competing /\ round \in 1 .. Len(Funnel)
    BY <1>11, RoundsCompete DEF Promote, HandInv, TypeInv, TypeOK
  <2>3. PICK stage \in Competing : idea' = [idea EXCEPT ![i].stage = stage]
    BY <2>1, <2>2, RoundsCompete DEF Save
  <2>4. idea[i] # Unborn /\ UNCHANGED <<graves, due, next, day>>
    BY <1>11, <2>1, <2>2 DEF Promote, Save, Stage, Unborn, Competing, calendar
  <2>5. stage \in Stages
    BY DEF Competing, Stages, MainLine
  <2> QED BY <2>2, <2>3, <2>4, <2>5, StageIsWritten DEF Way, Stage, Stored
<1>12. CASE Approve
  <2>1. PICK i \in work : Save(i, [idea[i] EXCEPT !.stage = "APPROVED"])
    BY <1>12 DEF Approve
  <2>2. i \in Ids /\ Stage(i) = "FINALIST"
    BY <1>12 DEF Approve, HandInv, TypeInv, TypeOK
  <2>3. idea[i] # Unborn /\ UNCHANGED <<graves, due, next, day>>
    BY <1>12, <2>1, <2>2 DEF Approve, Save, Stage, Unborn, calendar
  <2>4. "APPROVED" \in Stages
    BY DEF Stages, MainLine
  <2> QED BY <2>1, <2>2, <2>3, <2>4, StageIsWritten DEF Way, Stage, Save, Stored
<1>13. CASE SaveWinner
  <2>1. champion \in Ids /\ Stage(champion) = "APPROVED"
    BY <1>13 DEF SaveWinner, HandInv, TypeInv, TypeOK
  <2>2. /\ idea[champion] # Unborn /\ UNCHANGED <<graves, due, next, day>>
        /\ idea' = [idea EXCEPT ![champion].stage = "PRODUCTION_READY"]
    BY <1>13, <2>1 DEF SaveWinner, Save, Stage, Unborn, calendar
  <2>3. "PRODUCTION_READY" \in Stages
    BY DEF Stages, MainLine
  <2> QED BY <2>1, <2>2, <2>3, StageIsWritten DEF Way, Stage, Stored
<1>14. CASE EntombParent
  <2>1. PICK i \in work : Bury(i)
    BY <1>14 DEF EntombParent
  <2>2. i \in Ids /\ Stage(i) = "MUTATION_POOL" /\ idea[i].depth < MaxLineageDepth
    BY <1>14 DEF EntombParent, HandInv, TypeInv, TypeOK
  <2>3. idea[i] # Unborn /\ UNCHANGED <<graves, next, day>>
    BY <1>14, <2>1, <2>2 DEF EntombParent, Bury, Stage, Unborn, calendar
  <2>4. "GRAVEYARD" \in Stages
    BY DEF Stages, REVIVABLE_STAGES
  <2> QED BY <2>1, <2>2, <2>3, <2>4, StageIsWritten DEF Way, Stage, Bury, Stored
<1> QED
  BY <1>1, <1>2, <1>3, <1>4, <1>5, <1>6, <1>7, <1>8, <1>9, <1>10, <1>11, <1>12, <1>13, <1>14 DEF Next

-----------------------------------------------------------------------------
(* What the stores keep. *)

StoreTypes ==
  /\ idea \in [Ids -> Idea \cup {Unborn}] /\ graves \in [Ids -> Idea \cup {Unborn}]
  /\ next \in 1 .. MaxIdeas + 1 /\ due \in Ids \cup {Nobody}

\* Everything but the idea written is as it was.
LEMMA RewritesOneIdea ==
  ASSUME IInv, NEW i \in Ids, NEW record \in Idea, Rewritten(i, record)
  PROVE  /\ idea'[i] = record /\ \A j \in Ids \ {i} : idea'[j] = idea[j]
         /\ record # Unborn /\ record.stage \in Stages
         /\ \A j \in Ids : idea'[j] # Unborn <=> idea[j] # Unborn
<1>1. Unborn \notin Idea /\ record.stage \in Stages
  BY DEF Unborn, Idea, Stages, MainLine, REVIVABLE_STAGES
<1> QED BY <1>1 DEF Rewritten, IInv, TypeInv, TypeOK

LEMMA BearsOneIdea ==
  ASSUME IInv, NEW record \in Idea, Borne(record)
  PROVE  /\ next \in Ids /\ idea[next] = Unborn /\ idea'[next] = record /\ record # Unborn
         /\ \A j \in Ids \ {next} : idea'[j] = idea[j]
         /\ \A j \in Ids : idea[j] # Unborn => j # next
         /\ \A j \in Ids : idea'[j] # Unborn <=> j < next + 1
<1>1. Unborn \notin Idea
  BY DEF Unborn, Idea, Stages, MainLine, REVIVABLE_STAGES
<1>2. next \in Ids /\ Ids \subseteq Nat /\ idea \in [Ids -> Idea \cup {Unborn}]
  BY SMTT(30), ConceptsAssumption DEF Borne, IInv, TypeInv, TypeOK, Ids
<1>3. idea'[next] = record /\ \A j \in Ids \ {next} : idea'[j] = idea[j]
  BY <1>2 DEF Borne
<1>4. \A j \in Ids : idea[j] # Unborn <=> j < next
  BY DEF IInv, BirthInv
<1>5. \A j \in Ids : j < next + 1 <=> j < next \/ j = next
  BY <1>2
<1> QED BY <1>1, <1>2, <1>3, <1>4, <1>5

LEMMA StoresAreKept ==
  ASSUME IInv, Stored PROVE StoreTypes' /\ BirthInv' /\ GraveInv' /\ DepthInv'
<1>0. StoreTypes /\ day \in Nat /\ Nobody \notin Ids /\ MaxIdeas \in Nat
  <2>1. StoreTypes
    BY DEF IInv, TypeInv, TypeOK, StoreTypes
  <2>2. day \in Nat
    BY ConceptsAssumption DEF IInv, TypeInv, TypeOK
  <2>3. Nobody \notin Ids /\ MaxIdeas \in Nat
    BY ConceptsAssumption DEF Nobody, Ids
  <2> QED BY <2>1, <2>2, <2>3
<1>1. CASE Untouched
  <2>1. \A i \in Ids : idea[i] # Unborn => idea[i].cycle \in Nat
    BY IdeasAreRecords DEF IInv, Idea
  <2> QED BY <1>0, <1>1, <2>1 DEF IInv, Untouched, StoreTypes, BirthInv, GraveInv, DepthInv, Stage
<1>2. CASE Mirrored
  <2>1. due \in Ids /\ graves' = [graves EXCEPT ![due] = idea[due]] /\ due' = Nobody
        /\ UNCHANGED <<idea, next, day>>
    BY <1>0, <1>2 DEF Mirrored, StoreTypes
  <2>2. Stage(due) = "GRAVEYARD"
    BY <1>2 DEF Mirrored, IInv, GraveInv
  <2> QED BY <1>0, <2>1, <2>2 DEF IInv, StoreTypes, BirthInv, GraveInv, DepthInv, Stage
<1>3. ASSUME NEW i \in Ids, NEW record \in Idea, Rewritten(i, record)
      PROVE  StoreTypes' /\ BirthInv' /\ GraveInv' /\ DepthInv'
  <2>1. /\ idea'[i] = record /\ \A j \in Ids \ {i} : idea'[j] = idea[j]
        /\ \A j \in Ids : idea'[j] # Unborn <=> idea[j] # Unborn
        /\ record # Unborn /\ idea[i] # Unborn
    BY <1>3, RewritesOneIdea DEF Rewritten
  <2>2. StoreTypes'
    BY <1>0, <1>3 DEF Rewritten, StoreTypes
  <2>3. BirthInv'
    BY <1>3, <2>1 DEF Rewritten, IInv, BirthInv
  <2>4. graves[i] = Unborn /\ (due = i => FALSE)
    BY <1>0, <1>3 DEF Rewritten, Way, Competing, IInv, GraveInv, Stage
  <2>5. GraveInv'
    BY <1>0, <1>3, <2>1, <2>4 DEF Rewritten, IInv, GraveInv, Stage, StoreTypes
  <2>6. Shallow(record)
    <3>1. Shallow(idea[i]) /\ Way(idea[i], record.stage) /\ record.depth = idea[i].depth
      BY <1>3, <2>1 DEF Rewritten, IInv, DepthInv
    <3>2. idea[i].depth \in Nat /\ MaxLineageDepth \in Nat
      BY <2>1, IdeasAreRecords, ConceptsAssumption DEF IInv, Idea
    <3> QED BY <3>1, <3>2 DEF Shallow, Way, Competing
  <2>7. DepthInv'
    BY <2>1, <2>6 DEF IInv, DepthInv, Shallow
  <2> QED BY <2>2, <2>3, <2>5, <2>7
<1>4. ASSUME NEW record \in Idea, Borne(record)
      PROVE  StoreTypes' /\ BirthInv' /\ GraveInv' /\ DepthInv'
  <2>1. /\ next \in Ids /\ idea[next] = Unborn /\ idea'[next] = record
        /\ \A j \in Ids \ {next} : idea'[j] = idea[j]
        /\ \A j \in Ids : idea'[j] # Unborn <=> j < next + 1
    BY <1>4, BearsOneIdea
  <2>2. StoreTypes'
    <3>1. next' \in 1 .. MaxIdeas + 1
      BY <1>0, <1>4 DEF Borne, StoreTypes
    <3>2. idea' \in [Ids -> Idea \cup {Unborn}]
      BY <1>0, <1>4, <2>1 DEF Borne, StoreTypes
    <3> QED BY <1>0, <1>4, <3>1, <3>2 DEF Borne, StoreTypes
  <2>3. BirthInv'
    BY <1>0, <1>4, <2>1 DEF Borne, IInv, BirthInv
  <2>4. graves[next] = Unborn /\ due # next
    BY <1>0, <2>1 DEF IInv, GraveInv, Stage, Unborn, StoreTypes
  <2>5. GraveInv'
    BY <1>0, <1>4, <2>1, <2>4 DEF Borne, IInv, GraveInv, Stage, StoreTypes
  <2>6. DepthInv'
    BY <1>4, <2>1 DEF Borne, IInv, DepthInv, Shallow
  <2> QED BY <2>2, <2>3, <2>5, <2>6
<1> QED BY <1>1, <1>2, <1>3, <1>4 DEF Stored

-----------------------------------------------------------------------------
(* What the phases keep. *)

LEMMA MemoryIsTyped ==
  ASSUME IInv, ~IdsRepeat, [Next]_vars, StoreTypes' PROVE TypeInv'
<1> USE DEF IInv, TypeInv, TypeOK, StoreTypes, Places
<1>0. /\ Nobody \notin Ids /\ Len(WorkingDay) = 5
      /\ {MaxDays, MaxFaults, MaxIdeas, Len(Funnel)} \subseteq Nat
  BY ConceptsAssumption, RoundsCompete DEF Nobody, Ids, WorkingDay
<1>1. CASE UNCHANGED vars
  BY <1>0, <1>1 DEF vars, memory, calendar, disk
<1>2. CASE BeginCycle \/ EndCycle \/ Shutdown
  <2>1. CASE BeginCycle
    <3>1. day' = day + 1 /\ days' = days + 1 /\ days < MaxDays /\ pc = "asleep" /\ pc' = "awake"
      BY <2>1 DEF BeginCycle
    <3>2. day' \in 0 .. MaxDays /\ days' \in 0 .. MaxDays /\ day' <= days'
      BY <1>0, <3>1
    <3> QED BY <2>1, <3>1, <3>2 DEF BeginCycle, disk
  <2>2. CASE EndCycle
    <3>1. /\ pc = "awake" /\ pc' = "asleep" /\ hour' = 0
          /\ UNCHANGED <<work, field, round, rising, parent, champion, due>>
          /\ UNCHANGED <<day, days, projects, crowned, faults>>
      BY <2>2 DEF EndCycle, disk
    <3>2. work \cup field \cup rising = {} /\ round = 0 /\ {parent, champion, due} = {Nobody}
      BY <3>1
    <3>3. /\ work' \cup field' \cup rising' = {} /\ round' = 0
          /\ {parent', champion', due'} = {Nobody}
      BY <3>1, <3>2
    <3>4. hour' \in 0 .. Len(WorkingDay)
      BY <1>0, <3>1
    <3> QED BY <3>1, <3>3, <3>4
  <2>3. CASE Shutdown
    BY <1>0, <2>3 DEF Shutdown, Restart, memory, disk
  <2> QED BY <1>2, <2>1, <2>2, <2>3
<1>3. CASE PhaseRaises
  <2>1. faults' \in 0 .. MaxFaults
    BY <1>0, <1>3 DEF PhaseRaises
  <2> QED BY <1>0, <1>3, <2>1 DEF PhaseRaises, PutDown, calendar, disk
<1>4. CASE Kill
  BY <1>0, <1>4 DEF Kill, Restart, PutDown, disk
<1>5. CASE StartBuilding \/ StartReflection \/ StartSecondWind \/ StartDreaming
  <2>1. PICK h \in 1 .. 5, place \in Places \ {"asleep", "awake"}, ideas \in SUBSET Ids,
             competitors \in SUBSET Ids : TakeUp(h, place, ideas, competitors)
    <3>1. CASE StartBuilding
      BY <3>1 DEF StartBuilding
    <3>2. CASE StartReflection
      BY <3>2 DEF StartReflection, Competitors, Born
    <3>3. CASE StartSecondWind
      BY <3>3 DEF StartSecondWind, Picks, Mutables, Born
    <3>4. CASE StartDreaming
      BY <3>4 DEF StartDreaming, Dreamable, Buried
    <3> QED BY <1>5, <3>1, <3>2, <3>3, <3>4
  <2> QED BY <1>0, <2>1 DEF TakeUp, disk
<1>6. CASE \/ StopBuilding \/ EndEvaluation \/ EndMutation \/ EndDream \/ NoWinner
           \/ CloseFunnel \/ SkipMutation \/ Mirror
  <2>1. CASE StopBuilding \/ EndEvaluation \/ EndMutation \/ EndDream \/ NoWinner
    <3>1. UNCHANGED <<calendar, next, disk, faults>>
      BY <2>1 DEF StopBuilding, EndEvaluation, EndMutation, EndDream, NoWinner
    <3>2. \/ PutDown("awake")
          \/ /\ pc' \in {"evaluating", "funnel"} /\ work' \in {work, field}
             /\ UNCHANGED <<field, round, rising, parent, champion, due>>
      BY <2>1 DEF StopBuilding, EndEvaluation, EndMutation, EndDream, NoWinner, ToEvaluation
    <3> QED BY <1>0, <3>1, <3>2 DEF PutDown, calendar, disk
  <2>2. CASE CloseFunnel \/ SkipMutation
    BY SMTT(30), <1>0, <2>2 DEF CloseFunnel, SkipMutation, calendar, disk
  <2>3. CASE Mirror
    BY <1>0, <2>3 DEF Mirror, calendar
  <2> QED BY <1>6, <2>1, <2>2, <2>3
<1>7. CASE SaveProject \/ Crown
  <2>1. champion \in Ids
    BY <1>7 DEF SaveProject, Crown, HandInv
  <2> QED BY SMTT(30), <1>0, <1>7, <2>1 DEF SaveProject, Crown, PutDown, calendar, disk
<1>8. CASE Round
  BY <1>0, <1>8 DEF Round, Selections, calendar, disk
<1>9. CASE Build
  <2>1. next \in Ids
    BY <1>0, <1>9 DEF Build, Bear, Ids
  <2> QED BY <1>0, <1>9, <2>1 DEF Build, Bear, Save, calendar
<1>10. CASE SaveChild
  <2>1. next \in Ids
    BY <1>0, <1>10 DEF SaveChild, Bear, Ids
  <2> QED BY <1>0, <1>10, <2>1 DEF SaveChild, Bear, Save, calendar
<1>11. CASE Resurrect
  BY <1>0, <1>11 DEF Resurrect, Bear, Save, calendar
<1>12. CASE Evaluate \/ Promote \/ Approve \/ SaveWinner
  BY <1>0, <1>12 DEF Evaluate, Promote, Approve, SaveWinner, Save, calendar
<1>13. CASE Eliminate \/ RejectFinalist
  <2>1. /\ UNCHANGED <<pc, field, round, rising, parent, champion>>
        /\ UNCHANGED <<calendar, next, projects, crowned, faults>>
        /\ work' \subseteq work /\ pc \notin {"asleep", "awake"}
    BY <1>13 DEF Eliminate, RejectFinalist
  <2> QED BY <1>0, <2>1 DEF calendar
<1>14. CASE EntombParent
  BY <1>0, <1>14 DEF EntombParent, calendar
<1> QED
  BY <1>1, <1>2, <1>3, <1>4, <1>5, <1>6, <1>7, <1>8, <1>9, <1>10, <1>11, <1>12, <1>13, <1>14 DEF Next

LEMMA HoursPass ==
  ASSUME IInv, ~IdsRepeat, [Next]_vars PROVE HourInv'
<1> USE DEF IInv
<1>0. hour \in Nat /\ day \in Nat /\ Len(WorkingDay) = 5
  BY ConceptsAssumption DEF TypeInv, TypeOK, WorkingDay
<1>1. CASE UNCHANGED <<pc, hour, day, idea>>
  BY <1>1 DEF HourInv, Stage
<1>2. CASE EndCycle \/ Shutdown \/ Kill
  BY <1>2 DEF EndCycle, Shutdown, Kill, PutDown, memory, HourInv
<1>3. CASE BeginCycle
  <2>1. /\ pc' = "awake" /\ day' = day + 1 /\ UNCHANGED idea
    BY <1>3 DEF BeginCycle, disk
  <2>2. \A i \in Ids : idea[i] # Unborn => idea[i].cycle \in Nat /\ idea[i].cycle <= day
    BY IdeasAreRecords DEF BirthInv, Idea
  <2> QED BY <1>0, <2>1, <2>2 DEF HourInv
<1>4. CASE StartBuilding
  <2>1. pc = "awake" /\ pc' = "building" /\ hour' \in {1, 4} /\ hour < hour' /\ UNCHANGED <<idea, day>>
    BY <1>4 DEF StartBuilding, TakeUp, disk
  <2> QED BY <1>0, <2>1 DEF HourInv, Stage
<1>5. CASE StartReflection \/ StartSecondWind \/ StartDreaming
  BY <1>0, <1>5 DEF StartReflection, StartSecondWind, StartDreaming, TakeUp, HourInv
<1>6. CASE Build
  <2>1. pc = "building" /\ UNCHANGED <<pc, hour, day>>
    BY <1>6 DEF Build, calendar
  <2> DEFINE record == Germinated(0, Nobody, "seed")
  <2>2. idea' = [idea EXCEPT ![next] = record] /\ record.stage = "CONCEPT"
    BY <1>6 DEF Build, Bear, Save, Germinated
  <2> HIDE DEF record
  <2>3. \A i \in Ids : idea'[i] = idea[i] \/ idea'[i] = record
    BY <2>2 DEF TypeInv, TypeOK
  <2> QED BY <2>1, <2>2, <2>3 DEF HourInv, Stage
<1>7. CASE StopBuilding
  <2>1. pc = "building" /\ UNCHANGED <<hour, day, idea>> /\ hour \in {1, 4}
    BY <1>7 DEF StopBuilding, calendar, disk, HourInv
  <2>2. pc' = "awake" \/ (pc' = "evaluating" /\ hour = 4)
    BY <1>7, <2>1 DEF StopBuilding, ToEvaluation, PutDown, WorkingDay
  <2> QED BY <1>0, <2>1, <2>2 DEF HourInv, Stage
<1>8. CASE pc \notin {"asleep", "awake", "building"} /\ pc' # "building" /\ UNCHANGED hour
  BY <1>0, <1>8 DEF HourInv
<1>9. CASE PhaseRaises
  <2>1. pc = "building" => UNCHANGED <<idea, hour, day>> /\ pc' = "awake"
    BY <1>9 DEF PhaseRaises, PutDown, calendar, disk
  <2>2. pc # "building" => pc \notin {"asleep", "awake", "building"} /\ pc' = "awake" /\ UNCHANGED hour
    BY <1>9 DEF PhaseRaises, PutDown, calendar
  <2> QED BY <1>0, <1>8, <2>1, <2>2 DEF HourInv, Stage
<1>10. CASE \/ Evaluate \/ EndEvaluation \/ Round \/ Eliminate \/ Promote \/ CloseFunnel
            \/ RejectFinalist \/ NoWinner \/ Approve \/ SaveProject \/ SaveWinner \/ Crown
  <2>1. pc \notin {"asleep", "awake", "building"} /\ pc' # "building" /\ UNCHANGED hour
    BY <1>10
    DEF Evaluate, EndEvaluation, Round, Eliminate, Promote, CloseFunnel, RejectFinalist, NoWinner,
        Approve, SaveProject, SaveWinner, Crown, PutDown, calendar
  <2> QED BY <1>8, <2>1
<1>11. CASE SkipMutation \/ EntombParent \/ SaveChild \/ EndMutation \/ Resurrect \/ EndDream
  <2>1. pc \notin {"asleep", "awake", "building"} /\ pc' # "building" /\ UNCHANGED hour
    BY <1>11
    DEF SkipMutation, EntombParent, SaveChild, EndMutation, Resurrect, EndDream, ToEvaluation,
        PutDown, calendar
  <2> QED BY <1>8, <2>1
<1>12. CASE Mirror \/ UNCHANGED vars
  BY <1>1, <1>12 DEF Mirror, vars, memory, calendar, disk
<1> QED
  BY <1>2, <1>3, <1>4, <1>5, <1>6, <1>7, <1>9, <1>10, <1>11, <1>12 DEF Next

LEMMA HandsHold ==
  ASSUME IInv, ~IdsRepeat, [Next]_vars PROVE HandInv'
<1> USE DEF IInv
<1>0. /\ Nobody \notin Ids /\ DOMAIN idea = Ids /\ DOMAIN graves = Ids
      /\ work \subseteq Ids /\ field \subseteq Ids /\ rising \subseteq Ids
      /\ {parent, champion, due} \subseteq Ids \cup {Nobody}
  BY DEF TypeInv, TypeOK, Nobody, Ids
<1>1. CASE UNCHANGED <<memory, idea, graves>>
  BY <1>1 DEF memory, HandInv, Stage
<1>2. CASE PhaseRaises \/ Kill \/ NoWinner \/ Crown \/ EndDream
  BY <1>2 DEF PhaseRaises, Kill, NoWinner, Crown, EndDream, PutDown, HandInv
<1>3. CASE BeginCycle \/ EndCycle
  BY <1>3 DEF BeginCycle, EndCycle, HandInv
<1>4. CASE StartBuilding
  BY <1>4 DEF StartBuilding, TakeUp, HandInv
<1>5. CASE StartReflection
  <2>1. hour < 2 /\ pc = "awake" /\ pc' = "evaluating" /\ work' = Competitors /\ field' = Competitors
        /\ UNCHANGED <<idea, round, rising>>
    BY <1>5 DEF StartReflection, TakeUp, disk
  <2>2. \A i \in Competitors : Stage(i) \in Competing
    BY <2>1 DEF Competitors, Born, HourInv, Competing
  <2> QED BY <2>1, <2>2 DEF HandInv, Stage
<1>6. CASE StartSecondWind
  <2>1. /\ pc = "awake" /\ pc' = "mutating" /\ work' \subseteq Mutables /\ field' = {}
        /\ UNCHANGED <<idea, round, rising, parent>>
    BY <1>6 DEF StartSecondWind, Picks, TakeUp, disk
  <2>2. parent = Nobody
    BY <2>1 DEF TypeInv, TypeOK
  <2> QED BY <2>1, <2>2 DEF HandInv, Stage, Mutables, IsMutable
<1>7. CASE StartDreaming
  <2>1. /\ pc = "awake" /\ pc' = "dreaming" /\ work' \subseteq Buried
        /\ UNCHANGED <<graves, round, rising>>
    BY <1>7 DEF StartDreaming, Dreamable, TakeUp, disk
  <2> QED BY <2>1 DEF HandInv, Buried
<1>8. CASE StopBuilding \/ EndMutation
  <2>1. (\A i \in field : Stage(i) = "CONCEPT") /\ round = 0 /\ rising = {} /\ UNCHANGED idea
    BY <1>8 DEF StopBuilding, EndMutation, HandInv, disk
  <2>2. \/ PutDown("awake")
        \/ pc' = "evaluating" /\ work' = field /\ UNCHANGED <<field, round, rising>>
    BY <1>8 DEF StopBuilding, EndMutation, ToEvaluation
  <2> QED BY <2>1, <2>2 DEF PutDown, HandInv, Stage, Competing
<1>9. CASE EndEvaluation
  <2>1. (\A i \in field : Stage(i) \in Competing) /\ round = 0 /\ rising = {} /\ work = {}
        /\ UNCHANGED idea
    BY <1>9 DEF EndEvaluation, HandInv, disk
  <2>2. \/ PutDown("awake")
        \/ pc' = "funnel" /\ UNCHANGED <<work, field, round, rising>>
    BY <1>9 DEF EndEvaluation
  <2> QED BY <2>1, <2>2 DEF PutDown, HandInv, Stage
<1>10. CASE Mirror
  <2>1. /\ due \in Ids /\ graves' = [graves EXCEPT ![due] = idea[due]]
        /\ UNCHANGED <<pc, work, field, round, rising, parent, champion, idea>>
    BY <1>0, <1>10 DEF Mirror
  <2>2. idea[due] # Unborn
    BY <1>10 DEF Mirror, GraveInv, Stage, Unborn
  <2>3. \A i \in Ids : graves[i] # Unborn => graves'[i] # Unborn
    BY <1>0, <2>1, <2>2
  <2> QED BY <1>0, <2>1, <2>3 DEF HandInv, Stage
<1>11. CASE Build
  <2>1. /\ pc = "building" /\ field' = field \cup {next} /\ UNCHANGED <<pc, round, rising>>
        /\ idea' = [idea EXCEPT ![next] = Germinated(0, Nobody, "seed")]
    BY <1>11 DEF Build, Bear, Save
  <2>2. \A i \in Ids : i = next => idea'[i].stage = "CONCEPT"
    BY <1>0, <2>1 DEF Germinated
  <2>3. \A i \in Ids : i # next => idea'[i] = idea[i]
    BY <1>0, <2>1
  <2>4. next \in Ids
    BY <1>11, ConceptsAssumption DEF Build, Bear, Ids, TypeInv, TypeOK
  <2> QED BY <1>0, <2>1, <2>2, <2>3, <2>4 DEF HandInv, Stage
<1>12. CASE Evaluate
  <2>1. PICK i \in work, p \in Ratings : idea' = [idea EXCEPT ![i] = [idea[i] EXCEPT !.potential = p]]
    BY <1>12 DEF Evaluate, Save
  <2>2. idea[i] \in Idea
    BY <1>0, <1>12, IdeasAreRecords DEF Evaluate, HandInv, Competing, Stage, Unborn
  <2>3. [idea[i] EXCEPT !.potential = p].stage = idea[i].stage
    BY <2>2 DEF Idea
  <2>4. \A j \in Ids : idea'[j].stage = idea[j].stage
    BY <1>0, <2>1, <2>3
  <2>5. pc = "evaluating" /\ work' \subseteq work /\ UNCHANGED <<pc, field, round, rising>>
    BY <1>12 DEF Evaluate
  <2> QED BY <1>0, <2>4, <2>5 DEF HandInv, Stage
<1>13. CASE Round
  <2>1. /\ pc = "funnel" /\ work = {} /\ rising = {} /\ round' = round + 1 /\ UNCHANGED <<pc, idea>>
        /\ field' \subseteq field /\ rising' = field' /\ work' = field \ field'
    BY <1>13 DEF Round, Selections, disk
  <2>2. round \in Nat
    BY RoundsCompete DEF TypeInv, TypeOK
  <2> QED BY <2>1, <2>2 DEF HandInv, Stage
<1>14. CASE Eliminate
  <2>1. PICK i \in work : Fall(i) /\ work' = work \ {i}
    BY <1>14 DEF Eliminate
  <2>2. i \in Ids /\ Stage(i) \in Competing /\ i \notin field /\ pc = "funnel"
        /\ UNCHANGED <<pc, field, round, rising, next, day>>
    BY <1>0, <1>14 DEF Eliminate, HandInv, calendar
  <2>3. PICK record \in Idea : Rewritten(i, record)
    BY <2>1, <2>2, FallsAreWays
  <2>4. \A j \in Ids \ {i} : idea'[j] = idea[j]
    BY <2>2, <2>3, RewritesOneIdea
  <2> QED BY <1>0, <2>1, <2>2, <2>4 DEF HandInv, Stage
<1>15. CASE Promote
  <2>1. PICK i \in rising :
          /\ idea' = [idea EXCEPT ![i] = [idea[i] EXCEPT !.stage =
                         IF Index(Stage(i)) < Index(Funnel[round].stage)
                         THEN Funnel[round].stage ELSE Stage(i)]]
          /\ rising' = rising \ {i}
    BY <1>15 DEF Promote, Save
  <2>2. pc = "funnel" /\ work = {} /\ UNCHANGED <<pc, work, field, round>>
    BY <1>15 DEF Promote
  <2>3. i \in Ids /\ i \in field /\ Stage(i) \in Competing /\ round \in 1 .. Len(Funnel)
    BY <1>0, <2>1, <2>2, RoundsCompete DEF HandInv, TypeInv, TypeOK
  <2>4. PICK stage \in Competing :
          /\ idea' = [idea EXCEPT ![i] = [idea[i] EXCEPT !.stage = stage]]
          /\ Index(stage) >= Index(Funnel[round].stage)
    <3>1. Funnel[round].stage \in Competing
      BY <2>3, RoundsCompete
    <3>2. Index(Stage(i)) \in Int /\ Index(Funnel[round].stage) \in Int
      BY <2>3, <3>1, FinalistsAreLast
    <3>3. CASE Index(Stage(i)) < Index(Funnel[round].stage)
      <4>1. idea' = [idea EXCEPT ![i] = [idea[i] EXCEPT !.stage = Funnel[round].stage]]
        BY <2>1, <3>3
      <4>2. Index(Funnel[round].stage) >= Index(Funnel[round].stage)
        BY <3>2
      <4> QED BY <3>1, <4>1, <4>2
    <3>4. CASE ~(Index(Stage(i)) < Index(Funnel[round].stage))
      <4>1. Index(Stage(i)) >= Index(Funnel[round].stage)
        BY <3>2, <3>4
      <4> QED BY <2>1, <2>3, <3>4, <4>1
    <3> QED BY <3>3, <3>4
  <2>5. idea[i] \in Idea
    BY <2>3, IdeasAreRecords DEF Stage, Unborn, Competing
  <2>6. idea'[i].stage = stage /\ \A j \in Ids \ {i} : idea'[j] = idea[j]
    BY <1>0, <2>3, <2>4, <2>5 DEF Idea
  <2> QED BY <1>0, <2>1, <2>2, <2>3, <2>4, <2>6 DEF HandInv, Stage
<1>16. CASE CloseFunnel
  <2>1. /\ pc = "funnel" /\ rising = {} /\ round = Len(Funnel) /\ pc' = "judging" /\ work' = field
        /\ UNCHANGED idea
    BY <1>16 DEF CloseFunnel, disk
  <2>2. \A i \in field : Stage(i) \in Competing /\ Index(Stage(i)) >= 7
    BY <2>1, RoundsCompete, FinalistsAreLast DEF HandInv
  <2>3. \A i \in field : Stage(i) = "FINALIST"
    BY <2>2, FinalistsAreLast
  <2> QED BY <2>1, <2>3 DEF HandInv, Stage
<1>17. CASE RejectFinalist
  <2>1. PICK i \in work : Fall(i) /\ work' = work \ {i}
    BY <1>17 DEF RejectFinalist
  <2>2. i \in Ids /\ Stage(i) \in Competing /\ pc = "judging" /\ UNCHANGED <<pc, next, day>>
    BY <1>0, <1>17 DEF RejectFinalist, HandInv, Competing, calendar
  <2>3. PICK record \in Idea : Rewritten(i, record)
    BY <2>1, <2>2, FallsAreWays
  <2>4. \A j \in Ids \ {i} : idea'[j] = idea[j]
    BY <2>2, <2>3, RewritesOneIdea
  <2> QED BY <1>0, <2>1, <2>2, <2>4 DEF HandInv, Stage
<1>18. CASE Approve
  <2>1. PICK i \in work : idea' = [idea EXCEPT ![i] = [idea[i] EXCEPT !.stage = "APPROVED"]] /\ champion' = i
    BY <1>18 DEF Approve, Save
  <2>2. i \in Ids /\ Stage(i) = "FINALIST" /\ pc' = "approving"
    BY <1>0, <1>18 DEF Approve, HandInv
  <2>3. idea[i] \in Idea
    BY <2>2, IdeasAreRecords DEF Stage, Unborn
  <2>4. idea'[i].stage = "APPROVED"
    BY <1>0, <2>1, <2>2, <2>3 DEF Idea
  <2> QED BY <1>0, <2>1, <2>2, <2>4 DEF HandInv, Stage
<1>19. CASE SaveProject
  BY <1>19 DEF SaveProject, HandInv, Stage
<1>20. CASE SaveWinner
  BY <1>20 DEF SaveWinner, HandInv
<1>21. CASE SkipMutation
  BY <1>21 DEF SkipMutation, disk, HandInv, Stage
<1>22. CASE EntombParent
  <2>1. PICK i \in work : idea' = [idea EXCEPT ![i].stage = "GRAVEYARD"] /\ parent' = i /\ work' = work \ {i}
    BY <1>22 DEF EntombParent, Bury
  <2>2. i \in Ids /\ Stage(i) = "MUTATION_POOL" /\ idea[i].depth < MaxLineageDepth
        /\ pc = "mutating" /\ UNCHANGED <<pc, field, round, rising>>
    BY <1>0, <1>22 DEF EntombParent, HandInv
  <2>3. idea[i] \in Idea
    BY <2>2, IdeasAreRecords DEF Stage, Unborn
  <2>4. /\ idea'[i].stage = "GRAVEYARD" /\ idea'[i].depth = idea[i].depth
        /\ \A j \in Ids \ {i} : idea'[j] = idea[j]
    BY <1>0, <2>1, <2>2, <2>3 DEF Idea
  <2>5. i \notin field
    BY <2>2 DEF HandInv
  <2> QED BY <1>0, <2>1, <2>2, <2>4, <2>5 DEF HandInv, Stage
<1>23. CASE SaveChild
  <2>1. /\ pc = "mutating" /\ field' = field \cup {next} /\ parent' = Nobody /\ next <= MaxIdeas
        /\ idea' = [idea EXCEPT ![next] = Germinated(idea[parent].depth + 1, parent, "mutation")]
        /\ UNCHANGED <<pc, work, round, rising>>
    BY <1>23 DEF SaveChild, Bear, Save
  <2>2. \A i \in Ids : i = next => idea'[i].stage = "CONCEPT"
    BY <1>0, <2>1 DEF Germinated
  <2>3. \A i \in Ids : i # next => idea'[i] = idea[i]
    BY <1>0, <2>1
  <2>4. next \in Ids
    BY <2>1, ConceptsAssumption DEF Ids, TypeInv, TypeOK
  <2>5. idea[next] = Unborn
    BY <2>4, ConceptsAssumption DEF BirthInv, Ids
  <2>6. next \notin work
    BY <2>1, <2>5 DEF HandInv, Stage, Unborn
  <2> QED BY <1>0, <2>1, <2>2, <2>3, <2>4, <2>6 DEF HandInv, Stage
<1>24. CASE Resurrect
  <2>1. pc = "dreaming" /\ work' \subseteq work /\ UNCHANGED <<pc, round, rising, graves>>
    BY <1>24 DEF Resurrect, Bear, Save
  <2> QED BY <2>1 DEF HandInv
<1>25. CASE Shutdown \/ UNCHANGED vars
  BY <1>1, <1>25 DEF Shutdown, vars, disk, memory
<1> QED
  BY <1>2, <1>3, <1>4, <1>5, <1>6, <1>7, <1>8, <1>9, <1>10, <1>11, <1>12, <1>13, <1>14, <1>15,
     <1>16, <1>17, <1>18, <1>19, <1>20, <1>21, <1>22, <1>23, <1>24, <1>25
  DEF Next

-----------------------------------------------------------------------------
(* The theorems. *)

\* The inductive invariant: every store and every phase is as the next step expects.
THEOREM IdeasAreInOrder == ASSUME ~IdsRepeat PROVE Spec => []IInv
<1>1. Init => IInv
  <2>1. MaxIdeas \in Nat /\ MaxDays \in Nat /\ MaxFaults \in Nat /\ Len(Funnel) \in Nat
    BY ConceptsAssumption, RoundsCompete
  <2>2. Unborn \in Idea \cup {Unborn} /\ Len(WorkingDay) = 5
    BY DEF WorkingDay
  <2>3. Init => TypeInv
    BY <2>1, <2>2 DEF Init, TypeInv, TypeOK, Places
  <2>4. Init => BirthInv /\ GraveInv /\ DepthInv
    BY <2>1 DEF Init, BirthInv, GraveInv, DepthInv, Ids
  <2>5. Init => HourInv /\ HandInv
    BY DEF Init, HourInv, HandInv
  <2> QED BY <2>3, <2>4, <2>5 DEF IInv
<1>2. IInv /\ [Next]_vars => IInv'
  <2> SUFFICES ASSUME IInv, [Next]_vars PROVE IInv'
    OBVIOUS
  <2>1. StoreTypes' /\ BirthInv' /\ GraveInv' /\ DepthInv'
    BY StepsStore, StoresAreKept
  <2>2. TypeInv'
    BY <2>1, MemoryIsTyped
  <2> QED BY <2>1, <2>2, HoursPass, HandsHold DEF IInv
<1> QED BY <1>1, <1>2, PTL DEF Spec

LEMMA NothingIsForbidden == ASSUME IInv PROVE ~Forbidden
<1>1. pc = "funnel" => \A i \in work \cup rising : Stage(i) \in Competing
  BY DEF IInv, HandInv
<1>2. \A stage \in Competing : CanTransition(stage, "REJECTED") /\ stage \in MainLine
  BY DEF Competing, CanTransition, Transitions, Fallible, MainLine
<1>3. CanTransition("FINALIST", "APPROVED") /\ CanTransition("MUTATION_POOL", "GRAVEYARD")
  BY DEF CanTransition, Transitions
<1>4. "FINALIST" \in Competing
  BY DEF Competing
<1>5. /\ pc = "judging" => \A i \in work : Stage(i) = "FINALIST"
      /\ pc = "mutating" => \A i \in work : Stage(i) = "MUTATION_POOL"
  BY DEF IInv, HandInv
<1> QED BY <1>1, <1>2, <1>3, <1>4, <1>5 DEF Forbidden, Alive

\* No phase ever tries a move the lifecycle forbids (lifecycle.py: transition;
\* competing.py, evaluating.py, subconscious.py).
THEOREM MovesAreAlwaysLegal == ASSUME ~IdsRepeat PROVE Spec => []MovesAreLegal
<1>1. IInv => MovesAreLegal
  BY NothingIsForbidden DEF MovesAreLegal
<1> QED BY <1>1, IdeasAreInOrder, PTL

\* No mutation is deeper than the ceiling and no revenant more than one past it
\* (subconscious.py: mutate and dream; concept.py: mutate_as, resurrect_as).
THEOREM LineagesAreBounded == ASSUME ~IdsRepeat PROVE Spec => []LineageBounded
<1>1. IInv => LineageBounded
  <2> SUFFICES ASSUME IInv, NEW i \in Born
      PROVE idea[i].depth <= MaxLineageDepth + (IF idea[i].origin = "resurrection" THEN 1 ELSE 0)
    BY DEF LineageBounded
  <2>1. i \in Ids /\ idea[i] # Unborn
    BY DEF Born
  <2>2. Shallow(idea[i]) /\ idea[i].depth \in Nat /\ MaxLineageDepth \in Nat
    BY <2>1, IdeasAreRecords, ConceptsAssumption DEF IInv, DepthInv, Idea
  <2> QED BY <2>2 DEF Shallow
<1> QED BY <1>1, IdeasAreInOrder, PTL

\* Each step of the phases and their stores is a step of the abstract life of one
\* idea, or none.
THEOREM PhasesImplementIdeaLife == ASSUME ~IdsRepeat PROVE Spec => ImplementsIdeaLife
<1> DEFINE life == [i \in Ids |-> Life(i)]
<1>1. Init => Lives!Init
  BY DEF Init, Lives!Init, Life
<1>2. IInv /\ [Next]_vars => [Lives!Next]_life
  <2> SUFFICES ASSUME IInv, [Next]_vars, life' # life PROVE Lives!Next
    OBVIOUS
  <2>0. Stored
    BY StepsStore
  <2>1. life' = [i \in Ids |-> Life(i)']
    OBVIOUS
  <2>2. CASE Untouched \/ Mirrored
    BY <2>2 DEF Untouched, Mirrored, Life, Stage
  <2>3. ASSUME NEW i \in Ids, NEW record \in Idea, Rewritten(i, record) PROVE Lives!Next
    <3>1. /\ idea'[i] = record /\ \A j \in Ids \ {i} : idea'[j] = idea[j]
          /\ idea[i] # Unborn /\ record # Unborn /\ Way(idea[i], record.stage)
      BY <2>3, RewritesOneIdea DEF Rewritten
    <3>2. \A j \in Ids \ {i} : Life(j)' = Life(j)
      BY <3>1 DEF Life, Stage
    <3>3. life' = [life EXCEPT ![i] = Life(i)']
      BY <3>2
    <3>4. Life(i)' # Life(i)
      BY <3>3
    <3>5. \/ Life(i) = "competing" /\ Life(i)' \in {"resting", "buried", "won"}
          \/ Life(i) = "resting" /\ Life(i)' = "buried"
      BY <3>1, <3>4 DEF Way, Life, Stage, Competing, MainLine
    <3> QED BY <3>3, <3>5 DEF Lives!Next, Lives!Become
  <2>4. ASSUME NEW record \in Idea, Borne(record) PROVE Lives!Next
    <3>1. /\ next \in Ids /\ idea[next] = Unborn /\ idea'[next] = record /\ record # Unborn
          /\ \A j \in Ids \ {next} : idea'[j] = idea[j]
          /\ record.stage \in {"CONCEPT", "MUTATION_POOL"}
      BY <2>4, BearsOneIdea DEF Borne
    <3>2. \A j \in Ids \ {next} : Life(j)' = Life(j)
      BY <3>1 DEF Life, Stage
    <3>3. Life(next) = "unborn"
      BY <3>1 DEF Life
    <3>4. PICK after : after \in {"competing", "resting"} /\ life' = [life EXCEPT ![next] = after]
      <4> DEFINE after == IF record.stage = "CONCEPT" THEN "competing" ELSE "resting"
      <4>1. \A j \in Ids : Life(j)' = IF j = next THEN after ELSE Life(j)
        BY <3>1, <3>2 DEF Life, Stage, MainLine
      <4>2. after \in {"competing", "resting"}
        OBVIOUS
      <4> HIDE DEF after
      <4> QED BY <3>1, <4>1, <4>2
    <3> QED BY <3>1, <3>3, <3>4 DEF Lives!Next, Lives!Become
  <2> QED BY <2>0, <2>2, <2>3, <2>4 DEF Stored
<1> QED BY <1>1, <1>2, IdeasAreInOrder, PTL DEF Spec, ImplementsIdeaLife, Lives!Spec

-----------------------------------------------------------------------------
(* Heirs. *)

\* The parent of a mutation is buried, and while its child is not saved it has none.
HeirInv ==
  /\ \A i \in Ids : idea[i] # Unborn /\ idea[i].origin = "mutation" =>
       idea[i].parent \in Ids /\ Stage(idea[i].parent) = "GRAVEYARD"
  /\ pc = "mutating" /\ parent # Nobody =>
       \A i \in Ids : idea[i] # Unborn /\ idea[i].origin = "mutation" => idea[i].parent # parent
  /\ OneHeirEach

LEMMA HeirsStaySingle ==
  ASSUME IInv, HeirInv, ~IdsRepeat, [Next]_vars PROVE HeirInv'
<1>0. /\ Nobody \notin Ids /\ DOMAIN idea = Ids /\ next \in Nat
      /\ {parent, champion, due} \subseteq Ids \cup {Nobody}
  BY ConceptsAssumption DEF IInv, TypeInv, TypeOK, Nobody, Ids
<1>1. CASE UNCHANGED next
  <2>1. ~ \E record \in Idea : Borne(record)
    BY <1>0, <1>1 DEF Borne
  <2>2. /\ \A i \in Ids : idea'[i] # Unborn <=> idea[i] # Unborn
        /\ \A i \in Ids : idea[i] # Unborn =>
             idea'[i].origin = idea[i].origin /\ idea'[i].parent = idea[i].parent
        /\ \A i \in Ids : Stage(i) = "GRAVEYARD" => Stage(i)' = "GRAVEYARD"
    <3>1. CASE Untouched \/ Mirrored
      BY <3>1 DEF Untouched, Mirrored, Stage
    <3>2. ASSUME NEW i \in Ids, NEW record \in Idea, Rewritten(i, record)
          PROVE  /\ \A j \in Ids : idea'[j] # Unborn <=> idea[j] # Unborn
                 /\ \A j \in Ids : idea[j] # Unborn =>
                      idea'[j].origin = idea[j].origin /\ idea'[j].parent = idea[j].parent
                 /\ \A j \in Ids : Stage(j) = "GRAVEYARD" => Stage(j)' = "GRAVEYARD"
      <4>1. /\ idea'[i] = record /\ \A j \in Ids \ {i} : idea'[j] = idea[j]
            /\ \A j \in Ids : idea'[j] # Unborn <=> idea[j] # Unborn
        BY <3>2, RewritesOneIdea
      <4>2. record.origin = idea[i].origin /\ record.parent = idea[i].parent
        BY <3>2 DEF Rewritten
      <4>3. Stage(i) # "GRAVEYARD"
        BY <3>2 DEF Rewritten, Way, Competing, Stage
      <4> QED BY <4>1, <4>2, <4>3 DEF Stage
    <3> QED BY <2>1, <3>1, <3>2, StepsStore DEF Stored
  <2>3. \A i \in Ids : idea'[i] # Unborn /\ idea'[i].origin = "mutation" =>
          idea'[i].parent \in Ids /\ idea'[idea'[i].parent].stage = "GRAVEYARD"
    BY <2>2 DEF HeirInv, Stage
  <2>4. OneHeirEach'
    BY <2>2 DEF HeirInv, OneHeirEach, Born
  <2>5. \/ pc' = "mutating" /\ parent' # Nobody => pc = "mutating" /\ parent' = parent
        \/ EntombParent
    <3>1. pc = "awake" => parent = Nobody
      BY DEF IInv, TypeInv, TypeOK
    <3>2. CASE Mirror \/ UNCHANGED vars
      BY <3>2 DEF Mirror, vars, memory
    <3>3. CASE StartBuilding \/ StartReflection \/ StartSecondWind \/ StartDreaming
      BY <3>1, <3>3 DEF StartBuilding, StartReflection, StartSecondWind, StartDreaming, TakeUp
    <3>4. CASE BeginCycle \/ EndCycle \/ Shutdown \/ PhaseRaises \/ Kill
      BY <3>4 DEF BeginCycle, EndCycle, Shutdown, PhaseRaises, Kill, PutDown, memory
    <3>5. CASE StopBuilding \/ EndEvaluation \/ EndMutation \/ EndDream \/ NoWinner \/ Crown
      BY <3>5
      DEF StopBuilding, EndEvaluation, EndMutation, EndDream, NoWinner, Crown, ToEvaluation, PutDown
    <3>6. CASE \/ Evaluate \/ Round \/ Eliminate \/ Promote \/ CloseFunnel \/ RejectFinalist
               \/ Approve \/ SaveProject \/ SaveWinner \/ SkipMutation
      BY <3>6
      DEF Evaluate, Round, Eliminate, Promote, CloseFunnel, RejectFinalist, Approve, SaveProject,
          SaveWinner, SkipMutation
    <3>7. CASE Build \/ SaveChild \/ Resurrect
      BY <1>0, <1>1, <3>7 DEF Build, SaveChild, Resurrect, Bear
    <3> QED BY <3>2, <3>3, <3>4, <3>5, <3>6, <3>7 DEF Next
  <2>6. CASE pc' = "mutating" /\ parent' # Nobody => pc = "mutating" /\ parent' = parent
    BY <2>2, <2>3, <2>4, <2>6 DEF HeirInv
  <2>7. CASE EntombParent
    <3>1. parent' \in Ids /\ Stage(parent') = "MUTATION_POOL"
      BY <2>7 DEF EntombParent, IInv, HandInv, TypeInv, TypeOK
    <3>2. \A i \in Ids : idea'[i] # Unborn /\ idea'[i].origin = "mutation" => idea'[i].parent # parent'
      BY <2>2, <3>1 DEF HeirInv
    <3> QED BY <2>3, <2>4, <3>2 DEF HeirInv, Stage
  <2> QED BY <2>5, <2>6, <2>7
<1>2. ASSUME NEW record, Bear(record), record \in Idea, pc' # "mutating" \/ parent' = Nobody,
             record.origin = "mutation" =>
               /\ record.parent \in Ids /\ Stage(record.parent) = "GRAVEYARD"
               /\ \A i \in Ids : idea[i] # Unborn /\ idea[i].origin = "mutation" =>
                    idea[i].parent # record.parent
      PROVE  HeirInv'
  <2>1. next \in Ids /\ idea[next] = Unborn
    BY <1>0, <1>2, ConceptsAssumption DEF Bear, Ids, IInv, TypeInv, TypeOK, BirthInv
  <2>2. idea'[next] = record /\ \A i \in Ids \ {next} : idea'[i] = idea[i]
    BY <1>0, <1>2, <2>1 DEF Bear, Save
  <2>3. \A i \in Ids : Stage(i) = "GRAVEYARD" => Stage(i)' = "GRAVEYARD"
    BY <2>1, <2>2 DEF Stage, Unborn
  <2>4. \A i \in Ids : idea'[i] # Unborn /\ idea'[i].origin = "mutation" =>
          idea'[i].parent \in Ids /\ idea'[idea'[i].parent].stage = "GRAVEYARD"
    BY <1>2, <2>2, <2>3 DEF HeirInv, Stage
  <2>5. OneHeirEach'
    BY <1>2, <2>1, <2>2 DEF HeirInv, OneHeirEach, Born
  <2> QED BY <1>2, <2>4, <2>5 DEF HeirInv, Stage
<1>3. CASE Build
  <2> DEFINE record == Germinated(0, Nobody, "seed")
  <2>1. record \in Idea /\ record.origin = "seed"
    BY ConceptsAssumption
    DEF IInv, TypeInv, TypeOK, Germinated, Idea, Stages, MainLine, Potentials, Origins
  <2>2. Bear(record) /\ pc' # "mutating"
    BY <1>3 DEF Build
  <2> HIDE DEF record
  <2> QED BY <1>2, <2>1, <2>2
<1>4. CASE SaveChild
  <2> DEFINE record == Germinated(idea[parent].depth + 1, parent, "mutation")
  <2>1. pc = "mutating" /\ parent \in Ids /\ Stage(parent) = "GRAVEYARD" /\ parent' = Nobody
        /\ Bear(record)
    BY <1>0, <1>4 DEF SaveChild, IInv, HandInv
  <2>2. idea[parent].depth \in Nat /\ day \in Nat
    BY SMTT(30), <2>1, IdeasAreRecords, ConceptsAssumption DEF IInv, Stage, Unborn, Idea, TypeInv, TypeOK
  <2>3. record \in Idea /\ record.parent = parent
    BY <2>1, <2>2 DEF Germinated, Idea, Stages, MainLine, Potentials, Origins
  <2> HIDE DEF record
  <2>4. \A i \in Ids : idea[i] # Unborn /\ idea[i].origin = "mutation" => idea[i].parent # parent
    BY <1>0, <2>1 DEF HeirInv
  <2> QED BY <1>2, <2>1, <2>3, <2>4
<1>5. CASE Resurrect
  <2>1. PICK i \in work :
          Bear([stage |-> "MUTATION_POOL", cycle |-> day, depth |-> graves[i].depth + 1,
                potential |-> graves[i].potential, parent |-> i, origin |-> "resurrection"])
    BY <1>5 DEF Resurrect
  <2> DEFINE record ==
        [stage |-> "MUTATION_POOL", cycle |-> day, depth |-> graves[i].depth + 1,
         potential |-> graves[i].potential, parent |-> i, origin |-> "resurrection"]
  <2>2. i \in Ids /\ graves[i] # Unborn /\ graves[i] = idea[i] /\ pc' = "dreaming" /\ day \in Nat
    BY <1>5, ConceptsAssumption DEF Resurrect, IInv, HandInv, GraveInv, TypeInv, TypeOK
  <2>3. graves[i].depth \in Nat /\ graves[i].potential \in Potentials
    BY <2>2, IdeasAreRecords DEF IInv, Idea
  <2>4. record \in Idea /\ record.origin = "resurrection" /\ Bear(record)
    BY <2>1, <2>2, <2>3 DEF Idea, Stages, REVIVABLE_STAGES, Origins
  <2> HIDE DEF record
  <2> QED BY <1>2, <2>2, <2>4
<1>6. Build \/ SaveChild \/ Resurrect \/ UNCHANGED next
  BY DEF Next, vars, BeginCycle, EndCycle, Shutdown, Restart, PhaseRaises, Kill, Mirror,
         StartBuilding, StartReflection, StartSecondWind, StartDreaming, TakeUp, StopBuilding,
         Evaluate, EndEvaluation, Round, Eliminate, Promote, CloseFunnel, RejectFinalist, NoWinner,
         Approve, SaveProject, SaveWinner, Crown, SkipMutation, EntombParent, EndMutation, EndDream
<1> QED BY <1>1, <1>3, <1>4, <1>5, <1>6

\* A rejected idea gets one second life: no two ideas are mutations of the same
\* parent, whatever is killed between burying the parent and saving the child
\* (subconscious.py: MutationEngine).
THEOREM EveryParentHasOneHeir == ASSUME ~IdsRepeat PROVE Spec => []OneHeirEach
<1>1. Init => HeirInv
  BY DEF Init, HeirInv, OneHeirEach, Born
<1>2. IInv /\ HeirInv /\ [Next]_vars => HeirInv'
  BY HeirsStaySingle
<1>3. HeirInv => OneHeirEach
  BY DEF HeirInv
<1> QED BY <1>1, <1>2, <1>3, IdeasAreInOrder, PTL DEF Spec

-----------------------------------------------------------------------------
(* Everyone is heard. *)

\* From its start on, REFLECTION holds every CONCEPT there is, until none is left.
HeardInv ==
  /\ pc = "mutating" => hour = 3
  /\ pc = "evaluating" /\ hour = 2 => \A i \in Ids : Stage(i) = "CONCEPT" => i \in field
  /\ pc = "funnel" => \A i \in Ids : Stage(i) = "CONCEPT" => i \in work \cup field
  /\ pc = "judging" => \A i \in Ids : Stage(i) # "CONCEPT"

LEMMA NobodyIsPassedOver ==
  ASSUME IInv, HeardInv, ~IdsRepeat, [Next]_vars PROVE HeardInv'
<1> USE DEF IInv
<1>0. /\ DOMAIN idea = Ids /\ work \subseteq Ids /\ field \subseteq Ids /\ rising \subseteq Ids
      /\ WorkingDay[1] = "CREATION" /\ WorkingDay[2] = "REFLECTION" /\ WorkingDay[3] = "SECOND_WIND"
      /\ WorkingDay[4] = "EXPLORATION" /\ WorkingDay[5] = "DREAMING" /\ hour \in 0 .. 5
  BY DEF TypeInv, TypeOK, WorkingDay
<1>1. CASE UNCHANGED <<pc, hour, work, field, idea>>
  BY <1>1 DEF HeardInv, Stage
<1>2. CASE pc' \notin {"evaluating", "funnel", "judging", "mutating"}
  BY <1>2 DEF HeardInv
<1>3. CASE StartReflection
  <2>1. field' = Competitors /\ pc' = "evaluating" /\ UNCHANGED idea
    BY <1>3 DEF StartReflection, TakeUp, disk
  <2>2. \A i \in Ids : Stage(i) = "CONCEPT" => i \in Competitors
    BY DEF Competitors, Born, Alive, MainLine, Stage, Unborn
  <2> QED BY <2>1, <2>2 DEF HeardInv, Stage
<1>4. CASE StartSecondWind
  BY <1>4 DEF StartSecondWind, TakeUp, HeardInv
<1>5. CASE StopBuilding
  <2>1. pc' = "awake" \/ (pc' = "evaluating" /\ hour' = 4)
    BY <1>0, <1>5 DEF StopBuilding, ToEvaluation, PutDown, HourInv, calendar
  <2> QED BY <2>1 DEF HeardInv
<1>6. CASE EndMutation
  <2>1. pc' = "awake" \/ (pc' = "evaluating" /\ hour' = 3)
    BY <1>6 DEF EndMutation, ToEvaluation, PutDown, HeardInv, calendar
  <2> QED BY <2>1 DEF HeardInv
<1>7. CASE Evaluate
  <2>1. PICK i \in work, p \in Ratings : idea' = [idea EXCEPT ![i] = [idea[i] EXCEPT !.potential = p]]
    BY <1>7 DEF Evaluate, Save
  <2>2. idea[i] \in Idea
    BY <1>0, <1>7, IdeasAreRecords DEF Evaluate, HandInv, Competing, Stage, Unborn
  <2>3. [idea[i] EXCEPT !.potential = p].stage = idea[i].stage
    BY <2>2 DEF Idea
  <2>4. \A j \in Ids : idea'[j].stage = idea[j].stage
    BY <1>0, <2>1, <2>3
  <2>5. pc = "evaluating" /\ UNCHANGED <<pc, hour, field>>
    BY <1>7 DEF Evaluate, calendar
  <2> QED BY <2>4, <2>5 DEF HeardInv, Stage
<1>8. CASE EndEvaluation
  <2>1. pc = "evaluating" /\ UNCHANGED idea
    BY <1>8 DEF EndEvaluation, disk
  <2>2. pc' = "awake" \/ (pc' = "funnel" /\ hour = 2 /\ UNCHANGED <<work, field>>)
    BY <1>0, <1>8 DEF EndEvaluation, PutDown, HourInv
  <2> QED BY <2>1, <2>2 DEF HeardInv, Stage
<1>9. CASE Round
  BY <1>9 DEF Round, Selections, HeardInv, Stage, disk
<1>10. CASE Eliminate \/ RejectFinalist
  <2>1. PICK i \in work : Fall(i) /\ work' = work \ {i}
    BY <1>10 DEF Eliminate, RejectFinalist
  <2>2. i \in Ids /\ Stage(i) \in Competing /\ pc \in {"funnel", "judging"}
        /\ UNCHANGED <<pc, field, next, day>>
    BY <1>0, <1>10 DEF Eliminate, RejectFinalist, HandInv, Competing, calendar
  <2>3. PICK record \in Idea : Rewritten(i, record) /\ record.stage \in {"MUTATION_POOL", "GRAVEYARD"}
    BY <2>1, <2>2, FallsAreWays
  <2>4. idea'[i] = record /\ \A j \in Ids \ {i} : idea'[j] = idea[j]
    BY <2>2, <2>3, RewritesOneIdea
  <2> QED BY <2>1, <2>2, <2>3, <2>4 DEF HeardInv, Stage
<1>11. CASE Promote
  <2>1. PICK i \in rising : \E stage : idea' = [idea EXCEPT ![i] = [idea[i] EXCEPT !.stage = stage]]
    BY <1>11 DEF Promote, Save
  <2>2. pc = "funnel" /\ i \in field /\ UNCHANGED <<pc, work, field>>
    BY <1>11 DEF Promote, HandInv
  <2>3. \A j \in Ids \ {i} : idea'[j] = idea[j]
    BY <1>0, <2>1
  <2> QED BY <2>2, <2>3 DEF HeardInv, Stage
<1>12. CASE CloseFunnel
  <2>1. /\ pc = "funnel" /\ work = {} /\ rising = {} /\ round = Len(Funnel) /\ pc' = "judging"
        /\ UNCHANGED idea
    BY <1>12 DEF CloseFunnel, disk
  <2>2. \A i \in field : Stage(i) \in Competing /\ Index(Stage(i)) >= 7
    BY <2>1, RoundsCompete, FinalistsAreLast DEF HandInv
  <2>3. \A i \in field : Stage(i) = "FINALIST"
    BY <2>2, FinalistsAreLast
  <2> QED BY <2>1, <2>3 DEF HeardInv, Stage
<1>13. CASE SkipMutation \/ EntombParent \/ SaveChild
  BY <1>13 DEF SkipMutation, EntombParent, SaveChild, HeardInv, calendar
<1>14. CASE \/ BeginCycle \/ EndCycle \/ PhaseRaises \/ Kill \/ StartBuilding \/ StartDreaming
            \/ Build \/ NoWinner \/ Approve \/ SaveProject \/ SaveWinner \/ Crown \/ Resurrect
            \/ EndDream
  BY <1>2, <1>14
  DEF BeginCycle, EndCycle, PhaseRaises, Kill, StartBuilding, StartDreaming, TakeUp, Build,
      NoWinner, Approve, SaveProject, SaveWinner, Crown, Resurrect, EndDream, PutDown
<1>15. CASE Shutdown \/ Mirror \/ UNCHANGED vars
  BY <1>1, <1>15 DEF Shutdown, Mirror, vars, memory, calendar, disk
<1> QED
  BY <1>3, <1>4, <1>5, <1>6, <1>7, <1>8, <1>9, <1>10, <1>11, <1>12, <1>13, <1>14, <1>15 DEF Next

\* Every idea an earlier night left at CONCEPT has competed by the time the judge
\* sees the finalists (evaluating.py, orchestrator.py: _competitors; competing.py).
THEOREM NobodyWaitsUnheard == ASSUME ~IdsRepeat PROVE Spec => []EveryoneIsHeard
<1>1. Init => HeardInv
  BY DEF Init, HeardInv
<1>2. IInv /\ HeardInv /\ [Next]_vars => HeardInv'
  BY NobodyIsPassedOver
<1>3. HeardInv => EveryoneIsHeard
  BY DEF HeardInv, EveryoneIsHeard, Born
<1> QED BY <1>1, <1>2, <1>3, IdeasAreInOrder, PTL DEF Spec

-----------------------------------------------------------------------------
(* Graves and their mirrors. *)

Missing == {i \in Graveyard : graves[i] = Unborn}

\* Apart from the grave being mirrored at this moment, each one that misses its mirror
\* was written in a phase that a fault of its own cut short.
MirrorInv ==
  /\ due # Nobody => pc \in {"funnel", "judging", "mutating"}
  /\ Cardinality(Missing \ {due}) <= faults

LEMMA NoMore ==
  ASSUME NEW S, IsFiniteSet(S), NEW T, T \subseteq S
  PROVE  /\ IsFiniteSet(T) /\ Cardinality(T) \in Nat /\ Cardinality(S) \in Nat
         /\ Cardinality(T) <= Cardinality(S)
BY FS_Subset, FS_CardinalityType

LEMMA OneMore ==
  ASSUME NEW S, IsFiniteSet(S), NEW x, NEW T, T \subseteq S \cup {x}
  PROVE  /\ IsFiniteSet(T) /\ Cardinality(T) \in Nat /\ Cardinality(S) \in Nat
         /\ Cardinality(T) <= Cardinality(S) + 1
<1>1. /\ IsFiniteSet(S \cup {x}) /\ Cardinality(S) \in Nat
      /\ Cardinality(S \cup {x}) \in {Cardinality(S), Cardinality(S) + 1}
  BY FS_AddElement, FS_CardinalityType
<1>2. /\ IsFiniteSet(T) /\ Cardinality(T) \in Nat /\ Cardinality(S \cup {x}) \in Nat
      /\ Cardinality(T) <= Cardinality(S \cup {x})
  BY <1>1, NoMore
<1> QED BY <1>1, <1>2

LEMMA IdsAreFinite == IsFiniteSet(Ids)
BY ConceptsAssumption, FS_Interval DEF Ids

LEMMA MirrorsKeepUp ==
  ASSUME IInv, MirrorInv, ~IdsRepeat, [Next]_vars PROVE MirrorInv'
<1>0. /\ Nobody \notin Ids /\ idea \in [Ids -> Idea \cup {Unborn}] /\ DOMAIN graves = Ids
      /\ work \subseteq Ids /\ rising \subseteq Ids
      /\ {parent, champion, due} \subseteq Ids \cup {Nobody}
      /\ pc \in {"asleep", "awake"} => due = Nobody
      /\ faults \in Nat
  <2>1. faults \in Nat
    BY ConceptsAssumption DEF IInv, TypeInv, TypeOK
  <2>2. Nobody \notin Ids
    BY DEF Nobody, Ids
  <2> QED BY <2>1, <2>2 DEF IInv, TypeInv, TypeOK
<1>1. /\ \A i : i \in Missing <=>
           i \in Ids /\ idea[i].stage = "GRAVEYARD" /\ graves[i] = Unborn
      /\ \A i : i \in Missing' <=>
           i \in Ids /\ idea'[i].stage = "GRAVEYARD" /\ graves'[i] = Unborn
  <2>1. Unborn.stage # "GRAVEYARD"
    BY DEF Unborn
  <2> QED BY <2>1 DEF Missing, Graveyard, Born, Stage
<1>2. IsFiniteSet(Missing \ {due})
  BY <1>1, IdsAreFinite, NoMore
\* A step that loses nothing.
<1>3. ASSUME Missing' \ {due'} \subseteq Missing \ {due}, faults' = faults,
             due' # Nobody => pc' \in {"funnel", "judging", "mutating"}
      PROVE  MirrorInv'
  <2>1. Cardinality(Missing' \ {due'}) <= faults'
    BY <1>0, <1>2, <1>3, NoMore DEF MirrorInv
  <2> QED BY <1>3, <2>1 DEF MirrorInv
<1>4. CASE UNCHANGED <<idea, graves, due, faults>>
           /\ (due # Nobody => pc' \in {"funnel", "judging", "mutating"})
  BY <1>1, <1>3, <1>4
<1>5. CASE PhaseRaises \/ Kill
  <2>1. faults' = faults + 1 /\ due' = Nobody /\ UNCHANGED <<idea, graves>>
    BY <1>5, NothingIsForbidden DEF PhaseRaises, Kill, PutDown, disk
  <2>2. Missing' \ {due'} \subseteq (Missing \ {due}) \cup {due}
    BY <1>1, <2>1
  <2>3. Cardinality(Missing' \ {due'}) <= faults'
    <3>1. /\ Cardinality(Missing' \ {due'}) <= Cardinality(Missing \ {due}) + 1
          /\ Cardinality(Missing' \ {due'}) \in Nat /\ Cardinality(Missing \ {due}) \in Nat
      BY <1>2, <2>2, OneMore
    <3> QED BY <1>0, <2>1, <3>1 DEF MirrorInv
  <2> QED BY <2>1, <2>3 DEF MirrorInv
<1>6. CASE Mirror
  <2>1. due \in Ids /\ due' = Nobody /\ UNCHANGED <<idea, faults>>
        /\ graves' = [graves EXCEPT ![due] = idea[due]]
    BY <1>0, <1>6 DEF Mirror
  <2>2. idea[due] # Unborn
    BY <1>6 DEF Mirror, IInv, GraveInv, Stage, Unborn
  <2>3. \A i \in Missing' : i \in Missing /\ i # due
    BY <1>0, <1>1, <2>1, <2>2
  <2> QED BY <1>3, <2>1, <2>3
\* A write that buries nothing.
<1>7. ASSUME NEW i \in Ids, NEW record, record.stage # "GRAVEYARD",
             Save(i, record), faults' = faults,
             due # Nobody => pc' \in {"funnel", "judging", "mutating"}
      PROVE  MirrorInv'
  BY <1>0, <1>1, <1>3, <1>7 DEF Save
<1>8. ASSUME NEW i \in Ids, Bury(i), due = Nobody, faults' = faults,
             pc' \in {"funnel", "judging", "mutating"}
      PROVE  MirrorInv'
  BY <1>0, <1>1, <1>3, <1>8 DEF Bury
<1>9. CASE UNCHANGED vars \/ Shutdown \/ BeginCycle \/ EndCycle
  BY <1>0, <1>4, <1>9
  DEF vars, memory, disk, Shutdown, BeginCycle, EndCycle, MirrorInv
<1>10. CASE StartBuilding \/ StartReflection \/ StartSecondWind \/ StartDreaming
  BY <1>0, <1>4, <1>10
  DEF StartBuilding, StartReflection, StartSecondWind, StartDreaming, TakeUp, disk
<1>11. CASE StopBuilding \/ EndEvaluation \/ EndMutation \/ NoWinner \/ Crown \/ EndDream
  <2>1. due = Nobody
    BY <1>11 DEF StopBuilding, EndEvaluation, EndMutation, NoWinner, Crown, EndDream, MirrorInv
  <2>2. due' = due /\ UNCHANGED <<idea, graves, faults>>
    BY <1>11, <2>1
    DEF StopBuilding, EndEvaluation, EndMutation, NoWinner, Crown, EndDream, ToEvaluation,
        PutDown, disk
  <2> QED BY <1>4, <2>1, <2>2
<1>12. CASE Round \/ CloseFunnel \/ SkipMutation \/ SaveProject
  <2>1. due = Nobody /\ due' = due /\ UNCHANGED <<idea, graves, faults>>
    BY <1>12 DEF Round, CloseFunnel, SkipMutation, SaveProject, MirrorInv, disk
  <2> QED BY <1>4, <2>1
<1>13. CASE Build \/ SaveChild \/ Resurrect
  <2>1. due = Nobody /\ faults' = faults
    BY <1>13 DEF Build, SaveChild, Resurrect, MirrorInv
  <2>2. PICK record : Bear(record) /\ record.stage # "GRAVEYARD"
    <3>1. CASE Build
      BY <3>1 DEF Build, Germinated
    <3>2. CASE SaveChild
      BY <3>2 DEF SaveChild, Germinated
    <3>3. CASE Resurrect
      BY <3>3 DEF Resurrect
    <3> QED BY <1>13, <3>1, <3>2, <3>3
  <2>3. next \in Ids
    BY <2>2, ConceptsAssumption DEF Bear, IInv, TypeInv, TypeOK, Ids
  <2> QED BY <1>7, <2>1, <2>2, <2>3 DEF Bear
<1>14. CASE Evaluate
  <2>1. PICK i \in work, p \in Ratings : Save(i, [idea[i] EXCEPT !.potential = p])
    BY <1>14 DEF Evaluate
  <2>2. due = Nobody /\ faults' = faults /\ i \in Ids /\ Stage(i) \in Competing
    BY <1>0, <1>14 DEF Evaluate, MirrorInv, IInv, HandInv
  <2>3. idea[i] \in Idea
    BY <2>2, IdeasAreRecords DEF IInv, Competing, Stage, Unborn
  <2>4. [idea[i] EXCEPT !.potential = p].stage # "GRAVEYARD"
    BY <2>2, <2>3 DEF Stage, Competing, Idea
  <2> QED BY <1>7, <2>1, <2>2, <2>4
<1>15. CASE Eliminate \/ RejectFinalist
  <2>1. PICK i \in work : Fall(i)
    BY <1>15 DEF Eliminate, RejectFinalist
  <2>2. /\ i \in Ids /\ due = Nobody /\ faults' = faults /\ pc' \in {"funnel", "judging"}
        /\ Stage(i) \in Competing
    BY <1>0, <1>15 DEF Eliminate, RejectFinalist, IInv, HandInv, Competing
  <2>3. idea[i] \in Idea
    BY <2>2, IdeasAreRecords DEF IInv, Competing, Stage, Unborn
  <2>4. [idea[i] EXCEPT !.stage = "MUTATION_POOL"].stage # "GRAVEYARD"
    BY <2>3 DEF Idea
  <2> QED BY <1>7, <1>8, <2>1, <2>2, <2>4 DEF Fall
<1>16. CASE Promote \/ Approve \/ SaveWinner
  <2>1. due = Nobody /\ faults' = faults
    BY <1>16 DEF Promote, Approve, SaveWinner, MirrorInv
  <2>2. PICK i \in Ids, stage \in Stages \ {"GRAVEYARD"} :
          Save(i, [idea[i] EXCEPT !.stage = stage]) /\ idea[i] \in Idea
    <3>1. CASE Approve
      BY <1>0, <3>1, IdeasAreRecords
      DEF Approve, IInv, HandInv, Stage, Unborn, Stages, MainLine
    <3>2. CASE SaveWinner
      BY <1>0, <3>2, IdeasAreRecords
      DEF SaveWinner, IInv, HandInv, Stage, Unborn, Stages, MainLine
    <3>3. CASE Promote
      <4>1. PICK i \in rising :
              Save(i, [idea[i] EXCEPT !.stage =
                         IF Index(Stage(i)) < Index(Funnel[round].stage)
                         THEN Funnel[round].stage ELSE Stage(i)])
        BY <3>3 DEF Promote
      <4>2. i \in Ids /\ Stage(i) \in Competing /\ round \in 1 .. Len(Funnel)
        BY <1>0, <3>3, RoundsCompete DEF Promote, IInv, HandInv, TypeInv, TypeOK
      <4>3. PICK stage \in Competing : Save(i, [idea[i] EXCEPT !.stage = stage])
        BY <4>1, <4>2, RoundsCompete
      <4>4. idea[i] \in Idea
        BY <4>2, IdeasAreRecords DEF IInv, Competing, Stage, Unborn
      <4>5. stage \in Stages \ {"GRAVEYARD"}
        BY DEF Competing, Stages, MainLine
      <4> QED BY <4>2, <4>3, <4>4, <4>5
    <3> QED BY <1>16, <3>1, <3>2, <3>3
  <2>3. [idea[i] EXCEPT !.stage = stage].stage # "GRAVEYARD"
    BY <2>2 DEF Idea
  <2> QED BY <1>7, <2>1, <2>2, <2>3
<1>17. CASE EntombParent
  BY <1>0, <1>8, <1>17 DEF EntombParent
<1> QED
  BY <1>5, <1>6, <1>9, <1>10, <1>11, <1>12, <1>13, <1>14, <1>15, <1>16, <1>17 DEF Next

\* Only a write cut short by a fault leaves a grave without its mirror, and a mirror
\* always agrees with the working copy (filesystem.py: ConceptRepository.save).
THEOREM EveryGraveHasAMirror == ASSUME ~IdsRepeat PROVE Spec => []GravesAreMirrored
<1>1. Init => MirrorInv
  <2>1. Init => Missing = {}
    BY DEF Init, Missing, Graveyard, Born
  <2> QED BY <2>1, FS_EmptySet DEF Init, MirrorInv
<1>2. IInv /\ MirrorInv => GravesAreMirrored
  <2> SUFFICES ASSUME IInv, MirrorInv
               PROVE  /\ Cardinality(Missing) <= faults + (IF due = Nobody THEN 0 ELSE 1)
                      /\ \A i \in Buried : graves[i] = idea[i]
    BY DEF GravesAreMirrored, Missing
  <2>1. \A i \in Buried : graves[i] = idea[i]
    BY DEF Buried, IInv, GraveInv
  <2>2. /\ Missing \subseteq Ids /\ faults \in Nat /\ Nobody \notin Ids
    BY ConceptsAssumption DEF Missing, Graveyard, Born, IInv, TypeInv, TypeOK, Nobody, Ids
  <2>3. IsFiniteSet(Missing \ {due})
    BY <2>2, IdsAreFinite, NoMore
  <2>4. CASE due = Nobody
    <3>1. Missing \ {due} = Missing
      BY <2>2, <2>4
    <3> QED BY <2>1, <2>2, <2>4, <3>1 DEF MirrorInv
  <2>5. CASE due # Nobody
    <3>1. Missing \subseteq (Missing \ {due}) \cup {due}
      OBVIOUS
    <3> QED BY <2>1, <2>2, <2>3, <2>5, <3>1, OneMore DEF MirrorInv
  <2> QED BY <2>4, <2>5
<1> QED BY <1>1, <1>2, MirrorsKeepUp, IdeasAreInOrder, PTL DEF Spec

-----------------------------------------------------------------------------
(* Winners and their projects. *)

Unfinished == projects \ Finished

InHand == IF pc = "handing" THEN {champion} ELSE {}

\* The day's tournament has not had its winner yet, and may.
Undecided ==
  /\ pc # "asleep"
  /\ hour < 2 \/ (hour = 2 /\ pc \in {"evaluating", "funnel", "judging", "approving"})

\* Projects come from REFLECTION alone, which a day has once, and each but the one in
\* hand is finished or was left by a fault of its own.
WinnerInv ==
  /\ pc \in {"funnel", "judging", "approving", "handing", "crowning"} => hour = 2
  /\ pc = "mutating" => hour = 3
  /\ pc \in {"handing", "crowning"} => champion \in projects
  /\ pc = "crowning" => champion \in Finished
  /\ crowned \subseteq Finished /\ Finished \subseteq projects
  /\ Cardinality(Unfinished \ InHand) <= faults
  /\ Cardinality(projects) + (IF Undecided THEN 1 ELSE 0) <= days

\* Only the winner's last save changes who is finished.
LEMMA FinishedIsFinal ==
  ASSUME IInv, ~IdsRepeat, [Next]_vars
  PROVE  /\ Finished \subseteq Finished'
         /\ Finished' \subseteq Finished \cup (IF SaveWinner THEN {champion} ELSE {})
<1>0. /\ \A i : i \in Finished <=> i \in Ids /\ idea[i].stage = "PRODUCTION_READY"
      /\ \A i : i \in Finished' <=> i \in Ids /\ idea'[i].stage = "PRODUCTION_READY"
  <2>1. Unborn.stage # "PRODUCTION_READY"
    BY DEF Unborn
  <2> QED BY <2>1 DEF Finished, Born, Stage
<1>1. CASE UNCHANGED idea
  BY <1>0, <1>1
\* A write that finishes nothing.
<1>2. ASSUME NEW i \in Ids, Stage(i) # "PRODUCTION_READY", NEW record,
             idea' = [idea EXCEPT ![i] = record]
      PROVE  /\ Finished \subseteq Finished' /\ Finished' \subseteq Finished \cup {i}
             /\ record.stage # "PRODUCTION_READY" => Finished' \subseteq Finished
  BY <1>0, <1>2 DEF IInv, TypeInv, TypeOK, Stage
<1>3. /\ work \subseteq Ids /\ rising \subseteq Ids /\ {parent, champion} \subseteq Ids \cup {Nobody}
      /\ \A i \in Ids : Stage(i) \in Stages => idea[i] \in Idea
  BY IdeasAreRecords DEF IInv, TypeInv, TypeOK, Stages, MainLine, REVIVABLE_STAGES
<1>4. CASE Build \/ SaveChild \/ Resurrect
  <2>1. PICK record : Bear(record) /\ record.stage # "PRODUCTION_READY"
    <3>1. CASE Build
      BY <3>1 DEF Build, Germinated
    <3>2. CASE SaveChild
      BY <3>2 DEF SaveChild, Germinated
    <3>3. CASE Resurrect
      BY <3>3 DEF Resurrect
    <3> QED BY <1>4, <3>1, <3>2, <3>3
  <2>2. next \in Ids
    BY <2>1, ConceptsAssumption DEF Bear, IInv, TypeInv, TypeOK, Ids
  <2>3. Stage(next) # "PRODUCTION_READY"
    <3>1. next \in Nat
      BY <2>2 DEF Ids
    <3> QED BY <2>2, <3>1 DEF IInv, BirthInv, Stage, Unborn
  <2> QED BY <1>2, <2>1, <2>2, <2>3 DEF Bear, Save
<1>5. CASE Evaluate
  <2>1. PICK i \in work, p \in Ratings : Save(i, [idea[i] EXCEPT !.potential = p])
    BY <1>5 DEF Evaluate
  <2>2. i \in Ids /\ Stage(i) \in Competing
    BY <1>3, <1>5 DEF Evaluate, IInv, HandInv
  <2>3. idea[i] \in Idea
    BY <1>3, <2>2 DEF Competing, Stages, MainLine
  <2>4. [idea[i] EXCEPT !.potential = p].stage # "PRODUCTION_READY"
    BY <2>2, <2>3 DEF Stage, Competing, Idea
  <2> QED BY <1>2, <2>1, <2>2, <2>4 DEF Save, Competing
\* A move of an idea along the lifecycle.
<1>6. ASSUME NEW i \in Ids, Stage(i) \in Competing \cup {"APPROVED", "MUTATION_POOL"},
             NEW stage \in Stages, idea' = [idea EXCEPT ![i].stage = stage]
      PROVE  /\ Finished \subseteq Finished' /\ Finished' \subseteq Finished \cup {i}
             /\ stage # "PRODUCTION_READY" => Finished' \subseteq Finished
  <2>1. idea[i] \in Idea
    BY <1>3, <1>6 DEF Competing, Stages, MainLine, REVIVABLE_STAGES
  <2>2. [idea[i] EXCEPT !.stage = stage].stage = stage
    BY <2>1 DEF Idea
  <2>3. idea' = [idea EXCEPT ![i] = [idea[i] EXCEPT !.stage = stage]]
    BY <1>6
  <2>4. Stage(i) # "PRODUCTION_READY"
    BY <1>6 DEF Competing
  <2> QED BY <1>2, <2>2, <2>3, <2>4
<1>7. CASE Eliminate \/ RejectFinalist
  <2>1. PICK i \in work : Fall(i)
    BY <1>7 DEF Eliminate, RejectFinalist
  <2>2. i \in Ids /\ Stage(i) \in Competing
    BY <1>3, <1>7 DEF Eliminate, RejectFinalist, IInv, HandInv, Competing
  <2>3. PICK stage \in {"MUTATION_POOL", "GRAVEYARD"} : idea' = [idea EXCEPT ![i].stage = stage]
    BY <2>1 DEF Fall, Save, Bury
  <2>4. stage \in Stages /\ stage # "PRODUCTION_READY"
    BY DEF Stages, REVIVABLE_STAGES
  <2> QED BY <1>6, <2>2, <2>3, <2>4
<1>8. CASE EntombParent
  <2>1. PICK i \in work : Bury(i)
    BY <1>8 DEF EntombParent
  <2>2. i \in Ids /\ Stage(i) = "MUTATION_POOL"
    BY <1>3, <1>8 DEF EntombParent, IInv, HandInv
  <2>3. "GRAVEYARD" \in Stages
    BY DEF Stages, REVIVABLE_STAGES
  <2> QED BY <1>6, <2>1, <2>2, <2>3 DEF Bury
<1>9. CASE Promote
  <2>1. PICK i \in rising :
          Save(i, [idea[i] EXCEPT !.stage =
                     IF Index(Stage(i)) < Index(Funnel[round].stage)
                     THEN Funnel[round].stage ELSE Stage(i)])
    BY <1>9 DEF Promote
  <2>2. i \in Ids /\ Stage(i) \in Competing /\ round \in 1 .. Len(Funnel)
    BY <1>3, <1>9, RoundsCompete DEF Promote, IInv, HandInv, TypeInv, TypeOK
  <2>3. PICK stage \in Competing : idea' = [idea EXCEPT ![i].stage = stage]
    BY <2>1, <2>2, RoundsCompete DEF Save
  <2>4. stage \in Stages /\ stage # "PRODUCTION_READY"
    BY DEF Competing, Stages, MainLine
  <2> QED BY <1>6, <2>2, <2>3, <2>4
<1>10. CASE Approve
  <2>1. PICK i \in work : idea' = [idea EXCEPT ![i].stage = "APPROVED"]
    BY <1>10 DEF Approve, Save
  <2>2. i \in Ids /\ Stage(i) \in Competing
    BY <1>3, <1>10 DEF Approve, IInv, HandInv, Competing
  <2>3. "APPROVED" \in Stages
    BY DEF Stages, MainLine
  <2> QED BY <1>6, <2>1, <2>2, <2>3
<1>11. CASE SaveWinner
  <2>1. champion \in Ids /\ Stage(champion) = "APPROVED"
    BY <1>3, <1>11 DEF SaveWinner, IInv, HandInv
  <2> QED BY <1>6, <1>11, <2>1 DEF SaveWinner, Save, Stages, MainLine
<1> QED
  BY <1>1, <1>4, <1>5, <1>7, <1>8, <1>9, <1>10, <1>11
  DEF Next, vars, disk, BeginCycle, EndCycle, Shutdown, PhaseRaises, Kill, Mirror, StartBuilding,
      StartReflection, StartSecondWind, StartDreaming, TakeUp, StopBuilding, EndEvaluation, Round,
      CloseFunnel, NoWinner, SaveProject, Crown, SkipMutation, EndMutation, EndDream

LEMMA WinnersKeepUp ==
  ASSUME IInv, WinnerInv, ~IdsRepeat, [Next]_vars PROVE WinnerInv'
<1>0. /\ champion \in Ids \cup {Nobody} /\ projects \subseteq Ids /\ Nobody \notin Ids
      /\ hour \in 0 .. 5
      /\ pc \in {"approving", "handing", "crowning"} => champion \in Ids
  <2>1. Nobody \notin Ids /\ Len(WorkingDay) = 5
    BY DEF Nobody, Ids, WorkingDay
  <2> QED BY <2>1 DEF IInv, TypeInv, TypeOK, HandInv
<1>1. faults \in Nat /\ days \in Nat
  BY ConceptsAssumption DEF IInv, TypeInv, TypeOK
<1>2. /\ IsFiniteSet(projects) /\ IsFiniteSet(Unfinished \ InHand)
      /\ Cardinality(projects) \in Nat /\ Cardinality(Unfinished \ InHand) \in Nat
  BY <1>0, IdsAreFinite, NoMore DEF Unfinished
<1>3. /\ Finished \subseteq Finished'
      /\ Finished' \subseteq Finished \cup (IF SaveWinner THEN {champion} ELSE {})
  BY FinishedIsFinal
<1>4. CASE SaveProject
  <2>1. /\ pc = "approving" /\ pc' = "handing" /\ champion \in Ids /\ champion' = champion
        /\ projects' = projects \cup {champion} /\ hour = 2
        /\ UNCHANGED <<hour, days, faults, crowned>> /\ ~SaveWinner
    BY <1>0, <1>4 DEF SaveProject, SaveWinner, calendar, WinnerInv
  <2>2. Cardinality(projects') <= Cardinality(projects) + 1 /\ Cardinality(projects') \in Nat
    BY <1>2, <2>1, OneMore
  <2>3. Undecided /\ ~Undecided'
    BY <2>1 DEF Undecided
  <2>4. Unfinished' \ InHand' \subseteq Unfinished \ InHand
    BY <1>3, <2>1 DEF Unfinished, InHand
  <2>5. Cardinality(Unfinished' \ InHand') <= faults'
    BY <1>1, <1>2, <2>1, <2>4, NoMore DEF WinnerInv
  <2>6. Cardinality(projects') + 0 <= days'
    BY <1>1, <1>2, <2>1, <2>2, <2>3 DEF WinnerInv
  <2>7. crowned' \subseteq Finished' /\ Finished' \subseteq projects'
    BY <1>3, <2>1 DEF WinnerInv
  <2> QED BY <2>1, <2>3, <2>5, <2>6, <2>7 DEF WinnerInv
\* Every other step leaves the projects alone, and no day is decided twice.
<1>5. ASSUME UNCHANGED projects,
             crowned' \subseteq Finished',
             Finished' \subseteq projects,
             \/ Unfinished' \ InHand' \subseteq Unfinished \ InHand /\ faults' = faults
             \/ faults' = faults + 1,
             \/ days' = days /\ (Undecided' => Undecided)
             \/ days' = days + 1 /\ pc = "asleep",
             pc' \in {"funnel", "judging", "approving", "handing", "crowning"} => hour' = 2,
             pc' = "mutating" => hour' = 3,
             pc' \in {"handing", "crowning"} => champion' \in projects,
             pc' = "crowning" => champion' \in Finished'
      PROVE  WinnerInv'
  <2>1. Cardinality(Unfinished' \ InHand') <= faults'
    <3>1. CASE Unfinished' \ InHand' \subseteq Unfinished \ InHand /\ faults' = faults
      BY <1>1, <1>2, <3>1, NoMore DEF WinnerInv
    <3>2. CASE faults' = faults + 1
      <4>1. Unfinished' \ InHand' \subseteq (Unfinished \ InHand) \cup {champion}
        BY <1>3, <1>5 DEF Unfinished, InHand
      <4>2. /\ Cardinality(Unfinished' \ InHand') <= Cardinality(Unfinished \ InHand) + 1
            /\ Cardinality(Unfinished' \ InHand') \in Nat
        BY <1>2, <4>1, OneMore
      <4> QED BY <1>1, <1>2, <3>2, <4>2 DEF WinnerInv
    <3> QED BY <1>5, <3>1, <3>2
  <2>2. Cardinality(projects') + (IF Undecided' THEN 1 ELSE 0) <= days'
    <3>1. CASE days' = days /\ (Undecided' => Undecided)
      BY <1>1, <1>2, <1>5, <3>1 DEF WinnerInv
    <3>2. CASE days' = days + 1 /\ pc = "asleep"
      BY <1>1, <1>2, <1>5, <3>2 DEF WinnerInv, Undecided
    <3> QED BY <1>5, <3>1, <3>2
  <2> QED BY <1>5, <2>1, <2>2 DEF WinnerInv
<1>6. CASE ~SaveWinner /\ UNCHANGED <<projects, crowned>> /\ pc \notin {"handing"}
           /\ faults' = faults /\ days' = days /\ pc' # "handing"
           /\ (Undecided' => Undecided)
           /\ (pc' \in {"funnel", "judging", "approving"} => hour' = 2)
           /\ (pc' = "mutating" => hour' = 3)
           /\ (pc' = "crowning" => pc = "crowning" /\ UNCHANGED <<champion, hour>>)
  <2>1. Finished' = Finished
    BY <1>3, <1>6
  <2>2. Unfinished' \ InHand' = Unfinished \ InHand
    BY <1>6, <2>1 DEF Unfinished, InHand
  <2> QED BY <1>5, <1>6, <2>1, <2>2 DEF WinnerInv
<1>7. CASE UNCHANGED vars \/ Mirror
  <2>1. UNCHANGED <<pc, hour, champion, days, faults, projects, crowned>>
    BY <1>7 DEF vars, memory, calendar, disk, Mirror
  <2>2. ~SaveWinner \/ pc' # pc
    BY DEF SaveWinner
  <2>3. Finished' = Finished
    BY <1>3, <2>1, <2>2 DEF SaveWinner
  <2> QED
    BY <1>5, <2>1, <2>3 DEF WinnerInv, Undecided, Unfinished, InHand
<1>8. CASE SaveWinner
  <2>1. /\ pc = "handing" /\ pc' = "crowning" /\ champion' = champion /\ hour = 2
        /\ champion \in projects /\ champion \in Ids
        /\ UNCHANGED <<hour, days, faults, projects, crowned>>
    BY <1>0, <1>8 DEF SaveWinner, WinnerInv, calendar
  <2>2. champion \in Finished'
    BY <1>8, <2>1 DEF SaveWinner, Save, Finished, Born, Stage, IInv, TypeInv, TypeOK, HandInv, Unborn
  <2>3. Unfinished' \ InHand' \subseteq Unfinished \ InHand
    BY <1>3, <2>1, <2>2 DEF Unfinished, InHand
  <2>4. ~Undecided'
    BY <2>1 DEF Undecided
  <2> QED BY <1>3, <1>5, <2>1, <2>2, <2>3, <2>4 DEF WinnerInv
<1>9. CASE Crown
  <2>1. /\ pc = "crowning" /\ pc' = "awake" /\ crowned' = crowned \cup {champion} /\ hour' = hour
        /\ UNCHANGED <<projects, days, faults>> /\ ~SaveWinner /\ hour = 2
        /\ champion \in Finished
    BY <1>9 DEF Crown, PutDown, calendar, SaveWinner, WinnerInv
  <2>2. Finished' = Finished
    BY <1>3, <2>1
  <2>3. Unfinished' \ InHand' = Unfinished \ InHand /\ ~Undecided'
    BY <2>1, <2>2 DEF Unfinished, InHand, Undecided
  <2> QED BY <1>5, <2>1, <2>2, <2>3 DEF WinnerInv
<1>10. CASE PhaseRaises \/ Kill
  <2>1. /\ faults' = faults + 1 /\ days' = days /\ UNCHANGED <<projects, crowned>>
        /\ pc' \in {"awake", "asleep"} /\ (pc' = "awake" => hour' = hour /\ pc # "awake")
    BY <1>10, NothingIsForbidden DEF PhaseRaises, Kill, PutDown, disk, calendar
  <2>2. ~SaveWinner
    BY <2>1 DEF SaveWinner
  <2>3. pc # "asleep"
    BY <1>10 DEF PhaseRaises, Kill
  <2>4. Undecided' => Undecided
    BY <2>1, <2>3 DEF Undecided
  <2> QED BY <1>3, <1>5, <2>1, <2>2, <2>4 DEF WinnerInv
<1>11. CASE BeginCycle
  <2>1. /\ pc = "asleep" /\ pc' = "awake" /\ days' = days + 1
        /\ UNCHANGED <<projects, crowned, faults>> /\ ~SaveWinner
    BY <1>11 DEF BeginCycle, disk, SaveWinner
  <2>2. Finished' = Finished
    BY <1>3, <2>1
  <2>3. Unfinished' \ InHand' = Unfinished \ InHand
    BY <2>1, <2>2 DEF Unfinished, InHand
  <2> QED BY <1>5, <2>1, <2>2, <2>3 DEF WinnerInv
<1>12. CASE EndCycle \/ Shutdown
  BY <1>6, <1>12 DEF EndCycle, Shutdown, disk, memory, SaveWinner, Undecided
<1>13. CASE StartBuilding \/ StartReflection \/ StartSecondWind \/ StartDreaming
  BY <1>0, <1>6, <1>13
  DEF StartBuilding, StartReflection, StartSecondWind, StartDreaming, TakeUp, disk, SaveWinner,
      Undecided
<1>14. CASE StopBuilding
  <2>1. hour \in {1, 4}
    BY <1>14 DEF StopBuilding, IInv, HourInv
  <2>2. /\ pc = "building" /\ pc' \in {"awake", "evaluating"} /\ UNCHANGED <<hour, days>>
        /\ UNCHANGED <<projects, crowned, faults>>
    BY <1>14 DEF StopBuilding, ToEvaluation, PutDown, calendar, disk
  <2>3. Undecided' => Undecided
    BY <2>1, <2>2 DEF Undecided
  <2>4. ~SaveWinner
    BY <2>2 DEF SaveWinner
  <2> QED BY <1>6, <2>2, <2>3, <2>4
<1>15. CASE EndEvaluation
  <2>1. /\ pc = "evaluating" /\ pc' \in {"awake", "funnel"} /\ UNCHANGED <<hour, days>>
        /\ UNCHANGED <<projects, crowned, faults>>
        /\ pc' = "funnel" => WorkingDay[hour] = "REFLECTION"
        /\ pc' = "awake" => WorkingDay[hour] # "REFLECTION"
    BY <1>15 DEF EndEvaluation, PutDown, calendar, disk
  <2>2. hour >= 2
    BY <2>1 DEF IInv, HourInv
  <2>3. hour \in {2, 3, 4, 5}
    BY <1>0, <2>2
  <2>4. WorkingDay[hour] = "REFLECTION" <=> hour = 2
    BY <2>3 DEF WorkingDay
  <2>5. Undecided' => Undecided
    BY <2>1, <2>3, <2>4 DEF Undecided
  <2>6. ~SaveWinner
    BY <2>1 DEF SaveWinner
  <2> QED BY <1>6, <2>1, <2>4, <2>5, <2>6
<1>16. CASE NoWinner \/ EndDream
  <2>1. hour >= 2
    BY <1>16 DEF NoWinner, EndDream, IInv, HourInv
  <2> QED
    BY <1>0, <1>6, <1>16, <2>1
    DEF NoWinner, EndDream, PutDown, calendar, disk, SaveWinner, Undecided
<1>17. CASE EndMutation
  <2>1. hour = 3
    BY <1>17 DEF EndMutation, WinnerInv
  <2> QED
    BY <1>6, <1>17, <2>1
    DEF EndMutation, ToEvaluation, PutDown, calendar, disk, SaveWinner, Undecided
<1>18. CASE \/ Build \/ Evaluate \/ Round \/ Eliminate \/ Promote \/ CloseFunnel \/ RejectFinalist
            \/ Approve \/ SkipMutation \/ EntombParent \/ SaveChild \/ Resurrect
  <2>1. /\ UNCHANGED <<projects, crowned, hour, days, faults>>
        /\ pc \in {"building", "evaluating", "funnel", "judging", "mutating", "dreaming"}
        /\ \/ pc' = pc
           \/ pc = "funnel" /\ pc' = "judging"
           \/ pc = "judging" /\ pc' = "approving"
    BY <1>18
    DEF Build, Evaluate, Round, Eliminate, Promote, CloseFunnel, RejectFinalist, Approve,
        SkipMutation, EntombParent, SaveChild, Resurrect, calendar, disk
  <2>2. ~SaveWinner
    BY <2>1 DEF SaveWinner
  <2>3. pc' \in {"funnel", "judging", "approving"} => hour' = 2
    BY <2>1 DEF WinnerInv
  <2>4. Undecided' => Undecided
    BY <2>1 DEF Undecided
  <2>5. pc' = "mutating" => hour' = 3
    BY <2>1 DEF WinnerInv
  <2> QED BY <1>6, <2>1, <2>2, <2>3, <2>4, <2>5
<1> QED
  BY <1>4, <1>7, <1>8, <1>9, <1>10, <1>11, <1>12, <1>13, <1>14, <1>15, <1>16, <1>17, <1>18 DEF Next

\* A winner named by a tournament has its project and is production-ready, a project
\* without a finished concept is the work of a fault or in progress, and no day has
\* more than one (evaluating.py, competing.py, production.py).
THEOREM EveryWinnerIsProduced == ASSUME ~IdsRepeat PROVE Spec => []WinnersAreProduced
<1>1. Init => WinnerInv
  <2>1. Init => Finished = {} /\ projects = {} /\ ~Undecided /\ Unfinished \ InHand = {}
    BY DEF Init, Finished, Born, Undecided, Unfinished
  <2> QED BY <2>1, FS_EmptySet DEF Init, WinnerInv
<1>2. IInv /\ WinnerInv => WinnersAreProduced
  <2> SUFFICES ASSUME IInv, WinnerInv PROVE WinnersAreProduced
    OBVIOUS
  <2>1. IsFiniteSet(projects) /\ faults \in Nat /\ days \in Nat
    <3>1. projects \subseteq Ids
      BY DEF IInv, TypeInv, TypeOK
    <3>2. faults \in Nat /\ days \in Nat
      BY ConceptsAssumption DEF IInv, TypeInv, TypeOK
    <3> QED BY <3>1, <3>2, IdsAreFinite, NoMore
  <2>2. /\ IsFiniteSet(Unfinished \ InHand) /\ Cardinality(Unfinished \ InHand) \in Nat
        /\ Cardinality(projects) \in Nat
    BY <2>1, NoMore DEF Unfinished
  <2>3. Cardinality(projects \ Finished) <= faults + (IF pc = "handing" THEN 1 ELSE 0)
    <3>1. CASE pc = "handing"
      <4>1. Unfinished \subseteq (Unfinished \ InHand) \cup {champion}
        BY <3>1 DEF InHand
      <4> QED BY <2>1, <2>2, <3>1, <4>1, OneMore DEF WinnerInv, Unfinished
    <3>2. CASE pc # "handing"
      <4>1. Unfinished \ InHand = projects \ Finished
        BY <3>2 DEF InHand, Unfinished
      <4> QED BY <2>1, <2>2, <3>2, <4>1 DEF WinnerInv
    <3> QED BY <3>1, <3>2
  <2>4. Cardinality(projects) <= days
    BY <2>1, <2>2 DEF WinnerInv
  <2> QED BY <2>3, <2>4 DEF WinnerInv, WinnersAreProduced
<1> QED BY <1>1, <1>2, WinnersKeepUp, IdeasAreInOrder, PTL DEF Spec

=============================================================================
