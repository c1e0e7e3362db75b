-------------------------- MODULE ProductionProofs --------------------------
(***************************************************************************)
(* A winner that runtime.json reads out is backed by everything it stands  *)
(* for, and every stored project is whole, for any agents disabled or      *)
(* silent, any scores, any number of cycles, dates and faults, and         *)
(* wherever the process is killed, as long as every process draws ids of   *)
(* its own: with those of another it writes over that one's files.         *)
(*                                                                         *)
(* The invariant says of every file still owed what writing it will do.    *)
(* With Final, the files as they will be once nothing is owed, the         *)
(* approval promises the whole of the outcome at the moment it decides on  *)
(* it; no write changes Final, so when the last is done the promise is     *)
(* kept, and no later phase owes a file that would break it.               *)
(*                                                                         *)
(* The manifest is the last write of an approval and the report the last   *)
(* of a day, so the files of an older day say all that will ever be said   *)
(* of it: with that, every write is a step of Publishing, or none.         *)
(***************************************************************************)
EXTENDS ProductionProperties, ListProofs, SequenceTheorems

-----------------------------------------------------------------------------
(* The files, and those that are owed. *)

Kinds == {"concepts", "projects", "canon", "tournaments"}

\* A place is as long as its kind asks.
Shaped(q) ==
  /\ q[1] \in Kinds => q = <<q[1], q[2]>>
  /\ q[1] = "handoff" => q = <<q[1], q[2], q[3]>>
  /\ q[1] = "outputs" => q = <<q[1], q[2], q[3], q[4]>>

Items(s) == {s[k] : k \in 1 .. Len(s)}

\* No two writes go to the same place.
Tidy(s) ==
  /\ s \in Seq(Items(s))
  /\ \A k, m \in 1 .. Len(s) : s[k].place = s[m].place => k = m

\* The files d once these writes are done; those of now.
Settled(d, writes) ==
  [q \in DOMAIN d \cup {w.place : w \in writes} |->
     IF \E w \in writes : w.place = q THEN (CHOOSE w \in writes : w.place = q).value ELSE d[q]]

Final == Settled(disk, Items(todo))

Owned(i) == \E id \in Stored("projects") : disk[<<"projects", id>>].concept = i

Texts == {"premise", "world_bible", "characters", "pitch", "synopsis"}

Undeveloped(artifacts) ==
  DOMAIN artifacts \subseteq {"premise"} /\ \A key \in DOMAIN artifacts : artifacts[key] = <<"premise">>

Whole(artifacts) == Texts \subseteq DOMAIN artifacts /\ Times("consequences", artifacts["premise"]) <= 1

IsIdea(c) ==
  /\ c = [stage |-> c.stage, cycle |-> c.cycle, title |-> c.title, strong |-> c.strong,
          artifacts |-> c.artifacts]
  /\ c.strong \in Strengths /\ c.cycle \in 0 .. cycle

\* Has the REFLECTION of the cycle begun?
Reflecting == "REFLECTION" \in visited /\ ~(phase = "REFLECTION" /\ step = "start")

StoreInv ==
  /\ cycle \in Nat /\ disk = [q \in DOMAIN disk |-> disk[q]] /\ \A q \in DOMAIN disk : Shaped(q)
  /\ \A kind \in {"concepts", "projects"} :
       Cardinality(Stored(kind)) \in Nat /\ Stored(kind) = 1 .. Cardinality(Stored(kind))
  /\ \A i \in Stored("concepts") :
       /\ IsIdea(Concept(i))
       /\ Concept(i).stage = "CONCEPT" => Undeveloped(Concept(i).artifacts)
       /\ Concept(i).cycle = cycle /\ ~Reflecting => Concept(i).stage = "CONCEPT"
  /\ \A id \in Stored("projects") : disk[<<"projects", id>>].concept \in Stored("concepts")

Idling == {"between", "asleep", "down"}
Working == {"CREATION", "REFLECTION", "EXPLORATION", "CONSOLIDATION", "DREAMING", "DEEP_SLEEP"}

PhaseInv ==
  /\ phase \in Idling \cup Working
  /\ phase \in Idling => step = "start"
  /\ step = "start" => todo = <<>>
  /\ phase = "REFLECTION" => /\ "REFLECTION" \in visited
                             /\ step \in {"start", "judge", "develop", "approve", "announce", "done"}
  /\ phase # "REFLECTION" => step \in {"start", "done"}

-----------------------------------------------------------------------------
(* What a phase may owe. *)

\* A new idea, the first write of its phase.
Newborn(w) ==
  /\ w = todo[1] /\ w.place = <<"concepts", Cardinality(Stored("concepts")) + 1>>
  /\ IsIdea(w.value) /\ w.value.cycle = cycle /\ w.value.stage = "CONCEPT"
  /\ Undeveloped(w.value.artifacts)

\* An idea nobody developed, at another stage.
Moved(w) ==
  LET i == w.place[2] IN
  /\ i \in Stored("concepts") /\ ~Owned(i) /\ w.value.stage # "CONCEPT"
  /\ w.value = [Concept(i) EXCEPT !.stage = w.value.stage]

\* The winner's project, the first write of the approval.
Promoted(w) ==
  /\ w = todo[1] /\ w.place = <<"projects", hand.project>>
  /\ hand.project = Cardinality(Stored("projects")) + 1
  /\ w.value.concept = hand.winner /\ ~Owned(hand.winner)
  /\ Whole(w.value.artifacts) /\ w.value.artifacts = Concept(hand.winner).artifacts

\* What the winner's concept becomes, and a hand-off an engine asked for.
Crowned(w) ==
  /\ w.place[2] = hand.winner
  /\ w.value = [Concept(hand.winner) EXCEPT !.stage = "PRODUCTION_READY"]
HandedOff(w) ==
  w.place[2] = hand.project /\ w.place[3] \in Final[<<"projects", hand.project>>].engines

Report(q) == q[1] = "outputs" /\ q[4] = "runtime/runtime.json"
Package(q) == q[1] = "outputs" /\ q[4] = "winner/execution_manifest.json"
Learning == {"learning/learning.json", "learning/dream.json"}

Owes(w) ==
  LET kind == w.place[1] IN
  /\ Shaped(w.place)
  /\ kind = "outputs" => w.place[2] = folder /\ w.place[3] = cycle
  /\ kind = "tournaments" => w.place[2] = cycle
  /\ Report(w.place) => phase = "DEEP_SLEEP" /\ w.value = outcome
  /\ Package(w.place) => phase = "REFLECTION" /\ step = "announce" /\ w = todo[Len(todo)]
  /\ phase = "CREATION" => kind \in {"concepts", "outputs"}
  /\ phase = "EXPLORATION" => kind = "concepts"
  /\ phase \in {"CREATION", "EXPLORATION"} /\ kind = "concepts" => Newborn(w)
  /\ phase = "REFLECTION" /\ step \in {"judge", "develop", "done"} =>
       kind \in {"concepts", "outputs", "tournaments"} /\ (kind = "concepts" => Moved(w))
  /\ phase = "REFLECTION" /\ step = "approve" =>
       w.place = <<"concepts", hand>> /\ IsIdea(w.value) /\ w.value.cycle = Concept(hand).cycle
  /\ phase = "REFLECTION" /\ step = "announce" =>
       /\ kind \in {"projects", "concepts", "canon", "handoff", "tournaments", "outputs"}
       /\ (kind = "projects" => Promoted(w)) /\ (kind = "concepts" => Crowned(w))
       /\ kind = "handoff" => HandedOff(w)
  /\ phase \in {"CONSOLIDATION", "DREAMING"} => kind = "outputs" /\ w.place[4] \in Learning
  /\ phase = "DEEP_SLEEP" => Report(w.place)

TodoInv == Tidy(todo) /\ \A w \in Items(todo) : Owes(w)

-----------------------------------------------------------------------------
(* What an outcome promises. *)

PackagePaths ==
  {"winner/concept.md", "winner/premise.md", "winner/pitch.md", "winner/synopsis.md",
   "winner/world_bible.md", "winner/characters.md", "genome/creative_genome.yaml",
   "winner/evaluation.json", "winner/execution_manifest.json"}

Tournaments(date, c) == {<<"tournaments", c>>, <<"outputs", date, c, "tournament/tournament.json">>}

\* What must be found among the files d, by cycle and date folder.
Tells(d, told, date, c) ==
  LET p == d[<<"projects", told.project>>] IN
  /\ {<<"projects", told.project>>, <<"canon", told.project>>, <<"concepts", told.winner>>}
       \cup Tournaments(date, c) \subseteq DOMAIN d
  /\ p.concept = told.winner /\ p.title = told.title /\ p.cycle = c
  /\ d[<<"concepts", told.winner>>].stage = "PRODUCTION_READY"
  /\ \A q \in Tournaments(date, c) : d[q] = Tournament(told.winner, TRUE)
  /\ HandoffEnabled => \A e \in p.engines : <<"handoff", told.project, e>> \in DOMAIN d
  /\ \A file \in ToSet(PackageFiles(told.winner, p.artifacts, told.project, p)) :
       /\ <<"outputs", date, c, file[1]>> \in DOMAIN d
       /\ d[<<"outputs", date, c, file[1]>>] = file[2]

\* What the finalists and the winner are, while REFLECTION holds them.
Unspoilt(i) == i \in Stored("concepts") /\ ~Owned(i) /\ Undeveloped(Concept(i).artifacts)

HandInv ==
  phase = "REFLECTION" =>
    /\ step = "judge" => \A i \in hand : Unspoilt(i)
    /\ step = "develop" => Unspoilt(hand) /\ Final[<<"concepts", hand>>].stage = "APPROVED"
    /\ step = "approve" =>
         /\ hand \in Stored("concepts") /\ ~Owned(hand)
         /\ Final[<<"concepts", hand>>].stage = "APPROVED" /\ Whole(Final[<<"concepts", hand>>].artifacts)
    /\ step = "announce" =>
         /\ hand.winner \in Stored("concepts") /\ Tells(Final, hand, folder, cycle)
         /\ Concept(hand.winner).stage \in {"APPROVED", "PRODUCTION_READY"}

OutcomeInv ==
  outcome.winner # Nobody /\ phase \notin {"asleep", "down"} =>
    /\ Tells(disk, outcome, folder, cycle) /\ phase # "CREATION" /\ "REFLECTION" \in visited
    /\ phase = "REFLECTION" => step = "done" /\ todo = <<>>

\* The runtime.json of the cycle is the last file of its day.
Closed == phase \in {"asleep", "down"} \/ (phase = "DEEP_SLEEP" /\ step = "done" /\ todo = <<>>)

ReportInv ==
  \A at \in DOMAIN disk : Report(at) =>
    /\ at[3] \in 0 .. cycle /\ (at[3] = cycle => Closed)
    /\ disk[at].winner # Nobody => Tells(disk, disk[at], at[2], at[3])

IInv == StoreInv /\ PhaseInv /\ TodoInv /\ HandInv /\ OutcomeInv /\ ReportInv /\ ProjectsAreWhole

-----------------------------------------------------------------------------
(* Lists of writes. *)

LEMMA NoneIsTidy == Tidy(<<>>) /\ Items(<<>>) = {} /\ Len(<<>>) = 0
<1>1. Items(<<>>) = {}
  BY DEF Items
<1> QED BY <1>1 DEF Tidy

LEMMA OneIsTidy ==
  ASSUME NEW w PROVE Tidy(<<w>>) /\ Items(<<w>>) = {w}
<1>1. Len(<<w>>) = 1 /\ <<w>>[1] = w /\ 1 .. 1 = {1}
  OBVIOUS
<1>2. Items(<<w>>) = {w}
  BY <1>1 DEF Items
<1>3. <<w>> \in Seq({w})
  OBVIOUS
<1> QED BY <1>1, <1>2, <1>3 DEF Tidy

LEMMA ItemsAreApart ==
  ASSUME NEW s, Tidy(s)
  PROVE  /\ \A v, w \in Items(s) : v.place = w.place => v = w
         /\ s # <<>> => s[1] \in Items(s) /\ Len(s) \in Nat \ {0}
         /\ s = <<>> => Items(s) = {}
<1>1. s \in Seq(Items(s))
  BY DEF Tidy
<1>2. \A v, w \in Items(s) : v.place = w.place => v = w
  BY DEF Tidy, Items
<1>3. s # <<>> => s[1] \in Items(s) /\ Len(s) \in Nat \ {0}
  BY <1>1
<1>4. s = <<>> => Items(s) = {}
  BY NoneIsTidy
<1> QED BY <1>2, <1>3, <1>4

LEMMA JoinsAreTidy ==
  ASSUME NEW s, NEW t, Tidy(s), Tidy(t),
         \A v \in Items(s), w \in Items(t) : v.place # w.place
  PROVE  /\ Tidy(s \o t) /\ Items(s \o t) = Items(s) \cup Items(t)
         /\ s # <<>> => s \o t # <<>> /\ (s \o t)[1] = s[1]
<1> DEFINE U == Items(s) \cup Items(t)
           u == s \o t
<1>1. s \in Seq(U) /\ t \in Seq(U)
  BY SeqMonotonic DEF Tidy
<1> HIDE DEF U
<1>2. /\ u \in Seq(U) /\ Len(u) = Len(s) + Len(t) /\ Len(s) \in Nat /\ Len(t) \in Nat
      /\ \A i \in 1 .. Len(s) : u[i] = s[i]
      /\ \A i \in 1 .. Len(t) : u[Len(s) + i] = t[i]
  BY <1>1, JoinedInOrder
<1> HIDE DEF u
<1>3. \A i \in 1 .. Len(u) : i \in 1 .. Len(s) \/ \E j \in 1 .. Len(t) : i = Len(s) + j
  <2> TAKE i \in 1 .. Len(u)
  <2>1. i \in 1 .. Len(s) \/ (i - Len(s) \in 1 .. Len(t) /\ i = Len(s) + (i - Len(s)))
    BY <1>2
  <2> QED BY <2>1
<1>4. Items(u) = U
  <2>1. ASSUME NEW w \in Items(u) PROVE w \in U
    <3>1. PICK i \in 1 .. Len(u) : w = u[i]
      BY <2>1 DEF Items
    <3> QED BY <1>2, <3>1
  <2>2. ASSUME NEW i \in 1 .. Len(s) PROVE s[i] \in Items(u)
    <3>1. i \in 1 .. Len(u)
      BY <1>2
    <3> QED BY <1>2, <3>1 DEF Items
  <2>3. ASSUME NEW i \in 1 .. Len(t) PROVE t[i] \in Items(u)
    <3>1. Len(s) + i \in 1 .. Len(u)
      BY <1>2
    <3> QED BY <1>2, <3>1 DEF Items
  <2> QED BY <2>1, <2>2, <2>3 DEF U, Items
<1>5. ASSUME NEW k \in 1 .. Len(u), NEW m \in 1 .. Len(u), u[k].place = u[m].place PROVE k = m
  <2>1. \A i \in 1 .. Len(s) : s[i] \in Items(s)
    BY DEF Items
  <2>2. \A i \in 1 .. Len(t) : t[i] \in Items(t)
    BY DEF Items
  <2>3. CASE k \in 1 .. Len(s) /\ m \in 1 .. Len(s)
    BY <1>2, <1>5, <2>3 DEF Tidy
  <2>4. CASE \E i \in 1 .. Len(t) : k = Len(s) + i
    <3>1. PICK i \in 1 .. Len(t) : k = Len(s) + i
      BY <2>4
    <3>2. CASE m \in 1 .. Len(s)
      BY <1>2, <1>5, <2>1, <2>2, <3>1, <3>2
    <3>3. CASE \E j \in 1 .. Len(t) : m = Len(s) + j
      <4>1. PICK j \in 1 .. Len(t) : m = Len(s) + j
        BY <3>3
      <4>2. t[i].place = t[j].place
        BY <1>2, <1>5, <3>1, <4>1
      <4> QED BY <3>1, <4>1, <4>2 DEF Tidy
    <3> QED BY <1>3, <3>2, <3>3
  <2>5. CASE k \in 1 .. Len(s) /\ \E j \in 1 .. Len(t) : m = Len(s) + j
    BY <1>2, <1>5, <2>1, <2>2, <2>5
  <2> QED BY <1>3, <2>3, <2>4, <2>5
<1>6. Tidy(u)
  BY <1>2, <1>4, <1>5 DEF Tidy
<1>7. s # <<>> => u # <<>> /\ u[1] = s[1]
  <2>1. s # <<>> => 1 \in 1 .. Len(s) /\ Len(s) > 0
    BY <1>1
  <2>2. u = <<>> => Len(u) = 0
    OBVIOUS
  <2> QED BY <1>2, <2>1, <2>2
<1> QED BY <1>4, <1>6, <1>7 DEF U, u

\* The last of two lists is the last of the second.
LastOfJoin(s, t) == (s \o t)[Len(s \o t)] = t[Len(t)]

LEMMA JoinsEndLate ==
  ASSUME NEW s, NEW t, Tidy(s), Tidy(t), Len(t) \in Nat \ {0}
  PROVE  LastOfJoin(s, t)
<1>1. PICK U : U = Items(s) \cup Items(t)
  OBVIOUS
<1>2. s \in Seq(U) /\ t \in Seq(U)
  <2>1. s \in Seq(Items(s)) /\ t \in Seq(Items(t))
    BY DEF Tidy
  <2>2. Items(s) \subseteq U /\ Items(t) \subseteq U
    BY <1>1
  <2> QED BY <2>1, <2>2, SeqMonotonic
<1>3. /\ Len(s \o t) = Len(s) + Len(t) /\ \A i \in 1 .. Len(t) : (s \o t)[Len(s) + i] = t[i]
  BY <1>2, JoinedInOrder
<1> QED BY <1>3 DEF LastOfJoin

LEMMA SetsAreTidy ==
  ASSUME NEW T, IsFiniteSet(T), \A v, w \in T : v.place = w.place => v = w
  PROVE  Tidy(SetToSeq(T)) /\ Items(SetToSeq(T)) = T
<1> DEFINE n == Cardinality(T)
           f == SetToSeq(T)
<1>1. n \in Nat /\ \E g \in [1 .. n -> T] : IsInjective(g)
  BY FS_CardinalityType DEF ExistsBijection, Bijection, Injection
<1>2. f \in [1 .. n -> T] /\ IsInjective(f)
  BY <1>1 DEF SetToSeq
<1>3. IsFiniteSet(1 .. n) /\ Cardinality(1 .. n) = n
  BY <1>1, FS_Interval
<1>4. f \in Surjection(1 .. n, T)
  BY <1>2, <1>3, FS_Injection DEF Injection
<1>5. f \in Seq(T) /\ Len(f) = n
  BY <1>1, <1>2, FunctionsAreLists
<1> HIDE DEF f, n
<1>6. \A x \in T : \E k \in 1 .. n : f[k] = x
  BY <1>4 DEF Surjection
<1>7. Items(f) = T
  BY <1>2, <1>5, <1>6 DEF Items
<1>8. \A k, m \in 1 .. Len(f) : f[k].place = f[m].place => k = m
  BY <1>1, <1>2, <1>5 DEF IsInjective
<1> QED BY <1>5, <1>7, <1>8 DEF f, Tidy

-----------------------------------------------------------------------------
(* Writing. *)

PlacesApart(writes) == \A v, w \in writes : v.place = w.place => v = w

LEMMA SettledFiles ==
  ASSUME NEW d, NEW writes
  PROVE  DOMAIN Settled(d, writes) = DOMAIN d \cup {w.place : w \in writes}
BY DEF Settled

LEMMA SettledAt ==
  ASSUME NEW d, NEW writes, PlacesApart(writes), NEW w \in writes
  PROVE  Settled(d, writes)[w.place] = w.value
<1>1. (CHOOSE v \in writes : v.place = w.place) = w
  BY DEF PlacesApart
<1>2. w.place \in DOMAIN d \cup {v.place : v \in writes}
  OBVIOUS
<1> QED BY <1>1, <1>2 DEF Settled

LEMMA SettledElsewhere ==
  ASSUME NEW d, NEW writes, NEW q \in DOMAIN d, \A w \in writes : w.place # q
  PROVE  Settled(d, writes)[q] = d[q]
BY DEF Settled

LEMMA SettlingIsSteady ==
  ASSUME NEW d, NEW writes, PlacesApart(writes), NEW w \in writes, NEW e,
         DOMAIN e = DOMAIN d \cup {w.place}, e[w.place] = w.value,
         \A q \in DOMAIN d : q # w.place => e[q] = d[q]
  PROVE  Settled(e, writes \ {w}) = Settled(d, writes)
<1> DEFINE rest == writes \ {w}
<1>0. PlacesApart(rest) /\ rest \subseteq writes /\ writes = rest \cup {w} /\ w \notin rest
  BY DEF PlacesApart
<1> HIDE DEF rest
<1>1. DOMAIN e \cup {v.place : v \in rest} = DOMAIN d \cup {v.place : v \in writes}
  BY <1>0
<1>2. ASSUME NEW q \in DOMAIN d \cup {v.place : v \in writes}
      PROVE  Settled(e, rest)[q] = Settled(d, writes)[q]
  <2>1. CASE q = w.place
    <3>1. \A v \in rest : v.place # q
      BY <1>0, <2>1 DEF PlacesApart
    <3>2. q \in DOMAIN e /\ e[q] = w.value
      BY <2>1
    <3>3. Settled(e, rest)[q] = e[q]
      BY <3>1, <3>2, SettledElsewhere
    <3>4. Settled(d, writes)[q] = w.value
      BY <2>1, SettledAt
    <3> QED BY <3>2, <3>3, <3>4
  <2>2. CASE \E v \in rest : v.place = q
    <3>1. PICK v \in rest : v.place = q
      BY <2>2
    <3>2. Settled(e, rest)[q] = v.value
      BY <1>0, <3>1, SettledAt
    <3>3. Settled(d, writes)[q] = v.value
      BY <1>0, <3>1, SettledAt
    <3> QED BY <3>2, <3>3
  <2>3. CASE q # w.place /\ \A v \in rest : v.place # q
    <3>1. q \in DOMAIN d /\ q \in DOMAIN e /\ e[q] = d[q] /\ \A v \in writes : v.place # q
      BY <1>0, <2>3
    <3>2. Settled(e, rest)[q] = e[q]
      BY <2>3, <3>1, SettledElsewhere
    <3>3. Settled(d, writes)[q] = d[q]
      BY <3>1, SettledElsewhere
    <3> QED BY <3>1, <3>2, <3>3
  <2> QED BY <2>1, <2>2, <2>3
<1>3. /\ Settled(e, rest) = [q \in DOMAIN d \cup {v.place : v \in writes} |-> Settled(e, rest)[q]]
      /\ Settled(d, writes) = [q \in DOMAIN d \cup {v.place : v \in writes} |-> Settled(d, writes)[q]]
  BY <1>1 DEF Settled
<1>4. Settled(e, rest) = Settled(d, writes)
  BY <1>2, <1>3
<1> QED BY <1>4 DEF rest

LEMMA NothingOwed ==
  ASSUME NEW d, d = [q \in DOMAIN d |-> d[q]]
  PROVE  Settled(d, {}) = d
<1>1. Settled(d, {}) = [q \in DOMAIN d |-> d[q]]
  BY DEF Settled
<1> QED BY <1>1

\* What the next write does.
LEMMA Writing ==
  ASSUME WriteNext, TodoInv
  PROVE  /\ todo[1] \in Items(todo) /\ Owes(todo[1])
         /\ DOMAIN disk' = DOMAIN disk \cup {todo[1].place}
         /\ disk' = [q \in DOMAIN disk' |-> disk'[q]] /\ disk'[todo[1].place] = todo[1].value
         /\ \A q \in DOMAIN disk : q # todo[1].place => disk'[q] = disk[q]
         /\ Tidy(todo') /\ Items(todo') = Items(todo) \ {todo[1]}
         /\ PlacesApart(Items(todo)) /\ Final' = Final
         /\ todo' # <<>> => todo'[Len(todo')] = todo[Len(todo)]
         /\ todo[1] = todo[Len(todo)] => todo' = <<>>
<1>1. todo # <<>> /\ todo' = Tail(todo) /\ Head(todo) = todo[1] /\ todo \in Seq(Items(todo))
  BY DEF WriteNext, TodoInv, Tidy
<1>2. PlacesApart(Items(todo)) /\ todo[1] \in Items(todo)
  BY <1>1, ItemsAreApart DEF TodoInv, PlacesApart
<1>3. PICK w : w = todo[1]
  OBVIOUS
<1>4. disk' = [q \in DOMAIN disk \cup {w.place} |-> IF q = w.place THEN w.value ELSE disk[q]]
  BY <1>1, <1>3 DEF WriteNext, With
<1>5. PICK s : s = todo
  OBVIOUS
<1>6. PICK t : t = Tail(s)
  OBVIOUS
<1>7. /\ s \in Seq(Items(s)) /\ t \in Seq(Items(s)) /\ 1 \in 1 .. Len(s) /\ Len(t) = Len(s) - 1
      /\ \A i \in 1 .. Len(s) - 1 : t[i] = s[i + 1]
      /\ Len(s) \in Nat
  BY <1>1, <1>5, <1>6, TailShifts
<1>8. \A k, m \in 1 .. Len(s) : s[k].place = s[m].place => k = m
  BY <1>5 DEF TodoInv, Tidy
<1>9. Items(t) = Items(s) \ {s[1]}
  <2>1. ASSUME NEW i \in 1 .. Len(t) PROVE t[i] \in Items(s) \ {s[1]}
    <3>1. i + 1 \in 1 .. Len(s) /\ i + 1 # 1 /\ t[i] = s[i + 1]
      BY <1>7
    <3>2. s[i + 1] # s[1]
      BY <1>7, <1>8, <3>1
    <3> QED BY <3>1, <3>2 DEF Items
  <2>2. ASSUME NEW i \in 1 .. Len(s), s[i] # s[1] PROVE s[i] \in Items(t)
    <3>1. i - 1 \in 1 .. Len(t) /\ i - 1 \in 1 .. Len(s) - 1 /\ (i - 1) + 1 = i
      BY <1>7, <2>2
    <3>2. t[i - 1] = s[i]
      BY <1>7, <3>1
    <3> QED BY <3>1, <3>2 DEF Items
  <2> QED BY <2>1, <2>2 DEF Items
<1>10. Tidy(t)
  <2>1. \A i \in 1 .. Len(t) : t[i] \in Items(t)
    BY DEF Items
  <2>2. t \in Seq(Items(t))
    BY <1>7, <2>1
  <2>3. \A k, m \in 1 .. Len(t) : t[k].place = t[m].place => k = m
    <3> TAKE k, m \in 1 .. Len(t)
    <3>1. k + 1 \in 1 .. Len(s) /\ m + 1 \in 1 .. Len(s) /\ t[k] = s[k + 1] /\ t[m] = s[m + 1]
      BY <1>7
    <3>2. s[k + 1].place = s[m + 1].place => k + 1 = m + 1
      BY <1>8, <3>1
    <3> QED BY <1>7, <3>1, <3>2
  <2> QED BY <2>2, <2>3 DEF Tidy
<1>11. Items(todo') = Items(todo) \ {w} /\ Tidy(todo')
  BY <1>1, <1>3, <1>5, <1>6, <1>9, <1>10
<1>14. /\ DOMAIN disk' = DOMAIN disk \cup {w.place}
       /\ disk' = [q \in DOMAIN disk' |-> disk'[q]] /\ disk'[w.place] = w.value
       /\ \A q \in DOMAIN disk : q # w.place => disk'[q] = disk[q]
  BY <1>4
<1>12. Final' = Final
  <2>1. PICK writes : writes = Items(todo)
    OBVIOUS
  <2>2. PICK d : d = disk
    OBVIOUS
  <2>3. PICK e : e = disk'
    OBVIOUS
  <2>4. Settled(e, writes \ {w}) = Settled(d, writes)
    <3>1. DOMAIN e = DOMAIN d \cup {w.place} /\ e[w.place] = w.value /\ \A q \in DOMAIN d : q # w.place => e[q] = d[q]
      BY <1>14, <2>2, <2>3
    <3>2. PlacesApart(writes) /\ w \in writes
      BY <1>2, <1>3, <2>1
    <3> QED BY <3>1, <3>2, SettlingIsSteady
  <2> QED BY <1>11, <2>1, <2>2, <2>3, <2>4 DEF Final
<1>13. Owes(todo[1])
  BY <1>2 DEF TodoInv
<1>15. t # <<>> => t[Len(t)] = s[Len(s)]
  <2> SUFFICES ASSUME t # <<>> PROVE t[Len(t)] = s[Len(s)]
    OBVIOUS
  <2>1. Len(t) \in Nat \ {0} /\ Len(t) \in 1 .. Len(s) - 1 /\ Len(t) + 1 = Len(s)
    BY <1>7
  <2> QED BY <1>7, <2>1
<1>16. s[1] = s[Len(s)] => t = <<>>
  <2>1. s[1] = s[Len(s)] => 1 = Len(s)
    BY <1>7, <1>8
  <2>2. 1 = Len(s) => t = <<>>
    BY <1>7
  <2> QED BY <2>1, <2>2
<1> QED BY <1>1, <1>2, <1>3, <1>5, <1>6, <1>11, <1>12, <1>13, <1>14, <1>15, <1>16

-----------------------------------------------------------------------------
(* What is stored, and what an outcome promises, from one file to the next. *)

LEMMA StoredAt ==
  ASSUME StoreInv, NEW kind \in Kinds, NEW i
  PROVE  i \in Stored(kind) <=> <<kind, i>> \in DOMAIN disk
<1>1. ASSUME i \in Stored(kind) PROVE <<kind, i>> \in DOMAIN disk
  <2>1. PICK q \in DOMAIN disk : q[1] = kind /\ i = q[2]
    BY <1>1 DEF Stored
  <2>2. q = <<q[1], q[2]>>
    BY <2>1 DEF StoreInv, Shaped
  <2> QED BY <2>1, <2>2
<1>2. ASSUME <<kind, i>> \in DOMAIN disk PROVE i \in Stored(kind)
  <2>1. PICK q : q = <<kind, i>>
    OBVIOUS
  <2>2. q[1] = kind /\ q[2] = i
    BY <2>1
  <2> QED BY <1>2, <2>1, <2>2 DEF Stored
<1> QED BY <1>1, <1>2

LEMMA PackageLists ==
  ASSUME NEW i, NEW artifacts, NEW id, NEW p
  PROVE  /\ \A file \in ToSet(PackageFiles(i, artifacts, id, p)) : file[1] \in PackagePaths
         /\ Len(PackageFiles(i, artifacts, id, p)) = 9
         /\ DOMAIN PackageFiles(i, artifacts, id, p) = 1 .. 9
         /\ \A k, m \in 1 .. 9 :
              PackageFiles(i, artifacts, id, p)[k][1] = PackageFiles(i, artifacts, id, p)[m][1] => k = m
<1> DEFINE f == PackageFiles(i, artifacts, id, p)
<1>1. DOMAIN f = 1 .. 9 /\ Len(f) = 9
  BY DEF PackageFiles
<1>2. /\ f[1][1] = "winner/concept.md" /\ f[2][1] = "winner/premise.md" /\ f[3][1] = "winner/pitch.md"
      /\ f[4][1] = "winner/synopsis.md" /\ f[5][1] = "winner/world_bible.md"
      /\ f[6][1] = "winner/characters.md" /\ f[7][1] = "genome/creative_genome.yaml"
      /\ f[8][1] = "winner/evaluation.json" /\ f[9][1] = "winner/execution_manifest.json"
  BY DEF PackageFiles
<1> HIDE DEF f
<1>3. \A k \in 1 .. 9 : k = 1 \/ k = 2 \/ k = 3 \/ k = 4 \/ k = 5 \/ k = 6 \/ k = 7 \/ k = 8 \/ k = 9
  OBVIOUS
<1>4. \A k \in 1 .. 9 : f[k][1] \in PackagePaths
  BY <1>2, <1>3 DEF PackagePaths
<1>5. \A file \in ToSet(f) : file[1] \in PackagePaths
  BY <1>1, <1>4 DEF ToSet
<1>6. \A k, m \in 1 .. 9 : f[k][1] = f[m][1] => k = m
  BY <1>2, <1>3
<1> QED BY <1>1, <1>5, <1>6 DEF f

\* What is in the store after the next write.
LEMMA StoreChanges ==
  ASSUME WriteNext, TodoInv, StoreInv, NEW w, w = todo[1]
  PROVE  /\ \A kind \in Kinds :
              Stored(kind)' = IF w.place[1] = kind THEN Stored(kind) \cup {w.place[2]} ELSE Stored(kind)
         /\ \A i \in Stored("concepts") : w.place # <<"concepts", i>> => Concept(i)' = Concept(i)
         /\ \A i \in Stored("projects") :
              w.place # <<"projects", i>> => disk'[<<"projects", i>>] = disk[<<"projects", i>>]
         /\ \A q \in DOMAIN disk' : Shaped(q)
<1>1. /\ DOMAIN disk' = DOMAIN disk \cup {w.place}
      /\ \A q \in DOMAIN disk : q # w.place => disk'[q] = disk[q]
      /\ Owes(w)
  BY Writing
<1>2. ASSUME NEW kind \in Kinds
      PROVE  Stored(kind)' = IF w.place[1] = kind THEN Stored(kind) \cup {w.place[2]} ELSE Stored(kind)
  BY <1>1 DEF Stored
<1>3. \A i \in Stored("concepts") : w.place # <<"concepts", i>> => Concept(i)' = Concept(i)
  BY <1>1, StoredAt DEF Concept, Kinds
<1>4. \A i \in Stored("projects") :
        w.place # <<"projects", i>> => disk'[<<"projects", i>>] = disk[<<"projects", i>>]
  BY <1>1, StoredAt DEF Kinds
<1>5. \A q \in DOMAIN disk' : Shaped(q)
  BY <1>1 DEF StoreInv, Owes
<1> QED BY <1>2, <1>3, <1>4, <1>5

-----------------------------------------------------------------------------
(* Writing keeps the store. *)

LEMMA NextNumber ==
  ASSUME NEW n \in Nat
  PROVE  /\ (1 .. n) \cup {n + 1} = 1 .. n + 1 /\ n + 1 \notin 1 .. n /\ n + 1 \in Nat
         /\ Cardinality(1 .. n + 1) = n + 1
<1>1. Cardinality(1 .. n + 1) = n + 1
  <2>1. n + 1 \in Int /\ 1 \in Int /\ ~(1 > n + 1) /\ n + 1 - 1 + 1 = n + 1
    OBVIOUS
  <2> QED BY <2>1, FS_Interval
<1> QED BY <1>1

LEMMA Restaged ==
  ASSUME NEW c, IsIdea(c), NEW stage, NEW r, r = [c EXCEPT !.stage = stage]
  PROVE  IsIdea(r) /\ r.stage = stage /\ r.artifacts = c.artifacts /\ r.cycle = c.cycle
         /\ r.title = c.title
<1>1. r = [stage |-> stage, cycle |-> c.cycle, title |-> c.title, strong |-> c.strong,
           artifacts |-> c.artifacts]
  BY DEF IsIdea
<1> QED BY <1>1 DEF IsIdea

\* A phase at work is neither resting nor at its start.
LEMMA WritersWork ==
  ASSUME WriteNext, PhaseInv
  PROVE  todo # <<>> /\ phase \in Working /\ step # "start"
         /\ UNCHANGED <<phase, step, hand, today, faults, visited, cycle, society, folder, outcome>>
BY DEF WriteNext, PhaseInv, held

\* What is saved is a new idea, or one at a later stage that no project has, or the
\* winner at its last.
LEMMA WhatIsSaved ==
  ASSUME WriteNext, StoreInv, PhaseInv, TodoInv, HandInv, NEW w, w = todo[1], w.place[1] = "concepts"
  PROVE  /\ w.place = <<"concepts", w.place[2]>>
         /\ \/ phase \in {"CREATION", "EXPLORATION"} /\ Newborn(w)
            \/ /\ phase = "REFLECTION" /\ Reflecting
               /\ w.place[2] \in Stored("concepts") /\ IsIdea(w.value) /\ w.value.stage # "CONCEPT"
               /\ \/ ~Owned(w.place[2])
                  \/ /\ step = "announce" /\ w.value.stage = "PRODUCTION_READY"
                     /\ w.value.artifacts = Concept(w.place[2]).artifacts
<1>1. Owes(w) /\ phase \in Working /\ step # "start" /\ w \in Items(todo) /\ PlacesApart(Items(todo))
  BY Writing, WritersWork
<1>2. w.place = <<"concepts", w.place[2]>>
  BY <1>1 DEF Owes, Shaped, Kinds
<1>3. CASE phase \in {"CREATION", "EXPLORATION"}
  BY <1>1, <1>2, <1>3 DEF Owes
<1>4. CASE phase = "REFLECTION"
  <2>1. Reflecting /\ step \in {"judge", "develop", "approve", "announce", "done"}
    BY <1>1, <1>4 DEF PhaseInv, Reflecting
  <2>2. CASE step \in {"judge", "develop", "done"}
    <3>1. Moved(w)
      BY <1>1, <1>4, <2>2 DEF Owes
    <3>2. PICK i : i = w.place[2]
      OBVIOUS
    <3>3. i \in Stored("concepts") /\ ~Owned(i) /\ w.value.stage # "CONCEPT"
          /\ w.value = [Concept(i) EXCEPT !.stage = w.value.stage]
      BY <3>1, <3>2 DEF Moved
    <3>4. IsIdea(Concept(i))
      BY <3>3 DEF StoreInv
    <3>5. IsIdea(w.value)
      BY <3>3, <3>4, Restaged
    <3> QED BY <1>2, <1>4, <2>1, <3>2, <3>3, <3>5
  <2>3. CASE step = "approve"
    <3>1. w.place = <<"concepts", hand>> /\ IsIdea(w.value)
      BY <1>1, <1>4, <2>3 DEF Owes
    <3>2. hand \in Stored("concepts") /\ ~Owned(hand) /\ Final[<<"concepts", hand>>].stage = "APPROVED"
      BY <1>4, <2>3 DEF HandInv
    <3>3. Final[w.place] = w.value
      BY <1>1, SettledAt DEF Final
    <3>4. w.place[2] = hand /\ w.value.stage = "APPROVED"
      BY <3>1, <3>2, <3>3
    <3> QED BY <1>2, <1>4, <2>1, <3>1, <3>2, <3>4
  <2>4. CASE step = "announce"
    <3>1. Crowned(w)
      BY <1>1, <1>4, <2>4 DEF Owes
    <3>2. PICK i : i = w.place[2]
      OBVIOUS
    <3>3. i \in Stored("concepts") /\ w.value = [Concept(i) EXCEPT !.stage = "PRODUCTION_READY"]
      BY <1>4, <2>4, <3>1, <3>2 DEF HandInv, Crowned
    <3>4. IsIdea(Concept(i))
      BY <3>3 DEF StoreInv
    <3>5. IsIdea(w.value) /\ w.value.stage = "PRODUCTION_READY" /\ w.value.artifacts = Concept(i).artifacts
      BY <3>3, <3>4, Restaged
    <3> QED BY <1>2, <1>4, <2>1, <2>4, <3>2, <3>3, <3>5
  <2> QED BY <2>1, <2>2, <2>3, <2>4
<1>5. CASE phase \in {"CONSOLIDATION", "DREAMING", "DEEP_SLEEP"}
  <2>1. w.place[1] = "outputs"
    BY <1>1, <1>5 DEF Owes, Report
  <2> QED BY <2>1
<1> QED BY <1>1, <1>3, <1>4, <1>5 DEF Working

\* A project is only written as the first write of the approval.
LEMMA WhatIsPromoted ==
  ASSUME WriteNext, PhaseInv, TodoInv, NEW w, w = todo[1], w.place[1] = "projects"
  PROVE  phase = "REFLECTION" /\ step = "announce" /\ Promoted(w)
<1>1. Owes(w) /\ phase \in Working /\ step # "start"
  BY Writing, WritersWork
<1>2. CASE phase = "REFLECTION"
  BY <1>1, <1>2 DEF Owes, PhaseInv
<1>3. CASE phase # "REFLECTION"
  BY <1>1, <1>3 DEF Owes, Working, Report
<1> QED BY <1>2, <1>3

LEMMA WritingKeepsStore ==
  ASSUME WriteNext, StoreInv, PhaseInv, TodoInv, HandInv PROVE StoreInv'
<1>1. PICK w : w = todo[1]
  OBVIOUS
<1>2. /\ \A kind \in Kinds :
           Stored(kind)' = IF w.place[1] = kind THEN Stored(kind) \cup {w.place[2]} ELSE Stored(kind)
      /\ \A i \in Stored("concepts") : w.place # <<"concepts", i>> => Concept(i)' = Concept(i)
      /\ \A i \in Stored("projects") :
           w.place # <<"projects", i>> => disk'[<<"projects", i>>] = disk[<<"projects", i>>]
      /\ \A q \in DOMAIN disk' : Shaped(q)
  BY <1>1, StoreChanges
<1>3. disk' = [q \in DOMAIN disk' |-> disk'[q]] /\ disk'[w.place] = w.value
  BY <1>1, Writing
<1>4. UNCHANGED <<phase, step, visited, cycle>> /\ cycle \in Nat
  BY WritersWork DEF StoreInv
<1>5. w.place[1] = "projects" => w.place[2] = Cardinality(Stored("projects")) + 1
                                 /\ w.value.concept = hand.winner /\ hand.winner \in Stored("concepts")
  <2> SUFFICES ASSUME w.place[1] = "projects"
               PROVE  w.place[2] = Cardinality(Stored("projects")) + 1
                      /\ w.value.concept = hand.winner /\ hand.winner \in Stored("concepts")
    OBVIOUS
  <2>1. phase = "REFLECTION" /\ step = "announce" /\ Promoted(w)
    BY <1>1, WhatIsPromoted
  <2> QED BY <2>1 DEF Promoted, HandInv
<1>6. w.place[1] = "concepts" =>
        \/ phase \in {"CREATION", "EXPLORATION"} /\ Newborn(w)
        \/ /\ Reflecting /\ w.place[2] \in Stored("concepts")
           /\ IsIdea(w.value) /\ w.value.stage # "CONCEPT"
  BY <1>1, WhatIsSaved
<1>7. ASSUME NEW kind \in {"concepts", "projects"}
      PROVE  Cardinality(Stored(kind)') \in Nat /\ Stored(kind)' = 1 .. Cardinality(Stored(kind)')
  <2>1. PICK n : n = Cardinality(Stored(kind))
    OBVIOUS
  <2>2. n \in Nat /\ Stored(kind) = 1 .. n
    BY <2>1 DEF StoreInv
  <2>3. Stored(kind)' = Stored(kind) \/ Stored(kind)' = Stored(kind) \cup {n + 1}
    <3>1. CASE kind = "concepts"
      <4>1. w.place[1] = "concepts" => w.place[2] \in Stored(kind) \cup {n + 1}
        BY <1>6, <2>1, <3>1 DEF Newborn
      <4> QED BY <1>2, <2>1, <3>1, <4>1 DEF Kinds
    <3>2. CASE kind = "projects"
      BY <1>2, <1>5, <2>1, <3>2 DEF Kinds
    <3> QED BY <3>1, <3>2
  <2>4. CASE Stored(kind)' = Stored(kind)
    BY <2>1, <2>2, <2>4
  <2>5. CASE Stored(kind)' = Stored(kind) \cup {n + 1}
    <3>1. Stored(kind)' = 1 .. n + 1 /\ n + 1 \in Nat /\ Cardinality(1 .. n + 1) = n + 1
      BY <2>2, <2>5, NextNumber
    <3> QED BY <3>1
  <2> QED BY <2>3, <2>4, <2>5
<1>8. ASSUME NEW i \in Stored("concepts")'
      PROVE  /\ IsIdea(Concept(i))'
             /\ Concept(i)'.stage = "CONCEPT" => Undeveloped(Concept(i)'.artifacts)
             /\ Concept(i)'.cycle = cycle' /\ ~Reflecting' => Concept(i)'.stage = "CONCEPT"
  <2>1. Reflecting' = Reflecting
    BY <1>4 DEF Reflecting
  <2>2. CASE w.place = <<"concepts", i>>
    <3>1. Concept(i)' = w.value
      BY <1>3, <2>2 DEF Concept
    <3>2. w.place[1] = "concepts" /\ (Newborn(w) \/ (Reflecting /\ IsIdea(w.value) /\ w.value.stage # "CONCEPT"))
      BY <1>6, <2>2
    <3>3. PICK c : c = Concept(i)'
      OBVIOUS
    <3>4. IsIdea(c) /\ (c.stage = "CONCEPT" => Undeveloped(c.artifacts)) /\ (~Reflecting => c.stage = "CONCEPT")
      BY <3>1, <3>2, <3>3 DEF Newborn
    <3>5. IsIdea(c)'
      BY <1>4, <3>4 DEF IsIdea
    <3> QED BY <2>1, <3>3, <3>4, <3>5 DEF IsIdea
  <2>3. CASE w.place # <<"concepts", i>>
    <3>1. i \in Stored("concepts")
      <4>1. i \in Stored("concepts") \/ (w.place[1] = "concepts" /\ i = w.place[2])
        BY <1>2 DEF Kinds
      <4>2. w.place[1] = "concepts" => w.place = <<"concepts", w.place[2]>>
        BY <1>1, WhatIsSaved
      <4> QED BY <2>3, <4>1, <4>2
    <3>2. PICK c : c = Concept(i)
      OBVIOUS
    <3>3. Concept(i)' = c
      BY <1>2, <2>3, <3>1, <3>2
    <3>4. /\ IsIdea(c) /\ (c.stage = "CONCEPT" => Undeveloped(c.artifacts))
          /\ (c.cycle = cycle /\ ~Reflecting => c.stage = "CONCEPT")
      BY <3>1, <3>2 DEF StoreInv
    <3>5. IsIdea(c)'
      BY <1>4, <3>4 DEF IsIdea
    <3> QED BY <1>4, <2>1, <3>3, <3>4, <3>5 DEF IsIdea
  <2> QED BY <2>2, <2>3
<1>9. ASSUME NEW id \in Stored("projects")'
      PROVE  disk'[<<"projects", id>>].concept \in Stored("concepts")'
  <2>1. Stored("concepts") \subseteq Stored("concepts")'
    BY <1>2 DEF Kinds
  <2>2. CASE w.place = <<"projects", id>>
    <3>1. w.place[1] = "projects" /\ disk'[<<"projects", id>>] = w.value
      BY <1>3, <2>2
    <3> QED BY <1>5, <2>1, <3>1
  <2>3. CASE w.place # <<"projects", id>>
    <3>1. id \in Stored("projects")
      <4>1. id \in Stored("projects") \/ (w.place[1] = "projects" /\ id = w.place[2])
        BY <1>2 DEF Kinds
      <4>2. w.place[1] = "projects" => w.place = <<"projects", w.place[2]>>
        BY <1>1, Writing DEF Owes, Shaped, Kinds
      <4> QED BY <2>3, <4>1, <4>2
    <3>2. disk'[<<"projects", id>>] = disk[<<"projects", id>>]
      BY <1>2, <2>3, <3>1
    <3> QED BY <2>1, <3>1, <3>2 DEF StoreInv
  <2> QED BY <2>2, <2>3
<1>10. cycle' \in Nat
  BY <1>4
<1> QED BY <1>2, <1>3, <1>7, <1>8, <1>9, <1>10 DEF StoreInv

-----------------------------------------------------------------------------
(* Writing keeps the projects whole. *)

\* A project once written has its concept for good.
LEMMA OwnedIsKept ==
  ASSUME WriteNext, StoreInv, PhaseInv, TodoInv
  PROVE  /\ \A i : Owned(i) => Owned(i)'
         /\ \A i : Owned(i)' => Owned(i) \/ (todo[1].place[1] = "projects" /\ i = hand.winner)
<1>1. PICK w : w = todo[1]
  OBVIOUS
<1>2. /\ Stored("projects")' = IF w.place[1] = "projects" THEN Stored("projects") \cup {w.place[2]}
                               ELSE Stored("projects")
      /\ \A i \in Stored("projects") :
           w.place # <<"projects", i>> => disk'[<<"projects", i>>] = disk[<<"projects", i>>]
  BY <1>1, StoreChanges DEF Kinds
<1>3. w.place[1] = "projects" => /\ w.place[2] \notin Stored("projects") /\ w.value.concept = hand.winner
                                 /\ w.place = <<"projects", w.place[2]>>
  <2> SUFFICES ASSUME w.place[1] = "projects"
               PROVE  /\ w.place[2] \notin Stored("projects") /\ w.value.concept = hand.winner
                      /\ w.place = <<"projects", w.place[2]>>
    OBVIOUS
  <2>1. Promoted(w)
    BY <1>1, WhatIsPromoted
  <2>2. PICK n : n = Cardinality(Stored("projects"))
    OBVIOUS
  <2>3. n \in Nat /\ Stored("projects") = 1 .. n
    BY <2>2 DEF StoreInv
  <2>4. n + 1 \notin Stored("projects")
    BY <2>3
  <2> QED BY <2>1, <2>2, <2>4 DEF Promoted
<1>4. disk'[w.place] = w.value
  BY <1>1, Writing
<1>5. \A id \in Stored("projects") :
        id \in Stored("projects")' /\ disk'[<<"projects", id>>] = disk[<<"projects", id>>]
  <2> TAKE id \in Stored("projects")
  <2>1. w.place # <<"projects", id>>
    BY <1>3
  <2> QED BY <1>2, <2>1
<1>6. \A i : Owned(i) => Owned(i)'
  BY <1>5 DEF Owned
<1>7. ASSUME NEW i, Owned(i)' PROVE Owned(i) \/ (w.place[1] = "projects" /\ i = hand.winner)
  <2>1. PICK id \in Stored("projects")' : disk'[<<"projects", id>>].concept = i
    BY <1>7 DEF Owned
  <2>2. CASE id \in Stored("projects")
    BY <1>5, <2>1, <2>2 DEF Owned
  <2>3. CASE id \notin Stored("projects")
    <3>1. w.place[1] = "projects" /\ id = w.place[2]
      BY <1>2, <2>1, <2>3
    <3> QED BY <1>3, <1>4, <2>1, <3>1
  <2> QED BY <2>2, <2>3
<1> QED BY <1>1, <1>6, <1>7

\* The parts of ProjectsAreWhole: of one project, of two, and of a hand-off.
WholeProject(id) ==
  LET p == disk[<<"projects", id>>] IN
  /\ Whole(p.artifacts)
  /\ Concept(p.concept).artifacts = p.artifacts
  /\ Concept(p.concept).stage \in {"APPROVED", "PRODUCTION_READY"}

OneProjectEach ==
  \A id, other \in Stored("projects") :
    disk[<<"projects", other>>].concept = disk[<<"projects", id>>].concept => other = id

HandoffsAreAskedFor ==
  \A at \in DOMAIN disk : at[1] = "handoff" =>
    at[2] \in Stored("projects") /\ at[3] \in disk[<<"projects", at[2]>>].engines

LEMMA PartsOfWhole ==
  ProjectsAreWhole <=>
    (\A id \in Stored("projects") : WholeProject(id)) /\ OneProjectEach /\ HandoffsAreAskedFor
<1>1. ASSUME ProjectsAreWhole
      PROVE  (\A id \in Stored("projects") : WholeProject(id)) /\ OneProjectEach /\ HandoffsAreAskedFor
  BY <1>1 DEF ProjectsAreWhole, WholeProject, OneProjectEach, HandoffsAreAskedFor, Whole, Texts
<1>2. ASSUME \A id \in Stored("projects") : WholeProject(id), OneProjectEach, HandoffsAreAskedFor
      PROVE  ProjectsAreWhole
  BY <1>2 DEF ProjectsAreWhole, WholeProject, OneProjectEach, HandoffsAreAskedFor, Whole, Texts
<1> QED BY <1>1, <1>2

LEMMA WritingKeepsWhole ==
  ASSUME WriteNext, StoreInv, PhaseInv, TodoInv, HandInv, ProjectsAreWhole PROVE ProjectsAreWhole'
<1>1. PICK w : w = todo[1]
  OBVIOUS
<1>2. /\ (\A id \in Stored("projects") : WholeProject(id)) /\ OneProjectEach /\ HandoffsAreAskedFor
  BY PartsOfWhole
<1>3. /\ Stored("projects")' = IF w.place[1] = "projects" THEN Stored("projects") \cup {w.place[2]}
                               ELSE Stored("projects")
      /\ \A i \in Stored("concepts") : w.place # <<"concepts", i>> => Concept(i)' = Concept(i)
      /\ \A i \in Stored("projects") :
           w.place # <<"projects", i>> => disk'[<<"projects", i>>] = disk[<<"projects", i>>]
  BY <1>1, StoreChanges DEF Kinds
<1>4. /\ disk'[w.place] = w.value /\ Owes(w) /\ w \in Items(todo) /\ PlacesApart(Items(todo))
      /\ DOMAIN disk' = DOMAIN disk \cup {w.place}
      /\ \A q \in DOMAIN disk : q # w.place => disk'[q] = disk[q]
  BY <1>1, Writing
<1>5. CASE w.place[1] = "projects"
  <2>1. phase = "REFLECTION" /\ step = "announce" /\ Promoted(w)
    BY <1>1, <1>5, WhatIsPromoted
  <2>2. PICK n : n = Cardinality(Stored("projects"))
    OBVIOUS
  <2>3. n \in Nat /\ Stored("projects") = 1 .. n /\ n + 1 \notin Stored("projects")
    <3>1. n \in Nat /\ Stored("projects") = 1 .. n
      BY <2>2 DEF StoreInv
    <3> QED BY <3>1
  <2>4. /\ w.place = <<"projects", n + 1>> /\ w.place[2] = n + 1
        /\ w.value.concept = hand.winner /\ ~Owned(hand.winner)
        /\ Whole(w.value.artifacts) /\ w.value.artifacts = Concept(hand.winner).artifacts
    BY <2>1, <2>2 DEF Promoted
  <2>5. hand.winner \in Stored("concepts") /\ Concept(hand.winner).stage \in {"APPROVED", "PRODUCTION_READY"}
    BY <2>1 DEF HandInv
  <2>6. \A i \in Stored("concepts") : Concept(i)' = Concept(i)
    BY <1>3, <2>4
  <2>7. \A id \in Stored("projects") : disk'[<<"projects", id>>] = disk[<<"projects", id>>]
    <3> TAKE id \in Stored("projects")
    <3>1. id # n + 1
      BY <2>3
    <3>2. w.place # <<"projects", id>>
      BY <2>4, <3>1
    <3> QED BY <1>3, <3>2
  <2>8. Stored("projects")' = Stored("projects") \cup {n + 1} /\ disk'[<<"projects", n + 1>>] = w.value
    BY <1>3, <1>4, <1>5, <2>4
  <2>9. ASSUME NEW id \in Stored("projects")' PROVE WholeProject(id)'
    <3>1. CASE id = n + 1
      BY <2>4, <2>5, <2>6, <2>8, <3>1 DEF WholeProject
    <3>2. CASE id \in Stored("projects")
      <4>1. disk[<<"projects", id>>].concept \in Stored("concepts")
        BY <3>2 DEF StoreInv
      <4> QED BY <1>2, <2>6, <2>7, <3>2, <4>1 DEF WholeProject
    <3> QED BY <2>8, <3>1, <3>2
  <2>10. OneProjectEach'
    <3>1. \A id \in Stored("projects") : disk[<<"projects", id>>].concept # hand.winner
      BY <2>4 DEF Owned
    <3> QED BY <1>2, <2>4, <2>7, <2>8, <3>1 DEF OneProjectEach
  <2>11. HandoffsAreAskedFor'
    <3> SUFFICES ASSUME NEW at \in DOMAIN disk', at[1] = "handoff"
                 PROVE  at[2] \in Stored("projects")' /\ at[3] \in disk'[<<"projects", at[2]>>].engines
      BY DEF HandoffsAreAskedFor
    <3>1. at \in DOMAIN disk
      BY <1>4, <2>4
    <3>2. at[2] \in Stored("projects") /\ at[3] \in disk[<<"projects", at[2]>>].engines
      BY <1>2, <3>1 DEF HandoffsAreAskedFor
    <3> QED BY <2>7, <2>8, <3>2
  <2> QED BY <2>9, <2>10, <2>11
          DEF ProjectsAreWhole, WholeProject, OneProjectEach, HandoffsAreAskedFor, Whole, Texts
<1>6. CASE w.place[1] # "projects"
  <2>1. /\ Stored("projects")' = Stored("projects")
        /\ \A id \in Stored("projects") : disk'[<<"projects", id>>] = disk[<<"projects", id>>]
    BY <1>3, <1>6
  <2>2. ASSUME NEW id \in Stored("projects") PROVE WholeProject(id)'
    <3>1. PICK p : p = disk[<<"projects", id>>]
      OBVIOUS
    <3>2. PICK i : i = p.concept
      OBVIOUS
    <3>3. i \in Stored("concepts") /\ Owned(i) /\ disk'[<<"projects", id>>] = p
      BY <2>1, <3>1, <3>2 DEF StoreInv, Owned
    <3>4. /\ Whole(p.artifacts) /\ Concept(i).artifacts = p.artifacts
          /\ Concept(i).stage \in {"APPROVED", "PRODUCTION_READY"}
      BY <1>2, <3>1, <3>2 DEF WholeProject
    <3>5. CASE w.place # <<"concepts", i>>
      BY <1>3, <3>2, <3>3, <3>4, <3>5 DEF WholeProject
    <3>6. CASE w.place = <<"concepts", i>>
      <4>1. w.place[1] = "concepts" /\ w.place[2] = i
        BY <3>6
      <4>2. \/ Newborn(w)
            \/ ~Owned(i)
            \/ w.value.stage = "PRODUCTION_READY" /\ w.value.artifacts = Concept(i).artifacts
        BY <1>1, <4>1, WhatIsSaved
      <4>3. ~Newborn(w)
        <5>1. PICK n : n = Cardinality(Stored("concepts"))
          OBVIOUS
        <5>2. n \in Nat /\ Stored("concepts") = 1 .. n
          BY <5>1 DEF StoreInv
        <5>3. i # n + 1
          BY <3>3, <5>2
        <5> QED BY <4>1, <5>1, <5>3 DEF Newborn
      <4>4. Concept(i)' = w.value
        BY <1>4, <3>6 DEF Concept
      <4> QED BY <3>2, <3>3, <3>4, <4>2, <4>3, <4>4 DEF WholeProject
    <3> QED BY <3>5, <3>6
  <2>3. OneProjectEach'
    BY <1>2, <2>1 DEF OneProjectEach
  <2>4. HandoffsAreAskedFor'
    <3> SUFFICES ASSUME NEW at \in DOMAIN disk', at[1] = "handoff"
                 PROVE  at[2] \in Stored("projects") /\ at[3] \in disk[<<"projects", at[2]>>].engines
      BY <2>1 DEF HandoffsAreAskedFor
    <3>1. CASE at \in DOMAIN disk
      BY <1>2, <3>1 DEF HandoffsAreAskedFor
    <3>2. CASE at = w.place
      <4>1. phase \in Working /\ step # "start"
        BY WritersWork
      <4>2. phase = "REFLECTION" /\ step = "announce"
        <5>1. w.place[1] = "handoff"
          BY <3>2
        <5>2. CASE phase = "REFLECTION"
          BY <1>4, <4>1, <5>1, <5>2 DEF Owes, PhaseInv
        <5>3. CASE phase # "REFLECTION"
          BY <1>4, <4>1, <5>1, <5>3 DEF Owes, Working, Report
        <5> QED BY <5>2, <5>3
      <4>3. HandedOff(w)
        BY <1>4, <3>2, <4>2 DEF Owes
      <4>4. PICK q : q = <<"projects", hand.project>>
        OBVIOUS
      <4>5. w.place[2] = hand.project /\ w.place[3] \in Final[q].engines
        BY <4>3, <4>4 DEF HandedOff
      <4>6. q \in DOMAIN Final
        BY <4>2, <4>4 DEF HandInv, Tells
      <4>7. \A v \in Items(todo) : v.place # q
        <5> SUFFICES ASSUME NEW v \in Items(todo), v.place = q PROVE FALSE
          OBVIOUS
        <5>1. Owes(v) /\ v.place[1] = "projects"
          BY <4>4 DEF TodoInv
        <5>2. v = todo[1]
          BY <4>2, <5>1 DEF Owes, Promoted
        <5> QED BY <1>1, <1>6, <5>1, <5>2
      <4>8. q \in DOMAIN disk
        <5>1. PICK d : d = disk
          OBVIOUS
        <5>2. PICK writes : writes = Items(todo)
          OBVIOUS
        <5>3. q \in DOMAIN Settled(d, writes)
          BY <4>6, <5>1, <5>2 DEF Final
        <5>4. q \in DOMAIN d \cup {v.place : v \in writes}
          BY <5>3, SettledFiles
        <5> QED BY <4>7, <5>1, <5>2, <5>4
      <4>9. Final[q] = disk[q]
        BY <4>7, <4>8, SettledElsewhere DEF Final
      <4>10. hand.project \in Stored("projects")
        BY <4>4, <4>8, StoredAt DEF Kinds
      <4> QED BY <3>2, <4>4, <4>5, <4>9, <4>10
    <3> QED BY <1>4, <3>1, <3>2
  <2>5. \A id \in Stored("projects")' : WholeProject(id)'
    BY <2>1, <2>2
  <2> QED BY <2>3, <2>4, <2>5
          DEF ProjectsAreWhole, WholeProject, OneProjectEach, HandoffsAreAskedFor, Whole, Texts
<1> QED BY <1>5, <1>6

-----------------------------------------------------------------------------
(* Writing keeps what was promised. *)

\* A project's number is taken once, and its concept changes at most to the last stage.
LEMMA ProjectsStay ==
  ASSUME WriteNext, StoreInv, PhaseInv, TodoInv, HandInv, NEW id \in Stored("projects"),
         NEW i, i = disk[<<"projects", id>>].concept, Concept(i).stage = "PRODUCTION_READY"
  PROVE  /\ disk'[<<"projects", id>>] = disk[<<"projects", id>>]
         /\ Concept(i)'.stage = "PRODUCTION_READY"
<1>1. PICK w : w = todo[1]
  OBVIOUS
<1>2. /\ \A k \in Stored("concepts") : w.place # <<"concepts", k>> => Concept(k)' = Concept(k)
      /\ \A k \in Stored("projects") :
           w.place # <<"projects", k>> => disk'[<<"projects", k>>] = disk[<<"projects", k>>]
  BY <1>1, StoreChanges
<1>3. i \in Stored("concepts") /\ Owned(i)
  BY DEF StoreInv, Owned
<1>4. w.place # <<"projects", id>>
  <2> SUFFICES ASSUME w.place = <<"projects", id>> PROVE FALSE
    OBVIOUS
  <2>1. PICK n : n = Cardinality(Stored("projects"))
    OBVIOUS
  <2>2. n \in Nat /\ Stored("projects") = 1 .. n
    BY <2>1 DEF StoreInv
  <2>3. w.place[1] = "projects" /\ w.place[2] = id
    OBVIOUS
  <2>4. Promoted(w)
    BY <1>1, <2>3, WhatIsPromoted
  <2>5. w.place = <<"projects", n + 1>>
    BY <2>1, <2>4 DEF Promoted
  <2>6. id = n + 1
    BY <2>3, <2>5
  <2> QED BY <2>2, <2>6
<1>5. CASE w.place = <<"concepts", i>>
  <2>1. w.place[1] = "concepts" /\ w.place[2] = i
    BY <1>5
  <2>2. Newborn(w) \/ ~Owned(i) \/ w.value.stage = "PRODUCTION_READY"
    BY <1>1, <2>1, WhatIsSaved
  <2>3. ~Newborn(w)
    <3>1. PICK n : n = Cardinality(Stored("concepts"))
      OBVIOUS
    <3>2. n \in Nat /\ Stored("concepts") = 1 .. n
      BY <3>1 DEF StoreInv
    <3>3. i # n + 1
      BY <1>3, <3>2
    <3> QED BY <2>1, <3>1, <3>3 DEF Newborn
  <2>4. Concept(i)' = w.value
    BY <1>1, <1>5, Writing DEF Concept
  <2> QED BY <1>2, <1>3, <1>4, <2>2, <2>3, <2>4
<1>6. CASE w.place # <<"concepts", i>>
  BY <1>2, <1>3, <1>4, <1>6
<1> QED BY <1>5, <1>6

\* No later phase, and no later cycle, writes over what an outcome stands for.
LEMMA PromisesOutlast ==
  ASSUME WriteNext, StoreInv, PhaseInv, TodoInv, HandInv,
         NEW told, NEW date, NEW c, Tells(disk, told, date, c),
         c # cycle \/ phase \in {"EXPLORATION", "CONSOLIDATION", "DREAMING", "DEEP_SLEEP"}
  PROVE  Tells(disk', told, date, c)
<1>1. PICK w : w = todo[1]
  OBVIOUS
<1>2. PICK d : d = disk
  OBVIOUS
<1>3. PICK e : e = disk'
  OBVIOUS
<1>4. /\ DOMAIN e = DOMAIN d \cup {w.place} /\ Owes(w)
      /\ \A q \in DOMAIN d : q # w.place => e[q] = d[q]
  BY <1>1, <1>2, <1>3, Writing
<1>5. Tells(d, told, date, c)
  BY <1>2
<1>6. PICK id : id = told.project
  OBVIOUS
<1>7. PICK i : i = told.winner
  OBVIOUS
<1>8. id \in Stored("projects") /\ d[<<"projects", id>>].concept = i /\ d[<<"concepts", i>>].stage = "PRODUCTION_READY"
  <2>1. <<"projects", id>> \in DOMAIN disk /\ d[<<"projects", id>>].concept = i
        /\ d[<<"concepts", i>>].stage = "PRODUCTION_READY"
    BY <1>2, <1>5, <1>6, <1>7 DEF Tells
  <2> QED BY <2>1, StoredAt DEF Kinds
<1>9. e[<<"projects", id>>] = d[<<"projects", id>>] /\ e[<<"concepts", i>>].stage = "PRODUCTION_READY"
  <2>1. disk'[<<"projects", id>>] = disk[<<"projects", id>>] /\ Concept(i)'.stage = "PRODUCTION_READY"
    BY <1>2, <1>8, ProjectsStay DEF Concept
  <2> QED BY <1>2, <1>3, <2>1 DEF Concept
<1>10. /\ w.place[1] = "tournaments" => w.place[2] # c
       /\ w.place[1] = "outputs" =>
            w.place[3] # c \/ w.place[4] \notin PackagePaths \cup {"tournament/tournament.json"}
  <2>1. CASE c # cycle
    BY <1>4, <2>1 DEF Owes
  <2>2. CASE phase \in {"EXPLORATION", "CONSOLIDATION", "DREAMING", "DEEP_SLEEP"}
    <3>1. w.place[1] # "tournaments"
      BY <1>4, <2>2 DEF Owes, Report
    <3>2. w.place[1] = "outputs" => w.place[4] \in Learning \cup {"runtime/runtime.json"}
      BY <1>4, <2>2 DEF Owes, Report
    <3> QED BY <3>1, <3>2 DEF Learning, PackagePaths
  <2> QED BY <2>1, <2>2
<1>11. \A q \in Tournaments(date, c) : e[q] = d[q]
  <2> TAKE q \in Tournaments(date, c)
  <2>1. q \in DOMAIN d
    BY <1>5 DEF Tells
  <2>2. q # w.place
    BY <1>10 DEF Tournaments
  <2> QED BY <1>4, <2>1, <2>2
<1>12. \A q \in DOMAIN d : q[1] = "outputs" /\ q[3] = c /\ q[4] \in PackagePaths => e[q] = d[q]
  BY <1>4, <1>10
<1>13. \A q : q[1] = "outputs" /\ q[3] = c /\ q[4] \in PackagePaths => w.place # q
  BY <1>10
<1>14. PICK p : p = d[<<"projects", id>>]
  OBVIOUS
<1>15. \A file \in ToSet(PackageFiles(i, p.artifacts, id, p)) :
         /\ <<"outputs", date, c, file[1]>> \in DOMAIN e
         /\ e[<<"outputs", date, c, file[1]>>] = file[2]
  <2> TAKE file \in ToSet(PackageFiles(i, p.artifacts, id, p))
  <2>1. file[1] \in PackagePaths
    BY PackageLists
  <2>2. PICK q : q = <<"outputs", date, c, file[1]>>
    OBVIOUS
  <2>3. q \in DOMAIN d /\ d[q] = file[2]
    BY <1>5, <1>6, <1>7, <1>14, <2>2 DEF Tells
  <2>4. q[1] = "outputs" /\ q[3] = c /\ q[4] \in PackagePaths
    BY <2>1, <2>2
  <2> QED BY <1>4, <1>12, <2>2, <2>3, <2>4
<1>16. /\ {<<"projects", id>>, <<"canon", id>>, <<"concepts", i>>} \cup Tournaments(date, c) \subseteq DOMAIN e
       /\ p.concept = i /\ p.title = told.title /\ p.cycle = c
       /\ \A q \in Tournaments(date, c) : e[q] = Tournament(i, TRUE)
       /\ HandoffEnabled => \A x \in p.engines : <<"handoff", id, x>> \in DOMAIN e
  <2>1. /\ {<<"projects", id>>, <<"canon", id>>, <<"concepts", i>>} \cup Tournaments(date, c) \subseteq DOMAIN d
        /\ p.concept = i /\ p.title = told.title /\ p.cycle = c
        /\ \A q \in Tournaments(date, c) : d[q] = Tournament(i, TRUE)
        /\ HandoffEnabled => \A x \in p.engines : <<"handoff", id, x>> \in DOMAIN d
    BY <1>5, <1>6, <1>7, <1>14 DEF Tells
  <2> QED BY <1>4, <1>11, <2>1
<1>17. Tells(e, told, date, c)
  BY <1>6, <1>7, <1>9, <1>14, <1>15, <1>16 DEF Tells
<1> QED BY <1>3, <1>17

LEMMA WritingKeepsOutcome ==
  ASSUME WriteNext, StoreInv, PhaseInv, TodoInv, HandInv, OutcomeInv PROVE OutcomeInv'
<1>1. UNCHANGED <<phase, step, visited, cycle, folder, outcome>> /\ todo # <<>>
  BY WritersWork
<1> SUFFICES ASSUME outcome.winner # Nobody, phase \notin {"asleep", "down"}
             PROVE  /\ Tells(disk', outcome, folder, cycle) /\ phase # "CREATION" /\ "REFLECTION" \in visited
                    /\ phase # "REFLECTION"
  BY <1>1 DEF OutcomeInv
<1>2. Tells(disk, outcome, folder, cycle) /\ phase # "CREATION" /\ "REFLECTION" \in visited /\ phase # "REFLECTION"
  BY <1>1 DEF OutcomeInv
<1>3. phase \in {"EXPLORATION", "CONSOLIDATION", "DREAMING", "DEEP_SLEEP"}
  BY <1>2, WritersWork DEF Working
<1>4. Tells(disk', outcome, folder, cycle)
  BY <1>2, <1>3, PromisesOutlast
<1> QED BY <1>2, <1>4

LEMMA WritingKeepsReports ==
  ASSUME WriteNext, StoreInv, PhaseInv, TodoInv, HandInv, OutcomeInv, ReportInv PROVE ReportInv'
<1>1. UNCHANGED <<phase, step, visited, cycle, folder, outcome>> /\ todo # <<>> /\ phase \in Working
      /\ cycle \in Nat /\ step # "start"
  BY WritersWork DEF StoreInv
<1>2. PICK w : w = todo[1]
  OBVIOUS
<1>3. /\ DOMAIN disk' = DOMAIN disk \cup {w.place} /\ Owes(w) /\ w \in Items(todo)
      /\ \A q \in DOMAIN disk : q # w.place => disk'[q] = disk[q]
      /\ disk'[w.place] = w.value /\ Items(todo') = Items(todo) \ {w} /\ PlacesApart(Items(todo)) /\ Tidy(todo')
  BY <1>2, Writing
<1>4. \A at \in DOMAIN disk : Report(at) => at[3] \in 0 .. cycle /\ at[3] # cycle
  BY <1>1 DEF ReportInv, Closed, Working
<1>5. ASSUME NEW at \in DOMAIN disk, Report(at)
      PROVE  /\ at[3] \in 0 .. cycle /\ at[3] # cycle
             /\ disk'[at].winner # Nobody => Tells(disk', disk'[at], at[2], at[3])
  <2>1. at # w.place
    BY <1>3, <1>4, <1>5 DEF Owes, Report
  <2>2. disk'[at] = disk[at]
    BY <1>3, <2>1
  <2>3. PICK told : told = disk[at]
    OBVIOUS
  <2>4. told.winner # Nobody => Tells(disk, told, at[2], at[3])
    BY <1>5, <2>3 DEF ReportInv
  <2>5. told.winner # Nobody => Tells(disk', told, at[2], at[3])
    BY <1>4, <1>5, <2>4, PromisesOutlast
  <2> QED BY <1>4, <1>5, <2>2, <2>3, <2>5
<1>6. ASSUME Report(w.place)
      PROVE  /\ w.place[3] \in 0 .. cycle /\ Closed'
             /\ w.value.winner # Nobody => Tells(disk', w.value, w.place[2], w.place[3])
  <2>1. /\ phase = "DEEP_SLEEP" /\ w.value = outcome /\ w.place[2] = folder /\ w.place[3] = cycle
    BY <1>3, <1>6 DEF Owes, Report
  <2>2. step = "done"
    BY <1>1, <2>1 DEF PhaseInv
  <2>3. todo' = <<>>
    <3>1. ASSUME NEW v \in Items(todo) PROVE v = w
      <4>1. Owes(v)
        BY DEF TodoInv
      <4>2. Report(v.place)
        BY <2>1, <4>1 DEF Owes
      <4>3. v.place = <<"outputs", folder, cycle, "runtime/runtime.json">>
        BY <4>1, <4>2 DEF Owes, Report, Shaped
      <4>4. w.place = <<"outputs", folder, cycle, "runtime/runtime.json">>
        BY <1>3, <1>6 DEF Owes, Report, Shaped
      <4> QED BY <1>3, <4>3, <4>4 DEF PlacesApart
    <3>2. Items(todo') = {}
      BY <1>3, <3>1
    <3>3. PICK t : t = todo'
      OBVIOUS
    <3>4. Tidy(t) /\ Items(t) = {}
      BY <1>3, <3>2, <3>3
    <3> QED BY <3>3, <3>4, ItemsAreApart
  <2>4. outcome.winner # Nobody => Tells(disk', outcome, folder, cycle)
    <3>1. outcome.winner # Nobody => Tells(disk, outcome, folder, cycle)
      BY <2>1 DEF OutcomeInv
    <3> QED BY <2>1, <3>1, PromisesOutlast
  <2>5. Closed'
    BY <1>1, <2>1, <2>2, <2>3 DEF Closed
  <2> QED BY <1>1, <2>1, <2>4, <2>5
<1>7. ASSUME NEW at \in DOMAIN disk', Report(at)
      PROVE  /\ at[3] \in 0 .. cycle /\ (at[3] = cycle => Closed')
             /\ disk'[at].winner # Nobody => Tells(disk', disk'[at], at[2], at[3])
  <2>1. CASE at = w.place
    BY <1>3, <1>6, <1>7, <2>1
  <2>2. CASE at # w.place
    BY <1>3, <1>5, <1>7, <2>2
  <2> QED BY <2>1, <2>2
<1> QED BY <1>1, <1>7 DEF ReportInv, Report

-----------------------------------------------------------------------------
(* Writing keeps the rest of what is owed, and what the phase holds. *)

LEMMA WritingKeepsTodo ==
  ASSUME WriteNext, StoreInv, PhaseInv, TodoInv, HandInv PROVE TodoInv'
<1>1. UNCHANGED <<phase, step, hand, visited, cycle, folder, outcome>> /\ phase \in Working
      /\ step # "start"
  BY WritersWork
<1>2. PICK w : w = todo[1]
  OBVIOUS
<1>3. /\ Tidy(todo') /\ Items(todo') = Items(todo) \ {w} /\ PlacesApart(Items(todo))
      /\ Final' = Final /\ w \in Items(todo) /\ Owes(w)
  BY <1>2, Writing
<1>4. /\ Stored("concepts") \subseteq Stored("concepts")'
      /\ \A i \in Stored("concepts") : w.place # <<"concepts", i>> => Concept(i)' = Concept(i)
  BY <1>2, StoreChanges DEF Kinds
<1>5. \A i : Owned(i)' => Owned(i) \/ w.place[1] = "projects"
  BY <1>2, OwnedIsKept
<1>6. ASSUME NEW v \in Items(todo) \ {w} PROVE Owes(v)'
  <2>1. Owes(v) /\ v # w /\ v.place # w.place
    BY <1>3 DEF TodoInv, PlacesApart
  <2>2. ~Newborn(v) /\ ~Promoted(v)
    BY <1>2, <2>1 DEF Newborn, Promoted
  <2>3. ASSUME phase = "REFLECTION", step \in {"judge", "develop", "done"}, v.place[1] = "concepts"
        PROVE  Moved(v)'
    <3>1. Moved(v) /\ w.place[1] # "projects" /\ v.place = <<"concepts", v.place[2]>>
      BY <1>3, <2>1, <2>3 DEF Owes, Shaped, Kinds
    <3>2. PICK i : i = v.place[2]
      OBVIOUS
    <3>3. i \in Stored("concepts") /\ ~Owned(i) /\ w.place # <<"concepts", i>>
      BY <2>1, <3>1, <3>2 DEF Moved
    <3>4. Concept(i)' = Concept(i) /\ i \in Stored("concepts")' /\ ~Owned(i)'
      BY <1>4, <1>5, <3>1, <3>3
    <3> QED BY <3>1, <3>2, <3>4 DEF Moved
  <2>4. ASSUME phase = "REFLECTION", step = "approve" PROVE FALSE
    BY <1>3, <2>1, <2>4 DEF Owes
  <2>5. ASSUME phase = "REFLECTION", step = "announce", v.place[1] = "concepts" PROVE Crowned(v)'
    <3>1. Crowned(v) /\ v.place = <<"concepts", v.place[2]>>
      BY <2>1, <2>5 DEF Owes, Shaped, Kinds
    <3>2. PICK i : i = hand.winner
      OBVIOUS
    <3>3. i \in Stored("concepts") /\ w.place # <<"concepts", i>>
      BY <2>1, <2>5, <3>1, <3>2 DEF HandInv, Crowned
    <3>4. Concept(i)' = Concept(i)
      BY <1>4, <3>3
    <3> QED BY <1>1, <3>1, <3>2, <3>4 DEF Crowned
  <2>6. ASSUME phase = "REFLECTION", step = "announce", v.place[1] = "handoff" PROVE HandedOff(v)'
    <3>1. HandedOff(v)
      BY <2>1, <2>6 DEF Owes
    <3> QED BY <1>1, <1>3, <3>1 DEF HandedOff
  <2>7. phase \in {"CREATION", "EXPLORATION"} => v.place[1] # "concepts"
    BY <2>1, <2>2 DEF Owes
  <2>9. Package(v.place) => v = todo'[Len(todo')]
    <3>1. todo' # <<>>
      <4>1. PICK t : t = todo'
        OBVIOUS
      <4>2. v \in Items(t)
        BY <1>3, <4>1
      <4> QED BY <4>1, <4>2, NoneIsTidy
    <3>2. todo'[Len(todo')] = todo[Len(todo)]
      BY <3>1, Writing
    <3> QED BY <2>1, <3>2 DEF Owes
  <2>8. phase = "REFLECTION" /\ step = "announce" => v.place[1] # "projects"
    BY <2>1, <2>2 DEF Owes
  <2> QED BY <1>1, <2>1, <2>3, <2>4, <2>5, <2>6, <2>7, <2>8, <2>9 DEF Owes
<1> QED BY <1>3, <1>6 DEF TodoInv

\* Nobody the judge may still choose is developed behind its back.
LEMMA WritingKeepsUnspoilt ==
  ASSUME WriteNext, StoreInv, PhaseInv, TodoInv, HandInv,
         phase = "REFLECTION", step \in {"judge", "develop"}, NEW i, Unspoilt(i)
  PROVE  Unspoilt(i)'
<1>1. PICK w : w = todo[1]
  OBVIOUS
<1>2. /\ Stored("concepts") \subseteq Stored("concepts")' /\ disk'[w.place] = w.value
      /\ \A k \in Stored("concepts") : w.place # <<"concepts", k>> => Concept(k)' = Concept(k)
      /\ Owes(w)
  BY <1>1, StoreChanges, Writing DEF Kinds
<1>3. w.place[1] # "projects"
  BY <1>2 DEF Owes
<1>4. ~Owned(i)' /\ i \in Stored("concepts") /\ Undeveloped(Concept(i).artifacts)
  BY <1>1, <1>3, OwnedIsKept DEF Unspoilt
<1>5. Concept(i)'.artifacts = Concept(i).artifacts
  <2>1. CASE w.place = <<"concepts", i>>
    <3>1. w.place[1] = "concepts" /\ w.place[2] = i
      BY <2>1
    <3>2. w.value = [Concept(i) EXCEPT !.stage = w.value.stage]
      BY <1>2, <3>1 DEF Owes, Moved
    <3>3. IsIdea(Concept(i))
      BY <1>4 DEF StoreInv
    <3>4. w.value.artifacts = Concept(i).artifacts
      BY <3>2, <3>3, Restaged
    <3> QED BY <1>2, <2>1, <3>4 DEF Concept
  <2>2. CASE w.place # <<"concepts", i>>
    BY <1>2, <1>4, <2>2
  <2> QED BY <2>1, <2>2
<1> QED BY <1>2, <1>4, <1>5 DEF Unspoilt, Undeveloped

LEMMA WritingKeepsHand ==
  ASSUME WriteNext, StoreInv, PhaseInv, TodoInv, HandInv PROVE HandInv'
<1>1. UNCHANGED <<phase, step, hand, visited, cycle, folder, outcome>>
  BY WritersWork
<1>2. Final' = Final
  BY Writing
<1>3. PICK w : w = todo[1]
  OBVIOUS
<1>4. /\ Stored("concepts") \subseteq Stored("concepts")' /\ disk'[w.place] = w.value
      /\ \A i \in Stored("concepts") : w.place # <<"concepts", i>> => Concept(i)' = Concept(i)
      /\ Owes(w)
  BY <1>3, StoreChanges, Writing DEF Kinds
<1>5. \A i : Owned(i)' => Owned(i) \/ w.place[1] = "projects"
  BY <1>3, OwnedIsKept
<1> SUFFICES ASSUME phase = "REFLECTION"
             PROVE  /\ step = "judge" => \A i \in hand : Unspoilt(i)'
                    /\ step = "develop" => Unspoilt(hand)' /\ Final[<<"concepts", hand>>].stage = "APPROVED"
                    /\ step = "approve" =>
                         /\ hand \in Stored("concepts")' /\ ~Owned(hand)'
                         /\ Final[<<"concepts", hand>>].stage = "APPROVED"
                         /\ Whole(Final[<<"concepts", hand>>].artifacts)
                    /\ step = "announce" =>
                         /\ hand.winner \in Stored("concepts")' /\ Tells(Final, hand, folder, cycle)
                         /\ Concept(hand.winner)'.stage \in {"APPROVED", "PRODUCTION_READY"}
  <2>1. PICK h : h = hand
    OBVIOUS
  <2>2. (\A i \in h : Unspoilt(i)') => \A i \in hand' : Unspoilt(i)'
    BY <1>1, <2>1
  <2>3. Unspoilt(h)' => Unspoilt(hand)'
    BY <1>1, <2>1 DEF Unspoilt, Owned, Concept
  <2>4. Owned(hand)' => Owned(h)'
    BY <1>1, <2>1 DEF Owned
  <2>5. Concept(hand.winner)' = Concept(h.winner)'
    BY <1>1, <2>1 DEF Concept
  <2> QED BY <1>1, <1>2, <2>1, <2>2, <2>3, <2>4, <2>5 DEF HandInv
<1>6. CASE step = "judge"
  BY <1>6, WritingKeepsUnspoilt DEF HandInv
<1>7. CASE step = "develop"
  <2>1. PICK h : h = hand
    OBVIOUS
  <2>2. Unspoilt(h) /\ Final[<<"concepts", hand>>].stage = "APPROVED"
    BY <1>7, <2>1 DEF HandInv
  <2>3. Unspoilt(h)'
    BY <1>7, <2>2, WritingKeepsUnspoilt
  <2>4. Unspoilt(hand)'
    BY <1>1, <2>1, <2>3 DEF Unspoilt, Owned, Concept
  <2> QED BY <1>7, <2>2, <2>4
<1>8. CASE step = "approve"
  <2>1. w.place[1] = "concepts"
    BY <1>4, <1>8 DEF Owes
  <2>2. PICK h : h = hand
    OBVIOUS
  <2>3. h \in Stored("concepts") /\ ~Owned(h)
    BY <1>8, <2>2 DEF HandInv
  <2>4. h \in Stored("concepts")' /\ ~Owned(h)'
    BY <1>4, <1>5, <2>1, <2>3
  <2> QED BY <1>1, <1>8, <2>2, <2>4 DEF HandInv, Owned
<1>9. CASE step = "announce"
  <2>1. PICK i : i = hand.winner
    OBVIOUS
  <2>2. i \in Stored("concepts") /\ Concept(i).stage \in {"APPROVED", "PRODUCTION_READY"}
        /\ Tells(Final, hand, folder, cycle)
    BY <1>9, <2>1 DEF HandInv
  <2>3. Concept(i)'.stage \in {"APPROVED", "PRODUCTION_READY"}
    <3>1. CASE w.place = <<"concepts", i>>
      <4>1. w.place[1] = "concepts" /\ w.place[2] = i
        BY <3>1
      <4>2. w.value = [Concept(i) EXCEPT !.stage = "PRODUCTION_READY"]
        BY <1>4, <1>9, <2>1, <4>1 DEF Owes, Crowned
      <4>3. IsIdea(Concept(i))
        BY <2>2 DEF StoreInv
      <4>4. w.value.stage = "PRODUCTION_READY"
        BY <4>2, <4>3, Restaged
      <4> QED BY <1>4, <3>1, <4>4 DEF Concept
    <3>2. CASE w.place # <<"concepts", i>>
      BY <1>4, <2>2, <3>2
    <3> QED BY <3>1, <3>2
  <2> QED BY <1>1, <1>4, <1>9, <2>1, <2>2, <2>3 DEF Concept
<1> QED BY <1>6, <1>7, <1>8, <1>9

-----------------------------------------------------------------------------
(* Steps that write no file. *)

LEMMA Unwritten ==
  ASSUME disk' = disk
  PROVE  /\ \A kind : Stored(kind)' = Stored(kind)
         /\ \A i : Concept(i)' = Concept(i)
         /\ \A i : Owned(i)' <=> Owned(i)
<1>1. \A kind : Stored(kind)' = Stored(kind)
  BY DEF Stored
<1>2. \A i : Concept(i)' = Concept(i)
  BY DEF Concept
<1>3. \A i : Owned(i)' <=> Owned(i)
  BY DEF Owned, Stored
<1> QED BY <1>1, <1>2, <1>3

LEMMA WholeUnwritten ==
  ASSUME disk' = disk, ProjectsAreWhole PROVE ProjectsAreWhole'
BY DEF ProjectsAreWhole, Stored, Concept

\* An idea is the same whatever is written, in a cycle or a later one.
LEMMA IdeasStay ==
  ASSUME NEW c, IsIdea(c), cycle \in Nat, cycle' = cycle \/ cycle' = cycle + 1
  PROVE  IsIdea(c)'
<1>1. c.cycle \in 0 .. cycle'
  BY DEF IsIdea
<1> QED BY <1>1 DEF IsIdea

LEMMA StoreOutlives ==
  ASSUME StoreInv, disk' = disk, (cycle' = cycle /\ (Reflecting => Reflecting')) \/ cycle' = cycle + 1
  PROVE  StoreInv'
<1>1. /\ \A kind : Stored(kind)' = Stored(kind)
      /\ \A i : Concept(i)' = Concept(i)
  BY Unwritten
<1>2. cycle \in Nat /\ cycle' \in Nat
  BY DEF StoreInv
<1>3. ASSUME NEW i \in Stored("concepts")
      PROVE  /\ IsIdea(Concept(i))'
             /\ Concept(i)'.stage = "CONCEPT" => Undeveloped(Concept(i)'.artifacts)
             /\ Concept(i)'.cycle = cycle' /\ ~Reflecting' => Concept(i)'.stage = "CONCEPT"
  <2>1. PICK c : c = Concept(i)
    OBVIOUS
  <2>2. /\ IsIdea(c) /\ (c.stage = "CONCEPT" => Undeveloped(c.artifacts))
        /\ c.cycle = cycle /\ ~Reflecting => c.stage = "CONCEPT"
    BY <2>1 DEF StoreInv
  <2>3. Concept(i)' = c
    BY <1>1, <2>1
  <2>4. IsIdea(c)'
    BY <1>2, <2>2, IdeasStay
  <2>5. c.cycle # cycle + 1
    BY <1>2, <2>2 DEF IsIdea
  <2>6. IsIdea(Concept(i))'
    BY <2>3, <2>4 DEF IsIdea
  <2> QED BY <2>2, <2>3, <2>5, <2>6
<1>4. disk' = [q \in DOMAIN disk' |-> disk'[q]] /\ \A q \in DOMAIN disk' : Shaped(q)
  BY DEF StoreInv
<1>5. \A kind \in {"concepts", "projects"} :
        Cardinality(Stored(kind)') \in Nat /\ Stored(kind)' = 1 .. Cardinality(Stored(kind)')
  BY <1>1 DEF StoreInv
<1>6. \A id \in Stored("projects")' : disk'[<<"projects", id>>].concept \in Stored("concepts")'
  BY <1>1 DEF StoreInv
<1> QED BY <1>1, <1>2, <1>3, <1>4, <1>5, <1>6 DEF StoreInv

LEMMA ReportsOutlive ==
  ASSUME ReportInv, StoreInv, disk' = disk,
         (cycle' = cycle /\ (Closed => Closed')) \/ cycle' = cycle + 1
  PROVE  ReportInv'
<1>1. cycle \in Nat
  BY DEF StoreInv
<1>2. ASSUME NEW at \in DOMAIN disk, Report(at)
      PROVE  at[3] \in 0 .. cycle' /\ (at[3] = cycle' => Closed')
  <2>1. at[3] \in 0 .. cycle /\ (at[3] = cycle => Closed)
    BY <1>2 DEF ReportInv
  <2> QED BY <1>1, <2>1
<1> QED BY <1>2 DEF ReportInv, Report

LEMMA NothingToDo ==
  ASSUME todo' = <<>> PROVE TodoInv'
<1>1. PICK t : t = todo'
  OBVIOUS
<1>2. Tidy(t) /\ Items(t) = {}
  BY <1>1, NoneIsTidy
<1> QED BY <1>1, <1>2 DEF TodoInv

LEMMA StartsSound == ASSUME Init PROVE IInv
<1>1. Items(todo) = {} /\ Tidy(todo)
  BY NoneIsTidy DEF Init
<1>2. DOMAIN disk = {} /\ disk = [q \in DOMAIN disk |-> disk[q]]
  BY DEF Init
<1>3. \A kind : Stored(kind) = {}
  BY <1>2 DEF Stored
<1>4. StoreInv
  <2>1. Cardinality({}) = 0 /\ 1 .. 0 = {}
    BY FS_EmptySet
  <2>2. \A kind \in {"concepts", "projects"} :
          Cardinality(Stored(kind)) \in Nat /\ Stored(kind) = 1 .. Cardinality(Stored(kind))
    BY <1>3, <2>1
  <2>3. cycle \in Nat
    BY DEF Init
  <2> QED BY <1>2, <1>3, <2>2, <2>3 DEF StoreInv
<1>5. PhaseInv /\ HandInv /\ OutcomeInv
  BY DEF PhaseInv, HandInv, OutcomeInv, Init, Idling, Nothing, Nobody
<1>6. TodoInv
  BY <1>1 DEF TodoInv
<1>7. ReportInv /\ ProjectsAreWhole
  BY <1>2, <1>3 DEF ReportInv, ProjectsAreWhole
<1> QED BY <1>4, <1>5, <1>6, <1>7 DEF IInv

LEMMA BootKeeps == ASSUME ~IdsRepeat, IInv, Boot PROVE IInv'
<1> USE DEF Boot
<1>1. phase = "down" /\ phase' = "asleep" /\ todo = <<>> /\ todo' = <<>> /\ disk' = disk
      /\ UNCHANGED <<step, visited, cycle, outcome>>
  BY DEF IInv, PhaseInv, Idling
<1>2. StoreInv'
  BY <1>1, StoreOutlives DEF IInv, Reflecting
<1>3. PhaseInv'
  BY <1>1 DEF IInv, PhaseInv, Idling, Working
<1>4. TodoInv'
  BY <1>1, NothingToDo
<1>5. HandInv' /\ OutcomeInv'
  BY <1>1 DEF HandInv, OutcomeInv
<1>6. ReportInv'
  BY <1>1, ReportsOutlive DEF IInv, Closed
<1>7. ProjectsAreWhole'
  BY <1>1, WholeUnwritten DEF IInv
<1> QED BY <1>2, <1>3, <1>4, <1>5, <1>6, <1>7 DEF IInv

LEMMA BeginKeeps == ASSUME IInv, BeginCycle PROVE IInv'
<1>1. phase = "asleep" /\ phase' = "between" /\ todo = <<>> /\ todo' = <<>> /\ disk' = disk
      /\ cycle' = cycle + 1 /\ outcome' = Nothing /\ step' = step
  BY DEF IInv, PhaseInv, Idling, BeginCycle
<1>2. StoreInv'
  BY <1>1, StoreOutlives DEF IInv
<1>3. PhaseInv'
  BY <1>1 DEF IInv, PhaseInv, Idling, Working
<1>4. TodoInv'
  BY <1>1, NothingToDo
<1>5. HandInv' /\ OutcomeInv'
  BY <1>1 DEF HandInv, OutcomeInv, Nothing
<1>6. ReportInv'
  BY <1>1, ReportsOutlive DEF IInv
<1>7. ProjectsAreWhole'
  BY <1>1, WholeUnwritten DEF IInv
<1> QED BY <1>2, <1>3, <1>4, <1>5, <1>6, <1>7 DEF IInv

\* The date means nothing to what is stored.
LEMMA MidnightKeeps ==
  ASSUME IInv, UNCHANGED <<phase, step, todo, hand, disk, faults, held>> PROVE IInv'
<1>1. UNCHANGED <<phase, step, todo, hand, disk, visited, cycle, society, folder, outcome>>
  BY DEF held
<1>2. StoreInv'
  BY <1>1, StoreOutlives DEF IInv, Reflecting
<1>3. PhaseInv'
  BY <1>1 DEF IInv, PhaseInv
<1>4. TodoInv'
  <2>1. \A w \in Items(todo) : Owes(w) => Owes(w)'
    <3> SUFFICES ASSUME NEW w \in Items(todo), Owes(w) PROVE Owes(w)'
      OBVIOUS
    <3>1. Newborn(w)' = Newborn(w)
      BY <1>1 DEF Newborn, Stored, IsIdea
    <3>2. Moved(w)' = Moved(w)
      BY <1>1 DEF Moved, Owned, Stored, Concept
    <3>3. Promoted(w)' = Promoted(w)
      BY <1>1 DEF Promoted, Owned, Stored, Concept
    <3>4. Crowned(w)' = Crowned(w)
      BY <1>1 DEF Crowned, Concept
    <3>5. HandedOff(w)' = HandedOff(w)
      BY <1>1 DEF HandedOff, Final
    <3>6. Concept(hand)' = Concept(hand)
      BY <1>1 DEF Concept
    <3>7. IsIdea(w.value)' = IsIdea(w.value)
      BY <1>1 DEF IsIdea
    <3> QED BY <1>1, <3>1, <3>2, <3>3, <3>4, <3>5, <3>6, <3>7 DEF Owes
  <2> QED BY <1>1, <2>1 DEF IInv, TodoInv
<1>5. HandInv'
  BY <1>1 DEF IInv, HandInv, Final, Unspoilt, Owned, Stored, Concept
<1>6. OutcomeInv' /\ ReportInv'
  BY <1>1 DEF IInv, OutcomeInv, ReportInv, Closed
<1>7. ProjectsAreWhole'
  BY <1>1, WholeUnwritten DEF IInv
<1> QED BY <1>2, <1>3, <1>4, <1>5, <1>6, <1>7 DEF IInv

LEMMA EnterKeeps == ASSUME IInv, NEW n \in 1 .. Len(CycleOrder), Enter(n) PROVE IInv'
<1>1. /\ phase = "between" /\ phase' = CycleOrder[n] /\ step' = "start" /\ todo = <<>> /\ todo' = <<>>
      /\ visited' = visited \cup {CycleOrder[n]} /\ UNCHANGED <<disk, cycle, folder, outcome>>
  BY DEF IInv, PhaseInv, Idling, Enter
<1>2. Len(CycleOrder) = 6 /\ n \in 1 .. 6
  BY DEF CycleOrder
<1>3. /\ n \in 1 .. 2 => "REFLECTION" \notin visited
      /\ phase' \in Working /\ (phase' = "CREATION" => n = 1) /\ (phase' = "REFLECTION" <=> n = 2)
  <2>1. \A k \in 1 .. 6 : k >= n => CycleOrder[k] \notin visited
    BY <1>2 DEF Enter
  <2>2. CycleOrder[2] = "REFLECTION"
    BY DEF CycleOrder
  <2>3. n \in 1 .. 2 => "REFLECTION" \notin visited
    BY <2>1, <2>2
  <2>4. n = 1 \/ n = 2 \/ n = 3 \/ n = 4 \/ n = 5 \/ n = 6
    BY <1>2
  <2>5. /\ CycleOrder[1] = "CREATION" /\ CycleOrder[3] = "EXPLORATION" /\ CycleOrder[4] = "CONSOLIDATION"
        /\ CycleOrder[5] = "DREAMING" /\ CycleOrder[6] = "DEEP_SLEEP"
    BY DEF CycleOrder
  <2> QED BY <1>1, <2>2, <2>3, <2>4, <2>5 DEF Working
<1>4. n \in 1 .. 2 \/ (n # 1 /\ n # 2)
  OBVIOUS
<1>5. Reflecting => Reflecting'
  BY <1>1, <1>3, <1>4 DEF Reflecting
<1>6. StoreInv'
  BY <1>1, <1>5, StoreOutlives DEF IInv
<1>7. PhaseInv'
  BY <1>1, <1>3 DEF IInv, PhaseInv
<1>8. TodoInv'
  BY <1>1, NothingToDo
<1>9. HandInv'
  BY <1>1 DEF HandInv
<1>10. OutcomeInv'
  BY <1>1, <1>3, <1>4 DEF IInv, OutcomeInv, Working
<1>11. ReportInv'
  BY <1>1, ReportsOutlive DEF IInv, Closed
<1>12. ProjectsAreWhole'
  BY <1>1, WholeUnwritten DEF IInv
<1> QED BY <1>6, <1>7, <1>8, <1>9, <1>10, <1>11, <1>12 DEF IInv

LEMMA LeaveKeeps == ASSUME IInv, Leave PROVE IInv'
<1>1. /\ step = "done" /\ todo = <<>> /\ todo' = <<>> /\ step' = "start"
      /\ phase' = (IF phase = "DEEP_SLEEP" THEN "asleep" ELSE "between")
      /\ UNCHANGED <<disk, visited, cycle, folder, outcome>> /\ phase \in Working
  BY DEF IInv, PhaseInv, Leave, held
<1>2. StoreInv'
  BY <1>1, StoreOutlives DEF IInv, Reflecting
<1>3. PhaseInv'
  BY <1>1 DEF IInv, PhaseInv, Idling
<1>4. TodoInv'
  BY <1>1, NothingToDo
<1>5. HandInv'
  BY <1>1 DEF HandInv
<1>6. OutcomeInv'
  BY <1>1 DEF IInv, OutcomeInv, Working
<1>7. ReportInv'
  BY <1>1, ReportsOutlive DEF IInv, Closed, Working
<1>8. ProjectsAreWhole'
  BY <1>1, WholeUnwritten DEF IInv
<1> QED BY <1>2, <1>3, <1>4, <1>5, <1>6, <1>7, <1>8 DEF IInv

-----------------------------------------------------------------------------
(* What goes wrong keeps the invariant. *)

LEMMA DownIsSound ==
  ASSUME phase' \in {"down", "between"}, step' = "start", todo' = <<>>
  PROVE  PhaseInv' /\ TodoInv' /\ HandInv'
<1>1. PhaseInv'
  BY DEF PhaseInv, Idling, Working
<1>2. TodoInv'
  BY NothingToDo
<1>3. HandInv'
  BY DEF HandInv
<1> QED BY <1>1, <1>2, <1>3

\* A process that ends without writing.
LEMMA DyingKeeps ==
  ASSUME IInv, phase # "down", Die, disk' = disk PROVE IInv'
<1>1. /\ phase' = "down" /\ step' = "start" /\ todo' = <<>>
      /\ UNCHANGED <<visited, cycle, folder, outcome>>
  BY DEF Die, held
<1>2. StoreInv'
  BY <1>1, StoreOutlives DEF IInv, Reflecting
<1>3. PhaseInv' /\ TodoInv' /\ HandInv'
  BY <1>1, DownIsSound
<1>4. OutcomeInv'
  BY <1>1 DEF OutcomeInv
<1>5. ReportInv'
  BY <1>1, ReportsOutlive DEF IInv, Closed
<1>6. ProjectsAreWhole'
  BY WholeUnwritten DEF IInv
<1> QED BY <1>2, <1>3, <1>4, <1>5, <1>6 DEF IInv

\* A promise survives a file of another cycle.
LEMMA AFileApart ==
  ASSUME NEW d, NEW e, NEW q, NEW told, NEW date, NEW c, Tells(d, told, date, c),
         q[1] = "outputs", q[3] # c,
         DOMAIN e = DOMAIN d \cup {q}, \A r \in DOMAIN d : r # q => e[r] = d[r]
  PROVE  Tells(e, told, date, c)
<1>1. \A r \in DOMAIN d : r[1] # "outputs" \/ r[3] = c => r \in DOMAIN e /\ e[r] = d[r]
  OBVIOUS
<1>2. PICK id : id = told.project
  OBVIOUS
<1>3. PICK i : i = told.winner
  OBVIOUS
<1>4. PICK p : p = d[<<"projects", id>>]
  OBVIOUS
<1>5. /\ {<<"projects", id>>, <<"canon", id>>, <<"concepts", i>>} \cup Tournaments(date, c) \subseteq DOMAIN d
      /\ p.concept = i /\ p.title = told.title /\ p.cycle = c
      /\ d[<<"concepts", i>>].stage = "PRODUCTION_READY"
      /\ \A r \in Tournaments(date, c) : d[r] = Tournament(i, TRUE)
      /\ HandoffEnabled => \A x \in p.engines : <<"handoff", id, x>> \in DOMAIN d
      /\ \A file \in ToSet(PackageFiles(i, p.artifacts, id, p)) :
           <<"outputs", date, c, file[1]>> \in DOMAIN d /\ d[<<"outputs", date, c, file[1]>>] = file[2]
  BY <1>2, <1>3, <1>4 DEF Tells
<1>6. \A r \in {<<"projects", id>>, <<"canon", id>>, <<"concepts", i>>} \cup Tournaments(date, c) :
        r \in DOMAIN e /\ e[r] = d[r]
  <2> TAKE r \in {<<"projects", id>>, <<"canon", id>>, <<"concepts", i>>} \cup Tournaments(date, c)
  <2>1. r \in DOMAIN d /\ (r[1] # "outputs" \/ r[3] = c)
    BY <1>5 DEF Tournaments
  <2> QED BY <1>1, <2>1
<1>7. HandoffEnabled => \A x \in p.engines : <<"handoff", id, x>> \in DOMAIN e
  BY <1>5
<1>8. \A file \in ToSet(PackageFiles(i, p.artifacts, id, p)) :
        <<"outputs", date, c, file[1]>> \in DOMAIN e /\ e[<<"outputs", date, c, file[1]>>] = file[2]
  <2> TAKE file \in ToSet(PackageFiles(i, p.artifacts, id, p))
  <2>1. PICK r : r = <<"outputs", date, c, file[1]>>
    OBVIOUS
  <2>2. r \in DOMAIN d /\ d[r] = file[2] /\ r[3] = c
    BY <1>5, <2>1
  <2> QED BY <1>1, <2>1, <2>2
<1>9. e[<<"projects", id>>] = p /\ e[<<"concepts", i>>].stage = "PRODUCTION_READY"
      /\ \A r \in Tournaments(date, c) : e[r] = Tournament(i, TRUE)
  BY <1>4, <1>5, <1>6
<1> QED BY <1>2, <1>3, <1>5, <1>6, <1>7, <1>8, <1>9 DEF Tells

\* A file of the output folder is neither an idea nor a project nor a hand-off.
LEMMA OutputsAreApart ==
  ASSUME StoreInv, NEW q, q[1] = "outputs", DOMAIN disk' = DOMAIN disk \cup {q},
         \A r \in DOMAIN disk : r # q => disk'[r] = disk[r]
  PROVE  /\ \A kind \in Kinds : Stored(kind)' = Stored(kind)
         /\ \A i \in Stored("concepts") : Concept(i)' = Concept(i)
         /\ \A id \in Stored("projects") : disk'[<<"projects", id>>] = disk[<<"projects", id>>]
<1>1. \A kind \in Kinds : Stored(kind)' = Stored(kind)
  BY DEF Stored, Kinds
<1>2. \A kind \in Kinds : \A i \in Stored(kind) : disk'[<<kind, i>>] = disk[<<kind, i>>]
  <2> TAKE kind \in Kinds
  <2> TAKE i \in Stored(kind)
  <2>1. PICK r : r = <<kind, i>>
    OBVIOUS
  <2>2. r \in DOMAIN disk /\ r[1] = kind
    BY <2>1, StoredAt
  <2> QED BY <2>1, <2>2 DEF Kinds
<1>3. \A i \in Stored("concepts") : Concept(i)' = Concept(i)
  BY <1>2 DEF Concept, Kinds
<1>4. \A id \in Stored("projects") : disk'[<<"projects", id>>] = disk[<<"projects", id>>]
  BY <1>2 DEF Kinds
<1> QED BY <1>1, <1>3, <1>4

LEMMA TearingKeeps ==
  ASSUME IInv, Die, todo # <<>>, MayTear(Head(todo)), disk' = With(Head(todo).place, <<"torn">>)
  PROVE  IInv'
<1>1. /\ phase' = "down" /\ step' = "start" /\ todo' = <<>>
      /\ UNCHANGED <<visited, cycle, folder, outcome>>
  BY DEF Die, held
<1>2. PICK w : w = Head(todo)
  OBVIOUS
<1>3. PICK q : q = w.place
  OBVIOUS
<1>4. w \in Items(todo)
  <2>1. PICK s : s = todo
    OBVIOUS
  <2>2. s \in Seq(Items(s)) /\ s # <<>> /\ Tidy(s)
    BY <2>1 DEF IInv, TodoInv, Tidy
  <2>3. Head(s) = s[1] /\ s[1] \in Items(s)
    BY <2>2, ItemsAreApart
  <2> QED BY <1>2, <2>1, <2>3
<1>5. q[1] = "outputs" /\ q[3] = cycle /\ q[4] \in InPlace /\ Shaped(q)
  BY <1>2, <1>3, <1>4 DEF IInv, TodoInv, Owes, MayTear
<1>6. /\ disk' = [r \in DOMAIN disk \cup {q} |-> IF r = q THEN <<"torn">> ELSE disk[r]]
  BY <1>2, <1>3 DEF With
<1>7. /\ DOMAIN disk' = DOMAIN disk \cup {q} /\ disk' = [r \in DOMAIN disk' |-> disk'[r]]
      /\ \A r \in DOMAIN disk : r # q => disk'[r] = disk[r]
  BY <1>6
<1>8. /\ \A kind \in Kinds : Stored(kind)' = Stored(kind)
      /\ \A i \in Stored("concepts") : Concept(i)' = Concept(i)
      /\ \A id \in Stored("projects") : disk'[<<"projects", id>>] = disk[<<"projects", id>>]
  BY <1>5, <1>7, OutputsAreApart DEF IInv
<1>9. StoreInv'
  <2>1. ASSUME NEW i \in Stored("concepts")
        PROVE  /\ IsIdea(Concept(i))'
               /\ Concept(i)'.stage = "CONCEPT" => Undeveloped(Concept(i)'.artifacts)
               /\ Concept(i)'.cycle = cycle' /\ ~Reflecting' => Concept(i)'.stage = "CONCEPT"
    <3>1. PICK c : c = Concept(i)
      OBVIOUS
    <3>2. /\ IsIdea(c) /\ (c.stage = "CONCEPT" => Undeveloped(c.artifacts))
          /\ c.cycle = cycle /\ ~Reflecting => c.stage = "CONCEPT"
      BY <3>1 DEF IInv, StoreInv
    <3>3. Concept(i)' = c /\ (Reflecting => Reflecting')
      BY <1>1, <1>8, <3>1 DEF Reflecting
    <3>4. IsIdea(Concept(i))'
      BY <1>1, <3>2, <3>3 DEF IsIdea
    <3> QED BY <1>1, <3>2, <3>3, <3>4
  <2>2. cycle' \in Nat
    BY <1>1 DEF IInv, StoreInv
  <2>3. \A r \in DOMAIN disk' : Shaped(r)
    BY <1>5, <1>7 DEF IInv, StoreInv
  <2>4. Stored("concepts")' = Stored("concepts") /\ Stored("projects")' = Stored("projects")
    BY <1>8 DEF Kinds
  <2>5. \A kind \in {"concepts", "projects"} :
          Cardinality(Stored(kind)') \in Nat /\ Stored(kind)' = 1 .. Cardinality(Stored(kind)')
    BY <2>4 DEF IInv, StoreInv
  <2>6. \A id \in Stored("projects")' : disk'[<<"projects", id>>].concept \in Stored("concepts")'
    BY <1>8, <2>4 DEF IInv, StoreInv
  <2> QED BY <1>7, <2>1, <2>2, <2>3, <2>4, <2>5, <2>6 DEF StoreInv
<1>10. PhaseInv' /\ TodoInv' /\ HandInv'
  BY <1>1, DownIsSound
<1>11. OutcomeInv'
  BY <1>1 DEF OutcomeInv
<1>12. ReportInv'
  <2>1. cycle \in Nat /\ ~Closed
    BY DEF IInv, StoreInv, PhaseInv, Closed, Idling
  <2>2. ASSUME NEW at \in DOMAIN disk', Report(at)
        PROVE  /\ at[3] \in 0 .. cycle
               /\ disk'[at].winner # Nobody => Tells(disk', disk'[at], at[2], at[3])
    <3>1. at # q
      BY <1>5, <2>2 DEF Report, InPlace
    <3>2. at \in DOMAIN disk /\ disk'[at] = disk[at]
      BY <1>7, <3>1
    <3>3. PICK told : told = disk[at]
      OBVIOUS
    <3>4. /\ at[3] \in 0 .. cycle /\ at[3] # cycle
          /\ told.winner # Nobody => Tells(disk, told, at[2], at[3])
      BY <2>1, <2>2, <3>2, <3>3 DEF IInv, ReportInv
    <3>5. PICK d : d = disk
      OBVIOUS
    <3>6. PICK e : e = disk'
      OBVIOUS
    <3>7. told.winner # Nobody => Tells(e, told, at[2], at[3])
      <4> SUFFICES ASSUME told.winner # Nobody PROVE Tells(e, told, at[2], at[3])
        OBVIOUS
      <4>1. Tells(d, told, at[2], at[3]) /\ q[1] = "outputs" /\ q[3] # at[3]
        BY <1>5, <3>4, <3>5
      <4>2. DOMAIN e = DOMAIN d \cup {q} /\ \A r \in DOMAIN d : r # q => e[r] = d[r]
        BY <1>7, <3>5, <3>6
      <4>3. PICK date, c : date = at[2] /\ c = at[3]
        OBVIOUS
      <4>4. Tells(d, told, date, c) /\ q[3] # c
        BY <4>1, <4>3
      <4>5. Tells(e, told, date, c)
        BY <4>1, <4>2, <4>4, AFileApart
      <4> QED BY <4>3, <4>5
    <3> QED BY <3>2, <3>3, <3>4, <3>6, <3>7
  <2> QED BY <1>1, <2>2 DEF ReportInv, Closed, Report
<1>13. ProjectsAreWhole'
  <2>1. Stored("projects")' = Stored("projects")
    BY <1>8 DEF Kinds
  <2>2. (\A id \in Stored("projects") : WholeProject(id)) /\ OneProjectEach /\ HandoffsAreAskedFor
    BY PartsOfWhole DEF IInv
  <2>3. \A id \in Stored("projects")' : WholeProject(id)'
    <3> SUFFICES ASSUME NEW id \in Stored("projects") PROVE WholeProject(id)'
      BY <2>1
    <3>1. PICK p : p = disk[<<"projects", id>>]
      OBVIOUS
    <3>2. PICK i : i = p.concept
      OBVIOUS
    <3>3. i \in Stored("concepts") /\ disk'[<<"projects", id>>] = p
      BY <1>8, <3>1, <3>2 DEF IInv, StoreInv
    <3>4. Concept(i)' = Concept(i)
      BY <1>8, <3>3
    <3>5. /\ Whole(p.artifacts) /\ Concept(i).artifacts = p.artifacts
          /\ Concept(i).stage \in {"APPROVED", "PRODUCTION_READY"}
      BY <2>2, <3>1, <3>2 DEF WholeProject
    <3> QED BY <3>2, <3>3, <3>4, <3>5 DEF WholeProject
  <2>4. OneProjectEach'
    BY <1>8, <2>1, <2>2 DEF OneProjectEach
  <2>5. HandoffsAreAskedFor'
    <3> SUFFICES ASSUME NEW at \in DOMAIN disk', at[1] = "handoff"
                 PROVE  at[2] \in Stored("projects") /\ at[3] \in disk'[<<"projects", at[2]>>].engines
      BY <2>1 DEF HandoffsAreAskedFor
    <3>1. at \in DOMAIN disk
      BY <1>5, <1>7
    <3>2. at[2] \in Stored("projects") /\ at[3] \in disk[<<"projects", at[2]>>].engines
      BY <2>2, <3>1 DEF HandoffsAreAskedFor
    <3> QED BY <1>8, <3>2
  <2> QED BY <2>3, <2>4, <2>5
          DEF ProjectsAreWhole, WholeProject, OneProjectEach, HandoffsAreAskedFor, Whole, Texts
<1> QED BY <1>9, <1>10, <1>11, <1>12, <1>13 DEF IInv

LEMMA AbandonKeeps == ASSUME IInv, Abandon PROVE IInv'
<1>1. /\ phase = "REFLECTION" /\ step = "develop" /\ phase' = "between" /\ step' = "start"
      /\ todo' = <<>> /\ UNCHANGED <<disk, visited, cycle, folder, outcome>>
  BY DEF Abandon, At, held
<1>2. "REFLECTION" \in visited
  BY <1>1 DEF IInv, PhaseInv
<1>3. StoreInv'
  BY <1>1, <1>2, StoreOutlives DEF IInv, Reflecting
<1>4. PhaseInv' /\ TodoInv' /\ HandInv'
  BY <1>1, DownIsSound
<1>5. OutcomeInv'
  BY <1>1 DEF IInv, OutcomeInv
<1>6. ReportInv'
  BY <1>1, ReportsOutlive DEF IInv, Closed
<1>7. ProjectsAreWhole'
  BY <1>1, WholeUnwritten DEF IInv
<1> QED BY <1>3, <1>4, <1>5, <1>6, <1>7 DEF IInv

\* With nothing owed, the files are those of now.
LEMMA NowIsFinal == ASSUME StoreInv, todo = <<>> PROVE Final = disk
<1>1. Items(todo) = {}
  BY NoneIsTidy
<1>2. PICK d : d = disk
  OBVIOUS
<1>3. d = [q \in DOMAIN d |-> d[q]]
  BY <1>2 DEF StoreInv
<1> QED BY <1>1, <1>2, <1>3, NothingOwed DEF Final

LEMMA AnnounceKeeps == ASSUME IInv, Announce PROVE IInv'
<1>1. /\ phase = "REFLECTION" /\ phase' = phase /\ step = "announce" /\ step' = "done"
      /\ todo = <<>> /\ todo' = <<>> /\ outcome' = hand /\ UNCHANGED <<disk, visited, cycle, folder>>
  BY DEF Announce, At
<1>2. StoreInv'
  BY <1>1, StoreOutlives DEF IInv, Reflecting
<1>3. PhaseInv'
  BY <1>1 DEF IInv, PhaseInv, Idling
<1>4. TodoInv'
  BY <1>1, NothingToDo
<1>5. HandInv'
  BY <1>1 DEF HandInv
<1>6. OutcomeInv'
  <2>1. Tells(disk, hand, folder, cycle)
    BY <1>1, NowIsFinal DEF IInv, HandInv
  <2>2. "REFLECTION" \in visited
    BY <1>1 DEF IInv, PhaseInv
  <2> QED BY <1>1, <2>1, <2>2 DEF OutcomeInv
<1>7. ReportInv'
  BY <1>1, ReportsOutlive DEF IInv, Closed
<1>8. ProjectsAreWhole'
  BY <1>1, WholeUnwritten DEF IInv
<1> QED BY <1>2, <1>3, <1>4, <1>5, <1>6, <1>7, <1>8 DEF IInv

-----------------------------------------------------------------------------
(* A phase that begins to owe. *)

LEMMA OwingKeeps ==
  ASSUME IInv, disk' = disk, UNCHANGED <<phase, visited, cycle, folder, outcome>>,
         phase \in Working, step # "done", todo = <<>>, step' # "start"
  PROVE  StoreInv' /\ OutcomeInv' /\ ReportInv' /\ ProjectsAreWhole'
<1>1. StoreInv'
  BY StoreOutlives DEF IInv, Reflecting
<1>2. OutcomeInv'
  BY DEF IInv, OutcomeInv
<1>3. ReportInv'
  BY ReportsOutlive DEF IInv, Closed, Working
<1>4. ProjectsAreWhole'
  BY WholeUnwritten DEF IInv
<1> QED BY <1>1, <1>2, <1>3, <1>4

LEMMA OwedAsListed ==
  ASSUME NEW s, todo' = s, Tidy(s), \A w \in Items(s) : Owes(w)' PROVE TodoInv'
BY DEF TodoInv

LEMMA ThreeAreTidy ==
  ASSUME NEW a, NEW b, NEW c, a.place # b.place, a.place # c.place, b.place # c.place
  PROVE  Tidy(<<a, b, c>>) /\ Items(<<a, b, c>>) = {a, b, c}
<1>1. PICK s : s = <<a, b, c>>
  OBVIOUS
<1>2. Len(s) = 3 /\ s[1] = a /\ s[2] = b /\ s[3] = c /\ 1 .. 3 = {1, 2, 3} /\ s \in Seq({a, b, c})
  BY <1>1
<1>3. Items(s) = {a, b, c}
  BY <1>2 DEF Items
<1>4. \A k, m \in 1 .. Len(s) : s[k].place = s[m].place => k = m
  BY <1>2
<1> QED BY <1>1, <1>2, <1>3, <1>4 DEF Tidy

LEMMA OutPlaces ==
  ASSUME NEW path, NEW value
  PROVE  /\ Out(path, value).place = <<"outputs", folder, cycle, path>>
         /\ Out(path, value).place[1] = "outputs" /\ Out(path, value).place[4] = path
         /\ Out(path, value).value = value
BY DEF Out, Write

\* The files of a record.
Outputs(s, paths) ==
  /\ Tidy(s)
  /\ \A w \in Items(s) : w.place = <<"outputs", folder, cycle, w.place[4]>> /\ w.place[4] \in paths

LEMMA OneOutput == ASSUME NEW path, NEW value PROVE Outputs(<<Out(path, value)>>, {path})
<1>1. PICK w : w = Out(path, value)
  OBVIOUS
<1>2. w.place = <<"outputs", folder, cycle, path>> /\ w.place[4] = path
  BY <1>1, OutPlaces
<1>3. Tidy(<<w>>) /\ Items(<<w>>) = {w}
  BY OneIsTidy
<1> QED BY <1>1, <1>2, <1>3 DEF Outputs

LEMMA ThreeOutputs ==
  ASSUME NEW p1, NEW v1, NEW p2, NEW v2, NEW p3, NEW v3, p1 # p2, p1 # p3, p2 # p3
  PROVE  Outputs(<<Out(p1, v1), Out(p2, v2), Out(p3, v3)>>, {p1, p2, p3})
<1>1. PICK a, b, c : a = Out(p1, v1) /\ b = Out(p2, v2) /\ c = Out(p3, v3)
  OBVIOUS
<1>2. /\ a.place = <<"outputs", folder, cycle, p1>> /\ a.place[4] = p1
      /\ b.place = <<"outputs", folder, cycle, p2>> /\ b.place[4] = p2
      /\ c.place = <<"outputs", folder, cycle, p3>> /\ c.place[4] = p3
  BY <1>1, OutPlaces
<1>3. Tidy(<<a, b, c>>) /\ Items(<<a, b, c>>) = {a, b, c}
  BY <1>2, ThreeAreTidy
<1> QED BY <1>1, <1>2, <1>3 DEF Outputs

InputPaths == {"observations/observations.json", "questions/questions.json", "seeds/seeds.json"}
ConceptPaths == {"concepts/concepts.json", "concepts/leaderboard.md", "rejected/rejected.json"}

LEMMA InputsAreOutputs == Outputs(PhaseInputs, InputPaths)
BY ThreeOutputs DEF PhaseInputs, InputPaths

LEMMA ConceptsAreOutputs == ASSUME NEW ids PROVE Outputs(ConceptRecord(ids), ConceptPaths)
BY ThreeOutputs DEF ConceptRecord, ConceptPaths

\* What the phases that write plain records owe.
LEMMA OutputsAreOwed ==
  ASSUME NEW s, NEW paths, Outputs(s, paths), "runtime/runtime.json" \notin paths,
         "winner/execution_manifest.json" \in paths =>
           /\ phase' = "REFLECTION" /\ step' = "announce"
           /\ \A v \in Items(s) : Package(v.place) => v = todo'[Len(todo')],
         UNCHANGED <<folder, cycle>>,
         \/ phase' = "CREATION"
         \/ phase' = "REFLECTION" /\ step' \in {"judge", "develop", "announce", "done"}
         \/ phase' \in {"CONSOLIDATION", "DREAMING"} /\ paths \subseteq Learning,
         NEW w \in Items(s)
  PROVE  Owes(w)'
<1>1. w.place = <<"outputs", folder, cycle, w.place[4]>> /\ w.place[4] \in paths
  BY DEF Outputs
<1>2. /\ w.place[1] = "outputs" /\ w.place[2] = folder' /\ w.place[3] = cycle' /\ Shaped(w.place)
      /\ ~Report(w.place)
      /\ Package(w.place) => phase' = "REFLECTION" /\ step' = "announce" /\ w = todo'[Len(todo')]
  BY <1>1 DEF Shaped, Report, Package, Kinds
<1>3. CASE phase' = "CREATION"
  BY <1>2, <1>3 DEF Owes
<1>4. CASE phase' = "REFLECTION" /\ step' \in {"judge", "develop", "announce", "done"}
  BY <1>2, <1>4 DEF Owes
<1>5. CASE phase' \in {"CONSOLIDATION", "DREAMING"} /\ paths \subseteq Learning
  BY <1>1, <1>2, <1>5 DEF Owes
<1> QED BY <1>3, <1>4, <1>5

\* A process that draws no id again numbers its records after the last.
LEMMA IdsAreNew ==
  ASSUME former = {} PROVE \A kind : NewId(kind) = Cardinality(Stored(kind)) + 1
<1>1. ASSUME NEW kind PROVE {i \in Stored(kind) : <<kind, i>> \notin former} = Stored(kind)
  OBVIOUS
<1> QED BY <1>1 DEF NewId

\* An idea is born with the number after the last.
LEMMA BirthIsOwed ==
  ASSUME former = {}, StoreInv, disk' = disk, cycle' = cycle, phase' \in {"CREATION", "EXPLORATION"},
         NEW premised \in BOOLEAN, NEW strong \in Strengths, NEW w, w = Born(premised, strong),
         todo'[1] = w
  PROVE  Owes(w)' /\ w.place[1] = "concepts"
<1>1. PICK c : c = Draft(premised, strong)
  OBVIOUS
<1>2. PICK n : n = Cardinality(Stored("concepts")) + 1
  OBVIOUS
<1>3. w.place = <<"concepts", n>> /\ w.value = c
  BY <1>1, <1>2, IdsAreNew DEF Born, Saved, Write
<1>4. /\ c = [stage |-> c.stage, cycle |-> c.cycle, title |-> c.title, strong |-> c.strong,
              artifacts |-> c.artifacts]
      /\ c.stage = "CONCEPT" /\ c.cycle = cycle /\ c.strong = strong
      /\ c.artifacts = [key \in (IF premised THEN {"premise"} ELSE {}) |-> <<"premise">>]
  BY <1>1 DEF Draft
<1>5. cycle \in Nat
  BY DEF StoreInv
<1>6. IsIdea(c)'
  BY <1>4, <1>5 DEF IsIdea
<1>7. Undeveloped(c.artifacts)
  BY <1>4 DEF Undeveloped
<1>8. Stored("concepts")' = Stored("concepts")
  BY Unwritten
<1>9. Newborn(w)'
  <2>1. IsIdea(w.value)'
    BY <1>3, <1>6 DEF IsIdea
  <2> QED BY <1>2, <1>3, <1>4, <1>7, <1>8, <2>1 DEF Newborn
<1>10. w.place[1] = "concepts" /\ Shaped(w.place) /\ ~Report(w.place) /\ ~Package(w.place)
  BY <1>3 DEF Shaped, Report, Package, Kinds
<1> QED BY <1>9, <1>10 DEF Owes

LEMMA CreateKeeps == ASSUME former = {}, IInv, Create PROVE IInv'
<1>1. /\ phase = "CREATION" /\ step = "start" /\ todo = <<>> /\ step' = "done"
      /\ UNCHANGED <<phase, disk, visited, cycle, folder, outcome>>
  BY DEF Create, At, Owe, held
<1>2. StoreInv' /\ OutcomeInv' /\ ReportInv' /\ ProjectsAreWhole'
  BY <1>1, OwingKeeps DEF Working
<1>3. PhaseInv' /\ HandInv'
  BY <1>1 DEF PhaseInv, HandInv, Idling, Working
<1>4. PICK t : t = PhaseInputs
  OBVIOUS
<1>5. Outputs(t, InputPaths) /\ Tidy(t)
  BY <1>4, InputsAreOutputs DEF Outputs
<1>6. \A w \in Items(t) : Owes(w)' /\ w.place[1] = "outputs"
  <2>1. \A w \in Items(t) : Owes(w)'
    BY <1>1, <1>5, OutputsAreOwed DEF InputPaths
  <2> QED BY <1>5, <2>1 DEF Outputs
<1>7. CASE todo' = PhaseInputs
  <2>1. TodoInv'
    BY <1>4, <1>5, <1>6, <1>7, OwedAsListed
  <2> QED BY <1>2, <1>3, <2>1 DEF IInv
<1>8. CASE \E premised \in BOOLEAN, strong \in Strengths : todo' = <<Born(premised, strong)>> \o PhaseInputs
  <2>1. PICK premised \in BOOLEAN, strong \in Strengths : todo' = <<Born(premised, strong)>> \o PhaseInputs
    BY <1>8
  <2>2. PICK w : w = Born(premised, strong)
    OBVIOUS
  <2>3. PICK s : s = <<w>> \o t
    OBVIOUS
  <2>4. Tidy(<<w>>) /\ Items(<<w>>) = {w} /\ <<w>> # <<>> /\ <<w>>[1] = w
    BY OneIsTidy
  <2>5. w.place[1] = "concepts"
    BY <2>2 DEF Born, Saved, Write
  <2>6. Tidy(s) /\ Items(s) = {w} \cup Items(t) /\ s[1] = w
    BY <1>5, <1>6, <2>3, <2>4, <2>5, JoinsAreTidy
  <2>7. todo' = s
    BY <1>4, <2>1, <2>2, <2>3
  <2>8. Owes(w)'
    BY <1>1, <2>2, <2>6, <2>7, BirthIsOwed DEF IInv
  <2>9. TodoInv'
    BY <1>6, <2>6, <2>7, <2>8, OwedAsListed
  <2> QED BY <1>2, <1>3, <2>9 DEF IInv
<1> QED BY <1>7, <1>8 DEF Create, Owe

LEMMA ExploreKeeps == ASSUME former = {}, IInv, Explore PROVE IInv'
<1>1. /\ phase = "EXPLORATION" /\ step = "start" /\ todo = <<>> /\ step' = "done"
      /\ UNCHANGED <<phase, disk, visited, cycle, folder, outcome>>
  BY DEF Explore, At, Owe, held
<1>2. StoreInv' /\ OutcomeInv' /\ ReportInv' /\ ProjectsAreWhole'
  BY <1>1, OwingKeeps DEF Working
<1>3. PhaseInv' /\ HandInv'
  BY <1>1 DEF PhaseInv, HandInv, Idling, Working
<1>4. PICK strong \in Strengths : todo' = <<Born(FALSE, strong)>>
  BY DEF Explore, Owe
<1>5. PICK w : w = Born(FALSE, strong)
  OBVIOUS
<1>6. Tidy(<<w>>) /\ Items(<<w>>) = {w} /\ todo' = <<w>> /\ todo'[1] = w
  BY <1>4, <1>5, OneIsTidy
<1>7. Owes(w)'
  BY <1>1, <1>5, <1>6, BirthIsOwed DEF IInv
<1>8. TodoInv'
  BY <1>6, <1>7, OwedAsListed
<1> QED BY <1>2, <1>3, <1>8 DEF IInv

\* The last three phases each write one file.
LEMMA RecordKeeps ==
  ASSUME IInv, Consolidate \/ Dream \/ DeepSleep PROVE IInv'
<1>1. /\ phase \in {"CONSOLIDATION", "DREAMING", "DEEP_SLEEP"} /\ step = "start" /\ todo = <<>>
      /\ step' = "done" /\ UNCHANGED <<phase, disk, visited, cycle, folder, outcome>>
  BY DEF Consolidate, Dream, DeepSleep, At, Owe, held
<1>2. StoreInv' /\ OutcomeInv' /\ ReportInv' /\ ProjectsAreWhole'
  BY <1>1, OwingKeeps DEF Working
<1>3. PhaseInv' /\ HandInv'
  BY <1>1 DEF PhaseInv, HandInv, Idling, Working
<1>4. CASE Consolidate \/ Dream
  <2>1. PICK s : s = todo'
    OBVIOUS
  <2>2. phase \in {"CONSOLIDATION", "DREAMING"} /\ \E path \in Learning : Outputs(s, {path})
    BY <1>4, <2>1, OneOutput DEF Consolidate, Dream, At, Owe, LearningRecord, DreamRecord, Learning
  <2>3. PICK path \in Learning : Outputs(s, {path})
    BY <2>2
  <2>4. path # "runtime/runtime.json" /\ path # "winner/execution_manifest.json" /\ {path} \subseteq Learning
    BY DEF Learning
  <2>5. \A w \in Items(s) : Owes(w)'
    BY <1>1, <2>2, <2>3, <2>4, OutputsAreOwed
  <2>6. TodoInv'
    BY <2>1, <2>3, <2>5, OwedAsListed DEF Outputs
  <2> QED BY <1>2, <1>3, <2>6 DEF IInv
<1>5. CASE DeepSleep
  <2>1. PICK w : w = Out("runtime/runtime.json", outcome)
    OBVIOUS
  <2>2. todo' = <<w>> /\ phase' = "DEEP_SLEEP"
    BY <1>1, <1>5, <2>1 DEF DeepSleep, At, Owe, RuntimeRecord
  <2>3. /\ w.place = <<"outputs", folder, cycle, "runtime/runtime.json">> /\ w.value = outcome
    BY <2>1, OutPlaces
  <2>4. /\ w.place[1] = "outputs" /\ w.place[2] = folder /\ w.place[3] = cycle /\ Report(w.place)
        /\ Shaped(w.place) /\ ~Package(w.place)
    BY <2>3 DEF Report, Package, Shaped, Kinds
  <2>5. Owes(w)'
    BY <1>1, <2>2, <2>3, <2>4 DEF Owes
  <2>6. Tidy(<<w>>) /\ Items(<<w>>) = {w}
    BY OneIsTidy
  <2>7. TodoInv'
    BY <2>2, <2>5, <2>6, OwedAsListed
  <2> QED BY <1>2, <1>3, <2>7 DEF IInv
<1> QED BY <1>4, <1>5

-----------------------------------------------------------------------------
(* The tournament, the verdict and the development of the winner. *)

\* Saved once each, at the stage they have come to.
LEMMA MovesAreTidy ==
  ASSUME StoreInv, NEW S, S \subseteq Stored("concepts"), NEW stage
  PROVE  LET s == SavedEach(S, stage) IN
         Tidy(s) /\ \A w \in Items(s) : \E k \in S :
                      w = SavedAt(k, stage) /\ w.place = <<"concepts", k>> /\ w.place[2] = k
<1>1. PICK T : T = {SavedAt(i, stage) : i \in S}
  OBVIOUS
<1>2. IsFiniteSet(S)
  <2>1. PICK n : n = Cardinality(Stored("concepts"))
    OBVIOUS
  <2>2. n \in Nat /\ Stored("concepts") = 1 .. n
    BY <2>1 DEF StoreInv
  <2>3. IsFiniteSet(1 .. n)
    BY <2>2, FS_Interval
  <2> QED BY <2>2, <2>3, FS_Subset
<1>3. IsFiniteSet(T)
  <2>1. IsFiniteSet({SavedAt(i, stage) : i \in S})
    <3>1. PICK f : f = [i \in S |-> SavedAt(i, stage)]
      OBVIOUS
    <3>2. f \in Surjection(S, {SavedAt(i, stage) : i \in S})
      BY <3>1 DEF Surjection
    <3> QED BY <1>2, <3>2, FS_Surjection
  <2> QED BY <1>1, <2>1
<1>4. \A i \in S : SavedAt(i, stage).place = <<"concepts", i>> /\ SavedAt(i, stage).place[2] = i
  BY DEF SavedAt, Saved, Write
<1>5. \A v, w \in T : v.place = w.place => v = w
  BY <1>1, <1>4
<1>6. Tidy(SetToSeq(T)) /\ Items(SetToSeq(T)) = T
  BY <1>3, <1>5, SetsAreTidy
<1>7. SavedEach(S, stage) = SetToSeq(T)
  BY <1>1 DEF SavedEach
<1> QED BY <1>1, <1>4, <1>6, <1>7

LEMMA MovesAreOwed ==
  ASSUME StoreInv, disk' = disk, UNCHANGED <<folder, cycle>>,
         phase' = "REFLECTION", step' \in {"judge", "develop", "done"},
         NEW i \in Stored("concepts"), ~Owned(i), NEW stage, stage # "CONCEPT",
         NEW w, w = SavedAt(i, stage)
  PROVE  Owes(w)' /\ w.place = <<"concepts", i>> /\ w.value.stage = stage
<1>1. PICK c : c = Concept(i)
  OBVIOUS
<1>2. w.place = <<"concepts", i>> /\ w.value = [c EXCEPT !.stage = stage]
  BY <1>1 DEF SavedAt, Saved, Write
<1>3. w.place[1] = "concepts" /\ w.place[2] = i /\ Shaped(w.place) /\ ~Report(w.place) /\ ~Package(w.place)
  BY <1>2 DEF Shaped, Report, Package, Kinds
<1>4. IsIdea(c)
  BY <1>1 DEF StoreInv
<1>5. w.value.stage = stage
  BY <1>2, <1>4, Restaged
<1>6. Moved(w)'
  <2>1. i \in Stored("concepts")' /\ ~Owned(i)' /\ Concept(i)' = c
    BY <1>1, Unwritten
  <2> QED BY <1>2, <1>3, <1>5, <2>1 DEF Moved
<1> QED BY <1>2, <1>3, <1>5, <1>6 DEF Owes

LEMMA TournamentIsOwed ==
  ASSUME UNCHANGED <<folder, cycle>>,
         phase' = "REFLECTION", step' \in {"judge", "develop", "announce", "done"}, NEW t
  PROVE  /\ Tidy(SavedTournament(t))
         /\ \A w \in Items(SavedTournament(t)) :
              Owes(w)' /\ w.place = <<"tournaments", cycle>> /\ w.place[1] = "tournaments" /\ w.value = t
<1>1. PICK w : w = Write(<<"tournaments", cycle>>, t)
  OBVIOUS
<1>2. w.place = <<"tournaments", cycle>> /\ w.value = t
  BY <1>1 DEF Write
<1>3. w.place[1] = "tournaments" /\ w.place[2] = cycle /\ Shaped(w.place) /\ ~Report(w.place) /\ ~Package(w.place)
  BY <1>2 DEF Shaped, Report, Package, Kinds
<1>4. Owes(w)'
  BY <1>3 DEF Owes
<1>5. Tidy(<<w>>) /\ Items(<<w>>) = {w}
  BY OneIsTidy
<1> QED BY <1>1, <1>2, <1>3, <1>4, <1>5 DEF SavedTournament

\* Whoever competes has no project and was never developed.
LEMMA CompetitorsAreUnspoilt ==
  ASSUME IInv, At("REFLECTION", "start"), NEW i \in Competitors
  PROVE  i \in Stored("concepts") /\ Unspoilt(i)
<1>1. i \in Stored("concepts") /\ Concept(i).stage = "CONCEPT"
  BY DEF Competitors, At, IInv, StoreInv, Reflecting
<1>2. ~Owned(i)
  <2> SUFFICES ASSUME Owned(i) PROVE FALSE
    OBVIOUS
  <2>1. PICK id \in Stored("projects") : disk[<<"projects", id>>].concept = i
    BY DEF Owned
  <2>2. WholeProject(id)
    BY PartsOfWhole DEF IInv
  <2>3. Concept(i).stage \in {"APPROVED", "PRODUCTION_READY"}
    BY <2>1, <2>2 DEF WholeProject
  <2> QED BY <1>1, <2>3
<1> QED BY <1>1, <1>2 DEF Unspoilt, IInv, StoreInv

LEMMA NobodyKeeps == ASSUME IInv, NobodyCompetes PROVE IInv'
<1>1. /\ phase = "REFLECTION" /\ step = "start" /\ todo = <<>> /\ step' = "done" /\ todo' = <<>>
      /\ UNCHANGED <<phase, disk, visited, cycle, folder, outcome>>
  BY DEF NobodyCompetes, At, Owe, held
<1>2. StoreInv' /\ OutcomeInv' /\ ReportInv' /\ ProjectsAreWhole'
  BY <1>1, OwingKeeps DEF Working
<1>3. PhaseInv' /\ HandInv'
  BY <1>1 DEF IInv, PhaseInv, HandInv, Idling, Working
<1>4. TodoInv'
  BY <1>1, NothingToDo
<1> QED BY <1>2, <1>3, <1>4 DEF IInv

LEMMA CompeteKeeps == ASSUME IInv, Compete PROVE IInv'
<1>1. /\ phase = "REFLECTION" /\ step = "start" /\ todo = <<>> /\ step' = "judge"
      /\ UNCHANGED <<phase, disk, visited, cycle, folder, outcome>> /\ At("REFLECTION", "start")
  BY DEF Compete, At, Owe, held
<1>2. StoreInv' /\ OutcomeInv' /\ ReportInv' /\ ProjectsAreWhole'
  BY <1>1, OwingKeeps DEF Working
<1>3. PhaseInv'
  BY <1>1 DEF IInv, PhaseInv, Idling
<1>4. PICK C : C = Competitors
  OBVIOUS
<1>5. PICK F \in SUBSET C :
        /\ todo' = ConceptRecord(C) \o SavedEach(C \ F, "REJECTED")
             \o SavedEach(F, "FINALIST") \o SavedTournament(Tournament(Nobody, FALSE))
             \o TournamentRecord(Tournament(Nobody, FALSE)) \o FinalistRecord(F)
        /\ hand' = F
  BY <1>4 DEF Compete, Owe
<1>6. \A i \in C : i \in Stored("concepts") /\ Unspoilt(i)
  BY <1>1, <1>4, CompetitorsAreUnspoilt
<1>7. HandInv'
  <2>1. \A i \in F : Unspoilt(i)'
    BY <1>1, <1>6, Unwritten DEF Unspoilt
  <2>2. \A i \in hand' : Unspoilt(i)'
    BY <1>5, <2>1
  <2> QED BY <1>1, <2>2 DEF HandInv
<1>8. PICK r, l, f, t, u, v :
        /\ r = ConceptRecord(C) /\ l = SavedEach(C \ F, "REJECTED")
        /\ f = SavedEach(F, "FINALIST") /\ t = SavedTournament(Tournament(Nobody, FALSE))
        /\ u = TournamentRecord(Tournament(Nobody, FALSE)) /\ v = FinalistRecord(F)
  OBVIOUS
<1>9. todo' = r \o l \o f \o t \o u \o v
  BY <1>5, <1>8
<1>10. /\ Tidy(r) /\ \A w \in Items(r) : Owes(w)' /\ w.place[1] = "outputs" /\ w.place[4] \in ConceptPaths
  <2>1. Outputs(r, ConceptPaths)
    BY <1>8, ConceptsAreOutputs
  <2>2. \A w \in Items(r) : Owes(w)'
    BY <1>1, <2>1, OutputsAreOwed DEF ConceptPaths
  <2> QED BY <2>1, <2>2 DEF Outputs
<1>11. /\ Tidy(u) /\ \A w \in Items(u) : Owes(w)' /\ w.place[1] = "outputs"
                                         /\ w.place[4] = "tournament/tournament.json"
  <2>1. Outputs(u, {"tournament/tournament.json"})
    BY <1>8, OneOutput DEF TournamentRecord
  <2>2. \A w \in Items(u) : Owes(w)'
    BY <1>1, <2>1, OutputsAreOwed
  <2> QED BY <2>1, <2>2 DEF Outputs
<1>12. /\ Tidy(v) /\ \A w \in Items(v) : Owes(w)' /\ w.place[1] = "outputs"
                                         /\ w.place[4] = "finalists/finalists.json"
  <2>1. Outputs(v, {"finalists/finalists.json"})
    BY <1>8, OneOutput DEF FinalistRecord
  <2>2. \A w \in Items(v) : Owes(w)'
    BY <1>1, <2>1, OutputsAreOwed
  <2> QED BY <2>1, <2>2 DEF Outputs
<1>13. Tidy(t) /\ \A w \in Items(t) : Owes(w)' /\ w.place[1] = "tournaments"
  BY <1>1, <1>8, TournamentIsOwed
<1>14. /\ Tidy(l) /\ Tidy(f)
       /\ \A w \in Items(l) : Owes(w)' /\ w.place[1] = "concepts" /\ w.place[2] \in C \ F
       /\ \A w \in Items(f) : Owes(w)' /\ w.place[1] = "concepts" /\ w.place[2] \in F
  <2>1. C \ F \subseteq Stored("concepts") /\ F \subseteq Stored("concepts") /\ StoreInv
    BY <1>6 DEF IInv
  <2>2. /\ Tidy(l) /\ \A w \in Items(l) : \E k \in C \ F : w = SavedAt(k, "REJECTED")
                                           /\ w.place = <<"concepts", k>> /\ w.place[2] = k
    BY <1>8, <2>1, MovesAreTidy
  <2>3. /\ Tidy(f) /\ \A w \in Items(f) : \E k \in F : w = SavedAt(k, "FINALIST")
                                           /\ w.place = <<"concepts", k>> /\ w.place[2] = k
    BY <1>8, <2>1, MovesAreTidy
  <2>4. \A i \in C : i \in Stored("concepts") /\ ~Owned(i)
    BY <1>6 DEF Unspoilt
  <2>5. \A w \in Items(l) : Owes(w)' /\ w.place[1] = "concepts" /\ w.place[2] \in C \ F
    <3> TAKE w \in Items(l)
    <3>1. PICK i \in C \ F : w = SavedAt(i, "REJECTED") /\ w.place = <<"concepts", i>> /\ w.place[2] = i
      BY <2>2
    <3>2. Owes(w)'
      BY <1>1, <2>1, <2>4, <3>1, MovesAreOwed
    <3> QED BY <3>1, <3>2
  <2>6. \A w \in Items(f) : Owes(w)' /\ w.place[1] = "concepts" /\ w.place[2] \in F
    <3> TAKE w \in Items(f)
    <3>1. PICK i \in F : w = SavedAt(i, "FINALIST") /\ w.place = <<"concepts", i>> /\ w.place[2] = i
      BY <2>3
    <3>2. Owes(w)'
      BY <1>1, <2>1, <2>4, <3>1, MovesAreOwed
    <3> QED BY <3>1, <3>2
  <2> QED BY <2>2, <2>3, <2>5, <2>6
<1>15. Tidy(r \o l) /\ Items(r \o l) = Items(r) \cup Items(l)
  BY <1>10, <1>14, JoinsAreTidy
<1>16. Tidy(r \o l \o f) /\ Items(r \o l \o f) = Items(r \o l) \cup Items(f)
  <2>1. \A a \in Items(r \o l), b \in Items(f) : a.place # b.place
    BY <1>10, <1>14, <1>15
  <2> QED BY <1>14, <1>15, <2>1, JoinsAreTidy
<1>17. Tidy(r \o l \o f \o t) /\ Items(r \o l \o f \o t) = Items(r \o l \o f) \cup Items(t)
  <2>1. \A a \in Items(r \o l \o f), b \in Items(t) : a.place # b.place
    BY <1>10, <1>13, <1>14, <1>15, <1>16
  <2> QED BY <1>13, <1>16, <2>1, JoinsAreTidy
<1>18. Tidy(r \o l \o f \o t \o u) /\ Items(r \o l \o f \o t \o u) = Items(r \o l \o f \o t) \cup Items(u)
  <2>1. \A a \in Items(r \o l \o f \o t), b \in Items(u) : a.place # b.place
    BY <1>10, <1>11, <1>13, <1>14, <1>15, <1>16, <1>17 DEF ConceptPaths
  <2> QED BY <1>11, <1>17, <2>1, JoinsAreTidy
<1>19. /\ Tidy(r \o l \o f \o t \o u \o v)
       /\ Items(r \o l \o f \o t \o u \o v) = Items(r \o l \o f \o t \o u) \cup Items(v)
  <2>1. \A a \in Items(r \o l \o f \o t \o u), b \in Items(v) : a.place # b.place
    BY <1>10, <1>11, <1>12, <1>13, <1>14, <1>15, <1>16, <1>17, <1>18 DEF ConceptPaths
  <2> QED BY <1>12, <1>18, <2>1, JoinsAreTidy
<1>20. TodoInv'
  <2>1. PICK s : s = r \o l \o f \o t \o u \o v
    OBVIOUS
  <2>2. Tidy(s) /\ Items(s) = Items(r) \cup Items(l) \cup Items(f) \cup Items(t) \cup Items(u) \cup Items(v)
    BY <1>15, <1>16, <1>17, <1>18, <1>19, <2>1
  <2>3. \A w \in Items(s) : Owes(w)'
    BY <1>10, <1>11, <1>12, <1>13, <1>14, <2>2
  <2> QED BY <1>9, <2>1, <2>2, <2>3, OwedAsListed
<1> QED BY <1>2, <1>3, <1>7, <1>20 DEF IInv

LEMMA ApproveKeeps == ASSUME IInv, Approve PROVE IInv'
<1>1. /\ phase = "REFLECTION" /\ step = "judge" /\ todo = <<>> /\ step' = "develop"
      /\ UNCHANGED <<phase, disk, visited, cycle, folder, outcome>>
  BY DEF Approve, At, Owe, held
<1>2. StoreInv' /\ OutcomeInv' /\ ReportInv' /\ ProjectsAreWhole'
  BY <1>1, OwingKeeps DEF Working
<1>3. PhaseInv'
  BY <1>1 DEF IInv, PhaseInv, Idling
<1>4. PICK i, refused :
        /\ i \in hand /\ refused \subseteq hand \ {i} /\ hand' = i
        /\ todo' = SavedEach(refused, "REJECTED") \o <<SavedAt(i, "APPROVED")>>
  BY DEF Approve, Owe
<1>5. \A k \in hand : k \in Stored("concepts") /\ ~Owned(k) /\ Unspoilt(k)
  BY <1>1 DEF IInv, HandInv, Unspoilt
<1>6. PICK l : l = SavedEach(refused, "REJECTED")
  OBVIOUS
<1>7. PICK a : a = SavedAt(i, "APPROVED")
  OBVIOUS
<1>8. /\ Tidy(l) /\ \A w \in Items(l) : \E k \in refused : w = SavedAt(k, "REJECTED")
                                         /\ w.place = <<"concepts", k>> /\ w.place[2] = k
  <2>1. refused \subseteq Stored("concepts") /\ StoreInv
    BY <1>4, <1>5 DEF IInv
  <2> QED BY <1>6, <2>1, MovesAreTidy
<1>9. \A w \in Items(l) : Owes(w)' /\ w.place[2] # i
  <2> TAKE w \in Items(l)
  <2>1. PICK k \in refused : w = SavedAt(k, "REJECTED") /\ w.place = <<"concepts", k>> /\ w.place[2] = k
    BY <1>8
  <2>2. k \in Stored("concepts") /\ ~Owned(k) /\ k # i /\ StoreInv
    BY <1>4, <1>5 DEF IInv
  <2>3. Owes(w)'
    BY <1>1, <2>1, <2>2, MovesAreOwed
  <2> QED BY <2>1, <2>2, <2>3
<1>10. Owes(a)' /\ a.place = <<"concepts", i>> /\ a.place[2] = i /\ a.value.stage = "APPROVED"
  <2>1. i \in Stored("concepts") /\ ~Owned(i) /\ StoreInv
    BY <1>4, <1>5 DEF IInv
  <2>2. Owes(a)' /\ a.place = <<"concepts", i>> /\ a.value.stage = "APPROVED"
    BY <1>1, <1>7, <2>1, MovesAreOwed
  <2> QED BY <2>2
<1>11. PICK s : s = l \o <<a>>
  OBVIOUS
<1>12. Tidy(s) /\ Items(s) = Items(l) \cup {a}
  <2>1. Tidy(<<a>>) /\ Items(<<a>>) = {a}
    BY OneIsTidy
  <2>2. \A v \in Items(l), w \in Items(<<a>>) : v.place # w.place
    BY <1>9, <1>10, <2>1
  <2> QED BY <1>8, <1>11, <2>1, <2>2, JoinsAreTidy
<1>13. todo' = s
  BY <1>4, <1>6, <1>7, <1>11
<1>14. TodoInv'
  BY <1>9, <1>10, <1>12, <1>13, OwedAsListed
<1>15. HandInv'
  <2>1. Unspoilt(i)
    BY <1>4, <1>5
  <2>2. Unspoilt(i)'
    BY <1>1, <2>1, Unwritten DEF Unspoilt
  <2>3. Unspoilt(hand)'
    BY <1>4, <2>2 DEF Unspoilt, Owned, Concept
  <2>4. Final'[<<"concepts", i>>].stage = "APPROVED"
    <3>1. PlacesApart(Items(s)) /\ a \in Items(s)
      BY <1>12, ItemsAreApart DEF PlacesApart
    <3>2. PICK d : d = disk'
      OBVIOUS
    <3>3. Settled(d, Items(s))[a.place] = a.value
      BY <3>1, SettledAt
    <3>4. Final' = Settled(d, Items(s))
      BY <1>13, <3>2 DEF Final
    <3> QED BY <1>10, <3>3, <3>4
  <2>5. Final'[<<"concepts", hand'>>].stage = "APPROVED"
    BY <1>4, <2>4
  <2> QED BY <1>1, <2>3, <2>5 DEF HandInv
<1> QED BY <1>2, <1>3, <1>14, <1>15 DEF IInv

LEMMA RefuseKeeps == ASSUME IInv, RefuseAll PROVE IInv'
<1>1. /\ phase = "REFLECTION" /\ step = "judge" /\ todo = <<>> /\ step' = "done"
      /\ UNCHANGED <<phase, disk, visited, cycle, folder, outcome>>
      /\ todo' = SavedEach(hand, "REJECTED") \o SavedTournament(Tournament(Nobody, TRUE))
  BY DEF RefuseAll, At, Owe, held
<1>2. StoreInv' /\ OutcomeInv' /\ ReportInv' /\ ProjectsAreWhole'
  BY <1>1, OwingKeeps DEF Working
<1>3. PhaseInv' /\ HandInv'
  BY <1>1 DEF IInv, PhaseInv, HandInv, Idling
<1>4. PICK F : F = hand
  OBVIOUS
<1>5. \A k \in F : k \in Stored("concepts") /\ ~Owned(k)
  BY <1>1, <1>4 DEF IInv, HandInv, Unspoilt
<1>6. PICK l, t : l = SavedEach(F, "REJECTED") /\ t = SavedTournament(Tournament(Nobody, TRUE))
  OBVIOUS
<1>7. /\ Tidy(l) /\ \A w \in Items(l) : \E k \in F : w = SavedAt(k, "REJECTED")
                                         /\ w.place = <<"concepts", k>> /\ w.place[2] = k
  <2>1. F \subseteq Stored("concepts") /\ StoreInv
    BY <1>5 DEF IInv
  <2> QED BY <1>6, <2>1, MovesAreTidy
<1>8. \A w \in Items(l) : Owes(w)' /\ w.place[1] = "concepts"
  <2> TAKE w \in Items(l)
  <2>1. PICK k \in F : w = SavedAt(k, "REJECTED") /\ w.place = <<"concepts", k>> /\ w.place[2] = k
    BY <1>7
  <2>2. k \in Stored("concepts") /\ ~Owned(k) /\ StoreInv
    BY <1>5 DEF IInv
  <2>3. Owes(w)'
    BY <1>1, <2>1, <2>2, MovesAreOwed
  <2> QED BY <2>1, <2>3
<1>9. Tidy(t) /\ \A w \in Items(t) : Owes(w)' /\ w.place[1] = "tournaments"
  BY <1>1, <1>6, TournamentIsOwed
<1>10. PICK s : s = l \o t
  OBVIOUS
<1>11. Tidy(s) /\ Items(s) = Items(l) \cup Items(t)
  BY <1>7, <1>8, <1>9, <1>10, JoinsAreTidy
<1>12. todo' = s
  BY <1>1, <1>4, <1>6, <1>10
<1>13. TodoInv'
  BY <1>8, <1>9, <1>11, <1>12, OwedAsListed
<1> QED BY <1>2, <1>3, <1>13 DEF IInv

\* An idea is developed from its premise or its logline, with at most one timeline.
LEMMA DevelopedIsWhole ==
  ASSUME NEW c, IsIdea(c), Undeveloped(c.artifacts), NEW silent
  PROVE  LET r == Developed(c, silent) IN
         IsIdea(r) /\ r.stage = c.stage /\ r.cycle = c.cycle /\ Whole(r.artifacts)
<1>1. PICK premise : premise = IF "premise" \in DOMAIN c.artifacts THEN c.artifacts["premise"] ELSE <<"logline">>
  OBVIOUS
<1>2. premise = <<"premise">> \/ premise = <<"logline">>
  BY <1>1 DEF Undeveloped
<1>3. PICK said : said = Said("EXTREME_CONSEQUENCE_AGENT", silent, "consequences")
  OBVIOUS
<1>4. said = <<>> \/ said = <<"consequences">>
  BY <1>3 DEF Said
<1>5. Times("consequences", premise \o said) <= 1
  <2>1. PICK text : text = premise \o said
    OBVIOUS
  <2>2. DOMAIN text \subseteq {1, 2} /\ text[1] # "consequences"
    <3>1. CASE said = <<>>
      <4>1. text = premise
        BY <1>2, <2>1, <3>1
      <4> QED BY <1>2, <4>1
    <3>2. CASE said = <<"consequences">>
      <4>1. PICK T : T = {"premise", "logline", "consequences"}
        OBVIOUS
      <4>2. /\ premise \in Seq(T) /\ Len(premise) = 1 /\ premise[1] # "consequences"
            /\ said \in Seq(T) /\ Len(said) = 1
        <5>1. ASSUME NEW x \in T PROVE <<x>> \in Seq(T) /\ Len(<<x>>) = 1 /\ <<x>>[1] = x
          OBVIOUS
        <5>2. "premise" \in T /\ "logline" \in T /\ "consequences" \in T
          BY <4>1
        <5> QED BY <1>2, <3>2, <5>1, <5>2
      <4>3. text \in Seq(T) /\ Len(text) = 2 /\ text[1] = premise[1]
        BY <2>1, <4>2, JoinedInOrder
      <4>4. DOMAIN text = 1 .. 2
        BY <4>3
      <4> QED BY <4>2, <4>3, <4>4
    <3> QED BY <1>4, <3>1, <3>2
  <2>3. PICK K : K = {k \in DOMAIN text : text[k] = "consequences"}
    OBVIOUS
  <2>4. K = {} \/ K = {2}
    BY <2>2, <2>3
  <2>5. Cardinality(K) <= 1
    <3>1. Cardinality({}) = 0 /\ Cardinality({2}) = 1
      BY FS_EmptySet, FS_Singleton
    <3> QED BY <2>4, <3>1
  <2> QED BY <2>1, <2>3, <2>5 DEF Times
<1>6. PICK built : built = [world_bible |-> Said("WORLD_ARCHITECT_AGENT", silent, "world"),
                            characters |-> Said("CHARACTER_ARCHITECT_AGENT", silent, "characters"),
                            premise |-> premise \o said,
                            pitch |-> Said("PITCH_BUILDER", silent, "pitch"),
                            synopsis |-> Said("SYNOPSIS_BUILDER", silent, "synopsis")]
  OBVIOUS
<1>7. DOMAIN built = Texts /\ built["premise"] = premise \o said
  BY <1>6 DEF Texts
<1>8. PICK all : all = [key \in DOMAIN built \cup DOMAIN c.artifacts |->
                          IF key \in DOMAIN built THEN built[key] ELSE c.artifacts[key]]
  OBVIOUS
<1>9. Whole(all)
  <2>1. Texts \subseteq DOMAIN all /\ "premise" \in Texts /\ all["premise"] = premise \o said
    BY <1>7, <1>8 DEF Texts
  <2> QED BY <1>5, <2>1 DEF Whole
<1>10. Developed(c, silent) = [c EXCEPT !.title = ProposedTitle(c, silent), !.artifacts = all]
  BY <1>1, <1>3, <1>6, <1>8 DEF Developed
<1>11. PICK title : title = ProposedTitle(c, silent)
  OBVIOUS
<1>12. Developed(c, silent) = [stage |-> c.stage, cycle |-> c.cycle, title |-> title, strong |-> c.strong,
                               artifacts |-> all]
  BY <1>10, <1>11 DEF IsIdea
<1> QED BY <1>9, <1>12 DEF IsIdea

LEMMA DevelopKeeps == ASSUME IInv, DevelopWinner PROVE IInv'
<1>1. /\ phase = "REFLECTION" /\ step = "develop" /\ todo = <<>> /\ step' = "approve" /\ hand' = hand
      /\ UNCHANGED <<phase, disk, visited, cycle, folder, outcome>>
  BY DEF DevelopWinner, At, Owe, held
<1>2. StoreInv' /\ OutcomeInv' /\ ReportInv' /\ ProjectsAreWhole'
  BY <1>1, OwingKeeps DEF Working
<1>3. PhaseInv'
  BY <1>1 DEF IInv, PhaseInv, Idling
<1>4. PICK silent \in Silences : todo' = <<Saved(hand, Developed(Concept(hand), silent))>>
  BY DEF DevelopWinner, Owe
<1>5. PICK i : i = hand
  OBVIOUS
<1>6. PICK c : c = Concept(i)
  OBVIOUS
<1>7. PICK r : r = Developed(c, silent)
  OBVIOUS
<1>8. PICK w : w = Saved(i, r)
  OBVIOUS
<1>9. /\ i \in Stored("concepts") /\ ~Owned(i) /\ Undeveloped(c.artifacts) /\ c.stage = "APPROVED"
      /\ IsIdea(c)
  <2>1. i \in Stored("concepts") /\ ~Owned(i) /\ Undeveloped(c.artifacts)
        /\ Final[<<"concepts", i>>].stage = "APPROVED"
    BY <1>1, <1>5, <1>6 DEF IInv, HandInv, Unspoilt
  <2>2. Final = disk
    BY <1>1, NowIsFinal DEF IInv
  <2>3. c.stage = "APPROVED"
    BY <1>6, <2>1, <2>2 DEF Concept
  <2>4. IsIdea(c)
    BY <1>6, <2>1 DEF IInv, StoreInv
  <2> QED BY <2>1, <2>3, <2>4
<1>10. IsIdea(r) /\ r.stage = "APPROVED" /\ r.cycle = c.cycle /\ Whole(r.artifacts)
  BY <1>7, <1>9, DevelopedIsWhole
<1>11. w.place = <<"concepts", i>> /\ w.value = r /\ todo' = <<w>>
  BY <1>4, <1>5, <1>6, <1>7, <1>8 DEF Saved, Write
<1>12. i \in Stored("concepts")' /\ ~Owned(i)' /\ Concept(i)' = c
  BY <1>1, <1>6, <1>9, Unwritten
<1>13. Owes(w)'
  <2>1. w.place[1] = "concepts" /\ Shaped(w.place) /\ ~Report(w.place) /\ ~Package(w.place)
    BY <1>11 DEF Shaped, Report, Package, Kinds
  <2>2. IsIdea(w.value)'
    BY <1>1, <1>10, <1>11 DEF IsIdea
  <2>3. w.place = <<"concepts", hand'>> /\ Concept(hand)' = c
    BY <1>1, <1>5, <1>11, <1>12 DEF Concept
  <2> QED BY <1>1, <1>10, <1>11, <2>1, <2>2, <2>3 DEF Owes
<1>14. Tidy(<<w>>) /\ Items(<<w>>) = {w}
  BY OneIsTidy
<1>15. TodoInv'
  BY <1>11, <1>13, <1>14, OwedAsListed
<1>16. HandInv'
  <2>1. Final'[<<"concepts", i>>] = r
    <3>1. PICK d : d = disk'
      OBVIOUS
    <3>2. Settled(d, {w})[w.place] = w.value
      BY SettledAt DEF PlacesApart
    <3>3. Final' = Settled(d, {w})
      BY <1>11, <1>14, <3>1 DEF Final
    <3> QED BY <1>11, <3>2, <3>3
  <2>2. hand' = i /\ (Owned(hand)' => Owned(i)')
    BY <1>1, <1>5 DEF Owned
  <2> QED BY <1>1, <1>10, <1>12, <2>1, <2>2 DEF HandInv
<1> QED BY <1>2, <1>3, <1>15, <1>16 DEF IInv

-----------------------------------------------------------------------------
(* The approval. *)

LEMMA PackageIsTidy ==
  ASSUME NEW i, NEW c, NEW id, NEW p
  PROVE  /\ Outputs(WinnerPackage(i, c, id, p), PackagePaths)
         /\ \A file \in ToSet(PackageFiles(i, c.artifacts, id, p)) :
              Out(file[1], file[2]) \in Items(WinnerPackage(i, c, id, p))
         /\ LET s == WinnerPackage(i, c, id, p) IN
              Len(s) = 9 /\ s[9].place = <<"outputs", folder, cycle, "winner/execution_manifest.json">>
<1>1. PICK files : files = PackageFiles(i, c.artifacts, id, p)
  OBVIOUS
<1>2. /\ DOMAIN files = 1 .. 9 /\ \A k \in 1 .. 9 : files[k][1] \in PackagePaths
      /\ \A k, m \in 1 .. 9 : files[k][1] = files[m][1] => k = m
  <2>1. DOMAIN files = 1 .. 9 /\ \A file \in ToSet(files) : file[1] \in PackagePaths
    BY <1>1, PackageLists
  <2>2. \A k \in 1 .. 9 : files[k] \in ToSet(files)
    BY <2>1 DEF ToSet
  <2>3. \A k, m \in 1 .. 9 : files[k][1] = files[m][1] => k = m
    BY <1>1, PackageLists
  <2> QED BY <2>1, <2>2, <2>3
<1>3. PICK s : s = WinnerPackage(i, c, id, p)
  OBVIOUS
<1>4. PICK T : T = {Out(files[k][1], files[k][2]) : k \in 1 .. 9}
  OBVIOUS
<1>5. s = [k \in 1 .. 9 |-> Out(files[k][1], files[k][2])]
  BY <1>1, <1>2, <1>3 DEF WinnerPackage
<1>6. s \in [1 .. 9 -> T] /\ \A k \in 1 .. 9 : s[k] = Out(files[k][1], files[k][2])
  BY <1>4, <1>5
<1>7. s \in Seq(T) /\ Len(s) = 9
  <2>1. PICK n \in Nat : n = 9
    OBVIOUS
  <2>2. s \in [1 .. n -> T]
    BY <1>6, <2>1
  <2>3. s \in Seq(T) /\ Len(s) = n
    BY <2>2, FunctionsAreLists
  <2> QED BY <2>1, <2>3
<1>8. \A k \in 1 .. 9 : /\ s[k].place = <<"outputs", folder, cycle, files[k][1]>>
                        /\ s[k].place[4] = files[k][1]
  BY <1>6, OutPlaces
<1>9. \A k, m \in 1 .. 9 : s[k].place = s[m].place => k = m
  <2> SUFFICES ASSUME NEW k \in 1 .. 9, NEW m \in 1 .. 9, s[k].place = s[m].place PROVE k = m
    OBVIOUS
  <2>1. s[k].place[4] = files[k][1] /\ s[m].place[4] = files[m][1]
    BY <1>8
  <2>2. files[k][1] = files[m][1]
    BY <2>1
  <2> QED BY <1>2, <2>2
<1>10. \A k \in 1 .. 9 : s[k] \in Items(s)
  BY <1>7 DEF Items
<1>11. Tidy(s)
  <2>1. s \in Seq(Items(s))
    <3>1. PICK n \in Nat : n = 9
      OBVIOUS
    <3>2. PICK I : I = Items(s)
      OBVIOUS
    <3>3. s \in [1 .. n -> I]
      BY <1>6, <1>10, <3>1, <3>2
    <3>4. s \in Seq(I)
      BY <3>3, FunctionsAreLists
    <3> QED BY <3>2, <3>4
  <2> QED BY <1>7, <1>9, <2>1 DEF Tidy
<1>12. Outputs(s, PackagePaths)
  BY <1>2, <1>7, <1>8, <1>11 DEF Outputs, Items
<1>13. \A file \in ToSet(files) : Out(file[1], file[2]) \in Items(s)
  BY <1>2, <1>6, <1>10 DEF ToSet
<1>14. files[9][1] = "winner/execution_manifest.json"
  BY <1>1 DEF PackageFiles
<1> QED BY <1>1, <1>3, <1>7, <1>8, <1>12, <1>13, <1>14

\* The outboxes of a project, one for each engine.
Outboxes(T, takers, id, m) ==
  /\ \A w \in T : \E e \in takers : w = Write(<<"handoff", id, e>>, m)
  /\ \A e \in takers : Write(<<"handoff", id, e>>, m) \in T

LEMMA OutboxesAreTidy ==
  ASSUME NEW takers, IsFiniteSet(takers), NEW id, NEW m, NEW T, Outboxes(T, takers, id, m)
  PROVE  /\ Tidy(SetToSeq(T)) /\ Items(SetToSeq(T)) = T
         /\ \A w \in T : \E e \in takers : w.place = <<"handoff", id, e>>
         /\ \A e \in takers : \E w \in T : w.place = <<"handoff", id, e>>
<1>0. /\ \A w \in T : \E e \in takers : w = Write(<<"handoff", id, e>>, m)
      /\ \A e \in takers : Write(<<"handoff", id, e>>, m) \in T
  BY DEF Outboxes
<1>1. \A e : Write(<<"handoff", id, e>>, m).place = <<"handoff", id, e>>
  BY DEF Write
<1>2. IsFiniteSet(T)
  <2>1. PICK f : f = [e \in takers |-> Write(<<"handoff", id, e>>, m)]
    OBVIOUS
  <2>2. f \in [takers -> T] /\ \A w \in T : \E e \in takers : f[e] = w
    BY <1>0, <2>1
  <2>3. f \in Surjection(takers, T)
    BY <2>2 DEF Surjection
  <2> QED BY <2>3, FS_Surjection
<1>3. \A v, w \in T : v.place = w.place => v = w
  <2> SUFFICES ASSUME NEW v \in T, NEW w \in T, v.place = w.place PROVE v = w
    OBVIOUS
  <2>1. PICK e \in takers : v = Write(<<"handoff", id, e>>, m)
    BY <1>0
  <2>2. PICK g \in takers : w = Write(<<"handoff", id, g>>, m)
    BY <1>0
  <2>3. <<"handoff", id, e>> = <<"handoff", id, g>>
    BY <1>1, <2>1, <2>2
  <2> QED BY <2>1, <2>2, <2>3
<1>4. Tidy(SetToSeq(T)) /\ Items(SetToSeq(T)) = T
  BY <1>2, <1>3, SetsAreTidy
<1>5. \A w \in T : \E e \in takers : w.place = <<"handoff", id, e>>
  BY <1>0, <1>1
<1>6. \A e \in takers : \E w \in T : w.place = <<"handoff", id, e>>
  BY <1>0, <1>1
<1> QED BY <1>4, <1>5, <1>6

LEMMA ApprovalKeeps == ASSUME former = {}, IInv, ApproveCreativeProject PROVE IInv'
<1>1. /\ phase = "REFLECTION" /\ step = "approve" /\ todo = <<>> /\ step' = "announce"
      /\ UNCHANGED <<phase, disk, visited, cycle, folder, outcome>>
  BY DEF ApproveCreativeProject, At, Owe, held
<1>2. StoreInv' /\ OutcomeInv' /\ ReportInv' /\ ProjectsAreWhole'
  BY <1>1, OwingKeeps DEF Working
<1>3. PhaseInv'
  BY <1>1 DEF IInv, PhaseInv, Idling
<1>4. PICK i : i = hand
  OBVIOUS
<1>5. PICK id : id = Cardinality(Stored("projects")) + 1
  OBVIOUS
<1>6. PICK old : old = Concept(i)
  OBVIOUS
<1>7. PICK c : c = [old EXCEPT !.stage = "PRODUCTION_READY"]
  OBVIOUS
<1>8. PICK p : p = Project(i, c)
  OBVIOUS
<1>9. PICK takers : takers = {e \in SuggestEngines(c) : Accepts(e, Manifest(id, p))}
  OBVIOUS
<1>10. PICK m : m = Manifest(id, p)
  OBVIOUS
<1>11. PICK a, b, n : /\ a = Write(<<"projects", id>>, p) /\ b = Saved(i, c)
                      /\ n = Write(<<"canon", id>>, p.title)
  OBVIOUS
<1>12. PICK h, t, u, v :
         /\ h = SetToSeq({Write(<<"handoff", id, e>>, m) : e \in takers})
         /\ t = SavedTournament(Tournament(i, TRUE)) /\ u = TournamentRecord(Tournament(i, TRUE))
         /\ v = WinnerPackage(i, c, id, p)
  OBVIOUS
<1>13. PICK told : told = [winner |-> i, title |-> c.title, project |-> id]
  OBVIOUS
<1>14. todo' = <<a, b, n>> \o h \o t \o u \o v /\ hand' = told
  BY IdsAreNew, <1>4, <1>5, <1>6, <1>7, <1>8, <1>9, <1>10, <1>11, <1>12, <1>13 DEF ApproveCreativeProject, Owe
<1>15. told.winner = i /\ told.title = c.title /\ told.project = id
  BY <1>13
\* The winner, as it is and as it becomes.
<1>16. /\ i \in Stored("concepts") /\ ~Owned(i) /\ IsIdea(old) /\ old.stage = "APPROVED"
       /\ Whole(old.artifacts)
  <2>1. /\ i \in Stored("concepts") /\ ~Owned(i) /\ Final[<<"concepts", i>>].stage = "APPROVED"
        /\ Whole(Final[<<"concepts", i>>].artifacts)
    BY <1>1, <1>4 DEF IInv, HandInv
  <2>2. Final = disk
    BY <1>1, NowIsFinal DEF IInv
  <2>3. Final[<<"concepts", i>>] = old
    BY <1>6, <2>2 DEF Concept
  <2>4. IsIdea(old)
    BY <1>6, <2>1 DEF IInv, StoreInv
  <2> QED BY <2>1, <2>3, <2>4
<1>17. IsIdea(c) /\ c.stage = "PRODUCTION_READY" /\ c.artifacts = old.artifacts
  BY <1>7, <1>16, Restaged
<1>18. /\ p.concept = i /\ p.title = c.title /\ p.cycle = cycle /\ p.artifacts = c.artifacts
       /\ p.engines = SuggestEngines(c)
  BY <1>8 DEF Project
<1>19. IsFiniteSet(takers) /\ (HandoffEnabled => takers = p.engines) /\ takers \subseteq p.engines
  <2>1. IsFiniteSet(c.strong)
    BY <1>17, StrengthsAreFinite DEF IsIdea
  <2>2. IsFiniteSet(c.strong \cup {"living_book_engine"})
    BY <2>1, FS_AddElement
  <2>3. SuggestEngines(c) = c.strong \cup {"living_book_engine"}
    BY DEF SuggestEngines
  <2>4. takers \subseteq SuggestEngines(c)
    BY <1>9
  <2>5. IsFiniteSet(takers)
    BY <2>2, <2>3, <2>4, FS_Subset
  <2>6. HandoffEnabled => takers = p.engines
    BY <1>9, <1>18 DEF Accepts, Manifest
  <2> QED BY <1>18, <2>4, <2>5, <2>6
\* What is owed, list by list.
<1>20. /\ a.place = <<"projects", id>> /\ a.value = p /\ b.place = <<"concepts", i>> /\ b.value = c
       /\ n.place = <<"canon", id>>
  BY <1>11 DEF Saved, Write
<1>21. /\ a.place[1] = "projects" /\ b.place[1] = "concepts" /\ b.place[2] = i /\ n.place[1] = "canon"
       /\ Shaped(a.place) /\ Shaped(b.place) /\ Shaped(n.place)
       /\ ~Report(a.place) /\ ~Report(b.place) /\ ~Report(n.place)
       /\ ~Package(a.place) /\ ~Package(b.place) /\ ~Package(n.place)
  BY <1>20 DEF Shaped, Report, Package, Kinds
<1>22. Tidy(<<a, b, n>>) /\ Items(<<a, b, n>>) = {a, b, n} /\ <<a, b, n>> # <<>> /\ <<a, b, n>>[1] = a
  <2>1. a.place # b.place /\ a.place # n.place /\ b.place # n.place
    BY <1>21
  <2> QED BY <2>1, ThreeAreTidy
<1>23. /\ Tidy(h) /\ \A w \in Items(h) : \E e \in takers : w.place = <<"handoff", id, e>>
       /\ \A e \in takers : \E w \in Items(h) : w.place = <<"handoff", id, e>>
  <2>1. PICK T : T = {Write(<<"handoff", id, e>>, m) : e \in takers}
    OBVIOUS
  <2>2. Outboxes(T, takers, id, m)
    BY <2>1 DEF Outboxes
  <2>3. h = SetToSeq(T)
    BY <1>12, <2>1
  <2>4. /\ Tidy(SetToSeq(T)) /\ Items(SetToSeq(T)) = T
        /\ \A w \in T : \E e \in takers : w.place = <<"handoff", id, e>>
        /\ \A e \in takers : \E w \in T : w.place = <<"handoff", id, e>>
    BY <1>19, <2>2, OutboxesAreTidy
  <2> QED BY <2>3, <2>4
<1>24. /\ Tidy(t) /\ Items(t) # {}
       /\ \A w \in Items(t) : Owes(w)' /\ w.place = <<"tournaments", cycle>> /\ w.place[1] = "tournaments"
                              /\ w.value = Tournament(i, TRUE)
  <2>1. Items(t) # {}
    BY <1>12, OneIsTidy DEF SavedTournament
  <2> QED BY <1>1, <1>12, <2>1, TournamentIsOwed
<1>25. /\ Tidy(u) /\ Items(u) # {}
       /\ \A w \in Items(u) : /\ Owes(w)' /\ w.place[1] = "outputs" /\ w.value = Tournament(i, TRUE)
                              /\ w.place = <<"outputs", folder, cycle, "tournament/tournament.json">>
                              /\ w.place[4] = "tournament/tournament.json"
  <2>1. PICK w : w = Out("tournament/tournament.json", Tournament(i, TRUE))
    OBVIOUS
  <2>2. u = <<w>> /\ Outputs(u, {"tournament/tournament.json"})
    BY <1>12, <2>1, OneOutput DEF TournamentRecord
  <2>3. Items(u) = {w}
    BY <2>2, OneIsTidy
  <2>4. Owes(w)'
    BY <1>1, <2>2, <2>3, OutputsAreOwed
  <2>5. /\ w.place = <<"outputs", folder, cycle, "tournament/tournament.json">> /\ w.place[1] = "outputs"
        /\ w.place[4] = "tournament/tournament.json" /\ w.value = Tournament(i, TRUE)
    BY <2>1, OutPlaces
  <2>6. Tidy(u)
    BY <2>2 DEF Outputs
  <2> QED BY <2>3, <2>4, <2>5, <2>6
<1>26. /\ Tidy(v) /\ \A w \in Items(v) : w.place[1] = "outputs" /\ w.place[4] \in PackagePaths
       /\ \A file \in ToSet(PackageFiles(i, p.artifacts, id, p)) : Out(file[1], file[2]) \in Items(v)
       /\ Outputs(v, PackagePaths)
       /\ Len(v) = 9 /\ v[9].place = <<"outputs", folder, cycle, "winner/execution_manifest.json">>
  <2>1. Outputs(v, PackagePaths)
    BY <1>12, PackageIsTidy
  <2>2. /\ \A file \in ToSet(PackageFiles(i, c.artifacts, id, p)) : Out(file[1], file[2]) \in Items(v)
        /\ Len(v) = 9 /\ v[9].place = <<"outputs", folder, cycle, "winner/execution_manifest.json">>
    BY <1>12, PackageIsTidy
  <2> QED BY <1>18, <2>1, <2>2 DEF Outputs
\* The whole list.
<1>27. PICK s : s = <<a, b, n>> \o h \o t \o u \o v
  OBVIOUS
<1>28. /\ Tidy(s) /\ Items(s) = {a, b, n} \cup Items(h) \cup Items(t) \cup Items(u) \cup Items(v)
       /\ s[1] = a
       /\ s[Len(s)] = v[9]
  <2>1. PICK x : x = <<a, b, n>>
    OBVIOUS
  <2>2. \A w \in Items(h) : w.place[1] = "handoff"
    BY <1>23
  <2>3. /\ Tidy(x \o h) /\ Items(x \o h) = {a, b, n} \cup Items(h)
        /\ x \o h # <<>> /\ (x \o h)[1] = a
    <3>1. \A y \in Items(x), z \in Items(h) : y.place # z.place
      BY <1>21, <1>22, <2>1, <2>2
    <3> QED BY <1>22, <1>23, <2>1, <3>1, JoinsAreTidy
  <2>4. /\ Tidy(x \o h \o t) /\ Items(x \o h \o t) = Items(x \o h) \cup Items(t)
        /\ x \o h \o t # <<>> /\ (x \o h \o t)[1] = a
    <3>1. \A y \in Items(x \o h), z \in Items(t) : y.place # z.place
      BY <1>21, <1>24, <2>2, <2>3
    <3> QED BY <1>24, <2>3, <3>1, JoinsAreTidy
  <2>5. /\ Tidy(x \o h \o t \o u) /\ Items(x \o h \o t \o u) = Items(x \o h \o t) \cup Items(u)
        /\ x \o h \o t \o u # <<>> /\ (x \o h \o t \o u)[1] = a
    <3>1. \A y \in Items(x \o h \o t), z \in Items(u) : y.place # z.place
      BY <1>21, <1>24, <1>25, <2>2, <2>3, <2>4
    <3> QED BY <1>25, <2>4, <3>1, JoinsAreTidy
  <2>6. /\ Tidy(x \o h \o t \o u \o v) /\ Items(x \o h \o t \o u \o v) = Items(x \o h \o t \o u) \cup Items(v)
        /\ (x \o h \o t \o u \o v)[1] = a
    <3>1. \A y \in Items(x \o h \o t \o u), z \in Items(v) : y.place # z.place
      <4> SUFFICES ASSUME NEW y \in Items(x \o h \o t \o u), NEW z \in Items(v) PROVE y.place # z.place
        OBVIOUS
      <4>1. z.place[1] = "outputs" /\ z.place[4] \in PackagePaths
        BY <1>26
      <4>2. CASE y \in {a, b, n} \cup Items(h) \cup Items(t)
        <5>1. y.place[1] # "outputs"
          BY <1>21, <1>24, <2>2, <4>2
        <5> QED BY <4>1, <5>1
      <4>3. CASE y \in Items(u)
        <5>1. y.place[4] \notin PackagePaths
          BY <1>25, <4>3 DEF PackagePaths
        <5> QED BY <4>1, <5>1
      <4> QED BY <2>3, <2>4, <2>5, <4>2, <4>3
    <3> QED BY <1>26, <2>5, <3>1, JoinsAreTidy
  <2>7. s[Len(s)] = v[9]
    <3>1. PICK x1 : x1 = x \o h \o t \o u
      OBVIOUS
    <3>2. s = x1 \o v /\ Tidy(x1) /\ Tidy(v)
      BY <1>26, <1>27, <2>1, <2>5, <3>1
    <3>3. LastOfJoin(x1, v)
      <4>1. Len(v) = 9
        BY <1>26
      <4>2. Len(v) \in Nat \ {0}
        BY <4>1
      <4> QED BY <3>2, <4>2, JoinsEndLate
    <3> QED BY <1>26, <3>2, <3>3 DEF LastOfJoin
  <2> QED BY <1>27, <2>1, <2>3, <2>4, <2>5, <2>6, <2>7
<1>29. todo' = s
  BY <1>14, <1>27
\* The manifest is the last of the package, and so of all.
<1>41. \A w \in Items(v) : Owes(w)'
  <2>1. \A w \in Items(v) : Package(w.place) => w = todo'[Len(todo')]
    <3> SUFFICES ASSUME NEW w \in Items(v), Package(w.place) PROVE w = v[9]
      BY <1>28, <1>29
    <3>1. w.place = v[9].place
      BY <1>26 DEF Outputs, Package
    <3>2. v[9] \in Items(v)
      <4>1. 9 \in 1 .. Len(v)
        BY <1>26
      <4> QED BY <4>1 DEF Items
    <3>3. PlacesApart(Items(v))
      BY <1>26, ItemsAreApart DEF PlacesApart
    <3> QED BY <3>1, <3>2, <3>3 DEF PlacesApart
  <2> QED BY <1>1, <1>26, <2>1, OutputsAreOwed DEF PackagePaths
\* The files, once all is written.
<1>30. PICK F : F = Final'
  OBVIOUS
<1>31. \A w \in Items(s) : w.place \in DOMAIN F /\ F[w.place] = w.value
  <2>1. PICK d : d = disk'
    OBVIOUS
  <2>2. PICK writes : writes = Items(s)
    OBVIOUS
  <2>3. F = Settled(d, writes)
    BY <1>29, <1>30, <2>1, <2>2 DEF Final
  <2>4. PlacesApart(writes)
    BY <1>28, <2>2, ItemsAreApart DEF PlacesApart
  <2>5. \A w \in writes : Settled(d, writes)[w.place] = w.value
    BY <2>4, SettledAt
  <2>6. \A w \in writes : w.place \in DOMAIN Settled(d, writes)
    <3> TAKE w \in writes
    <3>1. DOMAIN Settled(d, writes) = DOMAIN d \cup {x.place : x \in writes}
      BY SettledFiles
    <3> QED BY <3>1
  <2> QED BY <2>2, <2>3, <2>5, <2>6
<1>32. /\ <<"projects", id>> \in DOMAIN F /\ F[<<"projects", id>>] = p
       /\ <<"concepts", i>> \in DOMAIN F /\ F[<<"concepts", i>>] = c /\ <<"canon", id>> \in DOMAIN F
  <2>1. a \in Items(s) /\ b \in Items(s) /\ n \in Items(s)
    BY <1>28
  <2> QED BY <1>20, <1>31, <2>1
<1>33. Tells(F, told, folder, cycle)
  <2>1. \A q \in Tournaments(folder, cycle) : q \in DOMAIN F /\ F[q] = Tournament(i, TRUE)
    <3>1. PICK w \in Items(t) : TRUE
      BY <1>24
    <3>2. PICK x \in Items(u) : TRUE
      BY <1>25
    <3>3. w \in Items(s) /\ x \in Items(s)
      BY <1>28
    <3>4. <<"tournaments", cycle>> \in DOMAIN F /\ F[<<"tournaments", cycle>>] = Tournament(i, TRUE)
      BY <1>24, <1>31, <3>3
    <3>5. /\ <<"outputs", folder, cycle, "tournament/tournament.json">> \in DOMAIN F
          /\ F[<<"outputs", folder, cycle, "tournament/tournament.json">>] = Tournament(i, TRUE)
      BY <1>25, <1>31, <3>3
    <3> QED BY <3>4, <3>5 DEF Tournaments
  <2>2. HandoffEnabled => \A e \in p.engines : <<"handoff", id, e>> \in DOMAIN F
    <3> SUFFICES ASSUME HandoffEnabled, NEW e \in p.engines PROVE <<"handoff", id, e>> \in DOMAIN F
      OBVIOUS
    <3>1. e \in takers
      BY <1>19
    <3>2. PICK w \in Items(h) : w.place = <<"handoff", id, e>>
      BY <1>23, <3>1
    <3>3. w \in Items(s)
      BY <1>28
    <3> QED BY <1>31, <3>2, <3>3
  <2>3. \A file \in ToSet(PackageFiles(i, p.artifacts, id, p)) :
          <<"outputs", folder, cycle, file[1]>> \in DOMAIN F /\ F[<<"outputs", folder, cycle, file[1]>>] = file[2]
    <3> TAKE file \in ToSet(PackageFiles(i, p.artifacts, id, p))
    <3>1. PICK w : w = Out(file[1], file[2])
      OBVIOUS
    <3>2. w \in Items(s)
      BY <1>26, <1>28, <3>1
    <3>3. w.place = <<"outputs", folder, cycle, file[1]>> /\ w.value = file[2]
      BY <3>1, OutPlaces
    <3> QED BY <1>31, <3>2, <3>3
  <2> QED BY <1>15, <1>17, <1>18, <1>32, <2>1, <2>2, <2>3 DEF Tells
<1>34. i \in Stored("concepts")' /\ ~Owned(i)' /\ Concept(i)' = old /\ Stored("projects")' = Stored("projects")
  BY <1>1, <1>6, <1>16, Unwritten
<1>35. HandInv'
  <2>1. Concept(hand.winner)' = old
    BY <1>14, <1>15, <1>34 DEF Concept
  <2> QED BY <1>1, <1>14, <1>15, <1>16, <1>30, <1>33, <1>34, <2>1 DEF HandInv
<1>36. Owes(a)'
  <2>1. Owned(hand.winner)' => Owned(i)'
    BY <1>14, <1>15 DEF Owned
  <2>2. Concept(hand.winner)' = old
    BY <1>14, <1>15, <1>34 DEF Concept
  <2>3. Promoted(a)'
    BY <1>5, <1>14, <1>15, <1>16, <1>17, <1>18, <1>20, <1>28, <1>29, <1>34, <2>1, <2>2 DEF Promoted
  <2> QED BY <1>1, <1>21, <2>3 DEF Owes
<1>37. Owes(b)'
  <2>1. Concept(hand.winner)' = old
    BY <1>14, <1>15, <1>34 DEF Concept
  <2>2. Crowned(b)'
    BY <1>7, <1>14, <1>15, <1>20, <1>21, <2>1 DEF Crowned
  <2> QED BY <1>1, <1>21, <2>2 DEF Owes
<1>38. Owes(n)'
  BY <1>1, <1>21 DEF Owes
<1>39. \A w \in Items(h) : Owes(w)'
  <2> TAKE w \in Items(h)
  <2>1. PICK e \in takers : w.place = <<"handoff", id, e>>
    BY <1>23
  <2>2. /\ w.place[1] = "handoff" /\ w.place[2] = id /\ w.place[3] = e
        /\ Shaped(w.place) /\ ~Report(w.place) /\ ~Package(w.place)
    BY <2>1 DEF Shaped, Report, Package, Kinds
  <2>3. HandedOff(w)'
    BY <1>14, <1>15, <1>19, <1>30, <1>32, <2>2 DEF HandedOff
  <2> QED BY <1>1, <2>2, <2>3 DEF Owes
<1>40. TodoInv'
  <2>1. \A w \in Items(s) : Owes(w)'
    BY <1>24, <1>25, <1>28, <1>36, <1>37, <1>38, <1>39, <1>41
  <2> QED BY <1>28, <1>29, <2>1, OwedAsListed
<1> QED BY <1>2, <1>3, <1>35, <1>40 DEF IInv

-----------------------------------------------------------------------------

LEMMA WritingKeeps == ASSUME IInv, WriteNext PROVE IInv'
<1>1. StoreInv' /\ ProjectsAreWhole'
  BY WritingKeepsStore, WritingKeepsWhole DEF IInv
<1>2. OutcomeInv' /\ ReportInv'
  BY WritingKeepsOutcome, WritingKeepsReports DEF IInv
<1>3. TodoInv' /\ HandInv'
  BY WritingKeepsTodo, WritingKeepsHand DEF IInv
<1>4. PhaseInv'
  BY WritersWork DEF IInv, PhaseInv
<1> QED BY <1>1, <1>2, <1>3, <1>4 DEF IInv

LEMMA StepsAreSound == ASSUME ~IdsRepeat, former = {}, IInv, [Next]_vars PROVE IInv'
<1>1. CASE UNCHANGED vars
  BY <1>1, MidnightKeeps DEF vars
<1>2. CASE Boot
  BY <1>2, BootKeeps
<1>3. CASE BeginCycle
  BY <1>3, BeginKeeps
<1>4. CASE Midnight
  BY <1>4, MidnightKeeps DEF Midnight
<1>5. CASE \E n \in 1 .. Len(CycleOrder) : Enter(n)
  BY <1>5, EnterKeeps
<1>6. CASE Create \/ Explore \/ Consolidate \/ Dream \/ DeepSleep
  BY <1>6, CreateKeeps, ExploreKeeps, RecordKeeps
<1>7. CASE NobodyCompetes \/ Compete
  BY <1>7, NobodyKeeps, CompeteKeeps
<1>8. CASE Approve \/ RefuseAll
  BY <1>8, ApproveKeeps, RefuseKeeps
<1>9. CASE DevelopWinner \/ ApproveCreativeProject
  BY <1>9, DevelopKeeps, ApprovalKeeps
<1>10. CASE Announce \/ Leave
  BY <1>10, AnnounceKeeps, LeaveKeeps
<1>11. CASE WriteNext
  BY <1>11, WritingKeeps
<1>12. CASE Missing
  <2>1. phase # "down" /\ Die /\ disk' = disk
    BY <1>12 DEF Missing, At
  <2> QED BY <2>1, DyingKeeps
<1>13. CASE Kill
  <2>1. phase # "down" /\ Die
    BY <1>13 DEF Kill
  <2>2. CASE disk' = disk
    BY <2>1, <2>2, DyingKeeps
  <2>3. CASE todo # <<>> /\ MayTear(Head(todo)) /\ disk' = With(Head(todo).place, <<"torn">>)
    BY <2>1, <2>3, TearingKeeps
  <2> QED BY <1>13, <2>2, <2>3 DEF Kill
<1>14. CASE Abandon
  BY <1>14, AbandonKeeps
<1> QED BY <1>1, <1>2, <1>3, <1>4, <1>5, <1>6, <1>7, <1>8, <1>9, <1>10, <1>11, <1>12, <1>13, <1>14 DEF Next

\* With a seed of its own no process draws an id again.
LEMMA NoIdIsDrawnAgain == ASSUME ~IdsRepeat PROVE Spec => [](former = {})
<1>1. Init => former = {}
  BY DEF Init
<1>2. former = {} /\ [Next]_vars => (former = {})'
  <2> SUFFICES ASSUME former = {}, [Next]_vars PROVE former' = {}
    OBVIOUS
  <2>1. CASE Boot \/ BeginCycle \/ Midnight \/ Leave \/ (\E n \in 1 .. Len(CycleOrder) : Enter(n)) \/ UNCHANGED vars
    BY <2>1 DEF Boot, BeginCycle, Midnight, Leave, Enter, held, vars
  <2>2. CASE Create \/ NobodyCompetes \/ Compete \/ Approve \/ RefuseAll \/ DevelopWinner \/ ApproveCreativeProject
    BY <2>2 DEF Create, NobodyCompetes, Compete, Approve, RefuseAll, DevelopWinner, ApproveCreativeProject,
                Owe, held
  <2>3. CASE Explore \/ Consolidate \/ Dream \/ DeepSleep \/ Announce
    BY <2>3 DEF Explore, Consolidate, Dream, DeepSleep, Announce, Owe, held
  <2>4. CASE WriteNext \/ Missing \/ Kill \/ Abandon
    BY <2>4 DEF WriteNext, Missing, Kill, Abandon, Die, held
  <2> QED BY <2>1, <2>2, <2>3, <2>4 DEF Next
<1> QED BY <1>1, <1>2, PTL DEF Spec

LEMMA ProductionIsSound == ASSUME ~IdsRepeat PROVE Spec => []IInv
<1>1. Init => IInv
  BY StartsSound
<1>2. IInv /\ former = {} /\ [Next]_vars => IInv'
  BY StepsAreSound
<1>3. Spec => [](former = {})
  BY NoIdIsDrawnAgain
<1> QED BY <1>1, <1>2, <1>3, PTL DEF Spec

\* What a folder promises is what a reader finds there.
LEMMA PromisesAreDelivered ==
  ASSUME StoreInv, NEW at, at[1] = "outputs", NEW told, Tells(disk, told, at[2], at[3])
  PROVE  Delivered(at, told.winner, told.project) /\ disk[<<"projects", told.project>>].title = told.title
<1>1. PICK p : p = disk[<<"projects", told.project>>]
  OBVIOUS
<1>2. /\ {<<"projects", told.project>>, <<"canon", told.project>>, <<"concepts", told.winner>>}
           \cup Tournaments(at[2], at[3]) \subseteq DOMAIN disk
      /\ p.concept = told.winner /\ p.title = told.title /\ p.cycle = at[3]
      /\ disk[<<"concepts", told.winner>>].stage = "PRODUCTION_READY"
      /\ \A q \in Tournaments(at[2], at[3]) : disk[q] = Tournament(told.winner, TRUE)
      /\ HandoffEnabled => \A e \in p.engines : <<"handoff", told.project, e>> \in DOMAIN disk
  BY <1>1 DEF Tells
<1>3. \A file \in ToSet(PackageFiles(told.winner, p.artifacts, told.project, p)) :
        /\ <<"outputs", at[2], at[3], file[1]>> \in DOMAIN disk
        /\ disk[<<"outputs", at[2], at[3], file[1]>>] = file[2]
  BY <1>1 DEF Tells
<1>6. Says(at, told.winner, told.project, p)
  BY <1>3 DEF Says, Holds
<1>4. told.project \in Stored("projects") \cap Stored("canon")
  BY <1>2, StoredAt DEF Kinds
<1>5. /\ Holds(<<"tournaments", at[3]>>, Tournament(told.winner, TRUE))
      /\ Holds(<<"outputs", at[2], at[3], "tournament/tournament.json">>, Tournament(told.winner, TRUE))
  BY <1>2 DEF Holds, Tournaments
<1> QED BY <1>1, <1>2, <1>4, <1>5, <1>6 DEF Concept, Delivered

LEMMA PromisesAreTold == ASSUME IInv PROVE OutcomeTellsTheTruth
<1> SUFFICES ASSUME NEW at \in DOMAIN disk, Report(at), NEW told, told = disk[at], told.winner # Nobody
             PROVE  /\ Delivered(at, told.winner, told.project)
                    /\ disk[<<"projects", told.project>>].title = told.title
  BY DEF OutcomeTellsTheTruth, Files, Report
<1>1. Tells(disk, told, at[2], at[3]) /\ at[1] = "outputs" /\ StoreInv
  BY DEF IInv, ReportInv, Report
<1> QED BY <1>1, PromisesAreDelivered

\* A winner read in runtime.json has its project, its production-ready concept, its
\* tournament, its canon, its outboxes and its whole package (competing.py,
\* artifacts.py, filesystem.py: the order in which the approval writes them).
THEOREM EveryOutcomeTellsTheTruth == ASSUME ~IdsRepeat PROVE Spec => []OutcomeTellsTheTruth
<1>1. IInv => OutcomeTellsTheTruth
  BY PromisesAreTold
<1> QED BY <1>1, ProductionIsSound, PTL

\* A stored project is the only one of its concept, developed once, and no engine was
\* handed another (competing.py: ApproveCreativeProject and DevelopWinner).
THEOREM EveryProjectIsWhole == ASSUME ~IdsRepeat PROVE Spec => []ProjectsAreWhole
<1>1. IInv => ProjectsAreWhole
  BY DEF IInv
<1> QED BY <1>1, ProductionIsSound, PTL

-----------------------------------------------------------------------------
(* The works that were published. *)

\* The verdict of the cycle has been reached.
Decided ==
  /\ "REFLECTION" \in visited /\ phase # "CREATION"
  /\ phase = "REFLECTION" => step \in {"announce", "done"}

\* Works are of different days, in order, and today's is begun when the verdict is.
BookInv ==
  \A id \in Stored("projects") :
    LET day == disk[<<"projects", id>>].cycle IN
    /\ day \in 0 .. cycle
    /\ day = cycle => Decided /\ \A w \in Items(todo) : w.place[1] # "projects"
    /\ \A other \in Stored("projects") : other < id => disk[<<"projects", other>>].cycle < day

Contents(m) == [winner |-> m.concept, title |-> m.title, project |-> m.project]

\* A manifest is the last of its package, and stands for all of it.
ManifestInv ==
  \A at \in DOMAIN disk : Package(at) =>
    /\ at[3] \in 0 .. cycle
    /\ at[3] = cycle => Decided /\ (phase = "REFLECTION" => todo = <<>>)
    /\ Tells(disk, Contents(disk[at]), at[2], at[3])

LibraryInv == BookInv /\ ManifestInv

\* Only the approval owes a project.
LEMMA OnlyApprovalsPromote ==
  ASSUME PhaseInv, TodoInv, NEW w \in Items(todo), w.place[1] = "projects"
  PROVE  phase = "REFLECTION" /\ step = "announce" /\ w = todo[1]
<1>1. Owes(w)
  BY DEF TodoInv
<1>2. todo # <<>>
  BY NoneIsTidy
<1>3. phase \in Working /\ step # "start"
  BY <1>2 DEF PhaseInv
<1>4. CASE phase = "REFLECTION"
  BY <1>1, <1>3, <1>4 DEF Owes, PhaseInv, Promoted
<1>5. CASE phase # "REFLECTION"
  BY <1>1, <1>3, <1>5 DEF Owes, Working, Report
<1> QED BY <1>4, <1>5

LEMMA PromotionsNext ==
  PhaseInv' /\ TodoInv' =>
    (\A w \in Items(todo) : w.place[1] = "projects" => phase = "REFLECTION" /\ step = "announce")'
<1>1. PhaseInv /\ TodoInv =>
        \A w \in Items(todo) : w.place[1] = "projects" => phase = "REFLECTION" /\ step = "announce"
  BY OnlyApprovalsPromote
<1> QED BY <1>1, PTL

\* Without a write the works stay, and so does what is known of them.
LEMMA LibraryOutlives ==
  ASSUME IInv, IInv', LibraryInv, disk' = disk,
         \/ cycle' = cycle + 1
         \/ cycle' = cycle /\ (Decided => /\ Decided'
                                          /\ phase' = "REFLECTION" => todo' = <<>> \/ UNCHANGED <<phase, todo>>)
  PROVE  LibraryInv'
<1>1. cycle \in Nat /\ Stored("projects")' = Stored("projects")
  BY Unwritten DEF IInv, StoreInv
<1>2. ASSUME NEW id \in Stored("projects"), NEW day, day = disk[<<"projects", id>>].cycle
      PROVE  /\ day \in 0 .. cycle'
             /\ day = cycle' => Decided' /\ \A w \in Items(todo') : w.place[1] # "projects"
  <2>1. day \in 0 .. cycle /\ (day = cycle => Decided /\ \A w \in Items(todo) : w.place[1] # "projects")
    BY <1>2 DEF LibraryInv, BookInv
  <2>2. CASE cycle' = cycle + 1
    BY <1>1, <2>1, <2>2
  <2>3. CASE cycle' = cycle
    <3> SUFFICES ASSUME day = cycle, NEW w \in Items(todo'), w.place[1] = "projects" PROVE FALSE
      BY <2>1, <2>3
    <3>1. phase' = "REFLECTION"
      BY PromotionsNext DEF IInv
    <3>2. CASE todo' = <<>>
      <4>1. PICK t : t = todo'
        OBVIOUS
      <4> QED BY <3>2, <4>1, NoneIsTidy
    <3>3. CASE todo' = todo
      BY <2>1, <3>3
    <3> QED BY <1>1, <2>1, <2>3, <3>1, <3>2, <3>3
  <2> QED BY <2>2, <2>3
<1>3. BookInv'
  BY <1>1, <1>2 DEF LibraryInv, BookInv
<1>4. ASSUME NEW at \in DOMAIN disk, Package(at)
      PROVE  /\ at[3] \in 0 .. cycle'
             /\ at[3] = cycle' => Decided' /\ (phase' = "REFLECTION" => todo' = <<>>)
             /\ Tells(disk', Contents(disk'[at]), at[2], at[3])
  <2>1. /\ at[3] \in 0 .. cycle /\ (at[3] = cycle => Decided /\ (phase = "REFLECTION" => todo = <<>>))
        /\ Tells(disk, Contents(disk[at]), at[2], at[3])
    BY <1>4 DEF LibraryInv, ManifestInv
  <2>2. at[3] \in 0 .. cycle' /\ (at[3] = cycle' => cycle' = cycle)
    BY <1>1, <2>1
  <2>3. Tells(disk', Contents(disk'[at]), at[2], at[3])
    BY <2>1 DEF Tells
  <2> QED BY <2>1, <2>2, <2>3
<1>5. ManifestInv'
  BY <1>4 DEF ManifestInv, Package
<1> QED BY <1>3, <1>5 DEF LibraryInv

LEMMA LibraryStarts == ASSUME Init PROVE LibraryInv
BY DEF Init, LibraryInv, BookInv, ManifestInv, Stored

\* What the approval still owes is of this cycle.
LEMMA ApprovalIsOfToday ==
  ASSUME IInv, NEW w \in Items(todo), w.place[1] = "projects"
  PROVE  /\ w.place = <<"projects", hand.project>> /\ hand.project = Cardinality(Stored("projects")) + 1
         /\ w.value.cycle = cycle
<1>1. phase = "REFLECTION" /\ step = "announce" /\ Promoted(w)
  <2>1. phase = "REFLECTION" /\ step = "announce" /\ Owes(w)
    BY OnlyApprovalsPromote DEF IInv, TodoInv
  <2> QED BY <2>1 DEF Owes
<1>2. Tells(Final, hand, folder, cycle)
  BY <1>1 DEF IInv, HandInv
<1>3. Final[<<"projects", hand.project>>].cycle = cycle
  BY <1>2 DEF Tells
<1>4. PlacesApart(Items(todo))
  BY ItemsAreApart DEF IInv, TodoInv, PlacesApart
<1>5. Final[w.place] = w.value
  BY <1>4, SettledAt DEF Final
<1> QED BY <1>1, <1>3, <1>5 DEF Promoted

LEMMA WritingKeepsBooks == ASSUME IInv, IInv', LibraryInv, WriteNext PROVE BookInv'
<1>1. PICK w : w = todo[1]
  OBVIOUS
<1>2. /\ w \in Items(todo) /\ Items(todo') = Items(todo) \ {w} /\ disk'[w.place] = w.value
  BY <1>1, Writing DEF IInv
<1>3. UNCHANGED <<phase, step, visited, cycle>> /\ cycle \in Nat
  BY WritersWork DEF IInv, StoreInv
<1>4. /\ Stored("projects")' = IF w.place[1] = "projects" THEN Stored("projects") \cup {w.place[2]}
                               ELSE Stored("projects")
      /\ \A id \in Stored("projects") :
           w.place # <<"projects", id>> => disk'[<<"projects", id>>] = disk[<<"projects", id>>]
  BY <1>1, StoreChanges DEF IInv, Kinds
<1>5. Decided' = Decided
  BY <1>3 DEF Decided
<1>6. CASE w.place[1] # "projects"
  <2>1. \A id \in Stored("projects") : w.place # <<"projects", id>>
    BY <1>6
  <2> QED BY <1>2, <1>3, <1>4, <1>5, <1>6, <2>1 DEF LibraryInv, BookInv
<1>7. CASE w.place[1] = "projects"
  <2>1. PICK n : n = Cardinality(Stored("projects"))
    OBVIOUS
  <2>2. n \in Nat /\ Stored("projects") = 1 .. n
    BY <2>1 DEF IInv, StoreInv
  <2>3. w.place = <<"projects", n + 1>> /\ w.place[2] = n + 1 /\ w.value.cycle = cycle
    BY <1>2, <1>7, <2>1, ApprovalIsOfToday
  <2>4. phase = "REFLECTION" /\ step = "announce" /\ \A v \in Items(todo) : v.place[1] = "projects" => v = w
    BY <1>1, <1>2, <1>7, OnlyApprovalsPromote DEF IInv
  <2>5. Decided /\ \A v \in Items(todo') : v.place[1] # "projects"
    BY <1>2, <2>4 DEF Decided, IInv, PhaseInv
  <2>6. \A id \in Stored("projects") :
          /\ disk'[<<"projects", id>>] = disk[<<"projects", id>>] /\ id # n + 1 /\ id < n + 1
          /\ disk[<<"projects", id>>].cycle \in 0 .. cycle /\ disk[<<"projects", id>>].cycle < cycle
    <3> TAKE id \in Stored("projects")
    <3>1. id # n + 1 /\ id < n + 1
      BY <2>2
    <3>2. w.place # <<"projects", id>>
      BY <2>3, <3>1
    <3>3. /\ disk[<<"projects", id>>].cycle \in 0 .. cycle
          /\ disk[<<"projects", id>>].cycle # cycle
      BY <1>2, <1>7 DEF LibraryInv, BookInv
    <3> QED BY <1>3, <1>4, <3>1, <3>2, <3>3
  <2>7. Stored("projects")' = Stored("projects") \cup {n + 1} /\ disk'[<<"projects", n + 1>>] = w.value
    BY <1>2, <1>4, <1>7, <2>3
  <2>8. ASSUME NEW id \in Stored("projects") \cup {n + 1}
        PROVE  /\ disk'[<<"projects", id>>].cycle \in 0 .. cycle
               /\ \A other \in Stored("projects") \cup {n + 1} :
                    other < id => disk'[<<"projects", other>>].cycle < disk'[<<"projects", id>>].cycle
    <3>1. CASE id = n + 1
      BY <1>3, <2>2, <2>3, <2>6, <2>7, <3>1
    <3>2. CASE id \in Stored("projects")
      <4>1. \A other \in Stored("projects") \cup {n + 1} : other < id => other \in Stored("projects")
        BY <2>2, <3>2
      <4>2. \A other \in Stored("projects") :
              other < id => disk[<<"projects", other>>].cycle < disk[<<"projects", id>>].cycle
        BY <3>2 DEF LibraryInv, BookInv
      <4> QED BY <2>6, <3>2, <4>1, <4>2
    <3> QED BY <3>1, <3>2
  <2> QED BY <1>3, <1>5, <2>5, <2>7, <2>8 DEF BookInv
<1> QED BY <1>6, <1>7

\* What the manifest says is what the approval holds.
LEMMA PackageIsHeld ==
  ASSUME IInv, NEW w \in Items(todo), Package(w.place)
  PROVE  /\ phase = "REFLECTION" /\ step = "announce" /\ w = todo[Len(todo)]
         /\ w.place[2] = folder /\ w.place[3] = cycle
         /\ Tells(Final, hand, folder, cycle)
         /\ Contents(w.value).winner = hand.winner /\ Contents(w.value).title = hand.title
         /\ Contents(w.value).project = hand.project /\ w.value.project = hand.project
<1>1. /\ phase = "REFLECTION" /\ step = "announce" /\ w = todo[Len(todo)]
      /\ w.place[2] = folder /\ w.place[3] = cycle
      /\ w.place = <<"outputs", folder, cycle, "winner/execution_manifest.json">>
  <2>1. Owes(w)
    BY DEF IInv, TodoInv
  <2> QED BY <2>1 DEF Owes, Package, Shaped
<1>2. Tells(Final, hand, folder, cycle)
  BY <1>1 DEF IInv, HandInv
<1>3. PICK p : p = Final[<<"projects", hand.project>>]
  OBVIOUS
<1>4. PICK files : files = PackageFiles(hand.winner, p.artifacts, hand.project, p)
  OBVIOUS
<1>5. /\ p.concept = hand.winner /\ p.title = hand.title
      /\ \A file \in ToSet(files) : Final[<<"outputs", folder, cycle, file[1]>>] = file[2]
  BY <1>2, <1>3, <1>4 DEF Tells
<1>6. /\ files[9] \in ToSet(files) /\ files[9][1] = "winner/execution_manifest.json"
      /\ files[9][2] = Manifest(hand.project, p)
  <2>1. DOMAIN files = 1 .. 9
    BY <1>4, PackageLists
  <2>2. /\ files[9][1] = "winner/execution_manifest.json" /\ files[9][2] = Manifest(hand.project, p)
    BY <1>4 DEF PackageFiles
  <2> QED BY <2>1, <2>2 DEF ToSet
<1>7. Final[w.place] = w.value
  <2>1. PlacesApart(Items(todo))
    BY ItemsAreApart DEF IInv, TodoInv, PlacesApart
  <2> QED BY <2>1, SettledAt DEF Final
<1>8. w.value = Manifest(hand.project, p)
  BY <1>1, <1>5, <1>6, <1>7
<1>9. w.value.project = hand.project /\ w.value.concept = p.concept /\ w.value.title = p.title
  BY <1>8 DEF Manifest
<1> QED BY <1>1, <1>2, <1>5, <1>9 DEF Contents

\* Records that say the same promise the same.
LEMMA SamePromise ==
  ASSUME NEW d, NEW told, NEW other, NEW date, NEW c, Tells(d, told, date, c),
         other.winner = told.winner, other.title = told.title, other.project = told.project
  PROVE  Tells(d, other, date, c)
BY DEF Tells

LEMMA WritingKeepsManifests == ASSUME IInv, LibraryInv, WriteNext PROVE ManifestInv'
<1>1. PICK w : w = todo[1]
  OBVIOUS
<1>2. /\ w \in Items(todo) /\ disk'[w.place] = w.value
      /\ DOMAIN disk' = DOMAIN disk \cup {w.place} /\ disk' = [q \in DOMAIN disk' |-> disk'[q]]
      /\ \A q \in DOMAIN disk : q # w.place => disk'[q] = disk[q]
      /\ Final' = Final /\ (todo[1] = todo[Len(todo)] => todo' = <<>>)
  BY <1>1, Writing DEF IInv
<1>3. UNCHANGED <<phase, step, visited, cycle>> /\ cycle \in Nat /\ todo # <<>> /\ phase \in Working
  BY WritersWork DEF IInv, StoreInv
<1>4. Decided' = Decided
  BY <1>3 DEF Decided
<1>5. ASSUME NEW at \in DOMAIN disk, Package(at)
      PROVE  /\ at # w.place /\ at[3] \in 0 .. cycle /\ (at[3] = cycle => Decided /\ phase # "REFLECTION")
             /\ Tells(disk', Contents(disk'[at]), at[2], at[3])
  <2>1. /\ at[3] \in 0 .. cycle /\ (at[3] = cycle => Decided /\ phase # "REFLECTION")
        /\ Tells(disk, Contents(disk[at]), at[2], at[3])
    BY <1>3, <1>5 DEF LibraryInv, ManifestInv
  <2>2. at # w.place
    BY <1>2, <1>5, <2>1, PackageIsHeld
  <2>3. at[3] # cycle \/ phase \in {"EXPLORATION", "CONSOLIDATION", "DREAMING", "DEEP_SLEEP"}
    BY <1>3, <2>1 DEF Decided, Working
  <2>4. PICK told : told = Contents(disk[at])
    OBVIOUS
  <2>5. PICK date, c : date = at[2] /\ c = at[3]
    OBVIOUS
  <2>6. Tells(disk', told, date, c)
    <3>1. Tells(disk, told, date, c)
      BY <2>1, <2>4, <2>5
    <3> QED BY <2>3, <2>5, <3>1, PromisesOutlast DEF IInv
  <2>7. disk'[at] = disk[at]
    BY <1>2, <2>2
  <2>8. Contents(disk'[at]) = told
    BY <2>4, <2>7
  <2> QED BY <2>1, <2>2, <2>5, <2>6, <2>8
<1>6. ASSUME Package(w.place)
      PROVE  /\ w.place[3] = cycle /\ Decided /\ todo' = <<>>
             /\ Tells(disk', Contents(w.value), w.place[2], w.place[3])
  <2>1. /\ phase = "REFLECTION" /\ step = "announce" /\ w = todo[Len(todo)]
        /\ w.place[2] = folder /\ w.place[3] = cycle /\ Tells(Final, hand, folder, cycle)
        /\ Contents(w.value).winner = hand.winner /\ Contents(w.value).title = hand.title
        /\ Contents(w.value).project = hand.project
    BY <1>2, <1>6, PackageIsHeld
  <2>2. todo' = <<>> /\ Decided
    BY <1>1, <1>2, <2>1 DEF Decided, IInv, PhaseInv
  <2>3. Final' = disk'
    <3>1. PICK t : t = todo'
      OBVIOUS
    <3>2. Items(t) = {}
      BY <2>2, <3>1, NoneIsTidy
    <3>3. PICK e : e = disk'
      OBVIOUS
    <3>4. Settled(e, {}) = e
      BY <1>2, <3>3, NothingOwed
    <3>5. Final' = Settled(e, {})
      BY <3>1, <3>2, <3>3 DEF Final
    <3> QED BY <3>3, <3>4, <3>5
  <2>4. PICK e : e = disk'
    OBVIOUS
  <2>5. Tells(e, hand, folder, cycle)
    BY <1>2, <2>1, <2>3, <2>4
  <2>6. Tells(e, Contents(w.value), folder, cycle)
    BY <2>1, <2>5, SamePromise
  <2> QED BY <2>1, <2>2, <2>4, <2>6
<1>7. ASSUME NEW at \in DOMAIN disk', Package(at)
      PROVE  /\ at[3] \in 0 .. cycle' /\ (at[3] = cycle' => Decided' /\ (phase' = "REFLECTION" => todo' = <<>>))
             /\ Tells(disk', Contents(disk'[at]), at[2], at[3])
  <2>1. CASE at = w.place
    BY <1>2, <1>3, <1>4, <1>6, <1>7, <2>1
  <2>2. CASE at # w.place
    BY <1>2, <1>3, <1>4, <1>5, <1>7, <2>2
  <2> QED BY <2>1, <2>2
<1> QED BY <1>7 DEF ManifestInv, Package

LEMMA TearingKeepsLibrary ==
  ASSUME IInv, LibraryInv, Die, todo # <<>>, MayTear(Head(todo)), disk' = With(Head(todo).place, <<"torn">>)
  PROVE  LibraryInv'
<1>1. phase' = "down" /\ todo' = <<>> /\ UNCHANGED <<visited, cycle>>
  BY DEF Die, held
<1>2. PICK q : q = Head(todo).place
  OBVIOUS
<1>3. /\ q[1] = "outputs" /\ q[3] = cycle /\ q[4] \in InPlace /\ phase \in Working
      /\ phase \notin {"EXPLORATION", "CONSOLIDATION", "DREAMING", "DEEP_SLEEP"}
  <2>1. PICK s : s = todo
    OBVIOUS
  <2>2. s \in Seq(Items(s)) /\ s # <<>> /\ Tidy(s)
    BY <2>1 DEF IInv, TodoInv, Tidy
  <2>3. Head(s) = s[1] /\ s[1] \in Items(s)
    BY <2>2, ItemsAreApart
  <2>4. PICK w \in Items(todo) : w = Head(todo)
    BY <2>1, <2>3
  <2>5. Owes(w) /\ MayTear(w) /\ w.place = q
    BY <1>2, <2>4 DEF IInv, TodoInv
  <2>6. phase \in Working
    BY DEF IInv, PhaseInv
  <2>7. q[1] = "outputs" /\ q[3] = cycle /\ q[4] \in InPlace
    BY <2>5 DEF MayTear, Owes
  <2>8. phase # "EXPLORATION"
    BY <2>5, <2>7 DEF Owes
  <2>9. phase \notin {"CONSOLIDATION", "DREAMING", "DEEP_SLEEP"}
    BY <2>5, <2>7 DEF Owes, InPlace, Learning, Report
  <2> QED BY <2>6, <2>7, <2>8, <2>9
<1>4. /\ DOMAIN disk' = DOMAIN disk \cup {q} /\ \A r \in DOMAIN disk : r # q => disk'[r] = disk[r]
  BY <1>2 DEF With
<1>5. /\ Stored("projects")' = Stored("projects")
      /\ \A id \in Stored("projects") : disk'[<<"projects", id>>] = disk[<<"projects", id>>]
  BY <1>3, <1>4, OutputsAreApart DEF IInv, Kinds
<1>6. Decided => Decided'
  BY <1>1 DEF Decided
<1>7. BookInv'
  <2>1. \A w \in Items(todo') : FALSE
    <3>1. PICK t : t = todo'
      OBVIOUS
    <3>2. Items(t) = {}
      BY <1>1, <3>1, NoneIsTidy
    <3> QED BY <3>1, <3>2
  <2> QED BY <1>1, <1>5, <1>6, <2>1 DEF LibraryInv, BookInv
<1>8. ASSUME NEW at \in DOMAIN disk', Package(at)
      PROVE  /\ at[3] \in 0 .. cycle /\ at[3] # cycle
             /\ Tells(disk', Contents(disk'[at]), at[2], at[3])
  <2>1. at # q /\ at \in DOMAIN disk /\ disk'[at] = disk[at]
    BY <1>3, <1>4, <1>8 DEF Package, InPlace
  <2>2. /\ at[3] \in 0 .. cycle /\ (at[3] = cycle => Decided /\ phase # "REFLECTION")
        /\ Tells(disk, Contents(disk[at]), at[2], at[3])
    BY <1>8, <2>1 DEF LibraryInv, ManifestInv
  <2>3. at[3] # cycle
    BY <1>3, <2>2 DEF Decided, Working
  <2>4. PICK d, e, told, date, c : d = disk /\ e = disk' /\ told = Contents(disk[at]) /\ date = at[2] /\ c = at[3]
    OBVIOUS
  <2>5. Tells(d, told, date, c) /\ q[1] = "outputs" /\ q[3] # c
    BY <1>3, <2>2, <2>3, <2>4
  <2>6. DOMAIN e = DOMAIN d \cup {q} /\ \A r \in DOMAIN d : r # q => e[r] = d[r]
    BY <1>4, <2>4
  <2>7. Tells(e, told, date, c)
    BY <2>5, <2>6, AFileApart
  <2>8. Contents(disk'[at]) = told
    BY <2>1, <2>4
  <2> QED BY <2>2, <2>3, <2>4, <2>7, <2>8
<1>9. ManifestInv'
  BY <1>1, <1>8 DEF ManifestInv, Package
<1> QED BY <1>7, <1>9 DEF LibraryInv

LEMMA LibraryStep == ASSUME ~IdsRepeat, IInv, IInv', LibraryInv, [Next]_vars PROVE LibraryInv'
<1>1. CASE UNCHANGED vars \/ Midnight
  BY <1>1, LibraryOutlives DEF vars, Midnight, held, Decided
<1>2. CASE Boot
  BY <1>2, LibraryOutlives DEF Boot, Decided
<1>3. CASE BeginCycle
  BY <1>3, LibraryOutlives DEF BeginCycle
<1>4. ASSUME NEW n \in 1 .. Len(CycleOrder), Enter(n) PROVE LibraryInv'
  <2>1. /\ phase' = CycleOrder[n] /\ step' = "start" /\ UNCHANGED <<disk, cycle>>
        /\ visited' = visited \cup {CycleOrder[n]}
        /\ \A k \in n .. Len(CycleOrder) : CycleOrder[k] \notin visited
    BY <1>4 DEF Enter
  <2>2. Len(CycleOrder) = 6 /\ CycleOrder[1] = "CREATION" /\ CycleOrder[2] = "REFLECTION"
        /\ CycleOrder[3] = "EXPLORATION" /\ CycleOrder[4] = "CONSOLIDATION"
        /\ CycleOrder[5] = "DREAMING" /\ CycleOrder[6] = "DEEP_SLEEP"
    BY DEF CycleOrder
  <2>3. CASE n \in 1 .. 2
    <3>1. 2 \in n .. Len(CycleOrder)
      BY <2>2, <2>3
    <3> QED BY <2>1, <2>2, <3>1, LibraryOutlives DEF Decided
  <2>4. CASE n \in 3 .. 6
    <3>1. phase' \notin {"CREATION", "REFLECTION"}
      <4>1. n = 3 \/ n = 4 \/ n = 5 \/ n = 6
        BY <2>4
      <4> QED BY <2>1, <2>2, <4>1
    <3> QED BY <2>1, <3>1, LibraryOutlives DEF Decided
  <2> QED BY <2>2, <2>3, <2>4
<1>5. CASE Create \/ NobodyCompetes \/ Compete \/ Approve \/ RefuseAll \/ DevelopWinner \/ ApproveCreativeProject
  <2>1. ~Decided /\ UNCHANGED <<disk, cycle>>
    BY <1>5 DEF Create, NobodyCompetes, Compete, Approve, RefuseAll, DevelopWinner, ApproveCreativeProject,
                At, Owe, held, Decided
  <2> QED BY <2>1, LibraryOutlives
<1>6. CASE Explore \/ Consolidate \/ Dream \/ DeepSleep
  <2>1. phase \notin {"CREATION", "REFLECTION"} /\ UNCHANGED <<phase, visited, disk, cycle>>
    BY <1>6 DEF Explore, Consolidate, Dream, DeepSleep, At, Owe, held
  <2> QED BY <2>1, LibraryOutlives DEF Decided
<1>7. CASE Announce
  BY <1>7, LibraryOutlives DEF Announce, At, Decided
<1>8. CASE Leave
  BY <1>8, LibraryOutlives DEF Leave, held, Decided
<1>9. CASE WriteNext
  BY <1>9, WritingKeepsBooks, WritingKeepsManifests DEF LibraryInv
<1>10. ASSUME Die, disk' = disk PROVE LibraryInv'
  <2>1. phase' = "down" /\ UNCHANGED <<visited, cycle>>
    BY <1>10 DEF Die, held
  <2> QED BY <1>10, <2>1, LibraryOutlives DEF Decided
<1>11. CASE Missing \/ Kill
  BY <1>10, <1>11, TearingKeepsLibrary DEF Missing, Kill
<1>12. CASE Abandon
  <2>1. ~Decided /\ UNCHANGED <<disk, cycle>>
    BY <1>12 DEF Abandon, At, held, Decided
  <2> QED BY <2>1, LibraryOutlives
<1> QED BY <1>1, <1>2, <1>3, <1>4, <1>5, <1>6, <1>7, <1>8, <1>9, <1>11, <1>12 DEF Next

LEMMA LibraryIsKept == ASSUME ~IdsRepeat PROVE Spec => [](IInv /\ LibraryInv)
<1>1. Init => IInv /\ LibraryInv
  BY StartsSound, LibraryStarts
<1>2. (IInv /\ LibraryInv) /\ former = {} /\ [Next]_vars => (IInv /\ LibraryInv)'
  <2>1. IInv /\ LibraryInv /\ former = {} /\ [Next]_vars => IInv' /\ LibraryInv'
    BY StepsAreSound, LibraryStep
  <2> QED BY <2>1
<1>3. Spec => [](former = {})
  BY NoIdIsDrawnAgain
<1> QED BY <1>1, <1>2, <1>3, PTL DEF Spec

-----------------------------------------------------------------------------
(* Every step is a publisher's, or none. *)

LEMMA SameFilesSameWorks == ASSUME disk' = disk PROVE Works' = Works
<1>1. Stored("projects")' = Stored("projects")
  BY DEF Stored
<1>2. \A id : Told(id)' = Told(id) /\ Finished(id)' = Finished(id)
  <2> TAKE id
  <2>1. \A path : Files(path)' = Files(path)
    BY DEF Files
  <2>2. \A at, i : Delivered(at, i, id)' = Delivered(at, i, id)
    BY <1>1 DEF Delivered, Stored, Says, Holds, Concept
  <2> QED BY <2>1, <2>2 DEF Told, Finished
<1> QED BY <1>1, <1>2 DEF Works, Book

\* A manifest stands for the project, or a report names it.
Packed(id) == \E at \in DOMAIN disk : Package(at) /\ disk[at].project = id
Named(id) == \E at \in DOMAIN disk : Report(at) /\ disk[at].winner # Nobody /\ disk[at].project = id

\* The package ends with the manifest.
LEMMA ManifestOfPackage ==
  ASSUME NEW i, NEW artifacts, NEW id, NEW p
  PROVE  <<"winner/execution_manifest.json", Manifest(id, p)>> \in ToSet(PackageFiles(i, artifacts, id, p))
<1>1. PICK files : files = PackageFiles(i, artifacts, id, p)
  OBVIOUS
<1>2. DOMAIN files = 1 .. 9
  BY <1>1, PackageLists
<1>3. files[9] = <<"winner/execution_manifest.json", Manifest(id, p)>>
  BY <1>1 DEF PackageFiles
<1> QED BY <1>1, <1>2, <1>3 DEF ToSet

\* A package is whole when its manifest is there, and a work told when a report names it.
LEMMA WholeIsPacked ==
  IInv /\ LibraryInv =>
    \A id \in Stored("projects") : (Finished(id) <=> Packed(id)) /\ (Told(id) <=> Named(id))
<1> SUFFICES ASSUME IInv, LibraryInv, NEW id \in Stored("projects")
             PROVE  (Finished(id) <=> Packed(id)) /\ (Told(id) <=> Named(id))
  OBVIOUS
<1>1. PICK p : p = disk[<<"projects", id>>]
  OBVIOUS
<1>2. ASSUME Finished(id) PROVE Packed(id)
  <2>1. PICK at \in DOMAIN disk : Package(at) /\ Delivered(at, p.concept, id)
    BY <1>1, <1>2 DEF Finished, Files, Package
  <2>2. Says(at, p.concept, id, p)
    BY <1>1, <2>1 DEF Delivered
  <2>3. disk[<<at[1], at[2], at[3], "winner/execution_manifest.json">>] = Manifest(id, p)
    <3>1. PICK file : file = <<"winner/execution_manifest.json", Manifest(id, p)>>
      OBVIOUS
    <3>2. file \in ToSet(PackageFiles(p.concept, p.artifacts, id, p))
      BY <3>1, ManifestOfPackage
    <3>3. disk[<<at[1], at[2], at[3], file[1]>>] = file[2]
      BY <2>2, <3>2 DEF Says, Holds
    <3> QED BY <3>1, <3>3
  <2>4. at = <<at[1], at[2], at[3], "winner/execution_manifest.json">>
    BY <2>1 DEF IInv, StoreInv, Shaped, Package
  <2> QED BY <2>1, <2>3, <2>4 DEF Packed, Manifest
<1>3. ASSUME Packed(id) PROVE Finished(id)
  <2>1. PICK at \in DOMAIN disk : Package(at) /\ disk[at].project = id
    BY <1>3 DEF Packed
  <2>2. PICK told : told = Contents(disk[at])
    OBVIOUS
  <2>3. Tells(disk, told, at[2], at[3]) /\ told.project = id /\ at[1] = "outputs"
    BY <2>1, <2>2 DEF LibraryInv, ManifestInv, Contents, Package
  <2>4. Delivered(at, told.winner, id)
    BY <2>3, PromisesAreDelivered DEF IInv
  <2>5. p.concept = told.winner
    BY <1>1, <2>3 DEF Tells
  <2> QED BY <1>1, <2>1, <2>4, <2>5 DEF Finished, Files, Package
<1>4. Told(id) <=> Named(id)
  BY DEF Told, Named, Files, Report
<1> QED BY <1>2, <1>3, <1>4

LEMMA WholeIsPackedNext ==
  IInv' /\ LibraryInv' =>
    (\A id \in Stored("projects") : (Finished(id) <=> Packed(id)) /\ (Told(id) <=> Named(id)))'
<1>1. IInv /\ LibraryInv =>
        \A id \in Stored("projects") : (Finished(id) <=> Packed(id)) /\ (Told(id) <=> Named(id))
  BY WholeIsPacked
<1> QED BY <1>1, PTL

\* The works, from what the files show of each.
Shown(id) ==
  [idea |-> disk[<<"projects", id>>].concept, day |-> disk[<<"projects", id>>].cycle,
   stage |-> IF Named(id) THEN "told" ELSE IF Packed(id) THEN "whole" ELSE "begun"]

LEMMA WorksAreShown ==
  ASSUME IInv, LibraryInv
  PROVE  LET n == Cardinality(Stored("projects")) IN
         n \in Nat /\ Stored("projects") = 1 .. n /\ Works = [id \in 1 .. n |-> Shown(id)]
BY WholeIsPacked DEF IInv, StoreInv, Works, Book, Shown

LEMMA WorksAreShownNext ==
  ASSUME IInv', LibraryInv'
  PROVE  LET n == Cardinality(Stored("projects"))' IN
         n \in Nat /\ Stored("projects")' = 1 .. n /\ Works' = [id \in 1 .. n |-> Shown(id)']
BY WholeIsPackedNext DEF IInv, StoreInv, Works, Book, Shown

\* Today's work is the last.
LEMMA TodayIsLast ==
  ASSUME IInv, LibraryInv, NEW id \in Stored("projects"), disk[<<"projects", id>>].cycle = cycle
  PROVE  id = Cardinality(Stored("projects"))
<1>1. PICK n : n = Cardinality(Stored("projects"))
  OBVIOUS
<1>2. n \in Nat /\ Stored("projects") = 1 .. n /\ cycle \in Nat
  BY <1>1 DEF IInv, StoreInv
<1>3. n \in Stored("projects") /\ id <= n
  BY <1>2
<1>4. disk[<<"projects", n>>].cycle \in 0 .. cycle
  BY <1>3 DEF LibraryInv, BookInv
<1>5. id < n => disk[<<"projects", id>>].cycle < disk[<<"projects", n>>].cycle
  BY <1>3 DEF LibraryInv, BookInv
<1> QED BY <1>1, <1>2, <1>3, <1>4, <1>5

\* A file of no project, manifest or report says nothing new of the works.
LEMMA AsideFromWorks ==
  ASSUME IInv, LibraryInv, IInv', LibraryInv',
         NEW q, q[1] # "projects", ~Report(q), ~Package(q),
         DOMAIN disk' = DOMAIN disk \cup {q}, \A r \in DOMAIN disk : r # q => disk'[r] = disk[r]
  PROVE  Works' = Works
<1>1. Stored("projects")' = Stored("projects")
  BY DEF Stored
<1>2. PICK n : n = Cardinality(Stored("projects"))
  OBVIOUS
<1>3. /\ Stored("projects") = 1 .. n /\ Works = [id \in 1 .. n |-> Shown(id)]
      /\ Works' = [id \in 1 .. n |-> Shown(id)']
  BY <1>1, <1>2, WorksAreShown, WorksAreShownNext
<1>4. ASSUME NEW id \in 1 .. n PROVE Shown(id)' = Shown(id)
  <2>1. PICK r : r = <<"projects", id>>
    OBVIOUS
  <2>2. r \in DOMAIN disk /\ r[1] = "projects"
    BY <1>3, <1>4, <2>1, StoredAt DEF Kinds, IInv
  <2>3. disk'[<<"projects", id>>] = disk[<<"projects", id>>]
    BY <2>1, <2>2
  <2>4. Packed(id)' = Packed(id)
    BY DEF Packed, Package
  <2>5. Named(id)' = Named(id)
    BY DEF Named, Report
  <2> QED BY <2>3, <2>4, <2>5 DEF Shown
<1> QED BY <1>3, <1>4

\* The last work goes on, and no other.
LEMMA LastAdvances ==
  ASSUME NEW n \in Nat \ {0}, NEW from, NEW to, Works = [id \in 1 .. n |-> Shown(id)],
         Works' = [id \in 1 .. n |-> Shown(id)'],
         \A id \in 1 .. n : id # n => Shown(id)' = Shown(id),
         Shown(n).stage = from, Shown(n)' = [Shown(n) EXCEPT !.stage = to]
  PROVE  Library!Advance(from, to)
<1>1. PICK s : s = Works
  OBVIOUS
<1>2. s \in Seq({Shown(id) : id \in 1 .. n}) /\ Len(s) = n /\ s # <<>> /\ s[n] = Shown(n)
  <2>1. s \in [1 .. n -> {Shown(id) : id \in 1 .. n}]
    BY <1>1
  <2>2. s \in Seq({Shown(id) : id \in 1 .. n}) /\ Len(s) = n
    BY <2>1, FunctionsAreLists
  <2>3. n \in 1 .. n
    OBVIOUS
  <2> QED BY <1>1, <2>2, <2>3
<1>3. Works' = [s EXCEPT ![n] = [Shown(n) EXCEPT !.stage = to]]
  BY <1>1
<1>4. Works' = [s EXCEPT ![n].stage = to]
  BY <1>2, <1>3
<1> QED BY <1>1, <1>2, <1>4 DEF Library!Advance

\* A manifest finishes the work of its day.
LEMMA ManifestFinishes ==
  ASSUME IInv, LibraryInv, IInv', LibraryInv', WriteNext, NEW w, w = todo[1], Package(w.place)
  PROVE  Library!Advance("begun", "whole")
<1>1. /\ w \in Items(todo) /\ DOMAIN disk' = DOMAIN disk \cup {w.place} /\ disk'[w.place] = w.value
      /\ \A q \in DOMAIN disk : q # w.place => disk'[q] = disk[q]
  BY Writing DEF IInv
<1>2. /\ phase = "REFLECTION" /\ todo # <<>> /\ Contents(w.value).project = hand.project
      /\ w.value.project = hand.project /\ Tells(Final, hand, folder, cycle) /\ w.place[3] = cycle
  BY <1>1, PackageIsHeld, WritersWork DEF IInv
<1>3. PICK n : n = Cardinality(Stored("projects"))
  OBVIOUS
<1>4. Stored("projects")' = Stored("projects")
  BY <1>1 DEF Stored, Package
<1>5. /\ n \in Nat /\ Stored("projects") = 1 .. n /\ Works = [id \in 1 .. n |-> Shown(id)]
      /\ Works' = [id \in 1 .. n |-> Shown(id)']
  BY <1>3, <1>4, WorksAreShown, WorksAreShownNext
<1>6. \A id \in 1 .. n : disk'[<<"projects", id>>] = disk[<<"projects", id>>]
  BY <1>1, <1>5, OutputsAreApart DEF IInv, Package
<1>7. hand.project \in 1 .. n /\ disk[<<"projects", hand.project>>].cycle = cycle
  <2>1. PICK e, told : e = disk' /\ told = Contents(disk'[w.place])
    OBVIOUS
  <2>2. Tells(e, told, w.place[2], w.place[3]) /\ told.project = hand.project
    <3>1. w.place \in DOMAIN disk' /\ Package(w.place)'
      BY <1>1 DEF Package
    <3>2. Tells(disk', Contents(disk'[w.place]), w.place[2], w.place[3])
      BY <3>1 DEF LibraryInv, ManifestInv, Package
    <3> QED BY <1>1, <1>2, <2>1, <3>2
  <2>3. <<"projects", hand.project>> \in DOMAIN disk' /\ disk'[<<"projects", hand.project>>].cycle = cycle
    BY <1>2, <2>1, <2>2 DEF Tells
  <2>4. PICK r : r = <<"projects", hand.project>>
    OBVIOUS
  <2>5. r \in DOMAIN disk /\ r[2] = hand.project /\ r[1] = "projects"
    BY <1>1, <2>3, <2>4 DEF Package
  <2>6. hand.project \in 1 .. n
    BY <1>5, <2>5 DEF Stored
  <2> QED BY <1>6, <2>3, <2>6
<1>8. hand.project = n /\ n # 0
  BY <1>3, <1>5, <1>7, TodayIsLast
<1>9. \A id \in 1 .. n : Named(id)' = Named(id)
  BY <1>1 DEF Named, Report, Package
<1>10. Packed(n)' /\ \A id \in 1 .. n : id # n => Packed(id)' = Packed(id)
  <2>1. PICK q : q = w.place
    OBVIOUS
  <2>2. q \in DOMAIN disk' /\ Package(q) /\ disk'[q].project = n
    BY <1>1, <1>2, <1>8, <2>1
  <2>3. Packed(n)'
    BY <2>2 DEF Packed, Package
  <2>4. ASSUME NEW id \in 1 .. n, id # n PROVE Packed(id)' = Packed(id)
    <3>1. ASSUME Packed(id) PROVE Packed(id)'
      <4>1. PICK at \in DOMAIN disk : Package(at) /\ disk[at].project = id
        BY <3>1 DEF Packed
      <4>2. at \in DOMAIN disk' /\ (at # q => disk'[at].project = id) /\ at[3] \in 0 .. cycle
        BY <1>1, <2>1, <4>1 DEF LibraryInv, ManifestInv
      <4>3. at # q
        BY <1>2, <2>1, <4>1 DEF LibraryInv, ManifestInv
      <4> QED BY <4>1, <4>2, <4>3 DEF Packed, Package
    <3>2. ASSUME Packed(id)' PROVE Packed(id)
      <4>1. PICK at \in DOMAIN disk' : Package(at) /\ disk'[at].project = id
        BY <3>2 DEF Packed, Package
      <4>2. at # q
        BY <2>2, <2>4, <4>1
      <4> QED BY <1>1, <2>1, <4>1, <4>2 DEF Packed
    <3>3. Packed(id) \in BOOLEAN /\ Packed(id)' \in BOOLEAN
      BY DEF Packed
    <3> QED BY <3>1, <3>2, <3>3
  <2> QED BY <2>3, <2>4
<1>11. ~Packed(n)
  <2> SUFFICES ASSUME NEW at \in DOMAIN disk, Package(at), disk[at].project = n PROVE FALSE
    BY DEF Packed
  <2>1. at[3] # cycle /\ Tells(disk, Contents(disk[at]), at[2], at[3])
    BY <1>2 DEF LibraryInv, ManifestInv
  <2>2. disk[<<"projects", n>>].cycle = at[3]
    BY <2>1 DEF Tells, Contents
  <2> QED BY <1>7, <1>8, <2>1, <2>2
<1>12. ~Named(n)
  <2> SUFFICES ASSUME NEW at \in DOMAIN disk, Report(at), disk[at].winner # Nobody, disk[at].project = n
               PROVE  FALSE
    BY DEF Named
  <2>1. at[3] # cycle /\ Tells(disk, disk[at], at[2], at[3])
    BY <1>2 DEF IInv, ReportInv, Closed
  <2>2. disk[<<"projects", n>>].cycle = at[3]
    BY <2>1 DEF Tells
  <2> QED BY <1>7, <1>8, <2>1, <2>2
<1>13. Shown(n).stage = "begun" /\ Shown(n)' = [Shown(n) EXCEPT !.stage = "whole"]
  BY <1>6, <1>7, <1>8, <1>9, <1>10, <1>11, <1>12 DEF Shown
<1>14. \A id \in 1 .. n : id # n => Shown(id)' = Shown(id)
  BY <1>6, <1>9, <1>10 DEF Shown
<1> QED BY <1>5, <1>8, <1>13, <1>14, LastAdvances

\* The report of a day without a winner tells of nothing, another of the work of its day.
LEMMA ReportTells ==
  ASSUME IInv, LibraryInv, IInv', LibraryInv', WriteNext, NEW w, w = todo[1], Report(w.place)
  PROVE  Works' = Works \/ Library!Advance("whole", "told")
<1>1. /\ w \in Items(todo) /\ DOMAIN disk' = DOMAIN disk \cup {w.place} /\ disk'[w.place] = w.value
      /\ \A q \in DOMAIN disk : q # w.place => disk'[q] = disk[q]
  BY Writing DEF IInv
<1>2. phase = "DEEP_SLEEP" /\ todo # <<>> /\ w.value = outcome
  BY <1>1, WritersWork DEF IInv, TodoInv, Owes
<1>3. PICK n : n = Cardinality(Stored("projects"))
  OBVIOUS
<1>4. Stored("projects")' = Stored("projects")
  BY <1>1 DEF Stored, Report
<1>5. /\ n \in Nat /\ Stored("projects") = 1 .. n /\ Works = [id \in 1 .. n |-> Shown(id)]
      /\ Works' = [id \in 1 .. n |-> Shown(id)']
  BY <1>3, <1>4, WorksAreShown, WorksAreShownNext
<1>6. \A id \in 1 .. n : disk'[<<"projects", id>>] = disk[<<"projects", id>>]
  BY <1>1, <1>5, OutputsAreApart DEF IInv, Report
<1>7. \A id \in 1 .. n : Packed(id)' = Packed(id)
  BY <1>1 DEF Packed, Report, Package
<1>8. PICK q : q = w.place
  OBVIOUS
<1>9. q \in DOMAIN disk' /\ Report(q) /\ disk'[q] = outcome
  BY <1>1, <1>2, <1>8
<1>10. \A at \in DOMAIN disk : Report(at) => at[3] # cycle /\ at # q
  <2> SUFFICES ASSUME NEW at \in DOMAIN disk, Report(at) PROVE at[3] # cycle /\ at # q
    OBVIOUS
  <2>1. at[3] # cycle
    BY <1>2 DEF IInv, ReportInv, Closed
  <2>2. q[3] = cycle
    BY <1>1, <1>8 DEF IInv, TodoInv, Owes, Report
  <2> QED BY <2>1, <2>2
<1>11. ASSUME NEW id \in 1 .. n
       PROVE  Named(id)' <=> Named(id) \/ (outcome.winner # Nobody /\ outcome.project = id)
  <2>1. ASSUME Named(id) PROVE Named(id)'
    <3>1. PICK at \in DOMAIN disk : Report(at) /\ disk[at].winner # Nobody /\ disk[at].project = id
      BY <2>1 DEF Named
    <3> QED BY <1>1, <1>8, <1>10, <3>1 DEF Named, Report
  <2>2. ASSUME outcome.winner # Nobody, outcome.project = id PROVE Named(id)'
    BY <1>9, <2>2 DEF Named, Report
  <2>3. ASSUME Named(id)' PROVE Named(id) \/ (outcome.winner # Nobody /\ outcome.project = id)
    <3>1. PICK at \in DOMAIN disk' : Report(at) /\ disk'[at].winner # Nobody /\ disk'[at].project = id
      BY <2>3 DEF Named, Report
    <3>2. CASE at = q
      BY <1>9, <3>1, <3>2
    <3>3. CASE at # q
      BY <1>1, <1>8, <3>1, <3>3 DEF Named
    <3> QED BY <3>2, <3>3
  <2> QED BY <2>1, <2>2, <2>3
<1>12. CASE outcome.winner = Nobody
  <2>1. \A id \in 1 .. n : Named(id)' = Named(id)
    <3> TAKE id \in 1 .. n
    <3>1. Named(id) \in BOOLEAN /\ Named(id)' \in BOOLEAN
      BY DEF Named
    <3> QED BY <1>11, <1>12, <3>1
  <2>2. \A id \in 1 .. n : Shown(id)' = Shown(id)
    BY <1>6, <1>7, <2>1 DEF Shown
  <2> QED BY <1>5, <2>2
<1>13. CASE outcome.winner # Nobody
  <2>1. Tells(disk, outcome, folder, cycle)
    BY <1>2, <1>13 DEF IInv, OutcomeInv
  <2>2. outcome.project \in 1 .. n /\ disk[<<"projects", outcome.project>>].cycle = cycle
    <3>1. <<"projects", outcome.project>> \in DOMAIN disk /\ disk[<<"projects", outcome.project>>].cycle = cycle
      BY <2>1 DEF Tells
    <3> QED BY <1>5, <3>1, StoredAt DEF IInv, Kinds
  <2>3. outcome.project = n /\ n # 0
    BY <1>3, <1>5, <2>2, TodayIsLast
  <2>4. Packed(n)
    <3>1. PICK p : p = disk[<<"projects", outcome.project>>]
      OBVIOUS
    <3>2. \A file \in ToSet(PackageFiles(outcome.winner, p.artifacts, outcome.project, p)) :
            /\ <<"outputs", folder, cycle, file[1]>> \in DOMAIN disk
            /\ disk[<<"outputs", folder, cycle, file[1]>>] = file[2]
      BY <2>1, <3>1 DEF Tells
    <3>3. PICK file : file = <<"winner/execution_manifest.json", Manifest(outcome.project, p)>>
      OBVIOUS
    <3>4. file \in ToSet(PackageFiles(outcome.winner, p.artifacts, outcome.project, p))
      BY <3>3, ManifestOfPackage
    <3>5. PICK at : at = <<"outputs", folder, cycle, "winner/execution_manifest.json">>
      OBVIOUS
    <3>6. at \in DOMAIN disk /\ disk[at] = Manifest(outcome.project, p) /\ Package(at)
      BY <3>2, <3>3, <3>4, <3>5 DEF Package
    <3> QED BY <2>3, <3>6 DEF Packed, Manifest
  <2>5. ~Named(n)
    <3> SUFFICES ASSUME NEW at \in DOMAIN disk, Report(at), disk[at].winner # Nobody, disk[at].project = n
                 PROVE  FALSE
      BY DEF Named
    <3>1. at[3] # cycle /\ Tells(disk, disk[at], at[2], at[3])
      BY <1>10 DEF IInv, ReportInv
    <3>2. disk[<<"projects", n>>].cycle = at[3]
      BY <3>1 DEF Tells
    <3> QED BY <2>2, <2>3, <3>1, <3>2
  <2>6. Named(n)' /\ \A id \in 1 .. n : id # n => Named(id)' = Named(id)
    <3>1. Named(n)'
      BY <1>11, <1>13, <2>2, <2>3
    <3>2. ASSUME NEW id \in 1 .. n, id # n PROVE Named(id)' = Named(id)
      <4>1. Named(id) \in BOOLEAN /\ Named(id)' \in BOOLEAN
        BY DEF Named
      <4> QED BY <1>11, <2>3, <3>2, <4>1
    <3> QED BY <3>1, <3>2
  <2>7. Shown(n).stage = "whole" /\ Shown(n)' = [Shown(n) EXCEPT !.stage = "told"]
    BY <1>6, <2>2, <2>3, <2>4, <2>5, <2>6 DEF Shown
  <2>8. \A id \in 1 .. n : id # n => Shown(id)' = Shown(id)
    BY <1>6, <1>7, <2>6 DEF Shown
  <2> QED BY <1>5, <2>3, <2>7, <2>8, LastAdvances
<1> QED BY <1>12, <1>13

\* A project begins a work, of an idea that had none.
LEMMA ProjectBegins ==
  ASSUME IInv, LibraryInv, IInv', LibraryInv', WriteNext, NEW w, w = todo[1], w.place[1] = "projects"
  PROVE  Library!Begin
<1>1. /\ w \in Items(todo) /\ DOMAIN disk' = DOMAIN disk \cup {w.place} /\ disk'[w.place] = w.value
      /\ \A q \in DOMAIN disk : q # w.place => disk'[q] = disk[q]
  BY Writing DEF IInv
<1>2. PICK n : n = Cardinality(Stored("projects"))
  OBVIOUS
<1>3. w.place = <<"projects", n + 1>> /\ w.value.cycle = cycle
  BY <1>1, <1>2, ApprovalIsOfToday
<1>4. /\ n \in Nat /\ Stored("projects") = 1 .. n /\ Works = [id \in 1 .. n |-> Shown(id)]
  BY <1>2, WorksAreShown
<1>5. Stored("projects")' = 1 .. n + 1 /\ Cardinality(Stored("projects"))' = n + 1
      /\ Works' = [id \in 1 .. n + 1 |-> Shown(id)']
  <2>1. w.place[1] = "projects" /\ w.place[2] = n + 1
    BY <1>3
  <2>2. Stored("projects")' = Stored("projects") \cup {n + 1}
    BY <2>1, StoreChanges DEF IInv, Kinds
  <2>3. (1 .. n) \cup {n + 1} = 1 .. n + 1 /\ Cardinality(1 .. n + 1) = n + 1
    BY <1>4, NextNumber
  <2>4. Cardinality(Stored("projects"))' = n + 1
    BY <1>4, <2>2, <2>3
  <2> QED BY <1>4, <2>2, <2>3, <2>4, WorksAreShownNext
<1>6. ASSUME NEW id \in 1 .. n PROVE Shown(id)' = Shown(id)
  <2>1. PICK r : r = <<"projects", id>>
    OBVIOUS
  <2>2. r # w.place
    BY <1>3, <1>4, <1>6, <2>1
  <2>3. r \in DOMAIN disk
    BY <1>4, <1>6, <2>1, StoredAt DEF Kinds, IInv
  <2>4. disk'[<<"projects", id>>] = disk[<<"projects", id>>]
    BY <1>1, <2>1, <2>2, <2>3
  <2>5. Packed(id)' = Packed(id)
    BY <1>1 DEF Packed, Package
  <2>6. Named(id)' = Named(id)
    BY <1>1 DEF Named, Report
  <2> QED BY <2>4, <2>5, <2>6 DEF Shown
<1>7. <<"projects", n + 1>> \notin DOMAIN disk
  BY <1>4, StoredAt DEF Kinds, IInv
<1>8. ~Packed(n + 1)'
  <2> SUFFICES ASSUME NEW at \in DOMAIN disk', Package(at), disk'[at].project = n + 1 PROVE FALSE
    BY DEF Packed, Package
  <2>1. at \in DOMAIN disk /\ disk[at].project = n + 1
    BY <1>1 DEF Package
  <2>2. Tells(disk, Contents(disk[at]), at[2], at[3])
    BY <2>1 DEF LibraryInv, ManifestInv
  <2> QED BY <1>7, <2>1, <2>2 DEF Tells, Contents
<1>9. ~Named(n + 1)'
  <2> SUFFICES ASSUME NEW at \in DOMAIN disk', Report(at), disk'[at].winner # Nobody, disk'[at].project = n + 1
               PROVE  FALSE
    BY DEF Named, Report
  <2>1. at \in DOMAIN disk /\ disk[at].winner # Nobody /\ disk[at].project = n + 1
    BY <1>1 DEF Report
  <2>2. Tells(disk, disk[at], at[2], at[3])
    BY <2>1 DEF IInv, ReportInv
  <2> QED BY <1>7, <2>1, <2>2 DEF Tells
<1>10. PICK e : e = Shown(n + 1)'
  OBVIOUS
<1>11. e = [idea |-> w.value.concept, day |-> cycle, stage |-> "begun"]
  BY <1>1, <1>3, <1>8, <1>9, <1>10 DEF Shown
<1>12. \A k \in 1 .. n : Shown(k).idea # w.value.concept /\ Shown(k).day < cycle
  <2> TAKE k \in 1 .. n
  <2>1. phase = "REFLECTION" /\ step = "announce" /\ Owes(w)
    BY <1>1, OnlyApprovalsPromote DEF IInv, TodoInv
  <2>2. w.value.concept = hand.winner /\ ~Owned(hand.winner)
    BY <2>1 DEF Owes, Promoted
  <2>3. disk[<<"projects", k>>].concept # w.value.concept
    BY <1>4, <2>2 DEF Owned
  <2>4. disk[<<"projects", k>>].cycle \in 0 .. cycle /\ disk[<<"projects", k>>].cycle # cycle /\ cycle \in Nat
    BY <1>1, <1>4 DEF LibraryInv, BookInv, IInv, StoreInv
  <2> QED BY <2>3, <2>4 DEF Shown
<1>13. PICK s, t : s = Works /\ t = Works'
  OBVIOUS
<1>14. t = Append(s, e) /\ Len(s) = n /\ Len(t) = n + 1
       /\ t[n + 1] = e /\ \A k \in 1 .. n : s[k] = Shown(k)
  <2> DEFINE T == {Shown(id) : id \in 1 .. n} \cup {e}
  <2>1. s \in [1 .. n -> T] /\ s = [id \in 1 .. n |-> Shown(id)]
    BY <1>4, <1>13
  <2>2. t = [id \in 1 .. n + 1 |-> IF id = n + 1 THEN e ELSE s[id]]
    <3>1. \A id \in 1 .. n + 1 : Shown(id)' = IF id = n + 1 THEN e ELSE s[id]
      BY <1>4, <1>6, <1>10, <2>1
    <3> QED BY <1>5, <1>13, <3>1
  <2>3. s \in Seq(T) /\ Len(s) = n /\ e \in T
    BY <1>4, <2>1, FunctionsAreLists
  <2> HIDE DEF T
  <2>4. t = Append(s, e)
    <3>1. PICK a : a = Append(s, e)
      OBVIOUS
    <3>2. /\ a \in Seq(T) /\ Len(a) = n + 1 /\ a[n + 1] = e
          /\ \A k \in 1 .. n : a[k] = s[k]
      BY <2>3, <3>1, AppendProperties
    <3>3. a = [k \in 1 .. n + 1 |-> a[k]]
      BY <1>4, <3>2
    <3>4. \A k \in 1 .. n + 1 : a[k] = IF k = n + 1 THEN e ELSE s[k]
      BY <1>4, <3>2
    <3> QED BY <2>2, <3>1, <3>3, <3>4
  <2>5. Len(t) = n + 1 /\ t[n + 1] = e
    BY <1>4, <2>2, <2>3, <2>4
  <2> QED BY <2>1, <2>3, <2>4, <2>5
<1> QED BY <1>11, <1>12, <1>13, <1>14 DEF Library!Begin

\* Every step of the process is one of a publisher, or none.
LEMMA StepsPublish ==
  ASSUME IInv, LibraryInv, IInv', LibraryInv', [Next]_vars
  PROVE  [Library!Next]_Works
<1>1. CASE disk' = disk
  BY <1>1, SameFilesSameWorks
<1>2. CASE WriteNext
  <2>1. PICK w : w = todo[1]
    OBVIOUS
  <2>2. DOMAIN disk' = DOMAIN disk \cup {w.place} /\ \A q \in DOMAIN disk : q # w.place => disk'[q] = disk[q]
    BY <1>2, <2>1, Writing DEF IInv
  <2>3. CASE w.place[1] = "projects"
    BY <1>2, <2>1, <2>3, ProjectBegins DEF Library!Next
  <2>4. CASE Package(w.place)
    BY <1>2, <2>1, <2>4, ManifestFinishes DEF Library!Next, Library!Finish
  <2>5. CASE Report(w.place)
    BY <1>2, <2>1, <2>5, ReportTells DEF Library!Next, Library!Tell
  <2>6. CASE w.place[1] # "projects" /\ ~Package(w.place) /\ ~Report(w.place)
    <3>1. PICK q : q = w.place
      OBVIOUS
    <3>2. Works' = Works
      BY <2>2, <2>6, <3>1, AsideFromWorks
    <3> QED BY <3>2
  <2> QED BY <2>3, <2>4, <2>5, <2>6
<1>3. CASE todo # <<>> /\ MayTear(Head(todo)) /\ disk' = With(Head(todo).place, <<"torn">>)
  <2>1. PICK q : q = Head(todo).place
    OBVIOUS
  <2>2. q[1] = "outputs" /\ q[4] \in InPlace
    BY <1>3, <2>1 DEF MayTear
  <2>3. ~Report(q) /\ ~Package(q) /\ q[1] # "projects"
    BY <2>2 DEF Report, Package, InPlace
  <2>4. DOMAIN disk' = DOMAIN disk \cup {q} /\ \A r \in DOMAIN disk : r # q => disk'[r] = disk[r]
    BY <1>3, <2>1 DEF With
  <2>5. Works' = Works
    BY <2>3, <2>4, AsideFromWorks
  <2> QED BY <2>5
<1>4. disk' = disk \/ WriteNext \/ (todo # <<>> /\ MayTear(Head(todo)) /\ disk' = With(Head(todo).place, <<"torn">>))
  <2>1. CASE Kill
    BY <2>1 DEF Kill
  <2>2. CASE Boot \/ BeginCycle \/ Midnight \/ (\E n \in 1 .. Len(CycleOrder) : Enter(n)) \/ Leave \/ Announce
             \/ Missing \/ Abandon \/ UNCHANGED vars
    BY <2>2 DEF Boot, BeginCycle, Midnight, Enter, Leave, Announce, Missing, Abandon, vars
  <2>3. CASE Create \/ NobodyCompetes \/ Compete \/ Approve \/ RefuseAll \/ DevelopWinner \/ ApproveCreativeProject
             \/ Explore \/ Consolidate \/ Dream \/ DeepSleep
    BY <2>3 DEF Create, NobodyCompetes, Compete, Approve, RefuseAll, DevelopWinner, ApproveCreativeProject,
                Explore, Consolidate, Dream, DeepSleep, Owe
  <2> QED BY <2>1, <2>2, <2>3 DEF Next
<1> QED BY <1>1, <1>2, <1>3, <1>4

\* Before the first process the folders are empty: there is no project and no work.
LEMMA NoWorksAtFirst == ASSUME Init PROVE Works = <<>>
<1>1. Stored("projects") = {}
  BY DEF Init, Stored
<1>2. Cardinality({}) = 0 /\ 1 .. 0 = {}
  BY FS_EmptySet
<1> QED BY <1>1, <1>2 DEF Works

\* What the approval, the writer of outputs and the record of the cycle leave behind,
\* whenever they are cut short, is what a publisher would have: one work for an idea and
\* one a day, whole before it is told of, never undone (competing.py, artifacts.py,
\* filesystem.py, orchestrator.py: _run_deep_sleep).
THEOREM ProductionImplementsPublishing == ASSUME ~IdsRepeat PROVE Spec => ImplementsPublishing
<1>1. Init => Library!Init
  BY NoWorksAtFirst DEF Library!Init
<1>2. (IInv /\ LibraryInv) /\ (IInv /\ LibraryInv)' /\ [Next]_vars => [Library!Next]_Works
  BY StepsPublish
<1> QED BY <1>1, <1>2, LibraryIsKept, PTL DEF Spec, ImplementsPublishing, Library!Spec

=============================================================================
