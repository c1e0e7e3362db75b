------------------------------ MODULE HostProofs ------------------------------
(***************************************************************************)
(* Theorems about what is around the mind: the commands and the models     *)
(* that answer them, the export of the vault, and the scheduler and the    *)
(* bus of a host.  They hold for any number of shells and any commands,    *)
(* any titles, limits and saves, any jobs, handlers and events, and        *)
(* however often each is used.                                             *)
(***************************************************************************)
EXTENDS MCLaunch, Vault, Wiring, ListProofs

-----------------------------------------------------------------------------
(* The cache of adapters. *)

Roles == {"research", "creative", "criticism", "judging", "structuring", "dreaming"}

LEMMA RolesAreListed == ToSet(ModelRoles) = Roles /\ DOMAIN AgentsOf = Roles
BY DEF ToSet, ModelRoles, Roles, AgentsOf

LEMMA LeastOfSix ==
  ASSUME NEW I, I \subseteq 1 .. 6, I # {} PROVE Min(I) \in I
<1>1. \E x \in I : \A y \in I : x =< y
  <2>1. CASE 1 \in I BY <2>1
  <2>2. CASE 1 \notin I /\ 2 \in I BY <2>2
  <2>3. CASE 1 \notin I /\ 2 \notin I /\ 3 \in I BY <2>3
  <2>4. CASE 1 \notin I /\ 2 \notin I /\ 3 \notin I /\ 4 \in I BY <2>4
  <2>5. CASE 1 \notin I /\ 2 \notin I /\ 3 \notin I /\ 4 \notin I /\ 5 \in I BY <2>5
  <2>6. CASE 1 \notin I /\ 2 \notin I /\ 3 \notin I /\ 4 \notin I /\ 5 \notin I
    <3>1. \A i \in I : i \in 1 .. 6 /\ i # 1 /\ i # 2 /\ i # 3 /\ i # 4 /\ i # 5
      BY <2>6
    <3>2. \A i \in 1 .. 6 : i # 1 /\ i # 2 /\ i # 3 /\ i # 4 /\ i # 5 => i = 6
      OBVIOUS
    <3>3. \A i \in I : i = 6
      BY <3>1, <3>2
    <3>4. PICK x \in I : TRUE
      OBVIOUS
    <3>5. x = 6 /\ \A y \in I : x =< y
      BY <3>3
    <3> QED BY <3>5
  <2> QED BY <2>1, <2>2, <2>3, <2>4, <2>5, <2>6
<1> QED BY <1>1 DEF Min

\* The adapter a role is given was built for an entry with the role's own provider,
\* although it may have been built for another role.
LEMMA AdapterKeepsProvider ==
  ASSUME NEW r \in Roles, NEW p
  PROVE  Adapter(r, p).provider = ProviderOf(r, p)
<1> DEFINE I == {i \in 1 .. Len(ModelRoles) : Key(Entry(ModelRoles[i], p)) = Key(Entry(r, p))}
<1>1. PICK i \in 1 .. 6 : ModelRoles[i] = r
  BY DEF Roles, ModelRoles
<1>2. Len(ModelRoles) = 6
  BY DEF ModelRoles
<1>3. i \in I
  BY <1>1, <1>2
<1>4. I \subseteq 1 .. 6
  BY <1>2
<1>5. Min(I) \in I
  <2> HIDE DEF I
  <2> QED BY <1>3, <1>4, LeastOfSix
<1>6. Adapter(r, p) = Entry(ModelRoles[Min(I)], p)
  BY <1>3 DEF Adapter, SelectInSeq
<1>7. Key(Adapter(r, p)) = Key(Entry(r, p))
  BY <1>5, <1>6
<1> QED BY <1>7 DEF Key, Entry

-----------------------------------------------------------------------------
(* The inductive invariant. *)

\* Every role of this process has an adapter that could be built.
Wireable(p) == \A r \in Roles : Buildable(Entry(r, p), p.env)

\* What a process has written and what it was allowed to become, by its stage.
Launched(p) ==
  /\ p.stage # "idle" => p.command \in Commands
  /\ p.stage \notin {"running", "done", "crashed"} => p.wrote = {}
  /\ p.command \in Looks => p.wrote = {}
  /\ p.stage \in {"running", "crashed"} => p.command \in Runs
  /\ p.stage \in {"gathering", "wired", "running"} => Wireable(p)

IInv == TypeOK /\ \A s \in Shells : Launched(shell[s])

LEMMA WireableMoves ==
  ASSUME NEW p \in Processes, NEW q \in Processes,
         q.mock = p.mock, q.files = p.files, q.env = p.env, Wireable(p)
  PROVE  Wireable(q)
<1>1. ASSUME NEW r \in Roles PROVE Entry(r, q) = Entry(r, p)
  BY DEF Entry, ProviderOf, ModelOf
<1> QED BY <1>1 DEF Wireable

\* A step that leaves the root alone and takes one shell on to a sound process.
LEMMA OneShellMoves ==
  ASSUME IInv, NEW s \in Shells, NEW p \in Processes, Launched(p), Becomes(s, p),
         UNCHANGED <<root, edits>>, typed' \in Nat
  PROVE  IInv'
<1>1. shell' = [shell EXCEPT ![s] = p] /\ shell \in [Shells -> Processes]
  BY DEF IInv, TypeOK, Becomes
<1>2. shell' \in [Shells -> Processes]
  BY <1>1
<1>3. \A t \in Shells : Launched(shell'[t])
  BY <1>1 DEF IInv
<1> QED BY <1>2, <1>3 DEF IInv, TypeOK, Launched, Wireable

THEOREM LaunchInvariant == Spec => []IInv
<1>1. Init => IInv
  BY DEF Init, IInv, TypeOK, Idle, Processes, Stages, Launched, Absent, Looks, Runs
<1>2. IInv /\ [Next]_vars => IInv'
  <2> SUFFICES ASSUME IInv, [Next]_vars PROVE IInv'
    OBVIOUS
  <2> USE DEF Becomes, Moves
  <2>1. CASE UNCHANGED vars
    BY <2>1 DEF IInv, TypeOK, vars, Launched, Wireable
  <2>2. CASE Edit
    BY <2>2 DEF Edit, IInv, TypeOK, Launched, Wireable
  <2>3. ASSUME NEW s \in Shells, Invoke(s) PROVE IInv'
    <3>1. PICK c \in Commands, flag \in BOOLEAN, env \in Environments :
            Becomes(s, [Idle EXCEPT !.command = c, !.stage = "reading", !.env = env,
                                    !.mock = flag \/ c = "demo"])
      BY <2>3 DEF Invoke
    <3> DEFINE p == [Idle EXCEPT !.command = c, !.stage = "reading", !.env = env,
                                 !.mock = flag \/ c = "demo"]
    <3>2. p \in Processes /\ Launched(p)
      BY DEF Idle, Processes, Stages, Launched
    <3>3. UNCHANGED <<root, edits>> /\ typed' \in Nat
      BY <2>3 DEF Invoke, IInv, TypeOK
    <3> QED BY <3>1, <3>2, <3>3, OneShellMoves
  <2>4. ASSUME NEW s \in Shells, LoadConfig(s) PROVE IInv'
    <3> DEFINE p == [shell[s] EXCEPT !.stage = "routing", !.files = root]
               q == [shell[s] EXCEPT !.stage = "refused"]
    <3>1. shell[s] \in Processes /\ Launched(shell[s]) /\ shell[s].stage = "reading" /\ root \in Roots
      BY <2>4 DEF LoadConfig, IInv, TypeOK
    <3>2. p \in Processes /\ Launched(p) /\ q \in Processes /\ Launched(q)
      BY <3>1 DEF Processes, Stages, Launched
    <3>3. UNCHANGED <<root, edits>> /\ typed' \in Nat /\ (Becomes(s, p) \/ Becomes(s, q))
      BY <2>4 DEF LoadConfig, IInv, TypeOK
    <3> QED BY <3>2, <3>3, OneShellMoves
  <2>5. ASSUME NEW s \in Shells, BuildProviders(s) PROVE IInv'
    <3> DEFINE p == [shell[s] EXCEPT !.stage = "gathering"]
               q == [shell[s] EXCEPT !.stage = "refused"]
    <3>1. shell[s] \in Processes /\ Launched(shell[s]) /\ shell[s].stage = "routing"
      BY <2>5 DEF BuildProviders, IInv, TypeOK
    <3>2. q \in Processes /\ Launched(q) /\ p \in Processes
      BY <3>1 DEF Processes, Stages, Launched
    <3>3. Wireable(shell[s]) => Launched(p)
      <4>1. Wireable(shell[s]) => Wireable(p)
        BY <3>1, <3>2, WireableMoves DEF Processes
      <4> QED BY <3>1, <4>1 DEF Processes, Launched
    <3>4. (Wireable(shell[s]) /\ Becomes(s, p)) \/ Becomes(s, q)
      BY <2>5, RolesAreListed DEF BuildProviders, Wireable
    <3>5. UNCHANGED <<root, edits>> /\ typed' \in Nat
      BY <2>5 DEF BuildProviders, IInv, TypeOK
    <3> QED BY <3>2, <3>3, <3>4, <3>5, OneShellMoves
  <2>6. ASSUME NEW s \in Shells, BuildSociety(s) PROVE IInv'
    <3> DEFINE p == [shell[s] EXCEPT !.stage = "wired", !.society = Live(shell[s].files)]
               q == [shell[s] EXCEPT !.stage = "refused"]
    <3>1. shell[s] \in Processes /\ Launched(shell[s]) /\ shell[s].stage = "gathering"
      BY <2>6 DEF BuildSociety, IInv, TypeOK
    <3>2. q \in Processes /\ Launched(q)
      BY <3>1 DEF Processes, Stages, Launched
    <3>3. p \in Processes
      BY <3>1 DEF Processes, Stages, Live, Enabled
    <3>4. Wireable(p)
      BY <3>1, <3>3, WireableMoves DEF Launched, Processes
    <3>5. Launched(p)
      BY <3>1, <3>4 DEF Launched, Processes
    <3>6. UNCHANGED <<root, edits>> /\ typed' \in Nat /\ (Becomes(s, p) \/ Becomes(s, q))
      BY <2>6 DEF BuildSociety, IInv, TypeOK
    <3> QED BY <3>2, <3>3, <3>5, <3>6, OneShellMoves
  <2>7. ASSUME NEW s \in Shells, Dispatch(s) PROVE IInv'
    <3> DEFINE p == [shell[s] EXCEPT !.stage = "done", !.wrote = @ \cup Written(shell[s].command)]
    <3>1. shell[s] \in Processes /\ Launched(shell[s]) /\ shell[s].stage = "wired"
          /\ shell[s].command \notin Runs
      BY <2>7 DEF Dispatch, IInv, TypeOK
    <3>2. shell[s].command \in Looks \cup {"export", "stop"}
      BY <3>1, CommandsAssumption DEF Launched
    <3>3. /\ Written(shell[s].command) \subseteq {"vault", "clock", "checkpoint"}
          /\ shell[s].command \in Looks => Written(shell[s].command) = {}
      BY <3>2 DEF Written, Looks
    <3>4. p \in Processes /\ Launched(p)
      <4> HIDE DEF Written
      <4> QED BY <3>1, <3>3 DEF Processes, Stages, Launched
    <3>5. UNCHANGED <<root, edits>> /\ typed' \in Nat /\ Becomes(s, p)
      BY <2>7 DEF Dispatch, Ends, IInv, TypeOK
    <3> QED BY <3>4, <3>5, OneShellMoves
  <2>8. ASSUME NEW s \in Shells, Start(s) PROVE IInv'
    <3> DEFINE p == [shell[s] EXCEPT !.stage = "running", !.wrote = @ \cup {}]
    <3>1. shell[s] \in Processes /\ Launched(shell[s]) /\ shell[s].stage = "wired"
          /\ shell[s].command \in Runs
      BY <2>8 DEF Start, IInv, TypeOK
    <3>2. p \in Processes
      BY <3>1 DEF Processes, Stages
    <3>3. Wireable(p)
      BY <3>1, <3>2, WireableMoves DEF Launched, Processes
    <3>4. Launched(p)
      BY <3>1, <3>3 DEF Launched, Processes, Looks, Runs
    <3>5. UNCHANGED <<root, edits>> /\ typed' \in Nat /\ Becomes(s, p)
      BY <2>8 DEF Start, Ends, IInv, TypeOK
    <3> QED BY <3>2, <3>4, <3>5, OneShellMoves
  <2>9. ASSUME NEW s \in Shells, Complete(s) PROVE IInv'
    <3> DEFINE p == [shell[s] EXCEPT !.wrote = @ \cup {"memory"}]
    <3>1. shell[s] \in Processes /\ Launched(shell[s]) /\ shell[s].stage = "running"
      BY <2>9 DEF Complete, Running, IInv, TypeOK
    <3>2. p \in Processes
      BY <3>1 DEF Processes, Stages
    <3>3. Wireable(p)
      BY <3>1, <3>2, WireableMoves DEF Launched, Processes
    <3>4. Launched(p)
      BY <3>1, <3>3 DEF Launched, Processes, Looks, Runs
    <3>5. UNCHANGED <<root, edits>> /\ typed' \in Nat /\ Becomes(s, p)
      BY <2>9 DEF Complete, IInv, TypeOK
    <3> QED BY <3>2, <3>4, <3>5, OneShellMoves
  <2>10. ASSUME NEW s \in Shells, Finish(s) PROVE IInv'
    <3> DEFINE p == [shell[s] EXCEPT !.stage = "done", !.wrote = @ \cup {"clock", "checkpoint"}]
    <3>1. shell[s] \in Processes /\ Launched(shell[s]) /\ shell[s].stage = "running"
      BY <2>10 DEF Finish, Running, IInv, TypeOK
    <3>2. p \in Processes /\ Launched(p)
      BY <3>1 DEF Processes, Stages, Launched, Looks, Runs
    <3>3. UNCHANGED <<root, edits>> /\ typed' \in Nat /\ Becomes(s, p)
      BY <2>10 DEF Finish, Ends, IInv, TypeOK
    <3> QED BY <3>2, <3>3, OneShellMoves
  <2>11. ASSUME NEW s \in Shells, Missing(s) PROVE IInv'
    <3> DEFINE p == [shell[s] EXCEPT !.stage = "crashed", !.wrote = @ \cup {"clock", "checkpoint"}]
    <3>1. shell[s] \in Processes /\ Launched(shell[s]) /\ shell[s].stage = "running"
      BY <2>11 DEF Missing, Running, IInv, TypeOK
    <3>2. p \in Processes /\ Launched(p)
      BY <3>1 DEF Processes, Stages, Launched, Looks, Runs
    <3>3. UNCHANGED <<root, edits>> /\ typed' \in Nat /\ Becomes(s, p)
      BY <2>11 DEF Missing, Ends, IInv, TypeOK
    <3> QED BY <3>2, <3>3, OneShellMoves
  <2> QED
    BY <2>1, <2>2, <2>3, <2>4, <2>5, <2>6, <2>7, <2>8, <2>9, <2>10, <2>11 DEF Next
<1> QED BY <1>1, <1>2, PTL DEF Spec

-----------------------------------------------------------------------------
(* Who answers. *)

\* A call is made for a role of a running process and answered by its adapter.
LEMMA CallsAreMeant ==
  ASSUME IInv, NEW s \in Shells, Complete(s)
  PROVE  /\ call'.command \in Runs
         /\ call'.answered.provider = Meant(call')
         /\ call'.answered.provider # "mock" => call'.answered.provider \in call'.env.keys
<1>1. PICK r \in Roles :
        call' = [role |-> r, command |-> shell[s].command, mock |-> shell[s].mock,
                 files |-> shell[s].files, env |-> shell[s].env, answered |-> Adapter(r, shell[s])]
  BY RolesAreListed DEF Complete
<1>2. Launched(shell[s]) /\ shell[s].stage = "running"
  BY DEF Complete, Running, IInv
<1>3. Adapter(r, shell[s]).provider = ProviderOf(r, shell[s])
  BY AdapterKeepsProvider
<1>4. Meant(call') = ProviderOf(r, shell[s])
  BY <1>1 DEF Meant, ProviderOf
<1>5. Buildable(Entry(r, shell[s]), shell[s].env)
  BY <1>2 DEF Launched, Wireable
<1> QED BY <1>1, <1>2, <1>3, <1>4, <1>5 DEF Launched, Buildable, Entry

\* Only a command that runs cycles calls a model, each role is answered by the
\* provider its launch was configured with, and what was refused or only looks
\* writes nothing (cli, build_adapters, _build_adapter, ModelRouter.complete).
THEOREM AnsweredAsLaunchedHolds == Spec => []AnsweredAsLaunched
<1>1. Init => AnsweredAsLaunched
  BY DEF Init, AnsweredAsLaunched, Idle, Absent, Looks
<1>2. IInv' => \A s \in Shells :
                 shell'[s].stage = "refused" \/ shell'[s].command \in Looks => shell'[s].wrote = {}
  BY DEF IInv, Launched
<1>3. AnsweredAsLaunched /\ IInv /\ IInv' /\ [Next]_vars => AnsweredAsLaunched'
  <2> SUFFICES ASSUME AnsweredAsLaunched, IInv, IInv', [Next]_vars, call' # NoCall
               PROVE  /\ call'.command \in Runs
                      /\ call'.answered.provider = Meant(call')
                      /\ call'.answered.provider # "mock" => call'.answered.provider \in call'.env.keys
    BY <1>2 DEF AnsweredAsLaunched, NoCall
  <2>1. CASE UNCHANGED vars
    BY <2>1 DEF AnsweredAsLaunched, vars, NoCall, Meant
  <2>2. ASSUME NEW s \in Shells, Complete(s)
        PROVE  /\ call'.command \in Runs
               /\ call'.answered.provider = Meant(call')
               /\ call'.answered.provider # "mock" => call'.answered.provider \in call'.env.keys
    BY SMTT(30), <2>2, CallsAreMeant
  <2>3. CASE Next
    BY <2>2, <2>3
    DEF Next, Edit, Invoke, LoadConfig, BuildProviders, BuildSociety, Dispatch, Start, Finish,
        Missing, Ends
  <2> QED BY <2>1, <2>3
<1> QED BY <1>1, <1>3, LaunchInvariant, PTL DEF Spec

-----------------------------------------------------------------------------
(* What an export of the vault reads and writes. *)

Question == [id : Nat, title : Titles]
Idea == [id : Nat, title : Titles, question : Nat, buried : BOOLEAN]

\* What an export has read so far.
Reading == [questions : Seq(Question), ideas : Seq(Idea), projects : Seq(Question)]

Steps == {"none", "questions", "ideas", "projects", "notes"}

Exporting(T) ==
  [step : Steps, limit : Nat, graveyard : BOOLEAN, read : Reading, todo : Seq(T)]

IsNote(note) == note = [at |-> note.at, links |-> note.links]

VaultTypes ==
  /\ questions \in Seq(Question) /\ ideas \in Seq(Idea) /\ projects \in Seq(Question)
  /\ \E T : export \in Exporting(T) /\ \A note \in T : IsNote(note)

Placed(node, written) == \E note \in written : note.at = node.at
Due(node, t) == \E i \in 1 .. Len(t) : t[i].at = node.at

\* Every link of a list of notes leads to the vault or to a note before it.
Ready(t, written) ==
  \A i \in 1 .. Len(t) : \A link \in t[i].links \cap Plain :
    \/ \E note \in written : note.at[2] = link
    \/ \E j \in 1 .. i - 1 : t[j].at[2] = link

\* What a node of the map to be drawn opens is written or about to be.
Coming(e, written) ==
  \A node \in CanvasOf(e.read).nodes :
    node.label \in Plain => Placed(node, written) \/ Due(node, e.todo)

VaultSafe ==
  /\ Ready(export.todo, notes)
  /\ export.step = "notes" => Coming(export, notes)
  /\ LinksLead
  /\ MapHolds

\* Where each note of an export stands.
LEMMA NotesInOrder ==
  ASSUME NEW read \in Reading
  PROVE  LET t == NotesOf(read)
             q == Len(read.questions)
             c == Len(read.ideas)
             p == Len(read.projects)
         IN  /\ \E T : t \in Seq(T) /\ \A note \in T : IsNote(note)
             /\ Len(t) = q + c + p + 2
             /\ t[1] = DnaNote
             /\ \A i \in 1 .. q : t[1 + i] = QuestionNote(read.questions[i])
             /\ \A i \in 1 .. c : t[1 + q + i] = ConceptNote(read.ideas[i], read.questions)
             /\ \A i \in 1 .. p : t[1 + q + c + i] = ProjectNote(read.projects[i])
             /\ t[q + c + p + 2] = IndexNote
<1> DEFINE t == NotesOf(read)
           q == Len(read.questions)
           c == Len(read.ideas)
           p == Len(read.projects)
           Q == [i \in 1 .. q |-> QuestionNote(read.questions[i])]
           C == [i \in 1 .. c |-> ConceptNote(read.ideas[i], read.questions)]
           P == [i \in 1 .. p |-> ProjectNote(read.projects[i])]
           T == {DnaNote, IndexNote} \cup {Q[i] : i \in 1 .. q} \cup {C[i] : i \in 1 .. c}
                  \cup {P[i] : i \in 1 .. p}
<1>1. /\ q \in Nat /\ c \in Nat /\ p \in Nat
      /\ DOMAIN read.questions = 1 .. q /\ DOMAIN read.ideas = 1 .. c /\ DOMAIN read.projects = 1 .. p
  BY DEF Reading
<1>2. t = <<DnaNote>> \o Q \o C \o P \o <<IndexNote>>
  BY <1>1 DEF NotesOf, Each
<1> HIDE DEF t
<1>0. /\ Q \in [1 .. q -> T] /\ C \in [1 .. c -> T] /\ P \in [1 .. p -> T]
  <2>1. /\ \A i \in 1 .. q : Q[i] \in T
        /\ \A i \in 1 .. c : C[i] \in T
        /\ \A i \in 1 .. p : P[i] \in T
    OBVIOUS
  <2> QED BY <2>1
<1>3. Q \in Seq(T) /\ C \in Seq(T) /\ P \in Seq(T) /\ Len(Q) = q /\ Len(C) = c /\ Len(P) = p
  <2>1. Q \in Seq(T) /\ Len(Q) = q
    BY <1>0, <1>1, FunctionsAreLists
  <2>2. C \in Seq(T) /\ Len(C) = c
    BY <1>0, <1>1, FunctionsAreLists
  <2>3. P \in Seq(T) /\ Len(P) = p
    BY <1>0, <1>1, FunctionsAreLists
  <2> QED BY <2>1, <2>2, <2>3
<1>4. <<DnaNote>> \in Seq(T) /\ <<IndexNote>> \in Seq(T)
  OBVIOUS
<1>15. \A note \in T : IsNote(note)
  <2>1. IsNote(DnaNote) /\ IsNote(IndexNote)
    BY DEF IsNote, DnaNote, IndexNote
  <2>2. \A question : IsNote(QuestionNote(question))
    BY DEF IsNote, QuestionNote, NoteAt
  <2>3. \A idea, asked : IsNote(ConceptNote(idea, asked))
    BY DEF IsNote, ConceptNote, NoteAt
  <2>4. \A project : IsNote(ProjectNote(project))
    BY DEF IsNote, ProjectNote, NoteAt
  <2> QED BY <2>1, <2>2, <2>3, <2>4
<1>5. /\ \A i \in 1 .. q : Q[i] = QuestionNote(read.questions[i])
      /\ \A i \in 1 .. c : C[i] = ConceptNote(read.ideas[i], read.questions)
      /\ \A i \in 1 .. p : P[i] = ProjectNote(read.projects[i])
  OBVIOUS
<1> HIDE DEF Q, C, P, T, q, c, p
<1> DEFINE A == <<DnaNote>> \o Q
           B == A \o C
           D == B \o P
<1>6. /\ A \in Seq(T) /\ Len(A) = 1 + q /\ A[1] = DnaNote
      /\ \A i \in 1 .. q : A[1 + i] = Q[i]
  BY <1>1, <1>3, <1>4, JoinedInOrder
<1> HIDE DEF A
<1>7. /\ B \in Seq(T) /\ Len(B) = 1 + q + c
      /\ \A i \in 1 .. 1 + q : B[i] = A[i]
      /\ \A i \in 1 .. c : B[1 + q + i] = C[i]
  <2>0. B = A \o C /\ A \in Seq(T) /\ C \in Seq(T)
    BY <1>3, <1>6
  <2> HIDE DEF B
  <2>1. B \in Seq(T) /\ Len(B) = Len(A) + Len(C)
    BY <2>0, JoinedInOrder
  <2>2. \A i \in 1 .. Len(A) : B[i] = A[i]
    BY <2>0, JoinedInOrder
  <2>3. \A i \in 1 .. Len(C) : B[Len(A) + i] = C[i]
    BY <2>0, JoinedInOrder
  <2> QED BY <1>1, <1>3, <1>6, <2>1, <2>2, <2>3
<1> HIDE DEF B
<1>8. /\ D \in Seq(T) /\ Len(D) = 1 + q + c + p
      /\ \A i \in 1 .. 1 + q + c : D[i] = B[i]
      /\ \A i \in 1 .. p : D[1 + q + c + i] = P[i]
  <2>0. D = B \o P /\ B \in Seq(T) /\ P \in Seq(T)
    BY <1>3, <1>7
  <2> HIDE DEF D
  <2>1. D \in Seq(T) /\ Len(D) = Len(B) + Len(P)
    BY <2>0, JoinedInOrder
  <2>2. \A i \in 1 .. Len(B) : D[i] = B[i]
    BY <2>0, JoinedInOrder
  <2>3. \A i \in 1 .. Len(P) : D[Len(B) + i] = P[i]
    BY <2>0, JoinedInOrder
  <2> QED BY <1>1, <1>3, <1>7, <2>1, <2>2, <2>3
<1> HIDE DEF D
<1>9. /\ t \in Seq(T) /\ Len(t) = q + c + p + 2
      /\ \A i \in 1 .. 1 + q + c + p : t[i] = D[i]
      /\ t[q + c + p + 2] = IndexNote
  <2>1. t = D \o <<IndexNote>>
    BY <1>2 DEF A, B, D
  <2>2. Len(<<IndexNote>>) = 1 /\ <<IndexNote>>[1] = IndexNote /\ 1 \in 1 .. 1
    OBVIOUS
  <2>3. /\ t \in Seq(T) /\ Len(t) = Len(D) + 1
        /\ \A i \in 1 .. Len(D) : t[i] = D[i]
        /\ t[Len(D) + 1] = IndexNote
    BY <1>4, <1>8, <2>1, <2>2, JoinedInOrder
  <2>4. 1 + q + c + p = Len(D) /\ Len(D) + 1 = q + c + p + 2
    BY <1>1, <1>8
  <2> QED BY <2>3, <2>4
<1>10. /\ 1 \in 1 .. 1 + q /\ 1 \in 1 .. 1 + q + c /\ 1 \in 1 .. 1 + q + c + p
       /\ \A i \in 1 .. q : 1 + i \in 1 .. 1 + q /\ 1 + i \in 1 .. 1 + q + c /\ 1 + i \in 1 .. 1 + q + c + p
       /\ \A i \in 1 .. c : 1 + q + i \in 1 .. 1 + q + c /\ 1 + q + i \in 1 .. 1 + q + c + p
       /\ \A i \in 1 .. p : 1 + q + c + i \in 1 .. 1 + q + c + p
  BY <1>1
<1>11. t[1] = DnaNote
  BY <1>6, <1>7, <1>8, <1>9, <1>10
<1>12. \A i \in 1 .. q : t[1 + i] = QuestionNote(read.questions[i])
  <2> SUFFICES ASSUME NEW i \in 1 .. q PROVE t[1 + i] = QuestionNote(read.questions[i])
    OBVIOUS
  <2>1. t[1 + i] = D[1 + i] /\ D[1 + i] = B[1 + i]
    BY <1>8, <1>9, <1>10
  <2>2. B[1 + i] = A[1 + i] /\ A[1 + i] = Q[i]
    BY <1>6, <1>7, <1>10
  <2> QED BY <1>5, <2>1, <2>2
<1>13. \A i \in 1 .. c : t[1 + q + i] = ConceptNote(read.ideas[i], read.questions)
  BY <1>5, <1>7, <1>8, <1>9, <1>10
<1>14. \A i \in 1 .. p : t[1 + q + c + i] = ProjectNote(read.projects[i])
  BY <1>5, <1>8, <1>9, <1>10
<1> QED BY <1>9, <1>11, <1>12, <1>13, <1>14, <1>15 DEF t, q, c, p

LEMMA WhatNotesSay ==
  /\ DnaNote.at = <<"DNA", "CORE_DNA">> /\ DnaNote.at[2] = "CORE_DNA"
  /\ DnaNote.links = {} /\ IndexNote.links = {"CORE_DNA"}
BY DEF DnaNote, IndexNote

LEMMA QuestionNoteSays ==
  ASSUME NEW question
  PROVE  /\ QuestionNote(question).at = <<"Perguntas", Cleaned[question.title]>>
         /\ QuestionNote(question).at[2] = Cleaned[question.title]
         /\ QuestionNote(question).links = {"CORE_DNA"}
BY DEF QuestionNote, NoteAt

LEMMA ProjectNoteSays ==
  ASSUME NEW project
  PROVE  /\ ProjectNote(project).at = <<"Projetos", Cleaned[project.title]>>
         /\ ProjectNote(project).links = {"CORE_DNA"}
BY DEF ProjectNote, NoteAt

LEMMA ConceptNoteSays ==
  ASSUME NEW idea, NEW asked
  PROVE  /\ ConceptNote(idea, asked).at = <<Folder(idea), Cleaned[idea.title]>>
         /\ \A link \in ConceptNote(idea, asked).links :
              link = "CORE_DNA" \/ \E question \in ToSet(asked) : link = question.title
BY DEF ConceptNote, NoteAt, Parents

LEMMA WhatNodesSay ==
  /\ DnaNode.id = <<"dna", 0>> /\ DnaNode.at = <<"DNA", "CORE_DNA">>
  /\ \A kind, record, folder : LET node == Node(kind, record, folder) IN
       /\ node.id = <<kind, record.id>> /\ node.at = <<folder, record.title>> /\ node.label = record.title
  /\ \A from, to : LET arrow == Arrow(from, to) IN arrow.from = from /\ arrow.to = to
BY DEF DnaNode, Node, Arrow

LEMMA QuestionsAreNamed ==
  ASSUME NEW read \in Reading
  PROVE  /\ \A question \in ToSet(read.questions) :
              \E i \in 1 .. Len(read.questions) : question = read.questions[i]
         /\ \A idea \in ToSet(read.ideas) : \E i \in 1 .. Len(read.ideas) : idea = read.ideas[i]
         /\ \A project \in ToSet(read.projects) :
              \E i \in 1 .. Len(read.projects) : project = read.projects[i]
<1>1. read.questions \in Seq(Question) /\ read.ideas \in Seq(Idea) /\ read.projects \in Seq(Question)
  BY DEF Reading
<1>2. \A question \in ToSet(read.questions) :
        \E i \in 1 .. Len(read.questions) : question = read.questions[i]
  BY <1>1 DEF ToSet
<1>3. \A idea \in ToSet(read.ideas) : \E i \in 1 .. Len(read.ideas) : idea = read.ideas[i]
  BY <1>1 DEF ToSet
<1>4. \A project \in ToSet(read.projects) :
        \E i \in 1 .. Len(read.projects) : project = read.projects[i]
  BY <1>1 DEF ToSet
<1> QED BY <1>2, <1>3, <1>4

\* An export writes what its links lead to first.
LEMMA NotesAreReady ==
  ASSUME NEW read \in Reading
  PROVE  Ready(NotesOf(read), notes)
<1> DEFINE t == NotesOf(read)
           q == Len(read.questions)
           c == Len(read.ideas)
           p == Len(read.projects)
<1>1. /\ Len(t) = q + c + p + 2
      /\ t[1] = DnaNote
      /\ \A i \in 1 .. q : t[1 + i] = QuestionNote(read.questions[i])
      /\ \A i \in 1 .. c : t[1 + q + i] = ConceptNote(read.ideas[i], read.questions)
      /\ \A i \in 1 .. p : t[1 + q + c + i] = ProjectNote(read.projects[i])
      /\ t[q + c + p + 2] = IndexNote
  BY NotesInOrder
<1>2. q \in Nat /\ c \in Nat /\ p \in Nat
  BY DEF Reading
<1> HIDE DEF t, q, c, p
<1>3. t[1].at[2] = "CORE_DNA" /\ t[1].links = {}
  BY <1>1, WhatNotesSay
<1> SUFFICES ASSUME NEW i \in 1 .. Len(t), NEW link \in t[i].links \cap Plain
             PROVE  \E j \in 1 .. i - 1 : t[j].at[2] = link
  BY DEF Ready, t
<1>4. i # 1
  BY <1>3
<1>5. 1 \in 1 .. i - 1
  BY <1>1, <1>2, <1>4
<1>6. CASE link = "CORE_DNA"
  BY <1>3, <1>5, <1>6
<1>7. CASE link # "CORE_DNA"
  <2>1. \/ \E k \in 1 .. q : i = 1 + k
        \/ \E k \in 1 .. c : i = 1 + q + k
        \/ \E k \in 1 .. p : i = 1 + q + c + k
        \/ i = q + c + p + 2
    <3>1. CASE i <= 1 + q
      <4>1. i - 1 \in 1 .. q /\ i = 1 + (i - 1)
        BY <1>1, <1>2, <1>4, <3>1
      <4> QED BY <4>1
    <3>2. CASE i > 1 + q /\ i <= 1 + q + c
      <4>1. i - 1 - q \in 1 .. c /\ i = 1 + q + (i - 1 - q)
        BY <1>1, <1>2, <1>4, <3>2
      <4> QED BY <4>1
    <3>3. CASE i > 1 + q + c /\ i <= 1 + q + c + p
      <4>1. i - 1 - q - c \in 1 .. p /\ i = 1 + q + c + (i - 1 - q - c)
        BY <1>1, <1>2, <1>4, <3>3
      <4> QED BY <4>1
    <3>4. CASE i > 1 + q + c + p
      BY <1>1, <1>2, <3>4
    <3> QED BY <1>1, <1>2, <3>1, <3>2, <3>3, <3>4
  <2>2. PICK k \in 1 .. c : i = 1 + q + k
    <3>1. t[i].links # {"CORE_DNA"}
      BY <1>7
    <3>2. \A k \in 1 .. q : i # 1 + k
      BY <1>1, <3>1, QuestionNoteSays
    <3>3. \A k \in 1 .. p : i # 1 + q + c + k
      BY <1>1, <3>1, ProjectNoteSays
    <3>4. i # q + c + p + 2
      BY <1>1, <3>1, WhatNotesSay
    <3> QED BY <2>1, <3>2, <3>3, <3>4
  <2>3. t[i] = ConceptNote(read.ideas[k], read.questions)
    BY <1>1, <2>2
  <2>4. PICK question \in ToSet(read.questions) : link = question.title
    <3>1. link \in ConceptNote(read.ideas[k], read.questions).links
      BY <2>3
    <3> QED BY <1>7, <3>1, ConceptNoteSays
  <2>5. PICK j \in 1 .. q : question = read.questions[j]
    BY <2>4, QuestionsAreNamed DEF q
  <2>6. t[1 + j].at[2] = Cleaned[question.title]
    BY <1>1, <2>5, QuestionNoteSays
  <2>7. Cleaned[link] = link
    BY <1>7 DEF Plain
  <2>8. 1 + j \in 1 .. i - 1
    BY <1>2, <2>2
  <2> QED BY <2>4, <2>6, <2>7, <2>8
<1> QED BY <1>6, <1>7

\* An export writes a note for every node of its map.
LEMMA NodesAreDue ==
  ASSUME NEW read \in Reading,
         NEW node \in CanvasOf(read).nodes, node.label \in Plain
  PROVE  Due(node, NotesOf(read))
<1> DEFINE t == NotesOf(read)
           q == Len(read.questions)
           c == Len(read.ideas)
           p == Len(read.projects)
<1>1. /\ Len(t) = q + c + p + 2
      /\ t[1] = DnaNote
      /\ \A i \in 1 .. q : t[1 + i] = QuestionNote(read.questions[i])
      /\ \A i \in 1 .. c : t[1 + q + i] = ConceptNote(read.ideas[i], read.questions)
      /\ \A i \in 1 .. p : t[1 + q + c + i] = ProjectNote(read.projects[i])
  BY NotesInOrder
<1>2. q \in Nat /\ c \in Nat /\ p \in Nat
  BY DEF Reading
<1>3. \/ node = DnaNode
      \/ \E question \in ToSet(read.questions) : node = Node("q", question, "Perguntas")
      \/ \E idea \in ToSet(read.ideas) : node = Node("c", idea, Folder(idea))
      \/ \E project \in ToSet(read.projects) : node = Node("p", project, "Projetos")
  BY DEF CanvasOf
<1>4. \/ node = DnaNode
      \/ \E i \in 1 .. q : node = Node("q", read.questions[i], "Perguntas")
      \/ \E i \in 1 .. c : node = Node("c", read.ideas[i], Folder(read.ideas[i]))
      \/ \E i \in 1 .. p : node = Node("p", read.projects[i], "Projetos")
  <2>1. ASSUME NEW question \in ToSet(read.questions) PROVE \E i \in 1 .. q : question = read.questions[i]
    BY QuestionsAreNamed
  <2>2. ASSUME NEW idea \in ToSet(read.ideas) PROVE \E i \in 1 .. c : idea = read.ideas[i]
    BY QuestionsAreNamed
  <2>3. ASSUME NEW project \in ToSet(read.projects) PROVE \E i \in 1 .. p : project = read.projects[i]
    BY QuestionsAreNamed
  <2> HIDE DEF q, c, p
  <2> QED BY <1>3, <2>1, <2>2, <2>3
<1>0. /\ \A i \in 1 .. q : read.questions[i].title \in Titles
      /\ \A i \in 1 .. c : read.ideas[i].title \in Titles
      /\ \A i \in 1 .. p : read.projects[i].title \in Titles
  <2>1. read.questions \in Seq(Question) /\ read.ideas \in Seq(Idea) /\ read.projects \in Seq(Question)
    BY DEF Reading
  <2>2. \A i \in 1 .. q : read.questions[i] \in Question
    BY <2>1
  <2>3. \A i \in 1 .. c : read.ideas[i] \in Idea
    BY <2>1
  <2>4. \A i \in 1 .. p : read.projects[i] \in Question
    BY <2>1
  <2> QED BY <2>2, <2>3, <2>4 DEF Question, Idea
<1> HIDE DEF t, q, c, p
<1> SUFFICES \E i \in 1 .. Len(t) : t[i].at = node.at
  BY DEF Due, t
<1>5. \A title \in Titles : title \in Plain => Cleaned[title] = title
  BY VaultAssumption DEF Plain
<1>6. CASE node = DnaNode
  <2>1. t[1].at = node.at
    BY <1>1, <1>6, WhatNotesSay, WhatNodesSay
  <2>2. 1 \in 1 .. Len(t)
    BY <1>1, <1>2
  <2> QED BY <2>1, <2>2
<1>7. ASSUME NEW i \in 1 .. q, node = Node("q", read.questions[i], "Perguntas")
      PROVE  \E k \in 1 .. Len(t) : t[k].at = node.at
  <2>1. 1 + i \in 1 .. Len(t)
    BY <1>1, <1>2
  <2>2. t[1 + i].at = <<"Perguntas", Cleaned[read.questions[i].title]>>
    BY <1>1, QuestionNoteSays
  <2>3. node.at = <<"Perguntas", read.questions[i].title>> /\ node.label = read.questions[i].title
    BY <1>7, WhatNodesSay
  <2> QED BY <1>0, <1>5, <2>1, <2>2, <2>3
<1>8. ASSUME NEW i \in 1 .. c, node = Node("c", read.ideas[i], Folder(read.ideas[i]))
      PROVE  \E k \in 1 .. Len(t) : t[k].at = node.at
  <2>1. 1 + q + i \in 1 .. Len(t)
    BY <1>1, <1>2
  <2>2. t[1 + q + i].at = <<Folder(read.ideas[i]), Cleaned[read.ideas[i].title]>>
    <3>1. t[1 + q + i] = ConceptNote(read.ideas[i], read.questions)
      BY <1>1
    <3> QED BY <3>1, ConceptNoteSays
  <2>3. node.at = <<Folder(read.ideas[i]), read.ideas[i].title>> /\ node.label = read.ideas[i].title
    BY <1>8, WhatNodesSay
  <2> QED BY <1>0, <1>5, <2>1, <2>2, <2>3
<1>9. ASSUME NEW i \in 1 .. p, node = Node("p", read.projects[i], "Projetos")
      PROVE  \E k \in 1 .. Len(t) : t[k].at = node.at
  <2>1. 1 + q + c + i \in 1 .. Len(t)
    BY <1>1, <1>2
  <2>2. t[1 + q + c + i].at = <<"Projetos", Cleaned[read.projects[i].title]>>
    BY <1>1, ProjectNoteSays
  <2>3. node.at = <<"Projetos", read.projects[i].title>> /\ node.label = read.projects[i].title
    BY <1>9, WhatNodesSay
  <2> QED BY <1>0, <1>5, <2>1, <2>2, <2>3
<1> QED BY <1>4, <1>6, <1>7, <1>8, <1>9

\* Every arrow of a map leads to a node of it, and all but a winner's from one.
LEMMA ArrowsAreDrawn ==
  ASSUME NEW read, NEW edge \in CanvasOf(read).edges
  PROVE  LET c == CanvasOf(read) IN
         /\ \E node \in c.nodes : node.id = edge.to
         /\ IsWinners(edge) \/ \E node \in c.nodes : node.id = edge.from
<1> DEFINE c == CanvasOf(read)
<1>1. /\ \A question \in ToSet(read.questions) : Node("q", question, "Perguntas") \in c.nodes
      /\ \A idea \in ToSet(read.ideas) : Node("c", idea, Folder(idea)) \in c.nodes
      /\ \A project \in ToSet(read.projects) : Node("p", project, "Projetos") \in c.nodes
      /\ DnaNode \in c.nodes
  BY DEF CanvasOf
<1>2. \/ \E question \in ToSet(read.questions) : edge = Arrow(<<"dna", 0>>, <<"q", question.id>>)
      \/ \E pair \in Answers(read) : edge = Arrow(<<"q", pair[1].id>>, <<"c", pair[2].id>>)
      \/ \E project \in ToSet(read.projects) : edge = Arrow(<<"c", project.id>>, <<"p", project.id>>)
  BY DEF CanvasOf
<1> HIDE DEF c
<1>3. /\ \A question \in ToSet(read.questions) : \E node \in c.nodes : node.id = <<"q", question.id>>
      /\ \A idea \in ToSet(read.ideas) : \E node \in c.nodes : node.id = <<"c", idea.id>>
      /\ \A project \in ToSet(read.projects) : \E node \in c.nodes : node.id = <<"p", project.id>>
      /\ \E node \in c.nodes : node.id = <<"dna", 0>>
  <2>1. \A kind, record, folder : Node(kind, record, folder).id = <<kind, record.id>>
    BY WhatNodesSay
  <2>2. DnaNode.id = <<"dna", 0>>
    BY WhatNodesSay
  <2> QED BY <1>1, <2>1, <2>2
<1>4. \A pair \in Answers(read) : pair[1] \in ToSet(read.questions) /\ pair[2] \in ToSet(read.ideas)
  BY DEF Answers
<1>5. \A from, to : Arrow(from, to).from = from /\ Arrow(from, to).to = to
  BY WhatNodesSay
<1>6. \A project : <<"p", project.id>>[1] = "p"
  OBVIOUS
<1>7. /\ \E node \in c.nodes : node.id = edge.to
      /\ IsWinners(edge) \/ \E node \in c.nodes : node.id = edge.from
  <2>1. CASE \E question \in ToSet(read.questions) : edge = Arrow(<<"dna", 0>>, <<"q", question.id>>)
    <3>1. PICK question \in ToSet(read.questions) : edge = Arrow(<<"dna", 0>>, <<"q", question.id>>)
      BY <2>1
    <3>2. edge.to = <<"q", question.id>> /\ edge.from = <<"dna", 0>>
      BY <1>5, <3>1
    <3>3. \E node \in c.nodes : node.id = <<"q", question.id>>
      BY <1>3
    <3> QED BY <1>3, <1>6, <3>2, <3>3 DEF IsWinners
  <2>2. CASE \E pair \in Answers(read) : edge = Arrow(<<"q", pair[1].id>>, <<"c", pair[2].id>>)
    <3>1. PICK pair \in Answers(read) : edge = Arrow(<<"q", pair[1].id>>, <<"c", pair[2].id>>)
      BY <2>2
    <3>2. edge.to = <<"c", pair[2].id>> /\ edge.from = <<"q", pair[1].id>>
      BY <1>5, <3>1
    <3>3. \E node \in c.nodes : node.id = <<"c", pair[2].id>>
      BY <1>3, <1>4
    <3>4. \E node \in c.nodes : node.id = <<"q", pair[1].id>>
      BY <1>3, <1>4
    <3> QED BY <3>2, <3>3, <3>4
  <2>3. CASE \E project \in ToSet(read.projects) : edge = Arrow(<<"c", project.id>>, <<"p", project.id>>)
    <3>1. PICK project \in ToSet(read.projects) : edge = Arrow(<<"c", project.id>>, <<"p", project.id>>)
      BY <2>3
    <3>2. edge.to = <<"p", project.id>> /\ edge.from = <<"c", project.id>>
      BY <1>5, <3>1
    <3>3. \E node \in c.nodes : node.id = <<"p", project.id>>
      BY <1>3
    <3> QED BY <1>3, <1>6, <3>2, <3>3 DEF IsWinners
  <2> QED BY <1>2, <2>1, <2>2, <2>3
<1> QED BY <1>7 DEF c

-----------------------------------------------------------------------------
(* The vault, whenever an export is cut short. *)

LEMMA RecentIsRead ==
  ASSUME NEW T, NEW s \in Seq(T), NEW limit \in Nat PROVE Recent(s, limit) \in Seq(T)
<1>1. (IF limit < Len(s) THEN limit ELSE Len(s)) \in 0 .. Len(s)
  OBVIOUS
<1> QED BY <1>1 DEF Recent

LEMMA TypesHold == ExportSpec => []VaultTypes
<1>1. ExportInit => VaultTypes
  <2> SUFFICES ASSUME ExportInit PROVE VaultTypes
    OBVIOUS
  <2>1. NoExport \in Exporting({})
    BY DEF NoExport, NothingRead, Exporting, Steps, Reading
  <2> QED BY <2>1 DEF ExportInit, VaultTypes
<1>2. VaultTypes /\ [ExportNext]_exportVars => VaultTypes'
  <2> SUFFICES ASSUME VaultTypes, [ExportNext]_exportVars PROVE VaultTypes'
    OBVIOUS
  <2>0. PICK T : export \in Exporting(T) /\ \A note \in T : IsNote(note)
    BY DEF VaultTypes
  <2>1. /\ export.read \in Reading /\ export.todo \in Seq(T) /\ export.limit \in Nat
        /\ export.graveyard \in BOOLEAN /\ export.step \in Steps
    BY <2>0 DEF Exporting, Steps
  <2>2. questions \in Seq(Question) /\ ideas \in Seq(Idea) /\ projects \in Seq(Question)
    BY DEF VaultTypes
  <2>3. NoExport \in Exporting({}) /\ NothingRead \in Reading
    BY DEF NoExport, NothingRead, Exporting, Steps, Reading
  <2>4. CASE UNCHANGED exportVars
    BY <2>4 DEF VaultTypes, exportVars, store
  <2>5. CASE Ask
    <3>1. PICK title \in Titles : questions' = <<[id |-> Len(questions) + 1, title |-> title]>> \o questions
      BY <2>5 DEF Ask
    <3>2. [id |-> Len(questions) + 1, title |-> title] \in Question
      BY <2>2 DEF Question
    <3>3. questions' \in Seq(Question)
      BY <2>2, <3>1, <3>2
    <3> QED BY <2>2, <2>5, <3>3 DEF Ask, Save, VaultTypes
  <2>6. CASE Conceive
    <3>1. PICK title \in Titles, question \in 0 .. Len(questions) :
            ideas' = <<[id |-> Len(ideas) + 1, title |-> title, question |-> question, buried |-> FALSE]>> \o ideas
      BY <2>6 DEF Conceive
    <3>2. [id |-> Len(ideas) + 1, title |-> title, question |-> question, buried |-> FALSE] \in Idea
      BY <2>2 DEF Idea
    <3>3. ideas' \in Seq(Idea)
      BY <2>2, <3>1, <3>2
    <3> QED BY <2>2, <2>6, <3>3 DEF Conceive, Save, VaultTypes
  <2>7. CASE SaveIdea
    <3>1. PICK i \in 1 .. Len(ideas), buried \in BOOLEAN :
            ideas' = <<[ideas[i] EXCEPT !.buried = buried]>> \o RemoveAt(ideas, i)
      BY <2>7 DEF SaveIdea
    <3>2. [ideas[i] EXCEPT !.buried = buried] \in Idea
      <4>1. ideas[i] \in Idea
        BY <2>2
      <4> QED BY <4>1 DEF Idea
    <3>3. RemoveAt(ideas, i) \in Seq(Idea)
      <4>1. SubSeq(ideas, 1, i - 1) \in Seq(Idea) /\ SubSeq(ideas, i + 1, Len(ideas)) \in Seq(Idea)
        BY <2>2
      <4> QED BY <4>1 DEF RemoveAt
    <3>4. ideas' \in Seq(Idea)
      BY <3>1, <3>2, <3>3
    <3> QED BY <2>2, <2>7, <3>4 DEF SaveIdea, Save, VaultTypes
  <2>8. CASE Win
    <3>1. PICK idea \in ToSet(ideas) : projects' = <<[id |-> idea.id, title |-> idea.title]>> \o projects
      BY <2>8 DEF Win
    <3>2. idea \in Idea
      BY <2>2 DEF ToSet
    <3>3. [id |-> idea.id, title |-> idea.title] \in Question
      BY <3>2 DEF Idea, Question
    <3>4. projects' \in Seq(Question)
      BY <2>2, <3>1, <3>3
    <3> QED BY <2>2, <2>8, <3>4 DEF Win, Save, VaultTypes
  <2>9. CASE Begin
    <3>1. PICK limit \in Limits, graveyard \in BOOLEAN :
            export' = [NoExport EXCEPT !.step = "questions", !.limit = limit, !.graveyard = graveyard]
      BY <2>9 DEF Begin
    <3>2. limit \in Nat
      BY VaultAssumption
    <3>3. export' \in Exporting({})
      BY <2>3, <3>1, <3>2 DEF Exporting, Steps
    <3> QED BY <2>2, <2>9, <3>3 DEF Begin, store, VaultTypes
  <2>10. CASE ReadQuestions
    <3>1. Recent(questions, export.limit) \in Seq(Question)
      BY <2>1, <2>2, RecentIsRead
    <3>2. export' \in Exporting(T)
      BY <2>0, <2>1, <2>10, <3>1 DEF ReadQuestions, Exporting, Steps, Reading
    <3> QED BY <2>0, <2>2, <2>10, <3>2 DEF ReadQuestions, store, VaultTypes
  <2>11. CASE ReadIdeas
    <3> DEFINE recent == Recent(ideas, export.limit)
               shown == {idea \in ToSet(recent) : idea.buried => export.graveyard}
    <3>1. recent \in Seq(Idea)
      BY <2>1, <2>2, RecentIsRead
    <3>2. export' = [export EXCEPT !.step = "projects", !.read.ideas = Among(recent, shown)]
      BY <2>11 DEF ReadIdeas
    <3> HIDE DEF recent, shown
    <3>3. Among(recent, shown) \in Seq(Idea)
      BY <3>1, AmongKeeps DEF Sifted
    <3>4. export' \in Exporting(T)
      BY <2>0, <2>1, <3>2, <3>3 DEF Exporting, Steps, Reading
    <3> QED BY <2>0, <2>2, <2>11, <3>4 DEF ReadIdeas, store, VaultTypes
  <2>12. CASE ReadProjects
    <3> DEFINE read == [export.read EXCEPT !.projects = Recent(projects, export.limit)]
    <3>1. Recent(projects, export.limit) \in Seq(Question)
      BY <2>1, <2>2, RecentIsRead
    <3>2. read \in Reading
      BY <2>1, <3>1 DEF Reading
    <3>3. export' = [export EXCEPT !.step = "notes", !.read = read, !.todo = NotesOf(read)]
      BY <2>12 DEF ReadProjects
    <3> HIDE DEF read
    <3>4. PICK N : NotesOf(read) \in Seq(N) /\ \A note \in N : IsNote(note)
      BY <3>2, NotesInOrder
    <3>5. export' \in Exporting(N)
      BY <2>0, <2>1, <3>2, <3>3, <3>4 DEF Exporting, Steps
    <3> QED BY <2>2, <2>12, <3>4, <3>5 DEF ReadProjects, store, VaultTypes
  <2>13. CASE WriteNote
    <3>1. Tail(export.todo) \in Seq(T)
      BY <2>1, <2>13, TailShifts DEF WriteNote
    <3>2. export' \in Exporting(T)
      BY <2>0, <2>1, <2>13, <3>1 DEF WriteNote, Exporting, Steps
    <3> QED BY <2>0, <2>2, <2>13, <3>2 DEF WriteNote, store, VaultTypes
  <2>14. CASE WriteCanvas
    BY <2>2, <2>3, <2>14 DEF WriteCanvas, store, VaultTypes
  <2>15. CASE Kill
    BY <2>2, <2>3, <2>15 DEF Kill, store, VaultTypes
  <2> QED BY <2>4, <2>5, <2>6, <2>7, <2>8, <2>9, <2>10, <2>11, <2>12, <2>13, <2>14, <2>15 DEF ExportNext
<1> QED BY <1>1, <1>2, PTL DEF ExportSpec

\* A note that is written takes nothing but the place of another.
LEMMA PlacesStay ==
  ASSUME NEW note
  PROVE  /\ note \in With(note)
         /\ \A other \in notes : \E n \in With(note) : n.at = other.at
         /\ \A n \in With(note) : n \in notes \/ n = note
BY DEF With

\* What may become of the vault: its places stay, and the links are old ones.
Grown ==
  \A other \in notes : \E n \in notes' : n.at = other.at

LEMMA GrownKeeps ==
  ASSUME Grown
  PROVE  /\ \A title : Linked(title) => Linked(title)'
         /\ \A node : Placed(node, notes) => Placed(node, notes')
<1>1. ASSUME NEW title, Linked(title) PROVE Linked(title)'
  <2>1. PICK note \in notes : note.at[2] = title
    BY <1>1 DEF Linked
  <2>2. PICK n \in notes' : n.at = note.at
    BY DEF Grown
  <2>3. n.at[2] = title
    BY <2>1, <2>2
  <2> QED BY <2>3 DEF Linked
<1>2. ASSUME NEW node, Placed(node, notes) PROVE Placed(node, notes')
  BY <1>2 DEF Placed, Grown
<1> QED BY <1>1, <1>2

LEMMA VaultIsSafe == ExportSpec => []VaultSafe
<1>1. ExportInit => VaultSafe
  <2> SUFFICES ASSUME ExportInit PROVE VaultSafe
    OBVIOUS
  <2>1. export.todo = <<>> /\ export.step = "none" /\ notes = {} /\ canvas.nodes = {} /\ canvas.edges = {}
    BY DEF ExportInit, NoExport, NoCanvas
  <2>2. Ready(export.todo, notes)
    BY <2>1 DEF Ready
  <2>3. LinksLead
    BY <2>1 DEF LinksLead
  <2>4. MapHolds
    BY <2>1 DEF MapHolds
  <2> QED BY <2>1, <2>2, <2>3, <2>4 DEF VaultSafe
<1>2. ASSUME VaultTypes, VaultSafe, [ExportNext]_exportVars PROVE VaultSafe'
  <2>0. PICK T : export \in Exporting(T) /\ \A note \in T : IsNote(note)
    BY <1>2 DEF VaultTypes
  <2>1. /\ export.read \in Reading /\ export.todo \in Seq(T)
        /\ projects \in Seq(Question) /\ export.limit \in Nat
    BY <1>2, <2>0 DEF VaultTypes, Exporting
  <2>2. /\ Ready(export.todo, notes)
        /\ export.step = "notes" => Coming(export, notes)
        /\ LinksLead /\ MapHolds
    BY <1>2 DEF VaultSafe
  <2>3. /\ NoExport.todo = <<>> /\ NoExport.step = "none"
        /\ \A written : Ready(<<>>, written)
    BY DEF NoExport, Ready
  <2>4. ASSUME UNCHANGED <<notes, canvas>> PROVE (LinksLead /\ MapHolds)'
    BY <2>2, <2>4 DEF LinksLead, MapHolds, Linked, Drawn
  <2>5. CASE UNCHANGED <<export, notes, canvas>>
    BY <2>2, <2>4, <2>5 DEF VaultSafe
  <2>6. CASE Ask \/ Conceive \/ SaveIdea \/ Win
    BY <2>5, <2>6 DEF Ask, Conceive, SaveIdea, Win, Save, vault
  <2>7. CASE Begin
    <3>1. export'.todo = <<>> /\ export'.step = "questions" /\ UNCHANGED <<notes, canvas>>
      BY <2>7 DEF Begin, NoExport, vault
    <3> QED BY <2>3, <2>4, <3>1 DEF VaultSafe
  <2>8. CASE ReadQuestions \/ ReadIdeas
    <3>1. export'.todo = export.todo /\ export'.step \in {"ideas", "projects"} /\ UNCHANGED <<notes, canvas>>
      BY <2>0, <2>8 DEF ReadQuestions, ReadIdeas, vault, Exporting
    <3> QED BY <2>2, <2>4, <3>1 DEF VaultSafe
  <2>9. CASE ReadProjects
    <3> DEFINE read == [export.read EXCEPT !.projects = Recent(projects, export.limit)]
    <3>1. read \in Reading
      BY <2>1, RecentIsRead DEF Reading
    <3>2. export' = [export EXCEPT !.step = "notes", !.read = read, !.todo = NotesOf(read)]
      BY <2>9 DEF ReadProjects
    <3>3. UNCHANGED <<notes, canvas>>
      BY <2>9 DEF ReadProjects, vault
    <3> HIDE DEF read
    <3>4. export'.read = read /\ export'.todo = NotesOf(read)
      BY <2>0, <3>2 DEF Exporting
    <3>5. Ready(export'.todo, notes')
      BY <3>1, <3>3, <3>4, NotesAreReady
    <3>6. Coming(export', notes')
      BY <1>2, <3>1, <3>4, NodesAreDue DEF Coming
    <3> QED BY <2>4, <3>3, <3>5, <3>6 DEF VaultSafe
  <2>10. CASE WriteNote
    <3> DEFINE t == export.todo
    <3>1. /\ export.step = "notes" /\ t # <<>> /\ canvas' = canvas
          /\ notes' = With(Head(t)) /\ export' = [export EXCEPT !.todo = Tail(@)]
      BY <2>10 DEF WriteNote
    <3>2. export'.todo = Tail(t) /\ export'.read = export.read
      BY <2>0, <3>1 DEF Exporting
    <3>3. /\ t[1] \in notes' /\ 1 \in 1 .. Len(t) /\ Len(Tail(t)) = Len(t) - 1 /\ Len(t) \in Nat
          /\ \A i \in 1 .. Len(t) - 1 : Tail(t)[i] = t[i + 1]
          /\ \A n \in notes' : n \in notes \/ n = t[1]
          /\ Grown
      BY <2>1, <3>1, PlacesStay, TailShifts DEF Grown
    <3> HIDE DEF t
    <3>4. \A title : Linked(title) => Linked(title)'
      BY <3>3, GrownKeeps
    <3>5. \A node : Placed(node, notes) => Placed(node, notes')
      BY <3>3, GrownKeeps
    <3>6. \A link \in t[1].links \cap Plain : Linked(link)
      BY <2>2, <3>3 DEF Ready, Linked, t
    <3>7. LinksLead'
      BY <2>2, <3>3, <3>4, <3>6 DEF LinksLead, Plain
    <3>8. MapHolds'
      BY <2>2, <3>1, <3>5 DEF MapHolds, Placed, Plain, Drawn
    <3>9. Ready(Tail(t), notes')
      <4> SUFFICES ASSUME NEW i \in 1 .. Len(Tail(t)), NEW link \in Tail(t)[i].links \cap Plain
                   PROVE  \/ \E note \in notes' : note.at[2] = link
                          \/ \E j \in 1 .. i - 1 : Tail(t)[j].at[2] = link
        BY DEF Ready
      <4>1. i \in 1 .. Len(t) - 1 /\ i + 1 \in 1 .. Len(t) /\ link \in t[i + 1].links \cap Plain
        BY <3>3
      <4>2. CASE \E note \in notes : note.at[2] = link
        BY <3>4, <4>2 DEF Linked
      <4>3. CASE \E j \in 1 .. (i + 1) - 1 : t[j].at[2] = link
        <5>1. PICK j \in 1 .. i : t[j].at[2] = link
          BY <4>1, <4>3
        <5>2. CASE j = 1
          BY <3>3, <5>1, <5>2
        <5>3. CASE j # 1
          <6>1. j - 1 \in 1 .. i - 1 /\ j - 1 \in 1 .. Len(t) - 1 /\ (j - 1) + 1 = j
            BY <3>3, <4>1, <5>3
          <6>2. Tail(t)[j - 1] = t[j]
            BY <3>3, <6>1
          <6> QED BY <5>1, <6>1, <6>2
        <5> QED BY <5>2, <5>3
      <4> QED BY <2>2, <4>1, <4>2, <4>3 DEF Ready, t
    <3>10. Coming(export', notes')
      <4> SUFFICES ASSUME NEW node \in CanvasOf(export.read).nodes, node.label \in Plain
                   PROVE  Placed(node, notes') \/ Due(node, Tail(t))
        BY <3>2 DEF Coming
      <4>1. CASE Placed(node, notes)
        BY <3>5, <4>1
      <4>2. CASE Due(node, t)
        <5>1. PICK i \in 1 .. Len(t) : t[i].at = node.at
          BY <4>2 DEF Due
        <5>2. CASE i = 1
          BY <3>3, <5>1, <5>2 DEF Placed
        <5>3. CASE i # 1
          <6>1. i - 1 \in 1 .. Len(Tail(t)) /\ i - 1 \in 1 .. Len(t) - 1 /\ (i - 1) + 1 = i
            BY <3>3, <5>3
          <6>2. Tail(t)[i - 1] = t[i]
            BY <3>3, <6>1
          <6> QED BY <5>1, <6>1, <6>2 DEF Due
        <5> QED BY <5>2, <5>3
      <4> QED BY <2>2, <3>1, <4>1, <4>2 DEF Coming, t
    <3> QED BY <3>2, <3>7, <3>8, <3>9, <3>10 DEF VaultSafe
  <2>11. CASE WriteCanvas
    <3>1. /\ export.step = "notes" /\ export.todo = <<>> /\ canvas' = CanvasOf(export.read)
          /\ export' = NoExport /\ notes' = notes
      BY <2>11 DEF WriteCanvas
    <3>2. LinksLead'
      BY <2>2, <3>1 DEF LinksLead, Linked
    <3>3. \A node \in canvas'.nodes : node.label \in Plain => \E note \in notes' : note.at = node.at
      BY <2>2, <3>1 DEF Coming, Placed, Due
    <3>4. \A edge \in canvas'.edges : /\ \E node \in canvas'.nodes : node.id = edge.to
                                      /\ IsWinners(edge) \/ \E node \in canvas'.nodes : node.id = edge.from
      BY <3>1, ArrowsAreDrawn
    <3>5. MapHolds'
      BY <3>3, <3>4 DEF MapHolds, Drawn, IsWinners, Plain
    <3> QED BY <2>3, <3>1, <3>2, <3>5 DEF VaultSafe
  <2>12. CASE Kill
    <3>1. export' = NoExport
      BY <2>12 DEF Kill
    <3>2. CASE UNCHANGED vault
      BY <2>3, <2>4, <3>1, <3>2 DEF VaultSafe, vault
    <3>3. CASE export.todo # <<>> /\ notes' = Torn(Head(export.todo)) /\ UNCHANGED canvas
      <4> DEFINE note == Head(export.todo)
                 torn == [note EXCEPT !.links = {}]
      <4>1. note \in T /\ IsNote(note)
        BY <2>0, <2>1, <3>3, TailShifts
      <4>2. torn.links = {}
        BY <4>1 DEF IsNote
      <4>3. notes' = With(torn)
        BY <3>3 DEF Torn
      <4> HIDE DEF torn
      <4>4. Grown /\ \A n \in notes' : n \in notes \/ n = torn
        BY <4>3, PlacesStay DEF Grown
      <4>5. LinksLead'
        BY <2>2, <4>2, <4>4, GrownKeeps DEF LinksLead, Plain
      <4>6. MapHolds'
        BY <2>2, <3>3, <4>4, GrownKeeps DEF MapHolds, Placed, Plain, Drawn
      <4> QED BY <2>3, <3>1, <4>5, <4>6 DEF VaultSafe
    <3>4. CASE canvas' = NoCanvas /\ UNCHANGED notes
      <4>1. LinksLead'
        BY <2>2, <3>4 DEF LinksLead, Linked
      <4>2. MapHolds'
        BY <3>4 DEF MapHolds, NoCanvas
      <4> QED BY <2>3, <3>1, <4>1, <4>2 DEF VaultSafe
    <3> QED BY <2>12, <3>2, <3>3, <3>4 DEF Kill
  <2>13. CASE UNCHANGED exportVars
    BY <2>5, <2>13 DEF exportVars, vault
  <2> QED BY <1>2, <2>6, <2>7, <2>8, <2>9, <2>10, <2>11, <2>12, <2>13 DEF ExportNext
<1>3. VaultTypes /\ VaultSafe /\ [ExportNext]_exportVars => VaultSafe'
  BY <1>2
<1> QED BY <1>1, <1>3, TypesHold, PTL DEF ExportSpec

\* However an export is cut short or reads while the brain saves, whatever ideas and questions
\* were exported before and however many: every link with a plain name that a note of the vault
\* shows leads to a note (exporting.py:74, vault/__init__.py:174).
THEOREM LinksAlwaysLead == ExportSpec => []LinksLead
<1>1. VaultSafe => LinksLead
  BY DEF VaultSafe
<1> QED BY <1>1, VaultIsSafe, PTL

\* What the map on disk draws under a plain name is there to be opened, and no arrow but a
\* winner's starts nowhere (exporting.py:109-149).
THEOREM MapAlwaysHolds == ExportSpec => []MapHolds
<1>1. VaultSafe => MapHolds
  BY DEF VaultSafe
<1> QED BY <1>1, VaultIsSafe, PTL

-----------------------------------------------------------------------------
(* The host. *)
-----------------------------------------------------------------------------
(* Jobs, told apart by their numbers. *)

Job == [number : Nat, name : JobNames, due_at : Int]

NumbersOf(s) == {s[i].number : i \in 1 .. Len(s)}
Apart(s) == \A i, j \in 1 .. Len(s) : s[i].number = s[j].number => i = j

LEMMA NumbersAgree ==
  ASSUME NEW s \in Seq(Job)
  PROVE  /\ Numbers(s) = NumbersOf(s)
         /\ ToSet(s) = {s[i] : i \in 1 .. Len(s)}
<1>1. ToSet(s) = {s[i] : i \in 1 .. Len(s)}
  BY DEF ToSet
<1>2. Numbers(s) = NumbersOf(s)
  BY <1>1 DEF Numbers, NumbersOf
<1> QED BY <1>1, <1>2

LEMMA SomeOfTheJobs ==
  ASSUME NEW s \in Seq(Job), Apart(s), NEW S
  PROVE  /\ Among(s, S) \in Seq(Job) /\ Apart(Among(s, S))
         /\ NumbersOf(Among(s, S)) = {s[i].number : i \in {i \in 1 .. Len(s) : s[i] \in S}}
<1> DEFINE k == Among(s, S)
<1>1. Sifted(k, s, S, Job, Len(s))
  BY AmongKeeps
<1> HIDE DEF k
<1>2. PICK place \in [1 .. Len(k) -> 1 .. Len(s)] :
        /\ \A i \in 1 .. Len(k) : k[i] = s[place[i]]
        /\ \A i, j \in 1 .. Len(k) : i < j => place[i] < place[j]
  BY <1>1 DEF Sifted
<1>3. k \in Seq(Job) /\ \A j \in 1 .. Len(k) : k[j] \in S
  BY <1>1 DEF Sifted
<1>4. ASSUME NEW i \in 1 .. Len(k), NEW j \in 1 .. Len(k), k[i].number = k[j].number
      PROVE  i = j
  <2>1. place[i] = place[j]
    BY <1>2, <1>4 DEF Apart
  <2>2. ~(i < j) /\ ~(j < i)
    BY <1>2, <2>1
  <2> QED BY <1>3, <2>2
<1>5. ASSUME NEW n \in NumbersOf(k) PROVE \E i \in 1 .. Len(s) : s[i] \in S /\ s[i].number = n
  BY <1>2, <1>3, <1>5 DEF NumbersOf
<1>6. ASSUME NEW i \in 1 .. Len(s), s[i] \in S PROVE s[i].number \in NumbersOf(k)
  <2>1. PICK j \in 1 .. Len(k) : k[j] = s[i]
    BY <1>1, <1>6 DEF Sifted
  <2> QED BY <2>1 DEF NumbersOf
<1>7. NumbersOf(k) = {s[i].number : i \in {i \in 1 .. Len(s) : s[i] \in S}}
  BY <1>5, <1>6
<1> QED BY <1>3, <1>4, <1>7 DEF Apart, k

LEMMA JobsBehindJobs ==
  ASSUME NEW a \in Seq(Job), NEW b \in Seq(Job), Apart(a), Apart(b), NumbersOf(a) \cap NumbersOf(b) = {}
  PROVE  /\ a \o b \in Seq(Job) /\ Apart(a \o b)
         /\ NumbersOf(a \o b) = NumbersOf(a) \cup NumbersOf(b)
<1> DEFINE c == a \o b
<1>1. c \in Seq(Job) /\ Len(c) = Len(a) + Len(b)
  BY JoinedInOrder
<1>2. \A i \in 1 .. Len(a) : c[i] = a[i]
  BY JoinedInOrder
<1>3. \A i \in 1 .. Len(b) : c[Len(a) + i] = b[i]
  BY JoinedInOrder
<1> HIDE DEF c
<1>4. Len(a) \in Nat /\ Len(b) \in Nat
  OBVIOUS
<1>5. \A i \in 1 .. Len(c) : i \in 1 .. Len(a) \/ \E j \in 1 .. Len(b) : i = Len(a) + j
  <2> SUFFICES ASSUME NEW i \in 1 .. Len(c), i \notin 1 .. Len(a) PROVE \E j \in 1 .. Len(b) : i = Len(a) + j
    OBVIOUS
  <2>1. i - Len(a) \in 1 .. Len(b) /\ i = Len(a) + (i - Len(a))
    BY <1>1, <1>4
  <2> QED BY <2>1
<1>6. /\ \A i \in 1 .. Len(a) : i \in 1 .. Len(c)
      /\ \A i \in 1 .. Len(b) : Len(a) + i \in 1 .. Len(c)
  BY <1>1, <1>4
<1>7. \A i \in 1 .. Len(a), j \in 1 .. Len(b) : a[i].number # b[j].number
  BY DEF NumbersOf
<1>8. ASSUME NEW i \in 1 .. Len(c), NEW j \in 1 .. Len(c), c[i].number = c[j].number PROVE i = j
  <2>1. CASE i \in 1 .. Len(a) /\ j \in 1 .. Len(a)
    BY <1>2, <1>8, <2>1 DEF Apart
  <2>2. CASE i \in 1 .. Len(a) /\ \E n \in 1 .. Len(b) : j = Len(a) + n
    BY <1>2, <1>3, <1>7, <1>8, <2>2
  <2>3. CASE j \in 1 .. Len(a) /\ \E n \in 1 .. Len(b) : i = Len(a) + n
    BY <1>2, <1>3, <1>7, <1>8, <2>3
  <2>4. ASSUME NEW m \in 1 .. Len(b), NEW n \in 1 .. Len(b), i = Len(a) + m, j = Len(a) + n PROVE i = j
    <3>1. c[i] = b[m] /\ c[j] = b[n]
      BY <1>3, <2>4
    <3>2. m = n
      BY <1>8, <3>1 DEF Apart
    <3> QED BY <2>4, <3>2
  <2> QED BY <1>5, <2>1, <2>2, <2>3, <2>4
<1>9. NumbersOf(c) = NumbersOf(a) \cup NumbersOf(b)
  <2>1. ASSUME NEW i \in 1 .. Len(c) PROVE c[i].number \in NumbersOf(a) \cup NumbersOf(b)
    <3>1. CASE i \in 1 .. Len(a)
      BY <1>2, <3>1 DEF NumbersOf
    <3>2. ASSUME NEW j \in 1 .. Len(b), i = Len(a) + j PROVE c[i].number \in NumbersOf(b)
      BY <1>3, <3>2 DEF NumbersOf
    <3> QED BY <1>5, <3>1, <3>2
  <2>2. ASSUME NEW i \in 1 .. Len(a) PROVE a[i].number \in NumbersOf(c)
    BY <1>2, <1>6 DEF NumbersOf
  <2>3. ASSUME NEW i \in 1 .. Len(b) PROVE b[i].number \in NumbersOf(c)
    BY <1>3, <1>6 DEF NumbersOf
  <2>4. NumbersOf(c) \subseteq NumbersOf(a) \cup NumbersOf(b)
    BY <2>1 DEF NumbersOf
  <2>5. NumbersOf(a) \subseteq NumbersOf(c) /\ NumbersOf(b) \subseteq NumbersOf(c)
    BY <2>2, <2>3 DEF NumbersOf
  <2> QED BY <2>4, <2>5
<1> QED BY <1>1, <1>8, <1>9 DEF Apart, c

\* A job takes its place among those that wait.
LEMMA InsertedIsIn ==
  ASSUME NEW s \in Seq(Job), Apart(s), NEW job \in Job, job.number \notin NumbersOf(s)
  PROVE  /\ Insert(job, s) \in Seq(Job) /\ Apart(Insert(job, s))
         /\ NumbersOf(Insert(job, s)) = NumbersOf(s) \cup {job.number}
<1> DEFINE U == Until(job.due_at, s)
           V == After(job.due_at, s)
           a == Among(s, U)
           b == Among(s, V)
<1>1. Insert(job, s) = a \o <<job>> \o b
  BY NumbersAgree DEF Insert
<1>2. /\ a \in Seq(Job) /\ Apart(a)
      /\ NumbersOf(a) = {s[i].number : i \in {i \in 1 .. Len(s) : s[i] \in U}}
  BY SomeOfTheJobs
<1>3. /\ b \in Seq(Job) /\ Apart(b)
      /\ NumbersOf(b) = {s[i].number : i \in {i \in 1 .. Len(s) : s[i] \in V}}
  BY SomeOfTheJobs
<1>4. job.due_at \in Int /\ \A i \in 1 .. Len(s) : s[i] \in Job /\ s[i].due_at \in Int
  <2>1. \A i \in 1 .. Len(s) : s[i] \in Job
    OBVIOUS
  <2> QED BY <2>1 DEF Job
<1>5. /\ \A i \in 1 .. Len(s) : s[i] \in U \/ s[i] \in V
      /\ U \cap V = {}
  <2>1. \A i \in 1 .. Len(s) : s[i].due_at <= job.due_at \/ s[i].due_at > job.due_at
    BY <1>4
  <2>2. \A i \in 1 .. Len(s) : ~(s[i].due_at <= job.due_at /\ s[i].due_at > job.due_at)
    BY <1>4
  <2> QED BY <2>1, <2>2, NumbersAgree DEF Until, After
<1> HIDE DEF a, b, U, V
<1>6. <<job>> \in Seq(Job) /\ Apart(<<job>>) /\ NumbersOf(<<job>>) = {job.number}
  <2>1. <<job>> \in Seq(Job) /\ Len(<<job>>) = 1 /\ <<job>>[1] = job /\ 1 .. 1 = {1}
    OBVIOUS
  <2> QED BY <2>1 DEF Apart, NumbersOf
<1>7. NumbersOf(a) \cup NumbersOf(b) = NumbersOf(s)
  <2>1. ASSUME NEW n \in NumbersOf(s) PROVE n \in NumbersOf(a) \cup NumbersOf(b)
    <3>1. PICK i \in 1 .. Len(s) : n = s[i].number
      BY <2>1 DEF NumbersOf
    <3>2. CASE s[i] \in U
      BY <1>2, <3>1, <3>2
    <3>3. CASE s[i] \in V
      BY <1>3, <3>1, <3>3
    <3> QED BY <1>5, <3>2, <3>3
  <2>2. NumbersOf(a) \subseteq NumbersOf(s)
    BY <1>2 DEF NumbersOf
  <2>3. NumbersOf(b) \subseteq NumbersOf(s)
    BY <1>3 DEF NumbersOf
  <2> QED BY <2>1, <2>2, <2>3
<1>8. NumbersOf(a) \cap NumbersOf(b) = {}
  <2> SUFFICES ASSUME NEW i \in 1 .. Len(s), s[i] \in U, NEW j \in 1 .. Len(s), s[j] \in V, s[i].number = s[j].number
               PROVE  FALSE
    BY <1>2, <1>3
  <2>1. i = j
    BY DEF Apart
  <2> QED BY <1>5, <2>1
<1>9. /\ a \o <<job>> \in Seq(Job) /\ Apart(a \o <<job>>)
      /\ NumbersOf(a \o <<job>>) = NumbersOf(a) \cup {job.number}
  <2>1. NumbersOf(a) \cap NumbersOf(<<job>>) = {}
    BY <1>6, <1>7
  <2> QED BY <1>2, <1>6, <2>1, JobsBehindJobs
<1>10. /\ a \o <<job>> \o b \in Seq(Job) /\ Apart(a \o <<job>> \o b)
       /\ NumbersOf(a \o <<job>> \o b) = NumbersOf(a \o <<job>>) \cup NumbersOf(b)
  <2>1. NumbersOf(a \o <<job>>) \cap NumbersOf(b) = {}
    BY <1>7, <1>8, <1>9
  <2> HIDE DEF NumbersOf, Apart
  <2> QED BY <1>3, <1>9, <2>1, JobsBehindJobs
<1> QED BY <1>1, <1>7, <1>9, <1>10

\* Where the numbers handed out are.
Parts(waiting, running, finished, cancelled, dropped, all) ==
  /\ waiting \cup (running \ finished) \cup finished \cup cancelled \cup dropped = 1 .. all
  /\ waiting \cap running = {} /\ waiting \cap finished = {} /\ waiting \cap cancelled = {} /\ waiting \cap dropped = {}
  /\ (running \ finished) \cap cancelled = {} /\ (running \ finished) \cap dropped = {}
  /\ finished \cap cancelled = {} /\ finished \cap dropped = {} /\ cancelled \cap dropped = {}

JobsInv ==
  /\ jobs \in Seq(Job) /\ due \in Seq(Job)
  /\ now \in Int /\ minted \in Nat /\ acting \in BOOLEAN
  /\ Apart(jobs) /\ Apart(due)
  /\ \A i \in 1 .. Len(due) : due[i].number \in ran <=> i = 1 /\ acting
  /\ due = <<>> => ~acting
  /\ Parts(NumbersOf(jobs), NumbersOf(due), ran, withdrawn, lost, minted)

LEMMA PartsAreEnds ==
  ASSUME jobs \in Seq(Job), due \in Seq(Job),
         Parts(NumbersOf(jobs), NumbersOf(due), ran, withdrawn, lost, minted)
  PROVE  JobsAccountedFor
<1> DEFINE ends == <<Numbers(jobs), Numbers(due) \ ran, ran, withdrawn, lost>>
<1>1. ends = <<NumbersOf(jobs), NumbersOf(due) \ ran, ran, withdrawn, lost>>
  BY NumbersAgree
<1> HIDE DEF ends
<1>2. Len(ends) = 5 /\ 1 .. 5 = {1, 2, 3, 4, 5}
  BY <1>1
<1>3. /\ ends[1] = NumbersOf(jobs) /\ ends[2] = NumbersOf(due) \ ran /\ ends[3] = ran
      /\ ends[4] = withdrawn /\ ends[5] = lost
  BY <1>1
<1>4. ToSet(ends) = {NumbersOf(jobs), NumbersOf(due) \ ran, ran, withdrawn, lost}
  <2>1. DOMAIN ends = {1, 2, 3, 4, 5}
    BY <1>1, <1>2
  <2>2. ToSet(ends) = {ends[i] : i \in {1, 2, 3, 4, 5}}
    BY <2>1 DEF ToSet
  <2> QED BY <1>3, <2>2
<1>5. UNION ToSet(ends) = 1 .. minted
  <2>1. UNION ToSet(ends) = NumbersOf(jobs) \cup (NumbersOf(due) \ ran) \cup ran \cup withdrawn \cup lost
    BY <1>4
  <2> QED BY <2>1 DEF Parts
<1>6. ASSUME NEW m \in 1 .. 5, NEW n \in 1 .. 5, m # n PROVE ends[m] \cap ends[n] = {}
  <2>1. /\ ends[1] \cap ends[2] = {} /\ ends[1] \cap ends[3] = {} /\ ends[1] \cap ends[4] = {}
        /\ ends[1] \cap ends[5] = {} /\ ends[2] \cap ends[3] = {} /\ ends[2] \cap ends[4] = {}
        /\ ends[2] \cap ends[5] = {} /\ ends[3] \cap ends[4] = {} /\ ends[3] \cap ends[5] = {}
        /\ ends[4] \cap ends[5] = {}
    BY <1>3 DEF Parts
  <2> QED BY <1>2, <1>6, <2>1
<1> QED BY <1>2, <1>5, <1>6 DEF JobsAccountedFor, ends

LEMMA TailOfJobs ==
  ASSUME NEW s \in Seq(Job), Apart(s), s # <<>>
  PROVE  /\ Tail(s) \in Seq(Job) /\ Apart(Tail(s)) /\ Head(s) = s[1] /\ 1 \in 1 .. Len(s)
         /\ NumbersOf(Tail(s)) = NumbersOf(s) \ {s[1].number}
         /\ \A i \in 1 .. Len(Tail(s)) : i + 1 \in 1 .. Len(s) /\ i + 1 # 1 /\ Tail(s)[i] = s[i + 1]
<1>1. /\ Head(s) = s[1] /\ 1 \in 1 .. Len(s) /\ Tail(s) \in Seq(Job) /\ Len(Tail(s)) = Len(s) - 1
      /\ \A i \in 1 .. Len(s) - 1 : Tail(s)[i] = s[i + 1]
  BY TailShifts
<1>2. Len(s) \in Nat
  OBVIOUS
<1> DEFINE k == Tail(s)
<1> HIDE DEF k
<1>3. \A i \in 1 .. Len(k) : i + 1 \in 1 .. Len(s) /\ i + 1 # 1 /\ k[i] = s[i + 1]
  BY <1>1, <1>2 DEF k
<1>4. ASSUME NEW i \in 1 .. Len(k), NEW j \in 1 .. Len(k), k[i].number = k[j].number PROVE i = j
  <2>1. i + 1 = j + 1
    BY <1>3, <1>4 DEF Apart
  <2> QED BY <2>1
<1>5. ASSUME NEW i \in 1 .. Len(k) PROVE k[i].number \in NumbersOf(s) \ {s[1].number}
  BY <1>1, <1>3 DEF Apart, NumbersOf
<1>6. ASSUME NEW i \in 1 .. Len(s), s[i].number # s[1].number PROVE s[i].number \in NumbersOf(k)
  <2>1. i # 1
    BY <1>6
  <2>2. i - 1 \in 1 .. Len(k) /\ (i - 1) + 1 = i
    BY <1>1, <1>2, <2>1 DEF k
  <2>3. k[i - 1] = s[i]
    BY <1>3, <2>2
  <2> QED BY <2>2, <2>3 DEF NumbersOf
<1>7. NumbersOf(k) = NumbersOf(s) \ {s[1].number}
  BY <1>5, <1>6 DEF NumbersOf
<1> QED BY <1>1, <1>3, <1>4, <1>7 DEF Apart, k

\* What cancel() forgets and what it keeps.
LEMMA CancelledAreOut ==
  ASSUME NEW name, jobs \in Seq(Job), Apart(jobs)
  PROVE  LET out == {job.number : job \in Under(name)} IN
         /\ Without(name) \in Seq(Job) /\ Apart(Without(name))
         /\ NumbersOf(Without(name)) = NumbersOf(jobs) \ out
         /\ out \subseteq NumbersOf(jobs)
<1> DEFINE out == {job.number : job \in Under(name)}
           S == ToSet(jobs) \ Under(name)
<1>1. Without(name) = Among(jobs, S)
  BY NumbersAgree DEF Without
<1>2. /\ Among(jobs, S) \in Seq(Job) /\ Apart(Among(jobs, S))
      /\ NumbersOf(Among(jobs, S)) = {jobs[i].number : i \in {i \in 1 .. Len(jobs) : jobs[i] \in S}}
  BY SomeOfTheJobs
<1>3. \A job \in Under(name) : \E i \in 1 .. Len(jobs) : job = jobs[i]
  BY NumbersAgree DEF Under
<1>4. \A i \in 1 .. Len(jobs) : jobs[i] \in S <=> jobs[i] \notin Under(name)
  BY NumbersAgree
<1> HIDE DEF S
<1>5. out \subseteq NumbersOf(jobs)
  BY <1>3 DEF NumbersOf
<1>6. ASSUME NEW i \in 1 .. Len(jobs), jobs[i] \in S PROVE jobs[i].number \notin out
  <2> SUFFICES ASSUME NEW job \in Under(name), job.number = jobs[i].number PROVE FALSE
    OBVIOUS
  <2>1. PICK j \in 1 .. Len(jobs) : job = jobs[j]
    BY <1>3
  <2>2. i = j
    BY <2>1 DEF Apart
  <2> QED BY <1>4, <1>6, <2>1, <2>2
<1>7. ASSUME NEW i \in 1 .. Len(jobs), jobs[i] \notin S PROVE jobs[i].number \in out
  BY <1>4, <1>7
<1> HIDE DEF out
<1>8. NumbersOf(Among(jobs, S)) = NumbersOf(jobs) \ out
  <2>1. ASSUME NEW n \in NumbersOf(Among(jobs, S)) PROVE n \in NumbersOf(jobs) \ out
    BY <1>2, <1>6, <2>1 DEF NumbersOf
  <2>2. ASSUME NEW n \in NumbersOf(jobs) \ out PROVE n \in NumbersOf(Among(jobs, S))
    <3>1. PICK i \in 1 .. Len(jobs) : n = jobs[i].number
      BY <2>2 DEF NumbersOf
    <3> QED BY <1>2, <1>7, <2>2, <3>1
  <2> QED BY <2>1, <2>2
<1> QED BY <1>1, <1>2, <1>5, <1>8 DEF out

LEMMA JobsStay == HostSpec => []JobsInv
<1>1. HostInit => JobsInv
  <2> SUFFICES ASSUME HostInit PROVE JobsInv
    OBVIOUS
  <2>1. /\ jobs = <<>> /\ due = <<>> /\ now = 0 /\ minted = 0 /\ acting = FALSE /\ ran = {} /\ withdrawn = {} /\ lost = {}
    BY DEF HostInit
  <2>2. <<>> \in Seq(Job) /\ Len(<<>>) = 0 /\ 1 .. 0 = {}
    OBVIOUS
  <2>3. Apart(<<>>) /\ NumbersOf(<<>>) = {}
    BY <2>2 DEF Apart, NumbersOf
  <2>4. Parts(NumbersOf(jobs), NumbersOf(due), ran, withdrawn, lost, minted)
    BY <2>1, <2>2, <2>3 DEF Parts
  <2>5. Apart(jobs) /\ Apart(due) /\ jobs \in Seq(Job) /\ due \in Seq(Job)
    BY <2>1, <2>2, <2>3
  <2>6. \A i \in 1 .. Len(due) : due[i].number \in ran <=> i = 1 /\ acting
    <3>1. \A i \in 1 .. Len(due) : FALSE
      BY <2>1
    <3> QED BY <3>1
  <2>7. now \in Int /\ minted \in Nat
    BY <2>1
  <2>8. acting \in BOOLEAN /\ ~acting
    BY <2>1
  <2> QED BY <2>4, <2>5, <2>6, <2>7, <2>8 DEF JobsInv
<1>2. ASSUME JobsInv, [HostNext]_hostVars PROVE JobsInv'
  <2> DEFINE J == NumbersOf(jobs)
             D == NumbersOf(due)
  <2>1. /\ jobs \in Seq(Job) /\ due \in Seq(Job) /\ now \in Int /\ minted \in Nat /\ acting \in BOOLEAN
        /\ Apart(jobs) /\ Apart(due)
        /\ \A i \in 1 .. Len(due) : due[i].number \in ran <=> i = 1 /\ acting
        /\ due = <<>> => ~acting
        /\ Parts(J, D, ran, withdrawn, lost, minted)
    BY <1>2 DEF JobsInv
  <2>2. CASE UNCHANGED <<now, scheduler>>
    BY <2>1, <2>2 DEF JobsInv, scheduler
  <2>3. ASSUME NEW name \in JobNames, NEW delay \in Delays, Schedule(name, delay) PROVE JobsInv'
    <3> DEFINE out == {job.number : job \in Under(name)}
               job == [number |-> minted + 1, name |-> name, due_at |-> Moment(delay)]
               W == Without(name)
    <3>1. /\ minted' = minted + 1 /\ jobs' = Insert(job, W)
          /\ withdrawn' = withdrawn \cup out /\ UNCHANGED <<now, due, acting, ran, lost>>
      BY <2>3 DEF Schedule, Cancelled
    <3>2. /\ W \in Seq(Job) /\ Apart(W) /\ NumbersOf(W) = J \ out /\ out \subseteq J
      BY <2>1, CancelledAreOut
    <3>3. job \in Job
      <4>1. Moment(delay) \in Int /\ minted + 1 \in Nat
        BY <1>2, <2>1, WiringAssumption DEF Moment
      <4> QED BY <4>1 DEF Job
    <3>4. minted + 1 \notin 1 .. minted /\ 1 .. minted + 1 = 1 .. minted \cup {minted + 1} /\ minted + 1 \in Nat
      BY <2>1
    <3> HIDE DEF J, D, out, W
    <3>5. minted + 1 \notin J /\ minted + 1 \notin D \ ran /\ minted + 1 \notin ran /\ minted + 1 \notin withdrawn /\ minted + 1 \notin lost
      BY <2>1, <3>4 DEF Parts
    <3>6. job.number = minted + 1 /\ job.number \notin NumbersOf(W)
      BY <3>2, <3>5
    <3> HIDE DEF job
    <3>7. /\ jobs' \in Seq(Job) /\ Apart(jobs')
          /\ NumbersOf(jobs') = (J \ out) \cup {minted + 1}
      BY <3>1, <3>2, <3>3, <3>6, InsertedIsIn
    <3>8. Parts((J \ out) \cup {minted + 1}, D, ran, withdrawn \cup out, lost, minted + 1)
      BY <2>1, <3>2, <3>4, <3>5 DEF Parts
    <3>9. Parts(NumbersOf(jobs'), NumbersOf(due'), ran', withdrawn', lost', minted')
      BY <3>1, <3>7, <3>8 DEF D
    <3> QED BY <2>1, <3>1, <3>4, <3>7, <3>9 DEF JobsInv
  <2>4. ASSUME NEW name \in JobNames, Cancel(name) PROVE JobsInv'
    <3> DEFINE out == {job.number : job \in Under(name)}
               W == Without(name)
    <3>1. /\ jobs' = W /\ withdrawn' = withdrawn \cup out /\ UNCHANGED <<now, due, acting, ran, lost, minted>>
      BY <2>4 DEF Cancel, Cancelled
    <3>2. /\ W \in Seq(Job) /\ Apart(W) /\ NumbersOf(W) = J \ out /\ out \subseteq J
      BY <2>1, CancelledAreOut
    <3> HIDE DEF J, D, out, W
    <3>3. Parts(J \ out, D, ran, withdrawn \cup out, lost, minted)
      BY <2>1, <3>2 DEF Parts
    <3>4. Parts(NumbersOf(jobs'), NumbersOf(due'), ran', withdrawn', lost', minted')
      BY <3>1, <3>2, <3>3 DEF D
    <3> QED BY <2>1, <3>1, <3>2, <3>4 DEF JobsInv
  <2>5. CASE RunPending
    <3> DEFINE U == Until(now, jobs)
               V == After(now, jobs)
    <3>1. /\ due = <<>> /\ due' = Among(jobs, U) /\ jobs' = Among(jobs, V)
          /\ UNCHANGED <<now, acting, minted, ran, withdrawn, lost>>
      BY <2>1, <2>5, NumbersAgree DEF RunPending
    <3>2. /\ due' \in Seq(Job) /\ Apart(due')
          /\ NumbersOf(due') = {jobs[i].number : i \in {i \in 1 .. Len(jobs) : jobs[i] \in U}}
      BY <2>1, <3>1, SomeOfTheJobs
    <3>3. /\ jobs' \in Seq(Job) /\ Apart(jobs')
          /\ NumbersOf(jobs') = {jobs[i].number : i \in {i \in 1 .. Len(jobs) : jobs[i] \in V}}
      BY <2>1, <3>1, SomeOfTheJobs
    <3>4. /\ \A i \in 1 .. Len(jobs) : jobs[i] \in U \/ jobs[i] \in V
          /\ U \cap V = {}
      <4>1. \A i \in 1 .. Len(jobs) : jobs[i] \in Job
        BY <2>1
      <4>2. \A i \in 1 .. Len(jobs) : jobs[i].due_at \in Int
        BY <4>1 DEF Job
      <4>2a. \A t \in Int : (t <= now \/ t > now) /\ ~(t <= now /\ t > now)
        BY <2>1
      <4>3. /\ \A i \in 1 .. Len(jobs) : jobs[i].due_at <= now \/ jobs[i].due_at > now
            /\ \A i \in 1 .. Len(jobs) : ~(jobs[i].due_at <= now /\ jobs[i].due_at > now)
        BY <4>2, <4>2a
      <4>4. U = {job \in {jobs[i] : i \in 1 .. Len(jobs)} : job.due_at <= now}
        BY <2>1, NumbersAgree DEF Until
      <4>5. V = {job \in {jobs[i] : i \in 1 .. Len(jobs)} : job.due_at > now}
        BY <2>1, NumbersAgree DEF After
      <4> HIDE DEF U, V
      <4>6. \A i \in 1 .. Len(jobs) : jobs[i] \in U \/ jobs[i] \in V
        BY <4>3, <4>4, <4>5
      <4>7. U \cap V = {}
        BY <4>3, <4>4, <4>5
      <4> QED BY <4>6, <4>7
    <3> HIDE DEF U, V
    <3>5. NumbersOf(jobs') \cup NumbersOf(due') = J
      <4>1. ASSUME NEW n \in J PROVE n \in NumbersOf(jobs') \cup NumbersOf(due')
        <5>1. PICK i \in 1 .. Len(jobs) : n = jobs[i].number
          BY <4>1 DEF NumbersOf
        <5>2. CASE jobs[i] \in U
          BY <3>2, <5>1, <5>2
        <5>3. CASE jobs[i] \in V
          BY <3>3, <5>1, <5>3
        <5> QED BY <3>4, <5>2, <5>3
      <4>2. NumbersOf(jobs') \subseteq J
        BY <3>3 DEF NumbersOf
      <4>3. NumbersOf(due') \subseteq J
        BY <3>2 DEF NumbersOf
      <4> QED BY <4>1, <4>2, <4>3
    <3>6. NumbersOf(jobs') \cap NumbersOf(due') = {}
      <4> SUFFICES ASSUME NEW i \in 1 .. Len(jobs), jobs[i] \in U,
                          NEW j \in 1 .. Len(jobs), jobs[j] \in V, jobs[i].number = jobs[j].number
                   PROVE  FALSE
        BY <3>2, <3>3
      <4>1. i = j
        BY <2>1 DEF Apart
      <4> QED BY <3>4, <4>1
    <3>7. D = {}
      BY <3>1 DEF NumbersOf
    <3> HIDE DEF J, D
    <3>8. Parts(NumbersOf(jobs'), NumbersOf(due'), ran, withdrawn, lost, minted)
      BY <2>1, <3>5, <3>6, <3>7 DEF Parts
    <3>9. \A i \in 1 .. Len(due') : due'[i].number \notin ran
      <4>1. \A i \in 1 .. Len(due') : due'[i].number \in J
        BY <3>5 DEF NumbersOf
      <4> QED BY <2>1, <4>1 DEF Parts
    <3> QED BY <2>1, <3>1, <3>2, <3>3, <3>8, <3>9 DEF JobsInv
  <2>6. CASE RunJob
    <3>1. /\ due # <<>> /\ ~acting /\ acting' = TRUE /\ ran' = ran \cup {Head(due).number}
          /\ UNCHANGED <<now, jobs, due, minted, withdrawn, lost>>
      BY <2>6 DEF RunJob
    <3>2. Head(due) = due[1] /\ 1 \in 1 .. Len(due)
      BY <2>1, <3>1, TailOfJobs
    <3>3. due[1].number \in D \ ran
      BY <2>1, <3>1, <3>2 DEF NumbersOf
    <3>4. \A i \in 1 .. Len(due) : due[i].number \in ran' <=> i = 1
      BY <2>1, <3>1, <3>2 DEF Apart
    <3> HIDE DEF J, D
    <3>5. Parts(J, D, ran \cup {due[1].number}, withdrawn, lost, minted)
      BY <2>1, <3>3 DEF Parts
    <3> QED BY <2>1, <3>1, <3>2, <3>4, <3>5 DEF JobsInv, J, D
  <2>7. CASE JobReturns \/ JobRaises
    <3>1. acting /\ acting' = FALSE /\ UNCHANGED <<now, jobs, minted, ran, withdrawn>> /\ due # <<>>
      BY <2>1, <2>7 DEF JobReturns, JobRaises
    <3>2. /\ Tail(due) \in Seq(Job) /\ Apart(Tail(due)) /\ 1 \in 1 .. Len(due)
          /\ NumbersOf(Tail(due)) = D \ {due[1].number}
          /\ \A i \in 1 .. Len(Tail(due)) : i + 1 \in 1 .. Len(due) /\ i + 1 # 1 /\ Tail(due)[i] = due[i + 1]
      BY <2>1, <3>1, TailOfJobs
    <3>3. D \ {due[1].number} = D \ ran
      <4>1. due[1].number \in ran
        BY <2>1, <3>1, <3>2
      <4>2. ASSUME NEW n \in D, n \in ran PROVE n = due[1].number
        BY <2>1, <4>2 DEF NumbersOf
      <4> QED BY <4>1, <4>2
    <3> HIDE DEF J, D
    <3>4. CASE JobReturns
      <4>1. due' = Tail(due) /\ lost' = lost
        BY <3>4 DEF JobReturns
      <4>2. Parts(J, D \ ran, ran, withdrawn, lost, minted)
        BY <2>1 DEF Parts
      <4>3. Parts(NumbersOf(jobs'), NumbersOf(due'), ran', withdrawn', lost', minted')
        BY <3>1, <3>2, <3>3, <4>1, <4>2 DEF J
      <4>4. \A i \in 1 .. Len(due') : due'[i].number \notin ran
        BY <2>1, <3>2, <4>1
      <4> QED BY <2>1, <3>1, <3>2, <4>1, <4>3, <4>4 DEF JobsInv
    <3>5. CASE JobRaises
      <4>1. due' = <<>> /\ lost' = lost \cup Numbers(Tail(due))
        BY <3>5 DEF JobRaises
      <4>2. lost' = lost \cup (D \ ran)
        BY <3>2, <3>3, <4>1, NumbersAgree
      <4>3. Parts(J, {}, ran, withdrawn, lost \cup (D \ ran), minted)
        BY <2>1 DEF Parts
      <4>4. <<>> \in Seq(Job) /\ Len(<<>>) = 0 /\ 1 .. 0 = {}
        OBVIOUS
      <4>5. Apart(<<>>) /\ NumbersOf(<<>>) = {}
        BY <4>4 DEF Apart, NumbersOf
      <4>6. Parts(NumbersOf(jobs'), NumbersOf(due'), ran', withdrawn', lost', minted')
        BY <3>1, <4>1, <4>2, <4>3, <4>5 DEF J
      <4> QED BY <2>1, <3>1, <4>1, <4>4, <4>5, <4>6 DEF JobsInv
    <3> QED BY <2>7, <3>4, <3>5
  <2>8. CASE Tick
    <3>1. now' \in Int /\ UNCHANGED scheduler
      BY <2>1, <2>8 DEF Tick
    <3> QED BY <2>1, <3>1 DEF JobsInv, scheduler
  <2>9. CASE \/ \E name \in EventNames \cup {Wildcard}, handler \in Handlers : Subscribe(name, handler)
             \/ \E name \in EventNames : Publish(name)
             \/ CallHandler \/ HandlerReturns \/ HandlerRaises \/ LetterUnwritten \/ PublishReturns
             \/ UNCHANGED hostVars
    BY <2>2, <2>9 DEF Subscribe, Publish, CallHandler, HandlerReturns, HandlerRaises,
                      LetterUnwritten, PublishReturns, hostVars
  <2> QED BY <1>2, <2>3, <2>4, <2>5, <2>6, <2>7, <2>8, <2>9 DEF HostNext
<1>3. JobsInv /\ [HostNext]_hostVars => JobsInv'
  BY <1>2
<1> QED BY <1>1, <1>3, PTL DEF HostSpec

\* Whatever jobs and handlers schedule, cancel, publish and raise, and however many: each job
\* ever scheduled waits, is about to run, or has met one end (scheduler/__init__.py).
THEOREM JobsAlwaysAccountedFor == HostSpec => []JobsAccountedFor
<1>1. JobsInv => JobsAccountedFor
  BY PartsAreEnds DEF JobsInv
<1> QED BY <1>1, JobsStay, PTL

-----------------------------------------------------------------------------
(* Events, each delivered to a handler once. *)

Delivery == [event : Nat, passed : Nat, failures : Int, trying : BOOLEAN]
Letters == Nat \X Handlers

Once(s) == \A i, j \in 1 .. Len(s) : s[i] = s[j] => i = j
Holds(s, x) == \E i \in 1 .. Len(s) : s[i] = x

\* Publishes in progress: each of an event of its own, none past its audience.
Nested(ds, rows) ==
  /\ ds \in Seq(Delivery)
  /\ \A k \in 1 .. Len(ds) :
       /\ ds[k].event \in 1 .. Len(rows)
       /\ ds[k].passed <= Len(rows[ds[k].event])
       /\ ds[k].trying => ds[k].passed < Len(rows[ds[k].event])
  /\ \A k, l \in 1 .. Len(ds) : ds[k].event = ds[l].event => k = l

Open(ds, e) == \E k \in 1 .. Len(ds) : ds[k].event = e
Awaits(ds, e, i) == \E k \in 1 .. Len(ds) : ds[k].event = e /\ ds[k].passed < i

Subscriptions ==
  /\ handlers \in [EventNames \cup {Wildcard} -> Seq(Handlers)]
  /\ \A m, n \in EventNames \cup {Wildcard} :
       \A i \in 1 .. Len(handlers[m]), j \in 1 .. Len(handlers[n]) :
         handlers[m][i] = handlers[n][j] => m = n /\ i = j

\* A handler that still waits, or is behind an unwritten letter, has neither heard the
\* event nor left a letter; any other has done one of the two.
Settled(e, i) ==
  LET letter == <<e, history[e][i]>>
  IN  IF Awaits(deliveries, e, i) \/ CutOff(e, i)
      THEN letter \notin heard /\ ~Holds(dead, letter)
      ELSE letter \in heard <=> ~Holds(dead, letter)

BusInv ==
  /\ Subscriptions
  /\ history \in Seq(Seq(Handlers)) /\ \A e \in 1 .. Len(history) : Once(history[e])
  /\ Nested(deliveries, history)
  /\ dead \in Seq(Letters) /\ Once(dead) /\ heard \subseteq Letters /\ unfiled \subseteq Letters
  /\ \A n \in 1 .. Len(dead) : dead[n][1] <= Len(history)
  /\ \A letter \in heard \cup unfiled : letter[1] <= Len(history)
  /\ \A e \in 1 .. Len(history) : Open(deliveries, e) => \A h : <<e, h>> \notin unfiled
  /\ \A e \in 1 .. Len(history) : \A i \in 1 .. Len(history[e]) : Settled(e, i)

\* What is known of the innermost delivery.
LEMMA Innermost ==
  ASSUME NEW ds, NEW rows, Nested(ds, rows), ds # <<>>
  PROVE  LET n == Len(ds) IN
         /\ ds \in Seq(Delivery) /\ n \in 1 .. n /\ ds[n] \in Delivery
         /\ ds[n].event \in 1 .. Len(rows) /\ ds[n].passed <= Len(rows[ds[n].event])
         /\ ds[n].trying => ds[n].passed < Len(rows[ds[n].event])
         /\ Open(ds, ds[n].event)
         /\ \A i : Awaits(ds, ds[n].event, i) <=> ds[n].passed < i
<1> DEFINE n == Len(ds)
<1>1. ds \in Seq(Delivery) /\ n \in 1 .. n /\ ds[n] \in Delivery
  BY DEF Nested
<1>2. \A k \in 1 .. n : ds[k].event = ds[n].event => k = n
  BY <1>1 DEF Nested
<1> QED BY <1>1, <1>2 DEF Nested, Open, Awaits

\* The innermost delivery becomes another of the same event.
LEMMA ReplacedOnTop ==
  ASSUME NEW ds, NEW rows, Nested(ds, rows), ds # <<>>,
         NEW d \in Delivery, d.event = ds[Len(ds)].event, d.passed <= Len(rows[d.event]),
         d.trying => d.passed < Len(rows[d.event])
  PROVE  LET new == [ds EXCEPT ![Len(ds)] = d] IN
         /\ Nested(new, rows)
         /\ \A e : Open(new, e) <=> Open(ds, e)
         /\ \A e, i : Awaits(new, e, i) <=>
                        \/ e = d.event /\ d.passed < i
                        \/ e # d.event /\ Awaits(ds, e, i)
<1> DEFINE n == Len(ds)
           new == [ds EXCEPT ![n] = d]
<1>1. ds \in Seq(Delivery) /\ n \in Nat /\ n \in 1 .. n
  BY Innermost
<1>2. /\ new \in Seq(Delivery) /\ Len(new) = n /\ new[n] = d
      /\ \A k \in 1 .. n : k # n => new[k] = ds[k]
  BY <1>1
<1> HIDE DEF n, new
<1>3. \A k, l \in 1 .. n : ds[k].event = ds[l].event => k = l
  BY DEF Nested, n
<1>4. \A k \in 1 .. n : new[k].event = ds[k].event
  BY <1>2 DEF n
<1>5. \A k \in 1 .. n : /\ new[k].event \in 1 .. Len(rows)
                        /\ new[k].passed <= Len(rows[new[k].event])
                        /\ new[k].trying => new[k].passed < Len(rows[new[k].event])
  <2> TAKE k \in 1 .. n
  <2>1. CASE k = n
    BY <1>1, <1>2, <2>1 DEF Nested, n
  <2>2. CASE k # n
    <3>1. new[k] = ds[k]
      BY <1>2, <2>2
    <3> QED BY <3>1 DEF Nested, n
  <2> QED BY <2>1, <2>2
<1>6. Nested(new, rows)
  <2>1. \A k, l \in 1 .. n : new[k].event = new[l].event => k = l
    BY <1>3, <1>4
  <2> QED BY <1>2, <1>5, <2>1 DEF Nested
<1>7. \A e : Open(new, e) <=> Open(ds, e)
  BY <1>2, <1>4 DEF Open, n
<1>8. ASSUME NEW e, NEW i
      PROVE  Awaits(new, e, i) <=> \/ e = d.event /\ d.passed < i
                                   \/ e # d.event /\ Awaits(ds, e, i)
  <2>1. CASE e = d.event
    <3>1. \A k \in 1 .. n : new[k].event = e => k = n
      BY <1>1, <1>3, <1>4, <2>1 DEF n
    <3> QED BY <1>1, <1>2, <2>1, <3>1 DEF Awaits
  <2>2. CASE e # d.event
    <3>1. \A k \in 1 .. n : new[k].event = e => new[k] = ds[k]
      BY <1>2, <2>2
    <3>2. \A k \in 1 .. n : ds[k].event = e => new[k] = ds[k]
      BY <1>2, <2>2 DEF n
    <3> QED BY <1>2, <2>2, <3>1, <3>2 DEF Awaits, n
  <2> QED BY <2>1, <2>2
<1> QED BY <1>6, <1>7, <1>8 DEF n, new

\* The innermost delivery ends.
LEMMA DropLast ==
  ASSUME NEW ds, NEW rows, Nested(ds, rows), ds # <<>>
  PROVE  LET gone == ds[Len(ds)].event IN
         /\ Nested(Front(ds), rows)
         /\ \A e : Open(Front(ds), e) <=> Open(ds, e) /\ e # gone
         /\ \A e, i : Awaits(Front(ds), e, i) <=> Awaits(ds, e, i) /\ e # gone
<1> DEFINE n == Len(ds)
           new == Front(ds)
<1>1. ds \in Seq(Delivery) /\ n \in Nat /\ n \in 1 .. n /\ n - 1 \in Nat
  BY DEF Nested
<1>2. new \in Seq(Delivery) /\ Len(new) = n - 1 /\ \A k \in 1 .. n - 1 : new[k] = ds[k]
  <2>1. new = SubSeq(ds, 1, n - 1)
    BY DEF Front
  <2>2. n - 1 <= Len(ds)
    BY <1>1
  <2> HIDE DEF new, n
  <2>3. new \in Seq(Delivery)
    BY <1>1, <2>1, <2>2
  <2>4. Len(new) = n - 1
    BY <1>1, <2>1, <2>2
  <2>5. \A k \in 1 .. n - 1 : new[k] = ds[k]
    BY <1>1, <2>1, <2>2
  <2> QED BY <2>3, <2>4, <2>5
<1> HIDE DEF new, n
<1>3. \A k \in 1 .. n - 1 : k \in 1 .. n /\ k # n
  BY <1>1
<1>4. \A k \in 1 .. n : k \in 1 .. n - 1 \/ k = n
  BY <1>1
<1>5. Nested(new, rows)
  BY <1>2, <1>3 DEF Nested, n
<1>6. \A k \in 1 .. n - 1 : ds[k].event # ds[n].event
  BY <1>1, <1>3 DEF Nested, n
<1>7. \A e : Open(new, e) <=> Open(ds, e) /\ e # ds[n].event
  BY <1>2, <1>3, <1>4, <1>6 DEF Open, n
<1>8. \A e, i : Awaits(new, e, i) <=> Awaits(ds, e, i) /\ e # ds[n].event
  BY <1>2, <1>3, <1>4, <1>6 DEF Awaits, n
<1> QED BY <1>5, <1>7, <1>8 DEF new, n

\* Who hears an event hears it once.
LEMMA AudienceIsOnce ==
  ASSUME Subscriptions, NEW name \in EventNames
  PROVE  Audience(name) \in Seq(Handlers) /\ Once(Audience(name))
<1> DEFINE a == handlers[name]
           b == handlers[Wildcard]
           c == a \o b
<1>1. a \in Seq(Handlers) /\ b \in Seq(Handlers) /\ name # Wildcard
  BY WiringAssumption DEF Subscriptions
<1>2. /\ \A i, j \in 1 .. Len(a) : a[i] = a[j] => i = j
      /\ \A i, j \in 1 .. Len(b) : b[i] = b[j] => i = j
      /\ \A i \in 1 .. Len(a), j \in 1 .. Len(b) : a[i] # b[j]
  BY <1>1 DEF Subscriptions
<1>0. Audience(name) = c
  BY DEF Audience
<1> HIDE DEF a, b
<1>3. c \in Seq(Handlers) /\ Len(c) = Len(a) + Len(b)
  BY <1>1, JoinedInOrder
<1>4. \A i \in 1 .. Len(a) : c[i] = a[i]
  BY <1>1, JoinedInOrder
<1>5. \A i \in 1 .. Len(b) : c[Len(a) + i] = b[i]
  BY <1>1, JoinedInOrder
<1>6. Len(a) \in Nat /\ Len(b) \in Nat
  BY <1>1
<1> HIDE DEF c
<1>7. \A i \in 1 .. Len(c) : i \in 1 .. Len(a) \/ \E j \in 1 .. Len(b) : i = Len(a) + j
  <2> SUFFICES ASSUME NEW i \in 1 .. Len(c), i \notin 1 .. Len(a) PROVE \E j \in 1 .. Len(b) : i = Len(a) + j
    OBVIOUS
  <2>1. i - Len(a) \in 1 .. Len(b) /\ i = Len(a) + (i - Len(a))
    BY <1>3, <1>6
  <2> QED BY <2>1
<1>8. ASSUME NEW i \in 1 .. Len(c), NEW j \in 1 .. Len(c), c[i] = c[j] PROVE i = j
  <2>1. CASE i \in 1 .. Len(a) /\ j \in 1 .. Len(a)
    BY <1>2, <1>4, <1>8, <2>1
  <2>2. CASE i \in 1 .. Len(a) /\ \E n \in 1 .. Len(b) : j = Len(a) + n
    BY <1>2, <1>4, <1>5, <1>8, <2>2
  <2>3. CASE j \in 1 .. Len(a) /\ \E n \in 1 .. Len(b) : i = Len(a) + n
    BY <1>2, <1>4, <1>5, <1>8, <2>3
  <2>4. ASSUME NEW m \in 1 .. Len(b), NEW n \in 1 .. Len(b), i = Len(a) + m, j = Len(a) + n PROVE i = j
    <3>1. c[i] = b[m] /\ c[j] = b[n]
      BY <1>5, <2>4
    <3>2. m = n
      BY <1>2, <1>8, <3>1
    <3> QED BY <2>4, <3>2
  <2> QED BY <1>7, <2>1, <2>2, <2>3, <2>4
<1> QED BY <1>0, <1>3, <1>8 DEF Once

\* One letter more.
LEMMA OneMore ==
  ASSUME NEW T, NEW s \in Seq(T), NEW x \in T
  PROVE  /\ Append(s, x) \in Seq(T) /\ Len(Append(s, x)) = Len(s) + 1 /\ Append(s, x)[Len(s) + 1] = x
         /\ \A i \in 1 .. Len(s) : i \in 1 .. Len(s) + 1 /\ Append(s, x)[i] = s[i]
         /\ \A i \in 1 .. Len(s) + 1 : i \in 1 .. Len(s) \/ i = Len(s) + 1
         /\ \A y : Holds(Append(s, x), y) <=> Holds(s, y) \/ y = x
         /\ Once(s) /\ ~Holds(s, x) => Once(Append(s, x))
<1> DEFINE k == Append(s, x)
           n == Len(s)
<1>1. n \in Nat /\ k \in Seq(T) /\ Len(k) = n + 1 /\ k[n + 1] = x /\ \A i \in 1 .. n : k[i] = s[i]
  OBVIOUS
<1> HIDE DEF k, n
<1>2. /\ \A i \in 1 .. n : i \in 1 .. n + 1 /\ i # n + 1
      /\ \A i \in 1 .. n + 1 : i \in 1 .. n \/ i = n + 1
      /\ n + 1 \in 1 .. n + 1
  BY <1>1
<1>3. \A y : Holds(k, y) <=> Holds(s, y) \/ y = x
  BY <1>1, <1>2 DEF Holds, n
<1>4. ASSUME Once(s), ~Holds(s, x) PROVE Once(k)
  BY <1>1, <1>2, <1>4 DEF Once, Holds, n
<1> QED BY <1>1, <1>2, <1>3, <1>4 DEF k, n

LEMMA EveryoneIsServed == HostSpec => []BusInv
<1>1. HostInit => BusInv
  <2> SUFFICES ASSUME HostInit PROVE BusInv
    OBVIOUS
  <2>1. /\ handlers = [name \in EventNames \cup {Wildcard} |-> <<>>]
        /\ history = <<>> /\ deliveries = <<>> /\ heard = {} /\ dead = <<>> /\ unfiled = {}
    BY DEF HostInit
  <2>2. Len(<<>>) = 0 /\ \A i \in 1 .. 0 : FALSE
    OBVIOUS
  <2>3. <<>> \in Seq(Handlers) /\ <<>> \in Seq(Seq(Handlers)) /\ <<>> \in Seq(Delivery) /\ <<>> \in Seq(Letters)
    OBVIOUS
  <2>4. Subscriptions
    <3>1. \A n \in EventNames \cup {Wildcard} : handlers[n] = <<>>
      BY <2>1
    <3>2. \A n \in EventNames \cup {Wildcard} : \A i \in 1 .. Len(handlers[n]) : FALSE
      BY <2>2, <3>1
    <3>3. handlers \in [EventNames \cup {Wildcard} -> Seq(Handlers)]
      BY <2>1, <2>3
    <3> QED BY <3>2, <3>3 DEF Subscriptions
  <2>5. \A rows : Nested(<<>>, rows)
    BY <2>2, <2>3 DEF Nested
  <2>6. Once(<<>>)
    BY <2>2 DEF Once
  <2>7. \A n \in 1 .. Len(dead) : FALSE
    BY <2>1, <2>2
  <2>8. \A n \in 1 .. Len(history) : FALSE
    BY <2>1, <2>2
  <2> QED BY <2>1, <2>3, <2>4, <2>5, <2>6, <2>7, <2>8 DEF BusInv
<1>2. ASSUME BusInv, [HostNext]_hostVars PROVE BusInv'
  <2> DEFINE ds == deliveries
             n == Len(ds)
             H == Len(history)
  <2>1. /\ Subscriptions /\ Nested(ds, history)
        /\ history \in Seq(Seq(Handlers)) /\ \A e \in 1 .. H : Once(history[e])
        /\ dead \in Seq(Letters) /\ Once(dead) /\ heard \subseteq Letters /\ unfiled \subseteq Letters
        /\ \A k \in 1 .. Len(dead) : dead[k][1] <= H
        /\ \A letter \in heard \cup unfiled : letter[1] <= H
    BY <1>2 DEF BusInv
  <2>2. \A e \in 1 .. H : Open(ds, e) => \A h : <<e, h>> \notin unfiled
    BY <1>2 DEF BusInv
  <2>3. \A e \in 1 .. H : \A i \in 1 .. Len(history[e]) : Settled(e, i)
    BY <1>2 DEF BusInv
  <2>4. H \in Nat /\ \A e \in 1 .. H : e \in Nat /\ history[e] \in Seq(Handlers) /\ Len(history[e]) \in Nat
    BY <2>1
  <2>5. \A e \in 1 .. H : \A i \in 1 .. Len(history[e]) : i \in Nat /\ history[e][i] \in Handlers
    BY <2>4
  <2>6. ASSUME UNCHANGED <<history, heard, dead, unfiled>>, Subscriptions', Nested(ds', history),
               \A e : Open(ds', e) => Open(ds, e), \A e, i : Awaits(ds', e, i) <=> Awaits(ds, e, i)
        PROVE  BusInv'
    <3>1. \A e, i : Settled(e, i)' <=> Settled(e, i)
      BY <2>6 DEF Settled, CutOff
    <3> QED BY <2>1, <2>2, <2>3, <2>6, <3>1 DEF BusInv
  <2>7. ASSUME Delivering
        PROVE  /\ ds # <<>> /\ ds \in Seq(Delivery) /\ n \in 1 .. n /\ Top = ds[n] /\ Top \in Delivery
               /\ Top.event \in 1 .. H /\ Top.passed <= Len(history[Top.event])
               /\ Top.trying => Top.passed < Len(history[Top.event])
               /\ Open(ds, Top.event)
               /\ \A i : Awaits(ds, Top.event, i) <=> Top.passed < i
    <3>1. ds # <<>> /\ Top = ds[n]
      BY <2>7 DEF Delivering, Top, Last
    <3> QED BY <2>1, <3>1, Innermost
  <2>8. ASSUME NEW name \in EventNames \cup {Wildcard}, NEW handler \in Handlers, Subscribe(name, handler)
        PROVE  BusInv'
    <3>1. /\ handlers' = [handlers EXCEPT ![name] = Append(@, handler)]
          /\ \A k \in DOMAIN handlers : handler \notin ToSet(handlers[k])
          /\ UNCHANGED <<history, deliveries, heard, dead, unfiled>>
      BY <2>8 DEF Subscribe
    <3>2. /\ handlers \in [EventNames \cup {Wildcard} -> Seq(Handlers)]
          /\ \A k, m \in EventNames \cup {Wildcard} :
               \A i \in 1 .. Len(handlers[k]), j \in 1 .. Len(handlers[m]) :
                 handlers[k][i] = handlers[m][j] => k = m /\ i = j
      BY <2>1 DEF Subscriptions
    <3>3. /\ handlers' \in [EventNames \cup {Wildcard} -> Seq(Handlers)]
          /\ handlers'[name] = Append(handlers[name], handler)
          /\ \A k \in EventNames \cup {Wildcard} : k # name => handlers'[k] = handlers[k]
      <4>1. handlers[name] \in Seq(Handlers)
        BY <3>2
      <4>2. Append(handlers[name], handler) \in Seq(Handlers)
        BY <4>1
      <4> QED BY <3>1, <3>2, <4>2
    <3>4. \A k \in EventNames \cup {Wildcard} : \A i \in 1 .. Len(handlers[k]) : handlers[k][i] # handler
      <4> SUFFICES ASSUME NEW k \in EventNames \cup {Wildcard}, NEW i \in 1 .. Len(handlers[k]), handlers[k][i] = handler
                   PROVE  FALSE
        OBVIOUS
      <4>1. handlers[k] \in Seq(Handlers) /\ k \in DOMAIN handlers
        BY <3>2
      <4>2. handlers[k][i] \in ToSet(handlers[k])
        BY <4>1 DEF ToSet
      <4> QED BY <3>1, <4>1, <4>2
    <3>5. \A k \in EventNames \cup {Wildcard} : \A i \in 1 .. Len(handlers'[k]) :
            \/ i \in 1 .. Len(handlers[k]) /\ handlers'[k][i] = handlers[k][i]
            \/ k = name /\ i = Len(handlers[name]) + 1 /\ handlers'[k][i] = handler
      <4> SUFFICES ASSUME NEW k \in EventNames \cup {Wildcard}, NEW i \in 1 .. Len(handlers'[k])
                   PROVE  \/ i \in 1 .. Len(handlers[k]) /\ handlers'[k][i] = handlers[k][i]
                          \/ k = name /\ i = Len(handlers[name]) + 1 /\ handlers'[k][i] = handler
        OBVIOUS
      <4>1. CASE k # name
        BY <3>3, <4>1
      <4>2. CASE k = name
        <5>1. handlers[name] \in Seq(Handlers)
          BY <3>2
        <5> QED BY <3>3, <4>2, <5>1, OneMore
      <4> QED BY <4>1, <4>2
    <3>6. \A k, m \in EventNames \cup {Wildcard} :
               \A i \in 1 .. Len(handlers'[k]), j \in 1 .. Len(handlers'[m]) :
                 handlers'[k][i] = handlers'[m][j] => k = m /\ i = j
      BY <3>2, <3>4, <3>5
    <3>7. Subscriptions'
      BY <3>3, <3>6 DEF Subscriptions
    <3> QED BY <2>1, <2>6, <3>1, <3>7
  <2>9. ASSUME NEW name \in EventNames, Publish(name) PROVE BusInv'
    <3> DEFINE a == Audience(name)
               d == [event |-> H + 1, passed |-> 0, failures |-> 0, trying |-> FALSE]
    <3>1. /\ history' = Append(history, a) /\ UNCHANGED <<handlers, heard, dead, unfiled>>
          /\ deliveries' = Append(ds, [event |-> Len(history'), passed |-> 0, failures |-> 0, trying |-> FALSE])
      BY <2>9 DEF Publish
    <3>2. a \in Seq(Handlers) /\ Once(a)
      BY <1>2, <2>1, AudienceIsOnce
    <3> HIDE DEF a
    <3>3. /\ history' \in Seq(Seq(Handlers)) /\ Len(history') = H + 1 /\ history'[H + 1] = a
          /\ \A e \in 1 .. H : history'[e] = history[e]
          /\ \A e \in 1 .. H + 1 : e \in 1 .. H \/ e = H + 1
      BY <2>1, <3>1, <3>2
    <3>4. deliveries' = Append(ds, d)
      BY <3>1, <3>3
    <3>5. d \in Delivery /\ d.event = H + 1 /\ d.passed = 0 /\ d.trying = FALSE
      BY <2>4 DEF Delivery
    <3>6. ds \in Seq(Delivery)
      BY <2>1 DEF Nested
    <3> HIDE DEF d, ds, H
    <3>7. /\ deliveries' \in Seq(Delivery) /\ Len(deliveries') = n + 1 /\ deliveries'[n + 1] = d
          /\ n + 1 \in 1 .. n + 1
          /\ \A k \in 1 .. n : k \in 1 .. n + 1 /\ deliveries'[k] = ds[k]
          /\ \A k \in 1 .. n + 1 : k \in 1 .. n \/ k = n + 1
      BY <3>4, <3>5, <3>6, OneMore
    <3>8. \A k \in 1 .. n : ds[k].event \in 1 .. H /\ ds[k].event \in 1 .. H + 1 /\ ds[k].event # H + 1
      <4>1. \A k \in 1 .. n : ds[k].event \in 1 .. H
        BY <2>1 DEF Nested, H
      <4> QED BY <2>4, <4>1
    <3> HIDE DEF n
    <3>9. Nested(deliveries', history')
      <4>1. H + 1 \in 1 .. H + 1 /\ Len(a) \in Nat
        BY <2>4, <3>2
      <4>2. \A k \in 1 .. n : /\ ds[k].passed <= Len(history[ds[k].event])
                              /\ ds[k].trying => ds[k].passed < Len(history[ds[k].event])
        BY <2>1 DEF Nested, n
      <4>3. \A k, l \in 1 .. n : ds[k].event = ds[l].event => k = l
        BY <2>1 DEF Nested, n
      <4>4. \A k \in 1 .. n + 1 : deliveries'[k].event \in 1 .. H + 1
        BY <3>5, <3>7, <3>8, <4>1
      <4>5. 0 <= Len(a)
        BY <4>1
      <4>6. \A k \in 1 .. n + 1 :
              /\ deliveries'[k].passed <= Len(history'[deliveries'[k].event])
              /\ deliveries'[k].trying => deliveries'[k].passed < Len(history'[deliveries'[k].event])
        BY <3>3, <3>5, <3>7, <3>8, <4>2, <4>5
      <4>7. \A k, l \in 1 .. n + 1 : deliveries'[k].event = deliveries'[l].event => k = l
        BY <3>5, <3>7, <3>8, <4>3
      <4> QED BY <3>3, <3>7, <4>4, <4>6, <4>7 DEF Nested
    <3>10. /\ \A e \in 1 .. H : Open(deliveries', e) <=> Open(ds, e)
           /\ \A e \in 1 .. H : \A i : Awaits(deliveries', e, i) <=> Awaits(ds, e, i)
           /\ \A i : 0 < i => Awaits(deliveries', H + 1, i)
      <4>1. \A e \in 1 .. H : e # H + 1
        BY <2>4
      <4> QED BY <3>5, <3>7, <4>1 DEF Open, Awaits, n
    <3>11. \A h : <<H + 1, h>> \notin heard /\ <<H + 1, h>> \notin unfiled /\ ~Holds(dead, <<H + 1, h>>)
      <4>1. ~(H + 1 <= H)
        BY <2>4
      <4>2. \A h : <<H + 1, h>>[1] = H + 1
        OBVIOUS
      <4>3. \A h : <<H + 1, h>> \notin heard /\ <<H + 1, h>> \notin unfiled
        BY <2>1, <4>1, <4>2 DEF H
      <4>4. \A h : ~Holds(dead, <<H + 1, h>>)
        BY <2>1, <4>1, <4>2 DEF Holds, H
      <4> QED BY <4>3, <4>4
    <3>12. \A k \in Nat : k <= H => k <= H + 1
      BY <2>4
    <3>13. \A k \in 1 .. Len(dead) : dead[k][1] <= H + 1
      <4>1. \A k \in 1 .. Len(dead) : dead[k] \in Letters
        BY <2>1
      <4>2. \A k \in 1 .. Len(dead) : dead[k][1] \in Nat
        BY <4>1 DEF Letters
      <4> QED BY <2>1, <3>12, <4>2 DEF H
    <3>14. \A letter \in heard \cup unfiled : letter[1] <= H + 1
      BY <2>1, <3>12 DEF Letters, H
    <3>15. ASSUME NEW e \in 1 .. H + 1, NEW i \in 1 .. Len(history'[e]) PROVE Settled(e, i)'
      <4>1. CASE e = H + 1
        <5>1. 0 < i
          OBVIOUS
        <5> QED BY <3>1, <3>10, <3>11, <4>1, <5>1 DEF Settled
      <4>2. CASE e \in 1 .. H
        <5>1. history'[e] = history[e] /\ Settled(e, i)
          BY <2>3, <3>3, <3>15, <4>2 DEF H
        <5>2. CutOff(e, i)' <=> CutOff(e, i)
          BY <3>1, <5>1 DEF CutOff
        <5>3. Awaits(deliveries', e, i) <=> Awaits(deliveries, e, i)
          BY <3>10, <4>2 DEF ds
        <5> QED BY <3>1, <5>1, <5>2, <5>3 DEF Settled
      <4> QED BY <3>3, <4>1, <4>2
    <3>16. \A e \in 1 .. H + 1 : Open(deliveries', e) => \A h : <<e, h>> \notin unfiled
      BY <2>2, <3>3, <3>10, <3>11 DEF H
    <3>17. \A e \in 1 .. H + 1 : Once(history'[e])
      BY <2>1, <3>2, <3>3 DEF H
    <3>18. Subscriptions'
      BY <2>1, <3>1 DEF Subscriptions
    <3>19. heard' = heard /\ dead' = dead /\ unfiled' = unfiled /\ Len(history') = H + 1
           /\ history' \in Seq(Seq(Handlers))
      BY <3>1, <3>3
    <3>20. \A e \in 1 .. H + 1 : \A i \in 1 .. Len(history'[e]) : Settled(e, i)'
      BY <3>15
    <3> QED BY <2>1, <3>9, <3>13, <3>14, <3>16, <3>17, <3>18, <3>19, <3>20 DEF BusInv
  <2>10. ASSUME NEW d \in Delivery, Delivering, d.event = Top.event, d.passed = Top.passed,
                d.trying => Waited, deliveries' = OnTop(d),
                UNCHANGED <<handlers, history, heard, dead, unfiled>>
         PROVE  BusInv'
    <3>1. /\ ds # <<>> /\ d.event = ds[n].event /\ d.passed <= Len(history[d.event])
          /\ d.trying => d.passed < Len(history[d.event])
      BY <2>7, <2>10 DEF Waited
    <3>2. deliveries' = [ds EXCEPT ![n] = d]
      BY <2>10 DEF OnTop
    <3>3. /\ Nested(deliveries', history)
          /\ \A e : Open(deliveries', e) <=> Open(ds, e)
          /\ \A e, i : Awaits(deliveries', e, i) <=>
                         \/ e = d.event /\ d.passed < i
                         \/ e # d.event /\ Awaits(ds, e, i)
      BY <2>1, <3>1, <3>2, ReplacedOnTop
    <3>4. \A e, i : Awaits(deliveries', e, i) <=> Awaits(ds, e, i)
      BY <2>7, <2>10, <3>3
    <3>5. Subscriptions'
      BY <2>1, <2>10 DEF Subscriptions
    <3> QED BY <2>6, <2>10, <3>3, <3>4, <3>5
  <2>11. CASE CallHandler
    <3> DEFINE d == [Top EXCEPT !.trying = TRUE]
    <3>1. /\ Delivering /\ Waited /\ deliveries' = OnTop(d)
          /\ UNCHANGED <<handlers, history, heard, dead, unfiled>>
      BY <2>11 DEF CallHandler
    <3>2. d \in Delivery /\ d.event = Top.event /\ d.passed = Top.passed
      BY <2>7, <3>1 DEF Delivery
    <3> HIDE DEF d
    <3> QED BY <2>10, <3>1, <3>2
  <2>12. CASE PublishReturns
    <3>1. /\ Delivering /\ ~Waited /\ deliveries' = Front(ds)
          /\ UNCHANGED <<handlers, history, heard, dead, unfiled>>
      BY <2>12 DEF PublishReturns
    <3>2. /\ Nested(deliveries', history)
          /\ \A e : Open(deliveries', e) <=> Open(ds, e) /\ e # Top.event
          /\ \A e, i : Awaits(deliveries', e, i) <=> Awaits(ds, e, i) /\ e # Top.event
      BY <2>1, <2>7, <3>1, DropLast
    <3>3. Top.passed \in Nat /\ Len(history[Top.event]) \in Nat
      BY <2>4, <2>7, <3>1 DEF Delivery
    <3>4. Top.passed = Len(history[Top.event])
      BY <2>7, <3>1, <3>3 DEF Waited
    <3>5. ASSUME NEW e \in 1 .. H, NEW i \in 1 .. Len(history[e])
          PROVE  Awaits(deliveries', e, i) <=> Awaits(ds, e, i)
      <4>1. CASE e = Top.event
        <5>1. ~(Top.passed < i)
          BY <2>4, <3>4, <4>1
        <5> QED BY <2>7, <3>1, <3>2, <4>1, <5>1
      <4>2. CASE e # Top.event
        BY <3>2, <4>2
      <4> QED BY <4>1, <4>2
    <3>6. ASSUME NEW e \in 1 .. H, NEW i \in 1 .. Len(history[e]) PROVE Settled(e, i)'
      <4>1. Settled(e, i) /\ (CutOff(e, i)' <=> CutOff(e, i))
        BY <2>3, <3>1 DEF CutOff
      <4> QED BY <3>1, <3>5, <4>1 DEF Settled
    <3>7. Subscriptions'
      BY <2>1, <3>1 DEF Subscriptions
    <3> QED BY <2>1, <2>2, <3>1, <3>2, <3>6, <3>7 DEF BusInv
  <2>13. ASSUME Delivering, Top.trying
         PROVE  LET e == Top.event
                    p == Top.passed + 1
                    new == OnTop(Done(Top))
                IN  /\ Letter \in Letters /\ Letter[1] <= H /\ Letter \notin heard /\ ~Holds(dead, Letter)
                    /\ e \in 1 .. H /\ p \in 1 .. Len(history[e])
                    /\ Letter = <<e, history[e][p]>> /\ \A h : <<e, h>> \notin unfiled
                    /\ \A f \in 1 .. H : \A i \in 1 .. Len(history[f]) :
                         <<f, history[f][i]>> = Letter <=> f = e /\ i = p
                    /\ \A i \in Nat : Awaits(ds, e, i) <=> p <= i
                    /\ Nested(new, history)
                    /\ \A f : Open(new, f) <=> Open(ds, f)
                    /\ \A f : \A i \in Nat : Awaits(new, f, i) <=>
                         (f = e /\ p < i) \/ (f # e /\ Awaits(ds, f, i))
    <3> DEFINE top == Top
               e == top.event
               p == top.passed + 1
               d == Done(top)
               new == OnTop(d)
    <3>1. /\ ds # <<>> /\ top = ds[n] /\ top \in Delivery /\ e \in 1 .. H
          /\ top.passed < Len(history[e]) /\ Open(ds, e)
          /\ \A i : Awaits(ds, e, i) <=> top.passed < i
      BY <2>7, <2>13
    <3>2. Letter = <<e, history[e][p]>>
      BY DEF Letter
    <3> HIDE DEF top
    <3>3. e \in Nat /\ e <= H /\ top.passed \in Nat /\ Len(history[e]) \in Nat /\ history[e] \in Seq(Handlers)
      BY <2>4, <3>1 DEF Delivery
    <3>4. p \in 1 .. Len(history[e]) /\ p \in Nat
      BY <3>1, <3>3
    <3>5. \A i \in Nat : Awaits(ds, e, i) <=> p <= i
      BY <3>1, <3>3
    <3>6. \A h : <<e, h>> \notin unfiled
      BY <2>2, <3>1
    <3>7. Settled(e, p) /\ Awaits(ds, e, p)
      BY <2>3, <3>1, <3>4, <3>5
    <3>8. Letter \notin heard /\ ~Holds(dead, Letter)
      BY <3>2, <3>7 DEF Settled
    <3>9. Letter \in Letters /\ Letter[1] <= H
      <4>1. history[e][p] \in Handlers
        BY <2>5, <3>1, <3>4
      <4> QED BY <3>2, <3>3, <4>1 DEF Letters
    <3>10. ASSUME NEW f \in 1 .. H, NEW i \in 1 .. Len(history[f])
           PROVE  <<f, history[f][i]>> = Letter <=> f = e /\ i = p
      <4>1. <<f, history[f][i]>> = Letter <=> f = e /\ history[f][i] = history[e][p]
        BY <3>2
      <4>2. Once(history[e])
        BY <2>1, <3>1
      <4>3. CASE f = e
        BY <3>4, <4>1, <4>2, <4>3 DEF Once
      <4> QED BY <4>1, <4>3
    <3>11. d \in Delivery /\ d.event = e /\ d.passed = p /\ d.trying = FALSE
      <4>1. d = [top EXCEPT !.passed = p, !.failures = 0, !.trying = FALSE]
        BY DEF Done
      <4>2. top = [event |-> top.event, passed |-> top.passed, failures |-> top.failures, trying |-> top.trying]
        BY <3>1 DEF Delivery
      <4>3. d = [event |-> e, passed |-> p, failures |-> 0, trying |-> FALSE]
        BY <4>1, <4>2
      <4> HIDE DEF d, p, e
      <4> QED BY <3>3, <3>4, <4>3 DEF Delivery
    <3>12. new = [ds EXCEPT ![n] = d]
      BY DEF OnTop
    <3>13. d.event = ds[n].event /\ d.passed <= Len(history[d.event])
      BY <3>1, <3>4, <3>11
    <3> HIDE DEF d, new, p, e
    <3>14. /\ Nested(new, history)
           /\ \A f : Open(new, f) <=> Open(ds, f)
           /\ \A f, i : Awaits(new, f, i) <=> \/ f = d.event /\ d.passed < i
                                              \/ f # d.event /\ Awaits(ds, f, i)
      BY <2>1, <3>1, <3>11, <3>12, <3>13, ReplacedOnTop
    <3> QED BY <3>1, <3>2, <3>4, <3>5, <3>6, <3>8, <3>9, <3>10, <3>11, <3>14 DEF top, e, p, d, new
  <2>14. CASE HandlerReturns
    <3> DEFINE e == Top.event
               p == Top.passed + 1
    <3>1. /\ Delivering /\ Top.trying /\ heard' = heard \cup {Letter} /\ deliveries' = OnTop(Done(Top))
          /\ UNCHANGED <<handlers, history, dead, unfiled>>
      BY <2>14 DEF HandlerReturns
    <3>2. /\ Letter \in Letters /\ Letter[1] <= H /\ Letter \notin heard /\ ~Holds(dead, Letter)
          /\ e \in 1 .. H /\ p \in 1 .. Len(history[e])
          /\ Letter = <<e, history[e][p]>> /\ \A h : <<e, h>> \notin unfiled
          /\ \A f \in 1 .. H : \A i \in 1 .. Len(history[f]) :
               <<f, history[f][i]>> = Letter <=> f = e /\ i = p
          /\ \A i \in Nat : Awaits(ds, e, i) <=> p <= i
          /\ Nested(OnTop(Done(Top)), history)
          /\ \A f : Open(OnTop(Done(Top)), f) <=> Open(ds, f)
      BY <2>13, <3>1
    <3>3. p \in Nat
      BY <2>4, <3>2
    <3>4. \A f : \A i \in Nat : Awaits(OnTop(Done(Top)), f, i) <=>
                         (f = e /\ p < i) \/ (f # e /\ Awaits(ds, f, i))
      BY <2>13, <3>1
    <3> HIDE DEF e, p
    <3>5. ASSUME NEW f \in 1 .. H, NEW i \in 1 .. Len(history[f]) PROVE Settled(f, i)'
      <4>1. Settled(f, i) /\ i \in Nat
        BY <2>3, <2>5
      <4>2. CutOff(f, i)' <=> CutOff(f, i)
        BY <3>1 DEF CutOff
      <4>3. CASE f = e /\ i = p
        <5>1. ~CutOff(f, i)
          BY <3>2, <4>3 DEF CutOff
        <5>3. ~(p < p)
          BY <3>3
        <5>4. ~Awaits(deliveries', f, i)
          BY <3>1, <3>3, <3>4, <4>3, <5>3
        <5>2. <<f, history[f][i]>> = Letter
          BY <3>2, <4>3
        <5> QED BY <3>1, <3>2, <4>2, <5>1, <5>2, <5>4 DEF Settled
      <4>4. CASE ~(f = e /\ i = p)
        <5>1. Awaits(deliveries', f, i) <=> Awaits(deliveries, f, i)
          BY <3>1, <3>2, <3>3, <3>4, <4>1, <4>4
        <5>2. <<f, history[f][i]>> # Letter
          BY <3>2, <4>4
        <5> QED BY <3>1, <4>1, <4>2, <5>1, <5>2 DEF Settled
      <4> QED BY <4>3, <4>4
    <3>6. \A f \in 1 .. H : \A i \in 1 .. Len(history[f]) : Settled(f, i)'
      BY <3>5
    <3>7. heard' \subseteq Letters /\ \A letter \in heard' \cup unfiled : letter[1] <= H
      BY <2>1, <3>1, <3>2
    <3>8. Subscriptions'
      BY <2>1, <3>1 DEF Subscriptions
    <3> QED BY <2>1, <2>2, <3>1, <3>2, <3>6, <3>7, <3>8 DEF BusInv
  <2>15. ASSUME Delivering, Top.trying, dead' = Append(dead, Letter)
         PROVE  /\ dead' \in Seq(Letters) /\ Once(dead')
                /\ \A y : Holds(dead', y) <=> Holds(dead, y) \/ y = Letter
                /\ \A i \in 1 .. Len(dead') : dead'[i][1] <= H
    <3>1. Letter \in Letters /\ Letter[1] <= H /\ ~Holds(dead, Letter)
      BY <2>13, <2>15
    <3>2. /\ dead' \in Seq(Letters) /\ Len(dead') = Len(dead) + 1 /\ dead'[Len(dead) + 1] = Letter
          /\ \A i \in 1 .. Len(dead) : dead'[i] = dead[i]
          /\ \A i \in 1 .. Len(dead) + 1 : i \in 1 .. Len(dead) \/ i = Len(dead) + 1
          /\ \A y : Holds(dead', y) <=> Holds(dead, y) \/ y = Letter
          /\ Once(dead')
      BY <2>1, <2>15, <3>1, OneMore
    <3>3. \A i \in 1 .. Len(dead') : dead'[i][1] <= H
      BY <2>1, <3>1, <3>2
    <3> QED BY <3>2, <3>3
  <2>16. CASE HandlerRaises
    <3> DEFINE e == Top.event
               p == Top.passed + 1
    <3>1. Delivering /\ Top.trying /\ UNCHANGED <<handlers, history, heard, unfiled>>
      BY <2>16 DEF HandlerRaises
    <3>2. /\ Letter \in Letters /\ Letter[1] <= H /\ Letter \notin heard /\ ~Holds(dead, Letter)
          /\ e \in 1 .. H /\ p \in 1 .. Len(history[e])
          /\ Letter = <<e, history[e][p]>> /\ \A h : <<e, h>> \notin unfiled
          /\ \A f \in 1 .. H : \A i \in 1 .. Len(history[f]) :
               <<f, history[f][i]>> = Letter <=> f = e /\ i = p
          /\ \A i \in Nat : Awaits(ds, e, i) <=> p <= i
          /\ Nested(OnTop(Done(Top)), history)
          /\ \A f : Open(OnTop(Done(Top)), f) <=> Open(ds, f)
      BY <2>13, <3>1
    <3>3. p \in Nat
      BY <2>4, <3>2
    <3>4. \A f : \A i \in Nat : Awaits(OnTop(Done(Top)), f, i) <=>
                         (f = e /\ p < i) \/ (f # e /\ Awaits(ds, f, i))
      BY <2>13, <3>1
    <3>5. CASE Top.failures < MaxRetries
      <4> DEFINE d == [Top EXCEPT !.failures = @ + 1, !.trying = FALSE]
      <4>1. deliveries' = OnTop(d) /\ dead' = dead
        BY <2>16, <3>5 DEF HandlerRaises
      <4>2. d \in Delivery /\ d.event = Top.event /\ d.passed = Top.passed /\ d.trying = FALSE
        <5>1. Top \in Delivery
          BY <2>7, <3>1
        <5>2. Top.failures + 1 \in Int
          BY <5>1 DEF Delivery
        <5> QED BY <5>1, <5>2 DEF Delivery
      <4> HIDE DEF d
      <4> QED BY <2>10, <3>1, <4>1, <4>2
    <3>6. CASE ~(Top.failures < MaxRetries)
      <4>1. dead' = Append(dead, Letter) /\ deliveries' = OnTop(Done(Top))
        BY <2>16, <3>6 DEF HandlerRaises
      <4>2. /\ dead' \in Seq(Letters) /\ Once(dead')
            /\ \A y : Holds(dead', y) <=> Holds(dead, y) \/ y = Letter
            /\ \A i \in 1 .. Len(dead') : dead'[i][1] <= H
        BY <2>15, <3>1, <4>1
      <4> HIDE DEF e, p
      <4>3. ASSUME NEW f \in 1 .. H, NEW i \in 1 .. Len(history[f]) PROVE Settled(f, i)'
        <5>1. Settled(f, i) /\ i \in Nat
          BY <2>3, <2>5
        <5>2. CutOff(f, i)' <=> CutOff(f, i)
          BY <3>1 DEF CutOff
        <5>3. CASE f = e /\ i = p
          <6>1. ~CutOff(f, i)
            BY <3>2, <5>3 DEF CutOff
          <6>3. ~(p < p)
            BY <3>3
          <6>4. ~Awaits(deliveries', f, i)
            BY <3>3, <3>4, <4>1, <5>3, <6>3
          <6>2. <<f, history[f][i]>> = Letter
            BY <3>2, <5>3
          <6> QED BY <3>1, <3>2, <4>2, <5>2, <6>1, <6>2, <6>4 DEF Settled
        <5>4. CASE ~(f = e /\ i = p)
          <6>1. Awaits(deliveries', f, i) <=> Awaits(deliveries, f, i)
            BY <3>2, <3>3, <3>4, <4>1, <5>1, <5>4
          <6>2. <<f, history[f][i]>> # Letter
            BY <3>2, <5>4
          <6> QED BY <3>1, <4>2, <5>1, <5>2, <6>1, <6>2 DEF Settled
        <5> QED BY <5>3, <5>4
      <4>4. \A f \in 1 .. H : \A i \in 1 .. Len(history[f]) : Settled(f, i)'
        BY <4>3
      <4>5. Subscriptions'
        BY <2>1, <3>1 DEF Subscriptions
      <4> QED BY <2>1, <2>2, <3>1, <3>2, <4>1, <4>2, <4>4, <4>5 DEF BusInv
    <3> QED BY <3>5, <3>6
  <2>17. CASE LetterUnwritten
    <3> DEFINE e == Top.event
               p == Top.passed + 1
    <3>1. /\ Delivering /\ Top.trying /\ dead' = Append(dead, Letter) /\ unfiled' = unfiled \cup {Letter}
          /\ deliveries' = Front(ds) /\ UNCHANGED <<handlers, history, heard>>
      BY <2>17 DEF LetterUnwritten
    <3>2. /\ Letter \in Letters /\ Letter[1] <= H /\ Letter \notin heard /\ ~Holds(dead, Letter)
          /\ e \in 1 .. H /\ p \in 1 .. Len(history[e])
          /\ Letter = <<e, history[e][p]>> /\ \A h : <<e, h>> \notin unfiled
          /\ \A f \in 1 .. H : \A i \in 1 .. Len(history[f]) :
               <<f, history[f][i]>> = Letter <=> f = e /\ i = p
          /\ \A i \in Nat : Awaits(ds, e, i) <=> p <= i
          /\ Nested(OnTop(Done(Top)), history)
          /\ \A f : Open(OnTop(Done(Top)), f) <=> Open(ds, f)
      BY <2>13, <3>1
    <3>3. p \in Nat
      BY <2>4, <3>2
    <3>4. \A f : \A i \in Nat : Awaits(OnTop(Done(Top)), f, i) <=>
                         (f = e /\ p < i) \/ (f # e /\ Awaits(ds, f, i))
      BY <2>13, <3>1
    <3>5. /\ Nested(deliveries', history)
          /\ \A f : Open(deliveries', f) <=> Open(ds, f) /\ f # e
          /\ \A f, i : Awaits(deliveries', f, i) <=> Awaits(ds, f, i) /\ f # e
      BY <2>1, <2>7, <3>1, DropLast
    <3>6. /\ dead' \in Seq(Letters) /\ Once(dead')
          /\ \A y : Holds(dead', y) <=> Holds(dead, y) \/ y = Letter
          /\ \A i \in 1 .. Len(dead') : dead'[i][1] <= H
      BY <2>15, <3>1
    <3> HIDE DEF e, p
    <3>7. ASSUME NEW f \in 1 .. H, NEW i \in 1 .. Len(history[f]) PROVE Settled(f, i)'
      <4>1. Settled(f, i) /\ i \in Nat /\ p \in Nat /\ Len(history[f]) \in Nat
        BY <2>3, <2>4, <2>5, <3>2
      <4>2. \A j \in 1 .. i - 1 : j \in 1 .. Len(history[f])
        BY <4>1
      <4>3. CASE f = e
        <5>1. \A j \in 1 .. i - 1 : <<f, history[f][j]>> \in unfiled' <=> j = p
          BY <3>1, <3>2, <4>2, <4>3
        <5>2. CutOff(f, i)' <=> p < i
          <6>1. p \in 1 .. i - 1 <=> p < i
            BY <3>2, <4>1
          <6> QED BY <3>1, <5>1, <6>1 DEF CutOff
        <5>3. ~CutOff(f, i)
          BY <3>2, <4>3 DEF CutOff
        <5>4. ~Awaits(deliveries', f, i) /\ (Awaits(ds, f, i) <=> p <= i)
          BY <3>2, <3>5, <4>1, <4>3
        <5>5. <<f, history[f][i]>> = Letter <=> i = p
          BY <3>2, <4>3
        <5>6. CASE i < p
          BY <3>1, <3>6, <4>1, <5>2, <5>3, <5>4, <5>5, <5>6 DEF Settled
        <5>7. CASE i = p
          BY <3>1, <3>2, <3>6, <4>1, <5>2, <5>4, <5>5, <5>7 DEF Settled
        <5>8. CASE p < i
          BY <3>1, <3>6, <4>1, <5>2, <5>4, <5>5, <5>8 DEF Settled
        <5> QED BY <4>1, <5>6, <5>7, <5>8
      <4>4. CASE f # e
        <5>1. <<f, history[f][i]>> # Letter /\ \A h : <<f, h>> # Letter
          BY <3>2, <4>4
        <5>2. CutOff(f, i)' <=> CutOff(f, i)
          BY <3>1, <5>1 DEF CutOff
        <5>3. Awaits(deliveries', f, i) <=> Awaits(deliveries, f, i)
          BY <3>5, <4>4
        <5> QED BY <3>1, <3>6, <4>1, <5>1, <5>2, <5>3 DEF Settled
      <4> QED BY <4>3, <4>4
    <3>8. \A f \in 1 .. H : \A i \in 1 .. Len(history[f]) : Settled(f, i)'
      BY <3>7
    <3>9. \A f \in 1 .. H : Open(deliveries', f) => \A h : <<f, h>> \notin unfiled'
      <4> SUFFICES ASSUME NEW f \in 1 .. H, Open(deliveries', f), NEW h PROVE <<f, h>> \notin unfiled'
        OBVIOUS
      <4>1. f # e /\ <<f, h>> \notin unfiled
        BY <2>2, <3>5
      <4> QED BY <3>1, <3>2, <4>1
    <3>10. unfiled' \subseteq Letters /\ \A letter \in heard \cup unfiled' : letter[1] <= H
      BY <2>1, <3>1, <3>2
    <3>11. Subscriptions'
      BY <2>1, <3>1 DEF Subscriptions
    <3> QED BY <2>1, <3>1, <3>5, <3>6, <3>8, <3>9, <3>10, <3>11 DEF BusInv
  <2>18. CASE \/ \E name \in JobNames : Cancel(name) \/ \E delay \in Delays : Schedule(name, delay)
              \/ RunPending \/ RunJob \/ JobReturns \/ JobRaises \/ Tick
              \/ UNCHANGED hostVars
    <3>1. UNCHANGED <<handlers, history, deliveries, heard, dead, unfiled>>
      BY <2>18 DEF Cancel, Schedule, RunPending, RunJob, JobReturns, JobRaises, Tick, hostVars, bus
    <3>2. Subscriptions'
      BY <2>1, <3>1 DEF Subscriptions
    <3> QED BY <2>1, <2>6, <3>1, <3>2
  <2> QED BY <1>2, <2>8, <2>9, <2>11, <2>12, <2>14, <2>16, <2>17, <2>18 DEF HostNext
<1>3. BusInv /\ [HostNext]_hostVars => BusInv'
  BY <1>2
<1> QED BY <1>1, <1>3, PTL DEF HostSpec

LEMMA ServedOnce == BusInv => EveryHandlerIsServed
<1> SUFFICES ASSUME BusInv, ~Delivering, NEW e \in 1 .. Len(history), NEW i \in 1 .. Len(history[e])
             PROVE  LET letter == <<e, history[e][i]>>
                        letters == {n \in 1 .. Len(dead) : dead[n] = letter}
                    IN  /\ Cardinality(letters) = (IF letter \in heard \/ CutOff(e, i) THEN 0 ELSE 1)
                        /\ CutOff(e, i) => letter \notin heard
  BY DEF EveryHandlerIsServed
<1> DEFINE letter == <<e, history[e][i]>>
           letters == {n \in 1 .. Len(dead) : dead[n] = letter}
<1>1. Settled(e, i)
  BY DEF BusInv
<1>2. ~Awaits(deliveries, e, i)
  BY DEF Delivering, Awaits
<1>3. IF CutOff(e, i) THEN letter \notin heard /\ ~Holds(dead, letter)
                      ELSE letter \in heard <=> ~Holds(dead, letter)
  BY <1>1, <1>2 DEF Settled
<1> HIDE DEF letter
<1>4. CASE ~Holds(dead, letter)
  <2>1. letters = {}
    BY <1>4 DEF Holds
  <2>2. Cardinality({}) = 0
    BY FS_EmptySet
  <2> QED BY <1>3, <1>4, <2>1, <2>2 DEF letter
<1>5. CASE Holds(dead, letter)
  <2>1. PICK n \in 1 .. Len(dead) : dead[n] = letter
    BY <1>5 DEF Holds
  <2>2. \A m \in 1 .. Len(dead) : dead[m] = dead[n] => m = n
    BY DEF BusInv, Once
  <2>3. letters = {n}
    BY <2>1, <2>2
  <2>4. Cardinality({n}) = 1
    BY FS_Singleton
  <2> QED BY <1>3, <1>5, <2>3, <2>4 DEF letter
<1> QED BY <1>4, <1>5

\* Whatever handlers raise, publish and subscribe, however many they are, and whichever dead
\* letters cannot be written: when the host has the thread again, every handler of an event has
\* heard it or left one dead letter, or it stands behind an unwritten one and has done neither
\* (events/__init__.py: publish, _dispatch, _to_dead_letter).
THEOREM EveryHandlerIsAlwaysServed == HostSpec => []EveryHandlerIsServed
BY EveryoneIsServed, ServedOnce, PTL
=============================================================================
