-------------------------- MODULE PerceptionProofs --------------------------
(***************************************************************************)
(* Three results for any documents, targets, days, processes and faults,   *)
(* whether or not the processes draw the same ids: every record, every     *)
(* entry of the vector memory and every edge of the graph can be traced    *)
(* back; a document is read once, unless a fault came between reading it   *)
(* and saving the manifest, and is then remembered; and, with ids of their *)
(* own, a seed is worked at most once in each of the phases that build.    *)
(***************************************************************************)
EXTENDS PerceptionProperties, ListProofs

-----------------------------------------------------------------------------
(* The inductive invariant of what is filed, owed, remembered and drawn. *)

Kinds == {"observation", "finding", "question", "seed", "concept", "variant"}

\* What the vector memory should hold, too.
Remembered == {"observation", "finding", "concept"}

Resting == {"BOOTSTRAP", "between", "asleep", "down"}

Phases == {"AWAKENING", "OBSERVATION", "HUNT", "FOCUS", "CREATION", "REFLECTION", "SECOND_WIND",
           "EXPLORATION", "DREAMING"}

Building == {"CREATION", "EXPLORATION"}

Ids == Kinds \X Nat \X Nat

Papers == [kind : Kinds, day : Nat, made : Phases, n : Nat, from : SUBSET Ids, heat : Nat]

Writes == [op : {"file", "index", "node", "edge"}, record : Papers]

TypeInv ==
  /\ idsRepeat \in BOOLEAN /\ day \in Nat /\ phase \in Phases \cup Resting
  /\ step \in {"start", "manifest", "chunks", "build", "revive", "end"}
  /\ todo \in Seq(Writes) /\ (phase \in Resting => todo = <<>>)
  /\ filed \subseteq Papers /\ IsFiniteSet(filed) /\ faults \in Nat

\* A variant cites the idea it was made of, whatever its day; any other record one of
\* its own day.
Cites(r) ==
  \A source \in r.from :
    Filed(source) /\ (IF r.kind = "variant" THEN source[1] # "seed" ELSE source[2] = r.day)

\* A record cites what was filed, and no other has its id.
ShelfInv == \A r \in filed : Cites(r) /\ \A s \in filed : Id(r) = Id(s) => r = s

\* A write and the one that follows it.
Follows(v, w) ==
  /\ w.op # "file" => w.record = v.record
  /\ w.op = "index" <=> v.op = "file" /\ v.record.kind \in Remembered
  /\ w.op = "edge" /\ w.record.kind # "variant" => v.op = "node"

\* What the writes are that a stage owes.
Planned(writes) ==
  /\ \A i \in 1 .. Len(writes) :
       /\ writes[i].record.day = day /\ writes[i].record.made = phase /\ Cites(writes[i].record)
       /\ writes[i].op = "file" /\ writes[i].record.kind \in Remembered => i < Len(writes)
  /\ \A i \in 1 .. Len(writes) - 1 : Follows(writes[i], writes[i + 1])

\* What the write is that comes next.
Due(w) ==
  /\ w.op # "file" => w.record \in filed
  /\ w.op = "edge" /\ w.record.kind # "variant" => Id(w.record) \in graph.nodes

TodoInv == Planned(todo) /\ (todo # <<>> => Due(todo[1]))

Drawn(g) ==
  \A e \in g.edges : /\ Filed(e[1]) /\ (e[2] = Canon \/ Filed(e[2]))
                     /\ e[2][1] = "seed" => e[1] \in g.nodes

Unindexed == {r \in filed : r.kind \in Remembered /\ Id(r) \notin indexed}

\* Those the vector memory is not about to be given.
Lacking == {r \in Unindexed : ~(todo # <<>> /\ todo[1].op = "index" /\ todo[1].record = r)}

MemoryInv ==
  /\ \A id \in indexed : id[1] = "chunk" \/ Filed(id)
  /\ Drawn(graph) /\ Drawn(graphFile)
  /\ Cardinality(Lacking) <= faults

\* With ids of their own: the cycle's records were made in phases it has visited, and
\* a phase that builds has built nothing before it begins to.
DayInv ==
  ~idsRepeat =>
    /\ \A r \in filed : r.day <= day /\ (r.day = day => r.made \in visited)
    /\ phase \notin Resting => phase \in visited
    /\ phase \in Building /\ step # "end" =>
         /\ \A r \in filed : r.kind = "concept" /\ r.day = day => r.made # phase
         /\ \A i \in 1 .. Len(todo) : todo[i].record.kind # "concept"

\* The records filed and those about to be.
Sheets == filed \cup {todo[i].record : i \in 1 .. Len(todo)}

SeedInv ==
  ~idsRepeat =>
    \A r, s \in Sheets :
      r.kind = "concept" /\ s.kind = "concept" /\ r.made = s.made /\ r.from \cap s.from # {} => r = s

Inv == TypeInv /\ ShelfInv /\ TodoInv /\ MemoryInv /\ DayInv /\ SeedInv

-----------------------------------------------------------------------------
(* The lists that stages work through. *)

\* A list of some of T, each once.
Distinct(s, T) == s \in Seq(T) /\ \A i, j \in 1 .. Len(s) : s[i] = s[j] => i = j

LEMMA SomeAreDistinct ==
  ASSUME NEW T, NEW things, Distinct(things, T), NEW some \in Some(things)
  PROVE  Distinct(some, T)
<1>1. CASE some = things
  BY <1>1
<1>2. CASE some # things
  <2>1. PICK kept : some = Among(things, kept)
    BY <1>2 DEF Some
  <2>2. things \in Seq(T)
    BY DEF Distinct
  <2>3. Sifted(some, things, kept, T, Len(things))
    BY <2>1, <2>2, AmongKeeps
  <2>4. some \in Seq(T)
    BY <2>3 DEF Sifted
  <2>5. PICK f \in [1 .. Len(some) -> 1 .. Len(things)] :
          \A i, j \in 1 .. Len(some) : some[i] = things[f[i]] /\ (i < j => f[i] < f[j])
    BY <2>3 DEF Sifted
  <2>6. ASSUME NEW i \in 1 .. Len(some), NEW j \in 1 .. Len(some), i < j PROVE some[i] # some[j]
    <3>1. f[i] \in 1 .. Len(things) /\ f[j] \in 1 .. Len(things) /\ f[i] < f[j]
      BY <2>5, <2>6
    <3>2. f[i] # f[j]
      BY <2>2, <3>1
    <3>3. things[f[i]] # things[f[j]]
      BY <3>1, <3>2 DEF Distinct
    <3> QED BY <2>5, <3>3
  <2>7. \A i, j \in 1 .. Len(some) : i # j => i < j \/ j < i
    BY <2>4
  <2> QED BY <2>4, <2>6, <2>7 DEF Distinct
<1> QED BY <1>1, <1>2

LEMMA FirstAreDistinct ==
  ASSUME NEW T, NEW things, Distinct(things, T), NEW n \in Nat
  PROVE  Distinct(FirstOf(things, n), T)
<1> DEFINE m == IF Len(things) < n THEN Len(things) ELSE n
           some == SubSeq(things, 1, m)
<1>1. things \in Seq(T) /\ Len(things) \in Nat /\ m \in 0 .. Len(things)
  BY DEF Distinct
<1> HIDE DEF m
<1>2. some \in Seq(T) /\ Len(some) = m /\ \A i \in 1 .. m : some[i] = things[i]
  BY <1>1
<1>3. \A i \in 1 .. m : i \in 1 .. Len(things)
  BY <1>1
<1> HIDE DEF some
<1>4. Distinct(some, T)
  BY <1>2, <1>3 DEF Distinct
<1> QED BY <1>4 DEF FirstOf, some, m

LEMMA ShelfIsSorted ==
  ASSUME TypeInv, ShelfInv, NEW kind
  PROVE  /\ IsFiniteSet(Of(kind)) /\ Of(kind) \subseteq filed
         /\ Distinct(NewestFirst(kind), Of(kind)) /\ Distinct(HottestFirst(Of(kind)), Of(kind))
<1> DEFINE S == Of(kind)
           R == {p \in S \X S : Newer(p[1], p[2])}
           H == {p \in S \X S : Hotter(p[1], p[2])}
<1>1. IsFiniteSet(S) /\ S \subseteq filed
  <2>1. S \in SUBSET filed
    BY DEF Of
  <2> QED BY <2>1, FS_Subset DEF TypeInv
<1>2. \A r \in S : r.kind = kind /\ r.day = day /\ r.n \in Nat /\ r.heat \in Nat
  BY DEF Of, TypeInv, Papers
<1>3. \A r, s \in S : r.n = s.n => r = s
  BY <1>1, <1>2 DEF ShelfInv, Id
<1>4. day \in Nat
  BY DEF TypeInv
<1>5. \A r, s \in S : Newer(r, s) <=> r.n > s.n
  BY <1>2, <1>4 DEF Newer
<1>6. \A r, s \in S : /\ <<r, s>> \in R <=> r.n > s.n
                      /\ <<r, s>> \in H <=> r.heat > s.heat \/ (r.heat = s.heat /\ r.n > s.n)
  BY <1>5 DEF Hotter
<1> HIDE DEF S, R, H
<1>7. Orders(R, S)
  BY <1>2, <1>3, <1>6 DEF Orders
<1>8. Orders(H, S)
  BY <1>2, <1>3, <1>6 DEF Orders
<1>9. \A Q : Orders(Q, S) => Distinct(InOrder(S, Q), S)
  <2> SUFFICES ASSUME NEW Q, Orders(Q, S) PROVE Distinct(InOrder(S, Q), S)
    OBVIOUS
  <2>1. /\ InOrder(S, Q) \in Seq(S) /\ Len(InOrder(S, Q)) = Cardinality(S)
        /\ \A m, k \in 1 .. Cardinality(S) : InOrder(S, Q)[m] = InOrder(S, Q)[k] => m = k
    BY <1>1, InOrderSorts
  <2> QED BY <2>1 DEF Distinct
<1>10. Distinct(InOrder(S, R), S) /\ Distinct(InOrder(S, H), S)
  BY <1>7, <1>8, <1>9
<1> QED BY <1>1, <1>10 DEF NewestFirst, HottestFirst, S, R, H

-----------------------------------------------------------------------------
(* The writes a stage owes. *)

LEMMA Places ==
  ASSUME NEW W \in {1, 2, 4}, NEW N \in Nat, NEW i \in 1 .. N * W
  PROVE  LET p(k) == ((k - 1) % W) + 1
             q(k) == ((k - 1) \div W) + 1
         IN  /\ p(i) \in 1 .. W /\ q(i) \in 1 .. N
             /\ i + 1 <= N * W => IF p(i) < W THEN p(i + 1) = p(i) + 1 /\ q(i + 1) = q(i)
                                  ELSE p(i + 1) = 1 /\ q(i + 1) = q(i) + 1
             /\ i = 1 => p(i) = 1 /\ q(i) = 1
             /\ i = N * W => p(i) = W
<1>1. CASE W = 1
  BY <1>1
<1>2. CASE W = 2
  BY <1>2
<1>3. CASE W = 4
  BY <1>3
<1> QED BY <1>1, <1>2, <1>3

\* The records a stage makes of one kind.
Made(records, kind) ==
  /\ records \in Seq(Papers)
  /\ \A i \in 1 .. Len(records) :
       /\ records[i].kind = kind /\ records[i].day = day /\ records[i].made = phase
       /\ Cites(records[i])

\* How the list of the writes of a record of this kind is laid out.
Layout(ops, kind) ==
  /\ Len(ops) \in {1, 2, 4} /\ (kind \in Remembered => Len(ops) # 1)
  /\ \A k \in 1 .. Len(ops) :
       /\ ops[k] \in {"file", "index", "node", "edge"}
       /\ ops[k] = "file" <=> k = 1
       /\ ops[k] = "index" <=> k = 2 /\ kind \in Remembered
       /\ ops[k] = "node" <=> k = 3
       /\ ops[k] = "edge" => kind = "variant" \/ k = 4

LEMMA OpsAreLaidOut ==
  /\ Layout(Filing, "question") /\ Layout(Filing, "seed")
  /\ Layout(Indexing, "observation") /\ Layout(Indexing, "finding")
  /\ Layout(Drawing, "concept") /\ Layout(Linking, "variant")
<1>1. Layout(Filing, "question") /\ Layout(Filing, "seed")
  BY DEF Layout, Filing, Remembered
<1>2. Layout(Indexing, "observation") /\ Layout(Indexing, "finding")
  BY DEF Layout, Indexing, Remembered
<1>3. Layout(Drawing, "concept")
  BY DEF Layout, Drawing, Remembered
<1>4. Layout(Linking, "variant")
  BY DEF Layout, Linking, Remembered
<1> QED BY <1>1, <1>2, <1>3, <1>4

\* A stage that makes records of one kind owes what TodoInv says.
LEMMA OwedIsPlanned ==
  ASSUME TypeInv, NEW kind \in Kinds, NEW records, Made(records, kind), NEW ops, Layout(ops, kind)
  PROVE  LET writes == Owed(records, ops)
         IN  /\ writes \in Seq(Writes) /\ Planned(writes) /\ (writes # <<>> => writes[1].op = "file")
             /\ \A i \in 1 .. Len(writes) : \E j \in 1 .. Len(records) : writes[i].record = records[j]
<1> DEFINE W == Len(ops)
           N == Len(records)
           p(i) == ((i - 1) % W) + 1
           q(i) == ((i - 1) \div W) + 1
           writes == Owed(records, ops)
<1>0. N \in Nat /\ W \in {1, 2, 4} /\ N * W \in Nat
  <2>1. N \in Nat /\ W \in {1, 2, 4}
    BY DEF Made, Layout
  <2> QED BY <2>1
<1>1. \A i \in 1 .. N * W :
        /\ p(i) \in 1 .. W /\ q(i) \in 1 .. N
        /\ i + 1 <= N * W => IF p(i) < W THEN p(i + 1) = p(i) + 1 /\ q(i + 1) = q(i)
                             ELSE p(i + 1) = 1 /\ q(i + 1) = q(i) + 1
        /\ i = 1 => p(i) = 1 /\ q(i) = 1
        /\ i = N * W => p(i) = W
  BY <1>0, Places
<1>2. writes = [i \in 1 .. N * W |-> Write(ops[p(i)], records[q(i)])]
  BY DEF Owed
<1>8. kind \in Remembered => W # 1
  BY DEF Layout
<1> HIDE DEF p, q, W, N
<1>3. \A i \in 1 .. N * W : /\ ops[p(i)] \in {"file", "index", "node", "edge"}
                            /\ ops[p(i)] = "file" <=> p(i) = 1
                            /\ ops[p(i)] = "index" <=> p(i) = 2 /\ kind \in Remembered
                            /\ ops[p(i)] = "node" <=> p(i) = 3
                            /\ ops[p(i)] = "edge" => kind = "variant" \/ p(i) = 4
  BY <1>1 DEF Layout, W
<1>4. \A i \in 1 .. N * W : /\ records[q(i)] \in Papers /\ records[q(i)].kind = kind
                            /\ records[q(i)].day = day /\ records[q(i)].made = phase
                            /\ Cites(records[q(i)])
  BY <1>1 DEF Made, N
<1>5. \A i \in 1 .. N * W : /\ writes[i].op = ops[p(i)] /\ writes[i].record = records[q(i)]
                            /\ writes[i] \in Writes
  BY <1>2, <1>3, <1>4 DEF Write, Writes
<1>6. writes \in [1 .. N * W -> Writes]
  BY <1>2, <1>3, <1>4 DEF Write, Writes
<1>7. writes \in Seq(Writes) /\ Len(writes) = N * W
  BY <1>0, <1>6, FunctionsAreLists
<1> HIDE DEF writes
<1>9. Planned(writes)
  <2>1. ASSUME NEW i \in 1 .. Len(writes)
        PROVE  /\ writes[i].record.day = day /\ writes[i].record.made = phase
               /\ Cites(writes[i].record)
               /\ writes[i].op = "file" /\ writes[i].record.kind \in Remembered => i < Len(writes)
    <3>1. i \in 1 .. N * W
      BY <1>7, <2>1
    <3>2. /\ writes[i].record.day = day /\ writes[i].record.made = phase
          /\ Cites(writes[i].record) /\ writes[i].record.kind = kind
      BY <3>1, <1>4, <1>5
    <3>4. writes[i].op = "file" /\ W # 1 => i # N * W
      BY <3>1, <1>0, <1>1, <1>3, <1>5
    <3>5. i # N * W => i < Len(writes)
      BY <3>1, <1>0, <1>7
    <3> QED BY <3>2, <3>4, <3>5, <1>8
  <2>2. ASSUME NEW i \in 1 .. Len(writes) - 1 PROVE Follows(writes[i], writes[i + 1])
    <3>1. i \in 1 .. N * W /\ i + 1 \in 1 .. N * W /\ i + 1 <= N * W
      BY <1>0, <1>7, <2>2
    <3>2. p(i) \in 1 .. W /\ p(i + 1) \in 1 .. W /\ q(i) \in 1 .. N /\ q(i + 1) \in 1 .. N
      BY <3>1, <1>1
    <3>3. IF p(i) < W THEN p(i + 1) = p(i) + 1 /\ q(i + 1) = q(i)
          ELSE p(i + 1) = 1 /\ q(i + 1) = q(i) + 1
      BY <3>1, <1>1
    <3>4. /\ writes[i].record.kind = kind /\ writes[i + 1].record.kind = kind
          /\ q(i + 1) = q(i) => writes[i + 1].record = writes[i].record
      BY <3>1, <1>4, <1>5
    <3>5. /\ writes[i].op = "file" <=> p(i) = 1
          /\ writes[i].op = "node" <=> p(i) = 3
          /\ writes[i + 1].op = "file" <=> p(i + 1) = 1
          /\ writes[i + 1].op = "index" <=> p(i + 1) = 2 /\ kind \in Remembered
          /\ writes[i + 1].op = "edge" => kind = "variant" \/ p(i + 1) = 4
      BY <3>1, <1>3, <1>5
    <3>7. writes[i + 1].op # "file" => q(i + 1) = q(i)
      BY <1>0, <3>2, <3>3, <3>5
    <3>8. writes[i + 1].op = "index" <=> writes[i].op = "file" /\ kind \in Remembered
      BY <1>0, <1>8, <3>2, <3>3, <3>5
    <3>9. writes[i + 1].op = "edge" /\ kind # "variant" => writes[i].op = "node"
      BY <1>0, <3>2, <3>3, <3>5
    <3> QED BY <3>4, <3>7, <3>8, <3>9 DEF Follows
  <2> QED BY <2>1, <2>2 DEF Planned
<1>10. ASSUME writes # <<>> PROVE writes[1].op = "file"
  <2>1. Len(writes) # 0
    BY <1>7, <1>10
  <2>2. 1 \in 1 .. N * W
    BY <2>1, <1>0, <1>7
  <2>3. p(1) = 1
    BY <2>2, <1>1
  <2> QED BY <2>2, <2>3, <1>3, <1>5
<1>11. ASSUME NEW i \in 1 .. Len(writes)
       PROVE  \E j \in 1 .. Len(records) : writes[i].record = records[j]
  <2>1. i \in 1 .. N * W
    BY <1>7, <1>11
  <2> QED BY <2>1, <1>1, <1>5 DEF N
<1> QED BY <1>7, <1>9, <1>10, <1>11 DEF writes

-----------------------------------------------------------------------------
(* A write keeps the invariant. *)

LEMMA NextWrite ==
  ASSUME Inv, WriteNext
  PROVE  LET w == todo[1] IN
         /\ w \in Writes /\ w.record \in Papers /\ 1 \in 1 .. Len(todo) /\ phase \notin Resting
         /\ w.record.day = day /\ w.record.made = phase
         /\ Cites(w.record) /\ Due(w)
         /\ \/ w.op = "file" /\ Put(w.record) /\ UNCHANGED <<indexed, graph, graphFile>>
            \/ w.op = "index" /\ indexed' = indexed \cup {Id(w.record)} /\ UNCHANGED <<filed, graph, graphFile>>
            \/ w.op = "node" /\ Draw({Id(w.record)}, {}) /\ UNCHANGED <<filed, indexed>>
            \/ w.op = "edge" /\ Draw({}, {<<Id(w.record), source>> : source \in w.record.from})
               /\ UNCHANGED <<filed, indexed>>
         /\ UNCHANGED <<idsRepeat, day, phase, step, visited, faults>>
<1>1. todo # <<>> /\ todo \in Seq(Writes)
  BY DEF Inv, TypeInv, WriteNext
<1>2. Head(todo) = todo[1] /\ todo[1] \in Writes /\ 1 \in 1 .. Len(todo)
  BY <1>1, TailShifts
<1>3. todo[1].record \in Papers
  BY <1>2 DEF Writes
<1>4. phase \notin Resting
  BY <1>1 DEF Inv, TypeInv
<1>5. /\ todo[1].record.day = day /\ todo[1].record.made = phase /\ Cites(todo[1].record)
  BY <1>2 DEF Inv, TodoInv, Planned
<1>6. Due(todo[1])
  BY <1>1 DEF Inv, TodoInv
<1> QED BY <1>2, <1>3, <1>4, <1>5, <1>6 DEF WriteNext

\* What is filed stays filed, under its id at least.
LEMMA FilingKeepsIds ==
  ASSUME Inv, WriteNext
  PROVE  /\ filed' \subseteq filed \cup {todo[1].record}
         /\ todo[1].op = "file" => todo[1].record \in filed'
         /\ \A r \in filed' : r # todo[1].record \/ todo[1].op # "file" => r \in filed
         /\ \A r \in filed' : todo[1].op = "file" /\ Id(r) = Id(todo[1].record) => r = todo[1].record
         /\ \A id : Filed(id) => Filed(id)'
         /\ \E s \in filed' : Id(s) = Id(todo[1].record)
<1>1. PICK r : r = todo[1].record
  OBVIOUS
<1>2. CASE todo[1].op = "file"
  <2>1. filed' = {s \in filed : Id(s) # Id(r)} \cup {r}
    BY <1>1, <1>2, NextWrite DEF Put
  <2>2. \A id : Filed(id) => \E s \in filed' : Id(s) = id
    BY <2>1 DEF Filed
  <2>3. \A id : Filed(id) => Filed(id)'
    BY <2>2 DEF Filed, Id
  <2>4. \E s \in filed' : Id(s) = Id(r)
    BY <2>1
  <2> QED BY <1>1, <1>2, <2>1, <2>3, <2>4
<1>3. CASE todo[1].op # "file"
  <2>1. filed' = filed /\ r \in filed
    BY <1>1, <1>3, NextWrite DEF Due
  <2> QED BY <1>1, <1>3, <2>1 DEF Filed, Id
<1> QED BY <1>2, <1>3

\* The writes that are left are as planned.
LEMMA WritingMovesOn ==
  ASSUME Inv, WriteNext
  PROVE  /\ todo' \in Seq(Writes) /\ Planned(todo)' /\ Sheets' \subseteq Sheets
         /\ todo' # <<>> => todo'[1] = todo[2] /\ Follows(todo[1], todo[2]) /\ todo[2] \in Writes
         /\ todo[1].op = "file" /\ todo[1].record.kind \in Remembered => todo' # <<>>
         /\ \A i \in 1 .. Len(todo') : \E j \in 1 .. Len(todo) : todo'[i] = todo[j]
<1>1. /\ filed' \subseteq filed \cup {todo[1].record} /\ \A id : Filed(id) => Filed(id)'
  BY FilingKeepsIds
<1>2. UNCHANGED <<day, phase>>
  BY NextWrite
<1>3. todo # <<>> /\ todo' = Tail(todo) /\ todo \in Seq(Writes) /\ Planned(todo)
  BY DEF Inv, TypeInv, TodoInv, WriteNext
<1>4. /\ 1 \in 1 .. Len(todo) /\ todo' \in Seq(Writes) /\ Len(todo') = Len(todo) - 1
      /\ Len(todo) \in Nat /\ Len(todo') \in Nat
      /\ \A i \in 1 .. Len(todo) - 1 : todo'[i] = todo[i + 1]
  BY <1>3, TailShifts
<1>5. \A i \in 1 .. Len(todo') : i \in 1 .. Len(todo) - 1 /\ i + 1 \in 1 .. Len(todo)
  BY <1>4
<1>6. \A i \in 1 .. Len(todo') : todo'[i] = todo[i + 1] /\ i + 1 \in 1 .. Len(todo)
  BY <1>4, <1>5
<1>8. Planned(todo)'
  <2>1. ASSUME NEW i \in 1 .. Len(todo')
        PROVE  /\ todo'[i].record.day = day' /\ todo'[i].record.made = phase'
               /\ \A source \in todo'[i].record.from :
                    Filed(source)' /\ (IF todo'[i].record.kind = "variant" THEN source[1] # "seed"
                                       ELSE source[2] = todo'[i].record.day)
               /\ todo'[i].op = "file" /\ todo'[i].record.kind \in Remembered => i < Len(todo')
    <3>1. todo'[i] = todo[i + 1] /\ i + 1 \in 1 .. Len(todo)
      BY <1>6
    <3>2. PICK v : v = todo[i + 1]
      OBVIOUS
    <3>3. /\ v.record.day = day /\ v.record.made = phase /\ Cites(v.record)
          /\ v.op = "file" /\ v.record.kind \in Remembered => i + 1 < Len(todo)
      BY <1>3, <3>1, <3>2 DEF Planned
    <3>4. i + 1 < Len(todo) => i < Len(todo')
      BY <1>4
    <3>5. \A source \in v.record.from :
            Filed(source)' /\ (IF v.record.kind = "variant" THEN source[1] # "seed"
                               ELSE source[2] = v.record.day)
      BY <1>1, <3>3 DEF Cites
    <3> QED BY <1>2, <3>1, <3>2, <3>3, <3>4, <3>5
  <2>2. ASSUME NEW i \in 1 .. Len(todo') - 1 PROVE Follows(todo'[i], todo'[i + 1])
    <3>1. i \in 1 .. Len(todo') /\ i + 1 \in 1 .. Len(todo') /\ i + 1 \in 1 .. Len(todo) - 1
      BY <1>4
    <3>2. todo'[i] = todo[i + 1] /\ todo'[i + 1] = todo[(i + 1) + 1]
      BY <3>1, <1>6
    <3> QED BY <3>1, <3>2, <1>3 DEF Planned
  <2> QED BY <2>1, <2>2 DEF Planned, Follows, Cites
<1>9. Sheets' \subseteq Sheets
  <2>1. \A i \in 1 .. Len(todo') : todo'[i].record \in Sheets
    BY <1>6 DEF Sheets
  <2>2. todo[1].record \in Sheets
    BY <1>4 DEF Sheets
  <2>3. filed' \subseteq Sheets
    BY <1>1, <2>2 DEF Sheets
  <2> QED BY <2>1, <2>3 DEF Sheets
<1>10. todo' # <<>> => todo'[1] = todo[2] /\ Follows(todo[1], todo[2]) /\ todo[2] \in Writes
  <2> SUFFICES ASSUME todo' # <<>>
               PROVE  todo'[1] = todo[2] /\ Follows(todo[1], todo[2]) /\ todo[2] \in Writes
    OBVIOUS
  <2>1. 1 \in 1 .. Len(todo) - 1 /\ 1 + 1 \in 1 .. Len(todo)
    BY <1>4
  <2>2. todo'[1] = todo[1 + 1] /\ Follows(todo[1], todo[1 + 1]) /\ todo[1 + 1] \in Writes
    BY <2>1, <1>3, <1>4 DEF Planned
  <2> QED BY <2>2
<1>11. todo[1].op = "file" /\ todo[1].record.kind \in Remembered => todo' # <<>>
  <2>1. todo[1].op = "file" /\ todo[1].record.kind \in Remembered => 1 < Len(todo)
    BY <1>3, <1>4 DEF Planned
  <2> QED BY <2>1, <1>4
<1> QED BY <1>4, <1>6, <1>8, <1>9, <1>10, <1>11

LEMMA WritingKeepsDays ==
  ASSUME Inv, WriteNext
  PROVE  TypeInv' /\ DayInv' /\ SeedInv'
<1> DEFINE w == todo[1]
<1>1. /\ w \in Writes /\ w.record \in Papers /\ 1 \in 1 .. Len(todo) /\ phase \notin Resting
      /\ w.record.day = day /\ w.record.made = phase
      /\ UNCHANGED <<idsRepeat, day, phase, step, visited, faults>>
  BY NextWrite
<1>2. /\ filed' \subseteq filed \cup {w.record} /\ todo' \in Seq(Writes) /\ Sheets' \subseteq Sheets
      /\ \A i \in 1 .. Len(todo') : \E j \in 1 .. Len(todo) : todo'[i] = todo[j]
  BY WritingMovesOn, FilingKeepsIds
<1>3. ~idsRepeat => \A j \in 1 .. Len(todo) : phase \in Building /\ step # "end" => todo[j].record.kind # "concept"
  BY DEF Inv, DayInv
<1>4. ~idsRepeat => (phase \in Building /\ step # "end" => w.record.kind # "concept")
  BY <1>1, <1>3
<1> HIDE DEF w
<1>5. TypeInv'
  <2>1. IsFiniteSet(filed \cup {w.record})
    BY FS_AddElement DEF Inv, TypeInv
  <2>2. IsFiniteSet(filed')
    BY <1>2, <2>1, FS_Subset
  <2>3. filed' \subseteq Papers
    BY <1>1, <1>2 DEF Inv, TypeInv
  <2> QED BY <1>1, <1>2, <2>2, <2>3 DEF Inv, TypeInv
<1>6. ASSUME ~idsRepeat
      PROVE  \A r \in filed' : /\ r.day <= day /\ (r.day = day => r.made \in visited)
                               /\ phase \in Building /\ step # "end" =>
                                    (r.kind = "concept" /\ r.day = day => r.made # phase)
  <2>1. day <= day /\ phase \in visited
    BY <1>1, <1>6 DEF Inv, TypeInv, DayInv
  <2> QED BY <1>1, <1>2, <1>4, <1>6, <2>1 DEF Inv, DayInv
<1>7. ~idsRepeat => \A i \in 1 .. Len(todo') : phase \in Building /\ step # "end" => todo'[i].record.kind # "concept"
  BY <1>2, <1>3
<1>8. ~idsRepeat => phase \in visited
  BY <1>1 DEF Inv, DayInv
<1>9. DayInv'
  BY <1>1, <1>6, <1>7, <1>8 DEF DayInv
<1>10. SeedInv'
  BY <1>1, <1>2 DEF Inv, SeedInv
<1> QED BY <1>5, <1>9, <1>10

LEMMA WritingKeepsShelf ==
  ASSUME Inv, WriteNext
  PROVE  ShelfInv'
<1>1. PICK r : r = todo[1].record
  OBVIOUS
<1>2. /\ filed' \subseteq filed \cup {r} /\ Cites(r)
      /\ todo[1].op # "file" => filed' \subseteq filed
      /\ \A s \in filed' : todo[1].op = "file" /\ Id(s) = Id(r) => s = r
      /\ \A id : Filed(id) => Filed(id)'
  BY <1>1, FilingKeepsIds, NextWrite
<1>3. \A s \in filed : Cites(s) /\ \A t \in filed : Id(s) = Id(t) => s = t
  BY DEF Inv, ShelfInv
<1>4. \A s \in filed' : \A source \in s.from :
        Filed(source)' /\ (IF s.kind = "variant" THEN source[1] # "seed" ELSE source[2] = s.day)
  BY <1>2, <1>3 DEF Cites
<1>5. \A s, t \in filed' : Id(s) = Id(t) => s = t
  BY <1>2, <1>3
<1> QED BY <1>4, <1>5 DEF ShelfInv, Cites, Id

\* The write that comes next is due.
LEMMA WritingKeepsTodo ==
  ASSUME Inv, WriteNext
  PROVE  TodoInv'
<1>1. PICK w : w = todo[1]
  OBVIOUS
<1>2. PICK v : v = todo[2]
  OBVIOUS
<1>3. /\ Planned(todo)' /\ (todo' # <<>> => todo'[1] = v /\ Follows(w, v))
  BY <1>1, <1>2, WritingMovesOn
<1>4. w.record \in filed'
  BY <1>1, FilingKeepsIds, NextWrite DEF Due
<1>5. w.op = "node" => Id(w.record) \in graph'.nodes
  BY <1>1, NextWrite DEF Draw
<1>6. todo' # <<>> => /\ v.op # "file" => v.record \in filed'
                      /\ v.op = "edge" /\ v.record.kind # "variant" => Id(v.record) \in graph'.nodes
  BY <1>3, <1>4, <1>5 DEF Follows
<1> QED BY <1>3, <1>6 DEF TodoInv, Due, Id

\* The vector memory lacks one record at most for every fault.
LEMMA WritingKeepsMemory ==
  ASSUME Inv, WriteNext
  PROVE  MemoryInv'
<1>1. PICK w : w = todo[1]
  OBVIOUS
<1>2. PICK r : r = w.record
  OBVIOUS
<1>3. PICK v : v = todo[2]
  OBVIOUS
<1>4. /\ w \in Writes /\ r \in Papers /\ Cites(r) /\ Due(w) /\ faults \in Nat /\ UNCHANGED faults
      /\ todo # <<>>
  BY <1>1, <1>2, NextWrite DEF Inv, TypeInv, WriteNext
<1>5. /\ filed' \subseteq filed \cup {r} /\ (w.op # "file" => filed' \subseteq filed)
      /\ \A id : Filed(id) => Filed(id)'
      /\ Filed(Id(r))'
  <2>1. /\ filed' \subseteq filed \cup {r} /\ (w.op # "file" => filed' \subseteq filed)
        /\ \A id : Filed(id) => Filed(id)'
    BY <1>1, <1>2, FilingKeepsIds
  <2>2. PICK id : id = Id(r)
    OBVIOUS
  <2>3. \E s \in filed' : Id(s) = id
    BY <1>1, <1>2, <2>2, FilingKeepsIds
  <2>4. Filed(id)'
    BY <2>3 DEF Filed, Id
  <2> QED BY <2>1, <2>2, <2>4
<1>6. /\ todo' # <<>> => todo'[1] = v /\ Follows(w, v)
      /\ w.op = "file" /\ r.kind \in Remembered => todo' # <<>>
  BY <1>1, <1>2, <1>3, WritingMovesOn
<1>7. \/ w.op = "file" /\ UNCHANGED <<indexed, graph, graphFile>>
      \/ w.op = "index" /\ indexed' = indexed \cup {Id(r)} /\ UNCHANGED <<graph, graphFile>>
      \/ w.op = "node" /\ Draw({Id(r)}, {}) /\ UNCHANGED indexed
      \/ w.op = "edge" /\ Draw({}, {<<Id(r), source>> : source \in r.from}) /\ UNCHANGED indexed
  BY <1>1, <1>2, NextWrite
<1>8. \A id \in indexed' : id[1] = "chunk" \/ Filed(id)'
  BY <1>5, <1>7 DEF Inv, MemoryInv
<1>9. \A g \in {graph', graphFile'} : \A e \in g.edges :
        /\ Filed(e[1])' /\ (e[2] = Canon \/ Filed(e[2])')
        /\ e[2][1] = "seed" => e[1] \in g.nodes
  <2>1. \A g \in {graph, graphFile} : \A e \in g.edges :
          /\ Filed(e[1])' /\ (e[2] = Canon \/ Filed(e[2])')
          /\ e[2][1] = "seed" => e[1] \in g.nodes
    BY <1>5 DEF Inv, MemoryInv, Drawn
  <2>2. CASE w.op \in {"file", "index"}
    BY <1>7, <2>1, <2>2
  <2>3. CASE w.op = "node"
    <3>1. /\ graph'.edges = graph.edges /\ graph'.nodes = graph.nodes \cup {Id(r)}
          /\ graphFile' = graph'
      BY <1>7, <2>3 DEF Draw
    <3> QED BY <2>1, <3>1
  <2>4. CASE w.op = "edge"
    <3>1. /\ graph'.edges = graph.edges \cup {<<Id(r), source>> : source \in r.from}
          /\ graph'.nodes = graph.nodes /\ graphFile' = graph'
      BY <1>7, <2>4 DEF Draw
    <3>2. \A source \in r.from : Filed(source)' /\ (source[1] = "seed" => r.kind # "variant")
      BY <1>4, <1>5 DEF Cites
    <3>3. r.kind # "variant" => Id(r) \in graph.nodes
      BY <1>2, <1>4, <2>4 DEF Due
    <3> QED BY <1>5, <2>1, <3>1, <3>2, <3>3
  <2> QED BY <1>7, <2>2, <2>3, <2>4
<1>10. Lacking' \subseteq Lacking
  <2> SUFFICES ASSUME NEW s \in Lacking' PROVE s \in Lacking
    OBVIOUS
  <2>1. /\ s \in filed' /\ s.kind \in Remembered /\ Id(s) \notin indexed'
        /\ ~(todo' # <<>> /\ todo'[1].op = "index" /\ todo'[1].record = s)
    BY DEF Lacking, Unindexed, Id
  <2>2. Id(s) \notin indexed
    BY <1>7, <2>1
  <2>3. s # r \/ w.op \notin {"file", "index"}
    <3>1. CASE w.op = "file" /\ s = r
      <4>1. todo' # <<>> /\ todo'[1] = v /\ v.op = "index" /\ v.record = r
        BY <1>2, <1>6, <2>1, <3>1 DEF Follows
      <4> QED BY <2>1, <3>1, <4>1
    <3>2. CASE w.op = "index" /\ s = r
      BY <1>7, <2>1, <3>2
    <3> QED BY <3>1, <3>2
  <2>4. s \in filed
    BY <1>5, <2>1, <2>3
  <2>5. ~(w.op = "index" /\ w.record = s)
    BY <1>2, <2>3
  <2> QED BY <1>1, <2>1, <2>2, <2>4, <2>5 DEF Lacking, Unindexed
<1>11. Cardinality(Lacking') <= faults
  <2>1. Lacking \in SUBSET filed
    BY DEF Lacking, Unindexed
  <2>2. IsFiniteSet(Lacking) /\ Cardinality(Lacking) \in Nat
    BY <2>1, FS_Subset, FS_CardinalityType DEF Inv, TypeInv
  <2>3. Cardinality(Lacking') <= Cardinality(Lacking) /\ Cardinality(Lacking') \in Nat
    BY <1>10, <2>2, FS_Subset, FS_CardinalityType
  <2>4. Cardinality(Lacking) <= faults
    BY DEF Inv, MemoryInv
  <2> QED BY <1>4, <2>2, <2>3, <2>4
<1> QED BY <1>4, <1>8, <1>9, <1>11 DEF MemoryInv, Drawn

LEMMA WritingKeepsInv ==
  ASSUME Inv, WriteNext PROVE Inv'
BY WritingKeepsDays, WritingKeepsShelf, WritingKeepsTodo, WritingKeepsMemory DEF Inv


-----------------------------------------------------------------------------
(* A stage that makes records keeps the invariant. *)

\* What the concepts of a phase are built from: a seed each.
Fresh(records) ==
  \A i, j \in 1 .. Len(records) : records[i].from \cap records[j].from # {} => i = j

LEMMA OwingKeepsInv ==
  ASSUME Inv, todo = <<>>, phase \notin Resting,
         NEW kind \in Kinds, NEW records, Made(records, kind), NEW ops, Layout(ops, kind),
         NEW next \in {"build", "revive", "end"}, Owe(Owed(records, ops), next),
         kind = "concept" => phase \in Building /\ step # "end" /\ next = "end" /\ Fresh(records),
         phase \in Building /\ next # "end" => step # "end"
  PROVE  Inv'
<1>1. /\ todo' = Owed(records, ops) /\ step' = next
      /\ UNCHANGED <<idsRepeat, day, phase, visited, filed, indexed, graph, graphFile, faults>>
  BY DEF Owe, disk
<1>2. TypeInv
  BY DEF Inv
<1>3. /\ todo' \in Seq(Writes) /\ Planned(todo') /\ (todo' # <<>> => todo'[1].op = "file")
      /\ \A i \in 1 .. Len(todo') : \E j \in 1 .. Len(records) : todo'[i].record = records[j]
  BY <1>1, <1>2, OwedIsPlanned
<1>4. \A id : Filed(id)' <=> Filed(id)
  BY <1>1 DEF Filed, Id
<1>5. TypeInv'
  BY <1>1, <1>2, <1>3 DEF TypeInv
<1>6. ShelfInv'
  BY <1>1, <1>4 DEF Inv, ShelfInv, Cites, Id
<1>7. TodoInv'
  <2>1. Planned(todo)'
    BY <1>1, <1>3, <1>4 DEF Planned, Cites, Follows
  <2>2. todo' # <<>> => Due(todo[1])'
    BY <1>3 DEF Due
  <2> QED BY <2>1, <2>2 DEF TodoInv
<1>8. MemoryInv'
  <2>1. Lacking = Unindexed /\ Lacking' = Unindexed'
    BY <1>3 DEF Lacking
  <2>2. Unindexed' = Unindexed
    BY <1>1 DEF Unindexed, Id
  <2>3. \A id \in indexed' : id[1] = "chunk" \/ Filed(id)'
    BY <1>1, <1>4 DEF Inv, MemoryInv
  <2>4. Drawn(graph)' /\ Drawn(graphFile)'
    BY <1>1, <1>4 DEF Inv, MemoryInv, Drawn
  <2> QED BY <1>1, <2>1, <2>2, <2>3, <2>4 DEF Inv, MemoryInv
<1>9. DayInv'
  <2>1. \A i \in 1 .. Len(todo') : todo'[i].record.kind = kind
    BY <1>3 DEF Made
  <2>2. ~idsRepeat =>
          /\ \A r \in filed : r.day <= day /\ (r.day = day => r.made \in visited)
          /\ phase \in visited
          /\ phase \in Building /\ next # "end" =>
               /\ \A r \in filed : r.kind = "concept" /\ r.day = day => r.made # phase
               /\ kind # "concept"
    BY DEF Inv, DayInv
  <2> QED BY <1>1, <2>1, <2>2 DEF DayInv
<1>10. SeedInv'
  <2> SUFFICES ASSUME ~idsRepeat,
                      NEW r \in Sheets', NEW s \in Sheets', r.kind = "concept", s.kind = "concept",
                      r.made = s.made, r.from \cap s.from # {}
               PROVE  r = s
    BY <1>1 DEF SeedInv
  <2>1. \A t \in Sheets' : t \in filed \/ \E j \in 1 .. Len(records) : t = records[j]
    BY <1>1, <1>3 DEF Sheets
  <2>2. \A t, u \in filed :
          t.kind = "concept" /\ u.kind = "concept" /\ t.made = u.made /\ t.from \cap u.from # {} => t = u
    BY DEF Inv, SeedInv, Sheets
  <2>3. \A j \in 1 .. Len(records) :
          /\ records[j].kind = kind /\ records[j].day = day /\ records[j].made = phase
          /\ kind = "concept" => \A source \in records[j].from : source[2] = day
    BY DEF Made, Cites
  <2>4. kind = "concept" => \A t \in filed : t.kind = "concept" /\ t.made = phase =>
                              \A source \in t.from : source[2] # day
    <3>1. \A t \in filed : Cites(t)
      BY DEF Inv, ShelfInv
    <3>2. kind = "concept" => \A t \in filed : t.kind = "concept" /\ t.day = day => t.made # phase
      BY DEF Inv, DayInv
    <3>3. \A t \in filed : t.kind = "concept" => \A source \in t.from : source[2] = t.day
      BY <3>1 DEF Cites
    <3> QED BY <3>2, <3>3
  <2>5. kind = "concept" => \A t \in filed : t.kind = "concept" /\ t.made = phase =>
                              \A j \in 1 .. Len(records) : t.from \cap records[j].from = {}
    BY <2>3, <2>4
  <2>6. kind = "concept" => \A i, j \in 1 .. Len(records) :
          records[i].from \cap records[j].from # {} => records[i] = records[j]
    BY DEF Fresh
  <2>7. CASE r \in filed /\ s \in filed
    BY <2>2, <2>7
  <2>8. CASE r \in filed /\ \E j \in 1 .. Len(records) : s = records[j]
    BY <2>3, <2>5, <2>8
  <2>9. CASE s \in filed /\ \E j \in 1 .. Len(records) : r = records[j]
    BY <2>3, <2>5, <2>9
  <2>10. CASE (\E j \in 1 .. Len(records) : r = records[j]) /\ \E j \in 1 .. Len(records) : s = records[j]
    BY <2>3, <2>6, <2>10
  <2> QED BY <2>1, <2>7, <2>8, <2>9, <2>10
<1> QED BY <1>5, <1>6, <1>7, <1>8, <1>9, <1>10 DEF Inv

\* What a record of this kind made today may cite.
Citable(kind) ==
  {id \in Ids : Filed(id) /\ (IF kind = "variant" THEN id[1] # "seed" ELSE id[2] = day)}

LEMMA TodaysAreCitable ==
  ASSUME Inv, NEW cited, NEW r \in Of(cited), NEW kind, kind # "variant"
  PROVE  r \in filed /\ r.day = day /\ Id(r) \in Citable(kind)
<1>1. r \in filed /\ r.day = day /\ r \in Papers
  BY DEF Of, Inv, TypeInv
<1>2. Id(r) \in Ids /\ Id(r)[2] = day
  BY <1>1 DEF Id, Ids, Papers
<1> QED BY <1>1, <1>2 DEF Citable, Filed

LEMMA RecordsAreMade ==
  ASSUME Inv, phase \in Phases, NEW kind \in Kinds, NEW n \in Nat,
         NEW from \in [1 .. n -> SUBSET Citable(kind)], NEW heat \in [1 .. n -> Nat],
         NEW records, records = [i \in 1 .. n |-> records[i]],
         \A i \in 1 .. n : records[i] = Record(kind, i, from[i], heat[i])
  PROVE  Made(records, kind) /\ Len(records) = n
<1>1. Cardinality(Numbered(kind)) \in Nat /\ day \in Nat
  <2>1. Numbered(kind) \in SUBSET filed
    BY DEF Numbered, Of
  <2> QED BY <2>1, FS_Subset, FS_CardinalityType DEF Inv, TypeInv
<1>2. \A i \in 1 .. n : from[i] \in SUBSET Citable(kind) /\ heat[i] \in Nat
  OBVIOUS
<1>3. \A i \in 1 .. n : records[i] = [kind |-> kind, day |-> day, made |-> phase,
                                      n |-> Cardinality(Numbered(kind)) + i, from |-> from[i], heat |-> heat[i]]
  BY DEF Record
<1>4. \A i \in 1 .. n : Cardinality(Numbered(kind)) + i \in Nat /\ from[i] \in SUBSET Ids
  BY <1>1, <1>2 DEF Citable
<1>5. \A i \in 1 .. n : records[i] \in Papers
  BY <1>1, <1>2, <1>3, <1>4 DEF Papers
<1>6. records \in [1 .. n -> Papers]
  BY <1>5
<1>7. records \in Seq(Papers) /\ Len(records) = n
  BY <1>6, FunctionsAreLists
<1>8. \A i \in 1 .. n : Cites(records[i])
  BY <1>2, <1>3 DEF Cites, Citable
<1> QED BY <1>3, <1>7, <1>8 DEF Made

\* Records that cite one record each, in the order of a list.
LEMMA CitingInTurn ==
  ASSUME Inv, phase \in Phases, NEW kind \in Kinds, NEW S, \A r \in S : Id(r) \in Citable(kind),
         NEW s \in Seq(S),
         NEW records, records = [i \in DOMAIN s |-> records[i]],
         \A i \in DOMAIN s : records[i] = Record(kind, i, {Id(s[i])}, 0)
  PROVE  Made(records, kind) /\ Len(records) = Len(s)
<1>1. PICK n : n = Len(s)
  OBVIOUS
<1>2. n \in Nat /\ DOMAIN s = 1 .. n /\ \A i \in 1 .. n : s[i] \in S
  BY <1>1
<1>3. PICK from : from = [i \in 1 .. n |-> {Id(s[i])}]
  OBVIOUS
<1>4. PICK heat : heat = [i \in 1 .. n |-> 0]
  OBVIOUS
<1>5. \A i \in 1 .. n : Id(s[i]) \in Citable(kind)
  BY <1>2
<1>6. from \in [1 .. n -> SUBSET Citable(kind)] /\ heat \in [1 .. n -> Nat]
  BY <1>3, <1>4, <1>5
<1>7. /\ records = [i \in 1 .. n |-> records[i]]
      /\ \A i \in 1 .. n : records[i] = Record(kind, i, from[i], heat[i])
  BY <1>2, <1>3, <1>4
<1>9. Made(records, kind) /\ Len(records) = n
  BY <1>2, <1>6, <1>7, RecordsAreMade
<1> QED BY <1>1, <1>9

\* A list of up to so many members of a set is a list of them.
LEMMA ListsOfAreLists ==
  ASSUME NEW S, NEW n \in Nat, NEW s \in ListsOf(S, n) PROVE s \in Seq(S)
<1>1. PICK m \in 0 .. n : s \in [1 .. m -> S]
  BY DEF ListsOf
<1> QED BY <1>1, FunctionsAreLists

LEMMA PerceivingKeepsInv ==
  ASSUME Inv, CaptureObservation \/ RunResearch \/ GenerateQuestions \/ Harvest
  PROVE  Inv'
<1>0. TypeInv /\ ShelfInv
  BY DEF Inv
<1>9. \A cited : \A kind \in Kinds \ {"variant"} : \A r \in Of(cited) : Id(r) \in Citable(kind)
  BY TodaysAreCitable
<1>1. CASE CaptureObservation
  <2>1. PICK count \in Observations :
          Owe(Owed([i \in 1 .. count |-> Record("observation", i, {}, 0)], Indexing), "end")
    BY <1>1 DEF CaptureObservation
  <2>2. PICK records : records = [i \in 1 .. count |-> Record("observation", i, {}, 0)]
    OBVIOUS
  <2>3. PICK from : from = [i \in 1 .. count |-> {}]
    OBVIOUS
  <2>4. PICK heat : heat = [i \in 1 .. count |-> 0]
    OBVIOUS
  <2>5. /\ records = [i \in 1 .. count |-> records[i]]
        /\ \A i \in 1 .. count : records[i] = Record("observation", i, from[i], heat[i])
    BY <2>2, <2>3, <2>4
  <2>6. count \in Nat /\ phase = "OBSERVATION" /\ todo = <<>>
    BY <1>1, TargetsAreNumbers DEF CaptureObservation, At
  <2>7. from \in [1 .. count -> SUBSET Citable("observation")] /\ heat \in [1 .. count -> Nat]
    BY <2>3, <2>4
  <2>8. "observation" \in Kinds /\ phase \in Phases /\ phase \notin Resting /\ phase \notin Building
    BY <2>6 DEF Kinds, Phases, Resting, Building
  <2>9. Made(records, "observation")
    BY <2>5, <2>6, <2>7, <2>8, RecordsAreMade
  <2>10. Owe(Owed(records, Indexing), "end")
    BY <2>1, <2>2
  <2> QED BY <2>6, <2>8, <2>9, <2>10, OpsAreLaidOut, OwingKeepsInv
<1>2. CASE RunResearch
  <2>1. PICK topics \in Some(FirstOf(NewestFirst("observation"), ResearchTopics)) :
          Owe(Owed([i \in DOMAIN topics |-> Record("finding", i, {Id(topics[i])}, 0)], Indexing), "end")
    BY <1>2 DEF RunResearch
  <2>2. PICK records : records = [i \in DOMAIN topics |-> Record("finding", i, {Id(topics[i])}, 0)]
    OBVIOUS
  <2>3. /\ records = [i \in DOMAIN topics |-> records[i]]
        /\ \A i \in DOMAIN topics : records[i] = Record("finding", i, {Id(topics[i])}, 0)
    BY <2>2
  <2>4. Distinct(NewestFirst("observation"), Of("observation"))
    BY <1>0, ShelfIsSorted
  <2>5. Distinct(FirstOf(NewestFirst("observation"), ResearchTopics), Of("observation"))
    BY <2>4, FirstAreDistinct, TargetsAreNumbers
  <2>6. topics \in Seq(Of("observation"))
    BY <2>1, <2>5, SomeAreDistinct DEF Distinct
  <2>7. phase = "HUNT" /\ todo = <<>>
    BY <1>2 DEF RunResearch, At
  <2>8. "finding" \in Kinds \ {"variant"} /\ phase \in Phases /\ phase \notin Resting /\ phase \notin Building
    BY <2>7 DEF Kinds, Phases, Resting, Building
  <2>9. Made(records, "finding")
    BY <1>9, <2>3, <2>6, <2>8, CitingInTurn
  <2>10. Owe(Owed(records, Indexing), "end")
    BY <2>1, <2>2
  <2> QED BY <2>7, <2>8, <2>9, <2>10, OpsAreLaidOut, OwingKeepsInv
<1>3. CASE GenerateQuestions
  <2> DEFINE most == QuestionsEach * Cardinality(Of("observation"))
  <2>1. PICK asked \in ListsOf(Of("observation"), most) :
          Owe(Owed([i \in DOMAIN asked |-> Record("question", i, {Id(asked[i])}, 0)], Filing), "end")
    BY <1>3 DEF GenerateQuestions
  <2>2. PICK records : records = [i \in DOMAIN asked |-> Record("question", i, {Id(asked[i])}, 0)]
    OBVIOUS
  <2>3. /\ records = [i \in DOMAIN asked |-> records[i]]
        /\ \A i \in DOMAIN asked : records[i] = Record("question", i, {Id(asked[i])}, 0)
    BY <2>2
  <2>4. most \in Nat
    <3>1. Cardinality(Of("observation")) \in Nat
      BY <1>0, ShelfIsSorted, FS_CardinalityType
    <3> QED BY <3>1, TargetsAreNumbers
  <2>5. asked \in Seq(Of("observation"))
    BY <2>1, <2>4, ListsOfAreLists
  <2>6. phase = "FOCUS" /\ todo = <<>>
    BY <1>3 DEF GenerateQuestions, At
  <2>7. "question" \in Kinds \ {"variant"} /\ phase \in Phases /\ phase \notin Resting /\ phase \notin Building
    BY <2>6 DEF Kinds, Phases, Resting, Building
  <2>8. Made(records, "question")
    BY <1>9, <2>3, <2>5, <2>7, CitingInTurn
  <2>9. Owe(Owed(records, Filing), "end")
    BY <2>1, <2>2
  <2> QED BY <2>6, <2>7, <2>8, <2>9, OpsAreLaidOut, OwingKeepsInv
<1>4. CASE Harvest
  <2>1. PICK count \in Fragments :
          Owe(Owed([i \in 1 .. count |-> Record("seed", i, {}, 0)], Filing), "revive")
    BY <1>4 DEF Harvest
  <2>2. PICK records : records = [i \in 1 .. count |-> Record("seed", i, {}, 0)]
    OBVIOUS
  <2>3. PICK from : from = [i \in 1 .. count |-> {}]
    OBVIOUS
  <2>4. PICK heat : heat = [i \in 1 .. count |-> 0]
    OBVIOUS
  <2>5. /\ records = [i \in 1 .. count |-> records[i]]
        /\ \A i \in 1 .. count : records[i] = Record("seed", i, from[i], heat[i])
    BY <2>2, <2>3, <2>4
  <2>6. count \in Nat /\ phase = "DREAMING" /\ todo = <<>>
    BY <1>4, TargetsAreNumbers DEF Harvest, At
  <2>7. from \in [1 .. count -> SUBSET Citable("seed")] /\ heat \in [1 .. count -> Nat]
    BY <2>3, <2>4
  <2>8. "seed" \in Kinds /\ phase \in Phases /\ phase \notin Resting /\ phase \notin Building
    BY <2>6 DEF Kinds, Phases, Resting, Building
  <2>9. Made(records, "seed")
    BY <2>5, <2>6, <2>7, <2>8, RecordsAreMade
  <2>10. Owe(Owed(records, Filing), "revive")
    BY <2>1, <2>2
  <2> QED BY <2>6, <2>8, <2>9, <2>10, OpsAreLaidOut, OwingKeepsInv
<1> QED BY <1>1, <1>2, <1>3, <1>4

\* A mutant or a revenant cites an idea.
LEMMA VariantsKeepInv ==
  ASSUME Inv, Mutate \/ Resurrect PROVE Inv'
<1>1. PICK sources \in ListsOf(Ideas, Variants) :
        Owe(Owed([i \in DOMAIN sources |-> Record("variant", i, {Id(sources[i])}, 0)], Linking), "end")
  BY DEF Mutate, Resurrect, MakeVariants
<1>2. PICK records : records = [i \in DOMAIN sources |-> Record("variant", i, {Id(sources[i])}, 0)]
  OBVIOUS
<1>3. /\ records = [i \in DOMAIN sources |-> records[i]]
      /\ \A i \in DOMAIN sources : records[i] = Record("variant", i, {Id(sources[i])}, 0)
  BY <1>2
<1>4. sources \in Seq(Ideas)
  BY <1>1, ListsOfAreLists, TargetsAreNumbers
<1>5. phase \in {"SECOND_WIND", "DREAMING"} /\ todo = <<>>
  BY DEF Mutate, Resurrect, At
<1>6. "variant" \in Kinds /\ phase \in Phases /\ phase \notin Resting /\ phase \notin Building
  BY <1>5 DEF Kinds, Phases, Resting, Building
<1>7. ASSUME NEW r \in Ideas PROVE Id(r) \in Citable("variant")
  <2>1. r \in filed /\ r \in Papers /\ r.kind # "seed"
    BY <1>7 DEF Ideas, Inv, TypeInv
  <2>2. Id(r) \in Ids /\ Id(r)[1] # "seed"
    BY <2>1 DEF Id, Ids, Papers
  <2> QED BY <2>1, <2>2 DEF Citable, Filed
<1>8. Made(records, "variant")
  BY <1>3, <1>4, <1>6, <1>7, CitingInTurn
<1>9. Owe(Owed(records, Linking), "end")
  BY <1>1, <1>2
<1> QED BY <1>5, <1>6, <1>8, <1>9, OpsAreLaidOut, OwingKeepsInv

LEMMA SourcesAreCitable ==
  ASSUME Inv, NEW i \in Nat, i > 0 PROVE SourcesOf(i) \in SUBSET Citable("seed")
<1> DEFINE questions == NewestFirst("question")
           observations == NewestFirst("observation")
<1>1. Distinct(questions, Of("question")) /\ Distinct(observations, Of("observation"))
  BY ShelfIsSorted DEF Inv
<1>2. questions \in Seq(Of("question")) /\ observations \in Seq(Of("observation"))
  BY <1>1 DEF Distinct
<1> HIDE DEF questions, observations
<1>3. questions # <<>> => Id(questions[((i - 1) % Len(questions)) + 1]) \in Citable("seed")
  <2> SUFFICES ASSUME questions # <<>> PROVE Id(questions[((i - 1) % Len(questions)) + 1]) \in Citable("seed")
    OBVIOUS
  <2>1. PICK n : n = Len(questions)
    OBVIOUS
  <2>2. n \in Nat /\ n > 0
    BY <1>2, <2>1
  <2>3. ((i - 1) % n) + 1 \in 1 .. n
    BY <2>2
  <2>4. questions[((i - 1) % n) + 1] \in Of("question")
    BY <1>2, <2>1, <2>3
  <2> QED BY <2>1, <2>4, TodaysAreCitable
<1>4. observations # <<>> => Id(observations[1]) \in Citable("seed")
  <2> SUFFICES ASSUME observations # <<>> PROVE Id(observations[1]) \in Citable("seed")
    OBVIOUS
  <2>1. observations[1] \in Of("observation")
    BY <1>2, TailShifts
  <2> QED BY <2>1, TodaysAreCitable
<1> QED BY <1>3, <1>4 DEF SourcesOf, questions, observations

LEMMA CreatingKeepsInv ==
  ASSUME Inv, GenerateSeeds \/ BuildConcepts, ~(GenerateSeeds /\ ~Tilts)
  PROVE  Inv'
<1>0. TypeInv /\ ShelfInv
  BY DEF Inv
<1>1. CASE GenerateSeeds /\ Tilts
  <2>1. phase \in Building /\ todo = <<>> /\ step = "start"
    BY <1>1 DEF GenerateSeeds, Building
  <2>2. PICK heats \in SeedHeats :
          Owe(Owed([i \in DOMAIN heats |-> Record("seed", i, SourcesOf(i), heats[i])], Filing), "build")
    BY <1>1 DEF GenerateSeeds
  <2>3. PICK records : records = [i \in DOMAIN heats |-> Record("seed", i, SourcesOf(i), heats[i])]
    OBVIOUS
  <2>4. heats \in Seq(Nat) /\ Len(heats) \in Nat /\ DOMAIN heats = 1 .. Len(heats)
    BY TargetsAreNumbers
  <2>5. PICK from : from = [i \in 1 .. Len(heats) |-> SourcesOf(i)]
    OBVIOUS
  <2>6. from \in [1 .. Len(heats) -> SUBSET Citable("seed")] /\ heats \in [1 .. Len(heats) -> Nat]
    <3>1. \A i \in 1 .. Len(heats) : SourcesOf(i) \in SUBSET Citable("seed")
      BY SourcesAreCitable
    <3> QED BY <2>4, <2>5, <3>1
  <2>7. /\ records = [i \in 1 .. Len(heats) |-> records[i]]
        /\ \A i \in 1 .. Len(heats) : records[i] = Record("seed", i, from[i], heats[i])
    BY <2>3, <2>4, <2>5
  <2>8. "seed" \in Kinds /\ phase \in Phases /\ phase \notin Resting
    BY <2>1 DEF Kinds, Phases, Resting, Building
  <2>9. Made(records, "seed")
    BY <2>4, <2>6, <2>7, <2>8, RecordsAreMade
  <2>10. Owe(Owed(records, Filing), "build")
    BY <2>2, <2>3
  <2> QED BY <2>1, <2>8, <2>9, <2>10, OpsAreLaidOut, OwingKeepsInv
<1>2. CASE BuildConcepts
  <2>1. phase \in Building /\ todo = <<>> /\ step = "build"
    BY <1>2 DEF BuildConcepts, Building
  <2>2. PICK built \in Some(FirstOf(HottestFirst(SeedsOf(day)), ConceptTarget)) :
          Owe(Owed([i \in DOMAIN built |-> Record("concept", i, {Id(built[i])}, 0)], Drawing), "end")
    BY <1>2 DEF BuildConcepts
  <2>3. PICK records : records = [i \in DOMAIN built |-> Record("concept", i, {Id(built[i])}, 0)]
    OBVIOUS
  <2>4. /\ records = [i \in DOMAIN built |-> records[i]]
        /\ \A i \in DOMAIN built : records[i] = Record("concept", i, {Id(built[i])}, 0)
    BY <2>3
  <2>5. SeedsOf(day) = Of("seed")
    BY DEF SeedsOf, Of
  <2>6. Distinct(HottestFirst(SeedsOf(day)), Of("seed"))
    BY <1>0, <2>5, ShelfIsSorted
  <2>7. Distinct(FirstOf(HottestFirst(SeedsOf(day)), ConceptTarget), Of("seed"))
    BY <2>6, FirstAreDistinct, TargetsAreNumbers
  <2>8. Distinct(built, Of("seed")) /\ built \in Seq(Of("seed"))
    BY <2>2, <2>7, SomeAreDistinct DEF Distinct
  <2>9. "concept" \in Kinds \ {"variant"} /\ phase \in Phases /\ phase \notin Resting
    BY <2>1 DEF Kinds, Phases, Resting, Building
  <2>10. \A r \in Of("seed") : Id(r) \in Citable("concept")
    BY <2>9, TodaysAreCitable
  <2>11. Made(records, "concept") /\ Len(records) = Len(built)
    BY <2>4, <2>8, <2>9, <2>10, CitingInTurn
  <2>12. \A i \in 1 .. Len(built) : records[i].from = {Id(built[i])}
    <3>1. \A i \in 1 .. Len(built) : i \in DOMAIN built
      BY <2>8
    <3> QED BY <2>4, <3>1 DEF Record
  <2>13. \A i \in 1 .. Len(built) : built[i] \in filed
    BY <2>8 DEF Of
  <2>14. Owe(Owed(records, Drawing), "end")
    BY <2>2, <2>3
  <2>15. \A i \in 1 .. Len(built) : \A s \in filed : Id(s) = Id(built[i]) => s = built[i]
    BY <1>0, <2>13 DEF ShelfInv
  <2>16. Fresh(records)
    <3>1. \A i, j \in 1 .. Len(built) : {Id(built[i])} \cap {Id(built[j])} # {} => i = j
      BY <2>8, <2>13, <2>15 DEF Distinct
    <3>2. \A i \in 1 .. Len(records) : i \in 1 .. Len(built) /\ records[i].from = {Id(built[i])}
      BY <2>11, <2>12
    <3> QED BY <3>1, <3>2 DEF Fresh
  <2>17. step # "end"
    BY <2>1
  <2> QED BY <2>1, <2>9, <2>11, <2>14, <2>16, <2>17, OpsAreLaidOut, OwingKeepsInv
<1> QED BY <1>1, <1>2

-----------------------------------------------------------------------------
(* A step that leaves nothing to be written keeps the invariant. *)

\* The edges of this process's graph lead where the invariant says, whatever it does.
Pausing ==
  /\ todo' = <<>> /\ UNCHANGED <<idsRepeat, filed>>
  /\ \A id \in indexed' \ indexed : id[1] = "chunk"
  /\ indexed \subseteq indexed' /\ Drawn(graph') /\ Drawn(graphFile')
  /\ faults' \in Nat /\ faults' >= (IF todo = <<>> THEN faults ELSE faults + 1)

LEMMA OneMore ==
  ASSUME NEW S, IsFiniteSet(S), NEW r
  PROVE  /\ IsFiniteSet(S \cup {r}) /\ Cardinality(S \cup {r}) \in Nat
         /\ Cardinality(S) \in Nat /\ Cardinality(S \cup {r}) <= Cardinality(S) + 1
<1>1. CASE r \in S
  <2>1. S \cup {r} = S /\ Cardinality(S) \in Nat
    BY <1>1, FS_CardinalityType
  <2>2. Cardinality(S \cup {r}) = Cardinality(S)
    BY <2>1
  <2> QED BY <2>1, <2>2
<1>2. CASE r \notin S
  <2>1. IsFiniteSet(S \cup {r}) /\ Cardinality(S \cup {r}) = Cardinality(S) + 1
    BY <1>2, FS_AddElement
  <2>2. Cardinality(S) \in Nat
    BY FS_CardinalityType
  <2> QED BY <2>1, <2>2
<1> QED BY <1>1, <1>2

LEMMA PausingKeepsInv ==
  ASSUME Inv, Pausing, TypeInv', DayInv' PROVE Inv'
<1>1. todo' = <<>> /\ UNCHANGED <<idsRepeat, filed>> /\ indexed \subseteq indexed'
  BY DEF Pausing
<1>2. \A id : Filed(id)' <=> Filed(id)
  BY <1>1 DEF Filed, Id
<1>3. ShelfInv'
  BY <1>1, <1>2 DEF Inv, ShelfInv, Cites, Id
<1>4. TodoInv'
  BY <1>1 DEF TodoInv, Planned
<1>5. Lacking' \subseteq Unindexed
  BY <1>1 DEF Lacking, Unindexed, Id
<1>6. Cardinality(Lacking') <= faults'
  <2>1. IsFiniteSet(Unindexed) /\ IsFiniteSet(Lacking)
    <3>1. Unindexed \in SUBSET filed /\ Lacking \in SUBSET filed
      BY DEF Unindexed, Lacking
    <3> QED BY <3>1, FS_Subset DEF Inv, TypeInv
  <2>2. Cardinality(Lacking) \in Nat /\ Cardinality(Lacking) <= faults /\ faults \in Nat
    BY <2>1, FS_CardinalityType DEF Inv, TypeInv, MemoryInv
  <2>3. /\ Cardinality(Lacking') <= Cardinality(Unindexed)
        /\ Cardinality(Lacking') \in Nat /\ Cardinality(Unindexed) \in Nat
    BY <1>5, <2>1, FS_Subset, FS_CardinalityType
  <2>4. CASE todo = <<>>
    <3>1. Lacking = Unindexed
      BY <2>4 DEF Lacking
    <3> QED BY <2>2, <2>3, <2>4, <3>1 DEF Pausing
  <2>5. CASE todo # <<>>
    <3>1. PICK r : r = todo[1].record
      OBVIOUS
    <3>2. Unindexed \subseteq Lacking \cup {r}
      BY <3>1 DEF Lacking
    <3>3. IsFiniteSet(Lacking \cup {r}) /\ Cardinality(Lacking \cup {r}) <= Cardinality(Lacking) + 1
          /\ Cardinality(Lacking \cup {r}) \in Nat
      BY <2>1, OneMore
    <3>4. Cardinality(Unindexed) <= Cardinality(Lacking \cup {r})
      BY <3>2, <3>3, FS_Subset
    <3> QED BY <2>2, <2>3, <2>5, <3>3, <3>4 DEF Pausing
  <2> QED BY <2>4, <2>5
<1>7. MemoryInv'
  <2>1. \A id \in indexed' : id[1] = "chunk" \/ Filed(id)'
    BY <1>2 DEF Inv, MemoryInv, Pausing
  <2>2. \A g \in {graph', graphFile'} : \A e \in g.edges :
          /\ Filed(e[1]) /\ (e[2] = Canon \/ Filed(e[2]))
          /\ e[2][1] = "seed" => e[1] \in g.nodes
    BY DEF Pausing, Drawn
  <2> QED BY <1>2, <1>6, <2>1, <2>2 DEF MemoryInv, Drawn
<1>8. SeedInv'
  <2>1. Sheets' \subseteq Sheets
    BY <1>1 DEF Sheets
  <2> QED BY <1>1, <2>1 DEF Inv, SeedInv
<1> QED BY <1>3, <1>4, <1>7, <1>8 DEF Inv

LEMMA GraphsAreDrawn ==
  ASSUME Inv PROVE Drawn(graph) /\ Drawn(graphFile) /\ Drawn(NoGraph)
BY DEF Inv, MemoryInv, Drawn, NoGraph

\* A step that also leaves alone what is indexed, and the graphs or forgets one.
LEMMA QuietIsPausing ==
  ASSUME Inv, todo' = <<>>, UNCHANGED <<idsRepeat, filed, indexed, graphFile>>, graph' \in {graph, NoGraph},
         faults' \in Nat, faults' >= (IF todo = <<>> THEN faults ELSE faults + 1)
  PROVE  Pausing
<1>1. Drawn(graph') /\ Drawn(graphFile')
  BY GraphsAreDrawn
<1> QED BY <1>1 DEF Pausing

LEMMA DaysKeepInv ==
  ASSUME Inv, Restart \/ BeginDay \/ EndDay \/ Leave \/ Stop \/ \E p \in Enterable : Enter(p)
  PROVE  Inv'
<1>0. faults \in Nat /\ day \in Nat /\ (phase \in Resting => todo = <<>>)
  BY DEF Inv, TypeInv
<1>1. CASE Restart
  <2>1. /\ phase = "down" /\ phase' = "BOOTSTRAP" /\ step' = "start"
        /\ todo = <<>> /\ graph' = NoGraph
        /\ day' = (IF idsRepeat THEN 0 ELSE day)
        /\ UNCHANGED <<idsRepeat, visited, todo, filed, indexed, graphFile, faults>>
    BY <1>0, <1>1 DEF Restart, disk, Resting
  <2>2. Pausing
    BY <1>0, <2>1, QuietIsPausing
  <2>3. TypeInv'
    BY <2>1 DEF Inv, TypeInv, Resting
  <2>4. DayInv'
    BY <2>1 DEF Inv, DayInv, Resting, Building
  <2> QED BY <2>2, <2>3, <2>4, PausingKeepsInv
<1>2. CASE BeginDay
  <2>1. /\ phase = "asleep" /\ phase' = "AWAKENING" /\ step' = "start" /\ day' = day + 1
        /\ todo = <<>> /\ visited' = {"AWAKENING"}
        /\ UNCHANGED <<idsRepeat, todo, filed, indexed, graph, graphFile, faults>>
    BY <1>0, <1>2 DEF BeginDay, Resting
  <2>2. Pausing
    BY <1>0, <2>1, QuietIsPausing
  <2>3. TypeInv'
    BY <2>1 DEF Inv, TypeInv, Resting, Phases
  <2>4. ~idsRepeat => \A r \in filed : r.day <= day' /\ r.day # day'
    <3>1. ~idsRepeat => \A r \in filed : r.day \in Nat /\ r.day <= day
      BY DEF Inv, TypeInv, DayInv, Papers
    <3> QED BY <1>0, <2>1, <3>1
  <2>5. DayInv'
    BY <2>1, <2>4 DEF DayInv, Resting, Building
  <2> QED BY <2>2, <2>3, <2>5, PausingKeepsInv
<1>3. CASE EndDay \/ Leave \/ Stop
  <2>1. /\ phase' \in {"asleep", "between", "down"} /\ todo = <<>>
        /\ UNCHANGED <<idsRepeat, day, step, visited, todo, filed, indexed, graph, graphFile, faults>>
    BY <1>0, <1>3 DEF EndDay, Leave, Stop, disk, Resting
  <2>2. Pausing
    BY <1>0, <2>1, QuietIsPausing
  <2>3. TypeInv'
    BY <2>1 DEF Inv, TypeInv, Resting
  <2>4. DayInv'
    BY <2>1 DEF Inv, DayInv, Resting, Building
  <2> QED BY <2>2, <2>3, <2>4, PausingKeepsInv
<1>4. CASE \E p \in Enterable : Enter(p)
  <2>1. PICK p \in Enterable : Enter(p)
    BY <1>4
  <2>2. p \in Phases /\ p \notin Resting
    BY <2>1 DEF Enterable, WorkingDay, Phases, Resting
  <2>3. /\ phase = "between" /\ phase' = p /\ step' = "start" /\ visited' = visited \cup {p}
        /\ p \notin visited /\ todo = <<>>
        /\ UNCHANGED <<idsRepeat, day, todo, filed, indexed, graph, graphFile, faults>>
    BY <1>0, <2>1 DEF Enter, disk, Resting
  <2>4. Pausing
    BY <1>0, <2>3, QuietIsPausing
  <2>5. TypeInv'
    BY <2>2, <2>3 DEF Inv, TypeInv
  <2>6. DayInv'
    BY <2>3 DEF Inv, DayInv
  <2> QED BY <2>4, <2>5, <2>6, PausingKeepsInv
<1> QED BY <1>1, <1>2, <1>3, <1>4

LEMMA CorpusKeepsInv ==
  ASSUME Inv, Ingest \/ SaveManifest \/ IndexChunk \/ Ready
  PROVE  Inv'
<1>0. faults \in Nat /\ phase \notin Building /\ UNCHANGED <<idsRepeat, filed, faults>>
  BY DEF Inv, TypeInv, Building, Ingest, SaveManifest, IndexChunk, Ready, Reading, disk
<1>1. CASE Ingest \/ SaveManifest
  <2>1. /\ todo = <<>> /\ step' \in {"manifest", "chunks", "end"}
        /\ UNCHANGED <<idsRepeat, day, phase, visited, todo, filed, indexed, graph, graphFile, faults>>
    BY <1>1 DEF Ingest, SaveManifest, Reading, disk
  <2>2. Pausing
    BY <1>0, <2>1, QuietIsPausing
  <2>3. TypeInv'
    BY <2>1 DEF Inv, TypeInv
  <2>4. DayInv'
    BY <1>0, <2>1 DEF Inv, DayInv
  <2> QED BY <2>2, <2>3, <2>4, PausingKeepsInv
<1>2. CASE IndexChunk
  <2>1. /\ todo = <<>> /\ indexed \subseteq indexed' /\ \A id \in indexed' \ indexed : id[1] = "chunk"
        /\ UNCHANGED <<idsRepeat, day, phase, step, visited, todo, filed, graph, graphFile, faults>>
    BY <1>2 DEF IndexChunk, Chunk, Inv, TypeInv, Resting
  <2>2. Pausing
    BY <1>0, <2>1, GraphsAreDrawn DEF Pausing
  <2>3. TypeInv'
    BY <2>1 DEF Inv, TypeInv
  <2>4. DayInv'
    BY <2>1 DEF Inv, DayInv
  <2> QED BY <2>2, <2>3, <2>4, PausingKeepsInv
<1>3. CASE Ready
  <2>1. /\ todo = <<>> /\ phase' = "asleep" /\ step' = "end"
        /\ UNCHANGED <<idsRepeat, day, visited, todo, filed, indexed, graph, graphFile, faults>>
    BY <1>3 DEF Ready, disk, Inv, TypeInv, Resting
  <2>2. Pausing
    BY <1>0, <2>1, QuietIsPausing
  <2>3. TypeInv'
    BY <2>1 DEF Inv, TypeInv, Resting
  <2>4. DayInv'
    BY <2>1 DEF Inv, DayInv, Resting, Building
  <2> QED BY <2>2, <2>3, <2>4, PausingKeepsInv
<1> QED BY <1>1, <1>2, <1>3

LEMMA OtherStepsKeepInv ==
  ASSUME Inv, Abandon \/ Kill \/ ConnectLore \/ (GenerateSeeds /\ ~Tilts)
  PROVE  Inv'
<1>1. CASE Abandon \/ Kill
  <2>1. faults \in Nat /\ faults' = faults + 1 /\ phase' \in Resting /\ todo' = <<>> /\ step' = "end"
        /\ UNCHANGED <<idsRepeat, day, visited, filed, indexed, graph, graphFile>>
    BY <1>1 DEF Abandon, Kill, disk, Inv, TypeInv, Resting
  <2>2. Pausing
    BY <2>1, QuietIsPausing
  <2>3. TypeInv'
    BY <2>1 DEF Inv, TypeInv
  <2>4. DayInv'
    BY <2>1 DEF Inv, DayInv
  <2> QED BY <2>2, <2>3, <2>4, PausingKeepsInv
<1>2. CASE GenerateSeeds /\ ~Tilts
  <2>1. /\ todo = <<>> /\ todo' = <<>> /\ step' = "end" /\ phase \notin Resting /\ faults \in Nat
        /\ UNCHANGED <<idsRepeat, day, phase, visited, filed, indexed, graph, graphFile, faults>>
    BY <1>2 DEF GenerateSeeds, Owe, disk, Inv, TypeInv, Resting
  <2>2. Pausing
    BY <2>1, QuietIsPausing
  <2>3. TypeInv'
    BY <2>1 DEF Inv, TypeInv
  <2>4. DayInv'
    BY <2>1 DEF Inv, DayInv
  <2> QED BY <2>2, <2>3, <2>4, PausingKeepsInv
<1>3. CASE ConnectLore
  <2>1. /\ todo = <<>> /\ todo' = <<>> /\ step' = "end" /\ phase = "REFLECTION" /\ faults \in Nat
        /\ UNCHANGED <<idsRepeat, day, phase, visited, filed, indexed, faults>>
    BY <1>3 DEF ConnectLore, At, Inv, TypeInv
  <2>2. Drawn(graph') /\ Drawn(graphFile')
    <3>1. CASE UNCHANGED <<graph, graphFile>>
      BY <3>1, GraphsAreDrawn
    <3>2. CASE \E idea \in Ideas : Draw({}, {<<Id(idea), Canon>>})
      <4>1. PICK idea \in Ideas : Draw({}, {<<Id(idea), Canon>>})
        BY <3>2
      <4>2. Filed(Id(idea))
        BY DEF Ideas, Filed
      <4>3. /\ graph'.edges = graph.edges \cup {<<Id(idea), Canon>>} /\ graph'.nodes = graph.nodes
            /\ graphFile' = graph'
        BY <4>1 DEF Draw
      <4>4. Canon[1] # "seed"
        BY DEF Canon
      <4>5. \A e \in graph'.edges : e \in graph.edges \/ (e[1] = Id(idea) /\ e[2] = Canon)
        BY <4>3
      <4>6. \A e \in graph.edges : /\ Filed(e[1]) /\ (e[2] = Canon \/ Filed(e[2]))
                                   /\ e[2][1] = "seed" => e[1] \in graph.nodes
        BY GraphsAreDrawn DEF Drawn
      <4> QED BY <4>2, <4>3, <4>4, <4>5, <4>6 DEF Drawn
    <3> QED BY <1>3, <3>1, <3>2 DEF ConnectLore
  <2>3. Pausing
    BY <2>1, <2>2 DEF Pausing
  <2>4. TypeInv'
    BY <2>1 DEF Inv, TypeInv, Phases, Resting
  <2>5. DayInv'
    BY <2>1 DEF Inv, DayInv
  <2> QED BY <2>3, <2>4, <2>5, PausingKeepsInv
<1> QED BY <1>1, <1>2, <1>3

LEMMA InvHolds == Init => Inv
<1> SUFFICES ASSUME Init PROVE Inv
  OBVIOUS
<1>1. filed = {} /\ todo = <<>> /\ indexed = {} /\ faults = 0 /\ phase = "down" /\ day = 0
      /\ step = "end" /\ graph.edges = {} /\ graphFile.edges = {} /\ idsRepeat \in BOOLEAN
  BY DEF Init, NoGraph
<1>2. TypeInv
  BY <1>1, FS_EmptySet DEF TypeInv, Resting
<1>3. Cardinality(Lacking) = 0
  <2>1. Lacking = {}
    BY <1>1 DEF Lacking, Unindexed
  <2> QED BY <2>1, FS_EmptySet
<1>4. MemoryInv
  BY <1>1, <1>3 DEF MemoryInv, Drawn
<1>5. ShelfInv /\ TodoInv /\ DayInv
  BY <1>1 DEF ShelfInv, TodoInv, Planned, DayInv, Resting, Building
<1>6. SeedInv
  BY <1>1 DEF SeedInv, Sheets
<1> QED BY <1>2, <1>4, <1>5, <1>6 DEF Inv

LEMMA StepsKeepInv == Inv /\ [Next]_vars => Inv'
<1> SUFFICES ASSUME Inv, [Next]_vars PROVE Inv'
  OBVIOUS
<1>1. CASE UNCHANGED vars
  <2>1. UNCHANGED <<idsRepeat, day, phase, step, visited, todo, filed, indexed, graph, graphFile, faults>>
    BY <1>1 DEF vars
  <2>2. TypeInv' /\ DayInv'
    BY <2>1 DEF Inv, TypeInv, DayInv
  <2>3. ShelfInv'
    BY <2>1 DEF Inv, ShelfInv, Cites, Filed, Id
  <2>4. TodoInv'
    BY <2>1 DEF Inv, TodoInv, Planned, Due, Follows, Cites, Filed, Id
  <2>5. MemoryInv'
    <3>1. Lacking' = Lacking
      BY <2>1 DEF Lacking, Unindexed, Id
    <3> QED BY <2>1, <3>1 DEF Inv, MemoryInv, Drawn, Filed, Id
  <2>6. SeedInv'
    BY <2>1 DEF Inv, SeedInv, Sheets
  <2> QED BY <2>2, <2>3, <2>4, <2>5, <2>6 DEF Inv
<1>2. CASE Restart \/ BeginDay \/ EndDay \/ Leave \/ Stop \/ \E p \in Enterable : Enter(p)
  BY <1>2, DaysKeepInv
<1>3. CASE Ingest \/ SaveManifest \/ IndexChunk \/ Ready
  BY <1>3, CorpusKeepsInv
<1>4. CASE Abandon \/ Kill \/ ConnectLore \/ (GenerateSeeds /\ ~Tilts)
  BY <1>4, OtherStepsKeepInv
<1>5. CASE CaptureObservation \/ RunResearch \/ GenerateQuestions \/ Harvest
  BY <1>5, PerceivingKeepsInv
<1>6. CASE (GenerateSeeds \/ BuildConcepts) /\ ~(GenerateSeeds /\ ~Tilts)
  BY <1>6, CreatingKeepsInv
<1>7. CASE Mutate \/ Resurrect
  BY <1>7, VariantsKeepInv
<1>8. CASE WriteNext
  BY <1>8, WritingKeepsInv
<1> QED BY <1>1, <1>2, <1>3, <1>4, <1>5, <1>6, <1>7, <1>8 DEF Next

LEMMA MemoryIsKept == Spec => []Inv
BY InvHolds, StepsKeepInv, PTL DEF Spec

\* What a record cites was filed before it, ids repeated or not; what the vector
\* memory and the edges of the graph name can be found; and a fault costs the vector
\* memory one record at most (the writes of adapters/persistence and the stages of
\* observing.py, generating.py, competing.py and subconscious.py), for any documents,
\* topics, seeds, fragments, variants, days, processes and faults.
THEOREM EveryTraceLeads == Spec => []TracesLead
<1>1. Inv => TracesLead
  <2> SUFFICES ASSUME Inv PROVE TracesLead
    OBVIOUS
  <2>1. \A r \in filed : \A source \in r.from :
          Filed(source) /\ (r.kind # "variant" => source[2] = r.day)
    BY DEF Inv, ShelfInv, Cites
  <2>2. \A id \in indexed : id[1] = "chunk" \/ Filed(id)
    BY DEF Inv, MemoryInv
  <2>3. \A e \in graphFile.edges :
          /\ Filed(e[1]) /\ (e[2] = Canon \/ Filed(e[2]))
          /\ e[2][1] = "seed" => e[1] \in graphFile.nodes
    BY DEF Inv, MemoryInv, Drawn
  <2>4. {r \in filed : r.kind \in {"observation", "finding", "concept"} /\ Id(r) \notin indexed} = Unindexed
    BY DEF Unindexed, Remembered
  <2>5. todo # <<>> => Head(todo) = todo[1]
    BY TailShifts DEF Inv, TypeInv
  <2>6. Cardinality(Unindexed) <= faults + (IF todo # <<>> /\ Head(todo).op = "index" THEN 1 ELSE 0)
    <3> DEFINE spare == IF todo # <<>> /\ Head(todo).op = "index" THEN 1 ELSE 0
    <3>1. PICK r : r = todo[1].record
      OBVIOUS
    <3>2. IsFiniteSet(Lacking) /\ IsFiniteSet(Unindexed)
      <4>1. Unindexed \in SUBSET filed /\ Lacking \in SUBSET filed
        BY DEF Unindexed, Lacking
      <4> QED BY <4>1, FS_Subset DEF Inv, TypeInv
    <3>3. Cardinality(Lacking) \in Nat /\ Cardinality(Lacking) <= faults /\ faults \in Nat
      BY <3>2, FS_CardinalityType DEF Inv, TypeInv, MemoryInv
    <3>4. CASE todo # <<>> /\ Head(todo).op = "index"
      <4>1. Unindexed \subseteq Lacking \cup {r}
        BY <3>1 DEF Lacking
      <4>2. IsFiniteSet(Lacking \cup {r}) /\ Cardinality(Lacking \cup {r}) <= Cardinality(Lacking) + 1
            /\ Cardinality(Lacking \cup {r}) \in Nat
        BY <3>2, OneMore
      <4>3. Cardinality(Unindexed) <= Cardinality(Lacking \cup {r}) /\ Cardinality(Unindexed) \in Nat
        BY <3>2, <4>1, <4>2, FS_Subset, FS_CardinalityType
      <4> QED BY <3>3, <3>4, <4>2, <4>3
    <3>5. CASE ~(todo # <<>> /\ Head(todo).op = "index")
      <4>1. Lacking = Unindexed
        BY <2>5, <3>5 DEF Lacking
      <4> QED BY <3>3, <3>5, <4>1
    <3> QED BY <3>4, <3>5
  <2> QED BY <2>1, <2>2, <2>3, <2>4, <2>6 DEF TracesLead
<1> QED BY <1>1, MemoryIsKept, PTL

\* A phase builds one concept at most from a seed, in processes that draw ids of
\* their own (generating.py's _build_concepts, which lists the cycle's seeds in
\* CREATION and EXPLORATION alike, a dream's among them), for the same constants.
THEOREM SeedsAreWorkedOnce == Spec => []SeedsWorkedOnce
<1>1. Inv => SeedsWorkedOnce
  <2> SUFFICES ASSUME Inv, ~idsRepeat, NEW seed \in filed,
                      NEW r \in BuiltFrom(seed), NEW s \in BuiltFrom(seed), r.made = s.made
               PROVE  r = s
    BY DEF SeedsWorkedOnce
  <2>1. r \in Sheets /\ s \in Sheets /\ r.kind = "concept" /\ s.kind = "concept"
        /\ Id(seed) \in r.from \cap s.from
    BY DEF BuiltFrom, Sheets
  <2> QED BY <2>1 DEF Inv, SeedInv
<1> QED BY <1>1, MemoryIsKept, PTL

-----------------------------------------------------------------------------
(* The corpus. *)

Corpora == {"BOOTSTRAP", "AWAKENING"}

Unsaved == phase \in Corpora /\ step = "manifest"

AllIndexed(d) == \A i \in 1 .. Chunks[d] : Chunk(d, i) \in indexed

\* What a process does not know, and what no manifest names while none is about to be
\* saved, has only been read by processes that a fault stopped in between; what has
\* been read and not saved was read just now.
CorpusInv ==
  /\ faults \in Nat /\ readings \in [Documents -> Seq(Corpora)]
  /\ phase # "down" => manifest \subseteq known /\ documents \subseteq known
  /\ phase = "BOOTSTRAP" /\ step = "chunks" => documents \subseteq manifest
  /\ \A d \in Documents :
       /\ Len(readings[d]) <= 1 + faults
       /\ d \in known \cup manifest => readings[d] # <<>>
       /\ d \notin known => Len(readings[d]) <= faults
       /\ ~Unsaved /\ d \notin manifest => Len(readings[d]) <= faults
       /\ d \notin manifest => \A i \in 1 .. Chunks[d] : Chunk(d, i) \notin indexed
       /\ faults = 0 /\ phase # "down" /\ d \in known \ manifest =>
            Unsaved /\ d \in documents /\ Last(readings[d]) = phase
       /\ faults = 0 /\ d \in manifest =>
            AllIndexed(d) \/ (phase = "BOOTSTRAP" /\ d \in documents) \/ Last(readings[d]) = "AWAKENING"

\* The steps that touch nothing of the corpus.
Elsewhere ==
  /\ UNCHANGED <<known, manifest, documents, readings, faults>>
  /\ \A d, i : Chunk(d, i) \in indexed' <=> Chunk(d, i) \in indexed
  /\ phase' # "down" => phase # "down"
  /\ Unsaved <=> Unsaved'
  /\ Unsaved => phase' = phase
  /\ phase' = "BOOTSTRAP" <=> phase = "BOOTSTRAP"
  /\ phase = "BOOTSTRAP" => step' = step

LEMMA OtherStepsAreElsewhere ==
  ASSUME Inv, [Next]_vars
  PROVE  Restart \/ Ingest \/ SaveManifest \/ IndexChunk \/ Ready \/ Abandon \/ Kill \/ Elsewhere
<1>1. CASE BeginDay \/ Leave \/ EndDay \/ Stop
  BY <1>1 DEF BeginDay, Leave, EndDay, Stop, Elsewhere, Unsaved, Corpora, disk
<1>2. CASE \E p \in Enterable : Enter(p)
  <2>1. PICK p \in Enterable : Enter(p)
    BY <1>2
  <2>2. p \notin Corpora /\ p # "down"
    BY <2>1 DEF Enterable, WorkingDay, Corpora
  <2> QED BY <2>1, <2>2 DEF Enter, Elsewhere, Unsaved, Corpora, disk
<1>3. CASE CaptureObservation \/ RunResearch \/ GenerateQuestions \/ Harvest
  BY <1>3 DEF CaptureObservation, RunResearch, GenerateQuestions, Harvest, At, Owe, Elsewhere,
              Unsaved, Corpora, disk
<1>4. CASE Mutate \/ Resurrect \/ ConnectLore
  BY <1>4 DEF Mutate, Resurrect, MakeVariants, ConnectLore, At, Owe, Elsewhere, Unsaved, Corpora, disk
<1>5. CASE GenerateSeeds \/ BuildConcepts
  BY <1>5 DEF GenerateSeeds, BuildConcepts, Owe, Elsewhere, Unsaved, Corpora, disk
<1>6. CASE WriteNext
  <2>1. PICK r : r = todo[1].record
    OBVIOUS
  <2>2. /\ r \in Papers /\ UNCHANGED <<phase, step, faults>>
        /\ UNCHANGED indexed \/ indexed' = indexed \cup {Id(r)}
    BY <1>6, <2>1, NextWrite
  <2>3. r.kind # "chunk"
    BY <2>2 DEF Papers, Kinds
  <2>4. \A d, i : Chunk(d, i) # Id(r)
    BY <2>3 DEF Chunk, Id
  <2>5. UNCHANGED <<known, manifest, documents, readings>>
    BY <1>6 DEF WriteNext
  <2> QED BY <2>2, <2>4, <2>5 DEF Elsewhere, Unsaved
<1>7. CASE UNCHANGED vars
  BY <1>7 DEF Elsewhere, Unsaved, vars
<1> QED BY <1>1, <1>2, <1>3, <1>4, <1>5, <1>6, <1>7 DEF Next

LEMMA ReadingKeepsCorpus ==
  ASSUME CorpusInv, Ingest PROVE CorpusInv'
<1>1. PICK fresh \in SUBSET Documents :
        /\ fresh \cap known = {} /\ known' = known \cup fresh /\ documents' = documents \cup fresh
        /\ readings' = [d \in Documents |->
                          IF d \in fresh THEN Append(readings[d], phase) ELSE readings[d]]
  <2>1. PICK readable \in SUBSET Documents :
          LET fresh == readable \ known IN
          /\ known' = known \cup fresh /\ documents' = documents \cup fresh
          /\ readings' = [d \in Documents |->
                            IF d \in fresh THEN Append(readings[d], phase) ELSE readings[d]]
    BY DEF Ingest
  <2> WITNESS readable \ known \in SUBSET Documents
  <2> QED BY <2>1
<1>2. /\ phase \in Corpora /\ step = "start" /\ step' = "manifest"
      /\ UNCHANGED <<phase, faults, manifest, indexed>>
  BY DEF Ingest, Reading, Corpora, disk
<1>3. Unsaved' /\ ~Unsaved /\ phase # "down"
  BY <1>2 DEF Unsaved, Corpora
<1>4. ASSUME NEW d \in fresh
      PROVE  /\ readings'[d] \in Seq(Corpora) /\ Len(readings'[d]) = Len(readings[d]) + 1
             /\ readings'[d] # <<>> /\ Last(readings'[d]) = phase
  <2>1. readings[d] \in Seq(Corpora) /\ readings'[d] = Append(readings[d], phase)
    BY <1>1 DEF CorpusInv
  <2> QED BY <1>2, <2>1 DEF Last
<1>5. \A d \in Documents \ fresh : readings'[d] = readings[d]
  BY <1>1
<1>6. readings' \in [Documents -> Seq(Corpora)]
  <2>1. \A d \in Documents : readings'[d] \in Seq(Corpora)
    BY <1>4, <1>5 DEF CorpusInv
  <2> QED BY <1>1, <2>1
<1>7. \A d \in fresh : d \notin known /\ d \notin manifest
  BY <1>1, <1>3 DEF CorpusInv
<1>8. \A d \in Documents : Len(readings[d]) \in Nat
  BY DEF CorpusInv
<1>9. manifest \subseteq known' /\ documents' \subseteq known'
  BY <1>1, <1>3 DEF CorpusInv
<1>10. ASSUME NEW d \in Documents
       PROVE  /\ Len(readings'[d]) <= 1 + faults
              /\ d \in known' \cup manifest => readings'[d] # <<>>
              /\ d \notin known' => Len(readings'[d]) <= faults
              /\ d \notin manifest => \A i \in 1 .. Chunks[d] : Chunk(d, i) \notin indexed
              /\ faults = 0 /\ d \in known' \ manifest => d \in documents' /\ Last(readings'[d]) = phase
              /\ faults = 0 /\ d \in manifest =>
                   \/ AllIndexed(d) \/ (phase = "BOOTSTRAP" /\ d \in documents')
                   \/ Last(readings'[d]) = "AWAKENING"
  <2>1. CASE d \in fresh
    <3>1. Len(readings[d]) <= faults /\ d \notin manifest /\ d \in known' /\ d \in documents'
      BY <1>1, <1>7, <2>1 DEF CorpusInv
    <3> QED BY <1>4, <1>8, <2>1, <3>1 DEF CorpusInv
  <2>2. CASE d \notin fresh
    <3>1. readings'[d] = readings[d] /\ (d \in known' <=> d \in known) /\ (d \in documents' <=> d \in documents)
      BY <1>1, <1>5, <2>2
    <3>2. ~(faults = 0 /\ d \in known \ manifest)
      BY <1>3 DEF CorpusInv
    <3> QED BY <3>1, <3>2 DEF CorpusInv
  <2> QED BY <2>1, <2>2
<1>11. faults \in Nat
  BY DEF CorpusInv
<1> QED BY <1>2, <1>3, <1>6, <1>9, <1>10, <1>11 DEF CorpusInv, AllIndexed, Chunk

LEMMA IndexingKeepsCorpus ==
  ASSUME CorpusInv, IndexChunk PROVE CorpusInv'
<1>1. PICK d0 \in documents : \E i \in 1 .. Chunks[d0] : indexed' = indexed \cup {Chunk(d0, i)}
  BY DEF IndexChunk
<1>2. PICK i0 \in 1 .. Chunks[d0] : indexed' = indexed \cup {Chunk(d0, i0)}
  BY <1>1
<1>3. d0 \in manifest
  BY <1>1 DEF IndexChunk, CorpusInv
<1>4. \A d, i : Chunk(d, i) \in indexed' /\ Chunk(d, i) \notin indexed => d \in manifest
  BY <1>2, <1>3 DEF Chunk
<1>5. \A d : AllIndexed(d) => AllIndexed(d)'
  BY <1>2 DEF AllIndexed, Chunk
<1>6. UNCHANGED <<phase, step, known, manifest, documents, readings, faults>>
  BY DEF IndexChunk
<1>7. Unsaved' <=> Unsaved
  BY <1>6 DEF Unsaved
<1>8. \A d \in Documents : d \notin manifest => \A i \in 1 .. Chunks[d] : Chunk(d, i) \notin indexed'
  BY <1>4 DEF CorpusInv
<1>9. \A d \in Documents : faults = 0 /\ d \in manifest =>
        AllIndexed(d)' \/ (phase = "BOOTSTRAP" /\ d \in documents) \/ Last(readings[d]) = "AWAKENING"
  BY <1>5 DEF CorpusInv
<1> QED BY <1>6, <1>7, <1>8, <1>9 DEF CorpusInv, Chunk

LEMMA StepsKeepCorpus == Inv /\ CorpusInv /\ [Next]_vars => CorpusInv'
<1> SUFFICES ASSUME Inv, CorpusInv, [Next]_vars PROVE CorpusInv'
  OBVIOUS
<1>1. CASE Restart
  <2>1. /\ phase = "down" /\ phase' = "BOOTSTRAP" /\ step' = "start" /\ known' = manifest
        /\ documents' = {} /\ UNCHANGED <<manifest, indexed, readings, faults>>
    BY <1>1 DEF Restart, disk
  <2>2. ~Unsaved /\ ~Unsaved'
    BY <2>1 DEF Unsaved, Corpora
  <2>3. \A d : AllIndexed(d)' <=> AllIndexed(d)
    BY <2>1 DEF AllIndexed, Chunk
  <2> QED BY <2>1, <2>2, <2>3 DEF CorpusInv, Chunk
<1>2. CASE Ingest
  BY <1>2, ReadingKeepsCorpus
<1>3. CASE SaveManifest
  <2>1. /\ Unsaved /\ phase \in Corpora /\ manifest' = known /\ step' \in {"chunks", "end"}
        /\ UNCHANGED <<phase, known, documents, indexed, readings, faults>>
    BY <1>3 DEF SaveManifest, Reading, Unsaved, Corpora
  <2>2. ~Unsaved' /\ phase # "down" /\ manifest \subseteq manifest'
    BY <2>1 DEF Unsaved, Corpora, CorpusInv
  <2>3. \A d : AllIndexed(d)' <=> AllIndexed(d)
    BY <2>1 DEF AllIndexed, Chunk
  <2>4. \A d \in Documents : faults = 0 /\ d \in manifest' =>
          AllIndexed(d) \/ (phase = "BOOTSTRAP" /\ d \in documents) \/ Last(readings[d]) = "AWAKENING"
    <3>1. \A d \in Documents : faults = 0 /\ d \in known \ manifest =>
            d \in documents /\ Last(readings[d]) = phase
      BY <2>2 DEF CorpusInv
    <3>2. phase = "BOOTSTRAP" \/ phase = "AWAKENING"
      BY <2>1 DEF Corpora
    <3> QED BY <2>1, <3>1, <3>2 DEF CorpusInv
  <2>5. \A d \in Documents : d \notin manifest' =>
          Len(readings[d]) <= faults /\ \A i \in 1 .. Chunks[d] : Chunk(d, i) \notin indexed
    BY <2>1, <2>2 DEF CorpusInv
  <2> QED BY <2>1, <2>2, <2>3, <2>4, <2>5 DEF CorpusInv, Chunk
<1>4. CASE IndexChunk
  BY <1>4, IndexingKeepsCorpus
<1>5. CASE Ready
  <2>1. /\ phase = "BOOTSTRAP" /\ step = "chunks" /\ phase' = "asleep" /\ step' = "end"
        /\ \A d \in documents : AllIndexed(d)
        /\ UNCHANGED <<known, manifest, documents, indexed, readings, faults>>
    BY <1>5 DEF Ready, AllIndexed, disk
  <2>2. ~Unsaved /\ ~Unsaved'
    BY <2>1 DEF Unsaved, Corpora
  <2>3. \A d : AllIndexed(d)' <=> AllIndexed(d)
    BY <2>1 DEF AllIndexed, Chunk
  <2> QED BY <2>1, <2>2, <2>3 DEF CorpusInv, Chunk
<1>6. CASE Abandon \/ Kill
  <2>1. /\ phase # "down" /\ phase' \in {"between", "asleep", "down"} /\ faults' = faults + 1
        /\ UNCHANGED <<known, manifest, documents, indexed, readings>>
    BY <1>6 DEF Abandon, Kill, Awake, disk
  <2>2. ~Unsaved' /\ faults \in Nat /\ faults' # 0
    BY <2>1 DEF Unsaved, Corpora, CorpusInv
  <2>3. \A d \in Documents : Len(readings[d]) \in Nat
    BY DEF CorpusInv
  <2> QED BY <2>1, <2>2, <2>3 DEF CorpusInv, Chunk
<1>7. CASE Elsewhere
  <2>1. \A d : AllIndexed(d)' <=> AllIndexed(d)
    BY <1>7 DEF AllIndexed, Elsewhere, Chunk
  <2>2. \A d, i : Chunk(d, i) \in indexed' <=> Chunk(d, i) \in indexed
    BY <1>7 DEF Elsewhere
  <2> QED BY <1>7, <2>1, <2>2 DEF Elsewhere, CorpusInv, Chunk
<1> QED BY <1>1, <1>2, <1>3, <1>4, <1>5, <1>6, <1>7, OtherStepsAreElsewhere

\* A document is read by one process only, unless a fault came between reading it and
\* saving the manifest; the manifest names none that nobody has read; and what it
\* names is in the vector memory, but for what AWAKENING read or a fault cut short
\* (bootstrap and _awaken, which ingest alike, and only the first of which indexes),
\* for any documents, chunks, days, bounds and faults.
THEOREM CorpusIsReadOnce == Spec => []CorpusReadOnce
<1>1. Init => CorpusInv
  BY DEF Init, CorpusInv, Unsaved, Corpora, Chunk
<1>2. CorpusInv => CorpusReadOnce
  BY DEF CorpusInv, CorpusReadOnce, AllIndexed
<1> QED BY <1>1, <1>2, StepsKeepCorpus, MemoryIsKept, PTL DEF Spec

=============================================================================
