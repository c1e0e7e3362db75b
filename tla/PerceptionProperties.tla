------------------------ MODULE PerceptionProperties ------------------------
(***************************************************************************)
(* What the perception run asks.                                           *)
(***************************************************************************)
EXTENDS Perception

Filed(id) == \E r \in filed : Id(r) = id

\* Every record can be traced back: what it cites was filed before it, in the same
\* cycle unless it is an idea made of another, however many phases were abandoned;
\* an entry of the vector memory is a filed record's or a document's; an edge of the
\* knowledge graph starts at a record and leads to one or to the canon, and where it
\* leads to a seed it starts at a node of the same file, though every process begins
\* the file anew; and only a fault between two writes leaves an observation, a
\* finding or a concept out of the vector memory.
TracesLead ==
  /\ \A r \in filed : \A source \in r.from :
       Filed(source) /\ (r.kind # "variant" => source[2] = r.day)
  /\ \A id \in indexed : id[1] = "chunk" \/ Filed(id)
  /\ \A e \in graphFile.edges :
       /\ Filed(e[1]) /\ (e[2] = Canon \/ Filed(e[2]))
       /\ e[2][1] = "seed" => e[1] \in graphFile.nodes
  /\ Cardinality({r \in filed : r.kind \in {"observation", "finding", "concept"} /\ Id(r) \notin indexed})
       <= faults + (IF todo # <<>> /\ Head(todo).op = "index" THEN 1 ELSE 0)

BuiltFrom(seed) == {r \in filed : r.kind = "concept" /\ Id(seed) \in r.from}

\* A seed becomes at most one concept in each of the two phases that build, though
\* EXPLORATION lists CREATION's seeds again, and those a dream left before it; with
\* one seed for every process a later day's seeds have the ids of an earlier one's,
\* and its concepts stand beside theirs.
SeedsWorkedOnce ==
  ~idsRepeat => \A seed \in {r \in filed : r.kind = "seed"} :
    \A r, s \in BuiltFrom(seed) : r.made = s.made => r = s

\* A document is read by one process only, whatever the others had read, unless a
\* kill came between reading it and saving the manifest; the manifest names none that
\* nobody has read and every one the vector memory knows a chunk of; and one it names
\* is in the vector memory with all its chunks, unless it came after the process had
\* started, whose AWAKENING indexes nothing, or the process that was indexing it was
\* killed.
CorpusReadOnce ==
  \A d \in Documents :
    /\ Len(readings[d]) <= 1 + faults
    /\ d \in manifest => readings[d] # <<>>
    /\ d \notin manifest => \A i \in 1 .. Chunks[d] : Chunk(d, i) \notin indexed
    /\ d \in manifest =>
         \/ \A i \in 1 .. Chunks[d] : Chunk(d, i) \in indexed
         \/ phase = "BOOTSTRAP" \/ Last(readings[d]) = "AWAKENING" \/ faults > 0

-----------------------------------------------------------------------------
(* The values of the run. *)

SomeHeats == {<<1>>}
TwoEach == [d \in Documents |-> 2]
TwoDaysOrOne == [repeat \in BOOLEAN |-> IF repeat THEN 1 ELSE 2]

=============================================================================
