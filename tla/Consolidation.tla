--------------------------- MODULE Consolidation ---------------------------
(***************************************************************************)
(* The CONSOLIDATION phase and the files it grows: memory records that     *)
(* fade (application/use_cases/learning.py, domain/policies/               *)
(* memory_policy.py, domain/entities/memory.py) and the versioned evolving *)
(* DNA with its snapshots (domain/value_objects/dna.py, domain/policies/   *)
(* dna_evolution.py).  Every file is written by itself, a process can be   *)
(* killed between two writes, nothing locks the data directory, and        *)
(* scripts/reset_state.py wipes it while no process runs.                  *)
(* One bucket of the DNA stands for its six, which are treated alike.      *)
(***************************************************************************)
EXTENDS Integers, SequencesExt

CONSTANTS
  Procs,             \* brain processes on one data directory
  Reports,           \* bound: entries the LEARNING agent may report
  Key,               \* an entry's strip().lower(); Blank for an empty one
  Blank,
  LearningEnabled,   \* may_update_evolving_dna
  NewEntriesCap,     \* max_new_entries_per_cycle
  BucketCap,         \* MAX_ENTRIES_PER_BUCKET
  DecayWindow,       \* the limit of the listing that decays, 500
  MinEvents,         \* min_events_per_principle
  Cycles,            \* bound: what a cycle leaves to remember and how many events
  Proposals,         \* bound: how many principles the MEMORY agent may propose
  ShippedSnapshots,  \* bound: the snapshots a fresh checkout may hold
  MaxNights,         \* bound: consolidations begun
  MaxKills,          \* bound: processes killed
  MaxResets          \* bound: runs of the reset script

ASSUME CapsAreNatural ==
  NewEntriesCap \in Nat /\ BucketCap \in Nat \ {0} /\ DecayWindow \in Nat

\* Reports are lists of entries; a cycle leaves a list to remember, an agent another.
ASSUME ListsAreLists ==
  /\ \A report \in Reports : report \in Seq(DOMAIN Key)
  /\ \A cycle \in Cycles : Len(cycle.subjects) \in Nat /\ DOMAIN cycle.subjects = 1 .. Len(cycle.subjects)
  /\ Proposals \subseteq Nat

VARIABLES
  shelf,      \* the episodic records, the file written last first
  kept,       \* the records of every other kind
  live,       \* evolving_dna.json; version 0 when there is none
  snapshots,  \* versions/evolving_dna_v<n>.json, by n
  proc,       \* what each process is doing
  nights,     \* consolidations begun so far
  nightfalls, \* listings that decayed, for the properties
  lost,       \* versions whose snapshot a kill prevented, for the properties
  overlapped, \* have two processes been consolidating at once since a reset?
  kills, resets

memoryFiles == <<shelf, kept>>
dnaFiles == <<live, snapshots>>
history == <<nights, nightfalls, lost, overlapped, kills, resets>>
vars == <<shelf, kept, live, snapshots, proc, nights, nightfalls, lost, overlapped, kills, resets>>

-----------------------------------------------------------------------------
(* The evolving DNA. *)

NewDna == [version |-> 0, bucket |-> <<>>, change_log |-> <<>>]

\* Variant for mutation runs: one entry too many makes room.
NewestButOne(entries, cap) ==
  SubSeq(entries, IF Len(entries) > cap THEN Len(entries) - cap + 2 ELSE 1, Len(entries))

Newest(entries, cap) ==
  SubSeq(entries, IF Len(entries) > cap THEN Len(entries) - cap + 1 ELSE 1, Len(entries))

Known(entries, e) == \E i \in DOMAIN entries : Key[entries[i]] = Key[e]

Extend(current, new, cap) ==
  LET merged[n \in 0 .. Len(new)] ==
        IF n = 0 THEN current
        ELSE IF Key[new[n]] = Blank \/ Known(merged[n - 1], new[n]) THEN merged[n - 1]
        ELSE Append(merged[n - 1], new[n])
  IN Newest(merged[Len(new)], cap)

\* The change log never reaches its 200 lines within the bounds.
Learn(dna, entries) ==
  [version |-> dna.version + 1,
   bucket |-> Extend(dna.bucket, entries, BucketCap),
   change_log |-> Append(dna.change_log, dna.version + 1)]

Evolve(dna, report) ==
  IF LearningEnabled
  THEN Learn(dna, SubSeq(report, 1, IF Len(report) < NewEntriesCap THEN Len(report) ELSE NewEntriesCap))
  ELSE dna

-----------------------------------------------------------------------------
(* Memory records. *)

Kinds == {"episodic", "semantic", "creative", "rejected", "successful"}

\* A concept is filed by how its cycle ended for it, an observation as it is.
KindOf(subject) ==
  IF subject.what = "observation" THEN "episodic"
  ELSE IF subject.approved THEN "successful"
  ELSE IF subject.reasons THEN "rejected" ELSE "creative"

Record(kind, night, subject) == [kind |-> kind, night |-> night, subject |-> subject]

ShouldDecay(record) == record.kind \notin {"rejected", "successful"} /\ record.kind # "semantic"

\* fades counts the times 0.92 was applied to the salience.
Decay(episode) ==
  IF ShouldDecay(episode.record) THEN [episode EXCEPT !.fades = @ + 1] ELSE episode

\* Variant for mutation runs: the listing stops one short of its limit.
WindowShort == SubSeq(shelf, 1, IF Len(shelf) < DecayWindow THEN Len(shelf) ELSE DecayWindow - 1)

\* The episodes of a listing, newest file first.
Window == SubSeq(shelf, 1, IF Len(shelf) < DecayWindow THEN Len(shelf) ELSE DecayWindow)

\* The shelf once the file of this episode has been written (again).
Shelved(episode) ==
  LET older == {i \in DOMAIN shelf : shelf[i].record = episode.record}
  IN  <<episode>> \o IF older = {} THEN shelf ELSE RemoveAt(shelf, CHOOSE i \in older : TRUE)

-----------------------------------------------------------------------------
(* One process's way through the phase. *)

Idle == [step |-> "idle", night |-> 0, events |-> 0, todo |-> <<>>, batch |-> <<>>, dna |-> NewDna]

Running == {p \in Procs : proc[p].step # "idle"}

MayBecomePrinciple(events) == events >= MinEvents

Init ==
  /\ shelf = <<>> /\ kept = {}
  /\ live = NewDna /\ snapshots \in ShippedSnapshots
  /\ proc = [p \in Procs |-> Idle]
  /\ nights = 0 /\ nightfalls = 0 /\ lost = {} /\ overlapped = FALSE
  /\ kills = 0 /\ resets = 0

Begin(p) ==
  /\ proc[p].step = "idle" /\ nights < MaxNights
  /\ nights' = nights + 1
  /\ \E cycle \in Cycles :
       proc' = [proc EXCEPT ![p] =
                  [Idle EXCEPT !.step = "remember", !.night = nights', !.events = cycle.events,
                     !.todo = [i \in DOMAIN cycle.subjects |->
                                 Record(KindOf(cycle.subjects[i]), nights', i)]]]
  /\ overlapped' = (overlapped \/ Running # {})
  /\ UNCHANGED <<memoryFiles, dnaFiles, nightfalls, lost, kills, resets>>

\* One record added: concepts, then observations, and later the principles.
Remember(p) ==
  /\ proc[p].step \in {"remember", "distilled"} /\ proc[p].todo # <<>>
  /\ LET record == Head(proc[p].todo) IN
     IF record.kind = "episodic"
     THEN shelf' = Shelved([record |-> record, fades |-> 0, since |-> nightfalls]) /\ UNCHANGED kept
     ELSE kept' = kept \cup {record} /\ UNCHANGED shelf
  /\ proc' = [proc EXCEPT ![p].todo = Tail(@)]
  /\ UNCHANGED <<dnaFiles, history>>

\* The MEMORY agent's principles, or none when it fails; too few events and none
\* of them counts.
Distil(p) ==
  /\ proc[p].step = "remember" /\ proc[p].todo = <<>>
  /\ \E n \in Proposals :
       proc' = [proc EXCEPT ![p].step = "distilled",
                  ![p].todo = IF MayBecomePrinciple(proc[p].events)
                              THEN [i \in 1 .. n |-> Record("semantic", proc[p].night, i)]
                              ELSE <<>>]
  /\ UNCHANGED <<memoryFiles, dnaFiles, history>>

ListEpisodes(p) ==
  /\ proc[p].step = "distilled" /\ proc[p].todo = <<>>
  /\ proc' = [proc EXCEPT ![p].step = "fading",
                ![p].batch = [i \in DOMAIN Window |-> Decay(Window[i])]]
  /\ nightfalls' = nightfalls + 1
  /\ UNCHANGED <<memoryFiles, dnaFiles, nights, lost, overlapped, kills, resets>>

SaveFaded(p) ==
  /\ proc[p].step = "fading" /\ proc[p].batch # <<>>
  /\ shelf' = Shelved(Head(proc[p].batch))
  /\ proc' = [proc EXCEPT ![p].batch = Tail(@)]
  /\ UNCHANGED <<kept, dnaFiles, history>>

\* After obsessions and meta-cognition, which file nothing.
LoadEvolving(p) ==
  /\ proc[p].step = "fading" /\ proc[p].batch = <<>>
  /\ proc' = [proc EXCEPT ![p].step = "learning", ![p].dna = live]
  /\ UNCHANGED <<memoryFiles, dnaFiles, history>>

\* The LEARNING agent has answered: a disabled policy hands back what it was given.
SaveEvolving(p) ==
  /\ proc[p].step = "learning"
  /\ \E report \in Reports :
       LET updated == Evolve(proc[p].dna, report) IN
       IF updated.version = proc[p].dna.version
       THEN proc' = [proc EXCEPT ![p] = Idle] /\ UNCHANGED live
       ELSE /\ live' = updated
            /\ proc' = [proc EXCEPT ![p].step = "learned", ![p].dna = updated]
  /\ UNCHANGED <<memoryFiles, snapshots, history>>

\* Variant for mutation runs: a snapshot that exists is left alone.
SnapshottedOnce(dna) ==
  [v \in DOMAIN snapshots \cup {dna.version} |-> IF v \in DOMAIN snapshots THEN snapshots[v] ELSE dna]

Snapshotted(dna) ==
  [v \in DOMAIN snapshots \cup {dna.version} |-> IF v = dna.version THEN dna ELSE snapshots[v]]

SaveSnapshot(p) ==
  /\ proc[p].step = "learned"
  /\ snapshots' = Snapshotted(proc[p].dna)
  /\ proc' = [proc EXCEPT ![p] = Idle]
  /\ UNCHANGED <<memoryFiles, live, history>>

\* A kill, or an error of the disk: no caller catches either.
Kill(p) ==
  /\ proc[p].step # "idle" /\ kills < MaxKills
  /\ kills' = kills + 1
  /\ lost' = lost \cup (IF proc[p].step = "learned" THEN {proc[p].dna.version} ELSE {})
  /\ proc' = [proc EXCEPT ![p] = Idle]
  /\ UNCHANGED <<memoryFiles, dnaFiles, nights, nightfalls, overlapped, resets>>

\* The reset script wipes the records and *.json of evolving_dna, not versions/.
Reset ==
  /\ Running = {} /\ resets < MaxResets
  /\ shelf' = <<>> /\ kept' = {} /\ live' = NewDna
  /\ lost' = {} /\ overlapped' = FALSE
  /\ resets' = resets + 1
  /\ UNCHANGED <<snapshots, proc, nights, nightfalls, kills>>

Next ==
  \/ \E p \in Procs :
       \/ Begin(p) \/ Remember(p) \/ Distil(p) \/ ListEpisodes(p) \/ SaveFaded(p)
       \/ LoadEvolving(p) \/ SaveEvolving(p) \/ SaveSnapshot(p) \/ Kill(p)
  \/ Reset

Spec == Init /\ [][Next]_vars

=============================================================================
