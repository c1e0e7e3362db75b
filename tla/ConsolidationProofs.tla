------------------------- MODULE ConsolidationProofs -------------------------
(***************************************************************************)
(* Every version of the evolving DNA is accounted for, whatever is learned *)
(* and forgotten, by any number of processes, kills and resets.            *)
(***************************************************************************)
EXTENDS ConsolidationProperties, ListProofs

\* A version has its snapshot, had it prevented by a kill, or is about to get it.
Covered(v) == v \in DOMAIN snapshots \/ v \in lost \/ Writing(v)

CoveredUpTo(n) == \A v \in 1 .. n : Covered(v)

\* The live DNA and what a process loaded of it are covered; a process that is
\* alone is about to snapshot the live DNA itself, or it has been snapshotted.
Fields == {"step", "night", "events", "todo", "batch", "dna"}

IInv ==
  /\ live.version \in Nat
  /\ proc = [p \in Procs |-> proc[p]]
  /\ \A p \in Procs : proc[p] = [f \in Fields |-> proc[p][f]] /\ proc[p].dna.version \in Nat
  /\ CoveredUpTo(live.version)
  /\ \A p \in Procs : proc[p].step = "learning" => CoveredUpTo(proc[p].dna.version)
  /\ ~overlapped => \A p, q \in Running : p = q
  /\ ~overlapped => \A p \in Procs : proc[p].step = "learned" => proc[p].dna = live
  /\ ~overlapped /\ live.version > 0 /\ live.version \notin lost /\ ~Writing(live.version)
       => snapshots[live.version] = live

-----------------------------------------------------------------------------

\* Learning makes the next version, or with the policy switched off none.
LEMMA EvolvesByOne ==
  ASSUME NEW dna, dna.version \in Nat, NEW report
  PROVE  Evolve(dna, report).version \in {dna.version, dna.version + 1}
BY DEF Evolve, Learn

\* A step of one process that has no snapshot to write before or after it, and
\* leaves the DNA it loaded alone.
LEMMA BesideTheDna ==
  ASSUME IInv, NEW p \in Procs, NEW r,
         proc' = [proc EXCEPT ![p] = r],
         proc[p].step \notin {"idle", "learning", "learned"},
         r.step \notin {"idle", "learning", "learned"},
         r = [f \in Fields |-> r[f]], r.dna.version \in Nat,
         UNCHANGED <<live, snapshots, lost, overlapped>>
  PROVE  IInv'
<1>1. proc' = [q \in Procs |-> proc'[q]] /\ proc'[p] = r /\ \A q \in Procs \ {p} : proc'[q] = proc[q]
  BY DEF IInv
<1>2. \A v : Writing(v)' <=> Writing(v)
  BY <1>1 DEF Writing
<1>3. Running' = Running
  BY <1>1 DEF Running
<1> QED BY <1>1, <1>2, <1>3 DEF IInv, CoveredUpTo, Covered

\* The process of p goes back to sleep without a snapshot to write.
LEMMA BackToSleep ==
  ASSUME IInv, NEW p \in Procs,
         proc' = [proc EXCEPT ![p] = Idle],
         proc[p].step = "learned" => proc[p].dna.version \in DOMAIN snapshots' \cup lost',
         DOMAIN snapshots \subseteq DOMAIN snapshots', lost \subseteq lost',
         ~overlapped /\ live.version \notin lost' /\ live.version > 0
           /\ ~ (\E q \in Procs \ {p} : proc[q].step = "learned" /\ proc[q].dna.version = live.version)
           => snapshots'[live.version] = live,
         UNCHANGED <<live, overlapped>>
  PROVE  IInv'
<1>1. /\ proc' = [q \in Procs |-> proc'[q]] /\ \A q \in Procs \ {p} : proc'[q] = proc[q]
      /\ proc'[p] = Idle /\ Idle.step = "idle" /\ Idle.dna.version = 0
      /\ Idle = [f \in Fields |-> Idle[f]]
  BY DEF IInv, Idle, Fields, NewDna
<1>2. \A v : Covered(v) => Covered(v)'
  BY <1>1 DEF Covered, Writing
<1>3. Running' \subseteq Running
  BY <1>1 DEF Running
<1>4. \A v : Writing(v)' <=> \E q \in Procs \ {p} : proc[q].step = "learned" /\ proc[q].dna.version = v
  BY <1>1 DEF Writing
<1> QED BY <1>1, <1>2, <1>3, <1>4 DEF IInv, CoveredUpTo

THEOREM EveryVersionIsCovered == Spec => []IInv
<1>1. Init => IInv
  BY DEF Init, IInv, Idle, NewDna, Fields, CoveredUpTo, Running
<1>2. IInv /\ [Next]_vars => IInv'
  <2> SUFFICES ASSUME IInv, [Next]_vars PROVE IInv'
    OBVIOUS
  <2>1. CASE UNCHANGED vars
    BY <2>1 DEF vars, IInv, CoveredUpTo, Covered, Writing, Running
  <2>2. ASSUME NEW p \in Procs, Begin(p) PROVE IInv'
    <3>a. PICK cycle \in Cycles :
            proc' = [proc EXCEPT ![p] =
                       [Idle EXCEPT !.step = "remember", !.night = nights', !.events = cycle.events,
                          !.todo = [i \in DOMAIN cycle.subjects |->
                                      Record(KindOf(cycle.subjects[i]), nights', i)]]]
      BY <2>2 DEF Begin
    <3> DEFINE todo == [i \in DOMAIN cycle.subjects |-> Record(KindOf(cycle.subjects[i]), nights', i)]
               r == [Idle EXCEPT !.step = "remember", !.night = nights', !.events = cycle.events,
                                 !.todo = todo]
    <3>1. proc' = [proc EXCEPT ![p] = r] /\ r.step = "remember" /\ r.dna.version = 0
          /\ r = [f \in Fields |-> r[f]]
      <4>1. proc' = [proc EXCEPT ![p] = r]
        BY <3>a
      <4> HIDE DEF todo
      <4> QED BY <4>1 DEF Idle, NewDna, Fields
    <3> HIDE DEF r
    <3>2. proc' = [q \in Procs |-> proc'[q]] /\ proc'[p] = r /\ \A q \in Procs \ {p} : proc'[q] = proc[q]
      BY <3>1 DEF IInv
    <3>3. \A v : Writing(v)' <=> Writing(v)
      BY <2>2, <3>1, <3>2 DEF Writing, Begin
    <3>4. Running' \subseteq Running \cup {p}
      BY <3>2 DEF Running
    <3>5. (~overlapped' => ~overlapped /\ Running = {}) /\ UNCHANGED <<live, snapshots, lost>>
      BY <2>2 DEF Begin, dnaFiles
    <3>6. \A v : Covered(v)' <=> Covered(v)
      BY <3>3, <3>5 DEF Covered
    <3>7. CoveredUpTo(live.version)' /\ live'.version \in Nat
      BY <3>5, <3>6 DEF IInv, CoveredUpTo
    <3>8. \A q \in Procs : proc'[q].step = "learning" =>
            \A v \in 1 .. proc'[q].dna.version : Covered(v)'
      BY <3>1, <3>2, <3>6 DEF IInv, CoveredUpTo
    <3>9. ~overlapped' =>
            /\ \A a, b \in Running' : a = b
            /\ \A q \in Procs : proc'[q].step = "learned" => proc'[q].dna = live'
      BY <3>1, <3>2, <3>4, <3>5 DEF IInv
    <3>10. ~overlapped' /\ live'.version > 0 /\ live'.version \notin lost' /\ ~Writing(live.version)'
             => snapshots'[live'.version] = live'
      BY <3>3, <3>5 DEF IInv
    <3>11. /\ proc' = [q \in Procs |-> proc'[q]]
           /\ \A q \in Procs : proc'[q] = [f \in Fields |-> proc'[q][f]] /\ proc'[q].dna.version \in Nat
      BY <3>1, <3>2 DEF IInv
    <3> QED BY SMTT(30), <3>7, <3>8, <3>9, <3>10, <3>11 DEF IInv, CoveredUpTo
  <2>3. ASSUME NEW p \in Procs, Remember(p) PROVE IInv'
    <3> DEFINE r == [proc[p] EXCEPT !.todo = Tail(proc[p].todo)]
    <3>1. proc' = [proc EXCEPT ![p] = r] /\ UNCHANGED <<live, snapshots, lost, overlapped>>
          /\ proc[p].step \notin {"idle", "learning", "learned"}
      BY <2>3 DEF Remember, IInv, dnaFiles, memoryFiles, history
    <3>2. r = [f \in Fields |-> r[f]] /\ r.step \in {"fading", proc[p].step} /\ r.dna = proc[p].dna
      BY DEF IInv, Fields
    <3> HIDE DEF r
    <3> QED BY <3>1, <3>2, BesideTheDna DEF IInv
  <2>4. ASSUME NEW p \in Procs, Distil(p) PROVE IInv'
    <3>1. PICK todo : proc' = [proc EXCEPT ![p].step = "distilled", ![p].todo = todo]
      BY <2>4 DEF Distil
    <3> DEFINE r == [proc[p] EXCEPT !.step = "distilled", !.todo = todo]
    <3>2. proc' = [proc EXCEPT ![p] = r] /\ UNCHANGED <<live, snapshots, lost, overlapped>>
          /\ proc[p].step \notin {"idle", "learning", "learned"}
      BY <2>4, <3>1 DEF Distil, IInv, dnaFiles, memoryFiles, history
    <3>3. r = [f \in Fields |-> r[f]] /\ r.step = "distilled" /\ r.dna = proc[p].dna
      BY DEF IInv, Fields
    <3> HIDE DEF r
    <3> QED BY <3>2, <3>3, BesideTheDna DEF IInv
  <2>5. ASSUME NEW p \in Procs, ListEpisodes(p) PROVE IInv'
    <3> DEFINE batch == [i \in DOMAIN Window |-> Decay(Window[i])]
               r == [proc[p] EXCEPT !.step = "fading", !.batch = batch]
    <3>1. proc' = [proc EXCEPT ![p] = r] /\ UNCHANGED <<live, snapshots, lost, overlapped>>
          /\ proc[p].step \notin {"idle", "learning", "learned"}
      BY <2>5 DEF ListEpisodes, IInv, dnaFiles, memoryFiles, history
    <3>2. r = [f \in Fields |-> r[f]] /\ r.step \in {"fading", proc[p].step} /\ r.dna = proc[p].dna
      BY DEF IInv, Fields
    <3> HIDE DEF r
    <3> QED BY <3>1, <3>2, BesideTheDna DEF IInv
  <2>6. ASSUME NEW p \in Procs, SaveFaded(p) PROVE IInv'
    <3> DEFINE r == [proc[p] EXCEPT !.batch = Tail(proc[p].batch)]
    <3>1. proc' = [proc EXCEPT ![p] = r] /\ UNCHANGED <<live, snapshots, lost, overlapped>>
          /\ proc[p].step \notin {"idle", "learning", "learned"}
      BY <2>6 DEF SaveFaded, IInv, dnaFiles, memoryFiles, history
    <3>2. r = [f \in Fields |-> r[f]] /\ r.step \in {"fading", proc[p].step} /\ r.dna = proc[p].dna
      BY DEF IInv, Fields
    <3> HIDE DEF r
    <3> QED BY <3>1, <3>2, BesideTheDna DEF IInv
  <2>7. ASSUME NEW p \in Procs, LoadEvolving(p) PROVE IInv'
    <3> DEFINE r == [proc[p] EXCEPT !.step = "learning", !.dna = live]
    <3>1. proc' = [proc EXCEPT ![p] = r]
      BY <2>7 DEF LoadEvolving
    <3>2. r.step = "learning" /\ r.dna = live /\ r = [f \in Fields |-> r[f]]
      BY DEF IInv, Fields
    <3> HIDE DEF r
    <3>3. proc' = [q \in Procs |-> proc'[q]] /\ proc'[p] = r /\ \A q \in Procs \ {p} : proc'[q] = proc[q]
      BY <3>1 DEF IInv
    <3>4. \A v : Writing(v)' <=> Writing(v)
      BY <2>7, <3>2, <3>3 DEF Writing, LoadEvolving
    <3>5. Running' = Running
      BY <2>7, <3>2, <3>3 DEF Running, LoadEvolving
    <3>6. UNCHANGED <<live, snapshots, lost, overlapped>>
      BY <2>7 DEF LoadEvolving, dnaFiles, history
    <3> QED BY <3>2, <3>3, <3>4, <3>5, <3>6 DEF IInv, CoveredUpTo, Covered
  <2>8. ASSUME NEW p \in Procs, SaveEvolving(p) PROVE IInv'
    <3>a. PICK report \in Reports :
            LET updated == Evolve(proc[p].dna, report) IN
            IF updated.version = proc[p].dna.version
            THEN proc' = [proc EXCEPT ![p] = Idle] /\ UNCHANGED live
            ELSE /\ live' = updated
                 /\ proc' = [proc EXCEPT ![p].step = "learned", ![p].dna = updated]
      BY <2>8 DEF SaveEvolving
    <3>1. PICK updated :
          /\ updated.version \in {proc[p].dna.version, proc[p].dna.version + 1}
          /\ IF updated.version = proc[p].dna.version
             THEN proc' = [proc EXCEPT ![p] = Idle] /\ UNCHANGED live
             ELSE /\ live' = updated
                  /\ proc' = [proc EXCEPT ![p].step = "learned", ![p].dna = updated]
      <4> DEFINE evolved == Evolve(proc[p].dna, report)
      <4>1. proc[p].dna.version \in Nat
        BY DEF IInv
      <4>2. evolved.version \in {proc[p].dna.version, proc[p].dna.version + 1}
        BY <4>1, EvolvesByOne
      <4>3. IF evolved.version = proc[p].dna.version
            THEN proc' = [proc EXCEPT ![p] = Idle] /\ UNCHANGED live
            ELSE /\ live' = evolved
                 /\ proc' = [proc EXCEPT ![p].step = "learned", ![p].dna = evolved]
        BY <3>a
      <4> HIDE DEF evolved
      <4> QED BY <4>2, <4>3
    <3>2. proc[p].step = "learning" /\ UNCHANGED <<snapshots, lost, overlapped>>
      BY <2>8 DEF SaveEvolving, history
    <3>3. CASE updated.version = proc[p].dna.version
      BY <3>1, <3>2, <3>3, BackToSleep DEF IInv, Writing
    <3>4. CASE updated.version = proc[p].dna.version + 1
      <4> DEFINE r == [proc[p] EXCEPT !.step = "learned", !.dna = updated]
      <4>1. live' = updated /\ proc' = [proc EXCEPT ![p] = r]
        BY <3>1, <3>4 DEF IInv
      <4>2. r.step = "learned" /\ r.dna = updated /\ r = [f \in Fields |-> r[f]]
        BY DEF IInv, Fields
      <4> HIDE DEF r
      <4>3. /\ proc' = [q \in Procs |-> proc'[q]] /\ proc'[p] = r
            /\ \A q \in Procs \ {p} : proc'[q] = proc[q]
        BY <4>1 DEF IInv
      <4>4. Writing(updated.version)' /\ \A v : Writing(v) => Writing(v)'
        BY <3>2, <4>2, <4>3 DEF Writing
      <4>5. Running' = Running
        BY <3>2, <4>2, <4>3 DEF Running
      <4>6. \A v : Covered(v) => Covered(v)'
        BY <3>2, <4>4 DEF Covered
      <4>7. CoveredUpTo(updated.version)'
        <5>1. \A v \in 1 .. updated.version : v = updated.version \/ v \in 1 .. proc[p].dna.version
          BY SMTT(30), <3>4 DEF IInv
        <5>2. CoveredUpTo(proc[p].dna.version)
          BY <3>2 DEF IInv
        <5> QED BY <4>4, <4>6, <5>1, <5>2 DEF CoveredUpTo, Covered
      <4>8. ~overlapped => \A q \in Procs : proc'[q].step = "learned" => proc'[q].dna = updated
        BY <3>2, <4>2, <4>3 DEF IInv, Running
      <4>9. updated.version \in Nat
        BY <3>4 DEF IInv
      <4>10. \A q \in Procs : proc'[q].step = "learning" =>
                \A v \in 1 .. proc'[q].dna.version : Covered(v)'
        BY <4>2, <4>3, <4>6 DEF IInv, CoveredUpTo
      <4> QED
        BY <3>2, <4>1, <4>2, <4>3, <4>4, <4>5, <4>6, <4>7, <4>8, <4>9, <4>10 DEF IInv, CoveredUpTo
    <3> QED BY <3>1, <3>3, <3>4
  <2>9. ASSUME NEW p \in Procs, SaveSnapshot(p) PROVE IInv'
    <3>1. /\ proc[p].step = "learned" /\ proc' = [proc EXCEPT ![p] = Idle]
          /\ snapshots' = Snapshotted(proc[p].dna) /\ UNCHANGED <<live, lost, overlapped>>
      BY <2>9 DEF SaveSnapshot, history
    <3>2. /\ DOMAIN snapshots' = DOMAIN snapshots \cup {proc[p].dna.version}
          /\ snapshots'[proc[p].dna.version] = proc[p].dna
      BY <3>1 DEF Snapshotted
    <3>3. ~overlapped => snapshots'[live.version] = live
      BY <3>1, <3>2 DEF IInv
    <3> QED BY <3>1, <3>2, <3>3, BackToSleep
  <2>10. ASSUME NEW p \in Procs, Kill(p) PROVE IInv'
    <3>1. /\ proc' = [proc EXCEPT ![p] = Idle] /\ UNCHANGED <<live, snapshots, overlapped>>
          /\ lost \subseteq lost' /\ (proc[p].step = "learned" => proc[p].dna.version \in lost')
      BY <2>10 DEF Kill, dnaFiles
    <3>2. ~overlapped /\ live.version \notin lost' /\ live.version > 0
            /\ ~ (\E q \in Procs \ {p} : proc[q].step = "learned" /\ proc[q].dna.version = live.version)
            => snapshots'[live.version] = live
      <4>1. live.version \notin lost' =>
              ~ (proc[p].step = "learned" /\ proc[p].dna.version = live.version)
        BY <3>1
      <4> QED BY <3>1, <4>1 DEF IInv, Writing
    <3> QED BY <3>1, <3>2, BackToSleep
  <2>11. CASE Reset
    <3>1. \A p \in Procs : proc[p].step = "idle"
      BY <2>11 DEF Reset, Running
    <3>2. live'.version = 0 /\ UNCHANGED <<proc, snapshots>>
      BY <2>11 DEF Reset, NewDna
    <3>3. Running' = {}
      BY <3>1, <3>2 DEF Running
    <3> QED BY <3>1, <3>2, <3>3 DEF IInv, CoveredUpTo
  <2> QED
    BY <2>1, <2>2, <2>3, <2>4, <2>5, <2>6, <2>7, <2>8, <2>9, <2>10, <2>11 DEF Next
<1> QED BY <1>1, <1>2, PTL DEF Spec

\* Every version the live DNA went through has its snapshot unless a kill prevented
\* it, and the live version's is the live DNA while no process overlapped another
\* (learning.py: save of the DNA and then of its version; reset_state.py).
THEOREM SnapshotsAreAccountedFor == Spec => []SnapshotsAccountedFor
<1>1. IInv => SnapshotsAccountedFor
  BY DEF IInv, SnapshotsAccountedFor, CoveredUpTo, Covered
<1> QED BY <1>1, EveryVersionIsCovered, PTL

-----------------------------------------------------------------------------
(* What learning keeps. *)

\* One entry more of what the DNA learns.
Merge(merged, current, new, n) ==
  IF n = 0 THEN current
  ELSE IF Key[new[n]] = Blank \/ Known(merged[n - 1], new[n]) THEN merged[n - 1]
  ELSE Append(merged[n - 1], new[n])

\* A bucket has neither blanks nor entries that differ only in case.
Proper(bucket) ==
  /\ bucket \in Seq(Entries)
  /\ \A i, j \in DOMAIN bucket :
       Key[bucket[i]] # Blank /\ (Key[bucket[i]] = Key[bucket[j]] => i = j)

\* Entry for entry, s begins with t.
Begins(s, t) == Len(t) <= Len(s) /\ \A i \in 1 .. Len(t) : s[i] = t[i]

\* What is merged into depends on what was merged so far only.
LEMMA MergesAgree ==
  ASSUME NEW g, NEW h, NEW current, NEW new, NEW n \in Nat, n # 0 => h[n - 1] = g[n - 1]
  PROVE  Merge(h, current, new, n) = Merge(g, current, new, n)
<1>1. CASE n = 0
  BY <1>1 DEF Merge
<1>2. CASE n # 0
  BY <1>2 DEF Merge
<1> QED BY <1>1, <1>2

LEMMA MergeExists ==
  ASSUME NEW current, NEW new \in Seq(Entries), NEW cap
  PROVE  \E merged : /\ merged = [n \in 0 .. Len(new) |-> Merge(merged, current, new, n)]
                     /\ Extend(current, new, cap) = Newest(merged[Len(new)], cap)
<1> DEFINE Upto(m) == \E g : g = [n \in 0 .. m |-> Merge(g, current, new, n)]
           E == {m \in Nat : Upto(m)}
<1>1. 0 \in E
  <2> DEFINE g == [n \in 0 .. 0 |-> current]
  <2>1. g = [n \in 0 .. 0 |-> Merge(g, current, new, n)]
    BY DEF Merge
  <2> QED BY <2>1
<1>2. \A m \in E : m + 1 \in E
  <2> SUFFICES ASSUME NEW m \in Nat, NEW g, g = [n \in 0 .. m |-> Merge(g, current, new, n)]
               PROVE  Upto(m + 1)
    OBVIOUS
  <2> DEFINE h == [n \in 0 .. m + 1 |-> IF n = m + 1 THEN Merge(g, current, new, n) ELSE g[n]]
  <2>1. \A n \in 0 .. m : g[n] = Merge(g, current, new, n)
    BY SMTT(30)
  <2>2. \A n \in 0 .. m : h[n] = g[n]
    OBVIOUS
  <2>3. \A n \in 0 .. m + 1 : Merge(h, current, new, n) = Merge(g, current, new, n)
    <3> HIDE DEF h
    <3> TAKE n \in 0 .. m + 1
    <3>1. n # 0 => n - 1 \in 0 .. m
      OBVIOUS
    <3>2. n # 0 => h[n - 1] = g[n - 1]
      BY <2>2, <3>1
    <3> QED BY <3>2, MergesAgree
  <2>4. \A n \in 0 .. m + 1 : h[n] = Merge(g, current, new, n)
    BY <2>1
  <2>5. h = [n \in 0 .. m + 1 |-> h[n]]
    OBVIOUS
  <2> HIDE DEF h
  <2>6. h = [n \in 0 .. m + 1 |-> Merge(h, current, new, n)]
    BY <2>3, <2>4, <2>5
  <2> QED BY <2>6
<1>3. E = Nat
  <2> HIDE DEF E
  <2>1. E \in SUBSET Nat
    BY DEF E
  <2> QED BY SMTT(30), <1>1, <1>2, <2>1, NumbersInduct
<1>4. Upto(Len(new))
  BY <1>3
<1> DEFINE merged == CHOOSE merged : merged = [n \in 0 .. Len(new) |->
              IF n = 0 THEN current
              ELSE IF Key[new[n]] = Blank \/ Known(merged[n - 1], new[n]) THEN merged[n - 1]
              ELSE Append(merged[n - 1], new[n])]
<1>5. merged = [n \in 0 .. Len(new) |-> Merge(merged, current, new, n)]
  BY <1>4 DEF Merge
<1>6. Extend(current, new, cap) = Newest(merged[Len(new)], cap)
  BY DEF Extend
<1> QED BY <1>5, <1>6

\* Before the cap is applied, learning only appends, and nothing twice.
LEMMA MergingAppends ==
  ASSUME NEW current \in Seq(Entries), NEW new \in Seq(Entries), NEW cap
  PROVE  \E all \in Seq(Entries) :
           /\ Extend(current, new, cap) = Newest(all, cap)
           /\ Begins(all, current)
           /\ Proper(current) => Proper(all)
<1>1. PICK merged : /\ merged = [n \in 0 .. Len(new) |-> Merge(merged, current, new, n)]
                    /\ Extend(current, new, cap) = Newest(merged[Len(new)], cap)
  BY MergeExists
<1> DEFINE Sound(all) == /\ all \in Seq(Entries) /\ Begins(all, current)
                         /\ Proper(current) => Proper(all)
           E == {n \in Nat : n <= Len(new) => Sound(merged[n])}
<1>2. \A n \in 0 .. Len(new) : merged[n] = Merge(merged, current, new, n)
  BY <1>1
<1>3. 0 \in E
  <2>1. merged[0] = current
    BY <1>2 DEF Merge
  <2>2. Begins(current, current)
    BY DEF Begins
  <2> QED BY <2>1, <2>2
<1>4. ASSUME NEW n \in E PROVE n + 1 \in E
  <2> SUFFICES ASSUME n + 1 <= Len(new) PROVE Sound(merged[n + 1])
    BY <1>4
  <2>0. n \in Nat /\ n + 1 \in 1 .. Len(new) /\ n + 1 \in 0 .. Len(new) /\ n <= Len(new)
    BY <1>4
  <2> DEFINE all == merged[n]
             e == new[n + 1]
             longer == Append(all, e)
  <2>1. all \in Seq(Entries) /\ Begins(all, current) /\ (Proper(current) => Proper(all))
    BY <1>4, <2>0
  <2>2. e \in Entries
    BY <2>0
  <2>3. merged[n + 1] = IF Key[e] = Blank \/ Known(all, e) THEN all ELSE longer
    <3>1. n + 1 # 0 /\ n + 1 - 1 = n
      BY <2>0
    <3> QED BY <1>2, <2>0, <3>1 DEF Merge
  <2> HIDE DEF all, e
  <2>4. ASSUME Key[e] # Blank, ~Known(all, e) PROVE Sound(longer)
    <3>1. /\ longer \in Seq(Entries) /\ Len(longer) = Len(all) + 1 /\ longer[Len(longer)] = e
          /\ \A i \in 1 .. Len(all) : longer[i] = all[i]
          /\ Len(all) \in Nat /\ DOMAIN all = 1 .. Len(all) /\ DOMAIN longer = 1 .. Len(longer)
      BY <2>1, <2>2
    <3> HIDE DEF longer
    <3>2. Begins(longer, current)
      BY <2>1, <3>1 DEF Begins
    <3>3. Proper(all) => Proper(longer)
      <4> SUFFICES ASSUME Proper(all), NEW i \in 1 .. Len(longer), NEW j \in 1 .. Len(longer)
                   PROVE  /\ Key[longer[i]] # Blank
                          /\ Key[longer[i]] = Key[longer[j]] => i = j
        BY <3>1 DEF Proper
      <4>1. \A k \in 1 .. Len(longer) : k \in 1 .. Len(all) \/ k = Len(longer)
        BY <3>1
      <4>2. \A k \in 1 .. Len(all) : Key[longer[k]] # Blank /\ Key[longer[k]] # Key[e]
        BY <2>4, <3>1 DEF Known, Proper
      <4>3. Key[longer[i]] # Blank
        BY <2>4, <3>1, <4>1, <4>2
      <4>4. ASSUME i \in 1 .. Len(all), j \in 1 .. Len(all) PROVE Key[longer[i]] = Key[longer[j]] => i = j
        BY <3>1, <4>4 DEF Proper
      <4> QED BY <3>1, <4>1, <4>2, <4>3, <4>4
    <3> QED BY <2>1, <3>1, <3>2, <3>3
  <2> QED BY <2>1, <2>3, <2>4
<1>5. E = Nat
  <2>1. E \in SUBSET Nat
    OBVIOUS
  <2> HIDE DEF E
  <2> QED BY <1>3, <1>4, <2>1, NumbersInduct
<1>6. Sound(merged[Len(new)])
  <2>1. Len(new) \in E /\ Len(new) <= Len(new)
    BY <1>5
  <2> QED BY <2>1
<1> QED BY <1>1, <1>6

\* The newest entries under a cap are the end of the list, whole or as long as the cap.
LEMMA NewestIsTheEnd ==
  ASSUME NEW all \in Seq(Entries), NEW cap \in Nat
  PROVE  \E cut \in 0 .. Len(all) :
           /\ Newest(all, cap) \in Seq(Entries) /\ Len(Newest(all, cap)) = Len(all) - cut
           /\ \A i \in 1 .. Len(all) - cut : Newest(all, cap)[i] = all[cut + i]
           /\ Len(all) - cut <= cap /\ (cut > 0 => Len(all) - cut = cap)
<1> DEFINE cut == IF Len(all) > cap THEN Len(all) - cap ELSE 0
<1>1. Len(all) \in Nat /\ cut \in 0 .. Len(all)
  OBVIOUS
<1>2. Newest(all, cap) = SubSeq(all, cut + 1, Len(all))
  BY DEF Newest
<1>3. Len(all) - cut <= cap /\ (cut > 0 => Len(all) - cut = cap)
  BY <1>1
<1> HIDE DEF cut
<1>4. /\ SubSeq(all, cut + 1, Len(all)) \in Seq(Entries)
      /\ Len(SubSeq(all, cut + 1, Len(all))) = Len(all) - cut
      /\ \A i \in 1 .. Len(all) - cut : SubSeq(all, cut + 1, Len(all))[i] = all[cut + i]
  BY <1>1
<1> QED BY <1>1, <1>2, <1>3, <1>4

LEMMA BeginningIsAPrefix ==
  ASSUME NEW s \in Seq(Entries), NEW t \in Seq(Entries), Begins(t, s) PROVE IsPrefix(s, t)
<1>1. Len(s) \in Nat /\ Len(t) \in Nat /\ Len(s) <= Len(t) /\ \A i \in 1 .. Len(s) : t[i] = s[i]
  BY DEF Begins
<1>2. SubSeq(s, 1, Len(s)) = SubSeq(t, 1, Len(s))
  BY <1>1
<1> QED BY <1>1, <1>2 DEF IsPrefix

LEMMA EndOfAList ==
  ASSUME NEW s \in Seq(Entries), NEW first \in 1 .. Len(s) + 1
  PROVE  /\ SubSeq(s, first, Len(s)) \in Seq(Entries)
         /\ Len(SubSeq(s, first, Len(s))) = Len(s) + 1 - first
         /\ \A i \in 1 .. Len(s) + 1 - first : SubSeq(s, first, Len(s))[i] = s[first + i - 1]
OBVIOUS

\* What an evolution keeps of a bucket, and the shape it leaves it in.
LEMMA EvolvingRemembers ==
  ASSUME NEW dna, dna.bucket \in Seq(Entries), NEW report \in Reports
  PROVE  /\ Evolve(dna, report).bucket \in Seq(Entries)
         /\ Remembers(dna.bucket, Evolve(dna, report).bucket)
         /\ Proper(dna.bucket) /\ Len(dna.bucket) <= BucketCap
              => Proper(Evolve(dna, report).bucket) /\ Len(Evolve(dna, report).bucket) <= BucketCap
<1> DEFINE before == dna.bucket
           later == Evolve(dna, report).bucket
<1>0. before \in Seq(Entries) /\ Len(before) \in Nat /\ DOMAIN before = 1 .. Len(before) /\ BucketCap \in Nat
  BY CapsAreNatural DEF CapsAreNatural
<1>1. CASE ~LearningEnabled
  <2>1. later = before
    BY <1>1 DEF Evolve
  <2>2. SubSeq(before, 1, Len(before)) \in Seq(Entries) /\ Begins(before, SubSeq(before, 1, Len(before)))
    BY <1>0 DEF Begins
  <2>3. Remembers(before, before)
    <3>1. 1 \in 1 .. Len(before) + 1 /\ ~(1 > 1)
      BY <1>0
    <3>2. IsPrefix(SubSeq(before, 1, Len(before)), before)
      BY <1>0, <2>2, BeginningIsAPrefix
    <3> QED BY <3>1, <3>2 DEF Remembers
  <2> QED BY <1>0, <2>1, <2>3
<1>2. CASE LearningEnabled
  <2> DEFINE new == SubSeq(report, 1, IF Len(report) < NewEntriesCap THEN Len(report) ELSE NewEntriesCap)
  <2>1. report \in Seq(Entries) /\ NewEntriesCap \in Nat
    BY ListsAreLists, CapsAreNatural DEF ListsAreLists, CapsAreNatural, Entries
  <2>2. new \in Seq(Entries)
    BY <2>1
  <2>3. later = Extend(before, new, BucketCap)
    BY <1>2 DEF Evolve, Learn
  <2> HIDE DEF new, before, later
  <2>4. PICK all \in Seq(Entries) : /\ later = Newest(all, BucketCap)
                                    /\ Begins(all, before)
                                    /\ Proper(before) => Proper(all)
    BY <1>0, <2>2, <2>3, MergingAppends
  <2>5. PICK cut \in 0 .. Len(all) :
          /\ later \in Seq(Entries) /\ Len(later) = Len(all) - cut
          /\ \A i \in 1 .. Len(all) - cut : later[i] = all[cut + i]
          /\ Len(all) - cut <= BucketCap /\ (cut > 0 => Len(all) - cut = BucketCap)
    BY <1>0, <2>4, NewestIsTheEnd
  <2>6. Len(all) \in Nat /\ Len(before) <= Len(all) /\ \A i \in 1 .. Len(before) : all[i] = before[i]
    BY <2>4 DEF Begins
  <2>7. Remembers(before, later)
    <3> DEFINE first == IF cut <= Len(before) THEN cut + 1 ELSE Len(before) + 1
               end == SubSeq(before, first, Len(before))
    <3>1. first \in 1 .. Len(before) + 1 /\ (first > 1 => cut > 0)
      BY <1>0, <2>5, <2>6
    <3>2. /\ end \in Seq(Entries) /\ Len(end) = Len(before) + 1 - first
          /\ \A i \in 1 .. Len(before) + 1 - first : end[i] = before[first + i - 1]
      BY <1>0, <3>1, EndOfAList
    <3>3. Begins(later, end)
      <4>1. CASE cut <= Len(before)
        <5>0. first = cut + 1
          BY <4>1
        <5>1. Len(end) = Len(before) - cut /\ Len(end) <= Len(later)
          <6>1. Len(end) = Len(before) + 1 - first
            BY <3>2
          <6>2. Len(later) = Len(all) - cut /\ Len(before) <= Len(all) /\ cut \in Int
            BY <2>5, <2>6
          <6>3. Len(before) + 1 - first = Len(before) - cut
            BY <1>0, <5>0, <6>2
          <6>4. Len(all) \in Nat /\ Len(before) - cut <= Len(all) - cut
            BY <1>0, <2>6, <6>2
          <6> QED BY <6>1, <6>2, <6>3, <6>4
        <5> HIDE DEF end
        <5>2. ASSUME NEW i \in 1 .. Len(end) PROVE later[i] = end[i]
          <6>1. cut + i \in 1 .. Len(before) /\ i \in 1 .. Len(all) - cut
            BY <1>0, <2>5, <2>6, <5>1
          <6>2. first + i - 1 = cut + i /\ i \in 1 .. Len(before) + 1 - first
            BY <1>0, <2>5, <4>1, <5>1
          <6> QED BY <2>5, <2>6, <3>2, <6>1, <6>2
        <5> QED BY <5>1, <5>2 DEF Begins
      <4>2. CASE cut > Len(before)
        <5>1. Len(end) = 0 /\ Len(later) \in Nat /\ \A i \in 1 .. 0 : FALSE
          BY <1>0, <2>5, <2>6, <3>2, <4>2
        <5> QED BY <5>1 DEF Begins
      <4> QED BY <1>0, <2>5, <4>1, <4>2
    <3>4. first > 1 => Len(later) = BucketCap
      BY <2>5, <3>1
    <3> HIDE DEF first
    <3> QED BY <2>5, <3>1, <3>2, <3>3, <3>4, BeginningIsAPrefix DEF Remembers
  <2>8. ASSUME Proper(before) PROVE Proper(later)
    <3>1. Proper(all)
      BY <2>4, <2>8
    <3>2. DOMAIN all = 1 .. Len(all) /\ DOMAIN later = 1 .. Len(all) - cut
      BY <2>5
    <3>3. \A i \in 1 .. Len(all) - cut : cut + i \in 1 .. Len(all)
      BY <2>5, <2>6
    <3>4. \A i, j \in 1 .. Len(all) - cut : cut + i = cut + j => i = j
      BY <2>5, <2>6
    <3> SUFFICES ASSUME NEW i \in 1 .. Len(all) - cut, NEW j \in 1 .. Len(all) - cut
                 PROVE  /\ Key[later[i]] # Blank
                        /\ Key[later[i]] = Key[later[j]] => i = j
      BY <2>5, <3>2 DEF Proper
    <3>5. later[i] = all[cut + i] /\ later[j] = all[cut + j]
      BY <2>5
    <3> QED BY <3>1, <3>2, <3>3, <3>4, <3>5 DEF Proper
  <2>9. Len(later) <= BucketCap
    BY <2>5
  <2> QED BY <2>5, <2>7, <2>8, <2>9 DEF before, later
<1> QED BY <1>1, <1>2

\* A process that is alone learns from the live DNA.
LearningInv ==
  /\ live.bucket \in Seq(Entries)
  /\ \A p \in Procs : proc[p].dna.bucket \in Seq(Entries)
  /\ ~overlapped => \A p \in Procs : proc[p].step = "learning" => proc[p].dna = live

LEMMA NewDnaIsProper ==
  /\ NewDna.bucket \in Seq(Entries) /\ Proper(NewDna.bucket) /\ Len(NewDna.bucket) = 0
  /\ Idle.dna = NewDna /\ Idle.step = "idle" /\ Idle.todo = <<>> /\ Idle.batch = <<>>
<1>1. NewDna.bucket = <<>>
  BY DEF NewDna
<1>2. <<>> \in Seq(Entries) /\ Proper(<<>>) /\ Len(<<>>) = 0
  BY DEF Proper
<1>3. Idle.dna = NewDna /\ Idle.step = "idle" /\ Idle.todo = <<>> /\ Idle.batch = <<>>
  BY DEF Idle
<1> QED BY <1>1, <1>2, <1>3

\* The fields a step of one process leaves alone.
LEMMA OneProcess ==
  ASSUME IInv, NEW p \in Procs, NEW r, proc' = [proc EXCEPT ![p] = r]
  PROVE  proc' = [q \in Procs |-> proc'[q]] /\ proc'[p] = r /\ \A q \in Procs \ {p} : proc'[q] = proc[q]
BY DEF IInv

\* The bounds count from nought.
CountsAreNumbers == {nights, nightfalls, kills, resets} \subseteq Nat

LEMMA CountsStayNumbers == Spec => []CountsAreNumbers
<1>1. Init => CountsAreNumbers
  BY DEF Init, CountsAreNumbers
<1>2. CountsAreNumbers /\ [Next]_vars => CountsAreNumbers'
  <2> SUFFICES ASSUME CountsAreNumbers, [Next]_vars PROVE CountsAreNumbers'
    OBVIOUS
  <2>1. CASE UNCHANGED vars
    BY <2>1 DEF vars, CountsAreNumbers
  <2>2. ASSUME NEW p \in Procs, Begin(p) \/ ListEpisodes(p) PROVE CountsAreNumbers'
    <3>1. /\ nights' \in {nights, nights + 1} /\ nightfalls' \in {nightfalls, nightfalls + 1}
          /\ UNCHANGED <<kills, resets>>
      BY <2>2 DEF Begin, ListEpisodes
    <3> QED BY <3>1 DEF CountsAreNumbers
  <2>3. ASSUME NEW p \in Procs, Remember(p) \/ Distil(p) \/ SaveFaded(p) \/ LoadEvolving(p)
        PROVE  CountsAreNumbers'
    BY <2>3 DEF Remember, Distil, SaveFaded, LoadEvolving, CountsAreNumbers, history
  <2>4. ASSUME NEW p \in Procs, SaveEvolving(p) \/ SaveSnapshot(p) \/ Kill(p) PROVE CountsAreNumbers'
    BY <2>4 DEF SaveEvolving, SaveSnapshot, Kill, CountsAreNumbers, history
  <2>5. CASE Reset
    BY <2>5 DEF Reset, CountsAreNumbers
  <2> QED BY <2>1, <2>2, <2>3, <2>4, <2>5 DEF Next
<1> QED BY <1>1, <1>2, PTL DEF Spec

\* Every step of a process replaces what it is doing, and only one of them loads,
\* learns or begins.
LEMMA LearningIsKept == Spec => []LearningInv
<1>1. Init => LearningInv
  BY NewDnaIsProper DEF Init, LearningInv
<1>2. IInv /\ LearningInv /\ [Next]_vars => LearningInv'
  <2> SUFFICES ASSUME IInv, LearningInv, [Next]_vars PROVE LearningInv'
    OBVIOUS
  <2>1. CASE UNCHANGED vars
    BY <2>1 DEF vars, LearningInv
  <2>2. ASSUME NEW p \in Procs, Begin(p) \/ Remember(p) \/ Distil(p) \/ ListEpisodes(p) \/ SaveFaded(p)
        PROVE  LearningInv'
    <3>1. PICK r : /\ proc' = [proc EXCEPT ![p] = r]
                   /\ r.step # "learning" /\ (r.dna = proc[p].dna \/ r.dna = NewDna)
      <4>1. CASE Begin(p)
        <5> PICK todo, events, night :
              proc' = [proc EXCEPT ![p] = [Idle EXCEPT !.step = "remember", !.night = night,
                                             !.events = events, !.todo = todo]]
          BY <4>1 DEF Begin
        <5> DEFINE r == [Idle EXCEPT !.step = "remember", !.night = night, !.events = events, !.todo = todo]
        <5>1. proc' = [proc EXCEPT ![p] = r] /\ r.step = "remember" /\ r.dna = NewDna
          BY DEF Idle
        <5> HIDE DEF r
        <5> QED BY <5>1
      <4>2. CASE Remember(p)
        <5> DEFINE r == [proc[p] EXCEPT !.todo = Tail(proc[p].todo)]
        <5>1. proc' = [proc EXCEPT ![p] = r] /\ proc[p].step # "learning"
          BY <4>2 DEF Remember, IInv
        <5>2. r.step = proc[p].step /\ r.dna = proc[p].dna
          BY DEF IInv, Fields
        <5> QED BY <5>1, <5>2
      <4>3. CASE Distil(p)
        <5>1. PICK todo : proc' = [proc EXCEPT ![p].step = "distilled", ![p].todo = todo]
          BY <4>3 DEF Distil
        <5> DEFINE r == [proc[p] EXCEPT !.step = "distilled", !.todo = todo]
        <5>2. proc' = [proc EXCEPT ![p] = r] /\ r.step = "distilled" /\ r.dna = proc[p].dna
          BY <5>1 DEF IInv, Fields
        <5> QED BY <5>2
      <4>4. CASE ListEpisodes(p)
        <5> DEFINE batch == [i \in DOMAIN Window |-> Decay(Window[i])]
                   r == [proc[p] EXCEPT !.step = "fading", !.batch = batch]
        <5>1. proc' = [proc EXCEPT ![p] = r]
          BY <4>4 DEF ListEpisodes, IInv
        <5> HIDE DEF batch
        <5>2. r.step = "fading" /\ r.dna = proc[p].dna
          BY DEF IInv, Fields
        <5> QED BY <5>1, <5>2 DEF batch
      <4>5. CASE SaveFaded(p)
        <5> DEFINE r == [proc[p] EXCEPT !.batch = Tail(proc[p].batch)]
        <5>1. proc' = [proc EXCEPT ![p] = r] /\ proc[p].step # "learning"
          BY <4>5 DEF SaveFaded, IInv
        <5>2. r.step = proc[p].step /\ r.dna = proc[p].dna
          BY DEF IInv, Fields
        <5> QED BY <5>1, <5>2
      <4> QED BY <2>2, <4>1, <4>2, <4>3, <4>4, <4>5
    <3>2. UNCHANGED live
      <4>1. Begin(p) \/ Remember(p) => UNCHANGED live
        BY DEF Begin, Remember, dnaFiles
      <4>2. Distil(p) \/ ListEpisodes(p) \/ SaveFaded(p) => UNCHANGED live
        BY DEF Distil, ListEpisodes, SaveFaded, dnaFiles
      <4> QED BY <2>2, <4>1, <4>2
    <3>3. overlapped => overlapped'
      BY <2>2 DEF Begin, Remember, Distil, ListEpisodes, SaveFaded, history
    <3> QED BY <3>1, <3>2, <3>3, OneProcess, NewDnaIsProper DEF LearningInv
  <2>3. ASSUME NEW p \in Procs, LoadEvolving(p) PROVE LearningInv'
    <3> DEFINE r == [proc[p] EXCEPT !.step = "learning", !.dna = live]
    <3>1. proc' = [proc EXCEPT ![p] = r] /\ UNCHANGED <<live, overlapped>>
      BY <2>3 DEF LoadEvolving, dnaFiles, history
    <3>2. r.dna = live
      BY DEF IInv, Fields
    <3> HIDE DEF r
    <3> QED BY <3>1, <3>2, OneProcess DEF LearningInv
  <2>4. ASSUME NEW p \in Procs, SaveEvolving(p) PROVE LearningInv'
    <3>1. PICK report \in Reports :
            LET updated == Evolve(proc[p].dna, report) IN
            IF updated.version = proc[p].dna.version
            THEN proc' = [proc EXCEPT ![p] = Idle] /\ UNCHANGED live
            ELSE /\ live' = updated
                 /\ proc' = [proc EXCEPT ![p].step = "learned", ![p].dna = updated]
      BY <2>4 DEF SaveEvolving
    <3> DEFINE updated == Evolve(proc[p].dna, report)
    <3>2. updated.bucket \in Seq(Entries)
      BY EvolvingRemembers DEF LearningInv
    <3>3. PICK r : /\ proc' = [proc EXCEPT ![p] = r] /\ r.step # "learning"
                   /\ r.dna.bucket \in Seq(Entries) /\ live'.bucket \in Seq(Entries)
      <4> HIDE DEF updated
      <4>1. CASE updated.version = proc[p].dna.version
        <5>1. proc' = [proc EXCEPT ![p] = Idle] /\ UNCHANGED live
          BY <3>1, <4>1 DEF updated
        <5>2. Idle.step # "learning" /\ Idle.dna.bucket \in Seq(Entries)
          BY NewDnaIsProper
        <5> QED BY <5>1, <5>2 DEF LearningInv
      <4>2. CASE updated.version # proc[p].dna.version
        <5> DEFINE r == [proc[p] EXCEPT !.step = "learned", !.dna = updated]
        <5>1. live' = updated /\ proc' = [proc EXCEPT ![p] = r]
          BY <3>1, <4>2 DEF updated, IInv
        <5>2. r.step = "learned" /\ r.dna = updated
          BY DEF IInv, Fields
        <5> QED BY <3>2, <5>1, <5>2
      <4> QED BY <4>1, <4>2
    <3>4. proc[p].step = "learning" /\ UNCHANGED overlapped
      BY <2>4 DEF SaveEvolving, history
    <3>5. ~overlapped => \A q \in Procs \ {p} : proc[q].step # "learning"
      BY <3>4 DEF IInv, Running
    <3> QED BY <3>3, <3>4, <3>5, OneProcess DEF LearningInv
  <2>5. ASSUME NEW p \in Procs, SaveSnapshot(p) \/ Kill(p) PROVE LearningInv'
    <3>1. proc' = [proc EXCEPT ![p] = Idle] /\ UNCHANGED <<live, overlapped>>
      BY <2>5 DEF SaveSnapshot, Kill, dnaFiles, history
    <3>2. Idle.step # "learning" /\ Idle.dna.bucket \in Seq(Entries)
      BY NewDnaIsProper
    <3> QED BY <3>1, <3>2, OneProcess DEF LearningInv
  <2>6. CASE Reset
    <3>1. \A p \in Procs : proc[p].step # "learning"
      BY <2>6 DEF Reset, Running
    <3> QED BY <2>6, <3>1, NewDnaIsProper DEF Reset, LearningInv
  <2> QED BY <2>1, <2>2, <2>3, <2>4, <2>5, <2>6 DEF Next
<1> QED BY <1>1, <1>2, EveryVersionIsCovered, PTL DEF Spec

\* Learning never unlearns: only the cap, the reset script and a second process that
\* loaded before the first one saved take an entry out of the DNA again
\* (dna_evolution.py: evolve, _extend), for any reports, caps and keys.
THEOREM LearningIsNeverUndone == Spec => NothingUnlearned
<1>1. ASSUME IInv, LearningInv, CountsAreNumbers, [Next]_vars, resets' = resets, ~overlapped'
      PROVE  Remembers(live.bucket, live'.bucket)
  <2>1. CASE UNCHANGED live
    <3> DEFINE b == live.bucket
    <3>0. b \in Seq(Entries)
      BY <1>1 DEF LearningInv
    <3> HIDE DEF b
    <3>1. b \in Seq(Entries) /\ 1 \in 1 .. Len(b) + 1 /\ ~(1 > 1)
      BY <3>0
    <3>2. SubSeq(b, 1, Len(b)) \in Seq(Entries) /\ Begins(b, SubSeq(b, 1, Len(b)))
      BY <3>1 DEF Begins
    <3>3. IsPrefix(SubSeq(b, 1, Len(b)), b)
      BY <3>1, <3>2, BeginningIsAPrefix
    <3> QED BY <2>1, <3>1, <3>3 DEF Remembers, b
  <2>2. ASSUME NEW p \in Procs, SaveEvolving(p), live' # live PROVE Remembers(live.bucket, live'.bucket)
    <3>1. PICK report \in Reports : live' = Evolve(proc[p].dna, report)
      BY <2>2 DEF SaveEvolving
    <3>2. proc[p].step = "learning" /\ ~overlapped
      BY <1>1, <2>2 DEF SaveEvolving, history
    <3>3. proc[p].dna = live /\ live.bucket \in Seq(Entries)
      BY <1>1, <3>2 DEF LearningInv
    <3> QED BY <3>1, <3>3, EvolvingRemembers
  <2>3. ASSUME live' # live PROVE \E p \in Procs : SaveEvolving(p)
    <3>1. ~ UNCHANGED vars /\ ~Reset
      BY <1>1, <2>3 DEF vars, Reset, CountsAreNumbers
    <3>2. ASSUME NEW p \in Procs
          PROVE  ~(Begin(p) \/ Remember(p) \/ Distil(p) \/ ListEpisodes(p) \/ SaveFaded(p))
      BY <2>3 DEF Begin, Remember, Distil, ListEpisodes, SaveFaded, dnaFiles
    <3>3. ASSUME NEW p \in Procs PROVE ~(LoadEvolving(p) \/ SaveSnapshot(p) \/ Kill(p))
      BY <2>3 DEF LoadEvolving, SaveSnapshot, Kill, dnaFiles
    <3> QED BY <1>1, <3>1, <3>2, <3>3 DEF Next
  <2> QED BY <2>1, <2>2, <2>3
<1>2. IInv /\ LearningInv /\ CountsAreNumbers /\ [Next]_vars
        => [resets' # resets \/ overlapped' \/ Remembers(live.bucket, live'.bucket)]_vars
  BY <1>1
<1> QED BY <1>2, LearningIsKept, CountsStayNumbers, EveryVersionIsCovered, PTL DEF Spec, NothingUnlearned

-----------------------------------------------------------------------------
(* The shelf. *)

\* Every episode has one file and has faded at most once a night, on the shelf and
\* in the hands of whoever is rewriting it.
ShelfInv ==
  /\ shelf \in Seq(Episodes)
  /\ \A i, j \in DOMAIN shelf : shelf[i].record = shelf[j].record => i = j
  /\ \A i \in DOMAIN shelf : shelf[i].fades + shelf[i].since <= nightfalls
  /\ \A p \in Procs :
       /\ proc[p].todo \in Seq(Records) /\ proc[p].night \in Nat
       /\ proc[p].batch \in Seq(Episodes)
       /\ \A k \in DOMAIN proc[p].batch :
            proc[p].batch[k].fades + proc[p].batch[k].since <= nightfalls

\* Rewriting an episode puts its file first and drops the older one.
LEMMA Shelving ==
  ASSUME shelf \in Seq(Episodes), \A i, j \in DOMAIN shelf : shelf[i].record = shelf[j].record => i = j,
         NEW e \in Episodes
  PROVE  /\ Shelved(e) \in Seq(Episodes)
         /\ Len(Shelved(e)) >= Len(shelf)
         /\ \A i, j \in DOMAIN Shelved(e) : Shelved(e)[i].record = Shelved(e)[j].record => i = j
         /\ \A i \in DOMAIN Shelved(e) :
              \/ Shelved(e)[i] = e
              \/ \E j \in DOMAIN shelf : Shelved(e)[i] = shelf[j] /\ shelf[j].record # e.record
<1> DEFINE older == {i \in DOMAIN shelf : shelf[i].record = e.record}
           rest == IF older = {} THEN shelf ELSE RemoveAt(shelf, CHOOSE i \in older : TRUE)
           new == <<e>> \o rest
<1>0. Len(shelf) \in Nat /\ DOMAIN shelf = 1 .. Len(shelf)
  OBVIOUS
<1>1. Shelved(e) = new
  BY DEF Shelved
<1>2. /\ rest \in Seq(Episodes) /\ Len(rest) \in Nat /\ Len(rest) + 1 >= Len(shelf)
      /\ \E place \in [1 .. Len(rest) -> 1 .. Len(shelf)] :
           /\ \A m \in 1 .. Len(rest) : rest[m] = shelf[place[m]] /\ shelf[place[m]].record # e.record
           /\ \A m, n \in 1 .. Len(rest) : place[m] = place[n] => m = n
  <2>1. CASE older = {}
    <3>1. rest = shelf
      BY <2>1
    <3>2. \A m \in 1 .. Len(shelf) : shelf[m].record # e.record
      BY <1>0, <2>1
    <3> DEFINE place == [m \in 1 .. Len(shelf) |-> m]
    <3>3. place \in [1 .. Len(shelf) -> 1 .. Len(shelf)] /\ \A m \in 1 .. Len(shelf) : place[m] = m
      OBVIOUS
    <3> HIDE DEF rest, place
    <3> QED BY <1>0, <3>1, <3>2, <3>3
  <2>2. CASE older # {}
    <3> DEFINE at == CHOOSE i \in older : TRUE
    <3>1. at \in 1 .. Len(shelf) /\ shelf[at].record = e.record
      BY <1>0, <2>2
    <3>2. rest = RemoveAt(shelf, at)
      BY <2>2
    <3> HIDE DEF at, rest
    <3>3. /\ rest \in Seq(Episodes) /\ Len(rest) = Len(shelf) - 1
          /\ \A m \in 1 .. Len(shelf) - 1 : rest[m] = IF m < at THEN shelf[m] ELSE shelf[m + 1]
      BY <3>1, <3>2, RemovalShifts
    <3> DEFINE place == [m \in 1 .. Len(shelf) - 1 |-> IF m < at THEN m ELSE m + 1]
    <3>4. \A m \in 1 .. Len(shelf) - 1 :
            place[m] \in 1 .. Len(shelf) /\ place[m] # at /\ rest[m] = shelf[place[m]]
      BY <1>0, <3>1, <3>3
    <3>5. \A m, n \in 1 .. Len(shelf) - 1 : place[m] = place[n] => m = n
      BY <1>0, <3>1
    <3>6. place \in [1 .. Len(shelf) - 1 -> 1 .. Len(shelf)]
      BY <3>4
    <3> HIDE DEF place
    <3>7. \A m \in 1 .. Len(shelf) - 1 : shelf[place[m]].record # e.record
      BY <1>0, <3>1, <3>4
    <3>8. Len(rest) \in Nat /\ Len(rest) + 1 >= Len(shelf)
      BY <1>0, <3>1, <3>3
    <3>9. Len(rest) = Len(shelf) - 1
      BY <3>3
    <3>10. \A m \in 1 .. Len(rest) : rest[m] = shelf[place[m]] /\ shelf[place[m]].record # e.record
      BY <3>4, <3>7, <3>9
    <3>11. \A m, n \in 1 .. Len(rest) : place[m] = place[n] => m = n
      BY <3>5, <3>9
    <3>12. place \in [1 .. Len(rest) -> 1 .. Len(shelf)]
      BY <3>6, <3>9
    <3> QED BY <3>3, <3>8, <3>10, <3>11, <3>12
  <2> QED BY <2>1, <2>2
<1> HIDE DEF rest
<1>3. PICK place \in [1 .. Len(rest) -> 1 .. Len(shelf)] :
        /\ \A m \in 1 .. Len(rest) : rest[m] = shelf[place[m]] /\ shelf[place[m]].record # e.record
        /\ \A m, n \in 1 .. Len(rest) : place[m] = place[n] => m = n
  BY <1>2
<1>4. /\ <<e>> \in Seq(Episodes) /\ Len(<<e>>) = 1 /\ <<e>>[1] = e
  OBVIOUS
<1>5. /\ new \in Seq(Episodes) /\ Len(new) = 1 + Len(rest) /\ new[1] = e
      /\ \A m \in 1 .. Len(rest) : new[1 + m] = rest[m]
  <2>1. /\ new \in Seq(Episodes) /\ Len(new) = Len(<<e>>) + Len(rest)
        /\ \A m \in 1 .. Len(<<e>>) : new[m] = <<e>>[m]
        /\ \A m \in 1 .. Len(rest) : new[Len(<<e>>) + m] = rest[m]
    BY <1>2, <1>4, JoinedInOrder
  <2> HIDE DEF new
  <2>2. 1 \in 1 .. Len(<<e>>)
    BY <1>4
  <2> QED BY <1>4, <2>1, <2>2
<1> HIDE DEF new
<1>6. DOMAIN new = 1 .. Len(new) /\ \A i \in 1 .. Len(new) : i = 1 \/ (i - 1 \in 1 .. Len(rest) /\ i = 1 + (i - 1))
  BY <1>2, <1>5
<1>7. ASSUME NEW i \in 1 .. Len(new), i # 1
      PROVE  /\ new[i] = shelf[place[i - 1]] /\ new[i].record # e.record
             /\ place[i - 1] \in DOMAIN shelf /\ i - 1 \in 1 .. Len(rest)
  <2>1. i - 1 \in 1 .. Len(rest) /\ i = 1 + (i - 1)
    BY <1>6, <1>7
  <2>2. new[i] = rest[i - 1]
    BY <1>5, <2>1
  <2>3. rest[i - 1] = shelf[place[i - 1]] /\ shelf[place[i - 1]].record # e.record
    BY <1>3, <2>1
  <2>4. place[i - 1] \in DOMAIN shelf
    BY <1>0, <1>3, <2>1
  <2> QED BY <2>1, <2>2, <2>3, <2>4
<1>8. ASSUME NEW i \in 1 .. Len(new), NEW j \in 1 .. Len(new), new[i].record = new[j].record PROVE i = j
  <2>1. CASE i # 1 /\ j # 1
    <3>1. shelf[place[i - 1]].record = shelf[place[j - 1]].record
      BY <1>7, <1>8, <2>1
    <3>2. place[i - 1] = place[j - 1]
      BY <1>7, <2>1, <3>1
    <3>3. i - 1 = j - 1
      BY <1>3, <1>7, <2>1, <3>2
    <3> QED BY <3>3
  <2>2. CASE i = 1 \/ j = 1
    BY <1>5, <1>7, <1>8, <2>2
  <2> QED BY <2>1, <2>2
<1>9. Len(new) >= Len(shelf)
  BY <1>0, <1>2, <1>5
<1>10. \A i \in 1 .. Len(new) :
         new[i] = e \/ \E j \in DOMAIN shelf : new[i] = shelf[j] /\ shelf[j].record # e.record
  BY <1>5, <1>7
<1> QED BY <1>1, <1>5, <1>6, <1>8, <1>9, <1>10

\* What is on the shelf after a step of p, and what p then holds.
LEMMA StepKeepsShelf ==
  ASSUME IInv, ShelfInv, nightfalls \in Nat, nightfalls' \in Nat, nightfalls <= nightfalls',
         NEW p \in Procs, NEW r, proc' = [proc EXCEPT ![p] = r],
         r.todo \in Seq(Records), r.night \in Nat, r.batch \in Seq(Episodes),
         \A k \in DOMAIN r.batch : r.batch[k].fades + r.batch[k].since <= nightfalls',
         \/ shelf' = shelf
         \/ \E e \in Episodes : shelf' = Shelved(e) /\ e.fades + e.since <= nightfalls'
  PROVE  ShelfInv'
<1>1. proc'[p] = r /\ \A q \in Procs \ {p} : proc'[q] = proc[q]
  BY OneProcess
<1>2. ASSUME NEW e \in Episodes PROVE e.fades \in Nat /\ e.since \in Nat
  BY DEF Episodes
<1>3. \A i \in DOMAIN shelf : shelf[i] \in Episodes /\ shelf[i].fades + shelf[i].since <= nightfalls
  BY DEF ShelfInv
<1>4. \A i \in DOMAIN shelf : shelf[i].fades + shelf[i].since <= nightfalls'
  BY <1>2, <1>3
<1>5. /\ shelf' \in Seq(Episodes)
      /\ \A i, j \in DOMAIN shelf' : shelf'[i].record = shelf'[j].record => i = j
      /\ \A i \in DOMAIN shelf' : shelf'[i].fades + shelf'[i].since <= nightfalls'
  <2>1. CASE shelf' = shelf
    BY <1>4, <2>1 DEF ShelfInv
  <2>2. ASSUME NEW e \in Episodes, shelf' = Shelved(e), e.fades + e.since <= nightfalls'
        PROVE  /\ shelf' \in Seq(Episodes)
               /\ \A i, j \in DOMAIN shelf' : shelf'[i].record = shelf'[j].record => i = j
               /\ \A i \in DOMAIN shelf' : shelf'[i].fades + shelf'[i].since <= nightfalls'
    <3> DEFINE new == Shelved(e)
    <3>1. shelf \in Seq(Episodes) /\ \A i, j \in DOMAIN shelf : shelf[i].record = shelf[j].record => i = j
      BY DEF ShelfInv
    <3>2. /\ new \in Seq(Episodes)
          /\ \A i, j \in DOMAIN new : new[i].record = new[j].record => i = j
          /\ \A i \in DOMAIN new : new[i] = e \/ \E j \in DOMAIN shelf : new[i] = shelf[j]
      BY <3>1, Shelving
    <3> HIDE DEF new
    <3>3. \A i \in DOMAIN new : new[i].fades + new[i].since <= nightfalls'
      BY <1>4, <2>2, <3>2
    <3> QED BY <2>2, <3>2, <3>3 DEF new
  <2> QED BY <2>1, <2>2
<1>6. ASSUME NEW q \in Procs
      PROVE  /\ proc'[q].todo \in Seq(Records) /\ proc'[q].night \in Nat
             /\ proc'[q].batch \in Seq(Episodes)
             /\ \A k \in DOMAIN proc'[q].batch :
                  proc'[q].batch[k].fades + proc'[q].batch[k].since <= nightfalls'
  <2>1. CASE q = p
    BY <1>1, <2>1
  <2>2. CASE q # p
    <3>1. proc'[q] = proc[q]
      BY <1>1, <2>2
    <3>2. proc[q].todo \in Seq(Records) /\ proc[q].night \in Nat /\ proc[q].batch \in Seq(Episodes)
      BY DEF ShelfInv
    <3>3. \A k \in DOMAIN proc[q].batch :
            /\ proc[q].batch[k] \in Episodes
            /\ proc[q].batch[k].fades + proc[q].batch[k].since <= nightfalls
      BY <3>2 DEF ShelfInv
    <3>4. \A k \in DOMAIN proc[q].batch :
            proc[q].batch[k].fades + proc[q].batch[k].since <= nightfalls'
      BY <1>2, <3>3
    <3> QED BY <3>1, <3>2, <3>4
  <2> QED BY <2>1, <2>2
<1> QED BY <1>5, <1>6 DEF ShelfInv

LEMMA EpisodesFade ==
  ASSUME NEW e \in Episodes
  PROVE  Decay(e) \in Episodes /\ Decay(e).record = e.record /\ Decay(e).since = e.since
         /\ Decay(e).fades = e.fades + 1
<1>1. e.record.kind = "episodic" /\ e.fades \in Nat
  BY DEF Episodes
<1>2. ShouldDecay(e.record)
  BY <1>1 DEF ShouldDecay
<1>3. Decay(e) = [e EXCEPT !.fades = e.fades + 1]
  BY <1>2 DEF Decay
<1> QED BY <1>1, <1>3 DEF Episodes

\* What a listing hands out: the shelf, or as much of it as fits, faded by one.
LEMMA ListingFades ==
  ASSUME shelf \in Seq(Episodes)
  PROVE  /\ [i \in DOMAIN Window |-> Decay(Window[i])] \in Seq(Episodes)
         /\ DOMAIN Window \subseteq DOMAIN shelf
         /\ \A i \in DOMAIN Window : Window[i] = shelf[i]
         /\ Len(shelf) <= DecayWindow => DOMAIN Window = DOMAIN shelf
<1> DEFINE width == IF Len(shelf) < DecayWindow THEN Len(shelf) ELSE DecayWindow
<1>0. Len(shelf) \in Nat /\ DOMAIN shelf = 1 .. Len(shelf)
  OBVIOUS
<1>a. DecayWindow \in Nat
  BY CapsAreNatural DEF CapsAreNatural
<1>1. width \in 0 .. Len(shelf) /\ (Len(shelf) <= DecayWindow => width = Len(shelf))
  <2>1. \A long, wide \in Nat :
          /\ (IF long < wide THEN long ELSE wide) \in 0 .. long
          /\ long <= wide => (IF long < wide THEN long ELSE wide) = long
    OBVIOUS
  <2>2. Len(shelf) \in Nat
    BY <1>0
  <2> QED BY <1>a, <2>1, <2>2
<1>2. Window = SubSeq(shelf, 1, width)
  BY DEF Window
<1> HIDE DEF width
<1>b. width \in 0 .. Len(shelf)
  BY <1>1
<1>c. /\ SubSeq(shelf, 1, width) \in Seq(Episodes) /\ Len(SubSeq(shelf, 1, width)) = width
      /\ \A i \in 1 .. width : SubSeq(shelf, 1, width)[i] = shelf[i]
  BY <1>0, <1>b
<1>3. /\ Window \in Seq(Episodes) /\ Len(Window) = width /\ DOMAIN Window = 1 .. width
      /\ \A i \in 1 .. width : Window[i] = shelf[i]
  BY <1>2, <1>c
<1>4. \A i \in 1 .. width : Window[i] \in Episodes
  BY <1>3
<1>5. [i \in DOMAIN Window |-> Decay(Window[i])] \in Seq(Episodes)
  <2>1. \A i \in 1 .. width : Decay(Window[i]) \in Episodes
    BY <1>4, EpisodesFade
  <2>2. [i \in 1 .. width |-> Decay(Window[i])] \in [1 .. width -> Episodes] /\ width \in Nat
    BY <1>1, <2>1
  <2> QED BY <1>3, <2>2, FunctionsAreLists
<1>6. DOMAIN Window \subseteq DOMAIN shelf
  BY <1>0, <1>b, <1>3
<1>7. Len(shelf) <= DecayWindow => DOMAIN Window = DOMAIN shelf
  BY <1>0, <1>1, <1>3
<1> QED BY <1>3, <1>5, <1>6, <1>7

LEMMA Reminders ==
  ASSUME NEW kind \in Kinds, NEW night \in Nat, NEW subject \in Nat
  PROVE  Record(kind, night, subject) \in Records
BY DEF Record, Records

LEMMA KindsAreKinds == ASSUME NEW subject PROVE KindOf(subject) \in Kinds
BY DEF KindOf, Kinds

LEMMA ShelfIsKept == Spec => []ShelfInv
<1>1. Init => ShelfInv
  <2> SUFFICES ASSUME Init PROVE ShelfInv
    OBVIOUS
  <2>1. shelf = <<>> /\ proc = [p \in Procs |-> Idle]
    BY DEF Init
  <2>2. <<>> \in Seq(Episodes) /\ <<>> \in Seq(Records) /\ DOMAIN <<>> = {}
    OBVIOUS
  <2>3. Idle.todo = <<>> /\ Idle.batch = <<>> /\ Idle.night \in Nat
    BY DEF Idle
  <2> QED BY <2>1, <2>2, <2>3 DEF ShelfInv
<1>2. IInv /\ CountsAreNumbers /\ ShelfInv /\ [Next]_vars => ShelfInv'
  <2> SUFFICES ASSUME IInv, CountsAreNumbers, ShelfInv, [Next]_vars PROVE ShelfInv'
    OBVIOUS
  <2>0. nightfalls \in Nat /\ nights \in Nat
    BY DEF CountsAreNumbers
  <2>a. \A p \in Procs :
          /\ proc[p].todo \in Seq(Records) /\ proc[p].night \in Nat /\ proc[p].batch \in Seq(Episodes)
          /\ \A k \in DOMAIN proc[p].batch :
               proc[p].batch[k].fades + proc[p].batch[k].since <= nightfalls
    BY DEF ShelfInv
  <2>b. /\ <<>> \in Seq(Records) /\ <<>> \in Seq(Episodes) /\ DOMAIN <<>> = {} /\ nightfalls <= nightfalls
    BY <2>0
  <2>1. CASE UNCHANGED vars
    BY <2>1 DEF vars, ShelfInv
  <2>2. ASSUME NEW p \in Procs, Begin(p) PROVE ShelfInv'
    <3>1. PICK cycle \in Cycles :
            proc' = [proc EXCEPT ![p] =
                       [Idle EXCEPT !.step = "remember", !.night = nights', !.events = cycle.events,
                          !.todo = [i \in DOMAIN cycle.subjects |->
                                      Record(KindOf(cycle.subjects[i]), nights', i)]]]
      BY <2>2 DEF Begin
    <3> DEFINE todo == [i \in DOMAIN cycle.subjects |-> Record(KindOf(cycle.subjects[i]), nights', i)]
               r == [Idle EXCEPT !.step = "remember", !.night = nights', !.events = cycle.events,
                                 !.todo = todo]
    <3>2. nights' = nights + 1 /\ UNCHANGED <<shelf, nightfalls>>
      BY <2>2 DEF Begin, memoryFiles
    <3>3. nights' \in Nat
      BY <2>0, <3>2
    <3>4. todo \in Seq(Records)
      <4>1. Len(cycle.subjects) \in Nat /\ DOMAIN cycle.subjects = 1 .. Len(cycle.subjects)
        BY ListsAreLists DEF ListsAreLists
      <4>2. \A i \in 1 .. Len(cycle.subjects) :
              Record(KindOf(cycle.subjects[i]), nights', i) \in Records
        BY <3>3, Reminders, KindsAreKinds
      <4>3. todo \in [1 .. Len(cycle.subjects) -> Records]
        BY <4>1, <4>2
      <4> QED BY <4>1, <4>3, FunctionsAreLists
    <3> HIDE DEF todo
    <3>5. r.todo = todo /\ r.night = nights' /\ r.batch = <<>>
      BY DEF Idle
    <3>6. proc' = [proc EXCEPT ![p] = r]
      BY <3>1 DEF todo
    <3> HIDE DEF r
    <3> QED BY <2>0, <2>b, <3>2, <3>3, <3>4, <3>5, <3>6, StepKeepsShelf
  <2>3. ASSUME NEW p \in Procs, Remember(p) PROVE ShelfInv'
    <3> DEFINE r == [proc[p] EXCEPT !.todo = Tail(proc[p].todo)]
               record == Head(proc[p].todo)
               e == [record |-> record, fades |-> 0, since |-> nightfalls]
    <3>1. /\ proc' = [proc EXCEPT ![p] = r] /\ proc[p].todo # <<>> /\ UNCHANGED nightfalls
          /\ shelf' = shelf \/ (record.kind = "episodic" /\ shelf' = Shelved(e))
      BY <2>3 DEF Remember, IInv, history
    <3>2. r.todo = Tail(proc[p].todo) /\ r.night = proc[p].night /\ r.batch = proc[p].batch
      BY DEF IInv, Fields
    <3>3. Tail(proc[p].todo) \in Seq(Records) /\ record \in Records
      BY <2>a, <3>1
    <3>4. record.kind = "episodic" => e \in Episodes /\ e.fades + e.since <= nightfalls
      <4> HIDE DEF record
      <4> QED BY <2>0, <3>3 DEF Records, Episodes
    <3> HIDE DEF r, e, record
    <3> QED BY <2>0, <2>a, <2>b, <3>1, <3>2, <3>3, <3>4, StepKeepsShelf
  <2>4. ASSUME NEW p \in Procs, Distil(p) PROVE ShelfInv'
    <3>1. PICK n \in Proposals :
       proc' = [proc EXCEPT ![p].step = "distilled",
                  ![p].todo = IF MayBecomePrinciple(proc[p].events)
                              THEN [i \in 1 .. n |-> Record("semantic", proc[p].night, i)]
                              ELSE <<>>]
      BY <2>4 DEF Distil
    <3> DEFINE todo == IF MayBecomePrinciple(proc[p].events)
                       THEN [i \in 1 .. n |-> Record("semantic", proc[p].night, i)] ELSE <<>>
               r == [proc[p] EXCEPT !.step = "distilled", !.todo = todo]
    <3>2. todo \in Seq(Records)
      <4>1. n \in Nat /\ "semantic" \in Kinds
        BY ListsAreLists DEF ListsAreLists, Kinds
      <4>2. \A i \in 1 .. n : Record("semantic", proc[p].night, i) \in Records
        BY <2>a, <4>1, Reminders
      <4>3. [i \in 1 .. n |-> Record("semantic", proc[p].night, i)] \in [1 .. n -> Records]
        BY <4>2
      <4>4. [i \in 1 .. n |-> Record("semantic", proc[p].night, i)] \in Seq(Records)
        BY <4>1, <4>3, FunctionsAreLists
      <4> QED BY <2>b, <4>4
    <3> HIDE DEF todo
    <3>3. proc' = [proc EXCEPT ![p] = r]
      BY <3>1 DEF todo, IInv
    <3>4. r.todo = todo /\ r.night = proc[p].night /\ r.batch = proc[p].batch
      BY DEF IInv, Fields
    <3>5. UNCHANGED <<shelf, nightfalls>>
      BY <2>4 DEF Distil, memoryFiles, history
    <3> HIDE DEF r
    <3> QED BY <2>0, <2>a, <2>b, <3>2, <3>3, <3>4, <3>5, StepKeepsShelf
  <2>5. ASSUME NEW p \in Procs, ListEpisodes(p) PROVE ShelfInv'
    <3> DEFINE batch == [i \in DOMAIN Window |-> Decay(Window[i])]
               r == [proc[p] EXCEPT !.step = "fading", !.batch = batch]
    <3>1. proc' = [proc EXCEPT ![p] = r] /\ nightfalls' = nightfalls + 1 /\ UNCHANGED shelf
      BY <2>5 DEF ListEpisodes, IInv, memoryFiles
    <3>2. shelf \in Seq(Episodes)
      BY DEF ShelfInv
    <3>3. batch \in Seq(Episodes) /\ DOMAIN batch = DOMAIN Window
      BY <3>2, ListingFades
    <3>4. ASSUME NEW k \in DOMAIN batch PROVE batch[k].fades + batch[k].since <= nightfalls'
      <4>1. k \in DOMAIN shelf /\ batch[k] = Decay(shelf[k])
        BY <3>2, <3>3, ListingFades
      <4>2. shelf[k] \in Episodes /\ shelf[k].fades + shelf[k].since <= nightfalls
        BY <3>2, <4>1 DEF ShelfInv
      <4>3. shelf[k].fades \in Nat /\ shelf[k].since \in Nat
        BY <4>2 DEF Episodes
      <4>4. batch[k].fades = shelf[k].fades + 1 /\ batch[k].since = shelf[k].since
        BY <4>1, <4>2, EpisodesFade
      <4> HIDE DEF batch
      <4> QED BY <2>0, <3>1, <4>2, <4>3, <4>4
    <3> HIDE DEF batch
    <3>5. r.todo = proc[p].todo /\ r.night = proc[p].night /\ r.batch = batch
      BY DEF IInv, Fields
    <3>6. nightfalls' \in Nat /\ nightfalls <= nightfalls'
      BY <2>0, <3>1
    <3> HIDE DEF r
    <3> QED BY <2>0, <2>a, <3>1, <3>3, <3>4, <3>5, <3>6, StepKeepsShelf
  <2>6. ASSUME NEW p \in Procs, SaveFaded(p) PROVE ShelfInv'
    <3> DEFINE r == [proc[p] EXCEPT !.batch = Tail(proc[p].batch)]
               batch == proc[p].batch
               e == Head(batch)
    <3>1. /\ proc' = [proc EXCEPT ![p] = r] /\ batch # <<>> /\ UNCHANGED nightfalls
          /\ shelf' = Shelved(e)
      BY <2>6 DEF SaveFaded, IInv, history
    <3>2. r.todo = proc[p].todo /\ r.night = proc[p].night /\ r.batch = Tail(batch)
      BY DEF IInv, Fields
    <3>3. /\ batch \in Seq(Episodes) /\ Tail(batch) \in Seq(Episodes)
          /\ e = batch[1] /\ e \in Episodes /\ 1 \in DOMAIN batch
          /\ DOMAIN Tail(batch) = 1 .. Len(batch) - 1 /\ DOMAIN batch = 1 .. Len(batch)
          /\ \A k \in 1 .. Len(batch) - 1 : Tail(batch)[k] = batch[k + 1] /\ k + 1 \in 1 .. Len(batch)
      BY <2>a, <3>1
    <3>4. e.fades + e.since <= nightfalls
      BY <2>a, <3>3
    <3>5. \A k \in DOMAIN Tail(batch) : Tail(batch)[k].fades + Tail(batch)[k].since <= nightfalls
      BY <2>a, <3>3
    <3> HIDE DEF r, e, batch
    <3> QED BY <2>0, <2>a, <2>b, <3>1, <3>2, <3>3, <3>4, <3>5, StepKeepsShelf
  <2>7. ASSUME NEW p \in Procs, LoadEvolving(p) PROVE ShelfInv'
    <3> DEFINE r == [proc[p] EXCEPT !.step = "learning", !.dna = live]
    <3>1. proc' = [proc EXCEPT ![p] = r] /\ UNCHANGED <<shelf, nightfalls>>
      BY <2>7 DEF LoadEvolving, IInv, memoryFiles, history
    <3>2. r.todo = proc[p].todo /\ r.night = proc[p].night /\ r.batch = proc[p].batch
      BY DEF IInv, Fields
    <3> HIDE DEF r
    <3> QED BY <2>0, <2>a, <2>b, <3>1, <3>2, StepKeepsShelf
  <2>8. ASSUME NEW p \in Procs, SaveEvolving(p) \/ SaveSnapshot(p) \/ Kill(p) PROVE ShelfInv'
    <3>1. PICK r : /\ proc' = [proc EXCEPT ![p] = r]
                   /\ r.todo \in Seq(Records) /\ r.night \in Nat /\ r.batch \in Seq(Episodes)
                   /\ \A k \in DOMAIN r.batch : r.batch[k].fades + r.batch[k].since <= nightfalls
      <4>1. CASE proc' = [proc EXCEPT ![p] = Idle]
        <5>1. Idle.todo = <<>> /\ Idle.batch = <<>> /\ Idle.night \in Nat
          BY DEF Idle
        <5> QED BY <2>b, <4>1, <5>1
      <4>2. CASE SaveEvolving(p) /\ proc' # [proc EXCEPT ![p] = Idle]
        <5>1. PICK updated : proc' = [proc EXCEPT ![p].step = "learned", ![p].dna = updated]
          BY <4>2 DEF SaveEvolving
        <5> DEFINE r == [proc[p] EXCEPT !.step = "learned", !.dna = updated]
        <5>2. proc' = [proc EXCEPT ![p] = r]
          BY <5>1 DEF IInv
        <5>3. r.todo = proc[p].todo /\ r.night = proc[p].night /\ r.batch = proc[p].batch
          BY DEF IInv, Fields
        <5> HIDE DEF r
        <5> QED BY <2>a, <5>2, <5>3
      <4> QED BY <2>8, <4>1, <4>2 DEF SaveSnapshot, Kill
    <3>2. UNCHANGED <<shelf, nightfalls>>
      BY <2>8 DEF SaveEvolving, SaveSnapshot, Kill, memoryFiles, history
    <3> QED BY <2>0, <2>b, <3>1, <3>2, StepKeepsShelf
  <2>9. CASE Reset
    <3>1. shelf' = <<>> /\ UNCHANGED <<proc, nightfalls>>
      BY <2>9 DEF Reset
    <3> QED BY <2>a, <2>b, <3>1 DEF ShelfInv
  <2> QED BY <2>1, <2>2, <2>3, <2>4, <2>5, <2>6, <2>7, <2>8, <2>9 DEF Next
<1> QED BY <1>1, <1>2, EveryVersionIsCovered, CountsStayNumbers, PTL DEF Spec

\* p is about to rewrite this record.
Rewriting(p, record) ==
  proc[p].step = "fading" /\ \E k \in DOMAIN proc[p].batch : proc[p].batch[k].record = record

Faded(e) == e.fades + e.since = nightfalls

Tended == ~overlapped /\ kills = 0 /\ Len(shelf) <= DecayWindow

\* While nothing intervenes, what has not faded tonight is about to be rewritten as
\* it should be.
AsTended ==
  /\ \A i \in DOMAIN shelf : Faded(shelf[i]) \/ \E p \in Procs : Rewriting(p, shelf[i].record)
  /\ \A p \in Procs : proc[p].step = "fading" => \A k \in DOMAIN proc[p].batch : Faded(proc[p].batch[k])

TendedInv == Tended => AsTended

\* A step that neither fades nor files leaves all as tended as it was; one that files
\* an episode or ends the fading has nothing left to rewrite.
LEMMA BesideTheShelf ==
  ASSUME IInv, TendedInv, NEW p \in Procs, NEW r, proc' = [proc EXCEPT ![p] = r],
         proc[p].step # "fading", r.step # "fading",
         UNCHANGED <<shelf, nightfalls, kills>>, overlapped => overlapped'
  PROVE  TendedInv'
<1>1. proc'[p] = r /\ \A q \in Procs \ {p} : proc'[q] = proc[q]
  BY OneProcess
<1>2. Tended' => Tended
  BY DEF Tended
<1>3. \A q \in Procs : \A record : Rewriting(q, record) => Rewriting(q, record)'
  BY <1>1 DEF Rewriting
<1> SUFFICES ASSUME Tended' PROVE AsTended'
  BY DEF TendedInv
<1>4. \A i \in DOMAIN shelf : Faded(shelf[i]) \/ \E q \in Procs : Rewriting(q, shelf[i].record)
  BY <1>2 DEF TendedInv, AsTended
<1>5. \A q \in Procs : proc'[q].step = "fading" => \A k \in DOMAIN proc'[q].batch : Faded(proc'[q].batch[k])
  BY <1>1, <1>2 DEF TendedInv, AsTended
<1> QED BY <1>3, <1>4, <1>5 DEF Faded, AsTended

LEMMA TendedIsKept == Spec => []TendedInv
<1>1. Init => TendedInv
  BY NewDnaIsProper DEF Init, TendedInv, AsTended, Rewriting
<1>2. IInv /\ CountsAreNumbers /\ ShelfInv /\ TendedInv /\ [Next]_vars => TendedInv'
  <2> SUFFICES ASSUME IInv, CountsAreNumbers, ShelfInv, TendedInv, [Next]_vars PROVE TendedInv'
    OBVIOUS
  <2>0. nightfalls \in Nat /\ kills \in Nat /\ DecayWindow \in Nat
    BY CapsAreNatural DEF CountsAreNumbers, CapsAreNatural
  <2>a. /\ shelf \in Seq(Episodes)
        /\ \A i, j \in DOMAIN shelf : shelf[i].record = shelf[j].record => i = j
    BY DEF ShelfInv
  <2>b. \A e \in Episodes : e.fades \in Nat /\ e.since \in Nat
    BY DEF Episodes
  <2>c. ~overlapped => \A p, q \in Procs : proc[p].step # "idle" /\ proc[q].step # "idle" => p = q
    BY DEF IInv, Running
  <2>1. CASE UNCHANGED vars
    BY <2>1 DEF vars, TendedInv, AsTended, Tended, Faded, Rewriting
  <2>2. ASSUME NEW p \in Procs, Begin(p) PROVE TendedInv'
    <3>1. PICK todo, events, night :
            proc' = [proc EXCEPT ![p] = [Idle EXCEPT !.step = "remember", !.night = night,
                                           !.events = events, !.todo = todo]]
      BY <2>2 DEF Begin
    <3> DEFINE r == [Idle EXCEPT !.step = "remember", !.night = night, !.events = events, !.todo = todo]
    <3>2. proc' = [proc EXCEPT ![p] = r] /\ r.step # "fading"
      BY <3>1 DEF Idle
    <3> HIDE DEF r
    <3>3. proc[p].step # "fading" /\ UNCHANGED <<shelf, nightfalls, kills>>
      BY <2>2 DEF Begin, memoryFiles
    <3>4. overlapped => overlapped'
      BY <2>2 DEF Begin
    <3> QED BY <3>2, <3>3, <3>4, BesideTheShelf
  <2>3. ASSUME NEW p \in Procs, Distil(p) PROVE TendedInv'
    <3>1. PICK todo : proc' = [proc EXCEPT ![p].step = "distilled", ![p].todo = todo]
      BY <2>3 DEF Distil
    <3> DEFINE r == [proc[p] EXCEPT !.step = "distilled", !.todo = todo]
    <3>2. proc' = [proc EXCEPT ![p] = r] /\ r.step # "fading"
      BY <3>1 DEF IInv, Fields
    <3> HIDE DEF r
    <3>3. proc[p].step # "fading" /\ UNCHANGED <<shelf, nightfalls, kills, overlapped>>
      BY <2>3 DEF Distil, memoryFiles, history
    <3> QED BY <3>2, <3>3, BesideTheShelf
  <2>4. ASSUME NEW p \in Procs, SaveEvolving(p) \/ SaveSnapshot(p) PROVE TendedInv'
    <3>1. PICK r : proc' = [proc EXCEPT ![p] = r] /\ r.step # "fading"
      <4>1. CASE proc' = [proc EXCEPT ![p] = Idle]
        BY <4>1, NewDnaIsProper
      <4>2. CASE SaveEvolving(p) /\ proc' # [proc EXCEPT ![p] = Idle]
        <5>1. PICK updated : proc' = [proc EXCEPT ![p].step = "learned", ![p].dna = updated]
          BY <4>2 DEF SaveEvolving
        <5> DEFINE r == [proc[p] EXCEPT !.step = "learned", !.dna = updated]
        <5>2. proc' = [proc EXCEPT ![p] = r] /\ r.step = "learned"
          BY <5>1 DEF IInv, Fields
        <5> QED BY <5>2
      <4> QED BY <2>4, <4>1, <4>2 DEF SaveSnapshot
    <3>2. proc[p].step # "fading" /\ UNCHANGED <<shelf, nightfalls, kills, overlapped>>
      BY <2>4 DEF SaveEvolving, SaveSnapshot, memoryFiles, history
    <3> QED BY <3>1, <3>2, BesideTheShelf
  <2>5. ASSUME NEW p \in Procs, Kill(p) PROVE TendedInv'
    <3>1. kills' # 0
      BY <2>0, <2>5 DEF Kill
    <3> QED BY <3>1 DEF TendedInv, Tended
  <2>6. ASSUME NEW p \in Procs, Remember(p) PROVE TendedInv'
    <3> DEFINE r == [proc[p] EXCEPT !.todo = Tail(proc[p].todo)]
               record == Head(proc[p].todo)
               e == [record |-> record, fades |-> 0, since |-> nightfalls]
    <3>1. /\ proc' = [proc EXCEPT ![p] = r] /\ proc[p].step \in {"remember", "distilled"}
          /\ UNCHANGED <<nightfalls, kills, overlapped>> /\ proc[p].todo # <<>>
          /\ shelf' = shelf \/ (record.kind = "episodic" /\ shelf' = Shelved(e))
      BY <2>6 DEF Remember, IInv, history
    <3>2. r.step = proc[p].step
      BY DEF IInv, Fields
    <3>3. CASE shelf' = shelf
      <4> HIDE DEF r, e, record
      <4> QED BY <3>1, <3>2, <3>3, BesideTheShelf
    <3>4. CASE record.kind = "episodic" /\ shelf' = Shelved(e)
      <4>1. e \in Episodes /\ Faded(e)
        <5>1. proc[p].todo \in Seq(Records)
          BY DEF ShelfInv
        <5>2. record \in Records
          BY <3>1, <5>1
        <5> HIDE DEF record
        <5> QED BY <2>0, <3>4, <5>2 DEF Records, Episodes, Faded
      <4> HIDE DEF e, record, r
      <4>2. /\ Len(shelf') >= Len(shelf) /\ Len(shelf') \in Nat /\ Len(shelf) \in Nat
            /\ \A i \in DOMAIN shelf' : shelf'[i] = e \/ \E j \in DOMAIN shelf : shelf'[i] = shelf[j]
        <5>1. /\ Shelved(e) \in Seq(Episodes) /\ Len(Shelved(e)) >= Len(shelf)
              /\ \A i \in DOMAIN Shelved(e) :
                   Shelved(e)[i] = e \/ \E j \in DOMAIN shelf : Shelved(e)[i] = shelf[j]
          BY <2>a, <4>1, Shelving
        <5> QED BY <2>a, <3>4, <5>1
      <4>3. Tended' => Tended
        BY <2>0, <3>1, <4>2 DEF Tended
      <4>4. Tended => \A q \in Procs : proc[q].step # "fading"
        <5>1. proc[p].step # "idle" /\ proc[p].step # "fading"
          BY <3>1
        <5> QED BY <2>c, <5>1 DEF Tended
      <4>5. Tended => \A i \in DOMAIN shelf : Faded(shelf[i])
        BY <4>4 DEF TendedInv, AsTended, Rewriting
      <4>6. Tended => \A q \in Procs : proc'[q].step # "fading"
        BY <3>1, <3>2, <4>4, OneProcess
      <4>7. Tended => \A i \in DOMAIN shelf' : Faded(shelf'[i])
        BY <4>1, <4>2, <4>5
      <4> QED BY <3>1, <4>3, <4>6, <4>7 DEF TendedInv, AsTended, Faded
    <3> QED BY <3>1, <3>3, <3>4
  <2>7. ASSUME NEW p \in Procs, ListEpisodes(p) PROVE TendedInv'
    <3> DEFINE batch == [i \in DOMAIN Window |-> Decay(Window[i])]
               r == [proc[p] EXCEPT !.step = "fading", !.batch = batch]
    <3>1. /\ proc' = [proc EXCEPT ![p] = r] /\ nightfalls' = nightfalls + 1
          /\ UNCHANGED <<shelf, kills, overlapped>> /\ proc[p].step = "distilled"
      BY <2>7 DEF ListEpisodes, IInv, memoryFiles
    <3>2. r.step = "fading" /\ r.batch = batch
      BY DEF IInv, Fields
    <3>3. Tended' => Tended
      BY <3>1 DEF Tended
    <3> SUFFICES ASSUME Tended PROVE AsTended'
      BY <3>3 DEF TendedInv
    <3>4. \A q \in Procs : proc[q].step # "fading"
      BY <2>c, <3>1 DEF Tended
    <3>5. \A i \in DOMAIN shelf : Faded(shelf[i])
      BY <3>4 DEF TendedInv, AsTended, Rewriting
    <3>6. DOMAIN batch = DOMAIN shelf /\ \A i \in DOMAIN shelf : batch[i] = Decay(shelf[i])
      BY <2>a, ListingFades DEF Tended
    <3>7. ASSUME NEW i \in DOMAIN shelf
          PROVE  batch[i].record = shelf[i].record /\ batch[i].fades + batch[i].since = nightfalls'
      <4>1. shelf[i] \in Episodes
        BY <2>a
      <4>2. /\ batch[i].fades = shelf[i].fades + 1 /\ batch[i].since = shelf[i].since
            /\ batch[i].record = shelf[i].record
        BY <3>6, <4>1, EpisodesFade
      <4>3. shelf[i].fades \in Nat /\ shelf[i].since \in Nat /\ shelf[i].fades + shelf[i].since = nightfalls
        BY <2>b, <3>5, <4>1 DEF Faded
      <4> HIDE DEF batch
      <4> QED BY <2>0, <3>1, <4>2, <4>3
    <3> HIDE DEF batch, r
    <3>8. proc'[p] = r /\ \A q \in Procs \ {p} : proc'[q] = proc[q]
      BY <3>1, OneProcess
    <3>9. \A i \in DOMAIN shelf' : Rewriting(p, shelf[i].record)'
      BY <3>1, <3>2, <3>6, <3>7, <3>8 DEF Rewriting
    <3>10. \A q \in Procs : proc'[q].step = "fading" =>
             \A k \in DOMAIN proc'[q].batch : Faded(proc[q].batch[k])'
      BY <3>2, <3>4, <3>6, <3>7, <3>8 DEF Faded
    <3> QED BY <3>9, <3>10 DEF AsTended
  <2>8. ASSUME NEW p \in Procs, SaveFaded(p) PROVE TendedInv'
    <3> DEFINE r == [proc[p] EXCEPT !.batch = Tail(proc[p].batch)]
               batch == proc[p].batch
               e == Head(batch)
    <3>1. /\ proc' = [proc EXCEPT ![p] = r] /\ batch # <<>> /\ shelf' = Shelved(e)
          /\ UNCHANGED <<nightfalls, kills, overlapped>> /\ proc[p].step = "fading"
      BY <2>8 DEF SaveFaded, IInv, history
    <3>2. r.step = "fading" /\ r.batch = Tail(batch)
      BY <3>1 DEF IInv, Fields
    <3>3. /\ e = batch[1] /\ e \in Episodes /\ 1 \in DOMAIN batch
          /\ DOMAIN Tail(batch) = 1 .. Len(batch) - 1 /\ DOMAIN batch = 1 .. Len(batch)
          /\ \A k \in 1 .. Len(batch) - 1 : Tail(batch)[k] = batch[k + 1] /\ k + 1 \in 1 .. Len(batch)
          /\ \A k \in 1 .. Len(batch) : k = 1 \/ (k - 1 \in 1 .. Len(batch) - 1 /\ k = (k - 1) + 1)
      <4>1. batch \in Seq(Episodes)
        BY DEF ShelfInv
      <4> QED BY <3>1, <4>1
    <3> HIDE DEF e, batch, r
    <3>4. /\ Len(shelf') >= Len(shelf) /\ Len(shelf') \in Nat /\ Len(shelf) \in Nat
          /\ \A i \in DOMAIN shelf' :
               \/ shelf'[i] = e
               \/ \E j \in DOMAIN shelf : shelf'[i] = shelf[j] /\ shelf[j].record # e.record
      <4>1. /\ Shelved(e) \in Seq(Episodes) /\ Len(Shelved(e)) >= Len(shelf)
            /\ \A i \in DOMAIN Shelved(e) :
                 \/ Shelved(e)[i] = e
                 \/ \E j \in DOMAIN shelf : Shelved(e)[i] = shelf[j] /\ shelf[j].record # e.record
        BY <2>a, <3>3, Shelving
      <4> QED BY <2>a, <3>1, <4>1
    <3>5. Tended' => Tended
      BY <2>0, <3>1, <3>4 DEF Tended
    <3> SUFFICES ASSUME Tended PROVE AsTended'
      BY <3>5 DEF TendedInv
    <3>6. \A q \in Procs \ {p} : proc[q].step # "fading"
      BY <2>c, <3>1 DEF Tended
    <3>7. proc'[p] = r /\ \A q \in Procs \ {p} : proc'[q] = proc[q]
      BY <3>1, OneProcess
    <3>8. \A k \in DOMAIN batch : Faded(batch[k])
      BY <3>1 DEF TendedInv, AsTended, batch
    <3>9. ASSUME NEW i \in DOMAIN shelf'
          PROVE  Faded(shelf'[i]) \/ Rewriting(p, shelf[i].record)'
      <4>1. CASE shelf'[i] = e
        BY <3>3, <3>8, <4>1
      <4>2. ASSUME NEW j \in DOMAIN shelf, shelf'[i] = shelf[j], shelf[j].record # e.record
            PROVE  Faded(shelf'[i]) \/ Rewriting(p, shelf[i].record)'
        <5>1. Faded(shelf[j]) \/ Rewriting(p, shelf[j].record)
          BY <3>6 DEF TendedInv, AsTended, Rewriting
        <5>2. ASSUME Rewriting(p, shelf[j].record) PROVE Rewriting(p, shelf[i].record)'
          <6>1. PICK k \in DOMAIN batch : batch[k].record = shelf[j].record
            BY <5>2 DEF Rewriting, batch
          <6>2. k - 1 \in DOMAIN Tail(batch) /\ Tail(batch)[k - 1] = batch[k]
            <7>1. k # 1
              BY <3>3, <4>2, <6>1
            <7>2. k - 1 \in 1 .. Len(batch) - 1 /\ k = (k - 1) + 1
              BY <3>3, <6>1, <7>1
            <7> QED BY <3>3, <7>2
          <6> QED BY <3>2, <3>7, <4>2, <6>1, <6>2 DEF Rewriting
        <5> QED BY <4>2, <5>1, <5>2
      <4> QED BY <3>4, <4>1, <4>2
    <3>10. \A q \in Procs : proc'[q].step = "fading" =>
             \A k \in DOMAIN proc'[q].batch : Faded(proc'[q].batch[k])
      BY <3>2, <3>3, <3>6, <3>7, <3>8
    <3> QED BY <3>1, <3>9, <3>10 DEF Faded, AsTended
  <2>9. ASSUME NEW p \in Procs, LoadEvolving(p) PROVE TendedInv'
    <3> DEFINE r == [proc[p] EXCEPT !.step = "learning", !.dna = live]
    <3>1. /\ proc' = [proc EXCEPT ![p] = r] /\ proc[p].step = "fading" /\ proc[p].batch = <<>>
          /\ UNCHANGED <<shelf, nightfalls, kills, overlapped>>
      BY <2>9 DEF LoadEvolving, IInv, memoryFiles, history
    <3>2. r.step = "learning"
      BY DEF IInv, Fields
    <3> HIDE DEF r
    <3>3. (Tended' <=> Tended) /\ \A e : Faded(e)' <=> Faded(e)
      BY <3>1 DEF Tended, Faded
    <3> SUFFICES ASSUME Tended PROVE AsTended'
      BY <3>3 DEF TendedInv
    <3>4. \A q \in Procs \ {p} : proc[q].step # "fading"
      BY <2>c, <3>1 DEF Tended
    <3>5. \A q \in Procs : \A record : ~Rewriting(q, record)
      BY <3>1, <3>4 DEF Rewriting
    <3>6. \A q \in Procs : proc'[q].step # "fading"
      BY <3>1, <3>2, <3>4, OneProcess
    <3>7. \A i \in DOMAIN shelf : Faded(shelf[i])
      BY <3>5 DEF TendedInv, AsTended
    <3> QED BY <3>1, <3>6, <3>7 DEF Faded, AsTended
  <2>10. CASE Reset
    <3>1. shelf' = <<>> /\ UNCHANGED proc /\ \A p \in Procs : proc[p].step = "idle"
      BY <2>10 DEF Reset, Running
    <3> QED BY <3>1 DEF TendedInv, AsTended
  <2> QED BY <2>1, <2>2, <2>3, <2>4, <2>5, <2>6, <2>7, <2>8, <2>9, <2>10 DEF Next
<1> QED
  BY <1>1, <1>2, EveryVersionIsCovered, CountsStayNumbers, ShelfIsKept, PTL DEF Spec

\* An episode never fades more often than nights have passed over it, and exactly
\* once a night while no kill, no second process and no overfull shelf intervenes
\* (learning.py: the fading of a listing; persistence: one file per record).
THEOREM EpisodesFadeOnceANight == Spec => []FadesOnceANight
<1>1. CountsAreNumbers /\ ShelfInv /\ TendedInv => FadesOnceANight
  <2> SUFFICES ASSUME CountsAreNumbers, ShelfInv, TendedInv, NEW i \in DOMAIN shelf
               PROVE  /\ shelf[i].fades <= nightfalls - shelf[i].since
                      /\ ~overlapped /\ kills = 0 /\ Running = {} /\ Len(shelf) <= DecayWindow
                           => shelf[i].fades = nightfalls - shelf[i].since
    BY DEF FadesOnceANight
  <2>1. shelf[i] \in Episodes /\ shelf[i].fades + shelf[i].since <= nightfalls
    BY DEF ShelfInv
  <2>2. shelf[i].fades \in Nat /\ shelf[i].since \in Nat /\ nightfalls \in Nat
    BY <2>1 DEF Episodes, CountsAreNumbers
  <2>3. Tended /\ Running = {} => Faded(shelf[i])
    BY DEF TendedInv, AsTended, Rewriting, Running
  <2>4. shelf[i].fades <= nightfalls - shelf[i].since
    BY <2>1, <2>2
  <2>5. Faded(shelf[i]) => shelf[i].fades = nightfalls - shelf[i].since
    BY <2>2 DEF Faded
  <2> QED BY <2>3, <2>4, <2>5 DEF Tended
<1> QED BY <1>1, CountsStayNumbers, ShelfIsKept, TendedIsKept, PTL

=============================================================================
