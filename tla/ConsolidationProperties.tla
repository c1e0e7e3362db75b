---------------------- MODULE ConsolidationProperties ----------------------
(***************************************************************************)
(* What the growth run asks of the CONSOLIDATION phase, and the values its *)
(* configuration gives the constants.                                      *)
(***************************************************************************)
EXTENDS Consolidation, FiniteSets

Entries == DOMAIN Key

Dnas == [version : Nat, bucket : Seq(Entries), change_log : Seq(Nat)]

Records == [kind : Kinds, night : Nat, subject : Nat]

Episodes == [record : [kind : {"episodic"}, night : Nat, subject : Nat], fades : Nat, since : Nat]

\* The types, and what the types should say: every stored DNA keeps its bucket
\* under the cap and free of entries that differ only in case or blanks, and no
\* record has two files.
TypeOK ==
  /\ shelf \in Seq(Episodes) /\ kept \subseteq Records
  /\ \A i, j \in DOMAIN shelf : shelf[i].record = shelf[j].record => i = j
  /\ DOMAIN snapshots \subseteq Nat \ {0}
  /\ \A p \in Procs :
       /\ proc[p].step \in {"idle", "remember", "distilled", "fading", "learning", "learned"}
       /\ proc[p].todo \in Seq(Records) /\ proc[p].batch \in Seq(Episodes)
  /\ \A dna \in {live} \cup {proc[p].dna : p \in Procs} :
       /\ dna \in Dnas
       /\ Len(dna.bucket) <= BucketCap
       /\ \A i, j \in DOMAIN dna.bucket :
            Key[dna.bucket[i]] # Blank /\ (Key[dna.bucket[i]] = Key[dna.bucket[j]] => i = j)

Writing(v) == \E p \in Procs : proc[p].step = "learned" /\ proc[p].dna.version = v

\* Every version the live DNA went through has its snapshot, unless the process
\* that made it is still about to write it or was killed in between; and while
\* nobody overlapped, the snapshot of the live version is the live DNA itself.
\* Two processes, kills between the two files, a reset that keeps the old
\* snapshots and a checkout that ships some do not change that.
SnapshotsAccountedFor ==
  /\ \A v \in 1 .. live.version : v \in DOMAIN snapshots \/ v \in lost \/ Writing(v)
  /\ ~overlapped /\ live.version > 0 /\ live.version \notin lost /\ ~Writing(live.version)
       => snapshots[live.version] = live

\* What later still holds of what before held: the oldest entries may have been
\* dropped, and only to make room under the cap.
Remembers(before, later) ==
  \E first \in 1 .. Len(before) + 1 :
    /\ IsPrefix(SubSeq(before, first, Len(before)), later)
    /\ first > 1 => Len(later) = BucketCap

\* Learning never unlearns: only the cap, the reset script and a second process
\* that loaded before the first one saved take an entry out of the DNA again.
NothingUnlearned ==
  [][resets' # resets \/ overlapped' \/ Remembers(live.bucket, live'.bucket)]_vars

\* An episodic record never fades more often than nights have passed over it, and
\* exactly once a night while no kill, no second process and no overfull shelf
\* intervenes: not twice for a record rewritten while the phase is still running,
\* and not never for one rewritten out of order.
FadesOnceANight ==
  \A i \in DOMAIN shelf :
    LET episode == shelf[i] IN
    /\ episode.fades <= nightfalls - episode.since
    /\ ~overlapped /\ kills = 0 /\ Running = {} /\ Len(shelf) <= DecayWindow
         => episode.fades = nightfalls - episode.since

\* The processes are alike.
Alike == Permutations(Procs)

-----------------------------------------------------------------------------
(* The values of the growth run. *)

\* "RIO" and "rio" are one entry to the DNA, " " is none.
KeyOf == [rio |-> "rio", RIO |-> "rio", mar |-> "mar", lua |-> "lua", gap |-> ""]

SomeReports == {<<"rio", "gap", "RIO", "mar">>, <<"lua", "mar">>}

Concept(approved, reasons) == [what |-> "concept", approved |-> approved, reasons |-> reasons]
Observation == [what |-> "observation"]

SomeCycles ==
  {[events |-> 1, subjects |-> <<Concept(TRUE, FALSE)>>],
   [events |-> 2, subjects |-> <<Concept(FALSE, TRUE), Observation>>]}

FreshOrShipped == {<<>>, [v \in {1} |-> [NewDna EXCEPT !.version = 1, !.bucket = <<"mar">>]]}

=============================================================================
