----------------------------- MODULE CreativeDay -----------------------------
(***************************************************************************)
(* What the brain promises about a creative day, whatever its gauges,      *)
(* backlogs, budget and failures: a day starts by AWAKENING, runs no phase *)
(* twice and is over once it has reached DEEP_SLEEP.  "day" is the list of *)
(* phases the living process has entered; "kept" is the copy that survives *)
(* the process.                                                            *)
(***************************************************************************)
EXTENDS Naturals, Sequences

CONSTANT Phases    \* contains "AWAKENING" and "DEEP_SLEEP"

VARIABLES day, kept

vars == <<day, kept>>

Happened(p) == \E i \in 1 .. Len(day) : day[i] = p

Init == day = <<>> /\ kept = <<>>

\* A new day wipes the list.
Dawn == day' = <<>> /\ UNCHANGED kept

EnterPhase(p) ==
  /\ ~Happened(p)
  /\ ~Happened("DEEP_SLEEP")
  /\ day = <<>> => p = "AWAKENING"
  /\ day' = Append(day, p)
  /\ UNCHANGED kept

Keep == kept' = day /\ UNCHANGED day

\* The process is gone: only what was kept is left.
Die == day' = <<>> /\ UNCHANGED kept

Resume == day' = kept /\ UNCHANGED kept

Erase == kept' = <<>> /\ UNCHANGED day

Next ==
  \/ Dawn
  \/ \E p \in Phases : EnterPhase(p)
  \/ Keep
  \/ Die
  \/ Resume
  \/ Erase

Spec == Init /\ [][Next]_vars

=============================================================================
