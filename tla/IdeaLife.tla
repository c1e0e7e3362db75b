------------------------------ MODULE IdeaLife ------------------------------
(***************************************************************************)
(* What the brain promises about an idea, however many tournaments, nights *)
(* and restarts it goes through: it is born once, competing or resting in  *)
(* the mutation pool; it leaves the competition by winning, by resting or  *)
(* by being buried; a resting idea can only be buried; a grave and a       *)
(* victory are for ever.  One idea changes at a time.                      *)
(***************************************************************************)
CONSTANT Ids

VARIABLE life

Lives == {"unborn", "competing", "resting", "buried", "won"}

Init == life = [i \in Ids |-> "unborn"]

Become(i, from, to) == life[i] \in from /\ life' = [life EXCEPT ![i] = to]

Next ==
  \E i \in Ids :
    \/ Become(i, {"unborn"}, "competing")
    \/ Become(i, {"unborn", "competing"}, "resting")
    \/ Become(i, {"competing", "resting"}, "buried")
    \/ Become(i, {"competing"}, "won")

Spec == Init /\ [][Next]_life

=============================================================================
