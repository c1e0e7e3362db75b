------------------------------ MODULE MCRuntime ------------------------------
(***************************************************************************)
(* Values for the constants of Runtime that a configuration file cannot    *)
(* write down: what each phase publishes and how many model calls it wants.*)
(* The published counts are those of the shipped targets (agents.yaml): 8  *)
(* observations, 2 research topics, 2 questions per observation, 5         *)
(* generators of 4 seeds and 12 concepts with two events each.             *)
(***************************************************************************)
EXTENDS RuntimeProperties

\* Events of a cycle run with the shipped targets and a mock model.
ShippedEvents ==
  [p \in Phases |->
     CASE p = "OBSERVATION" -> {8}
       [] p = "HUNT" -> {2}
       [] p = "FOCUS" -> {16}
       [] p \in {"CREATION", "EXPLORATION"} -> {44}
       [] p = "REFLECTION" -> {40}
       [] p = "CONSOLIDATION" -> {2}
       [] OTHER -> {0}]

\* A quiet cycle, or one that is busy from its first phase on.
QuietOrBusyEvents == [p \in Phases |-> IF p = "OBSERVATION" THEN {0, 34} ELSE {0}]

\* A HUNT that asks the model: the budget of a process lasts for one, not for two.
HuntCalls == [p \in Phases |-> IF p = "HUNT" THEN {3} ELSE {0}]

\* A HUNT that asks the model little, or more than it may.
EagerCalls == [p \in Phases |-> IF p = "HUNT" THEN {2, 4} ELSE {0}]

=============================================================================
