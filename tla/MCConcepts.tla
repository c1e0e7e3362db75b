----------------------------- MODULE MCConcepts -----------------------------
(***************************************************************************)
(* A funnel of two rounds for the concept runs.                            *)
(***************************************************************************)
EXTENDS ConceptsProperties

TwoRounds ==
  <<[stage |-> "PREMISE", survivors |-> 2], [stage |-> "FINALIST", survivors |-> 2]>>

=============================================================================
