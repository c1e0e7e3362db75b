------------------------------ MODULE MCVault ------------------------------
(***************************************************************************)
(* A small vault: two names for notes, and one the adapter cleans into the *)
(* first of them.                                                          *)
(***************************************************************************)
EXTENDS Vault

MCTitles == {"A", "A?", "B"}
MCCleaned == [title \in MCTitles |-> IF title = "A?" THEN "A" ELSE title]
=============================================================================
