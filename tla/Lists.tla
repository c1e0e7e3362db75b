------------------------------- MODULE Lists -------------------------------
(***************************************************************************)
(* The lists that comprehensions and loops of the repository build, as     *)
(* recursive functions, of which ListProofs can say what SelectSeq and the *)
(* folds leave to the model checker.                                       *)
(***************************************************************************)
EXTENDS Integers, SequencesExt

\* [x for x in s if x in S]
Among(s, S) ==
  LET kept[n \in 0 .. Len(s)] ==
        IF n = 0 THEN <<>>
        ELSE IF s[n] \in S THEN Append(kept[n - 1], s[n]) ELSE kept[n - 1]
  IN  kept[Len(s)]

\* sorted(S), the order being a set of pairs: the n-th comes after n - 1 others.
InOrder(S, R) ==
  [n \in 1 .. Cardinality(S) |-> CHOOSE x \in S : Cardinality({y \in S : <<y, x>> \in R}) = n - 1]

=============================================================================
