----------------------------- MODULE Publishing -----------------------------
(***************************************************************************)
(* What the brain promises of the works it publishes, wherever it is       *)
(* interrupted: an idea is taken up once, one work a day at most; only the *)
(* latest work is worked on, and an earlier one stays as it was left; a    *)
(* work is told of once it is whole and not before; what is whole remains  *)
(* whole, and what was told is never taken back.                           *)
(***************************************************************************)
EXTENDS Integers, Sequences

VARIABLE books    \* one record a work, in the order they were begun

Init == books = <<>>

Begin ==
  LET idea == books'[Len(books')].idea
      day == books'[Len(books')].day
  IN  /\ Len(books') = Len(books) + 1
      /\ books' = Append(books, [idea |-> idea, day |-> day, stage |-> "begun"])
      /\ \A k \in 1 .. Len(books) : books[k].idea # idea /\ books[k].day < day

Advance(from, to) ==
  /\ books # <<>> /\ books[Len(books)].stage = from
  /\ books' = [books EXCEPT ![Len(books)].stage = to]

Finish == Advance("begun", "whole")
Tell == Advance("whole", "told")

Next == Begin \/ Finish \/ Tell

Spec == Init /\ [][Next]_books

=============================================================================
