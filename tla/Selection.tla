----------------------------- MODULE Selection ------------------------------
(***************************************************************************)
(* What the loops and comprehensions of the code select from a list.       *)
(* SelectSeq says the same of a predicate; this one is a recursive         *)
(* function, which the provers can be told about.                          *)
(***************************************************************************)
EXTENDS Integers, Sequences

\* The elements of `s` that are in S, in their order.
Select(s, S) ==
  LET picked[n \in 0..Len(s)] ==
        IF n = 0 THEN <<>>
        ELSE IF s[n] \in S THEN Append(picked[n - 1], s[n]) ELSE picked[n - 1]
  IN picked[Len(s)]
=============================================================================
