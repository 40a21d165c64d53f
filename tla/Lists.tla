----------------------------------- MODULE Lists -----------------------------------
(***************************************************************************)
(* Lists as the services build them from other lists: the comprehensions and *)
(* filters of the code, written so that a proof can take them apart.         *)
(***************************************************************************)
EXTENDS Naturals, Sequences

\* The elements at some positions of a list, in order: SelectSeq for a set of positions, as
\* a recursive function.
Kept(list, positions) ==
  LET upTo[n \in 0..Len(list)] ==
        IF n = 0 THEN <<>>
        ELSE IF n \in positions THEN Append(upTo[n - 1], list[n]) ELSE upTo[n - 1]
  IN upTo[Len(list)]

\* A part of a list that is left out on a condition.
Unless(part, out) == IF out THEN <<>> ELSE part

=============================================================================
