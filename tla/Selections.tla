----------------------------- MODULE Selections -----------------------------
(* The subsequence of the elements of a sequence that are in a set.  It is  *)
(* a recursive function rather than SelectSeq, which the proof system knows *)
(* nothing about.                                                           *)
EXTENDS Integers, Sequences

OnlyIn(s, S) ==
    LET taken[n \in 0..Len(s)] ==
          IF n = 0 THEN <<>>
          ELSE IF s[n] \in S THEN Append(taken[n - 1], s[n]) ELSE taken[n - 1]
    IN  taken[Len(s)]
=============================================================================
