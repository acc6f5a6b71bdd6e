-------------------------------- MODULE Sums --------------------------------
(***************************************************************************)
(* The sum of a function over a finite set.  The community modules fold an *)
(* operator over a set; a function is used here because the lemmas of      *)
(* Sums_proofs can then be stated about any summand.                       *)
(***************************************************************************)
EXTENDS FiniteSetsExt

SumOf(f, S) == MapThenSumSet(LAMBDA x : f[x], S)
=============================================================================
