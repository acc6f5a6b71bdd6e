------------------------- MODULE MCDecisionPipeline -------------------------
(* Values for the model checking run of DecisionPipeline.                  *)
EXTENDS DecisionPipeline

CONSTANTS yes, no, none

\* One token is worth more than the other, or they are worth the same.
TwoBooks == {<<4, 6>>, <<5, 7>>}

\* A change of settling shares alone, and one the signature counts.
SomePositions == {[counted |-> 0, settling |-> 1], [counted |-> 0, settling |-> 0],
                  [counted |-> 1, settling |-> 0]}
=============================================================================
