--------------------------- MODULE MCMockTrading ---------------------------
(* Values for the model checking runs of MockTrading.                      *)
EXTENDS MockTrading

CONSTANTS yes, no, none

\* Nothing, or more than the minimum of a maker order.
Desires == {0, 6}

\* Less and more than that minimum: the first order is a maker or a taker, and
\* so is the one that replaces it.
Resizes == {2, 8}

=============================================================================
