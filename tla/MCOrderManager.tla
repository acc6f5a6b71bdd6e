--------------------------- MODULE MCOrderManager ---------------------------
(* Values for the model checking runs of OrderManager.                     *)
EXTENDS OrderManager, TLC

CONSTANTS o1, o2, t1, t2, t3, yes, no

\* A size at which 98% leaves more than dust open, and reports that leave
\* an order untouched, half matched, matched to the threshold and complete;
\* a trade of dust and one of more.
LifecycleSizes == {10, 100}
LifecycleFills == {0, 5, 9, 10, 50, 98, 100}
LifecycleTrades == {1, 5}

\* Small quantities for the sums over several orders and trades.
LedgerSizes == {3}
LedgerFills == {0, 3}
LedgerTrades == {2, 3}

\* Bound of the ledger run: orders are not cancelled, and are the maker's.
Uncancelled ==
    \A o \in Orders : orders[o].role = "MAKER" /\ ~orders[o].should_cancel /\ ~orders[o].is_cancelling

Interchangeable == Permutations({o1, o2}) \cup Permutations({t1, t2})
=============================================================================
