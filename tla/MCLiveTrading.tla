---------------------------- MODULE MCLiveTrading ----------------------------
(* Values for the model checking run of LiveTrading.                       *)
EXTENDS LiveTrading

CONSTANTS yes, no, none, us, them

\* A trade is mined or fails at once: that reports of the same status are
\* repeated is the subject of the ledger run of OrderManager.
ShortChain ==
    [status \in {"MATCHED", "RETRYING", "MINED", "CONFIRMED", "FAILED"} |->
        IF status = "MATCHED" THEN {"MINED", "FAILED"} ELSE {}]

Quote(token, shares, price) ==
    [maker_address |-> them, order_id |-> 0, asset_id |-> token,
     matched_amount |-> shares, price |-> price]

\* A taker's two shares: one bought from a seller at 2, one matched with a
\* buyer of the other token at 4 (that is, at 6), 4 on average; or without
\* details.
Executions ==
    {[price |-> 2, parts |-> <<Quote(yes, 1, 2), Quote(no, 1, 4)>>],
     [price |-> 3, parts |-> <<>>]}
=============================================================================
