SPECIFICATION Spec
CONSTANTS
    o1 = o1  o2 = o2  t1 = t1  t2 = t2  t3 = t3  yes = yes  no = no
    Orders = {o1, o2}
    Trades = {t1, t2}
    Tokens = {yes}
    NoToken = none
    NoId = noid
    OrderSizes <- LedgerSizes
    Fills <- LedgerFills
    TradeSizes <- LedgerTrades
    Prices = {4}
    FeePrice = 1
    Payout = 10
    Dust = 1
    MaxSyncs = 0
SYMMETRY Interchangeable
CONSTRAINT Uncancelled
INVARIANTS PositionIsClean EffectiveIsCommitted CashLedger
PROPERTIES TradeAppliedOnce
CHECK_DEADLOCK FALSE
