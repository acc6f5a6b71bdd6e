SPECIFICATION Spec
CONSTANTS
    o1 = o1  o2 = o2  t1 = t1  t2 = t2  t3 = t3  yes = yes  no = no
    Orders = {o1}
    Trades = {t1}
    Tokens = {yes, no}
    NoToken = none
    NoId = noid
    OrderSizes <- LifecycleSizes
    Fills <- LifecycleFills
    TradeSizes <- LifecycleTrades
    Prices = {4}
    FeePrice = 1
    Payout = 10
    Dust = 1
    MaxSyncs = 2
INVARIANTS PendingIsWhole SharesBounded CancelBookkeeping
PROPERTIES NoResurrection DeferredCancelHonoured DeferredCancelResolved StrategyIsTold
CHECK_DEADLOCK FALSE
