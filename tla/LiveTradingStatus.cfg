SPECIFICATION Spec
CONSTANTS
    yes = yes  no = no  none = none  us = us  them = them
    Token = yes
    OtherToken = no
    NoToken = none
    Wallet = us
    Stranger = them
    NoId = 0
    OrderSizes = {2}
    MakerShares = 2
    Prices = {3, 4}
    Price = 4
    FeePrice = 1
    One = 10
    Dust = 0
    TakerFills <- Executions
    Chain <- ShortChain
    MaxOrders = 1
    MaxDeals = 2
    MaxDrops = 1
    MaxSyncs = 1
INVARIANTS StatusAsDocumented
CHECK_DEADLOCK FALSE
