SPECIFICATION Spec
CONSTANTS
    yes = yes  no = no  none = none
    Tokens = {yes}
    NoToken = none
    DesiredShares <- Desires
    MakerShares = 5
    ReplaceGap = 1
    Price = 4
    FeePrice = 1
    Payout = 10
    Dust = 0
    Winners = {yes}
    MaxOrders = 1
    MaxSyncs = 2
CHECK_DEADLOCK FALSE
PROPERTIES TakerOrderEnds CancelEnds
