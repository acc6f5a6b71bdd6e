SPECIFICATION Safety
CONSTANTS
    yes = yes  no = no  none = none
    Tokens = {yes}
    NoToken = none
    DesiredShares <- Resizes
    MakerShares = 5
    ReplaceGap = 1
    Price = 4
    FeePrice = 1
    Payout = 10
    Dust = 0
    Winners = {}
    MaxOrders = 2
    MaxSyncs = 1
CHECK_DEADLOCK FALSE
INVARIANTS TypeOK ExposureBounded OneOpenOrder VerdictsAgree QuietMeansAgreed ReportsInOrder
PROPERTIES OutcomeIsFinal
