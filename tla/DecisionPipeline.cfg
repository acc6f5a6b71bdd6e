SPECIFICATION Spec
CONSTANTS
    yes = yes  no = no  none = none
    YesToken = yes
    NoToken = no
    Prices = {1, 3}
    OpenPrice = 2
    NoPrice = none
    Nothing = none
    Books <- TwoBooks
    Positions <- SomePositions
    QueueSize = 1
    MaxEvents = 5
INVARIANTS BaseMovesOnce
PROPERTIES DecisionsCatchUp
CHECK_DEADLOCK FALSE
