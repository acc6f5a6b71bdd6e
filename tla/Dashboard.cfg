SPECIFICATION Spec
CONSTANTS
    Markets = {a, b}
    Clients = {x, y}
    QueueSize = 1
    BacklogSize = 2
    MaxStates = 2
INVARIANTS ClientsCurrent
PROPERTIES NoStepBack
CHECK_DEADLOCK FALSE
