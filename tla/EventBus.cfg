SPECIFICATION Spec
CONSTANTS
    Tasks <- MCTasks
    Subscriptions <- MCSubscriptions
    Kinds <- MCKinds
    Matches <- MCMatches
    Policy <- MCPolicy
    MaxSize <- MCSize
    Reader <- MCReader
    Publishes <- MCPublishes
    MaxEvents <- MCEvents
CONSTRAINT OneSet
INVARIANTS TypeOK EventsAccounted NoLostWakeup LatestKept
PROPERTIES ImplementsChannel EventsArrive
