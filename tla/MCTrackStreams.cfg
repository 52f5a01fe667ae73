CONSTANTS
    MaxStreamsUni = 3
    EgressLimit = 4
    MaxObjects = 3
SPECIFICATION FairSpec
INVARIANTS
    TypeOK
    OneStreamPerTurn
    InOrderOneWay
    BacklogBounded
PROPERTY
    EventuallyRaised
CHECK_DEADLOCK FALSE
