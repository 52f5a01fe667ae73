CONSTANTS
    MaxStreamsUni = 1
    EgressLimit = 4
    MaxObjects = 3
SPECIFICATION FairSpec
PROPERTY
    EventuallyRaised
CHECK_DEADLOCK FALSE
