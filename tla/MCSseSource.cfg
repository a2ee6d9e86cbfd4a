SPECIFICATION FairSpec
CONSTANTS
    MaxRetries = 2
    Identified <- MCIdentified
    Sendable <- MCSendable
    Rejected <- MCRejected
    MaxEvents = 5
INVARIANTS
    TypeOK
    SkipsOnlyIfForgotten
    RepeatsOnlyUnidentified
    GivesUpOnlyAfterBudget
PROPERTY CatchesUp
CHECK_DEADLOCK FALSE
