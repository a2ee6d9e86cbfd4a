SPECIFICATION Spec
CONSTANTS
    MaxRetries = 2
    Identified <- MCIdentified
    Sendable <- MCIdentified
    Rejected <- MCRejected
    MaxEvents = 5
INVARIANT ResumesWhereItStopped
CHECK_DEADLOCK FALSE
