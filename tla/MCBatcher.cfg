SPECIFICATION Spec
CONSTANTS
    BatchMaxSize = 2
    Spooling = TRUE
    Refusable = {2}
    MaxItems = 3
    MaxRestarts = 1
    MaxDiskFaults = 1
    MaxCopies = 1
INVARIANTS
    TypeOK
    NoLossWhileRunning
    SlotItemsSpooled
    FlushHonest
    NoUnexplainedDuplicate
    OvertakesOnlyWithinChunk
PROPERTY ImplementsBuffer
CHECK_DEADLOCK FALSE
