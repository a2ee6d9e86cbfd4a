SPECIFICATION MCSpec
CONSTANTS
    None = None
    Opaque = Opaque
    Now = Now
    Zero = Zero
    Dashed = Dashed
    Plain = Plain
    Idle = Idle
    File = {"a", "b"}
    Patterns <- ScanPatterns
    Empty <- ScanEmpty
    Margin = 2
    MaxDelay = 1
    Limits = {3, 99}
    MaxTime = 5
    MaxWrites = 2
    MaxStarts = 3
    Modes = {"core", "jetstream", "kafka", "kafka_uncommitted"}
    MaxMessages = 3
    MaxInbox = 2
    MaxStops = 2
    Row = {"r", "s", "t"}
    Batches <- StoreBatches
    MaxRowRetries = 1
    MaxDrains = 2
    Url <- FetchUrls
    Configured = {"x-api-key", "authorization"}
    TrustedHosts = {"blob"}
    RetryStatus = {404}
    MaxRedirects = 2
    MaxRetries = 1
    MaxTransient = 1
    BadName = {}
    Version = "1.0"
    Json = "application/json"
    Lower <- LowerTokens
    DecodesAs <- Decoding
    HeaderInputs <- AllHeaderInputs
    Dotted = {"ghcr.io", "docker.io"}
    Word <- Sanitized
    EventInputs <- AllEventInputs
INVARIANTS
    FilesOnce
    AckedIsHandled
    HeadersStayHome
    HeadersAgree
    EventsFaithful
    TextsRead
PROPERTIES
    StoreKeepsPromise
\* A scan stops at its limit, an exchange and a stored batch end, a function
\* has no step.
CHECK_DEADLOCK FALSE
