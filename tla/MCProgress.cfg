SPECIFICATION FairSpec
CONSTANTS
  BatchMaxSize = 2
  Spooling = FALSE
  Refusable = {}
  MaxItems = 4
  MaxDiskFaults = 0
  MaxCopies = 0
  page = page
  Request = {page}
  FeedsBack = {page}
  Emits = {page}
  Status = {200, 403, 404}
  MaxConcurrency = 2
  MaxRequests = 3
  MaxDepth = 1
  MinInterval = 1
  PollingInterval = 1
  MaxRateLimitWait = 2
  StartTs = 0
  Limit = 2
  MaxReset = 1
  MaxNow = 4
  MaxRestarts = 1
PROPERTIES PushNeverWaits FlushReturns EventuallySettled PollsEnd CancelStops
\* A process that ended and is not started again does nothing.
CHECK_DEADLOCK FALSE
