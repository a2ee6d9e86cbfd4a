SPECIFICATION Spec
CONSTANTS
  list = list
  item = item
  other = other
  third = third
  Request = {list, item, other, third}
  Bootstrap <- MCBootstrap
  Feeds <- MCFeeds
  FeedsBack = {list}
  Emits = {item, other, third}
  Status = {200, 403, 500}
  OnStatus <- DefaultPolicy
  MaxConcurrency = 2
  MaxRequests = 4
  MaxDepth = 1
  MinInterval = 0
  PollingInterval = 1
  MaxRateLimitWait = 2
  StartTs = 0
  Limit = 2
  MaxReset = 2
  MaxNow = 3
  MaxRestarts = 1
INVARIANTS TypeOK NothingSkipped
PROPERTIES PauseHonoured HandledOnce ImplementsCursor
