SPECIFICATION PromptSpec
CONSTANTS
  list = list
  item = item
  other = other
  third = third
  Request = {list, item, other, third}
  Bootstrap <- MCBootstrap
  Feeds <- MCFeeds
  FeedsBack = {list}
  Emits = {item, other, third}
  Status = {200}
  OnStatus <- DefaultPolicy
  MaxConcurrency = 2
  MaxRequests = 4
  MaxDepth = 1
  MinInterval = 1
  PollingInterval = 1
  MaxRateLimitWait = 2
  StartTs = 0
  Limit = 0
  MaxReset = 0
  MaxNow = 3
  MaxRestarts = 0
PROPERTY StartsSpaced
