SPECIFICATION FairSpec
CONSTANTS
  db = db
  sse = sse
  cli = cli
  wrapped = wrapped
  hook = hook
  poll = poll
  Sink = {db, sse}
  SseSink = {sse}
  Source = {wrapped, hook, poll}
  Kind <- MCKind
  Client = {c1}
  Post = {p1}
  MaxEvents = 2
  MaxPanics = 1
INVARIANTS TypeOK NothingLeftBehind StatusIsTheChilds SuccessMeansNoFailure
PROPERTY CancelStops
CHECK_DEADLOCK FALSE
