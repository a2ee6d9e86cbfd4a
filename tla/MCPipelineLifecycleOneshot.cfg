SPECIFICATION FairSpec
CONSTANTS
  db = db
  sse = sse
  cli = cli
  wrapped = wrapped
  hook = hook
  poll = poll
  Sink = {db, sse}
  SseSink = {sse}
  Source = {cli, hook}
  Kind <- MCKind
  Client = {c1}
  Post = {p1}
  MaxEvents = 2
  MaxPanics = 0

PROPERTY OneshotEnds
CHECK_DEADLOCK FALSE
