SPECIFICATION Spec
CONSTANTS
    w1 = w1
    w2 = w2
    pull = pull
    p1 = p1
    p2 = p2
    p3 = p3
    p4 = p4
    e1 = e1
    e2 = e2
    e3 = e3
    e4 = e4
    bad = bad
    k1 = k1
    k2 = k2
    k3 = k3
    s1 = s1
    s2 = s2
    None = None
    NoKey = NoKey
    Source <- MCSource
    Backpressure = {w1, w2}
    Sink = {s1, s2}
    Payload <- MCPayload
    SourceOf <- MCSourceOf
    Malformed = {p4}
    Event <- MCEvent
    Outputs <- MCOutputs
    Unconvertible = {bad}
    Key = {k1, k2, k3}
    DedupKey <- MCDedupKey
    DedupCapacity <- MCDedupCapacity
    QueueCapacity = 2
    RingSize = 2
    MaxAttempts <- MCMaxAttempts
INVARIANT CreatedIsSent
CHECK_DEADLOCK FALSE
