# cdviz-collector in TLA+

cdviz-collector turns what software tools emit into [CDEvents](https://cdevents.dev)
and ships them to databases, HTTP endpoints, brokers and files. This directory holds
TLA+ models of its concurrent core and of the conversions around it, the TLC
configurations that check them on small instances, and theorems that TLAPS proves for
every instance.

    tlc -workers 2 -config MCBatcher.cfg MCBatcher      # one run
    tlapm BatcherProofs.tla                             # one module's proofs

`PROJECT.json` lists the runs, maps every definition to the lines it models, and holds
the mutants: for each property of a passing run one plausible bug of the code that makes
the property fail. In the modules such a bug is an operator marked *Fault*, placed
before the definition it would replace; no specification uses it.

## 1. The system

    webhook ─┐                                                    ┌─ sink task ─ Batcher ─ PostgreSQL
    polling ─┤  transformer chain    Processor::send   broadcast  ├─ sink task ─ Batcher ─ ClickHouse
    files   ─┼─ (vrl, deduplicate) ─ (watermark,     ─  queue   ──┼─ sink task ─ HTTP, NATS, Kafka, files
    sse     ─┤   one per source       CDEvent, send)              └─ sink task ─ SSE clients
    broker  ─┘

A process is one pipeline (`pipeline.rs`). Each source is a tokio task, or a route of the
HTTP server; it owns a chain of transformers that ends in `send_cdevents::Processor`,
which sends `Message`s to one `tokio::sync::broadcast` queue. Each sink is a task with
its own receiver. The chain is synchronous: a source's `send` runs through to the queue
and its error comes back to the source. The queue closes when the last source drops its
sender; the sinks then flush and end, and with them the process.

| component (code) | state | operations | what is hard | what makes it correct |
|---|---|---|---|---|
| batcher (`sinks/batch.rs`) | channel, two slots, spool files, active slot | push, flush, write, drain, store, replay | three tasks, an unreachable target, failing disk, crash at any step | no event lost or reordered, duplicates only from failures, flush honest and never hanging |
| sink loop (`sinks/mod.rs`) | receiver position | receive, lag, close, flush | a slow sink against a ring that overwrites | takes a lag for a gap, goes on and catches up |
| terminal and queue (`send_cdevents.rs`, `pipeline.rs`) | ring | check the watermark, convert, send | look and send are not atomic | the headroom holds, no silent loss for sources that can refuse |
| webhook (`sources/webhook`) | mutex of the route | receive, answer | concurrent requests, retries after 503 | a 201 means the events are in the queue |
| transformers (`transformers/`) | keys of `deduplicate` | vrl, deduplicate, ... | one payload becomes several events, one of which is refused | window of the stated capacity |
| SSE source (`sources/sse`) | last id, retry counter | connect, receive, reconnect | broken streams, messages without id, budget | resumes where it stopped, repeats nothing identified |
| HTTP polling (`sources/http_polling`) | worklist, window, rate-limit pause, checkpoint | poll, fetch, feed back, hold, advance, abort | concurrent requests, rate limits, request budget, crash | every window is asked in full or held; a pause holds the worklist |
| HTTP retry middleware (`retry_after_middleware.rs`) | attempts, hops | redirect, retry after `Retry-After`, retry transient failures | two middlewares and reqwest each send again | bounded; credentials stay with their origin |
| files source (`sources/opendal`) | window, checkpoint | list, stat, parse, jump | a file modified during a scan, a stat that fails, crash between scan and save | no file with content skipped between two windows, but for want of a length |
| checkpoint (`state.rs`) | one file per source | load, save | crash before or after the save | replays rather than skips |
| lifecycle (`pipeline.rs`, `http.rs`, `lib.rs`) | tasks, senders, token, connections | start, cancel, join, exit | who still holds a sender; an early failure while others run | everything queued is handled; terminates once cancelled |
| SSE sink (`sinks/sse.rs`) | broadcast to clients | send, subscribe | clients connected at shutdown | the shutdown ends once they have left |
| database stores (`sinks/db.rs`, `clickhouse.rs`, `retry.rs`) | mode of the procedure | batch, row by row, retry | an outage in the middle of the fallback | only refused rows are dropped |
| HTTP sink (`sinks/http.rs`) | headers | post, retry, redirect | a POST redirected elsewhere, late answers | the headers stay home, an exchange ends |
| NATS, Kafka (`sources/`, `sinks/`) | client | receive, ack, commit, publish | acknowledged whatever happened, timers | what an ack promises; what is sent is read back |
| subprocess (`sources/subprocess`) | child, exit code | start, wait, kill | cancellation against exit | the status is the child's and read after it |
| security (`security/`) | none | generate, validate, sign | order of generation, what a signature covers | a sink's headers satisfy the mirrored rules |
| parsers (`sources/parsers*`, `opendal/parsers.rs`), command line (`sources/cli`) | none | split, decode | the same formats in three places, malformed parts, blank texts, arrays | the same items come out, refusals agree, the differences are the known ones |
| event construction, VRL functions | none | identity, package URLs | defaults left out or given | one identity per event, one URL per artifact |
| OTLP, debug, folder, broker records | none | convert | what is derived from a type | the record says what the event says |
| configuration (`config/`, `transformers/mod.rs`) | none | merge, read files, resolve references | order of the steps, remote files | the last layer wins; what is checked starts |
| commands (`tools/`) | output directory | connect, send, config, transform | flags that imply others; a review half accepted | what was asked for is what runs |

`PROJECT.json` lists every component with its status and the reason where there is no
module, and under `hazards` what is hard to test, line by line.

## 2. The modules

| module | models | kind |
|---|---|---|
| `ReliableBuffer` | what a batcher promises: owed, safe and settled events | abstract specification |
| `Batcher` | `sinks/batch.rs` and the flush of `sinks/mod.rs` | detailed, implements `ReliableBuffer` |
| `EventQueue` | webhook, deduplicate, terminal, broadcast ring, receive loop | detailed |
| `SseSource` | `sources/sse` and its event stream | detailed |
| `WindowCursor` | what a polling source promises about its time window | abstract specification |
| `HttpPolling` | `sources/http_polling` and its checkpoint | detailed, implements `WindowCursor` |
| `PipelineLifecycle` | `pipeline.rs`, `http.rs`, the tasks of sources and sinks, `sources/subprocess`, the exit status | detailed |
| `ScanWindow` | `sources/opendal` and its checkpoint | detailed |
| `AckedSource` | `sources/nats`, `sources/kafka` | detailed |
| `StoreCall` | what a call of `BatchStore::store` promises to the batcher | abstract specification |
| `RowStore` | `store` of `sinks/db.rs` and `sinks/clickhouse.rs`, `sinks/retry.rs` | detailed, implements `StoreCall` |
| `FetchRetry` | `retry_after_middleware.rs`, `sinks/http.rs`, the redirects of reqwest | detailed |
| `HeaderRules` | `security/`, the headers of each transport, statuses and access log | functions |
| `Payloads` | `sources/parsers.rs`, `parsers/tap.rs`, `opendal/parsers.rs`, `sources/cli` | functions |
| `PollRequest` | `http_polling/request.rs`, the input of the driver, the events of a response | functions |
| `SinkRecords` | `otel.rs`, the statements of `clickhouse.rs`, messages of `kafka.rs` and `nats.rs`, `folder.rs` | functions |
| `Purl` | `vrl_purl.rs`, the identity of an event | functions |
| `Configuration`, `CommandLine` | `config/`, `transformers/mod.rs`; `tools/` | functions |
| `MCBatcher`, `MCEventQueue`, `MCSseSource`, `MCHttpPolling`, `MCPipelineLifecycle` | small instances | model checking |
| `MCProgress` | an instance of `Batcher` and one of `HttpPolling` for the liveness properties, one of them per behaviour | model checking |
| `Adapters` | `ScanWindow`, `AckedSource`, `RowStore` and `FetchRetry` side by side; `HeaderRules`, `PollRequest`, `SinkRecords` and `Purl` over an input; their assumptions | composition |
| `MCAdapters` | a small instance of `Adapters`, and bounded inputs of the functions, of `Payloads`, `Configuration` and `CommandLine` too | model checking |
| `BatcherProofs`, `EventQueueProofs`, `SseSourceProofs`, `HttpPollingProofs`, `PipelineLifecycleProofs` | theorems about the module they are named after | proofs |
| `SourceProofs`, `RetryProofs`, `ContentProofs` | theorems about the parts of `Adapters`: `ScanWindow` and `AckedSource`; `RowStore` and `FetchRetry`; the functions | proofs |

How they compose. `Batcher` calls a target that stores, refuses or does not answer:
`StoreCall` says what the batcher may rely on, `RowStore` is such a call in detail
(`StoreKeepsPromise`), and `StoreChunk` and `StoreFails` of `Batcher` are one from its
beginning to its answer. `EventQueue` has sources that send and sinks that receive; `Payloads`,
`PollRequest` and `Purl` say which events a source sends, `PipelineLifecycle` who may
still send, and when a sink stops receiving. A fetch of `HttpPolling` is one exchange of
`FetchRetry`. `CommandLine` extends `Configuration`, whose chains are the transformers
of `EventQueue`.

### Batcher

Events are numbered in the order of `push`. The three tasks are the groups of actions
`Sink`, `Writer` and `Flusher`; an await is where an action ends. `WriterRecv` is
`recv_many`, `WriterPush` one `push_items` (slot and spool under one lock),
`WriterForwardFlush` waits for room in the flush channel. `pc` is the flusher's place:
`drain` (about to call `drain_sealed`), `store` (awaiting the target, lock released),
`check` (the condition of `drain_all`), `idle` (the `select!`). `wake` remembers the
branch, which decides between one `drain_sealed` and `drain_all`. `StoreFails` lets any
part of the chunk reach the target and any other part be refused for good: the row by
row fallback may refuse a row and then meet an outage. A spool write may fail after any
number of whole records; a truncation may fail. `ProcessEnds` loses memory and channels at
any step (a
kill, or `main` returning after the sink task while the flusher is still storing) and
`Restart` reads the files back.

`copies` counts store calls. What a store does within one call (its own retries and row
by row fallback) belongs to the database stores; here a call stores or refuses each
event of the chunk, or fails.

### EventQueue

A source handles one payload at a time. `pc[a]` is where its `send` is: `transform`
(next event of the payload), `check` (about to read the queue's length), `send` (about
to convert and send). Reading the length and sending are two steps because other
threads send in between. A VRL program is the constant `Outputs`: the events it makes of
a payload, sent in order until one is refused, the earlier ones staying in the queue.
`log` keeps every message; the ring is its last `RingSize` elements, and a receiver
further behind lags. The broadcast channel rounds its capacity up to a power of two,
the watermark is computed from the configured one; `QueueAssumption` relates them.
The channel's own `len` is the backlog of the slowest receiver. At least one sink is
subscribed (`create_sinks` fails otherwise), so `send` never fails for want of a
receiver; sink tasks do not end before the sources.

### SseSource

The server publishes numbered events, some without an id, and is external: with a
`last-event-id` header it resumes after it, without one it starts at the present. A
message without id inherits the id before it. `Fail` covers every error of
`EventSource::poll_next` and replaces the task's position by the connection's
(`Position`), which is empty until that connection received an id. `Header` is the
`last-event-id` of a request: an id that is no valid header value (`Sendable` are those
that are) is left out of it without a warning, and the stream then starts at the present;
`forgotten` records both ways of losing the position. `retries` and
`opened` are the retry budget of `SseSourceState::run`.

### HttpPolling

`pc` is where the task is: in `run` at the top of the loop (`check`), waiting for a rate
limit (`throttle`), after an advance (`save`), asleep (`idle`); in `run_once` filling
slots or awaiting a fetch (`poll`), or in the sleep before a request (`pause`), where the
task in hand is still the head of `queue` and no fetch is polled. A fetch is a future,
which sends nothing before it is polled, and the loop polls only in `inflight.next()`, when
it has no slot or no task left to fill. A request is therefore four steps: `Issue` or
`IssueAfterPause` counts it and queues its future, `Leave` is the first poll, which sends
it, `ServerAnswers` puts the answer in `inflight`, a step of `Take` handles it. In between
another response may be taken and ask for a pause, the answer's reset pass, or the
request timeout fire (`FetchFails`). New futures are polled in the order in which they were
pushed; the others are taken in any order, as `FuturesUnordered` does. `Take` has one
action per outcome: transport failure, re-queued refusal, skip, hold, abort, success.

A pause thus holds the worklist and not the requests already queued. `PauseHonoured` says
what the code keeps: nothing is taken from the worklist before the longest pause is over,
and while it lasts one slot is free, so no more than `MaxConcurrency` - 1 requests can
leave in it, all queued before it was known. For the interval between requests the same
gap contradicts the documentation (`StartsSpaced`, section 4).

Time is in seconds. An `Instant` is kept as the time left until it, so that `Tick` is the
only action that knows the clock; timers go on when the wall clock reached `MaxNow`. What
an answer says about the rate limit is whether its reset was ahead when the server
answered (`exhausted`) and how far ahead it is now (`resetIn`): the code compares the
reset with the clock when it takes the answer, `rate_limit_reset_in`. The two clocks
agree. `Status`, `OnStatus` (exact codes and classes) and `Resolve` are the status policy.

The driver is a pair of constants, `Bootstrap` and `Feeds`: the requests it derives from
nothing and from a response. A driver call may fail, a body may not parse, the pipeline
may refuse an event; all are one flag each in `Succeeded`. A driver that derives
different requests from different bodies is outside the model. The middleware's retries
and redirects happen inside a fetch. `gaveUp` records that the poll dropped something in
one of the ways the code logs (a budget, depth, skip, hold, transport or driver failure;
with `log_errors = false` a skipped or held status is not logged);
`covered` and `excused` record for each second of an advanced window what was asked.
They and `handled`, `owed`, `spacing` are history: no guard reads them.

`Save` and the load at `Restart` may fail. A process may end at any step.

### PipelineLifecycle

`pc` is where `PipelineBuilder::run` is, `task[t]` the state of the task of a sink, a
source or the server. `Senders` says who holds a sender of the queue at every moment: the
builder until `drop(self.tx)`, each source in its task or its route. A route belongs to
the server until it has ended, and to `run` itself if there is no server (`RoutesHeld`).
`Close` is `RecvError::Closed`: the queue is read and `Senders` is empty. `JoinAll` and
`JoinPanicked` are `TryJoinAll`: a task's error is a value of its handle, so only a panic
returns early. The wrapped command of `send --run` has its steps between the started
event and the stored exit code. Which messages a sink receives when the ring overflows
is `EventQueue`'s: here the queue has room for all. After `pc = "done"` the runtime is
dropped and nothing moves.

### ScanWindow, AckedSource, RowStore, FetchRetry

`ScanWindow`: the version of a file is its time of modification; it becomes visible up to
`MaxDelay` later, which `TIME_MARGIN` must outlast. The listing may tell a file's time and
length or not, and the `stat` that is then asked for may fail (`FromEntry`). `Accept`
warns about a file without a time; one that is empty, or whose length nobody told, it
refuses without a word, and the window moves past it all the same. `FilesOnce` excepts
the latter two: the files in `Empty`, and those in `overlooked`, which holds only files
that were met in that way.
`sent`, `skipped` and `overlooked` only grow;
`resend` holds those of `sent` that a retry or a restart has gone back before, so that
`repeated` holds what was sent again without either.
`AckedSource`: four modes of a broker that redelivers what is not acknowledged or
committed; Kafka stores an offset when it hands a message out and commits by a timer.
`RowStore`: `Execute` is a statement, atomic, which may have been executed when its
answer is lost; `BatchCall`, `OldProcedure` and `RowCall` are the three ways of storing.
`FetchRetry`: one exchange from the first request to what the caller gets; `exposed`
holds every header sent to every URL. In a poll the two middlewares are `RetryTransient`
inside `RetryAfter` and `FollowRedirect`; in a sink reqwest follows inside
`RetryTransient` (`FollowInside`).

### The functions

Texts are sequences of tokens or model values, maps are functions, a result is a record
with `ok`. Libraries appear as constants: `Decoded` (JSON, XML, YAML), or as tuples of
their arguments: `Hash` and the MAC of a signature (both injective); `Valid` (the VRL
compiler) and `World` (remote stores) are sets and maps. The recursion of
`Configuration` and `Payloads` is over the nesting of values and the lines of a text.
The properties relate two computations of the code: the readers of files, of the command
line and of responses (`ReadersAgree`, which also says where they differ: the command
line takes blank data for no event where a JSON or XML file is refused, and splits an
array of any format into events with an index, which a file and a response keep whole);
a sink's headers and a source's rules; a sink's message and a source's event; the check
of a configuration and its start; a review and the check after it. `HeadersAgree` and
`EventsFaithful` are stated in `Adapters` and proved; `TextsRead`, of what reads texts
and trees, in `MCAdapters`.

## 3. The runs

| run | configuration | shows |
|---|---|---|
| `batcher_safety` | `MCBatcher.cfg` | safety and refinement with spool, refusals, outages, one disk fault, one crash |
| `progress` | `MCProgress.cfg` | push never waits, flush returns, events are settled; polls end, cancellation stops the polling source |
| `event_queue` | `MCEventQueue.cfg` | headroom, answers, window, catching up after a lag |
| `refused_then_deduplicated` | `MCEventQueueRefused.cfg` | *violation*: a retried payload answered 201 is not in the queue |
| `sse_source` | `MCSseSource.cfg` | resumption, repetition, budget, catching up |
| `sse_resume` | `MCSseSourceResume.cfg` | *violation*: the position is forgotten |
| `http_polling` | `MCHttpPolling.cfg` | no second skipped, the worklist held by a pause, one handling per response, refinement |
| `requests_not_spaced` | `MCHttpPollingSpacing.cfg` | *violation*: two requests queued an interval apart leave together |
| `refusal_judged` | `MCHttpPollingRefusal.cfg` | *violation*: a rate-limited refusal reaches the status policy |
| `lifecycle` | `MCPipelineLifecycle.cfg` | nothing left behind, statuses surface, a signal ends the process |
| `oneshot_with_webhook` | `MCPipelineLifecycleOneshot.cfg` | *violation*: a `send` with a webhook enabled never ends |
| `adapters` | `MCAdapters.cfg` | the four small state machines, and the functions over bounded inputs |

Bounds, and why they are enough:

- `Batcher`: `BatchMaxSize` 2 with 3 events (4 in `progress`) fills the channel, makes a
  slot of two chunks, and a put-back of one of them; 1 restart and 1 disk fault reach
  every pair of a fault and a crash, `MaxCopies` 1 lets a failed store reach the target
  in part. One event is refused by the target. The safety run spools; `progress` does
  not, because memory alone decides progress and the file is only read at a start.
- `EventQueue`: capacity 2 gives a watermark of 1 and a ring of 2, so two webhooks fit
  the headroom exactly: a third event that passes a check too late overflows it. One
  webhook deduplicates with a window of 2 and gets a payload of three events and a
  retry; the pull source has a window of 1, reads an event twice in a row, which meets the
  only key remembered, and one that is no CDEvent. Two sinks
  show that a lagging one leaves the other alone.
- `SseSource`: 5 events, 2 without id (one between identified ones, one at the end),
  one of the others with an id that no header can carry, a budget of 2, one event the
  pipeline refuses. `refusals` is not bounded but the
  budget stops it.

- `HttpPolling`: two slots and a response that leads to three requests keep both slots
  and the worklist busy; a budget of 4 is what the poll needs without a refusal, so one
  re-queued refusal exhausts it. Pauses of up to 3 seconds against a cap of 2
  (`MaxRateLimitWait`) and a polling interval of 1 let a pause outlast the poll that
  met it, and be cut. Three seconds of wall clock give two windows, the second of which
  reaches the limit, where the source stops; one restart gives a stale checkpoint. Statuses 200, 403 and 500 are emitted, aborted and held by the default
  policy; `progress` overrides it by code and class, has a driver that never stops
  deriving pages, a depth limit and a minimal interval. The
  violation runs use a schedule in which time passes only when the source has nothing to
  do (`PromptSpec`): the counterexamples do not need a slow source.
- `PipelineLifecycle`: every subset of two sinks (one with streaming clients) and three
  sources (a wrapped command, a webhook, a polling source), for `connect` and for `send`:
  no sink, no source and a webhook without a server are among them. Two messages let one
  be in the queue while another is sent, one panic lets any task panic in any state; one
  client and one post are enough for a connection that outlives the signal.
- `MCProgress`: `part` selects one of the two components, which never interact; the bounds
  are those named above for each.
- `MCAdapters`: `part` selects one module per behaviour. `ScanWindow` has two files, two
  writes, five ticks against a margin of two and a delay of one, so that a version comes
  late in every place of a scan (the second file is empty at two of its times), and
  three starts: a retry before one restart and another after it. `AckedSource` has three
  messages, two prefetched, two stops, each of which may be a crash. `RowStore` has
  batches of one and three rows, any of them refused, one retry, two drains.
  `FetchRetry` has an API, a trusted and a foreign host in both schemes, and two
  redirects: the shortest chain that leaves and comes back. The inputs of the functions
  are named in the module (`HeaderInputs`, `PayloadInputs`, ...): texts of up to three
  lines and reports of up to four, all orders of three headers, templates of up to five
  words, answers with up to two requests, four arguments of `send` against each other.

The runs set `CHECK_DEADLOCK FALSE`, but for those of `HttpPolling` alone, where time always
passes: the events, restarts and attempts are bounded, and a source or process that ended
has no step left.

### Fairness

- `Batcher!FairSpec`: weak fairness of the writer, the flusher and the sink's exit is
  the runtime polling ready tasks. Strong fairness of `WakeFlush` and `WakeClosed` is
  what `tokio::select!` gives by picking at random among ready branches, with a fresh
  sleep at each turn: the timer and the notification cannot win for ever. Nothing is
  assumed of the target: `StoreReturns` (store calls return) and an end of the failures
  are hypotheses of the properties that need them. `PushNeverWaits` has none.
- `EventQueue!FairSpec`: weak fairness of each source inside a payload and of each
  sink. A sink's `send` returns because every client has a timeout or a bounded number
  of retries. Producers may stop at any time.
- `SseSource!FairSpec`: weak fairness of the task, which includes that a server that
  does not fail answers and sends what it has. Failures are never fair; `CatchesUp`
  speaks of behaviours where they end.

- `PipelineLifecycle!FairSpec`: weak fairness of `run` and of every task that can go on; a
  source other than the CLI's ends only for the token, a child is killed for it, a post
  ends within the request timeout. Nothing makes a client leave or a command end:
  `CancelStops` has the first as its hypothesis.
- `HttpPolling!FairSpec`: weak fairness of `Tick`, of the task, and of the end of every
  fetch under way. The last is the client's request timeout (30 seconds unless
  configured), not a promise of the upstream, which may refuse or fail for ever.

## 4. Disagreements found

1. `sse_resume`: `connect_and_stream` (`sources/sse/mod.rs:202`) overwrites the last id
   with that of the connection that failed. A new `EventSource` starts with an empty one,
   so two failures in a row, the second before any message, forget the position, and the
   next connection starts at the present. The comment of `EventSource` says that the
   caller resumes with this id. `SkipsOnlyIfForgotten` is what remains true, and is
   proved.
2. `refused_then_deduplicated`: `deduplicate` records a key before it sends the event on
   (`transformers/deduplicate.rs:60`). If the terminal then refuses the event because the
   queue is saturated, the webhook answers 503, the producer retries as the comment in
   `webhook()` intends, the key is known and the event is dropped with a 201.
   `CreatedIsSentUnlessRefused` delimits it, and `AnsweredWithoutDedup` proves that
   without a deduplicate step a 201 is never wrong.

3. `refusal_judged`: a rate-limited refusal is recognised by its reset lying ahead at
   the time the response is taken (`http_polling/mod.rs:755`, `rate_limit_reset_in`).
   While the poll sleeps for one response, others wait, and by then their reset has
   passed: the default policy aborts the source on such a 403. The comment four lines
   below says that a refusal is no verdict. `PauseHonoured` holds nevertheless.
4. `oneshot_with_webhook`: `run` hands the routes of the sources to the HTTP server only if
   there is one (`pipeline.rs:169`). A `send` whose configuration also enables a webhook
   keeps the route, and with it a sender of the queue, in a local variable until it
   returns, which it never does: the sinks wait for the sender, and a signal does not end
   it either. The comment of `run` says that the pipeline runs until all sources complete.

5. `requests_not_spaced`: `min_request_interval` is "minimum delay between consecutive HTTP
   requests (the *start* of each request is spaced by at least this much, across the whole
   worklist)" (`http_polling/mod.rs:94`). The interval is counted from the push of the
   future (`mod.rs:732`), which sends nothing before `inflight.next()` polls it
   (`mod.rs:743`): with two slots, two requests queued an interval apart leave at the same
   instant. The same holds of a rate-limit pause learnt between the push and the poll.

Met while modelling, without a run of their own:

- `Behavior::Hold` and its table (`http_polling/mod.rs:135`, `README.md:296`) promise that
  the window is held; `run_once` holds it only if no request of the poll made progress
  (`mod.rs:806`). `NothingSkipped` says what remains: such a window was at least warned
  about.
- `retry_after_middleware.rs:24` and `:85` say that a 429 or 503 without `Retry-After` is
  left to the transient-retry middleware around it. That middleware is added after it
  (`mod.rs:489`, `:499`) and is the inner one: a 429 or 503 is retried after the ordinary
  backoff first, and its `Retry-After` is read only when those retries are used up.
- A POST of the HTTP sink that is answered 301, 302 or 303 becomes a GET without body, and
  its answer is taken for the sink's.
- `--fail-on-collector-error` (`tools/send.rs:199`) only sees an event refused by the queue,
  not one a sink could not deliver.
- Two keys of `send` given twice (`--metadata`, `-H`) make a TOML document that repeats a
  key and is refused; `send --run` groups them.
- The comment of `--set` (`config/mod.rs:133`, `tools/connect.rs:45`) accepts unquoted
  strings; only valid TOML is.
- `transform` counts files with a `u16`: after 65536 the count wraps. Two inputs of one
  stem share an output; `.json.new` files of an earlier run are taken for outputs of this.
- The examples of the package URL functions show a namespace the code does not write; a
  registry with a port is taken for Docker Hub.
- A ClickHouse template with a placeholder before `VALUES` gets more values than places
  once it has several rows; a `?` of the template's own takes a value meant for a
  placeholder (`EventsAssumption` leaves such templates out).
- An event without id and timestamp gets another id each time it is received.

## 5. What is proved

All theorems hold for every value of the constants that meets the module's assumption or
the one the theorem states.
Each proof has the same shape: an inductive invariant, one lemma per action or group of
actions, and a temporal step.

- `BatcherProofs`, losses: `TypeCorrect`, `NoLoss`, `SlotsAreSpooled` and `Refinement`
  (`Spec => ImplementsBuffer`). The properties are not inductive: an event leaves a slot
  for the flusher's hands and may come back. The invariant adds where each event is
  (the flusher holds items only while it stores, and the sealed slot is then empty in
  memory; what precedes `stored` is settled) and that what a slot's file holds beyond
  the slot and the flusher's hands is settled, which is what allows truncation. The
  refinement maps `owed` to the unsettled events that memory (or, when the process is
  down, a file) holds; a step of the writer or flusher is a stutter or a `Save`,
  `Settle` or `Release`, `ProcessEnds` is the abstract `Crash`.
- `BatcherProofs`, the flush: `Flushed`. `FlushHonest` speaks of the moment the sink task
  goes on; what makes it true is spread over three queues. `FlushOnce` says that a flush
  is in one place at a time (the channel, the writer's hands, the flusher's channel, the
  flusher) and that nothing is pushed behind it, so that when the flusher answers, the
  channel and the writer hold nothing, and what `drain_all` left is an outage of this
  flush.
- `BatcherProofs`, duplicates and order: `DuplicatesExplained` and `OrderKept`. The events
  of a run stand in line from the flusher's hands over the sealed and the active slot to
  the writer and the channel, increasing and without a gap (`InLine`); the settled ones are
  those before the line (`SettledInOrder`), but for what was replayed from the files
  (`Replayed`) and the part of the chunk at the head that a failed call left behind. A
  put-back keeps the line because it goes in front of what the slot received meanwhile.
- `EventQueueProofs`: `TypeCorrect`, `Headroom`, `Deduplication`, `Answered`,
  `AnsweredWithoutDedup`. The headroom needs a count: for every sink,
  its backlog plus the number of webhooks that passed the check and have not sent stays
  within the ring, because each of them saw a backlog below the watermark when it passed.
  `Answered` needs the progress of a payload (what is no longer to do is sent, or has the
  key of a sent event, or was refused) and that every remembered key was sent, is being
  sent, or is among the refused ones.
- `SseSourceProofs`: `TypeCorrect`, `Resumption`, `NoRepetition`, `RetryBudget`. The
  invariant adds that the id held, if any, is the latest identified event received, that
  nothing beyond the stream's position was received, and that the counter never exceeds
  the attempts in a row that did not open.
- `HttpPollingProofs`: `TypeCorrect`, `NoSecondSkipped`, `PausesHonoured`,
  `CursorImplemented` and `EachHandledOnce`. `NothingSkipped` needs to know that a poll
  that gave up on nothing loses no request: every request of the bootstrap, and every one
  its handled responses lead to, is handled, in the worklist or in flight (`Worklist`),
  which a drained poll turns into `Complete(handled)`. It needs the same property of the
  checkpoint, because a restart may go back to it. `PauseHonoured` needs that both
  `next_allowed` and `rate_limited_until` are at least as far as any pause asked for, which
  each transfers to the other at a poll's start; and that a response is only taken when the
  slots are full or the worklist empty, so that the one it leaves stays free until the
  pause is over. The refinement maps `Advance` to `Move`,
  `Save` to `SaveBound` or a stutter, `Restart` to `Resume`. `EachHandledOnce` has the
  hypothesis `DerivesOnce`: the driver derives a request at one place, from nothing or from
  one response (the run's driver does; a driver that asks for a URL twice gets two answers,
  which is not the source's doing). Then every request is in one place, waiting, in flight
  or handled, and has been derived (`Asked`): what a response derives is new, because the
  response was not handled before, and a refused request leaves the flight as it joins the
  worklist again.
- `PipelineLifecycleProofs`: `TypeCorrect`, `QueueDrained`, `FailuresSurface` and
  `CommandsStatus`. They rest on `NobodySendsAgain`: once the queue has no sender it never
  has one again and nothing is queued. Whoever queues holds a sender, except a post, which
  only exists beside a route the server keeps (`Connected`); and only `run` creates a
  holder, while the builder's sender is alive. So a sink that left its loop had read
  everything and still has (`Drained`), and every sink subscribed before the first source
  (`Early`, `Subscribed`).

The next six are about `Adapters` and rest on its named assumptions; each invariant is
guarded by the part it belongs to.

- `SourceProofs`, the files: `EachFileOnce`, from `ScanAssumption` (a version shows up
  within less than the margin, the promise of `TIME_MARGIN`). `FilesOnce` is about what
  the window passed; a version that is not visible yet must not be behind it, so the
  invariant says that `before` stays the margin behind the clock (`Bounds`) and what is
  invisible is younger than that (`Young`). Within a scan, the entries behind the
  current one are done, those ahead are not, each is listed once (`Progress`,
  `Reading`), and what was handed on lies before the window or in the part of the scan
  that is done (`Once`), or is in `resend`. With three starts the attempt to prove it
  failed on an earlier version of the model, whose history variables forgot too much
  when a retry and a restart met; the bounds of `MCAdapters` now include that case.
- `SourceProofs`, the brokers: `Acknowledged`, from `AckedAssumption` (the four modes of
  the brokers). That nothing is lost needs the client's positions: Kafka's messages in
  the prefetch are the ones after the stored offset, in a row, so that taking one moves
  the offset by one (`Kafka`). That nothing is handled again without cause needs `Once`:
  what was handled is behind the client or known to the broker, or excused, so what is
  delivered in turn is new; two copies on their way are excused.
- `RetryProofs`, the store call: `Honest` states `StoreKeepsPromise`, from `RowsAssumption`
  (batches of different rows; the batcher gives each event once). The first part is
  `StoreIsHonest`: a call settles the rows before the current one (`Progress`), and until
  a statement goes unanswered these are the only ones stored (`Fresh`); whatever another
  sink does to the flag, only the loops over single rows leave the first row (`Position`).
  The second is that `RowStore` implements `StoreCall`: `calling` is that `at` is not
  `idle`, what is `stored` is the table, what is `refused` are the rows warned about.
  `Begin` is the batcher's next call, every statement is `Work`, with the answer or
  without (`StatementWorks`), a retry and a change of the target are stutters
  (`StepCalls`). It needs the invariant: that `TRUE` is answered only when nothing is
  owed is `Progress` at the last row. `Batcher` in its turn is proved for any call that
  keeps this promise: the attempt to say so showed that its `StoreFails` left out rows
  refused for good by a call that then fails, which the code allows
  (`sinks/clickhouse.rs`, the loop over single rows), and the model was corrected.
- `RetryProofs`, the exchange: `HeadersHome`. `MayForwardHeaders` compares the next URL
  with the previous one, the property speaks of the first, by `IsHome`. The lemma
  `HomeComposes` says that from a place where the headers may be, `MayForwardHeaders`
  leads only to such a place; `Headers`, `Restarts` and `Stays` say that the next
  request carries configured headers only to such a place, that reqwest's retries start
  at the first URL again, and that what was sent went there. The bound on the requests
  is a sum over the three counters (`Budget`).

- `ContentProofs`, the headers: `MirrorsAgree` states `HeadersAgree`, from
  `HeadersAssumption` (texts are sequences; the configuration has the fields its types
  have; a rule that passes and one that fails are told apart): for every configuration
  of headers, every event, every order of the two maps and every transport. What
  `GenerateHeaders` makes is a recursion over the order of the map, and the argument an
  induction on it: of each header, the map holds the value made of the headers generated
  before it, and stays as it was then (`HeadersMade`). Two payloads of a signature are
  equal exactly if none of the signed headers that arrived adds anything that was not
  there (`PayloadsCompared`: the payload is a concatenation, equal only if its lengths
  are, and each piece of the smaller map is empty or the same). Each transport gives the
  rules the generated value (`HttpSent`, `KafkaSent`, `NatsSent`, `ArrivedHeaders`), so
  a rule that mirrors a fixed header passes, and one that mirrors a signature passes
  exactly if nothing was added (`MirrorAccepts`); the order in which the rules are asked
  decides which one fails first, not whether one does (`FirstViolation`). The induction
  is over a set of numbers (`SetInduction`, from the least element of its complement),
  since the library's induction theorems take an operator. The proof showed two places
  of the model where a `CASE` had guards that overlap, which TLA+ does not order as the
  code does; they are conditionals now.
- `ContentProofs`, the events: `EventsKeepFaith` states `EventsFaithful`, from
  `EventsAssumption` (events, bodies, images and paths have the fields their types have;
  an id without punctuation is not empty) and that neither null nor the text "0" is a
  map, which TLC cannot evaluate of a model value and the theorem states as its
  hypothesis. The inputs do not change, so the whole argument is about functions. A turn
  of a poll (`TurnsAgree`): the key that is put last wins, whatever was configured, and
  a program that answers at all gives each of its requests the same state (`TasksMade`).
  The log record (`RecordsAgree`): each outcome is followed through the three tables
  that read it (`OutcomesAgree`, `SpecificResults`). The statements of ClickHouse
  (`StatementsAgree`), for any template and number of rows: `FlattenSeq` is a recursive
  function, and the marks of what it joins are counted by induction over the pieces
  (`Flattened`, `FlatAgree`); what is behind the repeated tuple has none
  (`TupleMarked`). The brokers (`BrokersAgree`). One id (`EventsKept`): a completed body
  is completed again as itself, because neither the hash nor a sanitised id is null or
  "0" (`SanitizedOnce`), and two bodies that differ in how the id is left out are
  completed to one (`WholeBody`). One purl (`PurlsAgree`): the version, the text of the
  qualifiers and the place each tell apart exactly what the explicit image does
  (`VersionAgree`, `TextAgree`, `PlaceKnown`, joined in `ImagesAgree`), and a chart is
  its front and its last segment wherever it is split (`Prefixed`, `SplitsAgree`,
  `GivenAgrees`).

Model-checked only:

- every liveness property: fairness and `ENABLED` are out of the prover's reach;
- `TextsRead`: texts and reports (`Payloads`) and trees of settings (`Configuration`,
  `CommandLine`) are read by folds, by `SelectSeq` and by recursive operators, of which
  the prover has no facts, or which it refuses;
- `CreatedIsSent` and the other four properties of section 4: they are false, and the
  theorems `Answered`, `AnsweredWithoutDedup` and `Resumption` say what remains of two of
  them.

That `ScanWindow` implements `WindowCursor` is not claimed: a rewritten file leaves what was
accounted for without a move of the window, so the abstraction does not fit.

## 6. Not modelled, and why

Libraries: VRL programs (a driver or a transformer is a relation given by constants), the
decoding of one JSON, XML, YAML or TOML text, SQL, the clients of the brokers, TLS. Trace
propagation and metrics change no decision. Opening a connection, creating a schema and
the prompts of `transform` are I/O. What an SSE client that lags behind the sink's
broadcast misses is left out, as are log messages. Time is abstract outside `HttpPolling`
and `ScanWindow`: a delay is a step that may happen at any moment. Memory exhaustion is
left out (the growth of a slot during an outage is documented in the code), and so are
panics outside `PipelineLifecycle`.

## 7. Plan

Everything of the inventory has its module, and every safety property of the runs has its
theorem, but for `TextsRead`, which speaks of folds over texts and of trees of settings.
What is left is to state for one piece of a text what does not recurse (a line of a report,
one layer of settings), and `Batcher` with `StoreCall` in the place of `StoreChunk` and
`StoreFails`, where other actions fall between the beginning of a call and its answer.
