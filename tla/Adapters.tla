------------------------------ MODULE Adapters ------------------------------
(***************************************************************************)
(* The parts of the collector around its core that have steps, side by     *)
(* side: `part` says which one a behaviour is about, and the variables of  *)
(* the others keep the value Idle. Variables of the same name are shared.  *)
(* What has no step is a function of `input`: the headers a sink generates *)
(* and a source validates, and the content of the events from a source to  *)
(* a sink.                                                                 *)
(***************************************************************************)
EXTENDS Integers, Sequences, FiniteSets

CONSTANTS
    None, Idle,
    File, Patterns, Empty, Margin, MaxDelay, Limits, MaxTime, MaxWrites,      \* ScanWindow
    MaxStarts,
    Modes, MaxMessages, MaxInbox, MaxStops,                                   \* AckedSource
    Row, Batches, MaxRowRetries, MaxDrains,                                   \* RowStore
    Url, Configured, TrustedHosts, RetryStatus,                               \* FetchRetry
    MaxRedirects, MaxRetries, MaxTransient,
    Opaque, BadName, Version, Json, Lower, DecodesAs, HeaderInputs,           \* HeaderRules
    Zero, Dotted, Word,                                                       \* Purl
    EventInputs                    \* of PollRequest, SinkRecords and Purl, by part

Header  == INSTANCE HeaderRules
Poll    == INSTANCE PollRequest
Record  == INSTANCE SinkRecords
Package == INSTANCE Purl

\* A version of a file shows up within the margin.
ASSUME ScanAssumption ==
    /\ Margin \in Nat /\ MaxDelay \in Nat /\ MaxDelay < Margin
    /\ Limits \subseteq Nat

ASSUME AckedAssumption == Modes \subseteq {"core", "jetstream", "kafka", "kafka_uncommitted"}

\* What the batcher hands over: at least one row, each once.
ASSUME RowsAssumption ==
    \A b \in Batches :
        /\ b \in Seq(Row) /\ Len(b) > 0
        /\ \A i, j \in 1..Len(b) : b[i] = b[j] => i = j

ASSUME FetchAssumption == MaxRedirects \in Nat /\ MaxRetries \in Nat /\ MaxTransient \in Nat

\* Configurations, events and bodies; a header passes or fails for a reason.
ASSUME HeadersAssumption ==
    /\ None \notin Header!Reasons \cup {"QueueSaturated"}
    /\ \A in \in HeaderInputs : Header!WellFormed(in)

\* An event has an id, a type and a payload; no batch is empty, and no template has
\* a "?" of its own (sinks/clickhouse.rs:147). Docker Hub is named by a domain; an
\* id without punctuation is neither empty nor "0", and stays as it is.
ASSUME EventsAssumption ==
    /\ \A in \in EventInputs["log"] : in.event.id # None /\ in.event.type # None
    /\ \A in \in EventInputs["sql"] : /\ Record!IsTemplate(in.template) /\ in.events # <<>>
                                     /\ in.events \in Seq(Record!Range(in.events))
    /\ \A in \in EventInputs["broker"] : in.event.payload # None
    /\ \A in \in EventInputs["purl"] :
          /\ Package!IsImage(in.a) /\ Package!IsImage(in.b)
          /\ Package!IsRepository(in.repo) /\ Package!IsPath(in.chart)
    /\ \A in \in EventInputs["id"] :
          /\ {"body", "headers", "metadata"} = DOMAIN in.event /\ Package!IsBody(in.event.body)
          /\ None \notin {in.now, in.later}
    /\ "docker.io" \in Dotted /\ None \notin {"oci", "github", "bitbucket", "generic", "latest"}
    /\ \A id \in DOMAIN Word : Word[id] \notin DOMAIN Word \cup {None, Zero}

VARIABLES
    part,
    input,                                                      \* of the functions
    at, sent, retries,                                          \* of several modules
    clock, writes, starts, written, visible, limit, after, before, saved,
    todo, entry, scanned, skipped, overlooked, resend, repeated,   \* ScanWindow
    mode, published, running, stops, position, inbox, hand, toAck,
    acked, offset, committed, handled, cut, again, excused,     \* AckedSource
    batch, target, bad, batchCall, unique, rowByRow, drains,
    row, verdict, table, interrupted, warned,                   \* RowStore
    client, anchor, original, request, hops, transients,
    response, exposed                                           \* FetchRetry

ofScan  == <<clock, writes, starts, written, visible, limit, after, before, saved, todo, entry,
             scanned, skipped, overlooked, resend, repeated>>
ofAcked == <<mode, published, running, stops, position, inbox, hand, toAck, acked, offset,
             committed, handled, cut, again, excused>>
ofRows  == <<batch, target, bad, batchCall, unique, rowByRow, drains, row, verdict, table,
             interrupted, warned>>
ofFetch == <<client, anchor, original, request, hops, transients, response, exposed>>

IdleScan ==
    /\ clock = Idle /\ writes = Idle /\ starts = Idle /\ written = Idle /\ visible = Idle
    /\ limit = Idle /\ after = Idle /\ before = Idle /\ saved = Idle /\ todo = Idle
    /\ entry = Idle /\ scanned = Idle /\ skipped = Idle /\ overlooked = Idle
    /\ resend = Idle /\ repeated = Idle
IdleAcked ==
    /\ mode = Idle /\ published = Idle /\ running = Idle /\ stops = Idle /\ position = Idle
    /\ inbox = Idle /\ hand = Idle /\ toAck = Idle /\ acked = Idle /\ offset = Idle
    /\ committed = Idle /\ handled = Idle /\ cut = Idle /\ again = Idle /\ excused = Idle
IdleRows ==
    /\ batch = Idle /\ target = Idle /\ bad = Idle /\ batchCall = Idle /\ unique = Idle
    /\ rowByRow = Idle /\ drains = Idle /\ row = Idle /\ verdict = Idle /\ table = Idle
    /\ interrupted = Idle /\ warned = Idle
IdleFetch ==
    /\ client = Idle /\ anchor = Idle /\ original = Idle /\ request = Idle /\ hops = Idle
    /\ transients = Idle /\ response = Idle /\ exposed = Idle

-----------------------------------------------------------------------------

Scan  == INSTANCE ScanWindow
Acked == INSTANCE AckedSource
Rows  == INSTANCE RowStore WITH MaxRetries <- MaxRowRetries
Fetch == INSTANCE FetchRetry

IdleSteps ==
    at = Idle /\ sent = Idle /\ retries = Idle /\ IdleScan /\ IdleAcked /\ IdleRows /\ IdleFetch

Init ==
    \/ /\ part = "scan"  /\ Scan!Init  /\ retries = Idle /\ IdleAcked /\ IdleRows /\ IdleFetch
       /\ input = Idle
    \/ /\ part = "acked" /\ Acked!Init /\ at = Idle /\ sent = Idle /\ retries = Idle
       /\ IdleScan /\ IdleRows /\ IdleFetch /\ input = Idle
    \/ /\ part = "rows"  /\ Rows!Init  /\ sent = Idle /\ IdleScan /\ IdleAcked /\ IdleFetch
       /\ input = Idle
    \/ /\ part = "fetch" /\ Fetch!Init /\ IdleScan /\ IdleAcked /\ IdleRows /\ input = Idle
    \/ /\ part = "headers" /\ input \in HeaderInputs /\ IdleSteps
    \/ /\ part \in {"poll", "log", "sql", "broker", "purl", "id"} /\ input \in EventInputs[part]
       /\ IdleSteps

ScanNext  == /\ part = "scan"  /\ Scan!Next
             /\ UNCHANGED <<part, input, retries, ofAcked, ofRows, ofFetch>>
AckedNext == /\ part = "acked" /\ Acked!Next
             /\ UNCHANGED <<part, input, at, sent, retries, ofScan, ofRows, ofFetch>>
RowsNext  == /\ part = "rows"  /\ Rows!Next
             /\ UNCHANGED <<part, input, sent, ofScan, ofAcked, ofFetch>>
FetchNext == /\ part = "fetch" /\ Fetch!Next
             /\ UNCHANGED <<part, input, ofScan, ofAcked, ofRows>>

Next == ScanNext \/ AckedNext \/ RowsNext \/ FetchNext

vars == <<part, input, at, sent, retries, ofScan, ofAcked, ofRows, ofFetch>>
Spec == Init /\ [][Next]_vars

-----------------------------------------------------------------------------
\* No file falls between two windows of the files source, and none is in both:
\* of the files with content the window has passed, each was handed on or
\* skipped with a warning, but where the storage did not tell its length;
\* whatever was written during a scan, came late, failed or restarted
\* (sources/opendal/mod.rs:139).
FilesOnce == part = "scan" => Scan!FilesOnce

\* What a broker does not deliver again was handled, but for the message in hand
\* at a crash with Kafka's timer; and what was handled comes again only if the
\* broker could not know (sources/nats/mod.rs:168, sources/kafka/mod.rs:112).
AckedIsHandled == part = "acked" => Acked!AckedIsHandled

\* What a database sink forgets is in the database, or was refused for itself and
\* logged: neither a bad row beside it, nor an outage in the middle, nor another
\* sink's fallback loses a row (sinks/db.rs:191, sinks/clickhouse.rs:283). And to
\* the batcher, whatever was tried is one call after the other of those it relies
\* on (sinks/batch.rs:33).
StoreIsHonest == part = "rows" => Rows!StoreIsHonest

StoreKeepsPromise ==
    /\ []StoreIsHonest
    /\ part = "rows" => Rows!Call!CallInit
    /\ [][part = "rows" => [Rows!Call!CallNext]_(Rows!Call!callVars)]_vars

\* Configured headers do not follow any chain of redirects and retries to an
\* origin that is neither theirs nor trusted, nor in clear text, and the chain
\* ends (http_polling/retry_after_middleware.rs:144, security/header.rs:222).
HeadersStayHome == part = "fetch" => Fetch!HeadersStayHome

\* The rules that mirror a sink's headers accept what it sends exactly if every
\* signed header was generated before its signature, and a configured header
\* arrives as configured, over every transport (security/header.rs:92,
\* sinks/kafka.rs:216).
HeadersAgree == part = "headers" => Header!Agrees(input)

\* What an event is made of reaches its end as it was: the state a driver gave
\* comes back to it and goes with its events, whatever is configured
\* (http_polling/request.rs); an attribute of a log record never contradicts the
\* record, a statement has a value for every place, and a broker's source reads
\* what its sink wrote (sinks/otel.rs, sinks/clickhouse.rs, sinks/kafka.rs); one
\* artifact has one package URL and one event one identity, on every collector it
\* passes (transformers/vrl_purl.rs, event.rs).
EventsFaithful ==
    /\ part = "poll" => Poll!TurnAgrees(input.config, input.window, input.state, input.program, 0,
                                        input.response, input.parsed)
    /\ part = "log" => Record!LogRecordAgrees(input.event)
    /\ part = "sql" => Record!StatementAgrees(input.template, input.events)
    /\ part = "broker" => Record!BrokerAgrees(input.config, input.event, input.base, input.about,
                                              input.valid)
    /\ part = "purl" => Package!OnePurlPerArtifact(input.a, input.b, input.repo, input.chart,
                                                   input.revision)
    /\ part = "id" => Package!OneIdPerEvent(input.event, input.headers, input.now, input.later)
=============================================================================
