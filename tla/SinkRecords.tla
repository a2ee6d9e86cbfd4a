---------------------------- MODULE SinkRecords ----------------------------
(***************************************************************************)
(* What the sinks make of an event: the log record of the OpenTelemetry    *)
(* sink, the rows of the ClickHouse and PostgreSQL sinks, the messages of  *)
(* the Kafka and NATS sinks with what their sources read back, the output  *)
(* of the debug and folder sinks; and the settings these are opened with.  *)
(*                                                                         *)
(* An event is a record: its type, a sequence of segments                  *)
(* ("dev", "cdevents", subject, predicate, version); id, timestamp, source, *)
(* specversion; the id and the source of its subject; its content, a       *)
(* function from paths to texts; whether its type is a custom one; payload, *)
(* which stands for the whole of it in JSON. A text that is absent or empty *)
(* is None.                                                                *)
(***************************************************************************)
EXTENDS Sequences, Integers, FiniteSets, SequencesExt, Functions

CONSTANT None

Content(event, path) == IF path \in DOMAIN event.content THEN event.content[path] ELSE None
Segment(event, i)    == IF i \in DOMAIN event.type THEN event.type[i] ELSE None
Subject(event)       == Segment(event, 3)
Predicate(event)     == Segment(event, 4)

FirstOf(a, b) == IF a # None THEN a ELSE b

\* The value under the first key of a table that matches, or None.
Case(key, table) == IF key \in DOMAIN table THEN table[key] ELSE None

(***************************************************************************)
(* The OpenTelemetry sink                                                  *)
(***************************************************************************)

\* The names of custom types are not kept: their set has no bound.
EventName(event) == IF event.custom THEN <<"dev", "cdeventsx", "custom">> ELSE event.type

Outcome(event)   == Content(event, "outcome")
IsFailure(event) == Outcome(event) \in {"failure", "fail", "error"}

Severity(event) == IF IsFailure(event) THEN "WARN" ELSE "INFO"

CicdResult(outcome) ==
    Case(outcome, [success |-> "success", failure |-> "failure", error |-> "error",
                   cancel |-> "cancellation"])

SuiteStatus(event) ==
    IF Predicate(event) \in {"queued", "started"} THEN "in_progress"
    ELSE CASE Outcome(event) \in {"success", "pass"} -> "success"
           [] IsFailure(event)          -> "failure"
           [] Outcome(event) = "cancel" -> "aborted"
           [] OTHER                     -> None

CaseStatus(event) ==
    CASE Outcome(event) \in {"success", "pass"} -> "pass"
      [] IsFailure(event) -> "fail"
      [] OTHER            -> None

RunUrl(event) == FirstOf(Content(event, "uri"), Content(event, "url"))

SemconvAttributes(event) ==
    CASE Subject(event) = "pipelinerun" ->
            [name   |-> Content(event, "pipelineName"),
             run_id |-> event.subjectId,
             url    |-> RunUrl(event),
             state  |-> Case(Predicate(event), [queued |-> "pending", started |-> "executing"]),
             result |-> CicdResult(Outcome(event))]
      [] Subject(event) = "taskrun" ->
            [name         |-> Content(event, "taskName"),
             run_id       |-> event.subjectId,
             url          |-> RunUrl(event),
             pipeline_run |-> Content(event, "pipelineRun/id"),
             result       |-> CicdResult(Outcome(event))]
      [] Subject(event) = "testsuiterun" ->
            [name |-> Content(event, "testSuite/name"), status |-> SuiteStatus(event)]
      [] Subject(event) = "testcaserun" ->
            [name |-> Content(event, "testCase/name"), status |-> CaseStatus(event)]
      [] Subject(event) = "change" ->
            [change_id |-> event.subjectId,
             state     |-> Case(Predicate(event),
                                [created |-> "open", updated |-> "open", reviewed |-> "open",
                                 merged |-> "merged", abandoned |-> "closed"])]
      [] Subject(event) = "branch" -> [ref |-> event.subjectId, ref_type |-> "branch"]
      [] Subject(event) = "repository" ->
            [repository |-> Content(event, "name"),
             url        |-> FirstOf(Content(event, "viewUrl"), Content(event, "url")),
             owner      |-> Content(event, "owner")]
      [] Subject(event) = "service" ->
            [environment |-> Content(event, "environment/id"),
             deployment  |-> IF Predicate(event) \in {"deployed", "upgraded", "rolledback"}
                             THEN "succeeded" ELSE None]
      [] Subject(event) = "environment" ->
            [environment |-> FirstOf(Content(event, "name"), event.subjectId)]
      [] OTHER -> <<>>

\* An attribute whose text is absent or empty is left out.
Present(attributes) == [k \in {k \in DOMAIN attributes : attributes[k] # None} |-> attributes[k]]

Attributes(event) ==
    LET general == [event_id       |-> event.id,
                    event_type     |-> event.type,
                    event_source   |-> event.source,
                    subject_id     |-> event.subjectId,
                    subject_source |-> event.subjectSource,
                    subject_type   |-> Subject(event),
                    predicate      |-> Predicate(event)]
        specific == SemconvAttributes(event)
    IN  Present([k \in DOMAIN general \cup DOMAIN specific |->
                    IF k \in DOMAIN general THEN general[k] ELSE specific[k]])

\* JSON null has no counterpart: it is dropped, from lists and objects too.
AnyValue(json) ==
    CASE "arr" \in DOMAIN json ->
            [arr |-> SelectSeq(json.arr, LAMBDA v : v # None)]
      [] "obj" \in DOMAIN json -> [obj |-> Present(json.obj)]
      [] OTHER -> json

LogRecord(event) ==
    [name       |-> EventName(event),
     timestamp  |-> event.timestamp,
     severity   |-> Severity(event),
     attributes |-> Attributes(event),
     body       |-> AnyValue(event.payload)]

\* Signatures cannot be made, as the body of an export is not known; nor can a
\* header with a malformed name or value.
OpenOtel(config) ==
    IF \E h \in DOMAIN config.headers : config.headers[h] \in {"signature", "malformed"}
    THEN "refused" ELSE "opened"

(***************************************************************************)
(* The rows of the database sinks                                          *)
(***************************************************************************)

Fields == {"payload", "id", "timestamp", "type", "source", "subject", "predicate",
           "specversion"}

\* The value of a field. A type too short for its segment fails the push.
ExtractValue(field, event) ==
    CASE field = "subject"   -> Subject(event)
      [] field = "predicate" -> Predicate(event)
      [] OTHER               -> event[field]

\* A template is a sequence of words; {field} is the record [field |-> ...].
\* Each of them becomes a "?", to which a value is bound. The last VALUES
\* followed by a parenthesis to the end gives the tuple that is repeated.
IsPlaceholder(word) == "field" \in DOMAIN word

Placeholders(template) ==
    FlattenSeq([i \in DOMAIN template |->
        IF IsPlaceholder(template[i]) THEN <<template[i].field>> ELSE <<>>])

ParseQuery(template) ==
    LET fields == Placeholders(template)
        sql    == [i \in DOMAIN template |-> IF IsPlaceholder(template[i]) THEN "?"
                                             ELSE template[i].word]
        marks  == {i \in DOMAIN sql : sql[i] = "VALUES"}
        mark   == CHOOSE i \in marks : \A j \in marks : j <= i
        rest   == SubSeq(sql, mark + 1, Len(sql))
        \* Trailing semicolons are no part of the tuple.
        solid  == {i \in DOMAIN rest : rest[i] # ";"}
        tuple  == SubSeq(rest, 1, CHOOSE n \in 0 .. Len(rest) :
                                      /\ \A i \in solid : i <= n
                                      /\ n = 0 \/ n \in solid)
    IN  IF fields = <<>> \/ \E i \in DOMAIN fields : fields[i] \notin Fields
        THEN [ok |-> FALSE]
        ELSE [ok     |-> TRUE,
              sql    |-> sql,
              fields |-> fields,
              values |-> IF marks # {} /\ tuple # <<>> /\ Head(tuple) = "(" /\ Last(tuple) = ")"
                         THEN [head |-> SubSeq(sql, 1, mark), tuple |-> tuple]
                         ELSE None]

\* The statement of several rows, or None: then there is one for each row.
BatchSql(query, rows) ==
    IF query.values = None THEN None
    ELSE query.values.head
         \o FlattenSeq([i \in 1 .. rows |->
                IF i < rows THEN query.values.tuple \o <<",">> ELSE query.values.tuple])

\* The values bound to the statement of several events, in order.
Bound(query, events) ==
    FlattenSeq([i \in DOMAIN events |->
        [j \in DOMAIN query.fields |-> ExtractValue(query.fields[j], events[i])]])

\* The pool of the PostgreSQL sink; an eager connection is tried at the start.
OpenDb(config, reachable) ==
    IF config.min > config.max \/ (~config.lazy /\ ~reachable) THEN "refused" ELSE "opened"

(***************************************************************************)
(* The messages of the broker sinks, and what their sources read of them   *)
(***************************************************************************)

\* The settings of a client: what the user gave, over what the collector sets.
Settings(given, own) ==
    [k \in DOMAIN given \cup DOMAIN own |-> IF k \in DOMAIN given THEN given[k] ELSE own[k]]

ProducerSettings(config) ==
    Settings(config.rdkafka, [servers |-> config.brokers, acks |-> "1", retries |-> "3",
                              backoff |-> "100"])

ConsumerSettings(config) ==
    Settings(config.rdkafka, [servers |-> config.brokers, group |-> config.group,
                              auto_commit |-> config.autoCommit, offset_reset |-> "earliest",
                              session |-> "30000"])

KafkaMessage(config, event) ==
    [payload |-> event.payload,
     key     |-> IF config.keyPolicy = "cdevent_id" THEN event.id ELSE None]

NatsMessage(event) == [payload |-> event.payload, key |-> None]

\* The result of a send: NATS core and the debug sink know of no delivery.
KafkaSend(delivered) == IF delivered THEN "Ok" ELSE "Err"
NatsSend(mode, published, acked) ==
    IF published /\ (mode = "core" \/ acked = "in_time") THEN "Ok" ELSE "Err"

\* A payload that is no JSON is a string.
ParseJsonOrString(payload, Valid) == IF payload \in Valid THEN payload ELSE [string |-> payload]

\* Metadata about the message goes over the configured one, if that is an
\* object. A Kafka message without a payload is skipped.
MessageEvent(base, about, payload, Valid) ==
    [body     |-> ParseJsonOrString(payload, Valid),
     metadata |-> IF base = None THEN None ELSE Settings(about, base)]

KafkaEvents(base, message, about, Valid) ==
    IF message.payload = None THEN <<>>
    ELSE <<MessageEvent(base, about, message.payload, Valid)>>

NatsEvents(base, message, about, Valid) ==
    <<MessageEvent(base, [k \in {k \in DOMAIN about : about[k] # None} |-> about[k]],
                   message.payload, Valid)>>

(***************************************************************************)
(* The debug and the folder sinks                                          *)
(***************************************************************************)

DebugOutput(config, events) ==
    [i \in DOMAIN events |->
        [to   |-> config.destination,
         text |-> IF config.format = "json" THEN [json |-> events[i].payload]
                  ELSE [debug |-> events[i]]]]

\* A file for each id: a later event with the same id overwrites the file.
FolderWrite(files, event) ==
    [f \in DOMAIN files \cup {event.id} |-> IF f = event.id THEN event.payload ELSE files[f]]

-----------------------------------------------------------------------------
(***************************************************************************)
(* What a record says is what the event says                               *)
(***************************************************************************)

Failing == {"failure", "error", "fail"}

\* The severity and the attributes of a log record never contradict each
\* other: one that reports a failure is a warning, one that reports a success or
\* a cancellation is none. No attribute is empty, and none of the subject's own
\* takes the place of a general one.
LogRecordAgrees(event) ==
    LET log     == LogRecord(event)
        results == {log.attributes[k] : k \in DOMAIN log.attributes \cap {"result", "status"}}
    IN  /\ results \cap Failing # {} => log.severity = "WARN"
        /\ results \cap {"success", "pass", "cancellation", "aborted"} # {} =>
              log.severity = "INFO"
        /\ \A k \in DOMAIN log.attributes : log.attributes[k] # None
        /\ log.attributes.event_id = event.id
        /\ log.attributes.event_type = event.type

\* The only "?" of a template are those of its placeholders.
IsTemplate(template) ==
    /\ template \in Seq(Range(template))
    /\ \A i \in DOMAIN template : IsPlaceholder(template[i]) \/ template[i].word # "?"

\* Whatever the number of rows of a statement, there is a value for every
\* place and a place for every value, each in the column the template gives
\* it -- for a template without a placeholder before VALUES.
Marks(sql) == Cardinality({i \in DOMAIN sql : sql[i] = "?"})

StatementAgrees(template, events) ==
    LET query   == ParseQuery(template)
        Rows(q) == BatchSql(q, Len(events))
    IN  query.ok =>
          /\ Marks(query.sql) = Len(Bound(query, SubSeq(events, 1, 1)))
          /\ (query.values # None /\ Marks(query.values.head) = 0) =>
                /\ Marks(Rows(query)) = Len(Bound(query, events))
                /\ SubSeq(Rows(query), 1, Len(query.values.head \o query.values.tuple))
                     = query.values.head \o query.values.tuple

\* What a broker sink sends is read back by the source of the same broker as
\* the same payload, whatever either side is configured with; what the user
\* sets is what the client is opened with.
BrokerAgrees(config, event, base, about, Valid) ==
    LET kafka == KafkaEvents(base, KafkaMessage(config, event), about, Valid)
        nats  == NatsEvents(base, NatsMessage(event), about, Valid)
    IN  /\ event.payload \in Valid =>
              /\ Len(kafka) = 1 /\ kafka[1].body = event.payload
              /\ nats[1].body = event.payload
        /\ \A k \in DOMAIN config.rdkafka :
              /\ ProducerSettings(config)[k] = config.rdkafka[k]
              /\ ConsumerSettings(config)[k] = config.rdkafka[k]
=============================================================================
