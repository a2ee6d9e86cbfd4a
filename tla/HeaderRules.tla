---------------------------- MODULE HeaderRules ----------------------------
(***************************************************************************)
(* The headers of requests and messages: those the HTTP, NATS and Kafka    *)
(* sinks generate (security/header.rs), those a receiving source validates *)
(* (security/rule.rs), the signatures both share (security/signature.rs),  *)
(* and the answer of the HTTP server (http.rs, errors.rs,                  *)
(* sources/webhook).                                                       *)
(*                                                                         *)
(* A text is a sequence of tokens, so that enclosing and concatenating are *)
(* what they are in the code; the HMAC of a payload under a key is a token *)
(* of its own, different for every key and payload. A header map is a      *)
(* function whose domain is the set of the headers present.                *)
(***************************************************************************)
EXTENDS Sequences, Integers, FiniteSets, SequencesExt, Functions

CONSTANTS
    None,          \* an absent Option
    Opaque,        \* a token that is no visible ASCII: to_str fails
    BadName,       \* header names HeaderName::from_str refuses
    Version, Json, \* the tokens of "1.0" and "application/json"
    Lower,         \* Lower[t]: the token t in lower case
    DecodesAs      \* DecodesAs[k]: the encodings in which token k is well formed

IsText(t) == t \in Seq(Range(t))

Readable(headers, h) == h \in DOMAIN headers /\ ~Contains(headers[h], Opaque)

LowerCase(text) == [i \in DOMAIN text |-> Lower[text[i]]]

Enclose(value, prefix, suffix) == prefix \o value \o suffix

Put(headers, h, text) == [g \in DOMAIN headers \cup {h} |-> IF g = h THEN text ELSE headers[g]]

(***************************************************************************)
(* Signatures. A result is a record with ok; an error has its name.        *)
(***************************************************************************)

Ok(v)  == [ok |-> TRUE, value |-> v]
Err(e) == [ok |-> FALSE, error |-> e]

\* The key: the bytes of the token, or what they decode to.
Key(config) ==
    IF config.tokenEncoding = None THEN Ok(<<"raw", config.token>>)
    ELSE IF config.tokenEncoding \in DecodesAs[config.token]
    THEN Ok(<<config.tokenEncoding, config.token>>)
    ELSE Err("XcodingFailed")

\* What is signed: the body, after the headers that are present, in the order
\* of the configuration, each followed by the separator.
Piece(headers, h, separator) ==
    IF h \in DOMAIN headers THEN headers[h] \o separator ELSE <<>>

Payload(config, headers, body) ==
    LET upTo[i \in 0..Len(config.signed)] ==
          IF i = 0 THEN <<>>
          ELSE upTo[i - 1] \o Piece(headers, config.signed[i], config.separator)
    IN  IF config.signatureOn = "body" THEN body ELSE upTo[Len(config.signed)] \o body

Mac(config, headers, body) ==
    LET key == Key(config)
    IN  IF ~key.ok THEN key
        ELSE Ok(<<config.encoding, key.value, Payload(config, headers, body)>>)

BuildSignature(config, headers, body) ==
    LET mac == Mac(config, headers, body)
    IN  IF mac.ok THEN Ok(config.prefix \o <<mac.value>>) ELSE mac

\* A signature that cannot be decoded is a mismatch, as one with another
\* prefix; the key is decoded last.
CheckSignature(config, headers, body) ==
    LET mac  == Mac(config, headers, body)
        text == headers[config.header]
        rest == SubSeq(text, Len(config.prefix) + 1, Len(text))
    IN  IF ~Readable(headers, config.header) THEN Err("SignatureNotFound")
        ELSE IF \/ ~IsPrefix(config.prefix, text)
                \/ Len(rest) # 1 \/ rest[1][1] # config.encoding
        THEN Err("VerificationMismatch")
        ELSE IF ~mac.ok THEN mac
        ELSE IF rest[1] # mac.value THEN Err("VerificationMismatch")
        ELSE Ok(<<>>)

(***************************************************************************)
(* Validation of an incoming request                                       *)
(***************************************************************************)

Reasons == {"MissingHeader", "InvalidValue", "PatternMismatch", "SignatureValidation"}

\* The reason why a header does not satisfy its rule, or None. A pattern is
\* the set of texts it matches, or None if it is no regular expression.
Equals(text, rule) ==
    LET expected == Enclose(rule.value, rule.prefix, rule.suffix)
    IN  IF rule.caseSensitive THEN text = expected ELSE LowerCase(text) = LowerCase(expected)

Unmatched(headers, header, rule, body) ==
    LET text == headers[header] IN
    CASE rule.type = "exists" ->
             IF header \notin DOMAIN headers \/ text = <<>> THEN "MissingHeader" ELSE None
      [] rule.type = "equals" ->
             IF ~Readable(headers, header) THEN "MissingHeader"
             ELSE IF Equals(text, rule) THEN None ELSE "InvalidValue"
      [] rule.type = "matches" ->
             IF ~Readable(headers, header) THEN "MissingHeader"
             ELSE IF rule.pattern = None THEN "InvalidValue"
             ELSE IF text \in rule.pattern THEN None ELSE "PatternMismatch"
      [] rule.type = "signature" ->
             IF CheckSignature([rule EXCEPT !.header = header], headers, body).ok
             THEN None ELSE "SignatureValidation"

Violation(headers, header, rule, body) ==
    IF header \in BadName THEN "InvalidValue" ELSE Unmatched(headers, header, rule, body)

RejectionStatus(reason) ==
    IF reason \in {"MissingHeader", "SignatureValidation"} THEN 401 ELSE 403

\* The first rule that fails decides. The rules come from a map: their order,
\* here `order`, is arbitrary.
ValidateHeaders(headers, rules, order, body) ==
    LET reason(i) == Violation(headers, order[i], rules[order[i]], body)
        failing == {i \in DOMAIN order : reason(i) # None}
    IN  IF failing = {} THEN None
        ELSE reason(CHOOSE i \in failing : \A j \in failing : i <= j)

(***************************************************************************)
(* Headers of an outgoing request                                          *)
(***************************************************************************)

\* Fault: a signature does not see the headers generated before it.
HeaderValueAlone(source, header, headers, body) ==
    IF source.type \in {"static", "secret"}
    THEN Ok(Enclose(source.value, source.prefix, source.suffix))
    ELSE BuildSignature([source EXCEPT !.header = header], <<>>, body)

HeaderValue(source, header, headers, body) ==
    IF source.type \in {"static", "secret"}
    THEN Ok(Enclose(source.value, source.prefix, source.suffix))
    ELSE BuildSignature([source EXCEPT !.header = header], headers, body)

\* One header after the other, each may use the ones before it; the order of
\* the map is arbitrary. One that cannot be generated fails the request.
OneMore(result, source, header, body) ==
    LET value == HeaderValue(source, header, result.value, body)
    IN  IF ~result.ok THEN result
        ELSE IF header \in BadName THEN Err("InvalidHeaderName")
        ELSE IF ~value.ok THEN Err("SignatureGeneration")
        ELSE IF Contains(value.value, Opaque) THEN Err("InvalidHeaderValue")
        ELSE Ok(Put(result.value, header, value.value))

GenerateHeaders(sources, order, body) ==
    LET after[i \in 0..Len(order)] ==
          IF i = 0 THEN Ok(<<>>)
          ELSE OneMore(after[i - 1], sources[order[i]], order[i], body)
    IN  after[Len(order)]

\* Headers the HTTP client owns are not forwarded from the event.
Managed == {"host", "content-length", "transfer-encoding", "connection", "content-encoding"}

ContentType == [h \in {"content-type"} |-> <<Json>>]

Values(headers, h) == IF h \in DOMAIN headers THEN <<headers[h]>> ELSE <<>>

\* HttpSink::send_event: a content type if the event has none, the CloudEvents
\* headers of its context, its own headers and the trace context are appended
\* one to the other; the generated headers replace them all. Those are made
\* from the body alone: no signature covers the others.
HttpHeaders(event, generated) ==
    LET own == Restrict(event.headers, DOMAIN event.headers \ Managed)
        ce  == IF DOMAIN event.context = {} THEN <<>>
               ELSE Put(event.context, "ce-specversion", <<Version>>)
        default == IF "content-type" \in DOMAIN own THEN <<>> ELSE ContentType
        names == DOMAIN default \cup DOMAIN ce \cup DOMAIN own \cup DOMAIN event.trace
    IN  [h \in DOMAIN generated \cup names |->
            IF h \in DOMAIN generated THEN <<generated[h]>>
            ELSE Values(default, h) \o Values(ce, h) \o Values(own, h) \o Values(event.trace, h)]

\* KafkaSink::send: the record has all values, the generated ones last.
KafkaHeaders(event, generated) ==
    [h \in DOMAIN event.headers \cup DOMAIN ContentType \cup DOMAIN generated |->
        Values(event.headers, h) \o Values(ContentType, h) \o Values(generated, h)]

\* NatsSink: the same order, the last value replaces the others.
NatsHeaders(event, generated) ==
    LET all == KafkaHeaders(event, generated) IN [h \in DOMAIN all |-> <<Last(all[h])>>]

Sent(transport, event, generated) ==
    CASE transport = "http"  -> HttpHeaders(event, generated)
      [] transport = "kafka" -> KafkaHeaders(event, generated)
      [] transport = "nats"  -> NatsHeaders(event, generated)

(***************************************************************************)
(* The receiving source                                                    *)
(***************************************************************************)

\* What the rules see: the first value of a request, the last of a message.
Validated(transport, sent) ==
    [h \in DOMAIN sent \ BadName |-> IF transport = "http" THEN Head(sent[h]) ELSE Last(sent[h])]

\* filter_http_headers, and headers_to_keep of the brokers' sources: the last
\* readable value, of a request no sensitive one.
Keep(transport, sent, sensitive, toKeep) ==
    LET readable(h) == {i \in DOMAIN sent[h] : ~Contains(sent[h][i], Opaque)}
    IN  [h \in {g \in DOMAIN sent \cap toKeep : /\ readable(g) # {}
                                                /\ transport = "http" => g \notin sensitive}
            |-> sent[h][CHOOSE i \in readable(h) : \A j \in readable(h) : j <= i]]

(***************************************************************************)
(* The server's answer                                                     *)
(***************************************************************************)

\* AcceptJsonOrSse: an unreadable Accept counts as none.
Accepted(accept) ==
    accept = None \/ accept \cap {"*/*", "application/json", "text/event-stream"} # {}

ErrorStatus(error) ==
    CASE error = "Serde" -> 400
      [] error = "Rejected" -> 422
      [] error = "QueueSaturated" -> 503
      [] OTHER -> 500

\* ReportWrapper: only a client error is reported as such.
ReportStatus(error) == IF ErrorStatus(error) \in 400..499 THEN ErrorStatus(error) ELSE 500

\* The webhook's answer to a body, given what validate_headers and the
\* pipeline say; 503 goes with Retry-After.
WebhookStatus(violation, json, error) ==
    IF violation # None THEN RejectionStatus(violation)
    ELSE IF ~json THEN 400
    ELSE CASE error = None -> 201
           [] error = "QueueSaturated" -> 503
           [] OTHER -> ReportStatus(error)

\* A request through the layers of the router: Accept first, then the route,
\* then the body and the time it takes, and the handler.
Answer(request, cancelled, violation) ==
    IF ~Accepted(request.accept) THEN 406
    ELSE CASE request.path = "/healthz" -> 200
           [] request.path = "/readyz"  -> IF cancelled THEN 412 ELSE 200
           [] request.path = "/webhook" ->
                CASE request.size = "stalled" -> 408
                  [] request.size = "large"   -> 413
                  [] OTHER -> WebhookStatus(violation, request.json, request.error)
           [] OTHER -> 404

\* The access log: an exact status or its class.
Logged(status, filter) == status \in filter.exact \/ status \div 100 \in filter.class

DefaultAccessLog == [exact |-> {}, class |-> {4, 5}]

\* A POST to the webhook with all that is needed, from an HTTP client that, as
\* reqwest, sends Accept: */*.
Post == [accept |-> {"*/*"}, path |-> "/webhook", size |-> "small", json |-> TRUE, error |-> None]

-----------------------------------------------------------------------------
\* What the configuration and the events are made of.
AllText(headers) == \A h \in DOMAIN headers : IsText(headers[h])

IsEvent(event) == AllText(event.headers) /\ AllText(event.context) /\ AllText(event.trace)

IsSource(source) ==
    \/ /\ source.type \in {"static", "secret"}
       /\ {"type", "value", "prefix", "suffix", "caseSensitive"} \subseteq DOMAIN source
       /\ IsText(source.value) /\ IsText(source.prefix) /\ IsText(source.suffix)
    \/ /\ source.type = "signature"
       /\ {"type", "header", "token", "tokenEncoding", "encoding", "prefix", "signatureOn", "signed",
           "separator"} \subseteq DOMAIN source
       /\ IsText(source.prefix) /\ IsText(source.signed) /\ IsText(source.separator)

\* An order of the entries of a map.
IsOrder(order, map) ==
    /\ IsText(order) /\ Range(order) = DOMAIN map
    /\ \A i, j \in DOMAIN order : order[i] = order[j] => i = j

\* What the two sides are given.
WellFormed(in) ==
    /\ in.transport \in {"http", "kafka", "nats"}
    /\ IsEvent(in.event) /\ IsText(in.body)
    /\ \A h \in DOMAIN in.sources : IsSource(in.sources[h])
    /\ IsOrder(in.order, in.sources) /\ IsOrder(in.ruleOrder, in.sources)

\* The rules of a source that mirror the headers of a sink accept what the sink
\* sends, over each transport, exactly if every header that adds to what a
\* signature is over was generated before it, in the arbitrary order of the map
\* (header.rs:92): headers of the event, the content type and the CloudEvents
\* headers are never covered by the sender but always checked by the receiver
\* (signature.rs:95). And a configured header that the receiver keeps has the
\* configured value, whatever the event brought along (kafka.rs:216).
Mirror(sources) ==
    [h \in DOMAIN sources |-> IF sources[h].type = "signature" THEN sources[h]
                              ELSE [sources[h] EXCEPT !.type = "equals"]]

Before(order, h) == {g \in Range(order) : \E i, j \in DOMAIN order :
                                              i < j /\ order[i] = g /\ order[j] = h}

\* The headers that arrived and that a signature is over, but for an empty one
\* without a separator.
Over(source, headers) ==
    IF source.type # "signature" \/ source.signatureOn = "body" THEN {}
    ELSE {g \in Range(source.signed) : Piece(headers, g, source.separator) # <<>>}

Agrees(in) ==
    LET generated == GenerateHeaders(in.sources, in.order, in.body)
        sent      == Sent(in.transport, in.event, generated.value)
        arrived   == Validated(in.transport, sent)
        violation == ValidateHeaders(arrived, Mirror(in.sources), in.ruleOrder, in.body)
        status    == Answer(Post, FALSE, violation)
        kept      == Keep(in.transport, sent, {"authorization"}, DOMAIN in.sources)
    IN  generated.ok =>
          /\ status = 201 <=> \A h \in DOMAIN in.sources :
                                Over(in.sources[h], arrived) \subseteq Before(in.order, h)
          /\ status # 201 => Logged(status, DefaultAccessLog)
          /\ \A h \in DOMAIN in.sources \cap DOMAIN kept : kept[h] = generated.value[h]
          /\ DOMAIN in.sources \ {"authorization"} \subseteq DOMAIN kept
=============================================================================
