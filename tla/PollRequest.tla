---------------------------- MODULE PollRequest ----------------------------
(***************************************************************************)
(* The data of the HTTP polling source: what its VRL driver is given, how  *)
(* the requests it answers with are read (http_polling/request.rs), and the *)
(* events made of a response (http_polling/mod.rs). HttpPolling.tla has    *)
(* their order and their failures.                                         *)
(*                                                                         *)
(* A JSON value is None (null) or a record of one field: [str], [num],     *)
(* [arr] with a sequence, [obj] with a function from keys to values.       *)
(***************************************************************************)
EXTENDS Sequences, Integers, SequencesExt, Functions

CONSTANT None    \* JSON null, an absent Option

Is(kind, value) == value # None /\ kind \in DOMAIN value

\* A field of a value, null if there is none.
Get(value, key) == IF Is("obj", value) /\ key \in DOMAIN value.obj THEN value.obj[key] ELSE None

Put(f, g) == [k \in DOMAIN f \cup DOMAIN g |-> IF k \in DOMAIN g THEN g[k] ELSE f[k]]

(***************************************************************************)
(* The requests of a driver's answer                                       *)
(***************************************************************************)

DefaultMethod == "GET"
DefaultRoute  == "pipeline"

\* A route that is not known is the default one.
Route(word)      == IF word \in {"feedback", "both"} THEN word ELSE DefaultRoute
Emits(route)     == route \in {"pipeline", "both"}
FeedsBack(route) == route \in {"feedback", "both"}

\* Of an object, the entries that are strings.
StringMap(value) ==
    IF Is("obj", value)
    THEN [k \in {k \in DOMAIN value.obj : Is("str", value.obj[k])} |-> value.obj[k].str]
    ELSE <<>>

StringOr(value, default) == IF Is("str", value) THEN value.str ELSE default

ParseRequestSpec(entry) ==
    [url     |-> Get(entry, "url").str,
     method  |-> StringOr(Get(entry, "method"), DefaultMethod),
     headers |-> StringMap(Get(entry, "headers")),
     query   |-> StringMap(Get(entry, "query")),
     body    |-> StringOr(Get(entry, "body"), None),
     route   |-> Route(StringOr(Get(entry, "route"), DefaultRoute)),
     parser  |-> LET p == StringOr(Get(entry, "parser"), None)
                 IN  IF p \in {"auto", "json", "jsonl", "text"} THEN p ELSE None]

\* A program that does not compile fails the start of the source.
Compile(script) == [ok |-> script.compiles, program |-> script]

\* One invocation: the program (external) turns its input into a target, or
\* fails; a target without a list of requests fails too, an entry without a
\* url is left out.
Execute(program, input) ==
    LET target   == program[input]
        requests == Get(target, "requests")
    IN  IF target = None \/ ~Is("arr", requests) THEN [ok |-> FALSE]
        ELSE LET named == SelectSeq(requests.arr, LAMBDA r : Is("str", Get(r, "url")))
             IN  [ok       |-> TRUE,
                  state    |-> Get(target, "state"),
                  requests |-> [i \in DOMAIN named |-> ParseRequestSpec(named[i])]]

\* Every request keeps the state of the invocation that asked for it.
DriverTasks(program, input, depth) ==
    LET out == Execute(program, input)
    IN  IF ~out.ok THEN out
        ELSE [ok    |-> TRUE,
              tasks |-> [i \in DOMAIN out.requests |->
                            [spec |-> out.requests[i], state |-> out.state, depth |-> depth]]]

(***************************************************************************)
(* What the driver and the events are told                                 *)
(***************************************************************************)

WindowMetadata(window) ==
    [k \in {"ts_after", "ts_before"} |-> [str |-> window[k]]]

\* Fault: configured metadata takes the place of the window's.
BaseMetadataConfigured(configured, window) ==
    Put(WindowMetadata(window), IF Is("obj", configured) THEN configured.obj ELSE <<>>)

\* The window takes the place of configured metadata of the same name.
BaseMetadata(configured, window) ==
    Put(IF Is("obj", configured) THEN configured.obj ELSE <<>>, WindowMetadata(window))

Strings(f) == [obj |-> [k \in DOMAIN f |-> [str |-> f[k]]]]

\* The response with all of its readable headers, and its body decoded if it
\* is JSON; null for both on the first invocation of a poll.
DriverInput(configured, window, state, spec, response) ==
    [obj |->
       [metadata |-> [obj |-> BaseMetadata(configured, window)],
        state    |-> state,
        request  |-> IF spec = None THEN None
                     ELSE [obj |-> [url     |-> [str |-> spec.url],
                                    method  |-> [str |-> spec.method],
                                    headers |-> Strings(spec.headers)]],
        response |-> IF response = None THEN None
                     ELSE [obj |-> [status  |-> [num |-> response.status],
                                    headers |-> Strings(response.headers),
                                    body    |-> IF response.json # None THEN response.json
                                                ELSE [str |-> response.body]]]]]

EventMetadata(configured, window, task, response) ==
    LET polled == [url    |-> [str |-> task.spec.url],
                   method |-> [str |-> task.spec.method],
                   status |-> [num |-> response.status]]
    IN  [obj |-> Put(BaseMetadata(configured, window),
                     [http_polling |->
                        [obj |-> IF task.state = None THEN polled
                                 ELSE Put(polled, [state |-> task.state])]])]

\* The parser of the request, or else the one of the source; a body that it
\* refuses gives no event. parsed[p] is what Payloads' ParseResponse makes of the
\* body with parser p.
EmitResponse(config, window, task, response, parsed) ==
    LET parser == IF task.spec.parser # None THEN task.spec.parser ELSE config.parser
        bodies == parsed[parser]
    IN  IF ~Emits(task.spec.route) \/ ~bodies.ok THEN <<>>
        ELSE [i \in DOMAIN bodies.bodies |->
                [body     |-> bodies.bodies[i],
                 metadata |-> EventMetadata(config.metadata, window, task, response),
                 headers  |-> [h \in {h \in DOMAIN response.headers : h \in config.keep} |->
                                  response.headers[h]]]]

-----------------------------------------------------------------------------
(***************************************************************************)
(* A request is followed to its events                                     *)
(***************************************************************************)

\* One turn of a poll: the driver is asked with the window, each request it
\* answers with is sent, and its response emitted. The state a driver gave is
\* what it is given back, and what the events of its requests carry, whatever
\* the configured metadata holds; the events name the request and the window
\* they come from, and no header that was not to be kept.
TurnAgrees(config, window, state, program, depth, response, parsed) ==
    LET first == DriverInput(config.metadata, window, state, None, None)
        turn  == DriverTasks(program, first, depth)
    IN  turn.ok =>
        \A i \in DOMAIN turn.tasks :
            LET task   == turn.tasks[i]
                again  == DriverInput(config.metadata, window, task.state, task.spec, response)
                events == EmitResponse(config, window, task, response, parsed)
            IN  /\ Get(again, "state") = Get(program[first], "state")
                /\ Get(Get(again, "request"), "url") = [str |-> task.spec.url]
                /\ Emits(task.spec.route) \/ FeedsBack(task.spec.route)
                /\ \A j \in DOMAIN events :
                      LET polled == Get(events[j].metadata, "http_polling")
                      IN  /\ Get(polled, "state") = Get(program[first], "state")
                          /\ Get(polled, "url") = [str |-> task.spec.url]
                          /\ \A k \in {"ts_after", "ts_before"} :
                                Get(events[j].metadata, k) = [str |-> window[k]]
                          /\ DOMAIN events[j].headers \subseteq config.keep
=============================================================================
