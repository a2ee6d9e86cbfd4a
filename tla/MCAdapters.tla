----------------------------- MODULE MCAdapters -----------------------------
(***************************************************************************)
(* The parts of the collector around its core: those with steps (Adapters) *)
(* and those that are functions. Of the latter `input` is what they are    *)
(* given.                                                                  *)
(***************************************************************************)
EXTENDS Adapters, TLC, SequencesExt

CONSTANTS Now, Dashed, Plain

\* Every file but one.
ScanPatterns == <<[negated |-> TRUE, matches |-> {"c"}]>>

\* A file that is created empty and written to later.
ScanEmpty == {<<"b", 2>>, <<"b", 3>>}

StoreBatches == {<<"r", "s", "t">>, <<"r">>}

\* An API, a blob store it redirects to, and a host nobody trusts.
AnUrl(scheme, host) == [scheme |-> scheme, host |-> host,
                        port |-> IF scheme = "https" THEN 443 ELSE 80]
FetchUrls == {AnUrl("https", "api"), AnUrl("http", "api"), AnUrl("https", "blob"),
              AnUrl("http", "blob"), AnUrl("https", "other")}

-----------------------------------------------------------------------------
(***************************************************************************)
(* The headers                                                             *)
(***************************************************************************)

T(x) == <<x>>

Tokens == {T("Bearer"), T("v")}
Decoding == "k" :> {"hex"}
LowerTokens == [t \in Tokens |-> IF t = T("Bearer") THEN T("bearer") ELSE t]

Secret   == [type |-> "static", value |-> <<T("v")>>, prefix |-> <<T("Bearer")>>, suffix |-> <<>>,
             caseSensitive |-> FALSE]
IdHeader == [Secret EXCEPT !.value = <<T("i")>>, !.prefix = <<>>, !.caseSensitive = TRUE]
Signature(signed) ==
    [type |-> "signature", header |-> "sig", token |-> "k",
     tokenEncoding |-> IF signed = <<>> THEN "hex" ELSE None,
     encoding |-> "hex", prefix |-> <<T("sha256=")>>,
     signatureOn |-> IF signed = <<>> THEN "body" ELSE "headers",
     signed |-> signed, separator |-> <<T(".")>>]

AMessage(own, ce) ==
    [headers |-> [h \in own |-> <<T("e"), T(h)>>],
     context |-> IF ce THEN "ce-id" :> <<T("c")>> ELSE <<>>,
     trace   |-> "traceparent" :> <<T("t")>>]

Names == SetToSeqs({"sig", "id", "key"})

Configurations ==
    {"sig" :> Signature(signed) @@ "id" :> IdHeader @@ "key" :> Secret :
        signed \in {<<>>, <<"id">>, <<"id", "key">>, <<"content-type">>, <<"own">>, <<"sig">>,
                    <<"ce-id">>}}

AllHeaderInputs ==
    [transport : {"http", "kafka", "nats"},
     event : {AMessage(own, ce) : own \in SUBSET {"own", "id", "ce-id"}, ce \in BOOLEAN},
     sources : Configurations, order : Names, ruleOrder : Names, body : {<<T("body")>>}]

-----------------------------------------------------------------------------
(***************************************************************************)
(* The content of the events                                               *)
(***************************************************************************)

Object == [json |-> "o"]
K      == [json |-> "k"]

JsonTexts == (<<"{}">> :> Object) @@ (<<"[", "]">> :> [array |-> <<>>])
             @@ (<<"[", "{}", "]">> :> [array |-> <<Object>>])
             @@ (<<"[", "{}", ",", "{}", "]">> :> [array |-> <<Object, Object>>])

Payload == INSTANCE Payloads WITH
    Blank <- " ",
    Decoded <- [json |-> JsonTexts,
                xml  |-> (<<"<a/>">> :> [xml |-> "a"]),
                yaml |-> JsonTexts @@ (<<"k">> :> K)
                         @@ (<<"[", "{}", ",", "k", "]">> :> [array |-> <<Object, K>>])]

Sanitized == Dashed :> Plain

Upto(S, n) == UNION {[1..m -> S] : m \in 0..n}

\* Texts of up to three lines, and reports of up to four.
TextLines == {<<>>, <<" ">>, <<"{}">>, <<" ", "{}">>, <<"{">>, <<"<a/>">>, <<"{}", ",", "k">>,
              <<"[">>, <<"]">>, <<"k", ",", "k">>, <<"{}", ",", "{}">>}
TapLines  == {<<"#", "k">>, <<>>, <<"TAP", "version", "1">>, <<"1..2">>, <<"ok", "1">>,
              <<"not", "ok", "2", "-", "k", "#", "SKIP", "k">>, <<"ok">>, <<"  ---">>,
              <<"  ...">>, <<"k">>}

PayloadInputs ==
    [doc : {[lines |-> l, terminated |-> TRUE] : l \in Upto(TextLines, 3)},
     parser : {"json", "jsonl", "csv_row", "xml", "yaml", "tap", "text", "text_line", "auto"}]
    \cup
    [doc : [lines : Upto(TapLines, 4), terminated : BOOLEAN], parser : {"tap"}]

Extensions(parser) ==
    IF parser = "auto" THEN {None, "xml", "json", "jsonl", "csv", "yml", "tap", "txt"} ELSE {None}

\* Answers of a driver, to a first invocation that fails, asks for nothing or
\* asks for up to two requests.
S(s) == [str |-> s]
O(f) == [obj |-> f]
Optional(key, value) == IF value = None THEN <<>> ELSE key :> S(value)
Request(url, route, parser) ==
    O(("url" :> url) @@ Optional("route", route) @@ Optional("parser", parser))
Requests == [url : {S("u")}, route : {None, "feedback", "both", "nowhere"},
             parser : {None, "json", "bad"}]
Entries  == {Request(r.url, r.route, r.parser) : r \in Requests}
            \cup {Request([num |-> 1], "both", None), None}
Lists    == {<<>>} \cup {<<e>> : e \in Entries}
            \cup {<<e, Request(S("v"), "both", "jsonl")>> : e \in Entries}
Targets  == {None, O([state |-> S("s")])}
            \cup {O([requests |-> [arr |-> l], state |-> s]) :
                      l \in Lists, s \in {None, S("s"), O([a |-> S("b")])}}

PollInputs ==
    [target     : Targets,
     configured : {None, O(<<>>), O([ts_after |-> S("mine"), http_polling |-> S("mine")])},
     response   : [status : {200}, headers : {<<>>, [etag |-> "1", other |-> "2"]}, body : {"b"},
                   json : {None, S("j")}],
     state      : {None, S("s0")}]

Window == [ts_after |-> "t0", ts_before |-> "t1"]

ParsedBody(body) == [text  |-> [ok |-> TRUE, bodies |-> <<body>>],
                     jsonl |-> [ok |-> TRUE, bodies |-> <<body, body>>],
                     json  |-> [ok |-> FALSE]]

Polled(in) ==
    [config   |-> [metadata |-> in.configured, parser |-> "text", keep |-> {"etag"}],
     window   |-> Window, state |-> in.state,
     program  |-> Poll!DriverInput(in.configured, Window, in.state, None, None) :> in.target,
     response |-> in.response, parsed |-> ParsedBody(in.response.body)]

AnEvent(id, subject, predicate, outcome, custom) ==
    [type |-> <<"dev", IF custom THEN "cdeventsx" ELSE "cdevents", subject, predicate, "0.1.0">>,
     id |-> id, timestamp |-> "t", source |-> "s", subjectId |-> "sid", subjectSource |-> None,
     custom |-> custom, specversion |-> "0.4",
     content |-> ("url" :> "u") @@ (IF outcome = None THEN <<>> ELSE "outcome" :> outcome),
     payload |-> [obj |-> [id |-> id, extra |-> None]]]

Merged == AnEvent("e2", "change", "merged", None, FALSE)

LogInputs ==
    [subject   : {"pipelinerun", "taskrun", "testsuiterun", "testcaserun", "change", "branch",
                  "repository", "service", "environment", "incident"},
     predicate : {"queued", "started", "finished", "created", "merged", "abandoned", "deployed"},
     outcome   : {None, "success", "pass", "failure", "fail", "error", "cancel"},
     custom    : BOOLEAN]

Words == {[word |-> "VALUES"], [word |-> "("], [word |-> ")"], [word |-> ";"], [word |-> "t"],
          [field |-> "id"], [field |-> "subject"], [field |-> "nope"]}

SqlInputs == [template : Upto(Words, 5), rows : {1, 3}]

Stored(in) ==
    [template |-> in.template,
     events   |-> SubSeq(<<AnEvent("e1", "change", "created", None, FALSE), Merged, Merged>>,
                         1, in.rows)]

BrokerInputs ==
    [rdkafka : {<<>>, [acks |-> "all"], [servers |-> "x", auto_commit |-> "false"]},
     key     : {"unset", "cdevent_id"},
     base    : {None, <<>>, [kafka_topic |-> "mine"]}]

Brokered(in) ==
    [config |-> [rdkafka |-> in.rdkafka, brokers |-> "b", group |-> "g", autoCommit |-> "true",
                 keyPolicy |-> in.key],
     event  |-> Merged, base |-> in.base, about |-> [kafka_topic |-> "t"],
     valid  |-> {Merged.payload}]

Images ==
    [path   : {<<"app">>, <<"library", "app">>, <<"docker.io", "app">>, <<"o", "app">>,
               <<"docker.io", "library", "app">>, <<"ghcr.io", "o", "app">>,
               <<"localhost", "app">>},
     tag    : {None, "latest", "v1"},
     digest : {None} \cup [algorithm : {None, "sha256", "sha512"}, hex : {"h"}]]

PurlInputs ==
    [a : Images, b : Images, repo : {[scheme |-> "oci", path |-> <<"r.io">>]},
     chart : {<<"c">>, <<"a", "b", "c">>}, revision : {"1.0"}]
    \cup
    [a : {[path |-> <<"app">>, tag |-> None, digest |-> None]},
     b : {[path |-> <<"app">>, tag |-> None, digest |-> None]},
     repo : [scheme : {"oci", "https", None}, path : {<<"r.io">>, <<"r.io", "x">>}],
     chart : {<<"c">>, <<"a", "c">>, <<"a", "b", "c">>}, revision : {"1.0"}]

IdInputs ==
    [body : [id : {None, Zero, Dashed, Plain}, timestamp : {None, "t"}, source : {None, "s"},
             rest : {"r"}],
     source : {None, "m"}]

Received(in) ==
    [event   |-> [body |-> in.body, headers |-> <<>>, metadata |-> [source |-> in.source]],
     headers |-> <<>>, now |-> "now", later |-> "later"]

AllEventInputs ==
    [poll   |-> {Polled(in) : in \in PollInputs},
     log    |-> {[event |-> AnEvent("e1", in.subject, in.predicate, in.outcome, in.custom)] :
                    in \in LogInputs},
     sql    |-> {Stored(in) : in \in SqlInputs},
     broker |-> {Brokered(in) : in \in BrokerInputs},
     purl   |-> PurlInputs,
     id     |-> {Received(in) : in \in IdInputs}]

-----------------------------------------------------------------------------
(***************************************************************************)
(* The settings                                                            *)
(***************************************************************************)

Command == INSTANCE CommandLine WITH
    FileKeys <- ("template_file" :> "template"), RemoteKeys <- ("template_rfile" :> "template"),
    Valid <- {"good"}, BareKeys <- {"k1"}, CountWidth <- 65536

Table(f) == [table |-> f]
Flag(b)  == [bool |-> b]
Set(section, name, on) == Table(section :> Table(name :> Table("enabled" :> Flag(on))))
Maybe(key, value) == IF value = None THEN <<>> ELSE key :> value
Refs(names) == IF names = None THEN None ELSE [list |-> [i \in DOMAIN names |-> S(names[i])]]

\* The base of send: the cli source and the debug sink are on.
Base ==
    Table([sources |-> Table([cli |-> Table([enabled |-> Flag(TRUE),
                                             extractor |-> Table([type |-> S("cli")])]),
                              run |-> Table([enabled |-> Flag(FALSE),
                                             extractor |-> Table([type |-> S("subprocess")])])]),
           sinks   |-> Table([debug |-> Table([enabled |-> Flag(TRUE), type |-> S("debug")]),
                              http  |-> Table([enabled |-> Flag(FALSE), type |-> S("http")])])])

Transformer(how) ==
    CASE how \in {"good", "bad"} -> Table([type |-> S("vrl"), template |-> S(how)])
      [] how = "file"    -> Table([type |-> S("vrl"), template_file |-> S("p")])
      [] how = "remote"  -> Table([type |-> S("vrl"), template_rfile |-> [uri |-> <<"gh", "p">>]])
      [] how = "nowhere" -> Table([type |-> S("vrl"), template_rfile |-> [uri |-> <<"no", "p">>]])
      [] OTHER           -> Table([type |-> S(how)])

\* A user's file: a pool of transformers, which the cli source, the debug sink
\* and the pipeline refer to.
UserDoc(c) ==
    Table([transformers |-> Table([t |-> Transformer(c.how), c |-> Transformer("good")]),
           sources |-> Table([cli |-> Table(
               ("extractor" :> Table("ts" :> S("$now")))
               @@ Maybe("transformer_refs", Refs(c.refs))
               @@ Maybe("transformers", IF c.own = None THEN None
                                        ELSE [list |-> <<Transformer(c.own)>>]))]),
           sinks  |-> Table([debug |-> Table(Maybe("transformer_refs", Refs(c.refs)))]),
           remote |-> Table([gh |-> Table([type |-> S("github"), owner |-> S("o"),
                                           repo |-> S("r")])])]
          @@ Maybe("pipeline", IF c.common = None THEN None
                               ELSE Table("transformer_refs" :> Refs(c.common))))

World == <<"github", "o", "r">> :> ("p" :> "good")

UserDocs == [how : {"good", "bad", "file", "remote", "nowhere", "unknown", "log"},
             refs : {None, <<"t">>, <<"c", "t">>, <<"nope">>},
             own : {None, "good", "bad", "file", "log"}, common : {None, <<"c">>}]

ConfigInputs ==
    [user : UserDocs, kind : {"file", "content"}, local : {"good", "bad"},
     over : {[env |-> None, sets |-> None],
             [env  |-> Set("sinks", "debug", FALSE), sets |-> Set("sinks", "debug", TRUE)],
             [env  |-> Set("sources", "run", TRUE), sets |-> Set("sources", "cli", FALSE)]}]

SettingsOf(in) ==
    [base |-> Base, source |-> [kind |-> in.kind, doc |-> UserDoc(in.user)], enableEnv |-> TRUE,
     env |-> in.over.env, cli |-> None, sets |-> in.over.sets]

CheckInputs == [user : UserDocs, set : {<<>>, <<None>>}]

SetLines == {<<>>, <<None>>,
             <<[path |-> <<"sinks", "debug", "enabled">>, value |-> Flag(TRUE)]>>,
             <<[path |-> <<"sources", "cli", "enabled">>, value |-> Flag(TRUE)]>>}

\* No file, one, or a URL that answers or does not.
SendInputs ==
    [data : {<<>>, <<"x">>}, url : {None, "u"}, headers : {<<>>, <<"no colon">>, << <<"a", "b">> >>},
     run : {None, "run", "other"},
     metadata : {<<>>, << <<"k1", "v">> >>, << <<"k1", "v">>, <<"k1", "w">> >>, << <<"k!", "v">> >>},
     command : {<<>>, <<"ls">>}, set : SetLines,
     env : {None, Set("sinks", "debug", TRUE)}, config : {None, "file", "url"},
     answered : BOOLEAN]

UserSends == Set("sources", "cli", TRUE)

ArgsOf(in) ==
    [Command!SendArgs EXCEPT
        !.data = in.data, !.url = in.url, !.headers = in.headers, !.run = in.run,
        !.metadata = in.metadata, !.command = in.command, !.set = in.set,
        !.config = CASE in.config = None   -> None
                     [] in.config = "file" -> [scheme |-> None, doc |-> UserSends]
                     [] in.config = "url"  -> [scheme |-> "https"]]

Texts == {[json |-> "j1", layout |-> "pretty"], [json |-> "j1", layout |-> "other"],
          [json |-> None, layout |-> "x"]}

TransformInputs ==
    [dir    : UNION {[d -> Texts] : d \in SUBSET {<< <<"a">>, "json">>, << <<"b">>, "json">>,
                                                  << <<"a", "1">>, "json">>}},
     events : Upto([file : {<< <<"a">>, "xml">>, << <<"b">>, "xml">>}, body : {"j1", "j2"},
                    headers : {"h"}, metadata : {"m"}, valid : BOOLEAN], 2),
     args   : [mode : {"review"}, check : BOOLEAN, exportHeaders : BOOLEAN,
               exportMetadata : {FALSE}, keep : {FALSE}]]

\* A text is read as what it says: a file, a response and, but for blank data and
\* for arrays, which it takes apart, the command line give the same events,
\* malformed pieces included, a report its tests once each (sources/parsers.rs,
\* sources/opendal/parsers.rs, sources/cli/mod.rs). Of the layers
\* of settings the last one that sets a value wins, a remote configuration depends
\* on no local file, what `config --check` accepts starts (config/mod.rs),
\* the flags of `send` switch on what they name (tools/send.rs), and after a
\* review that accepts everything, and no other, a check of the same inputs
\* passes (tools/transform.rs).
TextsRead ==
    /\ part = "payload" =>
          \A ext \in Extensions(input.parser), base \in {None, [source |-> "s"]} :
             Payload!ReadersAgree(input.doc, input.parser, ext, base)
    /\ part = "payload" /\ input.parser = "tap" => Payload!TestsReported(input.doc)
    /\ part = "config" =>
          Command!ConfigAgrees(SettingsOf(input), <<{"A"}>>, "p" :> input.local, "p" :> "other", World)
    /\ part = "check" =>
          Command!CheckedStarts([scheme |-> None, doc |-> UserDoc(input.user)], input.set, Base,
                                None, <<{"A"}>>, "p" :> "bad", World)
    /\ part = "send" =>
          Command!SendAgrees(ArgsOf(input), Base, input.env,
                             IF input.answered THEN [status |-> 200, doc |-> UserSends] ELSE None,
                             <<>>, <<>>, World)
    /\ part = "transform" => Command!TransformAgrees(input.args, input.dir, input.events)

-----------------------------------------------------------------------------

InputInit ==
    /\ \/ part = "payload"   /\ input \in PayloadInputs
       \/ part = "config"    /\ input \in ConfigInputs
       \/ part = "check"     /\ input \in CheckInputs
       \/ part = "send"      /\ input \in SendInputs
       \/ part = "transform" /\ input \in TransformInputs
    /\ IdleSteps

MCSpec == (Init \/ InputInit) /\ [][Next]_vars
=============================================================================
