---------------------------- MODULE CommandLine ----------------------------
(***************************************************************************)
(* The commands of the collector: how the arguments of connect, send and   *)
(* config become a layer of the configuration (tools/, lib.rs), and what   *)
(* transform does to the files of its output directory.                    *)
(***************************************************************************)
EXTENDS Configuration

CONSTANTS
    BareKeys,   \* the metadata keys made of letters, digits, "-" and "_"
    CountWidth  \* a u16 counter wraps at this value

(***************************************************************************)
(* send: arguments to configuration                                        *)
(***************************************************************************)

\* What clap gives for an argument that is absent.
SendArgs ==
    [data |-> <<>>, url |-> None, retries |-> None, config |-> None, configHeaders |-> <<>>,
     set |-> <<>>, headers |-> <<>>, parser |-> "auto", run |-> None, noData |-> FALSE,
     metadata |-> <<>>, failOnCollectorError |-> FALSE, logFull |-> FALSE, command |-> <<>>]

LineIf(condition, path, value) == IF condition THEN Line(path, value) ELSE <<>>

\* The target of --url takes the place of the debug sink; a header without a
\* colon is left out, and without --url all of them are.
HttpSinkLines(args) ==
    LET named    == SelectSeq(args.headers, LAMBDA h : h # "no colon")
        Header(h) == Line(<<"sinks", "http", "headers", h[1], "type">>, [str |-> "static"])
                     \o Line(<<"sinks", "http", "headers", h[1], "value">>, [str |-> h[2]])
    IN  (IF args.url = None THEN <<>>
         ELSE Line(<<"sinks", "http", "enabled">>, [bool |-> TRUE])
              \o Line(<<"sinks", "http", "destination">>, [str |-> args.url])
              \o Line(<<"sinks", "debug", "enabled">>, [bool |-> FALSE])
              \o LineIf(args.retries # None,
                        <<"sinks", "http", "total_duration_of_retries">>, [str |-> args.retries])
              \o FlattenSeq([i \in DOMAIN named |-> Header(named[i])]))
        \o LineIf(args.logFull, <<"sinks", "http", "log_full_response_on_error">>, [bool |-> TRUE])

\* Metadata without "=" is left out; a key of other characters is refused.
Pairs(args)        == SelectSeq(args.metadata, LAMBDA m : m # "no equals")
ValidKeys(args)    == \A i \in DOMAIN Pairs(args) : Pairs(args)[i][1] \in BareKeys
Texts(seq)         == [list |-> [i \in DOMAIN seq |-> [str |-> seq[i]]]]

SendLines(args) ==
    LET cli == <<"sources", "cli", "extractor">>
    IN  Line(Append(cli, "data"), [lines |-> args.data])
        \o Line(Append(cli, "parser"), [str |-> args.parser])
        \o FlattenSeq([i \in DOMAIN Pairs(args) |->
              Line(cli \o <<"metadata", Pairs(args)[i][1]>>, [str |-> Pairs(args)[i][2]])])
        \o HttpSinkLines(args)

\* With --run, the values of a key that is given several times make a list.
RunLines(args) ==
    LET source   == <<"sources", args.run>>
        extractor(key) == source \o <<"extractor", key>>
        keys     == [i \in DOMAIN Pairs(args) |-> Pairs(args)[i][1]]
        distinct == SelectSeq([i \in DOMAIN keys |-> i],
                              LAMBDA i : \A j \in 1 .. i - 1 : keys[j] # keys[i])
        Values(key) == LET mine == SelectSeq(Pairs(args), LAMBDA p : p[1] = key)
                       IN  [i \in DOMAIN mine |-> mine[i][2]]
        Override(key) ==
            Line(extractor("metadata") \o <<"run", "overrides", key>>,
                 IF Len(Values(key)) = 1 THEN [str |-> Values(key)[1]] ELSE Texts(Values(key)))
    IN  Line(Append(source, "enabled"), [bool |-> TRUE])
        \o Line(<<"sources", "cli", "enabled">>, [bool |-> FALSE])
        \o LineIf(args.command # <<>>, extractor("command"), Texts(args.command))
        \o LineIf(args.data # <<>>, extractor("data_globs"), Texts(args.data))
        \o LineIf(args.noData, extractor("no_data"), [bool |-> TRUE])
        \o LineIf(args.failOnCollectorError, extractor("fail_on_collector_error"), [bool |-> TRUE])
        \o FlattenSeq([i \in DOMAIN distinct |-> Override(keys[distinct[i]])])
        \o HttpSinkLines(args)

CliLayer(args) ==
    IF ~ValidKeys(args) THEN Failed
    ELSE ParseToml(IF args.run = None THEN SendLines(args) ELSE RunLines(args))

\* A layer of the configuration that is not given is None.
Builder(base, source, env, cli, sets) ==
    [base |-> base, source |-> source, enableEnv |-> TRUE, env |-> env, cli |-> cli, sets |-> sets]

\* The builder of send; base is send.base.toml, answer that of a --config URL.
LoadConfig(args, base, env, answer) ==
    LET source == ResolveConfigSource(args.config, args.configHeaders, answer)
        cli    == CliLayer(args)
        sets   == JoinTomlFragments(args.set)
    IN  IF ~source.ok \/ ~cli.ok \/ ~sets.ok THEN Failed
        ELSE SomeOk(Builder(base, source.value, env, cli.value, sets.value))

\* A subprocess tells its exit code only to the command that asked for it; a
\* run that is no subprocess leaves it at 0.
ExitCode(args, config, status) ==
    IF args.run # None /\ args.run \in DOMAIN config.sources
       /\ config.sources[args.run].type = "subprocess"
    THEN status ELSE 0

\* The result of send; pipeline is that of the run of the pipeline, status the
\* one of the child.
Send(args, config, pipeline, status) ==
    IF args.run = None THEN pipeline
    ELSE IF ~pipeline.ok THEN Failed
    ELSE SomeOk(ExitCode(args, config, status) = 0)

\* connect has no layer of its own.
ConnectConfig(arg, headers, set, base, env, answer) ==
    LET source == ResolveConfigSource(arg, headers, answer)
        sets   == JoinTomlFragments(set)
    IN  IF source.ok /\ sets.ok THEN SomeOk(Builder(base, source.value, env, None, sets.value))
        ELSE Failed

\* config: the base of the command it is asked about; a configuration that
\* cannot be built is no error of --check, but is one of --print.
ConfigCommand(modes, command, bases, source, env, set, patterns, local, world) ==
    LET base  == IF command = "send" THEN bases.send ELSE bases.connect
        sets  == JoinTomlFragments(set)
        built == Build(Builder(base, source, env, None, sets.value), patterns, local, world)
    IN  IF modes = {} \/ ~sets.ok \/ ("print" \in modes /\ ~built.ok) THEN Failed
        ELSE SomeOk("check" \in modes => (built.ok /\ Check(built.value)))

\* The result of the process: 0 only for a command that ran and said so.
ExitStatus(result) == IF result.ok /\ result.value THEN 0 ELSE 1

(***************************************************************************)
(* transform: the files of the output directory                            *)
(***************************************************************************)

\* A directory has files, by <<stem, extension>>; a stem is a sequence of the
\* parts between dots. A text is [json, layout]; json is None if it is not one.
JsonFile(stem) == <<stem, "json">>
NewFile(stem)  == <<stem, "json.new">>
Put(dir, file, text) == (file :> text) @@ dir
Without(dir, file)   == [f \in DOMAIN dir \ {file} |-> dir[f]]
Rename(dir, from, to) == Put(Without(dir, from), to, dir[from])

Pretty(json) == [json |-> json, layout |-> "pretty"]

\* The inputs are the files of the extensions of the parser, but for those the
\* command writes itself.
Extensions(parser) ==
    CASE parser = "auto" -> {"json", "jsonl", "csv", "xml", "yaml", "yml", "tap"}
      [] parser = "yaml" -> {"yaml", "yml"}
      [] OTHER -> {parser}

IsInput(file, parser) ==
    /\ file[2] \in Extensions(parser)
    /\ ~(file[2] = "json" /\ Last(file[1]) \in {"headers", "metadata"})

\* An event is [file, body, headers, metadata, valid]; without the file it came
\* from it is refused. The first one of a file is
\* written under its stem, each next one under the stem and a number.
OutputToJsonFile(args, out, event) ==
    LET seen  == IF event.file \in DOMAIN out.seen THEN out.seen[event.file] ELSE 0
        stem  == IF seen = 0 THEN event.file[1] ELSE Append(event.file[1], ToString(seen))
        body  == Put(out.dir, NewFile(stem), Pretty(event.body))
        heads == IF args.exportHeaders
                 THEN Put(body, NewFile(Append(stem, "headers")), Pretty(event.headers)) ELSE body
    IN  IF event.file = None THEN out
        ELSE
        [dir  |-> IF args.exportMetadata
                  THEN Put(heads, NewFile(Append(stem, "metadata")), Pretty(event.metadata))
                  ELSE heads,
         seen |-> (event.file :> (seen + 1) % CountWidth) @@ out.seen,
         failures |-> IF args.check /\ ~event.valid THEN (out.failures + 1) % CountWidth
                      ELSE out.failures]

\* The events of the inputs, in the order in which they come through the chain.
Outputs(args, dir, events) ==
    FoldLeft(LAMBDA out, event : OutputToJsonFile(args, out, event),
             [dir |-> dir, seen |-> <<>>, failures |-> 0], events)

StemsOf(dir, ext) == {f[1] : f \in {g \in DOMAIN dir : g[2] = ext}}

SameText(a, b) == IF a.json # None /\ b.json # None THEN a.json = b.json ELSE a = b

\* The stems where the files and the new files differ, and how.
FindDifferences(dir) ==
    LET old == StemsOf(dir, "json")
        new == StemsOf(dir, "json.new")
    IN  [missing    |-> old \ new,
         unexpected |-> new \ old,
         changed    |-> {s \in old \cap new : ~SameText(dir[JsonFile(s)], dir[NewFile(s)])}]

Differing(diff) == diff.missing \cup diff.unexpected \cup diff.changed

\* One difference, accepted or not.
ReviewOne(dir, diff, stem, accept) ==
    CASE stem \in diff.missing /\ accept  -> Without(dir, JsonFile(stem))
      [] stem \in diff.missing /\ ~accept -> dir
      [] stem \notin diff.missing /\ accept  -> Rename(dir, NewFile(stem), JsonFile(stem))
      [] OTHER -> Without(dir, NewFile(stem))

\* accepted has the stems of the differences that are answered with yes.
Review(dir, accepted) ==
    LET diff == FindDifferences(dir)
    IN  [dir |-> FoldSet(LAMBDA stem, d : ReviewOne(d, diff, stem, stem \in accepted),
                         dir, Differing(diff)),
         ok  |-> Differing(diff) \subseteq accepted]

Overwrite(dir) ==
    [dir |-> FoldSet(LAMBDA stem, d : Rename(d, NewFile(stem), JsonFile(stem)),
                     dir, StemsOf(dir, "json.new")),
     ok  |-> TRUE]

CheckFiles(dir) == [dir |-> dir, ok |-> Differing(FindDifferences(dir)) = {}]

RemoveNewFiles(dir) == [f \in {f \in DOMAIN dir : f[2] # "json.new"} |-> dir[f]]

\* args is [mode, check, exportHeaders, exportMetadata, keep].
AfterOutputs(args, dir, accepted) ==
    CASE args.mode = "review"    -> Review(dir, accepted)
      [] args.mode = "overwrite" -> Overwrite(dir)
      [] args.mode = "check"     -> CheckFiles(dir)

Transform(args, dir, events, accepted) ==
    LET out  == Outputs(args, dir, events)
        done == AfterOutputs(args, out.dir, accepted)
    IN  [dir |-> IF args.keep THEN done.dir ELSE RemoveNewFiles(done.dir),
         ok  |-> done.ok /\ out.failures = 0]

-----------------------------------------------------------------------------
(***************************************************************************)
(* A command does what it was asked                                        *)
(***************************************************************************)

SetPaths(args) == {args.set[i].path : i \in {i \in DOMAIN args.set : args.set[i] # None}}

\* Whatever the user's file and the environment say, and unless --set says
\* otherwise: with --url the events go there and are not printed; with --run
\* the source of that name is the one that runs, and its child's exit code
\* decides on the result.
SendAgrees(args, base, env, answer, patterns, local, world) ==
    LET Asked(path) == \A p \in SetPaths(args) : ~IsPrefix(p, path)
    IN  \A b \in Value(LoadConfig(args, base, env, answer)) :
        \A config \in Value(Build(b, patterns, local, world)) :
          /\ (args.url # None /\ Asked(<<"sinks", "http", "enabled">>)
                              /\ Asked(<<"sinks", "debug", "enabled">>)) =>
                EnabledIn(config.sinks) \cap {"http", "debug"} = {"http"}
          /\ (args.run # None /\ Asked(<<"sources", args.run, "enabled">>)
                              /\ Asked(<<"sources", "cli", "enabled">>)) =>
                EnabledIn(config.sources) \cap {"cli", args.run} = {args.run}
          /\ (args.run # None /\ config.sources[args.run].type = "subprocess") =>
                ExitStatus(Send(args, config, SomeOk(TRUE), 3)) = 1

\* Of a configuration that `config --check` accepts for connect, and that is
\* given to connect, everything can be started; of one it refuses, either the
\* whole or something that is configured is refused by connect as well.
CheckedStarts(arg, set, base, env, patterns, local, world) ==
    LET bases     == [connect |-> base, send |-> EmptyTable]
        Connected == UNION {Value(Build(b, patterns, local, world)) :
                               b \in Value(ConnectConfig(arg, <<>>, set, base, env, None))}
    IN  \A source \in Value(ResolveConfigSource(arg, <<>>, None)) :
          IF ExitStatus(ConfigCommand({"check"}, "connect", bases, source, env, set,
                                      patterns, local, world)) = 0
          THEN \E config \in Connected : Starts(config)
          ELSE \A config \in Connected : ~Check(config)

JsonFiles(dir) == [f \in {f \in DOMAIN dir : f[2] = "json"} |-> dir[f]]

\* A check and a review that accepts nothing leave the files as they are; after
\* a review that accepts everything, the same inputs pass a check -- in a
\* directory without new files left by an earlier run.
TransformAgrees(args, dir, events) ==
    LET Run(mode, on, accept) ==
            Transform([args EXCEPT !.mode = mode], on, events,
                      IF accept THEN Differing(FindDifferences(Outputs(args, on, events).dir))
                      ELSE {})
    IN  StemsOf(dir, "json.new") = {} =>
        \A reviewed \in {Run("review", dir, TRUE)} :
          /\ JsonFiles(Run("check", dir, TRUE).dir) = JsonFiles(dir)
          /\ JsonFiles(Run("review", dir, FALSE).dir) = JsonFiles(dir)
          /\ Run("check", reviewed.dir, TRUE).ok = reviewed.ok
          /\ \A s \in StemsOf(dir, "json") \ StemsOf(reviewed.dir, "json") :
                s \in FindDifferences(Outputs(args, dir, events).dir).missing
=============================================================================
