--------------------------- MODULE Configuration ---------------------------
(***************************************************************************)
(* How the configuration of the collector is made: the layers it is merged *)
(* from, the files and remote files read into it (config/), the chains of  *)
(* transformers of its sources and sinks (transformers/mod.rs), and the    *)
(* sources and sinks that are started from it.                             *)
(*                                                                         *)
(* A TOML value is a record of one field: [str], [bool], [list] with a     *)
(* sequence of values, [table] with a function from keys to values, [uri]  *)
(* with <<remote, path>>, a string of the form remote:///path, or [lines],  *)
(* a string made of several ones.                                          *)
(***************************************************************************)
EXTENDS Sequences, Integers, TLC, SequencesExt, Functions

CONSTANTS
    None,        \* an absent Option
    Now,         \* the time at which the configuration is loaded
    FileKeys,    \* the keys that end in "_file", to the same without that
    RemoteKeys,  \* the keys that end in "_rfile", to the same without that
    Valid        \* the VRL programs that compile

IsTable(v)     == "table" \in DOMAIN v
Entry(v, key)  == IF IsTable(v) /\ key \in DOMAIN v.table THEN v.table[key] ELSE None
EmptyTable     == [table |-> <<>>]
TableAt(v, key) == IF Entry(v, key) = None THEN EmptyTable ELSE Entry(v, key)
IsTrue(v)      == v = [bool |-> TRUE]
SomeOk(values) == [ok |-> TRUE, value |-> values]
Failed         == [ok |-> FALSE]
Value(result)  == IF result.ok THEN {result.value} ELSE {}

\* TOML text is a sequence of lines, each of which sets the value at a path. It
\* refuses a path that is set twice, and a line that is no TOML: None.
Line(path, value) == <<[path |-> path, value |-> value]>>

RECURSIVE At(_, _)
At(path, value) ==
    IF path = <<>> THEN value ELSE [table |-> (Head(path) :> At(Tail(path), value))]

RECURSIVE Lookup(_, _)
Lookup(v, path) ==
    IF path = <<>> \/ v = None THEN v ELSE Lookup(Entry(v, Head(path)), Tail(path))

RECURSIVE Leaves(_)
Leaves(v) ==
    IF ~IsTable(v) THEN {<<>>}
    ELSE UNION {{<<k>> \o p : p \in Leaves(v.table[k])} : k \in DOMAIN v.table}

(***************************************************************************)
(* The source of the user's configuration                                  *)
(***************************************************************************)

\* An argument with the form of a URL of these schemes is one, any other is
\* the path of a file.
ConfigSource(arg) == IF arg.scheme \in {"http", "https"} THEN "url" ELSE "file"

\* One header without a colon refuses them all.
ParseConfigHeaders(raw) ==
    IF \E i \in DOMAIN raw : raw[i] = "no colon" THEN Failed ELSE SomeOk(raw)

\* The answer of the server is [status, doc].
FetchUrlConfig(headers, answer) ==
    IF ~headers.ok \/ answer = None \/ answer.status \notin 200 .. 299 THEN Failed
    ELSE SomeOk(answer.doc)

\* Headers are of no use, and are not looked at, for a file.
ResolveConfigSource(arg, headers, answer) ==
    IF arg = None THEN SomeOk([kind |-> "none", doc |-> None])
    ELSE IF ConfigSource(arg) = "file" THEN SomeOk([kind |-> "file", doc |-> arg.doc])
    ELSE LET fetched == FetchUrlConfig(ParseConfigHeaders(headers), answer)
         IN  IF fetched.ok THEN SomeOk([kind |-> "content", doc |-> fetched.value])
             ELSE Failed

(***************************************************************************)
(* The layers                                                              *)
(***************************************************************************)

\* Figment's merge: tables are joined, of anything else the later one stays.
RECURSIVE Merge(_, _)
Merge(below, above) ==
    IF ~(IsTable(below) /\ IsTable(above)) THEN above
    ELSE [table |-> [k \in DOMAIN below.table \cup DOMAIN above.table |->
            IF k \notin DOMAIN above.table THEN below.table[k]
            ELSE IF k \notin DOMAIN below.table THEN above.table[k]
            ELSE Merge(below.table[k], above.table[k])]]

ParseToml(lines) ==
    IF \E i, j \in DOMAIN lines : \/ lines[i] = None
                                  \/ i # j /\ lines[j] # None /\ lines[i].path = lines[j].path
    THEN Failed
    ELSE SomeOk(FoldLeft(LAMBDA doc, l : Merge(doc, At(l.path, l.value)), EmptyTable, lines))

\* The --set fragments are one document.
JoinTomlFragments(lines) == IF lines = <<>> THEN SomeOk(None) ELSE ParseToml(lines)

\* The command's own configuration, the user's file or the content of a URL,
\* the environment, the command's arguments, --set.
Layers(b) ==
    <<b.base, b.source.doc>> \o (IF b.enableEnv THEN <<b.env>> ELSE <<>>) \o <<b.cli, b.sets>>

BuildRawFigment(b) ==
    FoldLeft(Merge, EmptyTable, SelectSeq(Layers(b), LAMBDA l : l # None))

\* A value that is exactly "$now" is the time of the loading.
RECURSIVE SubstituteNow(_)
SubstituteNow(v) ==
    CASE v = [str |-> "$now"]  -> [str |-> Now]
      [] IsTable(v)            -> [table |-> [k \in DOMAIN v.table |-> SubstituteNow(v.table[k])]]
      [] "list" \in DOMAIN v   -> [list |-> [i \in DOMAIN v.list |-> SubstituteNow(v.list[i])]]
      [] OTHER                 -> v

RECURSIVE ContainsFileKey(_)
ContainsFileKey(v) ==
    CASE IsTable(v) -> \E k \in DOMAIN v.table :
                          k \in DOMAIN FileKeys \/ ContainsFileKey(v.table[k])
      [] "list" \in DOMAIN v -> \E i \in DOMAIN v.list : ContainsFileKey(v.list[i])
      [] OTHER -> FALSE

(***************************************************************************)
(* Files and remote files                                                  *)
(***************************************************************************)

\* A table where the keys that were read are replaced, each by the text read.
Expanded(t, suffixed, read) ==
    LET kept == DOMAIN t \ DOMAIN read
        made == {suffixed[k] : k \in DOMAIN read}
    IN  [k \in kept \cup made |->
            IF k \in made THEN [str |-> read[CHOOSE s \in DOMAIN read : suffixed[s] = k]]
            ELSE t[k]]

\* figment_file_provider_adapter: the contents of the local files.
RECURSIVE FileAdapter(_, _)
FileAdapter(v, local) ==
    IF ~IsTable(v) THEN v
    ELSE LET read == [k \in DOMAIN v.table \cap DOMAIN FileKeys |-> local[v.table[k].str]]
             here == Expanded(v.table, FileKeys, read)
         IN  [table |-> [k \in DOMAIN here |-> FileAdapter(here[k], local)]]

\* What a section of [remote] is opened with: a type with "://" as it stands;
\* for github, owner, repo and root make the address and the rest are parameters.
BuildOperator(remote) ==
    CASE remote.type = "uri"    -> SomeOk([address |-> <<"uri">>, parameters |-> remote.parameters])
      [] remote.type = "github" ->
            LET p == remote.parameters
            IN  IF ~({"owner", "repo"} \subseteq DOMAIN p) THEN Failed
                ELSE SomeOk([address |-> <<"github", p.owner, p.repo>>
                                 \o (IF "root" \in DOMAIN p /\ p.root # "" THEN <<p.root>> ELSE <<>>),
                             parameters |-> [k \in DOMAIN p \ {"owner", "repo", "root"} |-> p[k]]])
      [] OTHER -> SomeOk([address |-> <<remote.type>>, parameters |-> remote.parameters])

\* The sections of [remote], whose entries are all strings.
ExtractRemoteConfigs(doc) ==
    LET section == TableAt(doc, "remote").table
    IN  [r \in DOMAIN section |->
            [type       |-> Entry(section[r], "type").str,
             parameters |-> [k \in DOMAIN section[r].table \ {"type"} |-> section[r].table[k].str]]]

\* The text of a remote file, or None; world has the files of every address.
ReadRemoteFile(remote, path, world) ==
    LET operator == BuildOperator(remote)
    IN  IF ~operator.ok \/ operator.value.address \notin DOMAIN world THEN None
        ELSE LET files == world[operator.value.address]
             IN  IF path \in DOMAIN files THEN files[path] ELSE None

ReadReference(v, remotes, world) ==
    IF "uri" \notin DOMAIN v \/ v.uri[1] \notin DOMAIN remotes THEN None
    ELSE ReadRemoteFile(remotes[v.uri[1]], v.uri[2], world)

\* Every reference of the tables of a table, however deep; not those in lists.
RECURSIVE ProcessDict(_, _, _)
ProcessDict(v, remotes, world) ==
    IF ~IsTable(v) THEN SomeOk(v)
    ELSE LET read == [k \in DOMAIN v.table \cap DOMAIN RemoteKeys |->
                         ReadReference(v.table[k], remotes, world)]
             here == Expanded(v.table, RemoteKeys, read)
             sub  == [k \in DOMAIN here |-> ProcessDict(here[k], remotes, world)]
         IN  IF (\E k \in DOMAIN read : read[k] = None) \/ (\E k \in DOMAIN sub : ~sub[k].ok)
             THEN Failed
             ELSE SomeOk([table |-> [k \in DOMAIN sub |-> sub[k].value]])

\* The definitions of the remotes have served, and are no part of the result.
RemoteFileAdapter(doc, world) ==
    LET read == ProcessDict(doc, ExtractRemoteConfigs(doc), world)
    IN  IF ~read.ok THEN Failed
        ELSE SomeOk([table |-> [k \in DOMAIN read.value.table \ {"remote"} |-> read.value.table[k]]])

\* A configuration that came over the network must not name local files. The
\* files are read once, for the whole of the layers.
BuildFigment(b, local, world) ==
    LET doc == SubstituteNow(BuildRawFigment(b))
    IN  IF b.source.kind = "content" /\ ContainsFileKey(doc) THEN Failed
        ELSE RemoteFileAdapter(FileAdapter(doc, local), world)

(***************************************************************************)
(* Transformers                                                            *)
(***************************************************************************)

\* The settings of a transformer that can be read; those of vrl are a program,
\* those of the other types are not told apart.
IsTransformer(v) ==
    /\ Entry(v, "type") \in {[str |-> t] : t \in {"passthrough", "log", "deduplicate",
                                                  "discard_all", "vrl"}}
    /\ Entry(v, "type") = [str |-> "vrl"] => DOMAIN v.table = {"type", "template"}

MakeTransformer(config) ==
    Entry(config, "type") = [str |-> "vrl"] => Entry(config, "template").str \in Valid

Strings(v) == IF v = None THEN <<>> ELSE [i \in DOMAIN v.list |-> v.list[i].str]

\* The transformers that are referred to, in order; one that is not in the
\* pool refuses all of them.
ResolveRefs(refs, pool) ==
    IF \E i \in DOMAIN refs : refs[i] \notin DOMAIN pool THEN Failed
    ELSE SomeOk([i \in DOMAIN refs |-> [key |-> refs[i], config |-> pool[refs[i]]]])

\* A section's own transformers, keyed by their type, then the ones it refers to.
ResolveChain(section, pool) ==
    LET own   == IF Entry(section, "transformers") = None THEN <<>>
                 ELSE Entry(section, "transformers").list
        named == ResolveRefs(Strings(Entry(section, "transformer_refs")), pool)
    IN  IF ~named.ok \/ \E i \in DOMAIN own : ~IsTransformer(own[i]) THEN Failed
        ELSE SomeOk([i \in DOMAIN own |-> [key |-> Entry(own[i], "type").str, config |-> own[i]]]
                    \o named.value)

SpanName(named, index) == <<named.key, index>>

\* The pipes are made from the last to the first, each with the next one.
BuildTransformerChain(chain, terminal) ==
    FoldLeft(LAMBDA next, i :
                LET at == Len(chain) + 1 - i
                IN  IF ~next.ok \/ ~MakeTransformer(chain[at].config) THEN Failed
                    ELSE SomeOk(<<SpanName(chain[at], at - 1)>> \o next.value),
             SomeOk(<<terminal>>), [i \in 1 .. Len(chain) |-> i])

\* The variables VRL programs may read: the one list, of the last configuration
\* that was loaded. A pattern is the set of the names it matches; None is none.
SetAllowedEnvVars(patterns) ==
    IF \E i \in DOMAIN patterns : patterns[i] = None THEN Failed
    ELSE SomeOk(UNION {patterns[i] : i \in DOMAIN patterns})

GetEnvVar(allowed, env, name) == IF name \in allowed \cap DOMAIN env THEN SomeOk(env[name]) ELSE Failed

(***************************************************************************)
(* The configuration and what is started from it                           *)
(***************************************************************************)

Sections == {"sources", "sinks", "transformers", "http", "pipeline", "state", "vrl"}

\* The sinks that have transformers of their own.
SinkChain(section, pool) ==
    IF Entry(section, "type").str \in {"debug", "http"} THEN ResolveChain(section, pool)
    ELSE SomeOk(<<>>)

\* The type of a source; one without an extractor sleeps, and None is none.
ExtractorType(section) ==
    IF Entry(section, "extractor") = None THEN "sleep"
    ELSE IF Entry(Entry(section, "extractor"), "type") = None THEN None
    ELSE Entry(Entry(section, "extractor"), "type").str

\* The transformers of the pipeline come last in the chain of every source.
ResolveAll(doc, patterns) ==
    LET pool    == TableAt(doc, "transformers").table
        sources == TableAt(doc, "sources").table
        sinks   == TableAt(doc, "sinks").table
        common  == ResolveRefs(Strings(Entry(TableAt(doc, "pipeline"), "transformer_refs")), pool)
        ofSource == [s \in DOMAIN sources |-> ResolveChain(sources[s], pool)]
        ofSink   == [s \in DOMAIN sinks |-> SinkChain(sinks[s], pool)]
    IN  IF \/ ~(DOMAIN doc.table \subseteq Sections)
           \/ \E t \in DOMAIN pool : ~IsTransformer(pool[t])
           \/ ~SetAllowedEnvVars(patterns).ok
           \/ \E s \in DOMAIN sources : ~ofSource[s].ok \/ ExtractorType(sources[s]) = None
           \/ \E s \in DOMAIN sinks : ~ofSink[s].ok
           \/ ~common.ok
        THEN Failed
        ELSE SomeOk([pool    |-> pool,
                     common  |-> common.value,
                     allowed |-> SetAllowedEnvVars(patterns).value,
                     sources |-> [s \in DOMAIN sources |->
                                    [type    |-> ExtractorType(sources[s]),
                                     enabled |-> IsTrue(Entry(sources[s], "enabled")),
                                     chain   |-> ofSource[s].value \o common.value]],
                     sinks   |-> [s \in DOMAIN sinks |->
                                    [type    |-> Entry(sinks[s], "type").str,
                                     enabled |-> IsTrue(Entry(sinks[s], "enabled")),
                                     chain   |-> ofSink[s].value]]])

Build(b, patterns, local, world) ==
    IF b.source.kind = "file" /\ b.source.doc = None THEN Failed
    ELSE LET figment == BuildFigment(b, local, world)
         IN  IF figment.ok THEN ResolveAll(figment.value, patterns) ELSE Failed

EnabledIn(group) == {s \in DOMAIN group : group[s].enabled}

\* The pipes of the enabled sources, each ending at the queue with its own
\* default source; one that cannot be made stops the start.
MakeSources(config) ==
    [s \in EnabledIn(config.sources) |->
        BuildTransformerChain(config.sources[s].chain, <<"root_url", s>>)]

MakeSinks(config) ==
    [s \in EnabledIn(config.sinks) |-> BuildTransformerChain(config.sinks[s].chain, <<"sink", s>>)]

Starts(config) ==
    /\ \A s \in EnabledIn(config.sources) : MakeSources(config)[s].ok
    /\ \A s \in EnabledIn(config.sinks) : MakeSinks(config)[s].ok

\* `config --check`: everything that was resolved is compiled, enabled or not.
Check(config) ==
    LET compiled(chain) == \A i \in DOMAIN chain : MakeTransformer(chain[i].config)
    IN  /\ \A t \in DOMAIN config.pool : MakeTransformer(config.pool[t])
        /\ compiled(config.common)
        /\ \A s \in DOMAIN config.sources : compiled(config.sources[s].chain)
        /\ \A s \in DOMAIN config.sinks : compiled(config.sinks[s].chain)

-----------------------------------------------------------------------------
(***************************************************************************)
(* What is started is what was configured                                  *)
(***************************************************************************)

\* A value stays as the last layer that sets it gave it.
LastLayerWins(b) ==
    LET Touches(l, path) == \E p \in Leaves(l) : IsPrefix(p, path) \/ IsPrefix(path, p)
    IN  \A layers \in {SelectSeq(Layers(b), LAMBDA l : l # None)}, raw \in {BuildRawFigment(b)} :
        \A i \in DOMAIN layers : \A path \in Leaves(layers[i]) :
            (\A j \in i + 1 .. Len(layers) : ~Touches(layers[j], path)) =>
                Lookup(raw, path) = Lookup(layers[i], path)

\* A configuration that came over the network is built the same whatever the
\* local files hold; one that passes `config --check` can be started; the
\* transformers of the pipeline end the chain of every source, after its own
\* and the ones it refers to, and are in no sink's.
ConfigAgrees(b, patterns, local, otherLocal, world) ==
    /\ LastLayerWins(b)
    /\ b.source.kind = "content" =>
          Build(b, patterns, otherLocal, world) = Build(b, patterns, local, world)
    /\ \A config \in Value(Build(b, patterns, local, world)), raw \in {BuildRawFigment(b)} :
          /\ Check(config) => Starts(config)
          /\ \A s \in DOMAIN config.sources : IsSuffix(config.common, config.sources[s].chain)
          /\ \A s \in DOMAIN config.sinks : \A i \in DOMAIN config.sinks[s].chain :
                LET own == Lookup(raw, <<"sinks", s>>)
                    key == config.sinks[s].chain[i].key
                IN  \/ Contains(Strings(Entry(own, "transformer_refs")), key)
                    \/ \E t \in DOMAIN Entry(own, "transformers").list :
                          Entry(Entry(own, "transformers").list[t], "type").str = key
=============================================================================
