------------------------------ MODULE Payloads ------------------------------
(***************************************************************************)
(* What a source makes of the content it reads: the parsers of strings     *)
(* (sources/parsers.rs, with the TAP reader of parsers/tap.rs), the ones of *)
(* the files source, which send events while they read (sources/opendal),  *)
(* and the ones of HTTP polling responses.                                 *)
(*                                                                         *)
(* A document is its lines and whether the last one is ended. A line is a  *)
(* sequence of tokens, with Blank for white space and "," between cells.   *)
(* What a whole text is worth in a format is external: Decoded[format] maps *)
(* the well-formed texts to their value. A value is a record: of a JSON    *)
(* array, the record of its items.                                         *)
(***************************************************************************)
EXTENDS Sequences, Integers, FiniteSets, SequencesExt, Functions

CONSTANTS
    None,    \* an absent Option; JSON null; metadata that is no object
    Blank,   \* white space
    Decoded  \* Decoded[format][text]: the value of a well-formed text

Parsers == {"auto", "json", "jsonl", "csv_row", "metadata", "xml", "yaml", "tap", "text",
            "text_line"}

Ok(v) == [ok |-> TRUE, value |-> v]
Err   == [ok |-> FALSE]

IsBlank(text) == \A i \in DOMAIN text : text[i] = Blank

Trim(text) ==
    LET solid == {i \in DOMAIN text : text[i] # Blank}
    IN  IF solid = {} THEN <<>>
        ELSE SubSeq(text, CHOOSE i \in solid : \A j \in solid : i <= j,
                          CHOOSE i \in solid : \A j \in solid : j <= i)

\* The longest prefix of a sequence whose elements all satisfy Test.
PrefixWhile(s, Test(_)) ==
    SubSeq(s, 1, CHOOSE n \in 0 .. Len(s) : /\ \A i \in 1 .. n : Test(s[i])
                                            /\ n = Len(s) \/ ~Test(s[n + 1]))

Null         == [null |-> TRUE]
Text(text)   == [text |-> text]
Array(items) == [array |-> items]
IsArray(v)   == "array" \in DOMAIN v

(***************************************************************************)
(* Texts of one value                                                      *)
(***************************************************************************)

\* Line ends are white space for these formats.
Whole(doc) == Trim(FlattenSeq(doc.lines))

Decode(format, text) ==
    IF Trim(text) \in DOMAIN Decoded[format] THEN Ok(Decoded[format][Trim(text)]) ELSE Err

ParseText(doc) == Ok(Text(doc.lines))
ParseJson(doc) == Decode("json", Whole(doc))
ParseXml(doc)  == Decode("xml", Whole(doc))
ParseYaml(doc) == Decode("yaml", Whole(doc))

(***************************************************************************)
(* Texts of several values: all of them, or none                           *)
(***************************************************************************)

ParseTextLine(doc) ==
    LET lines == SelectSeq(doc.lines, LAMBDA l : ~IsBlank(l))
    IN  Ok(Array([i \in DOMAIN lines |-> Text(Trim(lines[i]))]))

ParseJsonl(doc) ==
    LET lines == SelectSeq(doc.lines, LAMBDA l : ~IsBlank(l))
    IN  IF \A i \in DOMAIN lines : Decode("json", lines[i]).ok
        THEN Ok(Array([i \in DOMAIN lines |-> Decode("json", lines[i]).value]))
        ELSE Err

\* The csv reader (external): empty lines are no records, every record has as
\* many cells as the first one, which is the header.
Cells(text) ==
    FoldLeft(LAMBDA cells, t : IF t = "," THEN Append(cells, <<>>)
                               ELSE [cells EXCEPT ![Len(cells)] = Append(@, t)],
             << <<>> >>, text)

Records(doc) ==
    LET lines == SelectSeq(doc.lines, LAMBDA l : l # <<>>)
    IN  [i \in DOMAIN lines |-> Cells(lines[i])]

\* Of two columns of the same name the last one is kept.
CsvRow(header, record) ==
    [row |-> [h \in Range(header) |-> record[Last(SelectSeq([i \in DOMAIN header |-> i],
                                                   LAMBDA i : header[i] = h))]]]

ParseCsvRow(doc) ==
    LET records == Records(doc)
        header  == IF records = <<>> THEN <<>> ELSE Head(records)
        rows    == IF records = <<>> THEN <<>> ELSE Tail(records)
    IN  IF \A i \in DOMAIN rows : Len(rows[i]) = Len(header)
        THEN Ok(Array([i \in DOMAIN rows |-> CsvRow(header, rows[i])]))
        ELSE Err

(***************************************************************************)
(* The Test Anything Protocol. Its lines are sequences of words (white     *)
(* space between them); "  ---" and "  ..." are the words that open and    *)
(* close a diagnostics block.                                              *)
(***************************************************************************)

Number == {"1", "2", "3"}       \* the words that are digits
Statuses == {<<"ok">>, <<"not", "ok">>}

Ignorable(line) == IsBlank(line) \/ Head(line) = "#"

IsVersion(line) == Len(line) = 3 /\ SubSeq(line, 1, 2) = <<"TAP", "version">> /\ line[3] \in Number

IsPlan(line) == Len(line) = 1 /\ line[1] \in {"1..0", "1..2"}

\* A status needs a word after it to be one.
IsTest(line) == \E s \in Statuses : IsStrictPrefix(s, line)

\* "# SKIP reason" or "# TODO reason".
Directive(words) ==
    IF Len(words) >= 2 /\ words[1] = "#" /\ words[2] \in {"SKIP", "TODO"}
    THEN [kind |-> words[2], reason |-> SubSeq(words, 3, Len(words))]
    ELSE None

\* The number and the dash are ones only if a word follows; what comes after
\* the last "#" is a directive, or else part of the description.
TestLine(line) ==
    LET status == CHOOSE s \in Statuses : IsStrictPrefix(s, line)
        rest   == SubSeq(line, Len(status) + 1, Len(line))
        named  == Len(rest) > 1 /\ rest[1] \in Number
        words  == IF named THEN Tail(rest) ELSE rest
        text   == IF Len(words) > 1 /\ words[1] = "-" THEN Tail(words) ELSE words
        hashes == {i \in DOMAIN text : text[i] = "#"}
        last   == IF hashes = {} THEN Len(text) + 1
                  ELSE CHOOSE i \in hashes : \A j \in hashes : j <= i
        dir    == Directive(SubSeq(text, last, Len(text)))
    IN  [status      |-> status,
         number      |-> IF named THEN rest[1] ELSE None,
         description |-> IF dir = None THEN text ELSE SubSeq(text, 1, last - 1),
         directive   |-> dir]

\* The line that closes the block opened at line i, if there is both.
BlockEnd(lines, i) ==
    LET ends == {j \in i + 1 .. Len(lines) : lines[j] = <<"  ...">>}
    IN  IF i <= Len(lines) /\ lines[i] = <<"  ---">> /\ ends # {}
        THEN CHOOSE j \in ends : \A k \in ends : j <= k
        ELSE None

\* The line read after line i: a test takes the block after it along.
LineAfter(lines, i) ==
    IF IsTest(lines[i]) /\ BlockEnd(lines, i + 1) # None THEN BlockEnd(lines, i + 1) + 1 ELSE i + 1

\* A line that is nothing known is left out; one that is not ended is nothing.
ParseTapDocument(doc) ==
    LET lines == IF doc.terminated \/ doc.lines = <<>> THEN doc.lines ELSE Front(doc.lines)
        ReadFrom[i \in 1 .. Len(lines) + 1] ==
            IF i > Len(lines) THEN <<>> ELSE <<i>> \o ReadFrom[LineAfter(lines, i)]
        read  == SelectSeq(ReadFrom[1], LAMBDA i : ~Ignorable(lines[i]))
        plans == SelectSeq(read, LAMBDA i : IsPlan(lines[i]))
        tests == SelectSeq(read, LAMBDA i : IsTest(lines[i]))
        Diagnostics(i) ==
            LET end   == BlockEnd(lines, i + 1)
                value == Decode("yaml", FlattenSeq(SubSeq(lines, i + 2, end - 1)))
            IN  IF end # None /\ value.ok THEN value.value ELSE None
    IN  [version |-> IF read # <<>> /\ IsVersion(lines[Head(read)])
                     THEN lines[Head(read)][3] ELSE None,
         plan    |-> IF plans = <<>> THEN None ELSE lines[Head(plans)][1],
         tests   |-> [i \in DOMAIN tests |->
                         [test |-> TestLine(lines[tests[i]]), yaml |-> Diagnostics(tests[i])]]]

ParseTap(doc) == Ok(ParseTapDocument(doc))

(***************************************************************************)
(* The dispatcher of strings. An extension is in lower case, or None.      *)
(***************************************************************************)

ByExtension(ext) ==
    CASE ext \in {"xml", "jsonl", "yaml", "tap"} -> ext
      [] ext = "yml"            -> "yaml"
      [] ext = "csv"            -> "csv_row"
      [] ext \in {"txt", "log"} -> "text"
      [] OTHER                  -> "json"

ParseWithConfig(doc, config, ext) ==
    LET format == IF config = "auto" THEN ByExtension(ext) ELSE config
    IN  CASE format = "metadata"  -> Err
          [] format = "json"      -> ParseJson(doc)
          [] format = "jsonl"     -> ParseJsonl(doc)
          [] format = "csv_row"   -> ParseCsvRow(doc)
          [] format = "xml"       -> ParseXml(doc)
          [] format = "yaml"      -> ParseYaml(doc)
          [] format = "tap"       -> ParseTap(doc)
          [] format = "text"      -> ParseText(doc)
          [] format = "text_line" -> ParseTextLine(doc)

(***************************************************************************)
(* The events of one file: the bodies sent, and whether the file was read  *)
(* to its end. The bodies sent before an error stay sent.                  *)
(***************************************************************************)

Sent(bodies, ok) == [bodies |-> bodies, ok |-> ok]

One(result) == IF result.ok THEN Sent(<<result.value>>, TRUE) ELSE Sent(<<>>, FALSE)

\* The JSON, XML, YAML, TAP and text parsers.
JsonFile(doc) == One(ParseJson(doc))
XmlFile(doc)  == One(ParseXml(doc))
YamlFile(doc) == One(ParseYaml(doc))
TapFile(doc)  == One(ParseTap(doc))
TextFile(doc) == One(ParseText(doc))

\* Fault: a line that cannot be decoded is left out.
JsonlFileLenient(doc) ==
    LET good == SelectSeq(doc.lines, LAMBDA l : Decode("json", l).ok)
    IN  Sent([i \in DOMAIN good |-> Decode("json", good[i]).value], TRUE)

JsonlFile(doc) ==
    LET lines == SelectSeq(doc.lines, LAMBDA l : ~IsBlank(l))
        good  == PrefixWhile(lines, LAMBDA l : Decode("json", l).ok)
    IN  Sent([i \in DOMAIN good |-> Decode("json", good[i]).value], good = lines)

CsvRowFile(doc) ==
    LET records == Records(doc)
        header  == IF records = <<>> THEN <<>> ELSE Head(records)
        rows    == IF records = <<>> THEN <<>> ELSE Tail(records)
        good    == PrefixWhile(rows, LAMBDA r : Len(r) = Len(header))
    IN  Sent([i \in DOMAIN good |-> CsvRow(header, good[i])], good = rows)

\* White space around a line is kept, and a line of white space alone is one.
TextLineFile(doc) ==
    LET lines == SelectSeq(doc.lines, LAMBDA l : l # <<>>)
    IN  Sent([i \in DOMAIN lines |-> Text(lines[i])], TRUE)

\* A log file is read by line, where the string parser takes it whole.
AutoFile(doc, ext) ==
    CASE ext = "jsonl"          -> JsonlFile(doc)
      [] ext = "csv"            -> CsvRowFile(doc)
      [] ext = "xml"            -> XmlFile(doc)
      [] ext \in {"yaml", "yml"} -> YamlFile(doc)
      [] ext = "tap"            -> TapFile(doc)
      [] ext = "txt"            -> TextFile(doc)
      [] ext = "log"            -> TextLineFile(doc)
      [] OTHER                  -> JsonFile(doc)

\* The bodies of the parser that a configuration makes.
ParseFile(doc, config, ext) ==
    CASE config = "auto"      -> AutoFile(doc, ext)
      [] config = "metadata"  -> Sent(<<Null>>, TRUE)
      [] config = "json"      -> JsonFile(doc)
      [] config = "jsonl"     -> JsonlFile(doc)
      [] config = "csv_row"   -> CsvRowFile(doc)
      [] config = "xml"       -> XmlFile(doc)
      [] config = "yaml"      -> YamlFile(doc)
      [] config = "tap"       -> TapFile(doc)
      [] config = "text"      -> TextFile(doc)
      [] config = "text_line" -> TextLineFile(doc)

\* A metadata value that is an object takes what is known of the file in; any
\* other is left as it is.
ResourceMetadata(file) ==
    [k \in {"name", "path", "root"} \cup (IF file.modified = None THEN {} ELSE {"last_modified"}) |->
        IF k = "last_modified" THEN file.modified ELSE file[k]]

MergedMetadata(base, file) ==
    IF base = None THEN base
    ELSE [k \in DOMAIN base \cup DOMAIN ResourceMetadata(file) |->
             IF k \in DOMAIN ResourceMetadata(file) THEN ResourceMetadata(file)[k] ELSE base[k]]

\* The headers kept beside a file, in <path without extension>.headers.json:
\* only of a path with an extension, and only if they can be read and decoded.
LoadHeaders(stored, file) ==
    IF file.ext # None /\ file.base \in DOMAIN stored /\ stored[file.base].readable
    THEN stored[file.base].headers
    ELSE <<>>

(***************************************************************************)
(* The events of the command line (the CLI source)                         *)
(***************************************************************************)

\* What is read, or None: the data, the standard input ("@-"), or the file
\* named; the extension is known of a file only.
CliReader(data, stdin, files) ==
    CASE data.from = "argument" -> data.doc
      [] data.from = "stdin"    -> stdin
      [] data.from = "file"     -> IF data.path \in DOMAIN files THEN files[data.path] ELSE None

CliExtension(data) == IF data.from = "file" THEN data.ext ELSE None

NoData(doc) == \A i \in DOMAIN doc.lines : IsBlank(doc.lines[i])

\* Metadata that is an object gets the place of the item.
Indexed(base, i) ==
    IF base = None THEN base
    ELSE [k \in DOMAIN base \cup {"index"} |-> IF k = "index" THEN i - 1 ELSE base[k]]

\* An array gives one event per item, whatever the format; any other value one.
CliEvents(value, base) ==
    IF IsArray(value)
    THEN [i \in DOMAIN value.array |-> [body |-> value.array[i], metadata |-> Indexed(base, i)]]
    ELSE <<[body |-> value, metadata |-> base]>>

\* CliExtractor::run: blank data give no event, and a warning.
CliSends(doc, parsed, base) ==
    LET blank == doc # None /\ NoData(doc)
        read  == doc # None /\ ~blank /\ parsed.ok
    IN  [events |-> IF read THEN CliEvents(parsed.value, base) ELSE <<>>, ok |-> blank \/ read]

CliRun(data, stdin, files, config, base) ==
    LET doc == CliReader(data, stdin, files)
    IN  CliSends(doc, ParseWithConfig(doc, config, CliExtension(data)), base)

(***************************************************************************)
(* The bodies of an HTTP polling response                                  *)
(***************************************************************************)

AcceptHeader(parser) ==
    CASE parser = "auto"  -> <<"application/json", "application/x-ndjson", "text/plain">>
      [] parser = "json"  -> <<"application/json">>
      [] parser = "jsonl" -> <<"application/x-ndjson">>
      [] parser = "text"  -> <<"text/plain">>

ResolveParser(parser, contentType) ==
    CASE parser # "auto" -> parser
      [] contentType \in {"application/x-ndjson", "application/jsonl"} -> "jsonl"
      [] contentType = "text/plain" -> "text"
      [] OTHER -> "json"

\* An error gives no body at all.
ParseResponse(doc, parser) ==
    CASE parser = "json"  -> One(ParseJson(doc))
      [] parser = "text"  -> Sent(<<[string |-> doc.lines]>>, TRUE)
      [] parser = "jsonl" -> LET r == ParseJsonl(doc)
                             IN  IF r.ok THEN Sent(r.value.array, TRUE) ELSE Sent(<<>>, FALSE)

(***************************************************************************)
(* The report files of a subprocess, by the pattern that names them        *)
(***************************************************************************)

\* An absolute path without a wildcard is the file itself; anything else is
\* matched against the files below the working directory.
GlobMatches(pattern, below, existing) ==
    IF pattern.absolute /\ ~pattern.wildcard THEN {pattern.path} \cap existing
    ELSE IF ~pattern.valid THEN {} ELSE {f \in below : f \in pattern.matches}

-----------------------------------------------------------------------------
(***************************************************************************)
(* The readers of one format: a file, the command line, a response         *)
(***************************************************************************)

\* The command line takes a value that is an array apart. The lines of a JSONL
\* text are left whole by every reader.
Apart(format, bodies) ==
    IF format # "jsonl" /\ Len(bodies) = 1 /\ IsArray(bodies[1]) THEN bodies[1].array ELSE bodies

\* White space around the lines of a text is not told apart.
Shorn(bodies) ==
    LET Same(b) == IF "text" \in DOMAIN b THEN Text(Trim(b.text)) ELSE b
    IN  SelectSeq([i \in DOMAIN bodies |-> Same(bodies[i])], LAMBDA b : b # Text(<<>>))

\* Blank data are accepted by the command line, which sends nothing, while a JSON
\* or XML file is refused. Of any other text the command line sends what the file
\* does, in the same order, an array taken apart, and refuses what the file refuses.
\* Its events can be told apart if the metadata is an object.
CommandLineAgrees(doc, format, file, cli, base) ==
    LET sent == [i \in DOMAIN cli.events |-> cli.events[i].body]
        View(b) == IF format = "text_line" THEN Shorn(b) ELSE b
    IN  /\ NoData(doc) => /\ cli = [events |-> <<>>, ok |-> TRUE]
                          /\ format \in {"json", "xml"} => ~file.ok
        /\ ~NoData(doc) => /\ file.ok = cli.ok
                           /\ file.ok => View(Apart(format, file.bodies)) = View(sent)
        /\ base # None => IsInjective(cli.events)

\* A response gives the bodies of the file.
ResponseAgrees(response, file) ==
    response.ok = file.ok /\ (file.ok => response.bodies = file.bodies)

\* A line is the first that cannot be read: the file was sent up to it.
StopsAt(line, before, file) == before.ok /\ ~line.ok /\ file.bodies = before.value.array

\* What the readers of one text agree on, and where they differ; a file that is
\* refused gives the records of the lines before the bad one. Left out: the log
\* extension and the metadata parser.
ReadersAgree(doc, config, ext, base) ==
    LET format == IF config = "auto" THEN ByExtension(ext) ELSE config
        file == ParseFile(doc, config, ext)
        First(n) == ParseWithConfig([doc EXCEPT !.lines = SubSeq(@, 1, n)], config, ext)
    IN  /\ CommandLineAgrees(doc, format, file,
                CliRun([from |-> "file", path |-> "f", ext |-> ext], None, [f |-> doc], config, base),
                base)
        /\ format \in {"json", "jsonl"} => ResponseAgrees(ParseResponse(doc, format), file)
        /\ ~NoData(doc) /\ ~file.ok =>
              IF format \in {"jsonl", "csv_row"}
              THEN \E n \in DOMAIN doc.lines : StopsAt(First(n), First(n - 1), file)
              ELSE file.bodies = <<>>

\* A test result is reported once, in the order of the report, unless a block
\* of diagnostics that is opened before it is closed after it only.
TestsReported(doc) ==
    LET lines == doc.lines
        Tests == SelectSeq(lines, LAMBDA l : IsTest(l))
        Clear == \A i \in DOMAIN lines : lines[i] = <<"  ---">> =>
                    /\ i > 1 /\ IsTest(lines[i - 1])
                    /\ BlockEnd(lines, i) # None
                    /\ \A j \in i + 1 .. BlockEnd(lines, i) : ~IsTest(lines[j])
        tests == ParseTapDocument(doc).tests
    IN  doc.terminated /\ Clear =>
            [i \in DOMAIN tests |-> tests[i].test] = [i \in DOMAIN Tests |-> TestLine(Tests[i])]
=============================================================================
