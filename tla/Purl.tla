------------------------------- MODULE Purl -------------------------------
(***************************************************************************)
(* The package URLs that VRL programs make of what a producer says of an   *)
(* artifact (transformers/vrl_purl.rs), and the identity of the event that *)
(* a body becomes (sources/mod.rs, cdevent_utils.rs).                      *)
(*                                                                         *)
(* A path is a sequence of segments. A purl is a record: type, namespace,  *)
(* name (a path: a producer may give several segments), version,           *)
(* qualifiers, a function from keys to values, of which repository_url is  *)
(* a path.                                                                 *)
(***************************************************************************)
EXTENDS Sequences, Integers, SequencesExt, Functions

CONSTANTS
    None,     \* null, an absent or an empty text
    Zero,     \* the id "0"
    Dotted,   \* the segments that contain a dot
    Word      \* the ids with punctuation, to what they are without it

Text(f) == [k \in {k \in DOMAIN f : f[k] # None} |-> f[k]]

(***************************************************************************)
(* From images, charts and repositories                                    *)
(***************************************************************************)

\* An image is [path, tag, digest]; the digest [algorithm, hex], an algorithm
\* that is not sha256 is kept behind one. Its first segment is the registry if
\* it has a dot or is localhost, else the registry is Docker Hub.
ParseOciImageToPurl(image) ==
    LET tag   == IF image.tag = None /\ image.digest = None THEN "latest" ELSE image.tag
        repo  == Front(image.path)
        place == CASE repo = <<>> -> <<"docker.io", "library">>
                   [] repo # <<>> /\ repo[1] \notin Dotted \cup {"localhost"} ->
                        <<"docker.io">> \o repo
                   [] OTHER -> repo
    IN  [type       |-> "oci",
         namespace  |-> None,
         name       |-> <<Last(image.path)>>,
         version    |-> CASE image.digest = None -> None
                          [] image.digest # None /\ image.digest.algorithm \in {"sha256", None} ->
                                <<"@sha256", image.digest.hex>>
                          [] OTHER -> <<"@sha256", image.digest.algorithm, image.digest.hex>>,
         qualifiers |-> Text([repository_url |-> place, tag |-> tag])]

\* A repository is [scheme, path]; one that is not reached over http is OCI.
IsOciRegistry(repo) == repo.scheme \notin {"http", "https"}

\* What comes before the last segment of the chart belongs to the repository.
ParseArgocdHelmToPurl(repo, chart, revision) ==
    IF IsOciRegistry(repo)
    THEN [type       |-> "oci",
          namespace  |-> None,
          name       |-> <<Last(chart)>>,
          version    |-> revision,
          qualifiers |-> [repository_url |-> repo.path \o Front(chart)]]
    ELSE [type       |-> "generic",
          namespace  |-> None,
          name       |-> chart,
          version    |-> revision,
          qualifiers |-> [download_url |-> repo, type |-> "helm"]]

\* A repository is [host, path]; one that only mentions the other in its path
\* is taken for it.
Mentions(repo, word) == repo.host = word \/ \E i \in DOMAIN repo.path : repo.path[i] = word

DetectGitPlatform(repo) ==
    CASE Mentions(repo, "github.com") -> "github"
      [] ~Mentions(repo, "github.com") /\ Mentions(repo, "bitbucket.org") -> "bitbucket"
      [] OTHER -> "generic"

\* The two segments behind the host; what comes after them is not looked at.
ExtractGitOwnerRepo(repo) ==
    IF Len(repo.path) < 2 THEN None ELSE [owner |-> repo.path[1], repo |-> repo.path[2]]

\* The path within the repository is None or "." for all of it.
ParseArgocdGitSourceToPurl(repo, path, revision) ==
    LET platform == DetectGitPlatform(repo)
        found    == ExtractGitOwnerRepo(repo)
        within   == IF path = "." THEN None ELSE path
    IN  [type       |-> platform,
         namespace  |-> IF platform # "generic" /\ found # None THEN found.owner ELSE None,
         name       |-> <<IF found # None THEN found.repo ELSE "unknown">>,
         version    |-> revision,
         qualifiers |-> Text(IF platform = "generic"
                             THEN [vcs_url |-> repo, type |-> "git", path |-> within]
                             ELSE [path |-> within])]

Located(qualifiers, place) ==
    [k \in DOMAIN qualifiers \cup {"repository_url"} |->
        IF k = "repository_url" THEN place ELSE qualifiers[k]]

\* The name of an OCI purl is one segment: those before it are moved to the
\* repository. A purl needs a type and a name.
PurlObjectToString(purl) ==
    IF purl.type = None \/ purl.name = <<>> THEN [ok |-> FALSE]
    ELSE LET prefix == Front(purl.name)
             q      == purl.qualifiers
             base   == IF "repository_url" \in DOMAIN q THEN q.repository_url ELSE <<>>
         IN  IF purl.type = "oci" /\ prefix # <<>>
             THEN [ok |-> TRUE,
                   purl |-> [purl EXCEPT !.name = <<Last(purl.name)>>,
                                         !.qualifiers = Located(q, base \o prefix)]]
             ELSE [ok |-> TRUE, purl |-> purl]

(***************************************************************************)
(* The functions of a VRL program. An argument is [bytes] or [object]; one *)
(* of another kind than the function takes fails the call, and with it the *)
(* program. An argument that may be left out is None.                      *)
(***************************************************************************)

Bytes(value)  == [bytes |-> value]
Object(value) == [object |-> value]
IsBytes(arg)  == "bytes" \in DOMAIN arg

PurlFromOciImage(image) ==
    IF IsBytes(image) THEN [ok |-> TRUE, value |-> Object(ParseOciImageToPurl(image.bytes))]
    ELSE [ok |-> FALSE]

PurlFromArgoCdHelm(repo, chart, revision) ==
    IF IsBytes(repo) /\ IsBytes(chart) /\ IsBytes(revision)
    THEN [ok |-> TRUE,
          value |-> Object(ParseArgocdHelmToPurl(repo.bytes, chart.bytes, revision.bytes))]
    ELSE [ok |-> FALSE]

PurlFromArgoCdGitSource(repo, path, revision) ==
    IF IsBytes(repo) /\ (path = None \/ IsBytes(path)) /\ IsBytes(revision)
    THEN [ok |-> TRUE,
          value |-> Object(ParseArgocdGitSourceToPurl(
                               repo.bytes, IF path = None THEN None ELSE path.bytes, revision.bytes))]
    ELSE [ok |-> FALSE]

PurlToString(purl) == IF IsBytes(purl) THEN [ok |-> FALSE] ELSE PurlObjectToString(purl.object)

(***************************************************************************)
(* From a body to an event                                                 *)
(***************************************************************************)

\* A body is [id, timestamp, source, rest]; metadata [source].
SetTimestampIfMissing(body, now) ==
    IF body.timestamp = None THEN [body EXCEPT !.timestamp = now] ELSE body

SetSourceIfMissing(body, metadata) ==
    IF body.source = None /\ metadata.source # None
    THEN [body EXCEPT !.source = metadata.source] ELSE body

\* The content identifier of a body, another one for every body.
Hash(body) == <<"cid", body>>

\* The hash is of the body without its id, whose timestamp and source are set.
SetIdZeroOrMissingToCid(body) ==
    IF body.id \in {None, Zero} THEN [body EXCEPT !.id = Hash([body EXCEPT !.id = None])] ELSE body

\* The characters of an id that are not letters or digits become one and the same.
SanitizeId(id) == IF id \in DOMAIN Word THEN Word[id] ELSE id

\* Without a source no event can be made of the body.
TryFrom(event, now) ==
    LET body == SetIdZeroOrMissingToCid(
                    SetSourceIfMissing(SetTimestampIfMissing(event.body, now), event.metadata))
    IN  IF body.source = None THEN [ok |-> FALSE]
        ELSE [ok |-> TRUE, body |-> [body EXCEPT !.id = SanitizeId(body.id)]]

\* What a sink makes of the event to run it through its own transformers.
MessageToEvent(message) ==
    [body |-> message.body, metadata |-> [source |-> None], headers |-> message.headers]

-----------------------------------------------------------------------------
(***************************************************************************)
(* One artifact, one name; one event, one id                               *)
(***************************************************************************)

\* The image with everything that is left to a default written out.
ExplicitPath(path) ==
    CASE Len(path) = 1 -> <<"docker.io", "library">> \o path
      [] Len(path) > 1 /\ path[1] \notin Dotted \cup {"localhost"} -> <<"docker.io">> \o path
      [] OTHER -> path

ExplicitDigest(digest) ==
    IF digest = None THEN None
    ELSE [digest EXCEPT !.algorithm = IF @ = None THEN "sha256" ELSE @]

Explicit(image) ==
    [path   |-> ExplicitPath(image.path),
     tag    |-> IF image.tag = None /\ image.digest = None THEN "latest" ELSE image.tag,
     digest |-> ExplicitDigest(image.digest)]

ImageUrl(image) == PurlToString(PurlFromOciImage(Bytes(image)).value).purl

ChartUrl(repo, chart, revision) ==
    PurlToString(PurlFromArgoCdHelm(Bytes(repo), Bytes(chart), Bytes(revision)).value).purl

\* Paths have segments, and images all of their fields.
IsPath(path) == path \in Seq(Range(path)) /\ path # <<>>

IsImage(image) ==
    /\ image = [path |-> image.path, tag |-> image.tag, digest |-> image.digest]
    /\ IsPath(image.path)
    /\ image.digest # None =>
          image.digest = [algorithm |-> image.digest.algorithm, hex |-> image.digest.hex]

IsRepository(repo) == repo = [scheme |-> repo.scheme, path |-> repo.path] /\ IsPath(repo.path)

\* Two images have one purl exactly when they are one artifact, whichever of
\* the defaults their names leave out; nor does it matter how the path of a
\* chart is split between its repository and its name, or whether the purl was
\* made here or comes with the whole path as its name. And what one function
\* gives the other takes: a repository and a path within it always make a purl.
OnePurlPerArtifact(imageA, imageB, repo, chart, revision) ==
    /\ (ImageUrl(imageA) = ImageUrl(imageB)) = (Explicit(imageA) = Explicit(imageB))
    /\ \A n \in 0 .. Len(chart) - 1 :
          LET front == SubSeq(chart, 1, n)
              rest  == SubSeq(chart, n + 1, Len(chart))
          IN  IsOciRegistry(repo) =>
                ChartUrl([repo EXCEPT !.path = @ \o front], rest, revision)
                  = ChartUrl(repo, chart, revision)
    /\ LET given == [type |-> "oci", namespace |-> None, name |-> chart, version |-> revision,
                     qualifiers |-> [repository_url |-> repo.path]]
       IN  IsOciRegistry(repo) => PurlToString(Object(given)).purl = ChartUrl(repo, chart, revision)
    /\ \A path \in {None, Bytes("."), Bytes("manifests")} :
          LET source == [host |-> Head(repo.path), path |-> Tail(repo.path) \o chart]
              purl   == PurlFromArgoCdGitSource(Bytes(source), path, Bytes(revision))
          IN  /\ PurlToString(purl.value).ok
              /\ purl = PurlFromArgoCdGitSource(Bytes(source),
                            IF path = Bytes(".") THEN None ELSE path, Bytes(revision))

IsBody(body) == body = [id |-> body.id, timestamp |-> body.timestamp, source |-> body.source,
                        rest |-> body.rest]

\* An event that is sent on to another collector is the same event there, at
\* any later time; an id that is left out is the same however it is left out,
\* and as long as the timestamp is given, whenever the body is received.
OneIdPerEvent(event, headers, now, later) ==
    LET made == TryFrom(event, now)
        As(id) == TryFrom([event EXCEPT !.body.id = id], now)
    IN  made.ok =>
          /\ TryFrom(MessageToEvent([body |-> made.body, headers |-> headers]), later) = made
          /\ As(None) = As(Zero)
          /\ event.body.timestamp # None => TryFrom(event, later) = made
=============================================================================
