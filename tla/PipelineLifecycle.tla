------------------------- MODULE PipelineLifecycle -------------------------
(***************************************************************************)
(* The life of a pipeline, from its start to the exit of the process:      *)
(* PipelineBuilder::run (pipeline.rs), the creation and the tasks of the   *)
(* sinks and sources (sinks/mod.rs, sources/mod.rs,                        *)
(* sources/extractors.rs), the HTTP server with the webhooks and the       *)
(* streams of the SSE sinks (http.rs, sinks/sse.rs), the wrapped command   *)
(* of `send --run` (sources/subprocess) and the exit status (lib.rs,       *)
(* tools/send.rs).                                                         *)
(*                                                                         *)
(* What ends a pipeline is ownership: a sink stops when the last sender of *)
(* the queue is dropped, so the module follows who holds one. The queue    *)
(* has room for every message (MaxEvents); what happens when it has not is *)
(* the subject of EventQueue.                                              *)
(***************************************************************************)
EXTENDS Integers, FiniteSets

CONSTANTS
    Sink,        \* the sinks of the configuration
    SseSink,     \* those that serve a stream: get_routes is not None
    Source,      \* the sources of the configuration
    Kind,        \* Kind[x]: what the extractor of source x does, see Kinds
    Client,      \* clients that may open the stream of an SSE sink
    Post,        \* requests that may be posted to a webhook
    MaxEvents,   \* bound: the messages that are ever queued
    MaxPanics    \* bound: the tasks that panic

\* Sleep, Cli, Subprocess, Webhook, and "poll" for the extractors that run
\* until they are cancelled or fail (Kafka, Nats, Opendal, Sse, HttpPolling)
Kinds == {"sleep", "cli", "subprocess", "webhook", "poll"}

ASSUME LifecycleAssumption ==
    /\ IsFiniteSet(Sink) /\ IsFiniteSet(Source) /\ Sink \cap Source = {}
    /\ SseSink \subseteq Sink
    /\ Kind \in [Source -> Kinds]
    /\ \A x, y \in Source : Kind[x] = "subprocess" /\ Kind[y] = "subprocess" => x = y
    /\ Client \cap Post = {} /\ "server" \notin Sink \cup Source
    /\ MaxEvents \in Nat /\ MaxPanics \in Nat

VARIABLES
    serve,      \* enable_http_server: TRUE for connect, FALSE for send
    enabled,    \* the enabled sinks and sources
    pc,         \* where `run` is
    outcome,    \* what `run` returns
    task,       \* task[t]: the state of the task of a sink, a source, the server
    cancelled,  \* the shutdown token
    sent,       \* the messages ever queued
    base,       \* base[s]: the position at which sink s subscribed
    got,        \* got[s]: the position up to which s has handled the messages
    open,       \* open connections: posts being handled, clients streaming
    child,      \* the wrapped command
    code,       \* its exit status
    codeOut,    \* exit_code_out, what send_run reads
    panics      \* counts MaxPanics

runVars   == <<serve, enabled, pc, outcome>>
queueVars == <<sent, base, got>>
childVars == <<child, code, codeOut>>
vars == <<runVars, task, cancelled, queueVars, open, childVars, panics>>

Server   == "server"
Task     == Sink \cup Source \cup {Server}
Webhooks == {x \in Source : Kind[x] = "webhook"}

(***************************************************************************)
(* Who holds what.                                                         *)
(***************************************************************************)

Ended == {"ended", "failed", "panicked"}

\* The server owns its routes until every connection is closed. Without a
\* server the routes stay in the variables of `run` until it returns.
RoutesHeld == IF ~serve \/ task[Server] = "absent" THEN pc # "done"
              ELSE task[Server] \notin Ended

\* A sender of the queue: the builder until drop(self.tx); the pipe of a
\* source, moved into its task or into its route. The subprocess source drops
\* its pipe before it stores the exit code.
Holds(x) == \/ task[x] = "running" /\ ~(Kind[x] = "subprocess" /\ child = "closed")
            \/ task[x] = "route" /\ RoutesHeld

\* Fault: the builder's sender is not dropped.
SendersKept == {x \in Source : Holds(x)} \cup {"builder"}

Senders == {x \in Source : Holds(x)} \cup (IF pc \in {"join", "done"} THEN {} ELSE {"builder"})

\* A sender of the broadcast of the SSE sinks: the sink, the router, and every
\* open connection, each of which serves requests with a clone of the router.
SseSenders == {s \in SseSink : task[s] = "running"} \cup open
                \cup (IF task[Server] \in {"running", "draining"} THEN {Server} ELSE {})

\* Whether a sink or a source registered a route.
HasRoutes == \E t \in enabled : t \in SseSink \/ t \in Webhooks

\* Fault: the handles of the sources are dropped.
JoinedSinks == {t \in enabled : t \in Sink} \cup (IF serve /\ HasRoutes THEN {Server} ELSE {})

\* The handles `run` waits for. The server's is among them only if a route was
\* registered (has_handles_in_routes).
Joined == {t \in enabled : t \notin Webhooks} \cup (IF serve /\ HasRoutes THEN {Server} ELSE {})

Init ==
    /\ serve \in BOOLEAN /\ enabled \in SUBSET (Sink \cup Source)
    /\ pc = "sinks" /\ outcome = "none"
    /\ task = [t \in Task |-> "absent"]
    /\ cancelled = FALSE
    /\ sent = 0 /\ base = [s \in Sink |-> 0] /\ got = [s \in Sink |-> 0]
    /\ open = {}
    /\ child = "none" /\ code = 0 /\ codeOut = 0
    /\ panics = 0

(***************************************************************************)
(* PipelineBuilder::run                                                    *)
(***************************************************************************)

Return(o) == /\ pc' = "done" /\ outcome' = o
             /\ UNCHANGED <<serve, enabled>>

Goto(l) == pc' = l /\ UNCHANGED <<serve, enabled, outcome>>

\* One turn of the loop over the enabled sinks: from_config may fail, and the
\* `?` ends the run; else the task starts with a receiver of its own.
CreateSink(s) ==
    /\ pc = "sinks" /\ s \in enabled /\ task[s] = "absent"
    /\ \/ /\ task' = [task EXCEPT ![s] = "running"]
          /\ base' = [base EXCEPT ![s] = sent]
          /\ got' = [got EXCEPT ![s] = sent]
          /\ UNCHANGED runVars
       \/ Return("refused") /\ UNCHANGED <<task, base, got>>
    /\ UNCHANGED <<cancelled, sent, open, childVars, panics>>

\* NoSink unless a sink was started: one with a route has a task as well.
SinksCreated ==
    /\ pc = "sinks" /\ \A s \in enabled \cap Sink : task[s] # "absent"
    /\ IF enabled \cap Sink = {} THEN Return("refused") ELSE Goto("sources")
    /\ UNCHANGED <<task, cancelled, queueVars, open, childVars, panics>>

\* make: the pipe with its clone of the sender goes to a route or to a task
\* that runs at once. A creation that fails drops the pipe.
CreateSource(x) ==
    /\ pc = "sources" /\ x \in enabled /\ task[x] = "absent"
    /\ \/ /\ task' = [task EXCEPT ![x] = IF Kind[x] = "webhook" THEN "route" ELSE "running"]
          /\ UNCHANGED runVars
       \/ Return("refused") /\ UNCHANGED task
    /\ UNCHANGED <<cancelled, queueVars, open, childVars, panics>>

\* NoSource if there is no task, nor a route that somebody will serve.
SourcesCreated ==
    /\ pc = "sources" /\ \A x \in enabled \cap Source : task[x] # "absent"
    /\ IF enabled \cap Source \subseteq (IF serve THEN {} ELSE Webhooks)
       THEN Return("refused")
       ELSE Goto("server")
    /\ UNCHANGED <<task, cancelled, queueVars, open, childVars, panics>>

\* http::launch, only with enable_http_server
LaunchServer ==
    /\ pc = "server"
    /\ Goto("drop")
    /\ task' = IF serve THEN [task EXCEPT ![Server] = "starting"] ELSE task
    /\ UNCHANGED <<cancelled, queueVars, open, childVars, panics>>

DropSender ==
    /\ pc = "drop" /\ Goto("join")
    /\ UNCHANGED <<task, cancelled, queueVars, open, childVars, panics>>

\* TryJoinAll returns early for a panic only: the error of a task is the value
\* of its handle, looked at once all of them have ended.
JoinPanicked ==
    /\ pc = "join" /\ \E t \in Joined : task[t] = "panicked"
    /\ Return("panicked")
    /\ UNCHANGED <<task, cancelled, queueVars, open, childVars, panics>>

\* Fault: the results are not looked at.
JoinIgnored ==
    /\ pc = "join" /\ \A t \in Joined : task[t] \in {"ended", "failed"}
    /\ Return("ok")
    /\ UNCHANGED <<task, cancelled, queueVars, open, childVars, panics>>

JoinAll ==
    /\ pc = "join" /\ \A t \in Joined : task[t] \in {"ended", "failed"}
    /\ Return(IF \E t \in Joined : task[t] = "failed" THEN "failed" ELSE "ok")
    /\ UNCHANGED <<task, cancelled, queueVars, open, childVars, panics>>

\* handle_shutdown_signal, or a test that cancels the token
Signal ==
    /\ pc # "done" /\ ~cancelled /\ cancelled' = TRUE
    /\ UNCHANGED <<runVars, task, queueVars, open, childVars, panics>>

(***************************************************************************)
(* The tasks. They run until the process exits (pc = "done").              *)
(***************************************************************************)

Running(t) == pc # "done" /\ task[t] = "running"

\* The receive loop: a message whose send fails is logged and counts as handled.
Receive(s) ==
    /\ s \in Sink /\ Running(s) /\ got[s] < sent
    /\ got' = [got EXCEPT ![s] = @ + 1]
    /\ UNCHANGED <<runVars, task, cancelled, sent, base, open, childVars, panics>>

\* Fault: the sinks stop for the token.
CloseOnCancel(s) ==
    /\ s \in Sink /\ Running(s) /\ got[s] = sent /\ (cancelled \/ Senders = {})
    /\ task' = [task EXCEPT ![s] = "ended"]
    /\ UNCHANGED <<runVars, cancelled, queueVars, open, childVars, panics>>

\* RecvError::Closed once the queue is read: flush, then the task ends.
Close(s) ==
    /\ s \in Sink /\ Running(s) /\ got[s] = sent /\ Senders = {}
    /\ task' = [task EXCEPT ![s] = "ended"]
    /\ UNCHANGED <<runVars, cancelled, queueVars, open, childVars, panics>>

\* Fault: the bound is off by one.
QueueOver == sent <= MaxEvents /\ sent' = sent + 1 /\ UNCHANGED <<base, got>>

Queue == sent < MaxEvents /\ sent' = sent + 1 /\ UNCHANGED <<base, got>>

\* A source that collects while it runs.
Emit(x) ==
    /\ x \in Source /\ Running(x) /\ Kind[x] \in {"cli", "poll"}
    /\ Queue
    /\ UNCHANGED <<runVars, task, cancelled, open, childVars, panics>>

\* run() returns: the document is read, the token is cancelled, or an error.
\* A CLI source does not look at the token, Sleep looks at nothing else.
SourceEnds(x) ==
    /\ x \in Source /\ Running(x) /\ Kind[x] \in {"cli", "poll", "sleep"}
    /\ Kind[x] = "sleep" => cancelled
    /\ \E how \in {"ended", "failed"} :
         /\ how = "failed" => Kind[x] # "sleep"
         /\ task' = [task EXCEPT ![x] = how]
    /\ UNCHANGED <<runVars, cancelled, queueVars, open, childVars, panics>>

Panic(t) ==
    /\ t \in Sink \cup Source /\ Running(t) /\ panics < MaxPanics
    /\ task' = [task EXCEPT ![t] = "panicked"] /\ panics' = panics + 1
    /\ UNCHANGED <<runVars, cancelled, queueVars, open, childVars>>

(***************************************************************************)
(* SubprocessExtractor::run                                                *)
(***************************************************************************)

IsSubprocess(x) == x \in Source /\ Kind[x] = "subprocess" /\ Running(x)

\* The "started" event and the spawn; either may fail. The error of the event
\* counts with fail_on_collector_error, otherwise it is logged.
Spawn(x) ==
    /\ IsSubprocess(x) /\ child = "none"
    /\ \/ child' = "run" /\ (Queue \/ UNCHANGED queueVars) /\ UNCHANGED task
       \/ task' = [task EXCEPT ![x] = "failed"] /\ (Queue \/ UNCHANGED queueVars)
          /\ UNCHANGED child
    /\ UNCHANGED <<runVars, cancelled, open, code, codeOut, panics>>

\* The select: the child ends by itself, or is killed for the token (130).
ChildEnds(x) ==
    /\ IsSubprocess(x) /\ child = "run"
    /\ code' \in {0, 1} \cup (IF cancelled THEN {130} ELSE {})
    /\ child' = "exited"
    /\ UNCHANGED <<runVars, task, cancelled, queueVars, open, codeOut, panics>>

\* The "finished" event, refused by the pipe or not, then drop(self.next).
Finish(x) ==
    /\ IsSubprocess(x) /\ child = "exited"
    /\ child' = "closed"
    /\ Queue \/ UNCHANGED queueVars
    /\ UNCHANGED <<runVars, task, cancelled, open, code, codeOut, panics>>

StoreCode(x) ==
    /\ IsSubprocess(x) /\ child = "closed"
    /\ codeOut' = code
    /\ task' = [task EXCEPT ![x] = "ended"]
    /\ UNCHANGED <<runVars, cancelled, queueVars, open, child, code, panics>>

(***************************************************************************)
(* The HTTP server                                                         *)
(***************************************************************************)

Serving == pc # "done" /\ task[Server] = "running"

Bind ==
    /\ pc # "done" /\ task[Server] = "starting"
    /\ \E how \in {"running", "failed"} : task' = [task EXCEPT ![Server] = how]
    /\ UNCHANGED <<runVars, cancelled, queueVars, open, childVars, panics>>

\* A connection is accepted while the token is not cancelled. A client that
\* subscribes to the broadcast of a sink hears the messages from then on.
Accept(c) ==
    /\ Serving /\ c \notin open
    /\ \/ c \in Post /\ \E x \in Webhooks : task[x] = "route"
       \/ c \in Client /\ SseSink \cap enabled # {}
    /\ open' = open \cup {c}
    /\ UNCHANGED <<runVars, task, cancelled, queueVars, childVars, panics>>

\* The handler sends and answers; TimeoutLayer answers 408 instead if the body
\* or the handler takes too long, and a refused payload is not sent.
Answer(c) ==
    /\ pc # "done" /\ c \in open \cap Post
    /\ open' = open \ {c}
    /\ Queue \/ UNCHANGED queueVars
    /\ UNCHANGED <<runVars, task, cancelled, childVars, panics>>

\* A stream ends when the client leaves or when the broadcast is closed. The
\* timeout is for the response, not for its body.
Disconnect(c) ==
    /\ pc # "done" /\ c \in open \cap Client
    /\ open' = open \ {c}
    /\ UNCHANGED <<runVars, task, cancelled, queueVars, childVars, panics>>

BroadcastClosed(c) == SseSenders = {} /\ Disconnect(c)

\* with_graceful_shutdown: no new connection, then wait for the open ones.
GracefulShutdown ==
    /\ Serving /\ cancelled
    /\ task' = [task EXCEPT ![Server] = "draining"]
    /\ UNCHANGED <<runVars, cancelled, queueVars, open, childVars, panics>>

ServerEnds ==
    /\ pc # "done" /\ task[Server] = "draining" /\ open = {}
    /\ task' = [task EXCEPT ![Server] = "ended"]
    /\ UNCHANGED <<runVars, cancelled, queueVars, open, childVars, panics>>

(***************************************************************************)
(* The exit status of the process: an error is 1 (main returns it), and so *)
(* is a wrapped command that did not succeed (send_run).                   *)
(***************************************************************************)
WrapsCommand == ~serve /\ \E x \in enabled \cap Source : Kind[x] = "subprocess"

ExitStatus == IF outcome = "ok" /\ (WrapsCommand => codeOut = 0) THEN 0 ELSE 1

Run == \/ \E s \in Sink : CreateSink(s)
       \/ \E x \in Source : CreateSource(x)
       \/ SinksCreated \/ SourcesCreated \/ LaunchServer \/ DropSender
       \/ JoinPanicked \/ JoinAll

Next == \/ Run \/ Signal
        \/ \E s \in Sink : Receive(s) \/ Close(s)
        \/ \E x \in Source : \/ Emit(x) \/ SourceEnds(x)
                             \/ Spawn(x) \/ ChildEnds(x) \/ Finish(x) \/ StoreCode(x)
        \/ \E t \in Sink \cup Source : Panic(t)
        \/ Bind \/ GracefulShutdown \/ ServerEnds
        \/ \E c \in Post : Accept(c) \/ Answer(c)
        \/ \E c \in Client : Accept(c) \/ Disconnect(c)

Spec == Init /\ [][Next]_vars

\* The runtime runs every task that can go on. A CLI source ends with its
\* document, the others see the token at their next await; a child ends or is
\* killed; a request ends within the timeout. Nothing makes a client leave, a
\* command come to an end by itself, or a polling source stop.
Fairness ==
    /\ WF_vars(Run)
    /\ \A s \in Sink : WF_vars(Receive(s) \/ Close(s))
    /\ \A x \in Source :
         /\ WF_vars((cancelled \/ Kind[x] = "cli") /\ SourceEnds(x))
         /\ WF_vars(Spawn(x) \/ Finish(x) \/ StoreCode(x) \/ (cancelled /\ ChildEnds(x)))
    /\ WF_vars(Bind \/ GracefulShutdown \/ ServerEnds)
    /\ \A c \in Post : WF_vars(Answer(c))
    /\ \A c \in Client : WF_vars(BroadcastClosed(c))

FairSpec == Spec /\ Fairness

-----------------------------------------------------------------------------
\* Type invariant.
TypeOK ==
    /\ serve \in BOOLEAN /\ enabled \in SUBSET (Sink \cup Source)
    /\ pc \in {"sinks", "sources", "server", "drop", "join", "done"}
    /\ outcome \in {"none", "ok", "failed", "refused", "panicked"}
    /\ task \in [Task -> {"absent", "starting", "running", "route", "draining"} \cup Ended]
    /\ cancelled \in BOOLEAN
    /\ sent \in 0..MaxEvents /\ base \in [Sink -> 0..MaxEvents] /\ got \in [Sink -> 0..MaxEvents]
    /\ open \subseteq Client \cup Post
    /\ child \in {"none", "run", "exited", "closed"}
    /\ code \in {0, 1, 130} /\ codeOut \in {0, 1, 130}
    /\ panics \in 0..MaxPanics

\* When the process exits because its tasks have ended, with an error or not,
\* every sink has handled every message that was ever queued, those of the last
\* moments included: the sinks subscribe before the first source starts
\* (pipeline.rs:154), and leave the loop only when nobody can send any more.
NothingLeftBehind ==
    outcome \in {"ok", "failed"} =>
        \A s \in enabled \cap Sink : base[s] = 0 /\ got[s] = sent

\* The exit status of `send --run` is read when the child's is stored: status 0
\* means that the command ran and succeeded, and that its events were handled
\* (subprocess/mod.rs:167, tools/send.rs:284).
StatusIsTheChilds ==
    pc = "done" /\ WrapsCommand /\ ExitStatus = 0 => child = "closed" /\ code = 0

\* Success means that no part of the pipeline failed: the error of a task that
\* ended early, a port that could not be bound included, is not lost although
\* it is looked at only when all have ended (pipeline.rs:189).
SuccessMeansNoFailure ==
    outcome = "ok" => /\ \A t \in enabled : task[t] \in {"ended", "route"}
                      /\ serve /\ HasRoutes => task[Server] = "ended"

\* A signal ends the process, provided that the clients of the SSE sinks leave
\* and that there is no webhook without a server: a client's stream lasts as
\* long as its own connection keeps the broadcast open, and `run` itself keeps
\* the routes it does not serve (http.rs:161, pipeline.rs:169).
UnservedRoute == ~serve /\ \E x \in Webhooks : task[x] = "route"

CancelStops ==
    <>[](open \cap Client = {}) => (cancelled ~> (pc = "done" \/ UnservedRoute))

\* "The pipeline runs until all sources complete and disconnect from the
\* channel, which then causes sinks to stop naturally" (pipeline.rs:142): it
\* does not when a webhook is enabled beside the source of a `send`.
OneshotEnds ==
    (/\ pc = "join" /\ ~serve
     /\ \A x \in (enabled \cap Source) \ Webhooks : task[x] \in Ended) ~> pc = "done"

=============================================================================
