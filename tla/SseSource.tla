----------------------------- MODULE SseSource -----------------------------
(***************************************************************************)
(* The SSE source (sources/sse/mod.rs) and the event stream it reads       *)
(* (sources/sse/event_source). One task connects, forwards the messages,   *)
(* and reconnects after a failure with the id it last saw, within a budget *)
(* of consecutive failures.                                                *)
(*                                                                         *)
(* The server is external: it publishes numbered events, some without an   *)
(* id, and resumes a stream after the id of the last-event-id header; a    *)
(* connection without that header gets the events published from then on.  *)
(***************************************************************************)
EXTENDS Integers

CONSTANTS MaxRetries,  \* config.max_retries, 10 by default
          Identified,  \* the events published with an id
          Sendable,    \* those whose id is a valid header value (visible ASCII)
          Rejected,    \* the events the pipeline answers with an error
          MaxEvents    \* bound: events the server publishes

ASSUME SseAssumption ==
    /\ MaxRetries \in Nat
    /\ MaxEvents \in Nat
    /\ Identified \subseteq 1..MaxEvents /\ Sendable \subseteq Identified

VARIABLES
    published,  \* the server: events published so far
    pos,        \* the server: events sent, or skipped, on the connection
    pc,         \* the task: "connecting", "streaming", "failed", "waiting",
                \* "stopped", "aborted"
    lastId,     \* SseSourceState.last_event_id, 0 for the empty string
    streamId,   \* EventSource.last_event_id of the connection
    opened,     \* SseSourceState.opened
    retries,    \* n_past_retries
    delivered,  \* events handed to the pipeline
    repeated,   \* history: events handed over twice
    forgotten,  \* history: a position was replaced by the empty string, or not sent
    refusals    \* history: failures since a connection opened, that one excluded

serverVars  == <<published, pos>>
idVars      == <<lastId, streamId>>
historyVars == <<delivered, repeated, forgotten, refusals>>
vars == <<published, pos, pc, lastId, streamId, opened, retries, delivered,
          repeated, forgotten, refusals>>

Event == 1..MaxEvents
None  == 0                  \* the empty id

Init ==
    /\ published = 0 /\ pos = 0
    /\ pc = "connecting"
    /\ lastId = None /\ streamId = None
    /\ opened = FALSE /\ retries = 0
    /\ delivered = {} /\ repeated = {} /\ forgotten = FALSE /\ refusals = 0

Publish ==
    /\ published < MaxEvents
    /\ published' = published + 1
    /\ UNCHANGED <<pos, pc, idVars, opened, retries, historyVars>>

\* Where the server starts a stream.
StartOf(header) == IF header # None THEN header ELSE published

\* The last-event-id header of a request: an id that is no header value is left
\* out without a word.
Header == IF lastId \in Sendable THEN lastId ELSE None

\* A valid response: the server has read the header.
Open ==
    /\ pc = "connecting"
    /\ pc' = "streaming"
    /\ opened' = TRUE
    /\ pos' = StartOf(Header)
    /\ forgotten' = (forgotten \/ lastId # Header)
    /\ refusals' = 0
    /\ UNCHANGED <<published, idVars, retries, delivered, repeated>>

\* Fault: a message that is not forwarded is an error of the stream.
AfterRejected(e) == IF e \in Rejected THEN "failed" ELSE "streaming"

\* A message the pipeline refuses does not end the stream.
AfterForward(e) == "streaming"

\* Fault: the id is set from the message before.
TrackedLate(e) == IF e \in Identified /\ e - 1 \in Identified THEN e - 1 ELSE streamId

\* handle_event: a message without an id repeats the id before it.
Tracked(e) == IF e \in Identified THEN e ELSE streamId

Receive ==
    LET e == pos + 1 IN
    /\ pc = "streaming" /\ pos < published
    /\ pos' = e
    /\ streamId' = Tracked(e)
    /\ delivered' = delivered \cup {e}
    /\ repeated' = IF e \in delivered THEN repeated \cup {e} ELSE repeated
    /\ pc' = AfterForward(e)
    /\ UNCHANGED <<published, lastId, opened, retries, forgotten, refusals>>

\* Fault: only the first position is ever kept.
PositionKept == lastId

\* The position a failed connection leaves: what that connection saw.
Position == streamId

\* The request fails, the answer is no event stream, or the stream breaks.
Fail ==
    /\ pc \in {"connecting", "streaming"}
    /\ pc' = "failed"
    /\ lastId' = Position
    /\ forgotten' = (forgotten \/ (lastId # None /\ Position = None))
    /\ refusals' = IF pc = "connecting" THEN refusals + 1 ELSE refusals
    /\ UNCHANGED <<serverVars, streamId, opened, retries, delivered, repeated>>

\* The configured headers cannot be generated: no request is made.
HeadersFail ==
    /\ pc = "connecting"
    /\ pc' = "failed"
    /\ refusals' = refusals + 1
    /\ UNCHANGED <<serverVars, idVars, opened, retries, delivered, repeated, forgotten>>

\* Faults: the budget is for the lifetime; no budget.
PastForLife   == retries
SpentNever(n) == FALSE

\* The failures counted against the budget: a connection that opened clears them.
Past == IF opened THEN 0 ELSE retries

Spent(n) == n >= MaxRetries

\* should_retry
GiveUp ==
    /\ pc = "failed" /\ Spent(Past)
    /\ pc' = "stopped"
    /\ opened' = FALSE
    /\ retries' = Past
    /\ UNCHANGED <<serverVars, idVars, historyVars>>

Retry ==
    /\ pc = "failed" /\ ~Spent(Past)
    /\ pc' = "waiting"
    /\ opened' = FALSE
    /\ retries' = Past + 1
    /\ UNCHANGED <<serverVars, idVars, historyVars>>

\* The delay is over: a new EventSource, whose position is empty.
Reconnect ==
    /\ pc = "waiting"
    /\ pc' = "connecting"
    /\ streamId' = None
    /\ UNCHANGED <<serverVars, lastId, opened, retries, historyVars>>

\* Cancelled: the task is aborted at any await and releases the pipeline.
Cancel ==
    /\ pc \notin {"stopped", "aborted"}
    /\ pc' = "aborted"
    /\ UNCHANGED <<serverVars, idVars, opened, retries, historyVars>>

Task == Open \/ Receive \/ GiveUp \/ Retry \/ Reconnect
Failure == Fail \/ HeadersFail

Next == Publish \/ Task \/ Failure \/ Cancel

Spec == Init /\ [][Next]_vars

(***************************************************************************)
(* The task is polled, its delays end, and the server answers a request    *)
(* and sends what it has. Failures, publications and cancellation are free.*)
(***************************************************************************)
FairSpec == Spec /\ WF_vars(Task)
-----------------------------------------------------------------------------
TypeOK ==
    /\ published \in 0..MaxEvents /\ pos \in 0..published
    /\ pc \in {"connecting", "streaming", "failed", "waiting", "stopped", "aborted"}
    /\ lastId \in 0..published /\ streamId \in 0..published
    /\ opened \in BOOLEAN /\ retries \in 0..MaxRetries
    /\ delivered \in SUBSET Event /\ repeated \in SUBSET Event
    /\ forgotten \in BOOLEAN /\ refusals \in Nat

(***************************************************************************)
(* Reconnection resumes (handle_error: "reconnection is the caller's       *)
(* responsibility, using last_event_id to resume"): once a message with an *)
(* id was received, nothing published after it is skipped.                 *)
(***************************************************************************)
ResumesWhereItStopped ==
    \A e \in 1..pos : (\E i \in Identified \cap delivered : i < e) => e \in delivered

(***************************************************************************)
(* What holds of it: messages are skipped only after a connection that     *)
(* ended before it received a message with an id, or once the id to resume *)
(* from could not be put in a header.                                      *)
(***************************************************************************)
SkipsOnlyIfForgotten == ~forgotten => ResumesWhereItStopped

(***************************************************************************)
(* A message with an id reaches the pipeline once; only those without one  *)
(* are received again after a reconnection.                                *)
(***************************************************************************)
RepeatsOnlyUnidentified == repeated \cap Identified = {}

(***************************************************************************)
(* The retry budget is for consecutive failures: the source stops only     *)
(* after max_retries connection attempts in a row that did not open.       *)
(***************************************************************************)
GivesUpOnlyAfterBudget == pc = "stopped" => refusals >= MaxRetries

(***************************************************************************)
(* If the connections stop failing, the source catches up with the server, *)
(* whatever the pipeline refuses, unless it gave up before or is cancelled.*)
(***************************************************************************)
CatchesUp ==
    <>[][~Failure]_vars =>
        []<>(\/ pc \in {"stopped", "aborted"}
             \/ pc = "streaming" /\ pos = published)
=============================================================================
