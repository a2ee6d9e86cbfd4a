------------------------------ MODULE HttpPolling ------------------------------
(***************************************************************************)
(* The `http_polling` source: one poll drives a worklist of requests       *)
(* through at most MaxConcurrency fetches, and an outer loop moves the     *)
(* time window, honours rate limits and saves the checkpoint.  A fetch is  *)
(* a lazy future: its request leaves when the poll first awaits it.        *)
(*                                                                         *)
(* A request is a member of Request: Bootstrap is what the driver asks     *)
(* for first, Feeds[r] what it derives from r's response.  A window is the *)
(* interval of seconds (after, before].  An `Instant` is the time left     *)
(* until it, 0 once it passed or when it is `None`; Tick lets time pass.   *)
(***************************************************************************)
EXTENDS Integers, Sequences, Functions

CONSTANTS
    Request,          \* the request specs the driver can build
    Bootstrap,        \* the worklist of the bootstrap call
    Feeds,            \* what the driver derives from each response
    FeedsBack,        \* the requests routed to `feedback` or `both`
    Emits,            \* the requests routed to `pipeline` or `both`
    Status,           \* the HTTP statuses the server answers with
    OnStatus,         \* configured policy: exact codes and classes (4 is "4xx")
    MaxConcurrency, MaxRequests, MaxDepth,
    MinInterval,      \* min_request_interval, 0 for none
    PollingInterval,
    MaxRateLimitWait, \* MAX_RATE_LIMIT_WAIT
    StartTs,          \* the configured ts_after
    Limit,            \* ts_before_limit, 0 for none
    MaxReset,         \* bound: the furthest x-ratelimit-reset, in seconds
    MaxNow,           \* bound: the wall clock stops there (timers do not)
    MaxRestarts       \* bound: restarts of the process

Behavior == {"skip", "hold", "retry", "abort"}

ASSUME DriverAssumption ==
    /\ Bootstrap \in Seq(Request)
    /\ Feeds \in [Request -> Seq(Request)]
    /\ FeedsBack \subseteq Request
    /\ Emits \subseteq Request

ASSUME LimitsAssumption ==
    /\ Status \subseteq 100..599
    /\ OnStatus \in [DOMAIN OnStatus -> Behavior]
    /\ MaxConcurrency \in Nat \ {0}   \* max_concurrency.max(1)
    /\ MaxRequests \in Nat /\ MaxDepth \in Nat
    /\ MinInterval \in Nat /\ PollingInterval \in Nat /\ MaxRateLimitWait \in Nat
    /\ StartTs \in Nat /\ Limit \in Nat
    /\ MaxReset \in Nat /\ MaxRestarts \in Nat
    /\ MaxNow \in Nat \ {0}

VARIABLES
    now,              \* the wall clock, in seconds
    pc,               \* where `run` and `run_once` are
    filter,           \* the time window [after, before]
    saved,            \* the checkpoint file; StartTs while there is none
    rateLimitedUntil, \* the extractor's rate_limited_until
    nextAllowed,      \* the poll's next_allowed
    queue,            \* the poll's worklist
    inflight,         \* the fetches under way, with the answer each has got
    issued, progressed,
    sleeping,         \* what is left of the sleep between two polls
    cancelled,        \* the cancellation token
    restarts,
    (* history *)
    handled,          \* requests of this poll whose 2xx response was handled
    gaveUp,           \* this poll dropped something, with a warning (log_errors)
    owed,             \* what is left of the longest pause the upstream asked for
    spacing,          \* what is left of MinInterval since a request last left
    covered,          \* <<what a poll without a drop handled, second of its window>>
    excused           \* seconds advanced past by a poll that gave up on something

loopVars == <<pc, filter, saved, rateLimitedUntil, sleeping>>
pollVars == <<nextAllowed, queue, inflight, issued, progressed>>
history  == <<handled, gaveUp, owed, spacing, covered, excused>>
vars == <<now, loopVars, pollVars, cancelled, restarts, history>>

Task == [spec : Request, depth : Nat]
(* A fetch nobody has polled is Queued, its request not sent.  The answer of *)
(* a fetch: `exhausted` is x-ratelimit-remaining: 0 with a reset in the       *)
(* future when the server answered, `resetIn` the time left to that reset.   *)
Response == [status : Status, exhausted : BOOLEAN, resetIn : 0..MaxReset]
Queued == [kind |-> "queued"]
Pending == [kind |-> "pending"]
Failed == [kind |-> "failed"]
Answered(r) == [kind |-> "answered", response |-> r]
Answer == {Queued, Pending, Failed} \cup {Answered(r) : r \in Response}

Larger(a, b) == IF a > b THEN a ELSE b
Smaller(a, b) == IF a < b THEN a ELSE b
Without(s, i) == SubSeq(s, 1, i - 1) \o SubSeq(s, i + 1, Len(s))

(* TimeWindowFilter with compute_ts_before: up to now less the margin,       *)
(* capped at the limit.                                                      *)
Window(after) ==
    [after |-> after,
     before |-> IF Limit # 0 /\ now - 1 > Limit THEN Limit ELSE now - 1]
AtLimit == Limit # 0 /\ filter.after >= Limit

(* StatusPolicy::resolve: exact code, then class, then the defaults. *)
Resolve(status) ==
    CASE status \in DOMAIN OnStatus -> OnStatus[status]
      [] status \notin DOMAIN OnStatus /\ status \div 100 \in DOMAIN OnStatus
            -> OnStatus[status \div 100]
      [] OTHER -> IF status \in {401, 403} THEN "abort"
                  ELSE IF status >= 500 THEN "hold" ELSE "skip"

(* driver_tasks: the driver's requests as worklist tasks. *)
Tasks(specs, depth) == [i \in DOMAIN specs |-> [spec |-> specs[i], depth |-> depth]]

---------------------------------------------------------------------------
(* The constructor, and `run` up to its loop. *)
Init ==
    /\ now \in 1..MaxNow
    /\ pc = "check" /\ filter = Window(StartTs) /\ saved = StartTs
    /\ rateLimitedUntil = 0 /\ sleeping = 0
    /\ nextAllowed = 0 /\ queue = <<>> /\ inflight = <<>>
    /\ issued = 0 /\ progressed = 0
    /\ cancelled = FALSE /\ restarts = 0
    /\ handled = {} /\ gaveUp = FALSE
    /\ owed = 0 /\ spacing = 0 /\ covered = {} /\ excused = {}

Sooner(t) == IF t = 0 THEN 0 ELSE t - 1
SoonerAnswer(a) == IF a.kind = "answered"
                   THEN [a EXCEPT !.response.resetIn = Sooner(@)] ELSE a

(* A second passes, whatever the source is doing. *)
Tick ==
    /\ now' = Smaller(now + 1, MaxNow)
    /\ rateLimitedUntil' = Sooner(rateLimitedUntil)
    /\ nextAllowed' = Sooner(nextAllowed)
    /\ sleeping' = Sooner(sleeping)
    /\ owed' = Sooner(owed) /\ spacing' = Sooner(spacing)
    /\ inflight' = [i \in DOMAIN inflight |->
                        [inflight[i] EXCEPT !.answer = SoonerAnswer(@)]]
    /\ UNCHANGED <<pc, filter, saved, queue, issued, progressed, cancelled, restarts,
                   handled, gaveUp, covered, excused>>

(* The pipeline shuts down. *)
Cancel ==
    /\ ~cancelled
    /\ cancelled' = TRUE
    /\ UNCHANGED <<now, loopVars, pollVars, restarts, history>>

(* The process ends at any step and starts again later. It finds the         *)
(* checkpoint, or cannot read it and starts from the configured ts_after.    *)
Restart ==
    /\ restarts < MaxRestarts
    /\ restarts' = restarts + 1
    /\ \E after \in {saved, StartTs} : filter' = Window(after)
    /\ pc' = "check" /\ rateLimitedUntil' = 0 /\ sleeping' = 0
    /\ nextAllowed' = 0 /\ queue' = <<>> /\ inflight' = <<>>
    /\ issued' = 0 /\ progressed' = 0 /\ cancelled' = FALSE
    /\ handled' = {} /\ gaveUp' = FALSE /\ owed' = 0 /\ spacing' = 0
    /\ UNCHANGED <<now, saved, covered, excused>>

---------------------------------------------------------------------------
(* `run`: the top of its loop. The locals of `run_once` go with it. *)
PollReturns(to) ==
    /\ pc' = to
    /\ nextAllowed' = 0 /\ queue' = <<>> /\ inflight' = <<>>
    /\ issued' = 0 /\ progressed' = 0
    /\ handled' = {} /\ gaveUp' = FALSE

Stop ==
    /\ PollReturns("stopped")
    /\ UNCHANGED <<now, filter, saved, rateLimitedUntil, sleeping, cancelled,
                   restarts, owed, spacing, covered, excused>>

StopCancelled == pc \in {"check", "throttle"} /\ cancelled /\ Stop

(* The wait for a rate limit to reset. *)
Throttle ==
    /\ pc = "check" /\ ~cancelled /\ rateLimitedUntil > 0
    /\ pc' = "throttle"
    /\ UNCHANGED <<now, filter, saved, rateLimitedUntil, sleeping, pollVars,
                   cancelled, restarts, history>>

(* Fault: the loop does not test the token. *)
ReadyAnyway == pc \in {"check", "throttle"} /\ rateLimitedUntil = 0

ReadyToPoll == \/ pc = "check" /\ ~cancelled /\ rateLimitedUntil = 0
               \/ pc = "throttle" /\ rateLimitedUntil = 0

StopAtLimit == ReadyToPoll /\ AtLimit /\ Stop

(* The bootstrap call seeds the worklist, and takes a pending pause along. *)
StartPoll ==
    /\ ReadyToPoll /\ ~AtLimit
    /\ pc' = "poll"
    /\ queue' = Tasks(Bootstrap, 0)
    /\ nextAllowed' = rateLimitedUntil /\ rateLimitedUntil' = 0
    /\ UNCHANGED <<now, filter, saved, sleeping, inflight, issued, progressed,
                   cancelled, restarts, history>>

BootstrapFails ==
    /\ ReadyToPoll /\ ~AtLimit
    /\ pc' = "idle" /\ sleeping' = PollingInterval
    /\ UNCHANGED <<now, filter, saved, rateLimitedUntil, pollVars, cancelled,
                   restarts, history>>

(* The cancellation branch of the `select!` around a poll. *)
DropPoll == pc \in {"poll", "pause"} /\ cancelled /\ Stop

---------------------------------------------------------------------------
(* `run_once`: filling the slots from the worklist. *)
OutOfPoll == <<now, filter, saved, rateLimitedUntil, sleeping, cancelled, restarts,
               spacing, covered, excused>>

(* Fault: one fetch too many. *)
FillingOver == pc = "poll" /\ Len(inflight) <= MaxConcurrency /\ queue # <<>>

Filling == pc = "poll" /\ Len(inflight) < MaxConcurrency /\ queue # <<>>
Spent == issued >= MaxRequests

Push(task) ==
    /\ inflight' = Append(inflight, [task |-> task, answer |-> Queued])
    /\ nextAllowed' = MinInterval
    /\ queue' = Tail(queue)
    /\ pc' = "poll"

(* The head of the worklist is issued and gets a slot at once... *)
Issue ==
    /\ Filling /\ ~Spent /\ nextAllowed = 0
    /\ issued' = issued + 1
    /\ Push(Head(queue))
    /\ UNCHANGED <<OutOfPoll, progressed, handled, gaveUp, owed>>

(* Fault: a request issued after a pause is not counted. *)
PauseUncounted ==
    /\ Filling /\ ~Spent /\ nextAllowed > 0
    /\ pc' = "pause"
    /\ UNCHANGED <<OutOfPoll, pollVars, handled, gaveUp, owed>>

(* ...or after a sleep inside `run_once`, during which no fetch is polled:   *)
(* the answers of the others wait. The task in hand is the worklist's head.  *)
Pause ==
    /\ Filling /\ ~Spent /\ nextAllowed > 0
    /\ issued' = issued + 1
    /\ pc' = "pause"
    /\ UNCHANGED <<OutOfPoll, nextAllowed, queue, inflight, progressed,
                   handled, gaveUp, owed>>

IssueAfterPause ==
    /\ pc = "pause" /\ nextAllowed = 0
    /\ Push(Head(queue))
    /\ UNCHANGED <<OutOfPoll, issued, progressed, handled, gaveUp, owed>>

BudgetReached ==
    /\ Filling /\ Spent
    /\ queue' = <<>>
    /\ gaveUp' = TRUE
    /\ UNCHANGED <<OutOfPoll, pc, nextAllowed, inflight, issued, progressed,
                   handled, owed>>

---------------------------------------------------------------------------
(* `inflight.next()`, once the slots are filled: the futures are polled in   *)
(* the order in which they were pushed or woken, until one is ready, which   *)
(* is taken. The first poll of a fetch sends its request.                    *)
Awaiting == pc = "poll" /\ ~Filling

Fetching == <<now, loopVars, nextAllowed, queue, issued, progressed, cancelled,
              restarts, handled, gaveUp, owed, covered, excused>>

Leave(i) ==
    /\ Awaiting /\ inflight[i].answer = Queued
    /\ \A j \in 1..i - 1 : inflight[j].answer # Queued
    /\ inflight' = [inflight EXCEPT ![i].answer = Pending]
    /\ spacing' = MinInterval
    /\ UNCHANGED Fetching

(* The upstream answers a request, or the fetch fails: no connection, a body *)
(* that cannot be read, the request timeout. The timeout also overtakes an   *)
(* answer nobody has polled.                                                 *)
ServerAnswers(i) ==
    /\ inflight[i].answer = Pending
    /\ \E status \in Status, reset \in 0..MaxReset :
          inflight' = [inflight EXCEPT ![i].answer = Answered(
              [status |-> status, exhausted |-> reset > 0, resetIn |-> reset])]
    /\ UNCHANGED <<Fetching, spacing>>

FetchFails(i) ==
    /\ inflight[i].answer \notin {Queued, Failed}
    /\ inflight' = [inflight EXCEPT ![i].answer = Failed]
    /\ UNCHANGED <<Fetching, spacing>>

TransportFailure(i) ==
    /\ Awaiting /\ inflight[i].answer = Failed
    /\ inflight' = Without(inflight, i)
    /\ gaveUp' = TRUE
    /\ UNCHANGED <<OutOfPoll, pc, nextAllowed, queue, issued, progressed,
                   handled, owed>>

Resp(i) == inflight[i].answer.response
Success(i) == Resp(i).status \in 200..299

(* rate_limit_reset_in: a budget spent until a reset still to come. *)
RateLimited(i) == Resp(i).resetIn > 0

PauseFor(i) == IF RateLimited(i)
               THEN Smaller(Resp(i).resetIn + 1, MaxRateLimitWait) ELSE 0

(* Fault: a response that asks for no pause clears the one under way. *)
PauseOverwritten(i) ==
    /\ nextAllowed' = PauseFor(i)
    /\ rateLimitedUntil' = PauseFor(i)
    /\ owed' = Larger(owed, PauseFor(i))

ApplyRateLimitPause(i) ==
    /\ nextAllowed' = Larger(nextAllowed, PauseFor(i))
    /\ rateLimitedUntil' = Larger(rateLimitedUntil, PauseFor(i))
    /\ owed' = Larger(owed, PauseFor(i))

(* A response is received, whatever its status. *)
Responded(i) == Awaiting /\ inflight[i].answer.kind = "answered"

Received(i) ==
    /\ Responded(i)
    /\ ApplyRateLimitPause(i)
    /\ inflight' = Without(inflight, i)
    /\ UNCHANGED <<now, pc, filter, saved, sleeping, cancelled, restarts, issued,
                   spacing, covered, excused>>

(* Fault: the refused request is left out of the worklist. *)
RefusedDropped(i) ==
    /\ Received(i) /\ ~Success(i) /\ RateLimited(i)
    /\ UNCHANGED <<queue, progressed, handled, gaveUp>>

(* A refusal for the rate limit: the task goes back to the front. *)
Refused(i) ==
    /\ Received(i) /\ ~Success(i) /\ RateLimited(i)
    /\ queue' = <<inflight[i].task>> \o queue
    /\ UNCHANGED <<progressed, handled, gaveUp>>

(* Any other non-2xx response is left to the status policy. *)
Judged(i) == Responded(i) /\ ~Success(i) /\ ~RateLimited(i)
Verdict(i) == Resolve(Resp(i).status)

Skipped(i) ==
    /\ Judged(i) /\ Verdict(i) = "skip" /\ Received(i)
    /\ progressed' = progressed + 1
    /\ gaveUp' = TRUE
    /\ UNCHANGED <<queue, handled>>

Held(i) ==
    /\ Judged(i) /\ Verdict(i) \in {"hold", "retry"} /\ Received(i)
    /\ gaveUp' = TRUE
    /\ UNCHANGED <<queue, progressed, handled>>

(* The source stops; the other fetches are dropped. *)
Aborted(i) == Judged(i) /\ Verdict(i) = "abort" /\ Stop

(* A 2xx response is emitted and fed back to the driver. Its body may not    *)
(* parse, the pipeline may refuse an event, the driver may fail: each is     *)
(* logged and the poll goes on.                                              *)
TooDeep(task) == task.depth >= MaxDepth
Feedback(task) == IF task.spec \notin FeedsBack \/ TooDeep(task) THEN <<>>
                  ELSE Tasks(Feeds[task.spec], task.depth + 1)

(* Fault: a 2xx response that spent the rate limit is asked again too. *)
SucceededAgain(i) ==
    LET task == inflight[i].task IN
    /\ Received(i) /\ Success(i)
    /\ progressed' = progressed + 1
    /\ handled' = handled \cup {task.spec}
    /\ queue' = (IF RateLimited(i) THEN <<task>> ELSE <<>>) \o queue \o Feedback(task)
    /\ UNCHANGED gaveUp

Succeeded(i) ==
    LET task == inflight[i].task IN
    /\ Received(i) /\ Success(i)
    /\ progressed' = progressed + 1
    /\ handled' = handled \cup {task.spec}
    /\ \E eventLost \in {FALSE, task.spec \in Emits},
          driverFails \in {FALSE, task.spec \in FeedsBack /\ ~TooDeep(task)} :
          /\ queue' = IF driverFails THEN queue ELSE queue \o Feedback(task)
          /\ gaveUp' = (gaveUp \/ eventLost \/ driverFails
                               \/ (task.spec \in FeedsBack /\ TooDeep(task)))

---------------------------------------------------------------------------
(* The end of a poll, and what `run` does with its outcome. *)
Drained == Awaiting /\ inflight = <<>>
NoProgress == issued > 0 /\ progressed = 0

HoldPoll ==
    /\ Drained /\ NoProgress
    /\ PollReturns("idle") /\ sleeping' = PollingInterval
    /\ UNCHANGED <<now, filter, saved, rateLimitedUntil, cancelled, restarts,
                   owed, spacing, covered, excused>>

WindowSeconds == filter.after + 1 .. filter.before

(* TimeWindowFilter::advance *)
Advance ==
    /\ Drained /\ ~NoProgress
    /\ filter' = Window(filter.before)
    /\ IF gaveUp
       THEN excused' = excused \cup WindowSeconds /\ UNCHANGED covered
       ELSE covered' = covered \cup ({handled} \X WindowSeconds) /\ UNCHANGED excused
    /\ PollReturns("save")
    /\ UNCHANGED <<now, saved, rateLimitedUntil, sleeping, cancelled, restarts,
                   owed, spacing>>

(* Fault: the end of the next window is saved. *)
SaveAhead ==
    /\ pc = "save"
    /\ saved' \in {saved, filter.before}
    /\ pc' = "idle" /\ sleeping' = PollingInterval
    /\ UNCHANGED <<now, filter, rateLimitedUntil, pollVars, cancelled, restarts, history>>

(* save_ts_after may fail: a warning, and the old checkpoint. *)
Save ==
    /\ pc = "save"
    /\ saved' \in {saved, filter.after}
    /\ pc' = "idle" /\ sleeping' = PollingInterval
    /\ UNCHANGED <<now, filter, rateLimitedUntil, pollVars, cancelled, restarts, history>>

WakeUp ==
    /\ pc = "idle" /\ (sleeping = 0 \/ cancelled)
    /\ pc' = "check" /\ sleeping' = 0
    /\ UNCHANGED <<now, filter, saved, rateLimitedUntil, pollVars, cancelled,
                   restarts, history>>

---------------------------------------------------------------------------
Outer == \/ StopCancelled \/ Throttle \/ StopAtLimit \/ StartPoll \/ BootstrapFails
         \/ DropPoll \/ HoldPoll \/ Advance \/ Save \/ WakeUp
Fill == Issue \/ Pause \/ IssueAfterPause \/ BudgetReached
Take(i) == \/ TransportFailure(i) \/ Refused(i) \/ Skipped(i) \/ Held(i)
           \/ Aborted(i) \/ Succeeded(i)
Fetch(i) == ServerAnswers(i) \/ FetchFails(i)

Next == \/ Tick \/ Cancel \/ Restart \/ Outer \/ Fill
        \/ \E i \in DOMAIN inflight : Leave(i) \/ Fetch(i) \/ Take(i)

(* The task of the source is scheduled, time passes, and every request ends, *)
(* by the request timeout at the latest.                                     *)
Work == Outer \/ Fill \/ \E i \in DOMAIN inflight : Leave(i) \/ Take(i)
RequestsEnd == \E i \in DOMAIN inflight : inflight[i].answer = Pending /\ Fetch(i)
Fairness == WF_vars(Tick) /\ WF_vars(Work) /\ WF_vars(RequestsEnd)

Spec == Init /\ [][Next]_vars
FairSpec == Spec /\ Fairness

---------------------------------------------------------------------------
TypeOK ==
    /\ now \in 1..MaxNow
    /\ pc \in {"check", "throttle", "poll", "pause", "save", "idle", "stopped"}
    /\ filter \in [after : Nat, before : 0..MaxNow]
    /\ saved \in Nat /\ rateLimitedUntil \in Nat /\ nextAllowed \in Nat
    /\ sleeping \in Nat /\ owed \in Nat /\ spacing \in Nat
    /\ queue \in Seq(Task)
    /\ inflight \in Seq([task : Task, answer : Answer])
    /\ Len(inflight) <= MaxConcurrency
    /\ issued \in 0..MaxRequests /\ progressed \in Nat
    /\ cancelled \in BOOLEAN /\ restarts \in 0..MaxRestarts
    /\ handled \subseteq Request /\ gaveUp \in BOOLEAN
    /\ covered \subseteq (SUBSET Request) \X (1..MaxNow) /\ excused \subseteq 1..MaxNow

(* The requests a poll must make are those of the bootstrap and those any of  *)
(* its responses leads to.                                                    *)
Complete(requests) ==
    /\ Range(Bootstrap) \subseteq requests
    /\ \A r \in requests \cap FeedsBack : Range(Feeds[r]) \subseteq requests

AccountedFor(t) ==
    t \in excused \/ \E poll \in covered : poll[2] = t /\ Complete(poll[1])

(* No second is skipped: what lies before the window was asked by every       *)
(* request the driver derives, in a poll that advanced, or in a poll that     *)
(* logged what it gave up (with log_errors, the default; without it a status  *)
(* that is skipped or held is silent). It holds across concurrent fetches,    *)
(* re-queued refusals, held windows, a failed save and a restart.             *)
NothingSkipped ==
    \A t \in StartTs + 1 .. filter.after : AccountedFor(t)

(* The source implements the window's abstract specification.                 *)
Cursor == INSTANCE WindowCursor
              WITH after <- filter.after,
                   accounted <- {t \in 1..MaxNow : AccountedFor(t)}
ImplementsCursor == Cursor!CursorSpec

Issues == Issue \/ IssueAfterPause

(* A pause holds the worklist: no request is taken from it before the longest *)
(* pause the upstream asked for has passed (apply_rate_limit_pause never      *)
(* pulls it in), neither in the poll that was refused nor in the polls that   *)
(* follow, while the process lives; and of the slots one is free, so that no  *)
(* more requests than the others hold, queued before, can leave in the pause. *)
PauseHonoured ==
    /\ [][Issues => owed = 0]_vars
    /\ [](owed > 0 => Len(inflight) < MaxConcurrency)

(* "The *start* of each request is spaced by at least this much, across the   *)
(* whole worklist" (min_request_interval, mod.rs:94).                         *)
StartsSpaced ==
    [][\A i \in DOMAIN inflight : Leave(i) => spacing = 0]_vars

(* A response is emitted once in a poll, although a request that met the rate *)
(* limit is asked again.                                                      *)
HandledOnce ==
    [][\A i \in DOMAIN inflight :
          Succeeded(i) => inflight[i].task.spec \notin handled]_vars

(* "A rate-limited refusal is not a verdict on the request" (mod.rs:759): the  *)
(* status policy never judges one.                                            *)
RefusalIsNoVerdict ==
    [][\A i \in DOMAIN inflight :
          Skipped(i) \/ Held(i) \/ Aborted(i) => ~Resp(i).exhausted]_vars

(* Every poll ends, whatever the driver derives and however often the         *)
(* upstream refuses: the source sleeps or stops again and again.              *)
PollsEnd == []<>(pc \in {"idle", "stopped"})

(* The source stops once cancelled, also in a poll that waits for a rate      *)
(* limit to reset.                                                            *)
CancelStops == cancelled ~> (pc = "stopped" \/ ~cancelled)
=============================================================================
