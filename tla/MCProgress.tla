------------------------------ MODULE MCProgress ------------------------------
(***************************************************************************)
(* What must eventually happen in two workers that loop until they are     *)
(* stopped, the batcher and the poller: `part` says which one a behaviour  *)
(* is about; the other one stays where it starts.                          *)
(***************************************************************************)
EXTENDS Integers, Sequences

CONSTANTS
    BatchMaxSize, Spooling, Refusable, MaxItems, MaxDiskFaults, MaxCopies,   \* Batcher
    page, Request, FeedsBack, Emits, Status, MaxConcurrency, MaxRequests,    \* HttpPolling
    MaxDepth, MinInterval, PollingInterval, MaxRateLimitWait, StartTs, Limit,
    MaxReset, MaxNow, MaxRestarts

VARIABLES
    part,
    up, accepted, runStart, sinkPc, chan, cmds, writerDone, flushQueued,     \* Batcher
    items, spool, active, notified, flusherPc, wake, taken, stored, copies,
    rejected, unspooled, repeatable, flushFailed, diskFaults, starts,
    now, pc, filter, saved, rateLimitedUntil, nextAllowed, queue, inflight,  \* HttpPolling
    issued, progressed, sleeping, cancelled, restarts, handled, gaveUp,
    owed, spacing, covered, excused

ofBatch == <<up, accepted, runStart, sinkPc, chan, cmds, writerDone, flushQueued, items, spool,
             active, notified, flusherPc, wake, taken, stored, copies, rejected, unspooled,
             repeatable, flushFailed, diskFaults, starts>>
ofPoll  == <<now, pc, filter, saved, rateLimitedUntil, nextAllowed, queue, inflight, issued,
             progressed, sleeping, cancelled, restarts, handled, gaveUp, owed, spacing,
             covered, excused>>

\* The process lives on.
Batch == INSTANCE Batcher WITH MaxRestarts <- 0, restarts <- starts, pc <- flusherPc

\* A runaway driver: every page leads to a next page. Of the 4xx, 403 holds.
Poll == INSTANCE HttpPolling
    WITH Bootstrap <- <<page>>,
         Feeds <- [r \in Request |-> <<r>>],
         OnStatus <- [s \in {403, 4} |-> IF s = 403 THEN "hold" ELSE "skip"]

Init == /\ part \in {"batch", "poll"}
        /\ Batch!Init /\ Poll!Init
        /\ part = "batch" => now = 1

Batching(A) == part = "batch" /\ A /\ UNCHANGED <<part, ofPoll>>
Polling(A)  == part = "poll"  /\ A /\ UNCHANGED <<part, ofBatch>>

Next == Batching(Batch!Next) \/ Polling(Poll!Next)
vars == <<part, ofBatch, ofPoll>>

\* The fairness each of them has, while a behaviour is about it.
FairSpec ==
    /\ Init /\ [][Next]_vars
    /\ WF_vars(Batching(Batch!Writer)) /\ WF_vars(Batching(Batch!Flusher))
    /\ WF_vars(Batching(Batch!SinkExit))
    /\ SF_vars(Batching(Batch!WakeFlush)) /\ SF_vars(Batching(Batch!WakeClosed))
    /\ WF_vars(Polling(Poll!Tick)) /\ WF_vars(Polling(Poll!Work))
    /\ WF_vars(Polling(Poll!RequestsEnd))

\* push never waits on the target: a full channel gets room again even if a store
\* call never returns (sinks/batch.rs).
PushNeverWaits == part = "batch" => Batch!PushNeverWaits

\* A flush never hangs, however often the target is unreachable: it is
\* acknowledged as long as the store calls return.
FlushReturns == part = "batch" => Batch!FlushReturns

\* If the target is not unreachable for ever, every event pushed is settled,
\* unless the process ends first or shuts down during an outage.
EventuallySettled == part = "batch" => Batch!EventuallySettled

\* Every poll ends, whatever the driver derives and however often the upstream
\* refuses (http_polling/mod.rs: max_requests).
PollsEnd == part = "poll" => Poll!PollsEnd

\* The source stops once cancelled, also in a poll that waits for a rate limit to
\* reset.
CancelStops == part = "poll" => Poll!CancelStops
===============================================================================
