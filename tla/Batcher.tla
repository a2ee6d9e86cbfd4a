------------------------------ MODULE Batcher ------------------------------
(***************************************************************************)
(* The double-buffer batcher shared by the PostgreSQL and ClickHouse sinks *)
(* (sinks/batch.rs) and the way the sink task drives it (sinks/mod.rs).    *)
(*                                                                         *)
(* Three tasks interleave: the sink task pushes events into an mpsc        *)
(* channel and flushes once, at shutdown; the writer moves them from the   *)
(* channel to the active slot (memory and, if spooling, a JSONL file); the *)
(* flusher swaps the slots, takes the sealed one and stores it in chunks.  *)
(* The process may end at any step and be started again: memory and        *)
(* channels are then lost, the spool files are replayed.                   *)
(*                                                                         *)
(* Events are numbered in the order they are pushed.                       *)
(***************************************************************************)
EXTENDS Integers, Sequences, Functions

CONSTANTS BatchMaxSize,  \* Batcher::start's batch_max_size, after .max(1)
          Spooling,      \* is there a spool_dir?
          Refusable,     \* events the target refuses with a non-transient error
          MaxItems,      \* bound: events pushed over all the runs
          MaxRestarts,   \* bound: times the process is started again
          MaxDiskFaults, \* bound: spool writes and truncations that fail
          MaxCopies      \* bound: failed stores repeat a partial write up to here

ASSUME BatcherAssumption ==
    /\ BatchMaxSize \in Nat \ {0}
    /\ Spooling \in BOOLEAN
    /\ MaxItems \in Nat
    /\ MaxRestarts \in Nat
    /\ MaxDiskFaults \in Nat
    /\ MaxCopies \in Nat

VARIABLES
    up,          \* the process is running
    accepted,    \* events pushed so far, over all the runs
    runStart,    \* value of accepted when the current run started
    sinkPc,      \* the sink task: "receiving", "flushing", "flushed", "exited"
    chan,        \* mpsc::channel(batch_max_size) of BatchCmd
    cmds,        \* the commands the writer got from recv_many, not handled yet
    writerDone,  \* run_writer returned, which drops flush_tx
    flushQueued, \* flush_tx/flush_rx: an ack waits to be received
    items,       \* items[k]: slots[k].items
    spool,       \* spool[k]: the readable records of spool-<k>.jsonl
    active,      \* Buffers.active
    notified,    \* the permit of Notify
    pc,          \* run_flusher: "drain", "store", "check", "idle", "stopped"
    wake,        \* why it drains: "startup", "tick", "flush", "closed"
    taken,       \* drain_sealed's local items
    stored,      \* drain_sealed's local counter
    copies,      \* copies[i]: the store calls that stored event i, each with
                 \* whatever it retries by itself
    rejected,    \* events the target definitively refused
    unspooled,   \* history: events whose spool write failed
    repeatable,  \* history: events of a failed store call, or replayed
    flushFailed, \* history: the drain of the flush met an unreachable target
    diskFaults,  \* counts MaxDiskFaults
    restarts     \* counts MaxRestarts

sinkVars    == <<accepted, runStart, sinkPc>>
writerVars  == <<chan, cmds, writerDone>>
bufferVars  == <<items, spool, active>>
drainVars   == <<wake, taken, stored>>
targetVars  == <<copies, rejected>>
historyVars == <<unspooled, repeatable>>
boundVars   == <<diskFaults, restarts>>

vars == <<up, accepted, runStart, sinkPc, chan, cmds, writerDone, flushQueued,
          items, spool, active, notified, pc, wake, taken, stored, copies,
          rejected, unspooled, repeatable, flushFailed, diskFaults, restarts>>

Item   == 1..MaxItems
Slots  == {0, 1}
Flush  == 0                 \* BatchCmd::Flush; a BatchCmd::Push(i) is i itself
Cmd    == {Flush} \cup Item
Sealed == 1 - active

(***************************************************************************)
(* State functions the properties are about.                               *)
(***************************************************************************)
Settled == {i \in Item : copies[i] > 0} \cup rejected

Spooled == Range(spool[0]) \cup Range(spool[1])

InMemory == ((Range(chan) \cup Range(cmds)) \ {Flush})
                \cup Range(items[0]) \cup Range(items[1]) \cup Range(taken)

Held == IF up THEN InMemory ELSE Spooled
-----------------------------------------------------------------------------
(***************************************************************************)
(* Batcher::start: the slots are what the spool files hold, active is 0    *)
(* and the flusher begins with drain_all.                                  *)
(***************************************************************************)
Init ==
    /\ up = TRUE
    /\ accepted = 0 /\ runStart = 0
    /\ sinkPc = "receiving"
    /\ chan = <<>> /\ cmds = <<>> /\ writerDone = FALSE
    /\ flushQueued = FALSE
    /\ items = [k \in Slots |-> <<>>]
    /\ spool = [k \in Slots |-> <<>>]
    /\ active = 0
    /\ notified = FALSE
    /\ pc = "drain" /\ wake = "startup"
    /\ taken = <<>> /\ stored = 0
    /\ copies = [i \in Item |-> 0] /\ rejected = {}
    /\ unspooled = {} /\ repeatable = {} /\ flushFailed = FALSE
    /\ diskFaults = 0 /\ restarts = 0

(***************************************************************************)
(* The sink task: push and flush wait for room in the channel.             *)
(***************************************************************************)
\* Fault: push does not wait for room.
PushUnbounded ==
    /\ up /\ sinkPc = "receiving"
    /\ accepted < MaxItems
    /\ accepted' = accepted + 1
    /\ chan' = Append(chan, accepted + 1)
    /\ UNCHANGED <<up, runStart, sinkPc, cmds, writerDone, flushQueued, bufferVars,
                   notified, pc, drainVars, targetVars, historyVars, flushFailed,
                   boundVars>>

Push ==
    /\ up /\ sinkPc = "receiving"
    /\ accepted < MaxItems
    /\ Len(chan) < BatchMaxSize
    /\ accepted' = accepted + 1
    /\ chan' = Append(chan, accepted + 1)
    /\ UNCHANGED <<up, runStart, sinkPc, cmds, writerDone, flushQueued, bufferVars,
                   notified, pc, drainVars, targetVars, historyVars, flushFailed,
                   boundVars>>

\* The queue closed: Sink::flush sends the command, then awaits its ack.
RequestFlush ==
    /\ up /\ sinkPc = "receiving"
    /\ Len(chan) < BatchMaxSize
    /\ sinkPc' = "flushing"
    /\ chan' = Append(chan, Flush)
    /\ UNCHANGED <<up, accepted, runStart, cmds, writerDone, flushQueued, bufferVars,
                   notified, pc, drainVars, targetVars, historyVars, flushFailed,
                   boundVars>>

\* The ack arrived: the sink task returns and drops the only sender of chan.
SinkExit ==
    /\ up /\ sinkPc = "flushed"
    /\ sinkPc' = "exited"
    /\ UNCHANGED <<up, accepted, runStart, writerVars, flushQueued, bufferVars,
                   notified, pc, drainVars, targetVars, historyVars, flushFailed,
                   boundVars>>
-----------------------------------------------------------------------------
(***************************************************************************)
(* run_writer                                                              *)
(***************************************************************************)
\* Fault: the buffers stay locked while the flusher awaits the target.
WriterRecvLocked ==
    /\ up /\ cmds = <<>> /\ chan # <<>> /\ pc # "store"
    /\ cmds' = chan
    /\ chan' = <<>>
    /\ UNCHANGED <<up, sinkVars, writerDone, flushQueued, bufferVars, notified, pc,
                   drainVars, targetVars, historyVars, flushFailed, boundVars>>

\* recv_many(.., batch_max_size): the channel holds no more than that.
WriterRecv ==
    /\ up /\ cmds = <<>> /\ chan # <<>>
    /\ cmds' = chan
    /\ chan' = <<>>
    /\ UNCHANGED <<up, sinkVars, writerDone, flushQueued, bufferVars, notified, pc,
                   drainVars, targetVars, historyVars, flushFailed, boundVars>>

\* Fault: the records go to the file of the other slot.
SpoolAppendOther(k, group) ==
    /\ spool' = IF Spooling THEN [spool EXCEPT ![1 - k] = @ \o group] ELSE spool
    /\ UNCHANGED <<unspooled, diskFaults>>

\* Slot::push_all's write + fsync. A failure is only logged; whole records
\* written before the torn one stay readable.
SpoolAppend(k, group) ==
    \/ /\ ~Spooling
       /\ UNCHANGED <<spool, unspooled, diskFaults>>
    \/ /\ Spooling
       /\ spool' = [spool EXCEPT ![k] = @ \o group]
       /\ UNCHANGED <<unspooled, diskFaults>>
    \/ /\ Spooling /\ diskFaults < MaxDiskFaults
       /\ \E n \in 0..Len(group) :
             spool' = [spool EXCEPT ![k] = @ \o SubSeq(group, 1, n)]
       /\ unspooled' = unspooled \cup Range(group)
       /\ diskFaults' = diskFaults + 1

\* push_items: the consecutive pushes up to the next flush go to the active
\* slot under one lock; a full slot wakes the flusher.
WriterPush ==
    /\ up
    /\ \E n \in 1..Len(cmds) :
          LET group == SubSeq(cmds, 1, n) IN
          /\ \A j \in 1..n : cmds[j] # Flush
          /\ n < Len(cmds) => cmds[n + 1] = Flush
          /\ cmds' = SubSeq(cmds, n + 1, Len(cmds))
          /\ items' = [items EXCEPT ![active] = @ \o group]
          /\ SpoolAppend(active, group)
          /\ notified' = (notified \/ Len(items[active]) + n >= BatchMaxSize)
    /\ UNCHANGED <<up, sinkVars, chan, writerDone, flushQueued, active, pc, drainVars,
                   targetVars, repeatable, flushFailed, restarts>>

\* flush_tx has room for one ack.
WriterForwardFlush ==
    /\ up /\ cmds # <<>> /\ Head(cmds) = Flush
    /\ ~flushQueued
    /\ cmds' = Tail(cmds)
    /\ flushQueued' = TRUE
    /\ UNCHANGED <<up, sinkVars, chan, writerDone, bufferVars, notified, pc, drainVars,
                   targetVars, historyVars, flushFailed, boundVars>>

WriterExit ==
    /\ up /\ sinkPc = "exited" /\ chan = <<>> /\ cmds = <<>> /\ ~writerDone
    /\ writerDone' = TRUE
    /\ UNCHANGED <<up, sinkVars, chan, cmds, flushQueued, bufferVars, notified, pc,
                   drainVars, targetVars, historyVars, flushFailed, boundVars>>
-----------------------------------------------------------------------------
(***************************************************************************)
(* run_flusher: the select! of timer, notification and flush channel.      *)
(***************************************************************************)
StartDrain(why) ==
    /\ up /\ pc = "idle"
    /\ pc' = "drain"
    /\ wake' = why
    /\ UNCHANGED <<up, sinkVars, writerVars, bufferVars, taken, stored, targetVars,
                   historyVars, flushFailed, boundVars>>

WakeTimer ==
    /\ StartDrain("tick")
    /\ UNCHANGED <<notified, flushQueued>>

WakeNotified ==
    /\ notified
    /\ StartDrain("tick")
    /\ notified' = FALSE
    /\ UNCHANGED flushQueued

WakeFlush ==
    /\ flushQueued
    /\ StartDrain("flush")
    /\ flushQueued' = FALSE
    /\ UNCHANGED notified

WakeClosed ==
    /\ writerDone /\ ~flushQueued
    /\ StartDrain("closed")
    /\ UNCHANGED <<notified, flushQueued>>

\* Where run_flusher goes once its drain is over: a flush is acknowledged
\* whatever the outcome, a closed channel ends the task.
DrainOver(ok) ==
    /\ pc' = IF wake = "closed" THEN "stopped" ELSE "idle"
    /\ IF wake = "flush"
       THEN sinkPc' = "flushed" /\ flushFailed' = ~ok
       ELSE UNCHANGED <<sinkPc, flushFailed>>

\* Fault: a flush drains one slot only.
ReturnedOnce(ok) == DrainOver(ok)

\* Fault: drain_all insists while the target is unreachable.
ReturnedInsist(ok) ==
    IF wake = "tick"
    THEN DrainOver(ok)
    ELSE pc' = "check" /\ UNCHANGED <<sinkPc, flushFailed>>

\* drain_sealed returned: one call is a whole drain for the timer and the
\* notification; drain_all goes on until it fails or both slots are empty.
Returned(ok) ==
    IF wake = "tick" \/ ~ok
    THEN DrainOver(ok)
    ELSE pc' = "check" /\ UNCHANGED <<sinkPc, flushFailed>>

\* Faults: swap even if a failed drain left items behind; never swap.
SwappedAlways == Sealed
SwappedNever  == active

\* The slot drain_sealed makes active: the sealed one is swapped in only if
\* no failed drain left items there.
SwappedActive == IF items[Sealed] = <<>> THEN Sealed ELSE active

\* drain_sealed, first lock: swap, then take the sealed items out of memory.
DrainSealed ==
    LET sealed == 1 - SwappedActive IN
    /\ up /\ pc = "drain"
    /\ active' = SwappedActive
    /\ taken' = items[sealed]
    /\ stored' = 0
    /\ items' = [items EXCEPT ![sealed] = <<>>]
    /\ IF items[sealed] = <<>>
       THEN Returned(TRUE)
       ELSE pc' = "store" /\ UNCHANGED <<sinkPc, flushFailed>>
    /\ UNCHANGED <<up, accepted, runStart, writerVars, flushQueued, spool, notified,
                   wake, targetVars, historyVars, boundVars>>

ChunkEnd == IF stored + BatchMaxSize <= Len(taken) THEN stored + BatchMaxSize
                                                   ELSE Len(taken)
Chunk == {taken[j] : j \in (stored + 1)..ChunkEnd}

\* store returned true: every event of the chunk is stored, or refused for good.
StoreChunk ==
    /\ up /\ pc = "store" /\ stored < Len(taken)
    /\ rejected' = rejected \cup (Chunk \cap Refusable)
    /\ copies' = [i \in Item |-> IF i \in Chunk \ Refusable THEN copies[i] + 1
                                                             ELSE copies[i]]
    /\ stored' = ChunkEnd
    /\ UNCHANGED <<up, sinkVars, writerVars, flushQueued, bufferVars, notified, pc,
                   wake, taken, historyVars, flushFailed, boundVars>>

\* Faults: the failed chunk counts as stored; the stored chunks are put back.
LeftoverShort == SubSeq(taken, ChunkEnd + 1, Len(taken))
LeftoverAll   == taken

\* What is put back in the sealed slot when a chunk could not be stored.
Leftover == SubSeq(taken, stored + 1, Len(taken))

\* store returned false (target unreachable); part of the chunk may have
\* reached the target nevertheless, some of it may have been refused. The spool
\* keeps the whole slot.
StoreFails ==
    /\ up /\ pc = "store" /\ stored < Len(taken)
    /\ \E S \in SUBSET {i \in Chunk \ Refusable : copies[i] < MaxCopies} :
          copies' = [i \in Item |-> IF i \in S THEN copies[i] + 1 ELSE copies[i]]
    /\ \E R \in SUBSET (Chunk \cap Refusable) : rejected' = rejected \cup R
    /\ items' = [items EXCEPT ![Sealed] = Leftover]
    /\ taken' = <<>>
    /\ stored' = 0
    /\ repeatable' = repeatable \cup Chunk
    /\ Returned(FALSE)
    /\ UNCHANGED <<up, accepted, runStart, writerVars, flushQueued, spool, active,
                   notified, wake, unspooled, boundVars>>

\* Fault: both files are emptied.
TruncateBoth(k) ==
    /\ spool' = [j \in Slots |-> <<>>]
    /\ UNCHANGED diskFaults

\* Slot::truncate of the sealed slot; a failure is only logged.
TruncateSpool(k) ==
    \/ /\ spool' = [spool EXCEPT ![k] = <<>>]
       /\ UNCHANGED diskFaults
    \/ /\ Spooling /\ diskFaults < MaxDiskFaults
       /\ diskFaults' = diskFaults + 1
       /\ UNCHANGED spool

DrainDone ==
    /\ up /\ pc = "store" /\ stored = Len(taken)
    /\ TruncateSpool(Sealed)
    /\ taken' = <<>>
    /\ stored' = 0
    /\ Returned(TRUE)
    /\ UNCHANGED <<up, accepted, runStart, writerVars, flushQueued, items, active,
                   notified, wake, targetVars, historyVars, restarts>>

\* drain_all's loop condition: both slots are empty in memory.
DrainAllCheck ==
    /\ up /\ pc = "check"
    /\ IF items[0] = <<>> /\ items[1] = <<>>
       THEN DrainOver(TRUE)
       ELSE pc' = "drain" /\ UNCHANGED <<sinkPc, flushFailed>>
    /\ UNCHANGED <<up, accepted, runStart, writerVars, flushQueued, bufferVars,
                   notified, drainVars, targetVars, historyVars, boundVars>>
-----------------------------------------------------------------------------
(***************************************************************************)
(* The process ends: killed at any step, or because its sink task returned *)
(* (nothing waits for the writer and the flusher). Only the spool remains. *)
(***************************************************************************)
ProcessEnds ==
    /\ up
    /\ up' = FALSE
    /\ chan' = <<>> /\ cmds' = <<>> /\ writerDone' = FALSE /\ flushQueued' = FALSE
    /\ items' = [k \in Slots |-> <<>>]
    /\ active' = 0
    /\ notified' = FALSE
    /\ pc' = "drain" /\ wake' = "startup" /\ taken' = <<>> /\ stored' = 0
    /\ UNCHANGED <<sinkVars, spool, targetVars, historyVars, flushFailed, boundVars>>

\* Batcher::start again, Buffers::open replays what the spool files hold.
Restart ==
    /\ ~up /\ restarts < MaxRestarts
    /\ up' = TRUE
    /\ restarts' = restarts + 1
    /\ items' = spool
    /\ runStart' = accepted
    /\ sinkPc' = "receiving"
    /\ flushFailed' = FALSE
    /\ repeatable' = repeatable \cup Spooled
    /\ UNCHANGED <<accepted, writerVars, flushQueued, spool, active, notified, pc,
                   drainVars, targetVars, unspooled, diskFaults>>

Sink    == Push \/ RequestFlush \/ SinkExit
Writer  == WriterRecv \/ WriterPush \/ WriterForwardFlush \/ WriterExit
Store   == StoreChunk \/ StoreFails
Flusher == \/ WakeTimer \/ WakeNotified \/ WakeFlush \/ WakeClosed
           \/ DrainSealed \/ DrainDone \/ DrainAllCheck

Next == Sink \/ Writer \/ Flusher \/ Store \/ ProcessEnds \/ Restart

Spec == Init /\ [][Next]_vars

(***************************************************************************)
(* The runtime polls every ready task. The select! starts a fresh sleep at *)
(* each turn and picks at random among the branches that are ready, so the *)
(* timer cannot starve the flush channel. Nothing obliges the target to    *)
(* answer, the sources to send, or the process to end or to be restarted.  *)
(***************************************************************************)
Fairness ==
    /\ WF_vars(Writer) /\ WF_vars(Flusher) /\ WF_vars(SinkExit)
    /\ SF_vars(WakeFlush) /\ SF_vars(WakeClosed)

FairSpec == Spec /\ Fairness
-----------------------------------------------------------------------------
TypeOK ==
    /\ up \in BOOLEAN
    /\ accepted \in 0..MaxItems /\ runStart \in 0..accepted
    /\ sinkPc \in {"receiving", "flushing", "flushed", "exited"}
    /\ chan \in Seq(Cmd) /\ Len(chan) <= BatchMaxSize
    /\ cmds \in Seq(Cmd)
    /\ writerDone \in BOOLEAN /\ flushQueued \in BOOLEAN
    /\ items \in [Slots -> Seq(Item)]
    /\ spool \in [Slots -> Seq(Item)]
    /\ active \in Slots
    /\ notified \in BOOLEAN
    /\ pc \in {"drain", "store", "check", "idle", "stopped"}
    /\ wake \in {"startup", "tick", "flush", "closed"}
    /\ taken \in Seq(Item) /\ stored \in 0..Len(taken)
    /\ copies \in [Item -> Nat] /\ rejected \in SUBSET Item
    /\ unspooled \in SUBSET Item /\ repeatable \in SUBSET Item
    /\ flushFailed \in BOOLEAN
    /\ diskFaults \in 0..MaxDiskFaults /\ restarts \in 0..MaxRestarts

(***************************************************************************)
(* No event pushed in the current run is dropped: until the target has     *)
(* stored or refused it, it is in the channel, with the writer, in a slot  *)
(* or with the flusher; and every unsettled event of a spool file is in    *)
(* memory too, so that it will be stored without waiting for a restart.    *)
(***************************************************************************)
NoLossWhileRunning ==
    up => /\ (runStart + 1)..accepted \subseteq Held \cup Settled
          /\ Spooled \subseteq Held \cup Settled

(***************************************************************************)
(* With a spool, what a crash can lose is only what is still in the        *)
(* channel or with the writer, and what could not be written: every event  *)
(* of a slot, or taken from it by the flusher, is in that slot's file.     *)
(***************************************************************************)
SlotItemsSpooled ==
    up /\ Spooling =>
        /\ \A k \in Slots : Range(items[k]) \subseteq Range(spool[k]) \cup unspooled
        /\ Range(taken) \subseteq Range(spool[Sealed]) \cup unspooled

(***************************************************************************)
(* A flush is honest: when the sink task goes on after it, all that was    *)
(* ever pushed or replayed in this run is settled, unless the target was   *)
(* found unreachable during the flush itself.                              *)
(***************************************************************************)
FlushHonest ==
    up /\ sinkPc \in {"flushed", "exited"} /\ ~flushFailed =>
        (runStart + 1)..accepted \cup Spooled \subseteq Settled

(***************************************************************************)
(* Two store calls store the same event only when the first one failed, or *)
(* when the event was replayed from the spool in between.                  *)
(***************************************************************************)
NoUnexplainedDuplicate ==
    \A i \in Item \ repeatable : copies[i] <= 1

(***************************************************************************)
(* Events of a run reach the target in push order, except within a chunk   *)
(* whose store call failed half way.                                       *)
(***************************************************************************)
OvertakesOnlyWithinChunk ==
    \A i, j \in (runStart + 1)..accepted :
        i < j /\ j \in Settled /\ i \notin Settled
            => j \in repeatable /\ j - i < BatchMaxSize

(***************************************************************************)
(* The batcher implements the reliable buffer.                             *)
(***************************************************************************)
Buffer == INSTANCE ReliableBuffer
              WITH owed <- Held \ Settled, safe <- Spooled, settled <- Settled

ImplementsBuffer == Buffer!BufferSpec
-----------------------------------------------------------------------------
(***************************************************************************)
(* push never waits on the target: a full channel gets room again even if  *)
(* a store call never returns.                                             *)
(***************************************************************************)
PushNeverWaits ==
    (up /\ Len(chan) = BatchMaxSize) ~> (~up \/ Len(chan) < BatchMaxSize)

StoreReturns == []<>(pc # "store" \/ stored = Len(taken))

(***************************************************************************)
(* A flush never hangs, however often the target is unreachable: it is     *)
(* acknowledged as long as the store calls return.                         *)
(***************************************************************************)
FlushReturns ==
    StoreReturns => ((up /\ sinkPc = "flushing") ~> (~up \/ sinkPc = "flushed"))

(***************************************************************************)
(* If the target is not unreachable for ever, every event pushed is        *)
(* settled, unless the process ends first or shuts down during an outage.  *)
(***************************************************************************)
EventuallySettled ==
    (StoreReturns /\ <>[][~StoreFails]_vars) =>
        \A i \in Item : (up /\ i <= accepted /\ i > runStart)
                            ~> (~up \/ flushFailed \/ i \in Settled)
=============================================================================
