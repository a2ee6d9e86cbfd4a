---------------------------- MODULE EventQueue ----------------------------
(***************************************************************************)
(* From a source to the sinks: the transformer chain of a source           *)
(* (transformers/), its terminal (sources/send_cdevents.rs), the webhook   *)
(* handler that answers the producer (sources/webhook), the broadcast      *)
(* queue (pipeline.rs) and the receive loop of the sinks (sinks/mod.rs).   *)
(*                                                                         *)
(* A source handles one payload at a time: a webhook holds the mutex of    *)
(* its route, a pull source is one task. Sources and sinks run in          *)
(* parallel, so the queue moves between a source's look at its length and  *)
(* its send.                                                               *)
(***************************************************************************)
EXTENDS Integers, Sequences, FiniteSets, Functions

CONSTANTS
    Source,         \* the enabled sources
    Backpressure,   \* those that answer 503 when the queue is saturated (webhooks)
    Sink,           \* the enabled sinks
    Payload,        \* what producers post, or pull sources read
    None,           \* no payload
    SourceOf,       \* SourceOf[p]: the source p is sent to
    Malformed,      \* payloads refused by the header rules, JSON or VRL
    Event,
    Outputs,        \* Outputs[p]: the events the transformers make of p, in order
    Unconvertible,  \* events CDEvent::try_from refuses
    Key, NoKey,
    DedupKey,       \* DedupKey[e]: value at key_path, or NoKey
    DedupCapacity,  \* DedupCapacity[a]: capacity of the deduplicate step; 0: none
    QueueCapacity,  \* pipeline.queue_capacity
    RingSize,       \* the capacity the broadcast channel gives itself
    MaxAttempts     \* bound: MaxAttempts[p], times p is sent

ASSUME QueueAssumption ==
    /\ IsFiniteSet(Source) /\ Backpressure \subseteq Source
    /\ Sink # {}
    /\ SourceOf \in [Payload -> Source] /\ Malformed \subseteq Payload
    /\ Outputs \in [Payload -> Seq(Event)] /\ Unconvertible \subseteq Event
    /\ NoKey \notin Key /\ DedupKey \in [Event -> Key \cup {NoKey}]
    /\ DedupCapacity \in [Source -> Nat]
    /\ QueueCapacity \in Nat \ {0}
    /\ RingSize \in QueueCapacity..(2 * QueueCapacity - 1)
    /\ \E k \in 0..RingSize : RingSize = 2^k
    /\ MaxAttempts \in [Payload -> Nat] /\ None \notin Payload

VARIABLES
    log,       \* every message sent to the queue; the ring holds the last RingSize
    cursor,    \* cursor[s]: the messages sink s has received or skipped
    lagged,    \* history: the positions s skipped
    pc,        \* pc[a]: "free", "transform", "check", "send"
    current,   \* current[a]: the payload a handles, or None
    todo,      \* todo[a]: the events it still has to send
    seen,      \* seen[a]: the keys of the deduplicate step, oldest first
    recorded,  \* history: every key ever inserted in seen[a]
    answer,    \* answer[p]: the last answer to p
    attempts,  \* counts MaxAttempts
    refused,   \* history: refused[a], keys recorded although their event was refused
    unchecked  \* history: messages sent by sources without backpressure

queueVars  == <<log, cursor, lagged>>
chainVars  == <<seen, recorded, refused>>
clientVars == <<answer, attempts>>
vars == <<log, cursor, lagged, pc, current, todo, seen, recorded, answer,
          attempts, refused, unchecked>>

Answers == {"none", "created", "unavailable", "rejected"}

\* HIGH_WATERMARK_RATIO of the configured capacity, truncated, at least 1.
Watermark == IF (QueueCapacity * 8) \div 10 >= 1 THEN (QueueCapacity * 8) \div 10
                                                  ELSE 1

Backlog(s) == Len(log) - cursor[s]

\* Fault: one event more.
SaturatedLate == \E s \in Sink : Backlog(s) > Watermark

\* Sender::len() >= watermark: len counts what some receiver has not seen yet,
\* at most RingSize, which is not below Watermark.
Saturated == \E s \in Sink : Backlog(s) >= Watermark
-----------------------------------------------------------------------------
Init ==
    /\ log = <<>>
    /\ cursor = [s \in Sink |-> 0]
    /\ lagged = [s \in Sink |-> {}]
    /\ pc = [a \in Source |-> "free"]
    /\ current = [a \in Source |-> None]
    /\ todo = [a \in Source |-> <<>>]
    /\ seen = [a \in Source |-> <<>>]
    /\ recorded = [a \in Source |-> <<>>]
    /\ answer = [p \in Payload |-> "none"]
    /\ attempts = [p \in Payload |-> 0]
    /\ refused = [a \in Source |-> {}]
    /\ unchecked = 0

(***************************************************************************)
(* webhook(): header rules and JSON are checked before the lock, VRL fails *)
(* before anything is sent. A payload may come again after any answer.     *)
(***************************************************************************)
Reject(p) ==
    /\ p \in Malformed
    /\ attempts[p] < MaxAttempts[p]
    /\ attempts' = [attempts EXCEPT ![p] = @ + 1]
    /\ answer' = [answer EXCEPT ![p] = "rejected"]
    /\ UNCHANGED <<queueVars, pc, current, todo, chainVars, unchecked>>

\* The source takes p: a webhook's request gets the lock of its route.
Receive(p) ==
    LET a == SourceOf[p] IN
    /\ p \notin Malformed
    /\ pc[a] = "free"
    /\ attempts[p] < MaxAttempts[p]
    /\ attempts' = [attempts EXCEPT ![p] = @ + 1]
    /\ pc' = [pc EXCEPT ![a] = "transform"]
    /\ current' = [current EXCEPT ![a] = p]
    /\ todo' = [todo EXCEPT ![a] = Outputs[p]]
    /\ UNCHANGED <<queueVars, chainVars, answer, unchecked>>

\* The send of the chain returned: answer, unlock.
Done(a, what) ==
    /\ answer' = [answer EXCEPT ![current[a]] = what]
    /\ pc' = [pc EXCEPT ![a] = "free"]
    /\ current' = [current EXCEPT ![a] = None]
    /\ todo' = [todo EXCEPT ![a] = <<>>]

KeyOf(a) == DedupKey[Head(todo[a])]
Dedups(a) == DedupCapacity[a] > 0 /\ KeyOf(a) # NoKey

\* Every event of the payload went through.
Complete(a) ==
    /\ pc[a] = "transform" /\ todo[a] = <<>>
    /\ Done(a, "created")
    /\ UNCHANGED <<queueVars, chainVars, attempts, unchecked>>

\* deduplicate, disabled or without a key: the event passes.
PassThrough(a) ==
    /\ pc[a] = "transform" /\ todo[a] # <<>> /\ ~Dedups(a)
    /\ pc' = [pc EXCEPT ![a] = "check"]
    /\ UNCHANGED <<queueVars, current, todo, chainVars, clientVars, unchecked>>

\* deduplicate, key already seen: dropped, Ok.
DropDuplicate(a) ==
    /\ pc[a] = "transform" /\ todo[a] # <<>> /\ Dedups(a)
    /\ KeyOf(a) \in Range(seen[a])
    /\ todo' = [todo EXCEPT ![a] = Tail(@)]
    /\ UNCHANGED <<queueVars, pc, current, chainVars, clientVars, unchecked>>

\* Faults: one key more, one key fewer.
EvictLate(a)  == IF Len(seen[a]) > DedupCapacity[a] THEN Tail(seen[a]) ELSE seen[a]
EvictEarly(a) == IF Len(seen[a]) + 1 >= DedupCapacity[a] /\ seen[a] # <<>>
                 THEN Tail(seen[a]) ELSE seen[a]

\* The keys kept once room is made for a new one.
Evict(a) == IF Len(seen[a]) >= DedupCapacity[a] THEN Tail(seen[a]) ELSE seen[a]

\* deduplicate, new key: remembered before the event is sent on.
RecordKey(a) ==
    /\ pc[a] = "transform" /\ todo[a] # <<>> /\ Dedups(a)
    /\ KeyOf(a) \notin Range(seen[a])
    /\ seen' = [seen EXCEPT ![a] = Append(Evict(a), KeyOf(a))]
    /\ recorded' = [recorded EXCEPT ![a] = Append(@, KeyOf(a))]
    /\ pc' = [pc EXCEPT ![a] = "check"]
    /\ UNCHANGED <<queueVars, current, todo, refused, clientVars, unchecked>>

RememberRefusal(a) ==
    refused' = IF Dedups(a) THEN [refused EXCEPT ![a] = @ \cup {KeyOf(a)}] ELSE refused

\* Processor::send looks at the queue...
RefuseSaturated(a) ==
    /\ pc[a] = "check" /\ a \in Backpressure /\ Saturated
    /\ Done(a, "unavailable")
    /\ RememberRefusal(a)
    /\ UNCHANGED <<queueVars, seen, recorded, attempts, unchecked>>

PassCheck(a) ==
    /\ pc[a] = "check" /\ ~(a \in Backpressure /\ Saturated)
    /\ pc' = [pc EXCEPT ![a] = "send"]
    /\ UNCHANGED <<queueVars, current, todo, chainVars, clientVars, unchecked>>

\* ... makes a CDEvent of the event...
RefuseEvent(a) ==
    /\ pc[a] = "send" /\ Head(todo[a]) \in Unconvertible
    /\ Done(a, "rejected")
    /\ RememberRefusal(a)
    /\ UNCHANGED <<queueVars, seen, recorded, attempts, unchecked>>

\* Fault: an event that finds the queue full is dropped.
EnqueueBounded(e) == IF \E s \in Sink : Backlog(s) >= RingSize THEN log
                                                             ELSE Append(log, e)

Enqueue(e) == Append(log, e)

\* ... and sends it to the broadcast channel, which never refuses.
SendMessage(a) ==
    /\ pc[a] = "send" /\ Head(todo[a]) \notin Unconvertible
    /\ log' = Enqueue(Head(todo[a]))
    /\ unchecked' = IF a \in Backpressure THEN unchecked ELSE unchecked + 1
    /\ todo' = [todo EXCEPT ![a] = Tail(@)]
    /\ pc' = [pc EXCEPT ![a] = "transform"]
    /\ UNCHANGED <<cursor, lagged, current, chainVars, clientVars>>
-----------------------------------------------------------------------------
(***************************************************************************)
(* sinks::start: a sink receives a message, awaits its send, logs a        *)
(* failure and goes on; while it awaits, it receives nothing.              *)
(***************************************************************************)
Recv(s) ==
    /\ Backlog(s) \in 1..RingSize
    /\ cursor' = [cursor EXCEPT ![s] = @ + 1]
    /\ UNCHANGED <<log, lagged, pc, current, todo, chainVars, clientVars, unchecked>>

\* Fault: it stops receiving.
ResumeNever(s) == cursor[s]

\* Where a lagging receiver goes on: the oldest message of the ring.
ResumeAt(s) == Len(log) - RingSize

\* RecvError::Lagged: counted, and the loop goes on.
RecvLagged(s) ==
    /\ Backlog(s) > RingSize
    /\ cursor' = [cursor EXCEPT ![s] = ResumeAt(s)]
    /\ lagged' = [lagged EXCEPT ![s] = @ \cup (cursor[s] + 1)..ResumeAt(s)]
    /\ UNCHANGED <<log, pc, current, todo, chainVars, clientVars, unchecked>>

SourceStep(a) ==
    \/ Complete(a) \/ PassThrough(a) \/ DropDuplicate(a) \/ RecordKey(a)
    \/ RefuseSaturated(a) \/ PassCheck(a) \/ RefuseEvent(a) \/ SendMessage(a)

SinkStep(s) == Recv(s) \/ RecvLagged(s)

Next ==
    \/ \E p \in Payload : Reject(p) \/ Receive(p)
    \/ \E a \in Source : SourceStep(a)
    \/ \E s \in Sink : SinkStep(s)

Spec == Init /\ [][Next]_vars

(***************************************************************************)
(* The runtime polls every ready task and every sink's send returns (each  *)
(* client has a timeout or gives up its retries). Producers owe nothing.   *)
(***************************************************************************)
FairSpec ==
    /\ Spec
    /\ \A a \in Source : WF_vars(SourceStep(a))
    /\ \A s \in Sink : WF_vars(SinkStep(s))
-----------------------------------------------------------------------------
TypeOK ==
    /\ log \in Seq(Event)
    /\ cursor \in [Sink -> 0..Len(log)]
    /\ lagged \in [Sink -> SUBSET (1..Len(log))]
    /\ pc \in [Source -> {"free", "transform", "check", "send"}]
    /\ current \in [Source -> Payload \cup {None}]
    /\ \A a \in Source : pc[a] # "free" => current[a] \in Payload
    /\ todo \in [Source -> Seq(Event)]
    /\ \A a \in Source : pc[a] \in {"check", "send"} => todo[a] # <<>>
    /\ seen \in [Source -> Seq(Key)]
    /\ \A a \in Source : Len(seen[a]) <= DedupCapacity[a]
    /\ recorded \in [Source -> Seq(Key)]
    /\ answer \in [Payload -> Answers]
    /\ attempts \in [Payload -> Nat]
    /\ \A p \in Payload : attempts[p] <= MaxAttempts[p]
    /\ refused \in [Source -> SUBSET Key]
    /\ unchecked \in 0..Len(log)

(***************************************************************************)
(* The headroom above the watermark is enough for the events that passed   *)
(* the check together: if the webhooks are not more than that headroom     *)
(* plus one, no sink ever skips a message, as long as no source without    *)
(* backpressure has sent any (HIGH_WATERMARK_RATIO's "a burst that is      *)
(* already in flight still fits").                                         *)
(***************************************************************************)
CrowdFits == Cardinality(Backpressure) <= RingSize - Watermark + 1

HeadroomHolds ==
    CrowdFits /\ unchecked = 0 =>
        \A s \in Sink : lagged[s] = {} /\ Backlog(s) <= RingSize

(***************************************************************************)
(* A producer answered 201 may forget its payload: each event made of it   *)
(* is in the queue, or one with the same key is. The deduplicate step      *)
(* remembers the key of an event that is then refused; only the events     *)
(* with such a key are answered 201 without being queued.                  *)
(***************************************************************************)
Sent(e) == \E i \in 1..Len(log) : \/ log[i] = e
                                  \/ /\ DedupKey[e] # NoKey
                                     /\ DedupKey[log[i]] = DedupKey[e]

CreatedIsSentUnlessRefused ==
    \A p \in Payload : answer[p] = "created" =>
        \A e \in Range(Outputs[p]) :
            Sent(e) \/ DedupKey[e] \in refused[SourceOf[p]]

(***************************************************************************)
(* What the 503 is for: the producer retries instead of losing the event,  *)
(* so every payload finally answered 201 has all its events in the queue   *)
(* (webhook(), the comment on backpressure).                               *)
(***************************************************************************)
CreatedIsSent ==
    \A p \in Payload : answer[p] = "created" => \A e \in Range(Outputs[p]) : Sent(e)

(***************************************************************************)
(* A key is forgotten only when as many newer ones as the capacity have    *)
(* been recorded: two recordings of one key are more than a full window    *)
(* apart.                                                                  *)
(***************************************************************************)
DedupWindow ==
    \A a \in Source : \A i, j \in 1..Len(recorded[a]) :
        i < j /\ recorded[a][i] = recorded[a][j] => j - i > DedupCapacity[a]

(***************************************************************************)
(* Backpressure is relieved and no event waits for ever: every sink, also  *)
(* one that lagged, gets to the end of the queue again and again, so a     *)
(* refused producer that keeps retrying finds room.                        *)
(***************************************************************************)
SinksCatchUp ==
    \A s \in Sink : []<>(Backlog(s) = 0)
=============================================================================
