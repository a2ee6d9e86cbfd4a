---------------------------- MODULE AckedSource ----------------------------
(***************************************************************************)
(* The NATS and Kafka sources (sources/nats, sources/kafka): messages are  *)
(* taken one by one, processed, and the broker is told, by the source      *)
(* (JetStream), by the client's timer (Kafka), or not at all (core NATS,   *)
(* Kafka without auto_commit). The process may crash or stop at any step   *)
(* and start again.                                                        *)
(***************************************************************************)
EXTENDS Integers, FiniteSets, Sequences

CONSTANTS
    Modes,       \* those of "core", "jetstream", "kafka", "kafka_uncommitted"
    MaxMessages, \* bound: the messages published
    MaxInbox,    \* bound: what the client prefetches
    MaxStops     \* bound: how often the process ends

VARIABLES
    mode,
    published,   \* the messages 1..published are with the broker
    running,     \* whether the source runs
    stops,
    position,    \* the last message delivered to the running client
    inbox,       \* messages delivered, not taken yet
    hand,        \* the message being processed, 0 if none
    toAck,       \* the message processed and about to be acknowledged
    acked,       \* JetStream: the messages acknowledged
    offset,      \* Kafka: the stored offset, which the timer commits
    committed,   \* Kafka: the committed offset
    handled,     \* messages sent on, or dropped with a warning
    cut,         \* messages that were being processed at a crash
    again,       \* messages sent a second time
    excused      \* those that the broker could not know to be handled

brokerVars == <<mode, published>>
clientVars == <<position, inbox, hand, toAck>>
ackVars    == <<acked, offset, committed>>
pastVars   == <<handled, cut, again, excused>>
vars == <<brokerVars, running, stops, clientVars, ackVars, pastVars>>

IsKafka == mode \in {"kafka", "kafka_uncommitted"}

\* The messages the broker does not deliver again.
Gone == CASE mode = "jetstream" -> acked
          [] IsKafka            -> 1..committed
          [] OTHER              -> 1..position

Init ==
    /\ mode \in Modes /\ published = 0
    /\ running = TRUE /\ stops = 0
    /\ position = 0 /\ inbox = <<>> /\ hand = 0 /\ toAck = 0
    /\ acked = {} /\ offset = 0 /\ committed = 0
    /\ handled = {} /\ cut = {} /\ again = {} /\ excused = {}

(***************************************************************************)
(* The broker and its client                                               *)
(***************************************************************************)

\* Core NATS delivers to the present subscribers only.
Publish ==
    /\ published < MaxMessages /\ published' = published + 1
    /\ position' = IF mode = "core" /\ ~running THEN published + 1 ELSE position
    /\ UNCHANGED <<mode, running, stops, inbox, hand, toAck, ackVars, pastVars>>

Deliver ==
    /\ running /\ Len(inbox) < MaxInbox
    /\ \E m \in (position + 1)..published \ acked :
         /\ \A l \in (position + 1)..(m - 1) : l \in acked
         /\ position' = m /\ inbox' = Append(inbox, m)
    /\ UNCHANGED <<brokerVars, running, stops, hand, toAck, ackVars, pastVars>>

\* JetStream: ack_wait is over, the message waited in the inbox or its ack got
\* lost.
Redeliver(m) ==
    /\ mode = "jetstream" /\ running /\ Len(inbox) < MaxInbox
    /\ m \in 1..position \ acked
    /\ inbox' = Append(inbox, m) /\ excused' = excused \cup {m}
    /\ UNCHANGED <<brokerVars, running, stops, position, hand, toAck, ackVars, handled, cut, again>>

\* Kafka stores the offset of what it hands out.
Take ==
    /\ running /\ hand = 0 /\ toAck = 0 /\ inbox # <<>>
    /\ hand' = Head(inbox) /\ inbox' = Tail(inbox)
    /\ offset' = IF IsKafka THEN Head(inbox) ELSE offset
    /\ UNCHANGED <<brokerVars, running, stops, position, toAck, acked, committed, pastVars>>

\* enable.auto.commit: the client's timer, in a thread of its own
AutoCommit ==
    /\ mode = "kafka" /\ running
    /\ committed' = offset
    /\ UNCHANGED <<brokerVars, running, stops, clientVars, acked, offset, pastVars>>

(***************************************************************************)
(* The loop of the source                                                  *)
(***************************************************************************)

\* process_message: sent on, refused by the pipe, rejected by the header rules,
\* or without payload; all of them end in Ok.
ProcessMessage ==
    /\ hand # 0
    /\ handled' = handled \cup {hand}
    /\ again' = again \cup ({hand} \cap handled)
    /\ toAck' = IF mode = "jetstream" THEN hand ELSE 0
    /\ hand' = 0
    /\ UNCHANGED <<brokerVars, running, stops, position, inbox, ackVars, cut, excused>>

\* Fault: the message is acknowledged as it comes.
AckFirst ==
    /\ hand # 0 \/ toAck # 0
    /\ acked' = IF mode = "jetstream" THEN acked \cup ({hand, toAck} \ {0}) ELSE acked
    /\ toAck' = 0
    /\ UNCHANGED <<brokerVars, running, stops, position, inbox, hand, offset, committed, pastVars>>

\* message.ack().await; a failure is logged.
Ack ==
    /\ toAck # 0 /\ toAck' = 0
    /\ acked' \in {acked, acked \cup {toAck}}
    /\ UNCHANGED <<brokerVars, running, stops, position, inbox, hand, offset, committed, pastVars>>

\* The token is cancelled, or the stream ended: the loop breaks between two
\* messages, and Kafka's client commits as it leaves the group.
Stop ==
    /\ running /\ hand = 0 /\ toAck = 0 /\ stops < MaxStops
    /\ running' = FALSE /\ stops' = stops + 1
    /\ committed' = IF mode = "kafka" THEN offset ELSE committed
    /\ inbox' = <<>>
    /\ excused' = IF mode = "kafka" THEN excused ELSE excused \cup (handled \ Gone)
    /\ UNCHANGED <<brokerVars, position, hand, toAck, acked, offset, handled, cut, again>>

Crash ==
    /\ running /\ stops < MaxStops
    /\ running' = FALSE /\ stops' = stops + 1
    /\ cut' = cut \cup ({hand} \ {0})
    /\ excused' = excused \cup (handled \ Gone)
    /\ inbox' = <<>> /\ hand' = 0 /\ toAck' = 0
    /\ UNCHANGED <<brokerVars, position, ackVars, handled, again>>

\* Kafka resumes after the committed offset, auto.offset.reset = earliest if
\* there is none; JetStream delivers what is not acknowledged.
Start ==
    /\ ~running /\ running' = TRUE
    /\ position' = CASE mode = "core" -> position [] mode = "jetstream" -> 0 [] OTHER -> committed
    /\ offset' = committed
    /\ UNCHANGED <<brokerVars, stops, inbox, hand, toAck, acked, committed, pastVars>>

Next == \/ Publish \/ Deliver \/ Take \/ AutoCommit \/ ProcessMessage \/ Ack
        \/ Stop \/ Crash \/ Start \/ \E m \in 1..MaxMessages : Redeliver(m)

Spec == Init /\ [][Next]_vars

-----------------------------------------------------------------------------
\* A message the broker will not deliver again was handled, except one that was
\* being processed when the process crashed just after Kafka's timer committed
\* it (kafka/mod.rs:112), and those core NATS never keeps. JetStream loses none
\* (nats/mod.rs:168). And a message is handled twice only if the broker could
\* not know of the first time: a crash or a lost acknowledgement, never a stop
\* between two messages.
AckedIsHandled ==
    /\ mode = "jetstream" => Gone \subseteq handled
    /\ mode = "kafka" => Gone \subseteq handled \cup cut \cup {hand}
    /\ mode = "kafka_uncommitted" => Gone = {}
    /\ Cardinality(cut) <= stops
    /\ again \subseteq excused
=============================================================================
