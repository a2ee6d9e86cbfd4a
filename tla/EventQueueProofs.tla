------------------------- MODULE EventQueueProofs -------------------------
(***************************************************************************)
(* Proofs about the source-to-sink path, for any number of sources, sinks, *)
(* payloads and events and any capacities.                                 *)
(***************************************************************************)
EXTENDS EventQueue, SequenceTheorems, FiniteSetTheorems, TLAPS

(***************************************************************************)
(* The elements a sequence holds                                           *)
(***************************************************************************)

\* An element of the range sits at some position.
LEMMA RangeIndex ==
    ASSUME NEW S, NEW s \in Seq(S), NEW x
    PROVE  x \in Range(s) <=> \E j \in 1..Len(s) : x = s[j]
  BY DEF Range

\* The empty sequence holds nothing.
LEMMA RangeEmpty == Range(<<>>) = {}
  BY DEF Range

\* Append adds the appended element.
LEMMA RangeAppend ==
    ASSUME NEW S, NEW s \in Seq(S), NEW e \in S
    PROVE  /\ Append(s, e) \in Seq(S)
           /\ Len(Append(s, e)) = Len(s) + 1
           /\ Range(Append(s, e)) = Range(s) \cup {e}
  <1> DEFINE t == Append(s, e)
  <1>1. /\ t \in Seq(S) /\ Len(t) = Len(s) + 1
        /\ \A j \in 1..Len(s) : t[j] = s[j]
        /\ t[Len(s) + 1] = e
    BY AppendProperties
  <1> HIDE DEF t
  <1>2. ASSUME NEW x PROVE x \in Range(t) <=> x \in Range(s) \cup {e}
    <2>1. x \in Range(t) <=> \E j \in 1..Len(t) : x = t[j]
      BY <1>1, RangeIndex
    <2>2. x \in Range(s) <=> \E j \in 1..Len(s) : x = s[j]
      BY RangeIndex
    <2>3. Len(s) \in Nat
      BY LenProperties
    <2>4. QED
      BY <1>1, <2>1, <2>2, <2>3
  <1>3. QED
    BY <1>1, <1>2 DEF t

\* Dropping the head loses at most the head.
LEMMA RangeTail ==
    ASSUME NEW S, NEW s \in Seq(S), s # <<>>
    PROVE  /\ Tail(s) \in Seq(S)
           /\ Range(s) = {Head(s)} \cup Range(Tail(s))
  <1> DEFINE t == Tail(s)
  <1>1. /\ t \in Seq(S) /\ Len(t) = Len(s) - 1
        /\ \A j \in 1..Len(t) : t[j] = s[j + 1]
    BY HeadTailProperties
  <1>2. Head(s) = s[1] /\ Len(s) \in Nat \ {0}
    BY EmptySeq
  <1> HIDE DEF t
  <1>3. ASSUME NEW x PROVE x \in Range(s) <=> x = s[1] \/ x \in Range(t)
    <2>1. x \in Range(s) <=> \E j \in 1..Len(s) : x = s[j]
      BY RangeIndex
    <2>2. x \in Range(t) <=> \E j \in 1..Len(t) : x = t[j]
      BY <1>1, RangeIndex
    <2>3. ASSUME NEW j \in 1..Len(s), x = s[j], j # 1
          PROVE  j - 1 \in 1..Len(t) /\ x = t[j - 1]
      BY <1>1, <1>2, <2>3
    <2>4. ASSUME NEW j \in 1..Len(t), x = t[j]
          PROVE  j + 1 \in 1..Len(s) /\ x = s[j + 1]
      BY <1>1, <1>2, <2>4
    <2>5. 1 \in 1..Len(s)
      BY <1>2
    <2>6. QED
      BY <2>1, <2>2, <2>3, <2>4, <2>5
  <1>4. QED
    BY <1>1, <1>2, <1>3 DEF t

-----------------------------------------------------------------------------
(***************************************************************************)
(* Type correctness                                                        *)
(***************************************************************************)

\* The initial state is well typed.
LEMMA InitType == Init => TypeOK
  BY QueueAssumption DEF Init, TypeOK, Answers

\* Counting an attempt stays within the bound.
LEMMA AttemptsType ==
    ASSUME TypeOK, NEW p \in Payload, attempts[p] < MaxAttempts[p],
           attempts' = [attempts EXCEPT ![p] = @ + 1]
    PROVE  /\ attempts' \in [Payload -> Nat]
           /\ \A q \in Payload : attempts'[q] <= MaxAttempts[q]
  <1>1. MaxAttempts \in [Payload -> Nat]
    BY QueueAssumption
  <1>2. /\ attempts \in [Payload -> Nat]
        /\ \A q \in Payload : attempts[q] <= MaxAttempts[q]
    BY DEF TypeOK
  <1>3. QED
    BY <1>1, <1>2

\* Rejecting or taking a payload keeps the types.
LEMMA ClientType ==
    ASSUME TypeOK, NEW p \in Payload, Reject(p) \/ Receive(p)
    PROVE  TypeOK'
  <1>1. CASE Reject(p)
    <2>1. UNCHANGED <<log, cursor, lagged, pc, current, todo, seen, recorded, refused,
                      unchecked>>
      BY <1>1 DEF Reject, queueVars, chainVars
    <2>2. /\ attempts' \in [Payload -> Nat]
          /\ \A q \in Payload : attempts'[q] <= MaxAttempts[q]
      BY <1>1, AttemptsType DEF Reject
    <2>3. answer' \in [Payload -> Answers]
      BY <1>1 DEF Reject, TypeOK, Answers
    <2>4. QED
      BY <2>1, <2>2, <2>3 DEF TypeOK
  <1>2. CASE Receive(p)
    <2>1. /\ SourceOf[p] \in Source /\ Outputs[p] \in Seq(Event)
          /\ MaxAttempts[p] \in Nat
      BY QueueAssumption
    <2>2. UNCHANGED <<log, cursor, lagged, seen, recorded, refused, answer, unchecked>>
      BY <1>2 DEF Receive, queueVars, chainVars
    <2>3. /\ pc' = [pc EXCEPT ![SourceOf[p]] = "transform"]
          /\ current' = [current EXCEPT ![SourceOf[p]] = p]
          /\ todo' = [todo EXCEPT ![SourceOf[p]] = Outputs[p]]
      BY <1>2 DEF Receive
    <2>4. /\ attempts' \in [Payload -> Nat]
          /\ \A q \in Payload : attempts'[q] <= MaxAttempts[q]
      BY <1>2, AttemptsType DEF Receive
    <2>5. QED
      BY <2>1, <2>2, <2>3, <2>4 DEF TypeOK
  <1>3. QED
    BY <1>1, <1>2

\* A source answers: used for each of the three answers it gives.
LEMMA DoneType ==
    ASSUME TypeOK, NEW a \in Source, pc[a] # "free", NEW what \in Answers,
           Done(a, what)
    PROVE  /\ pc' \in [Source -> {"free", "transform", "check", "send"}]
           /\ current' \in [Source -> Payload \cup {None}]
           /\ \A b \in Source : pc'[b] # "free" => current'[b] \in Payload
           /\ todo' \in [Source -> Seq(Event)]
           /\ \A b \in Source : pc'[b] \in {"check", "send"} => todo'[b] # <<>>
           /\ answer' \in [Payload -> Answers]
  BY DEF TypeOK, Done

\* What RememberRefusal adds is a key.
LEMMA RefusalType ==
    ASSUME TypeOK, NEW a \in Source, todo[a] # <<>>, RememberRefusal(a)
    PROVE  refused' \in [Source -> SUBSET Key]
  <1>1. Head(todo[a]) \in Event
    BY DEF TypeOK
  <1>2. Dedups(a) => KeyOf(a) \in Key
    BY <1>1, QueueAssumption DEF Dedups, KeyOf
  <1>3. QED
    BY <1>2 DEF RememberRefusal, TypeOK

\* A recorded key leaves room in seen.
LEMMA RecordType ==
    ASSUME TypeOK, NEW a \in Source, RecordKey(a)
    PROVE  /\ KeyOf(a) \in Key
           /\ DedupCapacity[a] > 0
           /\ Evict(a) \in Seq(Key)
           /\ Len(Evict(a)) < DedupCapacity[a]
  <1>1. Head(todo[a]) \in Event /\ Dedups(a)
    BY DEF TypeOK, RecordKey
  <1>2. KeyOf(a) \in Key /\ DedupCapacity[a] > 0 /\ DedupCapacity[a] \in Nat
    BY <1>1, QueueAssumption DEF Dedups, KeyOf
  <1>3. seen[a] \in Seq(Key) /\ Len(seen[a]) <= DedupCapacity[a]
    BY DEF TypeOK
  <1>4. QED
    BY <1>2, <1>3 DEF Evict

\* Every step of a source keeps the types.
LEMMA SourceType ==
    ASSUME TypeOK, NEW a \in Source, SourceStep(a)
    PROVE  TypeOK'
  <1>1. CASE Complete(a)
    <2>1. pc[a] # "free" /\ Done(a, "created") /\ "created" \in Answers
      BY <1>1 DEF Complete, Answers
    <2>2. UNCHANGED <<log, cursor, lagged, seen, recorded, refused, attempts, unchecked>>
      BY <1>1 DEF Complete, queueVars, chainVars
    <2>3. QED
      BY <2>1, <2>2, DoneType DEF TypeOK
  <1>2. CASE PassThrough(a)
    BY <1>2 DEF PassThrough, queueVars, chainVars, clientVars, TypeOK
  <1>3. CASE DropDuplicate(a)
    BY <1>3 DEF DropDuplicate, queueVars, chainVars, clientVars, TypeOK
  <1>4. CASE RecordKey(a)
    <2> DEFINE kept == Evict(a)
    <2>1. kept \in Seq(Key) /\ Len(kept) < DedupCapacity[a] /\ KeyOf(a) \in Key
      BY <1>4, RecordType
    <2>2. /\ seen' = [seen EXCEPT ![a] = Append(kept, KeyOf(a))]
          /\ recorded' = [recorded EXCEPT ![a] = Append(recorded[a], KeyOf(a))]
          /\ pc' = [pc EXCEPT ![a] = "check"]
          /\ UNCHANGED <<log, cursor, lagged, current, todo, refused, answer,
                         attempts, unchecked>>
          /\ pc[a] = "transform" /\ todo[a] # <<>>
      BY <1>4 DEF RecordKey, queueVars, clientVars
    <2> HIDE DEF kept
    <2>3. DedupCapacity \in [Source -> Nat]
      BY QueueAssumption
    <2>4. /\ seen' \in [Source -> Seq(Key)]
          /\ \A b \in Source : Len(seen'[b]) <= DedupCapacity[b]
          /\ recorded' \in [Source -> Seq(Key)]
      <3>1. /\ Append(kept, KeyOf(a)) \in Seq(Key)
            /\ Len(Append(kept, KeyOf(a))) <= DedupCapacity[a]
        BY <2>1, <2>3
      <3>2. Append(recorded[a], KeyOf(a)) \in Seq(Key)
        BY <2>1 DEF TypeOK
      <3>3. QED
        BY <2>2, <3>1, <3>2 DEF TypeOK
    <2>5. QED
      BY <2>2, <2>4 DEF TypeOK
  <1>5. CASE RefuseSaturated(a)
    <2>1. pc[a] # "free" /\ Done(a, "unavailable") /\ "unavailable" \in Answers
      BY <1>5 DEF RefuseSaturated, Answers
    <2>2. UNCHANGED <<log, cursor, lagged, seen, recorded, attempts, unchecked>>
      BY <1>5 DEF RefuseSaturated, queueVars
    <2>3. refused' \in [Source -> SUBSET Key]
      BY <1>5, RefusalType DEF RefuseSaturated, TypeOK
    <2>4. QED
      BY <2>1, <2>2, <2>3, DoneType DEF TypeOK
  <1>6. CASE PassCheck(a)
    BY <1>6 DEF PassCheck, queueVars, chainVars, clientVars, TypeOK
  <1>7. CASE RefuseEvent(a)
    <2>1. pc[a] # "free" /\ Done(a, "rejected") /\ "rejected" \in Answers
      BY <1>7 DEF RefuseEvent, Answers
    <2>2. UNCHANGED <<log, cursor, lagged, seen, recorded, attempts, unchecked>>
      BY <1>7 DEF RefuseEvent, queueVars
    <2>3. refused' \in [Source -> SUBSET Key]
      BY <1>7, RefusalType DEF RefuseEvent, TypeOK
    <2>4. QED
      BY <2>1, <2>2, <2>3, DoneType DEF TypeOK
  <1>8. CASE SendMessage(a)
    <2>1. todo[a] \in Seq(Event) /\ todo[a] # <<>> /\ log \in Seq(Event)
      BY <1>8 DEF SendMessage, TypeOK
    <2>2. log' = Append(log, Head(todo[a])) /\ Head(todo[a]) \in Event
      BY <1>8, <2>1 DEF SendMessage, Enqueue
    <2>3. log' \in Seq(Event) /\ Len(log') = Len(log) + 1
      BY <2>1, <2>2
    <2>4. /\ todo' = [todo EXCEPT ![a] = Tail(todo[a])]
          /\ pc' = [pc EXCEPT ![a] = "transform"]
          /\ pc[a] = "send"
          /\ UNCHANGED <<cursor, lagged, current, seen, recorded, refused, answer,
                         attempts>>
      BY <1>8 DEF SendMessage, chainVars, clientVars
    <2>5. unchecked' \in 0..Len(log')
      BY <1>8, <2>1, <2>3 DEF SendMessage, TypeOK
    <2>6. cursor \in [Sink -> 0..Len(log')] /\ lagged \in [Sink -> SUBSET (1..Len(log'))]
      BY <2>1, <2>3 DEF TypeOK
    <2>7. /\ todo' \in [Source -> Seq(Event)]
          /\ pc' \in [Source -> {"free", "transform", "check", "send"}]
          /\ \A b \in Source : pc'[b] # "free" => current'[b] \in Payload
          /\ \A b \in Source : pc'[b] \in {"check", "send"} => todo'[b] # <<>>
      BY <2>1, <2>4 DEF TypeOK
    <2>8. QED
      BY <2>3, <2>4, <2>5, <2>6, <2>7 DEF TypeOK
  <1>9. QED
    BY <1>1, <1>2, <1>3, <1>4, <1>5, <1>6, <1>7, <1>8 DEF SourceStep

\* Receiving and skipping keep the types.
LEMMA SinkType ==
    ASSUME TypeOK, NEW s \in Sink, SinkStep(s)
    PROVE  TypeOK'
  <1>1. Len(log) \in Nat /\ cursor[s] \in 0..Len(log) /\ RingSize \in Nat
    BY QueueAssumption DEF TypeOK
  <1>2. UNCHANGED <<log, pc, current, todo, seen, recorded, refused, answer, attempts,
                    unchecked>>
    BY DEF SinkStep, Recv, RecvLagged, chainVars, clientVars
  <1>3. cursor' \in [Sink -> 0..Len(log)]
    <2>1. CASE Recv(s)
      BY <1>1, <2>1 DEF Recv, Backlog, TypeOK
    <2>2. CASE RecvLagged(s)
      BY <1>1, <2>2 DEF RecvLagged, Backlog, ResumeAt, TypeOK
    <2>3. QED
      BY <2>1, <2>2 DEF SinkStep
  <1>4. lagged' \in [Sink -> SUBSET (1..Len(log))]
    <2>1. CASE Recv(s)
      BY <2>1 DEF Recv, TypeOK
    <2>2. CASE RecvLagged(s)
      <3>1. (cursor[s] + 1)..ResumeAt(s) \subseteq 1..Len(log)
        BY <1>1 DEF ResumeAt
      <3>2. QED
        BY <2>2, <3>1 DEF RecvLagged, TypeOK
    <2>3. QED
      BY <2>1, <2>2 DEF SinkStep
  <1>5. QED
    BY <1>2, <1>3, <1>4 DEF TypeOK

\* Every step keeps the types.
LEMMA NextType == TypeOK /\ [Next]_vars => TypeOK'
  <1> SUFFICES ASSUME TypeOK, [Next]_vars PROVE TypeOK'
    OBVIOUS
  <1>1. CASE \E p \in Payload : Reject(p) \/ Receive(p)
    BY <1>1, ClientType
  <1>2. CASE \E a \in Source : SourceStep(a)
    BY <1>2, SourceType
  <1>3. CASE \E s \in Sink : SinkStep(s)
    BY <1>3, SinkType
  <1>4. CASE UNCHANGED vars
    BY <1>4 DEF vars, TypeOK
  <1>5. QED
    BY <1>1, <1>2, <1>3, <1>4 DEF Next

\* In every reachable state the queue, the chains and the clients are well
\* typed; the memory of a deduplicate step never exceeds its capacity.
THEOREM TypeCorrect == Spec => []TypeOK
  BY InitType, NextType, PTL DEF Spec
-----------------------------------------------------------------------------
(***************************************************************************)
(* The headroom of the queue. HeadroomHolds is not inductive: a webhook    *)
(* that passed the check will send whatever the queue has become. The      *)
(* invariant counts those webhooks with the backlog: each of them saw a    *)
(* backlog below the watermark, and there is one per route at most.        *)
(***************************************************************************)
InFlight == {a \in Backpressure : pc[a] = "send"}

Burst ==
    \A s \in Sink : Backlog(s) + Cardinality(InFlight)
                        <= Watermark - 1 + Cardinality(Backpressure) + unchecked

NoneSkipped ==
    CrowdFits /\ unchecked = 0 => \A s \in Sink : lagged[s] = {}

HInv == TypeOK /\ Burst /\ NoneSkipped

\* The numbers the invariant is about.
LEMMA Numbers ==
    /\ RingSize \in Nat /\ Watermark \in Nat \ {0}
    /\ IsFiniteSet(Backpressure) /\ Cardinality(Backpressure) \in Nat
  <1>1. QueueCapacity \in Nat \ {0} /\ RingSize \in QueueCapacity..(2 * QueueCapacity - 1)
    BY QueueAssumption
  <1>2. RingSize \in Nat /\ Watermark \in Nat \ {0}
    BY <1>1 DEF Watermark
  <1>3. IsFiniteSet(Backpressure)
    BY QueueAssumption, FS_Subset
  <1>4. QED
    BY <1>2, <1>3, FS_CardinalityType

\* There are never more webhooks in flight than webhooks.
LEMMA FlightSize ==
    /\ IsFiniteSet(InFlight) /\ Cardinality(InFlight) \in Nat
    /\ Cardinality(InFlight) <= Cardinality(Backpressure)
  <1>1. InFlight \subseteq Backpressure
    BY DEF InFlight
  <1>2. QED
    BY <1>1, Numbers, FS_Subset, FS_CardinalityType

\* The burst is empty at first.
LEMMA InitHeadroom == Init => HInv
  <1> SUFFICES ASSUME Init PROVE HInv
    OBVIOUS
  <1>1. TypeOK
    BY InitType
  <1>2. Burst
    <2>1. InFlight = {}
      BY QueueAssumption DEF Init, InFlight
    <2>2. Cardinality(InFlight) = 0
      BY <2>1, FS_EmptySet
    <2>3. \A s \in Sink : Backlog(s) = 0
      BY DEF Init, Backlog
    <2>4. unchecked = 0
      BY DEF Init
    <2>5. QED
      BY <2>2, <2>3, <2>4, Numbers DEF Burst
  <1>3. NoneSkipped
    BY DEF Init, NoneSkipped
  <1>4. QED
    BY <1>1, <1>2, <1>3 DEF HInv

\* A step that leaves the queue alone and brings no webhook to its send.
LEMMA HeadroomQuiet ==
    ASSUME HInv, UNCHANGED <<log, cursor, lagged, unchecked>>,
           InFlight' \subseteq InFlight
    PROVE  Burst' /\ NoneSkipped'
  <1>1. Cardinality(InFlight') <= Cardinality(InFlight) /\ Cardinality(InFlight') \in Nat
    BY FlightSize, FS_Subset, FS_CardinalityType
  <1>2. \A s \in Sink : Backlog(s)' = Backlog(s) /\ Backlog(s) \in Int
    BY DEF Backlog, HInv, TypeOK
  <1>3. unchecked' = unchecked /\ unchecked \in Nat
    BY DEF HInv, TypeOK
  <1>4. Burst'
    BY <1>1, <1>2, <1>3, FlightSize, Numbers DEF HInv, Burst
  <1>5. QED
    BY <1>4 DEF HInv, NoneSkipped

\* A source's step: only the check adds to the webhooks in flight, and only
\* below the watermark.
LEMMA SourceHeadroom ==
    ASSUME HInv, NEW a \in Source, SourceStep(a)
    PROVE  Burst' /\ NoneSkipped'
  <1>0. pc \in [Source -> {"free", "transform", "check", "send"}] /\ Backpressure \subseteq Source
    BY QueueAssumption DEF HInv, TypeOK
  <1>1. CASE PassCheck(a)
    <2>1. UNCHANGED <<log, cursor, lagged, unchecked>>
      BY <1>1 DEF PassCheck, queueVars
    <2>2. CASE a \in Backpressure
      <3>1. \A s \in Sink : Backlog(s)' = Backlog(s) /\ Backlog(s) \in Int
        BY <2>1 DEF Backlog, HInv, TypeOK
      <3>2. \A s \in Sink : ~(Backlog(s) >= Watermark)
        BY <1>1, <2>2 DEF PassCheck, Saturated
      <3>3. /\ Cardinality(InFlight') \in Nat
            /\ Cardinality(InFlight') <= Cardinality(Backpressure)
        <4>1. InFlight' \subseteq Backpressure
          BY DEF InFlight
        <4>2. QED
          BY <4>1, Numbers, FS_Subset, FS_CardinalityType
      <3>4. unchecked' = unchecked /\ unchecked \in Nat
        BY <2>1 DEF HInv, TypeOK
      <3>5. Burst'
        BY <3>1, <3>2, <3>3, <3>4, Numbers DEF Burst
      <3>6. QED
        BY <2>1, <3>5 DEF HInv, NoneSkipped
    <2>3. CASE a \notin Backpressure
      <3>1. InFlight' \subseteq InFlight
        BY <1>0, <1>1, <2>3 DEF PassCheck, InFlight
      <3>2. QED
        BY <2>1, <3>1, HeadroomQuiet
    <2>4. QED
      BY <2>2, <2>3
  <1>2. CASE SendMessage(a)
    <2>1. /\ todo[a] \in Seq(Event) /\ todo[a] # <<>> /\ log \in Seq(Event)
          /\ unchecked \in Nat
      BY <1>2 DEF SendMessage, HInv, TypeOK
    <2>2. log' = Append(log, Head(todo[a])) /\ Head(todo[a]) \in Event
      BY <1>2, <2>1 DEF SendMessage, Enqueue
    <2>3. Len(log') = Len(log) + 1 /\ Len(log) \in Nat
      BY <2>1, <2>2
    <2>4. cursor' = cursor /\ lagged' = lagged /\ pc[a] = "send"
          /\ pc' = [pc EXCEPT ![a] = "transform"]
      BY <1>2 DEF SendMessage
    <2>5. \A s \in Sink : Backlog(s)' = Backlog(s) + 1 /\ Backlog(s) \in Int
      BY <2>3, <2>4 DEF Backlog, HInv, TypeOK
    <2>6. CASE a \in Backpressure
      <3>1. InFlight' = InFlight \ {a} /\ a \in InFlight
        BY <1>0, <2>4, <2>6 DEF InFlight
      <3>2. Cardinality(InFlight') = Cardinality(InFlight) - 1
        BY <3>1, FlightSize, FS_RemoveElement
      <3>3. unchecked' = unchecked
        BY <1>2, <2>6 DEF SendMessage
      <3>4. Burst'
        BY <2>1, <2>5, <3>2, <3>3, FlightSize, Numbers DEF HInv, Burst
      <3>5. QED
        BY <2>4, <3>3, <3>4 DEF HInv, NoneSkipped
    <2>7. CASE a \notin Backpressure
      <3>1. InFlight' = InFlight
        BY <1>0, <2>4, <2>7 DEF InFlight
      <3>2. unchecked' = unchecked + 1
        BY <1>2, <2>7 DEF SendMessage
      <3>3. Burst'
        BY <2>1, <2>5, <3>1, <3>2, FlightSize, Numbers DEF HInv, Burst
      <3>4. unchecked' # 0
        BY <2>1, <3>2
      <3>5. QED
        BY <3>3, <3>4 DEF NoneSkipped
    <2>8. QED
      BY <2>6, <2>7
  <1>3. CASE PassThrough(a) \/ DropDuplicate(a) \/ RecordKey(a)
    <2>1. UNCHANGED <<log, cursor, lagged, unchecked>>
      BY <1>3 DEF PassThrough, DropDuplicate, RecordKey, queueVars
    <2>2. InFlight' \subseteq InFlight
      BY <1>0, <1>3 DEF PassThrough, DropDuplicate, RecordKey, InFlight
    <2>3. QED
      BY <2>1, <2>2, HeadroomQuiet
  <1>4. CASE Complete(a) \/ RefuseSaturated(a) \/ RefuseEvent(a)
    <2>1. UNCHANGED <<log, cursor, lagged, unchecked>>
      BY <1>4 DEF Complete, RefuseSaturated, RefuseEvent, queueVars
    <2>2. pc' = [pc EXCEPT ![a] = "free"]
      BY <1>4 DEF Complete, RefuseSaturated, RefuseEvent, Done
    <2>3. InFlight' \subseteq InFlight
      BY <1>0, <2>2 DEF InFlight
    <2>4. QED
      BY <2>1, <2>3, HeadroomQuiet
  <1>5. QED
    BY <1>1, <1>2, <1>3, <1>4 DEF SourceStep

\* A sink's step shortens its backlog; it skips nothing while the bound on
\* the burst keeps the backlog within the ring.
LEMMA SinkHeadroom ==
    ASSUME HInv, NEW s \in Sink, SinkStep(s)
    PROVE  Burst' /\ NoneSkipped'
  <1>1. /\ log' = log /\ pc' = pc /\ unchecked' = unchecked
        /\ Len(log) \in Nat /\ cursor \in [Sink -> 0..Len(log)] /\ unchecked \in Nat
    BY DEF HInv, TypeOK, SinkStep, Recv, RecvLagged
  <1>2. \A t \in Sink : Backlog(t)' <= Backlog(t) /\ Backlog(t) \in Int /\ Backlog(t)' \in Int
    <2>1. CASE Recv(s)
      BY <1>1, <2>1 DEF Recv, Backlog
    <2>2. CASE RecvLagged(s)
      BY <1>1, <2>2, Numbers DEF RecvLagged, ResumeAt, Backlog
    <2>3. QED
      BY <2>1, <2>2 DEF SinkStep
  <1>3. InFlight' = InFlight
    BY <1>1 DEF InFlight
  <1>4. Burst'
    BY <1>1, <1>2, <1>3, FlightSize, Numbers DEF HInv, Burst
  <1>5. CASE Recv(s)
    BY <1>4, <1>5 DEF Recv, HInv, NoneSkipped
  <1>6. CASE RecvLagged(s)
    <2>1. ~(CrowdFits /\ unchecked = 0)
      <3>1. Backlog(s) > RingSize /\ Backlog(s) \in Int
        BY <1>2, <1>6 DEF RecvLagged
      <3>2. Backlog(s) <= Watermark - 1 + Cardinality(Backpressure) + unchecked
        BY <1>1, <1>2, FlightSize, Numbers DEF HInv, Burst
      <3>3. QED
        BY <3>1, <3>2, <1>1, Numbers DEF CrowdFits
    <2>2. QED
      BY <1>1, <1>4, <2>1 DEF NoneSkipped, CrowdFits
  <1>7. QED
    BY <1>5, <1>6 DEF SinkStep

\* Every step keeps the headroom invariant.
LEMMA NextHeadroom == HInv /\ [Next]_vars => HInv'
  <1> SUFFICES ASSUME HInv, [Next]_vars PROVE HInv'
    OBVIOUS
  <1>1. TypeOK'
    BY NextType DEF HInv
  <1>2. CASE \E p \in Payload : Reject(p) \/ Receive(p)
    <2> PICK p \in Payload : Reject(p) \/ Receive(p)
      BY <1>2
    <2>1. UNCHANGED <<log, cursor, lagged, unchecked>>
      BY DEF Reject, Receive, queueVars
    <2>2. InFlight' \subseteq InFlight
      BY QueueAssumption DEF Reject, Receive, InFlight, HInv, TypeOK
    <2>3. QED
      BY <1>1, <2>1, <2>2, HeadroomQuiet DEF HInv
  <1>3. CASE \E a \in Source : SourceStep(a)
    BY <1>1, <1>3, SourceHeadroom DEF HInv
  <1>4. CASE \E s \in Sink : SinkStep(s)
    BY <1>1, <1>4, SinkHeadroom DEF HInv
  <1>5. CASE UNCHANGED vars
    <2>1. UNCHANGED <<log, cursor, lagged, unchecked>> /\ InFlight' \subseteq InFlight
      BY <1>5 DEF vars, InFlight
    <2>2. QED
      BY <1>1, <2>1, HeadroomQuiet DEF HInv
  <1>6. QED
    BY <1>2, <1>3, <1>4, <1>5 DEF Next

\* The invariant bounds the backlog by the ring.
LEMMA HeadroomImplied == HInv => HeadroomHolds
  <1> SUFFICES ASSUME HInv, CrowdFits, unchecked = 0, NEW s \in Sink
               PROVE  lagged[s] = {} /\ Backlog(s) <= RingSize
    BY DEF HeadroomHolds
  <1>1. Backlog(s) \in Int
    BY DEF HInv, TypeOK, Backlog
  <1>2. Backlog(s) + Cardinality(InFlight) <= Watermark - 1 + Cardinality(Backpressure)
    BY Numbers DEF HInv, Burst
  <1>3. Backlog(s) <= RingSize
    BY <1>1, <1>2, FlightSize, Numbers DEF CrowdFits
  <1>4. QED
    BY <1>3 DEF HInv, NoneSkipped

\* For every number of webhooks the ring has headroom for, and whatever the
\* interleaving of their checks and sends, no sink skips a message before a
\* source without backpressure has sent one (Processor::send's watermark).
THEOREM Headroom == Spec => []HeadroomHolds
  BY InitHeadroom, NextHeadroom, HeadroomImplied, PTL DEF Spec
-----------------------------------------------------------------------------
(***************************************************************************)
(* The window of the deduplicate step. seen is the end of recorded: as     *)
(* long as the capacity allows, all of it.                                 *)
(***************************************************************************)
Window(a) ==
    /\ Len(seen[a]) <= Len(recorded[a])
    /\ \A i \in 1..Len(seen[a]) :
          seen[a][i] = recorded[a][Len(recorded[a]) - Len(seen[a]) + i]
    /\ Len(seen[a]) < DedupCapacity[a] => Len(seen[a]) = Len(recorded[a])
    /\ DedupCapacity[a] = 0 => recorded[a] = <<>>

Apart(a) ==
    \A i, j \in 1..Len(recorded[a]) :
        i < j /\ recorded[a][i] = recorded[a][j] => j - i > DedupCapacity[a]

DInv == TypeOK /\ \A a \in Source : Window(a) /\ Apart(a)

\* The history after one insertion: r2 is r and then k, which was not in the
\* last n entries of r.
LEMMA ApartStep ==
    ASSUME NEW r \in Seq(Key), NEW r2 \in Seq(Key), NEW n \in Nat, NEW k,
           Len(r2) = Len(r) + 1, r2[Len(r) + 1] = k,
           \A i \in 1..Len(r) : r2[i] = r[i],
           \A i \in 1..Len(r) : r[i] = k => Len(r) + 1 - i > n,
           \A i, j \in 1..Len(r) : i < j /\ r[i] = r[j] => j - i > n
    PROVE  \A i, j \in 1..Len(r2) : i < j /\ r2[i] = r2[j] => j - i > n
  <1> SUFFICES ASSUME NEW i \in 1..Len(r2), NEW j \in 1..Len(r2), i < j, r2[i] = r2[j]
               PROVE  j - i > n
    OBVIOUS
  <1>1. Len(r) \in Nat /\ i \in 1..Len(r)
    OBVIOUS
  <1>2. r2[i] = r[i]
    BY <1>1
  <1>3. CASE j = Len(r) + 1
    <2>1. r[i] = k
      BY <1>2, <1>3
    <2>2. Len(r) + 1 - i > n
      BY <1>1, <2>1
    <2>3. QED
      BY <1>3, <2>2
  <1>4. CASE j \in 1..Len(r)
    BY <1>1, <1>2, <1>4
  <1>5. QED
    BY <1>1, <1>3, <1>4

\* What is not in the memory s, the end of the history r, is not among the
\* last n entries of r.
LEMMA NotRecent ==
    ASSUME NEW s \in Seq(Key), NEW r \in Seq(Key), NEW n \in Nat, NEW k,
           Len(s) <= n, Len(s) <= Len(r), Len(s) < n => Len(s) = Len(r),
           \A i \in 1..Len(s) : s[i] = r[Len(r) - Len(s) + i],
           \A i \in 1..Len(s) : s[i] # k
    PROVE  \A i \in 1..Len(r) : r[i] = k => Len(r) + 1 - i > n
  <1> SUFFICES ASSUME NEW i \in 1..Len(r), r[i] = k PROVE Len(r) + 1 - i > n
    OBVIOUS
  <1>1. Len(s) \in Nat /\ Len(r) \in Nat
    OBVIOUS
  <1>2. ~(i > Len(r) - Len(s))
    <2> SUFFICES ASSUME i > Len(r) - Len(s) PROVE FALSE
      OBVIOUS
    <2>1. i - (Len(r) - Len(s)) \in 1..Len(s)
      BY <1>1
    <2>2. s[i - (Len(r) - Len(s))] = r[Len(r) - Len(s) + (i - (Len(r) - Len(s)))]
      BY <2>1
    <2>3. Len(r) - Len(s) + (i - (Len(r) - Len(s))) = i
      BY <1>1
    <2>4. QED
      BY <2>1, <2>2, <2>3
  <1>3. Len(s) = n
    BY <1>1, <1>2
  <1>4. QED
    BY <1>1, <1>2, <1>3

\* What Append and Tail do to positions.
LEMMA AppendAt ==
    ASSUME NEW s \in Seq(Key), NEW k \in Key
    PROVE  /\ Append(s, k) \in Seq(Key) /\ Len(Append(s, k)) = Len(s) + 1
           /\ Append(s, k)[Len(s) + 1] = k
           /\ \A i \in 1..Len(s) : Append(s, k)[i] = s[i]
  OBVIOUS

LEMMA TailAt ==
    ASSUME NEW s \in Seq(Key), s # <<>>
    PROVE  /\ Tail(s) \in Seq(Key) /\ Len(Tail(s)) = Len(s) - 1
           /\ \A i \in 1..(Len(s) - 1) : Tail(s)[i] = s[i + 1]
  OBVIOUS

\* Only RecordKey touches the memory of a deduplicate step.
LEMMA MemoryChange ==
    ASSUME [Next]_vars
    PROVE  \/ seen' = seen /\ recorded' = recorded
           \/ \E a \in Source : RecordKey(a)
  <1>1. CASE \E p \in Payload : Reject(p) \/ Receive(p)
    BY <1>1 DEF Reject, Receive, chainVars
  <1>2. CASE \E a \in Source : SourceStep(a)
    <2> PICK a \in Source : SourceStep(a)
      BY <1>2
    <2>1. CASE RecordKey(a)
      BY <2>1
    <2>2. CASE Complete(a) \/ PassThrough(a) \/ DropDuplicate(a) \/ RefuseSaturated(a)
                  \/ PassCheck(a) \/ RefuseEvent(a) \/ SendMessage(a)
      BY <2>2 DEF Complete, PassThrough, DropDuplicate, RefuseSaturated, PassCheck,
                  RefuseEvent, SendMessage, chainVars
    <2>3. QED
      BY <2>1, <2>2 DEF SourceStep
  <1>3. CASE \E s \in Sink : SinkStep(s)
    BY <1>3 DEF SinkStep, Recv, RecvLagged, chainVars
  <1>4. CASE UNCHANGED vars
    BY <1>4 DEF vars
  <1>5. QED
    BY <1>1, <1>2, <1>3, <1>4 DEF Next

\* Every step keeps the window.
LEMMA NextWindow == DInv /\ [Next]_vars => DInv'
  <1> SUFFICES ASSUME DInv, [Next]_vars PROVE DInv'
    OBVIOUS
  <1>1. TypeOK' /\ TypeOK
    BY NextType DEF DInv
  <1>2. CASE seen' = seen /\ recorded' = recorded
    BY <1>1, <1>2 DEF DInv, Window, Apart
  <1>3. ASSUME NEW a \in Source, RecordKey(a)
        PROVE  DInv'
    <2> DEFINE k == KeyOf(a)
    <2>1. /\ k \in Key /\ DedupCapacity[a] \in Nat \ {0}
          /\ seen[a] \in Seq(Key) /\ recorded[a] \in Seq(Key)
          /\ Len(seen[a]) <= DedupCapacity[a]
      BY <1>1, <1>3, RecordType, QueueAssumption DEF TypeOK
    <2>2. /\ k \notin Range(seen[a])
          /\ seen' = [seen EXCEPT ![a] = Append(Evict(a), k)]
          /\ recorded' = [recorded EXCEPT ![a] = Append(recorded[a], k)]
      BY <1>3 DEF RecordKey
    <2>3. Window(a) /\ Apart(a)
      BY DEF DInv
    <2> HIDE DEF k
    <2>4. \A i \in 1..Len(seen[a]) : seen[a][i] # k
      BY <2>1, <2>2, RangeIndex
    <2>5. /\ seen'[a] = Append(Evict(a), k) /\ recorded'[a] = Append(recorded[a], k)
          /\ \A b \in Source \ {a} : seen'[b] = seen[b] /\ recorded'[b] = recorded[b]
      BY <1>1, <2>2 DEF TypeOK
    <2>6. PICK d \in {0, 1} :
            /\ d = IF Len(seen[a]) >= DedupCapacity[a] THEN 1 ELSE 0
            /\ d <= Len(seen[a])
            /\ Evict(a) \in Seq(Key) /\ Len(Evict(a)) = Len(seen[a]) - d
            /\ \A i \in 1..(Len(seen[a]) - d) : Evict(a)[i] = seen[a][i + d]
      <3>1. CASE Len(seen[a]) >= DedupCapacity[a]
        <4>1. seen[a] # <<>> /\ Evict(a) = Tail(seen[a]) /\ 1 <= Len(seen[a])
          BY <2>1, <3>1 DEF Evict
        <4>2. QED
          BY <2>1, <3>1, <4>1, TailAt
      <3>2. CASE ~(Len(seen[a]) >= DedupCapacity[a])
        <4>1. Evict(a) = seen[a] /\ 0 <= Len(seen[a]) /\ Len(seen[a]) - 0 = Len(seen[a])
          BY <2>1, <3>2 DEF Evict
        <4>2. \A i \in 1..(Len(seen[a]) - 0) : seen[a][i] = seen[a][i + 0]
          BY <2>1
        <4>3. QED
          BY <2>1, <3>2, <4>1, <4>2
      <3>3. QED
        BY <3>1, <3>2
    <2> DEFINE s == seen[a]
               r == recorded[a]
               n == DedupCapacity[a]
               t == Evict(a)
               t2 == seen'[a]
               r2 == recorded'[a]
    <2>11. /\ s \in Seq(Key) /\ r \in Seq(Key) /\ n \in Nat \ {0} /\ t \in Seq(Key)
           /\ Len(s) <= n /\ Len(s) <= Len(r) /\ (Len(s) < n => Len(s) = Len(r))
           /\ \A i \in 1..Len(s) : s[i] = r[Len(r) - Len(s) + i]
           /\ \A i \in 1..Len(s) : s[i] # k
           /\ \A i, j \in 1..Len(r) : i < j /\ r[i] = r[j] => j - i > n
           /\ t2 = Append(t, k) /\ r2 = Append(r, k)
           /\ d = IF Len(s) >= n THEN 1 ELSE 0
           /\ d <= Len(s) /\ Len(t) = Len(s) - d
           /\ \A i \in 1..(Len(s) - d) : t[i] = s[i + d]
      BY <2>1, <2>3, <2>4, <2>5, <2>6 DEF Window, Apart
    <2> HIDE DEF s, r, n, t, t2, r2
    <2>12. /\ r2 \in Seq(Key) /\ Len(r2) = Len(r) + 1 /\ r2[Len(r) + 1] = k
           /\ \A i \in 1..Len(r) : r2[i] = r[i]
      BY <2>1, <2>11, AppendAt
    <2>13. /\ t2 \in Seq(Key) /\ Len(t2) = Len(t) + 1 /\ t2[Len(t) + 1] = k
           /\ \A i \in 1..Len(t) : t2[i] = t[i]
      BY <2>1, <2>11, AppendAt
    <2>14. /\ Len(t2) = Len(s) - d + 1 /\ t2[Len(s) - d + 1] = k
           /\ \A i \in 1..(Len(s) - d) : t2[i] = s[i + d]
      <3>1. Len(t) = Len(s) - d
        BY <2>11
      <3>2. \A i \in 1..Len(t) : t2[i] = t[i]
        BY <2>13
      <3>3. \A i \in 1..(Len(s) - d) : t2[i] = t[i] /\ t[i] = s[i + d]
        BY <2>11, <3>1, <3>2
      <3>4. Len(t2) = Len(t) + 1 /\ t2[Len(t) + 1] = k
        BY <2>13
      <3>5. QED
        BY <3>1, <3>3, <3>4
    <2>15. \A i \in 1..Len(t2) : t2[i] = r2[Len(r2) - Len(t2) + i]
      <3>1. /\ s \in Seq(Key) /\ r \in Seq(Key) /\ t2 \in Seq(Key) /\ r2 \in Seq(Key)
            /\ d <= Len(s) /\ Len(s) <= Len(r)
            /\ \A i \in 1..Len(s) : s[i] = r[Len(r) - Len(s) + i]
        BY <2>11, <2>12, <2>13
      <3>2. /\ Len(r2) = Len(r) + 1 /\ r2[Len(r) + 1] = k
            /\ \A i \in 1..Len(r) : r2[i] = r[i]
        BY <2>12
      <3> SUFFICES ASSUME NEW i \in 1..Len(t2)
                   PROVE  t2[i] = r2[Len(r2) - Len(t2) + i]
        OBVIOUS
      <3>3. Len(s) \in Nat /\ Len(r) \in Nat /\ d \in 0..1 /\ Len(t2) \in Nat
        BY <3>1
      <3>4. CASE i = Len(t2)
        <4>1. Len(r2) - Len(t2) + i = Len(r) + 1
          BY <3>2, <3>3, <3>4
        <4>2. t2[i] = k
          BY <2>14, <3>4
        <4>3. QED
          BY <3>2, <4>1, <4>2
      <3>5. CASE i < Len(t2)
        <4>1. i \in 1..(Len(s) - d) /\ i + d \in 1..Len(s)
          BY <2>14, <3>3, <3>5
        <4>2. t2[i] = s[i + d]
          BY <2>14, <4>1
        <4>3. s[i + d] = r[Len(r) - Len(s) + (i + d)]
          BY <3>1, <4>1
        <4>4. /\ Len(r2) - Len(t2) + i = Len(r) - Len(s) + (i + d)
              /\ Len(r) - Len(s) + (i + d) \in 1..Len(r)
          BY <2>14, <3>1, <3>2, <3>3, <4>1
        <4>5. r2[Len(r) - Len(s) + (i + d)] = r[Len(r) - Len(s) + (i + d)]
          BY <3>2, <4>4
        <4>6. QED
          BY <4>2, <4>3, <4>4, <4>5
      <3>6. QED
        BY <3>3, <3>4, <3>5
    <2>16. \A i \in 1..Len(r) : r[i] = k => Len(r) + 1 - i > n
      BY <2>11, NotRecent
    <2>17. \A i, j \in 1..Len(r2) : i < j /\ r2[i] = r2[j] => j - i > n
      <3>1. /\ r \in Seq(Key) /\ r2 \in Seq(Key) /\ n \in Nat
            /\ Len(r2) = Len(r) + 1 /\ r2[Len(r) + 1] = k
        BY <2>11, <2>12
      <3>2. \A i \in 1..Len(r) : r2[i] = r[i]
        BY <2>12
      <3>3. \A i, j \in 1..Len(r) : i < j /\ r[i] = r[j] => j - i > n
        BY <2>11
      <3>4. QED
        BY <2>16, <3>1, <3>2, <3>3, ApartStep
    <2>18. /\ Len(t2) <= Len(r2) /\ r2 # <<>>
           /\ Len(t2) < n => Len(t2) = Len(r2)
      <3>1. Len(s) \in Nat /\ Len(r) \in Nat
        BY <2>11
      <3>2. QED
        BY <2>11, <2>12, <2>14, <3>1
    <2>7. DedupCapacity[a] # 0
      BY <2>1
    <2>8. Window(a)' /\ Apart(a)'
      <3>1. Window(a)'
        BY <2>7, <2>15, <2>18 DEF Window, t2, r2, n
      <3>2. Apart(a)'
        BY <2>17 DEF Apart, r2, n
      <3>3. QED
        BY <3>1, <3>2
    <2>9. ASSUME NEW b \in Source \ {a}
          PROVE  Window(b)' /\ Apart(b)'
      <3>1. seen'[b] = seen[b] /\ recorded'[b] = recorded[b] /\ Window(b) /\ Apart(b)
        BY <2>5 DEF DInv
      <3>2. QED
        BY <3>1 DEF Window, Apart
    <2>10. QED
      BY <1>1, <2>8, <2>9 DEF DInv
  <1>4. QED
    BY <1>2, <1>3, MemoryChange

\* The window holds at first.
LEMMA InitWindow == Init => DInv
  <1> SUFFICES ASSUME Init PROVE DInv
    OBVIOUS
  <1>1. \A a \in Source : seen[a] = <<>> /\ recorded[a] = <<>>
    BY DEF Init
  <1>2. \A a \in Source : Window(a) /\ Apart(a)
    <2> SUFFICES ASSUME NEW a \in Source PROVE Window(a) /\ Apart(a)
      OBVIOUS
    <2>1. seen[a] = <<>> /\ recorded[a] = <<>> /\ Len(seen[a]) = 0 /\ Len(recorded[a]) = 0
      BY <1>1
    <2>2. QED
      BY <2>1 DEF Window, Apart
  <1>3. QED
    BY <1>2, InitType DEF DInv

\* In every reachable state the keys recorded in one window of a deduplicate
\* step are distinct: Processor::send lets a key pass again only after as many
\* other keys as its capacity.
THEOREM Deduplication == Spec => []DedupWindow
  <1>1. DInv => DedupWindow
    BY DEF DInv, Apart, DedupWindow
  <1>2. QED
    BY <1>1, InitWindow, NextWindow, PTL DEF Spec
-----------------------------------------------------------------------------
(***************************************************************************)
(* What a 201 means. Behind the answer stands what the source has done so  *)
(* far with the payload it handles (Progress), and behind a dropped        *)
(* duplicate what became of the event whose key was recorded (Accounted).  *)
(***************************************************************************)
Queued(k) == \E i \in 1..Len(log) : DedupKey[log[i]] = k

Covered(a, e) == Sent(e) \/ DedupKey[e] \in refused[a]

Progress ==
    \A a \in Source : pc[a] # "free" =>
        /\ SourceOf[current[a]] = a
        /\ \A e \in Range(Outputs[current[a]]) : e \in Range(todo[a]) \/ Covered(a, e)

Accounted ==
    \A a \in Source : \A k \in Range(recorded[a]) :
        \/ k \in refused[a]
        \/ Queued(k)
        \/ pc[a] \in {"check", "send"} /\ KeyOf(a) = k

CInv == DInv /\ Progress /\ Accounted /\ CreatedIsSentUnlessRefused

\* The queue and the record of refusals only grow.
Grown ==
    /\ \A e \in Event : Sent(e) => Sent(e)'
    /\ \A k \in Key : Queued(k) => Queued(k)'
    /\ \A a \in Source : refused[a] \subseteq refused'[a]

LEMMA Growth ==
    ASSUME TypeOK, [Next]_vars
    PROVE  Grown
  <1>1. \A a \in Source : refused[a] \subseteq refused'[a]
    <2>1. CASE refused' = refused
      BY <2>1
    <2>2. CASE \E a \in Source : RememberRefusal(a)
      BY <2>2 DEF RememberRefusal, TypeOK
    <2>3. refused' = refused \/ \E a \in Source : RememberRefusal(a)
      BY DEF Next, Reject, Receive, SourceStep, Complete, PassThrough, DropDuplicate,
             RecordKey, RefuseSaturated, PassCheck, RefuseEvent, SendMessage, SinkStep,
             Recv, RecvLagged, chainVars, vars
    <2>4. QED
      BY <2>1, <2>2, <2>3
  <1>2. log' = log \/ \E e \in Event : log' = Append(log, e)
    <2>1. CASE \E a \in Source : SendMessage(a)
      <3> PICK a \in Source : SendMessage(a)
        BY <2>1
      <3>1. todo[a] \in Seq(Event) /\ todo[a] # <<>>
        BY DEF SendMessage, TypeOK
      <3>2. QED
        BY <3>1 DEF SendMessage, Enqueue
    <2>2. CASE ~\E a \in Source : SendMessage(a)
      BY <2>2 DEF Next, Reject, Receive, SourceStep, Complete, PassThrough, DropDuplicate,
             RecordKey, RefuseSaturated, PassCheck, RefuseEvent, SinkStep,
             Recv, RecvLagged, queueVars, vars
    <2>3. QED
      BY <2>1, <2>2
  <1>3. /\ Len(log) \in Nat /\ Len(log') \in Nat /\ Len(log) <= Len(log')
        /\ \A i \in 1..Len(log) : log'[i] = log[i]
    BY <1>2 DEF TypeOK
  <1>4. \A i \in 1..Len(log) : i \in 1..Len(log')
    BY <1>3
  <1>5. QED
    BY <1>1, <1>3, <1>4 DEF Grown, Sent, Queued

\* Nothing was promised at first.
LEMMA InitAnswers == Init => CInv
  <1> SUFFICES ASSUME Init PROVE CInv
    OBVIOUS
  <1>1. DInv
    BY InitWindow
  <1>2. Progress
    BY DEF Init, Progress
  <1>3. Accounted
    <2>1. \A a \in Source : Range(recorded[a]) = {}
      BY RangeEmpty DEF Init
    <2>2. QED
      BY <2>1 DEF Accounted
  <1>4. CreatedIsSentUnlessRefused
    BY DEF Init, CreatedIsSentUnlessRefused
  <1>5. QED
    BY <1>1, <1>2, <1>3, <1>4 DEF CInv

\* What a step leaves of the invariant if it only moves source a, and keeps
\* the answers except perhaps that of the payload a handles.
LEMMA OtherSources ==
    ASSUME CInv, TypeOK', Grown, NEW a \in Source,
           \A b \in Source \ {a} : /\ pc'[b] = pc[b] /\ current'[b] = current[b]
                                   /\ todo'[b] = todo[b] /\ recorded'[b] = recorded[b]
    PROVE  /\ \A b \in Source \ {a} : pc'[b] # "free" =>
                 /\ SourceOf[current'[b]] = b
                 /\ \A e \in Range(Outputs[current'[b]]) :
                       e \in Range(todo'[b]) \/ Covered(b, e)'
           /\ \A b \in Source \ {a} : \A k \in Range(recorded'[b]) :
                 \/ k \in refused'[b]
                 \/ Queued(k)'
                 \/ pc'[b] \in {"check", "send"} /\ KeyOf(b)' = k
  <1>1. ASSUME NEW b \in Source \ {a}, pc'[b] # "free"
        PROVE  /\ SourceOf[current'[b]] = b
               /\ \A e \in Range(Outputs[current'[b]]) :
                     e \in Range(todo'[b]) \/ Covered(b, e)'
    <2>1. /\ SourceOf[current[b]] = b /\ current[b] \in Payload
          /\ \A e \in Range(Outputs[current[b]]) : e \in Range(todo[b]) \/ Covered(b, e)
      BY <1>1 DEF CInv, Progress, DInv, TypeOK
    <2>2. \A e \in Range(Outputs[current[b]]) : e \in Event
      <3>1. Outputs[current[b]] \in Seq(Event)
        BY <2>1, QueueAssumption
      <3>2. QED
        BY <3>1, RangeIndex
    <2>3. \A e \in Event : Covered(b, e) => Covered(b, e)'
      BY DEF Grown, Covered
    <2>4. QED
      BY <2>1, <2>2, <2>3
  <1>2. ASSUME NEW b \in Source \ {a}, NEW k \in Range(recorded'[b])
        PROVE  \/ k \in refused'[b]
               \/ Queued(k)'
               \/ pc'[b] \in {"check", "send"} /\ KeyOf(b)' = k
    <2>1. k \in Range(recorded[b]) /\ recorded[b] \in Seq(Key)
      BY <1>2 DEF CInv, DInv, TypeOK
    <2>2. k \in Key
      BY <2>1, RangeIndex
    <2>3. k \in refused[b] \/ Queued(k) \/ (pc[b] \in {"check", "send"} /\ KeyOf(b) = k)
      BY <2>1 DEF CInv, Accounted
    <2>4. KeyOf(b)' = KeyOf(b)
      BY DEF KeyOf
    <2>5. QED
      BY <2>2, <2>3, <2>4 DEF Grown
  <1>3. QED
    BY <1>1, <1>2

\* Answers other than 201 promise nothing; those given keep their promise.
LEMMA AnswersKept ==
    ASSUME CInv, Grown, NEW P \in SUBSET Payload,
           \A p \in P : answer'[p] = answer[p] \/ answer'[p] # "created"
    PROVE  \A p \in P : answer'[p] = "created" =>
               \A e \in Range(Outputs[p]) : Covered(SourceOf[p], e)'
  <1> SUFFICES ASSUME NEW p \in P, answer'[p] = "created", NEW e \in Range(Outputs[p])
               PROVE  Covered(SourceOf[p], e)'
    OBVIOUS
  <1>1. Outputs[p] \in Seq(Event) /\ SourceOf[p] \in Source
    BY QueueAssumption
  <1>2. e \in Event
    BY <1>1, RangeIndex
  <1>3. Covered(SourceOf[p], e)
    BY DEF CInv, CreatedIsSentUnlessRefused, Covered
  <1>4. QED
    BY <1>1, <1>2, <1>3 DEF Grown, Covered

\* A recorded key is accounted for as long as the source is not at its event.
LEMMA RecordedKeys ==
    ASSUME CInv, NEW a \in Source, NEW k \in Range(recorded[a])
    PROVE  /\ k \in Key /\ DedupCapacity[a] > 0
           /\ \/ k \in refused[a]
              \/ Queued(k)
              \/ pc[a] \in {"check", "send"} /\ KeyOf(a) = k
  <1>1. recorded[a] \in Seq(Key) /\ Window(a)
    BY DEF CInv, DInv, TypeOK
  <1>2. k \in Key /\ recorded[a] # <<>>
    BY <1>1, RangeIndex, RangeEmpty
  <1>3. DedupCapacity[a] \in Nat /\ DedupCapacity[a] # 0
    BY <1>1, <1>2, QueueAssumption DEF Window
  <1>4. QED
    BY <1>2, <1>3 DEF CInv, Accounted

\* What is still in the memory was recorded.
LEMMA SeenIsRecorded ==
    ASSUME DInv, NEW a \in Source, NEW k \in Range(seen[a])
    PROVE  k \in Range(recorded[a])
  <1>1. seen[a] \in Seq(Key) /\ recorded[a] \in Seq(Key) /\ Window(a)
    BY DEF DInv, TypeOK
  <1>2. PICK i \in 1..Len(seen[a]) : k = seen[a][i]
    BY <1>1, RangeIndex
  <1>3. /\ Len(recorded[a]) - Len(seen[a]) + i \in 1..Len(recorded[a])
        /\ k = recorded[a][Len(recorded[a]) - Len(seen[a]) + i]
    <2>1. /\ Len(seen[a]) \in Nat /\ Len(recorded[a]) \in Nat
          /\ Len(seen[a]) <= Len(recorded[a])
      BY <1>1 DEF Window
    <2>2. seen[a][i] = recorded[a][Len(recorded[a]) - Len(seen[a]) + i]
      BY <1>1 DEF Window
    <2>3. Len(recorded[a]) - Len(seen[a]) + i \in 1..Len(recorded[a])
      <3>1. \A m, n \in Nat : \A j \in 1..m : m <= n => n - m + j \in 1..n
        OBVIOUS
      <3>2. i \in 1..Len(seen[a])
        OBVIOUS
      <3>3. QED
        BY <2>1, <3>1, <3>2
    <2>4. QED
      BY <1>2, <2>2, <2>3
  <1>4. QED
    BY <1>1, <1>3, RangeIndex

\* Each step of a source keeps what stands behind the answers.
LEMMA SourceAnswers ==
    ASSUME CInv, NEW a \in Source, SourceStep(a)
    PROVE  Progress' /\ Accounted' /\ CreatedIsSentUnlessRefused'
  <1> PICK p : p = current[a]
    OBVIOUS
  <1> DEFINE PA == pc'[a] # "free" =>
                       /\ SourceOf[current'[a]] = a
                       /\ \A e \in Range(Outputs[current'[a]]) :
                             e \in Range(todo'[a]) \/ Covered(a, e)'
             AA == \A k \in Range(recorded'[a]) :
                       \/ k \in refused'[a]
                       \/ Queued(k)'
                       \/ pc'[a] \in {"check", "send"} /\ KeyOf(a)' = k
             An == \A q \in Payload : answer'[q] = "created" =>
                       \A e \in Range(Outputs[q]) : Covered(SourceOf[q], e)'
  <1>0. TypeOK /\ TypeOK' /\ Grown
    BY SourceType, Growth DEF CInv, DInv, Next
  <1>1. pc[a] # "free"
    BY DEF SourceStep, Complete, PassThrough, DropDuplicate, RecordKey, RefuseSaturated,
           PassCheck, RefuseEvent, SendMessage
  <1>2. /\ p \in Payload /\ SourceOf[p] = a /\ Outputs[p] \in Seq(Event)
        /\ todo[a] \in Seq(Event)
    BY <1>0, <1>1, QueueAssumption DEF CInv, Progress, TypeOK
  <1>3. \A e \in Range(Outputs[p]) : e \in Event /\ (e \in Range(todo[a]) \/ Covered(a, e))
    BY <1>1, <1>2, RangeIndex DEF CInv, Progress
  <1>4. \A e \in Event : Covered(a, e) => Covered(a, e)'
    BY <1>0 DEF Grown, Covered
  <1>5. \A b \in Source \ {a} : /\ pc'[b] = pc[b] /\ current'[b] = current[b]
                                /\ todo'[b] = todo[b] /\ recorded'[b] = recorded[b]
    BY <1>0 DEF SourceStep, Complete, PassThrough, DropDuplicate, RecordKey,
           RefuseSaturated, PassCheck, RefuseEvent, SendMessage, Done, chainVars, TypeOK
  <1>6. SUFFICES PA /\ AA /\ An
    BY <1>0, <1>5, <1>6, OtherSources
       DEF Progress, Accounted, CreatedIsSentUnlessRefused, Covered
  <1>7. ASSUME recorded' = recorded, pc[a] = "transform"
        PROVE  AA
    BY <1>0, <1>7, RecordedKeys DEF Grown
  <1>8. ASSUME \A q \in Payload : answer'[q] = answer[q] \/ answer'[q] # "created"
        PROVE  An
    BY <1>0, <1>8, AnswersKept
  <1>9. CASE Complete(a)
    <2>1. /\ pc[a] = "transform" /\ todo[a] = <<>> /\ recorded' = recorded
          /\ pc' = [pc EXCEPT ![a] = "free"]
          /\ answer' = [answer EXCEPT ![p] = "created"]
      BY <1>9 DEF Complete, Done, chainVars
    <2>2. PA
      BY <1>0, <2>1 DEF TypeOK
    <2>3. \A e \in Range(Outputs[p]) : Covered(SourceOf[p], e)'
      BY <1>2, <1>3, <1>4, <2>1, RangeEmpty
    <2>4. \A q \in Payload \ {p} : answer'[q] = answer[q]
      BY <1>0, <2>1 DEF TypeOK
    <2>5. \A q \in Payload \ {p} : answer'[q] = "created" =>
              \A e \in Range(Outputs[q]) : Covered(SourceOf[q], e)'
      BY <1>0, <2>4, AnswersKept
    <2>6. QED
      BY <1>7, <2>1, <2>2, <2>3, <2>5
  <1>10. CASE PassThrough(a) \/ RecordKey(a) \/ PassCheck(a)
    <2>1. /\ current' = current /\ todo' = todo /\ answer' = answer
          /\ log' = log /\ refused' = refused
      BY <1>10 DEF PassThrough, RecordKey, PassCheck, chainVars, clientVars, queueVars
    <2>2. PA
      BY <1>2, <1>3, <1>4, <2>1
    <2>3. An
      BY <1>8, <2>1
    <2>4. AA
      <3>1. CASE PassThrough(a)
        BY <1>7, <3>1 DEF PassThrough, chainVars
      <3>2. CASE RecordKey(a)
        <4>1. KeyOf(a) \in Key /\ recorded[a] \in Seq(Key)
          BY <1>0, <3>2, RecordType DEF TypeOK
        <4>2. recorded'[a] = Append(recorded[a], KeyOf(a)) /\ pc'[a] = "check"
          BY <1>0, <3>2 DEF RecordKey, TypeOK
        <4>3. Range(recorded'[a]) = Range(recorded[a]) \cup {KeyOf(a)}
          BY <4>1, <4>2, RangeAppend
        <4>4. KeyOf(a)' = KeyOf(a)
          BY <2>1 DEF KeyOf
        <4>5. pc[a] = "transform"
          BY <3>2 DEF RecordKey
        <4>6. \A k \in Range(recorded[a]) : k \in refused'[a] \/ Queued(k)'
          BY <1>0, <4>5, RecordedKeys DEF Grown
        <4>7. QED
          BY <4>2, <4>3, <4>4, <4>6
      <3>3. CASE PassCheck(a)
        <4>1. recorded' = recorded /\ pc'[a] = "send"
          BY <1>0, <3>3 DEF PassCheck, chainVars, TypeOK
        <4>2. KeyOf(a)' = KeyOf(a)
          BY <2>1 DEF KeyOf
        <4>3. QED
          BY <1>0, <4>1, <4>2, RecordedKeys DEF Grown
      <3>4. QED
        BY <1>10, <3>1, <3>2, <3>3
    <2>5. QED
      BY <2>2, <2>3, <2>4
  <1>11. CASE DropDuplicate(a)
    <2>1. /\ pc[a] = "transform" /\ todo[a] # <<>> /\ Dedups(a)
          /\ KeyOf(a) \in Range(seen[a]) /\ todo' = [todo EXCEPT ![a] = Tail(todo[a])]
          /\ current' = current /\ answer' = answer /\ recorded' = recorded
      BY <1>11 DEF DropDuplicate, chainVars, clientVars
    <2>2. KeyOf(a) \in refused[a] \/ Queued(KeyOf(a))
      BY <2>1, SeenIsRecorded, RecordedKeys DEF CInv
    <2>3. Covered(a, Head(todo[a]))
      BY <2>1, <2>2 DEF Covered, Sent, Queued, KeyOf, Dedups
    <2>4. /\ Range(todo[a]) = {Head(todo[a])} \cup Range(Tail(todo[a]))
          /\ todo'[a] = Tail(todo[a])
      BY <1>0, <1>2, <2>1, RangeTail DEF TypeOK
    <2>5. PA
      BY <1>2, <1>3, <1>4, <2>1, <2>3, <2>4
    <2>6. QED
      BY <1>7, <1>8, <2>1, <2>5
  <1>12. CASE RefuseSaturated(a) \/ RefuseEvent(a)
    <2>1. /\ RememberRefusal(a) /\ recorded' = recorded
          /\ pc' = [pc EXCEPT ![a] = "free"]
          /\ \A q \in Payload : answer'[q] = answer[q] \/ answer'[q] # "created"
      BY <1>0, <1>12 DEF RefuseSaturated, RefuseEvent, Done, TypeOK
    <2>2. PA
      BY <1>0, <2>1 DEF TypeOK
    <2>3. \A k \in Range(recorded[a]) : KeyOf(a) = k => k \in refused'[a]
      BY <1>0, <2>1, RecordedKeys, QueueAssumption DEF RememberRefusal, Dedups, TypeOK
    <2>4. AA
      BY <1>0, <2>1, <2>3, RecordedKeys DEF Grown
    <2>5. QED
      BY <1>8, <2>1, <2>2, <2>4
  <1>13. CASE SendMessage(a)
    <2>1. /\ log' = Append(log, Head(todo[a])) /\ todo' = [todo EXCEPT ![a] = Tail(todo[a])]
          /\ current' = current /\ answer' = answer /\ recorded' = recorded
          /\ todo[a] # <<>> /\ log \in Seq(Event)
      BY <1>0, <1>13 DEF SendMessage, Enqueue, chainVars, clientVars, TypeOK
    <2> PICK x : x = Head(todo[a])
      OBVIOUS
    <2> PICK k : k = KeyOf(a)
      OBVIOUS
    <2>2. Len(log) + 1 \in 1..Len(log') /\ log'[Len(log) + 1] = x /\ DedupKey[x] = k
      BY <1>2, <2>1 DEF KeyOf
    <2>3. Covered(a, x)'
      BY <2>2 DEF Covered, Sent
    <2>4. Queued(k)'
      BY <2>2 DEF Queued
    <2>5. /\ Range(todo[a]) = {x} \cup Range(Tail(todo[a]))
          /\ todo'[a] = Tail(todo[a])
      BY <1>0, <1>2, <2>1, RangeTail DEF TypeOK
    <2>6. PA
      BY <1>2, <1>3, <1>4, <2>1, <2>3, <2>5
    <2>7. AA
      BY <1>0, <2>1, <2>4, RecordedKeys DEF Grown
    <2>8. QED
      BY <1>8, <2>1, <2>6, <2>7
  <1>14. QED
    BY <1>9, <1>10, <1>11, <1>12, <1>13 DEF SourceStep

\* Taking or rejecting a payload promises nothing.
LEMMA ClientAnswers ==
    ASSUME CInv, NEW p \in Payload, Reject(p) \/ Receive(p)
    PROVE  Progress' /\ Accounted' /\ CreatedIsSentUnlessRefused'
  <1>0. TypeOK /\ TypeOK' /\ Grown
    BY ClientType, Growth DEF CInv, DInv, Next
  <1> PICK a : a = SourceOf[p]
    OBVIOUS
  <1>1. a \in Source /\ recorded' = recorded
    BY QueueAssumption DEF Reject, Receive, chainVars
  <1>2. \A q \in Payload : answer'[q] = answer[q] \/ answer'[q] # "created"
    BY <1>0 DEF Reject, Receive, TypeOK
  <1>3. CreatedIsSentUnlessRefused'
    BY <1>0, <1>2, AnswersKept DEF CreatedIsSentUnlessRefused, Covered
  <1>4. CASE Reject(p)
    <2>1. pc' = pc /\ current' = current /\ todo' = todo /\ log' = log /\ refused' = refused
      BY <1>4 DEF Reject, queueVars, chainVars
    <2>2. QED
      BY <1>1, <1>3, <2>1
         DEF CInv, Progress, Accounted, Covered, Sent, Queued, KeyOf
  <1>5. CASE Receive(p)
    <2>1. /\ pc' = [pc EXCEPT ![a] = "transform"] /\ pc[a] = "free"
          /\ current' = [current EXCEPT ![a] = p]
          /\ todo' = [todo EXCEPT ![a] = Outputs[p]]
      BY <1>5 DEF Receive
    <2>2. pc'[a] = "transform" /\ current'[a] = p /\ todo'[a] = Outputs[p]
      BY <1>0, <1>1, <2>1 DEF TypeOK
    <2>3. \A b \in Source \ {a} : /\ pc'[b] = pc[b] /\ current'[b] = current[b]
                                  /\ todo'[b] = todo[b] /\ recorded'[b] = recorded[b]
      BY <1>0, <1>1, <2>1 DEF TypeOK
    <2>4. \A k \in Range(recorded[a]) : k \in refused'[a] \/ Queued(k)'
      BY <1>0, <1>1, <2>1, RecordedKeys DEF Grown
    <2>5. Progress'
      BY <1>0, <1>1, <2>2, <2>3, OtherSources DEF Progress
    <2>6. Accounted'
      BY <1>0, <1>1, <2>3, <2>4, OtherSources DEF Accounted
    <2>7. QED
      BY <1>3, <2>5, <2>6
  <1>6. QED
    BY <1>4, <1>5

\* Every step keeps what stands behind the answers.
LEMMA NextAnswers == CInv /\ [Next]_vars => CInv'
  <1> SUFFICES ASSUME CInv, [Next]_vars PROVE CInv'
    OBVIOUS
  <1>1. DInv'
    BY NextWindow DEF CInv
  <1>2. CASE \E p \in Payload : Reject(p) \/ Receive(p)
    BY <1>1, <1>2, ClientAnswers DEF CInv
  <1>3. CASE \E a \in Source : SourceStep(a)
    BY <1>1, <1>3, SourceAnswers DEF CInv
  <1>4. CASE (\E s \in Sink : SinkStep(s)) \/ UNCHANGED vars
    <2>1. UNCHANGED <<log, pc, current, todo, recorded, refused, answer>>
      BY <1>4 DEF SinkStep, Recv, RecvLagged, chainVars, clientVars, vars
    <2>2. QED
      BY <1>1, <2>1 DEF CInv, Progress, Accounted, Covered, Sent, Queued, KeyOf,
                        CreatedIsSentUnlessRefused
  <1>5. QED
    BY <1>2, <1>3, <1>4 DEF Next

\* Whatever the transformers make of a payload, and however often it is
\* posted: answered 201, all its events are queued, unless a deduplicate step
\* recorded the key of an event that was then refused.
THEOREM Answered == Spec => []CreatedIsSentUnlessRefused
  <1>1. CInv => CreatedIsSentUnlessRefused
    BY DEF CInv
  <1>2. QED
    BY <1>1, InitAnswers, NextAnswers, PTL DEF Spec

\* Without a deduplicate step the promise holds without exception (the
\* comment on backpressure in webhook()).
THEOREM AnsweredWithoutDedup ==
    (\A a \in Source : DedupCapacity[a] = 0) => (Spec => []CreatedIsSent)
  <1> SUFFICES ASSUME \A a \in Source : DedupCapacity[a] = 0
               PROVE  Spec => []CreatedIsSent
    OBVIOUS
  <1> DEFINE NoRefusal == TypeOK /\ \A a \in Source : refused[a] = {}
  <1>1. Init => NoRefusal
    BY InitType DEF Init
  <1>2. NoRefusal /\ [Next]_vars => NoRefusal'
    <2> SUFFICES ASSUME NoRefusal, [Next]_vars PROVE NoRefusal'
      OBVIOUS
    <2>1. TypeOK'
      BY NextType
    <2>2. refused' = refused
      BY DEF Next, Reject, Receive, SourceStep, Complete, PassThrough, DropDuplicate,
             RecordKey, RefuseSaturated, PassCheck, RefuseEvent, SendMessage, SinkStep,
             Recv, RecvLagged, chainVars, vars, RememberRefusal, Dedups
    <2>3. QED
      BY <2>1, <2>2
  <1>3. NoRefusal /\ CreatedIsSentUnlessRefused => CreatedIsSent
    BY QueueAssumption DEF CreatedIsSentUnlessRefused, CreatedIsSent
  <1>4. QED
    BY <1>1, <1>2, <1>3, Answered, PTL DEF Spec
=============================================================================
