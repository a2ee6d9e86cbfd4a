-------------------------- MODULE SseSourceProofs --------------------------
(***************************************************************************)
(* Proofs about the SSE source, for any number of events, with or without  *)
(* ids, and any retry budget.                                              *)
(***************************************************************************)
EXTENDS SseSource, TLAPS

\* The positions the task could resume from.
Known == Identified \cap delivered

\* The ids the task and the connection hold are behind what was received; a
\* connection that has not opened yet holds none.
Ids ==
    /\ lastId <= pos /\ streamId <= pos
    /\ pc = "connecting" => streamId = None
    /\ pc \in {"failed", "waiting"} /\ streamId # None => lastId = streamId

\* No event beyond the stream's position was received, and an id that is held
\* is the latest one.
Latest ==
    /\ \A i \in Known : i <= pos
    /\ streamId # None => \A i \in Known : i <= streamId
    /\ pc \in {"connecting", "failed", "waiting"} /\ lastId # None =>
           \A i \in Known : i <= lastId

\* As long as no position was forgotten, one is held once a message with an id
\* was received, and nothing was skipped since.
Gapless ==
    ~forgotten =>
        /\ Known # {} => lastId # None \/ streamId # None
        /\ \A e \in 1..pos : (\E i \in Known : i < e) => e \in delivered

\* The budget counts the attempts in a row that did not open.
Budget ==
    /\ pc = "streaming" => opened
    /\ opened => refusals = 0
    /\ pc = "failed" => Past <= refusals
    /\ pc \in {"connecting", "waiting"} => ~opened /\ retries <= refusals + 1
    /\ GivesUpOnlyAfterBudget

IInv == TypeOK /\ Ids /\ Latest /\ Gapless /\ Budget /\ RepeatsOnlyUnidentified

\* The invariant holds at first.
LEMMA InitInv == Init => IInv
  <1> SUFFICES ASSUME Init PROVE IInv
    OBVIOUS
  <1>1. TypeOK
    <2>1. /\ published \in 0..MaxEvents /\ pos \in 0..published /\ lastId \in 0..published
          /\ streamId \in 0..published /\ retries \in 0..MaxRetries /\ refusals \in Nat
      BY SseAssumption DEF Init, None
    <2>2. delivered \in SUBSET Event /\ repeated \in SUBSET Event
      BY DEF Init
    <2>3. opened \in BOOLEAN /\ forgotten \in BOOLEAN /\ pc = "connecting"
      BY DEF Init
    <2>4. QED
      BY <2>1, <2>2, <2>3 DEF TypeOK
  <1>2. Ids
    BY DEF Init, Ids, None
  <1>3. Latest /\ Gapless /\ RepeatsOnlyUnidentified
    BY DEF Init, Latest, Gapless, Known, None, RepeatsOnlyUnidentified
  <1>4. Budget
    BY DEF Init, Budget, GivesUpOnlyAfterBudget
  <1>5. QED
    BY <1>1, <1>2, <1>3, <1>4 DEF IInv

\* Types of what the arithmetic is about.
LEMMA Types ==
    ASSUME TypeOK
    PROVE  /\ published \in Nat /\ pos \in Nat /\ lastId \in Nat /\ streamId \in Nat
           /\ pos <= published /\ published <= MaxEvents
           /\ retries \in Nat /\ refusals \in Nat /\ MaxRetries \in Nat
           /\ MaxEvents \in Nat
  BY SseAssumption DEF TypeOK

\* The server publishes: nothing of the task changes.
LEMMA PublishInv == IInv /\ Publish => IInv'
  <1> SUFFICES ASSUME IInv, Publish PROVE IInv'
    OBVIOUS
  <1>1. UNCHANGED <<pos, pc, lastId, streamId, opened, retries, delivered, repeated,
                    forgotten, refusals>>
    BY DEF Publish, idVars, historyVars
  <1>2. published' = published + 1 /\ published < MaxEvents
    BY DEF Publish
  <1>3. TypeOK'
    BY <1>1, <1>2, Types, SseAssumption DEF IInv, TypeOK
  <1>4. QED
    BY <1>1, <1>3 DEF IInv, Ids, Latest, Gapless, Budget, Known, Past,
                      GivesUpOnlyAfterBudget, RepeatsOnlyUnidentified

\* The connection opens: with a position it can send the stream goes back to it,
\* without one it goes to the end, where nothing is behind an id that is not held.
LEMMA OpenInv == IInv /\ Open => IInv'
  <1> SUFFICES ASSUME IInv, Open PROVE IInv'
    OBVIOUS
  <1>1. /\ UNCHANGED <<published, lastId, streamId, retries, delivered, repeated>>
        /\ pc = "connecting" /\ pc' = "streaming" /\ opened' = TRUE /\ refusals' = 0
        /\ pos' = StartOf(Header) /\ forgotten' = (forgotten \/ lastId # Header)
    BY DEF Open, idVars
  <1>a. pos' = lastId \/ pos' = published
    BY <1>1 DEF StartOf, Header
  <1>2. TypeOK'
    BY <1>1, <1>a, SseAssumption DEF IInv, TypeOK, None
  <1>3. streamId = None
    BY <1>1 DEF IInv, Ids
  <1>4. Ids'
    BY <1>1, <1>a, <1>3, Types DEF IInv, Ids, None
  <1>5. Latest'
    <2>1. \A i \in Known : i \in Nat /\ i <= pos /\ i <= published
      BY SseAssumption, Types DEF IInv, Latest, Known
    <2>2. CASE pos' = published
      BY <1>1, <1>3, <2>1, <2>2 DEF Latest, Known
    <2>3. CASE pos' # published
      <3>1. pos' = lastId /\ lastId # None
        BY <1>1, <1>a, <2>3 DEF StartOf, Header
      <3>2. \A i \in Known : i <= lastId
        BY <1>1, <3>1 DEF IInv, Latest
      <3>3. QED
        BY <1>1, <1>3, <3>1, <3>2 DEF Latest, Known
    <2>4. QED
      BY <2>2, <2>3
  <1>6. Gapless'
    <2>1. CASE lastId # None
      <3>1. ~forgotten' => ~forgotten /\ pos' = lastId
        BY <1>1, <2>1 DEF StartOf
      <3>2. QED
        BY <1>1, <2>1, <3>1, Types DEF IInv, Ids, Gapless, Known, None
    <2>2. CASE lastId = None
      BY <1>1, <1>3, <2>2 DEF IInv, Gapless, Known
    <2>3. QED
      BY <2>1, <2>2
  <1>7. Budget'
    BY <1>1 DEF Budget, GivesUpOnlyAfterBudget
  <1>8. QED
    BY <1>1, <1>2, <1>4, <1>5, <1>6, <1>7 DEF IInv, RepeatsOnlyUnidentified

\* A message: the next one, so none with an id comes twice.
LEMMA ReceiveInv == IInv /\ Receive => IInv'
  <1> SUFFICES ASSUME IInv, Receive PROVE IInv'
    OBVIOUS
  <1> PICK e : e = pos + 1
    OBVIOUS
  <1>1. /\ UNCHANGED <<published, lastId, opened, retries, forgotten, refusals>>
        /\ pc = "streaming" /\ pc' = "streaming" /\ pos < published /\ pos' = e
        /\ streamId' = IF e \in Identified THEN e ELSE streamId
        /\ delivered' = delivered \cup {e}
        /\ repeated' = IF e \in delivered THEN repeated \cup {e} ELSE repeated
    BY DEF Receive, Tracked, AfterForward
  <1>2. e \in 1..published /\ e \in Event
    BY <1>1, Types DEF IInv, Event
  <1>3. TypeOK'
    BY <1>1, <1>2, Types DEF IInv, TypeOK
  <1>4. Ids'
    BY <1>1, <1>2, Types DEF IInv, Ids
  <1>5. Latest'
    <2>1. \A i \in Known : i \in Nat /\ i <= pos
      BY SseAssumption DEF IInv, Latest, Known
    <2>2. \A i \in Known' : i \in Known \/ (i = e /\ e \in Identified)
      BY <1>1, SseAssumption DEF Known
    <2>3. \A i \in Known' : i <= pos'
      BY <1>1, <2>1, <2>2, Types DEF IInv
    <2>4. streamId' # None => \A i \in Known' : i <= streamId'
      <3>1. CASE e \in Identified
        BY <1>1, <2>3, <3>1
      <3>2. CASE e \notin Identified
        BY <1>1, <2>2, <3>2 DEF IInv, Latest
      <3>3. QED
        BY <3>1, <3>2
    <2>5. QED
      BY <1>1, <2>3, <2>4 DEF Latest
  <1>6. Gapless'
    BY <1>1, <1>2, Types DEF IInv, Gapless, Known, None
  <1>7. Budget'
    BY <1>1 DEF IInv, Budget, Past, GivesUpOnlyAfterBudget
  <1>8. RepeatsOnlyUnidentified'
    BY <1>1, <1>2, Types DEF IInv, Latest, Known, RepeatsOnlyUnidentified
  <1>9. QED
    BY <1>3, <1>4, <1>5, <1>6, <1>7, <1>8 DEF IInv

\* A failed connection: its position replaces the one before.
LEMMA FailInv == IInv /\ Fail => IInv'
  <1> SUFFICES ASSUME IInv, Fail PROVE IInv'
    OBVIOUS
  <1>1. /\ UNCHANGED <<published, pos, streamId, opened, retries, delivered, repeated>>
        /\ pc \in {"connecting", "streaming"} /\ pc' = "failed" /\ lastId' = streamId
        /\ forgotten' = (forgotten \/ (lastId # None /\ streamId = None))
        /\ refusals' = IF pc = "connecting" THEN refusals + 1 ELSE refusals
    BY DEF Fail, serverVars, Position
  <1>2. TypeOK'
    BY <1>1, Types DEF IInv, TypeOK
  <1>3. Ids' /\ Latest'
    BY <1>1, Types DEF IInv, Ids, Latest, Known, None
  <1>4. Gapless'
    BY <1>1 DEF IInv, Gapless, Known
  <1>5. Budget'
    BY <1>1, Types DEF IInv, Budget, Past, GivesUpOnlyAfterBudget
  <1>6. QED
    BY <1>1, <1>2, <1>3, <1>4, <1>5 DEF IInv, RepeatsOnlyUnidentified

\* No request was made: the position is kept.
LEMMA HeadersFailInv == IInv /\ HeadersFail => IInv'
  <1> SUFFICES ASSUME IInv, HeadersFail PROVE IInv'
    OBVIOUS
  <1>1. /\ UNCHANGED <<published, pos, lastId, streamId, opened, retries, delivered,
                       repeated, forgotten>>
        /\ pc = "connecting" /\ pc' = "failed" /\ refusals' = refusals + 1
    BY DEF HeadersFail, serverVars, idVars
  <1>2. TypeOK'
    BY <1>1, Types DEF IInv, TypeOK
  <1>3. Ids' /\ Latest' /\ Gapless'
    BY <1>1 DEF IInv, Ids, Latest, Gapless, Known
  <1>4. Budget'
    BY <1>1, Types DEF IInv, Budget, Past, GivesUpOnlyAfterBudget
  <1>5. QED
    BY <1>1, <1>2, <1>3, <1>4 DEF IInv, RepeatsOnlyUnidentified

\* The decision, the delay and the cancellation leave the ids alone.
LEMMA RetryInv == IInv /\ (GiveUp \/ Retry \/ Reconnect \/ Cancel) => IInv'
  <1> SUFFICES ASSUME IInv, GiveUp \/ Retry \/ Reconnect \/ Cancel PROVE IInv'
    OBVIOUS
  <1>1. UNCHANGED <<published, pos, lastId, delivered, repeated, forgotten, refusals>>
    BY DEF GiveUp, Retry, Reconnect, Cancel, serverVars, idVars, historyVars
  <1>2. streamId' = streamId \/ (pc = "waiting" /\ pc' = "connecting" /\ streamId' = None)
    BY DEF GiveUp, Retry, Reconnect, Cancel, idVars
  <1>3. TypeOK'
    <2>1. retries' \in 0..MaxRetries
      <3>1. Past \in 0..MaxRetries
        BY Types, SseAssumption DEF IInv, TypeOK, Past
      <3>2. QED
        BY <3>1, Types, SseAssumption DEF IInv, TypeOK, GiveUp, Retry, Reconnect, Cancel, Spent
    <2>2. pc' \in {"connecting", "waiting", "stopped", "aborted"} /\ opened' \in BOOLEAN
      BY DEF IInv, TypeOK, GiveUp, Retry, Reconnect, Cancel
    <2>3. streamId' \in 0..published
      BY <1>2, Types DEF IInv, TypeOK, None
    <2>4. QED
      BY <1>1, <2>1, <2>2, <2>3 DEF IInv, TypeOK
  <1>4. Ids'
    BY <1>1, <1>2, Types DEF IInv, Ids, GiveUp, Retry, Reconnect, Cancel, idVars, None
  <1>5. Latest'
    BY <1>1, <1>2 DEF IInv, Latest, Known, GiveUp, Retry, Reconnect, Cancel, None
  <1>6. Gapless'
    BY <1>1, <1>2 DEF IInv, Gapless, Ids, Known, None
  <1>7. Budget'
    <2>1. CASE GiveUp
      BY <1>1, <2>1, Types DEF IInv, Budget, GiveUp, Past, Spent, GivesUpOnlyAfterBudget
    <2>2. CASE Retry
      BY <1>1, <2>2, Types DEF IInv, Budget, Retry, Past, Spent, GivesUpOnlyAfterBudget
    <2>3. CASE Reconnect
      BY <1>1, <2>3, Types DEF IInv, Budget, Reconnect, Past, GivesUpOnlyAfterBudget
    <2>4. CASE Cancel
      BY <1>1, <2>4, Types DEF IInv, Budget, Cancel, Past, GivesUpOnlyAfterBudget
    <2>5. QED
      BY <2>1, <2>2, <2>3, <2>4
  <1>8. QED
    BY <1>1, <1>3, <1>4, <1>5, <1>6, <1>7 DEF IInv, RepeatsOnlyUnidentified

\* Every step keeps the invariant.
LEMMA NextInv == IInv /\ [Next]_vars => IInv'
  <1> SUFFICES ASSUME IInv, [Next]_vars PROVE IInv'
    OBVIOUS
  <1>1. CASE UNCHANGED vars
    BY <1>1 DEF vars, IInv, TypeOK, Ids, Latest, Gapless, Budget, Known, Past,
                GivesUpOnlyAfterBudget, RepeatsOnlyUnidentified
  <1>2. QED
    BY <1>1, PublishInv, OpenInv, ReceiveInv, FailInv, HeadersFailInv, RetryInv
       DEF Next, Task, Failure

LEMMA Invariance == Spec => []IInv
  BY InitInv, NextInv, PTL DEF Spec

\* The states of the SSE source are well typed.
THEOREM TypeCorrect == Spec => []TypeOK
  <1>1. IInv => TypeOK
    BY DEF IInv
  <1>2. QED
    BY <1>1, Invariance, PTL

\* Events are skipped only once connect_and_stream has overwritten a position
\* with the empty one of a connection that received no id, or has left a position
\* out of its request.
THEOREM Resumption == Spec => []SkipsOnlyIfForgotten
  <1>1. IInv => SkipsOnlyIfForgotten
    BY DEF IInv, Gapless, Known, SkipsOnlyIfForgotten, ResumesWhereItStopped
  <1>2. QED
    BY <1>1, Invariance, PTL

\* A message with an id is handed to the pipeline once.
THEOREM NoRepetition == Spec => []RepeatsOnlyUnidentified
  <1>1. IInv => RepeatsOnlyUnidentified
    BY DEF IInv
  <1>2. QED
    BY <1>1, Invariance, PTL

\* run gives up only after max_retries attempts in a row that did not open.
THEOREM RetryBudget == Spec => []GivesUpOnlyAfterBudget
  <1>1. IInv => GivesUpOnlyAfterBudget
    BY DEF IInv, Budget
  <1>2. QED
    BY <1>1, Invariance, PTL
=============================================================================
