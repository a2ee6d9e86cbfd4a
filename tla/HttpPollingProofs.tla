------------------------- MODULE HttpPollingProofs -------------------------
(***************************************************************************)
(* Proofs about the `http_polling` source, for every driver, status policy *)
(* and limit.                                                              *)
(***************************************************************************)
EXTENDS HttpPolling, SequenceTheorems, TLAPS

\* The requests the poll still has to ask, or is asking.
Waiting(r) ==
    \/ \E i \in DOMAIN queue : queue[i].spec = r
    \/ \E i \in DOMAIN inflight : inflight[i].task.spec = r

Polling == pc \in {"poll", "pause"}

\* A poll leaves nothing behind, and pauses only for the head of its worklist.
Locals ==
    /\ ~Polling => queue = <<>> /\ inflight = <<>> /\ handled = {} /\ ~gaveUp
    /\ pc = "pause" => queue # <<>> /\ Len(inflight) < MaxConcurrency

\* What a poll that gave up on nothing must ask is handled or waiting.
Worklist ==
    Polling /\ ~gaveUp =>
        /\ \A r \in Range(Bootstrap) : r \in handled \/ Waiting(r)
        /\ \A q \in handled \cap FeedsBack : \A r \in Range(Feeds[q]) :
               r \in handled \/ Waiting(r)

\* Both instants are at least as far as the longest pause that is owed.
Pauses ==
    /\ owed <= rateLimitedUntil
    /\ Polling => owed <= nextAllowed

\* The checkpoint too has only seconds accounted for before it.
Checkpoint == \A t \in StartTs + 1 .. saved : AccountedFor(t)

\* While a pause is owed, the slot of the response that asked for it is free.
SlotFree == owed > 0 => Len(inflight) < MaxConcurrency

IInv == TypeOK /\ Locals /\ Worklist /\ Pauses /\ SlotFree /\ NothingSkipped /\ Checkpoint

\* What happens to a fetch before it is taken: its request leaves, it ends.
Awaited(i) == Leave(i) \/ Fetch(i)

Fetched == [task : Task, answer : Answer]

\* TypeOK in two parts: what `run` keeps and what `run_once` does.
RunType ==
    /\ now \in 1..MaxNow
    /\ pc \in {"check", "throttle", "poll", "pause", "save", "idle", "stopped"}
    /\ filter \in [after : Nat, before : 0..MaxNow]
    /\ saved \in Nat /\ rateLimitedUntil \in Nat /\ sleeping \in Nat /\ owed \in Nat /\ spacing \in Nat
    /\ cancelled \in BOOLEAN /\ restarts \in 0..MaxRestarts
    /\ covered \subseteq (SUBSET Request) \X (1..MaxNow) /\ excused \subseteq 1..MaxNow

PollType ==
    /\ nextAllowed \in Nat /\ queue \in Seq(Task)
    /\ inflight \in Seq(Fetched) /\ Len(inflight) <= MaxConcurrency
    /\ issued \in 0..MaxRequests /\ progressed \in Nat
    /\ handled \subseteq Request /\ gaveUp \in BOOLEAN

LEMMA TypeParts ==
    /\ TypeOK <=> RunType /\ PollType
    /\ TypeOK' <=> RunType' /\ PollType'
  BY DEF TypeOK, RunType, PollType, Fetched

-----------------------------------------------------------------------------
\* Taking out the element at i leaves all the others.
LEMMA WithoutElements ==
    ASSUME NEW S, NEW s \in Seq(S), NEW i \in 1..Len(s)
    PROVE  /\ Without(s, i) \in Seq(S)
           /\ Len(Without(s, i)) = Len(s) - 1
           /\ \A k \in 1..Len(s) : k = i \/ \E j \in 1..Len(Without(s, i)) : Without(s, i)[j] = s[k]
  <1> DEFINE a == SubSeq(s, 1, i - 1)
             b == SubSeq(s, i + 1, Len(s))
  <1>1. /\ a \in Seq(S) /\ Len(a) = i - 1
        /\ \A j \in 1..(i - 1) : a[j] = s[j]
    OBVIOUS
  <1>2. /\ b \in Seq(S) /\ Len(b) = Len(s) - i
        /\ \A j \in 1..(Len(s) - i) : b[j] = s[i + j]
    <2>1. /\ b \in Seq(S) /\ Len(b) = Len(s) - i
          /\ \A j \in 1..(Len(s) - (i + 1) + 1) : b[j] = s[(i + 1) + j - 1]
      OBVIOUS
    <2>2. ASSUME NEW j \in 1..(Len(s) - i) PROVE b[j] = s[i + j]
      <3>1. j \in 1..(Len(s) - (i + 1) + 1) /\ (i + 1) + j - 1 = i + j
        OBVIOUS
      <3>2. QED
        BY <2>1, <3>1
    <2>3. QED
      BY <2>1, <2>2
  <1> HIDE DEF a, b
  <1>3. /\ a \o b \in Seq(S) /\ Len(a \o b) = Len(s) - 1
        /\ \A j \in 1..(i - 1) : (a \o b)[j] = s[j]
        /\ \A j \in 1..(Len(s) - i) : (a \o b)[(i - 1) + j] = s[i + j]
    <2>1. /\ a \o b \in Seq(S) /\ Len(a \o b) = Len(a) + Len(b)
          /\ \A j \in 1..(Len(a) + Len(b)) :
                (a \o b)[j] = IF j <= Len(a) THEN a[j] ELSE b[j - Len(a)]
      BY <1>1, <1>2, ConcatProperties
    <2>2. ASSUME NEW j \in 1..(i - 1) PROVE (a \o b)[j] = s[j]
      BY <2>1, <1>1, <1>2
    <2>3. ASSUME NEW j \in 1..(Len(s) - i) PROVE (a \o b)[(i - 1) + j] = s[i + j]
      <3>1. /\ (i - 1) + j \in 1..(Len(a) + Len(b)) /\ ~((i - 1) + j <= Len(a))
            /\ ((i - 1) + j) - Len(a) = j
        BY <1>1, <1>2
      <3>2. QED
        BY <2>1, <3>1, <1>2
    <2>4. QED
      BY <2>1, <2>2, <2>3, <1>1, <1>2
  <1>4. ASSUME NEW k \in 1..Len(s), k # i
        PROVE  \E j \in 1..Len(a \o b) : (a \o b)[j] = s[k]
    <2>1. CASE k < i
      <3>1. k \in 1..(i - 1) /\ k \in 1..Len(a \o b)
        BY <2>1, <1>3
      <3>2. QED
        BY <3>1, <1>3
    <2>2. CASE k > i
      <3>1. k - i \in 1..(Len(s) - i) /\ k - 1 \in 1..Len(a \o b)
            /\ (i - 1) + (k - i) = k - 1 /\ i + (k - i) = k
        BY <2>2, <1>3
      <3>2. QED
        BY <3>1, <1>3
    <2>3. QED
      BY <1>4, <2>1, <2>2
  <1>5. Without(s, i) = a \o b
    BY DEF Without, a, b
  <1>6. QED
    BY <1>3, <1>4, <1>5

\* The driver's requests become tasks, one for one.
LEMMA TasksElements ==
    ASSUME NEW specs \in Seq(Request), NEW depth \in Nat
    PROVE  /\ Tasks(specs, depth) \in Seq(Task)
           /\ \A r \in Range(specs) :
                 \E i \in DOMAIN Tasks(specs, depth) : Tasks(specs, depth)[i].spec = r
  <1>1. \A i \in 1..Len(specs) : specs[i] \in Request
    OBVIOUS
  <1>2. Tasks(specs, depth) = [i \in 1..Len(specs) |-> [spec |-> specs[i], depth |-> depth]]
    BY DEF Tasks
  <1>3. \A i \in 1..Len(specs) : [spec |-> specs[i], depth |-> depth] \in Task
    BY <1>1 DEF Task
  <1>4. Tasks(specs, depth) \in Seq(Task)
    BY <1>2, <1>3
  <1>5. \A r \in Range(specs) : \E i \in 1..Len(specs) : specs[i] = r
    BY DEF Range
  <1>6. ASSUME NEW r \in Range(specs)
        PROVE  \E i \in DOMAIN Tasks(specs, depth) : Tasks(specs, depth)[i].spec = r
    <2>1. PICK i \in 1..Len(specs) : specs[i] = r
      BY <1>5
    <2>2. i \in DOMAIN Tasks(specs, depth) /\ Tasks(specs, depth)[i].spec = r
      BY <1>2, <2>1
    <2>3. QED
      BY <2>2
  <1>7. QED
    BY <1>4, <1>6

-----------------------------------------------------------------------------
\* Time passing changes no task, and keeps the answers well formed.
LEMMA TickFetches ==
    ASSUME inflight \in Seq(Fetched),
           inflight' = [i \in DOMAIN inflight |->
                          [inflight[i] EXCEPT !.answer = SoonerAnswer(@)]]
    PROVE  /\ inflight' \in Seq(Fetched) /\ Len(inflight') = Len(inflight)
           /\ DOMAIN inflight' = DOMAIN inflight
           /\ \A i \in DOMAIN inflight : inflight'[i].task = inflight[i].task
  <1>1. ASSUME NEW a \in Answer PROVE SoonerAnswer(a) \in Answer
    <2>1. CASE a \in {Queued, Pending, Failed}
      BY <2>1 DEF SoonerAnswer, Answer, Queued, Pending, Failed
    <2>2. ASSUME NEW r \in Response, a = Answered(r) PROVE SoonerAnswer(a) \in Answer
      <3>1. Sooner(r.resetIn) \in 0..MaxReset
        BY LimitsAssumption DEF Response, Sooner
      <3>2. [r EXCEPT !.resetIn = Sooner(r.resetIn)] \in Response
        BY <3>1 DEF Response
      <3>3. SoonerAnswer(a) = Answered([r EXCEPT !.resetIn = Sooner(r.resetIn)])
        BY <2>2 DEF SoonerAnswer, Answered
      <3>4. QED
        BY <3>2, <3>3 DEF Answer
    <2>3. QED
      BY <2>1, <2>2 DEF Answer
  <1>2. ASSUME NEW i \in 1..Len(inflight)
        PROVE  /\ [inflight[i] EXCEPT !.answer = SoonerAnswer(@)] \in Fetched
               /\ [inflight[i] EXCEPT !.answer = SoonerAnswer(@)].task = inflight[i].task
    <2>1. inflight[i] \in Fetched
      OBVIOUS
    <2>2. SoonerAnswer(inflight[i].answer) \in Answer
      BY <1>1, <2>1 DEF Fetched
    <2>3. QED
      BY <2>1, <2>2 DEF Fetched
  <1>3. DOMAIN inflight = 1..Len(inflight)
    OBVIOUS
  <1>4. inflight' \in Seq(Fetched) /\ Len(inflight') = Len(inflight)
    BY <1>2, <1>3
  <1>5. QED
    BY <1>2, <1>3, <1>4

\* What happens to a fetch before it is taken changes no task either.
LEMMA AnswerFetches ==
    ASSUME inflight \in Seq(Fetched), NEW i \in DOMAIN inflight, Awaited(i)
    PROVE  /\ inflight' \in Seq(Fetched) /\ Len(inflight') = Len(inflight)
           /\ DOMAIN inflight' = DOMAIN inflight
           /\ \A j \in DOMAIN inflight : inflight'[j].task = inflight[j].task
  <1>1. PICK a \in Answer : inflight' = [inflight EXCEPT ![i].answer = a]
    <2>1. CASE ServerAnswers(i)
      <3>1. PICK status \in Status, reset \in 0..MaxReset :
                inflight' = [inflight EXCEPT ![i].answer = Answered(
                    [status |-> status, exhausted |-> reset > 0, resetIn |-> reset])]
        BY <2>1 DEF ServerAnswers
      <3>2. [status |-> status, exhausted |-> reset > 0, resetIn |-> reset] \in Response
        BY DEF Response
      <3>3. QED
        BY <3>1, <3>2 DEF Answer
    <2>2. CASE FetchFails(i)
      BY <2>2 DEF FetchFails, Answer
    <2>3. CASE Leave(i)
      BY <2>3 DEF Leave, Answer
    <2>4. QED
      BY <2>1, <2>2, <2>3 DEF Awaited, Fetch
  <1>2. [inflight[i] EXCEPT !.answer = a] \in Fetched
        /\ [inflight[i] EXCEPT !.answer = a].task = inflight[i].task
    <2>1. inflight[i] \in Fetched
      OBVIOUS
    <2>2. QED
      BY <2>1 DEF Fetched
  <1>3. inflight' = [inflight EXCEPT ![i] = [inflight[i] EXCEPT !.answer = a]]
    BY <1>1
  <1> HIDE DEF Fetched
  <1>4. inflight' \in Seq(Fetched) /\ Len(inflight') = Len(inflight)
        /\ DOMAIN inflight' = DOMAIN inflight
    BY <1>2, <1>3
  <1>5. QED
    BY <1>2, <1>3, <1>4

\* A request that is pushed leaves the worklist for the fetches.
LEMMA PushEffect ==
    ASSUME queue \in Seq(Task), inflight \in Seq(Fetched), queue # <<>>, Push(Head(queue))
    PROVE  /\ queue' \in Seq(Task)
           /\ inflight' \in Seq(Fetched) /\ Len(inflight') = Len(inflight) + 1
           /\ \A r : Waiting(r) => Waiting(r)'
  <1> DEFINE pushed == [task |-> Head(queue), answer |-> Queued]
  <1>1. /\ Head(queue) \in Task /\ queue' = Tail(queue) /\ queue' \in Seq(Task)
        /\ Len(queue') = Len(queue) - 1
        /\ \A j \in 1..Len(queue') : queue'[j] = queue[j + 1]
        /\ Head(queue) = queue[1]
    BY HeadTailProperties DEF Push
  <1>2. pushed \in Fetched
    BY <1>1 DEF Fetched, Answer
  <1>3. /\ inflight' \in Seq(Fetched) /\ Len(inflight') = Len(inflight) + 1
        /\ \A j \in 1..Len(inflight) : inflight'[j] = inflight[j]
        /\ inflight'[Len(inflight) + 1] = pushed
    BY <1>2, AppendProperties DEF Push
  <1>4. ASSUME NEW r, Waiting(r) PROVE Waiting(r)'
    <2>1. CASE \E j \in DOMAIN inflight : inflight[j].task.spec = r
      BY <2>1, <1>3 DEF Waiting
    <2>2. ASSUME NEW j \in DOMAIN queue, queue[j].spec = r PROVE Waiting(r)'
      <3>1. CASE j = 1
        <4>1. Len(inflight) + 1 \in DOMAIN inflight' /\ inflight'[Len(inflight) + 1].task.spec = r
          BY <1>1, <1>3, <2>2, <3>1
        <4>2. QED
          BY <4>1 DEF Waiting
      <3>2. CASE j # 1
        <4>1. j - 1 \in DOMAIN queue' /\ queue'[j - 1].spec = r
          BY <1>1, <2>2, <3>2
        <4>2. QED
          BY <4>1 DEF Waiting
      <3>3. QED
        BY <3>1, <3>2
    <2>3. QED
      BY <1>4, <2>1, <2>2 DEF Waiting
  <1>5. QED
    BY <1>1, <1>3, <1>4

\* A fetch that is taken is the only one that goes.
LEMMA TakeEffect ==
    ASSUME inflight \in Seq(Fetched), NEW i \in DOMAIN inflight,
           inflight' = Without(inflight, i)
    PROVE  /\ inflight' \in Seq(Fetched) /\ Len(inflight') = Len(inflight) - 1
           /\ inflight[i].task \in Task
           /\ \A r : (\E j \in DOMAIN inflight : inflight[j].task.spec = r) =>
                 \/ r = inflight[i].task.spec
                 \/ \E j \in DOMAIN inflight' : inflight'[j].task.spec = r
  <1>1. i \in 1..Len(inflight) /\ inflight[i] \in Fetched
    OBVIOUS
  <1>2. /\ inflight' \in Seq(Fetched) /\ Len(inflight') = Len(inflight) - 1
        /\ \A k \in 1..Len(inflight) :
              k = i \/ \E j \in 1..Len(inflight') : inflight'[j] = inflight[k]
    BY <1>1, WithoutElements
  <1>3. inflight[i].task \in Task
    BY <1>1 DEF Fetched
  <1>4. ASSUME NEW r, NEW k \in DOMAIN inflight, inflight[k].task.spec = r,
               r # inflight[i].task.spec
        PROVE  \E j \in DOMAIN inflight' : inflight'[j].task.spec = r
    <2>1. k \in 1..Len(inflight) /\ k # i
      BY <1>4
    <2>2. PICK j \in 1..Len(inflight') : inflight'[j] = inflight[k]
      BY <1>2, <2>1
    <2>3. j \in DOMAIN inflight'
      BY <1>2
    <2>4. QED
      BY <1>4, <2>2, <2>3
  <1>5. QED
    BY <1>2, <1>3, <1>4

-----------------------------------------------------------------------------
\* The invariant holds at first.
LEMMA InitInv == Init => IInv
  <1> SUFFICES ASSUME Init PROVE IInv
    OBVIOUS
  <1> USE DEF Init
  <1>1. TypeOK
    <2>1. filter \in [after : Nat, before : 0..MaxNow]
      BY LimitsAssumption DEF Window
    <2>2. queue \in Seq(Task) /\ inflight \in Seq([task : Task, answer : Answer])
          /\ Len(inflight) <= MaxConcurrency
      BY LimitsAssumption
    <2>3. /\ saved \in Nat /\ rateLimitedUntil \in Nat /\ nextAllowed \in Nat
          /\ sleeping \in Nat /\ owed \in Nat /\ spacing \in Nat /\ progressed \in Nat
          /\ issued \in 0..MaxRequests /\ restarts \in 0..MaxRestarts
      BY LimitsAssumption
    <2>4. /\ cancelled \in BOOLEAN /\ handled \subseteq Request /\ gaveUp \in BOOLEAN
          /\ covered \subseteq (SUBSET Request) \X (1..MaxNow) /\ excused \subseteq 1..MaxNow
      OBVIOUS
    <2>5. now \in 1..MaxNow /\ pc = "check"
      OBVIOUS
    <2>6. QED
      BY <2>1, <2>2, <2>3, <2>4, <2>5 DEF TypeOK
  <1>2. Locals /\ Worklist
    BY DEF Locals, Worklist, Polling
  <1>3. Pauses /\ SlotFree
    BY DEF Pauses, SlotFree, Polling
  <1>4. NothingSkipped /\ Checkpoint
    BY LimitsAssumption DEF NothingSkipped, Checkpoint, Window
  <1>5. QED
    BY <1>1, <1>2, <1>3, <1>4 DEF IInv

\* The window the constructor and the filter compute is a pair of seconds.
LEMMA WindowType ==
    ASSUME TypeOK, NEW after \in Nat
    PROVE  Window(after) \in [after : Nat, before : 0..MaxNow] /\ Window(after).after = after
  <1>1. now \in Nat /\ now >= 1 /\ now <= MaxNow /\ Limit \in Nat /\ MaxNow \in Nat
    <2>1. now \in 1..MaxNow
      BY DEF TypeOK
    <2>2. Limit \in Nat /\ MaxNow \in Nat
      BY LimitsAssumption
    <2>3. QED
      BY <2>1, <2>2
  <1>2. (IF Limit # 0 /\ now - 1 > Limit THEN Limit ELSE now - 1) \in 0..MaxNow
    BY <1>1
  <1>3. QED
    BY <1>2 DEF Window

\* What a poll leaves behind is well formed.
LEMMA ReturnsType ==
    ASSUME NEW to, PollReturns(to)
    PROVE  PollType'
  <1>1. nextAllowed' = 0 /\ issued' = 0 /\ progressed' = 0
    BY DEF PollReturns
  <1>2. queue' = <<>> /\ inflight' = <<>>
    BY DEF PollReturns
  <1>3. handled' = {} /\ gaveUp' = FALSE
    BY DEF PollReturns
  <1>4. queue' \in Seq(Task) /\ inflight' \in Seq(Fetched) /\ Len(inflight') = 0
    BY <1>2
  <1>5. MaxConcurrency >= 0 /\ 0 \in 0..MaxRequests
    BY LimitsAssumption
  <1>6. Len(inflight') <= MaxConcurrency /\ issued' \in 0..MaxRequests
    BY <1>1, <1>4, <1>5
  <1>7. handled' \subseteq Request /\ gaveUp' \in BOOLEAN
    BY <1>3
  <1>8. QED
    BY <1>1, <1>4, <1>6, <1>7 DEF PollType

LEMMA LargerBounds ==
    ASSUME NEW a \in Nat, NEW b \in Nat
    PROVE  /\ Larger(a, b) \in Nat /\ Larger(a, b) >= a /\ Larger(a, b) >= b
           /\ Larger(a, b) \in {a, b}
  BY DEF Larger

\* A pause is a duration, and no instant gets nearer by it.
LEMMA PauseType ==
    ASSUME TypeOK, NEW i \in DOMAIN inflight, Responded(i), ApplyRateLimitPause(i)
    PROVE  /\ PauseFor(i) \in Nat
           /\ nextAllowed' \in Nat /\ nextAllowed' >= nextAllowed /\ nextAllowed' >= PauseFor(i)
           /\ rateLimitedUntil' \in Nat /\ rateLimitedUntil' >= rateLimitedUntil
           /\ rateLimitedUntil' >= PauseFor(i)
           /\ owed' \in Nat /\ owed' \in {owed, PauseFor(i)}
  <1>1. inflight[i].answer \in Answer
    <2>1. inflight \in Seq(Fetched)
      BY TypeParts DEF PollType
    <2>2. inflight[i] \in Fetched
      BY <2>1
    <2>3. QED
      BY <2>2 DEF Fetched
  <1>2. PICK r \in Response : inflight[i].answer = Answered(r)
    <2>1. inflight[i].answer.kind = "answered"
      BY DEF Responded
    <2>2. inflight[i].answer \notin {Queued, Pending, Failed}
      BY <2>1 DEF Queued, Pending, Failed
    <2>3. QED
      BY <1>1, <2>2 DEF Answer
  <1>3. Resp(i).resetIn \in Nat
    BY <1>2, LimitsAssumption DEF Resp, Answered, Response
  <1>4. PauseFor(i) \in Nat
    BY <1>3, LimitsAssumption DEF PauseFor, Smaller
  <1>5. nextAllowed \in Nat /\ rateLimitedUntil \in Nat /\ owed \in Nat
    BY DEF TypeOK
  <1>6. /\ nextAllowed' = Larger(nextAllowed, PauseFor(i))
        /\ rateLimitedUntil' = Larger(rateLimitedUntil, PauseFor(i))
        /\ owed' = Larger(owed, PauseFor(i))
    BY DEF ApplyRateLimitPause
  <1>7. QED
    BY <1>4, <1>5, <1>6, LargerBounds

-----------------------------------------------------------------------------
\* Time passing keeps the types.
LEMMA TickType == TypeOK /\ Tick => TypeOK'
  <1> SUFFICES ASSUME TypeOK, Tick PROVE RunType' /\ PollType'
    BY TypeParts
  <1> USE TypeParts DEF Tick
  <1>1. /\ rateLimitedUntil' \in Nat /\ nextAllowed' \in Nat /\ sleeping' \in Nat
        /\ owed' \in Nat /\ spacing' \in Nat
    <2>1. /\ rateLimitedUntil \in Nat /\ nextAllowed \in Nat /\ sleeping \in Nat
          /\ owed \in Nat /\ spacing \in Nat
      BY DEF TypeOK
    <2>2. QED
      BY <2>1 DEF Sooner
  <1>2. now' \in 1..MaxNow
    <2>1. now \in 1..MaxNow /\ MaxNow \in Nat
      BY LimitsAssumption DEF TypeOK
    <2>2. QED
      BY <2>1 DEF Smaller
  <1>3. RunType'
    BY <1>1, <1>2 DEF RunType
  <1>4. inflight' \in Seq(Fetched) /\ Len(inflight') = Len(inflight)
    BY TickFetches DEF PollType
  <1>5. PollType'
    BY <1>1, <1>4 DEF PollType
  <1>6. QED
    BY <1>3, <1>5

\* The steps of `run` keep the types.
LEMMA OuterType == TypeOK /\ Outer => TypeOK'
  <1> SUFFICES ASSUME TypeOK, Outer PROVE RunType' /\ PollType'
    BY TypeParts
  <1>1. RunType /\ PollType
    BY TypeParts
  <1>2. ASSUME Stop PROVE RunType' /\ PollType'
    <2>1. PollReturns("stopped")
      BY <1>2 DEF Stop
    <2>2. PollType'
      BY <2>1, ReturnsType
    <2>3. RunType'
      BY <1>1, <1>2, <2>1 DEF Stop, PollReturns, RunType
    <2>4. QED
      BY <2>2, <2>3
  <1>3. CASE StopCancelled \/ StopAtLimit \/ DropPoll
    BY <1>2, <1>3 DEF StopCancelled, StopAtLimit, DropPoll
  <1>4. CASE Throttle
    BY <1>1, <1>4 DEF Throttle, RunType, PollType, pollVars, history
  <1>5. CASE StartPoll
    <2>1. queue' \in Seq(Task)
      BY <1>5, TasksElements, DriverAssumption DEF StartPoll
    <2>2. RunType'
      BY <1>1, <1>5 DEF StartPoll, RunType, history
    <2>3. PollType'
      BY <1>1, <1>5, <2>1 DEF StartPoll, RunType, PollType, history
    <2>4. QED
      BY <2>2, <2>3
  <1>6. CASE BootstrapFails
    BY <1>1, <1>6, LimitsAssumption DEF BootstrapFails, RunType, PollType, pollVars, history
  <1>7. CASE HoldPoll
    <2>1. PollReturns("idle")
      BY <1>7 DEF HoldPoll
    <2>2. PollType'
      BY <2>1, ReturnsType
    <2>3. sleeping' \in Nat
      BY <1>7, LimitsAssumption DEF HoldPoll
    <2>4. RunType'
      BY <1>1, <1>7, <2>1, <2>3 DEF HoldPoll, PollReturns, RunType
    <2>5. QED
      BY <2>2, <2>4
  <1>8. CASE Advance
    <2>1. PollReturns("save")
      BY <1>8 DEF Advance
    <2>2. PollType'
      BY <2>1, ReturnsType
    <2>3. filter.after \in Nat /\ filter.before \in 0..MaxNow /\ MaxNow \in Nat
      BY <1>1, LimitsAssumption DEF RunType
    <2>4. filter' \in [after : Nat, before : 0..MaxNow]
      BY <1>8, <2>3, WindowType DEF Advance
    <2>5. WindowSeconds \subseteq 1..MaxNow
      BY <2>3 DEF WindowSeconds
    <2>6. handled \subseteq Request
      BY <1>1 DEF PollType
    <2>7. {handled} \X WindowSeconds \subseteq (SUBSET Request) \X (1..MaxNow)
      BY <2>5, <2>6
    <2>8. covered' \subseteq (SUBSET Request) \X (1..MaxNow) /\ excused' \subseteq 1..MaxNow
      BY <1>1, <1>8, <2>5, <2>7 DEF Advance, RunType
    <2>9. RunType'
      BY <1>1, <1>8, <2>1, <2>4, <2>8 DEF Advance, PollReturns, RunType
    <2>10. QED
      BY <2>2, <2>9
  <1>9. CASE Save
    <2>1. saved' \in Nat /\ sleeping' \in Nat
      BY <1>1, <1>9, LimitsAssumption DEF Save, RunType
    <2>2. QED
      BY <1>1, <1>9, <2>1 DEF Save, RunType, PollType, pollVars, history
  <1>10. CASE WakeUp
    BY <1>1, <1>10 DEF WakeUp, RunType, PollType, pollVars, history
  <1>11. QED
    BY <1>3, <1>4, <1>5, <1>6, <1>7, <1>8, <1>9, <1>10 DEF Outer

\* The steps that fill the slots keep the types.
LEMMA FillType == TypeOK /\ Locals /\ Fill => TypeOK'
  <1> SUFFICES ASSUME TypeOK, Locals, Fill PROVE RunType' /\ PollType'
    BY TypeParts
  <1>1. RunType /\ PollType
    BY TypeParts
  <1>2. RunType'
    BY <1>1 DEF Fill, Issue, Pause, IssueAfterPause, BudgetReached, OutOfPoll, Push, RunType,
                pollVars
  <1>3. ASSUME queue # <<>>, Len(inflight) < MaxConcurrency, Push(Head(queue)),
               issued' \in 0..MaxRequests, UNCHANGED <<progressed, handled, gaveUp>>
        PROVE  PollType'
    <2>1. /\ queue' \in Seq(Task) /\ inflight' \in Seq(Fetched)
          /\ Len(inflight') = Len(inflight) + 1
      <3>1. queue \in Seq(Task) /\ inflight \in Seq(Fetched)
        BY <1>1 DEF PollType
      <3>2. QED
        BY <1>3, <3>1, PushEffect, Zenon
    <2>2. Len(inflight') <= MaxConcurrency
      <3>1. Len(inflight) \in Nat /\ MaxConcurrency \in Nat
        BY <1>1, LimitsAssumption, LenProperties DEF PollType
      <3>2. QED
        BY <1>3, <2>1, <3>1
    <2>3. nextAllowed' \in Nat
      BY <1>3, LimitsAssumption DEF Push
    <2>4. QED
      BY <1>1, <1>3, <2>1, <2>2, <2>3 DEF PollType
  <1>4. issued \in 0..MaxRequests /\ (~Spent => issued + 1 \in 0..MaxRequests)
    <2>1. issued \in 0..MaxRequests
      BY <1>1 DEF PollType
    <2>2. MaxRequests \in Nat
      BY LimitsAssumption
    <2>3. QED
      BY <2>1, <2>2 DEF Spent
  <1>5. CASE Issue
    BY <1>2, <1>3, <1>4, <1>5 DEF Issue, Filling
  <1>6. CASE IssueAfterPause
    BY <1>2, <1>3, <1>4, <1>6 DEF IssueAfterPause, Locals
  <1>7. CASE Pause
    BY <1>1, <1>2, <1>4, <1>7 DEF Pause, PollType
  <1>8. CASE BudgetReached
    BY <1>1, <1>2, <1>8 DEF BudgetReached, PollType
  <1>9. QED
    BY <1>5, <1>6, <1>7, <1>8 DEF Fill

\* The steps of a fetch keep the types.
LEMMA FetchType == ASSUME TypeOK, NEW i \in DOMAIN inflight, Awaited(i) PROVE TypeOK'
  <1>1. RunType /\ PollType
    BY TypeParts
  <1>2. UNCHANGED Fetching /\ spacing' \in {spacing, MinInterval}
    BY DEF Awaited, Leave, Fetch, ServerAnswers, FetchFails
  <1>3. inflight' \in Seq(Fetched) /\ Len(inflight') = Len(inflight)
    BY <1>1, AnswerFetches DEF PollType
  <1>4. RunType'
    BY <1>1, <1>2, LimitsAssumption DEF Fetching, loopVars, RunType
  <1>5. PollType'
    BY <1>1, <1>2, <1>3 DEF Fetching, PollType
  <1>6. QED
    BY <1>4, <1>5, TypeParts

\* The feedback of a response is a worklist.
LEMMA FeedbackType ==
    ASSUME NEW task \in Task PROVE Feedback(task) \in Seq(Task)
  <1>1. task.spec \in Request /\ task.depth + 1 \in Nat
    BY DEF Task
  <1>2. Feeds[task.spec] \in Seq(Request)
    BY <1>1, DriverAssumption
  <1>3. Tasks(Feeds[task.spec], task.depth + 1) \in Seq(Task)
    BY <1>1, <1>2, TasksElements
  <1>4. QED
    BY <1>3 DEF Feedback

\* The steps that take a fetch keep the types.
LEMMA TakeType == ASSUME TypeOK, NEW i \in DOMAIN inflight, Take(i) PROVE TypeOK'
  <1>1. RunType /\ PollType
    BY TypeParts
  <1>2. CASE TransportFailure(i)
    <2>1. inflight' \in Seq(Fetched) /\ Len(inflight') = Len(inflight) - 1
      <3>1. inflight \in Seq(Fetched) /\ inflight' = Without(inflight, i)
        BY <1>1, <1>2 DEF TransportFailure, PollType
      <3>2. QED
        BY <3>1, TakeEffect, Zenon
    <2>2. Len(inflight') <= MaxConcurrency
      <3>1. Len(inflight) \in Nat /\ MaxConcurrency \in Nat /\ Len(inflight) <= MaxConcurrency
        BY <1>1, LimitsAssumption, LenProperties DEF PollType
      <3>2. QED
        BY <2>1, <3>1
    <2>3. PollType'
      BY <1>1, <1>2, <2>1, <2>2 DEF TransportFailure, PollType
    <2>4. RunType'
      BY <1>1, <1>2 DEF TransportFailure, OutOfPoll, RunType
    <2>5. QED
      BY <2>3, <2>4, TypeParts
  <1>3. CASE Aborted(i)
    <2>1. PollReturns("stopped") /\ Stop
      BY <1>3 DEF Aborted, Stop
    <2>2. PollType'
      BY <2>1, ReturnsType
    <2>3. RunType'
      BY <1>1, <2>1 DEF Stop, PollReturns, RunType
    <2>4. QED
      BY <2>2, <2>3, TypeParts
  <1>4. ASSUME Received(i), queue' \in Seq(Task), progressed' \in Nat,
               handled' \subseteq Request, gaveUp' \in BOOLEAN
        PROVE  TypeOK'
    <2>1. inflight' \in Seq(Fetched) /\ Len(inflight') = Len(inflight) - 1
      <3>1. inflight \in Seq(Fetched) /\ inflight' = Without(inflight, i)
        BY <1>1, <1>4 DEF Received, PollType
      <3>2. QED
        BY <3>1, TakeEffect, Zenon
    <2>2. Len(inflight') <= MaxConcurrency
      <3>1. Len(inflight) \in Nat /\ MaxConcurrency \in Nat /\ Len(inflight) <= MaxConcurrency
        BY <1>1, LimitsAssumption, LenProperties DEF PollType
      <3>2. QED
        BY <2>1, <3>1
    <2>3. Responded(i) /\ ApplyRateLimitPause(i)
      BY <1>4 DEF Received
    <2>4. /\ nextAllowed' \in Nat /\ rateLimitedUntil' \in Nat
          /\ owed \in Nat /\ PauseFor(i) \in Nat /\ owed' \in {owed, PauseFor(i)}
      BY <1>1, <2>3, PauseType DEF RunType
    <2>5. PollType'
      BY <1>1, <1>4, <2>1, <2>2, <2>4 DEF Received, PollType
    <2>6. RunType'
      BY <1>1, <1>4, <2>4 DEF Received, RunType
    <2>7. QED
      BY <2>5, <2>6, TypeParts
  <1>5. inflight[i].task \in Task /\ inflight[i].task.spec \in Request
    <2>1. inflight \in Seq(Fetched)
      BY <1>1 DEF PollType
    <2>2. inflight[i] \in Fetched
      BY <2>1
    <2>3. QED
      BY <2>2 DEF Fetched, Task
  <1>6. /\ queue \in Seq(Task) /\ progressed \in Nat /\ handled \subseteq Request
        /\ gaveUp \in BOOLEAN
    BY <1>1 DEF PollType
  <1>7. CASE Refused(i)
    <2>1. queue' \in Seq(Task)
      BY <1>5, <1>6, <1>7, ConcatProperties DEF Refused
    <2>2. QED
      BY <1>4, <1>6, <1>7, <2>1 DEF Refused
  <1>8. CASE Skipped(i)
    BY <1>4, <1>6, <1>8 DEF Skipped
  <1>9. CASE Held(i)
    BY <1>4, <1>6, <1>9 DEF Held
  <1>10. CASE Succeeded(i)
    <2>1. queue \o Feedback(inflight[i].task) \in Seq(Task)
      BY <1>5, <1>6, FeedbackType, ConcatProperties
    <2>2. queue' \in Seq(Task)
      BY <1>6, <1>10, <2>1 DEF Succeeded
    <2>3. gaveUp' \in BOOLEAN
      BY <1>10 DEF Succeeded
    <2>4. handled' \subseteq Request /\ progressed' \in Nat
      BY <1>5, <1>6, <1>10 DEF Succeeded
    <2>5. Received(i)
      BY <1>10 DEF Succeeded
    <2>6. QED
      BY <1>4, <2>2, <2>3, <2>4, <2>5
  <1>11. QED
    BY <1>2, <1>3, <1>7, <1>8, <1>9, <1>10 DEF Take

\* Every step keeps the types.
LEMMA TypeStep == TypeOK /\ Locals /\ [Next]_vars => TypeOK'
  <1> SUFFICES ASSUME TypeOK, Locals, [Next]_vars PROVE TypeOK'
    OBVIOUS
  <1>1. CASE Tick
    BY <1>1, TickType
  <1>2. CASE Cancel
    BY <1>2 DEF Cancel, TypeOK, loopVars, pollVars, history
  <1>3. CASE Restart
    <2>1. RunType
      BY TypeParts
    <2>2. filter' \in [after : Nat, before : 0..MaxNow]
      <3>1. PICK after \in {saved, StartTs} : filter' = Window(after)
        BY <1>3 DEF Restart
      <3>2. after \in Nat
        BY <2>1, LimitsAssumption DEF RunType
      <3>3. QED
        BY <3>1, <3>2, WindowType
    <2>3. restarts' \in 0..MaxRestarts
      <3>1. restarts \in 0..MaxRestarts /\ MaxRestarts \in Nat
        BY <2>1, LimitsAssumption DEF RunType
      <3>2. QED
        BY <1>3, <3>1 DEF Restart
    <2>4. RunType'
      BY <1>3, <2>1, <2>2, <2>3 DEF Restart, RunType
    <2>5. PollReturns("check")
      BY <1>3 DEF Restart, PollReturns
    <2>6. PollType'
      BY <2>5, ReturnsType
    <2>7. QED
      BY <2>4, <2>6, TypeParts
  <1>4. CASE Outer
    BY <1>4, OuterType
  <1>5. CASE Fill
    BY <1>5, FillType
  <1>6. CASE \E i \in DOMAIN inflight : Awaited(i) \/ Take(i)
    BY <1>6, FetchType, TakeType
  <1>7. CASE UNCHANGED vars
    BY <1>7 DEF vars, TypeOK, loopVars, pollVars, history
  <1>8. QED
    BY <1>1, <1>2, <1>3, <1>4, <1>5, <1>6, <1>7 DEF Next, Awaited

-----------------------------------------------------------------------------
\* A poll that returns leaves nothing behind.
LEMMA ReturnsClean ==
    ASSUME NEW to, PollReturns(to), to \notin {"poll", "pause"}
    PROVE  Locals' /\ ~Polling'
  BY DEF PollReturns, Locals, Polling

\* Every step leaves nothing behind outside a poll.
LEMMA LocalsStep == TypeOK /\ Locals /\ [Next]_vars => Locals'
  <1> SUFFICES ASSUME TypeOK, Locals, [Next]_vars PROVE Locals'
    OBVIOUS
  <1>1. inflight \in Seq(Fetched)
    BY TypeParts DEF PollType
  <1>2. CASE Tick
    <2>1. Len(inflight') = Len(inflight) /\ (inflight = <<>> => inflight' = <<>>)
      <3>1. inflight' \in Seq(Fetched) /\ Len(inflight') = Len(inflight)
        BY <1>1, <1>2, TickFetches DEF Tick
      <3>2. QED
        BY <1>1, <3>1
    <2>2. QED
      BY <1>2, <2>1 DEF Tick, Locals, Polling
  <1>3. CASE Cancel
    BY <1>3 DEF Cancel, Locals, Polling, loopVars, pollVars, history
  <1>4. CASE Restart
    BY <1>4 DEF Restart, Locals, Polling
  <1>5. CASE Outer
    <2>1. ASSUME Stop PROVE Locals'
      BY <2>1, ReturnsClean DEF Stop
    <2>2. CASE StopCancelled \/ StopAtLimit \/ DropPoll
      BY <2>1, <2>2 DEF StopCancelled, StopAtLimit, DropPoll
    <2>3. CASE Throttle \/ BootstrapFails \/ Save \/ WakeUp
      BY <2>3 DEF Throttle, BootstrapFails, ReadyToPoll, Save, WakeUp, Locals, Polling, pollVars,
                  history
    <2>4. CASE StartPoll
      BY <2>4 DEF StartPoll, Locals, Polling
    <2>5. CASE HoldPoll \/ Advance
      BY <2>5, ReturnsClean DEF HoldPoll, Advance
    <2>6. QED
      BY <1>5, <2>2, <2>3, <2>4, <2>5 DEF Outer
  <1>6. CASE Fill
    BY <1>6 DEF Fill, Issue, IssueAfterPause, Pause, BudgetReached, Filling, Push, Locals, Polling,
                pollVars
  <1>7. ASSUME NEW i \in DOMAIN inflight, Awaited(i) PROVE Locals'
    <2>1. Len(inflight') = Len(inflight)
      BY <1>1, <1>7, AnswerFetches
    <2>2. inflight # <<>>
      OBVIOUS
    <2>3. UNCHANGED Fetching
      BY <1>7 DEF Awaited, Leave, Fetch, ServerAnswers, FetchFails
    <2>4. QED
      BY <2>1, <2>2, <2>3 DEF Fetching, loopVars, Locals, Polling
  <1>8. ASSUME NEW i \in DOMAIN inflight, Take(i) PROVE Locals'
    <2>1. CASE Aborted(i)
      BY <2>1, ReturnsClean DEF Aborted, Stop
    <2>2. CASE ~Aborted(i)
      <3>1. pc = "poll" /\ pc' = pc
        BY <1>8, <2>2 DEF Take, TransportFailure, Refused, Skipped, Held, Succeeded, Received,
                          Responded, Awaiting, OutOfPoll
      <3>2. QED
        BY <3>1 DEF Locals, Polling
    <2>3. QED
      BY <2>1, <2>2
  <1>9. CASE UNCHANGED vars
    BY <1>9 DEF vars, loopVars, pollVars, history, Locals, Polling
  <1>10. QED
    BY <1>2, <1>3, <1>4, <1>5, <1>6, <1>7, <1>8, <1>9 DEF Next, Awaited

-----------------------------------------------------------------------------
\* A step that forgets no request keeps the worklist complete.
LEMMA WorklistKept ==
    ASSUME Worklist, Polling, gaveUp' = gaveUp, handled' = handled,
           \A r : Waiting(r) => Waiting(r)'
    PROVE  Worklist'
  BY DEF Worklist

\* With the same tasks, the same requests are waiting.
LEMMA SameTasks ==
    ASSUME queue' = queue, DOMAIN inflight' = DOMAIN inflight,
           \A i \in DOMAIN inflight : inflight'[i].task = inflight[i].task
    PROVE  \A r : Waiting(r) => Waiting(r)'
  BY DEF Waiting

\* A longer worklist forgets none of its requests.
LEMMA QueueExtended ==
    ASSUME NEW s \in Seq(Task), NEW t \in Seq(Task), NEW r
    PROVE  /\ (\E j \in DOMAIN s : s[j].spec = r) => \E j \in DOMAIN (s \o t) : (s \o t)[j].spec = r
           /\ (\E j \in DOMAIN t : t[j].spec = r) => \E j \in DOMAIN (s \o t) : (s \o t)[j].spec = r
  <1>1. /\ s \o t \in Seq(Task) /\ Len(s \o t) = Len(s) + Len(t)
        /\ \A j \in 1..(Len(s) + Len(t)) :
              (s \o t)[j] = IF j <= Len(s) THEN s[j] ELSE t[j - Len(s)]
    BY ConcatProperties
  <1>2. DOMAIN s = 1..Len(s) /\ DOMAIN t = 1..Len(t) /\ DOMAIN (s \o t) = 1..(Len(s) + Len(t))
    BY <1>1
  <1>3. ASSUME NEW j \in 1..Len(s), s[j].spec = r
        PROVE  \E k \in DOMAIN (s \o t) : (s \o t)[k].spec = r
    <2>1. j \in 1..(Len(s) + Len(t)) /\ j <= Len(s)
      OBVIOUS
    <2>2. QED
      BY <1>1, <1>2, <1>3, <2>1
  <1>4. ASSUME NEW j \in 1..Len(t), t[j].spec = r
        PROVE  \E k \in DOMAIN (s \o t) : (s \o t)[k].spec = r
    <2>1. /\ Len(s) + j \in 1..(Len(s) + Len(t)) /\ ~(Len(s) + j <= Len(s))
          /\ (Len(s) + j) - Len(s) = j
      OBVIOUS
    <2>2. (s \o t)[Len(s) + j] = t[j]
      BY <1>1, <2>1
    <2>3. QED
      BY <1>2, <1>4, <2>1, <2>2
  <1>5. QED
    BY <1>2, <1>3, <1>4

\* A refused task is waiting again.
LEMMA RefusedWaits ==
    ASSUME TypeOK, NEW i \in DOMAIN inflight, Refused(i)
    PROVE  \A r : Waiting(r) => Waiting(r)'
  <1>1. queue \in Seq(Task) /\ inflight \in Seq(Fetched)
    BY TypeParts DEF PollType
  <1>2. inflight' = Without(inflight, i) /\ queue' = <<inflight[i].task>> \o queue
    BY DEF Refused, Received
  <1>3. inflight[i].task \in Task
    BY <1>1, <1>2, TakeEffect
  <1>4. <<inflight[i].task>> \in Seq(Task)
    BY <1>3
  <1>5. ASSUME NEW r, Waiting(r) PROVE Waiting(r)'
    <2>1. CASE \E j \in DOMAIN queue : queue[j].spec = r
      <3>1. \E j \in DOMAIN (<<inflight[i].task>> \o queue) :
               (<<inflight[i].task>> \o queue)[j].spec = r
        BY <1>1, <1>4, <2>1, QueueExtended, Zenon
      <3>2. QED
        BY <1>2, <3>1 DEF Waiting
    <2>2. CASE r = inflight[i].task.spec
      <3>1. \E j \in DOMAIN <<inflight[i].task>> : <<inflight[i].task>>[j].spec = r
        <4>1. 1 \in DOMAIN <<inflight[i].task>> /\ <<inflight[i].task>>[1].spec = r
          BY <2>2
        <4>2. QED
          BY <4>1
      <3>2. \E j \in DOMAIN (<<inflight[i].task>> \o queue) :
               (<<inflight[i].task>> \o queue)[j].spec = r
        BY <1>1, <1>4, <3>1, QueueExtended, Zenon
      <3>3. QED
        BY <1>2, <3>2 DEF Waiting
    <2>3. CASE \E j \in DOMAIN inflight' : inflight'[j].task.spec = r
      BY <2>3 DEF Waiting
    <2>4. CASE \E j \in DOMAIN inflight : inflight[j].task.spec = r
      <3>1. \/ r = inflight[i].task.spec
            \/ \E j \in DOMAIN inflight' : inflight'[j].task.spec = r
        BY <1>1, <1>2, <2>4, TakeEffect, Zenon
      <3>2. QED
        BY <2>2, <2>3, <3>1
    <2>5. QED
      BY <1>5, <2>1, <2>4 DEF Waiting
  <1>6. QED
    BY <1>5

\* A response that was handled in full leaves its feedback in the worklist.
LEMMA SucceededWorklist ==
    ASSUME TypeOK, Worklist, NEW i \in DOMAIN inflight, Succeeded(i)
    PROVE  Worklist'
  <1> DEFINE task == inflight[i].task
  <1> SUFFICES ASSUME ~gaveUp'
               PROVE  /\ \A r \in Range(Bootstrap) : r \in handled' \/ Waiting(r)'
                      /\ \A q \in handled' \cap FeedsBack : \A r \in Range(Feeds[q]) :
                             r \in handled' \/ Waiting(r)'
    BY DEF Worklist
  <1>1. /\ queue \in Seq(Task) /\ inflight \in Seq(Fetched) /\ gaveUp \in BOOLEAN
    BY TypeParts DEF PollType
  <1>2. inflight' = Without(inflight, i) /\ handled' = handled \cup {task.spec} /\ pc = "poll"
    BY DEF Succeeded, Received, Responded, Awaiting
  <1>3. task \in Task /\ Feedback(task) \in Seq(Task)
    BY <1>1, <1>2, TakeEffect, FeedbackType
  <1>4. /\ ~gaveUp /\ queue' = queue \o Feedback(task)
        /\ (task.spec \in FeedsBack => ~TooDeep(task))
    BY DEF Succeeded
  <1>5. ASSUME NEW r, r \in handled \/ Waiting(r) PROVE r \in handled' \/ Waiting(r)'
    <2>1. CASE \E j \in DOMAIN queue : queue[j].spec = r
      <3>1. \E j \in DOMAIN (queue \o Feedback(task)) : (queue \o Feedback(task))[j].spec = r
        BY <1>1, <1>3, <2>1, QueueExtended, Zenon
      <3>2. QED
        BY <1>4, <3>1 DEF Waiting
    <2>2. CASE \E j \in DOMAIN inflight : inflight[j].task.spec = r
      <3>1. r = task.spec \/ \E j \in DOMAIN inflight' : inflight'[j].task.spec = r
        BY <1>1, <1>2, <2>2, TakeEffect
      <3>2. QED
        BY <1>2, <3>1 DEF Waiting
    <2>3. QED
      BY <1>2, <1>5, <2>1, <2>2 DEF Waiting
  <1>6. /\ \A r \in Range(Bootstrap) : r \in handled \/ Waiting(r)
        /\ \A q \in handled \cap FeedsBack : \A r \in Range(Feeds[q]) :
               r \in handled \/ Waiting(r)
    BY <1>2, <1>4 DEF Worklist, Polling
  <1>7. ASSUME task.spec \in FeedsBack, NEW r \in Range(Feeds[task.spec]) PROVE Waiting(r)'
    <2>1. Feedback(task) = Tasks(Feeds[task.spec], task.depth + 1)
      BY <1>4, <1>7 DEF Feedback
    <2>2. Feeds[task.spec] \in Seq(Request) /\ task.depth + 1 \in Nat
      BY <1>3, DriverAssumption DEF Task
    <2>3. \E j \in DOMAIN Feedback(task) : Feedback(task)[j].spec = r
      <3>1. \A q \in Range(Feeds[task.spec]) :
               \E j \in DOMAIN Tasks(Feeds[task.spec], task.depth + 1) :
                  Tasks(Feeds[task.spec], task.depth + 1)[j].spec = q
        BY <2>2, TasksElements, Zenon
      <3>2. QED
        BY <1>7, <2>1, <3>1, Zenon
    <2>4. \E j \in DOMAIN (queue \o Feedback(task)) : (queue \o Feedback(task))[j].spec = r
      BY <1>1, <1>3, <2>3, QueueExtended, Zenon
    <2>5. QED
      BY <1>4, <2>4 DEF Waiting
  <1>8. QED
    BY <1>2, <1>5, <1>6, <1>7

\* The worklist stays complete.
LEMMA WorklistStep == TypeOK /\ Locals /\ Worklist /\ [Next]_vars => Worklist'
  <1> SUFFICES ASSUME TypeOK, Locals, Worklist, [Next]_vars PROVE Worklist'
    OBVIOUS
  <1>1. queue \in Seq(Task) /\ inflight \in Seq(Fetched)
    BY TypeParts DEF PollType
  <1>2. ASSUME ~Polling' PROVE Worklist'
    BY <1>2 DEF Worklist
  <1>3. ASSUME pc' = pc, gaveUp' = gaveUp, handled' = handled,
               \A r : Waiting(r) => Waiting(r)'
        PROVE  Worklist'
    BY <1>3, <1>2, WorklistKept DEF Polling
  <1>4. CASE Tick
    <2>1. DOMAIN inflight' = DOMAIN inflight
          /\ \A i \in DOMAIN inflight : inflight'[i].task = inflight[i].task
      <3>1. inflight' = [i \in DOMAIN inflight |->
                           [inflight[i] EXCEPT !.answer = SoonerAnswer(@)]]
        BY <1>4 DEF Tick
      <3>2. QED
        BY <1>1, <3>1, TickFetches
    <2>2. queue' = queue /\ pc' = pc /\ gaveUp' = gaveUp /\ handled' = handled
      BY <1>4 DEF Tick
    <2>3. \A r : Waiting(r) => Waiting(r)'
      BY <2>1, <2>2, SameTasks
    <2>4. QED
      BY <1>3, <2>2, <2>3
  <1>5. CASE Cancel \/ UNCHANGED vars
    BY <1>3, <1>5, SameTasks DEF Cancel, vars, loopVars, pollVars, history
  <1>6. CASE Restart
    BY <1>2, <1>6 DEF Restart, Polling
  <1>7. CASE Outer
    <2>1. CASE StartPoll
      <3>1. queue' = Tasks(Bootstrap, 0) /\ Bootstrap \in Seq(Request)
        BY <2>1, DriverAssumption DEF StartPoll
      <3>2. \A r \in Range(Bootstrap) :
               \E j \in DOMAIN Tasks(Bootstrap, 0) : Tasks(Bootstrap, 0)[j].spec = r
        <4>1. 0 \in Nat
          OBVIOUS
        <4>2. QED
          BY <3>1, <4>1, TasksElements, Zenon
      <3>3. handled' = {}
        BY <2>1 DEF StartPoll, ReadyToPoll, Locals, Polling, history
      <3>4. QED
        BY <3>1, <3>2, <3>3 DEF Worklist, Waiting
    <2>2. CASE ~StartPoll
      <3>1. ~Polling'
        BY <1>7, <2>2 DEF Outer, StopCancelled, Throttle, StopAtLimit, BootstrapFails,
              DropPoll, HoldPoll, Advance, Save, WakeUp, Stop, PollReturns, Polling
      <3>2. QED
        BY <1>2, <3>1
    <2>3. QED
      BY <2>1, <2>2
  <1>8. CASE Fill
    <2>1. CASE Issue \/ IssueAfterPause
      <3>1. queue # <<>> /\ Push(Head(queue)) /\ gaveUp' = gaveUp /\ handled' = handled
        BY <2>1 DEF Issue, IssueAfterPause, Filling, Locals
      <3>2. \A r : Waiting(r) => Waiting(r)'
        BY <1>1, <3>1, PushEffect
      <3>3. Polling
        BY <2>1 DEF Issue, IssueAfterPause, Filling, Polling
      <3>4. QED
        BY <3>1, <3>2, <3>3, WorklistKept
    <2>2. CASE Pause
      <3>1. Polling /\ gaveUp' = gaveUp /\ handled' = handled
        BY <2>2 DEF Pause, Filling, Polling
      <3>2. \A r : Waiting(r) => Waiting(r)'
        <4>1. queue' = queue /\ inflight' = inflight
          BY <2>2 DEF Pause
        <4>2. QED
          BY <4>1 DEF Waiting
      <3>3. QED
        BY <3>1, <3>2, WorklistKept
    <2>3. CASE BudgetReached
      BY <2>3 DEF BudgetReached, Worklist
    <2>4. QED
      BY <1>8, <2>1, <2>2, <2>3 DEF Fill
  <1>9. ASSUME NEW i \in DOMAIN inflight, Awaited(i) PROVE Worklist'
    <2>1. UNCHANGED Fetching
      BY <1>9 DEF Awaited, Leave, Fetch, ServerAnswers, FetchFails
    <2>2. DOMAIN inflight' = DOMAIN inflight
          /\ \A j \in DOMAIN inflight : inflight'[j].task = inflight[j].task
      BY <1>1, <1>9, AnswerFetches
    <2>3. QED
      BY <1>3, <2>1, <2>2, SameTasks DEF Fetching, loopVars
  <1>10. ASSUME NEW i \in DOMAIN inflight, Take(i) PROVE Worklist'
    <2>1. CASE TransportFailure(i) \/ Skipped(i) \/ Held(i)
      BY <2>1 DEF TransportFailure, Skipped, Held, Worklist
    <2>2. CASE Aborted(i)
      BY <1>2, <2>2 DEF Aborted, Stop, PollReturns, Polling
    <2>3. CASE Refused(i)
      BY <1>3, <2>3, RefusedWaits DEF Refused, Received
    <2>4. CASE Succeeded(i)
      BY <2>4, SucceededWorklist
    <2>5. QED
      BY <1>10, <2>1, <2>2, <2>3, <2>4 DEF Take
  <1>11. QED
    BY <1>4, <1>5, <1>6, <1>7, <1>8, <1>9, <1>10 DEF Next, Awaited

-----------------------------------------------------------------------------
\* Both instants stay at least as far as the pause that is owed.
LEMMA PausesStep == TypeOK /\ Locals /\ Pauses /\ [Next]_vars => Pauses'
  <1> SUFFICES ASSUME TypeOK, Locals, Pauses, [Next]_vars PROVE Pauses'
    OBVIOUS
  <1>1. owed \in Nat /\ rateLimitedUntil \in Nat /\ nextAllowed \in Nat
    BY DEF TypeOK
  <1>2. CASE Tick
    <2>1. ASSUME NEW t \in Nat, NEW u \in Nat, t <= u PROVE Sooner(t) <= Sooner(u)
      BY <2>1 DEF Sooner
    <2>2. /\ owed' = Sooner(owed) /\ rateLimitedUntil' = Sooner(rateLimitedUntil)
          /\ nextAllowed' = Sooner(nextAllowed) /\ pc' = pc
      BY <1>2 DEF Tick
    <2>3. QED
      BY <1>1, <2>1, <2>2 DEF Pauses, Polling
  <1>3. CASE Cancel \/ UNCHANGED vars
    BY <1>3 DEF Cancel, vars, loopVars, pollVars, history, Pauses, Polling
  <1>4. CASE Restart
    BY <1>4 DEF Restart, Pauses, Polling
  <1>5. CASE Outer
    <2>1. CASE StartPoll
      <3>1. owed = 0
        BY <1>1, <2>1 DEF StartPoll, ReadyToPoll, Pauses
      <3>2. owed' = 0 /\ rateLimitedUntil' = 0 /\ nextAllowed' = rateLimitedUntil
        BY <2>1, <3>1 DEF StartPoll, history
      <3>3. QED
        BY <1>1, <3>2 DEF Pauses
    <2>2. CASE ~StartPoll
      <3>1. ~Polling' /\ owed' = owed /\ rateLimitedUntil' = rateLimitedUntil
        BY <1>5, <2>2 DEF Outer, StopCancelled, Throttle, StopAtLimit, BootstrapFails,
              DropPoll, HoldPoll, Advance, Save, WakeUp, Stop, PollReturns, Polling, history
      <3>2. QED
        BY <3>1 DEF Pauses
    <2>3. QED
      BY <2>1, <2>2
  <1>6. CASE Fill
    <2>1. CASE Issue \/ IssueAfterPause
      <3>1. Polling /\ nextAllowed = 0 /\ owed' = owed /\ rateLimitedUntil' = rateLimitedUntil
            /\ nextAllowed' = MinInterval
        BY <2>1 DEF Issue, IssueAfterPause, Filling, OutOfPoll, Push, Polling
      <3>2. owed = 0
        BY <1>1, <3>1 DEF Pauses
      <3>3. QED
        BY <1>1, <3>1, <3>2, LimitsAssumption DEF Pauses
    <2>2. CASE Pause \/ BudgetReached
      <3>1. Polling /\ UNCHANGED <<owed, rateLimitedUntil, nextAllowed>>
        BY <2>2 DEF Pause, BudgetReached, Filling, OutOfPoll, Polling
      <3>2. QED
        BY <3>1 DEF Pauses
    <2>3. QED
      BY <1>6, <2>1, <2>2 DEF Fill
  <1>7. ASSUME NEW i \in DOMAIN inflight, Awaited(i) PROVE Pauses'
    BY <1>7 DEF Awaited, Leave, Fetch, ServerAnswers, FetchFails, Fetching, loopVars, Pauses,
                Polling
  <1>8. ASSUME NEW i \in DOMAIN inflight, Take(i) PROVE Pauses'
    <2>1. CASE TransportFailure(i)
      BY <2>1 DEF TransportFailure, OutOfPoll, Pauses, Polling
    <2>2. CASE Aborted(i)
      BY <2>2 DEF Aborted, Stop, PollReturns, Pauses, Polling
    <2>3. CASE Received(i)
      <3>1. /\ PauseFor(i) \in Nat
            /\ nextAllowed' \in Nat /\ nextAllowed' >= nextAllowed /\ nextAllowed' >= PauseFor(i)
            /\ rateLimitedUntil' \in Nat /\ rateLimitedUntil' >= rateLimitedUntil
            /\ rateLimitedUntil' >= PauseFor(i)
            /\ owed' \in {owed, PauseFor(i)}
        BY <2>3, PauseType DEF Received
      <3>2. Polling
        BY <2>3 DEF Received, Responded, Awaiting, Polling
      <3>3. QED
        BY <1>1, <3>1, <3>2 DEF Pauses
    <2>4. QED
      BY <1>8, <2>1, <2>2, <2>3 DEF Take, Refused, Skipped, Held, Succeeded
  <1>9. QED
    BY <1>2, <1>3, <1>4, <1>5, <1>6, <1>7, <1>8 DEF Next, Awaited

\* Nothing is pushed into the slot that a pause left free.
LEMMA SlotFreeStep ==
    TypeOK /\ Locals /\ Locals' /\ Pauses /\ SlotFree /\ [Next]_vars => SlotFree'
  <1> SUFFICES ASSUME TypeOK, Locals, Locals', Pauses, SlotFree, [Next]_vars PROVE SlotFree'
    OBVIOUS
  <1>1. /\ owed \in Nat /\ nextAllowed \in Nat /\ rateLimitedUntil \in Nat
        /\ inflight \in Seq(Fetched) /\ Len(inflight) <= MaxConcurrency
    BY TypeParts DEF TypeOK, PollType
  <1>2. MaxConcurrency \in Nat /\ MaxConcurrency > 0 /\ Len(<<>>) = 0
    BY LimitsAssumption
  <1>3. ASSUME inflight' = <<>> PROVE SlotFree'
    BY <1>2, <1>3 DEF SlotFree
  <1>4. ASSUME owed' = owed, Len(inflight') = Len(inflight) PROVE SlotFree'
    BY <1>4 DEF SlotFree
  <1>5. CASE Tick
    <2>1. owed' = Sooner(owed) /\ (Sooner(owed) > 0 => owed > 0)
      BY <1>1, <1>5 DEF Tick, Sooner
    <2>2. Len(inflight') = Len(inflight)
      BY <1>1, <1>5, TickFetches DEF Tick
    <2>3. QED
      BY <2>1, <2>2 DEF SlotFree
  <1>6. CASE Cancel \/ UNCHANGED vars
    BY <1>4, <1>6 DEF Cancel, vars, loopVars, pollVars, history
  <1>7. CASE Restart
    BY <1>3, <1>7 DEF Restart
  <1>8. CASE Outer
    <2>1. CASE StartPoll
      <3>1. inflight' = <<>>
        BY <2>1 DEF StartPoll, ReadyToPoll, Locals, Polling
      <3>2. QED
        BY <1>3, <3>1
    <2>2. CASE ~StartPoll
      <3>1. ~Polling'
        BY <1>8, <2>2 DEF Outer, StopCancelled, Throttle, StopAtLimit, BootstrapFails,
              DropPoll, HoldPoll, Advance, Save, WakeUp, Stop, PollReturns, Polling
      <3>2. QED
        BY <1>3, <3>1 DEF Locals
    <2>3. QED
      BY <2>1, <2>2
  <1>9. CASE Fill
    <2>1. CASE Issue \/ IssueAfterPause
      <3>1. Polling /\ nextAllowed = 0 /\ owed' = owed
        BY <2>1 DEF Issue, IssueAfterPause, Filling, OutOfPoll, Polling
      <3>2. QED
        BY <1>1, <3>1 DEF Pauses, SlotFree
    <2>2. CASE Pause \/ BudgetReached
      BY <1>4, <2>2 DEF Pause, BudgetReached
    <2>3. QED
      BY <1>9, <2>1, <2>2 DEF Fill
  <1>10. ASSUME NEW i \in DOMAIN inflight, Awaited(i) PROVE SlotFree'
    <2>1. owed' = owed
      BY <1>10 DEF Awaited, Leave, Fetch, ServerAnswers, FetchFails, Fetching
    <2>2. Len(inflight') = Len(inflight)
      BY <1>1, <1>10, AnswerFetches
    <2>3. QED
      BY <1>4, <2>1, <2>2
  <1>11. ASSUME NEW i \in DOMAIN inflight, Take(i) PROVE SlotFree'
    <2>1. CASE Aborted(i)
      BY <1>3, <2>1 DEF Aborted, Stop, PollReturns
    <2>2. CASE ~Aborted(i)
      <3>1. inflight' = Without(inflight, i)
        BY <1>11, <2>2 DEF Take, TransportFailure, Refused, Skipped, Held, Succeeded, Received
      <3>2. Len(inflight') = Len(inflight) - 1 /\ Len(inflight) \in Nat
        BY <1>1, <3>1, TakeEffect
      <3>3. QED
        BY <1>1, <1>2, <3>2 DEF SlotFree
    <2>3. QED
      BY <2>1, <2>2
  <1>12. QED
    BY <1>5, <1>6, <1>7, <1>8, <1>9, <1>10, <1>11 DEF Next, Awaited

-----------------------------------------------------------------------------
\* A poll that gave up on nothing asked for everything the driver derives.
LEMMA DrainedComplete ==
    TypeOK /\ Locals /\ Worklist /\ Drained /\ ~gaveUp => Complete(handled)
  <1> SUFFICES ASSUME TypeOK, Locals, Worklist, Drained, ~gaveUp PROVE Complete(handled)
    OBVIOUS
  <1>1. pc = "poll" /\ inflight = <<>>
    BY DEF Drained, Awaiting
  <1>2. queue = <<>>
    <2>1. Len(inflight) < MaxConcurrency
      BY <1>1, LimitsAssumption
    <2>2. QED
      BY <1>1, <2>1 DEF Drained, Awaiting, Filling
  <1>3. \A r : ~Waiting(r)
    BY <1>1, <1>2 DEF Waiting
  <1>4. QED
    BY <1>1, <1>3 DEF Worklist, Polling, Complete

\* What a poll accounts for when it advances: the seconds of its window.
LEMMA AdvanceAccounts ==
    ASSUME TypeOK, Locals, Worklist, Advance
    PROVE  \A t : AccountedFor(t)' <=> AccountedFor(t) \/ t \in WindowSeconds
  <1>1. CASE gaveUp
    BY <1>1 DEF Advance, AccountedFor
  <1>2. CASE ~gaveUp
    <2>1. Complete(handled)
      BY <1>2, DrainedComplete DEF Advance
    <2>2. covered' = covered \cup ({handled} \X WindowSeconds) /\ excused' = excused
      BY <1>2 DEF Advance
    <2>3. ASSUME NEW t PROVE AccountedFor(t)' <=> AccountedFor(t) \/ t \in WindowSeconds
      <3>1. ASSUME NEW poll \in covered', poll[2] = t, Complete(poll[1])
            PROVE  AccountedFor(t) \/ t \in WindowSeconds
        BY <2>2, <3>1 DEF AccountedFor
      <3>2. ASSUME t \in WindowSeconds PROVE AccountedFor(t)'
        <4>1. <<handled, t>> \in covered'
          BY <2>2, <3>2
        <4>2. <<handled, t>>[1] = handled /\ <<handled, t>>[2] = t
          OBVIOUS
        <4>3. QED
          BY <2>1, <4>1, <4>2 DEF AccountedFor
      <3>3. AccountedFor(t) => AccountedFor(t)'
        BY <2>2 DEF AccountedFor
      <3>4. AccountedFor(t)' => AccountedFor(t) \/ t \in WindowSeconds
        BY <2>2, <3>1 DEF AccountedFor
      <3>5. QED
        BY <3>2, <3>3, <3>4
    <2>4. QED
      BY <2>3
  <1>3. QED
    BY <1>1, <1>2

\* Nothing else touches the account.
LEMMA AccountUnchanged ==
    ASSUME [Next]_vars, ~Advance
    PROVE  UNCHANGED <<covered, excused>>
  <1>1. CASE Tick \/ Cancel \/ Restart \/ UNCHANGED vars
    BY <1>1 DEF Tick, Cancel, Restart, vars, loopVars, pollVars, history
  <1>2. CASE Outer
    BY <1>2 DEF Outer, StopCancelled, Throttle, StopAtLimit, StartPoll, BootstrapFails,
                DropPoll, HoldPoll, Save, WakeUp, Stop, history
  <1>3. CASE Fill
    BY <1>3 DEF Fill, Issue, IssueAfterPause, Pause, BudgetReached, OutOfPoll
  <1>4. ASSUME NEW i \in DOMAIN inflight, Awaited(i) \/ Take(i)
        PROVE  UNCHANGED <<covered, excused>>
    BY <1>4 DEF Awaited, Leave, Fetch, ServerAnswers, FetchFails, Fetching, loopVars, OutOfPoll,
                Take, TransportFailure, Aborted, Stop, Refused, Skipped, Held, Succeeded, Received
  <1>5. QED
    BY <1>1, <1>2, <1>3, <1>4 DEF Next, Awaited

\* The lower bound and the checkpoint move only to accounted bounds.
LEMMA BoundsStep ==
    ASSUME [Next]_vars
    PROVE  \/ Advance
           \/ Restart
           \/ UNCHANGED filter /\ saved' \in {saved, filter.after}
  <1>1. CASE Tick \/ Cancel \/ UNCHANGED vars
    BY <1>1 DEF Tick, Cancel, vars, loopVars
  <1>2. CASE Outer
    BY <1>2 DEF Outer, StopCancelled, Throttle, StopAtLimit, StartPoll, BootstrapFails,
                DropPoll, HoldPoll, Save, WakeUp, Stop
  <1>3. CASE Fill
    BY <1>3 DEF Fill, Issue, IssueAfterPause, Pause, BudgetReached, OutOfPoll
  <1>4. ASSUME NEW i \in DOMAIN inflight, Awaited(i) \/ Take(i)
        PROVE  UNCHANGED filter /\ saved' \in {saved, filter.after}
    BY <1>4 DEF Awaited, Leave, Fetch, ServerAnswers, FetchFails, Fetching, loopVars, OutOfPoll,
                Take, TransportFailure, Aborted, Stop, Refused, Skipped, Held, Succeeded, Received
  <1>5. QED
    BY <1>1, <1>2, <1>3, <1>4 DEF Next, Awaited

\* What is accounted for stays so, and Advance moves to a bound whose window it accounts for.
LEMMA AccountStep ==
    TypeOK /\ Locals /\ Worklist /\ NothingSkipped /\ Checkpoint /\ [Next]_vars
        => NothingSkipped' /\ Checkpoint'
  <1> SUFFICES ASSUME TypeOK, Locals, Worklist, NothingSkipped, Checkpoint, [Next]_vars
               PROVE  NothingSkipped' /\ Checkpoint'
    OBVIOUS
  <1>1. StartTs \in Nat /\ filter.after \in Nat /\ filter.before \in Nat /\ saved \in Nat
    <2>1. filter.after \in Nat /\ filter.before \in 0..MaxNow /\ saved \in Nat
      BY DEF TypeOK
    <2>2. StartTs \in Nat /\ MaxNow \in Nat
      BY LimitsAssumption
    <2>3. QED
      BY <2>1, <2>2
  <1>2. CASE Advance
    <2>1. \A t : AccountedFor(t)' <=> AccountedFor(t) \/ t \in WindowSeconds
      BY <1>2, AdvanceAccounts
    <2>2. filter'.after = filter.before /\ saved' = saved
      BY <1>1, <1>2, WindowType DEF Advance
    <2>3. ASSUME NEW t \in StartTs + 1 .. filter.before PROVE AccountedFor(t)'
      <3>1. t \in StartTs + 1 .. filter.after \/ t \in WindowSeconds
        BY <1>1 DEF WindowSeconds
      <3>2. QED
        BY <2>1, <3>1 DEF NothingSkipped
    <2>4. NothingSkipped'
      BY <2>2, <2>3 DEF NothingSkipped
    <2>5. Checkpoint'
      BY <2>1, <2>2 DEF Checkpoint
    <2>6. QED
      BY <2>4, <2>5
  <1>3. CASE ~Advance
    <2>1. \A t : AccountedFor(t)' <=> AccountedFor(t)
      BY <1>3, AccountUnchanged DEF AccountedFor
    <2>2. CASE Restart
      <3>1. PICK after \in {saved, StartTs} : filter' = Window(after)
        BY <2>2 DEF Restart
      <3>2. filter'.after = after /\ saved' = saved
        BY <1>1, <2>2, <3>1, WindowType DEF Restart
      <3>3. \A t \in StartTs + 1 .. after : AccountedFor(t)
        BY <1>1, <3>1 DEF Checkpoint
      <3>4. QED
        BY <2>1, <3>2, <3>3 DEF NothingSkipped, Checkpoint
    <2>3. CASE UNCHANGED filter /\ saved' \in {saved, filter.after}
      BY <2>1, <2>3 DEF NothingSkipped, Checkpoint
    <2>4. QED
      BY <1>3, <2>2, <2>3, BoundsStep
  <1>4. QED
    BY <1>2, <1>3

\* The invariant is inductive.
LEMMA StepInv == IInv /\ [Next]_vars => IInv'
  BY TypeStep, LocalsStep, WorklistStep, PausesStep, SlotFreeStep, AccountStep DEF IInv

LEMMA Invariance == Spec => []IInv
  BY InitInv, StepInv, PTL DEF Spec

-----------------------------------------------------------------------------
\* The variables keep their types; in particular no more than MaxConcurrency
\* fetches are ever under way.
THEOREM TypeCorrect == Spec => []TypeOK
  <1>1. IInv => TypeOK
    BY DEF IInv
  <1>2. QED
    BY <1>1, Invariance, PTL

\* No second before the window, and none before the checkpoint, is unpolled
\* without a warning, for every driver and every policy.
THEOREM NoSecondSkipped == Spec => []NothingSkipped
  <1>1. IInv => NothingSkipped
    BY DEF IInv
  <1>2. QED
    BY <1>1, Invariance, PTL

\* No request is taken from the worklist before the longest pause the upstream
\* asked for is over; what leaves in the pause was in one of the other slots.
THEOREM PausesHonoured == Spec => PauseHonoured
  <1>1. IInv /\ [Next]_vars => [Issues => owed = 0]_vars
    <2>1. ASSUME IInv, Issues PROVE owed = 0
      <3>1. Polling /\ nextAllowed = 0
        BY <2>1 DEF Issues, Issue, IssueAfterPause, Filling, Polling
      <3>2. owed <= nextAllowed /\ owed \in Nat
        BY <2>1, <3>1 DEF IInv, Pauses, TypeOK
      <3>3. QED
        BY <3>1, <3>2
    <2>2. QED
      BY <2>1
  <1>2. IInv => (owed > 0 => Len(inflight) < MaxConcurrency)
    BY DEF IInv, SlotFree
  <1>3. QED
    BY <1>1, <1>2, Invariance, PTL DEF Spec, PauseHonoured

\* The source implements the abstract window: Advance is its Move, Save its
\* SaveBound or a stutter, Restart its Resume.
THEOREM CursorImplemented == Spec => ImplementsCursor
  <1> DEFINE seconds == {t \in 1..MaxNow : AccountedFor(t)}
  <1>1. Init => Cursor!CursorInit
    <2>1. Init => filter.after = StartTs /\ saved = StartTs /\ seconds = {}
      BY DEF Init, Window, AccountedFor
    <2>2. QED
      BY <2>1 DEF Cursor!CursorInit
  <1>2. IInv /\ [Next]_vars => [Cursor!CursorNext]_(Cursor!cursorVars)
    <2> SUFFICES ASSUME IInv, [Next]_vars
                 PROVE  Cursor!CursorNext \/ UNCHANGED <<filter.after, saved, seconds>>
      BY DEF Cursor!cursorVars
    <2>1. TypeOK /\ Locals /\ Worklist
      BY DEF IInv
    <2>2. /\ filter.after \in Nat /\ filter.before \in 0..MaxNow /\ MaxNow \in Nat
          /\ StartTs \in Nat /\ saved \in Nat
      BY <2>1, LimitsAssumption DEF TypeOK
    <2>3. CASE Advance
      <3>1. \A t : AccountedFor(t)' <=> AccountedFor(t) \/ t \in WindowSeconds
        BY <2>1, <2>3, AdvanceAccounts
      <3>2. WindowSeconds \subseteq 1..MaxNow
        BY <2>2 DEF WindowSeconds
      <3>3. filter'.after = filter.before /\ saved' = saved
        BY <2>1, <2>2, <2>3, WindowType DEF Advance
      <3>4. seconds' = seconds \cup (filter.after + 1 .. filter'.after)
        BY <3>1, <3>2, <3>3 DEF WindowSeconds
      <3>5. Cursor!Move
        BY <2>2, <3>3, <3>4 DEF Cursor!Move
      <3>6. QED
        BY <3>5 DEF Cursor!CursorNext
    <2>4. CASE ~Advance
      <3>1. seconds' = seconds
        BY <2>4, AccountUnchanged DEF AccountedFor
      <3>2. CASE Restart
        <4>1. PICK after \in {saved, StartTs} : filter' = Window(after)
          BY <3>2 DEF Restart
        <4>2. filter'.after = after /\ saved' = saved
          BY <2>1, <2>2, <3>2, <4>1, WindowType DEF Restart
        <4>3. Cursor!Resume
          BY <3>1, <4>1, <4>2 DEF Cursor!Resume
        <4>4. QED
          BY <4>3 DEF Cursor!CursorNext
      <3>3. CASE UNCHANGED filter /\ saved' \in {saved, filter.after}
        BY <3>1, <3>3 DEF Cursor!CursorNext, Cursor!SaveBound
      <3>4. QED
        BY <2>4, <3>2, <3>3, BoundsStep
    <2>5. QED
      BY <2>3, <2>4
  <1>3. QED
    BY <1>1, <1>2, Invariance, PTL DEF Spec, ImplementsCursor, Cursor!CursorSpec
-----------------------------------------------------------------------------
(***************************************************************************)
(* Handled once. It takes a driver that derives no request twice; then the *)
(* source does not ask twice either, except for a refused request, which   *)
(* is in one place at a time.                                              *)
(***************************************************************************)

\* Each request is derived at one place: by the bootstrap, or from one response.
DerivesOnce ==
    /\ \A i, j \in 1..Len(Bootstrap) : Bootstrap[i] = Bootstrap[j] => i = j
    /\ \A p \in FeedsBack :
         /\ \A i, j \in 1..Len(Feeds[p]) : Feeds[p][i] = Feeds[p][j] => i = j
         /\ Range(Feeds[p]) \cap Range(Bootstrap) = {}
         /\ \A q \in FeedsBack \ {p} : Range(Feeds[p]) \cap Range(Feeds[q]) = {}

\* r is derived by the bootstrap or from one of the responses to h.
Derived(r, h) ==
    r \in Range(Bootstrap) \/ \E p \in h \cap FeedsBack : r \in Range(Feeds[p])

\* In a worklist q with the fetches f and the handled requests h, every request
\* is derived and in one place.
OnePlace(q, f, h) ==
    /\ \A j, k \in 1..Len(q) : q[j].spec = q[k].spec => j = k
    /\ \A j, k \in 1..Len(f) : f[j].task.spec = f[k].task.spec => j = k
    /\ \A j \in 1..Len(q), k \in 1..Len(f) : q[j].spec # f[k].task.spec
    /\ \A j \in 1..Len(q) : q[j].spec \notin h /\ Derived(q[j].spec, h)
    /\ \A k \in 1..Len(f) : f[k].task.spec \notin h /\ Derived(f[k].task.spec, h)
    /\ \A r \in h : Derived(r, h)

Asked == OnePlace(queue, inflight, handled)

\* The others move up to the place of the element at i.
LEMMA WithoutAt ==
    ASSUME NEW S, NEW s \in Seq(S), NEW i \in 1..Len(s)
    PROVE  /\ Len(Without(s, i)) = Len(s) - 1
           /\ \A j \in 1..(Len(s) - 1) : Without(s, i)[j] = s[IF j < i THEN j ELSE j + 1]
  <1> DEFINE a == SubSeq(s, 1, i - 1)
             b == SubSeq(s, i + 1, Len(s))
  <1>1. /\ a \in Seq(S) /\ Len(a) = i - 1
        /\ \A j \in 1..(i - 1) : a[j] = s[j]
    OBVIOUS
  <1>2. /\ b \in Seq(S) /\ Len(b) = Len(s) - i
        /\ \A j \in 1..(Len(s) - i) : b[j] = s[(i + 1) + j - 1]
    OBVIOUS
  <1> HIDE DEF a, b
  <1>3. /\ a \o b \in Seq(S) /\ Len(a \o b) = Len(a) + Len(b)
        /\ \A j \in 1..(Len(a) + Len(b)) :
              (a \o b)[j] = IF j <= Len(a) THEN a[j] ELSE b[j - Len(a)]
    BY <1>1, <1>2, ConcatProperties
  <1>4. Len(a) + Len(b) = Len(s) - 1
    BY <1>1, <1>2
  <1>5. ASSUME NEW j \in 1..(Len(s) - 1)
        PROVE  (a \o b)[j] = s[IF j < i THEN j ELSE j + 1]
    <2>1. CASE j < i
      <3>1. j \in 1..(i - 1) /\ j <= Len(a) /\ j \in 1..(Len(a) + Len(b))
        BY <1>1, <1>4, <2>1
      <3>2. QED
        BY <1>1, <1>3, <2>1, <3>1
    <2>2. CASE ~(j < i)
      <3>1. /\ j \in 1..(Len(a) + Len(b)) /\ ~(j <= Len(a)) /\ j - Len(a) \in 1..(Len(s) - i)
            /\ (i + 1) + (j - Len(a)) - 1 = j + 1
        BY <1>1, <1>4, <2>2
      <3>2. b[j - Len(a)] = s[(i + 1) + (j - Len(a)) - 1]
        BY <1>2, <3>1
      <3>3. QED
        BY <1>3, <2>2, <3>1, <3>2
    <2>3. QED
      BY <2>1, <2>2
  <1>6. Without(s, i) = a \o b
    BY DEF Without, a, b
  <1>7. QED
    BY <1>3, <1>4, <1>5, <1>6

\* With more handled, no less is derived.
LEMMA DerivedKept ==
    ASSUME NEW r, NEW h, NEW g, h \subseteq g, Derived(r, h)
    PROVE  Derived(r, g)
  BY DEF Derived

\* A request that is pushed changes its place.
LEMMA PushPlace ==
    ASSUME NEW q \in Seq(Task), q # <<>>, NEW f \in Seq(Fetched), NEW h, NEW a,
           OnePlace(q, f, h)
    PROVE  OnePlace(Tail(q), Append(f, [task |-> Head(q), answer |-> a]), h)
  <1> DEFINE u == Tail(q)
             g == Append(f, [task |-> Head(q), answer |-> a])
  <1>1. /\ Len(u) = Len(q) - 1 /\ Len(q) \in Nat
        /\ \A j \in 1..Len(u) : j + 1 \in 1..Len(q) /\ j + 1 # 1 /\ u[j] = q[j + 1]
        /\ Head(q) = q[1] /\ 1 \in 1..Len(q)
    OBVIOUS
  <1>2. /\ Len(g) = Len(f) + 1 /\ Len(f) \in Nat
        /\ \A k \in 1..Len(f) : g[k].task = f[k].task
        /\ g[Len(f) + 1].task = q[1]
        /\ \A k \in 1..Len(g) : k \in 1..Len(f) \/ k = Len(f) + 1
    BY <1>1
  <1> HIDE DEF u, g
  <1>3. /\ \A j, k \in 1..Len(u) : u[j].spec = u[k].spec => j = k
        /\ \A j \in 1..Len(u) : u[j].spec # q[1].spec
        /\ \A j \in 1..Len(u), k \in 1..Len(f) : u[j].spec # f[k].task.spec
        /\ \A j \in 1..Len(u) : u[j].spec \notin h /\ Derived(u[j].spec, h)
    <2>1. \A j, k \in 1..Len(q) : q[j].spec = q[k].spec => j = k
      BY DEF OnePlace
    <2>2. ASSUME NEW j \in 1..Len(u)
          PROVE  /\ u[j].spec # q[1].spec
                 /\ u[j].spec \notin h /\ Derived(u[j].spec, h)
                 /\ \A k \in 1..Len(f) : u[j].spec # f[k].task.spec
      <3>1. j + 1 \in 1..Len(q) /\ j + 1 # 1 /\ u[j] = q[j + 1] /\ 1 \in 1..Len(q)
        BY <1>1
      <3>2. q[j + 1].spec # q[1].spec
        BY <2>1, <3>1
      <3>3. QED
        BY <3>1, <3>2 DEF OnePlace
    <2>3. ASSUME NEW j \in 1..Len(u), NEW k \in 1..Len(u), u[j].spec = u[k].spec
          PROVE  j = k
      <3>1. /\ j + 1 \in 1..Len(q) /\ u[j] = q[j + 1]
            /\ k + 1 \in 1..Len(q) /\ u[k] = q[k + 1]
        BY <1>1
      <3>2. j + 1 = k + 1
        BY <2>1, <2>3, <3>1
      <3>3. QED
        BY <3>2
    <2>4. QED
      BY <2>2, <2>3
  <1>4. \A k \in 1..Len(g) : (k = Len(f) + 1 /\ g[k].task = q[1])
                             \/ (k \in 1..Len(f) /\ g[k].task = f[k].task)
    BY <1>2
  <1>5. \A k \in 1..Len(f) : f[k].task.spec # q[1].spec
    BY <1>1 DEF OnePlace
  <1>6. \A j, k \in 1..Len(g) : g[j].task.spec = g[k].task.spec => j = k
    BY <1>4, <1>5 DEF OnePlace
  <1>7. \A k \in 1..Len(g) : g[k].task.spec \notin h /\ Derived(g[k].task.spec, h)
    BY <1>1, <1>4 DEF OnePlace
  <1>8. \A j \in 1..Len(u), k \in 1..Len(g) : u[j].spec # g[k].task.spec
    BY <1>3, <1>4
  <1>9. OnePlace(u, g, h)
    BY <1>3, <1>6, <1>7, <1>8 DEF OnePlace
  <1>10. QED
    BY <1>9 DEF u, g

\* A fetch that is taken leaves its place, and its request may count as handled.
LEMMA TakePlace ==
    ASSUME NEW q \in Seq(Task), NEW f \in Seq(Fetched), NEW i \in 1..Len(f), NEW h,
           OnePlace(q, f, h)
    PROVE  /\ OnePlace(q, Without(f, i), h)
           /\ OnePlace(q, Without(f, i), h \cup {f[i].task.spec})
           /\ \A k \in 1..Len(Without(f, i)) : Without(f, i)[k].task.spec # f[i].task.spec
  <1> DEFINE g == Without(f, i)
             r == f[i].task.spec
  <1>1. /\ Len(g) = Len(f) - 1 /\ Len(f) \in Nat
        /\ \A j \in 1..(Len(f) - 1) : g[j] = f[IF j < i THEN j ELSE j + 1]
    <2>1. Len(f) \in Nat
      OBVIOUS
    <2>2. QED
      BY <2>1, WithoutAt
  <1> HIDE DEF g
  <1> DEFINE Old(j) == IF j < i THEN j ELSE j + 1
  <1>2. \A j \in 1..Len(g) : Old(j) \in 1..Len(f) /\ Old(j) # i /\ g[j] = f[Old(j)]
    BY <1>1
  <1>3. \A j, k \in 1..Len(g) : Old(j) = Old(k) => j = k
    BY <1>1
  <1> HIDE DEF Old
  <1>4. \A j, k \in 1..Len(g) : g[j].task.spec = g[k].task.spec => j = k
    <2>1. \A j, k \in 1..Len(f) : f[j].task.spec = f[k].task.spec => j = k
      BY DEF OnePlace
    <2>2. SUFFICES ASSUME NEW j \in 1..Len(g), NEW k \in 1..Len(g),
                          g[j].task.spec = g[k].task.spec
                   PROVE  j = k
      OBVIOUS
    <2>3. /\ Old(j) \in 1..Len(f) /\ g[j] = f[Old(j)]
          /\ Old(k) \in 1..Len(f) /\ g[k] = f[Old(k)]
      BY <1>2
    <2>4. f[Old(j)].task.spec = f[Old(k)].task.spec
      BY <2>2, <2>3
    <2>5. Old(j) = Old(k)
      BY <2>1, <2>3, <2>4
    <2>6. QED
      BY <1>3, <2>5
  <1>5. \A k \in 1..Len(g) : /\ g[k].task.spec \notin h /\ Derived(g[k].task.spec, h)
                             /\ g[k].task.spec # r
                             /\ \A j \in 1..Len(q) : q[j].spec # g[k].task.spec
    <2> SUFFICES ASSUME NEW k \in 1..Len(g)
                 PROVE  /\ g[k].task.spec \notin h /\ Derived(g[k].task.spec, h)
                        /\ g[k].task.spec # r
                        /\ \A j \in 1..Len(q) : q[j].spec # g[k].task.spec
      OBVIOUS
    <2>1. Old(k) \in 1..Len(f) /\ Old(k) # i /\ g[k] = f[Old(k)]
      BY <1>2
    <2>2. QED
      BY <2>1 DEF OnePlace
  <1>6. \A j \in 1..Len(q) : q[j].spec # r
    BY DEF OnePlace
  <1>7. Derived(r, h)
    BY DEF OnePlace
  <1> HIDE DEF r
  <1>8. OnePlace(q, g, h)
    BY <1>4, <1>5 DEF OnePlace
  <1>9. \A x : Derived(x, h) => Derived(x, h \cup {r})
    BY DerivedKept
  <1>10. OnePlace(q, g, h \cup {r})
    BY <1>4, <1>5, <1>6, <1>7, <1>9 DEF OnePlace
  <1>11. QED
    BY <1>5, <1>8, <1>10 DEF g, r

\* Tasks with new requests, each once, may join the worklist.
LEMMA JoinPlace ==
    ASSUME NEW q \in Seq(Task), NEW t \in Seq(Task), NEW f \in Seq(Fetched), NEW h,
           OnePlace(q, f, h),
           \A j, k \in 1..Len(t) : t[j].spec = t[k].spec => j = k,
           \A j \in 1..Len(t) :
              /\ t[j].spec \notin h /\ Derived(t[j].spec, h)
              /\ \A k \in 1..Len(q) : q[k].spec # t[j].spec
              /\ \A k \in 1..Len(f) : f[k].task.spec # t[j].spec
    PROVE  OnePlace(q \o t, f, h) /\ OnePlace(t \o q, f, h)
  <1>1. ASSUME NEW a \in Seq(Task), NEW b \in Seq(Task), {a, b} = {q, t}
        PROVE  OnePlace(a \o b, f, h)
    <2>1. /\ Len(a) \in Nat /\ Len(b) \in Nat /\ Len(a \o b) = Len(a) + Len(b)
          /\ \A j \in 1..(Len(a) + Len(b)) :
                (a \o b)[j] = IF j <= Len(a) THEN a[j] ELSE b[j - Len(a)]
      BY ConcatProperties
    <2> DEFINE c == a \o b
    <2>2. \A j \in 1..Len(c) : \/ j \in 1..Len(a) /\ c[j] = a[j]
                               \/ /\ j \notin 1..Len(a) /\ j - Len(a) \in 1..Len(b)
                                  /\ c[j] = b[j - Len(a)]
      BY <2>1
    <2>3. (a = q /\ b = t) \/ (a = t /\ b = q)
      BY <1>1
    <2> HIDE DEF c
    <2>4. /\ \A j, k \in 1..Len(a) : a[j].spec = a[k].spec => j = k
          /\ \A j, k \in 1..Len(b) : b[j].spec = b[k].spec => j = k
          /\ \A j \in 1..Len(a), k \in 1..Len(b) : a[j].spec # b[k].spec
      BY <2>3 DEF OnePlace
    <2>5. /\ \A j \in 1..Len(a) : /\ a[j].spec \notin h /\ Derived(a[j].spec, h)
                                  /\ \A k \in 1..Len(f) : f[k].task.spec # a[j].spec
          /\ \A j \in 1..Len(b) : /\ b[j].spec \notin h /\ Derived(b[j].spec, h)
                                  /\ \A k \in 1..Len(f) : f[k].task.spec # b[j].spec
      BY <2>3 DEF OnePlace
    <2>6. ASSUME NEW j \in 1..Len(c), NEW k \in 1..Len(c), c[j].spec = c[k].spec PROVE j = k
      <3>1. /\ \/ j \in 1..Len(a) /\ c[j] = a[j]
               \/ /\ j \notin 1..Len(a) /\ j - Len(a) \in 1..Len(b)
                  /\ c[j] = b[j - Len(a)]
            /\ \/ k \in 1..Len(a) /\ c[k] = a[k]
               \/ /\ k \notin 1..Len(a) /\ k - Len(a) \in 1..Len(b)
                  /\ c[k] = b[k - Len(a)]
        BY <2>2
      <3>2. CASE j \in 1..Len(a)
        <4>1. k \in 1..Len(a)
          BY <2>4, <2>6, <3>1, <3>2
        <4>2. QED
          BY <2>4, <2>6, <3>1, <3>2, <4>1
      <3>3. CASE j \notin 1..Len(a)
        <4>1. j - Len(a) = k - Len(a)
          <5>1. k \notin 1..Len(a)
            BY <2>4, <2>6, <3>1, <3>3
          <5>2. QED
            BY <2>4, <2>6, <3>1, <3>3, <5>1
        <4>2. \A x, y \in Int, z \in Nat : x - z = y - z => x = y
          OBVIOUS
        <4>3. QED
          BY <2>1, <4>1, <4>2
      <3>4. QED
        BY <3>2, <3>3
    <2>7. \A j \in 1..Len(c) : /\ c[j].spec \notin h /\ Derived(c[j].spec, h)
                               /\ \A k \in 1..Len(f) : c[j].spec # f[k].task.spec
      <3> SUFFICES ASSUME NEW j \in 1..Len(c)
                   PROVE  /\ c[j].spec \notin h /\ Derived(c[j].spec, h)
                          /\ \A k \in 1..Len(f) : c[j].spec # f[k].task.spec
        OBVIOUS
      <3>1. (\E x \in 1..Len(a) : c[j] = a[x]) \/ (\E x \in 1..Len(b) : c[j] = b[x])
        BY <2>2
      <3>2. QED
        BY <2>5, <3>1
    <2>8. OnePlace(c, f, h)
      BY <2>6, <2>7 DEF OnePlace
    <2>9. QED
      BY <2>8 DEF c
  <1>2. QED
    BY <1>1

\* The first worklist.
LEMMA BootstrapPlace == ASSUME DerivesOnce PROVE OnePlace(Tasks(Bootstrap, 0), <<>>, {})
  <1>1. /\ Bootstrap \in Seq(Request)
        /\ Tasks(Bootstrap, 0) = [i \in 1..Len(Bootstrap) |-> [spec |-> Bootstrap[i], depth |-> 0]]
    BY DriverAssumption DEF Tasks
  <1>2. Len(Tasks(Bootstrap, 0)) = Len(Bootstrap)
    BY <1>1
  <1>3. \A i \in 1..Len(Bootstrap) : Tasks(Bootstrap, 0)[i].spec = Bootstrap[i]
    BY <1>1
  <1>4. \A i \in 1..Len(Bootstrap) : Bootstrap[i] \in Range(Bootstrap)
    BY <1>1 DEF Range
  <1>5. QED
    BY <1>2, <1>3, <1>4 DEF OnePlace, Derived, DerivesOnce

\* What a response derives was not asked before.
LEMMA FeedbackPlace ==
    ASSUME DerivesOnce, NEW q \in Seq(Task), NEW f \in Seq(Fetched), NEW i \in 1..Len(f), NEW h,
           OnePlace(q, f, h)
    PROVE  OnePlace(q \o Feedback(f[i].task), Without(f, i), h \cup {f[i].task.spec})
  <1> DEFINE r == f[i].task.spec
             g == Without(f, i)
             t == Feedback(f[i].task)
  <1>1. /\ f[i].task \in Task /\ r \in Request
    <2>1. f[i] \in Fetched
      OBVIOUS
    <2>2. QED
      BY <2>1 DEF Fetched, Task
  <1>2. t \in Seq(Task) /\ g \in Seq(Fetched)
    BY <1>1, FeedbackType, WithoutElements
  <1>3. /\ OnePlace(q, g, h \cup {r}) /\ OnePlace(q, g, h)
        /\ \A k \in 1..Len(g) : g[k].task.spec # r
    BY TakePlace
  <1>4. CASE t = <<>>
    <2>1. q \o <<>> = q
      OBVIOUS
    <2>2. QED
      BY <1>3, <1>4, <2>1
  <1>5. CASE t # <<>>
    <2>1. /\ r \in FeedsBack
          /\ t = Tasks(Feeds[r], f[i].task.depth + 1)
      BY <1>5 DEF Feedback
    <2>2. Feeds[r] \in Seq(Request)
      BY <1>1, DriverAssumption
    <2>3. /\ Len(t) = Len(Feeds[r])
          /\ \A j \in 1..Len(t) : t[j].spec = Feeds[r][j] /\ Feeds[r][j] \in Range(Feeds[r])
      <3>1. t = [j \in 1..Len(Feeds[r]) |-> [spec |-> Feeds[r][j], depth |-> f[i].task.depth + 1]]
        BY <2>1, <2>2 DEF Tasks
      <3>2. \A j \in 1..Len(Feeds[r]) : Feeds[r][j] \in Range(Feeds[r])
        BY <2>2 DEF Range
      <3> HIDE DEF t
      <3>3. Len(t) = Len(Feeds[r])
        BY <2>2, <3>1
      <3>4. QED
        BY <3>1, <3>2, <3>3
    <2>4. r \notin h /\ Derived(r, h)
      BY DEF OnePlace
    <2>5. ASSUME NEW x \in Range(Feeds[r]) PROVE ~Derived(x, h)
      <3>1. x \notin Range(Bootstrap)
        BY <2>1, <2>5 DEF DerivesOnce
      <3>2. ASSUME NEW p \in h \cap FeedsBack, x \in Range(Feeds[p]) PROVE FALSE
        <4>1. p \in FeedsBack \ {r}
          BY <2>4
        <4>2. QED
          BY <2>1, <2>5, <3>2, <4>1 DEF DerivesOnce
      <3>3. QED
        BY <3>1, <3>2 DEF Derived
    <2>6. \A x \in Range(Feeds[r]) : Derived(x, h \cup {r})
      BY <2>1 DEF Derived
    <2>7. \A j, k \in 1..Len(t) : t[j].spec = t[k].spec => j = k
      <3>1. \A j, k \in 1..Len(Feeds[r]) : Feeds[r][j] = Feeds[r][k] => j = k
        BY <2>1 DEF DerivesOnce
      <3> HIDE DEF t, r
      <3>2. QED
        BY <2>3, <3>1
    <2> HIDE DEF t, g, r
    <2>8. \A x \in h \cup {r} : Derived(x, h)
      BY <2>4 DEF OnePlace
    <2>9. /\ \A k \in 1..Len(q) : Derived(q[k].spec, h)
          /\ \A k \in 1..Len(g) : Derived(g[k].task.spec, h)
      BY <1>3 DEF OnePlace
    <2>10. \A j \in 1..Len(t) :
              /\ t[j].spec \notin h \cup {r} /\ Derived(t[j].spec, h \cup {r})
              /\ \A k \in 1..Len(q) : q[k].spec # t[j].spec
              /\ \A k \in 1..Len(g) : g[k].task.spec # t[j].spec
      BY <2>3, <2>5, <2>6, <2>8, <2>9
    <2>11. OnePlace(q \o t, g, h \cup {r})
      BY <1>2, <1>3, <2>7, <2>10, JoinPlace
    <2>12. QED
      BY <2>11 DEF t, g, r
  <1>6. QED
    BY <1>4, <1>5

\* With the same tasks, every request is where it was.
LEMMA SamePlace ==
    ASSUME Asked, inflight \in Seq(Fetched), inflight' \in Seq(Fetched),
           UNCHANGED <<queue, handled>>, Len(inflight') = Len(inflight),
           \A i \in DOMAIN inflight : inflight'[i].task = inflight[i].task
    PROVE  Asked'
  <1>1. \A i \in 1..Len(inflight) : inflight'[i].task = inflight[i].task
    OBVIOUS
  <1>2. QED
    BY <1>1 DEF Asked, OnePlace

\* No step asks a request that is waiting or was handled.
LEMMA AskedStep ==
    ASSUME DerivesOnce, TypeOK, Locals, Locals', Asked, [Next]_vars
    PROVE  Asked'
  <1>1. queue \in Seq(Task) /\ inflight \in Seq(Fetched)
    BY TypeParts DEF PollType
  <1>2. ASSUME ~Polling' PROVE Asked'
    <2>1. queue' = <<>> /\ inflight' = <<>> /\ handled' = {}
      BY <1>2 DEF Locals
    <2>2. QED
      BY <2>1 DEF Asked, OnePlace
  <1>3. CASE Tick
    <2>1. inflight' = [i \in DOMAIN inflight |->
                         [inflight[i] EXCEPT !.answer = SoonerAnswer(@)]]
          /\ UNCHANGED <<queue, handled>>
      BY <1>3 DEF Tick
    <2>2. QED
      BY <1>1, <2>1, TickFetches, SamePlace
  <1>4. CASE Cancel \/ UNCHANGED vars
    BY <1>1, <1>4, SamePlace DEF Cancel, vars, loopVars, pollVars, history
  <1>5. CASE Restart
    BY <1>2, <1>5 DEF Restart, Polling
  <1>6. CASE Outer
    <2>1. CASE StartPoll
      <3>1. queue' = Tasks(Bootstrap, 0) /\ inflight' = <<>> /\ handled' = {}
        BY <2>1 DEF StartPoll, ReadyToPoll, Locals, Polling, history
      <3>2. QED
        BY <3>1, BootstrapPlace DEF Asked
    <2>2. CASE ~StartPoll
      <3>1. ~Polling'
        BY <1>6, <2>2 DEF Outer, StopCancelled, Throttle, StopAtLimit, BootstrapFails,
              DropPoll, HoldPoll, Advance, Save, WakeUp, Stop, PollReturns, Polling
      <3>2. QED
        BY <1>2, <3>1
    <2>3. QED
      BY <2>1, <2>2
  <1>7. CASE Fill
    <2>1. CASE Issue \/ IssueAfterPause
      <3>1. /\ queue # <<>> /\ handled' = handled /\ queue' = Tail(queue)
            /\ inflight' = Append(inflight, [task |-> Head(queue), answer |-> Queued])
        BY <2>1 DEF Issue, IssueAfterPause, Filling, Locals, Push
      <3>2. QED
        BY <1>1, <3>1, PushPlace DEF Asked
    <2>2. CASE Pause
      BY <2>2, <1>1, SamePlace DEF Pause
    <2>3. CASE BudgetReached
      BY <2>3 DEF BudgetReached, Asked, OnePlace
    <2>4. QED
      BY <1>7, <2>1, <2>2, <2>3 DEF Fill
  <1>8. ASSUME NEW i \in DOMAIN inflight, Awaited(i) PROVE Asked'
    <2>1. UNCHANGED Fetching
      BY <1>8 DEF Awaited, Leave, Fetch, ServerAnswers, FetchFails
    <2>2. QED
      BY <1>1, <1>8, <2>1, AnswerFetches, SamePlace DEF Fetching
  <1>9. ASSUME NEW i \in DOMAIN inflight, Take(i) PROVE Asked'
    <2>1. i \in 1..Len(inflight)
      BY <1>1
    <2>2. CASE TransportFailure(i) \/ Skipped(i) \/ Held(i)
      <3>1. inflight' = Without(inflight, i) /\ UNCHANGED <<queue, handled>>
        BY <2>2 DEF TransportFailure, Skipped, Held, Received
      <3>2. QED
        BY <1>1, <2>1, <3>1, TakePlace DEF Asked
    <2>3. CASE Aborted(i)
      BY <1>2, <2>3 DEF Aborted, Stop, PollReturns, Polling
    <2>4. CASE Refused(i)
      <3>1. /\ inflight' = Without(inflight, i) /\ queue' = <<inflight[i].task>> \o queue
            /\ handled' = handled
        BY <2>4 DEF Refused, Received
      <3> DEFINE task == inflight[i].task
                 g == Without(inflight, i)
      <3>2. OnePlace(queue, g, handled) /\ \A k \in 1..Len(g) : g[k].task.spec # task.spec
        BY <1>1, <2>1, TakePlace DEF Asked
      <3>3. /\ task.spec \notin handled /\ Derived(task.spec, handled)
            /\ \A k \in 1..Len(queue) : queue[k].spec # task.spec
        BY <2>1 DEF Asked, OnePlace
      <3>4. g \in Seq(Fetched) /\ task \in Task
        BY <1>1, <2>1, <3>1, TakeEffect
      <3> HIDE DEF g, task
      <3>5. <<task>> \in Seq(Task) /\ Len(<<task>>) = 1 /\ <<task>>[1] = task
        BY <3>4
      <3> DEFINE one == <<task>>
      <3>6. /\ \A j, k \in 1..Len(one) : one[j].spec = one[k].spec => j = k
            /\ \A j \in 1..Len(one) :
                  /\ one[j].spec \notin handled /\ Derived(one[j].spec, handled)
                  /\ \A k \in 1..Len(queue) : queue[k].spec # one[j].spec
                  /\ \A k \in 1..Len(g) : g[k].task.spec # one[j].spec
        <4>1. \A j \in 1..Len(one) : j = 1 /\ one[j] = task
          BY <3>5
        <4> HIDE DEF one
        <4>2. QED
          BY <3>2, <3>3, <4>1
      <3>7. one \in Seq(Task)
        BY <3>5
      <3> HIDE DEF one
      <3>8. OnePlace(one \o queue, g, handled)
        BY <1>1, <3>2, <3>4, <3>6, <3>7, JoinPlace
      <3>9. QED
        BY <3>1, <3>8 DEF Asked, g, task, one
    <2>5. CASE Succeeded(i)
      <3>1. /\ inflight' = Without(inflight, i) /\ handled' = handled \cup {inflight[i].task.spec}
            /\ queue' = queue \/ queue' = queue \o Feedback(inflight[i].task)
        BY <2>5 DEF Succeeded, Received
      <3>2. OnePlace(queue, inflight, handled)
        BY DEF Asked
      <3>3. OnePlace(queue, Without(inflight, i), handled \cup {inflight[i].task.spec})
        BY <1>1, <2>1, <3>2, TakePlace
      <3>4. OnePlace(queue \o Feedback(inflight[i].task), Without(inflight, i),
                     handled \cup {inflight[i].task.spec})
        BY <1>1, <2>1, <3>2, FeedbackPlace
      <3>5. QED
        BY <3>1, <3>3, <3>4 DEF Asked
    <2>6. QED
      BY <1>9, <2>2, <2>3, <2>4, <2>5 DEF Take
  <1>10. QED
    BY <1>3, <1>4, <1>5, <1>6, <1>7, <1>8, <1>9 DEF Next, Awaited

\* A driver that derives each request at one place has each response handled
\* once in a poll, though a request that met the rate limit is asked again
\* (http_polling/mod.rs:763): through any refusals, pauses and restarts.
THEOREM EachHandledOnce == DerivesOnce => (Spec => HandledOnce)
  <1> SUFFICES ASSUME DerivesOnce PROVE Spec => HandledOnce
    OBVIOUS
  <1>1. Init => Asked
    BY DEF Init, Asked, OnePlace
  <1>2. IInv /\ IInv' /\ Asked /\ [Next]_vars => Asked'
    BY AskedStep DEF IInv
  <1>3. IInv /\ Asked => \A i \in DOMAIN inflight : inflight[i].task.spec \notin handled
    <2> SUFFICES ASSUME IInv, Asked, NEW i \in DOMAIN inflight
                 PROVE  inflight[i].task.spec \notin handled
      OBVIOUS
    <2>1. inflight \in Seq(Fetched)
      BY TypeParts DEF IInv, PollType
    <2>2. i \in 1..Len(inflight)
      BY <2>1
    <2>3. QED
      BY <2>2 DEF Asked, OnePlace
  <1>4. IInv /\ Asked => [\A i \in DOMAIN inflight :
                             Succeeded(i) => inflight[i].task.spec \notin handled]_vars
    BY <1>3
  <1>5. QED
    BY <1>1, <1>2, <1>4, Invariance, PTL DEF Spec, HandledOnce
=============================================================================
