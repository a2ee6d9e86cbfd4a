---------------------- MODULE PipelineLifecycleProofs ----------------------
(***************************************************************************)
(* The safety properties of PipelineLifecycle, for every set of sinks,     *)
(* sources, clients and requests. They rest on one fact: once the queue    *)
(* has no sender left it never has one again, and nothing is queued        *)
(* (NobodySendsAgain).                                                     *)
(***************************************************************************)
EXTENDS PipelineLifecycle, TLAPS

-----------------------------------------------------------------------------
(***************************************************************************)
(* Type correctness                                                        *)
(***************************************************************************)

\* The initial states are well typed.
LEMMA TypeInit == Init => TypeOK
  <1> SUFFICES ASSUME Init PROVE TypeOK
    OBVIOUS
  <1> USE LifecycleAssumption DEF Init
  <1>1. /\ serve \in BOOLEAN /\ enabled \in SUBSET (Sink \cup Source)
        /\ pc = "sinks" /\ outcome = "none" /\ cancelled = FALSE /\ open = {}
        /\ sent = 0 /\ base \in [Sink -> 0..MaxEvents] /\ got \in [Sink -> 0..MaxEvents]
        /\ child = "none" /\ code = 0 /\ codeOut = 0 /\ panics = 0
    OBVIOUS
  <1>2. task \in [Task -> {"absent", "starting", "running", "route", "draining"} \cup Ended]
    OBVIOUS
  <1>3. cancelled \in BOOLEAN /\ code \in {0, 1, 130} /\ codeOut \in {0, 1, 130}
    BY <1>1
  <1> QED
    BY <1>1, <1>2, <1>3 DEF TypeOK

\* So are the states after a step of `run` or a signal.
LEMMA TypeRun == TypeOK /\ (Run \/ Signal) => TypeOK'
  <1> SUFFICES ASSUME TypeOK, Run \/ Signal PROVE TypeOK'
    OBVIOUS
  <1> USE LifecycleAssumption DEF TypeOK, runVars, queueVars, childVars, Return, Goto, Task, Ended
  <1>1. ASSUME NEW s \in Sink, CreateSink(s) PROVE TypeOK'
    BY <1>1 DEF CreateSink
  <1>2. ASSUME NEW x \in Source, CreateSource(x) PROVE TypeOK'
    BY <1>2 DEF CreateSource
  <1>3. CASE SinksCreated \/ SourcesCreated
    <2>1. /\ Return("refused") \/ Goto("sources") \/ Goto("server")
          /\ UNCHANGED <<task, cancelled, queueVars, open, childVars, panics>>
      BY <1>3, Zenon DEF SinksCreated, SourcesCreated
    <2>2. /\ serve' \in BOOLEAN /\ enabled' \in SUBSET (Sink \cup Source)
          /\ pc' \in {"sinks", "sources", "server", "drop", "join", "done"}
          /\ outcome' \in {"none", "ok", "failed", "refused", "panicked"}
      BY <2>1
    <2> QED
      BY <2>1, <2>2
  <1>4. CASE LaunchServer \/ DropSender
    <2>1. task' \in [Task -> {"absent", "starting", "running", "route", "draining"} \cup Ended]
      BY <1>4 DEF LaunchServer, DropSender
    <2> QED
      BY <1>4, <2>1 DEF LaunchServer, DropSender
  <1>5. CASE Signal
    <2>1. cancelled' \in BOOLEAN
      BY <1>5 DEF Signal
    <2> QED
      BY <1>5, <2>1 DEF Signal
  <1>6. CASE JoinPanicked \/ JoinAll
    BY <1>6 DEF JoinPanicked, JoinAll
  <1> QED
    BY <1>1, <1>2, <1>3, <1>4, <1>5, <1>6 DEF Run

\* And those after a step of a sink or a source.
LEMMA TypeTask ==
    ASSUME TypeOK, NEW t \in Sink \cup Source,
           \/ Receive(t) \/ Close(t) \/ Emit(t) \/ SourceEnds(t) \/ Panic(t)
           \/ Spawn(t) \/ ChildEnds(t) \/ Finish(t) \/ StoreCode(t)
    PROVE  TypeOK'
  <1> USE LifecycleAssumption DEF TypeOK, runVars, queueVars, childVars, Task, Ended, Running, Queue
  <1>1. CASE Receive(t)
    BY <1>1 DEF Receive
  <1>2. CASE Close(t) \/ Emit(t) \/ SourceEnds(t)
    BY <1>2 DEF Close, Emit, SourceEnds
  <1>3. CASE Panic(t)
    BY <1>3 DEF Panic
  <1>4. CASE Spawn(t) \/ Finish(t)
    BY <1>4 DEF Spawn, Finish, IsSubprocess
  <1>5. CASE ChildEnds(t) \/ StoreCode(t)
    BY <1>5 DEF ChildEnds, StoreCode, IsSubprocess
  <1> QED
    BY <1>1, <1>2, <1>3, <1>4, <1>5

ServerStep == \/ Bind \/ GracefulShutdown \/ ServerEnds
              \/ \E c \in Client \cup Post : Accept(c) \/ Answer(c) \/ Disconnect(c)

\* And those after a step of the server.
LEMMA TypeServer == TypeOK /\ ServerStep => TypeOK'
  <1> SUFFICES ASSUME TypeOK, ServerStep PROVE TypeOK'
    OBVIOUS
  <1> USE LifecycleAssumption DEF TypeOK, runVars, queueVars, childVars, Task, Ended, Queue
  <1>1. CASE Bind \/ GracefulShutdown \/ ServerEnds
    BY <1>1 DEF Bind, GracefulShutdown, ServerEnds, Serving
  <1>2. ASSUME NEW c \in Client \cup Post, Accept(c) \/ Answer(c) \/ Disconnect(c) PROVE TypeOK'
    BY <1>2 DEF Accept, Answer, Disconnect, Serving
  <1> QED
    BY <1>1, <1>2 DEF ServerStep

-----------------------------------------------------------------------------
(***************************************************************************)
(* The inductive invariant                                                 *)
(***************************************************************************)

\* Before the first source is created nothing is sent and nobody connected.
Early == pc = "sinks" => /\ sent = 0 /\ open = {}
                         /\ \A t \in Source \cup {Server} : task[t] = "absent"

\* Hence every sink subscribed at the start of the queue.
Subscribed == \A s \in Sink : base[s] = 0

\* A sink that left its loop has read everything, and more cannot come.
Drained == \A s \in Sink :
    /\ task[s] \in {"absent", "running", "ended", "panicked"}
    /\ task[s] = "ended" => Senders = {} /\ got[s] = sent

\* A connection has a server that has not ended, and a post a route.
Connected ==
    /\ open # {} => task[Server] \in {"running", "draining"}
    /\ open \cap Post # {} => \E x \in Webhooks : task[x] = "route"

\* Every enabled source is created before the server is launched, and a webhook
\* is never a task.
Created ==
    /\ pc \in {"server", "drop", "join"} => \A x \in enabled \cap Source : task[x] # "absent"
    /\ pc \in {"sinks", "sources", "server"} => task[Server] = "absent"
    /\ \A x \in Source : IF Kind[x] = "webhook" THEN task[x] \in {"absent", "route"}
                          ELSE task[x] # "route"

\* The wrapped command's source ends after it stored the status.
Wrapped == \A x \in Source :
    Kind[x] = "subprocess" /\ task[x] = "ended" => child = "closed" /\ codeOut = code

\* What `run` returns tells how the tasks it waited for have ended.
Returned ==
    /\ outcome \in {"ok", "failed"} => pc = "done" /\ \A s \in enabled \cap Sink : task[s] = "ended"
    /\ SuccessMeansNoFailure

Safe == Early /\ Subscribed /\ Drained /\ Connected /\ Created /\ Wrapped /\ Returned
IInv == TypeOK /\ Safe

-----------------------------------------------------------------------------
(***************************************************************************)
(* The end of the queue                                                    *)
(***************************************************************************)

\* Once the queue has no sender it never has one again, and no message is
\* queued any more: whoever could queue one holds a sender himself, and only
\* who is created by `run` gets one, from the builder's.
LEMMA NobodySendsAgain ==
    ASSUME TypeOK, Connected, Next, Senders = {}
    PROVE  Senders' = {} /\ sent' = sent
  <1> USE LifecycleAssumption DEF runVars, queueVars, childVars, Task, Webhooks
  <1>1. pc \in {"join", "done"} /\ \A x \in Source : ~Holds(x)
    BY DEF Senders
  <1>2. ASSUME pc' \in {"join", "done"}, \A x \in Source : ~Holds(x)'
        PROVE  Senders' = {}
    BY <1>2 DEF Senders
  <1>3. CASE Run \/ Signal
    <2>1. UNCHANGED <<task, sent, child, serve>> /\ pc' \in {pc, "done"}
      <3>1. JoinPanicked \/ JoinAll \/ Signal
        BY <1>1, <1>3 DEF Run, CreateSink, CreateSource, SinksCreated, SourcesCreated,
           LaunchServer, DropSender
      <3>2. CASE JoinPanicked
        BY <3>2 DEF JoinPanicked, Return
      <3>3. CASE JoinAll
        BY <3>3 DEF JoinAll, Return
      <3>4. CASE Signal
        BY <1>1, <3>4 DEF Signal
      <3> QED
        BY <3>1, <3>2, <3>3, <3>4
    <2>2. \A x \in Source : ~Holds(x)'
      BY <1>1, <2>1 DEF Holds, RoutesHeld
    <2> QED
      BY <1>1, <1>2, <2>1, <2>2
  <1>4. ASSUME NEW s \in Sink, Receive(s) \/ Close(s) \/ Panic(s)
        PROVE  Senders' = {} /\ sent' = sent
    BY <1>1, <1>2, <1>4 DEF Receive, Close, Panic, TypeOK, Holds, RoutesHeld, Server
  <1>5. ASSUME NEW x \in Source,
               \/ Emit(x) \/ SourceEnds(x) \/ Panic(x)
               \/ Spawn(x) \/ ChildEnds(x) \/ Finish(x) \/ StoreCode(x)
        PROVE  Senders' = {} /\ sent' = sent
    BY <1>1, <1>2, <1>5 DEF Emit, SourceEnds, Panic, Spawn, ChildEnds, Finish, StoreCode, TypeOK,
       Holds, RoutesHeld, Running, IsSubprocess, Server, Ended
  <1>6. CASE Bind \/ GracefulShutdown \/ ServerEnds
    BY <1>1, <1>2, <1>6 DEF Bind, GracefulShutdown, ServerEnds, Serving, TypeOK, Holds, RoutesHeld,
       Server, Ended
  <1>7. ASSUME NEW c \in Client \cup Post, Accept(c) \/ Disconnect(c)
        PROVE  Senders' = {} /\ sent' = sent
    BY <1>1, <1>2, <1>7 DEF Accept, Disconnect, Holds, RoutesHeld
  <1>8. ASSUME NEW c \in Post, Answer(c) PROVE FALSE
    BY <1>1, <1>8 DEF Answer, Connected, Holds, RoutesHeld, Ended
  <1> QED
    BY <1>3, <1>4, <1>5, <1>6, <1>7, <1>8 DEF Next

-----------------------------------------------------------------------------
(***************************************************************************)
(* Each step keeps the invariant                                           *)
(***************************************************************************)

\* The initial states meet it.
LEMMA SafeInit == Init => Safe
  BY LifecycleAssumption DEF Init, Safe, Early, Subscribed, Drained, Connected, Created, Wrapped,
     Returned, SuccessMeansNoFailure, Webhooks, Task, Server

\* A step of a sink keeps it: only to leave the loop needs the queue closed.
LEMMA SinkKeeps ==
    ASSUME IInv, TypeOK', NEW s \in Sink,
           Receive(s) \/ Close(s) \/ Panic(s),
           Senders = {} => Senders' = {} /\ sent' = sent
    PROVE  Safe'
  <1> USE LifecycleAssumption
      DEF IInv, Safe, TypeOK, Task, Server, runVars, queueVars, childVars, Running
  <1>1. /\ UNCHANGED <<runVars, sent, base, open, childVars>> /\ pc # "done"
        /\ \A t \in Source \cup {Server} : task'[t] = task[t]
        /\ \A t \in Sink : t # s => task'[t] = task[t] /\ got'[t] = got[t]
    BY DEF Receive, Close, Panic
  <1>2. Early' /\ Subscribed' /\ Connected' /\ Created' /\ Wrapped'
    BY <1>1 DEF Early, Subscribed, Connected, Created, Wrapped, Webhooks
  <1>3. Drained'
    BY <1>1 DEF Drained, Receive, Close, Panic
  <1>4. Returned'
    BY <1>1 DEF Returned, SuccessMeansNoFailure
  <1> QED
    BY <1>2, <1>3, <1>4

\* A step of a source keeps it: who queues a message holds a sender, and then
\* no sink has left its loop.
LEMMA SourceKeeps ==
    ASSUME IInv, TypeOK', NEW x \in Source,
           \/ Emit(x) \/ SourceEnds(x) \/ Panic(x)
           \/ Spawn(x) \/ ChildEnds(x) \/ Finish(x) \/ StoreCode(x),
           Senders = {} => Senders' = {} /\ sent' = sent
    PROVE  Safe'
  <1> USE LifecycleAssumption DEF IInv, Safe, TypeOK, Task, Server, runVars, queueVars, childVars,
          Running, IsSubprocess
  <1>1. /\ UNCHANGED <<runVars, base, got, open>> /\ pc # "done" /\ task[x] = "running"
        /\ \A t \in Task : t # x => task'[t] = task[t]
    BY DEF Emit, SourceEnds, Panic, Spawn, ChildEnds, Finish, StoreCode, Queue
  <1>2. pc # "sinks"
    BY <1>1 DEF Early
  <1>3. Kind[x] # "webhook" /\ task'[x] \notin {"absent", "route"}
    <2>1. task' = task \/ \E how \in Ended : task' = [task EXCEPT ![x] = how]
      BY DEF Emit, SourceEnds, Panic, Spawn, ChildEnds, Finish, StoreCode, Ended
    <2> QED
      BY <1>1, <2>1 DEF Created, Ended
  <1>4. Early' /\ Subscribed' /\ Connected' /\ Created'
    BY <1>1, <1>2, <1>3 DEF Early, Subscribed, Connected, Created, Webhooks
  <1>5. Drained'
    BY <1>1 DEF Drained
  <1>6. Wrapped'
    <2>1. CASE Emit(x) \/ SourceEnds(x)
      BY <1>1, <2>1 DEF Wrapped, Emit, SourceEnds
    <2>2. CASE Panic(x)
      BY <1>1, <2>2 DEF Wrapped, Panic
    <2>3. CASE Spawn(x) \/ ChildEnds(x) \/ Finish(x)
      BY <1>1, <2>3 DEF Wrapped, Spawn, ChildEnds, Finish
    <2>4. CASE StoreCode(x)
      BY <1>1, <2>4 DEF Wrapped, StoreCode
    <2> QED
      BY <2>1, <2>2, <2>3, <2>4
  <1>7. Returned'
    BY <1>1 DEF Returned, SuccessMeansNoFailure
  <1> QED
    BY <1>4, <1>5, <1>6, <1>7

\* A step of the server keeps it.
LEMMA ServerKeeps ==
    ASSUME IInv, TypeOK', ServerStep,
           Senders = {} => Senders' = {} /\ sent' = sent
    PROVE  Safe'
  <1> USE LifecycleAssumption
      DEF IInv, Safe, TypeOK, Task, Server, runVars, queueVars, childVars, Serving
  <1>1. /\ UNCHANGED <<runVars, base, got, childVars>> /\ pc # "done"
        /\ \A t \in Sink \cup Source : task'[t] = task[t]
    <2>1. CASE Bind \/ GracefulShutdown \/ ServerEnds
      BY <2>1 DEF Bind, GracefulShutdown, ServerEnds
    <2>2. ASSUME NEW c \in Client \cup Post, Accept(c) \/ Answer(c) \/ Disconnect(c)
          PROVE  UNCHANGED <<runVars, base, got, childVars, task>> /\ pc # "done"
      BY <2>2 DEF Accept, Answer, Disconnect, Queue
    <2> QED
      BY <2>1, <2>2 DEF ServerStep
  <1>2. Early' /\ Connected' /\ Created'
    <2>1. CASE Bind \/ GracefulShutdown \/ ServerEnds
      BY <1>1, <2>1 DEF Early, Connected, Created, Webhooks, Bind, GracefulShutdown, ServerEnds
    <2>2. ASSUME NEW c \in Client \cup Post, Accept(c) \/ Answer(c) \/ Disconnect(c)
          PROVE  Early' /\ Connected' /\ Created'
      BY <1>1, <2>2 DEF Early, Connected, Created, Webhooks, Accept, Answer, Disconnect
    <2> QED
      BY <2>1, <2>2 DEF ServerStep
  <1>3. Drained'
    BY <1>1 DEF Drained
  <1>4. Subscribed' /\ Wrapped'
    BY <1>1 DEF Subscribed, Wrapped
  <1>5. Returned'
    BY <1>1 DEF Returned, SuccessMeansNoFailure
  <1> QED
    BY <1>2, <1>3, <1>4, <1>5

\* A step of `run`, or a signal, keeps it.
LEMMA RunKeeps ==
    ASSUME IInv, TypeOK', Run \/ Signal,
           Senders = {} => Senders' = {} /\ sent' = sent
    PROVE  Safe'
  <1> USE LifecycleAssumption DEF IInv, Safe, TypeOK, Task, Server, runVars, queueVars, childVars
  <1>1. ASSUME NEW s \in Sink, CreateSink(s) PROVE Safe'
    <2>1. /\ pc = "sinks" /\ Senders # {}
          /\ UNCHANGED <<serve, enabled, sent, open, childVars>>
          /\ pc' \in {"sinks", "done"} /\ outcome' \in {outcome, "refused"}
          /\ base' \in {base, [base EXCEPT ![s] = 0]}
          /\ task[s] = "absent" /\ task' \in {task, [task EXCEPT ![s] = "running"]}
          /\ \A t \in Sink : t # s => got'[t] = got[t]
      <3>1. pc = "sinks" /\ sent = 0 /\ Senders # {}
        BY <1>1 DEF CreateSink, Early, Senders
      <3> QED
        BY <1>1, <3>1 DEF CreateSink, Return
    <2>2. Early' /\ Subscribed' /\ Connected' /\ Created' /\ Wrapped'
      BY <2>1 DEF Early, Subscribed, Connected, Created, Wrapped, Webhooks
    <2>3. Drained'
      BY <2>1 DEF Drained
    <2>4. Returned'
      BY <2>1 DEF Returned, SuccessMeansNoFailure
    <2> QED
      BY <2>2, <2>3, <2>4
  <1>2. ASSUME NEW x \in Source, CreateSource(x) PROVE Safe'
    <2>1. /\ pc = "sources" /\ Senders # {}
          /\ UNCHANGED <<serve, enabled, sent, base, got, open, childVars>>
          /\ pc' \in {"sources", "done"} /\ outcome' \in {outcome, "refused"}
          /\ task[x] = "absent"
          /\ task' \in {task, [task EXCEPT ![x] = IF Kind[x] = "webhook" THEN "route" ELSE "running"]}
      BY <1>2 DEF CreateSource, Return, Senders
    <2>2. Early' /\ Subscribed' /\ Connected' /\ Created' /\ Wrapped'
      BY <2>1 DEF Early, Subscribed, Connected, Created, Wrapped, Webhooks
    <2>3. Drained'
      BY <2>1 DEF Drained
    <2>4. Returned'
      BY <2>1 DEF Returned, SuccessMeansNoFailure
    <2> QED
      BY <2>2, <2>3, <2>4
  <1>3. CASE SinksCreated \/ SourcesCreated \/ LaunchServer \/ DropSender \/ Signal
    <2>1. /\ UNCHANGED <<serve, enabled, queueVars, open, childVars>>
          /\ \/ task' = task
             \/ pc = "server" /\ task' = [task EXCEPT ![Server] = "starting"]
      BY <1>3 DEF SinksCreated, SourcesCreated, LaunchServer, DropSender, Signal, Return, Goto
    <2>2. /\ pc # "done" /\ (pc' # "sinks" \/ pc' = pc)
          /\ outcome' \in {outcome, "refused"}
          /\ pc' \in {"sinks", "sources", "server"} => task'[Server] = "absent"
          /\ pc' \in {"server", "drop", "join"} =>
                \A x \in enabled \cap Source : task[x] # "absent"
      <3>1. CASE SinksCreated
        BY <3>1 DEF SinksCreated, Return, Goto, Created
      <3>2. CASE SourcesCreated
        BY <3>2 DEF SourcesCreated, Return, Goto, Created
      <3>3. CASE LaunchServer
        BY <3>3 DEF LaunchServer, Goto, Created
      <3>4. CASE DropSender
        BY <3>4 DEF DropSender, Goto, Created
      <3>5. CASE Signal
        BY <3>5 DEF Signal, Created
      <3> QED
        BY <1>3, <3>1, <3>2, <3>3, <3>4, <3>5
    <2>3. Connected' /\ Subscribed' /\ Wrapped'
      BY <2>1 DEF Created, Subscribed, Connected, Wrapped, Webhooks
    <2>4. Early' /\ Created'
      BY <2>1, <2>2 DEF Early, Created, Webhooks
    <2>5. Drained'
      BY <2>1 DEF Drained
    <2>6. Returned'
      BY <1>3, <2>1, <2>2 DEF Returned, SuccessMeansNoFailure
    <2> QED
      BY <2>3, <2>4, <2>5, <2>6
  <1>4. CASE JoinPanicked
    <2>1. /\ pc = "join" /\ pc' = "done" /\ outcome' = "panicked"
          /\ UNCHANGED <<serve, enabled, task, queueVars, open, childVars>>
      BY <1>4 DEF JoinPanicked, Return
    <2>2. Early' /\ Subscribed' /\ Connected' /\ Created' /\ Wrapped'
      BY <2>1 DEF Early, Subscribed, Connected, Created, Wrapped, Webhooks
    <2>3. Drained' /\ Returned'
      BY <2>1 DEF Drained, Returned, SuccessMeansNoFailure
    <2> QED
      BY <2>2, <2>3
  <1>5. CASE JoinAll
    <2>1. /\ pc = "join" /\ pc' = "done"
          /\ \A t \in Joined : task[t] \in {"ended", "failed"}
          /\ outcome' = "ok" => \A t \in Joined : task[t] = "ended"
          /\ UNCHANGED <<serve, enabled, task, queueVars, open, childVars>>
      BY <1>5, Zenon DEF JoinAll, Return
    <2>2. Early' /\ Subscribed' /\ Connected' /\ Created' /\ Wrapped'
      BY <2>1 DEF Early, Subscribed, Connected, Created, Wrapped, Webhooks
    <2>3. Drained'
      BY <2>1 DEF Drained
    <2>4. \A s \in enabled \cap Sink : task[s] = "ended"
      BY <2>1 DEF Joined, Webhooks, Drained
    <2>5. SuccessMeansNoFailure'
      <3>1. \A t \in enabled : t \in Webhooks => task[t] = "route"
        BY <2>1 DEF Created, Webhooks
      <3>2. outcome' = "ok" => /\ \A t \in enabled : t \notin Webhooks => task[t] = "ended"
                               /\ serve /\ HasRoutes => task[Server] = "ended"
        BY <2>1 DEF Joined
      <3> QED
        BY <2>1, <3>1, <3>2 DEF SuccessMeansNoFailure, HasRoutes
    <2> QED
      BY <2>1, <2>2, <2>3, <2>4, <2>5 DEF Returned
  <1> QED
    BY <1>1, <1>2, <1>3, <1>4, <1>5 DEF Run

\* Every step keeps it.
LEMMA Inductive == IInv /\ [Next]_vars => IInv'
  <1> SUFFICES ASSUME IInv, [Next]_vars PROVE IInv'
    OBVIOUS
  <1>1. CASE UNCHANGED vars
    BY <1>1 DEF IInv, TypeOK, Safe, Early, Subscribed, Drained, Connected, Created, Wrapped,
       Returned, SuccessMeansNoFailure, Webhooks, HasRoutes, Senders, Holds, RoutesHeld,
       vars, runVars, queueVars, childVars
  <1>2. CASE Next
    <2>1. Senders = {} => Senders' = {} /\ sent' = sent
      BY <1>2, NobodySendsAgain DEF IInv, Safe
    <2>2. TypeOK'
      BY <1>2, TypeRun, TypeTask, TypeServer DEF IInv, Next, ServerStep
    <2>3. Safe'
      BY <1>2, <2>1, <2>2, SinkKeeps, SourceKeeps, ServerKeeps, RunKeeps DEF Next, ServerStep
    <2> QED
      BY <2>2, <2>3 DEF IInv
  <1> QED
    BY <1>1, <1>2

-----------------------------------------------------------------------------
(***************************************************************************)
(* The theorems                                                            *)
(***************************************************************************)

\* The invariant holds, and so do the properties.
THEOREM Invariance == Spec => []IInv
  <1>1. Init => IInv
    BY TypeInit, SafeInit DEF IInv
  <1> QED
    BY <1>1, Inductive, PTL DEF Spec

\* The states of the tasks, of the queue and of the connections are well typed.
THEOREM TypeCorrect == Spec => []TypeOK
  <1>1. IInv => TypeOK
    BY DEF IInv
  <1> QED
    BY <1>1, Invariance, PTL

\* `run` returns regularly only when every sink has handled every message ever
\* queued (pipeline.rs).
THEOREM QueueDrained == Spec => []NothingLeftBehind
  <1>1. IInv => NothingLeftBehind
    BY DEF IInv, Safe, Subscribed, Drained, Returned, NothingLeftBehind
  <1> QED
    BY <1>1, Invariance, PTL

\* An error of any task is an error of `run` (pipeline.rs).
THEOREM FailuresSurface == Spec => []SuccessMeansNoFailure
  <1>1. IInv => SuccessMeansNoFailure
    BY DEF IInv, Safe, Returned
  <1> QED
    BY <1>1, Invariance, PTL

\* `send --run` exits with 0 only if the wrapped command did (subprocess/mod.rs,
\* tools/send.rs).
THEOREM CommandsStatus == Spec => []StatusIsTheChilds
  <1>1. IInv => StatusIsTheChilds
    <2> SUFFICES ASSUME IInv, WrapsCommand, ExitStatus = 0 PROVE child = "closed" /\ code = 0
      BY DEF StatusIsTheChilds
    <2>1. outcome = "ok" /\ codeOut = 0
      BY DEF ExitStatus
    <2>2. PICK x \in enabled \cap Source : Kind[x] = "subprocess"
      BY DEF WrapsCommand
    <2>3. task[x] = "ended" /\ x \notin Webhooks
      BY <2>1, <2>2 DEF IInv, Safe, Returned, Created, SuccessMeansNoFailure, Webhooks
    <2> QED
      BY <2>1, <2>2, <2>3 DEF IInv, Safe, Wrapped
  <1> QED
    BY <1>1, Invariance, PTL
=============================================================================
