---------------------------- MODULE SourceProofs ----------------------------
(***************************************************************************)
(* Proofs about the files source, for any files, patterns, limit and       *)
(* margin and any number of writes, failures and restarts; and about the   *)
(* NATS and Kafka sources, for any number of messages, prefetch and any    *)
(* number of crashes and restarts.                                         *)
(***************************************************************************)
EXTENDS Adapters, FiniteSetTheorems, TLAPS

(***************************************************************************)
(* The files source                                                        *)
(***************************************************************************)

Typed ==
    /\ clock \in Nat /\ limit \in Nat
    /\ written \in [File -> Nat] /\ visible \in [File -> Nat]
    /\ after \in Nat /\ before \in Nat /\ saved \in Nat
    /\ todo \subseteq File /\ sent \subseteq File \X Nat

\* The bounds follow each other, and the upper one keeps the margin.
Bounds == after <= before /\ saved <= before /\ before <= limit /\ before <= clock - Margin

\* What is not visible yet is too young for the window.
Young == \A f \in File : visible[f] # written[f] => written[f] > clock - Margin

\* The window can move up to the bound: what lies before it was handed on, or is
\* known not to be.
Out == sent \cup skipped \cup overlooked \cup Empty
HandedOn(bound) ==
    \A f \in File : Scan!PathAccepted(f) /\ visible[f] \in 1..bound => <<f, visible[f]>> \in Out

\* So were, of the places a scan has come to, those in its window.
Progress ==
    /\ HandedOn(after) /\ HandedOn(saved)
    /\ at = "scan" =>
         \A f \in File \ todo : Scan!PathAccepted(f) /\ visible[f] \in 1..before =>
             <<f, visible[f]>> \in Out \cup {entry}
    /\ at = "scanned" /\ scanned => HandedOn(before)

\* The file about to be read is in the window, or there is a newer version that
\* is not.
Reading ==
    entry # Scan!NoEntry =>
        /\ at = "scan" /\ entry \in File \X Nat /\ entry[1] \notin todo
        /\ entry[2] > after /\ entry[2] <= before
        /\ visible[entry[1]] = entry[2] \/ visible[entry[1]] > before

\* What was handed on, and that not before the window went back, is before the
\* window or was handed on by this scan, which does not come to its place again.
Once ==
    /\ \A x \in sent : x[2] <= before
    /\ at # "load" => \A x \in sent \ resend : x[2] > after =>
         at \in {"scan", "scanned"} /\ x[1] \notin todo /\ (entry # Scan!NoEntry => entry[1] # x[1])
    /\ repeated = {}

IInv == Typed /\ Bounds /\ Young /\ Progress /\ Reading /\ Once

\* The first window ends before anything that can be written.
LEMMA InitInv == ASSUME Scan!Init PROVE IInv
  <1>1. Typed /\ Bounds /\ before = 0
    BY ScanAssumption DEF Scan!Init, Scan!TsBefore, Typed, Bounds
  <1>2. QED
    BY <1>1 DEF Scan!Init, IInv, Young, Progress, HandedOn, Reading, Once, Scan!NoEntry

-----------------------------------------------------------------------------
(***************************************************************************)
(* The storage                                                             *)
(***************************************************************************)

\* What the source holds stands still while the storage changes.
Still == UNCHANGED <<at, Scan!windowVars, Scan!scanVars, Scan!outVars>>

\* A step of the storage that shows no version within the window keeps it.
LEMMA StorageInv ==
    ASSUME IInv, Still, clock' \in Nat, clock <= clock',
           written' \in [File -> Nat], visible' \in [File -> Nat], Young',
           \A f \in File : visible'[f] = visible[f] \/ visible'[f] > before
    PROVE  IInv'
  <1> USE DEF Still, Scan!windowVars, Scan!scanVars, Scan!outVars
  <1>1. Typed' /\ Bounds'
    <2>1. UNCHANGED <<limit, after, before, saved, todo, sent>>
      OBVIOUS
    <2>2. Typed'
      BY <2>1 DEF IInv, Typed
    <2>3. Bounds'
      <3>1. clock \in Nat /\ before \in Nat /\ Margin \in Nat /\ before <= clock - Margin
        BY ScanAssumption DEF IInv, Typed, Bounds
      <3>2. \A c, d, b, m \in Nat : c <= d /\ b <= c - m => b <= d - m
        OBVIOUS
      <3>3. QED
        BY <2>1, <3>1, <3>2 DEF IInv, Bounds
    <2>4. QED
      BY <2>2, <2>3
  <1>2. ASSUME NEW bound \in Nat, bound <= before, NEW f \in File, visible'[f] \in 1..bound
        PROVE  visible'[f] = visible[f]
    BY <1>2 DEF IInv, Typed
  <1>3. Progress'
    <2>1. after <= before /\ saved <= before /\ after \in Nat /\ saved \in Nat /\ before \in Nat
      BY DEF IInv, Bounds, Typed
    <2>2. ASSUME NEW bound \in Nat, bound <= before, HandedOn(bound)
          PROVE  \A f \in File : Scan!PathAccepted(f) /\ visible'[f] \in 1..bound =>
                     <<f, visible'[f]>> \in Out'
      BY <1>2, <2>2 DEF HandedOn, Out
    <2>3. at = "scan" =>
            \A f \in File \ todo : Scan!PathAccepted(f) /\ visible'[f] \in 1..before =>
                <<f, visible'[f]>> \in Out' \cup {entry}
      BY <1>2, <2>1 DEF IInv, Progress, Out
    <2>4. QED
      BY <2>1, <2>2, <2>3 DEF IInv, Progress, HandedOn
  <1>4. Reading'
    BY DEF IInv, Reading, Typed
  <1>5. Once'
    BY DEF IInv, Once
  <1>6. QED
    BY <1>1, <1>3, <1>4, <1>5 DEF IInv

\* What is not visible yet stays young while the clock ticks, the file that is
\* written is, and what becomes visible was.
LEMMA DiskInv ==
    ASSUME IInv, Scan!Tick \/ \E f \in File : Scan!Write(f) \/ Scan!Publish(f) PROVE IInv'
  <1> USE ScanAssumption DEF IInv, Typed, Bounds, Young
  <1>1. CASE Scan!Tick
    <2>1. Young' /\ Still /\ clock' = clock + 1 /\ UNCHANGED <<written, visible>>
      BY <1>1 DEF Scan!Tick, Still
    <2>2. QED
      BY <2>1, StorageInv
  <1>2. ASSUME NEW f \in File, Scan!Write(f) PROVE IInv'
    <2>1. Still /\ UNCHANGED <<clock, visible>> /\ written' = [written EXCEPT ![f] = clock]
      BY <1>2 DEF Scan!Write, Still
    <2>2. QED
      BY <2>1, StorageInv
  <1>3. ASSUME NEW f \in File, Scan!Publish(f) PROVE IInv'
    <2>1. Still /\ UNCHANGED <<clock, written>> /\ visible' = [visible EXCEPT ![f] = written[f]]
          /\ visible[f] # written[f]
      BY <1>3 DEF Scan!Publish, Still
    <2>2. QED
      BY <2>1, StorageInv
  <1>4. QED
    BY <1>1, <1>2, <1>3

-----------------------------------------------------------------------------
(***************************************************************************)
(* OpendalExtractor::run                                                   *)
(***************************************************************************)

\* A source that has loaded its bound starts at it, or from the beginning: what
\* it sends again is known.
LEMMA LoadInv == ASSUME IInv, Scan!Load PROVE IInv'
  <1> USE DEF Scan!Load, Scan!diskVars, Scan!scanVars
  <1>1. after' \in Nat /\ after' <= before /\ (HandedOn(saved) => HandedOn(after'))
    BY DEF IInv, Typed, Bounds, HandedOn
  <1>2. Typed' /\ Bounds' /\ Young'
    BY <1>1 DEF IInv, Typed, Bounds, Young
  <1>3. Progress'
    BY <1>1 DEF IInv, Progress, HandedOn, Out
  <1>4. Reading'
    BY DEF IInv, Reading
  <1>5. Once'
    BY DEF IInv, Once, Scan!GoBackTo
  <1>6. QED
    BY <1>2, <1>3, <1>4, <1>5 DEF IInv

\* A scan starts with every place to come to.
LEMMA StartScanInv == ASSUME IInv, Scan!StartScan PROVE IInv'
  <1> USE DEF Scan!StartScan, Scan!diskVars, Scan!windowVars, Scan!outVars
  <1>1. Typed' /\ Bounds' /\ Young'
    BY DEF IInv, Typed, Bounds, Young
  <1>2. Progress'
    BY DEF IInv, Progress, HandedOn, Out
  <1>3. Reading' /\ Once'
    BY DEF IInv, Reading, Once, Scan!NoEntry
  <1>4. QED
    BY <1>1, <1>2, <1>3 DEF IInv

\* Nothing moves when the source stops.
LEMMA StopInv == ASSUME IInv, Scan!Stop PROVE IInv'
  BY DEF Scan!Stop, Scan!diskVars, Scan!windowVars, Scan!scanVars, Scan!outVars, IInv, Typed,
         Bounds, Young, Progress, HandedOn, Out, Reading, Once

\* A file that the listing comes to is accepted if it is in the window, or it is
\* known why not.
LEMMA VisitInv == ASSUME IInv, NEW f \in File, Scan!Visit(f) PROVE IInv'
  <1> DEFINE version == <<f, visible[f]>>
  <1>1. PICK told \in SUBSET {"time", "length"}, statAnswers \in BOOLEAN :
          LET resource == Scan!FromEntry(f, told, statAnswers)
          IN  /\ entry' = IF Scan!Accept(resource) THEN version ELSE Scan!NoEntry
              /\ skipped' = skipped \cup
                     {x \in {version} : Scan!InWindow(x[2]) /\ resource.lastModified = 0}
              /\ overlooked' = overlooked \cup
                     {x \in {version} \ Empty : /\ Scan!InWindow(resource.lastModified)
                                               /\ resource.contentLength = 0}
    BY DEF Scan!Visit
  <1> DEFINE resource == Scan!FromEntry(f, told, statAnswers)
  <1>2. /\ at = "scan" /\ entry = Scan!NoEntry /\ f \in todo /\ todo' = todo \ {f}
        /\ UNCHANGED <<clock, writes, written, visible, starts, at, limit, after, before, saved,
                       scanned, sent, resend, repeated>>
    BY DEF Scan!Visit, Scan!diskVars, Scan!windowVars
  <1>3. /\ resource.path = f
        /\ resource.lastModified = visible[f] \/ resource.lastModified = 0
        /\ resource.contentLength = 1 \/ resource.contentLength = 0
    BY DEF Scan!FromEntry
  <1> HIDE DEF resource
  <1>4. /\ entry' = IF Scan!Accept(resource) THEN version ELSE Scan!NoEntry
        /\ skipped' = skipped \cup
               {x \in {version} : Scan!InWindow(x[2]) /\ resource.lastModified = 0}
        /\ overlooked' = overlooked \cup
               {x \in {version} \ Empty : /\ Scan!InWindow(resource.lastModified)
                                         /\ resource.contentLength = 0}
    BY <1>1 DEF resource
  <1>5. after \in Nat /\ before \in Nat /\ visible[f] \in Nat
    BY DEF IInv, Typed
  <1>6. \/ entry' = Scan!NoEntry
        \/ entry' = version /\ visible[f] > after /\ visible[f] <= before
    BY <1>3, <1>4, <1>5 DEF Scan!Accept, Scan!InWindow
  <1>7. Out \subseteq Out'
    BY <1>2, <1>4 DEF Out
  <1>8. ASSUME Scan!PathAccepted(f), Scan!InWindow(visible[f]), ~Scan!Accept(resource)
        PROVE  version \in Out'
    <2>1. CASE resource.lastModified = 0
      BY <1>4, <1>8, <2>1 DEF Out
    <2>2. CASE resource.lastModified # 0
      <3>1. resource.lastModified = visible[f] /\ resource.contentLength = 0
        BY <1>3, <1>8, <2>2 DEF Scan!Accept
      <3>2. QED
        BY <1>4, <1>8, <3>1 DEF Out
    <2>3. QED
      BY <2>1, <2>2
  <1> HIDE DEF version
  <1>9. Typed' /\ Bounds' /\ Young'
    BY <1>2 DEF IInv, Typed, Bounds, Young
  <1>10. Progress'
    <2>1. HandedOn(after)' /\ HandedOn(saved)'
      BY <1>2, <1>7 DEF IInv, Progress, HandedOn
    <2>2. ASSUME NEW g \in File \ todo', Scan!PathAccepted(g), visible[g] \in 1..before
          PROVE  <<g, visible[g]>> \in Out' \cup {entry'}
      <3>1. CASE g # f
        <4>1. <<g, visible[g]>> \in Out \cup {entry}
          BY <1>2, <2>2, <3>1 DEF IInv, Progress
        <4>2. QED
          BY <1>2, <1>7, <4>1 DEF Scan!NoEntry
      <3>2. CASE g = f /\ visible[f] <= after
        <4>1. visible[f] \in 1..after
          BY <1>5, <2>2, <3>2
        <4>2. <<f, visible[f]>> \in Out
          BY <2>2, <3>2, <4>1 DEF IInv, Progress, HandedOn
        <4>3. QED
          BY <1>7, <3>2, <4>2
      <3>3. CASE g = f /\ visible[f] > after
        <4>1. Scan!InWindow(visible[f])
          BY <2>2, <3>3 DEF Scan!InWindow
        <4>2. CASE Scan!Accept(resource)
          BY <1>4, <3>3, <4>2 DEF version
        <4>3. CASE ~Scan!Accept(resource)
          BY <1>8, <2>2, <3>3, <4>1, <4>3 DEF version
        <4>4. QED
          BY <4>2, <4>3
      <3>4. QED
        BY <1>5, <3>1, <3>2, <3>3
    <2>3. QED
      BY <1>2, <2>1, <2>2 DEF Progress
  <1>11. Reading'
    <2>1. CASE entry' = Scan!NoEntry
      BY <2>1 DEF Reading
    <2>2. CASE entry' = version /\ visible[f] > after /\ visible[f] <= before
      BY <1>2, <1>5, <2>2 DEF Reading, version
    <2>3. QED
      BY <1>6, <2>1, <2>2
  <1>12. Once'
    <2>1. ASSUME NEW x \in sent \ resend, x[2] > after
          PROVE  x[1] \notin todo' /\ x[1] # f
      BY <1>2, <2>1 DEF IInv, Once
    <2>2. entry' # Scan!NoEntry => entry'[1] = f
      BY <1>6 DEF version
    <2>3. QED
      BY <1>2, <2>1, <2>2 DEF IInv, Once
  <1>13. QED
    BY <1>9, <1>10, <1>11, <1>12 DEF IInv

\* The file that is read is the one that was listed, or too young for the window.
LEMMA ParseInv == ASSUME IInv, Scan!Parse PROVE IInv'
  <1> USE DEF Scan!Parse, Scan!diskVars, Scan!windowVars
  <1>0. PICK f \in File, v \in Nat : entry = <<f, v>>
    BY DEF IInv, Reading
  <1>1. /\ entry' = Scan!NoEntry /\ v > after /\ v <= before /\ f \notin todo
        /\ visible[f] = v \/ visible[f] > before
    BY <1>0 DEF IInv, Reading
  <1> DEFINE read == <<f, visible[f]>>
  <1>2. \/ /\ sent' = sent \cup ({read} \cap {entry}) /\ resend' = resend \ {read}
           /\ repeated' = repeated \cup (({read} \cap sent) \ resend) /\ skipped' = skipped
        \/ skipped' = skipped \cup {entry} /\ UNCHANGED <<sent, resend, repeated>>
    BY <1>0
  <1>3. Out \subseteq Out' /\ (visible[f] = v => entry \in Out')
    BY <1>0, <1>2 DEF Out
  <1>4. Typed' /\ Bounds' /\ Young'
    BY <1>0, <1>2 DEF IInv, Typed, Bounds, Young
  <1>5. Progress'
    <2>1. HandedOn(after)' /\ HandedOn(saved)'
      BY <1>3 DEF IInv, Progress, HandedOn
    <2>2. ASSUME NEW g \in File \ todo, Scan!PathAccepted(g), visible[g] \in 1..before
          PROVE  <<g, visible[g]>> \in Out'
      <3>1. <<g, visible[g]>> \in Out \cup {entry}
        BY <2>2 DEF IInv, Progress
      <3>2. CASE <<g, visible[g]>> = entry
        BY <1>0, <1>3, <3>2
      <3>3. QED
        BY <1>3, <3>1, <3>2
    <2>3. QED
      BY <2>1, <2>2 DEF IInv, Progress
  <1>6. Reading'
    BY <1>1 DEF Reading
  <1>7. Once'
    <2>1. CASE skipped' = skipped \cup {entry} /\ UNCHANGED <<sent, resend, repeated>>
      BY <1>1, <2>1 DEF IInv, Once
    <2>2. CASE /\ sent' = sent \cup ({read} \cap {entry}) /\ resend' = resend \ {read}
               /\ repeated' = repeated \cup (({read} \cap sent) \ resend)
      <3>1. at = "scan" /\ at' = "scan"
        BY <1>0 DEF IInv, Reading
      <3>2. read \notin sent \ resend
        <4>1. CASE read = entry
          BY <1>0, <1>1, <3>1, <4>1 DEF IInv, Once
        <4>2. CASE read # entry
          BY <1>0, <1>1, <4>2 DEF IInv, Once, Typed
        <4>3. QED
          BY <4>1, <4>2
      <3>3. repeated' = {}
        BY <2>2, <3>2 DEF IInv, Once
      <3>4. \A x \in sent' : x = entry \/ x \in sent
        BY <2>2
      <3>5. \A x \in sent' : x[2] <= before
        BY <1>0, <1>1, <3>4 DEF IInv, Once
      <3>6. ASSUME NEW x \in sent' \ resend', x[2] > after PROVE x[1] \notin todo
        <4>1. CASE x = entry \/ x = read
          BY <1>0, <1>1, <4>1
        <4>2. CASE x \in sent \ resend
          BY <3>1, <3>6, <4>2 DEF IInv, Once
        <4>3. QED
          BY <2>2, <3>4, <3>6, <4>1, <4>2
      <3>7. QED
        BY <1>1, <3>1, <3>3, <3>5, <3>6 DEF Once
    <2>3. QED
      BY <1>2, <2>1, <2>2
  <1>8. QED
    BY <1>4, <1>5, <1>6, <1>7 DEF IInv

\* A listing that ended came to every place.
LEMMA EndScanInv == ASSUME IInv, Scan!EndScan PROVE IInv'
  <1> USE DEF Scan!EndScan, Scan!diskVars, Scan!windowVars, Scan!outVars
  <1>1. Typed' /\ Bounds' /\ Young'
    BY DEF IInv, Typed, Bounds, Young
  <1>2. Progress'
    <2>1. HandedOn(after)' /\ HandedOn(saved)'
      BY DEF IInv, Progress, HandedOn, Out
    <2>2. ASSUME scanned', NEW f \in File, Scan!PathAccepted(f), visible[f] \in 1..before
          PROVE  <<f, visible[f]>> \in Out
      BY <2>2 DEF IInv, Progress, Scan!NoEntry
    <2>3. QED
      BY <2>1, <2>2 DEF Progress, HandedOn, Out
  <1>3. Reading' /\ Once'
    BY DEF IInv, Reading, Once
  <1>4. QED
    BY <1>1, <1>2, <1>3 DEF IInv

\* What the incomplete scan handed on is sent again.
LEMMA RetryInv == ASSUME IInv, Scan!Retry PROVE IInv'
  <1> USE DEF Scan!Retry, Scan!diskVars, Scan!windowVars, Scan!scanVars
  <1>1. Typed' /\ Bounds' /\ Young'
    BY DEF IInv, Typed, Bounds, Young
  <1>2. Progress' /\ Reading' /\ Once'
    BY DEF IInv, Progress, HandedOn, Out, Reading, Once, Scan!GoBackTo
  <1>3. QED
    BY <1>1, <1>2 DEF IInv

\* The next upper bound is not before this one: the clock goes forward.
LEMMA NextBound == ASSUME IInv 
    PROVE  /\ Scan!TsBefore \in Nat /\ before <= Scan!TsBefore
           /\ Scan!TsBefore <= limit /\ Scan!TsBefore <= clock - Margin
  BY ScanAssumption DEF IInv, Typed, Bounds, Scan!TsBefore

\* After a complete scan all of the window was handed on.
LEMMA JumpInv == ASSUME IInv, Scan!JumpToNextTsWindow PROVE IInv'
  <1> USE DEF Scan!JumpToNextTsWindow, Scan!diskVars, Scan!scanVars, Scan!outVars
  <1>1. Typed' /\ Bounds' /\ Young'
    BY NextBound DEF IInv, Typed, Bounds, Young
  <1>2. Progress'
    BY DEF IInv, Progress, HandedOn, Out
  <1>3. Reading'
    BY DEF IInv, Reading
  <1>4. Once'
    <2>1. ASSUME NEW x \in sent PROVE x[2] <= before' /\ ~(x[2] > after')
      BY NextBound DEF IInv, Typed, Once
    <2>2. QED
      BY <2>1 DEF IInv, Once
  <1>5. QED
    BY <1>1, <1>2, <1>3, <1>4 DEF IInv

\* The checkpoint is the bound the window has moved to.
LEMMA SaveInv == ASSUME IInv, Scan!Save PROVE IInv'
  <1> USE DEF Scan!Save, Scan!diskVars, Scan!scanVars, Scan!outVars
  <1>1. Typed' /\ Bounds' /\ Young'
    BY DEF IInv, Typed, Bounds, Young
  <1>2. Progress' /\ Reading' /\ Once'
    BY DEF IInv, Progress, HandedOn, Out, Reading, Once
  <1>3. QED
    BY <1>1, <1>2 DEF IInv

\* A new process finds the files as they are, and knows no bound yet.
LEMMA StartInv == ASSUME IInv, Scan!Start PROVE IInv'
  <1> USE DEF Scan!Start, Scan!diskVars, Scan!outVars
  <1>1. Typed' /\ Bounds' /\ Young'
    BY NextBound DEF IInv, Typed, Bounds, Young
  <1>2. Progress' /\ Reading'
    BY DEF IInv, Progress, HandedOn, Out, Reading
  <1>3. Once'
    <2>1. ASSUME NEW x \in sent PROVE x[2] <= before'
      BY NextBound DEF IInv, Typed, Once
    <2>2. QED
      BY <2>1 DEF IInv, Once
  <1>4. QED
    BY <1>1, <1>2, <1>3 DEF IInv

\* No file falls between two windows and none is in both (opendal/mod.rs:139):
\* for any files and patterns, however a listing fails, wherever a restart
\* resumes and whatever is written meanwhile, if a written version shows up
\* before the margin is over.
THEOREM EachFileOnce == Spec => []FilesOnce
  <1> DEFINE Inv == part = "scan" => IInv
  <1>1. Init => Inv
    BY InitInv DEF Init
  <1>2. Inv /\ [Next]_vars => Inv'
    <2> SUFFICES ASSUME part' = "scan", Inv, [Next]_vars PROVE IInv'
      OBVIOUS
    <2>1. CASE UNCHANGED vars
      BY <2>1 DEF vars, ofScan, IInv, Typed, Bounds, Young, Progress, HandedOn, Out, Reading, Once
    <2>2. CASE ScanNext
      BY <2>2, DiskInv, VisitInv, LoadInv, StartScanInv, StopInv, ParseInv, EndScanInv, RetryInv,
         JumpInv, SaveInv, StartInv DEF ScanNext, Scan!Next
    <2>3. QED
      BY <2>1, <2>2 DEF Next, AckedNext, RowsNext, FetchNext
  <1>3. Inv => FilesOnce
    BY DEF IInv, Progress, HandedOn, Out, Once, FilesOnce, Scan!FilesOnce
  <1>4. QED
    BY <1>1, <1>2, <1>3, PTL DEF Spec

-----------------------------------------------------------------------------
(***************************************************************************)
(* The NATS and Kafka sources                                              *)
(***************************************************************************)

Message == Nat \ {0}

AckedTyped ==
    /\ mode \in Modes /\ published \in Nat /\ stops \in Nat
    /\ position \in Nat /\ inbox \in Seq(Message) /\ hand \in Nat /\ toAck \in Nat
    /\ offset \in Nat /\ committed \in Nat
    /\ handled \in SUBSET Message

\* Nothing is held while the process is down; what is held was delivered.
Held ==
    /\ ~running => inbox = <<>> /\ hand = 0 /\ toAck = 0
    /\ \A i \in 1..Len(inbox) : inbox[i] <= position
    /\ hand <= position
    /\ mode = "core" => position <= published

\* JetStream is told of a message only after it was handled.
JetStream ==
    /\ mode = "jetstream" => acked \subseteq handled /\ (toAck # 0 => toAck \in handled)
    /\ mode # "jetstream" => acked = {} /\ toAck = 0

\* Kafka's client hands out the messages one after the other, and stores the
\* offset of the last: whatever is up to it was handled, is in hand, or was in
\* hand at a crash.
Kafka ==
    /\ Acked!IsKafka => committed <= offset
    /\ Acked!IsKafka /\ running => /\ position = offset + Len(inbox)
                                   /\ \A i \in 1..Len(inbox) : inbox[i] = offset + i
                                   /\ hand \in {0, offset}
    /\ mode = "kafka" => 1..offset \subseteq handled \cup cut \cup {hand}
    /\ mode = "kafka_uncommitted" => committed = 0

\* A message that was handled is behind the client's position or the broker
\* knows of it, unless the broker could not know.
Behind(m) ==
    CASE mode = "jetstream" -> m \in acked \/ (running /\ m <= position)
      [] Acked!IsKafka      -> m <= IF running THEN offset ELSE committed
      [] OTHER              -> m <= position

\* A message is on its way a second time only if the broker could not know.
AckedOnce ==
    /\ \A m \in handled : m \in excused \/ Behind(m)
    /\ \A i \in 1..Len(inbox) : inbox[i] \in handled \cup {hand} => inbox[i] \in excused
    /\ hand \in handled => hand \in excused
    /\ \A i, j \in 1..Len(inbox) : i # j /\ inbox[i] = inbox[j] => inbox[i] \in excused
    /\ again \subseteq excused

\* One crash cuts one message.
Cuts == IsFiniteSet(cut) /\ Cardinality(cut) <= stops

AckedInv == AckedTyped /\ Held /\ JetStream /\ Kafka /\ AckedOnce /\ Cuts

\* There are four modes, two of them Kafka's.
LEMMA Modal == ASSUME AckedTyped
               PROVE  /\ mode \in {"core", "jetstream", "kafka", "kafka_uncommitted"}
                      /\ Acked!IsKafka <=> mode \in {"kafka", "kafka_uncommitted"}
  BY AckedAssumption DEF AckedTyped, Acked!IsKafka

\* The invariant holds at first.
LEMMA AckedInitInv == Acked!Init => AckedInv
  <1> SUFFICES ASSUME Acked!Init PROVE AckedInv
    OBVIOUS
  <1>1. AckedTyped /\ Held /\ JetStream /\ Kafka /\ AckedOnce
    BY DEF Acked!Init, AckedTyped, Held, JetStream, Kafka, AckedOnce, Acked!IsKafka, Message
  <1>2. Cuts
    BY FS_EmptySet DEF Acked!Init, Cuts
  <1>3. QED
    BY <1>1, <1>2 DEF AckedInv

\* Publishing moves nothing but what core NATS forgets while nobody listens.
LEMMA PublishInv == ASSUME AckedInv, Acked!Publish PROVE AckedInv'
  <1> USE Modal DEF AckedInv, Acked!Publish, Acked!clientVars, Acked!ackVars, Acked!pastVars
  <1>1. AckedTyped' /\ Held' /\ JetStream' /\ Cuts'
    BY DEF AckedTyped, Held, JetStream, Cuts
  <1>2. Kafka'
    BY DEF AckedTyped, Kafka, Acked!IsKafka
  <1>3. AckedOnce'
    <2>1. position' = position \/ (mode = "core" /\ position' >= position)
      BY DEF AckedTyped, Held
    <2>2. \A m \in handled : Behind(m) => Behind(m)'
      BY <2>1 DEF AckedTyped, Behind, Acked!IsKafka, Message
    <2>3. UNCHANGED <<handled, excused, again, inbox, hand>>
      OBVIOUS
    <2>4. QED
      BY <2>2, <2>3 DEF AckedOnce
  <1>4. QED
    BY <1>1, <1>2, <1>3

\* A message delivered in turn was not handled, or the broker could not know.
LEMMA DeliverInv == ASSUME AckedInv, Acked!Deliver PROVE AckedInv'
  <1> USE DEF AckedInv, Acked!brokerVars, Acked!ackVars, Acked!pastVars
  <1>1. PICK m \in (position + 1)..published \ acked :
            /\ \A l \in (position + 1)..(m - 1) : l \in acked
            /\ position' = m /\ inbox' = Append(inbox, m)
    BY DEF Acked!Deliver
  <1>2. /\ running
        /\ UNCHANGED <<Acked!brokerVars, running, stops, hand, toAck, Acked!ackVars,
                       Acked!pastVars>>
    BY DEF Acked!Deliver
  <1>3. /\ position \in Nat /\ m \in Message /\ m > position /\ hand <= position
        /\ inbox \in Seq(Message) /\ Len(inbox) \in Nat /\ m \notin acked
    BY <1>1 DEF AckedTyped, Held, Message
  <1>4. /\ inbox' \in Seq(Message) /\ Len(inbox') = Len(inbox) + 1
        /\ \A i \in 1..Len(inbox) : inbox'[i] = inbox[i]
        /\ inbox'[Len(inbox) + 1] = m
        /\ \A i \in 1..Len(inbox') : i \in 1..Len(inbox) \/ i = Len(inbox) + 1
    BY <1>1, <1>3
  <1>5. \A i \in 1..Len(inbox) : inbox[i] \in Nat /\ inbox[i] <= position
    BY <1>3 DEF Held, Message
  <1>6. AckedTyped' /\ JetStream' /\ Cuts'
    BY <1>1, <1>2, <1>3, <1>4 DEF AckedTyped, JetStream, Cuts, Message
  <1>7. Held'
    BY <1>1, <1>2, <1>3, <1>4, <1>5 DEF Held, AckedTyped
  <1>8. Kafka'
    <2>1. Acked!IsKafka => m = position + 1
      BY <1>1, <1>3, Modal DEF JetStream
    <2>2. Acked!IsKafka' = Acked!IsKafka
      BY <1>2 DEF Acked!IsKafka
    <2>3. ASSUME Acked!IsKafka, running
          PROVE  /\ position' = offset' + Len(inbox')
                 /\ \A i \in 1..Len(inbox') : inbox'[i] = offset' + i
                 /\ hand' \in {0, offset'}
      <3>1. /\ position = offset + Len(inbox) /\ hand \in {0, offset}
            /\ \A i \in 1..Len(inbox) : inbox[i] = offset + i
            /\ offset \in Nat
        BY <2>3 DEF Kafka, AckedTyped
      <3>2. m = offset + (Len(inbox) + 1)
        BY <1>3, <2>1, <2>3, <3>1
      <3>3. \A i \in 1..Len(inbox') : inbox'[i] = offset + i
        BY <1>4, <3>1, <3>2
      <3>4. QED
        BY <1>1, <1>2, <1>3, <1>4, <3>1, <3>2, <3>3
    <2>4. QED
      BY <1>1, <1>2, <2>2, <2>3 DEF Kafka
  <1>9. AckedOnce'
    <2>1. m \in handled => m \in excused
      BY <1>2, <1>3, Modal DEF AckedOnce, Behind, Kafka, AckedTyped
    <2>2. \A x \in handled : Behind(x) => Behind(x)'
      BY <1>1, <1>2, <1>3 DEF Behind, Acked!IsKafka, AckedTyped, Message
    <2>3. \A i \in 1..Len(inbox') : inbox'[i] \in handled \cup {hand} => inbox'[i] \in excused
      BY <1>3, <1>4, <1>5, <2>1 DEF AckedOnce
    <2>4. \A i, j \in 1..Len(inbox') : i # j /\ inbox'[i] = inbox'[j] => inbox'[i] \in excused
      BY <1>3, <1>4, <1>5 DEF AckedOnce
    <2>5. QED
      BY <1>2, <2>2, <2>3, <2>4 DEF AckedOnce
  <1>10. QED
    BY <1>6, <1>7, <1>8, <1>9

\* A redelivered message is one the broker does not know to be handled.
LEMMA RedeliverInv == ASSUME AckedInv, NEW m, Acked!Redeliver(m) PROVE AckedInv'
  <1> USE DEF AckedInv, Acked!brokerVars, Acked!ackVars, Acked!pastVars
  <1>1. /\ mode = "jetstream" /\ running /\ m \in 1..position \ acked
        /\ inbox' = Append(inbox, m) /\ excused' = excused \cup {m}
        /\ UNCHANGED <<Acked!brokerVars, running, stops, position, hand, toAck, Acked!ackVars,
                       handled, cut, again>>
    BY DEF Acked!Redeliver
  <1>2. /\ position \in Nat /\ m \in Message /\ m <= position
        /\ inbox \in Seq(Message) /\ Len(inbox) \in Nat
    BY <1>1 DEF AckedTyped, Message
  <1>3. /\ inbox' \in Seq(Message) /\ Len(inbox') = Len(inbox) + 1
        /\ \A i \in 1..Len(inbox) : inbox'[i] = inbox[i]
        /\ inbox'[Len(inbox) + 1] = m
        /\ \A i \in 1..Len(inbox') : i \in 1..Len(inbox) \/ i = Len(inbox) + 1
    BY <1>1, <1>2
  <1>4. AckedTyped' /\ JetStream' /\ Cuts'
    BY <1>1, <1>3 DEF AckedTyped, JetStream, Cuts
  <1>5. Held'
    BY <1>1, <1>2, <1>3 DEF Held
  <1>6. Kafka'
    BY <1>1 DEF Kafka, Acked!IsKafka
  <1>7. AckedOnce'
    <2>1. \A x \in handled : Behind(x) => Behind(x)'
      BY <1>1 DEF Behind, Acked!IsKafka
    <2>2. \A i \in 1..Len(inbox') : inbox'[i] \in handled \cup {hand} => inbox'[i] \in excused'
      BY <1>1, <1>2, <1>3 DEF AckedOnce
    <2>3. \A i, j \in 1..Len(inbox') : i # j /\ inbox'[i] = inbox'[j] => inbox'[i] \in excused'
      BY <1>1, <1>2, <1>3 DEF AckedOnce
    <2>4. QED
      BY <1>1, <2>1, <2>2, <2>3 DEF AckedOnce
  <1>8. QED
    BY <1>4, <1>5, <1>6, <1>7

\* The message taken was the first of those delivered: Kafka stores its offset,
\* the next one.
LEMMA TakeInv == ASSUME AckedInv, Acked!Take PROVE AckedInv'
  <1> USE DEF AckedInv, Acked!brokerVars, Acked!ackVars, Acked!pastVars
  <1>1. /\ running /\ hand = 0 /\ toAck = 0 /\ inbox # <<>>
        /\ hand' = Head(inbox) /\ inbox' = Tail(inbox)
        /\ offset' = IF Acked!IsKafka THEN Head(inbox) ELSE offset
        /\ UNCHANGED <<Acked!brokerVars, running, stops, position, toAck, acked, committed,
                       Acked!pastVars>>
    BY DEF Acked!Take
  <1>2. /\ inbox \in Seq(Message) /\ Len(inbox) \in Nat /\ Len(inbox) > 0
        /\ position \in Nat /\ offset \in Nat /\ committed \in Nat
    BY <1>1 DEF AckedTyped
  <1>3. /\ inbox' \in Seq(Message) /\ Len(inbox') = Len(inbox) - 1
        /\ \A i \in 1..Len(inbox') : inbox'[i] = inbox[i + 1] /\ i + 1 \in 1..Len(inbox)
        /\ hand' = inbox[1] /\ 1 \in 1..Len(inbox) /\ hand' \in Message
    BY <1>1, <1>2
  <1>4. Acked!IsKafka' = Acked!IsKafka /\ (Acked!IsKafka => offset' = offset + 1 /\ hand' = offset')
    BY <1>1, <1>3 DEF Acked!IsKafka, Kafka
  <1>5. AckedTyped'
    BY <1>1, <1>2, <1>3 DEF AckedTyped, Message
  <1>6. Held' /\ JetStream' /\ Cuts'
    BY <1>1, <1>3 DEF Held, JetStream, Cuts
  <1>7. Kafka'
    <2>1. mode = "kafka" => 1..offset' \subseteq handled \cup cut \cup {hand'}
      BY <1>1, <1>2, <1>4 DEF Kafka, Acked!IsKafka, AckedTyped, Message
    <2>2. Acked!IsKafka => /\ position = offset' + Len(inbox') /\ committed <= offset'
                     /\ \A i \in 1..Len(inbox') : inbox'[i] = offset' + i
      <3> SUFFICES ASSUME Acked!IsKafka
                   PROVE  /\ position = offset' + Len(inbox') /\ committed <= offset'
                          /\ \A i \in 1..Len(inbox') : inbox'[i] = offset' + i
        OBVIOUS
      <3>1. /\ position = offset + Len(inbox) /\ committed <= offset
            /\ \A i \in 1..Len(inbox) : inbox[i] = offset + i
        BY <1>1 DEF Kafka
      <3>2. position = offset' + Len(inbox') /\ committed <= offset'
        BY <1>2, <1>3, <1>4, <3>1
      <3>3. \A i \in 1..Len(inbox') : inbox'[i] = offset' + i
        <4>1. TAKE i \in 1..Len(inbox')
        <4>2. inbox'[i] = offset + (i + 1)
          BY <1>3, <3>1
        <4>3. QED
          BY <1>2, <1>3, <1>4, <4>2
      <3>4. QED
        BY <3>2, <3>3
    <2>3. QED
      BY <1>1, <1>4, <2>1, <2>2 DEF Kafka
  <1>8. AckedOnce'
    <2>1. \A x \in handled : Behind(x) => Behind(x)'
      BY <1>1, <1>2, <1>4 DEF Behind, AckedTyped, Message
    <2>2. \A i \in 1..Len(inbox') : inbox'[i] \in handled \cup {hand'} => inbox'[i] \in excused
      BY <1>3 DEF AckedOnce
    <2>3. \A i, j \in 1..Len(inbox') : i # j /\ inbox'[i] = inbox'[j] => inbox'[i] \in excused
      BY <1>3 DEF AckedOnce
    <2>4. hand' \in handled => hand' \in excused
      BY <1>3 DEF AckedOnce
    <2>5. QED
      BY <1>1, <2>1, <2>2, <2>3, <2>4 DEF AckedOnce
  <1>9. QED
    BY <1>5, <1>6, <1>7, <1>8

\* The timer commits what was handed out.
LEMMA AutoCommitInv == ASSUME AckedInv, Acked!AutoCommit PROVE AckedInv'
  <1> USE DEF AckedInv, Acked!AutoCommit, Acked!brokerVars, Acked!clientVars, Acked!pastVars
  <1>1. AckedTyped' /\ Held' /\ JetStream' /\ Cuts'
    BY DEF AckedTyped, Held, JetStream, Cuts
  <1>2. Kafka'
    BY DEF AckedTyped, Kafka, Acked!IsKafka
  <1>3. AckedOnce'
    BY DEF AckedOnce, Behind, Acked!IsKafka
  <1>4. QED
    BY <1>1, <1>2, <1>3

\* The message in hand becomes a handled one.
LEMMA ProcessMessageInv == ASSUME AckedInv, Acked!ProcessMessage PROVE AckedInv'
  <1> USE DEF AckedInv, Acked!brokerVars, Acked!ackVars
  <1>1. /\ hand # 0 /\ handled' = handled \cup {hand}
        /\ again' = again \cup ({hand} \cap handled)
        /\ toAck' = (IF mode = "jetstream" THEN hand ELSE 0) /\ hand' = 0
        /\ UNCHANGED <<Acked!brokerVars, running, stops, position, inbox, Acked!ackVars, cut,
                       excused>>
    BY DEF Acked!ProcessMessage
  <1>2. hand \in Message /\ running /\ hand <= position /\ inbox \in Seq(Message)
    BY <1>1 DEF AckedTyped, Held, Message
  <1>3. AckedTyped' /\ Held' /\ JetStream' /\ Cuts'
    BY <1>1, <1>2 DEF AckedTyped, Held, JetStream, Cuts, Message
  <1>4. Kafka'
    BY <1>1, <1>2 DEF Kafka, Acked!IsKafka
  <1>5. AckedOnce'
    <2>1. Behind(hand)
      BY <1>1, <1>2, Modal DEF Behind, Kafka, AckedTyped
    <2>2. \A x : Behind(x) => Behind(x)'
      BY <1>1 DEF Behind, Acked!IsKafka
    <2>3. \A x \in handled' : x \in excused' \/ Behind(x)'
      BY <1>1, <2>1, <2>2 DEF AckedOnce
    <2>4. \A i \in 1..Len(inbox) : inbox[i] \in handled' \cup {0} => inbox[i] \in excused
      BY <1>1, <1>2 DEF AckedOnce, Message
    <2>5. 0 \notin handled' /\ again' \subseteq excused
      BY <1>1, <1>2 DEF AckedOnce, AckedTyped, Message
    <2>6. QED
      BY <1>1, <2>3, <2>4, <2>5 DEF AckedOnce
  <1>6. QED
    BY <1>3, <1>4, <1>5

\* An acknowledged message was handled.
LEMMA AckInv == ASSUME AckedInv, Acked!Ack PROVE AckedInv'
  <1> USE DEF AckedInv, Acked!brokerVars, Acked!pastVars
  <1>1. /\ toAck # 0 /\ toAck' = 0 /\ acked' \in {acked, acked \cup {toAck}}
        /\ UNCHANGED <<Acked!brokerVars, running, stops, position, inbox, hand, offset, committed,
                       Acked!pastVars>>
    BY DEF Acked!Ack
  <1>2. AckedTyped' /\ Held' /\ JetStream' /\ Cuts'
    BY <1>1 DEF AckedTyped, Held, JetStream, Cuts
  <1>3. Kafka'
    BY <1>1 DEF Kafka, Acked!IsKafka
  <1>4. AckedOnce'
    <2>1. \A x : Behind(x) => Behind(x)'
      BY <1>1 DEF Behind, Acked!IsKafka
    <2>2. QED
      BY <1>1, <2>1 DEF AckedOnce
  <1>5. QED
    BY <1>2, <1>3, <1>4

\* Whatever was handled and is delivered again is excused when the process ends,
\* but by Kafka's commit on leaving the group.
LEMMA AckedStopInv == ASSUME AckedInv, Acked!Stop PROVE AckedInv'
  <1> USE DEF AckedInv, Acked!brokerVars
  <1>1. /\ running /\ hand = 0 /\ toAck = 0 /\ running' = FALSE /\ stops' = stops + 1
        /\ committed' = (IF mode = "kafka" THEN offset ELSE committed)
        /\ inbox' = <<>>
        /\ excused' = (IF mode = "kafka" THEN excused ELSE excused \cup (handled \ Acked!Gone))
        /\ UNCHANGED <<Acked!brokerVars, position, hand, toAck, acked, offset, handled, cut, again>>
    BY DEF Acked!Stop
  <1>2. AckedTyped' /\ Held' /\ JetStream'
    BY <1>1 DEF AckedTyped, Held, JetStream
  <1>3. Cuts'
    <2>1. Cardinality(cut) \in Nat
      BY FS_CardinalityType DEF Cuts
    <2>2. QED
      BY <1>1, <2>1 DEF Cuts, AckedTyped
  <1>4. Kafka'
    BY <1>1 DEF Kafka, Acked!IsKafka, AckedTyped
  <1>5. AckedOnce'
    <2>1. CASE mode = "kafka"
      BY <1>1, <2>1 DEF AckedOnce, Behind, Acked!IsKafka
    <2>2. CASE mode # "kafka"
      <3>1. \A m \in handled : m \in Acked!Gone => Behind(m)'
        BY <1>1, <2>2, Modal DEF Acked!Gone, Behind, Acked!IsKafka, AckedTyped, Message
      <3>2. QED
        BY <1>1, <2>2, <3>1 DEF AckedOnce
    <2>3. QED
      BY <2>1, <2>2
  <1>6. QED
    BY <1>2, <1>3, <1>4, <1>5

\* A crash drops the message in hand.
LEMMA CrashInv == ASSUME AckedInv, Acked!Crash PROVE AckedInv'
  <1> USE DEF AckedInv, Acked!brokerVars, Acked!ackVars
  <1>1. /\ running /\ running' = FALSE /\ stops' = stops + 1
        /\ cut' = cut \cup ({hand} \ {0})
        /\ excused' = excused \cup (handled \ Acked!Gone)
        /\ inbox' = <<>> /\ hand' = 0 /\ toAck' = 0
        /\ UNCHANGED <<Acked!brokerVars, position, Acked!ackVars, handled, again>>
    BY DEF Acked!Crash
  <1>2. AckedTyped' /\ Held' /\ JetStream'
    BY <1>1 DEF AckedTyped, Held, JetStream
  <1>3. Cuts'
    <2>1. Cardinality(cut) \in Nat /\ IsFiniteSet(cut)
      BY FS_CardinalityType DEF Cuts
    <2>2. /\ IsFiniteSet(cut \cup {hand})
          /\ Cardinality(cut \cup {hand}) \in {Cardinality(cut), Cardinality(cut) + 1}
      BY <2>1, FS_AddElement
    <2>3. cut' = cut \/ cut' = cut \cup {hand}
      BY <1>1
    <2>4. IsFiniteSet(cut') /\ Cardinality(cut') \in {Cardinality(cut), Cardinality(cut) + 1}
      BY <2>1, <2>2, <2>3
    <2>5. stops \in Nat /\ Cardinality(cut) <= stops /\ stops' = stops + 1
      BY <1>1 DEF Cuts, AckedTyped
    <2>6. Cardinality(cut') <= stops'
      BY <2>1, <2>4, <2>5
    <2>7. QED
      BY <2>4, <2>6 DEF Cuts
  <1>4. Kafka'
    <2>1. mode = "kafka" => 1..offset \subseteq handled \cup cut' \cup {0}
      BY <1>1 DEF Kafka, AckedTyped
    <2>2. QED
      BY <1>1, <2>1 DEF Kafka, Acked!IsKafka
  <1>5. AckedOnce'
    <2>1. \A m \in handled : m \in Acked!Gone => Behind(m)'
      BY <1>1, Modal DEF Acked!Gone, Behind, Acked!IsKafka, AckedTyped, Message
    <2>2. 0 \notin handled
      BY DEF AckedTyped, Message
    <2>3. QED
      BY <1>1, <2>1, <2>2 DEF AckedOnce
  <1>6. QED
    BY <1>2, <1>3, <1>4, <1>5

\* A start resumes after what the broker knows.
LEMMA AckedStartInv == ASSUME AckedInv, Acked!Start PROVE AckedInv'
  <1> USE DEF AckedInv, Acked!brokerVars, Acked!pastVars
  <1>1. /\ ~running /\ running' = TRUE
        /\ position' = (CASE mode = "core" -> position [] mode = "jetstream" -> 0
                          [] OTHER -> committed)
        /\ offset' = committed
        /\ UNCHANGED <<Acked!brokerVars, stops, inbox, hand, toAck, acked, committed,
                       Acked!pastVars>>
    BY DEF Acked!Start
  <1>2. inbox = <<>> /\ hand = 0 /\ toAck = 0 /\ Len(inbox) = 0
    BY <1>1 DEF Held
  <1>3. AckedTyped' /\ Held' /\ JetStream' /\ Cuts'
    BY <1>1, <1>2, Modal DEF AckedTyped, Held, JetStream, Cuts
  <1>4. Kafka'
    <2>1. /\ Acked!IsKafka' = Acked!IsKafka
          /\ Acked!IsKafka => position' = committed /\ committed <= offset
      BY <1>1, Modal DEF Kafka, Acked!IsKafka
    <2>2. mode = "kafka" => 1..committed \subseteq handled \cup cut \cup {hand}
      BY <2>1 DEF Kafka, AckedTyped, Acked!IsKafka
    <2>3. QED
      BY <1>1, <1>2, <2>1, <2>2 DEF Kafka, AckedTyped
  <1>5. AckedOnce'
    <2>1. \A m : Behind(m) => Behind(m)'
      BY <1>1, Modal DEF Behind, Acked!IsKafka
    <2>2. QED
      BY <1>1, <1>2, <2>1 DEF AckedOnce
  <1>6. QED
    BY <1>3, <1>4, <1>5

\* What a broker does not deliver again follows from the invariant.
LEMMA InvAcked == ASSUME AckedInv PROVE Acked!AckedIsHandled
  <1>1. mode = "jetstream" => Acked!Gone \subseteq handled
    BY DEF AckedInv, JetStream, Acked!Gone, Acked!IsKafka
  <1>2. mode = "kafka" => Acked!Gone \subseteq handled \cup cut \cup {hand}
    BY DEF AckedInv, Kafka, Acked!Gone, Acked!IsKafka, AckedTyped
  <1>3. mode = "kafka_uncommitted" => Acked!Gone = {}
    BY DEF AckedInv, Kafka, Acked!Gone, Acked!IsKafka
  <1>4. Acked!Cardinality(cut) <= stops
    BY DEF AckedInv, Cuts, Acked!Cardinality, Cardinality
  <1>5. QED
    BY <1>1, <1>2, <1>3, <1>4 DEF AckedInv, AckedOnce, Acked!AckedIsHandled

\* JetStream loses no message, Kafka's timer one per crash at most, and a message
\* is handled again only after a crash or a lost acknowledgement, never after a
\* stop between two messages (nats/mod.rs:168, kafka/mod.rs:112): for any number
\* of messages, any prefetch and any number of crashes and stops.
THEOREM Acknowledged == Spec => []AckedIsHandled
  <1> DEFINE Inv == part = "acked" => AckedInv
  <1>1. Init => Inv
    BY AckedInitInv DEF Init
  <1>2. Inv /\ [Next]_vars => Inv'
    <2> SUFFICES ASSUME part' = "acked", Inv, [Next]_vars PROVE AckedInv'
      OBVIOUS
    <2>1. CASE UNCHANGED vars
      BY <2>1 DEF vars, ofAcked, AckedInv, AckedTyped, Held, JetStream, Kafka, AckedOnce, Cuts,
                  Acked!IsKafka, Behind
    <2>2. CASE AckedNext
      <3>1. AckedInv /\ Acked!Next
        BY <2>2 DEF AckedNext
      <3>2. CASE \E m \in 1..MaxMessages : Acked!Redeliver(m)
        BY <3>1, <3>2, RedeliverInv
      <3>3. QED
        BY <3>1, <3>2, PublishInv, DeliverInv, TakeInv, AutoCommitInv, ProcessMessageInv, AckInv,
           AckedStopInv, CrashInv, AckedStartInv DEF Acked!Next
    <2>3. QED
      BY <2>1, <2>2 DEF Next, ScanNext, RowsNext, FetchNext
  <1>3. Inv => AckedIsHandled
    BY InvAcked DEF AckedIsHandled
  <1>4. QED
    BY <1>1, <1>2, <1>3, PTL DEF Spec
=============================================================================
