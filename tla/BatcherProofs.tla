--------------------------- MODULE BatcherProofs ---------------------------
(***************************************************************************)
(* Proofs about the batcher, for every batch size, every number of events, *)
(* restarts and disk faults, with and without a spool.                     *)
(***************************************************************************)
EXTENDS Batcher, SequenceTheorems, TLAPS
-----------------------------------------------------------------------------
(***************************************************************************)
(* The elements a sequence holds.                                          *)
(***************************************************************************)

\* An element of the range sits at some position.
LEMMA RangeIndex ==
    ASSUME NEW S, NEW s \in Seq(S), NEW x
    PROVE  x \in Range(s) <=> \E j \in 1..Len(s) : x = s[j]
  BY DEF Range

\* The empty sequence holds nothing.
LEMMA RangeEmpty == Range(<<>>) = {}
  BY DEF Range

\* Append adds the appended element.
LEMMA RangeAppend ==
    ASSUME NEW S, NEW s \in Seq(S), NEW e \in S
    PROVE  /\ Append(s, e) \in Seq(S)
           /\ Len(Append(s, e)) = Len(s) + 1
           /\ Range(Append(s, e)) = Range(s) \cup {e}
  <1> DEFINE t == Append(s, e)
  <1>1. /\ t \in Seq(S) /\ Len(t) = Len(s) + 1
        /\ \A j \in 1..Len(s) : t[j] = s[j]
        /\ t[Len(s) + 1] = e
    BY AppendProperties
  <1> HIDE DEF t
  <1>2. ASSUME NEW x PROVE x \in Range(t) <=> x \in Range(s) \cup {e}
    <2>1. x \in Range(t) <=> \E j \in 1..Len(t) : x = t[j]
      BY <1>1, RangeIndex
    <2>2. x \in Range(s) <=> \E j \in 1..Len(s) : x = s[j]
      BY RangeIndex
    <2>3. Len(s) \in Nat
      BY LenProperties
    <2>4. QED
      BY <1>1, <2>1, <2>2, <2>3
  <1>3. QED
    BY <1>1, <1>2 DEF t

\* Cutting a sequence in two loses nothing.
LEMMA RangeSplit ==
    ASSUME NEW S, NEW s \in Seq(S), NEW n \in 0..Len(s)
    PROVE  /\ SubSeq(s, 1, n) \in Seq(S)
           /\ SubSeq(s, n + 1, Len(s)) \in Seq(S)
           /\ Len(SubSeq(s, 1, n)) = n
           /\ Range(SubSeq(s, 1, n)) = {s[j] : j \in 1..n}
           /\ Range(SubSeq(s, n + 1, Len(s))) = {s[j] : j \in (n + 1)..Len(s)}
           /\ Range(s) = Range(SubSeq(s, 1, n)) \cup Range(SubSeq(s, n + 1, Len(s)))
  <1> DEFINE a == SubSeq(s, 1, n)
             b == SubSeq(s, n + 1, Len(s))
  <1>0. Len(s) \in Nat /\ n \in Nat /\ \A j \in 1..Len(s) : s[j] \in S
    BY LenProperties, ElementOfSeq
  <1>1. /\ a \in Seq(S) /\ Len(a) = n
        /\ \A j \in 1..n : a[j] = s[j]
    BY <1>0, SubSeqProperties, SMTT(20)
  <1>2. /\ b \in Seq(S) /\ Len(b) = Len(s) - n
        /\ \A j \in 1..(Len(s) - n) : b[j] = s[n + j]
    <2>1. \A j \in (n + 1)..Len(s) : s[j] \in S
      BY <1>0
    <2>2. n + 1 \in Int /\ Len(s) \in Int
      BY <1>0
    <2>3. /\ b \in Seq(S) /\ Len(b) = IF n + 1 <= Len(s) THEN Len(s) - (n + 1) + 1 ELSE 0
          /\ \A j \in 1..(Len(s) - (n + 1) + 1) : b[j] = s[(n + 1) + j - 1]
      BY <2>1, <2>2, SubSeqProperties
    <2> HIDE DEF b
    <2>4. \A j \in 1..(Len(s) - n) : (n + 1) + j - 1 = n + j
      BY <1>0
    <2>5. Len(s) - (n + 1) + 1 = Len(s) - n
      BY <1>0
    <2>6. Len(b) = Len(s) - n
      BY <1>0, <2>3
    <2>7. ASSUME NEW j \in 1..(Len(s) - n) PROVE b[j] = s[n + j]
      BY <2>3, <2>4, <2>5
    <2>8. QED
      BY <2>3, <2>6, <2>7
  <1> HIDE DEF a, b
  <1>3. Range(a) = {s[j] : j \in 1..n}
    <2>1. ASSUME NEW x PROVE x \in Range(a) <=> \E j \in 1..n : x = a[j]
      BY <1>1, RangeIndex
    <2>2. QED
      BY <1>1, <2>1
  <1>4. Range(b) = {s[j] : j \in (n + 1)..Len(s)}
    <2>1. ASSUME NEW x PROVE x \in Range(b) <=> \E j \in 1..(Len(s) - n) : x = b[j]
      BY <1>2, RangeIndex
    <2>2. ASSUME NEW x, NEW j \in (n + 1)..Len(s), x = s[j]
          PROVE  x \in Range(b)
      <3>1. j - n \in 1..(Len(s) - n) /\ n + (j - n) = j
        BY <1>0
      <3>2. QED
        BY <1>2, <2>1, <2>2, <3>1
    <2>3. ASSUME NEW x, x \in Range(b)
          PROVE  \E j \in (n + 1)..Len(s) : x = s[j]
      <3>1. PICK j \in 1..(Len(s) - n) : x = b[j]
        BY <2>1, <2>3
      <3>2. n + j \in (n + 1)..Len(s) /\ x = s[n + j]
        BY <1>0, <1>2, <3>1
      <3>3. QED
        BY <3>2
    <2>4. QED
      BY <2>2, <2>3
  <1>5. Range(s) = {s[j] : j \in 1..n} \cup {s[j] : j \in (n + 1)..Len(s)}
    <2>1. ASSUME NEW x PROVE x \in Range(s) <=> \E j \in 1..Len(s) : x = s[j]
      BY RangeIndex
    <2>2. 1..Len(s) = 1..n \cup (n + 1)..Len(s)
      BY <1>0
    <2>3. QED
      BY <2>1, <2>2
  <1>6. QED
    BY <1>1, <1>2, <1>3, <1>4, <1>5 DEF a, b

\* Dropping the head loses at most the head.
LEMMA RangeTail ==
    ASSUME NEW S, NEW s \in Seq(S), s # <<>>
    PROVE  /\ Tail(s) \in Seq(S)
           /\ Range(s) = {Head(s)} \cup Range(Tail(s))
  <1> DEFINE t == Tail(s)
  <1>1. /\ t \in Seq(S) /\ Len(t) = Len(s) - 1
        /\ \A j \in 1..Len(t) : t[j] = s[j + 1]
    BY HeadTailProperties
  <1>2. Head(s) = s[1] /\ Len(s) \in Nat \ {0}
    BY EmptySeq
  <1> HIDE DEF t
  <1>3. ASSUME NEW x PROVE x \in Range(s) <=> x = s[1] \/ x \in Range(t)
    <2>1. x \in Range(s) <=> \E j \in 1..Len(s) : x = s[j]
      BY RangeIndex
    <2>2. x \in Range(t) <=> \E j \in 1..Len(t) : x = t[j]
      BY <1>1, RangeIndex
    <2>3. ASSUME NEW j \in 1..Len(s), x = s[j], j # 1
          PROVE  j - 1 \in 1..Len(t) /\ x = t[j - 1]
      BY <1>1, <1>2, <2>3
    <2>4. ASSUME NEW j \in 1..Len(t), x = t[j]
          PROVE  j + 1 \in 1..Len(s) /\ x = s[j + 1]
      BY <1>1, <1>2, <2>4
    <2>5. 1 \in 1..Len(s)
      BY <1>2
    <2>6. QED
      BY <2>1, <2>2, <2>3, <2>4, <2>5
  <1>4. QED
    BY <1>1, <1>2, <1>3 DEF t

-----------------------------------------------------------------------------
(***************************************************************************)
(* Type correctness.                                                       *)
(***************************************************************************)

\* The initial state is well typed.
LEMMA InitType == Init => TypeOK
  <1> SUFFICES ASSUME Init PROVE TypeOK
    OBVIOUS
  <1>1. Len(<<>>) = 0 /\ \A S : <<>> \in Seq(S)
    BY EmptySeq
  <1>2. /\ items \in [Slots -> Seq(Item)] /\ spool \in [Slots -> Seq(Item)]
        /\ chan \in Seq(Cmd) /\ Len(chan) <= BatchMaxSize /\ cmds \in Seq(Cmd)
        /\ taken \in Seq(Item) /\ stored \in 0..Len(taken)
    BY <1>1, BatcherAssumption DEF Init
  <1>3. active \in Slots /\ copies \in [Item -> Nat]
    BY DEF Init, Slots
  <1>4. QED
    BY <1>2, <1>3, BatcherAssumption DEF Init, TypeOK

\* The sink task keeps the types; it waits for room in the channel.
LEMMA SinkType == TypeOK /\ Sink => TypeOK'
  <1> SUFFICES ASSUME TypeOK, Sink PROVE TypeOK'
    OBVIOUS
  <1> USE BatcherAssumption DEF TypeOK, sinkVars, writerVars, bufferVars, drainVars,
          targetVars, historyVars, boundVars
  <1>1. CASE Push
    <2>1. accepted + 1 \in Cmd /\ accepted + 1 \in 0..MaxItems
      BY <1>1 DEF Push, Cmd, Item
    <2>2. chan' \in Seq(Cmd) /\ Len(chan') = Len(chan) + 1
      BY <1>1, <2>1, RangeAppend DEF Push
    <2>3. Len(chan') <= BatchMaxSize
      BY <1>1, <2>2 DEF Push
    <2>4. QED
      BY <1>1, <2>1, <2>2, <2>3 DEF Push
  <1>2. CASE RequestFlush
    <2>1. chan' \in Seq(Cmd) /\ Len(chan') = Len(chan) + 1
      BY <1>2, RangeAppend DEF RequestFlush, Cmd
    <2>2. QED
      BY <1>2, <2>1 DEF RequestFlush
  <1>3. CASE SinkExit
    BY <1>3 DEF SinkExit
  <1>4. QED
    BY <1>1, <1>2, <1>3 DEF Sink

\* The group of pushes the writer handles is a sequence of events, and what it
\* leaves is the rest of its commands.
LEMMA WriterGroup ==
    ASSUME TypeOK, NEW n \in 1..Len(cmds), \A j \in 1..n : cmds[j] # Flush
    PROVE  /\ SubSeq(cmds, 1, n) \in Seq(Item)
           /\ SubSeq(cmds, n + 1, Len(cmds)) \in Seq(Cmd)
           /\ Len(SubSeq(cmds, 1, n)) = n
           /\ Range(cmds) = Range(SubSeq(cmds, 1, n))
                                \cup Range(SubSeq(cmds, n + 1, Len(cmds)))
           /\ Flush \notin Range(SubSeq(cmds, 1, n))
  <1>1. cmds \in Seq(Cmd) /\ Len(cmds) \in Nat /\ n \in 0..Len(cmds)
    BY DEF TypeOK
  <1>2. \A j \in 1..n : cmds[j] \in Item
    BY <1>1 DEF Cmd
  <1>3. SubSeq(cmds, 1, n) \in Seq(Item)
    BY <1>1, <1>2, SubSeqProperties
  <1>4. Range(SubSeq(cmds, 1, n)) = {cmds[j] : j \in 1..n}
    BY <1>1, RangeSplit
  <1>5. Flush \notin Range(SubSeq(cmds, 1, n))
    BY <1>4
  <1>6. Len(SubSeq(cmds, 1, n)) = n /\ SubSeq(cmds, n + 1, Len(cmds)) \in Seq(Cmd)
    BY <1>1, SubSeqProperties
  <1>7. Range(cmds) = Range(SubSeq(cmds, 1, n)) \cup Range(SubSeq(cmds, n + 1, Len(cmds)))
    BY <1>1, RangeSplit
  <1>8. QED
    BY <1>3, <1>5, <1>6, <1>7

\* Whatever happens to the write, the spool still holds sequences of events.
LEMMA SpoolAppendType ==
    ASSUME TypeOK, NEW k \in Slots, NEW group \in Seq(Item), SpoolAppend(k, group)
    PROVE  /\ spool' \in [Slots -> Seq(Item)]
           /\ unspooled' \in SUBSET Item
           /\ diskFaults' \in 0..MaxDiskFaults
           /\ \A j \in Slots \ {k} : spool'[j] = spool[j]
           /\ Range(spool[k]) \subseteq Range(spool'[k])
           /\ Range(spool'[k]) \subseteq Range(spool[k]) \cup Range(group)
           /\ Spooling => Range(group) \subseteq Range(spool'[k]) \cup unspooled'
           /\ unspooled \subseteq unspooled'
  <1>0. /\ spool \in [Slots -> Seq(Item)] /\ unspooled \in SUBSET Item
        /\ diskFaults \in 0..MaxDiskFaults /\ MaxDiskFaults \in Nat
    BY BatcherAssumption DEF TypeOK
  <1>1. spool[k] \in Seq(Item) /\ Range(group) \subseteq Item
    BY <1>0, RangeOfSeq
  <1>2. CASE ~Spooling /\ UNCHANGED <<spool, unspooled, diskFaults>>
    BY <1>0, <1>2
  <1>3. CASE /\ Spooling
             /\ spool' = [spool EXCEPT ![k] = @ \o group]
             /\ UNCHANGED <<unspooled, diskFaults>>
    <2>1. spool[k] \o group \in Seq(Item)
      BY <1>1, ConcatProperties
    <2>2. Range(spool[k] \o group) = Range(spool[k]) \cup Range(group)
      BY <1>1, RangeConcatenation
    <2>3. QED
      BY <1>0, <1>1, <1>3, <2>1, <2>2
  <1>4. CASE /\ Spooling /\ diskFaults < MaxDiskFaults
             /\ \E n \in 0..Len(group) :
                   spool' = [spool EXCEPT ![k] = @ \o SubSeq(group, 1, n)]
             /\ unspooled' = unspooled \cup Range(group)
             /\ diskFaults' = diskFaults + 1
    <2>1. PICK n \in 0..Len(group) :
              spool' = [spool EXCEPT ![k] = @ \o SubSeq(group, 1, n)]
      BY <1>4
    <2>2. /\ SubSeq(group, 1, n) \in Seq(Item)
          /\ Range(SubSeq(group, 1, n)) \subseteq Range(group)
      BY RangeSplit
    <2>3. spool[k] \o SubSeq(group, 1, n) \in Seq(Item)
      BY <1>1, <2>2, ConcatProperties
    <2>4. Range(spool[k] \o SubSeq(group, 1, n))
              = Range(spool[k]) \cup Range(SubSeq(group, 1, n))
      BY <1>1, <2>2, RangeConcatenation
    <2>5. QED
      BY <1>0, <1>1, <1>4, <2>1, <2>2, <2>3, <2>4
  <1>5. QED
    BY <1>2, <1>3, <1>4 DEF SpoolAppend

\* The writer keeps the types.
LEMMA WriterType == TypeOK /\ Writer => TypeOK'
  <1> SUFFICES ASSUME TypeOK, Writer PROVE TypeOK'
    OBVIOUS
  <1> USE BatcherAssumption DEF sinkVars, writerVars, bufferVars, drainVars,
          targetVars, historyVars, boundVars
  <1>1. CASE WriterRecv
    <2>1. Len(<<>>) = 0 /\ <<>> \in Seq(Cmd)
      BY EmptySeq
    <2>2. QED
      BY <1>1, <2>1 DEF WriterRecv, TypeOK
  <1>2. CASE WriterPush
    <2>1. PICK n \in 1..Len(cmds) :
              /\ \A j \in 1..n : cmds[j] # Flush
              /\ cmds' = SubSeq(cmds, n + 1, Len(cmds))
              /\ items' = [items EXCEPT ![active] = @ \o SubSeq(cmds, 1, n)]
              /\ SpoolAppend(active, SubSeq(cmds, 1, n))
              /\ notified' = (notified \/ Len(items[active]) + n >= BatchMaxSize)
      BY <1>2 DEF WriterPush
    <2>2. SubSeq(cmds, 1, n) \in Seq(Item) /\ cmds' \in Seq(Cmd)
      BY <2>1, WriterGroup
    <2>3. items[active] \o SubSeq(cmds, 1, n) \in Seq(Item)
      BY <2>2, ConcatProperties DEF TypeOK
    <2>4. items' \in [Slots -> Seq(Item)]
      BY <2>1, <2>3 DEF TypeOK
    <2>5. /\ spool' \in [Slots -> Seq(Item)] /\ unspooled' \in SUBSET Item
          /\ diskFaults' \in 0..MaxDiskFaults
      BY <2>1, <2>2, SpoolAppendType DEF TypeOK
    <2>6. notified' \in BOOLEAN
      BY <2>1
    <2>7. QED
      BY <1>2, <2>2, <2>4, <2>5, <2>6 DEF WriterPush, TypeOK
  <1>3. CASE WriterForwardFlush
    <2>1. cmds' \in Seq(Cmd)
      BY <1>3, RangeTail DEF WriterForwardFlush, TypeOK
    <2>2. QED
      BY <1>3, <2>1 DEF WriterForwardFlush, TypeOK
  <1>4. CASE WriterExit
    BY <1>4 DEF WriterExit, TypeOK
  <1>5. QED
    BY <1>1, <1>2, <1>3, <1>4 DEF Writer

\* What becomes of the flusher and of the sink task when a drain returns.
LEMMA ReturnedType ==
    ASSUME TypeOK, NEW ok \in BOOLEAN, Returned(ok)
    PROVE  /\ pc' \in {"drain", "store", "check", "idle", "stopped"} /\ pc' # "store"
           /\ sinkPc' \in {"receiving", "flushing", "flushed", "exited"}
           /\ flushFailed' \in BOOLEAN
  BY DEF TypeOK, Returned, DrainOver

\* One of the slots is active and the other one is sealed.
LEMMA SlotsSwap ==
    ASSUME TypeOK
    PROVE  /\ Sealed \in Slots /\ Sealed # active /\ Slots = {active, Sealed}
           /\ SwappedActive \in Slots /\ 1 - SwappedActive \in Slots
           /\ Slots = {SwappedActive, 1 - SwappedActive}
           /\ SwappedActive # 1 - SwappedActive
  <1>1. active \in {0, 1}
    BY DEF TypeOK, Slots
  <1>2. SwappedActive \in {0, 1}
    BY <1>1 DEF SwappedActive, Sealed
  <1>3. QED
    BY <1>1, <1>2 DEF Slots, Sealed

\* A chunk is a non-empty piece of what was taken.
LEMMA ChunkFacts ==
    ASSUME TypeOK, stored < Len(taken)
    PROVE  /\ ChunkEnd \in (stored + 1)..Len(taken)
           /\ Chunk \subseteq Range(taken)
           /\ Chunk \subseteq Item
           /\ \A j \in (stored + 1)..ChunkEnd : taken[j] \in Chunk
  <1>1. taken \in Seq(Item) /\ Len(taken) \in Nat /\ stored \in Nat
    BY DEF TypeOK
  <1>2. ChunkEnd \in (stored + 1)..Len(taken)
    BY <1>1, BatcherAssumption DEF ChunkEnd
  <1>3. \A j \in (stored + 1)..ChunkEnd : taken[j] \in Range(taken)
    BY <1>1, <1>2, RangeIndex
  <1>4. Range(taken) \subseteq Item
    BY <1>1, RangeOfSeq
  <1>5. QED
    BY <1>2, <1>3, <1>4 DEF Chunk

\* What is put back is the part of what was taken that is not stored yet.
LEMMA LeftoverFacts ==
    ASSUME TypeOK
    PROVE  /\ Leftover \in Seq(Item)
           /\ Range(Leftover) = {taken[j] : j \in (stored + 1)..Len(taken)}
           /\ Range(Leftover) \subseteq Range(taken)
           /\ Range(taken) = Range(Leftover) \cup {taken[j] : j \in 1..stored}
  BY RangeSplit DEF TypeOK, Leftover

\* The flusher and the target keep the types.
LEMMA FlusherType == TypeOK /\ (Flusher \/ Store) => TypeOK'
  <1> SUFFICES ASSUME TypeOK, Flusher \/ Store PROVE TypeOK'
    OBVIOUS
  <1> USE BatcherAssumption DEF sinkVars, writerVars, bufferVars, drainVars,
          targetVars, historyVars, boundVars
  <1>0. <<>> \in Seq(Item) /\ Len(<<>>) = 0
    BY EmptySeq
  <1>1. CASE WakeTimer
    BY <1>1 DEF WakeTimer, StartDrain, TypeOK
  <1>2. CASE WakeNotified
    BY <1>2 DEF WakeNotified, StartDrain, TypeOK
  <1>3. CASE WakeFlush
    BY <1>3 DEF WakeFlush, StartDrain, TypeOK
  <1>4. CASE WakeClosed
    BY <1>4 DEF WakeClosed, StartDrain, TypeOK
  <1>5. CASE DrainSealed
    <2>1. /\ SwappedActive \in Slots /\ 1 - SwappedActive \in Slots
      BY SlotsSwap
    <2>2. /\ active' \in Slots
          /\ taken' \in Seq(Item) /\ stored' \in 0..Len(taken')
          /\ items' \in [Slots -> Seq(Item)]
      BY <1>0, <1>5, <2>1 DEF DrainSealed, TypeOK
    <2>3. /\ pc' \in {"drain", "store", "check", "idle", "stopped"}
          /\ sinkPc' \in {"receiving", "flushing", "flushed", "exited"}
          /\ flushFailed' \in BOOLEAN
      <3>1. CASE Returned(TRUE)
        BY <3>1, ReturnedType
      <3>2. CASE pc' = "store" /\ UNCHANGED <<sinkPc, flushFailed>>
        BY <3>2 DEF TypeOK
      <3>3. QED
        BY <1>5, <3>1, <3>2 DEF DrainSealed
    <2>4. QED
      BY <1>5, <2>2, <2>3 DEF DrainSealed, TypeOK
  <1>6. CASE DrainDone
    <2>1. /\ pc' \in {"drain", "store", "check", "idle", "stopped"}
          /\ sinkPc' \in {"receiving", "flushing", "flushed", "exited"}
          /\ flushFailed' \in BOOLEAN
      BY <1>6, ReturnedType DEF DrainDone
    <2>2. spool' \in [Slots -> Seq(Item)] /\ diskFaults' \in 0..MaxDiskFaults
      <3>1. TruncateSpool(Sealed)
        BY <1>6 DEF DrainDone
      <3>2. /\ spool \in [Slots -> Seq(Item)] /\ diskFaults \in 0..MaxDiskFaults
        BY DEF TypeOK
      <3>3. CASE spool' = [spool EXCEPT ![Sealed] = <<>>] /\ UNCHANGED diskFaults
        BY <1>0, <3>2, <3>3
      <3>4. CASE diskFaults < MaxDiskFaults /\ diskFaults' = diskFaults + 1 /\ UNCHANGED spool
        BY <3>2, <3>4
      <3>5. QED
        BY <3>1, <3>3, <3>4 DEF TruncateSpool
    <2>3. taken' \in Seq(Item) /\ stored' \in 0..Len(taken')
      BY <1>0, <1>6 DEF DrainDone
    <2>4. QED
      BY <1>6, <2>1, <2>2, <2>3 DEF DrainDone, TypeOK
  <1>7. CASE DrainAllCheck
    BY <1>7 DEF DrainAllCheck, DrainOver, TypeOK
  <1>8. CASE StoreChunk
    <2>1. ChunkEnd \in 0..Len(taken) /\ Chunk \subseteq Item
      BY <1>8, ChunkFacts DEF StoreChunk, TypeOK
    <2>2. copies' \in [Item -> Nat] /\ rejected' \in SUBSET Item
      BY <1>8, <2>1 DEF StoreChunk, TypeOK
    <2>3. QED
      BY <1>8, <2>1, <2>2 DEF StoreChunk, TypeOK
  <1>9. CASE StoreFails
    <2>1. Chunk \subseteq Item /\ Leftover \in Seq(Item)
      BY <1>9, ChunkFacts, LeftoverFacts DEF StoreFails
    <2>2. /\ pc' \in {"drain", "store", "check", "idle", "stopped"}
          /\ sinkPc' \in {"receiving", "flushing", "flushed", "exited"}
          /\ flushFailed' \in BOOLEAN
      BY <1>9, ReturnedType DEF StoreFails
    <2>3. copies' \in [Item -> Nat]
      BY <1>9 DEF StoreFails, TypeOK
    <2>4. items' \in [Slots -> Seq(Item)]
      BY <1>9, <2>1 DEF StoreFails, TypeOK
    <2>5. taken' \in Seq(Item) /\ stored' \in 0..Len(taken')
      BY <1>0, <1>9 DEF StoreFails
    <2>6. repeatable' \in SUBSET Item
      BY <1>9, <2>1 DEF StoreFails, TypeOK
    <2>7. QED
      BY <1>9, <2>2, <2>3, <2>4, <2>5, <2>6 DEF StoreFails, TypeOK
  <1>10. QED
    BY <1>1, <1>2, <1>3, <1>4, <1>5, <1>6, <1>7, <1>8, <1>9 DEF Flusher, Store

\* The end of the process and a restart keep the types.
LEMMA LifeType == TypeOK /\ (ProcessEnds \/ Restart) => TypeOK'
  <1> SUFFICES ASSUME TypeOK, ProcessEnds \/ Restart PROVE TypeOK'
    OBVIOUS
  <1> USE BatcherAssumption DEF sinkVars, writerVars, bufferVars, drainVars,
          targetVars, historyVars, boundVars
  <1>0. Len(<<>>) = 0 /\ \A S : <<>> \in Seq(S)
    BY EmptySeq
  <1>1. CASE ProcessEnds
    <2>1. /\ items' \in [Slots -> Seq(Item)]
          /\ chan' \in Seq(Cmd) /\ Len(chan') <= BatchMaxSize /\ cmds' \in Seq(Cmd)
          /\ taken' \in Seq(Item) /\ stored' \in 0..Len(taken')
      BY <1>0, <1>1 DEF ProcessEnds
    <2>2. active' \in Slots
      BY <1>1 DEF ProcessEnds, Slots
    <2>3. QED
      BY <1>1, <2>1, <2>2 DEF ProcessEnds, TypeOK
  <1>2. CASE Restart
    <2>1. Spooled \subseteq Item
      BY RangeOfSeq DEF Spooled, TypeOK, Slots
    <2>2. repeatable' \in SUBSET Item
      BY <1>2, <2>1 DEF Restart, TypeOK
    <2>3. /\ accepted' \in 0..MaxItems /\ runStart' \in 0..accepted'
          /\ restarts' \in 0..MaxRestarts
      BY <1>2 DEF Restart, TypeOK
    <2>4. items' \in [Slots -> Seq(Item)] /\ spool' \in [Slots -> Seq(Item)]
      BY <1>2 DEF Restart, TypeOK
    <2>5. /\ chan' \in Seq(Cmd) /\ Len(chan') <= BatchMaxSize /\ cmds' \in Seq(Cmd)
          /\ taken' \in Seq(Item) /\ stored' \in 0..Len(taken')
      BY <1>2 DEF Restart, TypeOK
    <2>6. QED
      BY <1>2, <2>2, <2>3, <2>4, <2>5 DEF Restart, TypeOK
  <1>3. QED
    BY <1>1, <1>2

\* The variables of the batcher keep their types; the channel never holds more
\* than batch_max_size commands.
THEOREM TypeCorrect == Spec => []TypeOK
  <1>1. TypeOK /\ [Next]_vars => TypeOK'
    <2> SUFFICES ASSUME TypeOK, [Next]_vars PROVE TypeOK'
      OBVIOUS
    <2>1. CASE Next
      BY <2>1, SinkType, WriterType, FlusherType, LifeType DEF Next
    <2>2. CASE UNCHANGED vars
      BY <2>2 DEF vars, TypeOK
    <2>3. QED
      BY <2>1, <2>2
  <1>2. QED
    BY <1>1, InitType, PTL DEF Spec
-----------------------------------------------------------------------------
(***************************************************************************)
(* The inductive invariant.                                                *)
(***************************************************************************)

\* What the flusher took out of the sealed slot, and nothing is left of a run
\* that is over.
DrainInv ==
    /\ pc # "store" => taken = <<>>
    /\ pc = "store" => items[Sealed] = <<>>
    /\ \A j \in 1..stored : taken[j] \in Settled
    /\ ~up => chan = <<>> /\ cmds = <<>> /\ pc = "drain"

\* What is in the spool file of a slot and not settled is in the slot, or was
\* taken from it: the file may be emptied once these are settled.
SpoolOwed ==
    up => \A k \in Slots :
              Range(spool[k]) \subseteq Settled \cup Range(items[k])
                                   \cup (IF k = Sealed THEN Range(taken) ELSE {})

\* Every event of the current run is in memory or settled.
RunOwed == up => (runStart + 1)..accepted \subseteq InMemory \cup Settled

\* Only events that were pushed are anywhere.
Known == InMemory \cup Spooled \cup Settled \subseteq 1..accepted

IInv == TypeOK /\ DrainInv /\ SpoolOwed /\ RunOwed /\ Known /\ SlotItemsSpooled

\* The part of the invariant that depends on the slots.
SlotInv == DrainInv /\ SpoolOwed /\ SlotItemsSpooled

\* The initial state satisfies the invariant.
LEMMA InitInv == Init => IInv
  <1> SUFFICES ASSUME Init PROVE IInv
    OBVIOUS
  <1>1. TypeOK
    BY InitType
  <1>2. Settled = {}
    BY DEF Init, Settled
  <1>3. /\ Range(chan) = {} /\ Range(cmds) = {} /\ Range(taken) = {}
        /\ \A k \in Slots : Range(items[k]) = {} /\ Range(spool[k]) = {}
    BY RangeEmpty DEF Init
  <1>4. InMemory = {} /\ Spooled = {}
    BY <1>3 DEF InMemory, Spooled, Slots
  <1>5. (runStart + 1)..accepted = {}
    BY DEF Init
  <1>6. DrainInv
    BY DEF Init, DrainInv
  <1>7. QED
    BY <1>1, <1>2, <1>3, <1>4, <1>5, <1>6
       DEF IInv, SpoolOwed, RunOwed, Known, SlotItemsSpooled

\* Steps that leave slots, spool, flusher and target alone keep the slot part.
LEMMA SlotsUntouched ==
    ASSUME SlotInv, up, up',
           UNCHANGED <<items, spool, active, taken, stored, copies, rejected, unspooled>>,
           pc' = pc \/ (pc # "store" /\ pc' # "store")
    PROVE  SlotInv' /\ Spooled' = Spooled /\ Settled' = Settled
  BY DEF SlotInv, DrainInv, SpoolOwed, SlotItemsSpooled, Spooled, Settled, Sealed

\* A push adds one event to the channel, a flush adds none.
LEMMA SinkEffect ==
    ASSUME IInv, Sink
    PROVE  /\ SlotInv' /\ Spooled' = Spooled /\ Settled' = Settled /\ up /\ up'
           /\ runStart' = runStart
           /\ \/ Push /\ InMemory' = InMemory \cup {accepted + 1}
              \/ accepted' = accepted /\ InMemory' = InMemory
  <1> USE DEF sinkVars, writerVars, bufferVars, drainVars, targetVars, historyVars,
              boundVars
  <1>0. TypeOK /\ SlotInv
    BY DEF IInv, SlotInv
  <1>1. CASE Push
    <2>1. Range(chan') = Range(chan) \cup {accepted + 1} /\ accepted + 1 # Flush
      <3>1. accepted + 1 \in Cmd /\ accepted + 1 # Flush
        BY <1>0, <1>1, BatcherAssumption DEF Push, TypeOK, Cmd, Item, Flush
      <3>2. QED
        BY <1>0, <1>1, <3>1, RangeAppend DEF Push, TypeOK
    <2>2. InMemory' = InMemory \cup {accepted + 1}
      BY <1>1, <2>1 DEF Push, InMemory
    <2>3. QED
      BY <1>0, <1>1, <2>2, SlotsUntouched DEF Push
  <1>2. CASE RequestFlush
    <2>1. Range(chan') = Range(chan) \cup {Flush}
      <3>1. chan \in Seq(Cmd) /\ Flush \in Cmd
        BY <1>0 DEF TypeOK, Cmd
      <3>2. Range(Append(chan, Flush)) = Range(chan) \cup {Flush}
        BY <3>1, RangeAppend
      <3>3. QED
        BY <1>2, <3>2 DEF RequestFlush
    <2>2. InMemory' = InMemory
      BY <1>2, <2>1 DEF RequestFlush, InMemory
    <2>3. QED
      BY <1>0, <1>2, <2>2, SlotsUntouched DEF RequestFlush
  <1>3. CASE SinkExit
    BY <1>0, <1>3, SlotsUntouched DEF SinkExit, InMemory
  <1>4. QED
    BY <1>1, <1>2, <1>3 DEF Sink

\* The writer moves events without losing one, and adds to the spool only what
\* it moves.
LEMMA WriterEffect ==
    ASSUME IInv, Writer
    PROVE  /\ SlotInv' /\ Settled' = Settled /\ up /\ up'
           /\ runStart' = runStart /\ accepted' = accepted
           /\ InMemory' = InMemory
           /\ Spooled \subseteq Spooled' /\ Spooled' \subseteq Spooled \cup InMemory
  <1> USE DEF sinkVars, writerVars, bufferVars, drainVars, targetVars, historyVars,
              boundVars
  <1>0. TypeOK /\ SlotInv
    BY DEF IInv, SlotInv
  <1>1. CASE WriterRecv
    <2>1. InMemory' = InMemory
      <3>1. /\ Range(cmds) = {} /\ Range(cmds') = Range(chan) /\ Range(chan') = {}
            /\ items' = items /\ taken' = taken
        BY <1>1, RangeEmpty DEF WriterRecv
      <3>2. QED
        BY <3>1 DEF InMemory
    <2>2. QED
      BY <1>0, <1>1, <2>1, SlotsUntouched DEF WriterRecv
  <1>2. CASE WriterPush
    <2>1. PICK n \in 1..Len(cmds) :
              /\ \A j \in 1..n : cmds[j] # Flush
              /\ cmds' = SubSeq(cmds, n + 1, Len(cmds))
              /\ items' = [items EXCEPT ![active] = @ \o SubSeq(cmds, 1, n)]
              /\ SpoolAppend(active, SubSeq(cmds, 1, n))
      BY <1>2 DEF WriterPush
    <2> DEFINE group == SubSeq(cmds, 1, n)
    <2>2. /\ group \in Seq(Item)
          /\ Range(cmds) = Range(group) \cup Range(cmds')
          /\ Flush \notin Range(group)
      BY <1>0, <2>1, WriterGroup
    <2>3. /\ active \in Slots /\ Slots = {active, Sealed} /\ active # Sealed
          /\ items \in [Slots -> Seq(Item)]
      BY <1>0, SlotsSwap DEF TypeOK
    <2>4. /\ \A j \in Slots \ {active} : spool'[j] = spool[j]
          /\ Range(spool[active]) \subseteq Range(spool'[active])
          /\ Range(spool'[active]) \subseteq Range(spool[active]) \cup Range(group)
          /\ Spooling => Range(group) \subseteq Range(spool'[active]) \cup unspooled'
          /\ unspooled \subseteq unspooled'
      <3>1. SpoolAppend(active, group)
        BY <2>1
      <3> HIDE DEF group
      <3>2. QED
        BY <1>0, <2>2, <2>3, <3>1, SpoolAppendType
    <2>5. /\ Range(items'[active]) = Range(items[active]) \cup Range(group)
          /\ items'[Sealed] = items[Sealed]
      <3>1. Range(items[active] \o group) = Range(items[active]) \cup Range(group)
        <4>1. items[active] \in Seq(Item)
          BY <2>3
        <4> HIDE DEF group
        <4>2. QED
          BY <2>2, <4>1, RangeConcatenation
      <3>2. QED
        BY <2>1, <2>3, <3>1
    <2> HIDE DEF group
    <2>6. /\ active' = active /\ Sealed' = Sealed /\ taken' = taken /\ stored' = stored
          /\ pc' = pc /\ Settled' = Settled /\ up /\ up' /\ chan' = chan
          /\ accepted' = accepted /\ runStart' = runStart
      BY <1>2 DEF WriterPush, Sealed, Settled
    <2>7. /\ InMemory = ((Range(chan) \cup Range(cmds)) \ {Flush})
                \cup Range(items[active]) \cup Range(items[Sealed]) \cup Range(taken)
          /\ InMemory' = ((Range(chan) \cup Range(cmds')) \ {Flush})
                \cup Range(items'[active]) \cup Range(items'[Sealed]) \cup Range(taken)
          /\ Spooled = Range(spool[active]) \cup Range(spool[Sealed])
          /\ Spooled' = Range(spool'[active]) \cup Range(spool'[Sealed])
      BY <2>3, <2>6 DEF InMemory, Spooled, Slots
    <2>8. InMemory' = InMemory
      BY <2>2, <2>5, <2>7
    <2>9. spool'[Sealed] = spool[Sealed]
      BY <2>3, <2>4
    <2>10. Spooled \subseteq Spooled' /\ Spooled' \subseteq Spooled \cup InMemory
      BY <2>2, <2>4, <2>7, <2>9
    <2>11. DrainInv'
      BY <1>0, <2>5, <2>6 DEF SlotInv, DrainInv
    <2>12. SpoolOwed'
      <3>1. /\ Range(spool[active]) \subseteq Settled \cup Range(items[active])
            /\ Range(spool[Sealed]) \subseteq Settled \cup Range(items[Sealed]) \cup Range(taken)
        BY <1>0, <2>3, <2>6 DEF SlotInv, SpoolOwed
      <3>2. QED
        BY <2>3, <2>4, <2>5, <2>6, <2>9, <3>1 DEF SpoolOwed
    <2>13. SlotItemsSpooled'
      <3>1. ASSUME Spooling
            PROVE  /\ Range(items[active]) \subseteq Range(spool[active]) \cup unspooled
                   /\ Range(items[Sealed]) \subseteq Range(spool[Sealed]) \cup unspooled
                   /\ Range(taken) \subseteq Range(spool[Sealed]) \cup unspooled
        BY <1>0, <2>3, <2>6, <3>1 DEF SlotInv, SlotItemsSpooled
      <3>2. ASSUME Spooling
            PROVE  /\ Range(items'[active]) \subseteq Range(spool'[active]) \cup unspooled'
                   /\ Range(items'[Sealed]) \subseteq Range(spool'[Sealed]) \cup unspooled'
                   /\ Range(taken') \subseteq Range(spool'[Sealed]) \cup unspooled'
        BY <2>4, <2>5, <2>6, <2>9, <3>1, <3>2
      <3>3. QED
        BY <2>3, <2>6, <3>2 DEF SlotItemsSpooled
    <2>14. QED
      BY <2>6, <2>8, <2>10, <2>11, <2>12, <2>13 DEF SlotInv
  <1>3. CASE WriterForwardFlush
    <2>1. Range(cmds) = {Flush} \cup Range(cmds')
      BY <1>0, <1>3, RangeTail DEF WriterForwardFlush, TypeOK
    <2>2. InMemory' = InMemory
      BY <1>3, <2>1 DEF WriterForwardFlush, InMemory
    <2>3. QED
      BY <1>0, <1>3, <2>2, SlotsUntouched DEF WriterForwardFlush
  <1>4. CASE WriterExit
    BY <1>0, <1>4, SlotsUntouched DEF WriterExit, InMemory
  <1>5. QED
    BY <1>1, <1>2, <1>3, <1>4 DEF Writer

\* The flusher loses nothing: it moves the sealed slot to its own hands, and it
\* empties a spool file only when all of it is settled.
LEMMA FlusherEffect ==
    ASSUME IInv, Flusher
    PROVE  /\ SlotInv' /\ Settled' = Settled /\ up /\ up'
           /\ runStart' = runStart /\ accepted' = accepted
           /\ InMemory' \subseteq InMemory /\ InMemory \subseteq InMemory' \cup Settled
           /\ Spooled' \subseteq Spooled /\ Spooled \subseteq Spooled' \cup Settled
  <1> USE DEF sinkVars, writerVars, bufferVars, drainVars, targetVars, historyVars,
              boundVars
  <1>0. TypeOK /\ SlotInv
    BY DEF IInv, SlotInv
  <1>1. ASSUME NEW why, StartDrain(why)
        PROVE  /\ SlotInv' /\ Settled' = Settled /\ up /\ up'
               /\ runStart' = runStart /\ accepted' = accepted
               /\ InMemory' = InMemory /\ Spooled' = Spooled
    <2>1. SlotInv' /\ Spooled' = Spooled /\ Settled' = Settled /\ up /\ up'
      BY <1>0, <1>1, SlotsUntouched DEF StartDrain
    <2>2. QED
      BY <1>1, <2>1 DEF StartDrain, InMemory
  <1>2. CASE WakeTimer \/ WakeNotified \/ WakeFlush \/ WakeClosed
    BY <1>1, <1>2 DEF WakeTimer, WakeNotified, WakeFlush, WakeClosed
  <1>3. CASE DrainAllCheck
    <2>1. pc # "store" /\ pc' # "store"
      BY <1>3 DEF DrainAllCheck, DrainOver
    <2>2. SlotInv' /\ Spooled' = Spooled /\ Settled' = Settled /\ up /\ up'
      BY <1>0, <1>3, <2>1, SlotsUntouched DEF DrainAllCheck
    <2>3. QED
      BY <1>3, <2>2 DEF DrainAllCheck, InMemory
  <1>4. CASE DrainSealed
    <2> DEFINE a == SwappedActive
               z == 1 - SwappedActive
    <2>1. a \in Slots /\ z \in Slots /\ Slots = {a, z} /\ a # z
      BY <1>0, SlotsSwap
    <2>2. /\ active' = a /\ taken' = items[z] /\ stored' = 0 /\ spool' = spool
          /\ items' = [items EXCEPT ![z] = <<>>]
          /\ unspooled' = unspooled /\ up /\ up' /\ pc = "drain"
          /\ accepted' = accepted /\ runStart' = runStart
          /\ chan' = chan /\ cmds' = cmds /\ Settled' = Settled
      BY <1>4 DEF DrainSealed, Settled
    <2>3. pc' # "store" => taken' = <<>>
      BY <1>4 DEF DrainSealed
    <2>4. Sealed' = z
      BY <2>2 DEF Sealed
    <2> HIDE DEF a, z
    <2>5. taken = <<>> /\ Range(taken) = {}
      BY <1>0, <2>2, RangeEmpty DEF SlotInv, DrainInv
    <2>6. /\ items'[a] = items[a] /\ items'[z] = <<>> /\ Range(items'[z]) = {}
      BY <1>0, <2>1, <2>2, RangeEmpty DEF TypeOK
    <2>7. /\ InMemory = ((Range(chan) \cup Range(cmds)) \ {Flush})
                \cup Range(items[a]) \cup Range(items[z]) \cup Range(taken)
          /\ InMemory' = ((Range(chan) \cup Range(cmds)) \ {Flush})
                \cup Range(items'[a]) \cup Range(items'[z]) \cup Range(taken')
          /\ Spooled' = Spooled
      BY <2>1, <2>2 DEF InMemory, Spooled, Slots
    <2>8. InMemory' = InMemory
      BY <2>2, <2>5, <2>6, <2>7
    <2>9. DrainInv'
      BY <2>2, <2>3, <2>4, <2>6 DEF DrainInv
    <2>10. SpoolOwed'
      <3>1. \A k \in Slots : Range(spool[k]) \subseteq Settled \cup Range(items[k])
        BY <1>0, <2>2, <2>5 DEF SlotInv, SpoolOwed
      <3>2. QED
        BY <2>1, <2>2, <2>4, <2>6, <3>1 DEF SpoolOwed
    <2>11. SlotItemsSpooled'
      <3>1. ASSUME Spooling
            PROVE  \A k \in Slots : Range(items[k]) \subseteq Range(spool[k]) \cup unspooled
        BY <1>0, <2>2, <3>1 DEF SlotInv, SlotItemsSpooled
      <3>2. ASSUME Spooling
            PROVE  /\ Range(items'[a]) \subseteq Range(spool[a]) \cup unspooled
                   /\ Range(items'[z]) \subseteq Range(spool[z]) \cup unspooled
                   /\ Range(taken') \subseteq Range(spool[z]) \cup unspooled
        BY <2>1, <2>2, <2>6, <3>1, <3>2
      <3>3. QED
        BY <2>1, <2>2, <2>4, <3>2 DEF SlotItemsSpooled
    <2>12. QED
      BY <2>2, <2>7, <2>8, <2>9, <2>10, <2>11 DEF SlotInv
  <1>5. CASE DrainDone
    <2>1. /\ active \in Slots /\ Sealed \in Slots /\ Slots = {active, Sealed}
          /\ active # Sealed /\ spool \in [Slots -> Seq(Item)]
      BY <1>0, SlotsSwap DEF TypeOK
    <2>2. /\ active' = active /\ Sealed' = Sealed /\ items' = items /\ taken' = <<>>
          /\ stored' = 0 /\ unspooled' = unspooled /\ up /\ up'
          /\ accepted' = accepted /\ runStart' = runStart /\ chan' = chan /\ cmds' = cmds
          /\ Settled' = Settled /\ pc = "store" /\ stored = Len(taken)
      BY <1>5 DEF DrainDone, Sealed, Settled
    <2>3. pc' # "store"
      BY <1>0, <1>5, ReturnedType DEF DrainDone
    <2>4. Range(taken) \subseteq Settled
      <3>1. \A j \in 1..Len(taken) : taken[j] \in Settled
        BY <1>0, <2>2 DEF SlotInv, DrainInv
      <3>2. taken \in Seq(Item)
        BY <1>0 DEF TypeOK
      <3>3. QED
        BY <3>1, <3>2, RangeIndex
    <2>5. items[Sealed] = <<>> /\ Range(items[Sealed]) = {} /\ Range(taken') = {}
      BY <1>0, <2>2, RangeEmpty DEF SlotInv, DrainInv
    <2>6. /\ spool'[active] = spool[active]
          /\ Range(spool'[Sealed]) \subseteq Range(spool[Sealed])
      <3>1. CASE spool' = spool
        BY <3>1
      <3>2. CASE spool' = [spool EXCEPT ![Sealed] = <<>>]
        BY <2>1, <3>2, RangeEmpty
      <3>3. QED
        BY <1>5, <3>1, <3>2 DEF DrainDone, TruncateSpool
    <2>7. /\ Range(spool[active]) \subseteq Settled \cup Range(items[active])
          /\ Range(spool[Sealed]) \subseteq Settled
      BY <1>0, <2>1, <2>2, <2>4, <2>5 DEF SlotInv, SpoolOwed
    <2>8. /\ InMemory = ((Range(chan) \cup Range(cmds)) \ {Flush})
                \cup Range(items[0]) \cup Range(items[1]) \cup Range(taken)
          /\ InMemory' = ((Range(chan) \cup Range(cmds)) \ {Flush})
                \cup Range(items[0]) \cup Range(items[1]) \cup Range(taken')
          /\ Spooled = Range(spool[active]) \cup Range(spool[Sealed])
          /\ Spooled' = Range(spool'[active]) \cup Range(spool'[Sealed])
      BY <2>1, <2>2 DEF InMemory, Spooled, Slots
    <2>9. InMemory' \subseteq InMemory /\ InMemory \subseteq InMemory' \cup Settled
      BY <2>4, <2>5, <2>8
    <2>10. Spooled' \subseteq Spooled /\ Spooled \subseteq Spooled' \cup Settled
      BY <2>6, <2>7, <2>8
    <2>11. DrainInv'
      BY <2>2, <2>3 DEF DrainInv
    <2>12. SpoolOwed'
      BY <2>1, <2>2, <2>5, <2>6, <2>7 DEF SpoolOwed
    <2>13. SlotItemsSpooled'
      <3>1. ASSUME Spooling
            PROVE  Range(items[active]) \subseteq Range(spool[active]) \cup unspooled
        BY <1>0, <2>1, <2>2, <3>1 DEF SlotInv, SlotItemsSpooled
      <3>2. QED
        BY <2>1, <2>2, <2>5, <2>6, <3>1 DEF SlotItemsSpooled
    <2>14. QED
      BY <2>2, <2>9, <2>10, <2>11, <2>12, <2>13 DEF SlotInv
  <1>6. QED
    BY <1>2, <1>3, <1>4, <1>5 DEF Flusher

\* A store call settles events the flusher holds; what it does not settle stays
\* in memory, and no file changes.
LEMMA StoreEffect ==
    ASSUME IInv, Store
    PROVE  /\ SlotInv' /\ up /\ up' /\ runStart' = runStart /\ accepted' = accepted
           /\ Spooled' = Spooled
           /\ Settled \subseteq Settled' /\ Settled' \subseteq Settled \cup InMemory
           /\ InMemory' \subseteq InMemory /\ InMemory \subseteq InMemory' \cup Settled'
  <1> USE DEF sinkVars, writerVars, bufferVars, drainVars, targetVars, historyVars,
              boundVars
  <1>0. TypeOK /\ SlotInv
    BY DEF IInv, SlotInv
  <1>1. /\ active \in Slots /\ Sealed \in Slots /\ Slots = {active, Sealed}
        /\ active # Sealed /\ items \in [Slots -> Seq(Item)]
    BY <1>0, SlotsSwap DEF TypeOK
  <1>2. /\ up /\ up' /\ runStart' = runStart /\ accepted' = accepted /\ spool' = spool
        /\ active' = active /\ Sealed' = Sealed /\ unspooled' = unspooled
        /\ chan' = chan /\ cmds' = cmds /\ Spooled' = Spooled /\ pc = "store"
        /\ stored < Len(taken)
    <2>1. CASE StoreChunk
      BY <2>1 DEF StoreChunk, Sealed, Spooled
    <2>2. CASE StoreFails
      BY <2>2 DEF StoreFails, Sealed, Spooled
    <2>3. QED
      BY <2>1, <2>2 DEF Store
  <1>3. /\ ChunkEnd \in (stored + 1)..Len(taken) /\ Chunk \subseteq Item
        /\ Chunk \subseteq Range(taken) /\ Range(taken) \subseteq InMemory
        /\ \A j \in (stored + 1)..ChunkEnd : taken[j] \in Chunk
    BY <1>0, <1>2, ChunkFacts DEF InMemory
  <1>4. copies \in [Item -> Nat] /\ stored \in Nat /\ Len(taken) \in Nat
    BY <1>0 DEF TypeOK
  <1>5. /\ Range(spool[active]) \subseteq Settled \cup Range(items[active])
        /\ Range(spool[Sealed]) \subseteq Settled \cup Range(items[Sealed]) \cup Range(taken)
    BY <1>0, <1>1, <1>2 DEF SlotInv, SpoolOwed
  <1>6. ASSUME Spooling
        PROVE  /\ Range(items[active]) \subseteq Range(spool[active]) \cup unspooled
               /\ Range(items[Sealed]) \subseteq Range(spool[Sealed]) \cup unspooled
               /\ Range(taken) \subseteq Range(spool[Sealed]) \cup unspooled
    BY <1>0, <1>1, <1>2, <1>6 DEF SlotInv, SlotItemsSpooled
  <1>7. items[Sealed] = <<>> /\ \A j \in 1..stored : taken[j] \in Settled
    BY <1>0, <1>2 DEF SlotInv, DrainInv
  <1>8. CASE StoreChunk
    <2>1. /\ items' = items /\ taken' = taken /\ pc' = pc /\ stored' = ChunkEnd
      BY <1>8 DEF StoreChunk
    <2>2. Settled' = Settled \cup Chunk
      <3>1. /\ rejected' = rejected \cup (Chunk \cap Refusable)
            /\ \A i \in Item : copies'[i] = IF i \in Chunk \ Refusable THEN copies[i] + 1
                                                                        ELSE copies[i]
        BY <1>8 DEF StoreChunk
      <3>2. \A i \in Item : copies'[i] > 0 <=> copies[i] > 0 \/ i \in Chunk \ Refusable
        BY <1>4, <3>1
      <3>3. QED
        BY <1>3, <3>1, <3>2 DEF Settled
    <2>3. InMemory' = InMemory
      BY <1>2, <2>1 DEF InMemory
    <2>4. DrainInv'
      <3>1. ASSUME NEW j \in 1..ChunkEnd PROVE taken[j] \in Settled'
        <4>1. CASE j <= stored
          BY <1>4, <1>7, <2>2, <4>1
        <4>2. CASE ~(j <= stored)
          <5>1. j \in (stored + 1)..ChunkEnd
            BY <1>3, <1>4, <4>2
          <5>2. QED
            BY <1>3, <2>2, <5>1
        <4>3. QED
          BY <4>1, <4>2
      <3>2. QED
        BY <1>2, <1>7, <2>1, <3>1 DEF DrainInv
    <2>5. SpoolOwed'
      BY <1>1, <1>2, <1>5, <2>1, <2>2 DEF SpoolOwed
    <2>6. SlotItemsSpooled'
      BY <1>1, <1>2, <1>6, <2>1 DEF SlotItemsSpooled
    <2>7. QED
      BY <1>2, <1>3, <2>2, <2>3, <2>4, <2>5, <2>6 DEF SlotInv
  <1>9. CASE StoreFails
    <2>1. items' = [items EXCEPT ![Sealed] = Leftover] /\ taken' = <<>> /\ stored' = 0
      BY <1>9 DEF StoreFails
    <2>2. pc' # "store"
      BY <1>0, <1>9, ReturnedType DEF StoreFails
    <2>3. Settled \subseteq Settled' /\ Settled' \subseteq Settled \cup Chunk
      <3>1. PICK S \in SUBSET {i \in Chunk \ Refusable : copies[i] < MaxCopies} :
                copies' = [i \in Item |-> IF i \in S THEN copies[i] + 1 ELSE copies[i]]
        BY <1>9 DEF StoreFails
      <3>2. \A i \in Item : copies'[i] > 0 <=> copies[i] > 0 \/ i \in S
        BY <1>4, <3>1
      <3>3. S \subseteq Chunk
        BY <3>1
      <3>4. rejected \subseteq rejected' /\ rejected' \subseteq rejected \cup Chunk
        BY <1>9 DEF StoreFails
      <3>5. QED
        BY <3>2, <3>3, <3>4 DEF Settled
    <2>4. /\ items'[active] = items[active] /\ items'[Sealed] = Leftover
          /\ Range(taken') = {} /\ Range(items[Sealed]) = {}
      BY <1>1, <1>7, <2>1, RangeEmpty
    <2>5. /\ Range(Leftover) \subseteq Range(taken)
          /\ Range(taken) \subseteq Range(Leftover) \cup Settled
      BY <1>0, <1>7, LeftoverFacts
    <2>6. /\ InMemory = ((Range(chan) \cup Range(cmds)) \ {Flush})
                \cup Range(items[active]) \cup Range(items[Sealed]) \cup Range(taken)
          /\ InMemory' = ((Range(chan) \cup Range(cmds)) \ {Flush})
                \cup Range(items'[active]) \cup Range(items'[Sealed]) \cup Range(taken')
      BY <1>1, <1>2 DEF InMemory, Slots
    <2>7. InMemory' \subseteq InMemory /\ InMemory \subseteq InMemory' \cup Settled'
      BY <2>3, <2>4, <2>5, <2>6
    <2>8. DrainInv'
      BY <1>2, <2>1, <2>2 DEF DrainInv
    <2>9. SpoolOwed'
      <3>1. /\ Range(spool'[active]) \subseteq Settled' \cup Range(items'[active])
            /\ Range(spool'[Sealed]) \subseteq Settled' \cup Range(items'[Sealed])
        BY <1>2, <1>5, <2>3, <2>4, <2>5
      <3>2. QED
        BY <1>1, <1>2, <3>1 DEF SpoolOwed
    <2>10. SlotItemsSpooled'
      <3>1. ASSUME Spooling
            PROVE  /\ Range(items'[active]) \subseteq Range(spool'[active]) \cup unspooled'
                   /\ Range(items'[Sealed]) \subseteq Range(spool'[Sealed]) \cup unspooled'
                   /\ Range(taken') \subseteq Range(spool'[Sealed]) \cup unspooled'
        BY <1>2, <1>6, <2>4, <2>5, <3>1
      <3>2. QED
        BY <1>1, <1>2, <3>1 DEF SlotItemsSpooled
    <2>11. QED
      BY <1>2, <1>3, <2>3, <2>7, <2>8, <2>9, <2>10 DEF SlotInv
  <1>10. QED
    BY <1>8, <1>9 DEF Store

\* The end of the process empties the memory, a restart fills it with the spool.
LEMMA LifeEffect ==
    ASSUME IInv, ProcessEnds \/ Restart
    PROVE  /\ SlotInv' /\ Spooled' = Spooled /\ Settled' = Settled
           /\ accepted' = accepted /\ Held' = Spooled
           /\ \/ up /\ ~up' /\ InMemory' = {}
              \/ ~up /\ up' /\ InMemory' = Spooled /\ runStart' = accepted
  <1> USE DEF sinkVars, writerVars, bufferVars, drainVars, targetVars, historyVars,
              boundVars
  <1>0. TypeOK /\ SlotInv
    BY DEF IInv, SlotInv
  <1>1. CASE ProcessEnds
    <2>1. /\ up /\ ~up' /\ chan' = <<>> /\ cmds' = <<>> /\ taken' = <<>> /\ pc' = "drain"
          /\ stored' = 0 /\ items' = [k \in Slots |-> <<>>] /\ accepted' = accepted
      BY <1>1 DEF ProcessEnds
    <2>2. Spooled' = Spooled /\ Settled' = Settled
      BY <1>1 DEF ProcessEnds, Spooled, Settled
    <2>3. InMemory' = {}
      BY <2>1, RangeEmpty DEF InMemory, Slots
    <2>4. SlotInv'
      BY <2>1 DEF SlotInv, DrainInv, SpoolOwed, SlotItemsSpooled
    <2>5. QED
      BY <2>1, <2>2, <2>3, <2>4 DEF Held
  <1>2. CASE Restart
    <2>1. /\ ~up /\ up' /\ chan' = chan /\ cmds' = cmds /\ taken' = taken /\ pc' = pc
          /\ stored' = stored /\ items' = spool /\ spool' = spool /\ accepted' = accepted
          /\ runStart' = accepted /\ active' = active
      BY <1>2 DEF Restart
    <2>2. Spooled' = Spooled /\ Settled' = Settled
      BY <1>2 DEF Restart, Spooled, Settled
    <2>3. /\ chan = <<>> /\ cmds = <<>> /\ pc = "drain" /\ taken = <<>>
          /\ \A j \in 1..stored : taken[j] \in Settled
      BY <1>0, <2>1 DEF SlotInv, DrainInv
    <2>4. Range(chan') = {} /\ Range(cmds') = {} /\ Range(taken') = {}
      BY <2>1, <2>3, RangeEmpty
    <2>5. InMemory' = Spooled
      BY <2>1, <2>4 DEF InMemory, Spooled
    <2>6. DrainInv'
      BY <2>1, <2>2, <2>3 DEF DrainInv
    <2>7. SpoolOwed' /\ SlotItemsSpooled'
      BY <2>1, <2>4 DEF SpoolOwed, SlotItemsSpooled
    <2>8. QED
      BY <2>1, <2>2, <2>5, <2>6, <2>7 DEF Held, SlotInv
  <1>3. QED
    BY <1>1, <1>2

\* Every step preserves the invariant.
LEMMA NextInv == IInv /\ [Next]_vars => IInv'
  <1> SUFFICES ASSUME IInv, [Next]_vars PROVE IInv'
    OBVIOUS
  <1>0. /\ TypeOK' /\ accepted \in Nat /\ runStart \in Nat
        /\ InMemory \cup Spooled \cup Settled \subseteq 1..accepted
        /\ up => (runStart + 1)..accepted \subseteq InMemory \cup Settled
    <2>1. TypeOK /\ Known /\ RunOwed
      BY DEF IInv
    <2>2. TypeOK'
      <3>1. CASE Next
        BY <2>1, <3>1, SinkType, WriterType, FlusherType, LifeType DEF Next
      <3>2. CASE UNCHANGED vars
        BY <2>1, <3>2 DEF vars, TypeOK
      <3>3. QED
        BY <3>1, <3>2
    <2>3. accepted \in Nat /\ runStart \in Nat
      BY <2>1, BatcherAssumption DEF TypeOK
    <2>4. QED
      BY <2>1, <2>2, <2>3 DEF Known, RunOwed
  <1>1. CASE Sink
    <2>1. /\ SlotInv' /\ Spooled' = Spooled /\ Settled' = Settled /\ up /\ up'
          /\ runStart' = runStart
      BY <1>1, SinkEffect
    <2>2. CASE Push /\ InMemory' = InMemory \cup {accepted + 1}
      <3>1. accepted' = accepted + 1
        BY <2>2 DEF Push
      <3>2. /\ 1..(accepted + 1) = 1..accepted \cup {accepted + 1}
            /\ (runStart + 1)..(accepted + 1)
                  \subseteq (runStart + 1)..accepted \cup {accepted + 1}
        BY <1>0
      <3>3. Known' /\ RunOwed'
        BY <1>0, <2>1, <2>2, <3>1, <3>2 DEF Known, RunOwed
      <3>4. QED
        BY <1>0, <2>1, <3>3 DEF IInv, SlotInv
    <2>3. CASE accepted' = accepted /\ InMemory' = InMemory
      BY <1>0, <2>1, <2>3 DEF IInv, SlotInv, Known, RunOwed
    <2>4. QED
      BY <1>1, <2>2, <2>3, SinkEffect
  <1>2. CASE Writer \/ Flusher \/ Store
    <2>1. /\ SlotInv' /\ up /\ up' /\ runStart' = runStart /\ accepted' = accepted
          /\ Settled \subseteq Settled' /\ Settled' \subseteq Settled \cup InMemory
          /\ InMemory' \subseteq InMemory /\ InMemory \subseteq InMemory' \cup Settled'
          /\ Spooled' \subseteq Spooled \cup InMemory
      BY <1>2, WriterEffect, FlusherEffect, StoreEffect
    <2>2. Known' /\ RunOwed'
      BY <1>0, <2>1 DEF Known, RunOwed
    <2>3. QED
      BY <1>0, <2>1, <2>2 DEF IInv, SlotInv
  <1>3. CASE ProcessEnds \/ Restart
    <2>1. /\ SlotInv' /\ Spooled' = Spooled /\ Settled' = Settled /\ accepted' = accepted
          /\ InMemory' \subseteq Spooled
          /\ up' => runStart' = accepted
      BY <1>3, LifeEffect
    <2>2. (accepted + 1)..accepted = {}
      BY <1>0
    <2>3. Known' /\ RunOwed'
      BY <1>0, <2>1, <2>2 DEF Known, RunOwed
    <2>4. QED
      BY <1>0, <2>1, <2>3 DEF IInv, SlotInv
  <1>4. CASE UNCHANGED vars
    BY <1>4 DEF IInv, vars, TypeOK, DrainInv, SpoolOwed, RunOwed, Known,
                SlotItemsSpooled, Settled, Spooled, InMemory, Sealed
  <1>5. QED
    BY <1>1, <1>2, <1>3, <1>4 DEF Next

\* The invariant holds of every reachable state.
THEOREM Invariance == Spec => []IInv
  BY InitInv, NextInv, PTL DEF Spec

\* No event pushed to the batcher or replayed by it is dropped while the process
\* runs: it is in the channel, with a task or in a slot until it is settled.
THEOREM NoLoss == Spec => []NoLossWhileRunning
  <1>1. IInv => NoLossWhileRunning
    <2> SUFFICES ASSUME IInv, up PROVE NoLossWhileRunning
      BY DEF NoLossWhileRunning
    <2>1. Slots = {0, 1} /\ Sealed \in Slots
      BY SlotsSwap DEF IInv, Slots
    <2>2. Spooled \subseteq InMemory \cup Settled
      <3>1. \A k \in Slots : 
                Range(spool[k]) \subseteq Settled \cup Range(items[k]) \cup Range(taken)
        BY DEF IInv, SpoolOwed
      <3>2. QED
        BY <2>1, <3>1 DEF Spooled, InMemory
    <2>3. QED
      BY <2>2 DEF IInv, RunOwed, NoLossWhileRunning, Held
  <1>2. QED
    BY <1>1, Invariance, PTL

\* With a spool, an event that left the channel is in the file of its slot until
\* that slot is stored, unless writing it failed.
THEOREM SlotsAreSpooled == Spec => []SlotItemsSpooled
  <1>1. IInv => SlotItemsSpooled
    BY DEF IInv
  <1>2. QED
    BY <1>1, Invariance, PTL
-----------------------------------------------------------------------------
(***************************************************************************)
(* Refinement of the reliable buffer.                                      *)
(***************************************************************************)

\* The initial states map to the initial state of the buffer.
LEMMA RefinesInit == Init => Buffer!BufferInit
  <1> SUFFICES ASSUME Init PROVE Buffer!BufferInit
    OBVIOUS
  <1>1. Settled = {}
    BY DEF Init, Settled
  <1>2. /\ Range(chan) = {} /\ Range(cmds) = {} /\ Range(taken) = {}
        /\ \A k \in Slots : Range(items[k]) = {} /\ Range(spool[k]) = {}
    BY RangeEmpty DEF Init
  <1>3. Held = {} /\ Spooled = {}
    BY <1>2 DEF Held, InMemory, Spooled, Slots
  <1>4. QED
    BY <1>1, <1>3 DEF Buffer!BufferInit

\* Every step of the batcher is a step of the buffer or changes nothing there.
LEMMA RefinesNext ==
    IInv /\ [Next]_vars => [Buffer!BufferNext]_(Buffer!bufferVars)
  <1> SUFFICES ASSUME IInv, [Next]_vars
               PROVE  \/ Buffer!BufferNext
                      \/ /\ (Held \ Settled)' = Held \ Settled
                         /\ Spooled' = Spooled
                         /\ Settled' = Settled
    BY DEF Buffer!bufferVars
  <1>1. CASE Sink
    <2>1. /\ Spooled' = Spooled /\ Settled' = Settled /\ up /\ up'
      BY <1>1, SinkEffect
    <2>2. CASE Push /\ InMemory' = InMemory \cup {accepted + 1}
      <3>1. accepted + 1 \in Item /\ accepted + 1 \notin InMemory \cup Settled
        <4>1. accepted \in 0..MaxItems /\ accepted < MaxItems
          BY <2>2 DEF Push, IInv, TypeOK
        <4>2. InMemory \cup Settled \subseteq 1..accepted
          BY DEF IInv, Known
        <4>3. QED
          BY <4>1, <4>2, BatcherAssumption DEF Item
      <3>2. (Held \ Settled)' = (Held \ Settled) \cup {accepted + 1}
        BY <2>1, <2>2, <3>1 DEF Held
      <3>3. Buffer!Accept(accepted + 1)
        BY <2>1, <3>1, <3>2 DEF Buffer!Accept, Held
      <3>4. QED
        BY <3>1, <3>3 DEF Buffer!BufferNext
    <2>3. CASE InMemory' = InMemory
      BY <2>1, <2>3 DEF Held
    <2>4. QED
      BY <1>1, <2>2, <2>3, SinkEffect
  <1>2. CASE Writer
    <2>1. /\ Settled' = Settled /\ up /\ up' /\ InMemory' = InMemory
          /\ Spooled \subseteq Spooled' /\ Spooled' \subseteq Spooled \cup InMemory
      BY <1>2, WriterEffect
    <2> DEFINE new == Spooled' \cap InMemory
    <2>2. new \in SUBSET ((Held \ Settled) \cup Settled)
      BY <2>1 DEF Held
    <2>3. Buffer!Save(new)
      BY <2>1 DEF Buffer!Save, Held
    <2>4. QED
      BY <2>2, <2>3 DEF Buffer!BufferNext
  <1>3. CASE Flusher
    <2>1. /\ Settled' = Settled /\ up /\ up'
          /\ InMemory' \subseteq InMemory /\ InMemory \subseteq InMemory' \cup Settled
          /\ Spooled' \subseteq Spooled /\ Spooled \subseteq Spooled' \cup Settled
      BY <1>3, FlusherEffect
    <2> DEFINE gone == Spooled \ Spooled'
    <2>2. gone \in SUBSET Settled
      BY <2>1
    <2>3. Buffer!Release(gone)
      BY <2>1 DEF Buffer!Release, Held
    <2>4. QED
      BY <2>2, <2>3 DEF Buffer!BufferNext
  <1>4. CASE Store
    <2>1. /\ up /\ up' /\ Spooled' = Spooled
          /\ Settled \subseteq Settled' /\ Settled' \subseteq Settled \cup InMemory
          /\ InMemory' \subseteq InMemory /\ InMemory \subseteq InMemory' \cup Settled'
      BY <1>4, StoreEffect
    <2> DEFINE new == Settled' \ Settled
    <2>2. new \in SUBSET (Held \ Settled)
      BY <2>1 DEF Held
    <2>3. Buffer!Settle(new)
      BY <2>1 DEF Buffer!Settle, Held
    <2>4. QED
      BY <2>2, <2>3 DEF Buffer!BufferNext
  <1>5. CASE ProcessEnds \/ Restart
    <2>1. /\ Spooled' = Spooled /\ Settled' = Settled /\ Held' = Spooled
      BY <1>5, LifeEffect
    <2>2. CASE up
      <3>1. Spooled \subseteq InMemory \cup Settled
        <4>1. Slots = {0, 1}
          BY DEF Slots
        <4>2. \A k \in Slots : 
                  Range(spool[k]) \subseteq Settled \cup Range(items[k]) \cup Range(taken)
          BY <2>2 DEF IInv, SpoolOwed
        <4>3. QED
          BY <4>1, <4>2 DEF Spooled, InMemory
      <3>2. (Held \ Settled)' = (Held \ Settled) \cap Spooled
        BY <2>1, <2>2, <3>1 DEF Held
      <3>3. Buffer!Crash
        BY <2>1, <3>2 DEF Buffer!Crash
      <3>4. QED
        BY <3>3 DEF Buffer!BufferNext
    <2>3. CASE ~up
      BY <2>1, <2>3 DEF Held
    <2>4. QED
      BY <2>2, <2>3
  <1>6. CASE UNCHANGED vars
    BY <1>6 DEF vars, Held, InMemory, Spooled, Settled
  <1>7. QED
    BY <1>1, <1>2, <1>3, <1>4, <1>5, <1>6 DEF Next

\* The batcher implements the reliable buffer: an event that was pushed stays owed
\* until it is settled, the spool forgets only settled events, and the end of the
\* process drops only events that no spool file holds.
THEOREM Refinement == Spec => ImplementsBuffer
  <1>1. Init => Buffer!BufferInit
    BY RefinesInit
  <1>2. IInv /\ [Next]_vars => [Buffer!BufferNext]_(Buffer!bufferVars)
    BY RefinesNext
  <1>3. QED
    BY <1>1, <1>2, Invariance, PTL DEF Spec, ImplementsBuffer, Buffer!BufferSpec
-----------------------------------------------------------------------------
(***************************************************************************)
(* Flushes are honest.                                                     *)
(***************************************************************************)

FlushIn(s) == \E i \in 1..Len(s) : s[i] = Flush

\* The flusher drains because of a flush.
Draining == wake = "flush" /\ pc \in {"drain", "store", "check"}

\* A flush is the last command, and in one place at a time: in a channel, in the
\* flusher's queue or with the flusher. Once it is there, no command is left.
FlushOnce ==
    /\ \A i \in 1..Len(chan) : chan[i] = Flush => i = Len(chan)
    /\ \A i \in 1..Len(cmds) : cmds[i] = Flush => i = Len(cmds) /\ chan = <<>>
    /\ FlushIn(chan) \/ FlushIn(cmds) => sinkPc = "flushing" /\ ~flushQueued /\ ~Draining
    /\ flushQueued => ~Draining
    /\ flushQueued \/ Draining => sinkPc = "flushing" /\ chan = <<>> /\ cmds = <<>>
    /\ sinkPc \in {"flushed", "exited"} => chan = <<>> /\ cmds = <<>>
    /\ ~up => ~flushQueued /\ wake = "startup"

\* The initial state has no flush under way.
LEMMA InitFlush == Init => FlushOnce /\ FlushHonest
  BY EmptySeq DEF Init, FlushOnce, FlushHonest, FlushIn, Draining

\* The sink asks for one flush, after its last push.
LEMMA SinkFlush == ASSUME IInv, FlushOnce, FlushHonest, Sink PROVE FlushOnce' /\ FlushHonest'
  <1> USE DEF sinkVars, writerVars, bufferVars, drainVars, targetVars, historyVars, boundVars
  <1>0. chan \in Seq(Cmd) /\ Len(chan) \in Nat /\ TypeOK
    BY DEF IInv, TypeOK
  <1>1. CASE Push
    <2>1. accepted + 1 \in Cmd /\ accepted + 1 # Flush
      BY <1>0, <1>1, BatcherAssumption DEF Push, TypeOK, Cmd, Item, Flush
    <2>2. /\ Len(chan') = Len(chan) + 1 /\ chan' # <<>>
          /\ \A i \in 1..Len(chan) : chan'[i] = chan[i]
          /\ chan'[Len(chan) + 1] # Flush
      BY <1>0, <1>1, <2>1, AppendProperties DEF Push
    <2>3. /\ up /\ up' /\ sinkPc = "receiving" /\ sinkPc' = sinkPc /\ cmds' = cmds
          /\ flushQueued' = flushQueued /\ wake' = wake /\ pc' = pc
      BY <1>1 DEF Push
    <2>4. ~FlushIn(chan) /\ ~FlushIn(cmds) /\ ~flushQueued /\ ~Draining
      BY <2>3 DEF FlushOnce
    <2>5. \A i \in 1..Len(chan') : chan'[i] # Flush
      BY <1>0, <2>2, <2>4 DEF FlushIn
    <2>6. FlushOnce'
      BY <2>3, <2>4, <2>5 DEF FlushOnce, FlushIn, Draining
    <2>7. QED
      BY <2>3, <2>6 DEF FlushHonest
  <1>2. CASE RequestFlush
    <2>1. /\ Len(chan') = Len(chan) + 1
          /\ \A i \in 1..Len(chan) : chan'[i] = chan[i]
      <3>1. Flush \in Cmd
        BY DEF Cmd
      <3>2. QED
        BY <1>0, <1>2, <3>1, AppendProperties DEF RequestFlush
    <2>2. /\ up /\ up' /\ sinkPc = "receiving" /\ sinkPc' = "flushing" /\ cmds' = cmds
          /\ flushQueued' = flushQueued /\ wake' = wake /\ pc' = pc
      BY <1>2 DEF RequestFlush
    <2>3. ~FlushIn(chan) /\ ~FlushIn(cmds) /\ ~flushQueued /\ ~Draining
      BY <2>2 DEF FlushOnce
    <2>4. \A i \in 1..Len(chan') : chan'[i] = Flush => i = Len(chan')
      BY <1>0, <2>1, <2>3 DEF FlushIn
    <2>5. FlushOnce'
      BY <2>2, <2>3, <2>4 DEF FlushOnce, FlushIn, Draining
    <2>6. QED
      BY <2>2, <2>5 DEF FlushHonest
  <1>3. CASE SinkExit
    <2>1. FlushOnce'
      BY <1>3 DEF SinkExit, FlushOnce, FlushIn, Draining
    <2>2. FlushHonest'
      BY <1>3 DEF SinkExit, FlushHonest, Spooled, Settled
    <2>3. QED
      BY <2>1, <2>2
  <1>4. QED
    BY <1>1, <1>2, <1>3 DEF Sink

\* The writer hands the flush on after the pushes before it.
LEMMA WriterFlush == ASSUME IInv, FlushOnce, FlushHonest, Writer PROVE FlushOnce' /\ FlushHonest'
  <1> USE DEF sinkVars, writerVars, bufferVars, drainVars, targetVars, historyVars, boundVars
  <1>0. /\ cmds \in Seq(Cmd) /\ Len(cmds) \in Nat /\ chan \in Seq(Cmd) /\ TypeOK
        /\ Len(<<>>) = 0
    BY DEF IInv, TypeOK
  <1>1. CASE WriterRecv
    <2>1. FlushOnce'
      BY <1>0, <1>1 DEF WriterRecv, FlushOnce, FlushIn, Draining
    <2>2. QED
      BY <1>1, <2>1 DEF WriterRecv, FlushOnce, FlushHonest
  <1>2. CASE WriterPush
    <2>1. PICK n \in 1..Len(cmds) : cmds' = SubSeq(cmds, n + 1, Len(cmds))
      BY <1>2 DEF WriterPush
    <2>2. Len(cmds') = Len(cmds) - n /\ \A i \in 1..Len(cmds') : cmds'[i] = cmds[n + i]
      BY <1>0, <2>1
    <2>3. /\ chan' = chan /\ sinkPc' = sinkPc /\ flushQueued' = flushQueued /\ wake' = wake
          /\ pc' = pc /\ cmds # <<>> /\ up'
      BY <1>0, <1>2, <2>1 DEF WriterPush
    <2>4. \A i \in 1..Len(cmds') : n + i \in 1..Len(cmds)
      BY <1>0, <2>2
    <2>5. FlushIn(cmds') => FlushIn(cmds)
      BY <2>2, <2>4 DEF FlushIn
    <2>6. \A i \in 1..Len(cmds') : cmds'[i] = Flush => i = Len(cmds') /\ chan = <<>>
      BY <1>0, <2>2, <2>4 DEF FlushOnce
    <2>7. ~(flushQueued \/ Draining) /\ sinkPc \notin {"flushed", "exited"}
      BY <2>3 DEF FlushOnce
    <2>8. FlushOnce'
      BY <2>3, <2>5, <2>6, <2>7 DEF FlushOnce, FlushIn, Draining
    <2>9. QED
      BY <2>3, <2>7, <2>8 DEF FlushHonest
  <1>3. CASE WriterForwardFlush
    <2>1. /\ cmds # <<>> /\ cmds[1] = Flush /\ cmds' = Tail(cmds) /\ chan' = chan
          /\ sinkPc' = sinkPc /\ flushQueued' /\ wake' = wake /\ pc' = pc
      BY <1>0, <1>3 DEF WriterForwardFlush
    <2>2. 1 = Len(cmds) /\ chan = <<>> /\ cmds' = <<>> /\ FlushIn(cmds)
      <3>1. 1 \in 1..Len(cmds)
        BY <1>0, <2>1
      <3>2. 1 = Len(cmds) /\ chan = <<>> /\ FlushIn(cmds)
        BY <2>1, <3>1 DEF FlushOnce, FlushIn
      <3>3. cmds' \in Seq(Cmd) /\ Len(cmds') = 0
        BY <1>0, <2>1, <3>2, HeadTailProperties
      <3>4. QED
        BY <3>2, <3>3, EmptySeq
    <2>3. sinkPc = "flushing" /\ ~Draining
      BY <2>2 DEF FlushOnce
    <2>4. /\ Len(chan') = 0 /\ Len(cmds') = 0 /\ ~Draining' /\ up /\ up'
          /\ sinkPc' = "flushing" /\ chan' = <<>> /\ cmds' = <<>>
      BY <1>0, <1>3, <2>1, <2>2, <2>3 DEF Draining, WriterForwardFlush
    <2>5. FlushOnce'
      BY <2>4 DEF FlushOnce, FlushIn
    <2>6. QED
      BY <2>4, <2>5 DEF FlushHonest
  <1>4. CASE WriterExit
    <2>1. FlushOnce'
      BY <1>4 DEF WriterExit, FlushOnce, FlushIn, Draining
    <2>2. FlushHonest'
      BY <1>4 DEF WriterExit, FlushHonest, Spooled, Settled
    <2>3. QED
      BY <2>1, <2>2
  <1>5. QED
    BY <1>1, <1>2, <1>3, <1>4 DEF Writer

\* Where a drain ends, the flush it was for is acknowledged.
LEMMA ReturnedFlush ==
    ASSUME TypeOK, FlushOnce, NEW ok \in BOOLEAN, Returned(ok) \/ DrainOver(ok),
           pc \in {"drain", "store", "check"}, up, up',
           UNCHANGED <<chan, cmds, flushQueued, wake>>
    PROVE  /\ FlushOnce'
           /\ sinkPc' = sinkPc \/ Draining
           /\ UNCHANGED <<sinkPc, flushFailed>> \/ (sinkPc' = "flushed" /\ flushFailed' = ~ok)
  <1>1. CASE DrainOver(ok) /\ wake = "flush"
    <2>1. Draining
      BY <1>1 DEF Draining
    <2>2. /\ ~flushQueued /\ chan = <<>> /\ cmds = <<>> /\ sinkPc' = "flushed" /\ pc' = "idle"
          /\ flushFailed' = ~ok
      BY <1>1, <2>1 DEF FlushOnce, DrainOver
    <2>3. Len(<<>>) = 0 /\ ~Draining'
      BY <2>2 DEF Draining
    <2>4. QED
      BY <2>1, <2>2, <2>3 DEF FlushOnce, FlushIn
  <1>2. CASE DrainOver(ok) /\ wake # "flush"
    <2>1. UNCHANGED <<sinkPc, flushFailed>> /\ ~Draining /\ ~Draining'
      BY <1>2 DEF DrainOver, Draining
    <2>2. QED
      BY <2>1 DEF FlushOnce, FlushIn
  <1>3. CASE pc' = "check" /\ UNCHANGED <<sinkPc, flushFailed>>
    <2>1. Draining' <=> Draining
      BY <1>3 DEF Draining
    <2>2. QED
      BY <1>3, <2>1 DEF FlushOnce, FlushIn
  <1>4. QED
    BY <1>1, <1>2, <1>3 DEF Returned

\* The flush is acknowledged once both slots are empty, or when a store call
\* failed: nothing was left to push by then.
LEMMA FlusherFlush ==
    ASSUME IInv, FlushOnce, FlushHonest, Flusher PROVE FlushOnce' /\ FlushHonest'
  <1> USE DEF sinkVars, writerVars, bufferVars, drainVars, targetVars, historyVars, boundVars
  <1>0. TypeOK
    BY DEF IInv
  <1>1. /\ Settled' = Settled /\ up /\ up' /\ runStart' = runStart /\ accepted' = accepted
        /\ Spooled' \subseteq Spooled
    BY FlusherEffect
  <1>2. ASSUME UNCHANGED <<sinkPc, flushFailed>> PROVE FlushHonest'
    BY <1>1, <1>2 DEF FlushHonest
  <1>3. CASE WakeTimer \/ WakeNotified \/ WakeClosed
    <2>1. ~Draining /\ ~Draining'
      BY <1>3 DEF WakeTimer, WakeNotified, WakeClosed, StartDrain, Draining
    <2>2. /\ UNCHANGED <<chan, cmds, sinkPc, flushQueued, flushFailed>>
      BY <1>3 DEF WakeTimer, WakeNotified, WakeClosed, StartDrain
    <2>3. FlushOnce'
      BY <1>1, <2>1, <2>2 DEF FlushOnce, FlushIn
    <2>4. QED
      BY <1>2, <2>2, <2>3
  <1>4. CASE WakeFlush
    <2>1. /\ flushQueued /\ flushQueued' = FALSE
          /\ UNCHANGED <<chan, cmds, sinkPc, flushFailed>>
      BY <1>4 DEF WakeFlush, StartDrain
    <2>2. sinkPc = "flushing" /\ chan = <<>> /\ cmds = <<>> /\ ~FlushIn(chan) /\ ~FlushIn(cmds)
      BY <2>1 DEF FlushOnce
    <2>3. FlushOnce'
      BY <1>1, <2>1, <2>2 DEF FlushOnce, FlushIn
    <2>4. QED
      BY <1>2, <2>1, <2>3
  <1>5. CASE DrainSealed
    <2>1. pc = "drain" /\ UNCHANGED <<chan, cmds, flushQueued, wake>>
      BY <1>5 DEF DrainSealed
    <2>2. CASE Returned(TRUE) /\ items[1 - SwappedActive] = <<>>
      <3>1. pc \in {"drain", "store", "check"}
        BY <2>1
      <3>2. FlushOnce'
        BY <1>0, <1>1, <2>1, <2>2, <3>1, ReturnedFlush
      <3>3. UNCHANGED <<sinkPc, flushFailed>>
        <4>1. sinkPc' = sinkPc \/ wake = "tick"
          BY <2>2 DEF Returned
        <4>2. QED
          BY <2>2 DEF Returned, DrainOver
      <3>4. QED
        BY <1>2, <3>2, <3>3
    <2>3. CASE pc' = "store" /\ UNCHANGED <<sinkPc, flushFailed>>
      <3>1. Draining' <=> Draining
        BY <2>1, <2>3 DEF Draining
      <3>2. FlushOnce'
        BY <1>1, <2>1, <2>3, <3>1 DEF FlushOnce, FlushIn
      <3>3. QED
        BY <1>2, <2>3, <3>2
    <2>4. QED
      BY <1>5, <2>2, <2>3 DEF DrainSealed
  <1>6. CASE DrainDone
    <2>1. /\ pc = "store" /\ UNCHANGED <<chan, cmds, flushQueued, wake>> /\ Returned(TRUE)
      BY <1>6 DEF DrainDone
    <2>2. FlushOnce'
      BY <1>0, <1>1, <2>1, ReturnedFlush
    <2>3. UNCHANGED <<sinkPc, flushFailed>>
      BY <2>1 DEF Returned, DrainOver
    <2>4. QED
      BY <1>2, <2>2, <2>3
  <1>7. CASE DrainAllCheck
    <2>1. pc = "check" /\ UNCHANGED <<chan, cmds, flushQueued, wake>>
      BY <1>7 DEF DrainAllCheck
    <2>2. CASE items[0] = <<>> /\ items[1] = <<>> /\ DrainOver(TRUE)
      <3>1. FlushOnce'
        BY <1>0, <1>1, <2>1, <2>2, ReturnedFlush
      <3>2. CASE wake = "flush"
        <4>1. chan = <<>> /\ cmds = <<>> /\ taken = <<>>
          BY <2>1, <3>2 DEF FlushOnce, Draining, IInv, DrainInv
        <4>2. InMemory = {}
          BY <2>2, <4>1, RangeEmpty DEF InMemory
        <4>3. (runStart + 1)..accepted \subseteq Settled
          BY <1>1, <4>2 DEF IInv, RunOwed
        <4>4. Spooled \subseteq Settled
          <5>1. \A k \in {0, 1} : Range(spool[k]) \subseteq Settled
            BY <1>1, <2>2, <4>1, RangeEmpty DEF IInv, SpoolOwed, Slots
          <5>2. QED
            BY <5>1 DEF Spooled
        <4>5. FlushHonest'
          BY <1>1, <4>3, <4>4 DEF FlushHonest
        <4>6. QED
          BY <3>1, <4>5
      <3>3. CASE wake # "flush"
        BY <1>2, <2>2, <3>1, <3>3 DEF DrainOver
      <3>4. QED
        BY <3>2, <3>3
    <2>3. CASE pc' = "drain" /\ UNCHANGED <<sinkPc, flushFailed>>
      <3>1. Draining' <=> Draining
        BY <2>1, <2>3 DEF Draining
      <3>2. FlushOnce'
        BY <1>1, <2>1, <2>3, <3>1 DEF FlushOnce, FlushIn
      <3>3. QED
        BY <1>2, <2>3, <3>2
    <2>4. QED
      BY <1>7, <2>2, <2>3 DEF DrainAllCheck
  <1>8. QED
    BY <1>3, <1>4, <1>5, <1>6, <1>7 DEF Flusher

\* A store call settles more; one that fails during a flush is owned up to.
LEMMA StoreFlush == ASSUME IInv, FlushOnce, FlushHonest, Store PROVE FlushOnce' /\ FlushHonest'
  <1> USE DEF sinkVars, writerVars, bufferVars, drainVars, targetVars, historyVars, boundVars
  <1>1. /\ Settled \subseteq Settled' /\ up /\ up' /\ runStart' = runStart
        /\ accepted' = accepted /\ Spooled' = Spooled /\ TypeOK
    BY StoreEffect DEF IInv
  <1>2. ASSUME UNCHANGED <<sinkPc, flushFailed>> PROVE FlushHonest'
    BY <1>1, <1>2 DEF FlushHonest
  <1>3. CASE StoreChunk
    <2>1. UNCHANGED <<sinkPc, flushFailed, chan, cmds, flushQueued, wake, pc>>
      BY <1>3 DEF StoreChunk
    <2>2. FlushOnce'
      BY <1>1, <2>1 DEF FlushOnce, FlushIn, Draining
    <2>3. QED
      BY <1>2, <2>1, <2>2
  <1>4. CASE StoreFails
    <2>1. pc = "store" /\ UNCHANGED <<chan, cmds, flushQueued, wake>> /\ Returned(FALSE)
      BY <1>4 DEF StoreFails
    <2>2. /\ FlushOnce'
          /\ UNCHANGED <<sinkPc, flushFailed>> \/ (sinkPc' = "flushed" /\ flushFailed' = ~FALSE)
      BY <1>1, <2>1, ReturnedFlush
    <2>3. CASE flushFailed'
      BY <2>2, <2>3 DEF FlushHonest
    <2>4. QED
      BY <1>2, <2>2, <2>3
  <1>5. QED
    BY <1>3, <1>4 DEF Store

\* Nothing is flushed while the process is down, or when it starts.
LEMMA LifeFlush ==
    ASSUME IInv, FlushOnce, FlushHonest, ProcessEnds \/ Restart PROVE FlushOnce' /\ FlushHonest'
  <1> USE DEF sinkVars, writerVars, bufferVars, drainVars, targetVars, historyVars, boundVars
  <1>0. Len(<<>>) = 0
    BY EmptySeq
  <1>1. CASE ProcessEnds
    <2>1. /\ chan' = <<>> /\ cmds' = <<>> /\ ~flushQueued' /\ wake' = "startup" /\ ~up'
      BY <1>1 DEF ProcessEnds
    <2>2. QED
      BY <1>0, <2>1 DEF FlushOnce, FlushIn, Draining, FlushHonest
  <1>2. CASE Restart
    <2>1. /\ ~up /\ sinkPc' = "receiving"
          /\ UNCHANGED <<chan, cmds, flushQueued, wake>>
      BY <1>2 DEF Restart
    <2>2. chan = <<>> /\ cmds = <<>> /\ ~flushQueued /\ wake = "startup"
      BY <2>1 DEF FlushOnce, IInv, DrainInv
    <2>3. QED
      BY <1>0, <2>1, <2>2 DEF FlushOnce, FlushIn, Draining, FlushHonest
  <1>3. QED
    BY <1>1, <1>2

\* A flush is in one place at a time, and the sink task goes on only when it was
\* honest.
THEOREM FlushesOnce == Spec => [](FlushOnce /\ FlushHonest)
  <1>1. FlushOnce /\ FlushHonest /\ IInv /\ [Next]_vars => FlushOnce' /\ FlushHonest'
    <2> SUFFICES ASSUME IInv, FlushOnce, FlushHonest, [Next]_vars PROVE FlushOnce' /\ FlushHonest'
      OBVIOUS
    <2>1. CASE UNCHANGED vars
      BY <2>1 DEF vars, FlushOnce, FlushIn, Draining, FlushHonest, Spooled, Settled
    <2>2. QED
      BY <2>1, SinkFlush, WriterFlush, FlusherFlush, StoreFlush, LifeFlush DEF Next
  <1>2. QED
    BY <1>1, InitFlush, Invariance, PTL DEF Spec

\* When the sink task goes on after its flush, all that was ever pushed or
\* replayed in the run is settled, unless the target was unreachable during the
\* flush: for any interleaving of the three tasks.
THEOREM Flushed == Spec => []FlushHonest
  BY FlushesOnce, PTL
-----------------------------------------------------------------------------
(***************************************************************************)
(* Order and duplicates.                                                   *)
(***************************************************************************)

\* The i-th of a row of events is number base + i, unless it was replayed: an
\* event of an earlier run keeps its old number (and a flush is no event).
Row(s, base, from) == \A i \in 1..Len(s) : s[i] > from => s[i] = base + i

\* The pushes of a channel; only its last command may be a flush.
Pushes(s) == IF s # <<>> /\ s[Len(s)] = Flush THEN Len(s) - 1 ELSE Len(s)

ActiveItems == items[active]
SealedItems == items[Sealed]

\* The last event that left the channel, that is in a slot, that is not in the
\* active slot any more, and that does not wait to be stored any more.
Received == accepted - Pushes(chan)
Written  == Received - Pushes(cmds)
Swapped  == Written - Len(ActiveItems)
Front    == Swapped - Len(SealedItems) - (Len(taken) - stored)

\* The events of the run stand in line, without a gap, from the newest to the
\* oldest: in the channel, with the writer, in the active slot, in the sealed
\* one or with the flusher.
InLine ==
    /\ Row(chan, Received, runStart)
    /\ Row(cmds, Written, runStart)
    /\ Row(ActiveItems, Swapped, runStart)
    /\ Row(SealedItems, Swapped - Len(SealedItems), runStart)
    /\ Row(taken, Swapped - Len(taken), runStart)

\* What is settled beyond the front was in a chunk that failed half way.
SettledInOrder ==
    up => \A j \in Settled : j > runStart =>
              j <= Front \/ (j \in repeatable /\ j <= Front + BatchMaxSize)

\* What is in memory and older than the run was replayed.
Replayed == \A i \in InMemory : i <= runStart => i \in repeatable

OrderInv ==
    /\ InLine /\ SettledInOrder /\ Replayed
    /\ NoUnexplainedDuplicate /\ OvertakesOnlyWithinChunk

\* Nothing is in the row of an empty sequence.
LEMMA RowEmpty == ASSUME NEW base, NEW from PROVE Row(<<>>, base, from)
  BY EmptySeq DEF Row

\* The next event ends the row; so may what is no event of the run.
LEMMA RowAppend ==
    ASSUME NEW S \in SUBSET Int, NEW s \in Seq(S), NEW e \in S, NEW base \in Int,
           NEW from \in Int, Row(s, base, from), e > from => e = base + Len(s) + 1
    PROVE  Row(Append(s, e), base, from)
  <1> DEFINE t == Append(s, e)
  <1>1. /\ Len(t) = Len(s) + 1 /\ Len(s) \in Nat
        /\ \A j \in 1..Len(s) : t[j] = s[j]
        /\ t[Len(s) + 1] = e
    BY AppendProperties
  <1> HIDE DEF t
  <1>2. ASSUME NEW i \in 1..Len(t), t[i] > from PROVE t[i] = base + i
    <2>1. CASE i = Len(s) + 1
      BY <1>1, <1>2, <2>1
    <2>2. CASE i \in 1..Len(s)
      BY <1>1, <1>2, <2>2 DEF Row
    <2>3. QED
      BY <1>1, <2>1, <2>2
  <1>3. QED
    BY <1>2 DEF Row, t

\* Two rows that follow each other make one.
LEMMA RowConcat ==
    ASSUME NEW S \in SUBSET Int, NEW s \in Seq(S), NEW t \in Seq(S), NEW base \in Int,
           NEW from \in Int, Row(s, base, from), Row(t, base + Len(s), from)
    PROVE  Row(s \o t, base, from)
  <1> DEFINE u == s \o t
  <1>1. /\ Len(u) = Len(s) + Len(t) /\ Len(s) \in Nat /\ Len(t) \in Nat
        /\ \A i \in 1..(Len(s) + Len(t)) : u[i] = IF i <= Len(s) THEN s[i] ELSE t[i - Len(s)]
    BY ConcatProperties, LenProperties
  <1> HIDE DEF u
  <1>2. ASSUME NEW i \in 1..Len(u), u[i] > from PROVE u[i] = base + i
    <2>1. CASE i <= Len(s)
      <3>1. i \in 1..Len(s) /\ u[i] = s[i]
        BY <1>1, <2>1
      <3>2. QED
        BY <1>2, <3>1 DEF Row
    <2>2. CASE ~(i <= Len(s))
      <3>1. PICK k \in 1..Len(t) : k = i - Len(s)
        BY <1>1, <2>2
      <3>2. u[i] = t[k]
        BY <1>1, <2>2, <3>1
      <3>3. u[i] = (base + Len(s)) + k
        BY <1>2, <3>1, <3>2 DEF Row
      <3>4. QED
        BY <1>1, <3>1, <3>3
    <2>3. QED
      BY <2>1, <2>2
  <1>3. QED
    BY <1>2 DEF Row, u

\* A row cut in two makes two rows.
LEMMA RowCut ==
    ASSUME NEW S \in SUBSET Int, NEW s \in Seq(S), NEW n \in 0..Len(s), NEW base \in Int,
           NEW from \in Int, Row(s, base, from)
    PROVE  /\ Row(SubSeq(s, 1, n), base, from)
           /\ Row(SubSeq(s, n + 1, Len(s)), base + n, from)
           /\ Len(SubSeq(s, n + 1, Len(s))) = Len(s) - n
           /\ Len(SubSeq(s, 1, n)) = n
  <1> DEFINE a == SubSeq(s, 1, n)
             b == SubSeq(s, n + 1, Len(s))
  <1>0. Len(s) \in Nat /\ n \in Nat /\ n <= Len(s)
    BY LenProperties
  <1>1. Len(a) = n /\ \A i \in 1..n : a[i] = s[i]
    BY <1>0
  <1>2. Len(b) = Len(s) - n /\ \A i \in 1..(Len(s) - n) : b[i] = s[n + i]
    BY <1>0
  <1> HIDE DEF a, b
  <1>3. Row(a, base, from)
    <2> SUFFICES ASSUME NEW i \in 1..n, a[i] > from PROVE a[i] = base + i
      BY <1>1 DEF Row
    <2>1. i \in 1..Len(s) /\ a[i] = s[i]
      BY <1>0, <1>1
    <2>2. QED
      BY <2>1 DEF Row
  <1>4. Row(b, base + n, from)
    <2> SUFFICES ASSUME NEW i \in 1..(Len(s) - n), b[i] > from PROVE b[i] = (base + n) + i
      BY <1>2 DEF Row
    <2>1. PICK k \in 1..Len(s) : k = n + i
      BY <1>0
    <2>2. b[i] = s[k]
      BY <1>2, <2>1
    <2>3. b[i] = base + k
      BY <2>1, <2>2 DEF Row
    <2>4. QED
      BY <1>0, <2>1, <2>3
  <1>5. QED
    BY <1>1, <1>2, <1>3, <1>4 DEF a, b

\* A channel holds as many pushes as commands, but for the flush.
LEMMA PushesFacts ==
    ASSUME NEW s \in Seq(Cmd)
    PROVE  /\ Len(s) \in Nat /\ Pushes(s) \in Nat
           /\ ~FlushIn(s) => Pushes(s) = Len(s)
           /\ s = <<>> => Pushes(s) = 0
  <1>1. Len(s) \in Nat /\ (s # <<>> => Len(s) \in 1..Len(s)) /\ (s = <<>> => Len(s) = 0)
    BY EmptySeq
  <1>2. QED
    BY <1>1 DEF Pushes, FlushIn

\* The numbers that the rows count with.
LEMMA Counts ==
    ASSUME TypeOK
    PROVE  /\ Pushes(chan) \in Nat /\ Pushes(cmds) \in Nat /\ Len(ActiveItems) \in Nat
           /\ Len(SealedItems) \in Nat /\ Len(taken) \in Nat /\ stored \in Nat
           /\ stored <= Len(taken) /\ accepted \in Int /\ runStart \in Int /\ runStart >= 0
           /\ Received \in Int /\ Written \in Int /\ Swapped \in Int /\ Front \in Int
           /\ Front <= Swapped - Len(SealedItems) /\ Front <= Swapped - Len(taken) + stored
           /\ Swapped <= Written /\ Written <= Received /\ Front <= Swapped
  <1>1. chan \in Seq(Cmd) /\ cmds \in Seq(Cmd)
    BY DEF TypeOK
  <1>2. ActiveItems \in Seq(Item) /\ SealedItems \in Seq(Item)
    BY SlotsSwap DEF TypeOK, ActiveItems, SealedItems
  <1>3. Len(ActiveItems) \in Nat /\ Len(SealedItems) \in Nat
    BY <1>2, LenProperties
  <1>4. Pushes(chan) \in Nat /\ Pushes(cmds) \in Nat
    BY <1>1, PushesFacts
  <1>5. Len(taken) \in Nat /\ stored \in Nat /\ stored <= Len(taken)
    BY DEF TypeOK
  <1>6. accepted \in Int /\ runStart \in Int /\ runStart >= 0
    BY BatcherAssumption DEF TypeOK
  <1>7. Received \in Int /\ Written \in Int /\ Written <= Received
    BY <1>4, <1>6 DEF Received, Written
  <1>8. Swapped \in Int /\ Swapped <= Written
    BY <1>3, <1>7 DEF Swapped
  <1>9. /\ Front \in Int /\ Front <= Swapped - Len(SealedItems)
        /\ Front <= Swapped - Len(taken) + stored /\ Front <= Swapped
    BY <1>3, <1>5, <1>8 DEF Front
  <1>10. QED
    BY <1>3, <1>4, <1>5, <1>6, <1>7, <1>8, <1>9

\* The initial state is in order.
LEMMA InitOrder == Init => OrderInv
  <1> SUFFICES ASSUME Init PROVE OrderInv
    OBVIOUS
  <1>1. /\ Range(<<>>) = {} /\ ActiveItems = <<>> /\ SealedItems = <<>>
        /\ chan = <<>> /\ cmds = <<>> /\ taken = <<>> /\ items[0] = <<>> /\ items[1] = <<>>
    BY RangeEmpty DEF Init, Slots, Sealed, ActiveItems, SealedItems
  <1>2. InLine
    BY <1>1, RowEmpty DEF InLine
  <1>3. Settled = {} /\ InMemory = {}
    BY <1>1 DEF Init, Settled, InMemory
  <1>4. NoUnexplainedDuplicate
    BY DEF Init, NoUnexplainedDuplicate
  <1>5. QED
    BY <1>2, <1>3, <1>4 DEF OrderInv, SettledInOrder, Replayed, OvertakesOnlyWithinChunk

\* Steps that settle nothing and keep the line and its front keep the order.
LEMMA FrontKept ==
    ASSUME IInv, OrderInv, up, runStart' = runStart,
           copies' = copies, rejected' = rejected, repeatable' = repeatable,
           InLine', Front' = Front,
           InMemory' \subseteq InMemory \cup {accepted + 1},
           accepted' = accepted \/ accepted' = accepted + 1
    PROVE  OrderInv'
  <1>1. Settled' = Settled /\ Settled \subseteq 1..accepted
    BY DEF Settled, IInv, Known
  <1>2. accepted \in Nat /\ runStart \in 0..accepted
    BY BatcherAssumption DEF IInv, TypeOK
  <1>3. SettledInOrder' /\ Replayed'
    BY <1>1, <1>2 DEF OrderInv, SettledInOrder, Replayed
  <1>4. NoUnexplainedDuplicate'
    BY DEF OrderInv, NoUnexplainedDuplicate
  <1>5. OvertakesOnlyWithinChunk'
    <2> SUFFICES ASSUME NEW i \in (runStart + 1)..accepted', NEW j \in (runStart + 1)..accepted',
                        i < j, j \in Settled, i \notin Settled
                 PROVE  j \in repeatable /\ j - i < BatchMaxSize
      BY <1>1 DEF OvertakesOnlyWithinChunk
    <2>1. i \in (runStart + 1)..accepted /\ j \in (runStart + 1)..accepted
      BY <1>1, <1>2
    <2>2. QED
      BY <2>1 DEF OrderInv, OvertakesOnlyWithinChunk
  <1>6. QED
    BY <1>3, <1>4, <1>5 DEF OrderInv

\* The events of a channel and of a slot are integers, as rows of numbers.
LEMMA Rows ==
    ASSUME TypeOK
    PROVE  /\ Item \in SUBSET Int /\ Cmd \in SUBSET Int /\ Flush \in Cmd /\ Item \subseteq Cmd
           /\ chan \in Seq(Cmd) /\ cmds \in Seq(Cmd) /\ taken \in Seq(Item)
           /\ ActiveItems \in Seq(Item) /\ SealedItems \in Seq(Item)
  <1>1. Item \in SUBSET Int /\ Cmd \in SUBSET Int /\ Flush \in Cmd /\ Item \subseteq Cmd
    BY DEF Item, Cmd, Flush
  <1>2. ActiveItems \in Seq(Item) /\ SealedItems \in Seq(Item)
    BY SlotsSwap DEF TypeOK, ActiveItems, SealedItems
  <1>3. QED
    BY <1>1, <1>2 DEF TypeOK

\* A push joins the end of the line; a flush leaves it as it is.
LEMMA SinkOrder ==
    ASSUME IInv, FlushOnce, OrderInv, Sink PROVE OrderInv'
  <1> USE DEF sinkVars, writerVars, bufferVars, drainVars, targetVars, historyVars, boundVars
  <1>0. TypeOK
    BY DEF IInv
  <1>1. /\ up /\ runStart' = runStart
        /\ InMemory' \subseteq InMemory \cup {accepted + 1}
    BY SinkEffect
  <1>2. UNCHANGED <<cmds, items, active, taken, stored, copies, rejected, repeatable>>
    BY DEF Sink, Push, RequestFlush, SinkExit
  <1>3. /\ Pushes(cmds') = Pushes(cmds) /\ ActiveItems' = ActiveItems
        /\ SealedItems' = SealedItems
    BY <1>2 DEF ActiveItems, SealedItems, Sealed
  <1>4. ASSUME Received' = Received
        PROVE  Written' = Written /\ Swapped' = Swapped /\ Front' = Front
    <2>1. Written' = Written
      BY <1>3, <1>4 DEF Written
    <2>2. Swapped' = Swapped
      BY <1>3, <2>1 DEF Swapped
    <2>3. QED
      BY <1>2, <1>3, <2>1, <2>2 DEF Front
  <1>5. ASSUME Received' = Received, Row(chan', Received, runStart)
        PROVE  InLine'
    BY <1>1, <1>2, <1>3, <1>4, <1>5 DEF OrderInv, InLine
  <1>6. CASE Push
    <2>1. accepted + 1 \in Cmd /\ accepted' = accepted + 1 /\ chan' = Append(chan, accepted + 1)
      BY <1>0, <1>6, BatcherAssumption DEF Push, TypeOK, Cmd, Item
    <2>2. ~FlushIn(chan) /\ ~FlushIn(chan')
      <3>1. ~FlushIn(chan)
        BY <1>6 DEF FlushOnce, Push
      <3>2. accepted + 1 # Flush
        BY <1>0, Counts, BatcherAssumption DEF TypeOK, Flush
      <3>3. /\ Len(chan') = Len(chan) + 1 /\ Len(chan) \in Nat
            /\ \A j \in 1..Len(chan) : chan'[j] = chan[j]
            /\ chan'[Len(chan) + 1] = accepted + 1
        BY <1>0, <2>1, Rows, AppendProperties, LenProperties
      <3>4. \A j \in 1..Len(chan') : j \in 1..Len(chan) \/ j = Len(chan) + 1
        BY <3>3
      <3>5. QED
        BY <3>1, <3>2, <3>3, <3>4 DEF FlushIn
    <2>3. Pushes(chan) = Len(chan) /\ Pushes(chan') = Len(chan) + 1 /\ Len(chan) \in Nat
      <3>1. chan' \in Seq(Cmd) /\ Len(chan') = Len(chan) + 1
        BY <1>0, <2>1, Rows, AppendProperties
      <3>2. QED
        BY <1>0, <2>2, <3>1, Rows, PushesFacts
    <2>4. accepted \in Int /\ runStart \in Int /\ Received \in Int
      BY <1>0, Counts
    <2>5. Received' = Received /\ accepted + 1 = Received + Len(chan) + 1
      BY <2>1, <2>3, <2>4 DEF Received
    <2>6. Row(chan', Received, runStart)
      BY <1>0, <2>1, <2>4, <2>5, Rows, RowAppend DEF OrderInv, InLine
    <2>7. QED
      BY <1>1, <1>2, <1>4, <1>5, <2>1, <2>5, <2>6, FrontKept
  <1>7. CASE RequestFlush
    <2>1. chan' = Append(chan, Flush) /\ accepted' = accepted
      BY <1>7 DEF RequestFlush
    <2>2. Pushes(chan') = Pushes(chan)
      <3>1. ~FlushIn(chan)
        BY <1>7 DEF FlushOnce, RequestFlush
      <3>2. Pushes(chan) = Len(chan) /\ Len(chan) \in Nat
        BY <1>0, <3>1, Rows, PushesFacts
      <3>3. Len(chan') = Len(chan) + 1 /\ chan'[Len(chan) + 1] = Flush
        BY <1>0, <2>1, Rows, AppendProperties
      <3>4. chan' # <<>>
        <4>1. Len(<<>>) = 0
          BY EmptySeq
        <4>2. QED
          BY <3>2, <3>3, <4>1
      <3>5. QED
        BY <3>2, <3>3, <3>4 DEF Pushes
    <2>3. Received' = Received
      BY <2>1, <2>2 DEF Received
    <2>4. Row(chan', Received, runStart)
      <3>1. ~(Flush > runStart) /\ Received \in Int /\ runStart \in Int
        BY <1>0, Counts DEF Flush
      <3>2. QED
        BY <1>0, <2>1, <3>1, Rows, RowAppend DEF OrderInv, InLine
    <2>5. QED
      BY <1>1, <1>2, <1>4, <1>5, <2>1, <2>3, <2>4, FrontKept
  <1>8. CASE SinkExit
    <2>1. chan' = chan /\ accepted' = accepted
      BY <1>8 DEF SinkExit
    <2>2. Received' = Received /\ Row(chan', Received, runStart)
      BY <2>1 DEF Received, OrderInv, InLine
    <2>3. QED
      BY <1>1, <1>2, <1>4, <1>5, <2>1, <2>2, FrontKept
  <1>9. QED
    BY <1>6, <1>7, <1>8 DEF Sink

\* The group that the writer appends to the active slot is all the pushes it got.
LEMMA GroupIsPushes ==
    ASSUME TypeOK, FlushOnce, NEW n \in 1..Len(cmds), \A j \in 1..n : cmds[j] # Flush,
           n < Len(cmds) => cmds[n + 1] = Flush
    PROVE  n = Pushes(cmds) /\ Pushes(SubSeq(cmds, n + 1, Len(cmds))) = 0
  <1> DEFINE rest == SubSeq(cmds, n + 1, Len(cmds))
  <1>1. cmds \in Seq(Cmd) /\ Len(cmds) \in Nat /\ cmds # <<>>
    BY EmptySeq DEF TypeOK
  <1>2. rest \in Seq(Cmd)
    BY WriterGroup
  <1>3. Len(rest) = Len(cmds) - n /\ \A i \in 1..Len(rest) : rest[i] = cmds[n + i]
    BY <1>1
  <1> HIDE DEF rest
  <1>4. n = Len(cmds) \/ n + 1 = Len(cmds)
    BY <1>1 DEF FlushOnce
  <1>5. n = Pushes(cmds)
    BY <1>1, <1>4 DEF Pushes
  <1>6. CASE n = Len(cmds)
    <2>1. rest = <<>>
      BY <1>2, <1>3, <1>6, EmptySeq
    <2>2. QED
      BY <1>2, <1>5, <2>1, PushesFacts DEF rest
  <1>7. CASE n + 1 = Len(cmds)
    <2>1. Len(rest) = 1
      BY <1>1, <1>3, <1>7
    <2>2. rest[1] = Flush
      <3>1. 1 \in 1..Len(rest)
        BY <2>1
      <3>2. rest[1] = cmds[n + 1]
        BY <1>3, <3>1
      <3>3. QED
        BY <1>1, <1>7, <3>2
    <2>3. rest # <<>>
      <3>1. Len(<<>>) = 0
        BY EmptySeq
      <3>2. QED
        BY <2>1, <3>1
    <2>4. Pushes(rest) = 0
      BY <2>1, <2>2, <2>3 DEF Pushes
    <2>5. QED
      BY <1>5, <2>4 DEF rest
  <1>8. QED
    BY <1>4, <1>6, <1>7

\* The writer moves the line on without changing its order.
LEMMA WriterOrder ==
    ASSUME IInv, FlushOnce, OrderInv, Writer PROVE OrderInv'
  <1> USE DEF sinkVars, writerVars, bufferVars, drainVars, targetVars, historyVars, boundVars
  <1>0. TypeOK /\ Pushes(<<>>) = 0
    BY DEF IInv, Pushes
  <1>1. /\ up /\ runStart' = runStart /\ accepted' = accepted
        /\ InMemory' \subseteq InMemory \cup {accepted + 1}
    BY WriterEffect
  <1>2. UNCHANGED <<active, taken, stored, copies, rejected, repeatable>> /\ Sealed' = Sealed
    BY DEF Writer, WriterRecv, WriterPush, WriterForwardFlush, WriterExit, Sealed
  <1>3. ASSUME items' = items, Written' = Written
        PROVE  /\ ActiveItems' = ActiveItems /\ SealedItems' = SealedItems
               /\ Swapped' = Swapped /\ Front' = Front
    <2>1. ActiveItems' = ActiveItems /\ SealedItems' = SealedItems
      BY <1>2, <1>3 DEF ActiveItems, SealedItems
    <2>2. Swapped' = Swapped
      BY <1>3, <2>1 DEF Swapped
    <2>3. QED
      BY <1>2, <2>1, <2>2 DEF Front
  <1>4. /\ Pushes(chan) \in Nat /\ Pushes(cmds) \in Nat /\ accepted \in Int /\ Swapped \in Int
        /\ Len(ActiveItems) \in Nat /\ Written \in Int /\ runStart \in Int
    BY <1>0, Counts
  <1>5. CASE WriterRecv
    <2>1. cmds = <<>> /\ cmds' = chan /\ chan' = <<>> /\ items' = items
      BY <1>5 DEF WriterRecv
    <2>2. Pushes(cmds) = 0 /\ Pushes(cmds') = Pushes(chan) /\ Pushes(chan') = 0
      BY <1>0, <2>1
    <2>3. Written' = Written /\ Written = Received
      BY <1>1, <1>4, <2>2 DEF Written, Received
    <2>4. Row(cmds', Written, runStart) /\ Row(chan', Received', runStart)
      BY <2>1, <2>3, RowEmpty DEF OrderInv, InLine
    <2>5. InLine'
      BY <1>1, <1>2, <1>3, <2>1, <2>3, <2>4 DEF OrderInv, InLine
    <2>6. QED
      BY <1>1, <1>2, <1>3, <2>1, <2>3, <2>5, FrontKept
  <1>6. CASE WriterPush
    <2>1. PICK n \in 1..Len(cmds) :
              /\ \A j \in 1..n : cmds[j] # Flush
              /\ n < Len(cmds) => cmds[n + 1] = Flush
              /\ cmds' = SubSeq(cmds, n + 1, Len(cmds))
              /\ items' = [items EXCEPT ![active] = @ \o SubSeq(cmds, 1, n)]
      BY <1>6 DEF WriterPush
    <2> DEFINE group == SubSeq(cmds, 1, n)
    <2>2. n = Pushes(cmds) /\ Pushes(cmds') = 0 /\ chan' = chan /\ n \in 0..Len(cmds)
      <3>1. n = Pushes(cmds) /\ Pushes(SubSeq(cmds, n + 1, Len(cmds))) = 0
        BY <1>0, <2>1, GroupIsPushes
      <3>2. n \in 0..Len(cmds)
        BY <1>0 DEF TypeOK
      <3>3. QED
        BY <1>6, <2>1, <3>1, <3>2 DEF WriterPush
    <2>3. ActiveItems' = ActiveItems \o group /\ SealedItems' = SealedItems
      BY <1>0, <1>2, <2>1, SlotsSwap DEF TypeOK, ActiveItems, SealedItems
    <2>4. /\ Row(group, Written, runStart) /\ Row(cmds', Written + n, runStart)
          /\ Len(group) = n
      BY <1>0, <1>4, <2>1, <2>2, Rows, RowCut DEF OrderInv, InLine
    <2>5. group \in Seq(Item)
      BY <1>0, <2>1, WriterGroup
    <2> HIDE DEF group
    <2>6. Len(ActiveItems') = Len(ActiveItems) + n
      BY <1>0, <2>3, <2>4, <2>5, Rows, ConcatProperties
    <2>7. Received' = Received /\ Written' = Written + n
      BY <1>1, <1>4, <2>2 DEF Written, Received
    <2>8. Swapped' = Swapped
      BY <1>4, <2>2, <2>6, <2>7 DEF Swapped
    <2>9. Row(ActiveItems', Swapped, runStart)
      <3>1. Swapped + Len(ActiveItems) = Written
        BY <1>4 DEF Swapped
      <3>2. QED
        BY <1>0, <1>4, <2>3, <2>4, <2>5, <3>1, Rows, RowConcat DEF OrderInv, InLine
    <2>10. InLine'
      BY <1>1, <1>2, <2>2, <2>3, <2>4, <2>7, <2>8, <2>9 DEF OrderInv, InLine
    <2>11. Front' = Front
      BY <1>2, <2>3, <2>8 DEF Front
    <2>12. QED
      BY <1>1, <1>2, <2>10, <2>11, FrontKept
  <1>7. CASE WriterForwardFlush
    <2>1. cmds # <<>> /\ Head(cmds) = Flush /\ cmds' = Tail(cmds) /\ chan' = chan
          /\ items' = items
      BY <1>7 DEF WriterForwardFlush
    <2>2. Len(cmds) = 1 /\ cmds[1] = Flush
      <3>1. 1 \in 1..Len(cmds) /\ cmds[1] = Flush
        BY <1>0, <2>1, Rows, EmptySeq
      <3>2. QED
        BY <3>1 DEF FlushOnce
    <2>3. cmds' = <<>>
      <3>1. cmds' \in Seq(Cmd) /\ Len(cmds') = 0
        BY <1>0, <2>1, <2>2, Rows, HeadTailProperties
      <3>2. QED
        BY <3>1, EmptySeq
    <2>4. Pushes(cmds) = 0 /\ Pushes(cmds') = 0 /\ Pushes(chan') = Pushes(chan)
      BY <1>0, <2>1, <2>2, <2>3 DEF Pushes
    <2>5. Received' = Received /\ Written' = Written
      BY <1>1, <2>4 DEF Received, Written
    <2>6. InLine'
      BY <1>1, <1>2, <1>3, <2>1, <2>3, <2>5, RowEmpty DEF OrderInv, InLine
    <2>7. QED
      BY <1>1, <1>2, <1>3, <2>1, <2>5, <2>6, FrontKept
  <1>8. CASE WriterExit
    <2>1. UNCHANGED <<chan, cmds, items>>
      BY <1>8 DEF WriterExit
    <2>2. Received' = Received /\ Written' = Written
      BY <1>1, <2>1 DEF Received, Written
    <2>3. InLine'
      BY <1>1, <1>2, <1>3, <2>1, <2>2 DEF OrderInv, InLine
    <2>4. QED
      BY <1>1, <1>2, <1>3, <2>1, <2>2, <2>3, FrontKept
  <1>9. QED
    BY <1>5, <1>6, <1>7, <1>8 DEF Writer

\* The flusher takes the oldest slot, and gives up only what is settled.
LEMMA FlusherOrder ==
    ASSUME IInv, OrderInv, Flusher PROVE OrderInv'
  <1> USE DEF sinkVars, writerVars, bufferVars, drainVars, targetVars, historyVars, boundVars
  <1>0. TypeOK
    BY DEF IInv
  <1>1. /\ up /\ runStart' = runStart /\ accepted' = accepted
        /\ InMemory' \subseteq InMemory \cup {accepted + 1}
    BY FlusherEffect
  <1>2. UNCHANGED <<chan, cmds, copies, rejected, repeatable>>
    BY DEF Flusher, WakeTimer, WakeNotified, WakeFlush, WakeClosed, StartDrain, DrainSealed,
           DrainDone, DrainAllCheck
  <1>3. Received' = Received /\ Written' = Written
    BY <1>1, <1>2 DEF Received, Written
  <1>4. /\ Len(ActiveItems) \in Nat /\ Len(SealedItems) \in Nat /\ Len(taken) \in Nat
        /\ stored \in Nat /\ Written \in Int /\ Swapped \in Int /\ Len(<<>>) = 0
    BY <1>0, Counts, EmptySeq
  <1>5. ASSUME InLine', Front' = Front PROVE OrderInv'
    BY <1>1, <1>2, <1>5, FrontKept
  <1>6. CASE UNCHANGED <<items, active, taken, stored>>
    <2>1. ActiveItems' = ActiveItems /\ SealedItems' = SealedItems
      BY <1>6 DEF ActiveItems, SealedItems, Sealed
    <2>2. Swapped' = Swapped
      BY <1>3, <2>1 DEF Swapped
    <2>3. Front' = Front
      BY <1>6, <2>1, <2>2 DEF Front
    <2>4. InLine'
      BY <1>1, <1>2, <1>3, <1>6, <2>1, <2>2 DEF OrderInv, InLine
    <2>5. QED
      BY <1>5, <2>3, <2>4
  <1>7. CASE DrainSealed
    <2>1. taken = <<>> /\ stored' = 0 /\ stored = 0
      BY <1>0, <1>4, <1>7 DEF DrainSealed, IInv, DrainInv, TypeOK
    <2>2. CASE SealedItems = <<>>
      <3>1. SwappedActive = Sealed /\ 1 - SwappedActive = active
        BY <1>0, <2>2 DEF SwappedActive, SealedItems, Sealed, TypeOK, Slots
      <3>2. active' = Sealed /\ taken' = ActiveItems /\ Sealed' = active
        BY <1>0, <1>7, <3>1 DEF DrainSealed, ActiveItems, Sealed, TypeOK, Slots
      <3>3. ActiveItems' = <<>> /\ SealedItems' = <<>>
        <4>1. items' = [items EXCEPT ![active] = <<>>]
          BY <1>7, <3>1 DEF DrainSealed
        <4>2. QED
          BY <1>0, <2>2, <3>2, <4>1, SlotsSwap DEF TypeOK, ActiveItems, SealedItems
      <3>4. Swapped' = Written
        BY <1>3, <1>4, <3>3 DEF Swapped
      <3>5. Swapped = Written - Len(ActiveItems)
        BY DEF Swapped
      <3>6. InLine'
        BY <1>1, <1>2, <1>3, <3>2, <3>3, <3>4, <3>5, RowEmpty DEF OrderInv, InLine
      <3>7. Front' = Front
        BY <1>4, <2>1, <2>2, <3>2, <3>3, <3>4, <3>5 DEF Front
      <3>8. QED
        BY <1>5, <3>6, <3>7
    <2>3. CASE SealedItems # <<>>
      <3>1. SwappedActive = active /\ 1 - SwappedActive = Sealed
        BY <1>0, <2>3 DEF SwappedActive, SealedItems, Sealed, TypeOK, Slots
      <3>2. active' = active /\ taken' = SealedItems /\ Sealed' = Sealed
        BY <1>7, <3>1 DEF DrainSealed, SealedItems, Sealed
      <3>3. ActiveItems' = ActiveItems /\ SealedItems' = <<>>
        <4>1. items' = [items EXCEPT ![Sealed] = <<>>]
          BY <1>7, <3>1 DEF DrainSealed
        <4>2. QED
          BY <1>0, <3>2, <4>1, SlotsSwap DEF TypeOK, ActiveItems, SealedItems
      <3>4. Swapped' = Swapped
        BY <1>3, <3>3 DEF Swapped
      <3>5. InLine'
        BY <1>1, <1>2, <1>3, <3>2, <3>3, <3>4, RowEmpty DEF OrderInv, InLine
      <3>6. Front' = Front
        BY <1>4, <2>1, <3>2, <3>3, <3>4 DEF Front
      <3>7. QED
        BY <1>5, <3>5, <3>6
    <2>4. QED
      BY <2>2, <2>3
  <1>8. CASE DrainDone
    <2>1. /\ UNCHANGED <<items, active>> /\ taken' = <<>> /\ stored' = 0
          /\ stored = Len(taken)
      BY <1>8 DEF DrainDone
    <2>2. ActiveItems' = ActiveItems /\ SealedItems' = SealedItems
      BY <2>1 DEF ActiveItems, SealedItems, Sealed
    <2>3. Swapped' = Swapped
      BY <1>3, <2>2 DEF Swapped
    <2>4. InLine'
      BY <1>1, <1>2, <1>3, <2>1, <2>2, <2>3, RowEmpty DEF OrderInv, InLine
    <2>5. Front' = Front
      BY <1>4, <2>1, <2>2, <2>3 DEF Front
    <2>6. QED
      BY <1>5, <2>4, <2>5
  <1>9. QED
    BY <1>6, <1>7, <1>8 DEF Flusher, WakeTimer, WakeNotified, WakeFlush, WakeClosed, StartDrain,
                            DrainAllCheck

\* An event of the run that is in memory and not settled is behind the front.
LEMMA BehindFront ==
    ASSUME TypeOK, DrainInv, InLine, NEW i \in InMemory, i > runStart, i \notin Settled
    PROVE  i > Front
  <1>1. /\ Front \in Int /\ Swapped \in Int /\ Written \in Int /\ Received \in Int
        /\ Front <= Swapped - Len(SealedItems) /\ Front <= Swapped - Len(taken) + stored
        /\ Swapped <= Written /\ Written <= Received /\ Front <= Swapped
        /\ Len(SealedItems) \in Nat /\ Len(taken) \in Nat /\ stored \in Nat
    BY Counts
  <1>2. ASSUME NEW S, NEW s \in Seq(S), i \in Range(s), NEW base \in Int, base >= Front,
               Row(s, base, runStart)
        PROVE  i > Front
    <2>1. PICK k \in 1..Len(s) : i = s[k]
      BY <1>2, RangeIndex
    <2>2. i = base + k
      BY <1>2, <2>1 DEF Row
    <2>3. k \in Int /\ k > 0
      BY <1>2, <2>1
    <2>4. QED
      BY <1>1, <1>2, <2>2, <2>3
  <1>3. \/ i \in Range(chan) \/ i \in Range(cmds)
        \/ i \in Range(ActiveItems) \/ i \in Range(SealedItems) \/ i \in Range(taken)
    BY SlotsSwap DEF InMemory, ActiveItems, SealedItems, Slots
  <1>4. CASE i \in Range(chan) \/ i \in Range(cmds) \/ i \in Range(ActiveItems)
    <2>1. Received >= Front /\ Written >= Front /\ Swapped >= Front
      BY <1>1
    <2>2. QED
      BY <1>1, <1>2, <1>4, <2>1, Rows DEF InLine
  <1>5. CASE i \in Range(SealedItems)
    <2>1. Swapped - Len(SealedItems) \in Int /\ Swapped - Len(SealedItems) >= Front
      BY <1>1
    <2>2. QED
      BY <1>2, <1>5, <2>1, Rows DEF InLine
  <1>6. CASE i \in Range(taken)
    <2>1. PICK k \in 1..Len(taken) : i = taken[k]
      BY <1>6, Rows, RangeIndex
    <2>2. i = (Swapped - Len(taken)) + k
      BY <2>1 DEF InLine, Row
    <2>3. k > stored
      BY <1>1, <2>1 DEF DrainInv
    <2>4. QED
      BY <1>1, <2>1, <2>2, <2>3
  <1>7. QED
    BY <1>3, <1>4, <1>5, <1>6

\* A chunk is the front of the line: its events are the next ones, at most a
\* batch of them.
LEMMA ChunkIsFront ==
    ASSUME TypeOK, InLine, stored < Len(taken), SealedItems = <<>>,
           NEW j \in Chunk, j > runStart
    PROVE  Front < j /\ j <= Front + (ChunkEnd - stored) /\ j <= Front + BatchMaxSize
  <1>1. PICK k \in (stored + 1)..ChunkEnd : j = taken[k]
    BY DEF Chunk
  <1>2. ChunkEnd \in (stored + 1)..Len(taken) /\ ChunkEnd <= stored + BatchMaxSize
    BY ChunkFacts, BatcherAssumption DEF TypeOK, ChunkEnd
  <1>3. Len(taken) \in Nat /\ stored \in Nat /\ Swapped \in Int /\ Len(<<>>) = 0
    BY Counts, EmptySeq
  <1>4. k \in 1..Len(taken)
    BY <1>1, <1>2, <1>3
  <1>5. j = (Swapped - Len(taken)) + k
    BY <1>1, <1>4 DEF InLine, Row
  <1>6. Front = Swapped - Len(taken) + stored
    BY <1>3 DEF Front
  <1>7. QED
    BY <1>1, <1>2, <1>3, <1>5, <1>6, BatcherAssumption

\* While the process runs, the line explains which events were overtaken.
LEMMA LineOrders ==
    IInv /\ InLine /\ SettledInOrder /\ up => OvertakesOnlyWithinChunk
  <1> SUFFICES ASSUME IInv, InLine, SettledInOrder, up,
                      NEW i \in (runStart + 1)..accepted, NEW j \in (runStart + 1)..accepted,
                      i < j, j \in Settled, i \notin Settled
               PROVE  j \in repeatable /\ j - i < BatchMaxSize
    BY DEF OvertakesOnlyWithinChunk
  <1>1. TypeOK /\ DrainInv /\ i \in InMemory
    BY DEF IInv, RunOwed
  <1>2. Front \in Int /\ runStart \in Int /\ accepted \in Int
    BY <1>1, Counts
  <1>3. i \in Int /\ j \in Int /\ i > runStart /\ j > runStart
    BY <1>2
  <1>4. i > Front
    BY <1>1, <1>3, BehindFront
  <1>5. j <= Front \/ (j \in repeatable /\ j <= Front + BatchMaxSize)
    BY <1>3 DEF SettledInOrder
  <1>6. QED
    BY <1>2, <1>3, <1>4, <1>5, BatcherAssumption

\* The same of the state after a step.
LEMMA LineOrdersNext ==
    IInv' /\ InLine' /\ SettledInOrder' /\ up' => OvertakesOnlyWithinChunk'
  BY LineOrders, PTL

\* A chunk that is stored moves the front on; one that fails is put back at the
\* front, and may be repeated.
LEMMA StoreOrder ==
    ASSUME IInv, IInv', OrderInv, Store PROVE OrderInv'
  <1> USE DEF sinkVars, writerVars, bufferVars, drainVars, targetVars, historyVars, boundVars
  <1>0. TypeOK /\ DrainInv
    BY DEF IInv
  <1>1. /\ up /\ up' /\ runStart' = runStart /\ accepted' = accepted
        /\ InMemory' \subseteq InMemory
    BY StoreEffect
  <1>2. /\ UNCHANGED <<chan, cmds, active>> /\ stored < Len(taken) /\ pc = "store"
        /\ Sealed' = Sealed /\ SealedItems = <<>>
    BY <1>0 DEF Store, StoreChunk, StoreFails, Sealed, SealedItems, DrainInv
  <1>3. Received' = Received /\ Written' = Written
    BY <1>1, <1>2 DEF Received, Written
  <1>4. /\ Front \in Int /\ Swapped \in Int /\ Len(taken) \in Nat /\ stored \in Nat
        /\ Len(<<>>) = 0 /\ runStart \in Int /\ Len(ActiveItems) \in Nat
    BY <1>0, Counts, EmptySeq
  <1>5. ChunkEnd \in (stored + 1)..Len(taken) /\ Chunk \subseteq Item /\ Chunk \subseteq InMemory
    BY <1>0, <1>2, ChunkFacts DEF InMemory
  <1>6. \A j \in Chunk : j > runStart =>
            Front < j /\ j <= Front + (ChunkEnd - stored) /\ j <= Front + BatchMaxSize
    BY <1>0, <1>2, ChunkIsFront DEF OrderInv
  <1>7. \A j \in Chunk : j <= runStart => j \in repeatable
    BY <1>5 DEF OrderInv, Replayed
  <1>8. Settled \subseteq Int /\ Chunk \subseteq Int /\ copies \in [Item -> Nat]
    <2>1. Settled \subseteq Item /\ copies \in [Item -> Nat]
      BY <1>0 DEF Settled, TypeOK
    <2>2. Item \subseteq Int
      BY DEF Item
    <2>3. QED
      BY <1>5, <2>1, <2>2
  <1>9. ASSUME InLine', SettledInOrder', Replayed', NoUnexplainedDuplicate' PROVE OrderInv'
    BY <1>1, <1>9, LineOrdersNext DEF OrderInv
  <1>10. CASE StoreChunk
    <2>1. /\ UNCHANGED <<items, taken, repeatable>> /\ stored' = ChunkEnd
          /\ rejected' = rejected \cup (Chunk \cap Refusable)
          /\ copies' = [i \in Item |-> IF i \in Chunk \ Refusable THEN copies[i] + 1
                                                                  ELSE copies[i]]
      BY <1>10 DEF StoreChunk
    <2>2. ActiveItems' = ActiveItems /\ SealedItems' = SealedItems
      BY <1>2, <2>1 DEF ActiveItems, SealedItems
    <2>3. Swapped' = Swapped
      BY <1>3, <2>2 DEF Swapped
    <2>4. InLine'
      BY <1>1, <1>2, <1>3, <2>1, <2>2, <2>3 DEF OrderInv, InLine
    <2>5. Front' = Front + (ChunkEnd - stored) /\ ChunkEnd - stored \in Nat
      BY <1>2, <1>4, <1>5, <2>1, <2>2, <2>3 DEF Front
    <2>6. Settled' \subseteq Settled \cup Chunk
      BY <1>5, <2>1 DEF Settled
    <2>7. SettledInOrder'
      <3> SUFFICES ASSUME NEW j \in Settled', j > runStart
                   PROVE  j <= Front' \/ (j \in repeatable /\ j <= Front' + BatchMaxSize)
        BY <1>1, <2>1 DEF SettledInOrder
      <3>1. CASE j \in Chunk
        BY <1>6, <2>5, <3>1
      <3>2. CASE j \in Settled
        <4>1. j <= Front \/ (j \in repeatable /\ j <= Front + BatchMaxSize)
          BY <1>1, <3>2 DEF OrderInv, SettledInOrder
        <4>2. j \in Int
          BY <1>8, <3>2
        <4>3. QED
          BY <1>4, <2>5, <4>1, <4>2, BatcherAssumption
      <3>3. QED
        BY <2>6, <3>1, <3>2
    <2>8. Replayed'
      BY <1>1, <2>1 DEF OrderInv, Replayed
    <2>9. NoUnexplainedDuplicate'
      <3> SUFFICES ASSUME NEW i \in Item, i \notin repeatable PROVE copies'[i] <= 1
        BY <2>1 DEF NoUnexplainedDuplicate
      <3>1. copies[i] \in Nat /\ copies[i] <= 1
        BY <1>8 DEF OrderInv, NoUnexplainedDuplicate
      <3>2. CASE i \in Chunk \ Refusable
        <4>1. i \in Int /\ ~(i <= runStart)
          BY <1>7, <1>8, <3>2
        <4>2. Front < i
          BY <1>4, <1>6, <3>2, <4>1
        <4>3. i \notin Settled
          BY <1>1, <1>4, <4>1, <4>2 DEF OrderInv, SettledInOrder
        <4>4. copies[i] = 0
          BY <3>1, <4>3 DEF Settled
        <4>5. copies'[i] = copies[i] + 1
          BY <2>1, <3>2
        <4>6. QED
          BY <4>4, <4>5
      <3>3. CASE i \notin Chunk \ Refusable
        BY <2>1, <3>1, <3>3
      <3>4. QED
        BY <3>2, <3>3
    <2>10. QED
      BY <1>9, <2>4, <2>7, <2>8, <2>9
  <1>11. CASE StoreFails
    <2>1. PICK S \in SUBSET {i \in Chunk \ Refusable : copies[i] < MaxCopies} :
              copies' = [i \in Item |-> IF i \in S THEN copies[i] + 1 ELSE copies[i]]
      BY <1>11 DEF StoreFails
    <2>2. /\ items' = [items EXCEPT ![Sealed] = Leftover] /\ taken' = <<>> /\ stored' = 0
          /\ repeatable' = repeatable \cup Chunk /\ rejected' \subseteq rejected \cup Chunk
      BY <1>11 DEF StoreFails
    <2>3. ActiveItems' = ActiveItems /\ SealedItems' = Leftover
      BY <1>0, <1>2, <2>2, SlotsSwap DEF TypeOK, ActiveItems, SealedItems
    <2>4. Swapped' = Swapped
      BY <1>3, <2>3 DEF Swapped
    <2>5. /\ Row(Leftover, (Swapped - Len(taken)) + stored, runStart)
          /\ Len(Leftover) = Len(taken) - stored
      <3>1. stored \in 0..Len(taken) /\ Swapped - Len(taken) \in Int
        BY <1>2, <1>4
      <3>2. QED
        BY <1>0, <1>4, <3>1, Rows, RowCut DEF OrderInv, InLine, Leftover
    <2>6. Swapped - Len(Leftover) = (Swapped - Len(taken)) + stored
      BY <1>4, <2>5
    <2>7. InLine'
      BY <1>1, <1>2, <1>3, <2>2, <2>3, <2>4, <2>5, <2>6, RowEmpty DEF OrderInv, InLine
    <2>8. Front' = Front
      BY <1>2, <1>4, <2>2, <2>3, <2>4, <2>5 DEF Front
    <2>9. Settled' \subseteq Settled \cup Chunk
      BY <1>8, <2>1, <2>2 DEF Settled
    <2>10. SettledInOrder'
      BY <1>1, <1>6, <2>2, <2>8, <2>9 DEF OrderInv, SettledInOrder
    <2>11. Replayed'
      BY <1>1, <2>2 DEF OrderInv, Replayed
    <2>12. NoUnexplainedDuplicate'
      BY <2>1, <2>2 DEF OrderInv, NoUnexplainedDuplicate
    <2>13. QED
      BY <1>9, <2>7, <2>10, <2>11, <2>12
  <1>12. QED
    BY <1>10, <1>11 DEF Store

\* The end of the process leaves nothing in line; what a restart replays has old
\* numbers, and may be stored again.
LEMMA LifeOrder ==
    ASSUME IInv, OrderInv, ProcessEnds \/ Restart PROVE OrderInv'
  <1> USE DEF sinkVars, writerVars, bufferVars, drainVars, targetVars, historyVars, boundVars
  <1>0. TypeOK
    BY DEF IInv
  <1>1. /\ Settled' = Settled /\ accepted' = accepted /\ Held' = Spooled
        /\ \/ up /\ ~up' /\ InMemory' = {}
           \/ ~up /\ up' /\ InMemory' = Spooled /\ runStart' = accepted
    BY LifeEffect
  <1>2. Settled \subseteq 1..accepted /\ Spooled \subseteq 1..accepted /\ accepted \in Nat
    BY <1>0, BatcherAssumption DEF IInv, Known, TypeOK
  <1>3. CASE ProcessEnds
    <2>1. /\ chan' = <<>> /\ cmds' = <<>> /\ taken' = <<>> /\ ~up' /\ up
          /\ items' = [k \in Slots |-> <<>>] /\ active' = 0
          /\ UNCHANGED <<runStart, copies, rejected, repeatable>>
      BY <1>3 DEF ProcessEnds
    <2>2. ActiveItems' = <<>> /\ SealedItems' = <<>>
      BY <2>1 DEF ActiveItems, SealedItems, Sealed, Slots
    <2>3. InLine'
      BY <2>1, <2>2, RowEmpty DEF InLine
    <2>4. InMemory' = {}
      BY <1>1, <2>1
    <2>5. SettledInOrder' /\ Replayed'
      BY <2>1, <2>4 DEF SettledInOrder, Replayed
    <2>6. NoUnexplainedDuplicate' /\ OvertakesOnlyWithinChunk'
      BY <1>1, <2>1 DEF OrderInv, NoUnexplainedDuplicate, OvertakesOnlyWithinChunk
    <2>7. QED
      BY <2>3, <2>5, <2>6 DEF OrderInv
  <1>4. CASE Restart
    <2>1. /\ ~up /\ up' /\ items' = spool /\ runStart' = accepted
          /\ repeatable' = repeatable \cup Spooled
          /\ UNCHANGED <<chan, cmds, taken, active, copies>>
      BY <1>4 DEF Restart
    <2>2. chan = <<>> /\ cmds = <<>> /\ taken = <<>>
      BY <2>1 DEF IInv, DrainInv
    <2>3. ASSUME NEW k \in Slots, NEW base PROVE Row(spool[k], base, accepted)
      <3>1. Range(spool[k]) \subseteq 1..accepted /\ spool[k] \in Seq(Item)
        BY <1>0, <1>2 DEF Spooled, Slots, TypeOK
      <3>2. \A i \in 1..Len(spool[k]) : spool[k][i] \in 1..accepted
        BY <3>1, RangeIndex
      <3>3. \A x \in 1..accepted : ~(x > accepted)
        BY <1>2
      <3>4. QED
        BY <3>2, <3>3 DEF Row
    <2>4. ActiveItems' = spool[active] /\ SealedItems' = spool[Sealed]
      BY <2>1 DEF ActiveItems, SealedItems, Sealed
    <2>5. InLine'
      BY <1>0, <2>1, <2>2, <2>3, <2>4, SlotsSwap, RowEmpty DEF InLine, TypeOK
    <2>6. SettledInOrder'
      BY <1>1, <1>2, <2>1 DEF SettledInOrder
    <2>7. Replayed'
      BY <1>1, <2>1 DEF Replayed
    <2>8. NoUnexplainedDuplicate'
      BY <2>1 DEF OrderInv, NoUnexplainedDuplicate
    <2>9. OvertakesOnlyWithinChunk'
      <3>1. (runStart' + 1)..accepted' = {}
        BY <1>1, <1>2, <2>1
      <3>2. QED
        BY <3>1 DEF OvertakesOnlyWithinChunk
    <2>10. QED
      BY <2>5, <2>6, <2>7, <2>8, <2>9 DEF OrderInv
  <1>5. QED
    BY <1>3, <1>4

\* Events are stored in the order they were pushed in, and only a failed call or
\* a restart makes the batcher store one twice.
THEOREM Ordered == Spec => []OrderInv
  <1>1. IInv /\ IInv' /\ FlushOnce /\ OrderInv /\ [Next]_vars => OrderInv'
    <2> SUFFICES ASSUME IInv, IInv', FlushOnce, OrderInv, [Next]_vars PROVE OrderInv'
      OBVIOUS
    <2>1. CASE UNCHANGED vars
      BY <2>1 DEF vars, OrderInv, InLine, SettledInOrder, Replayed, NoUnexplainedDuplicate,
                  OvertakesOnlyWithinChunk, Front, Swapped, Written, Received, ActiveItems,
                  SealedItems, Sealed, InMemory, Settled
    <2>2. QED
      BY <2>1, SinkOrder, WriterOrder, FlusherOrder, StoreOrder, LifeOrder DEF Next
  <1>2. QED
    BY <1>1, InitOrder, Invariance, FlushesOnce, PTL DEF Spec

\* Two store calls store the same event only if the first one failed or the event
\* was replayed in between: for any sizes, in any interleaving.
THEOREM DuplicatesExplained == Spec => []NoUnexplainedDuplicate
  BY Ordered, PTL DEF OrderInv

\* Events of a run reach the target in push order, but for the chunk whose store
\* call failed half way.
THEOREM OrderKept == Spec => []OvertakesOnlyWithinChunk
  BY Ordered, PTL DEF OrderInv
=============================================================================
