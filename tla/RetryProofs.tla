---------------------------- MODULE RetryProofs ----------------------------
(***************************************************************************)
(* Proofs about the two parts that try again: the store call of the        *)
(* database sinks, for any batches of different rows, any rows the         *)
(* database refuses and any bounds; and an HTTP exchange, for any URLs,    *)
(* configured headers, trusted hosts and limits.                           *)
(***************************************************************************)
EXTENDS Adapters, TLAPS

(***************************************************************************)
(* The store call                                                          *)
(***************************************************************************)

Typed ==
    /\ batch \in Batches /\ bad \in SUBSET Row /\ unique \in BOOLEAN
    /\ table \in [Row -> Nat] /\ warned \in SUBSET bad
    /\ interrupted \in BOOLEAN
    /\ row \in 1..Len(batch)

\* What is behind a row: stored, or refused and logged.
Settled(r) == IF r \in bad THEN r \in warned ELSE table[r] >= 1

\* The rows before the current one are settled, and all of them once store
\* returned TRUE.
Progress ==
    /\ at # "idle" => /\ verdict # "true"
                      /\ \A i \in 1..(row - 1) : Settled(batch[i])
    /\ verdict = "true" => \A i \in 1..Len(batch) : Settled(batch[i])

\* As long as every statement was answered, what is stored is what was stored in
\* this call, before the current row.
Fresh ==
    /\ \A r \in bad : table[r] = 0
    /\ unique \/ ~interrupted => \A r \in Row : table[r] <= 1
    /\ ~interrupted /\ at = "idle" /\ verdict # "true" => \A r \in Row : table[r] = 0
    /\ ~interrupted /\ at # "idle" =>
           \A r \in Row : table[r] > 0 => \E i \in 1..(row - 1) : batch[i] = r

\* Only the loops over single rows leave the first row.
Position ==
    /\ at \in {"idle", "batch", "rows"}
    /\ at = "batch" /\ ~(target = "postgres" /\ rowByRow) => row = 1

RowsInv == Typed /\ Progress /\ Fresh /\ Position

\* The invariant holds at first.
LEMMA InitRows == Rows!Init => RowsInv
  <1> SUFFICES ASSUME Rows!Init PROVE RowsInv
    OBVIOUS
  <1>1. Typed
    <2>1. batch \in Batches /\ bad \in SUBSET Row /\ unique \in BOOLEAN /\ warned \in SUBSET bad
      BY DEF Rows!Init
    <2>2. interrupted \in BOOLEAN
      BY Zenon DEF Rows!Init
    <2>3. table \in [Row -> Nat]
      BY DEF Rows!Init
    <2>4. row \in 1..Len(batch)
      <3>1. batch \in Seq(Row) /\ Len(batch) > 0
        BY <2>1, RowsAssumption
      <3>2. QED
        BY <3>1 DEF Rows!Init
    <2>5. QED
      BY <2>1, <2>2, <2>3, <2>4 DEF Typed
  <1>2. Progress /\ Fresh /\ Position
    BY DEF Rows!Init, Progress, Fresh, Position
  <1>3. QED
    BY <1>1, <1>2 DEF RowsInv

\* A call starts at the first row, and stores nothing yet.
LEMMA StartInv == ASSUME RowsInv, Rows!Start PROVE RowsInv'
  <1> USE DEF RowsInv, Rows!Start, Rows!config
  <1>1. Typed'
    BY RowsAssumption DEF Typed
  <1>2. Progress'
    BY DEF Typed, Progress, Settled
  <1>3. Fresh'
    BY DEF Typed, Fresh, Progress
  <1>4. Position'
    BY DEF Position
  <1>5. QED
    BY <1>1, <1>2, <1>3, <1>4

\* The flag that another sink sets moves no row.
LEMMA FlagInv == ASSUME RowsInv, Rows!OtherSinkFallsBack PROVE RowsInv'
  BY DEF RowsInv, Rows!OtherSinkFallsBack, Rows!config, Typed, Progress, Fresh, Position, Settled

\* Effect of a statement on the table, whatever the answer: no refused row is in
\* it, no row leaves it, with a constraint no row is in it twice; if it is
\* answered, its rows are in it or it has not changed.
LEMMA Effect ==
    ASSUME Typed, Fresh, NEW R \in SUBSET Row, NEW answer \in Rows!Answers(R),
           Rows!Execute(R, answer), UNCHANGED <<bad, unique>>
    PROVE  /\ table' \in [Row -> Nat] /\ interrupted' \in BOOLEAN
           /\ \A r \in bad : table'[r] = 0
           /\ \A r \in Row : table'[r] >= table[r]
           /\ \A r \in Row \ R : table'[r] = table[r]
           /\ unique => \A r \in Row : table'[r] <= 1
           /\ \A r \in R : table'[r] <= table[r] + 1
           /\ answer = "ok" => R \cap bad = {} /\ \A r \in R : table'[r] >= 1
           /\ answer = "refused" => R \cap bad # {} /\ table' = table
           /\ interrupted => interrupted'
           /\ answer = "transient" => interrupted'
           /\ answer \in {"ok", "refused", "transient"}
  <1>1. answer \in {"ok", "refused", "transient"}
        /\ (answer = "ok" => R \cap bad = {}) /\ (answer = "refused" => R \cap bad # {})
    BY DEF Rows!Answers
  <1>2. /\ interrupted' \in BOOLEAN /\ (interrupted => interrupted')
        /\ (answer = "transient" => interrupted')
    BY Zenon DEF Rows!Execute
  <1>3. /\ table \in [Row -> Nat] /\ bad \in SUBSET Row
        /\ \A r \in bad : table[r] = 0
        /\ unique => \A r \in Row : table[r] <= 1
    BY DEF Typed, Fresh
  <1>4. CASE table' = Rows!Inserted(R) /\ R \cap bad = {} /\ answer # "refused"
    <2>1. \A r \in Row : table'[r] = IF r \notin R THEN table[r]
                                     ELSE IF unique THEN 1 ELSE table[r] + 1
      BY <1>4 DEF Rows!Inserted
    <2>2. table' \in [Row -> Nat]
      BY <1>3, <1>4 DEF Rows!Inserted
    <2>3. /\ \A r \in Row : table'[r] >= table[r]
          /\ unique => \A r \in Row : table'[r] <= 1
          /\ \A r \in R : table'[r] <= table[r] + 1 /\ table'[r] >= 1
      BY <1>3, <2>1
    <2>4. \A r \in bad : table'[r] = 0
      BY <1>3, <1>4, <2>1
    <2>5. QED
      BY <1>1, <1>2, <1>4, <2>1, <2>2, <2>3, <2>4
  <1>5. CASE table' = table /\ answer # "ok"
    <2>1. \A r \in Row : table'[r] >= table[r]
      BY <1>3, <1>5
    <2>2. \A r \in R : table'[r] <= table[r] + 1
      BY <1>3, <1>5
    <2>3. QED
      BY <1>1, <1>2, <1>3, <1>5, <2>1, <2>2
  <1>6. QED
    BY <1>1, <1>4, <1>5 DEF Rows!Execute

\* One row was tried: a transient error begins again or gives up, anything else
\* settles the row.
LEMMA RowTried ==
    ASSUME RowsInv, at # "idle",
           NEW answer \in Rows!Answers({batch[row]}),
           Rows!Execute({batch[row]}, answer), Rows!Warn({batch[row]}, answer),
           UNCHANGED Rows!config,
           \/ /\ answer = "transient" /\ row' \in {1, row} /\ UNCHANGED <<at, verdict>>
           \/ answer = "transient" /\ Rows!Return("false")
           \/ /\ answer # "transient" /\ row < Len(batch) /\ row' = row + 1
              /\ UNCHANGED <<at, verdict>>
           \/ answer # "transient" /\ ~(row < Len(batch)) /\ Rows!Return("true")
    PROVE  Typed' /\ Progress' /\ Fresh'
  <1>0. /\ batch \in Seq(Row) /\ Len(batch) \in Nat /\ row \in 1..Len(batch)
        /\ \A i, j \in 1..Len(batch) : batch[i] = batch[j] => i = j
        /\ \A i \in 1..Len(batch) : batch[i] \in Row
    BY RowsAssumption DEF RowsInv, Typed
  <1> PICK r \in Row : r = batch[row]
    BY <1>0
  <1>1. /\ batch \in Seq(Row) /\ Len(batch) \in Nat /\ row \in 1..Len(batch) /\ batch[row] = r
        /\ \A i, j \in 1..Len(batch) : batch[i] = batch[j] => i = j
        /\ \A i \in 1..Len(batch) : batch[i] \in Row
    BY <1>0
  <1>2. /\ UNCHANGED <<batch, bad, unique>> /\ Typed /\ Progress /\ Fresh
    BY DEF RowsInv, Rows!config
  <1>3. /\ table' \in [Row -> Nat] /\ interrupted' \in BOOLEAN
        /\ \A x \in bad : table'[x] = 0
        /\ \A x \in Row : table'[x] >= table[x]
        /\ \A x \in Row \ {r} : table'[x] = table[x]
        /\ unique => \A x \in Row : table'[x] <= 1
        /\ table'[r] <= table[r] + 1
        /\ answer = "ok" => r \notin bad /\ table'[r] >= 1
        /\ answer = "refused" => r \in bad /\ table' = table
        /\ interrupted => interrupted'
        /\ answer = "transient" => interrupted'
        /\ answer \in {"ok", "refused", "transient"}
    <2>1. {r} \in SUBSET Row
      BY <1>1
    <2>2. answer \in Rows!Answers({r}) /\ Rows!Execute({r}, answer)
      OBVIOUS
    <2>3. QED
      BY <1>2, <2>1, <2>2, Effect
  <1>4. /\ table \in [Row -> Nat] /\ warned \in SUBSET bad
        /\ warned' \in SUBSET bad /\ warned \subseteq warned'
        /\ answer = "refused" => r \in warned'
    BY <1>2, <1>3 DEF Typed, Rows!Warn
  <1>5. \A x \in Row : Settled(x) => Settled(x)'
    BY <1>2, <1>3, <1>4 DEF Settled
  <1>6. answer # "transient" => Settled(r)'
    BY <1>1, <1>2, <1>3, <1>4 DEF Settled
  <1>7. row' \in 1..Len(batch) /\ (row' = row + 1 \/ row' = row \/ row' = 1)
    BY <1>1 DEF Rows!Return
  <1>8. Typed'
    BY <1>2, <1>3, <1>4, <1>7 DEF Typed
  <1>9. Progress'
    <2>1. \A i \in 1..(row - 1) : Settled(batch[i])'
      BY <1>1, <1>2, <1>5 DEF Progress
    <2>2. CASE answer = "transient"
      <3>1. \A i \in 1..(row' - 1) : i \in 1..(row - 1) \/ at' = "idle"
        BY <1>1, <2>2 DEF Rows!Return
      <3>2. verdict' # "true"
        BY <1>2, <2>2 DEF Progress, Rows!Return
      <3>3. QED
        BY <1>2, <2>1, <3>1, <3>2 DEF Progress, Settled
    <2>3. CASE answer # "transient"
      <3>1. \A i \in 1..row : Settled(batch[i])'
        <4>1. \A i \in 1..row : i \in 1..(row - 1) \/ batch[i] = r
          BY <1>1
        <4>2. \A i \in 1..row : batch[i] = r => Settled(batch[i])'
          BY <1>2, <1>6, <2>3 DEF Settled
        <4>3. QED
          BY <2>1, <4>1, <4>2
      <3>2. CASE row < Len(batch)
        BY <1>1, <1>2, <2>3, <3>1, <3>2 DEF Progress, Settled
      <3>3. CASE ~(row < Len(batch))
        BY <1>1, <1>2, <2>3, <3>1, <3>3 DEF Progress, Settled, Rows!Return
      <3>4. QED
        BY <3>2, <3>3
    <2>4. QED
      BY <2>2, <2>3
  <1>10. Fresh'
    <2>1. CASE interrupted'
      BY <1>2, <1>3, <2>1 DEF Fresh
    <2>2. CASE ~interrupted'
      <3>1. /\ ~interrupted /\ answer # "transient"
            /\ \A x \in Row : table[x] <= 1
            /\ \A x \in Row : table[x] > 0 => \E i \in 1..(row - 1) : batch[i] = x
        BY <1>2, <1>3, <2>2 DEF Fresh
      <3>2. table[r] = 0
        BY <1>1, <1>4, <3>1
      <3>3. \A x \in Row : table'[x] <= 1
        BY <1>1, <1>3, <1>4, <3>1, <3>2
      <3>4. \A x \in Row : table'[x] > 0 => \E i \in 1..row : batch[i] = x
        BY <1>1, <1>3, <1>4, <3>1
      <3>5. (row' = row + 1 /\ at' = at) \/ (at' = "idle" /\ verdict' = "true")
        BY <3>1 DEF Rows!Return
      <3>6. \A x \in bad' : table'[x] = 0
        BY <1>2, <1>3
      <3>7. CASE row' = row + 1 /\ at' = at
        <4>1. 1..(row' - 1) = 1..row /\ batch' = batch
          BY <1>1, <1>2, <3>7
        <4>2. QED
          BY <3>3, <3>4, <3>6, <3>7, <4>1 DEF Fresh
      <3>8. CASE at' = "idle" /\ verdict' = "true"
        BY <3>3, <3>6, <3>8 DEF Fresh
      <3>9. QED
        BY <3>5, <3>7, <3>8
    <2>3. QED
      BY <2>1, <2>2
  <1>11. QED
    BY <1>8, <1>9, <1>10

\* The fallback, one statement per row.
LEMMA RowCallInv == ASSUME RowsInv, Rows!RowCall PROVE RowsInv'
  <1>1. PICK answer \in Rows!Answers({batch[row]}) :
            /\ Rows!Execute({batch[row]}, answer) /\ Rows!Warn({batch[row]}, answer)
            /\ Rows!AfterRow(answer)
    BY DEF Rows!RowCall
  <1>2. at = "rows" /\ UNCHANGED Rows!config /\ UNCHANGED rowByRow
    BY DEF Rows!RowCall
  <1>3. Typed' /\ Progress' /\ Fresh'
    BY <1>1, <1>2, RowTried DEF Rows!AfterRow, Rows!Again
  <1>4. Position'
    BY <1>1, <1>2 DEF Rows!AfterRow, Rows!Again, Rows!Return, Position
  <1>5. QED
    BY <1>3, <1>4 DEF RowsInv

\* The old procedure, row after row in one attempt.
LEMMA OldProcedureInv == ASSUME RowsInv, Rows!OldProcedure PROVE RowsInv'
  <1>1. PICK answer \in Rows!Answers({batch[row]}) :
            /\ Rows!Execute({batch[row]}, answer) /\ Rows!Warn({batch[row]}, answer)
            /\ IF answer = "transient"
               THEN \/ /\ retries < MaxRowRetries /\ retries' = retries + 1 /\ row' = 1
                       /\ UNCHANGED <<at, verdict>>
                    \/ Rows!Return("false")
               ELSE IF row < Len(batch) THEN row' = row + 1 /\ UNCHANGED <<at, verdict, retries>>
               ELSE Rows!Return("true")
    BY DEF Rows!OldProcedure
  <1>2. /\ at = "batch" /\ target = "postgres" /\ rowByRow
        /\ UNCHANGED Rows!config /\ UNCHANGED rowByRow
    BY DEF Rows!OldProcedure
  <1>3. Typed' /\ Progress' /\ Fresh'
    BY <1>1, <1>2, RowTried
  <1>4. Position'
    BY <1>1, <1>2 DEF Rows!Return, Position, Rows!config
  <1>5. QED
    BY <1>3, <1>4 DEF RowsInv

\* One statement for all rows: it settles them all, leaves it open what it did,
\* or is refused, which a single row answers for itself.
LEMMA BatchCallInv == ASSUME RowsInv, Rows!BatchCall PROVE RowsInv'
  <1> DEFINE R == Rows!RowsOfBatch
  <1>1. /\ batch \in Seq(Row) /\ Len(batch) \in Nat /\ Len(batch) > 0
        /\ R \in SUBSET Row /\ R = {batch[i] : i \in 1..Len(batch)}
    BY RowsAssumption DEF RowsInv, Typed, Rows!RowsOfBatch
  <1>2. /\ at = "batch" /\ UNCHANGED <<batch, bad, unique, target>>
        /\ Typed /\ Progress /\ Fresh /\ Position
    BY DEF RowsInv, Rows!config, Rows!BatchCall
  <1>3. CASE UNCHANGED <<retries, at, row, verdict, table, interrupted, warned>> /\ ~rowByRow
    BY <1>2, <1>3 DEF RowsInv, Typed, Progress, Fresh, Position, Settled
  <1>4. CASE \E answer \in Rows!Answers(R) :
                /\ Rows!Execute(R, answer) /\ Rows!AfterBatch(answer)
                /\ Rows!Warn(R, IF Len(batch) = 1 THEN answer ELSE "ok")
                /\ target = "postgres" => ~rowByRow
                /\ UNCHANGED rowByRow
    <2>1. PICK answer \in Rows!Answers(R) :
                /\ Rows!Execute(R, answer) /\ Rows!AfterBatch(answer)
                /\ Rows!Warn(R, IF Len(batch) = 1 THEN answer ELSE "ok")
                /\ target = "postgres" => ~rowByRow
                /\ UNCHANGED rowByRow
      BY <1>4
    <2>2. /\ table' \in [Row -> Nat] /\ interrupted' \in BOOLEAN
          /\ \A x \in bad : table'[x] = 0
          /\ \A x \in Row : table'[x] >= table[x]
          /\ \A x \in Row \ R : table'[x] = table[x]
          /\ unique => \A x \in Row : table'[x] <= 1
          /\ \A x \in R : table'[x] <= table[x] + 1
          /\ answer = "ok" => R \cap bad = {} /\ \A x \in R : table'[x] >= 1
          /\ answer = "refused" => R \cap bad # {} /\ table' = table
          /\ interrupted => interrupted'
          /\ answer = "transient" => interrupted'
          /\ answer \in {"ok", "refused", "transient"}
      BY <1>1, <1>2, <2>1, Effect
    <2>3. row = 1
      BY <1>2, <2>1 DEF Position
    <2>4. /\ row' = 1
          /\ \/ answer = "ok" /\ at' = "idle" /\ verdict' = "true"
             \/ answer = "transient" /\ UNCHANGED <<at, verdict>>
             \/ answer = "transient" /\ at' = "idle" /\ verdict' = "false"
             \/ answer = "refused" /\ Len(batch) = 1 /\ at' = "idle" /\ verdict' = "true"
             \/ answer = "refused" /\ Len(batch) # 1 /\ at' = "rows" /\ verdict' = verdict
      BY <2>1, <2>2, <2>3 DEF Rows!AfterBatch, Rows!Again, Rows!Return
    <2>5. /\ warned' \in SUBSET bad
          /\ answer = "refused" /\ Len(batch) = 1 => batch[1] \in warned' /\ batch[1] \in bad
      <3>1. warned \in SUBSET bad
        BY <1>2 DEF Typed
      <3>2. Len(batch) = 1 => R = {batch[1]}
        BY <1>1
      <3>3. QED
        BY <2>1, <2>2, <3>1, <3>2 DEF Rows!Warn
    <2>6. Typed'
      BY <1>1, <1>2, <2>2, <2>4, <2>5 DEF Typed
    <2>7. Progress'
      <3>1. CASE answer = "ok"
        <4>1. \A i \in 1..Len(batch) : batch[i] \in R /\ batch[i] \notin bad
          BY <1>1, <2>2, <3>1
        <4>2. QED
          BY <1>2, <2>2, <2>4, <3>1, <4>1 DEF Progress, Settled
      <3>2. CASE answer # "ok"
        BY <1>1, <1>2, <2>2, <2>4, <2>5, <3>2 DEF Progress, Settled
      <3>3. QED
        BY <3>1, <3>2
    <2>8. Fresh'
      <3>1. \A x \in bad' : table'[x] = 0
        BY <1>2, <2>2
      <3>2. CASE interrupted'
        BY <1>2, <2>2, <3>1, <3>2 DEF Fresh
      <3>3. CASE ~interrupted'
        <4>1. ~interrupted /\ answer # "transient" /\ \A x \in Row : table[x] = 0
          <5>1. ~interrupted /\ answer # "transient"
            BY <2>2, <3>3
          <5>2. \A x \in Row : ~(table[x] > 0)
            BY <1>2, <2>3, <5>1 DEF Fresh
          <5>3. \A x \in Row : table[x] \in Nat
            BY <1>2 DEF Typed
          <5>4. QED
            BY <5>1, <5>2, <5>3
        <4>2. \A x \in Row : table'[x] <= 1
          BY <1>1, <2>2, <4>1
        <4>3. CASE answer = "ok"
          BY <2>4, <3>1, <4>2, <4>3 DEF Fresh
        <4>4. CASE answer = "refused"
          BY <2>2, <2>4, <3>1, <4>1, <4>2, <4>4 DEF Fresh
        <4>5. QED
          BY <2>2, <4>1, <4>3, <4>4
      <3>4. QED
        BY <3>2, <3>3
    <2>9. Position'
      BY <1>2, <2>4 DEF Position
    <2>10. QED
      BY <2>6, <2>7, <2>8, <2>9 DEF RowsInv
  <1>5. QED
    BY <1>3, <1>4 DEF Rows!BatchCall

\* What store promises follows from the invariant.
LEMMA InvHonest == ASSUME RowsInv PROVE Rows!StoreIsHonest
  <1>1. /\ batch \in Seq(Row) /\ Rows!RowsOfBatch = {batch[i] : i \in 1..Len(batch)}
        /\ \A r \in Row : table[r] \in Nat
    BY RowsAssumption DEF RowsInv, Typed, Rows!RowsOfBatch
  <1>2. ASSUME verdict = "true", NEW r \in Rows!RowsOfBatch
        PROVE  IF r \in bad THEN r \in warned ELSE table[r] >= 1
    BY <1>1, <1>2 DEF RowsInv, Progress, Settled
  <1>3. warned \subseteq bad /\ \A r \in bad : table[r] = 0
    BY DEF RowsInv, Typed, Fresh
  <1>4. \A r \in Row : table[r] > 1 => ~unique /\ interrupted
    BY <1>1 DEF RowsInv, Fresh
  <1>5. QED
    BY <1>2, <1>3, <1>4 DEF Rows!StoreIsHonest

RowsHold == part = "rows" => RowsInv

\* The invariant of the store call holds in every state of its behaviours.
LEMMA RowsAlways == Spec => []RowsHold
  <1>1. Init => RowsHold
    BY InitRows DEF Init, RowsHold
  <1>2. RowsHold /\ [Next]_vars => RowsHold'
    <2> SUFFICES ASSUME part' = "rows", RowsHold, [Next]_vars PROVE RowsInv'
      BY DEF RowsHold
    <2>1. CASE UNCHANGED vars
      BY <2>1 DEF vars, ofRows, RowsHold, RowsInv, Typed, Progress, Fresh, Position, Settled
    <2>2. CASE RowsNext
      BY <2>2, StartInv, BatchCallInv, OldProcedureInv, RowCallInv, FlagInv
         DEF RowsNext, RowsHold, Rows!Next
    <2>3. QED
      BY <2>1, <2>2 DEF Next, ScanNext, AckedNext, FetchNext
  <1>3. QED
    BY <1>1, <1>2, PTL DEF Spec

\* The rows of a batch are rows, one for each index.
LEMMA BatchRows ==
    ASSUME RowsInv
    PROVE  /\ batch \in Seq(Row) /\ Rows!RowsOfBatch = {batch[i] : i \in 1..Len(batch)}
           /\ Rows!RowsOfBatch \in SUBSET Row
  <1>1. batch \in Seq(Row)
    BY RowsAssumption DEF RowsInv, Typed
  <1>2. DOMAIN batch = 1..Len(batch) /\ \A i \in 1..Len(batch) : batch[i] \in Row
    BY <1>1
  <1>3. QED
    BY <1>1, <1>2 DEF Rows!RowsOfBatch

\* What a statement and its answer leave behind, seen from the batcher: rows of the
\* batch are stored or refused, each for good, and TRUE is answered for all of them.
LEMMA StatementWorks ==
    ASSUME RowsInv, RowsInv', at # "idle", UNCHANGED Rows!config,
           NEW R \in SUBSET Rows!RowsOfBatch, NEW answer \in Rows!Answers(R),
           Rows!Execute(R, answer),
           \/ UNCHANGED warned
           \/ warned' = warned \cup R /\ R \subseteq bad,
           \/ at' # "idle" /\ UNCHANGED verdict
           \/ at' = "idle" /\ verdict' = "true"
           \/ at' = "idle" /\ verdict' = "false" /\ answer = "transient"
    PROVE  Rows!Call!Work
  <1>1. /\ batch \in Seq(Row) /\ Rows!RowsOfBatch = {batch[i] : i \in 1..Len(batch)}
        /\ Rows!RowsOfBatch \in SUBSET Row
    BY BatchRows
  <1>0. UNCHANGED <<batch, bad>> /\ Rows!RowsOfBatch' = Rows!RowsOfBatch
    BY DEF Rows!RowsOfBatch, Rows!config
  <1> DEFINE had == {r \in Row : table[r] > 0}
             has == {r \in Row : table'[r] > 0}
  <1>2. /\ table' \in [Row -> Nat] /\ table \in [Row -> Nat]
        /\ \A r \in bad : table'[r] = 0
        /\ \A r \in Row : table'[r] >= table[r]
        /\ \A r \in Row \ R : table'[r] = table[r]
    <2>1. R \in SUBSET Row /\ UNCHANGED <<bad, unique>> /\ Typed /\ Fresh
      BY <1>0, <1>1 DEF RowsInv, Rows!config
    <2>2. QED
      BY <2>1, Effect DEF Typed
  <1>3. \E S \in SUBSET (Rows!RowsOfBatch \ bad) : has = had \cup S
    <2>1. (has \ had) \in SUBSET (Rows!RowsOfBatch \ bad)
      BY <1>1, <1>2
    <2>2. had \subseteq has
      BY <1>2
    <2>3. QED
      BY <2>1, <2>2
  <1>4. \E S \in SUBSET (Rows!RowsOfBatch \cap bad) : warned' = warned \cup S
    <2>1. CASE UNCHANGED warned
      <3>1. {} \in SUBSET (Rows!RowsOfBatch \cap bad) /\ warned' = warned \cup {}
        BY <2>1
      <3>2. QED
        BY <3>1
    <2>2. CASE warned' = warned \cup R /\ R \subseteq bad
      BY <2>2
    <2>3. QED
      BY <2>1, <2>2
  <1>5. /\ interrupted' \in {interrupted, TRUE}
        /\ answer = "transient" => interrupted'
    BY Zenon DEF Rows!Execute, RowsInv, Typed
  <1>6. verdict' = "true" => Rows!RowsOfBatch \subseteq has \cup warned'
    <2>1. ASSUME verdict' = "true", NEW i \in 1..Len(batch)
          PROVE  batch[i] \in has \cup warned'
      <3>1. IF batch[i] \in bad THEN batch[i] \in warned' ELSE table'[batch[i]] >= 1
        BY <1>0, <2>1 DEF RowsInv, Progress, Settled
      <3>2. QED
        BY <1>1, <1>2, <3>1
    <2>2. QED
      BY <1>1, <2>1
  <1>7. QED
    BY <1>0, <1>1, <1>3, <1>4, <1>5, <1>6 DEF Rows!Call!Work, Rows!Call!Answer

\* Each step of the store call is one of the call the batcher relies on, or leaves it
\* as it is.
LEMMA StepCalls ==
    ASSUME RowsInv, RowsInv', Rows!Next
    PROVE  Rows!Call!CallNext \/ UNCHANGED Rows!Call!callVars
  <1>1. CASE Rows!Start
    BY <1>1 DEF Rows!Start, Rows!config, Rows!RowsOfBatch, Rows!Call!CallNext, Rows!Call!Begin
  <1>2. CASE Rows!OtherSinkFallsBack
    BY <1>2 DEF Rows!OtherSinkFallsBack, Rows!config, Rows!RowsOfBatch, Rows!Call!callVars
  <1>3. CASE Rows!BatchCall
    <2>1. at = "batch" /\ UNCHANGED Rows!config
      BY <1>3 DEF Rows!BatchCall
    <2>2. CASE UNCHANGED <<at, verdict, table, interrupted, warned>>
      BY <2>1, <2>2 DEF Rows!config, Rows!RowsOfBatch, Rows!Call!callVars
    <2>3. CASE \E answer \in Rows!Answers(Rows!RowsOfBatch) :
                  /\ Rows!Execute(Rows!RowsOfBatch, answer) /\ Rows!AfterBatch(answer)
                  /\ Rows!Warn(Rows!RowsOfBatch, IF Len(batch) = 1 THEN answer ELSE "ok")
      <3>1. PICK answer \in Rows!Answers(Rows!RowsOfBatch) :
                  /\ Rows!Execute(Rows!RowsOfBatch, answer) /\ Rows!AfterBatch(answer)
                  /\ Rows!Warn(Rows!RowsOfBatch, IF Len(batch) = 1 THEN answer ELSE "ok")
        BY <2>3
      <3>2. \/ at' # "idle" /\ UNCHANGED verdict
            \/ at' = "idle" /\ verdict' = "true"
            \/ at' = "idle" /\ verdict' = "false" /\ answer = "transient"
        BY <2>1, <3>1 DEF Rows!AfterBatch, Rows!Again, Rows!Return, Rows!Answers
      <3>3. answer = "refused" /\ Len(batch) = 1 => Rows!RowsOfBatch \subseteq bad
        <4>1. batch \in Seq(Row)
          BY RowsAssumption DEF RowsInv, Typed
        <4>2. Len(batch) = 1 => Rows!RowsOfBatch = {batch[1]}
          BY <4>1 DEF Rows!RowsOfBatch
        <4>3. answer = "refused" => Rows!RowsOfBatch \cap bad # {}
          BY DEF Rows!Answers
        <4>4. QED
          BY <4>2, <4>3
      <3>4. \/ UNCHANGED warned
            \/ warned' = warned \cup Rows!RowsOfBatch /\ Rows!RowsOfBatch \subseteq bad
        BY <3>1, <3>3 DEF Rows!Warn
      <3>5. Rows!Call!Work
        BY <2>1, <3>1, <3>2, <3>4, StatementWorks
      <3>6. QED
        BY <3>5 DEF Rows!Call!CallNext
    <2>4. QED
      BY <1>3, <2>2, <2>3 DEF Rows!BatchCall
  <1>4. CASE Rows!OldProcedure \/ Rows!RowCall
    <2>1. PICK answer \in Rows!Answers({batch[row]}) :
              /\ Rows!Execute({batch[row]}, answer) /\ Rows!Warn({batch[row]}, answer)
              /\ \/ at' # "idle" /\ UNCHANGED verdict
                 \/ at' = "idle" /\ verdict' = "true"
                 \/ at' = "idle" /\ verdict' = "false" /\ answer = "transient"
      BY <1>4 DEF Rows!OldProcedure, Rows!RowCall, Rows!AfterRow, Rows!Again, Rows!Return
    <2>2. at # "idle" /\ UNCHANGED Rows!config
      BY <1>4 DEF Rows!OldProcedure, Rows!RowCall
    <2>3. {batch[row]} \in SUBSET Rows!RowsOfBatch
      BY BatchRows DEF RowsInv, Typed
    <2>4. \/ UNCHANGED warned
          \/ warned' = warned \cup {batch[row]} /\ {batch[row]} \subseteq bad
      BY <2>1 DEF Rows!Warn, Rows!Answers
    <2>5. Rows!Call!Work
      BY <2>1, <2>2, <2>3, <2>4, StatementWorks
    <2>6. QED
      BY <2>5 DEF Rows!Call!CallNext
  <1>5. QED
    BY <1>1, <1>2, <1>3, <1>4 DEF Rows!Next

\* A database sink forgets a batch only when each of its rows is stored or was
\* refused and logged, and no row is stored twice for another reason than an
\* unanswered statement (db.rs:191, clickhouse.rs:283). And any chain of statements,
\* retries, fallbacks and drains is what the calls the batcher relies on may do
\* (batch.rs:33): rows are stored or refused in a call only, each for good, FALSE is
\* answered only after an outage, and a batch answered TRUE is not offered again. All
\* that for any batches, any retry budget, and another sink's fallback at any moment.
THEOREM Honest == Spec => StoreKeepsPromise
  <1>1. RowsHold => StoreIsHonest
    BY InvHonest DEF RowsHold, StoreIsHonest
  <1>2. Init => (part = "rows" => Rows!Call!CallInit)
    BY DEF Init, Rows!Init, Rows!Call!CallInit
  <1>3. RowsHold /\ RowsHold' /\ [Next]_vars
            => [part = "rows" => [Rows!Call!CallNext]_(Rows!Call!callVars)]_vars
    <2> SUFFICES ASSUME RowsHold, RowsHold', Next, part = "rows"
                 PROVE  Rows!Call!CallNext \/ UNCHANGED Rows!Call!callVars
      OBVIOUS
    <2>1. Rows!Next /\ part' = "rows"
      BY DEF Next, ScanNext, AckedNext, RowsNext, FetchNext
    <2>2. QED
      BY <2>1, StepCalls DEF RowsHold
  <1>4. QED
    BY <1>1, <1>2, <1>3, RowsAlways, PTL DEF Spec, StoreKeepsPromise

(***************************************************************************)
(* The HTTP exchange                                                       *)
(***************************************************************************)

\* The configured headers of the next request may go where it goes.
Headers ==
    /\ \A h \in request.headers : h.from = "config" => h.name \in Configured
    /\ (\E h \in request.headers : h.from = "config") /\ anchor # None
           => Fetch!IsHome(request.url)

\* A retry of reqwest starts from the configured URL.
Restarts ==
    client # "poll" =>
        /\ original.url = anchor
        /\ \A h \in original.headers : h.from = "config" => h.name \in Configured

\* The headers that were sent, were sent home.
Stays == \A x \in exposed : x[1].from = "config" /\ anchor # None => Fetch!IsHome(x[2])

Home == Headers /\ Restarts /\ Stays

\* Where headers may go from a place they may be, they may be.
LEMMA HomeComposes ==
    ASSUME NEW from, NEW to, Fetch!IsHome(from), Fetch!MayForwardHeaders(from, to)
    PROVE  Fetch!IsHome(to)
  BY DEF Fetch!IsHome, Fetch!MayForwardHeaders, Fetch!IsCrossOrigin

\* What carries the mark of the configuration has one of its names.
LEMMA ConfigName ==
    ASSUME NEW own, \A h \in own : h.from = "driver"
    PROVE  \A h \in Fetch!WithConfigured(own) : h.from = "config" => h.name \in Configured
  BY DEF Fetch!WithConfigured, Fetch!FromConfig

\* A configured header is only left where the middleware forwards it.
LEMMA StrippedHeaders ==
    ASSUME NEW headers, NEW from, NEW to,
           \A h \in headers : h.from = "config" => h.name \in Configured
    PROVE  /\ Fetch!Stripped(headers, from, to) \subseteq headers
           /\ \A h \in Fetch!Stripped(headers, from, to) :
                 h.from = "config" => Fetch!MayForwardHeaders(from, to)
  BY DEF Fetch!Stripped, Fetch!MayForwardHeaders

\* The first request has the headers at home.
LEMMA InitHome == Fetch!Init => Home
  <1> SUFFICES ASSUME Fetch!Init PROVE Home
    OBVIOUS
  <1>1. PICK url \in Url, body \in BOOLEAN, auth \in BOOLEAN :
          LET own == IF auth THEN {[name |-> "authorization", from |-> "driver"]} ELSE {}
          IN  /\ client = "reqwest" => url = anchor
              /\ request = [url |-> url, body |-> body,
                            headers |-> IF client = "poll" THEN Fetch!PollHeaders(url, own)
                                        ELSE Fetch!WithConfigured(own)]
    BY DEF Fetch!Init
  <1> DEFINE own == IF auth THEN {[name |-> "authorization", from |-> "driver"]} ELSE {}
  <1>2. /\ \A h \in own : h.from = "driver"
        /\ request.url = url
        /\ request.headers = IF client = "poll" THEN Fetch!PollHeaders(url, own)
                             ELSE Fetch!WithConfigured(own)
        /\ client \in {"poll", "reqwest"}
        /\ client = "reqwest" => url = anchor
    BY <1>1 DEF Fetch!Init
  <1> HIDE DEF own
  <1>3. \A h \in request.headers : h.from = "config" => h.name \in Configured
    BY <1>2, ConfigName DEF Fetch!PollHeaders
  <1>4. ASSUME NEW h \in request.headers, h.from = "config", anchor # None PROVE Fetch!IsHome(url)
    <2>1. CASE client = "reqwest"
      BY <1>2, <2>1 DEF Fetch!IsHome
    <2>2. CASE client = "poll"
      <3>1. request.headers # own
        BY <1>2, <1>4
      <3>2. ~Fetch!IsCrossOrigin(anchor, url)
        BY <1>2, <1>4, <2>2, <3>1 DEF Fetch!PollHeaders
      <3>3. QED
        BY <3>2 DEF Fetch!IsHome
    <2>3. QED
      BY <1>2, <2>1, <2>2
  <1>5. Restarts /\ Stays
    BY <1>2, <1>3 DEF Fetch!Init, Restarts, Stays
  <1>6. QED
    BY <1>2, <1>3, <1>4, <1>5 DEF Home, Headers

\* No hop and no retry takes them away.
LEMMA NextHome == Home /\ [Fetch!Next]_(Fetch!vars) => Home'
  <1> SUFFICES ASSUME Home, [Fetch!Next]_(Fetch!vars) PROVE Home'
    OBVIOUS
  <1> USE DEF Fetch!chain
  <1>1. CASE Fetch!Send \/ Fetch!Fail
    <2>1. /\ exposed' = exposed \cup {<<h, request.url>> : h \in request.headers}
          /\ UNCHANGED <<client, anchor, original, request>>
      BY <1>1 DEF Fetch!Send, Fetch!Fail
    <2>2. ASSUME NEW x \in exposed', x[1].from = "config", anchor # None PROVE Fetch!IsHome(x[2])
      BY <2>1, <2>2 DEF Home, Headers, Stays
    <2>3. QED
      BY <2>1, <2>2 DEF Home, Headers, Restarts, Stays, Fetch!IsHome
  <1>2. CASE Fetch!RetryTransient
    <2>1. /\ UNCHANGED <<client, anchor, original, exposed>>
          /\ request' = IF client = "poll" THEN request ELSE original
      BY <1>2 DEF Fetch!RetryTransient
    <2>2. CASE client = "poll"
      BY <2>1, <2>2 DEF Home, Headers, Restarts, Stays, Fetch!IsHome
    <2>3. CASE client # "poll"
      BY <2>1, <2>3 DEF Home, Headers, Restarts, Stays, Fetch!IsHome
    <2>4. QED
      BY <2>2, <2>3
  <1>3. CASE Fetch!FollowRedirect
    <2> DEFINE from == request.url
               to == response.location
    <2>1. /\ UNCHANGED <<client, anchor, original, exposed>>
          /\ request'.url = to /\ request'.headers = Fetch!Stripped(request.headers, from, to)
      BY <1>3 DEF Fetch!FollowRedirect
    <2>2. ASSUME NEW h \in Fetch!Stripped(request.headers, from, to), h.from = "config"
          PROVE  h \in request.headers /\ h.name \in Configured
                 /\ (anchor # None => Fetch!IsHome(to))
      BY <2>2, StrippedHeaders, HomeComposes DEF Home, Headers
    <2>3. Headers'
      BY <2>1, <2>2 DEF Headers, Fetch!IsHome
    <2>4. QED
      BY <2>1, <2>3 DEF Home, Restarts, Stays, Fetch!IsHome
  <1>4. CASE Fetch!FollowInside
    <2> DEFINE to == response.location
    <2>1. /\ UNCHANGED <<client, anchor, original, exposed>> /\ client = "reqwest"
          /\ request'.url = to /\ request'.headers \subseteq request.headers /\ Fetch!Allowed(to)
      BY <1>4 DEF Fetch!FollowInside
    <2>2. Configured # {} => Fetch!IsHome(to)
      BY <2>1 DEF Home, Restarts, Fetch!Allowed, Fetch!MayForwardHeaders, Fetch!IsHome
    <2>3. Headers'
      BY <2>1, <2>2 DEF Home, Headers, Fetch!IsHome
    <2>4. QED
      BY <2>1, <2>3 DEF Home, Restarts, Stays, Fetch!IsHome
  <1>5. CASE Fetch!RetryAfter \/ Fetch!Return \/ UNCHANGED Fetch!vars
    BY <1>5 DEF Fetch!RetryAfter, Fetch!Return, Fetch!vars, Home, Headers, Restarts, Stays,
                Fetch!IsHome
  <1>6. QED
    BY <1>1, <1>2, <1>3, <1>4, <1>5 DEF Fetch!Next

\* 1 as long as the answer of the last request is being handled.
Pending == IF at = "send" THEN 0 ELSE 1

\* What the counters allow for the requests sent so far: the middleware of a poll
\* counts the transient retries afresh for each request, reqwest counts the hops
\* afresh for each retry.
PollBudget == (hops + retries) * (1 + MaxTransient) + transients + Pending
OwnBudget  == transients * (1 + MaxRedirects) + hops + Pending

Budget ==
    /\ hops \in 0..MaxRedirects /\ retries \in 0..MaxRetries /\ transients \in 0..MaxTransient
    /\ sent \in Nat /\ at \in {"send", "handle", "done"}
    /\ client = "poll" => sent <= PollBudget
    /\ client # "poll" => sent <= OwnBudget

\* Two facts of multiplication.
LEMMA Times ==
    ASSUME NEW a \in Nat, NEW b \in Nat
    PROVE  a * b \in Nat /\ (a + 1) * b = a * b + b
  OBVIOUS

LEMMA TimesGrows ==
    ASSUME NEW a \in Nat, NEW b \in Nat, NEW c \in 0..a
    PROVE  c * b <= a * b
  OBVIOUS

\* No request was sent yet.
LEMMA InitBudget == Fetch!Init => Budget
  BY FetchAssumption, Times DEF Fetch!Init, Budget, PollBudget, OwnBudget, Pending

\* Each request is paid for by the counter of the step that made it ready.
LEMMA NextBudget == ASSUME Budget, [Fetch!Next]_(Fetch!vars) PROVE Budget'
  <1> USE FetchAssumption DEF Budget, PollBudget, OwnBudget, Pending, Fetch!chain
  <1>1. CASE Fetch!Send \/ Fetch!Fail
    <2>1. /\ at = "send" /\ at' = "handle" /\ sent' = sent + 1
          /\ UNCHANGED <<client, hops, retries, transients>>
      BY <1>1 DEF Fetch!Send, Fetch!Fail
    <2>2. QED
      BY <2>1, Times
  <1>2. CASE Fetch!RetryTransient
    <2>1. /\ at = "handle" /\ at' = "send" /\ transients < MaxTransient
          /\ transients' = transients + 1 /\ UNCHANGED <<client, retries, sent>>
          /\ hops' = IF client = "poll" THEN hops ELSE 0
      BY <1>2 DEF Fetch!RetryTransient
    <2>2. QED
      BY <2>1, Times
  <1>3. CASE Fetch!FollowRedirect \/ Fetch!RetryAfter
    <2>1. /\ at = "handle" /\ at' = "send" /\ client = "poll" /\ transients' = 0
          /\ UNCHANGED <<client, sent>>
          /\ \/ hops < MaxRedirects /\ hops' = hops + 1 /\ retries' = retries
             \/ retries < MaxRetries /\ retries' = retries + 1 /\ hops' = hops
      BY <1>3 DEF Fetch!FollowRedirect, Fetch!RetryAfter, Fetch!Redirected, Fetch!AskedToWait
    <2>2. hops' + retries' = (hops + retries) + 1
      BY <2>1
    <2>3. (hops' + retries') * (1 + MaxTransient)
             = (hops + retries) * (1 + MaxTransient) + (1 + MaxTransient)
      <3>1. \A a, b \in Nat : (a + 1) * b = a * b + b
        BY Times
      <3>2. hops + retries \in Nat /\ 1 + MaxTransient \in Nat
        OBVIOUS
      <3>3. QED
        BY <2>2, <3>1, <3>2
    <2>4. QED
      BY <2>1, <2>3, Times
  <1>4. CASE Fetch!FollowInside
    <2>1. /\ at = "handle" /\ at' = "send" /\ client # "poll" /\ hops < MaxRedirects
          /\ hops' = hops + 1 /\ UNCHANGED <<client, retries, transients, sent>>
      BY <1>4 DEF Fetch!FollowInside, Fetch!Redirected
    <2>2. QED
      BY <2>1, Times
  <1>5. CASE Fetch!Return \/ UNCHANGED Fetch!vars
    <2>1. /\ at' = at \/ (at = "handle" /\ at' = "done")
          /\ UNCHANGED <<client, hops, retries, transients, sent>>
      BY <1>5 DEF Fetch!Return, Fetch!vars
    <2>2. QED
      BY <2>1, Times
  <1>6. QED
    BY <1>1, <1>2, <1>3, <1>4, <1>5 DEF Fetch!Next

\* The counters have limits, so the requests have one.
LEMMA InBudget ==
    ASSUME Budget
    PROVE  sent <= (1 + MaxRedirects + MaxRetries) * (1 + MaxTransient)
  BY FetchAssumption, Times, TimesGrows DEF Budget, PollBudget, OwnBudget, Pending

\* The configured headers of a request never leave for an origin that is neither
\* theirs nor trusted, nor for clear text, over any chain of redirects and
\* retries, and the chain ends (retry_after_middleware.rs:144, header.rs:222).
THEOREM HeadersHome == Spec => []HeadersStayHome
  <1> DEFINE Inv == part = "fetch" => Home /\ Budget
  <1>1. Init => Inv
    BY InitHome, InitBudget DEF Init
  <1>2. Inv /\ [Next]_vars => Inv'
    <2> SUFFICES ASSUME part' = "fetch", Inv, [Next]_vars PROVE (Home /\ Budget)'
      OBVIOUS
    <2>1. part = "fetch" /\ [Fetch!Next]_(Fetch!vars)
      BY DEF vars, ofFetch, Fetch!vars, Fetch!chain, Next, ScanNext, AckedNext, RowsNext, FetchNext
    <2>2. QED
      BY <2>1, NextHome, NextBudget
  <1>3. Inv => HeadersStayHome
    BY InBudget DEF Home, Stays, HeadersStayHome, Fetch!HeadersStayHome
  <1>4. QED
    BY <1>1, <1>2, <1>3, PTL DEF Spec
=============================================================================
