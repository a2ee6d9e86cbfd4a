------------------------------ MODULE RowStore ------------------------------
(***************************************************************************)
(* BatchStore::store of the database sinks (sinks/db.rs,                   *)
(* sinks/clickhouse.rs) with the retries of sinks/retry.rs: one call for   *)
(* the whole batch, one per row when the batch is refused. The batcher     *)
(* (Batcher) calls it with the oldest chunk until it returns TRUE.         *)
(*                                                                         *)
(* A database refuses a row for good, or does not answer: then the caller  *)
(* cannot tell whether the statement was executed.                         *)
(***************************************************************************)
EXTENDS Integers, FiniteSets, Sequences

CONSTANTS
    Row,
    Batches,     \* the sequences of rows to store
    MaxRetries,  \* bound: the retries within total_duration_of_retries
    MaxDrains    \* bound: how often the batcher offers the batch

VARIABLES
    batch,
    target,      \* "postgres" or "clickhouse"
    bad,         \* the rows the database refuses
    batchCall,   \* whether it takes several rows: store_cdevents exists, or the
                 \* template ends in VALUES (...)
    unique,      \* whether it ignores a row it has: a constraint on the id
    rowByRow,    \* USE_STORE_CDEVENT, one for all sinks of the process
    drains, retries,
    at,          \* "idle", "batch" or "rows"
    row,         \* the index of the row to store next
    verdict,     \* what store returned
    table,       \* table[r]: how often row r is stored
    interrupted, \* whether some statement was not answered
    warned       \* rows refused, with a warning

config == <<batch, target, bad, batchCall, unique>>
vars   == <<config, rowByRow, drains, retries, at, row, verdict, table, interrupted, warned>>

Init ==
    /\ batch \in Batches
    /\ target \in {"postgres", "clickhouse"}
    /\ bad \in SUBSET Row /\ batchCall \in BOOLEAN /\ unique \in BOOLEAN
    /\ rowByRow = FALSE
    /\ drains = 0 /\ retries = 0 /\ at = "idle" /\ row = 1 /\ verdict = "none"
    /\ table = [r \in Row |-> 0] /\ interrupted = FALSE /\ warned = {}

(***************************************************************************)
(* The database: what a statement with the rows R may answer.              *)
(***************************************************************************)

Inserted(R) == [r \in Row |-> IF r \notin R THEN table[r]
                              ELSE IF unique THEN 1 ELSE table[r] + 1]

Answers(R) == IF R \cap bad = {} THEN {"ok", "transient"} ELSE {"refused", "transient"}

\* The effect: a statement is atomic; one that is not answered may have been
\* executed.
Execute(R, answer) ==
    /\ interrupted' = (interrupted \/ answer = "transient")
    /\ \/ /\ answer = "ok" \/ (answer = "transient" /\ R \cap bad = {})
          /\ table' = Inserted(R)
       \/ answer # "ok" /\ UNCHANGED table

(***************************************************************************)
(* store                                                                   *)
(***************************************************************************)

RowsOfBatch == {batch[i] : i \in DOMAIN batch}

\* Without a statement for several rows ClickHouse starts row by row; postgres
\* finds out by the first call.
Start ==
    /\ at = "idle" /\ drains < MaxDrains /\ verdict # "true"
    /\ drains' = drains + 1 /\ retries' = 0 /\ row' = 1 /\ verdict' = "none"
    /\ at' = IF target = "clickhouse" /\ ~batchCall THEN "rows" ELSE "batch"
    /\ UNCHANGED <<config, rowByRow, table, interrupted, warned>>

Return(v) == /\ at' = "idle" /\ verdict' = v /\ row' = 1 /\ retries' = 0

\* retry_on_transient: again, or give up once the duration is over.
Again == /\ retries < MaxRetries /\ retries' = retries + 1
         /\ UNCHANGED <<at, row, verdict>>

\* retry_on_transient returned an answer for the batch.
AfterBatch(answer) ==
    CASE answer = "ok"        -> Return("true")
      [] answer = "transient" -> Again \/ Return("false")
      [] answer = "refused"   -> IF Len(batch) = 1 THEN Return("true")
                                 ELSE /\ at' = "rows" /\ row' = 1 /\ retries' = 0
                                      /\ UNCHANGED verdict

\* Fault: a row the database refuses keeps the batch for the next drain.
AfterRowKeeping(answer) ==
    IF answer # "ok" THEN Again \/ Return("false")
    ELSE IF row < Len(batch)
    THEN /\ row' = row + 1 /\ retries' = 0 /\ UNCHANGED <<at, verdict>>
    ELSE Return("true")

\* The same for one row of the fallback: only an unreachable database keeps the
\* batch for the next drain.
AfterRow(answer) ==
    IF answer = "transient" THEN Again \/ Return("false")
    ELSE IF row < Len(batch)
    THEN /\ row' = row + 1 /\ retries' = 0 /\ UNCHANGED <<at, verdict>>
    ELSE Return("true")

Warn(R, answer) == warned' = IF answer = "refused" THEN warned \cup R ELSE warned

\* One statement for all rows: CALL store_cdevents, or batch_sql. Postgres: the
\* procedure may be missing (42883), which is remembered for the process.
BatchCall ==
    /\ at = "batch"
    /\ IF target = "postgres" /\ ~rowByRow /\ ~batchCall
       THEN /\ rowByRow' = TRUE
            /\ UNCHANGED <<retries, at, row, verdict, table, interrupted, warned>>
       ELSE /\ target = "postgres" => ~rowByRow
            /\ \E answer \in Answers(RowsOfBatch) :
                 /\ Execute(RowsOfBatch, answer) /\ AfterBatch(answer)
                 /\ Warn(RowsOfBatch, IF Len(batch) = 1 THEN answer ELSE "ok")
            /\ UNCHANGED rowByRow
    /\ UNCHANGED <<config, drains>>

\* store_events_batch with the old procedure: row after row in one attempt. A
\* row that is refused is dropped; after a transient error the attempt, and
\* with it the retry, begins with the first row again.
OldProcedure ==
    /\ at = "batch" /\ target = "postgres" /\ rowByRow
    /\ \E answer \in Answers({batch[row]}) :
         /\ Execute({batch[row]}, answer) /\ Warn({batch[row]}, answer)
         /\ IF answer = "transient"
            THEN \/ /\ retries < MaxRetries /\ retries' = retries + 1 /\ row' = 1
                    /\ UNCHANGED <<at, verdict>>
                 \/ Return("false")
            ELSE IF row < Len(batch) THEN row' = row + 1 /\ UNCHANGED <<at, verdict, retries>>
            ELSE Return("true")
    /\ UNCHANGED <<config, rowByRow, drains>>

\* The fallback after a refused batch: one statement per row. With postgres
\* each is a store_events_batch of one row, by the old procedure Ok even if the
\* row is refused.
RowCall ==
    /\ at = "rows"
    /\ \E answer \in Answers({batch[row]}) :
         /\ Execute({batch[row]}, answer) /\ Warn({batch[row]}, answer)
         /\ AfterRow(answer)
    /\ UNCHANGED <<config, rowByRow, drains>>

\* Another sink of the process, on an older schema, sets the flag.
OtherSinkFallsBack ==
    /\ ~rowByRow /\ target = "postgres" /\ rowByRow' = TRUE
    /\ UNCHANGED <<config, drains, retries, at, row, verdict, table, interrupted, warned>>

Next == Start \/ BatchCall \/ OldProcedure \/ RowCall \/ OtherSinkFallsBack

Spec == Init /\ [][Next]_vars

-----------------------------------------------------------------------------
\* Once store returns TRUE, and only then does the batcher forget the batch,
\* every row is stored or was refused with a warning, whichever statements were
\* tried, and only refused rows are missing: a row the database would take is
\* not lost for the sake of a bad one (db.rs:191, clickhouse.rs:283). A row is
\* stored twice only without a unique constraint, and after an error that left
\* it open what was stored (db.rs:283).
StoreIsHonest ==
    /\ verdict = "true" => \A r \in RowsOfBatch : r \in bad \/ table[r] >= 1
    /\ verdict = "true" => bad \cap RowsOfBatch \subseteq warned
    /\ \A r \in bad : table[r] = 0
    /\ warned \subseteq bad
    /\ \A r \in Row : table[r] > 1 => ~unique /\ interrupted

\* The call the batcher relies on (batch.rs:33), seen from here.
Call == INSTANCE StoreCall
            WITH batch <- RowsOfBatch, refusable <- bad, calling <- at # "idle",
                 stored <- {r \in Row : table[r] > 0}, refused <- warned, outage <- interrupted
=============================================================================
