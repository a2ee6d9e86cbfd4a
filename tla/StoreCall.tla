----------------------------- MODULE StoreCall -----------------------------
(***************************************************************************)
(* What BatchStore::store promises to the batcher (sinks/batch.rs:33),     *)
(* with no statement, retry or fallback in sight:                          *)
(*   - a call stores rows of its batch and refuses rows of its batch, each *)
(*     for good, and touches no other row;                                 *)
(*   - it answers TRUE only once every row of the batch is stored or was   *)
(*     refused, in this call or an earlier one; it answers FALSE only      *)
(*     after an outage, never for a refused row, and what it did by then   *)
(*     stays done;                                                         *)
(*   - between two calls nothing is stored, and after TRUE the batch is    *)
(*     not offered again.                                                  *)
(* StoreChunk and StoreFails of Batcher are such a call from its beginning *)
(* to its answer, as one step.                                             *)
(***************************************************************************)

VARIABLES batch,      \* the rows to store
          refusable,  \* the rows the target refuses for good
          calling,    \* a call is under way
          verdict,    \* the answer of the last call: "none", "true" or "false"
          stored,     \* rows the target has
          refused,    \* rows it refused
          outage      \* it was unreachable, in this call or an earlier one

callVars == <<batch, refusable, calling, verdict, stored, refused, outage>>

CallInit ==
    /\ calling = FALSE /\ verdict = "none"
    /\ stored = {} /\ refused = {} /\ outage = FALSE

Begin ==
    /\ ~calling /\ verdict # "true"
    /\ calling' = TRUE /\ verdict' = "none"
    /\ UNCHANGED <<batch, refusable, stored, refused, outage>>

Answer(v) ==
    /\ calling' = FALSE /\ verdict' = v
    /\ v = "true"  => batch \subseteq stored' \cup refused'
    /\ v = "false" => outage'

Work ==
    /\ calling
    /\ \E S \in SUBSET (batch \ refusable) : stored' = stored \cup S
    /\ \E R \in SUBSET (batch \cap refusable) : refused' = refused \cup R
    /\ outage' \in {outage, TRUE}
    /\ UNCHANGED <<calling, verdict>> \/ Answer("true") \/ Answer("false")
    /\ UNCHANGED <<batch, refusable>>

CallNext == Begin \/ Work

CallSpec == CallInit /\ [][CallNext]_callVars
=============================================================================
