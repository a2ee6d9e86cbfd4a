--------------------------- MODULE ReliableBuffer ---------------------------
(***************************************************************************)
(* What the batcher of the database sinks promises to the sink that pushes *)
(* events into it, with no slot, channel, chunk or task in sight:          *)
(*   - an event that was pushed is owed to the target until it is settled  *)
(*     (stored, or definitively rejected by the target);                   *)
(*   - an event that reached the spool is forgotten by the spool only once *)
(*     it is settled;                                                      *)
(*   - the end of the process drops only owed events that no spool holds.  *)
(***************************************************************************)

CONSTANT Item

VARIABLES owed,     \* pushed, not settled yet
          safe,     \* held by a spool file
          settled   \* stored or rejected at least once

bufferVars == <<owed, safe, settled>>

BufferInit ==
    /\ owed = {}
    /\ safe = {}
    /\ settled = {}

Accept(i) ==
    /\ i \notin owed \cup settled
    /\ owed' = owed \cup {i}
    /\ UNCHANGED <<safe, settled>>

Save(S) ==
    /\ safe' = safe \cup S
    /\ UNCHANGED <<owed, settled>>

Settle(S) ==
    /\ settled' = settled \cup S
    /\ owed' = owed \ S
    /\ UNCHANGED safe

Release(S) ==
    /\ safe' = safe \ S
    /\ UNCHANGED <<owed, settled>>

Crash ==
    /\ owed' = owed \cap safe
    /\ UNCHANGED <<safe, settled>>

BufferNext ==
    \/ \E i \in Item : Accept(i)
    \/ \E S \in SUBSET (owed \cup settled) : Save(S)
    \/ \E S \in SUBSET owed : Settle(S)
    \/ \E S \in SUBSET settled : Release(S)
    \/ Crash

BufferSpec == BufferInit /\ [][BufferNext]_bufferVars
=============================================================================
