---------------------------- MODULE WindowCursor ----------------------------
(***************************************************************************)
(* What a polling source promises about its time window, with no request,  *)
(* file or clock in sight: its lower bound only moves past seconds that    *)
(* are accounted for (polled in full, or given up with a warning), and the *)
(* checkpoint a restart resumes from is a bound that was reached.          *)
(***************************************************************************)
EXTENDS Integers

CONSTANT StartTs     \* where the first run starts

VARIABLES after,     \* the lower bound of the window
          saved,     \* the checkpoint
          accounted  \* the seconds accounted for

cursorVars == <<after, saved, accounted>>

CursorInit == after = StartTs /\ saved = StartTs /\ accounted = {}

(* The seconds of the window are accounted for, and the bound moves past it. *)
Move ==
    /\ after' \in Nat
    /\ accounted' = accounted \cup (after + 1 .. after')
    /\ UNCHANGED saved

SaveBound == saved' = after /\ UNCHANGED <<after, accounted>>

(* A restart finds the checkpoint, or starts over. *)
Resume == after' \in {saved, StartTs} /\ UNCHANGED <<saved, accounted>>

CursorNext == Move \/ SaveBound \/ Resume

CursorSpec == CursorInit /\ [][CursorNext]_cursorVars
=============================================================================
