---------------------------- MODULE MCSseSource ----------------------------
(***************************************************************************)
(* The SSE source on a small instance: two of five events carry no id, and *)
(* one an id that no header can hold.                                      *)
(***************************************************************************)
EXTENDS SseSource

MCIdentified == {1, 2, 4}
MCSendable   == {1, 4}
MCRejected   == {2}
=============================================================================
