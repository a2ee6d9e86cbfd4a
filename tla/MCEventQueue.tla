--------------------------- MODULE MCEventQueue ---------------------------
(***************************************************************************)
(* Two webhooks and a pull source in front of two sinks. The queue is at   *)
(* its tightest: capacity 2 gives a watermark of 1 and room for exactly    *)
(* two requests that pass the check together. The pull source remembers    *)
(* one key, and reads an event twice.                                      *)
(***************************************************************************)
EXTENDS EventQueue, TLC

CONSTANTS w1, w2, pull, s1, s2, p1, p2, p3, p4, e1, e2, e3, e4, bad, k1, k2, k3

MCSource   == {w1, w2, pull}
MCPayload  == {p1, p2, p3, p4}
MCSourceOf == (p1 :> w1) @@ (p2 :> w2) @@ (p3 :> pull) @@ (p4 :> w2)
MCEvent    == {e1, e2, e3, e4, bad}
\* p1 is split in three events of distinct keys.
MCOutputs  ==
    (p1 :> <<e1, e2, e3>>) @@ (p2 :> <<e4>>) @@ (p3 :> <<e1, e1, bad>>) @@ (p4 :> <<>>)
MCDedupKey ==
    (e1 :> k1) @@ (e2 :> k2) @@ (e3 :> k3) @@ (e4 :> NoKey) @@ (bad :> NoKey)
MCDedupCapacity == (w1 :> 2) @@ (w2 :> 0) @@ (pull :> 1)
MCMaxAttempts == (p1 :> 2) @@ (p2 :> 1) @@ (p3 :> 1) @@ (p4 :> 1)
=============================================================================
