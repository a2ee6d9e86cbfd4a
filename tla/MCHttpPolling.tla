---------------------------- MODULE MCHttpPolling ----------------------------
(***************************************************************************)
(* A driver, a status policy and a prompt schedule for the runs about the  *)
(* `http_polling` source.                                                  *)
(***************************************************************************)
EXTENDS HttpPolling, TLC

CONSTANTS list, item, other, third

(* A discovery request whose response leads to three detail requests. *)
MCBootstrap == <<list>>
MCFeeds == [r \in Request |-> IF r = list THEN <<item, other, third>> ELSE <<>>]

DefaultPolicy == [s \in {} |-> "skip"]

(* The best schedule there is: time passes only while the source has nothing  *)
(* it could do.                                                               *)
Waits ==
    \/ pc = "throttle" /\ rateLimitedUntil > 0
    \/ pc = "pause" /\ nextAllowed > 0
    \/ pc = "idle" /\ sleeping > 0
    \/ pc = "stopped"
    \/ Awaiting /\ inflight # <<>> /\ \A i \in DOMAIN inflight : inflight[i].answer = Pending

PromptSpec == Init /\ [][Next /\ (Tick => Waits)]_vars
=============================================================================
