----------------------------- MODULE FetchRetry -----------------------------
(***************************************************************************)
(* One HTTP exchange of a client of the collector: the request of a poll   *)
(* (http_polling::fetch, through RetryAfterMiddleware and, behind it,      *)
(* RetryTransientMiddleware), or of the HTTP sink and the SSE source       *)
(* (reqwest with security::header::redirect_policy, behind                 *)
(* RetryTransientMiddleware). The servers answer what they like, and may   *)
(* redirect to one another.                                                *)
(*                                                                         *)
(* A header is [name, from]: "config" for one of the configured headers,   *)
(* "driver" for one the driver script or the event brings.                 *)
(***************************************************************************)
EXTENDS Integers, FiniteSets, Sequences

CONSTANTS
    None,
    Url,             \* [scheme, host, port]; port None: no known default
    Configured,      \* the names of the configured headers
    TrustedHosts,    \* those trusted_redirect_hosts matches
    RetryStatus,     \* on_status = retry, for the poll client
    MaxRedirects, MaxRetries,    \* the constants of the middleware
    MaxTransient     \* bound: the retries within total_duration_of_retries

VARIABLES
    client,      \* "poll" or "reqwest"
    anchor,      \* the origin the configured headers belong to
    original,    \* the request the retries of "reqwest" start from
    request,     \* [url, body, headers], the one to send next
    hops,        \* redirects followed
    retries,     \* retries the server asked for
    transients,  \* retries of RetryTransientMiddleware for this request
    at,          \* "send", "handle" or "done"
    response,    \* the last response: a status, whether it tells Retry-After
                 \* and where it redirects to
    sent,        \* how many requests were sent
    exposed      \* <<header, url>>: header was sent to url

chain == <<client, anchor, original>>
vars  == <<chain, request, hops, retries, transients, at, response, sent, exposed>>

Credentials == {"authorization", "cookie", "proxy-authorization"}

IsCrossOrigin(a, b) ==
    \/ a.scheme # b.scheme \/ a.host # b.host
    \/ a.port = None \/ b.port = None \/ a.port # b.port

\* Fault: a downgrade to http is not noticed.
MayForwardDowngraded(from, to) == ~IsCrossOrigin(from, to) \/ to.host \in TrustedHosts

MayForwardHeaders(from, to) ==
    \/ ~IsCrossOrigin(from, to)
    \/ to.host \in TrustedHosts /\ ~(from.scheme = "https" /\ to.scheme # "https")

(***************************************************************************)
(* The request                                                             *)
(***************************************************************************)

FromConfig == {[name |-> n, from |-> "config"] : n \in Configured}

\* `headers` replaces a header of the same name.
WithConfigured(headers) == {h \in headers : h.name \notin Configured} \cup FromConfig

\* fetch: the configured headers only go to the origin of the poll's first
\* request; without an anchor (its URL is none) to any.
PollHeaders(url, headers) ==
    IF anchor = None \/ ~IsCrossOrigin(anchor, url) THEN WithConfigured(headers) ELSE headers

NoResponse == [status |-> 0, after |-> FALSE, location |-> None]

Init ==
    /\ client \in {"poll", "reqwest"}
    /\ anchor \in Url \cup (IF client = "poll" THEN {None} ELSE {})
    /\ \E url \in Url, body \in BOOLEAN, auth \in BOOLEAN :
         LET own == IF auth THEN {[name |-> "authorization", from |-> "driver"]} ELSE {}
         IN  /\ client = "reqwest" => url = anchor
             /\ request = [url |-> url, body |-> body,
                           headers |-> IF client = "poll" THEN PollHeaders(url, own)
                                       ELSE WithConfigured(own)]
    /\ original = request
    /\ hops = 0 /\ retries = 0 /\ transients = 0
    /\ at = "send" /\ response = NoResponse /\ sent = 0 /\ exposed = {}

(***************************************************************************)
(* RetryTransientMiddleware                                                *)
(***************************************************************************)

\* 301 is handled as 302 and 308 as 307; 408 as 429 and every 5xx as 503, but
\* for Retry-After.
Redirects == {302, 303, 307}
Statuses  == {200, 404, 429, 500, 503} \cup Redirects

\* DefaultRetryableStrategy, and StatusPolicy in front of it for a poll.
Transient(status) ==
    \/ status >= 500 \/ status = 429
    \/ client = "poll" /\ status \in RetryStatus

Send ==
    /\ at = "send"
    /\ sent' = sent + 1
    /\ exposed' = exposed \cup {<<h, request.url>> : h \in request.headers}
    /\ at' = "handle"
    /\ \E status \in Statuses, after \in BOOLEAN, location \in Url \cup {None} :
         /\ status \notin Redirects => location = None
         /\ status \notin {429, 503} => ~after
         /\ response' = [status |-> status, after |-> after, location |-> location]
    /\ UNCHANGED <<chain, request, hops, retries, transients>>

\* The connection fails, or request_timeout is over.
Fail ==
    /\ at = "send" /\ sent' = sent + 1
    /\ exposed' = exposed \cup {<<h, request.url>> : h \in request.headers}
    /\ response' = NoResponse /\ at' = "handle"
    /\ UNCHANGED <<chain, request, hops, retries, transients>>

Failed == response = NoResponse

\* After the backoff, the request it was given again. The duration of the
\* retries may be over before their number is.
RetryTransient ==
    /\ at = "handle" /\ (Failed \/ Transient(response.status))
    /\ transients < MaxTransient /\ transients' = transients + 1
    /\ request' = IF client = "poll" THEN request ELSE original
    /\ hops' = IF client = "poll" THEN hops ELSE 0
    /\ at' = "send"
    /\ UNCHANGED <<chain, retries, response, sent, exposed>>

(***************************************************************************)
(* RetryAfterMiddleware                                                    *)
(***************************************************************************)

Redirected == response.status \in Redirects /\ response.location # None /\ hops < MaxRedirects

AskedToWait ==
    client = "poll" /\ response.status \in {429, 503} /\ response.after /\ retries < MaxRetries

\* strip_credentials_if_cross_origin
Stripped(headers, from, to) ==
    LET keep == MayForwardHeaders(from, to)
    IN  IF ~IsCrossOrigin(from, to) THEN headers
        ELSE {h \in headers : /\ h.name \in Credentials => keep /\ h.name \in Configured
                              /\ ~keep => h.name \notin Configured}

\* 303 after the pause it asks for, as a GET; the others at once and as it was.
FollowRedirect ==
    /\ at = "handle" /\ client = "poll" /\ Redirected
    /\ request' = [url     |-> response.location,
                   body    |-> request.body /\ response.status # 303,
                   headers |-> Stripped(request.headers, request.url, response.location)]
    /\ hops' = hops + 1 /\ transients' = 0 /\ at' = "send"
    /\ UNCHANGED <<chain, retries, response, sent, exposed>>

RetryAfter ==
    /\ at = "handle" /\ AskedToWait
    /\ retries' = retries + 1 /\ transients' = 0 /\ at' = "send"
    /\ UNCHANGED <<chain, request, hops, response, sent, exposed>>

(***************************************************************************)
(* reqwest with redirect_policy                                            *)
(***************************************************************************)

\* Without configured headers reqwest's own policy follows; with them only if
\* they may go from the first URL to this one, else the 3xx is the response.
Allowed(to) == Configured = {} \/ MayForwardHeaders(original.url, to)

\* reqwest drops the body of a POST but for 307 and 308, and the credentials
\* when the host changes.
FollowInside ==
    /\ at = "handle" /\ client = "reqwest" /\ Redirected /\ Allowed(response.location)
    /\ request' = [url     |-> response.location,
                   body    |-> request.body /\ response.status = 307,
                   headers |-> IF response.location.host = request.url.host
                                  /\ response.location.port = request.url.port
                               THEN request.headers
                               ELSE {h \in request.headers : h.name \notin Credentials}]
    /\ hops' = hops + 1 /\ at' = "send"
    /\ UNCHANGED <<chain, retries, transients, response, sent, exposed>>

\* Whatever else is returned to the caller: for a sink Ok, with a warning unless
\* it is a success; an error if there is no response or too many redirects.
Return ==
    /\ at = "handle"
    /\ ~AskedToWait
    /\ Redirected => client = "reqwest" /\ ~Allowed(response.location)
    /\ at' = "done"
    /\ UNCHANGED <<chain, request, hops, retries, transients, response, sent, exposed>>

Next == Send \/ Fail \/ RetryTransient \/ FollowRedirect \/ RetryAfter \/ FollowInside \/ Return

Spec == Init /\ [][Next]_vars

-----------------------------------------------------------------------------
\* The origin the configured headers belong to, or a trusted host; not in clear
\* text unless that origin is.
IsHome(url) ==
    \/ url = anchor \/ ~IsCrossOrigin(anchor, url)
    \/ url.host \in TrustedHosts /\ (anchor.scheme = "https" => url.scheme = "https")

\* A configured header reaches the origin it is configured for, or a trusted
\* host, and never in clear text when the configured URL was not: over any
\* chain of redirects and retries, though the middleware only compares each hop
\* with the one before (retry_after_middleware.rs:144) and the policy each with
\* the first (header.rs:222). And however the servers answer, the exchange ends
\* after a bounded number of requests: redirects and retries each have a limit
\* of their own.
HeadersStayHome ==
    /\ \A x \in exposed : x[1].from = "config" /\ anchor # None => IsHome(x[2])
    /\ sent <= (1 + MaxRedirects + MaxRetries) * (1 + MaxTransient)
=============================================================================
