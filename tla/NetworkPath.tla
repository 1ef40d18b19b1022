------------------------------ MODULE NetworkPath ------------------------------
(***************************************************************************)
(* The network path of a session: what the player page derives from the    *)
(* statistics of its peer and reports once for every change (player.ts),   *)
(* the server's endpoint (index.ts) and the tags it writes on the instance *)
(* (createSessionNetworkPathReporter).  The browser's statistics, the      *)
(* metadata service, the AWS CLI and the network are external.             *)
(***************************************************************************)
EXTENDS Integers

CONSTANTS
  MaxReports,  \* bound: requests of the page
  MaxFails     \* bound: requests, writes, reads of the identity that fail

\* A definition whose comment says "Mutant" is a faulty variant of the one below it.

VARIABLES
  confirmed,  \* lastConfirmedSessionNetworkPathSignature
  pending,    \* pendingSessionNetworkPathSignature
  requests,   \* the page's requests, which nothing orders: how many of each
  server,     \* the reporter: its identity promise, and the tags
  left        \* what may still be reported and fail

vars == <<confirmed, pending, requests, server, left>>

None == "none"
Kinds == {"host", "relay"}

\* `at` is "server" until the request is answered, then "ok" (204) or "failed" (503).
Request == [path: Kinds, at: {"server", "ok", "failed"}]

\* One end of the active pair in the statistics: the candidate found by its id or as
\* the only one of the transport, if any, and the type the pair itself names.
Ends == [found: BOOLEAN, type: Kinds, said: Kinds \cup {None}]
Stats == [active: BOOLEAN, local: Ends, remote: Ends, own: Kinds \cup {None},
          relayed: BOOLEAN]

\* findCandidateByIdOrUniqueTransport, and the type the pair says otherwise.
CandidateType(end) == IF end.found THEN end.type ELSE end.said

UsesTurn(s) ==
  "relay" \in {CandidateType(s.local), CandidateType(s.remote), s.own} \/ s.relayed

\* The first of the types that is known.
Known(type, other) == IF type # None THEN type ELSE other

\* deriveSessionNetworkPathReport: the path, or nothing to report.
DeriveSessionNetworkPathReport(s) ==
  CASE ~s.active -> None
    [] s.active /\ UsesTurn(s) -> "relay"
    [] OTHER -> Known(CandidateType(s.local), Known(CandidateType(s.remote), s.own))

UnderWay == {r \in Request : requests[r] > 0}

With(rs, r) == [rs EXCEPT ![r] = @ + 1]
Without(rs, r) == [rs EXCEPT ![r] = @ - 1]

\* The requests that wait at the server fail.
Failed(rs) ==
  [r \in Request |->
     CASE r.at = "server" -> 0
       [] r.at = "failed" -> rs[r] + rs[[r EXCEPT !.at = "server"]]
       [] OTHER -> rs[r]]

-----------------------------------------------------------------------------
\* The listener of statsReceived.
StatsReceived(s) ==
  /\ left.reports > 0
  /\ LET path == DeriveSessionNetworkPathReport(s)
     IN  /\ path \notin {None, confirmed, pending}
         /\ pending' = path
         /\ requests' = With(requests, [path |-> path, at |-> "server"])
  /\ left' = [left EXCEPT !.reports = @ - 1]
  /\ UNCHANGED <<confirmed, server>>

\* createInstanceIdentityResolver: one promise for every request that waits; when it
\* fails it is taken back, and each of those is answered 503.
Resolve(ok) ==
  /\ server.identity = "unread"
  /\ \E r \in UnderWay : r.at = "server"
  /\ ok \/ left.fails > 0
  /\ IF ok
     THEN /\ server' = [server EXCEPT !.identity = "known"]
          /\ UNCHANGED <<requests, left>>
     ELSE /\ requests' = Failed(requests)
          /\ left' = [left EXCEPT !.fails = @ - 1]
          /\ UNCHANGED server
  /\ UNCHANGED <<confirmed, pending>>

\* writeInstanceTags of one request; nothing orders those of several.
WriteInstanceTags(r, ok) ==
  /\ r.at = "server" /\ server.identity = "known"
  /\ server' = IF ok THEN [server EXCEPT !.tags = r.path] ELSE server
  /\ requests' = With(Without(requests, r), [r EXCEPT !.at = IF ok THEN "ok" ELSE "failed"])
  /\ ok \/ left.fails > 0
  /\ left' = IF ok THEN left ELSE [left EXCEPT !.fails = @ - 1]
  /\ UNCHANGED <<confirmed, pending>>

\* Mutant: only an answer clears the signature that waits, a lost request does not.
SettledByAnswer(path, outcome) == pending = path /\ outcome # "lost"

\* Whether the outcome of a request settles the signature that waits.
Settled(path, outcome) == pending = path

\* The answer reaches the page, or the request fails on the network.
Answered(r, outcome) ==
  /\ outcome \in {r.at, "lost"} \ {"server"}
  /\ outcome = "lost" => left.fails > 0
  /\ requests' = Without(requests, r)
  /\ IF Settled(r.path, outcome)
     THEN /\ pending' = None
          /\ confirmed' = IF outcome = "ok" THEN r.path ELSE confirmed
     ELSE UNCHANGED <<confirmed, pending>>
  /\ left' = IF outcome = "lost" THEN [left EXCEPT !.fails = @ - 1] ELSE left
  /\ UNCHANGED server

Init ==
  /\ confirmed = None /\ pending = None
  /\ requests = [r \in Request |-> 0]
  /\ server = [identity |-> "unread", tags |-> None]
  /\ left = [reports |-> MaxReports, fails |-> MaxFails]

Next ==
  \/ \E s \in Stats : StatsReceived(s)
  \/ \E ok \in BOOLEAN : Resolve(ok)
  \/ \E r \in UnderWay :
       \/ \E ok \in BOOLEAN : WriteInstanceTags(r, ok)
       \/ \E outcome \in {"ok", "failed", "lost"} : Answered(r, outcome)

Spec == Init /\ [][Next]_vars

-----------------------------------------------------------------------------
\* A signature that waits has a request under way: the page never sends it again
\* while it waits, so one that waited for nothing would silence that path for good.
PendingIsInFlight ==
  pending # None => \E r \in UnderWay : r.path = pending
=============================================================================
