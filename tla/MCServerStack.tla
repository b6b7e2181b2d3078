---------------------------- MODULE MCServerStack ----------------------------
(***************************************************************************)
(* Small workloads for ServerStack.  One tick stands for five seconds: the *)
(* exchange lifetime and the heart beat period of ten seconds are 2 ticks, *)
(* the five seconds of the slow resource and the first retransmission      *)
(* timeout of two to three seconds (rounded up) are 1.                     *)
(***************************************************************************)
EXTENDS ServerStack

CONSTANTS a, b, t1, t2   \* two peers, two tokens

Req(ep, token, mid, con, target) ==
  [ep |-> ep, token |-> token, mid |-> mid, con |-> con, target |-> target,
   mcast |-> FALSE]

Mcast(r) == [r EXCEPT !.mcast = TRUE]

\* The ids the server's counter starts with: apart from the ids the peers use
\* below, or, in CollidingRequests, among them.
ServerIds == {4}

\* Both peers use the same ids, a token serves two requests, one of which meets
\* the server's own id 4; the answers that outlive the handler of the request.
MixedRequests ==
  { Req(a, t1, 1, TRUE, "okCon"), Req(a, t1, 4, TRUE, "slow"),
    Req(b, t2, 1, FALSE, "slowNon") }

NoDatagram == {}

\* Fresh tokens, and ids apart from the server's: what the peers of this stack
\* do unless their id counter meets the server's.  One request ends in an error,
\* one is multicast.
FreshRequests ==
  { Req(a, t1, 1, TRUE, "okCon"), Req(a, t2, 2, TRUE, "slow"),
    Req(b, t1, 1, TRUE, "missing"), Mcast(Req(b, t2, 2, FALSE, "error")) }

\* Every way to be rejected before a look-up.
RejectedDatagrams ==
  { [kind |-> k, ep |-> a, mid |-> 3, con |-> c, mcast |-> FALSE] :
      k \in {"format", "noToken", "ping"}, c \in BOOLEAN }

\* No confirmable response: everything expires.
ExpiringRequests ==
  { Req(a, t1, 1, TRUE, "slowNon"), Req(b, t1, 1, FALSE, "okNon") }

ConfirmableRequests == { Req(a, t1, 1, TRUE, "okCon") }

\* The peer's id is the one the server's counter gives its response.
CollidingRequests == { Req(a, t1, 4, TRUE, "okCon") }

\* The second request meets the id of the response to the first.
CrossingRequests ==
  { Req(a, t1, 1, TRUE, "okCon"), Req(a, t2, 4, TRUE, "ok") }

\* A token is used again while the first request may still be repeated.
RepeatedTokenRequests ==
  { Req(a, t1, 1, TRUE, "ok"), Req(a, t1, 2, TRUE, "ok") }

RepeatedSlowRequests ==
  { Req(a, t1, 1, TRUE, "slow"), Req(a, t1, 2, TRUE, "slow") }

==============================================================================
