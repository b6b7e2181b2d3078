----------------------------- MODULE ClientStack -----------------------------
(***************************************************************************)
(* The client side of the messaging core: what the stack task of a device  *)
(* that only sends requests does with requests of applications, responses  *)
(* and empty messages (MsgStack.cpp), on top of client interactions        *)
(* (ClientInteraction.cpp, MulticastClientInteraction.cpp) and their       *)
(* exchanges (Exchange.cpp, InteractionStore.cpp).                         *)
(*                                                                         *)
(* One step is one event of the stack task.  Payloads fit a message, so    *)
(* that no Block option is used.  The peers are servers of any make: they  *)
(* answer a request once, and the network may lose, repeat and reorder     *)
(* what they send: a message in `answers' is received any number of times. *)
(***************************************************************************)
EXTENDS Integers, Sequences, FiniteSets

CONSTANTS
  Peer,         \* the servers, an endpoint each
  Group,        \* the multicast endpoint
  Members,      \* the servers that listen to it
  Token,        \* the tokens TokenProvider draws
  NoToken,      \* the token of an empty message
  Requests,     \* the requests of the applications, one callback each
  MaxMid,       \* message ids are 0..MaxMid (0..2^16-1 in the code)
  RandomMid,    \* the ids OsalRandom may start the id counter with
  PeerMid,      \* the ids the servers give to their messages
  MaxExchange   \* bound: nothing opens an exchange after that many

Mid == 0..MaxMid

\* A request has a token of its own: TokenProvider draws eight random bytes.
Request == [token : Token, to : Peer \cup {Group}, con : BOOLEAN]

ASSUME ClientAssumption ==
  /\ Requests \subseteq Request
  /\ \A r, s \in Requests : r.token = s.token => r = s
  /\ NoToken \notin Token
  /\ Group \notin Peer
  /\ Members \subseteq Peer
  /\ MaxMid \in Nat \ {0}
  /\ RandomMid \subseteq Mid
  /\ PeerMid \subseteq Mid
  /\ MaxExchange \in Nat

VARIABLES
  exchanges,      \* _client_exchanges; numbers grow in push_back order
  interactions,   \* _client_interactions, in push_back order
  multicasts,     \* _mcast_client_interactions: their requests, in order
  nextExchange,   \* the number of the next exchange to be created
  midCounter,     \* _u16_message_id_counter
  wire,           \* every message handed to MessageSender
  answers,        \* every message the servers have sent
  arrived,        \* history: the responses that have been received
  notified,       \* history: callbacks called, each with its response
  again           \* history: responses of which a callback was told twice

store == <<exchanges, interactions, multicasts, nextExchange>>
history == <<arrived, notified, again>>
vars == <<store, midCounter, wire, answers, history>>

-------------------------------------------------------------------------------
(* Messages, exchanges, interactions.                                      *)

Null == 0

\* What the client sends: requests, and empty ACKs.
Sent(to, type, mid, token) == [to |-> to, type |-> type, mid |-> mid, token |-> token]

\* What it receives: responses, and empty messages (no token).
Answer(from, type, mid, token) ==
  [from |-> from, type |-> type, mid |-> mid, token |-> token]

\* `msg' is out_msg, or empty; `mid' and `peer' are those of the originator
\* message; `owner' is the interaction, by its place in the list.
LocalExchange(i, m) ==
  [origin |-> "local", peer |-> m.to, mid |-> m.mid, msg |-> {m}, owner |-> i]

Reply(a) == IF a.type = "CON" THEN {Sent(a.from, "ACK", a.mid, NoToken)} ELSE {}

RemoteExchange(i, a) ==
  [origin |-> "remote", peer |-> a.from, mid |-> a.mid, msg |-> Reply(a), owner |-> i]

ClientInteraction(r, peer) ==
  [token |-> r.token, endpoint |-> peer, request |-> r, in |-> Null, out |-> Null, count |-> 0]

\* Mutant: the id counter does not wrap.
NextIdUnwrapped(mid) ==
  /\ IF midCounter = 0 THEN mid \in RandomMid ELSE mid = midCounter
  /\ midCounter' = mid + 1

NextId(mid) ==
  /\ IF midCounter = 0 THEN mid \in RandomMid ELSE mid = midCounter
  /\ midCounter' = (mid + 1) % (MaxMid + 1)

\* Mutant: exchanges are found by message id alone.
is_msg_matched_any(e, a) == e.mid = a.mid

is_msg_matched(e, a) == e.peer = a.from /\ e.mid = a.mid

\* The oldest exchange that matches, if there is one, of either origin.
find_client_exchange(a) ==
  {x \in DOMAIN exchanges :
     /\ is_msg_matched(exchanges[x], a)
     /\ \A y \in DOMAIN exchanges : is_msg_matched(exchanges[y], a) => x <= y}

\* delete_client_exchange of the store.
Remaining(gone) == [x \in DOMAIN exchanges \ gone |-> exchanges[x]]

NoLonger(p, gone) == IF p \in gone THEN Null ELSE p

\* Mutant: a deleted exchange is still counted.
WithoutCounted(i, gone) ==
  [interactions[i] EXCEPT !.in = NoLonger(@, gone), !.out = NoLonger(@, gone)]

\* ClientInteraction::delete_exchange, for each of `gone'.
Without(i, gone) ==
  [interactions[i] EXCEPT
     !.in = NoLonger(@, gone), !.out = NoLonger(@, gone),
     !.count = @ - Cardinality({x \in gone : x \in DOMAIN exchanges})]

-------------------------------------------------------------------------------
(* Requests: HANDLE_STACK_EVENT_send_client_request and send_request.      *)

Unsent(r) == \A m \in wire : m.token # r.token

SendUnicast(r) ==
  /\ r.to # Group
  /\ Unsent(r)
  /\ nextExchange <= MaxExchange
  /\ \E mid \in Mid :
       LET i == Len(interactions) + 1
           m == Sent(r.to, IF r.con THEN "CON" ELSE "NON", mid, r.token)
       IN  /\ NextId(mid)
           /\ interactions' = Append(interactions,
                [ClientInteraction(r, r.to) EXCEPT !.out = nextExchange, !.count = 1])
           /\ exchanges' = [x \in DOMAIN exchanges \cup {nextExchange} |->
                IF x = nextExchange THEN LocalExchange(i, m) ELSE exchanges[x]]
           /\ wire' = wire \cup {m}
  /\ nextExchange' = nextExchange + 1
  /\ UNCHANGED <<multicasts, answers, history>>

\* A multicast request is always non-confirmable, and has no exchange.
SendMulticast(r) ==
  /\ r.to = Group
  /\ Unsent(r)
  /\ multicasts' = Append(multicasts, r)
  /\ \E mid \in Mid :
       /\ NextId(mid)
       /\ wire' = wire \cup {Sent(Group, "NON", mid, r.token)}
  /\ UNCHANGED <<exchanges, interactions, nextExchange, answers, history>>

-------------------------------------------------------------------------------
(* The servers (external): each answers a request it got once, with an ACK *)
(* that carries the response, with a CON or NON of its own, or with an RST.*)

Reached(p, m) == m.to = p \/ (m.to = Group /\ p \in Members)

PeerAcknowledges(p) ==
  \E m \in wire :
    /\ m.type = "CON"
    /\ Reached(p, m)
    /\ \A a \in answers : ~(a.from = p /\ a.token = m.token)
    /\ answers' = answers \cup {Answer(p, "ACK", m.mid, NoToken)}
    /\ UNCHANGED <<store, midCounter, wire, history>>

PeerAnswers(p) ==
  \E m \in wire :
    /\ m.token # NoToken
    /\ Reached(p, m)
    /\ \A a \in answers :
         a.from = p => a.token # m.token /\ ~(a.type = "RST" /\ a.mid = m.mid)
    /\ \/ /\ m.type = "CON"
          /\ Answer(p, "ACK", m.mid, NoToken) \notin answers
          /\ answers' = answers \cup {Answer(p, "ACK", m.mid, m.token)}
       \/ \E type \in {"CON", "NON"}, mid \in PeerMid :
            /\ \A a \in answers : a.from = p /\ a.type \in {"CON", "NON"} => a.mid # mid
            /\ answers' = answers \cup {Answer(p, type, mid, m.token)}
       \/ /\ m.to # Group
          /\ Answer(p, "ACK", m.mid, NoToken) \notin answers
          /\ answers' = answers \cup {Answer(p, "RST", m.mid, NoToken)}
    /\ UNCHANGED <<store, midCounter, wire, history>>

-------------------------------------------------------------------------------
(* Responses: client_receive_response_msg.                                 *)

IsMulticastToken(a) == \E k \in DOMAIN multicasts : multicasts[k].token = a.token
MulticastOf(a) == CHOOSE r \in Requests : r.token = a.token

First(S) == CHOOSE i \in S : \A j \in S : i <= j

\* Mutant: the token is not looked at.
KnownByEndpoint(a) == {i \in DOMAIN interactions : interactions[i].endpoint = a.from}

\* The interactions a response may belong to.  One with the token of a
\* multicast is looked up by endpoint only.
Known(a) ==
  IF IsMulticastToken(a)
  THEN {i \in DOMAIN interactions : interactions[i].endpoint = a.from}
  ELSE {i \in DOMAIN interactions :
          interactions[i].token = a.token /\ interactions[i].endpoint = a.from}

\* The list of interactions in which the response is handled, and the place of
\* its interaction: a server that answers a multicast gets a new one.
WithInteraction(a) ==
  IF Known(a) = {} /\ IsMulticastToken(a)
  THEN Append(interactions, ClientInteraction(MulticastOf(a), a.from))
  ELSE interactions

Place(a) == IF Known(a) = {} THEN Len(interactions) + 1 ELSE First(Known(a))

Notify(r, a) ==
  /\ notified' = notified \cup {[request |-> r, message |-> a]}
  /\ again' = IF \E n \in notified : n.message = a THEN again \cup {a} ELSE again

\* The exchanges receive_response deletes: the request, and with a CON or NON
\* response the previous one.
Replaced(a, c) ==
  (IF a.type \in {"CON", "NON"} THEN {c.in, c.out} ELSE {c.out}) \ {Null}

receive_response(a) ==
  LET i    == Place(a)
      old  == WithInteraction(a)[i]
      gone == Replaced(a, old)
      c    == [old EXCEPT !.in = NoLonger(@, gone), !.out = NoLonger(@, gone),
                          !.count = @ - Cardinality(gone)]
  IN  /\ IF a.type \in {"CON", "NON"}
         THEN /\ exchanges' = [x \in DOMAIN Remaining(gone) \cup {nextExchange} |->
                   IF x = nextExchange THEN RemoteExchange(i, a) ELSE exchanges[x]]
              /\ interactions' = [WithInteraction(a) EXCEPT
                   ![i] = [c EXCEPT !.in = nextExchange, !.count = @ + 1]]
              /\ nextExchange' = nextExchange + 1
              /\ wire' = wire \cup Reply(a)
         ELSE /\ exchanges' = Remaining(gone)
              /\ interactions' = [WithInteraction(a) EXCEPT ![i] = c]
              /\ UNCHANGED <<nextExchange, wire>>
      /\ Notify(old.request, a)
      /\ arrived' = arrived \cup {a}
      /\ UNCHANGED <<multicasts, midCounter, answers>>

\* Mutant: a repeated response is handled like the first.
is_duplicate_never(a) == FALSE

\* Deduplication: a confirmable response whose exchange is known.
is_duplicate(a) == a.type = "CON" /\ find_client_exchange(a) # {}

ReceiveResponse(a) ==
  /\ a.token # NoToken
  /\ Known(a) # {} \/ IsMulticastToken(a)
  /\ ~is_duplicate(a)
  /\ nextExchange <= MaxExchange
  /\ receive_response(a)

\* The message of the exchange found is sent again, whatever it is: the ACK of
\* the response, or a request.  An interaction made for it is kept.
ReceiveDuplicate(a) ==
  /\ a.token # NoToken
  /\ Known(a) # {} \/ IsMulticastToken(a)
  /\ is_duplicate(a)
  /\ \E x \in find_client_exchange(a) : wire' = wire \cup exchanges[x].msg
  /\ interactions' = WithInteraction(a)
  /\ arrived' = arrived \cup {a}
  /\ UNCHANGED <<exchanges, multicasts, nextExchange, midCounter, answers, notified, again>>

-------------------------------------------------------------------------------
(* Empty messages: receive_empty_msg, with no server exchange to try first. *)

ReceiveEmpty(a) ==
  /\ a.token = NoToken
  /\ \E x \in find_client_exchange(a) :
       LET i == exchanges[x].owner IN
         /\ exchanges' = Remaining({x})
         /\ interactions' = [interactions EXCEPT ![i] = Without(i, {x})]
         /\ IF a.type = "RST"
            THEN Notify(interactions[i].request, a)
            ELSE UNCHANGED <<notified, again>>
  /\ UNCHANGED <<multicasts, nextExchange, midCounter, wire, answers, arrived>>

Init ==
  /\ exchanges = <<>>
  /\ interactions = <<>>
  /\ multicasts = <<>>
  /\ nextExchange = 1
  /\ midCounter = 0
  /\ wire = {} /\ answers = {}
  /\ arrived = {} /\ notified = {} /\ again = {}

Next ==
  \/ \E r \in Requests : SendUnicast(r) \/ SendMulticast(r)
  \/ \E p \in Peer : PeerAcknowledges(p) \/ PeerAnswers(p)
  \/ \E a \in answers : ReceiveResponse(a) \/ ReceiveDuplicate(a) \/ ReceiveEmpty(a)

Spec == Init /\ [][Next]_vars

-------------------------------------------------------------------------------
(* Properties.                                                             *)

SentMessage ==
  [to : Peer \cup {Group}, type : {"CON", "NON", "ACK"}, mid : Mid, token : Token \cup {NoToken}]
AnswerMessage ==
  [from : Peer, type : {"CON", "NON", "ACK", "RST"}, mid : Mid, token : Token \cup {NoToken}]

\* Every variable has its type.
TypeOK ==
  /\ DOMAIN exchanges \subseteq 1..(nextExchange - 1)
  /\ exchanges \in [DOMAIN exchanges ->
       [origin : {"local", "remote"}, peer : Peer, mid : Mid,
        msg : SUBSET SentMessage, owner : Nat]]
  /\ interactions \in Seq([token : Token, endpoint : Peer, request : Requests,
                           in : Nat, out : Nat, count : Int])
  /\ multicasts \in Seq(Requests)
  /\ nextExchange \in Nat \ {0} /\ midCounter \in Mid
  /\ wire \subseteq SentMessage /\ answers \subseteq AnswerMessage
  /\ arrived \subseteq answers /\ again \subseteq answers
  /\ notified \subseteq [request : Requests, message : AnswerMessage]

Owned(i) == {x \in DOMAIN exchanges : exchanges[x].owner = i}

\* Interactions and exchanges agree, whatever arrives in whatever order: the
\* pointers of an interaction are its exchanges, at most one received and one
\* sent, and it counts them.
StoreConsistent ==
  /\ \A x \in DOMAIN exchanges : exchanges[x].owner \in DOMAIN interactions
  /\ \A i \in DOMAIN interactions :
       /\ {interactions[i].in, interactions[i].out} \ {Null} = Owned(i)
       /\ interactions[i].count = Cardinality(Owned(i))
       /\ \A x \in Owned(i) :
            exchanges[x].origin = IF x = interactions[i].in THEN "remote" ELSE "local"

\* A callback is called with responses to its own request only, and told that
\* the request was rejected only when that request was.
RightCallback ==
  \A n \in notified :
    IF n.message.type = "RST"
    THEN \E m \in wire : m.token = n.request.token /\ m.mid = n.message.mid /\ m.to = n.message.from
    ELSE n.message.token = n.request.token

\* However often a confirmable response arrives, its callback hears of it once.
NotifiedOnce == \A a \in again : a.type # "CON"

\* No response that arrives is mistaken for one that came before: a callback
\* has heard of each.
ResponsesNotified == \A a \in arrived : \E n \in notified : n.message = a
===============================================================================
