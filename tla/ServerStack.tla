----------------------------- MODULE ServerStack -----------------------------
(***************************************************************************)
(* The server side of the messaging core: what the stack task does with    *)
(* requests, empty messages, late answers of resources and heart beats     *)
(* (MsgStack.cpp), on top of the exchanges (Exchange.cpp), interactions    *)
(* (BaseInteraction.cpp, ServerInteraction.cpp) and the two lists that own *)
(* them (InteractionStore.cpp).                                            *)
(*                                                                         *)
(* One step is one event taken by the stack task from its queue: the task  *)
(* is single threaded, so each handler runs to its end before the next.    *)
(* Requests carry no Block option here and their responses fit a message.  *)
(*                                                                         *)
(* Time is kept as countdowns: `ttl' of an exchange is the number of ticks *)
(* until get_system_time() reaches its _expiry_time_us, never below 0.     *)
(***************************************************************************)
EXTENDS Integers, Sequences, FiniteSets

CONSTANTS
  Endpoint,       \* the remote peers, an address and a port each
  Token,          \* the CoAP tokens the peers use
  NoToken,        \* the token of an empty message
  NoMsg,          \* the null message pointer
  MaxMid,         \* message ids are 0..MaxMid (0..2^16-1 in the code)
  RandomMid,      \* the ids OsalRandom may start the id counter with
  Requests,       \* the requests the peers send, any number of times
  Datagrams,      \* datagrams that are rejected before any lookup
  Lifetime,       \* CON_EXCHANGE_LIFETIME_US and NON_EXCHANGE_LIFETIME_US
  AckTimeout,     \* the first retransmission timeout
  MaxRetransmit,  \* retransmissions of a confirmable message
  BeatPeriod,     \* the period of the heart beat timer
  SlowDelay,      \* how long a slow resource takes to answer
  Punctual,       \* the stack task handles due events before time passes
  MaxExchange     \* bound: no request opens an exchange after that many

Mid == 0 .. MaxMid

Target == {"missing", "error", "ok", "okCon", "okNon", "slow", "slowNon"}

Request == [ep : Endpoint, token : Token, mid : Mid, con : BOOLEAN,
            target : Target, mcast : BOOLEAN]

Datagram == [kind : {"format", "noToken", "ping"}, ep : Endpoint, mid : Mid,
             con : BOOLEAN, mcast : BOOLEAN]

ASSUME ServerStackAssumption ==
  /\ MaxMid \in Nat \ {0}
  /\ RandomMid \subseteq Mid
  /\ Requests \subseteq Request
  /\ Datagrams \subseteq Datagram
  /\ NoToken \notin Token
  /\ {Lifetime, AckTimeout, BeatPeriod} \subseteq Nat \ {0}
  /\ {MaxRetransmit, SlowDelay, MaxExchange} \subseteq Nat
  /\ Punctual \in BOOLEAN

ASSUME NoMsgAssumption ==
  NoMsg \notin [to : Endpoint, type : {"CON", "NON", "ACK", "RST"}, mid : Mid,
                token : Token \cup {NoToken},
                code : {"empty", "content", "notFound", "error"}]

VARIABLES
  exchanges,      \* _server_exchanges; numbers grow in push_back order
  interactions,   \* _server_interactions, at most one per endpoint and token
  nextExchange,   \* the number of the next exchange to be created
  midCounter,     \* _u16_message_id_counter
  slow,           \* one-shot timers of slow resources, first to fire first
  beat,           \* ticks until the heart beat timer fires
  wire,           \* every message handed to MessageSender
  received,       \* history: requests that have reached the stack
  fresh           \* history: ticks left in the deduplication window of a
                  \* request, -1 while it has never been handled

store == <<exchanges, interactions, nextExchange>>
vars  == <<exchanges, interactions, nextExchange, midCounter, slow, beat,
           wire, received, fresh>>

------------------------------------------------------------------------------
(* Messages, exchanges, interactions.                                      *)

Message == [to : Endpoint, type : {"CON", "NON", "ACK", "RST"}, mid : Mid,
            token : Token \cup {NoToken},
            code : {"empty", "content", "notFound", "error"}]

Key  == Endpoint \X Token
Null == 0

\* `msg' is out_msg: the reply given so far to a message of remote origin, or
\* the message that started an exchange of local origin.  `mid' and `con' are
\* those of the originator message.
Exchange == [origin : {"remote", "local"}, key : Key, mid : Mid, con : BOOLEAN,
             msg : Message \cup {NoMsg}, ttl : Nat, count : Nat]

Interaction == [in : Nat, out : Nat, exchanges : Int, con : BOOLEAN]

SlowAnswer == [key : Key, type : {"NONE", "NON"}, ttl : Nat]

EmptyMessage(to, type, mid) ==
  [to |-> to, type |-> type, mid |-> mid, token |-> NoToken, code |-> "empty"]

Response(key, type, mid, code) ==
  [to |-> key[1], type |-> type, mid |-> mid, token |-> key[2], code |-> code]

\* Mutant: a request is remembered for the acknowledgement timeout only.
RemoteExchangeBrief(r, reply) ==
  [origin |-> "remote", key |-> <<r.ep, r.token>>, mid |-> r.mid,
   con |-> r.con, msg |-> reply, ttl |-> AckTimeout, count |-> 0]

RemoteExchange(r, reply) ==
  [origin |-> "remote", key |-> <<r.ep, r.token>>, mid |-> r.mid,
   con |-> r.con, msg |-> reply, ttl |-> Lifetime, count |-> 0]

LocalExchange(key, m) ==
  [origin |-> "local", key |-> key, mid |-> m.mid, con |-> m.type = "CON",
   msg |-> m, ttl |-> IF m.type = "CON" THEN AckTimeout ELSE Lifetime,
   count |-> 0]

is_con_outgoing(e) == e.origin = "local" /\ e.con

\* Mutants: an exchange expires a tick early; only received ones expire.
is_expired_early(e) == (e.origin = "remote" \/ ~e.con) /\ e.ttl <= 1

is_expired_remote(e) == e.origin = "remote" /\ e.ttl = 0

is_expired(e) == (e.origin = "remote" \/ ~e.con) /\ e.ttl = 0

\* MaxRetransmit is 4: the code has `> 4' here ...
is_timedout(e) == e.count > MaxRetransmit

\* ... and `< 4' here.
retransmit_due(e) == e.count < MaxRetransmit /\ e.ttl = 0

------------------------------------------------------------------------------
(* The store.                                                              *)

\* Mutant: exchanges are found by message id alone.
is_msg_matched_any(e, ep, mid) == e.mid = mid

is_msg_matched(e, ep, mid) == e.key[1] = ep /\ e.mid = mid

Matching(ep, mid) ==
  {x \in DOMAIN exchanges : is_msg_matched(exchanges[x], ep, mid)}

\* The first exchange of the list that matches, the oldest one, if there is one.
find_server_exchange(ep, mid) ==
  {x \in Matching(ep, mid) : \A y \in Matching(ep, mid) : x <= y}

\* ServerInteraction::delete_exchange for every exchange of `gone' at once.
Remaining(gone) == [x \in DOMAIN exchanges \ gone |-> exchanges[x]]

\* Mutant: an interaction keeps its pointer to an exchange that was deleted.
StillPointing(p, gone) == p

NoLonger(p, gone) == IF p \in gone THEN Null ELSE p

OwnExchanges(key) == {x \in DOMAIN exchanges : exchanges[x].key = key}

\* Mutant: a deleted exchange is still counted.
WithoutCounted(key, gone) ==
  [interactions[key] EXCEPT !.in = NoLonger(@, gone), !.out = NoLonger(@, gone)]

Without(key, gone) ==
  LET i == interactions[key]
  IN  [in |-> NoLonger(i.in, gone),
       out |-> NoLonger(i.out, gone),
       exchanges |-> i.exchanges - Cardinality(OwnExchanges(key) \cap gone),
       con |-> i.con]

\* Mutant: receive_request deletes only the previous incoming exchange.
CurrentExchangesIn(key) ==
  IF key \in DOMAIN interactions THEN {interactions[key].in} \ {Null} ELSE {}

\* What receive_request starts from: the interaction of the request, without
\* its current exchanges, or a new one.
CurrentExchanges(key) ==
  IF key \in DOMAIN interactions
  THEN {interactions[key].in, interactions[key].out} \ {Null}
  ELSE {}

find_server_interaction(key) ==
  IF key \in DOMAIN interactions
  THEN Without(key, CurrentExchanges(key))
  ELSE [in |-> Null, out |-> Null, exchanges |-> 0, con |-> FALSE]

\* The interaction `i' with a new current exchange `x', which it counts.  Its
\* request is confirmable or not with every new incoming exchange.
create_incoming_exchange(i, x, con) ==
  [in |-> x, out |-> i.out, exchanges |-> i.exchanges + 1, con |-> con]

create_outgoing_exchange(i, x) ==
  [in |-> i.in, out |-> x, exchanges |-> i.exchanges + 1, con |-> i.con]

Put(f, x, v) == [y \in DOMAIN f \cup {x} |-> IF y = x THEN v ELSE f[y]]

NextId(mid) ==
  /\ IF midCounter = 0 THEN mid \in RandomMid ELSE mid = midCounter
  /\ midCounter' = (mid + 1) % (MaxMid + 1)

------------------------------------------------------------------------------
(* Requests.                                                               *)

is_slow(r) == r.target \in {"slow", "slowNon"}

\* The type of the response send_response gives to the request, "NONE" when
\* nothing is sent now.
ResponseType(r) ==
  CASE is_slow(r) -> "NONE"
    [] r.target = "error" /\ r.mcast -> "NONE"
    [] r.target = "okCon" -> "CON"
    [] r.target = "okNon" -> "NON"
    [] OTHER -> IF r.con THEN "ACK" ELSE "NON"

ResponseCode(r) ==
  CASE r.target = "missing" -> "notFound"
    [] r.target = "error"   -> "error"
    [] OTHER                -> "content"

Key1(r) == <<r.ep, r.token>>

\* Mutant: every request is acknowledged, also one that asked for nothing.
ReplyAlways(r) ==
  IF ResponseType(r) = "ACK"
  THEN Response(Key1(r), "ACK", r.mid, ResponseCode(r))
  ELSE EmptyMessage(r.ep, "ACK", r.mid)

\* out_msg of the new incoming exchange when the request has been handled: the
\* piggybacked response, or the empty ACK of Exchange::acknowledge.
Reply(r) ==
  CASE ResponseType(r) = "ACK" ->
         Response(Key1(r), "ACK", r.mid, ResponseCode(r))
    [] ResponseType(r) # "ACK" /\ r.con -> EmptyMessage(r.ep, "ACK", r.mid)
    [] OTHER -> NoMsg

StartSlowTimer(r) ==
  slow' = IF is_slow(r)
          THEN Append(slow, [key |-> Key1(r),
                             type |-> IF r.target = "slow" THEN "NONE" ELSE "NON",
                             ttl |-> SlowDelay])
          ELSE slow

\* receive_request when the answer needs no exchange of its own.
HandleWithin(r) ==
  LET key == Key1(r)
      i   == find_server_interaction(key)
  IN  /\ exchanges' = Put(Remaining(CurrentExchanges(key)), nextExchange,
                          RemoteExchange(r, Reply(r)))
      /\ interactions' = Put(interactions, key,
                             create_incoming_exchange(i, nextExchange, r.con))
      /\ nextExchange' = nextExchange + 1
      /\ wire' = wire \cup ({Reply(r)} \ {NoMsg})
      /\ UNCHANGED midCounter

\* receive_request when the response goes out as a CON or NON message.
HandleSeparately(r) ==
  \E mid \in Mid :
    LET key == Key1(r)
        i   == find_server_interaction(key)
        m   == Response(key, ResponseType(r), mid, ResponseCode(r))
    IN  /\ NextId(mid)
        /\ exchanges' = Put(Put(Remaining(CurrentExchanges(key)), nextExchange,
                                RemoteExchange(r, Reply(r))),
                            nextExchange + 1, LocalExchange(key, m))
        /\ interactions' = Put(interactions, key,
                               create_outgoing_exchange(
                                 create_incoming_exchange(i, nextExchange, r.con),
                                 nextExchange + 1))
        /\ nextExchange' = nextExchange + 2
        /\ wire' = wire \cup {m} \cup ({Reply(r)} \ {NoMsg})

\* resend_reply of the exchange the request was found in.
ResendReply(x) ==
  LET e == exchanges[x]
  IN  wire' = IF e.origin = "remote" /\ e.con THEN wire \cup ({e.msg} \ {NoMsg})
                                              ELSE wire

is_duplicate(r) == r.con /\ Matching(r.ep, r.mid) # {}

ReceiveDuplicate(r) ==
  /\ ~r.mcast
  /\ is_duplicate(r)
  /\ \E x \in find_server_exchange(r.ep, r.mid) : ResendReply(x)
  /\ received' = received \cup {r}
  /\ UNCHANGED <<store, midCounter, slow, beat, fresh>>

ReceiveRequest(r) ==
  /\ ~(r.mcast /\ r.con)
  /\ ~is_duplicate(r)
  /\ nextExchange <= MaxExchange
  /\ IF ResponseType(r) \in {"CON", "NON"}
     THEN HandleSeparately(r)
     ELSE HandleWithin(r)
  /\ StartSlowTimer(r)
  /\ received' = received \cup {r}
  /\ fresh' = [fresh EXCEPT ![r] = Lifetime]
  /\ UNCHANGED beat

\* Datagrams answered by an RST, or dropped, before they are looked up.  Of an
\* erroneous one the header is given up before its message id has been read.
RejectDatagram(d) ==
  /\ \/ d.kind = "format" /\ d.con
     \/ d.kind = "noToken"
     \/ d.kind = "ping" /\ d.con
  /\ ~d.mcast
  /\ wire' = wire \cup {EmptyMessage(d.ep, "RST", IF d.kind = "format" THEN 0 ELSE d.mid)}
  /\ UNCHANGED <<store, midCounter, slow, beat, received, fresh>>

------------------------------------------------------------------------------
(* Empty messages, late answers, heart beats.                              *)

\* receive_empty_msg, for an ACK and for an RST alike: the exchange found is
\* deleted.  A device that sends no request has no client exchange to try next.
ReceiveEmpty(ep, mid) ==
  /\ \E x \in find_server_exchange(ep, mid) :
       LET key == exchanges[x].key
       IN  /\ exchanges' = Remaining({x})
           /\ interactions' = [interactions EXCEPT ![key] = Without(key, {x})]
  /\ UNCHANGED <<nextExchange, midCounter, slow, beat, wire, received, fresh>>

\* The peer acknowledges the confirmable messages it was sent, and may reset
\* confirmable and non-confirmable ones.
PeerAnswers ==
  \E m \in wire : /\ m.type \in {"CON", "NON"}
                  /\ ReceiveEmpty(m.to, m.mid)

\* HANDLE_STACK_EVENT_send_server_response and send_separate_response.
SendSeparateResponse ==
  /\ slow # <<>>
  /\ Head(slow).ttl = 0
  /\ slow' = Tail(slow)
  /\ LET key == Head(slow).key
     IN  IF key \notin DOMAIN interactions
         THEN UNCHANGED <<store, midCounter, wire>>
         ELSE \E mid \in Mid :
                LET type == IF Head(slow).type = "NONE" /\ interactions[key].con
                            THEN "CON" ELSE "NON"
                    m    == Response(key, type, mid, "content")
                IN  /\ NextId(mid)
                    /\ exchanges' = Put(exchanges, nextExchange,
                                        LocalExchange(key, m))
                    /\ interactions' =
                         [interactions EXCEPT
                            ![key] = create_outgoing_exchange(@, nextExchange)]
                    /\ nextExchange' = nextExchange + 1
                    /\ wire' = wire \cup {m}
  /\ UNCHANGED <<beat, received, fresh>>

ExpiredExchanges ==
  {x \in DOMAIN exchanges :
     \/ is_expired(exchanges[x])
     \/ is_con_outgoing(exchanges[x]) /\ is_timedout(exchanges[x])}

RetransmittedExchanges ==
  {x \in DOMAIN exchanges \ ExpiredExchanges :
     is_con_outgoing(exchanges[x]) /\ retransmit_due(exchanges[x])}

\* retransmit: the next timeout is always twice the first one.
Retransmitted(e) == [e EXCEPT !.count = @ + 1, !.ttl = 2 * AckTimeout]

check_remove_expired_server_exchanges ==
  /\ exchanges' = [x \in DOMAIN exchanges \ ExpiredExchanges |->
                     IF x \in RetransmittedExchanges
                     THEN Retransmitted(exchanges[x])
                     ELSE exchanges[x]]
  /\ wire' = wire \cup {exchanges[x].msg : x \in RetransmittedExchanges}

has_exchanges(key) == Without(key, ExpiredExchanges).exchanges # 0

remove_expired_server_interaction ==
  interactions' = [key \in {k \in DOMAIN interactions : has_exchanges(k)} |->
                     Without(key, ExpiredExchanges)]

HeartBeat ==
  /\ beat = 0
  /\ beat' = BeatPeriod
  /\ check_remove_expired_server_exchanges
  /\ remove_expired_server_interaction
  /\ UNCHANGED <<nextExchange, midCounter, slow, received, fresh>>

\* send_stack_event: the queue of a stack task that lags behind is full, and the
\* event of a timer that has fired is dropped: a late answer or a heart beat.  (A
\* datagram that is dropped is one that never arrives.)
DropEvent ==
  /\ ~Punctual
  /\ \/ /\ slow # <<>>
        /\ Head(slow).ttl = 0
        /\ slow' = Tail(slow)
        /\ UNCHANGED beat
     \/ /\ beat = 0
        /\ beat' = BeatPeriod
        /\ UNCHANGED slow
  /\ UNCHANGED <<store, midCounter, wire, received, fresh>>

------------------------------------------------------------------------------
(* Time.                                                                   *)

\* Mutant: time left is not bounded below.
LessBelow(t) == t - 1

Less(t) == IF t > 0 THEN t - 1 ELSE t

Tick ==
  /\ Punctual => beat > 0 /\ (slow # <<>> => Head(slow).ttl > 0)
  /\ exchanges' = [x \in DOMAIN exchanges |-> [exchanges[x] EXCEPT !.ttl = Less(@)]]
  /\ slow' = [i \in DOMAIN slow |-> [slow[i] EXCEPT !.ttl = Less(@)]]
  /\ beat' = Less(beat)
  /\ fresh' = [r \in Requests |-> Less(fresh[r])]
  /\ UNCHANGED <<interactions, nextExchange, midCounter, wire, received>>

Init ==
  /\ exchanges = <<>>
  /\ interactions = <<>>
  /\ nextExchange = 1
  /\ midCounter = 0
  /\ slow = <<>>
  /\ beat = BeatPeriod
  /\ wire = {}
  /\ received = {}
  /\ fresh = [r \in Requests |-> -1]

Next ==
  \/ \E r \in Requests : ReceiveRequest(r) \/ ReceiveDuplicate(r)
  \/ \E d \in Datagrams : RejectDatagram(d)
  \/ PeerAnswers
  \/ SendSeparateResponse
  \/ HeartBeat
  \/ DropEvent
  \/ Tick

Spec == Init /\ [][Next]_vars

\* The timer task keeps firing the heart beat and the slow resources' timers,
\* the stack task keeps taking events from its queue and time passes.  Nothing
\* is assumed of the network: no request or acknowledgement need ever arrive.
Fairness == WF_vars(Tick) /\ WF_vars(HeartBeat) /\ WF_vars(SendSeparateResponse)

FairSpec == Spec /\ Fairness
------------------------------------------------------------------------------
(* Properties.                                                             *)

\* Every variable has its type.
TypeOK ==
  /\ nextExchange \in Nat \ {0}
  /\ DOMAIN exchanges \subseteq 1 .. (nextExchange - 1)
  /\ exchanges \in [DOMAIN exchanges -> Exchange]
  /\ DOMAIN interactions \subseteq Key
  /\ interactions \in [DOMAIN interactions -> Interaction]
  /\ midCounter \in Mid
  /\ slow \in Seq(SlowAnswer)
  /\ beat \in Nat
  /\ wire \subseteq Message
  /\ received \subseteq Requests
  /\ fresh \in [Requests -> Int]

\* An exchange in the list points to an interaction that is still in the store:
\* the heart beat never frees an interaction that an expired exchange, an ACK or
\* an RST will call back into (InteractionStore.cpp:206, MsgStack.cpp:413).
ExchangeHasInteraction ==
  \A x \in DOMAIN exchanges : exchanges[x].key \in DOMAIN interactions

\* The current exchanges of an interaction are in the list, are its own, and are
\* of the right origin: no handler works on a freed or a foreign exchange, and
\* ~BaseInteraction never frees an exchange that the list frees too.
CurrentExchangesOwned ==
  \A k \in DOMAIN interactions :
    LET i == interactions[k]
    IN  /\ i.in # Null => /\ i.in \in OwnExchanges(k)
                          /\ exchanges[i.in].origin = "remote"
        /\ i.out # Null => /\ i.out \in OwnExchanges(k)
                           /\ exchanges[i.out].origin = "local"

\* _no_of_exchanges counts exactly the exchanges of the interaction that are in
\* the list: the test of remove_expired_server_interaction is neither early (a
\* dangling exchange) nor late (an interaction that is never freed).
CountIsExact ==
  \A k \in DOMAIN interactions :
    interactions[k].exchanges = Cardinality(OwnExchanges(k))

StoreConsistent ==
  ExchangeHasInteraction /\ CurrentExchangesOwned /\ CountIsExact

\* There is no response without a request (design_notes.txt), and an ACK goes
\* only to the endpoint that sent a confirmable request with that id: with the
\* request's token when it carries a response.
ReplyAnswersRequest ==
  \A m \in wire :
    m.type # "RST" =>
      \E r \in received :
        /\ m.to = r.ep
        /\ m.code # "empty" => m.token = r.token
        /\ m.type = "ACK" => r.con /\ m.mid = r.mid

\* A request is not handed to the resource a second time within the lifetime of
\* its exchange, however often and late the network repeats it.
HandledOnce ==
  [][\A r \in Requests : r.con /\ ReceiveRequest(r) => fresh[r] <= 0]_vars

\* A request is handled when it is received: it is never taken for a repetition
\* of a message it does not repeat.
EveryRequestHandled == \A r \in received : fresh[r] >= 0

\* While a resource still has to answer, the interaction its answer will be
\* looked up in (find_server_interaction) is kept.
SlowRequestKept ==
  \A i \in DOMAIN slow : slow[i].key \in DOMAIN interactions

\* An interaction contains two exchanges, one received and one sent.
AtMostTwoExchanges == \A k \in DOMAIN interactions : interactions[k].exchanges <= 2

\* Every exchange is removed from the store in the end.
ExchangesRemoved ==
  \A x \in 1 .. MaxExchange + 1 : x \in DOMAIN exchanges ~> x \notin DOMAIN exchanges

\* An interaction whose exchanges are gone is removed in the end, unless a new
\* request brings it back to use.
InteractionsRemoved ==
  \A k \in Key :
    (k \in DOMAIN interactions /\ OwnExchanges(k) = {})
      ~> (k \notin DOMAIN interactions \/ OwnExchanges(k) # {})
==============================================================================
