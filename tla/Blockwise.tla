------------------------------ MODULE Blockwise ------------------------------
(***************************************************************************)
(* A request with a large body, a large response, or both, between two     *)
(* devices of the stack: Block1 and Block2 in ClientInteraction.cpp and    *)
(* ServerInteraction.cpp, on top of BlockTransferStatus.cpp.               *)
(*                                                                         *)
(* Each receipt of a message is one event of a stack task, so one step.    *)
(* The network may lose, repeat and reorder messages.  A response finds    *)
(* its interaction by the token alone, so messages carry no token: there   *)
(* is one interaction.  The content of a body is its sequence of units;    *)
(* that of a response is marked with the version of the resource.          *)
(***************************************************************************)
EXTENDS Integers, Sequences, FiniteSets

CONSTANTS
  Requests,      \* what the application asks for
  ClientBlock,   \* PREFERRED_BLOCK_SIZE of the client
  ServerBlock,   \* PREFERRED_BLOCK_SIZE of the server
  MaxMessage,    \* MAX_MESSAGE_SIZE
  MaxBody,       \* MAX_RESOURCE_BODY_SIZE
  Width,         \* 2^16: offsets are cut to 16 bits
  MaxVersion,    \* bound: versions of the resource
  MaxRepeat,     \* bound: messages received again
  MaxLoss,       \* bound: messages lost
  MaxExpiry      \* bound: times the server forgets the interaction

\* Lengths of the body and of the response, and the type of the messages.
Request == [up : Nat, down : Nat \ {0}, con : BOOLEAN]

ASSUME BlockwiseAssumption ==
  /\ Requests \subseteq Request
  /\ {ClientBlock, ServerBlock, MaxMessage, MaxBody, Width, MaxVersion} \subseteq Nat \ {0}
  /\ ClientBlock < Width /\ ServerBlock < Width   \* 256, StackConfig.h
  /\ {MaxRepeat, MaxLoss, MaxExpiry} \subseteq Nat

VARIABLES
  request,     \* the request of the application
  client,      \* its ClientInteraction
  server,      \* the ServerInteraction, if there is one
  version,     \* the version of the resource
  nextMid,     \* the next message id of the client
  toServer, toClient,   \* messages under way
  handled,     \* history: bodies given to the resource
  notified,    \* history: responses given to the callback
  faults       \* history: what went wrong on the way

network == <<toServer, toClient>>
history == <<handled, notified>>
vars == <<request, client, server, version, nextMid, network, history, faults>>

-------------------------------------------------------------------------------
(* Messages.                                                               *)

None == [none |-> TRUE]

NoResponse == <<>>

Block(num, more, size) == [num |-> num, more |-> more, size |-> size]

RequestMsg(mid, block1, block2, payload) ==
  [mid |-> mid, block1 |-> block1, block2 |-> block2, payload |-> payload]

ResponseMsg(code, block1, block2, payload) ==
  [code |-> code, block1 |-> block1, block2 |-> block2, payload |-> payload]

Least(a, b) == IF a < b THEN a ELSE b

\* Where block `num' of a body ends, an offset of 16 bits.
ends(num, size, length) == Least(((num + 1) * size) % Width, length)

\* Mutant: a full last block says that more follow.
has_more_full(to, length) == to <= length

has_more(to, length) == to < length

\* The units of a body from one offset, excluded, to another.
Part(body, from, to) == SubSeq(body, from + 1, to)

Body == [i \in 1..request.up |-> i]
Representation(v) == [i \in 1..request.down |-> <<v, i>>]

-------------------------------------------------------------------------------
(* The client.  `up' and `down' are its two BlockTransferStatus.           *)

\* client_blockwise_get_next_request_block, and send_single_request_msg.  It
\* asks for a negative length when the block begins after its end, and the
\* program stops.
SendRequestBlock(c, num, size) ==
  LET from == num * size
      to   == ends(num, size, request.up)
  IN  IF to < from
      THEN /\ client' = [c EXCEPT !.failed = TRUE]
           /\ UNCHANGED <<toServer, nextMid>>
      ELSE /\ client' = [c EXCEPT !.up = [current |-> num, size |-> size]]
           /\ toServer' = toServer \cup
                {RequestMsg(nextMid, Block(num, has_more(to, request.up), size), None,
                            Part(Body, from, to))}
           /\ nextMid' = nextMid + 1

NewClient == [up |-> None, down |-> None, failed |-> FALSE]

\* send_request of the client.
SendRequest ==
  /\ nextMid = 1
  /\ IF request.up > MaxMessage
     THEN SendRequestBlock(client, 0, ClientBlock)
     ELSE /\ toServer' = toServer \cup {RequestMsg(nextMid, None, None, Body)}
          /\ nextMid' = nextMid + 1
          /\ UNCHANGED client
  /\ UNCHANGED <<request, server, version, toClient, history, faults>>

\* client_handle_block1_transfer.  A server of this stack sends no 4.08.
ContinueUpload(m) ==
  LET u    == client.up
      size == Least(m.block1.size, u.size)
  IN  SendRequestBlock(client, u.current + u.size \div size, size)

\* Mutant: a hint to try smaller blocks is not taken.
is_new_size_larger(m) == m.block1.size > client.up.size

is_new_size(m) == m.block1.size # client.up.size

RestartUpload(m) ==
  IF is_new_size(m)
  THEN SendRequestBlock(client, 0, m.block1.size)
  ELSE UNCHANGED <<client, toServer, nextMid>>

\* Mutant: a block that was not asked for is taken too.
is_next_any(d, m) == TRUE

is_next(d, m) == m.block2.num = d.next

\* client_handle_block2_transfer.
ContinueDownload(m) ==
  LET d == IF client.down = None
           THEN [next |-> 0, size |-> m.block2.size, buffer |-> <<>>] ELSE client.down
      e == [d EXCEPT !.buffer = @ \o m.payload]
  IN  CASE ~is_next(d, m) ->
             /\ client' = [client EXCEPT !.down = d]
             /\ UNCHANGED <<toServer, nextMid, notified>>
        [] is_next(d, m) /\ m.block2.more ->
             /\ client' = [client EXCEPT !.down = [e EXCEPT !.next = @ + 1]]
             /\ toServer' = toServer \cup
                  {RequestMsg(nextMid, None, Block(d.next + 1, FALSE, d.size), <<>>)}
             /\ nextMid' = nextMid + 1
             /\ UNCHANGED notified
        [] OTHER ->
             /\ client' = [client EXCEPT !.down = None]
             /\ notified' = notified \cup {[code |-> m.code, body |-> e.buffer]}
             /\ UNCHANGED <<toServer, nextMid>>

\* A message received `again' is one of which a copy is still under way.
Repeat(again) ==
  IF again THEN /\ faults.repeat < MaxRepeat
                /\ faults' = [faults EXCEPT !.repeat = @ + 1]
           ELSE UNCHANGED faults

Left(pool, m, again) == IF again THEN pool ELSE pool \ {m}

\* receive_response.  Repeated ACKs are not told apart from new ones.
ClientReceives(m, again) ==
  /\ ~client.failed
  /\ Repeat(again)
  /\ toClient' = Left(toClient, m, again)
  /\ CASE m.code = "continue" ->
            ContinueUpload(m) /\ UNCHANGED notified
       [] m.code = "tooLarge" /\ m.block1 # None ->
            RestartUpload(m) /\ UNCHANGED notified
       [] m.code \notin {"continue", "tooLarge"} /\ m.block2 # None ->
            ContinueDownload(m)
       [] OTHER ->
            /\ notified' = notified \cup {[code |-> m.code, body |-> m.payload]}
            /\ UNCHANGED <<client, toServer, nextMid>>
  /\ UNCHANGED <<request, server, version, handled>>

-------------------------------------------------------------------------------
(* The server.                                                             *)

NewServer ==
  [up |-> None, down |-> None, response |-> NoResponse, mid |-> 0, reply |-> {},
   failed |-> FALSE]

\* get_next_res_block, from the response `body'; None when the length of the
\* block is negative.
ResponseBlock(block1, body, num, size) ==
  LET from == num * size
      to   == ends(num, size, Len(body))
  IN  CASE from >= Len(body) ->
             ResponseMsg("content", block1, Block(num, FALSE, size), <<>>)
        [] from < Len(body) /\ to < from -> None
        [] OTHER ->
             ResponseMsg("content", block1, Block(num, has_more(to, Len(body)), size),
                         Part(body, from, to))

\* The reply is kept in the exchange of the request, for its repetitions.
Respond(s, m, reply) ==
  IF reply = None
  THEN server' = [s EXCEPT !.failed = TRUE] /\ UNCHANGED toClient
  ELSE /\ server' = [s EXCEPT !.mid = m.mid, !.reply = {reply}]
       /\ toClient' = toClient \cup {reply}

\* handle_fully_downloaded_request, with a resource that answers at once, and
\* get_first_response_block.  The answer to the last block of a body says so,
\* and ends its transfer.
HandleRequest(s, m, body) ==
  LET rep    == Representation(version)
      block1 == IF s.up = None THEN None
                ELSE Block(s.up.current, FALSE, s.up.size)
      d      == IF s.down = None THEN [current |-> 0, size |-> ServerBlock] ELSE s.down
      block  == ResponseBlock(block1, rep, d.current, d.size)
      whole  == Len(rep) <= MaxMessage /\ s.down = None
      last   == whole \/ (block # None /\ ~block.block2.more)
      t      == [s EXCEPT !.up = None, !.response = rep,
                          !.down = IF last THEN None ELSE d]
  IN  /\ handled' = Append(handled, body)
      /\ Respond(t, m, IF whole THEN ResponseMsg("content", block1, None, rep) ELSE block)

NewDownload(size) == [current |-> 0, next |-> 0, size |-> size, buffer |-> <<>>]

\* Mutant: the client starts again and what it had sent is kept.
Begun_kept(s, b) ==
  CASE s.up = None -> NewDownload(b.size)
    [] s.up # None /\ b.num = 0 -> [s.up EXCEPT !.next = 0]
    [] OTHER -> s.up

\* The body being collected when block `b' arrives.
Begun(s, b) == IF s.up = None \/ b.num = 0 THEN NewDownload(b.size) ELSE s.up

\* handle_request_download: one block of the body.
Download(s, m) ==
  LET b   == m.block1
      u   == Begun(s, b)
      v   == [u EXCEPT !.current = u.next, !.next = @ + 1, !.buffer = @ \o m.payload]
      t   == [s EXCEPT !.up = v]
  IN  CASE b.size > ServerBlock ->
             /\ Respond(s, m, ResponseMsg("tooLarge", Block(0, FALSE, ServerBlock), None, <<>>))
             /\ UNCHANGED handled
        [] b.size <= ServerBlock /\ request.up > MaxBody ->
             /\ Respond(s, m, ResponseMsg("tooLarge", None, None, <<>>))
             /\ UNCHANGED handled
        [] b.size <= ServerBlock /\ request.up <= MaxBody /\ b.num # u.next ->
             \* The response 4.08 is built and not sent.
             /\ server' = [s EXCEPT !.up = u, !.mid = m.mid, !.reply = {}]
             /\ UNCHANGED <<toClient, handled>>
        [] OTHER ->
             IF b.more
             THEN /\ Respond(t, m, ResponseMsg("continue", b, None, <<>>))
                  /\ UNCHANGED handled
             ELSE HandleRequest(t, m, v.buffer)

\* Mutant: a later block comes from the resource as it is now.
Kept_fresh(s) == Representation(version)

\* The response whose next block is asked for.
Kept(s) == s.response

\* receive_request.
ServeRequest(m) ==
  CASE m.block1 # None -> Download(server, m)
    [] m.block1 = None /\ m.block2 # None /\ server.response # NoResponse ->
         /\ Respond([server EXCEPT !.down = [current |-> m.block2.num, size |-> m.block2.size]],
                    m, ResponseBlock(None, Kept(server), m.block2.num, m.block2.size))
         /\ UNCHANGED handled
    [] m.block1 = None /\ m.block2 # None /\ server.response = NoResponse ->
         HandleRequest([server EXCEPT !.down = [current |-> m.block2.num, size |-> m.block2.size]],
                       m, m.payload)
    [] OTHER -> HandleRequest(server, m, m.payload)

\* server_receive_request_msg: the repetition of the last request is answered
\* from its exchange.
is_repeated(m) == request.con /\ server.mid = m.mid

ServerReceives(m, again) ==
  /\ ~server.failed
  /\ Repeat(again)
  /\ toServer' = Left(toServer, m, again)
  /\ IF is_repeated(m)
     THEN toClient' = toClient \cup server.reply /\ UNCHANGED <<server, handled>>
     ELSE ServeRequest(m)
  /\ UNCHANGED <<request, client, version, nextMid, notified>>

-------------------------------------------------------------------------------
(* What goes wrong, and what others do.                                    *)

Lose ==
  /\ faults.loss < MaxLoss
  /\ faults' = [faults EXCEPT !.loss = @ + 1]
  /\ \/ \E m \in toServer : toServer' = toServer \ {m} /\ UNCHANGED toClient
     \/ \E m \in toClient : toClient' = toClient \ {m} /\ UNCHANGED toServer
  /\ UNCHANGED <<request, client, server, version, nextMid, history>>

\* The heart beat frees the exchange of the last request when its lifetime is
\* over, and with it the interaction and what it has collected.
Expire ==
  /\ server # NewServer /\ ~server.failed
  /\ faults.expiry < MaxExpiry
  /\ faults' = [faults EXCEPT !.expiry = @ + 1]
  /\ server' = NewServer
  /\ UNCHANGED <<request, client, version, nextMid, network, history>>

\* Somebody else changes the resource.
Change ==
  /\ version < MaxVersion
  /\ version' = version + 1
  /\ UNCHANGED <<request, client, server, nextMid, network, history, faults>>

Init ==
  /\ request \in Requests
  /\ client = NewClient
  /\ server = NewServer
  /\ version = 1
  /\ nextMid = 1
  /\ toServer = {} /\ toClient = {}
  /\ handled = <<>> /\ notified = {}
  /\ faults = [repeat |-> 0, loss |-> 0, expiry |-> 0]

Next ==
  \/ SendRequest
  \/ \E m \in toClient, again \in BOOLEAN : ClientReceives(m, again)
  \/ \E m \in toServer, again \in BOOLEAN : ServerReceives(m, again)
  \/ Lose \/ Expire \/ Change

Spec == Init /\ [][Next]_vars

\* The application sends, and a message that is not lost arrives.
FairSpec ==
  /\ Spec
  /\ WF_vars(SendRequest)
  /\ WF_vars(\E m \in toClient : ClientReceives(m, FALSE))
  /\ WF_vars(\E m \in toServer : ServerReceives(m, FALSE))

-------------------------------------------------------------------------------
(* Properties.                                                             *)

Blocks == [num : Nat, more : BOOLEAN, size : Nat \ {0}] \cup {None}

\* Every variable has its type.
TypeOK ==
  /\ request \in Requests
  /\ client.up = None \/ client.up \in [current : Nat, size : Nat \ {0}]
  /\ client.down = None \/
       /\ client.down.next \in Nat
       /\ Len(client.down.buffer) < request.down
  /\ client.failed \in BOOLEAN
  /\ server.up = None \/
       /\ server.up.next \in Nat
       /\ Len(server.up.buffer) <= request.up
  /\ server.response \in {Representation(v) : v \in 1..MaxVersion} \cup {NoResponse}
  /\ \A m \in toServer : m.mid \in 1..(nextMid - 1) /\ {m.block1, m.block2} \subseteq Blocks
  /\ \A m \in toClient : {m.block1, m.block2} \subseteq Blocks
  /\ version \in 1..MaxVersion

\* However blocks are lost, repeated or reordered, a resource gets the body
\* the application sent, all of it, or nothing.  Only when the server forgot
\* the interaction does a request for the next block of the response reach
\* the resource as a request without a body.
BodyIntact ==
  \A k \in DOMAIN handled :
    \/ handled[k] = Body
    \/ faults.expiry > 0 /\ handled[k] = <<>>

Units(body) == [i \in DOMAIN body |-> body[i][2]]
Versions(body) == {body[i][1] : i \in DOMAIN body}

\* A response the callback gets has every unit of the representation once and
\* in order, and all of one version, even when the resource changes in the
\* meantime, unless a request was repeated or the server forgot it.
ResponseIntact ==
  \A r \in notified : r.code = "content" =>
    /\ Units(r.body) = [i \in 1..request.down |-> i]
    /\ faults.repeat = 0 /\ faults.expiry = 0 => Cardinality(Versions(r.body)) = 1

\* No offset in either body needs more than 16 bits.
Fits == request.up + ClientBlock <= Width /\ request.down + ServerBlock <= Width

\* When nothing goes wrong on the way, the callback gets its response, whatever
\* the sizes of the blocks on either side, if the bodies fit 16-bit offsets.
TransferEnds ==
  [](Fits /\ \A f \in DOMAIN faults : faults[f] = 0) => <>(notified # {})

\* No block of a body or of a response is asked for beyond its end, unless the
\* answer to a block arrived twice and the client took each for a new one, or
\* the end of a block does not fit 16 bits.
NoOverrun == Fits /\ faults.repeat = 0 => ~client.failed /\ ~server.failed
===============================================================================
