-------------------------- MODULE Blockwise_proofs --------------------------
(***************************************************************************)
(* Proofs about Blockwise: its type invariant, the body that reaches the   *)
(* resource, the response that reaches the callback, and that no block is  *)
(* asked for beyond its end.                                               *)
(*                                                                         *)
(* The invariant has two halves.  DataInv holds whatever the network does: *)
(* each message carries the units its block names, and what either side    *)
(* has collected is a prefix.  QuietInv is about runs in which nothing was *)
(* repeated: there is one message under way, it belongs to the last block  *)
(* the client sent, and all of a response comes from what the server kept. *)
(***************************************************************************)
EXTENDS Blockwise, FiniteSetTheorems, SequenceTheorems, TLAPS

Small == Least(ClientBlock, ServerBlock)

\* The units of a body, and of some response, from one offset to another.
Slice(b, from, to) ==
  /\ b \in Seq(Nat) /\ from <= to /\ Len(b) = to - from
  /\ \A i \in 1..(to - from) : b[i] = from + i

SliceOf(b, from, to) ==
  /\ b \in Seq(Nat \X Nat) /\ from <= to /\ Len(b) = to - from
  /\ \A i \in 1..(to - from) : b[i][2] = from + i

\* The units of `b' have the version of the response `rep', or one version.
OfResponse(b, rep) == \A i \in 1..Len(b) : b[i][1] = rep[1][1]
OneVersion(b) == \A i \in 1..Len(b) : b[i][1] = b[1][1]

UpBlock   == [num : Nat, more : BOOLEAN, size : {ClientBlock, Small}]
DownBlock == [num : Nat, more : BOOLEAN, size : {ServerBlock}]

\* The three kinds of requests the client sends, for the request `q'.
UploadOK(m, q) ==
  LET b == m.block1 IN
  /\ b \in UpBlock /\ m.block2 = None
  /\ IF b.more THEN /\ (b.num + 1) * b.size < q.up
                    /\ Slice(m.payload, b.num * b.size, (b.num + 1) * b.size)
               ELSE Slice(m.payload, b.num * b.size, q.up)
WholeOK(m, q) == m.block1 = None /\ m.block2 = None /\ Slice(m.payload, 0, q.up)
AskOK(m) == m.block1 = None /\ m.block2 \in DownBlock /\ m.payload = <<>>
RequestOK(m, q) == UploadOK(m, q) \/ WholeOK(m, q) \/ AskOK(m)

\* The three kinds of replies the server sends.
ContinueOK(m, q) ==
  LET b == m.block1 IN
  /\ m.code = "continue" /\ m.block2 = None
  /\ b \in UpBlock /\ b.size = Small /\ (b.num + 1) * Small < q.up
TooLargeOK(m) ==
  /\ m.code = "tooLarge" /\ m.block2 = None
  /\ m.block1 # None => m.block1 = Block(0, FALSE, ServerBlock) /\ ServerBlock < ClientBlock
PieceOK(m, q) ==
  LET b    == m.block2
      from == b.num * ServerBlock
      to   == (b.num + 1) * ServerBlock
  IN  /\ b \in DownBlock
      /\ IF b.more THEN to < q.down /\ SliceOf(m.payload, from, to)
         ELSE \/ SliceOf(m.payload, from, q.down)
              \/ from >= q.down /\ m.payload = <<>>
ContentOK(m, q) ==
  /\ m.code = "content" /\ m.block1 \in Blocks
  /\ \/ m.block2 = None /\ SliceOf(m.payload, 0, q.down)
     \/ PieceOK(m, q)
ReplyOK(m, q) == ContinueOK(m, q) \/ TooLargeOK(m) \/ ContentOK(m, q)

\* What either side has collected is a prefix that lacks something.
ClientOK(c, q) ==
  /\ DOMAIN c = {"up", "down", "failed"}
  /\ c.up = None \/ c.up \in [current : Nat, size : {ClientBlock, Small}]
  /\ c.down = None \/
       /\ c.down \in [next : Nat, size : {ServerBlock}, buffer : Seq(Nat \X Nat)]
       /\ c.down.next = 0 \/ c.down.next * ServerBlock < q.down
       /\ SliceOf(c.down.buffer, 0, c.down.next * ServerBlock)
  /\ c.failed \in BOOLEAN

UploadedOK(u, q) ==
  u = None \/
    /\ u \in [current : Nat, next : Nat, size : {Small}, buffer : Seq(Nat)]
    /\ u.next = 0 \/ u.next * Small < q.up
    /\ Slice(u.buffer, 0, u.next * Small)

ServerOK(s, q) ==
  /\ DOMAIN s = {"up", "down", "response", "mid", "reply", "failed"}
  /\ UploadedOK(s.up, q)
  /\ s.down = None \/ s.down \in [current : Nat, size : {ServerBlock}]
  /\ s.response \in {Representation(v) : v \in 1..MaxVersion} \cup {NoResponse}
  /\ s.mid \in Nat
  /\ \A r \in s.reply : ReplyOK(r, q)
  /\ s.failed \in BOOLEAN

\* What a message tells of the client's upload.
Sized(m, c) == m.block1 # None => c.up # None /\ (m.block1.size = Small => c.up.size = Small)
Answers(r, c) ==
  /\ r.code = "continue" => c.up # None /\ c.up.size = Small
  /\ r.code = "tooLarge" /\ r.block1 # None => c.up # None

Scalars ==
  /\ request \in Requests
  /\ version \in 1..MaxVersion
  /\ nextMid \in Nat \ {0}
  /\ faults \in [repeat : Nat, loss : Nat, expiry : Nat]

Messages ==
  /\ \A m \in toServer : m.mid \in 1..(nextMid - 1) /\ RequestOK(m, request) /\ Sized(m, client)
  /\ \A m \in toClient \cup server.reply : ReplyOK(m, request) /\ Answers(m, client)
  /\ server.mid < nextMid
  /\ nextMid = 1 =>
       toServer = {} /\ toClient = {} /\ client = NewClient /\ server = NewServer

\* Something of a response is known only where the server has kept it.
Asked ==
  server.response = NoResponse /\ faults.expiry = 0 =>
    /\ \A m \in toServer : m.block2 = None
    /\ \A m \in toClient \cup server.reply : m.code # "content"

HandledOK ==
  /\ handled \in Seq(Seq(Nat))
  /\ \A k \in DOMAIN handled :
       \/ Slice(handled[k], 0, request.up)
       \/ faults.expiry > 0 /\ handled[k] = <<>>

NotifiedOK ==
  \A r \in notified : r.code = "content" =>
    /\ SliceOf(r.body, 0, request.down)
    /\ faults.repeat = 0 /\ faults.expiry = 0 => OneVersion(r.body)

DataInv ==
  /\ Scalars /\ ClientOK(client, request) /\ ServerOK(server, request)
  /\ Messages /\ Asked /\ HandledOK

\* One message is under way, and it is not the last one the server got.
Alone ==
  /\ \A m, n \in toServer : m = n
  /\ \A m, n \in toClient : m = n
  /\ toServer = {} \/ toClient = {}
  /\ \A m \in toServer : m.mid # server.mid

\* It is about the last block the client sent, or of the download.
InStep ==
  /\ \A m \in toServer : m.block1 # None =>
       m.block1.num = client.up.current /\ m.block1.size = client.up.size
  /\ \A m \in toClient : m.code = "continue" => m.block1.num = client.up.current
  /\ client.down # None =>
       /\ \A m \in toServer : m.block1 = None /\ m.block2 # None
       /\ \A m \in toClient : m.code = "content"

\* What there is of a response comes from what the server kept.
SameVersion ==
  /\ \A m \in toClient : m.code = "content" => OfResponse(m.payload, server.response)
  /\ client.down # None =>
       server.response # NoResponse /\ OfResponse(client.down.buffer, server.response)

QuietInv ==
  /\ Fits => ~server.failed
  /\ faults.repeat = 0 =>
       /\ Alone /\ InStep
       /\ Fits => ~client.failed
       /\ faults.expiry = 0 => SameVersion

TransferInv == DataInv /\ NotifiedOK /\ QuietInv

(***************************************************************************)
(* Sizes, offsets and ends.                                                *)
(***************************************************************************)
LEMMA Sizes ==
  /\ ClientBlock \in Nat \ {0} /\ ServerBlock \in Nat \ {0} /\ Small \in Nat \ {0}
  /\ MaxMessage \in Nat \ {0} /\ MaxBody \in Nat \ {0} /\ Width \in Nat \ {0}
  /\ ClientBlock < Width /\ ServerBlock < Width /\ Small < Width
  /\ Small <= ClientBlock /\ Small <= ServerBlock
  /\ Small = ClientBlock \/ (Small = ServerBlock /\ ServerBlock < ClientBlock)
  /\ MaxVersion \in Nat \ {0}
<1>1. /\ ClientBlock \in Nat \ {0} /\ ServerBlock \in Nat \ {0}
      /\ MaxMessage \in Nat \ {0} /\ MaxBody \in Nat \ {0} /\ Width \in Nat \ {0}
      /\ MaxVersion \in Nat \ {0}
      /\ ClientBlock < Width /\ ServerBlock < Width
  BY BlockwiseAssumption
<1> QED  BY <1>1 DEF Small, Least

LEMMA Products ==
  ASSUME NEW n \in Nat, NEW s \in Nat \ {0}
  PROVE  /\ n * s \in Nat /\ (n + 1) * s \in Nat /\ (n + 1) * s = n * s + s
         /\ n = 0 => n * s = 0
  OBVIOUS

LEMMA Remainder ==
  ASSUME NEW a \in Nat, NEW w \in Nat \ {0}
  PROVE  /\ a % w \in Nat
         /\ a < w => a % w = a
         /\ a >= w => a % w <= a - w
  OBVIOUS

\* A block that does not end before it begins ends where it should.
LEMMA Ends ==
  ASSUME NEW num \in Nat, NEW size \in Nat \ {0}, size < Width, NEW length \in Nat
  PROVE  LET to == ends(num, size, length) IN
         /\ to \in Nat /\ to <= length
         /\ to >= num * size => to = Least((num + 1) * size, length) /\ num * size <= length
         /\ num * size + size < Width => to = Least((num + 1) * size, length)
<1> DEFINE a == num * size
           e == (num + 1) * size
<1>1. a \in Nat /\ e \in Nat /\ e = a + size
  BY Products
<1>2. Width \in Nat \ {0}
  BY Sizes
<1> DEFINE r == e % Width
<1>3. r \in Nat /\ (e < Width => r = e) /\ (e >= Width => r <= e - Width)
  BY <1>1, <1>2, Remainder
<1>4. ends(num, size, length) = Least(r, length)
  BY DEF ends
<1> HIDE DEF r, a, e
<1>5. Least(r, length) \in Nat /\ Least(r, length) <= length /\ Least(r, length) <= r
  BY <1>3 DEF Least
<1>6. ASSUME Least(r, length) >= a
      PROVE  Least(r, length) = Least(e, length) /\ a <= length
  BY <1>1, <1>2, <1>3, <1>5, <1>6 DEF Least
<1>7. a + size < Width => Least(r, length) = Least(e, length)
  BY <1>1, <1>2, <1>3
<1> QED
  BY <1>4, <1>5, <1>6, <1>7 DEF a, e

(***************************************************************************)
(* Slices.                                                                 *)
(***************************************************************************)
\* `p' has the units of `b' behind `from', up to `to'.
PartOf(S, b, from, to, p) ==
  /\ p \in Seq(S)
  /\ Len(p) = to - from
  /\ \A i \in 1..(to - from) : p[i] = b[from + i]

LEMMA PartProperties ==
  ASSUME NEW S, NEW b \in Seq(S), NEW from \in Nat, NEW to \in Nat, from <= to, to <= Len(b)
  PROVE  PartOf(S, b, from, to, Part(b, from, to))
<1>1. CASE from = to
  <2>1. Part(b, from, to) = <<>>
    BY <1>1 DEF Part
  <2> QED  BY <1>1, <2>1 DEF PartOf
<1>2. CASE from < to
  <2>1. /\ SubSeq(b, from + 1, to) \in Seq(S)
        /\ Len(SubSeq(b, from + 1, to)) = to - (from + 1) + 1
        /\ \A i \in 1..(to - (from + 1) + 1) : SubSeq(b, from + 1, to)[i] = b[(from + 1) + i - 1]
    BY <1>2, SubSeqProperties
  <2>2. Part(b, from, to) = SubSeq(b, from + 1, to)
    BY <1>2 DEF Part
  <2> DEFINE p == Part(b, from, to)
  <2>3. p \in Seq(S) /\ Len(p) = to - from
    BY <1>2, <2>1, <2>2
  <2>4. \A i \in 1..(to - from) : p[i] = b[from + i]
    <3>1. to - (from + 1) + 1 = to - from /\ \A i \in 1..(to - from) : (from + 1) + i - 1 = from + i
      BY <1>2
    <3> QED  BY <2>1, <2>2, <3>1
  <2> QED  BY <2>3, <2>4 DEF PartOf
<1> QED  BY <1>1, <1>2

LEMMA BodyProperties ==
  ASSUME request.up \in Nat
  PROVE  Slice(Body, 0, request.up)
<1>1. Body \in Seq(Nat) /\ Len(Body) = request.up /\ \A i \in 1..request.up : Body[i] = i
  BY DEF Body
<1> QED  BY <1>1 DEF Slice

LEMMA RepresentationProperties ==
  ASSUME request.down \in Nat \ {0}, NEW v \in Nat
  PROVE  /\ Representation(v) \in Seq(Nat \X Nat)
         /\ Len(Representation(v)) = request.down
         /\ \A i \in 1..request.down : Representation(v)[i] = <<v, i>>
         /\ SliceOf(Representation(v), 0, request.down)
         /\ Representation(v) # NoResponse
<1>1. /\ Representation(v) \in Seq(Nat \X Nat)
      /\ Len(Representation(v)) = request.down
      /\ \A i \in 1..request.down : Representation(v)[i] = <<v, i>>
  BY DEF Representation
<1> QED  BY <1>1 DEF SliceOf, NoResponse

LEMMA JoinSlice ==
  ASSUME NEW a, NEW b, NEW f \in Nat, NEW t \in Nat, Slice(a, 0, f), Slice(b, f, t)
  PROVE  Slice(a \o b, 0, t)
<1>1. a \in Seq(Nat) /\ b \in Seq(Nat) /\ Len(a) = f /\ Len(b) = t - f /\ f <= t
  BY DEF Slice
<1>2. a \o b \in Seq(Nat) /\ Len(a \o b) = t
  <2>1. a \o b \in Seq(Nat) /\ Len(a \o b) = Len(a) + Len(b)
    BY <1>1, ConcatProperties
  <2> QED  BY <1>1, <2>1
<1>3. \A i \in 1..t : (a \o b)[i] = i
  <2> SUFFICES ASSUME NEW i \in 1..t PROVE (a \o b)[i] = i
    OBVIOUS
  <2>1. (a \o b)[i] = IF i <= f THEN a[i] ELSE b[i - f]
    BY <1>1, ConcatProperties
  <2>2. i <= f => a[i] = i
    BY <1>1 DEF Slice
  <2>3. i > f => b[i - f] = i
    BY <1>1 DEF Slice
  <2> QED  BY <2>1, <2>2, <2>3
<1> QED  BY <1>2, <1>3 DEF Slice

LEMMA JoinSliceOf ==
  ASSUME NEW a, NEW b, NEW f \in Nat, NEW t \in Nat, SliceOf(a, 0, f), SliceOf(b, f, t)
  PROVE  /\ SliceOf(a \o b, 0, t)
         /\ \A rep : OfResponse(a, rep) /\ OfResponse(b, rep) => OfResponse(a \o b, rep)
<1>1. a \in Seq(Nat \X Nat) /\ b \in Seq(Nat \X Nat) /\ Len(a) = f /\ Len(b) = t - f /\ f <= t
  BY DEF SliceOf
<1>2. a \o b \in Seq(Nat \X Nat) /\ Len(a \o b) = t
  <2>1. a \o b \in Seq(Nat \X Nat) /\ Len(a \o b) = Len(a) + Len(b)
    BY <1>1, ConcatProperties
  <2> QED  BY <1>1, <2>1
<1>3. \A i \in 1..t : /\ i <= f => (a \o b)[i] = a[i]
                      /\ i > f => (a \o b)[i] = b[i - f]
  <2> DEFINE c == a \o b
  <2>1. \A i \in 1..(Len(a) + Len(b)) : c[i] = IF i <= Len(a) THEN a[i] ELSE b[i - Len(a)]
    BY <1>1, ConcatProperties
  <2>2. Len(a) + Len(b) = t
    BY <1>1
  <2> HIDE DEF c
  <2>3. \A i \in 1..t : c[i] = IF i <= f THEN a[i] ELSE b[i - f]
    BY <1>1, <2>1, <2>2
  <2>4. \A i \in 1..t : i > f <=> ~(i <= f)
    OBVIOUS
  <2> QED  BY <2>3, <2>4 DEF c
<1>4. \A i \in 1..t : (a \o b)[i][2] = i
  <2> SUFFICES ASSUME NEW i \in 1..t PROVE (a \o b)[i][2] = i
    OBVIOUS
  <2>2. i <= f => a[i][2] = i
    BY <1>1 DEF SliceOf
  <2>3. i > f => b[i - f][2] = i
    <3>1. i > f => i - f \in 1..(t - f)
      BY <1>1
    <3> QED  BY <3>1 DEF SliceOf
  <2>4. i <= f => (a \o b)[i][2] = i
    BY <1>3, <2>2
  <2>5. i > f => (a \o b)[i][2] = i
    BY <1>3, <2>3
  <2>6. i <= f \/ i > f
    OBVIOUS
  <2> QED  BY <2>4, <2>5, <2>6
<1>5. ASSUME NEW rep, OfResponse(a, rep), OfResponse(b, rep)
      PROVE  OfResponse(a \o b, rep)
  <2> SUFFICES ASSUME NEW i \in 1..t PROVE (a \o b)[i][1] = rep[1][1]
    BY <1>2 DEF OfResponse
  <2>2. i <= f => a[i][1] = rep[1][1]
    BY <1>1, <1>5 DEF OfResponse
  <2>3. i > f => b[i - f][1] = rep[1][1]
    BY <1>1, <1>5 DEF OfResponse
  <2>4. i <= f => (a \o b)[i][1] = rep[1][1]
    BY <1>3, <2>2
  <2>5. i > f => (a \o b)[i][1] = rep[1][1]
    BY <1>3, <2>3
  <2>6. i <= f \/ i > f
    OBVIOUS
  <2> QED  BY <2>4, <2>5, <2>6
<1>6. SliceOf(a \o b, 0, t)
  <2>1. t - 0 = t /\ 0 <= t /\ \A i \in 1..t : 0 + i = i
    OBVIOUS
  <2> DEFINE c == a \o b
  <2>2. c \in Seq(Nat \X Nat) /\ Len(c) = t /\ \A i \in 1..t : c[i][2] = i
    BY <1>2, <1>4
  <2> HIDE DEF c
  <2>3. SliceOf(c, 0, t)
    BY <2>1, <2>2 DEF SliceOf
  <2> QED  BY <2>3 DEF c
<1> QED  BY <1>5, <1>6

LEMMA SliceIsBody ==
  ASSUME request.up \in Nat, NEW b, Slice(b, 0, request.up)
  PROVE  b = Body
<1>1. Body \in Seq(Nat) /\ Len(Body) = request.up /\ \A i \in 1..request.up : Body[i] = i
  BY DEF Body
<1>2. b \in Seq(Nat) /\ Len(b) = request.up /\ \A i \in 1..request.up : b[i] = i
  BY DEF Slice
<1> QED  BY <1>1, <1>2, SeqEqual

(***************************************************************************)
(* Messages.                                                               *)
(***************************************************************************)
LEMMA NoneProperties ==
  /\ \A n, x, s : Block(n, x, s) # None
  /\ \A b \in UpBlock \cup DownBlock : b # None
  /\ \A n, s : [current |-> n, size |-> s] # None
  /\ \A n, s, b : [next |-> n, size |-> s, buffer |-> b] # None
  /\ \A c, n, s, b : [current |-> c, next |-> n, size |-> s, buffer |-> b] # None
  /\ \A c, x, y, z : ResponseMsg(c, x, y, z) # None
<1>1. DOMAIN None = {"none"}
  BY DEF None
<1>2. \A r : DOMAIN r # {"none"} => r # None
  BY <1>1
<1>3. \A n, x, s : Block(n, x, s) # None
  BY <1>2 DEF Block
<1>4. \A b \in UpBlock \cup DownBlock : b # None
  BY <1>2 DEF UpBlock, DownBlock
<1>5. \A n, s : [current |-> n, size |-> s] # None
  BY <1>2
<1>6. \A n, s, b : [next |-> n, size |-> s, buffer |-> b] # None
  BY <1>2
<1>7. \A c, n, s, b : [current |-> c, next |-> n, size |-> s, buffer |-> b] # None
  BY <1>2
<1>8. \A c, x, y, z : ResponseMsg(c, x, y, z) # None
  BY <1>2 DEF ResponseMsg
<1> QED  BY <1>3, <1>4, <1>5, <1>6, <1>7, <1>8

LEMMA BlockTypes ==
  /\ Blocks = [num : Nat, more : BOOLEAN, size : Nat \ {0}] \cup {None}
  /\ UpBlock \subseteq Blocks /\ DownBlock \subseteq Blocks /\ None \in Blocks
  /\ \A n \in Nat, x \in BOOLEAN, s \in Nat \ {0} : Block(n, x, s) \in Blocks
  BY Sizes DEF Blocks, UpBlock, DownBlock, Block

\* The block of the body that a client sends.
LEMMA UploadPart ==
  ASSUME request.up \in Nat, NEW num \in Nat, NEW size \in {ClientBlock, Small}, NEW mid,
         ends(num, size, request.up) >= num * size
  PROVE  LET to   == ends(num, size, request.up)
             more == has_more(to, request.up)
             m    == RequestMsg(mid, Block(num, more, size), None, Part(Body, num * size, to))
         IN  UploadOK(m, request)
<1> DEFINE to == ends(num, size, request.up)
           more == has_more(to, request.up)
           from == num * size
           e == (num + 1) * size
           p == Part(Body, from, to)
           m == RequestMsg(mid, Block(num, more, size), None, p)
<1>1. size \in Nat \ {0} /\ size < Width
  BY Sizes
<1>2. from \in Nat /\ e \in Nat /\ e = from + size
  BY <1>1, Products
<1>3. to \in Nat /\ to <= request.up /\ to = Least(e, request.up) /\ from <= request.up
  BY <1>1, Ends
<1>4. from <= to
  OBVIOUS
<1>5. more \in BOOLEAN /\ (more => to = e /\ e < request.up) /\ (~more => to = request.up)
  <2> HIDE DEF e
  <2> QED  BY <1>2, <1>3 DEF has_more, Least
<1> HIDE DEF to, from, e, more
<1>6. Slice(p, from, to)
  <2>1. Body \in Seq(Nat) /\ Len(Body) = request.up /\ \A i \in 1..request.up : Body[i] = i
    BY BodyProperties DEF Slice
  <2>2. /\ p \in Seq(Nat) /\ Len(p) = to - from
        /\ \A i \in 1..(to - from) : p[i] = Body[from + i]
    <3>1. from \in Nat /\ to \in Nat /\ from <= to /\ to <= Len(Body)
      BY <1>2, <1>3, <1>4, <2>1
    <3>2. /\ Part(Body, from, to) \in Seq(Nat) /\ Len(Part(Body, from, to)) = to - from
          /\ \A i \in 1..(to - from) : Part(Body, from, to)[i] = Body[from + i]
      <4> DEFINE N == Nat
      <4>1. Body \in Seq(N)
        BY <2>1
      <4>2. N = Nat
        OBVIOUS
      <4> HIDE DEF N
      <4>3. PartOf(N, Body, from, to, Part(Body, from, to))
        BY <3>1, <4>1, PartProperties
      <4> QED  BY <4>2, <4>3 DEF PartOf
    <3> QED  BY <3>2
  <2>3. \A i \in 1..(to - from) : from + i \in 1..request.up
    BY <1>2, <1>3, <1>4
  <2> HIDE DEF p
  <2> QED  BY <1>4, <2>1, <2>2, <2>3 DEF Slice
<1> HIDE DEF p
<1>7. /\ m.block1 = Block(num, more, size) /\ m.block2 = None /\ m.payload = p
      /\ m.block1.num = num /\ m.block1.more = more /\ m.block1.size = size
  BY DEF RequestMsg, Block
<1>8. m.block1 \in UpBlock
  BY <1>5, <1>7 DEF UpBlock, Block
<1> HIDE DEF m
<1>9. UploadOK(m, request)
  <2>1. CASE more
    <3>1. e < request.up /\ Slice(p, from, e)
      BY <1>5, <1>6, <2>1
    <3> QED  BY <1>7, <1>8, <2>1, <3>1 DEF UploadOK, e, from
  <2>2. CASE ~more
    <3>1. Slice(p, from, request.up)
      BY <1>5, <1>6, <2>2
    <3> QED  BY <1>7, <1>8, <2>2, <3>1 DEF UploadOK, e, from
  <2> QED  BY <2>1, <2>2
<1> QED  BY <1>9 DEF m, p, more, to, from

\* The reply with a block of a response.
LEMMA DownloadPart ==
  ASSUME request.down \in Nat \ {0}, NEW v \in Nat, NEW num \in Nat, NEW block1 \in Blocks
  PROVE  LET rep == Representation(v)
             r   == ResponseBlock(block1, rep, num, ServerBlock)
         IN  /\ r # None => ContentOK(r, request) /\ OfResponse(r.payload, rep)
             /\ r # None => r.code = "content" /\ r.block2 # None
             /\ request.down + ServerBlock <= Width => r # None
<1> DEFINE rep == Representation(v)
           to == ends(num, ServerBlock, Len(rep))
           from == num * ServerBlock
           e == (num + 1) * ServerBlock
           p == Part(rep, from, to)
           more == has_more(to, Len(rep))
           r == ResponseBlock(block1, rep, num, ServerBlock)
<1>0. rep \in Seq(Nat \X Nat) /\ Len(rep) = request.down
      /\ \A i \in 1..request.down : rep[i] = <<v, i>>
  BY RepresentationProperties
<1>1. ServerBlock \in Nat \ {0} /\ ServerBlock < Width
  BY Sizes
<1>2. from \in Nat /\ e \in Nat /\ e = from + ServerBlock
  BY <1>1, Products
<1>3. /\ to \in Nat /\ to <= request.down
      /\ to >= from => to = Least(e, request.down) /\ from <= request.down
      /\ from + ServerBlock < Width => to = Least(e, request.down)
  <2>1. to = ends(num, ServerBlock, request.down)
    BY <1>0
  <2> HIDE DEF to
  <2> QED  BY <1>1, <2>1, Ends
<1> HIDE DEF e
<1>r. /\ from >= request.down =>
           r = ResponseMsg("content", block1, Block(num, FALSE, ServerBlock), <<>>)
      /\ from < request.down /\ to < from => r = None
      /\ from < request.down /\ ~(to < from) =>
           r = ResponseMsg("content", block1, Block(num, more, ServerBlock), p)
  <2>1. from \in Nat /\ request.down \in Nat
    BY <1>2
  <2>2. r = CASE from >= request.down ->
                 ResponseMsg("content", block1, Block(num, FALSE, ServerBlock), <<>>)
            [] from < request.down /\ to < from -> None
            [] OTHER -> ResponseMsg("content", block1, Block(num, more, ServerBlock), p)
    BY <1>0 DEF ResponseBlock
  <2> HIDE DEF rep, to, from, r, p, more
  <2>3. from >= request.down <=> ~(from < request.down)
    BY <2>1
  <2> QED  BY <2>2, <2>3, Zenon
<1> HIDE DEF rep, to, from, r, p, more
<1>d. \A x \in BOOLEAN : Block(num, x, ServerBlock) \in DownBlock /\ Block(num, x, ServerBlock) # None
  BY NoneProperties DEF DownBlock, Block
<1>4. CASE from >= request.down
  <2>1. r = ResponseMsg("content", block1, Block(num, FALSE, ServerBlock), <<>>)
    BY <1>r, <1>4
  <2>2. /\ r.code = "content" /\ r.block1 = block1 /\ r.block2 = Block(num, FALSE, ServerBlock)
        /\ r.payload = <<>> /\ r.block2.num = num /\ r.block2.more = FALSE
    BY <2>1 DEF ResponseMsg, Block
  <2>3. r # None
    BY <2>1, NoneProperties
  <2>4. OfResponse(r.payload, rep)
    BY <2>2 DEF OfResponse
  <2>5. PieceOK(r, request)
    BY <1>4, <1>d, <2>2 DEF PieceOK, from
  <2> QED  BY <2>2, <2>3, <2>4, <2>5, <1>d DEF ContentOK, r, rep
<1>5. CASE from < request.down /\ to < from
  <2>1. r = None
    BY <1>r, <1>5
  <2>2. ~(request.down + ServerBlock <= Width)
    <3> SUFFICES ASSUME request.down + ServerBlock <= Width PROVE FALSE
      OBVIOUS
    <3>1. from + ServerBlock < Width
      BY <1>1, <1>2, <1>5, Sizes
    <3> QED  BY <1>1, <1>2, <1>3, <1>5, <3>1 DEF Least
  <2> QED  BY <2>1, <2>2 DEF r, rep
<1>6. CASE from < request.down /\ ~(to < from)
  <2>1. r = ResponseMsg("content", block1, Block(num, more, ServerBlock), p)
    BY <1>r, <1>6
  <2>2. /\ r.code = "content" /\ r.block1 = block1 /\ r.block2 = Block(num, more, ServerBlock)
        /\ r.payload = p /\ r.block2.num = num /\ r.block2.more = more
    BY <2>1 DEF ResponseMsg, Block
  <2>3. r # None
    BY <2>1, NoneProperties
  <2>4. more \in BOOLEAN /\ (more => to = e /\ e < request.down) /\ (~more => to = request.down)
    BY <1>0, <1>2, <1>3, <1>6 DEF has_more, Least, more
  <2>5. from <= to
    BY <1>2, <1>3, <1>6
  <2>6. /\ p \in Seq(Nat \X Nat) /\ Len(p) = to - from
        /\ \A i \in 1..(to - from) : p[i] = rep[from + i]
    <3> DEFINE N == Nat \X Nat
    <3>1. rep \in Seq(N) /\ to <= Len(rep)
      BY <1>0, <1>3
    <3> HIDE DEF N
    <3>2. PartOf(N, rep, from, to, p)
      BY <1>2, <1>3, <2>5, <3>1, PartProperties DEF p
    <3> QED  BY <3>2 DEF PartOf, N
  <2>7. \A i \in 1..(to - from) : p[i] = <<v, from + i>>
    <3>1. \A i \in 1..(to - from) : from + i \in 1..request.down
      BY <1>2, <1>3, <2>5
    <3> QED  BY <1>0, <2>6, <3>1
  <2>8. SliceOf(p, from, to)
    BY <2>5, <2>6, <2>7 DEF SliceOf
  <2>9. OfResponse(r.payload, rep)
    <3>1. rep[1][1] = v
      <4>1. 1 \in 1..request.down
        OBVIOUS
      <4>2. rep[1] = <<v, 1>>
        BY <1>0, <4>1, Zenon
      <4> QED  BY <4>2
    <3> QED  BY <2>2, <2>6, <2>7, <3>1 DEF OfResponse
  <2>10. PieceOK(r, request)
    <3>1. r.block2 \in DownBlock
      BY <1>d, <2>2, <2>4
    <3>2. CASE more
      <4>1. e < request.down /\ SliceOf(r.payload, from, e)
        BY <2>2, <2>4, <2>8, <3>2
      <4> QED  BY <2>2, <3>1, <3>2, <4>1 DEF PieceOK, e, from
    <3>3. CASE ~more
      <4>1. SliceOf(r.payload, from, request.down)
        BY <2>2, <2>4, <2>8, <3>3
      <4> QED  BY <2>2, <3>1, <3>3, <4>1 DEF PieceOK, e, from
    <3> QED  BY <3>2, <3>3
  <2>11. r.block2 # None
    BY <1>d, <2>2, <2>4
  <2>12. ContentOK(r, request)
    BY <2>2, <2>10 DEF ContentOK
  <2> QED  BY <2>2, <2>3, <2>9, <2>11, <2>12 DEF r, rep
<1>7. from \in Nat /\ request.down \in Nat
  BY <1>2
<1> QED  BY <1>2, <1>3, <1>4, <1>5, <1>6, <1>7

(***************************************************************************)
(* What the parts of the client's step do.                                 *)
(***************************************************************************)
LEMMA SendRequestBlockEffect ==
  ASSUME request.up \in Nat, NEW c, ClientOK(c, request), nextMid \in Nat \ {0},
         NEW num \in Nat, NEW size \in {ClientBlock, Small}, SendRequestBlock(c, num, size)
  PROVE  /\ ClientOK(client', request)
         /\ client'.down = c.down
         /\ \/ /\ client'.up = c.up
               /\ toServer' = toServer /\ nextMid' = nextMid
               /\ ~(num * size <= request.up /\ num * size + size < Width)
            \/ /\ client'.failed = c.failed
               /\ client'.up # None /\ client'.up.current = num /\ client'.up.size = size
               /\ nextMid' = nextMid + 1
               /\ \E n : /\ toServer' = toServer \cup {n}
                         /\ n.mid = nextMid /\ UploadOK(n, request)
                         /\ n.block1 # None /\ n.block1.num = num /\ n.block1.size = size
<1> DEFINE from == num * size
           to == ends(num, size, request.up)
           n == RequestMsg(nextMid, Block(num, has_more(to, request.up), size), None,
                           Part(Body, from, to))
           up == [current |-> num, size |-> size]
<1>0. DOMAIN c = {"up", "down", "failed"}
  BY DEF ClientOK
<1>1. size \in Nat \ {0} /\ size < Width
  BY Sizes
<1>2. /\ to \in Nat /\ to <= request.up
      /\ to >= from => to = Least((num + 1) * size, request.up) /\ from <= request.up
      /\ from + size < Width => to = Least((num + 1) * size, request.up)
  BY <1>1, Ends
<1>3. from \in Nat /\ (num + 1) * size = from + size
  BY <1>1, Products
<1>4. CASE to < from
  <2>1. client' = [c EXCEPT !.failed = TRUE] /\ toServer' = toServer /\ nextMid' = nextMid
    BY <1>4 DEF SendRequestBlock
  <2>2. /\ DOMAIN client' = {"up", "down", "failed"} /\ client'.up = c.up
        /\ client'.down = c.down /\ client'.failed = TRUE
    BY <1>0, <2>1
  <2>3. ~(from <= request.up /\ from + size < Width)
    <3> SUFFICES ASSUME from <= request.up, from + size < Width PROVE FALSE
      OBVIOUS
    <3>1. to = Least(from + size, request.up)
      BY <1>2, <1>3
    <3> HIDE DEF from, to
    <3> QED  BY <1>1, <1>3, <1>4, <3>1 DEF Least
  <2>4. ClientOK(client', request)
    BY <2>2 DEF ClientOK
  <2> QED  BY <2>1, <2>2, <2>3, <2>4
<1>5. CASE ~(to < from)
  <2>1. client' = [c EXCEPT !.up = up] /\ toServer' = toServer \cup {n} /\ nextMid' = nextMid + 1
    BY <1>5 DEF SendRequestBlock
  <2>2. /\ DOMAIN client' = {"up", "down", "failed"} /\ client'.up = up
        /\ client'.down = c.down /\ client'.failed = c.failed
    BY <1>0, <2>1
  <2>3. up # None /\ up.current = num /\ up.size = size
    BY NoneProperties
  <2>4. up \in [current : Nat, size : {ClientBlock, Small}]
    OBVIOUS
  <2>5. ClientOK(client', request)
    <3> HIDE DEF up
    <3> QED  BY <2>2, <2>4 DEF ClientOK
  <2>6. UploadOK(n, request)
    <3>1. to >= from
      BY <1>2, <1>3, <1>5
    <3> QED  BY <3>1, UploadPart
  <2>7. /\ n.mid = nextMid /\ n.block1 # None /\ n.block1.num = num /\ n.block1.size = size
    BY NoneProperties DEF RequestMsg, Block
  <2> HIDE DEF n, up
  <2> QED  BY <2>1, <2>2, <2>3, <2>5, <2>6, <2>7
<1> QED  BY <1>4, <1>5

\* What the client has of the response before it looks at a block.
Had == IF client.down = None THEN <<>> ELSE client.down.buffer

LEMMA ContinueDownloadEffect ==
  ASSUME request.down \in Nat \ {0}, ClientOK(client, request), nextMid \in Nat \ {0},
         NEW m, PieceOK(m, request), ContinueDownload(m)
  PROVE  /\ ClientOK(client', request)
         /\ client'.up = client.up /\ client'.failed = client.failed
         /\ \/ /\ toServer' = toServer /\ nextMid' = nextMid /\ notified' = notified
               /\ client'.down # None /\ client'.down.buffer = Had
            \/ /\ client'.down # None
               /\ nextMid' = nextMid + 1 /\ notified' = notified
               /\ \E n : toServer' = toServer \cup {n} /\ n.mid = nextMid /\ AskOK(n)
               /\ \A rep : OfResponse(Had, rep) /\ OfResponse(m.payload, rep)
                             => OfResponse(client'.down.buffer, rep)
            \/ /\ client'.down = None
               /\ toServer' = toServer /\ nextMid' = nextMid
               /\ \E body : /\ notified' = notified \cup {[code |-> m.code, body |-> body]}
                            /\ SliceOf(body, 0, request.down)
                            /\ \A rep : OfResponse(Had, rep) /\ OfResponse(m.payload, rep)
                                          => OfResponse(body, rep)
<1> DEFINE d == IF client.down = None
                THEN [next |-> 0, size |-> m.block2.size, buffer |-> <<>>] ELSE client.down
           body == d.buffer \o m.payload
           at == d.next * ServerBlock
<1>0. DOMAIN client = {"up", "down", "failed"}
  BY DEF ClientOK
<1>1. /\ m.block2 \in DownBlock /\ m.block2.num \in Nat /\ m.block2.more \in BOOLEAN
      /\ m.block2.size = ServerBlock
  BY DEF PieceOK, DownBlock
<1>2. /\ d \in [next : Nat, size : {ServerBlock}, buffer : Seq(Nat \X Nat)]
      /\ d.next = 0 \/ at < request.down
      /\ SliceOf(d.buffer, 0, at)
      /\ d.buffer = Had
  <2>1. CASE client.down = None
    <3>1. d = [next |-> 0, size |-> ServerBlock, buffer |-> <<>>]
      BY <1>1, <2>1
    <3>2. d.next = 0 /\ d.buffer = <<>> /\ d.size = ServerBlock
      BY <3>1
    <3>3. at = 0
      BY <3>2, Sizes
    <3>4. SliceOf(<<>>, 0, 0)
      BY DEF SliceOf
    <3> HIDE DEF at, d
    <3>5. d \in [next : Nat, size : {ServerBlock}, buffer : Seq(Nat \X Nat)]
      <4>1. <<>> \in Seq(Nat \X Nat) /\ 0 \in Nat
        OBVIOUS
      <4> QED  BY <3>1, <4>1
    <3> QED  BY <2>1, <3>2, <3>3, <3>4, <3>5 DEF Had
  <2>2. CASE client.down # None
    <3>1. d = client.down
      BY <2>2
    <3> QED  BY <2>2, <3>1 DEF ClientOK, Had
  <2> QED  BY <2>1, <2>2
<1>3. d.next \in Nat /\ d # None
  BY <1>2, NoneProperties
<1>4. at \in Nat /\ (d.next + 1) * ServerBlock = at + ServerBlock /\ (d.next = 0 => at = 0)
  BY <1>3, Sizes, Products
<1>c. /\ ~is_next(d, m) =>
           /\ client' = [client EXCEPT !.down = d]
           /\ UNCHANGED <<toServer, nextMid, notified>>
      /\ is_next(d, m) /\ m.block2.more =>
           /\ client' = [client EXCEPT !.down = [[d EXCEPT !.buffer = @ \o m.payload] EXCEPT !.next = @ + 1]]
           /\ toServer' = toServer \cup
                {RequestMsg(nextMid, None, Block(d.next + 1, FALSE, d.size), <<>>)}
           /\ nextMid' = nextMid + 1
           /\ UNCHANGED notified
      /\ is_next(d, m) /\ ~m.block2.more =>
           /\ client' = [client EXCEPT !.down = None]
           /\ notified' = notified \cup
                {[code |-> m.code, body |-> [d EXCEPT !.buffer = @ \o m.payload].buffer]}
           /\ UNCHANGED <<toServer, nextMid>>
  BY DEF ContinueDownload
<1> HIDE DEF d, at
<1>5. CASE ~is_next(d, m)
  <2>1. client' = [client EXCEPT !.down = d] /\ toServer' = toServer /\ nextMid' = nextMid
        /\ notified' = notified
    BY <1>5, <1>c
  <2>2. /\ DOMAIN client' = {"up", "down", "failed"} /\ client'.up = client.up
        /\ client'.down = d /\ client'.failed = client.failed
    BY <1>0, <2>1
  <2>3. ClientOK(client', request)
    BY <1>2, <2>2 DEF ClientOK, at
  <2> QED  BY <1>2, <1>3, <2>1, <2>2, <2>3
<1>6. CASE is_next(d, m) /\ m.block2.more
  <2> DEFINE e == [next |-> d.next + 1, size |-> ServerBlock, buffer |-> body]
             n == RequestMsg(nextMid, None, Block(d.next + 1, FALSE, ServerBlock), <<>>)
  <2>1. [[d EXCEPT !.buffer = @ \o m.payload] EXCEPT !.next = @ + 1] = e
    <3>1. d = [next |-> d.next, size |-> ServerBlock, buffer |-> d.buffer]
      BY <1>2
    <3> DEFINE f == [d EXCEPT !.buffer = @ \o m.payload]
    <3>2. f = [next |-> d.next, size |-> ServerBlock, buffer |-> body]
      <4> HIDE DEF body
      <4>1. f = [d EXCEPT !.buffer = body]
        BY <3>1 DEF body
      <4> HIDE DEF f
      <4> QED  BY <3>1, <4>1
    <3> HIDE DEF f, body
    <3>3. f.next = d.next
      BY <3>2
    <3>4. [f EXCEPT !.next = @ + 1] = [f EXCEPT !.next = f.next + 1]
      OBVIOUS
    <3>5. [f EXCEPT !.next = f.next + 1] = e
      BY <3>2, <3>3
    <3> QED  BY <3>4, <3>5 DEF f
  <2>2. d.size = ServerBlock
    BY <1>2
  <2>3. /\ client' = [client EXCEPT !.down = e] /\ toServer' = toServer \cup {n}
        /\ nextMid' = nextMid + 1 /\ notified' = notified
    BY <1>6, <1>c, <2>1, <2>2
  <2>4. m.block2.num = d.next
    BY <1>6 DEF is_next
  <2>5. SliceOf(m.payload, at, at + ServerBlock) /\ at + ServerBlock < request.down
    BY <1>4, <1>6, <2>4 DEF PieceOK, at
  <2>6. /\ SliceOf(body, 0, at + ServerBlock)
        /\ \A rep : OfResponse(d.buffer, rep) /\ OfResponse(m.payload, rep) => OfResponse(body, rep)
    BY <1>2, <1>4, <2>5, Sizes, JoinSliceOf
  <2>7. /\ e \in [next : Nat, size : {ServerBlock}, buffer : Seq(Nat \X Nat)]
        /\ e.next * ServerBlock = at + ServerBlock /\ e.buffer = body /\ e # None
    <3>1. body \in Seq(Nat \X Nat)
      BY <2>6 DEF SliceOf
    <3> HIDE DEF body
    <3>2. e.next = d.next + 1 /\ e.buffer = body /\ e # None
      BY NoneProperties
    <3> QED  BY <1>3, <1>4, <3>1, <3>2
  <2>8. n.mid = nextMid /\ AskOK(n)
    BY <1>3 DEF AskOK, RequestMsg, Block, DownBlock
  <2> HIDE DEF e, n, body
  <2>9. /\ DOMAIN client' = {"up", "down", "failed"} /\ client'.up = client.up
        /\ client'.down = e /\ client'.failed = client.failed
    BY <1>0, <2>3
  <2>10. ClientOK(client', request)
    BY <2>5, <2>6, <2>7, <2>9 DEF ClientOK
  <2> QED  BY <1>2, <2>3, <2>6, <2>7, <2>8, <2>9, <2>10
<1>7. CASE is_next(d, m) /\ ~m.block2.more
  <2>1. [d EXCEPT !.buffer = @ \o m.payload].buffer = body
    BY <1>2
  <2>2. /\ client' = [client EXCEPT !.down = None] /\ toServer' = toServer
        /\ nextMid' = nextMid
        /\ notified' = notified \cup {[code |-> m.code, body |-> body]}
    BY <1>7, <1>c, <2>1
  <2>3. m.block2.num = d.next
    BY <1>7 DEF is_next
  <2>4. SliceOf(m.payload, at, request.down)
    <3>1. SliceOf(m.payload, at, request.down) \/ at >= request.down
      BY <1>7, <2>3 DEF PieceOK, at
    <3>2. at < request.down
      BY <1>2, <1>4
    <3> QED  BY <1>4, <3>1, <3>2
  <2>5. /\ SliceOf(body, 0, request.down)
        /\ \A rep : OfResponse(d.buffer, rep) /\ OfResponse(m.payload, rep) => OfResponse(body, rep)
    BY <1>2, <1>4, <2>4, JoinSliceOf
  <2> HIDE DEF body
  <2>6. /\ DOMAIN client' = {"up", "down", "failed"} /\ client'.up = client.up
        /\ client'.down = None /\ client'.failed = client.failed
    BY <1>0, <2>2
  <2>7. ClientOK(client', request)
    BY <2>6 DEF ClientOK
  <2> QED  BY <1>2, <2>2, <2>5, <2>6, <2>7
<1> QED  BY <1>5, <1>6, <1>7

(***************************************************************************)
(* What the parts of the server's step do.                                 *)
(***************************************************************************)
ServerFields == {"up", "down", "response", "mid", "reply", "failed"}

Answered(s, m, r) ==
  /\ server'.reply = {r} /\ toClient' = toClient \cup {r}
  /\ server'.mid = m.mid /\ server'.failed = s.failed

Unanswered(s) ==
  /\ server'.reply = s.reply /\ toClient' = toClient
  /\ server'.mid = s.mid /\ server'.failed = TRUE

LEMMA RespondEffect ==
  ASSUME NEW s, DOMAIN s = ServerFields, NEW m, NEW r, Respond(s, m, r)
  PROVE  /\ DOMAIN server' = ServerFields
         /\ server'.up = s.up /\ server'.down = s.down /\ server'.response = s.response
         /\ \/ r = None /\ Unanswered(s)
            \/ r # None /\ Answered(s, m, r)
<1>1. CASE r = None
  <2>1. server' = [s EXCEPT !.failed = TRUE] /\ toClient' = toClient
    BY <1>1 DEF Respond
  <2> QED  BY <1>1, <2>1 DEF Unanswered, ServerFields
<1>2. CASE r # None
  <2>1. server' = [s EXCEPT !.mid = m.mid, !.reply = {r}] /\ toClient' = toClient \cup {r}
    BY <1>2 DEF Respond
  <2> QED  BY <1>2, <2>1 DEF Answered, ServerFields
<1> QED  BY <1>1, <1>2

\* The type of the server's state without its upload, which `s' may have ended.
HandlerOK(s, q) ==
  /\ DOMAIN s = ServerFields
  /\ s.up # None => s.up.current \in Nat /\ s.up.size = Small
  /\ s.down = None \/ s.down \in [current : Nat, size : {ServerBlock}]
  /\ s.mid \in Nat /\ s.failed \in BOOLEAN
  /\ \A r \in s.reply : ReplyOK(r, q)

LEMMA HandleRequestEffect ==
  ASSUME request.down \in Nat \ {0}, version \in 1..MaxVersion,
         NEW s, HandlerOK(s, request), NEW m, m.mid \in Nat, NEW body, HandleRequest(s, m, body)
  PROVE  /\ ServerOK(server', request)
         /\ server'.response # NoResponse
         /\ handled' = Append(handled, body)
         /\ \/ Unanswered(s) /\ ~(request.down + ServerBlock <= Width)
            \/ \E r : /\ Answered(s, m, r)
                      /\ ContentOK(r, request) /\ OfResponse(r.payload, server'.response)
<1> DEFINE rep == Representation(version)
           block1 == IF s.up = None THEN None ELSE Block(s.up.current, FALSE, s.up.size)
           d == IF s.down = None THEN [current |-> 0, size |-> ServerBlock] ELSE s.down
           block == ResponseBlock(block1, rep, d.current, d.size)
           whole == Len(rep) <= MaxMessage /\ s.down = None
           last == whole \/ (block # None /\ ~block.block2.more)
           t == [s EXCEPT !.up = None, !.response = rep, !.down = IF last THEN None ELSE d]
           r == IF whole THEN ResponseMsg("content", block1, None, rep) ELSE block
<1>1. handled' = Append(handled, body) /\ Respond(t, m, r)
  BY DEF HandleRequest
<1>2. version \in Nat /\ version \in 1..MaxVersion
  BY Sizes
<1>3. rep # NoResponse /\ SliceOf(rep, 0, request.down)
  BY <1>2, RepresentationProperties
<1>4. block1 \in Blocks
  BY BlockTypes, Sizes DEF HandlerOK
<1>5. d \in [current : Nat, size : {ServerBlock}] /\ d.current \in Nat /\ d.size = ServerBlock
  <2>1. CASE s.down = None
    BY <2>1
  <2>2. CASE s.down # None
    BY <2>2 DEF HandlerOK
  <2> QED  BY <2>1, <2>2
<1>6. /\ block # None => ContentOK(block, request) /\ OfResponse(block.payload, rep)
      /\ request.down + ServerBlock <= Width => block # None
  <2> HIDE DEF block1, d
  <2>1. block = ResponseBlock(block1, rep, d.current, ServerBlock)
    BY <1>5
  <2> QED  BY <1>2, <1>4, <1>5, <2>1, DownloadPart
<1>7. LET w == ResponseMsg("content", block1, None, rep) IN
      w # None /\ ContentOK(w, request) /\ OfResponse(w.payload, rep)
  <2> DEFINE w == ResponseMsg("content", block1, None, rep)
  <2> HIDE DEF block1
  <2>1. w.code = "content" /\ w.block1 = block1 /\ w.block2 = None /\ w.payload = rep
    BY DEF ResponseMsg
  <2>2. w # None
    BY NoneProperties
  <2>3. OfResponse(rep, rep)
    <3>1. /\ Len(rep) = request.down
          /\ \A i \in 1..request.down : rep[i] = <<version, i>>
      BY <1>2, RepresentationProperties
    <3> HIDE DEF rep
    <3>2. rep[1] = <<version, 1>>
      BY <3>1
    <3> QED  BY <3>1, <3>2 DEF OfResponse
  <2> HIDE DEF w, rep
  <2>4. ContentOK(w, request)
    BY <1>3, <1>4, <2>1 DEF ContentOK
  <2> QED  BY <2>1, <2>2, <2>3, <2>4 DEF w
<1>8. DOMAIN t = ServerFields /\ t.up = None /\ t.response = rep /\ t.mid = s.mid
      /\ t.reply = s.reply /\ t.failed = s.failed /\ t.down = IF last THEN None ELSE d
  <2> HIDE DEF rep, last, d
  <2> QED  BY DEF HandlerOK, ServerFields
<1>9. /\ r # None => ContentOK(r, request) /\ OfResponse(r.payload, rep)
      /\ request.down + ServerBlock <= Width => r # None
  <2> HIDE DEF whole, block, block1, rep
  <2> QED  BY <1>6, <1>7
<1> HIDE DEF t, r, rep, last, d
<1>10. /\ DOMAIN server' = ServerFields
       /\ server'.up = t.up /\ server'.down = t.down /\ server'.response = t.response
       /\ \/ r = None /\ Unanswered(t)
          \/ r # None /\ Answered(t, m, r)
  BY <1>1, <1>8, RespondEffect
<1>11. server'.mid \in Nat /\ server'.failed \in BOOLEAN /\ \A x \in server'.reply : ReplyOK(x, request)
  BY <1>8, <1>9, <1>10 DEF Unanswered, Answered, HandlerOK, ReplyOK
<1>12. server'.up = None /\ server'.response = rep /\ (server'.down = None \/ server'.down = d)
  BY <1>8, <1>10
<1>13. ServerOK(server', request)
  <2>1. server'.response \in {Representation(v) : v \in 1..MaxVersion}
    BY <1>2, <1>12 DEF rep
  <2>2. UploadedOK(server'.up, request)
    BY <1>12 DEF UploadedOK
  <2>3. server'.down = None \/ server'.down \in [current : Nat, size : {ServerBlock}]
    BY <1>5, <1>12
  <2> QED  BY <1>10, <1>11, <2>1, <2>2, <2>3 DEF ServerOK, ServerFields
<1>14. Unanswered(t) => Unanswered(s)
  BY <1>8 DEF Unanswered
<1>15. Answered(t, m, r) => Answered(s, m, r)
  BY <1>8 DEF Answered
<1> QED  BY <1>1, <1>3, <1>9, <1>10, <1>12, <1>13, <1>14, <1>15

\* The server and what it says, after it has taken a request of the client.
Outcome(m, r) ==
  /\ Answered(server, m, r)
  /\ ReplyOK(r, request)
  /\ r.code \in {"continue", "tooLarge"} /\ r.block1 # None => m.block1 # None
  /\ r.code = "continue" => r.block1 = m.block1
  /\ r.code = "content" =>
       server'.response # NoResponse /\ OfResponse(r.payload, server'.response)
  /\ m.block1 = None => r.code = "content"

Silence(m) ==
  /\ toClient' = toClient
  /\ \/ Unanswered(server) /\ ~(request.down + ServerBlock <= Width)
     \/ server'.reply = {} /\ server'.mid = m.mid /\ server'.failed = server.failed

HandledBy(m) ==
  \/ handled' = handled /\ m.block1 # None
  \/ handled' = handled /\ m.block2 # None /\ server.response # NoResponse
  \/ \E body : /\ handled' = Append(handled, body)
               /\ \/ Slice(body, 0, request.up)
                  \/ body = <<>> /\ m.block2 # None /\ server.response = NoResponse

\* The response the server keeps changes only when a request is handled.
ResponseOf(m) ==
  /\ server'.response = NoResponse => server.response = NoResponse
  /\ m.block1 = None /\ m.block2 # None /\ server.response # NoResponse =>
       server'.response = server.response

LEMMA DownloadEffect ==
  ASSUME request.down \in Nat \ {0}, request.up \in Nat, version \in 1..MaxVersion,
         ServerOK(server, request), NEW m, m.mid \in Nat, UploadOK(m, request),
         Download(server, m)
  PROVE  /\ ServerOK(server', request)
         /\ Silence(m) \/ \E r : Outcome(m, r)
         /\ HandledBy(m) /\ ResponseOf(m)
<1> DEFINE b == m.block1
           u == Begun(server, b)
           v == [u EXCEPT !.current = u.next, !.next = @ + 1, !.buffer = @ \o m.payload]
           t == [server EXCEPT !.up = v]
           at == u.next * Small
           w == [current |-> u.next, next |-> u.next + 1, size |-> Small,
                 buffer |-> u.buffer \o m.payload]
<1>0. DOMAIN server = ServerFields
  BY DEF ServerOK, ServerFields
<1>1. b \in UpBlock /\ b.num \in Nat /\ b.more \in BOOLEAN /\ b.size \in {ClientBlock, Small} /\ b # None
  BY NoneProperties DEF UploadOK, UpBlock
<1>c. /\ b.size > ServerBlock =>
           /\ Respond(server, m, ResponseMsg("tooLarge", Block(0, FALSE, ServerBlock), None, <<>>))
           /\ UNCHANGED handled
      /\ b.size <= ServerBlock /\ request.up > MaxBody =>
           /\ Respond(server, m, ResponseMsg("tooLarge", None, None, <<>>))
           /\ UNCHANGED handled
      /\ b.size <= ServerBlock /\ request.up <= MaxBody /\ b.num # u.next =>
           /\ server' = [server EXCEPT !.up = u, !.mid = m.mid, !.reply = {}]
           /\ UNCHANGED <<toClient, handled>>
      /\ b.size <= ServerBlock /\ request.up <= MaxBody /\ b.num = u.next =>
           IF b.more
           THEN /\ Respond(t, m, ResponseMsg("continue", b, None, <<>>))
                /\ UNCHANGED handled
           ELSE HandleRequest(t, m, v.buffer)
  <2>1. b.size \in Nat /\ ServerBlock \in Nat /\ request.up \in Nat /\ MaxBody \in Nat
    BY <1>1, Sizes
  <2>2. (b.size > ServerBlock <=> ~(b.size <= ServerBlock)) /\ (request.up > MaxBody <=> ~(request.up <= MaxBody))
    BY <2>1
  <2> HIDE DEF b, u, t, v
  <2>3. CASE b.size > ServerBlock
    BY <2>2, <2>3 DEF Download, b, u, t, v
  <2>4. CASE b.size <= ServerBlock /\ request.up > MaxBody
    BY <2>2, <2>4 DEF Download, b, u, t, v
  <2>5. CASE b.size <= ServerBlock /\ request.up <= MaxBody /\ b.num # u.next
    BY <2>2, <2>5 DEF Download, b, u, t, v
  <2>6. CASE b.size <= ServerBlock /\ request.up <= MaxBody /\ b.num = u.next
    BY <2>2, <2>6 DEF Download, b, u, t, v
  <2> QED  BY <2>2, <2>3, <2>4, <2>5, <2>6
<1> HIDE DEF t, v, w
<1>r. /\ server.down = None \/ server.down \in [current : Nat, size : {ServerBlock}]
      /\ server.mid \in Nat /\ server.failed \in BOOLEAN
      /\ \A x \in server.reply : ReplyOK(x, request)
  BY DEF ServerOK
<1>2. ASSUME b.size > ServerBlock
      PROVE  /\ ServerOK(server', request)
             /\ Silence(m) \/ \E r : Outcome(m, r)
             /\ HandledBy(m) /\ ResponseOf(m)
  <2> DEFINE r == ResponseMsg("tooLarge", Block(0, FALSE, ServerBlock), None, <<>>)
  <2>1. r.code = "tooLarge" /\ r.block1 = Block(0, FALSE, ServerBlock) /\ r.block2 = None /\ r # None
    BY NoneProperties DEF ResponseMsg
  <2>2. ServerBlock < ClientBlock
    BY <1>1, <1>2, Sizes
  <2>3. TooLargeOK(r)
    BY <2>1, <2>2 DEF TooLargeOK
  <2>4. Respond(server, m, r) /\ handled' = handled
    BY <1>c, <1>2
  <2> HIDE DEF r
  <2>5. /\ DOMAIN server' = ServerFields
        /\ server'.up = server.up /\ server'.down = server.down
        /\ server'.response = server.response
        /\ Answered(server, m, r)
    BY <1>0, <2>1, <2>4, RespondEffect
  <2>6. ServerOK(server', request)
    BY <2>3, <2>5 DEF ServerOK, Answered, ServerFields, ReplyOK
  <2>7. Outcome(m, r)
    BY <1>1, <2>1, <2>3, <2>5 DEF Outcome, ReplyOK
  <2> QED  BY <1>1, <2>4, <2>5, <2>6, <2>7 DEF HandledBy, ResponseOf
<1>3. ASSUME b.size <= ServerBlock, request.up > MaxBody
      PROVE  /\ ServerOK(server', request)
             /\ Silence(m) \/ \E r : Outcome(m, r)
             /\ HandledBy(m) /\ ResponseOf(m)
  <2> DEFINE r == ResponseMsg("tooLarge", None, None, <<>>)
  <2>1. r.code = "tooLarge" /\ r.block1 = None /\ r.block2 = None /\ r # None
    BY NoneProperties DEF ResponseMsg
  <2>3. TooLargeOK(r)
    BY <2>1 DEF TooLargeOK
  <2>4. Respond(server, m, r) /\ handled' = handled
    BY <1>c, <1>3
  <2> HIDE DEF r
  <2>5. /\ DOMAIN server' = ServerFields
        /\ server'.up = server.up /\ server'.down = server.down
        /\ server'.response = server.response
        /\ Answered(server, m, r)
    BY <1>0, <2>1, <2>4, RespondEffect
  <2>6. ServerOK(server', request)
    BY <2>3, <2>5 DEF ServerOK, Answered, ServerFields, ReplyOK
  <2>7. Outcome(m, r)
    BY <1>1, <2>1, <2>3, <2>5 DEF Outcome, ReplyOK
  <2> QED  BY <1>1, <2>4, <2>5, <2>6, <2>7 DEF HandledBy, ResponseOf
<1>4. ASSUME b.size <= ServerBlock
      PROVE  /\ b.size = Small /\ UploadedOK(u, request) /\ u # None
             /\ u.next \in Nat /\ Slice(u.buffer, 0, at)
             /\ u \in [current : Nat, next : Nat, size : {Small}, buffer : Seq(Nat)]
             /\ at \in Nat /\ (u.next + 1) * Small = at + Small
  <2>1. b.size = Small
    BY <1>1, <1>4, Sizes
  <2>2. UploadedOK(u, request) /\ u # None
    <3>1. CASE server.up = None \/ b.num = 0
      <4>1. u = [current |-> 0, next |-> 0, size |-> Small, buffer |-> <<>>]
        BY <2>1, <3>1 DEF Begun, NewDownload
      <4>2. <<>> \in Seq(Nat) /\ 0 \in Nat
        OBVIOUS
      <4>3. u.next = 0 /\ u.buffer = <<>> /\ u # None
        BY <4>1, NoneProperties
      <4>4. u.next * Small = 0
        BY <4>3, Sizes
      <4>5. u \in [current : Nat, next : Nat, size : {Small}, buffer : Seq(Nat)]
        <5> HIDE DEF u
        <5> QED  BY <4>1, <4>2
      <4>6. Slice(<<>>, 0, 0)
        BY DEF Slice
      <4> HIDE DEF u
      <4> QED  BY <4>3, <4>4, <4>5, <4>6 DEF UploadedOK
    <3>2. CASE ~(server.up = None \/ b.num = 0)
      <4>1. u = server.up
        BY <3>2 DEF Begun
      <4> QED  BY <3>2, <4>1 DEF ServerOK
    <3> QED  BY <3>1, <3>2
  <2> HIDE DEF u
  <2>3. /\ u \in [current : Nat, next : Nat, size : {Small}, buffer : Seq(Nat)]
        /\ Slice(u.buffer, 0, at) /\ u.next \in Nat
    BY <2>2 DEF UploadedOK
  <2>4. at \in Nat /\ (u.next + 1) * Small = at + Small
    BY <2>3, Sizes, Products
  <2> QED  BY <2>1, <2>2, <2>3, <2>4
<1> HIDE DEF u
<1>5. ASSUME b.size <= ServerBlock, request.up <= MaxBody, b.num # u.next
      PROVE  /\ ServerOK(server', request)
             /\ Silence(m) \/ \E r : Outcome(m, r)
             /\ HandledBy(m) /\ ResponseOf(m)
  <2>1. /\ server' = [server EXCEPT !.up = u, !.mid = m.mid, !.reply = {}]
        /\ toClient' = toClient /\ handled' = handled
    BY <1>c, <1>5
  <2>2. /\ DOMAIN server' = ServerFields /\ server'.up = u /\ server'.down = server.down
        /\ server'.response = server.response /\ server'.mid = m.mid /\ server'.reply = {}
        /\ server'.failed = server.failed
    BY <1>0, <2>1 DEF ServerFields
  <2>3. ServerOK(server', request)
    BY <1>4, <1>5, <2>2 DEF ServerOK, ServerFields
  <2> QED  BY <1>1, <2>1, <2>2, <2>3 DEF Silence, HandledBy, ResponseOf
<1>6. ASSUME b.size <= ServerBlock, b.num = u.next
      PROVE  v = w
  <2>1. u = [current |-> u.current, next |-> u.next, size |-> Small, buffer |-> u.buffer]
    BY <1>4, <1>6
  <2> DEFINE nx == u.next + 1
             bf == u.buffer \o m.payload
             f == [u EXCEPT !.current = u.next]
             g == [f EXCEPT !.next = @ + 1]
  <2>2. f = [current |-> u.next, next |-> u.next, size |-> Small, buffer |-> u.buffer]
    BY <2>1
  <2> HIDE DEF f
  <2>3. f.next = u.next
    BY <2>2
  <2>4. g = [f EXCEPT !.next = nx]
    BY <2>3
  <2> HIDE DEF g, nx
  <2>5. g = [current |-> u.next, next |-> nx, size |-> Small, buffer |-> u.buffer]
    BY <2>2, <2>4
  <2>6. v = [g EXCEPT !.buffer = @ \o m.payload]
    BY DEF v, g, f
  <2>7. g.buffer = u.buffer
    BY <2>5
  <2>8. v = [g EXCEPT !.buffer = bf]
    BY <2>6, <2>7
  <2> HIDE DEF bf
  <2>9. v = [current |-> u.next, next |-> nx, size |-> Small, buffer |-> bf]
    BY <2>5, <2>8
  <2> QED  BY <2>9 DEF w, nx, bf
<1>7. ASSUME b.size <= ServerBlock, b.num = u.next
      PROVE  /\ v.current = u.next /\ v.next = u.next + 1 /\ v.size = Small
             /\ v.buffer = u.buffer \o m.payload
             /\ DOMAIN t = ServerFields /\ t.up = v /\ t.down = server.down
             /\ t.response = server.response /\ t.mid = server.mid /\ t.reply = server.reply
             /\ t.failed = server.failed
             /\ v # None /\ HandlerOK(t, request)
  <2>1. v.current = u.next /\ v.next = u.next + 1 /\ v.size = Small
        /\ v.buffer = u.buffer \o m.payload /\ v # None
    <3>1. v = w
      BY <1>6, <1>7
    <3>2. w # None
      BY NoneProperties, Zenon DEF w
    <3>3. w.current = u.next /\ w.next = u.next + 1 /\ w.size = Small
          /\ w.buffer = u.buffer \o m.payload
      BY DEF w
    <3> QED  BY <3>1, <3>2, <3>3
  <2>2. DOMAIN t = ServerFields /\ t.up = v /\ t.down = server.down
        /\ t.response = server.response /\ t.mid = server.mid /\ t.reply = server.reply
        /\ t.failed = server.failed
    BY <1>0 DEF t, ServerFields
  <2>3. HandlerOK(t, request)
    BY <1>4, <1>7, <1>r, <2>1, <2>2 DEF HandlerOK
  <2> QED  BY <2>1, <2>2, <2>3
<1>8. ASSUME b.size <= ServerBlock, request.up <= MaxBody, b.num = u.next, b.more
      PROVE  /\ ServerOK(server', request)
             /\ Silence(m) \/ \E r : Outcome(m, r)
             /\ HandledBy(m) /\ ResponseOf(m)
  <2> DEFINE r == ResponseMsg("continue", b, None, <<>>)
  <2>1. r.code = "continue" /\ r.block1 = b /\ r.block2 = None /\ r # None
    BY NoneProperties DEF ResponseMsg
  <2>2. b.size = Small
    BY <1>4, <1>8
  <2>3. /\ (b.num + 1) * Small < request.up
        /\ Slice(m.payload, b.num * Small, (b.num + 1) * Small)
    BY <1>8, <2>2 DEF UploadOK
  <2>4. ContinueOK(r, request)
    BY <1>1, <2>1, <2>2, <2>3 DEF ContinueOK
  <2>5. Respond(t, m, r) /\ handled' = handled
    BY <1>c, <1>8
  <2> HIDE DEF r
  <2>6. /\ DOMAIN server' = ServerFields
        /\ server'.up = v /\ server'.down = server.down
        /\ server'.response = server.response
        /\ Answered(t, m, r)
    BY <1>7, <1>8, <2>1, <2>5, RespondEffect
  <2>7. Answered(server, m, r)
    BY <1>7, <1>8, <2>6 DEF Answered
  <2>8. Slice(v.buffer, 0, at + Small) /\ at + Small < request.up
    <3>1. Slice(u.buffer, 0, at) /\ at \in Nat /\ (u.next + 1) * Small = at + Small /\ Small \in Nat
      BY <1>4, <1>8, Sizes
    <3>2. Slice(m.payload, at, at + Small) /\ at + Small < request.up
      BY <1>8, <2>3, <3>1
    <3>3. v.buffer = u.buffer \o m.payload
      BY <1>7, <1>8
    <3>4. Slice(u.buffer \o m.payload, 0, at + Small)
      BY <3>1, <3>2, JoinSlice
    <3> QED  BY <3>2, <3>3, <3>4
  <2>9. UploadedOK(v, request)
    <3>1. v.buffer \in Seq(Nat) /\ u.next \in Nat /\ u.next + 1 \in Nat
      BY <1>4, <1>8, <2>8 DEF Slice
    <3>2. v = [current |-> u.next, next |-> u.next + 1, size |-> Small, buffer |-> v.buffer]
      BY <1>6, <1>7, <1>8 DEF w
    <3>3. v \in [current : Nat, next : Nat, size : {Small}, buffer : Seq(Nat)]
      BY <3>1, <3>2
    <3>4. v.next * Small = at + Small
      BY <1>4, <1>7, <1>8
    <3> QED  BY <2>8, <3>3, <3>4 DEF UploadedOK
  <2>10. ServerOK(server', request)
    BY <2>4, <2>6, <2>7, <2>9 DEF ServerOK, Answered, ServerFields, ReplyOK
  <2>11. Outcome(m, r)
    BY <1>1, <2>1, <2>4, <2>7 DEF Outcome, ReplyOK
  <2> QED  BY <1>1, <2>5, <2>6, <2>10, <2>11 DEF HandledBy, ResponseOf
<1>9. ASSUME b.size <= ServerBlock, request.up <= MaxBody, b.num = u.next, ~b.more
      PROVE  /\ ServerOK(server', request)
             /\ Silence(m) \/ \E r : Outcome(m, r)
             /\ HandledBy(m) /\ ResponseOf(m)
  <2>1. HandleRequest(t, m, v.buffer)
    BY <1>c, <1>9
  <2>2. b.size = Small
    BY <1>4, <1>9
  <2>3. Slice(v.buffer, 0, request.up)
    <3>1. Slice(u.buffer, 0, at) /\ at \in Nat
      BY <1>4, <1>9
    <3>2. Slice(m.payload, at, request.up)
      BY <1>9, <2>2 DEF UploadOK
    <3>3. v.buffer = u.buffer \o m.payload
      BY <1>7, <1>9
    <3> QED  BY <3>1, <3>2, <3>3, JoinSlice
  <2>4. /\ ServerOK(server', request)
        /\ server'.response # NoResponse
        /\ handled' = Append(handled, v.buffer)
        /\ \/ Unanswered(t) /\ ~(request.down + ServerBlock <= Width)
           \/ \E r : /\ Answered(t, m, r)
                     /\ ContentOK(r, request) /\ OfResponse(r.payload, server'.response)
    BY <1>7, <1>9, <2>1, HandleRequestEffect
  <2>5. Unanswered(t) => Unanswered(server)
    BY <1>7, <1>9 DEF Unanswered
  <2>6. Unanswered(t) => toClient' = toClient
    BY DEF Unanswered
  <2>7. ASSUME NEW r, Answered(t, m, r), ContentOK(r, request), OfResponse(r.payload, server'.response)
        PROVE  Outcome(m, r)
    <3>1. Answered(server, m, r)
      BY <1>7, <1>9, <2>7 DEF Answered
    <3>2. r.code = "content"
      BY <2>7 DEF ContentOK
    <3> QED  BY <1>1, <2>4, <2>7, <3>1, <3>2 DEF Outcome, ReplyOK
  <2>8. HandledBy(m)
    BY <2>3, <2>4 DEF HandledBy
  <2>9. ResponseOf(m)
    BY <1>1, <2>4 DEF ResponseOf
  <2> QED  BY <2>4, <2>5, <2>6, <2>7, <2>8, <2>9 DEF Silence
<1>10. b.size \in Nat /\ ServerBlock \in Nat /\ request.up \in Nat /\ MaxBody \in Nat
  BY <1>1, Sizes
<1>11. \/ b.size > ServerBlock
       \/ b.size <= ServerBlock /\ request.up > MaxBody
       \/ b.size <= ServerBlock /\ request.up <= MaxBody /\ b.num # u.next
       \/ b.size <= ServerBlock /\ request.up <= MaxBody /\ b.num = u.next
  BY <1>10
<1> HIDE DEF b
<1> QED  BY <1>1, <1>2, <1>3, <1>5, <1>8, <1>9, <1>11

LEMMA HandledOutcome ==
  ASSUME request.down \in Nat \ {0}, version \in 1..MaxVersion, NEW s, HandlerOK(s, request),
         s.mid = server.mid, s.reply = server.reply, s.failed = server.failed,
         NEW m, m.mid \in Nat, NEW body, HandleRequest(s, m, body)
  PROVE  /\ ServerOK(server', request)
         /\ Silence(m) \/ \E r : Outcome(m, r)
         /\ server'.response # NoResponse
         /\ handled' = Append(handled, body)
<1>1. /\ ServerOK(server', request)
      /\ server'.response # NoResponse
      /\ handled' = Append(handled, body)
      /\ \/ Unanswered(s) /\ ~(request.down + ServerBlock <= Width)
         \/ \E r : /\ Answered(s, m, r)
                   /\ ContentOK(r, request) /\ OfResponse(r.payload, server'.response)
  BY HandleRequestEffect
<1>2. Unanswered(s) => Unanswered(server) /\ toClient' = toClient
  BY DEF Unanswered
<1>3. ASSUME NEW r, Answered(s, m, r), ContentOK(r, request), OfResponse(r.payload, server'.response)
      PROVE  Outcome(m, r)
  <2>1. Answered(server, m, r)
    BY <1>3 DEF Answered
  <2>2. r.code = "content"
    BY <1>3 DEF ContentOK
  <2> QED  BY <1>1, <1>3, <2>1, <2>2 DEF Outcome, ReplyOK
<1> QED  BY <1>1, <1>2, <1>3 DEF Silence

LEMMA ServeRequestEffect ==
  ASSUME request.down \in Nat \ {0}, request.up \in Nat, version \in 1..MaxVersion,
         ServerOK(server, request), NEW m, m.mid \in Nat, RequestOK(m, request),
         ServeRequest(m)
  PROVE  /\ ServerOK(server', request)
         /\ Silence(m) \/ \E r : Outcome(m, r)
         /\ HandledBy(m) /\ ResponseOf(m)
<1>0. DOMAIN server = ServerFields
  BY DEF ServerOK, ServerFields
<1>1. CASE UploadOK(m, request)
  <2>1. m.block1 # None
    BY <1>1, NoneProperties DEF UploadOK
  <2>2. Download(server, m)
    BY <2>1 DEF ServeRequest
  <2> QED  BY <1>1, <2>2, DownloadEffect
<1>r. /\ server.down = None \/ server.down \in [current : Nat, size : {ServerBlock}]
      /\ server.mid \in Nat /\ server.failed \in BOOLEAN
      /\ \A x \in server.reply : ReplyOK(x, request)
      /\ server.up # None => server.up.current \in Nat /\ server.up.size = Small
  BY DEF ServerOK, UploadedOK
<1>2. CASE WholeOK(m, request)
  <2>1. m.block1 = None /\ m.block2 = None /\ Slice(m.payload, 0, request.up)
    BY <1>2 DEF WholeOK
  <2>2. HandleRequest(server, m, m.payload)
    BY <2>1 DEF ServeRequest
  <2>3. HandlerOK(server, request)
    BY <1>0, <1>r DEF HandlerOK
  <2>4. /\ ServerOK(server', request)
        /\ Silence(m) \/ \E r : Outcome(m, r)
        /\ server'.response # NoResponse
        /\ handled' = Append(handled, m.payload)
    BY <2>2, <2>3, HandledOutcome
  <2> QED  BY <2>1, <2>4 DEF HandledBy, ResponseOf
<1>3. CASE AskOK(m)
  <2> DEFINE d == [current |-> m.block2.num, size |-> m.block2.size]
             s == [server EXCEPT !.down = d]
  <2>1. /\ m.block1 = None /\ m.block2 # None /\ m.payload = <<>>
        /\ m.block2.num \in Nat /\ m.block2.size = ServerBlock
    BY <1>3, NoneProperties DEF AskOK, DownBlock
  <2>2. d \in [current : Nat, size : {ServerBlock}]
    BY <2>1
  <2>3. /\ server.response # NoResponse =>
             /\ Respond(s, m, ResponseBlock(None, server.response, m.block2.num, m.block2.size))
             /\ handled' = handled
        /\ server.response = NoResponse => HandleRequest(s, m, m.payload)
    BY <2>1 DEF ServeRequest, Kept
  <2> HIDE DEF d
  <2>4. /\ DOMAIN s = ServerFields /\ s.up = server.up /\ s.down = d
        /\ s.response = server.response /\ s.mid = server.mid /\ s.reply = server.reply
        /\ s.failed = server.failed
    BY <1>0 DEF ServerFields
  <2> HIDE DEF s
  <2>5. CASE server.response # NoResponse
    <3> DEFINE x == ResponseBlock(None, server.response, m.block2.num, ServerBlock)
    <3>1. Respond(s, m, x) /\ handled' = handled
      BY <2>1, <2>3, <2>5
    <3>2. PICK v \in 1..MaxVersion : server.response = Representation(v)
      BY <2>5 DEF ServerOK
    <3>3. v \in Nat
      BY <3>2, Sizes
    <3>4. /\ x # None => ContentOK(x, request) /\ OfResponse(x.payload, server.response)
          /\ x # None => x.code = "content"
          /\ request.down + ServerBlock <= Width => x # None
      BY <2>1, <3>2, <3>3, BlockTypes, DownloadPart
    <3> HIDE DEF x
    <3>5. /\ DOMAIN server' = ServerFields
          /\ server'.up = server.up /\ server'.down = d /\ server'.response = server.response
          /\ \/ x = None /\ Unanswered(s)
             \/ x # None /\ Answered(s, m, x)
      BY <2>4, <3>1, RespondEffect
    <3>6. ServerOK(server', request)
      <4>1. server'.mid \in Nat /\ server'.failed \in BOOLEAN
            /\ \A r \in server'.reply : ReplyOK(r, request)
        BY <1>r, <2>4, <3>4, <3>5 DEF Unanswered, Answered, ReplyOK
      <4> QED  BY <2>2, <3>5, <4>1 DEF ServerOK, ServerFields
    <3>7. Silence(m) \/ Outcome(m, x)
      <4>1. CASE x = None
        BY <2>4, <3>4, <3>5, <4>1 DEF Silence, Unanswered
      <4>2. CASE x # None
        <5>1. Answered(server, m, x)
          BY <2>4, <3>5, <4>2 DEF Answered
        <5> QED  BY <2>5, <3>4, <3>5, <4>2, <5>1 DEF Outcome, ReplyOK
      <4> QED  BY <4>1, <4>2
    <3> QED  BY <2>1, <2>5, <3>1, <3>5, <3>6, <3>7 DEF HandledBy, ResponseOf
  <2>6. CASE server.response = NoResponse
    <3>1. HandleRequest(s, m, m.payload)
      BY <2>3, <2>6
    <3>2. HandlerOK(s, request)
      BY <1>r, <2>2, <2>4 DEF HandlerOK
    <3>3. /\ ServerOK(server', request)
          /\ Silence(m) \/ \E r : Outcome(m, r)
          /\ server'.response # NoResponse
          /\ handled' = Append(handled, m.payload)
      BY <2>4, <3>1, <3>2, HandledOutcome
    <3> QED  BY <2>1, <2>6, <3>3 DEF HandledBy, ResponseOf
  <2> QED  BY <2>5, <2>6
<1> QED  BY <1>1, <1>2, <1>3 DEF RequestOK

(***************************************************************************)
(* DataInv is inductive.                                                   *)
(***************************************************************************)
LEMMA RequestType ==
  ASSUME Scalars
  PROVE  /\ request.up \in Nat /\ request.down \in Nat \ {0} /\ request.con \in BOOLEAN
         /\ nextMid \in Nat \ {0} /\ version \in 1..MaxVersion
         /\ faults.repeat \in Nat /\ faults.loss \in Nat /\ faults.expiry \in Nat
<1>1. request \in Request
  BY BlockwiseAssumption DEF Scalars
<1> QED  BY <1>1 DEF Scalars, Request

LEMMA SameRequest ==
  /\ request' = request /\ ServerOK(server', request) => ServerOK(server, request)'
  /\ request' = request /\ server' = server /\ ServerOK(server, request) => ServerOK(server, request)'
  BY DEF ServerOK, Representation

LEMMA ClientGrows ==
  ASSUME DataInv, request' = request, server' = server, version' = version, handled' = handled,
         faults' \in [repeat : Nat, loss : Nat, expiry : Nat], faults'.expiry = faults.expiry,
         toClient' \subseteq toClient, ClientOK(client', request),
         client.up # None => client'.up # None /\ (client.up.size = Small => client'.up.size = Small),
         \/ toServer' = toServer /\ nextMid' = nextMid /\ nextMid # 1
         \/ /\ nextMid' = nextMid + 1
            /\ \E n : /\ toServer' = toServer \cup {n}
                      /\ n.mid = nextMid /\ RequestOK(n, request) /\ Sized(n, client')
                      /\ n.block2 # None => ~(server.response = NoResponse /\ faults.expiry = 0)
  PROVE  DataInv'
<1>1. Scalars /\ nextMid \in Nat \ {0} /\ server.mid \in Nat
  BY RequestType DEF DataInv, ServerOK
<1>2. nextMid' \in Nat \ {0} /\ nextMid' # 1 /\ nextMid <= nextMid'
  BY <1>1
<1>3. Scalars'
  BY <1>1, <1>2 DEF Scalars
<1>4. ServerOK(server, request)' /\ ClientOK(client, request)'
  BY SameRequest DEF DataInv
<1>5. \A m : Sized(m, client) => Sized(m, client')
  BY DEF Sized
<1>6. \A r : Answers(r, client) => Answers(r, client')
  BY DEF Answers
<1>7. ASSUME NEW m \in toServer'
      PROVE  /\ m.mid \in 1..(nextMid' - 1) /\ RequestOK(m, request) /\ Sized(m, client')
             /\ server.response = NoResponse /\ faults.expiry = 0 => m.block2 = None
  <2>1. CASE m \in toServer
    <3>1. m.mid \in 1..(nextMid - 1) /\ RequestOK(m, request) /\ Sized(m, client)
      BY <2>1 DEF DataInv, Messages
    <3>2. server.response = NoResponse /\ faults.expiry = 0 => m.block2 = None
      BY <2>1 DEF DataInv, Asked
    <3> QED  BY <1>1, <1>2, <1>5, <3>1, <3>2
  <2>2. CASE m \notin toServer
    <3>1. /\ nextMid' = nextMid + 1 /\ m.mid = nextMid /\ RequestOK(m, request) /\ Sized(m, client')
          /\ m.block2 # None => ~(server.response = NoResponse /\ faults.expiry = 0)
      BY <1>7, <2>2
    <3> QED  BY <1>1, <3>1
  <2> QED  BY <2>1, <2>2
<1>8. \A r \in toClient' \cup server.reply : ReplyOK(r, request) /\ Answers(r, client')
  BY <1>6 DEF DataInv, Messages
<1>9. server.mid < nextMid
  BY DEF DataInv, Messages
<1>10. Messages'
  BY <1>1, <1>2, <1>7, <1>8, <1>9 DEF Messages
<1>11. Asked'
  BY <1>7 DEF DataInv, Asked
<1>12. HandledOK'
  BY DEF DataInv, HandledOK
<1> QED  BY <1>3, <1>4, <1>10, <1>11, <1>12 DEF DataInv

LEMMA ServerServes ==
  ASSUME DataInv, request' = request, client' = client, version' = version, nextMid' = nextMid,
         faults' \in [repeat : Nat, loss : Nat, expiry : Nat], faults'.expiry = faults.expiry,
         toServer' \subseteq toServer, NEW m \in toServer, ServeRequest(m)
  PROVE  DataInv'
<1>1. /\ Scalars /\ request.up \in Nat /\ request.down \in Nat \ {0} /\ version \in 1..MaxVersion
      /\ nextMid \in Nat \ {0} /\ faults.expiry \in Nat
  BY RequestType DEF DataInv
<1>2. /\ m.mid \in 1..(nextMid - 1) /\ m.mid \in Nat /\ m.mid < nextMid
      /\ RequestOK(m, request) /\ Sized(m, client)
  BY <1>1 DEF DataInv, Messages
<1>3. /\ ServerOK(server', request)
      /\ Silence(m) \/ \E r : Outcome(m, r)
      /\ HandledBy(m) /\ ResponseOf(m)
  BY <1>1, <1>2, ServeRequestEffect DEF DataInv
<1>4. Scalars'
  BY <1>1 DEF Scalars
<1>5. ServerOK(server, request)' /\ ClientOK(client, request)'
  BY <1>3, SameRequest DEF DataInv
<1>6. ASSUME NEW r, Outcome(m, r)
      PROVE  ReplyOK(r, request) /\ Answers(r, client)
  <2>1. ReplyOK(r, request)
    BY <1>6 DEF Outcome
  <2>2. r.code = "continue" => r.block1 = m.block1 /\ r.block1 # None /\ r.block1.size = Small
    BY <1>6, <2>1, NoneProperties DEF Outcome, ReplyOK, ContinueOK, TooLargeOK, ContentOK
  <2>3. r.code = "tooLarge" /\ r.block1 # None => m.block1 # None
    BY <1>6 DEF Outcome
  <2> QED  BY <1>2, <2>1, <2>2, <2>3 DEF Sized, Answers
<1>7. ASSUME NEW r \in toClient' \cup server'.reply
      PROVE  r \in toClient \cup server.reply \/ Outcome(m, r)
  BY <1>3 DEF Silence, Unanswered, Outcome, Answered
<1>8. \A r \in toClient' \cup server'.reply : ReplyOK(r, request) /\ Answers(r, client)
  BY <1>6, <1>7 DEF DataInv, Messages
<1>9. server'.mid < nextMid
  <2>1. server'.mid = server.mid \/ server'.mid = m.mid
    BY <1>3 DEF Silence, Unanswered, Outcome, Answered
  <2> QED  BY <1>2, <2>1 DEF DataInv, Messages
<1>10. Messages'
  BY <1>2, <1>8, <1>9 DEF DataInv, Messages
<1>11. Asked'
  <2> SUFFICES ASSUME server'.response = NoResponse, faults'.expiry = 0
               PROVE  /\ \A x \in toServer' : x.block2 = None
                      /\ \A r \in toClient' \cup server'.reply : r.code # "content"
    BY DEF Asked
  <2>1. server.response = NoResponse /\ faults.expiry = 0
    BY <1>3 DEF ResponseOf
  <2>2. \A r : Outcome(m, r) => r.code # "content"
    BY DEF Outcome
  <2> QED  BY <1>7, <2>1, <2>2 DEF DataInv, Asked
<1>12. HandledOK'
  <2>1. CASE handled' = handled
    BY <2>1 DEF DataInv, HandledOK
  <2>2. CASE handled' # handled
    <3>1. PICK body : /\ handled' = Append(handled, body)
                      /\ \/ Slice(body, 0, request.up)
                         \/ body = <<>> /\ m.block2 # None /\ server.response = NoResponse
      BY <1>3, <2>2 DEF HandledBy
    <3>2. body = <<>> /\ m.block2 # None /\ server.response = NoResponse => faults.expiry > 0
      BY <1>1 DEF DataInv, Asked
    <3>3. body \in Seq(Nat)
      <4>1. <<>> \in Seq(Nat)
        OBVIOUS
      <4> QED  BY <3>1, <4>1 DEF Slice
    <3>4. handled \in Seq(Seq(Nat))
      BY DEF DataInv, HandledOK
    <3>5. handled' \in Seq(Seq(Nat))
      BY <3>1, <3>3, <3>4
    <3>6. /\ Len(handled) \in Nat /\ DOMAIN handled = 1..Len(handled)
          /\ DOMAIN handled' = 1..(Len(handled) + 1)
          /\ \A k \in 1..Len(handled) : handled'[k] = handled[k]
          /\ handled'[Len(handled) + 1] = body
      BY <3>1, <3>3, <3>4
    <3>7. ASSUME NEW k \in DOMAIN handled'
          PROVE  \/ Slice(handled'[k], 0, request.up)
                 \/ faults.expiry > 0 /\ handled'[k] = <<>>
      <4>1. CASE k \in 1..Len(handled)
        BY <3>6, <4>1 DEF DataInv, HandledOK
      <4>2. CASE k = Len(handled) + 1
        BY <3>1, <3>2, <3>6, <4>2
      <4> QED  BY <3>6, <3>7, <4>1, <4>2
    <3> QED  BY <3>5, <3>7 DEF HandledOK
  <2> QED  BY <2>1, <2>2
<1> QED  BY <1>4, <1>5, <1>10, <1>11, <1>12 DEF DataInv

(***************************************************************************)
(* The steps of the client.                                                *)
(***************************************************************************)
SentNone == toServer' = toServer /\ nextMid' = nextMid
Sent(n)  == toServer' = toServer \cup {n} /\ nextMid' = nextMid + 1 /\ n.mid = nextMid

Grown ==
  client.up # None => client'.up # None /\ (client.up.size = Small => client'.up.size = Small)

\* The next block of the body begins within it, and its end fits the width.
Within == LET from == (client.up.current + 1) * Small IN
  from <= request.up /\ from + Small < Width

\* What a client does with a reply: a block of the body or of the response is
\* asked for or sent, or the response is complete.
Says(m) ==
  \/ SentNone
  \/ \E n : /\ Sent(n) /\ RequestOK(n, request) /\ Sized(n, client')
            /\ n.block2 # None => m.code = "content"
            /\ n.block1 # None =>
                 n.block1.num = client'.up.current /\ n.block1.size = client'.up.size
            /\ m.code = "content" => n.block1 = None /\ n.block2 # None

From(m, body) ==
  \A rep : OfResponse(Had, rep) /\ OfResponse(m.payload, rep) => OfResponse(body, rep)

Collects(m) ==
  /\ m.code # "content" => client'.down = client.down
  /\ m.code = "content" /\ client'.down # None => From(m, client'.down.buffer)

Notifies(m) ==
  \A r \in notified' : r.code = "content" =>
    \/ r \in notified
    \/ m.code = "content" /\ SliceOf(r.body, 0, request.down) /\ From(m, r.body)

Fails(m) == client'.failed => client.failed \/ (m.code = "continue" /\ ~Within)

Reaction(m) ==
  ClientOK(client', request) /\ Grown /\ Says(m) /\ Collects(m) /\ Notifies(m) /\ Fails(m)

LEMMA UploadReaction ==
  ASSUME Scalars, ClientOK(client, request), NEW m, m.code # "content",
         NEW num \in Nat, SendRequestBlock(client, num, Small), notified' = notified,
         num = 0 \/ (m.code = "continue" /\ num = client.up.current + 1)
  PROVE  Reaction(m)
<1>1. request.up \in Nat /\ nextMid \in Nat \ {0} /\ Small \in {ClientBlock, Small}
  BY RequestType
<1>n. Collects(m) /\ Notifies(m)
  <2>1. client'.down = client.down
    BY <1>1, SendRequestBlockEffect
  <2> QED  BY <2>1 DEF Collects, Notifies
<1>2. /\ ClientOK(client', request)
      /\ client'.down = client.down
      /\ \/ /\ client'.up = client.up
            /\ toServer' = toServer /\ nextMid' = nextMid
            /\ ~(num * Small <= request.up /\ num * Small + Small < Width)
         \/ /\ client'.failed = client.failed
            /\ client'.up # None /\ client'.up.current = num /\ client'.up.size = Small
            /\ nextMid' = nextMid + 1
            /\ \E n : /\ toServer' = toServer \cup {n}
                      /\ n.mid = nextMid /\ UploadOK(n, request)
                      /\ n.block1 # None /\ n.block1.num = num /\ n.block1.size = Small
  BY <1>1, SendRequestBlockEffect
<1>3. CASE /\ client'.up = client.up
           /\ toServer' = toServer /\ nextMid' = nextMid
           /\ ~(num * Small <= request.up /\ num * Small + Small < Width)
  <2>1. num # 0
    <3>1. Small \in Nat /\ Width \in Nat /\ Small < Width
      BY Sizes
    <3>2. num = 0 => num * Small = 0
      BY <3>1
    <3>3. num * Small \in Nat
      BY <3>1
    <3> DEFINE x == num * Small
    <3> HIDE DEF x
    <3>4. ~(x <= request.up /\ x + Small < Width)
      BY <1>3 DEF x
    <3>5. num = 0 => x = 0
      BY <3>2 DEF x
    <3> QED  BY <1>1, <3>1, <3>4, <3>5
  <2>2. m.code = "continue" /\ ~Within
    BY <1>3, <2>1 DEF Within
  <2>3. Grown /\ Says(m) /\ Fails(m)
    BY <1>3, <2>2 DEF Grown, Says, SentNone, Fails
  <2> QED  BY <1>2, <1>n, <2>3 DEF Reaction
<1>4. CASE /\ client'.failed = client.failed
           /\ client'.up # None /\ client'.up.current = num /\ client'.up.size = Small
           /\ nextMid' = nextMid + 1
           /\ \E n : /\ toServer' = toServer \cup {n}
                     /\ n.mid = nextMid /\ UploadOK(n, request)
                     /\ n.block1 # None /\ n.block1.num = num /\ n.block1.size = Small
  <2>1. PICK n : /\ toServer' = toServer \cup {n}
                 /\ n.mid = nextMid /\ UploadOK(n, request)
                 /\ n.block1 # None /\ n.block1.num = num /\ n.block1.size = Small
    BY <1>4
  <2>2. n.block2 = None /\ RequestOK(n, request)
    BY <2>1 DEF UploadOK, RequestOK
  <2>3. Sized(n, client') /\ Grown /\ Fails(m)
    BY <1>4, <2>1 DEF Sized, Grown, Fails
  <2>4. Sent(n)
    BY <1>4, <2>1 DEF Sent
  <2>5. Says(m)
    BY <1>4, <2>1, <2>2, <2>3, <2>4 DEF Says
  <2> QED  BY <1>2, <1>n, <2>3, <2>5 DEF Reaction
<1> QED  BY <1>2, <1>3, <1>4

LEMMA ClientReceivesEffect ==
  ASSUME DataInv, NEW m \in toClient, NEW again \in BOOLEAN, ClientReceives(m, again)
  PROVE  Reaction(m)
<1>0. /\ Scalars /\ ClientOK(client, request)
      /\ request.up \in Nat /\ request.down \in Nat \ {0} /\ nextMid \in Nat \ {0}
  BY RequestType DEF DataInv
<1>1. ReplyOK(m, request) /\ Answers(m, client)
  BY DEF DataInv, Messages
<1>c. /\ m.code = "continue" => ContinueUpload(m) /\ notified' = notified
      /\ m.code = "tooLarge" /\ m.block1 # None => RestartUpload(m) /\ notified' = notified
      /\ m.code = "content" /\ m.block2 # None => ContinueDownload(m)
      /\ (m.code = "tooLarge" /\ m.block1 = None) \/ (m.code = "content" /\ m.block2 = None) =>
           /\ notified' = notified \cup {[code |-> m.code, body |-> m.payload]}
           /\ client' = client /\ toServer' = toServer /\ nextMid' = nextMid
  <2>1. CASE m.code = "continue"  BY <2>1 DEF ClientReceives
  <2>2. CASE m.code = "tooLarge"  BY <2>2 DEF ClientReceives
  <2>3. CASE m.code = "content"  BY <2>3 DEF ClientReceives
  <2> QED  BY <1>1, <2>1, <2>2, <2>3 DEF ReplyOK, ContinueOK, TooLargeOK, ContentOK
<1>i. client' = client /\ toServer' = toServer /\ nextMid' = nextMid =>
        ClientOK(client', request) /\ Grown /\ Says(m) /\ Fails(m)
  BY <1>0 DEF Grown, Says, SentNone, Fails
<1>2. CASE ContinueOK(m, request)
  <2>1. m.code = "continue" /\ m.block1.size = Small
    BY <1>2 DEF ContinueOK
  <2>2. client.up # None /\ client.up.size = Small /\ client.up.current \in Nat
    BY <1>0, <1>1, <2>1 DEF Answers, ClientOK
  <2>3. Least(m.block1.size, client.up.size) = Small /\ client.up.size \div Small = 1
    <3>1. Small \in Nat \ {0} /\ Small \div Small = 1
      BY Sizes
    <3> QED  BY <2>1, <2>2, <3>1 DEF Least
  <2>4. SendRequestBlock(client, client.up.current + 1, Small) /\ notified' = notified
    BY <1>c, <2>1, <2>3 DEF ContinueUpload
  <2>5. client.up.current + 1 \in Nat
    BY <2>2
  <2> QED  BY <1>0, <2>1, <2>4, <2>5, UploadReaction
<1>3. CASE TooLargeOK(m) /\ m.block1 # None
  <2>1. m.code = "tooLarge" /\ m.block1.size = ServerBlock /\ ServerBlock < ClientBlock
    BY <1>3 DEF TooLargeOK, Block
  <2>2. RestartUpload(m) /\ notified' = notified
    BY <1>3, <1>c, <2>1
  <2>3. ServerBlock = Small
    BY <2>1, Sizes
  <2>4. CASE is_new_size(m)
    <3>1. SendRequestBlock(client, 0, Small)
      BY <2>1, <2>2, <2>3, <2>4 DEF RestartUpload
    <3> QED  BY <1>0, <2>1, <2>2, <3>1, UploadReaction
  <2>5. CASE ~is_new_size(m)
    <3>1. client' = client /\ toServer' = toServer /\ nextMid' = nextMid
      BY <2>2, <2>5 DEF RestartUpload
    <3>2. Notifies(m) /\ Collects(m)
      BY <2>1, <2>2, <3>1 DEF Notifies, Collects
    <3> QED  BY <1>i, <3>1, <3>2 DEF Reaction
  <2> QED  BY <2>4, <2>5
<1>4. CASE TooLargeOK(m) /\ m.block1 = None
  <2>1. m.code = "tooLarge"
    BY <1>4 DEF TooLargeOK
  <2>2. /\ notified' = notified \cup {[code |-> m.code, body |-> m.payload]}
        /\ client' = client /\ toServer' = toServer /\ nextMid' = nextMid
    BY <1>4, <1>c, <2>1
  <2>3. \A r \in notified' : r.code = "content" => r \in notified
    BY <2>1, <2>2
  <2>4. Notifies(m) /\ Collects(m)
    BY <2>1, <2>2, <2>3 DEF Notifies, Collects
  <2> QED  BY <1>i, <2>2, <2>4 DEF Reaction
<1>5. CASE ContentOK(m, request) /\ m.block2 = None
  <2>1. m.code = "content" /\ SliceOf(m.payload, 0, request.down)
    <3>1. ~PieceOK(m, request)
      BY <1>5, NoneProperties DEF PieceOK
    <3> QED  BY <1>5, <3>1 DEF ContentOK
  <2>2. /\ notified' = notified \cup {[code |-> m.code, body |-> m.payload]}
        /\ client' = client /\ toServer' = toServer /\ nextMid' = nextMid
    BY <1>5, <1>c, <2>1
  <2>3. \A r \in notified' : r \in notified \/ r.body = m.payload
    BY <2>2
  <2>4. client.down # None => client'.down.buffer = Had
    BY <2>2 DEF Had
  <2>5. Notifies(m) /\ Collects(m)
    BY <2>1, <2>2, <2>3, <2>4 DEF Notifies, Collects, From
  <2> QED  BY <1>i, <2>2, <2>5 DEF Reaction
<1>6. CASE ContentOK(m, request) /\ m.block2 # None
  <2>1. m.code = "content" /\ PieceOK(m, request)
    BY <1>6 DEF ContentOK
  <2>2. ContinueDownload(m)
    BY <1>6, <1>c, <2>1
  <2>3. /\ ClientOK(client', request)
        /\ client'.up = client.up /\ client'.failed = client.failed
        /\ \/ /\ toServer' = toServer /\ nextMid' = nextMid /\ notified' = notified
              /\ client'.down # None /\ client'.down.buffer = Had
           \/ /\ client'.down # None
              /\ nextMid' = nextMid + 1 /\ notified' = notified
              /\ \E n : toServer' = toServer \cup {n} /\ n.mid = nextMid /\ AskOK(n)
              /\ From(m, client'.down.buffer)
           \/ /\ client'.down = None
              /\ toServer' = toServer /\ nextMid' = nextMid
              /\ \E body : /\ notified' = notified \cup {[code |-> m.code, body |-> body]}
                           /\ SliceOf(body, 0, request.down)
                           /\ From(m, body)
    BY <1>0, <2>1, <2>2, ContinueDownloadEffect DEF From
  <2>4. Grown /\ Fails(m)
    BY <2>3 DEF Grown, Fails
  <2>5. CASE /\ toServer' = toServer /\ nextMid' = nextMid /\ notified' = notified
             /\ client'.down # None /\ client'.down.buffer = Had
    <3>1. Says(m) /\ Notifies(m)
      BY <2>5 DEF Says, SentNone, Notifies
    <3>2. Collects(m)
      BY <2>1, <2>5 DEF Collects, From
    <3> QED  BY <2>3, <2>4, <3>1, <3>2 DEF Reaction
  <2>6. CASE /\ client'.down # None
             /\ nextMid' = nextMid + 1 /\ notified' = notified
             /\ \E n : toServer' = toServer \cup {n} /\ n.mid = nextMid /\ AskOK(n)
             /\ From(m, client'.down.buffer)
    <3>1. PICK n : toServer' = toServer \cup {n} /\ n.mid = nextMid /\ AskOK(n)
      BY <2>6
    <3>2. RequestOK(n, request) /\ n.block1 = None /\ n.block2 # None
      BY <3>1, NoneProperties DEF RequestOK, AskOK
    <3>3. Sized(n, client')
      BY <3>2 DEF Sized
    <3>4. Sent(n)
      BY <2>6, <3>1 DEF Sent
    <3>5. Says(m)
      BY <2>1, <3>2, <3>3, <3>4 DEF Says
    <3>6. Collects(m) /\ Notifies(m)
      BY <2>1, <2>6 DEF Collects, Notifies
    <3> QED  BY <2>3, <2>4, <3>5, <3>6 DEF Reaction
  <2>7. CASE /\ client'.down = None
             /\ toServer' = toServer /\ nextMid' = nextMid
             /\ \E body : /\ notified' = notified \cup {[code |-> m.code, body |-> body]}
                          /\ SliceOf(body, 0, request.down)
                          /\ From(m, body)
    <3>1. PICK body : /\ notified' = notified \cup {[code |-> m.code, body |-> body]}
                      /\ SliceOf(body, 0, request.down)
                      /\ From(m, body)
      BY <2>7
    <3>2. \A r \in notified' : r \in notified \/ r.body = body
      BY <3>1
    <3>3. Notifies(m)
      BY <2>1, <3>1, <3>2 DEF Notifies
    <3>4. Says(m) /\ Collects(m)
      BY <2>1, <2>7 DEF Says, SentNone, Collects
    <3> QED  BY <2>3, <2>4, <3>3, <3>4 DEF Reaction
  <2> QED  BY <2>3, <2>5, <2>6, <2>7
<1> QED  BY <1>1, <1>2, <1>3, <1>4, <1>5, <1>6 DEF ReplyOK

(***************************************************************************)
(* The steps.                                                              *)
(***************************************************************************)
LEMMA TransferInit ==
  ASSUME Init
  PROVE  TransferInv
<1>1. request \in Request /\ request.up \in Nat /\ request.down \in Nat \ {0}
  BY BlockwiseAssumption DEF Init, Request
<1>2. Scalars
  BY Sizes DEF Init, Scalars
<1>3. /\ DOMAIN client = {"up", "down", "failed"} /\ client.up = None /\ client.down = None
      /\ client.failed = FALSE
  BY DEF Init, NewClient
<1>4. /\ DOMAIN server = ServerFields /\ server.up = None /\ server.down = None
      /\ server.response = NoResponse /\ server.mid = 0 /\ server.reply = {}
      /\ server.failed = FALSE
  BY DEF Init, NewServer, ServerFields
<1>5. ClientOK(client, request)
  BY <1>3 DEF ClientOK
<1>6. ServerOK(server, request)
  <2>1. server.response \in {Representation(v) : v \in 1..MaxVersion} \cup {NoResponse}
    BY <1>4
  <2>2. UploadedOK(server.up, request) /\ server.mid \in Nat
    BY <1>4 DEF UploadedOK
  <2>4. server.failed \in BOOLEAN
    BY <1>4
  <2>3. \A r \in server.reply : ReplyOK(r, request)
    BY <1>4
  <2> QED  BY <1>4, <2>1, <2>2, <2>3, <2>4 DEF ServerOK, ServerFields
<1>7. toServer = {} /\ toClient = {} /\ nextMid = 1 /\ client = NewClient /\ server = NewServer
      /\ handled = <<>> /\ notified = {}
  BY DEF Init
<1>8. Messages /\ Asked
  BY <1>4, <1>7 DEF Messages, Asked
<1>9. HandledOK /\ NotifiedOK
  <2>1. <<>> \in Seq(Seq(Nat)) /\ DOMAIN <<>> = {}
    OBVIOUS
  <2> QED  BY <1>7, <2>1 DEF HandledOK, NotifiedOK
<1>10. QuietInv
  BY <1>3, <1>4, <1>7 DEF QuietInv, Alone, InStep, SameVersion
<1> QED  BY <1>2, <1>5, <1>6, <1>8, <1>9, <1>10 DEF TransferInv, DataInv

LEMMA SameFits == request' = request => (Fits' <=> Fits)
  BY DEF Fits

LEMMA NotifiedStays ==
  ASSUME NotifiedOK, request' = request, notified' = notified,
         faults'.repeat = 0 => faults.repeat = 0, faults'.expiry = 0 => faults.expiry = 0
  PROVE  NotifiedOK'
  BY DEF NotifiedOK

\* A message is lost, or the resource changes.
LEMMA OthersKeep ==
  ASSUME TransferInv, request' = request, client' = client, server' = server,
         nextMid' = nextMid, handled' = handled, notified' = notified,
         version' \in 1..MaxVersion,
         faults' \in [repeat : Nat, loss : Nat, expiry : Nat],
         faults'.repeat = faults.repeat, faults'.expiry = faults.expiry,
         toServer' \subseteq toServer, toClient' \subseteq toClient
  PROVE  TransferInv'
<1>1. Scalars'
  BY DEF TransferInv, DataInv, Scalars
<1>2. ServerOK(server, request)' /\ ClientOK(client, request)'
  BY SameRequest DEF TransferInv, DataInv
<1>3. Messages'
  BY DEF TransferInv, DataInv, Messages
<1>4. Asked'
  BY DEF TransferInv, DataInv, Asked
<1>5. HandledOK'
  BY DEF TransferInv, DataInv, HandledOK
<1>6. NotifiedOK'
  BY NotifiedStays DEF TransferInv
<1>7. QuietInv'
  <2>1. Fits => ~server.failed
    BY DEF TransferInv, QuietInv
  <2>2. ASSUME faults.repeat = 0
        PROVE  Alone' /\ InStep' /\ (Fits => ~client.failed) /\ (faults.expiry = 0 => SameVersion')
    <3>1. Alone /\ InStep /\ (Fits => ~client.failed) /\ (faults.expiry = 0 => SameVersion)
      BY <2>2 DEF TransferInv, QuietInv
    <3>2. Alone'
      BY <3>1 DEF Alone
    <3>3. InStep'
      BY <3>1 DEF InStep
    <3>4. SameVersion => SameVersion'
      BY DEF SameVersion
    <3> QED  BY <3>1, <3>2, <3>3, <3>4
  <2> QED  BY <2>1, <2>2, SameFits DEF QuietInv
<1> QED  BY <1>1, <1>2, <1>3, <1>4, <1>5, <1>6, <1>7 DEF TransferInv, DataInv

LEMMA ExpireKeeps ==
  ASSUME TransferInv, Expire
  PROVE  TransferInv'
<1>0. /\ request' = request /\ client' = client /\ version' = version /\ nextMid' = nextMid
      /\ toServer' = toServer /\ toClient' = toClient /\ handled' = handled
      /\ notified' = notified /\ server' = NewServer
      /\ faults' = [faults EXCEPT !.expiry = @ + 1]
  BY DEF Expire, network, history
<1>1. /\ Scalars /\ faults \in [repeat : Nat, loss : Nat, expiry : Nat]
      /\ faults.expiry \in Nat /\ nextMid \in Nat \ {0} /\ server # NewServer
  BY RequestType DEF TransferInv, DataInv, Scalars, Expire
<1>2. /\ faults' \in [repeat : Nat, loss : Nat, expiry : Nat]
      /\ faults'.repeat = faults.repeat /\ faults'.expiry = faults.expiry + 1
      /\ faults'.expiry # 0 /\ faults'.expiry > 0
  BY <1>0, <1>1
<1>3. Scalars'
  BY <1>0, <1>1, <1>2 DEF Scalars
<1>4. /\ DOMAIN server' = ServerFields /\ server'.up = None /\ server'.down = None
      /\ server'.response = NoResponse /\ server'.mid = 0 /\ server'.reply = {}
      /\ server'.failed = FALSE
  BY <1>0 DEF NewServer, ServerFields
<1>5. ServerOK(server', request)
  <2>1. server'.response \in {Representation(v) : v \in 1..MaxVersion} \cup {NoResponse}
    BY <1>4
  <2>2. UploadedOK(server'.up, request) /\ server'.mid \in Nat
    BY <1>4 DEF UploadedOK
  <2>4. server'.failed \in BOOLEAN
    BY <1>4
  <2>3. \A r \in server'.reply : ReplyOK(r, request)
    BY <1>4
  <2> QED  BY <1>4, <2>1, <2>2, <2>3, <2>4 DEF ServerOK, ServerFields
<1>6. ServerOK(server, request)' /\ ClientOK(client, request)'
  BY <1>0, <1>5, SameRequest DEF TransferInv, DataInv
<1>7. Messages'
  <2>1. \A m \in toServer : m.mid \in 1..(nextMid - 1) /\ RequestOK(m, request) /\ Sized(m, client)
    BY DEF TransferInv, DataInv, Messages
  <2>2. \A m \in toClient \cup server'.reply : ReplyOK(m, request) /\ Answers(m, client)
    BY <1>4 DEF TransferInv, DataInv, Messages
  <2>3. server'.mid < nextMid
    BY <1>1, <1>4
  <2>4. nextMid # 1
    BY <1>1 DEF TransferInv, DataInv, Messages
  <2> QED  BY <1>0, <2>1, <2>2, <2>3, <2>4 DEF Messages
<1>8. Asked'
  BY <1>2 DEF Asked
<1>9. HandledOK'
  BY <1>0, <1>2 DEF TransferInv, DataInv, HandledOK
<1>10. NotifiedOK'
  BY <1>0, <1>2, NotifiedStays DEF TransferInv
<1>11. QuietInv'
  <2>1. ASSUME faults.repeat = 0
        PROVE  Alone' /\ InStep' /\ (Fits => ~client.failed)
    <3>1. Alone /\ InStep /\ (Fits => ~client.failed)
      BY <2>1 DEF TransferInv, QuietInv
    <3>2. \A m \in toServer : m.mid # 0
      BY <1>1 DEF TransferInv, DataInv, Messages
    <3>3. Alone'
      BY <1>0, <1>4, <3>1, <3>2 DEF Alone
    <3>4. InStep'
      BY <1>0, <3>1 DEF InStep
    <3> QED  BY <3>1, <3>3, <3>4
  <2>2. Fits' => ~server'.failed
    BY <1>4
  <2>3. Fits' <=> Fits
    BY <1>0, SameFits
  <2> QED  BY <1>0, <1>2, <2>1, <2>2, <2>3 DEF QuietInv
<1> QED  BY <1>3, <1>6, <1>7, <1>8, <1>9, <1>10, <1>11 DEF TransferInv, DataInv

LEMMA RepeatEffect ==
  ASSUME NEW again \in BOOLEAN, Repeat(again), faults \in [repeat : Nat, loss : Nat, expiry : Nat]
  PROVE  /\ faults' \in [repeat : Nat, loss : Nat, expiry : Nat]
         /\ faults'.expiry = faults.expiry
         /\ faults'.repeat = 0 => faults.repeat = 0 /\ ~again
<1>1. CASE again
  BY <1>1 DEF Repeat
<1>2. CASE ~again
  BY <1>2 DEF Repeat
<1> QED  BY <1>1, <1>2

LEMMA SendRequestKeeps ==
  ASSUME TransferInv, SendRequest
  PROVE  TransferInv'
<1>0. /\ nextMid = 1 /\ request' = request /\ server' = server /\ version' = version
      /\ toClient' = toClient /\ handled' = handled /\ notified' = notified /\ faults' = faults
  BY DEF SendRequest, history
<1>1. /\ DataInv /\ Scalars /\ request.up \in Nat
      /\ faults \in [repeat : Nat, loss : Nat, expiry : Nat] /\ ClientOK(client, request)
  BY RequestType DEF TransferInv, DataInv, Scalars
<1>2. toServer = {} /\ toClient = {} /\ client = NewClient /\ server = NewServer
  BY <1>0, <1>1 DEF DataInv, Messages
<1>3. /\ client.up = None /\ client.down = None /\ client.failed = FALSE
      /\ server.mid = 0 /\ server.failed = FALSE
  BY <1>2 DEF NewClient, NewServer
<1>4. /\ ClientOK(client', request)
      /\ client'.down = None /\ client'.failed = FALSE /\ nextMid' = nextMid + 1
      /\ \E n : /\ toServer' = {n} /\ n.mid = nextMid /\ RequestOK(n, request)
                /\ Sized(n, client') /\ n.block2 = None
                /\ n.block1 # None =>
                     n.block1.num = client'.up.current /\ n.block1.size = client'.up.size
  <2>1. CASE request.up > MaxMessage
    <3>1. SendRequestBlock(client, 0, ClientBlock)
      BY <2>1 DEF SendRequest
    <3>2. ClientBlock \in {ClientBlock, Small} /\ 0 \in Nat /\ 0 * ClientBlock = 0
      BY Sizes
    <3>3. /\ ClientOK(client', request)
          /\ client'.down = client.down
          /\ \/ /\ client'.up = client.up
                /\ toServer' = toServer /\ nextMid' = nextMid
                /\ ~(0 * ClientBlock <= request.up /\ 0 * ClientBlock + ClientBlock < Width)
             \/ /\ client'.failed = client.failed
                /\ client'.up # None /\ client'.up.current = 0 /\ client'.up.size = ClientBlock
                /\ nextMid' = nextMid + 1
                /\ \E n : /\ toServer' = toServer \cup {n}
                          /\ n.mid = nextMid /\ UploadOK(n, request)
                          /\ n.block1 # None /\ n.block1.num = 0 /\ n.block1.size = ClientBlock
      BY <1>0, <1>1, <3>1, <3>2, SendRequestBlockEffect
    <3>4. 0 * ClientBlock <= request.up /\ 0 * ClientBlock + ClientBlock < Width
      BY <1>1, <3>2, Sizes
    <3>5. PICK n : /\ toServer' = toServer \cup {n}
                   /\ n.mid = nextMid /\ UploadOK(n, request)
                   /\ n.block1 # None /\ n.block1.num = 0 /\ n.block1.size = ClientBlock
      BY <3>3, <3>4
    <3>6. n.block2 = None /\ RequestOK(n, request) /\ toServer' = {n}
      BY <1>2, <3>5 DEF UploadOK, RequestOK
    <3>7. Sized(n, client')
      BY <3>3, <3>4, <3>5 DEF Sized
    <3> QED  BY <1>3, <3>3, <3>4, <3>5, <3>6, <3>7
  <2>2. CASE ~(request.up > MaxMessage)
    <3> DEFINE n == RequestMsg(nextMid, None, None, Body)
    <3>1. toServer' = {n} /\ nextMid' = nextMid + 1 /\ client' = client
      BY <1>2, <2>2 DEF SendRequest
    <3>2. n.mid = nextMid /\ n.block1 = None /\ n.block2 = None /\ n.payload = Body
      BY DEF RequestMsg
    <3> HIDE DEF n
    <3>3. RequestOK(n, request)
      BY <1>1, <3>2, BodyProperties DEF RequestOK, WholeOK
    <3>4. Sized(n, client')
      BY <3>2 DEF Sized
    <3> QED  BY <1>1, <1>3, <3>1, <3>2, <3>3, <3>4
  <2> QED  BY <2>1, <2>2
<1>5. PICK n : /\ toServer' = {n} /\ n.mid = nextMid /\ RequestOK(n, request)
               /\ Sized(n, client') /\ n.block2 = None
               /\ n.block1 # None =>
                    n.block1.num = client'.up.current /\ n.block1.size = client'.up.size
  BY <1>4
<1>6. DataInv'
  <2>1. toServer' = toServer \cup {n} /\ toClient' \subseteq toClient
    BY <1>0, <1>2, <1>5
  <2>2. faults' \in [repeat : Nat, loss : Nat, expiry : Nat] /\ faults'.expiry = faults.expiry
    BY <1>0, <1>1
  <2> QED  BY <1>0, <1>1, <1>3, <1>4, <1>5, <2>1, <2>2, ClientGrows
<1>7. NotifiedOK'
  BY <1>0, NotifiedStays DEF TransferInv
<1>8. QuietInv'
  <2>1. Alone'
    BY <1>0, <1>2, <1>3, <1>5 DEF Alone
  <2>2. InStep'
    BY <1>0, <1>2, <1>4, <1>5 DEF InStep
  <2>3. SameVersion'
    BY <1>0, <1>2, <1>4 DEF SameVersion
  <2> QED  BY <1>0, <1>3, <1>4, <2>1, <2>2, <2>3 DEF QuietInv
<1> QED  BY <1>6, <1>7, <1>8 DEF TransferInv

LEMMA OneVersionOf ==
  ASSUME NEW b, NEW n \in Nat \ {0}, SliceOf(b, 0, n), NEW rep, OfResponse(b, rep)
  PROVE  OneVersion(b)
<1>1. Len(b) = n
  BY DEF SliceOf
<1>2. 1 \in 1..Len(b)
  BY <1>1
<1>3. b[1][1] = rep[1][1]
  BY <1>2 DEF OfResponse
<1> QED  BY <1>3 DEF OfResponse, OneVersion

LEMMA ClientReceivesKeeps ==
  ASSUME TransferInv, NEW m \in toClient, NEW again \in BOOLEAN, ClientReceives(m, again)
  PROVE  TransferInv'
<1>0. /\ request' = request /\ server' = server /\ version' = version /\ handled' = handled
      /\ Repeat(again) /\ toClient' = Left(toClient, m, again) /\ ~client.failed
  BY DEF ClientReceives
<1>1. /\ DataInv /\ Scalars /\ request.up \in Nat /\ request.down \in Nat \ {0}
      /\ faults \in [repeat : Nat, loss : Nat, expiry : Nat] /\ nextMid \in Nat \ {0}
      /\ faults.expiry \in Nat /\ ClientOK(client, request)
  BY RequestType DEF TransferInv, DataInv, Scalars
<1>2. /\ faults' \in [repeat : Nat, loss : Nat, expiry : Nat]
      /\ faults'.expiry = faults.expiry
      /\ faults'.repeat = 0 => faults.repeat = 0 /\ ~again
  BY <1>0, <1>1, RepeatEffect
<1>3. ClientOK(client', request) /\ Grown /\ Says(m) /\ Collects(m) /\ Notifies(m) /\ Fails(m)
  BY <1>1, ClientReceivesEffect DEF Reaction
<1>4. ReplyOK(m, request) /\ Answers(m, client) /\ nextMid # 1
  BY <1>1 DEF DataInv, Messages
<1>5. m.code = "content" => ~(server.response = NoResponse /\ faults.expiry = 0)
  BY <1>1 DEF DataInv, Asked
<1>6. toClient' \subseteq toClient
  BY <1>0 DEF Left
<1>7. DataInv'
  <2>1. \/ toServer' = toServer /\ nextMid' = nextMid /\ nextMid # 1
        \/ /\ nextMid' = nextMid + 1
           /\ \E n : /\ toServer' = toServer \cup {n}
                     /\ n.mid = nextMid /\ RequestOK(n, request) /\ Sized(n, client')
                     /\ n.block2 # None => ~(server.response = NoResponse /\ faults.expiry = 0)
    BY <1>3, <1>4, <1>5 DEF Says, SentNone, Sent
  <2>2. client.up # None => client'.up # None /\ (client.up.size = Small => client'.up.size = Small)
    BY <1>3 DEF Grown
  <2> QED  BY <1>0, <1>1, <1>2, <1>3, <1>6, <2>1, <2>2, ClientGrows
<1>8. ASSUME faults'.repeat = 0
      PROVE  /\ Alone /\ InStep /\ (Fits => ~client.failed) /\ (faults.expiry = 0 => SameVersion)
             /\ toServer = {} /\ toClient = {m} /\ toClient' = {} /\ faults.repeat = 0
  <2>1. /\ faults.repeat = 0 /\ ~again
        /\ Alone /\ InStep /\ (Fits => ~client.failed) /\ (faults.expiry = 0 => SameVersion)
    BY <1>2, <1>8 DEF TransferInv, QuietInv
  <2>2. toServer = {} /\ toClient = {m}
    BY <2>1 DEF Alone
  <2>3. toClient' = {}
    BY <1>0, <2>1, <2>2 DEF Left
  <2> QED  BY <2>1, <2>2, <2>3
<1>9. ASSUME faults'.repeat = 0, faults.expiry = 0, m.code = "content"
      PROVE  OfResponse(m.payload, server.response) /\ OfResponse(Had, server.response)
  <2>1. SameVersion
    BY <1>8, <1>9
  <2>2. OfResponse(<<>>, server.response)
    BY DEF OfResponse
  <2> QED  BY <1>9, <2>1, <2>2 DEF SameVersion, Had
<1>10. NotifiedOK'
  <2> SUFFICES ASSUME NEW r \in notified', r.code = "content"
               PROVE  /\ SliceOf(r.body, 0, request.down)
                      /\ faults'.repeat = 0 /\ faults'.expiry = 0 => OneVersion(r.body)
    BY <1>0 DEF NotifiedOK
  <2>1. CASE r \in notified
    BY <1>2, <2>1 DEF TransferInv, NotifiedOK
  <2>2. CASE m.code = "content" /\ SliceOf(r.body, 0, request.down) /\ From(m, r.body)
    <3>1. ASSUME faults'.repeat = 0, faults'.expiry = 0
          PROVE  OneVersion(r.body)
      <4>1. OfResponse(r.body, server.response)
        BY <1>2, <1>9, <2>2, <3>1 DEF From
      <4> QED  BY <1>1, <2>2, <4>1, OneVersionOf
    <3> QED  BY <2>2, <3>1
  <2> QED  BY <1>3, <2>1, <2>2 DEF Notifies
<1>11. ASSUME faults'.repeat = 0
       PROVE  Alone' /\ InStep'
  <2>1. toServer = {} /\ toClient' = {} /\ server.mid < nextMid
    BY <1>1, <1>8, <1>11 DEF DataInv, Messages
  <2>2. CASE SentNone
    BY <2>1, <2>2 DEF SentNone, Alone, InStep
  <2>3. CASE ~SentNone
    <3>1. PICK n : /\ Sent(n) /\ RequestOK(n, request) /\ Sized(n, client')
                   /\ n.block2 # None => m.code = "content"
                   /\ n.block1 # None =>
                        n.block1.num = client'.up.current /\ n.block1.size = client'.up.size
                   /\ m.code = "content" => n.block1 = None /\ n.block2 # None
      BY <1>3, <2>3 DEF Says
    <3>2. toServer' = {n} /\ n.mid = nextMid
      BY <2>1, <3>1 DEF Sent
    <3>3. server.mid \in Nat
      BY <1>1 DEF DataInv, ServerOK
    <3>4. Alone'
      BY <1>0, <1>1, <2>1, <3>2, <3>3 DEF Alone
    <3>5. client'.down # None => m.code = "content"
      <4> SUFFICES ASSUME client'.down # None, m.code # "content" PROVE FALSE
        OBVIOUS
      <4>1. client.down # None
        BY <1>3 DEF Collects
      <4> QED  BY <1>8, <1>11, <4>1 DEF InStep
    <3>6. InStep'
      BY <2>1, <3>1, <3>2, <3>5 DEF InStep
    <3> QED  BY <3>4, <3>6
  <2> QED  BY <2>2, <2>3
<1>12. ASSUME faults'.repeat = 0, Fits
       PROVE  ~client'.failed
  <2> SUFFICES ASSUME m.code = "continue", ~Within PROVE FALSE
    BY <1>0, <1>3 DEF Fails
  <2> DEFINE x == (client.up.current + 1) * Small
  <2>1. m.block1.num = client.up.current /\ ContinueOK(m, request)
    BY <1>4, <1>8, <1>12 DEF InStep, ReplyOK, TooLargeOK, ContentOK
  <2>2. x < request.up
    BY <2>1 DEF ContinueOK
  <2>3. x \in Nat
    <3>1. client.up # None
      BY <1>4 DEF Answers
    <3>2. client.up.current \in Nat
      BY <1>1, <3>1 DEF ClientOK
    <3> QED  BY <3>2, Sizes
  <2>4. request.up + ClientBlock <= Width
    BY <1>12 DEF Fits
  <2> HIDE DEF x
  <2>5. x <= request.up /\ x + Small < Width
    BY <1>1, <2>2, <2>3, <2>4, Sizes
  <2> QED  BY <2>5 DEF Within, x
<1>13. ASSUME faults'.repeat = 0, faults'.expiry = 0
       PROVE  SameVersion'
  <2>1. toClient' = {} /\ SameVersion /\ Collects(m)
    BY <1>2, <1>3, <1>8, <1>13
  <2>2. ASSUME client'.down # None
        PROVE  server.response # NoResponse /\ OfResponse(client'.down.buffer, server.response)
    <3>1. CASE m.code = "content"
      BY <1>2, <1>5, <1>9, <1>13, <2>1, <2>2, <3>1 DEF Collects, From
    <3>2. CASE m.code # "content"
      <4>1. client'.down = client.down
        BY <2>1, <3>2 DEF Collects
      <4> QED  BY <2>1, <2>2, <4>1 DEF SameVersion
    <3> QED  BY <3>1, <3>2
  <2> QED  BY <1>0, <2>1, <2>2 DEF SameVersion
<1>14. QuietInv'
  <2>1. Fits' <=> Fits
    BY <1>0, SameFits
  <2>2. Fits => ~server.failed
    BY DEF TransferInv, QuietInv
  <2> QED  BY <1>0, <1>11, <1>12, <1>13, <2>1, <2>2 DEF QuietInv
<1> QED  BY <1>7, <1>10, <1>14 DEF TransferInv

LEMMA ServerReceivesKeeps ==
  ASSUME TransferInv, NEW m \in toServer, NEW again \in BOOLEAN, ServerReceives(m, again)
  PROVE  TransferInv'
<1>0. /\ request' = request /\ client' = client /\ version' = version /\ nextMid' = nextMid
      /\ notified' = notified /\ Repeat(again) /\ toServer' = Left(toServer, m, again)
      /\ ~server.failed
  BY DEF ServerReceives
<1>1. /\ DataInv /\ Scalars /\ request.up \in Nat /\ request.down \in Nat \ {0}
      /\ faults \in [repeat : Nat, loss : Nat, expiry : Nat] /\ nextMid \in Nat \ {0}
      /\ version \in 1..MaxVersion /\ ServerOK(server, request)
  BY RequestType DEF TransferInv, DataInv, Scalars
<1>2. /\ faults' \in [repeat : Nat, loss : Nat, expiry : Nat]
      /\ faults'.expiry = faults.expiry
      /\ faults'.repeat = 0 => faults.repeat = 0 /\ ~again
  BY <1>0, <1>1, RepeatEffect
<1>3. NotifiedOK'
  BY <1>0, <1>2, NotifiedStays DEF TransferInv
<1>4. toServer' \subseteq toServer
  BY <1>0 DEF Left
<1>5. m.mid \in Nat /\ m.mid < nextMid /\ RequestOK(m, request) /\ nextMid # 1
  BY <1>1 DEF DataInv, Messages
<1>6. Fits' <=> Fits
  BY <1>0, SameFits
<1>7. Fits => ~server.failed
  BY DEF TransferInv, QuietInv
<1>8. CASE is_repeated(m)
  <2>1. toClient' = toClient \cup server.reply /\ server' = server /\ handled' = handled
    BY <1>8 DEF ServerReceives
  <2>2. Scalars'
    BY <1>0, <1>1, <1>2 DEF Scalars
  <2>3. ServerOK(server, request)' /\ ClientOK(client, request)'
    BY <1>0, <1>1, <2>1, SameRequest DEF DataInv
  <2>4. \A r \in toClient' \cup server'.reply : r \in toClient \cup server.reply
    BY <2>1
  <2>5. Messages'
    BY <1>0, <1>1, <1>4, <1>5, <2>1, <2>4 DEF DataInv, Messages
  <2>6. Asked'
    BY <1>1, <1>2, <1>4, <2>1, <2>4 DEF DataInv, Asked
  <2>7. HandledOK'
    BY <1>0, <1>1, <1>2, <2>1 DEF DataInv, HandledOK
  <2>8. faults'.repeat # 0
    <3> SUFFICES ASSUME faults'.repeat = 0 PROVE FALSE
      OBVIOUS
    <3>1. Alone
      BY <1>2 DEF TransferInv, QuietInv
    <3> QED  BY <1>8, <3>1 DEF Alone, is_repeated
  <2>9. QuietInv'
    BY <1>6, <1>7, <2>1, <2>8 DEF QuietInv
  <2> QED  BY <1>3, <2>2, <2>3, <2>5, <2>6, <2>7, <2>9 DEF TransferInv, DataInv
<1>9. CASE ~is_repeated(m)
  <2>1. ServeRequest(m)
    BY <1>9 DEF ServerReceives
  <2>2. DataInv'
    BY <1>0, <1>1, <1>2, <1>4, <2>1, ServerServes
  <2>3. /\ ServerOK(server', request)
        /\ Silence(m) \/ \E r : Outcome(m, r)
        /\ HandledBy(m) /\ ResponseOf(m)
    BY <1>1, <1>5, <2>1, ServeRequestEffect
  <2>4. Fits => ~server'.failed
    <3>1. Fits => request.down + ServerBlock <= Width
      BY DEF Fits
    <3>2. CASE Silence(m)
      BY <1>7, <3>1, <3>2 DEF Silence
    <3>3. ASSUME NEW r, Outcome(m, r)
          PROVE  server'.failed = server.failed
      BY <3>3 DEF Outcome, Answered
    <3> QED  BY <1>7, <2>3, <3>2, <3>3
  <2>5. ASSUME faults'.repeat = 0
        PROVE  /\ Alone /\ InStep /\ (Fits => ~client.failed) /\ (faults.expiry = 0 => SameVersion)
               /\ toClient = {} /\ toServer' = {}
    <3>1. /\ ~again /\ Alone /\ InStep /\ (Fits => ~client.failed)
          /\ (faults.expiry = 0 => SameVersion)
      BY <1>2, <2>5 DEF TransferInv, QuietInv
    <3>2. toClient = {} /\ toServer = {m}
      BY <3>1 DEF Alone
    <3>3. toServer' = {}
      BY <1>0, <3>1, <3>2 DEF Left
    <3> QED  BY <3>1, <3>2, <3>3
  <2>6. ASSUME faults'.repeat = 0
        PROVE  \A r \in toClient' : Outcome(m, r) /\ toClient' = {r}
    <3>1. toClient = {}
      BY <2>5, <2>6
    <3>2. CASE Silence(m)
      BY <3>1, <3>2 DEF Silence
    <3>3. ASSUME NEW r, Outcome(m, r)
          PROVE  toClient' = {r}
      BY <3>1, <3>3 DEF Outcome, Answered
    <3> QED  BY <2>3, <3>2, <3>3
  <2>7. ASSUME faults'.repeat = 0
        PROVE  Alone' /\ InStep'
    <3>1. toServer' = {} /\ InStep
      BY <2>5, <2>7
    <3>2. Alone'
      BY <2>6, <2>7, <3>1 DEF Alone
    <3>3. ASSUME NEW r \in toClient', r.code = "continue"
          PROVE  r.block1.num = client.up.current
      <4>1. Outcome(m, r) /\ ReplyOK(r, request)
        BY <2>6, <2>7, <3>3 DEF Outcome
      <4>2. ContinueOK(r, request) /\ r.block1 # None
        BY <3>3, <4>1, NoneProperties DEF ReplyOK, ContinueOK, TooLargeOK, ContentOK
      <4>3. r.block1 = m.block1 /\ m.block1 # None
        BY <3>3, <4>1, <4>2 DEF Outcome
      <4> QED  BY <3>1, <4>3 DEF InStep
    <3>4. ASSUME NEW r \in toClient', client.down # None
          PROVE  r.code = "content"
      <4>1. m.block1 = None
        BY <3>1, <3>4 DEF InStep
      <4> QED  BY <2>6, <2>7, <3>4, <4>1 DEF Outcome
    <3>5. InStep'
      BY <1>0, <3>1, <3>3, <3>4 DEF InStep
    <3> QED  BY <3>2, <3>5
  <2>8. ASSUME faults'.repeat = 0, faults'.expiry = 0
        PROVE  SameVersion'
    <3>1. SameVersion /\ InStep
      BY <1>2, <2>5, <2>8
    <3>2. \A r \in toClient' : r.code = "content" => OfResponse(r.payload, server'.response)
      BY <2>6, <2>8 DEF Outcome
    <3>3. ASSUME client.down # None
          PROVE  server'.response = server.response
      <4>1. server.response # NoResponse
        BY <3>1, <3>3 DEF SameVersion
      <4>2. m.block1 = None /\ m.block2 # None
        BY <3>1, <3>3 DEF InStep
      <4> QED  BY <2>3, <4>1, <4>2 DEF ResponseOf
    <3> QED  BY <1>0, <3>1, <3>2, <3>3 DEF SameVersion
  <2>9. QuietInv'
    BY <1>0, <1>6, <2>4, <2>5, <2>7, <2>8 DEF QuietInv
  <2> QED  BY <1>3, <2>2, <2>9 DEF TransferInv
<1> QED  BY <1>8, <1>9

LEMMA TransferStep ==
  ASSUME TransferInv, [Next]_vars
  PROVE  TransferInv'
<1>0. /\ Scalars /\ faults \in [repeat : Nat, loss : Nat, expiry : Nat] /\ version \in 1..MaxVersion
      /\ MaxVersion \in Nat
  BY Sizes DEF TransferInv, DataInv, Scalars
<1>1. CASE SendRequest
  BY <1>1, SendRequestKeeps
<1>2. ASSUME NEW m \in toClient, NEW again \in BOOLEAN, ClientReceives(m, again)
      PROVE  TransferInv'
  BY <1>2, ClientReceivesKeeps
<1>3. ASSUME NEW m \in toServer, NEW again \in BOOLEAN, ServerReceives(m, again)
      PROVE  TransferInv'
  BY <1>3, ServerReceivesKeeps
<1>4. CASE Lose
  <2>1. /\ request' = request /\ client' = client /\ server' = server /\ version' = version
        /\ nextMid' = nextMid /\ handled' = handled /\ notified' = notified
        /\ toServer' \subseteq toServer /\ toClient' \subseteq toClient
        /\ faults' = [faults EXCEPT !.loss = @ + 1]
    BY <1>4 DEF Lose, history
  <2>2. /\ faults' \in [repeat : Nat, loss : Nat, expiry : Nat]
        /\ faults'.repeat = faults.repeat /\ faults'.expiry = faults.expiry
    BY <1>0, <2>1
  <2> QED  BY <1>0, <2>1, <2>2, OthersKeep
<1>5. CASE Expire
  BY <1>5, ExpireKeeps
<1>6. CASE Change
  <2>1. /\ request' = request /\ client' = client /\ server' = server
        /\ nextMid' = nextMid /\ handled' = handled /\ notified' = notified /\ faults' = faults
        /\ toServer' \subseteq toServer /\ toClient' \subseteq toClient
        /\ version < MaxVersion /\ version' = version + 1
    BY <1>6 DEF Change, history, network
  <2>2. version' \in 1..MaxVersion
    BY <1>0, <2>1
  <2> QED  BY <1>0, <2>1, <2>2, OthersKeep
<1>7. CASE UNCHANGED vars
  <2>1. /\ request' = request /\ client' = client /\ server' = server /\ version' = version
        /\ nextMid' = nextMid /\ handled' = handled /\ notified' = notified /\ faults' = faults
        /\ toServer' \subseteq toServer /\ toClient' \subseteq toClient
    BY <1>7 DEF vars, history, network
  <2> QED  BY <1>0, <2>1, OthersKeep
<1> QED  BY <1>1, <1>2, <1>3, <1>4, <1>5, <1>6, <1>7 DEF Next

LEMMA TransferAlways == Spec => []TransferInv
<1>1. Init => TransferInv
  BY TransferInit
<1>2. TransferInv /\ [Next]_vars => TransferInv'
  BY TransferStep
<1> QED  BY <1>1, <1>2, PTL DEF Spec

(***************************************************************************)
(* The theorems.                                                           *)
(***************************************************************************)

\* Every variable has its type: what the client and the server have collected
\* is never longer than what it is collected from.
THEOREM TransferTypes == Spec => []TypeOK
<1>1. ASSUME TransferInv PROVE TypeOK
  <2>1. /\ Scalars /\ ClientOK(client, request) /\ ServerOK(server, request) /\ Messages
        /\ request.up \in Nat /\ request.down \in Nat \ {0}
    BY <1>1, RequestType DEF TransferInv, DataInv
  <2>2. client.up = None \/ client.up \in [current : Nat, size : Nat \ {0}]
    BY <2>1, Sizes DEF ClientOK
  <2>3. client.down = None \/ (client.down.next \in Nat /\ Len(client.down.buffer) < request.down)
    <3> SUFFICES ASSUME client.down # None
                 PROVE  client.down.next \in Nat /\ Len(client.down.buffer) < request.down
      OBVIOUS
    <3> DEFINE n == client.down.next
               x == n * ServerBlock
    <3>1. n \in Nat /\ (n = 0 \/ x < request.down) /\ SliceOf(client.down.buffer, 0, x)
      BY <2>1 DEF ClientOK
    <3>2. x \in Nat /\ (n = 0 => x = 0)
      BY <3>1, Sizes, Products
    <3> HIDE DEF x
    <3>3. Len(client.down.buffer) = x
      BY <3>1, <3>2 DEF SliceOf
    <3> QED  BY <2>1, <3>1, <3>2, <3>3
  <2>4. server.up = None \/ (server.up.next \in Nat /\ Len(server.up.buffer) <= request.up)
    <3> SUFFICES ASSUME server.up # None
                 PROVE  server.up.next \in Nat /\ Len(server.up.buffer) <= request.up
      OBVIOUS
    <3> DEFINE n == server.up.next
               x == n * Small
    <3>1. n \in Nat /\ (n = 0 \/ x < request.up) /\ Slice(server.up.buffer, 0, x)
      BY <2>1 DEF ServerOK, UploadedOK
    <3>2. x \in Nat /\ (n = 0 => x = 0)
      BY <3>1, Sizes, Products
    <3> HIDE DEF x
    <3>3. Len(server.up.buffer) = x
      BY <3>1, <3>2 DEF Slice
    <3> QED  BY <2>1, <3>1, <3>2, <3>3
  <2>5. \A m \in toServer : m.mid \in 1..(nextMid - 1) /\ {m.block1, m.block2} \subseteq Blocks
    BY <2>1, BlockTypes DEF Messages, RequestOK, UploadOK, WholeOK, AskOK
  <2>6. \A m \in toClient : {m.block1, m.block2} \subseteq Blocks
    <3> SUFFICES ASSUME NEW m \in toClient PROVE m.block1 \in Blocks /\ m.block2 \in Blocks
      OBVIOUS
    <3>1. ReplyOK(m, request)
      BY <2>1 DEF Messages
    <3>2. CASE ContinueOK(m, request)
      BY <3>2, BlockTypes DEF ContinueOK
    <3>3. CASE TooLargeOK(m)
      BY <3>3, BlockTypes, Sizes DEF TooLargeOK
    <3>4. CASE ContentOK(m, request)
      BY <3>4, BlockTypes DEF ContentOK, PieceOK
    <3> QED  BY <3>1, <3>2, <3>3, <3>4 DEF ReplyOK
  <2>7. server.response \in {Representation(v) : v \in 1..MaxVersion} \cup {NoResponse}
    BY <2>1 DEF ServerOK
  <2>8. request \in Requests /\ version \in 1..MaxVersion /\ client.failed \in BOOLEAN
    BY <2>1 DEF Scalars, ClientOK
  <2> QED  BY <2>2, <2>3, <2>4, <2>5, <2>6, <2>7, <2>8 DEF TypeOK
<1> QED  BY <1>1, TransferAlways, PTL

\* However blocks are lost, repeated or reordered, and whatever the sizes of the
\* blocks and the width of an offset, a resource gets the body the application
\* sent, all of it, or nothing; an empty one only when the server forgot the
\* interaction.
THEOREM TransferBodyIntact == Spec => []BodyIntact
<1>1. ASSUME TransferInv PROVE BodyIntact
  <2>1. HandledOK /\ request.up \in Nat
    BY <1>1, RequestType DEF TransferInv, DataInv
  <2>2. \A b : Slice(b, 0, request.up) => b = Body
    BY <2>1, SliceIsBody
  <2> QED  BY <2>1, <2>2 DEF HandledOK, BodyIntact
<1> QED  BY <1>1, TransferAlways, PTL

\* A response the callback gets has every unit of the representation once and in
\* order, and all of one version when no request was repeated and the server
\* did not forget it.
THEOREM TransferResponseIntact == Spec => []ResponseIntact
<1>1. ASSUME TransferInv PROVE ResponseIntact
  <2>0. NotifiedOK /\ request.down \in Nat \ {0}
    BY <1>1, RequestType DEF TransferInv, DataInv
  <2> SUFFICES ASSUME NEW r \in notified, r.code = "content"
               PROVE  /\ Units(r.body) = [i \in 1..request.down |-> i]
                      /\ faults.repeat = 0 /\ faults.expiry = 0 => Cardinality(Versions(r.body)) = 1
    BY DEF ResponseIntact
  <2> DEFINE b == r.body
             n == request.down
  <2>1. /\ SliceOf(b, 0, n)
        /\ faults.repeat = 0 /\ faults.expiry = 0 => OneVersion(b)
    BY <2>0 DEF NotifiedOK
  <2> HIDE DEF b
  <2>2. b \in Seq(Nat \X Nat) /\ Len(b) = n /\ DOMAIN b = 1..n /\ \A i \in 1..n : b[i][2] = i
    BY <2>0, <2>1 DEF SliceOf
  <2>3. Units(b) = [i \in 1..n |-> i]
    BY <2>2 DEF Units
  <2>4. ASSUME OneVersion(b)
        PROVE  Cardinality(Versions(b)) = 1
    <3>1. \A i \in 1..n : b[i][1] = b[1][1]
      BY <2>2, <2>4 DEF OneVersion
    <3>2. 1 \in 1..n
      BY <2>0
    <3>3. Versions(b) = {b[1][1]}
      BY <2>2, <3>1, <3>2 DEF Versions
    <3> QED  BY <3>3, FS_Singleton
  <2> QED  BY <2>1, <2>3, <2>4 DEF b
<1> QED  BY <1>1, TransferAlways, PTL

\* If the offsets fit the width and no message was repeated, neither the server
\* nor the client computes a block of negative length.
THEOREM TransferNoOverrun == Spec => []NoOverrun
<1>1. ASSUME TransferInv PROVE NoOverrun
  BY <1>1 DEF TransferInv, QuietInv, NoOverrun
<1> QED  BY <1>1, TransferAlways, PTL
====
