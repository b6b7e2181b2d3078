-------------------------- MODULE ClientStack_proofs --------------------------
(***************************************************************************)
(* The store of the client side stays consistent, for every set of peers,  *)
(* requests and message ids, and whatever arrives in whatever order; and   *)
(* callbacks are told the responses to their requests, each once, where    *)
(* the ids and tokens the code matches by tell messages apart.             *)
(***************************************************************************)
EXTENDS ClientStack, FiniteSetTheorems, SequenceTheorems, WellFoundedInduction, TLAPS

Exchange == [origin : {"local", "remote"}, peer : Peer, mid : Mid,
             msg : SUBSET SentMessage, owner : Nat]
Interaction == [token : Token, endpoint : Peer, request : Requests,
                in : Nat, out : Nat, count : Int]

(***************************************************************************)
(* An interaction agrees with a list of exchanges: StoreConsistent for one *)
(* place, as a predicate of the values the handlers compute.               *)
(***************************************************************************)
Own(ex, i) == {x \in DOMAIN ex : ex[x].owner = i}

Fits(c, i, ex) ==
  /\ {c.in, c.out} \ {Null} = Own(ex, i)
  /\ c.count = Cardinality(Own(ex, i))
  /\ \A x \in Own(ex, i) : ex[x].origin = IF x = c.in THEN "remote" ELSE "local"

Store(ex, its, next) ==
  /\ next \in Nat \ {0}
  /\ DOMAIN ex \subseteq 1..(next - 1)
  /\ ex \in [DOMAIN ex -> Exchange]
  /\ its \in Seq(Interaction)
  /\ \A x \in DOMAIN ex : ex[x].owner \in DOMAIN its
  /\ \A i \in DOMAIN its : Fits(its[i], i, ex)

Cut(ex, gone) == [x \in DOMAIN ex \ gone |-> ex[x]]

With(ex, n, e) == [x \in DOMAIN ex \cup {n} |-> IF x = n THEN e ELSE ex[x]]

\* What ClientInteraction::delete_exchange leaves of an interaction.
Stripped(c, gone) ==
  [c EXCEPT !.in = NoLonger(@, gone), !.out = NoLonger(@, gone),
            !.count = @ - Cardinality(gone)]

LEMMA StoreFinite ==
  ASSUME NEW ex, NEW its, NEW next, Store(ex, its, next), NEW i
  PROVE  IsFiniteSet(Own(ex, i)) /\ next \notin DOMAIN ex /\ Null \notin DOMAIN ex
<1>1. IsFiniteSet(1 .. (next - 1))
  BY FS_Interval DEF Store
<1>2. Own(ex, i) \subseteq 1 .. (next - 1)
  BY DEF Own, Store
<1>3. next \notin 1 .. (next - 1) /\ Null \notin 1 .. (next - 1)
  BY DEF Store, Null
<1> QED
  BY <1>1, <1>2, <1>3, FS_Subset DEF Store

LEMMA StrippedType ==
  ASSUME NEW c \in Interaction, NEW gone, IsFiniteSet(gone)
  PROVE  /\ Stripped(c, gone) \in Interaction
         /\ Stripped(c, gone).in = NoLonger(c.in, gone)
         /\ Stripped(c, gone).out = NoLonger(c.out, gone)
         /\ Stripped(c, gone).count = c.count - Cardinality(gone)
<1> DEFINE n == Cardinality(gone)
<1>1. n \in Nat
  BY FS_CardinalityType
<1> HIDE DEF n
<1>2. NoLonger(c.in, gone) \in Nat /\ NoLonger(c.out, gone) \in Nat
  BY DEF Interaction, NoLonger, Null
<1> HIDE DEF NoLonger
<1>3. c.count - n \in Int
  BY <1>1 DEF Interaction
<1>4. /\ [c EXCEPT !.in = NoLonger(@, gone), !.out = NoLonger(@, gone), !.count = @ - n] \in Interaction
      /\ [c EXCEPT !.in = NoLonger(@, gone), !.out = NoLonger(@, gone), !.count = @ - n].in = NoLonger(c.in, gone)
      /\ [c EXCEPT !.in = NoLonger(@, gone), !.out = NoLonger(@, gone), !.count = @ - n].out = NoLonger(c.out, gone)
      /\ [c EXCEPT !.in = NoLonger(@, gone), !.out = NoLonger(@, gone), !.count = @ - n].count = c.count - n
  BY <1>2, <1>3 DEF Interaction
<1> QED
  BY <1>4 DEF Stripped, n

(***************************************************************************)
(* The three ways the store changes.                                       *)
(***************************************************************************)

\* create_client_interaction.
LEMMA StoreCreate ==
  ASSUME NEW ex, NEW its, NEW next, Store(ex, its, next),
         NEW c \in Interaction, c.in = Null, c.out = Null, c.count = 0
  PROVE  Store(ex, Append(its, c), next)
<1> DEFINE new == Append(its, c)
           n   == Len(its) + 1
<1>1. /\ new \in Seq(Interaction) /\ n \in Nat /\ n \notin DOMAIN its
      /\ DOMAIN its = 1 .. Len(its) /\ DOMAIN new = DOMAIN its \cup {n}
      /\ new[n] = c
      /\ \A i \in DOMAIN its : new[i] = its[i]
  BY DEF Store
<1> HIDE DEF new, n
<1>2. Own(ex, n) = {}
  BY <1>1 DEF Own, Store
<1>3. Fits(c, n, ex)
  BY <1>2, FS_EmptySet DEF Fits, Null
<1>4. \A i \in DOMAIN new : Fits(new[i], i, ex)
  BY <1>1, <1>3 DEF Store
<1>5. Store(ex, new, next)
  BY <1>1, <1>4 DEF Store
<1> QED
  BY <1>5 DEF new

\* An interaction is replaced, by one that fits the changed exchanges.
LEMMA StoreReplace ==
  ASSUME NEW ex, NEW its, NEW next, Store(ex, its, next), NEW i \in DOMAIN its,
         NEW fx, NEW m, m \in Nat \ {0}, DOMAIN fx \subseteq 1..(m - 1),
         fx \in [DOMAIN fx -> Exchange],
         \A x \in DOMAIN fx : fx[x].owner = i \/ (x \in DOMAIN ex /\ fx[x] = ex[x]),
         \A x \in DOMAIN ex : ex[x].owner = i \/ (x \in DOMAIN fx /\ fx[x] = ex[x]),
         NEW c \in Interaction, Fits(c, i, fx)
  PROVE  Store(fx, [its EXCEPT ![i] = c], m)
<1> DEFINE new == [its EXCEPT ![i] = c]
<1>1. /\ new \in Seq(Interaction) /\ DOMAIN new = DOMAIN its
      /\ new[i] = c
      /\ \A j \in DOMAIN its : j # i => new[j] = its[j]
  BY DEF Store
<1> HIDE DEF new
<1>2. ASSUME NEW j \in DOMAIN its, j # i PROVE Fits(new[j], j, fx)
  <2>1. Own(fx, j) = Own(ex, j) /\ \A x \in Own(ex, j) : fx[x] = ex[x]
    BY <1>2 DEF Own
  <2>2. Fits(its[j], j, ex)
    BY DEF Store
  <2> QED
    BY <1>1, <1>2, <2>1, <2>2 DEF Fits
<1>3. \A j \in DOMAIN new : Fits(new[j], j, fx)
  BY <1>1, <1>2
<1>4. \A x \in DOMAIN fx : fx[x].owner \in DOMAIN new
  BY <1>1 DEF Store
<1>5. Store(fx, new, m)
  BY <1>1, <1>3, <1>4 DEF Store
<1> QED
  BY <1>5 DEF new

\* delete_client_exchange, of exchanges of one interaction.
LEMMA StoreDelete ==
  ASSUME NEW ex, NEW its, NEW next, Store(ex, its, next),
         NEW i \in DOMAIN its, NEW gone, gone \subseteq Own(ex, i)
  PROVE  Store(Cut(ex, gone), [its EXCEPT ![i] = Stripped(its[i], gone)], next)
<1> DEFINE cut == Cut(ex, gone)
           c   == Stripped(its[i], gone)
<1>1. /\ DOMAIN cut = DOMAIN ex \ gone
      /\ \A x \in DOMAIN cut : cut[x] = ex[x]
      /\ cut \in [DOMAIN cut -> Exchange]
  BY DEF Cut, Store
<1>2. Own(cut, i) = Own(ex, i) \ gone
  BY <1>1 DEF Own
<1>3. IsFiniteSet(Own(ex, i)) /\ IsFiniteSet(gone)
  BY StoreFinite, FS_Subset
<1>4. its[i] \in Interaction /\ Fits(its[i], i, ex)
  BY DEF Store
<1>5. /\ c \in Interaction
      /\ c.in = NoLonger(its[i].in, gone) /\ c.out = NoLonger(its[i].out, gone)
      /\ c.count = its[i].count - Cardinality(gone)
  BY <1>3, <1>4, StrippedType
<1> HIDE DEF cut, c
<1>6. {c.in, c.out} \ {Null} = Own(cut, i)
  BY <1>2, <1>4, <1>5 DEF Fits, NoLonger
<1>7. c.count = Cardinality(Own(cut, i))
  <2>1. gone = Own(ex, i) \cap gone
    OBVIOUS
  <2>2. Cardinality(Own(ex, i) \ gone) = Cardinality(Own(ex, i)) - Cardinality(gone)
    BY <1>3, <2>1, FS_Difference
  <2> QED
    BY <1>2, <1>4, <1>5, <2>2 DEF Fits
<1>8. \A x \in Own(cut, i) : cut[x].origin = IF x = c.in THEN "remote" ELSE "local"
  <2> SUFFICES ASSUME NEW x \in Own(cut, i)
               PROVE  cut[x].origin = IF x = c.in THEN "remote" ELSE "local"
    OBVIOUS
  <2>1. x \in Own(ex, i) /\ x \notin gone /\ cut[x] = ex[x] /\ x # Null
    BY <1>1, <1>2, StoreFinite DEF Own
  <2>2. x = c.in <=> x = its[i].in
    BY <1>5, <2>1 DEF NoLonger
  <2> QED
    BY <1>4, <2>1, <2>2 DEF Fits
<1>9. Fits(c, i, cut)
  BY <1>6, <1>7, <1>8 DEF Fits
<1>10. \A x \in DOMAIN ex : ex[x].owner = i \/ (x \in DOMAIN cut /\ cut[x] = ex[x])
  BY <1>1 DEF Own
<1>11. Store(cut, [its EXCEPT ![i] = c], next)
  <2>1. next \in Nat \ {0} /\ DOMAIN cut \subseteq 1 .. (next - 1)
    BY <1>1 DEF Store
  <2> QED
    BY <1>1, <1>5, <1>9, <1>10, <2>1, StoreReplace
<1> QED
  BY <1>11 DEF cut, c

\* add_client_exchange, with create_incoming_exchange or create_outgoing_exchange,
\* of an interaction that has none of the kind.
LEMMA StoreAdd ==
  ASSUME NEW ex, NEW its, NEW next, Store(ex, its, next),
         NEW i \in DOMAIN its, NEW e \in Exchange, e.owner = i,
         NEW c \in Interaction, c.count = its[i].count + 1,
         \/ /\ e.origin = "remote" /\ its[i].in = Null
            /\ c.in = next /\ c.out = its[i].out
         \/ /\ e.origin = "local" /\ its[i].out = Null
            /\ c.out = next /\ c.in = its[i].in
  PROVE  Store(With(ex, next, e), [its EXCEPT ![i] = c], next + 1)
<1> DEFINE put == With(ex, next, e)
<1>1. /\ next \in Nat \ {0} /\ next \notin DOMAIN ex
      /\ IsFiniteSet(Own(ex, i)) /\ Null \notin DOMAIN ex /\ next # Null
  BY StoreFinite DEF Store, Null
<1>2. /\ DOMAIN put = DOMAIN ex \cup {next}
      /\ put[next] = e
      /\ \A x \in DOMAIN ex : put[x] = ex[x]
      /\ put \in [DOMAIN put -> Exchange]
  BY <1>1 DEF With, Store
<1> HIDE DEF put
<1>3. Own(put, i) = Own(ex, i) \cup {next} /\ next \notin Own(ex, i)
  BY <1>1, <1>2 DEF Own
<1>4. Fits(its[i], i, ex) /\ its[i] \in Interaction
  BY DEF Store
<1>5. {c.in, c.out} \ {Null} = Own(put, i)
  BY <1>1, <1>3, <1>4 DEF Fits
<1>6. c.count = Cardinality(Own(put, i))
  <2>1. Cardinality(Own(ex, i) \cup {next}) = Cardinality(Own(ex, i)) + 1
    BY <1>1, <1>3, FS_AddElement
  <2> QED
    BY <1>3, <1>4, <2>1, Zenon DEF Fits
<1>7. \A x \in Own(put, i) : put[x].origin = IF x = c.in THEN "remote" ELSE "local"
  <2> SUFFICES ASSUME NEW x \in Own(put, i)
               PROVE  put[x].origin = IF x = c.in THEN "remote" ELSE "local"
    OBVIOUS
  <2>1. CASE x = next
    <3>1. its[i].in # next
      BY <1>1, <1>3, <1>4 DEF Fits
    <3> QED
      BY <1>2, <2>1, <3>1
  <2>2. CASE x # next
    <3>1. x \in Own(ex, i) /\ put[x] = ex[x] /\ x # Null
      BY <1>1, <1>2, <1>3, <2>2 DEF Own
    <3>2. x = c.in <=> x = its[i].in
      BY <2>2, <3>1
    <3> QED
      BY <1>4, <3>1, <3>2 DEF Fits
  <2> QED
    BY <2>1, <2>2
<1>8. Fits(c, i, put)
  BY <1>5, <1>6, <1>7 DEF Fits
<1>9. /\ next + 1 \in Nat \ {0}
      /\ DOMAIN put \subseteq 1 .. ((next + 1) - 1)
  BY <1>1, <1>2 DEF Store
<1>10. \A x \in DOMAIN put : put[x].owner = i \/ (x \in DOMAIN ex /\ put[x] = ex[x])
  BY <1>2
<1>11. Store(put, [its EXCEPT ![i] = c], next + 1)
  BY <1>2, <1>8, <1>9, <1>10, StoreReplace
<1> QED
  BY <1>11 DEF put

(***************************************************************************)
(* The invariant.                                                          *)
(***************************************************************************)
StoreInv == Store(exchanges, interactions, nextExchange)

Notification == [request : Requests, message : AnswerMessage]

OthersOK ==
  /\ multicasts \in Seq(Requests)
  /\ midCounter \in Mid
  /\ wire \subseteq SentMessage /\ answers \subseteq AnswerMessage
  /\ arrived \subseteq answers /\ again \subseteq answers
  /\ notified \subseteq Notification

ClientInv == StoreInv /\ OthersOK

LEMMA TypeParts == ClientInv => TypeOK
<1> SUFFICES ASSUME ClientInv PROVE TypeOK
  OBVIOUS
<1>1. /\ DOMAIN exchanges \subseteq 1..(nextExchange - 1)
      /\ exchanges \in [DOMAIN exchanges -> Exchange]
      /\ interactions \in Seq(Interaction)
      /\ nextExchange \in Nat \ {0}
  BY Zenon DEF ClientInv, StoreInv, Store
<1> QED
  BY <1>1, Zenon DEF ClientInv, OthersOK, TypeOK, Exchange, Interaction, Notification

LEMMA StoreMeans == ClientInv => StoreConsistent
<1> SUFFICES ASSUME ClientInv PROVE StoreConsistent
  OBVIOUS
<1>1. \A i : Owned(i) = Own(exchanges, i)
  BY DEF Owned, Own
<1>2. /\ \A x \in DOMAIN exchanges : exchanges[x].owner \in DOMAIN interactions
      /\ \A i \in DOMAIN interactions : Fits(interactions[i], i, exchanges)
  BY Zenon DEF ClientInv, StoreInv, Store
<1> QED
  BY <1>1, <1>2, Zenon DEF StoreConsistent, Fits

(***************************************************************************)
(* What the handlers compute.                                              *)
(***************************************************************************)
LEMMA NextIdType ==
  ASSUME OthersOK, NEW mid \in Mid, NextId(mid)
  PROVE  midCounter' \in Mid
<1>1. MaxMid \in Nat /\ mid \in Nat /\ midCounter' = (mid + 1) % (MaxMid + 1)
  BY ClientAssumption DEF NextId, Mid
<1> QED
  BY <1>1, SMT DEF Mid

LEMMA NewInteraction ==
  ASSUME NEW r \in Requests, NEW p \in Peer
  PROVE  /\ ClientInteraction(r, p) \in Interaction
         /\ ClientInteraction(r, p).in = Null
         /\ ClientInteraction(r, p).out = Null
         /\ ClientInteraction(r, p).count = 0
<1>1. r.token \in Token
  BY ClientAssumption DEF Request
<1> QED
  BY <1>1 DEF ClientInteraction, Interaction, Null

LEMMA Pointing ==
  ASSUME NEW c \in Interaction, NEW n \in Nat
  PROVE  /\ [c EXCEPT !.out = n, !.count = 1] \in Interaction
         /\ [c EXCEPT !.out = n, !.count = 1].in = c.in
         /\ [c EXCEPT !.out = n, !.count = 1].out = n
         /\ [c EXCEPT !.out = n, !.count = 1].count = 1
         /\ [c EXCEPT !.in = n, !.count = @ + 1] \in Interaction
         /\ [c EXCEPT !.in = n, !.count = @ + 1].out = c.out
         /\ [c EXCEPT !.in = n, !.count = @ + 1].in = n
         /\ [c EXCEPT !.in = n, !.count = @ + 1].count = c.count + 1
<1>1. ASSUME NEW k \in Int
      PROVE  /\ [c EXCEPT !.out = n, !.count = k] \in Interaction
             /\ [c EXCEPT !.out = n, !.count = k].in = c.in
             /\ [c EXCEPT !.out = n, !.count = k].out = n
             /\ [c EXCEPT !.out = n, !.count = k].count = k
             /\ [c EXCEPT !.in = n, !.count = k] \in Interaction
             /\ [c EXCEPT !.in = n, !.count = k].out = c.out
             /\ [c EXCEPT !.in = n, !.count = k].in = n
             /\ [c EXCEPT !.in = n, !.count = k].count = k
  BY <1>1 DEF Interaction
<1>2. 1 \in Int /\ c.count + 1 \in Int
  BY DEF Interaction
<1>3. [c EXCEPT !.in = n, !.count = @ + 1] = [c EXCEPT !.in = n, !.count = c.count + 1]
  BY DEF Interaction
<1> QED
  BY <1>1, <1>2, <1>3, Zenon

LEMMA ReplyType ==
  ASSUME NEW a \in AnswerMessage
  PROVE  Reply(a) \subseteq SentMessage
<1>1. a.from \in Peer /\ a.mid \in Mid
  BY DEF AnswerMessage
<1>2. Sent(a.from, "ACK", a.mid, NoToken) \in SentMessage
  BY <1>1 DEF Sent, SentMessage
<1> QED
  BY <1>2, Zenon DEF Reply

\* An interaction replaced at the end of a list, and twice at one place.
LEMMA Replaced_twice ==
  ASSUME NEW S, NEW s \in Seq(S), NEW c \in S, NEW d \in S
  PROVE  /\ [Append(s, c) EXCEPT ![Len(s) + 1] = d] = Append(s, d)
         /\ \A i \in DOMAIN s : [[s EXCEPT ![i] = c] EXCEPT ![i] = d] = [s EXCEPT ![i] = d]
<1>1. [Append(s, c) EXCEPT ![Len(s) + 1] = d] = Append(s, d)
  <2>1. /\ Append(s, c) \in Seq(S) /\ Append(s, d) \in Seq(S)
        /\ DOMAIN Append(s, c) = 1 .. (Len(s) + 1)
        /\ DOMAIN Append(s, d) = 1 .. (Len(s) + 1)
        /\ Append(s, d)[Len(s) + 1] = d
        /\ \A j \in 1 .. (Len(s) + 1) :
             j # Len(s) + 1 => Append(s, c)[j] = s[j] /\ Append(s, d)[j] = s[j]
    BY SMT
  <2>2. Append(s, d) = [j \in 1 .. (Len(s) + 1) |-> Append(s, d)[j]]
    <3>1. ASSUME NEW t \in Seq(S) PROVE t \in [1 .. Len(t) -> S]
      BY LenProperties
    <3>2. ASSUME NEW t \in Seq(S) PROVE t = [j \in DOMAIN t |-> t[j]]
      BY <3>1, Zenon
    <3> QED
      BY <2>1, <3>2, Zenon
  <2>3. ASSUME NEW f, NEW g, NEW n, NEW D, DOMAIN f = D, g = [j \in D |-> g[j]], g[n] = d,
               \A j \in D : j # n => f[j] = g[j]
        PROVE  [f EXCEPT ![n] = d] = g
    BY <2>3, Zenon
  <2> QED
    BY <2>1, <2>2, <2>3, Zenon
<1>2. ASSUME NEW f, NEW i
      PROVE  [[f EXCEPT ![i] = c] EXCEPT ![i] = d] = [f EXCEPT ![i] = d]
  BY Zenon
<1> QED
  BY <1>1, <1>2, Zenon

LEMMA Smallest ==
  ASSUME NEW S, S \subseteq Nat, S # {}
  PROVE  First(S) \in S
<1>1. PICK i \in S : \A j \in S : ~(<<j, i>> \in OpToRel(<, Nat))
  BY NatLessThanWellFounded, WFMin
<1>2. \A j \in S : i <= j
  <2> SUFFICES ASSUME NEW j \in S, ~(i <= j) PROVE FALSE
    OBVIOUS
  <2>1. j < i /\ i \in Nat /\ j \in Nat
    OBVIOUS
  <2> QED
    BY <1>1, <2>1 DEF OpToRel
<1> QED
  BY <1>1, <1>2 DEF First

\* The interaction a response is handled in.
LEMMA PlaceFound ==
  ASSUME ClientInv, NEW a \in answers, Known(a) # {} \/ IsMulticastToken(a)
  PROVE  /\ Store(exchanges, WithInteraction(a), nextExchange)
         /\ Place(a) \in DOMAIN WithInteraction(a)
<1>1. /\ StoreInv /\ interactions \in Seq(Interaction)
      /\ a.from \in Peer /\ multicasts \in Seq(Requests)
  BY DEF ClientInv, StoreInv, Store, OthersOK, AnswerMessage
<1>2. CASE Known(a) # {}
  <2>1. Known(a) \subseteq DOMAIN interactions /\ DOMAIN interactions \subseteq Nat
    <3>1. Known(a) \subseteq DOMAIN interactions
      BY DEF Known
    <3>2. DOMAIN interactions = 1 .. Len(interactions) /\ Len(interactions) \in Nat
      BY <1>1
    <3> QED
      BY <3>1, <3>2
  <2>2. First(Known(a)) \in Known(a)
    BY <1>2, <2>1, Smallest
  <2>3. WithInteraction(a) = interactions /\ Place(a) = First(Known(a))
    BY <1>2 DEF WithInteraction, Place
  <2> QED
    BY <1>1, <2>1, <2>2, <2>3 DEF StoreInv
<1>3. CASE Known(a) = {}
  <2>1. MulticastOf(a) \in Requests
    <3>1. \E r \in Requests : r.token = a.token
      BY <1>1, <1>3 DEF IsMulticastToken
    <3> QED
      BY <3>1 DEF MulticastOf
  <2> DEFINE c == ClientInteraction(MulticastOf(a), a.from)
  <2>2. c \in Interaction /\ c.in = Null /\ c.out = Null /\ c.count = 0
    BY <1>1, <2>1, NewInteraction
  <2>3. WithInteraction(a) = Append(interactions, c) /\ Place(a) = Len(interactions) + 1
    BY <1>3 DEF WithInteraction, Place
  <2> HIDE DEF c
  <2>4. Store(exchanges, Append(interactions, c), nextExchange)
    BY <1>1, <2>2, StoreCreate DEF StoreInv
  <2>5. Len(interactions) + 1 \in DOMAIN Append(interactions, c)
    BY <1>1, <2>2
  <2> QED
    BY <2>3, <2>4, <2>5
<1> QED
  BY <1>2, <1>3

(***************************************************************************)
(* The actions.                                                            *)
(***************************************************************************)
LEMMA RequestParts ==
  ASSUME NEW r \in Requests
  PROVE  r.token \in Token /\ r.to \in Peer \cup {Group} /\ r.con \in BOOLEAN
BY ClientAssumption DEF Request

LEMMA UnicastInv ==
  ASSUME ClientInv, NEW r \in Requests, SendUnicast(r)
  PROVE  ClientInv'
<1>1. PICK mid \in Mid :
        LET i == Len(interactions) + 1
            m == Sent(r.to, IF r.con THEN "CON" ELSE "NON", mid, r.token)
        IN  /\ NextId(mid)
            /\ interactions' = Append(interactions,
                 [ClientInteraction(r, r.to) EXCEPT !.out = nextExchange, !.count = 1])
            /\ exchanges' = [x \in DOMAIN exchanges \cup {nextExchange} |->
                 IF x = nextExchange THEN LocalExchange(i, m) ELSE exchanges[x]]
            /\ wire' = wire \cup {m}
  BY Zenon DEF SendUnicast
<1> DEFINE i == Len(interactions) + 1
           m == Sent(r.to, IF r.con THEN "CON" ELSE "NON", mid, r.token)
           c == ClientInteraction(r, r.to)
           d == [c EXCEPT !.out = nextExchange, !.count = 1]
           e == LocalExchange(i, m)
<1>2. /\ Store(exchanges, interactions, nextExchange) /\ OthersOK
      /\ interactions \in Seq(Interaction) /\ nextExchange \in Nat
  BY DEF ClientInv, StoreInv, Store
<1>3. r.to \in Peer /\ r.token \in Token
  BY RequestParts DEF SendUnicast
<1>4. c \in Interaction /\ c.in = Null /\ c.out = Null /\ c.count = 0
  BY <1>3, NewInteraction
<1>5. m \in SentMessage /\ m.to = r.to /\ m.mid = mid
  BY <1>3 DEF Sent, SentMessage
<1>6. i \in Nat
  BY <1>2
<1> HIDE DEF c, m, i
<1>7. d \in Interaction /\ d.in = Null /\ d.out = nextExchange /\ d.count = 1
  BY <1>2, <1>4, Pointing, ZenonT(30)
<1>8. e \in Exchange /\ e.owner = i /\ e.origin = "local"
  BY <1>3, <1>5, <1>6 DEF LocalExchange, Exchange
<1> HIDE DEF d, e
<1>9. Store(exchanges, Append(interactions, c), nextExchange)
  BY <1>2, <1>4, StoreCreate
<1>10. i \in DOMAIN Append(interactions, c) /\ Append(interactions, c)[i] = c
  BY <1>2, <1>4 DEF i
<1>11. Store(With(exchanges, nextExchange, e), [Append(interactions, c) EXCEPT ![i] = d],
             nextExchange + 1)
  <2>1. /\ d.count = Append(interactions, c)[i].count + 1
        /\ e.origin = "local" /\ Append(interactions, c)[i].out = Null
        /\ d.out = nextExchange /\ d.in = Append(interactions, c)[i].in
    BY <1>4, <1>7, <1>8, <1>10
  <2> QED
    BY <1>7, <1>8, <1>9, <1>10, <2>1, StoreAdd
<1>12. [Append(interactions, c) EXCEPT ![i] = d] = Append(interactions, d)
  BY <1>2, <1>4, <1>7, Replaced_twice DEF i
<1>13. StoreInv'
  <2>1. interactions' = Append(interactions, d)
    BY <1>1, Zenon DEF d, c
  <2>2. exchanges' = With(exchanges, nextExchange, e)
    BY <1>1, Zenon DEF With, e, i, m
  <2>3. nextExchange' = nextExchange + 1
    BY Zenon DEF SendUnicast
  <2> QED
    BY <1>11, <1>12, <2>1, <2>2, <2>3, Zenon DEF StoreInv
<1>14. OthersOK'
  <2>1. NextId(mid) /\ wire' = wire \cup {m}
    BY <1>1, Zenon DEF m
  <2>2. midCounter' \in Mid
    BY <1>2, <2>1, NextIdType
  <2>3. UNCHANGED <<multicasts, answers, arrived, again, notified>>
    BY Zenon DEF SendUnicast, history
  <2> QED
    BY <1>2, <1>5, <2>1, <2>2, <2>3 DEF OthersOK
<1> QED
  BY <1>13, <1>14 DEF ClientInv

LEMMA MulticastInv ==
  ASSUME ClientInv, NEW r \in Requests, SendMulticast(r)
  PROVE  ClientInv'
<1>1. StoreInv'
  BY Zenon DEF SendMulticast, ClientInv, StoreInv
<1>2. PICK mid \in Mid : NextId(mid) /\ wire' = wire \cup {Sent(Group, "NON", mid, r.token)}
  BY Zenon DEF SendMulticast
<1>3. /\ multicasts' = Append(multicasts, r)
      /\ UNCHANGED <<answers, arrived, again, notified>>
  BY Zenon DEF SendMulticast, history
<1>4. Sent(Group, "NON", mid, r.token) \in SentMessage
  BY RequestParts DEF Sent, SentMessage
<1>5. midCounter' \in Mid
  BY <1>2, NextIdType DEF ClientInv
<1>6. OthersOK'
  BY <1>2, <1>3, <1>4, <1>5 DEF OthersOK, ClientInv
<1> QED
  BY <1>1, <1>6 DEF ClientInv

LEMMA PeerInv ==
  ASSUME ClientInv, NEW p \in Peer, PeerAcknowledges(p) \/ PeerAnswers(p)
  PROVE  ClientInv'
<1>1. UNCHANGED <<store, midCounter, wire, history>>
  BY DEF PeerAcknowledges, PeerAnswers
<1>2. StoreInv'
  BY <1>1, Zenon DEF store, ClientInv, StoreInv
<1>3. wire \subseteq SentMessage /\ PeerMid \subseteq Mid
  BY ClientAssumption DEF ClientInv, OthersOK
<1>4. \A m \in SentMessage : \A type \in {"CON", "NON", "ACK", "RST"}, mid \in Mid \cup {m.mid} :
        \A token \in {NoToken, m.token} : Answer(p, type, mid, token) \in AnswerMessage
  <2> SUFFICES ASSUME NEW m \in SentMessage, NEW type \in {"CON", "NON", "ACK", "RST"},
                      NEW mid \in Mid \cup {m.mid}, NEW token \in {NoToken, m.token}
               PROVE  Answer(p, type, mid, token) \in AnswerMessage
    OBVIOUS
  <2>1. mid \in Mid /\ token \in Token \cup {NoToken}
    BY DEF SentMessage
  <2> QED
    BY <2>1 DEF Answer, AnswerMessage
<1>5. PICK a \in AnswerMessage : answers' = answers \cup {a}
  <2>1. CASE PeerAcknowledges(p)
    BY <2>1, <1>3, <1>4 DEF PeerAcknowledges
  <2>2. CASE PeerAnswers(p)
    BY <2>2, <1>3, <1>4 DEF PeerAnswers
  <2> QED
    BY <2>1, <2>2
<1>6. OthersOK'
  BY <1>1, <1>5 DEF history, store, ClientInv, OthersOK
<1> QED
  BY <1>2, <1>6 DEF ClientInv

LEMMA NotifyType ==
  ASSUME OthersOK, NEW r \in Requests, NEW a \in answers, Notify(r, a)
  PROVE  notified' \subseteq Notification /\ again' \subseteq answers
<1>1. [request |-> r, message |-> a] \in Notification
  BY DEF OthersOK, Notification
<1> QED
  BY <1>1, Zenon DEF OthersOK, Notify

\* What one response does to the store.
LEMMA ResponseStore ==
  ASSUME ClientInv, NEW a \in answers, Known(a) # {} \/ IsMulticastToken(a),
         receive_response(a)
  PROVE  StoreInv' /\ WithInteraction(a)[Place(a)].request \in Requests
<1> DEFINE i    == Place(a)
           w    == WithInteraction(a)
           gone == Replaced(a, w[i])
           c    == Stripped(w[i], gone)
           d    == [c EXCEPT !.in = nextExchange, !.count = @ + 1]
           e    == RemoteExchange(i, a)
<1>1. /\ IF a.type \in {"CON", "NON"}
         THEN /\ exchanges' = [x \in DOMAIN Remaining(gone) \cup {nextExchange} |->
                   IF x = nextExchange THEN e ELSE exchanges[x]]
              /\ interactions' = [w EXCEPT ![i] = d]
              /\ nextExchange' = nextExchange + 1
         ELSE /\ exchanges' = Remaining(gone)
              /\ interactions' = [w EXCEPT ![i] = c]
              /\ UNCHANGED nextExchange
  BY Zenon DEF receive_response, Stripped
<1>2. Store(exchanges, w, nextExchange) /\ i \in DOMAIN w
  BY PlaceFound
<1>3. /\ w \in Seq(Interaction) /\ nextExchange \in Nat
      /\ Fits(w[i], i, exchanges)
  BY <1>2, Zenon DEF Store
<1>4. w[i] \in Interaction /\ i \in Nat
  <2> HIDE DEF w, i
  <2> QED
    BY <1>2, <1>3
<1>5. a.from \in Peer /\ a.mid \in Mid /\ a.type \in {"CON", "NON", "ACK", "RST"}
  BY DEF ClientInv, OthersOK, AnswerMessage
<1>6. e \in Exchange /\ e.owner = i /\ e.origin = "remote"
  <2> HIDE DEF i
  <2>1. Reply(a) \subseteq SentMessage
    BY ReplyType DEF ClientInv, OthersOK
  <2> QED
    BY <1>4, <1>5, <2>1 DEF RemoteExchange, Exchange
<1>7. /\ gone \subseteq Own(exchanges, i)
      /\ a.type \in {"CON", "NON"} => NoLonger(w[i].in, gone) = Null
  <2> HIDE DEF w, i
  <2> QED
    BY <1>3, Zenon DEF Replaced, Fits, NoLonger
<1>8. IsFiniteSet(gone)
  BY <1>2, <1>7, StoreFinite, FS_Subset
<1> HIDE DEF w, i, gone
<1>9. c \in Interaction /\ c.in = NoLonger(w[i].in, gone)
  BY <1>4, <1>8, StrippedType
<1>10. Store(Cut(exchanges, gone), [w EXCEPT ![i] = c], nextExchange)
  BY <1>2, <1>7, StoreDelete DEF c
<1>11. Remaining(gone) = Cut(exchanges, gone)
  BY Zenon DEF Remaining, Cut
<1> HIDE DEF c, e
<1>12. CASE a.type \in {"CON", "NON"}
  <2>1. d \in Interaction /\ d.in = nextExchange /\ d.out = c.out /\ d.count = c.count + 1
    BY <1>3, <1>9, Pointing, Zenon
  <2> HIDE DEF d
  <2>2. i \in DOMAIN [w EXCEPT ![i] = c] /\ [w EXCEPT ![i] = c][i] = c
    BY <1>2, Zenon
  <2>3. Store(With(Cut(exchanges, gone), nextExchange, e), [[w EXCEPT ![i] = c] EXCEPT ![i] = d],
              nextExchange + 1)
    <3>1. c.in = Null
      BY <1>7, <1>9, <1>12
    <3>2. ASSUME NEW v, v = [w EXCEPT ![i] = c]
          PROVE  Store(With(Cut(exchanges, gone), nextExchange, e), [v EXCEPT ![i] = d],
                       nextExchange + 1)
      <4>1. Store(Cut(exchanges, gone), v, nextExchange) /\ i \in DOMAIN v /\ v[i] = c
        BY <1>10, <2>2, <3>2, Zenon
      <4> QED
        BY <1>6, <2>1, <3>1, <4>1, StoreAdd
    <3> QED
      BY <3>2, Zenon
  <2>4. [[w EXCEPT ![i] = c] EXCEPT ![i] = d] = [w EXCEPT ![i] = d]
    BY <1>2, <1>3, <1>9, <2>1, Replaced_twice
  <2>5. exchanges' = With(Cut(exchanges, gone), nextExchange, e)
    <3>1. \A x \in DOMAIN Cut(exchanges, gone) : Cut(exchanges, gone)[x] = exchanges[x]
      BY Zenon DEF Cut
    <3> QED
      BY <1>1, <1>11, <1>12, <3>1, Zenon DEF With
  <2> QED
    BY <1>1, <1>4, <1>12, <2>3, <2>4, <2>5 DEF StoreInv, Interaction, w, i
<1>13. CASE a.type \notin {"CON", "NON"}
  BY <1>1, <1>4, <1>10, <1>11, <1>13 DEF StoreInv, Interaction, w, i
<1> QED
  BY <1>12, <1>13

LEMMA ResponseInv ==
  ASSUME ClientInv, NEW a \in answers, ReceiveResponse(a)
  PROVE  ClientInv'
<1>1. /\ Known(a) # {} \/ IsMulticastToken(a)
      /\ receive_response(a)
  BY DEF ReceiveResponse
<1>2. StoreInv' /\ WithInteraction(a)[Place(a)].request \in Requests
  BY <1>1, ResponseStore
<1>3. /\ Notify(WithInteraction(a)[Place(a)].request, a)
      /\ arrived' = arrived \cup {a}
      /\ wire' = wire \cup Reply(a) \/ wire' = wire
      /\ UNCHANGED <<multicasts, midCounter, answers>>
  BY <1>1, Zenon DEF receive_response
<1>4. notified' \subseteq Notification /\ again' \subseteq answers
  BY <1>2, <1>3, NotifyType DEF ClientInv
<1>5. Reply(a) \subseteq SentMessage
  BY ReplyType DEF ClientInv, OthersOK
<1>6. OthersOK'
  BY <1>3, <1>4, <1>5 DEF ClientInv, OthersOK
<1> QED
  BY <1>2, <1>6 DEF ClientInv

LEMMA DuplicateInv ==
  ASSUME ClientInv, NEW a \in answers, ReceiveDuplicate(a)
  PROVE  ClientInv'
<1>1. StoreInv'
  <2>1. Store(exchanges, WithInteraction(a), nextExchange)
    BY PlaceFound DEF ReceiveDuplicate
  <2> QED
    BY <2>1, Zenon DEF ReceiveDuplicate, StoreInv
<1>2. PICK x \in DOMAIN exchanges : wire' = wire \cup exchanges[x].msg
  BY DEF ReceiveDuplicate, find_client_exchange
<1>3. exchanges[x].msg \subseteq SentMessage
  <2>1. exchanges[x] \in Exchange
    BY DEF ClientInv, StoreInv, Store
  <2> QED
    BY <2>1 DEF Exchange
<1>4. OthersOK'
  BY <1>2, <1>3 DEF ReceiveDuplicate, ClientInv, OthersOK
<1> QED
  BY <1>1, <1>4 DEF ClientInv

LEMMA EmptyInv ==
  ASSUME ClientInv, NEW a \in answers, ReceiveEmpty(a)
  PROVE  ClientInv'
<1>1. PICK x \in DOMAIN exchanges :
        LET i == exchanges[x].owner
        IN  /\ exchanges' = Remaining({x})
            /\ interactions' = [interactions EXCEPT ![i] = Without(i, {x})]
            /\ \/ Notify(interactions[i].request, a)
               \/ UNCHANGED <<notified, again>>
  BY DEF ReceiveEmpty, find_client_exchange
<1> DEFINE i == exchanges[x].owner
<1>2. /\ Store(exchanges, interactions, nextExchange) /\ OthersOK
      /\ i \in DOMAIN interactions /\ interactions[i] \in Interaction
  <2>1. Store(exchanges, interactions, nextExchange) /\ OthersOK
    BY DEF ClientInv, StoreInv
  <2>2. i \in DOMAIN interactions /\ interactions \in Seq(Interaction)
    BY <2>1, Zenon DEF Store
  <2> QED
    BY <2>1, <2>2
<1>3. {x} \subseteq Own(exchanges, i)
  BY DEF Own
<1>4. Without(i, {x}) = Stripped(interactions[i], {x})
  <2>1. {y \in {x} : y \in DOMAIN exchanges} = {x}
    OBVIOUS
  <2> QED
    BY <2>1, Zenon DEF Without, Stripped
<1>5. Remaining({x}) = Cut(exchanges, {x})
  BY Zenon DEF Remaining, Cut
<1>6. StoreInv'
  <2>1. Store(Cut(exchanges, {x}),
              [interactions EXCEPT ![i] = Stripped(interactions[i], {x})], nextExchange)
    BY <1>2, <1>3, StoreDelete
  <2> QED
    BY <1>1, <1>4, <1>5, <2>1, Zenon DEF StoreInv, ReceiveEmpty
<1>7. interactions[i].request \in Requests
  BY <1>2 DEF Interaction
<1>8. notified' \subseteq Notification /\ again' \subseteq answers
  <2>1. CASE Notify(interactions[i].request, a)
    BY <1>2, <1>7, <2>1, NotifyType
  <2>2. CASE UNCHANGED <<notified, again>>
    BY <1>2, <2>2 DEF OthersOK
  <2> QED
    BY <1>1, <2>1, <2>2
<1>9. UNCHANGED <<multicasts, midCounter, wire, answers, arrived>>
  BY DEF ReceiveEmpty
<1>10. OthersOK'
  BY <1>2, <1>8, <1>9 DEF OthersOK
<1> QED
  BY <1>6, <1>10 DEF ClientInv

LEMMA ClientInvInit == Init => ClientInv
<1> SUFFICES ASSUME Init PROVE ClientInv
  OBVIOUS
<1>1. DOMAIN exchanges = {} /\ DOMAIN interactions = {} /\ interactions \in Seq(Interaction)
  BY DEF Init
<1>2. StoreInv
  BY <1>1 DEF Init, StoreInv, Store
<1>3. OthersOK
  BY ClientAssumption DEF Init, OthersOK, Mid
<1> QED
  BY <1>2, <1>3 DEF ClientInv

LEMMA ClientInvNext == ClientInv /\ [Next]_vars => ClientInv'
<1> SUFFICES ASSUME ClientInv, [Next]_vars PROVE ClientInv'
  OBVIOUS
<1>1. CASE UNCHANGED vars
  BY <1>1 DEF vars, store, history, ClientInv, StoreInv, OthersOK
<1> QED
  BY <1>1, UnicastInv, MulticastInv, PeerInv, ResponseInv, DuplicateInv, EmptyInv DEF Next

(***************************************************************************)
(* Every variable of a client keeps its type, whatever the servers send:   *)
(* message ids stay within their width, and nothing but messages is sent.  *)
(***************************************************************************)
THEOREM ClientTypeSafe == Spec => []TypeOK
  BY ClientInvInit, ClientInvNext, TypeParts, PTL DEF Spec

(***************************************************************************)
(* The exchanges and the interactions of a client agree after every        *)
(* request, response, repetition, ACK and RST: no pointer to a freed       *)
(* exchange, no exchange of a freed interaction, and an exact count.       *)
(***************************************************************************)
THEOREM ClientStoreConsistent == Spec => []StoreConsistent
  BY ClientInvInit, ClientInvNext, StoreMeans, PTL DEF Spec

(***************************************************************************)
(* What callbacks are told.                                                *)
(*                                                                         *)
(* The code matches by endpoint and message id, or by endpoint and token,  *)
(* and so it depends on two things it does not control.                    *)
(***************************************************************************)

\* The requests that a response with the token of a multicast may be given to
\* have that token: no other request goes to the group or to a member of it.
Separate ==
  \A r, s \in Requests : r.to = Group => r = s \/ s.to \notin Members \cup {Group}

\* No server has given a response of its own the id of a request that it got.
IdsApart ==
  \A m \in wire, b \in answers :
    m.token # NoToken /\ b.type \in {"CON", "NON"} /\ Reached(b.from, m) => m.mid # b.mid

\* What is sent with a token is a request; a response answers one, a server has
\* one response to each, and gives each an id of its own.
TrafficOK ==
  /\ \A m \in wire :
       \/ m.type = "ACK" /\ m.token = NoToken
       \/ \E r \in Requests : r.token = m.token /\ r.to = m.to
  /\ \A a \in answers :
       /\ a.type \in {"CON", "NON"} => a.token # NoToken
       /\ a.type = "RST" => a.token = NoToken
       /\ \E m \in wire :
            /\ m.token # NoToken /\ Reached(a.from, m)
            /\ IF a.token = NoToken THEN m.mid = a.mid ELSE m.token = a.token
  /\ \A a, b \in answers :
       a.from = b.from => /\ a.token = b.token /\ a.token # NoToken => a = b
                          /\ /\ a.type \in {"CON", "NON"} /\ b.type \in {"CON", "NON"}
                             /\ a.mid = b.mid
                             => a = b
  /\ \A k \in DOMAIN multicasts : multicasts[k].to = Group

\* An interaction is that of its request, with the server asked or a member.
Linked(c) ==
  /\ c.token = c.request.token
  /\ c.endpoint = c.request.to \/ (c.request.to = Group /\ c.endpoint \in Members)

\* An exchange of an interaction is that of its request, or of a response to it
\* that a callback has been told.
Backed(e, c, msgs, ans, told) ==
  /\ e.msg \subseteq msgs
  /\ e.origin = "local" =>
       \E m \in msgs : m.token = c.token /\ m.mid = e.mid /\ m.to = e.peer
  /\ e.origin = "remote" =>
       \E b \in ans :
         /\ b.type \in {"CON", "NON"} /\ is_msg_matched(e, b)
         /\ b.from = c.endpoint
         /\ \E n \in told : n.message = b
         /\ Separate => b.token = c.token

LinksOK ==
  /\ \A i \in DOMAIN interactions : Linked(interactions[i])
  /\ \A x \in DOMAIN exchanges :
       Backed(exchanges[x], interactions[exchanges[x].owner], wire, answers, notified)

\* A callback that was told a confirmable response has the exchange that keeps
\* it from being told again.
Kept(a, ex) == \E x \in DOMAIN ex : ex[x].origin = "remote" /\ is_msg_matched(ex[x], a)

ToldOK ==
  /\ Separate /\ IdsApart =>
       /\ \A n \in notified : n.message.type = "CON" => Kept(n.message, exchanges)
       /\ RightCallback /\ NotifiedOnce
  /\ IdsApart => ResponsesNotified

CallbackInv == TrafficOK /\ LinksOK /\ ToldOK

\* The requests, responses and callbacks there are, there will be.
LEMMA IdsApartBefore ==
  ASSUME wire \subseteq wire', answers \subseteq answers', IdsApart'
  PROVE  IdsApart
<1>1. \A m \in wire', b \in answers' :
        m.token # NoToken /\ b.type \in {"CON", "NON"} /\ Reached(b.from, m) => m.mid # b.mid
  BY DEF IdsApart, Reached
<1> QED
  BY <1>1 DEF IdsApart

\* A response answers a request, of the server that sent it.
LEMMA Asks ==
  ASSUME ClientInv, TrafficOK, NEW a \in answers, a.token # NoToken
  PROVE  \E r \in Requests :
           /\ r.token = a.token
           /\ r.to = a.from \/ (r.to = Group /\ a.from \in Members)
<1>1. PICK m \in wire : m.token = a.token /\ Reached(a.from, m)
  BY DEF TrafficOK
<1>2. PICK r \in Requests : r.token = m.token /\ r.to = m.to
  BY <1>1 DEF TrafficOK
<1> QED
  BY <1>1, <1>2 DEF Reached

Same(c, d) == c.token = d.token /\ c.endpoint = d.endpoint /\ c.request = d.request

LEMMA BackedCarries ==
  ASSUME NEW e, NEW c, NEW d, Same(c, d), NEW msgs, NEW ans, NEW told,
         NEW msgs2, msgs \subseteq msgs2, NEW ans2, ans \subseteq ans2,
         NEW told2, told \subseteq told2, Backed(e, c, msgs, ans, told)
  PROVE  Backed(e, d, msgs2, ans2, told2)
<1>1. e.msg \subseteq msgs2
  BY DEF Backed
<1>2. ASSUME e.origin = "local"
      PROVE  \E m \in msgs2 : m.token = d.token /\ m.mid = e.mid /\ m.to = e.peer
  BY <1>2 DEF Backed, Same
<1>3. ASSUME e.origin = "remote"
      PROVE  \E b \in ans2 :
               /\ b.type \in {"CON", "NON"} /\ is_msg_matched(e, b)
               /\ b.from = d.endpoint
               /\ \E n \in told2 : n.message = b
               /\ Separate => b.token = d.token
  <2>1. PICK b \in ans :
          /\ b.type \in {"CON", "NON"} /\ is_msg_matched(e, b)
          /\ b.from = c.endpoint
          /\ \E n \in told : n.message = b
          /\ Separate => b.token = c.token
    BY <1>3 DEF Backed
  <2> QED
    BY <2>1 DEF Same
<1> QED
  BY <1>1, <1>2, <1>3 DEF Backed

LEMMA LinkedCarries ==
  ASSUME NEW c, NEW d, Same(c, d), Linked(c)
  PROVE  Linked(d)
BY DEF Same, Linked

\* Interactions keep their tokens, endpoints and requests, and new ones are
\* linked; exchanges are as before, or backed.
LEMMA LinksStep ==
  ASSUME ClientInv, LinksOK,
         wire \subseteq wire', answers \subseteq answers', notified \subseteq notified',
         \A i \in DOMAIN interactions' :
           \/ i \in DOMAIN interactions /\ Same(interactions[i], interactions'[i])
           \/ i \notin DOMAIN interactions /\ Linked(interactions'[i]),
         \A i \in DOMAIN interactions : i \in DOMAIN interactions',
         \A x \in DOMAIN exchanges' :
           \/ x \in DOMAIN exchanges /\ exchanges'[x] = exchanges[x]
           \/ Backed(exchanges'[x], interactions'[exchanges'[x].owner], wire', answers', notified')
  PROVE  LinksOK'
<1>1. ASSUME NEW i \in DOMAIN interactions' PROVE Linked(interactions'[i])
  BY <1>1, LinkedCarries DEF LinksOK
<1>2. ASSUME NEW x \in DOMAIN exchanges, x \in DOMAIN exchanges', exchanges'[x] = exchanges[x]
      PROVE  Backed(exchanges'[x], interactions'[exchanges'[x].owner], wire', answers', notified')
  <2>1. exchanges[x].owner \in DOMAIN interactions
    BY Zenon DEF ClientInv, StoreInv, Store
  <2>2. Same(interactions[exchanges[x].owner], interactions'[exchanges[x].owner])
    BY <2>1
  <2>3. Backed(exchanges[x], interactions[exchanges[x].owner], wire, answers, notified)
    BY DEF LinksOK
  <2>4. Backed(exchanges[x], interactions'[exchanges[x].owner], wire', answers', notified')
    BY <2>2, <2>3, BackedCarries
  <2> QED
    BY <1>2, <2>4
<1>3. \A x \in DOMAIN exchanges' :
        Backed(exchanges'[x], interactions'[exchanges'[x].owner], wire', answers', notified')
  BY <1>2
<1>4. (\A i \in DOMAIN interactions : Linked(interactions[i]))'
  BY <1>1 DEF Linked
<1>5. (\A x \in DOMAIN exchanges :
        Backed(exchanges[x], interactions[exchanges[x].owner], wire, answers, notified))'
  BY <1>3 DEF Backed, is_msg_matched
<1> QED
  BY <1>4, <1>5 DEF LinksOK

\* The interaction a response is handled in is that of its request.
LEMMA PlaceMatches ==
  ASSUME ClientInv, TrafficOK, LinksOK, NEW a \in answers, a.token # NoToken,
         Known(a) # {} \/ IsMulticastToken(a)
  PROVE  LET w == WithInteraction(a)
         IN  /\ w[Place(a)].endpoint = a.from
             /\ Separate => w[Place(a)].token = a.token
             /\ \A i \in DOMAIN interactions : i \in DOMAIN w /\ w[i] = interactions[i]
             /\ \A i \in DOMAIN w : Linked(w[i])
<1> DEFINE w == WithInteraction(a)
           i == Place(a)
<1>1. /\ interactions \in Seq(Interaction) /\ multicasts \in Seq(Requests) /\ a.from \in Peer
  BY DEF ClientInv, StoreInv, Store, OthersOK, AnswerMessage
<1>2. PICK r \in Requests : r.token = a.token /\ (r.to = a.from \/ (r.to = Group /\ a.from \in Members))
  BY Asks
<1>3. IsMulticastToken(a) => r.to = Group /\ a.from \in Members /\ MulticastOf(a) = r
  <2> SUFFICES ASSUME IsMulticastToken(a)
               PROVE  r.to = Group /\ a.from \in Members /\ MulticastOf(a) = r
    OBVIOUS
  <2>1. PICK k \in DOMAIN multicasts : multicasts[k].token = a.token
    BY DEF IsMulticastToken
  <2>2. multicasts[k] \in Requests /\ multicasts[k].to = Group
    BY <1>1 DEF TrafficOK
  <2>3. multicasts[k] = r
    BY <1>2, <2>1, <2>2, ClientAssumption
  <2>4. Group \notin Peer
    BY ClientAssumption
  <2>5. \A s \in Requests : s.token = a.token <=> s = r
    BY <1>2, ClientAssumption
  <2> QED
    BY <1>1, <1>2, <2>2, <2>3, <2>4, <2>5 DEF MulticastOf
<1>4. CASE Known(a) # {}
  <2>1. w = interactions /\ i = First(Known(a))
    BY <1>4 DEF WithInteraction, Place
  <2>2. Known(a) \subseteq Nat
    <3>1. DOMAIN interactions = 1 .. Len(interactions) /\ Len(interactions) \in Nat
      BY <1>1
    <3> QED
      BY <3>1 DEF Known
  <2>3. i \in Known(a)
    BY <1>4, <2>1, <2>2, Smallest
  <2> HIDE DEF w, i
  <2>4. i \in DOMAIN interactions /\ interactions[i].endpoint = a.from
    BY <2>3 DEF Known
  <2>5. Linked(interactions[i]) /\ interactions[i].request \in Requests
    <3>1. interactions[i] \in Interaction
      BY <1>1, <2>4
    <3> QED
      BY <2>4, <3>1 DEF LinksOK, Interaction
  <2>6. Separate => interactions[i].token = a.token
    <3>1. CASE IsMulticastToken(a)
      <4>1. r.to = Group /\ a.from \in Members
        BY <1>3, <3>1
      <4>2. interactions[i].request.to \in Members \cup {Group}
        BY <2>4, <2>5, <4>1 DEF Linked
      <4>3. Separate => r = interactions[i].request
        BY <2>5, <4>1, <4>2 DEF Separate
      <4> QED
        BY <1>2, <2>5, <4>3 DEF Linked
    <3>2. CASE ~IsMulticastToken(a)
      BY <2>3, <3>2 DEF Known
    <3> QED
      BY <3>1, <3>2
  <2> QED
    BY <2>1, <2>4, <2>6 DEF LinksOK, w, i
<1>5. CASE Known(a) = {}
  <2> DEFINE c == ClientInteraction(MulticastOf(a), a.from)
  <2>1. w = Append(interactions, c) /\ i = Len(interactions) + 1
    BY <1>5 DEF WithInteraction, Place
  <2>2. r.to = Group /\ a.from \in Members /\ MulticastOf(a) = r
    BY <1>3, <1>5
  <2>3. c.token = a.token /\ c.endpoint = a.from /\ Linked(c)
    BY <1>2, <2>2 DEF ClientInteraction, Linked
  <2>4. c \in Interaction
    BY <1>1, <2>2, NewInteraction
  <2> HIDE DEF c, w, i
  <2>5. /\ w[i] = c /\ DOMAIN w = DOMAIN interactions \cup {i}
        /\ \A j \in DOMAIN interactions : w[j] = interactions[j]
    BY <1>1, <2>1, <2>4
  <2> QED
    BY <2>3, <2>5 DEF LinksOK, w, i
<1> QED
  BY <1>4, <1>5

LEMMA FoundWhenKept ==
  ASSUME ClientInv, NEW a, Kept(a, exchanges)
  PROVE  find_client_exchange(a) # {}
<1> DEFINE S == {x \in DOMAIN exchanges : is_msg_matched(exchanges[x], a)}
<1>1. S \subseteq Nat
  BY DEF ClientInv, StoreInv, Store
<1>2. S # {}
  BY DEF Kept
<1>3. \E x \in S : \A y \in S : x <= y
  <2>1. PICK x \in S : \A y \in S : ~(<<y, x>> \in OpToRel(<, Nat))
    BY <1>1, <1>2, NatLessThanWellFounded, WFMin
  <2>2. ASSUME NEW y \in S PROVE x <= y
    <3>1. x \in Nat /\ y \in Nat
      BY <1>1, <2>1
    <3>2. ~(y < x)
      BY <2>1, <3>1 DEF OpToRel
    <3> QED
      BY <3>1, <3>2
  <2> QED
    BY <2>1, <2>2
<1> QED
  BY <1>3 DEF find_client_exchange

\* Nothing is told, and the exchanges of responses stay.
LEMMA ToldCarries ==
  ASSUME ToldOK, wire \subseteq wire', answers \subseteq answers',
         UNCHANGED <<notified, again, arrived>>,
         \A x \in DOMAIN exchanges :
           exchanges[x].origin = "remote" => x \in DOMAIN exchanges' /\ exchanges'[x] = exchanges[x]
  PROVE  ToldOK'
<1>1. IdsApart' => IdsApart
  BY IdsApartBefore
<1>2. ASSUME NEW a, Kept(a, exchanges) PROVE Kept(a, exchanges')
  BY <1>2 DEF Kept
<1>3. RightCallback => RightCallback'
  BY DEF RightCallback
<1>4. NotifiedOnce => NotifiedOnce'
  BY DEF NotifiedOnce
<1>5. ResponsesNotified => ResponsesNotified'
  BY DEF ResponsesNotified
<1>6. (\A n \in notified : n.message.type = "CON" => Kept(n.message, exchanges))
        => \A n \in notified' : n.message.type = "CON" => Kept(n.message, exchanges')
  BY <1>2
<1>7. Separate /\ IdsApart' =>
        /\ \A n \in notified' : n.message.type = "CON" => Kept(n.message, exchanges')
        /\ RightCallback' /\ NotifiedOnce'
  BY <1>1, <1>3, <1>4, <1>6, Zenon DEF ToldOK
<1>8. IdsApart' => ResponsesNotified'
  BY <1>1, <1>5, Zenon DEF ToldOK
<1>9. (\A n \in notified : n.message.type = "CON" => Kept(n.message, exchanges))'
        <=> \A n \in notified' : n.message.type = "CON" => Kept(n.message, exchanges')
  BY DEF Kept, is_msg_matched
<1> QED
  BY <1>7, <1>8, <1>9 DEF ToldOK, Separate

\* A request is sent.
LEMMA TrafficRequest ==
  ASSUME ClientInv, TrafficOK, NEW r \in Requests, NEW m, m.token = r.token, m.to = r.to,
         wire' = wire \cup {m}, UNCHANGED answers,
         \A k \in DOMAIN multicasts' : multicasts'[k].to = Group
  PROVE  TrafficOK'
<1>1. \A n \in wire' :
        \/ n.type = "ACK" /\ n.token = NoToken
        \/ \E q \in Requests : q.token = n.token /\ q.to = n.to
  BY DEF TrafficOK
<1>2. \A a \in answers' :
        /\ a.type \in {"CON", "NON"} => a.token # NoToken
        /\ a.type = "RST" => a.token = NoToken
        /\ \E n \in wire' :
             /\ n.token # NoToken /\ Reached(a.from, n)
             /\ IF a.token = NoToken THEN n.mid = a.mid ELSE n.token = a.token
  BY DEF TrafficOK
<1>3. \A a, b \in answers' :
        a.from = b.from => /\ a.token = b.token /\ a.token # NoToken => a = b
                           /\ /\ a.type \in {"CON", "NON"} /\ b.type \in {"CON", "NON"}
                              /\ a.mid = b.mid
                              => a = b
  BY DEF TrafficOK
<1> QED
  BY <1>1, <1>2, <1>3 DEF TrafficOK, Reached

\* An answer is sent.
LEMMA TrafficAnswer ==
  ASSUME TrafficOK, NEW a, answers' = answers \cup {a}, UNCHANGED <<wire, multicasts>>,
         a.type \in {"CON", "NON"} => a.token # NoToken,
         a.type = "RST" => a.token = NoToken,
         \E m \in wire :
           /\ m.token # NoToken /\ Reached(a.from, m)
           /\ IF a.token = NoToken THEN m.mid = a.mid ELSE m.token = a.token,
         \A b \in answers : b.from = a.from =>
           /\ b.token = a.token => a.token = NoToken
           /\ a.type \in {"CON", "NON"} /\ b.type \in {"CON", "NON"} => b.mid # a.mid
  PROVE  TrafficOK'
<1>1. \A n \in wire' :
        \/ n.type = "ACK" /\ n.token = NoToken
        \/ \E q \in Requests : q.token = n.token /\ q.to = n.to
  BY DEF TrafficOK
<1>2. \A b \in answers' :
        /\ b.type \in {"CON", "NON"} => b.token # NoToken
        /\ b.type = "RST" => b.token = NoToken
        /\ \E n \in wire' :
             /\ n.token # NoToken /\ Reached(b.from, n)
             /\ IF b.token = NoToken THEN n.mid = b.mid ELSE n.token = b.token
  BY DEF TrafficOK
<1>3. \A b, c \in answers' :
        b.from = c.from => /\ b.token = c.token /\ b.token # NoToken => b = c
                           /\ /\ b.type \in {"CON", "NON"} /\ c.type \in {"CON", "NON"}
                              /\ b.mid = c.mid
                              => b = c
  BY DEF TrafficOK
<1>4. \A k \in DOMAIN multicasts' : multicasts'[k].to = Group
  BY DEF TrafficOK
<1> QED
  BY <1>1, <1>2, <1>3, <1>4 DEF TrafficOK, Reached

\* Nothing is sent but acknowledgements.
LEMMA TrafficAck ==
  ASSUME TrafficOK, wire \subseteq wire', UNCHANGED <<answers, multicasts>>,
         \A m \in wire' : m \in wire \/ (m.type = "ACK" /\ m.token = NoToken)
  PROVE  TrafficOK'
<1>1. \A n \in wire' :
        \/ n.type = "ACK" /\ n.token = NoToken
        \/ \E q \in Requests : q.token = n.token /\ q.to = n.to
  BY DEF TrafficOK
<1>2. \A b \in answers' :
        /\ b.type \in {"CON", "NON"} => b.token # NoToken
        /\ b.type = "RST" => b.token = NoToken
        /\ \E n \in wire' :
             /\ n.token # NoToken /\ Reached(b.from, n)
             /\ IF b.token = NoToken THEN n.mid = b.mid ELSE n.token = b.token
  BY DEF TrafficOK
<1>3. \A b, c \in answers' :
        b.from = c.from => /\ b.token = c.token /\ b.token # NoToken => b = c
                           /\ /\ b.type \in {"CON", "NON"} /\ c.type \in {"CON", "NON"}
                              /\ b.mid = c.mid
                              => b = c
  BY DEF TrafficOK
<1>4. \A k \in DOMAIN multicasts' : multicasts'[k].to = Group
  BY DEF TrafficOK
<1> QED
  BY <1>1, <1>2, <1>3, <1>4 DEF TrafficOK, Reached

LEMMA UnicastCallbacks ==
  ASSUME ClientInv, CallbackInv, NEW r \in Requests, SendUnicast(r)
  PROVE  CallbackInv'
<1>1. PICK mid \in Mid :
        LET i == Len(interactions) + 1
            m == Sent(r.to, IF r.con THEN "CON" ELSE "NON", mid, r.token)
        IN  /\ interactions' = Append(interactions,
                 [ClientInteraction(r, r.to) EXCEPT !.out = nextExchange, !.count = 1])
            /\ exchanges' = [x \in DOMAIN exchanges \cup {nextExchange} |->
                 IF x = nextExchange THEN LocalExchange(i, m) ELSE exchanges[x]]
            /\ wire' = wire \cup {m}
  BY Zenon DEF SendUnicast
<1> DEFINE i == Len(interactions) + 1
           m == Sent(r.to, IF r.con THEN "CON" ELSE "NON", mid, r.token)
           c == [ClientInteraction(r, r.to) EXCEPT !.out = nextExchange, !.count = 1]
           e == LocalExchange(i, m)
<1>2. UNCHANGED <<multicasts, answers, notified, again, arrived>>
  BY Zenon DEF SendUnicast, history
<1>3. m.to = r.to /\ m.mid = mid /\ m.token = r.token
  BY DEF Sent
<1>4. /\ e.origin = "local" /\ e.peer = m.to /\ e.mid = m.mid /\ e.msg = {m} /\ e.owner = i
  <2> HIDE DEF m, i
  <2> QED
    BY DEF LocalExchange
<1>5. /\ c.token = r.token /\ c.endpoint = r.to /\ c.request = r
  BY DEF ClientInteraction
<1>6. /\ exchanges' = [x \in DOMAIN exchanges \cup {nextExchange} |->
                         IF x = nextExchange THEN e ELSE exchanges[x]]
      /\ interactions' = Append(interactions, c)
      /\ wire' = wire \cup {m}
  BY <1>1, Zenon
<1>7. c \in Interaction
  <2>1. r.to \in Peer
    BY RequestParts DEF SendUnicast
  <2>2. nextExchange \in Nat
    BY DEF ClientInv, StoreInv, Store
  <2> QED
    BY <2>1, <2>2, NewInteraction, Pointing, Zenon
<1> HIDE DEF m, c, e
<1>8. /\ i \in DOMAIN interactions' /\ interactions'[i] = c /\ i \notin DOMAIN interactions
      /\ DOMAIN interactions' = DOMAIN interactions \cup {i}
      /\ \A j \in DOMAIN interactions : interactions'[j] = interactions[j]
  <2>1. interactions \in Seq(Interaction)
    BY DEF ClientInv, StoreInv, Store
  <2> QED
    BY <1>6, <1>7, <2>1
<1> HIDE DEF i
<1>9. /\ nextExchange \notin DOMAIN exchanges
      /\ DOMAIN exchanges' = DOMAIN exchanges \cup {nextExchange}
      /\ exchanges'[nextExchange] = e
      /\ \A x \in DOMAIN exchanges : exchanges'[x] = exchanges[x]
  <2>1. nextExchange \notin DOMAIN exchanges
    BY StoreFinite DEF ClientInv, StoreInv
  <2> QED
    BY <1>6, <2>1, Zenon
<1>10. TrafficOK'
  BY <1>2, <1>3, <1>6, TrafficRequest DEF CallbackInv, TrafficOK
<1>11. LinksOK'
  <2>1. Linked(c)
    BY <1>5 DEF Linked
  <2>2. Backed(e, c, wire', answers', notified')
    BY <1>3, <1>4, <1>5, <1>6 DEF Backed
  <2>3. \A j \in DOMAIN interactions : Same(interactions[j], interactions'[j])
    BY <1>8 DEF Same
  <2> QED
    BY <1>2, <1>4, <1>6, <1>8, <1>9, <2>1, <2>2, <2>3, LinksStep DEF CallbackInv
<1>12. ToldOK'
  BY <1>2, <1>6, <1>9, ToldCarries DEF CallbackInv
<1> QED
  BY <1>10, <1>11, <1>12 DEF CallbackInv

LEMMA MulticastCallbacks ==
  ASSUME ClientInv, CallbackInv, NEW r \in Requests, SendMulticast(r)
  PROVE  CallbackInv'
<1>1. PICK mid \in Mid : wire' = wire \cup {Sent(Group, "NON", mid, r.token)}
  BY Zenon DEF SendMulticast
<1>2. /\ r.to = Group
      /\ multicasts' = Append(multicasts, r)
      /\ UNCHANGED <<exchanges, interactions, answers, notified, again, arrived>>
  BY Zenon DEF SendMulticast, history
<1>3. Sent(Group, "NON", mid, r.token).to = r.to /\ Sent(Group, "NON", mid, r.token).token = r.token
  BY <1>2 DEF Sent
<1>4. \A k \in DOMAIN multicasts' : multicasts'[k].to = Group
  <2>1. multicasts \in Seq(Requests)
    BY DEF ClientInv, OthersOK
  <2> QED
    BY <1>2, <2>1 DEF CallbackInv, TrafficOK
<1>5. TrafficOK'
  BY <1>1, <1>2, <1>3, <1>4, TrafficRequest DEF CallbackInv
<1>6. LinksOK'
  BY <1>1, <1>2, LinksStep DEF CallbackInv, Same
<1>7. ToldOK'
  BY <1>1, <1>2, ToldCarries DEF CallbackInv
<1> QED
  BY <1>5, <1>6, <1>7 DEF CallbackInv

LEMMA PeerCallbacks ==
  ASSUME ClientInv, CallbackInv, NEW p \in Peer, PeerAcknowledges(p) \/ PeerAnswers(p)
  PROVE  CallbackInv'
<1>1. UNCHANGED <<exchanges, interactions, multicasts, wire, notified, again, arrived>>
  BY DEF PeerAcknowledges, PeerAnswers, store, history
<1>2. \A m \in wire : m.type = "CON" => m.token # NoToken
  BY ClientAssumption, RequestParts DEF CallbackInv, TrafficOK
<1>3. \E a :
        /\ answers' = answers \cup {a}
        /\ a.type \in {"CON", "NON"} => a.token # NoToken
        /\ a.type = "RST" => a.token = NoToken
        /\ \E m \in wire :
             /\ m.token # NoToken /\ Reached(a.from, m)
             /\ IF a.token = NoToken THEN m.mid = a.mid ELSE m.token = a.token
        /\ \A b \in answers : b.from = a.from =>
             /\ b.token = a.token => a.token = NoToken
             /\ a.type \in {"CON", "NON"} /\ b.type \in {"CON", "NON"} => b.mid # a.mid
  <2>1. ASSUME PeerAcknowledges(p)
        PROVE  \E m \in wire : /\ m.type = "CON" /\ Reached(p, m)
                               /\ answers' = answers \cup {Answer(p, "ACK", m.mid, NoToken)}
    BY <2>1 DEF PeerAcknowledges
  <2>2. CASE PeerAcknowledges(p)
    <3>1. PICK m \in wire : /\ m.type = "CON" /\ Reached(p, m)
                            /\ answers' = answers \cup {Answer(p, "ACK", m.mid, NoToken)}
      BY <2>1, <2>2
    <3> DEFINE a == Answer(p, "ACK", m.mid, NoToken)
    <3>2. a.from = p /\ a.type = "ACK" /\ a.mid = m.mid /\ a.token = NoToken
      BY DEF Answer
    <3> HIDE DEF a
    <3> QED
      BY <1>2, <3>1, <3>2 DEF a
  <2>3. ASSUME PeerAnswers(p)
        PROVE  \E m \in wire :
                 /\ m.token # NoToken /\ Reached(p, m)
                 /\ \A b \in answers : b.from = p => b.token # m.token
                 /\ \/ answers' = answers \cup {Answer(p, "ACK", m.mid, m.token)}
                    \/ \E type \in {"CON", "NON"}, mid \in PeerMid :
                         /\ \A b \in answers : b.from = p /\ b.type \in {"CON", "NON"} => b.mid # mid
                         /\ answers' = answers \cup {Answer(p, type, mid, m.token)}
                    \/ answers' = answers \cup {Answer(p, "RST", m.mid, NoToken)}
    BY <2>3 DEF PeerAnswers
  <2>4. CASE PeerAnswers(p)
    <3>1. PICK m \in wire :
            /\ m.token # NoToken /\ Reached(p, m)
            /\ \A b \in answers : b.from = p => b.token # m.token
            /\ \/ answers' = answers \cup {Answer(p, "ACK", m.mid, m.token)}
               \/ \E type \in {"CON", "NON"}, mid \in PeerMid :
                    /\ \A b \in answers : b.from = p /\ b.type \in {"CON", "NON"} => b.mid # mid
                    /\ answers' = answers \cup {Answer(p, type, mid, m.token)}
               \/ answers' = answers \cup {Answer(p, "RST", m.mid, NoToken)}
      BY <2>3, <2>4
    <3>2. CASE answers' = answers \cup {Answer(p, "ACK", m.mid, m.token)}
      BY <3>1, <3>2 DEF Answer
    <3>3. CASE \E type \in {"CON", "NON"}, mid \in PeerMid :
                 /\ \A b \in answers : b.from = p /\ b.type \in {"CON", "NON"} => b.mid # mid
                 /\ answers' = answers \cup {Answer(p, type, mid, m.token)}
      <4>1. PICK type \in {"CON", "NON"}, mid \in PeerMid :
              /\ \A b \in answers : b.from = p /\ b.type \in {"CON", "NON"} => b.mid # mid
              /\ answers' = answers \cup {Answer(p, type, mid, m.token)}
        BY <3>3
      <4> DEFINE a == Answer(p, type, mid, m.token)
      <4>2. a.from = p /\ a.type = type /\ a.mid = mid /\ a.token = m.token
        BY DEF Answer
      <4> HIDE DEF a
      <4>3. \A b \in answers : b.from = a.from =>
              /\ b.token = a.token => a.token = NoToken
              /\ a.type \in {"CON", "NON"} /\ b.type \in {"CON", "NON"} => b.mid # a.mid
        BY <3>1, <4>1, <4>2
      <4> QED
        BY <3>1, <4>1, <4>2, <4>3 DEF a
    <3>4. CASE answers' = answers \cup {Answer(p, "RST", m.mid, NoToken)}
      <4> DEFINE a == Answer(p, "RST", m.mid, NoToken)
      <4>1. a.from = p /\ a.type = "RST" /\ a.mid = m.mid /\ a.token = NoToken
        BY DEF Answer
      <4> HIDE DEF a
      <4> QED
        BY <3>1, <3>4, <4>1 DEF a
    <3> QED
      BY <3>1, <3>2, <3>3, <3>4
  <2> QED
    BY <2>2, <2>4
<1>4. TrafficOK'
  BY <1>1, <1>3, TrafficAnswer DEF CallbackInv
<1>5. answers \subseteq answers'
  BY <1>3
<1>6. LinksOK'
  BY <1>1, <1>5, LinksStep DEF CallbackInv, Same
<1>7. ToldOK'
  BY <1>1, <1>5, ToldCarries DEF CallbackInv
<1> QED
  BY <1>4, <1>6, <1>7 DEF CallbackInv

\* A response that is told: by the exchanges and callbacks before and after.
LEMMA ToldResponse ==
  ASSUME TrafficOK, ToldOK, NEW a \in answers, NEW r,
         a.type # "RST", Separate => r.token = a.token,
         a.type = "CON" => ~Kept(a, exchanges),
         UNCHANGED answers, wire \subseteq wire', Notify(r, a), arrived' = arrived \cup {a},
         a.type = "CON" => Kept(a, exchanges'),
         \A n : Separate /\ Kept(n, exchanges) => Kept(n, exchanges')
  PROVE  ToldOK'
<1>1. IdsApart' => IdsApart
  BY IdsApartBefore
<1> DEFINE new == [request |-> r, message |-> a]
<1>2. new.request = r /\ new.message = a
  OBVIOUS
<1> HIDE DEF new
<1>3. notified' = notified \cup {new}
  BY DEF Notify, new
<1>4. again' = IF \E n \in notified : n.message = a THEN again \cup {a} ELSE again
  BY DEF Notify
<1>5. ASSUME Separate, IdsApart'
      PROVE  \A n \in notified' : n.message.type = "CON" => Kept(n.message, exchanges')
  BY <1>1, <1>2, <1>3, <1>5 DEF ToldOK
<1>6. ASSUME Separate, IdsApart'
      PROVE  RightCallback'
  <2>1. RightCallback
    BY <1>1, <1>6 DEF ToldOK
  <2>2. ASSUME NEW n \in notified'
        PROVE  IF n.message.type = "RST"
               THEN \E m \in wire' : /\ m.token = n.request.token /\ m.mid = n.message.mid
                                     /\ m.to = n.message.from
               ELSE n.message.token = n.request.token
    BY <1>2, <1>3, <1>6, <2>1 DEF RightCallback
  <2> QED
    BY <2>2 DEF RightCallback
<1>7. ASSUME Separate, IdsApart'
      PROVE  NotifiedOnce'
  <2>1. NotifiedOnce /\ \A n \in notified : n.message.type = "CON" => Kept(n.message, exchanges)
    BY <1>1, <1>7 DEF ToldOK
  <2>2. (\E n \in notified : n.message = a) => a.type # "CON"
    BY <2>1
  <2> QED
    BY <1>4, <2>1, <2>2 DEF NotifiedOnce
<1>8. ASSUME IdsApart'
      PROVE  ResponsesNotified'
  <2>1. ResponsesNotified
    BY <1>1, <1>8 DEF ToldOK
  <2>2. \A b \in arrived' : \E n \in notified' : n.message = b
    BY <1>2, <1>3, <2>1 DEF ResponsesNotified
  <2> QED
    BY <2>2 DEF ResponsesNotified
<1>9. (\A n \in notified : n.message.type = "CON" => Kept(n.message, exchanges))'
        <=> \A n \in notified' : n.message.type = "CON" => Kept(n.message, exchanges')
  BY DEF Kept, is_msg_matched
<1> QED
  BY <1>5, <1>6, <1>7, <1>8, <1>9 DEF ToldOK, Separate

LEMMA ResponseCallbacks ==
  ASSUME ClientInv, CallbackInv, NEW a \in answers, ReceiveResponse(a)
  PROVE  CallbackInv'
<1> DEFINE i    == Place(a)
           w    == WithInteraction(a)
           gone == Replaced(a, w[i])
           c    == Stripped(w[i], gone)
           d    == [c EXCEPT !.in = nextExchange, !.count = @ + 1]
           e    == RemoteExchange(i, a)
<1>1. /\ a.token # NoToken
      /\ Known(a) # {} \/ IsMulticastToken(a)
      /\ ~is_duplicate(a)
      /\ receive_response(a)
  BY DEF ReceiveResponse
<1>2. /\ IF a.type \in {"CON", "NON"}
         THEN /\ exchanges' = [x \in DOMAIN Remaining(gone) \cup {nextExchange} |->
                   IF x = nextExchange THEN e ELSE exchanges[x]]
              /\ interactions' = [w EXCEPT ![i] = d]
              /\ wire' = wire \cup Reply(a)
         ELSE /\ exchanges' = Remaining(gone)
              /\ interactions' = [w EXCEPT ![i] = c]
              /\ wire' = wire
      /\ Notify(w[i].request, a)
      /\ arrived' = arrived \cup {a}
      /\ UNCHANGED <<multicasts, answers>>
  BY <1>1, Zenon DEF receive_response, Stripped
<1>3. /\ w[i].endpoint = a.from
      /\ Separate => w[i].token = a.token
      /\ \A j \in DOMAIN interactions : j \in DOMAIN w /\ w[j] = interactions[j]
      /\ \A j \in DOMAIN w : Linked(w[j])
  BY <1>1, PlaceMatches DEF CallbackInv
<1>4. Store(exchanges, w, nextExchange) /\ i \in DOMAIN w
  BY <1>1, PlaceFound
<1>5. w[i] \in Interaction /\ Fits(w[i], i, exchanges) /\ nextExchange \in Nat
  <2> HIDE DEF w, i
  <2>1. w \in Seq(Interaction) /\ Fits(w[i], i, exchanges) /\ nextExchange \in Nat
    BY <1>4, Zenon DEF Store
  <2> QED
    BY <1>4, <2>1
<1>6. a.type # "RST"
  BY <1>1 DEF CallbackInv, TrafficOK
<1>7. gone \subseteq Own(exchanges, i)
  <2> HIDE DEF w, i
  <2> QED
    BY <1>5, Zenon DEF Replaced, Fits
<1>8. IsFiniteSet(gone)
  BY <1>4, <1>7, StoreFinite, FS_Subset
<1>9. e.msg = Reply(a) /\ e.origin = "remote" /\ e.peer = a.from /\ e.mid = a.mid /\ e.owner = i
  <2> HIDE DEF i
  <2> QED
    BY DEF RemoteExchange
<1> HIDE DEF w, i, gone, e
<1>10. Same(w[i], c) /\ c \in Interaction
  <2>1. c \in Interaction
    BY <1>5, <1>8, StrippedType
  <2>2. ASSUME NEW o \in Interaction, NEW p, NEW q, NEW n
        PROVE  Same(o, [o EXCEPT !.in = p, !.out = q, !.count = n])
    BY DEF Same, Interaction
  <2> QED
    BY <1>5, <2>1, <2>2, Zenon DEF Stripped
<1> HIDE DEF c
<1>11. Same(w[i], d)
  <2>1. ASSUME NEW o \in Interaction, NEW p, NEW n
        PROVE  Same(o, [o EXCEPT !.in = p, !.count = n])
    BY DEF Same, Interaction
  <2>2. Same(c, [c EXCEPT !.in = nextExchange, !.count = @ + 1])
    BY <1>10, <2>1, Zenon
  <2> QED
    BY <1>10, <2>2 DEF Same
<1> HIDE DEF d
<1>12. /\ DOMAIN interactions' = DOMAIN w
       /\ \A j \in DOMAIN w : Same(w[j], interactions'[j])
  <2>1. ASSUME NEW o, Same(w[i], o), interactions' = [w EXCEPT ![i] = o]
        PROVE  /\ DOMAIN interactions' = DOMAIN w
               /\ \A j \in DOMAIN w : Same(w[j], interactions'[j])
    BY <1>4, <2>1 DEF Same
  <2> QED
    BY <1>2, <1>10, <1>11, <2>1, Zenon
<1>13. nextExchange \notin DOMAIN exchanges
  BY <1>4, StoreFinite
<1>14. /\ \A x \in DOMAIN exchanges \ gone : x \in DOMAIN exchanges' /\ exchanges'[x] = exchanges[x]
       /\ \A x \in DOMAIN exchanges' :
            \/ x \in DOMAIN exchanges \ gone
            \/ x = nextExchange /\ a.type \in {"CON", "NON"} /\ exchanges'[x] = e
       /\ a.type \in {"CON", "NON"} =>
            nextExchange \in DOMAIN exchanges' /\ exchanges'[nextExchange] = e
  <2>1. /\ DOMAIN Remaining(gone) = DOMAIN exchanges \ gone
        /\ \A x \in DOMAIN exchanges \ gone : Remaining(gone)[x] = exchanges[x]
    BY DEF Remaining
  <2>2. CASE a.type \in {"CON", "NON"}
    <3>1. exchanges' = [x \in DOMAIN Remaining(gone) \cup {nextExchange} |->
                          IF x = nextExchange THEN e ELSE exchanges[x]]
      BY <1>2, <2>2
    <3> QED
      BY <1>13, <2>1, <2>2, <3>1
  <2>3. CASE a.type \notin {"CON", "NON"}
    <3>1. exchanges' = Remaining(gone)
      BY <1>2, <2>3
    <3> QED
      BY <2>1, <2>3, <3>1
  <2> QED
    BY <2>2, <2>3
<1>15. /\ notified \subseteq notified' /\ wire \subseteq wire'
       /\ \E n \in notified' : n.message = a
       /\ a.type \in {"CON", "NON"} => wire' = wire \cup Reply(a)
       /\ \A m \in wire' : m \in wire \/ (m.type = "ACK" /\ m.token = NoToken)
  <2>1. notified \subseteq notified' /\ \E n \in notified' : n.message = a
    <3> DEFINE n == [request |-> w[i].request, message |-> a]
    <3>1. n.message = a
      OBVIOUS
    <3> HIDE DEF n
    <3>2. notified' = notified \cup {n}
      BY <1>2 DEF Notify, n
    <3> QED
      BY <3>1, <3>2
  <2>2. \A m \in Reply(a) : m.type = "ACK" /\ m.token = NoToken
    BY DEF Reply, Sent
  <2> QED
    BY <1>2, <2>1, <2>2
<1>16. TrafficOK'
  BY <1>2, <1>15, TrafficAck DEF CallbackInv
<1>17. LinksOK'
  <2>1. \A j \in DOMAIN interactions' :
          \/ j \in DOMAIN interactions /\ Same(interactions[j], interactions'[j])
          \/ j \notin DOMAIN interactions /\ Linked(interactions'[j])
    BY <1>3, <1>12, LinkedCarries
  <2>2. a.type \in {"CON", "NON"} =>
          Backed(e, interactions'[i], wire', answers', notified')
    <3>1. interactions'[i].endpoint = a.from /\ (Separate => interactions'[i].token = a.token)
      BY <1>3, <1>4, <1>12 DEF Same
    <3>2. is_msg_matched(e, a)
      BY <1>9 DEF is_msg_matched
    <3> QED
      BY <1>2, <1>9, <1>15, <3>1, <3>2 DEF Backed
  <2>3. \A x \in DOMAIN exchanges' :
          \/ x \in DOMAIN exchanges /\ exchanges'[x] = exchanges[x]
          \/ Backed(exchanges'[x], interactions'[exchanges'[x].owner], wire', answers', notified')
    BY <1>9, <1>14, <2>2
  <2> QED
    BY <1>2, <1>3, <1>12, <1>15, <2>1, <2>3, LinksStep DEF CallbackInv
<1>18. ToldOK'
  <2>1. a.type = "CON" => ~Kept(a, exchanges)
    BY <1>1, FoundWhenKept DEF is_duplicate
  <2>2. a.type \in {"CON", "NON"} =>
          \A n : n.from = a.from /\ n.mid = a.mid => Kept(n, exchanges')
    BY <1>9, <1>14 DEF Kept, is_msg_matched
  <2>3. ASSUME NEW n, Separate, Kept(n, exchanges) PROVE Kept(n, exchanges')
    <3>1. PICK x \in DOMAIN exchanges : exchanges[x].origin = "remote" /\ is_msg_matched(exchanges[x], n)
      BY <2>3 DEF Kept
    <3>2. CASE x \notin gone
      BY <1>14, <3>1, <3>2 DEF Kept
    <3>3. CASE x \in gone
      <4>1. exchanges[x].owner = i
        BY <1>7, <3>3 DEF Own
      <4>2. i \in DOMAIN interactions
        BY <4>1, Zenon DEF ClientInv, StoreInv, Store
      <4>3. interactions[i].endpoint = a.from /\ interactions[i].token = a.token
        BY <1>3, <2>3, <4>2
      <4>4. PICK b \in answers :
              /\ b.type \in {"CON", "NON"} /\ is_msg_matched(exchanges[x], b)
              /\ b.from = a.from /\ b.token = a.token
        BY <2>3, <3>1, <4>1, <4>3 DEF CallbackInv, LinksOK, Backed
      <4>5. b = a
        BY <1>1, <4>4 DEF CallbackInv, TrafficOK
      <4> QED
        BY <2>2, <3>1, <4>4, <4>5 DEF is_msg_matched
    <3> QED
      BY <3>2, <3>3
  <2>4. a.type = "CON" => Kept(a, exchanges')
    BY <2>2
  <2>5. Separate => w[i].request.token = a.token
    BY <1>3, <1>4 DEF Linked
  <2> QED
    BY <1>2, <1>6, <1>15, <2>1, <2>3, <2>4, <2>5, ToldResponse DEF CallbackInv
<1> QED
  BY <1>16, <1>17, <1>18 DEF CallbackInv

\* A message that matches an exchange of a response is that response, unless
\* a response has the id of a request.
LEMMA MatchesResponse ==
  ASSUME CallbackInv, NEW a \in answers, NEW x \in DOMAIN exchanges,
         is_msg_matched(exchanges[x], a), exchanges[x].origin = "remote", IdsApart
  PROVE  a.token # NoToken /\ (a.type = "CON" => \E n \in notified : n.message = a)
<1>1. PICK b \in answers :
        /\ b.type \in {"CON", "NON"} /\ is_msg_matched(exchanges[x], b)
        /\ \E n \in notified : n.message = b
  BY DEF CallbackInv, LinksOK, Backed
<1>2. a.from = b.from /\ a.mid = b.mid
  BY <1>1 DEF is_msg_matched
<1>3. a.token # NoToken
  <2> SUFFICES ASSUME a.token = NoToken PROVE FALSE
    OBVIOUS
  <2>1. PICK m \in wire : m.token # NoToken /\ Reached(a.from, m) /\ m.mid = a.mid
    BY DEF CallbackInv, TrafficOK
  <2> QED
    BY <1>1, <1>2, <2>1 DEF IdsApart
<1>4. a.type = "CON" => a = b
  BY <1>1, <1>2 DEF CallbackInv, TrafficOK
<1> QED
  BY <1>1, <1>3, <1>4

LEMMA DuplicateCallbacks ==
  ASSUME ClientInv, CallbackInv, NEW a \in answers, ReceiveDuplicate(a)
  PROVE  CallbackInv'
<1>1. PICK x \in DOMAIN exchanges :
        is_msg_matched(exchanges[x], a) /\ wire' = wire \cup exchanges[x].msg
  BY DEF ReceiveDuplicate, find_client_exchange
<1>2. /\ a.token # NoToken /\ a.type = "CON"
      /\ Known(a) # {} \/ IsMulticastToken(a)
      /\ interactions' = WithInteraction(a)
      /\ arrived' = arrived \cup {a}
      /\ UNCHANGED <<exchanges, multicasts, answers, notified, again>>
  BY DEF ReceiveDuplicate, is_duplicate
<1>3. Backed(exchanges[x], interactions[exchanges[x].owner], wire, answers, notified)
  BY DEF CallbackInv, LinksOK
<1>4. wire' = wire
  BY <1>1, <1>3 DEF Backed
<1>5. TrafficOK'
  BY <1>2, <1>4 DEF CallbackInv, TrafficOK, Reached
<1>6. LinksOK'
  <2> DEFINE w == WithInteraction(a)
  <2>1. /\ \A i \in DOMAIN interactions : i \in DOMAIN w /\ w[i] = interactions[i]
        /\ \A i \in DOMAIN w : Linked(w[i])
    BY <1>2, PlaceMatches DEF CallbackInv
  <2> HIDE DEF w
  <2>2. interactions' = w
    BY <1>2 DEF w
  <2> QED
    BY <1>2, <1>4, <2>1, <2>2, LinksStep DEF CallbackInv, Same
<1>7. ASSUME IdsApart PROVE \E n \in notified : n.message = a
  <2>1. exchanges[x] \in Exchange
    BY DEF ClientInv, StoreInv, Store
  <2>2. exchanges[x].origin # "local"
    <3> SUFFICES ASSUME exchanges[x].origin = "local" PROVE FALSE
      OBVIOUS
    <3>1. PICK m \in wire : /\ m.token = interactions[exchanges[x].owner].token
                            /\ m.mid = exchanges[x].mid /\ m.to = exchanges[x].peer
      BY <1>3 DEF Backed
    <3>2. interactions[exchanges[x].owner] \in Interaction
      <4>1. exchanges[x].owner \in DOMAIN interactions /\ interactions \in Seq(Interaction)
        BY DEF ClientInv, StoreInv, Store
      <4> QED
        BY <4>1
    <3>3. m.token # NoToken
      BY <3>1, <3>2, ClientAssumption DEF Interaction
    <3> QED
      BY <1>1, <1>2, <1>7, <3>1, <3>3 DEF IdsApart, Reached, is_msg_matched
  <2>3. exchanges[x].origin = "remote"
    BY <2>1, <2>2 DEF Exchange
  <2> QED
    BY <1>1, <1>2, <1>7, <2>3, MatchesResponse
<1>8. ToldOK'
  <2>1. IdsApart' <=> IdsApart
    BY <1>2, <1>4 DEF IdsApart, Reached
  <2>2. IdsApart => ResponsesNotified'
    BY <1>2, <1>7 DEF CallbackInv, ToldOK, ResponsesNotified
  <2>3. RightCallback' <=> RightCallback
    BY <1>2, <1>4 DEF RightCallback
  <2>4. NotifiedOnce' <=> NotifiedOnce
    BY <1>2 DEF NotifiedOnce
  <2> QED
    BY <1>2, <2>1, <2>2, <2>3, <2>4 DEF CallbackInv, ToldOK, Kept, is_msg_matched, Separate
<1> QED
  BY <1>5, <1>6, <1>8 DEF CallbackInv

LEMMA EmptyCallbacks ==
  ASSUME ClientInv, CallbackInv, NEW a \in answers, ReceiveEmpty(a)
  PROVE  CallbackInv'
<1>1. PICK x \in DOMAIN exchanges :
        LET i == exchanges[x].owner
        IN  /\ is_msg_matched(exchanges[x], a)
            /\ exchanges' = Remaining({x})
            /\ interactions' = [interactions EXCEPT ![i] = Without(i, {x})]
            /\ IF a.type = "RST"
               THEN Notify(interactions[i].request, a)
               ELSE UNCHANGED <<notified, again>>
  BY DEF ReceiveEmpty, find_client_exchange
<1> DEFINE i == exchanges[x].owner
           r == interactions[i].request
<1>2. a.token = NoToken /\ UNCHANGED <<multicasts, wire, answers, arrived>>
  BY DEF ReceiveEmpty
<1>3. i \in DOMAIN interactions /\ interactions[i] \in Interaction
  <2>1. i \in DOMAIN interactions /\ interactions \in Seq(Interaction)
    BY Zenon DEF ClientInv, StoreInv, Store
  <2> QED
    BY <2>1
<1>4. /\ DOMAIN exchanges' = DOMAIN exchanges \ {x}
      /\ \A y \in DOMAIN exchanges' : exchanges'[y] = exchanges[y]
  BY <1>1 DEF Remaining
<1>5. /\ DOMAIN interactions' = DOMAIN interactions
      /\ \A j \in DOMAIN interactions : Same(interactions[j], interactions'[j])
  <2>1. ASSUME NEW o \in Interaction, NEW p, NEW q, NEW n
        PROVE  Same(o, [o EXCEPT !.in = p, !.out = q, !.count = n])
    BY DEF Same, Interaction
  <2>2. Same(interactions[i], Without(i, {x}))
    BY <1>3, <2>1, Zenon DEF Without
  <2>3. ASSUME NEW o, Same(interactions[i], o), interactions' = [interactions EXCEPT ![i] = o]
        PROVE  /\ DOMAIN interactions' = DOMAIN interactions
               /\ \A j \in DOMAIN interactions : Same(interactions[j], interactions'[j])
    BY <1>3, <2>3 DEF Same
  <2> QED
    BY <1>1, <2>2, <2>3, Zenon
<1>6. notified \subseteq notified' /\ (\A n \in notified' : n \in notified \/ n.message.type = "RST")
  <2>1. CASE a.type = "RST"
    <3> DEFINE n == [request |-> r, message |-> a]
    <3>1. n.message = a
      OBVIOUS
    <3> HIDE DEF n
    <3>2. notified' = notified \cup {n}
      BY <1>1, <2>1 DEF Notify, n
    <3> QED
      BY <2>1, <3>1, <3>2
  <2>2. CASE a.type # "RST"
    BY <1>1, <2>2
  <2> QED
    BY <2>1, <2>2
<1>7. TrafficOK'
  BY <1>2, <1>4, TrafficAck DEF CallbackInv
<1>8. LinksOK'
  BY <1>2, <1>4, <1>5, <1>6, LinksStep DEF CallbackInv
<1>9. IdsApart' <=> IdsApart
  BY <1>2 DEF IdsApart, Reached
<1>10. ASSUME IdsApart PROVE exchanges[x].origin = "local"
  <2>1. exchanges[x].origin # "remote"
    BY <1>1, <1>2, <1>10, MatchesResponse
  <2>2. exchanges[x] \in Exchange
    BY DEF ClientInv, StoreInv, Store
  <2> QED
    BY <2>1, <2>2 DEF Exchange
<1>11. ASSUME Separate, IdsApart
       PROVE  \A n \in notified' : n.message.type = "CON" => Kept(n.message, exchanges')
  <2> SUFFICES ASSUME NEW n \in notified', n.message.type = "CON"
               PROVE  Kept(n.message, exchanges')
    OBVIOUS
  <2>1. Kept(n.message, exchanges)
    BY <1>6, <1>11 DEF CallbackInv, ToldOK
  <2>2. PICK y \in DOMAIN exchanges :
          exchanges[y].origin = "remote" /\ is_msg_matched(exchanges[y], n.message)
    BY <2>1 DEF Kept
  <2>3. y # x
    BY <1>10, <1>11, <2>2
  <2> QED
    BY <1>4, <2>2, <2>3 DEF Kept
<1>12. ASSUME Separate, IdsApart PROVE RightCallback'
  <2>1. RightCallback
    BY <1>12 DEF CallbackInv, ToldOK
  <2>2. CASE a.type # "RST"
    BY <1>1, <1>2, <2>1, <2>2 DEF RightCallback
  <2>3. CASE a.type = "RST"
    <3> DEFINE new == [request |-> r, message |-> a]
    <3>1. new.message = a /\ new.request = r
      OBVIOUS
    <3> HIDE DEF new
    <3>2. notified' = notified \cup {new}
      BY <1>1, <2>3 DEF Notify, new
    <3>3. PICK m \in wire : /\ m.token = interactions[i].token
                            /\ m.mid = exchanges[x].mid /\ m.to = exchanges[x].peer
      BY <1>10, <1>12 DEF CallbackInv, LinksOK, Backed
    <3>4. interactions[i].token = r.token
      BY <1>3 DEF CallbackInv, LinksOK, Linked
    <3>5. m.token = r.token /\ m.mid = a.mid /\ m.to = a.from
      BY <1>1, <3>3, <3>4 DEF is_msg_matched
    <3>6. ASSUME NEW n \in notified'
          PROVE  IF n.message.type = "RST"
                 THEN \E k \in wire : /\ k.token = n.request.token /\ k.mid = n.message.mid
                                      /\ k.to = n.message.from
                 ELSE n.message.token = n.request.token
      <4> HIDE DEF r
      <4>1. CASE n = new
        BY <2>3, <3>1, <3>5, <4>1
      <4>2. CASE n \in notified
        BY <2>1, <4>2 DEF RightCallback
      <4> QED
        BY <3>2, <4>1, <4>2
    <3> QED
      BY <1>2, <3>6 DEF RightCallback
  <2> QED
    BY <2>2, <2>3
<1>13. NotifiedOnce => NotifiedOnce'
  <2>1. \A b \in again' : b \in again \/ b.type = "RST"
    BY <1>1 DEF Notify
  <2> QED
    BY <2>1 DEF NotifiedOnce
<1>14. ResponsesNotified => ResponsesNotified'
  BY <1>2, <1>6 DEF ResponsesNotified
<1>15. (\A n \in notified : n.message.type = "CON" => Kept(n.message, exchanges))'
         <=> \A n \in notified' : n.message.type = "CON" => Kept(n.message, exchanges')
  BY DEF Kept, is_msg_matched
<1>16. ToldOK'
  BY <1>9, <1>11, <1>12, <1>13, <1>14, <1>15 DEF CallbackInv, ToldOK, Separate
<1> QED
  BY <1>7, <1>8, <1>16 DEF CallbackInv

LEMMA CallbackInit == Init => CallbackInv
<1> SUFFICES ASSUME Init PROVE CallbackInv
  OBVIOUS
<1>1. DOMAIN exchanges = {} /\ DOMAIN interactions = {} /\ DOMAIN multicasts = {}
  BY DEF Init
<1>2. TrafficOK
  BY <1>1 DEF Init, TrafficOK
<1>3. LinksOK
  BY <1>1 DEF LinksOK
<1>4. ToldOK
  BY DEF Init, ToldOK, RightCallback, NotifiedOnce, ResponsesNotified
<1> QED
  BY <1>2, <1>3, <1>4 DEF CallbackInv

LEMMA CallbackNext == ClientInv /\ CallbackInv /\ [Next]_vars => CallbackInv'
<1> SUFFICES ASSUME ClientInv, CallbackInv, [Next]_vars PROVE CallbackInv'
  OBVIOUS
<1>1. CASE UNCHANGED vars
  <2>1. UNCHANGED <<exchanges, interactions, multicasts, wire, answers, arrived, notified, again>>
    BY <1>1 DEF vars, store, history
  <2>2. TrafficOK'
    BY <2>1 DEF CallbackInv, TrafficOK, Reached
  <2>3. LinksOK'
    BY <2>1, LinksStep DEF CallbackInv, Same
  <2>4. ToldOK'
    BY <2>1, ToldCarries DEF CallbackInv
  <2> QED
    BY <2>2, <2>3, <2>4 DEF CallbackInv
<1> QED
  BY <1>1, UnicastCallbacks, MulticastCallbacks, PeerCallbacks, ResponseCallbacks,
     DuplicateCallbacks, EmptyCallbacks DEF Next

LEMMA CallbackAlways == Spec => [](ClientInv /\ CallbackInv)
<1>1. Init => ClientInv /\ CallbackInv
  BY ClientInvInit, CallbackInit
<1>2. ClientInv /\ CallbackInv /\ [Next]_vars => (ClientInv /\ CallbackInv)'
  BY ClientInvNext, CallbackNext
<1> QED
  BY <1>1, <1>2, PTL DEF Spec

(***************************************************************************)
(* As long as no server gives a response of its own the id of a request    *)
(* that it got, every response that is received for a known interaction    *)
(* reaches a callback: however ids wrap, and however often and in whatever *)
(* order messages arrive, none is taken for a repetition of another.       *)
(***************************************************************************)
THEOREM ClientResponsesHeard == Spec => [](IdsApart => ResponsesNotified)
<1>1. ClientInv /\ CallbackInv => (IdsApart => ResponsesNotified)
  BY DEF CallbackInv, ToldOK
<1> QED
  BY <1>1, CallbackAlways, PTL

(***************************************************************************)
(* When besides that the members of a group are asked nothing of their own *)
(* and the group is asked one thing, each callback is called with responses*)
(* to its own request only, and told of a rejection only of its request.   *)
(* Without the former, MsgStack.cpp:505 gives the response to the first    *)
(* interaction with the server.                                            *)
(***************************************************************************)
THEOREM ClientRightCallback ==
  ASSUME Separate
  PROVE  Spec => [](IdsApart => RightCallback)
<1>1. ClientInv /\ CallbackInv => (IdsApart => RightCallback)
  BY DEF CallbackInv, ToldOK
<1> QED
  BY <1>1, CallbackAlways, PTL

(***************************************************************************)
(* Under the same conditions a callback hears of a confirmable response    *)
(* once: the exchange that recognises a repetition stays, although later   *)
(* responses, acknowledgements and resets delete exchanges.                *)
(***************************************************************************)
THEOREM ClientNotifiedOnce ==
  ASSUME Separate
  PROVE  Spec => [](IdsApart => NotifiedOnce)
<1>1. ClientInv /\ CallbackInv => (IdsApart => NotifiedOnce)
  BY DEF CallbackInv, ToldOK
<1> QED
  BY <1>1, CallbackAlways, PTL
===============================================================================
