-------------------------- MODULE ServerStack_proofs --------------------------
(***************************************************************************)
(* The store of the server side stays consistent, and every reply answers  *)
(* a request, for every set of peers, tokens, requests and timings; and    *)
(* requests are handled, once, and answered late, where the ids and tokens *)
(* the code matches by tell messages apart.                                *)
(***************************************************************************)
EXTENDS ServerStack, FiniteSetTheorems, TLAPS

(***************************************************************************)
(* An interaction agrees with a list of exchanges: StoreConsistent for one *)
(* key, as a predicate of the values the handlers compute.                 *)
(***************************************************************************)
Own(ex, k) == {x \in DOMAIN ex : ex[x].key = k}

Fits(i, k, ex) ==
  /\ i \in Interaction
  /\ i.in # Null => i.in \in Own(ex, k) /\ ex[i.in].origin = "remote"
  /\ i.out # Null => i.out \in Own(ex, k) /\ ex[i.out].origin = "local"
  /\ i.exchanges = Cardinality(Own(ex, k))

\* What ServerInteraction::delete_exchange leaves of an interaction.
Stripped(i, gone, own) ==
  [in |-> NoLonger(i.in, gone), out |-> NoLonger(i.out, gone),
   exchanges |-> i.exchanges - Cardinality(own \cap gone), con |-> i.con]

Cut(ex, gone) == [x \in DOMAIN ex \ gone |-> ex[x]]

LEMMA DeleteFits ==
  ASSUME NEW ex, NEW k, NEW i, NEW gone, IsFiniteSet(DOMAIN ex), Fits(i, k, ex)
  PROVE  Fits(Stripped(i, gone, Own(ex, k)), k, Cut(ex, gone))
<1> DEFINE j == Stripped(i, gone, Own(ex, k))
           cut == Cut(ex, gone)
<1>1. IsFiniteSet(Own(ex, k))
  BY FS_Subset DEF Own
<1>2. Own(cut, k) = Own(ex, k) \ gone
  BY DEF Own, Cut
<1>3. /\ i \in Interaction
      /\ j.in = NoLonger(i.in, gone) /\ j.out = NoLonger(i.out, gone)
      /\ j.exchanges = i.exchanges - Cardinality(Own(ex, k) \cap gone)
  BY DEF Fits, Stripped
<1>4. IsFiniteSet(Own(ex, k) \cap gone)
  BY <1>1, FS_Subset
<1>5. /\ Cardinality(Own(ex, k) \cap gone) \in Nat
      /\ Cardinality(Own(ex, k)) \in Nat
  BY <1>1, <1>4, FS_CardinalityType
<1>6. j \in Interaction
  BY <1>3, <1>5 DEF Stripped, Interaction, NoLonger, Null
<1>7. j.in # Null => j.in \in Own(cut, k) /\ cut[j.in].origin = "remote"
  BY <1>2, <1>3 DEF Fits, NoLonger, Null, Cut, Own
<1>8. j.out # Null => j.out \in Own(cut, k) /\ cut[j.out].origin = "local"
  BY <1>2, <1>3 DEF Fits, NoLonger, Null, Cut, Own
<1>9. j.exchanges = Cardinality(Own(cut, k))
  <2>1. j.exchanges = Cardinality(Own(ex, k)) - Cardinality(Own(ex, k) \cap gone)
    BY <1>3 DEF Fits
  <2> QED
    BY <1>1, <1>2, <2>1, FS_Difference
<1> HIDE DEF j, cut
<1>10. Fits(j, k, cut)
  BY <1>6, <1>7, <1>8, <1>9 DEF Fits
<1> QED
  BY <1>10 DEF j, cut

LEMMA DeleteElsewhere ==
  ASSUME NEW ex, NEW k, NEW i, NEW gone, Own(ex, k) \cap gone = {}, Fits(i, k, ex)
  PROVE  Fits(i, k, Cut(ex, gone))
<1>1. Own(Cut(ex, gone), k) = Own(ex, k)
  BY DEF Own, Cut
<1>2. \A x \in Own(ex, k) : Cut(ex, gone)[x] = ex[x]
  BY DEF Own, Cut
<1> QED
  BY <1>1, <1>2 DEF Fits

LEMMA AddFits ==
  ASSUME NEW ex, NEW k, NEW i, NEW n \in Nat \ {0}, NEW e, IsFiniteSet(DOMAIN ex),
         Fits(i, k, ex), n \notin DOMAIN ex, e.key = k
  PROVE  /\ e.origin = "remote" => \A c \in BOOLEAN :
              Fits(create_incoming_exchange(i, n, c), k, Put(ex, n, e))
         /\ e.origin = "local" =>
              Fits(create_outgoing_exchange(i, n), k, Put(ex, n, e))
<1> DEFINE new == Put(ex, n, e)
<1>1. IsFiniteSet(Own(ex, k)) /\ n \notin Own(ex, k)
  BY FS_Subset DEF Own
<1>2. Own(new, k) = Own(ex, k) \cup {n}
  BY DEF Own, Put
<1>3. Cardinality(Own(new, k)) = Cardinality(Own(ex, k)) + 1
  BY <1>1, <1>2, FS_AddElement
<1>4. new[n] = e /\ \A x \in Own(ex, k) : new[x] = ex[x]
  BY <1>1 DEF Put, Own
<1>5. /\ \A c \in BOOLEAN : create_incoming_exchange(i, n, c) \in Interaction
      /\ create_outgoing_exchange(i, n) \in Interaction
  BY DEF Fits, Interaction, create_incoming_exchange, create_outgoing_exchange
<1> HIDE DEF new
<1>6. ASSUME e.origin = "remote", NEW c \in BOOLEAN
      PROVE  Fits(create_incoming_exchange(i, n, c), k, new)
  BY <1>2, <1>3, <1>4, <1>5, <1>6 DEF Fits, create_incoming_exchange
<1>7. ASSUME e.origin = "local"
      PROVE  Fits(create_outgoing_exchange(i, n), k, new)
  BY <1>2, <1>3, <1>4, <1>5, <1>7 DEF Fits, create_outgoing_exchange
<1> QED
  BY <1>6, <1>7 DEF new

LEMMA AddElsewhere ==
  ASSUME NEW ex, NEW k, NEW i, NEW n, NEW e, Fits(i, k, ex),
         n \notin DOMAIN ex, e.key # k
  PROVE  Fits(i, k, Put(ex, n, e))
<1>1. Own(Put(ex, n, e), k) = Own(ex, k)
  BY DEF Own, Put
<1>2. \A x \in Own(ex, k) : Put(ex, n, e)[x] = ex[x]
  BY DEF Own, Put
<1> QED
  BY <1>1, <1>2 DEF Fits

\* Time and retransmission change neither the key nor the origin of an exchange.
LEMMA SameFits ==
  ASSUME NEW ex, NEW k, NEW i, NEW new, Fits(i, k, ex), DOMAIN new = DOMAIN ex,
         \A x \in DOMAIN ex : new[x].key = ex[x].key /\ new[x].origin = ex[x].origin
  PROVE  Fits(i, k, new)
<1>1. Own(new, k) = Own(ex, k)
  BY DEF Own
<1> QED
  BY <1>1 DEF Fits, Own

(***************************************************************************)
(* The two lists of InteractionStore, as values: what the handlers do to   *)
(* them is a sequence of the four operations of the lemmas below.          *)
(***************************************************************************)
Store(ex, its, next) ==
  /\ next \in Nat \ {0}
  /\ DOMAIN ex \subseteq 1 .. (next - 1)
  /\ ex \in [DOMAIN ex -> Exchange]
  /\ DOMAIN its \subseteq Key
  /\ its \in [DOMAIN its -> Interaction]
  /\ \A x \in DOMAIN ex : ex[x].key \in DOMAIN its
  /\ \A k \in DOMAIN its : Fits(its[k], k, ex)

LEMMA StoreFinite ==
  ASSUME NEW ex, NEW its, NEW next, Store(ex, its, next)
  PROVE  IsFiniteSet(DOMAIN ex) /\ next \notin DOMAIN ex
<1>1. IsFiniteSet(1 .. (next - 1))
  BY FS_Interval DEF Store
<1> QED
  BY <1>1, FS_Subset DEF Store

\* create_server_interaction.
LEMMA StoreCreate ==
  ASSUME NEW ex, NEW its, NEW next, Store(ex, its, next),
         NEW k \in Key, k \notin DOMAIN its
  PROVE  Store(ex, Put(its, k, [in |-> Null, out |-> Null, exchanges |-> 0,
                                con |-> FALSE]), next)
<1> DEFINE i == [in |-> Null, out |-> Null, exchanges |-> 0, con |-> FALSE]
           new == Put(its, k, i)
<1>1. Own(ex, k) = {}
  BY DEF Store, Own
<1>2. Fits(i, k, ex)
  BY <1>1, FS_EmptySet DEF Fits, Interaction, Null
<1>3. /\ DOMAIN new = DOMAIN its \cup {k}
      /\ new[k] = i
      /\ \A y \in DOMAIN its : new[y] = its[y]
      /\ new = [y \in DOMAIN new |-> new[y]]
  BY DEF Put
<1> HIDE DEF new, i
<1>4. \A y \in DOMAIN new : Fits(new[y], y, ex)
  BY <1>2, <1>3 DEF Store
<1>5. new \in [DOMAIN new -> Interaction]
  BY <1>3, <1>4 DEF Fits
<1>6. Store(ex, new, next)
  BY <1>3, <1>4, <1>5 DEF Store
<1> QED
  BY <1>6 DEF new, i

\* delete_server_exchange, of exchanges of one interaction.
LEMMA StoreDelete ==
  ASSUME NEW ex, NEW its, NEW next, Store(ex, its, next),
         NEW k \in DOMAIN its, NEW gone, gone \subseteq Own(ex, k)
  PROVE  Store(Cut(ex, gone),
               Put(its, k, Stripped(its[k], gone, Own(ex, k))), next)
<1> DEFINE new == Put(its, k, Stripped(its[k], gone, Own(ex, k)))
           cut == Cut(ex, gone)
<1>1. Fits(new[k], k, cut)
  <2>1. Fits(its[k], k, ex)
    BY DEF Store
  <2> QED
    BY <2>1, StoreFinite, DeleteFits DEF Put
<1>2. ASSUME NEW y \in DOMAIN its, y # k
      PROVE  Fits(new[y], y, cut)
  <2>1. Own(ex, y) \cap gone = {}
    BY <1>2 DEF Own
  <2>2. Fits(its[y], y, ex)
    BY DEF Store
  <2> QED
    BY <1>2, <2>1, <2>2, DeleteElsewhere DEF Put
<1>3. DOMAIN new = DOMAIN its /\ new = [y \in DOMAIN new |-> new[y]]
  BY DEF Put
<1>4. /\ DOMAIN cut = DOMAIN ex \ gone
      /\ \A x \in DOMAIN cut : cut[x] = ex[x]
      /\ cut \in [DOMAIN cut -> Exchange]
  BY DEF Cut, Store
<1> HIDE DEF new, cut
<1>5. \A y \in DOMAIN new : Fits(new[y], y, cut)
  BY <1>1, <1>2, <1>3
<1>6. new \in [DOMAIN new -> Interaction]
  BY <1>3, <1>5 DEF Fits
<1>7. Store(cut, new, next)
  BY <1>3, <1>4, <1>5, <1>6 DEF Store
<1> QED
  BY <1>7 DEF new, cut

\* add_server_exchange, with create_incoming_exchange or create_outgoing_exchange.
LEMMA StoreAdd ==
  ASSUME NEW ex, NEW its, NEW next, Store(ex, its, next),
         NEW k \in DOMAIN its, NEW e \in Exchange, e.key = k,
         NEW i, Fits(i, k, Put(ex, next, e))
  PROVE  Store(Put(ex, next, e), Put(its, k, i), next + 1)
<1> DEFINE new == Put(its, k, i)
           put == Put(ex, next, e)
<1>1. next \notin DOMAIN ex /\ next \in Nat \ {0}
  BY StoreFinite DEF Store
<1>2. /\ DOMAIN put = DOMAIN ex \cup {next}
      /\ put[next] = e
      /\ \A x \in DOMAIN ex : put[x] = ex[x]
      /\ put = [x \in DOMAIN put |-> put[x]]
  BY <1>1 DEF Put
<1>3. /\ DOMAIN new = DOMAIN its
      /\ new[k] = i
      /\ \A y \in DOMAIN its : y # k => new[y] = its[y]
      /\ new = [y \in DOMAIN new |-> new[y]]
  BY DEF Put
<1>4. ASSUME NEW y \in DOMAIN its, y # k
      PROVE  Fits(new[y], y, put)
  <2>1. Fits(its[y], y, ex)
    BY DEF Store
  <2> QED
    BY <1>1, <1>3, <1>4, <2>1, AddElsewhere
<1> HIDE DEF new
<1>5. \A y \in DOMAIN new : Fits(new[y], y, put)
  BY <1>3, <1>4
<1> HIDE DEF put
<1>6. new \in [DOMAIN new -> Interaction]
  BY <1>3, <1>5 DEF Fits
<1>7. put \in [DOMAIN put -> Exchange]
  BY <1>2 DEF Store
<1>8. /\ next + 1 \in Nat \ {0}
      /\ DOMAIN put \subseteq 1 .. ((next + 1) - 1)
  BY <1>1, <1>2 DEF Store
<1>9. \A x \in DOMAIN put : put[x].key \in DOMAIN new
  BY <1>2, <1>3 DEF Store
<1>10. Store(put, new, next + 1)
  BY <1>3, <1>5, <1>6, <1>7, <1>8, <1>9 DEF Store
<1> QED
  BY <1>10 DEF new, put

\* The heart beat, which deletes the exchanges `gone', changes the others to
\* those of `new' and then deletes the interactions without exchanges.
LEMMA StoreExpire ==
  ASSUME NEW ex, NEW its, NEW next, Store(ex, its, next), NEW gone, NEW new,
         DOMAIN new = DOMAIN ex \ gone, new \in [DOMAIN new -> Exchange],
         \A x \in DOMAIN new : new[x].key = ex[x].key /\ new[x].origin = ex[x].origin
  PROVE  LET kept(k) == Stripped(its[k], gone, Own(ex, k))
         IN  Store(new, [k \in {l \in DOMAIN its : kept(l).exchanges # 0} |-> kept(k)],
                   next)
<1> DEFINE kept(k) == Stripped(its[k], gone, Own(ex, k))
           left == [k \in {l \in DOMAIN its : kept(l).exchanges # 0} |-> kept(k)]
<1>1. ASSUME NEW k \in DOMAIN its
      PROVE  Fits(kept(k), k, new)
  <2>1. Fits(its[k], k, ex)
    BY DEF Store
  <2>2. Fits(kept(k), k, Cut(ex, gone))
    BY <2>1, StoreFinite, DeleteFits
  <2>3. /\ DOMAIN new = DOMAIN Cut(ex, gone)
        /\ \A x \in DOMAIN Cut(ex, gone) :
             new[x].key = Cut(ex, gone)[x].key /\ new[x].origin = Cut(ex, gone)[x].origin
    BY DEF Cut
  <2> HIDE DEF kept
  <2> QED
    BY <2>2, <2>3, SameFits
<1> HIDE DEF kept
<1>2. ASSUME NEW x \in DOMAIN new
      PROVE  new[x].key \in DOMAIN left
  <2> DEFINE k == new[x].key
  <2>1. k \in DOMAIN its
    BY DEF Store
  <2>2. x \in Own(new, k) /\ IsFiniteSet(Own(new, k))
    BY StoreFinite, FS_Subset DEF Own
  <2>3. Cardinality(Own(new, k)) # 0
    BY <2>2, FS_EmptySet
  <2>4. kept(k).exchanges # 0
    BY <1>1, <2>1, <2>3 DEF Fits
  <2> QED
    BY <2>1, <2>4
<1>3. /\ DOMAIN left \subseteq DOMAIN its
      /\ \A k \in DOMAIN left : Fits(left[k], k, new)
      /\ left = [k \in DOMAIN left |-> left[k]]
  BY <1>1
<1> HIDE DEF left
<1>4. left \in [DOMAIN left -> Interaction]
  BY <1>3 DEF Fits
<1>5. DOMAIN new \subseteq 1 .. (next - 1)
  BY DEF Store
<1>6. Store(new, left, next)
  BY <1>2, <1>3, <1>4, <1>5 DEF Store
<1> QED
  BY <1>6 DEF left, kept

(***************************************************************************)
(* The messages and exchanges the handlers make.                           *)
(***************************************************************************)
LEMMA ReplyType ==
  ASSUME NEW r \in Request
  PROVE  Reply(r) \in Message \cup {NoMsg}
  BY DEF Reply, Response, EmptyMessage, Message, Request, Key1, ResponseCode

LEMMA ResponseIsMessage ==
  ASSUME NEW key \in Key, NEW type \in {"CON", "NON"}, NEW mid \in Mid,
         NEW code \in {"content", "notFound", "error"}
  PROVE  Response(key, type, mid, code) \in Message
  BY DEF Response, Message, Key

LEMMA RemoteType ==
  ASSUME NEW r \in Request
  PROVE  /\ RemoteExchange(r, Reply(r)) \in Exchange
         /\ RemoteExchange(r, Reply(r)).origin = "remote"
         /\ RemoteExchange(r, Reply(r)).key = Key1(r)
         /\ Key1(r) \in Key
         /\ r.con \in BOOLEAN
  BY ReplyType, ServerStackAssumption
     DEF RemoteExchange, Exchange, Request, Key, Key1

LEMMA LocalType ==
  ASSUME NEW key \in Key, NEW m \in Message
  PROVE  /\ LocalExchange(key, m) \in Exchange
         /\ LocalExchange(key, m).origin = "local"
         /\ LocalExchange(key, m).key = key
         /\ LocalExchange(key, m).msg = m
<1>1. m.mid \in Mid
  BY DEF Message
<1>2. (IF m.type = "CON" THEN AckTimeout ELSE Lifetime) \in Nat
  BY ServerStackAssumption
<1> QED
  BY <1>1, <1>2 DEF LocalExchange, Exchange

LEMMA RetransmittedType ==
  ASSUME NEW e \in Exchange
  PROVE  /\ Retransmitted(e) \in Exchange
         /\ Retransmitted(e).key = e.key
         /\ Retransmitted(e).origin = e.origin
         /\ Retransmitted(e).msg = e.msg
<1>1. 2 * AckTimeout \in Nat
  BY ServerStackAssumption
<1> DEFINE counted == [e EXCEPT !.count = @ + 1]
<1>2. counted \in Exchange /\ counted.key = e.key /\ counted.origin = e.origin
        /\ counted.msg = e.msg
  BY DEF Exchange
<1>3. Retransmitted(e) = [counted EXCEPT !.ttl = 2 * AckTimeout]
  BY DEF Retransmitted, Exchange
<1> HIDE DEF counted
<1> QED
  BY <1>1, <1>2, <1>3 DEF Exchange

LEMMA NextIdType ==
  ASSUME NEW mid \in Mid, NextId(mid)
  PROVE  midCounter' \in Mid
<1>1. MaxMid \in Nat /\ mid \in Nat /\ midCounter' = (mid + 1) % (MaxMid + 1)
  BY ServerStackAssumption DEF NextId, Mid
<1> QED
  BY <1>1 DEF Mid

(***************************************************************************)
(* The store, step by step.                                                *)
(***************************************************************************)
StoreInv == Store(exchanges, interactions, nextExchange)

LEMMA StoreMeans == StoreInv => StoreConsistent
<1> SUFFICES ASSUME StoreInv PROVE StoreConsistent
  OBVIOUS
<1>1. \A k \in DOMAIN interactions : Fits(interactions[k], k, exchanges)
  BY DEF StoreInv, Store
<1>2. \A k : OwnExchanges(k) = Own(exchanges, k)
  BY DEF OwnExchanges, Own
<1>3. CurrentExchangesOwned /\ CountIsExact
  BY <1>1, <1>2 DEF CurrentExchangesOwned, CountIsExact, Fits
<1>4. ExchangeHasInteraction
  BY DEF StoreInv, Store, ExchangeHasInteraction
<1> QED
  BY <1>3, <1>4 DEF StoreConsistent

LEMMA FoundInteraction ==
  ASSUME StoreInv, NEW key \in Key
  PROVE  Store(Remaining(CurrentExchanges(key)),
               Put(interactions, key, find_server_interaction(key)), nextExchange)
<1>1. CASE key \in DOMAIN interactions
  <2> DEFINE gone == CurrentExchanges(key)
  <2>1. Fits(interactions[key], key, exchanges)
    BY <1>1 DEF StoreInv, Store
  <2>2. gone \subseteq Own(exchanges, key)
    BY <1>1, <2>1 DEF CurrentExchanges, Fits
  <2>3. find_server_interaction(key)
          = Stripped(interactions[key], gone, Own(exchanges, key))
    BY <1>1 DEF find_server_interaction, Without, Stripped, OwnExchanges, Own
  <2>4. Remaining(gone) = Cut(exchanges, gone)
    BY DEF Remaining, Cut
  <2> HIDE DEF gone
  <2>5. Store(Cut(exchanges, gone),
              Put(interactions, key,
                  Stripped(interactions[key], gone, Own(exchanges, key))),
              nextExchange)
    BY <1>1, <2>2, StoreDelete DEF StoreInv
  <2> QED
    BY <2>3, <2>4, <2>5 DEF gone
<1>2. CASE key \notin DOMAIN interactions
  <2>1. CurrentExchanges(key) = {}
    BY <1>2 DEF CurrentExchanges
  <2>2. exchanges = [x \in DOMAIN exchanges |-> exchanges[x]]
    BY DEF StoreInv, Store
  <2>3. Remaining({}) = exchanges
    BY <2>2 DEF Remaining
  <2>4. find_server_interaction(key)
          = [in |-> Null, out |-> Null, exchanges |-> 0, con |-> FALSE]
    BY <1>2 DEF find_server_interaction
  <2> QED
    BY <1>2, <2>1, <2>3, <2>4, StoreCreate DEF StoreInv
<1> QED
  BY <1>1, <1>2

\* A new request: find_server_interaction, create_incoming_exchange and
\* add_server_exchange.
LEMMA RemoteStore ==
  ASSUME StoreInv, NEW r \in Request
  PROVE  LET key == Key1(r)
         IN  Store(Put(Remaining(CurrentExchanges(key)), nextExchange,
                       RemoteExchange(r, Reply(r))),
                   Put(interactions, key,
                       create_incoming_exchange(find_server_interaction(key),
                                                nextExchange, r.con)),
                   nextExchange + 1)
<1> DEFINE key == Key1(r)
           ex  == Remaining(CurrentExchanges(key))
           i   == find_server_interaction(key)
           its == Put(interactions, key, i)
           e   == RemoteExchange(r, Reply(r))
           j   == create_incoming_exchange(i, nextExchange, r.con)
<1>1. e \in Exchange /\ e.origin = "remote" /\ e.key = key /\ key \in Key /\ r.con \in BOOLEAN
  BY RemoteType
<1>2. Store(ex, its, nextExchange)
  BY <1>1, FoundInteraction
<1>3. its[key] = i /\ key \in DOMAIN its /\ Put(its, key, j) = Put(interactions, key, j)
  BY DEF Put
<1> HIDE DEF key, ex, i, its, e
<1>4. Fits(i, key, ex)
  BY <1>2, <1>3 DEF Store
<1>5. nextExchange \in Nat \ {0} /\ nextExchange \notin DOMAIN ex /\ IsFiniteSet(DOMAIN ex)
  BY <1>2, StoreFinite DEF Store
<1>6. Fits(j, key, Put(ex, nextExchange, e))
  BY <1>1, <1>4, <1>5, AddFits
<1> HIDE DEF j
<1>7. Store(Put(ex, nextExchange, e), Put(its, key, j), nextExchange + 1)
  BY <1>1, <1>2, <1>3, <1>6, StoreAdd
<1> QED
  BY <1>3, <1>7 DEF key, ex, i, e, j

\* create_outgoing_exchange and add_server_exchange, for an interaction found.
LEMMA LocalStore ==
  ASSUME NEW ex, NEW its, NEW next, Store(ex, its, next),
         NEW key \in DOMAIN its, NEW m \in Message
  PROVE  Store(Put(ex, next, LocalExchange(key, m)),
               Put(its, key, create_outgoing_exchange(its[key], next)), next + 1)
<1>1. key \in Key
  BY DEF Store
<1>2. /\ LocalExchange(key, m) \in Exchange
      /\ LocalExchange(key, m).origin = "local"
      /\ LocalExchange(key, m).key = key
  BY <1>1, LocalType
<1>3. Fits(its[key], key, ex)
  BY DEF Store
<1>4. next \in Nat \ {0} /\ next \notin DOMAIN ex /\ IsFiniteSet(DOMAIN ex)
  BY StoreFinite DEF Store
<1>5. Fits(create_outgoing_exchange(its[key], next), key,
           Put(ex, next, LocalExchange(key, m)))
  BY <1>2, <1>3, <1>4, AddFits
<1> QED
  BY <1>2, <1>5, StoreAdd

LEMMA RequestStore ==
  ASSUME StoreInv, NEW r \in Requests,
         \/ HandleWithin(r)
         \/ HandleSeparately(r) /\ ResponseType(r) \in {"CON", "NON"}
  PROVE  StoreInv'
<1>1. r \in Request
  BY ServerStackAssumption
<1>2. CASE HandleWithin(r)
  BY <1>1, <1>2, RemoteStore DEF HandleWithin, StoreInv
<1>3. CASE HandleSeparately(r) /\ ResponseType(r) \in {"CON", "NON"}
  <2> DEFINE key == Key1(r)
             ex  == Put(Remaining(CurrentExchanges(key)), nextExchange,
                        RemoteExchange(r, Reply(r)))
             i   == create_incoming_exchange(find_server_interaction(key),
                                             nextExchange, r.con)
             its == Put(interactions, key, i)
             m(mid) == Response(key, ResponseType(r), mid, ResponseCode(r))
  <2>1. PICK mid \in Mid :
          /\ exchanges' = Put(ex, nextExchange + 1, LocalExchange(key, m(mid)))
          /\ interactions' = Put(interactions, key,
                                 create_outgoing_exchange(i, nextExchange + 1))
          /\ nextExchange' = nextExchange + 2
          /\ m(mid) \in Message
    <3>1. PICK mid \in Mid :
            /\ exchanges' = Put(ex, nextExchange + 1, LocalExchange(key, m(mid)))
            /\ interactions' = Put(interactions, key,
                                   create_outgoing_exchange(i, nextExchange + 1))
            /\ nextExchange' = nextExchange + 2
            /\ wire' = wire \cup {m(mid)} \cup ({Reply(r)} \ {NoMsg})
      BY <1>3 DEF HandleSeparately
    <3>2. m(mid) \in Message
      BY <1>1, <1>3, RemoteType, ResponseIsMessage DEF ResponseCode
    <3> QED
      BY <3>1, <3>2
  <2>2. Store(ex, its, nextExchange + 1)
    BY <1>1, RemoteStore
  <2>3. key \in DOMAIN its /\ its[key] = i /\ \A v : Put(its, key, v) = Put(interactions, key, v)
    BY DEF Put
  <2> HIDE DEF ex, its, i, key, m
  <2>4. Store(Put(ex, nextExchange + 1, LocalExchange(key, m(mid))),
              Put(its, key, create_outgoing_exchange(its[key], nextExchange + 1)),
              (nextExchange + 1) + 1)
    BY <2>1, <2>2, <2>3, LocalStore
  <2>5. nextExchange' = (nextExchange + 1) + 1
    BY <2>1 DEF StoreInv, Store
  <2> QED
    BY <2>1, <2>3, <2>4, <2>5 DEF StoreInv
<1> QED
  BY <1>2, <1>3

\* receive_empty_msg.
LEMMA EmptyStore ==
  ASSUME StoreInv, NEW x \in DOMAIN exchanges,
         exchanges' = Remaining({x}),
         interactions' = [interactions EXCEPT
                            ![exchanges[x].key] = Without(exchanges[x].key, {x})],
         nextExchange' = nextExchange
  PROVE  StoreInv'
<1> DEFINE key == exchanges[x].key
<1>1. key \in DOMAIN interactions /\ x \in Own(exchanges, key)
  BY DEF StoreInv, Store, Own
<1>2. exchanges' = Cut(exchanges, {x})
  BY DEF Remaining, Cut
<1>3. Without(key, {x}) = Stripped(interactions[key], {x}, Own(exchanges, key))
  BY DEF Without, Stripped, OwnExchanges, Own
<1> HIDE DEF key
<1>4. interactions' = Put(interactions, key, Without(key, {x}))
  BY <1>1 DEF Put, StoreInv, Store, key
<1>5. Store(Cut(exchanges, {x}),
            Put(interactions, key,
                Stripped(interactions[key], {x}, Own(exchanges, key))), nextExchange)
  BY <1>1, StoreDelete DEF StoreInv
<1> QED
  BY <1>2, <1>3, <1>4, <1>5 DEF StoreInv

LEMMA HeartBeatStore ==
  ASSUME StoreInv, HeartBeat
  PROVE  StoreInv'
<1>1. /\ DOMAIN exchanges' = DOMAIN exchanges \ ExpiredExchanges
      /\ \A x \in DOMAIN exchanges' :
           /\ exchanges'[x] \in Exchange
           /\ exchanges'[x].key = exchanges[x].key
           /\ exchanges'[x].origin = exchanges[x].origin
  <2>1. exchanges' = [x \in DOMAIN exchanges \ ExpiredExchanges |->
                        IF x \in RetransmittedExchanges
                        THEN Retransmitted(exchanges[x]) ELSE exchanges[x]]
    BY DEF HeartBeat, check_remove_expired_server_exchanges
  <2>2. ASSUME NEW x \in DOMAIN exchanges
        PROVE  /\ Retransmitted(exchanges[x]) \in Exchange
               /\ Retransmitted(exchanges[x]).key = exchanges[x].key
               /\ Retransmitted(exchanges[x]).origin = exchanges[x].origin
    <3>1. exchanges[x] \in Exchange
      BY DEF StoreInv, Store
    <3> QED
      BY <3>1, RetransmittedType
  <2>3. \A x \in DOMAIN exchanges : exchanges[x] \in Exchange
    BY DEF StoreInv, Store
  <2> QED
    BY <2>1, <2>2, <2>3
<1>2. exchanges' \in [DOMAIN exchanges' -> Exchange]
  <2>1. exchanges' = [x \in DOMAIN exchanges' |-> exchanges'[x]]
    BY DEF HeartBeat, check_remove_expired_server_exchanges
  <2> QED
    BY <1>1, <2>1
<1> DEFINE kept(k) == Stripped(interactions[k], ExpiredExchanges, Own(exchanges, k))
<1>3. \A k : Without(k, ExpiredExchanges) = kept(k)
  BY DEF Without, Stripped, OwnExchanges, Own
<1>4. interactions' =
        [k \in {l \in DOMAIN interactions : kept(l).exchanges # 0} |-> kept(k)]
  BY <1>3 DEF HeartBeat, remove_expired_server_interaction, has_exchanges
<1>5. nextExchange' = nextExchange
  BY DEF HeartBeat
<1> HIDE DEF kept
<1>6. Store(exchanges',
            [k \in {l \in DOMAIN interactions : kept(l).exchanges # 0} |-> kept(k)],
            nextExchange)
  BY <1>1, <1>2, StoreExpire DEF StoreInv, kept
<1> QED
  BY <1>4, <1>5, <1>6 DEF StoreInv

LEMMA TickStore ==
  ASSUME StoreInv, Tick
  PROVE  StoreInv'
<1>1. exchanges' = [x \in DOMAIN exchanges |-> [exchanges[x] EXCEPT !.ttl = Less(@)]]
  BY DEF Tick
<1>2. \A x \in DOMAIN exchanges :
        /\ exchanges'[x] \in Exchange
        /\ exchanges'[x].key = exchanges[x].key
        /\ exchanges'[x].origin = exchanges[x].origin
  <2>1. \A x \in DOMAIN exchanges : exchanges[x] \in Exchange
    BY DEF StoreInv, Store
  <2> QED
    BY <1>1, <2>1 DEF Exchange, Less
<1>3. exchanges' \in [DOMAIN exchanges' -> Exchange] /\ DOMAIN exchanges' = DOMAIN exchanges
  BY <1>1, <1>2
<1>4. interactions' = interactions /\ nextExchange' = nextExchange
  BY DEF Tick
<1>5. \A k \in DOMAIN interactions : Fits(interactions[k], k, exchanges')
  <2>1. \A k \in DOMAIN interactions : Fits(interactions[k], k, exchanges)
    BY DEF StoreInv, Store
  <2> QED
    BY <1>2, <1>3, <2>1, SameFits
<1> QED
  BY <1>2, <1>3, <1>4, <1>5 DEF StoreInv, Store

(***************************************************************************)
(* What is sent: ReplyAnswersRequest for one message, and the reason why a *)
(* repeated reply and a retransmission send nothing new.                   *)
(***************************************************************************)
Answered(m, requests) ==
  m.type # "RST" =>
    \E r \in requests : /\ m.to = r.ep
                        /\ m.code # "empty" => m.token = r.token
                        /\ m.type = "ACK" => r.con /\ m.mid = r.mid

Sent(e, messages) ==
  /\ e.msg # NoMsg => e.msg \in messages
  /\ e.origin = "local" => e.msg # NoMsg

ExchangesSent == \A x \in DOMAIN exchanges : Sent(exchanges[x], wire)

\* A resource that still has to answer was asked.
SlowAsked ==
  \A i \in DOMAIN slow : \E r \in received : Key1(r) = slow[i].key

LEMMA MessageNotNull == NoMsg \notin Message
  BY NoMsgAssumption DEF Message

LEMMA ReplyAnswered ==
  ASSUME NEW r \in Request, Reply(r) # NoMsg
  PROVE  Answered(Reply(r), {r})
<1>1. ResponseType(r) = "ACK" => r.con
  BY DEF ResponseType, is_slow
<1>2. CASE ResponseType(r) = "ACK"
  BY <1>1, <1>2 DEF Answered, Reply, Response, Key1
<1>3. CASE ResponseType(r) # "ACK"
  BY <1>3 DEF Answered, Reply, EmptyMessage
<1> QED
  BY <1>2, <1>3

LEMMA ResponseAnswered ==
  ASSUME NEW requests, NEW r \in requests, NEW type \in {"CON", "NON"}, NEW mid, NEW code
  PROVE  Answered(Response(Key1(r), type, mid, code), requests)
  BY DEF Answered, Response, Key1

\* What a new request sends, and the exchanges it leaves.
LEMMA RequestSends ==
  ASSUME TypeOK, StoreInv, NEW r \in Requests, ReceiveRequest(r)
  PROVE  \E new \in SUBSET Message :
           /\ wire' = wire \cup new
           /\ \A m \in new : Answered(m, {r})
           /\ \A x \in DOMAIN exchanges' :
                \/ x \in DOMAIN exchanges /\ exchanges'[x] = exchanges[x]
                \/ Sent(exchanges'[x], new)
           /\ midCounter' \in Mid
<1> DEFINE key == Key1(r)
           cur == Remaining(CurrentExchanges(key))
           e   == RemoteExchange(r, Reply(r))
           ack == {Reply(r)} \ {NoMsg}
<1>1. /\ r \in Request /\ key \in Key
      /\ ack \subseteq Message /\ \A m \in ack : Answered(m, {r})
      /\ Sent(e, ack)
  <2>1. r \in Request
    BY ServerStackAssumption
  <2> QED
    BY <2>1, ReplyType, RemoteType, ReplyAnswered DEF RemoteExchange, Sent
<1>2. \A x \in DOMAIN cur : x \in DOMAIN exchanges /\ cur[x] = exchanges[x]
  BY DEF Remaining
<1>3. CASE HandleWithin(r)
  <2>1. /\ wire' = wire \cup ack
        /\ midCounter' = midCounter
        /\ exchanges' = Put(cur, nextExchange, e)
    BY <1>3 DEF HandleWithin
  <2> HIDE DEF key, cur, e, ack
  <2>2. \A x \in DOMAIN exchanges' :
          \/ x \in DOMAIN exchanges /\ exchanges'[x] = exchanges[x]
          \/ Sent(exchanges'[x], ack)
    BY <1>1, <1>2, <2>1 DEF Put
  <2>3. midCounter' \in Mid
    BY <2>1 DEF TypeOK
  <2> QED
    BY <1>1, <2>1, <2>2, <2>3
<1>4. CASE HandleSeparately(r) /\ ResponseType(r) \in {"CON", "NON"}
  <2> DEFINE m(mid) == Response(key, ResponseType(r), mid, ResponseCode(r))
  <2>1. PICK mid \in Mid :
          /\ NextId(mid)
          /\ wire' = wire \cup {m(mid)} \cup ack
          /\ exchanges' = Put(Put(cur, nextExchange, e), nextExchange + 1,
                              LocalExchange(key, m(mid)))
    BY <1>4 DEF HandleSeparately
  <2>2. m(mid) \in Message /\ Answered(m(mid), {r})
    BY <1>1, <1>4, ResponseIsMessage, ResponseAnswered DEF ResponseCode
  <2>3. midCounter' \in Mid
    BY <2>1, NextIdType
  <2>4. LocalExchange(key, m(mid)).msg = m(mid)
    BY <1>1, <2>2, LocalType
  <2> DEFINE new == {m(mid)} \cup ack
  <2>5. Sent(LocalExchange(key, m(mid)), new) /\ Sent(e, new)
    BY <1>1, <2>2, <2>4, MessageNotNull DEF Sent
  <2> HIDE DEF key, cur, e, ack, m
  <2>6. \A x \in DOMAIN exchanges' :
          \/ x \in DOMAIN exchanges /\ exchanges'[x] = exchanges[x]
          \/ Sent(exchanges'[x], new)
    BY <1>2, <2>1, <2>5 DEF Put
  <2>7. new \subseteq Message /\ wire' = wire \cup new /\ \A n \in new : Answered(n, {r})
    BY <1>1, <2>1, <2>2
  <2> QED
    BY <2>3, <2>6, <2>7
<1> QED
  BY <1>3, <1>4 DEF ReceiveRequest

(***************************************************************************)
(* The inductive invariant.                                                *)
(***************************************************************************)
StackInv ==
  TypeOK /\ StoreInv /\ ExchangesSent /\ SlowAsked /\ ReplyAnswersRequest

LEMMA AnsweredMeans ==
  ReplyAnswersRequest <=> \A m \in wire : Answered(m, received)
  BY DEF ReplyAnswersRequest, Answered

\* The part of TypeOK that StoreInv does not give.
OthersOK ==
  /\ midCounter \in Mid
  /\ slow \in Seq(SlowAnswer)
  /\ beat \in Nat
  /\ wire \subseteq Message
  /\ received \subseteq Requests
  /\ fresh \in [Requests -> Int]

LEMMA TypeParts == StoreInv /\ OthersOK => TypeOK
<1> SUFFICES ASSUME StoreInv, OthersOK PROVE TypeOK
  OBVIOUS
<1>1. /\ nextExchange \in Nat \ {0}
      /\ DOMAIN exchanges \subseteq 1 .. (nextExchange - 1)
      /\ exchanges \in [DOMAIN exchanges -> Exchange]
      /\ DOMAIN interactions \subseteq Key
      /\ interactions \in [DOMAIN interactions -> Interaction]
  BY DEF StoreInv, Store
<1> QED
  BY <1>1 DEF TypeOK, OthersOK

LEMMA StackInvRequest ==
  ASSUME StackInv, NEW r \in Requests, ReceiveRequest(r)
  PROVE  StackInv'
<1>1. PICK new \in SUBSET Message :
         /\ wire' = wire \cup new
         /\ \A m \in new : Answered(m, {r})
         /\ \A x \in DOMAIN exchanges' :
              \/ x \in DOMAIN exchanges /\ exchanges'[x] = exchanges[x]
              \/ Sent(exchanges'[x], new)
         /\ midCounter' \in Mid
  BY RequestSends DEF StackInv
<1>2. /\ received' = received \cup {r}
      /\ fresh' = [fresh EXCEPT ![r] = Lifetime]
      /\ beat' = beat
      /\ StartSlowTimer(r)
  BY DEF ReceiveRequest
<1>3. StoreInv'
  BY RequestStore DEF StackInv, ReceiveRequest
<1>4. r \in Request /\ Key1(r) \in Key
  BY RemoteType, ServerStackAssumption
<1>5. slow' \in Seq(SlowAnswer) /\ SlowAsked'
  <2>1. slow \in Seq(SlowAnswer)
    BY DEF StackInv, TypeOK
  <2>2. CASE slow' = slow
    BY <1>2, <2>1, <2>2 DEF StackInv, SlowAsked
  <2>3. CASE slow' # slow
    <3> DEFINE a == [key |-> Key1(r), type |-> IF r.target = "slow" THEN "NONE" ELSE "NON",
                     ttl |-> SlowDelay]
    <3>1. slow' = Append(slow, a)
      BY <1>2, <2>3 DEF StartSlowTimer
    <3>2. a \in SlowAnswer
      BY <1>4, ServerStackAssumption DEF SlowAnswer
    <3>3. a.key = Key1(r)
      OBVIOUS
    <3> HIDE DEF a
    <3>4. /\ slow' \in Seq(SlowAnswer)
          /\ \A i \in DOMAIN slow' : \/ i \in DOMAIN slow /\ slow'[i] = slow[i]
                                     \/ slow'[i] = a
      BY <2>1, <3>1, <3>2
    <3> QED
      BY <1>2, <3>3, <3>4 DEF StackInv, SlowAsked
  <2> QED
    BY <2>2, <2>3
<1>6. OthersOK'
  <2>1. fresh' \in [Requests -> Int]
    BY <1>2, ServerStackAssumption DEF StackInv, TypeOK
  <2> QED
    BY <1>1, <1>2, <1>5, <2>1 DEF StackInv, TypeOK, OthersOK
<1>7. TypeOK'
  BY <1>3, <1>6, TypeParts, PTL
<1>8. ExchangesSent'
  BY <1>1 DEF StackInv, ExchangesSent, Sent
<1>9. ReplyAnswersRequest'
  <2>1. \A m \in wire' : Answered(m, received')
    BY <1>1, <1>2, AnsweredMeans DEF StackInv, Answered
  <2> QED
    BY <2>1 DEF Answered, ReplyAnswersRequest
<1> QED
  BY <1>3, <1>5, <1>7, <1>8, <1>9 DEF StackInv

\* A step that sends nothing new, or only resets, and keeps or deletes exchanges.
LEMMA StackInvQuiet ==
  ASSUME StackInv, StoreInv', OthersOK', SlowAsked', received \subseteq received',
         wire \subseteq wire',
         \A m \in wire' : m \in wire \/ m.type = "RST",
         \A x \in DOMAIN exchanges' :
           /\ x \in DOMAIN exchanges
           /\ exchanges'[x].msg = exchanges[x].msg
           /\ exchanges'[x].origin = exchanges[x].origin
  PROVE  StackInv'
<1>1. TypeOK'
  BY TypeParts, PTL
<1>2. ExchangesSent'
  BY DEF StackInv, ExchangesSent, Sent
<1>3. ReplyAnswersRequest'
  BY DEF StackInv, ReplyAnswersRequest
<1> QED
  BY <1>1, <1>2, <1>3 DEF StackInv

LEMMA StackInvDuplicate ==
  ASSUME StackInv, NEW r \in Requests, ReceiveDuplicate(r)
  PROVE  StackInv'
<1>1. wire' = wire
  <2>1. PICK x \in DOMAIN exchanges :
           wire' = IF exchanges[x].origin = "remote" /\ exchanges[x].con
                   THEN wire \cup ({exchanges[x].msg} \ {NoMsg}) ELSE wire
    BY DEF ReceiveDuplicate, find_server_exchange, Matching, ResendReply
  <2> QED
    BY <2>1 DEF StackInv, ExchangesSent, Sent
<1>2. /\ received' = received \cup {r}
      /\ UNCHANGED <<exchanges, interactions, nextExchange, midCounter, slow, beat, fresh>>
  BY DEF ReceiveDuplicate, store
<1>3. OthersOK'
  BY <1>1, <1>2 DEF StackInv, TypeOK, OthersOK
<1>4. StoreInv' /\ SlowAsked'
  BY <1>2 DEF StackInv, StoreInv, SlowAsked
<1> QED
  BY <1>1, <1>2, <1>3, <1>4, StackInvQuiet

LEMMA StackInvReject ==
  ASSUME StackInv, NEW d \in Datagrams, RejectDatagram(d)
  PROVE  StackInv'
<1> DEFINE mid == IF d.kind = "format" THEN 0 ELSE d.mid
           m   == EmptyMessage(d.ep, "RST", mid)
<1>0. mid \in Mid
  BY ServerStackAssumption DEF Datagram, Mid
<1>1. m \in Message /\ m.type = "RST"
  BY <1>0, ServerStackAssumption DEF Datagram, EmptyMessage, Message
<1>2. /\ wire' = wire \cup {m}
      /\ UNCHANGED <<exchanges, interactions, nextExchange, midCounter, slow, beat,
                     received, fresh>>
  BY DEF RejectDatagram, store
<1> HIDE DEF m
<1>3. OthersOK'
  BY <1>1, <1>2 DEF StackInv, TypeOK, OthersOK
<1>4. StoreInv' /\ SlowAsked'
  BY <1>2 DEF StackInv, StoreInv, SlowAsked
<1> QED
  BY <1>1, <1>2, <1>3, <1>4, StackInvQuiet

LEMMA StackInvEmpty ==
  ASSUME StackInv, NEW ep, NEW mid, ReceiveEmpty(ep, mid)
  PROVE  StackInv'
<1>1. PICK x \in DOMAIN exchanges :
        /\ exchanges' = Remaining({x})
        /\ interactions' = [interactions EXCEPT
                              ![exchanges[x].key] = Without(exchanges[x].key, {x})]
  BY DEF ReceiveEmpty, find_server_exchange, Matching
<1>2. UNCHANGED <<nextExchange, midCounter, slow, beat, wire, received, fresh>>
  BY DEF ReceiveEmpty
<1>3. StoreInv'
  BY <1>1, <1>2, EmptyStore DEF StackInv
<1>4. OthersOK' /\ SlowAsked'
  BY <1>2 DEF StackInv, TypeOK, OthersOK, SlowAsked
<1>5. \A y \in DOMAIN exchanges' : y \in DOMAIN exchanges /\ exchanges'[y] = exchanges[y]
  BY <1>1 DEF Remaining
<1> QED
  BY <1>2, <1>3, <1>4, <1>5, StackInvQuiet

LEMMA StackInvSeparate ==
  ASSUME StackInv, SendSeparateResponse
  PROVE  StackInv'
<1> DEFINE a == Head(slow)
<1>1. /\ slow \in Seq(SlowAnswer) /\ slow # <<>>
      /\ slow' = Tail(slow)
      /\ UNCHANGED <<beat, received, fresh>>
  BY DEF SendSeparateResponse, StackInv, TypeOK
<1>2. /\ slow' \in Seq(SlowAnswer)
      /\ \A i \in DOMAIN slow' : i + 1 \in DOMAIN slow /\ slow'[i] = slow[i + 1]
      /\ 1 \in DOMAIN slow /\ a = slow[1]
  BY <1>1
<1>3. PICK r \in received : Key1(r) = a.key
  BY <1>2 DEF StackInv, SlowAsked
<1>4. SlowAsked'
  BY <1>1, <1>2 DEF StackInv, SlowAsked
<1>5. CASE a.key \notin DOMAIN interactions
  <2>1. UNCHANGED <<exchanges, interactions, nextExchange, midCounter, wire>>
    BY <1>5 DEF SendSeparateResponse, store
  <2>2. OthersOK' /\ StoreInv'
    BY <1>1, <1>2, <2>1 DEF StackInv, TypeOK, OthersOK, StoreInv
  <2> QED
    BY <1>1, <1>4, <2>1, <2>2, StackInvQuiet
<1>6. CASE a.key \in DOMAIN interactions
  <2> DEFINE type == IF a.type = "NONE" /\ interactions[a.key].con THEN "CON" ELSE "NON"
             m(mid) == Response(a.key, type, mid, "content")
  <2>1. PICK mid \in Mid :
          /\ NextId(mid)
          /\ exchanges' = Put(exchanges, nextExchange, LocalExchange(a.key, m(mid)))
          /\ interactions' = [interactions EXCEPT
                                ![a.key] = create_outgoing_exchange(@, nextExchange)]
          /\ nextExchange' = nextExchange + 1
          /\ wire' = wire \cup {m(mid)}
    BY <1>6 DEF SendSeparateResponse
  <2>2. a.key \in Key
    BY <1>6 DEF StackInv, TypeOK
  <2>3. m(mid) \in Message /\ Answered(m(mid), received)
    BY <1>3, <2>2, ResponseIsMessage, ResponseAnswered
  <2>4. LocalExchange(a.key, m(mid)).msg = m(mid)
    BY <2>2, <2>3, LocalType
  <2> DEFINE n == m(mid)
  <2>5. Sent(LocalExchange(a.key, n), {n})
    BY <2>3, <2>4, MessageNotNull DEF Sent
  <2>6. midCounter' \in Mid
    BY <2>1, NextIdType
  <2>7. interactions' = Put(interactions, a.key,
                            create_outgoing_exchange(interactions[a.key], nextExchange))
    BY <1>6, <2>1 DEF Put, StackInv, TypeOK
  <2> HIDE DEF a, m, n
  <2>8. StoreInv'
    <3>1. Store(Put(exchanges, nextExchange, LocalExchange(a.key, m(mid))),
                Put(interactions, a.key,
                    create_outgoing_exchange(interactions[a.key], nextExchange)),
                nextExchange + 1)
      BY <1>6, <2>3, LocalStore DEF StackInv, StoreInv
    <3> QED
      BY <2>1, <2>7, <3>1 DEF StoreInv
  <2>9. OthersOK'
    BY <1>1, <1>2, <2>1, <2>3, <2>6 DEF StackInv, TypeOK, OthersOK
  <2>10. TypeOK'
    BY <2>8, <2>9, TypeParts, PTL
  <2>11. ExchangesSent'
    BY <2>1, <2>5 DEF StackInv, ExchangesSent, Sent, Put, n
  <2>12. ReplyAnswersRequest'
    <3>1. \A k \in wire' : Answered(k, received')
      BY <1>1, <2>1, <2>3, AnsweredMeans DEF StackInv
    <3> QED
      BY <3>1 DEF Answered, ReplyAnswersRequest
  <2> QED
    BY <1>4, <2>8, <2>10, <2>11, <2>12 DEF StackInv
<1> QED
  BY <1>5, <1>6

LEMMA StackInvHeartBeat ==
  ASSUME StackInv, HeartBeat
  PROVE  StackInv'
<1>1. StoreInv'
  BY HeartBeatStore DEF StackInv
<1>2. /\ UNCHANGED <<midCounter, slow, received, fresh>>
      /\ beat' \in Nat
  BY ServerStackAssumption DEF HeartBeat
<1>3. \A x \in DOMAIN exchanges' :
        /\ x \in DOMAIN exchanges
        /\ exchanges'[x].msg = exchanges[x].msg
        /\ exchanges'[x].origin = exchanges[x].origin
  <2>1. exchanges' = [x \in DOMAIN exchanges \ ExpiredExchanges |->
                        IF x \in RetransmittedExchanges
                        THEN Retransmitted(exchanges[x]) ELSE exchanges[x]]
    BY DEF HeartBeat, check_remove_expired_server_exchanges
  <2>2. \A x \in DOMAIN exchanges : exchanges[x] \in Exchange
    BY DEF StackInv, TypeOK
  <2> QED
    BY <2>1, <2>2, RetransmittedType
<1>4. wire' = wire
  <2>1. wire' = wire \cup {exchanges[x].msg : x \in RetransmittedExchanges}
    BY DEF HeartBeat, check_remove_expired_server_exchanges
  <2>2. \A x \in RetransmittedExchanges : exchanges[x].msg \in wire
    BY DEF RetransmittedExchanges, is_con_outgoing, StackInv, ExchangesSent, Sent
  <2> QED
    BY <2>1, <2>2
<1>5. OthersOK' /\ SlowAsked'
  BY <1>2, <1>4 DEF StackInv, TypeOK, OthersOK, SlowAsked
<1> QED
  BY <1>1, <1>2, <1>3, <1>4, <1>5, StackInvQuiet

LEMMA StackInvDrop ==
  ASSUME StackInv, DropEvent
  PROVE  StackInv'
<1>1. UNCHANGED <<exchanges, interactions, nextExchange, midCounter, wire,
                  received, fresh>>
  BY DEF DropEvent, store
<1>2. CASE slow # <<>> /\ slow' = Tail(slow) /\ beat' = beat
  <2>1. /\ slow' \in Seq(SlowAnswer)
        /\ \A i \in DOMAIN slow' : i + 1 \in DOMAIN slow /\ slow'[i] = slow[i + 1]
    BY <1>2 DEF StackInv, TypeOK
  <2>2. SlowAsked' /\ OthersOK' /\ StoreInv'
    BY <1>1, <1>2, <2>1 DEF StackInv, TypeOK, SlowAsked, OthersOK, StoreInv
  <2> QED
    BY <1>1, <2>2, StackInvQuiet
<1>3. CASE slow' = slow /\ beat' = BeatPeriod
  <2>1. SlowAsked' /\ OthersOK' /\ StoreInv'
    BY <1>1, <1>3, ServerStackAssumption
       DEF StackInv, TypeOK, SlowAsked, OthersOK, StoreInv
  <2> QED
    BY <1>1, <2>1, StackInvQuiet
<1> QED
  BY <1>2, <1>3 DEF DropEvent

LEMMA StackInvTick ==
  ASSUME StackInv, Tick
  PROVE  StackInv'
<1>1. StoreInv'
  BY TickStore DEF StackInv
<1>2. UNCHANGED <<midCounter, wire, received>>
  BY DEF Tick
<1>3. \A x \in DOMAIN exchanges' :
        /\ x \in DOMAIN exchanges
        /\ exchanges'[x].msg = exchanges[x].msg
        /\ exchanges'[x].origin = exchanges[x].origin
  BY DEF Tick, StackInv, TypeOK, Exchange
<1>4. slow' \in Seq(SlowAnswer) /\ SlowAsked'
  <2>1. slow \in Seq(SlowAnswer)
    BY DEF StackInv, TypeOK
  <2>2. slow' = [i \in DOMAIN slow |-> [slow[i] EXCEPT !.ttl = Less(@)]]
    BY DEF Tick
  <2>3. \A i \in DOMAIN slow : /\ slow[i] \in SlowAnswer
                               /\ slow'[i] \in SlowAnswer
                               /\ slow'[i].key = slow[i].key
    <3>1. \A i \in DOMAIN slow : slow[i] \in SlowAnswer
      BY <2>1
    <3>2. \A a \in SlowAnswer : /\ [a EXCEPT !.ttl = Less(@)] \in SlowAnswer
                                /\ [a EXCEPT !.ttl = Less(@)].key = a.key
      BY DEF SlowAnswer, Less
    <3> QED
      BY <2>2, <3>1, <3>2
  <2>4. DOMAIN slow' = 1 .. Len(slow) /\ Len(slow) \in Nat
    BY <2>1, <2>2
  <2>5. slow' \in Seq(SlowAnswer)
    BY <2>1, <2>2, <2>3, <2>4
  <2> QED
    BY <1>2, <2>2, <2>3, <2>5 DEF StackInv, SlowAsked
<1>5. beat' \in Nat /\ fresh' \in [Requests -> Int]
  BY DEF Tick, Less, StackInv, TypeOK
<1>6. OthersOK'
  BY <1>2, <1>4, <1>5 DEF StackInv, TypeOK, OthersOK
<1> QED
  BY <1>1, <1>2, <1>3, <1>4, <1>6, StackInvQuiet

LEMMA StackInvInit == Init => StackInv
<1> SUFFICES ASSUME Init PROVE StackInv
  OBVIOUS
<1>1. DOMAIN exchanges = {} /\ DOMAIN interactions = {} /\ DOMAIN slow = {}
  BY DEF Init
<1>2. StoreInv
  BY <1>1 DEF Init, StoreInv, Store
<1>3. OthersOK
  BY ServerStackAssumption DEF Init, OthersOK, Mid
<1>4. ExchangesSent /\ SlowAsked /\ ReplyAnswersRequest
  BY <1>1 DEF Init, ExchangesSent, SlowAsked, ReplyAnswersRequest
<1> QED
  BY <1>2, <1>3, <1>4, TypeParts DEF StackInv

LEMMA StackInvNext ==
  ASSUME StackInv, [Next]_vars
  PROVE  StackInv'
<1>1. CASE UNCHANGED vars
  BY <1>1
     DEF vars, StackInv, TypeOK, StoreInv, ExchangesSent, SlowAsked,
         ReplyAnswersRequest
<1>2. CASE PeerAnswers
  BY <1>2, StackInvEmpty DEF PeerAnswers
<1> QED
  BY <1>1, <1>2, StackInvRequest, StackInvDuplicate, StackInvReject,
     StackInvSeparate, StackInvHeartBeat, StackInvDrop, StackInvTick DEF Next

(***************************************************************************)
(* Every variable of the stack keeps its type: message ids stay within     *)
(* their width when the counter wraps, and nothing but messages is sent.   *)
(***************************************************************************)
THEOREM StackTypeSafe == Spec => []TypeOK
<1>1. StackInv => TypeOK
  BY DEF StackInv
<1>2. StackInv /\ [Next]_vars => StackInv'
  BY StackInvNext
<1> QED
  BY <1>1, <1>2, StackInvInit, PTL DEF Spec

(***************************************************************************)
(* The list of exchanges and the list of interactions agree after every    *)
(* event, whatever is received, answered late or expired: no exchange      *)
(* points to a freed interaction, no interaction to a freed exchange, and  *)
(* the count by which interactions are freed is exact.                     *)
(***************************************************************************)
THEOREM StackStoreConsistent == Spec => []StoreConsistent
<1>1. StackInv => StoreConsistent
  BY StoreMeans DEF StackInv
<1>2. StackInv /\ [Next]_vars => StackInv'
  BY StackInvNext
<1> QED
  BY <1>1, <1>2, StackInvInit, PTL DEF Spec

(***************************************************************************)
(* Every message but a reset answers a request that was received from the  *)
(* peer it is sent to, with the token and the id of that request, also     *)
(* when it is a repetition, a late answer or a retransmission.             *)
(***************************************************************************)
THEOREM StackRepliesAnswer == Spec => []ReplyAnswersRequest
<1>1. StackInv => ReplyAnswersRequest
  BY DEF StackInv
<1>2. StackInv /\ [Next]_vars => StackInv'
  BY StackInvNext
<1> QED
  BY <1>1, <1>2, StackInvInit, PTL DEF Spec

(***************************************************************************)
(* Deduplication and late answers.                                         *)
(*                                                                         *)
(* The code finds an exchange by the peer and the message id alone, and an *)
(* interaction by the peer and the token: what follows holds where these   *)
(* tell messages apart.                                                    *)
(***************************************************************************)

\* No message of the server's own has the id of a request of its peer.
IdsApart ==
  \A m \in wire : m.type \in {"CON", "NON"} =>
    \A r \in Requests : r.ep = m.to => r.mid # m.mid

\* Peers give each request an id, or a token, of its own.
DistinctIds == \A r, s \in Requests : r.ep = s.ep /\ r.mid = s.mid => r = s

FreshTokens == \A r, s \in Requests : Key1(r) = Key1(s) => r = s

\* A slow resource answers within the lifetime of the exchange, and its answer
\* is not held up in the queue of the stack task.
InTime == Punctual /\ SlowDelay < Lifetime

SlowConfirmable == \A r \in Requests : is_slow(r) => r.con

\* A received exchange is that of a request, a local one that of its message.
From(e, asked) ==
  /\ e.origin = "remote" => \E s \in asked : Key1(s) = e.key /\ s.mid = e.mid
  /\ e.origin = "local" =>
       e.msg.type \in {"CON", "NON"} /\ e.msg.to = e.key[1] /\ e.msg.mid = e.mid

ExchangesFrom == \A x \in DOMAIN exchanges : From(exchanges[x], received)

SlowFrom ==
  \A i \in DOMAIN slow : \E s \in received : is_slow(s) /\ Key1(s) = slow[i].key

\* The slow resource that was asked first answers first.
SlowOrdered ==
  \A i, j \in DOMAIN slow : slow[i].ttl <= SlowDelay /\ (i <= j => slow[i].ttl <= slow[j].ttl)

FreshBound == \A r \in Requests : fresh[r] <= Lifetime

\* The received exchanges of a key that live for at least t more ticks.
Lasting(ex, k, t) ==
  {x \in DOMAIN ex : ex[x].origin = "remote" /\ ex[x].key = k /\ ex[x].ttl >= t}

\* A confirmable request is remembered as long as it may be repeated.
Remembered ==
  \A r \in Requests : r.con /\ fresh[r] > 0 => Lasting(exchanges, Key1(r), fresh[r]) # {}

\* A request that is answered late has an exchange that outlives the wait.
SlowBacked ==
  \A i \in DOMAIN slow :
    Lasting(exchanges, slow[i].key, slow[i].ttl + (Lifetime - SlowDelay)) # {}

\* An interaction that waits for a late answer waits for one, and has sent none.
OutFree ==
  \A i \in DOMAIN slow :
    /\ slow[i].key \in DOMAIN interactions => interactions[slow[i].key].out = Null
    /\ \A j \in DOMAIN slow : slow[j].key = slow[i].key => j = i

\* The exchanges of an interaction are its current ones.
Tight ==
  \A k \in DOMAIN interactions :
    Own(exchanges, k) \subseteq {interactions[k].in, interactions[k].out}

DedupInv ==
  /\ ExchangesFrom /\ SlowFrom /\ SlowOrdered /\ FreshBound
  /\ IdsApart =>
       /\ DistinctIds => EveryRequestHandled
       /\ FreshTokens => Remembered
       /\ InTime => SlowBacked
       /\ InTime /\ FreshTokens /\ SlowConfirmable => OutFree /\ Tight

LEMMA ServerIdsApartBefore ==
  ASSUME wire \subseteq wire', IdsApart'
  PROVE  IdsApart
BY DEF IdsApart

LEMMA FromCarries ==
  ASSUME NEW e, NEW asked, NEW more, asked \subseteq more, From(e, asked)
  PROVE  From(e, more)
BY DEF From

LEMMA LocalFrom ==
  ASSUME NEW key \in Key, NEW type \in {"CON", "NON"}, NEW mid, NEW code, NEW asked
  PROVE  From(LocalExchange(key, Response(key, type, mid, code)), asked)
<1> DEFINE m == Response(key, type, mid, code)
<1>1. m.type = type /\ m.to = key[1] /\ m.mid = mid
  BY DEF Response
<1> HIDE DEF m
<1>2. /\ LocalExchange(key, m).origin = "local" /\ LocalExchange(key, m).key = key
      /\ LocalExchange(key, m).msg = m /\ LocalExchange(key, m).mid = m.mid
  BY DEF LocalExchange
<1>3. From(LocalExchange(key, m), asked)
  BY <1>1, <1>2 DEF From
<1> QED
  BY <1>3 DEF m

LEMMA RemoteFrom ==
  ASSUME NEW r, NEW reply, NEW asked, r \in asked
  PROVE  /\ From(RemoteExchange(r, reply), asked)
         /\ RemoteExchange(r, reply).origin = "remote"
         /\ RemoteExchange(r, reply).key = Key1(r)
         /\ RemoteExchange(r, reply).mid = r.mid
         /\ RemoteExchange(r, reply).ttl = Lifetime
<1>1. /\ RemoteExchange(r, reply).origin = "remote"
      /\ RemoteExchange(r, reply).key = Key1(r)
      /\ RemoteExchange(r, reply).mid = r.mid
      /\ RemoteExchange(r, reply).ttl = Lifetime
  BY DEF RemoteExchange, Key1
<1> QED
  BY <1>1 DEF From

\* What a new request does to the lists.
LEMMA RequestEffect ==
  ASSUME StackInv, NEW r \in Requests, ReceiveRequest(r)
  PROVE  LET key == Key1(r)
             n   == nextExchange
         IN  /\ wire \subseteq wire' /\ received' = received \cup {r}
             /\ n \in DOMAIN exchanges' /\ From(exchanges'[n], received')
             /\ exchanges'[n].origin = "remote" /\ exchanges'[n].key = key
             /\ exchanges'[n].ttl = Lifetime
             /\ \A x \in DOMAIN exchanges \ CurrentExchanges(key) :
                  x \in DOMAIN exchanges' /\ exchanges'[x] = exchanges[x]
             /\ \A x \in DOMAIN exchanges' :
                  \/ x \in DOMAIN exchanges \ CurrentExchanges(key)
                  \/ x = n
                  \/ /\ x = n + 1 /\ exchanges'[x].key = key
                     /\ From(exchanges'[x], received')
                     /\ interactions'[key].out = n + 1
             /\ DOMAIN interactions' = DOMAIN interactions \cup {key}
             /\ \A k \in DOMAIN interactions : k # key => interactions'[k] = interactions[k]
             /\ interactions'[key].in = n
             /\ is_slow(r) => interactions'[key].out = Null
<1> DEFINE key == Key1(r)
           n   == nextExchange
           cur == Remaining(CurrentExchanges(key))
           e   == RemoteExchange(r, Reply(r))
           f   == find_server_interaction(key)
           i   == create_incoming_exchange(f, n, r.con)
<1>1. received' = received \cup {r}
  BY DEF ReceiveRequest
<1>2. key \in Key
  BY RemoteType, ServerStackAssumption
<1>3. /\ From(e, received') /\ e.origin = "remote" /\ e.key = key /\ e.ttl = Lifetime
  BY <1>1, RemoteFrom
<1>4. n \in Nat /\ n \notin DOMAIN exchanges
  BY StoreFinite DEF StackInv, StoreInv, Store
<1>5. /\ DOMAIN cur = DOMAIN exchanges \ CurrentExchanges(key)
      /\ \A x \in DOMAIN cur : cur[x] = exchanges[x]
  BY DEF Remaining
<1>6. i.in = n /\ i.out = f.out
  BY DEF create_incoming_exchange
<1>7. f.out = Null
  BY DEF find_server_interaction, Without, CurrentExchanges, NoLonger
<1>8. CASE HandleWithin(r)
  <2>1. /\ exchanges' = Put(cur, n, e)
        /\ interactions' = Put(interactions, key, i)
        /\ wire \subseteq wire'
    BY <1>8 DEF HandleWithin
  <2> HIDE DEF key, n, cur, e, f, i
  <2>2. /\ DOMAIN interactions' = DOMAIN interactions \cup {key}
        /\ \A k \in DOMAIN interactions : k # key => interactions'[k] = interactions[k]
        /\ interactions'[key] = i
    BY <2>1 DEF Put
  <2>3. /\ n \in DOMAIN exchanges' /\ exchanges'[n] = e
        /\ \A x \in DOMAIN cur : x \in DOMAIN exchanges' /\ exchanges'[x] = cur[x]
        /\ \A x \in DOMAIN exchanges' : x \in DOMAIN cur \/ x = n
    BY <1>4, <1>5, <2>1 DEF Put, n
  <2> QED
    BY <1>1, <1>3, <1>5, <1>6, <1>7, <2>1, <2>2, <2>3 DEF key, n
<1>9. CASE HandleSeparately(r) /\ ResponseType(r) \in {"CON", "NON"}
  <2> DEFINE m(mid) == Response(key, ResponseType(r), mid, ResponseCode(r))
             o == create_outgoing_exchange(i, n + 1)
  <2>1. PICK mid \in Mid :
          /\ exchanges' = Put(Put(cur, n, e), n + 1, LocalExchange(key, m(mid)))
          /\ interactions' = Put(interactions, key, o)
          /\ wire \subseteq wire'
    BY <1>9 DEF HandleSeparately
  <2> DEFINE l == LocalExchange(key, m(mid))
  <2>2. From(l, received') /\ l.key = key
    <3>1. From(l, received')
      BY <1>2, <1>9, LocalFrom
    <3>2. l.key = key
      BY DEF LocalExchange
    <3> QED
      BY <3>1, <3>2
  <2>3. o.in = n /\ o.out = n + 1
    BY <1>6 DEF create_outgoing_exchange
  <2>4. ~is_slow(r)
    BY <1>9 DEF ResponseType, is_slow
  <2> HIDE DEF key, n, cur, e, f, i, m, o, l
  <2>5. exchanges' = Put(Put(cur, n, e), n + 1, l)
    BY <2>1 DEF l
  <2>6. n + 1 # n /\ n + 1 \notin DOMAIN exchanges /\ n \notin DOMAIN exchanges
    <3>1. DOMAIN exchanges \subseteq 1 .. (n - 1)
      BY DEF StackInv, StoreInv, Store, n
    <3> QED
      BY <1>4, <3>1 DEF n
  <2>7. /\ DOMAIN interactions' = DOMAIN interactions \cup {key}
        /\ \A k \in DOMAIN interactions : k # key => interactions'[k] = interactions[k]
        /\ interactions'[key] = o
    BY <2>1 DEF Put
  <2>8. /\ n \in DOMAIN exchanges' /\ exchanges'[n] = e
        /\ \A x \in DOMAIN cur : x \in DOMAIN exchanges' /\ exchanges'[x] = cur[x]
        /\ \A x \in DOMAIN exchanges' : x \in DOMAIN cur \/ x = n \/ x = n + 1
        /\ exchanges'[n + 1] = l
    BY <1>5, <2>5, <2>6 DEF Put
  <2> QED
    BY <1>1, <1>3, <1>5, <2>1, <2>2, <2>3, <2>4, <2>7, <2>8 DEF key, n
<1> QED
  BY <1>8, <1>9 DEF ReceiveRequest

\* What a late answer does to them.
LEMMA SeparateEffect ==
  ASSUME StackInv, SendSeparateResponse
  PROVE  LET key == Head(slow).key
             n   == nextExchange
         IN  /\ wire \subseteq wire'
             /\ \A x \in DOMAIN exchanges : x \in DOMAIN exchanges' /\ exchanges'[x] = exchanges[x]
             /\ \A x \in DOMAIN exchanges' :
                  \/ x \in DOMAIN exchanges
                  \/ /\ x = n /\ exchanges'[x].key = key /\ From(exchanges'[x], received)
                     /\ interactions'[key].out = n
             /\ DOMAIN interactions' = DOMAIN interactions
             /\ \A k \in DOMAIN interactions : k # key => interactions'[k] = interactions[k]
             /\ key \in DOMAIN interactions => interactions'[key].in = interactions[key].in
<1> DEFINE key == Head(slow).key
           n   == nextExchange
<1>1. n \notin DOMAIN exchanges
  BY StoreFinite DEF StackInv, StoreInv
<1>2. CASE key \notin DOMAIN interactions
  BY <1>2 DEF SendSeparateResponse, store
<1>3. CASE key \in DOMAIN interactions
  <2> DEFINE type == IF Head(slow).type = "NONE" /\ interactions[key].con THEN "CON" ELSE "NON"
             m(mid) == Response(key, type, mid, "content")
             o == create_outgoing_exchange(interactions[key], n)
  <2>1. PICK mid \in Mid :
          /\ exchanges' = Put(exchanges, n, LocalExchange(key, m(mid)))
          /\ interactions' = [interactions EXCEPT ![key] = create_outgoing_exchange(@, n)]
          /\ wire' = wire \cup {m(mid)}
    BY <1>3 DEF SendSeparateResponse
  <2> DEFINE l == LocalExchange(key, m(mid))
  <2>2. key \in Key
    BY <1>3 DEF StackInv, TypeOK
  <2>3. From(l, received) /\ l.key = key
    <3>1. From(l, received)
      BY <2>2, LocalFrom
    <3>2. l.key = key
      BY DEF LocalExchange
    <3> QED
      BY <3>1, <3>2
  <2>4. o.in = interactions[key].in /\ o.out = n
    BY DEF create_outgoing_exchange
  <2> HIDE DEF key, n, type, m, l, o
  <2>5. exchanges' = Put(exchanges, n, l) /\ interactions' = [interactions EXCEPT ![key] = o]
    BY <2>1 DEF l, o
  <2>6. /\ DOMAIN interactions' = DOMAIN interactions
        /\ \A k \in DOMAIN interactions : k # key => interactions'[k] = interactions[k]
        /\ interactions'[key] = o
    BY <1>3, <2>5
  <2>7. /\ \A x \in DOMAIN exchanges : x \in DOMAIN exchanges' /\ exchanges'[x] = exchanges[x]
        /\ \A x \in DOMAIN exchanges' : x \in DOMAIN exchanges \/ (x = n /\ exchanges'[x] = l)
    BY <1>1, <2>5 DEF Put, n
  <2> QED
    BY <2>1, <2>3, <2>4, <2>6, <2>7 DEF key, n
<1> QED
  BY <1>2, <1>3

\* What an ACK or RST for a message of the server's own does.
LEMMA EmptyEffect ==
  ASSUME StackInv, NEW m, ReceiveEmpty(m.to, m.mid)
  PROVE  \E x \in DOMAIN exchanges :
           /\ is_msg_matched(exchanges[x], m.to, m.mid)
           /\ DOMAIN exchanges' = DOMAIN exchanges \ {x}
           /\ \A y \in DOMAIN exchanges' : exchanges'[y] = exchanges[y]
           /\ DOMAIN interactions' = DOMAIN interactions
           /\ \A k \in DOMAIN interactions :
                /\ interactions'[k].in = interactions[k].in \/ interactions[k].in = x
                /\ \/ interactions'[k].out = interactions[k].out
                   \/ interactions[k].out = x /\ interactions'[k].out = Null
<1>1. PICK x \in DOMAIN exchanges :
        /\ is_msg_matched(exchanges[x], m.to, m.mid)
        /\ exchanges' = Remaining({x})
        /\ interactions' = [interactions EXCEPT
                              ![exchanges[x].key] = Without(exchanges[x].key, {x})]
  BY DEF ReceiveEmpty, find_server_exchange, Matching
<1> DEFINE key == exchanges[x].key
           w   == Without(key, {x})
<1>2. key \in DOMAIN interactions
  BY DEF StackInv, StoreInv, Store
<1>3. w.in = NoLonger(interactions[key].in, {x}) /\ w.out = NoLonger(interactions[key].out, {x})
  BY DEF Without
<1> HIDE DEF w, key
<1>4. interactions' = [interactions EXCEPT ![key] = w]
  BY <1>1 DEF w, key
<1>5. /\ DOMAIN interactions' = DOMAIN interactions
      /\ \A k \in DOMAIN interactions : k # key => interactions'[k] = interactions[k]
      /\ interactions'[key] = w
  BY <1>2, <1>4
<1>6. /\ DOMAIN exchanges' = DOMAIN exchanges \ {x}
      /\ \A y \in DOMAIN exchanges' : exchanges'[y] = exchanges[y]
  BY <1>1 DEF Remaining
<1>7. \A p : NoLonger(p, {x}) = p \/ (p = x /\ NoLonger(p, {x}) = Null)
  BY DEF NoLonger
<1>8. \A k \in DOMAIN interactions :
        /\ interactions'[k].in = interactions[k].in \/ interactions[k].in = x
        /\ \/ interactions'[k].out = interactions[k].out
           \/ interactions[k].out = x /\ interactions'[k].out = Null
  BY <1>3, <1>5, <1>7
<1> QED
  BY <1>1, <1>5, <1>6, <1>8

\* What a heart beat does.
LEMMA BeatEffect ==
  ASSUME StackInv, HeartBeat
  PROVE  LET gone == ExpiredExchanges
         IN  /\ DOMAIN exchanges' = DOMAIN exchanges \ gone
             /\ \A x \in DOMAIN exchanges' :
                  /\ exchanges'[x].origin = exchanges[x].origin
                  /\ exchanges'[x].key = exchanges[x].key
                  /\ exchanges'[x].mid = exchanges[x].mid
                  /\ exchanges'[x].msg = exchanges[x].msg
                  /\ exchanges[x].origin = "remote" => exchanges'[x] = exchanges[x]
             /\ DOMAIN interactions' \subseteq DOMAIN interactions
             /\ \A k \in DOMAIN interactions' :
                  /\ interactions'[k].in = NoLonger(interactions[k].in, gone)
                  /\ interactions'[k].out = NoLonger(interactions[k].out, gone)
<1>1. exchanges' = [x \in DOMAIN exchanges \ ExpiredExchanges |->
                      IF x \in RetransmittedExchanges
                      THEN Retransmitted(exchanges[x]) ELSE exchanges[x]]
  BY DEF HeartBeat, check_remove_expired_server_exchanges
<1>2. ASSUME NEW e \in Exchange
      PROVE  /\ Retransmitted(e).origin = e.origin /\ Retransmitted(e).key = e.key
             /\ Retransmitted(e).mid = e.mid /\ Retransmitted(e).msg = e.msg
  BY DEF Retransmitted, Exchange
<1>3. \A x \in DOMAIN exchanges : exchanges[x] \in Exchange
  BY DEF StackInv, TypeOK
<1>4. \A x \in RetransmittedExchanges : exchanges[x].origin # "remote"
  BY DEF RetransmittedExchanges, is_con_outgoing
<1>5. /\ DOMAIN exchanges' = DOMAIN exchanges \ ExpiredExchanges
      /\ \A x \in DOMAIN exchanges' :
           /\ exchanges'[x].origin = exchanges[x].origin
           /\ exchanges'[x].key = exchanges[x].key
           /\ exchanges'[x].mid = exchanges[x].mid
           /\ exchanges'[x].msg = exchanges[x].msg
           /\ exchanges[x].origin = "remote" => exchanges'[x] = exchanges[x]
  BY <1>1, <1>2, <1>3, <1>4
<1>6. interactions' = [key \in {k \in DOMAIN interactions : has_exchanges(k)} |->
                         Without(key, ExpiredExchanges)]
  BY DEF HeartBeat, remove_expired_server_interaction
<1>7. \A k : /\ Without(k, ExpiredExchanges).in = NoLonger(interactions[k].in, ExpiredExchanges)
             /\ Without(k, ExpiredExchanges).out = NoLonger(interactions[k].out, ExpiredExchanges)
  BY DEF Without
<1>8. /\ DOMAIN interactions' \subseteq DOMAIN interactions
      /\ \A k \in DOMAIN interactions' : interactions'[k] = Without(k, ExpiredExchanges)
  BY <1>6
<1> QED
  BY <1>5, <1>7, <1>8

(***************************************************************************)
(* Received exchanges that live on.                                        *)
(***************************************************************************)
LEMMA LastingStays ==
  ASSUME NEW ex, NEW fx, NEW k, NEW t, Lasting(ex, k, t) # {},
         \A x \in Lasting(ex, k, t) : x \in DOMAIN fx /\ fx[x] = ex[x]
  PROVE  Lasting(fx, k, t) # {}
BY DEF Lasting

\* A new request replaces the received exchange of its key by one that lives
\* at least as long.
LEMMA RequestLasting ==
  ASSUME StackInv, NEW r \in Requests, ReceiveRequest(r),
         NEW k, NEW t \in Int, t <= Lifetime
  PROVE  /\ Lasting(exchanges', Key1(r), t) # {}
         /\ Lasting(exchanges, k, t) # {} => Lasting(exchanges', k, t) # {}
<1>1. Lasting(exchanges', Key1(r), t) # {}
  <2>1. /\ nextExchange \in DOMAIN exchanges'
        /\ exchanges'[nextExchange].origin = "remote"
        /\ exchanges'[nextExchange].key = Key1(r)
        /\ exchanges'[nextExchange].ttl = Lifetime
    BY RequestEffect
  <2>2. Lifetime >= t
    BY ServerStackAssumption
  <2> QED
    BY <2>1, <2>2 DEF Lasting
<1>2. ASSUME Lasting(exchanges, k, t) # {}, k # Key1(r)
      PROVE  Lasting(exchanges', k, t) # {}
  <2>1. CurrentExchanges(Key1(r)) \subseteq Own(exchanges, Key1(r))
    BY DEF StackInv, StoreInv, Store, CurrentExchanges, Fits
  <2>2. \A x \in Lasting(exchanges, k, t) : x \in DOMAIN exchanges \ CurrentExchanges(Key1(r))
    BY <1>2, <2>1 DEF Lasting, Own
  <2>3. \A x \in Lasting(exchanges, k, t) : x \in DOMAIN exchanges' /\ exchanges'[x] = exchanges[x]
    BY <2>2, RequestEffect
  <2> QED
    BY <1>2, <2>3, LastingStays
<1> QED
  BY <1>1, <1>2

\* No ACK or RST of a message of the server's own deletes a received exchange.
LEMMA EmptyLasting ==
  ASSUME StackInv, ExchangesFrom, IdsApart,
         NEW m \in wire, m.type \in {"CON", "NON"}, ReceiveEmpty(m.to, m.mid),
         NEW k, NEW t, Lasting(exchanges, k, t) # {}
  PROVE  Lasting(exchanges', k, t) # {}
<1>1. PICK x \in DOMAIN exchanges :
        /\ is_msg_matched(exchanges[x], m.to, m.mid)
        /\ DOMAIN exchanges' = DOMAIN exchanges \ {x}
        /\ \A y \in DOMAIN exchanges' : exchanges'[y] = exchanges[y]
  BY EmptyEffect
<1>2. exchanges[x].origin # "remote"
  <2> SUFFICES ASSUME exchanges[x].origin = "remote" PROVE FALSE
    OBVIOUS
  <2>1. PICK s \in received : Key1(s) = exchanges[x].key /\ s.mid = exchanges[x].mid
    BY DEF ExchangesFrom, From
  <2>2. s \in Requests /\ s.ep = m.to /\ s.mid = m.mid
    BY <1>1, <2>1 DEF is_msg_matched, Key1, StackInv, TypeOK
  <2> QED
    BY <2>2 DEF IdsApart
<1>3. \A y \in Lasting(exchanges, k, t) : y \in DOMAIN exchanges' /\ exchanges'[y] = exchanges[y]
  BY <1>1, <1>2 DEF Lasting
<1> QED
  BY <1>3, LastingStays

LEMMA BeatLasting ==
  ASSUME StackInv, HeartBeat, NEW k, NEW t \in Nat \ {0}, Lasting(exchanges, k, t) # {}
  PROVE  Lasting(exchanges', k, t) # {}
<1>1. \A x \in Lasting(exchanges, k, t) : x \notin ExpiredExchanges
  <2> SUFFICES ASSUME NEW x \in Lasting(exchanges, k, t) PROVE x \notin ExpiredExchanges
    OBVIOUS
  <2>1. exchanges[x].origin = "remote" /\ exchanges[x].ttl # 0
    BY DEF Lasting
  <2> QED
    BY <2>1 DEF ExpiredExchanges, is_expired, is_con_outgoing
<1>2. \A x \in Lasting(exchanges, k, t) : x \in DOMAIN exchanges' /\ exchanges'[x] = exchanges[x]
  BY <1>1, BeatEffect DEF Lasting
<1> QED
  BY <1>2, LastingStays

LEMMA TickLasting ==
  ASSUME StackInv, Tick, NEW k, NEW t \in Int, Lasting(exchanges, k, t) # {}
  PROVE  Lasting(exchanges', k, t - 1) # {}
<1>1. PICK x \in DOMAIN exchanges :
        exchanges[x].origin = "remote" /\ exchanges[x].key = k /\ exchanges[x].ttl >= t
  BY DEF Lasting
<1>2. exchanges[x] \in Exchange
  BY DEF StackInv, TypeOK
<1>3. x \in DOMAIN exchanges' /\ exchanges'[x] = [exchanges[x] EXCEPT !.ttl = Less(@)]
  BY DEF Tick
<1>4. /\ exchanges'[x].origin = "remote" /\ exchanges'[x].key = k
      /\ exchanges'[x].ttl = Less(exchanges[x].ttl)
  BY <1>1, <1>2, <1>3 DEF Exchange
<1>5. Less(exchanges[x].ttl) >= t - 1
  BY <1>1, <1>2 DEF Exchange, Less
<1> QED
  BY <1>3, <1>4, <1>5 DEF Lasting

(***************************************************************************)
(* The invariant, step by step.                                            *)
(***************************************************************************)
OutTight == InTime /\ FreshTokens /\ SlowConfirmable => OutFree /\ Tight

LEMMA WindowType ==
  ASSUME StackInv, SlowOrdered, InTime, NEW i \in DOMAIN slow
  PROVE  /\ slow[i].ttl + (Lifetime - SlowDelay) \in Nat \ {0}
         /\ slow[i].ttl + (Lifetime - SlowDelay) <= Lifetime
         /\ slow[i].ttl \in Nat
<1>1. slow[i] \in SlowAnswer
  BY DEF StackInv, TypeOK
<1>2. slow[i].ttl \in Nat /\ slow[i].ttl <= SlowDelay
  BY <1>1 DEF SlowAnswer, SlowOrdered
<1> QED
  BY <1>2, ServerStackAssumption DEF InTime

\* Steps that handle no request and take no time: slow answers are those of
\* before, or all but the first.
LEMMA DedupQuiet ==
  ASSUME StackInv, DedupInv,
         wire \subseteq wire', received \subseteq received', UNCHANGED fresh, ExchangesFrom',
         slow' = slow \/ (slow # <<>> /\ slow' = Tail(slow)),
         \A k : \A t \in Nat \ {0} :
           IdsApart /\ Lasting(exchanges, k, t) # {} => Lasting(exchanges', k, t) # {},
         IdsApart /\ DistinctIds => EveryRequestHandled',
         IdsApart /\ InTime /\ FreshTokens /\ SlowConfirmable => OutFree' /\ Tight'
  PROVE  DedupInv'
<1>1. IdsApart' => IdsApart
  BY ServerIdsApartBefore
<1>2. slow \in Seq(SlowAnswer)
  BY DEF StackInv, TypeOK
<1>3. PICK n \in {0, 1} : \A i \in DOMAIN slow' : i \in Nat /\ i + n \in DOMAIN slow /\ slow'[i] = slow[i + n]
  <2>1. CASE slow' = slow
    BY <1>2, <2>1
  <2>2. CASE slow # <<>> /\ slow' = Tail(slow)
    BY <1>2, <2>2
  <2> QED
    BY <2>1, <2>2
<1>4. SlowFrom'
  BY <1>3 DEF DedupInv, SlowFrom
<1>5. SlowOrdered'
  <2>1. \A i, j \in DOMAIN slow' : i <= j => i + n <= j + n
    BY <1>3
  <2> QED
    BY <1>3, <2>1 DEF DedupInv, SlowOrdered
<1>6. FreshBound'
  BY DEF DedupInv, FreshBound
<1>7. ASSUME IdsApart, FreshTokens PROVE Remembered'
  <2> SUFFICES ASSUME NEW r \in Requests, r.con, fresh[r] > 0
               PROVE  Lasting(exchanges', Key1(r), fresh[r]) # {}
    BY DEF Remembered, Lasting
  <2>1. fresh[r] \in Nat \ {0}
    BY DEF StackInv, TypeOK
  <2>2. Lasting(exchanges, Key1(r), fresh[r]) # {}
    BY <1>7 DEF DedupInv, Remembered
  <2> QED
    BY <1>7, <2>1, <2>2
<1>8. ASSUME IdsApart, InTime PROVE SlowBacked'
  <2>1. ASSUME NEW i \in DOMAIN slow'
        PROVE  Lasting(exchanges', slow'[i].key, slow'[i].ttl + (Lifetime - SlowDelay)) # {}
    <3>1. i + n \in DOMAIN slow /\ slow'[i] = slow[i + n]
      BY <1>3
    <3>2. slow[i + n].ttl + (Lifetime - SlowDelay) \in Nat \ {0}
      BY <1>8, <3>1, WindowType DEF DedupInv
    <3>3. Lasting(exchanges, slow[i + n].key, slow[i + n].ttl + (Lifetime - SlowDelay)) # {}
      BY <1>8, <3>1 DEF DedupInv, SlowBacked
    <3> QED
      BY <1>8, <3>1, <3>2, <3>3
  <2> QED
    BY <2>1 DEF SlowBacked, Lasting
<1> QED
  BY <1>1, <1>4, <1>5, <1>6, <1>7, <1>8
     DEF DedupInv, DistinctIds, FreshTokens, InTime, SlowConfirmable

\* A slow request that is handled waits for no answer yet.
LEMMA NotWaiting ==
  ASSUME StackInv, DedupInv, IdsApart, InTime, FreshTokens, SlowConfirmable,
         NEW r \in Requests, ReceiveRequest(r), NEW i \in DOMAIN slow
  PROVE  slow[i].key # Key1(r)
<1> SUFFICES ASSUME slow[i].key = Key1(r) PROVE FALSE
  OBVIOUS
<1>1. PICK s \in received : is_slow(s) /\ Key1(s) = slow[i].key
  BY DEF DedupInv, SlowFrom
<1>2. s = r /\ r.con
  BY <1>1 DEF StackInv, TypeOK, FreshTokens, SlowConfirmable
<1>3. PICK x \in DOMAIN exchanges : exchanges[x].origin = "remote" /\ exchanges[x].key = Key1(r)
  BY DEF DedupInv, SlowBacked, Lasting
<1>4. PICK q \in received : Key1(q) = Key1(r) /\ q.mid = exchanges[x].mid
  BY <1>3 DEF DedupInv, ExchangesFrom, From
<1>5. q = r
  BY <1>4 DEF StackInv, TypeOK, FreshTokens
<1>6. x \in Matching(r.ep, r.mid)
  BY <1>3, <1>4, <1>5 DEF Matching, is_msg_matched, Key1
<1> QED
  BY <1>2, <1>6 DEF ReceiveRequest, is_duplicate

LEMMA DedupRequest ==
  ASSUME StackInv, DedupInv, NEW r \in Requests, ReceiveRequest(r)
  PROVE  DedupInv'
<1> DEFINE key == Key1(r)
           n   == nextExchange
<1>1. /\ wire \subseteq wire' /\ received' = received \cup {r}
      /\ n \in DOMAIN exchanges' /\ From(exchanges'[n], received')
      /\ exchanges'[n].key = key
      /\ \A x \in DOMAIN exchanges \ CurrentExchanges(key) :
           x \in DOMAIN exchanges' /\ exchanges'[x] = exchanges[x]
      /\ \A x \in DOMAIN exchanges' :
           \/ x \in DOMAIN exchanges \ CurrentExchanges(key)
           \/ x = n
           \/ /\ x = n + 1 /\ exchanges'[x].key = key
              /\ From(exchanges'[x], received')
              /\ interactions'[key].out = n + 1
      /\ DOMAIN interactions' = DOMAIN interactions \cup {key}
      /\ \A k \in DOMAIN interactions : k # key => interactions'[k] = interactions[k]
      /\ interactions'[key].in = n
      /\ is_slow(r) => interactions'[key].out = Null
  BY RequestEffect
<1>2. /\ fresh' = [fresh EXCEPT ![r] = Lifetime]
      /\ fresh \in [Requests -> Int] /\ fresh' \in [Requests -> Int]
      /\ Lifetime \in Nat \ {0} /\ SlowDelay \in Nat
  BY ServerStackAssumption DEF ReceiveRequest, StackInv, TypeOK
<1>3. IdsApart' => IdsApart
  BY <1>1, ServerIdsApartBefore
<1>4. slow \in Seq(SlowAnswer)
  BY DEF StackInv, TypeOK
<1>5. \A i \in DOMAIN slow : slow[i] \in SlowAnswer /\ slow[i].ttl \in Nat /\ slow[i].ttl <= SlowDelay
  <2>1. \A i \in DOMAIN slow : slow[i] \in SlowAnswer
    BY <1>4
  <2> QED
    BY <2>1 DEF SlowAnswer, DedupInv, SlowOrdered
\* The list of slow answers, with the new one if there is one.
<1>6. /\ \A i \in DOMAIN slow' :
           \/ i \in DOMAIN slow /\ slow'[i] = slow[i]
           \/ /\ i = Len(slow) + 1 /\ is_slow(r)
              /\ slow'[i].key = key /\ slow'[i].ttl = SlowDelay
      /\ \A i \in DOMAIN slow : i \in Nat /\ i < Len(slow) + 1
      /\ Len(slow) + 1 \notin DOMAIN slow /\ Len(slow) \in Nat
  <2> DEFINE a == [key |-> Key1(r), type |-> IF r.target = "slow" THEN "NONE" ELSE "NON",
                   ttl |-> SlowDelay]
  <2>1. slow' = IF is_slow(r) THEN Append(slow, a) ELSE slow
    BY DEF ReceiveRequest, StartSlowTimer
  <2>2. a.key = key /\ a.ttl = SlowDelay
    OBVIOUS
  <2>3. a \in SlowAnswer
    BY <1>2, RemoteType, ServerStackAssumption DEF SlowAnswer
  <2> HIDE DEF a
  <2> QED
    BY <1>4, <2>1, <2>2, <2>3
<1>7. ExchangesFrom'
  <2>1. \A x \in DOMAIN exchanges : From(exchanges[x], received')
    BY <1>1, FromCarries DEF DedupInv, ExchangesFrom
  <2>2. \A x \in DOMAIN exchanges' : From(exchanges'[x], received')
    BY <1>1, <2>1
  <2> QED
    BY <2>2 DEF ExchangesFrom, From
<1>8. SlowFrom'
  BY <1>1, <1>6 DEF DedupInv, SlowFrom
<1>9. SlowOrdered'
  <2>1. \A i \in DOMAIN slow' : slow'[i].ttl <= SlowDelay
    BY <1>2, <1>5, <1>6
  <2>2. \A i, j \in DOMAIN slow' : i <= j => slow'[i].ttl <= slow'[j].ttl
    <3> SUFFICES ASSUME NEW i \in DOMAIN slow', NEW j \in DOMAIN slow', i <= j
                 PROVE  slow'[i].ttl <= slow'[j].ttl
      OBVIOUS
    <3>1. CASE j \in DOMAIN slow
      <4>1. i \in DOMAIN slow
        BY <1>6, <3>1
      <4> QED
        BY <1>6, <3>1, <4>1 DEF DedupInv, SlowOrdered
    <3>2. CASE j \notin DOMAIN slow
      BY <1>6, <2>1, <3>2
    <3> QED
      BY <3>1, <3>2
  <2> QED
    BY <2>1, <2>2 DEF SlowOrdered
<1>10. FreshBound'
  BY <1>2 DEF DedupInv, FreshBound
<1>11. EveryRequestHandled => EveryRequestHandled'
  BY <1>1, <1>2 DEF EveryRequestHandled, StackInv, TypeOK
<1>12. ASSUME IdsApart, FreshTokens PROVE Remembered'
  <2> SUFFICES ASSUME NEW q \in Requests, q.con, fresh'[q] > 0
               PROVE  Lasting(exchanges', Key1(q), fresh'[q]) # {}
    BY DEF Remembered, Lasting
  <2>1. CASE q = r
    BY <1>2, <2>1, RequestLasting
  <2>2. CASE q # r
    <3>1. fresh'[q] = fresh[q] /\ fresh[q] \in Int /\ fresh[q] <= Lifetime
      BY <1>2, <2>2 DEF DedupInv, FreshBound
    <3>2. Lasting(exchanges, Key1(q), fresh[q]) # {}
      BY <1>12, <3>1 DEF DedupInv, Remembered
    <3> QED
      BY <3>1, <3>2, RequestLasting
  <2> QED
    BY <2>1, <2>2
<1>13. ASSUME IdsApart, InTime PROVE SlowBacked'
  <2>1. ASSUME NEW i \in DOMAIN slow'
        PROVE  Lasting(exchanges', slow'[i].key, slow'[i].ttl + (Lifetime - SlowDelay)) # {}
    <3>1. CASE i \in DOMAIN slow
      <4>1. slow'[i] = slow[i]
        BY <1>6, <3>1
      <4>2. /\ slow[i].ttl + (Lifetime - SlowDelay) \in Int
            /\ slow[i].ttl + (Lifetime - SlowDelay) <= Lifetime
        BY <1>13, <3>1, WindowType DEF DedupInv
      <4>3. Lasting(exchanges, slow[i].key, slow[i].ttl + (Lifetime - SlowDelay)) # {}
        BY <1>13, <3>1 DEF DedupInv, SlowBacked
      <4> QED
        BY <4>1, <4>2, <4>3, RequestLasting
    <3>2. CASE i \notin DOMAIN slow
      <4>1. slow'[i].key = key /\ slow'[i].ttl = SlowDelay
        BY <1>6, <3>2
      <4>2. slow'[i].ttl + (Lifetime - SlowDelay) = Lifetime
        BY <1>2, <4>1
      <4> QED
        BY <1>2, <4>1, <4>2, RequestLasting
    <3> QED
      BY <3>1, <3>2
  <2> QED
    BY <2>1 DEF SlowBacked, Lasting
<1>14. ASSUME IdsApart, InTime, FreshTokens, SlowConfirmable PROVE OutFree' /\ Tight'
  <2>1. OutFree /\ Tight
    BY <1>14 DEF DedupInv
  <2>3. OutFree'
    <3>1. ASSUME NEW i \in DOMAIN slow', slow'[i].key \in DOMAIN interactions'
          PROVE  interactions'[slow'[i].key].out = Null
      <4>1. CASE i \in DOMAIN slow
        <5>1. slow'[i] = slow[i] /\ slow[i].key # key
          BY <1>6, <1>14, <4>1, NotWaiting
        <5> QED
          BY <1>1, <2>1, <3>1, <4>1, <5>1 DEF OutFree
      <4>2. CASE i \notin DOMAIN slow
        BY <1>1, <1>6, <4>2
      <4> QED
        BY <4>1, <4>2
    <3>2. ASSUME NEW i \in DOMAIN slow', NEW j \in DOMAIN slow', slow'[j].key = slow'[i].key
          PROVE  j = i
      <4>1. \A l \in DOMAIN slow : slow[l].key # key
        BY <1>14, NotWaiting
      <4> QED
        BY <1>6, <2>1, <3>2, <4>1 DEF OutFree
    <3> QED
      BY <3>1, <3>2 DEF OutFree
  <2>4. Tight'
    <3> SUFFICES ASSUME NEW k \in DOMAIN interactions', NEW x \in DOMAIN exchanges',
                        exchanges'[x].key = k
                 PROVE  x \in {interactions'[k].in, interactions'[k].out}
      BY DEF Tight, Own
    <3>1. CASE k = key
      <4>1. ASSUME x \in DOMAIN exchanges \ CurrentExchanges(key) PROVE FALSE
        <5>1. x \in Own(exchanges, key) /\ x # Null
          BY <1>1, <3>1, <4>1 DEF Own, Null, StackInv, StoreInv, Store
        <5>2. key \in DOMAIN interactions
          BY <1>1, <3>1, <4>1 DEF StackInv, StoreInv, Store
        <5> QED
          BY <2>1, <4>1, <5>1, <5>2 DEF Tight, CurrentExchanges
      <4> QED
        BY <1>1, <3>1, <4>1
    <3>2. CASE k # key
      <4>1. k \in DOMAIN interactions /\ interactions'[k] = interactions[k]
        BY <1>1, <3>2
      <4>2. x \in DOMAIN exchanges /\ exchanges[x].key = k
        BY <1>1, <3>2
      <4> QED
        BY <2>1, <4>1, <4>2 DEF Tight, Own
    <3> QED
      BY <3>1, <3>2
  <2> QED
    BY <2>3, <2>4
<1>15. (DistinctIds <=> DistinctIds') /\ (FreshTokens <=> FreshTokens')
         /\ (InTime <=> InTime') /\ (SlowConfirmable <=> SlowConfirmable')
  BY DEF DistinctIds, FreshTokens, InTime, SlowConfirmable
<1>16. IdsApart /\ DistinctIds => EveryRequestHandled'
  BY <1>11 DEF DedupInv
<1> HIDE DEF key, n
<1> QED
  BY <1>3, <1>7, <1>8, <1>9, <1>10, <1>12, <1>13, <1>14, <1>15, <1>16, Zenon DEF DedupInv

\* Steps that leave the lists alone.
LEMMA DedupIdle ==
  ASSUME StackInv, DedupInv, wire \subseteq wire', UNCHANGED <<exchanges, interactions, slow, fresh>>,
         received \subseteq received', IdsApart /\ DistinctIds => EveryRequestHandled'
  PROVE  DedupInv'
<1>1. ExchangesFrom'
  <2>1. \A x \in DOMAIN exchanges : From(exchanges[x], received')
    BY FromCarries DEF DedupInv, ExchangesFrom
  <2> QED
    BY <2>1 DEF ExchangesFrom, From
<1>2. ASSUME IdsApart, InTime, FreshTokens, SlowConfirmable PROVE OutFree' /\ Tight'
  <2>1. OutFree /\ Tight
    BY <1>2 DEF DedupInv
  <2>2. OutFree'
    BY <2>1 DEF OutFree
  <2>3. Tight'
    BY <2>1 DEF Tight, Own
  <2> QED
    BY <2>2, <2>3
<1> QED
  BY <1>1, <1>2, DedupQuiet

LEMMA DedupDuplicate ==
  ASSUME StackInv, DedupInv, NEW r \in Requests, ReceiveDuplicate(r)
  PROVE  DedupInv'
<1>1. /\ wire \subseteq wire' /\ received' = received \cup {r}
      /\ UNCHANGED <<exchanges, interactions, slow, fresh>>
  BY DEF ReceiveDuplicate, ResendReply, store
<1>2. ASSUME IdsApart, DistinctIds PROVE EveryRequestHandled'
  <2>1. PICK x \in DOMAIN exchanges : exchanges[x].key[1] = r.ep /\ exchanges[x].mid = r.mid
    BY DEF ReceiveDuplicate, is_duplicate, Matching, is_msg_matched
  <2>2. From(exchanges[x], received) /\ Sent(exchanges[x], wire) /\ exchanges[x] \in Exchange
    BY DEF DedupInv, ExchangesFrom, StackInv, ExchangesSent, TypeOK
  <2>3. exchanges[x].origin # "local"
    <3> SUFFICES ASSUME exchanges[x].origin = "local" PROVE FALSE
      OBVIOUS
    <3>1. exchanges[x].msg \in wire /\ exchanges[x].msg.type \in {"CON", "NON"}
            /\ exchanges[x].msg.to = r.ep /\ exchanges[x].msg.mid = r.mid
      BY <2>1, <2>2 DEF From, Sent
    <3> QED
      BY <1>2, <3>1 DEF IdsApart
  <2>4. PICK s \in received : Key1(s) = exchanges[x].key /\ s.mid = exchanges[x].mid
    BY <2>2, <2>3 DEF Exchange, From
  <2>5. s = r
    BY <1>2, <2>1, <2>4 DEF StackInv, TypeOK, DistinctIds, Key1
  <2> QED
    BY <1>1, <1>2, <2>4, <2>5 DEF DedupInv, EveryRequestHandled
<1> QED
  BY <1>1, <1>2, DedupIdle

LEMMA DedupReject ==
  ASSUME StackInv, DedupInv, NEW d \in Datagrams, RejectDatagram(d)
  PROVE  DedupInv'
<1>1. /\ wire \subseteq wire'
      /\ UNCHANGED <<exchanges, interactions, slow, received, fresh>>
  BY DEF RejectDatagram, store
<1>2. IdsApart /\ DistinctIds => EveryRequestHandled'
  BY <1>1 DEF DedupInv, EveryRequestHandled
<1> QED
  BY <1>1, <1>2, DedupIdle

LEMMA DedupEmpty ==
  ASSUME StackInv, DedupInv, PeerAnswers
  PROVE  DedupInv'
<1>1. PICK m \in wire : m.type \in {"CON", "NON"} /\ ReceiveEmpty(m.to, m.mid)
  BY DEF PeerAnswers
<1>2. UNCHANGED <<slow, wire, received, fresh>>
  BY <1>1 DEF ReceiveEmpty
<1>3. PICK x \in DOMAIN exchanges :
        /\ DOMAIN exchanges' = DOMAIN exchanges \ {x}
        /\ \A y \in DOMAIN exchanges' : exchanges'[y] = exchanges[y]
        /\ DOMAIN interactions' = DOMAIN interactions
        /\ \A k \in DOMAIN interactions :
             /\ interactions'[k].in = interactions[k].in \/ interactions[k].in = x
             /\ \/ interactions'[k].out = interactions[k].out
                \/ interactions[k].out = x /\ interactions'[k].out = Null
  BY <1>1, EmptyEffect
<1>4. ExchangesFrom'
  BY <1>2, <1>3 DEF DedupInv, ExchangesFrom, From
<1>5. \A k : \A t \in Nat \ {0} :
        IdsApart /\ Lasting(exchanges, k, t) # {} => Lasting(exchanges', k, t) # {}
  BY <1>1, EmptyLasting DEF DedupInv
<1>6. IdsApart /\ DistinctIds => EveryRequestHandled'
  BY <1>2 DEF DedupInv, EveryRequestHandled
<1>7. ASSUME IdsApart, InTime, FreshTokens, SlowConfirmable PROVE OutFree' /\ Tight'
  <2>1. OutFree /\ Tight
    BY <1>7 DEF DedupInv
  <2>2. OutFree'
    BY <1>2, <1>3, <2>1 DEF OutFree
  <2>3. \A k \in DOMAIN interactions' : \A y \in DOMAIN exchanges' :
          exchanges'[y].key = k => y \in {interactions'[k].in, interactions'[k].out}
    BY <1>3, <2>1 DEF Tight, Own
  <2>4. Tight'
    BY <2>3 DEF Tight, Own
  <2> QED
    BY <2>2, <2>4
<1> QED
  BY <1>2, <1>4, <1>5, <1>6, <1>7, DedupQuiet

LEMMA DedupSeparate ==
  ASSUME StackInv, DedupInv, SendSeparateResponse
  PROVE  DedupInv'
<1> DEFINE key == Head(slow).key
           n   == nextExchange
<1>1. /\ wire \subseteq wire'
      /\ \A x \in DOMAIN exchanges : x \in DOMAIN exchanges' /\ exchanges'[x] = exchanges[x]
      /\ \A x \in DOMAIN exchanges' :
           \/ x \in DOMAIN exchanges
           \/ /\ x = n /\ exchanges'[x].key = key /\ From(exchanges'[x], received)
              /\ interactions'[key].out = n
      /\ DOMAIN interactions' = DOMAIN interactions
      /\ \A k \in DOMAIN interactions : k # key => interactions'[k] = interactions[k]
      /\ key \in DOMAIN interactions => interactions'[key].in = interactions[key].in
  BY SeparateEffect
<1>2. slow # <<>> /\ slow' = Tail(slow) /\ UNCHANGED <<received, fresh>>
  BY DEF SendSeparateResponse
<1>3. /\ \A i \in DOMAIN slow' : i + 1 \in DOMAIN slow /\ slow'[i] = slow[i + 1] /\ i \in Nat
      /\ 1 \in DOMAIN slow /\ slow[1].key = key
  <2>1. slow \in Seq(SlowAnswer)
    BY DEF StackInv, TypeOK
  <2> QED
    BY <1>2, <2>1
<1> HIDE DEF key, n
<1>4. ExchangesFrom'
  <2>1. \A x \in DOMAIN exchanges' : From(exchanges'[x], received)
    BY <1>1 DEF DedupInv, ExchangesFrom
  <2> QED
    BY <1>2, <2>1 DEF ExchangesFrom, From
<1>5. \A k : \A t \in Nat \ {0} :
        IdsApart /\ Lasting(exchanges, k, t) # {} => Lasting(exchanges', k, t) # {}
  <2> TAKE k
  <2> TAKE t \in Nat \ {0}
  <2>1. \A x \in Lasting(exchanges, k, t) : x \in DOMAIN exchanges' /\ exchanges'[x] = exchanges[x]
    BY <1>1 DEF Lasting
  <2> QED
    BY <2>1, LastingStays
<1>6. IdsApart /\ DistinctIds => EveryRequestHandled'
  BY <1>2 DEF DedupInv, EveryRequestHandled
<1>7. ASSUME IdsApart, InTime, FreshTokens, SlowConfirmable PROVE OutFree' /\ Tight'
  <2>1. OutFree /\ Tight
    BY <1>7 DEF DedupInv
  <2>2. \A i \in DOMAIN slow' : slow'[i].key # key
    <3> SUFFICES ASSUME NEW i \in DOMAIN slow', slow'[i].key = key PROVE FALSE
      OBVIOUS
    <3>1. i + 1 = 1
      BY <1>3, <2>1 DEF OutFree
    <3>2. i # 0
      <4>1. slow' \in Seq(SlowAnswer)
        BY <1>2 DEF StackInv, TypeOK
      <4> QED
        BY <4>1
    <3> QED
      BY <1>3, <3>1, <3>2
  <2>3. OutFree'
    <3>1. \A i \in DOMAIN slow' :
            slow'[i].key \in DOMAIN interactions' => interactions'[slow'[i].key].out = Null
      BY <1>1, <1>3, <2>1, <2>2 DEF OutFree
    <3>2. ASSUME NEW i \in DOMAIN slow', NEW j \in DOMAIN slow', slow'[j].key = slow'[i].key
          PROVE  j = i
      <4>1. j + 1 = i + 1
        BY <1>3, <2>1, <3>2 DEF OutFree
      <4> QED
        BY <1>3, <4>1
    <3> QED
      BY <3>1, <3>2 DEF OutFree
  <2>4. \A k \in DOMAIN interactions' : \A x \in DOMAIN exchanges' :
          exchanges'[x].key = k => x \in {interactions'[k].in, interactions'[k].out}
    <3> SUFFICES ASSUME NEW k \in DOMAIN interactions', NEW x \in DOMAIN exchanges',
                        exchanges'[x].key = k
                 PROVE  x \in {interactions'[k].in, interactions'[k].out}
      OBVIOUS
    <3>1. CASE x \in DOMAIN exchanges
      <4>1. x \in {interactions[k].in, interactions[k].out} /\ x # Null
        BY <1>1, <2>1, <3>1 DEF Tight, Own, Null, StackInv, StoreInv, Store
      <4>2. CASE k # key
        BY <1>1, <4>1, <4>2
      <4>3. CASE k = key
        <5>1. interactions[key].out = Null
          BY <1>1, <1>3, <2>1, <4>3 DEF OutFree
        <5> QED
          BY <1>1, <4>1, <4>3, <5>1
      <4> QED
        BY <4>2, <4>3
    <3>2. CASE x \notin DOMAIN exchanges
      BY <1>1, <3>2
    <3> QED
      BY <3>1, <3>2
  <2>5. Tight'
    BY <2>4 DEF Tight, Own
  <2> QED
    BY <2>3, <2>5
<1> QED
  BY <1>1, <1>2, <1>4, <1>5, <1>6, <1>7, DedupQuiet

LEMMA DedupBeat ==
  ASSUME StackInv, DedupInv, HeartBeat
  PROVE  DedupInv'
<1> DEFINE gone == ExpiredExchanges
<1>1. /\ DOMAIN exchanges' = DOMAIN exchanges \ gone
      /\ \A x \in DOMAIN exchanges' :
           /\ exchanges'[x].origin = exchanges[x].origin
           /\ exchanges'[x].key = exchanges[x].key
           /\ exchanges'[x].mid = exchanges[x].mid
           /\ exchanges'[x].msg = exchanges[x].msg
           /\ exchanges[x].origin = "remote" => exchanges'[x] = exchanges[x]
      /\ DOMAIN interactions' \subseteq DOMAIN interactions
      /\ \A k \in DOMAIN interactions' :
           /\ interactions'[k].in = NoLonger(interactions[k].in, gone)
           /\ interactions'[k].out = NoLonger(interactions[k].out, gone)
  BY BeatEffect
<1>2. wire \subseteq wire' /\ UNCHANGED <<slow, received, fresh>>
  BY DEF HeartBeat, check_remove_expired_server_exchanges
<1> HIDE DEF gone
<1>3. ExchangesFrom'
  <2>1. \A x \in DOMAIN exchanges' : From(exchanges[x], received)
    BY <1>1 DEF DedupInv, ExchangesFrom
  <2>2. \A x \in DOMAIN exchanges' : From(exchanges'[x], received)
    BY <1>1, <2>1 DEF From
  <2> QED
    BY <1>2, <2>2 DEF ExchangesFrom, From
<1>4. \A k : \A t \in Nat \ {0} :
        IdsApart /\ Lasting(exchanges, k, t) # {} => Lasting(exchanges', k, t) # {}
  BY BeatLasting
<1>5. IdsApart /\ DistinctIds => EveryRequestHandled'
  BY <1>2 DEF DedupInv, EveryRequestHandled
<1>6. ASSUME IdsApart, InTime, FreshTokens, SlowConfirmable PROVE OutFree' /\ Tight'
  <2>1. OutFree /\ Tight
    BY <1>6 DEF DedupInv
  <2>2. OutFree'
    BY <1>1, <1>2, <2>1 DEF OutFree, NoLonger
  <2>3. \A k \in DOMAIN interactions' : \A x \in DOMAIN exchanges' :
          exchanges'[x].key = k => x \in {interactions'[k].in, interactions'[k].out}
    BY <1>1, <2>1 DEF Tight, Own, NoLonger
  <2>4. Tight'
    BY <2>3 DEF Tight, Own
  <2> QED
    BY <2>2, <2>4
<1> QED
  BY <1>2, <1>3, <1>4, <1>5, <1>6, DedupQuiet

LEMMA DedupDrop ==
  ASSUME StackInv, DedupInv, DropEvent
  PROVE  DedupInv'
<1>1. /\ UNCHANGED <<exchanges, interactions, wire, received, fresh>>
      /\ slow' = slow \/ (slow # <<>> /\ slow' = Tail(slow))
      /\ ~InTime
  BY DEF DropEvent, store, InTime
<1>2. ExchangesFrom'
  BY <1>1 DEF DedupInv, ExchangesFrom, From
<1>3. IdsApart /\ DistinctIds => EveryRequestHandled'
  BY <1>1 DEF DedupInv, EveryRequestHandled
<1> QED
  BY <1>1, <1>2, <1>3, DedupQuiet

LEMMA DedupTick ==
  ASSUME StackInv, DedupInv, Tick
  PROVE  DedupInv'
<1>1. /\ slow' = [i \in DOMAIN slow |-> [slow[i] EXCEPT !.ttl = Less(@)]]
      /\ fresh' = [r \in Requests |-> Less(fresh[r])]
      /\ UNCHANGED <<interactions, wire, received>>
      /\ DOMAIN exchanges' = DOMAIN exchanges
      /\ \A x \in DOMAIN exchanges : exchanges'[x] = [exchanges[x] EXCEPT !.ttl = Less(@)]
  BY DEF Tick
<1>2. \A i \in DOMAIN slow : /\ slow[i].ttl \in Nat
                             /\ slow'[i].key = slow[i].key
                             /\ slow'[i].ttl = Less(slow[i].ttl)
  <2>1. slow \in Seq(SlowAnswer)
    BY DEF StackInv, TypeOK
  <2>2. \A i \in DOMAIN slow : slow[i] \in SlowAnswer
    BY <2>1
  <2>3. \A b \in SlowAnswer : [b EXCEPT !.ttl = Less(@)].key = b.key
                              /\ [b EXCEPT !.ttl = Less(@)].ttl = Less(b.ttl)
    BY DEF SlowAnswer
  <2> QED
    BY <1>1, <2>2, <2>3 DEF SlowAnswer
<1>3. DOMAIN slow' = DOMAIN slow
  BY <1>1
<1>4. \A r \in Requests : fresh[r] \in Int /\ fresh'[r] = Less(fresh[r])
  BY <1>1 DEF StackInv, TypeOK
<1>5. \A x \in DOMAIN exchanges :
        /\ exchanges'[x].origin = exchanges[x].origin /\ exchanges'[x].key = exchanges[x].key
        /\ exchanges'[x].mid = exchanges[x].mid /\ exchanges'[x].msg = exchanges[x].msg
  <2>1. \A x \in DOMAIN exchanges : exchanges[x] \in Exchange
    BY DEF StackInv, TypeOK
  <2> QED
    BY <1>1, <2>1 DEF Exchange
<1>6. ExchangesFrom'
  <2>1. \A x \in DOMAIN exchanges : From(exchanges'[x], received)
    BY <1>5 DEF DedupInv, ExchangesFrom, From
  <2> QED
    BY <1>1, <2>1 DEF ExchangesFrom, From
<1>7. SlowFrom'
  BY <1>1, <1>2, <1>3, ZenonT(30) DEF DedupInv, SlowFrom
<1>8. SlowOrdered'
  BY <1>2, <1>3, ServerStackAssumption DEF DedupInv, SlowOrdered, Less
<1>9. FreshBound'
  BY <1>4, ServerStackAssumption DEF DedupInv, FreshBound, Less
<1>10. IdsApart' <=> IdsApart
  BY <1>1 DEF IdsApart
<1>11. EveryRequestHandled => EveryRequestHandled'
  BY <1>1, <1>4 DEF EveryRequestHandled, Less, StackInv, TypeOK
<1>12. ASSUME IdsApart, FreshTokens PROVE Remembered'
  <2> SUFFICES ASSUME NEW r \in Requests, r.con, fresh'[r] > 0
               PROVE  Lasting(exchanges', Key1(r), fresh'[r]) # {}
    BY DEF Remembered, Lasting
  <2>1. fresh[r] \in Int /\ fresh[r] > 0 /\ fresh'[r] = fresh[r] - 1
    BY <1>4 DEF Less
  <2>2. Lasting(exchanges, Key1(r), fresh[r]) # {}
    BY <1>12, <2>1 DEF DedupInv, Remembered
  <2> QED
    BY <2>1, <2>2, TickLasting
<1>13. ASSUME IdsApart, InTime PROVE SlowBacked'
  <2>1. ASSUME NEW i \in DOMAIN slow'
        PROVE  Lasting(exchanges', slow'[i].key, slow'[i].ttl + (Lifetime - SlowDelay)) # {}
    <3>1. slow[i].ttl > 0
      <4>1. slow \in Seq(SlowAnswer) /\ slow # <<>>
        BY <1>3, <2>1 DEF StackInv, TypeOK
      <4>2. Head(slow) = slow[1] /\ 1 \in DOMAIN slow /\ 1 <= i
        BY <1>3, <4>1
      <4>3. slow[1].ttl > 0
        BY <1>13, <4>1, <4>2 DEF Tick, InTime
      <4>4. slow[1].ttl <= slow[i].ttl
        BY <1>3, <4>2 DEF DedupInv, SlowOrdered
      <4> QED
        BY <1>2, <1>3, <4>2, <4>3, <4>4
    <3> DEFINE t == slow[i].ttl + (Lifetime - SlowDelay)
    <3>2. t \in Int
      BY <1>3, <1>13, WindowType DEF DedupInv
    <3>3. slow'[i].ttl + (Lifetime - SlowDelay) = t - 1
      BY <1>2, <1>3, <3>1, ServerStackAssumption DEF Less
    <3>4. Lasting(exchanges, slow[i].key, t) # {}
      BY <1>3, <1>13 DEF DedupInv, SlowBacked
    <3> HIDE DEF t
    <3>5. Lasting(exchanges', slow[i].key, t - 1) # {}
      BY <3>2, <3>4, TickLasting
    <3> QED
      BY <1>2, <1>3, <3>3, <3>5
  <2> QED
    BY <2>1 DEF SlowBacked, Lasting
<1>14. ASSUME IdsApart, InTime, FreshTokens, SlowConfirmable PROVE OutFree' /\ Tight'
  <2>1. OutFree /\ Tight
    BY <1>14 DEF DedupInv
  <2>2. OutFree'
    BY <1>1, <1>2, <1>3, <2>1, ZenonT(30) DEF OutFree
  <2>3. Tight'
    BY <1>1, <1>5, <2>1 DEF Tight, Own
  <2> QED
    BY <2>2, <2>3
<1>15. (DistinctIds <=> DistinctIds') /\ (FreshTokens <=> FreshTokens')
         /\ (InTime <=> InTime') /\ (SlowConfirmable <=> SlowConfirmable')
  BY DEF DistinctIds, FreshTokens, InTime, SlowConfirmable
<1> QED
  BY <1>6, <1>7, <1>8, <1>9, <1>10, <1>11, <1>12, <1>13, <1>14, <1>15, Zenon DEF DedupInv

LEMMA DedupInit == Init => DedupInv
<1> SUFFICES ASSUME Init PROVE DedupInv
  OBVIOUS
<1>1. DOMAIN exchanges = {} /\ DOMAIN interactions = {} /\ DOMAIN slow = {} /\ received = {}
  BY DEF Init
<1>2. \A r \in Requests : fresh[r] = -1
  BY DEF Init
<1>3. ExchangesFrom /\ SlowFrom /\ SlowOrdered /\ FreshBound
  BY <1>1, <1>2, ServerStackAssumption DEF ExchangesFrom, SlowFrom, SlowOrdered, FreshBound
<1>4. EveryRequestHandled /\ Remembered /\ SlowBacked /\ OutFree /\ Tight
  BY <1>1, <1>2 DEF EveryRequestHandled, Remembered, SlowBacked, OutFree, Tight
<1> QED
  BY <1>3, <1>4 DEF DedupInv

LEMMA DedupNext == StackInv /\ DedupInv /\ [Next]_vars => DedupInv'
<1> SUFFICES ASSUME StackInv, DedupInv, [Next]_vars PROVE DedupInv'
  OBVIOUS
<1>1. CASE UNCHANGED vars
  <2>1. UNCHANGED <<exchanges, interactions, slow, wire, received, fresh>>
    BY <1>1 DEF vars
  <2>2. IdsApart /\ DistinctIds => EveryRequestHandled'
    BY <2>1 DEF DedupInv, EveryRequestHandled
  <2> QED
    BY <2>1, <2>2, DedupIdle
<1> QED
  BY <1>1, DedupRequest, DedupDuplicate, DedupReject, DedupEmpty, DedupSeparate, DedupBeat,
     DedupDrop, DedupTick DEF Next

LEMMA DedupAlways == Spec => [](StackInv /\ DedupInv)
<1>1. StackInv /\ DedupInv /\ [Next]_vars => (StackInv /\ DedupInv)'
  BY StackInvNext, DedupNext
<1>2. Init => StackInv /\ DedupInv
  BY StackInvInit, DedupInit
<1> QED
  BY <1>1, <1>2, PTL DEF Spec

(***************************************************************************)
(* When the requests of a peer have ids of their own, and none of them the *)
(* id of a message of the server, every request that is received has been  *)
(* handled: none is taken for a repetition of another, and dropped.        *)
(***************************************************************************)
THEOREM StackEveryRequestHandled ==
  ASSUME DistinctIds
  PROVE  Spec => [](IdsApart => EveryRequestHandled)
<1>1. StackInv /\ DedupInv => (IdsApart => EveryRequestHandled)
  BY DEF DedupInv
<1> QED
  BY <1>1, DedupAlways, PTL

(***************************************************************************)
(* When each request has a token of its own, and none the id of a message  *)
(* of the server, no confirmable request is handled a second time within   *)
(* the lifetime of its exchange: the exchange that recognises a repetition *)
(* survives other requests, ACKs, RSTs, late answers and heart beats.      *)
(***************************************************************************)
THEOREM StackHandledOnce ==
  ASSUME FreshTokens
  PROVE  Spec /\ []IdsApart => HandledOnce
<1>1. ASSUME StackInv, DedupInv, IdsApart, NEW r \in Requests, r.con, ReceiveRequest(r)
      PROVE  fresh[r] <= 0
  <2> SUFFICES ASSUME fresh[r] > 0 PROVE FALSE
    BY <1>1 DEF StackInv, TypeOK
  <2>1. PICK x \in DOMAIN exchanges : exchanges[x].origin = "remote" /\ exchanges[x].key = Key1(r)
    BY <1>1 DEF DedupInv, Remembered, Lasting
  <2>2. PICK s \in received : Key1(s) = Key1(r) /\ s.mid = exchanges[x].mid
    BY <1>1, <2>1 DEF DedupInv, ExchangesFrom, From
  <2>3. s = r
    BY <1>1, <2>2 DEF StackInv, TypeOK, FreshTokens
  <2>4. x \in Matching(r.ep, r.mid)
    BY <2>1, <2>2, <2>3 DEF Matching, is_msg_matched, Key1
  <2> QED
    BY <1>1, <2>4 DEF ReceiveRequest, is_duplicate
<1>2. StackInv /\ DedupInv /\ IdsApart =>
        [\A r \in Requests : r.con /\ ReceiveRequest(r) => fresh[r] <= 0]_vars
  BY <1>1
<1> QED
  BY <1>2, DedupAlways, PTL DEF HandledOnce

(***************************************************************************)
(* When a slow resource answers within the lifetime of an exchange, and    *)
(* the stack task is punctual, the interaction is there when the answer    *)
(* comes, whatever is repeated, acknowledged, reset or expires before.     *)
(***************************************************************************)
THEOREM StackSlowRequestKept ==
  ASSUME InTime
  PROVE  Spec => [](IdsApart => SlowRequestKept)
<1>1. StackInv /\ DedupInv => (IdsApart => SlowRequestKept)
  <2> SUFFICES ASSUME StackInv, DedupInv, IdsApart, NEW i \in DOMAIN slow
               PROVE  slow[i].key \in DOMAIN interactions
    BY DEF SlowRequestKept
  <2>1. PICK x \in DOMAIN exchanges : exchanges[x].key = slow[i].key
    BY DEF DedupInv, SlowBacked, Lasting
  <2> QED
    BY <2>1 DEF StackInv, StoreInv, Store
<1> QED
  BY <1>1, DedupAlways, PTL

(***************************************************************************)
(* When besides that tokens are used once and requests for slow resources  *)
(* are confirmable, an interaction has at most a received and a sent       *)
(* exchange: no late answer is sent beside an exchange still under way.    *)
(***************************************************************************)
THEOREM StackAtMostTwoExchanges ==
  ASSUME InTime, FreshTokens, SlowConfirmable
  PROVE  Spec => [](IdsApart => AtMostTwoExchanges)
<1>1. StackInv /\ DedupInv => (IdsApart => AtMostTwoExchanges)
  <2> SUFFICES ASSUME StackInv, DedupInv, IdsApart, NEW k \in DOMAIN interactions
               PROVE  interactions[k].exchanges <= 2
    BY DEF AtMostTwoExchanges
  <2> DEFINE both == {interactions[k].in, interactions[k].out}
  <2>1. Own(exchanges, k) \subseteq both
    BY DEF DedupInv, Tight
  <2>2. IsFiniteSet(both) /\ Cardinality(both) <= 2
    <3>1. IsFiniteSet({interactions[k].in}) /\ Cardinality({interactions[k].in}) = 1
      BY FS_Singleton
    <3>2. both = {interactions[k].in} \cup {interactions[k].out}
      OBVIOUS
    <3>3. /\ IsFiniteSet(both)
          /\ \/ Cardinality(both) = Cardinality({interactions[k].in})
             \/ Cardinality(both) = Cardinality({interactions[k].in}) + 1
      BY <3>1, <3>2, FS_AddElement
    <3> QED
      BY <3>1, <3>3
  <2>3. Cardinality(Own(exchanges, k)) <= Cardinality(both) /\ Cardinality(Own(exchanges, k)) \in Nat
          /\ Cardinality(both) \in Nat
    BY <2>1, <2>2, FS_Subset, FS_CardinalityType
  <2>4. interactions[k].exchanges = Cardinality(Own(exchanges, k))
    BY DEF StackInv, StoreInv, Store, Fits
  <2> QED
    BY <2>2, <2>3, <2>4
<1> QED
  BY <1>1, DedupAlways, PTL
===============================================================================
