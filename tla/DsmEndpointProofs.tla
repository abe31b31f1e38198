------------------------- MODULE DsmEndpointProofs -------------------------
(***************************************************************************)
(* Proofs about DsmEndpoint for any SMs and pairs, any window, thresholds   *)
(* and timeout, any grants of the shared-memory service and any bounds.     *)
(***************************************************************************)
EXTENDS DsmEndpoint, TLAPS, FiniteSetTheorems, SequenceTheorems,
        WellFoundedInduction

\* A store moves at least one byte.  An empty one needs no grant, so it would be served
\* while an older store of its link still waits for bytes.
StoresNeedBytes == \A c \in StoreLike : Bytes[c] > 0

\* r is q without its element at k.
Up(k, i) == IF i < k THEN i ELSE i + 1
Removed(q, k, r) ==
    /\ k \in DOMAIN q /\ Len(r) = Len(q) - 1
    /\ \A i \in 1..(Len(q) - 1) : r[i] = q[Up(k, i)]

\* The transactions of a queue (an acknowledgement has number 0 and is none), each there
\* once, and its stores in the order of issue.
Ids(q) == {q[i].id : i \in DOMAIN q} \ {0}
Once(q) == \A i, j \in DOMAIN q : q[i].id = q[j].id /\ q[i].id # 0 => i = j
StoreOrder(q) ==
    \A i, j \in DOMAIN q :
        i < j /\ q[i].cls \in StoreLike /\ q[j].cls \in StoreLike /\ LinkOf(q[i]) = LinkOf(q[j])
            => q[i].id < q[j].id

\* The requests at the targets.
ReqsOf(q) == [i \in 1..Len(q) |-> q[i].req]
Arrived == ReqsOf(ingress)

\* The places of transactions, and the transactions at each.
Spots == ({"request", "response"} \X Links) \cup {<<"ingress", 0>>, <<"pending", 0>>, <<"applied", 0>>}
Held == [c \in Spots |->
    CASE c[1] = "request"  -> Ids(reqs[c[2]])
      [] c[1] = "response" -> Ids(rsps[c[2]])
      [] c[1] = "ingress"  -> Ids(Arrived)
      [] c[1] = "pending"  -> Ids(pending)
      [] c[1] = "applied"  -> applied]

\* No transaction is at two places, and only issued ones are at any.
Apart(H, n) ==
    /\ \A c, d \in Spots : c # d => H[c] \cap H[d] = {}
    /\ \A c \in Spots : H[c] \subseteq 1..(n - 1)

EachOnce ==
    /\ \A l \in Links : Once(reqs[l]) /\ Once(rsps[l])
    /\ Once(Arrived) /\ Once(pending)
    /\ Apart(Held, nextTx)

\* An outstanding request is the requester's, and its number is its own.
TxKnown ==
    /\ \A s \in Sms : \A r \in tx[s] : r.src = s /\ LinkOf(r) \in Links /\ r.id < nextTx
    /\ \A s, t \in Sms : \A r \in tx[s], q \in tx[t] : r.id = q.id => r = q

\* Requests under way are outstanding.
RequestsKnown ==
    /\ \A l \in Links : \A i \in DOMAIN reqs[l] :
          reqs[l][i] \in tx[l[1]] /\ LinkOf(reqs[l][i]) = l
    /\ \A i \in DOMAIN Arrived : Arrived[i] \in tx[Arrived[i].src]

\* What may answer with number n on link l, T being outstanding: no store has the number,
\* and no other link.
Answerable(T, n, l) ==
    /\ n # 0
    /\ \A s \in Sms : \A r \in T[s] : r.id = n => LinkOf(r) = l /\ r.cls \notin StoreLike

AnswersKnown ==
    /\ \A l \in Links : \A i \in DOMAIN rsps[l] :
          IF rsps[l][i].op = "ack" THEN rsps[l][i].id = 0 ELSE Answerable(tx, rsps[l][i].id, l)
    /\ \A i \in DOMAIN pending :
          /\ pending[i].op # "ack" /\ <<pending[i].dst, pending[i].src>> \in Links
          /\ Answerable(tx, pending[i].id, <<pending[i].dst, pending[i].src>>)
    /\ \A s \in Sms : \A r \in tx[s] : r.id \in applied => r.cls \in StoreLike

\* A served entry has its answer; a store that was not served needs more bytes.
EntriesKnown ==
    \A i \in DOMAIN ingress :
        /\ ingress[i].st \in {"hold", "ready"} =>
              ingress[i].op # "none" /\ ingress[i].req.cls \notin StoreLike
        /\ ingress[i].got <= Bytes[ingress[i].req.cls]
        /\ ingress[i].req.cls \in StoreLike => ingress[i].got < Bytes[ingress[i].req.cls]

\* No outstanding request is lost.
NoneLost == \A s \in Sms : \A r \in tx[s] : \E c \in Spots : r.id \in Held[c]

\* The store queues hold the outstanding stores, the oldest first.
StoresQueued ==
    /\ \A l \in Links : \A i \in DOMAIN storeQ[l] :
          \E r \in tx[l[1]] : r.id = storeQ[l][i] /\ LinkOf(r) = l /\ r.cls \in StoreLike
    /\ \A l \in Links : \A i, j \in DOMAIN storeQ[l] : i < j => storeQ[l][i] < storeQ[l][j]
    /\ \A s \in Sms : \A r \in tx[s] :
          r.cls \in StoreLike => \E i \in DOMAIN storeQ[LinkOf(r)] : storeQ[LinkOf(r)][i] = r.id

\* Stores of a link arrive in the order of issue.
StoresInOrder ==
    /\ \A l \in Links : StoreOrder(reqs[l])
    /\ StoreOrder(Arrived)
    /\ \A i \in DOMAIN Arrived : \A l \in Links : \A j \in DOMAIN reqs[l] :
          Arrived[i].cls \in StoreLike /\ reqs[l][j].cls \in StoreLike /\ LinkOf(Arrived[i]) = l
              => Arrived[i].id < reqs[l][j].id

\* What arrived in this cycle is behind the rest, and an entry that was passed over
\* left no bytes to those behind it.
ServedInOrder ==
    /\ \A i, j \in DOMAIN ingress :
          i < j /\ ingress[i].st = "fresh" => ingress[j].st = "fresh"
    /\ \A i \in DOMAIN ingress :
          stage = "ingress" /\ i < cursor /\ ingress[i].st = "sram"
              => grant[ingress[i].req.dst] = 0

\* The inductive invariant.
IndInv ==
    /\ TypeOK
    /\ EachOnce
    /\ TxKnown
    /\ RequestsKnown
    /\ AnswersKnown
    /\ EntriesKnown
    /\ NoneLost
    /\ StoresQueued
    /\ StoresInOrder
    /\ ServedInOrder
    /\ AckDebtExact
    /\ DataStaysHome

-----------------------------------------------------------------------------
(* Sequences. *)

LEMMA RemoveAtFacts ==
    ASSUME NEW S, NEW q \in Seq(S), NEW k \in DOMAIN q
    PROVE  RemoveAt(q, k) \in Seq(S) /\ Removed(q, k, RemoveAt(q, k))
<1> DEFINE a == SubSeq(q, 1, k - 1)
           b == SubSeq(q, k + 1, Len(q))
<1>1. Len(q) \in Nat /\ k \in 1..Len(q)
  OBVIOUS
<1>2. a \in Seq(S) /\ Len(a) = k - 1 /\ \A i \in 1..(k - 1) : a[i] = q[i]
  BY <1>1
<1>3. b \in Seq(S) /\ Len(b) = Len(q) - k /\ \A i \in 1..(Len(q) - k) : b[i] = q[i + k]
  BY <1>1
<1> HIDE DEF a, b
<1>4. a \o b \in Seq(S) /\ Len(a \o b) = Len(q) - 1
  BY <1>1, <1>2, <1>3
<1>5. ASSUME NEW i \in 1..(Len(q) - 1)
      PROVE  (a \o b)[i] = q[Up(k, i)]
  <2>1. CASE i < k
    <3>1. i \in 1..(k - 1) /\ Up(k, i) = i
      BY <1>1, <2>1 DEF Up
    <3>2. (a \o b)[i] = a[i]
      BY <1>1, <1>2, <1>3, <3>1
    <3>3. QED
      BY <1>2, <3>1, <3>2, Zenon
  <2>2. CASE i >= k
    <3>1. (a \o b)[i] = b[i - (k - 1)]
      BY <1>1, <1>2, <1>3, <2>2, SMTT(60)
    <3>2. b[i - (k - 1)] = q[(i - (k - 1)) + k]
      BY <1>1, <1>3, <2>2
    <3>3. QED
      BY <1>1, <2>2, <3>1, <3>2 DEF Up
  <2>3. i < k \/ i >= k
    BY <1>1
  <2>4. QED
    BY ONLY <2>1, <2>2, <2>3
<1>6. RemoveAt(q, k) = a \o b
  BY DEF RemoveAt, a, b
<1>7. QED
  BY <1>1, <1>4, <1>5, <1>6 DEF Removed

LEMMA InsertAtFacts ==
    ASSUME NEW S, NEW q \in Seq(S), NEW k \in 1..(Len(q) + 1), NEW x \in S
    PROVE  /\ InsertAt(q, k, x) \in Seq(S)
           /\ Removed(InsertAt(q, k, x), k, q)
           /\ InsertAt(q, k, x)[k] = x
           /\ Len(InsertAt(q, k, x)) = Len(q) + 1
<1> DEFINE a == SubSeq(q, 1, k - 1)
           b == SubSeq(q, k, Len(q))
           c == a \o <<x>>
           r == c \o b
<1>1. Len(q) \in Nat
  OBVIOUS
<1>2. a \in Seq(S) /\ Len(a) = k - 1 /\ \A i \in 1..(k - 1) : a[i] = q[i]
  BY <1>1
<1>3. b \in Seq(S) /\ Len(b) = Len(q) - k + 1 /\ \A i \in 1..(Len(q) - k + 1) : b[i] = q[i + k - 1]
  BY <1>1
<1> HIDE DEF a, b
<1>4. c \in Seq(S) /\ Len(c) = k /\ c[k] = x /\ \A i \in 1..(k - 1) : c[i] = a[i]
  BY <1>1, <1>2, SMTT(60)
<1> HIDE DEF c
<1>5. r \in Seq(S) /\ Len(r) = Len(q) + 1
  BY <1>1, <1>3, <1>4
<1>6. \A i \in 1..k : r[i] = c[i]
  BY <1>1, <1>3, <1>4
<1>7. ASSUME NEW i \in 1..Len(q)
      PROVE  q[i] = r[Up(k, i)]
  <2>1. CASE i < k
    <3>1. i \in 1..(k - 1) /\ Up(k, i) = i /\ i \in 1..k
      BY <1>1, <2>1 DEF Up
    <3>2. r[i] = c[i] /\ c[i] = a[i] /\ a[i] = q[i]
      BY ONLY <1>2, <1>4, <1>6, <3>1
    <3>3. QED
      BY ONLY <3>1, <3>2
  <2>2. CASE i >= k
    <3>1. r[i + 1] = b[i + 1 - k]
      BY <1>1, <1>3, <1>4, <2>2
    <3>2. b[i + 1 - k] = q[(i + 1 - k) + k - 1]
      BY <1>1, <1>3, <2>2
    <3>3. (i + 1 - k) + k - 1 = i /\ Up(k, i) = i + 1
      BY <1>1, <2>2 DEF Up
    <3>4. QED
      BY <3>1, <3>2, <3>3, Zenon
  <2>3. i < k \/ i >= k
    BY <1>1
  <2>4. QED
    BY ONLY <2>1, <2>2, <2>3
<1>8. InsertAt(q, k, x) = r
  BY DEF InsertAt, r, c, a, b
<1> HIDE DEF r
<1>9. Removed(r, k, q)
  BY <1>1, <1>5, <1>7 DEF Removed
<1>10. QED
  BY <1>1, <1>4, <1>5, <1>6, <1>8, <1>9

LEMMA AppendFacts ==
    ASSUME NEW S, NEW q \in Seq(S), NEW x \in S
    PROVE  /\ Append(q, x) \in Seq(S) /\ Len(Append(q, x)) = Len(q) + 1
           /\ Removed(Append(q, x), Len(q) + 1, q)
           /\ Append(q, x)[Len(q) + 1] = x
           /\ \A i \in 1..Len(q) : Append(q, x)[i] = q[i]
BY DEF Removed, Up

LEMMA TailFacts ==
    ASSUME NEW S, NEW q \in Seq(S), q # <<>>
    PROVE  /\ Tail(q) \in Seq(S) /\ Len(Tail(q)) = Len(q) - 1
           /\ Removed(q, 1, Tail(q)) /\ Head(q) = q[1] /\ 1 \in DOMAIN q
<1>1. Len(q) \in Nat /\ Len(q) # 0
  OBVIOUS
<1>2. QED
  BY <1>1 DEF Removed, Up

\* What is left of a sequence without its first k elements.
LEMMA SuffixFacts ==
    ASSUME NEW S, NEW q \in Seq(S), NEW k \in 0..Len(q)
    PROVE  /\ SubSeq(q, k + 1, Len(q)) \in Seq(S) /\ Len(SubSeq(q, k + 1, Len(q))) = Len(q) - k
           /\ \A i \in 1..(Len(q) - k) : SubSeq(q, k + 1, Len(q))[i] = q[i + k]
<1>1. Len(q) \in Nat
  OBVIOUS
<1>2. QED
  BY <1>1

\* Where the elements of q are in r.
LEMMA RemovedMap ==
    ASSUME NEW S, NEW q \in Seq(S), NEW r \in Seq(S), NEW k, Removed(q, k, r)
    PROVE  /\ \A i \in DOMAIN r : Up(k, i) \in DOMAIN q /\ Up(k, i) # k /\ r[i] = q[Up(k, i)]
           /\ \A i, j \in DOMAIN r : Up(k, i) = Up(k, j) => i = j
           /\ \A i, j \in DOMAIN r : i < j <=> Up(k, i) < Up(k, j)
           /\ \A i \in DOMAIN q : i = k \/ \E j \in DOMAIN r : Up(k, j) = i
<1>1. Len(q) \in Nat /\ DOMAIN q = 1..Len(q) /\ DOMAIN r = 1..(Len(q) - 1) /\ k \in 1..Len(q)
  BY DEF Removed
<1>2. \A i \in DOMAIN r : Up(k, i) \in DOMAIN q /\ Up(k, i) # k /\ r[i] = q[Up(k, i)]
  BY <1>1 DEF Removed, Up
<1>3. /\ \A i, j \in DOMAIN r : Up(k, i) = Up(k, j) => i = j
      /\ \A i, j \in DOMAIN r : i < j <=> Up(k, i) < Up(k, j)
  BY <1>1 DEF Up
<1>4. ASSUME NEW i \in DOMAIN q, i # k
      PROVE  \E j \in DOMAIN r : Up(k, j) = i
  <2>1. CASE i < k
    <3>1. i \in DOMAIN r /\ Up(k, i) = i
      BY <1>1, <2>1 DEF Up
    <3>2. QED
      BY <3>1
  <2>2. CASE i > k
    <3>1. i - 1 \in DOMAIN r /\ Up(k, i - 1) = i
      BY <1>1, <2>2 DEF Up
    <3>2. QED
      BY <3>1
  <2>3. QED
    BY <1>1, <1>4, <2>1, <2>2
<1>5. QED
  BY <1>2, <1>3, <1>4

\* Taking an element away.
LEMMA RemovedIds ==
    ASSUME NEW S, NEW q \in Seq(S), NEW r \in Seq(S), NEW k, Removed(q, k, r), Once(q)
    PROVE  Once(r) /\ Ids(r) = Ids(q) \ {q[k].id}
<1> DEFINE up(i) == Up(k, i)
<1>1. /\ \A i \in DOMAIN r : up(i) \in DOMAIN q /\ up(i) # k /\ r[i] = q[up(i)]
      /\ \A i, j \in DOMAIN r : up(i) = up(j) => i = j
      /\ \A i \in DOMAIN q : i = k \/ \E j \in DOMAIN r : up(j) = i
  BY RemovedMap
<1>2. k \in DOMAIN q
  BY DEF Removed
<1> HIDE DEF up
<1>3. Once(r)
  BY <1>1 DEF Once
<1>4. ASSUME NEW x \in Ids(r)
      PROVE  x \in Ids(q) \ {q[k].id}
  <2>1. PICK i \in DOMAIN r : r[i].id = x /\ x # 0
    BY DEF Ids
  <2>2. QED
    BY <1>1, <1>2, <2>1 DEF Ids, Once
<1>5. ASSUME NEW x \in Ids(q), x # q[k].id
      PROVE  x \in Ids(r)
  <2>1. PICK i \in DOMAIN q : q[i].id = x /\ x # 0
    BY DEF Ids
  <2>2. PICK j \in DOMAIN r : up(j) = i
    BY <1>1, <1>5, <2>1
  <2>3. QED
    BY <1>1, <2>1, <2>2 DEF Ids
<1>6. QED
  BY <1>3, <1>4, <1>5

\* Putting an element in.
LEMMA AddedIds ==
    ASSUME NEW S, NEW q \in Seq(S), NEW r \in Seq(S), NEW k, Removed(q, k, r), Once(r),
           q[k].id \notin Ids(r)
    PROVE  Once(q) /\ Ids(q) = Ids(r) \cup ({q[k].id} \ {0})
<1> DEFINE up(i) == Up(k, i)
<1>1. /\ \A i \in DOMAIN r : up(i) \in DOMAIN q /\ up(i) # k /\ r[i] = q[up(i)]
      /\ \A i \in DOMAIN q : i = k \/ \E j \in DOMAIN r : up(j) = i
  BY RemovedMap
<1>2. k \in DOMAIN q
  BY DEF Removed
<1> HIDE DEF up
<1>3. ASSUME NEW i \in DOMAIN q, NEW j \in DOMAIN q, q[i].id = q[j].id, q[i].id # 0
      PROVE  i = j
  <2>1. ASSUME NEW m \in DOMAIN q, NEW n \in DOMAIN q, q[m].id = q[n].id, q[m].id # 0, m # k
        PROVE  m = n
    <3>1. PICK a \in DOMAIN r : up(a) = m /\ r[a] = q[m]
      BY <1>1, <2>1
    <3>2. q[k].id # r[a].id
      BY <2>1, <3>1 DEF Ids
    <3>3. PICK b \in DOMAIN r : up(b) = n /\ r[b] = q[n]
      BY <1>1, <2>1, <3>1, <3>2
    <3>4. a = b
      BY <2>1, <3>1, <3>3 DEF Once
    <3>5. QED
      BY <3>1, <3>3, <3>4
  <2>2. QED
    BY <1>3, <2>1
<1>4. Once(q)
  BY <1>3 DEF Once
<1>5. ASSUME NEW x \in Ids(q)
      PROVE  x \in Ids(r) \cup ({q[k].id} \ {0})
  BY <1>1 DEF Ids
<1>6. ASSUME NEW x \in Ids(r) \cup ({q[k].id} \ {0})
      PROVE  x \in Ids(q)
  BY <1>1, <1>2 DEF Ids
<1>7. QED
  BY <1>4, <1>5, <1>6

\* The order of the stores survives taking an element away, and putting in a load or,
\* at the end, a younger store.
LEMMA RemovedOrder ==
    ASSUME NEW S, NEW q \in Seq(S), NEW r \in Seq(S), NEW k, Removed(q, k, r), StoreOrder(q)
    PROVE  StoreOrder(r)
<1> DEFINE up(i) == Up(k, i)
<1>1. /\ \A i \in DOMAIN r : up(i) \in DOMAIN q /\ r[i] = q[up(i)]
      /\ \A i, j \in DOMAIN r : i < j <=> up(i) < up(j)
  BY RemovedMap
<1> HIDE DEF up
<1>2. QED
  BY <1>1 DEF StoreOrder

LEMMA AddedOrder ==
    ASSUME NEW S, NEW q \in Seq(S), NEW r \in Seq(S), NEW k, Removed(q, k, r), StoreOrder(r),
           \/ q[k].cls \notin StoreLike
           \/ /\ k = Len(q)
              /\ \A i \in DOMAIN r :
                    r[i].cls \in StoreLike /\ LinkOf(r[i]) = LinkOf(q[k]) => r[i].id < q[k].id
    PROVE  StoreOrder(q)
<1> DEFINE up(i) == Up(k, i)
<1>1. /\ \A i \in DOMAIN r : up(i) \in DOMAIN q /\ r[i] = q[up(i)]
      /\ \A i, j \in DOMAIN r : i < j <=> up(i) < up(j)
      /\ \A i \in DOMAIN q : i = k \/ \E j \in DOMAIN r : up(j) = i
  BY RemovedMap
<1>2. k \in DOMAIN q /\ DOMAIN q = 1..Len(q) /\ Len(q) \in Nat
  BY DEF Removed
<1> HIDE DEF up
<1>3. SUFFICES ASSUME NEW i \in DOMAIN q, NEW j \in DOMAIN q, i < j,
                      q[i].cls \in StoreLike, q[j].cls \in StoreLike,
                      LinkOf(q[i]) = LinkOf(q[j])
               PROVE  q[i].id < q[j].id
  BY DEF StoreOrder
<1>4. CASE i # k /\ j # k
  <2>1. PICK a \in DOMAIN r : up(a) = i
    BY <1>1, <1>4
  <2>2. PICK b \in DOMAIN r : up(b) = j
    BY <1>1, <1>4
  <2>3. QED
    BY <1>1, <1>3, <2>1, <2>2 DEF StoreOrder
<1>5. CASE i = k
  BY <1>2, <1>3, <1>5
<1>6. CASE j = k /\ i # k
  <2>1. PICK a \in DOMAIN r : up(a) = i
    BY <1>1, <1>6
  <2>2. QED
    BY <1>1, <1>2, <1>3, <1>6, <2>1
<1>7. QED
  BY <1>4, <1>5, <1>6

-----------------------------------------------------------------------------
(* The state. *)

LEMMA ReqsOfFacts ==
    ASSUME NEW q \in Seq(Entry)
    PROVE  /\ ReqsOf(q) \in Seq(Request) /\ Len(ReqsOf(q)) = Len(q)
           /\ DOMAIN ReqsOf(q) = DOMAIN q /\ DOMAIN q = 1..Len(q)
           /\ \A i \in DOMAIN q : ReqsOf(q)[i] = q[i].req /\ q[i].req \in Request
<1>1. Len(q) \in Nat /\ DOMAIN q = 1..Len(q) /\ \A i \in 1..Len(q) : q[i] \in Entry
  OBVIOUS
<1>2. \A i \in 1..Len(q) : q[i].req \in Request
  BY <1>1 DEF Entry
<1>3. ReqsOf(q) \in [1..Len(q) -> Request]
  BY <1>2 DEF ReqsOf
<1>4. QED
  BY <1>1, <1>2, <1>3 DEF ReqsOf

LEMMA RemovedReqs ==
    ASSUME NEW q \in Seq(Entry), NEW r \in Seq(Entry), NEW k, Removed(q, k, r)
    PROVE  Removed(ReqsOf(q), k, ReqsOf(r)) /\ ReqsOf(q)[k] = q[k].req
<1>1. \A i \in DOMAIN r : Up(k, i) \in DOMAIN q /\ r[i] = q[Up(k, i)]
  BY RemovedMap
<1>2. Len(q) \in Nat /\ DOMAIN r = 1..(Len(q) - 1) /\ k \in DOMAIN q /\ Len(r) = Len(q) - 1
  BY DEF Removed
<1>3. QED
  BY <1>1, <1>2, ReqsOfFacts DEF Removed

LEMMA SameReqs ==
    ASSUME NEW q \in Seq(Entry), NEW r \in Seq(Entry), DOMAIN q = DOMAIN r,
           \A i \in DOMAIN q : r[i].req = q[i].req
    PROVE  ReqsOf(r) = ReqsOf(q)
<1>1. Len(q) = Len(r)
  OBVIOUS
<1>2. QED
  BY <1>1 DEF ReqsOf

LEMMA Bounds ==
    /\ Window \in Nat \ {0} /\ AckThreshold \in Nat \ {0} /\ AckTimeout \in Nat \ {0}
    /\ ReqDepth \in Nat \ {0} /\ RspDepth \in Nat \ {0} /\ MaxTx \in Nat \ {0}
    /\ MaxGrant \in Nat /\ MaxGen \in Nat
BY BoundAssumption

LEMMA TxTyped ==
    ASSUME TypeOK, NEW s \in Sms, NEW r \in tx[s]
    PROVE  r \in Request /\ r.id \in Nat /\ r.id # 0
<1>1. r \in Request
  BY DEF TypeOK
<1>2. r.id \in 1..MaxTx
  BY <1>1 DEF Request
<1>3. QED
  BY <1>1, <1>2, Bounds

LEMMA LinkFacts ==
    ASSUME NEW l \in Links
    PROVE  l = <<l[1], l[2]>> /\ l[1] \in Sms /\ l[2] \in Sms /\ l[2] \in Targets
BY LinksAssumption DEF Targets

LEMMA HeldIs ==
    /\ \A l \in Links : Held[<<"request", l>>] = Ids(reqs[l]) /\ Held[<<"response", l>>] = Ids(rsps[l])
    /\ Held[<<"ingress", 0>>] = Ids(Arrived) /\ Held[<<"pending", 0>>] = Ids(pending)
    /\ Held[<<"applied", 0>>] = applied
    /\ \A l \in Links : Held'[<<"request", l>>] = Ids(reqs'[l]) /\ Held'[<<"response", l>>] = Ids(rsps'[l])
    /\ Held'[<<"ingress", 0>>] = Ids(Arrived') /\ Held'[<<"pending", 0>>] = Ids(pending')
    /\ Held'[<<"applied", 0>>] = applied'
<1>1. /\ \A l \in Links : <<"request", l>> \in Spots /\ <<"response", l>> \in Spots
      /\ <<"ingress", 0>> \in Spots /\ <<"pending", 0>> \in Spots /\ <<"applied", 0>> \in Spots
  BY DEF Spots
<1>2. /\ \A l \in Links : Held[<<"request", l>>] = Ids(reqs[l]) /\ Held[<<"response", l>>] = Ids(rsps[l])
      /\ Held[<<"ingress", 0>>] = Ids(Arrived) /\ Held[<<"pending", 0>>] = Ids(pending)
      /\ Held[<<"applied", 0>>] = applied
  BY ONLY <1>1 DEF Held
<1>3. /\ \A l \in Links : Held'[<<"request", l>>] = Ids(reqs'[l]) /\ Held'[<<"response", l>>] = Ids(rsps'[l])
      /\ Held'[<<"ingress", 0>>] = Ids(Arrived') /\ Held'[<<"pending", 0>>] = Ids(pending')
      /\ Held'[<<"applied", 0>>] = applied'
  BY ONLY <1>1 DEF Held
<1>4. QED
  BY <1>2, <1>3

\* Nothing but a spot is a spot.
LEMMA SpotCases ==
    ASSUME NEW c \in Spots
    PROVE  \/ \E l \in Links : c = <<"request", l>> \/ c = <<"response", l>>
           \/ c = <<"ingress", 0>> \/ c = <<"pending", 0>> \/ c = <<"applied", 0>>
BY DEF Spots

LEMMA ApartLess ==
    ASSUME NEW H, NEW G, NEW n \in Nat, NEW m \in Nat, n <= m, Apart(H, n),
           \A c \in Spots : G[c] \subseteq H[c]
    PROVE  Apart(G, m)
<1>1. \A c, d \in Spots : c # d => G[c] \cap G[d] = {}
  BY DEF Apart
<1>2. 1..(n - 1) \subseteq 1..(m - 1)
  OBVIOUS
<1>3. QED
  BY <1>1, <1>2 DEF Apart

\* A transaction moves from one place to another.
LEMMA ApartMoved ==
    ASSUME NEW H, NEW G, NEW n, Apart(H, n), NEW c \in Spots, NEW d \in Spots, c # d,
           NEW x \in H[c],
           G[c] = H[c] \ {x}, G[d] = H[d] \cup {x},
           \A e \in Spots \ {c, d} : G[e] = H[e]
    PROVE  /\ Apart(G, n)
           /\ \A e \in Spots : \A y \in H[e] : \E f \in Spots : y \in G[f]
<1>1. \A e \in Spots : G[e] \subseteq 1..(n - 1)
  BY DEF Apart
<1>2. \A e \in Spots : e # c => x \notin H[e]
  BY DEF Apart
<1>3. ASSUME NEW e \in Spots, NEW f \in Spots, e # f, NEW y \in G[e], y \in G[f]
      PROVE  FALSE
  <2>1. CASE y = x
    BY <1>2, <1>3, <2>1
  <2>2. CASE y # x
    BY <1>3, <2>2 DEF Apart
  <2>3. QED
    BY <2>1, <2>2
<1>4. \A e \in Spots : \A y \in H[e] : \E f \in Spots : y \in G[f]
  BY <1>2
<1>5. QED
  BY <1>1, <1>3, <1>4 DEF Apart

\* A new transaction appears.
LEMMA ApartAdded ==
    ASSUME NEW H, NEW G, NEW n \in Nat \ {0}, Apart(H, n), NEW d \in Spots,
           G[d] = H[d] \cup {n}, \A e \in Spots \ {d} : G[e] = H[e]
    PROVE  Apart(G, n + 1)
<1>1. \A e \in Spots : n \notin H[e]
  BY DEF Apart
<1>2. \A e \in Spots : G[e] \subseteq 1..(n + 1 - 1)
  <2>1. 1..(n - 1) \subseteq 1..(n + 1 - 1) /\ n \in 1..(n + 1 - 1)
    OBVIOUS
  <2>2. QED
    BY <2>1 DEF Apart
<1>3. ASSUME NEW e \in Spots, NEW f \in Spots, e # f, NEW y \in G[e], y \in G[f]
      PROVE  FALSE
  <2>1. CASE y = n
    BY <1>1, <1>3, <2>1
  <2>2. CASE y # n
    BY <1>3, <2>2 DEF Apart
  <2>3. QED
    BY <2>1, <2>2
<1>4. QED
  BY <1>2, <1>3 DEF Apart

-----------------------------------------------------------------------------
(* The types. *)

LEMMA InitType == Init => TypeOK
<1> SUFFICES ASSUME Init PROVE TypeOK
  OBVIOUS
<1>1. nextTx \in 1..(MaxTx + 1) /\ age \in [Links -> 0..AckTimeout] /\ gen \in [Sms -> 0..MaxGen]
      /\ grant \in [Targets -> 0..MaxGrant]
  BY Bounds DEF Init
<1>2. \A s \in Sms : IsFiniteSet(tx[s]) /\ Cardinality(tx[s]) <= Window
  BY FS_EmptySet, Bounds DEF Init
<1>3. \A l \in Links : Len(reqs[l]) <= ReqDepth /\ Len(rsps[l]) <= RspDepth
  BY Bounds DEF Init
<1>4. QED
  BY <1>1, <1>2, <1>3 DEF Init, TypeOK, Stages

\* A request of the pair l, and an answer on it.
LEMMA IssueType ==
    ASSUME TypeOK, NEW l \in Links, NEW c \in Classes, Issue(l, c)
    PROVE  TypeOK'
<1> DEFINE r == [id |-> nextTx, cls |-> c, src |-> l[1], dst |-> l[2], gen |-> gen[l[2]]]
<1>0. nextTx \in 1..MaxTx /\ nextTx + 1 \in 1..(MaxTx + 1)
  BY Bounds DEF TypeOK, Issue
<1>1. r \in Request /\ r.id = nextTx
  <2>1. c \in AllClasses /\ l[1] \in Sms /\ l[2] \in Sms /\ gen[l[2]] \in 0..MaxGen
    BY LinkFacts, ClassesAssumption DEF TypeOK
  <2>2. QED
    BY <1>0, <2>1 DEF Request
<1>2. /\ nextTx' = nextTx + 1
      /\ tx' = [tx EXCEPT ![l[1]] = @ \cup {r}]
      /\ storeQ' = IF c \in StoreLike THEN [storeQ EXCEPT ![l] = Append(@, r.id)] ELSE storeQ
      /\ WindowOpen(l[1]) /\ Len(reqs[l]) < ReqDepth
      /\ UNCHANGED <<rsps, epVars, grant, stage, cursor, ctaVars, waiters, applied, staleHits>>
  BY DEF Issue
<1>3. PICK q \in Placements(l, r) : reqs' = [reqs EXCEPT ![l] = q]
  BY DEF Issue
<1> HIDE DEF r
<1>4. q \in Seq(Request) /\ Len(q) = Len(reqs[l]) + 1
  <2>1. reqs[l] \in Seq(Request)
    BY DEF TypeOK
  <2>2. CASE r.cls = "load"
    <3>1. PICK i \in 1..(Len(reqs[l]) + 1) : q = InsertAt(reqs[l], i, r)
      BY <1>3, <2>2 DEF Placements
    <3>2. QED
      BY <1>1, <2>1, <3>1, InsertAtFacts
  <2>3. CASE r.cls # "load"
    <3>1. q = Append(reqs[l], r)
      BY <1>3, <2>3 DEF Placements
    <3>2. QED
      BY <1>1, <2>1, <3>1, AppendFacts
  <2>4. QED
    BY <2>2, <2>3
<1>5. reqs' \in [Links -> Seq(Request)] /\ \A m \in Links : Len(reqs'[m]) <= ReqDepth
  <2>1. Len(reqs[l]) \in Nat /\ ReqDepth \in Nat
    BY Bounds DEF TypeOK
  <2>2. QED
    BY <1>2, <1>3, <1>4, <2>1, SMTT(60) DEF TypeOK
<1>6. tx' \in [Sms -> SUBSET Request]
  BY <1>1, <1>2 DEF TypeOK
<1>7. ASSUME NEW s \in Sms
      PROVE  IsFiniteSet(tx'[s]) /\ Cardinality(tx'[s]) <= Window
  <2>1. IsFiniteSet(tx[s]) /\ Cardinality(tx[s]) <= Window /\ Cardinality(tx[s]) \in Nat
    BY FS_CardinalityType DEF TypeOK
  <2>2. CASE s = l[1]
    <3>1. Cardinality(tx[s]) < Window /\ Window \in Nat
      BY <1>2, <2>2, Bounds DEF WindowOpen
    <3>2. tx'[s] = tx[s] \cup {r}
      BY <1>2, <2>2 DEF TypeOK
    <3>3. QED
      BY <2>1, <3>1, <3>2, FS_AddElement, SMTT(60)
  <2>3. CASE s # l[1]
    BY <1>2, <2>1, <2>3 DEF TypeOK
  <2>4. QED
    BY <2>2, <2>3
<1>8. storeQ' \in [Links -> Seq(1..MaxTx)]
  BY <1>0, <1>1, <1>2 DEF TypeOK
<1>9. QED
  BY <1>0, <1>2, <1>5, <1>6, <1>7, <1>8 DEF TypeOK, epVars, ctaVars

LEMMA RspsAppend ==
    ASSUME TypeOK, NEW l \in Links, NEW a \in Response, Len(rsps[l]) < RspDepth,
           rsps' = [rsps EXCEPT ![l] = Append(@, a)]
    PROVE  /\ rsps' \in [Links -> Seq(Response)]
           /\ \A m \in Links : Len(rsps'[m]) <= RspDepth
<1>1. rsps[l] \in Seq(Response) /\ Len(rsps[l]) \in Nat /\ RspDepth \in Nat
  BY Bounds DEF TypeOK
<1>2. Append(rsps[l], a) \in Seq(Response) /\ Len(Append(rsps[l], a)) = Len(rsps[l]) + 1
  BY <1>1, AppendFacts
<1>3. QED
  BY <1>1, <1>2, SMTT(60) DEF TypeOK

LEMMA AnswerWaitType ==
    ASSUME TypeOK, NEW l \in Links, AnswerWait(l)
    PROVE  TypeOK'
<1> DEFINE a == [id |-> nextTx, op |-> "waitdone", src |-> l[2], dst |-> l[1], count |-> 1]
<1>1. a \in Response /\ nextTx + 1 \in 1..(MaxTx + 1)
  <2>1. nextTx <= MaxTx /\ nextTx \in 1..(MaxTx + 1)
    BY DEF TypeOK, AnswerWait
  <2>2. l[1] \in Sms /\ l[2] \in Sms /\ nextTx \in 0..MaxTx /\ nextTx + 1 \in 1..(MaxTx + 1)
    BY <2>1, LinkFacts, Bounds
  <2>3. QED
    BY <2>2 DEF Response
<1>2. waiters' \in [Links -> Nat]
  BY DEF TypeOK, AnswerWait
<1>3. rsps' \in [Links -> Seq(Response)] /\ \A m \in Links : Len(rsps'[m]) <= RspDepth
  BY <1>1, RspsAppend DEF TypeOK, AnswerWait
<1>4. pending' \in Seq(Response)
  <2>1. pending' = Append(pending, a) \/ pending' = pending
    BY DEF AnswerWait
  <2>2. pending \in Seq(Response)
    BY DEF TypeOK
  <2> HIDE DEF a
  <2>3. QED
    BY <1>1, <2>1, <2>2, AppendFacts
<1>5. nextTx' \in 1..(MaxTx + 1)
  BY <1>1 DEF AnswerWait
<1>6. UNCHANGED <<tx, storeQ, reqs, ingress, owed, age, grant, stage, cursor, ctaVars, applied, staleHits>>
  BY DEF AnswerWait
<1>7. QED
  BY <1>2, <1>3, <1>4, <1>5, <1>6 DEF TypeOK, ctaVars

\* Nothing under way changes.
Idle ==
    /\ UNCHANGED <<netVars, epVars, applied, staleHits>>
    /\ \/ stage' # "ingress"
       \/ stage = "harvest" /\ stage' = "ingress" /\ cursor' = 1

LEMMA IdleType ==
    ASSUME TypeOK,
           \/ \E s \in Sms : Exit(s) \/ ReleaseCta(s)
           \/ \E g \in [Targets -> 0..MaxGrant] : StartCycle(g)
           \/ HarvestDone \/ IngressDone \/ SendDone
    PROVE  TypeOK' /\ Idle
<1>1. ASSUME NEW s \in Sms, Exit(s)
      PROVE  TypeOK' /\ Idle
  BY <1>1 DEF TypeOK, Idle, Exit, netVars, epVars
<1>2. ASSUME NEW s \in Sms, ReleaseCta(s)
      PROVE  TypeOK' /\ Idle
  <2>1. gen' \in [Sms -> 0..MaxGen]
    BY <1>2, Bounds DEF TypeOK, ReleaseCta
  <2>2. waiters' \in [Links -> Nat] /\ live' \in [Sms -> BOOLEAN]
    BY <1>2 DEF TypeOK, ReleaseCta
  <2>3. QED
    BY <1>2, <2>1, <2>2 DEF TypeOK, Idle, ReleaseCta, netVars, epVars
<1>3. ASSUME NEW g \in [Targets -> 0..MaxGrant], StartCycle(g)
      PROVE  TypeOK' /\ Idle
  BY <1>3 DEF TypeOK, Idle, StartCycle, netVars, epVars, ctaVars, Stages
<1>4. CASE HarvestDone
  BY <1>4 DEF TypeOK, Idle, HarvestDone, netVars, epVars, ctaVars, Stages
<1>5. CASE IngressDone
  BY <1>5 DEF TypeOK, Idle, IngressDone, netVars, epVars, ctaVars, Stages
<1>6. CASE SendDone
  BY <1>6 DEF TypeOK, Idle, SendDone, netVars, epVars, ctaVars, Stages
<1>7. QED
  BY <1>1, <1>2, <1>3, <1>4, <1>5, <1>6

LEMMA TakeRequestType ==
    ASSUME TypeOK, NEW l \in Links, TakeRequest(l)
    PROVE  TypeOK'
<1>1. reqs[l] \in Seq(Request) /\ reqs[l] # <<>> /\ Len(reqs[l]) \in Nat /\ ReqDepth \in Nat
  BY Bounds DEF TypeOK, TakeRequest
<1>2. Tail(reqs[l]) \in Seq(Request) /\ Len(Tail(reqs[l])) = Len(reqs[l]) - 1 /\ Head(reqs[l]) \in Request
  BY <1>1, TailFacts
<1>3. reqs' \in [Links -> Seq(Request)] /\ \A m \in Links : Len(reqs'[m]) <= ReqDepth
  BY <1>1, <1>2, SMTT(60) DEF TypeOK, TakeRequest
<1>4. [req |-> Head(reqs[l]), st |-> "fresh", got |-> 0, op |-> "none"] \in Entry
  BY <1>2 DEF Entry
<1>5. ingress' \in Seq(Entry)
  BY <1>4 DEF TypeOK, TakeRequest
<1>6. QED
  BY <1>3, <1>5 DEF TypeOK, TakeRequest, ctaVars

LEMMA SmallerTx ==
    ASSUME TypeOK, tx' \in [Sms -> SUBSET Request], \A s \in Sms : tx'[s] \subseteq tx[s]
    PROVE  \A s \in Sms : IsFiniteSet(tx'[s]) /\ Cardinality(tx'[s]) <= Window
<1> SUFFICES ASSUME NEW s \in Sms
             PROVE  IsFiniteSet(tx'[s]) /\ Cardinality(tx'[s]) <= Window
  OBVIOUS
<1>1. IsFiniteSet(tx[s]) /\ Cardinality(tx[s]) <= Window /\ tx'[s] \subseteq tx[s]
  BY DEF TypeOK
<1>2. IsFiniteSet(tx'[s]) /\ Cardinality(tx'[s]) <= Cardinality(tx[s])
  BY <1>1, FS_Subset
<1>3. Cardinality(tx'[s]) \in Nat /\ Cardinality(tx[s]) \in Nat /\ Window \in Nat
  BY <1>1, <1>2, FS_CardinalityType, Bounds
<1>4. QED
  BY <1>1, <1>2, <1>3

LEMMA TakeResponseType ==
    ASSUME TypeOK, NEW l \in Links, TakeResponse(l)
    PROVE  TypeOK'
<1>1. rsps[l] \in Seq(Response) /\ rsps[l] # <<>> /\ Len(rsps[l]) \in Nat /\ RspDepth \in Nat
  BY Bounds DEF TypeOK, TakeResponse
<1>2. Tail(rsps[l]) \in Seq(Response) /\ Len(Tail(rsps[l])) = Len(rsps[l]) - 1 /\ Head(rsps[l]) \in Response
  BY <1>1, TailFacts
<1>3. rsps' \in [Links -> Seq(Response)] /\ \A m \in Links : Len(rsps'[m]) <= RspDepth
  BY <1>1, <1>2, SMTT(60) DEF TypeOK, TakeResponse
<1>4. tx' \in [Sms -> SUBSET Request] /\ \A s \in Sms : tx'[s] \subseteq tx[s]
  BY LinkFacts DEF TypeOK, TakeResponse
<1>5. storeQ' \in [Links -> Seq(1..MaxTx)]
  <2> DEFINE n == Len(Completed(l, Head(rsps[l])))
  <2>1. storeQ[l] \in Seq(1..MaxTx) /\ Head(rsps[l]).count \in Nat /\ Len(storeQ[l]) \in Nat
    BY <1>2, SMTT(60) DEF TypeOK, Response
  <2>2. n \in 0..Len(storeQ[l])
    BY <2>1 DEF Completed
  <2> HIDE DEF n
  <2>3. SubSeq(storeQ[l], n + 1, Len(storeQ[l])) \in Seq(1..MaxTx)
    BY <2>1, <2>2, SuffixFacts
  <2>4. storeQ' = storeQ \/ storeQ' = [storeQ EXCEPT ![l] = SubSeq(@, n + 1, Len(@))]
    BY DEF TakeResponse, n
  <2>5. QED
    BY <2>3, <2>4 DEF TypeOK
<1>6. UNCHANGED <<nextTx, reqs, epVars, grant, stage, cursor, ctaVars, waiters, applied, staleHits>>
  BY DEF TakeResponse
<1>7. QED
  BY <1>3, <1>4, <1>5, <1>6, SmallerTx DEF TypeOK, epVars, ctaVars

\* The entry at the cursor.
LEMMA AtCursor ==
    ASSUME TypeOK, EntriesKnown, NEW st, AtEntry(st)
    PROVE  /\ cursor \in DOMAIN ingress /\ cursor \in 1..Len(ingress)
           /\ ingress[cursor] \in Entry /\ ingress[cursor].st = st
           /\ ingress[cursor].req \in Request /\ ingress[cursor].req.cls \in AllClasses
           /\ Bytes[ingress[cursor].req.cls] \in Nat /\ ingress[cursor].got \in Nat
           /\ ingress[cursor].got <= Bytes[ingress[cursor].req.cls]
           /\ stage = "ingress"
<1>1. cursor \in 1..Len(ingress) /\ DOMAIN ingress = 1..Len(ingress) /\ ingress[cursor].st = st
  BY DEF TypeOK, AtEntry
<1>2. ingress[cursor] \in Entry
  BY <1>1 DEF TypeOK
<1>3. ingress[cursor].req \in Request /\ ingress[cursor].got \in Nat
  BY <1>2 DEF Entry
<1>4. ingress[cursor].req.cls \in AllClasses
  BY <1>3 DEF Request
<1>5. QED
  BY <1>1, <1>2, <1>3, <1>4, ClassesAssumption DEF EntriesKnown, AtEntry

\* What an entry takes is there and is needed.
LEMMA TakesFacts ==
    ASSUME TypeOK, NEW t \in Targets, NEW need \in Nat
    PROVE  /\ Takes(t, need) \in 0..need /\ grant[t] - Takes(t, need) \in 0..MaxGrant
           /\ grant[t] \in Nat
           /\ Takes(t, need) < need => grant[t] - Takes(t, need) = 0
<1>1. grant[t] \in 0..MaxGrant
  BY DEF TypeOK
<1>2. QED
  BY <1>1, Bounds DEF Takes

LEMMA KeepEntryType ==
    ASSUME TypeOK, KeepEntry
    PROVE  TypeOK'
BY DEF TypeOK, KeepEntry, netVars, epVars, ctaVars

\* Where the request at the cursor comes from.
LEMMA CursorLink ==
    ASSUME TypeOK, TxKnown, RequestsKnown, NEW i \in DOMAIN ingress
    PROVE  /\ ingress[i].req \in tx[ingress[i].req.src] /\ ingress[i].req.src \in Sms
           /\ LinkOf(ingress[i].req) \in Links /\ ingress[i].req.dst \in Targets
           /\ ingress[i].req \in Request /\ ingress[i].req.id < nextTx
<1> DEFINE r == ingress[i].req
<1>1. i \in DOMAIN Arrived /\ Arrived[i] = r /\ r \in Request
  BY ReqsOfFacts DEF TypeOK, Arrived
<1>2. r \in tx[r.src] /\ r.src \in Sms
  BY <1>1 DEF RequestsKnown, Request
<1>3. LinkOf(r) \in Links /\ r.id < nextTx
  BY <1>2 DEF TxKnown
<1>4. r.dst \in Targets
  BY <1>3 DEF LinkOf, Targets
<1>5. QED
  BY <1>1, <1>2, <1>3, <1>4

LEMMA StarveType ==
    ASSUME TypeOK, EntriesKnown, TxKnown, RequestsKnown, Starve
    PROVE  TypeOK'
<1> DEFINE e == ingress[cursor]
           n == Takes(e.req.dst, Bytes[e.req.cls] - e.got)
<1>1. cursor \in DOMAIN ingress /\ e \in Entry /\ Bytes[e.req.cls] - e.got \in Nat
  BY AtCursor DEF Starve
<1>2. e.req.dst \in Targets
  BY <1>1, CursorLink
<1>3. n \in Nat /\ grant[e.req.dst] - n \in 0..MaxGrant
  BY <1>1, <1>2, TakesFacts
<1>4. ingress' = [ingress EXCEPT ![cursor].got = @ + n] /\ grant' = [grant EXCEPT ![e.req.dst] = @ - n]
  BY DEF Starve
<1> HIDE DEF n
<1>5. [e EXCEPT !.got = @ + n] \in Entry
  BY <1>1, <1>3 DEF Entry
<1>6. ingress' \in Seq(Entry)
  BY <1>1, <1>4, <1>5 DEF TypeOK
<1>7. grant' \in [Targets -> 0..MaxGrant]
  BY <1>2, <1>3, <1>4 DEF TypeOK
<1>8. cursor' \in Nat \ {0}
  BY DEF TypeOK, Starve
<1>9. UNCHANGED <<netVars, pending, owed, age, stage, ctaVars, waiters, applied, staleHits>>
  BY DEF Starve
<1>10. QED
  BY <1>6, <1>7, <1>8, <1>9 DEF TypeOK, netVars, ctaVars

LEMMA ReadyType ==
    ASSUME TypeOK, EntriesKnown, Ready
    PROVE  TypeOK'
<1> DEFINE e == ingress[cursor]
           a == [id |-> e.req.id, op |-> e.op, src |-> e.req.dst, dst |-> e.req.src, count |-> 1]
<1>1. cursor \in DOMAIN ingress /\ e \in Entry /\ e.req \in Request /\ e.st = "ready"
  BY AtCursor DEF Ready
<1>2. e.op # "none" /\ e.op \in {"none", "data", "mdone", "waitdone"}
  BY <1>1 DEF EntriesKnown, Entry
<1>3. a \in Response
  BY <1>1, <1>2, Bounds DEF Request, Response
<1>4. pending' = Append(pending, a) /\ ingress' = RemoveAt(ingress, cursor)
  BY DEF Ready
<1> HIDE DEF a
<1>5. pending' \in Seq(Response) /\ ingress' \in Seq(Entry)
  BY <1>1, <1>3, <1>4, RemoveAtFacts, AppendFacts DEF TypeOK
<1>6. UNCHANGED <<netVars, owed, age, grant, stage, cursor, ctaVars, waiters, applied, staleHits>>
  BY DEF Ready
<1>7. QED
  BY <1>5, <1>6 DEF TypeOK, netVars, ctaVars

LEMMA SendPendingType ==
    ASSUME TypeOK, AnswersKnown, SendPending
    PROVE  TypeOK'
<1> DEFINE a == pending[cursor]
           l == <<a.dst, a.src>>
<1>1. cursor \in DOMAIN pending /\ a \in Response /\ l \in Links
  <2>1. cursor \in 1..Len(pending) /\ DOMAIN pending = 1..Len(pending)
    BY DEF TypeOK, SendPending
  <2>2. a \in Response
    BY <2>1 DEF TypeOK
  <2>3. QED
    BY <2>1, <2>2 DEF AnswersKnown
<1>2. RemoveAt(pending, cursor) \in Seq(Response)
  BY <1>1, RemoveAtFacts DEF TypeOK
<1>3. pending' \in Seq(Response) /\ cursor' \in Nat \ {0}
  BY <1>2 DEF SendPending, TypeOK, Unsent
<1>4. rsps' \in [Links -> Seq(Response)] /\ \A m \in Links : Len(rsps'[m]) <= RspDepth
  <2>1. CASE Len(rsps[l]) < RspDepth /\ rsps' = [rsps EXCEPT ![l] = Append(@, a)]
    BY <1>1, <2>1, RspsAppend
  <2>2. CASE rsps' = rsps
    BY <2>2 DEF TypeOK
  <2>3. QED
    BY <2>1, <2>2 DEF SendPending
<1>5. UNCHANGED <<nextTx, tx, storeQ, reqs, ingress, owed, age, grant, stage, ctaVars,
                  waiters, applied, staleHits>>
  BY DEF SendPending
<1>6. QED
  BY <1>3, <1>4, <1>5 DEF TypeOK, ctaVars

\* The acknowledgements that may be sent.
Flushable(flush) == flush \subseteq Links /\ \A l \in flush : MustFlush(l) \/ MayFlush(l)
AckOf(l) == [id |-> 0, op |-> "ack", src |-> l[2], dst |-> l[1], count |-> owed[l]]

LEMMA FlushAcksType ==
    ASSUME TypeOK, NEW flush, Flushable(flush), FlushAcks(flush)
    PROVE  TypeOK'
<1>1. ASSUME NEW l \in Links
      PROVE  rsps'[l] \in Seq(Response) /\ Len(rsps'[l]) <= RspDepth
  <2>1. rsps[l] \in Seq(Response) /\ Len(rsps[l]) \in Nat /\ Len(rsps[l]) <= RspDepth /\ RspDepth \in Nat
    BY Bounds DEF TypeOK
  <2>2. AckOf(l) \in Response
    BY LinkFacts, Bounds DEF AckOf, Response, TypeOK
  <2>3. Append(rsps[l], AckOf(l)) \in Seq(Response) /\ Len(Append(rsps[l], AckOf(l))) = Len(rsps[l]) + 1
    BY <2>1, <2>2, AppendFacts
  <2>4. CASE l \in flush
    <3>1. rsps'[l] = Append(rsps[l], AckOf(l))
      BY <2>4 DEF FlushAcks, AckOf
    <3>2. Len(rsps[l]) < RspDepth
      BY <2>4 DEF Flushable, MustFlush, MayFlush
    <3>3. QED
      BY <2>1, <2>3, <3>1, <3>2
  <2>5. CASE l \notin flush
    BY <2>1, <2>5 DEF FlushAcks
  <2>6. QED
    BY <2>4, <2>5
<1>2. rsps' \in [Links -> Seq(Response)]
  BY <1>1 DEF FlushAcks
<1>3. owed' \in [Links -> Nat]
  BY DEF FlushAcks, OwedAfterFlush, TypeOK
<1>4. age' \in [Links -> 0..AckTimeout]
  <2>1. age \in [Links -> 0..AckTimeout] /\ 0 \in 0..AckTimeout
        /\ \A n \in 0..AckTimeout : n < AckTimeout => n + 1 \in 0..AckTimeout
    BY Bounds DEF TypeOK
  <2>2. age' = [l \in Links |->
            IF l \in flush \/ owed[l] = 0 THEN 0
            ELSE IF age[l] < AckTimeout THEN age[l] + 1 ELSE age[l]]
    BY DEF FlushAcks
  <2>3. QED
    BY <2>1, <2>2
<1>5. ingress' \in Seq(Entry)
  <2>1. \A e \in Entry : [e EXCEPT !.st = NextState(@)] \in Entry
    <3>1. \A st \in {"fresh", "sram", "hold", "ready"} :
             NextState(st) \in {"fresh", "sram", "hold", "ready"}
      BY DEF NextState
    <3>2. QED
      BY <3>1 DEF Entry
  <2>2. DOMAIN ingress = 1..Len(ingress) /\ Len(ingress) \in Nat
    BY DEF TypeOK
  <2>3. ingress' = [i \in 1..Len(ingress) |-> [ingress[i] EXCEPT !.st = NextState(@)]]
    BY <2>2 DEF FlushAcks
  <2>4. ingress' \in [1..Len(ingress) -> Entry]
    <3>1. \A i \in 1..Len(ingress) : ingress[i] \in Entry
      BY DEF TypeOK
    <3>2. QED
      BY <2>1, <2>3, <3>1
  <2>5. QED
    BY <2>2, <2>4
<1>6. grant' \in [Targets -> 0..MaxGrant]
  BY Bounds DEF FlushAcks
<1>7. UNCHANGED <<nextTx, tx, storeQ, reqs, pending, ctaVars, waiters, applied, staleHits>>
      /\ stage' \in Stages /\ cursor' \in Nat \ {0}
  BY DEF FlushAcks, Stages
<1>8. QED
  BY <1>1, <1>2, <1>3, <1>4, <1>5, <1>6, <1>7 DEF TypeOK, ctaVars

\* The three ways a request is served: answered, counted as a store, stored as a wait.
CursorReq == ingress[cursor].req
CursorNeed == Bytes[CursorReq.cls] - ingress[cursor].got

ServeAny ==
    /\ AtEntry("sram")
    /\ Takes(CursorReq.dst, CursorNeed) = CursorNeed
    /\ grant' = [grant EXCEPT ![CursorReq.dst] = @ - CursorNeed]
    /\ staleHits' = IF Affects(CursorReq) /\ CursorReq.gen # gen[CursorReq.dst]
                    THEN staleHits \cup {CursorReq.cls} ELSE staleHits
    /\ UNCHANGED <<nextTx, storeQ, reqs, rsps, pending, stage, ctaVars>>

ServeAnswered(op) ==
    /\ op \in {"data", "mdone", "waitdone"} /\ CursorReq.cls \notin StoreLike
    /\ ingress' = [ingress EXCEPT ![cursor] =
                      [@ EXCEPT !.st = "hold", !.op = op, !.got = Bytes[CursorReq.cls]]]
    /\ cursor' = cursor + 1
    /\ UNCHANGED <<tx, owed, age, waiters, applied>>

ServeStore ==
    /\ CursorReq.cls \in StoreLike
    /\ ingress' = RemoveAt(ingress, cursor)
    /\ owed' = [owed EXCEPT ![LinkOf(CursorReq)] = @ + 1]
    /\ age' = IF owed[LinkOf(CursorReq)] = 0 THEN [age EXCEPT ![LinkOf(CursorReq)] = 0] ELSE age
    /\ applied' = applied \cup {CursorReq.id}
    /\ UNCHANGED <<cursor, tx, waiters>>

ServeStoredWait ==
    /\ CursorReq.cls = "waitreg"
    /\ ingress' = RemoveAt(ingress, cursor)
    /\ tx' = [tx EXCEPT ![CursorReq.src] = @ \ {CursorReq}]
    /\ waiters' = [waiters EXCEPT ![LinkOf(CursorReq)] = @ + 1]
    /\ UNCHANGED <<cursor, owed, age, applied>>

LEMMA ServeCases ==
    ASSUME TypeOK, EntriesKnown, Serve
    PROVE  ServeAny /\ ((\E op : ServeAnswered(op)) \/ ServeStore \/ ServeStoredWait)
<1> DEFINE r == CursorReq
<1>1. ServeAny
  BY DEF Serve, ServeAny, CursorReq, CursorNeed
<1>2. \E op \in Answers(r) :
        \/ /\ op # "none"
           /\ ingress' = [ingress EXCEPT ![cursor] =
                            [@ EXCEPT !.st = "hold", !.op = op, !.got = Bytes[r.cls]]]
           /\ cursor' = cursor + 1
           /\ UNCHANGED <<tx, owed, age, waiters, applied>>
        \/ /\ op = "none" /\ r.cls \in StoreLike
           /\ ingress' = RemoveAt(ingress, cursor)
           /\ owed' = [owed EXCEPT ![LinkOf(r)] = @ + 1]
           /\ age' = IF owed[LinkOf(r)] = 0 THEN [age EXCEPT ![LinkOf(r)] = 0] ELSE age
           /\ applied' = applied \cup {r.id}
           /\ UNCHANGED <<cursor, tx, waiters>>
        \/ /\ op = "none" /\ r.cls = "waitreg"
           /\ ingress' = RemoveAt(ingress, cursor)
           /\ tx' = [tx EXCEPT ![r.src] = @ \ {r}]
           /\ waiters' = [waiters EXCEPT ![LinkOf(r)] = @ + 1]
           /\ UNCHANGED <<cursor, owed, age, applied>>
  BY DEF Serve, CursorReq
<1>3. r.cls \in AllClasses
  BY <1>1, AtCursor DEF ServeAny, CursorReq
<1>4. ASSUME NEW op \in Answers(r), op # "none"
      PROVE  op \in {"data", "mdone", "waitdone"} /\ r.cls \notin StoreLike
  BY <1>3, <1>4 DEF Answers, AllClasses, StoreLike, MbarLike
<1>5. QED
  BY <1>1, <1>2, <1>4 DEF ServeAnswered, ServeStore, ServeStoredWait

LEMMA ServeType ==
    ASSUME TypeOK, EntriesKnown, TxKnown, RequestsKnown, Serve
    PROVE  TypeOK'
<1> DEFINE e == ingress[cursor]
           r == CursorReq
<1>1. cursor \in DOMAIN ingress /\ e \in Entry /\ r \in Request /\ r.cls \in AllClasses
      /\ Bytes[r.cls] \in Nat /\ CursorNeed \in Nat
  BY AtCursor, ServeCases DEF ServeAny, CursorReq, CursorNeed
<1>2. r.src \in Sms /\ r.dst \in Targets /\ LinkOf(r) \in Links /\ r.id \in 1..MaxTx
  BY <1>1, CursorLink DEF CursorReq, Request
<1>3. ServeAny
  BY ServeCases
<1>4. grant' \in [Targets -> 0..MaxGrant] /\ staleHits' \subseteq AllClasses
  <2>1. grant[r.dst] - CursorNeed \in 0..MaxGrant
    BY <1>1, <1>2, <1>3, TakesFacts DEF ServeAny
  <2>2. QED
    BY <1>1, <1>2, <1>3, <2>1 DEF ServeAny, TypeOK
<1>5. UNCHANGED <<nextTx, storeQ, reqs, rsps, pending, stage, ctaVars>>
  BY <1>3 DEF ServeAny
<1>6. RemoveAt(ingress, cursor) \in Seq(Entry)
  BY <1>1, RemoveAtFacts DEF TypeOK
<1>7. ASSUME NEW op, ServeAnswered(op)
      PROVE  TypeOK'
  <2>1. [e EXCEPT !.st = "hold", !.op = op, !.got = Bytes[r.cls]] \in Entry
    BY <1>1, <1>7 DEF Entry, ServeAnswered
  <2>2. ingress' \in Seq(Entry)
    BY <1>1, <1>7, <2>1 DEF TypeOK, ServeAnswered
  <2>3. cursor' \in Nat \ {0}
    BY <1>7 DEF TypeOK, ServeAnswered
  <2>4. UNCHANGED <<tx, owed, age, waiters, applied>>
    BY <1>7 DEF ServeAnswered
  <2>5. QED
    BY <1>4, <1>5, <2>2, <2>3, <2>4 DEF TypeOK, ctaVars
<1>8. CASE ServeStore
  <2>1. owed' \in [Links -> Nat]
    BY <1>2, <1>8, SMTT(60) DEF TypeOK, ServeStore
  <2>0. age' \in [Links -> 0..AckTimeout]
    <3>1. age \in [Links -> 0..AckTimeout] /\ 0 \in 0..AckTimeout
      BY Bounds DEF TypeOK
    <3>2. age' = age \/ age' = [age EXCEPT ![LinkOf(r)] = 0]
      BY <1>8 DEF ServeStore
    <3>3. QED
      BY <3>1, <3>2
  <2>2. ingress' \in Seq(Entry) /\ applied' \subseteq 1..MaxTx
    BY <1>2, <1>6, <1>8 DEF TypeOK, ServeStore
  <2>3. UNCHANGED <<cursor, tx, waiters>>
    BY <1>8 DEF ServeStore
  <2>4. QED
    BY <1>4, <1>5, <2>0, <2>1, <2>2, <2>3 DEF TypeOK, ctaVars
<1>9. CASE ServeStoredWait
  <2>1. waiters' \in [Links -> Nat] /\ ingress' \in Seq(Entry)
    BY <1>2, <1>6, <1>9, SMTT(60) DEF TypeOK, ServeStoredWait
  <2>2. tx' \in [Sms -> SUBSET Request] /\ \A s \in Sms : tx'[s] \subseteq tx[s]
    BY <1>2, <1>9 DEF TypeOK, ServeStoredWait
  <2>3. \A s \in Sms : IsFiniteSet(tx'[s]) /\ Cardinality(tx'[s]) <= Window
    BY <2>2, SmallerTx
  <2>4. UNCHANGED <<cursor, owed, age, applied>>
    BY <1>9 DEF ServeStoredWait
  <2>5. QED
    BY <1>4, <1>5, <2>1, <2>2, <2>3, <2>4 DEF TypeOK, ctaVars
<1>10. QED
  BY <1>7, <1>8, <1>9, ServeCases

-----------------------------------------------------------------------------
(* What a step leaves alone. *)

LEMMA EachOnceSame ==
    ASSUME EachOnce, UNCHANGED <<reqs, rsps, ingress, pending, applied, nextTx>>
    PROVE  EachOnce' /\ Held' = Held
<1>1. Arrived' = Arrived
  BY DEF Arrived
<1>2. Held' = Held
  BY <1>1 DEF Held
<1>3. QED
  BY <1>1, <1>2 DEF EachOnce

LEMMA TxKnownSame ==
    ASSUME TxKnown, nextTx' = nextTx, tx' \in [Sms -> SUBSET Request], \A s \in Sms : tx'[s] \subseteq tx[s]
    PROVE  TxKnown'
BY DEF TxKnown

LEMMA AnswerableSame ==
    ASSUME NEW n, NEW l, Answerable(tx, n, l), \A s \in Sms : tx'[s] \subseteq tx[s]
    PROVE  Answerable(tx', n, l)
BY DEF Answerable

LEMMA AnswersSame ==
    ASSUME AnswersKnown, UNCHANGED <<rsps, pending, applied>>, \A s \in Sms : tx'[s] \subseteq tx[s]
    PROVE  AnswersKnown'
BY AnswerableSame DEF AnswersKnown

LEMMA NoneLostSame ==
    ASSUME NoneLost, UNCHANGED <<tx, reqs, rsps, ingress, pending, applied>>
    PROVE  NoneLost'
BY DEF NoneLost, Held, Arrived

LEMMA AckDebtSame ==
    ASSUME AckDebtExact, UNCHANGED <<storeQ, rsps, owed, applied>>
    PROVE  AckDebtExact'
BY DEF AckDebtExact, IsAckSum

LEMMA IdleInd ==
    ASSUME IndInv, TypeOK', Idle
    PROVE  IndInv'
<1>1. EachOnce'
  BY EachOnceSame DEF IndInv, Idle, netVars, epVars
<1>2. TxKnown' /\ RequestsKnown' /\ EntriesKnown' /\ StoresQueued' /\ StoresInOrder' /\ DataStaysHome'
  BY DEF IndInv, Idle, netVars, epVars, TxKnown, RequestsKnown, EntriesKnown, StoresQueued,
         StoresInOrder, DataStaysHome, Arrived
<1>3. AnswersKnown'
  BY AnswersSame DEF IndInv, Idle, netVars, epVars
<1>4. NoneLost'
  BY NoneLostSame DEF IndInv, Idle, netVars, epVars
<1>5. AckDebtExact'
  BY AckDebtSame DEF IndInv, Idle, netVars, epVars
<1>6. ServedInOrder'
  BY DEF IndInv, Idle, epVars, ServedInOrder, TypeOK
<1>7. QED
  BY <1>1, <1>2, <1>3, <1>4, <1>5, <1>6 DEF IndInv

LEMMA InitInd == Init => IndInv
<1> SUFFICES ASSUME Init PROVE IndInv
  OBVIOUS
<1>1. TypeOK
  BY InitType
<1>2. Arrived = <<>> /\ DOMAIN ingress = {} /\ DOMAIN pending = {} /\ DOMAIN Arrived = {}
      /\ \A l \in Links : DOMAIN reqs[l] = {} /\ DOMAIN rsps[l] = {} /\ DOMAIN storeQ[l] = {}
                          /\ Len(rsps[l]) = 0 /\ Len(storeQ[l]) = 0 /\ owed[l] = 0
  BY DEF Init, Arrived, ReqsOf
<1>3. \A c \in Spots : Held[c] = {}
  <2>1. /\ Ids(Arrived) = {} /\ Ids(pending) = {} /\ applied = {}
        /\ \A l \in Links : Ids(reqs[l]) = {} /\ Ids(rsps[l]) = {}
    BY <1>2 DEF Ids, Init
  <2>2. QED
    BY <2>1, HeldIs, SpotCases
<1>4. EachOnce
  BY <1>2, <1>3 DEF EachOnce, Once, Apart
<1>5. TxKnown /\ RequestsKnown /\ AnswersKnown /\ NoneLost /\ DataStaysHome
  BY <1>2 DEF Init, TxKnown, RequestsKnown, AnswersKnown, NoneLost, DataStaysHome
<1>6. EntriesKnown /\ StoresQueued /\ StoresInOrder /\ ServedInOrder
  BY <1>2 DEF Init, EntriesKnown, StoresQueued, StoresInOrder, StoreOrder, ServedInOrder
<1>7. AckDebtExact
  <2> SUFFICES ASSUME NEW l \in Links
               PROVE  \E sum \in [0..0 -> 0..0] :
                        /\ IsAckSum(rsps[l], sum)
                        /\ 0 + sum[0] <= 0
                        /\ \A i \in DOMAIN storeQ[l] : storeQ[l][i] \in applied <=> i <= 0 + sum[0]
    BY <1>2 DEF AckDebtExact
  <2>1. WITNESS [i \in 0..0 |-> 0] \in [0..0 -> 0..0]
  <2>2. QED
    BY <1>2 DEF IsAckSum
<1>8. QED
  BY <1>1, <1>4, <1>5, <1>6, <1>7 DEF IndInv

-----------------------------------------------------------------------------
(* Requests. *)

\* A request that arrives leaves its link and joins the arrived ones, at the end.
LEMMA TakeRequestMove ==
    ASSUME IndInv, TypeOK', NEW l \in Links, TakeRequest(l)
    PROVE  LET h == Head(reqs[l])
           IN  /\ Removed(reqs[l], 1, reqs'[l]) /\ reqs[l][1] = h /\ 1 \in DOMAIN reqs[l]
               /\ \A m \in Links : m # l => reqs'[m] = reqs[m]
               /\ reqs[l] \in Seq(Request) /\ reqs'[l] \in Seq(Request)
               /\ Arrived \in Seq(Request) /\ Arrived' \in Seq(Request)
               /\ Removed(Arrived', Len(Arrived'), Arrived) /\ Arrived'[Len(Arrived')] = h
               /\ \A i \in DOMAIN Arrived' : Arrived'[i] = h \/ (i \in DOMAIN Arrived /\ Arrived'[i] = Arrived[i])
               /\ h \in tx[l[1]] /\ LinkOf(h) = l /\ h.id \in 1..(nextTx - 1) /\ h \in Request
<1> DEFINE h == Head(reqs[l])
           e == [req |-> h, st |-> "fresh", got |-> 0, op |-> "none"]
<1>1. reqs[l] \in Seq(Request) /\ reqs[l] # <<>> /\ reqs'[l] = Tail(reqs[l])
      /\ ingress \in Seq(Entry) /\ ingress' = Append(ingress, e) /\ ingress' \in Seq(Entry)
      /\ reqs'[l] \in Seq(Request)
  BY DEF IndInv, TypeOK, TakeRequest
<1>2. Removed(reqs[l], 1, reqs'[l]) /\ reqs[l][1] = h /\ 1 \in DOMAIN reqs[l] /\ h \in Request
  BY <1>1, TailFacts
<1>3. h \in tx[l[1]] /\ LinkOf(h) = l
  BY <1>2 DEF IndInv, RequestsKnown
<1>4. h.id \in 1..(nextTx - 1)
  <2>1. h.id < nextTx
    BY <1>3, LinkFacts DEF IndInv, TxKnown
  <2>2. h.id \in 1..MaxTx /\ MaxTx \in Nat /\ nextTx \in 1..(MaxTx + 1)
    BY <1>2, Bounds DEF IndInv, TypeOK, Request
  <2>3. QED
    BY <2>1, <2>2
<1>5. \A m \in Links : m # l => reqs'[m] = reqs[m]
  BY DEF TakeRequest, IndInv, TypeOK
<1>6. e \in Entry
  BY <1>2 DEF Entry
<1> HIDE DEF e
<1>7. Removed(ingress', Len(ingress) + 1, ingress) /\ ingress'[Len(ingress) + 1] = e
      /\ Len(ingress') = Len(ingress) + 1
  BY <1>1, <1>6, AppendFacts
<1>8. Removed(Arrived', Len(ingress) + 1, Arrived) /\ Arrived'[Len(ingress) + 1] = e.req
  <2>1. Removed(ReqsOf(ingress'), Len(ingress) + 1, ReqsOf(ingress))
        /\ ReqsOf(ingress')[Len(ingress) + 1] = ingress'[Len(ingress) + 1].req
    BY <1>1, <1>7, RemovedReqs
  <2>2. QED
    BY <1>7, <2>1 DEF Arrived
<1>9. Arrived \in Seq(Request) /\ Arrived' \in Seq(Request) /\ Len(Arrived') = Len(ingress) + 1
      /\ DOMAIN Arrived = DOMAIN ingress
  BY <1>1, <1>7, ReqsOfFacts DEF Arrived
<1>10. ASSUME NEW i \in DOMAIN Arrived'
       PROVE  Arrived'[i] = h \/ (i \in DOMAIN Arrived /\ Arrived'[i] = Arrived[i])
  <2>1. i \in 1..(Len(ingress) + 1) /\ Len(ingress) \in Nat /\ DOMAIN Arrived = 1..Len(ingress)
    BY <1>1, <1>9
  <2>2. CASE i = Len(ingress) + 1
    BY <1>8, <2>2 DEF e
  <2>3. CASE i # Len(ingress) + 1
    <3>1. i \in 1..Len(ingress) /\ Len(Arrived') - 1 = Len(ingress) /\ Up(Len(ingress) + 1, i) = i
      BY <1>9, <2>1, <2>3 DEF Up
    <3>2. QED
      BY <1>8, <2>1, <3>1 DEF Removed
  <2>4. QED
    BY <2>2, <2>3
<1>11. QED
  BY <1>1, <1>2, <1>3, <1>4, <1>5, <1>8, <1>9, <1>10 DEF e

LEMMA TakeRequestInd ==
    ASSUME IndInv, TypeOK', StoresNeedBytes, NEW l \in Links, TakeRequest(l)
    PROVE  IndInv'
<1> DEFINE h == Head(reqs[l])
           c == <<"request", l>>
           d == <<"ingress", 0>>
<1>1. /\ Removed(reqs[l], 1, reqs'[l]) /\ reqs[l][1] = h /\ 1 \in DOMAIN reqs[l]
      /\ \A m \in Links : m # l => reqs'[m] = reqs[m]
      /\ reqs[l] \in Seq(Request) /\ reqs'[l] \in Seq(Request)
      /\ Arrived \in Seq(Request) /\ Arrived' \in Seq(Request)
      /\ Removed(Arrived', Len(Arrived'), Arrived) /\ Arrived'[Len(Arrived')] = h
      /\ \A i \in DOMAIN Arrived' : Arrived'[i] = h \/ (i \in DOMAIN Arrived /\ Arrived'[i] = Arrived[i])
      /\ h \in tx[l[1]] /\ LinkOf(h) = l /\ h.id \in 1..(nextTx - 1) /\ h \in Request
  BY TakeRequestMove
<1> HIDE DEF h
<1>2. UNCHANGED <<nextTx, tx, storeQ, rsps, pending, owed, age, grant, stage, cursor,
                  ctaVars, waiters, applied, staleHits>> /\ stage = "harvest"
  BY DEF TakeRequest
<1>3. c \in Spots /\ d \in Spots /\ c # d
  BY DEF Spots
<1>4. Once(reqs'[l]) /\ Ids(reqs'[l]) = Ids(reqs[l]) \ {h.id}
  BY <1>1, RemovedIds DEF IndInv, EachOnce
<1>5. h.id \in Held[c] /\ h.id # 0
  <2>1. h.id # 0
    BY <1>1
  <2>2. h.id \in Ids(reqs[l])
    BY <1>1, <2>1 DEF Ids
  <2>3. QED
    BY <2>1, <2>2, HeldIs
<1>6. h.id \notin Ids(Arrived)
  <2>1. h.id \notin Held[d]
    BY <1>3, <1>5 DEF IndInv, EachOnce, Apart
  <2>2. QED
    BY <2>1, HeldIs
<1>7. Once(Arrived') /\ Ids(Arrived') = Ids(Arrived) \cup {h.id}
  BY <1>1, <1>5, <1>6, AddedIds DEF IndInv, EachOnce
<1>8. Held'[c] = Held[c] \ {h.id} /\ Held'[d] = Held[d] \cup {h.id}
  BY <1>4, <1>7, HeldIs
<1>9. ASSUME NEW f \in Spots \ {c, d}
      PROVE  Held'[f] = Held[f]
  <2>1. ASSUME NEW m \in Links, m # l
        PROVE  Held'[<<"request", m>>] = Held[<<"request", m>>]
    <3>1. Held'[<<"request", m>>] = Ids(reqs'[m]) /\ Held[<<"request", m>>] = Ids(reqs[m])
      BY HeldIs
    <3>2. QED
      BY <1>1, <2>1, <3>1
  <2>2. \A m \in Links : Held'[<<"response", m>>] = Held[<<"response", m>>]
    BY <1>2, HeldIs
  <2>3. Held'[<<"pending", 0>>] = Held[<<"pending", 0>>] /\ Held'[<<"applied", 0>>] = Held[<<"applied", 0>>]
    BY <1>2, HeldIs
  <2>4. QED
    BY <2>1, <2>2, <2>3, SpotCases
<1>10. Apart(Held', nextTx) /\ \A f \in Spots : \A y \in Held[f] : \E g \in Spots : y \in Held'[g]
  BY <1>3, <1>5, <1>8, <1>9, ApartMoved DEF IndInv, EachOnce
<1>11. EachOnce'
  BY <1>1, <1>2, <1>4, <1>7, <1>10 DEF IndInv, EachOnce
<1>12. NoneLost'
  BY <1>2, <1>10 DEF IndInv, NoneLost
<1>13. \A m \in Links : \A i \in DOMAIN reqs'[m] : \E j \in DOMAIN reqs[m] : reqs'[m][i] = reqs[m][j]
  <2>1. \A i \in DOMAIN reqs'[l] : \E j \in DOMAIN reqs[l] : reqs'[l][i] = reqs[l][j]
    <3>1. \A i \in DOMAIN reqs'[l] : Up(1, i) \in DOMAIN reqs[l] /\ reqs'[l][i] = reqs[l][Up(1, i)]
      BY <1>1, RemovedMap
    <3>2. QED
      BY <3>1
  <2>2. QED
    BY <1>1, <2>1
<1>14. RequestsKnown'
  <2>1. \A m \in Links : \A i \in DOMAIN reqs'[m] : reqs'[m][i] \in tx'[m[1]] /\ LinkOf(reqs'[m][i]) = m
    BY <1>2, <1>13 DEF IndInv, RequestsKnown
  <2>2. h.src = l[1]
    BY <1>1, LinkFacts DEF IndInv, TxKnown
  <2>3. \A i \in DOMAIN Arrived' : Arrived'[i] \in tx'[Arrived'[i].src]
    BY <1>1, <1>2, <2>2 DEF IndInv, RequestsKnown
  <2>4. QED
    BY <2>1, <2>3 DEF RequestsKnown
<1>15. StoresInOrder'
  <2>1. \A m \in Links : StoreOrder(reqs'[m])
    BY <1>1, RemovedOrder DEF IndInv, StoresInOrder
  <2>2. \A i \in DOMAIN Arrived :
            Arrived[i].cls \in StoreLike /\ h.cls \in StoreLike /\ LinkOf(Arrived[i]) = l => Arrived[i].id < h.id
    BY <1>1 DEF IndInv, StoresInOrder
  <2>3. StoreOrder(Arrived')
    BY <1>1, <2>2, AddedOrder DEF IndInv, StoresInOrder
  <2>4. \A j \in DOMAIN reqs'[l] : h.cls \in StoreLike /\ reqs'[l][j].cls \in StoreLike => h.id < reqs'[l][j].id
    <3>1. \A j \in DOMAIN reqs'[l] : Up(1, j) \in DOMAIN reqs[l] /\ 1 < Up(1, j) /\ reqs'[l][j] = reqs[l][Up(1, j)]
      <4>1. \A j \in DOMAIN reqs'[l] : Up(1, j) \in DOMAIN reqs[l] /\ reqs'[l][j] = reqs[l][Up(1, j)]
        BY <1>1, RemovedMap
      <4>2. \A j \in DOMAIN reqs'[l] : 1 < Up(1, j)
        BY <1>1 DEF Up
      <4>3. QED
        BY <4>1, <4>2
    <3>2. \A j \in DOMAIN reqs'[l] : LinkOf(reqs'[l][j]) = l
      BY <1>1, <1>13 DEF IndInv, RequestsKnown
    <3>3. StoreOrder(reqs[l])
      BY DEF IndInv, StoresInOrder
    <3>4. QED
      BY <1>1, <3>1, <3>2, <3>3 DEF StoreOrder
  <2>5. ASSUME NEW i \in DOMAIN Arrived', NEW m \in Links, NEW j \in DOMAIN reqs'[m],
               Arrived'[i].cls \in StoreLike, reqs'[m][j].cls \in StoreLike, LinkOf(Arrived'[i]) = m
        PROVE  Arrived'[i].id < reqs'[m][j].id
    <3>1. CASE Arrived'[i] = h
      BY <1>1, <2>4, <2>5, <3>1
    <3>2. CASE i \in DOMAIN Arrived /\ Arrived'[i] = Arrived[i]
      BY <1>13, <2>5, <3>2 DEF IndInv, StoresInOrder
    <3>3. QED
      BY <1>1, <3>1, <3>2
  <2>6. QED
    BY <2>1, <2>3, <2>5 DEF StoresInOrder
<1>16. ingress' = Append(ingress, [req |-> h, st |-> "fresh", got |-> 0, op |-> "none"])
       /\ ingress \in Seq(Entry)
  BY DEF TakeRequest, h, IndInv, TypeOK
<1>17. EntriesKnown'
  <2>1. h.cls \in AllClasses
    BY <1>1 DEF Request
  <2>2. Bytes[h.cls] >= 0 /\ (h.cls \in StoreLike => 0 < Bytes[h.cls])
    BY <2>1, ClassesAssumption DEF StoresNeedBytes
  <2>3. QED
    BY <1>16, <2>2 DEF IndInv, EntriesKnown
<1>18. ServedInOrder'
  BY <1>2, <1>16 DEF IndInv, ServedInOrder
<1>19. TxKnown' /\ StoresQueued' /\ DataStaysHome' /\ AnswersKnown'
  BY <1>2 DEF IndInv, TxKnown, StoresQueued, DataStaysHome, AnswersKnown, Answerable
<1>20. AckDebtExact'
  BY <1>2, AckDebtSame DEF IndInv
<1>21. QED
  BY <1>11, <1>12, <1>14, <1>15, <1>17, <1>18, <1>19, <1>20 DEF IndInv

-----------------------------------------------------------------------------
(* The debt of one link: its store queue, responses, owed stores and what is applied. *)

Debt(q, R, o, A) ==
    \E sum \in [0..Len(R) -> 0..Len(q)] :
        /\ IsAckSum(R, sum)
        /\ o + sum[Len(R)] <= Len(q)
        /\ \A i \in DOMAIN q : q[i] \in A <=> i <= o + sum[Len(R)]

LEMMA StoreQNat ==
    ASSUME TypeOK, NEW l \in Links
    PROVE  storeQ[l] \in Seq(Nat)
<1>1. storeQ[l] \in Seq(1..MaxTx) /\ 1..MaxTx \subseteq Nat
  BY Bounds DEF TypeOK
<1>2. QED
  BY <1>1, SeqMonotonic

LEMMA DebtIs == AckDebtExact <=> \A l \in Links : Debt(storeQ[l], rsps[l], owed[l], applied)
BY DEF AckDebtExact, Debt

LEMMA DebtIsNext == AckDebtExact' <=> \A l \in Links : Debt(storeQ'[l], rsps'[l], owed'[l], applied')
BY DEF AckDebtExact, Debt, IsAckSum

\* A store is issued.
LEMMA DebtIssue ==
    ASSUME NEW q \in Seq(Nat), NEW R \in Seq(Response), NEW o \in Nat, NEW A, NEW x \in Nat,
           Debt(q, R, o, A), x \notin A
    PROVE  Debt(Append(q, x), R, o, A)
<1>1. PICK sum \in [0..Len(R) -> 0..Len(q)] :
        /\ IsAckSum(R, sum)
        /\ o + sum[Len(R)] <= Len(q)
        /\ \A i \in DOMAIN q : q[i] \in A <=> i <= o + sum[Len(R)]
  BY DEF Debt
<1>2. /\ Len(Append(q, x)) = Len(q) + 1 /\ Append(q, x)[Len(q) + 1] = x
      /\ \A i \in 1..Len(q) : Append(q, x)[i] = q[i]
      /\ DOMAIN Append(q, x) = 1..(Len(q) + 1) /\ DOMAIN q = 1..Len(q) /\ Len(q) \in Nat /\ Len(R) \in Nat
  OBVIOUS
<1>3. sum[Len(R)] \in Nat /\ sum \in [0..Len(R) -> 0..(Len(q) + 1)]
  BY <1>2
<1>4. ASSUME NEW i \in DOMAIN Append(q, x)
      PROVE  Append(q, x)[i] \in A <=> i <= o + sum[Len(R)]
  <2>1. CASE i = Len(q) + 1
    BY <1>1, <1>2, <1>3, <2>1
  <2>2. CASE i # Len(q) + 1
    <3>1. i \in 1..Len(q)
      BY <1>2, <2>2
    <3>2. QED
      BY <1>1, <1>2, <3>1
  <2>3. QED
    BY <2>1, <2>2
<1>5. o + sum[Len(R)] <= Len(q) + 1
  BY <1>1, <1>2, <1>3
<1>6. sum \in [0..Len(R) -> 0..Len(Append(q, x))] /\ o + sum[Len(R)] <= Len(Append(q, x))
  BY <1>2, <1>3, <1>5
<1>7. QED
  BY <1>1, <1>4, <1>6 DEF Debt

\* A response is sent: the debt goes along with an acknowledgement and stays otherwise.
LEMMA DebtSend ==
    ASSUME NEW q \in Seq(Nat), NEW R \in Seq(Response), NEW o \in Nat, NEW A, NEW a \in Response,
           Debt(q, R, o, A), NEW p \in Nat,
           IF a.op = "ack" THEN a.count = o /\ p = 0 ELSE p = o
    PROVE  Debt(q, Append(R, a), p, A)
<1>1. PICK sum \in [0..Len(R) -> 0..Len(q)] :
        /\ IsAckSum(R, sum)
        /\ o + sum[Len(R)] <= Len(q)
        /\ \A i \in DOMAIN q : q[i] \in A <=> i <= o + sum[Len(R)]
  BY DEF Debt
<1> DEFINE n == Len(R)
           c == IF a.op = "ack" THEN a.count ELSE 0
           new == [i \in 0..(n + 1) |-> IF i <= n THEN sum[i] ELSE sum[n] + c]
<1>2. /\ Len(Append(R, a)) = n + 1 /\ Append(R, a)[n + 1] = a
      /\ \A i \in 1..n : Append(R, a)[i] = R[i]
      /\ DOMAIN Append(R, a) = 1..(n + 1) /\ DOMAIN R = 1..n /\ n \in Nat /\ Len(q) \in Nat
  OBVIOUS
<1>3. p + c = o /\ c \in Nat
  BY DEF Response
<1> HIDE DEF c
<1>4. /\ \A i \in 0..n : sum[i] \in 0..Len(q)
      /\ sum[n] \in Nat
  BY <1>2
<1>5. sum[n] + c \in 0..Len(q)
  BY <1>1, <1>2, <1>3, <1>4
<1>6. new \in [0..(n + 1) -> 0..Len(q)] /\ new[n + 1] = sum[n] + c
      /\ \A i \in 0..n : new[i] = sum[i]
  BY <1>2, <1>4, <1>5
<1> HIDE DEF new
<1>7. p + new[n + 1] = o + sum[n]
  BY <1>3, <1>4, <1>6
<1>8. IsAckSum(Append(R, a), new)
  <2>1. new[0] = 0
    BY <1>1, <1>2, <1>6 DEF IsAckSum
  <2>2. ASSUME NEW i \in 1..n
        PROVE  new[i] = new[i - 1] + IF R[i].op = "ack" THEN R[i].count ELSE 0
    <3>1. i \in 0..n /\ i - 1 \in 0..n
      BY <1>2
    <3>2. new[i] = sum[i] /\ new[i - 1] = sum[i - 1]
      BY <1>6, <3>1
    <3>3. QED
      BY <1>1, <1>2, <3>2 DEF IsAckSum
  <2>3. new[n + 1] = new[n + 1 - 1] + IF a.op = "ack" THEN a.count ELSE 0
    <3>1. n + 1 - 1 = n /\ n \in 0..n
      BY <1>2
    <3>2. QED
      BY <1>6, <3>1 DEF c
  <2>4. ASSUME NEW i \in DOMAIN Append(R, a)
        PROVE  new[i] = new[i - 1] + IF Append(R, a)[i].op = "ack" THEN Append(R, a)[i].count ELSE 0
    <3>1. CASE i = n + 1
      BY <1>2, <2>3, <3>1
    <3>2. CASE i # n + 1
      <4>1. i \in 1..n
        BY <1>2, <3>2
      <4>2. QED
        BY <1>2, <2>2, <4>1
    <3>3. QED
      BY <3>1, <3>2
  <2>5. QED
    BY <2>1, <2>4 DEF IsAckSum
<1>9. QED
  BY <1>1, <1>2, <1>6, <1>7, <1>8 DEF Debt

\* The oldest store that was not applied is served.
LEMMA DebtServe ==
    ASSUME NEW q \in Seq(Nat), NEW R \in Seq(Response), NEW o \in Nat, NEW A, NEW k \in DOMAIN q,
           Debt(q, R, o, A), q[k] \notin A, \A i \in DOMAIN q : i < k => q[i] \in A,
           \A i, j \in DOMAIN q : i < j => q[i] < q[j]
    PROVE  Debt(q, R, o + 1, A \cup {q[k]})
<1>1. PICK sum \in [0..Len(R) -> 0..Len(q)] :
        /\ IsAckSum(R, sum)
        /\ o + sum[Len(R)] <= Len(q)
        /\ \A i \in DOMAIN q : q[i] \in A <=> i <= o + sum[Len(R)]
  BY DEF Debt
<1>2. Len(q) \in Nat /\ DOMAIN q = 1..Len(q) /\ sum[Len(R)] \in Nat
  OBVIOUS
<1> DEFINE n == o + sum[Len(R)]
<1>3. n \in Nat /\ o + 1 + sum[Len(R)] = n + 1 /\ n <= Len(q)
  BY <1>1, <1>2
<1> HIDE DEF n
<1>4. \A i \in DOMAIN q : q[i] \in A <=> i <= n
  BY <1>1 DEF n
<1>5. k = n + 1
  <2>1. k > n
    BY <1>2, <1>3, <1>4
  <2>2. CASE k > n + 1
    <3>1. n + 1 \in DOMAIN q /\ n + 1 < k
      BY <1>2, <1>3, <2>2
    <3>2. QED
      BY <1>3, <1>4, <3>1
  <2>3. QED
    BY <1>2, <1>3, <2>1, <2>2, SMTT(60)
<1>6. ASSUME NEW i \in DOMAIN q, q[i] = q[k]
      PROVE  i = k
  <2>1. i \in Nat /\ k \in Nat /\ q[i] \in Nat /\ ~(q[i] < q[k]) /\ ~(q[k] < q[i])
    BY <1>2, <1>6
  <2>2. ~(i < k) /\ ~(k < i)
    BY <2>1
  <2>3. QED
    BY <2>1, <2>2
<1>7. ASSUME NEW i \in DOMAIN q
      PROVE  q[i] \in A \cup {q[k]} <=> i <= n + 1
  <2>1. i \in Nat /\ (i <= n + 1 <=> i <= n \/ i = k)
    BY <1>2, <1>3, <1>5
  <2>2. q[i] = q[k] <=> i = k
    BY <1>6
  <2>3. QED
    BY <1>4, <2>1, <2>2
<1>8. n + 1 <= Len(q)
  BY <1>2, <1>5
<1>9. QED
  BY <1>1, <1>3, <1>7, <1>8 DEF Debt

\* A store of another link is served.
LEMMA DebtElsewhere ==
    ASSUME NEW q, NEW R, NEW o, NEW A, NEW x, Debt(q, R, o, A), \A i \in DOMAIN q : q[i] # x
    PROVE  Debt(q, R, o, A \cup {x})
BY DEF Debt

\* A set of numbers that is not empty has a least one.
LEMMA LeastMember ==
    ASSUME NEW S \in SUBSET Nat, S # {}
    PROVE  \E x \in S : \A y \in S : x <= y
<1> DEFINE less == {ss \in Nat \X Nat : ss[1] < ss[2]}
<1>1. IsWellFoundedOn(less, Nat)
  BY NatLessThanWellFounded, Zenon DEF OpToRel
<1> HIDE DEF less
<1>2. \E x \in S : \A y \in S : <<y, x>> \notin less
  BY <1>1, WFMin
<1>3. PICK x \in S : \A y \in S : <<y, x>> \notin less
  BY <1>2
<1>4. ASSUME NEW y \in S PROVE x <= y
  <2>1. <<y, x>> \in Nat \X Nat
    OBVIOUS
  <2>2. ~(<<y, x>>[1] < <<y, x>>[2])
    BY <1>3, <2>1 DEF less
  <2>3. QED
    BY <2>2
<1>5. QED
  BY <1>4

\* A response is delivered.  What an acknowledgement completes was applied.
LEMMA DebtDeliver ==
    ASSUME NEW q \in Seq(Nat), NEW R \in Seq(Response), NEW o \in Nat, NEW A,
           Debt(q, R, o, A), R # <<>>
    PROVE  LET c == IF R[1].op = "ack" THEN R[1].count ELSE 0
           IN  /\ c \in 0..Len(q) /\ \A i \in 1..c : q[i] \in A
               /\ Debt(SubSeq(q, c + 1, Len(q)), Tail(R), o, A)
<1>1. PICK sum \in [0..Len(R) -> 0..Len(q)] :
        /\ IsAckSum(R, sum)
        /\ o + sum[Len(R)] <= Len(q)
        /\ \A i \in DOMAIN q : q[i] \in A <=> i <= o + sum[Len(R)]
  BY DEF Debt
<1> DEFINE c == IF R[1].op = "ack" THEN R[1].count ELSE 0
           n == Len(R)
           p == SubSeq(q, c + 1, Len(q))
           new == [i \in 0..(n - 1) |-> sum[i + 1] - c]
<1>2. /\ n \in Nat \ {0} /\ Len(q) \in Nat /\ DOMAIN q = 1..Len(q) /\ DOMAIN R = 1..n
      /\ Tail(R) \in Seq(Response) /\ Len(Tail(R)) = n - 1 /\ DOMAIN Tail(R) = 1..(n - 1)
      /\ \A i \in 1..(n - 1) : Tail(R)[i] = R[i + 1]
      /\ R[1] \in Response
  OBVIOUS
<1>3. c \in Nat /\ sum[1] = c /\ sum[0] = 0
  <2>1. sum[1] = sum[1 - 1] + c
    <3>1. 1 \in DOMAIN R
      BY <1>2
    <3>2. QED
      BY <1>1, <3>1 DEF IsAckSum
  <2>2. c \in Nat
    BY <1>2 DEF Response
  <2> HIDE DEF c
  <2>3. QED
    BY <1>1, <2>1, <2>2 DEF IsAckSum
<1>4. \A i \in 1..n : R[i].op = "ack" => R[i].count \in Nat
  <2>1. \A i \in 1..n : R[i] \in Response
    OBVIOUS
  <2>2. QED
    BY <2>1 DEF Response
<1>5. \A i \in 0..n : sum[i] \in 0..Len(q)
  OBVIOUS
<1> HIDE DEF c
<1>6. \A i \in 1..n : sum[i] >= sum[i - 1]
  <2> SUFFICES ASSUME NEW i \in 1..n PROVE sum[i] >= sum[i - 1]
    OBVIOUS
  <2>1. sum[i] \in Nat /\ sum[i - 1] \in Nat
    BY <1>2, <1>5
  <2>2. sum[i] = sum[i - 1] + IF R[i].op = "ack" THEN R[i].count ELSE 0
    BY <1>1, <1>2 DEF IsAckSum
  <2>3. QED
    BY <1>4, <2>1, <2>2
<1>7. \A i \in 1..n : sum[i] >= c
  <2> DEFINE bad == {i \in 1..n : sum[i] < c}
  <2>1. SUFFICES ASSUME bad # {} PROVE FALSE
    BY <1>2, <1>3, <1>5, SMTT(60)
  <2>2. PICK m \in bad : \A i \in bad : m <= i
    <3>1. bad \in SUBSET Nat
      OBVIOUS
    <3> HIDE DEF bad
    <3>2. QED
      BY <2>1, <3>1, LeastMember
  <2>3. m # 1
    BY <1>3, <2>2
  <2>4. m - 1 \in 1..n /\ sum[m - 1] < c
    <3>1. m \in 1..n /\ sum[m] < c /\ m - 1 \in 1..n
      BY <1>2, <2>2, <2>3
    <3>2. sum[m] \in Nat /\ sum[m - 1] \in Nat /\ sum[m] >= sum[m - 1]
      BY <1>2, <1>5, <1>6, <3>1
    <3>3. QED
      BY <1>3, <3>1, <3>2
  <2>5. QED
    BY <1>2, <2>2, <2>4
<1>8. new \in [0..(n - 1) -> 0..(Len(q) - c)] /\ \A i \in 0..(n - 1) : new[i] = sum[i + 1] - c
  BY <1>2, <1>3, <1>5, <1>7
<1> HIDE DEF new
<1>9. c \in 0..Len(q)
  BY <1>2, <1>3, <1>5
<1>10. o + sum[n] = c + (o + new[n - 1]) /\ new[n - 1] \in Nat /\ sum[n] \in Nat
  <2>1. n - 1 \in 0..(n - 1) /\ (n - 1) + 1 = n /\ n \in 0..n
    BY <1>2
  <2>2. new[n - 1] = sum[n] - c /\ new[n - 1] \in 0..(Len(q) - c) /\ sum[n] \in 0..Len(q)
    BY <1>5, <1>8, <2>1
  <2>3. QED
    BY <1>2, <1>3, <2>2
<1>11. ASSUME NEW i \in 1..c
       PROVE  q[i] \in A
  <2>1. i \in DOMAIN q /\ i <= o + sum[n]
    BY <1>2, <1>3, <1>9, <1>10, SMTT(60)
  <2>2. QED
    BY <1>1, <2>1
<1>12. Len(p) = Len(q) - c /\ DOMAIN p = 1..(Len(q) - c) /\ \A i \in 1..(Len(q) - c) : p[i] = q[i + c]
  <2>1. p \in Seq(Nat) /\ Len(p) = Len(q) - c /\ \A i \in 1..(Len(q) - c) : p[i] = q[i + c]
    BY <1>9, SuffixFacts
  <2> HIDE DEF p
  <2>2. QED
    BY <2>1
<1> HIDE DEF p
<1>13. IsAckSum(Tail(R), new)
  <2>1. new[0] = 0
    BY <1>2, <1>3, <1>8
  <2>2. ASSUME NEW i \in 1..(n - 1)
        PROVE  new[i] = new[i - 1] + IF Tail(R)[i].op = "ack" THEN Tail(R)[i].count ELSE 0
    <3>1. i + 1 \in 1..n /\ i \in 0..(n - 1) /\ i - 1 \in 0..(n - 1) /\ (i + 1) - 1 = i /\ (i - 1) + 1 = i
          /\ i \in 0..n /\ i + 1 \in 0..n
      BY <1>2
    <3>2. sum[i + 1] = sum[i] + IF R[i + 1].op = "ack" THEN R[i + 1].count ELSE 0
      BY <1>1, <1>2, <3>1 DEF IsAckSum
    <3>3. new[i] = sum[i + 1] - c /\ new[i - 1] = sum[i] - c
      BY <1>8, <3>1
    <3>4. R[i + 1].op = "ack" => R[i + 1].count \in Nat
      BY <1>4, <3>1
    <3>5. QED
      BY <1>2, <1>3, <1>5, <3>1, <3>2, <3>3, <3>4
  <2>3. QED
    BY <1>2, <2>1, <2>2 DEF IsAckSum
<1>14. ASSUME NEW i \in DOMAIN p
       PROVE  p[i] \in A <=> i <= o + new[n - 1]
  <2>1. i + c \in DOMAIN q /\ p[i] = q[i + c] /\ i \in Nat
    BY <1>2, <1>9, <1>12
  <2>2. q[i + c] \in A <=> i + c <= c + (o + new[n - 1])
    BY <1>1, <1>10, <2>1
  <2>3. i + c <= c + (o + new[n - 1]) <=> i <= o + new[n - 1]
    BY <1>3, <1>10, <2>1, SMTT(60)
  <2>4. QED
    BY <2>1, <2>2, <2>3
<1>15. o + new[n - 1] <= Len(p)
  BY <1>1, <1>2, <1>9, <1>10, <1>12
<1>16. Debt(p, Tail(R), o, A)
  BY <1>2, <1>8, <1>12, <1>13, <1>14, <1>15 DEF Debt
<1>17. QED
  BY <1>9, <1>11, <1>16 DEF c, p

-----------------------------------------------------------------------------
(* New transactions. *)

LEMMA AppendedIds ==
    ASSUME NEW S, NEW q \in Seq(S), NEW x \in S, Once(q), x.id \notin Ids(q)
    PROVE  /\ Once(Append(q, x)) /\ Ids(Append(q, x)) = Ids(q) \cup ({x.id} \ {0})
           /\ \A i \in DOMAIN Append(q, x) :
                 Append(q, x)[i] = x \/ (i \in DOMAIN q /\ Append(q, x)[i] = q[i])
<1>1. /\ Append(q, x) \in Seq(S) /\ Removed(Append(q, x), Len(q) + 1, q)
      /\ Append(q, x)[Len(q) + 1] = x
  BY AppendFacts
<1>2. Once(Append(q, x)) /\ Ids(Append(q, x)) = Ids(q) \cup ({x.id} \ {0})
  <2> DEFINE r == Append(q, x)
             k == Len(q) + 1
  <2>1. r \in Seq(S) /\ Removed(r, k, q) /\ r[k] = x
    BY <1>1
  <2> HIDE DEF r, k
  <2>2. Once(r) /\ Ids(r) = Ids(q) \cup ({r[k].id} \ {0})
    BY <2>1, AddedIds
  <2>3. QED
    BY <2>1, <2>2 DEF r
<1>3. QED
  BY <1>2

LEMMA RemovedFrom ==
    ASSUME NEW S, NEW q \in Seq(S), NEW r \in Seq(S), NEW k, Removed(q, k, r)
    PROVE  \A i \in DOMAIN r : \E j \in DOMAIN q : r[i] = q[j]
<1>1. \A i \in DOMAIN r : Up(k, i) \in DOMAIN q /\ r[i] = q[Up(k, i)]
  BY RemovedMap
<1>2. QED
  BY <1>1

LEMMA AddedFrom ==
    ASSUME NEW S, NEW q \in Seq(S), NEW r \in Seq(S), NEW k, Removed(q, k, r)
    PROVE  \A i \in DOMAIN q : q[i] = q[k] \/ \E j \in DOMAIN r : q[i] = r[j]
<1>1. /\ \A i \in DOMAIN r : r[i] = q[Up(k, i)]
      /\ \A i \in DOMAIN q : i = k \/ \E j \in DOMAIN r : Up(k, j) = i
  BY RemovedMap
<1>2. QED
  BY <1>1

\* Whatever is under way is older than the next transaction.
LEMMA OldIds ==
    ASSUME IndInv
    PROVE  /\ nextTx \in Nat \ {0}
           /\ \A c \in Spots : nextTx \notin Held[c]
           /\ \A l \in Links : nextTx \notin Ids(reqs[l]) /\ nextTx \notin Ids(rsps[l])
           /\ nextTx \notin Ids(pending) /\ nextTx \notin applied
           /\ \A l \in Links : \A i \in DOMAIN reqs[l] : reqs[l][i].id < nextTx
           /\ \A i \in DOMAIN Arrived : Arrived[i].id < nextTx
           /\ \A l \in Links : \A i \in DOMAIN rsps[l] : rsps[l][i].id # nextTx
           /\ \A i \in DOMAIN pending : pending[i].id # nextTx
           /\ \A s \in Sms : \A r \in tx[s] : r.id < nextTx
<1>1. nextTx \in Nat \ {0}
  BY Bounds DEF IndInv, TypeOK
<1>2. \A c \in Spots : nextTx \notin Held[c]
  BY <1>1 DEF IndInv, EachOnce, Apart
<1>3. \A l \in Links : <<"request", l>> \in Spots /\ <<"response", l>> \in Spots
  BY DEF Spots
<1>4. <<"ingress", 0>> \in Spots /\ <<"pending", 0>> \in Spots /\ <<"applied", 0>> \in Spots
  BY DEF Spots
<1>5. \A l \in Links : nextTx \notin Ids(reqs[l]) /\ nextTx \notin Ids(rsps[l])
  BY <1>2, <1>3, HeldIs
<1>6. nextTx \notin Ids(pending) /\ nextTx \notin applied
  BY <1>2, <1>4, HeldIs
<1>7. \A s \in Sms : \A r \in tx[s] : r.id < nextTx
  BY DEF IndInv, TxKnown
<1>8. \A l \in Links : \A i \in DOMAIN reqs[l] : reqs[l][i].id < nextTx
  BY <1>7, LinkFacts DEF IndInv, RequestsKnown
<1>9. \A i \in DOMAIN Arrived : Arrived[i].id < nextTx
  <2>1. \A i \in DOMAIN Arrived : Arrived[i] \in Request
    BY ReqsOfFacts DEF IndInv, TypeOK, Arrived
  <2>2. QED
    BY <1>7, <2>1 DEF IndInv, RequestsKnown, Request
<1>10. \A l \in Links : \A i \in DOMAIN rsps[l] : rsps[l][i].id # nextTx
  BY <1>1, <1>5 DEF Ids
<1>11. \A i \in DOMAIN pending : pending[i].id # nextTx
  BY <1>1, <1>6 DEF Ids
<1>12. QED
  BY <1>1, <1>2, <1>5, <1>6, <1>7, <1>8, <1>9, <1>10, <1>11

\* A request is issued: r is put into the link l, behind what is there unless it is a load.
LEMMA IssueMove ==
    ASSUME TypeOK, TypeOK', NEW l \in Links, NEW c \in Classes, Issue(l, c)
    PROVE  \E r \in Request, k \in Nat :
             /\ r.id = nextTx /\ r.cls = c /\ r.src = l[1] /\ LinkOf(r) = l
             /\ Removed(reqs'[l], k, reqs[l]) /\ reqs'[l][k] = r
             /\ reqs'[l] \in Seq(Request) /\ reqs[l] \in Seq(Request)
             /\ r.cls \notin StoreLike \/ k = Len(reqs'[l])
             /\ \A m \in Links : m # l => reqs'[m] = reqs[m]
             /\ tx' = [tx EXCEPT ![l[1]] = @ \cup {r}]
             /\ storeQ' = IF c \in StoreLike THEN [storeQ EXCEPT ![l] = Append(@, r.id)] ELSE storeQ
             /\ nextTx' = nextTx + 1 /\ nextTx <= MaxTx
             /\ UNCHANGED <<rsps, epVars, grant, stage, cursor, ctaVars, waiters, applied, staleHits>>
<1> DEFINE r == [id |-> nextTx, cls |-> c, src |-> l[1], dst |-> l[2], gen |-> gen[l[2]]]
<1>1. PICK q \in Placements(l, r) : reqs' = [reqs EXCEPT ![l] = q]
  BY DEF Issue
<1>2. /\ tx' = [tx EXCEPT ![l[1]] = @ \cup {r}]
      /\ storeQ' = IF c \in StoreLike THEN [storeQ EXCEPT ![l] = Append(@, r.id)] ELSE storeQ
      /\ nextTx' = nextTx + 1 /\ nextTx <= MaxTx
      /\ UNCHANGED <<rsps, epVars, grant, stage, cursor, ctaVars, waiters, applied, staleHits>>
  BY DEF Issue
<1>3. r \in Request
  <2>1. c \in AllClasses /\ l[1] \in Sms /\ l[2] \in Sms /\ gen[l[2]] \in 0..MaxGen
    BY LinkFacts, ClassesAssumption DEF TypeOK
  <2>2. nextTx \in 1..MaxTx
    BY <1>2, Bounds DEF TypeOK
  <2>3. QED
    BY <2>1, <2>2 DEF Request
<1>4. r.id = nextTx /\ r.cls = c /\ r.src = l[1] /\ LinkOf(r) = l
  BY LinkFacts DEF LinkOf
<1> HIDE DEF r
<1>5. reqs[l] \in Seq(Request) /\ reqs'[l] \in Seq(Request) /\ reqs'[l] = q
      /\ \A m \in Links : m # l => reqs'[m] = reqs[m]
  BY <1>1 DEF TypeOK
<1>6. \E k \in Nat : /\ Removed(reqs'[l], k, reqs[l]) /\ reqs'[l][k] = r
                     /\ r.cls \notin StoreLike \/ k = Len(reqs'[l])
  <2>1. CASE c = "load"
    <3>1. PICK k \in 1..(Len(reqs[l]) + 1) : q = InsertAt(reqs[l], k, r)
      BY <1>1, <1>4, <2>1 DEF Placements
    <3>2. Removed(q, k, reqs[l]) /\ q[k] = r
      <4> DEFINE R == reqs[l]
      <4>1. R \in Seq(Request) /\ k \in 1..(Len(R) + 1) /\ q = InsertAt(R, k, r)
        BY <1>5, <3>1
      <4> HIDE DEF R
      <4>2. Removed(q, k, R) /\ q[k] = r
        BY <1>3, <4>1, InsertAtFacts
      <4>3. QED
        BY <4>2 DEF R
    <3>3. r.cls \notin StoreLike /\ k \in Nat
      BY <1>4, <2>1 DEF StoreLike
    <3>4. QED
      BY <1>5, <3>2, <3>3
  <2>2. CASE c # "load"
    <3>1. q = Append(reqs[l], r)
      BY <1>1, <1>4, <2>2 DEF Placements
    <3>2. Removed(q, Len(reqs[l]) + 1, reqs[l]) /\ q[Len(reqs[l]) + 1] = r /\ Len(q) = Len(reqs[l]) + 1
      BY <1>3, <1>5, <3>1, AppendFacts
    <3>3. Len(reqs[l]) + 1 \in Nat
      BY <1>5
    <3>4. QED
      BY <1>5, <3>2, <3>3
  <2>3. QED
    BY <2>1, <2>2
<1>7. QED
  BY <1>2, <1>3, <1>4, <1>5, <1>6

LEMMA IssueInd ==
    ASSUME IndInv, TypeOK', NEW l \in Links, NEW c \in Classes, Issue(l, c)
    PROVE  IndInv'
<1>0. TypeOK
  BY DEF IndInv
<1>1. PICK r \in Request, k \in Nat :
             /\ r.id = nextTx /\ r.cls = c /\ r.src = l[1] /\ LinkOf(r) = l
             /\ Removed(reqs'[l], k, reqs[l]) /\ reqs'[l][k] = r
             /\ reqs'[l] \in Seq(Request) /\ reqs[l] \in Seq(Request)
             /\ r.cls \notin StoreLike \/ k = Len(reqs'[l])
             /\ \A m \in Links : m # l => reqs'[m] = reqs[m]
             /\ tx' = [tx EXCEPT ![l[1]] = @ \cup {r}]
             /\ storeQ' = IF c \in StoreLike THEN [storeQ EXCEPT ![l] = Append(@, r.id)] ELSE storeQ
             /\ nextTx' = nextTx + 1 /\ nextTx <= MaxTx
             /\ UNCHANGED <<rsps, epVars, grant, stage, cursor, ctaVars, waiters, applied, staleHits>>
  BY <1>0, IssueMove
<1>2. UNCHANGED <<rsps, ingress, pending, owed, grant, stage, cursor, applied, staleHits>> /\ Arrived' = Arrived
  BY <1>1 DEF epVars, Arrived
<1>3. /\ nextTx \in Nat \ {0}
      /\ \A f \in Spots : nextTx \notin Held[f]
      /\ \A m \in Links : nextTx \notin Ids(reqs[m]) /\ nextTx \notin Ids(rsps[m])
      /\ nextTx \notin Ids(pending) /\ nextTx \notin applied
      /\ \A m \in Links : \A i \in DOMAIN reqs[m] : reqs[m][i].id < nextTx
      /\ \A i \in DOMAIN Arrived : Arrived[i].id < nextTx
      /\ \A m \in Links : \A i \in DOMAIN rsps[m] : rsps[m][i].id # nextTx
      /\ \A i \in DOMAIN pending : pending[i].id # nextTx
      /\ \A s \in Sms : \A p \in tx[s] : p.id < nextTx
  BY OldIds
<1>4. Once(reqs'[l]) /\ Ids(reqs'[l]) = Ids(reqs[l]) \cup {nextTx}
  <2>1. Once(reqs[l]) /\ r.id \notin Ids(reqs[l])
    BY <1>1, <1>3 DEF IndInv, EachOnce
  <2>2. Once(reqs'[l]) /\ Ids(reqs'[l]) = Ids(reqs[l]) \cup ({reqs'[l][k].id} \ {0})
    BY <1>1, <2>1, AddedIds
  <2>3. QED
    BY <1>1, <1>3, <2>2
<1>5. <<"request", l>> \in Spots
  BY DEF Spots
<1>6. Held'[<<"request", l>>] = Held[<<"request", l>>] \cup {nextTx}
  BY <1>4, HeldIs
<1>7. ASSUME NEW f \in Spots \ {<<"request", l>>}
      PROVE  Held'[f] = Held[f]
  <2>1. ASSUME NEW m \in Links, m # l
        PROVE  Held'[<<"request", m>>] = Held[<<"request", m>>]
    <3>1. Held'[<<"request", m>>] = Ids(reqs'[m]) /\ Held[<<"request", m>>] = Ids(reqs[m])
      BY HeldIs
    <3>2. QED
      BY <1>1, <2>1, <3>1
  <2>2. \A m \in Links : Held'[<<"response", m>>] = Held[<<"response", m>>]
    BY <1>2, HeldIs
  <2>3. /\ Held'[<<"pending", 0>>] = Held[<<"pending", 0>>] /\ Held'[<<"applied", 0>>] = Held[<<"applied", 0>>]
        /\ Held'[<<"ingress", 0>>] = Held[<<"ingress", 0>>]
    BY <1>2, HeldIs
  <2>4. QED
    BY <2>1, <2>2, <2>3, SpotCases
<1>8. Apart(Held', nextTx + 1)
  BY <1>3, <1>5, <1>6, <1>7, ApartAdded DEF IndInv, EachOnce
<1>9. EachOnce'
  BY <1>1, <1>2, <1>4, <1>8 DEF IndInv, EachOnce
<1>10. \A s \in Sms : \A p \in tx'[s] : p \in tx[s] \/ (p = r /\ s = l[1])
  BY <1>0, <1>1 DEF TypeOK
<1>11. r \in tx'[l[1]] /\ \A s \in Sms : tx[s] \subseteq tx'[s]
  BY <1>0, <1>1, LinkFacts DEF TypeOK
<1>12. TxKnown'
  <2>1. \A s \in Sms : \A p \in tx'[s] : p.src = s /\ LinkOf(p) \in Links
    BY <1>1, <1>10 DEF IndInv, TxKnown
  <2>2. \A s \in Sms : \A p \in tx'[s] : p.id < nextTx + 1
    <3>1. \A s \in Sms : \A p \in tx[s] : p.id \in Nat /\ p.id < nextTx
      BY <1>0, <1>3, TxTyped
    <3>2. QED
      BY <1>1, <1>3, <1>10, <3>1
  <2>3. \A s, t \in Sms : \A p \in tx'[s], q \in tx'[t] : p.id = q.id => p = q
    <3>1. \A s \in Sms : \A p \in tx[s] : p.id # nextTx
      BY <1>3
    <3>2. \A s, t \in Sms : \A p \in tx[s], q \in tx[t] : p.id = q.id => p = q
      BY DEF IndInv, TxKnown
    <3>3. QED
      BY <1>1, <1>10, <3>1, <3>2
  <2>4. QED
    BY <1>1, <2>1, <2>2, <2>3 DEF TxKnown
<1>13. \A m \in Links : \A i \in DOMAIN reqs'[m] :
          (m = l /\ reqs'[m][i] = r) \/ \E j \in DOMAIN reqs[m] : reqs'[m][i] = reqs[m][j]
  <2>1. \A i \in DOMAIN reqs'[l] : reqs'[l][i] = r \/ \E j \in DOMAIN reqs[l] : reqs'[l][i] = reqs[l][j]
    <3>1. \A i \in DOMAIN reqs'[l] : reqs'[l][i] = reqs'[l][k] \/ \E j \in DOMAIN reqs[l] : reqs'[l][i] = reqs[l][j]
      BY <1>1, AddedFrom
    <3>2. QED
      BY <1>1, <3>1
  <2>2. QED
    BY <1>1, <2>1
<1>14. RequestsKnown'
  <2>1. \A m \in Links : \A i \in DOMAIN reqs'[m] : reqs'[m][i] \in tx'[m[1]] /\ LinkOf(reqs'[m][i]) = m
    BY <1>1, <1>11, <1>13, LinkFacts DEF IndInv, RequestsKnown
  <2>2. \A i \in DOMAIN Arrived : Arrived[i] \in tx'[Arrived[i].src]
    <3>1. \A i \in DOMAIN Arrived : Arrived[i] \in Request
      BY <1>0, ReqsOfFacts DEF TypeOK, Arrived
    <3>2. QED
      BY <1>11, <3>1 DEF IndInv, RequestsKnown, Request
  <2>3. QED
    BY <1>2, <2>1, <2>2 DEF RequestsKnown
<1>15. AnswersKnown'
  <2>1. ASSUME NEW n, NEW m, Answerable(tx, n, m), n # nextTx
        PROVE  Answerable(tx', n, m)
    BY <1>1, <1>10, <2>1 DEF Answerable
  <2>2. \A s \in Sms : \A p \in tx'[s] : p.id \in applied => p.cls \in StoreLike
    BY <1>1, <1>3, <1>10 DEF IndInv, AnswersKnown
  <2>3. \A m \in Links : \A i \in DOMAIN rsps[m] :
          IF rsps[m][i].op = "ack" THEN rsps[m][i].id = 0 ELSE Answerable(tx', rsps[m][i].id, m)
    BY <1>3, <2>1 DEF IndInv, AnswersKnown
  <2>4. \A i \in DOMAIN pending :
          /\ pending[i].op # "ack" /\ <<pending[i].dst, pending[i].src>> \in Links
          /\ Answerable(tx', pending[i].id, <<pending[i].dst, pending[i].src>>)
    BY <1>3, <2>1 DEF IndInv, AnswersKnown
  <2>5. QED
    BY <1>2, <2>2, <2>3, <2>4 DEF AnswersKnown
<1>16. NoneLost'
  <2>1. \A f \in Spots : Held[f] \subseteq Held'[f]
    BY <1>6, <1>7
  <2>2. r.id \in Held'[<<"request", l>>]
    BY <1>1, <1>6
  <2>3. QED
    BY <1>5, <1>10, <2>1, <2>2 DEF IndInv, NoneLost
<1>17. StoresInOrder'
  <2>1. StoreOrder(reqs'[l])
    <3>1. StoreOrder(reqs[l])
      BY DEF IndInv, StoresInOrder
    <3>2. QED
      BY <1>1, <1>3, <3>1, AddedOrder
  <2>2. \A m \in Links : StoreOrder(reqs'[m])
    BY <1>1, <2>1 DEF IndInv, StoresInOrder
  <2>3. \A i \in DOMAIN Arrived : \A m \in Links : \A j \in DOMAIN reqs'[m] :
          Arrived[i].cls \in StoreLike /\ reqs'[m][j].cls \in StoreLike /\ LinkOf(Arrived[i]) = m
              => Arrived[i].id < reqs'[m][j].id
    BY <1>1, <1>3, <1>13 DEF IndInv, StoresInOrder
  <2>4. QED
    BY <1>2, <2>2, <2>3 DEF IndInv, StoresInOrder
<1>18. EntriesKnown' /\ ServedInOrder' /\ DataStaysHome'
  BY <1>2 DEF IndInv, EntriesKnown, ServedInOrder, DataStaysHome
<1>19. StoresQueued'
  <2>1. CASE c \notin StoreLike
    <3>1. storeQ' = storeQ
      BY <1>1, <2>1
    <3>2. QED
      BY <1>1, <1>10, <1>11, <2>1, <3>1, LinkFacts DEF IndInv, StoresQueued
  <2>2. CASE c \in StoreLike
    <3> DEFINE q == storeQ[l]
               p == storeQ'[l]
    <3>1. q \in Seq(1..MaxTx) /\ p = Append(q, nextTx) /\ \A m \in Links : m # l => storeQ'[m] = storeQ[m]
      BY <1>0, <1>1, <2>2 DEF TypeOK
    <3>2. /\ DOMAIN q = 1..Len(q) /\ DOMAIN p = 1..(Len(q) + 1) /\ Len(q) \in Nat
          /\ p[Len(q) + 1] = nextTx /\ \A i \in 1..Len(q) : p[i] = q[i]
      BY <3>1
    <3> HIDE DEF q, p
    <3>3. \A i \in DOMAIN p : i = Len(q) + 1 \/ i \in DOMAIN q
      BY <3>2
    <3>4. \A m \in Links : \A i \in DOMAIN storeQ[m] :
             \E b \in tx'[m[1]] : b.id = storeQ[m][i] /\ LinkOf(b) = m /\ b.cls \in StoreLike
      BY <1>11, LinkFacts DEF IndInv, StoresQueued
    <3>5. \A i \in DOMAIN p : \E b \in tx'[l[1]] : b.id = p[i] /\ LinkOf(b) = l /\ b.cls \in StoreLike
      BY <1>1, <1>11, <2>2, <3>2, <3>3, <3>4 DEF q
    <3>6. \A i \in DOMAIN q : q[i] < nextTx
      BY <1>3, LinkFacts DEF q, IndInv, StoresQueued
    <3>7. \A i, j \in DOMAIN q : i < j => q[i] < q[j]
      BY DEF q, IndInv, StoresQueued
    <3>8. \A i, j \in DOMAIN p : i < j => p[i] < p[j]
      <4> SUFFICES ASSUME NEW i \in DOMAIN p, NEW j \in DOMAIN p, i < j
                   PROVE  p[i] < p[j]
        OBVIOUS
      <4>1. i \in 1..Len(q)
        BY <3>2
      <4>2. CASE j = Len(q) + 1
        BY <3>2, <3>6, <4>1, <4>2
      <4>3. CASE j # Len(q) + 1
        BY <3>2, <3>3, <3>7, <4>1, <4>3
      <4>4. QED
        BY <4>2, <4>3
    <3>9. ASSUME NEW s \in Sms, NEW b \in tx'[s], b.cls \in StoreLike
          PROVE  \E i \in DOMAIN storeQ'[LinkOf(b)] : storeQ'[LinkOf(b)][i] = b.id
      <4>1. CASE b = r
        <5>1. Len(q) + 1 \in DOMAIN p /\ p[Len(q) + 1] = b.id /\ LinkOf(b) = l
          BY <1>1, <3>2, <4>1
        <5>2. QED
          BY <5>1 DEF p
      <4>2. CASE b \in tx[s]
        <5>1. PICK i \in DOMAIN storeQ[LinkOf(b)] : storeQ[LinkOf(b)][i] = b.id
          BY <3>9, <4>2 DEF IndInv, StoresQueued
        <5>2. LinkOf(b) \in Links
          BY <4>2 DEF IndInv, TxKnown
        <5>3. CASE LinkOf(b) = l
          <6>1. i \in 1..Len(q) /\ q[i] = b.id
            BY <3>2, <5>1, <5>3 DEF q
          <6>2. i \in DOMAIN p /\ p[i] = b.id
            BY <3>2, <6>1
          <6>3. QED
            BY <5>3, <6>2 DEF p
        <5>4. CASE LinkOf(b) # l
          BY <3>1, <5>1, <5>2, <5>4
        <5>5. QED
          BY <5>3, <5>4
      <4>3. QED
        BY <1>10, <4>1, <4>2
    <3>10. \A m \in Links : \A i, j \in DOMAIN storeQ'[m] : i < j => storeQ'[m][i] < storeQ'[m][j]
      BY <3>1, <3>8 DEF p, IndInv, StoresQueued
    <3>11. \A m \in Links : \A i \in DOMAIN storeQ'[m] :
             \E b \in tx'[m[1]] : b.id = storeQ'[m][i] /\ LinkOf(b) = m /\ b.cls \in StoreLike
      BY <3>1, <3>4, <3>5, SMTT(60) DEF p
    <3>12. QED
      BY <3>9, <3>10, <3>11 DEF StoresQueued
  <2>3. QED
    BY <2>1, <2>2
<1>20. AckDebtExact'
  <2>1. \A m \in Links : Debt(storeQ[m], rsps[m], owed[m], applied)
    BY DebtIs DEF IndInv
  <2>2. ASSUME NEW m \in Links
        PROVE  Debt(storeQ'[m], rsps[m], owed[m], applied)
    <3>1. CASE m = l /\ c \in StoreLike
      <4>1. storeQ'[m] = Append(storeQ[m], nextTx)
        BY <1>0, <1>1, <3>1 DEF TypeOK
      <4>2. storeQ[m] \in Seq(Nat) /\ rsps[m] \in Seq(Response) /\ owed[m] \in Nat
        BY <1>0, StoreQNat DEF TypeOK
      <4>3. QED
        BY <1>3, <2>1, <4>1, <4>2, DebtIssue
    <3>2. CASE ~(m = l /\ c \in StoreLike)
      <4>1. storeQ'[m] = storeQ[m]
        BY <1>0, <1>1, <3>2 DEF TypeOK
      <4>2. QED
        BY <2>1, <4>1
    <3>3. QED
      BY <3>1, <3>2
  <2>3. QED
    BY <1>2, <2>2, DebtIsNext
<1>21. QED
  BY <1>9, <1>12, <1>14, <1>15, <1>16, <1>17, <1>18, <1>19, <1>20 DEF IndInv

-----------------------------------------------------------------------------
(* Answers. *)

\* A response a joins the link l.
Sent(l, a) == rsps' = [rsps EXCEPT ![l] = Append(@, a)]

LEMMA SentFacts ==
    ASSUME IndInv, NEW l \in Links, NEW a \in Response, a.id \notin Ids(rsps[l]), Sent(l, a)
    PROVE  /\ \A m \in Links : Once(rsps'[m])
           /\ Held'[<<"response", l>>] = Held[<<"response", l>>] \cup ({a.id} \ {0})
           /\ \A m \in Links : m # l => Held'[<<"response", m>>] = Held[<<"response", m>>]
           /\ \A m \in Links : \A i \in DOMAIN rsps'[m] :
                 (m = l /\ rsps'[m][i] = a) \/ (i \in DOMAIN rsps[m] /\ rsps'[m][i] = rsps[m][i])
           /\ \A m \in Links : m # l => rsps'[m] = rsps[m]
           /\ rsps'[l] = Append(rsps[l], a) /\ rsps[l] \in Seq(Response)
<1>1. rsps'[l] = Append(rsps[l], a) /\ (\A m \in Links : m # l => rsps'[m] = rsps[m])
      /\ rsps[l] \in Seq(Response) /\ (\A m \in Links : Once(rsps[m]))
  BY DEF IndInv, TypeOK, EachOnce, Sent
<1>2. /\ Once(rsps'[l]) /\ Ids(rsps'[l]) = Ids(rsps[l]) \cup ({a.id} \ {0})
      /\ \A i \in DOMAIN rsps'[l] : rsps'[l][i] = a \/ (i \in DOMAIN rsps[l] /\ rsps'[l][i] = rsps[l][i])
  BY <1>1, AppendedIds
<1>3. \A m \in Links : Once(rsps'[m])
  BY <1>1, <1>2
<1>4. Held'[<<"response", l>>] = Held[<<"response", l>>] \cup ({a.id} \ {0})
  BY <1>2, HeldIs
<1>5. ASSUME NEW m \in Links, m # l
      PROVE  Held'[<<"response", m>>] = Held[<<"response", m>>]
  <2>1. Held'[<<"response", m>>] = Ids(rsps'[m]) /\ Held[<<"response", m>>] = Ids(rsps[m])
    BY HeldIs
  <2>2. QED
    BY <1>1, <1>5, <2>1
<1>6. \A m \in Links : \A i \in DOMAIN rsps'[m] :
         (m = l /\ rsps'[m][i] = a) \/ (i \in DOMAIN rsps[m] /\ rsps'[m][i] = rsps[m][i])
  BY <1>1, <1>2
<1>7. QED
  BY <1>1, <1>3, <1>4, <1>5, <1>6

\* The debts of all links after a response was sent that acknowledges nothing.
LEMMA SentDebt ==
    ASSUME IndInv, NEW l \in Links, NEW a \in Response, a.op # "ack", Sent(l, a),
           UNCHANGED <<storeQ, owed, applied>>
    PROVE  AckDebtExact'
<1>1. \A m \in Links : Debt(storeQ[m], rsps[m], owed[m], applied)
  BY DebtIs DEF IndInv
<1>2. /\ rsps'[l] = Append(rsps[l], a) /\ \A m \in Links : m # l => rsps'[m] = rsps[m]
  BY DEF IndInv, TypeOK, Sent
<1>3. rsps[l] \in Seq(Response) /\ owed[l] \in Nat /\ storeQ[l] \in Seq(Nat)
  BY StoreQNat DEF IndInv, TypeOK
<1>4. Debt(storeQ[l], Append(rsps[l], a), owed[l], applied)
  BY <1>1, <1>3, DebtSend
<1>5. \A m \in Links : Debt(storeQ[m], rsps'[m], owed[m], applied)
  BY <1>1, <1>2, <1>4
<1>6. QED
  BY <1>5, DebtIsNext

\* What is under way besides answers does not change.
RequestsSame == UNCHANGED <<tx, storeQ, reqs, applied, staleHits>> /\ Arrived' = Arrived

LEMMA RequestsSameInd ==
    ASSUME IndInv, RequestsSame, nextTx' \in Nat, nextTx <= nextTx'
    PROVE  TxKnown' /\ RequestsKnown' /\ StoresQueued' /\ StoresInOrder' /\ DataStaysHome'
<1>1. TxKnown'
  <2>1. \A s \in Sms : \A r \in tx[s] : r.id < nextTx'
    <3>1. nextTx \in Nat
      BY Bounds DEF IndInv, TypeOK
    <3>2. \A s \in Sms : \A r \in tx[s] : r.id \in Nat /\ r.id < nextTx
      BY TxTyped DEF IndInv, TxKnown
    <3>3. QED
      BY <3>1, <3>2
  <2>2. QED
    BY <2>1 DEF IndInv, RequestsSame, TxKnown
<1>2. RequestsKnown' /\ StoresQueued' /\ StoresInOrder' /\ DataStaysHome'
  BY DEF IndInv, RequestsSame, RequestsKnown, StoresQueued, StoresInOrder, DataStaysHome
<1>3. QED
  BY <1>1, <1>2

LEMMA AnswerWaitInd ==
    ASSUME IndInv, TypeOK', NEW l \in Links, AnswerWait(l)
    PROVE  IndInv'
<1> DEFINE a == [id |-> nextTx, op |-> "waitdone", src |-> l[2], dst |-> l[1], count |-> 1]
<1>1. a.id = nextTx /\ a.op # "ack" /\ <<a.dst, a.src>> = l /\ a \in Response
  <2>1. l[1] \in Sms /\ l[2] \in Sms /\ l = <<l[1], l[2]>>
    BY LinkFacts
  <2>2. nextTx \in 1..(MaxTx + 1) /\ nextTx <= MaxTx
    BY DEF IndInv, TypeOK, AnswerWait
  <2>3. nextTx \in 0..MaxTx
    BY <2>2, Bounds
  <2>4. QED
    BY <2>1, <2>3 DEF Response
<1>2. UNCHANGED <<tx, storeQ, reqs, ingress, owed, grant, stage, cursor, applied, staleHits>>
      /\ nextTx' = nextTx + 1
  BY DEF AnswerWait
<1>3. (Sent(l, a) /\ pending' = pending) \/ (pending' = Append(pending, a) /\ rsps' = rsps)
  BY DEF AnswerWait, Sent
<1> HIDE DEF a
<1>4. /\ nextTx \in Nat \ {0}
      /\ nextTx \notin Ids(rsps[l]) /\ nextTx \notin Ids(pending)
      /\ \A s \in Sms : \A r \in tx[s] : r.id < nextTx
  BY OldIds
<1>5. RequestsSame
  BY <1>2 DEF RequestsSame, Arrived
<1>6. TxKnown' /\ RequestsKnown' /\ StoresQueued' /\ StoresInOrder' /\ DataStaysHome'
  BY <1>2, <1>4, <1>5, RequestsSameInd
<1>7. EntriesKnown' /\ ServedInOrder'
  BY <1>2 DEF IndInv, EntriesKnown, ServedInOrder
<1>8. Answerable(tx, nextTx, l)
  BY <1>4 DEF Answerable
<1>9. \A m \in Links : Held'[<<"request", m>>] = Held[<<"request", m>>]
  BY <1>2, HeldIs
<1>10. Held'[<<"ingress", 0>>] = Held[<<"ingress", 0>>] /\ Held'[<<"applied", 0>>] = Held[<<"applied", 0>>]
  BY <1>2, <1>5, HeldIs DEF RequestsSame
<1>11. /\ \A s \in Sms : \A r \in tx[s] : r.id \in applied => r.cls \in StoreLike
       /\ \A m \in Links : \A i \in DOMAIN rsps[m] :
             IF rsps[m][i].op = "ack" THEN rsps[m][i].id = 0 ELSE Answerable(tx, rsps[m][i].id, m)
       /\ \A i \in DOMAIN pending :
             /\ pending[i].op # "ack" /\ <<pending[i].dst, pending[i].src>> \in Links
             /\ Answerable(tx, pending[i].id, <<pending[i].dst, pending[i].src>>)
  BY DEF IndInv, AnswersKnown
<1>12. CASE Sent(l, a) /\ pending' = pending
  <2>1. /\ \A m \in Links : Once(rsps'[m])
        /\ Held'[<<"response", l>>] = Held[<<"response", l>>] \cup ({a.id} \ {0})
        /\ \A m \in Links : m # l => Held'[<<"response", m>>] = Held[<<"response", m>>]
        /\ \A m \in Links : \A i \in DOMAIN rsps'[m] :
              (m = l /\ rsps'[m][i] = a) \/ (i \in DOMAIN rsps[m] /\ rsps'[m][i] = rsps[m][i])
    BY <1>1, <1>4, <1>12, SentFacts
  <2>2. Held'[<<"pending", 0>>] = Held[<<"pending", 0>>]
    BY <1>12, HeldIs
  <2>3. <<"response", l>> \in Spots
    BY DEF Spots
  <2>4. \A f \in Spots \ {<<"response", l>>} : Held'[f] = Held[f]
    BY <1>9, <1>10, <2>1, <2>2, SpotCases
  <2>5. Held'[<<"response", l>>] = Held[<<"response", l>>] \cup {nextTx}
    BY <1>1, <1>4, <2>1
  <2>6. Apart(Held', nextTx + 1)
    BY <1>4, <2>3, <2>4, <2>5, ApartAdded DEF IndInv, EachOnce
  <2>7. EachOnce'
    BY <1>2, <1>5, <1>12, <2>1, <2>6 DEF IndInv, EachOnce, RequestsSame
  <2>8. \A f \in Spots : Held[f] \subseteq Held'[f]
    BY <2>4, <2>5
  <2>9. NoneLost'
    BY <1>2, <2>8 DEF IndInv, NoneLost
  <2>10. AnswersKnown'
    <3>1. \A m \in Links : \A i \in DOMAIN rsps'[m] :
            IF rsps'[m][i].op = "ack" THEN rsps'[m][i].id = 0 ELSE Answerable(tx, rsps'[m][i].id, m)
      BY <1>1, <1>8, <1>11, <2>1
    <3>2. QED
      BY <1>2, <1>11, <1>12, <3>1 DEF AnswersKnown
  <2>11. AckDebtExact'
    BY <1>1, <1>2, <1>12, SentDebt
  <2>12. QED
    BY <1>6, <1>7, <2>7, <2>9, <2>10, <2>11 DEF IndInv
<1>13. CASE pending' = Append(pending, a) /\ rsps' = rsps
  <2>1. /\ Once(pending') /\ Ids(pending') = Ids(pending) \cup ({a.id} \ {0})
        /\ \A i \in DOMAIN pending' : pending'[i] = a \/ (i \in DOMAIN pending /\ pending'[i] = pending[i])
    <3>1. pending \in Seq(Response) /\ Once(pending)
      BY DEF IndInv, TypeOK, EachOnce
    <3>2. QED
      BY <1>1, <1>4, <1>13, <3>1, AppendedIds
  <2>2. \A m \in Links : Held'[<<"response", m>>] = Held[<<"response", m>>]
    BY <1>13, HeldIs
  <2>3. <<"pending", 0>> \in Spots
    BY DEF Spots
  <2>4. \A f \in Spots \ {<<"pending", 0>>} : Held'[f] = Held[f]
    BY <1>9, <1>10, <2>2, SpotCases
  <2>5. Held'[<<"pending", 0>>] = Held[<<"pending", 0>>] \cup {nextTx}
    BY <1>1, <1>4, <2>1, HeldIs
  <2>6. Apart(Held', nextTx + 1)
    BY <1>4, <2>3, <2>4, <2>5, ApartAdded DEF IndInv, EachOnce
  <2>7. EachOnce'
    BY <1>2, <1>5, <1>13, <2>1, <2>6 DEF IndInv, EachOnce, RequestsSame
  <2>8. \A f \in Spots : Held[f] \subseteq Held'[f]
    BY <2>4, <2>5
  <2>9. NoneLost'
    BY <1>2, <2>8 DEF IndInv, NoneLost
  <2>10. AnswersKnown'
    <3>1. \A i \in DOMAIN pending' :
             /\ pending'[i].op # "ack" /\ <<pending'[i].dst, pending'[i].src>> \in Links
             /\ Answerable(tx, pending'[i].id, <<pending'[i].dst, pending'[i].src>>)
      BY <1>1, <1>8, <1>11, <2>1
    <3>2. QED
      BY <1>2, <1>11, <1>13, <3>1 DEF AnswersKnown
  <2>11. AckDebtExact'
    BY <1>2, <1>13, AckDebtSame DEF IndInv
  <2>12. QED
    BY <1>6, <1>7, <2>7, <2>9, <2>10, <2>11 DEF IndInv
<1>14. QED
  BY <1>3, <1>12, <1>13

-----------------------------------------------------------------------------
(* The ingress. *)

\* The entry at the cursor goes.
LEMMA EntryGone ==
    ASSUME IndInv, TypeOK', cursor \in DOMAIN ingress, ingress' = RemoveAt(ingress, cursor)
    PROVE  /\ Removed(ingress, cursor, ingress') /\ Removed(Arrived, cursor, Arrived')
           /\ Arrived[cursor] = CursorReq
           /\ ingress \in Seq(Entry) /\ Arrived \in Seq(Request) /\ Arrived' \in Seq(Request)
           /\ Once(Arrived') /\ Held'[<<"ingress", 0>>] = Held[<<"ingress", 0>>] \ {CursorReq.id}
           /\ CursorReq.id \in Held[<<"ingress", 0>>]
           /\ StoreOrder(Arrived')
           /\ \A i \in DOMAIN Arrived' : \E j \in DOMAIN Arrived : j # cursor /\ Arrived'[i] = Arrived[j]
           /\ EntriesKnown'
<1>1. ingress \in Seq(Entry) /\ ingress' \in Seq(Entry) /\ Removed(ingress, cursor, ingress')
  BY RemoveAtFacts DEF IndInv, TypeOK
<1>2. Removed(Arrived, cursor, Arrived') /\ Arrived[cursor] = CursorReq
  BY <1>1, RemovedReqs DEF Arrived, CursorReq
<1>3. Arrived \in Seq(Request) /\ Arrived' \in Seq(Request) /\ DOMAIN Arrived = DOMAIN ingress
  BY <1>1, ReqsOfFacts DEF Arrived
<1>4. Once(Arrived') /\ Ids(Arrived') = Ids(Arrived) \ {CursorReq.id}
  <2>1. Once(Arrived)
    BY DEF IndInv, EachOnce
  <2>2. QED
    BY <1>2, <1>3, <2>1, RemovedIds
<1>5. CursorReq.id \in Ids(Arrived)
  <2>1. CursorReq.id # 0
    BY CursorLink, TxTyped DEF IndInv, CursorReq
  <2>2. QED
    BY <1>2, <1>3, <2>1 DEF Ids
<1>6. StoreOrder(Arrived')
  <2>1. StoreOrder(Arrived)
    BY DEF IndInv, StoresInOrder
  <2>2. QED
    BY <1>2, <1>3, <2>1, RemovedOrder
<1>7. \A i \in DOMAIN Arrived' : \E j \in DOMAIN Arrived : j # cursor /\ Arrived'[i] = Arrived[j]
  <2>1. \A i \in DOMAIN Arrived' : /\ Up(cursor, i) \in DOMAIN Arrived /\ Up(cursor, i) # cursor
                                   /\ Arrived'[i] = Arrived[Up(cursor, i)]
    BY <1>2, <1>3, RemovedMap
  <2>2. QED
    BY <2>1
<1>8. EntriesKnown'
  <2>1. \A i \in DOMAIN ingress' : \E j \in DOMAIN ingress : ingress'[i] = ingress[j]
    BY <1>1, RemovedFrom
  <2>2. QED
    BY <2>1 DEF IndInv, EntriesKnown
<1>9. Held'[<<"ingress", 0>>] = Held[<<"ingress", 0>>] \ {CursorReq.id} /\ CursorReq.id \in Held[<<"ingress", 0>>]
  BY <1>4, <1>5, HeldIs
<1>10. QED
  BY <1>1, <1>2, <1>3, <1>4, <1>6, <1>7, <1>8, <1>9

\* The order of service when the entry at the cursor goes.
LEMMA EntryGoneOrder ==
    ASSUME IndInv, TypeOK', cursor \in DOMAIN ingress, Removed(ingress, cursor, ingress'),
           UNCHANGED <<stage, cursor>>,
           \A t \in Targets : grant[t] = 0 => grant'[t] = 0
    PROVE  ServedInOrder'
<1>1. ingress \in Seq(Entry) /\ ingress' \in Seq(Entry) /\ cursor \in Nat
  BY DEF IndInv, TypeOK
<1> DEFINE up(i) == Up(cursor, i)
<1>2. /\ \A i \in DOMAIN ingress' : up(i) \in DOMAIN ingress /\ ingress'[i] = ingress[up(i)]
      /\ \A i, j \in DOMAIN ingress' : i < j <=> up(i) < up(j)
  BY <1>1, RemovedMap
<1>3. \A i \in DOMAIN ingress' : i < cursor => up(i) = i
  BY DEF Up
<1> HIDE DEF up
<1>4. \A i, j \in DOMAIN ingress' : i < j /\ ingress'[i].st = "fresh" => ingress'[j].st = "fresh"
  BY <1>2 DEF IndInv, ServedInOrder
<1>5. ASSUME NEW i \in DOMAIN ingress', stage = "ingress", i < cursor, ingress'[i].st = "sram"
      PROVE  grant'[ingress'[i].req.dst] = 0
  <2>1. i \in DOMAIN ingress /\ ingress'[i] = ingress[i]
    BY <1>2, <1>3, <1>5
  <2>2. grant[ingress[i].req.dst] = 0
    BY <1>5, <2>1 DEF IndInv, ServedInOrder
  <2>3. ingress[i].req.dst \in Targets
    BY <2>1, CursorLink DEF IndInv
  <2>4. QED
    BY <2>1, <2>2, <2>3
<1>6. QED
  BY <1>4, <1>5 DEF ServedInOrder

LEMMA ReadyInd ==
    ASSUME IndInv, TypeOK', Ready
    PROVE  IndInv'
<1> DEFINE e == ingress[cursor]
           a == [id |-> e.req.id, op |-> e.op, src |-> e.req.dst, dst |-> e.req.src, count |-> 1]
           x == CursorReq.id
           c == <<"ingress", 0>>
           d == <<"pending", 0>>
<1>1. cursor \in DOMAIN ingress /\ e \in Entry /\ e.req \in Request /\ e.st = "ready"
  BY AtCursor DEF Ready, IndInv
<1>2. UNCHANGED <<netVars, owed, age, grant, stage, cursor, ctaVars, waiters, applied, staleHits>>
      /\ pending' = Append(pending, a) /\ ingress' = RemoveAt(ingress, cursor)
  BY DEF Ready
<1>3. e.op # "none" /\ e.op \in {"none", "data", "mdone", "waitdone"} /\ e.req.cls \notin StoreLike
  BY <1>1 DEF EntriesKnown, Entry, IndInv
<1>4. e.req \in tx[e.req.src] /\ e.req.src \in Sms /\ LinkOf(e.req) \in Links
  BY <1>1, CursorLink DEF IndInv
<1>5. a.id = x /\ a.op # "ack" /\ <<a.dst, a.src>> = LinkOf(e.req)
  BY <1>3 DEF CursorReq, LinkOf
<1>6. a \in Response
  BY <1>1, <1>3, Bounds DEF Request, Response
<1> HIDE DEF a
<1>7. /\ Removed(ingress, cursor, ingress')
      /\ Once(Arrived') /\ Held'[c] = Held[c] \ {x} /\ x \in Held[c]
      /\ StoreOrder(Arrived') /\ EntriesKnown'
      /\ \A i \in DOMAIN Arrived' : \E j \in DOMAIN Arrived : j # cursor /\ Arrived'[i] = Arrived[j]
  BY <1>1, <1>2, EntryGone
<1>8. c \in Spots /\ d \in Spots /\ c # d
  BY DEF Spots
<1>9. x \notin Ids(pending) /\ x # 0
  <2>1. x \notin Held[d] /\ x \in 1..(nextTx - 1)
    BY <1>7, <1>8 DEF IndInv, EachOnce, Apart
  <2>2. QED
    BY <2>1, HeldIs
<1>10. /\ Once(pending') /\ Ids(pending') = Ids(pending) \cup {x}
       /\ \A i \in DOMAIN pending' : pending'[i] = a \/ (i \in DOMAIN pending /\ pending'[i] = pending[i])
  <2>1. pending \in Seq(Response) /\ Once(pending)
    BY DEF IndInv, TypeOK, EachOnce
  <2>2. /\ Once(pending') /\ Ids(pending') = Ids(pending) \cup ({a.id} \ {0})
        /\ \A i \in DOMAIN pending' : pending'[i] = a \/ (i \in DOMAIN pending /\ pending'[i] = pending[i])
    BY <1>2, <1>5, <1>6, <1>9, <2>1, AppendedIds
  <2>3. QED
    BY <1>5, <1>9, <2>2
<1>11. Held'[d] = Held[d] \cup {x}
  BY <1>10, HeldIs
<1>12. \A f \in Spots \ {c, d} : Held'[f] = Held[f]
  <2>1. \A m \in Links : /\ Held'[<<"request", m>>] = Held[<<"request", m>>]
                         /\ Held'[<<"response", m>>] = Held[<<"response", m>>]
    BY <1>2, HeldIs DEF netVars
  <2>2. Held'[<<"applied", 0>>] = Held[<<"applied", 0>>]
    BY <1>2, HeldIs
  <2>3. QED
    BY <2>1, <2>2, SpotCases
<1>13. Apart(Held', nextTx) /\ \A f \in Spots : \A y \in Held[f] : \E g \in Spots : y \in Held'[g]
  <2>1. Apart(Held, nextTx)
    BY DEF IndInv, EachOnce
  <2>2. QED
    BY <1>7, <1>8, <1>11, <1>12, <2>1, ApartMoved
<1>14. EachOnce'
  BY <1>2, <1>7, <1>10, <1>13 DEF IndInv, EachOnce, netVars
<1>15. NoneLost'
  BY <1>2, <1>13 DEF IndInv, NoneLost, netVars
<1>16. RequestsKnown' /\ StoresInOrder'
  BY <1>2, <1>7 DEF IndInv, RequestsKnown, StoresInOrder, netVars
<1>17. TxKnown' /\ StoresQueued' /\ DataStaysHome'
  BY <1>2 DEF IndInv, TxKnown, StoresQueued, DataStaysHome, netVars
<1>18. AnswersKnown'
  <2>1. Answerable(tx, x, LinkOf(e.req))
    <3>1. \A s \in Sms : \A r \in tx[s] : r.id = x => r = e.req
      BY <1>4 DEF IndInv, TxKnown, CursorReq
    <3>2. QED
      BY <1>3, <1>9, <3>1 DEF Answerable
  <2>2. \A i \in DOMAIN pending' :
           /\ pending'[i].op # "ack" /\ <<pending'[i].dst, pending'[i].src>> \in Links
           /\ Answerable(tx, pending'[i].id, <<pending'[i].dst, pending'[i].src>>)
    BY <1>4, <1>5, <1>10, <2>1 DEF IndInv, AnswersKnown
  <2>3. QED
    BY <1>2, <2>2 DEF IndInv, AnswersKnown, netVars
<1>19. ServedInOrder'
  BY <1>1, <1>2, <1>7, EntryGoneOrder
<1>20. AckDebtExact'
  BY <1>2, AckDebtSame DEF IndInv, netVars
<1>21. QED
  BY <1>7, <1>14, <1>15, <1>16, <1>17, <1>18, <1>19, <1>20 DEF IndInv

LEMMA KeepEntryInd ==
    ASSUME IndInv, TypeOK', KeepEntry
    PROVE  IndInv'
<1>1. UNCHANGED <<netVars, epVars, grant, stage, ctaVars, waiters, applied, staleHits>>
      /\ cursor' = cursor + 1 /\ ingress[cursor].st \in {"fresh", "hold"} /\ cursor \in Nat
  BY DEF KeepEntry, AtEntry, IndInv, TypeOK
<1>2. EachOnce'
  BY <1>1, EachOnceSame DEF IndInv, netVars, epVars
<1>3. TxKnown' /\ RequestsKnown' /\ EntriesKnown' /\ StoresQueued' /\ StoresInOrder' /\ DataStaysHome'
  BY <1>1 DEF IndInv, netVars, epVars, TxKnown, RequestsKnown, EntriesKnown, StoresQueued,
         StoresInOrder, DataStaysHome, Arrived
<1>4. AnswersKnown'
  BY <1>1, AnswersSame DEF IndInv, netVars, epVars
<1>5. NoneLost'
  BY <1>1, NoneLostSame DEF IndInv, netVars, epVars
<1>6. AckDebtExact'
  BY <1>1, AckDebtSame DEF IndInv, netVars, epVars
<1>7. ServedInOrder'
  <2>1. \A i \in DOMAIN ingress : i < cursor + 1 => i < cursor \/ i = cursor
    BY <1>1 DEF IndInv, TypeOK
  <2>2. QED
    BY <1>1, <2>1 DEF IndInv, epVars, ServedInOrder
<1>8. QED
  BY <1>2, <1>3, <1>4, <1>5, <1>6, <1>7 DEF IndInv

LEMMA StarveInd ==
    ASSUME IndInv, TypeOK', Starve
    PROVE  IndInv'
<1> DEFINE e == ingress[cursor]
           need == Bytes[e.req.cls] - e.got
           n == Takes(e.req.dst, need)
<1>1. cursor \in DOMAIN ingress /\ e \in Entry /\ e.req.dst \in Targets /\ need \in Nat
      /\ e.got \in Nat /\ Bytes[e.req.cls] \in Nat /\ e.st = "sram"
  BY AtCursor, CursorLink DEF Starve, IndInv
<1>2. n < need /\ ingress' = [ingress EXCEPT ![cursor].got = @ + n]
      /\ grant' = [grant EXCEPT ![e.req.dst] = @ - n] /\ cursor' = cursor + 1
      /\ UNCHANGED <<netVars, pending, owed, age, stage, ctaVars, waiters, applied, staleHits>>
  BY DEF Starve
<1>3. n \in 0..need /\ grant[e.req.dst] - n = 0 /\ grant[e.req.dst] \in Nat
  BY <1>1, <1>2, TakesFacts DEF IndInv
<1> HIDE DEF n
<1>4. ingress \in Seq(Entry) /\ ingress' \in Seq(Entry) /\ DOMAIN ingress' = DOMAIN ingress /\ cursor \in Nat
  BY <1>2 DEF IndInv, TypeOK
<1>5. /\ \A i \in DOMAIN ingress : i # cursor => ingress'[i] = ingress[i]
      /\ ingress'[cursor].req = e.req /\ ingress'[cursor].st = e.st /\ ingress'[cursor].op = e.op
      /\ ingress'[cursor].got = e.got + n
  BY <1>1, <1>2, <1>4 DEF Entry
<1>6. Arrived' = Arrived
  <2>1. \A i \in DOMAIN ingress : ingress'[i].req = ingress[i].req
    BY <1>5
  <2>2. QED
    BY <1>4, <2>1, SameReqs DEF Arrived
<1>7. RequestsSame /\ nextTx' = nextTx /\ nextTx \in Nat
  BY <1>2, <1>6, Bounds DEF RequestsSame, netVars, IndInv, TypeOK
<1>8. TxKnown' /\ RequestsKnown' /\ StoresQueued' /\ StoresInOrder' /\ DataStaysHome'
  BY <1>7, RequestsSameInd
<1>9. Held' = Held
  BY <1>2, <1>6 DEF Held, netVars
<1>10. EachOnce' /\ NoneLost'
  BY <1>2, <1>6, <1>9 DEF EachOnce, NoneLost, IndInv, netVars
<1>11. AnswersKnown'
  BY <1>2, AnswersSame DEF IndInv, netVars
<1>12. AckDebtExact'
  BY <1>2, AckDebtSame DEF IndInv, netVars
<1>13. EntriesKnown'
  <2>1. e.got + n < Bytes[e.req.cls]
    BY <1>1, <1>2, <1>3
  <2>2. /\ ingress'[cursor].got < Bytes[e.req.cls] /\ ingress'[cursor].got <= Bytes[e.req.cls]
        /\ ingress'[cursor].req.cls = e.req.cls /\ ingress'[cursor].st = "sram"
    BY <1>1, <1>3, <1>5, <2>1
  <2>3. ASSUME NEW i \in DOMAIN ingress'
        PROVE  /\ ingress'[i].st \in {"hold", "ready"} =>
                     ingress'[i].op # "none" /\ ingress'[i].req.cls \notin StoreLike
               /\ ingress'[i].got <= Bytes[ingress'[i].req.cls]
               /\ ingress'[i].req.cls \in StoreLike => ingress'[i].got < Bytes[ingress'[i].req.cls]
    <3>1. CASE i = cursor
      BY <2>2, <3>1
    <3>2. CASE i # cursor
      BY <1>4, <1>5, <3>2 DEF IndInv, EntriesKnown
    <3>3. QED
      BY <3>1, <3>2
  <2>4. QED
    BY <2>3 DEF EntriesKnown
<1>14. ServedInOrder'
  <2>1. \A i, j \in DOMAIN ingress' : i < j /\ ingress'[i].st = "fresh" => ingress'[j].st = "fresh"
    BY <1>1, <1>4, <1>5 DEF IndInv, ServedInOrder
  <2>2. \A t \in Targets : grant[t] = 0 => grant'[t] = 0
    BY <1>1, <1>2, <1>3 DEF IndInv, TypeOK
  <2>3. grant'[e.req.dst] = 0
    BY <1>1, <1>2, <1>3 DEF IndInv, TypeOK
  <2>4. ASSUME NEW i \in DOMAIN ingress', stage' = "ingress", i < cursor', ingress'[i].st = "sram"
        PROVE  grant'[ingress'[i].req.dst] = 0
    <3>1. CASE i = cursor
      BY <1>5, <2>3, <3>1
    <3>2. CASE i # cursor
      <4>1. i < cursor /\ ingress'[i] = ingress[i] /\ i \in DOMAIN ingress /\ stage = "ingress"
        BY <1>2, <1>4, <1>5, <2>4, <3>2
      <4>2. grant[ingress[i].req.dst] = 0
        BY <2>4, <4>1 DEF IndInv, ServedInOrder
      <4>3. ingress[i].req.dst \in Targets
        BY <4>1, CursorLink DEF IndInv
      <4>4. QED
        BY <2>2, <4>1, <4>2, <4>3
    <3>3. QED
      BY <3>1, <3>2
  <2>5. QED
    BY <2>1, <2>4 DEF ServedInOrder
<1>15. QED
  BY <1>8, <1>10, <1>11, <1>12, <1>13, <1>14 DEF IndInv

-----------------------------------------------------------------------------
(* Sending, acknowledging and completing. *)

LEMMA SendPendingInd ==
    ASSUME IndInv, TypeOK', SendPending
    PROVE  IndInv'
<1> DEFINE a == pending[cursor]
           l == <<a.dst, a.src>>
           x == a.id
           c == <<"pending", 0>>
           d == <<"response", l>>
<1>1. cursor \in DOMAIN pending /\ a \in Response /\ l \in Links /\ a.op # "ack" /\ Answerable(tx, x, l)
  <2>1. cursor \in 1..Len(pending) /\ DOMAIN pending = 1..Len(pending)
    BY DEF IndInv, TypeOK, SendPending
  <2>2. a \in Response
    BY <2>1 DEF IndInv, TypeOK
  <2>3. QED
    BY <2>1, <2>2 DEF IndInv, AnswersKnown
<1>2. UNCHANGED <<nextTx, tx, storeQ, reqs, ingress, owed, age, grant, stage, ctaVars,
                  waiters, applied, staleHits>> /\ stage = "send"
  BY DEF SendPending
<1>3. RequestsSame /\ nextTx \in Nat
  BY <1>2, Bounds DEF RequestsSame, Arrived, IndInv, TypeOK
<1>4. TxKnown' /\ RequestsKnown' /\ StoresQueued' /\ StoresInOrder' /\ DataStaysHome'
  BY <1>2, <1>3, RequestsSameInd
<1>5. EntriesKnown' /\ ServedInOrder'
  BY <1>2 DEF IndInv, EntriesKnown, ServedInOrder
<1>6. CASE rsps' = rsps /\ pending' = pending
  <2>1. EachOnce'
    BY <1>2, <1>6, EachOnceSame DEF IndInv
  <2>2. AnswersKnown'
    BY <1>2, <1>6, AnswersSame DEF IndInv
  <2>3. NoneLost'
    BY <1>2, <1>6, NoneLostSame DEF IndInv
  <2>4. AckDebtExact'
    BY <1>2, <1>6, AckDebtSame DEF IndInv
  <2>5. QED
    BY <1>4, <1>5, <2>1, <2>2, <2>3, <2>4 DEF IndInv
<1>7. CASE Sent(l, a) /\ pending' = RemoveAt(pending, cursor)
  <2>1. pending \in Seq(Response) /\ Once(pending) /\ Apart(Held, nextTx)
    BY DEF IndInv, TypeOK, EachOnce
  <2>2. pending' \in Seq(Response) /\ Removed(pending, cursor, pending')
    BY <1>1, <1>7, <2>1, RemoveAtFacts
  <2>3. Once(pending') /\ Ids(pending') = Ids(pending) \ {x}
    BY <2>1, <2>2, RemovedIds
  <2>4. \A i \in DOMAIN pending' : \E j \in DOMAIN pending : pending'[i] = pending[j]
    BY <2>1, <2>2, RemovedFrom
  <2>5. x # 0 /\ x \in Held[c]
    <3>1. x # 0
      BY <1>1 DEF Answerable
    <3>2. x \in Ids(pending)
      BY <1>1, <3>1 DEF Ids
    <3>3. QED
      BY <3>1, <3>2, HeldIs
  <2>6. c \in Spots /\ d \in Spots /\ c # d
    BY <1>1 DEF Spots
  <2>7. x \notin Ids(rsps[l])
    <3>1. x \notin Held[d]
      BY <2>1, <2>5, <2>6 DEF Apart
    <3>2. QED
      BY <1>1, <3>1, HeldIs
  <2>8. /\ \A m \in Links : Once(rsps'[m])
        /\ Held'[d] = Held[d] \cup ({x} \ {0})
        /\ \A m \in Links : m # l => Held'[<<"response", m>>] = Held[<<"response", m>>]
        /\ \A m \in Links : \A i \in DOMAIN rsps'[m] :
              (m = l /\ rsps'[m][i] = a) \/ (i \in DOMAIN rsps[m] /\ rsps'[m][i] = rsps[m][i])
    BY <1>1, <1>7, <2>7, SentFacts
  <2>9. Held'[c] = Held[c] \ {x} /\ Held'[d] = Held[d] \cup {x}
    BY <2>3, <2>5, <2>8, HeldIs
  <2>10. \A f \in Spots \ {c, d} : Held'[f] = Held[f]
    <3>1. \A m \in Links : Held'[<<"request", m>>] = Held[<<"request", m>>]
      BY <1>2, HeldIs
    <3>2. Held'[<<"ingress", 0>>] = Held[<<"ingress", 0>>] /\ Held'[<<"applied", 0>>] = Held[<<"applied", 0>>]
      BY <1>2, <1>3, HeldIs DEF RequestsSame
    <3>3. QED
      BY <2>8, <3>1, <3>2, SpotCases
  <2>11. Apart(Held', nextTx) /\ \A f \in Spots : \A y \in Held[f] : \E g \in Spots : y \in Held'[g]
    <3> HIDE DEF c, d, x
    <3>1. QED
      BY <2>1, <2>5, <2>6, <2>9, <2>10, ApartMoved
  <2>12. EachOnce'
    BY <1>2, <1>3, <2>3, <2>8, <2>11 DEF IndInv, EachOnce, RequestsSame
  <2>13. NoneLost'
    BY <1>2, <2>11 DEF IndInv, NoneLost
  <2>14. AnswersKnown'
    <3>1. \A m \in Links : \A i \in DOMAIN rsps'[m] :
            IF rsps'[m][i].op = "ack" THEN rsps'[m][i].id = 0 ELSE Answerable(tx, rsps'[m][i].id, m)
      BY <1>1, <2>8 DEF IndInv, AnswersKnown
    <3>2. \A i \in DOMAIN pending' :
             /\ pending'[i].op # "ack" /\ <<pending'[i].dst, pending'[i].src>> \in Links
             /\ Answerable(tx, pending'[i].id, <<pending'[i].dst, pending'[i].src>>)
      BY <2>4 DEF IndInv, AnswersKnown
    <3>3. QED
      BY <1>2, <3>1, <3>2 DEF IndInv, AnswersKnown
  <2>15. AckDebtExact'
    BY <1>1, <1>2, <1>7, SentDebt
  <2>16. QED
    BY <1>4, <1>5, <2>12, <2>13, <2>14, <2>15 DEF IndInv
<1>8. QED
  BY <1>6, <1>7 DEF SendPending, Sent, Unsent

LEMMA FlushAcksInd ==
    ASSUME IndInv, TypeOK', NEW flush, Flushable(flush), FlushAcks(flush)
    PROVE  IndInv'
<1>1. UNCHANGED <<nextTx, tx, storeQ, reqs, pending, ctaVars, waiters, applied, staleHits>>
      /\ stage' = "core"
      /\ ingress' = [i \in DOMAIN ingress |-> [ingress[i] EXCEPT !.st = NextState(@)]]
      /\ owed' = [l \in Links |-> IF l \in flush THEN 0 ELSE owed[l]]
  BY DEF FlushAcks, OwedAfterFlush
<1>2. ASSUME NEW l \in Links
      PROVE  rsps'[l] = IF l \in flush THEN Append(rsps[l], AckOf(l)) ELSE rsps[l]
  BY DEF FlushAcks, AckOf
<1>3. \A l \in Links : AckOf(l).id = 0 /\ AckOf(l).op = "ack" /\ AckOf(l).count = owed[l] /\ AckOf(l) \in Response
  BY LinkFacts, Bounds DEF AckOf, Response, IndInv, TypeOK
<1>4. ingress \in Seq(Entry) /\ ingress' \in Seq(Entry) /\ DOMAIN ingress' = DOMAIN ingress
  BY <1>1 DEF IndInv, TypeOK
<1>5. \A i \in DOMAIN ingress : /\ ingress'[i].req = ingress[i].req /\ ingress'[i].op = ingress[i].op
                                /\ ingress'[i].got = ingress[i].got
                                /\ ingress'[i].st = NextState(ingress[i].st)
                                /\ ingress[i].st \in {"fresh", "sram", "hold", "ready"}
  <2>1. \A i \in DOMAIN ingress : ingress[i] \in Entry
    BY DEF IndInv, TypeOK
  <2>2. QED
    BY <1>1, <2>1 DEF Entry
<1>6. Arrived' = Arrived
  BY <1>4, <1>5, SameReqs DEF Arrived
<1>7. RequestsSame /\ nextTx \in Nat
  BY <1>1, <1>6, Bounds DEF RequestsSame, IndInv, TypeOK
<1>8. TxKnown' /\ RequestsKnown' /\ StoresQueued' /\ StoresInOrder' /\ DataStaysHome'
  BY <1>1, <1>7, RequestsSameInd
<1>9. EntriesKnown'
  BY <1>4, <1>5 DEF IndInv, EntriesKnown, NextState
<1>10. ServedInOrder'
  <2>1. \A i \in DOMAIN ingress' : ingress'[i].st # "fresh"
    BY <1>4, <1>5 DEF NextState
  <2>2. QED
    BY <1>1, <2>1 DEF ServedInOrder
<1>11. ASSUME NEW l \in Links
       PROVE  /\ Once(rsps'[l]) /\ Ids(rsps'[l]) = Ids(rsps[l])
              /\ \A i \in DOMAIN rsps'[l] :
                    rsps'[l][i] = AckOf(l) \/ (i \in DOMAIN rsps[l] /\ rsps'[l][i] = rsps[l][i])
  <2>1. rsps[l] \in Seq(Response) /\ Once(rsps[l])
    BY DEF IndInv, TypeOK, EachOnce
  <2>2. CASE l \notin flush
    BY <1>2, <2>1, <2>2
  <2>3. CASE l \in flush
    <3>1. rsps'[l] = Append(rsps[l], AckOf(l))
      BY <1>2, <2>3
    <3>2. AckOf(l).id \notin Ids(rsps[l]) /\ {AckOf(l).id} \ {0} = {}
      BY <1>3 DEF Ids
    <3>3. AckOf(l) \in Response
      BY <1>3
    <3>4. /\ Once(rsps'[l]) /\ Ids(rsps'[l]) = Ids(rsps[l]) \cup ({AckOf(l).id} \ {0})
          /\ \A i \in DOMAIN rsps'[l] :
                rsps'[l][i] = AckOf(l) \/ (i \in DOMAIN rsps[l] /\ rsps'[l][i] = rsps[l][i])
      BY <2>1, <3>1, <3>2, <3>3, AppendedIds
    <3>5. QED
      BY <3>2, <3>4
  <2>4. QED
    BY <2>2, <2>3
<1>12. Held' = Held
  <2>1. \A f \in Spots : Held'[f] = Held[f]
    <3>1. \A m \in Links : /\ Held'[<<"request", m>>] = Held[<<"request", m>>]
                           /\ Held'[<<"response", m>>] = Held[<<"response", m>>]
      BY <1>1, <1>11, HeldIs
    <3>2. /\ Held'[<<"ingress", 0>>] = Held[<<"ingress", 0>>] /\ Held'[<<"applied", 0>>] = Held[<<"applied", 0>>]
          /\ Held'[<<"pending", 0>>] = Held[<<"pending", 0>>]
      BY <1>1, <1>6, HeldIs
    <3>3. QED
      BY <3>1, <3>2, SpotCases
  <2>2. QED
    BY <2>1 DEF Held
<1>13. EachOnce' /\ NoneLost'
  BY <1>1, <1>6, <1>11, <1>12 DEF IndInv, EachOnce, NoneLost
<1>14. AnswersKnown'
  <2>1. \A m \in Links : \A i \in DOMAIN rsps'[m] :
          IF rsps'[m][i].op = "ack" THEN rsps'[m][i].id = 0 ELSE Answerable(tx, rsps'[m][i].id, m)
    BY <1>3, <1>11 DEF IndInv, AnswersKnown
  <2>2. QED
    BY <1>1, <2>1 DEF IndInv, AnswersKnown
<1>15. AckDebtExact'
  <2>1. \A m \in Links : Debt(storeQ[m], rsps[m], owed[m], applied)
    BY DebtIs DEF IndInv
  <2>2. ASSUME NEW m \in Links
        PROVE  Debt(storeQ[m], rsps'[m], owed'[m], applied)
    <3>1. rsps[m] \in Seq(Response) /\ owed[m] \in Nat /\ storeQ[m] \in Seq(Nat) /\ AckOf(m) \in Response
      BY <1>3, StoreQNat DEF IndInv, TypeOK
    <3>2. CASE m \in flush
      <4>1. rsps'[m] = Append(rsps[m], AckOf(m)) /\ owed'[m] = 0 /\ 0 \in Nat
        BY <1>1, <1>2, <3>2
      <4>2. IF AckOf(m).op = "ack" THEN AckOf(m).count = owed[m] /\ owed'[m] = 0 ELSE owed'[m] = owed[m]
        BY <1>3, <4>1
      <4>3. QED
        BY <2>1, <3>1, <4>1, <4>2, DebtSend
    <3>3. CASE m \notin flush
      BY <1>1, <1>2, <2>1, <3>3
    <3>4. QED
      BY <3>2, <3>3
  <2>3. QED
    BY <1>1, <2>2, DebtIsNext
<1>16. QED
  BY <1>8, <1>9, <1>10, <1>13, <1>14, <1>15 DEF IndInv

\* The transactions a response completes, and how many of them are stores.
Acked(l) == IF rsps[l][1].op = "ack" THEN rsps[l][1].count ELSE 0
Done(l) == IF rsps[l][1].op = "ack" THEN {storeQ[l][i] : i \in 1..Acked(l)} ELSE {rsps[l][1].id}

LEMMA TakeResponseFacts ==
    ASSUME IndInv, NEW l \in Links, TakeResponse(l)
    PROVE  /\ Acked(l) \in 0..Len(storeQ[l])
           /\ tx' = [tx EXCEPT ![l[1]] = {r \in @ : r.id \notin Done(l)}]
           /\ storeQ' = [storeQ EXCEPT ![l] = SubSeq(@, Acked(l) + 1, Len(@))]
           /\ \A i \in 1..Acked(l) : storeQ[l][i] \in applied
           /\ \A m \in Links : Debt(storeQ'[m], rsps'[m], owed[m], applied)
<1> DEFINE a == rsps[l][1]
           c == Acked(l)
           q == storeQ[l]
<1>1. rsps[l] \in Seq(Response) /\ rsps[l] # <<>> /\ q \in Seq(Nat) /\ owed[l] \in Nat /\ Len(q) \in Nat
      /\ storeQ[l] \in Seq(1..MaxTx)
  BY StoreQNat, SMTT(60) DEF TakeResponse, IndInv, TypeOK
<1>2. a = Head(rsps[l]) /\ a \in Response
  BY <1>1
<1>3. \A m \in Links : Debt(storeQ[m], rsps[m], owed[m], applied)
  BY DebtIs DEF IndInv
<1>4. /\ c \in 0..Len(q) /\ \A i \in 1..c : q[i] \in applied
      /\ Debt(SubSeq(q, c + 1, Len(q)), Tail(rsps[l]), owed[l], applied)
  BY <1>1, <1>3, DebtDeliver DEF Acked
<1>5. a.op = "ack" => Completed(l, a) = SubSeq(q, 1, c)
  BY <1>1, <1>2, <1>4 DEF Completed, Acked
<1>6. Len(SubSeq(q, 1, c)) = c /\ ToSet(SubSeq(q, 1, c)) = {q[i] : i \in 1..c}
  <2>1. /\ Len(SubSeq(q, 1, c)) = c /\ DOMAIN SubSeq(q, 1, c) = 1..c
        /\ \A i \in 1..c : SubSeq(q, 1, c)[i] = q[i]
    <3> HIDE DEF c, q
    <3>1. QED
      BY <1>1, <1>4
  <2>2. QED
    BY <2>1 DEF ToSet
<1>7. tx' = [tx EXCEPT ![l[1]] = {r \in @ : r.id \notin Done(l)}]
  <2>1. (IF a.op = "ack" THEN ToSet(Completed(l, a)) ELSE {a.id}) = Done(l)
    BY <1>5, <1>6 DEF Done
  <2>2. tx' = [tx EXCEPT ![l[1]] =
                 {r \in @ : r.id \notin (IF a.op = "ack" THEN ToSet(Completed(l, a)) ELSE {a.id})}]
    BY <1>2 DEF TakeResponse
  <2>3. QED
    BY <2>1, <2>2
<1>8. storeQ' = [storeQ EXCEPT ![l] = SubSeq(@, c + 1, Len(@))]
  <2>1. CASE a.op = "ack"
    BY <1>2, <1>5, <1>6, <2>1 DEF TakeResponse
  <2>2. CASE a.op # "ack"
    <3>1. c = 0 /\ storeQ' = storeQ
      BY <1>2, <2>2 DEF Acked, TakeResponse
    <3>2. SubSeq(q, 0 + 1, Len(q)) = q
      BY <1>1
    <3>3. storeQ = [storeQ EXCEPT ![l] = q]
      BY DEF IndInv, TypeOK
    <3>4. QED
      BY <3>1, <3>2, <3>3
  <2>3. QED
    BY <2>1, <2>2
<1>9. ASSUME NEW m \in Links
      PROVE  Debt(storeQ'[m], rsps'[m], owed[m], applied)
  <2>1. rsps' = [rsps EXCEPT ![l] = Tail(@)]
    BY DEF TakeResponse
  <2>2. CASE m = l
    <3>1. storeQ'[l] = SubSeq(q, c + 1, Len(q)) /\ rsps'[l] = Tail(rsps[l])
      BY <1>8, <2>1 DEF IndInv, TypeOK
    <3>2. QED
      BY <1>4, <2>2, <3>1
  <2>3. CASE m # l
    <3>1. storeQ'[m] = storeQ[m] /\ rsps'[m] = rsps[m]
      BY <1>8, <2>1, <2>3 DEF IndInv, TypeOK
    <3>2. QED
      BY <1>3, <3>1
  <2>4. QED
    BY <2>2, <2>3
<1>10. QED
  BY <1>4, <1>7, <1>8, <1>9

\* What is completed is not under way any more, and its stores are the first of the queue.
LEMMA DoneFacts ==
    ASSUME IndInv, NEW l \in Links, TakeResponse(l)
    PROVE  /\ \A m \in Links : \A i \in DOMAIN reqs[m] : reqs[m][i].id \notin Done(l)
           /\ \A i \in DOMAIN Arrived : Arrived[i].id \notin Done(l)
           /\ \A s \in Sms : \A r \in tx[s] : r.cls \in StoreLike =>
                 (r.id \in Done(l) <=> \E i \in 1..Acked(l) : storeQ[l][i] = r.id)
           /\ \A c \in Spots : (rsps[l][1].op = "ack" => c # <<"applied", 0>>) =>
                 Held[c] \cap Done(l) \subseteq (IF c = <<"response", l>> THEN {rsps[l][1].id} ELSE {})
<1> DEFINE a == rsps[l][1]
<1>1. rsps[l] \in Seq(Response) /\ rsps[l] # <<>> /\ 1 \in DOMAIN rsps[l]
  <2>1. rsps[l] \in Seq(Response) /\ rsps[l] # <<>>
    BY DEF TakeResponse, IndInv, TypeOK
  <2>2. QED
    BY <2>1, TailFacts
<1>2. IF a.op = "ack" THEN a.id = 0 ELSE Answerable(tx, a.id, l)
  BY <1>1 DEF IndInv, AnswersKnown
<1>3. a.op = "ack" => Done(l) \subseteq Held[<<"applied", 0>>]
  <2>1. \A i \in 1..Acked(l) : storeQ[l][i] \in applied
    BY TakeResponseFacts
  <2>2. a.op = "ack" => Done(l) \subseteq applied
    BY <2>1 DEF Done
  <2>3. QED
    BY <2>2, HeldIs
<1>4. a.op # "ack" => Done(l) = {a.id} /\ a.id \in Held[<<"response", l>>]
  <2>1. ASSUME a.op # "ack"
        PROVE  a.id \in Ids(rsps[l])
    BY <1>1, <1>2, <2>1 DEF Ids, Answerable
  <2>2. QED
    BY <2>1, HeldIs DEF Done
<1>5. /\ \A m \in Links : <<"request", m>> \in Spots /\ <<"response", m>> \in Spots
      /\ <<"ingress", 0>> \in Spots /\ <<"applied", 0>> \in Spots
  BY DEF Spots
<1>6. Apart(Held, nextTx)
  BY DEF IndInv, EachOnce
<1>7. ASSUME NEW c \in Spots, a.op = "ack" => c # <<"applied", 0>>, NEW y \in Held[c], y \in Done(l)
      PROVE  c = <<"response", l>> /\ y = a.id
  <2>1. CASE a.op = "ack"
    BY <1>3, <1>5, <1>6, <1>7, <2>1 DEF Apart
  <2>2. CASE a.op # "ack"
    BY <1>4, <1>5, <1>6, <1>7, <2>2 DEF Apart
  <2>3. QED
    BY <2>1, <2>2
<1>8. ASSUME NEW m \in Links, NEW i \in DOMAIN reqs[m]
      PROVE  reqs[m][i].id \notin Done(l)
  <2>1. reqs[m][i].id # 0
    BY <1>8, TxTyped, LinkFacts DEF IndInv, RequestsKnown
  <2>2. reqs[m][i].id \in Held[<<"request", m>>]
    <3>1. reqs[m][i].id \in Ids(reqs[m])
      BY <1>8, <2>1 DEF Ids
    <3>2. QED
      BY <3>1, HeldIs
  <2>3. <<"request", m>> # <<"response", l>> /\ <<"request", m>> # <<"applied", 0>>
    OBVIOUS
  <2>4. QED
    BY <1>5, <1>7, <2>2, <2>3
<1>9. ASSUME NEW i \in DOMAIN Arrived
      PROVE  Arrived[i].id \notin Done(l)
  <2>1. Arrived[i].id # 0
    <3>1. i \in DOMAIN ingress /\ Arrived[i] = ingress[i].req
      BY <1>9, ReqsOfFacts DEF IndInv, TypeOK, Arrived
    <3>2. QED
      BY <3>1, CursorLink, TxTyped DEF IndInv
  <2>2. Arrived[i].id \in Held[<<"ingress", 0>>]
    BY <1>9, <2>1, HeldIs DEF Ids
  <2>3. <<"ingress", 0>> # <<"response", l>> /\ <<"ingress", 0>> # <<"applied", 0>>
    OBVIOUS
  <2>4. QED
    BY <1>5, <1>7, <2>2, <2>3
<1>10. ASSUME NEW s \in Sms, NEW r \in tx[s], r.cls \in StoreLike
       PROVE  r.id \in Done(l) <=> \E i \in 1..Acked(l) : storeQ[l][i] = r.id
  <2>1. CASE a.op = "ack"
    BY <2>1 DEF Done
  <2>2. CASE a.op # "ack"
    <3>1. Done(l) = {a.id} /\ Acked(l) = 0 /\ a.id # r.id
      BY <1>2, <1>10, <2>2 DEF Done, Acked, Answerable
    <3>2. QED
      BY <3>1
  <2>3. QED
    BY <2>1, <2>2
<1>11. QED
  BY <1>7, <1>8, <1>9, <1>10

LEMMA TakeResponseInd ==
    ASSUME IndInv, TypeOK', NEW l \in Links, TakeResponse(l)
    PROVE  IndInv'
<1> DEFINE a == rsps[l][1]
           c == Acked(l)
           d == <<"response", l>>
<1>1. /\ c \in 0..Len(storeQ[l])
      /\ tx' = [tx EXCEPT ![l[1]] = {r \in @ : r.id \notin Done(l)}]
      /\ storeQ' = [storeQ EXCEPT ![l] = SubSeq(@, c + 1, Len(@))]
      /\ \A i \in 1..c : storeQ[l][i] \in applied
      /\ \A m \in Links : Debt(storeQ'[m], rsps'[m], owed[m], applied)
  BY TakeResponseFacts
<1>2. /\ \A m \in Links : \A i \in DOMAIN reqs[m] : reqs[m][i].id \notin Done(l)
      /\ \A i \in DOMAIN Arrived : Arrived[i].id \notin Done(l)
      /\ \A s \in Sms : \A r \in tx[s] : r.cls \in StoreLike =>
            (r.id \in Done(l) <=> \E i \in 1..c : storeQ[l][i] = r.id)
      /\ \A f \in Spots : (a.op = "ack" => f # <<"applied", 0>>) =>
            Held[f] \cap Done(l) \subseteq (IF f = d THEN {a.id} ELSE {})
  BY DoneFacts
<1>3. UNCHANGED <<nextTx, reqs, epVars, grant, stage, cursor, ctaVars, waiters, applied, staleHits>>
      /\ rsps' = [rsps EXCEPT ![l] = Tail(@)]
  BY DEF TakeResponse
<1>4. UNCHANGED <<ingress, pending, owed>> /\ Arrived' = Arrived
  BY <1>3 DEF epVars, Arrived
<1>5. /\ \A s \in Sms : tx'[s] \subseteq tx[s]
      /\ \A s \in Sms : \A r \in tx[s] : r.id \notin Done(l) => r \in tx'[s]
      /\ \A r \in tx'[l[1]] : r.id \notin Done(l)
  BY <1>1, LinkFacts DEF IndInv, TypeOK
<1>6. TxKnown'
  BY <1>3, <1>5, TxKnownSame DEF IndInv, TypeOK
<1>7. rsps[l] \in Seq(Response) /\ rsps'[l] \in Seq(Response) /\ rsps[l] # <<>> /\ rsps'[l] = Tail(rsps[l])
      /\ \A m \in Links : m # l => rsps'[m] = rsps[m]
  BY <1>3 DEF TakeResponse, IndInv, TypeOK
<1>8. Removed(rsps[l], 1, rsps'[l])
  BY <1>7, TailFacts
<1>9. Once(rsps'[l]) /\ Ids(rsps'[l]) = Ids(rsps[l]) \ {a.id}
  <2>1. Once(rsps[l])
    BY DEF IndInv, EachOnce
  <2> DEFINE q == rsps[l]
             r == rsps'[l]
  <2>2. q \in Seq(Response) /\ r \in Seq(Response) /\ Removed(q, 1, r) /\ Once(q)
    BY <1>7, <1>8, <2>1
  <2> HIDE DEF q, r
  <2>3. Once(r) /\ Ids(r) = Ids(q) \ {q[1].id}
    BY <2>2, RemovedIds
  <2>4. QED
    BY <2>3 DEF q, r
<1>10. Held'[d] = Held[d] \ {a.id}
  BY <1>9, HeldIs
<1>11. ASSUME NEW f \in Spots \ {d}
       PROVE  Held'[f] = Held[f]
  <2>1. ASSUME NEW m \in Links, m # l
        PROVE  Held'[<<"response", m>>] = Held[<<"response", m>>]
    <3>1. Held'[<<"response", m>>] = Ids(rsps'[m]) /\ Held[<<"response", m>>] = Ids(rsps[m])
      BY HeldIs
    <3>2. QED
      BY <1>7, <2>1, <3>1
  <2>2. \A m \in Links : Held'[<<"request", m>>] = Held[<<"request", m>>]
    BY <1>3, HeldIs
  <2>3. /\ Held'[<<"pending", 0>>] = Held[<<"pending", 0>>] /\ Held'[<<"applied", 0>>] = Held[<<"applied", 0>>]
        /\ Held'[<<"ingress", 0>>] = Held[<<"ingress", 0>>]
    BY <1>3, <1>4, HeldIs
  <2>4. QED
    BY <2>1, <2>2, <2>3, SpotCases
<1>12. EachOnce'
  <2>1. nextTx \in Nat /\ Apart(Held, nextTx) /\ nextTx <= nextTx
    BY Bounds DEF IndInv, TypeOK, EachOnce
  <2>2. \A f \in Spots : Held'[f] \subseteq Held[f]
    BY <1>10, <1>11
  <2>3. Apart(Held', nextTx)
    BY <2>1, <2>2, ApartLess
  <2>4. QED
    BY <1>3, <1>4, <1>7, <1>9, <2>3 DEF IndInv, EachOnce
<1>13. RequestsKnown'
  <2>1. \A m \in Links : \A i \in DOMAIN reqs[m] : reqs[m][i] \in tx'[m[1]] /\ LinkOf(reqs[m][i]) = m
    BY <1>2, <1>5, LinkFacts DEF IndInv, RequestsKnown
  <2>2. \A i \in DOMAIN Arrived : Arrived[i] \in tx'[Arrived[i].src]
    <3>1. \A i \in DOMAIN Arrived : Arrived[i] \in Request
      BY ReqsOfFacts DEF IndInv, TypeOK, Arrived
    <3>2. QED
      BY <1>2, <1>5, <3>1 DEF IndInv, RequestsKnown, Request
  <2>3. QED
    BY <1>3, <1>4, <2>1, <2>2 DEF RequestsKnown
<1>14. AnswersKnown'
  <2>1. \A i \in DOMAIN rsps'[l] : \E j \in DOMAIN rsps[l] : rsps'[l][i] = rsps[l][j]
    BY <1>7, <1>8, RemovedFrom
  <2>2. \A m \in Links : \A i \in DOMAIN rsps'[m] : \E j \in DOMAIN rsps[m] : rsps'[m][i] = rsps[m][j]
    BY <1>7, <2>1
  <2>3. \A m \in Links : \A i \in DOMAIN rsps'[m] :
          IF rsps'[m][i].op = "ack" THEN rsps'[m][i].id = 0 ELSE Answerable(tx', rsps'[m][i].id, m)
    BY <1>5, <2>2, AnswerableSame DEF IndInv, AnswersKnown
  <2>4. \A i \in DOMAIN pending :
           /\ pending[i].op # "ack" /\ <<pending[i].dst, pending[i].src>> \in Links
           /\ Answerable(tx', pending[i].id, <<pending[i].dst, pending[i].src>>)
    BY <1>5, AnswerableSame DEF IndInv, AnswersKnown
  <2>5. \A s \in Sms : \A r \in tx'[s] : r.id \in applied => r.cls \in StoreLike
    BY <1>5 DEF IndInv, AnswersKnown
  <2>6. QED
    BY <1>3, <1>4, <2>3, <2>4, <2>5 DEF AnswersKnown
<1>15. NoneLost'
  <2> SUFFICES ASSUME NEW s \in Sms, NEW r \in tx'[s]
               PROVE  \E f \in Spots : r.id \in Held'[f]
    BY DEF NoneLost
  <2>1. PICK f \in Spots : r.id \in Held[f]
    BY <1>5 DEF IndInv, NoneLost
  <2>2. CASE f # d
    BY <1>11, <2>1, <2>2
  <2>3. CASE f = d
    <3>1. r.id # a.id
      <4>1. CASE a.op = "ack"
        <5>1. a.id = 0
          <6>1. 1 \in DOMAIN rsps[l]
            BY <1>7, TailFacts
          <6>2. QED
            BY <4>1, <6>1 DEF IndInv, AnswersKnown
        <5>2. r.id # 0
          BY <1>5, TxTyped DEF IndInv
        <5>3. QED
          BY <5>1, <5>2
      <4>2. CASE a.op # "ack"
        <5>1. Done(l) = {a.id} /\ 1 \in DOMAIN rsps[l] /\ Answerable(tx, a.id, l)
          <6>1. 1 \in DOMAIN rsps[l]
            BY <1>7, TailFacts
          <6>2. QED
            BY <4>2, <6>1 DEF Done, IndInv, AnswersKnown
        <5>2. r \in tx[s] /\ r.src = s
          BY <1>5 DEF IndInv, TxKnown
        <5>3. CASE r.id = a.id
          <6>1. LinkOf(r) = l
            BY <5>1, <5>2, <5>3 DEF Answerable
          <6>2. s = l[1]
            BY <5>2, <6>1 DEF LinkOf
          <6>3. QED
            BY <1>5, <5>1, <5>3, <6>2
        <5>4. QED
          BY <5>3
      <4>3. QED
        BY <4>1, <4>2
    <3>2. QED
      BY <1>10, <2>1, <2>3, <3>1
  <2>4. QED
    BY <2>2, <2>3
<1>16. StoresQueued'
  <2> DEFINE q == storeQ[l]
             p == storeQ'[l]
  <2>1. q \in Seq(Nat) /\ p = SubSeq(q, c + 1, Len(q)) /\ \A m \in Links : m # l => storeQ'[m] = storeQ[m]
    BY <1>1, StoreQNat DEF IndInv, TypeOK
  <2>2. /\ \A m \in Links : \A i \in DOMAIN storeQ[m] :
              \E r \in tx[m[1]] : r.id = storeQ[m][i] /\ LinkOf(r) = m /\ r.cls \in StoreLike
        /\ \A m \in Links : \A i, j \in DOMAIN storeQ[m] : i < j => storeQ[m][i] < storeQ[m][j]
        /\ \A s \in Sms : \A r \in tx[s] :
              r.cls \in StoreLike => \E i \in DOMAIN storeQ[LinkOf(r)] : storeQ[LinkOf(r)][i] = r.id
    BY DEF IndInv, StoresQueued
  <2>3. c \in 0..Len(q) /\ Len(q) \in Nat /\ DOMAIN q = 1..Len(q)
    BY <1>1, <2>1
  <2>4. DOMAIN p = 1..(Len(q) - c) /\ \A i \in 1..(Len(q) - c) : p[i] = q[i + c]
    <3> HIDE DEF q, p, c
    <3>1. p \in Seq(Nat) /\ Len(p) = Len(q) - c /\ \A i \in 1..(Len(q) - c) : p[i] = q[i + c]
      BY <2>1, <2>3, SuffixFacts
    <3>2. QED
      BY <3>1
  <2> HIDE DEF c
  <2>5. \A i \in DOMAIN p : i + c \in DOMAIN q /\ p[i] = q[i + c]
    BY <2>3, <2>4
  <2>6. \A i \in DOMAIN q : q[i] \in Nat
    BY <2>1
  <2>7. ASSUME NEW m \in Links, NEW i \in DOMAIN storeQ'[m]
        PROVE  \E r \in tx'[m[1]] : r.id = storeQ'[m][i] /\ LinkOf(r) = m /\ r.cls \in StoreLike
    <3>1. CASE m = l
      <4>1. i + c \in DOMAIN q /\ storeQ'[m][i] = q[i + c] /\ i \in DOMAIN p
        BY <2>5, <2>7, <3>1
      <4>2. PICK r \in tx[l[1]] : r.id = q[i + c] /\ LinkOf(r) = l /\ r.cls \in StoreLike
        BY <2>2, <4>1
      <4>3. \A j \in 1..c : q[j] # q[i + c]
        <5>1. \A j \in 1..c : j \in DOMAIN q /\ j < i + c
          BY <2>3, <2>4, <4>1
        <5>2. \A j \in 1..c : q[j] < q[i + c]
          BY <2>2, <4>1, <5>1
        <5>3. QED
          BY <2>6, <4>1, <5>1, <5>2
      <4>4. r.id \notin Done(l)
        BY <1>2, <4>2, <4>3, LinkFacts
      <4>5. r \in tx'[l[1]]
        BY <1>5, <4>2, <4>4, LinkFacts
      <4>6. QED
        BY <3>1, <4>1, <4>2, <4>5
    <3>2. CASE m # l
      <4>1. PICK r \in tx[m[1]] : r.id = storeQ[m][i] /\ LinkOf(r) = m /\ r.cls \in StoreLike
        BY <2>1, <2>2, <2>7, <3>2
      <4>2. r.id \notin Done(l)
        <5> SUFFICES ASSUME r.id \in Done(l) PROVE FALSE
          OBVIOUS
        <5>1. PICK j \in 1..c : storeQ[l][j] = r.id
          BY <1>2, <4>1, LinkFacts
        <5>2. PICK b \in tx[l[1]] : b.id = q[j] /\ LinkOf(b) = l
          BY <2>2, <2>3, <5>1
        <5>3. b = r
          BY <4>1, <5>1, <5>2, LinkFacts DEF IndInv, TxKnown
        <5>4. QED
          BY <3>2, <4>1, <5>2, <5>3
      <4>3. r \in tx'[m[1]]
        BY <1>5, <4>1, <4>2, LinkFacts
      <4>4. QED
        BY <2>1, <3>2, <4>1, <4>3
    <3>3. QED
      BY <3>1, <3>2
  <2>8. \A i, j \in DOMAIN p : i < j => p[i] < p[j]
    <3> SUFFICES ASSUME NEW i \in DOMAIN p, NEW j \in DOMAIN p, i < j PROVE p[i] < p[j]
      OBVIOUS
    <3>1. i + c < j + c
      BY <2>3, <2>4
    <3>2. QED
      BY <2>2, <2>5, <3>1
  <2>9. \A m \in Links : \A i, j \in DOMAIN storeQ'[m] : i < j => storeQ'[m][i] < storeQ'[m][j]
    BY <2>1, <2>2, <2>8
  <2>10. ASSUME NEW s \in Sms, NEW r \in tx'[s], r.cls \in StoreLike
         PROVE  \E i \in DOMAIN storeQ'[LinkOf(r)] : storeQ'[LinkOf(r)][i] = r.id
    <3>1. r \in tx[s]
      BY <1>5
    <3>2. LinkOf(r) \in Links /\ r.src = s
      BY <3>1 DEF IndInv, TxKnown
    <3>3. PICK i \in DOMAIN storeQ[LinkOf(r)] : storeQ[LinkOf(r)][i] = r.id
      BY <2>2, <2>10, <3>1
    <3>4. CASE LinkOf(r) # l
      BY <2>1, <3>2, <3>3, <3>4
    <3>5. CASE LinkOf(r) = l
      <4>1. s = l[1]
        BY <3>2, <3>5 DEF LinkOf
      <4>2. i \notin 1..c
        BY <1>2, <1>5, <2>10, <3>1, <3>3, <3>5, <4>1
      <4>3. i - c \in DOMAIN p /\ (i - c) + c = i
        BY <2>3, <2>4, <3>3, <3>5, <4>2
      <4>4. p[i - c] = r.id
        BY <2>5, <3>3, <3>5, <4>3
      <4>5. QED
        BY <3>5, <4>3, <4>4
    <3>6. QED
      BY <3>4, <3>5
  <2>11. QED
    BY <2>7, <2>9, <2>10 DEF StoresQueued
<1>17. StoresInOrder' /\ EntriesKnown' /\ ServedInOrder' /\ DataStaysHome'
  BY <1>3, <1>4 DEF IndInv, StoresInOrder, EntriesKnown, ServedInOrder, DataStaysHome
<1>18. AckDebtExact'
  BY <1>1, <1>3, <1>4, DebtIsNext
<1>19. QED
  BY <1>6, <1>12, <1>13, <1>14, <1>15, <1>16, <1>17, <1>18 DEF IndInv

-----------------------------------------------------------------------------
(* Service. *)

LEMMA ServeFacts ==
    ASSUME IndInv, ServeAny
    PROVE  /\ cursor \in DOMAIN ingress /\ ingress[cursor] \in Entry /\ ingress[cursor].st = "sram"
           /\ stage = "ingress" /\ cursor \in DOMAIN Arrived /\ Arrived[cursor] = CursorReq
           /\ CursorReq \in tx[CursorReq.src] /\ CursorReq.src \in Sms /\ CursorReq.dst \in Targets
           /\ LinkOf(CursorReq) \in Links /\ CursorReq \in Request /\ CursorReq.id # 0
           /\ Bytes[CursorReq.cls] \in Nat /\ CursorNeed \in Nat
           /\ CursorReq.cls \in StoreLike => CursorNeed > 0
           /\ CursorNeed <= grant[CursorReq.dst]
           /\ \A t \in Targets : grant[t] = 0 => grant'[t] = 0
           /\ DataStaysHome'
           /\ UNCHANGED <<nextTx, storeQ, reqs, rsps, pending, stage, ctaVars>>
<1>1. cursor \in DOMAIN ingress /\ ingress[cursor] \in Entry /\ ingress[cursor].st = "sram"
      /\ Bytes[CursorReq.cls] \in Nat /\ ingress[cursor].got \in Nat
      /\ ingress[cursor].got <= Bytes[CursorReq.cls] /\ stage = "ingress"
  BY AtCursor DEF ServeAny, IndInv, CursorReq
<1>2. CursorReq \in tx[CursorReq.src] /\ CursorReq.src \in Sms /\ CursorReq.dst \in Targets
      /\ LinkOf(CursorReq) \in Links /\ CursorReq \in Request
  BY <1>1, CursorLink DEF IndInv, CursorReq
<1>3. CursorReq.id # 0
  BY <1>2, TxTyped DEF IndInv
<1>4. cursor \in DOMAIN Arrived /\ Arrived[cursor] = CursorReq
  BY <1>1, ReqsOfFacts DEF IndInv, TypeOK, Arrived, CursorReq
<1>5. CursorNeed \in Nat
  BY <1>1 DEF CursorNeed
<1>6. CursorReq.cls \in StoreLike => CursorNeed > 0
  BY <1>1 DEF CursorNeed, CursorReq, IndInv, EntriesKnown
<1>7. grant[CursorReq.dst] \in Nat
  BY <1>2, <1>5, TakesFacts DEF IndInv
<1>8. CursorNeed <= grant[CursorReq.dst]
  BY <1>5, <1>7 DEF ServeAny, Takes
<1>9. \A t \in Targets : grant[t] = 0 => grant'[t] = 0
  BY <1>2, <1>5, <1>8 DEF ServeAny, IndInv, TypeOK
<1>10. DataStaysHome'
  BY DEF ServeAny, IndInv, DataStaysHome, Affects
<1>11. QED
  BY <1>1, <1>2, <1>3, <1>4, <1>5, <1>6, <1>8, <1>9, <1>10 DEF ServeAny

LEMMA ServeAnsweredInd ==
    ASSUME IndInv, TypeOK', ServeAny, NEW op, ServeAnswered(op)
    PROVE  IndInv'
<1> DEFINE e == ingress[cursor]
<1>1. /\ cursor \in DOMAIN ingress /\ e \in Entry /\ e.st = "sram" /\ stage = "ingress"
      /\ Bytes[CursorReq.cls] \in Nat
      /\ \A t \in Targets : grant[t] = 0 => grant'[t] = 0
      /\ DataStaysHome'
      /\ UNCHANGED <<nextTx, storeQ, reqs, rsps, pending, stage, ctaVars>>
  BY ServeFacts
<1>2. /\ op \in {"data", "mdone", "waitdone"} /\ CursorReq.cls \notin StoreLike
      /\ ingress' = [ingress EXCEPT ![cursor] =
                        [@ EXCEPT !.st = "hold", !.op = op, !.got = Bytes[CursorReq.cls]]]
      /\ cursor' = cursor + 1
      /\ UNCHANGED <<tx, owed, age, waiters, applied>>
  BY DEF ServeAnswered
<1>3. ingress \in Seq(Entry) /\ ingress' \in Seq(Entry) /\ DOMAIN ingress' = DOMAIN ingress /\ cursor \in Nat
  BY <1>2 DEF IndInv, TypeOK
<1>4. /\ \A i \in DOMAIN ingress : i # cursor => ingress'[i] = ingress[i]
      /\ ingress'[cursor].req = CursorReq /\ ingress'[cursor].st = "hold" /\ ingress'[cursor].op = op
      /\ ingress'[cursor].got = Bytes[CursorReq.cls]
  BY <1>1, <1>2, <1>3 DEF Entry, CursorReq
<1>5. Arrived' = Arrived
  <2>1. \A i \in DOMAIN ingress : ingress'[i].req = ingress[i].req
    BY <1>4 DEF CursorReq
  <2>2. QED
    BY <1>3, <2>1, SameReqs DEF Arrived
<1>6. TxKnown' /\ RequestsKnown' /\ StoresQueued' /\ StoresInOrder'
  BY <1>1, <1>2, <1>5 DEF IndInv, TxKnown, RequestsKnown, StoresQueued, StoresInOrder
<1>7. Held' = Held
  BY <1>1, <1>2, <1>5 DEF Held
<1>8. EachOnce' /\ NoneLost'
  BY <1>1, <1>2, <1>5, <1>7 DEF EachOnce, NoneLost, IndInv
<1>9. AnswersKnown'
  BY <1>1, <1>2, AnswersSame DEF IndInv
<1>10. AckDebtExact'
  BY <1>1, <1>2, AckDebtSame DEF IndInv
<1>11. EntriesKnown'
  <2>1. ASSUME NEW i \in DOMAIN ingress'
        PROVE  /\ ingress'[i].st \in {"hold", "ready"} =>
                     ingress'[i].op # "none" /\ ingress'[i].req.cls \notin StoreLike
               /\ ingress'[i].got <= Bytes[ingress'[i].req.cls]
               /\ ingress'[i].req.cls \in StoreLike => ingress'[i].got < Bytes[ingress'[i].req.cls]
    <3>1. CASE i = cursor
      BY <1>1, <1>2, <1>4, <3>1
    <3>2. CASE i # cursor
      BY <1>3, <1>4, <3>2 DEF IndInv, EntriesKnown
    <3>3. QED
      BY <3>1, <3>2
  <2>2. QED
    BY <2>1 DEF EntriesKnown
<1>12. ServedInOrder'
  <2>1. \A i, j \in DOMAIN ingress' : i < j /\ ingress'[i].st = "fresh" => ingress'[j].st = "fresh"
    BY <1>1, <1>3, <1>4 DEF IndInv, ServedInOrder
  <2>2. ASSUME NEW i \in DOMAIN ingress', stage' = "ingress", i < cursor', ingress'[i].st = "sram"
        PROVE  grant'[ingress'[i].req.dst] = 0
    <3>1. i # cursor
      BY <1>4, <2>2
    <3>2. i < cursor /\ ingress'[i] = ingress[i] /\ i \in DOMAIN ingress
      BY <1>2, <1>3, <1>4, <2>2, <3>1
    <3>3. grant[ingress[i].req.dst] = 0
      BY <1>1, <2>2, <3>2 DEF IndInv, ServedInOrder
    <3>4. ingress[i].req.dst \in Targets
      BY <3>2, CursorLink DEF IndInv
    <3>5. QED
      BY <1>1, <3>2, <3>3, <3>4
  <2>3. QED
    BY <2>1, <2>2 DEF ServedInOrder
<1>13. QED
  BY <1>1, <1>6, <1>8, <1>9, <1>10, <1>11, <1>12 DEF IndInv

\* The store that is served is the oldest of its link that was not applied.
LEMMA OldestServed ==
    ASSUME IndInv, ServeAny, CursorReq.cls \in StoreLike
    PROVE  LET q == storeQ[LinkOf(CursorReq)]
           IN  \E k \in DOMAIN q : /\ q[k] = CursorReq.id /\ q[k] \notin applied
                                   /\ \A i \in DOMAIN q : i < k => q[i] \in applied
<1> DEFINE r == CursorReq
           l == LinkOf(r)
           q == storeQ[l]
<1>1. /\ cursor \in DOMAIN ingress /\ ingress[cursor].st = "sram" /\ stage = "ingress"
      /\ cursor \in DOMAIN Arrived /\ Arrived[cursor] = r
      /\ r \in tx[r.src] /\ r.src \in Sms /\ l \in Links /\ r.id # 0
      /\ CursorNeed > 0 /\ CursorNeed \in Nat /\ CursorNeed <= grant[r.dst]
  BY ServeFacts
<1>2. PICK k \in DOMAIN q : q[k] = r.id
  BY <1>1 DEF IndInv, StoresQueued
<1>3. /\ \A f \in Links : <<"request", f>> \in Spots /\ <<"response", f>> \in Spots
      /\ <<"ingress", 0>> \in Spots /\ <<"pending", 0>> \in Spots /\ <<"applied", 0>> \in Spots
      /\ <<"ingress", 0>> # <<"applied", 0>>
  BY DEF Spots
<1>4. r.id \notin applied
  <2>1. r.id \in Held[<<"ingress", 0>>]
    BY <1>1, HeldIs DEF Ids
  <2>2. r.id \notin Held[<<"applied", 0>>]
    BY <1>3, <2>1 DEF IndInv, EachOnce, Apart
  <2>3. QED
    BY <2>2, HeldIs
<1>5. l = <<r.src, r.dst>> /\ l[1] = r.src
  BY DEF LinkOf
<1>6. ASSUME NEW i \in DOMAIN q, i < k, q[i] \notin applied
      PROVE  FALSE
  <2>1. q \in Seq(Nat) /\ q[i] < r.id /\ q[i] \in Nat /\ r.id \in Nat
    <3>1. q \in Seq(Nat)
      BY <1>1, StoreQNat DEF IndInv
    <3>2. q[i] < q[k]
      BY <1>1, <1>2, <1>6 DEF IndInv, StoresQueued
    <3>3. QED
      BY <1>2, <3>1, <3>2
  <2>2. PICK b \in tx[l[1]] : b.id = q[i] /\ LinkOf(b) = l /\ b.cls \in StoreLike
    BY <1>1, <1>6 DEF IndInv, StoresQueued
  <2>3. b \in tx[r.src] /\ b.id # 0
    BY <1>1, <1>5, <2>2, TxTyped DEF IndInv
  <2>4. \A s \in Sms : \A p \in tx[s] : p.id = b.id => p = b
    BY <1>1, <2>3 DEF IndInv, TxKnown
  <2>5. PICK f \in Spots : b.id \in Held[f]
    BY <1>1, <2>3 DEF IndInv, NoneLost
  <2>6. CASE f = <<"applied", 0>>
    BY <1>6, <2>2, <2>5, <2>6, HeldIs
  <2>7. ASSUME NEW m \in Links, f = <<"response", m>>
        PROVE  FALSE
    <3>1. b.id \in Ids(rsps[m])
      BY <2>5, <2>7, HeldIs
    <3>2. PICK j \in DOMAIN rsps[m] : rsps[m][j].id = b.id
      BY <3>1 DEF Ids
    <3>3. Answerable(tx, b.id, m)
      BY <2>3, <3>2 DEF IndInv, AnswersKnown
    <3>4. QED
      BY <1>1, <2>2, <2>3, <3>3 DEF Answerable
  <2>8. CASE f = <<"pending", 0>>
    <3>1. b.id \in Ids(pending)
      BY <2>5, <2>8, HeldIs
    <3>2. PICK j \in DOMAIN pending : pending[j].id = b.id
      BY <3>1 DEF Ids
    <3>3. Answerable(tx, b.id, <<pending[j].dst, pending[j].src>>)
      BY <3>2 DEF IndInv, AnswersKnown
    <3>4. QED
      BY <1>1, <2>2, <2>3, <3>3 DEF Answerable
  <2>9. ASSUME NEW m \in Links, f = <<"request", m>>
        PROVE  FALSE
    <3>1. b.id \in Ids(reqs[m])
      BY <2>5, <2>9, HeldIs
    <3>2. PICK j \in DOMAIN reqs[m] : reqs[m][j].id = b.id
      BY <3>1 DEF Ids
    <3>3. reqs[m][j] = b
      BY <2>4, <3>2, LinkFacts DEF IndInv, RequestsKnown
    <3>4. m = l
      BY <2>2, <3>2, <3>3 DEF IndInv, RequestsKnown
    <3>5. r.id < b.id
      BY <1>1, <2>2, <3>2, <3>3, <3>4 DEF IndInv, StoresInOrder
    <3>6. QED
      BY <2>1, <2>2, <3>5
  <2>10. CASE f = <<"ingress", 0>>
    <3>1. b.id \in Ids(Arrived)
      BY <2>5, <2>10, HeldIs
    <3>2. PICK j \in DOMAIN Arrived : Arrived[j].id = b.id
      BY <3>1 DEF Ids
    <3>3. j \in DOMAIN ingress /\ Arrived[j] = ingress[j].req /\ j \in Nat /\ cursor \in Nat
      <4>1. ingress \in Seq(Entry) /\ cursor \in Nat
        BY DEF IndInv, TypeOK
      <4>2. j \in DOMAIN ingress /\ Arrived[j] = ingress[j].req
        BY <3>2, <4>1, ReqsOfFacts DEF Arrived
      <4>3. QED
        BY <4>1, <4>2
    <3>4. Arrived[j] = b
      <4>1. Arrived[j] \in tx[Arrived[j].src] /\ Arrived[j].src \in Sms
        BY <3>3, CursorLink DEF IndInv
      <4>2. QED
        BY <2>4, <3>2, <4>1
    <3>5. j # cursor
      BY <1>1, <2>1, <2>2, <3>4
    <3>6. ~(cursor < j)
      <4>1. StoreOrder(Arrived)
        BY DEF IndInv, StoresInOrder
      <4>2. cursor < j => r.id < b.id
        BY <1>1, <2>2, <3>2, <3>4, <4>1 DEF StoreOrder
      <4>3. QED
        BY <2>1, <2>2, <4>2
    <3>7. j < cursor
      BY <3>3, <3>5, <3>6
    <3>8. ingress[j].st = "sram"
      <4>1. ingress[j].st \in {"fresh", "sram", "hold", "ready"}
        <5>1. ingress[j] \in Entry
          BY <3>3 DEF IndInv, TypeOK
        <5>2. QED
          BY <5>1 DEF Entry
      <4>2. ingress[j].st \notin {"hold", "ready"}
        BY <2>2, <3>3, <3>4 DEF IndInv, EntriesKnown
      <4>3. ingress[j].st # "fresh"
        BY <1>1, <3>3, <3>7 DEF IndInv, ServedInOrder
      <4>4. QED
        BY <4>1, <4>2, <4>3
    <3>9. grant[b.dst] = 0
      BY <1>1, <3>3, <3>4, <3>7, <3>8 DEF IndInv, ServedInOrder
    <3>10. b.dst = r.dst
      BY <2>2 DEF LinkOf
    <3>11. QED
      BY <1>1, <3>9, <3>10
  <2>11. QED
    BY <2>6, <2>7, <2>8, <2>9, <2>10, SpotCases
<1>7. QED
  BY <1>2, <1>4, <1>6


LEMMA ServeStoreInd ==
    ASSUME IndInv, TypeOK', ServeAny, ServeStore
    PROVE  IndInv'
<1> DEFINE x == CursorReq.id
           l == LinkOf(CursorReq)
           c == <<"ingress", 0>>
           d == <<"applied", 0>>
<1>1. /\ cursor \in DOMAIN ingress /\ CursorReq.cls \in StoreLike /\ l \in Links
      /\ CursorReq \in tx[CursorReq.src] /\ CursorReq.src \in Sms
      /\ \A t \in Targets : grant[t] = 0 => grant'[t] = 0
      /\ DataStaysHome'
      /\ UNCHANGED <<nextTx, storeQ, reqs, rsps, pending, stage, ctaVars>>
  BY ServeFacts DEF ServeStore
<1>2. /\ ingress' = RemoveAt(ingress, cursor)
      /\ owed' = [owed EXCEPT ![l] = @ + 1]
      /\ applied' = applied \cup {x}
      /\ UNCHANGED <<cursor, tx, waiters>>
  BY DEF ServeStore
<1>3. /\ Removed(ingress, cursor, ingress')
      /\ Once(Arrived') /\ Held'[c] = Held[c] \ {x} /\ x \in Held[c]
      /\ StoreOrder(Arrived') /\ EntriesKnown'
      /\ \A i \in DOMAIN Arrived' : \E j \in DOMAIN Arrived : j # cursor /\ Arrived'[i] = Arrived[j]
  BY <1>1, <1>2, EntryGone
<1>4. c \in Spots /\ d \in Spots /\ c # d
  BY DEF Spots
<1>5. Held'[d] = Held[d] \cup {x}
  BY <1>2, HeldIs
<1>6. \A f \in Spots \ {c, d} : Held'[f] = Held[f]
  <2>1. \A m \in Links : /\ Held'[<<"request", m>>] = Held[<<"request", m>>]
                         /\ Held'[<<"response", m>>] = Held[<<"response", m>>]
    BY <1>1, HeldIs
  <2>2. Held'[<<"pending", 0>>] = Held[<<"pending", 0>>]
    BY <1>1, HeldIs
  <2>3. QED
    BY <2>1, <2>2, SpotCases
<1>7. Apart(Held', nextTx) /\ \A f \in Spots : \A y \in Held[f] : \E g \in Spots : y \in Held'[g]
  <2>1. Apart(Held, nextTx)
    BY DEF IndInv, EachOnce
  <2>2. QED
    BY <1>3, <1>4, <1>5, <1>6, <2>1, ApartMoved
<1>8. EachOnce' /\ NoneLost'
  <2>1. EachOnce'
    BY <1>1, <1>3, <1>7 DEF IndInv, EachOnce
  <2>2. NoneLost'
    BY <1>2, <1>7 DEF IndInv, NoneLost
  <2>3. QED
    BY <2>1, <2>2
<1>9. RequestsKnown' /\ StoresInOrder'
  BY <1>1, <1>2, <1>3 DEF IndInv, RequestsKnown, StoresInOrder
<1>10. TxKnown' /\ StoresQueued'
  BY <1>1, <1>2 DEF IndInv, TxKnown, StoresQueued
<1>11. AnswersKnown'
  <2>1. \A s \in Sms : \A r \in tx[s] : r.id = x => r.cls \in StoreLike
    <3>1. \A s \in Sms : \A r \in tx[s] : r.id = x => r = CursorReq
      BY <1>1 DEF IndInv, TxKnown
    <3>2. QED
      BY <1>1, <3>1
  <2>2. QED
    BY <1>1, <1>2, <2>1 DEF IndInv, AnswersKnown
<1>12. ServedInOrder'
  BY <1>1, <1>2, <1>3, EntryGoneOrder
<1>13. AckDebtExact'
  <2>1. \A m \in Links : Debt(storeQ[m], rsps[m], owed[m], applied)
    BY DebtIs DEF IndInv
  <2>2. ASSUME NEW m \in Links
        PROVE  Debt(storeQ[m], rsps[m], owed'[m], applied \cup {x})
    <3>1. storeQ[m] \in Seq(Nat) /\ rsps[m] \in Seq(Response) /\ owed[m] \in Nat
      BY StoreQNat DEF IndInv, TypeOK
    <3>2. CASE m = l
      <4>1. PICK k \in DOMAIN storeQ[l] :
               /\ storeQ[l][k] = x /\ storeQ[l][k] \notin applied
               /\ \A i \in DOMAIN storeQ[l] : i < k => storeQ[l][i] \in applied
        BY <1>1, OldestServed
      <4>2. \A i, j \in DOMAIN storeQ[l] : i < j => storeQ[l][i] < storeQ[l][j]
        BY <1>1 DEF IndInv, StoresQueued
      <4>3. Debt(storeQ[m], rsps[m], owed[m] + 1, applied \cup {storeQ[m][k]})
        BY <2>1, <3>1, <3>2, <4>1, <4>2, DebtServe
      <4>4. owed'[m] = owed[m] + 1
        BY <1>1, <1>2, <3>2 DEF IndInv, TypeOK
      <4>5. QED
        BY <3>2, <4>1, <4>3, <4>4
    <3>3. CASE m # l
      <4>1. owed'[m] = owed[m]
        BY <1>2, <3>3 DEF IndInv, TypeOK
      <4>2. ASSUME NEW i \in DOMAIN storeQ[m], storeQ[m][i] = x
            PROVE  FALSE
        <5>1. PICK r \in tx[m[1]] : r.id = storeQ[m][i] /\ LinkOf(r) = m
          BY <4>2 DEF IndInv, StoresQueued
        <5>2. r = CursorReq
          BY <1>1, <4>2, <5>1, LinkFacts DEF IndInv, TxKnown
        <5>3. QED
          BY <3>3, <5>1, <5>2
      <4>3. \A i \in DOMAIN storeQ[m] : storeQ[m][i] # x
        BY <4>2
      <4>4. QED
        BY <2>1, <4>1, <4>3, DebtElsewhere
    <3>4. QED
      BY <3>2, <3>3
  <2>3. QED
    BY <1>1, <1>2, <2>2, DebtIsNext
<1>14. QED
  BY <1>1, <1>3, <1>8, <1>9, <1>10, <1>11, <1>12, <1>13 DEF IndInv

LEMMA ServeStoredWaitInd ==
    ASSUME IndInv, TypeOK', ServeAny, ServeStoredWait
    PROVE  IndInv'
<1> DEFINE w == CursorReq
           c == <<"ingress", 0>>
<1>1. /\ cursor \in DOMAIN ingress /\ w.cls = "waitreg" /\ w.cls \notin StoreLike
      /\ w \in tx[w.src] /\ w.src \in Sms /\ w.id # 0
      /\ \A t \in Targets : grant[t] = 0 => grant'[t] = 0
      /\ DataStaysHome'
      /\ UNCHANGED <<nextTx, storeQ, reqs, rsps, pending, stage, ctaVars>>
  BY ServeFacts DEF ServeStoredWait, StoreLike
<1>2. /\ ingress' = RemoveAt(ingress, cursor)
      /\ tx' = [tx EXCEPT ![w.src] = @ \ {w}]
      /\ UNCHANGED <<cursor, owed, age, applied>>
  BY DEF ServeStoredWait
<1>3. /\ Removed(ingress, cursor, ingress')
      /\ Once(Arrived') /\ Held'[c] = Held[c] \ {w.id} /\ w.id \in Held[c]
      /\ StoreOrder(Arrived') /\ EntriesKnown'
      /\ \A i \in DOMAIN Arrived' : \E j \in DOMAIN Arrived : j # cursor /\ Arrived'[i] = Arrived[j]
      /\ Arrived \in Seq(Request) /\ Arrived[cursor] = w
  BY <1>1, <1>2, EntryGone
<1>4. /\ \A m \in Links : <<"request", m>> \in Spots /\ <<"response", m>> \in Spots
      /\ c \in Spots
  BY DEF Spots
<1>5. \A s \in Sms : \A r \in tx[s] : r.id = w.id => r = w
  BY <1>1 DEF IndInv, TxKnown
<1>6. /\ \A s \in Sms : tx'[s] \subseteq tx[s]
      /\ \A s \in Sms : \A r \in tx[s] : r.id # w.id => r \in tx'[s]
      /\ \A s \in Sms : \A r \in tx[s] : r.cls \in StoreLike => r \in tx'[s]
  BY <1>1, <1>2 DEF IndInv, TypeOK
<1>7. \A s \in Sms : \A r \in tx'[s] : r \in tx[s] /\ r.id # w.id
  <2>1. \A s \in Sms : \A r \in tx[s] : r = w => s = w.src
    BY DEF IndInv, TxKnown
  <2>2. \A r \in tx'[w.src] : r # w
    BY <1>1, <1>2 DEF IndInv, TypeOK
  <2>3. QED
    BY <1>5, <1>6, <2>1, <2>2
<1>8. \A f \in Spots \ {c} : Held'[f] = Held[f]
  <2>1. \A m \in Links : /\ Held'[<<"request", m>>] = Held[<<"request", m>>]
                         /\ Held'[<<"response", m>>] = Held[<<"response", m>>]
    BY <1>1, HeldIs
  <2>2. Held'[<<"pending", 0>>] = Held[<<"pending", 0>>] /\ Held'[<<"applied", 0>>] = Held[<<"applied", 0>>]
    BY <1>1, <1>2, HeldIs
  <2>3. QED
    BY <2>1, <2>2, SpotCases
<1>9. EachOnce'
  <2>1. nextTx \in Nat /\ Apart(Held, nextTx) /\ nextTx <= nextTx
    BY Bounds DEF IndInv, TypeOK, EachOnce
  <2>2. \A f \in Spots : Held'[f] \subseteq Held[f]
    BY <1>3, <1>8
  <2>3. Apart(Held', nextTx)
    BY <2>1, <2>2, ApartLess
  <2>4. QED
    BY <1>1, <1>3, <2>3 DEF IndInv, EachOnce
<1>10. TxKnown'
  BY <1>1, <1>6, TxKnownSame DEF IndInv, TypeOK
<1>11. NoneLost'
  <2> SUFFICES ASSUME NEW s \in Sms, NEW r \in tx'[s]
               PROVE  \E f \in Spots : r.id \in Held'[f]
    BY DEF NoneLost
  <2>1. r \in tx[s] /\ r.id # w.id
    BY <1>7
  <2>2. PICK f \in Spots : r.id \in Held[f]
    BY <2>1 DEF IndInv, NoneLost
  <2>3. QED
    BY <1>3, <1>8, <2>1, <2>2
<1>12. RequestsKnown'
  <2>1. ASSUME NEW m \in Links, NEW i \in DOMAIN reqs[m]
        PROVE  reqs[m][i] \in tx'[m[1]] /\ LinkOf(reqs[m][i]) = m
    <3>1. reqs[m][i] \in tx[m[1]] /\ LinkOf(reqs[m][i]) = m
      BY <2>1 DEF IndInv, RequestsKnown
    <3>2. reqs[m][i].id # w.id
      <4>1. reqs[m][i].id = w.id => w.id \in Held[<<"request", m>>]
        <5>1. reqs[m][i].id # 0 => reqs[m][i].id \in Ids(reqs[m])
          BY <2>1 DEF Ids
        <5>2. Held[<<"request", m>>] = Ids(reqs[m])
          BY HeldIs
        <5>3. QED
          BY <1>1, <5>1, <5>2
      <4>2. <<"request", m>> # c
        OBVIOUS
      <4>3. w.id \notin Held[<<"request", m>>]
        BY <1>3, <1>4, <4>2 DEF IndInv, EachOnce, Apart
      <4>4. QED
        BY <4>1, <4>3
    <3>3. QED
      BY <1>6, <3>1, <3>2, LinkFacts
  <2>2. ASSUME NEW i \in DOMAIN Arrived'
        PROVE  Arrived'[i] \in tx'[Arrived'[i].src]
    <3>1. PICK j \in DOMAIN Arrived : j # cursor /\ Arrived'[i] = Arrived[j]
      BY <1>3
    <3>2. Arrived[j] \in tx[Arrived[j].src] /\ Arrived[j].src \in Sms
      <4>1. Arrived[j] \in Request
        BY <1>3, <3>1
      <4>2. QED
        BY <3>1, <4>1 DEF IndInv, RequestsKnown, Request
    <3>3. Arrived[j].id # w.id
      <4>1. Once(Arrived) /\ cursor \in DOMAIN Arrived
        BY <1>1, ReqsOfFacts DEF IndInv, TypeOK, EachOnce, Arrived
      <4>2. QED
        BY <1>1, <1>3, <3>1, <4>1 DEF Once
    <3>4. QED
      BY <1>6, <3>1, <3>2, <3>3
  <2>3. QED
    BY <1>1, <2>1, <2>2 DEF RequestsKnown
<1>13. AnswersKnown'
  BY <1>1, <1>2, <1>6, AnswersSame DEF IndInv
<1>14. StoresInOrder'
  BY <1>1, <1>3 DEF IndInv, StoresInOrder
<1>15. StoresQueued'
  <2>1. \A m \in Links : \A i \in DOMAIN storeQ[m] :
          \E r \in tx'[m[1]] : r.id = storeQ[m][i] /\ LinkOf(r) = m /\ r.cls \in StoreLike
    BY <1>6, LinkFacts DEF IndInv, StoresQueued
  <2>2. QED
    BY <1>1, <1>6, <2>1 DEF IndInv, StoresQueued
<1>16. ServedInOrder'
  BY <1>1, <1>2, <1>3, EntryGoneOrder
<1>17. AckDebtExact'
  BY <1>1, <1>2, AckDebtSame DEF IndInv
<1>18. QED
  BY <1>1, <1>3, <1>9, <1>10, <1>11, <1>12, <1>13, <1>14, <1>15, <1>16, <1>17 DEF IndInv


-----------------------------------------------------------------------------
(* The theorems. *)

LEMMA NextType ==
    ASSUME IndInv, Next
    PROVE  TypeOK'
<1>0. TypeOK /\ EntriesKnown /\ TxKnown /\ RequestsKnown /\ AnswersKnown
  BY DEF IndInv
<1>1. ASSUME NEW l \in Links, NEW c \in Classes, Issue(l, c)
      PROVE  TypeOK'
  BY <1>0, <1>1, IssueType
<1>2. ASSUME NEW l \in Links, AnswerWait(l) \/ TakeRequest(l) \/ TakeResponse(l)
      PROVE  TypeOK'
  BY <1>0, <1>2, AnswerWaitType, TakeRequestType, TakeResponseType
<1>3. ASSUME \/ \E s \in Sms : Exit(s) \/ ReleaseCta(s)
             \/ \E g \in [Targets -> 0..MaxGrant] : StartCycle(g)
             \/ HarvestDone \/ IngressDone \/ SendDone
      PROVE  TypeOK'
  BY <1>0, <1>3, IdleType
<1>4. ASSUME KeepEntry \/ Starve \/ Serve \/ Ready \/ SendPending
      PROVE  TypeOK'
  BY <1>0, <1>4, KeepEntryType, StarveType, ServeType, ReadyType, SendPendingType
<1>5. ASSUME NEW flush \in SUBSET Links, \A l \in flush : MustFlush(l) \/ MayFlush(l), FlushAcks(flush)
      PROVE  TypeOK'
  BY <1>0, <1>5, FlushAcksType DEF Flushable
<1>6. QED
  BY <1>1, <1>2, <1>3, <1>4, <1>5 DEF Next

LEMMA NextInd ==
    ASSUME StoresNeedBytes, IndInv, [Next]_vars
    PROVE  IndInv'
<1>1. CASE UNCHANGED vars
  <2>1. TypeOK'
    BY <1>1 DEF IndInv, TypeOK, vars, netVars, epVars, ctaVars
  <2>2. EachOnce'
    BY <1>1, EachOnceSame DEF IndInv, vars, netVars, epVars
  <2>3. TxKnown' /\ RequestsKnown' /\ EntriesKnown' /\ StoresQueued' /\ StoresInOrder' /\ DataStaysHome'
        /\ ServedInOrder'
    BY <1>1 DEF IndInv, vars, netVars, epVars, TxKnown, RequestsKnown, EntriesKnown, StoresQueued,
           StoresInOrder, DataStaysHome, ServedInOrder, Arrived
  <2>4. AnswersKnown'
    BY <1>1, AnswersSame DEF IndInv, vars, netVars, epVars
  <2>5. NoneLost' /\ AckDebtExact'
    BY <1>1, NoneLostSame, AckDebtSame DEF IndInv, vars, netVars, epVars
  <2>6. QED
    BY <2>1, <2>2, <2>3, <2>4, <2>5 DEF IndInv
<1>2. ASSUME Next
      PROVE  IndInv'
  <2>1. TypeOK'
    BY <1>2, NextType
  <2>2. ASSUME NEW l \in Links, NEW c \in Classes, Issue(l, c)
        PROVE  IndInv'
    BY <2>1, <2>2, IssueInd
  <2>3. ASSUME NEW l \in Links, AnswerWait(l) \/ TakeResponse(l)
        PROVE  IndInv'
    BY <2>1, <2>3, AnswerWaitInd, TakeResponseInd
  <2>4. ASSUME NEW l \in Links, TakeRequest(l)
        PROVE  IndInv'
    BY <2>1, <2>4, TakeRequestInd
  <2>5. ASSUME \/ \E s \in Sms : Exit(s) \/ ReleaseCta(s)
               \/ \E g \in [Targets -> 0..MaxGrant] : StartCycle(g)
               \/ HarvestDone \/ IngressDone \/ SendDone
        PROVE  IndInv'
    <3>1. Idle
      BY <2>5, IdleType DEF IndInv
    <3>2. QED
      BY <2>1, <3>1, IdleInd
  <2>6. CASE KeepEntry
    BY <2>1, <2>6, KeepEntryInd
  <2>7. CASE Starve
    BY <2>1, <2>7, StarveInd
  <2>8. CASE Serve
    <3>1. ServeAny /\ ((\E op : ServeAnswered(op)) \/ ServeStore \/ ServeStoredWait)
      BY <2>8, ServeCases DEF IndInv
    <3>2. QED
      BY <2>1, <3>1, ServeAnsweredInd, ServeStoreInd, ServeStoredWaitInd
  <2>9. CASE Ready
    BY <2>1, <2>9, ReadyInd
  <2>10. CASE SendPending
    BY <2>1, <2>10, SendPendingInd
  <2>11. ASSUME NEW flush \in SUBSET Links, \A l \in flush : MustFlush(l) \/ MayFlush(l), FlushAcks(flush)
         PROVE  IndInv'
    BY <2>1, <2>11, FlushAcksInd DEF Flushable
  <2>12. QED
    BY <1>2, <2>2, <2>3, <2>4, <2>5, <2>6, <2>7, <2>8, <2>9, <2>10, <2>11 DEF Next
<1>3. QED
  BY <1>1, <1>2

\* The invariant is inductive.
THEOREM Invariance ==
    ASSUME StoresNeedBytes
    PROVE  Spec => []IndInv
<1>1. Init => IndInv
  BY InitInd
<1>2. IndInv /\ [Next]_vars => IndInv'
  BY NextInd
<1>3. QED
  BY <1>1, <1>2, PTL DEF Spec

\* complete_stores completes the right stores although an acknowledgement names none:
\* the stores that were applied are the oldest of the pair, exactly as many as the target
\* owes or has sent acknowledgements for, whatever was starved, coalesced or delayed.
THEOREM AckDebtCorrect ==
    ASSUME StoresNeedBytes
    PROVE  Spec => []AckDebtExact
<1>1. IndInv => AckDebtExact
  BY DEF IndInv
<1>2. QED
  BY <1>1, Invariance, PTL


\* p is where transaction n is in c.
PlaceIn(p, c, n) ==
    \/ \E l \in Links : \E i \in DOMAIN reqs[l] :
          c = <<"request", l>> /\ p = <<"request", l, i>> /\ reqs[l][i].id = n
    \/ \E l \in Links : \E i \in DOMAIN rsps[l] :
          c = <<"response", l>> /\ p = <<"response", l, i>> /\ rsps[l][i].id = n
    \/ \E i \in DOMAIN ingress :
          c = <<"ingress", 0>> /\ p = <<"ingress", i>> /\ ingress[i].req.id = n
    \/ \E i \in DOMAIN pending :
          c = <<"pending", 0>> /\ p = <<"pending", i>> /\ pending[i].id = n

LEMMA PlacesAre ==
    ASSUME NEW n, NEW p
    PROVE  p \in Places(n) <=> \E c \in Spots \ {<<"applied", 0>>} : PlaceIn(p, c, n)
<1>1. p \in Places(n) <=>
        \/ \E l \in Links : \E i \in DOMAIN reqs[l] : p = <<"request", l, i>> /\ reqs[l][i].id = n
        \/ \E l \in Links : \E i \in DOMAIN rsps[l] : p = <<"response", l, i>> /\ rsps[l][i].id = n
        \/ \E i \in DOMAIN ingress : p = <<"ingress", i>> /\ ingress[i].req.id = n
        \/ \E i \in DOMAIN pending : p = <<"pending", i>> /\ pending[i].id = n
  <2> DEFINE A == UNION {{<<"request", l, i>> : i \in {j \in DOMAIN reqs[l] : reqs[l][j].id = n}} : l \in Links}
             B == {<<"ingress", i>> : i \in {j \in DOMAIN ingress : ingress[j].req.id = n}}
             C == {<<"pending", i>> : i \in {j \in DOMAIN pending : pending[j].id = n}}
             D == UNION {{<<"response", l, i>> : i \in {j \in DOMAIN rsps[l] : rsps[l][j].id = n}} : l \in Links}
  <2>1. p \in A <=> \E l \in Links : \E i \in DOMAIN reqs[l] : p = <<"request", l, i>> /\ reqs[l][i].id = n
    OBVIOUS
  <2>2. p \in D <=> \E l \in Links : \E i \in DOMAIN rsps[l] : p = <<"response", l, i>> /\ rsps[l][i].id = n
    OBVIOUS
  <2>3. p \in B <=> \E i \in DOMAIN ingress : p = <<"ingress", i>> /\ ingress[i].req.id = n
    OBVIOUS
  <2>4. p \in C <=> \E i \in DOMAIN pending : p = <<"pending", i>> /\ pending[i].id = n
    OBVIOUS
  <2> HIDE DEF A, B, C, D
  <2>5. Places(n) = A \cup B \cup C \cup D
    BY Zenon DEF Places, A, B, C, D
  <2>6. QED
    BY <2>1, <2>2, <2>3, <2>4, <2>5
<1>2. /\ \A l \in Links : <<"request", l>> \in Spots \ {<<"applied", 0>>}
                          /\ <<"response", l>> \in Spots \ {<<"applied", 0>>}
      /\ <<"ingress", 0>> \in Spots \ {<<"applied", 0>>} /\ <<"pending", 0>> \in Spots \ {<<"applied", 0>>}
  BY DEF Spots
<1>3. ASSUME p \in Places(n)
      PROVE  \E c \in Spots \ {<<"applied", 0>>} : PlaceIn(p, c, n)
  BY <1>1, <1>2, <1>3 DEF PlaceIn
<1>4. ASSUME NEW c \in Spots \ {<<"applied", 0>>}, PlaceIn(p, c, n)
      PROVE  p \in Places(n)
  BY <1>1, <1>4 DEF PlaceIn
<1>5. QED
  BY <1>3, <1>4

\* A transaction that has a place is held there, and one that is held has a place.
LEMMA PlaceHeld ==
    ASSUME TypeOK, NEW n, n # 0, NEW c \in Spots \ {<<"applied", 0>>}
    PROVE  n \in Held[c] <=> \E p : PlaceIn(p, c, n)
<1>1. DOMAIN Arrived = DOMAIN ingress /\ \A i \in DOMAIN ingress : Arrived[i].id = ingress[i].req.id
  BY ReqsOfFacts DEF TypeOK, Arrived
<1>2. ASSUME NEW l \in Links, c = <<"request", l>>
      PROVE  n \in Held[c] <=> \E p : PlaceIn(p, c, n)
  <2>1. Held[c] = Ids(reqs[l])
    BY <1>2, HeldIs
  <2>2. n \in Ids(reqs[l]) <=> \E i \in DOMAIN reqs[l] : reqs[l][i].id = n
    BY DEF Ids
  <2>3. (\E p : PlaceIn(p, c, n)) <=> \E i \in DOMAIN reqs[l] : reqs[l][i].id = n
    BY <1>2 DEF PlaceIn
  <2>4. QED
    BY <2>1, <2>2, <2>3
<1>3. ASSUME NEW l \in Links, c = <<"response", l>>
      PROVE  n \in Held[c] <=> \E p : PlaceIn(p, c, n)
  <2>1. Held[c] = Ids(rsps[l])
    BY <1>3, HeldIs
  <2>2. n \in Ids(rsps[l]) <=> \E i \in DOMAIN rsps[l] : rsps[l][i].id = n
    BY DEF Ids
  <2>3. (\E p : PlaceIn(p, c, n)) <=> \E i \in DOMAIN rsps[l] : rsps[l][i].id = n
    BY <1>3 DEF PlaceIn
  <2>4. QED
    BY <2>1, <2>2, <2>3
<1>4. CASE c = <<"ingress", 0>>
  <2>1. Held[c] = Ids(Arrived)
    BY <1>4, HeldIs
  <2>2. n \in Ids(Arrived) <=> \E i \in DOMAIN ingress : ingress[i].req.id = n
    BY <1>1 DEF Ids
  <2>3. (\E p : PlaceIn(p, c, n)) <=> \E i \in DOMAIN ingress : ingress[i].req.id = n
    BY <1>4 DEF PlaceIn
  <2>4. QED
    BY <2>1, <2>2, <2>3
<1>5. CASE c = <<"pending", 0>>
  <2>1. Held[c] = Ids(pending)
    BY <1>5, HeldIs
  <2>2. n \in Ids(pending) <=> \E i \in DOMAIN pending : pending[i].id = n
    BY DEF Ids
  <2>3. (\E p : PlaceIn(p, c, n)) <=> \E i \in DOMAIN pending : pending[i].id = n
    BY <1>5 DEF PlaceIn
  <2>4. QED
    BY <2>1, <2>2, <2>3
<1>6. QED
  BY <1>2, <1>3, <1>4, <1>5, SpotCases

LEMMA PlaceUnique ==
    ASSUME TypeOK, EachOnce, NEW n, n # 0, NEW c, NEW p, NEW q, PlaceIn(p, c, n), PlaceIn(q, c, n)
    PROVE  p = q
<1>1. \A i, j \in DOMAIN ingress : ingress[i].req.id = n /\ ingress[j].req.id = n => i = j
  <2>1. DOMAIN Arrived = DOMAIN ingress /\ \A i \in DOMAIN ingress : Arrived[i].id = ingress[i].req.id
    BY ReqsOfFacts DEF TypeOK, Arrived
  <2>2. QED
    BY <2>1 DEF EachOnce, Once
<1>2. \A i, j \in DOMAIN pending : pending[i].id = n /\ pending[j].id = n => i = j
  BY DEF EachOnce, Once
<1>3. \A l \in Links : \A i, j \in DOMAIN reqs[l] : reqs[l][i].id = n /\ reqs[l][j].id = n => i = j
  BY DEF EachOnce, Once
<1>4. \A l \in Links : \A i, j \in DOMAIN rsps[l] : rsps[l][i].id = n /\ rsps[l][j].id = n => i = j
  BY DEF EachOnce, Once
<1>5. ASSUME NEW l \in Links, c = <<"request", l>>
      PROVE  p = q
  BY <1>3, <1>5 DEF PlaceIn
<1>6. ASSUME NEW l \in Links, c = <<"response", l>>
      PROVE  p = q
  BY <1>4, <1>6 DEF PlaceIn
<1>7. CASE c = <<"ingress", 0>>
  BY <1>1, <1>7 DEF PlaceIn
<1>8. CASE c = <<"pending", 0>>
  BY <1>2, <1>8 DEF PlaceIn
<1>9. QED
  BY <1>5, <1>6, <1>7, <1>8 DEF PlaceIn

LEMMA HandledOnce == IndInv => TxHandledOnce
<1> SUFFICES ASSUME IndInv PROVE TxHandledOnce
  OBVIOUS
<1>0. TypeOK /\ EachOnce /\ Apart(Held, nextTx)
  BY DEF IndInv, EachOnce
<1>1. <<"applied", 0>> \in Spots
  BY DEF Spots
<1>2. ASSUME NEW s \in Sms, NEW r \in tx[s]
      PROVE  Cardinality(Places(r.id)) = IF r.id \in applied THEN 0 ELSE 1
  <2>1. r.id # 0
    BY <1>0, TxTyped
  <2>2. CASE r.id \in applied
    <3>1. \A c \in Spots \ {<<"applied", 0>>} : r.id \notin Held[c]
      BY <1>0, <1>1, <2>2, HeldIs DEF Apart
    <3>2. \A c \in Spots \ {<<"applied", 0>>} : \A p : ~PlaceIn(p, c, r.id)
      BY <1>0, <2>1, <3>1, PlaceHeld
    <3>3. Places(r.id) = {}
      BY <3>2, PlacesAre
    <3>4. QED
      BY <2>2, <3>3, FS_EmptySet
  <2>3. CASE r.id \notin applied
    <3>1. PICK c \in Spots : r.id \in Held[c]
      BY DEF IndInv, NoneLost
    <3>2. c # <<"applied", 0>>
      BY <2>3, <3>1, HeldIs
    <3>3. PICK p : PlaceIn(p, c, r.id)
      BY <1>0, <2>1, <3>1, <3>2, PlaceHeld
    <3>4. p \in Places(r.id)
      BY <3>1, <3>2, <3>3, PlacesAre
    <3>5. ASSUME NEW q \in Places(r.id)
          PROVE  q = p
      <4>1. PICK d \in Spots \ {<<"applied", 0>>} : PlaceIn(q, d, r.id)
        BY PlacesAre
      <4>2. r.id \in Held[d]
        BY <1>0, <2>1, <4>1, PlaceHeld
      <4>3. d = c
        BY <1>0, <3>1, <4>2 DEF Apart
      <4>4. QED
        BY <1>0, <2>1, <3>3, <4>1, <4>3, PlaceUnique
    <3>6. Places(r.id) = {p}
      BY <3>4, <3>5
    <3>7. QED
      BY <2>3, <3>6, FS_Singleton
  <2>4. QED
    BY <2>2, <2>3
<1>3. ASSUME NEW s \in Sms, NEW r \in tx[s]
      PROVE  r.cls \in StoreLike <=> r.id \in ToSet(storeQ[LinkOf(r)])
  <2>1. LinkOf(r) \in Links
    BY DEF IndInv, TxKnown
  <2>2. r.cls \in StoreLike => r.id \in ToSet(storeQ[LinkOf(r)])
    BY DEF IndInv, StoresQueued, ToSet
  <2>3. ASSUME r.id \in ToSet(storeQ[LinkOf(r)])
        PROVE  r.cls \in StoreLike
    <3>1. PICK i \in DOMAIN storeQ[LinkOf(r)] : storeQ[LinkOf(r)][i] = r.id
      BY <2>3 DEF ToSet
    <3>2. PICK b \in tx[LinkOf(r)[1]] : b.id = r.id /\ b.cls \in StoreLike
      BY <2>1, <3>1 DEF IndInv, StoresQueued
    <3>3. b = r
      BY <2>1, <3>2, LinkFacts DEF IndInv, TxKnown
    <3>4. QED
      BY <3>2, <3>3
  <2>4. QED
    BY <2>2, <2>3
<1>4. TxInOnePlace
  BY <1>2, <1>3 DEF TxInOnePlace
<1>5. QED
  BY <1>4 DEF TxHandledOnce, IndInv

\* No transaction is lost, doubled or applied to a stranger: through the queues of the
\* fabric, the partial grants, the answers held back and the acknowledgements, every
\* outstanding request is in one place or applied, and the data of a request never touch
\* a CTA that took over the slot (the generation check of process_ingress).
THEOREM TxHandled ==
    ASSUME StoresNeedBytes
    PROVE  Spec => []TxHandledOnce
<1>1. QED
  BY HandledOnce, Invariance, PTL

LEMMA CompletesApplied ==
    ASSUME IndInv, [Next]_vars, NEW s \in Sms, NEW r \in tx[s] \ tx'[s], r.cls \in StoreLike
    PROVE  r.id \in applied
<1>1. ASSUME NEW l \in Links, TakeResponse(l)
      PROVE  r.id \in applied
  <2>1. /\ tx' = [tx EXCEPT ![l[1]] = {q \in @ : q.id \notin Done(l)}]
        /\ \A i \in 1..Acked(l) : storeQ[l][i] \in applied
    BY <1>1, TakeResponseFacts
  <2>2. r.id \in Done(l)
    BY <2>1, LinkFacts DEF IndInv, TypeOK
  <2>3. PICK i \in 1..Acked(l) : storeQ[l][i] = r.id
    BY <1>1, <2>2, DoneFacts
  <2>4. QED
    BY <2>1, <2>3
<1>2. CASE Serve
  <2>1. ServeAny /\ ((\E op : ServeAnswered(op)) \/ ServeStore \/ ServeStoredWait)
    BY <1>2, ServeCases DEF IndInv
  <2>2. ServeStoredWait
    BY <2>1 DEF ServeAnswered, ServeStore
  <2>3. tx' = [tx EXCEPT ![CursorReq.src] = @ \ {CursorReq}] /\ CursorReq.cls = "waitreg"
    BY <2>2 DEF ServeStoredWait
  <2>4. r = CursorReq
    BY <2>3 DEF IndInv, TypeOK
  <2>5. QED
    BY <2>3, <2>4 DEF StoreLike
<1>3. ASSUME NEW l \in Links, NEW c \in Classes, Issue(l, c)
      PROVE  FALSE
  <2>1. \A t \in Sms : tx[t] \subseteq tx'[t]
    BY <1>3, LinkFacts DEF Issue, IndInv, TypeOK
  <2>2. QED
    BY <2>1
<1>4. ASSUME NEW l \in Links, AnswerWait(l) \/ TakeRequest(l)
      PROVE  FALSE
  BY <1>4 DEF AnswerWait, TakeRequest
<1>5. ASSUME \/ \E t \in Sms : Exit(t) \/ ReleaseCta(t)
             \/ \E g \in [Targets -> 0..MaxGrant] : StartCycle(g)
             \/ HarvestDone \/ IngressDone \/ SendDone
      PROVE  FALSE
  BY <1>5, IdleType DEF Idle, IndInv, netVars
<1>6. ASSUME KeepEntry \/ Starve \/ Ready \/ SendPending \/ (\E flush : FlushAcks(flush))
      PROVE  FALSE
  BY <1>6 DEF KeepEntry, Starve, Ready, SendPending, FlushAcks, netVars
<1>7. CASE UNCHANGED vars
  BY <1>7 DEF vars, netVars
<1>8. QED
  BY <1>1, <1>2, <1>3, <1>4, <1>5, <1>6, <1>7 DEF Next

\* A store leaves the requester's table only when it was applied at the target: no
\* response, not even an acknowledgement that stands for several stores, completes a store
\* that was not.
THEOREM StoresComplete ==
    ASSUME StoresNeedBytes
    PROVE  Spec => StoresCompleteApplied
<1>1. IndInv /\ [Next]_vars =>
        [\A s \in Sms : \A r \in tx[s] \ tx'[s] : r.cls \in StoreLike => r.id \in applied]_vars
  BY CompletesApplied
<1>2. QED
  BY <1>1, Invariance, PTL DEF Spec, StoresCompleteApplied

=============================================================================
