------------------------ MODULE StreamManagerProofs ------------------------
(***************************************************************************)
(* FinishedIsFront, NoDangling, ZeroIsBarrier and ReturnsComplete of       *)
(* StreamManager for any number of host threads, streams, events and       *)
(* operations, and for every kind of program that is Orderly.              *)
(***************************************************************************)
EXTENDS StreamManager, FiniteSetTheorems, NaturalsInduction, TLAPS

\* Programs for which the properties are claimed.  A parent kernel that finishes in
\* the same GPU cycle as its last child is retired with it and found again among the
\* finished kernels; and a wait pushed on every stream may reach a stream that another
\* thread destroys meanwhile.
Orderly(p) ==
    /\ ~(p.children /\ p.together)
    /\ p.waitAll /\ (\E e \in Events : p.recordOn[e] # {}) => p.destroys = {} /\ ~p.children

\* Operation x is in one of the queues q.
InOps(q, x) == \E s \in AllStreams : \E i \in DOMAIN q[s] : q[s][i].id = x
\* No operation is twice in the queues q.
UniqueIds(q) ==
    \A s, t \in AllStreams : \A i \in DOMAIN q[s], j \in DOMAIN q[t] :
        q[s][i].id = q[t][j].id => s = t /\ i = j

\* Identifiers are given out once; an applied operation still in a queue is a kernel that
\* is launched and not retired.
QueuesSound ==
    /\ UniqueIds(ops)
    /\ \A x \in Ids : InOps(ops, x) => x < nextId /\ (x \in applied => x \in DOMAIN gridStream)
    /\ \A x \in applied : x < nextId

\* A launched kernel is at the front of its stream.
GridFront ==
    \A k \in DOMAIN gridStream : /\ pending[gridStream[k]]
                                 /\ ops[gridStream[k]] # <<>>
                                 /\ ops[gridStream[k]][1].id = k

\* An identifier given out whose operation is not in a stream yet.
NotYet(x) == x < nextId /\ ~InOps(ops, x) /\ x \notin applied
CallsWait == \A h \in Hosts : call[h].pc \in {"block", "push"} => NotYet(call[h].op.id)
LaunchesWait ==
    /\ \A i \in DOMAIN devLaunch :
          LET c == devLaunch[i].id
          IN  /\ NotYet(c) /\ parent[c] # None /\ c \in children[parent[c]]
              /\ devLaunch[i].s = ctaStream[parent[c]]
    /\ \A i, j \in DOMAIN devLaunch : devLaunch[i].id = devLaunch[j].id => i = j

\* The operations of a host thread are its own.
Pushes == {"block", "push", "drain", "next"}
OwnersSound ==
    /\ \A h \in Hosts : \A x \in mine[h] :
          /\ x < nextId /\ parent[x] = None
          /\ \A g \in Hosts \ {h} : x \notin mine[g]
          /\ \A s \in AllStreams : \A i \in DOMAIN ops[s] : ops[s][i].id = x => ops[s][i].host = h
    /\ \A h \in Hosts : call[h].pc \in Pushes => call[h].op.id \in mine[h] /\ call[h].op.host = h

\* The GPU's kernels are launched; with children they finish and retire one by one.
GpuSound ==
    /\ running \subseteq DOMAIN gridStream \ applied
    /\ \A i \in DOMAIN finished : finished[i] \in DOMAIN gridStream \cap applied
    /\ \A i, j \in DOMAIN finished : finished[i] = finished[j] => i = j
    /\ prog.functional => running = {} /\ finished = <<>>
    /\ ~prog.functional => functional = None
    /\ functional # None /\ simPc # "reap" => functional \in DOMAIN gridStream \ applied
    /\ prog.children => /\ Len(finished) <= 1
                        /\ simPc \in {"front", "cycle", "reap"} => finished = <<>>

\* Children and their parents: a parent is not retired while a child is left.
KidsSound ==
    /\ \A p \in Ids : children[p] # {} => p \in DOMAIN gridStream
    /\ \A p \in Ids : \A c \in children[p] : parent[c] = p
    /\ \A c \in Ids : parent[c] # None =>
          c < nextId /\ parent[c] < c /\ (c \in children[parent[c]] \/ c \in applied) /\ prog.children

\* The default stream of a kernel's CTA is its own and lives as long as the kernel.
CtaStreamsSound ==
    /\ \A k \in Ids : ctaStream[k] # None =>
          /\ ctaStream[k] \in created /\ prog.children
          /\ k \in DOMAIN gridStream \cup applied
          /\ k \in DOMAIN gridStream => ctaStream[k] \in ToSet(m_streams) \ toReap
    /\ \A k, l \in Ids : ctaStream[k] # None /\ ctaStream[k] = ctaStream[l] => k = l
    /\ toReap \subseteq created /\ (toReap # {} => prog.children)

\* Only streams that are alive hold operations or are in use by a thread.
Alive == ToSet(m_streams) \cup {Zero}
StreamsSound ==
    /\ \A s \in AllStreams : ops[s] # <<>> => s \in Alive
    /\ m_last_stream \in ToSet(m_streams) \cup {None}
    /\ \A e \in Events : recorded[e] # <<>> => prog.recordOn[e] # {}
    /\ \A h \in Hosts : call[h].pc \in {"block", "push"} =>
          \/ call[h].s = Zero
          \/ /\ call[h].s \in ToSet(m_streams)
             /\ \/ call[h].s \in Streams /\ prog.owner[call[h].s] = h
                \/ prog.destroys = {} /\ ~prog.children
    /\ \A h \in Hosts : call[h].pc = "next" \/ (call[h].pc \in Pushes /\ call[h].all) =>
          call[h].op.e \in Events /\ prog.destroys = {} /\ ~prog.children
    /\ \A h \in Hosts : call[h].pc \in {"streamSync", "destroyLock", "destroyErase"} =>
          prog.owner[call[h].s] = h /\ h \in prog.destroys

\* A host thread's operation is complete, in a queue or just being pushed.
MineAccounted ==
    \A h \in Hosts : \A x \in mine[h] :
        \/ Complete(x)
        \/ InOps(ops, x)
        \/ call[h].pc \in {"block", "push"} /\ call[h].op.id = x

\* The NULL stream holds operations of threads that wait for them, and such a thread had
\* everything complete before it pushed.
Blocks(h) == call[h].s = Zero \/ prog.launchBlocking
ZeroHeld ==
    /\ \A j \in DOMAIN ops[Zero] : LET h == ops[Zero][j].host
                                   IN  h \in Hosts /\ call[h].pc = "drain" /\ call[h].op.id = ops[Zero][j].id
    /\ \A h \in Hosts : call[h].pc = "drain" \/ (call[h].pc = "push" /\ Blocks(h)) =>
          \A x \in mine[h] \ {call[h].op.id} : Complete(x)

IndInv ==
    /\ TypeOK
    /\ Orderly(prog)
    /\ QueuesSound
    /\ GridFront
    /\ CallsWait
    /\ LaunchesWait
    /\ OwnersSound
    /\ GpuSound
    /\ KidsSound
    /\ CtaStreamsSound
    /\ StreamsSound
    /\ MineAccounted
    /\ ZeroHeld

-----------------------------------------------------------------------------
(* Lists of streams. *)

\* A set of naturals with a member has a least one.
LEMMA LeastMember ==
    ASSUME NEW S \in SUBSET Nat, S # {}
    PROVE  \E x \in S : \A y \in S : x <= y
<1> DEFINE less == {ss \in Nat \X Nat : ss[1] < ss[2]}
<1>1. IsWellFoundedOn(less, Nat)
  BY NatLessThanWellFounded, Zenon DEF OpToRel
<1> HIDE DEF less
<1>2. \E x \in S : \A y \in S : <<y, x>> \notin less
  BY <1>1, WFMin
<1>3. PICK x \in S : \A y \in S : <<y, x>> \notin less
  BY <1>2
<1>4. ASSUME NEW y \in S PROVE x <= y
  <2>1. <<y, x>> \in Nat \X Nat
    OBVIOUS
  <2>2. ~(<<y, x>>[1] < <<y, x>>[2])
    BY <1>3, <2>1 DEF less
  <2>3. QED
    BY <2>2
<1>5. QED
  BY <1>4

\* Min finds a member of a set of positions.
LEMMA MinMember ==
    ASSUME NEW n \in Nat, NEW I \in SUBSET (1..n), I # {}
    PROVE  Min(I) \in I
<1>1. I \in SUBSET Nat
  OBVIOUS
<1>2. \E x \in I : \A y \in I : x <= y
  BY <1>1, LeastMember
<1>3. QED
  BY <1>2 DEF Min

\* What SelectInSeq returns: the first of the positions I of a list of length n, or 0.
LEMMA SelectFacts ==
    ASSUME NEW n \in Nat, NEW I \in SUBSET (1..n), NEW i, i = IF I # {} THEN Min(I) ELSE 0
    PROVE  /\ i \in 0..n
           /\ i # 0 => i \in I
           /\ I # {} => i \in I
<1>1. CASE I = {}
  BY <1>1
<1>2. CASE I # {}
  <2>1. Min(I) \in I
    BY <1>2, MinMember
  <2>2. i = Min(I)
    BY <1>2
  <2>3. i \in I /\ i \in 1..n
    BY <2>1, <2>2
  <2>4. QED
    BY <2>3
<1>3. QED
  BY <1>1, <1>2

\* RemoveFirst takes one occurrence of a stream out of a list.
LEMMA RemoveFacts ==
    ASSUME NEW S, NEW l \in Seq(S), NEW x, NEW r, r = RemoveFirst(l, x)
    PROVE  /\ r \in Seq(S)
           /\ ToSet(r) \subseteq ToSet(l)
           /\ \A y \in ToSet(l) : y # x => y \in ToSet(r)
<1>1. CASE \E j \in 1..Len(l) : l[j] = x
  <2>1. PICK i : i = SelectInSeq(l, LAMBDA v : v = x)
    OBVIOUS
  <2>2. i \in 1..Len(l) /\ l[i] = x
    <3>1. PICK I : I = {j \in 1..Len(l) : l[j] = x}
      OBVIOUS
    <3>2. i = IF I # {} THEN Min(I) ELSE 0
      BY <2>1, <3>1 DEF SelectInSeq
    <3>3. Len(l) \in Nat /\ I \in SUBSET (1..Len(l)) /\ I # {}
      BY <1>1, <3>1
    <3>4. i \in I
      BY <3>2, <3>3, SelectFacts
    <3>5. QED
      BY <3>1, <3>4
  <2>3. PICK a, b : a = SubSeq(l, 1, i - 1) /\ b = SubSeq(l, i + 1, Len(l))
    OBVIOUS
  <2>4. /\ a \in Seq(S) /\ Len(a) = i - 1
        /\ b \in Seq(S) /\ Len(b) = Len(l) - i
        /\ \A j \in 1..Len(a) : a[j] = l[j]
        /\ \A j \in 1..Len(b) : b[j] = l[i + j]
    <3>1. i \in Nat /\ i >= 1 /\ i <= Len(l) /\ Len(l) \in Nat
      BY <2>2
    <3>2. a \in Seq(S) /\ Len(a) = i - 1
      BY <2>3, <3>1
    <3>3. b \in Seq(S) /\ Len(b) = Len(l) - i
      BY <2>3, <3>1
    <3>4. \A j \in 1..Len(a) : a[j] = l[j]
      BY <2>3, <3>1, <3>2
    <3>5. \A j \in 1..Len(b) : b[j] = l[i + j]
      BY <2>3, <3>1, <3>3
    <3>6. QED
      BY <3>2, <3>3, <3>4, <3>5
  <2>5. r = a \o b
    BY <1>1, <2>1, <2>3 DEF RemoveFirst, RemoveAt
  <2>10. r \in Seq(S) /\ Len(r) = Len(l) - 1
    BY <2>2, <2>4, <2>5
  <2>6. \A j \in 1..Len(r) : r[j] = IF j < i THEN l[j] ELSE l[j + 1]
    <3>1. \A j \in 1..Len(r) : r[j] = IF j <= Len(a) THEN a[j] ELSE b[j - Len(a)]
      <4>1. a \in Seq(S) /\ b \in Seq(S)
        BY <2>4
      <4>2. \A j \in 1..(Len(a) + Len(b)) : (a \o b)[j] = IF j <= Len(a) THEN a[j] ELSE b[j - Len(a)]
        BY ONLY <4>1
      <4>3. Len(r) = Len(a) + Len(b)
        BY ONLY <4>1, <2>5
      <4>4. QED
        BY ONLY <4>2, <4>3, <2>5
    <3>2. ASSUME NEW j \in 1..Len(r) PROVE r[j] = IF j < i THEN l[j] ELSE l[j + 1]
      <4>1. CASE j < i
        BY <2>2, <2>4, <3>1, <4>1
      <4>2. CASE ~(j < i)
        <5>1. j - Len(a) \in 1..Len(b) /\ i + (j - Len(a)) = j + 1 /\ ~(j <= Len(a))
          BY <2>2, <2>4, <2>10, <4>2
        <5>2. QED
          BY <2>4, <3>1, <4>2, <5>1
      <4>3. QED
        BY <4>1, <4>2
    <3>3. QED
      BY <3>2
  <2>7. ASSUME NEW y \in ToSet(r) PROVE y \in ToSet(l)
    BY <2>2, <2>10, <2>6 DEF ToSet
  <2>8. ASSUME NEW y \in ToSet(l), y # x PROVE y \in ToSet(r)
    <3>1. PICK j \in 1..Len(l) : l[j] = y
      BY DEF ToSet
    <3>2. j # i
      BY <2>2, <2>8, <3>1
    <3>3. CASE j < i
      BY <2>2, <2>10, <2>6, <3>1, <3>3 DEF ToSet
    <3>4. CASE j > i
      <4>1. j - 1 \in 1..Len(r) /\ r[j - 1] = y
        BY <2>2, <2>10, <2>6, <3>1, <3>4
      <4>2. QED
        BY <2>10, <4>1 DEF ToSet
    <3>5. QED
      BY <2>2, <3>2, <3>3, <3>4
  <2>9. QED
    BY <2>10, <2>7, <2>8
<1>2. CASE ~\E j \in 1..Len(l) : l[j] = x
  BY <1>2 DEF RemoveFirst, ToSet
<1>3. QED
  BY <1>1, <1>2

\* Append adds a stream to a list.
LEMMA AppendFacts ==
    ASSUME NEW S, NEW l \in Seq(S), NEW x \in S
    PROVE  Append(l, x) \in Seq(S) /\ ToSet(Append(l, x)) = ToSet(l) \cup {x}
<1>1. Append(l, x) \in Seq(S) /\ Len(Append(l, x)) = Len(l) + 1
  OBVIOUS
<1>2. \A j \in 1..Len(l) : Append(l, x)[j] = l[j]
  OBVIOUS
<1>3. Append(l, x)[Len(l) + 1] = x
  OBVIOUS
<1>4. QED
  BY <1>1, <1>2, <1>3 DEF ToSet

\* A list is one of its own members' too.
LEMMA SeqLarger ==
    ASSUME NEW S, NEW T, S \subseteq T, NEW l \in Seq(S)
    PROVE  l \in Seq(T)
  OBVIOUS


-----------------------------------------------------------------------------
(* Queues of operations. *)
Queues == [AllStreams -> Seq(Operations)]

\* An operation is pushed on stream s.
Pushed(q, s, o) == [q EXCEPT ![s] = Append(@, o)]

\* Pushed appends the operation and leaves the other streams alone.
LEMMA PushFacts ==
    ASSUME NEW q \in Queues, NEW s \in AllStreams, NEW o \in Operations,
           NEW r, r = Pushed(q, s, o)
    PROVE  /\ r \in Queues
           /\ \A t \in AllStreams : t # s => r[t] = q[t]
           /\ r[s] # <<>>
           /\ \A t \in AllStreams : \A i \in DOMAIN q[t] : i \in DOMAIN r[t] /\ r[t][i] = q[t][i]
           /\ \A t \in AllStreams : \A i \in DOMAIN r[t] :
                 \/ i \in DOMAIN q[t] /\ r[t][i] = q[t][i]
                 \/ t = s /\ i = Len(q[s]) + 1 /\ r[t][i] = o
           /\ \A x : InOps(r, x) <=> InOps(q, x) \/ x = o.id
           /\ UniqueIds(q) /\ ~InOps(q, o.id) => UniqueIds(r)
<1>1. q[s] \in Seq(Operations) /\ Len(q[s]) \in Nat
  BY DEF Queues
<1>2. /\ r \in Queues
      /\ \A t \in AllStreams : t # s => r[t] = q[t]
      /\ r[s] = Append(q[s], o)
  BY DEF Queues, Pushed
<1>3. /\ Len(r[s]) = Len(q[s]) + 1 /\ r[s][Len(q[s]) + 1] = o
      /\ \A i \in 1..Len(q[s]) : r[s][i] = q[s][i]
  BY <1>1, <1>2
<1>4. \A t \in AllStreams : \A i \in DOMAIN q[t] : i \in DOMAIN r[t] /\ r[t][i] = q[t][i]
  <2>1. DOMAIN q[s] = 1..Len(q[s]) /\ DOMAIN r[s] = 1..(Len(q[s]) + 1)
    BY <1>1, <1>2, <1>3 DEF Queues
  <2>2. \A i \in DOMAIN q[s] : i \in DOMAIN r[s] /\ r[s][i] = q[s][i]
    BY <1>1, <1>3, <2>1
  <2>3. QED
    BY <1>2, <2>2
<1>5. ASSUME NEW t \in AllStreams, NEW i \in DOMAIN r[t]
      PROVE  \/ i \in DOMAIN q[t] /\ r[t][i] = q[t][i]
             \/ t = s /\ i = Len(q[s]) + 1 /\ r[t][i] = o
  <2>1. CASE t # s
    BY <1>2, <1>5, <2>1
  <2>2. CASE t = s
    <3>1. i \in 1..(Len(q[s]) + 1) /\ DOMAIN q[s] = 1..Len(q[s])
      BY <1>1, <1>2, <1>3, <1>5, <2>2 DEF Queues
    <3>2. i \in 1..Len(q[s]) \/ i = Len(q[s]) + 1
      BY <1>1, <3>1
    <3>3. QED
      BY <1>3, <2>2, <3>1, <3>2
  <2>3. QED
    BY <2>1, <2>2
<1>6. Len(q[s]) + 1 \in DOMAIN r[s]
  BY <1>1, <1>2, <1>3 DEF Queues
<1>7. \A x : InOps(r, x) <=> InOps(q, x) \/ x = o.id
  BY <1>3, <1>4, <1>5, <1>6 DEF InOps
<1>8. ASSUME UniqueIds(q), ~InOps(q, o.id) PROVE UniqueIds(r)
  <2> SUFFICES ASSUME NEW t \in AllStreams, NEW u \in AllStreams,
                      NEW i \in DOMAIN r[t], NEW j \in DOMAIN r[u], r[t][i].id = r[u][j].id
               PROVE  t = u /\ i = j
    BY DEF UniqueIds
  <2>1. CASE i \in DOMAIN q[t] /\ r[t][i] = q[t][i] /\ j \in DOMAIN q[u] /\ r[u][j] = q[u][j]
    BY <1>8, <2>1 DEF UniqueIds
  <2>2. i \in DOMAIN q[t] /\ r[t][i] = q[t][i] => r[t][i].id # o.id
    BY <1>8 DEF InOps
  <2>3. j \in DOMAIN q[u] /\ r[u][j] = q[u][j] => r[u][j].id # o.id
    BY <1>8 DEF InOps
  <2>4. QED
    BY <1>5, <2>1, <2>2, <2>3
<1>9. r[s] # <<>>
  BY <1>1, <1>3
<1>10. QED
  BY <1>2, <1>4, <1>5, <1>7, <1>8, <1>9

\* The front operations of the streams F leave.
Popped(q, F) == [s \in AllStreams |-> IF s \in F THEN Tail(q[s]) ELSE q[s]]

\* Popped takes the front operations of the streams F and nothing else.
LEMMA PopFacts ==
    ASSUME NEW q \in Queues, NEW F \in SUBSET AllStreams, \A s \in F : q[s] # <<>>,
           NEW r, r = Popped(q, F)
    PROVE  /\ r \in Queues
           /\ \A t \in AllStreams : t \notin F => r[t] = q[t]
           /\ \A t \in AllStreams : \A i \in DOMAIN r[t] : \E j \in DOMAIN q[t] : r[t][i] = q[t][j]
           /\ \A x : InOps(r, x) => InOps(q, x)
           /\ \A x : InOps(q, x) => InOps(r, x) \/ \E s \in F : q[s][1].id = x
           /\ UniqueIds(q) => UniqueIds(r) /\ \A s \in F : ~InOps(r, q[s][1].id)
<1> DEFINE sh(t) == IF t \in F THEN 1 ELSE 0
<1>1. \A t \in AllStreams : q[t] \in Seq(Operations) /\ Len(q[t]) \in Nat /\ DOMAIN q[t] = 1..Len(q[t])
  BY DEF Queues
<1>2. \A t \in F : Len(q[t]) > 0 /\ Tail(q[t]) \in Seq(Operations) /\ Len(Tail(q[t])) = Len(q[t]) - 1
  BY <1>1
<1>12. /\ r = [s \in AllStreams |-> r[s]]
       /\ \A t \in AllStreams : r[t] = IF t \in F THEN Tail(q[t]) ELSE q[t]
  BY DEF Popped
<1>3. r \in Queues /\ \A t \in AllStreams : t \notin F => r[t] = q[t]
  <2>1. \A t \in AllStreams : r[t] \in Seq(Operations)
    BY <1>1, <1>2, <1>12
  <2>2. QED
    BY <1>12, <2>1 DEF Queues
<1>13. ASSUME NEW t \in F
       PROVE  /\ r[t] \in Seq(Operations) /\ Len(r[t]) = Len(q[t]) - 1
              /\ \A i \in 1..(Len(q[t]) - 1) : r[t][i] = q[t][i + 1]
  <2>1. r[t] = Tail(q[t])
    BY <1>12
  <2>2. PICK a : a = q[t]
    OBVIOUS
  <2>3. a \in Seq(Operations) /\ Len(a) \in Nat /\ Len(a) > 0
    BY <1>1, <1>2, <2>2
  <2>4. \A i \in 1..(Len(a) - 1) : Tail(a)[i] = a[i + 1]
    BY <2>3
  <2>5. QED
    BY <1>2, <2>1, <2>2, <2>4
<1>4. \A t \in AllStreams : DOMAIN r[t] = 1..(Len(q[t]) - sh(t))
  <2>1. \A t \in AllStreams : t \in F => DOMAIN r[t] = 1..(Len(q[t]) - 1)
    BY <1>1, <1>13
  <2>2. \A t \in AllStreams : t \notin F => DOMAIN r[t] = 1..(Len(q[t]) - 0)
    BY <1>1, <1>3
  <2>3. QED
    BY <2>1, <2>2
<1>5. \A t \in AllStreams : \A i \in DOMAIN r[t] :
         i + sh(t) \in DOMAIN q[t] /\ r[t][i] = q[t][i + sh(t)]
  <2>1. ASSUME NEW t \in AllStreams, t \in F, NEW i \in DOMAIN r[t]
        PROVE  i + 1 \in DOMAIN q[t] /\ r[t][i] = q[t][i + 1]
    <3>1. Len(q[t]) \in Nat /\ DOMAIN q[t] = 1..Len(q[t])
      BY <1>1
    <3>2. r[t] \in Seq(Operations) /\ Len(r[t]) = Len(q[t]) - 1
      BY <1>13, <2>1
    <3>3. \A k \in 1..(Len(q[t]) - 1) : r[t][k] = q[t][k + 1]
      BY <1>13, <2>1
    <3>4. DOMAIN r[t] = 1..(Len(q[t]) - 1)
      BY <3>2
    <3>5. i \in 1..(Len(q[t]) - 1)
      BY <2>1, <3>4
    <3>6. i + 1 \in 1..Len(q[t])
      BY <3>1, <3>5
    <3>7. QED
      BY <3>1, <3>3, <3>5, <3>6
  <2>2. ASSUME NEW t \in AllStreams, t \notin F, NEW i \in DOMAIN r[t]
        PROVE  i + 0 \in DOMAIN q[t] /\ r[t][i] = q[t][i + 0]
    BY <1>1, <1>3, <2>2
  <2>3. QED
    BY <2>1, <2>2
<1>6. \A t \in AllStreams : \A i \in DOMAIN r[t] : \E j \in DOMAIN q[t] : r[t][i] = q[t][j]
  BY <1>5
<1>7. \A x : InOps(r, x) => InOps(q, x)
  BY <1>6 DEF InOps
<1>8. ASSUME NEW x, InOps(q, x) PROVE InOps(r, x) \/ \E s \in F : q[s][1].id = x
  <2>5. PICK t \in AllStreams : \E j \in DOMAIN q[t] : q[t][j].id = x
    BY <1>8 DEF InOps
  <2>1. PICK j \in DOMAIN q[t] : q[t][j].id = x
    BY <2>5
  <2>2. CASE t \in F /\ j = 1
    BY <2>1, <2>2
  <2>3. CASE ~(t \in F /\ j = 1)
    <3>4. j \in Nat /\ j >= 1 /\ j <= Len(q[t]) /\ Len(q[t]) \in Nat
      BY <1>1
    <3>5. sh(t) \in {0, 1} /\ j > sh(t)
      BY <2>3, <3>4
    <3>6. DOMAIN r[t] = 1..(Len(q[t]) - sh(t))
      BY <1>4
    <3> HIDE DEF sh
    <3>1. j - sh(t) \in DOMAIN r[t] /\ (j - sh(t)) + sh(t) = j
      BY <3>4, <3>5, <3>6
    <3>2. r[t][j - sh(t)] = q[t][j]
      BY <1>5, <3>1
    <3>3. QED
      BY <2>1, <3>1, <3>2 DEF InOps
  <2>4. QED
    BY <2>2, <2>3
<1>9. ASSUME UniqueIds(q) PROVE UniqueIds(r)
  <2> SUFFICES ASSUME NEW t \in AllStreams, NEW u \in AllStreams,
                      NEW i \in DOMAIN r[t], NEW j \in DOMAIN r[u], r[t][i].id = r[u][j].id
               PROVE  t = u /\ i = j
    BY DEF UniqueIds
  <2>1. t = u /\ i + sh(t) = j + sh(u)
    BY <1>5, <1>9 DEF UniqueIds
  <2>2. i \in Nat /\ j \in Nat
    BY <1>3 DEF Queues
  <2>3. QED
    BY <2>1, <2>2
<1>10. ASSUME UniqueIds(q), NEW s \in F PROVE ~InOps(r, q[s][1].id)
  <2>1. ASSUME NEW t \in AllStreams, NEW i \in DOMAIN r[t], r[t][i].id = q[s][1].id PROVE FALSE
    <3>1. 1 \in DOMAIN q[s]
      BY <1>1, <1>2
    <3>2. t = s /\ i + sh(t) = 1
      BY <1>5, <1>10, <2>1, <3>1 DEF UniqueIds
    <3>3. i \in Nat /\ i >= 1 /\ sh(t) = 1
      BY <1>3, <3>2 DEF Queues
    <3>4. QED
      BY <3>2, <3>3
  <2>2. QED
    BY <2>1 DEF InOps
<1>11. QED
  BY <1>3, <1>6, <1>7, <1>8, <1>9, <1>10

\* Two sequences in a row.
LEMMA ConcatFacts ==
    ASSUME NEW S, NEW a \in Seq(S), NEW b \in Seq(S), NEW c, c = a \o b
    PROVE  /\ c \in Seq(S) /\ Len(c) = Len(a) + Len(b) /\ DOMAIN c = 1..(Len(a) + Len(b))
           /\ \A i \in 1..Len(a) : c[i] = a[i]
           /\ \A j \in 1..Len(b) : c[Len(a) + j] = b[j]
<1>1. c \in Seq(S) /\ Len(c) = Len(a) + Len(b) /\ DOMAIN c = 1..(Len(a) + Len(b))
  OBVIOUS
<1>2. \A i \in 1..Len(a) : c[i] = a[i]
  OBVIOUS
<1>3. \A j \in 1..Len(b) : c[Len(a) + j] = b[j]
  OBVIOUS
<1>4. QED
  BY <1>1, <1>2, <1>3

\* A function on the positions 1..n is a sequence.
LEMMA FunSeq ==
    ASSUME NEW S, NEW n \in Nat, NEW f \in [1..n -> S]
    PROVE  f \in Seq(S) /\ Len(f) = n
  OBVIOUS

\* The operations of the children m, ..., m + n - 1 of a kernel.
LEMMA ChildOps ==
    ASSUME NEW n \in Nat, NEW m \in Nat, m > 0, m + n - 1 <= MaxOps,
           NEW new, new = [i \in 1..n |-> ChildOp(m + i - 1)]
    PROVE  /\ new \in Seq(Operations) /\ Len(new) = n
           /\ \A j \in 1..n : new[j] = ChildOp(m + j - 1) /\ new[j].id = m + j - 1
<1>1. \A j \in 1..n : m + j - 1 \in Ids
  BY BoundAssumption DEF Ids
<1>2. \A j \in 1..n : ChildOp(m + j - 1) \in Operations /\ ChildOp(m + j - 1).id = m + j - 1
  BY <1>1 DEF ChildOp, Operations
<1>3. new \in [1..n -> Operations] /\ \A j \in 1..n : new[j] = ChildOp(m + j - 1)
  BY <1>2
<1>4. new \in Seq(Operations) /\ Len(new) = n
  BY <1>3, FunSeq
<1>5. QED
  BY <1>2, <1>3, <1>4

\* n operations, with the identifiers m, ..., m + n - 1, follow on stream d of the queues q.
Extended(q, r, d, n, m) ==
    /\ r \in Queues
    /\ \A t \in AllStreams : t # d => r[t] = q[t]
    /\ DOMAIN r[d] = 1..(Len(q[d]) + n)
    /\ \A i \in 1..Len(q[d]) : r[d][i] = q[d][i]
    /\ \A j \in 1..n : r[d][Len(q[d]) + j].id = m + j - 1

\* The operations m, ..., m + n - 1 have joined stream d of the queues q.
Grown(q, r, d, n, m) ==
    /\ r \in Queues
    /\ \A t \in AllStreams : \A i \in DOMAIN q[t] : i \in DOMAIN r[t] /\ r[t][i] = q[t][i]
    /\ \A t \in AllStreams : \A i \in DOMAIN r[t] :
          \/ i \in DOMAIN q[t] /\ r[t][i] = q[t][i]
          \/ t = d /\ r[t][i].id \in m..(m + n - 1)
    /\ \A x : InOps(r, x) <=> InOps(q, x) \/ x \in m..(m + n - 1)
    /\ UniqueIds(q) /\ (\A x : InOps(q, x) => x < m) => UniqueIds(r)

\* What joins a stream is in the queues, and what was there stays where it was.
LEMMA GrowFacts ==
    ASSUME NEW q \in Queues, NEW r, NEW d \in AllStreams,
           NEW n \in Nat, n > 0, NEW m \in Nat, Extended(q, r, d, n, m)
    PROVE  Grown(q, r, d, n, m)
<1> PICK new : \A j \in 1..n : r[d][Len(q[d]) + j] = new[j]
  <2>1. \A j \in 1..n : r[d][Len(q[d]) + j] = [v \in 1..n |-> r[d][Len(q[d]) + v]][j]
    OBVIOUS
  <2>2. QED
    BY <2>1
<1> /\ r \in Queues
    /\ \A j \in 1..n : new[j].id = m + j - 1
    /\ \A t \in AllStreams : t # d => r[t] = q[t]
    /\ DOMAIN r[d] = 1..(Len(q[d]) + n)
    /\ \A i \in 1..Len(q[d]) : r[d][i] = q[d][i]
  BY DEF Extended
<1>1. \A t \in AllStreams : q[t] \in Seq(Operations) /\ Len(q[t]) \in Nat /\ DOMAIN q[t] = 1..Len(q[t])
  BY DEF Queues
<1>9. \A t \in AllStreams : \A i \in DOMAIN q[t] : i \in DOMAIN r[t] /\ r[t][i] = q[t][i]
  <2>1. ASSUME NEW t \in AllStreams, t # d, NEW i \in DOMAIN q[t] PROVE i \in DOMAIN r[t] /\ r[t][i] = q[t][i]
    BY <2>1
  <2>2. ASSUME NEW i \in DOMAIN q[d] PROVE i \in DOMAIN r[d] /\ r[d][i] = q[d][i]
    <3>1. i \in 1..Len(q[d]) /\ Len(q[d]) \in Nat
      BY <1>1
    <3>2. QED
      BY <3>1
  <2>3. QED
    BY <2>1, <2>2
<1>10. ASSUME NEW t \in AllStreams, NEW i \in DOMAIN r[t]
       PROVE  \/ i \in DOMAIN q[t] /\ r[t][i] = q[t][i]
              \/ t = d /\ \E j \in 1..n : i = Len(q[d]) + j /\ r[t][i] = new[j]
  <2>1. CASE t # d
    BY <2>1
  <2>2. CASE t = d /\ i <= Len(q[d])
    <3>1. Len(q[d]) \in Nat /\ DOMAIN q[d] = 1..Len(q[d])
      BY <1>1
    <3>2. i \in 1..(Len(q[d]) + n)
      BY <1>10, <2>2
    <3>3. i \in 1..Len(q[d])
      BY <2>2, <3>1, <3>2
    <3>4. QED
      BY <2>2, <3>1, <3>3
  <2>3. CASE t = d /\ i > Len(q[d])
    <3>1. PICK j : j = i - Len(q[d])
      OBVIOUS
    <3>2. j \in 1..n /\ i = Len(q[d]) + j
      BY <1>1, <2>3, <3>1, SMTT(40)
    <3>3. r[d][i] = new[j]
      BY <3>2
    <3>4. QED
      BY <2>3, <3>2, <3>3
  <2>4. (i \in Nat /\ Len(q[d]) \in Nat) \/ t # d
    BY <1>1
  <2>5. QED
    BY <2>1, <2>2, <2>3, <2>4
<1>11. \A j \in 1..n : Len(q[d]) + j \in DOMAIN r[d] /\ r[d][Len(q[d]) + j].id = m + j - 1
  <2>1. ASSUME NEW j \in 1..n PROVE r[d][Len(q[d]) + j].id = m + j - 1
    <3>1. r[d][Len(q[d]) + j] = new[j]
      OBVIOUS
    <3>2. QED
      BY <3>1
  <2>2. Len(q[d]) \in Nat
    BY <1>1
  <2>3. ASSUME NEW j \in 1..n PROVE Len(q[d]) + j \in 1..(Len(q[d]) + n)
    BY <2>2
  <2>4. QED
    BY <2>1, <2>3
<1>12. \A x : InOps(r, x) <=> InOps(q, x) \/ x \in m..(m + n - 1)
  <2>1. ASSUME NEW x, InOps(r, x) PROVE InOps(q, x) \/ x \in m..(m + n - 1)
    <3>5. PICK t \in AllStreams : \E i \in DOMAIN r[t] : r[t][i].id = x
      BY <2>1 DEF InOps
    <3>1. PICK i \in DOMAIN r[t] : r[t][i].id = x
      BY <3>5
    <3>2. CASE i \in DOMAIN q[t] /\ r[t][i] = q[t][i]
      BY <3>1, <3>2 DEF InOps
    <3>3. CASE \E j \in 1..n : r[t][i] = new[j]
      <4>1. PICK j \in 1..n : r[t][i] = new[j]
        BY <3>3
      <4>2. x = m + j - 1
        BY <3>1, <4>1
      <4>3. QED
        BY <4>2
    <3>4. QED
      BY <1>10, <3>2, <3>3
  <2>2. ASSUME NEW x, InOps(q, x) PROVE InOps(r, x)
    BY <1>9, <2>2 DEF InOps
  <2>3. ASSUME NEW x \in m..(m + n - 1) PROVE InOps(r, x)
    <3>1. x - m + 1 \in 1..n /\ m + (x - m + 1) - 1 = x
      OBVIOUS
    <3>2. QED
      BY <1>11, <3>1 DEF InOps
  <2>4. QED
    BY <2>1, <2>2, <2>3
<1>13. ASSUME UniqueIds(q), \A x : InOps(q, x) => x < m PROVE UniqueIds(r)
  <2>1. \A t \in AllStreams : \A i \in DOMAIN q[t] : q[t][i].id < m
    BY <1>13 DEF InOps
  <2>2. ASSUME NEW t \in AllStreams, NEW u \in AllStreams,
               NEW i \in DOMAIN r[t], NEW j \in DOMAIN r[u], r[t][i].id = r[u][j].id
        PROVE  t = u /\ i = j
    <3>1. CASE i \in DOMAIN q[t] /\ r[t][i] = q[t][i] /\ j \in DOMAIN q[u] /\ r[u][j] = q[u][j]
      <4>1. q[t][i].id = q[u][j].id
        BY <2>2, <3>1
      <4>2. \A a, b \in AllStreams : \A v \in DOMAIN q[a], w \in DOMAIN q[b] :
               q[a][v].id = q[b][w].id => a = b /\ v = w
        BY <1>13 DEF UniqueIds
      <4>3. QED
        BY <3>1, <4>1, <4>2
    <3>2. i \in DOMAIN q[t] /\ r[t][i] = q[t][i] => r[t][i].id < m
      BY <2>1
    <3>3. j \in DOMAIN q[u] /\ r[u][j] = q[u][j] => r[u][j].id < m
      BY <2>1
    <3>9. \A v \in 1..n : ~(m + v - 1 < m)
      OBVIOUS
    <3>4. \A v \in 1..n : r[t][i] = new[v] => r[t][i].id = m + v - 1 /\ ~(r[t][i].id < m)
      BY <3>9
    <3>5. \A v \in 1..n : r[u][j] = new[v] => r[u][j].id = m + v - 1 /\ ~(r[u][j].id < m)
      BY <3>9
    <3>6. \A v, w \in 1..n : m + v - 1 = m + w - 1 => v = w
      OBVIOUS
    <3>7. CASE /\ t = d /\ \E v \in 1..n : i = Len(q[d]) + v /\ r[t][i] = new[v]
               /\ u = d /\ \E v \in 1..n : j = Len(q[d]) + v /\ r[u][j] = new[v]
      <4>1. PICK v \in 1..n : i = Len(q[d]) + v /\ r[t][i] = new[v]
        BY <3>7
      <4>2. PICK w \in 1..n : j = Len(q[d]) + w /\ r[u][j] = new[w]
        BY <3>7
      <4>3. m + v - 1 = m + w - 1
        BY <2>2, <3>4, <3>5, <4>1, <4>2
      <4>4. v = w
        BY <3>6, <4>3
      <4>5. QED
        BY <3>7, <4>1, <4>2, <4>4
    <3>8. QED
      BY <1>10, <2>2, <3>1, <3>2, <3>3, <3>4, <3>5, <3>7
  <2>3. QED
    BY <2>2 DEF UniqueIds
<1>14. ASSUME NEW t \in AllStreams, NEW i \in DOMAIN r[t]
       PROVE  (i \in DOMAIN q[t] /\ r[t][i] = q[t][i]) \/ (t = d /\ r[t][i].id \in m..(m + n - 1))
  <2>1. \A j \in 1..n : m + j - 1 \in m..(m + n - 1)
    OBVIOUS
  <2>2. ASSUME NEW j \in 1..n, r[t][i] = new[j] PROVE r[t][i].id \in m..(m + n - 1)
    BY <2>1, <2>2
  <2>3. QED
    BY <1>10, <2>2
<1>15. QED
  BY <1>9, <1>12, <1>13, <1>14 DEF Grown

\* The children m, ..., m + n - 1 of a kernel are pushed on stream d.
Joined(q, d, n, m) ==
    [s \in AllStreams |-> q[s] \o [i \in 1..(IF s = d THEN n ELSE 0) |-> ChildOp(m + i - 1)]]

\* Joined appends the children to stream d and leaves the other streams alone.
LEMMA ChildrenFacts ==
    ASSUME NEW q \in Queues, NEW d \in AllStreams, NEW n \in Nat, n > 0, NEW m \in Nat, m > 0,
           m + n - 1 <= MaxOps, NEW r, r = Joined(q, d, n, m)
    PROVE  Extended(q, r, d, n, m)
<1>1. \A t \in AllStreams : q[t] \in Seq(Operations)
  BY DEF Queues
<1>2. \A t \in AllStreams : t # d => r[t] = q[t]
  <2>1. ASSUME NEW t \in AllStreams, t # d PROVE r[t] = q[t]
    <3>1. PICK z : z = [i \in 1..0 |-> ChildOp(m + i - 1)]
      OBVIOUS
    <3>2. r[t] = q[t] \o z
      BY <2>1, <3>1 DEF Joined
    <3>3. z = <<>>
      BY <3>1
    <3>4. QED
      BY <1>1, <3>2, <3>3
  <2>2. QED
    BY <2>1
<1>3. PICK new : new = [i \in 1..n |-> ChildOp(m + i - 1)]
  OBVIOUS
<1>4. PICK a : a = q[d]
  OBVIOUS
<1>5. PICK c : c = a \o new
  OBVIOUS
<1>6. new \in Seq(Operations) /\ Len(new) = n /\ \A j \in 1..n : new[j] = ChildOp(m + j - 1)
  BY <1>3, ChildOps
<1>7. a \in Seq(Operations)
  BY <1>1, <1>4
<1>8. /\ c \in Seq(Operations) /\ DOMAIN c = 1..(Len(a) + Len(new))
      /\ \A i \in 1..Len(a) : c[i] = a[i]
      /\ \A j \in 1..Len(new) : c[Len(a) + j] = new[j]
  <2>1. new \in Seq(Operations)
    BY <1>6
  <2>2. QED
    BY <1>5, <1>7, <2>1, ConcatFacts
<1>9. r[d] = c
  BY <1>3, <1>4, <1>5 DEF Joined
<1>10. r = [s \in AllStreams |-> r[s]]
  BY DEF Joined
<1>11. \A s \in AllStreams : r[s] \in Seq(Operations)
  BY <1>1, <1>2, <1>8, <1>9
<1>12. \A j \in 1..n : c[Len(a) + j].id = m + j - 1
  <2>1. ASSUME NEW j \in 1..n PROVE c[Len(a) + j] = ChildOp(m + j - 1)
    BY <1>6, <1>8
  <2>2. \A x : ChildOp(x).id = x
    BY DEF ChildOp
  <2>3. QED
    BY <2>1, <2>2
<1>13. QED
  BY <1>2, <1>4, <1>6, <1>8, <1>9, <1>10, <1>11, <1>12 DEF Queues, Extended


-----------------------------------------------------------------------------
(* A part of the invariant holds on when nothing it is about changes; the   *)
(* identifiers given out may grow.                                         *)


\* Later: identifiers may be given out, none is taken back.
Later == nextId \in Nat /\ nextId' \in Nat /\ nextId <= nextId'

\* Frame of QueuesSound.
LEMMA QueuesFrame ==
    ASSUME QueuesSound, applied \subseteq Ids, Later, UNCHANGED <<ops, applied, gridStream>>
    PROVE  QueuesSound'
<1>1. \A x \in Ids : x < nextId => x < nextId'
  BY DEF Later, Ids
<1>2. \A x : InOps(ops, x)' <=> InOps(ops, x)
  BY DEF InOps
<1>3. UniqueIds(ops)'
  BY DEF QueuesSound, UniqueIds
<1>4. QED
  BY <1>1, <1>2, <1>3 DEF QueuesSound

\* Frame of GridFront.
LEMMA GridFrame ==
    ASSUME GridFront, UNCHANGED <<ops, pending, gridStream>>
    PROVE  GridFront'
  BY DEF GridFront

\* The elements of a sequence.
LEMMA ElementOf ==
    ASSUME NEW S, NEW l \in Seq(S), NEW i \in DOMAIN l
    PROVE  l[i] \in S
  OBVIOUS

\* Frame of LaunchesWait.
LEMMA LaunchesFrame ==
    ASSUME LaunchesWait, devLaunch \in Seq([id : Ids, s : DevStreams]), Later,
           UNCHANGED <<devLaunch, ops, applied, parent, children, ctaStream>>
    PROVE  LaunchesWait'
<1>1. \A i \in DOMAIN devLaunch : devLaunch[i].id \in Ids
  <2>1. \A i \in DOMAIN devLaunch : devLaunch[i] \in [id : Ids, s : DevStreams]
    BY ElementOf
  <2>2. QED
    BY <2>1
<1>2. \A x : InOps(ops, x)' <=> InOps(ops, x)
  BY DEF InOps
<1>3. \A i \in DOMAIN devLaunch : NotYet(devLaunch[i].id)'
  <2>1. ASSUME NEW i \in DOMAIN devLaunch, NEW x, x = devLaunch[i].id PROVE NotYet(x)'
    <3>1. x \in Ids /\ NotYet(x)
      BY <1>1, <2>1 DEF LaunchesWait
    <3>2. QED
      BY <1>2, <3>1 DEF NotYet, Later, Ids
  <2>2. QED
    BY <2>1 DEF NotYet
<1>4. QED
  BY <1>3 DEF LaunchesWait

\* Frame of GpuSound.
LEMMA GpuFrame ==
    ASSUME GpuSound, UNCHANGED <<running, gridStream, applied, finished, prog, functional, simPc>>
    PROVE  GpuSound'
  BY DEF GpuSound

\* Frame of KidsSound.
LEMMA KidsFrame ==
    ASSUME KidsSound, Later, UNCHANGED <<children, gridStream, parent, applied, prog>>
    PROVE  KidsSound'
<1>1. \A x \in Ids : x < nextId => x < nextId'
  BY DEF Later, Ids
<1>2. QED
  BY <1>1 DEF KidsSound

\* Frame of CtaStreamsSound.
LEMMA CtaFrame ==
    ASSUME CtaStreamsSound,
           UNCHANGED <<ctaStream, created, prog, gridStream, applied, m_streams, toReap>>
    PROVE  CtaStreamsSound'
  BY DEF CtaStreamsSound

\* Frame of CallsWait.
LEMMA CallsFrame ==
    ASSUME CallsWait, UNCHANGED <<call, nextId, ops, applied>>
    PROVE  CallsWait'
  BY DEF CallsWait, NotYet, InOps

\* Frame of OwnersSound.
LEMMA OwnersFrame ==
    ASSUME OwnersSound, UNCHANGED <<call, mine, nextId, ops, parent>>
    PROVE  OwnersSound'
  BY DEF OwnersSound

\* Frame of StreamsSound.
LEMMA StreamsFrame ==
    ASSUME StreamsSound, UNCHANGED <<ops, m_streams, m_last_stream, recorded, prog, call>>
    PROVE  StreamsSound'
  BY DEF StreamsSound, Alive

\* Frame of MineAccounted.
LEMMA MineFrame ==
    ASSUME MineAccounted, UNCHANGED <<call, mine, applied, ops, parent>>
    PROVE  MineAccounted'
  BY DEF MineAccounted, Complete, InOps

\* Frame of ZeroHeld.
LEMMA ZeroFrame ==
    ASSUME ZeroHeld, UNCHANGED <<call, mine, applied, ops, parent, prog>>
    PROVE  ZeroHeld'
  BY DEF ZeroHeld, Complete, Blocks


-----------------------------------------------------------------------------
(* Calls of host threads. *)

\* What a call carries, by its place.
LEMMA CallFacts ==
    ASSUME NEW c \in CallTypes
    PROVE  /\ c.pc \in Pushes => /\ c.s \in AllStreams /\ c.op \in Operations /\ c.all \in BOOLEAN
                                 /\ c = [pc |-> c.pc, s |-> c.s, op |-> c.op, all |-> c.all]
           /\ c.pc \in {"streamSync", "destroyLock", "destroyErase"} =>
                 c.s \in Streams /\ c = [pc |-> c.pc, s |-> c.s]
           /\ c.pc \in {"idle", "sync", "exit", "gone", "eventSync", "streamSync", "destroyLock",
                        "destroyErase"} \cup Pushes
<1>1. CASE c \in [pc : {"idle", "sync", "exit", "gone"}]
  BY <1>1 DEF Pushes
<1>2. CASE c \in [pc : {"streamSync", "destroyLock", "destroyErase"}, s : Streams]
  BY <1>2 DEF Pushes
<1>3. CASE c \in [pc : {"eventSync"}, e : Events]
  BY <1>3 DEF Pushes
<1>4. CASE c \in [pc : {"block", "push", "drain", "next"}, s : AllStreams, op : Operations, all : BOOLEAN]
  BY <1>4 DEF Pushes
<1>5. QED
  BY <1>1, <1>2, <1>3, <1>4 DEF CallTypes

\* A call goes on to another place of the same function.
LEMMA GoesOn ==
    ASSUME NEW c \in CallTypes, NEW p
    PROVE  /\ c.pc \in Pushes /\ p \in Pushes =>
                 /\ [c EXCEPT !.pc = p] \in CallTypes
                 /\ [c EXCEPT !.pc = p].pc = p /\ [c EXCEPT !.pc = p].s = c.s
                 /\ [c EXCEPT !.pc = p].op = c.op /\ [c EXCEPT !.pc = p].all = c.all
           /\ /\ c.pc \in {"streamSync", "destroyLock"}
              /\ p \in {"destroyLock", "destroyErase"}
              => /\ [c EXCEPT !.pc = p] \in CallTypes
                 /\ [c EXCEPT !.pc = p].pc = p /\ [c EXCEPT !.pc = p].s = c.s
<1>1. ASSUME c.pc \in Pushes, p \in Pushes
      PROVE  /\ [c EXCEPT !.pc = p] \in CallTypes
             /\ [c EXCEPT !.pc = p].pc = p /\ [c EXCEPT !.pc = p].s = c.s
             /\ [c EXCEPT !.pc = p].op = c.op /\ [c EXCEPT !.pc = p].all = c.all
  <2>1. /\ c.s \in AllStreams /\ c.op \in Operations /\ c.all \in BOOLEAN
        /\ c = [pc |-> c.pc, s |-> c.s, op |-> c.op, all |-> c.all]
    BY <1>1, CallFacts
  <2>2. [c EXCEPT !.pc = p] = [pc |-> p, s |-> c.s, op |-> c.op, all |-> c.all]
    BY <2>1
  <2>3. [pc |-> p, s |-> c.s, op |-> c.op, all |-> c.all] \in CallTypes
    BY <1>1, <2>1 DEF CallTypes, Pushes
  <2>4. QED
    BY <2>2, <2>3
<1>2. ASSUME c.pc \in {"streamSync", "destroyLock"}, p \in {"destroyLock", "destroyErase"}
      PROVE  /\ [c EXCEPT !.pc = p] \in CallTypes
             /\ [c EXCEPT !.pc = p].pc = p /\ [c EXCEPT !.pc = p].s = c.s
  <2>1. c.s \in Streams /\ c = [pc |-> c.pc, s |-> c.s]
    BY <1>2, CallFacts
  <2>2. [c EXCEPT !.pc = p] = [pc |-> p, s |-> c.s]
    BY <2>1
  <2>3. [pc |-> p, s |-> c.s] \in CallTypes
    BY <1>2, <2>1 DEF CallTypes
  <2>4. QED
    BY <2>2, <2>3
<1>3. QED
  BY <1>1, <1>2

\* Where a host thread goes when push returns.
LEMMA AfterPushFacts ==
    ASSUME NEW c \in CallTypes, c.pc \in Pushes, NEW d, d = AfterPush(c)
    PROVE  /\ d \in CallTypes
           /\ d.pc \in {"idle", "next"}
           /\ d.pc = "next" => c.all /\ d.s = c.s /\ d.op = c.op /\ d.all = c.all
<1>1. CASE c.all
  <2>1. d = [c EXCEPT !.pc = "next"]
    BY <1>1 DEF AfterPush
  <2>2. "next" \in Pushes
    BY DEF Pushes
  <2>3. d \in CallTypes /\ d.pc = "next" /\ d.s = c.s /\ d.op = c.op /\ d.all = c.all
    BY <2>1, <2>2, GoesOn
  <2>4. QED
    BY <1>1, <2>3
<1>2. CASE ~c.all
  BY <1>2 DEF AfterPush, Idle, CallTypes
<1>3. QED
  BY <1>1, <1>2

\* A host thread enters a call that is not a push, or leaves one: nothing but its call,
\* m_lock and g_sim_done changes.
LEMMA GotoInd ==
    ASSUME IndInv, NEW h \in Hosts, NEW c \in CallTypes, call' = [call EXCEPT ![h] = c],
           UNCHANGED <<prog, ops, pending, m_streams, m_last_stream, created, gridStream, gpuVars,
                       updates, simVars, recorded, mine, nextId, applied>>,
           mlock' \in Hosts \cup {None}, g_sim_done' \in BOOLEAN,
           call[h].pc \notin {"block", "push"},
           call[h].pc = "drain" => ops[Zero] = <<>>,
           c.pc \notin {"block", "push", "drain"},
           c.pc = "next" => /\ call[h].pc \in Pushes /\ call[h].all
                            /\ c.op = call[h].op /\ c.all = call[h].all,
           c.pc \in {"streamSync", "destroyLock", "destroyErase"} =>
               prog.owner[c.s] = h /\ h \in prog.destroys
    PROVE  IndInv'
<1>1. call \in [Hosts -> CallTypes] /\ nextId \in Nat
  BY DEF IndInv, TypeOK
<1>2. call'[h] = c /\ \A g \in Hosts \ {h} : call'[g] = call[g]
  BY <1>1
<1>3. TypeOK'
  <2>1. call' \in [Hosts -> CallTypes]
    BY <1>1
  <2>2. QED
    BY <2>1 DEF IndInv, TypeOK, gpuVars, simVars
<1>4. Orderly(prog)'
  BY DEF IndInv, Orderly
<1>5. Later /\ UNCHANGED <<gpuVars, simVars>>
  BY <1>1 DEF Later
<1>6. QueuesSound'
  BY <1>5, QueuesFrame DEF IndInv, TypeOK
<1>7. GridFront'
  BY GridFrame DEF IndInv
<1>8. CallsWait'
  BY <1>2 DEF IndInv, CallsWait, NotYet, InOps
<1>9. LaunchesWait'
  BY <1>5, LaunchesFrame DEF IndInv, TypeOK, gpuVars
<1>10. OwnersSound'
  BY <1>2, <1>5 DEF IndInv, OwnersSound, Pushes, gpuVars
<1>11. GpuSound'
  BY <1>5, GpuFrame DEF IndInv, gpuVars, simVars
<1>12. KidsSound'
  BY <1>5, KidsFrame DEF IndInv, gpuVars
<1>13. CtaStreamsSound'
  BY <1>5, CtaFrame DEF IndInv, gpuVars, simVars
<1>14. StreamsSound'
  BY <1>2 DEF IndInv, StreamsSound, Alive, Pushes
<1>15. MineAccounted'
  BY <1>2, <1>5 DEF IndInv, MineAccounted, Complete, InOps, gpuVars
<1>16. ZeroHeld'
  <2>1. \A x : Complete(x)' <=> Complete(x)
    BY <1>5 DEF Complete, gpuVars
  <2>2. ASSUME NEW j \in DOMAIN ops[Zero], NEW g, g = ops[Zero][j].host
        PROVE  g \in Hosts /\ call'[g].pc = "drain" /\ call'[g].op.id = ops[Zero][j].id
    <3>1. g \in Hosts /\ call[g].pc = "drain" /\ call[g].op.id = ops[Zero][j].id
      BY <2>2 DEF IndInv, ZeroHeld
    <3>2. g # h
      BY <3>1
    <3>3. QED
      BY <1>2, <3>1, <3>2
  <2>3. QED
    BY <1>2, <2>1, <2>2 DEF IndInv, ZeroHeld, Blocks
<1>17. QED
  BY <1>3, <1>4, <1>6, <1>7, <1>8, <1>9, <1>10, <1>11, <1>12, <1>13, <1>14, <1>15, <1>16
     DEF IndInv


\* PushBlock: what the thread pushed before is complete, for no concurrent stream holds an
\* operation and on the NULL stream only threads that wait there have one.
LEMMA PushBlockInd ==
    ASSUME IndInv, NEW h \in Hosts, PushBlock(h)
    PROVE  IndInv'
<1>1. call \in [Hosts -> CallTypes] /\ nextId \in Nat /\ call[h].pc = "block"
  BY DEF IndInv, TypeOK, PushBlock
<1>2. PICK c : c = [call[h] EXCEPT !.pc = "push"]
  OBVIOUS
<1>3. c \in CallTypes /\ c.pc = "push" /\ c.s = call[h].s /\ c.op = call[h].op /\ c.all = call[h].all
  <2>1. call[h] \in CallTypes /\ call[h].pc \in Pushes /\ "push" \in Pushes
    BY <1>1 DEF Pushes
  <2>2. QED
    BY <1>2, <2>1, GoesOn
<1>4. call'[h] = c /\ \A g \in Hosts \ {h} : call'[g] = call[g]
  BY <1>1, <1>2 DEF PushBlock, Goto
<1>5. TypeOK'
  <2>1. call' \in [Hosts -> CallTypes]
    BY <1>1, <1>2, <1>3 DEF PushBlock, Goto
  <2>2. QED
    BY <2>1 DEF IndInv, TypeOK, gpuVars, simVars, streamVars, PushBlock
<1>6. Orderly(prog)'
  BY DEF IndInv, Orderly, PushBlock
<1>7. Later /\ UNCHANGED <<prog, streamVars, gridStream, gpuVars, simVars, recorded, mine, applied>>
  BY <1>1 DEF Later, PushBlock
<1>8. QueuesSound'
  BY <1>7, QueuesFrame DEF IndInv, TypeOK, streamVars
<1>9. GridFront'
  BY <1>7, GridFrame DEF IndInv, streamVars
<1>10. CallsWait'
  BY <1>1, <1>3, <1>4, <1>7 DEF IndInv, CallsWait, NotYet, InOps, streamVars, PushBlock
<1>11. LaunchesWait'
  BY <1>7, LaunchesFrame DEF IndInv, TypeOK, gpuVars, streamVars
<1>12. OwnersSound'
  BY <1>1, <1>3, <1>4, <1>7 DEF IndInv, OwnersSound, Pushes, gpuVars, streamVars, PushBlock
<1>13. GpuSound'
  BY <1>7, GpuFrame DEF IndInv, gpuVars, simVars
<1>14. KidsSound'
  BY <1>7, KidsFrame DEF IndInv, gpuVars
<1>15. CtaStreamsSound'
  BY <1>7, CtaFrame DEF IndInv, gpuVars, simVars, streamVars
<1>16. StreamsSound'
  BY <1>1, <1>3, <1>4, <1>7 DEF IndInv, StreamsSound, Alive, Pushes, streamVars
<1>17. MineAccounted'
  BY <1>1, <1>3, <1>4, <1>7 DEF IndInv, MineAccounted, Complete, InOps, gpuVars, streamVars
<1>18. ZeroHeld'
  <2>1. \A x : Complete(x)' <=> Complete(x)
    BY <1>7 DEF Complete, gpuVars
  <2>2. ASSUME NEW x \in mine[h], x # call[h].op.id PROVE Complete(x)
    <3>1. ~InOps(ops, x)
      <4>1. SUFFICES ASSUME NEW s \in AllStreams, NEW i \in DOMAIN ops[s], ops[s][i].id = x
                     PROVE  FALSE
        BY DEF InOps
      <4>2. ops[s] # <<>> /\ ops[s][i].host = h
        BY <4>1 DEF IndInv, OwnersSound
      <4>3. s = Zero
        BY <4>2 DEF IndInv, StreamsSound, Alive, PushBlock, concurrent_streams_empty
      <4>4. call[h].pc = "drain"
        BY <4>2, <4>3 DEF IndInv, ZeroHeld
      <4>5. QED
        BY <1>1, <4>4
    <3>2. QED
      BY <1>1, <2>2, <3>1 DEF IndInv, MineAccounted
  <2>3. ASSUME NEW g \in Hosts, g # h, call'[g].pc = "drain" \/ (call'[g].pc = "push" /\ Blocks(g)'),
               NEW x \in mine[g] \ {call'[g].op.id}
        PROVE  Complete(x)
    BY <1>4, <1>7, <2>3 DEF IndInv, ZeroHeld, Blocks
  <2>4. ASSUME NEW j \in DOMAIN ops[Zero], NEW g, g = ops[Zero][j].host
        PROVE  g \in Hosts /\ call'[g].pc = "drain" /\ call'[g].op.id = ops[Zero][j].id
    BY <1>1, <1>4, <2>4 DEF IndInv, ZeroHeld
  <2>5. QED
    BY <1>3, <1>4, <1>7, <2>1, <2>2, <2>3, <2>4 DEF ZeroHeld, streamVars
<1>19. QED
  BY <1>5, <1>6, <1>8, <1>9, <1>10, <1>11, <1>12, <1>13, <1>14, <1>15, <1>16, <1>17, <1>18
     DEF IndInv

\* A host thread calls push with a new operation.
LEMMA NewOperationInd ==
    ASSUME IndInv, NEW h \in Hosts, NEW s \in AllStreams, NEW type \in {"copy", "kernel", "event", "wait"},
           NEW e \in Events \cup {None}, NEW cnt \in Nat, NEW all \in BOOLEAN,
           NewOperation(h, s, type, e, cnt, all),
           call[h].pc \in {"idle", "next"},
           \/ s = Zero
           \/ /\ s \in ToSet(m_streams)
              /\ \/ s \in Streams /\ prog.owner[s] = h
                 \/ prog.destroys = {} /\ ~prog.children,
           all => e \in Events /\ prog.destroys = {} /\ ~prog.children,
           recorded' \in [Events -> Seq(Ids)],
           \A x \in Events : recorded'[x] # <<>> => prog.recordOn[x] # {}
    PROVE  IndInv'
<1>1. /\ call \in [Hosts -> CallTypes] /\ nextId \in Ids /\ nextId' = nextId + 1
      /\ nextId' \in 1..MaxOps + 1 /\ mine \in [Hosts -> SUBSET Ids]
  <2>1. prog.ops \in 0..MaxOps
    BY ProgramsAssumption DEF IndInv, TypeOK
  <2>2. nextId \in Nat /\ nextId >= 1 /\ nextId <= prog.ops /\ nextId' = nextId + 1
    BY DEF IndInv, TypeOK, NewOperation
  <2>3. MaxOps \in Nat
    BY BoundAssumption
  <2>4. nextId \in Ids /\ nextId' \in 1..MaxOps + 1
    BY <2>1, <2>2, <2>3 DEF Ids
  <2>5. QED
    BY <2>2, <2>4 DEF IndInv, TypeOK
<1>2. PICK c : c = PushCall(h, s, type, e, cnt, all)
  OBVIOUS
<1>3. /\ c \in CallTypes /\ c.pc \in {"block", "push"} /\ c.s = s /\ c.all = all
      /\ c.op.id = nextId /\ c.op.host = h /\ c.op.e = e
      /\ c.pc = "push" => s # Zero /\ ~prog.launchBlocking
  <2>1. PICK o : o = [id |-> nextId, type |-> type, e |-> e, cnt |-> cnt, host |-> h]
    OBVIOUS
  <2>2. o \in Operations /\ o.id = nextId /\ o.host = h /\ o.e = e
    BY <1>1, <2>1 DEF Operations
  <2>3. PICK p : p = IF s = Zero \/ prog.launchBlocking THEN "block" ELSE "push"
    OBVIOUS
  <2>4. c = [pc |-> p, s |-> s, all |-> all, op |-> o]
    BY <1>2, <2>1, <2>3 DEF PushCall
  <2>5. p \in {"block", "push"} /\ (p = "push" => s # Zero /\ ~prog.launchBlocking)
    BY <2>3
  <2>6. c \in CallTypes
    BY <2>2, <2>4, <2>5 DEF CallTypes
  <2>7. QED
    BY <2>2, <2>4, <2>5, <2>6
<1>4. /\ call' = [call EXCEPT ![h] = c] /\ call'[h] = c
      /\ \A g \in Hosts \ {h} : call'[g] = call[g]
  BY <1>1, <1>2 DEF NewOperation, Goto
<1>5. /\ mine' \in [Hosts -> SUBSET Ids] /\ mine'[h] = mine[h] \cup {nextId}
      /\ \A g \in Hosts \ {h} : mine'[g] = mine[g]
  BY <1>1 DEF NewOperation
<1>6. UNCHANGED <<prog, streamVars, gridStream, gpuVars, updates, simVars, g_sim_done, applied>>
  BY DEF NewOperation
<1>7. Later /\ nextId \in Nat
  BY <1>1 DEF Later, Ids
<1>8. TypeOK'
  <2>1. call' \in [Hosts -> CallTypes]
    BY <1>1, <1>3, <1>4
  <2>2. QED
    BY <1>1, <1>5, <1>6, <2>1 DEF IndInv, TypeOK, gpuVars, simVars, streamVars
<1>9. Orderly(prog)'
  BY <1>6 DEF IndInv, Orderly
<1>10. QueuesSound'
  BY <1>6, <1>7, QueuesFrame DEF IndInv, TypeOK, streamVars
<1>11. GridFront'
  BY <1>6, GridFrame DEF IndInv, streamVars
<1>12. LaunchesWait'
  BY <1>6, <1>7, LaunchesFrame DEF IndInv, TypeOK, gpuVars, streamVars
<1>13. GpuSound'
  BY <1>6, GpuFrame DEF IndInv, gpuVars, simVars
<1>14. KidsSound'
  BY <1>6, <1>7, KidsFrame DEF IndInv, gpuVars
<1>15. CtaStreamsSound'
  BY <1>6, CtaFrame DEF IndInv, gpuVars, simVars, streamVars
<1>16. nextId \notin applied /\ ~InOps(ops, nextId)
  BY <1>1, <1>7 DEF IndInv, QueuesSound
<1>17. \A x : Complete(x)' <=> Complete(x)
  BY <1>6 DEF Complete, gpuVars
<1>18. \A x : InOps(ops, x)' <=> InOps(ops, x)
  BY <1>6 DEF InOps, streamVars
<1>19. CallsWait'
  <2>1. ASSUME NEW g \in Hosts \ {h}, call[g].pc \in {"block", "push"} PROVE NotYet(call[g].op.id)'
    <3>1. NotYet(call[g].op.id) /\ call[g].op.id \in Ids
      <4>1. call[g] \in CallTypes /\ call[g].pc \in Pushes
        BY <1>1, <2>1 DEF Pushes
      <4>2. call[g].op \in Operations
        BY <4>1, CallFacts
      <4>3. QED
        BY <2>1, <4>2 DEF IndInv, CallsWait, Operations
    <3>2. call'[g].op.id = call[g].op.id
      BY <1>4
    <3>3. QED
      BY <1>6, <1>7, <1>18, <3>1, <3>2 DEF NotYet, Later, Ids
  <2>2. NotYet(call[h].op.id)'
    BY <1>1, <1>3, <1>4, <1>6, <1>7, <1>16, <1>18 DEF NotYet
  <2>3. QED
    BY <1>4, <2>1, <2>2 DEF CallsWait
<1>20. OwnersSound'
  <2>1. parent[nextId] = None /\ \A g \in Hosts : nextId \notin mine[g]
    BY <1>1, <1>7 DEF IndInv, OwnersSound, KidsSound
  <2>2. \A g \in Hosts : \A x \in mine[g] : x < nextId'
    BY <1>1, <1>7 DEF IndInv, OwnersSound, Ids
  <2>3. \A t \in AllStreams : \A i \in DOMAIN ops[t] : ops[t][i].id # nextId
    BY <1>16 DEF InOps
  <2>4. ASSUME NEW g \in Hosts, NEW x \in mine'[g]
        PROVE  /\ x < nextId' /\ parent[x] = None
               /\ \A f \in Hosts \ {g} : x \notin mine'[f]
               /\ \A t \in AllStreams : \A i \in DOMAIN ops[t] : ops[t][i].id = x => ops[t][i].host = g
    <3>1. CASE x = nextId /\ g = h
      BY <1>1, <1>5, <1>7, <2>1, <2>3, <3>1
    <3>2. CASE x \in mine[g]
      BY <1>5, <2>1, <2>2, <2>4, <3>2 DEF IndInv, OwnersSound
    <3>3. QED
      BY <1>5, <2>4, <3>1, <3>2
  <2>5. ASSUME NEW g \in Hosts, call'[g].pc \in Pushes
        PROVE  call'[g].op.id \in mine'[g] /\ call'[g].op.host = g
    BY <1>3, <1>4, <1>5, <2>5 DEF IndInv, OwnersSound
  <2>6. QED
    BY <1>6, <2>4, <2>5 DEF OwnersSound, gpuVars, streamVars
<1>21. StreamsSound'
  <2> DEFINE Reach(t, g) == \/ t = Zero
                            \/ /\ t \in ToSet(m_streams)
                               /\ \/ t \in Streams /\ prog.owner[t] = g
                                  \/ prog.destroys = {} /\ ~prog.children
  <2>1. UNCHANGED <<prog, ops, m_streams, m_last_stream>>
    BY <1>6 DEF streamVars
  <2>2. ASSUME NEW g \in Hosts, call'[g].pc \in {"block", "push"}
        PROVE  Reach(call'[g].s, g)
    <3>1. CASE g = h
      BY <1>3, <1>4, <3>1
    <3>2. CASE g # h
      BY <1>4, <2>2, <3>2 DEF IndInv, StreamsSound
    <3>3. QED
      BY <3>1, <3>2
  <2>3. ASSUME NEW g \in Hosts, call'[g].pc = "next" \/ (call'[g].pc \in Pushes /\ call'[g].all)
        PROVE  call'[g].op.e \in Events /\ prog.destroys = {} /\ ~prog.children
    <3>1. CASE g = h
      BY <1>3, <1>4, <2>3, <3>1
    <3>2. CASE g # h
      BY <1>4, <2>3, <3>2 DEF IndInv, StreamsSound
    <3>3. QED
      BY <3>1, <3>2
  <2>4. ASSUME NEW g \in Hosts, call'[g].pc \in {"streamSync", "destroyLock", "destroyErase"}
        PROVE  prog.owner[call'[g].s] = g /\ g \in prog.destroys
    <3>1. g # h
      BY <1>3, <1>4, <2>4
    <3>2. QED
      BY <1>4, <2>4, <3>1 DEF IndInv, StreamsSound
  <2>5. QED
    BY <2>1, <2>2, <2>3, <2>4 DEF IndInv, StreamsSound, Alive
<1>22. MineAccounted'
  <2>1. ASSUME NEW g \in Hosts, NEW x \in mine'[g]
        PROVE  \/ Complete(x) \/ InOps(ops, x)
               \/ call'[g].pc \in {"block", "push"} /\ call'[g].op.id = x
    BY <1>3, <1>4, <1>5, <2>1 DEF IndInv, MineAccounted
  <2>2. QED
    BY <1>17, <1>18, <2>1 DEF MineAccounted
<1>23. ZeroHeld'
  <2>1. ASSUME NEW j \in DOMAIN ops[Zero], NEW g, g = ops[Zero][j].host
        PROVE  g \in Hosts /\ call'[g].pc = "drain" /\ call'[g].op.id = ops[Zero][j].id
    BY <1>4, <2>1 DEF IndInv, ZeroHeld
  <2>2. ~(call'[h].pc = "drain" \/ (call'[h].pc = "push" /\ Blocks(h)'))
    BY <1>3, <1>4, <1>6 DEF Blocks
  <2>3. ASSUME NEW g \in Hosts, g # h, call'[g].pc = "drain" \/ (call'[g].pc = "push" /\ Blocks(g)'),
               NEW x \in mine'[g] \ {call'[g].op.id}
        PROVE  Complete(x)
    BY <1>4, <1>5, <1>6, <2>3 DEF IndInv, ZeroHeld, Blocks
  <2>4. QED
    BY <1>6, <1>17, <2>1, <2>2, <2>3 DEF ZeroHeld, streamVars
<1>24. QED
  BY <1>8, <1>9, <1>10, <1>11, <1>12, <1>13, <1>14, <1>15, <1>19, <1>20, <1>21, <1>22, <1>23
     DEF IndInv


\* The calls that push a new operation.
LEMMA EnqueueInd ==
    ASSUME IndInv, NEW h \in Hosts, NEW s \in Streams \cup {Zero}, NEW type \in prog.enqueues,
           Enqueue(h, s, type)
    PROVE  IndInv'
<1>1. s \in AllStreams /\ None \in Events \cup {None} /\ 0 \in Nat /\ FALSE \in BOOLEAN
  BY DEF AllStreams
<1>2. type \in {"copy", "kernel", "event", "wait"}
  BY ProgramsAssumption DEF IndInv, TypeOK
<1>3. NewOperation(h, s, type, None, 0, FALSE)
  BY Zenon DEF Enqueue
<1>11. call[h].pc \in {"idle", "next"}
  BY DEF Enqueue, Starts, Idle
<1>4. s = Zero \/ (s \in ToSet(m_streams) /\ s \in Streams /\ prog.owner[s] = h)
  BY DEF Enqueue, Usable
<1>5. recorded' \in [Events -> Seq(Ids)] /\ \A x \in Events : recorded'[x] # <<>> => prog.recordOn[x] # {}
  BY DEF Enqueue, IndInv, TypeOK, StreamsSound
<1>6. QED
  BY <1>1, <1>2, <1>3, <1>11, <1>4, <1>5, NewOperationInd

\* cudaEventRecord.
LEMMA EventRecordInd ==
    ASSUME IndInv, NEW h \in Hosts, NEW e \in Events, NEW s \in Streams \cup {Zero}, EventRecord(h, e, s)
    PROVE  IndInv'
<1>1. s \in AllStreams /\ e \in Events \cup {None} /\ 0 \in Nat /\ FALSE \in BOOLEAN
  BY DEF AllStreams
<1>3. NewOperation(h, s, "event", e, 0, FALSE)
  BY Zenon DEF EventRecord
<1>11. call[h].pc \in {"idle", "next"}
  BY DEF EventRecord, Starts, Idle
<1>4. s = Zero \/ (s \in ToSet(m_streams) /\ s \in Streams /\ prog.owner[s] = h)
  BY DEF EventRecord, Usable
<1>5. recorded' \in [Events -> Seq(Ids)] /\ \A x \in Events : recorded'[x] # <<>> => prog.recordOn[x] # {}
  <2>1. nextId \in Ids
    <3>1. prog.ops \in 0..MaxOps
      BY ProgramsAssumption DEF IndInv, TypeOK
    <3>2. QED
      BY <1>3, <3>1, BoundAssumption DEF IndInv, TypeOK, NewOperation, Ids
  <2>2. recorded \in [Events -> Seq(Ids)] /\ recorded' = [recorded EXCEPT ![e] = Append(@, nextId)]
    BY DEF IndInv, TypeOK, EventRecord
  <2>3. recorded' \in [Events -> Seq(Ids)] /\ \A x \in Events : x # e => recorded'[x] = recorded[x]
    BY <2>1, <2>2
  <2>4. prog.recordOn[e] # {}
    BY DEF EventRecord
  <2>5. QED
    BY <2>3, <2>4 DEF IndInv, StreamsSound
<1>6. QED
  BY <1>1, <1>3, <1>11, <1>4, <1>5, NewOperationInd

\* cudaStreamWaitEvent on one stream.
LEMMA StreamWaitEventInd ==
    ASSUME IndInv, NEW h \in Hosts, NEW e \in Events, NEW s \in Streams, StreamWaitEvent(h, e, s)
    PROVE  IndInv'
<1>1. s \in AllStreams /\ e \in Events \cup {None} /\ FALSE \in BOOLEAN
  BY DEF AllStreams
<1>2. PICK cnt : cnt = num_issued(e)
  OBVIOUS
<1>3. NewOperation(h, s, "wait", e, cnt, FALSE)
  BY <1>2, Zenon DEF StreamWaitEvent
<1>11. call[h].pc \in {"idle", "next"}
  BY DEF StreamWaitEvent, Starts, Idle
<1>4. s \in ToSet(m_streams) /\ s \in Streams /\ prog.owner[s] = h
  BY DEF StreamWaitEvent, Usable
<1>5. recorded' \in [Events -> Seq(Ids)] /\ \A x \in Events : recorded'[x] # <<>> => prog.recordOn[x] # {}
  BY DEF StreamWaitEvent, IndInv, TypeOK, StreamsSound
<1>6. cnt \in Nat
  BY <1>2 DEF num_issued, IndInv, TypeOK
<1>7. QED
  BY <1>1, <1>3, <1>11, <1>4, <1>5, <1>6, NewOperationInd

\* The first wait of pushCudaStreamWaitEventToAllStreams.
LEMMA WaitEventOnAllInd ==
    ASSUME IndInv, NEW h \in Hosts, NEW e \in Events, WaitEventOnAll(h, e)
    PROVE  IndInv'
<1>1. PICK s : s = Head(m_streams)
  OBVIOUS
<1>2. PICK cnt : cnt = num_issued(e)
  OBVIOUS
<1>3. NewOperation(h, s, "wait", e, cnt, TRUE)
  BY <1>1, <1>2, Zenon DEF WaitEventOnAll
<1>11. call[h].pc \in {"idle", "next"}
  BY DEF WaitEventOnAll, Starts, Idle
<1>4. s \in ToSet(m_streams) /\ s \in AllStreams
  <2>1. m_streams \in Seq(created) /\ m_streams # <<>> /\ created \subseteq AllStreams
    BY DEF IndInv, TypeOK, WaitEventOnAll, AllStreams
  <2>2. 1 \in DOMAIN m_streams /\ s = m_streams[1] /\ s \in created
    BY <1>1, <2>1
  <2>3. QED
    BY <2>1, <2>2 DEF ToSet
<1>5. recorded' \in [Events -> Seq(Ids)] /\ \A x \in Events : recorded'[x] # <<>> => prog.recordOn[x] # {}
  BY DEF WaitEventOnAll, IndInv, TypeOK, StreamsSound
<1>6. cnt \in Nat /\ recorded[e] # <<>>
  BY <1>2 DEF num_issued, IndInv, TypeOK, WaitEventOnAll
<1>7. prog.recordOn[e] # {} /\ prog.waitAll
  BY <1>6 DEF IndInv, StreamsSound, WaitEventOnAll
<1>8. prog.destroys = {} /\ ~prog.children
  BY <1>7 DEF IndInv, Orderly
<1>9. e \in Events \cup {None} /\ TRUE \in BOOLEAN
  OBVIOUS
<1>10. QED
  BY <1>3, <1>11, <1>4, <1>5, <1>6, <1>8, <1>9, NewOperationInd

\* Its further waits, and its return.
LEMMA WaitEventOnNextInd ==
    ASSUME IndInv, NEW h \in Hosts, WaitEventOnNext(h)
    PROVE  IndInv'
<1>1. call[h] \in CallTypes /\ call[h].pc = "next" /\ call \in [Hosts -> CallTypes]
  BY DEF IndInv, TypeOK, WaitEventOnNext
<1>2. CASE ~(Position(call[h].s) < Len(m_streams) /\ nextId <= prog.ops)
  <2>1. call' = [call EXCEPT ![h] = Idle]
    BY <1>2 DEF WaitEventOnNext, Goto
  <2>2. Idle \in CallTypes /\ Idle.pc = "idle"
    BY DEF Idle, CallTypes
  <2>3. UNCHANGED <<prog, ops, pending, m_streams, m_last_stream, created, gridStream, gpuVars,
                    updates, simVars, recorded, mine, nextId, applied, mlock, g_sim_done>>
    BY <1>2 DEF WaitEventOnNext, streamVars
  <2>4. mlock' \in Hosts \cup {None} /\ g_sim_done' \in BOOLEAN
    BY <2>3 DEF IndInv, TypeOK
  <2>5. QED
    BY <1>1, <2>1, <2>2, <2>3, <2>4, GotoInd
<1>3. CASE Position(call[h].s) < Len(m_streams) /\ nextId <= prog.ops
  <2>1. PICK e, cnt : e = call[h].op.e /\ cnt = num_issued(e)
    OBVIOUS
  <2>2. PICK i, s : i = Position(call[h].s) /\ s = m_streams[i + 1]
    OBVIOUS
  <2>3. NewOperation(h, s, "wait", e, cnt, TRUE)
    BY <1>3, <2>1, <2>2, Zenon DEF WaitEventOnNext
  <2>4. e \in Events /\ prog.destroys = {} /\ ~prog.children
    BY <1>1, <2>1 DEF IndInv, StreamsSound, Pushes
  <2>5. cnt \in Nat
    BY <2>1, <2>4 DEF num_issued, IndInv, TypeOK
  <2>6. s \in ToSet(m_streams) /\ s \in AllStreams
    <3>1. m_streams \in Seq(created) /\ created \subseteq AllStreams
      BY DEF IndInv, TypeOK, AllStreams
    <3>2. i \in 0..Len(m_streams)
      <4>1. PICK I : I = {j \in 1..Len(m_streams) : m_streams[j] = call[h].s}
        OBVIOUS
      <4>2. i = IF I # {} THEN Min(I) ELSE 0
        BY <2>2, <4>1 DEF Position, SelectInSeq
      <4>3. Len(m_streams) \in Nat /\ I \in SUBSET (1..Len(m_streams))
        BY <3>1, <4>1
      <4>4. QED
        BY <4>2, <4>3, SelectFacts
    <3>3. i + 1 \in 1..Len(m_streams)
      BY <1>3, <2>2, <3>1, <3>2
    <3>4. QED
      BY <2>2, <3>1, <3>3 DEF ToSet
  <2>7. recorded' \in [Events -> Seq(Ids)] /\ \A x \in Events : recorded'[x] # <<>> => prog.recordOn[x] # {}
    BY DEF WaitEventOnNext, IndInv, TypeOK, StreamsSound
  <2>8. e \in Events \cup {None} /\ TRUE \in BOOLEAN /\ call[h].pc \in {"idle", "next"}
    BY <1>1, <2>4
  <2>9. QED
    BY <2>3, <2>4, <2>5, <2>6, <2>7, <2>8, NewOperationInd
<1>4. QED
  BY <1>2, <1>3


\* A blocking push returns when every stream is empty.
LEMMA PushDrainInd ==
    ASSUME IndInv, NEW h \in Hosts, PushDrain(h)
    PROVE  IndInv'
<1>1. call[h] \in CallTypes /\ call[h].pc = "drain" /\ call[h].pc \in Pushes
  BY DEF IndInv, TypeOK, PushDrain, Pushes
<1>2. PICK c : c = AfterPush(call[h])
  OBVIOUS
<1>3. /\ c \in CallTypes /\ c.pc \in {"idle", "next"}
      /\ c.pc = "next" => call[h].all /\ c.s = call[h].s /\ c.op = call[h].op /\ c.all = call[h].all
  BY <1>1, <1>2, AfterPushFacts
<1>4. call' = [call EXCEPT ![h] = c]
  BY <1>2 DEF PushDrain, Goto
<1>5. UNCHANGED <<prog, ops, pending, m_streams, m_last_stream, created, gridStream, gpuVars,
                  updates, simVars, recorded, mine, nextId, applied, mlock, g_sim_done>>
  BY DEF PushDrain, streamVars
<1>6. mlock' \in Hosts \cup {None} /\ g_sim_done' \in BOOLEAN
  BY <1>5 DEF IndInv, TypeOK
<1>7. ops[Zero] = <<>>
  BY DEF PushDrain, empty
<1>8. QED
  BY <1>1, <1>3, <1>4, <1>5, <1>6, <1>7, GotoInd

\* Calls that wait.
LEMMA StartWaitInd ==
    ASSUME IndInv, NEW h \in Hosts, StartWait(h)
    PROVE  IndInv'
<1>1. call[h].pc = "idle"
  BY DEF StartWait, Starts, Idle
<1>2. PICK c \in CallTypes : /\ call' = [call EXCEPT ![h] = c]
                             /\ c.pc \in {"sync", "eventSync", "streamSync", "exit"}
                             /\ c.pc = "streamSync" => prog.owner[c.s] = h /\ h \in prog.destroys
  <2>1. CASE Goto(h, [pc |-> "sync"])
    <3>1. [pc |-> "sync"] \in CallTypes
      BY DEF CallTypes
    <3>2. QED
      BY <2>1, <3>1 DEF Goto
  <2>2. CASE \E e \in Events : Goto(h, [pc |-> "eventSync", e |-> e])
    <3>1. \A e \in Events : [pc |-> "eventSync", e |-> e] \in CallTypes
      BY DEF CallTypes
    <3>2. QED
      BY <2>2, <3>1 DEF Goto
  <2>3. CASE \E s \in Usable(h) : h \in prog.destroys /\ Goto(h, [pc |-> "streamSync", s |-> s])
    <3>1. \A s \in Streams : [pc |-> "streamSync", s |-> s] \in CallTypes
      BY DEF CallTypes
    <3>2. QED
      BY <2>3, <3>1 DEF Goto, Usable
  <2>4. CASE Goto(h, [pc |-> "exit"])
    <3>1. [pc |-> "exit"] \in CallTypes
      BY DEF CallTypes
    <3>2. QED
      BY <2>4, <3>1 DEF Goto
  <2>5. QED
    BY <2>1, <2>2, <2>3, <2>4 DEF StartWait
<1>3. UNCHANGED <<prog, ops, pending, m_streams, m_last_stream, created, gridStream, gpuVars,
                  updates, simVars, recorded, mine, nextId, applied, mlock>>
  BY DEF StartWait, streamVars
<1>4. mlock' \in Hosts \cup {None} /\ g_sim_done' \in BOOLEAN
  <2>1. g_sim_done' \in {g_sim_done, TRUE}
    BY DEF StartWait
  <2>2. QED
    BY <1>3, <2>1 DEF IndInv, TypeOK
<1>5. QED
  BY <1>1, <1>2, <1>3, <1>4, GotoInd

\* What ends a wait.
LEMMA EndWaitInd ==
    ASSUME IndInv, NEW h \in Hosts, EndWait(h)
    PROVE  IndInv'
<1>1. call[h] \in CallTypes
  BY DEF IndInv, TypeOK
<1>2. call[h].pc \in {"sync", "eventSync", "streamSync", "exit"}
  BY DEF EndWait
<1>3. PICK c \in CallTypes : /\ call' = [call EXCEPT ![h] = c]
                             /\ c.pc \in {"idle", "destroyLock", "gone"}
                             /\ c.pc = "destroyLock" => call[h].pc = "streamSync" /\ c.s = call[h].s
  <2>1. CASE Goto(h, Idle)
    <3>1. Idle \in CallTypes /\ Idle.pc = "idle"
      BY DEF CallTypes, Idle
    <3>2. QED
      BY <2>1, <3>1 DEF Goto
  <2>2. CASE call[h].pc = "streamSync" /\ Goto(h, [call[h] EXCEPT !.pc = "destroyLock"])
    <3>1. PICK c : c = [call[h] EXCEPT !.pc = "destroyLock"]
      OBVIOUS
    <3>2. c \in CallTypes /\ c.pc = "destroyLock" /\ c.s = call[h].s
      BY <1>1, <2>2, <3>1, GoesOn
    <3>3. QED
      BY <2>2, <3>1, <3>2 DEF Goto
  <2>3. CASE Goto(h, [pc |-> "gone"])
    <3>1. [pc |-> "gone"] \in CallTypes
      BY DEF CallTypes
    <3>2. QED
      BY <2>3, <3>1 DEF Goto
  <2>4. QED
    BY <2>1, <2>2, <2>3 DEF EndWait
<1>4. UNCHANGED <<prog, ops, pending, m_streams, m_last_stream, created, gridStream, gpuVars,
                  updates, simVars, recorded, mine, nextId, applied, mlock, g_sim_done>>
  BY DEF EndWait, streamVars
<1>5. mlock' \in Hosts \cup {None} /\ g_sim_done' \in BOOLEAN
  BY <1>4 DEF IndInv, TypeOK
<1>6. c.pc = "destroyLock" => prog.owner[c.s] = h /\ h \in prog.destroys
  BY <1>3 DEF IndInv, StreamsSound
<1>7. QED
  BY <1>2, <1>3, <1>4, <1>5, <1>6, GotoInd

\* destroy_stream takes m_lock.
LEMMA DestroyLockInd ==
    ASSUME IndInv, NEW h \in Hosts, DestroyLock(h)
    PROVE  IndInv'
<1>1. call[h] \in CallTypes /\ call[h].pc = "destroyLock"
  BY DEF IndInv, TypeOK, DestroyLock
<1>2. PICK c : c = [call[h] EXCEPT !.pc = "destroyErase"]
  OBVIOUS
<1>3. c \in CallTypes /\ c.pc = "destroyErase" /\ c.s = call[h].s
  BY <1>1, <1>2, GoesOn
<1>4. call' = [call EXCEPT ![h] = c]
  BY <1>2 DEF DestroyLock, Goto
<1>5. UNCHANGED <<prog, ops, pending, m_streams, m_last_stream, created, gridStream, gpuVars,
                  updates, simVars, recorded, mine, nextId, applied>>
  BY DEF DestroyLock
<1>6. mlock' \in Hosts \cup {None} /\ g_sim_done' \in BOOLEAN
  BY DEF IndInv, TypeOK, DestroyLock
<1>7. prog.owner[c.s] = h /\ h \in prog.destroys
  BY <1>1, <1>3 DEF IndInv, StreamsSound
<1>8. QED
  BY <1>1, <1>3, <1>4, <1>5, <1>6, <1>7, GotoInd

\* cudaStreamCreate.
LEMMA StreamCreateInd ==
    ASSUME IndInv, NEW h \in Hosts, NEW s \in Streams, StreamCreate(h, s)
    PROVE  IndInv'
<1>1. /\ created' = created \cup {s} /\ m_streams' = Append(m_streams, s)
      /\ UNCHANGED <<prog, ops, pending, m_last_stream, mlock, gridStream, gpuVars, updates,
                     simVars, g_sim_done, hostVars, nextId, applied>>
  BY DEF StreamCreate
<1>2. m_streams' \in Seq(created') /\ ToSet(m_streams') = ToSet(m_streams) \cup {s}
  <2>1. m_streams \in Seq(created') /\ s \in created'
    BY <1>1, SeqLarger DEF IndInv, TypeOK
  <2>2. QED
    BY <1>1, <2>1, AppendFacts
<1>3. TypeOK'
  BY <1>1, <1>2 DEF IndInv, TypeOK, gpuVars, simVars, hostVars
<1>4. Later /\ nextId' = nextId
  BY <1>1 DEF IndInv, TypeOK, Later
<1>5. Orderly(prog)'
  BY <1>1 DEF IndInv, Orderly
<1>6. QueuesSound'
  BY <1>1, <1>4, QueuesFrame DEF IndInv, TypeOK
<1>7. GridFront'
  BY <1>1, GridFrame DEF IndInv
<1>8. CallsWait'
  BY <1>1, CallsFrame DEF IndInv, hostVars
<1>9. LaunchesWait'
  BY <1>1, <1>4, LaunchesFrame DEF IndInv, TypeOK, gpuVars
<1>10. OwnersSound'
  BY <1>1, OwnersFrame DEF IndInv, hostVars, gpuVars
<1>11. GpuSound'
  BY <1>1, GpuFrame DEF IndInv, gpuVars, simVars
<1>12. KidsSound'
  BY <1>1, <1>4, KidsFrame DEF IndInv, gpuVars
<1>13. CtaStreamsSound'
  BY <1>1, <1>2 DEF IndInv, CtaStreamsSound, gpuVars, simVars
<1>14. StreamsSound'
  BY <1>1, <1>2 DEF IndInv, StreamsSound, Alive, hostVars
<1>15. MineAccounted'
  BY <1>1, MineFrame DEF IndInv, hostVars, gpuVars
<1>16. ZeroHeld'
  BY <1>1, ZeroFrame DEF IndInv, hostVars, gpuVars
<1>17. QED
  BY <1>3, <1>5, <1>6, <1>7, <1>8, <1>9, <1>10, <1>11, <1>12, <1>13, <1>14, <1>15, <1>16
     DEF IndInv

\* What destroy_stream leaves of the list of streams.
LEMMA EraseFacts ==
    ASSUME TypeOK, NEW s, EraseStream(s)
    PROVE  /\ m_streams' \in Seq(created) /\ ToSet(m_streams') \subseteq ToSet(m_streams)
           /\ \A t \in ToSet(m_streams) : t # s => t \in ToSet(m_streams')
           /\ m_last_stream' \in ToSet(m_streams') \cup {None}
           /\ m_last_stream' \in Streams \cup DevStreams \cup {None}
           /\ ops[s] = <<>> /\ mlock' = None
<1>1. m_streams \in Seq(created) /\ created \subseteq Streams \cup DevStreams
  BY DEF TypeOK
<1>2. m_streams' = RemoveFirst(m_streams, s) /\ m_last_stream' = Begin(m_streams')
  BY DEF EraseStream
<1>3. /\ m_streams' \in Seq(created) /\ ToSet(m_streams') \subseteq ToSet(m_streams)
      /\ \A t \in ToSet(m_streams) : t # s => t \in ToSet(m_streams')
  BY <1>1, <1>2, RemoveFacts
<1>4. CASE m_streams' = <<>>
  BY <1>2, <1>3, <1>4 DEF Begin, EraseStream
<1>5. CASE m_streams' # <<>>
  <2>1. m_last_stream' = Head(m_streams')
    BY <1>2, <1>5 DEF Begin
  <2>2. 1 \in DOMAIN m_streams' /\ m_last_stream' = m_streams'[1] /\ m_last_stream' \in created
    BY <1>3, <1>5, <2>1
  <2>3. m_last_stream' \in ToSet(m_streams')
    BY <2>2 DEF ToSet
  <2>4. QED
    BY <1>1, <1>3, <2>2, <2>3 DEF EraseStream
<1>6. QED
  BY <1>4, <1>5


\* destroy_stream takes the stream off the list.
LEMMA DestroyEraseInd ==
    ASSUME IndInv, NEW h \in Hosts, DestroyErase(h)
    PROVE  IndInv'
<1>1. call[h] \in CallTypes /\ call[h].pc = "destroyErase" /\ call \in [Hosts -> CallTypes]
  BY DEF IndInv, TypeOK, DestroyErase
<1>2. PICK s : s = call[h].s
  OBVIOUS
<1>3. s \in Streams /\ prog.owner[s] = h /\ h \in prog.destroys
  BY <1>1, <1>2, CallFacts DEF IndInv, StreamsSound
<1>4. /\ m_streams' \in Seq(created) /\ ToSet(m_streams') \subseteq ToSet(m_streams)
      /\ \A t \in ToSet(m_streams) : t # s => t \in ToSet(m_streams')
      /\ m_last_stream' \in ToSet(m_streams') \cup {None}
      /\ m_last_stream' \in Streams \cup DevStreams \cup {None}
      /\ ops[s] = <<>> /\ mlock' = None
  <2>1. TypeOK /\ EraseStream(s)
    BY <1>2 DEF IndInv, DestroyErase
  <2>2. QED
    BY <2>1, EraseFacts
<1>5. UNCHANGED <<prog, ops, pending, created, gridStream, gpuVars, updates, simVars,
                  g_sim_done, recorded, mine, nextId, applied>>
  BY DEF DestroyErase
<1>6. /\ call' \in [Hosts -> CallTypes] /\ call'[h].pc = "idle"
      /\ \A g \in Hosts \ {h} : call'[g] = call[g]
  <2>1. call' = [call EXCEPT ![h] = Idle]
    BY DEF DestroyErase, Goto
  <2>2. Idle \in CallTypes /\ Idle.pc = "idle"
    BY DEF Idle, CallTypes
  <2>3. QED
    BY <1>1, <2>1, <2>2
<1>7. TypeOK'
  BY <1>4, <1>5, <1>6 DEF IndInv, TypeOK, gpuVars, simVars
<1>8. Later /\ nextId' = nextId
  BY <1>5 DEF IndInv, TypeOK, Later
<1>9. Orderly(prog)'
  BY <1>5 DEF IndInv, Orderly
<1>10. QueuesSound'
  BY <1>5, <1>8, QueuesFrame DEF IndInv, TypeOK
<1>11. GridFront'
  BY <1>5, GridFrame DEF IndInv
<1>12. CallsWait'
  BY <1>5, <1>6 DEF IndInv, CallsWait, NotYet, InOps
<1>13. LaunchesWait'
  BY <1>5, <1>8, LaunchesFrame DEF IndInv, TypeOK, gpuVars
<1>14. OwnersSound'
  BY <1>5, <1>6 DEF IndInv, OwnersSound, Pushes, gpuVars
<1>15. GpuSound'
  BY <1>5, GpuFrame DEF IndInv, gpuVars, simVars
<1>16. KidsSound'
  BY <1>5, <1>8, KidsFrame DEF IndInv, gpuVars
<1>17. CtaStreamsSound'
  <2>1. \A k \in Ids : ctaStream[k] # s
    BY <1>3, NamesAssumption DEF IndInv, TypeOK, AllStreams
  <2>2. QED
    BY <1>4, <1>5, <2>1 DEF IndInv, CtaStreamsSound, gpuVars, simVars
<1>18. StreamsSound'
  <2>1. ASSUME NEW t \in AllStreams, ops[t] # <<>> PROVE t \in ToSet(m_streams') \cup {Zero}
    BY <1>4, <2>1 DEF IndInv, StreamsSound, Alive
  <2>2. ASSUME NEW g \in Hosts, call'[g].pc \in {"block", "push"}
        PROVE  \/ call'[g].s = Zero
               \/ /\ call'[g].s \in ToSet(m_streams')
                  /\ \/ call'[g].s \in Streams /\ prog.owner[call'[g].s] = g
                     \/ prog.destroys = {} /\ ~prog.children
    <3>1. g # h /\ call'[g] = call[g]
      BY <1>6, <2>2
    <3>2. \/ call[g].s = Zero
          \/ /\ call[g].s \in ToSet(m_streams)
             /\ call[g].s \in Streams /\ prog.owner[call[g].s] = g
      BY <1>3, <2>2, <3>1 DEF IndInv, StreamsSound
    <3>3. QED
      BY <1>3, <1>4, <3>1, <3>2
  <2>3. \A g \in Hosts : call'[g].pc = "next" \/ (call'[g].pc \in Pushes /\ call'[g].all) =>
          call'[g].op.e \in Events /\ prog.destroys = {} /\ ~prog.children
    BY <1>6 DEF IndInv, StreamsSound, Pushes
  <2>4. \A g \in Hosts : call'[g].pc \in {"streamSync", "destroyLock", "destroyErase"} =>
          prog.owner[call'[g].s] = g /\ g \in prog.destroys
    BY <1>6 DEF IndInv, StreamsSound
  <2>5. \A e \in Events : recorded[e] # <<>> => prog.recordOn[e] # {}
    BY DEF IndInv, StreamsSound
  <2>6. QED
    BY <1>4, <1>5, <2>1, <2>2, <2>3, <2>4, <2>5 DEF StreamsSound, Alive
<1>19. MineAccounted'
  BY <1>1, <1>5, <1>6 DEF IndInv, MineAccounted, Complete, InOps, gpuVars
<1>20. ZeroHeld'
  <2>1. \A x : Complete(x)' <=> Complete(x)
    BY <1>5 DEF Complete, gpuVars
  <2>2. ASSUME NEW j \in DOMAIN ops[Zero], NEW g, g = ops[Zero][j].host
        PROVE  g \in Hosts /\ call'[g].pc = "drain" /\ call'[g].op.id = ops[Zero][j].id
    BY <1>1, <1>6, <2>2 DEF IndInv, ZeroHeld
  <2>3. QED
    BY <1>5, <1>6, <2>1, <2>2 DEF IndInv, ZeroHeld, Blocks
<1>21. QED
  BY <1>7, <1>9, <1>10, <1>11, <1>12, <1>13, <1>14, <1>15, <1>16, <1>17, <1>18, <1>19, <1>20
     DEF IndInv

\* push: the operation joins its stream, or the NULL stream if the push blocks.
LEMMA PushInd ==
    ASSUME IndInv, NEW h \in Hosts, Push(h)
    PROVE  IndInv'
<1>1. /\ call[h] \in CallTypes /\ call[h].pc = "push" /\ call[h].pc \in Pushes
      /\ call \in [Hosts -> CallTypes]
  BY DEF IndInv, TypeOK, Push, Pushes
<1>2. PICK s : s = IF Blocks(h) THEN Zero ELSE call[h].s
  OBVIOUS
<1>3. PICK o : o = call[h].op
  OBVIOUS
<1>4. s \in AllStreams /\ o \in Operations /\ o.id \in Ids /\ o.id \in mine[h] /\ o.host = h
  <2>1. call[h].s \in AllStreams /\ o \in Operations
    BY <1>1, <1>3, CallFacts
  <2>2. QED
    BY <1>1, <1>2, <1>3, <2>1 DEF IndInv, OwnersSound, Operations, AllStreams
<1>5. NotYet(o.id)
  BY <1>1, <1>3 DEF IndInv, CallsWait
<1>6. ops \in Queues /\ ops' = Pushed(ops, s, o)
  BY <1>2, <1>3 DEF IndInv, TypeOK, Queues, Push, Blocks, Pushed
<1>7. /\ ops' \in Queues
      /\ \A t \in AllStreams : t # s => ops'[t] = ops[t]
      /\ \A t \in AllStreams : \A i \in DOMAIN ops[t] : i \in DOMAIN ops'[t] /\ ops'[t][i] = ops[t][i]
      /\ \A t \in AllStreams : \A i \in DOMAIN ops'[t] :
            \/ i \in DOMAIN ops[t] /\ ops'[t][i] = ops[t][i]
            \/ t = s /\ i = Len(ops[s]) + 1 /\ ops'[t][i] = o
      /\ \A x : InOps(ops', x) <=> InOps(ops, x) \/ x = o.id
      /\ UniqueIds(ops) /\ ~InOps(ops, o.id) => UniqueIds(ops')
  <2>1. s \in AllStreams /\ o \in Operations
    BY <1>4
  <2>2. QED
    BY <1>6, <2>1, PushFacts
<1>8. PICK c : c = IF Blocks(h) THEN [call[h] EXCEPT !.pc = "drain"] ELSE AfterPush(call[h])
  OBVIOUS
<1>9. /\ c \in CallTypes /\ c.pc \in {"drain", "idle", "next"}
      /\ c.pc = "drain" <=> Blocks(h)
      /\ c.pc = "next" => call[h].all
      /\ c.pc # "idle" => c.op = o /\ c.s = call[h].s /\ c.all = call[h].all
  <2>1. CASE Blocks(h)
    <3>1. c = [call[h] EXCEPT !.pc = "drain"]
      BY <1>8, <2>1
    <3>2. "drain" \in Pushes
      BY DEF Pushes
    <3>3. c \in CallTypes /\ c.pc = "drain" /\ c.op = o /\ c.s = call[h].s /\ c.all = call[h].all
      BY <1>1, <1>3, <3>1, <3>2, GoesOn
    <3>4. QED
      BY <2>1, <3>3
  <2>2. CASE ~Blocks(h)
    <3>1. c = AfterPush(call[h])
      BY <1>8, <2>2
    <3>2. /\ c \in CallTypes /\ c.pc \in {"idle", "next"}
          /\ c.pc = "next" => call[h].all /\ c.s = call[h].s /\ c.op = call[h].op /\ c.all = call[h].all
      BY <1>1, <3>1, AfterPushFacts
    <3>3. QED
      BY <1>3, <2>2, <3>2
  <2>3. QED
    BY <2>1, <2>2
<1>10. call' \in [Hosts -> CallTypes] /\ call'[h] = c /\ \A g \in Hosts \ {h} : call'[g] = call[g]
  <2>1. call' = [call EXCEPT ![h] = c]
    BY <1>8 DEF Push, Goto, Blocks
  <2>2. QED
    BY <1>1, <1>9, <2>1
<1>11. UNCHANGED <<prog, pending, m_streams, m_last_stream, created, mlock, gridStream,
                   gpuVars, updates, simVars, g_sim_done, recorded, mine, nextId, applied>>
  BY DEF Push
<1>12. Later /\ nextId' = nextId
  BY <1>11 DEF IndInv, TypeOK, Later
<1>13. TypeOK'
  BY <1>7, <1>10, <1>11 DEF IndInv, TypeOK, gpuVars, simVars, Queues
<1>14. Orderly(prog)'
  BY <1>11 DEF IndInv, Orderly
<1>15. \A x : InOps(ops, x)' <=> InOps(ops, x) \/ x = o.id
  BY <1>7 DEF InOps
<1>16. QueuesSound'
  <2>1. UniqueIds(ops')
    BY <1>5, <1>7 DEF IndInv, QueuesSound, NotYet
  <2>2. UniqueIds(ops)'
    BY <2>1 DEF UniqueIds
  <2>3. QED
    BY <1>5, <1>11, <1>15, <2>2 DEF IndInv, QueuesSound, NotYet
<1>17. GridFront'
  <2>1. ASSUME NEW t \in AllStreams, ops[t] # <<>> PROVE ops'[t] # <<>> /\ ops'[t][1] = ops[t][1]
    <3>1. 1 \in DOMAIN ops[t]
      BY <1>6, <2>1 DEF Queues
    <3>2. 1 \in DOMAIN ops'[t] /\ ops'[t][1] = ops[t][1]
      BY <1>7, <3>1
    <3>3. QED
      BY <3>2
  <2>2. QED
    BY <1>11, <2>1 DEF IndInv, TypeOK, GridFront
<1>18. ASSUME NEW x \in Ids, x # o.id, NotYet(x) PROVE NotYet(x)'
  BY <1>11, <1>15, <1>18 DEF NotYet
<1>19. CallsWait'
  <2>1. ASSUME NEW g \in Hosts, call'[g].pc \in {"block", "push"} PROVE NotYet(call[g].op.id)'
    <3>1. g # h /\ call'[g] = call[g]
      BY <1>9, <1>10, <2>1
    <3>2. PICK x : x = call[g].op.id
      OBVIOUS
    <3>3. x \in mine[g] /\ NotYet(x) /\ x \in Ids
      BY <2>1, <3>1, <3>2 DEF IndInv, TypeOK, OwnersSound, Pushes, CallsWait
    <3>4. x # o.id
      BY <1>4, <3>1, <3>3 DEF IndInv, OwnersSound
    <3>5. NotYet(x)'
      BY <1>18, <3>3, <3>4
    <3>6. QED
      BY <3>1, <3>2, <3>5 DEF NotYet
  <2>2. QED
    BY <2>1 DEF CallsWait
<1>20. LaunchesWait'
  <2>1. ASSUME NEW i \in DOMAIN devLaunch, NEW x, x = devLaunch[i].id PROVE NotYet(x)'
    <3>1. devLaunch[i] \in [id : Ids, s : DevStreams]
      <4>1. devLaunch \in Seq([id : Ids, s : DevStreams])
        BY DEF IndInv, TypeOK
      <4>2. QED
        BY <4>1, ElementOf
    <3>2. x \in Ids /\ NotYet(x) /\ parent[x] # None
      BY <2>1, <3>1 DEF IndInv, LaunchesWait
    <3>3. x # o.id
      BY <1>4, <3>2 DEF IndInv, OwnersSound
    <3>4. QED
      BY <1>18, <3>2, <3>3
  <2>2. \A i \in DOMAIN devLaunch : NotYet(devLaunch[i].id)'
    BY <1>11, <2>1 DEF NotYet, gpuVars
  <2>3. QED
    BY <1>11, <2>2 DEF IndInv, LaunchesWait, gpuVars
<1>21. OwnersSound'
  <2>1. ASSUME NEW g \in Hosts, NEW x \in mine[g], NEW t \in AllStreams, NEW i \in DOMAIN ops'[t],
               ops'[t][i].id = x
        PROVE  ops'[t][i].host = g
    <3>1. CASE i \in DOMAIN ops[t] /\ ops'[t][i] = ops[t][i]
      BY <2>1, <3>1 DEF IndInv, OwnersSound
    <3>2. CASE ops'[t][i] = o
      <4>1. g = h
        BY <1>4, <2>1, <3>2 DEF IndInv, OwnersSound
      <4>2. QED
        BY <1>4, <3>2, <4>1
    <3>3. QED
      BY <1>7, <3>1, <3>2
  <2>2. ASSUME NEW g \in Hosts, call'[g].pc \in Pushes
        PROVE  call'[g].op.id \in mine[g] /\ call'[g].op.host = g
    BY <1>4, <1>9, <1>10, <2>2 DEF IndInv, OwnersSound, Pushes
  <2>3. QED
    BY <1>11, <2>1, <2>2 DEF IndInv, OwnersSound, gpuVars
<1>22. GpuSound'
  BY <1>11, GpuFrame DEF IndInv, gpuVars, simVars
<1>23. KidsSound'
  BY <1>11, <1>12, KidsFrame DEF IndInv, gpuVars
<1>24. CtaStreamsSound'
  BY <1>11, CtaFrame DEF IndInv, gpuVars, simVars
<1>25. StreamsSound'
  <2>1. s \in Alive
    BY <1>1, <1>2 DEF IndInv, StreamsSound, Alive
  <2>2. \A t \in AllStreams : ops'[t] # <<>> => t \in Alive
    BY <1>7, <2>1 DEF IndInv, StreamsSound
  <2>3. \A g \in Hosts : call'[g].pc \in {"block", "push"} => g # h /\ call'[g] = call[g]
    BY <1>9, <1>10
  <2>4. \A g \in Hosts : call'[g].pc \in {"streamSync", "destroyLock", "destroyErase"} =>
           g # h /\ call'[g] = call[g]
    BY <1>9, <1>10
  <2>5. ASSUME NEW g \in Hosts, call'[g].pc = "next" \/ (call'[g].pc \in Pushes /\ call'[g].all)
        PROVE  call'[g].op.e \in Events /\ prog.destroys = {} /\ ~prog.children
    BY <1>1, <1>3, <1>9, <1>10, <2>5 DEF IndInv, StreamsSound, Pushes
  <2>6. QED
    BY <1>11, <2>2, <2>3, <2>4, <2>5 DEF IndInv, StreamsSound, Alive
<1>26. \A x : Complete(x)' <=> Complete(x)
  BY <1>11 DEF Complete, gpuVars
<1>27. MineAccounted'
  <2>1. ASSUME NEW g \in Hosts, NEW x \in mine[g]
        PROVE  \/ Complete(x) \/ InOps(ops, x) \/ x = o.id
               \/ call'[g].pc \in {"block", "push"} /\ call'[g].op.id = x
    BY <1>3, <1>10, <2>1 DEF IndInv, MineAccounted
  <2>2. QED
    BY <1>11, <1>15, <1>26, <2>1 DEF MineAccounted
<1>28. ZeroHeld'
  <2>1. s = Zero <=> Blocks(h)
    BY <1>2 DEF Blocks
  <2>2. ASSUME NEW j \in DOMAIN ops'[Zero], NEW g, g = ops'[Zero][j].host
        PROVE  g \in Hosts /\ call'[g].pc = "drain" /\ call'[g].op.id = ops'[Zero][j].id
    <3>1. CASE j \in DOMAIN ops[Zero] /\ ops'[Zero][j] = ops[Zero][j]
      BY <1>1, <1>10, <2>2, <3>1 DEF IndInv, ZeroHeld
    <3>2. CASE Zero = s /\ ops'[Zero][j] = o
      BY <1>4, <1>9, <1>10, <2>1, <2>2, <3>2
    <3>3. QED
      BY <1>7, <3>1, <3>2 DEF AllStreams
  <2>3. ASSUME NEW g \in Hosts, call'[g].pc = "drain" \/ (call'[g].pc = "push" /\ Blocks(g)'),
               NEW x \in mine[g] \ {call'[g].op.id}
        PROVE  Complete(x)
    <3>1. CASE g = h
      BY <1>1, <1>3, <1>9, <1>10, <2>3, <3>1 DEF IndInv, ZeroHeld
    <3>2. CASE g # h
      BY <1>10, <1>11, <2>3, <3>2 DEF IndInv, ZeroHeld, Blocks
    <3>3. QED
      BY <3>1, <3>2
  <2>4. QED
    BY <1>11, <1>26, <2>2, <2>3 DEF ZeroHeld
<1>29. QED
  BY <1>13, <1>14, <1>16, <1>17, <1>19, <1>20, <1>21, <1>22, <1>23, <1>24, <1>25, <1>27, <1>28
     DEF IndInv


-----------------------------------------------------------------------------
(* The simulation thread. *)

\* A step of the simulation thread that only moves it.
LEMMA QuietInd ==
    ASSUME IndInv,
           UNCHANGED <<prog, hostVars, g_sim_done, streamVars, gridStream, gpuVars, updates, check,
                       toReap, nextId, applied>>,
           g_sim_active' \in BOOLEAN, simPc # "reap",
           simPc' \in {"start", "check", "stop", "exited", "spin"}
    PROVE  IndInv'
<1>1. Later
  BY DEF IndInv, TypeOK, Later
<1>2. TypeOK'
  BY DEF IndInv, TypeOK, gpuVars, hostVars, streamVars
<1>3. Orderly(prog)'
  BY DEF IndInv, Orderly
<1>4. QueuesSound'
  BY <1>1, QueuesFrame DEF IndInv, TypeOK, streamVars
<1>5. GridFront'
  BY GridFrame DEF IndInv, streamVars
<1>6. CallsWait'
  BY CallsFrame DEF IndInv, hostVars, streamVars
<1>7. LaunchesWait'
  BY <1>1, LaunchesFrame DEF IndInv, TypeOK, gpuVars, streamVars
<1>8. OwnersSound'
  BY OwnersFrame DEF IndInv, hostVars, gpuVars, streamVars
<1>9. GpuSound'
  BY DEF IndInv, GpuSound, gpuVars
<1>10. KidsSound'
  BY <1>1, KidsFrame DEF IndInv, gpuVars
<1>11. CtaStreamsSound'
  BY CtaFrame DEF IndInv, gpuVars, streamVars
<1>12. StreamsSound'
  BY StreamsFrame DEF IndInv, hostVars, streamVars
<1>13. MineAccounted'
  BY MineFrame DEF IndInv, hostVars, gpuVars, streamVars
<1>14. ZeroHeld'
  BY ZeroFrame DEF IndInv, hostVars, gpuVars, streamVars
<1>15. QED
  BY <1>2, <1>3, <1>4, <1>5, <1>6, <1>7, <1>8, <1>9, <1>10, <1>11, <1>12, <1>13, <1>14 DEF IndInv

\* The destructor of a retired kernel destroys a stream of its CTAs.
LEMMA SimReapInd ==
    ASSUME IndInv, SimReap
    PROVE  IndInv'
<1>1. PICK s \in toReap :
          /\ EraseStream(s)
          /\ toReap' = toReap \ {s}
          /\ IF toReap # {s} THEN UNCHANGED <<simPc, functional>>
             ELSE /\ simPc' = IF functional = None THEN "front" ELSE "tail"
                  /\ functional' = None
  BY DEF SimReap
<1>2. s \in DevStreams /\ prog.children /\ simPc = "reap"
  BY DEF IndInv, TypeOK, CtaStreamsSound, SimReap
<1>3. /\ m_streams' \in Seq(created) /\ ToSet(m_streams') \subseteq ToSet(m_streams)
      /\ \A t \in ToSet(m_streams) : t # s => t \in ToSet(m_streams')
      /\ m_last_stream' \in ToSet(m_streams') \cup {None}
      /\ m_last_stream' \in Streams \cup DevStreams \cup {None}
      /\ ops[s] = <<>> /\ mlock' = None
  BY <1>1, EraseFacts DEF IndInv
<1>4. UNCHANGED <<prog, call, recorded, mine, g_sim_done, ops, pending, created, gridStream, latency,
                  running, finished, children, ctaStream, devLaunch, parent, updates, check,
                  g_sim_active, nextId, applied>>
  BY DEF SimReap, simHostUnchanged, hostVars
<1>5. Later /\ nextId' = nextId
  BY <1>4 DEF IndInv, TypeOK, Later
<1>6. \/ simPc' = "reap" /\ functional' = functional
      \/ simPc' \in {"front", "tail"} /\ functional' = None
  BY <1>1, <1>2
<1>7. TypeOK'
  BY <1>1, <1>3, <1>4, <1>6 DEF IndInv, TypeOK
<1>8. Orderly(prog)'
  BY <1>4 DEF IndInv, Orderly
<1>9. QueuesSound'
  BY <1>4, <1>5, QueuesFrame DEF IndInv, TypeOK
<1>10. GridFront'
  BY <1>4, GridFrame DEF IndInv
<1>11. CallsWait'
  BY <1>4, CallsFrame DEF IndInv
<1>12. LaunchesWait'
  BY <1>4, <1>5, LaunchesFrame DEF IndInv, TypeOK
<1>13. OwnersSound'
  BY <1>4, OwnersFrame DEF IndInv
<1>14. GpuSound'
  BY <1>2, <1>4, <1>6 DEF IndInv, GpuSound
<1>15. KidsSound'
  BY <1>4, <1>5, KidsFrame DEF IndInv
<1>16. CtaStreamsSound'
  BY <1>1, <1>3, <1>4 DEF IndInv, CtaStreamsSound
<1>17. StreamsSound'
  <2>1. ASSUME NEW t \in AllStreams, ops[t] # <<>> PROVE t \in ToSet(m_streams') \cup {Zero}
    BY <1>3, <2>1 DEF IndInv, StreamsSound, Alive
  <2>2. ASSUME NEW g \in Hosts, call[g].pc \in {"block", "push"}
        PROVE  \/ call[g].s = Zero
               \/ /\ call[g].s \in ToSet(m_streams')
                  /\ call[g].s \in Streams /\ prog.owner[call[g].s] = g
    <3>1. \/ call[g].s = Zero
          \/ /\ call[g].s \in ToSet(m_streams)
             /\ call[g].s \in Streams /\ prog.owner[call[g].s] = g
      BY <1>2, <2>2 DEF IndInv, StreamsSound
    <3>2. QED
      BY <1>2, <1>3, <3>1, NamesAssumption
  <2>3. QED
    BY <1>3, <1>4, <2>1, <2>2 DEF IndInv, StreamsSound, Alive
<1>18. MineAccounted'
  BY <1>4, MineFrame DEF IndInv
<1>19. ZeroHeld'
  BY <1>4, ZeroFrame DEF IndInv
<1>20. QED
  BY <1>7, <1>8, <1>9, <1>10, <1>11, <1>12, <1>13, <1>14, <1>15, <1>16, <1>17, <1>18, <1>19
     DEF IndInv

\* Launched kernels are in the queues; other than those no applied operation is.
LEMMA GridInOps ==
    ASSUME IndInv, NEW k \in DOMAIN gridStream
    PROVE  /\ k \in Ids /\ gridStream[k] \in AllStreams /\ 1 \in DOMAIN ops[gridStream[k]]
           /\ ops[gridStream[k]][1].id = k /\ InOps(ops, k) /\ k < nextId
<1>1. k \in Ids /\ gridStream[k] \in AllStreams /\ ops \in Queues
  BY DEF IndInv, TypeOK, Queues
<1>2. PICK s : s = gridStream[k]
  OBVIOUS
<1>3. s \in AllStreams /\ ops[s] # <<>> /\ ops[s][1].id = k
  BY <1>1, <1>2 DEF IndInv, GridFront
<1>4. 1 \in DOMAIN ops[s]
  BY <1>1, <1>3 DEF Queues
<1>5. InOps(ops, k)
  BY <1>3, <1>4 DEF InOps
<1>6. k < nextId
  BY <1>1, <1>5 DEF IndInv, QueuesSound
<1>7. QED
  BY <1>1, <1>2, <1>3, <1>4, <1>5, <1>6

\* The front operations of the streams F, with identifiers R, take effect and leave: kernels that
\* are retired, or another operation that was performed.
LEMMA PopInd ==
    ASSUME IndInv, NEW F \in SUBSET AllStreams, \A s \in F : ops[s] # <<>>,
           NEW R \in SUBSET Ids, \A s \in F : ops[s][1].id \in R,
           \A x \in R : \E s \in F : ops[s][1].id = x,
           ops' = Popped(ops, F),
           DOMAIN gridStream' = DOMAIN gridStream \ R,
           \A k \in DOMAIN gridStream' : gridStream'[k] = gridStream[k] /\ pending'[gridStream[k]],
           applied \subseteq applied', applied' \subseteq applied \cup R \cup DOMAIN gridStream,
           R \subseteq applied',
           \A x \in R : \A c \in Ids : parent[c] = x => c \in applied',
           \A p \in Ids : /\ children'[p] \subseteq children[p]
                          /\ children[p] \ children'[p] \subseteq applied'
                          /\ children'[p] # {} => p \in DOMAIN gridStream',
           UNCHANGED <<prog, hostVars, m_streams, created, ctaStream, devLaunch, parent, nextId>>,
           m_last_stream' \in ToSet(m_streams) \cup {None},
           toReap' \subseteq created, toReap' # {} => prog.children,
           \A k \in DOMAIN gridStream' : ctaStream[k] # None => ctaStream[k] \notin toReap'
    PROVE  /\ ops' \in Queues
           /\ QueuesSound' /\ GridFront' /\ CallsWait' /\ LaunchesWait' /\ OwnersSound'
           /\ KidsSound' /\ CtaStreamsSound' /\ StreamsSound' /\ MineAccounted' /\ ZeroHeld'
<1>1. ops \in Queues /\ UniqueIds(ops)
  BY DEF IndInv, TypeOK, Queues, QueuesSound
<1>2. /\ ops' \in Queues
      /\ \A t \in AllStreams : t \notin F => ops'[t] = ops[t]
      /\ \A t \in AllStreams : \A i \in DOMAIN ops'[t] : \E j \in DOMAIN ops[t] : ops'[t][i] = ops[t][j]
      /\ \A x : InOps(ops', x) => InOps(ops, x)
      /\ \A x : InOps(ops, x) => InOps(ops', x) \/ \E s \in F : ops[s][1].id = x
      /\ UniqueIds(ops) => UniqueIds(ops') /\ \A s \in F : ~InOps(ops', ops[s][1].id)
  BY <1>1, PopFacts
<1>3. \A x : InOps(ops, x)' <=> InOps(ops', x)
  BY DEF InOps
<1>4. \A x \in R : InOps(ops, x) /\ ~InOps(ops', x)
  <2>1. \A s \in F : 1 \in DOMAIN ops[s]
    BY <1>1 DEF Queues
  <2>2. QED
    BY <1>1, <1>2, <2>1 DEF InOps
<1>5. \A x \in DOMAIN gridStream : InOps(ops, x) /\ x < nextId /\ x \in Ids
  BY GridInOps
<1>6. \A x \in R : x < nextId
  BY <1>4 DEF IndInv, QueuesSound
<1>7. QueuesSound'
  <2>1. UniqueIds(ops)'
    BY <1>1, <1>2 DEF UniqueIds
  <2>2. ASSUME NEW x \in Ids, InOps(ops', x)
        PROVE  x < nextId /\ (x \in applied' => x \in DOMAIN gridStream')
    <3>1. x \notin R /\ InOps(ops, x)
      BY <1>2, <1>4, <2>2
    <3>2. QED
      BY <3>1 DEF IndInv, QueuesSound
  <2>3. \A x \in applied' : x < nextId
    BY <1>5, <1>6 DEF IndInv, QueuesSound
  <2>4. QED
    BY <1>3, <2>1, <2>2, <2>3 DEF QueuesSound
<1>8. GridFront'
  <2>1. ASSUME NEW k \in DOMAIN gridStream'
        PROVE  ops'[gridStream[k]] # <<>> /\ ops'[gridStream[k]][1].id = k
    <3>1. PICK s : s = gridStream[k]
      OBVIOUS
    <3>2. s \in AllStreams /\ ops[s] # <<>> /\ ops[s][1].id = k /\ k \notin R
      BY <3>1 DEF IndInv, TypeOK, GridFront
    <3>3. s \notin F
      BY <3>2
    <3>4. QED
      BY <1>2, <3>1, <3>2, <3>3
  <2>2. QED
    BY <2>1 DEF GridFront
<1>9. ASSUME NEW x \in Ids, NotYet(x) PROVE NotYet(x)'
  <2>1. x \notin R /\ x \notin DOMAIN gridStream /\ x \notin applied
    BY <1>4, <1>5, <1>9 DEF NotYet
  <2>2. QED
    BY <1>2, <1>3, <1>9, <2>1 DEF NotYet
<1>10. CallsWait'
  <2>1. ASSUME NEW g \in Hosts, call[g].pc \in {"block", "push"}, NEW x, x = call[g].op.id PROVE NotYet(x)'
    <3>1. x \in mine[g] /\ NotYet(x) /\ x \in Ids
      BY <2>1 DEF IndInv, TypeOK, OwnersSound, Pushes, CallsWait
    <3>2. QED
      BY <1>9, <3>1
  <2>2. \A g \in Hosts : call[g].pc \in {"block", "push"} => NotYet(call[g].op.id)'
    BY <2>1 DEF NotYet, hostVars
  <2>3. QED
    BY <2>2 DEF CallsWait, hostVars
<1>11. LaunchesWait'
  <2>1. ASSUME NEW i \in DOMAIN devLaunch, NEW x, x = devLaunch[i].id
        PROVE  NotYet(x)' /\ x \in children'[parent[x]]
    <3>1. devLaunch[i] \in [id : Ids, s : DevStreams]
      <4>1. devLaunch \in Seq([id : Ids, s : DevStreams])
        BY DEF IndInv, TypeOK
      <4>2. QED
        BY <4>1, ElementOf
    <3>2. x \in Ids /\ NotYet(x) /\ parent[x] # None /\ x \in children[parent[x]]
      BY <2>1, <3>1 DEF IndInv, LaunchesWait
    <3>3. NotYet(x)'
      BY <1>9, <3>2
    <3>4. x \notin applied' /\ parent[x] \in Ids
      BY <3>2, <3>3 DEF NotYet, IndInv, TypeOK
    <3>5. QED
      BY <3>2, <3>3, <3>4
  <2>2. \A i \in DOMAIN devLaunch : NotYet(devLaunch[i].id)'
    BY <2>1 DEF NotYet
  <2>3. \A i \in DOMAIN devLaunch : devLaunch[i].id \in children'[parent[devLaunch[i].id]]
    BY <2>1
  <2>4. QED
    BY <2>2, <2>3 DEF IndInv, LaunchesWait
<1>12. OwnersSound'
  <2>1. ASSUME NEW g \in Hosts, NEW x \in mine[g], NEW t \in AllStreams, NEW i \in DOMAIN ops'[t],
               ops'[t][i].id = x
        PROVE  ops'[t][i].host = g
    BY <1>2, <2>1 DEF IndInv, OwnersSound
  <2>2. QED
    BY <2>1 DEF IndInv, OwnersSound, hostVars
<1>13. KidsSound'
  <2>1. ASSUME NEW c \in Ids, parent[c] # None
        PROVE  c \in children'[parent[c]] \/ c \in applied'
    <3>1. parent[c] \in Ids /\ (c \in children[parent[c]] \/ c \in applied)
      BY <2>1 DEF IndInv, TypeOK, KidsSound
    <3>2. QED
      BY <3>1
  <2>2. QED
    BY <2>1 DEF IndInv, KidsSound
<1>14. CtaStreamsSound'
  BY DEF IndInv, CtaStreamsSound
<1>15. StreamsSound'
  <2>1. ASSUME NEW t \in AllStreams, ops'[t] # <<>> PROVE ops[t] # <<>>
    <3>1. CASE t \in F
      BY <3>1
    <3>2. CASE t \notin F
      BY <1>2, <2>1, <3>2
    <3>3. QED
      BY <3>1, <3>2
  <2>2. QED
    BY <2>1 DEF IndInv, StreamsSound, Alive, hostVars
<1>16. ASSUME NEW x, Complete(x) PROVE Complete(x)'
  BY <1>16 DEF Complete
<1>17. MineAccounted'
  <2>1. ASSUME NEW g \in Hosts, NEW x \in mine[g], InOps(ops, x)
        PROVE  InOps(ops', x) \/ Complete(x)'
    <3>1. CASE x \in R
      BY <3>1 DEF Complete
    <3>2. CASE x \notin R
      BY <1>2, <2>1, <3>2
    <3>3. QED
      BY <3>1, <3>2
  <2>2. QED
    BY <1>3, <1>16, <2>1 DEF IndInv, MineAccounted, hostVars
<1>18. ZeroHeld'
  <2>1. ASSUME NEW j \in DOMAIN ops'[Zero], NEW g, g = ops'[Zero][j].host
        PROVE  g \in Hosts /\ call[g].pc = "drain" /\ call[g].op.id = ops'[Zero][j].id
    <3>1. Zero \in AllStreams
      BY DEF AllStreams
    <3>2. PICK i \in DOMAIN ops[Zero] : ops'[Zero][j] = ops[Zero][i]
      BY <1>2, <3>1
    <3>3. QED
      BY <2>1, <3>2 DEF IndInv, ZeroHeld
  <2>2. QED
    BY <1>16, <2>1 DEF IndInv, ZeroHeld, Blocks, hostVars
<1>19. QED
  BY <1>2, <1>7, <1>8, <1>10, <1>11, <1>12, <1>13, <1>14, <1>15, <1>17, <1>18


\* The kernels R are retired.
LEMMA RetireInd ==
    ASSUME IndInv, NEW R \in SUBSET DOMAIN gridStream, Retire(R, ops, children),
           applied \subseteq applied', applied' \subseteq applied \cup DOMAIN gridStream,
           R \subseteq applied', \A k \in R : children[k] \subseteq R,
           UNCHANGED <<prog, hostVars, m_streams, m_last_stream, created, ctaStream, devLaunch,
                       parent, nextId>>
    PROVE  /\ QueuesSound' /\ GridFront' /\ CallsWait' /\ LaunchesWait' /\ OwnersSound'
           /\ KidsSound' /\ CtaStreamsSound' /\ StreamsSound' /\ MineAccounted' /\ ZeroHeld'
           /\ ops' \in [AllStreams -> Seq(Operations)] /\ pending' \in [AllStreams -> BOOLEAN]
           /\ DOMAIN gridStream' = DOMAIN gridStream \ R
           /\ \A k \in DOMAIN gridStream' : gridStream'[k] = gridStream[k]
           /\ children' \in [Ids -> SUBSET Ids] /\ toReap' \subseteq DevStreams /\ applied' \subseteq Ids
<1>1. PICK F : F = {gridStream[k] : k \in R}
  OBVIOUS
<1>2. \A k \in DOMAIN gridStream : /\ k \in Ids /\ gridStream[k] \in AllStreams
                                   /\ ops[gridStream[k]] # <<>> /\ ops[gridStream[k]][1].id = k
  BY DEF IndInv, TypeOK, GridFront
<1>3. /\ F \in SUBSET AllStreams /\ (\A s \in F : ops[s] # <<>>)
      /\ R \in SUBSET Ids /\ (\A s \in F : ops[s][1].id \in R)
      /\ \A x \in R : \E s \in F : ops[s][1].id = x
  BY <1>1, <1>2
<1>4. ops' = Popped(ops, F)
  BY <1>1 DEF Retire, Popped
<1>5. /\ DOMAIN gridStream' = DOMAIN gridStream \ R
      /\ \A k \in DOMAIN gridStream' : gridStream'[k] = gridStream[k]
  BY DEF Retire
<1>6. pending' = [s \in AllStreams |-> pending[s] /\ s \notin F]
  BY <1>1, Zenon DEF Retire
<1>7. \A k \in DOMAIN gridStream' : pending'[gridStream[k]]
  <2>1. ASSUME NEW k \in DOMAIN gridStream' PROVE gridStream[k] \in AllStreams /\ gridStream[k] \notin F
    BY <1>2, <1>3, <1>5
  <2>2. ASSUME NEW k \in DOMAIN gridStream' PROVE pending[gridStream[k]]
    BY <1>5 DEF IndInv, GridFront
  <2>3. QED
    BY <1>6, <2>1, <2>2, Zenon
<1>8. children' = [k \in Ids |-> children[k] \ R] /\ children \in [Ids -> SUBSET Ids]
  BY DEF Retire, IndInv, TypeOK
<1>9. \A x \in R : \A c \in Ids : parent[c] = x => c \in applied'
  <2>1. ASSUME NEW x \in R, NEW c \in Ids, parent[c] = x PROVE c \in applied'
    <3>1. x # None
      BY <1>3, NamesAssumption
    <3>2. c \in children[x] \/ c \in applied
      BY <2>1, <3>1 DEF IndInv, KidsSound
    <3>3. QED
      BY <3>2
  <2>2. QED
    BY <2>1
<1>10. \A p \in Ids : /\ children'[p] \subseteq children[p]
                      /\ children[p] \ children'[p] \subseteq applied'
                      /\ children'[p] # {} => p \in DOMAIN gridStream'
  <2>1. ASSUME NEW p \in Ids, children'[p] # {} PROVE p \in DOMAIN gridStream'
    <3>1. children[p] # {} /\ ~(children[p] \subseteq R)
      BY <1>8, <2>1
    <3>2. p \in DOMAIN gridStream
      BY <3>1 DEF IndInv, KidsSound
    <3>3. QED
      BY <1>5, <3>1, <3>2
  <2>2. QED
    BY <1>8, <2>1
<1>11. toReap' = {ctaStream[k] : k \in R} \ {None} /\ ctaStream \in [Ids -> DevStreams \cup {None}]
  BY DEF Retire, IndInv, TypeOK
<1>12. toReap' \subseteq created /\ toReap' \subseteq DevStreams /\ (toReap' # {} => prog.children)
  BY <1>3, <1>11 DEF IndInv, CtaStreamsSound
<1>13. \A k \in DOMAIN gridStream' : ctaStream[k] # None => ctaStream[k] \notin toReap'
  BY <1>2, <1>3, <1>5, <1>11 DEF IndInv, CtaStreamsSound
<1>14. m_last_stream' \in ToSet(m_streams) \cup {None}
  BY DEF IndInv, StreamsSound
<1>15. /\ ops' \in Queues
       /\ QueuesSound' /\ GridFront' /\ CallsWait' /\ LaunchesWait' /\ OwnersSound'
       /\ KidsSound' /\ CtaStreamsSound' /\ StreamsSound' /\ MineAccounted' /\ ZeroHeld'
  <2>1. applied' \subseteq applied \cup R \cup DOMAIN gridStream
    OBVIOUS
  <2>2. \A k \in DOMAIN gridStream' : gridStream'[k] = gridStream[k] /\ pending'[gridStream[k]]
    BY <1>5, <1>7
  <2>3. QED
    BY <1>3, <1>4, <1>5, <1>9, <1>10, <1>12, <1>13, <1>14, <2>1, <2>2, PopInd
<1>16. pending' \in [AllStreams -> BOOLEAN]
  <2>1. \A s \in AllStreams : (pending[s] /\ s \notin F) \in BOOLEAN
    OBVIOUS
  <2>2. QED
    BY <1>6, <2>1, Zenon
<1>17. children' \in [Ids -> SUBSET Ids]
  BY <1>8
<1>18. applied' \subseteq Ids
  BY <1>2 DEF IndInv, TypeOK
<1>19. QED
  BY <1>5, <1>12, <1>15, <1>16, <1>17, <1>18 DEF Queues

\* register_finished_kernel retires kernels that are launched and done and whose children are
\* retired with them or before.
LEMMA RetiresFacts ==
    ASSUME IndInv, NEW k \in DOMAIN gridStream, NEW done \in SUBSET Ids, NEW R, R = Retires(k, children, done)
    PROVE  /\ R \in SUBSET DOMAIN gridStream /\ R \subseteq done /\ \A x \in R : children[x] \subseteq R
           /\ \A x \in R : x = k \/ (x = parent[k] /\ x # None)
<1>1. k \in Ids /\ parent[k] \in Ids \cup {None} /\ None \notin Ids
  BY NamesAssumption DEF IndInv, TypeOK
<1>2. CASE k \notin done \/ children[k] # {}
  <2>1. R = {}
    BY <1>2 DEF Retires
  <2>2. QED
    BY <2>1
<1>3. CASE /\ ~(k \notin done \/ children[k] # {})
           /\ parent[k] # None /\ parent[k] \in done /\ children[parent[k]] = {k}
  <2>1. R = {k, parent[k]}
    BY <1>3 DEF Retires
  <2>2. parent[k] \in DOMAIN gridStream
    BY <1>1, <1>3 DEF IndInv, KidsSound
  <2>3. QED
    BY <1>3, <2>1, <2>2
<1>4. CASE /\ ~(k \notin done \/ children[k] # {})
           /\ ~(parent[k] # None /\ parent[k] \in done /\ children[parent[k]] = {k})
  <2>1. R = {k}
    BY <1>4 DEF Retires
  <2>2. QED
    BY <1>4, <2>1
<1>5. QED
  BY <1>2, <1>3, <1>4

\* check_finished_kernel.
LEMMA SimCheckInd ==
    ASSUME IndInv, SimCheck
    PROVE  IndInv'
<1>1. PICK R : /\ R = IF finished = <<>> THEN {} ELSE Retires(Head(finished), children, applied)
               /\ Retire(R, ops, children) /\ check' = (R # {})
  BY DEF SimCheck
<1>2. finished \in Seq(Ids) /\ applied \in SUBSET Ids /\ simPc = "check"
  BY DEF IndInv, TypeOK, SimCheck
<1>3. /\ finished' = IF finished = <<>> THEN <<>> ELSE Tail(finished)
      /\ simPc' = IF toReap' = {} THEN "front" ELSE "reap"
      /\ UNCHANGED <<prog, hostVars, g_sim_done, m_streams, m_last_stream, created, mlock, latency,
                     running, functional, ctaStream, devLaunch, parent, updates, g_sim_active,
                     nextId, applied>>
  BY DEF SimCheck, simHostUnchanged
<1>4. finished # <<>> => /\ 1 \in DOMAIN finished /\ Head(finished) = finished[1]
                         /\ Head(finished) \in DOMAIN gridStream \cap applied
  <2>1. finished # <<>> => 1 \in DOMAIN finished /\ Head(finished) = finished[1]
    BY <1>2
  <2>2. QED
    BY <2>1 DEF IndInv, GpuSound
<1>5. /\ R \in SUBSET DOMAIN gridStream /\ R \subseteq applied /\ \A x \in R : children[x] \subseteq R
      /\ \A x \in R : finished # <<>> /\ (x = Head(finished) \/ (x = parent[Head(finished)] /\ x # None))
  <2>1. CASE finished = <<>>
    BY <1>1, <2>1
  <2>2. CASE finished # <<>>
    <3>1. PICK k : k = Head(finished)
      OBVIOUS
    <3>2. k \in DOMAIN gridStream
      BY <1>4, <2>2, <3>1
    <3>3. R = Retires(k, children, applied)
      BY <1>1, <2>2, <3>1
    <3>4. QED
      BY <1>2, <2>2, <3>1, <3>2, <3>3, RetiresFacts
  <2>3. QED
    BY <2>1, <2>2
<1>6. /\ QueuesSound' /\ GridFront' /\ CallsWait' /\ LaunchesWait' /\ OwnersSound'
      /\ KidsSound' /\ CtaStreamsSound' /\ StreamsSound' /\ MineAccounted' /\ ZeroHeld'
      /\ ops' \in [AllStreams -> Seq(Operations)] /\ pending' \in [AllStreams -> BOOLEAN]
      /\ DOMAIN gridStream' = DOMAIN gridStream \ R
      /\ \A k \in DOMAIN gridStream' : gridStream'[k] = gridStream[k]
      /\ children' \in [Ids -> SUBSET Ids] /\ toReap' \subseteq DevStreams /\ applied' \subseteq Ids
  <2>1. Retire(R, ops, children)
    BY <1>1
  <2>2. applied \subseteq applied' /\ applied' \subseteq applied \cup DOMAIN gridStream /\ R \subseteq applied'
    BY <1>3, <1>5
  <2>3. R \in SUBSET DOMAIN gridStream /\ \A x \in R : children[x] \subseteq R
    BY <1>5
  <2>4. QED
    BY <1>3, <2>1, <2>2, <2>3, RetireInd
<1>7. finished' \in Seq(Ids) /\ Len(finished') \in Nat
      /\ \A i \in DOMAIN finished' : i + 1 \in DOMAIN finished /\ finished'[i] = finished[i + 1]
  <2>1. CASE finished = <<>>
    <3>1. finished' = <<>>
      BY <1>3, <2>1
    <3>2. QED
      BY <3>1
  <2>2. CASE finished # <<>>
    <3>1. finished' = Tail(finished)
      BY <1>3, <2>2
    <3>2. QED
      BY <1>2, <2>2, <3>1
  <2>3. QED
    BY <2>1, <2>2
<1>8. TypeOK'
  <2>1. simPc' \in {"front", "reap"} /\ check' \in BOOLEAN
    BY <1>1, <1>3
  <2>2. \A k \in DOMAIN gridStream' : k \in Ids /\ gridStream'[k] \in AllStreams
    BY <1>6 DEF IndInv, TypeOK
  <2>3. QED
    BY <1>3, <1>6, <1>7, <2>1, <2>2 DEF IndInv, TypeOK, hostVars
<1>9. GpuSound'
  <2>1. running \subseteq DOMAIN gridStream' \ applied
    BY <1>5, <1>6 DEF IndInv, GpuSound
  <2>2. prog.children => finished' = <<>>
    <3>1. prog.children => Len(finished) <= 1
      BY DEF IndInv, GpuSound
    <3>2. prog.children => DOMAIN finished' = {}
      BY <1>2, <1>7, <3>1
    <3>3. QED
      BY <1>7, <3>2
  <2>3. ASSUME NEW i \in DOMAIN finished' PROVE finished'[i] \in DOMAIN gridStream' \cap applied
    <3>1. i + 1 \in DOMAIN finished /\ finished'[i] = finished[i + 1] /\ i + 1 # 1
      BY <1>7
    <3>2. finished[i + 1] \in DOMAIN gridStream \cap applied
      BY <3>1 DEF IndInv, GpuSound
    <3>3. finished # <<>>
      BY <3>1
    <3>4. finished[i + 1] # Head(finished)
      BY <1>4, <3>1, <3>3 DEF IndInv, GpuSound
    <3>5. ~prog.children
      BY <2>2
    <3>6. parent[Head(finished)] = None
      BY <1>2, <1>4, <3>3, <3>5 DEF IndInv, KidsSound
    <3>7. finished[i + 1] \notin R
      BY <1>5, <3>4, <3>6
    <3>8. QED
      BY <1>6, <3>1, <3>2, <3>7
  <2>4. \A i, j \in DOMAIN finished' : finished'[i] = finished'[j] => i = j
    <3>1. ASSUME NEW i \in DOMAIN finished', NEW j \in DOMAIN finished', finished'[i] = finished'[j] PROVE i = j
      <4>1. i + 1 = j + 1
        BY <1>7, <3>1 DEF IndInv, GpuSound
      <4>2. i \in Nat /\ j \in Nat
        BY <1>7
      <4>3. QED
        BY <4>1, <4>2
    <3>2. QED
      BY <3>1
  <2>5. prog.functional => running = {} /\ finished' = <<>>
    BY <1>3 DEF IndInv, GpuSound
  <2>6. ~prog.functional => functional = None
    BY DEF IndInv, GpuSound
  <2>7. functional # None => functional \in DOMAIN gridStream' \ applied
    <3>1. functional # None => functional \in DOMAIN gridStream \ applied
      BY <1>2 DEF IndInv, GpuSound
    <3>2. QED
      BY <1>5, <1>6, <3>1
  <2>8. prog.children => Len(finished') <= 1
    <3>1. prog.children => Len(finished') = 0
      BY <2>2
    <3>2. QED
      BY <3>1
  <2>9. UNCHANGED <<running, applied, prog, functional>>
    BY <1>3
  <2>10. QED
    BY <2>1, <2>2, <2>3, <2>4, <2>5, <2>6, <2>7, <2>8, <2>9 DEF GpuSound
<1>10. Orderly(prog)'
  BY <1>3 DEF IndInv, Orderly
<1>11. QED
  BY <1>6, <1>8, <1>9, <1>10 DEF IndInv


\* The order in which the streams are looked at.
LEMMA TurnsFacts ==
    ASSUME TypeOK
    PROVE  /\ Turns \in Seq(created) /\ Len(Turns) = Len(m_streams)
           /\ \A j \in 1..Len(Turns) : Turns[j] \in ToSet(m_streams)
<1>1. m_streams \in Seq(created) /\ Len(m_streams) \in Nat
  BY DEF TypeOK
<1>2. PICK i : i = Position(m_last_stream)
  OBVIOUS
<1>3. i \in 0..Len(m_streams)
  <2>1. PICK I : I = {j \in 1..Len(m_streams) : m_streams[j] = m_last_stream}
    OBVIOUS
  <2>2. i = IF I # {} THEN Min(I) ELSE 0
    BY <1>2, <2>1 DEF Position, SelectInSeq
  <2>3. I \in SUBSET (1..Len(m_streams))
    BY <2>1
  <2>4. QED
    BY <1>1, <2>2, <2>3, SelectFacts
<1>4. PICK a, b : a = SubSeq(m_streams, i + 1, Len(m_streams)) /\ b = SubSeq(m_streams, 1, i)
  OBVIOUS
<1>5. PICK c : c = a \o b
  OBVIOUS
<1>6. Turns = c
  BY <1>2, <1>4, <1>5 DEF Turns
<1>7. /\ a \in Seq(created) /\ Len(a) = Len(m_streams) - i
      /\ \A j \in 1..Len(a) : a[j] = m_streams[i + j]
  <2>1. i \in Nat /\ i <= Len(m_streams)
    BY <1>1, <1>3
  <2>2. a \in Seq(created) /\ Len(a) = Len(m_streams) - i
    BY <1>1, <1>4, <2>1
  <2>3. \A j \in 1..Len(a) : a[j] = m_streams[i + j]
    BY <1>1, <1>4, <2>1, <2>2
  <2>4. QED
    BY <2>2, <2>3
<1>8. b \in Seq(created) /\ Len(b) = i /\ \A j \in 1..Len(b) : b[j] = m_streams[j]
  BY <1>1, <1>3, <1>4
<1>9. /\ c \in Seq(created) /\ Len(c) = Len(a) + Len(b)
      /\ \A j \in 1..Len(a) : c[j] = a[j]
      /\ \A j \in 1..Len(b) : c[Len(a) + j] = b[j]
  <2>1. a \in Seq(created) /\ b \in Seq(created)
    BY <1>7, <1>8
  <2>2. QED
    BY <1>5, <2>1, ConcatFacts
<1>10. ASSUME NEW j \in 1..Len(c) PROVE c[j] \in ToSet(m_streams)
  <2>1. CASE j <= Len(a)
    <3>1. i + j \in 1..Len(m_streams) /\ c[j] = m_streams[i + j]
      BY <1>1, <1>3, <1>7, <1>9, <2>1
    <3>2. QED
      BY <1>1, <3>1 DEF ToSet
  <2>2. CASE ~(j <= Len(a))
    <3>1. PICK v : v = j - Len(a)
      OBVIOUS
    <3>2. v \in 1..Len(b) /\ j = Len(a) + v
      BY <1>1, <1>3, <1>7, <1>8, <1>9, <2>2, <3>1
    <3>3. c[j] = m_streams[v] /\ v \in 1..Len(m_streams)
      BY <1>1, <1>3, <1>8, <1>9, <3>2
    <3>4. QED
      BY <1>1, <3>3 DEF ToSet
  <2>3. QED
    BY <2>1, <2>2
<1>11. Len(c) = Len(m_streams)
  BY <1>1, <1>3, <1>7, <1>8, <1>9
<1>12. QED
  BY <1>6, <1>9, <1>10, <1>11

\* front() takes a stream that has an operation and none under way; the round-robin position stays
\* on the list.
LEMMA ChosenFacts ==
    ASSUME IndInv
    PROVE  /\ Chosen # None => Chosen \in Alive /\ ops[Chosen] # <<>> /\ ~pending[Chosen]
           /\ LastServed \in ToSet(m_streams) \cup {None}
<1>1. /\ Turns \in Seq(created) /\ Len(Turns) = Len(m_streams) /\ Len(Turns) \in Nat
      /\ \A j \in 1..Len(Turns) : Turns[j] \in ToSet(m_streams)
  BY TurnsFacts DEF IndInv
<1>2. m_streams \in Seq(created) /\ m_last_stream \in ToSet(m_streams) \cup {None}
  BY DEF IndInv, TypeOK, StreamsSound
<1>3. m_streams # <<>> => Last(Turns) \in ToSet(m_streams)
  BY <1>1, <1>2 DEF Last
<1>4. CASE Ready(Zero)
  <2>1. Chosen = Zero /\ LastServed = m_last_stream
    BY <1>4 DEF Chosen, LastServed
  <2>2. QED
    BY <1>2, <1>4, <2>1 DEF Ready, Alive
<1>5. CASE ~Ready(Zero)
  <2>1. PICK i : i = SelectInSeq(Turns, Ready)
    OBVIOUS
  <2>2. PICK I : I = {j \in 1..Len(Turns) : Ready(Turns[j])}
    OBVIOUS
  <2>3. i = IF I # {} THEN Min(I) ELSE 0
    BY <2>1, <2>2 DEF SelectInSeq
  <2>4. I \in SUBSET (1..Len(Turns))
    BY <2>2
  <2>5. i # 0 => i \in I
    BY <1>1, <2>3, <2>4, SelectFacts
  <2>6. Chosen = IF i = 0 THEN None ELSE Turns[i]
    BY <1>5, <2>1 DEF Chosen
  <2>7. Chosen # None => Chosen \in ToSet(m_streams) /\ Ready(Chosen)
    BY <1>1, <2>2, <2>5, <2>6
  <2>8. LastServed \in ToSet(m_streams) \cup {None}
    BY <1>2, <1>3, <1>5, <2>7 DEF LastServed
  <2>9. QED
    BY <2>7, <2>8 DEF Ready, Alive
<1>6. QED
  BY <1>4, <1>5

\* The operation at the front of the chosen stream is neither launched nor applied.
LEMMA FrontFacts ==
    ASSUME IndInv, Chosen # None, NEW s, s = Chosen, NEW o, o = Head(ops[s])
    PROVE  /\ s \in AllStreams /\ ops[s] # <<>> /\ o = ops[s][1] /\ o \in Operations /\ o.id \in Ids
           /\ o.id < nextId /\ o.id \notin DOMAIN gridStream /\ o.id \notin applied
           /\ children[o.id] = {} /\ ctaStream[o.id] = None
<1>1. s \in Alive /\ ops[s] # <<>> /\ ~pending[s]
  BY ChosenFacts
<1>2. s \in AllStreams /\ ops \in Queues
  <2>1. m_streams \in Seq(created) /\ created \subseteq Streams \cup DevStreams
    BY DEF IndInv, TypeOK
  <2>2. ToSet(m_streams) \subseteq created
    BY <2>1 DEF ToSet
  <2>3. QED
    BY <1>1, <2>1, <2>2 DEF Alive, AllStreams, Queues, IndInv, TypeOK
<1>3. ops[s] \in Seq(Operations)
  BY <1>2 DEF Queues
<1>4. 1 \in DOMAIN ops[s] /\ o = ops[s][1] /\ o \in Operations
  BY <1>1, <1>3
<1>5. o.id \in Ids
  BY <1>4 DEF Operations
<1>6. InOps(ops, o.id)
  BY <1>2, <1>4 DEF InOps
<1>7. o.id \notin DOMAIN gridStream
  <2>1. ASSUME o.id \in DOMAIN gridStream PROVE FALSE
    <3>1. PICK t : t = gridStream[o.id]
      OBVIOUS
    <3>2. t \in AllStreams /\ 1 \in DOMAIN ops[t] /\ ops[t][1].id = o.id /\ pending[t]
      BY <2>1, <3>1, GridInOps DEF IndInv, GridFront
    <3>3. t = s
      BY <1>2, <1>4, <3>2 DEF IndInv, QueuesSound, UniqueIds
    <3>4. QED
      BY <1>1, <3>2, <3>3
  <2>2. QED
    BY <2>1
<1>8. o.id < nextId /\ o.id \notin applied
  BY <1>5, <1>6, <1>7 DEF IndInv, QueuesSound
<1>9. children[o.id] = {}
  BY <1>5, <1>7 DEF IndInv, KidsSound
<1>10. ctaStream[o.id] = None
  BY <1>5, <1>7, <1>8 DEF IndInv, CtaStreamsSound
<1>11. QED
  BY <1>1, <1>2, <1>4, <1>5, <1>7, <1>8, <1>9, <1>10

\* What operation() leaves alone under m_lock.
OperationFrame ==
    /\ m_last_stream' \in ToSet(m_streams) \cup {None}
    /\ simPc = "front" /\ simPc' \in {"stop", "cycle"} /\ check' = FALSE
    /\ UNCHANGED <<prog, hostVars, g_sim_done, m_streams, created, mlock, finished, children,
                   ctaStream, devLaunch, parent, toReap, g_sim_active, nextId>>

\* An operation takes effect and leaves its stream.
LEMMA PerformInd ==
    ASSUME IndInv, OperationFrame, Chosen # None, NEW s, s = Chosen, NEW o, o = Head(ops[s]), Perform(s, o)
    PROVE  IndInv'
<1>1. /\ s \in AllStreams /\ ops[s] # <<>> /\ o = ops[s][1] /\ o \in Operations /\ o.id \in Ids
      /\ o.id < nextId /\ o.id \notin DOMAIN gridStream /\ o.id \notin applied /\ children[o.id] = {}
  BY FrontFacts
<1>2. PICK F : F = {s}
  OBVIOUS
<1>3. PICK R : R = {o.id}
  OBVIOUS
<1>4. /\ F \in SUBSET AllStreams /\ (\A t \in F : ops[t] # <<>>)
      /\ R \in SUBSET Ids /\ (\A t \in F : ops[t][1].id \in R)
      /\ \A x \in R : \E t \in F : ops[t][1].id = x
  BY <1>1, <1>2, <1>3
<1>5. ops' = Popped(ops, F)
  <2>1. ops' = [ops EXCEPT ![s] = Tail(@)] /\ ops \in [AllStreams -> Seq(Operations)]
    BY DEF Perform, IndInv, TypeOK
  <2>2. QED
    BY <1>1, <1>2, <2>1 DEF Popped
<1>6. applied' = applied \cup R /\ UNCHANGED <<pending, gridStream, latency, running, functional>>
  BY <1>3 DEF Perform
<1>7. DOMAIN gridStream' = DOMAIN gridStream \ R
  BY <1>1, <1>3, <1>6
<1>8. \A k \in DOMAIN gridStream' : gridStream'[k] = gridStream[k] /\ pending'[gridStream[k]]
  BY <1>6 DEF IndInv, GridFront
<1>9. \A x \in R : \A c \in Ids : parent[c] = x => c \in applied'
  <2>1. ASSUME NEW c \in Ids, parent[c] = o.id PROVE c \in applied
    <3>1. o.id # None
      BY <1>1, NamesAssumption
    <3>2. QED
      BY <1>1, <2>1, <3>1 DEF IndInv, KidsSound
  <2>2. QED
    BY <1>3, <1>6, <2>1
<1>10. \A p \in Ids : /\ children'[p] \subseteq children[p]
                      /\ children[p] \ children'[p] \subseteq applied'
                      /\ children'[p] # {} => p \in DOMAIN gridStream'
  <2>1. children' = children
    BY DEF OperationFrame
  <2>2. QED
    BY <1>6, <2>1 DEF IndInv, KidsSound
<1>11. UNCHANGED <<prog, hostVars, m_streams, created, ctaStream, devLaunch, parent, nextId>>
  BY DEF OperationFrame
<1>12. /\ m_last_stream' \in ToSet(m_streams) \cup {None}
       /\ toReap' \subseteq created /\ (toReap' # {} => prog.children)
  BY DEF OperationFrame, IndInv, CtaStreamsSound
<1>13. \A k \in DOMAIN gridStream' : ctaStream[k] # None => ctaStream[k] \notin toReap'
  BY <1>6 DEF OperationFrame, IndInv, TypeOK, CtaStreamsSound
<1>14. /\ ops' \in Queues
       /\ QueuesSound' /\ GridFront' /\ CallsWait' /\ LaunchesWait' /\ OwnersSound'
       /\ KidsSound' /\ CtaStreamsSound' /\ StreamsSound' /\ MineAccounted' /\ ZeroHeld'
  <2>1. applied \subseteq applied' /\ applied' \subseteq applied \cup R \cup DOMAIN gridStream /\ R \subseteq applied'
    BY <1>6
  <2>2. QED
    BY <1>4, <1>5, <1>7, <1>8, <1>9, <1>10, <1>11, <1>12, <1>13, <2>1, PopInd
<1>15. TypeOK'
  <2>1. updates' \in [Events -> Nat]
    <3>1. updates \in [Events -> Nat]
      BY DEF IndInv, TypeOK
    <3>2. CASE updates' = updates
      BY <3>1, <3>2
    <3>3. CASE updates' = [updates EXCEPT ![o.e] = @ + 1]
      <4>1. PICK e : e = o.e
        OBVIOUS
      <4>2. updates' = [updates EXCEPT ![e] = updates[e] + 1]
        BY <3>3, <4>1
      <4>3. e \in Events => updates[e] + 1 \in Nat
        BY <3>1
      <4>4. QED
        BY <3>1, <4>2, <4>3
    <3>4. QED
      BY <3>2, <3>3 DEF Perform
  <2>2. applied' \subseteq Ids
    BY <1>4, <1>6 DEF IndInv, TypeOK
  <2>3. m_last_stream' \in Streams \cup DevStreams \cup {None}
    BY <1>12 DEF IndInv, TypeOK, ToSet
  <2>4. QED
    BY <1>6, <1>14, <2>1, <2>2, <2>3 DEF IndInv, TypeOK, OperationFrame, hostVars, Queues
<1>16. GpuSound'
  BY <1>1, <1>3, <1>6 DEF IndInv, GpuSound, OperationFrame
<1>17. Orderly(prog)'
  BY <1>11 DEF IndInv, Orderly
<1>18. QED
  BY <1>14, <1>15, <1>16, <1>17 DEF IndInv

\* A kernel is launched and stays at the front of its stream.
LEMMA LaunchInd ==
    ASSUME IndInv, OperationFrame, Chosen # None, NEW s, s = Chosen, NEW o, o = Head(ops[s]), Launch(s, o)
    PROVE  IndInv'
<1>1. /\ s \in AllStreams /\ ops[s] # <<>> /\ o = ops[s][1] /\ o \in Operations /\ o.id \in Ids
      /\ o.id < nextId /\ o.id \notin DOMAIN gridStream /\ o.id \notin applied
      /\ children[o.id] = {} /\ ctaStream[o.id] = None
  BY FrontFacts
<1>2. UNCHANGED <<ops, updates, applied, latency>>
  BY DEF Launch
<1>3. /\ DOMAIN gridStream' = DOMAIN gridStream \cup {o.id}
      /\ gridStream'[o.id] = s /\ \A k \in DOMAIN gridStream : gridStream'[k] = gridStream[k]
  BY <1>1 DEF Launch
<1>4. /\ pending' \in [AllStreams -> BOOLEAN] /\ pending'[s]
      /\ \A t \in AllStreams : pending[t] => pending'[t]
  <2>1. pending' = [pending EXCEPT ![s] = TRUE] /\ pending \in [AllStreams -> BOOLEAN]
    BY DEF Launch, IndInv, TypeOK
  <2>2. QED
    BY <1>1, <2>1
<1>5. UNCHANGED <<prog, call, recorded, mine, g_sim_done, m_streams, created, mlock, finished, children,
                  ctaStream, devLaunch, parent, toReap, g_sim_active, nextId>>
  BY DEF OperationFrame, hostVars
<1>6. \/ prog.functional /\ functional' = o.id /\ running' = running
      \/ ~prog.functional /\ functional' = functional /\ running' = running \cup {o.id}
  BY DEF Launch
<1>7. Later /\ nextId' = nextId
  BY <1>5 DEF IndInv, TypeOK, Later
<1>8. TypeOK'
  <2>1. m_last_stream' \in Streams \cup DevStreams \cup {None}
    BY DEF OperationFrame, IndInv, TypeOK, ToSet
  <2>2. \A k \in DOMAIN gridStream' : k \in Ids /\ gridStream'[k] \in AllStreams
    BY <1>1, <1>3 DEF IndInv, TypeOK
  <2>3. running' \subseteq Ids /\ functional' \in Ids \cup {None}
    BY <1>1, <1>6 DEF IndInv, TypeOK
  <2>4. simPc' \in {"stop", "cycle"} /\ check' \in BOOLEAN
    BY DEF OperationFrame
  <2>5. QED
    BY <1>2, <1>4, <1>5, <2>1, <2>2, <2>3, <2>4 DEF IndInv, TypeOK
<1>9. Orderly(prog)'
  BY <1>5 DEF IndInv, Orderly
<1>10. QueuesSound'
  <2>1. \A x : InOps(ops, x)' <=> InOps(ops, x)
    BY <1>2 DEF InOps
  <2>2. UniqueIds(ops)'
    BY <1>2 DEF IndInv, QueuesSound, UniqueIds
  <2>3. QED
    BY <1>2, <1>3, <1>5, <2>1, <2>2 DEF IndInv, QueuesSound
<1>11. GridFront'
  BY <1>1, <1>2, <1>3, <1>4 DEF IndInv, TypeOK, GridFront
<1>12. CallsWait'
  BY <1>2, <1>5, CallsFrame DEF IndInv
<1>13. LaunchesWait'
  BY <1>2, <1>5, <1>7, LaunchesFrame DEF IndInv, TypeOK
<1>14. OwnersSound'
  BY <1>2, <1>5, OwnersFrame DEF IndInv
<1>15. GpuSound'
  BY <1>1, <1>2, <1>3, <1>5, <1>6 DEF IndInv, GpuSound, OperationFrame
<1>16. KidsSound'
  BY <1>2, <1>3, <1>5 DEF IndInv, KidsSound
<1>17. CtaStreamsSound'
  BY <1>1, <1>2, <1>3, <1>5 DEF IndInv, CtaStreamsSound
<1>18. StreamsSound'
  BY <1>2, <1>5 DEF IndInv, StreamsSound, Alive, OperationFrame
<1>19. MineAccounted'
  BY <1>2, <1>5, MineFrame DEF IndInv
<1>20. ZeroHeld'
  BY <1>2, <1>5, ZeroFrame DEF IndInv
<1>21. QED
  BY <1>8, <1>9, <1>10, <1>11, <1>12, <1>13, <1>14, <1>15, <1>16, <1>17, <1>18, <1>19, <1>20
     DEF IndInv

\* Nothing is done: no stream is ready, or its operation has to wait.
LEMMA NothingDoneInd ==
    ASSUME IndInv, OperationFrame, latency' \in [Ids -> 0..LaunchLatency],
           UNCHANGED <<ops, pending, gridStream, updates, applied, running, functional>>
    PROVE  IndInv'
<1>1. UNCHANGED <<prog, call, recorded, mine, g_sim_done, m_streams, created, mlock, finished, children,
                  ctaStream, devLaunch, parent, toReap, g_sim_active, nextId>>
  BY DEF OperationFrame, hostVars
<1>2. Later
  BY <1>1 DEF IndInv, TypeOK, Later
<1>3. TypeOK'
  <2>1. m_last_stream' \in Streams \cup DevStreams \cup {None}
    BY DEF OperationFrame, IndInv, TypeOK, ToSet
  <2>2. simPc' \in {"stop", "cycle"} /\ check' \in BOOLEAN
    BY DEF OperationFrame
  <2>3. QED
    BY <1>1, <2>1, <2>2 DEF IndInv, TypeOK
<1>4. Orderly(prog)'
  BY <1>1 DEF IndInv, Orderly
<1>5. QueuesSound'
  BY <1>2, QueuesFrame DEF IndInv, TypeOK
<1>6. GridFront'
  BY GridFrame DEF IndInv
<1>7. CallsWait'
  BY <1>1, CallsFrame DEF IndInv
<1>8. LaunchesWait'
  BY <1>1, <1>2, LaunchesFrame DEF IndInv, TypeOK
<1>9. OwnersSound'
  BY <1>1, OwnersFrame DEF IndInv
<1>10. GpuSound'
  BY <1>1 DEF IndInv, GpuSound, OperationFrame
<1>11. KidsSound'
  BY <1>1, <1>2, KidsFrame DEF IndInv
<1>12. CtaStreamsSound'
  BY <1>1, CtaFrame DEF IndInv
<1>13. StreamsSound'
  BY <1>1 DEF IndInv, StreamsSound, Alive, OperationFrame
<1>14. MineAccounted'
  BY <1>1, MineFrame DEF IndInv
<1>15. ZeroHeld'
  BY <1>1, ZeroFrame DEF IndInv
<1>16. QED
  BY <1>3, <1>4, <1>5, <1>6, <1>7, <1>8, <1>9, <1>10, <1>11, <1>12, <1>13, <1>14, <1>15 DEF IndInv

\* operation() under m_lock.
LEMMA SimOperationInd ==
    ASSUME IndInv, SimOperation
    PROVE  IndInv'
<1>1. OperationFrame
  <2>1. simPc' \in {"stop", "cycle"}
    BY DEF SimOperation
  <2>2. m_last_stream' \in ToSet(m_streams) \cup {None}
    BY ChosenFacts DEF SimOperation
  <2>3. QED
    BY <2>1, <2>2 DEF SimOperation, OperationFrame, simHostUnchanged
<1>2. latency \in [Ids -> 0..LaunchLatency] /\ LaunchLatency \in Nat
  BY BoundAssumption DEF IndInv, TypeOK
<1>3. CASE Chosen = None
  <2>1. UNCHANGED <<ops, pending, gridStream, updates, applied, latency, running, functional>>
    BY <1>3 DEF SimOperation
  <2>2. latency' \in [Ids -> 0..LaunchLatency]
    BY <1>2, <2>1
  <2>3. QED
    BY <1>1, <2>1, <2>2, NothingDoneInd
<1>4. CASE Chosen # None
  <2>1. PICK s, o : s = Chosen /\ o = Head(ops[s])
    OBVIOUS
  <2>2. Perform(s, o) \/ Launch(s, o) \/ Cancel(s, o)
    BY <1>4, <2>1 DEF SimOperation
  <2>3. CASE Perform(s, o)
    BY <1>1, <1>4, <2>1, <2>3, PerformInd
  <2>4. CASE Launch(s, o)
    BY <1>1, <1>4, <2>1, <2>4, LaunchInd
  <2>5. CASE Cancel(s, o)
    <3>1. UNCHANGED <<ops, pending, gridStream, updates, applied, running, functional>>
      BY <2>5 DEF Cancel
    <3>2. latency' \in [Ids -> 0..LaunchLatency]
      <4>1. CASE latency' = latency
        BY <1>2, <4>1
      <4>2. CASE latency' = [latency EXCEPT ![o.id] = IF @ = 0 THEN 0 ELSE @ - 1]
        <5>1. o.id \in Ids
          BY <1>4, <2>1, FrontFacts
        <5>2. PICK v : v = IF latency[o.id] = 0 THEN 0 ELSE latency[o.id] - 1
          OBVIOUS
        <5>3. v \in 0..LaunchLatency
          BY <1>2, <5>1, <5>2
        <5>4. latency' = [latency EXCEPT ![o.id] = v]
          BY <4>2, <5>2
        <5>5. QED
          BY <1>2, <5>3, <5>4
      <4>3. QED
        BY <2>5, <4>1, <4>2 DEF Cancel
    <3>3. QED
      BY <1>1, <3>1, <3>2, NothingDoneInd
  <2>6. QED
    BY <2>2, <2>3, <2>4, <2>5
<1>5. QED
  BY <1>3, <1>4


-----------------------------------------------------------------------------
(* Kernels that launch kernels. *)

\* What the creation of n children, possibly none, leaves true.
Growth(n) ==
    /\ m_streams' \in Seq(created') /\ created' \subseteq Streams \cup DevStreams
    /\ ToSet(m_streams) \subseteq ToSet(m_streams')
    /\ ctaStream' \in [Ids -> DevStreams \cup {None}]
    /\ parent' \in [Ids -> Ids \cup {None}] /\ children' \in [Ids -> SUBSET Ids]
    /\ nextId' = nextId + n /\ nextId' \in 1..MaxOps + 1
    /\ \A c \in Ids : c < nextId => parent'[c] = parent[c]
    /\ \A l \in Ids : ctaStream[l] # None => ctaStream'[l] = ctaStream[l]
    /\ \A p \in Ids : children[p] \subseteq children'[p]
    /\ KidsSound' /\ CtaStreamsSound'
    /\ \A x : Complete(x) => Complete(x)'

\* m_grid_id_to_stream stays as it is.
SameGrid ==
    /\ DOMAIN gridStream' = DOMAIN gridStream
    /\ \A k \in DOMAIN gridStream : gridStream'[k] = gridStream[k]

\* A kernel that creates no children changes nothing.
LEMMA CreatesNothing ==
    ASSUME IndInv, NEW k, CreateChildren(k, 0, None)
    PROVE  UNCHANGED <<created, m_streams, ctaStream, nextId, parent>>
<1>1. UNCHANGED <<created, m_streams, ctaStream, nextId>>
  <2>1. created' = created \cup ({None} \ {None}) /\ m_streams' = m_streams /\ ctaStream' = ctaStream
    BY DEF CreateChildren
  <2>2. nextId \in Nat /\ nextId' = nextId + 0
    BY DEF CreateChildren, IndInv, TypeOK
  <2>3. QED
    BY <2>1, <2>2
<1>2. parent' = parent
  <2>1. NewChildren(0) = {}
    BY DEF NewChildren, IndInv, TypeOK
  <2>2. parent' = [c \in Ids |-> parent[c]] /\ parent \in [Ids -> Ids \cup {None}]
    BY <2>1 DEF CreateChildren, IndInv, TypeOK
  <2>3. QED
    BY <2>2
<1>3. QED
  BY <1>1, <1>2

\* No children.
LEMMA NoChildren ==
    ASSUME IndInv, CreateChildren(None, 0, None), UNCHANGED <<children, gridStream, prog, toReap>>,
           applied \subseteq applied'
    PROVE  Growth(0)
<1>1. UNCHANGED <<created, m_streams, ctaStream, nextId>>
  BY CreatesNothing
<1>2. parent' = parent
  BY CreatesNothing
<1>3. KidsSound'
  BY <1>1, <1>2 DEF IndInv, KidsSound
<1>4. CtaStreamsSound'
  BY <1>1 DEF IndInv, CtaStreamsSound
<1>5. \A x : Complete(x) => Complete(x)'
  BY <1>2 DEF Complete
<1>6. nextId' = nextId + 0 /\ nextId' \in 1..MaxOps + 1
  BY <1>1 DEF IndInv, TypeOK
<1>7. QED
  BY <1>1, <1>2, <1>3, <1>4, <1>5, <1>6 DEF Growth, IndInv, TypeOK

\* Kernel k, which is launched and not done, creates children for stream d.
LEMMA Children ==
    ASSUME IndInv, NEW k \in DOMAIN gridStream, k \notin applied, NEW n \in Nat, n > 0,
           NEW d \in ChildStreams(k, n), CreateChildren(k, n, d), children' = Adopted(k, n),
           SameGrid, prog' = prog, toReap' \subseteq toReap, applied \subseteq applied'
    PROVE  /\ Growth(n) /\ prog.children /\ nextId + n - 1 <= MaxOps
           /\ d \in DevStreams /\ d \in ToSet(m_streams')
           /\ \A c \in NewChildren(n) : /\ c \in Ids /\ parent'[c] = k
                                        /\ ctaStream'[k] = d /\ c \in children'[k]
<1> USE DEF SameGrid
<1>1. /\ prog.children /\ nextId + n <= prog.ops + 1
      /\ \/ ctaStream[k] # None /\ d = ctaStream[k]
         \/ ctaStream[k] = None /\ d \in DevStreams \ created
  <2>1. prog.ops \in 0..MaxOps /\ MaxOps \in Nat /\ nextId \in Nat
    BY ProgramsAssumption, BoundAssumption DEF IndInv, TypeOK
  <2>2. n # 0
    OBVIOUS
  <2>3. PICK stop \in BOOLEAN : stop <=> \/ ~prog.children \/ prog.launchBlocking
                                        \/ parent[k] # None \/ nextId + n > prog.ops + 1
    OBVIOUS
  <2>4. ~stop /\ d \in IF ctaStream[k] # None THEN {ctaStream[k]} ELSE DevStreams \ created
    BY <2>2, <2>3 DEF ChildStreams
  <2>5. ~(nextId + n > prog.ops + 1) /\ prog.children
    BY <2>3, <2>4
  <2>6. nextId + n <= prog.ops + 1
    BY <2>1, <2>5
  <2>7. QED
    BY <2>4, <2>5, <2>6
<1>2. /\ k \in Ids /\ k < nextId /\ nextId \in Nat /\ nextId >= 1 /\ MaxOps \in Nat
      /\ prog.ops \in Nat /\ prog.ops <= MaxOps
  <2>1. prog.ops \in 0..MaxOps /\ MaxOps \in Nat
    BY ProgramsAssumption, BoundAssumption DEF IndInv, TypeOK
  <2>2. prog.ops \in Nat /\ prog.ops <= MaxOps
    BY <2>1
  <2>3. nextId \in Nat /\ nextId >= 1
    BY <2>1 DEF IndInv, TypeOK
  <2>4. k \in Ids /\ k < nextId
    BY GridInOps
  <2>5. QED
    BY <2>1, <2>2, <2>3, <2>4
<1>3. /\ nextId' = nextId + n /\ nextId' \in 1..MaxOps + 1 /\ nextId + n - 1 <= MaxOps
      /\ \A c \in NewChildren(n) : c \in Ids /\ c >= nextId /\ c < nextId' /\ k < c
  BY <1>1, <1>2 DEF CreateChildren, NewChildren, Ids
<1>4. /\ ctaStream \in [Ids -> DevStreams \cup {None}] /\ parent \in [Ids -> Ids \cup {None}]
      /\ children \in [Ids -> SUBSET Ids] /\ m_streams \in Seq(created)
      /\ created \subseteq Streams \cup DevStreams
  BY DEF IndInv, TypeOK
<1>5. d \in DevStreams /\ d # None
  BY <1>1, <1>2, <1>4, NamesAssumption DEF AllStreams
<1>6. /\ created' = created \cup {d} /\ created' \subseteq Streams \cup DevStreams
      /\ m_streams' \in Seq(created') /\ ToSet(m_streams') = ToSet(m_streams) \cup {d}
  <2>1. created' = created \cup {d}
    BY <1>5 DEF CreateChildren
  <2>2. m_streams \in Seq(created') /\ d \in created'
    BY <1>4, <2>1, SeqLarger
  <2>3. CASE d \in created
    <3>1. m_streams' = m_streams
      BY <2>3 DEF CreateChildren
    <3>2. d \in ToSet(m_streams)
      BY <1>1, <1>2, <2>3 DEF IndInv, CtaStreamsSound
    <3>3. QED
      BY <1>4, <1>5, <2>1, <2>2, <3>1, <3>2
  <2>4. CASE d \notin created
    <3>1. m_streams' = Append(m_streams, d)
      BY <1>5, <2>4 DEF CreateChildren
    <3>2. m_streams' \in Seq(created') /\ ToSet(m_streams') = ToSet(m_streams) \cup {d}
      BY <2>2, <3>1, AppendFacts
    <3>3. QED
      BY <1>4, <1>5, <2>1, <3>2
  <2>5. QED
    BY <2>3, <2>4
<1>7. /\ ctaStream' \in [Ids -> DevStreams \cup {None}] /\ ctaStream'[k] = d
      /\ \A l \in Ids \ {k} : ctaStream'[l] = ctaStream[l]
  BY <1>2, <1>4, <1>5 DEF CreateChildren
<1>8. /\ parent' \in [Ids -> Ids \cup {None}]
      /\ \A c \in Ids : c \in NewChildren(n) => parent'[c] = k
      /\ \A c \in Ids : c \notin NewChildren(n) => parent'[c] = parent[c]
  BY <1>2, <1>4 DEF CreateChildren
<1>9. /\ children' \in [Ids -> SUBSET Ids] /\ children'[k] = children[k] \cup NewChildren(n)
      /\ \A p \in Ids \ {k} : children'[p] = children[p]
  BY <1>2, <1>3, <1>4 DEF Adopted
<1>10. \A c \in Ids : c < nextId => c \notin NewChildren(n)
  BY <1>2, <1>3 DEF Ids
<1>11. KidsSound'
  <2>1. \A p \in Ids : children'[p] # {} => p \in DOMAIN gridStream
    BY <1>9 DEF IndInv, KidsSound
  <2>2. ASSUME NEW p \in Ids, NEW c \in children'[p] PROVE parent'[c] = p
    <3>1. CASE c \in children[p]
      <4>1. c \in Ids /\ parent[c] = p /\ p # None
        BY <1>4, <3>1, NamesAssumption DEF IndInv, KidsSound
      <4>2. c < nextId
        BY <4>1 DEF IndInv, KidsSound
      <4>3. QED
        BY <1>8, <1>10, <4>1, <4>2
    <3>2. CASE c \in NewChildren(n) /\ p = k
      BY <1>3, <1>8, <3>2
    <3>3. QED
      BY <1>9, <2>2, <3>1, <3>2
  <2>3. ASSUME NEW c \in Ids, parent'[c] # None
        PROVE  /\ c < nextId' /\ parent'[c] < c /\ prog.children
               /\ c \in children'[parent'[c]] \/ c \in applied'
    <3>1. CASE c \in NewChildren(n)
      BY <1>1, <1>3, <1>8, <1>9, <3>1
    <3>2. CASE c \notin NewChildren(n)
      <4>1. parent'[c] = parent[c] /\ parent[c] \in Ids
        BY <1>4, <1>8, <2>3, <3>2
      <4>2. c < nextId /\ parent[c] < c /\ (c \in children[parent[c]] \/ c \in applied)
        BY <2>3, <4>1 DEF IndInv, KidsSound
      <4>3. c < nextId'
        BY <1>2, <1>3, <4>2 DEF Ids
      <4>4. children[parent[c]] \subseteq children'[parent[c]]
        BY <1>9, <4>1
      <4>5. QED
        BY <1>1, <4>1, <4>2, <4>3, <4>4
    <3>3. QED
      BY <3>1, <3>2
  <2>4. QED
    BY <2>1, <2>2, <2>3 DEF KidsSound
<1>12. CtaStreamsSound'
  <2>1. ASSUME NEW l \in Ids, ctaStream'[l] # None
        PROVE  /\ ctaStream'[l] \in created' /\ prog.children /\ l \in DOMAIN gridStream \cup applied'
               /\ l \in DOMAIN gridStream => ctaStream'[l] \in ToSet(m_streams') \ toReap'
    <3>1. CASE l = k
      <4>1. d \notin toReap
        BY <1>1, <1>2 DEF IndInv, CtaStreamsSound
      <4>2. QED
        BY <1>1, <1>6, <1>7, <3>1, <4>1
    <3>2. CASE l # k
      BY <1>6, <1>7, <2>1, <3>2 DEF IndInv, CtaStreamsSound
    <3>3. QED
      BY <3>1, <3>2
  <2>2. ASSUME NEW l \in Ids, NEW m \in Ids, ctaStream'[l] # None, ctaStream'[l] = ctaStream'[m]
        PROVE  l = m
    <3>1. \A j \in Ids : j # k /\ ctaStream[j] # None => ctaStream[j] # d
      BY <1>1, <1>2 DEF IndInv, CtaStreamsSound
    <3>2. QED
      BY <1>5, <1>7, <2>2, <3>1 DEF IndInv, CtaStreamsSound
  <2>3. toReap' \subseteq created' /\ (toReap' # {} => prog.children)
    BY <1>6 DEF IndInv, CtaStreamsSound
  <2>4. QED
    BY <2>1, <2>2, <2>3 DEF CtaStreamsSound
<1>13. ASSUME NEW x, Complete(x) PROVE Complete(x)'
  <2>1. x \in applied /\ x # k
    BY <1>13 DEF Complete
  <2>2. ASSUME NEW c \in Ids, parent'[c] = x PROVE c \in applied'
    BY <1>8, <1>13, <2>1, <2>2 DEF Complete
  <2>3. QED
    BY <2>1, <2>2 DEF Complete
<1>14. \A c \in Ids : c < nextId => parent'[c] = parent[c]
  BY <1>8, <1>10
<1>15. \A l \in Ids : ctaStream[l] # None => ctaStream'[l] = ctaStream[l]
  BY <1>1, <1>7
<1>16. \A p \in Ids : children[p] \subseteq children'[p]
  BY <1>9
<1>17. Growth(n)
  BY <1>3, <1>6, <1>7, <1>8, <1>9, <1>11, <1>12, <1>13, <1>14, <1>15, <1>16 DEF Growth
<1>18. QED
  BY <1>1, <1>3, <1>5, <1>6, <1>7, <1>8, <1>9, <1>17

\* The kernels N join the queues of streams of the device, and launched kernels may finish.
LEMMA GrowInd ==
    ASSUME IndInv, NEW n \in Nat, Growth(n), NEW N \in SUBSET Ids, ops' \in Queues,
           \A t \in AllStreams : \A i \in DOMAIN ops[t] : i \in DOMAIN ops'[t] /\ ops'[t][i] = ops[t][i],
           \A t \in AllStreams : \A i \in DOMAIN ops'[t] :
               \/ i \in DOMAIN ops[t] /\ ops'[t][i] = ops[t][i]
               \/ t \in DevStreams /\ t \in ToSet(m_streams') /\ ops'[t][i].id \in N,
           \A x : InOps(ops', x) <=> InOps(ops, x) \/ x \in N,
           UniqueIds(ops'),
           \A x \in N : parent'[x] # None /\ x < nextId' /\ x \notin applied',
           applied \subseteq applied', applied' \subseteq applied \cup DOMAIN gridStream,
           SameGrid, UNCHANGED <<prog, hostVars, pending, m_last_stream>>
    PROVE  /\ QueuesSound' /\ GridFront' /\ CallsWait' /\ OwnersSound'
           /\ StreamsSound' /\ MineAccounted' /\ ZeroHeld'
<1> USE DEF SameGrid
<1>1. /\ nextId \in Nat /\ nextId' \in Nat /\ nextId <= nextId' /\ applied \subseteq Ids
      /\ ToSet(m_streams) \subseteq ToSet(m_streams')
      /\ \A c \in Ids : c < nextId => parent'[c] = parent[c]
      /\ \A x : Complete(x) => Complete(x)'
  <2>1. nextId \in Nat /\ nextId' = nextId + n /\ applied \subseteq Ids
    BY DEF IndInv, TypeOK, Growth
  <2>2. nextId' \in Nat /\ nextId <= nextId'
    BY <2>1
  <2>3. QED
    BY <2>1, <2>2 DEF Growth
<1>2. \A x \in Ids : x < nextId => x < nextId'
  BY <1>1 DEF Ids
<1>3. \A x : InOps(ops, x)' <=> InOps(ops', x)
  BY DEF InOps
<1>4. \A x \in DOMAIN gridStream : InOps(ops, x) /\ x < nextId /\ x \in Ids
  BY GridInOps
<1>5. ops \in Queues
  BY DEF IndInv, TypeOK, Queues
<1>6. QueuesSound'
  <2>1. UniqueIds(ops)'
    BY DEF UniqueIds
  <2>2. ASSUME NEW x \in Ids, InOps(ops', x)
        PROVE  x < nextId' /\ (x \in applied' => x \in DOMAIN gridStream)
    BY <1>2, <2>2 DEF IndInv, QueuesSound
  <2>3. \A x \in applied' : x < nextId'
    BY <1>1, <1>2, <1>4 DEF IndInv, QueuesSound
  <2>4. QED
    BY <1>3, <2>1, <2>2, <2>3 DEF QueuesSound
<1>7. GridFront'
  <2>1. ASSUME NEW t \in AllStreams, ops[t] # <<>> PROVE ops'[t] # <<>> /\ ops'[t][1] = ops[t][1]
    <3>1. 1 \in DOMAIN ops[t]
      BY <1>5, <2>1 DEF Queues
    <3>2. 1 \in DOMAIN ops'[t] /\ ops'[t][1] = ops[t][1]
      BY <3>1
    <3>3. QED
      BY <3>2
  <2>2. QED
    BY <2>1 DEF IndInv, TypeOK, GridFront
<1>8. \A h \in Hosts : \A x \in mine[h] : /\ x \in Ids /\ x < nextId /\ parent[x] = None
                                          /\ parent'[x] = None /\ x \notin N
  <2>1. \A h \in Hosts : \A x \in mine[h] : x \in Ids /\ x < nextId /\ parent[x] = None
    BY DEF IndInv, TypeOK, OwnersSound
  <2>2. QED
    BY <1>1, <2>1
<1>9. CallsWait'
  <2>1. ASSUME NEW h \in Hosts, call[h].pc \in {"block", "push"}, NEW x, x = call[h].op.id PROVE NotYet(x)'
    <3>1. x \in mine[h] /\ NotYet(x)
      BY <2>1 DEF IndInv, OwnersSound, CallsWait, Pushes
    <3>2. x \notin N /\ x \in Ids
      BY <1>8, <3>1
    <3>3. ~InOps(ops, x) /\ x < nextId /\ x \notin applied
      BY <3>1 DEF NotYet
    <3>4. x \notin applied' /\ x < nextId' /\ ~InOps(ops', x)
      BY <1>2, <1>4, <3>2, <3>3
    <3>5. QED
      BY <1>3, <3>4 DEF NotYet
  <2>2. \A h \in Hosts : call[h].pc \in {"block", "push"} => NotYet(call[h].op.id)'
    BY <2>1 DEF NotYet, hostVars
  <2>3. QED
    BY <2>2 DEF CallsWait, hostVars
<1>10. OwnersSound'
  <2>1. ASSUME NEW g \in Hosts, NEW x \in mine[g], NEW t \in AllStreams, NEW i \in DOMAIN ops'[t],
               ops'[t][i].id = x
        PROVE  ops'[t][i].host = g
    BY <1>8, <2>1 DEF IndInv, OwnersSound
  <2>2. \A g \in Hosts : \A x \in mine[g] : x < nextId'
    BY <1>2, <1>8
  <2>3. QED
    BY <1>8, <2>1, <2>2 DEF IndInv, OwnersSound, hostVars
<1>11. StreamsSound'
  <2>1. ASSUME NEW t \in AllStreams, ops'[t] # <<>> PROVE t \in ToSet(m_streams') \cup {Zero}
    <3>1. 1 \in DOMAIN ops'[t]
      BY <2>1 DEF Queues
    <3>2. 1 \in DOMAIN ops[t] => ops[t] # <<>>
      OBVIOUS
    <3>3. QED
      BY <1>1, <3>1, <3>2 DEF IndInv, StreamsSound, Alive
  <2>2. ASSUME NEW h \in Hosts, call[h].pc \in {"block", "push"}
        PROVE  \/ call[h].s = Zero
               \/ /\ call[h].s \in ToSet(m_streams')
                  /\ \/ call[h].s \in Streams /\ prog.owner[call[h].s] = h
                     \/ prog.destroys = {} /\ ~prog.children
    BY <1>1, <2>2 DEF IndInv, StreamsSound
  <2>3. m_last_stream' \in ToSet(m_streams') \cup {None}
    BY <1>1 DEF IndInv, StreamsSound
  <2>4. UNCHANGED <<prog, call, recorded>>
    BY DEF hostVars
  <2>5. /\ \A e \in Events : recorded[e] # <<>> => prog.recordOn[e] # {}
        /\ \A h \in Hosts : call[h].pc = "next" \/ (call[h].pc \in Pushes /\ call[h].all) =>
              call[h].op.e \in Events /\ prog.destroys = {} /\ ~prog.children
        /\ \A h \in Hosts : call[h].pc \in {"streamSync", "destroyLock", "destroyErase"} =>
              prog.owner[call[h].s] = h /\ h \in prog.destroys
    BY DEF IndInv, StreamsSound
  <2>6. QED
    BY <2>1, <2>2, <2>3, <2>4, <2>5 DEF StreamsSound, Alive
<1>12. MineAccounted'
  BY <1>1, <1>3 DEF IndInv, MineAccounted, hostVars
<1>13. ZeroHeld'
  <2>1. Zero \in AllStreams /\ Zero \notin DevStreams
    BY NamesAssumption DEF AllStreams
  <2>2. ASSUME NEW j \in DOMAIN ops'[Zero], NEW g, g = ops'[Zero][j].host
        PROVE  g \in Hosts /\ call[g].pc = "drain" /\ call[g].op.id = ops'[Zero][j].id
    <3>1. j \in DOMAIN ops[Zero] /\ ops'[Zero][j] = ops[Zero][j]
      BY <2>1
    <3>2. QED
      BY <2>2, <3>1 DEF IndInv, ZeroHeld
  <2>3. UNCHANGED <<prog, call, mine>>
    BY DEF hostVars
  <2>4. ASSUME NEW h \in Hosts, call[h].pc = "drain" \/ (call[h].pc = "push" /\ Blocks(h)),
               NEW x \in mine[h] \ {call[h].op.id}
        PROVE  Complete(x)'
    BY <1>1, <2>4 DEF IndInv, ZeroHeld
  <2>5. QED
    BY <2>2, <2>3, <2>4 DEF ZeroHeld, Blocks
<1>14. QED
  BY <1>6, <1>7, <1>9, <1>10, <1>11, <1>12, <1>13

-----------------------------------------------------------------------------
(* Children that wait in g_cuda_device_launch_op for their turn. *)

\* What is needed of a child before launch_one_device_kernel pushes it.
Queued(e) ==
    /\ e.id < nextId' /\ ~InOps(ops, e.id) /\ e.id \notin applied'
    /\ parent'[e.id] # None /\ e.id \in children'[parent'[e.id]]
    /\ e.s = ctaStream'[parent'[e.id]] /\ e.s \in ToSet(m_streams')
Waiting == [id : Ids, s : DevStreams]
Entries(n, d) == [i \in 1..n |-> [id |-> nextId + i - 1, s |-> d]]
\* A list of such children, none of them twice.
QueuedAll(queue) ==
    /\ queue \in Seq(Waiting)
    /\ \A i \in DOMAIN queue : Queued(queue[i])
    /\ \A i, j \in DOMAIN queue : queue[i].id = queue[j].id => i = j
\* Kernel k has created n children for stream d.
Adoption(k, n, d) ==
    /\ n > 0 => k \in Ids /\ d \in DevStreams /\ d \in ToSet(m_streams')
    /\ \A c \in NewChildren(n) : /\ c \in Ids /\ parent'[c] = k
                                 /\ ctaStream'[k] = d /\ c \in children'[k]

\* Children that wait already go on waiting.
LEMMA StillQueued ==
    ASSUME IndInv, NEW n \in Nat, Growth(n), applied' \subseteq applied \cup DOMAIN gridStream,
           NEW i \in DOMAIN devLaunch, NEW e, e = devLaunch[i]
    PROVE  e \in Waiting /\ Queued(e) /\ e.id < nextId
<1>1. e \in Waiting
  BY ElementOf DEF Waiting, IndInv, TypeOK
<1>2. PICK c, p : c = e.id /\ p = parent[c]
  OBVIOUS
<1>3. /\ c \in Ids /\ e.s \in DevStreams /\ NotYet(c) /\ p # None /\ c \in children[p] /\ e.s = ctaStream[p]
  BY <1>1, <1>2 DEF IndInv, LaunchesWait, Waiting
<1>4. p \in Ids /\ c < nextId /\ ~InOps(ops, c) /\ c \notin applied
  BY <1>2, <1>3 DEF IndInv, TypeOK, NotYet
<1>5. p \in DOMAIN gridStream /\ c \notin DOMAIN gridStream
  <2>1. p \in DOMAIN gridStream
    BY <1>3, <1>4 DEF IndInv, KidsSound
  <2>2. QED
    BY <1>4, <2>1, GridInOps
<1>6. e.s # None
  BY <1>3, NamesAssumption DEF AllStreams
<1>7. e.s \in ToSet(m_streams)
  BY <1>3, <1>4, <1>5, <1>6 DEF IndInv, CtaStreamsSound
<1>8. /\ parent'[c] = p /\ ctaStream'[p] = e.s /\ c \in children'[p]
      /\ e.s \in ToSet(m_streams') /\ nextId' = nextId + n
  BY <1>2, <1>3, <1>4, <1>6, <1>7 DEF Growth
<1>9. c < nextId'
  <2>1. nextId \in Nat /\ c \in Nat
    BY <1>3 DEF Ids, IndInv, TypeOK
  <2>2. QED
    BY <1>4, <1>8, <2>1
<1>10. QED
  BY <1>1, <1>2, <1>3, <1>4, <1>5, <1>8, <1>9 DEF Queued

\* The list with the n children that kernel k has just created for stream d.
LEMMA QueueFacts ==
    ASSUME IndInv, NEW n \in Nat, Growth(n), applied' \subseteq applied \cup DOMAIN gridStream,
           NEW k, NEW d, Adoption(k, n, d), NEW queue, queue = devLaunch \o Entries(n, d)
    PROVE  QueuedAll(queue)
<1> PICK new : new = Entries(n, d)
  OBVIOUS
<1>1. nextId \in Nat /\ devLaunch \in Seq(Waiting) /\ nextId' = nextId + n /\ Len(devLaunch) \in Nat
  BY DEF IndInv, TypeOK, Growth, Waiting
<1>2. ASSUME NEW j \in 1..n, NEW c, c = nextId + j - 1
      PROVE  /\ new[j] = [id |-> c, s |-> d] /\ c \in NewChildren(n)
             /\ c \in Ids /\ c >= nextId /\ c < nextId' /\ new[j] \in Waiting
  <2>1. c \in NewChildren(n) /\ c >= nextId /\ c < nextId' /\ n > 0
    BY <1>1, <1>2 DEF NewChildren
  <2>2. new[j] = [id |-> c, s |-> d]
    BY <1>2 DEF Entries
  <2>3. c \in Ids /\ d \in DevStreams
    BY <2>1 DEF Adoption
  <2>4. QED
    BY <2>1, <2>2, <2>3 DEF Waiting
<1>3. new \in [1..n -> Waiting]
  <2>1. \A j \in 1..n : new[j] \in Waiting
    BY <1>2
  <2>2. QED
    BY <2>1 DEF Entries
<1>4. new \in Seq(Waiting) /\ Len(new) = n
  BY <1>3, FunSeq
<1>5. /\ queue \in Seq(Waiting) /\ DOMAIN queue = 1..(Len(devLaunch) + n)
      /\ \A i \in 1..Len(devLaunch) : queue[i] = devLaunch[i]
      /\ \A j \in 1..n : queue[Len(devLaunch) + j] = new[j]
  <2>1. devLaunch \in Seq(Waiting) /\ new \in Seq(Waiting) /\ queue = devLaunch \o new
    BY <1>1, <1>4
  <2>2. /\ queue \in Seq(Waiting) /\ DOMAIN queue = 1..(Len(devLaunch) + Len(new))
        /\ \A i \in 1..Len(devLaunch) : queue[i] = devLaunch[i]
        /\ \A j \in 1..Len(new) : queue[Len(devLaunch) + j] = new[j]
    BY ONLY <2>1, ConcatFacts
  <2>3. QED
    BY <1>4, <2>2
<1>6. ASSUME NEW i \in DOMAIN queue
      PROVE  \/ i \in 1..Len(devLaunch) /\ queue[i].id < nextId /\ queue[i].id \in Ids
                /\ queue[i] = devLaunch[i] /\ Queued(queue[i])
             \/ \E j \in 1..n : /\ i = Len(devLaunch) + j /\ queue[i].id = nextId + j - 1
                                /\ Queued(queue[i])
  <2>1. CASE i \in 1..Len(devLaunch)
    <3>1. i \in DOMAIN devLaunch /\ queue[i] = devLaunch[i]
      BY <1>1, <1>5, <2>1
    <3>2. PICK e : e = devLaunch[i]
      OBVIOUS
    <3>3. e \in Waiting /\ Queued(e) /\ e.id < nextId
      BY <3>1, <3>2, StillQueued
    <3>4. e.id \in Ids
      BY <3>3 DEF Waiting
    <3>5. QED
      BY <2>1, <3>1, <3>2, <3>3, <3>4
  <2>2. CASE i \notin 1..Len(devLaunch)
    <3>1. PICK j \in 1..n : i = Len(devLaunch) + j
      <4>1. i \in Nat /\ i - Len(devLaunch) \in 1..n /\ i = Len(devLaunch) + (i - Len(devLaunch))
        BY <1>1, <1>5, <2>2
      <4>2. QED
        BY <4>1
    <3>2. PICK c : c = nextId + j - 1
      OBVIOUS
    <3>3. /\ new[j] = [id |-> c, s |-> d] /\ c \in NewChildren(n)
          /\ c \in Ids /\ c >= nextId /\ c < nextId'
      BY <1>2, <3>2
    <3>4. queue[i].id = c /\ queue[i].s = d
      BY <1>5, <3>1, <3>3
    <3>5. ~(c < nextId)
      BY <1>1, <3>2, <3>3
    <3>6. ~InOps(ops, c) /\ c \notin applied /\ c \notin DOMAIN gridStream
      <4>1. ~InOps(ops, c) /\ c \notin applied
        BY <3>3, <3>5 DEF IndInv, QueuesSound
      <4>2. QED
        BY <3>5, <4>1, GridInOps
    <3>7. n > 0
      BY <1>1
    <3>8. /\ parent'[c] = k /\ k # None /\ c \in children'[k] /\ d = ctaStream'[k] /\ d \in ToSet(m_streams')
      BY <3>3, <3>7, NamesAssumption DEF Adoption
    <3>9. c \notin applied'
      BY <3>6
    <3>10. Queued(queue[i])
      BY <3>3, <3>4, <3>6, <3>8, <3>9 DEF Queued
    <3>11. QED
      BY <3>1, <3>2, <3>4, <3>10
  <2>3. QED
    BY <2>1, <2>2
<1>7. ASSUME NEW i \in DOMAIN queue, NEW j \in DOMAIN queue, queue[i].id = queue[j].id PROVE i = j
  <2>1. DOMAIN devLaunch = 1..Len(devLaunch)
    BY <1>1
  <2>2. CASE i \in 1..Len(devLaunch) /\ j \in 1..Len(devLaunch)
    BY <1>5, <1>7, <2>1, <2>2 DEF IndInv, LaunchesWait
  <2>3. CASE i \notin 1..Len(devLaunch) /\ j \notin 1..Len(devLaunch)
    <3>1. PICK a \in 1..n : i = Len(devLaunch) + a /\ queue[i].id = nextId + a - 1
      BY <1>6, <2>3
    <3>2. PICK b \in 1..n : j = Len(devLaunch) + b /\ queue[j].id = nextId + b - 1
      BY <1>6, <2>3
    <3>3. nextId + a - 1 = nextId + b - 1
      BY <1>7, <3>1, <3>2
    <3>4. a = b
      BY <1>1, <3>3
    <3>5. QED
      BY <3>1, <3>2, <3>4
  <2>4. \A x \in DOMAIN queue : x \in 1..Len(devLaunch) => queue[x].id < nextId /\ queue[x].id \in Ids
    <3>1. ASSUME NEW x \in DOMAIN queue, x \in 1..Len(devLaunch), NEW a \in 1..n PROVE x # Len(devLaunch) + a
      BY <1>1, <3>1
    <3>2. QED
      BY <1>6, <3>1
  <2>5. \A x \in DOMAIN queue : x \notin 1..Len(devLaunch) => ~(queue[x].id < nextId)
    <3>1. ASSUME NEW a \in 1..n PROVE ~(nextId + a - 1 < nextId)
      BY <1>1
    <3>2. QED
      BY <1>6, <3>1
  <2>6. QED
    BY <1>7, <2>2, <2>3, <2>4, <2>5
<1>8. \A i \in DOMAIN queue : Queued(queue[i])
  BY <1>6
<1>9. QED
  BY <1>5, <1>7, <1>8 DEF QueuedAll

\* The kernels F finish in one cycle; with children it is at most one.
LEMMA FinishFacts ==
    ASSUME IndInv, NEW F \in SUBSET running, Cardinality(F) <= 1 \/ prog.together,
           NEW order \in SetToSeqs(F), finished' = finished \o order, applied' = applied \cup F,
           running' = running \ F, UNCHANGED <<prog, gridStream, functional>>,
           functional = None, simPc = "cycle", simPc' = "tail"
    PROVE  GpuSound' /\ finished' \in Seq(Ids) /\ running' \subseteq Ids /\ applied' \subseteq Ids
<1>1. /\ running \subseteq Ids /\ running \subseteq DOMAIN gridStream \ applied /\ finished \in Seq(Ids)
      /\ applied \subseteq Ids /\ F \subseteq Ids
  BY DEF IndInv, TypeOK, GpuSound
<1>2. PICK m : m = Cardinality(F)
  OBVIOUS
<1>3. m \in Nat /\ (m = 0 <=> F = {})
  <2>1. MaxOps \in Int /\ 1 \in Int
    BY BoundAssumption
  <2>2. IsFiniteSet(Ids)
    BY ONLY <2>1, FS_Interval DEF Ids
  <2>3. IsFiniteSet(F)
    BY ONLY <1>1, <2>2, FS_Subset
  <2>4. QED
    BY ONLY <1>2, <2>3, FS_CardinalityType, FS_EmptySet
<1>4. order \in [1..m -> F] /\ \A i, j \in 1..m : i # j => order[i] # order[j]
  BY <1>2 DEF SetToSeqs
<1>5. order \in [1..m -> Ids]
  BY <1>1, <1>4
<1>6. order \in Seq(Ids) /\ Len(order) = m
  BY ONLY <1>3, <1>5, FunSeq
<1>7. PICK f : f = finished'
  OBVIOUS
<1>8. /\ f \in Seq(Ids) /\ Len(f) = Len(finished) + Len(order) /\ DOMAIN f = 1..(Len(finished) + Len(order))
      /\ \A i \in 1..Len(finished) : f[i] = finished[i]
      /\ \A j \in 1..Len(order) : f[Len(finished) + j] = order[j]
  <2>1. finished \in Seq(Ids) /\ order \in Seq(Ids) /\ f = finished \o order
    BY <1>1, <1>6, <1>7
  <2>2. QED
    BY ONLY <2>1, ConcatFacts
<1>9. Len(finished) \in Nat /\ DOMAIN finished = 1..Len(finished)
  BY <1>1
<1>10. ASSUME NEW i \in DOMAIN f
       PROVE  \/ i \in DOMAIN finished /\ f[i] = finished[i]
              \/ \E j \in 1..m : i = Len(finished) + j /\ f[i] = order[j]
  <2>1. CASE i \in 1..Len(finished)
    BY <1>8, <1>9, <2>1
  <2>2. CASE i \notin 1..Len(finished)
    <3>1. i - Len(finished) \in 1..m /\ i = Len(finished) + (i - Len(finished))
      BY <1>3, <1>6, <1>8, <1>9, <2>2
    <3>2. QED
      BY <1>6, <1>8, <3>1
  <2>3. QED
    BY <2>1, <2>2
<1>11. \A i \in DOMAIN finished : finished[i] \in DOMAIN gridStream /\ finished[i] \in applied
  BY DEF IndInv, GpuSound
<1>12. \A j \in 1..m : order[j] \in DOMAIN gridStream /\ order[j] \in F /\ order[j] \notin applied
  BY <1>1, <1>4
<1>13. \A i \in DOMAIN f : f[i] \in DOMAIN gridStream \cap applied'
  BY <1>10, <1>11, <1>12
<1>14. ASSUME NEW i \in DOMAIN f, NEW j \in DOMAIN f, f[i] = f[j] PROVE i = j
  <2>1. CASE i \in DOMAIN finished /\ f[i] = finished[i] /\ j \in DOMAIN finished /\ f[j] = finished[j]
    BY <1>14, <2>1 DEF IndInv, GpuSound
  <2>2. CASE i \in DOMAIN finished /\ f[i] = finished[i]
             /\ \E b \in 1..m : j = Len(finished) + b /\ f[j] = order[b]
    BY <1>11, <1>12, <1>14, <2>2
  <2>3. CASE j \in DOMAIN finished /\ f[j] = finished[j]
             /\ \E a \in 1..m : i = Len(finished) + a /\ f[i] = order[a]
    BY <1>11, <1>12, <1>14, <2>3
  <2>4. CASE /\ \E a \in 1..m : i = Len(finished) + a /\ f[i] = order[a]
             /\ \E b \in 1..m : j = Len(finished) + b /\ f[j] = order[b]
    BY <1>4, <1>14, <2>4
  <2>5. QED
    BY <1>10, <2>1, <2>2, <2>3, <2>4
<1>15. prog.functional => f = <<>>
  <2>1. ASSUME prog.functional PROVE f = <<>>
    <3>1. running = {} /\ finished = <<>>
      BY <2>1 DEF IndInv, GpuSound
    <3>2. m = 0 /\ Len(finished) = 0
      BY <1>3, <3>1
    <3>3. Len(f) = 0
      BY <1>6, <1>8, <3>2
    <3>4. QED
      BY <1>8, <3>3
  <2>2. QED
    BY <2>1
<1>16. prog.children => Len(f) <= 1
  <2>1. ASSUME prog.children PROVE Len(f) <= 1
    <3>1. finished = <<>> /\ ~prog.together
      BY <2>1 DEF IndInv, GpuSound, Orderly
    <3>2. m <= 1 /\ Len(finished) = 0
      BY <1>2, <3>1
    <3>3. QED
      BY <1>3, <1>6, <1>8, <3>2
  <2>2. QED
    BY <2>1
<1>17. running' \subseteq DOMAIN gridStream \ applied'
  BY <1>1
<1>18. prog.functional => running' = {}
  BY DEF IndInv, GpuSound
<1>19. finished' = f
  BY <1>7
<1>20. GpuSound'
  BY <1>13, <1>14, <1>15, <1>16, <1>17, <1>18, <1>19 DEF GpuSound
<1>21. QED
  BY <1>1, <1>8, <1>19, <1>20

\* launch_one_device_kernel pushes the first child of the list, if there is one.
LEMMA LaunchOneInd ==
    ASSUME IndInv, NEW n \in Nat, Growth(n), applied \subseteq applied',
           applied' \subseteq applied \cup DOMAIN gridStream,
           UNCHANGED <<prog, hostVars, gridStream, pending, m_last_stream>>,
           NEW queue \in Seq(Waiting), \A i \in DOMAIN queue : Queued(queue[i]),
           \A i, j \in DOMAIN queue : queue[i].id = queue[j].id => i = j,
           ops' = IF queue = <<>> THEN ops
                  ELSE [ops EXCEPT ![Head(queue).s] = Append(@, ChildOp(Head(queue).id))],
           devLaunch' = IF queue = <<>> THEN queue ELSE Tail(queue)
    PROVE  /\ QueuesSound' /\ GridFront' /\ CallsWait' /\ LaunchesWait' /\ OwnersSound'
           /\ StreamsSound' /\ MineAccounted' /\ ZeroHeld'
           /\ ops' \in Queues /\ devLaunch' \in Seq(Waiting)
<1> SameGrid
  BY DEF SameGrid
<1>1. ops \in Queues /\ UniqueIds(ops)
  BY DEF IndInv, TypeOK, Queues, QueuesSound
<1>2. CASE queue = <<>>
  <2>1. ops' = ops /\ devLaunch' = <<>>
    BY <1>2
  <2>2. PICK N : N = {}
    OBVIOUS
  <2>3. /\ QueuesSound' /\ GridFront' /\ CallsWait' /\ OwnersSound'
        /\ StreamsSound' /\ MineAccounted' /\ ZeroHeld'
    <3>1. /\ \A t \in AllStreams : \A i \in DOMAIN ops[t] : i \in DOMAIN ops'[t] /\ ops'[t][i] = ops[t][i]
          /\ \A t \in AllStreams : \A i \in DOMAIN ops'[t] : i \in DOMAIN ops[t] /\ ops'[t][i] = ops[t][i]
          /\ ops' \in Queues /\ UniqueIds(ops')
          /\ \A x : InOps(ops', x) <=> InOps(ops, x)
      BY <1>1, <2>1
    <3>2. N \in SUBSET Ids /\ \A x : x \notin N
      BY <2>2
    <3>3. /\ \A x : InOps(ops', x) <=> InOps(ops, x) \/ x \in N
          /\ \A x \in N : parent'[x] # None /\ x < nextId' /\ x \notin applied'
      BY <3>1, <3>2
    <3>4. \A t \in AllStreams : \A i \in DOMAIN ops'[t] :
             \/ i \in DOMAIN ops[t] /\ ops'[t][i] = ops[t][i]
             \/ t \in DevStreams /\ t \in ToSet(m_streams') /\ ops'[t][i].id \in N
      BY <3>1
    <3>5. QED
      BY <3>1, <3>2, <3>3, <3>4, GrowInd
  <2>4. LaunchesWait' /\ devLaunch' \in Seq(Waiting)
    BY <2>1 DEF LaunchesWait
  <2>5. QED
    BY <1>1, <2>1, <2>3, <2>4
<1>3. CASE queue # <<>>
  <2>1. PICK e : e = queue[1]
    OBVIOUS
  <2>2. 1 \in DOMAIN queue /\ e \in Waiting /\ e = Head(queue) /\ Queued(e)
    BY <1>3, <2>1
  <2>3. e.id \in Ids /\ e.s \in DevStreams /\ e.s \in AllStreams
    BY <2>2 DEF Waiting, AllStreams
  <2>4. PICK o : o = ChildOp(e.id)
    OBVIOUS
  <2>5. o \in Operations /\ o.id = e.id
    BY <2>3, <2>4 DEF ChildOp, Operations
  <2>6. ops' = Pushed(ops, e.s, o)
    BY <1>3, <2>2, <2>4 DEF Pushed
  <2>7. ~InOps(ops, o.id)
    BY <2>2, <2>5 DEF Queued
  <2>8. PICK r : r = ops'
    OBVIOUS
  <2>9. /\ r \in Queues
        /\ \A t \in AllStreams : \A i \in DOMAIN ops[t] : i \in DOMAIN r[t] /\ r[t][i] = ops[t][i]
        /\ \A t \in AllStreams : \A i \in DOMAIN r[t] :
              \/ i \in DOMAIN ops[t] /\ r[t][i] = ops[t][i]
              \/ t = e.s /\ r[t][i] = o
        /\ \A x : InOps(r, x) <=> InOps(ops, x) \/ x = o.id
        /\ UniqueIds(r)
    <3>1. PICK s : s = e.s
      OBVIOUS
    <3>2. s \in AllStreams /\ r = Pushed(ops, s, o)
      BY <2>3, <2>6, <2>8, <3>1
    <3>3. /\ r \in Queues
          /\ \A t \in AllStreams : \A i \in DOMAIN ops[t] : i \in DOMAIN r[t] /\ r[t][i] = ops[t][i]
          /\ \A t \in AllStreams : \A i \in DOMAIN r[t] :
                \/ i \in DOMAIN ops[t] /\ r[t][i] = ops[t][i]
                \/ t = s /\ r[t][i] = o
          /\ \A x : InOps(r, x) <=> InOps(ops, x) \/ x = o.id
          /\ UniqueIds(r)
      BY ONLY <1>1, <2>5, <2>7, <3>2, PushFacts
    <3>4. QED
      BY <3>1, <3>3
  <2>10. PICK N : N = {e.id}
    OBVIOUS
  <2>11. /\ QueuesSound' /\ GridFront' /\ CallsWait' /\ OwnersSound'
         /\ StreamsSound' /\ MineAccounted' /\ ZeroHeld'
    <3>1. /\ \A t \in AllStreams : \A i \in DOMAIN ops[t] : i \in DOMAIN ops'[t] /\ ops'[t][i] = ops[t][i]
          /\ ops' \in Queues /\ UniqueIds(ops')
      BY <2>8, <2>9
    <3>2. ASSUME NEW t \in AllStreams, NEW i \in DOMAIN ops'[t]
          PROVE  \/ i \in DOMAIN ops[t] /\ ops'[t][i] = ops[t][i]
                 \/ t \in DevStreams /\ t \in ToSet(m_streams') /\ ops'[t][i].id \in N
      <4>1. e.s \in ToSet(m_streams')
        BY <2>2 DEF Queued
      <4>2. QED
        BY <2>3, <2>5, <2>8, <2>9, <2>10, <4>1
    <3>3. \A x : InOps(ops', x) <=> InOps(ops, x) \/ x \in N
      BY <2>5, <2>8, <2>9, <2>10
    <3>4. N \in SUBSET Ids /\ \A x \in N : parent'[x] # None /\ x < nextId' /\ x \notin applied'
      BY <2>2, <2>3, <2>10 DEF Queued
    <3>5. QED
      BY <3>1, <3>2, <3>3, <3>4, GrowInd
  <2>12. PICK q : q = devLaunch'
    OBVIOUS
  <2>13. /\ q \in Seq(Waiting)
         /\ \A i \in DOMAIN q : i + 1 \in DOMAIN queue /\ q[i] = queue[i + 1] /\ i \in Nat /\ i + 1 # 1
    <3>1. q = Tail(queue)
      BY <1>3, <2>12
    <3>2. QED
      BY ONLY <1>3, <3>1, queue \in Seq(Waiting)
  <2>14. ASSUME NEW i \in DOMAIN q, NEW c, c = q[i].id
         PROVE  /\ NotYet(c)' /\ parent'[c] # None /\ c \in children'[parent'[c]]
                /\ q[i].s = ctaStream'[parent'[c]]
    <3>1. Queued(q[i])
      BY <2>13
    <3>2. c # e.id
      BY <2>1, <2>2, <2>13, <2>14
    <3>3. ~InOps(ops', c)
      BY <2>5, <2>8, <2>9, <2>14, <3>1, <3>2 DEF Queued
    <3>4. ~InOps(ops, c)'
      BY <3>3 DEF InOps
    <3>5. QED
      BY <2>14, <3>1, <3>4 DEF Queued, NotYet
  <2>15. ASSUME NEW i \in DOMAIN q, NEW j \in DOMAIN q, q[i].id = q[j].id PROVE i = j
    <3>1. i + 1 = j + 1 /\ i \in Nat /\ j \in Nat
      BY <2>13, <2>15
    <3>2. QED
      BY <3>1
  <2>16. LaunchesWait'
    <3>1. devLaunch' = q
      BY <2>12
    <3>2. \A i \in DOMAIN q : NotYet(q[i].id)' /\ parent'[q[i].id] # None
                              /\ q[i].id \in children'[parent'[q[i].id]]
                              /\ q[i].s = ctaStream'[parent'[q[i].id]]
      BY <2>14 DEF NotYet
    <3>3. QED
      BY <2>15, <3>1, <3>2 DEF LaunchesWait, NotYet
  <2>17. QED
    BY <2>8, <2>9, <2>11, <2>12, <2>13, <2>16
<1>4. QED
  BY <1>2, <1>3

\* One GPU cycle.
LEMMA SimCycleInd ==
    ASSUME IndInv, NEW F \in SUBSET running, NEW k, NEW n \in Nat,
           (k = None /\ n = 0) \/ (k \in running /\ n > 0), SimCycle(F, k, n)
    PROVE  IndInv'
<1>1. /\ simPc = "cycle" /\ functional = None /\ simPc' = "tail"
      /\ Cardinality(F) <= 1 \/ prog.together
      /\ running' = running \ F /\ applied' = applied \cup F
      /\ children' = IF n = 0 THEN children ELSE Adopted(k, n)
      /\ UNCHANGED <<prog, hostVars, g_sim_done, pending, m_last_stream, mlock, gridStream, latency,
                     functional, updates, check, toReap, g_sim_active>>
  BY DEF SimCycle, simHostUnchanged
<1>2. PICK order \in SetToSeqs(F) : finished' = finished \o order
  BY DEF SimCycle
<1>3. PICK d \in ChildStreams(k, n) :
          LET queue == devLaunch \o [i \in 1..n |-> [id |-> nextId + i - 1, s |-> d]]
          IN  /\ CreateChildren(k, n, d)
              /\ ops' = IF queue = <<>> THEN ops
                        ELSE [ops EXCEPT ![Head(queue).s] = Append(@, ChildOp(Head(queue).id))]
              /\ devLaunch' = IF queue = <<>> THEN queue ELSE Tail(queue)
  BY DEF SimCycle
<1>5. PICK queue : queue = devLaunch \o Entries(n, d)
  OBVIOUS
<1>6. /\ CreateChildren(k, n, d)
      /\ ops' = IF queue = <<>> THEN ops
                ELSE [ops EXCEPT ![Head(queue).s] = Append(@, ChildOp(Head(queue).id))]
      /\ devLaunch' = IF queue = <<>> THEN queue ELSE Tail(queue)
  BY <1>3, <1>5 DEF Entries
<1>7. running \subseteq Ids /\ running \subseteq DOMAIN gridStream \ applied
  BY DEF IndInv, TypeOK, GpuSound
<1>8. applied \subseteq applied' /\ applied' \subseteq applied \cup DOMAIN gridStream
  BY <1>1, <1>7
<1>9. Growth(n) /\ Adoption(k, n, d)
  <2>1. CASE n = 0
    <3>1. d = None /\ k = None
      BY <2>1 DEF ChildStreams
    <3>2. CreateChildren(None, 0, None) /\ children' = children
      BY <1>1, <1>6, <2>1, <3>1
    <3>3. Growth(0)
      BY <1>1, <1>8, <3>2, NoChildren
    <3>4. NewChildren(0) = {}
      BY DEF NewChildren, IndInv, TypeOK
    <3>5. QED
      BY <2>1, <3>3, <3>4 DEF Adoption
  <2>2. CASE n > 0
    <3>1. k \in DOMAIN gridStream /\ k \notin applied /\ children' = Adopted(k, n) /\ k \in Ids
      BY <1>1, <1>7, <2>2
    <3>2. toReap' \subseteq toReap /\ SameGrid /\ prog' = prog
      BY <1>1 DEF SameGrid
    <3>3. QED
      BY <1>6, <1>8, <2>2, <3>1, <3>2, Children DEF Adoption
  <2>3. QED
    BY <2>1, <2>2
<1>10. /\ queue \in Seq(Waiting)
       /\ \A i \in DOMAIN queue : Queued(queue[i])
       /\ \A i, j \in DOMAIN queue : queue[i].id = queue[j].id => i = j
  <2>1. applied' \subseteq applied \cup DOMAIN gridStream
    BY <1>8
  <2>2. QueuedAll(queue)
    BY <1>5, <1>9, <2>1, QueueFacts, Zenon
  <2>3. QED
    BY <2>2 DEF QueuedAll
<1>11. /\ QueuesSound' /\ GridFront' /\ CallsWait' /\ LaunchesWait' /\ OwnersSound'
       /\ StreamsSound' /\ MineAccounted' /\ ZeroHeld'
       /\ ops' \in Queues /\ devLaunch' \in Seq(Waiting)
  BY <1>1, <1>6, <1>8, <1>9, <1>10, LaunchOneInd
<1>12. GpuSound' /\ finished' \in Seq(Ids) /\ running' \subseteq Ids /\ applied' \subseteq Ids
  BY <1>1, <1>2, FinishFacts
<1>13. KidsSound' /\ CtaStreamsSound'
  BY <1>9 DEF Growth
<1>14. TypeOK'
  <2>1. /\ m_streams' \in Seq(created') /\ created' \subseteq Streams \cup DevStreams
        /\ ctaStream' \in [Ids -> DevStreams \cup {None}]
        /\ parent' \in [Ids -> Ids \cup {None}] /\ children' \in [Ids -> SUBSET Ids]
        /\ nextId' \in 1..MaxOps + 1
    BY <1>9 DEF Growth
  <2>2. UNCHANGED <<call, recorded, mine>>
    BY <1>1 DEF hostVars
  <2>3. QED
    BY <1>1, <1>11, <1>12, <2>1, <2>2 DEF IndInv, TypeOK, Queues, Waiting
<1>15. Orderly(prog)'
  BY <1>1 DEF IndInv, Orderly
<1>16. QED
  BY <1>11, <1>12, <1>13, <1>14, <1>15 DEF IndInv

-----------------------------------------------------------------------------
(* Functional simulation of a kernel. *)

\* Nothing joins the queues.
LEMMA JoinedNone ==
    ASSUME NEW q \in Queues, NEW d, NEW m
    PROVE  Joined(q, d, 0, m) = q
<1>1. ASSUME NEW a \in Seq(Operations), NEW z, z = [i \in 1..0 |-> ChildOp(m + i - 1)] PROVE a \o z = a
  <2>1. z \in [1..0 -> Operations]
    BY <1>1
  <2>2. z \in Seq(Operations) /\ Len(z) = 0
    BY ONLY <2>1, FunSeq
  <2>3. QED
    BY ONLY <2>2, a \in Seq(Operations)
<1>2. ASSUME NEW s \in AllStreams
      PROVE  q[s] \o [i \in 1..(IF s = d THEN 0 ELSE 0) |-> ChildOp(m + i - 1)] = q[s]
  <2>1. q[s] \in Seq(Operations)
    BY DEF Queues
  <2>2. (IF s = d THEN 0 ELSE 0) = 0
    OBVIOUS
  <2>3. q[s] \o [i \in 1..0 |-> ChildOp(m + i - 1)] = q[s]
    BY <1>1, <2>1
  <2>4. QED
    BY <2>2, <2>3
<1>3. Joined(q, d, 0, m) = [s \in AllStreams |-> q[s]]
  BY <1>2, Zenon DEF Joined
<1>4. QED
  BY <1>3 DEF Queues

\* Nothing is retired.
LEMMA RetireNone ==
    ASSUME NEW q \in Queues, NEW kids \in [Ids -> SUBSET Ids], pending \in [AllStreams -> BOOLEAN],
           Retire({}, q, kids)
    PROVE  ops' = q /\ pending' = pending /\ SameGrid /\ children' = kids /\ toReap' = {}
<1>1. {gridStream[k] : k \in {}} = {} /\ {ctaStream[k] : k \in {}} = {}
  OBVIOUS
<1>2. /\ ops' = [s \in AllStreams |-> q[s]]
      /\ pending' = [s \in AllStreams |-> pending[s] /\ s \notin {}]
      /\ gridStream' = [k \in DOMAIN gridStream \ {} |-> gridStream[k]]
      /\ children' = [k \in Ids |-> kids[k] \ {}]
      /\ toReap' = {} \ {None}
  BY <1>1 DEF Retire
<1>3. ops' = q
  BY <1>2 DEF Queues
<1>4. pending' = pending
  <2>1. \A s \in AllStreams : (pending[s] /\ s \notin {}) = pending[s]
    BY Zenon
  <2>2. pending' = [s \in AllStreams |-> pending[s]]
    BY <1>2, <2>1, Zenon
  <2>3. QED
    BY <2>2
<1>5. SameGrid
  <2>1. DOMAIN gridStream \ {} = DOMAIN gridStream
    OBVIOUS
  <2>2. QED
    BY <1>2, <2>1 DEF SameGrid
<1>6. children' = kids
  BY <1>2
<1>7. QED
  BY <1>2, <1>3, <1>4, <1>5, <1>6

\* What functional simulation leaves alone.
FunctionalFrame ==
    /\ simPc = "cycle" /\ functional # None /\ applied' = applied \cup {functional}
    /\ simPc' = IF toReap' = {} THEN "tail" ELSE "reap"
    /\ functional' = IF toReap' = {} THEN None ELSE functional
    /\ UNCHANGED <<prog, hostVars, g_sim_done, m_last_stream, mlock, latency, running, finished,
                   devLaunch, updates, check, g_sim_active>>

\* The kernel under functional simulation is launched, and the GPU has no other.
LEMMA FunctionalFacts ==
    ASSUME IndInv, FunctionalFrame, NEW f, f = functional
    PROVE  /\ f \in DOMAIN gridStream /\ f \notin applied /\ f \in Ids /\ prog.functional
           /\ running = {} /\ finished = <<>>
           /\ applied \subseteq applied' /\ applied' \subseteq applied \cup DOMAIN gridStream
           /\ applied' \subseteq Ids
           /\ GpuSound'
<1>1. prog.functional /\ f \in DOMAIN gridStream \ applied
  BY DEF IndInv, GpuSound, FunctionalFrame
<1>2. running = {} /\ finished = <<>>
  BY <1>1 DEF IndInv, GpuSound
<1>3. f \in Ids
  BY <1>1 DEF IndInv, TypeOK
<1>4. /\ applied \subseteq applied' /\ applied' \subseteq applied \cup DOMAIN gridStream
      /\ applied' \subseteq Ids
  BY <1>1, <1>3 DEF FunctionalFrame, IndInv, TypeOK
<1>5. GpuSound'
  <2>1. running' = {} /\ finished' = <<>> /\ prog' = prog
    BY <1>2 DEF FunctionalFrame
  <2>2. functional' # None => simPc' = "reap"
    BY DEF FunctionalFrame
  <2>3. Len(finished') <= 1
    BY <2>1
  <2>4. QED
    BY <1>1, <2>1, <2>2, <2>3 DEF GpuSound
<1>6. QED
  BY <1>1, <1>2, <1>3, <1>4, <1>5

\* A kernel without children is retired, and its parent with its last child.
LEMMA FunctionalEnds ==
    ASSUME IndInv, FunctionalFrame, NEW f, f = functional, CreateChildren(f, 0, None),
           Retire(Retires(f, children, applied \cup {f}), ops, children)
    PROVE  IndInv'
<1>1. /\ f \in DOMAIN gridStream /\ f \notin applied /\ f \in Ids
      /\ applied \subseteq applied' /\ applied' \subseteq applied \cup DOMAIN gridStream
      /\ applied' \subseteq Ids /\ GpuSound'
  BY FunctionalFacts
<1>2. UNCHANGED <<created, m_streams, ctaStream, nextId, parent>>
  BY CreatesNothing
<1>3. PICK R : R = Retires(f, children, applied')
  OBVIOUS
<1>4. applied' = applied \cup {f}
  BY DEF FunctionalFrame
<1>5. Retire(R, ops, children)
  BY <1>3, <1>4
<1>6. R \in SUBSET DOMAIN gridStream /\ R \subseteq applied' /\ \A x \in R : children[x] \subseteq R
  <2>1. PICK done : done = applied'
    OBVIOUS
  <2>2. done \in SUBSET Ids /\ R = Retires(f, children, done)
    BY <1>1, <1>3, <2>1
  <2>3. R \in SUBSET DOMAIN gridStream /\ R \subseteq done /\ \A x \in R : children[x] \subseteq R
    BY <1>1, <2>2, RetiresFacts
  <2>4. QED
    BY <2>1, <2>3
<1>7. UNCHANGED <<prog, hostVars, m_streams, m_last_stream, created, ctaStream, devLaunch, parent, nextId>>
  BY <1>2 DEF FunctionalFrame
<1>8. /\ QueuesSound' /\ GridFront' /\ CallsWait' /\ LaunchesWait' /\ OwnersSound'
      /\ KidsSound' /\ CtaStreamsSound' /\ StreamsSound' /\ MineAccounted' /\ ZeroHeld'
      /\ ops' \in [AllStreams -> Seq(Operations)] /\ pending' \in [AllStreams -> BOOLEAN]
      /\ DOMAIN gridStream' = DOMAIN gridStream \ R
      /\ \A k \in DOMAIN gridStream' : gridStream'[k] = gridStream[k]
      /\ children' \in [Ids -> SUBSET Ids] /\ toReap' \subseteq DevStreams /\ applied' \subseteq Ids
  BY <1>1, <1>5, <1>6, <1>7, RetireInd
<1>9. TypeOK'
  <2>1. simPc' \in {"tail", "reap"} /\ functional' \in Ids \cup {None}
    BY <1>1 DEF FunctionalFrame
  <2>2. \A k \in DOMAIN gridStream' : k \in Ids /\ gridStream'[k] \in AllStreams
    BY <1>8 DEF IndInv, TypeOK
  <2>3. UNCHANGED <<call, recorded, mine>>
    BY DEF FunctionalFrame, hostVars
  <2>4. QED
    BY <1>2, <1>8, <2>1, <2>2, <2>3 DEF FunctionalFrame, IndInv, TypeOK
<1>10. Orderly(prog)'
  BY <1>7 DEF IndInv, Orderly
<1>11. QED
  BY <1>1, <1>8, <1>9, <1>10 DEF IndInv

\* A kernel with n children stays until they are done; the children join stream d.
LEMMA FunctionalLaunches ==
    ASSUME IndInv, FunctionalFrame, NEW f, f = functional, NEW n \in Nat, n > 0,
           NEW d \in ChildStreams(f, n), CreateChildren(f, n, d),
           Retire({}, Joined(ops, d, n, nextId), Adopted(f, n))
    PROVE  IndInv'
<1>1. /\ f \in DOMAIN gridStream /\ f \notin applied /\ f \in Ids
      /\ applied \subseteq applied' /\ applied' \subseteq applied \cup DOMAIN gridStream
      /\ applied' \subseteq Ids /\ GpuSound'
  BY FunctionalFacts
<1>2. ops \in Queues /\ UniqueIds(ops) /\ nextId \in Nat /\ nextId > 0 /\ pending \in [AllStreams -> BOOLEAN]
  BY DEF IndInv, TypeOK, Queues, QueuesSound
<1>3. nextId + n - 1 <= MaxOps /\ d \in DevStreams /\ d \in AllStreams /\ f # None
  <2>1. prog.ops \in 0..MaxOps /\ MaxOps \in Nat
    BY ProgramsAssumption, BoundAssumption DEF IndInv, TypeOK
  <2>2. n # 0
    OBVIOUS
  <2>3. /\ ~(nextId + n > prog.ops + 1)
        /\ d \in IF ctaStream[f] # None THEN {ctaStream[f]} ELSE DevStreams \ created
    <3>1. PICK stop \in BOOLEAN : stop <=> \/ ~prog.children \/ prog.launchBlocking
                                          \/ parent[f] # None \/ nextId + n > prog.ops + 1
      OBVIOUS
    <3>2. ~stop /\ d \in IF ctaStream[f] # None THEN {ctaStream[f]} ELSE DevStreams \ created
      BY <2>2, <3>1 DEF ChildStreams
    <3>3. QED
      BY <3>1, <3>2
  <2>4. nextId + n - 1 <= MaxOps
    BY <1>2, <2>1, <2>3
  <2>5. d \in DevStreams
    BY <1>1, <2>3 DEF IndInv, TypeOK
  <2>6. QED
    BY <1>1, <2>4, <2>5, NamesAssumption DEF AllStreams
<1>4. PICK N : N = NewChildren(n)
  OBVIOUS
<1>5. N \in SUBSET Ids /\ N = nextId..(nextId + n - 1)
  <2>1. N = nextId..(nextId + n - 1)
    BY <1>4 DEF NewChildren
  <2>2. MaxOps \in Nat
    BY BoundAssumption
  <2>3. \A x \in nextId..(nextId + n - 1) : x \in 1..MaxOps
    BY <1>2, <1>3, <2>2
  <2>4. QED
    BY <2>1, <2>3 DEF Ids
<1>6. Adopted(f, n) \in [Ids -> SUBSET Ids]
  BY <1>1, <1>4, <1>5 DEF Adopted, IndInv, TypeOK
<1>7. PICK r : r = Joined(ops, d, n, nextId)
  OBVIOUS
<1>8. Grown(ops, r, d, n, nextId) /\ r \in Queues
  <2>1. ops \in Queues /\ nextId \in Nat /\ nextId > 0 /\ nextId + n - 1 <= MaxOps /\ d \in AllStreams
    BY <1>2, <1>3
  <2>2. Grown(ops, r, d, n, nextId)
    <3>1. Extended(ops, r, d, n, nextId)
      BY <1>7, <2>1, ChildrenFacts, Zenon
    <3>2. QED
      BY <2>1, <3>1, GrowFacts, Zenon
  <2>3. QED
    BY <2>2 DEF Grown
<1>9. ops' = r /\ pending' = pending /\ SameGrid /\ children' = Adopted(f, n) /\ toReap' = {}
  BY <1>2, <1>6, <1>7, <1>8, RetireNone
<1>10. /\ Growth(n) /\ prog.children
       /\ d \in ToSet(m_streams')
       /\ \A c \in NewChildren(n) : /\ c \in Ids /\ parent'[c] = f
  <2>1. prog' = prog /\ toReap' \subseteq toReap
    BY <1>9 DEF FunctionalFrame
  <2>2. QED
    BY <1>1, <1>9, <2>1, Children
<1>13. \A x : InOps(ops, x) => x < nextId
  <2>1. ASSUME NEW x, InOps(ops, x) PROVE x \in Ids
    <3>1. PICK s \in AllStreams : \E i \in DOMAIN ops[s] : ops[s][i].id = x
      BY <2>1 DEF InOps
    <3>2. PICK i \in DOMAIN ops[s] : ops[s][i].id = x
      BY <3>1
    <3>3. ops[s] \in Seq(Operations)
      BY <1>2 DEF Queues
    <3>4. ops[s][i] \in Operations
      BY <3>3, ElementOf
    <3>5. QED
      BY <3>2, <3>4 DEF Operations
  <2>2. QED
    BY <2>1 DEF IndInv, QueuesSound
<1>14. /\ \A t \in AllStreams : \A i \in DOMAIN ops[t] : i \in DOMAIN r[t] /\ r[t][i] = ops[t][i]
       /\ \A t \in AllStreams : \A i \in DOMAIN r[t] :
             \/ i \in DOMAIN ops[t] /\ r[t][i] = ops[t][i]
             \/ t = d /\ r[t][i].id \in N
       /\ \A x : InOps(r, x) <=> InOps(ops, x) \/ x \in N
       /\ UniqueIds(r)
  BY <1>2, <1>5, <1>8, <1>13 DEF Grown
<1>15. \A x \in N : ~(x < nextId) /\ x < nextId' /\ x \notin applied' /\ parent'[x] # None /\ ~InOps(ops, x)
  <2>1. nextId' = nextId + n
    BY <1>10 DEF Growth
  <2>2. \A x \in N : ~(x < nextId) /\ x < nextId'
    BY <1>2, <1>5, <2>1
  <2>3. \A x \in applied' : x < nextId
    BY <1>1, GridInOps DEF IndInv, QueuesSound
  <2>4. QED
    BY <1>3, <1>4, <1>10, <1>13, <2>2, <2>3
<1>16. /\ QueuesSound' /\ GridFront' /\ CallsWait' /\ OwnersSound'
       /\ StreamsSound' /\ MineAccounted' /\ ZeroHeld'
  <2>1. /\ \A t \in AllStreams : \A i \in DOMAIN ops[t] : i \in DOMAIN ops'[t] /\ ops'[t][i] = ops[t][i]
        /\ ops' \in Queues /\ UniqueIds(ops')
    BY <1>8, <1>9, <1>14
  <2>2. ASSUME NEW t \in AllStreams, NEW i \in DOMAIN ops'[t]
        PROVE  \/ i \in DOMAIN ops[t] /\ ops'[t][i] = ops[t][i]
               \/ t \in DevStreams /\ t \in ToSet(m_streams') /\ ops'[t][i].id \in N
    <3>1. i \in DOMAIN r[t]
      BY <1>9
    <3>2. CASE i \in DOMAIN ops[t] /\ r[t][i] = ops[t][i]
      BY <1>9, <3>2
    <3>3. CASE t = d /\ r[t][i].id \in N
      BY <1>3, <1>9, <1>10, <3>3
    <3>4. QED
      BY <1>14, <3>1, <3>2, <3>3
  <2>3. \A x : InOps(ops', x) <=> InOps(ops, x) \/ x \in N
    BY <1>5, <1>9, <1>14
  <2>4. \A x \in N : parent'[x] # None /\ x < nextId' /\ x \notin applied'
    BY <1>15
  <2>5. SameGrid /\ UNCHANGED <<prog, hostVars, pending, m_last_stream>>
    BY <1>9 DEF FunctionalFrame
  <2>6. QED
    BY <1>1, <1>5, <1>10, <2>1, <2>2, <2>3, <2>4, <2>5, GrowInd
<1>17. LaunchesWait'
  <2>1. devLaunch' = devLaunch
    BY DEF FunctionalFrame
  <2>2. ASSUME NEW i \in DOMAIN devLaunch, NEW e, e = devLaunch[i]
        PROVE  /\ NotYet(e.id)' /\ parent'[e.id] # None /\ e.id \in children'[parent'[e.id]]
               /\ e.s = ctaStream'[parent'[e.id]]
    <3>1. Queued(e) /\ e.id < nextId
      BY <1>1, <1>10, <2>2, StillQueued
    <3>2. e.id \notin N
      BY <1>15, <3>1
    <3>3. ~InOps(ops', e.id)
      BY <1>5, <1>9, <1>14, <3>1, <3>2 DEF Queued
    <3>4. ~InOps(ops, e.id)'
      BY <3>3, <2>1, <2>2 DEF InOps
    <3>5. QED
      BY <3>1, <3>4 DEF Queued, NotYet
  <2>3. \A i \in DOMAIN devLaunch : /\ NotYet(devLaunch[i].id)' /\ parent'[devLaunch[i].id] # None
                                    /\ devLaunch[i].id \in children'[parent'[devLaunch[i].id]]
                                    /\ devLaunch[i].s = ctaStream'[parent'[devLaunch[i].id]]
    BY <2>1, <2>2 DEF NotYet, InOps
  <2>4. \A i, j \in DOMAIN devLaunch : devLaunch[i].id = devLaunch[j].id => i = j
    BY DEF IndInv, LaunchesWait
  <2>5. QED
    BY <2>1, <2>3, <2>4 DEF LaunchesWait
<1>18. TypeOK'
  <2>1. /\ m_streams' \in Seq(created') /\ created' \subseteq Streams \cup DevStreams
        /\ ctaStream' \in [Ids -> DevStreams \cup {None}]
        /\ parent' \in [Ids -> Ids \cup {None}] /\ children' \in [Ids -> SUBSET Ids]
        /\ nextId' \in 1..MaxOps + 1
    BY <1>10 DEF Growth
  <2>2. simPc' \in {"tail", "reap"} /\ functional' \in Ids \cup {None}
    BY <1>1 DEF FunctionalFrame
  <2>3. \A k \in DOMAIN gridStream' : k \in Ids /\ gridStream'[k] \in AllStreams
    BY <1>9 DEF SameGrid, IndInv, TypeOK
  <2>4. UNCHANGED <<call, recorded, mine>>
    BY DEF FunctionalFrame, hostVars
  <2>5. ops' \in [AllStreams -> Seq(Operations)] /\ pending' \in [AllStreams -> BOOLEAN]
    BY <1>2, <1>8, <1>9 DEF Queues
  <2>6. QED
    BY <1>1, <1>9, <2>1, <2>2, <2>3, <2>4, <2>5 DEF FunctionalFrame, IndInv, TypeOK
<1>19. KidsSound' /\ CtaStreamsSound'
  BY <1>10 DEF Growth
<1>20. Orderly(prog)'
  BY DEF FunctionalFrame, IndInv, Orderly
<1>21. QED
  BY <1>1, <1>16, <1>17, <1>18, <1>19, <1>20 DEF IndInv

\* Functional simulation of one kernel.
LEMMA SimFunctionalInd ==
    ASSUME IndInv, NEW n \in Nat, SimFunctional(n)
    PROVE  IndInv'
<1>1. PICK f : f = functional
  OBVIOUS
<1>2. FunctionalFrame
  BY DEF SimFunctional, FunctionalFrame, simHostUnchanged
<1>3. PICK d \in ChildStreams(f, n) :
          /\ CreateChildren(f, n, d)
          /\ Retire(Retires(f, Adopted(f, n), applied \cup {f}), Joined(ops, d, n, nextId), Adopted(f, n))
  BY <1>1 DEF SimFunctional, Joined
<1>4. f \in DOMAIN gridStream /\ f \notin applied /\ f \in Ids
  BY <1>1, <1>2, FunctionalFacts
<1>5. ops \in Queues /\ children \in [Ids -> SUBSET Ids] /\ nextId \in Nat
  BY DEF IndInv, TypeOK, Queues
<1>6. CASE n = 0
  <2>1. d = None
    BY <1>3, <1>6 DEF ChildStreams
  <2>2. Joined(ops, d, n, nextId) = ops
    BY <1>5, <1>6, JoinedNone
  <2>3. Adopted(f, n) = children
    <3>1. NewChildren(0) = {}
      BY <1>5 DEF NewChildren
    <3>2. QED
      BY <1>4, <1>5, <1>6, <3>1 DEF Adopted
  <2>4. /\ CreateChildren(f, 0, None)
        /\ Retire(Retires(f, children, applied \cup {f}), ops, children)
    BY <1>3, <1>6, <2>1, <2>2, <2>3
  <2>5. QED
    BY <1>1, <1>2, <2>4, FunctionalEnds
<1>7. CASE n > 0
  <2>1. Adopted(f, n)[f] # {}
    <3>1. nextId \in NewChildren(n)
      BY <1>5, <1>7 DEF NewChildren
    <3>2. QED
      BY <1>4, <1>5, <3>1 DEF Adopted
  <2>2. Retires(f, Adopted(f, n), applied \cup {f}) = {}
    BY <2>1 DEF Retires
  <2>3. Retire({}, Joined(ops, d, n, nextId), Adopted(f, n))
    BY <1>3, <2>2
  <2>4. QED
    BY <1>1, <1>2, <1>3, <1>7, <2>3, FunctionalLaunches
<1>8. QED
  BY <1>6, <1>7

-----------------------------------------------------------------------------
(* The invariant, and what follows from it. *)

\* Programs start in a state of the invariant.
LEMMA InitInd ==
    ASSUME Init, Orderly(prog)
    PROVE  IndInv
<1>1. TypeOK
  <2>1. /\ ops \in [AllStreams -> Seq(Operations)] /\ pending \in [AllStreams -> BOOLEAN]
        /\ m_streams \in Seq(created) /\ finished \in Seq(Ids) /\ devLaunch \in Seq([id : Ids, s : DevStreams])
        /\ recorded \in [Events -> Seq(Ids)] /\ updates \in [Events -> Nat]
    BY DEF Init
  <2>2. /\ latency \in [Ids -> 0..LaunchLatency] /\ children \in [Ids -> SUBSET Ids]
        /\ parent \in [Ids -> Ids \cup {None}] /\ ctaStream \in [Ids -> DevStreams \cup {None}]
        /\ mine \in [Hosts -> SUBSET Ids]
    BY BoundAssumption DEF Init
  <2>3. call \in [Hosts -> CallTypes]
    BY DEF Init, Idle, CallTypes
  <2>4. nextId \in 1..MaxOps + 1
    BY BoundAssumption DEF Init
  <2>5. DOMAIN gridStream = {} /\ toReap \subseteq DevStreams /\ created \subseteq Streams \cup DevStreams
    BY DEF Init
  <2>6. QED
    BY <2>1, <2>2, <2>3, <2>4, <2>5 DEF Init, TypeOK
<1>2. /\ \A s \in AllStreams : ops[s] = <<>> /\ DOMAIN ops[s] = {}
      /\ \A h \in Hosts : call[h].pc = "idle" /\ mine[h] = {}
      /\ \A k \in Ids : children[k] = {} /\ ctaStream[k] = None /\ parent[k] = None
      /\ \A e \in Events : recorded[e] = <<>>
      /\ DOMAIN gridStream = {} /\ DOMAIN devLaunch = {} /\ DOMAIN finished = {}
      /\ Len(finished) = 0 /\ finished = <<>> /\ running = {} /\ applied = {} /\ toReap = {}
      /\ functional = None /\ m_last_stream = None
  BY DEF Init, Idle
<1>3. \A x : ~InOps(ops, x)
  BY <1>2 DEF InOps
<1>4. QueuesSound /\ GridFront /\ CallsWait /\ LaunchesWait
  BY <1>2, <1>3 DEF QueuesSound, UniqueIds, GridFront, CallsWait, LaunchesWait
<1>5. OwnersSound /\ MineAccounted
  BY <1>2 DEF OwnersSound, Pushes, MineAccounted
<1>6. GpuSound
  BY <1>2 DEF GpuSound
<1>7. KidsSound /\ CtaStreamsSound
  BY <1>2 DEF KidsSound, CtaStreamsSound
<1>8. StreamsSound
  BY <1>2 DEF StreamsSound, Pushes
<1>9. ZeroHeld
  <2>1. Zero \in AllStreams
    BY DEF AllStreams
  <2>2. QED
    BY <1>2, <2>1 DEF ZeroHeld
<1>10. QED
  BY <1>1, <1>4, <1>5, <1>6, <1>7, <1>8, <1>9 DEF IndInv

\* Every step of the simulation thread keeps the invariant.
LEMMA SimRunsInd ==
    ASSUME IndInv, SimRuns
    PROVE  IndInv'
<1>1. ASSUME SimDetect \/ SimStart \/ SimTail \/ SimStop PROVE IndInv'
  <2>1. /\ UNCHANGED <<prog, hostVars, g_sim_done, streamVars, gridStream, gpuVars, updates, check,
                       toReap, nextId, applied>>
        /\ simPc # "reap"
    BY <1>1 DEF SimDetect, SimStart, SimTail, SimStop, simHostUnchanged
  <2>2. g_sim_active \in BOOLEAN
    BY DEF IndInv, TypeOK
  <2>3. g_sim_active' \in BOOLEAN /\ simPc' \in {"start", "check", "stop", "exited", "spin"}
    BY <1>1, <2>2 DEF SimDetect, SimStart, SimTail, SimStop
  <2>4. QED
    BY <2>1, <2>3, QuietInd
<1>2. CASE SimCheck
  BY <1>2, SimCheckInd
<1>3. CASE SimReap
  BY <1>3, SimReapInd
<1>4. CASE SimOperation
  BY <1>4, SimOperationInd
<1>5. ASSUME NEW F \in SUBSET running, SimCycle(F, None, 0) PROVE IndInv'
  <2>1. PICK k, n : k = None /\ n = 0
    OBVIOUS
  <2>2. n \in Nat /\ SimCycle(F, k, n)
    BY <1>5, <2>1
  <2>3. QED
    BY <2>1, <2>2, SimCycleInd
<1>6. ASSUME NEW F \in SUBSET running, NEW k \in running, NEW n \in 1..ChildBurst, SimCycle(F, k, n)
      PROVE  IndInv'
  <2>1. n \in Nat /\ n > 0
    BY BoundAssumption
  <2>2. QED
    BY <1>6, <2>1, SimCycleInd
<1>7. ASSUME NEW n \in 0..ChildBurst, SimFunctional(n) PROVE IndInv'
  <2>1. n \in Nat
    BY BoundAssumption
  <2>2. QED
    BY <1>7, <2>1, SimFunctionalInd
<1>8. QED
  BY <1>1, <1>2, <1>3, <1>4, <1>5, <1>6, <1>7 DEF SimRuns

\* Every step of a host thread keeps the invariant.
LEMMA HostInd ==
    ASSUME IndInv, NEW h \in Hosts, HostCalls(h) \/ HostReturns(h)
    PROVE  IndInv'
<1>1. CASE HostCalls(h)
  <2>1. ASSUME NEW s \in Streams, StreamCreate(h, s) PROVE IndInv'
    BY <2>1, StreamCreateInd
  <2>2. ASSUME NEW s \in Streams \cup {Zero}, NEW type \in prog.enqueues, Enqueue(h, s, type) PROVE IndInv'
    BY <2>2, EnqueueInd
  <2>3. ASSUME NEW e \in Events, NEW s \in Streams \cup {Zero}, EventRecord(h, e, s) PROVE IndInv'
    BY <2>3, EventRecordInd
  <2>4. ASSUME NEW e \in Events, NEW s \in Streams, StreamWaitEvent(h, e, s) PROVE IndInv'
    BY <2>4, StreamWaitEventInd
  <2>5. ASSUME NEW e \in Events, WaitEventOnAll(h, e) PROVE IndInv'
    BY <2>5, WaitEventOnAllInd
  <2>6. CASE StartWait(h)
    BY <2>6, StartWaitInd
  <2>7. QED
    BY <1>1, <2>1, <2>2, <2>3, <2>4, <2>5, <2>6 DEF HostCalls
<1>2. CASE HostReturns(h)
  BY <1>2, PushBlockInd, PushInd, PushDrainInd, WaitEventOnNextInd, EndWaitInd, DestroyLockInd,
     DestroyEraseInd DEF HostReturns
<1>3. QED
  BY <1>1, <1>2

\* Nothing happens.
LEMMA StutterInd ==
    ASSUME IndInv, UNCHANGED vars
    PROVE  IndInv'
<1>1. UNCHANGED <<prog, ops, pending, m_streams, m_last_stream, created, mlock, gridStream, latency,
                  running, finished, functional, children, ctaStream, devLaunch, parent, updates,
                  simPc, check, toReap, g_sim_active, g_sim_done, call, recorded, mine, nextId, applied>>
  BY DEF vars, streamVars, gpuVars, simVars, hostVars
<1>2. Later
  BY <1>1 DEF IndInv, TypeOK, Later
<1>3. TypeOK'
  BY <1>1 DEF IndInv, TypeOK
<1>4. QueuesSound' /\ GridFront'
  BY <1>1, <1>2, QueuesFrame, GridFrame DEF IndInv, TypeOK
<1>5. CallsWait' /\ OwnersSound' /\ MineAccounted' /\ ZeroHeld'
  BY <1>1, CallsFrame, OwnersFrame, MineFrame, ZeroFrame DEF IndInv
<1>6. LaunchesWait'
  BY <1>1, <1>2, LaunchesFrame DEF IndInv, TypeOK
<1>7. GpuSound' /\ KidsSound' /\ CtaStreamsSound' /\ StreamsSound'
  BY <1>1, <1>2, GpuFrame, KidsFrame, CtaFrame, StreamsFrame DEF IndInv
<1>8. Orderly(prog)'
  BY <1>1 DEF IndInv, Orderly
<1>9. QED
  BY <1>3, <1>4, <1>5, <1>6, <1>7, <1>8 DEF IndInv

\* Every step of the system keeps the invariant.
LEMMA NextInd ==
    ASSUME IndInv, [Next]_vars
    PROVE  IndInv'
<1>1. CASE SimRuns
  BY <1>1, SimRunsInd
<1>2. ASSUME NEW h \in Hosts, HostCalls(h) \/ HostReturns(h) PROVE IndInv'
  BY <1>2, HostInd
<1>3. CASE Exited \/ UNCHANGED vars
  BY <1>3, StutterInd DEF Exited
<1>4. QED
  BY <1>1, <1>2, <1>3 DEF Next

\* The programs the theorems are about: whatever a host program is allowed to do, it is Orderly.
OrderlyPrograms == \A p \in Programs : Orderly(p)

\* In every reachable state of stream_manager the queues, the kernels of the GPU, the list of
\* streams and the calls of host threads agree with each other (IndInv).
THEOREM Invariance ==
    ASSUME OrderlyPrograms
    PROVE  Spec => []IndInv
<1>1. Init => IndInv
  <2>1. ASSUME Init PROVE Orderly(prog)
    BY <2>1 DEF Init, OrderlyPrograms
  <2>2. QED
    BY <2>1, InitInd
<1>2. IndInv /\ [Next]_vars => IndInv'
  BY NextInd
<1>3. QED
  BY <1>1, <1>2, PTL DEF Spec

\* Every variable of stream_manager, of the GPU's kernel table and of the threads has its type.
THEOREM TypeCorrect ==
    ASSUME OrderlyPrograms
    PROVE  Spec => []TypeOK
<1>1. IndInv => TypeOK
  BY DEF IndInv
<1>2. QED
  BY <1>1, Invariance, PTL

\* register_finished_kernel retires the kernel at the front of the stream that
\* m_grid_id_to_stream names, and that is the kernel the GPU reported.
THEOREM FinishedKernelIsFront ==
    ASSUME OrderlyPrograms
    PROVE  Spec => []FinishedIsFront
<1>1. ASSUME IndInv PROVE FinishedIsFront
  <2>1. ASSUME NEW k \in running \cup ToSet(finished)
        PROVE  k \in DOMAIN gridStream /\ pending[gridStream[k]] /\ Head(ops[gridStream[k]]).id = k
    <3>1. k \in DOMAIN gridStream
      BY <1>1 DEF IndInv, GpuSound, ToSet, TypeOK
    <3>2. PICK s : s = gridStream[k]
      OBVIOUS
    <3>3. s \in AllStreams /\ pending[s] /\ ops[s] # <<>> /\ ops[s][1].id = k
      BY <1>1, <3>1, <3>2 DEF IndInv, GridFront, TypeOK
    <3>4. ops[s] \in Seq(Operations)
      BY <1>1, <3>3 DEF IndInv, TypeOK
    <3>5. Head(ops[s]) = ops[s][1]
      BY <3>3, <3>4
    <3>6. QED
      BY <3>1, <3>2, <3>3, <3>5
  <2>2. QED
    BY <2>1 DEF FinishedIsFront
<1>2. QED
  BY <1>1, Invariance, PTL

\* destroy_stream leaves no reference to the stream: not in the round robin, not in
\* m_grid_id_to_stream, not in a pending launch of a child, and no operation is lost in it.
THEOREM NoStreamDangles ==
    ASSUME OrderlyPrograms
    PROVE  Spec => []NoDangling
<1>1. ASSUME IndInv PROVE NoDangling
  <2>1. m_last_stream \in Alive \cup {None}
    BY <1>1 DEF IndInv, StreamsSound, Alive
  <2>2. ASSUME NEW k \in DOMAIN gridStream PROVE gridStream[k] \in Alive
    BY <1>1 DEF IndInv, GridFront, StreamsSound, TypeOK
  <2>3. ASSUME NEW i \in DOMAIN devLaunch PROVE devLaunch[i].s \in Alive
    <3>1. PICK e, p : e = devLaunch[i] /\ p = parent[e.id]
      OBVIOUS
    <3>2. e \in [id : Ids, s : DevStreams]
      BY <1>1, <3>1, ElementOf DEF IndInv, TypeOK
    <3>3. e.id \in Ids /\ e.s \in DevStreams /\ p # None /\ e.id \in children[p] /\ e.s = ctaStream[p]
      BY <1>1, <3>1, <3>2 DEF IndInv, LaunchesWait
    <3>4. p \in Ids
      BY <1>1, <3>1, <3>3 DEF IndInv, TypeOK
    <3>5. p \in DOMAIN gridStream
      BY <1>1, <3>3, <3>4 DEF IndInv, KidsSound
    <3>6. ctaStream[p] # None
      BY <3>3, NamesAssumption DEF AllStreams
    <3>7. QED
      BY <1>1, <3>1, <3>3, <3>4, <3>5, <3>6 DEF IndInv, CtaStreamsSound, Alive
  <2>4. \A s \in AllStreams \ Alive : ops[s] = <<>>
    BY <1>1 DEF IndInv, StreamsSound
  <2>5. QED
    BY <2>1, <2>2, <2>3, <2>4 DEF NoDangling, Alive
<1>2. QED
  BY <1>1, Invariance, PTL

\* An operation reaches the NULL stream only when everything its host thread pushed before is
\* complete, the kernels launched by its kernels included.
THEOREM NullStreamIsBarrier ==
    ASSUME OrderlyPrograms
    PROVE  Spec => []ZeroIsBarrier
<1>1. ASSUME IndInv PROVE ZeroIsBarrier
  <2>1. ASSUME NEW j \in DOMAIN ops[Zero], NEW o, o = ops[Zero][j],
               NEW i \in (IF o.host = Sim THEN {} ELSE mine[o.host]), i < o.id
        PROVE  Complete(i)
    <3>1. PICK h : h = o.host
      OBVIOUS
    <3>2. h \in Hosts /\ call[h].pc = "drain" /\ call[h].op.id = o.id
      BY <1>1, <2>1, <3>1 DEF IndInv, ZeroHeld
    <3>3. i \in mine[h] /\ mine[h] \subseteq Ids /\ o.id \in mine[h]
      BY <1>1, <2>1, <3>1, <3>2 DEF IndInv, OwnersSound, Pushes, TypeOK
    <3>4. i # o.id
      <4>1. i \in Nat
        BY <3>3 DEF Ids
      <4>2. QED
        BY <2>1, <4>1
    <3>5. QED
      BY <1>1, <3>2, <3>3, <3>4 DEF IndInv, ZeroHeld
  <2>2. QED
    BY <2>1 DEF ZeroIsBarrier
<1>2. QED
  BY <1>1, Invariance, PTL

\* When all streams are empty, every operation of a thread that is not about to push one is complete.
LEMMA EmptyIsComplete ==
    ASSUME IndInv, empty, NEW h \in Hosts, call[h].pc \in {"sync", "drain"}, NEW i \in mine[h]
    PROVE  Complete(i)
<1>1. ~InOps(ops, i)
  <2>1. ASSUME NEW s \in AllStreams, NEW j \in DOMAIN ops[s] PROVE FALSE
    <3>1. ops[s] # <<>>
      BY <2>1
    <3>2. s \in ToSet(m_streams) \cup {Zero}
      BY <3>1 DEF IndInv, StreamsSound, Alive
    <3>3. QED
      BY <3>1, <3>2 DEF empty, concurrent_streams_empty
  <2>2. QED
    BY <2>1 DEF InOps
<1>2. QED
  BY <1>1 DEF IndInv, MineAccounted

\* The steps that take a host thread out of cudaDeviceSynchronize or out of a blocking push.
LEMMA WhoReturns ==
    ASSUME IndInv, [Next]_vars, NEW h \in Hosts, call[h].pc \in {"sync", "drain"}, call'[h] # call[h],
           ~g_sim_done
    PROVE  empty
<1>1. call \in [Hosts -> CallTypes]
  BY DEF IndInv, TypeOK
<1>2. CASE SimRuns \/ Exited \/ UNCHANGED vars
  <2>1. call' = call
    BY <1>2 DEF SimRuns, SimDetect, SimStart, SimCheck, SimReap, SimOperation, SimTail, SimStop, SimCycle,
       SimFunctional, simHostUnchanged, hostVars, Exited, vars
  <2>2. QED
    BY <2>1
<1>3. ASSUME NEW g \in Hosts, HostCalls(g) PROVE FALSE
  <2>1. call[g] = Idle /\ (call' = call \/ \E c : call' = [call EXCEPT ![g] = c])
    BY <1>3 DEF HostCalls, StreamCreate, Enqueue, EventRecord, StreamWaitEvent, WaitEventOnAll, StartWait,
       NewOperation, Starts, Goto, hostVars
  <2>2. g # h
    BY <2>1 DEF Idle
  <2>3. call'[h] = call[h]
    BY <1>1, <2>1, <2>2
  <2>4. QED
    BY <2>3
<1>4. ASSUME NEW g \in Hosts, HostReturns(g) PROVE empty
  <2>1. \E c : call' = [call EXCEPT ![g] = c]
    BY <1>4 DEF HostReturns, PushBlock, Push, PushDrain, WaitEventOnNext, NewOperation, EndWait, DestroyLock,
       DestroyErase, Goto
  <2>2. g = h
    BY <1>1, <2>1
  <2>3. PushDrain(h) \/ EndWait(h)
    BY <1>4, <2>2 DEF HostReturns, PushBlock, Push, WaitEventOnNext, DestroyLock, DestroyErase
  <2>4. QED
    BY <2>3 DEF PushDrain, EndWait
<1>5. QED
  BY <1>2, <1>3, <1>4 DEF Next

\* cudaDeviceSynchronize and a blocking push return only when everything the host thread
\* pushed before is complete, unless the simulation has ended.
THEOREM SynchronizeWaits ==
    ASSUME OrderlyPrograms
    PROVE  Spec => ReturnsComplete
<1>1. ASSUME IndInv, [Next]_vars
      PROVE  [\A h \in Hosts : /\ call[h].pc \in {"sync", "drain"} /\ call'[h] # call[h]
                              /\ ~g_sim_done
                              => \A i \in mine[h] : Complete(i)]_vars
  BY <1>1, WhoReturns, EmptyIsComplete
<1>2. QED
  BY <1>1, Invariance, PTL DEF Spec, ReturnsComplete

=============================================================================
