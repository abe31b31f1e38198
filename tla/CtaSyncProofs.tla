--------------------------- MODULE CtaSyncProofs ---------------------------
(***************************************************************************)
(* ReleasesJustified, ClusterSeparates and BarrierSeparates of CtaSync for *)
(* every kernel (for the last one: every kernel that uses its barriers     *)
(* consistently), every number of slots, warps and barriers, with and      *)
(* without the two latencies.                                              *)
(*                                                                         *)
(* None is inductive.  That a delayed release finds its warp parked rests  *)
(* on the arrivals of the barrier having been cleared when the release was *)
(* scheduled, and that a released CTA leaves nothing behind rests on what  *)
(* its warps may still own once their exit was counted: IndInv.  That the  *)
(* cluster barrier separates rests on each warp's phases counting the      *)
(* instructions it has executed, and on the CTAs that are not issued yet:  *)
(* ClusterInv.  That a named barrier separates rests on its rounds: the    *)
(* warps whose arrival is counted are exactly one use ahead of the others  *)
(* that take part, wherever arrivals are still on their way and whoever    *)
(* has left: BarrierInv.                                                   *)
(***************************************************************************)
EXTENDS CtaSync, FiniteSetTheorems, NaturalsInduction, TLAPS

\* No bar.arrive of warp w is on its way.
NoArrival(w) == \A i \in DOMAIN named_arrivals : named_arrivals[i].w # w

\* A barrier set in which a delayed release belongs to a parked warp whose arrival at
\* that barrier has been consumed: nothing can schedule a second release.
Justified(s) ==
    \A w \in Warps : /\ s.releases[w] \in {0, 1}
                     /\ s.releases[w] = 1 => s.at[w] # NoBar /\ w \notin s.arrived[s.at[w]]

\* A slot without threads has counted the exit of all its warps.
SlotsCounted == \A w \in Warps : w[1] \notin threads => w \in reclaimed

\* A warp whose exit is counted runs no more and has nothing on its way.
CountedGone == \A w \in reclaimed : pc[w] = 0 /\ NoArrival(w)

\* A participant of barriers runs, or a bar.arrive of it is on its way.
ParticipantsLive == \A w \in named.active : pc[w] > 0 \/ ~NoArrival(w)

\* A parked warp runs and has no bar.arrive on its way.
ParkedRuns == \A w \in Warps : Parked(w) => pc[w] > 0 /\ NoArrival(w)

IndInv ==
    /\ TypeOK
    /\ Justified(named)
    /\ SlotsCounted
    /\ CountedGone
    /\ ParticipantsLive
    /\ ParkedRuns

-----------------------------------------------------------------------------
(* Lists of waiters. *)

\* A set of naturals with a member has a least one.
LEMMA LeastMember ==
    ASSUME NEW S \in SUBSET Nat, S # {}
    PROVE  \E x \in S : \A y \in S : x <= y
<1> DEFINE less == {ss \in Nat \X Nat : ss[1] < ss[2]}
<1>1. IsWellFoundedOn(less, Nat)
  BY NatLessThanWellFounded, Zenon DEF OpToRel
<1> HIDE DEF less
<1>2. \E x \in S : \A y \in S : <<y, x>> \notin less
  BY <1>1, WFMin
<1>3. PICK x \in S : \A y \in S : <<y, x>> \notin less
  BY <1>2
<1>4. ASSUME NEW y \in S PROVE x <= y
  <2>1. <<y, x>> \in Nat \X Nat
    OBVIOUS
  <2>2. ~(<<y, x>>[1] < <<y, x>>[2])
    BY <1>3, <2>1 DEF less
  <2>3. QED
    BY <2>2
<1>5. QED
  BY <1>4

\* Kth finds a member of a finite set of positions as long as there are enough of them.
LEMMA KthMember ==
    ASSUME NEW n \in Nat, NEW S \in SUBSET (1..n), NEW k \in 1..Cardinality(S)
    PROVE  Kth(S, k) \in S /\ Cardinality({i \in S : i <= Kth(S, k)}) = k
<1> DEFINE D(j) == {i \in S : i <= j}
           Far == {j \in Nat : Cardinality(D(j)) >= k}
<1>1. \A T \in SUBSET S : IsFiniteSet(T) /\ Cardinality(T) \in Nat
  <2>1. 1 \in Int /\ n \in Int
    OBVIOUS
  <2>2. IsFiniteSet(1..n)
    BY <2>1, FS_Interval
  <2>3. \A T \in SUBSET S : IsFiniteSet(T)
    BY <2>2, FS_Subset
  <2>4. QED
    BY <2>3, FS_CardinalityType
<1>2. n \in Far
  <2>1. D(n) = S
    <3>1. \A i \in S : i <= n
      OBVIOUS
    <3>2. QED
      BY <3>1
  <2>2. k <= Cardinality(S)
    BY <1>1
  <2>3. QED
    BY <1>1, <2>1, <2>2
<1>3. PICK j \in Far : \A m \in Far : j <= m
  <2> HIDE DEF Far
  <2>1. Far \in SUBSET Nat
    BY DEF Far
  <2>2. QED
    BY <1>2, <2>1, LeastMember
<1>4. j \in Nat /\ Cardinality(D(j)) >= k /\ k \in Nat /\ k > 0
  BY <1>1
<1>5. j # 0
  <2>1. ASSUME j = 0 PROVE D(j) = {}
    <3>1. \A i \in S : ~(i <= 0)
      OBVIOUS
    <3>2. QED
      BY <2>1, <3>1
  <2>2. QED
    BY <1>4, <2>1, FS_EmptySet
<1>6. j - 1 \in Nat /\ ~(Cardinality(D(j - 1)) >= k)
  <2>1. j - 1 \in Nat /\ ~(j <= j - 1)
    BY <1>4, <1>5
  <2>2. j - 1 \notin Far
    BY <1>3, <2>1
  <2>3. QED
    BY <2>1, <2>2
<1>7. j \in S /\ D(j) = D(j - 1) \cup {j} /\ j \notin D(j - 1)
  <2>1. \A i \in S : i <= j <=> i <= j - 1 \/ i = j
    BY <1>4
  <2>2. j \notin D(j - 1)
    BY <1>4
  <2>3. j \notin S => D(j) = D(j - 1)
    BY <2>1
  <2>4. j \in S
    BY <1>4, <1>6, <2>3
  <2>5. QED
    BY <2>1, <2>2, <2>4
<1>8. D(j - 1) \in SUBSET S
  OBVIOUS
<1>9. Cardinality(D(j)) = Cardinality(D(j - 1)) + 1
  BY <1>1, <1>7, <1>8, FS_AddElement
<1>10. Cardinality(D(j)) = k
  BY <1>1, <1>4, <1>6, <1>8, <1>9
<1>11. \E i \in S : Cardinality({x \in S : x <= i}) = k
  BY <1>7, <1>10
<1>12. QED
  BY <1>11 DEF Kth

\* Two positions of the same rank are the same.
LEMMA RankUnique ==
    ASSUME NEW n \in Nat, NEW S \in SUBSET (1..n), NEW i \in S, NEW j \in S,
           Cardinality({m \in S : m <= i}) = Cardinality({m \in S : m <= j})
    PROVE  i = j
<1> DEFINE D(x) == {m \in S : m <= x}
<1>1. \A x \in S : IsFiniteSet(D(x))
  <2>1. IsFiniteSet(1..n)
    BY FS_Interval
  <2>2. QED
    BY <2>1, FS_Subset
<1>2. ASSUME NEW x \in S, NEW y \in S, x < y
      PROVE  Cardinality(D(x)) < Cardinality(D(y))
  <2>0. \A m \in S : m \in Nat
    OBVIOUS
  <2>1. D(x) \subseteq D(y)
    <3>1. \A m \in S : m <= x => m <= y
      BY <1>2, <2>0
    <3>2. QED
      BY <3>1
  <2>2. y \in D(y) /\ y \notin D(x)
    BY <1>2, <2>0
  <2>3. D(x) # D(y) /\ IsFiniteSet(D(y))
    BY <1>1, <2>2
  <2> HIDE DEF D
  <2>4. PICK A, B : A = D(x) /\ B = D(y)
    OBVIOUS
  <2>5. IsFiniteSet(B) /\ A \in SUBSET B /\ A # B
    BY <2>1, <2>3, <2>4
  <2>6. Cardinality(A) < Cardinality(B)
    BY ONLY <2>5, FS_Subset, FS_CardinalityType
  <2>7. QED
    BY <2>4, <2>6
<1>3. Cardinality(D(i)) \in Nat /\ Cardinality(D(i)) = Cardinality(D(j))
  BY <1>1, FS_CardinalityType
<1> HIDE DEF D
<1>4. ~(i < j) /\ ~(j < i) /\ i \in Nat /\ j \in Nat
  BY <1>2, <1>3
<1>5. QED
  BY <1>4

\* Every member is found by its rank.
LEMMA KthOfAny ==
    ASSUME NEW n \in Nat, NEW S \in SUBSET (1..n), NEW i \in S
    PROVE  \E k \in 1..Cardinality(S) : Kth(S, k) = i
<1> DEFINE D == {m \in S : m <= i}
           k == Cardinality(D)
<1>1. IsFiniteSet(S)
  <2>1. IsFiniteSet(1..n)
    BY FS_Interval
  <2>2. QED
    BY <2>1, FS_Subset
<1>2. D \subseteq S /\ i \in D /\ IsFiniteSet(D)
  BY <1>1, FS_Subset
<1>3. k \in Nat /\ k <= Cardinality(S) /\ k # 0 /\ Cardinality(S) \in Nat
  <2> HIDE DEF D
  <2>1. k \in Nat /\ Cardinality(S) \in Nat /\ k <= Cardinality(S)
    BY <1>1, <1>2, FS_Subset, FS_CardinalityType
  <2>2. k # 0
    BY <1>2, FS_EmptySet
  <2>3. QED
    BY <2>1, <2>2
<1>4. k \in 1..Cardinality(S)
  BY <1>3
<1>5. Kth(S, k) \in S /\ Cardinality({m \in S : m <= Kth(S, k)}) = k
  BY <1>4, KthMember
<1>6. Kth(S, k) = i
  BY <1>5, RankUnique
<1>7. QED
  BY <1>4, <1>6

\* The k-th position is among the first m numbers when k positions are.
LEMMA KthBelow ==
    ASSUME NEW n \in Nat, NEW S \in SUBSET (1..n), NEW P, NEW k \in 1..Cardinality(S \cap P),
           \A i \in P : \A j \in S : j <= i => j \in P
    PROVE  Kth(S, k) \in S \cap P
<1> DEFINE T == S \cap P
           t == Kth(T, k)
<1>1. IsFiniteSet(S) /\ IsFiniteSet(T) /\ T \subseteq S /\ T \in SUBSET (1..n)
  <2>1. IsFiniteSet(1..n)
    BY FS_Interval
  <2>2. QED
    BY <2>1, FS_Subset
<1>2. t \in T /\ Cardinality({i \in T : i <= t}) = k
  BY <1>1, KthMember
<1> HIDE DEF t
<1>3. {i \in S : i <= t} = {i \in T : i <= t}
  BY <1>2
<1>4. k \in 1..Cardinality(S)
  <2>1. Cardinality(T) <= Cardinality(S) /\ Cardinality(S) \in Nat /\ Cardinality(T) \in Nat
    BY <1>1, FS_Subset, FS_CardinalityType
  <2>2. QED
    BY <2>1
<1>5. Kth(S, k) \in S /\ Cardinality({i \in S : i <= Kth(S, k)}) = k
  BY <1>4, KthMember
<1>6. Kth(S, k) = t
  <2>1. PICK u \in S : u = Kth(S, k)
    BY <1>5
  <2>2. t \in S
    BY <1>2
  <2>3. Cardinality({i \in S : i <= u}) = Cardinality({i \in S : i <= t})
    BY <1>2, <1>3, <1>5, <2>1
  <2>4. u = t
    BY ONLY <2>2, <2>3, RankUnique, n \in Nat, S \in SUBSET (1..n)
  <2>5. QED
    BY <2>1, <2>4
<1>7. QED
  BY <1>2, <1>6

\* What Without leaves of a list is a list of some of its members.
LEMMA WithoutFacts ==
    ASSUME NEW l \in Seq(Warps), NEW R
    PROVE  /\ Without(l, R) \in Seq(Warps)
           /\ Range(Without(l, R)) = Range(l) \ R
<1> DEFINE kept == {i \in DOMAIN l : l[i] \notin R}
<1>1. Len(l) \in Nat /\ DOMAIN l = 1..Len(l) /\ kept \in SUBSET (1..Len(l))
  OBVIOUS
<1>2. Cardinality(kept) \in Nat
  <2>1. 1 \in Int /\ Len(l) \in Int
    BY <1>1
  <2>2. IsFiniteSet(kept)
    BY <1>1, <2>1, FS_Interval, FS_Subset
  <2>3. QED
    BY <2>2, FS_CardinalityType
<1>3. Without(l, R) = [k \in 1..Cardinality(kept) |-> l[Kth(kept, k)]]
  BY DEF Without
<1>4. \A k \in 1..Cardinality(kept) : Kth(kept, k) \in kept
  <2> HIDE DEF kept
  <2>1. QED
    BY <1>1, KthMember
<1>5. \A k \in 1..Cardinality(kept) : l[Kth(kept, k)] \in Warps /\ l[Kth(kept, k)] \in Range(l) \ R
  <2>1. \A i \in kept : l[i] \in Warps /\ l[i] \notin R /\ l[i] \in Range(l)
    BY <1>1 DEF Range
  <2>2. QED
    BY <1>4, <2>1
<1> HIDE DEF kept
<1>6. Without(l, R) \in Seq(Warps)
  BY <1>2, <1>3, <1>5
<1>7. Range(Without(l, R)) \subseteq Range(l) \ R
  BY <1>3, <1>5 DEF Range
<1>8. ASSUME NEW w \in Range(l) \ R
      PROVE  w \in Range(Without(l, R))
  <2>1. PICK i \in DOMAIN l : l[i] = w
    BY DEF Range
  <2>2. i \in kept
    BY <2>1 DEF kept
  <2>3. PICK k \in 1..Cardinality(kept) : Kth(kept, k) = i
    BY <1>1, <2>2, KthOfAny DEF kept
  <2>4. Without(l, R)[k] = w /\ k \in DOMAIN Without(l, R)
    BY <1>3, <2>1, <2>3
  <2>5. QED
    BY <2>4 DEF Range
<1>9. QED
  BY <1>6, <1>7, <1>8


-----------------------------------------------------------------------------
(* The operations of the barrier sets. *)

\* Completing barriers releases warps whose arrival is consumed with it, and parks
\* nobody.
LEMMA CompleteFacts ==
    ASSUME NEW s \in BarrierSets, Justified(s), NEW c \in Slots, NEW bs \in SUBSET Bars,
           NEW d, NEW t, t = Complete(s, c, bs, d)
    PROVE  /\ t \in BarrierSets
           /\ Justified(t)
           /\ t.active = s.active
           /\ \A w \in Warps : t.at[w] \in {s.at[w], NoBar}
<1> DEFINE here(b) == s.arrived[b] \cap WarpsOf(c)
           waiters == UNION {named_barrier_waiters(s, b, here(b)) : b \in bs}
           arr == [b \in Bars |-> IF b \in bs THEN s.arrived[b] \ here(b) ELSE s.arrived[b]]
           cnt == [s.count EXCEPT ![c] = [b \in Bars |-> IF b \in bs THEN 0 ELSE @[b]]]
           at == [w \in Warps |-> IF w \in waiters /\ ~d THEN NoBar ELSE s.at[w]]
           rel == [w \in Warps |-> IF w \in waiters /\ d THEN s.releases[w] + 1
                                   ELSE s.releases[w]]
<1>1. t = [active |-> s.active, at |-> at, arrived |-> arr, count |-> cnt, releases |-> rel]
  BY DEF Complete, clear_named_barrier_waiters
<1>2. /\ s.active \in SUBSET Warps /\ s.at \in [Warps -> Bars \cup {NoBar}]
      /\ s.arrived \in [Bars -> SUBSET Warps] /\ s.count \in [Slots -> [Bars -> Nat]]
      /\ s.releases \in [Warps -> Nat]
  BY DEF BarrierSets
<1>3. \A w \in Warps : w \in waiters <=> s.at[w] \in bs /\ w \in here(s.at[w])
  BY DEF named_barrier_waiters
<1> HIDE DEF waiters
<1>4. arr \in [Bars -> SUBSET Warps] /\ \A b \in Bars : arr[b] \subseteq s.arrived[b]
  BY <1>2
<1>5. cnt \in [Slots -> [Bars -> Nat]]
  BY <1>2
<1>6. at \in [Warps -> Bars \cup {NoBar}] /\ rel \in [Warps -> Nat]
  BY <1>2
<1>7. \A w \in Warps : w \in waiters => s.releases[w] = 0 /\ s.at[w] # NoBar /\ w \notin arr[s.at[w]]
  BY <1>2, <1>3, NamedBarrierAssumption DEF Justified
<1>8. ASSUME NEW w \in Warps
      PROVE  rel[w] \in {0, 1} /\ (rel[w] = 1 => at[w] # NoBar /\ w \notin arr[at[w]])
  <2>1. CASE w \in waiters
    BY <1>2, <1>7, <2>1
  <2>2. CASE w \notin waiters
    <3>1. rel[w] = s.releases[w] /\ at[w] = s.at[w]
      BY <2>2
    <3>2. s.at[w] # NoBar => s.at[w] \in Bars
      BY <1>2
    <3>3. QED
      BY <1>4, <3>1, <3>2 DEF Justified
  <2>3. QED
    BY <2>1, <2>2
<1> HIDE DEF at, arr, cnt, rel
<1>9. t \in BarrierSets
  BY <1>1, <1>2, <1>4, <1>5, <1>6 DEF BarrierSets
<1>10. Justified(t)
  BY <1>1, <1>8 DEF Justified
<1>11. \A w \in Warps : t.at[w] \in {s.at[w], NoBar}
  BY <1>1 DEF at
<1>12. QED
  BY <1>1, <1>9, <1>10, <1>11

\* A warp that is not parked arrives: only bar.sync parks, and only that warp.
OneArrives(s, t, w, type) ==
    /\ t \in BarrierSets
    /\ Justified(t)
    /\ t.active = s.active
    /\ \A v \in Warps : t.at[v] # NoBar => s.at[v] # NoBar \/ (v = w /\ type = "sync")
LEMMA ReachesFacts ==
    ASSUME NEW s \in BarrierSets, Justified(s), NEW w \in Warps, s.at[w] = NoBar,
           NEW type, NEW b \in Bars, NEW n \in Nat \cup {WholeCta}, NEW d,
           NEW t, t = warp_reaches_barrier(s, w, type, b, n, d)
    PROVE  OneArrives(s, t, w, type)
<1> USE DEF OneArrives
<1> DEFINE at == IF type = "sync" THEN [s.at EXCEPT ![w] = b] ELSE s.at
           arr == [s.arrived EXCEPT ![b] = @ \cup {w}]
           cnt == IF n = WholeCta THEN s.count ELSE [s.count EXCEPT ![w[1]][b] = @ + 1]
           u == [active |-> s.active, at |-> at, arrived |-> arr, count |-> cnt,
                 releases |-> s.releases]
<1>1. /\ s.active \in SUBSET Warps /\ s.at \in [Warps -> Bars \cup {NoBar}]
      /\ s.arrived \in [Bars -> SUBSET Warps] /\ s.count \in [Slots -> [Bars -> Nat]]
      /\ s.releases \in [Warps -> Nat] /\ w[1] \in Slots
  BY DEF BarrierSets, Warps
<1>2. at \in [Warps -> Bars \cup {NoBar}] /\ arr \in [Bars -> SUBSET Warps]
  BY <1>1
<1>3. cnt \in [Slots -> [Bars -> Nat]]
  BY <1>1
<1>4. \A v \in Warps : at[v] # NoBar => s.at[v] # NoBar \/ (v = w /\ type = "sync")
  BY <1>1
<1>5. s.releases[w] = 0
  BY DEF Justified
<1>6. ASSUME NEW v \in Warps, s.releases[v] = 1 PROVE at[v] # NoBar /\ v \notin arr[at[v]]
  <2>1. v # w /\ s.at[v] # NoBar /\ v \notin s.arrived[s.at[v]] /\ s.at[v] \in Bars
    BY <1>1, <1>5, <1>6 DEF Justified
  <2>2. at[v] = s.at[v]
    BY <1>1, <2>1
  <2>3. QED
    BY <1>1, <2>1, <2>2
<1>7. t = IF EnoughArrived(u, w[1], b, n) THEN Complete(u, w[1], {b}, d) ELSE u
  BY DEF warp_reaches_barrier
<1> HIDE DEF at, arr, cnt
<1>8. u \in BarrierSets
  BY <1>1, <1>2, <1>3 DEF BarrierSets
<1>9. Justified(u)
  BY <1>6 DEF Justified
<1>10. u.active = s.active /\ u.at = at
  OBVIOUS
<1> HIDE DEF u
<1>11. CASE t = u
  BY <1>4, <1>8, <1>9, <1>10, <1>11
<1>12. CASE t = Complete(u, w[1], {b}, d)
  <2>1. PICK bs \in SUBSET Bars : t = Complete(u, w[1], bs, d)
    BY <1>12
  <2>2. /\ t \in BarrierSets /\ Justified(t) /\ t.active = u.active
        /\ \A v \in Warps : t.at[v] \in {u.at[v], NoBar}
    <3>1. w[1] \in Slots /\ u \in BarrierSets /\ Justified(u)
      BY <1>1, <1>8, <1>9
    <3>2. QED
      BY <2>1, <3>1, CompleteFacts
  <2>3. QED
    BY <1>4, <1>10, <2>2
<1>13. QED
  BY <1>7, <1>11, <1>12

\* A warp that is not parked leaves the barriers.
LEMMA ExitFacts ==
    ASSUME NEW s \in BarrierSets, Justified(s), NEW w \in Warps, s.at[w] = NoBar, NEW d,
           NEW t, t = warp_exit(s, w, d)
    PROVE  /\ t \in BarrierSets
           /\ Justified(t)
           /\ t.active = s.active \ {w}
           /\ \A v \in Warps : t.at[v] # NoBar => s.at[v] # NoBar
<1> DEFINE u == [active |-> s.active \ {w}, at |-> [s.at EXCEPT ![w] = NoBar],
                 arrived |-> s.arrived, count |-> s.count, releases |-> s.releases]
<1>1. /\ s.active \in SUBSET Warps /\ s.at \in [Warps -> Bars \cup {NoBar}]
      /\ s.arrived \in [Bars -> SUBSET Warps] /\ s.count \in [Slots -> [Bars -> Nat]]
      /\ s.releases \in [Warps -> Nat] /\ w[1] \in Slots
  BY DEF BarrierSets, Warps
<1>2. [s.at EXCEPT ![w] = NoBar] = s.at
  BY <1>1
<1>3. u = [active |-> s.active \ {w}, at |-> s.at,
           arrived |-> s.arrived, count |-> s.count, releases |-> s.releases]
  BY <1>2
<1>4. t = Complete(u, w[1], {b \in Bars : AllActiveArrived(u, w[1], b)}, d)
  BY DEF warp_exit
<1> HIDE DEF u
<1>5. PICK bs \in SUBSET Bars : t = Complete(u, w[1], bs, d)
  BY <1>4
<1>6. u \in BarrierSets /\ Justified(u) /\ u.active = s.active \ {w} /\ u.at = s.at
  BY <1>1, <1>3 DEF BarrierSets, Justified
<1>7. /\ t \in BarrierSets /\ Justified(t) /\ t.active = u.active
      /\ \A v \in Warps : t.at[v] \in {u.at[v], NoBar}
  <2>1. w[1] \in Slots /\ u \in BarrierSets /\ Justified(u)
    BY <1>1, <1>6
  <2>2. QED
    BY <1>5, <2>1, CompleteFacts
<1>8. QED
  BY <1>6, <1>7

\* Clearing the warps of a CTA of which none is parked.
LEMMA ClearFacts ==
    ASSUME NEW s \in BarrierSets, Justified(s), NEW c \in Slots, NEW A \in SUBSET Warps,
           \A w \in Warps : w[1] = c => s.at[w] = NoBar,
           NEW t, t = ClearCta(s, c, A)
    PROVE  t \in BarrierSets /\ Justified(t) /\ t.active = A /\ t.at = s.at
<1> DEFINE at == [w \in Warps |-> IF w \in WarpsOf(c) THEN NoBar ELSE s.at[w]]
           arr == [b \in Bars |-> s.arrived[b] \ WarpsOf(c)]
           cnt == [s.count EXCEPT ![c] = [b \in Bars |-> 0]]
<1>1. /\ s.active \in SUBSET Warps /\ s.at \in [Warps -> Bars \cup {NoBar}]
      /\ s.arrived \in [Bars -> SUBSET Warps] /\ s.count \in [Slots -> [Bars -> Nat]]
      /\ s.releases \in [Warps -> Nat]
  BY DEF BarrierSets
<1>2. t = [active |-> A, at |-> at, arrived |-> arr, count |-> cnt, releases |-> s.releases]
  BY DEF ClearCta
<1>3. \A w \in Warps : w \in WarpsOf(c) => w[1] = c
  BY DEF WarpsOf
<1>4. at = s.at
  BY <1>1, <1>3
<1>5. arr \in [Bars -> SUBSET Warps] /\ cnt \in [Slots -> [Bars -> Nat]]
  BY <1>1
<1>6. \A w \in Warps : s.at[w] # NoBar /\ w \notin s.arrived[s.at[w]] => w \notin arr[s.at[w]]
  BY <1>1
<1> HIDE DEF at, arr, cnt
<1>7. t \in BarrierSets
  BY <1>1, <1>2, <1>4, <1>5 DEF BarrierSets
<1>8. Justified(t)
  BY <1>2, <1>4, <1>6 DEF Justified
<1>9. QED
  BY <1>2, <1>4, <1>7, <1>8

\* A delayed release that is due ends the wait it was scheduled for.
LEMMA ReleaseDueFacts ==
    ASSUME NEW s \in BarrierSets, Justified(s), NEW w \in Warps, s.releases[w] > 0,
           NEW t, t = ReleaseDue(s, w)
    PROVE  /\ t \in BarrierSets /\ Justified(t) /\ t.active = s.active
           /\ \A v \in Warps : t.at[v] # NoBar => s.at[v] # NoBar
<1> DEFINE at == [s.at EXCEPT ![w] = NoBar]
           rel == [s.releases EXCEPT ![w] = @ - 1]
<1>1. /\ s.active \in SUBSET Warps /\ s.at \in [Warps -> Bars \cup {NoBar}]
      /\ s.arrived \in [Bars -> SUBSET Warps] /\ s.count \in [Slots -> [Bars -> Nat]]
      /\ s.releases \in [Warps -> Nat]
  BY DEF BarrierSets
<1>2. t = [active |-> s.active, at |-> at, arrived |-> s.arrived, count |-> s.count, releases |-> rel]
  BY DEF ReleaseDue
<1>3. at \in [Warps -> Bars \cup {NoBar}] /\ \A v \in Warps : at[v] # NoBar => s.at[v] # NoBar
  BY <1>1
<1>4. s.releases[w] = 1
  BY DEF Justified
<1>5. rel \in [Warps -> Nat] /\ rel[w] = 0 /\ \A v \in Warps \ {w} : rel[v] = s.releases[v] /\ at[v] = s.at[v]
  BY <1>1, <1>4
<1> HIDE DEF at, rel
<1>6. t \in BarrierSets
  BY <1>1, <1>2, <1>3, <1>5 DEF BarrierSets
<1>7. Justified(t)
  BY <1>2, <1>5 DEF Justified
<1>8. QED
  BY <1>2, <1>3, <1>6, <1>7


\* The part of TypeOK about the cluster barrier.
ClusterOK(x) ==
    /\ x \in ClusterBarriers
    /\ \A w \in Warps : x.phase[w].arrived \in {x.phase[w].completed, x.phase[w].completed + 1}

\* Releasing waiters and forgetting a warp make nobody wait.
LEMMA RecheckFacts ==
    ASSUME NEW x, ClusterOK(x), NEW live, NEW unissued, NEW busy,
           NEW y, y = release_ready_cluster_barriers(x, live, unissued, busy)
    PROVE  ClusterOK(y) /\ \A w \in Warps : Waiting(y, w) => Waiting(x, w)
<1> DEFINE ready == UNION {ReadyWaiters(x, g, live, unissued, busy) : g \in Groups}
           ph == [w \in Warps |->
                      IF w \in ready /\ x.phase[w].arrived >= Required(x, w)
                      THEN [arrived |-> x.phase[w].arrived, completed |-> Required(x, w)]
                      ELSE x.phase[w]]
           ws == [g \in Groups |-> Without(x.waiters[g], ready)]
<1>1. y = [phase |-> ph, waiters |-> ws]
  BY DEF release_ready_cluster_barriers
<1> HIDE DEF ready
<1>2. /\ x.phase \in [Warps -> [arrived : Nat, completed : Nat]]
      /\ x.waiters \in [Groups -> Seq(Warps)]
  BY DEF ClusterOK, ClusterBarriers
<1>3. ASSUME NEW w \in Warps
      PROVE  /\ ph[w] \in [arrived : Nat, completed : Nat]
             /\ ph[w].arrived \in {ph[w].completed, ph[w].completed + 1}
  <2>1. /\ x.phase[w].arrived \in Nat /\ x.phase[w].completed \in Nat
        /\ x.phase[w].arrived \in {x.phase[w].completed, x.phase[w].completed + 1}
        /\ x.phase[w] \in [arrived : Nat, completed : Nat]
    BY <1>2 DEF ClusterOK
  <2>2. CASE w \in ready /\ x.phase[w].arrived >= Required(x, w)
    <3>1. ph[w] = [arrived |-> x.phase[w].arrived, completed |-> x.phase[w].completed + 1]
      BY <2>2 DEF Required
    <3>2. QED
      BY <2>1, <2>2, <3>1 DEF Required
  <2>3. CASE ~(w \in ready /\ x.phase[w].arrived >= Required(x, w))
    <3>1. ph[w] = x.phase[w]
      BY <2>3
    <3>2. QED
      BY <2>1, <3>1
  <2>4. QED
    BY <2>2, <2>3
<1>4. \A g \in Groups : ws[g] \in Seq(Warps) /\ Range(ws[g]) \subseteq Range(x.waiters[g])
  BY <1>2, WithoutFacts
<1>5. ws \in [Groups -> Seq(Warps)]
  BY <1>4
<1>6. ph \in [Warps -> [arrived : Nat, completed : Nat]]
  BY <1>3
<1> HIDE DEF ph, ws
<1>7. y.phase = ph /\ y.waiters = ws
  BY <1>1
<1>8. ClusterOK(y)
  BY <1>1, <1>3, <1>5, <1>6 DEF ClusterOK, ClusterBarriers
<1>9. \A w \in Warps : Waiting(y, w) => Waiting(x, w)
  BY <1>4, <1>7 DEF Waiting
<1>10. QED
  BY <1>8, <1>9

\* The three operations on a warp's own entry.
LEMMA ForgetFacts ==
    ASSUME NEW x, ClusterOK(x), NEW w \in Warps
    PROVE  ClusterOK(Forget(x, w)) /\ \A v \in Warps : Waiting(Forget(x, w), v) => Waiting(x, v)
<1> DEFINE ph == [x.phase EXCEPT ![w] = NoPhase]
           ws == [g \in Groups |-> Without(x.waiters[g], {w})]
<1>1. Forget(x, w) = [phase |-> ph, waiters |-> ws]
  BY DEF Forget
<1>2. /\ x.phase \in [Warps -> [arrived : Nat, completed : Nat]]
      /\ x.waiters \in [Groups -> Seq(Warps)]
  BY DEF ClusterOK, ClusterBarriers
<1>3. \A g \in Groups : ws[g] \in Seq(Warps) /\ Range(ws[g]) \subseteq Range(x.waiters[g])
  BY <1>2, WithoutFacts
<1>4. /\ ph \in [Warps -> [arrived : Nat, completed : Nat]]
      /\ \A v \in Warps : ph[v].arrived \in {ph[v].completed, ph[v].completed + 1}
  BY <1>2 DEF ClusterOK, NoPhase
<1>5. ws \in [Groups -> Seq(Warps)]
  BY <1>3
<1> HIDE DEF ph, ws
<1>6. QED
  BY <1>1, <1>3, <1>4, <1>5 DEF ClusterOK, ClusterBarriers, Waiting

\* barrier.cluster.arrive keeps the barrier well formed and parks nobody.
LEMMA ArriveFacts ==
    ASSUME NEW x, ClusterOK(x), NEW w \in Warps
    PROVE  ClusterOK(Arrive(x, w)) /\ Arrive(x, w).waiters = x.waiters
<1> DEFINE ph == [x.phase EXCEPT ![w] = [arrived |-> @.completed + 1, completed |-> @.completed]]
<1>1. /\ x.phase \in [Warps -> [arrived : Nat, completed : Nat]]
      /\ x.waiters \in [Groups -> Seq(Warps)]
  BY DEF ClusterOK, ClusterBarriers
<1>2. /\ ph \in [Warps -> [arrived : Nat, completed : Nat]]
      /\ \A v \in Warps : ph[v].arrived \in {ph[v].completed, ph[v].completed + 1}
  BY <1>1 DEF ClusterOK
<1>3. Arrive(x, w) = x \/ Arrive(x, w) = [phase |-> ph, waiters |-> x.waiters]
  BY DEF Arrive
<1> HIDE DEF ph
<1>4. QED
  BY <1>1, <1>2, <1>3 DEF ClusterOK, ClusterBarriers

\* barrier.cluster.wait parks at most the warp that executes it.
LEMMA WaitFacts ==
    ASSUME NEW x, ClusterOK(x), NEW w \in Warps, NEW g \in Groups
    PROVE  ClusterOK(Wait(x, w, g))
           /\ \A v \in Warps : Waiting(Wait(x, w, g), v) => Waiting(x, v) \/ v = w
<1> DEFINE ws == [x.waiters EXCEPT ![g] = Append(@, w)]
<1>1. /\ x.phase \in [Warps -> [arrived : Nat, completed : Nat]]
      /\ x.waiters \in [Groups -> Seq(Warps)]
  BY DEF ClusterOK, ClusterBarriers
<1>2. \A h \in Groups : ws[h] \in Seq(Warps) /\ Range(ws[h]) \subseteq Range(x.waiters[h]) \cup {w}
  <2>1. Append(x.waiters[g], w) \in Seq(Warps)
    BY <1>1
  <2>2. Range(Append(x.waiters[g], w)) \subseteq Range(x.waiters[g]) \cup {w}
    BY <1>1 DEF Range
  <2>3. QED
    BY <1>1, <2>1, <2>2
<1>3. ws \in [Groups -> Seq(Warps)]
  BY <1>1, <1>2
<1>4. Wait(x, w, g) = x \/ Wait(x, w, g) = [phase |-> x.phase, waiters |-> ws]
  BY DEF Wait
<1> HIDE DEF ws
<1>5. QED
  BY <1>1, <1>2, <1>3, <1>4 DEF ClusterOK, ClusterBarriers, Waiting


-----------------------------------------------------------------------------
(* The inductive invariant, one lemma per action. *)

\* No CTA is there at first.
LEMMA InitInd == Init => IndInv
<1> SUFFICES ASSUME Init PROVE IndInv
  OBVIOUS
<1> USE DEF Init
<1>1. NoBarriers \in BarrierSets /\ Justified(NoBarriers) /\ NoBarriers.active = {}
  BY DEF NoBarriers, BarrierSets, Justified
<1>2. ClusterOK(NoClusterBarrier) /\ \A w \in Warps : ~Waiting(NoClusterBarrier, w)
  BY DEF NoClusterBarrier, NoPhase, ClusterOK, ClusterBarriers, Waiting, Range
<1>3. \A w \in Warps : ~Parked(w)
  BY <1>2 DEF Parked, NoBarriers
<1>4. TypeOK
  BY <1>1, <1>2 DEF TypeOK, ClusterOK
<1>5. \A w \in Warps : NoArrival(w)
  BY DEF NoArrival
<1>6. QED
  BY <1>1, <1>3, <1>4, <1>5 DEF IndInv, SlotsCounted, CountedGone, ParticipantsLive, ParkedRuns

\* The instructions of a warp whose slot has threads.
LEMMA CodeType ==
    ASSUME TypeOK, NEW w \in Warps, w[1] \in threads
    PROVE  Code(w) \in Seq(Instructions)
<1>1. w[1] \in Slots /\ w[2] \in 1..WarpsPerCta
  BY DEF Warps
<1>2. cta[w[1]] # Free
  BY DEF TypeOK
<1>3. /\ cta[w[1]].g \in DOMAIN kernel.groups
      /\ cta[w[1]].r \in DOMAIN kernel.groups[cta[w[1]].g]
  BY <1>1, <1>2 DEF TypeOK
<1>4. kernel.groups \in Seq(Seq([1..WarpsPerCta -> Seq(Instructions)]))
  BY KernelsAssumption DEF TypeOK
<1> DEFINE P == [1..WarpsPerCta -> Seq(Instructions)]
<1>5. ASSUME NEW gs \in Seq(Seq(P)), NEW g \in DOMAIN gs, NEW r \in DOMAIN gs[g] PROVE gs[g][r] \in P
  <2> HIDE DEF P
  <2>1. gs[g] \in Seq(P)
    OBVIOUS
  <2>2. QED
    BY <2>1
<1>6. kernel.groups[cta[w[1]].g][cta[w[1]].r] \in P
  BY <1>3, <1>4, <1>5
<1>7. QED
  BY <1>1, <1>6 DEF Code

\* The latencies of a kernel are on or off.
LEMMA LatencyType ==
    ASSUME TypeOK
    PROVE  kernel.releaseLatency \in BOOLEAN /\ kernel.arriveLatency \in BOOLEAN
  BY KernelsAssumption DEF TypeOK

\* A warp that runs is in a slot with threads, and its exit is not counted.
LEMMA RunningWarp ==
    ASSUME IndInv, NEW w \in Warps, pc[w] > 0
    PROVE  w[1] \in threads /\ w \notin reclaimed /\ w[1] \in Slots /\ Code(w) \in Seq(Instructions)
<1>1. w \notin reclaimed
  BY DEF IndInv, CountedGone, TypeOK
<1>2. w[1] \in threads /\ w[1] \in Slots
  BY <1>1 DEF IndInv, SlotsCounted, Warps
<1>3. QED
  BY <1>1, <1>2, CodeType DEF IndInv

\* A step after which every warp runs that ran before, that takes no bar.arrive of a
\* warp away, and that parks only warps that run and have none on their way.
StepOK ==
    /\ UNCHANGED <<threads, reclaimed>>
    /\ named'.active = named.active
    /\ \A v \in Warps : pc[v] > 0 <=> pc'[v] > 0
    /\ \A v \in Warps : NoArrival(v)' => NoArrival(v) \/ pc[v] > 0
    /\ \A v \in Warps : pc[v] = 0 /\ NoArrival(v) => NoArrival(v)'
    /\ \A v \in Warps : Parked(v)' =>
          (Parked(v) /\ (NoArrival(v) => NoArrival(v)')) \/ (pc[v] > 0 /\ NoArrival(v)')

\* A step like that keeps the invariant.
LEMMA StepInd ==
    ASSUME IndInv, TypeOK', Justified(named'), StepOK
    PROVE  IndInv'
<1> USE DEF IndInv, StepOK
<1>1. \A v \in Warps : pc[v] \in Nat /\ pc'[v] \in Nat
  BY DEF TypeOK
<1>2. SlotsCounted'
  BY DEF SlotsCounted
<1>3. CountedGone'
  BY <1>1 DEF CountedGone, TypeOK
<1>4. named.active \subseteq Warps
  BY DEF TypeOK, BarrierSets
<1>5. ParticipantsLive'
  BY <1>4 DEF ParticipantsLive
<1>6. ParkedRuns'
  BY DEF ParkedRuns
<1>7. QED
  BY <1>2, <1>3, <1>5, <1>6

\* A step that leaves the pending arrivals and the barriers alone.
LEMMA QuietInd ==
    ASSUME IndInv, UNCHANGED <<kernel, ctaVars, named, named_arrivals>>,
           pc' \in [Warps -> Nat], \A v \in Warps : pc[v] > 0 <=> pc'[v] > 0,
           stores' \in [Warps -> SUBSET Nat], hidden' \in [Warps -> SUBSET Nat],
           dsm' \in [Warps -> Nat],
           ClusterOK(cluster'), \A v \in Warps : Waiting(cluster', v) =>
                                    Waiting(cluster, v) \/ (pc[v] > 0 /\ NoArrival(v))
    PROVE  IndInv'
<1> USE DEF ctaVars
<1>1. TypeOK'
  BY DEF IndInv, TypeOK, ClusterOK
<1>2. \A v \in Warps : NoArrival(v)' <=> NoArrival(v)
  BY DEF NoArrival
<1>3. \A v \in Warps : Parked(v)' => Parked(v) \/ (pc[v] > 0 /\ NoArrival(v))
  BY DEF Parked
<1>4. StepOK
  BY <1>2, <1>3 DEF StepOK
<1>5. QED
  BY <1>1, <1>4, StepInd DEF IndInv

\* What issuing an instruction does to the program counters.
LEMMA IssuesFacts ==
    ASSUME IndInv, NEW w \in Warps, NEW kinds, Issues(w, kinds)
    PROVE  /\ pc' \in [Warps -> Nat] /\ \A v \in Warps : pc[v] > 0 <=> pc'[v] > 0
           /\ pc[w] > 0 /\ ~Parked(w) /\ pc[w] \in Nat /\ ClusterOK(cluster)
           /\ Code(w)[pc[w]] \in Instructions /\ Code(w)[pc[w]].op \in kinds
           /\ w[1] \in threads /\ w[1] \in Slots
<1>1. pc \in [Warps -> Nat]
  BY DEF IndInv, TypeOK
<1>2. pc[w] > 0 /\ ~Parked(w) /\ pc' = [pc EXCEPT ![w] = @ + 1]
      /\ pc[w] <= Len(Code(w)) /\ Code(w)[pc[w]].op \in kinds
  BY DEF Issues
<1>3. Code(w) \in Seq(Instructions) /\ w[1] \in threads /\ w[1] \in Slots
  BY <1>2, RunningWarp
<1>4. pc' \in [Warps -> Nat] /\ \A v \in Warps : pc[v] > 0 <=> pc'[v] > 0
  BY <1>1, <1>2
<1>5. Code(w)[pc[w]] \in Instructions
  <2>1. pc[w] \in 1..Len(Code(w))
    BY <1>1, <1>2, <1>3
  <2>2. QED
    BY <1>3, <2>1
<1>6. ClusterOK(cluster)
  BY DEF IndInv, TypeOK, ClusterOK
<1>7. QED
  BY <1>1, <1>2, <1>3, <1>4, <1>5, <1>6

\* A store is issued.
LEMMA IssueStoreInd ==
    ASSUME IndInv, NEW w \in Warps, IssueStore(w)
    PROVE  IndInv'
<1>1. Issues(w, {"store", "rstore"})
  BY DEF IssueStore
<1>2. stores \in [Warps -> SUBSET Nat] /\ hidden \in [Warps -> SUBSET Nat] /\ dsm \in [Warps -> Nat]
  BY DEF IndInv, TypeOK
<1>3. stores' \in [Warps -> SUBSET Nat] /\ hidden' = hidden
  BY <1>1, <1>2, IssuesFacts DEF IssueStore
<1>4. dsm' \in [Warps -> Nat]
  BY <1>2 DEF IssueStore
<1>5. UNCHANGED <<kernel, ctaVars, named, named_arrivals, cluster>>
  BY DEF IssueStore
<1>6. QED
  BY <1>1, <1>2, <1>3, <1>4, <1>5, IssuesFacts, QuietInd

\* A remote load is issued.
LEMMA IssueRemoteLoadInd ==
    ASSUME IndInv, NEW w \in Warps, IssueRemoteLoad(w)
    PROVE  IndInv'
<1>1. Issues(w, {"rload"})
  BY DEF IssueRemoteLoad
<1>2. stores \in [Warps -> SUBSET Nat] /\ hidden \in [Warps -> SUBSET Nat] /\ dsm \in [Warps -> Nat]
  BY DEF IndInv, TypeOK
<1>3. dsm' \in [Warps -> Nat]
  BY <1>2 DEF IssueRemoteLoad
<1>4. UNCHANGED <<kernel, ctaVars, named, named_arrivals, cluster>> /\ stores' = stores /\ hidden' = hidden
  BY DEF IssueRemoteLoad, storeVars
<1>5. QED
  BY <1>1, <1>2, <1>3, <1>4, IssuesFacts, QuietInd

\* bar.sync: the warp parks, or completes the barrier.
LEMMA IssueSyncInd ==
    ASSUME IndInv, NEW w \in Warps, IssueSync(w)
    PROVE  IndInv'
<1> DEFINE i == Code(w)[pc[w]]
<1>1. Issues(w, {"sync"}) /\ named_barrier_issue_ready(w)
  BY DEF IssueSync
<1>2. named' = warp_reaches_barrier(named, w, "sync", i.bar, i.count, kernel.releaseLatency)
  BY DEF IssueSync
<1>3. i \in Instructions /\ i.op = "sync"
  BY <1>1, IssuesFacts
<1>4. i.bar \in Bars /\ i.count \in Nat \cup {WholeCta}
  BY <1>3 DEF Instructions
<1>5. NoArrival(w) /\ named.at[w] = NoBar /\ pc[w] > 0
  BY <1>1, IssuesFacts DEF named_barrier_issue_ready, NoArrival, Parked
<1>6. /\ named' \in BarrierSets /\ Justified(named') /\ named'.active = named.active
      /\ \A v \in Warps : named'.at[v] # NoBar => named.at[v] # NoBar \/ v = w
  <2>1. named \in BarrierSets /\ Justified(named)
    BY DEF IndInv, TypeOK
  <2>2. PICK b \in Bars, n \in Nat \cup {WholeCta} :
            named' = warp_reaches_barrier(named, w, "sync", b, n, kernel.releaseLatency)
    BY <1>2, <1>4
  <2>3. named.at[w] = NoBar
    BY <1>5
  <2>4. OneArrives(named, named', w, "sync")
    BY <2>1, <2>2, <2>3, ReachesFacts
  <2>5. QED
    BY <2>4 DEF OneArrives
<1>7. UNCHANGED <<kernel, ctaVars, named_arrivals, storeVars, dsm, cluster>>
  BY DEF IssueSync
<1>8. TypeOK'
  BY <1>1, <1>6, <1>7, IssuesFacts DEF IndInv, TypeOK, ctaVars, storeVars
<1>9. StepOK
  <2>1. \A v \in Warps : NoArrival(v)' <=> NoArrival(v)
    BY <1>7 DEF NoArrival
  <2>2. \A v \in Warps : Parked(v)' => Parked(v) \/ v = w
    BY <1>6, <1>7 DEF Parked
  <2>3. QED
    BY <1>1, <1>5, <1>6, <1>7, <2>1, <2>2, IssuesFacts DEF StepOK, ctaVars
<1>10. QED
  BY <1>6, <1>8, <1>9, StepInd


\* bar.arrive reaches the barrier at once, or is put on its way.
LEMMA IssueNamedArrivalInd ==
    ASSUME IndInv, NEW w \in Warps, issue_named_arrival(w)
    PROVE  IndInv'
<1> DEFINE i == Code(w)[pc[w]]
           e == [w |-> w, bar |-> i.bar, count |-> i.count]
<1>1. Issues(w, {"arrive"}) /\ named_barrier_issue_ready(w)
  BY DEF issue_named_arrival
<1>2. i \in Instructions /\ i.op = "arrive"
  BY <1>1, IssuesFacts
<1>3. i.bar \in Bars /\ i.count \in Nat \cup {WholeCta}
  BY <1>2 DEF Instructions
<1>4. ~Parked(w) /\ named.at[w] = NoBar /\ pc[w] > 0 /\ ClusterOK(cluster)
  BY <1>1, IssuesFacts DEF Parked
<1>5. UNCHANGED <<kernel, ctaVars, storeVars, dsm, cluster>>
  BY DEF issue_named_arrival
<1>6. named \in BarrierSets /\ Justified(named) /\ named_arrivals \in Seq(Arrivals)
  BY DEF IndInv, TypeOK
<1>7. CASE named_arrivals' = Append(named_arrivals, e) /\ UNCHANGED named
  <2>1. e \in Arrivals
    BY <1>3 DEF Arrivals
  <2> HIDE DEF e
  <2>2. named_arrivals' \in Seq(Arrivals)
    BY <1>6, <1>7, <2>1
  <2>3. TypeOK'
    BY <1>1, <1>5, <1>7, <2>2, IssuesFacts DEF IndInv, TypeOK, ctaVars, storeVars
  <2>4. e.w = w
    BY DEF e
  <2>5. \A v \in Warps : v # w => (NoArrival(v)' <=> NoArrival(v))
    BY <1>6, <1>7, <2>1, <2>4 DEF NoArrival
  <2>6. ~NoArrival(w)'
    <3>1. Len(named_arrivals) + 1 \in DOMAIN named_arrivals' /\ named_arrivals'[Len(named_arrivals) + 1] = e
      BY <1>6, <1>7, <2>1
    <3>2. QED
      BY <2>4, <3>1 DEF NoArrival
  <2>7. \A v \in Warps : Parked(v)' <=> Parked(v)
    BY <1>5, <1>7 DEF Parked
  <2>8. StepOK
    BY <1>1, <1>4, <1>5, <1>7, <2>5, <2>6, <2>7, IssuesFacts DEF StepOK, ctaVars
  <2>9. QED
    BY <1>6, <1>7, <2>3, <2>8, StepInd
<1>8. CASE /\ named' = warp_reaches_barrier(named, w, "arrive", i.bar, i.count, kernel.releaseLatency)
           /\ UNCHANGED named_arrivals
  <2>1. PICK b \in Bars, n \in Nat \cup {WholeCta} :
            named' = warp_reaches_barrier(named, w, "arrive", b, n, kernel.releaseLatency)
    BY <1>3, <1>8
  <2>2. /\ named' \in BarrierSets /\ Justified(named') /\ named'.active = named.active
        /\ \A v \in Warps : named'.at[v] # NoBar => named.at[v] # NoBar
    <3>1. OneArrives(named, named', w, "arrive")
      BY <1>4, <1>6, <2>1, ReachesFacts
    <3>2. QED
      BY <3>1 DEF OneArrives
  <2>3. TypeOK'
    BY <1>1, <1>5, <1>8, <2>2, IssuesFacts DEF IndInv, TypeOK, ctaVars, storeVars
  <2>4. \A v \in Warps : NoArrival(v)' <=> NoArrival(v)
    BY <1>8 DEF NoArrival
  <2>5. \A v \in Warps : Parked(v)' => Parked(v)
    BY <1>5, <2>2 DEF Parked
  <2>6. StepOK
    BY <1>1, <1>5, <2>2, <2>4, <2>5, IssuesFacts DEF StepOK, ctaVars
  <2>7. QED
    BY <2>2, <2>3, <2>6, StepInd
<1>9. QED
  BY <1>7, <1>8 DEF issue_named_arrival

\* barrier.cluster.arrive
LEMMA ClusterArriveInd ==
    ASSUME IndInv, NEW w \in Warps, cluster_barrier_arrive(w)
    PROVE  IndInv'
<1>1. Issues(w, {"carrive"}) /\ UNCHANGED <<kernel, ctaVars, named, named_arrivals, storeVars, dsm>>
  BY DEF cluster_barrier_arrive
<1>2. ClusterOK(Arrive(cluster, w)) /\ Arrive(cluster, w).waiters = cluster.waiters
  BY <1>1, IssuesFacts, ArriveFacts
<1>3. cluster' = release_ready_cluster_barriers(Arrive(cluster, w), Live(named, threads), Unissued, Busy)
  BY DEF cluster_barrier_arrive, Rechecked
<1>4. ClusterOK(cluster') /\ \A v \in Warps : Waiting(cluster', v) => Waiting(Arrive(cluster, w), v)
  BY <1>2, <1>3, RecheckFacts
<1>5. \A v \in Warps : Waiting(cluster', v) => Waiting(cluster, v)
  BY <1>2, <1>4 DEF Waiting
<1>6. stores' \in [Warps -> SUBSET Nat] /\ hidden' \in [Warps -> SUBSET Nat] /\ dsm' \in [Warps -> Nat]
  BY <1>1 DEF IndInv, TypeOK, storeVars
<1>7. QED
  BY <1>1, <1>4, <1>5, <1>6, IssuesFacts, QuietInd

\* barrier.cluster.wait: the warp is listed, and perhaps released at once.
LEMMA ClusterWaitInd ==
    ASSUME IndInv, NEW w \in Warps, cluster_barrier_wait(w)
    PROVE  IndInv'
<1> DEFINE g == cta[w[1]].g
<1>1. /\ Issues(w, {"cwait"}) /\ named_barrier_issue_ready(w)
      /\ UNCHANGED <<kernel, ctaVars, named, named_arrivals, storeVars, dsm>>
  BY DEF cluster_barrier_wait
<1>2. g \in Groups
  <2>1. w[1] \in threads /\ w[1] \in Slots
    BY <1>1, IssuesFacts
  <2>2. cta[w[1]] \in [g : Groups, r : Nat]
    BY <2>1 DEF IndInv, TypeOK
  <2>3. QED
    BY <2>2
<1> HIDE DEF g
<1>3. /\ ClusterOK(Wait(cluster, w, g))
      /\ \A v \in Warps : Waiting(Wait(cluster, w, g), v) => Waiting(cluster, v) \/ v = w
  BY <1>1, <1>2, IssuesFacts, WaitFacts
<1>4. cluster' = release_ready_cluster_barriers(Wait(cluster, w, g), Live(named, threads), Unissued, Busy)
  BY DEF cluster_barrier_wait, Rechecked, g
<1>5. ClusterOK(cluster') /\ \A v \in Warps : Waiting(cluster', v) => Waiting(Wait(cluster, w, g), v)
  BY <1>3, <1>4, RecheckFacts
<1>6. NoArrival(w) /\ pc[w] > 0
  BY <1>1, IssuesFacts DEF named_barrier_issue_ready, NoArrival
<1>7. stores' \in [Warps -> SUBSET Nat] /\ hidden' \in [Warps -> SUBSET Nat] /\ dsm' \in [Warps -> Nat]
  BY <1>1 DEF IndInv, TypeOK, storeVars
<1>8. QED
  BY <1>1, <1>3, <1>5, <1>6, <1>7, IssuesFacts, QuietInd

\* Stores leave the pipeline and become visible, DSM operations end.
LEMMA CompletionInd ==
    ASSUME IndInv, NEW w \in Warps,
           \/ \E i \in stores[w] : complete_shared_store(w, i)
           \/ StoresVisible(w)
           \/ dsm_on_tx_done(w)
    PROVE  IndInv'
<1> USE DEF storeVars
<1>1. /\ stores \in [Warps -> SUBSET Nat] /\ hidden \in [Warps -> SUBSET Nat] /\ dsm \in [Warps -> Nat]
      /\ pc \in [Warps -> Nat] /\ ClusterOK(cluster)
  BY DEF IndInv, TypeOK, ClusterOK
<1>2. CASE \E i \in stores[w] : complete_shared_store(w, i)
  <2>1. /\ stores' \in [Warps -> SUBSET Nat] /\ hidden' \in [Warps -> SUBSET Nat]
        /\ UNCHANGED <<kernel, ctaVars, pc, named, named_arrivals, dsm, cluster>>
    BY <1>1, <1>2 DEF complete_shared_store
  <2>2. QED
    BY <1>1, <2>1, QuietInd
<1>3. CASE StoresVisible(w)
  <2>1. /\ stores' \in [Warps -> SUBSET Nat] /\ hidden' \in [Warps -> SUBSET Nat]
        /\ UNCHANGED <<kernel, ctaVars, pc, named, named_arrivals, dsm, cluster>>
    BY <1>1, <1>3 DEF StoresVisible
  <2>2. QED
    BY <1>1, <2>1, QuietInd
<1>4. CASE dsm_on_tx_done(w)
  <2>1. dsm' \in [Warps -> Nat] /\ UNCHANGED <<kernel, ctaVars, pc, named, named_arrivals, storeVars>>
    BY <1>1, <1>4 DEF dsm_on_tx_done
  <2>2. PICK busy : cluster' = release_ready_cluster_barriers(cluster, Live(named, threads), Unissued, busy)
    BY <1>4 DEF dsm_on_tx_done, Rechecked
  <2>3. ClusterOK(cluster') /\ \A v \in Warps : Waiting(cluster', v) => Waiting(cluster, v)
    BY <1>1, <2>2, RecheckFacts
  <2>4. QED
    BY <1>1, <2>1, <2>3, QuietInd
<1>5. QED
  BY <1>2, <1>3, <1>4

\* A delayed release is due.
LEMMA DelayedReleaseInd ==
    ASSUME IndInv, NEW w \in Warps, DelayedRelease(w)
    PROVE  IndInv'
<1>1. named \in BarrierSets /\ Justified(named)
  BY DEF IndInv, TypeOK
<1>2. /\ named' \in BarrierSets /\ Justified(named') /\ named'.active = named.active
      /\ \A v \in Warps : named'.at[v] # NoBar => named.at[v] # NoBar
  BY <1>1, ReleaseDueFacts DEF DelayedRelease
<1>3. UNCHANGED <<kernel, ctaVars, pc, named_arrivals, storeVars, dsm, cluster>>
  BY DEF DelayedRelease
<1>4. TypeOK'
  BY <1>2, <1>3 DEF IndInv, TypeOK, ctaVars, storeVars
<1>5. \A v \in Warps : NoArrival(v)' <=> NoArrival(v)
  BY <1>3 DEF NoArrival
<1>6. \A v \in Warps : Parked(v)' => Parked(v)
  BY <1>2, <1>3 DEF Parked
<1>7. StepOK
  BY <1>2, <1>3, <1>5, <1>6 DEF StepOK, ctaVars
<1>8. QED
  BY <1>2, <1>4, <1>7, StepInd


\* A warp that is not parked leaves both kinds of barrier.
LEMMA LeavesFacts ==
    ASSUME ClusterOK(cluster), NEW s \in BarrierSets, Justified(s), NEW w \in Warps, s.at[w] = NoBar,
           LeavesBarriers(s, w)
    PROVE  /\ named' \in BarrierSets /\ Justified(named') /\ named'.active = s.active \ {w}
           /\ \A v \in Warps : named'.at[v] # NoBar => s.at[v] # NoBar
           /\ ClusterOK(cluster') /\ \A v \in Warps : Waiting(cluster', v) => Waiting(cluster, v)
<1>1. named' = warp_exit(s, w, kernel.releaseLatency)
  BY DEF LeavesBarriers
<1>2. PICK t : cluster' = release_ready_cluster_barriers(Forget(cluster, w), Live(t, threads),
                                                         Unissued, Busy)
  BY DEF LeavesBarriers, Rechecked
<1>3. /\ ClusterOK(Forget(cluster, w))
      /\ \A v \in Warps : Waiting(Forget(cluster, w), v) => Waiting(cluster, v)
  BY ForgetFacts
<1>4. /\ ClusterOK(cluster')
      /\ \A v \in Warps : Waiting(cluster', v) => Waiting(Forget(cluster, w), v)
  BY <1>2, <1>3, RecheckFacts
<1>5. /\ named' \in BarrierSets /\ Justified(named') /\ named'.active = s.active \ {w}
      /\ \A v \in Warps : named'.at[v] # NoBar => s.at[v] # NoBar
  BY <1>1, ExitFacts
<1>6. QED
  BY <1>3, <1>4, <1>5

\* The last threads of a warp exit.
LEMMA ExitInd ==
    ASSUME IndInv, NEW w \in Warps, Exit(w)
    PROVE  IndInv'
<1> USE DEF ctaVars, storeVars
<1>1. /\ pc[w] > 0 /\ ~Parked(w) /\ pc' = [pc EXCEPT ![w] = 0]
      /\ UNCHANGED <<kernel, ctaVars, named_arrivals, storeVars, dsm>>
  BY DEF Exit
<1>2. pc \in [Warps -> Nat] /\ ClusterOK(cluster) /\ named \in BarrierSets /\ Justified(named)
  BY DEF IndInv, TypeOK, ClusterOK
<1>3. pc' \in [Warps -> Nat] /\ pc'[w] = 0 /\ \A v \in Warps \ {w} : pc'[v] = pc[v]
  BY <1>1, <1>2
<1>4. \A v \in Warps : NoArrival(v)' <=> NoArrival(v)
  BY <1>1 DEF NoArrival
<1>5. w \notin reclaimed /\ named.at[w] = NoBar
  BY <1>1, RunningWarp DEF Parked
<1>6. /\ named' \in BarrierSets /\ Justified(named') /\ named'.active \subseteq named.active
      /\ \A v \in Warps : named'.at[v] # NoBar => named.at[v] # NoBar
      /\ ClusterOK(cluster') /\ \A v \in Warps : Waiting(cluster', v) => Waiting(cluster, v)
      /\ w \in named'.active => ~NoArrival(w)
  <2>1. CASE ~NoArrival(w)
    <3>1. UNCHANGED <<named, cluster>>
      BY <2>1 DEF Exit, NoArrival
    <3>2. QED
      BY <1>2, <2>1, <3>1
  <2>2. CASE NoArrival(w)
    <3>1. LeavesBarriers(named, w)
      BY <2>2 DEF Exit, NoArrival
    <3>2. QED
      BY <1>2, <1>5, <3>1, LeavesFacts
  <2>3. QED
    BY <2>1, <2>2
<1>7. TypeOK'
  BY <1>1, <1>3, <1>6 DEF IndInv, TypeOK, ClusterOK
<1>8. \A v \in Warps : Parked(v)' => Parked(v)
  BY <1>6 DEF Parked
<1>9. SlotsCounted' /\ CountedGone'
  BY <1>1, <1>3, <1>4, <1>5 DEF IndInv, SlotsCounted, CountedGone, TypeOK
<1>10. ParticipantsLive'
  <2>1. named.active \subseteq Warps
    BY DEF IndInv, TypeOK, BarrierSets
  <2>2. QED
    BY <1>3, <1>4, <1>6, <2>1 DEF IndInv, ParticipantsLive
<1>11. ParkedRuns'
  BY <1>1, <1>3, <1>4, <1>8 DEF IndInv, ParkedRuns
<1>12. QED
  BY <1>6, <1>7, <1>9, <1>10, <1>11 DEF IndInv

\* The oldest bar.arrive is delivered, with the exit of its warp if that waited for it.
LEMMA ProcessInd ==
    ASSUME IndInv, process_named_arrivals
    PROVE  IndInv'
<1> DEFINE e == Head(named_arrivals)
           s == warp_reaches_barrier(named, e.w, "arrive", e.bar, e.count, kernel.releaseLatency)
           more == \E i \in 2..Len(named_arrivals) : named_arrivals[i].w = e.w
<1> USE DEF ctaVars, storeVars
<1>1. /\ named_arrivals # <<>> /\ named_arrivals' = Tail(named_arrivals)
      /\ UNCHANGED <<kernel, ctaVars, pc, storeVars, dsm>>
  BY DEF process_named_arrivals
<1>2. /\ named_arrivals \in Seq(Arrivals) /\ ClusterOK(cluster) /\ named \in BarrierSets
      /\ Justified(named) /\ pc \in [Warps -> Nat]
  BY DEF IndInv, TypeOK, ClusterOK
<1>3. e \in Arrivals /\ e = named_arrivals[1] /\ 1 \in DOMAIN named_arrivals
  BY <1>1, <1>2
<1>4. e.w \in Warps /\ e.bar \in Bars /\ e.count \in Nat \cup {WholeCta}
  BY <1>3 DEF Arrivals
<1>5. ~NoArrival(e.w)
  BY <1>3 DEF NoArrival
<1>6. ~Parked(e.w) /\ named.at[e.w] = NoBar
  BY <1>4, <1>5 DEF IndInv, ParkedRuns, Parked
<1>0. PICK w \in Warps : w = e.w
  BY <1>4
<1>7. named_arrivals' \in Seq(Arrivals)
  BY <1>1, <1>2
<1>8. \A i \in DOMAIN named_arrivals' : i + 1 \in DOMAIN named_arrivals /\ named_arrivals'[i] = named_arrivals[i + 1]
  BY <1>1, <1>2
<1>9. \A v \in Warps : NoArrival(v) => NoArrival(v)'
  BY <1>8 DEF NoArrival
<1>10. \A v \in Warps : v # w /\ ~NoArrival(v) => ~NoArrival(v)'
  <2> SUFFICES ASSUME NEW v \in Warps, v # w, ~NoArrival(v) PROVE ~NoArrival(v)'
    OBVIOUS
  <2>1. PICK i \in DOMAIN named_arrivals : named_arrivals[i].w = v
    BY DEF NoArrival
  <2>2. i # 1
    BY <1>0, <1>3, <2>1
  <2>3. i - 1 \in DOMAIN named_arrivals' /\ named_arrivals'[i - 1] = named_arrivals[i]
    BY <1>1, <1>2, <2>1, <2>2
  <2>4. QED
    BY <2>1, <2>3 DEF NoArrival
<1>11. more => ~NoArrival(w)'
  <2> SUFFICES ASSUME more PROVE ~NoArrival(w)'
    OBVIOUS
  <2>1. PICK i \in 2..Len(named_arrivals) : named_arrivals[i].w = w
    BY <1>0
  <2>2. i - 1 \in DOMAIN named_arrivals' /\ named_arrivals'[i - 1] = named_arrivals[i]
    BY <1>1, <1>2
  <2>3. QED
    BY <2>1, <2>2 DEF NoArrival
<1>12. /\ s \in BarrierSets /\ Justified(s) /\ s.active = named.active
       /\ \A v \in Warps : s.at[v] # NoBar => named.at[v] # NoBar
  <2>1. PICK b \in Bars, n \in Nat \cup {WholeCta} :
            s = warp_reaches_barrier(named, w, "arrive", b, n, kernel.releaseLatency)
    BY <1>0, <1>4
  <2> HIDE DEF s, e
  <2>2. named.at[w] = NoBar /\ named \in BarrierSets /\ Justified(named)
    BY <1>0, <1>2, <1>6
  <2>3. OneArrives(named, s, w, "arrive")
    BY <2>1, <2>2, ReachesFacts
  <2>4. QED
    BY <2>3 DEF OneArrives
<1>13. IF pc[w] = 0 /\ ~more THEN LeavesBarriers(s, w) ELSE named' = s /\ UNCHANGED cluster
  BY <1>0 DEF process_named_arrivals
<1> HIDE DEF s, e, more
<1>14. s.at[w] = NoBar
  BY <1>0, <1>6, <1>12
<1>15. /\ named' \in BarrierSets /\ Justified(named') /\ named'.active \subseteq named.active
       /\ \A v \in Warps : named'.at[v] # NoBar => named.at[v] # NoBar
       /\ ClusterOK(cluster') /\ \A v \in Warps : Waiting(cluster', v) => Waiting(cluster, v)
       /\ w \in named'.active => pc[w] > 0 \/ more
  <2>1. CASE pc[w] = 0 /\ ~more
    <3>1. LeavesBarriers(s, w)
      BY <1>13, <2>1
    <3>2. QED
      BY <1>2, <1>12, <1>14, <3>1, LeavesFacts
  <2>2. CASE ~(pc[w] = 0 /\ ~more)
    <3>1. named' = s /\ cluster' = cluster
      BY <1>13, <2>2
    <3>2. QED
      BY <1>2, <1>12, <1>14, <2>2, <3>1
  <2>3. QED
    BY <2>1, <2>2
<1>16. TypeOK'
  BY <1>1, <1>7, <1>15 DEF IndInv, TypeOK, ClusterOK
<1>17. \A v \in Warps : Parked(v)' => Parked(v)
  BY <1>15 DEF Parked
<1>18. SlotsCounted' /\ CountedGone'
  BY <1>1, <1>9 DEF IndInv, SlotsCounted, CountedGone, TypeOK
<1>19. ParticipantsLive'
  <2>1. named.active \subseteq Warps
    BY DEF IndInv, TypeOK, BarrierSets
  <2>2. QED
    BY <1>1, <1>10, <1>11, <1>15, <2>1 DEF IndInv, ParticipantsLive
<1>20. ParkedRuns'
  BY <1>1, <1>9, <1>17 DEF IndInv, ParkedRuns
<1>21. QED
  BY <1>15, <1>16, <1>18, <1>19, <1>20 DEF IndInv


\* The warps of a slot without threads are neither parked nor participants, and the
\* barrier set can be cleared of them.
LEMMA EmptySlot ==
    ASSUME IndInv, NEW c \in Slots, c \notin threads
    PROVE  \A w \in Warps : w[1] = c => /\ w \in reclaimed /\ pc[w] = 0 /\ NoArrival(w)
                                        /\ ~Parked(w) /\ named.at[w] = NoBar /\ w \notin named.active
<1> SUFFICES ASSUME NEW w \in Warps, w[1] = c
             PROVE  /\ w \in reclaimed /\ pc[w] = 0 /\ NoArrival(w)
                    /\ ~Parked(w) /\ named.at[w] = NoBar /\ w \notin named.active
  OBVIOUS
<1>1. w \in reclaimed
  BY DEF IndInv, SlotsCounted
<1>2. pc[w] = 0 /\ NoArrival(w) /\ ~(pc[w] > 0)
  BY <1>1 DEF IndInv, CountedGone
<1>3. ~Parked(w) /\ w \notin named.active
  BY <1>2 DEF IndInv, ParkedRuns, ParticipantsLive
<1>4. QED
  BY <1>1, <1>2, <1>3 DEF Parked

\* WarpsOf(c) are the warps of slot c.
LEMMA WarpsOfFacts ==
    ASSUME NEW c \in Slots
    PROVE  WarpsOf(c) \subseteq Warps /\ \A w \in Warps : w \in WarpsOf(c) <=> w[1] = c
  BY DEF WarpsOf, Warps

\* A CTA is issued to a free slot.
LEMMA IssueBlockInd ==
    ASSUME IndInv, NEW c \in Slots, issue_block2core(c)
    PROVE  IndInv'
<1> DEFINE A == named.active \cup WarpsOf(c)
<1>1. PICK g \in NextGroup :
        /\ cta[c] = Free
        /\ cta' = [cta EXCEPT ![c] = [g |-> g, r |-> issued[g] + 1]]
        /\ issued' = [issued EXCEPT ![g] = @ + 1]
  BY DEF issue_block2core
<1>2. /\ threads' = threads \cup {c}
      /\ pc' = [w \in Warps |-> IF w[1] = c THEN 1 ELSE pc[w]]
      /\ reclaimed' = reclaimed \ WarpsOf(c)
      /\ hidden' = [w \in Warps |-> IF w[1] = c THEN {} ELSE hidden[w]]
      /\ named' = ClearCta(named, c, A)
      /\ UNCHANGED <<kernel, named_arrivals, stores, dsm, cluster>>
  BY DEF issue_block2core, allocate_barrier
<1>3. TypeOK /\ Justified(named) /\ named \in BarrierSets /\ named.active \subseteq Warps
  BY DEF IndInv, TypeOK, BarrierSets
<1>4. c \notin threads
  BY <1>1, <1>3 DEF TypeOK
<1>5. \A w \in Warps : w[1] = c => /\ w \in reclaimed /\ pc[w] = 0 /\ NoArrival(w)
                                   /\ ~Parked(w) /\ named.at[w] = NoBar /\ w \notin named.active
  BY <1>4, EmptySlot
<1>6. WarpsOf(c) \subseteq Warps /\ \A w \in Warps : w \in WarpsOf(c) <=> w[1] = c
  BY WarpsOfFacts
<1>7. /\ named' \in BarrierSets /\ Justified(named') /\ named'.active = A /\ named'.at = named.at
  <2>1. A \in SUBSET Warps
    BY <1>3, <1>6
  <2> HIDE DEF A
  <2>2. QED
    BY <1>2, <1>3, <1>5, <2>1, ClearFacts
<1>8. g \in Groups /\ g \in DOMAIN kernel.groups /\ issued[g] \in Nat
      /\ issued[g] + 1 \in DOMAIN kernel.groups[g]
  <2>1. kernel.groups \in Seq(Seq([1..WarpsPerCta -> Seq(Instructions)])) /\ DOMAIN kernel.groups \subseteq Groups
    BY <1>3, KernelsAssumption DEF TypeOK
  <2>2. g \in DOMAIN kernel.groups /\ issued[g] < Len(kernel.groups[g])
    BY DEF NextGroup, CtaSize
  <2>3. issued[g] \in Nat /\ g \in Groups
    BY <1>3, <2>1, <2>2 DEF TypeOK
  <2> DEFINE P == [1..WarpsPerCta -> Seq(Instructions)]
  <2> HIDE DEF P
  <2>4. ASSUME NEW gs \in Seq(Seq(P)), NEW x \in DOMAIN gs PROVE gs[x] \in Seq(P)
    OBVIOUS
  <2>5. kernel.groups[g] \in Seq(P)
    BY <2>1, <2>2, <2>4 DEF P
  <2>6. issued[g] + 1 \in DOMAIN kernel.groups[g]
    BY <2>2, <2>3, <2>5
  <2>7. QED
    BY <2>2, <2>3, <2>6
<1>9. cta' \in [Slots -> [g : Groups, r : Nat] \cup {Free}]
  <2>1. [g |-> g, r |-> issued[g] + 1] \in [g : Groups, r : Nat]
    BY <1>8
  <2>2. QED
    BY <1>1, <1>3, <2>1 DEF TypeOK
<1>10. \A d \in Slots : cta'[d] # Free => /\ cta'[d].g \in DOMAIN kernel.groups
                                         /\ cta'[d].r \in DOMAIN kernel.groups[cta'[d].g]
  <2>1. cta'[c] = [g |-> g, r |-> issued[g] + 1] /\ \A d \in Slots \ {c} : cta'[d] = cta[d]
    BY <1>1, <1>3 DEF TypeOK
  <2>2. cta'[c].g = g /\ cta'[c].r = issued[g] + 1
    BY <2>1
  <2>3. QED
    BY <1>3, <1>8, <2>1, <2>2 DEF TypeOK
<1>11. \A d \in threads' : cta'[d] # Free
  <2>1. [g |-> g, r |-> issued[g] + 1] # Free
    BY <1>8, FreeAssumption
  <2>2. QED
    BY <1>1, <1>2, <1>3, <2>1 DEF TypeOK
<1>12. /\ pc' \in [Warps -> Nat] /\ hidden' \in [Warps -> SUBSET Nat]
       /\ issued' \in [Groups -> Nat] /\ threads' \subseteq Slots /\ reclaimed' \subseteq Warps
  <2>1. pc' \in [Warps -> Nat] /\ hidden' \in [Warps -> SUBSET Nat]
    BY <1>2, <1>3 DEF TypeOK
  <2>2. issued' \in [Groups -> Nat]
    <3>1. issued \in [Groups -> Nat] /\ issued[g] + 1 \in Nat
      BY <1>3, <1>8 DEF TypeOK
    <3>2. QED
      BY <1>1, <3>1
  <2>3. QED
    BY <1>2, <1>3, <2>1, <2>2 DEF TypeOK
<1>13. TypeOK'
  BY <1>2, <1>3, <1>7, <1>9, <1>10, <1>11, <1>12 DEF TypeOK
<1>14. \A v \in Warps : NoArrival(v)' <=> NoArrival(v)
  BY <1>2 DEF NoArrival
<1>15. \A v \in Warps : Parked(v)' <=> Parked(v)
  BY <1>2, <1>7 DEF Parked
<1>16. \A v \in Warps : IF v[1] = c THEN pc'[v] = 1 /\ v \notin reclaimed' /\ v[1] \in threads'
                       ELSE /\ pc'[v] = pc[v] /\ (v \in reclaimed' <=> v \in reclaimed)
                            /\ (v \in A <=> v \in named.active)
                            /\ (v[1] \in threads' <=> v[1] \in threads)
  BY <1>2, <1>6
<1>17. SlotsCounted' /\ CountedGone'
  BY <1>3, <1>12, <1>14, <1>16 DEF IndInv, SlotsCounted, CountedGone
<1>18. ParticipantsLive'
  <2>1. A \subseteq Warps
    BY <1>3, <1>6
  <2>2. ASSUME NEW v \in A PROVE pc'[v] > 0 \/ ~NoArrival(v)'
    BY <1>14, <1>16, <2>1 DEF IndInv, ParticipantsLive
  <2>3. QED
    BY <1>7, <2>2 DEF ParticipantsLive
<1>19. ParkedRuns'
  BY <1>5, <1>14, <1>15, <1>16 DEF IndInv, ParkedRuns
<1>20. QED
  BY <1>7, <1>13, <1>17, <1>18, <1>19 DEF IndInv

\* Slot c is given back when none of its warps is parked or a participant.
LEMMA ReleasedFacts ==
    ASSUME IndInv, NEW c \in Slots, Released(c),
           \A w \in Warps : w[1] = c => named.at[w] = NoBar /\ w \notin named.active
    PROVE  /\ named' \in BarrierSets /\ Justified(named') /\ named'.active = named.active
           /\ named'.at = named.at
           /\ cta' \in [Slots -> [g : Groups, r : Nat] \cup {Free}]
           /\ \A d \in Slots : cta'[d] # Free => cta'[d] = cta[d] /\ d # c
           /\ \A d \in Slots \ {c} : cta'[d] = cta[d]
<1> DEFINE A == named.active \ WarpsOf(c)
<1>1. TypeOK /\ Justified(named) /\ named \in BarrierSets /\ named.active \subseteq Warps
  BY DEF IndInv, TypeOK, BarrierSets
<1>2. named' = ClearCta(named, c, A) /\ cta' = [cta EXCEPT ![c] = Free]
  BY DEF Released, deallocate_barrier
<1>3. A = named.active
  BY <1>1, WarpsOfFacts
<1>4. named' \in BarrierSets /\ Justified(named') /\ named'.active = A /\ named'.at = named.at
  <2>1. A \in SUBSET Warps
    BY <1>1
  <2> HIDE DEF A
  <2>2. QED
    BY <1>1, <1>2, <2>1, ClearFacts
<1>5. QED
  BY <1>1, <1>2, <1>3, <1>4 DEF TypeOK

\* A CTA that waited for its DSM operations or its peers is released.
LEMMA ReleasePendingInd ==
    ASSUME IndInv, NEW c \in Slots, release_pending_tma_ctas(c)
    PROVE  IndInv'
<1> USE DEF storeVars
<1>1. /\ c \notin threads /\ Released(c)
      /\ UNCHANGED <<kernel, threads, issued, pc, reclaimed, named_arrivals, storeVars, dsm, cluster>>
  BY DEF release_pending_tma_ctas
<1>2. \A w \in Warps : w[1] = c => named.at[w] = NoBar /\ w \notin named.active
  BY <1>1, EmptySlot
<1>3. /\ named' \in BarrierSets /\ Justified(named') /\ named'.active = named.active
      /\ named'.at = named.at
      /\ cta' \in [Slots -> [g : Groups, r : Nat] \cup {Free}]
      /\ \A d \in Slots : cta'[d] # Free => cta'[d] = cta[d] /\ d # c
      /\ \A d \in Slots \ {c} : cta'[d] = cta[d]
  BY <1>1, <1>2, ReleasedFacts
<1>4. TypeOK'
  <2>1. \A d \in threads : d \in Slots \ {c}
    BY <1>1 DEF IndInv, TypeOK
  <2>2. \A d \in threads' : cta'[d] # Free
    BY <1>1, <1>3, <2>1 DEF IndInv, TypeOK
  <2>3. \A d \in Slots : cta'[d] # Free => /\ cta'[d].g \in DOMAIN kernel'.groups
                                          /\ cta'[d].r \in DOMAIN kernel'.groups[cta'[d].g]
    BY <1>1, <1>3 DEF IndInv, TypeOK
  <2>4. QED
    BY <1>1, <1>3, <2>2, <2>3 DEF IndInv, TypeOK
<1>5. \A v \in Warps : NoArrival(v)' <=> NoArrival(v)
  BY <1>1 DEF NoArrival
<1>6. \A v \in Warps : Parked(v)' <=> Parked(v)
  BY <1>1, <1>3 DEF Parked
<1>7. StepOK
  BY <1>1, <1>3, <1>5, <1>6 DEF StepOK
<1>8. QED
  BY <1>3, <1>4, <1>7, StepInd

\* The exit of a warp is counted; the last of a CTA takes its slot out of the slots
\* with threads and may release it.
LEMMA RegisterExitInd ==
    ASSUME IndInv, NEW w \in Warps, register_cta_thread_exit(w)
    PROVE  IndInv'
<1> USE DEF storeVars
<1> DEFINE c == w[1]
<1>1. /\ hardware_done(w) /\ w \notin reclaimed /\ reclaimed' = reclaimed \cup {w}
      /\ UNCHANGED <<kernel, issued, pc, named_arrivals, storeVars, dsm>>
  BY DEF register_cta_thread_exit
<1>2. pc[w] = 0 /\ NoArrival(w)
  BY <1>1 DEF hardware_done, NoArrival
<1>3. c \in Slots /\ WarpsOf(c) \subseteq Warps /\ \A v \in Warps : v \in WarpsOf(c) <=> v[1] = c
  BY WarpsOfFacts DEF Warps
<1>4. /\ ClusterOK(cluster) /\ TypeOK /\ named \in BarrierSets /\ Justified(named)
      /\ named.active \subseteq Warps
  BY DEF IndInv, TypeOK, ClusterOK, BarrierSets
<1>5. \A v \in reclaimed' : v \in Warps /\ pc[v] = 0 /\ NoArrival(v) /\ named.at[v] = NoBar
                            /\ v \notin named.active
  <2> SUFFICES ASSUME NEW v \in reclaimed' PROVE v \in Warps /\ pc[v] = 0 /\ NoArrival(v)
                                     /\ named.at[v] = NoBar /\ v \notin named.active
    OBVIOUS
  <2>1. v \in Warps /\ pc[v] = 0 /\ NoArrival(v) /\ ~(pc[v] > 0)
    BY <1>1, <1>2, <1>4 DEF IndInv, CountedGone, TypeOK
  <2>2. QED
    BY <2>1 DEF IndInv, ParkedRuns, Parked, ParticipantsLive
<1> HIDE DEF c
<1>6. /\ named' \in BarrierSets /\ Justified(named') /\ named'.active = named.active
      /\ named'.at = named.at
      /\ cta' \in [Slots -> [g : Groups, r : Nat] \cup {Free}]
      /\ \A d \in Slots : cta'[d] # Free => cta'[d] = cta[d]
      /\ \A d \in Slots \ {c} : cta'[d] = cta[d]
      /\ threads' \subseteq threads
      /\ \A v \in Warps : v[1] \notin threads' => v \in reclaimed'
      /\ threads' = threads \ {c} \/ (threads' = threads /\ cta' = cta)
      /\ ClusterOK(cluster') /\ \A v \in Warps : Waiting(cluster', v) => Waiting(cluster, v)
  <2>1. CASE WarpsOf(c) \ {w} \subseteq reclaimed
    <3>1. /\ threads' = threads \ {c}
          /\ UNCHANGED <<cta, named>> \/ Released(c)
          /\ cluster' = release_ready_cluster_barriers(cluster, Live(named, threads \ {c}), Unissued, Busy)
      BY <2>1 DEF register_cta_thread_exit, Rechecked, c
    <3>2. ClusterOK(cluster') /\ \A v \in Warps : Waiting(cluster', v) => Waiting(cluster, v)
      BY <1>4, <3>1, RecheckFacts
    <3>3. WarpsOf(c) \subseteq reclaimed'
      BY <1>1, <2>1
    <3>4. \A v \in Warps : v[1] = c => named.at[v] = NoBar /\ v \notin named.active
      BY <1>3, <1>5, <3>3
    <3>5. \A v \in Warps : v[1] \notin threads' => v \in reclaimed'
      BY <1>1, <1>3, <3>1, <3>3 DEF IndInv, SlotsCounted
    <3>6. /\ named' \in BarrierSets /\ Justified(named') /\ named'.active = named.active
          /\ named'.at = named.at
          /\ cta' \in [Slots -> [g : Groups, r : Nat] \cup {Free}]
          /\ \A d \in Slots : cta'[d] # Free => cta'[d] = cta[d]
          /\ \A d \in Slots \ {c} : cta'[d] = cta[d]
      <4>1. CASE UNCHANGED <<cta, named>>
        BY <1>4, <4>1 DEF TypeOK
      <4>2. CASE Released(c)
        BY <1>3, <3>4, <4>2, ReleasedFacts
      <4>3. QED
        BY <3>1, <4>1, <4>2
    <3>7. QED
      BY <3>1, <3>2, <3>5, <3>6
  <2>2. CASE ~(WarpsOf(c) \ {w} \subseteq reclaimed)
    <3>1. UNCHANGED <<threads, cta, named, cluster>>
      BY <2>2 DEF register_cta_thread_exit, c
    <3>2. QED
      BY <1>1, <1>4, <3>1 DEF IndInv, TypeOK, SlotsCounted
  <2>3. QED
    BY <2>1, <2>2
<1>7. TypeOK'
  <2>1. \A d \in threads' : cta'[d] # Free
    BY <1>4, <1>6 DEF TypeOK
  <2>2. \A d \in Slots : cta'[d] # Free => /\ cta'[d].g \in DOMAIN kernel'.groups
                                          /\ cta'[d].r \in DOMAIN kernel'.groups[cta'[d].g]
    BY <1>1, <1>4, <1>6 DEF TypeOK
  <2>3. threads' \subseteq Slots /\ reclaimed' \subseteq Warps
    BY <1>4, <1>5, <1>6 DEF TypeOK
  <2>4. QED
    BY <1>1, <1>4, <1>6, <2>1, <2>2, <2>3 DEF TypeOK, ClusterOK
<1>8. \A v \in Warps : NoArrival(v)' <=> NoArrival(v)
  BY <1>1 DEF NoArrival
<1>9. \A v \in Warps : Parked(v)' => Parked(v)
  BY <1>6 DEF Parked
<1>10. SlotsCounted' /\ CountedGone'
  BY <1>1, <1>5, <1>6, <1>8 DEF SlotsCounted, CountedGone
<1>11. ParticipantsLive' /\ ParkedRuns'
  BY <1>1, <1>4, <1>6, <1>8, <1>9 DEF IndInv, ParticipantsLive, ParkedRuns
<1>12. QED
  BY <1>6, <1>7, <1>10, <1>11 DEF IndInv

-----------------------------------------------------------------------------
(* The theorems. *)

\* Every step keeps the inductive invariant.
LEMMA NextInd == IndInv /\ [Next]_vars => IndInv'
<1> SUFFICES ASSUME IndInv, [Next]_vars PROVE IndInv'
  OBVIOUS
<1>1. CASE UNCHANGED vars
  <2>1. UNCHANGED <<kernel, ctaVars, named, named_arrivals, pc, stores, hidden, dsm, cluster>>
    BY <1>1 DEF vars, ctaVars
  <2>2. QED
    BY <2>1, QuietInd DEF IndInv, TypeOK, ClusterOK
<1>2. CASE process_named_arrivals
  BY <1>2, ProcessInd
<1>3. CASE \E c \in Slots : issue_block2core(c) \/ release_pending_tma_ctas(c)
  BY <1>3, IssueBlockInd, ReleasePendingInd
<1>4. ASSUME NEW w \in Warps,
             \/ IssueStore(w) \/ IssueRemoteLoad(w) \/ IssueSync(w) \/ issue_named_arrival(w)
             \/ cluster_barrier_arrive(w) \/ cluster_barrier_wait(w) \/ Exit(w)
             \/ DelayedRelease(w) \/ StoresVisible(w) \/ dsm_on_tx_done(w)
             \/ register_cta_thread_exit(w)
             \/ \E i \in stores[w] : complete_shared_store(w, i)
      PROVE  IndInv'
  BY <1>4, IssueStoreInd, IssueRemoteLoadInd, IssueSyncInd, IssueNamedArrivalInd, ClusterArriveInd,
     ClusterWaitInd, ExitInd, DelayedReleaseInd, CompletionInd, RegisterExitInd
<1>5. QED
  BY <1>1, <1>2, <1>3, <1>4 DEF Next

\* In every reachable state the barrier set, the pending arrivals, the program counters
\* and the counted exits agree, whatever instructions the warps run.
THEOREM Invariance == Spec => []IndInv
<1>1. QED
  BY InitInd, NextInd, PTL DEF Spec

\* A delayed release of bar.sync finds its warp parked and is the only one, so that the
\* assertion of clear_warp_waiting holds and no release frees a warp from its next
\* barrier; a CTA without threads has no warp parked, participating or
\* owed an arrival, so that the assertions of deallocate_barrier hold.
THEOREM ReleasesAreJustified == Spec => []ReleasesJustified
<1>1. IndInv => ReleasesJustified
  <2> SUFFICES ASSUME IndInv PROVE ReleasesJustified
    OBVIOUS
  <2>1. \A w \in Warps : named.releases[w] <= 1 /\ (named.releases[w] = 1 => named.at[w] # NoBar)
    BY DEF IndInv, Justified
  <2>2. \A w \in Warps : w[1] \notin threads => /\ ~Parked(w) /\ w \notin named.active
                                               /\ NoArrival(w)
    BY EmptySlot DEF Warps
  <2>3. QED
    BY <2>1, <2>2 DEF ReleasesJustified, NoArrival
<1>2. QED
  BY <1>1, Invariance, PTL

-----------------------------------------------------------------------------
(* The cluster barrier.  x is a cluster barrier: the one of the state, or the one a step *)
(* has changed before the waiters are looked at.                            *)

\* A CTA was issued in its turn, and no more CTAs than the group has.
IssuedKnown ==
    /\ \A c \in Slots : cta[c] # Free => cta[c].r <= issued[cta[c].g]
    /\ \A g \in DOMAIN kernel.groups : issued[g] <= CtaSize(g)

\* A warp that runs takes part in barriers.
RunsActive == \A w \in Warps : pc[w] > 0 => w \in named.active

\* Only participants have a phase.
PhaseLeft(x) == \A w \in Warps : w \notin named.active => x.phase[w] = NoPhase

\* Waiters run and wait in the group of their CTA.
WaitersHome(x) ==
    \A g \in Groups : \A w \in Range(x.waiters[g]) : pc[w] > 0 /\ cta[w[1]].g = g

\* The arrives and the waits warp w has executed, and the waits it has passed.
ArriveCount(w) == Cardinality(Arrives(w) \cap Executed(w))
WaitCount(w) == Cardinality(Waits(w) \cap Executed(w))
Passed(x, w) == WaitCount(w) - (IF Waiting(x, w) THEN 1 ELSE 0)

\* A warp that runs has completed the phases whose wait it has passed, and arrived in no
\* more than it has executed arrives.
PhaseCounts(x) ==
    \A w \in Warps : pc[w] > 0 =>
        x.phase[w].completed = Passed(x, w) /\ x.phase[w].arrived <= ArriveCount(w)

\* The stores of a warp before its last arrive are visible.
StoresLater ==
    \A w \in Warps : pc[w] > 0 =>
        \A p \in Arrives(w) \cap Executed(w) : \A i \in stores[w] \cup hidden[w] : i > p

\* ClusterSeparates for warp w and its first n waits.
Separated(w, n) ==
    \A k \in 1..n :
        /\ issued[cta[w[1]].g] = CtaSize(cta[w[1]].g)
        /\ \A v \in Warps :
              Running(v) /\ cta[v[1]].g = cta[w[1]].g /\ pc[v] > 0 =>
                  /\ ArriveCount(v) >= k
                  /\ \A i \in stores[v] \cup hidden[v] : i > Kth(Arrives(v), k)

Separates(x) == \A w \in Warps : Running(w) => Separated(w, Passed(x, w))

PhaseInv(x) == PhaseLeft(x) /\ WaitersHome(x) /\ PhaseCounts(x) /\ Separates(x)

ClusterInv == IssuedKnown /\ RunsActive /\ StoresLater /\ PhaseInv(cluster)


\* In y some waiters of x have left: a waiter leaves, and with it completes its phase, only
\* when every CTA of its group is issued and every live warp of the group has arrived in
\* the phase.
OnlyReady(x, y, live, unissued) ==
    /\ \A g \in Groups : Range(y.waiters[g]) \subseteq Range(x.waiters[g])
    /\ \A w \in Warps :
          \/ y.phase[w] = x.phase[w] /\ (Waiting(y, w) <=> Waiting(x, w))
          \/ /\ Waiting(x, w) /\ ~Waiting(y, w)
             /\ y.phase[w] = [arrived |-> x.phase[w].arrived, completed |-> Required(x, w)]
             /\ \E g \in Groups : /\ w \in Range(x.waiters[g]) /\ unissued[g] = 0
                                  /\ \A v \in live[g] : x.phase[v].arrived >= Required(x, w)

\* release_ready_cluster_barriers releases only those.
LEMMA RecheckExact ==
    ASSUME NEW x, ClusterOK(x), NEW live \in [Groups -> SUBSET Warps],
           NEW unissued \in [Groups -> Nat], NEW busy,
           \A g \in Groups : Range(x.waiters[g]) \subseteq live[g],
           NEW y, y = release_ready_cluster_barriers(x, live, unissued, busy)
    PROVE  OnlyReady(x, y, live, unissued)
<1> DEFINE ready == UNION {ReadyWaiters(x, g, live, unissued, busy) : g \in Groups}
           ph == [w \in Warps |->
                      IF w \in ready /\ x.phase[w].arrived >= Required(x, w)
                      THEN [arrived |-> x.phase[w].arrived, completed |-> Required(x, w)]
                      ELSE x.phase[w]]
           ws == [g \in Groups |-> Without(x.waiters[g], ready)]
<1>1. y = [phase |-> ph, waiters |-> ws]
  BY DEF release_ready_cluster_barriers
<1>2. /\ x.phase \in [Warps -> [arrived : Nat, completed : Nat]]
      /\ x.waiters \in [Groups -> Seq(Warps)]
  BY DEF ClusterOK, ClusterBarriers
<1>3. IsFiniteSet(Warps)
  <2>1. IsFiniteSet(1..WarpsPerCta)
    BY NamedBarrierAssumption, FS_Interval
  <2>2. QED
    BY <2>1, NamedBarrierAssumption, FS_Product DEF Warps
<1>4. ASSUME NEW g \in Groups, NEW w \in ReadyWaiters(x, g, live, unissued, busy)
      PROVE  /\ w \in Range(x.waiters[g]) /\ unissued[g] = 0
             /\ \A v \in live[g] : x.phase[v].arrived >= Required(x, w)
  <2> DEFINE here == {v \in live[g] : x.phase[v].arrived >= Required(x, w)}
             first == {v \in live[g] : v[1] = Head(x.waiters[g])[1]}
             L == live[g]
             u == unissued[g]
  <2>1. /\ w \in Range(x.waiters[g])
        /\ Cardinality(here) >= Cardinality(L) + u * Cardinality(first)
    BY DEF ReadyWaiters, Expected
  <2>2. L \subseteq Warps /\ IsFiniteSet(L) /\ u \in Nat /\ here \subseteq L /\ first \subseteq L
    BY <1>3, FS_Subset
  <2>3. Head(x.waiters[g]) \in first
    <3>1. x.waiters[g] \in Seq(Warps) /\ x.waiters[g] # <<>>
      BY <1>2, <2>1 DEF Range
    <3>2. Head(x.waiters[g]) \in Range(x.waiters[g])
      BY <3>1 DEF Range
    <3>3. QED
      BY <3>2
  <2> HIDE DEF here, first, L, u
  <2>4. /\ IsFiniteSet(here) /\ IsFiniteSet(first)
        /\ Cardinality(here) \in Nat /\ Cardinality(first) \in Nat /\ Cardinality(L) \in Nat
        /\ Cardinality(here) <= Cardinality(L)
    BY <2>2, FS_Subset, FS_CardinalityType
  <2>5. Cardinality(first) # 0
    BY <2>3, <2>4, FS_EmptySet
  <2>6. u = 0
    <3>1. u # 0 => u * Cardinality(first) > 0
      BY <2>2, <2>4, <2>5
    <3>2. u * Cardinality(first) \in Nat
      BY <2>2, <2>4
    <3>3. QED
      BY <2>1, <2>4, <3>1, <3>2
  <2>7. Cardinality(here) = Cardinality(L)
    BY <2>1, <2>4, <2>6
  <2>8. here = L
    <3>1. ASSUME here # L PROVE Cardinality(here) < Cardinality(L)
      BY ONLY <2>2, <3>1, FS_Subset, FS_CardinalityType
    <3>2. QED
      BY <2>4, <2>7, <3>1
  <2>9. QED
    BY <2>1, <2>6, <2>8 DEF here, L, u
<1>5. \A g \in Groups : ws[g] \in Seq(Warps) /\ Range(ws[g]) = Range(x.waiters[g]) \ ready
  <2> HIDE DEF ready
  <2>1. QED
    BY <1>2, WithoutFacts
<1>6. \A w \in Warps : Waiting(y, w) <=> Waiting(x, w) /\ w \notin ready
  <2> HIDE DEF ready, ws
  <2>1. QED
    BY <1>1, <1>5 DEF Waiting
<1>7. ASSUME NEW w \in Warps, w \in ready
      PROVE  /\ Waiting(x, w) /\ ~Waiting(y, w)
             /\ y.phase[w] = [arrived |-> x.phase[w].arrived, completed |-> Required(x, w)]
             /\ \E g \in Groups : /\ w \in Range(x.waiters[g]) /\ unissued[g] = 0
                                  /\ \A v \in live[g] : x.phase[v].arrived >= Required(x, w)
  <2>1. PICK g \in Groups : w \in ReadyWaiters(x, g, live, unissued, busy)
    BY <1>7
  <2>2. /\ w \in Range(x.waiters[g]) /\ unissued[g] = 0
        /\ \A v \in live[g] : x.phase[v].arrived >= Required(x, w)
    BY <1>4, <2>1
  <2> HIDE DEF ready
  <2>3. ph[w] = [arrived |-> x.phase[w].arrived, completed |-> Required(x, w)]
    BY <1>7, <2>2
  <2> HIDE DEF ph
  <2>4. Waiting(x, w) /\ ~Waiting(y, w)
    BY <1>6, <1>7, <2>2 DEF Waiting
  <2>5. QED
    BY <1>1, <2>2, <2>3, <2>4
<1>8. ASSUME NEW w \in Warps, w \notin ready
      PROVE  y.phase[w] = x.phase[w] /\ (Waiting(y, w) <=> Waiting(x, w))
  <2> HIDE DEF ready
  <2>1. ph[w] = x.phase[w]
    BY <1>8
  <2> HIDE DEF ph
  <2>2. QED
    BY <1>1, <1>6, <1>8, <2>1
<1> HIDE DEF ready, ws
<1>9. \A g \in Groups : Range(y.waiters[g]) \subseteq Range(x.waiters[g])
  <2>1. y.waiters = ws
    BY <1>1
  <2>2. QED
    BY <1>5, <2>1
<1>10. QED
  BY <1>7, <1>8, <1>9 DEF OnlyReady


\* What the counts of a warp's instructions are made of.
CountFacts ==
    /\ \A v \in Warps : pc[v] > 0 => v[1] \in threads
    /\ \A v \in Warps : v[1] \in threads =>
          /\ cta[v[1]] # Free /\ cta[v[1]].g \in DOMAIN kernel.groups /\ v[1] \in Slots
          /\ IsFiniteSet(Arrives(v)) /\ IsFiniteSet(Waits(v))
          /\ ArriveCount(v) \in Nat /\ WaitCount(v) \in Nat
          /\ DOMAIN Code(v) = 1..Len(Code(v)) /\ Len(Code(v)) \in Nat
    /\ \A v \in Warps : pc[v] > 0 =>
          /\ Executed(v) = 1..(pc[v] - 1)
          /\ \A k \in 1..ArriveCount(v) : Kth(Arrives(v), k) \in Arrives(v) \cap Executed(v)

LEMMA CountsKnown == IndInv => CountFacts
<1> SUFFICES ASSUME IndInv PROVE CountFacts
  OBVIOUS
<1>1. \A v \in Warps : pc[v] > 0 => v[1] \in threads
  BY RunningWarp
<1>2. ASSUME NEW v \in Warps, v[1] \in threads
      PROVE  /\ cta[v[1]] # Free /\ cta[v[1]].g \in DOMAIN kernel.groups /\ v[1] \in Slots
             /\ IsFiniteSet(Arrives(v)) /\ IsFiniteSet(Waits(v))
             /\ ArriveCount(v) \in Nat /\ WaitCount(v) \in Nat
             /\ DOMAIN Code(v) = 1..Len(Code(v)) /\ Len(Code(v)) \in Nat
             /\ Arrives(v) \in SUBSET (1..Len(Code(v)))
  <2>1. cta[v[1]] # Free /\ cta[v[1]].g \in DOMAIN kernel.groups /\ v[1] \in Slots
    BY <1>2 DEF IndInv, TypeOK, Warps
  <2>2. PICK c \in Seq(Instructions) : c = Code(v)
    BY <1>2, CodeType DEF IndInv
  <2>3. DOMAIN Code(v) = 1..Len(Code(v)) /\ Len(Code(v)) \in Nat
    BY <2>2
  <2>4. Arrives(v) \in SUBSET (1..Len(Code(v))) /\ Waits(v) \in SUBSET (1..Len(Code(v)))
    BY <2>3 DEF Arrives, Waits
  <2>5. IsFiniteSet(1..Len(Code(v)))
    BY <2>3, FS_Interval
  <2>6. /\ IsFiniteSet(Arrives(v)) /\ IsFiniteSet(Waits(v))
        /\ IsFiniteSet(Arrives(v) \cap Executed(v)) /\ IsFiniteSet(Waits(v) \cap Executed(v))
    <3>1. /\ Arrives(v) \cap Executed(v) \in SUBSET (1..Len(Code(v)))
          /\ Waits(v) \cap Executed(v) \in SUBSET (1..Len(Code(v)))
      BY <2>4
    <3>2. QED
      BY <2>4, <2>5, <3>1, FS_Subset
  <2>7. ArriveCount(v) \in Nat /\ WaitCount(v) \in Nat
    BY <2>6, FS_CardinalityType DEF ArriveCount, WaitCount
  <2>8. QED
    BY <2>1, <2>3, <2>4, <2>6, <2>7
<1>3. ASSUME NEW v \in Warps, pc[v] > 0
      PROVE  /\ Executed(v) = 1..(pc[v] - 1)
             /\ \A k \in 1..ArriveCount(v) : Kth(Arrives(v), k) \in Arrives(v) \cap Executed(v)
  <2>1. pc[v] \in Nat
    BY DEF IndInv, TypeOK
  <2>2. Executed(v) = 1..(pc[v] - 1)
    BY <1>3, <2>1 DEF Executed
  <2>3. ASSUME NEW k \in 1..ArriveCount(v)
        PROVE  Kth(Arrives(v), k) \in Arrives(v) \cap Executed(v)
    <3>1. PICK S, P, n : S = Arrives(v) /\ P = Executed(v) /\ n = Len(Code(v))
      OBVIOUS
    <3>2. n \in Nat /\ S \in SUBSET (1..n)
      BY <1>1, <1>2, <1>3, <3>1
    <3>3. k \in 1..Cardinality(S \cap P)
      BY <3>1 DEF ArriveCount
    <3>4. \A i \in P : \A j \in S : j <= i => j \in P
      BY <2>1, <2>2, <3>1, <3>2
    <3>5. Kth(S, k) \in S \cap P
      BY ONLY <3>2, <3>3, <3>4, KthBelow
    <3>6. QED
      BY <3>1, <3>5
  <2>4. QED
    BY <2>2, <2>3
<1>4. QED
  BY <1>1, <1>2, <1>3 DEF CountFacts

\* Looking at the waiters of x keeps the invariant.
LEMMA Recheck ==
    ASSUME NEW x, ClusterOK(x), IndInv', IssuedKnown', RunsActive', StoresLater', PhaseInv(x)',
           NEW live \in [Groups -> SUBSET Warps], NEW busy,
           \A g \in Groups : \A v \in Warps :
               v \in live[g] <=> v \in named'.active /\ v[1] \in threads' /\ cta'[v[1]].g = g,
           cluster' = release_ready_cluster_barriers(x, live, Unissued', busy)
    PROVE  PhaseInv(cluster)'
<1>1. CountFacts'
  BY CountsKnown, PTL
<1>2. PICK y, u : y = cluster' /\ u = Unissued'
  OBVIOUS
<1>3. /\ \A g \in DOMAIN kernel'.groups : /\ issued'[g] \in Nat /\ CtaSize(g)' \in Nat /\ g \in Groups
                                          /\ issued'[g] <= CtaSize(g)'
                                          /\ kernel'.clustered \/ CtaSize(g)' = 1
      /\ kernel'.clustered \in BOOLEAN
  <2>1. kernel' \in Kernels /\ issued' \in [Groups -> Nat]
    BY DEF IndInv, TypeOK
  <2>2. PICK gs \in Seq(Seq([1..WarpsPerCta -> Seq(Instructions)])) : gs = kernel'.groups
    BY <2>1, KernelsAssumption
  <2>3. DOMAIN gs \subseteq Groups /\ kernel'.clustered \in BOOLEAN
        /\ \A g \in DOMAIN gs : kernel'.clustered \/ Len(gs[g]) = 1
    BY <2>1, <2>2, KernelsAssumption
  <2> DEFINE P == [1..WarpsPerCta -> Seq(Instructions)]
  <2> HIDE DEF P
  <2>4. \A g \in DOMAIN gs : Len(gs[g]) \in Nat
    <3>1. gs \in Seq(Seq(P))
      BY <2>2 DEF P
    <3>2. QED
      BY ONLY <3>1
  <2>5. \A g \in DOMAIN kernel'.groups : CtaSize(g)' = Len(gs[g])
    BY <2>2 DEF CtaSize
  <2>6. \A g \in DOMAIN kernel'.groups : issued'[g] <= CtaSize(g)'
    BY DEF IssuedKnown
  <2>7. ASSUME NEW g \in DOMAIN kernel'.groups
        PROVE  /\ issued'[g] \in Nat /\ CtaSize(g)' \in Nat /\ g \in Groups
               /\ kernel'.clustered \/ CtaSize(g)' = 1
    <3>1. g \in DOMAIN gs
      BY <2>2
    <3>2. CtaSize(g)' = Len(gs[g])
      BY <2>5
    <3>3. issued'[g] \in Nat /\ CtaSize(g)' \in Nat /\ g \in Groups
      BY <2>1, <2>3, <2>4, <3>1, <3>2
    <3>4. kernel'.clustered \/ CtaSize(g)' = 1
      BY <2>3, <3>1, <3>2, Zenon
    <3>5. QED
      BY <3>3, <3>4
  <2>8. QED
    BY <2>3, <2>6, <2>7
<1>4. u \in [Groups -> Nat]
  <2>1. ASSUME NEW g \in Groups PROVE u[g] \in Nat
    <3>1. u[g] = IF kernel'.clustered /\ g \in DOMAIN kernel'.groups THEN CtaSize(g)' - issued'[g] ELSE 0
      BY <1>2 DEF Unissued
    <3>2. QED
      BY <1>3, <3>1
  <2>2. u = [g \in Groups |-> u[g]]
    BY <1>2 DEF Unissued
  <2>3. QED
    BY <2>1, <2>2
<1>5. \A g \in Groups : \A w \in Range(x.waiters[g]) :
          w \in Warps /\ w \in live[g] /\ pc'[w] > 0 /\ cta'[w[1]].g = g /\ w[1] \in threads'
                      /\ w \in named'.active
  <2> SUFFICES ASSUME NEW g \in Groups, NEW w \in Range(x.waiters[g])
               PROVE  w \in Warps /\ w \in live[g] /\ pc'[w] > 0 /\ cta'[w[1]].g = g
                      /\ w[1] \in threads' /\ w \in named'.active
    OBVIOUS
  <2>1. w \in Warps
    BY DEF ClusterOK, ClusterBarriers, Range
  <2>2. pc'[w] > 0 /\ cta'[w[1]].g = g
    BY DEF PhaseInv, WaitersHome
  <2>3. w \in named'.active /\ w[1] \in threads'
    BY <1>1, <2>1, <2>2 DEF RunsActive, CountFacts
  <2>4. QED
    BY <2>1, <2>2, <2>3
<1>6. /\ \A g \in Groups : Range(y.waiters[g]) \subseteq Range(x.waiters[g])
      /\ \A w \in Warps :
            \/ y.phase[w] = x.phase[w] /\ (Waiting(y, w) <=> Waiting(x, w))
            \/ /\ Waiting(x, w) /\ ~Waiting(y, w)
               /\ y.phase[w] = [arrived |-> x.phase[w].arrived, completed |-> Required(x, w)]
               /\ \E g \in Groups : /\ w \in Range(x.waiters[g]) /\ u[g] = 0
                                    /\ \A v \in live[g] : x.phase[v].arrived >= Required(x, w)
  <2>1. y = release_ready_cluster_barriers(x, live, u, busy)
    BY <1>2
  <2>2. \A g \in Groups : Range(x.waiters[g]) \subseteq live[g]
    BY <1>5
  <2>3. OnlyReady(x, y, live, u)
    BY ONLY <1>4, <2>1, <2>2, RecheckExact, ClusterOK(x), live \in [Groups -> SUBSET Warps]
  <2>4. QED
    BY <2>3 DEF OnlyReady
<1>7. \A w \in Warps : Waiting(x, w) => pc'[w] > 0 /\ w[1] \in threads' /\ w \in named'.active
  BY <1>5 DEF Waiting
<1>8. \A w \in Warps : x.phase[w].arrived \in Nat /\ x.phase[w].completed \in Nat
  BY DEF ClusterOK, ClusterBarriers
<1>9. PhaseLeft(y)'
  BY <1>6, <1>7 DEF PhaseInv, PhaseLeft
<1>10. WaitersHome(y)'
  BY <1>6 DEF PhaseInv, WaitersHome
<1>11. ASSUME NEW w \in Warps, Waiting(x, w), ~Waiting(y, w)
       PROVE  Passed(y, w)' = Required(x, w)
  <2>1. x.phase[w].completed = Passed(x, w)'
    BY <1>7, <1>11 DEF PhaseInv, PhaseCounts
  <2>2. Passed(x, w)' = WaitCount(w)' - 1 /\ Passed(y, w)' = WaitCount(w)' - 0
    BY <1>11 DEF Passed
  <2>3. WaitCount(w)' \in Nat
    BY <1>1, <1>7, <1>11 DEF CountFacts
  <2>4. QED
    BY <2>1, <2>2, <2>3 DEF Required
<1>12. PhaseCounts(y)'
  <2> SUFFICES ASSUME NEW w \in Warps, pc'[w] > 0
               PROVE  y.phase[w].completed = Passed(y, w)' /\ y.phase[w].arrived <= ArriveCount(w)'
    BY DEF PhaseCounts
  <2>1. x.phase[w].completed = Passed(x, w)' /\ x.phase[w].arrived <= ArriveCount(w)'
    BY DEF PhaseInv, PhaseCounts
  <2>2. CASE y.phase[w] = x.phase[w] /\ (Waiting(y, w) <=> Waiting(x, w))
    BY <2>1, <2>2 DEF Passed
  <2>3. CASE /\ Waiting(x, w) /\ ~Waiting(y, w)
             /\ y.phase[w] = [arrived |-> x.phase[w].arrived, completed |-> Required(x, w)]
    BY <1>11, <2>1, <2>3
  <2>4. QED
    BY <1>6, <2>2, <2>3
<1>13. Separates(y)'
  <2> SUFFICES ASSUME NEW w \in Warps, Running(w)' PROVE Separated(w, Passed(y, w))'
    BY DEF Separates
  <2>1. CASE Waiting(y, w) <=> Waiting(x, w)
    <3>1. Passed(y, w)' = Passed(x, w)'
      BY <2>1 DEF Passed
    <3>2. Separated(w, Passed(x, w))'
      BY DEF PhaseInv, Separates
    <3>3. QED
      BY <3>1, <3>2 DEF Separated
  <2>2. CASE /\ Waiting(x, w) /\ ~Waiting(y, w)
             /\ \E g \in Groups : /\ w \in Range(x.waiters[g]) /\ u[g] = 0
                                  /\ \A v \in live[g] : x.phase[v].arrived >= Required(x, w)
    <3>1. PICK g \in Groups : /\ w \in Range(x.waiters[g]) /\ u[g] = 0
                              /\ \A v \in live[g] : x.phase[v].arrived >= Required(x, w)
      BY <2>2
    <3>2. cta'[w[1]].g = g /\ w[1] \in threads'
      BY <1>5, <3>1
    <3>3. cta'[w[1]] # Free /\ g \in DOMAIN kernel'.groups /\ w[1] \in Slots
      BY <1>1, <3>2 DEF CountFacts
    <3>4. issued'[g] = CtaSize(g)'
      <4>1. CASE kernel'.clustered
        <5>1. u[g] = CtaSize(g)' - issued'[g]
          BY <1>2, <3>3, <4>1 DEF Unissued
        <5>2. QED
          BY <1>3, <3>1, <3>3, <5>1
      <4>2. CASE ~kernel'.clustered
        <5>1. cta'[w[1]].r \in DOMAIN kernel'.groups[g] /\ cta'[w[1]].r <= issued'[g]
          BY <3>2, <3>3 DEF IndInv, TypeOK, IssuedKnown
        <5>2. kernel'.groups \in Seq(Seq([1..WarpsPerCta -> Seq(Instructions)]))
          BY KernelsAssumption DEF IndInv, TypeOK
        <5> DEFINE P == [1..WarpsPerCta -> Seq(Instructions)]
        <5> HIDE DEF P
        <5>3. ASSUME NEW gs \in Seq(Seq(P)), NEW h \in DOMAIN gs PROVE DOMAIN gs[h] = 1..Len(gs[h])
          OBVIOUS
        <5>4. cta'[w[1]].r \in 1..CtaSize(g)'
          BY <3>3, <5>1, <5>2, <5>3 DEF CtaSize, P
        <5>5. QED
          BY <1>3, <3>3, <4>2, <5>1, <5>4
      <4>3. QED
        BY <4>1, <4>2
    <3>5. Passed(y, w)' = Required(x, w) /\ Required(x, w) \in Nat
      BY <1>8, <1>11, <2>2 DEF Required
    <3>6. ASSUME NEW k \in 1..Required(x, w), NEW v \in Warps, Running(v)', cta'[v[1]].g = g, pc'[v] > 0
          PROVE  ArriveCount(v)' >= k /\ \A i \in stores'[v] \cup hidden'[v] : i > Kth(Arrives(v)', k)
      <4>1. v[1] \in threads' /\ v \in named'.active
        BY <1>1, <3>6 DEF CountFacts, RunsActive
      <4>2. x.phase[v].arrived >= Required(x, w)
        BY <3>1, <3>6, <4>1
      <4>3. x.phase[v].arrived <= ArriveCount(v)'
        BY <3>6 DEF PhaseInv, PhaseCounts
      <4>4. ArriveCount(v)' \in Nat /\ ArriveCount(v)' >= k /\ k \in 1..ArriveCount(v)'
        <5>1. ArriveCount(v)' \in Nat
          BY <1>1, <4>1 DEF CountFacts
        <5>2. QED
          BY <1>8, <3>5, <4>2, <4>3, <5>1
      <4>5. Kth(Arrives(v)', k) \in Arrives(v)' \cap Executed(v)'
        BY <1>1, <3>6, <4>4 DEF CountFacts
      <4>6. QED
        BY <3>6, <4>4, <4>5 DEF StoresLater
    <3>7. QED
      BY <3>2, <3>4, <3>5, <3>6 DEF Separated
  <2>3. QED
    BY <1>6, <2>1, <2>2
<1>14. QED
  BY <1>2, <1>9, <1>10, <1>12, <1>13 DEF PhaseInv


\* Warp v runs on: only what it issues now is added to its stores.
RunsOn(v) ==
    /\ Running(v) /\ cta'[v[1]] = cta[v[1]] /\ pc[v] > 0 /\ pc'[v] >= pc[v]
    /\ stores'[v] \cup hidden'[v] \subseteq stores[v] \cup hidden[v] \cup {pc[v]}

\* What a warp has counted stays as it is when it does not move.
LEMMA SameCounts ==
    ASSUME NEW v \in Warps, kernel' = kernel, cta'[v[1]] = cta[v[1]], pc'[v] = pc[v]
    PROVE  /\ Code(v)' = Code(v) /\ Arrives(v)' = Arrives(v) /\ Waits(v)' = Waits(v)
           /\ Executed(v)' = Executed(v)
           /\ ArriveCount(v)' = ArriveCount(v) /\ WaitCount(v)' = WaitCount(v)
<1>1. Code(v)' = Code(v)
  BY DEF Code
<1>2. Arrives(v)' = Arrives(v) /\ Waits(v)' = Waits(v) /\ Executed(v)' = Executed(v)
  BY <1>1 DEF Arrives, Waits, Executed
<1>3. QED
  BY <1>1, <1>2 DEF ArriveCount, WaitCount

\* What a warp that runs on has executed, it has executed later.
LEMMA RunsOnFacts ==
    ASSUME IndInv, kernel' = kernel, NEW v \in Warps, pc'[v] \in Nat, RunsOn(v)
    PROVE  /\ Arrives(v)' = Arrives(v) /\ ArriveCount(v)' >= ArriveCount(v)
           /\ ArriveCount(v) \in Nat /\ ArriveCount(v)' \in Nat
<1>1. CountFacts
  BY CountsKnown
<1>2. v[1] \in threads /\ pc[v] > 0 /\ pc[v] \in Nat /\ pc'[v] >= pc[v] /\ pc'[v] > 0
  BY DEF RunsOn, Running, IndInv, TypeOK
<1>3. Arrives(v)' = Arrives(v)
  BY DEF Arrives, Code, RunsOn
<1>4. Executed(v) = 1..(pc[v] - 1) /\ Executed(v)' = 1..(pc'[v] - 1)
  BY <1>2 DEF Executed
<1>5. Executed(v) \subseteq Executed(v)'
  BY <1>2, <1>4
<1>6. PICK A, B, C : A = Arrives(v) /\ B = Arrives(v) \cap Executed(v) /\ C = Arrives(v) \cap Executed(v)'
  OBVIOUS
<1>7. IsFiniteSet(A) /\ B \in SUBSET C /\ C \in SUBSET A
  BY <1>1, <1>2, <1>5, <1>6 DEF CountFacts
<1>8. /\ IsFiniteSet(C) /\ Cardinality(B) <= Cardinality(C)
      /\ Cardinality(B) \in Nat /\ Cardinality(C) \in Nat
  BY ONLY <1>7, FS_Subset, FS_CardinalityType
<1>9. ArriveCount(v) = Cardinality(B) /\ ArriveCount(v)' = Cardinality(C)
  BY <1>3, <1>6 DEF ArriveCount
<1>10. QED
  BY <1>3, <1>8, <1>9

\* A step in which no warp passes a wait keeps the waits passed before apart.
LEMMA SeparatesCarried ==
    ASSUME IndInv, IndInv', Separates(cluster), kernel' = kernel, NEW x,
           \A g \in DOMAIN kernel.groups : issued[g] = CtaSize(g) => issued'[g] = issued[g],
           \A w \in Warps : Running(w)' =>
               \/ Passed(x, w)' <= 0
               \/ Running(w) /\ cta'[w[1]] = cta[w[1]] /\ Passed(x, w)' <= Passed(cluster, w),
           \A v \in Warps : Running(v)' /\ pc'[v] > 0 =>
               issued[cta'[v[1]].g] # CtaSize(cta'[v[1]].g) \/ RunsOn(v)
    PROVE  Separates(x)'
<1>1. CountFacts
  BY CountsKnown
<1>2. CountFacts'
  BY CountsKnown, PTL
<1>3. SUFFICES ASSUME NEW w \in Warps, Running(w)', NEW k \in 1..(Passed(x, w)')
               PROVE  /\ issued'[cta'[w[1]].g] = CtaSize(cta[w[1]].g)'
                      /\ \A v \in Warps :
                            Running(v)' /\ cta'[v[1]].g = cta'[w[1]].g /\ pc'[v] > 0 =>
                                /\ ArriveCount(v)' >= k
                                /\ \A i \in stores'[v] \cup hidden'[v] : i > Kth(Arrives(v)', k)
  BY DEF Separates, Separated
<1>4. w[1] \in threads' /\ WaitCount(w)' \in Nat
  BY <1>2, <1>3 DEF CountFacts, Running
<1>5. Passed(x, w)' \in Int
  BY <1>4 DEF Passed
<1>6. k \in Nat /\ k > 0 /\ k <= Passed(x, w)'
  BY <1>5
<1>7. Running(w) /\ cta'[w[1]] = cta[w[1]] /\ Passed(x, w)' <= Passed(cluster, w)
  BY <1>3, <1>5, <1>6
<1>8. w[1] \in threads /\ WaitCount(w) \in Nat /\ cta[w[1]].g \in DOMAIN kernel.groups
  BY <1>1, <1>7 DEF CountFacts, Running
<1>9. Passed(cluster, w) \in Int
  BY <1>8 DEF Passed
<1>10. k \in 1..Passed(cluster, w)
  BY <1>5, <1>6, <1>7, <1>9
<1>11. /\ issued[cta[w[1]].g] = CtaSize(cta[w[1]].g)
       /\ \A v \in Warps :
             Running(v) /\ cta[v[1]].g = cta[w[1]].g /\ pc[v] > 0 =>
                 /\ ArriveCount(v) >= k
                 /\ \A i \in stores[v] \cup hidden[v] : i > Kth(Arrives(v), k)
  BY <1>7, <1>10 DEF Separates, Separated
<1>12. issued'[cta'[w[1]].g] = CtaSize(cta[w[1]].g)'
  <2>1. issued'[cta[w[1]].g] = CtaSize(cta[w[1]].g)
    BY <1>8, <1>11
  <2>2. cta'[w[1]] = cta[w[1]]
    BY <1>7
  <2>3. CtaSize(cta[w[1]].g)' = Len(kernel.groups[cta[w[1]].g])
    BY <2>2 DEF CtaSize
  <2>4. QED
    BY <2>1, <2>2, <2>3 DEF CtaSize
<1>13. ASSUME NEW v \in Warps, Running(v)', cta'[v[1]].g = cta'[w[1]].g, pc'[v] > 0
       PROVE  ArriveCount(v)' >= k /\ \A i \in stores'[v] \cup hidden'[v] : i > Kth(Arrives(v)', k)
  <2>1. RunsOn(v)
    <3>1. cta'[v[1]].g = cta[w[1]].g
      BY <1>7, <1>13
    <3>2. issued[cta'[v[1]].g] = CtaSize(cta'[v[1]].g)
      BY <1>11, <3>1
    <3>3. QED
      BY <1>13, <3>2
  <2>2. /\ Arrives(v)' = Arrives(v) /\ ArriveCount(v)' >= ArriveCount(v)
        /\ ArriveCount(v) \in Nat /\ ArriveCount(v)' \in Nat /\ pc[v] \in Nat /\ pc[v] > 0
    <3>1. pc'[v] \in Nat /\ pc[v] \in Nat
      BY DEF IndInv, TypeOK
    <3>2. pc[v] > 0
      BY <2>1 DEF RunsOn
    <3>3. QED
      BY <2>1, <3>1, <3>2, RunsOnFacts
  <2>3. /\ ArriveCount(v) >= k
        /\ \A i \in stores[v] \cup hidden[v] : i > Kth(Arrives(v), k)
    BY <1>7, <1>11, <1>13, <2>1 DEF RunsOn
  <2>4. pc[v] > Kth(Arrives(v), k)
    <3>1. k \in 1..ArriveCount(v)
      BY <1>6, <2>2, <2>3
    <3>2. Kth(Arrives(v), k) \in 1..(pc[v] - 1)
      BY <1>1, <2>2, <3>1 DEF CountFacts
    <3>3. QED
      BY <2>2, <3>2
  <2>5. ArriveCount(v)' >= k
    BY <1>6, <2>2, <2>3
  <2>6. ASSUME NEW i \in stores'[v] \cup hidden'[v] PROVE i > Kth(Arrives(v)', k)
    BY <2>1, <2>2, <2>3, <2>4 DEF RunsOn
  <2>7. QED
    BY <2>5, <2>6
<1>14. QED
  BY <1>12, <1>13


\* The parts of a step that leaves warps other than w where they are.
OthersStay(w, x) ==
    \A v \in Warps \ {w} :
        /\ pc'[v] = pc[v] /\ x.phase[v] = cluster.phase[v] /\ (Waiting(x, v) <=> Waiting(cluster, v))
        /\ v \in named'.active <=> v \in named.active
        /\ stores'[v] \cup hidden'[v] \subseteq stores[v] \cup hidden[v]

\* What warp w itself did: left, or ran on without passing a wait.
OneMoves(w, x) ==
    /\ w \notin named'.active => x.phase[w] = NoPhase
    /\ pc'[w] > 0 =>
          /\ w \in named'.active
          /\ pc[w] > 0 /\ pc'[w] >= pc[w]
          /\ stores'[w] \cup hidden'[w] \subseteq stores[w] \cup hidden[w] \cup {pc[w]}
          /\ \A p \in Arrives(w)' \cap Executed(w)' : \A i \in stores'[w] \cup hidden'[w] : i > p
          /\ x.phase[w].completed = Passed(x, w)' /\ x.phase[w].arrived <= ArriveCount(w)'
    /\ Running(w)' => Passed(x, w)' <= Passed(cluster, w)
    /\ \A g \in Groups : \A v \in Range(x.waiters[g]) :
          v \in Range(cluster.waiters[g]) \/ (v = w /\ cta[w[1]].g = g)
    /\ pc'[w] = 0 => ~Waiting(x, w)

\* Any step but the issue of a CTA keeps the invariant up to where the waiters are looked
\* at.
LEMMA StepPhase ==
    ASSUME IndInv, IndInv', ClusterInv, NEW w \in Warps, NEW x, ClusterOK(x),
           UNCHANGED <<kernel, issued>>, threads' \subseteq threads,
           \A c \in Slots : cta'[c] # Free => cta'[c] = cta[c],
           OthersStay(w, x), OneMoves(w, x)
    PROVE  IssuedKnown' /\ RunsActive' /\ StoresLater' /\ PhaseInv(x)'
<1>1. CountFacts
  BY CountsKnown
<1>2. CountFacts'
  BY CountsKnown, PTL
<1>3. \A v \in Warps : v[1] \in threads' => /\ v[1] \in threads /\ cta'[v[1]] # Free
                                            /\ cta'[v[1]] = cta[v[1]]
  BY <1>2 DEF CountFacts
<1>4. \A v \in Warps : pc'[v] > 0 => v[1] \in threads' /\ v[1] \in threads /\ cta'[v[1]] = cta[v[1]]
  BY <1>2, <1>3 DEF CountFacts
<1>5. \A v \in Warps : pc[v] \in Nat /\ pc'[v] \in Nat
  BY DEF IndInv, TypeOK
<1>6. \A v \in Warps : Running(v)' => Running(v) /\ cta'[v[1]] = cta[v[1]]
  BY <1>3 DEF Running
<1>7. ASSUME NEW v \in Warps \ {w}, Running(v)'
      PROVE  /\ Passed(x, v)' = Passed(cluster, v) /\ Arrives(v)' = Arrives(v)
             /\ Executed(v)' = Executed(v) /\ ArriveCount(v)' = ArriveCount(v)
  <2>1. cta'[v[1]] = cta[v[1]] /\ pc'[v] = pc[v] /\ kernel' = kernel
    BY <1>6, <1>7 DEF OthersStay
  <2>2. /\ Arrives(v)' = Arrives(v) /\ Executed(v)' = Executed(v)
        /\ ArriveCount(v)' = ArriveCount(v) /\ WaitCount(v)' = WaitCount(v)
    BY <2>1, SameCounts
  <2>3. Waiting(x, v) <=> Waiting(cluster, v)
    BY DEF OthersStay
  <2>4. QED
    BY <2>2, <2>3 DEF Passed
<1>8. \A v \in Warps : pc'[v] > 0 => Running(v)'
  BY <1>2 DEF CountFacts, Running
<1>9. IssuedKnown'
  <2>1. \A c \in Slots : cta'[c] # Free => cta'[c].r <= issued'[cta'[c].g]
    BY DEF ClusterInv, IssuedKnown
  <2>2. \A g \in DOMAIN kernel'.groups : issued'[g] <= CtaSize(g)'
    BY DEF ClusterInv, IssuedKnown, CtaSize
  <2>3. QED
    BY <2>1, <2>2 DEF IssuedKnown
<1>10. RunsActive'
  BY DEF ClusterInv, RunsActive, OthersStay, OneMoves
<1>11. StoresLater'
  <2> SUFFICES ASSUME NEW v \in Warps, pc'[v] > 0
               PROVE  \A p \in Arrives(v)' \cap Executed(v)' : \A i \in stores'[v] \cup hidden'[v] : i > p
    BY DEF StoresLater
  <2>1. CASE v = w
    BY <2>1 DEF OneMoves
  <2>2. CASE v # w
    <3>1. Arrives(v)' = Arrives(v) /\ Executed(v)' = Executed(v) /\ pc[v] > 0
      BY <1>7, <1>8, <2>2 DEF OthersStay
    <3>2. stores'[v] \cup hidden'[v] \subseteq stores[v] \cup hidden[v]
      BY <2>2 DEF OthersStay
    <3>3. QED
      BY <3>1, <3>2 DEF ClusterInv, StoresLater
  <2>3. QED
    BY <2>1, <2>2
<1>12. PhaseLeft(x)'
  BY DEF ClusterInv, PhaseInv, PhaseLeft, OthersStay, OneMoves
<1>13. WaitersHome(x)'
  <2> SUFFICES ASSUME NEW g \in Groups, NEW v \in Range(x.waiters[g])
               PROVE  pc'[v] > 0 /\ cta'[v[1]].g = g
    BY DEF WaitersHome
  <2>1. v \in Warps /\ Waiting(x, v)
    BY DEF ClusterOK, ClusterBarriers, Range, Waiting
  <2>2. v \in Range(cluster.waiters[g]) \/ (v = w /\ cta[w[1]].g = g)
    BY DEF OneMoves
  <2>3. cta[v[1]].g = g
    BY <2>2 DEF ClusterInv, PhaseInv, WaitersHome
  <2>4. pc'[v] > 0
    <3>1. CASE v = w
      BY <1>5, <2>1, <3>1 DEF OneMoves
    <3>2. CASE v # w
      BY <2>1, <2>2, <3>2 DEF ClusterInv, PhaseInv, WaitersHome, OthersStay
    <3>3. QED
      BY <3>1, <3>2
  <2>5. QED
    BY <1>4, <2>1, <2>3, <2>4
<1>14. PhaseCounts(x)'
  <2> SUFFICES ASSUME NEW v \in Warps, pc'[v] > 0
               PROVE  x.phase[v].completed = Passed(x, v)' /\ x.phase[v].arrived <= ArriveCount(v)'
    BY DEF PhaseCounts
  <2>1. CASE v = w
    BY <2>1 DEF OneMoves
  <2>2. CASE v # w
    BY <1>7, <1>8, <2>2 DEF ClusterInv, PhaseInv, PhaseCounts, OthersStay
  <2>3. QED
    BY <2>1, <2>2
<1>15. Separates(x)'
  <2>1. \A v \in Warps : Running(v)' =>
            Running(v) /\ cta'[v[1]] = cta[v[1]] /\ Passed(x, v)' <= Passed(cluster, v)
    <3> SUFFICES ASSUME NEW v \in Warps, Running(v)' PROVE Passed(x, v)' <= Passed(cluster, v)
      BY <1>6
    <3>1. CASE v = w
      BY <3>1 DEF OneMoves
    <3>2. CASE v # w
      <4>1. Passed(x, v)' = Passed(cluster, v)
        BY <1>7, <3>2
      <4>2. Passed(cluster, v) \in Int
        BY <1>1, <1>6 DEF CountFacts, Running, Passed
      <4>3. QED
        BY <4>1, <4>2
    <3>3. QED
      BY <3>1, <3>2
  <2>2. ASSUME NEW v \in Warps, Running(v)', pc'[v] > 0 PROVE RunsOn(v)
    <3>1. CASE v = w
      BY <1>6, <2>2, <3>1 DEF OneMoves, RunsOn
    <3>2. CASE v # w
      BY <1>5, <1>6, <2>2, <3>2 DEF OthersStay, RunsOn
    <3>3. QED
      BY <3>1, <3>2
  <2>3. \A g \in DOMAIN kernel.groups : issued[g] = CtaSize(g) => issued'[g] = issued[g]
    OBVIOUS
  <2>4. Separates(cluster) /\ kernel' = kernel
    BY DEF ClusterInv, PhaseInv
  <2>5. QED
    BY <2>1, <2>2, <2>3, <2>4, SeparatesCarried
<1>16. QED
  BY <1>9, <1>10, <1>11, <1>12, <1>13, <1>14, <1>15 DEF PhaseInv


\* A warp that issues an instruction has executed one position more.
LEMMA IssuesCounts ==
    ASSUME IndInv, NEW w \in Warps, NEW kinds, Issues(w, kinds), UNCHANGED <<kernel, cta>>
    PROVE  /\ pc[w] \in Nat /\ pc[w] > 0 /\ pc'[w] = pc[w] + 1 /\ w[1] \in threads
           /\ \A v \in Warps \ {w} : pc'[v] = pc[v]
           /\ ArriveCount(w) \in Nat /\ WaitCount(w) \in Nat
           /\ \A i \in Executed(w) : i < pc[w]
           /\ Arrives(w)' \cap Executed(w)' =
                (Arrives(w) \cap Executed(w)) \cup (IF Code(w)[pc[w]].op = "carrive" THEN {pc[w]} ELSE {})
           /\ ArriveCount(w)' = ArriveCount(w) + (IF Code(w)[pc[w]].op = "carrive" THEN 1 ELSE 0)
           /\ WaitCount(w)' = WaitCount(w) + (IF Code(w)[pc[w]].op = "cwait" THEN 1 ELSE 0)
<1> DEFINE p == pc[w]
<1>1. CountFacts
  BY CountsKnown
<1>2. /\ pc \in [Warps -> Nat] /\ p \in Nat /\ p > 0 /\ p <= Len(Code(w))
      /\ pc' = [pc EXCEPT ![w] = @ + 1]
  BY DEF Issues, IndInv, TypeOK
<1>3. pc'[w] = p + 1 /\ \A v \in Warps \ {w} : pc'[v] = pc[v]
  BY <1>2
<1>4. /\ w[1] \in threads /\ DOMAIN Code(w) = 1..Len(Code(w)) /\ Len(Code(w)) \in Nat
      /\ ArriveCount(w) \in Nat /\ WaitCount(w) \in Nat
      /\ IsFiniteSet(Arrives(w)) /\ IsFiniteSet(Waits(w))
  BY <1>1, <1>2 DEF CountFacts
<1> HIDE DEF p
<1>5. Executed(w) = 1..(p - 1) /\ Executed(w)' = 1..((p + 1) - 1)
  <2>1. pc'[w] # 0 /\ pc[w] # 0
    BY <1>2, <1>3 DEF p
  <2>2. QED
    BY <1>3, <2>1 DEF Executed, p
<1>6. Executed(w)' = Executed(w) \cup {p} /\ p \notin Executed(w) /\ \A i \in Executed(w) : i < p
  BY <1>2, <1>5
<1>7. Code(w)' = Code(w)
  BY DEF Code
<1>8. Arrives(w)' = Arrives(w) /\ Waits(w)' = Waits(w)
  BY <1>7 DEF Arrives, Waits
<1>9. p \in DOMAIN Code(w)
  BY <1>2, <1>4
<1>10. (p \in Arrives(w) <=> Code(w)[p].op = "carrive") /\ (p \in Waits(w) <=> Code(w)[p].op = "cwait")
  BY <1>9 DEF Arrives, Waits
<1>11. ASSUME NEW A, NEW E, IsFiniteSet(A), p \notin E
       PROVE  Cardinality(A \cap (E \cup {p})) = Cardinality(A \cap E) + (IF p \in A THEN 1 ELSE 0)
  <2>1. IsFiniteSet(A \cap E) /\ Cardinality(A \cap E) \in Nat
    BY <1>11, FS_Subset, FS_CardinalityType
  <2>2. CASE p \in A
    <3>1. A \cap (E \cup {p}) = (A \cap E) \cup {p} /\ p \notin A \cap E
      BY <1>11, <2>2
    <3>2. QED
      BY <2>1, <2>2, <3>1, FS_AddElement
  <2>3. CASE p \notin A
    <3>1. A \cap (E \cup {p}) = A \cap E
      BY <2>3
    <3>2. QED
      BY <2>1, <2>3, <3>1
  <2>4. QED
    BY <2>2, <2>3
<1>12. ArriveCount(w)' = ArriveCount(w) + (IF Code(w)[p].op = "carrive" THEN 1 ELSE 0)
  <2>1. ArriveCount(w)' = Cardinality(Arrives(w) \cap (Executed(w) \cup {p}))
    BY <1>6, <1>8 DEF ArriveCount
  <2>2. QED
    BY <1>4, <1>6, <1>10, <1>11, <2>1 DEF ArriveCount
<1>13. WaitCount(w)' = WaitCount(w) + (IF Code(w)[p].op = "cwait" THEN 1 ELSE 0)
  <2>1. WaitCount(w)' = Cardinality(Waits(w) \cap (Executed(w) \cup {p}))
    BY <1>6, <1>8 DEF WaitCount
  <2>2. QED
    BY <1>4, <1>6, <1>10, <1>11, <2>1 DEF WaitCount
<1>14. Arrives(w)' \cap Executed(w)' =
           (Arrives(w) \cap Executed(w)) \cup (IF Code(w)[p].op = "carrive" THEN {p} ELSE {})
  BY <1>6, <1>8, <1>10
<1>15. QED
  BY <1>2, <1>3, <1>4, <1>6, <1>12, <1>13, <1>14 DEF p

\* A warp that runs and is not parked has completed as many phases as it has passed waits.
LEMMA Unparked ==
    ASSUME IndInv, ClusterInv, NEW w \in Warps, pc[w] > 0, ~Parked(w)
    PROVE  /\ ~Waiting(cluster, w) /\ Passed(cluster, w) = WaitCount(w) /\ WaitCount(w) \in Nat
           /\ cluster.phase[w].completed = WaitCount(w)
           /\ cluster.phase[w].arrived <= ArriveCount(w) /\ ArriveCount(w) \in Nat
           /\ cluster.phase[w].arrived \in {WaitCount(w), WaitCount(w) + 1}
           /\ w \in named.active
<1>1. CountFacts
  BY CountsKnown
<1>2. ~Waiting(cluster, w)
  BY DEF Parked
<1>3. WaitCount(w) \in Nat /\ ArriveCount(w) \in Nat
  BY <1>1 DEF CountFacts
<1>4. Passed(cluster, w) = WaitCount(w)
  BY <1>2, <1>3 DEF Passed
<1>5. cluster.phase[w].completed = WaitCount(w) /\ cluster.phase[w].arrived <= ArriveCount(w)
  BY <1>4 DEF ClusterInv, PhaseInv, PhaseCounts
<1>6. cluster.phase[w].arrived \in {WaitCount(w), WaitCount(w) + 1}
  BY <1>5 DEF IndInv, TypeOK
<1>7. QED
  BY <1>2, <1>3, <1>4, <1>5, <1>6 DEF ClusterInv, RunsActive

\* An instruction that is none of the cluster barrier's.
LEMMA QuietIssue ==
    ASSUME IndInv, IndInv', ClusterInv, NEW w \in Warps, NEW kinds, Issues(w, kinds),
           kinds \cap {"carrive", "cwait"} = {},
           UNCHANGED <<kernel, ctaVars, hidden, cluster>>, named'.active = named.active,
           \A v \in Warps \ {w} : stores'[v] = stores[v],
           stores'[w] \subseteq stores[w] \cup {pc[w]}
    PROVE  ClusterInv'
<1> USE DEF ctaVars
<1>1. /\ pc[w] \in Nat /\ pc[w] > 0 /\ pc'[w] = pc[w] + 1 /\ w[1] \in threads
      /\ \A v \in Warps \ {w} : pc'[v] = pc[v]
      /\ ArriveCount(w) \in Nat /\ WaitCount(w) \in Nat
      /\ \A i \in Executed(w) : i < pc[w]
      /\ Arrives(w)' \cap Executed(w)' = Arrives(w) \cap Executed(w)
      /\ ArriveCount(w)' = ArriveCount(w) /\ WaitCount(w)' = WaitCount(w)
  <2>1. Code(w)[pc[w]].op # "carrive" /\ Code(w)[pc[w]].op # "cwait"
    BY DEF Issues
  <2>2. QED
    BY <2>1, IssuesCounts
<1>2. ~Parked(w)
  BY DEF Issues
<1>3. /\ ~Waiting(cluster, w) /\ Passed(cluster, w) = WaitCount(w)
      /\ cluster.phase[w].completed = WaitCount(w)
      /\ cluster.phase[w].arrived <= ArriveCount(w) /\ w \in named.active
  BY <1>1, <1>2, Unparked
<1>4. PICK x : x = cluster
  OBVIOUS
<1>5. OthersStay(w, x)
  BY <1>1, <1>4 DEF OthersStay
<1>6. Passed(x, w)' = WaitCount(w)
  BY <1>1, <1>3, <1>4 DEF Passed
<1>7. ASSUME NEW i \in stores'[w] \cup hidden'[w], NEW p \in Arrives(w)' \cap Executed(w)'
      PROVE  i > p
  BY <1>1 DEF ClusterInv, StoresLater
<1>8. OneMoves(w, x)
  <2>1. pc'[w] > 0 /\ pc'[w] >= pc[w] /\ w \in named'.active
    BY <1>1, <1>3
  <2>2. stores'[w] \cup hidden'[w] \subseteq stores[w] \cup hidden[w] \cup {pc[w]}
    OBVIOUS
  <2>3. x.phase[w].completed = Passed(x, w)' /\ x.phase[w].arrived <= ArriveCount(w)'
    BY <1>1, <1>3, <1>4, <1>6
  <2>4. Passed(x, w)' <= Passed(cluster, w)
    BY <1>1, <1>3, <1>6
  <2>5. QED
    BY <1>1, <1>4, <1>7, <2>1, <2>2, <2>3, <2>4 DEF OneMoves
<1>9. ClusterOK(x)
  BY <1>4 DEF IndInv, TypeOK, ClusterOK
<1>10. IssuedKnown' /\ RunsActive' /\ StoresLater' /\ PhaseInv(x)'
  BY <1>5, <1>8, <1>9, StepPhase
<1>11. PhaseInv(cluster)'
  BY <1>4, <1>10 DEF PhaseInv, PhaseLeft, WaitersHome, PhaseCounts, Separates, Passed, Waiting
<1>12. QED
  BY <1>10, <1>11 DEF ClusterInv


\* A step of warp w that makes the cluster barrier x and then looks at its waiters.
LEMMA StepLooks ==
    ASSUME IndInv, IndInv', ClusterInv, NEW w \in Warps, NEW x, ClusterOK(x),
           UNCHANGED <<kernel, issued>>, threads' \subseteq threads,
           \A c \in Slots : cta'[c] # Free => cta'[c] = cta[c],
           OthersStay(w, x), OneMoves(w, x),
           NEW s, s.active = named'.active, NEW ts, ts = threads', NEW busy,
           cluster' = Rechecked(x, s, ts, busy)
    PROVE  ClusterInv'
<1>1. IssuedKnown' /\ RunsActive' /\ StoresLater' /\ PhaseInv(x)'
  BY StepPhase
<1>2. PICK live : live = Live(s, ts)
  OBVIOUS
<1>3. named'.active \in SUBSET Warps
  BY DEF IndInv, TypeOK, BarrierSets
<1>4. live \in [Groups -> SUBSET Warps]
  BY <1>2, <1>3 DEF Live
<1>5. \A v \in Warps : v[1] \in threads' => cta'[v[1]] = cta[v[1]]
  <2>1. CountFacts'
    BY CountsKnown, PTL
  <2>2. QED
    BY <2>1 DEF CountFacts
<1>6. \A g \in Groups : \A v \in Warps :
          v \in live[g] <=> v \in named'.active /\ v[1] \in threads' /\ cta'[v[1]].g = g
  BY <1>2, <1>5 DEF Live
<1>7. Unissued' = Unissued
  BY DEF Unissued, CtaSize
<1>8. cluster' = release_ready_cluster_barriers(x, live, Unissued', busy)
  BY <1>2, <1>7 DEF Rechecked
<1>9. PhaseInv(cluster)'
  BY <1>1, <1>4, <1>6, <1>8, Recheck
<1>10. QED
  BY <1>1, <1>9 DEF ClusterInv

\* A step of warp w that leaves the cluster barrier alone.
LEMMA StepStill ==
    ASSUME IndInv, IndInv', ClusterInv, NEW w \in Warps, NEW x, x = cluster, cluster' = cluster,
           UNCHANGED <<kernel, issued>>, threads' \subseteq threads,
           \A c \in Slots : cta'[c] # Free => cta'[c] = cta[c],
           OthersStay(w, x), OneMoves(w, x)
    PROVE  ClusterInv'
<1>1. ClusterOK(x)
  BY DEF IndInv, TypeOK, ClusterOK
<1>2. IssuedKnown' /\ RunsActive' /\ StoresLater' /\ PhaseInv(x)'
  BY <1>1, StepPhase
<1>3. PhaseInv(cluster)'
  BY <1>2 DEF PhaseInv, PhaseLeft, WaitersHome, PhaseCounts, Separates, Passed, Waiting
<1>4. QED
  BY <1>2, <1>3 DEF ClusterInv

\* What a named barrier does changes no participant.
LEMMA ReachesActive ==
    ASSUME NEW s, NEW w, NEW type, NEW b, NEW n, NEW d
    PROVE  warp_reaches_barrier(s, w, type, b, n, d).active = s.active
  BY DEF warp_reaches_barrier, Complete, clear_named_barrier_waiters

\* Stores, loads and named barriers.
LEMMA IssueCluster ==
    ASSUME IndInv, IndInv', ClusterInv, NEW w \in Warps,
           \/ IssueStore(w) \/ IssueRemoteLoad(w) \/ IssueSync(w) \/ issue_named_arrival(w)
    PROVE  ClusterInv'
<1>1. stores \in [Warps -> SUBSET Nat]
  BY DEF IndInv, TypeOK
<1>2. CASE IssueStore(w)
  <2>1. /\ Issues(w, {"store", "rstore"}) /\ UNCHANGED <<kernel, ctaVars, hidden, cluster>>
        /\ named'.active = named.active /\ stores' = [stores EXCEPT ![w] = @ \cup {pc[w]}]
    BY <1>2 DEF IssueStore
  <2>2. (\A v \in Warps \ {w} : stores'[v] = stores[v]) /\ stores'[w] \subseteq stores[w] \cup {pc[w]}
    BY <1>1, <2>1
  <2>3. {"store", "rstore"} \cap {"carrive", "cwait"} = {}
    OBVIOUS
  <2>4. QED
    BY <2>1, <2>2, <2>3, QuietIssue
<1>3. CASE IssueRemoteLoad(w)
  <2>1. /\ Issues(w, {"rload"}) /\ UNCHANGED <<kernel, ctaVars, hidden, cluster>>
        /\ named'.active = named.active /\ stores' = stores
    BY <1>3 DEF IssueRemoteLoad, storeVars
  <2>2. {"rload"} \cap {"carrive", "cwait"} = {}
    OBVIOUS
  <2>3. QED
    BY <2>1, <2>2, QuietIssue
<1>4. CASE IssueSync(w)
  <2>1. /\ Issues(w, {"sync"}) /\ UNCHANGED <<kernel, ctaVars, hidden, cluster>>
        /\ named'.active = named.active /\ stores' = stores
    BY <1>4, ReachesActive DEF IssueSync, storeVars
  <2>2. {"sync"} \cap {"carrive", "cwait"} = {}
    OBVIOUS
  <2>3. QED
    BY <2>1, <2>2, QuietIssue
<1>5. CASE issue_named_arrival(w)
  <2>1. /\ Issues(w, {"arrive"}) /\ UNCHANGED <<kernel, ctaVars, hidden, cluster>>
        /\ named'.active = named.active /\ stores' = stores
    BY <1>5, ReachesActive DEF issue_named_arrival, storeVars
  <2>2. {"arrive"} \cap {"carrive", "cwait"} = {}
    OBVIOUS
  <2>3. QED
    BY <2>1, <2>2, QuietIssue
<1>6. QED
  BY <1>2, <1>3, <1>4, <1>5

\* barrier.cluster.arrive: the stores before it are visible.
LEMMA ArriveCluster ==
    ASSUME IndInv, IndInv', ClusterInv, NEW w \in Warps, cluster_barrier_arrive(w)
    PROVE  ClusterInv'
<1> USE DEF ctaVars, storeVars
<1>1. /\ Issues(w, {"carrive"}) /\ stores[w] = {} /\ hidden[w] = {}
      /\ UNCHANGED <<kernel, ctaVars, named, named_arrivals, storeVars, dsm>>
      /\ cluster' = Rechecked(Arrive(cluster, w), named, threads, Busy)
  BY DEF cluster_barrier_arrive, named_barrier_issue_ready
<1>2. /\ pc[w] \in Nat /\ pc[w] > 0 /\ pc'[w] = pc[w] + 1
      /\ \A v \in Warps \ {w} : pc'[v] = pc[v]
      /\ ArriveCount(w) \in Nat /\ WaitCount(w) \in Nat
      /\ ArriveCount(w)' = ArriveCount(w) + 1 /\ WaitCount(w)' = WaitCount(w)
  <2>1. Code(w)[pc[w]].op = "carrive"
    BY <1>1 DEF Issues
  <2>2. QED
    BY <1>1, <2>1, IssuesCounts
<1>3. /\ ~Waiting(cluster, w) /\ Passed(cluster, w) = WaitCount(w)
      /\ cluster.phase[w].completed = WaitCount(w)
      /\ cluster.phase[w].arrived <= ArriveCount(w) /\ w \in named.active
      /\ cluster.phase[w].arrived \in {WaitCount(w), WaitCount(w) + 1}
  BY <1>1, <1>2, Unparked DEF Issues
<1>4. PICK x : x = Arrive(cluster, w)
  OBVIOUS
<1>5. ClusterOK(cluster) /\ cluster.phase \in [Warps -> [arrived : Nat, completed : Nat]]
  BY DEF IndInv, TypeOK, ClusterOK, ClusterBarriers
<1>6. ClusterOK(x) /\ x.waiters = cluster.waiters
  BY <1>4, <1>5, ArriveFacts
<1>7. \A v \in Warps : Waiting(x, v) <=> Waiting(cluster, v)
  BY <1>6 DEF Waiting
<1>8. /\ \A v \in Warps \ {w} : x.phase[v] = cluster.phase[v]
      /\ x.phase[w].completed = WaitCount(w) /\ x.phase[w].arrived <= ArriveCount(w) + 1
  <2>1. CASE cluster.phase[w].arrived = cluster.phase[w].completed
    <3>1. x.phase = [cluster.phase EXCEPT ![w] = [arrived |-> @.completed + 1, completed |-> @.completed]]
      BY <1>4, <2>1 DEF Arrive
    <3>2. x.phase[w] = [arrived |-> cluster.phase[w].completed + 1, completed |-> cluster.phase[w].completed]
      BY <1>5, <3>1
    <3>3. \A v \in Warps \ {w} : x.phase[v] = cluster.phase[v]
      BY <1>5, <3>1
    <3>4. QED
      BY <1>2, <1>3, <2>1, <3>2, <3>3
  <2>2. CASE cluster.phase[w].arrived # cluster.phase[w].completed
    <3>1. x = cluster
      BY <1>4, <2>2 DEF Arrive
    <3>2. QED
      BY <1>2, <1>3, <3>1
  <2>3. QED
    BY <2>1, <2>2
<1>9. OthersStay(w, x)
  BY <1>1, <1>2, <1>7, <1>8 DEF OthersStay
<1>10. Passed(x, w)' = WaitCount(w)
  BY <1>2, <1>3, <1>7 DEF Passed
<1>11. OneMoves(w, x)
  <2>1. pc'[w] > 0 /\ pc'[w] >= pc[w] /\ w \in named'.active
    BY <1>1, <1>2, <1>3
  <2>2. x.phase[w].completed = Passed(x, w)' /\ x.phase[w].arrived <= ArriveCount(w)'
    BY <1>2, <1>8, <1>10
  <2>3. Passed(x, w)' <= Passed(cluster, w)
    BY <1>2, <1>3, <1>10
  <2>4. QED
    BY <1>1, <1>2, <1>6, <2>1, <2>2, <2>3 DEF OneMoves
<1>12. PICK s, ts, busy : s = named /\ ts = threads /\ busy = Busy
  OBVIOUS
<1>13. cluster' = Rechecked(x, s, ts, busy)
  BY <1>1, <1>4, <1>12
<1>14. QED
  BY <1>1, <1>6, <1>9, <1>11, <1>12, <1>13, StepLooks

\* barrier.cluster.wait: the warp has not passed it while it is listed.
LEMMA WaitCluster ==
    ASSUME IndInv, IndInv', ClusterInv, NEW w \in Warps, cluster_barrier_wait(w)
    PROVE  ClusterInv'
<1> USE DEF ctaVars, storeVars
<1>1. /\ Issues(w, {"cwait"}) /\ stores[w] = {} /\ hidden[w] = {}
      /\ UNCHANGED <<kernel, ctaVars, named, named_arrivals, storeVars, dsm>>
      /\ cluster' = Rechecked(Wait(cluster, w, cta[w[1]].g), named, threads, Busy)
  BY DEF cluster_barrier_wait, named_barrier_issue_ready
<1>2. /\ pc[w] \in Nat /\ pc[w] > 0 /\ pc'[w] = pc[w] + 1 /\ w[1] \in threads
      /\ \A v \in Warps \ {w} : pc'[v] = pc[v]
      /\ ArriveCount(w) \in Nat /\ WaitCount(w) \in Nat
      /\ ArriveCount(w)' = ArriveCount(w) /\ WaitCount(w)' = WaitCount(w) + 1
  <2>1. Code(w)[pc[w]].op = "cwait"
    BY <1>1 DEF Issues
  <2>2. QED
    BY <1>1, <2>1, IssuesCounts
<1>3. /\ ~Waiting(cluster, w) /\ Passed(cluster, w) = WaitCount(w)
      /\ cluster.phase[w].completed = WaitCount(w)
      /\ cluster.phase[w].arrived <= ArriveCount(w) /\ w \in named.active
  BY <1>1, <1>2, Unparked DEF Issues
<1>4. PICK x, g : g = cta[w[1]].g /\ x = Wait(cluster, w, g)
  OBVIOUS
<1>5. ClusterOK(cluster) /\ cluster.waiters \in [Groups -> Seq(Warps)]
  BY DEF IndInv, TypeOK, ClusterOK, ClusterBarriers
<1>6. g \in Groups
  <2>1. cta[w[1]] # Free /\ w[1] \in Slots
    BY <1>2, CountsKnown DEF CountFacts
  <2>2. QED
    BY <1>4, <2>1 DEF IndInv, TypeOK
<1>7. ClusterOK(x)
  BY <1>4, <1>5, <1>6, WaitFacts
<1>8. /\ x.phase = cluster.phase
      /\ \A h \in Groups : Range(x.waiters[h]) = Range(cluster.waiters[h]) \cup (IF h = g THEN {w} ELSE {})
  <2>1. w \notin Range(cluster.waiters[g])
    BY <1>3, <1>6 DEF Waiting
  <2>2. x = [phase |-> cluster.phase, waiters |-> [cluster.waiters EXCEPT ![g] = Append(@, w)]]
    BY <1>4, <2>1 DEF Wait
  <2>3. Range(Append(cluster.waiters[g], w)) = Range(cluster.waiters[g]) \cup {w}
    <3>1. PICK l \in Seq(Warps) : l = cluster.waiters[g]
      BY <1>5, <1>6
    <3>2. /\ DOMAIN Append(l, w) = 1..(Len(l) + 1) /\ Append(l, w)[Len(l) + 1] = w
          /\ \A i \in 1..Len(l) : Append(l, w)[i] = l[i]
          /\ DOMAIN l = 1..Len(l) /\ Len(l) \in Nat
      OBVIOUS
    <3>3. Range(Append(l, w)) = Range(l) \cup {w}
      BY <3>2 DEF Range
    <3>4. QED
      BY <3>1, <3>3
  <2>4. x.waiters[g] = Append(cluster.waiters[g], w) /\ \A h \in Groups \ {g} : x.waiters[h] = cluster.waiters[h]
    BY <1>5, <1>6, <2>2
  <2>5. QED
    BY <2>2, <2>3, <2>4
<1>9. Waiting(x, w) /\ \A v \in Warps \ {w} : Waiting(x, v) <=> Waiting(cluster, v)
  BY <1>6, <1>8 DEF Waiting
<1>10. OthersStay(w, x)
  BY <1>1, <1>2, <1>8, <1>9 DEF OthersStay
<1>11. Passed(x, w)' = WaitCount(w)
  BY <1>2, <1>9 DEF Passed
<1>12. OneMoves(w, x)
  <2>1. pc'[w] > 0 /\ pc'[w] >= pc[w] /\ w \in named'.active
    BY <1>1, <1>2, <1>3
  <2>2. x.phase[w].completed = Passed(x, w)' /\ x.phase[w].arrived <= ArriveCount(w)'
    BY <1>2, <1>3, <1>8, <1>11
  <2>3. Passed(x, w)' <= Passed(cluster, w)
    BY <1>2, <1>3, <1>11
  <2>4. \A h \in Groups : \A v \in Range(x.waiters[h]) :
            v \in Range(cluster.waiters[h]) \/ (v = w /\ cta[w[1]].g = h)
    BY <1>4, <1>8
  <2>5. QED
    BY <1>1, <1>2, <2>1, <2>2, <2>3, <2>4 DEF OneMoves
<1>13. PICK s, ts, busy : s = named /\ ts = threads /\ busy = Busy
  OBVIOUS
<1>14. cluster' = Rechecked(x, s, ts, busy)
  BY <1>1, <1>4, <1>13
<1>15. QED
  BY <1>1, <1>7, <1>10, <1>12, <1>13, <1>14, StepLooks


\* A warp that stays where it is.
LEMMA StaysMoves ==
    ASSUME IndInv, IndInv', ClusterInv, NEW w \in Warps, NEW x, kernel' = kernel,
           w[1] \in threads' => cta'[w[1]] = cta[w[1]],
           pc'[w] = pc[w], x.phase[w] = cluster.phase[w], Waiting(x, w) <=> Waiting(cluster, w),
           \A g \in Groups : Range(x.waiters[g]) \subseteq Range(cluster.waiters[g]),
           w \in named'.active <=> w \in named.active,
           stores'[w] \cup hidden'[w] \subseteq stores[w] \cup hidden[w]
    PROVE  OneMoves(w, x)
<1>1. CountFacts
  BY CountsKnown
<1>2. CountFacts'
  BY CountsKnown, PTL
<1>3. pc[w] \in Nat
  BY DEF IndInv, TypeOK
<1>4. ASSUME w[1] \in threads'
      PROVE  /\ Arrives(w)' = Arrives(w) /\ Executed(w)' = Executed(w)
             /\ ArriveCount(w)' = ArriveCount(w) /\ Passed(x, w)' = Passed(cluster, w)
             /\ Passed(x, w)' <= Passed(cluster, w)
  <2>1. /\ Arrives(w)' = Arrives(w) /\ Executed(w)' = Executed(w)
        /\ ArriveCount(w)' = ArriveCount(w) /\ WaitCount(w)' = WaitCount(w)
    BY <1>4, SameCounts
  <2>2. WaitCount(w)' \in Nat
    BY <1>2, <1>4 DEF CountFacts
  <2>3. Passed(x, w)' = Passed(cluster, w) /\ Passed(cluster, w) \in Int
    BY <2>1, <2>2 DEF Passed
  <2>4. QED
    BY <2>1, <2>3
<1>5. w \notin named'.active => x.phase[w] = NoPhase
  BY DEF ClusterInv, PhaseInv, PhaseLeft
<1>6. ASSUME pc'[w] > 0
      PROVE  /\ w \in named'.active
             /\ pc[w] > 0 /\ pc'[w] >= pc[w]
             /\ \A p \in Arrives(w)' \cap Executed(w)' : \A i \in stores'[w] \cup hidden'[w] : i > p
             /\ x.phase[w].completed = Passed(x, w)' /\ x.phase[w].arrived <= ArriveCount(w)'
  <2>1. w[1] \in threads' /\ pc[w] > 0 /\ pc'[w] >= pc[w]
    BY <1>2, <1>3, <1>6 DEF CountFacts
  <2>2. w \in named'.active
    BY <2>1 DEF ClusterInv, RunsActive
  <2>3. \A p \in Arrives(w)' \cap Executed(w)' : \A i \in stores'[w] \cup hidden'[w] : i > p
    BY <1>4, <2>1 DEF ClusterInv, StoresLater
  <2>4. x.phase[w].completed = Passed(x, w)' /\ x.phase[w].arrived <= ArriveCount(w)'
    BY <1>4, <2>1 DEF ClusterInv, PhaseInv, PhaseCounts
  <2>5. QED
    BY <2>1, <2>2, <2>3, <2>4
<1>7. Running(w)' => Passed(x, w)' <= Passed(cluster, w)
  BY <1>4 DEF Running
<1>8. ASSUME pc'[w] = 0, Waiting(x, w) PROVE FALSE
  <2>1. PICK g \in Groups : w \in Range(cluster.waiters[g])
    BY <1>8 DEF Waiting
  <2>2. pc[w] > 0
    BY <2>1 DEF ClusterInv, PhaseInv, WaitersHome
  <2>3. QED
    BY <1>3, <1>8, <2>2
<1>9. QED
  BY <1>5, <1>6, <1>7, <1>8 DEF OneMoves

\* Stores complete and become visible, delayed releases are due.
LEMMA CompletionCluster ==
    ASSUME IndInv, IndInv', ClusterInv, NEW w \in Warps,
           \/ \E i \in stores[w] : complete_shared_store(w, i)
           \/ StoresVisible(w)
           \/ DelayedRelease(w)
    PROVE  ClusterInv'
<1> USE DEF ctaVars, storeVars
<1>1. stores \in [Warps -> SUBSET Nat] /\ hidden \in [Warps -> SUBSET Nat]
  BY DEF IndInv, TypeOK
<1>2. UNCHANGED <<kernel, ctaVars, pc, cluster>> /\ named'.active = named.active
  BY DEF complete_shared_store, StoresVisible, DelayedRelease, ReleaseDue
<1>3. \A v \in Warps : stores'[v] \cup hidden'[v] \subseteq stores[v] \cup hidden[v]
  <2>1. CASE \E i \in stores[w] : complete_shared_store(w, i)
    <3>1. PICK i \in stores[w] : /\ stores' = [stores EXCEPT ![w] = @ \ {i}]
                                 /\ hidden' = [hidden EXCEPT ![w] = @ \cup {i}]
      BY <2>1 DEF complete_shared_store
    <3>2. \A v \in Warps \ {w} : stores'[v] = stores[v] /\ hidden'[v] = hidden[v]
      BY <1>1, <3>1
    <3>3. stores'[w] = stores[w] \ {i} /\ hidden'[w] = hidden[w] \cup {i}
      BY <1>1, <3>1
    <3>4. QED
      BY <3>1, <3>2, <3>3
  <2>2. CASE StoresVisible(w)
    <3>1. stores' = stores /\ hidden' = [hidden EXCEPT ![w] = {}]
      BY <2>2 DEF StoresVisible
    <3>2. QED
      BY <1>1, <3>1
  <2>3. CASE DelayedRelease(w)
    BY <2>3 DEF DelayedRelease
  <2>4. QED
    BY <2>1, <2>2, <2>3
<1>4. PICK x : x = cluster
  OBVIOUS
<1>5. OthersStay(w, x)
  BY <1>2, <1>3, <1>4 DEF OthersStay
<1>6. OneMoves(w, x)
  <2>1. Waiting(x, w) <=> Waiting(cluster, w)
    BY <1>4
  <2>2. QED
    BY <1>2, <1>3, <1>4, <2>1, StaysMoves
<1>7. QED
  BY <1>2, <1>4, <1>5, <1>6, StepStill

\* A DSM operation ends, and the waiters are looked at.
LEMMA TxDoneCluster ==
    ASSUME IndInv, IndInv', ClusterInv, NEW w \in Warps, dsm_on_tx_done(w)
    PROVE  ClusterInv'
<1> USE DEF ctaVars, storeVars
<1>1. UNCHANGED <<kernel, ctaVars, pc, named, named_arrivals, storeVars>>
  BY DEF dsm_on_tx_done
<1>2. PICK x, s, ts, busy : /\ x = cluster /\ s = named /\ ts = threads
                            /\ cluster' = Rechecked(x, s, ts, busy)
  BY DEF dsm_on_tx_done
<1>3. OthersStay(w, x)
  BY <1>1, <1>2 DEF OthersStay
<1>4. OneMoves(w, x)
  <2>1. Waiting(x, w) <=> Waiting(cluster, w)
    BY <1>2
  <2>2. QED
    BY <1>1, <1>2, <2>1, StaysMoves
<1>5. ClusterOK(x)
  BY <1>2 DEF IndInv, TypeOK, ClusterOK
<1>6. QED
  BY <1>1, <1>2, <1>3, <1>4, <1>5, StepLooks

\* A CTA that waited for others is released.
LEMMA PendingCluster ==
    ASSUME IndInv, IndInv', ClusterInv, NEW c \in Slots, release_pending_tma_ctas(c)
    PROVE  ClusterInv'
<1> USE DEF storeVars
<1>1. /\ c \notin threads /\ Released(c)
      /\ UNCHANGED <<kernel, threads, issued, pc, reclaimed, named_arrivals, storeVars, dsm, cluster>>
  BY DEF release_pending_tma_ctas
<1>2. \A w \in Warps : w[1] = c => named.at[w] = NoBar /\ w \notin named.active
  BY <1>1, EmptySlot
<1>3. /\ named'.active = named.active
      /\ \A d \in Slots : cta'[d] # Free => cta'[d] = cta[d] /\ d # c
      /\ \A d \in Slots \ {c} : cta'[d] = cta[d]
  BY <1>1, <1>2, ReleasedFacts
<1>4. PICK w \in Warps : w[1] = c
  <2>1. <<c, 1>> \in Warps
    BY NamedBarrierAssumption DEF Warps
  <2>2. QED
    BY <2>1
<1>5. PICK x : x = cluster
  OBVIOUS
<1>6. OthersStay(w, x)
  BY <1>1, <1>3, <1>5 DEF OthersStay
<1>7. OneMoves(w, x)
  <2>1. Waiting(x, w) <=> Waiting(cluster, w)
    BY <1>5
  <2>2. w[1] \notin threads'
    BY <1>1, <1>4
  <2>3. QED
    BY <1>1, <1>3, <1>5, <2>1, <2>2, StaysMoves
<1>8. \A d \in Slots : cta'[d] # Free => cta'[d] = cta[d]
  BY <1>3
<1>9. QED
  BY <1>1, <1>5, <1>6, <1>7, <1>8, StepStill


\* The exit of a warp is counted, which may end or release its CTA.
LEMMA RegisterCluster ==
    ASSUME IndInv, IndInv', ClusterInv, NEW w \in Warps, register_cta_thread_exit(w)
    PROVE  ClusterInv'
<1> USE DEF storeVars
<1> DEFINE c == w[1]
<1>1. /\ hardware_done(w) /\ w \notin reclaimed /\ reclaimed' = reclaimed \cup {w}
      /\ UNCHANGED <<kernel, issued, pc, named_arrivals, storeVars, dsm>>
  BY DEF register_cta_thread_exit
<1>2. pc[w] = 0 /\ NoArrival(w)
  BY <1>1 DEF hardware_done, NoArrival
<1>3. c \in Slots /\ WarpsOf(c) \subseteq Warps /\ \A v \in Warps : v \in WarpsOf(c) <=> v[1] = c
  BY WarpsOfFacts DEF Warps
<1>4. PICK x : x = cluster
  OBVIOUS
<1> HIDE DEF c
<1>5. ClusterOK(x)
  BY <1>4 DEF IndInv, TypeOK, ClusterOK
<1>6. \A v \in Warps : Waiting(x, v) <=> Waiting(cluster, v)
  BY <1>4
<1>7. CASE WarpsOf(c) \ {w} \subseteq reclaimed
  <2>1. /\ threads' = threads \ {c}
        /\ UNCHANGED <<cta, named>> \/ Released(c)
        /\ cluster' = Rechecked(cluster, named, threads \ {c}, Busy)
    BY <1>7 DEF register_cta_thread_exit, c
  <2>2. ASSUME NEW v \in Warps, v[1] = c PROVE named.at[v] = NoBar /\ v \notin named.active
    <3>1. v \in reclaimed'
      BY <1>1, <1>3, <1>7, <2>2
    <3>2. pc[v] = 0 /\ NoArrival(v) /\ ~(pc[v] > 0)
      BY <1>1, <1>2, <3>1 DEF IndInv, CountedGone
    <3>3. QED
      BY <3>2 DEF IndInv, ParkedRuns, Parked, ParticipantsLive
  <2>3. /\ named'.active = named.active
        /\ \A d \in Slots : cta'[d] # Free => cta'[d] = cta[d]
        /\ \A d \in Slots \ {c} : cta'[d] = cta[d]
    <3>1. CASE UNCHANGED <<cta, named>>
      BY <3>1
    <3>2. CASE Released(c)
      BY <1>3, <2>2, <3>2, ReleasedFacts
    <3>3. QED
      BY <2>1, <3>1, <3>2
  <2>4. OthersStay(w, x)
    BY <1>1, <1>4, <2>3 DEF OthersStay
  <2>5. OneMoves(w, x)
    <3>1. w[1] \notin threads'
      BY <2>1 DEF c
    <3>2. QED
      BY <1>1, <1>4, <1>6, <2>3, <3>1, StaysMoves
  <2>6. PICK s, ts, busy : s = named /\ ts = threads' /\ busy = Busy
    OBVIOUS
  <2>7. cluster' = Rechecked(x, s, ts, busy) /\ s.active = named'.active
    BY <1>4, <2>1, <2>3, <2>6
  <2>8. threads' \subseteq threads
    BY <2>1
  <2>9. QED
    BY <1>1, <1>5, <2>3, <2>4, <2>5, <2>6, <2>7, <2>8, StepLooks
<1>8. CASE ~(WarpsOf(c) \ {w} \subseteq reclaimed)
  <2>1. UNCHANGED <<threads, cta, named, cluster>>
    BY <1>8 DEF register_cta_thread_exit, c
  <2>2. OthersStay(w, x)
    BY <1>1, <1>4, <2>1 DEF OthersStay
  <2>3. OneMoves(w, x)
    BY <1>1, <1>4, <1>6, <2>1, StaysMoves
  <2>4. QED
    BY <1>1, <1>4, <2>1, <2>2, <2>3, StepStill
<1>9. QED
  BY <1>7, <1>8

\* A warp that is forgotten has no phase and waits for nothing.
LEMMA ForgetExact ==
    ASSUME NEW x, ClusterOK(x), NEW w \in Warps, NEW y, y = Forget(x, w)
    PROVE  /\ ClusterOK(y) /\ y.phase[w] = NoPhase /\ ~Waiting(y, w)
           /\ \A v \in Warps \ {w} : y.phase[v] = x.phase[v] /\ (Waiting(y, v) <=> Waiting(x, v))
           /\ \A g \in Groups : Range(y.waiters[g]) \subseteq Range(x.waiters[g])
<1> DEFINE ws == [g \in Groups |-> Without(x.waiters[g], {w})]
<1>1. y.phase = [x.phase EXCEPT ![w] = NoPhase] /\ y.waiters = ws
  BY DEF Forget
<1>2. /\ x.phase \in [Warps -> [arrived : Nat, completed : Nat]]
      /\ x.waiters \in [Groups -> Seq(Warps)]
  BY DEF ClusterOK, ClusterBarriers
<1>3. \A g \in Groups : Range(ws[g]) = Range(x.waiters[g]) \ {w}
  BY <1>2, WithoutFacts
<1> HIDE DEF ws
<1>4. \A v \in Warps : Waiting(y, v) <=> Waiting(x, v) /\ v # w
  BY <1>1, <1>3 DEF Waiting
<1>5. y.phase[w] = NoPhase /\ \A v \in Warps \ {w} : y.phase[v] = x.phase[v]
  BY <1>1, <1>2
<1>6. ClusterOK(y)
  BY ForgetFacts
<1>7. \A g \in Groups : Range(y.waiters[g]) \subseteq Range(x.waiters[g])
  BY <1>1, <1>3
<1>8. QED
  BY <1>4, <1>5, <1>6, <1>7

\* A warp that leaves both kinds of barrier has exited: nobody waits for it any more.
LEMMA LeavesCluster ==
    ASSUME IndInv, IndInv', ClusterInv, NEW w \in Warps, pc'[w] = 0,
           NEW s, s.active = named.active, LeavesBarriers(s, w),
           UNCHANGED <<kernel, ctaVars, storeVars>>,
           \A v \in Warps \ {w} : pc'[v] = pc[v],
           w[1] \in threads => WaitCount(w)' <= Passed(cluster, w)
    PROVE  ClusterInv'
<1> USE DEF ctaVars, storeVars
<1>1. named'.active = named.active \ {w}
  BY DEF LeavesBarriers, warp_exit, Complete, clear_named_barrier_waiters
<1>2. PICK x, t, ts, busy : /\ x = Forget(cluster, w) /\ t = named' /\ ts = threads'
                            /\ cluster' = Rechecked(x, t, ts, busy)
  BY DEF LeavesBarriers
<1>3. /\ ClusterOK(x) /\ x.phase[w] = NoPhase /\ ~Waiting(x, w)
      /\ \A v \in Warps \ {w} : x.phase[v] = cluster.phase[v] /\ (Waiting(x, v) <=> Waiting(cluster, v))
      /\ \A g \in Groups : Range(x.waiters[g]) \subseteq Range(cluster.waiters[g])
  <2>1. PICK y : y = cluster
    OBVIOUS
  <2>2. ClusterOK(y)
    BY <2>1 DEF IndInv, TypeOK, ClusterOK
  <2>3. PICK z : z = Forget(y, w)
    OBVIOUS
  <2>4. /\ ClusterOK(z) /\ z.phase[w] = NoPhase /\ ~Waiting(z, w)
        /\ \A v \in Warps \ {w} : z.phase[v] = y.phase[v] /\ (Waiting(z, v) <=> Waiting(y, v))
        /\ \A g \in Groups : Range(z.waiters[g]) \subseteq Range(y.waiters[g])
    BY <2>2, <2>3, ForgetExact
  <2>5. x = z /\ y = cluster
    BY <1>2, <2>1, <2>3
  <2>6. QED
    BY <2>4, <2>5
<1>4. OthersStay(w, x)
  BY <1>1, <1>3 DEF OthersStay
<1>5. OneMoves(w, x)
  <2>1. ~(pc'[w] > 0)
    OBVIOUS
  <2>2. ASSUME Running(w)' PROVE Passed(x, w)' <= Passed(cluster, w)
    <3>1. CountFacts'
      BY CountsKnown, PTL
    <3>2. w[1] \in threads /\ WaitCount(w)' \in Nat
      BY <2>2, <3>1 DEF Running, CountFacts
    <3>3. Passed(x, w)' = WaitCount(w)'
      BY <1>3, <3>2 DEF Passed
    <3>4. QED
      BY <3>2, <3>3
  <2>3. QED
    BY <1>3, <2>1, <2>2 DEF OneMoves
<1>6. QED
  BY <1>2, <1>3, <1>4, <1>5, StepLooks

\* The last threads of a warp exit: it has executed all its instructions.
LEMMA ExitCluster ==
    ASSUME IndInv, IndInv', ClusterInv, NEW w \in Warps, Exit(w)
    PROVE  ClusterInv'
<1> USE DEF ctaVars, storeVars
<1>1. /\ pc[w] > 0 /\ ~Parked(w) /\ pc[w] > Len(Code(w)) /\ pc' = [pc EXCEPT ![w] = 0]
      /\ UNCHANGED <<kernel, ctaVars, named_arrivals, storeVars, dsm>>
  BY DEF Exit
<1>2. pc'[w] = 0 /\ (\A v \in Warps \ {w} : pc'[v] = pc[v]) /\ pc[w] \in Nat
  BY <1>1 DEF IndInv, TypeOK
<1>3. /\ ~Waiting(cluster, w) /\ Passed(cluster, w) = WaitCount(w) /\ WaitCount(w) \in Nat
      /\ w \in named.active
  BY <1>1, Unparked
<1>4. WaitCount(w)' = WaitCount(w)
  <2>1. CountFacts
    BY CountsKnown
  <2>2. /\ DOMAIN Code(w) = 1..Len(Code(w)) /\ Len(Code(w)) \in Nat /\ Executed(w) = 1..(pc[w] - 1)
    BY <1>1, <2>1 DEF CountFacts
  <2>3. Code(w)' = Code(w)
    BY <1>1 DEF Code
  <2>4. Waits(w)' = Waits(w) /\ Executed(w)' = DOMAIN Code(w)
    BY <1>2, <2>3 DEF Waits, Executed
  <2>5. Waits(w) \cap DOMAIN Code(w) = Waits(w) \cap Executed(w)
    <3>1. Waits(w) \subseteq DOMAIN Code(w)
      BY DEF Waits
    <3>2. DOMAIN Code(w) \subseteq Executed(w)
      BY <1>1, <1>2, <2>2
    <3>3. QED
      BY <3>1, <3>2
  <2>6. QED
    BY <2>4, <2>5 DEF WaitCount
<1>5. CASE ~NoArrival(w)
  <2>1. UNCHANGED <<named, cluster>>
    BY <1>5 DEF Exit, NoArrival
  <2>2. PICK x : x = cluster
    OBVIOUS
  <2>3. OthersStay(w, x)
    BY <1>1, <1>2, <2>1, <2>2 DEF OthersStay
  <2>4. OneMoves(w, x)
    <3>1. ~(pc'[w] > 0)
      BY <1>2
    <3>2. Passed(x, w)' = WaitCount(w)
      BY <1>3, <1>4, <2>2 DEF Passed
    <3>3. QED
      BY <1>3, <2>1, <2>2, <3>1, <3>2 DEF OneMoves
  <2>5. QED
    BY <1>1, <2>1, <2>2, <2>3, <2>4, StepStill
<1>6. CASE NoArrival(w)
  <2>1. LeavesBarriers(named, w)
    BY <1>6 DEF Exit, NoArrival
  <2>2. PICK s : s = named
    OBVIOUS
  <2>3. LeavesBarriers(s, w) /\ s.active = named.active
    BY <2>1, <2>2
  <2>4. WaitCount(w)' <= Passed(cluster, w)
    BY <1>3, <1>4
  <2>5. QED
    BY <1>1, <1>2, <2>3, <2>4, LeavesCluster
<1>7. QED
  BY <1>5, <1>6

\* A bar.arrive is delivered; its warp leaves the barriers if it has exited.
LEMMA ProcessCluster ==
    ASSUME IndInv, IndInv', ClusterInv, process_named_arrivals
    PROVE  ClusterInv'
<1> USE DEF ctaVars, storeVars
<1>1. UNCHANGED <<kernel, ctaVars, pc, storeVars, dsm>> /\ named_arrivals # <<>>
  BY DEF process_named_arrivals
<1>2. Head(named_arrivals).w \in Warps
  <2>1. named_arrivals \in Seq(Arrivals)
    BY DEF IndInv, TypeOK
  <2>2. Head(named_arrivals) \in Arrivals
    BY <1>1, <2>1
  <2>3. QED
    BY <2>2 DEF Arrivals
<1>3. PICK w \in Warps : w = Head(named_arrivals).w
  BY <1>2
<1>4. PICK s : s = warp_reaches_barrier(named, w, "arrive", Head(named_arrivals).bar,
                                        Head(named_arrivals).count, kernel.releaseLatency)
  OBVIOUS
<1>5. s.active = named.active
  BY <1>4, ReachesActive
<1>6. \/ pc[w] = 0 /\ LeavesBarriers(s, w)
      \/ named' = s /\ cluster' = cluster
  BY <1>3, <1>4 DEF process_named_arrivals
<1>7. CASE pc[w] = 0 /\ LeavesBarriers(s, w)
  <2>1. ASSUME w[1] \in threads PROVE WaitCount(w)' <= Passed(cluster, w)
    <3>1. WaitCount(w)' = WaitCount(w)
      BY <1>1, SameCounts
    <3>2. WaitCount(w) \in Nat
      BY <2>1, CountsKnown DEF CountFacts
    <3>3. ~Waiting(cluster, w)
      BY <1>7 DEF ClusterInv, PhaseInv, WaitersHome, Waiting
    <3>4. Passed(cluster, w) = WaitCount(w)
      BY <3>2, <3>3 DEF Passed
    <3>5. QED
      BY <3>1, <3>2, <3>4
  <2>2. QED
    BY <1>1, <1>5, <1>7, <2>1, LeavesCluster
<1>8. CASE named' = s /\ cluster' = cluster
  <2>1. PICK x : x = cluster
    OBVIOUS
  <2>2. OthersStay(w, x)
    BY <1>1, <1>5, <1>8, <2>1 DEF OthersStay
  <2>3. Waiting(x, w) <=> Waiting(cluster, w)
    BY <2>1
  <2>4. OneMoves(w, x)
    BY <1>1, <1>5, <1>8, <2>1, <2>3, StaysMoves
  <2>5. QED
    BY <1>1, <1>8, <2>1, <2>2, <2>4, StepStill
<1>9. QED
  BY <1>6, <1>7, <1>8


\* A CTA is issued: no warp of its group has passed a wait.
LEMMA IssueBlockCluster ==
    ASSUME IndInv, IndInv', ClusterInv, NEW c \in Slots, issue_block2core(c)
    PROVE  ClusterInv'
<1>1. PICK g \in NextGroup :
          /\ cta[c] = Free
          /\ cta' = [cta EXCEPT ![c] = [g |-> g, r |-> issued[g] + 1]]
          /\ issued' = [issued EXCEPT ![g] = @ + 1]
          /\ threads' = threads \cup {c}
          /\ pc' = [w \in Warps |-> IF w[1] = c THEN 1 ELSE pc[w]]
          /\ hidden' = [w \in Warps |-> IF w[1] = c THEN {} ELSE hidden[w]]
          /\ named' = allocate_barrier(named, c)
          /\ UNCHANGED <<kernel, named_arrivals, stores, dsm, cluster>>
  BY DEF issue_block2core
<1>2. CountFacts
  BY CountsKnown
<1>3. CountFacts'
  BY CountsKnown, PTL
<1>4. /\ g \in DOMAIN kernel.groups /\ issued[g] < CtaSize(g) /\ g \in Groups
      /\ issued \in [Groups -> Nat] /\ issued[g] \in Nat /\ cta \in [Slots -> [g : Groups, r : Nat] \cup {Free}]
      /\ DOMAIN kernel.groups \subseteq Groups /\ CtaSize(g) \in Nat
  <2>1. /\ kernel \in Kernels /\ issued \in [Groups -> Nat]
        /\ cta \in [Slots -> [g : Groups, r : Nat] \cup {Free}]
    BY DEF IndInv, TypeOK
  <2>2. DOMAIN kernel.groups \subseteq Groups
        /\ kernel.groups \in Seq(Seq([1..WarpsPerCta -> Seq(Instructions)]))
    BY <2>1, KernelsAssumption
  <2>3. g \in DOMAIN kernel.groups /\ issued[g] < CtaSize(g)
    BY DEF NextGroup
  <2> DEFINE P == [1..WarpsPerCta -> Seq(Instructions)]
  <2> HIDE DEF P
  <2>4. ASSUME NEW gs \in Seq(Seq(P)), NEW h \in DOMAIN gs PROVE Len(gs[h]) \in Nat
    OBVIOUS
  <2>5. CtaSize(g) \in Nat
    BY <2>2, <2>3, <2>4 DEF CtaSize, P
  <2>6. QED
    BY <2>1, <2>2, <2>3, <2>5
<1>5. c \notin threads
  BY <1>1 DEF IndInv, TypeOK
<1>6. \A w \in Warps : w[1] = c => pc[w] = 0 /\ w \notin named.active /\ ~Waiting(cluster, w)
  BY <1>5, EmptySlot DEF Parked
<1>7. named'.active = named.active \cup WarpsOf(c)
  BY <1>1 DEF allocate_barrier, ClearCta
<1>8. /\ cta'[c] = [g |-> g, r |-> issued[g] + 1] /\ \A d \in Slots \ {c} : cta'[d] = cta[d]
      /\ issued'[g] = issued[g] + 1 /\ \A h \in Groups \ {g} : issued'[h] = issued[h]
  BY <1>1, <1>4
<1>9. cta'[c].g = g /\ cta'[c].r = issued[g] + 1
  BY <1>8
<1>10. \A w \in Warps : IF w[1] = c THEN pc'[w] = 1 /\ hidden'[w] = {}
                                    ELSE pc'[w] = pc[w] /\ hidden'[w] = hidden[w] /\ w[1] \in Slots \ {c}
  BY <1>1 DEF Warps
<1>11. ASSUME NEW w \in Warps, w[1] = c
       PROVE  /\ Executed(w)' = {} /\ ArriveCount(w)' = 0 /\ WaitCount(w)' = 0
  <2>1. pc'[w] = 1
    BY <1>10, <1>11
  <2>2. Executed(w)' = {}
    BY <2>1 DEF Executed
  <2>3. QED
    BY <2>2, FS_EmptySet DEF ArriveCount, WaitCount
<1>12. ASSUME NEW w \in Warps, w[1] # c
       PROVE  /\ Arrives(w)' = Arrives(w) /\ Executed(w)' = Executed(w)
              /\ ArriveCount(w)' = ArriveCount(w) /\ WaitCount(w)' = WaitCount(w)
              /\ Running(w)' => Running(w) /\ cta'[w[1]] = cta[w[1]]
  <2>1. cta'[w[1]] = cta[w[1]] /\ pc'[w] = pc[w] /\ kernel' = kernel
    BY <1>1, <1>8, <1>10, <1>12
  <2>2. Running(w)' => Running(w)
    BY <1>1, <1>12, <2>1 DEF Running
  <2>3. QED
    BY <2>1, <2>2, SameCounts
<1>13. IssuedKnown'
  <2>1. ASSUME NEW d \in Slots, cta'[d] # Free PROVE cta'[d].r <= issued'[cta'[d].g]
    <3>1. CASE d = c
      BY <1>4, <1>8, <1>9, <3>1
    <3>2. CASE d # c
      <4>1. cta[d] # Free /\ cta'[d] = cta[d]
        BY <1>8, <2>1, <3>2
      <4>2. cta[d].g \in Groups /\ cta[d].r \in Nat
        BY <1>4, <4>1
      <4>3. cta[d].r <= issued[cta[d].g]
        BY <4>1 DEF ClusterInv, IssuedKnown
      <4>4. issued[cta[d].g] \in Nat /\ issued[cta[d].g] <= issued'[cta[d].g]
        BY <1>4, <1>8, <4>2
      <4>5. issued'[cta[d].g] \in Nat
        BY <1>4, <1>8, <4>2
      <4>6. QED
        BY <4>1, <4>2, <4>3, <4>4, <4>5
    <3>3. QED
      BY <3>1, <3>2
  <2>2. ASSUME NEW h \in DOMAIN kernel'.groups PROVE issued'[h] <= CtaSize(h)'
    <3>1. h \in DOMAIN kernel.groups /\ h \in Groups /\ CtaSize(h)' = CtaSize(h)
      BY <1>1, <1>4 DEF CtaSize
    <3>2. CASE h = g
      BY <1>4, <1>8, <3>1, <3>2
    <3>3. CASE h # g
      BY <1>8, <3>1, <3>3 DEF ClusterInv, IssuedKnown
    <3>4. QED
      BY <3>2, <3>3
  <2>3. QED
    BY <2>1, <2>2 DEF IssuedKnown
<1>14. \A w \in Warps : w \in WarpsOf(c) <=> w[1] = c
  BY WarpsOfFacts
<1>15. RunsActive'
  BY <1>7, <1>10, <1>14 DEF ClusterInv, RunsActive
<1>16. StoresLater'
  <2> SUFFICES ASSUME NEW v \in Warps, pc'[v] > 0
               PROVE  \A p \in Arrives(v)' \cap Executed(v)' : \A i \in stores'[v] \cup hidden'[v] : i > p
    BY DEF StoresLater
  <2>1. CASE v[1] = c
    BY <1>11, <2>1
  <2>2. CASE v[1] # c
    BY <1>1, <1>10, <1>12, <2>2 DEF ClusterInv, StoresLater
  <2>3. QED
    BY <2>1, <2>2
<1>17. PICK x : x = cluster
  OBVIOUS
<1>18. PhaseLeft(x)'
  BY <1>7, <1>17 DEF ClusterInv, PhaseInv, PhaseLeft
<1>19. \A v \in Warps : Waiting(x, v) => v[1] # c
  BY <1>6, <1>17
<1>20. WaitersHome(x)'
  <2> SUFFICES ASSUME NEW h \in Groups, NEW v \in Range(x.waiters[h])
               PROVE  pc'[v] > 0 /\ cta'[v[1]].g = h
    BY DEF WaitersHome
  <2>1. v \in Warps /\ Waiting(x, v)
    <3>1. ClusterOK(x)
      BY <1>17 DEF IndInv, TypeOK, ClusterOK
    <3>2. QED
      BY <3>1 DEF ClusterOK, ClusterBarriers, Range, Waiting
  <2>2. v[1] # c
    BY <1>19, <2>1
  <2>3. pc[v] > 0 /\ cta[v[1]].g = h
    BY <1>17 DEF ClusterInv, PhaseInv, WaitersHome
  <2>4. QED
    BY <1>8, <1>10, <2>1, <2>2, <2>3
<1>21. PhaseCounts(x)'
  <2> SUFFICES ASSUME NEW v \in Warps, pc'[v] > 0
               PROVE  x.phase[v].completed = Passed(x, v)' /\ x.phase[v].arrived <= ArriveCount(v)'
    BY DEF PhaseCounts
  <2>1. CASE v[1] = c
    <3>1. x.phase[v] = NoPhase /\ ~Waiting(x, v)
      BY <1>6, <1>17, <2>1 DEF ClusterInv, PhaseInv, PhaseLeft
    <3>2. Passed(x, v)' = 0 /\ ArriveCount(v)' = 0
      BY <1>11, <2>1, <3>1 DEF Passed
    <3>3. QED
      BY <3>1, <3>2 DEF NoPhase
  <2>2. CASE v[1] # c
    <3>1. pc[v] > 0 /\ ArriveCount(v)' = ArriveCount(v) /\ Passed(x, v)' = Passed(cluster, v)
      BY <1>10, <1>12, <1>17, <2>2 DEF Passed
    <3>2. QED
      BY <1>17, <3>1 DEF ClusterInv, PhaseInv, PhaseCounts
  <2>3. QED
    BY <2>1, <2>2
<1>22. Separates(x)'
  <2>1. \A h \in DOMAIN kernel.groups : issued[h] = CtaSize(h) => issued'[h] = issued[h]
    BY <1>4, <1>8
  <2>2. ASSUME NEW w \in Warps, Running(w)'
        PROVE  \/ Passed(x, w)' <= 0
               \/ Running(w) /\ cta'[w[1]] = cta[w[1]] /\ Passed(x, w)' <= Passed(cluster, w)
    <3>1. CASE w[1] = c
      <4>1. Passed(x, w)' = 0
        BY <1>6, <1>11, <1>17, <3>1 DEF Passed
      <4>2. QED
        BY <4>1
    <3>2. CASE w[1] # c
      <4>1. Passed(x, w)' = Passed(cluster, w) /\ Running(w) /\ cta'[w[1]] = cta[w[1]]
        BY <1>12, <1>17, <2>2, <3>2 DEF Passed
      <4>2. Passed(cluster, w) \in Int
        BY <1>2, <4>1 DEF CountFacts, Running, Passed
      <4>3. QED
        BY <4>1, <4>2
    <3>3. QED
      BY <3>1, <3>2
  <2>3. ASSUME NEW v \in Warps, Running(v)', pc'[v] > 0
        PROVE  issued[cta'[v[1]].g] # CtaSize(cta'[v[1]].g) \/ RunsOn(v)
    <3>1. CASE v[1] = c
      BY <1>4, <1>9, <3>1
    <3>2. CASE v[1] # c
      <4>1. Running(v) /\ cta'[v[1]] = cta[v[1]] /\ pc'[v] = pc[v]
        BY <1>10, <1>12, <2>3, <3>2
      <4>2. pc[v] \in Nat /\ stores'[v] \cup hidden'[v] \subseteq stores[v] \cup hidden[v]
        BY <1>1, <1>10, <3>2 DEF IndInv, TypeOK
      <4>3. QED
        BY <2>3, <4>1, <4>2 DEF RunsOn
    <3>3. QED
      BY <3>1, <3>2
  <2>4. Separates(cluster) /\ kernel' = kernel
    BY <1>1 DEF ClusterInv, PhaseInv
  <2>5. QED
    BY <2>1, <2>2, <2>3, <2>4, SeparatesCarried
<1>23. PhaseInv(cluster)'
  <2>1. x = cluster'
    BY <1>1, <1>17
  <2>2. QED
    BY <2>1, <1>18, <1>20, <1>21, <1>22
       DEF PhaseInv, PhaseLeft, WaitersHome, PhaseCounts, Separates, Passed, Waiting
<1>24. QED
  BY <1>13, <1>15, <1>16, <1>23 DEF ClusterInv

\* Nothing has arrived at first.
LEMMA InitCluster == Init => ClusterInv
<1> SUFFICES ASSUME Init PROVE ClusterInv
  OBVIOUS
<1> USE DEF Init
<1>1. /\ \A g \in Groups : Range(cluster.waiters[g]) = {}
      /\ \A w \in Warps : cluster.phase[w] = NoPhase /\ pc[w] = 0
  BY DEF NoClusterBarrier, Range
<1>2. IssuedKnown
  <2>1. kernel.groups \in Seq(Seq([1..WarpsPerCta -> Seq(Instructions)])) /\ DOMAIN kernel.groups \subseteq Groups
    BY KernelsAssumption
  <2> DEFINE P == [1..WarpsPerCta -> Seq(Instructions)]
  <2> HIDE DEF P
  <2>2. ASSUME NEW gs \in Seq(Seq(P)), NEW h \in DOMAIN gs PROVE 0 <= Len(gs[h])
    <3>1. gs[h] \in Seq(P)
      OBVIOUS
    <3>2. Len(gs[h]) \in Nat
      BY <3>1
    <3>3. QED
      BY <3>2
  <2>3. \A h \in DOMAIN kernel.groups : 0 <= CtaSize(h)
    BY <2>1, <2>2 DEF CtaSize, P
  <2>4. \A h \in DOMAIN kernel.groups : issued[h] = 0
    BY <2>1
  <2>5. QED
    BY <2>3, <2>4 DEF IssuedKnown
<1>3. RunsActive /\ StoresLater /\ PhaseCounts(cluster)
  BY <1>1 DEF RunsActive, StoresLater, PhaseCounts
<1>4. PhaseLeft(cluster) /\ WaitersHome(cluster)
  BY <1>1 DEF PhaseLeft, WaitersHome
<1>5. Separates(cluster)
  BY DEF Separates, Running, Warps
<1>6. QED
  BY <1>2, <1>3, <1>4, <1>5 DEF ClusterInv, PhaseInv

\* Every step keeps what the cluster barrier rests on.
LEMMA NextCluster == IndInv /\ IndInv' /\ ClusterInv /\ [Next]_vars => ClusterInv'
<1> SUFFICES ASSUME IndInv, IndInv', ClusterInv, [Next]_vars PROVE ClusterInv'
  OBVIOUS
<1>1. CASE UNCHANGED vars
  <2>1. UNCHANGED <<kernel, cta, threads, issued, pc, named, stores, hidden, cluster>>
    BY <1>1 DEF vars
  <2>2. \A v \in Warps : /\ Arrives(v)' = Arrives(v) /\ Executed(v)' = Executed(v)
                         /\ ArriveCount(v)' = ArriveCount(v) /\ WaitCount(v)' = WaitCount(v)
    BY <2>1, SameCounts
  <2>3. PICK x : x = cluster
    OBVIOUS
  <2>4. \A v \in Warps : Passed(x, v)' = Passed(x, v)
    BY <2>2 DEF Passed
  <2>5. IssuedKnown' /\ RunsActive' /\ PhaseLeft(x)' /\ WaitersHome(x)'
    BY <2>1, <2>3 DEF ClusterInv, PhaseInv, IssuedKnown, RunsActive, PhaseLeft, WaitersHome, CtaSize
  <2>6. StoresLater'
    BY <2>1, <2>2 DEF ClusterInv, StoresLater
  <2>7. PhaseCounts(x)'
    BY <2>1, <2>2, <2>3, <2>4 DEF ClusterInv, PhaseInv, PhaseCounts
  <2>8. Separates(x)'
    <3>1. \A g : CtaSize(g)' = CtaSize(g)
      BY <2>1 DEF CtaSize
    <3>2. Separates(x)
      BY <2>3 DEF ClusterInv, PhaseInv
    <3>3. ASSUME NEW v \in Warps, Running(v)' PROVE Separated(v, Passed(x, v))'
      <4>1. Separated(v, Passed(x, v))
        BY <2>1, <3>2, <3>3 DEF Separates, Running
      <4>2. PICK n : n = Passed(x, v)
        OBVIOUS
      <4>3. Separated(v, n)'
        BY <2>1, <2>2, <3>1, <4>1, <4>2 DEF Separated, Running
      <4>4. n = Passed(x, v)'
        BY <2>4, <4>2
      <4>5. QED
        BY <4>3, <4>4 DEF Separated
    <3>4. QED
      BY <3>3 DEF Separates
  <2>9. PhaseInv(cluster)'
    BY <2>1, <2>3, <2>5, <2>7, <2>8
       DEF PhaseInv, PhaseLeft, WaitersHome, PhaseCounts, Separates, Passed, Waiting
  <2>10. QED
    BY <2>5, <2>6, <2>9 DEF ClusterInv
<1>2. CASE process_named_arrivals
  BY <1>2, ProcessCluster
<1>3. CASE \E c \in Slots : issue_block2core(c) \/ release_pending_tma_ctas(c)
  BY <1>3, IssueBlockCluster, PendingCluster
<1>4. ASSUME NEW w \in Warps,
             \/ IssueStore(w) \/ IssueRemoteLoad(w) \/ IssueSync(w) \/ issue_named_arrival(w)
             \/ cluster_barrier_arrive(w) \/ cluster_barrier_wait(w) \/ Exit(w)
             \/ DelayedRelease(w) \/ StoresVisible(w) \/ dsm_on_tx_done(w)
             \/ register_cta_thread_exit(w)
             \/ \E i \in stores[w] : complete_shared_store(w, i)
      PROVE  ClusterInv'
  BY <1>4, IssueCluster, ArriveCluster, WaitCluster, ExitCluster, CompletionCluster, TxDoneCluster,
     RegisterCluster
<1>5. QED
  BY <1>1, <1>2, <1>3, <1>4 DEF Next

\* ClusterInv holds in every state.
LEMMA ClusterInvariance == Spec => []ClusterInv
<1>1. Init => ClusterInv
  BY InitCluster
<1>2. IndInv /\ IndInv' /\ ClusterInv /\ [Next]_vars => ClusterInv'
  BY NextCluster
<1>3. QED
  BY <1>1, <1>2, Invariance, PTL DEF Spec

\* barrier.cluster separates, whatever instructions the warps of the cluster run and
\* whichever exit early: a warp that has passed its k-th barrier.cluster.wait finds that
\* issue_block2core has issued every CTA of its group, that every warp of the group that has
\* not exited has executed k arrives, and that what such a warp stored before its
\* k-th arrive has left the pipeline and is visible.
THEOREM ClusterBarrierSeparates == Spec => []ClusterSeparates
<1>1. ClusterInv => ClusterSeparates
  BY DEF ClusterInv, PhaseInv, Separates, Separated, Passed, ArriveCount, WaitCount, ClusterSeparates
<1>2. QED
  BY <1>1, ClusterInvariance, PTL

-----------------------------------------------------------------------------
(* Named barriers. *)

\* Barrier b of slot c is used with bar.sync of the whole CTA only; the warps that use it;
\* every use of it counts them.
WholeBar(c, b) ==
    \A w \in WarpsOf(c) : \A i \in Uses(w, b) :
        Code(w)[i].op = "sync" /\ Code(w)[i].count = WholeCta
Users(c, b) == {j \in 1..WarpsPerCta : Uses(<<c, j>>, b) # {}}
CountedBar(c, b) ==
    \A w \in WarpsOf(c) : \A i \in Uses(w, b) : Code(w)[i].count = Cardinality(Users(c, b))

\* The uses of named barriers in the instructions of a warp; the uses of b it has executed,
\* and the bar.arrives at b that are on their way.
BarUses(w) == {i \in DOMAIN Code(w) : Code(w)[i].op \in {"sync", "arrive"}}
UseCount(w, b) == Cardinality(Uses(w, b) \cap Executed(w))
Owed(w, b) ==
    {i \in DOMAIN named_arrivals : named_arrivals[i].w = w /\ named_arrivals[i].bar = b}
\* The uses of b, by their rank, that are bar.sync.
SyncUses(w, b) == {k \in 1..Cardinality(Uses(w, b)) : Code(w)[Kth(Uses(w, b), k)].op = "sync"}

\* How far each warp has come at barrier b.
Place(w, b) == [reached |-> Reached(w, b), syncs |-> SyncUses(w, b), uses |-> Uses(w, b) # {}]
Progress(b) == [w \in Warps |-> Place(w, b)]

\* Barrier b of slot c has completed R times: a warp whose arrival is counted is one use
\* ahead, parked there if that use is bar.sync; of the others, nobody has executed a
\* later bar.sync, and those that take part are at their R-th use.
Round(s, P, c, b, whole, R) ==
    \A w \in WarpsOf(c) :
        /\ w \in s.arrived[b] => P[w].reached = R + 1 /\ (s.at[w] # b => R + 1 \notin P[w].syncs)
        /\ w \notin s.arrived[b] =>
              /\ \A k \in P[w].syncs : k <= P[w].reached => k <= R
              /\ w \in s.active /\ (P[w].uses \/ whole) => P[w].reached = R

\* The count of a barrier that is not of the whole CTA is the number of arrivals.
Here(s, c, b) == {j \in 1..WarpsPerCta : <<c, j>> \in s.arrived[b]}
BarrierKept(s, P, c, b, whole) ==
    /\ \E R \in Nat : Round(s, P, c, b, whole, R)
    /\ ~whole => s.count[c][b] = Cardinality(Here(s, c, b))
RoundsKept == \A c \in threads : \A b \in Bars : BarrierKept(named, Progress(b), c, b, WholeBar(c, b))

\* A bar.arrive on its way is the last use of a barrier its warp has executed, the only
\* one under way, and not counted yet.
LastUse(w, b, p) ==
    p \in Uses(w, b) \cap Executed(w) /\ \A q \in BarUses(w) \cap Executed(w) : q <= p
EntryKnown(i) ==
    LET e == named_arrivals[i]
    IN  /\ e.w \in named.active /\ e.w \notin named.arrived[e.bar]
        /\ \A j \in DOMAIN named_arrivals : named_arrivals[j].w = e.w => j = i
        /\ \E p \in Nat : /\ LastUse(e.w, e.bar, p)
                          /\ Code(e.w)[p].op = "arrive" /\ Code(e.w)[p].count = e.count
EntriesKnown == \A i \in DOMAIN named_arrivals : EntryKnown(i)

\* The stores of a warp before its last use of a barrier are visible.
StoresBehind ==
    \A w \in Warps : w[1] \in threads =>
        \A i \in stores[w] \cup hidden[w] : \A q \in BarUses(w) \cap Executed(w) : i > q

BarrierInv == RoundsKept /\ EntriesKnown /\ StoresBehind

\* What is known of how far the warps of a slot have come.
PlacesOK(P, c) ==
    \A w \in WarpsOf(c) : /\ P[w].reached \in Nat /\ P[w].syncs \subseteq Nat
                          /\ P[w].uses \in BOOLEAN /\ (P[w].reached > 0 => P[w].uses)

\* Nothing happens at the barrier.
LEMMA RoundSame ==
    ASSUME NEW s, NEW t, NEW P, NEW Q, NEW c, NEW b, NEW whole, BarrierKept(s, P, c, b, whole),
           \A w \in WarpsOf(c) :
               /\ Q[w] = P[w]
               /\ w \in t.arrived[b] <=> w \in s.arrived[b]
               /\ w \in t.active => w \in s.active
               /\ w \in s.arrived[b] /\ s.at[w] = b => t.at[w] = b,
           t.count[c][b] = s.count[c][b]
    PROVE  BarrierKept(t, Q, c, b, whole)
<1>1. PICK R \in Nat : Round(s, P, c, b, whole, R)
  BY DEF BarrierKept
<1>2. Round(t, Q, c, b, whole, R)
  BY <1>1 DEF Round
<1>3. Here(t, c, b) = Here(s, c, b)
  BY DEF Here, WarpsOf
<1>4. QED
  BY <1>2, <1>3 DEF BarrierKept

\* The barrier completes: every warp that takes part has arrived.
LEMMA RoundOver ==
    ASSUME NEW s, NEW t, NEW P, NEW Q, NEW c, NEW b, NEW whole, NEW R \in Nat,
           Round(s, P, c, b, whole, R), PlacesOK(P, c),
           \A w \in WarpsOf(c) :
               /\ Q[w] = P[w]
               /\ w \notin t.arrived[b]
               /\ w \in t.active => w \in s.active
               /\ w \in t.active /\ (P[w].uses \/ whole) => w \in s.arrived[b],
           t.count[c][b] = 0
    PROVE  BarrierKept(t, Q, c, b, whole)
<1>1. Round(t, Q, c, b, whole, R + 1)
  <2> SUFFICES ASSUME NEW w \in WarpsOf(c)
               PROVE  /\ \A k \in P[w].syncs : k <= P[w].reached => k <= R + 1
                      /\ w \in t.active /\ (P[w].uses \/ whole) => P[w].reached = R + 1
    BY DEF Round
  <2>1. P[w].reached \in Nat /\ P[w].syncs \subseteq Nat
    BY DEF PlacesOK
  <2>2. CASE w \in s.arrived[b]
    <3>1. P[w].reached = R + 1
      BY <2>2 DEF Round
    <3>2. QED
      BY <3>1
  <2>3. CASE w \notin s.arrived[b]
    <3>1. \A k \in P[w].syncs : k <= P[w].reached => k <= R
      BY <2>3 DEF Round
    <3>2. \A k \in P[w].syncs : k <= R => k <= R + 1
      BY <2>1
    <3>3. QED
      BY <2>3, <3>1, <3>2
  <2>4. QED
    BY <2>2, <2>3
<1>2. Here(t, c, b) = {}
  BY DEF Here, WarpsOf
<1>3. t.count[c][b] = Cardinality(Here(t, c, b))
  BY <1>2, FS_EmptySet
<1>4. QED
  BY <1>1, <1>3 DEF BarrierKept

\* Completing the barriers bs of slot c clears their arrivals and counts.
Completed(s, t, c, bs) ==
    /\ t.active = s.active
    /\ \A v \in Warps : t.at[v] = s.at[v] \/ (v[1] = c /\ s.at[v] \in bs)
    /\ \A v \in Warps : \A x \in Bars :
          v \in t.arrived[x] <=> v \in s.arrived[x] /\ ~(x \in bs /\ v[1] = c)
    /\ \A g \in Slots : \A x \in Bars :
          t.count[g][x] = IF x \in bs /\ g = c THEN 0 ELSE s.count[g][x]
LEMMA CompleteEffect ==
    ASSUME NEW s \in BarrierSets, NEW c \in Slots, NEW bs \in SUBSET Bars, NEW d,
           NEW t, t = Complete(s, c, bs, d)
    PROVE  Completed(s, t, c, bs)
<1> DEFINE here(b) == s.arrived[b] \cap WarpsOf(c)
           waiters == UNION {named_barrier_waiters(s, b, here(b)) : b \in bs}
           arr == [b \in Bars |-> IF b \in bs THEN s.arrived[b] \ here(b) ELSE s.arrived[b]]
           cnt == [s.count EXCEPT ![c] = [b \in Bars |-> IF b \in bs THEN 0 ELSE @[b]]]
           at == [w \in Warps |-> IF w \in waiters /\ ~d THEN NoBar ELSE s.at[w]]
           rel == [w \in Warps |-> IF w \in waiters /\ d THEN s.releases[w] + 1
                                   ELSE s.releases[w]]
<1>1. t = [active |-> s.active, at |-> at, arrived |-> arr, count |-> cnt, releases |-> rel]
  BY DEF Complete, clear_named_barrier_waiters
<1>0. \A v \in Warps : v \in waiters => v[1] = c /\ s.at[v] \in bs
  BY WarpsOfFacts DEF named_barrier_waiters
<1> HIDE DEF waiters, rel
<1>2. s.count \in [Slots -> [Bars -> Nat]]
  BY DEF BarrierSets
<1>3. \A v \in Warps : at[v] = s.at[v] \/ (v[1] = c /\ s.at[v] \in bs)
  BY <1>0
<1>4. \A v \in Warps : \A x \in Bars :
          v \in arr[x] <=> v \in s.arrived[x] /\ ~(x \in bs /\ v[1] = c)
  BY WarpsOfFacts
<1>5. \A g \in Slots : \A x \in Bars : cnt[g][x] = IF x \in bs /\ g = c THEN 0 ELSE s.count[g][x]
  BY <1>2
<1> HIDE DEF at, arr, cnt
<1>6. QED
  BY <1>1, <1>3, <1>4, <1>5 DEF Completed

\* An arrival is counted, or completes the barrier.
Reaches(s, t, w, type, b, n) ==
    /\ t.active = s.active
    /\ \A v \in Warps : \A x \in Bars : v[1] # w[1] \/ x # b =>
          /\ v \in t.arrived[x] <=> v \in s.arrived[x]
          /\ s.at[v] = x => t.at[v] = x
    /\ \A c \in Slots : \A x \in Bars : c # w[1] \/ x # b => t.count[c][x] = s.count[c][x]
    /\ \/ /\ \A v \in Warps : v \in t.arrived[b] <=> v \in s.arrived[b] \/ v = w
          /\ \A v \in Warps : v # w => t.at[v] = s.at[v]
          /\ type = "sync" => t.at[w] = b
          /\ n # WholeCta => t.count[w[1]][b] = s.count[w[1]][b] + 1
       \/ /\ \A v \in Warps : v[1] = w[1] => v \notin t.arrived[b]
          /\ t.count[w[1]][b] = 0
          /\ IF n = WholeCta
             THEN \A v \in Warps : v[1] = w[1] /\ v \in s.active => v \in s.arrived[b] \/ v = w
             ELSE s.count[w[1]][b] + 1 >= n
LEMMA ReachEffect ==
    ASSUME NEW s \in BarrierSets, NEW w \in Warps, s.at[w] = NoBar,
           NEW type, NEW b \in Bars, NEW n \in Nat \cup {WholeCta}, NEW d,
           NEW t, t = warp_reaches_barrier(s, w, type, b, n, d)
    PROVE  Reaches(s, t, w, type, b, n)
<1> DEFINE at == IF type = "sync" THEN [s.at EXCEPT ![w] = b] ELSE s.at
           arr == [s.arrived EXCEPT ![b] = @ \cup {w}]
           cnt == IF n = WholeCta THEN s.count ELSE [s.count EXCEPT ![w[1]][b] = @ + 1]
           u == [active |-> s.active, at |-> at, arrived |-> arr, count |-> cnt,
                 releases |-> s.releases]
<1>1. /\ s.active \in SUBSET Warps /\ s.at \in [Warps -> Bars \cup {NoBar}]
      /\ s.arrived \in [Bars -> SUBSET Warps] /\ s.count \in [Slots -> [Bars -> Nat]]
      /\ s.releases \in [Warps -> Nat] /\ w[1] \in Slots
  BY DEF BarrierSets, Warps
<1>2. at \in [Warps -> Bars \cup {NoBar}] /\ arr \in [Bars -> SUBSET Warps]
  BY <1>1
<1>3. cnt \in [Slots -> [Bars -> Nat]]
  BY <1>1
<1>4. /\ \A v \in Warps : v # w => at[v] = s.at[v]
      /\ at[w] = IF type = "sync" THEN b ELSE NoBar
  BY <1>1
<1>5. \A v \in Warps : \A x \in Bars : v \in arr[x] <=> v \in s.arrived[x] \/ (x = b /\ v = w)
  BY <1>1
<1>6. \A c \in Slots : \A x \in Bars :
          cnt[c][x] = s.count[c][x] + (IF n # WholeCta /\ c = w[1] /\ x = b THEN 1 ELSE 0)
  <2>1. CASE n = WholeCta
    <3>1. \A c \in Slots : \A x \in Bars : s.count[c][x] \in Nat
      BY <1>1
    <3>2. QED
      BY <2>1, <3>1
  <2>2. CASE n # WholeCta
    BY <1>1, <2>2
  <2>3. QED
    BY <2>1, <2>2
<1>7. t = IF EnoughArrived(u, w[1], b, n) THEN Complete(u, w[1], {b}, d) ELSE u
  BY DEF warp_reaches_barrier
<1>8. u.active = s.active /\ u.at = at /\ u.arrived = arr /\ u.count = cnt
  OBVIOUS
<1> HIDE DEF at, arr, cnt
<1>9. u \in BarrierSets
  BY <1>1, <1>2, <1>3 DEF BarrierSets
<1> HIDE DEF u
<1>10. \A x \in Bars : x # NoBar
  BY NamedBarrierAssumption
<1>11. CASE ~EnoughArrived(u, w[1], b, n)
  <2>1. t = u
    BY <1>7, <1>11
  <2>2. \A v \in Warps : \A x \in Bars : v[1] # w[1] \/ x # b =>
            (v \in arr[x] <=> v \in s.arrived[x]) /\ (s.at[v] = x => at[v] = x)
    BY <1>4, <1>5, <1>10
  <2>3. \A c \in Slots : \A x \in Bars : c # w[1] \/ x # b => cnt[c][x] = s.count[c][x]
    BY <1>1, <1>6
  <2>4. /\ \A v \in Warps : v \in arr[b] <=> v \in s.arrived[b] \/ v = w
        /\ type = "sync" => at[w] = b
        /\ n # WholeCta => cnt[w[1]][b] = s.count[w[1]][b] + 1
    BY <1>1, <1>4, <1>5, <1>6
  <2>5. QED
    BY <1>4, <1>8, <2>1, <2>2, <2>3, <2>4 DEF Reaches
<1>12. CASE EnoughArrived(u, w[1], b, n)
  <2>1. t = Complete(u, w[1], {b}, d)
    BY <1>7, <1>12
  <2>2. /\ t.active = u.active
        /\ \A v \in Warps : t.at[v] = u.at[v] \/ (v[1] = w[1] /\ u.at[v] = b)
        /\ \A v \in Warps : \A x \in Bars :
              v \in t.arrived[x] <=> v \in u.arrived[x] /\ ~(x \in {b} /\ v[1] = w[1])
        /\ \A g \in Slots : \A x \in Bars :
              t.count[g][x] = IF x \in {b} /\ g = w[1] THEN 0 ELSE u.count[g][x]
    <3>1. PICK bs \in SUBSET Bars, c \in Slots : bs = {b} /\ c = w[1]
      BY <1>1
    <3>2. t = Complete(u, c, bs, d)
      BY <2>1, <3>1
    <3>3. Completed(u, t, c, bs)
      BY <1>9, <3>2, CompleteEffect
    <3>4. QED
      BY <3>1, <3>3 DEF Completed
  <2>3. \A v \in Warps : \A x \in Bars : v[1] # w[1] \/ x # b =>
            (v \in t.arrived[x] <=> v \in s.arrived[x]) /\ (s.at[v] = x => t.at[v] = x)
    BY <1>4, <1>5, <1>8, <1>10, <2>2
  <2>4. \A c \in Slots : \A x \in Bars : c # w[1] \/ x # b => t.count[c][x] = s.count[c][x]
    BY <1>1, <1>6, <1>8, <2>2
  <2>5. IF n = WholeCta
        THEN \A v \in Warps : v[1] = w[1] /\ v \in s.active => v \in s.arrived[b] \/ v = w
        ELSE s.count[w[1]][b] + 1 >= n
    <3>1. CASE n = WholeCta
      <4>1. u.arrived[b] \cap WarpsOf(w[1]) = u.active \cap WarpsOf(w[1])
        BY <1>12, <3>1 DEF EnoughArrived, AllActiveArrived
      <4>2. \A v \in Warps : v \in WarpsOf(w[1]) <=> v[1] = w[1]
        BY <1>1, WarpsOfFacts
      <4>3. \A v \in Warps : v[1] = w[1] /\ v \in s.active => v \in arr[b]
        BY <1>8, <4>1, <4>2
      <4>4. QED
        BY <1>5, <3>1, <4>3
    <3>2. CASE n # WholeCta
      <4>1. u.count[w[1]][b] >= n
        BY <1>12, <3>2 DEF EnoughArrived
      <4>2. QED
        BY <1>1, <1>6, <1>8, <3>2, <4>1
    <3>3. QED
      BY <3>1, <3>2
  <2>6. t.count[w[1]][b] = 0 /\ \A v \in Warps : v[1] = w[1] => v \notin t.arrived[b]
    BY <1>1, <2>2
  <2>7. QED
    BY <1>8, <2>2, <2>3, <2>4, <2>5, <2>6 DEF Reaches
<1>13. QED
  BY <1>11, <1>12

\* A warp that is not parked leaves: a barrier stays as it is, or completes.
LEMMA ExitEffect ==
    ASSUME NEW s \in BarrierSets, NEW w \in Warps, s.at[w] = NoBar, NEW d,
           NEW t, t = warp_exit(s, w, d)
    PROVE  /\ t.active = s.active \ {w}
           /\ \A c \in Slots : \A x \in Bars :
                 \/ /\ \A v \in Warps : v[1] = c => /\ v \in t.arrived[x] <=> v \in s.arrived[x]
                                                    /\ s.at[v] = x => t.at[v] = x
                    /\ t.count[c][x] = s.count[c][x]
                 \/ /\ \A v \in Warps : v[1] = c => /\ v \notin t.arrived[x]
                                                    /\ v \in t.active => v \in s.arrived[x]
                    /\ t.count[c][x] = 0
<1> DEFINE u == [active |-> s.active \ {w}, at |-> [s.at EXCEPT ![w] = NoBar],
                 arrived |-> s.arrived, count |-> s.count, releases |-> s.releases]
           bs == {b \in Bars : AllActiveArrived(u, w[1], b)}
<1>1. /\ s.active \in SUBSET Warps /\ s.at \in [Warps -> Bars \cup {NoBar}]
      /\ s.arrived \in [Bars -> SUBSET Warps] /\ s.count \in [Slots -> [Bars -> Nat]]
      /\ s.releases \in [Warps -> Nat] /\ w[1] \in Slots
  BY DEF BarrierSets, Warps
<1>2. [s.at EXCEPT ![w] = NoBar] = s.at
  BY <1>1
<1>3. t = Complete(u, w[1], bs, d)
  BY DEF warp_exit
<1>4. u \in BarrierSets /\ u.active = s.active \ {w} /\ u.at = s.at /\ u.arrived = s.arrived
      /\ u.count = s.count
  BY <1>1, <1>2 DEF BarrierSets
<1> HIDE DEF u
<1>5. bs \in SUBSET Bars /\ \A x \in bs : u.arrived[x] \cap WarpsOf(w[1]) = u.active \cap WarpsOf(w[1])
  BY DEF AllActiveArrived
<1> HIDE DEF bs
<1>6. /\ t.active = u.active
      /\ \A v \in Warps : t.at[v] = u.at[v] \/ (v[1] = w[1] /\ u.at[v] \in bs)
      /\ \A v \in Warps : \A x \in Bars :
            v \in t.arrived[x] <=> v \in u.arrived[x] /\ ~(x \in bs /\ v[1] = w[1])
      /\ \A g \in Slots : \A x \in Bars :
            t.count[g][x] = IF x \in bs /\ g = w[1] THEN 0 ELSE u.count[g][x]
  <2>1. PICK g \in Slots : g = w[1]
    BY <1>1
  <2>2. t = Complete(u, g, bs, d)
    BY <1>3, <2>1
  <2>3. Completed(u, t, g, bs)
    BY <1>4, <1>5, <2>2, CompleteEffect
  <2>4. Completed(u, t, w[1], bs)
    BY <2>1, <2>3
  <2>5. QED
    BY ONLY <2>4, Zenon DEF Completed
<1>7. ASSUME NEW c \in Slots, NEW x \in Bars
      PROVE  \/ /\ \A v \in Warps : v[1] = c => /\ v \in t.arrived[x] <=> v \in s.arrived[x]
                                                /\ s.at[v] = x => t.at[v] = x
                /\ t.count[c][x] = s.count[c][x]
             \/ /\ \A v \in Warps : v[1] = c => /\ v \notin t.arrived[x]
                                                /\ v \in t.active => v \in s.arrived[x]
                /\ t.count[c][x] = 0
  <2>1. CASE x \in bs /\ c = w[1]
    <3>1. \A v \in Warps : v \in WarpsOf(c) <=> v[1] = c
      BY WarpsOfFacts
    <3>2. \A v \in Warps : v[1] = c /\ v \in t.active => v \in s.arrived[x]
      BY <1>4, <1>5, <1>6, <2>1, <3>1
    <3>3. QED
      BY <1>6, <2>1, <3>2
  <2>2. CASE ~(x \in bs /\ c = w[1])
    BY <1>4, <1>6, <2>2
  <2>3. QED
    BY <2>1, <2>2
<1>8. QED
  BY <1>4, <1>6, <1>7

\* A warp that takes part, and whose last arrival is consumed, arrives.
LEMMA RoundReach ==
    ASSUME NEW s, NEW u, NEW P, NEW Q, NEW c, NEW b, NEW whole, NEW R \in Nat, NEW w \in WarpsOf(c),
           Round(s, P, c, b, whole, R), w \in s.active, w \notin s.arrived[b], P[w].uses,
           \A v \in WarpsOf(c) :
               /\ v \in u.arrived[b] <=> v \in s.arrived[b] \/ v = w
               /\ v \in u.active => v \in s.active
               /\ v # w => u.at[v] = s.at[v] /\ Q[v] = P[v],
           Q[w].reached = P[w].reached + 1, Q[w].syncs = P[w].syncs,
           u.at[w] = b \/ P[w].reached + 1 \notin P[w].syncs
    PROVE  Round(u, Q, c, b, whole, R)
<1>1. P[w].reached = R
  BY DEF Round
<1>2. ASSUME NEW v \in WarpsOf(c), v # w
      PROVE  /\ v \in u.arrived[b] => Q[v].reached = R + 1 /\ (u.at[v] # b => R + 1 \notin Q[v].syncs)
             /\ v \notin u.arrived[b] =>
                   /\ \A k \in Q[v].syncs : k <= Q[v].reached => k <= R
                   /\ v \in u.active /\ (Q[v].uses \/ whole) => Q[v].reached = R
  BY <1>2 DEF Round
<1>3. w \in u.arrived[b] /\ Q[w].reached = R + 1 /\ (u.at[w] # b => R + 1 \notin Q[w].syncs)
  BY <1>1
<1>4. QED
  BY <1>2, <1>3 DEF Round

\* The positions of the warps whose arrivals are counted.
LEMMA HereFacts ==
    ASSUME NEW s, NEW c, NEW b
    PROVE  IsFiniteSet(Here(s, c, b)) /\ Cardinality(Here(s, c, b)) \in Nat
<1>1. WarpsPerCta \in Int /\ 1 \in Int
  BY NamedBarrierAssumption
<1>2. IsFiniteSet(1..WarpsPerCta) /\ Here(s, c, b) \in SUBSET (1..WarpsPerCta)
  BY <1>1, FS_Interval DEF Here
<1>3. IsFiniteSet(Here(s, c, b))
  BY <1>2, FS_Subset
<1>4. QED
  BY <1>3, FS_CardinalityType

\* What n says of a barrier used in one of the two ways.
CountIs(n, P, c, whole) ==
    IF whole THEN n = WholeCta
    ELSE n \in Nat /\ n = Cardinality({j \in 1..WarpsPerCta : P[<<c, j>>].uses})

\* Of the warps of slot c only w, if it is one of them, has come further, to b.
WarpMoves(P, Q, c, x, w, b, type, n, whole) ==
    /\ \A v \in WarpsOf(c) : v # w \/ x # b => Q[v] = P[v]
    /\ c = w[1] /\ x = b =>
          /\ Q[w].reached = P[w].reached + 1 /\ Q[w].syncs = P[w].syncs
          /\ Q[w].uses = P[w].uses /\ P[w].uses
          /\ type = "sync" \/ P[w].reached + 1 \notin P[w].syncs
          /\ CountIs(n, P, c, whole)

\* warp_reaches_barrier keeps what is known of every barrier.
ReachStep(s, t, w, type, b, n, d, P, Q, c, x, whole) ==
    /\ s \in BarrierSets /\ w \in Warps /\ s.at[w] = NoBar /\ w \in s.active
    /\ b \in Bars /\ w \notin s.arrived[b] /\ n \in Nat \cup {WholeCta}
    /\ t = warp_reaches_barrier(s, w, type, b, n, d)
    /\ c \in Slots /\ x \in Bars /\ whole \in BOOLEAN
    /\ BarrierKept(s, P, c, x, whole) /\ PlacesOK(P, c)
    /\ WarpMoves(P, Q, c, x, w, b, type, n, whole)
LEMMA ReachKept ==
    ASSUME NEW s, NEW t, NEW w, NEW type, NEW b, NEW n, NEW d, NEW P, NEW Q, NEW c, NEW x, NEW whole,
           ReachStep(s, t, w, type, b, n, d, P, Q, c, x, whole)
    PROVE  BarrierKept(t, Q, c, x, whole)
<1> SUFFICES ASSUME s \in BarrierSets, w \in Warps, s.at[w] = NoBar, w \in s.active,
                    b \in Bars, w \notin s.arrived[b], n \in Nat \cup {WholeCta},
                    t = warp_reaches_barrier(s, w, type, b, n, d),
                    c \in Slots, x \in Bars, whole \in BOOLEAN,
                    BarrierKept(s, P, c, x, whole), PlacesOK(P, c),
                    WarpMoves(P, Q, c, x, w, b, type, n, whole)
             PROVE  BarrierKept(t, Q, c, x, whole)
  BY DEF ReachStep
<1> USE DEF WarpMoves
<1>1. /\ t.active = s.active
      /\ \A v \in Warps : \A y \in Bars : v[1] # w[1] \/ y # b =>
            /\ v \in t.arrived[y] <=> v \in s.arrived[y]
            /\ s.at[v] = y => t.at[v] = y
      /\ \A g \in Slots : \A y \in Bars : g # w[1] \/ y # b => t.count[g][y] = s.count[g][y]
      /\ \/ /\ \A v \in Warps : v \in t.arrived[b] <=> v \in s.arrived[b] \/ v = w
            /\ \A v \in Warps : v # w => t.at[v] = s.at[v]
            /\ type = "sync" => t.at[w] = b
            /\ n # WholeCta => t.count[w[1]][b] = s.count[w[1]][b] + 1
         \/ /\ \A v \in Warps : v[1] = w[1] => v \notin t.arrived[b]
            /\ t.count[w[1]][b] = 0
            /\ IF n = WholeCta
               THEN \A v \in Warps : v[1] = w[1] /\ v \in s.active => v \in s.arrived[b] \/ v = w
               ELSE s.count[w[1]][b] + 1 >= n
  <2>1. Reaches(s, t, w, type, b, n)
    BY ReachEffect
  <2>2. QED
    BY <2>1 DEF Reaches
<1>2. WarpsOf(c) \subseteq Warps /\ \A v \in Warps : v \in WarpsOf(c) <=> v[1] = c
  BY WarpsOfFacts
<1>3. CASE ~(c = w[1] /\ x = b)
  <2>1. \A v \in WarpsOf(c) : /\ Q[v] = P[v]
                              /\ v \in t.arrived[x] <=> v \in s.arrived[x]
                              /\ v \in t.active => v \in s.active
                              /\ v \in s.arrived[x] /\ s.at[v] = x => t.at[v] = x
    BY <1>1, <1>2, <1>3
  <2>2. t.count[c][x] = s.count[c][x]
    BY <1>1, <1>3
  <2>3. QED
    BY <2>1, <2>2, RoundSame
<1>4. CASE c = w[1] /\ x = b
  <2>1. PICK R \in Nat : Round(s, P, c, b, whole, R)
    BY <1>4 DEF BarrierKept
  <2>2. w \in WarpsOf(c) /\ w = <<c, w[2]>> /\ w[2] \in 1..WarpsPerCta
    BY <1>2, <1>4 DEF Warps
  <2>3. /\ Q[w].reached = P[w].reached + 1 /\ Q[w].syncs = P[w].syncs
        /\ Q[w].uses = P[w].uses /\ P[w].uses
        /\ type = "sync" \/ P[w].reached + 1 \notin P[w].syncs
        /\ \A v \in WarpsOf(c) : v # w => Q[v] = P[v]
    BY <1>4
  <2>4. Here(s, c, b) \cup {w[2]} \subseteq {j \in 1..WarpsPerCta : P[<<c, j>>].uses}
    <3>1. ASSUME NEW j \in Here(s, c, b) PROVE P[<<c, j>>].uses
      <4>1. <<c, j>> \in WarpsOf(c) /\ <<c, j>> \in s.arrived[b]
        BY <3>1 DEF Here, WarpsOf
      <4>2. P[<<c, j>>].reached = R + 1
        BY <2>1, <4>1 DEF Round
      <4>3. QED
        BY <4>1, <4>2 DEF PlacesOK
    <3>2. QED
      BY <2>2, <2>3, <3>1 DEF Here
  <2>5. w[2] \notin Here(s, c, b)
    BY <2>2 DEF Here
  <2>6. Cardinality(Here(s, c, b) \cup {w[2]}) = Cardinality(Here(s, c, b)) + 1
    BY <2>5, HereFacts, FS_AddElement
  <2>7. CountIs(n, P, c, whole) /\ (~whole => s.count[c][b] = Cardinality(Here(s, c, b)))
    BY <1>4 DEF BarrierKept
  <2>8. CASE /\ \A v \in Warps : v \in t.arrived[b] <=> v \in s.arrived[b] \/ v = w
             /\ \A v \in Warps : v # w => t.at[v] = s.at[v]
             /\ type = "sync" => t.at[w] = b
             /\ n # WholeCta => t.count[w[1]][b] = s.count[w[1]][b] + 1
    <3>1. Round(t, Q, c, b, whole, R)
      <4>1. \A v \in WarpsOf(c) : /\ v \in t.arrived[b] <=> v \in s.arrived[b] \/ v = w
                                  /\ v \in t.active => v \in s.active
                                  /\ v # w => t.at[v] = s.at[v] /\ Q[v] = P[v]
        BY <1>1, <1>2, <2>3, <2>8
      <4>2. t.at[w] = b \/ P[w].reached + 1 \notin P[w].syncs
        BY <2>3, <2>8
      <4>3. QED
        BY <2>1, <2>2, <2>3, <4>1, <4>2, RoundReach
    <3>2. ASSUME ~whole PROVE t.count[c][b] = Cardinality(Here(t, c, b))
      <4>1. Here(t, c, b) = Here(s, c, b) \cup {w[2]}
        <5>1. \A j \in 1..WarpsPerCta : <<c, j>> \in Warps /\ (<<c, j>> = w <=> j = w[2])
          BY <2>2 DEF Warps
        <5>2. QED
          BY <2>2, <2>8, <5>1 DEF Here
      <4>2. n # WholeCta
        BY <2>7, <3>2, NamedBarrierAssumption DEF CountIs
      <4>3. QED
        BY <1>4, <2>6, <2>7, <2>8, <3>2, <4>1, <4>2
    <3>3. QED
      BY <1>4, <3>1, <3>2 DEF BarrierKept
  <2>9. CASE /\ \A v \in Warps : v[1] = w[1] => v \notin t.arrived[b]
             /\ t.count[w[1]][b] = 0
             /\ IF n = WholeCta
                THEN \A v \in Warps : v[1] = w[1] /\ v \in s.active => v \in s.arrived[b] \/ v = w
                ELSE s.count[w[1]][b] + 1 >= n
    <3> DEFINE u == [active |-> s.active, at |-> [s.at EXCEPT ![w] = b],
                     arrived |-> [s.arrived EXCEPT ![b] = @ \cup {w}]]
    <3>1. u.active = s.active /\ u.at[w] = b /\ (\A v \in Warps : v # w => u.at[v] = s.at[v])
          /\ \A v \in Warps : v \in u.arrived[b] <=> v \in s.arrived[b] \/ v = w
      BY DEF BarrierSets
    <3> HIDE DEF u
    <3>2. Round(u, Q, c, b, whole, R)
      <4>1. \A v \in WarpsOf(c) : /\ v \in u.arrived[b] <=> v \in s.arrived[b] \/ v = w
                                  /\ v \in u.active => v \in s.active
                                  /\ v # w => u.at[v] = s.at[v] /\ Q[v] = P[v]
        BY <1>2, <2>3, <3>1
      <4>2. QED
        BY <2>1, <2>2, <2>3, <3>1, <4>1, RoundReach
    <3>3. PlacesOK(Q, c)
      <4>1. ASSUME NEW v \in WarpsOf(c)
            PROVE  /\ Q[v].reached \in Nat /\ Q[v].syncs \subseteq Nat
                   /\ Q[v].uses \in BOOLEAN /\ (Q[v].reached > 0 => Q[v].uses)
        <5>1. CASE v = w
          <6>1. P[w].reached \in Nat /\ P[w].syncs \subseteq Nat /\ P[w].uses \in BOOLEAN
            BY <2>2 DEF PlacesOK
          <6>2. Q[w].reached \in Nat /\ Q[w].syncs \subseteq Nat
            BY <2>3, <6>1
          <6>3. Q[w].uses = TRUE
            BY <2>3, <6>1
          <6>4. QED
            BY <5>1, <6>2, <6>3, Zenon
        <5>2. CASE v # w
          BY <2>3, <5>2 DEF PlacesOK
        <5>3. QED
          BY <5>1, <5>2
      <4>2. QED
        BY <4>1, Zenon DEF PlacesOK
    <3>4. ASSUME NEW v \in WarpsOf(c), v \in t.active, Q[v].uses \/ whole PROVE v \in u.arrived[b]
      <4>1. CASE whole
        <5>1. n = WholeCta
          BY <2>7, <4>1 DEF CountIs
        <5>2. QED
          BY <1>1, <1>2, <1>4, <2>9, <3>1, <3>4, <5>1
      <4>2. CASE ~whole
        <5>1. PICK H, U : H = Here(s, c, b) \cup {w[2]} /\ U = {j \in 1..WarpsPerCta : P[<<c, j>>].uses}
          OBVIOUS
        <5>2. IsFiniteSet(U) /\ H \in SUBSET U /\ Cardinality(U) \in Nat
          <6>1. 1 \in Int /\ WarpsPerCta \in Int
            BY NamedBarrierAssumption
          <6>2. IsFiniteSet(1..WarpsPerCta) /\ U \in SUBSET (1..WarpsPerCta)
            BY <5>1, <6>1, FS_Interval
          <6>3. IsFiniteSet(U)
            BY <6>2, FS_Subset
          <6>4. QED
            BY <2>4, <5>1, <6>3, FS_CardinalityType
        <5>3. n # WholeCta /\ n = Cardinality(U)
          BY <2>7, <4>2, <5>1, NamedBarrierAssumption DEF CountIs
        <5>4. Cardinality(H) >= Cardinality(U) /\ Cardinality(H) \in Nat
          BY <1>4, <2>6, <2>7, <2>9, <4>2, <5>1, <5>3, HereFacts
        <5>5. H = U
          BY <5>2, <5>4, FS_Subset
        <5>6. v = <<c, v[2]>> /\ v[2] \in 1..WarpsPerCta /\ P[v].uses /\ v \in Warps
          BY <1>2, <2>3, <3>4, <4>2 DEF WarpsOf
        <5>7. v[2] \in H
          BY <5>1, <5>5, <5>6
        <5>8. v \in s.arrived[b] \/ v = w
          BY <2>2, <5>1, <5>6, <5>7 DEF Here
        <5>9. QED
          BY <3>1, <5>6, <5>8
      <4>3. QED
        BY <4>1, <4>2
    <3>5. t.count[c][b] = 0 /\ \A v \in WarpsOf(c) : v \notin t.arrived[b] /\ (v \in t.active => v \in u.active)
      BY <1>1, <1>2, <1>4, <2>9, <3>1
    <3>6. BarrierKept(t, Q, c, b, whole)
      BY <3>2, <3>3, <3>4, <3>5, RoundOver
    <3>7. QED
      BY <1>4, <3>6
  <2>10. QED
    BY <1>1, <2>8, <2>9
<1>5. QED
  BY <1>3, <1>4

\* So does warp_exit.
LEMMA ExitKept ==
    ASSUME NEW s \in BarrierSets, NEW w \in Warps, s.at[w] = NoBar, NEW d, NEW t, t = warp_exit(s, w, d),
           NEW P, NEW c \in Slots, NEW x \in Bars, NEW whole \in BOOLEAN,
           BarrierKept(s, P, c, x, whole), PlacesOK(P, c)
    PROVE  BarrierKept(t, P, c, x, whole)
<1>1. /\ t.active = s.active \ {w}
      /\ \A g \in Slots : \A y \in Bars :
            \/ /\ \A v \in Warps : v[1] = g => /\ v \in t.arrived[y] <=> v \in s.arrived[y]
                                               /\ s.at[v] = y => t.at[v] = y
               /\ t.count[g][y] = s.count[g][y]
            \/ /\ \A v \in Warps : v[1] = g => /\ v \notin t.arrived[y]
                                               /\ v \in t.active => v \in s.arrived[y]
               /\ t.count[g][y] = 0
  BY ExitEffect
<1>2. WarpsOf(c) \subseteq Warps /\ \A v \in Warps : v \in WarpsOf(c) <=> v[1] = c
  BY WarpsOfFacts
<1>3. CASE /\ \A v \in Warps : v[1] = c => /\ v \in t.arrived[x] <=> v \in s.arrived[x]
                                           /\ s.at[v] = x => t.at[v] = x
           /\ t.count[c][x] = s.count[c][x]
  <2>1. \A v \in WarpsOf(c) : /\ v \in t.arrived[x] <=> v \in s.arrived[x]
                              /\ v \in t.active => v \in s.active
                              /\ v \in s.arrived[x] /\ s.at[v] = x => t.at[v] = x
    BY <1>1, <1>2, <1>3, NamedBarrierAssumption
  <2>2. QED
    BY <1>3, <2>1, RoundSame
<1>4. CASE /\ \A v \in Warps : v[1] = c => /\ v \notin t.arrived[x]
                                           /\ v \in t.active => v \in s.arrived[x]
           /\ t.count[c][x] = 0
  <2>1. \A v \in WarpsOf(c) : /\ v \notin t.arrived[x]
                              /\ v \in t.active => v \in s.active
                              /\ v \in t.active /\ (P[v].uses \/ whole) => v \in s.arrived[x]
    BY <1>1, <1>2, <1>4
  <2>2. PICK R \in Nat : Round(s, P, c, x, whole, R)
    BY DEF BarrierKept
  <2>3. QED
    BY <1>4, <2>1, <2>2, RoundOver
<1>5. QED
  BY <1>1, <1>3, <1>4

\* What a warp of a slot with threads has executed of the uses of barrier b.
LEMMA UseFacts ==
    ASSUME IndInv, NEW v \in Warps, v[1] \in threads, NEW b
    PROVE  /\ \E n \in Nat : DOMAIN Code(v) = 1..n
           /\ Uses(v, b) \subseteq BarUses(v) /\ BarUses(v) \subseteq DOMAIN Code(v)
           /\ IsFiniteSet(Uses(v, b)) /\ Cardinality(Uses(v, b)) \in Nat
           /\ IsFiniteSet(Uses(v, b) \cap Executed(v)) /\ UseCount(v, b) \in Nat
           /\ UseCount(v, b) <= Cardinality(Uses(v, b))
           /\ \A i \in Executed(v) : \A j \in DOMAIN Code(v) : j <= i => j \in Executed(v)
<1>1. Code(v) \in Seq(Instructions) /\ pc[v] \in Nat
  BY CodeType DEF IndInv, TypeOK
<1>2. PICK n \in Nat : DOMAIN Code(v) = 1..n
  BY <1>1
<1>3. Uses(v, b) \subseteq BarUses(v) /\ BarUses(v) \subseteq DOMAIN Code(v)
  BY DEF Uses, BarUses
<1>4. IsFiniteSet(Uses(v, b))
  <2>1. IsFiniteSet(1..n)
    BY FS_Interval
  <2>2. QED
    BY <1>2, <1>3, <2>1, FS_Subset
<1>5. Uses(v, b) \cap Executed(v) \in SUBSET Uses(v, b)
  OBVIOUS
<1>6. /\ IsFiniteSet(Uses(v, b) \cap Executed(v)) /\ UseCount(v, b) \in Nat
      /\ Cardinality(Uses(v, b)) \in Nat /\ UseCount(v, b) <= Cardinality(Uses(v, b))
  BY <1>4, <1>5, FS_Subset, FS_CardinalityType DEF UseCount
<1>7. \A i \in Executed(v) : \A j \in DOMAIN Code(v) : j <= i => j \in Executed(v)
  <2>1. CASE pc[v] = 0
    BY <2>1 DEF Executed
  <2>2. CASE pc[v] # 0
    BY <1>1, <1>2, <2>2 DEF Executed
  <2>3. QED
    BY <2>1, <2>2
<1>8. QED
  BY <1>2, <1>3, <1>4, <1>6, <1>7

\* The last of the first members of a set of positions.
LEMMA RankOfLast ==
    ASSUME NEW n \in Nat, NEW S \in SUBSET (1..n), NEW E, NEW p \in S \cap E,
           \A q \in S \cap E : q <= p, \A j \in S : j <= p => j \in E
    PROVE  Cardinality(S \cap E) \in 1..Cardinality(S) /\ Kth(S, Cardinality(S \cap E)) = p
<1> DEFINE k == Cardinality(S \cap E)
<1>1. IsFiniteSet(S) /\ IsFiniteSet(S \cap E)
  <2>1. IsFiniteSet(1..n)
    BY FS_Interval
  <2>2. IsFiniteSet(S)
    BY <2>1, FS_Subset
  <2>3. QED
    BY <2>2, FS_Subset
<1>2. {m \in S : m <= p} = S \cap E
  OBVIOUS
<1>3. k \in Nat /\ k # 0 /\ Cardinality(S) \in Nat /\ k <= Cardinality(S)
  <2>1. S \cap E # {} /\ S \cap E \in SUBSET S
    OBVIOUS
  <2>2. QED
    BY <1>1, <2>1, FS_EmptySet, FS_Subset, FS_CardinalityType
<1>4. k \in 1..Cardinality(S)
  BY <1>3
<1>5. Kth(S, k) \in S /\ Cardinality({i \in S : i <= Kth(S, k)}) = k
  BY <1>4, KthMember
<1>6. PICK j : j = Kth(S, k)
  OBVIOUS
<1>7. j \in S /\ Cardinality({m \in S : m <= j}) = Cardinality({m \in S : m <= p})
  BY <1>2, <1>5, <1>6
<1>8. j = p
  <2>1. p \in S
    OBVIOUS
  <2>2. \A x \in S : \A y \in S :
            Cardinality({m \in S : m <= x}) = Cardinality({m \in S : m <= y}) => x = y
    BY RankUnique
  <2>3. QED
    BY ONLY <1>7, <2>1, <2>2
<1>9. QED
  BY <1>4, <1>6, <1>8

\* A warp has at most one bar.arrive at a barrier on its way.
LEMMA OwedFacts ==
    ASSUME IndInv, EntriesKnown, NEW v \in Warps, v[1] \in threads, NEW b
    PROVE  \/ Owed(v, b) = {} /\ Reached(v, b) = UseCount(v, b)
           \/ \E i \in DOMAIN named_arrivals :
                 /\ named_arrivals[i].w = v /\ named_arrivals[i].bar = b
                 /\ Reached(v, b) = UseCount(v, b) - 1 /\ UseCount(v, b) > 0
<1>1. UseCount(v, b) \in Nat /\ IsFiniteSet(Uses(v, b) \cap Executed(v))
  BY UseFacts
<1>2. Reached(v, b) = UseCount(v, b) - Cardinality(Owed(v, b))
  BY DEF Reached, UseCount, Owed
<1>3. CASE Owed(v, b) = {}
  BY <1>1, <1>2, <1>3, FS_EmptySet
<1>4. ASSUME NEW i \in Owed(v, b)
      PROVE  /\ i \in DOMAIN named_arrivals /\ named_arrivals[i].w = v /\ named_arrivals[i].bar = b
             /\ Reached(v, b) = UseCount(v, b) - 1 /\ UseCount(v, b) > 0
  <2>1. i \in DOMAIN named_arrivals /\ named_arrivals[i].w = v /\ named_arrivals[i].bar = b
    BY <1>4 DEF Owed
  <2>2. EntryKnown(i)
    BY <2>1 DEF EntriesKnown
  <2>3. Owed(v, b) = {i}
    BY <2>1, <2>2 DEF EntryKnown, Owed
  <2>4. Cardinality(Owed(v, b)) = 1
    BY <2>3, FS_Singleton
  <2>5. Uses(v, b) \cap Executed(v) # {}
    BY <2>1, <2>2 DEF EntryKnown, LastUse
  <2>6. UseCount(v, b) # 0
    BY <1>1, <2>5, FS_EmptySet DEF UseCount
  <2>7. QED
    BY <1>1, <1>2, <2>1, <2>4, <2>6
<1>5. QED
  BY <1>3, <1>4

\* How far the warps of a slot with threads have come.
LEMMA PlacesKnown ==
    ASSUME IndInv, EntriesKnown, NEW c \in threads, NEW b, NEW P, P = Progress(b)
    PROVE  PlacesOK(P, c)
<1>1. WarpsOf(c) \subseteq Warps /\ c \in Slots
  BY WarpsOfFacts DEF IndInv, TypeOK
<1>2. ASSUME NEW v \in WarpsOf(c)
      PROVE  /\ P[v].reached \in Nat /\ P[v].syncs \subseteq Nat
             /\ P[v].uses \in BOOLEAN /\ (P[v].reached > 0 => P[v].uses)
  <2>1. v \in Warps /\ v[1] \in threads
    BY <1>1, WarpsOfFacts
  <2>2. P[v] = Place(v, b)
    BY <2>1 DEF Progress
  <2>3. /\ P[v].reached = Reached(v, b) /\ P[v].syncs = SyncUses(v, b)
        /\ P[v].uses = (Uses(v, b) # {})
    BY <2>2 DEF Place
  <2>4. /\ UseCount(v, b) \in Nat /\ Cardinality(Uses(v, b)) \in Nat /\ IsFiniteSet(Uses(v, b))
        /\ UseCount(v, b) <= Cardinality(Uses(v, b))
    BY <2>1, UseFacts
  <2>5. Reached(v, b) \in Nat /\ Reached(v, b) <= UseCount(v, b)
    <3>1. \/ Reached(v, b) = UseCount(v, b)
          \/ Reached(v, b) = UseCount(v, b) - 1 /\ UseCount(v, b) > 0
      BY <2>1, OwedFacts
    <3>2. QED
      BY <2>4, <3>1
  <2>6. SyncUses(v, b) \subseteq Nat
    BY <2>4 DEF SyncUses
  <2>7. Reached(v, b) > 0 => Uses(v, b) # {}
    <3>1. Uses(v, b) = {} => Cardinality(Uses(v, b)) = 0
      BY FS_EmptySet
    <3>2. QED
      BY <2>4, <2>5, <3>1
  <2>8. QED
    BY <2>3, <2>5, <2>6, <2>7, Zenon
<1>3. QED
  BY <1>2, Zenon DEF PlacesOK

\* The count an instruction gives is the one all uses of the barrier agree on.
LEMMA CountKnown ==
    ASSUME IndInv, KernelsWellFormed, NEW w \in Warps, w[1] \in threads, NEW b \in Bars,
           NEW p \in Uses(w, b), NEW P, P = Progress(b)
    PROVE  CountIs(Code(w)[p].count, P, w[1], WholeBar(w[1], b))
<1>1. PICK c : c = w[1]
  OBVIOUS
<1>2. c \in Slots /\ cta[c] # Free /\ kernel \in Kernels
  BY <1>1 DEF IndInv, TypeOK, Warps
<1>3. PICK g, r : g = cta[c].g /\ r = cta[c].r
  OBVIOUS
<1>4. g \in DOMAIN kernel.groups /\ r \in DOMAIN kernel.groups[g]
  BY <1>2, <1>3 DEF IndInv, TypeOK
<1>5. PICK code : code = kernel.groups[g][r]
  OBVIOUS
<1>6. \A j \in 1..WarpsPerCta : /\ <<c, j>> \in Warps /\ Code(<<c, j>>) = code[j]
                                /\ Uses(<<c, j>>, b) = UsesIn(code[j], b)
  BY <1>2, <1>3, <1>5 DEF Warps, Code, Uses, UsesIn
<1>7. \A v \in WarpsOf(c) : v = <<c, v[2]>> /\ v[2] \in 1..WarpsPerCta
  BY DEF WarpsOf
<1>8. w \in WarpsOf(c)
  BY <1>1, <1>2, WarpsOfFacts
<1>9. \/ \A j \in 1..WarpsPerCta : \A i \in UsesIn(code[j], b) :
            code[j][i].op = "sync" /\ code[j][i].count = WholeCta
      \/ \A j \in 1..WarpsPerCta : \A i \in UsesIn(code[j], b) :
            code[j][i].count = Cardinality(UsersIn(code, b))
  <2>1. UsedOneWay(code, b)
    BY <1>2, <1>4, <1>5 DEF KernelsWellFormed
  <2>2. QED
    BY <2>1 DEF UsedOneWay
<1>10. WholeBar(c, b) \/ CountedBar(c, b)
  <2>1. Users(c, b) = UsersIn(code, b)
    BY <1>6 DEF Users, UsersIn
  <2>2. CASE \A j \in 1..WarpsPerCta : \A i \in UsesIn(code[j], b) :
                 code[j][i].op = "sync" /\ code[j][i].count = WholeCta
    <3>1. ASSUME NEW v \in WarpsOf(c), NEW i \in Uses(v, b)
          PROVE  Code(v)[i].op = "sync" /\ Code(v)[i].count = WholeCta
      <4>1. PICK j \in 1..WarpsPerCta : v = <<c, j>>
        BY <1>7
      <4>2. Code(v) = code[j] /\ i \in UsesIn(code[j], b)
        BY <1>6, <3>1, <4>1
      <4>3. QED
        BY <2>2, <4>2
    <3>2. QED
      BY <3>1 DEF WholeBar
  <2>3. CASE \A j \in 1..WarpsPerCta : \A i \in UsesIn(code[j], b) :
                 code[j][i].count = Cardinality(UsersIn(code, b))
    <3>1. ASSUME NEW v \in WarpsOf(c), NEW i \in Uses(v, b)
          PROVE  Code(v)[i].count = Cardinality(Users(c, b))
      <4>1. PICK j \in 1..WarpsPerCta : v = <<c, j>>
        BY <1>7
      <4>2. Code(v) = code[j] /\ i \in UsesIn(code[j], b)
        BY <1>6, <3>1, <4>1
      <4>3. QED
        BY <2>1, <2>3, <4>2
    <3>2. QED
      BY <3>1 DEF CountedBar
  <2>4. QED
    BY <1>9, <2>2, <2>3
<1>11. Users(c, b) = {j \in 1..WarpsPerCta : P[<<c, j>>].uses}
  <2>1. ASSUME NEW j \in 1..WarpsPerCta PROVE P[<<c, j>>].uses = (Uses(<<c, j>>, b) # {})
    BY <1>6 DEF Progress, Place
  <2>2. QED
    BY <2>1 DEF Users
<1>12. Cardinality(Users(c, b)) \in Nat
  <2>1. 1 \in Int /\ WarpsPerCta \in Int
    BY NamedBarrierAssumption
  <2>2. IsFiniteSet(1..WarpsPerCta) /\ Users(c, b) \in SUBSET (1..WarpsPerCta)
    BY <2>1, FS_Interval DEF Users
  <2>3. QED
    BY <2>2, FS_Subset, FS_CardinalityType
<1>13. CASE WholeBar(c, b)
  BY <1>1, <1>8, <1>13 DEF CountIs, WholeBar
<1>14. CASE ~WholeBar(c, b)
  <2>1. Code(w)[p].count = Cardinality(Users(c, b))
    BY <1>8, <1>10, <1>14 DEF CountedBar
  <2>2. QED
    BY <1>1, <1>11, <1>12, <1>14, <2>1 DEF CountIs
<1>15. QED
  BY <1>13, <1>14

\* The instructions of a warp stay what they are as long as its slot keeps its CTA.
LEMMA CodeSame ==
    ASSUME NEW v, kernel' = kernel, cta'[v[1]] = cta[v[1]]
    PROVE  /\ Code(v)' = Code(v) /\ BarUses(v)' = BarUses(v)
           /\ \A b : Uses(v, b)' = Uses(v, b) /\ SyncUses(v, b)' = SyncUses(v, b)
<1>1. Code(v)' = Code(v)
  BY DEF Code
<1>2. BarUses(v)' = BarUses(v) /\ \A b : Uses(v, b)' = Uses(v, b)
  BY <1>1 DEF BarUses, Uses
<1>3. \A b : SyncUses(v, b)' = SyncUses(v, b)
  BY <1>1, <1>2 DEF SyncUses
<1>4. QED
  BY <1>1, <1>2, <1>3

\* So does the way a barrier of the slot is used.
LEMMA WholeSame ==
    ASSUME NEW c \in Slots, kernel' = kernel, cta'[c] = cta[c], NEW b
    PROVE  \E whole \in BOOLEAN : whole = WholeBar(c, b) /\ whole = WholeBar(c, b)'
<1>1. \A v \in WarpsOf(c) : Code(v)' = Code(v) /\ Uses(v, b)' = Uses(v, b)
  <2>1. \A v \in WarpsOf(c) : v[1] = c
    BY DEF WarpsOf
  <2>2. QED
    BY <2>1, CodeSame
<1>2. WholeBar(c, b)' <=> WholeBar(c, b)
  BY <1>1 DEF WholeBar
<1>3. WholeBar(c, b) \in BOOLEAN /\ WholeBar(c, b)' \in BOOLEAN
  BY DEF WholeBar
<1>4. QED
  BY <1>2, <1>3

\* A warp has come as far as before when it has reached as many uses.
LEMMA PlaceSame ==
    ASSUME NEW v \in Warps, kernel' = kernel, cta'[v[1]] = cta[v[1]], NEW b,
           Reached(v, b)' = Reached(v, b)
    PROVE  Progress(b)'[v] = Progress(b)[v]
<1>1. Uses(v, b)' = Uses(v, b) /\ SyncUses(v, b)' = SyncUses(v, b)
  BY CodeSame
<1>2. Place(v, b)' = Place(v, b)
  BY <1>1 DEF Place
<1>3. QED
  BY <1>2 DEF Progress

\* Nothing happens at barrier b of slot c.
LEMMA RoundCarried ==
    ASSUME RoundsKept, NEW c \in threads, c \in Slots, kernel' = kernel, cta'[c] = cta[c],
           NEW b \in Bars,
           \A v \in WarpsOf(c) :
               /\ Reached(v, b)' = Reached(v, b)
               /\ v \in named'.arrived[b] <=> v \in named.arrived[b]
               /\ v \in named'.active => v \in named.active
               /\ v \in named.arrived[b] /\ named.at[v] = b => named'.at[v] = b,
           named'.count[c][b] = named.count[c][b]
    PROVE  BarrierKept(named', Progress(b)', c, b, WholeBar(c, b)')
<1>1. PICK whole \in BOOLEAN : whole = WholeBar(c, b) /\ whole = WholeBar(c, b)'
  BY WholeSame
<1>2. PICK s, t, P, Q : s = named /\ t = named' /\ P = Progress(b) /\ Q = Progress(b)'
  OBVIOUS
<1>3. BarrierKept(s, P, c, b, whole)
  BY <1>1, <1>2 DEF RoundsKept
<1>4. \A v \in WarpsOf(c) : Q[v] = P[v]
  <2>1. \A v \in WarpsOf(c) : v \in Warps /\ v[1] = c
    BY WarpsOfFacts
  <2>2. QED
    BY <1>2, <2>1, PlaceSame
<1>5. \A v \in WarpsOf(c) : /\ Q[v] = P[v]
                            /\ v \in t.arrived[b] <=> v \in s.arrived[b]
                            /\ v \in t.active => v \in s.active
                            /\ v \in s.arrived[b] /\ s.at[v] = b => t.at[v] = b
  BY <1>2, <1>4
<1>6. t.count[c][b] = s.count[c][b]
  BY <1>2
<1>7. BarrierKept(t, Q, c, b, whole)
  BY <1>3, <1>5, <1>6, RoundSame
<1>8. QED
  BY <1>1, <1>2, <1>7

\* Warp w reaches barrier b with the instruction at p, nobody else moves.
LEMMA ReachRounds ==
    ASSUME IndInv, RoundsKept, EntriesKnown, KernelsWellFormed, kernel' = kernel, cta' = cta,
           NEW w \in Warps, w[1] \in threads, named.at[w] = NoBar, w \in named.active,
           NEW b \in Bars, w \notin named.arrived[b], NEW p \in Uses(w, b),
           NEW type, NEW n \in Nat \cup {WholeCta}, n = Code(w)[p].count,
           NEW d, NEW t, t = warp_reaches_barrier(named, w, type, b, n, d),
           \A v \in Warps : \A x \in Bars : v # w \/ x # b => Reached(v, x)' = Reached(v, x),
           Reached(w, b)' = Reached(w, b) + 1,
           type = "sync" \/ Reached(w, b) + 1 \notin SyncUses(w, b)
    PROVE  \A c \in threads : \A x \in Bars : BarrierKept(t, Progress(x)', c, x, WholeBar(c, x)')
<1> SUFFICES ASSUME NEW c \in threads, NEW x \in Bars
             PROVE  BarrierKept(t, Progress(x)', c, x, WholeBar(c, x)')
  OBVIOUS
<1>1. c \in Slots /\ named \in BarrierSets
  BY DEF IndInv, TypeOK
<1>2. PICK whole \in BOOLEAN : whole = WholeBar(c, x) /\ whole = WholeBar(c, x)'
  BY <1>1, WholeSame
<1>3. PICK s, P, Q : s = named /\ P = Progress(x) /\ Q = Progress(x)'
  OBVIOUS
<1>4. BarrierKept(s, P, c, x, whole)
  BY <1>2, <1>3 DEF RoundsKept
<1>5. PlacesOK(P, c)
  BY <1>3, PlacesKnown
<1>6. \A v \in WarpsOf(c) : v \in Warps /\ v[1] = c
  BY <1>1, WarpsOfFacts
<1>7. \A v \in WarpsOf(c) : v # w \/ x # b => Q[v] = P[v]
  BY <1>3, <1>6, PlaceSame
<1>8. ASSUME c = w[1] /\ x = b
      PROVE  /\ Q[w].reached = P[w].reached + 1 /\ Q[w].syncs = P[w].syncs
             /\ Q[w].uses = P[w].uses /\ P[w].uses
             /\ type = "sync" \/ P[w].reached + 1 \notin P[w].syncs
             /\ CountIs(n, P, c, whole)
  <2>1. Q[w] = Place(w, b)' /\ P[w] = Place(w, b)
    BY <1>3, <1>8 DEF Progress
  <2>2. Uses(w, b)' = Uses(w, b) /\ SyncUses(w, b)' = SyncUses(w, b)
    BY CodeSame
  <2>3. /\ Q[w].reached = Reached(w, b)' /\ P[w].reached = Reached(w, b)
        /\ Q[w].syncs = SyncUses(w, b) /\ P[w].syncs = SyncUses(w, b)
        /\ Q[w].uses = (Uses(w, b) # {}) /\ P[w].uses = (Uses(w, b) # {})
    BY <2>1, <2>2 DEF Place
  <2>4. CountIs(n, P, c, whole)
    BY <1>2, <1>3, <1>8, CountKnown
  <2>5. P[w].uses /\ Q[w].uses = P[w].uses
    BY <2>3
  <2>6. QED
    BY <2>3, <2>4, <2>5, Zenon
<1>9. BarrierKept(t, Q, c, x, whole)
  <2>1. s \in BarrierSets /\ s.at[w] = NoBar /\ w \in s.active /\ w \notin s.arrived[b]
        /\ t = warp_reaches_barrier(s, w, type, b, n, d)
    BY <1>1, <1>3
  <2>2. WarpMoves(P, Q, c, x, w, b, type, n, whole)
    BY <1>7, <1>8 DEF WarpMoves
  <2>3. /\ w \in Warps /\ b \in Bars /\ x \in Bars /\ c \in Slots /\ whole \in BOOLEAN
        /\ n \in Nat \cup {WholeCta}
    BY <1>1
  <2>4. ReachStep(s, t, w, type, b, n, d, P, Q, c, x, whole)
    BY ONLY <1>4, <1>5, <2>1, <2>2, <2>3 DEF ReachStep
  <2>5. QED
    BY ONLY <2>4, ReachKept
<1>10. QED
  BY <1>2, <1>3, <1>9

\* Warp v keeps its instructions and executes no use of a named barrier.
Keeps(v) ==
    /\ kernel' = kernel /\ cta'[v[1]] = cta[v[1]]
    /\ (BarUses(v) \cap Executed(v))' = BarUses(v) \cap Executed(v)

LEMMA KeepsFacts ==
    ASSUME NEW v, Keeps(v)
    PROVE  /\ \A b : UseCount(v, b)' = UseCount(v, b)
           /\ \A b, p : LastUse(v, b, p)' <=> LastUse(v, b, p)
           /\ \A b : Owed(v, b)' = Owed(v, b) => Reached(v, b)' = Reached(v, b)
<1>1. /\ Code(v)' = Code(v) /\ BarUses(v)' = BarUses(v)
      /\ \A b : Uses(v, b)' = Uses(v, b)
  BY CodeSame DEF Keeps
<1>2. BarUses(v) \cap Executed(v)' = BarUses(v) \cap Executed(v)
  BY <1>1 DEF Keeps
<1>3. \A b : Uses(v, b) \subseteq BarUses(v)
  BY DEF Uses, BarUses
<1>4. \A b : Uses(v, b)' \cap Executed(v)' = Uses(v, b) \cap Executed(v)
  BY <1>1, <1>2, <1>3
<1>5. \A b : UseCount(v, b)' = UseCount(v, b)
  BY <1>4 DEF UseCount
<1>6. \A b, p : LastUse(v, b, p)' <=> LastUse(v, b, p)
  BY <1>1, <1>2, <1>4 DEF LastUse
<1>7. \A b : Owed(v, b)' = Owed(v, b) => Reached(v, b)' = Reached(v, b)
  <2>1. \A b : Reached(v, b) = UseCount(v, b) - Cardinality(Owed(v, b))
    BY DEF Reached, UseCount, Owed
  <2>2. \A b : Reached(v, b)' = UseCount(v, b)' - Cardinality(Owed(v, b)')
    BY DEF Reached, UseCount, Owed
  <2>3. QED
    BY <1>5, <2>1, <2>2
<1>8. QED
  BY <1>5, <1>6, <1>7

\* A warp that does not move.
LEMMA StillKeeps ==
    ASSUME NEW v, kernel' = kernel, cta'[v[1]] = cta[v[1]], pc'[v] = pc[v]
    PROVE  Keeps(v)
<1>1. Code(v)' = Code(v) /\ BarUses(v)' = BarUses(v)
  BY CodeSame
<1>2. Executed(v)' = Executed(v)
  BY <1>1 DEF Executed
<1>3. QED
  BY <1>1, <1>2 DEF Keeps

\* What issuing an instruction does to the uses a warp has executed.
LEMMA IssuesUses ==
    ASSUME IndInv, NEW w \in Warps, NEW kinds, Issues(w, kinds), kernel' = kernel, cta' = cta
    PROVE  /\ \A v \in Warps \ {w} : Keeps(v)
           /\ Code(w)[pc[w]].op \notin {"sync", "arrive"} => Keeps(w)
           /\ \A i \in Executed(w) : i < pc[w]
           /\ Executed(w)' = Executed(w) \cup {pc[w]} /\ pc[w] \in DOMAIN Code(w)
<1>1. /\ pc \in [Warps -> Nat] /\ pc[w] \in Nat /\ pc[w] > 0 /\ pc[w] <= Len(Code(w))
      /\ pc' = [pc EXCEPT ![w] = @ + 1]
  BY DEF Issues, IndInv, TypeOK
<1>2. pc'[w] = pc[w] + 1 /\ \A v \in Warps \ {w} : pc'[v] = pc[v]
  BY <1>1
<1>3. \A v \in Warps \ {w} : Keeps(v)
  BY <1>2, StillKeeps
<1>4. pc[w] \in DOMAIN Code(w)
  BY <1>1, RunningWarp
<1>5. Executed(w) = 1..(pc[w] - 1) /\ Executed(w)' = 1..((pc[w] + 1) - 1)
  <2>1. pc'[w] # 0 /\ pc[w] # 0
    BY <1>1, <1>2
  <2>2. QED
    BY <1>2, <2>1 DEF Executed
<1>6. Executed(w)' = Executed(w) \cup {pc[w]} /\ \A i \in Executed(w) : i < pc[w]
  BY <1>1, <1>5
<1>7. Code(w)[pc[w]].op \notin {"sync", "arrive"} => Keeps(w)
  <2>1. BarUses(w)' = BarUses(w)
    BY CodeSame
  <2>2. Code(w)[pc[w]].op \notin {"sync", "arrive"} => pc[w] \notin BarUses(w)
    BY DEF BarUses
  <2>3. QED
    BY <1>6, <2>1, <2>2 DEF Keeps
<1>8. QED
  BY <1>3, <1>4, <1>6, <1>7

\* A bar.arrive that stays on its way.
LEMMA EntryStays ==
    ASSUME NEW i \in DOMAIN named_arrivals, EntryKnown(i), NEW j, NEW v, v = named_arrivals[i].w,
           named_arrivals'[j] = named_arrivals[i], Keeps(v),
           v \in named'.active,
           v \in named'.arrived[named_arrivals[i].bar] => v \in named.arrived[named_arrivals[i].bar],
           \A m \in DOMAIN named_arrivals' : named_arrivals'[m].w = v => m = j
    PROVE  EntryKnown(j)'
<1>1. PICK b, n : b = named_arrivals[i].bar /\ n = named_arrivals[i].count
  OBVIOUS
<1>2. named_arrivals'[j].w = v /\ named_arrivals'[j].bar = b /\ named_arrivals'[j].count = n
  BY <1>1
<1>3. v \notin named'.arrived[b]
  BY <1>1 DEF EntryKnown
<1>4. PICK p \in Nat : LastUse(v, b, p) /\ Code(v)[p].op = "arrive" /\ Code(v)[p].count = n
  BY <1>1 DEF EntryKnown
<1>5. Code(v)' = Code(v)
  BY CodeSame DEF Keeps
<1>6. LastUse(v, b, p)'
  BY <1>4, KeepsFacts
<1>7. v \in named'.active /\ \A m \in DOMAIN named_arrivals' : named_arrivals'[m].w = v => m = j
  OBVIOUS
<1>8. QED
  BY <1>2, <1>3, <1>4, <1>5, <1>6, <1>7 DEF EntryKnown

\* No bar.arrive is put on its way or delivered.
LEMMA EntriesQuiet ==
    ASSUME IndInv, EntriesKnown, named_arrivals' = named_arrivals,
           \A v \in Warps : ~NoArrival(v) =>
               /\ Keeps(v) /\ v \in named'.active
               /\ \A b \in Bars : v \in named'.arrived[b] => v \in named.arrived[b]
    PROVE  EntriesKnown'
<1> SUFFICES ASSUME NEW i \in DOMAIN named_arrivals PROVE EntryKnown(i)'
  BY DEF EntriesKnown
<1>1. PICK v : v = named_arrivals[i].w
  OBVIOUS
<1>2. EntryKnown(i)
  BY DEF EntriesKnown
<1>3. v \in Warps /\ named_arrivals[i].bar \in Bars /\ ~NoArrival(v)
  <2>1. named_arrivals[i] \in Arrivals
    BY DEF IndInv, TypeOK
  <2>2. QED
    BY <1>1, <2>1 DEF Arrivals, NoArrival
<1>4. /\ Keeps(v) /\ v \in named'.active
      /\ v \in named'.arrived[named_arrivals[i].bar] => v \in named.arrived[named_arrivals[i].bar]
  BY <1>3
<1>5. \A m \in DOMAIN named_arrivals' : named_arrivals'[m].w = v => m = i
  BY <1>1, <1>2 DEF EntryKnown
<1>6. QED
  BY <1>1, <1>2, <1>4, <1>5, EntryStays

\* Nothing happens at a barrier of a slot with threads.
LEMMA RoundsQuiet ==
    ASSUME IndInv, RoundsKept, threads' \subseteq threads, kernel' = kernel,
           \A v \in Warps : v[1] \in threads' =>
               /\ Keeps(v) /\ \A b \in Bars : Owed(v, b)' = Owed(v, b)
               /\ \A b \in Bars : /\ v \in named'.arrived[b] <=> v \in named.arrived[b]
                                  /\ v \in named.arrived[b] /\ named.at[v] = b => named'.at[v] = b
               /\ v \in named'.active => v \in named.active,
           \A c \in threads' : cta'[c] = cta[c] /\ \A b \in Bars : named'.count[c][b] = named.count[c][b]
    PROVE  RoundsKept'
<1> SUFFICES ASSUME NEW c \in threads', NEW b \in Bars
             PROVE  BarrierKept(named', Progress(b)', c, b, WholeBar(c, b)')
  BY DEF RoundsKept
<1>1. c \in threads /\ c \in Slots
  BY DEF IndInv, TypeOK
<1>2. \A v \in WarpsOf(c) : /\ Reached(v, b)' = Reached(v, b)
                            /\ v \in named'.arrived[b] <=> v \in named.arrived[b]
                            /\ v \in named'.active => v \in named.active
                            /\ v \in named.arrived[b] /\ named.at[v] = b => named'.at[v] = b
  <2>1. \A v \in WarpsOf(c) : v \in Warps /\ v[1] = c
    BY <1>1, WarpsOfFacts
  <2>2. QED
    BY <2>1, KeepsFacts
<1>3. cta'[c] = cta[c] /\ named'.count[c][b] = named.count[c][b]
  OBVIOUS
<1>4. QED
  BY <1>1, <1>2, <1>3, RoundCarried

\* Stores move on, but behind the last use of a barrier there are none.
LEMMA StoresQuiet ==
    ASSUME StoresBehind,
           \A v \in Warps : v[1] \in threads' =>
               \/ stores'[v] \cup hidden'[v] = {}
               \/ /\ v[1] \in threads /\ Keeps(v)
                  /\ \A i \in stores'[v] \cup hidden'[v] :
                        i \in stores[v] \cup hidden[v] \/ \A q \in Executed(v) : i > q
    PROVE  StoresBehind'
<1> SUFFICES ASSUME NEW v \in Warps, v[1] \in threads', NEW i \in stores'[v] \cup hidden'[v],
                    NEW q \in (BarUses(v) \cap Executed(v))'
             PROVE  i > q
  BY DEF StoresBehind
<1>1. v[1] \in threads /\ Keeps(v) /\ (i \in stores[v] \cup hidden[v] \/ \A z \in Executed(v) : i > z)
  OBVIOUS
<1>2. q \in BarUses(v) \cap Executed(v)
  BY <1>1 DEF Keeps
<1>3. QED
  BY <1>1, <1>2 DEF StoresBehind

\* A store, a remote load or an instruction of the cluster barrier.
LEMMA OtherIssueBarrier ==
    ASSUME IndInv, BarrierInv, NEW w \in Warps, NEW kinds, Issues(w, kinds),
           kinds \cap {"sync", "arrive"} = {},
           UNCHANGED <<kernel, ctaVars, named, named_arrivals, hidden>>,
           \A v \in Warps \ {w} : stores'[v] = stores[v],
           stores'[w] \subseteq stores[w] \cup {pc[w]}
    PROVE  BarrierInv'
<1> USE DEF ctaVars
<1>1. (\A v \in Warps : Keeps(v)) /\ \A i \in Executed(w) : pc[w] > i
  <2>1. Code(w)[pc[w]].op \notin {"sync", "arrive"}
    BY DEF Issues
  <2>2. /\ \A v \in Warps \ {w} : Keeps(v)
        /\ Code(w)[pc[w]].op \notin {"sync", "arrive"} => Keeps(w)
        /\ \A i \in Executed(w) : i < pc[w]
    BY IssuesUses
  <2>3. pc[w] \in Nat /\ Executed(w) \subseteq Int
    <3>1. w[1] \in threads /\ Code(w) \in Seq(Instructions)
      BY RunningWarp DEF Issues
    <3>2. QED
      BY <3>1 DEF Executed, IndInv, TypeOK
  <2>4. QED
    BY <2>1, <2>2, <2>3
<1>2. \A v \in Warps : \A b \in Bars : Owed(v, b)' = Owed(v, b)
  BY DEF Owed
<1>3. RoundsKept'
  BY <1>1, <1>2, RoundsQuiet DEF BarrierInv
<1>4. EntriesKnown'
  <2>1. \A v \in Warps : ~NoArrival(v) => v \in named.active
    <3>1. \A i \in DOMAIN named_arrivals : named_arrivals[i].w \in named.active
      BY DEF BarrierInv, EntriesKnown, EntryKnown
    <3>2. QED
      BY <3>1 DEF NoArrival
  <2>2. QED
    BY <1>1, <2>1, EntriesQuiet DEF BarrierInv
<1>5. StoresBehind'
  <2>1. \A v \in Warps : v[1] \in threads' =>
            /\ v[1] \in threads /\ Keeps(v)
            /\ \A i \in stores'[v] \cup hidden'[v] :
                  i \in stores[v] \cup hidden[v] \/ \A q \in Executed(v) : i > q
    BY <1>1
  <2>2. QED
    BY <2>1, StoresQuiet DEF BarrierInv
<1>6. QED
  BY <1>3, <1>4, <1>5 DEF BarrierInv

\* A bar.arrive on its way is of a participant.
LEMMA EntryActive ==
    ASSUME EntriesKnown, NEW v, ~NoArrival(v)
    PROVE  v \in named.active
<1>1. \A i \in DOMAIN named_arrivals : named_arrivals[i].w \in named.active
  BY DEF EntriesKnown, EntryKnown
<1>2. QED
  BY <1>1 DEF NoArrival

\* Stores move on, and no warp does.
LEMMA StillBarrier ==
    ASSUME IndInv, BarrierInv, UNCHANGED <<kernel, cta, threads, pc, named, named_arrivals>>,
           \A v \in Warps : stores'[v] \cup hidden'[v] \subseteq stores[v] \cup hidden[v]
    PROVE  BarrierInv'
<1>1. \A v \in Warps : Keeps(v)
  BY StillKeeps
<1>2. \A v \in Warps : \A b \in Bars : Owed(v, b)' = Owed(v, b)
  BY DEF Owed
<1>3. RoundsKept'
  BY <1>1, <1>2, RoundsQuiet DEF BarrierInv
<1>4. EntriesKnown'
  BY <1>1, EntryActive, EntriesQuiet DEF BarrierInv
<1>5. StoresBehind'
  <2>1. \A v \in Warps : v[1] \in threads' =>
            /\ v[1] \in threads /\ Keeps(v)
            /\ \A i \in stores'[v] \cup hidden'[v] :
                  i \in stores[v] \cup hidden[v] \/ \A q \in Executed(v) : i > q
    BY <1>1
  <2>2. QED
    BY <2>1, StoresQuiet DEF BarrierInv
<1>6. QED
  BY <1>3, <1>4, <1>5 DEF BarrierInv

LEMMA CompletionBarrier ==
    ASSUME IndInv, BarrierInv, NEW w \in Warps,
           \/ StoresVisible(w) \/ dsm_on_tx_done(w) \/ \E i \in stores[w] : complete_shared_store(w, i)
    PROVE  BarrierInv'
<1>1. stores \in [Warps -> SUBSET Nat] /\ hidden \in [Warps -> SUBSET Nat]
  BY DEF IndInv, TypeOK
<1>2. UNCHANGED <<kernel, cta, threads, pc, named, named_arrivals>>
  BY DEF StoresVisible, dsm_on_tx_done, complete_shared_store, ctaVars
<1>3. CASE StoresVisible(w)
  <2>1. \A v \in Warps : stores'[v] \cup hidden'[v] \subseteq stores[v] \cup hidden[v]
    BY <1>1, <1>3 DEF StoresVisible
  <2>2. QED
    BY <1>2, <2>1, StillBarrier
<1>4. CASE dsm_on_tx_done(w)
  <2>1. \A v \in Warps : stores'[v] \cup hidden'[v] \subseteq stores[v] \cup hidden[v]
    BY <1>4 DEF dsm_on_tx_done, storeVars
  <2>2. QED
    BY <1>2, <2>1, StillBarrier
<1>5. ASSUME NEW i \in stores[w], complete_shared_store(w, i)
      PROVE  BarrierInv'
  <2>1. \A v \in Warps : stores'[v] \cup hidden'[v] \subseteq stores[v] \cup hidden[v]
    <3>1. stores' = [stores EXCEPT ![w] = @ \ {i}] /\ hidden' = [hidden EXCEPT ![w] = @ \cup {i}]
      BY <1>5 DEF complete_shared_store
    <3>2. QED
      BY <1>1, <3>1
  <2>2. QED
    BY <1>2, <2>1, StillBarrier
<1>6. QED
  BY <1>3, <1>4, <1>5

\* A delayed release frees a warp whose arrival has been consumed.
LEMMA DelayedBarrier ==
    ASSUME IndInv, BarrierInv, NEW w \in Warps, DelayedRelease(w)
    PROVE  BarrierInv'
<1> USE DEF ctaVars, storeVars
<1>1. UNCHANGED <<kernel, ctaVars, pc, named_arrivals, storeVars>>
  BY DEF DelayedRelease
<1>2. named \in BarrierSets /\ Justified(named) /\ named.releases[w] > 0
  BY DEF DelayedRelease, IndInv, TypeOK
<1>3. /\ named'.active = named.active /\ named'.arrived = named.arrived /\ named'.count = named.count
      /\ named'.at = [named.at EXCEPT ![w] = NoBar]
  BY DEF DelayedRelease, ReleaseDue
<1>4. w \notin named.arrived[named.at[w]]
  BY <1>2 DEF Justified
<1>5. \A v \in Warps : Keeps(v)
  BY <1>1, StillKeeps
<1>6. \A v \in Warps : \A b \in Bars : Owed(v, b)' = Owed(v, b)
  BY <1>1 DEF Owed
<1>7. RoundsKept'
  <2>1. \A v \in Warps : \A b \in Bars : v \in named.arrived[b] /\ named.at[v] = b => named'.at[v] = b
    BY <1>2, <1>3, <1>4 DEF BarrierSets
  <2>2. QED
    BY <1>1, <1>3, <1>5, <1>6, <2>1, RoundsQuiet DEF BarrierInv
<1>8. EntriesKnown'
  BY <1>1, <1>3, <1>5, EntryActive, EntriesQuiet DEF BarrierInv
<1>9. StoresBehind'
  <2>1. \A v \in Warps : v[1] \in threads' =>
            /\ v[1] \in threads /\ Keeps(v)
            /\ \A i \in stores'[v] \cup hidden'[v] :
                  i \in stores[v] \cup hidden[v] \/ \A q \in Executed(v) : i > q
    BY <1>1, <1>5
  <2>2. QED
    BY <2>1, StoresQuiet DEF BarrierInv
<1>10. QED
  BY <1>7, <1>8, <1>9 DEF BarrierInv

\* The barriers of one slot are cleared.
LEMMA ClearEffect ==
    ASSUME NEW s \in BarrierSets, NEW c \in Slots, NEW A, NEW t, t = ClearCta(s, c, A)
    PROVE  /\ t.active = A
           /\ \A v \in Warps : v[1] # c => t.at[v] = s.at[v]
           /\ \A v \in Warps : \A x \in Bars : v \in t.arrived[x] <=> v \in s.arrived[x] /\ v[1] # c
           /\ \A d \in Slots : \A x \in Bars : t.count[d][x] = IF d = c THEN 0 ELSE s.count[d][x]
<1> DEFINE at == [w \in Warps |-> IF w \in WarpsOf(c) THEN NoBar ELSE s.at[w]]
           arr == [b \in Bars |-> s.arrived[b] \ WarpsOf(c)]
           cnt == [s.count EXCEPT ![c] = [b \in Bars |-> 0]]
<1>1. t.active = A /\ t.at = at /\ t.arrived = arr /\ t.count = cnt
  BY DEF ClearCta
<1>2. \A v \in Warps : v[1] # c => at[v] = s.at[v]
  BY WarpsOfFacts
<1>3. \A v \in Warps : \A x \in Bars : v \in arr[x] <=> v \in s.arrived[x] /\ v[1] # c
  BY WarpsOfFacts
<1>4. \A d \in Slots : \A x \in Bars : cnt[d][x] = IF d = c THEN 0 ELSE s.count[d][x]
  BY DEF BarrierSets
<1> HIDE DEF at, arr, cnt
<1>5. QED
  BY <1>1, <1>2, <1>3, <1>4

\* A slot without threads is given back or held.
LEMMA SlotLeaves ==
    ASSUME IndInv, BarrierInv, NEW c \in Slots, c \notin threads', threads' \subseteq threads,
           UNCHANGED <<kernel, pc, named_arrivals, stores, hidden>>,
           UNCHANGED <<cta, named>> \/ Released(c),
           \A v \in Warps : v[1] = c => NoArrival(v)
    PROVE  BarrierInv'
<1>1. /\ \A d \in Slots : d # c => cta'[d] = cta[d]
      /\ \A v \in Warps : v[1] # c =>
            /\ \A b \in Bars : /\ v \in named'.arrived[b] <=> v \in named.arrived[b]
                               /\ named'.at[v] = named.at[v]
            /\ v \in named'.active <=> v \in named.active
      /\ \A d \in Slots : \A b \in Bars : d # c => named'.count[d][b] = named.count[d][b]
  <2>1. CASE UNCHANGED <<cta, named>>
    BY <2>1
  <2>2. CASE Released(c)
    <3>1. cta' = [cta EXCEPT ![c] = Free] /\ named' = ClearCta(named, c, named.active \ WarpsOf(c))
      BY <2>2 DEF Released, deallocate_barrier
    <3>2. named \in BarrierSets /\ cta \in [Slots -> [g : Groups, r : Nat] \cup {Free}]
      BY DEF IndInv, TypeOK
    <3>3. PICK A, t : A = named.active \ WarpsOf(c) /\ t = named' /\ t = ClearCta(named, c, A)
      BY <3>1
    <3>4. /\ t.active = A
          /\ \A v \in Warps : v[1] # c => t.at[v] = named.at[v]
          /\ \A v \in Warps : \A x \in Bars : v \in t.arrived[x] <=> v \in named.arrived[x] /\ v[1] # c
          /\ \A d \in Slots : \A x \in Bars : t.count[d][x] = IF d = c THEN 0 ELSE named.count[d][x]
      BY <3>2, <3>3, ClearEffect
    <3>5. \A v \in Warps : v[1] # c => v \notin WarpsOf(c)
      BY WarpsOfFacts
    <3>6. \A d \in Slots : d # c => cta'[d] = cta[d]
      BY <3>1, <3>2
    <3>7. \A v \in Warps : v[1] # c => (v \in named'.active <=> v \in named.active)
      BY <3>3, <3>4, <3>5
    <3>8. \A v \in Warps : v[1] # c =>
              \A b \in Bars : /\ v \in named'.arrived[b] <=> v \in named.arrived[b]
                              /\ named'.at[v] = named.at[v]
      BY <3>3, <3>4
    <3>9. \A d \in Slots : \A b \in Bars : d # c => named'.count[d][b] = named.count[d][b]
      BY <3>3, <3>4
    <3>10. QED
      BY ONLY <3>6, <3>7, <3>8, <3>9
  <2>3. QED
    BY <2>1, <2>2
<1>2. \A v \in Warps : v[1] \in Slots /\ (v[1] # c => Keeps(v))
  BY <1>1, StillKeeps DEF Warps
<1>3. \A v \in Warps : \A b \in Bars : Owed(v, b)' = Owed(v, b)
  BY DEF Owed
<1>4. RoundsKept'
  <2>1. \A d \in threads' : d \in Slots /\ d # c
    BY DEF IndInv, TypeOK
  <2>2. QED
    BY <1>1, <1>2, <1>3, <2>1, RoundsQuiet DEF BarrierInv
<1>5. EntriesKnown'
  <2>1. \A v \in Warps : ~NoArrival(v) => v[1] # c /\ v \in named.active
    BY EntryActive DEF BarrierInv
  <2>2. QED
    BY <1>1, <1>2, <2>1, EntriesQuiet DEF BarrierInv
<1>6. StoresBehind'
  <2>1. \A v \in Warps : v[1] \in threads' =>
            /\ v[1] \in threads /\ Keeps(v)
            /\ \A i \in stores'[v] \cup hidden'[v] :
                  i \in stores[v] \cup hidden[v] \/ \A q \in Executed(v) : i > q
    BY <1>2
  <2>2. QED
    BY <2>1, StoresQuiet DEF BarrierInv
<1>7. QED
  BY <1>4, <1>5, <1>6 DEF BarrierInv

LEMMA PendingBarrier ==
    ASSUME IndInv, BarrierInv, NEW c \in Slots, release_pending_tma_ctas(c)
    PROVE  BarrierInv'
<1>1. /\ c \notin threads /\ Released(c)
      /\ UNCHANGED <<kernel, threads, pc, named_arrivals, stores, hidden>>
  BY DEF release_pending_tma_ctas, storeVars
<1>2. \A v \in Warps : v[1] = c => NoArrival(v)
  BY <1>1, EmptySlot
<1>3. QED
  BY <1>1, <1>2, SlotLeaves

LEMMA RegisterBarrier ==
    ASSUME IndInv, BarrierInv, NEW w \in Warps, register_cta_thread_exit(w)
    PROVE  BarrierInv'
<1>1. PICK c \in Slots : c = w[1]
  BY DEF Warps
<1>2. hardware_done(w) /\ UNCHANGED <<kernel, pc, named_arrivals, stores, hidden>>
  BY DEF register_cta_thread_exit, storeVars
<1>3. CASE WarpsOf(c) \ {w} \subseteq reclaimed
  <2>1. threads' = threads \ {c} /\ (UNCHANGED <<cta, named>> \/ Released(c))
    BY <1>1, <1>3 DEF register_cta_thread_exit
  <2>2. ASSUME NEW v \in Warps, v[1] = c PROVE NoArrival(v)
    <3>1. CASE v = w
      BY <1>2, <3>1 DEF hardware_done, NoArrival
    <3>2. CASE v # w
      <4>1. v \in reclaimed
        BY <1>3, <2>2, <3>2, WarpsOfFacts
      <4>2. QED
        BY <4>1 DEF IndInv, CountedGone
    <3>3. QED
      BY <3>1, <3>2
  <2>3. c \notin threads' /\ threads' \subseteq threads
    BY <2>1
  <2>4. QED
    BY <1>2, <2>1, <2>2, <2>3, SlotLeaves
<1>4. CASE ~(WarpsOf(c) \ {w} \subseteq reclaimed)
  <2>1. UNCHANGED <<threads, cta, named>>
    BY <1>1, <1>4 DEF register_cta_thread_exit
  <2>2. QED
    BY <1>2, <2>1, StillBarrier
<1>5. QED
  BY <1>3, <1>4

\* A warp leaves the barrier set s, which becomes the one of the next state.
LEMMA LeavesRounds ==
    ASSUME NEW s \in BarrierSets, NEW w \in Warps, s.at[w] = NoBar,
           named' = warp_exit(s, w, kernel.releaseLatency),
           NEW c \in Slots, NEW b \in Bars, NEW P, NEW whole \in BOOLEAN,
           BarrierKept(s, P, c, b, whole), PlacesOK(P, c)
    PROVE  BarrierKept(named', P, c, b, whole)
<1>1. PICK t, d : t = named' /\ t = warp_exit(s, w, d)
  OBVIOUS
<1>2. BarrierKept(t, P, c, b, whole)
  BY <1>1, ExitKept
<1>3. QED
  BY <1>1, <1>2

\* Nobody else leaves, and nobody arrives.
LEMMA LeavesOthers ==
    ASSUME NEW s \in BarrierSets, NEW w \in Warps, s.at[w] = NoBar,
           named' = warp_exit(s, w, kernel.releaseLatency)
    PROVE  /\ named'.active = s.active \ {w}
           /\ \A v \in Warps : \A b \in Bars : v \in named'.arrived[b] => v \in s.arrived[b]
<1>1. PICK t, d : t = named' /\ t = warp_exit(s, w, d)
  OBVIOUS
<1>2. /\ t.active = s.active \ {w}
      /\ \A c \in Slots : \A x \in Bars :
            \/ /\ \A v \in Warps : v[1] = c => /\ v \in t.arrived[x] <=> v \in s.arrived[x]
                                               /\ s.at[v] = x => t.at[v] = x
               /\ t.count[c][x] = s.count[c][x]
            \/ /\ \A v \in Warps : v[1] = c => /\ v \notin t.arrived[x]
                                               /\ v \in t.active => v \in s.arrived[x]
               /\ t.count[c][x] = 0
  BY <1>1, ExitEffect
<1>3. \A v \in Warps : v[1] \in Slots
  BY DEF Warps
<1>4. QED
  BY <1>1, <1>2, <1>3

LEMMA ExitBarrier ==
    ASSUME IndInv, BarrierInv, NEW w \in Warps, Exit(w)
    PROVE  BarrierInv'
<1> USE DEF ctaVars, storeVars
<1>1. /\ pc[w] > 0 /\ ~Parked(w) /\ pc' = [pc EXCEPT ![w] = 0] /\ pc[w] > Len(Code(w))
      /\ UNCHANGED <<kernel, cta, threads, named_arrivals, stores, hidden>>
  BY DEF Exit
<1>2. pc \in [Warps -> Nat] /\ named \in BarrierSets /\ threads \subseteq Slots
  BY DEF IndInv, TypeOK
<1>3. \A v \in Warps : Keeps(v)
  <2>1. \A v \in Warps \ {w} : Keeps(v)
    BY <1>1, <1>2, StillKeeps
  <2>2. Code(w)' = Code(w) /\ BarUses(w)' = BarUses(w)
    BY <1>1, CodeSame
  <2>3. BarUses(w) \cap Executed(w)' = BarUses(w)
    BY <1>1, <1>2, <2>2 DEF Executed, BarUses
  <2>4. BarUses(w) \cap Executed(w) = BarUses(w)
    <3>1. Code(w) \in Seq(Instructions)
      BY <1>1, RunningWarp
    <3>2. \A i \in DOMAIN Code(w) : i \in 1..(pc[w] - 1)
      BY <1>1, <1>2, <3>1
    <3>3. Executed(w) = 1..(pc[w] - 1)
      BY <1>1, <1>2 DEF Executed
    <3>4. QED
      BY <3>2, <3>3 DEF BarUses
  <2>5. Keeps(w)
    BY <1>1, <2>2, <2>3, <2>4 DEF Keeps
  <2>6. QED
    BY <2>1, <2>5
<1>4. \A v \in Warps : \A b \in Bars : Owed(v, b)' = Owed(v, b)
  BY <1>1 DEF Owed
<1>5. StoresBehind'
  <2>1. \A v \in Warps : v[1] \in threads' =>
            /\ v[1] \in threads /\ Keeps(v)
            /\ \A i \in stores'[v] \cup hidden'[v] :
                  i \in stores[v] \cup hidden[v] \/ \A q \in Executed(v) : i > q
    BY <1>1, <1>3
  <2>2. QED
    BY <2>1, StoresQuiet DEF BarrierInv
<1>6. CASE ~NoArrival(w)
  <2>1. named' = named
    BY <1>6 DEF Exit, NoArrival
  <2>2. RoundsKept'
    BY <1>1, <1>3, <1>4, <2>1, RoundsQuiet DEF BarrierInv
  <2>3. EntriesKnown'
    BY <1>1, <1>3, <2>1, EntryActive, EntriesQuiet DEF BarrierInv
  <2>4. QED
    BY <1>5, <2>2, <2>3 DEF BarrierInv
<1>7. CASE NoArrival(w)
  <2>1. named' = warp_exit(named, w, kernel.releaseLatency) /\ named.at[w] = NoBar
    BY <1>1, <1>7 DEF Exit, NoArrival, LeavesBarriers, Parked
  <2>2. EntriesKnown'
    <3>1. /\ named'.active = named.active \ {w}
          /\ \A v \in Warps : \A b \in Bars : v \in named'.arrived[b] => v \in named.arrived[b]
      BY <1>2, <2>1, LeavesOthers
    <3>2. QED
      BY <1>1, <1>3, <1>7, <3>1, EntryActive, EntriesQuiet DEF BarrierInv
  <2>3. RoundsKept'
    <3> SUFFICES ASSUME NEW c \in threads, NEW b \in Bars
                 PROVE  BarrierKept(named', Progress(b)', c, b, WholeBar(c, b)')
      BY <1>1 DEF RoundsKept
    <3>1. PICK whole \in BOOLEAN : whole = WholeBar(c, b) /\ whole = WholeBar(c, b)'
      BY <1>1, <1>2, WholeSame
    <3>2. Progress(b)' = Progress(b)
      <4>1. \A v \in Warps : Reached(v, b)' = Reached(v, b)
        BY <1>3, <1>4, KeepsFacts
      <4>2. \A v \in Warps : Progress(b)'[v] = Progress(b)[v]
        BY <1>1, <4>1, PlaceSame
      <4>3. QED
        BY <4>2 DEF Progress
    <3>3. PICK P : P = Progress(b) /\ P = Progress(b)'
      BY <3>2
    <3>4. BarrierKept(named, P, c, b, whole) /\ PlacesOK(P, c)
      BY <3>1, <3>3, PlacesKnown DEF BarrierInv, RoundsKept
    <3>5. BarrierKept(named', P, c, b, whole)
      BY <1>2, <2>1, <3>4, LeavesRounds
    <3>6. QED
      BY <3>1, <3>3, <3>5
  <2>4. QED
    BY <1>5, <2>2, <2>3 DEF BarrierInv
<1>8. QED
  BY <1>6, <1>7

\* A warp executes a use of barrier b.
LEMMA UseExecuted ==
    ASSUME IndInv, NEW w \in Warps, NEW kinds, Issues(w, kinds), kernel' = kernel, cta' = cta,
           Code(w)[pc[w]].op \in {"sync", "arrive"}, NEW b, b = Code(w)[pc[w]].bar,
           NEW p, p = pc[w]
    PROVE  /\ p \in Uses(w, b) /\ UseCount(w, b) \in Nat
           /\ UseCount(w, b)' = UseCount(w, b) + 1
           /\ \A x : x # b => UseCount(w, x)' = UseCount(w, x)
           /\ UseCount(w, b) + 1 \in 1..Cardinality(Uses(w, b))
           /\ Kth(Uses(w, b), UseCount(w, b) + 1) = p
           /\ LastUse(w, b, p)'
<1> DEFINE E == Executed(w) \cup {p}
<1>1. /\ \A i \in Executed(w) : i < p
      /\ Executed(w)' = E /\ p \in DOMAIN Code(w)
  BY IssuesUses
<1>2. w[1] \in threads
  BY RunningWarp DEF Issues
<1>3. /\ Uses(w, b) \subseteq BarUses(w) /\ BarUses(w) \subseteq DOMAIN Code(w)
      /\ IsFiniteSet(Uses(w, b) \cap Executed(w)) /\ UseCount(w, b) \in Nat
  BY <1>2, UseFacts
<1>4. PICK n \in Nat : DOMAIN Code(w) = 1..n
  BY <1>2, UseFacts
<1>5. \A x : Uses(w, x)' = Uses(w, x)
  BY CodeSame
<1>6. BarUses(w)' = BarUses(w)
  BY CodeSame
<1>7. p \in Uses(w, b) /\ p \notin Executed(w) /\ \A x : x # b => p \notin Uses(w, x)
  BY <1>1, <1>3, <1>4 DEF Uses
<1>8. Uses(w, b) \cap E = (Uses(w, b) \cap Executed(w)) \cup {p}
  BY <1>7
<1>9. Cardinality(Uses(w, b) \cap E) = UseCount(w, b) + 1
  BY <1>3, <1>7, <1>8, FS_AddElement DEF UseCount
<1>10. UseCount(w, b)' = UseCount(w, b) + 1
  BY <1>1, <1>5, <1>9 DEF UseCount
<1>11. \A x : x # b => UseCount(w, x)' = UseCount(w, x)
  <2>1. \A x : x # b => Uses(w, x) \cap E = Uses(w, x) \cap Executed(w)
    BY <1>7
  <2>2. QED
    BY <1>1, <1>5, <2>1 DEF UseCount
<1>12. \A q \in BarUses(w) \cap E : q <= p
  BY <1>1, <1>3, <1>4, <1>7
<1>13. Cardinality(Uses(w, b) \cap E) \in 1..Cardinality(Uses(w, b))
       /\ Kth(Uses(w, b), Cardinality(Uses(w, b) \cap E)) = p
  <2>1. \A j \in DOMAIN Code(w) : j <= p => j \in E
    <3>1. pc[w] \in Nat /\ pc[w] > 0
      BY DEF Issues, IndInv, TypeOK
    <3>2. Executed(w) = 1..(p - 1)
      BY <3>1 DEF Executed
    <3>3. QED
      BY <1>4, <3>1, <3>2
  <2>2. PICK S : S = Uses(w, b)
    OBVIOUS
  <2>3. S \in SUBSET (1..n) /\ p \in S \cap E /\ (\A q \in S \cap E : q <= p)
        /\ \A j \in S : j <= p => j \in E
    BY <1>3, <1>4, <1>7, <1>12, <2>1, <2>2
  <2> HIDE DEF E
  <2>4. Cardinality(S \cap E) \in 1..Cardinality(S) /\ Kth(S, Cardinality(S \cap E)) = p
    BY <2>3, RankOfLast
  <2>5. QED
    BY <2>2, <2>4
<1>14. LastUse(w, b, p)'
  BY <1>1, <1>5, <1>6, <1>7, <1>12 DEF LastUse
<1>15. QED
  BY <1>3, <1>7, <1>9, <1>10, <1>11, <1>13, <1>14

\* A warp has reached the uses it has executed, less what is on its way.
LEMMA ReachedIs ==
    ASSUME NEW v, NEW b
    PROVE  /\ Reached(v, b) = UseCount(v, b) - Cardinality(Owed(v, b))
           /\ Reached(v, b)' = UseCount(v, b)' - Cardinality(Owed(v, b)')
  BY DEF Reached, UseCount, Owed

\* A warp without a bar.arrive on its way.
LEMMA NothingOwed ==
    ASSUME NEW v, NEW b, NoArrival(v)
    PROVE  Owed(v, b) = {} /\ Cardinality(Owed(v, b)) = 0
  BY FS_EmptySet DEF Owed, NoArrival

\* bar.sync, or a bar.arrive that is counted at once.
LEMMA CountedBarrier ==
    ASSUME IndInv, ClusterInv, BarrierInv, TakesTurns, KernelsWellFormed, NEW w \in Warps,
           NEW type \in {"sync", "arrive"}, Issues(w, {type}), named_barrier_issue_ready(w),
           named' = warp_reaches_barrier(named, w, type, Code(w)[pc[w]].bar, Code(w)[pc[w]].count,
                                         kernel.releaseLatency),
           UNCHANGED <<kernel, ctaVars, named_arrivals, storeVars>>
    PROVE  BarrierInv'
<1> USE DEF ctaVars, storeVars
<1>1. PICK b, n, p : b = Code(w)[pc[w]].bar /\ n = Code(w)[pc[w]].count /\ p = pc[w]
  OBVIOUS
<1>2. /\ pc[w] > 0 /\ ~Parked(w) /\ w[1] \in threads /\ w[1] \in Slots
      /\ Code(w)[pc[w]] \in Instructions /\ Code(w)[pc[w]].op = type
  BY IssuesFacts
<1>3. b \in Bars /\ n \in Nat \cup {WholeCta}
  BY <1>1, <1>2 DEF Instructions
<1>4. NoArrival(w) /\ stores[w] = {} /\ hidden[w] = {}
  BY DEF named_barrier_issue_ready, NoArrival
<1>5. /\ p \in Uses(w, b) /\ UseCount(w, b) \in Nat /\ UseCount(w, b)' = UseCount(w, b) + 1
      /\ \A x : x # b => UseCount(w, x)' = UseCount(w, x)
      /\ UseCount(w, b) + 1 \in 1..Cardinality(Uses(w, b))
      /\ Kth(Uses(w, b), UseCount(w, b) + 1) = p
  BY <1>1, <1>2, UseExecuted
<1>6. named.at[w] = NoBar /\ w \in named.active /\ w \notin named.arrived[b] /\ named \in BarrierSets
  <2>1. w \notin named.arrived[b]
    BY <1>1, <1>2, <1>3, <1>5 DEF TakesTurns
  <2>2. QED
    BY <1>2, <2>1 DEF Parked, ClusterInv, RunsActive, IndInv, TypeOK
<1>7. \A v \in Warps \ {w} : Keeps(v)
  BY IssuesUses
<1>8. \A v \in Warps : \A x \in Bars : Owed(v, x)' = Owed(v, x)
  BY DEF Owed
<1>9. /\ \A v \in Warps : \A x \in Bars : v # w \/ x # b => Reached(v, x)' = Reached(v, x)
      /\ Reached(w, b) = UseCount(w, b) /\ Reached(w, b)' = Reached(w, b) + 1
  <2>1. \A v \in Warps \ {w} : \A x \in Bars : Reached(v, x)' = Reached(v, x)
    BY <1>7, <1>8, KeepsFacts
  <2>2. \A x \in Bars : x # b => Reached(w, x)' = Reached(w, x)
    BY <1>5, <1>8, ReachedIs
  <2>3. Cardinality(Owed(w, b)) = 0 /\ Cardinality(Owed(w, b)') = 0
    BY <1>3, <1>4, <1>8, NothingOwed
  <2>4. Reached(w, b) = UseCount(w, b) /\ Reached(w, b)' = UseCount(w, b) + 1
    BY <1>5, <2>3, ReachedIs
  <2>5. QED
    BY <2>1, <2>2, <2>4
<1>10. type = "sync" \/ Reached(w, b) + 1 \notin SyncUses(w, b)
  BY <1>1, <1>2, <1>5, <1>9 DEF SyncUses
<1>11. PICK t, d : t = named' /\ t = warp_reaches_barrier(named, w, type, b, n, d)
  BY <1>1
<1>12. \A c \in threads : \A x \in Bars : BarrierKept(t, Progress(x)', c, x, WholeBar(c, x)')
  <2>1. RoundsKept /\ EntriesKnown
    BY DEF BarrierInv
  <2>2. n = Code(w)[p].count /\ cta' = cta
    BY <1>1
  <2>3. QED
    BY <1>2, <1>3, <1>5, <1>6, <1>9, <1>10, <1>11, <2>1, <2>2, ReachRounds
<1>13. RoundsKept'
  BY <1>11, <1>12 DEF RoundsKept
<1>14. EntriesKnown'
  <2>1. Reaches(named, t, w, type, b, n)
    BY <1>3, <1>6, <1>11, ReachEffect
  <2>2. t.active = named.active
    BY <2>1 DEF Reaches
  <2>3. \A v \in Warps : \A x \in Bars : v \in t.arrived[x] => v \in named.arrived[x] \/ v = w
    BY <2>1 DEF Reaches
  <2>4. \A v \in Warps : ~NoArrival(v) => v # w /\ v \in named.active
    BY <1>4, EntryActive DEF BarrierInv
  <2>5. QED
    BY <1>7, <1>11, <2>2, <2>3, <2>4, EntriesQuiet DEF BarrierInv
<1>15. StoresBehind'
  <2>1. \A v \in Warps : v[1] \in threads' =>
            \/ stores'[v] \cup hidden'[v] = {}
            \/ /\ v[1] \in threads /\ Keeps(v)
               /\ \A i \in stores'[v] \cup hidden'[v] :
                     i \in stores[v] \cup hidden[v] \/ \A q \in Executed(v) : i > q
    BY <1>4, <1>7
  <2>2. QED
    BY <2>1, StoresQuiet DEF BarrierInv
<1>16. QED
  BY <1>13, <1>14, <1>15 DEF BarrierInv

\* bar.arrive is put on its way: nothing is counted yet.
LEMMA SentBarrier ==
    ASSUME IndInv, ClusterInv, BarrierInv, TakesTurns, NEW w \in Warps,
           Issues(w, {"arrive"}), named_barrier_issue_ready(w),
           named_arrivals' = Append(named_arrivals, [w |-> w, bar |-> Code(w)[pc[w]].bar,
                                                     count |-> Code(w)[pc[w]].count]),
           UNCHANGED <<kernel, ctaVars, storeVars, named>>
    PROVE  BarrierInv'
<1> USE DEF ctaVars, storeVars
<1>1. PICK b, n, p : b = Code(w)[pc[w]].bar /\ n = Code(w)[pc[w]].count /\ p = pc[w]
  OBVIOUS
<1>2. /\ pc[w] > 0 /\ ~Parked(w) /\ w[1] \in threads /\ w[1] \in Slots /\ pc[w] \in Nat
      /\ Code(w)[pc[w]] \in Instructions /\ Code(w)[pc[w]].op = "arrive"
  BY IssuesFacts
<1>3. b \in Bars /\ n \in Nat \cup {WholeCta}
  BY <1>1, <1>2 DEF Instructions
<1>4. NoArrival(w) /\ stores[w] = {} /\ hidden[w] = {}
  BY DEF named_barrier_issue_ready, NoArrival
<1>5. /\ p \in Uses(w, b) /\ UseCount(w, b) \in Nat /\ UseCount(w, b)' = UseCount(w, b) + 1
      /\ \A x : x # b => UseCount(w, x)' = UseCount(w, x)
      /\ LastUse(w, b, p)'
  BY <1>1, <1>2, UseExecuted
<1>6. w \in named.active /\ w \notin named.arrived[b] /\ threads \subseteq Slots
  <2>1. w \notin named.arrived[b]
    BY <1>1, <1>2, <1>3, <1>5 DEF TakesTurns
  <2>2. QED
    BY <1>2, <2>1 DEF ClusterInv, RunsActive, IndInv, TypeOK
<1>7. \A v \in Warps \ {w} : Keeps(v)
  BY IssuesUses
<1>8. PICK L \in Nat : L = Len(named_arrivals) /\ DOMAIN named_arrivals = 1..L
  <2>1. named_arrivals \in Seq(Arrivals)
    BY DEF IndInv, TypeOK
  <2>2. QED
    BY <2>1
<1>9. /\ DOMAIN named_arrivals' = 1..(L + 1)
      /\ \A i \in 1..L : named_arrivals'[i] = named_arrivals[i]
      /\ named_arrivals'[L + 1] = [w |-> w, bar |-> b, count |-> n]
  <2>1. named_arrivals \in Seq(Arrivals)
    BY DEF IndInv, TypeOK
  <2>2. named_arrivals' = Append(named_arrivals, [w |-> w, bar |-> b, count |-> n])
    BY <1>1
  <2>3. QED
    BY <1>8, <2>1, <2>2
<1>10. \A i \in 1..L : named_arrivals[i].w # w
  BY <1>4, <1>8 DEF NoArrival
<1>11. /\ \A v \in Warps : \A x \in Bars : v # w \/ x # b => Owed(v, x)' = Owed(v, x)
       /\ Owed(w, b)' = {L + 1}
  <2>1. ASSUME NEW v \in Warps, NEW x \in Bars, v # w \/ x # b PROVE Owed(v, x)' = Owed(v, x)
    BY <1>8, <1>9, <2>1 DEF Owed
  <2>2. Owed(w, b)' = {L + 1}
    BY <1>8, <1>9, <1>10 DEF Owed
  <2>3. QED
    BY <2>1, <2>2
<1>12. \A v \in Warps : \A x \in Bars : Reached(v, x)' = Reached(v, x)
  <2>1. \A v \in Warps \ {w} : \A x \in Bars : Reached(v, x)' = Reached(v, x)
    BY <1>7, <1>11, KeepsFacts
  <2>2. \A x \in Bars : x # b => Reached(w, x)' = Reached(w, x)
    BY <1>5, <1>11, ReachedIs
  <2>3. Cardinality(Owed(w, b)) = 0 /\ Cardinality(Owed(w, b)') = 1
    BY <1>4, <1>11, NothingOwed, FS_Singleton
  <2>4. Reached(w, b) = UseCount(w, b) - 0 /\ Reached(w, b)' = (UseCount(w, b) + 1) - 1
    BY <1>5, <2>3, ReachedIs
  <2>5. QED
    BY <1>5, <2>1, <2>2, <2>4
<1>13. RoundsKept'
  <2> SUFFICES ASSUME NEW c \in threads, NEW x \in Bars
               PROVE  BarrierKept(named', Progress(x)', c, x, WholeBar(c, x)')
    BY DEF RoundsKept
  <2>1. c \in Slots /\ cta'[c] = cta[c] /\ named'.count[c][x] = named.count[c][x]
    BY <1>6
  <2>2. \A v \in WarpsOf(c) : v \in Warps
    BY <2>1, WarpsOfFacts
  <2>3. \A v \in WarpsOf(c) : /\ Reached(v, x)' = Reached(v, x)
                              /\ v \in named'.arrived[x] <=> v \in named.arrived[x]
                              /\ v \in named'.active => v \in named.active
                              /\ v \in named.arrived[x] /\ named.at[v] = x => named'.at[v] = x
    BY <1>12, <2>2
  <2>4. QED
    BY <2>1, <2>3, RoundCarried DEF BarrierInv
<1>14. EntriesKnown'
  <2>1. ASSUME NEW i \in 1..L PROVE EntryKnown(i)'
    <3>1. PICK v : v = named_arrivals[i].w
      OBVIOUS
    <3>2. i \in DOMAIN named_arrivals /\ EntryKnown(i) /\ named_arrivals'[i] = named_arrivals[i]
      BY <1>8, <1>9 DEF BarrierInv, EntriesKnown
    <3>3. v \in Warps /\ v # w
      <4>1. named_arrivals[i] \in Arrivals
        BY <3>2 DEF IndInv, TypeOK
      <4>2. QED
        BY <1>10, <3>1, <4>1 DEF Arrivals
    <3>4. v \in named'.active
      BY <3>1, <3>2 DEF EntryKnown
    <3>5. \A m \in DOMAIN named_arrivals' : named_arrivals'[m].w = v => m = i
      <4>1. \A m \in 1..L : named_arrivals[m].w = v => m = i
        BY <1>8, <3>1, <3>2 DEF EntryKnown
      <4>2. \A m \in DOMAIN named_arrivals' : m \in 1..L \/ m = L + 1
        BY <1>9
      <4>3. QED
        BY <1>9, <3>3, <4>1, <4>2
    <3>6. QED
      BY <1>7, <3>1, <3>2, <3>3, <3>4, <3>5, EntryStays
  <2>2. EntryKnown(L + 1)'
    <3>1. PICK m : m = L + 1
      OBVIOUS
    <3>2. /\ named_arrivals'[m].w = w /\ named_arrivals'[m].bar = b /\ named_arrivals'[m].count = n
          /\ \A i \in DOMAIN named_arrivals' : named_arrivals'[i].w = w => i = m
      <4>1. \A i \in DOMAIN named_arrivals' : i \in 1..L \/ i = m
        BY <1>9, <3>1
      <4>2. QED
        BY <1>9, <1>10, <3>1, <4>1
    <3>3. Code(w)'[p].op = "arrive" /\ Code(w)'[p].count = n
      <4>1. Code(w)' = Code(w)
        BY CodeSame
      <4>2. QED
        BY <1>1, <1>2, <4>1
    <3>4. p \in Nat /\ LastUse(w, b, p)'
      BY <1>1, <1>2, <1>5
    <3>5. EntryKnown(m)'
      BY <1>6, <3>2, <3>3, <3>4 DEF EntryKnown
    <3>6. QED
      BY <3>1, <3>5
  <2>3. \A i \in DOMAIN named_arrivals' : i \in 1..L \/ i = L + 1
    BY <1>9
  <2>4. QED
    BY <2>1, <2>2, <2>3 DEF EntriesKnown
<1>15. StoresBehind'
  <2>1. \A v \in Warps : v[1] \in threads' =>
            \/ stores'[v] \cup hidden'[v] = {}
            \/ /\ v[1] \in threads /\ Keeps(v)
               /\ \A i \in stores'[v] \cup hidden'[v] :
                     i \in stores[v] \cup hidden[v] \/ \A q \in Executed(v) : i > q
    BY <1>4, <1>7
  <2>2. QED
    BY <2>1, StoresQuiet DEF BarrierInv
<1>16. QED
  BY <1>13, <1>14, <1>15 DEF BarrierInv

\* Every instruction that is issued.
LEMMA IssueBarrier ==
    ASSUME IndInv, ClusterInv, BarrierInv, TakesTurns, KernelsWellFormed, NEW w \in Warps,
           \/ IssueStore(w) \/ IssueRemoteLoad(w) \/ IssueSync(w) \/ issue_named_arrival(w)
           \/ cluster_barrier_arrive(w) \/ cluster_barrier_wait(w)
    PROVE  BarrierInv'
<1>1. stores \in [Warps -> SUBSET Nat]
  BY DEF IndInv, TypeOK
<1>2. CASE IssueStore(w)
  <2>1. Issues(w, {"store", "rstore"}) /\ UNCHANGED <<kernel, ctaVars, named, named_arrivals, hidden>>
    BY <1>2 DEF IssueStore
  <2>2. (\A v \in Warps \ {w} : stores'[v] = stores[v]) /\ stores'[w] \subseteq stores[w] \cup {pc[w]}
    BY <1>1, <1>2 DEF IssueStore
  <2>3. {"store", "rstore"} \cap {"sync", "arrive"} = {}
    OBVIOUS
  <2>4. QED
    BY <2>1, <2>2, <2>3, OtherIssueBarrier
<1>3. ASSUME NEW op \in {"rload", "carrive", "cwait"}, Issues(w, {op}),
             UNCHANGED <<kernel, ctaVars, named, named_arrivals, storeVars>>
      PROVE  BarrierInv'
  <2>1. {op} \cap {"sync", "arrive"} = {}
    BY <1>3
  <2>2. hidden' = hidden /\ stores' = stores
    BY <1>3 DEF storeVars
  <2>3. QED
    BY <1>3, <2>1, <2>2, OtherIssueBarrier
<1>4. CASE IssueRemoteLoad(w)
  BY <1>3, <1>4 DEF IssueRemoteLoad
<1>5. CASE cluster_barrier_arrive(w)
  BY <1>3, <1>5 DEF cluster_barrier_arrive
<1>6. CASE cluster_barrier_wait(w)
  BY <1>3, <1>6 DEF cluster_barrier_wait
<1>7. CASE IssueSync(w)
  BY <1>7, CountedBarrier DEF IssueSync
<1>8. CASE issue_named_arrival(w)
  <2>1. Issues(w, {"arrive"}) /\ named_barrier_issue_ready(w) /\ UNCHANGED <<kernel, ctaVars, storeVars>>
    BY <1>8 DEF issue_named_arrival
  <2>2. CASE kernel.arriveLatency
    BY <1>8, <2>1, <2>2, SentBarrier DEF issue_named_arrival
  <2>3. CASE ~kernel.arriveLatency
    BY <1>8, <2>1, <2>3, CountedBarrier DEF issue_named_arrival
  <2>4. QED
    BY <2>2, <2>3
<1>9. QED
  BY <1>2, <1>4, <1>5, <1>6, <1>7, <1>8

\* The oldest bar.arrive is taken off the list.
LEMMA HeadGone ==
    ASSUME IndInv, EntriesKnown, NEW w \in Warps, NEW b \in Bars, named_arrivals # <<>>,
           named_arrivals[1].w = w, named_arrivals[1].bar = b,
           named_arrivals' = Tail(named_arrivals), UNCHANGED <<kernel, cta, pc>>
    PROVE  /\ \A i \in DOMAIN named_arrivals' :
                 i + 1 \in DOMAIN named_arrivals /\ named_arrivals'[i] = named_arrivals[i + 1]
           /\ \A i \in DOMAIN named_arrivals' : named_arrivals'[i].w # w
           /\ \A v \in Warps : \A x \in Bars : v # w \/ x # b => Reached(v, x)' = Reached(v, x)
           /\ Reached(w, b)' = Reached(w, b) + 1 /\ Reached(w, b) = UseCount(w, b) - 1
<1>1. /\ named_arrivals \in Seq(Arrivals) /\ 1 \in DOMAIN named_arrivals
      /\ \A i \in DOMAIN named_arrivals : i \in Nat /\ (i # 1 => i - 1 \in DOMAIN named_arrivals'
                                                        /\ named_arrivals'[i - 1] = named_arrivals[i])
      /\ \A i \in DOMAIN named_arrivals' :
            i \in Nat /\ i + 1 \in DOMAIN named_arrivals /\ named_arrivals'[i] = named_arrivals[i + 1]
  BY DEF IndInv, TypeOK
<1>2. \A i \in DOMAIN named_arrivals : EntryKnown(i)
  BY DEF EntriesKnown
<1>3. \A i, j \in DOMAIN named_arrivals : named_arrivals[i].w = named_arrivals[j].w => i = j
  BY <1>2 DEF EntryKnown
<1>4. \A i \in DOMAIN named_arrivals' : named_arrivals'[i].w # w
  BY <1>1, <1>3
<1>5. \A v \in Warps : Keeps(v)
  BY StillKeeps
<1>6. ASSUME NEW v \in Warps, NEW x \in Bars, v # w \/ x # b
      PROVE  Cardinality(Owed(v, x)') = Cardinality(Owed(v, x))
  <2>1. CASE Owed(v, x) = {}
    <3>1. Owed(v, x)' = {}
      BY <1>1, <2>1 DEF Owed
    <3>2. QED
      BY <2>1, <3>1
  <2>2. ASSUME NEW i \in Owed(v, x) PROVE Cardinality(Owed(v, x)') = Cardinality(Owed(v, x))
    <3>1. i \in DOMAIN named_arrivals /\ named_arrivals[i].w = v /\ named_arrivals[i].bar = x
      BY <2>2 DEF Owed
    <3>2. i # 1
      BY <1>6, <3>1
    <3>3. Owed(v, x) = {i}
      BY <1>3, <3>1 DEF Owed
    <3>4. Owed(v, x)' = {i - 1}
      <4>1. i - 1 \in Owed(v, x)'
        BY <1>1, <3>1, <3>2 DEF Owed
      <4>2. ASSUME NEW j \in Owed(v, x)' PROVE j = i - 1
        <5>1. j \in DOMAIN named_arrivals' /\ named_arrivals'[j].w = v
          BY <4>2 DEF Owed
        <5>2. j + 1 \in DOMAIN named_arrivals /\ named_arrivals[j + 1].w = v /\ j \in Nat
          BY <1>1, <5>1
        <5>3. j + 1 = i
          BY <1>3, <3>1, <5>2
        <5>4. QED
          BY <5>2, <5>3
      <4>3. QED
        BY <4>1, <4>2
    <3>5. QED
      BY <3>3, <3>4, FS_Singleton
  <2>3. QED
    BY <2>1, <2>2
<1>7. \A v \in Warps : \A x \in Bars : UseCount(v, x)' = UseCount(v, x)
  BY <1>5, KeepsFacts
<1>8. \A v \in Warps : \A x \in Bars : v # w \/ x # b => Reached(v, x)' = Reached(v, x)
  <2> SUFFICES ASSUME NEW v \in Warps, NEW x \in Bars, v # w \/ x # b
               PROVE  Reached(v, x)' = Reached(v, x)
    OBVIOUS
  <2>1. Cardinality(Owed(v, x)') = Cardinality(Owed(v, x)) /\ UseCount(v, x)' = UseCount(v, x)
    BY <1>6, <1>7
  <2>2. QED
    BY <2>1, ReachedIs
<1>9. Owed(w, b) = {1} /\ Owed(w, b)' = {}
  <2>1. Owed(w, b) = {1}
    BY <1>1, <1>3 DEF Owed
  <2>2. Owed(w, b)' = {}
    BY <1>4 DEF Owed
  <2>3. QED
    BY <2>1, <2>2
<1>10. Reached(w, b)' = Reached(w, b) + 1 /\ Reached(w, b) = UseCount(w, b) - 1
  <2>1. w \in named.active /\ w[1] \in threads
    <3>1. EntryKnown(1)
      BY <1>1, <1>2
    <3>2. w \in named.active
      BY <3>1 DEF EntryKnown
    <3>3. QED
      BY <3>2, EmptySlot DEF Warps
  <2>2. UseCount(w, b) \in Nat
    BY <2>1, UseFacts
  <2>3. Cardinality(Owed(w, b)) = 1 /\ Cardinality(Owed(w, b)') = 0
    BY <1>9, FS_Singleton, FS_EmptySet
  <2>4. Reached(w, b) = UseCount(w, b) - 1 /\ Reached(w, b)' = UseCount(w, b)' - 0
    BY <2>3, ReachedIs
  <2>5. QED
    BY <1>7, <2>2, <2>4
<1>11. QED
  BY <1>1, <1>4, <1>8, <1>10

\* The last use a warp has executed has the rank of the uses it has executed.
LEMMA LastRank ==
    ASSUME IndInv, NEW w \in Warps, w[1] \in threads, NEW b, NEW p, LastUse(w, b, p)
    PROVE  /\ p \in Uses(w, b) /\ UseCount(w, b) \in 1..Cardinality(Uses(w, b))
           /\ Kth(Uses(w, b), UseCount(w, b)) = p
<1>1. PICK n \in Nat : DOMAIN Code(w) = 1..n
  BY UseFacts
<1>2. /\ Uses(w, b) \subseteq BarUses(w) /\ BarUses(w) \subseteq DOMAIN Code(w)
      /\ \A i \in Executed(w) : \A j \in DOMAIN Code(w) : j <= i => j \in Executed(w)
  BY UseFacts
<1>3. PICK S, E : S = Uses(w, b) /\ E = Executed(w)
  OBVIOUS
<1>4. /\ S \in SUBSET (1..n) /\ p \in S \cap E
      /\ \A q \in S \cap E : q <= p
      /\ \A j \in S : j <= p => j \in E
  BY <1>1, <1>2, <1>3 DEF LastUse
<1>5. Cardinality(S \cap E) \in 1..Cardinality(S) /\ Kth(S, Cardinality(S \cap E)) = p
  BY <1>4, RankOfLast
<1>6. QED
  BY <1>3, <1>4, <1>5 DEF UseCount

\* How far every warp of a slot with threads has come is known.
AllPlaces == \A c \in threads : \A b \in Bars : PlacesOK(Progress(b), c)
LEMMA AllPlacesKnown == IndInv /\ EntriesKnown => AllPlaces
  BY PlacesKnown DEF AllPlaces

\* The oldest bar.arrive is counted, and its warp leaves if it waited for that.
LEMMA ProcessBarrier ==
    ASSUME IndInv, IndInv', BarrierInv, KernelsWellFormed, process_named_arrivals
    PROVE  BarrierInv'
<1> USE DEF ctaVars, storeVars
<1>1. PICK e : e = Head(named_arrivals)
  OBVIOUS
<1>2. PICK w, b, n : w = e.w /\ b = e.bar /\ n = e.count
  OBVIOUS
<1>3. /\ named_arrivals # <<>> /\ named_arrivals' = Tail(named_arrivals)
      /\ UNCHANGED <<kernel, ctaVars, pc, storeVars, dsm>>
  BY DEF process_named_arrivals
<1>4. e \in Arrivals /\ e = named_arrivals[1] /\ 1 \in DOMAIN named_arrivals
  BY <1>1, <1>3 DEF IndInv, TypeOK
<1>5. w \in Warps /\ b \in Bars /\ n \in Nat \cup {WholeCta} /\ ~NoArrival(w)
  BY <1>2, <1>4 DEF Arrivals, NoArrival
<1>6. named \in BarrierSets /\ Justified(named) /\ named.at[w] = NoBar /\ threads \subseteq Slots
  BY <1>5 DEF IndInv, TypeOK, ParkedRuns, Parked
<1>7. w \in named.active /\ w \notin named.arrived[b] /\ EntryKnown(1)
  BY <1>2, <1>4 DEF BarrierInv, EntriesKnown, EntryKnown
<1>8. w[1] \in threads /\ w[1] \in Slots
  BY <1>5, <1>7, EmptySlot DEF Warps
<1>9. PICK p \in Nat : LastUse(w, b, p) /\ Code(w)[p].op = "arrive" /\ Code(w)[p].count = n
  BY <1>2, <1>4, <1>7 DEF EntryKnown
<1>10. /\ p \in Uses(w, b) /\ UseCount(w, b) \in 1..Cardinality(Uses(w, b))
       /\ Kth(Uses(w, b), UseCount(w, b)) = p
  BY <1>5, <1>8, <1>9, LastRank
<1>11. /\ \A i \in DOMAIN named_arrivals' :
             i + 1 \in DOMAIN named_arrivals /\ named_arrivals'[i] = named_arrivals[i + 1]
       /\ \A i \in DOMAIN named_arrivals' : named_arrivals'[i].w # w
       /\ \A v \in Warps : \A x \in Bars : v # w \/ x # b => Reached(v, x)' = Reached(v, x)
       /\ Reached(w, b)' = Reached(w, b) + 1 /\ Reached(w, b) = UseCount(w, b) - 1
  BY <1>2, <1>3, <1>4, <1>5, HeadGone DEF BarrierInv
<1>12. "arrive" = "sync" \/ Reached(w, b) + 1 \notin SyncUses(w, b)
  <2>1. Reached(w, b) + 1 = UseCount(w, b)
    BY <1>10, <1>11
  <2>2. QED
    BY <1>9, <1>10, <2>1 DEF SyncUses
<1>13. PICK t, d : t = warp_reaches_barrier(named, w, "arrive", b, n, d) /\ d = kernel.releaseLatency
  OBVIOUS
<1>14. named' = t \/ named' = warp_exit(t, w, kernel.releaseLatency)
  BY <1>1, <1>2, <1>13 DEF process_named_arrivals, LeavesBarriers
<1>15. /\ t \in BarrierSets /\ t.active = named.active
       /\ \A v \in Warps : t.at[v] # NoBar => named.at[v] # NoBar
  <2>1. OneArrives(named, t, w, "arrive")
    BY <1>5, <1>6, <1>13, ReachesFacts
  <2>2. QED
    BY <2>1 DEF OneArrives
<1>16. t.at[w] = NoBar
  BY <1>5, <1>6, <1>15
<1>17. \A v \in Warps : \A x \in Bars : v \in t.arrived[x] => v \in named.arrived[x] \/ v = w
  <2>1. Reaches(named, t, w, "arrive", b, n)
    BY <1>5, <1>6, <1>13, ReachEffect
  <2>2. QED
    BY <2>1 DEF Reaches
<1>18. \A c \in threads : \A x \in Bars : BarrierKept(t, Progress(x)', c, x, WholeBar(c, x)')
  <2>1. RoundsKept /\ EntriesKnown /\ cta' = cta /\ kernel' = kernel
    BY <1>3 DEF BarrierInv
  <2>2. PICK type : type = "arrive"
    OBVIOUS
  <2>3. /\ type = "sync" \/ Reached(w, b) + 1 \notin SyncUses(w, b)
        /\ t = warp_reaches_barrier(named, w, type, b, n, d)
    BY <1>12, <1>13, <2>2
  <2>4. QED
    BY <1>5, <1>6, <1>7, <1>8, <1>9, <1>10, <1>11, <2>1, <2>3, ReachRounds
<1>19. /\ \A v \in Warps : \A x \in Bars : v \in named'.arrived[x] => v \in named.arrived[x] \/ v = w
       /\ \A v \in Warps : v # w /\ v \in named.active => v \in named'.active
  <2>1. CASE named' = t
    BY <1>15, <1>17, <2>1
  <2>2. CASE named' = warp_exit(t, w, kernel.releaseLatency)
    <3>1. /\ named'.active = t.active \ {w}
          /\ \A v \in Warps : \A x \in Bars : v \in named'.arrived[x] => v \in t.arrived[x]
      BY <1>5, <1>15, <1>16, <2>2, LeavesOthers
    <3>2. QED
      BY <1>15, <1>17, <3>1
  <2>3. QED
    BY <1>14, <2>1, <2>2
<1>20. \A v \in Warps : Keeps(v)
  BY <1>3, StillKeeps
<1>21. EntriesKnown'
  <2> SUFFICES ASSUME NEW j \in DOMAIN named_arrivals' PROVE EntryKnown(j)'
    BY DEF EntriesKnown
  <2>1. PICK i : i = j + 1
    OBVIOUS
  <2>2. i \in DOMAIN named_arrivals /\ named_arrivals'[j] = named_arrivals[i] /\ EntryKnown(i)
    BY <1>11, <2>1 DEF BarrierInv, EntriesKnown
  <2>3. PICK v : v = named_arrivals[i].w
    OBVIOUS
  <2>4. v \in Warps /\ v # w /\ named_arrivals[i].bar \in Bars
    <3>1. named_arrivals[i] \in Arrivals
      BY <2>2 DEF IndInv, TypeOK
    <3>2. QED
      BY <1>11, <2>2, <2>3, <3>1 DEF Arrivals
  <2>5. v \in named.active
    BY <2>2, <2>3 DEF EntryKnown
  <2>6. \A m \in DOMAIN named_arrivals' : named_arrivals'[m].w = v => m = j
    <3>1. \A m \in DOMAIN named_arrivals' : named_arrivals'[m].w = v => m + 1 = i
      BY <1>11, <2>2, <2>3 DEF EntryKnown
    <3>2. named_arrivals' \in Seq(Arrivals)
      BY <1>3 DEF IndInv, TypeOK
    <3>3. \A m \in DOMAIN named_arrivals' : m \in Nat
      BY <3>2
    <3>4. QED
      BY <2>1, <3>1, <3>3
  <2>7. QED
    BY <1>19, <1>20, <2>2, <2>3, <2>4, <2>5, <2>6, EntryStays
<1>22. RoundsKept'
  <2> SUFFICES ASSUME NEW c \in threads, NEW x \in Bars
               PROVE  BarrierKept(named', Progress(x)', c, x, WholeBar(c, x)')
    BY <1>3 DEF RoundsKept
  <2>1. BarrierKept(t, Progress(x)', c, x, WholeBar(c, x)') /\ c \in Slots
    BY <1>6, <1>18
  <2>2. CASE named' = t
    BY <2>1, <2>2
  <2>3. CASE named' = warp_exit(t, w, kernel.releaseLatency)
    <3>1. AllPlaces'
      BY <1>21, AllPlacesKnown, PTL
    <3>2. PlacesOK(Progress(x)', c)
      BY <1>3, <3>1 DEF AllPlaces
    <3>3. PICK whole \in BOOLEAN : whole = WholeBar(c, x) /\ whole = WholeBar(c, x)'
      BY <1>3, <2>1, WholeSame
    <3>4. PICK Q : Q = Progress(x)'
      OBVIOUS
    <3>5. BarrierKept(t, Q, c, x, whole) /\ PlacesOK(Q, c)
      BY <2>1, <3>2, <3>3, <3>4
    <3>6. BarrierKept(named', Q, c, x, whole)
      BY <1>5, <1>15, <1>16, <2>1, <2>3, <3>5, LeavesRounds
    <3>7. QED
      BY <3>3, <3>4, <3>6
  <2>4. QED
    BY <1>14, <2>2, <2>3
<1>23. StoresBehind'
  <2>1. \A v \in Warps : v[1] \in threads' =>
            /\ v[1] \in threads /\ Keeps(v)
            /\ \A i \in stores'[v] \cup hidden'[v] :
                  i \in stores[v] \cup hidden[v] \/ \A q \in Executed(v) : i > q
    BY <1>3, <1>20
  <2>2. QED
    BY <2>1, StoresQuiet DEF BarrierInv
<1>24. QED
  BY <1>21, <1>22, <1>23 DEF BarrierInv

\* A warp of a slot with threads uses each barrier finitely often.
KnownUses == \A v \in Warps : \A b \in Bars : v[1] \in threads => Cardinality(Uses(v, b)) \in Nat
LEMMA KnownUsesHold == IndInv => KnownUses
  BY UseFacts DEF KnownUses

\* A CTA is issued: in its slot nobody has come to a barrier.
LEMMA IssueBlockBarrier ==
    ASSUME IndInv, IndInv', BarrierInv, NEW c \in Slots, issue_block2core(c)
    PROVE  BarrierInv'
<1>1. PICK g \in NextGroup :
          /\ cta[c] = Free
          /\ cta' = [cta EXCEPT ![c] = [g |-> g, r |-> issued[g] + 1]]
          /\ threads' = threads \cup {c}
          /\ pc' = [w \in Warps |-> IF w[1] = c THEN 1 ELSE pc[w]]
          /\ hidden' = [w \in Warps |-> IF w[1] = c THEN {} ELSE hidden[w]]
          /\ named' = allocate_barrier(named, c)
          /\ UNCHANGED <<kernel, named_arrivals, stores, dsm, cluster>>
  BY DEF issue_block2core
<1>2. /\ c \notin threads /\ threads \subseteq Slots /\ named \in BarrierSets
      /\ cta \in [Slots -> [g : Groups, r : Nat] \cup {Free}]
  BY <1>1 DEF IndInv, TypeOK
<1>3. /\ \A d \in Slots \ {c} : cta'[d] = cta[d]
      /\ \A w \in Warps : IF w[1] = c THEN pc'[w] = 1 ELSE pc'[w] = pc[w] /\ hidden'[w] = hidden[w]
  BY <1>1, <1>2
<1>4. /\ \A v \in Warps : v \in named'.active <=> v \in named.active \/ v[1] = c
      /\ \A v \in Warps : v[1] # c => named'.at[v] = named.at[v]
      /\ \A v \in Warps : \A x \in Bars : v \in named'.arrived[x] <=> v \in named.arrived[x] /\ v[1] # c
      /\ \A x \in Bars : /\ named'.count[c][x] = 0
                         /\ \A d \in Slots : d # c => named'.count[d][x] = named.count[d][x]
  <2>1. PICK A, t : A = named.active \cup WarpsOf(c) /\ t = named' /\ t = ClearCta(named, c, A)
    BY <1>1 DEF allocate_barrier
  <2>2. /\ t.active = A
        /\ \A v \in Warps : v[1] # c => t.at[v] = named.at[v]
        /\ \A v \in Warps : \A x \in Bars : v \in t.arrived[x] <=> v \in named.arrived[x] /\ v[1] # c
        /\ \A d \in Slots : \A x \in Bars : t.count[d][x] = IF d = c THEN 0 ELSE named.count[d][x]
    BY <1>2, <2>1, ClearEffect
  <2>3. \A v \in Warps : v \in named'.active <=> v \in named.active \/ v[1] = c
    BY <2>1, <2>2, WarpsOfFacts
  <2>4. \A v \in Warps : v[1] # c => named'.at[v] = named.at[v]
    BY <2>1, <2>2
  <2>5. \A v \in Warps : \A x \in Bars : v \in named'.arrived[x] <=> v \in named.arrived[x] /\ v[1] # c
    BY <2>1, <2>2
  <2>6. \A x \in Bars : /\ named'.count[c][x] = 0
                        /\ \A d \in Slots : d # c => named'.count[d][x] = named.count[d][x]
    <3>1. \A d \in Slots : \A x \in Bars : t.count[d][x] = IF d = c THEN 0 ELSE named.count[d][x]
      BY ONLY <2>2
    <3>2. c \in Slots /\ t = named'
      BY ONLY <2>1, c \in Slots
    <3>3. ASSUME NEW x \in Bars, NEW d \in Slots
          PROVE  /\ named'.count[c][x] = 0
                 /\ d # c => named'.count[d][x] = named.count[d][x]
      BY ONLY <3>1, <3>2
    <3>4. QED
      BY ONLY <3>2, <3>3
  <2>7. QED
    BY ONLY <2>3, <2>4, <2>5, <2>6
<1>5. \A v \in Warps : v[1] = c => NoArrival(v) /\ Executed(v)' = {}
  <2>1. \A v \in Warps : v[1] = c => NoArrival(v)
    BY <1>2, EmptySlot
  <2>2. ASSUME NEW v \in Warps, v[1] = c PROVE Executed(v)' = {}
    <3>1. pc'[v] = 1
      BY <1>3, <2>2
    <3>2. QED
      BY <3>1 DEF Executed
  <2>3. QED
    BY <2>1, <2>2
<1>6. \A v \in Warps : v[1] \in Slots /\ (v[1] # c => Keeps(v))
  BY <1>1, <1>3, StillKeeps DEF Warps
<1>7. \A v \in Warps : \A b \in Bars : Owed(v, b)' = Owed(v, b)
  BY <1>1 DEF Owed
<1>8. ASSUME NEW b \in Bars PROVE BarrierKept(named', Progress(b)', c, b, WholeBar(c, b)')
  <2>1. PICK t, P : t = named' /\ P = Progress(b)'
    OBVIOUS
  <2>2. ASSUME NEW v \in WarpsOf(c)
        PROVE  v \notin t.arrived[b] /\ P[v].reached = 0 /\ P[v].syncs \subseteq Nat \ {0}
    <3>1. v \in Warps /\ v[1] = c
      BY WarpsOfFacts
    <3>2. Owed(v, b)' = {}
      BY <1>5, <1>7, <3>1, NothingOwed
    <3>3. UseCount(v, b)' = 0
      BY <1>5, <3>1, FS_EmptySet DEF UseCount
    <3>4. Reached(v, b)' = 0
      BY <3>2, <3>3, ReachedIs, FS_EmptySet
    <3>5. P[v] = Place(v, b)'
      BY <2>1, <3>1 DEF Progress
    <3>6. P[v].reached = Reached(v, b)' /\ P[v].syncs = SyncUses(v, b)'
      BY <3>5 DEF Place
    <3>7. Cardinality(Uses(v, b)') \in Nat
      <4>1. KnownUses'
        BY KnownUsesHold, PTL
      <4>2. QED
        BY <1>1, <3>1, <4>1 DEF KnownUses
    <3>8. SyncUses(v, b)' \subseteq Nat \ {0}
      BY <3>7 DEF SyncUses
    <3>9. QED
      BY <1>4, <2>1, <3>1, <3>4, <3>6, <3>8
  <2>3. Round(t, P, c, b, WholeBar(c, b)', 0)
    BY <2>2 DEF Round
  <2>4. t.count[c][b] = Cardinality(Here(t, c, b))
    <3>1. \A j \in 1..WarpsPerCta : <<c, j>> \in WarpsOf(c)
      BY DEF WarpsOf
    <3>2. Here(t, c, b) = {}
      BY <2>2, <3>1 DEF Here
    <3>3. t.count[c][b] = 0
      BY <1>4, <2>1
    <3>4. QED
      BY <3>2, <3>3, FS_EmptySet
  <2>5. QED
    BY <2>1, <2>3, <2>4 DEF BarrierKept
<1>9. RoundsKept'
  <2> SUFFICES ASSUME NEW d \in threads', NEW b \in Bars
               PROVE  BarrierKept(named', Progress(b)', d, b, WholeBar(d, b)')
    BY DEF RoundsKept
  <2>1. CASE d = c
    BY <1>8, <2>1
  <2>2. CASE d # c
    <3>1. d \in threads /\ d \in Slots /\ cta'[d] = cta[d] /\ kernel' = kernel
      BY <1>1, <1>2, <1>3, <2>2
    <3>2. ASSUME NEW v \in WarpsOf(d)
          PROVE  /\ Reached(v, b)' = Reached(v, b)
                 /\ v \in named'.arrived[b] <=> v \in named.arrived[b]
                 /\ v \in named'.active => v \in named.active
                 /\ v \in named.arrived[b] /\ named.at[v] = b => named'.at[v] = b
      <4>1. v \in Warps /\ v[1] = d
        BY <3>1, WarpsOfFacts
      <4>2. Reached(v, b)' = Reached(v, b)
        BY <1>6, <1>7, <2>2, <4>1, KeepsFacts
      <4>3. QED
        BY <1>4, <2>2, <4>1, <4>2
    <3>3. named'.count[d][b] = named.count[d][b]
      BY <1>4, <2>2, <3>1
    <3>4. RoundsKept
      BY DEF BarrierInv
    <3>5. QED
      BY <3>1, <3>2, <3>3, <3>4, RoundCarried
  <2>3. QED
    BY <2>1, <2>2
<1>10. EntriesKnown'
  <2>1. \A v \in Warps : ~NoArrival(v) => v[1] # c /\ v \in named.active
    BY <1>5, EntryActive DEF BarrierInv
  <2>2. QED
    BY <1>1, <1>4, <1>6, <2>1, EntriesQuiet DEF BarrierInv
<1>11. StoresBehind'
  <2> SUFFICES ASSUME NEW v \in Warps, v[1] \in threads', NEW i \in stores'[v] \cup hidden'[v],
                      NEW q \in (BarUses(v) \cap Executed(v))'
               PROVE  i > q
    BY DEF StoresBehind
  <2>1. CASE v[1] = c
    BY <1>5, <2>1
  <2>2. CASE v[1] # c
    <3>1. v[1] \in threads /\ i \in stores[v] \cup hidden[v] /\ q \in BarUses(v) \cap Executed(v)
      BY <1>1, <1>3, <1>6, <2>2 DEF Keeps
    <3>2. QED
      BY <3>1 DEF BarrierInv, StoresBehind
  <2>3. QED
    BY <2>1, <2>2
<1>12. QED
  BY <1>9, <1>10, <1>11 DEF BarrierInv

\* Nobody has come to a barrier at first.
LEMMA InitBarrier == Init => BarrierInv
<1> SUFFICES ASSUME Init PROVE BarrierInv
  OBVIOUS
<1>1. threads = {} /\ DOMAIN named_arrivals = {}
  BY DEF Init
<1>2. QED
  BY <1>1 DEF BarrierInv, RoundsKept, EntriesKnown, StoresBehind

\* Every step keeps what the named barriers rest on.
LEMMA NextBarrier ==
    ASSUME IndInv, IndInv', ClusterInv, BarrierInv, TakesTurns, KernelsWellFormed, [Next]_vars
    PROVE  BarrierInv'
<1>1. CASE UNCHANGED vars
  <2>1. /\ UNCHANGED <<kernel, cta, threads, pc, named, named_arrivals>>
        /\ \A v \in Warps : stores'[v] \cup hidden'[v] \subseteq stores[v] \cup hidden[v]
    BY <1>1 DEF vars
  <2>2. QED
    BY <2>1, StillBarrier
<1>2. CASE process_named_arrivals
  BY <1>2, ProcessBarrier
<1>3. CASE \E c \in Slots : issue_block2core(c) \/ release_pending_tma_ctas(c)
  BY <1>3, IssueBlockBarrier, PendingBarrier
<1>4. ASSUME NEW w \in Warps,
             \/ IssueStore(w) \/ IssueRemoteLoad(w) \/ IssueSync(w) \/ issue_named_arrival(w)
             \/ cluster_barrier_arrive(w) \/ cluster_barrier_wait(w) \/ Exit(w)
             \/ DelayedRelease(w) \/ StoresVisible(w) \/ dsm_on_tx_done(w)
             \/ register_cta_thread_exit(w)
             \/ \E i \in stores[w] : complete_shared_store(w, i)
      PROVE  BarrierInv'
  BY <1>4, IssueBarrier, ExitBarrier, DelayedBarrier, CompletionBarrier, RegisterBarrier
<1>5. QED
  BY <1>1, <1>2, <1>3, <1>4 DEF Next

\* What the named barriers rest on makes them separate.
LEMMA RoundsSeparate == IndInv /\ ClusterInv /\ BarrierInv => BarrierSeparates
<1> SUFFICES ASSUME IndInv, ClusterInv, BarrierInv, NEW w \in Warps, NEW b \in Bars, Running(w),
                    NEW k \in 1..(Reached(w, b) - IF named.at[w] = b THEN 1 ELSE 0),
                    Code(w)[Kth(Uses(w, b), k)].op = "sync",
                    NEW v \in WarpsOf(w[1]), Cardinality(Uses(v, b)) >= k
             PROVE  /\ Reached(v, b) >= k
                    /\ \A i \in stores[v] \cup hidden[v] : i > Kth(Uses(v, b), k)
  BY DEF BarrierSeparates
<1>1. PICK c \in threads : c = w[1]
  BY DEF Running
<1>2. c \in Slots /\ w \in WarpsOf(c) /\ v \in WarpsOf(c) /\ v \in Warps /\ v[1] = c
  <2>1. c \in Slots
    BY DEF IndInv, TypeOK
  <2>2. QED
    BY <1>1, <2>1, WarpsOfFacts
<1>3. PICK P : P = Progress(b)
  OBVIOUS
<1>4. PlacesOK(P, c)
  BY <1>3, PlacesKnown DEF BarrierInv
<1>5. PICK R \in Nat : Round(named, P, c, b, WholeBar(c, b), R)
  BY <1>1, <1>3 DEF BarrierInv, RoundsKept, BarrierKept
<1>6. /\ P[w].reached = Reached(w, b) /\ P[w].syncs = SyncUses(w, b)
      /\ P[v].reached = Reached(v, b) /\ P[v].uses = (Uses(v, b) # {})
  BY <1>2, <1>3 DEF Progress, Place
<1>7. /\ Reached(w, b) \in Nat /\ Reached(v, b) \in Nat /\ SyncUses(w, b) \subseteq Nat
      /\ k \in Nat /\ k >= 1 /\ k <= Reached(w, b)
  <2>1. Reached(w, b) \in Nat /\ Reached(v, b) \in Nat /\ SyncUses(w, b) \subseteq Nat
    BY <1>2, <1>4, <1>6 DEF PlacesOK
  <2>2. CASE named.at[w] = b
    BY <2>1, <2>2
  <2>3. CASE named.at[w] # b
    BY <2>1, <2>3
  <2>4. QED
    BY <2>2, <2>3
<1>8. ASSUME NEW u \in Warps, u[1] = c
      PROVE  /\ UseCount(u, b) \in Nat /\ Cardinality(Uses(u, b)) \in Nat
             /\ UseCount(u, b) <= Cardinality(Uses(u, b)) /\ Reached(u, b) <= UseCount(u, b)
  <2>1. /\ UseCount(u, b) \in Nat /\ Cardinality(Uses(u, b)) \in Nat
        /\ UseCount(u, b) <= Cardinality(Uses(u, b))
    BY <1>8, UseFacts
  <2>2. \/ Reached(u, b) = UseCount(u, b)
        \/ Reached(u, b) = UseCount(u, b) - 1
    BY <1>8, OwedFacts DEF BarrierInv
  <2>3. QED
    BY <2>1, <2>2
<1>9. k \in SyncUses(w, b)
  <2>1. k <= Cardinality(Uses(w, b)) /\ Cardinality(Uses(w, b)) \in Nat
    BY <1>1, <1>7, <1>8
  <2>2. QED
    BY <1>7, <2>1 DEF SyncUses
<1>10. k <= R
  <2>1. CASE w \in named.arrived[b]
    <3>1. Reached(w, b) = R + 1 /\ (named.at[w] # b => R + 1 \notin SyncUses(w, b))
      BY <1>2, <1>5, <1>6, <2>1 DEF Round
    <3>2. CASE named.at[w] = b
      BY <1>7, <3>1, <3>2
    <3>3. CASE named.at[w] # b
      BY <1>7, <1>9, <3>1, <3>3
    <3>4. QED
      BY <3>2, <3>3
  <2>2. CASE w \notin named.arrived[b]
    <3>1. \A j \in SyncUses(w, b) : j <= Reached(w, b) => j <= R
      BY <1>2, <1>5, <1>6, <2>2 DEF Round
    <3>2. QED
      BY <1>7, <1>9, <3>1
  <2>3. QED
    BY <2>1, <2>2
<1>11. Reached(v, b) >= k
  <2>1. CASE v \in named.arrived[b]
    <3>1. Reached(v, b) = R + 1
      BY <1>2, <1>5, <1>6, <2>1 DEF Round
    <3>2. QED
      BY <1>7, <1>10, <3>1
  <2>2. CASE v \notin named.arrived[b] /\ v \in named.active
    <3>1. Uses(v, b) # {}
      BY <1>7, FS_EmptySet
    <3>2. Reached(v, b) = R
      BY <1>2, <1>5, <1>6, <2>2, <3>1 DEF Round
    <3>3. QED
      BY <1>7, <1>10, <3>2
  <2>3. CASE v \notin named.active
    <3>1. pc[v] = 0
      BY <1>2, <2>3 DEF ClusterInv, RunsActive, IndInv, TypeOK
    <3>2. NoArrival(v)
      BY <2>3, EntryActive DEF BarrierInv
    <3>3. UseCount(v, b) = Cardinality(Uses(v, b))
      <4>1. Uses(v, b) \cap Executed(v) = Uses(v, b)
        BY <3>1 DEF Uses, Executed
      <4>2. QED
        BY <4>1 DEF UseCount
    <3>4. Reached(v, b) = UseCount(v, b) - 0
      BY <3>2, NothingOwed, ReachedIs
    <3>5. QED
      BY <1>2, <1>7, <1>8, <3>3, <3>4
  <2>4. QED
    BY <2>1, <2>2, <2>3
<1>12. Kth(Uses(v, b), k) \in BarUses(v) \cap Executed(v)
  <2>1. PICK n \in Nat : DOMAIN Code(v) = 1..n
    BY <1>2, UseFacts
  <2>2. /\ Uses(v, b) \subseteq BarUses(v) /\ BarUses(v) \subseteq DOMAIN Code(v)
        /\ \A i \in Executed(v) : \A j \in DOMAIN Code(v) : j <= i => j \in Executed(v)
    BY <1>2, UseFacts
  <2>3. PICK S, E : S = Uses(v, b) /\ E = Executed(v)
    OBVIOUS
  <2>4. k \in 1..Cardinality(S \cap E)
    <3>1. k <= UseCount(v, b) /\ UseCount(v, b) \in Nat
      BY <1>2, <1>7, <1>8, <1>11
    <3>2. QED
      BY <1>7, <2>3, <3>1 DEF UseCount
  <2>5. S \in SUBSET (1..n) /\ \A i \in E : \A j \in S : j <= i => j \in E
    BY <2>1, <2>2, <2>3
  <2>6. Kth(S, k) \in S \cap E
    BY <2>4, <2>5, KthBelow
  <2>7. QED
    BY <2>2, <2>3, <2>6
<1>13. QED
  BY <1>2, <1>11, <1>12 DEF BarrierInv, StoresBehind

\* bar.sync separates in every execution of barrier_set_t's counting: when each barrier of a
\* CTA is used either with bar.sync of the whole CTA or with the count of the warps that
\* use it, and no warp comes to a barrier again before its last arrival there was consumed,
\* then a warp that has passed its k-th use of a barrier, a bar.sync, finds that every warp
\* of the CTA with a k-th use has reached it, a bar.arrive under way not included, and that
\* what that warp stored before it is complete and visible.
THEOREM NamedBarrierSeparates ==
    ASSUME KernelsWellFormed
    PROVE  Spec /\ []TakesTurns => []BarrierSeparates
<1>1. Init => BarrierInv
  BY InitBarrier
<1>2. IndInv /\ IndInv' /\ ClusterInv /\ BarrierInv /\ TakesTurns /\ [Next]_vars => BarrierInv'
  BY NextBarrier
<1>3. IndInv /\ ClusterInv /\ BarrierInv => BarrierSeparates
  BY RoundsSeparate
<1>4. QED
  BY <1>1, <1>2, <1>3, Invariance, ClusterInvariance, PTL DEF Spec

-----------------------------------------------------------------------------
(* Kernels whose warps take turns whatever happens. *)

\* A warp has executed every use of a barrier.
UsedUp(v, b) == Uses(v, b) \subseteq Executed(v)

\* A warp whose arrival is counted is parked there or has no use of the barrier left.
TurnInv ==
    \A w \in Warps : \A b \in Bars :
        w[1] \in threads /\ w \in named.arrived[b] => named.at[w] = b \/ UsedUp(w, b)

\* Then it does not come to the barrier again.
LEMMA TurnsTaken == IndInv /\ ClusterInv /\ TurnInv => TakesTurns
<1> SUFFICES ASSUME IndInv, ClusterInv, TurnInv, NEW w \in Warps, NEW b \in Bars,
                    w \in named.arrived[b], pc[w] > 0, ~Parked(w), pc[w] \in Uses(w, b)
             PROVE  FALSE
  BY DEF TakesTurns
<1>1. named.at[w] = NoBar /\ b # NoBar
  BY NamedBarrierAssumption DEF Parked
<1>2. w[1] \in threads
  <2>1. pc[w] \in Nat /\ w[1] \in Slots
    BY DEF IndInv, TypeOK, Warps
  <2>2. w[1] \notin threads => pc[w] = 0
    BY <2>1, EmptySlot
  <2>3. QED
    BY <2>1, <2>2
<1>3. UsedUp(w, b)
  BY <1>1, <1>2 DEF TurnInv
<1>4. pc[w] \in Executed(w) /\ pc[w] \in Nat
  BY <1>3 DEF UsedUp, IndInv, TypeOK
<1>5. Executed(w) = 1..(pc[w] - 1)
  BY DEF Executed
<1>6. QED
  BY <1>4, <1>5

\* A bar.arrive is the last use of its barrier.
LEMMA LastArrive ==
    ASSUME IndInv, ArrivesLast, NEW w \in Warps, w[1] \in threads, NEW b \in Bars,
           NEW p \in Uses(w, b), Code(w)[p].op = "arrive"
    PROVE  \A q \in Uses(w, b) : q <= p
<1>1. PICK g, r, j : g = cta[w[1]].g /\ r = cta[w[1]].r /\ j = w[2]
  OBVIOUS
<1>2. /\ kernel \in Kernels /\ g \in DOMAIN kernel.groups /\ r \in DOMAIN kernel.groups[g]
      /\ j \in 1..WarpsPerCta
  BY <1>1 DEF IndInv, TypeOK, Warps
<1>3. Code(w) = kernel.groups[g][r][j]
  BY <1>1 DEF Code
<1>4. Uses(w, b) = UsesIn(kernel.groups[g][r][j], b)
  BY <1>3 DEF Uses, UsesIn
<1>5. QED
  BY <1>2, <1>3, <1>4 DEF ArrivesLast, LastArrives

\* A warp keeps its instructions and executes more of them.
Grows(v) ==
    /\ kernel' = kernel /\ cta'[v[1]] = cta[v[1]]
    /\ BarUses(v) \cap Executed(v) \subseteq (BarUses(v) \cap Executed(v))'

LEMMA UsedUpStays ==
    ASSUME NEW v, Grows(v)
    PROVE  \A b : UsedUp(v, b) => UsedUp(v, b)'
<1>1. BarUses(v)' = BarUses(v) /\ \A b : Uses(v, b)' = Uses(v, b)
  BY CodeSame DEF Grows
<1>2. \A b : Uses(v, b) \subseteq BarUses(v)
  BY DEF Uses, BarUses
<1>3. BarUses(v) \cap Executed(v) \subseteq Executed(v)'
  BY DEF Grows
<1>4. QED
  BY <1>1, <1>2, <1>3 DEF UsedUp

\* What a step may do to the arrivals of a slot that keeps its CTA.
TurnKept(v, b) ==
    \/ named'.at[v] = b \/ UsedUp(v, b)'
    \/ /\ v[1] \in threads /\ v \in named.arrived[b] /\ Grows(v)
       /\ named.at[v] = b => named'.at[v] = b

LEMMA TurnsKept ==
    ASSUME TurnInv, \A v \in Warps : \A b \in Bars :
               v[1] \in threads' /\ v \in named'.arrived[b] => TurnKept(v, b)
    PROVE  TurnInv'
<1> SUFFICES ASSUME NEW v \in Warps, NEW b \in Bars, v[1] \in threads', v \in named'.arrived[b]
             PROVE  named'.at[v] = b \/ UsedUp(v, b)'
  BY DEF TurnInv
<1>1. CASE named'.at[v] = b \/ UsedUp(v, b)'
  BY <1>1
<1>2. CASE /\ v[1] \in threads /\ v \in named.arrived[b] /\ Grows(v)
           /\ named.at[v] = b => named'.at[v] = b
  BY <1>2, UsedUpStays DEF TurnInv
<1>3. QED
  BY <1>1, <1>2 DEF TurnKept

LEMMA KeepsGrows == ASSUME NEW v, Keeps(v) PROVE Grows(v)
  BY DEF Keeps, Grows

\* A warp that issues an instruction.
LEMMA IssuesGrows ==
    ASSUME IndInv, NEW w \in Warps, NEW kinds, Issues(w, kinds), kernel' = kernel, cta' = cta
    PROVE  \A v \in Warps : Grows(v)
<1>1. \A v \in Warps \ {w} : Grows(v)
  BY IssuesUses, KeepsGrows
<1>2. Grows(w)
  <2>1. Executed(w)' = Executed(w) \cup {pc[w]}
    BY IssuesUses
  <2>2. BarUses(w)' = BarUses(w)
    BY CodeSame
  <2>3. QED
    BY <2>1, <2>2 DEF Grows
<1>3. QED
  BY <1>1, <1>2

\* The arrivals and parked warps of t are those of s, except for new arrivals.
ArrivalsStay(s, t, new) ==
    \A v \in Warps : \A b \in Bars :
        v \in t.arrived[b] /\ <<v, b>> \notin new =>
            v \in s.arrived[b] /\ (s.at[v] = b => t.at[v] = b)

Arrived(s, t, w, b, type) ==
    /\ ArrivalsStay(s, t, {<<w, b>>})
    /\ w \in t.arrived[b] /\ type = "sync" => t.at[w] = b
LEMMA ReachArrivals ==
    ASSUME NEW s \in BarrierSets, NEW w \in Warps, s.at[w] = NoBar,
           NEW type, NEW b \in Bars, NEW n \in Nat \cup {WholeCta}, NEW d,
           NEW t, t = warp_reaches_barrier(s, w, type, b, n, d)
    PROVE  Arrived(s, t, w, b, type)
<1>1. Reaches(s, t, w, type, b, n)
  BY ReachEffect
<1>2. w \in t.arrived[b] /\ type = "sync" => t.at[w] = b
  BY <1>1 DEF Reaches
<1>3. ASSUME NEW v \in Warps, NEW x \in Bars, v \in t.arrived[x], <<v, x>> \notin {<<w, b>>}
      PROVE  v \in s.arrived[x] /\ (s.at[v] = x => t.at[v] = x)
  <2>1. CASE v[1] # w[1] \/ x # b
    BY <1>1, <1>3, <2>1 DEF Reaches
  <2>2. CASE v[1] = w[1] /\ x = b
    <3>1. v # w
      BY <1>3, <2>2
    <3>2. \A u \in Warps : u \in t.arrived[b] <=> u \in s.arrived[b] \/ u = w
      BY <1>1, <1>3, <2>2 DEF Reaches
    <3>3. \A u \in Warps : u # w => t.at[u] = s.at[u]
      BY <1>1, <1>3, <2>2 DEF Reaches
    <3>4. QED
      BY <1>3, <2>2, <3>1, <3>2, <3>3
  <2>3. QED
    BY <2>1, <2>2
<1>4. QED
  BY <1>2, <1>3 DEF ArrivalsStay, Arrived

LEMMA ExitArrivals ==
    ASSUME NEW s \in BarrierSets, NEW w \in Warps, s.at[w] = NoBar, NEW d,
           NEW t, t = warp_exit(s, w, d)
    PROVE  ArrivalsStay(s, t, {})
<1>1. /\ t.active = s.active \ {w}
      /\ \A c \in Slots : \A x \in Bars :
            \/ /\ \A v \in Warps : v[1] = c => /\ v \in t.arrived[x] <=> v \in s.arrived[x]
                                               /\ s.at[v] = x => t.at[v] = x
               /\ t.count[c][x] = s.count[c][x]
            \/ /\ \A v \in Warps : v[1] = c => /\ v \notin t.arrived[x]
                                               /\ v \in t.active => v \in s.arrived[x]
               /\ t.count[c][x] = 0
  BY ExitEffect
<1>2. \A v \in Warps : v[1] \in Slots
  BY DEF Warps
<1>3. QED
  BY <1>1, <1>2 DEF ArrivalsStay

\* A step after which the arrivals stay, and every warp goes on.
LEMMA StayTurns ==
    ASSUME TurnInv, threads' \subseteq threads, NEW new, ArrivalsStay(named, named', new),
           \A v \in Warps : v[1] \in threads' => Grows(v),
           \A v \in Warps : \A b \in Bars :
               v[1] \in threads' /\ <<v, b>> \in new /\ v \in named'.arrived[b] =>
                   named'.at[v] = b \/ UsedUp(v, b)'
    PROVE  TurnInv'
<1>1. ASSUME NEW v \in Warps, NEW b \in Bars, v[1] \in threads', v \in named'.arrived[b]
      PROVE  TurnKept(v, b)
  <2>1. CASE <<v, b>> \in new
    BY <1>1, <2>1 DEF TurnKept
  <2>2. CASE <<v, b>> \notin new
    BY <1>1, <2>2 DEF TurnKept, ArrivalsStay
  <2>3. QED
    BY <2>1, <2>2
<1>2. QED
  BY <1>1, TurnsKept

\* Nothing happens to the barrier set.
LEMMA QuietTurns ==
    ASSUME TurnInv, threads' \subseteq threads, named' = named,
           \A v \in Warps : v[1] \in threads' => Grows(v)
    PROVE  TurnInv'
<1>1. ArrivalsStay(named, named', {})
  BY DEF ArrivalsStay
<1>2. QED
  BY <1>1, StayTurns

\* A use of a barrier is counted.
LEMMA CountedTurns ==
    ASSUME IndInv, TurnInv, ArrivesLast, NEW w \in Warps, NEW type \in {"sync", "arrive"},
           Issues(w, {type}), UNCHANGED <<kernel, ctaVars>>,
           named' = warp_reaches_barrier(named, w, type, Code(w)[pc[w]].bar, Code(w)[pc[w]].count,
                                         kernel.releaseLatency)
    PROVE  TurnInv'
<1> USE DEF ctaVars
<1>1. PICK b, n, p : b = Code(w)[pc[w]].bar /\ n = Code(w)[pc[w]].count /\ p = pc[w]
  OBVIOUS
<1>2. /\ pc[w] > 0 /\ ~Parked(w) /\ w[1] \in threads /\ w[1] \in Slots /\ pc[w] \in Nat
      /\ Code(w)[pc[w]] \in Instructions /\ Code(w)[pc[w]].op = type
  BY IssuesFacts
<1>3. b \in Bars /\ n \in Nat \cup {WholeCta}
  BY <1>1, <1>2 DEF Instructions
<1>4. named \in BarrierSets /\ named.at[w] = NoBar
  BY <1>2 DEF Parked, IndInv, TypeOK
<1>5. PICK t, d : t = named' /\ t = warp_reaches_barrier(named, w, type, b, n, d)
  BY <1>1
<1>6. Arrived(named, t, w, b, type)
  BY <1>3, <1>4, <1>5, ReachArrivals
<1>7. \A v \in Warps : Grows(v)
  BY IssuesGrows
<1>8. type = "arrive" => UsedUp(w, b)'
  <2>1. /\ Executed(w)' = Executed(w) \cup {pc[w]} /\ pc[w] \in DOMAIN Code(w)
        /\ Executed(w) = 1..(pc[w] - 1)
    BY <1>2, IssuesUses DEF Executed
  <2>2. p \in Uses(w, b)
    BY <1>1, <1>2, <2>1 DEF Uses
  <2>3. PICK m \in Nat : DOMAIN Code(w) = 1..m
    BY <1>2, UseFacts
  <2>4. Uses(w, b) \subseteq 1..m /\ Uses(w, b)' = Uses(w, b)
    BY <2>3, CodeSame DEF Uses
  <2>5. ASSUME type = "arrive" PROVE Uses(w, b) \subseteq Executed(w)'
    <3>1. \A q \in Uses(w, b) : q <= p
      BY <1>1, <1>2, <1>3, <2>2, <2>5, LastArrive
    <3>2. \A q \in Uses(w, b) : q \in 1..(pc[w] - 1) \/ q = pc[w]
      BY <1>1, <1>2, <2>4, <3>1
    <3>3. QED
      BY <2>1, <3>2
  <2>6. QED
    BY <2>4, <2>5 DEF UsedUp
<1>9. \A v \in Warps : \A x \in Bars :
          v[1] \in threads' /\ <<v, x>> \in {<<w, b>>} /\ v \in named'.arrived[x] =>
              named'.at[v] = x \/ UsedUp(v, x)'
  <2>1. \A v \in Warps : \A x \in Bars : <<v, x>> \in {<<w, b>>} => v = w /\ x = b
    OBVIOUS
  <2>2. w \in named'.arrived[b] => named'.at[w] = b \/ UsedUp(w, b)'
    BY <1>5, <1>6, <1>8 DEF Arrived
  <2>3. QED
    BY <2>1, <2>2
<1>10. ArrivalsStay(named, named', {<<w, b>>})
  BY <1>5, <1>6 DEF Arrived
<1>11. threads' \subseteq threads
  OBVIOUS
<1>12. PICK new : new = {<<w, b>>}
  OBVIOUS
<1>13. QED
  BY <1>7, <1>9, <1>10, <1>11, <1>12, StayTurns

\* An instruction is issued.
LEMMA IssueTurns ==
    ASSUME IndInv, TurnInv, ArrivesLast, NEW w \in Warps,
           \/ IssueStore(w) \/ IssueRemoteLoad(w) \/ IssueSync(w) \/ issue_named_arrival(w)
           \/ cluster_barrier_arrive(w) \/ cluster_barrier_wait(w)
    PROVE  TurnInv'
<1>1. ASSUME NEW kinds, Issues(w, kinds), UNCHANGED <<kernel, ctaVars, named>>
      PROVE  TurnInv'
  <2>1. threads' \subseteq threads /\ named' = named /\ kernel' = kernel /\ cta' = cta
    BY <1>1 DEF ctaVars
  <2>2. \A v \in Warps : Grows(v)
    BY <1>1, <2>1, IssuesGrows
  <2>3. QED
    BY <2>1, <2>2, QuietTurns
<1>2. CASE IssueStore(w)
  BY <1>1, <1>2 DEF IssueStore
<1>3. CASE IssueRemoteLoad(w)
  BY <1>1, <1>3 DEF IssueRemoteLoad
<1>4. CASE cluster_barrier_arrive(w)
  BY <1>1, <1>4 DEF cluster_barrier_arrive
<1>5. CASE cluster_barrier_wait(w)
  BY <1>1, <1>5 DEF cluster_barrier_wait
<1>6. CASE IssueSync(w)
  BY <1>6, CountedTurns DEF IssueSync
<1>7. CASE issue_named_arrival(w)
  <2>1. Issues(w, {"arrive"}) /\ UNCHANGED <<kernel, ctaVars>>
    BY <1>7 DEF issue_named_arrival
  <2>2. CASE kernel.arriveLatency
    BY <1>1, <1>7, <2>1, <2>2 DEF issue_named_arrival
  <2>3. CASE ~kernel.arriveLatency
    BY <1>7, <2>1, <2>3, CountedTurns DEF issue_named_arrival
  <2>4. QED
    BY <2>2, <2>3
<1>8. QED
  BY <1>2, <1>3, <1>4, <1>5, <1>6, <1>7

\* The last threads of a warp exit.
LEMMA ExitTurns ==
    ASSUME IndInv, TurnInv, NEW w \in Warps, Exit(w)
    PROVE  TurnInv'
<1>1. /\ pc[w] > 0 /\ ~Parked(w) /\ pc' = [pc EXCEPT ![w] = 0]
      /\ UNCHANGED <<kernel, cta, threads>>
  BY DEF Exit, ctaVars
<1>2. pc \in [Warps -> Nat] /\ named \in BarrierSets
  BY DEF IndInv, TypeOK
<1>3. \A v \in Warps : Grows(v)
  <2>1. \A v \in Warps \ {w} : Grows(v)
    BY <1>1, <1>2, StillKeeps, KeepsGrows
  <2>2. BarUses(w)' = BarUses(w) /\ Code(w)' = Code(w)
    BY <1>1, CodeSame
  <2>3. BarUses(w) \subseteq Executed(w)'
    BY <1>1, <1>2, <2>2 DEF Executed, BarUses
  <2>4. Grows(w)
    BY <1>1, <2>2, <2>3 DEF Grows
  <2>5. QED
    BY <2>1, <2>4
<1>4. CASE ~NoArrival(w)
  <2>1. named' = named
    BY <1>4 DEF Exit, NoArrival
  <2>2. QED
    BY <1>1, <1>3, <2>1, QuietTurns
<1>5. CASE NoArrival(w)
  <2>1. named' = warp_exit(named, w, kernel.releaseLatency) /\ named.at[w] = NoBar
    BY <1>1, <1>5 DEF Exit, NoArrival, LeavesBarriers, Parked
  <2>2. PICK t, d : t = named' /\ t = warp_exit(named, w, d)
    BY <2>1
  <2>3. ArrivalsStay(named, t, {})
    BY <1>2, <2>1, <2>2, ExitArrivals
  <2>4. ArrivalsStay(named, named', {}) /\ threads' \subseteq threads
    BY <1>1, <2>2, <2>3
  <2>5. QED
    BY <1>3, <2>4, StayTurns
<1>6. QED
  BY <1>4, <1>5

\* The oldest bar.arrive is counted.
LEMMA ProcessTurns ==
    ASSUME IndInv, BarrierInv, TurnInv, ArrivesLast, process_named_arrivals
    PROVE  TurnInv'
<1>1. PICK e : e = Head(named_arrivals)
  OBVIOUS
<1>2. PICK w, b, n : w = e.w /\ b = e.bar /\ n = e.count
  OBVIOUS
<1>3. named_arrivals # <<>> /\ UNCHANGED <<kernel, cta, threads, pc>>
  BY DEF process_named_arrivals, ctaVars
<1>4. e \in Arrivals /\ e = named_arrivals[1] /\ 1 \in DOMAIN named_arrivals
  BY <1>1, <1>3 DEF IndInv, TypeOK
<1>5. w \in Warps /\ b \in Bars /\ n \in Nat \cup {WholeCta} /\ ~NoArrival(w)
  BY <1>2, <1>4 DEF Arrivals, NoArrival
<1>6. named \in BarrierSets /\ Justified(named) /\ named.at[w] = NoBar
  BY <1>5 DEF IndInv, TypeOK, ParkedRuns, Parked
<1>7. w \in named.active /\ EntryKnown(1)
  BY <1>2, <1>4 DEF BarrierInv, EntriesKnown, EntryKnown
<1>8. w[1] \in threads
  BY <1>5, <1>7, EmptySlot DEF Warps
<1>9. PICK p \in Nat : LastUse(w, b, p) /\ Code(w)[p].op = "arrive"
  BY <1>2, <1>4, <1>7 DEF EntryKnown
<1>10. \A v \in Warps : Grows(v)
  BY <1>3, StillKeeps, KeepsGrows
<1>11. UsedUp(w, b)'
  <2>1. p \in Uses(w, b) /\ p \in Executed(w)
    BY <1>9 DEF LastUse
  <2>2. \A q \in Uses(w, b) : q <= p
    BY <1>5, <1>8, <1>9, <2>1, LastArrive
  <2>3. /\ Uses(w, b) \subseteq DOMAIN Code(w)
        /\ \A i \in Executed(w) : \A j \in DOMAIN Code(w) : j <= i => j \in Executed(w)
    BY <1>5, <1>8, UseFacts DEF Uses
  <2>4. UsedUp(w, b)
    BY <2>1, <2>2, <2>3 DEF UsedUp
  <2>5. QED
    BY <1>5, <1>10, <2>4, UsedUpStays
<1>12. PICK t, d : t = warp_reaches_barrier(named, w, "arrive", b, n, d) /\ d = kernel.releaseLatency
  OBVIOUS
<1>13. named' = t \/ named' = warp_exit(t, w, kernel.releaseLatency)
  BY <1>1, <1>2, <1>12 DEF process_named_arrivals, LeavesBarriers
<1>14. t \in BarrierSets /\ t.at[w] = NoBar
  <2>1. OneArrives(named, t, w, "arrive")
    BY <1>5, <1>6, <1>12, ReachesFacts
  <2>2. QED
    BY <1>5, <1>6, <2>1 DEF OneArrives
<1>15. ArrivalsStay(named, t, {<<w, b>>})
  <2>1. Arrived(named, t, w, b, "arrive")
    BY <1>5, <1>6, <1>12, ReachArrivals
  <2>2. QED
    BY <2>1 DEF Arrived
<1>16. ArrivalsStay(named, named', {<<w, b>>})
  <2>1. CASE named' = t
    BY <1>15, <2>1
  <2>2. CASE named' = warp_exit(t, w, kernel.releaseLatency)
    <3>1. PICK u, l : u = named' /\ u = warp_exit(t, w, l)
      BY <2>2
    <3>2. ArrivalsStay(t, u, {})
      BY <1>5, <1>14, <3>1, ExitArrivals
    <3>3. ArrivalsStay(named, u, {<<w, b>>})
      BY <1>15, <3>2 DEF ArrivalsStay
    <3>4. QED
      BY <3>1, <3>3
  <2>3. QED
    BY <1>13, <2>1, <2>2
<1>17. \A v \in Warps : \A x \in Bars :
          v[1] \in threads' /\ <<v, x>> \in {<<w, b>>} /\ v \in named'.arrived[x] =>
              named'.at[v] = x \/ UsedUp(v, x)'
  <2>1. \A v \in Warps : \A x \in Bars : <<v, x>> \in {<<w, b>>} => v = w /\ x = b
    OBVIOUS
  <2>2. QED
    BY <1>11, <2>1
<1>18. threads' \subseteq threads
  BY <1>3
<1>19. PICK new : new = {<<w, b>>}
  OBVIOUS
<1>20. QED
  BY <1>10, <1>16, <1>17, <1>18, <1>19, StayTurns

\* A delayed release frees a warp whose arrival has been consumed.
LEMMA DelayedTurns ==
    ASSUME IndInv, TurnInv, NEW w \in Warps, DelayedRelease(w)
    PROVE  TurnInv'
<1>1. UNCHANGED <<kernel, cta, threads, pc>>
  BY DEF DelayedRelease, ctaVars
<1>2. named \in BarrierSets /\ Justified(named) /\ named.releases[w] > 0
  BY DEF DelayedRelease, IndInv, TypeOK
<1>3. named'.arrived = named.arrived /\ named'.at = [named.at EXCEPT ![w] = NoBar]
  BY DEF DelayedRelease, ReleaseDue
<1>4. w \notin named.arrived[named.at[w]]
  BY <1>2 DEF Justified
<1>5. ArrivalsStay(named, named', {})
  BY <1>2, <1>3, <1>4 DEF ArrivalsStay, BarrierSets
<1>6. \A v \in Warps : Grows(v)
  BY <1>1, StillKeeps, KeepsGrows
<1>7. threads' \subseteq threads
  BY <1>1
<1>8. QED
  BY <1>5, <1>6, <1>7, StayTurns

\* A CTA is issued: the arrivals of its slot are cleared.
LEMMA IssueBlockTurns ==
    ASSUME IndInv, TurnInv, NEW c \in Slots, issue_block2core(c)
    PROVE  TurnInv'
<1>1. PICK g \in NextGroup :
          /\ cta' = [cta EXCEPT ![c] = [g |-> g, r |-> issued[g] + 1]]
          /\ threads' = threads \cup {c} /\ kernel' = kernel
          /\ pc' = [w \in Warps |-> IF w[1] = c THEN 1 ELSE pc[w]]
          /\ named' = ClearCta(named, c, named.active \cup WarpsOf(c))
  BY DEF issue_block2core, allocate_barrier
<1>2. named \in BarrierSets /\ cta \in [Slots -> [g : Groups, r : Nat] \cup {Free}]
  BY DEF IndInv, TypeOK
<1>3. PICK A, t : A = named.active \cup WarpsOf(c) /\ t = named' /\ t = ClearCta(named, c, A)
  BY <1>1
<1>4. /\ \A v \in Warps : v[1] # c => t.at[v] = named.at[v]
      /\ \A v \in Warps : \A x \in Bars : v \in t.arrived[x] <=> v \in named.arrived[x] /\ v[1] # c
  BY <1>2, <1>3, ClearEffect
<1>5. ASSUME NEW v \in Warps, NEW b \in Bars, v[1] \in threads', v \in named'.arrived[b]
      PROVE  TurnKept(v, b)
  <2>1. v[1] # c /\ v \in named.arrived[b] /\ named'.at[v] = named.at[v]
    BY <1>3, <1>4, <1>5
  <2>2. v[1] \in threads /\ cta'[v[1]] = cta[v[1]] /\ pc'[v] = pc[v] /\ kernel' = kernel
    BY <1>1, <1>2, <1>5, <2>1 DEF Warps
  <2>3. Grows(v)
    BY <2>2, StillKeeps, KeepsGrows
  <2>4. QED
    BY <2>1, <2>2, <2>3 DEF TurnKept
<1>6. QED
  BY <1>5, TurnsKept

\* A slot without threads is given back or held.
LEMMA LeaveTurns ==
    ASSUME IndInv, TurnInv, NEW c \in Slots, c \notin threads', threads' \subseteq threads,
           UNCHANGED <<kernel, pc>>, UNCHANGED <<cta, named>> \/ Released(c)
    PROVE  TurnInv'
<1>1. \A v \in Warps : v[1] \in threads' => v[1] # c
  OBVIOUS
<1>2. CASE UNCHANGED <<cta, named>>
  <2>1. \A v \in Warps : Grows(v)
    BY <1>2, StillKeeps, KeepsGrows
  <2>2. QED
    BY <1>2, <2>1, QuietTurns
<1>3. CASE Released(c)
  <2>1. cta' = [cta EXCEPT ![c] = Free] /\ named' = ClearCta(named, c, named.active \ WarpsOf(c))
    BY <1>3 DEF Released, deallocate_barrier
  <2>2. named \in BarrierSets /\ cta \in [Slots -> [g : Groups, r : Nat] \cup {Free}]
    BY DEF IndInv, TypeOK
  <2>3. PICK A, t : A = named.active \ WarpsOf(c) /\ t = named' /\ t = ClearCta(named, c, A)
    BY <2>1
  <2>4. /\ \A v \in Warps : v[1] # c => t.at[v] = named.at[v]
        /\ \A v \in Warps : \A x \in Bars : v \in t.arrived[x] <=> v \in named.arrived[x] /\ v[1] # c
    BY <2>2, <2>3, ClearEffect
  <2>5. ArrivalsStay(named, named', {})
    BY <2>3, <2>4 DEF ArrivalsStay
  <2>6. \A v \in Warps : v[1] \in threads' => Grows(v)
    <3>1. \A v \in Warps : v[1] \in threads' => cta'[v[1]] = cta[v[1]]
      BY <1>1, <2>1, <2>2 DEF Warps
    <3>2. QED
      BY <3>1, StillKeeps, KeepsGrows
  <2>7. QED
    BY <2>5, <2>6, StayTurns
<1>4. QED
  BY <1>2, <1>3

\* Every step keeps the warps taking turns.
LEMMA NextTurns ==
    ASSUME IndInv, BarrierInv, TurnInv, ArrivesLast, [Next]_vars
    PROVE  TurnInv'
<1>1. ASSUME UNCHANGED <<kernel, cta, threads, pc, named>> PROVE TurnInv'
  <2>1. \A v \in Warps : Grows(v)
    BY <1>1, StillKeeps, KeepsGrows
  <2>2. threads' \subseteq threads /\ named' = named
    BY <1>1
  <2>3. QED
    BY <2>1, <2>2, QuietTurns
<1>2. CASE UNCHANGED vars
  BY <1>1, <1>2 DEF vars
<1>3. CASE process_named_arrivals
  BY <1>3, ProcessTurns
<1>4. ASSUME NEW c \in Slots, release_pending_tma_ctas(c) PROVE TurnInv'
  <2>1. /\ c \notin threads' /\ threads' \subseteq threads /\ UNCHANGED <<kernel, pc>> /\ Released(c)
    BY <1>4 DEF release_pending_tma_ctas
  <2>2. QED
    BY <2>1, LeaveTurns
<1>5. ASSUME NEW w \in Warps, register_cta_thread_exit(w) PROVE TurnInv'
  <2>1. PICK c \in Slots : c = w[1]
    BY DEF Warps
  <2>2. UNCHANGED <<kernel, pc>>
    BY <1>5 DEF register_cta_thread_exit
  <2>3. CASE WarpsOf(c) \ {w} \subseteq reclaimed
    <3>1. threads' = threads \ {c} /\ (UNCHANGED <<cta, named>> \/ Released(c))
      BY <1>5, <2>1, <2>3 DEF register_cta_thread_exit
    <3>2. c \notin threads' /\ threads' \subseteq threads
      BY <3>1
    <3>3. QED
      BY <2>2, <3>1, <3>2, LeaveTurns
  <2>4. CASE ~(WarpsOf(c) \ {w} \subseteq reclaimed)
    <3>1. UNCHANGED <<threads, cta, named>>
      BY <1>5, <2>1, <2>4 DEF register_cta_thread_exit
    <3>2. QED
      BY <1>1, <2>2, <3>1
  <2>5. QED
    BY <2>3, <2>4
<1>6. ASSUME NEW w \in Warps,
             \/ StoresVisible(w) \/ dsm_on_tx_done(w) \/ \E i \in stores[w] : complete_shared_store(w, i)
      PROVE  TurnInv'
  <2>1. UNCHANGED <<kernel, cta, threads, pc, named>>
    BY <1>6 DEF StoresVisible, dsm_on_tx_done, complete_shared_store, ctaVars
  <2>2. QED
    BY <1>1, <2>1
<1>7. ASSUME NEW w \in Warps,
             \/ IssueStore(w) \/ IssueRemoteLoad(w) \/ IssueSync(w) \/ issue_named_arrival(w)
             \/ cluster_barrier_arrive(w) \/ cluster_barrier_wait(w) \/ Exit(w)
             \/ DelayedRelease(w) \/ StoresVisible(w) \/ dsm_on_tx_done(w)
             \/ register_cta_thread_exit(w)
             \/ \E i \in stores[w] : complete_shared_store(w, i)
      PROVE  TurnInv'
  BY <1>5, <1>6, <1>7, IssueTurns, ExitTurns, DelayedTurns
<1>8. CASE \E c \in Slots : issue_block2core(c) \/ release_pending_tma_ctas(c)
  BY <1>4, <1>8, IssueBlockTurns
<1>9. QED
  BY <1>2, <1>3, <1>7, <1>8 DEF Next

\* So bar.sync separates, with nothing assumed of the execution, for the kernels in which a
\* warp's bar.arrive at a barrier is its last use of it, those that only use bar.sync
\* among them: warps that exit early, delayed bar.arrives, delayed releases and slots
\* that are used again included.
THEOREM SyncSeparates ==
    ASSUME KernelsWellFormed, ArrivesLast
    PROVE  Spec => []BarrierSeparates
<1>1. Init => BarrierInv /\ TurnInv
  <2>1. Init => TurnInv
    BY DEF Init, TurnInv
  <2>2. QED
    BY <2>1, InitBarrier
<1>2. /\ IndInv /\ IndInv' /\ ClusterInv /\ BarrierInv /\ TurnInv /\ [Next]_vars
      => BarrierInv' /\ TurnInv'
  BY TurnsTaken, NextBarrier, NextTurns
<1>3. IndInv /\ ClusterInv /\ BarrierInv => BarrierSeparates
  BY RoundsSeparate
<1>4. QED
  BY <1>1, <1>2, <1>3, Invariance, ClusterInvariance, PTL DEF Spec

=============================================================================
