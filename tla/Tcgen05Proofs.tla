--------------------------- MODULE Tcgen05Proofs ---------------------------
(***************************************************************************)
(* Proofs about Tcgen05 for any number of slots, warps and operations, any *)
(* latencies, rates and intervals, and any size of the tensor memory.      *)
(***************************************************************************)
EXTENDS Tcgen05, TLAPS, WellFoundedInduction

Operations == [w : Warps, kind : Kinds, seq : Nat, left : Nat, gen : Nat]
Controls == [w : Warps, s : Streams, cutoff : Nat, upto : Nat, gen : Nat]
Ranges == [base : Nat, ncols : Nat]
Scopes == [next_base : Nat, last : Nat, relinquished : BOOLEAN, allocations : SUBSET Ranges,
           retired : SUBSET Ranges]

TypeOK ==
    /\ setup \in Setups
    /\ ops \subseteq Operations
    /\ commits \subseteq Controls /\ waits \subseteq Controls /\ events \subseteq Controls
    /\ next \in [Warps -> [Streams -> Nat]] /\ reached \in [Warps -> [Streams -> Nat]]
    /\ backlog \in Nat
    /\ running \subseteq Warps /\ pipe \subseteq Warps /\ reclaimed \subseteq Warps
    /\ live \subseteq Slots
    /\ tmem \in [Slots -> Scopes]
    /\ gen \in [Slots -> Nat]

\* A warp with instructions before it or in the pipeline belongs to a CTA that is there,
\* one that fetch has found done has none, and an event belongs to an instruction that
\* is still in the pipeline.  So no event is left when a slot is given back.
PipelineInv ==
    /\ \A w \in running \cup pipe : SlotOf[w] \in live /\ setup.kinds[w] # {}
    /\ reclaimed \cap (running \cup pipe) = {}
    /\ \A e \in events : e.w \in pipe

\* No sequence number is given out twice in the life of a CTA: arrivals, commits and
\* waits are about numbers that were given out, and a free slot starts from zero.
SequenceInv ==
    /\ \A w \in Warps : \A s \in Streams :
          /\ SlotOf[w] \in live => reached[w][s] <= next[w][s]
          /\ SlotOf[w] \notin live => next[w][s] = 0
    /\ \A x \in commits \cup waits \cup events : x.cutoff = x.upto /\ x.upto <= next[x.w][x.s]

\* A commit or wait that is kept is held up by a pending operation.
ControlsHeld == \A x \in commits \cup waits : ~Covered(ops, x.w, x.s, x.cutoff)

\* An event under way covers no operation that is pending.
EventsCover ==
    \A e \in events : \A o \in ops : o.w = e.w /\ StreamOf(o.kind) = e.s => o.seq > e.upto

\* The ranges handed out so far lie below the next one.
RangesBelow == \A c \in Slots : \A a \in tmem[c].allocations \cup tmem[c].retired :
                    a.base + a.ncols <= tmem[c].next_base

\* The inductive invariant.
IndInv ==
    /\ TypeOK
    /\ PipelineInv
    /\ SequenceInv
    /\ ControlsHeld
    /\ EventsCover
    /\ CompletionsCover
    /\ NothingStale
    /\ RangesBelow
    /\ RangesDisjoint

-----------------------------------------------------------------------------
(* Facts about the operators. *)

\* A set of numbers that is not empty has a least one.
LEMMA LeastNat ==
    ASSUME NEW S \in SUBSET Nat, S # {}
    PROVE  \E m \in S : \A x \in S : m <= x
<1>1. PICK m \in S : \A x \in S : ~(<<x, m>> \in OpToRel(<, Nat))
  BY NatLessThanWellFounded, WFMin
<1>2. \A x \in S : ~(x < m)
  BY <1>1 DEF OpToRel
<1>3. QED
  BY <1>2

\* A bounded set of numbers has a greatest one, which Max chooses.
LEMMA MaxOfBounded ==
    ASSUME NEW n \in Nat, NEW S \in SUBSET (0..n), S # {}
    PROVE  Max(S) \in S /\ \A x \in S : x <= Max(S)
<1> DEFINE D == {n - x : x \in S}
<1>1. D \in SUBSET Nat /\ D # {}
  <2>1. \A x \in S : n - x \in Nat
    OBVIOUS
  <2>2. QED
    BY <2>1
<1>2. PICK m \in D : \A x \in D : m <= x
  BY <1>1, LeastNat
<1>3. PICK y \in S : m = n - y
  BY <1>2
<1>4. \A x \in S : n - y <= n - x
  BY <1>2, <1>3
<1>5. \A x \in S : y >= x
  BY <1>4
<1>6. Max(S) \in S /\ \A x \in S : Max(S) >= x
  BY <1>5 DEF Max
<1>7. QED
  BY <1>6

\* Every kind of operation belongs to one of the streams.
LEMMA StreamOfType ==
    ASSUME NEW k \in Kinds
    PROVE  StreamOf(k) \in Streams
  BY DEF StreamOf, Streams

-----------------------------------------------------------------------------
(* The inductive invariant, one lemma per action. *)

\* The unit starts empty.
LEMMA InitInd == Init => IndInv
<1> SUFFICES ASSUME Init PROVE IndInv
  OBVIOUS
<1> USE Tcgen05Assumption DEF Init
<1>1. NoScope \in Scopes /\ NoSequences \in [Streams -> Nat] /\ \A s \in Streams : NoSequences[s] = 0
  BY DEF NoScope, Scopes, NoSequences
<1>2. TypeOK
  BY <1>1 DEF TypeOK
<1>3. /\ PipelineInv /\ SequenceInv /\ ControlsHeld /\ EventsCover /\ CompletionsCover
      /\ NothingStale
  BY <1>1 DEF PipelineInv, SequenceInv, ControlsHeld, EventsCover, CompletionsCover, NothingStale
<1>4. \A c \in Slots : tmem[c].allocations \cup tmem[c].retired = {}
  BY DEF NoScope
<1>5. RangesBelow /\ RangesDisjoint
  BY <1>4 DEF RangesBelow, RangesDisjoint
<1>6. QED
  BY <1>2, <1>3, <1>5 DEF IndInv

\* A CTA takes a slot about which the unit knows nothing.
LEMMA IssueCtaInd ==
    ASSUME IndInv, NEW c \in Slots, IssueCta(c)
    PROVE  IndInv'
<1> USE Tcgen05Assumption DEF IndInv, IssueCta, unitVars
<1>1. NoSequences \in [Streams -> Nat] /\ \A s \in Streams : NoSequences[s] = 0
  BY DEF NoSequences
<1>2. WarpsOf(c) \subseteq Warps /\ \A w \in WarpsOf(c) : SlotOf[w] = c /\ setup.kinds[w] # {}
  BY DEF WarpsOf
<1>3. /\ reached' \in [Warps -> [Streams -> Nat]]
      /\ \A w \in Warps : /\ SlotOf[w] = c => reached'[w] = NoSequences
                          /\ SlotOf[w] # c => reached'[w] = reached[w]
  BY <1>1 DEF TypeOK
<1>4. gen' \in [Slots -> Nat] /\ \A d \in Slots : d # c => gen'[d] = gen[d]
  BY DEF TypeOK
<1>5. TypeOK'
  BY <1>2, <1>3, <1>4 DEF TypeOK
<1>6. PipelineInv'
  <2>1. WarpsOf(c) \cap pipe = {}
    BY <1>2 DEF PipelineInv
  <2>2. QED
    BY <1>2, <2>1 DEF PipelineInv
<1>7. \A x \in ops \cup waits \cup commits \cup events : x.w \in Warps /\ SlotOf[x.w] # c
  BY DEF NothingStale, TypeOK, Operations, Controls
<1>8. SequenceInv'
  <2>1. ASSUME NEW w \in Warps, NEW s \in Streams
        PROVE  /\ SlotOf[w] \in live' => reached'[w][s] <= next[w][s]
               /\ SlotOf[w] \notin live' => next[w][s] = 0
    <3>1. CASE SlotOf[w] = c
      <4>1. next[w][s] = 0 /\ reached'[w][s] = 0
        BY <1>1, <1>3, <3>1 DEF SequenceInv
      <4>2. QED
        BY <3>1, <4>1
    <3>2. CASE SlotOf[w] # c
      BY <1>3, <3>2 DEF SequenceInv
    <3>3. QED
      BY <3>1, <3>2
  <2>2. QED
    BY <2>1 DEF SequenceInv
<1>9. ControlsHeld' /\ EventsCover' /\ CompletionsCover'
  <2>1. \A o \in ops : reached'[o.w] = reached[o.w]
    BY <1>3, <1>7
  <2>2. QED
    BY <2>1 DEF ControlsHeld, Covered, EventsCover, CompletionsCover
<1>10. NothingStale'
  <2>1. \A x \in ops \cup waits \cup commits \cup events : gen'[SlotOf[x.w]] = gen[SlotOf[x.w]]
    BY <1>4, <1>7
  <2>2. QED
    BY <2>1 DEF NothingStale
<1>11. RangesBelow' /\ RangesDisjoint'
  BY DEF RangesBelow, RangesDisjoint
<1>12. QED
  BY <1>5, <1>6, <1>8, <1>9, <1>10, <1>11

\* What changes the tensor memory of a live slot only, while its warp goes down the
\* pipeline.
LEMMA TmemInd ==
    ASSUME IndInv, NEW w \in Warps, CanIssue(w), InPipe(w),
           NEW m \in Scopes, tmem' = [tmem EXCEPT ![SlotOf[w]] = m],
           UNCHANGED <<unitVars, parked, running, ctaVars, reached>>,
           \A a \in m.allocations \cup m.retired : a.base + a.ncols <= m.next_base,
           \A a, b \in m.allocations \cup m.retired :
               a # b => a.base + a.ncols <= b.base \/ b.base + b.ncols <= a.base
    PROVE  IndInv'
<1> USE Tcgen05Assumption DEF IndInv, unitVars, ctaVars, CanIssue, InPipe
<1>1. SlotOf[w] \in Slots /\ SlotOf[w] \in live
  BY DEF PipelineInv
<1>2. tmem' \in [Slots -> Scopes] /\ tmem'[SlotOf[w]] = m
      /\ \A c \in Slots : c # SlotOf[w] => tmem'[c] = tmem[c]
  BY <1>1 DEF TypeOK
<1>3. TypeOK'
  BY <1>2 DEF TypeOK
<1>4. PipelineInv'
  BY DEF PipelineInv
<1>5. SequenceInv' /\ ControlsHeld' /\ EventsCover' /\ CompletionsCover'
  BY DEF SequenceInv, ControlsHeld, Covered, EventsCover, CompletionsCover
<1>6. NothingStale'
  BY <1>1, <1>2 DEF NothingStale
<1>7. RangesBelow' /\ RangesDisjoint'
  <2>1. ASSUME NEW c \in Slots
        PROVE  /\ \A a \in tmem'[c].allocations \cup tmem'[c].retired :
                     a.base + a.ncols <= tmem'[c].next_base
               /\ \A a, b \in tmem'[c].allocations \cup tmem'[c].retired :
                     a # b => a.base + a.ncols <= b.base \/ b.base + b.ncols <= a.base
    <3>1. CASE c = SlotOf[w]
      BY <1>2, <3>1
    <3>2. CASE c # SlotOf[w]
      BY <1>2, <3>2 DEF RangesBelow, RangesDisjoint
    <3>3. QED
      BY <3>1, <3>2
  <2>2. QED
    BY <2>1 DEF RangesBelow, RangesDisjoint
<1>8. QED
  BY <1>3, <1>4, <1>5, <1>6, <1>7

\* An allocation starts where the ranges handed out so far end.
LEMMA AllocInd ==
    ASSUME IndInv, NEW w \in Warps, NEW n \in Sizes, alloc(w, n)
    PROVE  IndInv'
<1> DEFINE c == SlotOf[w]
           old == tmem[c]
           new == [base |-> old.next_base, ncols |-> n]
           m == [old EXCEPT !.next_base = @ + n, !.last = n, !.allocations = @ \cup {new}]
<1>1. c \in Slots /\ n \in Nat
  BY Tcgen05Assumption
<1>2. old \in Scopes
  BY <1>1 DEF IndInv, TypeOK
<1>3. tmem' = [tmem EXCEPT ![c] = m]
  BY DEF alloc
<1>4. /\ m \in Scopes
      /\ m.next_base = old.next_base + n /\ m.retired = old.retired
      /\ m.allocations = old.allocations \cup {new}
  <2> DEFINE nb == old.next_base + n
             al == old.allocations \cup {new}
  <2>1. nb \in Nat /\ al \in SUBSET Ranges
    BY <1>1, <1>2 DEF Scopes, Ranges
  <2>2. m = [old EXCEPT !.next_base = nb, !.last = n, !.allocations = al]
    OBVIOUS
  <2> HIDE DEF nb, al, old, m
  <2>3. m \in Scopes /\ m.next_base = nb /\ m.retired = old.retired /\ m.allocations = al
    BY <1>1, <1>2, <2>1, <2>2 DEF Scopes
  <2>4. QED
    BY <2>3 DEF nb, al
<1> HIDE DEF m
<1>5. \A a \in old.allocations \cup old.retired :
          /\ a.base \in Nat /\ a.ncols \in Nat
          /\ a.base + a.ncols <= old.next_base
  BY <1>1, <1>2 DEF IndInv, RangesBelow, Scopes, Ranges
<1>6. \A a \in m.allocations \cup m.retired : a.base + a.ncols <= m.next_base
  BY <1>1, <1>2, <1>4, <1>5 DEF Scopes
<1>7. \A a, b \in m.allocations \cup m.retired :
          a # b => a.base + a.ncols <= b.base \/ b.base + b.ncols <= a.base
  BY <1>1, <1>4, <1>5 DEF IndInv, RangesDisjoint
<1>8. CanIssue(w) /\ InPipe(w) /\ UNCHANGED <<unitVars, parked, running, ctaVars, reached>>
  BY DEF alloc
<1>9. QED
  BY <1>3, <1>4, <1>6, <1>7, <1>8, TmemInd

\* A deallocated range stays where it is.
LEMMA DeallocInd ==
    ASSUME IndInv, NEW w \in Warps, NEW a \in tmem[SlotOf[w]].allocations, dealloc(w, a)
    PROVE  IndInv'
<1> DEFINE c == SlotOf[w]
           old == tmem[c]
           m == Deallocated(old, a)
<1>1. c \in Slots /\ old \in Scopes
  BY Tcgen05Assumption DEF IndInv, TypeOK
<1>2. /\ m \in Scopes /\ m.next_base = old.next_base
      /\ m.allocations = old.allocations \ {a} /\ m.retired = old.retired \cup {a}
  <2> DEFINE al == old.allocations \ {a}
             re == old.retired \cup {a}
  <2>1. al \in SUBSET Ranges /\ re \in SUBSET Ranges
    BY <1>1 DEF Scopes
  <2>2. m = [old EXCEPT !.allocations = al, !.retired = re]
    BY DEF Deallocated
  <2> HIDE DEF old, al, re, m
  <2>3. m \in Scopes /\ m.next_base = old.next_base /\ m.allocations = al /\ m.retired = re
    BY <1>1, <2>1, <2>2 DEF Scopes
  <2>4. QED
    BY <2>3 DEF al, re
<1>3. m.allocations \cup m.retired = old.allocations \cup old.retired
  BY <1>2
<1>4. /\ tmem' = [tmem EXCEPT ![c] = m]
      /\ CanIssue(w) /\ InPipe(w) /\ UNCHANGED <<unitVars, parked, running, ctaVars, reached>>
  BY DEF dealloc
<1>5. /\ \A x \in old.allocations \cup old.retired : x.base + x.ncols <= old.next_base
      /\ \A x, y \in old.allocations \cup old.retired :
             x # y => x.base + x.ncols <= y.base \/ y.base + y.ncols <= x.base
  BY <1>1 DEF IndInv, RangesBelow, RangesDisjoint
<1> HIDE DEF m, old
<1>6. QED
  BY <1>2, <1>3, <1>4, <1>5, TmemInd

\* Giving up the permit changes no range.
LEMMA RelinquishInd ==
    ASSUME IndInv, NEW w \in Warps, relinquish_alloc_permit(w)
    PROVE  IndInv'
<1> DEFINE c == SlotOf[w]
           old == tmem[c]
           m == [next_base |-> old.next_base, last |-> old.last, relinquished |-> TRUE,
                 allocations |-> old.allocations, retired |-> old.retired]
<1>1. c \in Slots /\ old \in Scopes
  BY Tcgen05Assumption DEF IndInv, TypeOK
<1>2. m \in Scopes
  BY <1>1 DEF Scopes
<1>3. /\ tmem' = [tmem EXCEPT ![c] = m]
      /\ CanIssue(w) /\ InPipe(w) /\ UNCHANGED <<unitVars, parked, running, ctaVars, reached>>
  <2>1. tmem' = [tmem EXCEPT ![c].relinquished = TRUE]
    BY DEF relinquish_alloc_permit
  <2>2. QED
    BY <1>1, <2>1 DEF Scopes, relinquish_alloc_permit, IndInv, TypeOK
<1>4. /\ \A x \in old.allocations \cup old.retired : x.base + x.ncols <= old.next_base
      /\ \A x, y \in old.allocations \cup old.retired :
             x # y => x.base + x.ncols <= y.base \/ y.base + y.ncols <= x.base
  BY <1>1 DEF IndInv, RangesBelow, RangesDisjoint
<1>5. m.allocations = old.allocations /\ m.retired = old.retired /\ m.next_base = old.next_base
  OBVIOUS
<1> HIDE DEF m, old
<1>6. QED
  BY <1>2, <1>3, <1>4, <1>5, TmemInd

\* An operation gets a number above those of the events and arrivals before it.
LEMMA EnqueueInd ==
    ASSUME IndInv, NEW w \in Warps, NEW kind \in Kinds, NEW cycles \in Nat, backlog' \in Nat,
           Enqueue(w, kind, cycles)
    PROVE  IndInv'
<1> USE Tcgen05Assumption DEF IndInv, ctaVars, CanIssue, InPipe
<1> DEFINE s == StreamOf(kind)
           o == [w |-> w, kind |-> kind, seq |-> next[w][s] + 1, left |-> cycles,
                 gen |-> gen[SlotOf[w]]]
<1>1. /\ w \in running /\ next' = [next EXCEPT ![w][s] = @ + 1]
      /\ ops' = ops \cup {o} /\ pipe' = pipe \cup {w}
      /\ UNCHANGED <<commits, waits, events, parked, running, ctaVars, tmem, reached>>
  BY DEF Enqueue
<1>2. s \in Streams /\ SlotOf[w] \in Slots /\ SlotOf[w] \in live
  BY <1>1, StreamOfType DEF PipelineInv
<1> HIDE DEF s
<1>3. next[w][s] \in Nat /\ o \in Operations
  BY <1>2 DEF TypeOK, Operations
<1>4. /\ next' \in [Warps -> [Streams -> Nat]]
      /\ \A v \in Warps : \A t \in Streams :
            /\ next[v][t] \in Nat /\ next[v][t] <= next'[v][t]
            /\ <<v, t>> # <<w, s>> => next'[v][t] = next[v][t]
  BY <1>1, <1>2 DEF TypeOK
<1>5. TypeOK'
  BY <1>1, <1>3, <1>4 DEF TypeOK
<1>6. PipelineInv'
  BY <1>1 DEF PipelineInv
<1>7. \A x \in commits \cup waits \cup events : x.w \in Warps /\ x.s \in Streams /\ x.upto \in Nat
  BY DEF TypeOK, Controls
<1>8. SequenceInv'
  <2>1. ASSUME NEW v \in Warps, NEW t \in Streams
        PROVE  /\ SlotOf[v] \in live => reached[v][t] <= next'[v][t]
               /\ SlotOf[v] \notin live => next'[v][t] = 0
    <3>1. reached[v][t] \in Nat /\ next'[v][t] \in Nat
      BY <1>4 DEF TypeOK
    <3>2. SlotOf[v] \notin live => v # w
      BY <1>2
    <3>3. QED
      BY <1>4, <3>1, <3>2 DEF SequenceInv
  <2>2. \A x \in commits \cup waits \cup events : x.cutoff = x.upto /\ x.upto <= next'[x.w][x.s]
    <3>1. ASSUME NEW x \in commits \cup waits \cup events PROVE x.upto <= next'[x.w][x.s]
      <4>1. /\ x.upto \in Nat /\ x.upto <= next[x.w][x.s]
            /\ next[x.w][x.s] \in Nat /\ next'[x.w][x.s] \in Nat /\ next[x.w][x.s] <= next'[x.w][x.s]
        BY <1>4, <1>7 DEF SequenceInv
      <4>2. QED
        BY <4>1
    <3>2. QED
      BY <3>1 DEF SequenceInv
  <2>3. QED
    BY <1>1, <2>1, <2>2 DEF SequenceInv
<1>9. EventsCover'
  <2>1. ASSUME NEW e \in events, e.w = w, e.s = s PROVE next[w][s] + 1 > e.upto
    <3>1. e.upto \in Nat /\ e.upto <= next[w][s]
      BY <1>7, <2>1 DEF SequenceInv
    <3>2. QED
      BY <1>3, <3>1
  <2>2. o.w = w /\ StreamOf(o.kind) = s /\ o.seq = next[w][s] + 1
    BY DEF s
  <2> HIDE DEF o
  <2>3. QED
    BY <1>1, <2>1, <2>2 DEF EventsCover
<1>10. CompletionsCover'
  <2>1. next[w][s] + 1 > reached[w][s]
    <3>1. reached[w][s] \in Nat /\ reached[w][s] <= next[w][s]
      BY <1>2 DEF SequenceInv, TypeOK
    <3>2. QED
      BY <1>3, <3>1
  <2>2. o.w = w /\ StreamOf(o.kind) = s /\ o.seq = next[w][s] + 1
    BY DEF s
  <2> HIDE DEF o
  <2>3. QED
    BY <1>1, <2>1, <2>2 DEF CompletionsCover
<1>11. NothingStale' /\ ControlsHeld'
  BY <1>1, <1>2 DEF NothingStale, ControlsHeld, Covered
<1>12. RangesBelow' /\ RangesDisjoint'
  BY <1>1 DEF RangesBelow, RangesDisjoint
<1>13. QED
  BY <1>5, <1>6, <1>8, <1>9, <1>10, <1>11, <1>12

\* tcgen05.mma: its latency is that of the backlog it joins.
LEMMA EnqueueMmaInd ==
    ASSUME IndInv, NEW w \in Warps, NEW work \in Work, EnqueueMma(w, work)
    PROVE  IndInv'
<1>1. backlog \in Nat /\ work \in Nat /\ backlog' = backlog + work
  BY Tcgen05Assumption DEF EnqueueMma, IndInv, TypeOK
<1>2. Rate \in Nat \ {0} /\ TailLatency \in Nat
  BY Tcgen05Assumption
<1> DEFINE n == backlog + work + Rate - 1
           cycles == CeilDiv(backlog + work, Rate) + TailLatency
<1>3. n \in Nat
  BY <1>1, <1>2
<1> HIDE DEF n
<1>4. n \div Rate \in Nat
  BY <1>2, <1>3
<1>5. cycles \in Nat
  BY <1>2, <1>4 DEF CeilDiv, n
<1>6. Enqueue(w, "mma", cycles)
  BY DEF EnqueueMma
<1>7. "mma" \in Kinds /\ backlog' \in Nat
  BY <1>1 DEF Kinds
<1> HIDE DEF cycles
<1>8. QED
  BY <1>5, <1>6, <1>7, EnqueueInd

\* tcgen05.cp, ld and st: a fixed latency.
LEMMA EnqueueOtherInd ==
    ASSUME IndInv, NEW w \in Warps, NEW kind \in Kinds \ {"mma"}, EnqueueOther(w, kind)
    PROVE  IndInv'
<1>1. Latency[kind] \in Nat /\ backlog' \in Nat
  BY Tcgen05Assumption DEF EnqueueOther, IndInv, TypeOK
<1>2. Enqueue(w, kind, Latency[kind])
  BY DEF EnqueueOther
<1>3. QED
  BY <1>1, <1>2, EnqueueInd

\* A control of a warp that can issue is about the numbers given out so far.
LEMMA ControlType ==
    ASSUME IndInv, NEW w \in Warps, CanIssue(w), NEW s \in Streams
    PROVE  LET x == Control(w, s)
           IN  /\ x \in Controls /\ x.w = w /\ x.s = s
               /\ x.cutoff = next[w][s] /\ x.upto = next[w][s]
               /\ SlotOf[w] \in live /\ x.gen = gen[SlotOf[w]]
<1>1. SlotOf[w] \in live /\ SlotOf[w] \in Slots
  BY Tcgen05Assumption DEF IndInv, PipelineInv, CanIssue
<1>2. QED
  BY <1>1 DEF IndInv, TypeOK, Control, Controls

\* A commit waits for the operations before it, or arrives if none is pending.
LEMMA CommitInd ==
    ASSUME IndInv, NEW w \in Warps, commit(w)
    PROVE  IndInv'
<1> DEFINE x == Control(w, "thread")
           cs == commits \cup {x}
<1>1. /\ CanIssue(w) /\ w \in running
      /\ commits' = Held(ops, cs) /\ events' = events \cup Resolved(ops, cs) /\ pipe' = pipe \cup {w}
      /\ UNCHANGED <<ops, waits, next, issueIn, backlog, parked, running, ctaVars, tmem, reached>>
  BY DEF commit, InPipe, CanIssue
<1>2. "thread" \in Streams
  BY DEF Streams
<1>3. /\ x \in Controls /\ x.w = w /\ x.s = "thread"
      /\ x.cutoff = next[w]["thread"] /\ x.upto = next[w]["thread"]
      /\ SlotOf[w] \in live /\ x.gen = gen[SlotOf[w]]
  BY <1>1, <1>2, ControlType
<1> HIDE DEF x
<1> USE Tcgen05Assumption DEF IndInv, ctaVars
<1>4. commits' \subseteq cs /\ Resolved(ops, cs) \subseteq cs
  BY <1>1 DEF Held, Resolved
<1>5. TypeOK'
  BY <1>1, <1>3, <1>4 DEF TypeOK
<1>6. \A y \in cs : y.cutoff = y.upto /\ y.upto <= next[y.w][y.s]
  <2>1. next[w]["thread"] \in Nat
    BY <1>2 DEF TypeOK
  <2>2. QED
    BY <1>3, <2>1 DEF SequenceInv
<1>7. \A y \in Resolved(ops, cs) : y = x
  BY DEF Resolved, ControlsHeld
<1>8. PipelineInv'
  BY <1>1, <1>3, <1>7 DEF PipelineInv
<1>9. SequenceInv'
  BY <1>1, <1>4, <1>6 DEF SequenceInv
<1>10. ControlsHeld'
  BY <1>1 DEF ControlsHeld, Held
<1>11. EventsCover'
  <2>1. ASSUME NEW e \in Resolved(ops, cs), NEW o \in ops, o.w = e.w, StreamOf(o.kind) = e.s
        PROVE  o.seq > e.upto
    <3>1. ~(o.seq <= e.cutoff) /\ e.cutoff = e.upto
      BY <1>4, <1>6, <2>1 DEF Resolved, Covered
    <3>2. o.seq \in Nat /\ e.upto \in Nat
      BY <1>3, <1>7 DEF TypeOK, Operations, Controls
    <3>3. QED
      BY <3>1, <3>2
  <2>2. QED
    BY <1>1, <2>1 DEF EventsCover
<1>12. CompletionsCover' /\ RangesBelow' /\ RangesDisjoint'
  BY <1>1 DEF CompletionsCover, RangesBelow, RangesDisjoint
<1>13. NothingStale'
  BY <1>1, <1>3, <1>4, <1>7 DEF NothingStale
<1>14. QED
  BY <1>5, <1>8, <1>9, <1>10, <1>11, <1>12, <1>13

\* A wait is recorded if operations of its stream are pending.
LEMMA WaitInd ==
    ASSUME IndInv, NEW w \in Warps, NEW s \in MemKinds, wait(w, s)
    PROVE  IndInv'
<1> DEFINE x == Control(w, s)
<1>1. s \in Streams
  BY DEF Streams
<1>2. /\ CanIssue(w) /\ w \in running /\ pipe' = pipe \cup {w}
      /\ waits' = IF Covered(ops, w, s, next[w][s]) THEN waits ELSE waits \cup {x}
      /\ UNCHANGED <<ops, commits, events, next, issueIn, backlog, running, ctaVars, tmem, reached>>
  BY DEF wait, InPipe, CanIssue
<1>3. /\ x \in Controls /\ x.w = w /\ x.s = s
      /\ x.cutoff = next[w][s] /\ x.upto = next[w][s]
      /\ SlotOf[w] \in live /\ x.gen = gen[SlotOf[w]]
  BY <1>1, <1>2, ControlType
<1> HIDE DEF x
<1> USE Tcgen05Assumption DEF IndInv, ctaVars
<1>4. waits' \subseteq waits \cup {x}
  BY <1>2
<1>5. TypeOK'
  BY <1>2, <1>3, <1>4 DEF TypeOK
<1>6. PipelineInv'
  BY <1>2, <1>3 DEF PipelineInv
<1>7. SequenceInv'
  <2>1. next[w][s] \in Nat
    BY <1>1 DEF TypeOK
  <2>2. \A y \in commits \cup waits' \cup events : y.cutoff = y.upto /\ y.upto <= next[y.w][y.s]
    BY <1>3, <1>4, <2>1 DEF SequenceInv
  <2>3. QED
    BY <1>2, <2>2 DEF SequenceInv
<1>8. ControlsHeld'
  <2>1. x \in waits' => x \in waits \/ ~Covered(ops, x.w, x.s, x.cutoff)
    BY <1>2, <1>3
  <2>2. \A y \in commits \cup waits' : ~Covered(ops, y.w, y.s, y.cutoff)
    BY <1>4, <2>1 DEF ControlsHeld
  <2>3. QED
    BY <1>2, <2>2 DEF ControlsHeld, Covered
<1>9. EventsCover' /\ CompletionsCover' /\ RangesBelow' /\ RangesDisjoint'
  BY <1>2 DEF EventsCover, CompletionsCover, RangesBelow, RangesDisjoint
<1>10. NothingStale'
  BY <1>2, <1>3, <1>4 DEF NothingStale
<1>11. QED
  BY <1>5, <1>6, <1>7, <1>8, <1>9, <1>10

\* A warp exits.
LEMMA ExitInd ==
    ASSUME IndInv, NEW w \in Warps, Exit(w)
    PROVE  IndInv'
<1> USE Tcgen05Assumption DEF IndInv, Exit, InPipe, CanIssue, unitVars, ctaVars
<1>1. TypeOK' /\ PipelineInv'
  BY DEF TypeOK, PipelineInv
<1>2. SequenceInv' /\ ControlsHeld' /\ EventsCover' /\ CompletionsCover'
  BY DEF SequenceInv, ControlsHeld, Covered, EventsCover, CompletionsCover
<1>3. NothingStale' /\ RangesBelow' /\ RangesDisjoint'
  BY DEF NothingStale, RangesBelow, RangesDisjoint
<1>4. QED
  BY <1>1, <1>2, <1>3

\* The tensor memory and the numbers after some slots were given back.
LEMMA ReleaseFacts ==
    ASSUME IndInv, NEW slots \in SUBSET Slots, NEW pending, NEW cs, NEW ws,
           Release(slots, pending, cs, ws), gen' = gen
    PROVE  /\ RangesBelow' /\ RangesDisjoint'
           /\ \A c \in Slots \ live' : tmem'[c] = NoScope
           /\ tmem' \in [Slots -> Scopes] /\ live' \subseteq Slots
           /\ next' \in [Warps -> [Streams -> Nat]]
           /\ \A w \in Warps : /\ SlotOf[w] \in slots => \A s \in Streams : next'[w][s] = 0
                               /\ SlotOf[w] \notin slots => next'[w] = next[w]
<1> USE Tcgen05Assumption DEF IndInv, Release, cleanup_cta
<1>1. NoScope \in Scopes /\ NoSequences \in [Streams -> Nat] /\ \A s \in Streams : NoSequences[s] = 0
  BY DEF NoScope, Scopes, NoSequences
<1>2. NoScope.allocations \cup NoScope.retired = {}
  BY DEF NoScope
<1>3. \A c \in Slots : tmem'[c] = NoScope \/ tmem'[c] = tmem[c]
  OBVIOUS
<1>4. RangesBelow' /\ RangesDisjoint'
  <2>1. ASSUME NEW c \in Slots
        PROVE  /\ \A a \in tmem'[c].allocations \cup tmem'[c].retired :
                     a.base + a.ncols <= tmem'[c].next_base
               /\ \A a, b \in tmem'[c].allocations \cup tmem'[c].retired :
                     a # b => a.base + a.ncols <= b.base \/ b.base + b.ncols <= a.base
    BY <1>2, <1>3 DEF RangesBelow, RangesDisjoint
  <2>2. QED
    BY <2>1 DEF RangesBelow, RangesDisjoint
<1>5. tmem' \in [Slots -> Scopes] /\ \A c \in Slots \ live' : tmem'[c] = NoScope
  BY <1>1 DEF TypeOK, NothingStale
<1>6. /\ next' \in [Warps -> [Streams -> Nat]]
      /\ \A w \in Warps : /\ SlotOf[w] \in slots => \A s \in Streams : next'[w][s] = 0
                          /\ SlotOf[w] \notin slots => next'[w] = next[w]
  BY <1>1 DEF TypeOK
<1>7. live' \subseteq Slots
  BY DEF TypeOK
<1>8. QED
  BY <1>4, <1>5, <1>6, <1>7

\* fetch finds a warp done; the slot it may give back has nothing in the pipeline, so
\* no event either.
LEMMA ReclaimInd ==
    ASSUME IndInv, NEW w \in Warps, NEW busy \in BOOLEAN, Reclaim(w, busy)
    PROVE  IndInv'
<1> USE Tcgen05Assumption
<1> DEFINE c == SlotOf[w]
           gone == reclaimed \cup {w}
           slots == IF Exited(c, gone) /\ ~busy THEN {c} ELSE {}
<1>1. /\ c \in live /\ w \notin running /\ w \notin pipe
      /\ reclaimed' = gone
      /\ Release(slots, ops, commits, waits)
      /\ UNCHANGED <<setup, events, issueIn, backlog, parked, running, pipe, gen, reached>>
  BY DEF Reclaim, hardware_done
<1>2. slots \in SUBSET Slots
  OBVIOUS
<1>3. \A v \in running \cup pipe : SlotOf[v] \notin slots
  <2>1. ASSUME NEW v \in running \cup pipe, SlotOf[v] \in slots PROVE FALSE
    <3>1. v \in Warps /\ setup.kinds[v] # {} /\ v \notin gone
      BY <1>1, <2>1 DEF IndInv, PipelineInv, TypeOK
    <3>2. SlotOf[v] = c /\ WarpsOf(c) \subseteq gone
      BY <2>1 DEF Exited
    <3>3. QED
      BY <3>1, <3>2 DEF WarpsOf
  <2>2. QED
    BY <2>1
<1> HIDE DEF slots, gone
<1>4. /\ RangesBelow' /\ RangesDisjoint'
      /\ \A d \in Slots \ live' : tmem'[d] = NoScope
      /\ tmem' \in [Slots -> Scopes] /\ live' \subseteq Slots
      /\ next' \in [Warps -> [Streams -> Nat]]
      /\ \A v \in Warps : /\ SlotOf[v] \in slots => \A s \in Streams : next'[v][s] = 0
                          /\ SlotOf[v] \notin slots => next'[v] = next[v]
  BY <1>1, <1>2, ReleaseFacts
<1>5. /\ ops' = {o \in ops : SlotOf[o.w] \notin slots}
      /\ commits' = {x \in commits : SlotOf[x.w] \notin slots}
      /\ waits' = {x \in waits : SlotOf[x.w] \notin slots}
      /\ live' = live \ slots
  BY <1>1 DEF Release, cleanup_cta
<1> USE DEF IndInv
<1>6. TypeOK'
  BY <1>1, <1>4, <1>5 DEF TypeOK, gone
<1>7. PipelineInv'
  BY <1>1, <1>3, <1>5 DEF PipelineInv, gone
<1>8. \A e \in events : SlotOf[e.w] \notin slots
  BY <1>3 DEF PipelineInv
<1>9. SequenceInv'
  <2>1. ASSUME NEW v \in Warps, NEW s \in Streams
        PROVE  /\ SlotOf[v] \in live' => reached'[v][s] <= next'[v][s]
               /\ SlotOf[v] \notin live' => next'[v][s] = 0
    BY <1>1, <1>4, <1>5 DEF SequenceInv
  <2>2. \A x \in commits' \cup waits' \cup events' : x.w \in Warps /\ SlotOf[x.w] \notin slots
    BY <1>1, <1>5, <1>8 DEF TypeOK, Controls
  <2>3. QED
    BY <1>1, <1>4, <1>5, <2>1, <2>2 DEF SequenceInv
<1>10. ControlsHeld'
  BY <1>5 DEF ControlsHeld, Covered
<1>11. EventsCover' /\ CompletionsCover'
  BY <1>1, <1>5 DEF EventsCover, CompletionsCover
<1>12. NothingStale'
  <2>1. \A x \in ops' \cup waits' \cup commits' \cup events' :
            SlotOf[x.w] \in live' /\ x.gen = gen'[SlotOf[x.w]]
    BY <1>1, <1>5, <1>8 DEF NothingStale
  <2>2. QED
    BY <1>4, <2>1 DEF NothingStale
<1>13. QED
  BY <1>4, <1>6, <1>7, <1>9, <1>10, <1>11, <1>12

\* A cycle: operations complete, what they held up takes effect, and slots with
\* nothing in the pipeline may be given back.
LEMMA CycleInd ==
    ASSUME IndInv, NEW retired \in SUBSET pipe,
           NEW done \in SUBSET {c \in Slots : Exited(c, reclaimed)}, Cycle(retired, done)
    PROVE  IndInv'
<1> USE Tcgen05Assumption
<1> DEFINE pending == StillPending
           es == events \cup Resolved(pending, commits \cup waits)
<1>1. /\ pipe' = pipe \ retired /\ events' = {} /\ backlog' = Less(backlog, Rate)
      /\ reached' = [w \in Warps |-> [s \in Streams |-> ReachedBy(es, w, s)]]
      /\ Release(done, pending, Held(pending, commits), Held(pending, waits))
      /\ UNCHANGED <<setup, running, reclaimed, gen>>
  BY DEF Cycle, Delivered
<1>2. done \in SUBSET Slots
  OBVIOUS
<1>3. \A v \in running \cup pipe : SlotOf[v] \notin done
  BY DEF IndInv, PipelineInv, TypeOK, Exited, WarpsOf
<1>4. /\ RangesBelow' /\ RangesDisjoint'
      /\ \A d \in Slots \ live' : tmem'[d] = NoScope
      /\ tmem' \in [Slots -> Scopes] /\ live' \subseteq Slots
      /\ next' \in [Warps -> [Streams -> Nat]]
      /\ \A v \in Warps : /\ SlotOf[v] \in done => \A s \in Streams : next'[v][s] = 0
                          /\ SlotOf[v] \notin done => next'[v] = next[v]
  <2> HIDE DEF pending
  <2>1. QED
    BY <1>1, <1>2, ReleaseFacts
<1>5. /\ ops' = {o \in pending : SlotOf[o.w] \notin done}
      /\ commits' = {x \in Held(pending, commits) : SlotOf[x.w] \notin done}
      /\ waits' = {x \in Held(pending, waits) : SlotOf[x.w] \notin done}
      /\ live' = live \ done
  BY <1>1 DEF Release, cleanup_cta
<1> USE DEF IndInv
<1>6. \A o \in pending : /\ o \in Operations
                         /\ \E old \in ops : /\ old.w = o.w /\ old.kind = o.kind
                                             /\ old.seq = o.seq /\ old.gen = o.gen
  <2>1. ASSUME NEW old \in ops, old.left > 1
        PROVE  LET o == [old EXCEPT !.left = @ - 1]
               IN  /\ o \in Operations
                   /\ old.w = o.w /\ old.kind = o.kind /\ old.seq = o.seq /\ old.gen = o.gen
    <3>1. old \in Operations
      BY DEF TypeOK
    <3>2. old.left - 1 \in Nat
      BY <2>1, <3>1 DEF Operations
    <3>3. QED
      BY <3>1, <3>2 DEF Operations
  <2>2. QED
    BY <2>1, ZenonT(40) DEF StillPending
<1> HIDE DEF pending
<1>7. /\ Held(pending, commits) \subseteq commits /\ Held(pending, waits) \subseteq waits
      /\ \A x \in Held(pending, commits) \cup Held(pending, waits) :
            ~Covered(pending, x.w, x.s, x.cutoff)
  BY DEF Held
<1>8. es \subseteq Controls /\ \A e \in es : e.upto <= next[e.w][e.s]
  BY DEF Resolved, TypeOK, SequenceInv
<1>9. ASSUME NEW e \in es, NEW o \in pending, o.w = e.w, StreamOf(o.kind) = e.s
      PROVE  o.seq > e.upto
  <2>1. o.seq \in Nat /\ e.upto \in Nat
    BY <1>6, <1>8 DEF Operations, Controls
  <2>2. CASE e \in events
    BY <1>6, <1>9, <2>2 DEF EventsCover
  <2>3. CASE e \in Resolved(pending, commits \cup waits)
    <3>1. ~(o.seq <= e.cutoff) /\ e.cutoff = e.upto
      BY <1>9, <2>3 DEF Resolved, Covered, SequenceInv
    <3>2. QED
      BY <2>1, <3>1
  <2>4. QED
    BY <2>2, <2>3
<1> HIDE DEF es
<1>10. ASSUME NEW w \in Warps, NEW s \in Streams
       PROVE  /\ reached'[w][s] \in Nat
              /\ \/ reached'[w][s] = reached[w][s]
                 \/ \E e \in es : e.w = w /\ e.s = s /\ reached'[w][s] = e.upto
  <2> DEFINE S == {reached[w][s]} \cup {e.upto : e \in {x \in es : x.w = w /\ x.s = s}}
             n == reached[w][s] + next[w][s]
  <2>1. reached[w][s] \in Nat /\ next[w][s] \in Nat
    BY DEF TypeOK
  <2>2. \A e \in es : e.w = w /\ e.s = s => e.upto \in Nat /\ e.upto <= next[w][s]
    BY <1>8 DEF Controls
  <2>3. S \in SUBSET (0..n) /\ S # {} /\ n \in Nat
    BY <2>1, <2>2
  <2>4. reached'[w][s] = Max(S)
    BY <1>1 DEF ReachedBy
  <2> HIDE DEF n
  <2>5. Max(S) \in S
    <3> HIDE DEF S
    <3>1. QED
      BY <2>3, MaxOfBounded
  <2>6. QED
    BY <2>1, <2>2, <2>4, <2>5
<1>11. TypeOK'
  <2>1. reached' \in [Warps -> [Streams -> Nat]]
    <3>1. reached' = [w \in Warps |-> [s \in Streams |-> reached'[w][s]]]
      BY <1>1
    <3>2. QED
      BY <1>10, <3>1
  <2>2. backlog' \in Nat
    BY <1>1 DEF TypeOK, Less
  <2>3. ops' \subseteq Operations /\ commits' \subseteq Controls /\ waits' \subseteq Controls
    BY <1>5, <1>6, <1>7 DEF TypeOK
  <2>4. QED
    BY <1>1, <1>4, <2>1, <2>2, <2>3 DEF TypeOK
<1>12. PipelineInv'
  BY <1>1, <1>3, <1>5 DEF PipelineInv
<1>13. SequenceInv'
  <2>1. ASSUME NEW v \in Warps, NEW s \in Streams
        PROVE  /\ SlotOf[v] \in live' => reached'[v][s] <= next'[v][s]
               /\ SlotOf[v] \notin live' => next'[v][s] = 0
    <3>1. ASSUME SlotOf[v] \in live' PROVE reached'[v][s] <= next'[v][s]
      <4>1. next'[v] = next[v] /\ reached[v][s] <= next[v][s]
        BY <1>4, <1>5, <3>1 DEF SequenceInv
      <4>2. QED
        BY <1>8, <1>10, <4>1
    <3>2. ASSUME SlotOf[v] \notin live' PROVE next'[v][s] = 0
      BY <1>4, <1>5, <3>2 DEF SequenceInv
    <3>3. QED
      BY <3>1, <3>2
  <2>2. \A x \in commits' \cup waits' : /\ x \in commits \cup waits
                                        /\ x.w \in Warps /\ SlotOf[x.w] \notin done
    BY <1>5, <1>7 DEF TypeOK, Controls
  <2>3. QED
    BY <1>1, <1>4, <2>1, <2>2 DEF SequenceInv
<1>14. ControlsHeld'
  <2>1. ASSUME NEW x \in commits' \cup waits' PROVE ~Covered(ops', x.w, x.s, x.cutoff)
    BY <1>5, <1>7 DEF Covered
  <2>2. QED
    BY <2>1 DEF ControlsHeld, Covered
<1>15. EventsCover'
  BY <1>1 DEF EventsCover
<1>16. CompletionsCover'
  <2>1. ASSUME NEW o \in ops' PROVE o.seq > reached'[o.w][StreamOf(o.kind)]
    <3> DEFINE s == StreamOf(o.kind)
    <3>1. o \in pending /\ o \in Operations
      BY <1>5, <1>6
    <3>2. o.w \in Warps /\ o.kind \in Kinds
      BY <3>1 DEF Operations
    <3>3. s \in Streams
      BY <3>2, StreamOfType
    <3>4. o.seq > reached[o.w][s]
      BY <1>6, <3>1 DEF CompletionsCover
    <3>5. \/ reached'[o.w][s] = reached[o.w][s]
          \/ \E e \in es : e.w = o.w /\ e.s = s /\ reached'[o.w][s] = e.upto
      <4> HIDE DEF s
      <4>1. QED
        BY <1>10, <3>2, <3>3
    <3>6. QED
      BY <1>9, <3>1, <3>4, <3>5
  <2>2. QED
    BY <2>1 DEF CompletionsCover
<1>17. NothingStale'
  <2>1. ASSUME NEW x \in ops' \cup waits' \cup commits' \cup events'
        PROVE  SlotOf[x.w] \in live' /\ x.gen = gen'[SlotOf[x.w]]
    <3>1. CASE x \in ops'
      BY <1>1, <1>5, <1>6, <3>1 DEF NothingStale
    <3>2. CASE x \in waits' \cup commits'
      BY <1>1, <1>5, <1>7, <3>2 DEF NothingStale
    <3>3. QED
      BY <1>1, <2>1, <3>1, <3>2
  <2>2. QED
    BY <1>4, <2>1 DEF NothingStale
<1>18. QED
  BY <1>4, <1>11, <1>12, <1>13, <1>14, <1>15, <1>16, <1>17

\* Every step, and a stuttering one, keeps the inductive invariant.
LEMMA NextInd ==
    ASSUME IndInv, [Next]_vars
    PROVE  IndInv'
<1>1. CASE UNCHANGED vars
  <2> USE <1>1 DEF vars, IndInv
  <2>1. TypeOK' /\ PipelineInv'
    BY DEF TypeOK, PipelineInv
  <2>2. SequenceInv' /\ ControlsHeld' /\ EventsCover' /\ CompletionsCover'
    BY DEF SequenceInv, ControlsHeld, Covered, EventsCover, CompletionsCover
  <2>3. NothingStale' /\ RangesBelow' /\ RangesDisjoint'
    BY DEF NothingStale, RangesBelow, RangesDisjoint
  <2>4. QED
    BY <2>1, <2>2, <2>3
<1>2. ASSUME NEW c \in Slots, IssueCta(c) PROVE IndInv'
  BY <1>2, IssueCtaInd
<1>3. ASSUME NEW w \in Warps, NEW n \in Sizes, alloc(w, n) PROVE IndInv'
  BY <1>3, AllocInd
<1>4. ASSUME NEW w \in Warps, NEW a \in tmem[SlotOf[w]].allocations, dealloc(w, a) PROVE IndInv'
  BY <1>4, DeallocInd
<1>5. ASSUME NEW w \in Warps, relinquish_alloc_permit(w) \/ commit(w) \/ Exit(w) PROVE IndInv'
  BY <1>5, RelinquishInd, CommitInd, ExitInd
<1>6. ASSUME NEW w \in Warps, NEW work \in Work, EnqueueMma(w, work) PROVE IndInv'
  BY <1>6, EnqueueMmaInd
<1>7. ASSUME NEW w \in Warps, NEW kind \in Kinds \ {"mma"}, EnqueueOther(w, kind) PROVE IndInv'
  BY <1>7, EnqueueOtherInd
<1>8. ASSUME NEW w \in Warps, NEW s \in MemKinds, wait(w, s) PROVE IndInv'
  BY <1>8, WaitInd
<1>9. ASSUME NEW w \in Warps, NEW busy \in BOOLEAN, Reclaim(w, busy) PROVE IndInv'
  BY <1>9, ReclaimInd
<1>10. ASSUME NEW retired \in SUBSET pipe,
              NEW done \in SUBSET {c \in Slots : Exited(c, reclaimed)}, Cycle(retired, done)
       PROVE  IndInv'
  BY <1>10, CycleInd
<1>11. QED
  BY <1>1, <1>2, <1>3, <1>4, <1>5, <1>6, <1>7, <1>8, <1>9, <1>10 DEF Next

-----------------------------------------------------------------------------
(* Theorems. *)

\* The inductive invariant holds.
THEOREM Invariance == Spec => []IndInv
  BY InitInd, NextInd, PTL DEF Spec

\* Arrivals and releases come only when all they are about is complete
\* (resolve_controls, thread_cutoff_satisfied, warp_cutoff_satisfied).
THEOREM CompletionsDoCover == Spec => []CompletionsCover
<1>1. IndInv => CompletionsCover
  BY DEF IndInv
<1>2. QED
  BY <1>1, Invariance, PTL

\* Nothing in the unit outlives its CTA, although cleanup_cta leaves the events alone.
THEOREM NothingIsStale == Spec => []NothingStale
<1>1. IndInv => NothingStale
  BY DEF IndInv
<1>2. QED
  BY <1>1, Invariance, PTL

\* The ranges of tensor memory a CTA was ever given are disjoint (alloc, dealloc).
THEOREM RangesAreDisjoint == Spec => []RangesDisjoint
<1>1. IndInv => RangesDisjoint
  BY DEF IndInv
<1>2. QED
  BY <1>1, Invariance, PTL

=============================================================================
