------------------------------ MODULE Tcgen05 ------------------------------
(***************************************************************************)
(* The tcgen05 unit of an SM and the tensor memory of its CTAs.  The data  *)
(* of an MMA, a copy, a load or a store is moved when it issues; the unit  *)
(* decides when it counts as complete.  The leader thread of a warp issues *)
(* MMAs and copies and commits them to an mbarrier, which one arrival      *)
(* reaches when all of them are complete; a warp issues loads and stores   *)
(* and parks until its own are complete.                                   *)
(*                                                                         *)
(* All the events of a cycle take effect in it, so commits, waits and      *)
(* events are sets; commits of a warp with the same cutoff arrive together *)
(* and are one.                                                            *)
(*                                                                         *)
(* Times are kept as distances from now: the cycles an operation still     *)
(* needs, the cycles until an operation of a kind may issue, and the work  *)
(* the MMA backend has left of its busy period.                            *)
(***************************************************************************)
EXTENDS Naturals, FiniteSets, FiniteSetsExt

CONSTANTS
    Slots, Warps, SlotOf,   \* CTA slots of the SM, its warps, and the slot of each
    CopyKinds,              \* cp and shift, which the unit treats alike
    Work,                   \* the work of an MMA
    Rate, IssueInterval, TailLatency,  \* mma_f16_flops_per_cycle, mma_issue_interval,
                                       \* mma_completion_tail_latency
    Latency, Interval,      \* completion latencies and initiation intervals of the others
    QueueDepth,             \* async_queue_depth, 0 for no limit
    Sizes,                  \* sizes of an allocation of tensor memory
    Setups                  \* see Tcgen05Assumption

MemKinds == {"ld", "st"}
Kinds == {"mma"} \cup CopyKinds \cup MemKinds

\* kinds: what each warp issues (a warp that issues nothing is not there); columns: those of
\* the tensor memory; frees: it deallocates; and bounds on the operations of a stream and the
\* CTAs of a slot.
ASSUME Tcgen05Assumption ==
    /\ SlotOf \in [Warps -> Slots]
    /\ CopyKinds \subseteq {"cp", "shift"}
    /\ Work \subseteq Nat \ {0}
    /\ {Rate, IssueInterval} \subseteq Nat \ {0}
    /\ Latency \in [Kinds \ {"mma"} -> Nat \ {0}]
    /\ Interval \in [Kinds \ {"mma"} -> Nat \ {0}]
    /\ Sizes \subseteq Nat \ {0}
    /\ {TailLatency, QueueDepth} \subseteq Nat
    /\ Setups \subseteq [kinds : [Warps -> SUBSET Kinds], columns : Nat, frees : BOOLEAN,
                         ops : Nat, gens : Nat]

VARIABLES
    setup,     \* fixed
    ops,       \* m_pending_ops
    commits,   \* m_pending_commits
    waits,     \* m_pending_waits
    events,    \* m_completion_events
    next,      \* m_thread_next_sequence, m_ld_next_sequence and m_st_next_sequence
    issueIn,   \* cycles until m_next_issue_cycle, by kind
    backlog,   \* work left of the busy period of the MMA backend
    parked,    \* warps parked with BARRIER_WAIT_TCGEN05
    running, pipe,  \* warps that have not executed exit, warps with instructions in the pipeline
    reclaimed, \* warps whose exit fetch has registered
    live,      \* slots with a CTA
    tmem,      \* scope_state_t of the CTA in each slot
    gen,       \* history: how many CTAs each slot has had
    reached    \* history: the operations that arrivals and releases were about, by stream

vars == <<setup, ops, commits, waits, events, next, issueIn, backlog, parked, running, pipe, reclaimed,
          live, tmem, gen, reached>>
unitVars == <<ops, commits, waits, events, next, issueIn, backlog>>
ctaVars == <<setup, reclaimed, live, gen>>

WarpsOf(c) == {w \in Warps : SlotOf[w] = c /\ setup.kinds[w] # {}}
Streams == {"thread"} \cup MemKinds
StreamOf(kind) == IF kind \in MemKinds THEN kind ELSE "thread"
NoScope == [next_base |-> 0, last |-> 0, relinquished |-> FALSE, allocations |-> {}, retired |-> {}]
NoSequences == [s \in Streams |-> 0]

Init ==
    /\ setup \in Setups
    /\ ops = {} /\ commits = {} /\ waits = {} /\ events = {}
    /\ next = [w \in Warps |-> NoSequences]
    /\ issueIn = [k \in Kinds |-> 0] /\ backlog = 0
    /\ parked = {} /\ running = {} /\ pipe = {} /\ reclaimed = {} /\ live = {}
    /\ tmem = [c \in Slots |-> NoScope]
    /\ gen = [c \in Slots |-> 0]
    /\ reached = [w \in Warps |-> NoSequences]

Less(n, d) == IF n > d THEN n - d ELSE 0
CeilDiv(n, d) == (n + d - 1) \div d

\* A CTA takes a free slot.
IssueCta(c) ==
    /\ c \notin live /\ gen[c] < setup.gens /\ WarpsOf(c) # {}
    /\ live' = live \cup {c}
    /\ gen' = [gen EXCEPT ![c] = @ + 1]
    /\ running' = running \cup WarpsOf(c)
    /\ reclaimed' = reclaimed \ WarpsOf(c)
    /\ reached' = [w \in Warps |-> IF SlotOf[w] = c THEN NoSequences ELSE reached[w]]
    /\ UNCHANGED <<setup, unitVars, parked, pipe, tmem>>

-----------------------------------------------------------------------------
(* Tensor memory.  The preconditions are the assertions of the manager. *)

CanIssue(w) == w \in running /\ w \notin parked

\* An instruction of w goes down the pipeline.
InPipe(w) == pipe' = pipe \cup {w}

alloc(w, n) ==
    LET c == SlotOf[w]  m == tmem[c] IN
    /\ CanIssue(w) /\ ~m.relinquished
    /\ m.last = 0 \/ n <= m.last
    /\ m.next_base + n <= setup.columns
    /\ tmem' = [tmem EXCEPT ![c] =
                  [m EXCEPT !.next_base = @ + n, !.last = n,
                            !.allocations = @ \cup {[base |-> m.next_base, ncols |-> n]}]]
    /\ InPipe(w)
    /\ UNCHANGED <<unitVars, parked, running, ctaVars, reached>>

\* Mistaken variant of Deallocated: the columns are handed out again.
DeallocatedForReuse(m, a) == [m EXCEPT !.allocations = @ \ {a}, !.retired = @ \cup {a},
                                       !.next_base = a.base]

\* A deallocated range stays addressable until the CTA ends.
Deallocated(m, a) == [m EXCEPT !.allocations = @ \ {a}, !.retired = @ \cup {a}]

dealloc(w, a) ==
    LET c == SlotOf[w] IN
    /\ CanIssue(w) /\ setup.frees /\ a \in tmem[c].allocations
    /\ tmem' = [tmem EXCEPT ![c] = Deallocated(@, a)]
    /\ InPipe(w)
    /\ UNCHANGED <<unitVars, parked, running, ctaVars, reached>>

relinquish_alloc_permit(w) ==
    /\ CanIssue(w) /\ setup.frees
    /\ tmem' = [tmem EXCEPT ![SlotOf[w]].relinquished = TRUE]
    /\ InPipe(w)
    /\ UNCHANGED <<unitVars, parked, running, ctaVars, reached>>

\* find_accessible_allocation_containing finds the operand of some access.
Accessible(c) == tmem[c].allocations \cup tmem[c].retired # {}

-----------------------------------------------------------------------------
(* The unit. *)

can_enqueue(kind) ==
    /\ QueueDepth = 0 \/ Cardinality(ops) < QueueDepth
    /\ issueIn[kind] = 0

\* Operation kind of warp w is pending for some more cycles.
Enqueue(w, kind, cycles) ==
    LET s == StreamOf(kind) IN
    /\ CanIssue(w) /\ can_enqueue(kind) /\ Accessible(SlotOf[w])
    /\ kind \in setup.kinds[w] /\ next[w][s] < setup.ops
    /\ next' = [next EXCEPT ![w][s] = @ + 1]
    /\ ops' = ops \cup {[w |-> w, kind |-> kind, seq |-> next[w][s] + 1, left |-> cycles,
                         gen |-> gen[SlotOf[w]]]}
    /\ InPipe(w)
    /\ UNCHANGED <<commits, waits, events, parked, running, ctaVars, tmem, reached>>

\* enqueue_thread_op of an MMA: it joins the busy period of the backend, or starts one.
EnqueueMma(w, work) ==
    LET total == backlog + work IN
    /\ Enqueue(w, "mma", CeilDiv(total, Rate) + TailLatency)
    /\ backlog' = total
    /\ issueIn' = [issueIn EXCEPT !["mma"] = IssueInterval]

\* enqueue_thread_op of a copy or shift, enqueue_warp_mem_op.
EnqueueOther(w, kind) ==
    /\ Enqueue(w, kind, Latency[kind])
    /\ issueIn' = [issueIn EXCEPT ![kind] = Interval[kind]]
    /\ UNCHANGED backlog

\* Mistaken variant of Covered: only the newest operation counts.
NewestDone(pending, w, s, cutoff) ==
    ~\E o \in pending : o.w = w /\ StreamOf(o.kind) = s /\ o.seq = cutoff

\* thread_cutoff_satisfied and warp_cutoff_satisfied: no pending operation of the stream
\* is that old.
Covered(pending, w, s, cutoff) ==
    ~\E o \in pending : o.w = w /\ StreamOf(o.kind) = s /\ o.seq <= cutoff

\* resolve_controls: the commits or waits that pending operations hold up still, and the
\* others, which become events.
Held(pending, xs) == {x \in xs : ~Covered(pending, x.w, x.s, x.cutoff)}
Resolved(pending, xs) == {x \in xs : Covered(pending, x.w, x.s, x.cutoff)}

\* A commit or wait of w on stream s; upto, a history, is the number of operations it is about.
Control(w, s) == [w |-> w, s |-> s, cutoff |-> next[w][s], upto |-> next[w][s],
                  gen |-> gen[SlotOf[w]]]

\* A commit that nothing holds up arrives in the next cycle.
commit(w) ==
    LET cs == commits \cup {Control(w, "thread")} IN
    /\ CanIssue(w) /\ setup.kinds[w] \ MemKinds # {}
    /\ commits' = Held(ops, cs)
    /\ events' = events \cup Resolved(ops, cs)
    /\ InPipe(w)
    /\ UNCHANGED <<ops, waits, next, issueIn, backlog, parked, running, ctaVars, tmem, reached>>

\* wait_ld and wait_st, and wait_tcgen05_warp.
wait(w, s) ==
    LET satisfied == Covered(ops, w, s, next[w][s]) IN
    /\ CanIssue(w) /\ s \in setup.kinds[w]
    /\ waits' = IF satisfied THEN waits ELSE waits \cup {Control(w, s)}
    /\ parked' = IF satisfied THEN parked ELSE parked \cup {w}
    /\ InPipe(w)
    /\ UNCHANGED <<ops, commits, events, next, issueIn, backlog, running, ctaVars, tmem, reached>>

\* The operations that are not complete after one more cycle.
StillPending == {[o EXCEPT !.left = @ - 1] : o \in {x \in ops : x.left > 1}}

\* Stream s of w is complete up to these events.
ReachedBy(es, w, s) == Max({reached[w][s]} \cup {e.upto : e \in {x \in es : x.w = w /\ x.s = s}})

\* Mistaken variant of Delivered: a cycle with an arrival releases no warp.
ArrivalsDelivered(es) ==
    /\ parked' = IF \E e \in es : e.s = "thread" THEN parked ELSE parked \ {e.w : e \in es}
    /\ reached' = [w \in Warps |-> [s \in Streams |-> ReachedBy(es, w, s)]]

\* The events of a cycle: an arrival at an mbarrier, or the release of a parked warp.
Delivered(es) ==
    /\ parked' = parked \ {e.w : e \in {x \in es : x.s \in MemKinds}}
    /\ reached' = [w \in Warps |-> [s \in Streams |-> ReachedBy(es, w, s)]]

-----------------------------------------------------------------------------
(* CTAs end. *)

\* cleanup_cta of some slots, the unit having these operations, commits and waits; the
\* events are not looked at.
cleanup_cta(slots, pending, cs, ws) ==
    /\ ops' = {o \in pending : SlotOf[o.w] \notin slots}
    /\ commits' = {x \in cs : SlotOf[x.w] \notin slots}
    /\ waits' = {x \in ws : SlotOf[x.w] \notin slots}
    /\ next' = [w \in Warps |-> IF SlotOf[w] \in slots THEN NoSequences ELSE next[w]]

\* release_finished_cta of some slots.
Release(slots, pending, cs, ws) ==
    /\ cleanup_cta(slots, pending, cs, ws)
    /\ tmem' = [c \in Slots |-> IF c \in slots THEN NoScope ELSE tmem[c]]
    /\ live' = live \ slots

\* A core cycle up to execute: instructions done leave the pipeline, the unit completes
\* operations and resolves what waited for them, the events take effect, and CTAs whose
\* threads exited while a copy of theirs was under way may be released (done).
Cycle(retired, done) ==
    LET pending == StillPending
    IN  /\ live # {}
        /\ pipe' = pipe \ retired
        /\ issueIn' = [k \in Kinds |-> Less(issueIn[k], 1)]
        /\ backlog' = Less(backlog, Rate)
        /\ events' = {}
        /\ Delivered(events \cup Resolved(pending, commits \cup waits))
        /\ Release(done, pending, Held(pending, commits), Held(pending, waits))
        /\ UNCHANGED <<setup, running, reclaimed, gen>>

\* The threads of a warp execute exit.
Exit(w) ==
    /\ CanIssue(w)
    /\ running' = running \ {w}
    /\ InPipe(w)
    /\ UNCHANGED <<unitVars, parked, ctaVars, tmem, reached>>

\* Mistaken variant of hardware_done: instructions may still be in the pipeline.
functional_done(w) == w \notin running
hardware_done(w) == w \notin running /\ w \notin pipe

\* All threads of c have exited, and nothing else keeps it.
Exited(c, ws) == c \in live /\ WarpsOf(c) \subseteq ws

\* fetch finds a warp that is done; the last one of a CTA releases it, unless a copy of the
\* CTA is under way (busy).
Reclaim(w, busy) ==
    LET c == SlotOf[w]
        gone == reclaimed \cup {w}
    IN  /\ c \in live /\ w \notin reclaimed /\ hardware_done(w)
        /\ reclaimed' = gone
        /\ Release(IF Exited(c, gone) /\ ~busy THEN {c} ELSE {}, ops, commits, waits)
        /\ UNCHANGED <<setup, events, issueIn, backlog, parked, running, pipe, gen, reached>>

Next ==
    \/ \E c \in Slots : IssueCta(c)
    \/ \E w \in Warps :
        \/ \E n \in Sizes : alloc(w, n)
        \/ \E a \in tmem[SlotOf[w]].allocations : dealloc(w, a)
        \/ relinquish_alloc_permit(w)
        \/ \E work \in Work : EnqueueMma(w, work)
        \/ \E kind \in Kinds \ {"mma"} : EnqueueOther(w, kind)
        \/ commit(w)
        \/ \E s \in MemKinds : wait(w, s)
        \/ Exit(w)
        \/ \E busy \in BOOLEAN : Reclaim(w, busy)
    \/ \E retired \in SUBSET pipe, done \in SUBSET {c \in Slots : Exited(c, reclaimed)} :
            Cycle(retired, done)

\* The core clock keeps running.
Fairness == WF_vars(\E retired \in SUBSET pipe, done \in SUBSET {c \in Slots : Exited(c, reclaimed)} :
                        Cycle(retired, done))

Spec == Init /\ [][Next]_vars /\ Fairness

-----------------------------------------------------------------------------
(* Properties. *)

\* An arrival reaches an mbarrier, and a parked warp goes on, only when every operation
\* the commit or wait was about is complete, although operations of different kinds
\* complete out of order and commits overlap (resolve_controls).
CompletionsCover == \A o \in ops : o.seq > reached[o.w][StreamOf(o.kind)]

\* The slot of a CTA is reused while the unit works on: whatever the unit holds, the events
\* that cleanup_cta does not touch included, and the tensor memory belong to the present CTA.
NothingStale ==
    /\ \A x \in ops \cup waits \cup commits \cup events :
            SlotOf[x.w] \in live /\ x.gen = gen[SlotOf[x.w]]
    /\ \A c \in Slots \ live : tmem[c] = NoScope

\* A range of tensor memory is handed out once in the life of a CTA, so an access that
\* comes after its dealloc meets no other allocation (tmem.cc: "Keep retired ranges
\* addressable until CTA teardown").
RangesDisjoint ==
    \A c \in Slots : \A a, b \in tmem[c].allocations \cup tmem[c].retired :
        a # b => a.base + a.ncols <= b.base \/ b.base + b.ncols <= a.base

\* Every commit arrives and every wait ends, or their CTA does, under a running clock.
EveryControlEnds ==
    /\ \A w \in Warps : (\E x \in commits : x.w = w) ~> ~(\E x \in commits : x.w = w)
    /\ \A w \in Warps : w \in parked ~> w \notin parked
=============================================================================
