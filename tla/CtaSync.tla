------------------------------ MODULE CtaSync ------------------------------
(***************************************************************************)
(* How the warps of CTAs and of thread-block clusters synchronise: named   *)
(* barriers and the cluster barrier together with what decides when they   *)
(* may be used and when they complete: shared-memory stores that are not   *)
(* visible yet, bar.arrive that is delivered late, DSM operations in       *)
(* flight, warps that exit, and CTA slots that are issued, held for their  *)
(* peers, released and used again.                                         *)
(*                                                                         *)
(* A kernel is the list of instructions each warp runs; instructions that  *)
(* touch none of this state are left out.  A count of cycles is a step     *)
(* that comes later.  The arrive latency of a warp, the hang watchdog and  *)
(* the bulk copies that also hold a CTA are left out.                      *)
(***************************************************************************)
EXTENDS ClusterBarrier

CONSTANTS
    Kernels,   \* see KernelsAssumption
    Free       \* a slot without a CTA

Instructions ==
    [op : {"store", "rstore", "rload", "carrive", "cwait"}]
        \cup [op : {"sync", "arrive"}, bar : Bars, count : Nat \cup {WholeCta}]

\* clustered: a cluster launch, whose groups have several CTAs; groups[g][r][i]: the
\* instructions of warp i of the CTA of rank r in group g; releaseLatency,
\* arriveLatency: whether releases and bar.arrive take time.
ASSUME KernelsAssumption ==
    \A k \in Kernels :
        /\ {k.clustered, k.releaseLatency, k.arriveLatency} \subseteq BOOLEAN
        /\ k.groups \in Seq(Seq([1..WarpsPerCta -> Seq(Instructions)]))
        /\ DOMAIN k.groups \subseteq Groups
        /\ \A g \in DOMAIN k.groups : k.clustered \/ Len(k.groups[g]) = 1
ASSUME FreeAssumption == Free \notin [g : Groups, r : Nat]

VARIABLES
    kernel,          \* the kernel that runs, fixed
    cta,             \* group and rank of the CTA in each slot, or Free
    threads,         \* the slots whose CTA has threads (m_cta_status > 0)
    issued,          \* m_tb_cluster_group_issued
    pc,              \* the next instruction of each warp; 0 once it has exited
    reclaimed,       \* warps whose exit the CTA has counted (done_exit)
    named,           \* the barrier set, see NamedBarrier
    named_arrivals,  \* m_named_arrivals
    stores, hidden,  \* each warp's shared stores that are not complete, and those
                     \* that are complete and not visible
    dsm,             \* DSM operations outstanding of each warp
    cluster          \* the cluster barrier, see ClusterBarrier

vars == <<kernel, cta, threads, issued, pc, reclaimed, named, named_arrivals, stores, hidden, dsm,
          cluster>>
storeVars == <<stores, hidden>>
ctaVars == <<cta, threads, issued, reclaimed>>

Init ==
    /\ kernel \in Kernels
    /\ cta = [c \in Slots |-> Free] /\ threads = {}
    /\ issued = [g \in Groups |-> 0]
    /\ pc = [w \in Warps |-> 0] /\ reclaimed = Warps
    /\ named = NoBarriers /\ named_arrivals = <<>>
    /\ stores = [w \in Warps |-> {}] /\ hidden = [w \in Warps |-> {}]
    /\ dsm = [w \in Warps |-> 0]
    /\ cluster = NoClusterBarrier

Code(w) == LET x == cta[w[1]] IN kernel.groups[x.g][x.r][w[2]]
Parked(w) == named.at[w] # NoBar \/ Waiting(cluster, w)
CtaSize(g) == Len(kernel.groups[g])

dsm_cta_busy(c) == \E w \in WarpsOf(c) : dsm[w] > 0
\* Live warps of each group: the active ones of slots whose CTA has threads.
Live(s, ts) == [g \in Groups |-> {w \in s.active : w[1] \in ts /\ cta[w[1]].g = g}]
Unissued ==
    [g \in Groups |-> IF kernel.clustered /\ g \in DOMAIN kernel.groups
                      THEN CtaSize(g) - issued[g] ELSE 0]
\* The cluster barrier x after its waiters were looked at, given the barrier set s,
\* the slots ts with threads and the slots with DSM operations outstanding.
Rechecked(x, s, ts, busy) == release_ready_cluster_barriers(x, Live(s, ts), Unissued, busy)
Busy == {c \in Slots : dsm_cta_busy(c)}

-----------------------------------------------------------------------------
(* CTAs are issued, and released when their threads have exited. *)

\* The next CTA: of the open group, or the first of the next group, for which
\* there must be room as a whole.
NextGroup == {g \in DOMAIN kernel.groups :
                 issued[g] < CtaSize(g) /\ \A h \in 1..(g - 1) : issued[h] = CtaSize(h)}
issue_block2core(c) ==
    \E g \in NextGroup :
        /\ cta[c] = Free
        /\ issued[g] = 0 => Cardinality({d \in Slots : cta[d] = Free}) >= CtaSize(g)
        /\ cta' = [cta EXCEPT ![c] = [g |-> g, r |-> issued[g] + 1]]
        /\ issued' = [issued EXCEPT ![g] = @ + 1]
        /\ threads' = threads \cup {c}
        /\ pc' = [w \in Warps |-> IF w[1] = c THEN 1 ELSE pc[w]]
        /\ reclaimed' = reclaimed \ WarpsOf(c)
        /\ hidden' = [w \in Warps |-> IF w[1] = c THEN {} ELSE hidden[w]]
        /\ named' = allocate_barrier(named, c)
        /\ UNCHANGED <<kernel, named_arrivals, stores, dsm, cluster>>

\* Another CTA of the slot's group has threads; only cluster launches look.
tb_cluster_group_has_live_threads(c, ts) ==
    kernel.clustered /\ \E d \in ts \ {c} : cta[d].g = cta[c].g

\* A warp with no more instructions and nothing in the pipeline.
hardware_done(w) ==
    /\ cta[w[1]] # Free /\ pc[w] = 0
    /\ stores[w] = {} /\ dsm[w] = 0
    /\ ~\E i \in DOMAIN named_arrivals : named_arrivals[i].w = w

\* The slot is given back.
Released(c) ==
    /\ cta' = [cta EXCEPT ![c] = Free]
    /\ named' = deallocate_barrier(named, c)

\* The exit of a warp's threads is counted; the last one releases the CTA or leaves it
\* to wait for DSM operations and for the other CTAs of its cluster.
register_cta_thread_exit(w) ==
    LET c == w[1]
        last == WarpsOf(c) \ {w} \subseteq reclaimed
        ts == threads \ {c}
    IN  /\ hardware_done(w) /\ w \notin reclaimed
        /\ reclaimed' = reclaimed \cup {w}
        /\ IF last
           THEN /\ threads' = ts
                /\ IF dsm_cta_busy(c) \/ tb_cluster_group_has_live_threads(c, ts)
                   THEN UNCHANGED <<cta, named>>
                   ELSE Released(c)
                /\ cluster' = Rechecked(cluster, named, ts, Busy)
           ELSE UNCHANGED <<threads, cta, named, cluster>>
        /\ UNCHANGED <<kernel, issued, pc, named_arrivals, storeVars, dsm>>

release_pending_tma_ctas(c) ==
    /\ cta[c] # Free /\ c \notin threads
    /\ ~dsm_cta_busy(c) /\ ~tb_cluster_group_has_live_threads(c, threads)
    /\ Released(c)
    /\ UNCHANGED <<kernel, threads, issued, pc, reclaimed, named_arrivals, storeVars, dsm, cluster>>

-----------------------------------------------------------------------------
(* Warps issue instructions. *)

\* Barrier instructions keep the order of a warp's stores and arrivals.
named_barrier_issue_ready(w) ==
    /\ stores[w] = {} /\ hidden[w] = {}
    /\ ~\E i \in DOMAIN named_arrivals : named_arrivals[i].w = w

\* Warp w can issue an instruction of the kinds ops.
Issues(w, ops) ==
    /\ pc[w] > 0 /\ ~Parked(w)
    /\ pc[w] <= Len(Code(w)) /\ Code(w)[pc[w]].op \in ops
    /\ pc' = [pc EXCEPT ![w] = @ + 1]

\* A store to shared memory, of this SM or through DSM.
IssueStore(w) ==
    /\ Issues(w, {"store", "rstore"})
    /\ stores' = [stores EXCEPT ![w] = @ \cup {pc[w]}]
    /\ dsm' = [dsm EXCEPT ![w] = @ + IF Code(w)[pc[w]].op = "rstore" THEN 1 ELSE 0]
    /\ UNCHANGED <<kernel, ctaVars, named, named_arrivals, hidden, cluster>>

IssueRemoteLoad(w) ==
    /\ Issues(w, {"rload"})
    /\ dsm' = [dsm EXCEPT ![w] = @ + 1]
    /\ UNCHANGED <<kernel, ctaVars, named, named_arrivals, storeVars, cluster>>

IssueSync(w) ==
    /\ Issues(w, {"sync"}) /\ named_barrier_issue_ready(w)
    /\ LET i == Code(w)[pc[w]]
       IN  named' = warp_reaches_barrier(named, w, "sync", i.bar, i.count, kernel.releaseLatency)
    /\ UNCHANGED <<kernel, ctaVars, named_arrivals, storeVars, dsm, cluster>>

\* bar.arrive reaches the barrier at once or is delivered later.
issue_named_arrival(w) ==
    /\ Issues(w, {"arrive"}) /\ named_barrier_issue_ready(w)
    /\ LET i == Code(w)[pc[w]]
       IN  IF kernel.arriveLatency
           THEN /\ named_arrivals' = Append(named_arrivals, [w |-> w, bar |-> i.bar, count |-> i.count])
                /\ UNCHANGED named
           ELSE /\ named' = warp_reaches_barrier(named, w, "arrive", i.bar, i.count,
                                                 kernel.releaseLatency)
                /\ UNCHANGED named_arrivals
    /\ UNCHANGED <<kernel, ctaVars, storeVars, dsm, cluster>>

cluster_barrier_arrive(w) ==
    /\ Issues(w, {"carrive"}) /\ named_barrier_issue_ready(w)
    /\ cluster' = Rechecked(Arrive(cluster, w), named, threads, Busy)
    /\ UNCHANGED <<kernel, ctaVars, named, named_arrivals, storeVars, dsm>>

cluster_barrier_wait(w) ==
    /\ Issues(w, {"cwait"}) /\ named_barrier_issue_ready(w)
    /\ cluster' = Rechecked(Wait(cluster, w, cta[w[1]].g), named, threads, Busy)
    /\ UNCHANGED <<kernel, ctaVars, named, named_arrivals, storeVars, dsm>>

\* shader_core_ctx::warp_exit for a barrier set s: the warp leaves the named barriers,
\* then the cluster barrier.
LeavesBarriers(s, w) ==
    LET t == warp_exit(s, w, kernel.releaseLatency)
    IN  /\ named' = t
        /\ cluster' = Rechecked(Forget(cluster, w), t, threads, Busy)

\* The last threads of a warp exit; while a bar.arrive of the warp is not delivered it
\* stays a participant.
Exit(w) ==
    /\ pc[w] > 0 /\ ~Parked(w) /\ pc[w] > Len(Code(w))
    /\ pc' = [pc EXCEPT ![w] = 0]
    /\ IF \E i \in DOMAIN named_arrivals : named_arrivals[i].w = w
       THEN UNCHANGED <<named, cluster>>
       ELSE LeavesBarriers(named, w)
    /\ UNCHANGED <<kernel, ctaVars, named_arrivals, storeVars, dsm>>

-----------------------------------------------------------------------------
(* What instructions leave behind completes. *)

\* The oldest bar.arrive is delivered; the exit of its warp may have waited for it.
process_named_arrivals ==
    /\ named_arrivals # <<>>
    /\ LET e == Head(named_arrivals)
           s == warp_reaches_barrier(named, e.w, "arrive", e.bar, e.count, kernel.releaseLatency)
       IN  IF pc[e.w] = 0 /\ ~\E i \in 2..Len(named_arrivals) : named_arrivals[i].w = e.w
           THEN LeavesBarriers(s, e.w)
           ELSE named' = s /\ UNCHANGED cluster
    /\ named_arrivals' = Tail(named_arrivals)
    /\ UNCHANGED <<kernel, ctaVars, pc, storeVars, dsm>>

\* A parked warp whose release was delayed goes on.
DelayedRelease(w) ==
    /\ named.releases[w] > 0
    /\ named' = ReleaseDue(named, w)
    /\ UNCHANGED <<kernel, ctaVars, pc, named_arrivals, storeVars, dsm, cluster>>

\* A store leaves the pipeline; a remote one only when its warp has no DSM
\* operation outstanding.
complete_shared_store(w, i) ==
    /\ i \in stores[w]
    /\ Code(w)[i].op = "rstore" => dsm[w] = 0
    /\ stores' = [stores EXCEPT ![w] = @ \ {i}]
    /\ hidden' = [hidden EXCEPT ![w] = @ \cup {i}]
    /\ UNCHANGED <<kernel, ctaVars, pc, named, named_arrivals, dsm, cluster>>

\* gpgpu_smem_store_visibility_latency has passed since the last completion.
StoresVisible(w) ==
    /\ hidden[w] # {}
    /\ hidden' = [hidden EXCEPT ![w] = {}]
    /\ UNCHANGED <<kernel, ctaVars, pc, named, named_arrivals, stores, dsm, cluster>>

dsm_on_tx_done(w) ==
    /\ dsm[w] > 0
    /\ dsm' = [dsm EXCEPT ![w] = @ - 1]
    /\ LET busy == {c \in Slots : \E v \in WarpsOf(c) : dsm'[v] > 0}
       IN  cluster' = Rechecked(cluster, named, threads, busy)
    /\ UNCHANGED <<kernel, ctaVars, pc, named, named_arrivals, storeVars>>

-----------------------------------------------------------------------------

Next ==
    \/ process_named_arrivals
    \/ \E c \in Slots : issue_block2core(c) \/ release_pending_tma_ctas(c)
    \/ \E w \in Warps :
          \/ IssueStore(w) \/ IssueRemoteLoad(w) \/ IssueSync(w) \/ issue_named_arrival(w)
          \/ cluster_barrier_arrive(w) \/ cluster_barrier_wait(w) \/ Exit(w)
          \/ DelayedRelease(w) \/ StoresVisible(w) \/ dsm_on_tx_done(w)
          \/ register_cta_thread_exit(w)
          \/ \E i \in stores[w] : complete_shared_store(w, i)

\* The simulation goes on as long as something can happen: gpgpu_sim::cycle steps every
\* SM, and a kernel of this module takes finitely many steps.
Spec == Init /\ [][Next]_vars /\ WF_vars(Next)

-----------------------------------------------------------------------------
(* Properties. *)

\* The CTA slots, the barrier set and the cluster barrier are well formed, a slot with
\* threads has a CTA of the kernel, and a warp's phases differ by at most one.
Arrivals == [w : Warps, bar : Bars, count : Nat \cup {WholeCta}]
TypeOK ==
    /\ kernel \in Kernels
    /\ cta \in [Slots -> [g : Groups, r : Nat] \cup {Free}]
    /\ threads \subseteq Slots
    /\ \A c \in Slots : cta[c] # Free => /\ cta[c].g \in DOMAIN kernel.groups
                                        /\ cta[c].r \in DOMAIN kernel.groups[cta[c].g]
    /\ \A c \in threads : cta[c] # Free
    /\ issued \in [Groups -> Nat]
    /\ pc \in [Warps -> Nat] /\ reclaimed \subseteq Warps
    /\ named \in BarrierSets /\ named_arrivals \in Seq(Arrivals)
    /\ stores \in [Warps -> SUBSET Nat] /\ hidden \in [Warps -> SUBSET Nat]
    /\ dsm \in [Warps -> Nat]
    /\ cluster \in ClusterBarriers
    /\ \A w \in Warps : cluster.phase[w].arrived \in
                          {cluster.phase[w].completed, cluster.phase[w].completed + 1}

\* Positions in warp w's instructions that use barrier b, and how many of them before
\* its pc took effect; a bar.arrive that is not delivered did not.
Running(w) == cta[w[1]] # Free /\ w[1] \in threads
Executed(w) == IF pc[w] = 0 THEN DOMAIN Code(w) ELSE 1..(pc[w] - 1)
Uses(w, b) == {i \in DOMAIN Code(w) : Code(w)[i].op \in {"sync", "arrive"} /\ Code(w)[i].bar = b}
Reached(w, b) ==
    Cardinality(Uses(w, b) \cap Executed(w))
        - Cardinality({i \in DOMAIN named_arrivals :
                          named_arrivals[i].w = w /\ named_arrivals[i].bar = b})
\* bar.sync separates: a warp that has passed its k-th use of a named barrier finds
\* that every warp of its CTA with a k-th use has reached it, and
\* that the stores that warp issued before it are complete and visible.
BarrierSeparates ==
    \A w \in Warps : \A b \in Bars :
        Running(w) =>
            \A k \in 1..(Reached(w, b) - IF named.at[w] = b THEN 1 ELSE 0) :
                Code(w)[Kth(Uses(w, b), k)].op = "sync" =>
                    \A v \in WarpsOf(w[1]) :
                        Cardinality(Uses(v, b)) >= k =>
                            /\ Reached(v, b) >= k
                            /\ \A i \in stores[v] \cup hidden[v] : i > Kth(Uses(v, b), k)

\* How kernels use named barriers: in a CTA each barrier is used either with bar.sync of
\* the whole CTA or with the count of the warps that use it.
UsesIn(code, b) == {i \in DOMAIN code : code[i].op \in {"sync", "arrive"} /\ code[i].bar = b}
UsersIn(code, b) == {j \in 1..WarpsPerCta : UsesIn(code[j], b) # {}}
UsedOneWay(code, b) ==
    \/ \A j \in 1..WarpsPerCta : \A i \in UsesIn(code[j], b) :
          code[j][i].op = "sync" /\ code[j][i].count = WholeCta
    \/ \A j \in 1..WarpsPerCta : \A i \in UsesIn(code[j], b) :
          code[j][i].count = Cardinality(UsersIn(code, b))
KernelsWellFormed ==
    \A k \in Kernels : \A g \in DOMAIN k.groups : \A r \in DOMAIN k.groups[g] : \A b \in Bars :
        UsedOneWay(k.groups[g][r], b)

\* A warp comes to a barrier only when its last arrival there has been consumed; it does
\* in a kernel in which its bar.arrive at a barrier is its last use of it.
TakesTurns ==
    \A w \in Warps : \A b \in Bars :
        w \in named.arrived[b] /\ pc[w] > 0 /\ ~Parked(w) => pc[w] \notin Uses(w, b)
LastArrives(k) ==
    \A g \in DOMAIN k.groups : \A r \in DOMAIN k.groups[g] : \A j \in 1..WarpsPerCta :
        \A b \in Bars : \A p, q \in UsesIn(k.groups[g][r][j], b) :
            k.groups[g][r][j][p].op = "arrive" => q <= p
ArrivesLast == \A k \in Kernels : LastArrives(k)

\* A delayed release finds its warp parked at bar.sync, and only one is under way
\* for it, so that it can not free the warp from its next barrier
\* (clear_warp_waiting asserts the first half); and a CTA that is released has no
\* warp parked, active or owed an arrival (deallocate_barrier asserts the first two).
ReleasesJustified ==
    /\ \A w \in Warps : /\ named.releases[w] <= 1
                        /\ named.releases[w] = 1 => named.at[w] # NoBar
    /\ \A w \in Warps : w[1] \notin threads =>
          /\ ~Parked(w) /\ w \notin named.active
          /\ ~\E i \in DOMAIN named_arrivals : named_arrivals[i].w = w

\* The cluster barrier separates: a warp that has passed its k-th wait finds that every
\* CTA of its group is issued and that every warp of the group has arrived k times
\* or exited, with the stores before that arrive complete.
Arrives(w) == {i \in DOMAIN Code(w) : Code(w)[i].op = "carrive"}
Waits(w) == {i \in DOMAIN Code(w) : Code(w)[i].op = "cwait"}
ClusterSeparates ==
    \A w \in Warps :
        Running(w) =>
            \A k \in 1..(Cardinality(Waits(w) \cap Executed(w))
                            - IF Waiting(cluster, w) THEN 1 ELSE 0) :
                /\ issued[cta[w[1]].g] = CtaSize(cta[w[1]].g)
                /\ \A v \in Warps :
                      Running(v) /\ cta[v[1]].g = cta[w[1]].g /\ pc[v] > 0 =>
                          /\ Cardinality(Arrives(v) \cap Executed(v)) >= k
                          /\ \A i \in stores[v] \cup hidden[v] : i > Kth(Arrives(v), k)

\* Every CTA is issued, runs to its end and is released: no release is lost and no
\* phase is left over for the next CTA of a slot.
Finished == /\ \A c \in Slots : cta[c] = Free
            /\ \A g \in DOMAIN kernel.groups : issued[g] = CtaSize(g)
EveryCtaFinishes == <>Finished
=============================================================================
