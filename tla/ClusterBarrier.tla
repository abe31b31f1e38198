--------------------------- MODULE ClusterBarrier ---------------------------
(***************************************************************************)
(* barrier.cluster.arrive and wait of simt_core_cluster: each warp has the *)
(* number of phases it has arrived at and the number it has completed;     *)
(* waiters of a cluster group are released together.  As in NamedBarrier,  *)
(* the state is a record and the functions of the code map it to the next. *)
(*                                                                         *)
(* A warp without an entry in m_cluster_bar_phase is one with two zeros,   *)
(* as every read of the map treats it so.  A warp is parked at the cluster *)
(* barrier exactly while it is in the list of waiters.                     *)
(***************************************************************************)
EXTENDS NamedBarrier, Sequences, SequencesExt

CONSTANT Groups   \* identifiers of cluster groups

\* phase: m_cluster_bar_phase; waiters: m_cluster_barrier_waiters.
NoPhase == [arrived |-> 0, completed |-> 0]
NoClusterBarrier ==
    [phase |-> [w \in Warps |-> NoPhase], waiters |-> [g \in Groups |-> <<>>]]
ClusterBarriers ==
    [phase : [Warps -> [arrived : Nat, completed : Nat]], waiters : [Groups -> Seq(Warps)]]

\* The k-th position of a set of positions, and the list l without the members of R.
Kth(S, k) == CHOOSE i \in S : Cardinality({j \in S : j <= i}) = k
Without(l, R) ==
    LET kept == {i \in DOMAIN l : l[i] \notin R}
    IN  [k \in 1..Cardinality(kept) |-> l[Kth(kept, k)]]

Waiting(x, w) == \E g \in Groups : w \in Range(x.waiters[g])
\* What a waiter asks of every warp of the group.
Required(x, w) == x.phase[w].completed + 1

\* Mistaken variant of Expected: CTAs that are not issued yet are forgotten.
ExpectedLiveOnly(x, g, live, unissued) == Cardinality(live[g])

\* Warps that must have arrived: the live ones and, while CTAs of the group are
\* not issued, as many for each of them as the first waiter's CTA has.
Expected(x, g, live, unissued) ==
    Cardinality(live[g])
        + unissued[g] * Cardinality({w \in live[g] : w[1] = Head(x.waiters[g])[1]})

\* The waiters of group g that leave now; none while a waiter's CTA has
\* DSM operations outstanding.
ReadyWaiters(x, g, live, unissued, busy) ==
    {w \in Range(x.waiters[g]) :
        /\ Expected(x, g, live, unissued) > 0
        /\ \A v \in Range(x.waiters[g]) : v[1] \notin busy
        /\ Cardinality({v \in live[g] : x.phase[v].arrived >= Required(x, w)})
               >= Expected(x, g, live, unissued)}

\* live, unissued: live warps and missing CTAs of each group; busy: slots with DSM
\* operations outstanding.  Only a warp that leaves completes its phase.
release_ready_cluster_barriers(x, live, unissued, busy) ==
    LET ready == UNION {ReadyWaiters(x, g, live, unissued, busy) : g \in Groups}
    IN  [phase |-> [w \in Warps |->
                      IF w \in ready /\ x.phase[w].arrived >= Required(x, w)
                      THEN [arrived |-> x.phase[w].arrived, completed |-> Required(x, w)]
                      ELSE x.phase[w]],
         waiters |-> [g \in Groups |-> Without(x.waiters[g], ready)]]

\* A second arrive in a phase changes nothing.
Arrive(x, w) ==
    IF x.phase[w].arrived = x.phase[w].completed
    THEN [phase |-> [x.phase EXCEPT ![w] = [arrived |-> @.completed + 1, completed |-> @.completed]],
          waiters |-> x.waiters]
    ELSE x

\* The warp parks; it is listed once.
Wait(x, w, g) ==
    IF w \in Range(x.waiters[g]) THEN x
    ELSE [phase |-> x.phase, waiters |-> [x.waiters EXCEPT ![g] = Append(@, w)]]

\* A warp that exits leaves neither a phase nor a waiter behind.
Forget(x, w) ==
    [phase |-> [x.phase EXCEPT ![w] = NoPhase],
     waiters |-> [g \in Groups |-> Without(x.waiters[g], {w})]]
=============================================================================
