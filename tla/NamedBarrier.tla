---------------------------- MODULE NamedBarrier ----------------------------
(***************************************************************************)
(* Named barriers (bar.sync, bar.arrive): the part of barrier_set_t that   *)
(* counts arrivals and parks warps.  The barrier set is a record, and each *)
(* function of the code is an operator from one record to the next, so     *)
(* that handlers which call several of them can be composed.               *)
(*                                                                         *)
(* The warp <<c, i>> is the i-th of CTA slot c.  The sets of warps of the  *)
(* code span an SM and are always cut down to the warps of one CTA; here   *)
(* they span every slot.  bar_count is counted in warps: the code counts   *)
(* warp_size threads for each.                                             *)
(***************************************************************************)
EXTENDS Naturals, FiniteSets

CONSTANTS
    Slots,         \* CTA slots of the SMs of one cluster
    WarpsPerCta,
    Bars,          \* barrier ids
    NoBar,         \* a warp that is not parked at a named barrier
    WholeCta       \* the bar_count of an instruction that gives none

ASSUME NamedBarrierAssumption ==
    /\ IsFiniteSet(Slots)
    /\ WarpsPerCta \in Nat \ {0}
    /\ NoBar \notin Bars
    /\ WholeCta \notin Nat

Warps == Slots \X (1..WarpsPerCta)
WarpsOf(c) == {c} \X (1..WarpsPerCta)

\* active: m_warp_active; at: the barrier a warp is parked at (m_warp_at_barrier,
\* m_warp_barrier_type and m_warp_named_barrier_id); arrived: m_bar_id_to_warps;
\* count: m_bar_id_to_count, 0 when erased; releases: entries of
\* m_pending_warp_releases for each warp.
BarrierSets ==
    [active : SUBSET Warps, at : [Warps -> Bars \cup {NoBar}], arrived : [Bars -> SUBSET Warps],
     count : [Slots -> [Bars -> Nat]], releases : [Warps -> Nat]]

NoBarriers ==
    [active |-> {}, at |-> [w \in Warps |-> NoBar], arrived |-> [b \in Bars |-> {}],
     count |-> [c \in Slots |-> [b \in Bars |-> 0]], releases |-> [w \in Warps |-> 0]]

\* The arrivals, counts and parked warps of a CTA are forgotten.
ClearCta(s, c, active) ==
    [active |-> active,
     at |-> [w \in Warps |-> IF w \in WarpsOf(c) THEN NoBar ELSE s.at[w]],
     arrived |-> [b \in Bars |-> s.arrived[b] \ WarpsOf(c)],
     count |-> [s.count EXCEPT ![c] = [b \in Bars |-> 0]],
     releases |-> s.releases]

allocate_barrier(s, c) == ClearCta(s, c, s.active \cup WarpsOf(c))
deallocate_barrier(s, c) == ClearCta(s, c, s.active \ WarpsOf(c))

named_barrier_waiters(s, b, participants) == {w \in participants : s.at[w] = b}

\* A release takes gpgpu_barrier_release_latency cycles, if that is not 0.
clear_named_barrier_waiters(s, waiters, delayed) ==
    [active |-> s.active,
     at |-> [w \in Warps |-> IF w \in waiters /\ ~delayed THEN NoBar ELSE s.at[w]],
     arrived |-> s.arrived, count |-> s.count,
     releases |-> [w \in Warps |-> IF w \in waiters /\ delayed THEN s.releases[w] + 1
                                   ELSE s.releases[w]]]

\* The barriers bs of CTA c are complete: arrivals and counts are cleared and the
\* warps parked there are released.
Complete(s, c, bs, delayed) ==
    LET here(b) == s.arrived[b] \cap WarpsOf(c)
        waiters == UNION {named_barrier_waiters(s, b, here(b)) : b \in bs}
    IN  clear_named_barrier_waiters(
            [active |-> s.active, at |-> s.at,
             arrived |-> [b \in Bars |-> IF b \in bs THEN s.arrived[b] \ here(b) ELSE s.arrived[b]],
             count |-> [s.count EXCEPT ![c] = [b \in Bars |-> IF b \in bs THEN 0 ELSE @[b]]],
             releases |-> s.releases],
            waiters, delayed)

\* Every warp of the CTA that is still active has arrived.
AllActiveArrived(s, c, b) == s.arrived[b] \cap WarpsOf(c) = s.active \cap WarpsOf(c)

\* Mistaken variant of EnoughArrived: the last warp is not waited for.
EnoughArrivedOneShort(s, c, b, n) ==
    IF n = WholeCta THEN AllActiveArrived(s, c, b) ELSE s.count[c][b] + 1 >= n

EnoughArrived(s, c, b, n) == IF n = WholeCta THEN AllActiveArrived(s, c, b) ELSE s.count[c][b] >= n

\* Warp w reaches barrier b, which n warps complete; only "sync" parks.
warp_reaches_barrier(s, w, type, b, n, delayed) ==
    LET c == w[1]
        t == [active |-> s.active,
              at |-> IF type = "sync" THEN [s.at EXCEPT ![w] = b] ELSE s.at,
              arrived |-> [s.arrived EXCEPT ![b] = @ \cup {w}],
              count |-> IF n = WholeCta THEN s.count ELSE [s.count EXCEPT ![c][b] = @ + 1],
              releases |-> s.releases]
    IN  IF EnoughArrived(t, c, b, n) THEN Complete(t, c, {b}, delayed) ELSE t

\* Mistaken variant of warp_exit: nobody is released by an exit.
exit_releases_nobody(s, w, delayed) == [s EXCEPT !.active = @ \ {w}, !.at[w] = NoBar]

\* A warp leaves the participants, which may complete barriers of either kind.
warp_exit(s, w, delayed) ==
    LET t == [active |-> s.active \ {w}, at |-> [s.at EXCEPT ![w] = NoBar],
              arrived |-> s.arrived, count |-> s.count, releases |-> s.releases]
    IN  Complete(t, w[1], {b \in Bars : AllActiveArrived(t, w[1], b)}, delayed)

\* Mistaken variant of ReleaseDue: the entry stays in the list.
ReleaseDueAgain(s, w) == [s EXCEPT !.at[w] = NoBar]

\* barrier_set_t::cycle: a delayed release is due.
ReleaseDue(s, w) ==
    [active |-> s.active, at |-> [s.at EXCEPT ![w] = NoBar], arrived |-> s.arrived,
     count |-> s.count, releases |-> [s.releases EXCEPT ![w] = @ - 1]]
=============================================================================
