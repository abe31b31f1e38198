------------------------------ MODULE CpAsync ------------------------------
(***************************************************************************)
(* Ordinary cp.async of the TMA unit: copies are split into transactions,  *)
(* one read request each, that wait in a queue, are sent while fewer than  *)
(* gpgpu_cp_async_max_inflight are out, and are answered in any order and  *)
(* in parts.  Each warp has a ledger of uncommitted transactions and       *)
(* committed groups; wait_group parks a warp until few enough groups are   *)
(* pending, and cp.async.mbarrier.arrive arrives once the copies a lane    *)
(* issued before it are done.                                              *)
(*                                                                         *)
(* The warp <<c, i>> is the i-th of CTA slot c.  The request width of the  *)
(* queue is one transaction a step.                                        *)
(***************************************************************************)
EXTENDS Naturals, Sequences, FiniteSets, SequencesExt

CONSTANTS
    Slots, WarpsPerCta,
    Lanes,
    MaxInflight,     \* gpgpu_cp_async_max_inflight, 0 for no limit
    MaxTx, MaxMarks, \* bounds: transactions and arrivals of one behaviour
    Setups           \* see CpAsyncAssumption

\* idealized: gpgpu_cp_async_idealized_memory; parts: responses of a request; and bounds on
\* the warps of a CTA, the transactions, groups of a warp, arrivals and CTAs.
ASSUME CpAsyncAssumption ==
    /\ WarpsPerCta \in Nat \ {0}
    /\ IsFiniteSet(Lanes)
    /\ {MaxInflight, MaxTx, MaxMarks} \subseteq Nat
    /\ Setups \subseteq [idealized : BOOLEAN, parts : Nat \ {0}, warps : 1..WarpsPerCta,
                         txs : 0..MaxTx, groups : Nat, marks : 0..MaxMarks, ctas : Nat]

Warps == Slots \X (1..WarpsPerCta)
WarpsOf(c) == {c} \X (1..WarpsPerCta)
Marks == 1..MaxMarks

VARIABLES
    setup,       \* fixed
    tx,          \* m_cp_transactions, a partial function: warp, lanes, parts to come
    queue,       \* m_cp_issue_queue
    inflight,    \* m_cp_mf_inflight
    info,        \* m_cp_group_info: the ledger of each warp
    arrivals,    \* m_cp_mbarrier_arrivals, a partial function of uids
    waiting,     \* warps parked with BARRIER_WAIT_CP_ASYNC_GROUP
    releases,    \* those whose delayed release is under way
    live,        \* slots with a CTA
    running,     \* warps that have not exited
    ctas,        \* CTAs issued so far
    nextTx, nextMark,
    allowance,   \* the number of groups a parked warp's wait allows (wait_allowance)
    before,      \* history: the copies of its lane and warp before each arrive
    delivered    \* history: how often each arrive reached its mbarrier

vars == <<setup, tx, queue, inflight, info, arrivals, waiting, releases, live, running, ctas,
          nextTx, nextMark, allowance, before, delivered>>
ctaVars == <<live, running, ctas>>
markVars == <<nextMark, before>>
waitVars == <<allowance, markVars>>

\* groups: the committed groups with a transaction that is not done, by number; an
\* absent entry of the map reads as an empty ledger.
NoInfo == [next |-> 1, open |-> {}, groups |-> [g \in {} |-> {}], isWaiting |-> FALSE]

Init ==
    /\ setup \in Setups
    /\ tx = [t \in {} |-> 0] /\ queue = <<>> /\ inflight = 0
    /\ info = [w \in Warps |-> NoInfo]
    /\ arrivals = [a \in {} |-> {}]
    /\ waiting = {} /\ releases = {}
    /\ live = {} /\ running = {} /\ ctas = 0
    /\ nextTx = 1 /\ nextMark = 1
    /\ allowance = [w \in Warps |-> 0]
    /\ before = [a \in Marks |-> {}]
    /\ delivered = [a \in Marks |-> 0]

Without(f, S) == [x \in DOMAIN f \ S |-> f[x]]
CanIssue(w) == w \in running /\ w \notin waiting

-----------------------------------------------------------------------------
(* The ledger. *)

\* The ledger after transaction t is done.
Ledger(i, t) ==
    LET own == {g \in DOMAIN i.groups : t \in i.groups[g]}
        shrunk == [g \in DOMAIN i.groups |-> i.groups[g] \ {t}]
    IN  [i EXCEPT !.open = @ \ {t},
                  !.groups = Without(shrunk, {g \in own : shrunk[g] = {}})]

\* Mistaken variant of Satisfied: the group being awaited may stay pending.
SatisfiedOneMore(i, n) == Cardinality(DOMAIN i.groups) <= n + 1

Satisfied(i, n) == Cardinality(DOMAIN i.groups) <= n

\* complete_tx, which may end a wait that allows n groups.
complete_tx(i, t, n) ==
    LET j == Ledger(i, t) IN IF i.isWaiting /\ Satisfied(j, n)
                             THEN [j EXCEPT !.isWaiting = FALSE] ELSE j

\* release_cp_async_warp, with a latency: the release is scheduled.
release_cp_async_warp(ws) == releases' = releases \cup ws

\* Mistaken variant of ArrivesNow: an arrive may come with the first copy done.
ArrivesEarly(ts, t) == t \in ts
ArrivesNow(ts, t) == ts = {t}

\* Transaction t is done: its ledger, its warp and the arrivals that depend on it.
finalize_cp_async_transaction(t) ==
    LET w == tx[t].w
        j == complete_tx(info[w], t, allowance[w])
        ready == {a \in DOMAIN arrivals : ArrivesNow(arrivals[a], t)}
    IN  /\ info' = [info EXCEPT ![w] = j]
        /\ release_cp_async_warp(IF info[w].isWaiting /\ ~j.isWaiting THEN {w} ELSE {})
        /\ arrivals' = Without([a \in DOMAIN arrivals |-> arrivals[a] \ {t}], ready)
        /\ delivered' = [a \in Marks |-> delivered[a] + IF a \in ready THEN 1 ELSE 0]
        /\ tx' = Without(tx, {t})

-----------------------------------------------------------------------------
(* Instructions. *)

\* How the lanes of a copy fall into read requests: one for all or one for each.
Coalesced == {{Lanes}, {{l} : l \in Lanes}}

\* A copy; with idealized memory each transaction is done at once.
warp_reaches_cp_async(w) ==
    \E accesses \in Coalesced :
        LET new == nextTx..(nextTx + Cardinality(accesses) - 1)
            seq == SetToSeq(accesses)
            added == [info EXCEPT ![w].open = @ \cup new]
        IN  /\ CanIssue(w) /\ new \subseteq 1..setup.txs
            /\ nextTx' = nextTx + Cardinality(accesses)
            /\ IF setup.idealized
               THEN UNCHANGED <<tx, info, queue>>
               ELSE /\ info' = added
                    /\ tx' = [t \in DOMAIN tx \cup new |->
                                IF t \in new
                                THEN [w |-> w, lanes |-> seq[t - nextTx + 1], parts |-> setup.parts]
                                ELSE tx[t]]
                    /\ queue' = queue \o [i \in 1..Cardinality(new) |-> nextTx + i - 1]
            /\ UNCHANGED <<setup, inflight, arrivals, waiting, releases, ctaVars, waitVars,
                           delivered>>

commit_cp_async_group(w) ==
    LET i == info[w]
        committed == IF i.open = {} THEN i.groups
                     ELSE [g \in DOMAIN i.groups \cup {i.next} |->
                             IF g = i.next THEN i.open ELSE i.groups[g]]
    IN
    /\ CanIssue(w) /\ i.next <= setup.groups
    /\ info' = [info EXCEPT ![w] = [next |-> i.next + 1, open |-> {}, groups |-> committed,
                                    isWaiting |-> i.isWaiting]]
    /\ UNCHANGED <<setup, tx, queue, inflight, arrivals, waiting, releases, ctaVars, nextTx,
                   waitVars, delivered>>

\* The warp parks in any case; it is released at once if few enough groups are pending.
wait_cp_async_group(w, n) ==
    /\ CanIssue(w)
    /\ waiting' = waiting \cup {w}
    /\ allowance' = [allowance EXCEPT ![w] = n]
    /\ IF Satisfied(info[w], n)
       THEN release_cp_async_warp({w}) /\ UNCHANGED info
       ELSE /\ info' = [info EXCEPT ![w].isWaiting = TRUE]
            /\ UNCHANGED releases
    /\ UNCHANGED <<setup, tx, queue, inflight, arrivals, ctaVars, nextTx, markVars, delivered>>

\* The mbarrier expects an arrival of each of the lanes; it comes when the transactions
\* of the lane are done, at once if there are none.
warp_reaches_cp_async_mbarrier_arrive(w, lanes) ==
    LET seq == SetToSeq(lanes)
        uid(l) == nextMark + (CHOOSE i \in DOMAIN seq : seq[i] = l) - 1
        pend(l) == {t \in DOMAIN tx : tx[t].w = w /\ l \in tx[t].lanes}
        late == {l \in lanes : pend(l) # {}}
        laneOf(a) == seq[a - nextMark + 1]
        new == nextMark..(nextMark + Cardinality(lanes) - 1)
    IN  /\ CanIssue(w) /\ new \subseteq 1..setup.marks
        /\ nextMark' = nextMark + Cardinality(lanes)
        /\ before' = [a \in Marks |-> IF a \in new THEN pend(laneOf(a)) ELSE before[a]]
        /\ arrivals' = [a \in DOMAIN arrivals \cup {uid(l) : l \in late} |->
                          IF a \in new THEN pend(laneOf(a)) ELSE arrivals[a]]
        /\ delivered' = [a \in Marks |->
                           delivered[a] + IF a \in new /\ laneOf(a) \notin late THEN 1 ELSE 0]
        /\ UNCHANGED <<setup, tx, queue, inflight, info, waiting, releases, ctaVars, nextTx,
                       allowance>>

\* barrier_set_t::cycle: the delayed release of a parked warp is due.
DelayedRelease(w) ==
    /\ w \in releases
    /\ releases' = releases \ {w} /\ waiting' = waiting \ {w}
    /\ allowance' = [allowance EXCEPT ![w] = 0]
    /\ UNCHANGED <<setup, tx, queue, inflight, info, arrivals, ctaVars, nextTx, markVars,
                   delivered>>

-----------------------------------------------------------------------------
(* Memory. *)

\* Mistaken variant of HasRoom: the whole queue has to fit.
HasRoomForAll == MaxInflight = 0 \/ inflight + Len(queue) <= MaxInflight

HasRoom == MaxInflight = 0 \/ inflight < MaxInflight

issue_cp_async_requests ==
    /\ queue # <<>> /\ HasRoom
    /\ queue' = Tail(queue) /\ inflight' = inflight + 1
    /\ UNCHANGED <<setup, tx, info, arrivals, waiting, releases, ctaVars, nextTx, waitVars,
                   delivered>>

\* A part of a request is answered; the last part completes request and transaction.
process_cp_async_response(t) ==
    /\ t \in DOMAIN tx /\ t \notin Range(queue)
    /\ IF tx[t].parts = 1
       THEN finalize_cp_async_transaction(t) /\ inflight' = inflight - 1
       ELSE /\ tx' = [tx EXCEPT ![t].parts = @ - 1]
            /\ UNCHANGED <<info, releases, arrivals, delivered, inflight>>
    /\ UNCHANGED <<setup, queue, waiting, ctaVars, nextTx, waitVars>>

-----------------------------------------------------------------------------
(* CTAs. *)

IssueCta(c) ==
    /\ c \notin live /\ ctas < setup.ctas
    /\ live' = live \cup {c} /\ running' = running \cup ({c} \X (1..setup.warps)) /\ ctas' = ctas + 1
    /\ UNCHANGED <<setup, tx, queue, inflight, info, arrivals, waiting, releases, nextTx,
                   waitVars, delivered>>

Exit(w) ==
    /\ CanIssue(w)
    /\ running' = running \ {w}
    /\ UNCHANGED <<setup, tx, queue, inflight, info, arrivals, waiting, releases, live, ctas,
                   nextTx, waitVars, delivered>>

\* Mistaken variant of has_pending_for_cta: only the groups that were committed count.
has_groups_for_cta(c) == \E w \in WarpsOf(c) : info[w].groups # NoInfo.groups

has_pending_for_cta(c) ==
    \/ \E t \in DOMAIN tx : tx[t].w[1] = c
    \/ \E w \in WarpsOf(c) : info[w].open # {} \/ info[w].groups # NoInfo.groups \/ info[w].isWaiting

\* The slot is given back once nothing of its CTA is pending, and its ledgers go.
cleanup_cta(c) ==
    /\ c \in live /\ WarpsOf(c) \cap running = {} /\ ~has_pending_for_cta(c)
    /\ live' = live \ {c}
    /\ info' = [w \in Warps |-> IF w[1] = c THEN NoInfo ELSE info[w]]
    /\ UNCHANGED <<setup, tx, queue, inflight, arrivals, waiting, releases, running, ctas,
                   nextTx, waitVars, delivered>>

Next ==
    \/ issue_cp_async_requests
    \/ \E t \in DOMAIN tx : process_cp_async_response(t)
    \/ \E c \in Slots : IssueCta(c) \/ cleanup_cta(c)
    \/ \E w \in Warps :
          \/ warp_reaches_cp_async(w) \/ commit_cp_async_group(w)
          \/ \E n \in 0..1 : wait_cp_async_group(w, n)
          \/ \E lanes \in SUBSET Lanes \ {{}} : warp_reaches_cp_async_mbarrier_arrive(w, lanes)
          \/ DelayedRelease(w) \/ Exit(w)

\* The unit's cycle sends requests, memory answers them, and barrier_set_t::cycle counts
\* releases down in every cycle of the SM.
Spec ==
    /\ Init /\ [][Next]_vars
    /\ WF_vars(issue_cp_async_requests)
    /\ WF_vars(\E t \in DOMAIN tx : process_cp_async_response(t))
    /\ \A w \in Warps : WF_vars(DelayedRelease(w))

-----------------------------------------------------------------------------
(* Properties. *)

Live(w) == {t \in DOMAIN tx : tx[t].w = w}
Groups(w) == DOMAIN info[w].groups

\* The ledger is exact: the transactions of a warp are its uncommitted ones and those of
\* its pending groups, each in one place, none in a group without transactions, so
\* the assertions of complete_tx and finalize_cp_async_transaction hold; no transaction
\* outlives its CTA's slot; the requests in flight are counted and within the limit; and
\* a parked warp is being released or waits for groups that are pending.
LedgerExact ==
    /\ \A w \in Warps :
          /\ Live(w) = info[w].open \cup UNION {info[w].groups[g] : g \in Groups(w)}
          /\ \A g \in Groups(w) : /\ info[w].groups[g] # {}
                                  /\ info[w].groups[g] \cap info[w].open = {}
                                  /\ \A h \in Groups(w) \ {g} :
                                        info[w].groups[g] \cap info[w].groups[h] = {}
          /\ Live(w) # {} => w[1] \in live
          /\ w \in waiting => \/ w \in releases
                              \/ info[w].isWaiting /\ Cardinality(Groups(w)) > allowance[w]
          /\ info[w].isWaiting => w \in waiting \ releases
    /\ inflight = Cardinality(DOMAIN tx \ Range(queue))
    /\ MaxInflight > 0 => inflight <= MaxInflight

\* cp.async.mbarrier.arrive: the arrival of a lane reaches the mbarrier once, when
\* every copy the lane issued before it is done, and not later.
ArrivalsExact ==
    \A a \in Marks :
        delivered[a] = IF a < nextMark /\ before[a] \cap DOMAIN tx = {} THEN 1 ELSE 0

\* When a warp goes on after wait_group(N), at most N of its groups have copies
\* that are not done; after wait_group(0) only copies it has not committed are.
WaitEnds ==
    [][\A w \in waiting \ waiting' :
          /\ Cardinality({g \in Groups(w) : info[w].groups[g] \cap DOMAIN tx # {}}) <= allowance[w]
          /\ allowance[w] = 0 => Live(w) \subseteq info[w].open]_vars

\* A warp that waits goes on.
EveryWaitReturns == \A w \in Warps : w \in waiting ~> w \notin waiting
=============================================================================
