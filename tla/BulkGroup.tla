----------------------------- MODULE BulkGroup -----------------------------
(***************************************************************************)
(* The bulk-group ledger of one SM (bulk_group_manager_t and the           *)
(* barrier_set_t methods built on it): every warp adds the TMA stores it   *)
(* issues to an open set, commits the set as a numbered group and may wait *)
(* until all but the N newest groups have completed.  The TMA unit         *)
(* completes stores in any order.                                          *)
(*                                                                         *)
(* A committed group is present in pending_groups exactly while it still   *)
(* contains a store, so contained[w][g] = {} stands for an absent entry;   *)
(* txToGroup[w][t] = 0 stands for a store absent from tx_to_group.         *)
(***************************************************************************)
EXTENDS Integers, FiniteSets, FiniteSetsExt

CONSTANTS
    Warps,      \* hardware warps of the SM
    Ctas,       \* hardware CTA slots
    CtaOf,      \* the slot each warp belongs to
    Tx,         \* store uids; a uid is issued at most once
    MaxGroup    \* bound: groups a warp commits during one residence

ASSUME CtaOfAssumption == CtaOf \in [Warps -> Ctas]
ASSUME MaxGroupAssumption == MaxGroup \in Nat \ {0}

VARIABLES
    present,       \* m_warp_bulk_info has an entry for the warp
    nextGroup,     \* next_group_id
    latest,        \* latest_completed_group_id
    openTxs,       \* pending_txs
    txToGroup,     \* tx_to_group
    contained,     \* pending_groups
    waitingGroup,  \* waiting_group_id
    isWaiting,     \* is_waiting
    atBarrier,     \* m_warp_at_barrier with type BARRIER_WAIT_BULK_GROUP
    inflight,      \* stores the TMA unit still holds (m_transactions and
                   \* m_pending_arrives) and will complete once each
    issued,        \* uids handed out so far (tma_next_tx_uid)
    exited         \* the warp's threads have exited

ledger == <<present, nextGroup, latest, openTxs, txToGroup, contained,
            waitingGroup, isWaiting>>
vars == <<ledger, atBarrier, inflight, issued, exited>>

GroupIds == 1..MaxGroup

TypeOK ==
    /\ present \in [Warps -> BOOLEAN]
    /\ nextGroup \in [Warps -> 1..(MaxGroup + 1)]
    /\ latest \in [Warps -> 0..MaxGroup]
    /\ openTxs \in [Warps -> SUBSET Tx]
    /\ txToGroup \in [Warps -> [Tx -> 0..MaxGroup]]
    /\ contained \in [Warps -> [GroupIds -> SUBSET Tx]]
    /\ waitingGroup \in [Warps -> 0..MaxGroup]
    /\ isWaiting \in [Warps -> BOOLEAN]
    /\ atBarrier \in [Warps -> BOOLEAN]
    /\ inflight \in [Warps -> SUBSET Tx]
    /\ issued \in SUBSET Tx
    /\ exited \in [Warps -> BOOLEAN]

\* A freshly constructed warp_bulk_info_t, for every warp in fresh.
FreshLedger(fresh) ==
    /\ present' = [w \in Warps |-> IF w \in fresh THEN FALSE ELSE present[w]]
    /\ nextGroup' = [w \in Warps |-> IF w \in fresh THEN 1 ELSE nextGroup[w]]
    /\ latest' = [w \in Warps |-> IF w \in fresh THEN 0 ELSE latest[w]]
    /\ openTxs' = [w \in Warps |-> IF w \in fresh THEN {} ELSE openTxs[w]]
    /\ txToGroup' = [w \in Warps |-> IF w \in fresh THEN [t \in Tx |-> 0]
                                                    ELSE txToGroup[w]]
    /\ contained' = [w \in Warps |-> IF w \in fresh THEN [g \in GroupIds |-> {}]
                                                    ELSE contained[w]]
    /\ waitingGroup' = [w \in Warps |-> IF w \in fresh THEN 0 ELSE waitingGroup[w]]
    /\ isWaiting' = [w \in Warps |-> IF w \in fresh THEN FALSE ELSE isWaiting[w]]

Init ==
    /\ present = [w \in Warps |-> FALSE]
    /\ nextGroup = [w \in Warps |-> 1]
    /\ latest = [w \in Warps |-> 0]
    /\ openTxs = [w \in Warps |-> {}]
    /\ txToGroup = [w \in Warps |-> [t \in Tx |-> 0]]
    /\ contained = [w \in Warps |-> [g \in GroupIds |-> {}]]
    /\ waitingGroup = [w \in Warps |-> 0]
    /\ isWaiting = [w \in Warps |-> FALSE]
    /\ atBarrier = [w \in Warps |-> FALSE]
    /\ inflight = [w \in Warps |-> {}]
    /\ issued = {}
    /\ exited = [w \in Warps |-> FALSE]

\* The scheduler issues for a warp only while it is neither parked nor done.
CanIssue(w) == ~atBarrier[w] /\ ~exited[w]

-----------------------------------------------------------------------------
(* The warp's instructions. *)

\* A TMA store: the unit takes the transaction and add_tx files it as open.
AddTx(w, t) ==
    /\ CanIssue(w)
    /\ t \notin issued
    /\ issued' = issued \cup {t}
    /\ inflight' = [inflight EXCEPT ![w] = @ \cup {t}]
    /\ present' = [present EXCEPT ![w] = TRUE]
    /\ openTxs' = [openTxs EXCEPT ![w] = @ \cup {t}]
    /\ UNCHANGED <<nextGroup, latest, txToGroup, contained, waitingGroup,
                   isWaiting, atBarrier, exited>>

\* Mutant: an empty group never advances the completed frontier.
EmptyGroupIgnored(w) == latest[w]

\* The frontier after an empty commit: the group is complete at once, and the
\* frontier moves only if it is the next in sequence.
LatestAfterEmptyCommit(w) ==
    IF nextGroup[w] = latest[w] + 1 THEN latest[w] + 1 ELSE latest[w]

\* cp.async.bulk.commit_group.
Commit(w) ==
    /\ CanIssue(w)
    /\ nextGroup[w] <= MaxGroup
    /\ present' = [present EXCEPT ![w] = TRUE]
    /\ \/ /\ openTxs[w] # {}
          /\ txToGroup' = [txToGroup EXCEPT ![w] =
                [t \in Tx |-> IF t \in openTxs[w] THEN nextGroup[w] ELSE @[t]]]
          /\ contained' = [contained EXCEPT ![w][nextGroup[w]] = openTxs[w]]
          /\ openTxs' = [openTxs EXCEPT ![w] = {}]
          /\ UNCHANGED latest
       \/ /\ openTxs[w] = {}
          /\ latest' = [latest EXCEPT ![w] = LatestAfterEmptyCommit(w)]
          /\ UNCHANGED <<txToGroup, contained, openTxs>>
    /\ nextGroup' = [nextGroup EXCEPT ![w] = @ + 1]
    /\ UNCHANGED <<waitingGroup, isWaiting, atBarrier, inflight, issued, exited>>

\* Mutant: the wait covers one group too few.
WaitsOneTooShort(w, n) == nextGroup[w] - n - 2

\* The group a wait for N incomplete groups waits for.
WaitTarget(w, n) == nextGroup[w] - n - 1

\* Groups a warp has committed and the frontier has not passed.
IncompleteCount(w) == nextGroup[w] - latest[w] - 1

\* cp.async.bulk.wait_group n: park the warp unless at most n groups lie
\* beyond the frontier; without an entry the wait is satisfied at once.
Wait(w, n) ==
    /\ CanIssue(w)
    /\ present[w] /\ n < IncompleteCount(w)
    /\ waitingGroup' = [waitingGroup EXCEPT ![w] = WaitTarget(w, n)]
    /\ isWaiting' = [isWaiting EXCEPT ![w] = TRUE]
    /\ atBarrier' = [atBarrier EXCEPT ![w] = TRUE]
    /\ UNCHANGED <<present, nextGroup, latest, openTxs, txToGroup, contained,
                   inflight, issued, exited>>

\* The warp's threads exit.
Exit(w) ==
    /\ CanIssue(w)
    /\ exited' = [exited EXCEPT ![w] = TRUE]
    /\ UNCHANGED <<ledger, atBarrier, inflight, issued>>

-----------------------------------------------------------------------------
(* The TMA unit's completions. *)

\* Mutant: the frontier steps over the finished group only.
SkipNothing(groups, w, l) == l

\* From frontier l, skip every group that is already gone.
SkipCompleted(groups, w, l) ==
    LET pending == {g \in (l + 1)..(nextGroup[w] - 1) : groups[g] # {}}
    IN  IF pending = {} THEN nextGroup[w] - 1 ELSE Min(pending) - 1

\* Mutant: the waiter is tested against the group that just finished.
SatisfiedByAnyGroup(w, l) == isWaiting[w]

\* Mutant: a wait is satisfied only strictly beyond its target.
SatisfiedBeyondTarget(w, l) == isWaiting[w] /\ l > waitingGroup[w]

\* The wait is over once the frontier has reached its target.
WaitSatisfied(w, l) == isWaiting[w] /\ l >= waitingGroup[w]

\* complete_tx of a store whose group is committed.
CompleteCommitted(w, t) ==
    LET g    == txToGroup[w][t]
        rest == [contained[w] EXCEPT ![g] = @ \ {t}]
    IN  /\ txToGroup' = [txToGroup EXCEPT ![w][t] = 0]
        /\ contained' = [contained EXCEPT ![w] = rest]
        /\ \/ /\ rest[g] = {} /\ g = latest[w] + 1
              /\ LET l    == SkipCompleted(rest, w, g)
                     wake == WaitSatisfied(w, l)
                 IN  /\ latest' = [latest EXCEPT ![w] = l]
                     /\ isWaiting' = [isWaiting EXCEPT ![w] = @ /\ ~wake]
                     /\ atBarrier' = [atBarrier EXCEPT ![w] = @ /\ ~wake]
           \/ /\ ~(rest[g] = {} /\ g = latest[w] + 1)
              /\ UNCHANGED <<latest, isWaiting, atBarrier>>
        /\ UNCHANGED openTxs

\* Mutant: an uncommitted store stays in pending_txs when it completes.
CompleteOpenKeeps(w, t) ==
    UNCHANGED <<openTxs, txToGroup, contained, latest, isWaiting, atBarrier>>

\* complete_tx of a store that is still uncommitted.
CompleteOpen(w, t) ==
    /\ openTxs' = [openTxs EXCEPT ![w] = @ \ {t}]
    /\ UNCHANGED <<txToGroup, contained, latest, isWaiting, atBarrier>>

\* complete_bulk_tx: the unit reports a finished store, once.
CompleteTx(w, t) ==
    /\ t \in inflight[w]
    /\ inflight' = [inflight EXCEPT ![w] = @ \ {t}]
    /\ \/ txToGroup[w][t] # 0 /\ CompleteCommitted(w, t)
       \/ txToGroup[w][t] = 0 /\ CompleteOpen(w, t)
    /\ UNCHANGED <<present, nextGroup, waitingGroup, issued, exited>>

-----------------------------------------------------------------------------
(* The end of a CTA. *)

WarpsOf(c) == {w \in Warps : CtaOf[w] = c}

\* Mutant: the slot is released without asking the TMA unit.
ReleasableWithoutTma(c) == \A w \in WarpsOf(c) : exited[w]

\* release_finished_cta runs once all threads have exited and
\* tma_unit_t::has_pending_for_cta is false.
Releasable(c) == \A w \in WarpsOf(c) : exited[w] /\ inflight[w] = {}

\* cleanup_cta_bulk_groups; the slot is then free for the next CTA.
ReleaseCta(c) ==
    /\ WarpsOf(c) # {}
    /\ Releasable(c)
    /\ FreshLedger(WarpsOf(c))
    /\ exited' = [w \in Warps |-> IF w \in WarpsOf(c) THEN FALSE ELSE exited[w]]
    /\ UNCHANGED <<atBarrier, inflight, issued>>

Next ==
    \/ \E w \in Warps, t \in Tx : AddTx(w, t)
    \/ \E w \in Warps : Commit(w)
    \/ \E w \in Warps, n \in 0..MaxGroup : Wait(w, n)
    \/ \E w \in Warps : Exit(w)
    \/ \E w \in Warps, t \in Tx : CompleteTx(w, t)
    \/ \E c \in Ctas : ReleaseCta(c)

\* Every store the unit holds is eventually completed: its memory responses
\* arrive and each cycle() retires what is due.
Fairness == \A w \in Warps, t \in Tx : WF_vars(CompleteTx(w, t))

Spec == Init /\ [][Next]_vars /\ Fairness

-----------------------------------------------------------------------------
(* Properties. *)

\* The two indices of the ledger agree with each other and with the TMA unit:
\* a store in flight is either open or in exactly the group tx_to_group names
\* (complete_tx asserts that this group exists), and nothing else is recorded.
LedgerConsistent ==
    \A w \in Warps, t \in Tx :
        /\ t \in inflight[w] <=> (t \in openTxs[w] \/ txToGroup[w][t] # 0)
        /\ t \in openTxs[w] => txToGroup[w][t] = 0
        /\ \A g \in GroupIds : t \in contained[w][g] <=> txToGroup[w][t] = g

\* A completion always finds the warp's entry (the manager's complete_tx
\* asserts it), although another action drops the entries of a whole CTA.
CompletionFindsEntry ==
    \A w \in Warps : inflight[w] # {} => present[w]

\* latest_completed_group_id is exact: every group up to it is complete and
\* the next committed one, if any, is not.
FrontierExact ==
    \A w \in Warps :
        /\ latest[w] < nextGroup[w]
        /\ \A g \in GroupIds :
              /\ g <= latest[w] => contained[w][g] = {}
              /\ g >= nextGroup[w] => contained[w][g] = {}
              /\ (g = latest[w] + 1 /\ g < nextGroup[w]) => contained[w][g] # {}

\* No lost wake-up: a parked warp is one the ledger will release, and some
\* group it waits for still has a store in flight.
NoLostWakeup ==
    \A w \in Warps :
        /\ atBarrier[w] <=> isWaiting[w]
        /\ isWaiting[w] => \E g \in 1..waitingGroup[w] :
                              contained[w][g] \cap inflight[w] # {}

\* A wait ends only when every group it waits for has completed, however the
\* completions were ordered.
WaitEndsComplete ==
    [][\A w \in Warps : (isWaiting[w] /\ ~isWaiting'[w]) =>
          \A g \in 1..waitingGroup[w] : contained'[w][g] = {}]_vars

\* Every wait_group ends.
EveryWaitEnds == \A w \in Warps : isWaiting[w] ~> ~isWaiting[w]

-----------------------------------------------------------------------------
(* What the ledger promises, without counters: BulkGroupSpec. *)

Abstract == INSTANCE BulkGroupSpec WITH
    open <- openTxs,
    committed <- [w \in Warps |-> nextGroup[w] - 1],
    outstanding <- contained,
    waitFor <- [w \in Warps |-> IF isWaiting[w] THEN waitingGroup[w] ELSE 0]

\* The counter-based ledger implements the specification by sets.
ImplementsSpec == Abstract!Spec

=============================================================================
