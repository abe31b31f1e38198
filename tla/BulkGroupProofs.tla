-------------------------- MODULE BulkGroupProofs --------------------------
(***************************************************************************)
(* Proofs about BulkGroup for any number of warps, CTA slots, stores and   *)
(* groups.  The inductive invariant adds to the checked properties the     *)
(* place of a waiter's target between the frontier and the next group.     *)
(***************************************************************************)
EXTENDS BulkGroup, TLAPS, WellFoundedInduction

\* A waiter's target lies beyond the frontier and among the committed groups,
\* and a warp whose threads exited is not parked.
WaitTargetAhead ==
    \A w \in Warps :
        /\ atBarrier[w] <=> isWaiting[w]
        /\ isWaiting[w] => latest[w] < waitingGroup[w] /\ waitingGroup[w] < nextGroup[w]
        /\ exited[w] => ~atBarrier[w]

\* Stores in flight have been issued.
InflightIssued == \A w \in Warps : inflight[w] \subseteq issued

\* The inductive invariant.
IndInv ==
    /\ TypeOK
    /\ LedgerConsistent
    /\ CompletionFindsEntry
    /\ FrontierExact
    /\ WaitTargetAhead
    /\ InflightIssued

-----------------------------------------------------------------------------
(* The frontier's skip over groups that are already complete. *)

\* A non-empty set of naturals has a least element (what Min relies on).
LEMMA LeastNat ==
    ASSUME NEW S \in SUBSET Nat, S # {}
    PROVE  Min(S) \in S /\ \A y \in S : Min(S) <= y
<1> DEFINE less == {ss \in Nat \X Nat : ss[1] < ss[2]}
<1>1. IsWellFoundedOn(less, Nat)
  BY NatLessThanWellFounded, Zenon DEF OpToRel
<1> HIDE DEF less
<1>2. \E x \in S : \A y \in S : <<y, x>> \notin less
  BY <1>1, WFMin
<1>3. PICK x \in S : \A y \in S : <<y, x>> \notin less
  BY <1>2
<1>4. ASSUME NEW y \in S PROVE x <= y
  <2>1. <<y, x>> \in Nat \X Nat
    OBVIOUS
  <2>2. ~(<<y, x>>[1] < <<y, x>>[2])
    BY <1>3, <2>1 DEF less
  <2>3. QED
    BY <2>2
<1>5. QED
  BY <1>4 DEF Min

\* SkipCompleted stops right before the first group that is still pending, or
\* at the newest committed group.
LEMMA SkipStopsAtPending ==
    ASSUME NEW w \in Warps, NEW l \in Nat, NEW groups \in [GroupIds -> SUBSET Tx],
           nextGroup[w] \in 1..(MaxGroup + 1), l < nextGroup[w]
    PROVE  LET r == SkipCompleted(groups, w, l)
           IN  /\ r \in l..(nextGroup[w] - 1)
               /\ \A g \in (l + 1)..r : groups[g] = {}
               /\ r + 1 < nextGroup[w] => groups[r + 1] # {}
<1> DEFINE pending == {g \in (l + 1)..(nextGroup[w] - 1) : groups[g] # {}}
<1>1. CASE pending = {}
  <2>1. SkipCompleted(groups, w, l) = nextGroup[w] - 1
    BY <1>1 DEF SkipCompleted
  <2>2. QED
    BY <1>1, <2>1, MaxGroupAssumption
<1>2. CASE pending # {}
  <2>1. pending \in SUBSET Nat
    BY MaxGroupAssumption
  <2>2. Min(pending) \in pending /\ \A y \in pending : Min(pending) <= y
    BY <1>2, <2>1, LeastNat
  <2>3. SkipCompleted(groups, w, l) = Min(pending) - 1
    BY <1>2 DEF SkipCompleted
  <2>4. PICK m \in pending : m = Min(pending) /\ \A y \in pending : m <= y
    BY <2>2
  <2> HIDE DEF pending
  <2>5. m \in (l + 1)..(nextGroup[w] - 1) /\ groups[m] # {}
    BY <2>4 DEF pending
  <2>6. \A g \in (l + 1)..(m - 1) : groups[g] = {}
    BY <2>4, <2>5 DEF pending
  <2>7. QED
    BY <2>3, <2>4, <2>5, <2>6
<1>3. QED
  BY <1>1, <1>2

-----------------------------------------------------------------------------
(* The inductive invariant, one lemma per action. *)

\* The constructors of the ledger and of the unit establish the invariant.
LEMMA InitInd == Init => IndInv
  BY MaxGroupAssumption
     DEF Init, IndInv, TypeOK, GroupIds, LedgerConsistent, CompletionFindsEntry,
         FrontierExact, WaitTargetAhead, InflightIssued

\* Filing a store as open (add_tx) preserves the invariant.
LEMMA AddTxInd ==
    ASSUME IndInv, NEW w \in Warps, NEW t \in Tx, AddTx(w, t)
    PROVE  IndInv'
<1> USE DEF IndInv, AddTx, CanIssue
<1>1. TypeOK'
  BY DEF TypeOK
<1>2. LedgerConsistent'
  <2>1. t \notin inflight[w]
    BY DEF InflightIssued
  <2>2. t \notin openTxs[w] /\ txToGroup[w][t] = 0
    BY <2>1 DEF LedgerConsistent
  <2>3. QED
    BY <2>1, <2>2 DEF LedgerConsistent, TypeOK
<1>3. CompletionFindsEntry'
  BY DEF CompletionFindsEntry, TypeOK
<1>4. FrontierExact'
  BY DEF FrontierExact
<1>5. WaitTargetAhead'
  BY DEF WaitTargetAhead
<1>6. InflightIssued'
  BY DEF InflightIssued, TypeOK
<1>7. QED
  BY <1>1, <1>2, <1>3, <1>4, <1>5, <1>6

\* commit_group preserves the invariant, for a group with stores and for an
\* empty one, which moves the frontier only if it is next in sequence.
LEMMA CommitInd ==
    ASSUME IndInv, NEW w \in Warps, Commit(w)
    PROVE  IndInv'
<1> DEFINE n == nextGroup[w]
<1>1. n \in GroupIds /\ n \in Nat /\ n # 0 /\ latest[w] \in Nat /\ latest[w] < n
  BY MaxGroupAssumption DEF IndInv, TypeOK, FrontierExact, GroupIds, Commit
<1>2. nextGroup' = [nextGroup EXCEPT ![w] = n + 1]
  BY DEF Commit
<1>3. contained[w][n] = {}
  BY <1>1 DEF IndInv, FrontierExact
<1>4. UNCHANGED <<waitingGroup, isWaiting, atBarrier, inflight, issued, exited>>
      /\ ~isWaiting[w] /\ present' = [present EXCEPT ![w] = TRUE]
  BY DEF Commit, CanIssue, IndInv, WaitTargetAhead
<1>5. CompletionFindsEntry' /\ InflightIssued'
  BY <1>4 DEF IndInv, CompletionFindsEntry, InflightIssued, TypeOK
<1>6. nextGroup' \in [Warps -> 1..(MaxGroup + 1)]
  BY <1>1, <1>2, MaxGroupAssumption DEF IndInv, TypeOK, GroupIds
<1>7. CASE openTxs[w] # {}
  <2>1. /\ txToGroup' = [txToGroup EXCEPT ![w] =
              [t \in Tx |-> IF t \in openTxs[w] THEN n ELSE txToGroup[w][t]]]
        /\ contained' = [contained EXCEPT ![w][n] = openTxs[w]]
        /\ openTxs' = [openTxs EXCEPT ![w] = {}]
        /\ latest' = latest
    BY <1>7 DEF Commit
  <2>2. [t \in Tx |-> IF t \in openTxs[w] THEN n ELSE txToGroup[w][t]]
           \in [Tx -> 0..MaxGroup]
    BY <1>1 DEF IndInv, TypeOK, GroupIds
  <2>3. contained' \in [Warps -> [GroupIds -> SUBSET Tx]]
    BY <1>1, <2>1 DEF IndInv, TypeOK
  <2>4. TypeOK'
    BY <1>4, <1>6, <2>1, <2>2, <2>3 DEF IndInv, TypeOK
  <2>5. \A t \in Tx : txToGroup'[w][t] =
              IF t \in openTxs[w] THEN n ELSE txToGroup[w][t]
    BY <2>1 DEF IndInv, TypeOK
  <2>6. \A g \in GroupIds : contained'[w][g] =
              IF g = n THEN openTxs[w] ELSE contained[w][g]
    BY <1>1, <2>1 DEF IndInv, TypeOK
  <2>7. \A v \in Warps : v # w => /\ txToGroup'[v] = txToGroup[v]
                                  /\ contained'[v] = contained[v]
                                  /\ openTxs'[v] = openTxs[v]
    BY <2>1 DEF IndInv, TypeOK
  <2>8. openTxs'[w] = {}
    BY <2>1 DEF IndInv, TypeOK
  <2>9. LedgerConsistent'
    <3>1. SUFFICES ASSUME NEW v \in Warps, NEW t \in Tx
                   PROVE  /\ t \in inflight'[v] <=> (t \in openTxs'[v] \/ txToGroup'[v][t] # 0)
                          /\ t \in openTxs'[v] => txToGroup'[v][t] = 0
                          /\ \A g \in GroupIds : t \in contained'[v][g] <=> txToGroup'[v][t] = g
      BY DEF LedgerConsistent
    <3>2. /\ t \in inflight[v] <=> (t \in openTxs[v] \/ txToGroup[v][t] # 0)
          /\ t \in openTxs[v] => txToGroup[v][t] = 0
          /\ \A g \in GroupIds : t \in contained[v][g] <=> txToGroup[v][t] = g
      BY DEF IndInv, LedgerConsistent
    <3>3. CASE v # w
      BY <1>4, <2>7, <3>2, <3>3
    <3>4. CASE v = w /\ t \in openTxs[w]
      <4>1. 0 \notin GroupIds
        BY DEF GroupIds
      <4>2. QED
        BY <1>1, <1>4, <2>5, <2>6, <2>8, <3>2, <3>4, <4>1
    <3>5. CASE v = w /\ t \notin openTxs[w]
      BY <1>1, <1>3, <1>4, <2>5, <2>6, <2>8, <3>2, <3>5
    <3>6. QED
      BY <3>3, <3>4, <3>5
  <2>10. FrontierExact'
    <3>1. SUFFICES ASSUME NEW v \in Warps, NEW g \in GroupIds
                   PROVE  /\ latest'[v] < nextGroup'[v]
                          /\ g <= latest'[v] => contained'[v][g] = {}
                          /\ g >= nextGroup'[v] => contained'[v][g] = {}
                          /\ (g = latest'[v] + 1 /\ g < nextGroup'[v]) => contained'[v][g] # {}
      BY <1>1 DEF FrontierExact
    <3>2. /\ latest[v] < nextGroup[v]
          /\ g <= latest[v] => contained[v][g] = {}
          /\ g >= nextGroup[v] => contained[v][g] = {}
          /\ (g = latest[v] + 1 /\ g < nextGroup[v]) => contained[v][g] # {}
      BY DEF IndInv, FrontierExact
    <3>3. CASE v # w
      BY <1>2, <2>1, <2>7, <3>2, <3>3 DEF IndInv, TypeOK
    <3>4. CASE v = w
      <4>1. nextGroup'[w] = n + 1 /\ latest'[w] = latest[w]
        BY <1>2, <2>1 DEF IndInv, TypeOK
      <4>2. g \in Nat
        BY DEF GroupIds
      <4>3. QED
        BY <1>1, <1>7, <2>6, <3>2, <3>4, <4>1, <4>2
    <3>5. QED
      BY <3>3, <3>4
  <2>11. WaitTargetAhead'
    BY <1>2, <1>4, <2>1 DEF IndInv, WaitTargetAhead, TypeOK
  <2>12. QED
    BY <1>5, <2>4, <2>9, <2>10, <2>11 DEF IndInv
<1>8. CASE openTxs[w] = {}
  <2>1. /\ txToGroup' = txToGroup /\ contained' = contained /\ openTxs' = openTxs
        /\ latest' = [latest EXCEPT ![w] = LatestAfterEmptyCommit(w)]
    BY <1>8 DEF Commit
  <2>2. LatestAfterEmptyCommit(w) \in 0..MaxGroup /\ LatestAfterEmptyCommit(w) <= n
    BY <1>1, MaxGroupAssumption DEF LatestAfterEmptyCommit, GroupIds
  <2>3. TypeOK'
    BY <1>4, <1>6, <2>1, <2>2 DEF IndInv, TypeOK
  <2>4. LedgerConsistent'
    BY <1>4, <2>1 DEF IndInv, LedgerConsistent
  <2>5. FrontierExact'
    BY <1>1, <1>2, <1>3, <2>1 DEF IndInv, FrontierExact, TypeOK, GroupIds, LatestAfterEmptyCommit
  <2>6. WaitTargetAhead'
    BY <1>2, <1>4, <2>1 DEF IndInv, WaitTargetAhead, TypeOK
  <2>7. QED
    BY <1>5, <2>3, <2>4, <2>5, <2>6 DEF IndInv
<1>9. QED
  BY <1>7, <1>8

\* wait_group parks a warp only on a target ahead of the frontier.
LEMMA WaitInd ==
    ASSUME IndInv, NEW w \in Warps, NEW n \in 0..MaxGroup, Wait(w, n)
    PROVE  IndInv'
<1> USE DEF IndInv, Wait, CanIssue
<1>1. /\ latest[w] \in 0..MaxGroup /\ nextGroup[w] \in 1..(MaxGroup + 1)
      /\ latest[w] < nextGroup[w]
  BY DEF TypeOK, FrontierExact
<1>2. /\ WaitTarget(w, n) \in 0..MaxGroup
      /\ latest[w] < WaitTarget(w, n) /\ WaitTarget(w, n) < nextGroup[w]
  BY <1>1, MaxGroupAssumption DEF WaitTarget, IncompleteCount
<1>3. TypeOK'
  BY <1>2 DEF TypeOK
<1>4. WaitTargetAhead'
  BY <1>2 DEF WaitTargetAhead, TypeOK
<1>5. LedgerConsistent' /\ CompletionFindsEntry' /\ FrontierExact' /\ InflightIssued'
  BY DEF LedgerConsistent, CompletionFindsEntry, FrontierExact, InflightIssued
<1>6. QED
  BY <1>3, <1>4, <1>5

\* A warp's exit leaves its ledger alone.
LEMMA ExitInd ==
    ASSUME IndInv, NEW w \in Warps, Exit(w)
    PROVE  IndInv'
  BY DEF IndInv, Exit, CanIssue, ledger, TypeOK, LedgerConsistent,
         CompletionFindsEntry, FrontierExact, WaitTargetAhead, InflightIssued

\* What complete_tx does to the ledger of the store's group, and where the
\* frontier ends up.
LEMMA CompleteCommittedInd ==
    ASSUME IndInv, NEW w \in Warps, NEW t \in Tx, CompleteTx(w, t), txToGroup[w][t] # 0
    PROVE  IndInv'
<1> DEFINE g0 == txToGroup[w][t]
           rest == [contained[w] EXCEPT ![g0] = @ \ {t}]
<1>1. g0 \in GroupIds /\ g0 \in Nat /\ t \in contained[w][g0]
  BY DEF IndInv, TypeOK, LedgerConsistent, GroupIds
<1>2. /\ CompleteCommitted(w, t)
      /\ inflight' = [inflight EXCEPT ![w] = @ \ {t}]
      /\ UNCHANGED <<present, nextGroup, waitingGroup, issued, exited>>
  BY DEF CompleteTx
<1>3. /\ txToGroup' = [txToGroup EXCEPT ![w][t] = 0]
      /\ contained' = [contained EXCEPT ![w] = rest]
      /\ openTxs' = openTxs
  BY <1>2 DEF CompleteCommitted
<1>4. rest \in [GroupIds -> SUBSET Tx]
  BY <1>1 DEF IndInv, TypeOK
<1>5. \A g \in GroupIds : rest[g] = IF g = g0 THEN contained[w][g0] \ {t} ELSE contained[w][g]
  BY <1>1 DEF IndInv, TypeOK
<1>6. /\ contained'[w] = rest
      /\ \A v \in Warps : v # w => contained'[v] = contained[v]
  BY <1>3 DEF IndInv, TypeOK
<1>7. /\ nextGroup[w] \in 1..(MaxGroup + 1) /\ latest[w] \in 0..MaxGroup
  BY DEF IndInv, TypeOK
<1>8. g0 < nextGroup[w] /\ latest[w] < g0
  <2>1. /\ g0 <= latest[w] => contained[w][g0] = {}
        /\ g0 >= nextGroup[w] => contained[w][g0] = {}
    BY <1>1 DEF IndInv, FrontierExact
  <2> HIDE DEF g0
  <2>2. QED
    BY <1>1, <1>7, <2>1
<1>9. LedgerConsistent'
  <2>1. SUFFICES ASSUME NEW v \in Warps, NEW s \in Tx
                 PROVE  /\ s \in inflight'[v] <=> (s \in openTxs'[v] \/ txToGroup'[v][s] # 0)
                        /\ s \in openTxs'[v] => txToGroup'[v][s] = 0
                        /\ \A g \in GroupIds : s \in contained'[v][g] <=> txToGroup'[v][s] = g
    BY DEF LedgerConsistent
  <2>2. /\ s \in inflight[v] <=> (s \in openTxs[v] \/ txToGroup[v][s] # 0)
        /\ s \in openTxs[v] => txToGroup[v][s] = 0
        /\ \A g \in GroupIds : s \in contained[v][g] <=> txToGroup[v][s] = g
    BY DEF IndInv, LedgerConsistent
  <2>3. CASE v # w \/ s # t
    <3>1. /\ txToGroup'[v][s] = txToGroup[v][s]
          /\ s \in inflight'[v] <=> s \in inflight[v]
      BY <1>2, <1>3, <2>3 DEF IndInv, TypeOK
    <3>2. \A g \in GroupIds : s \in contained'[v][g] <=> s \in contained[v][g]
      <4>1. CASE v # w
        BY <1>6, <4>1
      <4>2. CASE v = w
        <5> HIDE DEF rest, g0
        <5>1. QED
          BY <1>5, <1>6, <2>3, <4>2
      <4>3. QED
        BY <4>1, <4>2
    <3>3. QED
      BY <1>3, <2>2, <3>1, <3>2
  <2>4. CASE v = w /\ s = t
    <3>1. txToGroup'[w][t] = 0 /\ t \notin inflight'[w]
      BY <1>2, <1>3 DEF IndInv, TypeOK
    <3>2. \A g \in GroupIds : t \notin contained'[w][g] /\ g # 0
      BY <1>5, <1>6, <2>2, <2>4 DEF GroupIds
    <3>3. t \notin openTxs[w]
      BY <2>2, <2>4
    <3>4. QED
      BY <1>3, <2>4, <3>1, <3>2, <3>3
  <2>5. QED
    BY <2>3, <2>4
<1>10. CompletionFindsEntry' /\ InflightIssued'
  BY <1>2 DEF IndInv, CompletionFindsEntry, InflightIssued, TypeOK
<1>11. txToGroup' \in [Warps -> [Tx -> 0..MaxGroup]]
  BY <1>3, MaxGroupAssumption DEF IndInv, TypeOK
<1>12. contained' \in [Warps -> [GroupIds -> SUBSET Tx]]
  BY <1>3, <1>4 DEF IndInv, TypeOK
<1> HIDE DEF rest
<1>13. CASE rest[g0] = {} /\ g0 = latest[w] + 1
  <2> DEFINE l == SkipCompleted(rest, w, g0)
             wake == WaitSatisfied(w, l)
  <2>1. /\ latest' = [latest EXCEPT ![w] = l]
        /\ isWaiting' = [isWaiting EXCEPT ![w] = @ /\ ~wake]
        /\ atBarrier' = [atBarrier EXCEPT ![w] = @ /\ ~wake]
    BY <1>2, <1>13 DEF CompleteCommitted, rest
  <2>2. /\ l \in g0..(nextGroup[w] - 1)
        /\ \A g \in (g0 + 1)..l : rest[g] = {}
        /\ l + 1 < nextGroup[w] => rest[l + 1] # {}
    BY <1>1, <1>4, <1>8, <1>7, SkipStopsAtPending
  <2> HIDE DEF l
  <2>3. l \in 0..MaxGroup /\ l \in Nat
    BY <1>1, <1>7, <2>2, MaxGroupAssumption
  <2>4. wake \in BOOLEAN
    BY DEF WaitSatisfied, IndInv, TypeOK
  <2>5. TypeOK'
    BY <1>2, <1>3, <1>11, <1>12, <2>1, <2>3, <2>4 DEF IndInv, TypeOK
  <2>6. FrontierExact'
    <3>1. SUFFICES ASSUME NEW v \in Warps, NEW g \in GroupIds
                   PROVE  /\ latest'[v] < nextGroup'[v]
                          /\ g <= latest'[v] => contained'[v][g] = {}
                          /\ g >= nextGroup'[v] => contained'[v][g] = {}
                          /\ (g = latest'[v] + 1 /\ g < nextGroup'[v]) => contained'[v][g] # {}
      BY <1>1 DEF FrontierExact
    <3>2. /\ latest[v] < nextGroup[v]
          /\ g <= latest[v] => contained[v][g] = {}
          /\ g >= nextGroup[v] => contained[v][g] = {}
          /\ (g = latest[v] + 1 /\ g < nextGroup[v]) => contained[v][g] # {}
      BY DEF IndInv, FrontierExact
    <3>3. CASE v # w
      BY <1>2, <1>6, <2>1, <3>2, <3>3 DEF IndInv, TypeOK
    <3>4. CASE v = w
      <4>1. nextGroup'[w] = nextGroup[w] /\ latest'[w] = l /\ g \in Nat
        BY <1>2, <2>1 DEF IndInv, TypeOK, GroupIds
      <4>2. CASE g <= latest[w]
        BY <1>5, <1>6, <1>8, <1>7, <1>1, <2>2, <3>2, <3>4, <4>1, <4>2
      <4>3. CASE g = g0
        BY <1>6, <1>7, <1>13, <2>2, <3>4, <4>1, <4>3
      <4>4. CASE g > g0
        <5>1. g <= l => contained'[w][g] = {}
          BY <1>1, <1>6, <2>2, <2>3, <4>1, <4>4
        <5>2. g >= nextGroup[w] => contained'[w][g] = {}
          BY <1>1, <1>5, <1>6, <1>8, <3>2, <3>4, <4>1, <4>4
        <5>3. (g = l + 1 /\ g < nextGroup[w]) => contained'[w][g] # {}
          BY <1>6, <2>2
        <5>4. l < nextGroup[w]
          BY <1>1, <1>7, <2>2
        <5>5. QED
          BY <3>4, <4>1, <5>1, <5>2, <5>3, <5>4
      <4>5. QED
        BY <1>1, <1>7, <1>13, <4>1, <4>2, <4>3, <4>4
    <3>5. QED
      BY <3>3, <3>4
  <2>7. WaitTargetAhead'
    <3>1. SUFFICES ASSUME NEW v \in Warps
                   PROVE  /\ atBarrier'[v] <=> isWaiting'[v]
                          /\ isWaiting'[v] => /\ latest'[v] < waitingGroup'[v]
                                              /\ waitingGroup'[v] < nextGroup'[v]
                          /\ exited'[v] => ~atBarrier'[v]
      BY DEF WaitTargetAhead
    <3>2. /\ atBarrier[v] <=> isWaiting[v]
          /\ isWaiting[v] => latest[v] < waitingGroup[v] /\ waitingGroup[v] < nextGroup[v]
          /\ exited[v] => ~atBarrier[v]
      BY DEF IndInv, WaitTargetAhead
    <3>3. CASE v # w
      BY <1>2, <2>1, <3>2, <3>3 DEF IndInv, TypeOK
    <3>4. CASE v = w
      <4>1. /\ latest'[w] = l
            /\ isWaiting'[w] <=> (isWaiting[w] /\ ~wake)
            /\ atBarrier'[w] <=> (atBarrier[w] /\ ~wake)
        BY <2>1, <2>3, <2>4 DEF IndInv, TypeOK
      <4>2. waitingGroup[w] \in Nat
        BY DEF IndInv, TypeOK
      <4>3. (isWaiting[w] /\ ~wake) => l < waitingGroup[w]
        BY <2>3, <4>2 DEF WaitSatisfied
      <4>4. QED
        BY <1>2, <3>2, <3>4, <4>1, <4>3
    <3>5. QED
      BY <3>3, <3>4
  <2>8. QED
    BY <1>9, <1>10, <2>5, <2>6, <2>7 DEF IndInv
<1>14. CASE ~(rest[g0] = {} /\ g0 = latest[w] + 1)
  <2>1. UNCHANGED <<latest, isWaiting, atBarrier>>
    BY <1>2, <1>14 DEF CompleteCommitted, rest
  <2>2. TypeOK'
    BY <1>2, <1>3, <1>11, <1>12, <2>1 DEF IndInv, TypeOK
  <2>3. FrontierExact'
    BY <1>1, <1>2, <1>5, <1>6, <1>14, <2>1 DEF IndInv, FrontierExact
  <2>4. WaitTargetAhead'
    BY <1>2, <2>1 DEF IndInv, WaitTargetAhead
  <2>5. QED
    BY <1>9, <1>10, <2>2, <2>3, <2>4 DEF IndInv
<1>15. QED
  BY <1>13, <1>14

\* complete_tx of an uncommitted store only takes it out of pending_txs.
LEMMA CompleteOpenInd ==
    ASSUME IndInv, NEW w \in Warps, NEW t \in Tx, CompleteTx(w, t), txToGroup[w][t] = 0
    PROVE  IndInv'
<1>1. /\ openTxs' = [openTxs EXCEPT ![w] = @ \ {t}]
      /\ inflight' = [inflight EXCEPT ![w] = @ \ {t}]
      /\ UNCHANGED <<txToGroup, contained, latest, isWaiting, atBarrier,
                     present, nextGroup, waitingGroup, issued, exited>>
  BY DEF CompleteTx, CompleteOpen
<1>2. TypeOK' /\ LedgerConsistent'
  BY <1>1 DEF IndInv, TypeOK, LedgerConsistent
<1>3. CompletionFindsEntry' /\ InflightIssued'
  BY <1>1 DEF IndInv, TypeOK, CompletionFindsEntry, InflightIssued
<1>4. FrontierExact' /\ WaitTargetAhead'
  BY <1>1 DEF IndInv, FrontierExact, WaitTargetAhead
<1>5. QED
  BY <1>2, <1>3, <1>4 DEF IndInv

\* cleanup of a finished CTA drops entries no store in flight refers to.
LEMMA ReleaseCtaInd ==
    ASSUME IndInv, NEW c \in Ctas, ReleaseCta(c)
    PROVE  IndInv'
<1>1. \A w \in WarpsOf(c) : inflight[w] = {} /\ exited[w] /\ w \in Warps
  BY DEF ReleaseCta, Releasable, WarpsOf
<1>2. /\ FreshLedger(WarpsOf(c))
      /\ exited' = [w \in Warps |-> IF w \in WarpsOf(c) THEN FALSE ELSE exited[w]]
      /\ UNCHANGED <<atBarrier, inflight, issued>>
  BY DEF ReleaseCta
<1>3. TypeOK'
  <2>1. 0 \in 0..MaxGroup /\ 1 \in 1..(MaxGroup + 1)
    BY MaxGroupAssumption
  <2>2. /\ [t \in Tx |-> 0] \in [Tx -> 0..MaxGroup]
        /\ [g \in GroupIds |-> {}] \in [GroupIds -> SUBSET Tx]
    BY <2>1
  <2>3. txToGroup' \in [Warps -> [Tx -> 0..MaxGroup]]
    BY <1>2, <2>2 DEF IndInv, TypeOK, FreshLedger
  <2>4. contained' \in [Warps -> [GroupIds -> SUBSET Tx]]
    BY <1>2, <2>2 DEF IndInv, TypeOK, FreshLedger
  <2>5. /\ present' \in [Warps -> BOOLEAN] /\ isWaiting' \in [Warps -> BOOLEAN]
        /\ exited' \in [Warps -> BOOLEAN] /\ openTxs' \in [Warps -> SUBSET Tx]
    BY <1>2 DEF IndInv, TypeOK, FreshLedger
  <2>6. /\ nextGroup' \in [Warps -> 1..(MaxGroup + 1)]
        /\ latest' \in [Warps -> 0..MaxGroup] /\ waitingGroup' \in [Warps -> 0..MaxGroup]
    BY <1>2, <2>1 DEF IndInv, TypeOK, FreshLedger
  <2>7. QED
    BY <1>2, <2>3, <2>4, <2>5, <2>6 DEF IndInv, TypeOK
<1>4. LedgerConsistent'
  BY <1>1, <1>2 DEF IndInv, LedgerConsistent, FreshLedger, GroupIds, TypeOK
<1>5. CompletionFindsEntry' /\ InflightIssued'
  BY <1>1, <1>2 DEF IndInv, CompletionFindsEntry, InflightIssued, FreshLedger
<1>6. FrontierExact'
  BY <1>2 DEF IndInv, FrontierExact, FreshLedger, GroupIds, TypeOK
<1>7. WaitTargetAhead'
  BY <1>1, <1>2 DEF IndInv, WaitTargetAhead, FreshLedger
<1>8. QED
  BY <1>3, <1>4, <1>5, <1>6, <1>7 DEF IndInv

\* Every step preserves the inductive invariant.
LEMMA StepInd == IndInv /\ [Next]_vars => IndInv'
<1> SUFFICES ASSUME IndInv, [Next]_vars PROVE IndInv'
  OBVIOUS
<1>1. ASSUME NEW w \in Warps, NEW t \in Tx, AddTx(w, t) PROVE IndInv'
  BY <1>1, AddTxInd
<1>2. ASSUME NEW w \in Warps, Commit(w) PROVE IndInv'
  BY <1>2, CommitInd
<1>3. ASSUME NEW w \in Warps, NEW n \in 0..MaxGroup, Wait(w, n) PROVE IndInv'
  BY <1>3, WaitInd
<1>4. ASSUME NEW w \in Warps, Exit(w) PROVE IndInv'
  BY <1>4, ExitInd
<1>5. ASSUME NEW w \in Warps, NEW t \in Tx, CompleteTx(w, t) PROVE IndInv'
  BY <1>5, CompleteCommittedInd, CompleteOpenInd
<1>6. ASSUME NEW c \in Ctas, ReleaseCta(c) PROVE IndInv'
  BY <1>6, ReleaseCtaInd
<1>7. CASE UNCHANGED vars
  BY <1>7 DEF IndInv, vars, ledger, TypeOK, LedgerConsistent,
              CompletionFindsEntry, FrontierExact, WaitTargetAhead, InflightIssued
<1>8. QED
  BY <1>1, <1>2, <1>3, <1>4, <1>5, <1>6, <1>7 DEF Next

\* The inductive invariant holds throughout: the ledger's two indices, the
\* TMA unit, the frontier and the waits agree in every reachable state.
THEOREM Invariance == Spec => []IndInv
  BY InitInd, StepInd, PTL DEF Spec

-----------------------------------------------------------------------------
(* The checked properties. *)

\* The ledger is well typed.
THEOREM TypeCorrect == Spec => []TypeOK
<1>1. IndInv => TypeOK
  BY DEF IndInv
<1>2. QED
  BY <1>1, Invariance, PTL

\* tx_to_group, pending_groups, pending_txs and the TMA unit agree: the
\* assertion in complete_tx that a store's group exists cannot fail.
THEOREM LedgerAgrees == Spec => []LedgerConsistent
<1>1. IndInv => LedgerConsistent
  BY DEF IndInv
<1>2. QED
  BY <1>1, Invariance, PTL

\* The manager's assertion that a completing store finds its warp's entry
\* cannot fail, even though CTA slots are released and reused.
THEOREM EntriesOutliveStores == Spec => []CompletionFindsEntry
<1>1. IndInv => CompletionFindsEntry
  BY DEF IndInv
<1>2. QED
  BY <1>1, Invariance, PTL

\* latest_completed_group_id is always exact.
THEOREM FrontierIsExact == Spec => []FrontierExact
<1>1. IndInv => FrontierExact
  BY DEF IndInv
<1>2. QED
  BY <1>1, Invariance, PTL

\* A parked warp always waits for a store that will still complete.
THEOREM WakeupNeverLost == Spec => []NoLostWakeup
<1>1. ASSUME IndInv PROVE NoLostWakeup
  <2>1. SUFFICES ASSUME NEW w \in Warps, isWaiting[w]
                 PROVE  \E g \in 1..waitingGroup[w] : contained[w][g] \cap inflight[w] # {}
    BY <1>1 DEF IndInv, WaitTargetAhead, NoLostWakeup
  <2> DEFINE g == latest[w] + 1
  <2>2. /\ latest[w] \in Nat /\ waitingGroup[w] \in 0..MaxGroup /\ nextGroup[w] \in Nat
        /\ latest[w] < waitingGroup[w] /\ waitingGroup[w] < nextGroup[w]
    BY <1>1, <2>1 DEF IndInv, WaitTargetAhead, TypeOK
  <2>3. g \in GroupIds /\ g \in 1..waitingGroup[w] /\ g < nextGroup[w]
    BY <2>2, MaxGroupAssumption DEF GroupIds
  <2>4. contained[w][g] # {} /\ contained[w][g] \in SUBSET Tx
    BY <1>1, <2>3 DEF IndInv, FrontierExact, TypeOK
  <2>5. PICK t \in Tx : t \in contained[w][g]
    BY <2>4
  <2>6. txToGroup[w][t] # 0
    BY <1>1, <2>2, <2>3, <2>5 DEF IndInv, LedgerConsistent
  <2>7. t \in inflight[w]
    BY <1>1, <2>6 DEF IndInv, LedgerConsistent
  <2>8. QED
    BY <2>3, <2>5, <2>7
<1>2. QED
  BY <1>1, Invariance, PTL

\* A step that ends a wait has moved the frontier to the wait's target.
LEMMA WakeReachesTarget ==
    ASSUME IndInv, [Next]_vars, NEW w \in Warps, isWaiting[w], ~isWaiting'[w]
    PROVE  latest'[w] >= waitingGroup[w]
<1>1. ASSUME NEW v \in Warps, NEW t \in Tx, CompleteTx(v, t), txToGroup[v][t] # 0
      PROVE  latest'[w] >= waitingGroup[w]
  <2> DEFINE g0 == txToGroup[v][t]
             rest == [contained[v] EXCEPT ![g0] = @ \ {t}]
             l == SkipCompleted(rest, v, g0)
  <2>1. /\ latest' = [latest EXCEPT ![v] = l]
        /\ isWaiting' = [isWaiting EXCEPT ![v] = @ /\ ~WaitSatisfied(v, l)]
    BY <1>1 DEF CompleteTx, CompleteCommitted
  <2> HIDE DEF l
  <2>2. v = w
    BY <2>1 DEF IndInv, TypeOK
  <2>3. WaitSatisfied(w, l)
    BY <2>1, <2>2 DEF IndInv, TypeOK, WaitSatisfied
  <2>4. QED
    BY <2>1, <2>2, <2>3 DEF WaitSatisfied, IndInv, TypeOK
<1>2. ASSUME NEW v \in Warps, NEW t \in Tx, CompleteTx(v, t), txToGroup[v][t] = 0
      PROVE  FALSE
  BY <1>2 DEF CompleteTx, CompleteOpen
<1>3. ASSUME NEW v \in Warps, NEW n \in 0..MaxGroup, Wait(v, n) PROVE FALSE
  BY <1>3 DEF Wait, IndInv, TypeOK
<1>4. ASSUME NEW c \in Ctas, ReleaseCta(c) PROVE FALSE
  <2>1. w \notin WarpsOf(c)
    BY <1>4 DEF ReleaseCta, Releasable, IndInv, WaitTargetAhead
  <2>2. QED
    BY <1>4, <2>1 DEF ReleaseCta, FreshLedger
<1>5. QED
  BY <1>1, <1>2, <1>3, <1>4 DEF Next, AddTx, Commit, Exit, vars, ledger

\* A wait ends only once every group it named is complete.
THEOREM WaitsEndComplete == Spec => WaitEndsComplete
<1>1. ASSUME IndInv, IndInv', [Next]_vars, NEW w \in Warps, isWaiting[w], ~isWaiting'[w]
      PROVE  \A g \in 1..waitingGroup[w] : contained'[w][g] = {}
  <2>1. latest'[w] >= waitingGroup[w]
    BY <1>1, WakeReachesTarget
  <2>2. waitingGroup[w] \in 0..MaxGroup /\ latest'[w] \in 0..MaxGroup
    BY <1>1 DEF IndInv, TypeOK
  <2>3. \A g \in GroupIds : g <= latest'[w] => contained'[w][g] = {}
    BY <1>1 DEF IndInv, FrontierExact
  <2>4. \A g \in 1..waitingGroup[w] : g \in GroupIds /\ g <= latest'[w]
    BY <2>1, <2>2, MaxGroupAssumption DEF GroupIds
  <2>5. QED
    BY <2>3, <2>4
<1>2. IndInv /\ IndInv' /\ [Next]_vars =>
        [\A w \in Warps : (isWaiting[w] /\ ~isWaiting'[w]) =>
            \A g \in 1..waitingGroup[w] : contained'[w][g] = {}]_vars
  BY <1>1
<1>3. QED
  BY <1>2, Invariance, PTL DEF Spec, WaitEndsComplete

-----------------------------------------------------------------------------
(* The refinement. *)

\* The waiting threshold under the refinement mapping.
MappedWait(w) == IF isWaiting[w] THEN waitingGroup[w] ELSE 0

\* The initial states map to initial states of the specification by sets.
LEMMA MapInit == Init => Abstract!Init
  BY DEF Init, Abstract!Init, Abstract!Groups, GroupIds

\* add_tx maps to Add.
LEMMA MapAddTx ==
    ASSUME IndInv, NEW w \in Warps, NEW t \in Tx, AddTx(w, t)
    PROVE  Abstract!Add(w, t)
  BY DEF IndInv, WaitTargetAhead, AddTx, CanIssue, Abstract!Add

\* Both branches of commit_group map to Commit.
LEMMA MapCommit ==
    ASSUME IndInv, NEW w \in Warps, Commit(w)
    PROVE  Abstract!Commit(w)
<1> DEFINE n == nextGroup[w]
<1>0. n \in GroupIds /\ n \in Nat
  BY MaxGroupAssumption DEF IndInv, TypeOK, GroupIds, Commit
<1>1. /\ n \in GroupIds /\ contained[w][n] = {} /\ n \in Nat
      /\ nextGroup \in [Warps -> 1..(MaxGroup + 1)]
      /\ contained \in [Warps -> [GroupIds -> SUBSET Tx]]
      /\ openTxs \in [Warps -> SUBSET Tx]
  <2>1. /\ nextGroup \in [Warps -> 1..(MaxGroup + 1)]
        /\ contained \in [Warps -> [GroupIds -> SUBSET Tx]]
        /\ openTxs \in [Warps -> SUBSET Tx]
    BY DEF IndInv, TypeOK
  <2>2. \A g \in GroupIds : g >= nextGroup[w] => contained[w][g] = {}
    BY DEF IndInv, FrontierExact
  <2>3. QED
    BY <1>0, <2>1, <2>2
<1>2. nextGroup' = [nextGroup EXCEPT ![w] = n + 1] /\ n <= MaxGroup
  BY DEF Commit
<1>3. [v \in Warps |-> nextGroup'[v] - 1] =
        [[v \in Warps |-> nextGroup[v] - 1] EXCEPT ![w] = @ + 1]
  <2>1. ASSUME NEW v \in Warps
        PROVE  nextGroup'[v] - 1 =
                 [[u \in Warps |-> nextGroup[u] - 1] EXCEPT ![w] = @ + 1][v]
    <3>1. CASE v = w
      BY <1>1, <1>2, <3>1
    <3>2. CASE v # w
      BY <1>1, <1>2, <3>2
    <3>3. QED
      BY <3>1, <3>2
  <2>2. QED
    BY <2>1
<1>4. [v \in Warps |-> nextGroup[v] - 1][w] + 1 = n
  BY <1>1
<1>5. [v \in Warps |-> nextGroup[v] - 1][w] < MaxGroup
  BY <1>1, <1>2, MaxGroupAssumption
<1>6. contained' = [contained EXCEPT ![w][n] = openTxs[w]]
  <2>1. CASE openTxs[w] # {}
    BY <2>1 DEF Commit
  <2>2. CASE openTxs[w] = {}
    <3>1. contained' = contained
      BY <2>2 DEF Commit
    <3>2. [contained[w] EXCEPT ![n] = {}] = contained[w]
      BY <1>1
    <3>3. [contained EXCEPT ![w] = contained[w]] = contained
      BY <1>1
    <3>4. QED
      BY <2>2, <3>1, <3>2, <3>3
  <2>3. QED
    BY <2>1, <2>2
<1>7. openTxs' = [openTxs EXCEPT ![w] = {}]
  BY <1>1 DEF Commit
<1>8. UNCHANGED <<isWaiting, waitingGroup>> /\ ~isWaiting[w]
  BY DEF Commit, CanIssue, IndInv, WaitTargetAhead
<1>9. QED
  BY <1>3, <1>4, <1>5, <1>6, <1>7, <1>8 DEF Abstract!Commit

\* A wait_group that parks the warp maps to Wait: the counter comparison
\* n < IncompleteCount says that one of the groups named is incomplete.
LEMMA MapWait ==
    ASSUME IndInv, NEW w \in Warps, NEW n \in 0..MaxGroup, Wait(w, n)
    PROVE  Abstract!Wait(w, n)
<1> DEFINE k == nextGroup[w] - 1
           t == WaitTarget(w, n)
<1>1. /\ nextGroup[w] \in 1..(MaxGroup + 1) /\ latest[w] \in 0..MaxGroup
      /\ latest[w] < nextGroup[w] /\ n < IncompleteCount(w)
  BY DEF IndInv, TypeOK, FrontierExact, Wait
<1>2. n < k /\ t = k - n /\ t \in 1..MaxGroup /\ latest[w] < t
  BY <1>1, MaxGroupAssumption DEF IncompleteCount, WaitTarget
<1>3. contained[w][latest[w] + 1] # {} /\ latest[w] + 1 \in GroupIds
  BY <1>1, <1>2, MaxGroupAssumption DEF IndInv, FrontierExact, GroupIds, IncompleteCount
<1>4. ~Abstract!Done(contained[w], t)
  BY <1>1, <1>2, <1>3 DEF Abstract!Done, Abstract!Groups, GroupIds
<1>5. /\ waitingGroup' = [waitingGroup EXCEPT ![w] = t]
      /\ isWaiting' = [isWaiting EXCEPT ![w] = TRUE] /\ ~isWaiting[w]
      /\ UNCHANGED <<openTxs, nextGroup, contained>>
  BY DEF Wait, CanIssue, IndInv, WaitTargetAhead
<1>6. [v \in Warps |-> MappedWait(v)'] = [[v \in Warps |-> MappedWait(v)] EXCEPT ![w] = t]
  BY <1>5 DEF MappedWait, IndInv, TypeOK
<1>7. QED
  BY <1>2, <1>4, <1>5, <1>6 DEF Abstract!Wait, MappedWait

\* Both branches of complete_tx remove the store from wherever it is, and end
\* the wait exactly when the groups it names are empty.
LEMMA MapComplete ==
    ASSUME IndInv, IndInv', NEW w \in Warps, NEW t \in Tx, CompleteTx(w, t)
    PROVE  Abstract!Finish(w, t)
<1>1. nextGroup' = nextGroup /\ waitingGroup' = waitingGroup
  BY DEF CompleteTx
<1>2. openTxs' = [openTxs EXCEPT ![w] = @ \ {t}]
  <2>1. CASE txToGroup[w][t] # 0
    <3>1. openTxs' = openTxs /\ t \notin openTxs[w]
      BY <2>1 DEF CompleteTx, CompleteCommitted, IndInv, LedgerConsistent
    <3>2. QED
      BY <3>1 DEF IndInv, TypeOK
  <2>2. CASE txToGroup[w][t] = 0
    BY <2>2 DEF CompleteTx, CompleteOpen
  <2>3. QED
    BY <2>1, <2>2
<1>3. contained' = [contained EXCEPT ![w] = [g \in GroupIds |-> contained[w][g] \ {t}]]
  <2>0. contained \in [Warps -> [GroupIds -> SUBSET Tx]]
    BY DEF IndInv, TypeOK
  <2>1. \A g \in GroupIds : t \in contained[w][g] <=> txToGroup[w][t] = g
    BY DEF IndInv, LedgerConsistent
  <2>2. CASE txToGroup[w][t] # 0
    <3>1. contained' = [contained EXCEPT ![w] =
                            [contained[w] EXCEPT ![txToGroup[w][t]] = @ \ {t}]]
      BY <2>2 DEF CompleteTx, CompleteCommitted
    <3>2. [contained[w] EXCEPT ![txToGroup[w][t]] = @ \ {t}] =
             [g \in GroupIds |-> contained[w][g] \ {t}]
      BY <2>0, <2>1
    <3>3. QED
      BY <3>1, <3>2
  <2>3. CASE txToGroup[w][t] = 0
    <3>1. contained' = contained
      BY <2>3 DEF CompleteTx, CompleteOpen
    <3>2. contained[w] = [g \in GroupIds |-> contained[w][g] \ {t}]
      <4>1. \A g \in GroupIds : t \notin contained[w][g]
        BY <2>1, <2>3 DEF GroupIds
      <4>2. QED
        BY <2>0, <4>1
    <3>3. [contained EXCEPT ![w] = contained[w]] = contained
      BY <2>0
    <3>4. QED
      BY <3>1, <3>2, <3>3
  <2>4. QED
    BY <2>2, <2>3
<1>4. /\ \A v \in Warps : v # w => isWaiting'[v] = isWaiting[v]
      /\ isWaiting'[w] => isWaiting[w]
  BY DEF CompleteTx, CompleteCommitted, CompleteOpen, IndInv, TypeOK
<1>5. isWaiting[w] => (isWaiting'[w] <=> ~Abstract!Done(contained'[w], waitingGroup[w]))
  <2> SUFFICES ASSUME isWaiting[w]
               PROVE  isWaiting'[w] <=> ~Abstract!Done(contained'[w], waitingGroup[w])
    OBVIOUS
  <2>1. CASE isWaiting'[w]
    <3>1. /\ latest'[w] \in 0..MaxGroup /\ waitingGroup[w] \in 0..MaxGroup
          /\ nextGroup'[w] \in 1..(MaxGroup + 1)
          /\ latest'[w] < waitingGroup[w] /\ waitingGroup[w] < nextGroup'[w]
      BY <1>1, <2>1 DEF IndInv, TypeOK, WaitTargetAhead
    <3>2. latest'[w] + 1 \in GroupIds /\ latest'[w] + 1 < nextGroup'[w]
      BY <3>1, MaxGroupAssumption DEF GroupIds
    <3>3. contained'[w][latest'[w] + 1] # {}
      BY <3>2 DEF IndInv, FrontierExact
    <3>4. QED
      BY <2>1, <3>1, <3>2, <3>3 DEF Abstract!Done, Abstract!Groups, GroupIds
  <2>2. CASE ~isWaiting'[w]
    <3>1. Next
      BY DEF Next
    <3>2. latest'[w] >= waitingGroup[w]
      BY <2>2, <3>1, WakeReachesTarget
    <3>3. /\ latest'[w] \in 0..MaxGroup /\ waitingGroup[w] \in 0..MaxGroup
          /\ \A g \in GroupIds : g <= latest'[w] => contained'[w][g] = {}
      BY DEF IndInv, TypeOK, FrontierExact
    <3>4. QED
      BY <2>2, <3>2, <3>3 DEF Abstract!Done, Abstract!Groups, GroupIds
  <2>3. QED
    BY <2>1, <2>2
<1>6. Abstract!Done(contained'[w], 0)
  BY DEF Abstract!Done, Abstract!Groups
<1>7. [v \in Warps |-> MappedWait(v)'] =
        [[v \in Warps |-> MappedWait(v)] EXCEPT ![w] =
            IF Abstract!Done(contained'[w], @) THEN 0 ELSE @]
  <2>1. MappedWait(w)' = IF Abstract!Done(contained'[w], MappedWait(w)) THEN 0 ELSE MappedWait(w)
    BY <1>1, <1>4, <1>5, <1>6 DEF MappedWait
  <2>2. \A v \in Warps : v # w => MappedWait(v)' = MappedWait(v)
    BY <1>1, <1>4 DEF MappedWait
  <2>3. QED
    BY <2>1, <2>2
<1>8. QED
  BY <1>1, <1>2, <1>3, <1>7 DEF Abstract!Finish, Abstract!Groups, GroupIds, MappedWait

\* cleanup of a CTA maps to Restart of its warps.
LEMMA MapRelease ==
    ASSUME IndInv, NEW c \in Ctas, ReleaseCta(c)
    PROVE  Abstract!Restart(WarpsOf(c))
<1>1. \A w \in WarpsOf(c) : w \in Warps /\ inflight[w] = {} /\ exited[w]
  BY DEF ReleaseCta, Releasable, WarpsOf
<1>2. \A w \in WarpsOf(c) : openTxs[w] = {}
  BY <1>1 DEF IndInv, LedgerConsistent, TypeOK
<1>3. \A w \in WarpsOf(c) : \A g \in GroupIds : contained[w][g] = {}
  <2>1. ASSUME NEW w \in WarpsOf(c), NEW g \in GroupIds PROVE contained[w][g] = {}
    <3>1. w \in Warps /\ contained[w][g] \in SUBSET Tx /\ g # 0
      <4>1. w \in Warps /\ g # 0
        BY <1>1 DEF GroupIds
      <4>2. QED
        BY <4>1 DEF IndInv, TypeOK
    <3>2. \A t \in Tx : t \notin contained[w][g]
      BY <1>1, <3>1 DEF IndInv, LedgerConsistent
    <3>3. QED
      BY <3>1, <3>2
  <2>2. QED
    BY <2>1
<1>4. \A w \in WarpsOf(c) : ~isWaiting[w]
  BY <1>1 DEF IndInv, WaitTargetAhead
<1>5. FreshLedger(WarpsOf(c))
  BY DEF ReleaseCta
<1>6. openTxs' = openTxs
  BY <1>1, <1>2, <1>5 DEF FreshLedger, IndInv, TypeOK
<1>7. contained' = contained
  <2>1. \A w \in WarpsOf(c) : contained[w] = [g \in GroupIds |-> {}]
    BY <1>1, <1>3 DEF IndInv, TypeOK
  <2>2. QED
    BY <1>5, <2>1 DEF FreshLedger, IndInv, TypeOK
<1>8. [w \in Warps |-> MappedWait(w)'] = [w \in Warps |-> MappedWait(w)]
  BY <1>4, <1>5 DEF FreshLedger, MappedWait
<1>9. [w \in Warps |-> nextGroup'[w] - 1] =
        [w \in Warps |-> IF w \in WarpsOf(c) THEN 0
                         ELSE [v \in Warps |-> nextGroup[v] - 1][w]]
  BY <1>5 DEF FreshLedger
<1>10. QED
  BY <1>1, <1>2, <1>3, <1>4, <1>6, <1>7, <1>8, <1>9
     DEF Abstract!Restart, Abstract!Done, Abstract!Groups, GroupIds, MappedWait

\* The counter-based ledger implements the specification by sets, for any
\* number of warps, stores and groups.
THEOREM Refinement == Spec => ImplementsSpec
<1>1. ASSUME IndInv, IndInv', [Next]_vars PROVE [Abstract!Next]_(Abstract!specVars)
  <2>1. ASSUME NEW w \in Warps, NEW t \in Tx, AddTx(w, t) PROVE Abstract!Next
    BY <1>1, <2>1, MapAddTx DEF Abstract!Next
  <2>2. ASSUME NEW w \in Warps, Commit(w) PROVE Abstract!Next
    BY <1>1, <2>2, MapCommit DEF Abstract!Next
  <2>3. ASSUME NEW w \in Warps, NEW n \in 0..MaxGroup, Wait(w, n) PROVE Abstract!Next
    BY <1>1, <2>3, MapWait DEF Abstract!Next
  <2>4. ASSUME NEW w \in Warps, Exit(w) PROVE UNCHANGED Abstract!specVars
    BY <2>4 DEF Exit, ledger, Abstract!specVars
  <2>5. ASSUME NEW w \in Warps, NEW t \in Tx, CompleteTx(w, t) PROVE Abstract!Next
    BY <1>1, <2>5, MapComplete DEF Abstract!Next
  <2>6. ASSUME NEW c \in Ctas, ReleaseCta(c) PROVE Abstract!Next
    <3>1. WarpsOf(c) \in SUBSET Warps
      BY DEF WarpsOf
    <3>2. QED
      BY <1>1, <2>6, <3>1, MapRelease DEF Abstract!Next
  <2>7. CASE UNCHANGED vars
    BY <2>7 DEF vars, ledger, Abstract!specVars
  <2>8. QED
    BY <1>1, <2>1, <2>2, <2>3, <2>4, <2>5, <2>6, <2>7 DEF Next
<1>2. QED
  BY <1>1, MapInit, Invariance, PTL DEF Spec, ImplementsSpec, Abstract!Spec

=============================================================================
