--------------------------- MODULE CpAsyncProofs ---------------------------
(***************************************************************************)
(* Proofs about CpAsync for any number of CTA slots, warps, lanes, copies  *)
(* and arrivals.  The inductive invariant adds to the checked properties   *)
(* what the issue queue holds, where the numbers of transactions, groups   *)
(* and arrivals lie, that a delayed release has few enough groups, and     *)
(* that a recorded arrival lists what is left of its copies.               *)
(***************************************************************************)
EXTENDS CpAsync, TLAPS, FiniteSetTheorems, SequenceTheorems

TxIds == 1..(nextTx - 1)

\* i is the ledger of a warp; its groups are numbered below the next one.
IsLedger(i) ==
    /\ i = [next |-> i.next, open |-> i.open, groups |-> i.groups, isWaiting |-> i.isWaiting]
    /\ i.next \in Nat \ {0} /\ i.isWaiting \in BOOLEAN
    /\ i.groups = [g \in DOMAIN i.groups |-> i.groups[g]]
    /\ DOMAIN i.groups \subseteq 1..(i.next - 1)

TypeOK ==
    /\ setup \in Setups
    /\ nextTx \in Nat \ {0} /\ nextMark \in Nat \ {0}
    /\ DOMAIN tx \subseteq TxIds
    /\ \A t \in DOMAIN tx : tx[t] \in [w : Warps, lanes : SUBSET Lanes, parts : Nat \ {0}]
    /\ tx = [t \in DOMAIN tx |-> tx[t]]
    /\ queue \in Seq(DOMAIN tx)
    /\ inflight \in Nat
    /\ info = [w \in Warps |-> info[w]] /\ \A w \in Warps : IsLedger(info[w])
    /\ waiting \subseteq Warps /\ releases \subseteq Warps
    /\ live \subseteq Slots /\ running \subseteq Warps
    /\ allowance \in [Warps -> Nat]
    /\ before \in [Marks -> SUBSET TxIds]
    /\ delivered \in [Marks -> Nat]

\* A transaction is queued once.
QueueOnce == \A i, j \in DOMAIN queue : queue[i] = queue[j] => i = j

\* Only a parked warp is being released, for the reason that few enough groups
\* are pending; only a running warp is parked, and it runs in a live slot.
ReleasesDue ==
    /\ releases \subseteq waiting /\ waiting \subseteq running
    /\ \A w \in running : w[1] \in live
    /\ \A w \in releases : Cardinality(Groups(w)) <= allowance[w]

\* An arrive is recorded exactly while some of its copies are under way, and
\* its record lists those.
ArrivalsRecorded ==
    /\ DOMAIN arrivals = {a \in Marks : a < nextMark /\ before[a] \cap DOMAIN tx # {}}
    /\ \A a \in DOMAIN arrivals : arrivals[a] = before[a] \cap DOMAIN tx

\* The inductive invariant.
IndInv ==
    /\ TypeOK
    /\ QueueOnce
    /\ ReleasesDue
    /\ LedgerExact
    /\ ArrivalsRecorded
    /\ ArrivalsExact

\* What LedgerExact says of one warp, and of the requests in flight.
WarpLedger(w) ==
    /\ Live(w) = info[w].open \cup UNION {info[w].groups[g] : g \in Groups(w)}
    /\ \A g \in Groups(w) : /\ info[w].groups[g] # {}
                            /\ info[w].groups[g] \cap info[w].open = {}
                            /\ \A h \in Groups(w) \ {g} :
                                  info[w].groups[g] \cap info[w].groups[h] = {}
    /\ Live(w) # {} => w[1] \in live
    /\ w \in waiting => \/ w \in releases
                        \/ info[w].isWaiting /\ Cardinality(Groups(w)) > allowance[w]
    /\ info[w].isWaiting => w \in waiting \ releases

InflightExact ==
    /\ inflight = Cardinality(DOMAIN tx \ Range(queue))
    /\ MaxInflight > 0 => inflight <= MaxInflight

-----------------------------------------------------------------------------
(* Facts about the operators. *)

\* LedgerExact is a statement about each warp and one about the requests out.
LEMMA LedgerParts == LedgerExact <=> (\A w \in Warps : WarpLedger(w)) /\ InflightExact
  BY DEF LedgerExact, WarpLedger, InflightExact

\* The groups of a ledger are finitely many, and so are the transactions.
LEMMA GroupsFinite ==
    ASSUME NEW i, IsLedger(i)
    PROVE  /\ IsFiniteSet(DOMAIN i.groups)
           /\ Cardinality(DOMAIN i.groups) \in Nat
<1>1. IsFiniteSet(1..(i.next - 1))
  BY FS_Interval DEF IsLedger
<1>2. IsFiniteSet(DOMAIN i.groups)
  BY <1>1, FS_Subset DEF IsLedger
<1>3. QED
  BY <1>2, FS_CardinalityType

\* The transactions are finitely many.
LEMMA TxFinite ==
    ASSUME TypeOK
    PROVE  IsFiniteSet(DOMAIN tx) /\ \A S \in SUBSET DOMAIN tx : IsFiniteSet(S)
<1>1. 1 \in Int /\ nextTx - 1 \in Int /\ DOMAIN tx \subseteq TxIds
  BY DEF TypeOK
<1>2. IsFiniteSet(TxIds)
  BY <1>1, FS_Interval DEF TxIds
<1>3. QED
  BY <1>1, <1>2, FS_Subset

\* Changing fields of a ledger.
LEMMA LedgerExcept ==
    ASSUME NEW i, IsLedger(i), NEW v
    PROVE  /\ [i EXCEPT !.isWaiting = v]
                = [next |-> i.next, open |-> i.open, groups |-> i.groups, isWaiting |-> v]
           /\ [i EXCEPT !.open = v]
                = [next |-> i.next, open |-> v, groups |-> i.groups, isWaiting |-> i.isWaiting]
<1>1. i = [next |-> i.next, open |-> i.open, groups |-> i.groups, isWaiting |-> i.isWaiting]
  BY DEF IsLedger
<1>2. [i EXCEPT !.isWaiting = v]
        = [next |-> i.next, open |-> i.open, groups |-> i.groups, isWaiting |-> v]
  BY <1>1
<1>3. [i EXCEPT !.open = v]
        = [next |-> i.next, open |-> v, groups |-> i.groups, isWaiting |-> i.isWaiting]
  BY <1>1
<1>4. QED
  BY <1>2, <1>3

\* complete_tx: the transaction leaves the ledger, and a group that it was the
\* last one of is not pending any more.
LEMMA LedgerFields ==
    ASSUME NEW i, IsLedger(i), NEW t
    PROVE  LET j == Ledger(i, t)
           IN  /\ IsLedger(j)
               /\ j.next = i.next /\ j.isWaiting = i.isWaiting
               /\ j.open = i.open \ {t}
               /\ DOMAIN j.groups = {g \in DOMAIN i.groups : i.groups[g] # {t}}
               /\ \A g \in DOMAIN j.groups : j.groups[g] = i.groups[g] \ {t}
<1> DEFINE own == {g \in DOMAIN i.groups : t \in i.groups[g]}
           shrunk == [g \in DOMAIN i.groups |-> i.groups[g] \ {t}]
           gone == {g \in own : shrunk[g] = {}}
           left == Without(shrunk, gone)
           j == Ledger(i, t)
<1>1. j = [i EXCEPT !.open = @ \ {t}, !.groups = left]
  BY DEF Ledger
<1>2. left = [g \in DOMAIN i.groups \ gone |-> i.groups[g] \ {t}]
  BY DEF Without
<1>3. j = [next |-> i.next, open |-> i.open \ {t}, groups |-> left, isWaiting |-> i.isWaiting]
  <2> HIDE DEF j, left
  <2>1. QED
    BY <1>1 DEF IsLedger
<1>4. gone = {g \in DOMAIN i.groups : i.groups[g] = {t}}
  OBVIOUS
<1>5. DOMAIN left = {g \in DOMAIN i.groups : i.groups[g] # {t}}
  BY <1>2, <1>4
<1>6. \A g \in DOMAIN left : left[g] = i.groups[g] \ {t}
  BY <1>2
<1> HIDE DEF j, left
<1>7. left = [g \in DOMAIN left |-> left[g]]
  BY <1>2
<1>8. QED
  BY <1>3, <1>5, <1>6, <1>7 DEF IsLedger, j

-----------------------------------------------------------------------------
(* The inductive invariant, one lemma per action. *)

\* The unit starts empty.
LEMMA InitInd == Init => IndInv
<1> SUFFICES ASSUME Init PROVE IndInv
  OBVIOUS
<1> USE CpAsyncAssumption
<1>1. IsLedger(NoInfo)
  BY DEF NoInfo, IsLedger
<1>2. TypeOK
  BY <1>1 DEF Init, TypeOK, TxIds, Marks
<1>3. QueueOnce /\ ReleasesDue
  BY DEF Init, QueueOnce, ReleasesDue
<1>4. ArrivalsRecorded /\ ArrivalsExact
  <2>1. nextMark = 1 /\ DOMAIN arrivals = {} /\ \A a \in Marks : ~(a < 1)
    BY DEF Init, Marks
  <2>2. QED
    BY <2>1 DEF Init, ArrivalsRecorded, ArrivalsExact
<1>5. LedgerExact
  BY FS_EmptySet DEF Init, NoInfo, LedgerExact, Live, Groups, Range
<1>6. QED
  BY <1>2, <1>3, <1>4, <1>5 DEF IndInv

\* A delayed release ends a wait whose groups are few enough already.
LEMMA DelayedReleaseInd ==
    ASSUME IndInv, NEW w \in Warps, DelayedRelease(w)
    PROVE  IndInv'
<1> USE DEF IndInv, DelayedRelease, markVars, ctaVars
<1>1. TypeOK'
  BY DEF TypeOK, TxIds
<1>2. QueueOnce' /\ ArrivalsRecorded' /\ ArrivalsExact'
  BY DEF QueueOnce, ArrivalsRecorded, ArrivalsExact
<1>3. ~info[w].isWaiting
  BY LedgerParts DEF WarpLedger
<1>4. ReleasesDue'
  BY DEF ReleasesDue, Groups, TypeOK
<1>5. LedgerExact'
  <2>1. InflightExact'
    BY LedgerParts DEF InflightExact
  <2>2. ASSUME NEW v \in Warps PROVE WarpLedger(v)'
    <3>1. WarpLedger(v)
      BY LedgerParts
    <3>2. CASE v = w
      BY <1>3, <3>1, <3>2 DEF WarpLedger, Live, Groups
    <3>3. CASE v # w
      BY <3>1, <3>3 DEF WarpLedger, Live, Groups, TypeOK
    <3>4. QED
      BY <3>2, <3>3
  <2>3. QED
    BY <2>1, <2>2, LedgerParts DEF LedgerExact, WarpLedger, InflightExact
<1>6. QED
  BY <1>1, <1>2, <1>4, <1>5

\* A warp that exits is not parked.
LEMMA ExitInd ==
    ASSUME IndInv, NEW w \in Warps, Exit(w)
    PROVE  IndInv'
<1> USE DEF IndInv, Exit, CanIssue, waitVars, markVars
<1>1. TypeOK'
  BY DEF TypeOK, TxIds
<1>2. QueueOnce' /\ ArrivalsRecorded' /\ ArrivalsExact'
  BY DEF QueueOnce, ArrivalsRecorded, ArrivalsExact
<1>3. ReleasesDue'
  BY DEF ReleasesDue, Groups
<1>4. LedgerExact'
  BY DEF LedgerExact, Live, Groups
<1>5. QED
  BY <1>1, <1>2, <1>3, <1>4

\* A CTA takes a free slot.
LEMMA IssueCtaInd ==
    ASSUME IndInv, NEW c \in Slots, IssueCta(c)
    PROVE  IndInv'
<1> USE DEF IndInv, IssueCta, waitVars, markVars
<1>1. {c} \X (1..setup.warps) \subseteq Warps
  BY CpAsyncAssumption, SMTT(40) DEF TypeOK, Warps
<1>2. TypeOK'
  BY <1>1 DEF TypeOK, TxIds
<1>3. QueueOnce' /\ ArrivalsRecorded' /\ ArrivalsExact'
  BY DEF QueueOnce, ArrivalsRecorded, ArrivalsExact
<1>4. ReleasesDue'
  BY DEF ReleasesDue, Groups
<1>5. LedgerExact'
  BY DEF LedgerExact, Live, Groups
<1>6. QED
  BY <1>2, <1>3, <1>4, <1>5

\* The slot of a CTA with nothing pending is given back.
LEMMA CleanupInd ==
    ASSUME IndInv, NEW c \in Slots, cleanup_cta(c)
    PROVE  IndInv'
<1> USE DEF IndInv, cleanup_cta, waitVars, markVars
<1>1. IsLedger(NoInfo) /\ Cardinality(DOMAIN NoInfo.groups) = 0
  BY FS_EmptySet DEF NoInfo, IsLedger
<1>2. \A w \in Warps : info'[w] = IF w[1] = c THEN NoInfo ELSE info[w]
  OBVIOUS
<1>3. TypeOK'
  BY <1>1 DEF TypeOK, TxIds
<1>4. QueueOnce' /\ ArrivalsRecorded' /\ ArrivalsExact'
  BY DEF QueueOnce, ArrivalsRecorded, ArrivalsExact
<1>5. \A w \in Warps : w[1] = c => w \in WarpsOf(c)
  BY DEF Warps, WarpsOf
<1>6. \A w \in running : w[1] # c
  BY <1>5 DEF TypeOK
<1>7. ReleasesDue'
  <2>1. \A w \in releases : w[1] # c /\ w \in Warps
    BY <1>6 DEF ReleasesDue, TypeOK
  <2>2. QED
    BY <1>2, <1>6, <2>1 DEF ReleasesDue, Groups
<1>8. LedgerExact'
  <2>1. InflightExact'
    BY LedgerParts DEF InflightExact
  <2>2. ASSUME NEW v \in Warps PROVE WarpLedger(v)'
    <3>1. WarpLedger(v) /\ Live(v)' = Live(v)
      BY LedgerParts DEF Live
    <3>2. CASE v[1] = c
      <4>1. v \notin waiting /\ v \notin running
        BY <1>6, <3>2 DEF ReleasesDue
      <4>2. Live(v) = {}
        BY <3>2 DEF Live, has_pending_for_cta
      <4>3. QED
        BY <1>2, <3>1, <3>2, <4>1, <4>2 DEF WarpLedger, NoInfo, Groups
    <3>3. CASE v[1] # c
      BY <1>2, <3>1, <3>3 DEF WarpLedger, Groups
    <3>4. QED
      BY <3>2, <3>3
  <2>3. QED
    BY <2>1, <2>2 DEF LedgerExact, WarpLedger, InflightExact
<1>9. QED
  BY <1>3, <1>4, <1>7, <1>8

\* A request is sent: it leaves the queue and is in flight.
LEMMA IssueRequestsInd ==
    ASSUME IndInv, issue_cp_async_requests
    PROVE  IndInv'
<1> USE DEF IndInv, issue_cp_async_requests, waitVars, markVars, ctaVars
<1>1. /\ queue \in Seq(DOMAIN tx) /\ queue # <<>> /\ Len(queue) \in Nat
      /\ Len(queue) >= 1
      /\ DOMAIN queue = 1..Len(queue)
      /\ queue' \in Seq(DOMAIN tx)
      /\ Len(queue') = Len(queue) - 1 /\ DOMAIN queue' = 1..(Len(queue) - 1)
      /\ \A i \in 1..(Len(queue) - 1) : queue'[i] = queue[i + 1]
  BY DEF TypeOK
<1>2. Range(queue') = Range(queue) \ {queue[1]}
  <2>1. \A i \in 2..Len(queue) : /\ i - 1 \in 1..(Len(queue) - 1) /\ (i - 1) + 1 = i
                                 /\ i \in 1..Len(queue)
    BY <1>1
  <2>2. \A i \in 2..Len(queue) : queue[i] # queue[1]
    BY <1>1, <2>1 DEF QueueOnce
  <2>3. \A i \in 1..(Len(queue) - 1) : i + 1 \in 2..Len(queue)
    BY <1>1
  <2>4. \A i \in 1..Len(queue) : i = 1 \/ i \in 2..Len(queue)
    BY <1>1
  <2>5. ASSUME NEW x \in Range(queue') PROVE x \in Range(queue) \ {queue[1]}
    <3>1. PICK i \in 1..(Len(queue) - 1) : x = queue'[i]
      BY <1>1, <2>5 DEF Range
    <3>2. QED
      BY <1>1, <2>1, <2>2, <2>3, <3>1 DEF Range
  <2>6. ASSUME NEW x \in Range(queue) \ {queue[1]} PROVE x \in Range(queue')
    <3>1. PICK i \in 1..Len(queue) : x = queue[i]
      BY <1>1, <2>6 DEF Range
    <3>2. i \in 2..Len(queue)
      BY <2>4, <2>6, <3>1
    <3>3. x = queue'[i - 1]
      BY <1>1, <2>1, <3>1, <3>2
    <3>4. QED
      BY <1>1, <2>1, <3>2, <3>3 DEF Range
  <2>7. QED
    BY <2>5, <2>6
<1>3. TypeOK'
  BY <1>1, SMTT(40) DEF TypeOK, TxIds
<1>4. QueueOnce'
  <2>1. \A i, j \in 1..(Len(queue) - 1) : /\ i + 1 \in 1..Len(queue) /\ j + 1 \in 1..Len(queue)
                                          /\ i + 1 = j + 1 => i = j
    BY <1>1
  <2>2. QED
    BY <1>1, <2>1 DEF QueueOnce
<1>5. ReleasesDue' /\ ArrivalsRecorded' /\ ArrivalsExact'
  BY DEF ReleasesDue, ArrivalsRecorded, ArrivalsExact, Groups
<1>6. LedgerExact'
  <2>1. InflightExact'
    <3>1. queue[1] \in DOMAIN tx /\ queue[1] \in Range(queue)
      BY <1>1 DEF Range
    <3>2. DOMAIN tx' \ Range(queue') = (DOMAIN tx \ Range(queue)) \cup {queue[1]}
      BY <1>2, <3>1
    <3>3. IsFiniteSet(DOMAIN tx \ Range(queue))
      BY TxFinite
    <3>4. Cardinality(DOMAIN tx' \ Range(queue')) = Cardinality(DOMAIN tx \ Range(queue)) + 1
      BY <3>1, <3>2, <3>3, FS_AddElement
    <3>5. MaxInflight > 0 => inflight' <= MaxInflight
      <4>1. MaxInflight \in Nat /\ inflight \in Nat /\ inflight' = inflight + 1
        BY CpAsyncAssumption DEF TypeOK
      <4>2. MaxInflight = 0 \/ inflight < MaxInflight
        BY DEF HasRoom
      <4>3. QED
        BY <4>1, <4>2
    <3>6. QED
      BY <3>4, <3>5, LedgerParts DEF InflightExact
  <2>2. ASSUME NEW v \in Warps PROVE WarpLedger(v)'
    BY LedgerParts DEF WarpLedger, Live, Groups
  <2>3. QED
    BY <2>1, <2>2 DEF LedgerExact, WarpLedger, InflightExact
<1>7. QED
  BY <1>3, <1>4, <1>5, <1>6

\* complete_tx: the ledger is that of Ledger, and a wait ends with it exactly if
\* few enough groups are left.
LEMMA CompleteTx ==
    ASSUME NEW i, IsLedger(i), NEW t, NEW n \in Nat
    PROVE  LET j == complete_tx(i, t, n)
           IN  /\ IsLedger(j)
               /\ j.open = i.open \ {t}
               /\ DOMAIN j.groups = {g \in DOMAIN i.groups : i.groups[g] # {t}}
               /\ \A g \in DOMAIN j.groups : j.groups[g] = i.groups[g] \ {t}
               /\ Cardinality(DOMAIN j.groups) \in Nat
               /\ Cardinality(DOMAIN j.groups) <= Cardinality(DOMAIN i.groups)
               /\ j.isWaiting <=> i.isWaiting /\ Cardinality(DOMAIN j.groups) > n
<1> DEFINE l == Ledger(i, t)
           j == complete_tx(i, t, n)
<1>1. /\ IsLedger(l)
      /\ l.next = i.next /\ l.isWaiting = i.isWaiting
      /\ l.open = i.open \ {t}
      /\ DOMAIN l.groups = {g \in DOMAIN i.groups : i.groups[g] # {t}}
      /\ \A g \in DOMAIN l.groups : l.groups[g] = i.groups[g] \ {t}
  BY LedgerFields
<1>2. j = IF i.isWaiting /\ Cardinality(DOMAIN l.groups) <= n
          THEN [l EXCEPT !.isWaiting = FALSE] ELSE l
  BY DEF complete_tx, Satisfied
<1> HIDE DEF l, j
<1>3. /\ IsLedger(j)
      /\ j.open = l.open /\ j.groups = l.groups
      /\ j.isWaiting = (l.isWaiting /\ ~(i.isWaiting /\ Cardinality(DOMAIN l.groups) <= n))
  BY <1>1, <1>2 DEF IsLedger
<1>4. /\ IsFiniteSet(DOMAIN i.groups) /\ DOMAIN j.groups \subseteq DOMAIN i.groups
      /\ Cardinality(DOMAIN j.groups) \in Nat /\ Cardinality(DOMAIN i.groups) \in Nat
  BY <1>1, <1>3, GroupsFinite
<1>5. Cardinality(DOMAIN j.groups) <= Cardinality(DOMAIN i.groups)
  BY <1>4, FS_Subset
<1>6. j.isWaiting <=> i.isWaiting /\ Cardinality(DOMAIN j.groups) > n
  <2>1. Cardinality(DOMAIN j.groups) <= n <=> ~(Cardinality(DOMAIN j.groups) > n)
    BY <1>4
  <2>2. QED
    BY <1>1, <1>3, <2>1 DEF IsLedger
<1>7. QED
  BY <1>1, <1>3, <1>4, <1>5, <1>6 DEF j

\* A part of an answer that is not the last one.
LEMMA PartialResponseInd ==
    ASSUME IndInv, NEW t \in DOMAIN tx, process_cp_async_response(t), tx[t].parts # 1
    PROVE  IndInv'
<1> USE DEF IndInv, process_cp_async_response, waitVars, markVars, ctaVars
<1>1. /\ DOMAIN tx' = DOMAIN tx
      /\ tx' = [s \in DOMAIN tx' |-> tx'[s]]
      /\ \A s \in DOMAIN tx : /\ tx'[s] \in [w : Warps, lanes : SUBSET Lanes, parts : Nat \ {0}]
                              /\ tx'[s].w = tx[s].w
  <2>1. tx' = [tx EXCEPT ![t] = [tx[t] EXCEPT !.parts = @ - 1]]
    OBVIOUS
  <2>2. tx[t].parts \in Nat \ {0} /\ tx[t].parts - 1 \in Nat \ {0}
    BY DEF TypeOK
  <2>3. /\ [tx[t] EXCEPT !.parts = @ - 1] \in [w : Warps, lanes : SUBSET Lanes, parts : Nat \ {0}]
        /\ [tx[t] EXCEPT !.parts = @ - 1].w = tx[t].w
    BY <2>2 DEF TypeOK
  <2>4. QED
    BY <2>1, <2>3 DEF TypeOK
<1>2. TypeOK'
  BY <1>1 DEF TypeOK, TxIds
<1>3. QueueOnce' /\ ReleasesDue' /\ ArrivalsRecorded' /\ ArrivalsExact'
  BY <1>1 DEF QueueOnce, ReleasesDue, ArrivalsRecorded, ArrivalsExact, Groups
<1>4. LedgerExact'
  <2>1. InflightExact'
    BY <1>1, LedgerParts DEF InflightExact
  <2>2. ASSUME NEW v \in Warps PROVE WarpLedger(v)'
    <3>1. Live(v)' = Live(v)
      BY <1>1 DEF Live
    <3>2. QED
      BY <3>1, LedgerParts DEF WarpLedger, Groups
  <2>3. QED
    BY <2>1, <2>2 DEF LedgerExact, WarpLedger, InflightExact
<1>5. QED
  BY <1>2, <1>3, <1>4

\* The last part of an answer: the transaction is done.
LEMMA LastResponseInd ==
    ASSUME IndInv, NEW t \in DOMAIN tx, process_cp_async_response(t), tx[t].parts = 1
    PROVE  IndInv'
<1> USE DEF IndInv, waitVars, markVars, ctaVars
<1> DEFINE w == tx[t].w
           i == info[w]
           j == complete_tx(info[w], t, allowance[w])
           ready == {a \in DOMAIN arrivals : arrivals[a] = {t}}
<1>1. /\ info' = [info EXCEPT ![w] = j]
      /\ releases' = releases \cup (IF i.isWaiting /\ ~j.isWaiting THEN {w} ELSE {})
      /\ arrivals' = Without([a \in DOMAIN arrivals |-> arrivals[a] \ {t}], ready)
      /\ delivered' = [a \in Marks |-> delivered[a] + IF a \in ready THEN 1 ELSE 0]
      /\ tx' = Without(tx, {t})
      /\ inflight' = inflight - 1 /\ t \notin Range(queue)
      /\ UNCHANGED <<setup, queue, waiting, ctaVars, nextTx, waitVars>>
  BY DEF process_cp_async_response, finalize_cp_async_transaction, release_cp_async_warp,
         ArrivesNow
<1>2. w \in Warps /\ IsLedger(i) /\ allowance[w] \in Nat
  BY DEF TypeOK
<1>3. /\ IsLedger(j)
      /\ j.open = i.open \ {t}
      /\ DOMAIN j.groups = {g \in DOMAIN i.groups : i.groups[g] # {t}}
      /\ \A g \in DOMAIN j.groups : j.groups[g] = i.groups[g] \ {t}
      /\ Cardinality(DOMAIN j.groups) \in Nat
      /\ Cardinality(DOMAIN j.groups) <= Cardinality(DOMAIN i.groups)
      /\ j.isWaiting <=> i.isWaiting /\ Cardinality(DOMAIN j.groups) > allowance[w]
  BY <1>2, CompleteTx
<1> HIDE DEF w, j, ready
<1>4. /\ DOMAIN tx' = DOMAIN tx \ {t}
      /\ \A s \in DOMAIN tx' : tx'[s] = tx[s]
      /\ tx' = [s \in DOMAIN tx' |-> tx'[s]]
  BY <1>1 DEF Without
<1>5. /\ info' = [v \in Warps |-> info'[v]]
      /\ info'[w] = j /\ \A v \in Warps : v # w => info'[v] = info[v]
  BY <1>1, <1>2 DEF TypeOK
<1>6. TypeOK'
  <2>1. queue' \in Seq(DOMAIN tx')
    <3>1. \A k \in 1..Len(queue) : queue[k] \in DOMAIN tx /\ queue[k] # t
      BY <1>1 DEF TypeOK, Range
    <3>2. queue \in Seq(DOMAIN tx \ {t})
      <4>1. queue = [k \in 1..Len(queue) |-> queue[k]] /\ Len(queue) \in Nat
        BY DEF TypeOK
      <4>2. queue \in [1..Len(queue) -> DOMAIN tx \ {t}]
        BY <3>1, <4>1
      <4>3. QED
        BY <4>1, <4>2
    <3>3. QED
      BY <1>1, <1>4, <3>2
  <2>2. inflight' \in Nat
    <3>1. IsFiniteSet(DOMAIN tx \ Range(queue)) /\ t \in DOMAIN tx \ Range(queue)
      BY <1>1, TxFinite
    <3>2. Cardinality(DOMAIN tx \ Range(queue)) # 0
      BY <3>1, FS_EmptySet
    <3>3. QED
      BY <1>1, <3>2, LedgerParts DEF InflightExact, TypeOK
  <2>3. delivered' \in [Marks -> Nat]
    BY <1>1 DEF TypeOK
  <2>4. \A v \in Warps : IsLedger(info'[v])
    BY <1>3, <1>5 DEF TypeOK
  <2>5. QED
    BY <1>1, <1>2, <1>4, <1>5, <2>1, <2>2, <2>3, <2>4 DEF TypeOK, TxIds
<1>7. QueueOnce'
  BY <1>1 DEF QueueOnce
<1>8. Cardinality(DOMAIN i.groups) \in Nat
  BY <1>2, GroupsFinite
<1>9. ReleasesDue'
  <2>1. ASSUME NEW v \in releases'
        PROVE  v \in waiting /\ Cardinality(DOMAIN info'[v].groups) <= allowance[v]
    <3>1. CASE v # w
      BY <1>1, <1>5, <2>1, <3>1 DEF ReleasesDue, Groups, TypeOK
    <3>2. CASE v = w /\ w \in releases
      <4>1. v \in waiting /\ Cardinality(DOMAIN i.groups) <= allowance[w]
        BY <3>2 DEF ReleasesDue, Groups
      <4>2. Cardinality(DOMAIN j.groups) <= allowance[w]
        BY <1>2, <1>3, <1>8, <4>1
      <4>3. QED
        BY <1>5, <3>2, <4>1, <4>2
    <3>3. CASE v = w /\ w \notin releases
      <4>1. i.isWaiting /\ ~j.isWaiting
        BY <1>1, <2>1, <3>3
      <4>2. w \in waiting
        BY <1>2, <4>1, LedgerParts DEF WarpLedger
      <4>3. Cardinality(DOMAIN j.groups) <= allowance[w]
        BY <1>2, <1>3, <4>1
      <4>4. QED
        BY <1>5, <3>3, <4>2, <4>3
    <3>4. QED
      BY <3>1, <3>2, <3>3
  <2>2. QED
    BY <1>1, <2>1 DEF ReleasesDue, Groups
<1>10. ArrivalsRecorded' /\ ArrivalsExact'
  <2>1. /\ DOMAIN arrivals' = DOMAIN arrivals \ ready
        /\ \A a \in DOMAIN arrivals' : arrivals'[a] = arrivals[a] \ {t}
    BY <1>1 DEF Without
  <2>2. before' = before /\ nextMark' = nextMark
    BY <1>1
  <2>3. \A a \in Marks : a \in ready <=> /\ a < nextMark
                                         /\ before[a] \cap DOMAIN tx # {}
                                         /\ before[a] \cap DOMAIN tx' = {}
    BY <1>4 DEF ArrivalsRecorded, ready
  <2>4. ArrivalsRecorded'
    BY <1>4, <2>1, <2>2, <2>3 DEF ArrivalsRecorded
  <2>5. ArrivalsExact'
    <3>1. ASSUME NEW a \in Marks
          PROVE  delivered'[a] = IF a < nextMark /\ before[a] \cap DOMAIN tx' = {} THEN 1 ELSE 0
      <4>1. delivered'[a] = delivered[a] + IF a \in ready THEN 1 ELSE 0
        BY <1>1
      <4>2. delivered[a] = IF a < nextMark /\ before[a] \cap DOMAIN tx = {} THEN 1 ELSE 0
        BY DEF ArrivalsExact
      <4>3. before[a] \cap DOMAIN tx = {} => before[a] \cap DOMAIN tx' = {}
        BY <1>4
      <4>4. QED
        BY <2>3, <4>1, <4>2, <4>3
    <3>2. QED
      BY <2>2, <3>1 DEF ArrivalsExact
  <2>6. QED
    BY <2>4, <2>5
<1>11. LedgerExact'
  <2>1. InflightExact'
    <3>1. DOMAIN tx' \ Range(queue') = (DOMAIN tx \ Range(queue)) \ {t}
      BY <1>1, <1>4
    <3>2. IsFiniteSet(DOMAIN tx \ Range(queue)) /\ t \in DOMAIN tx \ Range(queue)
      BY <1>1, TxFinite
    <3>3. Cardinality(DOMAIN tx' \ Range(queue')) = Cardinality(DOMAIN tx \ Range(queue)) - 1
      BY <3>1, <3>2, FS_RemoveElement
    <3>4. inflight' <= inflight
      BY <1>1 DEF TypeOK
    <3>5. MaxInflight \in Nat /\ inflight \in Nat /\ inflight' \in Nat
      BY <1>6, CpAsyncAssumption DEF TypeOK
    <3>6. QED
      BY <1>1, <3>3, <3>4, <3>5, LedgerParts DEF InflightExact
  <2>2. ASSUME NEW v \in Warps PROVE WarpLedger(v)'
    <3>1. WarpLedger(v)
      BY LedgerParts
    <3>2. CASE v # w
      <4>1. Live(v)' = Live(v)
        BY <1>4, <3>2 DEF Live, w
      <4>2. info'[v] = info[v] /\ (v \in releases' <=> v \in releases)
        BY <1>1, <1>5, <3>2
      <4>3. QED
        BY <1>1, <3>1, <4>1, <4>2 DEF WarpLedger, Groups
    <3>3. CASE v = w
      <4>1. Live(v)' = Live(v) \ {t}
        BY <1>4 DEF Live
      <4>2. info'[v] = j /\ info[v] = i
        BY <1>5, <3>3
      <4>3. Live(v)' = j.open \cup UNION {j.groups[g] : g \in DOMAIN j.groups}
        BY <1>3, <3>1, <4>1, <4>2 DEF WarpLedger, Groups
      <4>4. \A g \in DOMAIN j.groups : /\ j.groups[g] # {}
                                       /\ j.groups[g] \cap j.open = {}
                                       /\ \A h \in DOMAIN j.groups \ {g} :
                                             j.groups[g] \cap j.groups[h] = {}
        BY <1>3, <3>1, <4>2 DEF WarpLedger, Groups
      <4>5. /\ v \in waiting => \/ v \in releases'
                                \/ j.isWaiting /\ Cardinality(DOMAIN j.groups) > allowance[v]
            /\ j.isWaiting => v \in waiting \ releases'
        BY <1>1, <1>3, <3>1, <3>3, <4>2 DEF WarpLedger
      <4>6. Live(v)' # {} => v[1] \in live
        BY <3>1, <4>1 DEF WarpLedger
      <4>7. QED
        BY <1>1, <4>2, <4>3, <4>4, <4>5, <4>6 DEF WarpLedger, Groups
    <3>4. QED
      BY <3>2, <3>3
  <2>3. QED
    BY <2>1, <2>2 DEF LedgerExact, WarpLedger, InflightExact
<1>12. QED
  BY <1>6, <1>7, <1>9, <1>10, <1>11

\* A warp commits: its uncommitted transactions, if there are any, are a new group.
LEMMA CommitInd ==
    ASSUME IndInv, NEW w \in Warps, commit_cp_async_group(w)
    PROVE  IndInv'
<1> USE DEF IndInv, CanIssue, waitVars, markVars, ctaVars
<1> DEFINE i == info[w]
           gs == IF i.open = {} THEN i.groups
                 ELSE [g \in DOMAIN i.groups \cup {i.next} |->
                         IF g = i.next THEN i.open ELSE i.groups[g]]
           j == [next |-> i.next + 1, open |-> {}, groups |-> gs, isWaiting |-> i.isWaiting]
<1>1. IsLedger(i) /\ info = [v \in Warps |-> info[v]]
  BY DEF TypeOK
<1>2. /\ info' = [info EXCEPT ![w] = j]
      /\ w \in running /\ w \notin waiting
      /\ UNCHANGED <<setup, tx, queue, inflight, arrivals, waiting, releases, ctaVars, nextTx,
                     waitVars, delivered>>
  BY DEF commit_cp_async_group
<1>3. /\ DOMAIN gs = DOMAIN i.groups \cup (IF i.open = {} THEN {} ELSE {i.next})
      /\ \A g \in DOMAIN i.groups : gs[g] = i.groups[g]
      /\ i.open # {} => gs[i.next] = i.open
      /\ i.next \notin DOMAIN i.groups
  <2>1. i.next \notin DOMAIN i.groups
    BY <1>1 DEF IsLedger
  <2>2. QED
    BY <2>1
<1>4. gs = [g \in DOMAIN gs |-> gs[g]]
  BY <1>1 DEF IsLedger
<1>5. DOMAIN gs \subseteq 1..i.next
  BY <1>1, <1>3 DEF IsLedger
<1> HIDE DEF gs
<1>6. IsLedger(j)
  BY <1>1, <1>4, <1>5 DEF IsLedger
<1>7. j.open = {} /\ j.groups = gs /\ j.isWaiting = i.isWaiting
  OBVIOUS
<1> HIDE DEF j
<1>8. info'[w] = j /\ \A v \in Warps : v # w => info'[v] = info[v]
  BY <1>1, <1>2
<1>9. TypeOK'
  <2>1. info' = [v \in Warps |-> info'[v]] /\ \A v \in Warps : IsLedger(info'[v])
    BY <1>1, <1>2, <1>6, <1>8 DEF TypeOK
  <2>2. QED
    BY <1>2, <2>1 DEF TypeOK, TxIds
<1>10. QueueOnce' /\ ArrivalsRecorded' /\ ArrivalsExact'
  BY <1>2 DEF QueueOnce, ArrivalsRecorded, ArrivalsExact
<1>11. ReleasesDue'
  <2>1. \A v \in releases : v \in Warps /\ v # w
    BY <1>2 DEF ReleasesDue, TypeOK
  <2>2. QED
    BY <1>2, <1>8, <2>1 DEF ReleasesDue, Groups
<1>12. LedgerExact'
  <2>1. InflightExact'
    BY <1>2, LedgerParts DEF InflightExact
  <2>2. ASSUME NEW v \in Warps PROVE WarpLedger(v)'
    <3>1. WarpLedger(v) /\ Live(v)' = Live(v)
      BY <1>2, LedgerParts DEF Live
    <3>2. CASE v # w
      BY <1>2, <1>8, <3>1, <3>2 DEF WarpLedger, Groups
    <3>3. CASE v = w
      <4>1. Live(v) = j.open \cup UNION {j.groups[g] : g \in DOMAIN j.groups}
        <5>1. Live(v) = i.open \cup UNION {i.groups[g] : g \in DOMAIN i.groups}
          BY <3>1, <3>3 DEF WarpLedger, Groups
        <5>2. CASE i.open = {}
          <6>1. {gs[g] : g \in DOMAIN gs} = {i.groups[g] : g \in DOMAIN i.groups}
            BY <1>3, <5>2
          <6>2. QED
            BY <1>7, <5>1, <5>2, <6>1
        <5>3. CASE i.open # {}
          <6>1. {gs[g] : g \in DOMAIN gs} = {i.groups[g] : g \in DOMAIN i.groups} \cup {i.open}
            BY <1>3, <5>3
          <6>2. UNION {gs[g] : g \in DOMAIN gs} = (UNION {i.groups[g] : g \in DOMAIN i.groups}) \cup i.open
            BY <6>1
          <6>3. QED
            BY <1>7, <5>1, <6>2
        <5>4. QED
          BY <5>2, <5>3
      <4>2. \A g \in DOMAIN gs : /\ gs[g] # {}
                                 /\ \A h \in DOMAIN gs \ {g} : gs[g] \cap gs[h] = {}
        BY <1>3, <3>1, <3>3 DEF WarpLedger, Groups
      <4>3. ~i.isWaiting
        BY <1>2, <3>1, <3>3 DEF WarpLedger
      <4>4. QED
        BY <1>2, <1>7, <1>8, <3>1, <3>3, <4>1, <4>2, <4>3 DEF WarpLedger, Groups
    <3>4. QED
      BY <3>2, <3>3
  <2>3. QED
    BY <2>1, <2>2 DEF LedgerExact, WarpLedger, InflightExact
<1>13. QED
  BY <1>9, <1>10, <1>11, <1>12

\* A warp waits for its groups: it parks, and a release is due at once or when few
\* enough groups are left.
LEMMA WaitInd ==
    ASSUME IndInv, NEW w \in Warps, NEW n \in 0..1, wait_cp_async_group(w, n)
    PROVE  IndInv'
<1> USE DEF IndInv, CanIssue, markVars, ctaVars
<1> DEFINE i == info[w]
           few == Cardinality(DOMAIN i.groups) <= n
<1>1. IsLedger(i) /\ info = [v \in Warps |-> info[v]]
  BY DEF TypeOK
<1>2. /\ w \in running /\ w \notin waiting
      /\ waiting' = waiting \cup {w}
      /\ allowance' = [allowance EXCEPT ![w] = n]
      /\ few => releases' = releases \cup {w} /\ info' = info
      /\ ~few => info' = [info EXCEPT ![w] = [i EXCEPT !.isWaiting = TRUE]] /\ releases' = releases
      /\ UNCHANGED <<setup, tx, queue, inflight, arrivals, ctaVars, nextTx, markVars, delivered>>
  BY DEF wait_cp_async_group, Satisfied, release_cp_async_warp
<1>3. /\ IsLedger(info'[w]) /\ info' = [v \in Warps |-> info'[v]]
      /\ info'[w].open = i.open /\ info'[w].groups = i.groups
      /\ (few => info'[w].isWaiting = i.isWaiting) /\ (~few => info'[w].isWaiting)
      /\ \A v \in Warps : v # w => info'[v] = info[v]
  <2>1. CASE few
    BY <1>1, <1>2, <2>1
  <2>2. CASE ~few
    <3> DEFINE k == [i EXCEPT !.isWaiting = TRUE]
    <3>1. k = [next |-> i.next, open |-> i.open, groups |-> i.groups, isWaiting |-> TRUE]
      <4> HIDE DEF i
      <4>1. QED
        BY <1>1, LedgerExcept
    <3>2. IsLedger(k) /\ k.open = i.open /\ k.groups = i.groups /\ k.isWaiting
      BY <1>1, <3>1 DEF IsLedger
    <3> HIDE DEF k
    <3>3. info'[w] = k
      BY <1>1, <1>2, <2>2 DEF k
    <3>4. QED
      BY <1>1, <1>2, <2>2, <3>2, <3>3
  <2>3. QED
    BY <2>1, <2>2
<1>4. /\ allowance'[w] = n /\ \A v \in Warps : v # w => allowance'[v] = allowance[v]
      /\ allowance' \in [Warps -> Nat]
  BY <1>2 DEF TypeOK
<1>5. Cardinality(DOMAIN i.groups) \in Nat
  BY <1>1, GroupsFinite
<1>6. ~few => Cardinality(DOMAIN i.groups) > n
  BY <1>5
<1> HIDE DEF few
<1>7. TypeOK'
  <2>1. \A v \in Warps : IsLedger(info'[v])
    BY <1>3 DEF TypeOK
  <2>2. waiting' \subseteq Warps /\ releases' \subseteq Warps
    BY <1>2 DEF TypeOK
  <2>3. QED
    BY <1>2, <1>3, <1>4, <2>1, <2>2 DEF TypeOK, TxIds
<1>8. QueueOnce' /\ ArrivalsRecorded' /\ ArrivalsExact'
  BY <1>2 DEF QueueOnce, ArrivalsRecorded, ArrivalsExact
<1>9. ReleasesDue'
  <2>1. \A v \in releases : v \in Warps /\ v # w
    BY <1>2 DEF ReleasesDue, TypeOK
  <2>2. releases' \subseteq waiting' /\ waiting' \subseteq running' /\ \A v \in running' : v[1] \in live'
    BY <1>2 DEF ReleasesDue
  <2>3. ASSUME NEW v \in releases' PROVE Cardinality(Groups(v)') <= allowance'[v]
    <3>1. CASE v # w
      BY <1>2, <1>3, <1>4, <2>1, <2>3, <3>1 DEF ReleasesDue, Groups
    <3>2. CASE v = w
      BY <1>2, <1>3, <1>4, <2>1, <2>3, <3>2 DEF Groups, few
    <3>3. QED
      BY <3>1, <3>2
  <2>4. QED
    BY <2>2, <2>3 DEF ReleasesDue, Groups
<1>10. LedgerExact'
  <2>1. InflightExact'
    BY <1>2, LedgerParts DEF InflightExact
  <2>2. ASSUME NEW v \in Warps PROVE WarpLedger(v)'
    <3>1. WarpLedger(v) /\ Live(v)' = Live(v)
      BY <1>2, LedgerParts DEF Live
    <3>2. CASE v # w
      BY <1>2, <1>3, <1>4, <3>1, <3>2 DEF WarpLedger, Groups
    <3>3. CASE v = w
      <4>1. ~i.isWaiting /\ w \notin releases
        BY <1>2, <3>1, <3>3 DEF WarpLedger, ReleasesDue
      <4>2. CASE few
        BY <1>2, <1>3, <1>4, <3>1, <3>3, <4>1, <4>2 DEF WarpLedger, Groups
      <4>3. CASE ~few
        BY <1>2, <1>3, <1>4, <1>6, <3>1, <3>3, <4>1, <4>3 DEF WarpLedger, Groups
      <4>4. QED
        BY <4>2, <4>3
    <3>4. QED
      BY <3>2, <3>3
  <2>3. QED
    BY <2>1, <2>2 DEF LedgerExact, WarpLedger, InflightExact
<1>11. QED
  BY <1>7, <1>8, <1>9, <1>10

\* SetToSeq enumerates a finite set, each element once.
LEMMA Enumerates ==
    ASSUME NEW S, IsFiniteSet(S)
    PROVE  /\ Cardinality(S) \in Nat
           /\ SetToSeq(S) \in [1..Cardinality(S) -> S]
           /\ \A x \in S : \E k \in 1..Cardinality(S) : SetToSeq(S)[k] = x
           /\ \A k, l \in 1..Cardinality(S) : SetToSeq(S)[k] = SetToSeq(S)[l] => k = l
<1> DEFINE D == 1..Cardinality(S)
           f == SetToSeq(S)
<1>1. Cardinality(S) \in Nat /\ ExistsBijection(D, S)
  BY FS_CardinalityType
<1>2. PICK b \in [D -> S] : IsInjective(b)
  BY <1>1 DEF ExistsBijection, Bijection, Injection
<1>3. f \in [D -> S] /\ IsInjective(f)
  BY <1>2 DEF SetToSeq
<1> HIDE DEF f
<1>4. f \in Injection(D, S)
  BY <1>3 DEF Injection
<1>5. Cardinality(D) = Cardinality(S)
  <2>1. 1 \in Int /\ Cardinality(S) \in Int
    BY <1>1
  <2>2. Cardinality(D) = IF 1 > Cardinality(S) THEN 0 ELSE Cardinality(S) - 1 + 1
    BY <2>1, FS_Interval
  <2>3. QED
    BY <1>1, <2>2
<1>6. f \in Surjection(D, S)
  BY <1>4, <1>5, FS_Injection
<1>7. QED
  BY <1>1, <1>3, <1>6 DEF f, Surjection, IsInjective

\* n numbers from a on.
LEMMA IntervalSize ==
    ASSUME NEW a \in Nat, NEW n \in Nat
    PROVE  Cardinality(a..(a + n - 1)) = n
<1>1. a \in Int /\ a + n - 1 \in Int
  OBVIOUS
<1>2. Cardinality(a..(a + n - 1)) = IF a > a + n - 1 THEN 0 ELSE a + n - 1 - a + 1
  BY <1>1, FS_Interval
<1>3. QED
  BY <1>2

\* The read requests of a copy are finitely many, each for lanes of the warp.
LEMMA CoalescedFinite ==
    ASSUME NEW accesses \in Coalesced
    PROVE  IsFiniteSet(accesses) /\ accesses \subseteq SUBSET Lanes
<1>1. accesses = {Lanes} \/ accesses = {{l} : l \in Lanes}
  BY DEF Coalesced
<1>2. CASE accesses = {Lanes}
  BY <1>2, FS_Singleton
<1>3. CASE accesses = {{l} : l \in Lanes}
  <2> DEFINE f == [l \in Lanes |-> {l}]
  <2>1. f \in Surjection(Lanes, accesses)
    BY <1>3 DEF Surjection
  <2>2. IsFiniteSet(accesses)
    BY <2>1, CpAsyncAssumption, FS_Surjection
  <2>3. QED
    BY <1>3, <2>2
<1>4. QED
  BY <1>1, <1>2, <1>3

\* A copy: with idealized memory it takes numbers only, else its transactions are
\* uncommitted and queued.
LEMMA CopyInd ==
    ASSUME IndInv, NEW w \in Warps, warp_reaches_cp_async(w)
    PROVE  IndInv'
<1> USE DEF IndInv, CanIssue, waitVars, markVars, ctaVars
<1>1. PICK accesses \in Coalesced :
        LET new == nextTx..(nextTx + Cardinality(accesses) - 1)
            seq == SetToSeq(accesses)
            added == [info EXCEPT ![w].open = @ \cup new]
        IN  /\ CanIssue(w) /\ new \subseteq 1..setup.txs
            /\ nextTx' = nextTx + Cardinality(accesses)
            /\ IF setup.idealized
               THEN UNCHANGED <<tx, info, queue>>
               ELSE /\ info' = added
                    /\ tx' = [t \in DOMAIN tx \cup new |->
                                IF t \in new
                                THEN [w |-> w, lanes |-> seq[t - nextTx + 1], parts |-> setup.parts]
                                ELSE tx[t]]
                    /\ queue' = queue \o [i \in 1..Cardinality(new) |-> nextTx + i - 1]
            /\ UNCHANGED <<setup, inflight, arrivals, waiting, releases, ctaVars, waitVars,
                           delivered>>
  BY DEF warp_reaches_cp_async
<1> DEFINE n == Cardinality(accesses)
           new == nextTx..(nextTx + n - 1)
           seq == SetToSeq(accesses)
           i == info[w]
           j == [i EXCEPT !.open = i.open \cup new]
<1>2. /\ n \in Nat /\ nextTx \in Nat \ {0} /\ seq \in [1..n -> accesses]
      /\ accesses \subseteq SUBSET Lanes /\ nextTx' = nextTx + n
  BY <1>1, CoalescedFinite, Enumerates DEF TypeOK
<1>3. TxIds \subseteq TxIds' /\ new \subseteq TxIds' /\ new \cap TxIds = {} /\ nextTx' \in Nat \ {0}
  BY <1>2 DEF TxIds
<1>4. before \in [Marks -> SUBSET TxIds']
  BY <1>3 DEF TypeOK
<1>5. CASE setup.idealized
  <2>1. TypeOK'
    BY <1>1, <1>3, <1>4, <1>5 DEF TypeOK
  <2>2. QueueOnce' /\ ReleasesDue' /\ ArrivalsRecorded' /\ ArrivalsExact'
    BY <1>1, <1>5 DEF QueueOnce, ReleasesDue, ArrivalsRecorded, ArrivalsExact, Groups
  <2>3. LedgerExact'
    BY <1>1, <1>5 DEF LedgerExact, Live, Groups
  <2>4. QED
    BY <2>1, <2>2, <2>3
<1>6. CASE ~setup.idealized
  <2>1. /\ w \in running /\ w \notin waiting
        /\ info' = [info EXCEPT ![w] = j]
        /\ tx' = [t \in DOMAIN tx \cup new |->
                    IF t \in new
                    THEN [w |-> w, lanes |-> seq[t - nextTx + 1], parts |-> setup.parts]
                    ELSE tx[t]]
        /\ queue' = queue \o [k \in 1..Cardinality(new) |-> nextTx + k - 1]
        /\ UNCHANGED <<setup, inflight, arrivals, waiting, releases, ctaVars, waitVars, delivered>>
    BY <1>1, <1>6
  <2>2. Cardinality(new) = n
    <3> HIDE DEF n
    <3>1. QED
      BY <1>2, IntervalSize
  <2>3. setup.parts \in Nat \ {0}
    BY CpAsyncAssumption DEF TypeOK
  <2>4. /\ DOMAIN tx \subseteq TxIds /\ DOMAIN tx' = DOMAIN tx \cup new
        /\ DOMAIN tx \cap new = {}
        /\ \A t \in DOMAIN tx : tx'[t] = tx[t]
        /\ \A t \in new : tx'[t].w = w
        /\ \A t \in DOMAIN tx' : tx'[t] \in [w : Warps, lanes : SUBSET Lanes, parts : Nat \ {0}]
        /\ tx' = [t \in DOMAIN tx' |-> tx'[t]]
    <3>1. DOMAIN tx \subseteq TxIds /\ DOMAIN tx \cap new = {} /\ DOMAIN tx' = DOMAIN tx \cup new
      BY <1>3, <2>1 DEF TypeOK
    <3>2. \A t \in DOMAIN tx : tx'[t] = tx[t]
      BY <2>1, <3>1
    <3>3. \A t \in new : /\ tx'[t] = [w |-> w, lanes |-> seq[t - nextTx + 1], parts |-> setup.parts]
                         /\ t - nextTx + 1 \in 1..n
      BY <1>2, <2>1
    <3>4. \A t \in new : seq[t - nextTx + 1] \in SUBSET Lanes
      BY <1>2, <3>3
    <3>5. ASSUME NEW t \in new
          PROVE  /\ tx'[t].w = w
                 /\ tx'[t] \in [w : Warps, lanes : SUBSET Lanes, parts : Nat \ {0}]
      <4> DEFINE ls == seq[t - nextTx + 1]
      <4>1. tx'[t] = [w |-> w, lanes |-> ls, parts |-> setup.parts] /\ ls \in SUBSET Lanes
        BY <3>3, <3>4
      <4> HIDE DEF ls
      <4>2. QED
        BY <2>3, <4>1
    <3>6. \A t \in DOMAIN tx' : tx'[t] \in [w : Warps, lanes : SUBSET Lanes, parts : Nat \ {0}]
      BY <3>1, <3>2, <3>5 DEF TypeOK
    <3>7. tx' = [t \in DOMAIN tx' |-> tx'[t]]
      BY <2>1
    <3>8. QED
      BY <3>1, <3>2, <3>5, <3>6, <3>7
  <2> HIDE DEF n, new, seq
  <2>5. IsLedger(i) /\ info = [v \in Warps |-> info[v]]
    BY DEF TypeOK
  <2>6. IsLedger(j) /\ j.open = i.open \cup new /\ j.groups = i.groups /\ j.isWaiting = i.isWaiting
    <3> DEFINE o == i.open \cup new
    <3>1. j = [next |-> i.next, open |-> o, groups |-> i.groups, isWaiting |-> i.isWaiting]
      <4> HIDE DEF i, o
      <4>1. [i EXCEPT !.open = o]
              = [next |-> i.next, open |-> o, groups |-> i.groups, isWaiting |-> i.isWaiting]
        BY <2>5, LedgerExcept
      <4>2. QED
        BY <4>1 DEF o
    <3>2. QED
      BY <2>5, <3>1 DEF IsLedger
  <2> HIDE DEF j
  <2>7. /\ info'[w] = j /\ \A v \in Warps : v # w => info'[v] = info[v]
        /\ info' = [v \in Warps |-> info'[v]]
    BY <2>1, <2>5
  <2> DEFINE q == [k \in 1..n |-> nextTx + k - 1]
  <2>8. /\ queue \in Seq(DOMAIN tx) /\ queue' = queue \o q
        /\ \A k \in 1..n : q[k] \in new
        /\ \A t \in new : t - nextTx + 1 \in 1..n /\ q[t - nextTx + 1] = t
        /\ \A k, l \in 1..n : q[k] = q[l] => k = l
        /\ q \in Seq(new) /\ Len(q) = n
    <3>1. queue \in Seq(DOMAIN tx) /\ queue' = queue \o q
      BY <2>1, <2>2 DEF TypeOK
    <3>2. \A k \in 1..n : q[k] = nextTx + k - 1 /\ nextTx + k - 1 \in new
      BY <1>2 DEF new
    <3>3. \A t \in new : t - nextTx + 1 \in 1..n /\ nextTx + (t - nextTx + 1) - 1 = t
      BY <1>2 DEF new
    <3>4. \A k, l \in 1..n : nextTx + k - 1 = nextTx + l - 1 => k = l
      BY <1>2
    <3>5. q \in [1..n -> new]
      BY <3>2
    <3>6. q \in Seq(new) /\ Len(q) = n
      <4> HIDE DEF q
      <4>1. QED
        BY <1>2, <3>5
    <3>7. QED
      BY <3>1, <3>2, <3>3, <3>4, <3>6
  <2> HIDE DEF q
  <2>9. /\ Len(queue) \in Nat /\ queue' \in Seq(DOMAIN tx')
        /\ Len(queue') = Len(queue) + n
        /\ \A k \in 1..Len(queue') :
              /\ k <= Len(queue) => queue'[k] = queue[k]
              /\ k > Len(queue) => queue'[k] = q[k - Len(queue)] /\ k - Len(queue) \in 1..n
    <3>1. queue \in Seq(DOMAIN tx') /\ q \in Seq(DOMAIN tx')
      BY <2>4, <2>8, SeqMonotonic
    <3>2. queue' \in Seq(DOMAIN tx') /\ Len(queue') = Len(queue) + Len(q)
      <4> DEFINE T == DOMAIN tx'
      <4> HIDE DEF T
      <4>1. queue \in Seq(T) /\ q \in Seq(T)
        BY <3>1 DEF T
      <4>2. queue \o q \in Seq(T) /\ Len(queue \o q) = Len(queue) + Len(q)
        BY <4>1, ConcatProperties
      <4>3. QED
        BY <2>8, <4>2 DEF T
    <3>3. QED
      BY <1>2, <2>8, <3>1, <3>2
  <2>10. /\ DOMAIN queue = 1..Len(queue) /\ DOMAIN queue' = 1..Len(queue')
         /\ \A k \in 1..Len(queue) : queue[k] \in DOMAIN tx
    BY <2>8, <2>9
  <2>11. \A k \in 1..Len(queue) : k \in 1..Len(queue') /\ queue'[k] = queue[k]
    BY <1>2, <2>9
  <2>12. Range(queue') = Range(queue) \cup new
    <3>1. ASSUME NEW x \in Range(queue') PROVE x \in Range(queue) \cup new
      <4>1. PICK k \in 1..Len(queue') : x = queue'[k]
        BY <2>10, <3>1 DEF Range
      <4>2. CASE k <= Len(queue)
        <5>1. k \in 1..Len(queue)
          BY <2>9, <4>2
        <5>2. QED
          BY <2>10, <2>11, <4>1, <5>1 DEF Range
      <4>3. CASE k > Len(queue)
        BY <2>8, <2>9, <4>1, <4>3
      <4>4. QED
        BY <2>9, <4>2, <4>3
    <3>2. ASSUME NEW x \in Range(queue) PROVE x \in Range(queue')
      <4>1. PICK k \in 1..Len(queue) : x = queue[k]
        BY <2>10, <3>2 DEF Range
      <4>2. QED
        BY <2>10, <2>11, <4>1 DEF Range
    <3>3. ASSUME NEW t \in new PROVE t \in Range(queue')
      <4> DEFINE k == Len(queue) + (t - nextTx + 1)
      <4>1. t - nextTx + 1 \in 1..n /\ q[t - nextTx + 1] = t
        BY <2>8
      <4>2. k \in 1..Len(queue') /\ k > Len(queue) /\ k - Len(queue) = t - nextTx + 1
        BY <1>2, <2>9, <4>1
      <4>3. queue'[k] = t
        BY <2>9, <4>1, <4>2
      <4>4. QED
        BY <2>10, <4>2, <4>3 DEF Range
    <3>4. QED
      BY <3>1, <3>2, <3>3
  <2>13. TypeOK'
    <3>1. \A v \in Warps : IsLedger(info'[v])
      BY <2>6, <2>7 DEF TypeOK
    <3>2. DOMAIN tx' \subseteq TxIds'
      BY <1>3, <2>4 DEF new
    <3>3. QED
      BY <1>3, <1>4, <2>1, <2>4, <2>7, <2>9, <3>1, <3>2 DEF TypeOK
  <2>14. QueueOnce'
    <3>1. ASSUME NEW k \in 1..Len(queue'), NEW l \in 1..Len(queue'), queue'[k] = queue'[l]
          PROVE  k = l
      <4>1. /\ k <= Len(queue) => k \in 1..Len(queue) /\ queue'[k] \in DOMAIN tx
            /\ l <= Len(queue) => l \in 1..Len(queue) /\ queue'[l] \in DOMAIN tx
            /\ k > Len(queue) => queue'[k] \in new
            /\ l > Len(queue) => queue'[l] \in new
        BY <2>8, <2>9, <2>10
      <4>2. CASE k <= Len(queue) /\ l <= Len(queue)
        BY <2>10, <2>11, <3>1, <4>1, <4>2 DEF QueueOnce
      <4>3. CASE k > Len(queue) /\ l > Len(queue)
        <5>1. k - Len(queue) = l - Len(queue)
          BY <2>8, <2>9, <3>1, <4>3
        <5>2. QED
          BY <2>9, <5>1
      <4>4. k <= Len(queue) <=> ~(k > Len(queue))
        BY <2>9
      <4>5. l <= Len(queue) <=> ~(l > Len(queue))
        BY <2>9
      <4>6. QED
        BY <2>4, <3>1, <4>1, <4>2, <4>3, <4>4, <4>5
    <3>2. QED
      BY <2>10, <3>1 DEF QueueOnce
  <2>15. ReleasesDue'
    <3>1. \A v \in releases : v \in Warps /\ v # w
      BY <2>1 DEF ReleasesDue, TypeOK
    <3>2. QED
      BY <2>1, <2>7, <3>1 DEF ReleasesDue, Groups
  <2>16. ArrivalsRecorded' /\ ArrivalsExact'
    <3>1. \A a \in Marks : before[a] \cap DOMAIN tx' = before[a] \cap DOMAIN tx
      BY <1>3, <2>4 DEF TypeOK, new
    <3>2. QED
      BY <2>1, <3>1 DEF ArrivalsRecorded, ArrivalsExact
  <2>17. LedgerExact'
    <3>1. InflightExact'
      <4>1. DOMAIN tx' \ Range(queue') = DOMAIN tx \ Range(queue)
        BY <2>4, <2>12
      <4>2. QED
        BY <2>1, <4>1, LedgerParts DEF InflightExact
    <3>2. ASSUME NEW v \in Warps PROVE WarpLedger(v)'
      <4>1. WarpLedger(v)
        BY LedgerParts
      <4>2. CASE v # w
        <5>1. Live(v)' = Live(v)
          BY <2>4, <4>2 DEF Live
        <5>2. QED
          BY <2>1, <2>7, <4>1, <4>2, <5>1 DEF WarpLedger, Groups
      <4>3. CASE v = w
        <5>1. Live(v)' = Live(v) \cup new
          BY <2>4, <4>3 DEF Live
        <5>2. Live(v)' = j.open \cup UNION {j.groups[g] : g \in DOMAIN j.groups}
          BY <2>6, <4>1, <4>3, <5>1 DEF WarpLedger, Groups
        <5>3. Live(v) \cap new = {}
          BY <2>4 DEF Live
        <5>4. \A g \in DOMAIN i.groups : i.groups[g] \subseteq Live(v)
          BY <4>1, <4>3 DEF WarpLedger, Groups
        <5>5. \A g \in DOMAIN j.groups : /\ j.groups[g] # {}
                                         /\ j.groups[g] \cap j.open = {}
                                         /\ \A h \in DOMAIN j.groups \ {g} :
                                               j.groups[g] \cap j.groups[h] = {}
          BY <2>6, <4>1, <4>3, <5>3, <5>4 DEF WarpLedger, Groups
        <5>6. v[1] \in live
          BY <2>1, <4>3 DEF ReleasesDue
        <5>7. ~i.isWaiting
          BY <2>1, <4>1, <4>3 DEF WarpLedger
        <5>8. QED
          BY <2>1, <2>6, <2>7, <4>3, <5>2, <5>5, <5>6, <5>7 DEF WarpLedger, Groups
      <4>4. QED
        BY <4>2, <4>3
    <3>3. QED
      BY <3>1, <3>2 DEF LedgerExact, WarpLedger, InflightExact
  <2>18. QED
    BY <2>13, <2>14, <2>15, <2>16, <2>17
<1>7. QED
  BY <1>5, <1>6

\* cp.async.mbarrier.arrive: the lanes with copies under way are recorded, the
\* others arrive.
LEMMA ArriveInd ==
    ASSUME IndInv, NEW w \in Warps, NEW lanes \in SUBSET Lanes,
           warp_reaches_cp_async_mbarrier_arrive(w, lanes)
    PROVE  IndInv'
<1> USE DEF IndInv, ctaVars
<1> DEFINE n == Cardinality(lanes)
           seq == SetToSeq(lanes)
           uid(l) == nextMark + (CHOOSE i \in DOMAIN seq : seq[i] = l) - 1
           pend(l) == {t \in DOMAIN tx : tx[t].w = w /\ l \in tx[t].lanes}
           late == {l \in lanes : pend(l) # {}}
           laneOf(a) == seq[a - nextMark + 1]
           new == nextMark..(nextMark + n - 1)
           recorded == {a \in new : pend(laneOf(a)) # {}}
<1>1. /\ new \subseteq 1..setup.marks
      /\ nextMark' = nextMark + n
      /\ before' = [a \in Marks |-> IF a \in new THEN pend(laneOf(a)) ELSE before[a]]
      /\ arrivals' = [a \in DOMAIN arrivals \cup {uid(l) : l \in late} |->
                        IF a \in new THEN pend(laneOf(a)) ELSE arrivals[a]]
      /\ delivered' = [a \in Marks |->
                         delivered[a] + IF a \in new /\ laneOf(a) \notin late THEN 1 ELSE 0]
      /\ UNCHANGED <<setup, tx, queue, inflight, info, waiting, releases, ctaVars, nextTx,
                     allowance>>
  BY DEF warp_reaches_cp_async_mbarrier_arrive
<1>2. IsFiniteSet(lanes)
  BY CpAsyncAssumption, FS_Subset
<1>3. /\ n \in Nat /\ seq \in [1..n -> lanes] /\ nextMark \in Nat \ {0}
      /\ \A l \in lanes : \E k \in 1..n : seq[k] = l
      /\ \A k, l \in 1..n : seq[k] = seq[l] => k = l
  BY <1>2, Enumerates DEF TypeOK
<1> HIDE DEF seq, n
<1>4. new \subseteq Marks
  <2>1. setup.marks \in 0..MaxMarks /\ MaxMarks \in Nat
    BY CpAsyncAssumption DEF TypeOK
  <2>2. 1..setup.marks \subseteq 1..MaxMarks
    BY <2>1
  <2>3. QED
    BY <1>1, <2>2 DEF Marks
<1>5. \A a \in new : a - nextMark + 1 \in 1..n /\ laneOf(a) \in lanes
  BY <1>3
<1>6. \A l \in lanes : uid(l) \in new /\ laneOf(uid(l)) = l
  <2>1. ASSUME NEW l \in lanes PROVE uid(l) \in new /\ laneOf(uid(l)) = l
    <3> DEFINE k == CHOOSE i \in DOMAIN seq : seq[i] = l
    <3>1. k \in 1..n /\ seq[k] = l
      BY <1>3
    <3> HIDE DEF k
    <3>2. uid(l) = nextMark + k - 1
      BY DEF k
    <3>3. (nextMark + k - 1) \in new /\ (nextMark + k - 1) - nextMark + 1 = k
      BY <1>3, <3>1
    <3>4. QED
      BY <3>1, <3>2, <3>3
  <2>2. QED
    BY <2>1
<1>7. \A a \in new : uid(laneOf(a)) = a
  <2>1. ASSUME NEW a \in new PROVE uid(laneOf(a)) = a
    <3> DEFINE b == uid(laneOf(a))
    <3>1. b \in new /\ laneOf(b) = laneOf(a)
      BY <1>5, <1>6
    <3> HIDE DEF b
    <3>2. b - nextMark + 1 = a - nextMark + 1
      BY <1>3, <1>5, <3>1
    <3>3. b = a
      BY <1>3, <3>1, <3>2
    <3>4. QED
      BY <3>3 DEF b
  <2>2. QED
    BY <2>1
<1> HIDE DEF uid
<1>8. {uid(l) : l \in late} = recorded
  BY <1>5, <1>6, <1>7
<1> HIDE DEF laneOf, pend
<1>9. \A a \in new : ~(a < nextMark) /\ a < nextMark'
  BY <1>1, <1>3
<1>10. \A a \in Marks : (a < nextMark' <=> a < nextMark \/ a \in new)
  BY <1>1, <1>3 DEF Marks
<1> HIDE DEF new
<1>11. \A l : pend(l) \subseteq DOMAIN tx /\ pend(l) \subseteq TxIds
  BY DEF pend, TypeOK
<1>12. TypeOK'
  <2>1. before' \in [Marks -> SUBSET TxIds]
    BY <1>1, <1>11 DEF TypeOK
  <2>2. delivered' \in [Marks -> Nat]
    BY <1>1 DEF TypeOK
  <2>3. nextMark' \in Nat \ {0} /\ TxIds' = TxIds
    BY <1>1, <1>3 DEF TxIds
  <2>4. QED
    BY <1>1, <2>1, <2>2, <2>3 DEF TypeOK
<1>13. QueueOnce' /\ ReleasesDue' /\ LedgerExact'
  BY <1>1 DEF QueueOnce, ReleasesDue, LedgerExact, Live, Groups
<1>14. \A a \in Marks : before'[a] = IF a \in new THEN pend(laneOf(a)) ELSE before[a]
  BY <1>1
<1>15. ArrivalsRecorded'
  <2>1. DOMAIN arrivals' = DOMAIN arrivals \cup recorded
    BY <1>1, <1>8
  <2>2. DOMAIN arrivals' = {a \in Marks : a < nextMark' /\ before'[a] \cap DOMAIN tx # {}}
    BY <1>4, <1>9, <1>10, <1>11, <1>14, <2>1 DEF ArrivalsRecorded
  <2>3. \A a \in DOMAIN arrivals' : arrivals'[a] = before'[a] \cap DOMAIN tx
    <3>1. ASSUME NEW a \in DOMAIN arrivals' PROVE arrivals'[a] = before'[a] \cap DOMAIN tx
      <4>1. a \in Marks /\ arrivals'[a] = IF a \in new THEN pend(laneOf(a)) ELSE arrivals[a]
        BY <1>1, <2>2
      <4>2. CASE a \in new
        BY <1>11, <1>14, <4>1, <4>2
      <4>3. CASE a \notin new
        BY <1>14, <2>1, <4>1, <4>3 DEF ArrivalsRecorded
      <4>4. QED
        BY <4>2, <4>3
    <3>2. QED
      BY <3>1
  <2>4. QED
    BY <1>1, <2>2, <2>3 DEF ArrivalsRecorded
<1>16. ArrivalsExact'
  <2>1. ASSUME NEW a \in Marks
        PROVE  delivered'[a] = IF a < nextMark' /\ before'[a] \cap DOMAIN tx = {} THEN 1 ELSE 0
    <3>1. delivered'[a] = delivered[a] + IF a \in new /\ laneOf(a) \notin late THEN 1 ELSE 0
      BY <1>1
    <3>2. delivered[a] = IF a < nextMark /\ before[a] \cap DOMAIN tx = {} THEN 1 ELSE 0
      BY DEF ArrivalsExact
    <3>3. CASE a \in new
      <4>1. delivered[a] = 0 /\ before'[a] = pend(laneOf(a)) /\ a < nextMark'
        BY <1>9, <1>14, <3>2, <3>3
      <4>2. laneOf(a) \in lanes
        BY <1>5, <3>3
      <4>3. laneOf(a) \notin late <=> pend(laneOf(a)) = {}
        BY <4>2
      <4>4. QED
        BY <1>11, <3>1, <3>3, <4>1, <4>3
    <3>4. CASE a \notin new
      <4>1. before'[a] = before[a] /\ (a < nextMark' <=> a < nextMark)
        BY <1>10, <1>14, <3>4
      <4>2. QED
        BY <3>1, <3>2, <3>4, <4>1
    <3>5. QED
      BY <3>3, <3>4
  <2>2. QED
    BY <1>1, <2>1 DEF ArrivalsExact
<1>17. QED
  BY <1>12, <1>13, <1>15, <1>16

\* Every step, and a stuttering one, keeps the inductive invariant.
LEMMA NextInd ==
    ASSUME IndInv, [Next]_vars
    PROVE  IndInv'
<1>1. CASE UNCHANGED vars
  <2>1. TypeOK' /\ QueueOnce'
    BY <1>1 DEF vars, IndInv, TypeOK, TxIds, QueueOnce
  <2>2. ReleasesDue' /\ LedgerExact'
    BY <1>1 DEF vars, IndInv, ReleasesDue, LedgerExact, Live, Groups
  <2>3. ArrivalsRecorded' /\ ArrivalsExact'
    BY <1>1 DEF vars, IndInv, ArrivalsRecorded, ArrivalsExact
  <2>4. QED
    BY <2>1, <2>2, <2>3 DEF IndInv
<1>2. CASE issue_cp_async_requests
  BY <1>2, IssueRequestsInd
<1>3. ASSUME NEW t \in DOMAIN tx, process_cp_async_response(t) PROVE IndInv'
  BY <1>3, PartialResponseInd, LastResponseInd
<1>4. ASSUME NEW c \in Slots, IssueCta(c) \/ cleanup_cta(c) PROVE IndInv'
  BY <1>4, IssueCtaInd, CleanupInd
<1>5. ASSUME NEW w \in Warps, warp_reaches_cp_async(w) PROVE IndInv'
  BY <1>5, CopyInd
<1>6. ASSUME NEW w \in Warps, commit_cp_async_group(w) PROVE IndInv'
  BY <1>6, CommitInd
<1>7. ASSUME NEW w \in Warps, NEW n \in 0..1, wait_cp_async_group(w, n) PROVE IndInv'
  BY <1>7, WaitInd
<1>8. ASSUME NEW w \in Warps, NEW lanes \in SUBSET Lanes \ {{}},
             warp_reaches_cp_async_mbarrier_arrive(w, lanes)
      PROVE  IndInv'
  BY <1>8, ArriveInd
<1>9. ASSUME NEW w \in Warps, DelayedRelease(w) \/ Exit(w) PROVE IndInv'
  BY <1>9, DelayedReleaseInd, ExitInd
<1>10. QED
  BY <1>1, <1>2, <1>3, <1>4, <1>5, <1>6, <1>7, <1>8, <1>9 DEF Next

\* A warp is released by DelayedRelease only, and then few enough groups are pending;
\* that every pending group has copies that are not done makes the count exact.
LEMMA WaitEndsStep ==
    ASSUME IndInv, Next, NEW w \in waiting \ waiting'
    PROVE  /\ Cardinality({g \in Groups(w) : info[w].groups[g] \cap DOMAIN tx # {}}) <= allowance[w]
           /\ allowance[w] = 0 => Live(w) \subseteq info[w].open
<1> USE DEF IndInv, ctaVars, waitVars, markVars
<1>1. PICK v \in Warps : DelayedRelease(v)
  BY DEF Next, issue_cp_async_requests, process_cp_async_response, IssueCta, cleanup_cta,
         warp_reaches_cp_async, commit_cp_async_group, wait_cp_async_group,
         warp_reaches_cp_async_mbarrier_arrive, Exit
<1>2. w = v /\ w \in releases /\ w \in Warps
  BY <1>1 DEF DelayedRelease, TypeOK
<1>3. WarpLedger(w) /\ IsLedger(info[w])
  BY <1>2, LedgerParts DEF TypeOK
<1>4. {g \in Groups(w) : info[w].groups[g] \cap DOMAIN tx # {}} = Groups(w)
  BY <1>3 DEF WarpLedger, Live
<1>5. Cardinality(Groups(w)) <= allowance[w]
  BY <1>2 DEF ReleasesDue
<1>6. ASSUME allowance[w] = 0 PROVE Live(w) \subseteq info[w].open
  <2>1. IsFiniteSet(Groups(w)) /\ Cardinality(Groups(w)) \in Nat
    BY <1>3, GroupsFinite DEF Groups
  <2>2. Cardinality(Groups(w)) = 0
    BY <1>5, <1>6, <2>1
  <2>3. Groups(w) = {}
    BY <2>1, <2>2, FS_EmptySet
  <2>4. QED
    BY <1>3, <2>3 DEF WarpLedger
<1>7. QED
  BY <1>4, <1>5, <1>6

-----------------------------------------------------------------------------
(* Theorems. *)

\* The inductive invariant holds.
THEOREM Invariance == Spec => []IndInv
  BY InitInd, NextInd, PTL DEF Spec

\* The ledgers of the TMA unit are exact (complete_tx, finalize_cp_async_transaction,
\* cleanup_cta, issue_cp_async_requests).
THEOREM LedgerIsExact == Spec => []LedgerExact
<1>1. IndInv => LedgerExact
  BY DEF IndInv
<1>2. QED
  BY <1>1, Invariance, PTL

\* The arrival of a lane reaches its mbarrier once, with the last of the copies before
\* it (warp_reaches_cp_async_mbarrier_arrive, finalize_cp_async_transaction).
THEOREM ArrivalsAreExact == Spec => []ArrivalsExact
<1>1. IndInv => ArrivalsExact
  BY DEF IndInv
<1>2. QED
  BY <1>1, Invariance, PTL

\* A wait_group(N) ends with at most N groups pending, although its release is delayed
\* (wait_cp_async_group, release_cp_async_warp).
THEOREM WaitsEndInTime == Spec => WaitEnds
<1>1. ASSUME IndInv, [Next]_vars
      PROVE  [\A w \in waiting \ waiting' :
                 /\ Cardinality({g \in Groups(w) : info[w].groups[g] \cap DOMAIN tx # {}})
                        <= allowance[w]
                 /\ allowance[w] = 0 => Live(w) \subseteq info[w].open]_vars
  BY <1>1, WaitEndsStep
<1>2. QED
  BY <1>1, Invariance, PTL DEF Spec, WaitEnds

=============================================================================
