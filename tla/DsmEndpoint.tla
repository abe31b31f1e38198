---------------------------- MODULE DsmEndpoint ----------------------------
(***************************************************************************)
(* The transaction protocol by which the SMs of a GPC read, write and       *)
(* synchronise on each other's shared memory (dsm_endpoint_protocol_t).     *)
(* Requests and responses travel through the fabric; a target applies a     *)
(* request when the shared-memory service has granted its bytes, answers    *)
(* loads, atomics and mbarrier requests one by one, and acknowledges stores *)
(* by count: the requester completes that many of its oldest stores.        *)
(*                                                                         *)
(* One call of cycle() is the sequence of stages harvest, ingress, send,    *)
(* flush; the cores run between two calls, in stage "core".  The fabric is  *)
(* a bounded queue for each ordered pair of SMs and channel, in which a     *)
(* load may be put before requests that wait (see DsmFabric); an SM has one *)
(* CTA slot.                                                               *)
(***************************************************************************)
EXTENDS Integers, Sequences, FiniteSets, FiniteSetsExt, SequencesExt

CONSTANTS
    Sms,           \* SMs of the GPC
    Links,         \* the (requester, target) pairs that are used
    Classes,       \* the kinds of requests that are used
    Bytes,         \* shared-memory bytes a request of each class needs
    MaxGrant,      \* bound: bytes the shared-memory service grants in a cycle
    Window,        \* max_outstanding_per_sm
    AckThreshold,  \* ack_coalesce_threshold
    AckTimeout,    \* ack_timeout_cycles
    ReqDepth,      \* bound: requests in flight between a pair
    RspDepth,      \* bound: responses in flight between a pair
    MaxTx,         \* bound: transactions
    MaxGen         \* bound: CTAs one slot hosts after the first

Targets == {l[2] : l \in Links}
StoreLike == {"store", "tma"}
MbarLike == {"arrive", "waitreg"}
AllClasses == StoreLike \cup MbarLike \cup {"load", "atom"}
Stages == {"core", "harvest", "ingress", "send", "flush"}

ASSUME LinksAssumption == Links \subseteq {l \in Sms \X Sms : l[1] # l[2]}
ASSUME ClassesAssumption == Classes \subseteq AllClasses /\ Bytes \in [AllClasses -> Nat]
ASSUME MbarBytesAssumption == \A c \in MbarLike : Bytes[c] = 0
ASSUME BoundAssumption ==
    /\ {Window, AckThreshold, AckTimeout, ReqDepth, RspDepth, MaxTx} \subseteq Nat \ {0}
    /\ {MaxGrant, MaxGen} \subseteq Nat

VARIABLES
    nextTx,    \* m_next_tx
    tx,        \* m_tx: the outstanding requests of every SM
    storeQ,    \* m_store_q, by requester and target
    reqs,      \* requests in the fabric, by requester and target
    rsps,      \* responses in the fabric, by target and requester
    ingress,   \* m_ingress
    pending,   \* m_pending: responses the fabric had no room for
    owed,      \* m_acks_owed, by target and requester
    age,       \* cycles since m_oldest_ack, up to the timeout
    grant,     \* bytes granted to the DSM client of each target this cycle
    stage,     \* where cycle() is
    cursor,    \* the entry of m_ingress or m_pending that is next
    gen,       \* m_cta_gen
    live,      \* the CTA of the SM has running threads
    waiters,   \* waits stored at the target's barriers, by target and requester
    applied,   \* history: stores that have been served
    staleHits  \* history: the classes of requests that reached a CTA they were not sent to

netVars == <<nextTx, tx, storeQ, reqs, rsps>>
epVars == <<ingress, pending, owed, age>>
ctaVars == <<gen, live>>
vars == <<netVars, epVars, grant, stage, cursor, ctaVars, waiters, applied, staleHits>>

Request == [id : 1..MaxTx, cls : AllClasses, src : Sms, dst : Sms, gen : 0..MaxGen]
Response == [id : 0..MaxTx, op : {"ack", "data", "mdone", "waitdone"},
             src : Sms, dst : Sms, count : Nat]
Entry == [req : Request, st : {"fresh", "sram", "hold", "ready"}, got : Nat,
          op : {"none", "data", "mdone", "waitdone"}]

TypeOK ==
    /\ nextTx \in 1..(MaxTx + 1)
    /\ tx \in [Sms -> SUBSET Request]
    /\ \A s \in Sms : IsFiniteSet(tx[s]) /\ Cardinality(tx[s]) <= Window
    /\ storeQ \in [Links -> Seq(1..MaxTx)]
    /\ reqs \in [Links -> Seq(Request)] /\ rsps \in [Links -> Seq(Response)]
    /\ \A l \in Links : Len(reqs[l]) <= ReqDepth /\ Len(rsps[l]) <= RspDepth
    /\ ingress \in Seq(Entry) /\ pending \in Seq(Response)
    /\ owed \in [Links -> Nat] /\ age \in [Links -> 0..AckTimeout]
    /\ grant \in [Targets -> 0..MaxGrant]
    /\ stage \in Stages /\ cursor \in Nat \ {0}
    /\ gen \in [Sms -> 0..MaxGen] /\ live \in [Sms -> BOOLEAN]
    /\ waiters \in [Links -> Nat]
    /\ applied \subseteq 1..MaxTx /\ staleHits \subseteq AllClasses

Init ==
    /\ nextTx = 1
    /\ tx = [s \in Sms |-> {}]
    /\ storeQ = [l \in Links |-> <<>>]
    /\ reqs = [l \in Links |-> <<>>]
    /\ rsps = [l \in Links |-> <<>>]
    /\ ingress = <<>> /\ pending = <<>>
    /\ owed = [l \in Links |-> 0] /\ age = [l \in Links |-> 0]
    /\ grant = [s \in Targets |-> 0]
    /\ stage = "core" /\ cursor = 1
    /\ gen = [s \in Sms |-> 0] /\ live = [s \in Sms |-> TRUE]
    /\ waiters = [l \in Links |-> 0]
    /\ applied = {} /\ staleHits = {}

-----------------------------------------------------------------------------
(* Between two cycles: the cores. *)

\* window_open.
WindowOpen(s) == Cardinality(tx[s]) < Window

\* Where the fabric puts a request: loads may pass what is still queued.
Placements(l, r) ==
    IF r.cls = "load" THEN {InsertAt(reqs[l], i, r) : i \in 1..(Len(reqs[l]) + 1)}
    ELSE {Append(reqs[l], r)}

\* issue_req, from a running CTA to a CTA of its cluster.
Issue(l, c) ==
    LET r == [id |-> nextTx, cls |-> c, src |-> l[1], dst |-> l[2], gen |-> gen[l[2]]]
    IN  /\ stage = "core" /\ nextTx <= MaxTx
        /\ live[l[1]] /\ gen[l[1]] = gen[l[2]]
        /\ WindowOpen(l[1])
        /\ Len(reqs[l]) < ReqDepth
        /\ \E q \in Placements(l, r) : reqs' = [reqs EXCEPT ![l] = q]
        /\ nextTx' = nextTx + 1
        /\ tx' = [tx EXCEPT ![l[1]] = @ \cup {r}]
        /\ storeQ' = IF c \in StoreLike THEN [storeQ EXCEPT ![l] = Append(@, r.id)]
                     ELSE storeQ
        /\ UNCHANGED <<rsps, epVars, grant, stage, cursor, ctaVars, waiters, applied, staleHits>>

\* issue_mbar of WAIT_DONE: the owner's barrier answers a stored wait, after an
\* arrival at a core or one that process_ingress serves.  Which arrival ends
\* the phase is the subject of Mbarrier and left open here.
AnswerWait(l) ==
    LET a == [id |-> nextTx, op |-> "waitdone", src |-> l[2], dst |-> l[1], count |-> 1]
    IN  /\ stage \in {"core", "ingress"} /\ waiters[l] > 0 /\ nextTx <= MaxTx
        /\ waiters' = [waiters EXCEPT ![l] = @ - 1]
        /\ nextTx' = nextTx + 1
        /\ \/ /\ Len(rsps[l]) < RspDepth
              /\ rsps' = [rsps EXCEPT ![l] = Append(@, a)]
              /\ UNCHANGED pending
           \/ /\ Len(rsps[l]) >= RspDepth
              /\ pending' = Append(pending, a)
              /\ UNCHANGED rsps
        /\ UNCHANGED <<tx, storeQ, reqs, ingress, owed, age, grant, stage, cursor,
                       ctaVars, applied, staleHits>>

Exit(s) ==
    /\ stage = "core" /\ live[s]
    /\ live' = [live EXCEPT ![s] = FALSE]
    /\ UNCHANGED <<netVars, epVars, grant, stage, cursor, gen, waiters, applied, staleHits>>

\* release_finished_cta, once the cluster's threads are gone and the CTA's own
\* loads, stores and atomics are complete; the next CTA takes the slot.
ReleaseCta(s) ==
    /\ stage = "core" /\ gen[s] < MaxGen
    /\ \A p \in Sms : gen[p] = gen[s] => ~live[p]
    /\ \A r \in tx[s] : r.cls \in MbarLike \cup {"tma"}
    /\ gen' = [gen EXCEPT ![s] = @ + 1]
    /\ live' = [live EXCEPT ![s] = TRUE]
    /\ waiters' = [l \in Links |-> IF l[2] = s THEN 0 ELSE waiters[l]]
    /\ UNCHANGED <<netVars, epVars, grant, stage, cursor, applied, staleHits>>

\* The shared-memory service grants bytes and cycle() starts.
StartCycle(g) ==
    /\ stage = "core"
    /\ grant' = g
    /\ stage' = "harvest"
    /\ UNCHANGED <<netVars, epVars, cursor, ctaVars, waiters, applied, staleHits>>

-----------------------------------------------------------------------------
(* harvest. *)

\* A request has arrived at its target.
TakeRequest(l) ==
    /\ stage = "harvest" /\ reqs[l] # <<>>
    /\ ingress' = Append(ingress, [req |-> Head(reqs[l]), st |-> "fresh", got |-> 0,
                                   op |-> "none"])
    /\ reqs' = [reqs EXCEPT ![l] = Tail(@)]
    /\ UNCHANGED <<nextTx, tx, storeQ, rsps, pending, owed, age, grant, stage, cursor,
                   ctaVars, waiters, applied, staleHits>>

\* complete_stores: the oldest stores an acknowledgement stands for.
Completed(l, a) == SubSeq(storeQ[l], 1, IF a.count <= Len(storeQ[l]) THEN a.count
                                        ELSE Len(storeQ[l]))

\* A response has arrived at the requester.
TakeResponse(l) ==
    LET a    == Head(rsps[l])
        done == IF a.op = "ack" THEN ToSet(Completed(l, a)) ELSE {a.id}
    IN  /\ stage = "harvest" /\ rsps[l] # <<>>
        /\ rsps' = [rsps EXCEPT ![l] = Tail(@)]
        /\ tx' = [tx EXCEPT ![l[1]] = {r \in @ : r.id \notin done}]
        /\ storeQ' = IF a.op = "ack"
                     THEN [storeQ EXCEPT ![l] = SubSeq(@, Len(Completed(l, a)) + 1, Len(@))]
                     ELSE storeQ
        /\ UNCHANGED <<nextTx, reqs, epVars, grant, stage, cursor, ctaVars, waiters,
                       applied, staleHits>>

HarvestDone ==
    /\ stage = "harvest"
    /\ stage' = "ingress" /\ cursor' = 1
    /\ UNCHANGED <<netVars, epVars, grant, ctaVars, waiters, applied, staleHits>>

-----------------------------------------------------------------------------
(* process_ingress: one step for each entry. *)

AtEntry(st) == stage = "ingress" /\ cursor <= Len(ingress) /\ ingress[cursor].st = st

LinkOf(r) == <<r.src, r.dst>>

\* Mutant: bytes are taken only if all that is needed is there.
TakesWhole(t, need) == IF need <= grant[t] THEN need ELSE 0

\* take: what is needed, as far as the grant goes.
Takes(t, need) == IF need <= grant[t] THEN need ELSE grant[t]

\* Entries that arrived or were served in this very cycle wait.
KeepEntry ==
    /\ AtEntry("fresh") \/ AtEntry("hold")
    /\ cursor' = cursor + 1
    /\ UNCHANGED <<netVars, epVars, grant, stage, ctaVars, waiters, applied, staleHits>>

\* Too few bytes: the entry keeps what it got and waits.
Starve ==
    /\ AtEntry("sram")
    /\ LET e    == ingress[cursor]
           need == Bytes[e.req.cls] - e.got
           n    == Takes(e.req.dst, need)
       IN  /\ n < need
           /\ ingress' = [ingress EXCEPT ![cursor].got = @ + n]
           /\ grant' = [grant EXCEPT ![e.req.dst] = @ - n]
    /\ cursor' = cursor + 1
    /\ UNCHANGED <<netVars, pending, owed, age, stage, ctaVars, waiters, applied, staleHits>>

\* An mbarrier request is served whatever CTA is in the slot; the others check
\* the generation.
Affects(r) == r.cls \in MbarLike \/ r.gen = gen[r.dst]

\* What a served request is answered with: stores are only counted, and so is
\* a wait that the barrier stores.
Answers(r) ==
    CASE r.cls \in StoreLike -> {"none"}
      [] r.cls \in {"load", "atom"} -> {"data"}
      [] r.cls = "arrive" -> {"mdone"}
      [] r.cls = "waitreg" -> {"waitdone", "none"}

\* The request has its bytes: apply_sram, the barrier callback and the answer.
Serve ==
    /\ AtEntry("sram")
    /\ LET e    == ingress[cursor]
           r    == e.req
           l    == LinkOf(r)
           need == Bytes[r.cls] - e.got
       IN  /\ Takes(r.dst, need) = need
           /\ grant' = [grant EXCEPT ![r.dst] = @ - need]
           /\ staleHits' = IF Affects(r) /\ r.gen # gen[r.dst] THEN staleHits \cup {r.cls}
                           ELSE staleHits
           /\ \E op \in Answers(r) :
                \/ /\ op # "none"
                   /\ ingress' = [ingress EXCEPT ![cursor] =
                                    [@ EXCEPT !.st = "hold", !.op = op, !.got = Bytes[r.cls]]]
                   /\ cursor' = cursor + 1
                   /\ UNCHANGED <<tx, owed, age, waiters, applied>>
                \/ /\ op = "none" /\ r.cls \in StoreLike
                   /\ ingress' = RemoveAt(ingress, cursor)
                   /\ owed' = [owed EXCEPT ![l] = @ + 1]
                   /\ age' = IF owed[l] = 0 THEN [age EXCEPT ![l] = 0] ELSE age
                   /\ applied' = applied \cup {r.id}
                   /\ UNCHANGED <<cursor, tx, waiters>>
                \/ /\ op = "none" /\ r.cls = "waitreg"
                   /\ ingress' = RemoveAt(ingress, cursor)
                   /\ tx' = [tx EXCEPT ![r.src] = @ \ {r}]
                   /\ waiters' = [waiters EXCEPT ![l] = @ + 1]
                   /\ UNCHANGED <<cursor, owed, age, applied>>
    /\ UNCHANGED <<nextTx, storeQ, reqs, rsps, pending, stage, ctaVars>>

\* A cycle after it was served, the answer may leave.
Ready ==
    /\ AtEntry("ready")
    /\ LET e == ingress[cursor]
       IN  pending' = Append(pending, [id |-> e.req.id, op |-> e.op, src |-> e.req.dst,
                                       dst |-> e.req.src, count |-> 1])
    /\ ingress' = RemoveAt(ingress, cursor)
    /\ UNCHANGED <<netVars, owed, age, grant, stage, cursor, ctaVars, waiters, applied, staleHits>>

IngressDone ==
    /\ stage = "ingress" /\ cursor > Len(ingress)
    /\ stage' = "send" /\ cursor' = 1
    /\ UNCHANGED <<netVars, epVars, grant, ctaVars, waiters, applied, staleHits>>

-----------------------------------------------------------------------------
(* try_send_pending and try_flush_acks. *)

\* Mutant: an answer the fabric has no room for is dropped.
UnsentDropped(i) == RemoveAt(pending, i)

\* An answer the fabric has no room for stays.
Unsent(i) == pending

SendPending ==
    /\ stage = "send" /\ cursor <= Len(pending)
    /\ LET a == pending[cursor]
           l == <<a.dst, a.src>>
       IN  \/ /\ Len(rsps[l]) < RspDepth
              /\ rsps' = [rsps EXCEPT ![l] = Append(@, a)]
              /\ pending' = RemoveAt(pending, cursor)
              /\ UNCHANGED cursor
           \/ /\ Len(rsps[l]) >= RspDepth
              /\ cursor' = cursor + 1
              /\ pending' = Unsent(cursor)
              /\ UNCHANGED rsps
    /\ UNCHANGED <<nextTx, tx, storeQ, reqs, ingress, owed, age, grant, stage, ctaVars,
                   waiters, applied, staleHits>>

SendDone ==
    /\ stage = "send" /\ cursor > Len(pending)
    /\ stage' = "flush"
    /\ UNCHANGED <<netVars, epVars, grant, cursor, ctaVars, waiters, applied, staleHits>>

\* Acknowledgements that are due by count or by age.
MustFlush(l) ==
    /\ owed[l] >= AckThreshold \/ (owed[l] > 0 /\ age[l] >= AckTimeout)
    /\ Len(rsps[l]) < RspDepth

\* Acknowledgements that an idle link may send: no store of the pair waits in
\* the ingress.  Whether the fabric is quiet depends on its timing.
MayFlush(l) ==
    /\ owed[l] > 0 /\ Len(rsps[l]) < RspDepth
    /\ \A i \in DOMAIN ingress : LinkOf(ingress[i].req) = l =>
            ~(ingress[i].req.cls \in StoreLike)

\* Mutant: the debt survives the acknowledgement.
OwedKept(l) == owed[l]

\* An acknowledgement settles the whole debt.
OwedAfterFlush(l) == 0

\* One cycle of the entries' waiting.
NextState(st) == CASE st = "fresh" -> "sram" [] st = "hold" -> "ready" [] OTHER -> st

FlushAcks(flush) ==
    /\ stage = "flush"
    /\ rsps' = [l \in Links |-> IF l \in flush
                    THEN Append(rsps[l], [id |-> 0, op |-> "ack", src |-> l[2], dst |-> l[1],
                                          count |-> owed[l]])
                    ELSE rsps[l]]
    /\ owed' = [l \in Links |-> IF l \in flush THEN OwedAfterFlush(l) ELSE owed[l]]
    /\ age' = [l \in Links |->
            IF l \in flush \/ owed[l] = 0 THEN 0
            ELSE IF age[l] < AckTimeout THEN age[l] + 1 ELSE age[l]]
    /\ ingress' = [i \in DOMAIN ingress |-> [ingress[i] EXCEPT !.st = NextState(@)]]
    /\ grant' = [s \in Targets |-> 0]
    /\ stage' = "core" /\ cursor' = 1
    /\ UNCHANGED <<nextTx, tx, storeQ, reqs, pending, ctaVars, waiters, applied, staleHits>>

Next ==
    \/ \E l \in Links, c \in Classes : Issue(l, c)
    \/ \E l \in Links : AnswerWait(l) \/ TakeRequest(l) \/ TakeResponse(l)
    \/ \E s \in Sms : Exit(s) \/ ReleaseCta(s)
    \/ \E g \in [Targets -> 0..MaxGrant] : StartCycle(g)
    \/ HarvestDone
    \/ KeepEntry \/ Starve \/ Serve \/ Ready \/ IngressDone
    \/ SendPending \/ SendDone
    \/ \E flush \in SUBSET Links :
        /\ \A l \in Links : MustFlush(l) => l \in flush
        /\ \A l \in flush : MustFlush(l) \/ MayFlush(l)
        /\ FlushAcks(flush)

Spec == Init /\ [][Next]_vars

-----------------------------------------------------------------------------
(* Properties. *)

\* sum[i] is the number of stores that the first i responses of q acknowledge.
IsAckSum(q, sum) ==
    /\ sum[0] = 0
    /\ \A i \in DOMAIN q : sum[i] = sum[i - 1] + IF q[i].op = "ack" THEN q[i].count ELSE 0

\* Stores acknowledged by count are the stores that were applied: the applied
\* stores of a pair are its oldest, exactly as many as are owed or on their
\* way back.
AckDebtExact ==
    \A l \in Links :
        \E sum \in [0..Len(rsps[l]) -> 0..Len(storeQ[l])] :
            LET k == owed[l] + sum[Len(rsps[l])]
            IN  /\ IsAckSum(rsps[l], sum)
                /\ k <= Len(storeQ[l])
                /\ \A i \in DOMAIN storeQ[l] : storeQ[l][i] \in applied <=> i <= k

\* A store is reported complete only after it has been applied.
StoresCompleteApplied ==
    [][\A s \in Sms : \A r \in tx[s] \ tx'[s] : r.cls \in StoreLike => r.id \in applied]_vars

\* Where a transaction is under way.
Places(id) ==
    (UNION {{<<"request", l, i>> : i \in {j \in DOMAIN reqs[l] : reqs[l][j].id = id}} : l \in Links})
    \cup {<<"ingress", i>> : i \in {j \in DOMAIN ingress : ingress[j].req.id = id}}
    \cup {<<"pending", i>> : i \in {j \in DOMAIN pending : pending[j].id = id}}
    \cup (UNION {{<<"response", l, i>> : i \in {j \in DOMAIN rsps[l] : rsps[l][j].id = id}} : l \in Links})

\* No transaction is lost or doubled: an outstanding request is in the fabric,
\* at its target or on its way back, in one place, unless it is a store that
\* only its acknowledgement will complete.
TxInOnePlace ==
    \A s \in Sms : \A r \in tx[s] :
        /\ Cardinality(Places(r.id)) = IF r.id \in applied THEN 0 ELSE 1
        /\ r.cls \in StoreLike <=> r.id \in ToSet(storeQ[LinkOf(r)])

\* The data of a request touch only the CTA they were sent to, although CTA
\* slots are reused while requests are under way; mbarrier requests are not
\* protected.
DataStaysHome == staleHits \subseteq MbarLike

\* Every transaction is handled once, and its data stay where they belong.
TxHandledOnce == TxInOnePlace /\ DataStaysHome

=============================================================================
