------------------------------ MODULE Mbarrier ------------------------------
(***************************************************************************)
(* Transaction barriers (mbarriers) in the shared memory of several SMs:   *)
(* mbarrier_manager_t and the part of barrier_set_t that parks, rechecks   *)
(* and releases warps.  A warp waits on barriers of its own SM with a      *)
(* deadline, or on one barrier of another SM until that SM answers; warps, *)
(* the TMA unit and asynchronous arrivals drive the barriers' phases.      *)
(*                                                                         *)
(* Times are kept relative to the current cycle: a field named ...In, dl   *)
(* or a member of rel counts the cycles that are left, so now >= t in the  *)
(* code is 0 here.  A warp's lanes that name the same barrier behave alike *)
(* and are one lane here; lane[w] = <<>> stands for no entry in            *)
(* m_pending_mbarrier_waits.                                               *)
(***************************************************************************)
EXTENDS Integers, Sequences, FiniteSets, FiniteSetsExt

CONSTANTS
    Sms,              \* SMs, each running one CTA of a cluster
    Warps, Bars,      \* hardware warps; mbarrier addresses
    Home,             \* the SM of each warp and barrier
    LocalWaiters,     \* the warps whose code waits on barriers of their own SM
    RemoteWaiters,    \* the warps whose code waits on other SMs' barriers
    TryWaitLatency,   \* gpgpu_mbarrier_trywait_latency
    PredicateLatency, \* gpgpu_mbarrier_predicate_latency
    WakeupLatency,    \* gpgpu_mbarrier_phase_wakeup_latency
    ArriveLatency,    \* gpgpu_mbarrier_arrive_latency
    ExtraHold,        \* the further hold of arrive.expect_tx(0), 20 in the code
    Hints,            \* suspendTimeHint values, in cycles
    MaxCount,         \* bound: arrivals a barrier expects
    MaxTx,            \* bound: magnitude of the transaction count
    MaxPhase,         \* bound: phases of one barrier
    MaxChan           \* bound: requests in flight between two SMs

ASSUME HomeAssumption == Home \in [Warps \cup Bars -> Sms]
ASSUME WaitersAssumption == LocalWaiters \cup RemoteWaiters \subseteq Warps
ASSUME LatencyAssumption ==
    {TryWaitLatency, PredicateLatency, WakeupLatency, ArriveLatency, ExtraHold}
        \cup Hints \subseteq Nat
ASSUME BoundAssumption ==
    {MaxCount, MaxTx, MaxPhase, MaxChan} \subseteq Nat \ {0}

VARIABLES
    exists,     \* addr_to_mbarrier_map has the barrier
    expected,   \* m_expected_count
    pending,    \* m_pending_arrival_count
    tx,         \* m_tx_count, signed
    phase,      \* m_phase
    waiting,    \* m_waiting_warps
    rwaiters,   \* m_remote_waiters
    lane,       \* the lanes of the warp's pending try_wait
    recheckIn,  \* next_recheck_cycle
    predIn,     \* issue_cycle + predicate latency (0 unless a lane has no hint)
    notified,   \* phase_notification_pending
    ready,      \* result_ready_delay_pending
    park,       \* m_warp_at_barrier with m_warp_barrier_type
    rel,        \* m_pending_warp_releases of type BARRIER_WAIT_MBARRIER
    remote,     \* m_mbar_trywait_inst is set: a remote try_wait is open
    chan,       \* requests in flight from one SM to another, in order
    doneMsgs,   \* WAIT_DONE responses in flight to the warp
    answered    \* history: the last try_wait has written its predicate

barVars == <<exists, expected, pending, tx, phase, waiting>>
waitVars == <<lane, recheckIn, predIn, notified, ready>>
vars == <<barVars, rwaiters, waitVars, park, rel, remote, chan, doneMsgs, answered>>

NoHint == -1
Parities == {0, 1}
LanesOf(w) == {b \in Bars : Home[b] = Home[w]}

Lane == [parity : Parities, res : {"open", "true", "false"}, dl : Nat,
         from : 0..MaxPhase]
Msg == [op : {"ARRIVE"}, bar : Bars, n : 1..MaxCount]
       \cup [op : {"EXPECT_TX", "COMPLETE_TX"}, bar : Bars, n : 0..MaxTx]
       \cup [op : {"WAIT_REG"}, bar : Bars, warp : Warps, parity : Parities]

TypeOK ==
    /\ exists \in [Bars -> BOOLEAN]
    /\ expected \in [Bars -> 0..MaxCount] /\ pending \in [Bars -> 0..(MaxCount + 1)]
    /\ tx \in [Bars -> (-MaxTx)..MaxTx]
    /\ phase \in [Bars -> 0..MaxPhase]
    /\ waiting \in [Bars -> SUBSET Warps]
    /\ rwaiters \in [Bars -> SUBSET [warp : Warps, parity : Parities]]
    /\ lane = [w \in Warps |-> lane[w]]
    /\ \A w \in Warps : DOMAIN lane[w] \subseteq LanesOf(w) /\ lane[w] \in [DOMAIN lane[w] -> Lane]
    /\ recheckIn \in [Warps -> Nat] /\ predIn \in [Warps -> Nat]
    /\ {notified, ready, remote, answered} \subseteq [Warps -> BOOLEAN]
    /\ park \in [Warps -> {"none", "mbar", "other"}]
    /\ rel \in [Warps -> SUBSET (Nat \ {0})]
    /\ chan \in [Sms \X Sms -> Seq(Msg)] /\ \A c \in Sms \X Sms : Len(chan[c]) <= MaxChan
    /\ doneMsgs \in [Warps -> Nat]

Init ==
    /\ exists = [b \in Bars |-> FALSE]
    /\ expected = [b \in Bars |-> 0] /\ pending = [b \in Bars |-> 0]
    /\ tx = [b \in Bars |-> 0] /\ phase = [b \in Bars |-> 0]
    /\ waiting = [b \in Bars |-> {}] /\ rwaiters = [b \in Bars |-> {}]
    /\ lane = [w \in Warps |-> <<>>]
    /\ recheckIn = [w \in Warps |-> 0] /\ predIn = [w \in Warps |-> 0]
    /\ notified = [w \in Warps |-> FALSE] /\ ready = [w \in Warps |-> FALSE]
    /\ park = [w \in Warps |-> "none"]
    /\ rel = [w \in Warps |-> {}]
    /\ remote = [w \in Warps |-> FALSE]
    /\ chan = [c \in Sms \X Sms |-> <<>>]
    /\ doneMsgs = [w \in Warps |-> 0]
    /\ answered = [w \in Warps |-> TRUE]

CanIssue(w) == park[w] = "none"
Waits(w) == lane[w] # <<>>
IsLocal(w, b) == Home[w] = Home[b]

\* test_wait and the remote variants: has the phase of this parity completed?
PhaseDone(b, parity) == parity # phase[b] % 2

-----------------------------------------------------------------------------
(* What a change of a barrier does to the waiters. *)

\* notify_mbarrier_phase_change: recheck the waits of ws on the next cycle.
Notify(ws) ==
    LET told == {w \in ws : Waits(w) /\ ~ready[w]}
    IN  /\ notified' = [w \in Warps |-> notified[w] \/ w \in told]
        /\ recheckIn' = [w \in Warps |-> IF w \in told THEN 0 ELSE recheckIn[w]]

\* release_warps: schedule a release for every warp of ws that is parked here.
ReleaseWarps(ws) ==
    [w \in Warps |-> rel[w] \cup
        IF w \in ws /\ park[w] = "mbar" /\ TryWaitLatency > 0
        THEN {TryWaitLatency} ELSE {}]

\* notify_remote_waiters: answer the remote waiters the new phase satisfies.
NotifyRemote(b) ==
    LET sat == {r \in rwaiters[b] : r.parity # phase'[b] % 2}
    IN  /\ rwaiters' = [rwaiters EXCEPT ![b] = @ \ sat]
        /\ doneMsgs' = [w \in Warps |->
                doneMsgs[w] + Cardinality({r \in sat : r.warp = w})]

\* try_advance: is the phase complete with p arrivals missing and tx count x?
Completes(p, x) == p = 0 /\ x = 0

\* The warps try_advance takes off the barrier.
Released(b, p, x) == IF exists[b] /\ Completes(p, x) THEN waiting[b] ELSE {}

\* The barrier continues with p missing arrivals and transaction count x; a
\* missing barrier ignores the operation.
Settle(b, p, x) ==
    /\ phase[b] < MaxPhase /\ x \in (-MaxTx)..MaxTx
    /\ \/ /\ ~exists[b]
          /\ UNCHANGED <<pending, tx, phase, waiting>>
       \/ /\ exists[b] /\ Completes(p, x)
          /\ pending' = [pending EXCEPT ![b] = expected[b]]
          /\ tx' = [tx EXCEPT ![b] = x]
          /\ phase' = [phase EXCEPT ![b] = @ + 1]
          /\ waiting' = [waiting EXCEPT ![b] = {}]
       \/ /\ exists[b] /\ ~Completes(p, x)
          /\ pending' = [pending EXCEPT ![b] = p]
          /\ tx' = [tx EXCEPT ![b] = x]
          /\ UNCHANGED <<phase, waiting>>
    /\ UNCHANGED <<exists, expected>>

\* arrive saturates at zero missing arrivals.
MissingAfter(b, n) == IF n >= pending[b] THEN 0 ELSE pending[b] - n

\* Where the instruction's requests go.
Send(w, b, msgs) ==
    LET c == <<Home[w], Home[b]>>
    IN  /\ Len(chan[c]) + Len(msgs) <= MaxChan
        /\ chan' = [chan EXCEPT ![c] = @ \o msgs]

\* hold_warp: the arriving warp stays parked for the arrive latency.
Hold(w, h, r) ==
    IF h = 0 THEN park' = park /\ rel' = r
    ELSE /\ park' = [park EXCEPT ![w] = "mbar"]
         /\ rel' = [r EXCEPT ![w] = @ \cup {h}]

-----------------------------------------------------------------------------
(* Barrier lifetime. *)

\* What a program owes: it (re)initialises or invalidates a barrier only when
\* nobody waits on it and no expect_tx is on its way (test_wait and expect_tx
\* assert that the barrier exists).
Quiescent(b) ==
    /\ waiting[b] = {} /\ rwaiters[b] = {}
    /\ \A w \in Warps : b \notin DOMAIN lane[w]
    /\ \A c \in Sms \X Sms : \A i \in 1..Len(chan[c]) :
            chan[c][i].bar = b => chan[c][i].op # "EXPECT_TX"

InitBar(w, b, n) ==
    /\ CanIssue(w) /\ IsLocal(w, b) /\ Quiescent(b)
    /\ exists' = [exists EXCEPT ![b] = TRUE]
    /\ expected' = [expected EXCEPT ![b] = n]
    /\ pending' = [pending EXCEPT ![b] = n]
    /\ tx' = [tx EXCEPT ![b] = 0]
    /\ phase' = [phase EXCEPT ![b] = 0]
    /\ UNCHANGED <<waiting, rwaiters, waitVars, park, rel, remote, chan, doneMsgs, answered>>

\* Invalidation of some barriers: the objects are erased.
Erase(bs) ==
    /\ exists' = [b \in Bars |-> exists[b] /\ b \notin bs]
    /\ expected' = [b \in Bars |-> IF b \in bs THEN 0 ELSE expected[b]]
    /\ pending' = [b \in Bars |-> IF b \in bs THEN 0 ELSE pending[b]]
    /\ tx' = [b \in Bars |-> IF b \in bs THEN 0 ELSE tx[b]]
    /\ phase' = [b \in Bars |-> IF b \in bs THEN 0 ELSE phase[b]]
    /\ waiting' = [b \in Bars |-> IF b \in bs THEN {} ELSE waiting[b]]
    /\ rwaiters' = [b \in Bars |-> IF b \in bs THEN {} ELSE rwaiters[b]]

Inval(w, b) ==
    /\ CanIssue(w) /\ IsLocal(w, b) /\ exists[b] /\ Quiescent(b)
    /\ Erase({b})
    /\ UNCHANGED <<waitVars, park, rel, remote, chan, doneMsgs, answered>>

\* The CTA of an SM ends and the next one starts: cleanup_cta_mbarriers.
\* Scheduled releases and requests in flight outlive it.
ReleaseCta(s) ==
    LET bs == {b \in Bars : Home[b] = s /\ exists[b]}
    IN  /\ bs # {} /\ \A b \in bs : Quiescent(b)
        /\ \A w \in Warps : Home[w] = s => park[w] = "none"
        /\ Erase(bs)
        /\ UNCHANGED <<waitVars, park, rel, remote, chan, doneMsgs, answered>>

-----------------------------------------------------------------------------
(* Arrivals and transaction counts. *)

\* expect_tx only raises the count; it never completes a phase.
Expect(b, e) ==
    /\ exists[b] /\ tx[b] + e <= MaxTx
    /\ tx' = [tx EXCEPT ![b] = @ + e]
    /\ UNCHANGED <<exists, expected, pending, phase, waiting>>

\* An operation of a local warp on the barrier: it wakes local and remote
\* waiters, then holds the warp for h cycles.
LocalOp(w, b, p, x, h) ==
    /\ Settle(b, p, x)
    /\ Notify(Released(b, p, x))
    /\ NotifyRemote(b)
    /\ Hold(w, h, ReleaseWarps(Released(b, p, x)))
    /\ UNCHANGED <<lane, predIn, ready, remote, chan, answered>>

\* mbarrier.arrive with a count.
Arrive(w, b, n) ==
    /\ CanIssue(w)
    /\ \/ IsLocal(w, b) /\ LocalOp(w, b, MissingAfter(b, n), tx[b], ArriveLatency)
       \/ /\ ~IsLocal(w, b)
          /\ Send(w, b, <<[op |-> "ARRIVE", bar |-> b, n |-> n]>>)
          /\ Hold(w, ArriveLatency, rel)
          /\ UNCHANGED <<barVars, rwaiters, waitVars, remote, doneMsgs, answered>>

\* The hold of arrive.expect_tx.
ExpectHold(e) == IF e = 0 THEN ArriveLatency + ExtraHold ELSE ArriveLatency

\* mbarrier.arrive.expect_tx: the expectation is recorded before the arrival.
ArriveExpectTx(w, b, e) ==
    /\ CanIssue(w) /\ exists[b]
    /\ \/ IsLocal(w, b) /\ LocalOp(w, b, MissingAfter(b, 1), tx[b] + e, ExpectHold(e))
       \/ /\ ~IsLocal(w, b)
          /\ Send(w, b, <<[op |-> "EXPECT_TX", bar |-> b, n |-> e],
                          [op |-> "ARRIVE", bar |-> b, n |-> 1]>>)
          /\ Hold(w, ExpectHold(e), rel)
          /\ UNCHANGED <<barVars, rwaiters, waitVars, remote, doneMsgs, answered>>

\* mbarrier.expect_tx.
ExpectTx(w, b, e) ==
    /\ CanIssue(w) /\ exists[b]
    /\ \/ IsLocal(w, b) /\ Expect(b, e) /\ UNCHANGED chan
       \/ /\ ~IsLocal(w, b)
          /\ Send(w, b, <<[op |-> "EXPECT_TX", bar |-> b, n |-> e]>>)
          /\ UNCHANGED barVars
    /\ UNCHANGED <<rwaiters, waitVars, park, rel, remote, doneMsgs, answered>>

\* mbarrier.complete_tx.
CompleteTxInst(w, b, n) ==
    /\ CanIssue(w)
    /\ \/ IsLocal(w, b) /\ LocalOp(w, b, pending[b], tx[b] - n, 0)
       \/ /\ ~IsLocal(w, b)
          /\ Send(w, b, <<[op |-> "COMPLETE_TX", bar |-> b, n |-> n]>>)
          /\ UNCHANGED <<barVars, rwaiters, waitVars, park, rel, remote, doneMsgs, answered>>

\* barrier_set_t::complete_tx (the TMA unit), arrive_mbarrier_async and the
\* tcgen05 arrival: they wake local waiters only.
AsyncOp(b, p, x) ==
    /\ exists[b]
    /\ Settle(b, p, x)
    /\ Notify(Released(b, p, x))
    /\ UNCHANGED <<rwaiters, lane, predIn, ready, park, rel, remote, chan, doneMsgs, answered>>

TmaComplete(b, n) == AsyncOp(b, pending[b], tx[b] - n)

AsyncArrive(b) == AsyncOp(b, MissingAfter(b, 1), tx[b])

\* prepare_async_arrival reserves one more arrival of this phase.
PrepareAsync(b) ==
    /\ exists[b] /\ pending[b] < MaxCount + 1
    /\ pending' = [pending EXCEPT ![b] = @ + 1]
    /\ UNCHANGED <<exists, expected, tx, phase, waiting, rwaiters, waitVars, park,
                   rel, remote, chan, doneMsgs, answered>>

\* remote_arrive and try_complete_tx_if_pending at the owner: they schedule
\* releases and wake remote waiters.
PeerOp(b, p, x) ==
    /\ Settle(b, p, x)
    /\ NotifyRemote(b)
    /\ rel' = ReleaseWarps(Released(b, p, x))

\* Mutant: the waiter is stored and the request answered as well.
RegisterAndAnswer(m) ==
    /\ rwaiters' = [rwaiters EXCEPT ![m.bar] =
            @ \cup {[warp |-> m.warp, parity |-> m.parity]}]
    /\ doneMsgs' = [doneMsgs EXCEPT ![m.warp] = @ + 1]
    /\ UNCHANGED <<barVars, rel>>

\* register_remote_wait: store the waiter unless its phase is over or the
\* barrier is gone; then the request itself is answered with WAIT_DONE.
RegisterRemoteWait(m) ==
    /\ \/ /\ exists[m.bar] /\ ~PhaseDone(m.bar, m.parity)
          /\ rwaiters' = [rwaiters EXCEPT ![m.bar] =
                    @ \cup {[warp |-> m.warp, parity |-> m.parity]}]
          /\ UNCHANGED doneMsgs
       \/ /\ ~exists[m.bar] \/ PhaseDone(m.bar, m.parity)
          /\ doneMsgs' = [doneMsgs EXCEPT ![m.warp] = @ + 1]
          /\ UNCHANGED rwaiters
    /\ UNCHANGED <<barVars, rel>>

\* dsm_on_mbar_req: the owner serves the oldest request of a peer.
Deliver(c) ==
    /\ chan[c] # <<>>
    /\ LET m == Head(chan[c]) IN
          \/ m.op = "ARRIVE" /\ PeerOp(m.bar, MissingAfter(m.bar, m.n), tx[m.bar])
          \/ m.op = "COMPLETE_TX" /\ PeerOp(m.bar, pending[m.bar], tx[m.bar] - m.n)
          \/ m.op = "EXPECT_TX" /\ Expect(m.bar, m.n) /\ UNCHANGED <<rwaiters, doneMsgs, rel>>
          \/ m.op = "WAIT_REG" /\ RegisterRemoteWait(m)
    /\ chan' = [chan EXCEPT ![c] = Tail(@)]
    /\ UNCHANGED <<waitVars, park, remote, answered>>

-----------------------------------------------------------------------------
(* mbarrier.try_wait. *)

\* What the first test makes of one lane: done, latched false, or suspended.
FirstTest(b, q) ==
    LET done  == PhaseDone(b, q.parity)
        latch == q.hint = NoHint /\ PredicateLatency > 0
        susp  == IF q.hint = NoHint THEN TryWaitLatency ELSE q.hint
    IN  [parity |-> q.parity, from |-> phase[b],
         res |-> IF done THEN "true" ELSE IF latch \/ susp = 0 THEN "false" ELSE "open",
         dl |-> IF done \/ latch THEN 0 ELSE susp]

Open(l) == {b \in DOMAIN l : l[b].res = "open"}
AllTrue(l) == \A b \in DOMAIN l : l[b].res = "true"

\* Mutant: sleep until the last lane's deadline.
LatestDeadline(l) == Max({l[b].dl : b \in Open(l)})

\* A suspended wait is rechecked at the first deadline of its open lanes.
EarliestDeadline(l) == Min({l[b].dl : b \in Open(l)})

\* A local try_wait; q gives the lanes' barriers, parities and hints.
TryWait(w, q) ==
    LET l == [b \in DOMAIN q |-> FirstTest(b, q[b])]
        p == IF \E b \in DOMAIN q : q[b].hint = NoHint THEN PredicateLatency ELSE 0
        answeredNow == Open(l) = {} /\ p = 0
    IN  /\ CanIssue(w) /\ w \in LocalWaiters
        /\ \A b \in DOMAIN q : exists[b]
        /\ \/ answeredNow /\ UNCHANGED <<waiting, waitVars, park>>
           \/ /\ ~answeredNow
              /\ lane' = [lane EXCEPT ![w] = l]
              /\ predIn' = [predIn EXCEPT ![w] = p]
              /\ notified' = [notified EXCEPT ![w] = FALSE]
              /\ ready' = [ready EXCEPT ![w] = Open(l) = {}]
              /\ recheckIn' = [recheckIn EXCEPT ![w] =
                        IF Open(l) = {} THEN p ELSE EarliestDeadline(l)]
              /\ waiting' = [b \in Bars |-> IF b \in Open(l) THEN waiting[b] \cup {w}
                                            ELSE waiting[b]]
              /\ park' = [park EXCEPT ![w] = "mbar"]
        /\ answered' = [answered EXCEPT ![w] = answeredNow]
        /\ UNCHANGED <<exists, expected, pending, tx, phase, rwaiters, rel, remote,
                       chan, doneMsgs>>

\* A try_wait on a barrier of another SM: register there and park until
\* WAIT_DONE.
TryWaitRemote(w, b, parity) ==
    /\ CanIssue(w) /\ w \in RemoteWaiters /\ ~IsLocal(w, b)
    /\ Send(w, b, <<[op |-> "WAIT_REG", bar |-> b, warp |-> w, parity |-> parity]>>)
    /\ remote' = [remote EXCEPT ![w] = TRUE]
    /\ park' = [park EXCEPT ![w] = "mbar"]
    /\ answered' = [answered EXCEPT ![w] = FALSE]
    /\ UNCHANGED <<barVars, rwaiters, waitVars, rel, doneMsgs>>

\* release_remote_waiter: write the predicate, then release the warp.
WaitDone(w) ==
    /\ doneMsgs[w] > 0
    /\ doneMsgs' = [doneMsgs EXCEPT ![w] = @ - 1]
    /\ remote' = [remote EXCEPT ![w] = FALSE]
    /\ answered' = [answered EXCEPT ![w] = @ \/ remote[w]]
    /\ \/ /\ TryWaitLatency = 0 /\ park[w] = "mbar"
          /\ park' = [park EXCEPT ![w] = "none"]
          /\ UNCHANGED rel
       \/ /\ ~(TryWaitLatency = 0 /\ park[w] = "mbar")
          /\ rel' = ReleaseWarps({w})
          /\ UNCHANGED park
    /\ UNCHANGED <<barVars, rwaiters, waitVars, chan>>

\* Other waits of the warp (bar.sync and the like) park it with another type.
ParkOther(w) ==
    /\ CanIssue(w)
    /\ park' = [park EXCEPT ![w] = "other"]
    /\ UNCHANGED <<barVars, rwaiters, waitVars, rel, remote, chan, doneMsgs, answered>>

UnparkOther(w) ==
    /\ park[w] = "other"
    /\ park' = [park EXCEPT ![w] = "none"]
    /\ UNCHANGED <<barVars, rwaiters, waitVars, rel, remote, chan, doneMsgs, answered>>

-----------------------------------------------------------------------------
(* barrier_set_t::cycle. *)

Less(n) == IF n = 0 THEN 0 ELSE n - 1

\* Mutant: a live try_wait does not protect the warp.
ReleaseTakesAny(w) == 1 \in rel[w] /\ park[w] = "mbar"

\* A scheduled release that comes due is dropped when the warp has a live
\* try_wait or is not parked on an mbarrier any more.
ReleaseTakes(w) == 1 \in rel[w] /\ ~Waits(w) /\ park[w] = "mbar"

Due(w) == Waits(w) /\ Less(recheckIn[w]) = 0

\* Mutant: the deadline is reported as completion.
ClassifyDeadlineTrue(b, parity, dl) ==
    IF PhaseDone(b, parity) \/ dl = 0 THEN "true" ELSE "open"

\* Mutant: the deadline is forgotten.
ClassifyNoDeadline(b, parity, dl) == IF PhaseDone(b, parity) THEN "true" ELSE "open"

\* mbarrier_classify_recheck of a lane that is still open, at its deadline in
\* dl cycles; completion wins at the deadline.
Classify(b, parity, dl) ==
    IF PhaseDone(b, parity) THEN "true" ELSE IF dl = 0 THEN "false" ELSE "open"

\* The lanes after one cycle.
Tested(w) ==
    [b \in DOMAIN lane[w] |->
        LET l  == lane[w][b]
            dl == Less(l.dl)
        IN  [parity |-> l.parity, from |-> l.from, dl |-> dl,
             res |-> IF Due(w) /\ ~ready[w] /\ l.res = "open"
                     THEN Classify(b, l.parity, dl) ELSE l.res]]

\* mbarrier_result_release_cycle: cycles until the predicate is visible.
ResultIn(w) ==
    LET wakeup == IF notified[w] /\ AllTrue(Tested(w)) THEN WakeupLatency ELSE 0
    IN  Max({Less(predIn[w]), wakeup})

\* finish_mbarrier_wait happens this cycle.
Finishes(w) == Due(w) /\ (ready[w] \/ (Open(Tested(w)) = {} /\ ResultIn(w) = 0))

\* All lanes are resolved, and the predicate becomes visible later.
Matures(w) == Due(w) /\ ~ready[w] /\ Open(Tested(w)) = {} /\ ResultIn(w) > 0

\* Some lane sleeps on, registered again with its old deadline.
SleepsOn(w) == Due(w) /\ ~ready[w] /\ Open(Tested(w)) # {}

\* Mutant: a lane that sleeps on is not registered again.
NoBars(w) == {}

\* The barriers at which the recheck registers the warp again.
Reregisters(w) == IF SleepsOn(w) THEN Open(Tested(w)) ELSE {}

\* The barriers finish_mbarrier_wait takes the warp off.
Cancels(w) == IF Finishes(w) THEN DOMAIN lane[w] ELSE {}

NextRecheck(w) ==
    CASE Matures(w)  -> ResultIn(w)
      [] SleepsOn(w) -> EarliestDeadline(Tested(w))
      [] OTHER       -> Less(recheckIn[w])

Cycle ==
    /\ lane' = [w \in Warps |-> IF Finishes(w) THEN <<>> ELSE Tested(w)]
    /\ recheckIn' = [w \in Warps |-> IF Finishes(w) THEN 0 ELSE NextRecheck(w)]
    /\ predIn' = [w \in Warps |-> IF Finishes(w) THEN 0 ELSE Less(predIn[w])]
    /\ notified' = [w \in Warps |-> notified[w] /\ ~Due(w)]
    /\ ready' = [w \in Warps |-> Matures(w) \/ (ready[w] /\ ~Finishes(w))]
    /\ waiting' = [b \in Bars |->
            {w \in waiting[b] : b \notin Cancels(w)}
            \cup {w \in Warps : b \in Reregisters(w)}]
    /\ park' = [w \in Warps |-> IF ReleaseTakes(w) \/ (Finishes(w) /\ park[w] = "mbar")
                                THEN "none" ELSE park[w]]
    /\ rel' = [w \in Warps |-> {r - 1 : r \in rel[w] \ {1}}]
    /\ answered' = [w \in Warps |-> answered[w] \/ Finishes(w)]
    /\ UNCHANGED <<exists, expected, pending, tx, phase, rwaiters, remote, chan, doneMsgs>>

Next ==
    \/ \E w \in Warps, b \in Bars :
        \/ \E n \in 1..MaxCount : InitBar(w, b, n) \/ Arrive(w, b, n)
        \/ Inval(w, b)
        \/ \E e \in 0..MaxTx : ArriveExpectTx(w, b, e)
        \/ \E e \in 1..MaxTx : ExpectTx(w, b, e) \/ CompleteTxInst(w, b, e)
        \/ \E parity \in Parities : TryWaitRemote(w, b, parity)
    \/ \E w \in Warps : \E bs \in (SUBSET LanesOf(w)) \ {{}} :
            \E q \in [bs -> [parity : Parities, hint : Hints \cup {NoHint}]] : TryWait(w, q)
    \/ \E s \in Sms : ReleaseCta(s)
    \/ \E b \in Bars : \/ \E n \in 1..MaxTx : TmaComplete(b, n)
                       \/ AsyncArrive(b)
                       \/ PrepareAsync(b)
    \/ \E c \in Sms \X Sms : Deliver(c)
    \/ \E w \in Warps : WaitDone(w) \/ ParkOther(w) \/ UnparkOther(w)
    \/ Cycle

\* The core clock keeps running.
Fairness == WF_vars(Cycle)

Spec == Init /\ [][Next]_vars /\ Fairness

-----------------------------------------------------------------------------
(* Properties. *)

\* No lost notification: a suspended lane waits for an incomplete phase with
\* its warp registered at the barrier, or the warp is about to recheck.
WaiterWillHear ==
    \A w \in Warps : (Waits(w) /\ ~ready[w]) =>
        \A b \in Open(lane[w]) :
            recheckIn[w] = 0 \/ (w \in waiting[b] /\ ~PhaseDone(b, lane[w][b].parity))

\* The waits registered at a barrier are the live waits of its SM's warps.
RegisteredIsLive ==
    \A b \in Bars : \A w \in waiting[b] : exists[b] /\ b \in DOMAIN lane[w]

\* Waits and registrations agree both ways, through rechecks, partial answers,
\* erased barriers and reused slots: who sleeps will hear, and who is notified
\* still waits.
RegistrationsExact == WaiterWillHear /\ RegisteredIsLive

\* No oversleeping: whatever notifications, partial answers and
\* re-registrations do to a wait, it is rechecked by its earliest deadline.
NeverOversleeps ==
    \A w \in Warps : (Waits(w) /\ ~ready[w]) =>
        /\ Open(lane[w]) # {}
        /\ \A b \in Open(lane[w]) : recheckIn[w] <= lane[w][b].dl

\* try_wait answers true only if the phase waited for has completed, although
\* parities repeat, and false only at the deadline.
AnswersJustified ==
    \A w \in Warps : \A b \in DOMAIN lane[w] :
        LET l == lane[w][b] IN
          /\ l.res = "true" => (phase[b] > l.from \/ l.parity # l.from % 2)
          /\ l.res = "false" => l.dl = 0

\* A warp never runs past a try_wait whose predicate is not written: releases
\* scheduled for earlier waits and holds of the warp do not end a later one.
\* (mbarrier.cc: "Register on the owner and park until WAIT_DONE writes the
\* predicate".)
ResumesWithAnswer ==
    \A w \in Warps : ~answered[w] => park[w] = "mbar"

\* Everybody parked here has somebody to release it: a pending wait, a remote
\* wait or a scheduled release.
ParkedHasReleaser ==
    \A w \in Warps : park[w] = "mbar" => (Waits(w) \/ remote[w] \/ rel[w] # {})

\* A warp is parked exactly as long as it is owed something: until its answer,
\* and never without somebody who will release it.
ParkingExact == ResumesWithAnswer /\ ParkedHasReleaser

\* The remote waiters and the requests under way that are for w.
WaitersOf(w) == {x \in Bars \X [warp : {w}, parity : Parities] : x[2] \in rwaiters[x[1]]}
RequestsOf(w) ==
    {x \in (Sms \X Sms) \X (1..MaxChan) :
        LET q == chan[x[1]]
        IN  x[2] <= Len(q) /\ q[x[2]].op = "WAIT_REG" /\ q[x[2]].warp = w}

\* A remote wait is in exactly one place: in its request, among the owner's
\* remote waiters, or in the response.
RemoteWaitOnce ==
    \A w \in Warps : doneMsgs[w] + Cardinality(WaitersOf(w)) + Cardinality(RequestsOf(w))
                        = IF remote[w] THEN 1 ELSE 0

\* Every local try_wait returns.
EveryTryWaitReturns == \A w \in Warps : Waits(w) ~> ~Waits(w)

=============================================================================
