--------------------------- MODULE MbarrierProofs ---------------------------
(***************************************************************************)
(* Proofs about Mbarrier for any number of SMs, warps and barriers, any    *)
(* latencies and any bounds.                                               *)
(***************************************************************************)
EXTENDS Mbarrier, TLAPS, FiniteSetTheorems, WellFoundedInduction

\* Every warp and every barrier are on the same SM.
AllLocal == \A w \in Warps, b \in Bars : IsLocal(w, b)

\* Nothing ends a local wait of w from outside: WAIT_DONE without a latency unparks at
\* once, but only a warp that waits on other SMs gets it.
Undisturbed(w) == TryWaitLatency > 0 \/ w \notin RemoteWaiters \/ AllLocal

\* Who waits how is known from the code the warps run.
WaitersKnown ==
    /\ \A w \in Warps : Waits(w) => w \in LocalWaiters
    /\ \A w \in Warps : remote[w] \/ doneMsgs[w] > 0 => w \in RemoteWaiters
    /\ \A b \in Bars : \A r \in rwaiters[b] : r.warp \in RemoteWaiters
    /\ \A c \in Sms \X Sms : \A i \in 1..Len(chan[c]) :
          chan[c][i].op = "WAIT_REG" => chan[c][i].warp \in RemoteWaiters

\* Without other SMs there is no traffic between them.
NoTraffic ==
    AllLocal => /\ \A c \in Sms \X Sms : chan[c] = <<>>
                /\ \A b \in Bars : rwaiters[b] = {}
                /\ \A w \in Warps : doneMsgs[w] = 0 /\ ~remote[w]

\* A local wait keeps its warp parked.
WaitsParked == \A w \in Warps : Undisturbed(w) /\ Waits(w) => park[w] = "mbar"

\* A lane waits on a barrier that is there, from a phase that was there.
LanesLive == \A w \in Warps : \A b \in DOMAIN lane[w] : exists[b] /\ lane[w][b].from <= phase[b]

Registered ==
    \A b \in Bars : \A w \in waiting[b] :
        exists[b] /\ (Undisturbed(w) => b \in DOMAIN lane[w])

\* A warp that waits on its own SM only and has no answer has a wait.
Unanswered == \A w \in Warps \ RemoteWaiters : ~answered[w] => Waits(w)

\* The inductive invariant.
IndInv ==
    /\ TypeOK
    /\ WaitersKnown /\ NoTraffic
    /\ WaitsParked
    /\ LanesLive
    /\ NeverOversleeps
    /\ AnswersJustified
    /\ Registered
    /\ (AllLocal => WaiterWillHear)
    /\ Unanswered
    /\ ParkedHasReleaser

-----------------------------------------------------------------------------
(* Facts about the operators. *)

\* A warp has a wait exactly if it has lanes.
LEMMA WaitsHasLanes ==
    ASSUME TypeOK, NEW w \in Warps
    PROVE  Waits(w) <=> DOMAIN lane[w] # {}
<1>1. lane[w] = [b \in DOMAIN lane[w] |-> lane[w][b]]
  BY DEF TypeOK
<1>2. DOMAIN <<>> = {}
  OBVIOUS
<1>3. DOMAIN lane[w] = {} => lane[w] = <<>>
  BY <1>1
<1>4. QED
  BY <1>2, <1>3 DEF Waits

\* A set of numbers that is not empty has a least one, which Min chooses.
LEMMA MinOfNats ==
    ASSUME NEW S \in SUBSET Nat, S # {}
    PROVE  Min(S) \in S /\ \A x \in S : Min(S) <= x
<1>1. PICK m \in S : \A x \in S : ~(<<x, m>> \in OpToRel(<, Nat))
  BY NatLessThanWellFounded, WFMin
<1>2. \A x \in S : ~(x < m)
  BY <1>1 DEF OpToRel
<1>3. \A x \in S : m <= x
  BY <1>2
<1>4. QED
  BY <1>3 DEF Min

\* A change of the barriers that leaves the waits alone but may recheck them: what it
\* owes to the waiters.
QuietStep ==
    /\ lane' = lane /\ ready' = ready
    /\ \A w \in Warps : recheckIn'[w] = recheckIn[w] \/ recheckIn'[w] = 0
    /\ \A w \in Warps : \A b \in DOMAIN lane[w] : exists'[b] /\ phase'[b] >= phase[b]
    /\ \A b \in Bars : waiting'[b] \subseteq waiting[b] /\ (exists'[b] \/ ~exists[b] \/ waiting'[b] = {})
    /\ AllLocal => \A w \in Warps : \A b \in DOMAIN lane[w] :
                      \/ waiting'[b] = waiting[b] /\ phase'[b] = phase[b]
                      \/ Waits(w) /\ ~ready[w] /\ w \in waiting[b] => recheckIn'[w] = 0
    /\ \A w \in Warps : Undisturbed(w) /\ Waits(w) /\ park[w] = "mbar" => park'[w] = "mbar"
    /\ \A w \in Warps \ RemoteWaiters : answered'[w] = answered[w]

\* A quiet step keeps the inductive invariant, given the parts it may change.
LEMMA QuietInd ==
    ASSUME IndInv, QuietStep, TypeOK', WaitersKnown', NoTraffic', ParkedHasReleaser'
    PROVE  IndInv'
<1> USE DEF IndInv, QuietStep
<1>1. \A w \in Warps : Waits(w)' = Waits(w)
  BY DEF Waits
<1>2. \A w \in Warps : Undisturbed(w)' = Undisturbed(w)
  BY DEF Undisturbed, AllLocal, IsLocal
<1>3. AllLocal' = AllLocal
  BY DEF AllLocal, IsLocal
<1>4. WaitsParked'
  BY <1>1, <1>2 DEF WaitsParked
<1>5. \A w \in Warps : \A b \in DOMAIN lane[w] :
          /\ b \in Bars /\ lane[w][b] \in Lane
          /\ phase[b] \in Nat /\ phase'[b] \in Nat /\ lane[w][b].from \in Nat
  BY DEF TypeOK, LanesOf, Lane
<1>6. LanesLive'
  BY <1>5 DEF LanesLive
<1>7. NeverOversleeps'
  <2>1. ASSUME NEW w \in Warps, Waits(w), ~ready[w]
        PROVE  Open(lane[w]) # {} /\ \A b \in Open(lane[w]) : recheckIn'[w] <= lane[w][b].dl
    <3>1. Open(lane[w]) # {} /\ \A b \in Open(lane[w]) : recheckIn[w] <= lane[w][b].dl
      BY <2>1 DEF NeverOversleeps
    <3>2. \A b \in Open(lane[w]) : lane[w][b].dl \in Nat
      BY <1>5 DEF Open, Lane
    <3>3. QED
      BY <3>1, <3>2
  <2>2. QED
    BY <1>1, <2>1 DEF NeverOversleeps, Open
<1>8. AnswersJustified'
  <2>1. ASSUME NEW w \in Warps, NEW b \in DOMAIN lane[w]
        PROVE  /\ lane[w][b].res = "true" =>
                     (phase'[b] > lane[w][b].from \/ lane[w][b].parity # lane[w][b].from % 2)
               /\ lane[w][b].res = "false" => lane[w][b].dl = 0
    <3>1. /\ lane[w][b].res = "true" =>
                (phase[b] > lane[w][b].from \/ lane[w][b].parity # lane[w][b].from % 2)
          /\ lane[w][b].res = "false" => lane[w][b].dl = 0
      BY DEF AnswersJustified
    <3>2. phase[b] > lane[w][b].from => phase'[b] > lane[w][b].from
      BY <1>5
    <3>3. QED
      BY <3>1, <3>2
  <2>2. QED
    BY <2>1 DEF AnswersJustified
<1>9. Registered'
  BY <1>2 DEF Registered, TypeOK
<1>10. AllLocal => WaiterWillHear'
  <2>1. ASSUME AllLocal, NEW w \in Warps, Waits(w), ~ready[w], NEW b \in Open(lane[w])
        PROVE  recheckIn'[w] = 0 \/ (w \in waiting'[b] /\ ~(lane[w][b].parity # phase'[b] % 2))
    <3>1. recheckIn[w] = 0 \/ (w \in waiting[b] /\ ~PhaseDone(b, lane[w][b].parity))
      BY <2>1 DEF WaiterWillHear
    <3>2. b \in DOMAIN lane[w]
      BY DEF Open
    <3>3. QED
      BY <2>1, <3>1, <3>2 DEF PhaseDone
  <2>2. QED
    BY <1>1, <2>1 DEF WaiterWillHear, PhaseDone, Open
<1>11. Unanswered'
  BY <1>1 DEF Unanswered
<1>12. QED
  BY <1>3, <1>4, <1>6, <1>7, <1>8, <1>9, <1>10, <1>11

\* What try_advance may do to the barriers.
LEMMA SettleFacts ==
    ASSUME TypeOK, NEW b \in Bars, NEW p \in 0..(MaxCount + 1), NEW x, Settle(b, p, x)
    PROVE  /\ exists' = exists /\ expected' = expected
           /\ pending' \in [Bars -> 0..(MaxCount + 1)]
           /\ tx' \in [Bars -> (-MaxTx)..MaxTx]
           /\ phase' \in [Bars -> 0..MaxPhase]
           /\ waiting' \in [Bars -> SUBSET Warps]
           /\ \A a \in Bars : phase'[a] >= phase[a] /\ waiting'[a] \subseteq waiting[a]
           /\ \A a \in Bars : \/ waiting'[a] = waiting[a] /\ phase'[a] = phase[a]
                              \/ a = b /\ Released(b, p, x) = waiting[b]
<1> USE BoundAssumption
<1>1. /\ phase \in [Bars -> 0..MaxPhase] /\ MaxPhase \in Nat /\ phase[b] + 1 \in 0..MaxPhase
      /\ \A a \in Bars : phase[a] \in Nat /\ phase[a] >= phase[a] /\ phase[a] + 1 >= phase[a]
  BY SMTT(40) DEF Settle, TypeOK
<1>2. expected[b] \in 0..(MaxCount + 1)
  BY DEF TypeOK
<1>3. x \in (-MaxTx)..MaxTx /\ exists' = exists /\ expected' = expected
  BY DEF Settle
<1>4. CASE ~exists[b] /\ UNCHANGED <<pending, tx, phase, waiting>>
  BY <1>1, <1>3, <1>4 DEF TypeOK
<1>5. CASE /\ exists[b] /\ Completes(p, x)
           /\ pending' = [pending EXCEPT ![b] = expected[b]]
           /\ tx' = [tx EXCEPT ![b] = x]
           /\ phase' = [phase EXCEPT ![b] = @ + 1]
           /\ waiting' = [waiting EXCEPT ![b] = {}]
  <2>1. Released(b, p, x) = waiting[b]
    BY <1>5 DEF Released
  <2>2. /\ phase' \in [Bars -> 0..MaxPhase] /\ \A a \in Bars : phase'[a] >= phase[a]
        /\ \A a \in Bars : a # b => phase'[a] = phase[a]
    BY <1>1, <1>5
  <2>3. /\ waiting' \in [Bars -> SUBSET Warps] /\ \A a \in Bars : waiting'[a] \subseteq waiting[a]
        /\ \A a \in Bars : a # b => waiting'[a] = waiting[a]
    BY <1>5 DEF TypeOK
  <2>4. pending' \in [Bars -> 0..(MaxCount + 1)] /\ tx' \in [Bars -> (-MaxTx)..MaxTx]
    BY <1>2, <1>3, <1>5 DEF TypeOK
  <2>5. QED
    BY <1>3, <2>1, <2>2, <2>3, <2>4
<1>6. CASE /\ exists[b] /\ ~Completes(p, x)
           /\ pending' = [pending EXCEPT ![b] = p]
           /\ tx' = [tx EXCEPT ![b] = x]
           /\ UNCHANGED <<phase, waiting>>
  BY <1>1, <1>3, <1>6 DEF TypeOK
<1>7. QED
  BY <1>4, <1>5, <1>6 DEF Settle

\* The arrivals missing after n more stay within the counter's range.
LEMMA MissingAfterType ==
    ASSUME TypeOK, NEW b \in Bars, NEW n \in Nat
    PROVE  /\ MissingAfter(b, n) \in 0..(MaxCount + 1) /\ pending[b] \in 0..(MaxCount + 1)
<1>1. pending[b] \in 0..(MaxCount + 1) /\ MaxCount \in Nat
  BY BoundAssumption DEF TypeOK
<1>2. QED
  BY <1>1 DEF MissingAfter

\* notify_mbarrier_phase_change rechecks the waits of ws at once and no other.
LEMMA NotifyFacts ==
    ASSUME TypeOK, NEW ws, Notify(ws)
    PROVE  /\ notified' \in [Warps -> BOOLEAN] /\ recheckIn' \in [Warps -> Nat]
           /\ \A w \in Warps : recheckIn'[w] = recheckIn[w] \/ recheckIn'[w] = 0
           /\ \A w \in Warps : w \in ws /\ Waits(w) /\ ~ready[w] => recheckIn'[w] = 0
  BY DEF Notify, TypeOK

\* A warp has at most one remote wait of each parity at a barrier.
LEMMA WaitersFinite ==
    ASSUME NEW S \in SUBSET [warp : Warps, parity : Parities], NEW w \in Warps
    PROVE  IsFiniteSet({r \in S : r.warp = w}) /\ Cardinality({r \in S : r.warp = w}) \in Nat
<1> DEFINE two == {[warp |-> w, parity |-> 0]} \cup {[warp |-> w, parity |-> 1]}
<1>1. IsFiniteSet(two)
  BY FS_Singleton, FS_Union
<1>2. {r \in S : r.warp = w} \subseteq two
  BY DEF Parities
<1>3. IsFiniteSet({r \in S : r.warp = w})
  BY <1>1, <1>2, FS_Subset
<1>4. QED
  BY <1>3, FS_CardinalityType

\* notify_remote_waiters answers waiters of the barrier only.
LEMMA NotifyRemoteFacts ==
    ASSUME TypeOK, NEW b \in Bars, NotifyRemote(b)
    PROVE  /\ rwaiters' \in [Bars -> SUBSET [warp : Warps, parity : Parities]]
           /\ \A a \in Bars : rwaiters'[a] \subseteq rwaiters[a]
           /\ doneMsgs' \in [Warps -> Nat]
           /\ \A w \in Warps : \/ doneMsgs'[w] = doneMsgs[w]
                               \/ \E r \in rwaiters[b] : r.warp = w
<1> DEFINE sat == {r \in rwaiters[b] : r.parity # phase'[b] % 2}
           of(w) == {r \in sat : r.warp = w}
<1>1. /\ rwaiters' = [rwaiters EXCEPT ![b] = @ \ sat]
      /\ doneMsgs' = [w \in Warps |-> doneMsgs[w] + Cardinality(of(w))]
  BY DEF NotifyRemote
<1>2. sat \in SUBSET [warp : Warps, parity : Parities] /\ sat \subseteq rwaiters[b]
  BY DEF TypeOK
<1> HIDE DEF sat
<1>3. ASSUME NEW w \in Warps
      PROVE  /\ Cardinality(of(w)) \in Nat
             /\ Cardinality(of(w)) = 0 \/ \E r \in rwaiters[b] : r.warp = w
  <2>1. IsFiniteSet(of(w)) /\ Cardinality(of(w)) \in Nat
    BY <1>2, WaitersFinite
  <2>2. CASE of(w) = {}
    BY <2>1, <2>2, FS_EmptySet
  <2>3. CASE of(w) # {}
    BY <1>2, <2>1, <2>3
  <2>4. QED
    BY <2>2, <2>3
<1> HIDE DEF of
<1>4. doneMsgs' \in [Warps -> Nat] /\ \A w \in Warps : \/ doneMsgs'[w] = doneMsgs[w]
                                                      \/ \E r \in rwaiters[b] : r.warp = w
  <2>1. ASSUME NEW w \in Warps
        PROVE  /\ doneMsgs[w] + Cardinality(of(w)) \in Nat
               /\ \/ doneMsgs[w] + Cardinality(of(w)) = doneMsgs[w]
                  \/ \E r \in rwaiters[b] : r.warp = w
    <3>1. doneMsgs[w] \in Nat
      BY DEF TypeOK
    <3>2. QED
      BY <1>3, <3>1
  <2>2. QED
    BY <1>1, <2>1
<1>5. QED
  BY <1>1, <1>4 DEF TypeOK

\* Scheduling releases for ws takes no release away from any warp.
LEMMA ReleaseWarpsFacts ==
    ASSUME TypeOK, NEW ws
    PROVE  /\ ReleaseWarps(ws) \in [Warps -> SUBSET (Nat \ {0})]
           /\ \A w \in Warps : rel[w] \subseteq ReleaseWarps(ws)[w]
<1>1. TryWaitLatency \in Nat
  BY LatencyAssumption
<1>2. TryWaitLatency > 0 => TryWaitLatency \in Nat \ {0}
  BY <1>1
<1>3. QED
  BY <1>2 DEF ReleaseWarps, TypeOK

\* hold_warp parks the arriving warp with a release of its own.
LEMMA HoldFacts ==
    ASSUME TypeOK, ParkedHasReleaser, NEW w \in Warps, NEW h \in Nat,
           NEW r \in [Warps -> SUBSET (Nat \ {0})], \A v \in Warps : rel[v] \subseteq r[v],
           Hold(w, h, r), lane' = lane, remote' = remote
    PROVE  /\ park' \in [Warps -> {"none", "mbar", "other"}]
           /\ rel' \in [Warps -> SUBSET (Nat \ {0})]
           /\ ParkedHasReleaser'
           /\ \A v \in Warps : park[v] = "mbar" => park'[v] = "mbar"
<1>1. CASE h = 0
  <2>1. park' = park /\ rel' = r
    BY <1>1 DEF Hold
  <2>2. QED
    BY <2>1 DEF ParkedHasReleaser, TypeOK, Waits
<1>2. CASE h # 0
  <2>1. park' = [park EXCEPT ![w] = "mbar"] /\ rel' = [r EXCEPT ![w] = @ \cup {h}]
    BY <1>2 DEF Hold
  <2>2. /\ rel' \in [Warps -> SUBSET (Nat \ {0})] /\ rel'[w] # {}
        /\ \A v \in Warps : rel[v] \subseteq rel'[v]
    BY <1>2, <2>1
  <2>3. /\ park' \in [Warps -> {"none", "mbar", "other"}]
        /\ \A v \in Warps : v # w => park'[v] = park[v]
        /\ park'[w] = "mbar"
    BY <2>1 DEF TypeOK
  <2>4. QED
    BY <2>2, <2>3 DEF ParkedHasReleaser, Waits
<1>3. QED
  BY <1>1, <1>2

\* A request that is sent is one more in the channel.
LEMMA SendFacts ==
    ASSUME TypeOK, WaitersKnown, NEW w \in Warps, NEW b \in Bars, NEW msgs \in Seq(Msg),
           \A i \in 1..Len(msgs) : msgs[i].op = "WAIT_REG" => msgs[i].warp \in RemoteWaiters,
           Send(w, b, msgs)
    PROVE  /\ chan' \in [Sms \X Sms -> Seq(Msg)]
           /\ \A c \in Sms \X Sms : Len(chan'[c]) <= MaxChan
           /\ \A c \in Sms \X Sms : \A i \in 1..Len(chan'[c]) :
                 chan'[c][i].op = "WAIT_REG" => chan'[c][i].warp \in RemoteWaiters
<1> DEFINE c == <<Home[w], Home[b]>>
           q == chan[c] \o msgs
<1>1. c \in Sms \X Sms /\ Len(chan[c]) + Len(msgs) <= MaxChan
      /\ chan' = [chan EXCEPT ![c] = q]
  BY HomeAssumption DEF Send
<1>2. chan[c] \in Seq(Msg)
  BY <1>1 DEF TypeOK
<1>3. /\ q \in Seq(Msg) /\ Len(q) = Len(chan[c]) + Len(msgs) /\ Len(chan[c]) \in Nat /\ Len(msgs) \in Nat
      /\ \A i \in 1..Len(q) : q[i] = IF i <= Len(chan[c]) THEN chan[c][i] ELSE msgs[i - Len(chan[c])]
  BY <1>2
<1>4. ASSUME NEW i \in 1..Len(q), q[i].op = "WAIT_REG" PROVE q[i].warp \in RemoteWaiters
  <2>1. CASE i <= Len(chan[c])
    <3>1. i \in 1..Len(chan[c]) /\ q[i] = chan[c][i]
      BY <1>3, <2>1
    <3>2. QED
      BY <1>1, <1>4, <3>1 DEF WaitersKnown
  <2>2. CASE ~(i <= Len(chan[c]))
    <3>1. i - Len(chan[c]) \in 1..Len(msgs) /\ q[i] = msgs[i - Len(chan[c])]
      BY <1>3, <2>2
    <3>2. QED
      BY <1>4, <3>1
  <2>3. QED
    BY <2>1, <2>2
<1> HIDE DEF q
<1>5. \A d \in Sms \X Sms : chan'[d] = IF d = c THEN q ELSE chan[d]
  BY <1>1 DEF TypeOK
<1>6. QED
  BY <1>1, <1>3, <1>4, <1>5 DEF TypeOK, WaitersKnown

-----------------------------------------------------------------------------
(* The inductive invariant, one lemma per kind of action. *)

\* No barrier, no wait, nobody parked.
LEMMA InitInd == Init => IndInv
<1> SUFFICES ASSUME Init PROVE IndInv
  OBVIOUS
<1> USE BoundAssumption DEF Init
<1>1. DOMAIN <<>> = {} /\ \A w \in Warps : lane[w] = <<>> /\ DOMAIN lane[w] = {}
  OBVIOUS
<1>2. TypeOK
  <2>1. lane = [w \in Warps |-> lane[w]] /\ \A w \in Warps : lane[w] \in [DOMAIN lane[w] -> Lane]
    BY <1>1
  <2>2. chan \in [Sms \X Sms -> Seq(Msg)] /\ \A c \in Sms \X Sms : Len(chan[c]) <= MaxChan
    OBVIOUS
  <2>3. 0 \in (-MaxTx)..MaxTx /\ 0 \in 0..MaxCount /\ 0 \in 0..(MaxCount + 1) /\ 0 \in 0..MaxPhase
    OBVIOUS
  <2>4. {notified, ready, remote, answered} \subseteq [Warps -> BOOLEAN]
    OBVIOUS
  <2>5. QED
    BY <1>1, <2>1, <2>2, <2>3, <2>4 DEF TypeOK
<1>3. WaitersKnown /\ NoTraffic
  BY DEF WaitersKnown, NoTraffic, Waits
<1>4. WaitsParked /\ NeverOversleeps /\ Unanswered /\ ParkedHasReleaser
  BY DEF WaitsParked, NeverOversleeps, Unanswered, ParkedHasReleaser, Waits
<1>5. LanesLive /\ AnswersJustified /\ Registered /\ WaiterWillHear
  BY <1>1 DEF LanesLive, AnswersJustified, Registered, WaiterWillHear, Waits
<1>6. QED
  BY <1>2, <1>3, <1>4, <1>5 DEF IndInv

\* Waiters known and no traffic, when the remote side only moves on.
LEMMA RemoteFrame ==
    ASSUME IndInv, TypeOK', lane' = lane, remote' = remote, chan' = chan,
           \A a \in Bars : rwaiters'[a] \subseteq rwaiters[a],
           NEW b \in Bars,
           \A w \in Warps : doneMsgs'[w] = doneMsgs[w] \/ \E r \in rwaiters[b] : r.warp = w
    PROVE  WaitersKnown' /\ NoTraffic'
<1>1. WaitersKnown'
  BY DEF IndInv, WaitersKnown, Waits
<1>2. NoTraffic'
  BY DEF IndInv, NoTraffic, AllLocal, IsLocal
<1>3. QED
  BY <1>1, <1>2

\* A step that leaves the waiters of all kinds and the barriers' phases alone.
LEMMA IdleInd ==
    ASSUME IndInv, TypeOK', WaitersKnown', NoTraffic', ParkedHasReleaser',
           UNCHANGED <<exists, phase, waiting, lane, recheckIn, ready>>,
           \A w \in Warps : Undisturbed(w) /\ Waits(w) /\ park[w] = "mbar" => park'[w] = "mbar",
           \A w \in Warps \ RemoteWaiters : answered'[w] = answered[w]
    PROVE  IndInv'
<1>1. \A w \in Warps : \A b \in DOMAIN lane[w] : exists[b] /\ b \in Bars /\ phase[b] >= phase[b]
  <2>1. ASSUME NEW w \in Warps, NEW b \in DOMAIN lane[w] PROVE exists[b] /\ b \in Bars /\ phase[b] \in Nat
    BY DEF IndInv, LanesLive, TypeOK, LanesOf
  <2>2. QED
    BY <2>1
<1>2. QuietStep
  BY <1>1 DEF QuietStep
<1>3. QED
  BY <1>2, QuietInd

\* An operation of a local warp.
LEMMA LocalOpInd ==
    ASSUME IndInv, NEW w \in Warps, NEW b \in Bars, NEW p \in 0..(MaxCount + 1), NEW x,
           NEW h \in Nat, LocalOp(w, b, p, x, h)
    PROVE  IndInv'
<1> DEFINE ws == Released(b, p, x)
<1>1. /\ Settle(b, p, x) /\ Notify(ws) /\ NotifyRemote(b) /\ Hold(w, h, ReleaseWarps(ws))
      /\ UNCHANGED <<lane, predIn, ready, remote, chan, answered>>
  BY DEF LocalOp
<1>2. TypeOK /\ ParkedHasReleaser
  BY DEF IndInv
<1>3. /\ exists' = exists /\ expected' = expected
      /\ pending' \in [Bars -> 0..(MaxCount + 1)]
      /\ tx' \in [Bars -> (-MaxTx)..MaxTx]
      /\ phase' \in [Bars -> 0..MaxPhase]
      /\ waiting' \in [Bars -> SUBSET Warps]
      /\ \A a \in Bars : phase'[a] >= phase[a] /\ waiting'[a] \subseteq waiting[a]
      /\ \A a \in Bars : \/ waiting'[a] = waiting[a] /\ phase'[a] = phase[a]
                         \/ a = b /\ ws = waiting[b]
  BY <1>1, <1>2, SettleFacts
<1> HIDE DEF ws
<1>4. /\ notified' \in [Warps -> BOOLEAN] /\ recheckIn' \in [Warps -> Nat]
      /\ \A v \in Warps : recheckIn'[v] = recheckIn[v] \/ recheckIn'[v] = 0
      /\ \A v \in Warps : v \in ws /\ Waits(v) /\ ~ready[v] => recheckIn'[v] = 0
  BY <1>1, <1>2, NotifyFacts
<1>5. /\ rwaiters' \in [Bars -> SUBSET [warp : Warps, parity : Parities]]
      /\ \A a \in Bars : rwaiters'[a] \subseteq rwaiters[a]
      /\ doneMsgs' \in [Warps -> Nat]
      /\ \A v \in Warps : doneMsgs'[v] = doneMsgs[v] \/ \E r \in rwaiters[b] : r.warp = v
  BY <1>1, <1>2, NotifyRemoteFacts
<1>6. /\ park' \in [Warps -> {"none", "mbar", "other"}]
      /\ rel' \in [Warps -> SUBSET (Nat \ {0})]
      /\ ParkedHasReleaser'
      /\ \A v \in Warps : park[v] = "mbar" => park'[v] = "mbar"
  BY <1>1, <1>2, ReleaseWarpsFacts, HoldFacts
<1>7. TypeOK'
  <2>1. /\ exists' \in [Bars -> BOOLEAN] /\ expected' \in [Bars -> 0..MaxCount]
        /\ chan' \in [Sms \X Sms -> Seq(Msg)] /\ \A c \in Sms \X Sms : Len(chan'[c]) <= MaxChan
    BY <1>1, <1>2, <1>3 DEF TypeOK
  <2>2. /\ lane' = [v \in Warps |-> lane'[v]]
        /\ \A v \in Warps : DOMAIN lane'[v] \subseteq LanesOf(v) /\ lane'[v] \in [DOMAIN lane'[v] -> Lane]
        /\ predIn' \in [Warps -> Nat]
    BY <1>1, <1>2 DEF TypeOK
  <2>3. {notified', ready', remote', answered'} \subseteq [Warps -> BOOLEAN]
    BY <1>1, <1>2, <1>4 DEF TypeOK
  <2>4. QED
    BY <1>3, <1>4, <1>5, <1>6, <2>1, <2>2, <2>3 DEF TypeOK
<1>8. WaitersKnown' /\ NoTraffic'
  BY <1>1, <1>5, <1>7, RemoteFrame
<1>9. \A v \in Warps : \A a \in DOMAIN lane[v] : a \in Bars /\ exists[a]
  BY <1>2 DEF IndInv, LanesLive, TypeOK, LanesOf
<1>10. QuietStep
  BY <1>1, <1>3, <1>4, <1>6, <1>9 DEF QuietStep
<1>11. QED
  BY <1>6, <1>7, <1>8, <1>10, QuietInd

\* An operation of the TMA unit or the tcgen05 unit.
LEMMA AsyncOpInd ==
    ASSUME IndInv, NEW b \in Bars, NEW p \in 0..(MaxCount + 1), NEW x, AsyncOp(b, p, x)
    PROVE  IndInv'
<1> DEFINE ws == Released(b, p, x)
<1>1. /\ Settle(b, p, x) /\ Notify(ws)
      /\ UNCHANGED <<rwaiters, lane, predIn, ready, park, rel, remote, chan, doneMsgs, answered>>
  BY DEF AsyncOp
<1>2. TypeOK /\ ParkedHasReleaser
  BY DEF IndInv
<1>3. /\ exists' = exists /\ expected' = expected
      /\ pending' \in [Bars -> 0..(MaxCount + 1)]
      /\ tx' \in [Bars -> (-MaxTx)..MaxTx]
      /\ phase' \in [Bars -> 0..MaxPhase]
      /\ waiting' \in [Bars -> SUBSET Warps]
      /\ \A a \in Bars : phase'[a] >= phase[a] /\ waiting'[a] \subseteq waiting[a]
      /\ \A a \in Bars : \/ waiting'[a] = waiting[a] /\ phase'[a] = phase[a]
                         \/ a = b /\ ws = waiting[b]
  BY <1>1, <1>2, SettleFacts
<1> HIDE DEF ws
<1>4. /\ notified' \in [Warps -> BOOLEAN] /\ recheckIn' \in [Warps -> Nat]
      /\ \A v \in Warps : recheckIn'[v] = recheckIn[v] \/ recheckIn'[v] = 0
      /\ \A v \in Warps : v \in ws /\ Waits(v) /\ ~ready[v] => recheckIn'[v] = 0
  BY <1>1, <1>2, NotifyFacts
<1>5. TypeOK'
  BY <1>1, <1>2, <1>3, <1>4 DEF TypeOK
<1>6. WaitersKnown' /\ NoTraffic' /\ ParkedHasReleaser'
  <2>1. WaitersKnown' /\ NoTraffic'
    BY <1>1, <1>5, RemoteFrame
  <2>2. ParkedHasReleaser'
    BY <1>1, <1>2 DEF ParkedHasReleaser, Waits
  <2>3. QED
    BY <2>1, <2>2
<1>7. \A v \in Warps : \A a \in DOMAIN lane[v] : a \in Bars /\ exists[a]
  BY <1>2 DEF IndInv, LanesLive, TypeOK, LanesOf
<1>8. QuietStep
  BY <1>1, <1>3, <1>4, <1>7 DEF QuietStep
<1>9. QED
  BY <1>5, <1>6, <1>8, QuietInd

\* An instruction that only sends requests to another SM and may hold its warp.
LEMMA SendInd ==
    ASSUME IndInv, NEW w \in Warps, NEW b \in Bars, ~IsLocal(w, b),
           NEW msgs \in Seq(Msg), \A i \in 1..Len(msgs) : msgs[i].op # "WAIT_REG",
           Send(w, b, msgs), NEW h \in Nat, Hold(w, h, rel),
           UNCHANGED <<barVars, rwaiters, waitVars, remote, doneMsgs, answered>>
    PROVE  IndInv'
<1> USE DEF barVars, waitVars
<1>1. TypeOK /\ ParkedHasReleaser /\ WaitersKnown
  BY DEF IndInv
<1>2. /\ chan' \in [Sms \X Sms -> Seq(Msg)]
      /\ \A c \in Sms \X Sms : Len(chan'[c]) <= MaxChan
      /\ \A c \in Sms \X Sms : \A i \in 1..Len(chan'[c]) :
            chan'[c][i].op = "WAIT_REG" => chan'[c][i].warp \in RemoteWaiters
  BY <1>1, SendFacts
<1>3. rel \in [Warps -> SUBSET (Nat \ {0})] /\ \A v \in Warps : rel[v] \subseteq rel[v]
  BY <1>1 DEF TypeOK
<1>4. /\ park' \in [Warps -> {"none", "mbar", "other"}]
      /\ rel' \in [Warps -> SUBSET (Nat \ {0})]
      /\ ParkedHasReleaser'
      /\ \A v \in Warps : park[v] = "mbar" => park'[v] = "mbar"
  BY <1>1, <1>3, HoldFacts
<1>5. TypeOK'
  BY <1>1, <1>2, <1>4 DEF TypeOK
<1>6. WaitersKnown' /\ NoTraffic'
  BY <1>1, <1>2 DEF WaitersKnown, NoTraffic, Waits, AllLocal, IsLocal
<1>7. QED
  BY <1>4, <1>5, <1>6, IdleInd

\* An initialisation or invalidation leaves the waiters alone: nobody waits there.
LEMMA LifetimeInd ==
    ASSUME IndInv, NEW bs \in SUBSET Bars, \A b \in bs : Quiescent(b),
           exists' \in [Bars -> BOOLEAN], expected' \in [Bars -> 0..MaxCount],
           pending' \in [Bars -> 0..(MaxCount + 1)], tx' \in [Bars -> (-MaxTx)..MaxTx],
           phase' \in [Bars -> 0..MaxPhase],
           \A b \in Bars \ bs : exists'[b] = exists[b] /\ phase'[b] = phase[b],
           waiting' = waiting, rwaiters' = rwaiters,
           UNCHANGED <<waitVars, park, rel, remote, chan, doneMsgs, answered>>
    PROVE  IndInv'
<1> USE DEF waitVars
<1>1. TypeOK /\ ParkedHasReleaser /\ WaitersKnown /\ NoTraffic
  BY DEF IndInv
<1>2. TypeOK'
  BY <1>1 DEF TypeOK
<1>3. WaitersKnown' /\ NoTraffic' /\ ParkedHasReleaser'
  BY <1>1 DEF WaitersKnown, NoTraffic, ParkedHasReleaser, Waits, AllLocal, IsLocal
<1>4. \A w \in Warps : \A b \in DOMAIN lane[w] :
          b \in Bars \ bs /\ exists[b] /\ phase[b] \in Nat /\ phase[b] >= phase[b]
  <2>1. ASSUME NEW w \in Warps, NEW b \in DOMAIN lane[w]
        PROVE  b \in Bars \ bs /\ exists[b] /\ phase[b] \in Nat
    BY <1>1 DEF IndInv, LanesLive, TypeOK, LanesOf, Quiescent
  <2>2. QED
    BY <2>1
<1>5. \A b \in Bars : waiting'[b] \subseteq waiting[b] /\ (exists'[b] \/ ~exists[b] \/ waiting'[b] = {})
  BY DEF Quiescent
<1>6. QuietStep
  BY <1>4, <1>5 DEF QuietStep
<1>7. QED
  BY <1>2, <1>3, <1>6, QuietInd

\* mbarrier.init starts a quiescent barrier over.
LEMMA InitBarInd ==
    ASSUME IndInv, NEW w \in Warps, NEW b \in Bars, NEW n \in 1..MaxCount, InitBar(w, b, n)
    PROVE  IndInv'
<1>1. TypeOK /\ 0 \in (-MaxTx)..MaxTx /\ 0 \in 0..MaxPhase /\ n \in 0..MaxCount /\ n \in 0..(MaxCount + 1)
  BY BoundAssumption DEF IndInv
<1>2. /\ exists' \in [Bars -> BOOLEAN] /\ expected' \in [Bars -> 0..MaxCount]
      /\ pending' \in [Bars -> 0..(MaxCount + 1)] /\ tx' \in [Bars -> (-MaxTx)..MaxTx]
      /\ phase' \in [Bars -> 0..MaxPhase]
      /\ \A a \in Bars \ {b} : exists'[a] = exists[a] /\ phase'[a] = phase[a]
  BY <1>1 DEF InitBar, TypeOK
<1>3. /\ {b} \in SUBSET Bars /\ \A a \in {b} : Quiescent(a)
      /\ waiting' = waiting /\ rwaiters' = rwaiters
      /\ UNCHANGED <<waitVars, park, rel, remote, chan, doneMsgs, answered>>
  BY DEF InitBar
<1>4. QED
  BY <1>2, <1>3, LifetimeInd

\* Erasing quiescent barriers leaves no wait behind.
LEMMA EraseInd ==
    ASSUME IndInv, NEW bs \in SUBSET Bars, \A b \in bs : Quiescent(b), Erase(bs),
           UNCHANGED <<waitVars, park, rel, remote, chan, doneMsgs, answered>>
    PROVE  IndInv'
<1>1. TypeOK /\ 0 \in (-MaxTx)..MaxTx /\ 0 \in 0..MaxPhase /\ 0 \in 0..MaxCount /\ 0 \in 0..(MaxCount + 1)
  BY BoundAssumption DEF IndInv
<1>2. /\ exists' \in [Bars -> BOOLEAN] /\ expected' \in [Bars -> 0..MaxCount]
      /\ pending' \in [Bars -> 0..(MaxCount + 1)] /\ tx' \in [Bars -> (-MaxTx)..MaxTx]
      /\ phase' \in [Bars -> 0..MaxPhase]
      /\ \A b \in Bars \ bs : exists'[b] = exists[b] /\ phase'[b] = phase[b]
  BY <1>1 DEF Erase, TypeOK
<1>3. waiting' = waiting /\ rwaiters' = rwaiters
  BY <1>1 DEF Erase, TypeOK, Quiescent
<1>4. QED
  BY <1>2, <1>3, LifetimeInd

\* mbarrier.inval erases one barrier.
LEMMA InvalInd ==
    ASSUME IndInv, NEW w \in Warps, NEW b \in Bars, Inval(w, b)
    PROVE  IndInv'
  BY EraseInd DEF Inval

\* The release of a CTA erases the barriers of its SM.
LEMMA ReleaseCtaInd ==
    ASSUME IndInv, NEW s \in Sms, ReleaseCta(s)
    PROVE  IndInv'
<1> DEFINE bs == {b \in Bars : Home[b] = s /\ exists[b]}
<1>1. /\ bs \in SUBSET Bars /\ \A b \in bs : Quiescent(b)
      /\ Erase(bs) /\ UNCHANGED <<waitVars, park, rel, remote, chan, doneMsgs, answered>>
  BY DEF ReleaseCta
<1>2. QED
  BY <1>1, EraseInd

\* mbarrier.arrive, on the warp's own SM or sent to the barrier's.
LEMMA ArriveInd ==
    ASSUME IndInv, NEW w \in Warps, NEW b \in Bars, NEW n \in 1..MaxCount, Arrive(w, b, n)
    PROVE  IndInv'
<1> DEFINE msgs == <<[op |-> "ARRIVE", bar |-> b, n |-> n]>>
<1>1. TypeOK /\ n \in Nat /\ ArriveLatency \in Nat
  BY LatencyAssumption DEF IndInv
<1>2. CASE IsLocal(w, b) /\ LocalOp(w, b, MissingAfter(b, n), tx[b], ArriveLatency)
  BY <1>1, <1>2, MissingAfterType, LocalOpInd
<1>3. CASE /\ ~IsLocal(w, b)
           /\ Send(w, b, msgs) /\ Hold(w, ArriveLatency, rel)
           /\ UNCHANGED <<barVars, rwaiters, waitVars, remote, doneMsgs, answered>>
  <2>1. msgs \in Seq(Msg) /\ \A i \in 1..Len(msgs) : msgs[i].op # "WAIT_REG"
    BY DEF Msg
  <2>2. QED
    BY <1>1, <1>3, <2>1, SendInd
<1>4. QED
  BY <1>2, <1>3 DEF Arrive

\* arrive.expect_tx: the expected bytes and the arrival, in one step or as two requests.
LEMMA ArriveExpectTxInd ==
    ASSUME IndInv, NEW w \in Warps, NEW b \in Bars, NEW e \in 0..MaxTx, ArriveExpectTx(w, b, e)
    PROVE  IndInv'
<1> DEFINE msgs == <<[op |-> "EXPECT_TX", bar |-> b, n |-> e], [op |-> "ARRIVE", bar |-> b, n |-> 1]>>
<1>1. TypeOK /\ 1 \in Nat /\ 1 \in 1..MaxCount /\ ExpectHold(e) \in Nat
  BY LatencyAssumption, BoundAssumption DEF IndInv, ExpectHold
<1>2. CASE IsLocal(w, b) /\ LocalOp(w, b, MissingAfter(b, 1), tx[b] + e, ExpectHold(e))
  BY <1>1, <1>2, MissingAfterType, LocalOpInd
<1>3. CASE /\ ~IsLocal(w, b)
           /\ Send(w, b, msgs) /\ Hold(w, ExpectHold(e), rel)
           /\ UNCHANGED <<barVars, rwaiters, waitVars, remote, doneMsgs, answered>>
  <2>1. msgs \in Seq(Msg) /\ \A i \in 1..Len(msgs) : msgs[i].op # "WAIT_REG"
    BY <1>1 DEF Msg
  <2>2. QED
    BY <1>1, <1>3, <2>1, SendInd
<1>4. QED
  BY <1>2, <1>3 DEF ArriveExpectTx

\* The TMA unit completes bytes of a barrier's transaction count.
LEMMA CompleteTxInd ==
    ASSUME IndInv, NEW w \in Warps, NEW b \in Bars, NEW n \in 1..MaxTx, CompleteTxInst(w, b, n)
    PROVE  IndInv'
<1> DEFINE msgs == <<[op |-> "COMPLETE_TX", bar |-> b, n |-> n]>>
<1>1. TypeOK /\ n \in Nat /\ n \in 0..MaxTx /\ 0 \in Nat
  BY BoundAssumption DEF IndInv
<1>2. CASE IsLocal(w, b) /\ LocalOp(w, b, pending[b], tx[b] - n, 0)
  BY <1>1, <1>2, MissingAfterType, LocalOpInd
<1>3. CASE /\ ~IsLocal(w, b) /\ Send(w, b, msgs)
           /\ UNCHANGED <<barVars, rwaiters, waitVars, park, rel, remote, doneMsgs, answered>>
  <2>1. msgs \in Seq(Msg) /\ \A i \in 1..Len(msgs) : msgs[i].op # "WAIT_REG"
    BY <1>1 DEF Msg
  <2>2. Hold(w, 0, rel)
    BY <1>3 DEF Hold
  <2>3. QED
    BY <1>1, <1>3, <2>1, <2>2, SendInd
<1>4. QED
  BY <1>2, <1>3 DEF CompleteTxInst

\* expect_tx touches a transaction count and nothing else of the barriers.
LEMMA ExpectFacts ==
    ASSUME TypeOK, NEW b \in Bars, NEW e \in 0..MaxTx, Expect(b, e)
    PROVE  /\ tx' \in [Bars -> (-MaxTx)..MaxTx]
           /\ UNCHANGED <<exists, expected, pending, phase, waiting>>
<1>1. tx[b] + e \in (-MaxTx)..MaxTx
  BY BoundAssumption DEF TypeOK, Expect
<1>2. QED
  BY <1>1 DEF TypeOK, Expect

\* mbarrier.expect_tx raises the transaction count, here or by a request.
LEMMA ExpectTxInd ==
    ASSUME IndInv, NEW w \in Warps, NEW b \in Bars, NEW e \in 1..MaxTx, ExpectTx(w, b, e)
    PROVE  IndInv'
<1> DEFINE msgs == <<[op |-> "EXPECT_TX", bar |-> b, n |-> e]>>
<1>1. TypeOK /\ e \in 0..MaxTx /\ 0 \in Nat
  BY BoundAssumption DEF IndInv
<1>2. UNCHANGED <<rwaiters, waitVars, park, rel, remote, doneMsgs, answered>>
  BY DEF ExpectTx
<1>3. CASE Expect(b, e) /\ UNCHANGED chan
  <2>1. tx' \in [Bars -> (-MaxTx)..MaxTx] /\ UNCHANGED <<exists, expected, pending, phase, waiting>>
    BY <1>1, <1>3, ExpectFacts
  <2>2. TypeOK'
    BY <1>1, <1>2, <1>3, <2>1 DEF TypeOK, waitVars
  <2>3. WaitersKnown' /\ NoTraffic' /\ ParkedHasReleaser'
    BY <1>2, <1>3 DEF IndInv, WaitersKnown, NoTraffic, ParkedHasReleaser, Waits, AllLocal, IsLocal, waitVars
  <2>4. QED
    BY <1>2, <2>1, <2>2, <2>3, IdleInd DEF waitVars
<1>4. CASE ~IsLocal(w, b) /\ Send(w, b, msgs) /\ UNCHANGED barVars
  <2>1. msgs \in Seq(Msg) /\ \A i \in 1..Len(msgs) : msgs[i].op # "WAIT_REG"
    BY <1>1 DEF Msg
  <2>2. Hold(w, 0, rel)
    BY <1>2 DEF Hold
  <2>3. QED
    BY <1>1, <1>2, <1>4, <2>1, <2>2, SendInd
<1>5. QED
  BY <1>3, <1>4 DEF ExpectTx

\* An asynchronous arrival is announced: one more arrival is missing.
LEMMA PrepareAsyncInd ==
    ASSUME IndInv, NEW b \in Bars, PrepareAsync(b)
    PROVE  IndInv'
<1>1. TypeOK /\ pending[b] + 1 \in 0..(MaxCount + 1)
  <2>1. TypeOK /\ pending[b] \in 0..(MaxCount + 1) /\ pending[b] < MaxCount + 1 /\ MaxCount \in Nat
    BY BoundAssumption DEF IndInv, TypeOK, PrepareAsync
  <2>2. QED
    BY <2>1
<1>2. pending' \in [Bars -> 0..(MaxCount + 1)]
  BY <1>1 DEF TypeOK, PrepareAsync
<1>3. UNCHANGED <<exists, expected, tx, phase, waiting, rwaiters, waitVars, park, rel, remote, chan,
                  doneMsgs, answered>>
  BY DEF PrepareAsync
<1>4. TypeOK'
  BY <1>1, <1>2, <1>3 DEF TypeOK, waitVars
<1>5. WaitersKnown' /\ NoTraffic' /\ ParkedHasReleaser'
  BY <1>3 DEF IndInv, WaitersKnown, NoTraffic, ParkedHasReleaser, Waits, AllLocal, IsLocal, waitVars
<1>6. QED
  BY <1>3, <1>4, <1>5, IdleInd DEF waitVars

\* Parking for another reason and its end touch no mbarrier wait.
LEMMA ParkOtherInd ==
    ASSUME IndInv, NEW w \in Warps, ParkOther(w) \/ UnparkOther(w)
    PROVE  IndInv'
<1> USE DEF waitVars, barVars
<1>1. TypeOK /\ ParkedHasReleaser
  BY DEF IndInv
<1>2. UNCHANGED <<barVars, rwaiters, waitVars, rel, remote, chan, doneMsgs, answered>>
  BY DEF ParkOther, UnparkOther
<1>3. /\ park' \in [Warps -> {"none", "mbar", "other"}]
      /\ \A v \in Warps : park'[v] = "mbar" <=> park[v] = "mbar"
  BY <1>1 DEF ParkOther, UnparkOther, CanIssue, TypeOK
<1>4. TypeOK'
  BY <1>1, <1>2, <1>3 DEF TypeOK
<1>5. WaitersKnown' /\ NoTraffic' /\ ParkedHasReleaser'
  BY <1>2, <1>3 DEF IndInv, WaitersKnown, NoTraffic, ParkedHasReleaser, Waits, AllLocal, IsLocal
<1>6. QED
  BY <1>2, <1>3, <1>4, <1>5, IdleInd

\* A remote try_wait parks its warp until the answer, which its request is owed.
LEMMA TryWaitRemoteInd ==
    ASSUME IndInv, NEW w \in Warps, NEW b \in Bars, NEW parity \in Parities,
           TryWaitRemote(w, b, parity)
    PROVE  IndInv'
<1> USE DEF waitVars, barVars
<1> DEFINE msgs == <<[op |-> "WAIT_REG", bar |-> b, warp |-> w, parity |-> parity]>>
<1>1. TypeOK /\ ParkedHasReleaser /\ WaitersKnown
  BY DEF IndInv
<1>2. /\ CanIssue(w) /\ w \in RemoteWaiters /\ ~IsLocal(w, b) /\ Send(w, b, msgs)
      /\ remote' = [remote EXCEPT ![w] = TRUE]
      /\ park' = [park EXCEPT ![w] = "mbar"]
      /\ answered' = [answered EXCEPT ![w] = FALSE]
      /\ UNCHANGED <<barVars, rwaiters, waitVars, rel, doneMsgs>>
  BY DEF TryWaitRemote
<1>3. msgs \in Seq(Msg) /\ \A i \in 1..Len(msgs) : msgs[i].op = "WAIT_REG" => msgs[i].warp \in RemoteWaiters
  BY <1>2 DEF Msg
<1> HIDE DEF msgs
<1>4. /\ chan' \in [Sms \X Sms -> Seq(Msg)]
      /\ \A c \in Sms \X Sms : Len(chan'[c]) <= MaxChan
      /\ \A c \in Sms \X Sms : \A i \in 1..Len(chan'[c]) :
            chan'[c][i].op = "WAIT_REG" => chan'[c][i].warp \in RemoteWaiters
  BY <1>1, <1>2, <1>3, SendFacts
<1>5. /\ park' \in [Warps -> {"none", "mbar", "other"}]
      /\ remote' \in [Warps -> BOOLEAN] /\ answered' \in [Warps -> BOOLEAN]
      /\ remote'[w] /\ \A v \in Warps : v # w => remote'[v] = remote[v] /\ park'[v] = park[v]
      /\ \A v \in Warps : v # w => answered'[v] = answered[v]
      /\ park'[w] = "mbar"
  BY <1>1, <1>2 DEF TypeOK
<1>6. TypeOK'
  <2>1. {notified', ready', remote', answered'} \subseteq [Warps -> BOOLEAN]
    BY <1>1, <1>2, <1>5 DEF TypeOK
  <2>2. QED
    BY <1>1, <1>2, <1>4, <1>5, <2>1 DEF TypeOK
<1>7. WaitersKnown' /\ NoTraffic' /\ ParkedHasReleaser'
  <2>1. WaitersKnown'
    BY <1>1, <1>2, <1>4, <1>5 DEF WaitersKnown, Waits
  <2>2. NoTraffic'
    BY <1>2 DEF NoTraffic, AllLocal, IsLocal
  <2>3. ParkedHasReleaser'
    BY <1>1, <1>2, <1>5 DEF ParkedHasReleaser, Waits
  <2>4. QED
    BY <2>1, <2>2, <2>3
<1>8. QED
  BY <1>2, <1>5, <1>6, <1>7, IdleInd

\* WAIT_DONE reaches warps that wait on other SMs only.
LEMMA WaitDoneInd ==
    ASSUME IndInv, NEW w \in Warps, WaitDone(w)
    PROVE  IndInv'
<1> USE DEF waitVars, barVars
<1>1. TypeOK /\ ParkedHasReleaser /\ WaitersKnown /\ NoTraffic /\ TryWaitLatency \in Nat
  BY LatencyAssumption DEF IndInv
<1>2. /\ doneMsgs[w] > 0
      /\ doneMsgs' = [doneMsgs EXCEPT ![w] = doneMsgs[w] - 1]
      /\ remote' = [remote EXCEPT ![w] = FALSE]
      /\ answered' = [answered EXCEPT ![w] = answered[w] \/ remote[w]]
      /\ UNCHANGED <<barVars, rwaiters, waitVars, chan>>
  BY DEF WaitDone
<1>3. w \in RemoteWaiters /\ ~AllLocal /\ doneMsgs[w] - 1 \in Nat
  <2>1. doneMsgs[w] \in Nat
    BY <1>1 DEF TypeOK
  <2>2. QED
    BY <1>1, <1>2, <2>1 DEF WaitersKnown, NoTraffic
<1>4. /\ doneMsgs' \in [Warps -> Nat] /\ \A v \in Warps : v # w => doneMsgs'[v] = doneMsgs[v]
      /\ remote' \in [Warps -> BOOLEAN] /\ \A v \in Warps : v # w => remote'[v] = remote[v]
      /\ \A v \in Warps : v # w => answered'[v] = answered[v]
  BY <1>1, <1>2, <1>3 DEF TypeOK
<1>5. answered' \in [Warps -> BOOLEAN]
  BY <1>1, <1>2, Zenon DEF TypeOK
<1>6. /\ park' \in [Warps -> {"none", "mbar", "other"}] /\ rel' \in [Warps -> SUBSET (Nat \ {0})]
      /\ \A v \in Warps : v # w => park'[v] = park[v] /\ rel[v] \subseteq rel'[v]
      /\ park'[w] = "mbar" => rel'[w] # {}
      /\ Undisturbed(w) /\ Waits(w) /\ park[w] = "mbar" => park'[w] = "mbar"
  <2>1. CASE /\ TryWaitLatency = 0 /\ park[w] = "mbar"
             /\ park' = [park EXCEPT ![w] = "none"] /\ rel' = rel
    <3>1. ~Undisturbed(w)
      BY <1>3, <2>1 DEF Undisturbed
    <3>2. QED
      BY <1>1, <2>1, <3>1 DEF TypeOK
  <2>2. CASE ~(TryWaitLatency = 0 /\ park[w] = "mbar") /\ rel' = ReleaseWarps({w}) /\ park' = park
    <3>1. rel' \in [Warps -> SUBSET (Nat \ {0})] /\ \A v \in Warps : rel[v] \subseteq rel'[v]
      BY <1>1, <2>2, ReleaseWarpsFacts
    <3>2. park[w] = "mbar" => TryWaitLatency > 0
      BY <1>1, <2>2
    <3>3. park[w] = "mbar" => TryWaitLatency \in rel'[w]
      BY <2>2, <3>2 DEF ReleaseWarps
    <3>4. QED
      BY <1>1, <2>2, <3>1, <3>3 DEF TypeOK
  <2>3. QED
    BY <2>1, <2>2 DEF WaitDone
<1>7. TypeOK'
  <2>1. {notified', ready', remote', answered'} \subseteq [Warps -> BOOLEAN]
    BY <1>1, <1>2, <1>4, <1>5 DEF TypeOK
  <2>2. QED
    BY <1>1, <1>2, <1>4, <1>6, <2>1 DEF TypeOK
<1>8. WaitersKnown' /\ NoTraffic' /\ ParkedHasReleaser'
  <2>1. WaitersKnown'
    BY <1>1, <1>2, <1>3, <1>4 DEF WaitersKnown, Waits
  <2>2. NoTraffic'
    BY <1>3 DEF NoTraffic, AllLocal, IsLocal
  <2>3. ParkedHasReleaser'
    BY <1>1, <1>2, <1>4, <1>6 DEF ParkedHasReleaser, Waits
  <2>4. QED
    BY <2>1, <2>2, <2>3
<1>9. QED
  BY <1>2, <1>3, <1>4, <1>6, <1>7, <1>8, IdleInd

\* A request that is served leaves its channel.
LEMMA TailFacts ==
    ASSUME TypeOK, WaitersKnown, NEW c \in Sms \X Sms, chan[c] # <<>>,
           chan' = [chan EXCEPT ![c] = Tail(@)]
    PROVE  /\ chan' \in [Sms \X Sms -> Seq(Msg)]
           /\ \A d \in Sms \X Sms : Len(chan'[d]) <= MaxChan
           /\ \A d \in Sms \X Sms : \A i \in 1..Len(chan'[d]) :
                 chan'[d][i].op = "WAIT_REG" => chan'[d][i].warp \in RemoteWaiters
           /\ Head(chan[c]) \in Msg
           /\ Head(chan[c]).op = "WAIT_REG" => Head(chan[c]).warp \in RemoteWaiters
<1> DEFINE q == Tail(chan[c])
<1>1. chan[c] \in Seq(Msg) /\ Len(chan[c]) <= MaxChan /\ MaxChan \in Nat
  BY BoundAssumption DEF TypeOK
<1>2. /\ q \in Seq(Msg) /\ Len(q) = Len(chan[c]) - 1 /\ Len(q) \in Nat /\ Len(q) <= MaxChan
      /\ 1 \in 1..Len(chan[c]) /\ Head(chan[c]) = chan[c][1] /\ chan[c][1] \in Msg
  BY <1>1
<1>3. \A i \in 1..Len(q) : i + 1 \in 1..Len(chan[c]) /\ q[i] = chan[c][i + 1]
  BY <1>1, <1>2
<1>4. \A i \in 1..Len(q) : q[i].op = "WAIT_REG" => q[i].warp \in RemoteWaiters
  BY <1>3 DEF WaitersKnown
<1>5. chan' = [chan EXCEPT ![c] = q]
  OBVIOUS
<1> HIDE DEF q
<1>6. \A d \in Sms \X Sms : chan'[d] = IF d = c THEN q ELSE chan[d]
  BY <1>5 DEF TypeOK
<1>7. Head(chan[c]).op = "WAIT_REG" => Head(chan[c]).warp \in RemoteWaiters
  BY <1>2 DEF WaitersKnown
<1>8. \A d \in Sms \X Sms : \A i \in 1..Len(chan'[d]) :
          chan'[d][i].op = "WAIT_REG" => chan'[d][i].warp \in RemoteWaiters
  BY <1>4, <1>6 DEF WaitersKnown
<1>9. chan' \in [Sms \X Sms -> Seq(Msg)] /\ \A d \in Sms \X Sms : Len(chan'[d]) <= MaxChan
  BY <1>2, <1>5, <1>6 DEF TypeOK
<1>10. QED
  BY <1>2, <1>7, <1>8, <1>9

\* What a request of another SM does to the owner.
LEMMA DeliverInd ==
    ASSUME IndInv, NEW c \in Sms \X Sms, Deliver(c)
    PROVE  IndInv'
<1> USE DEF waitVars, barVars
<1> DEFINE m == Head(chan[c])
<1>1. TypeOK /\ ParkedHasReleaser /\ WaitersKnown /\ NoTraffic
  BY DEF IndInv
<1>2. /\ chan[c] # <<>> /\ chan' = [chan EXCEPT ![c] = Tail(@)]
      /\ UNCHANGED <<waitVars, park, remote, answered>>
  BY DEF Deliver
<1>3. /\ chan' \in [Sms \X Sms -> Seq(Msg)]
      /\ \A d \in Sms \X Sms : Len(chan'[d]) <= MaxChan
      /\ \A d \in Sms \X Sms : \A i \in 1..Len(chan'[d]) :
            chan'[d][i].op = "WAIT_REG" => chan'[d][i].warp \in RemoteWaiters
      /\ m \in Msg /\ (m.op = "WAIT_REG" => m.warp \in RemoteWaiters)
  BY <1>1, <1>2, TailFacts
<1>4. ~AllLocal
  BY <1>1, <1>2 DEF NoTraffic
<1> HIDE DEF m
<1>5. /\ m.bar \in Bars
      /\ m.op = "ARRIVE" => m.n \in Nat
      /\ m.op \in {"EXPECT_TX", "COMPLETE_TX"} => m.n \in 0..MaxTx
      /\ m.op = "WAIT_REG" => m.warp \in Warps /\ m.parity \in Parities
  BY <1>3 DEF Msg
\* What the barriers and the remote waiters have after it.
<1> DEFINE Served ==
      /\ exists' = exists /\ expected' = expected
      /\ pending' \in [Bars -> 0..(MaxCount + 1)]
      /\ tx' \in [Bars -> (-MaxTx)..MaxTx]
      /\ phase' \in [Bars -> 0..MaxPhase]
      /\ waiting' \in [Bars -> SUBSET Warps]
      /\ \A a \in Bars : phase'[a] >= phase[a] /\ waiting'[a] \subseteq waiting[a]
      /\ rwaiters' \in [Bars -> SUBSET [warp : Warps, parity : Parities]]
      /\ doneMsgs' \in [Warps -> Nat]
      /\ \A a \in Bars : \A r \in rwaiters'[a] : r.warp \in RemoteWaiters
      /\ \A w \in Warps : doneMsgs'[w] > 0 => w \in RemoteWaiters
      /\ rel' \in [Warps -> SUBSET (Nat \ {0})] /\ \A w \in Warps : rel[w] \subseteq rel'[w]
<1>6. ASSUME NEW p \in 0..(MaxCount + 1), NEW x, PeerOp(m.bar, p, x)
      PROVE  Served
  <2>1. Settle(m.bar, p, x) /\ NotifyRemote(m.bar) /\ rel' = ReleaseWarps(Released(m.bar, p, x))
    BY <1>6 DEF PeerOp
  <2>2. /\ exists' = exists /\ expected' = expected
        /\ pending' \in [Bars -> 0..(MaxCount + 1)]
        /\ tx' \in [Bars -> (-MaxTx)..MaxTx]
        /\ phase' \in [Bars -> 0..MaxPhase]
        /\ waiting' \in [Bars -> SUBSET Warps]
        /\ \A a \in Bars : phase'[a] >= phase[a] /\ waiting'[a] \subseteq waiting[a]
    BY <1>1, <1>5, <2>1, SettleFacts
  <2>3. /\ rwaiters' \in [Bars -> SUBSET [warp : Warps, parity : Parities]]
        /\ \A a \in Bars : rwaiters'[a] \subseteq rwaiters[a]
        /\ doneMsgs' \in [Warps -> Nat]
        /\ \A w \in Warps : doneMsgs'[w] = doneMsgs[w] \/ \E r \in rwaiters[m.bar] : r.warp = w
    BY <1>1, <1>5, <2>1, NotifyRemoteFacts
  <2>4. rel' \in [Warps -> SUBSET (Nat \ {0})] /\ \A w \in Warps : rel[w] \subseteq rel'[w]
    BY <1>1, <2>1, ReleaseWarpsFacts
  <2>5. /\ \A a \in Bars : \A r \in rwaiters'[a] : r.warp \in RemoteWaiters
        /\ \A w \in Warps : doneMsgs'[w] > 0 => w \in RemoteWaiters
    BY <1>1, <1>5, <2>3 DEF WaitersKnown
  <2>6. QED
    BY <2>2, <2>3, <2>4, <2>5
<1>7. \A a \in Bars : phase[a] \in Nat /\ phase[a] >= phase[a]
  <2>1. \A a \in Bars : phase[a] \in Nat
    BY <1>1 DEF TypeOK
  <2>2. QED
    BY <2>1
<1>8. ASSUME m.op = "EXPECT_TX", Expect(m.bar, m.n), UNCHANGED <<rwaiters, doneMsgs, rel>>
      PROVE  Served
  <2>1. tx' \in [Bars -> (-MaxTx)..MaxTx] /\ UNCHANGED <<exists, expected, pending, phase, waiting>>
    BY <1>1, <1>5, <1>8, ExpectFacts
  <2>2. QED
    BY <1>1, <1>7, <1>8, <2>1 DEF TypeOK, WaitersKnown
<1>9. ASSUME m.op = "WAIT_REG", RegisterRemoteWait(m)
      PROVE  Served
  <2> DEFINE r == [warp |-> m.warp, parity |-> m.parity]
  <2>1. r \in [warp : Warps, parity : Parities] /\ r.warp \in RemoteWaiters /\ m.warp \in Warps
    BY <1>3, <1>5, <1>9
  <2>2. UNCHANGED <<barVars, rel>>
    BY <1>9 DEF RegisterRemoteWait
  <2> HIDE DEF r
  <2>3. CASE rwaiters' = [rwaiters EXCEPT ![m.bar] = @ \cup {r}] /\ doneMsgs' = doneMsgs
    BY <1>1, <1>5, <1>7, <2>1, <2>2, <2>3 DEF TypeOK, WaitersKnown
  <2>4. CASE doneMsgs' = [doneMsgs EXCEPT ![m.warp] = @ + 1] /\ rwaiters' = rwaiters
    <3>1. m.warp \in RemoteWaiters /\ m.warp \in Warps
      BY <1>3, <1>5, <1>9
    <3>2. /\ doneMsgs' \in [Warps -> Nat]
          /\ \A w \in Warps : w # m.warp => doneMsgs'[w] = doneMsgs[w]
      BY <1>1, <2>4, <3>1 DEF TypeOK
    <3>3. QED
      BY <1>1, <1>7, <2>2, <2>4, <3>1, <3>2 DEF TypeOK, WaitersKnown
  <2>5. QED
    BY <1>9, <2>3, <2>4 DEF RegisterRemoteWait, r
<1>10. Served
  <2>1. CASE m.op = "ARRIVE" /\ PeerOp(m.bar, MissingAfter(m.bar, m.n), tx[m.bar])
    BY <1>1, <1>5, <1>6, <2>1, MissingAfterType
  <2>2. CASE m.op = "COMPLETE_TX" /\ PeerOp(m.bar, pending[m.bar], tx[m.bar] - m.n)
    <3>1. pending[m.bar] \in 0..(MaxCount + 1)
      BY <1>1, <1>5 DEF TypeOK
    <3>2. QED
      BY <1>6, <2>2, <3>1
  <2>3. QED
    BY <1>8, <1>9, <2>1, <2>2 DEF Deliver, m
<1>11. TypeOK'
  BY <1>1, <1>2, <1>3, <1>10 DEF TypeOK
<1>12. WaitersKnown' /\ NoTraffic' /\ ParkedHasReleaser'
  <2>1. WaitersKnown'
    BY <1>1, <1>2, <1>3, <1>10 DEF WaitersKnown, Waits
  <2>2. NoTraffic'
    BY <1>4 DEF NoTraffic, AllLocal, IsLocal
  <2>3. ParkedHasReleaser'
    BY <1>1, <1>2, <1>10 DEF ParkedHasReleaser, Waits
  <2>4. QED
    BY <2>1, <2>2, <2>3
<1>13. \A w \in Warps : \A b \in DOMAIN lane[w] : b \in Bars /\ exists[b]
  BY <1>1 DEF IndInv, LanesLive, TypeOK, LanesOf
<1>14. QuietStep
  BY <1>2, <1>4, <1>10, <1>13 DEF QuietStep
<1>15. QED
  BY <1>11, <1>12, <1>14, QuietInd

\* The first test of a lane gives it a result that its phase or its deadline justifies.
LEMMA FirstTestFacts ==
    ASSUME TypeOK, NEW b \in Bars, NEW q \in [parity : Parities, hint : Hints \cup {NoHint}]
    PROVE  /\ FirstTest(b, q) \in Lane
           /\ FirstTest(b, q).from = phase[b] /\ FirstTest(b, q).parity = q.parity
           /\ FirstTest(b, q).res = "open" => ~PhaseDone(b, q.parity)
           /\ FirstTest(b, q).res = "true" => PhaseDone(b, q.parity)
           /\ FirstTest(b, q).res = "false" => FirstTest(b, q).dl = 0
<1> DEFINE done == PhaseDone(b, q.parity)
           latch == q.hint = NoHint /\ PredicateLatency > 0
           susp == IF q.hint = NoHint THEN TryWaitLatency ELSE q.hint
           r == IF done THEN "true" ELSE IF latch \/ susp = 0 THEN "false" ELSE "open"
           d == IF done \/ latch THEN 0 ELSE susp
<1>1. susp \in Nat
  BY LatencyAssumption
<1>2. phase[b] \in 0..MaxPhase /\ q.parity \in Parities
  BY DEF TypeOK
<1>3. FirstTest(b, q) = [parity |-> q.parity, from |-> phase[b], res |-> r, dl |-> d]
  BY DEF FirstTest
<1>4. /\ r \in {"open", "true", "false"} /\ d \in Nat
      /\ r = "open" => ~done
      /\ r = "true" => done
      /\ r = "false" => d = 0
  BY <1>1
<1> HIDE DEF r, d, done
<1>5. QED
  BY <1>2, <1>3, <1>4 DEF Lane, done

\* The earliest deadline of the open lanes is one of them.
LEMMA EarliestDeadlineFacts ==
    ASSUME NEW D, NEW l \in [D -> Lane], Open(l) # {}
    PROVE  EarliestDeadline(l) \in Nat /\ \A b \in Open(l) : EarliestDeadline(l) <= l[b].dl
<1> DEFINE S == {l[b].dl : b \in Open(l)}
<1>1. \A b \in Open(l) : l[b].dl \in Nat
  BY DEF Open, Lane
<1>2. S \in SUBSET Nat /\ S # {}
  BY <1>1
<1>3. Min(S) \in S /\ \A x \in S : Min(S) <= x
  BY <1>2, MinOfNats
<1>4. QED
  BY <1>2, <1>3 DEF EarliestDeadline

\* A try_wait of a warp starts from the barriers as they are.
LEMMA TryWaitInd ==
    ASSUME IndInv, NEW w \in Warps, NEW bs \in SUBSET LanesOf(w), bs # {},
           NEW q \in [bs -> [parity : Parities, hint : Hints \cup {NoHint}]], TryWait(w, q)
    PROVE  IndInv'
<1> USE DEF waitVars, barVars
<1> DEFINE l == [b \in bs |-> FirstTest(b, q[b])]
           p == IF \E b \in bs : q[b].hint = NoHint THEN PredicateLatency ELSE 0
           answeredNow == Open(l) = {} /\ p = 0
<1>1. TypeOK /\ WaitersKnown /\ NoTraffic /\ ParkedHasReleaser
  BY DEF IndInv
<1>2. DOMAIN q = bs /\ bs \subseteq Bars
  BY DEF LanesOf
<1>3. /\ CanIssue(w) /\ w \in LocalWaiters /\ \A b \in bs : exists[b]
      /\ answered' = [answered EXCEPT ![w] = answeredNow]
      /\ UNCHANGED <<exists, expected, pending, tx, phase, rwaiters, rel, remote, chan, doneMsgs>>
  BY <1>2 DEF TryWait
<1>4. Undisturbed(w) => ~Waits(w) /\ \A b \in Bars : w \notin waiting[b]
  <2>1. Undisturbed(w) => ~Waits(w)
    BY <1>3 DEF IndInv, WaitsParked, CanIssue
  <2>2. QED
    BY <1>1, <2>1, WaitsHasLanes DEF IndInv, Registered
<1>5. answered' \in [Warps -> BOOLEAN] /\ \A v \in Warps : v # w => answered'[v] = answered[v]
  <2>1. answeredNow \in BOOLEAN
    OBVIOUS
  <2> HIDE DEF answeredNow
  <2>2. QED
    BY <1>1, <1>3, <2>1 DEF TypeOK
<1>6. answered'[w] = answeredNow
  <2> HIDE DEF answeredNow
  <2>1. answered = [v \in Warps |-> answered[v]]
    BY <1>1 DEF TypeOK
  <2>2. QED
    BY <1>3, <2>1
<1>7. CASE answeredNow /\ UNCHANGED <<waiting, waitVars, park>>
  <2>1. TypeOK'
    BY <1>1, <1>3, <1>5, <1>7 DEF TypeOK
  <2>2. WaitersKnown' /\ NoTraffic' /\ ParkedHasReleaser'
    BY <1>1, <1>3, <1>7 DEF WaitersKnown, NoTraffic, ParkedHasReleaser, Waits, AllLocal, IsLocal
  <2>3. w \notin RemoteWaiters => answered'[w] = answered[w]
    <3>1. ASSUME w \notin RemoteWaiters PROVE answered[w]
      <4>1. ~Waits(w)
        BY <1>4, <3>1 DEF Undisturbed
      <4>2. QED
        BY <3>1, <4>1 DEF IndInv, Unanswered
    <3>2. answered[w] \in BOOLEAN
      BY <1>1 DEF TypeOK
    <3>3. QED
      BY <1>6, <1>7, <3>1, <3>2
  <2>4. QED
    BY <1>3, <1>5, <1>7, <2>1, <2>2, <2>3, IdleInd
<1>8. CASE /\ ~answeredNow
           /\ lane' = [lane EXCEPT ![w] = l]
           /\ predIn' = [predIn EXCEPT ![w] = p]
           /\ notified' = [notified EXCEPT ![w] = FALSE]
           /\ ready' = [ready EXCEPT ![w] = Open(l) = {}]
           /\ recheckIn' = [recheckIn EXCEPT ![w] =
                     IF Open(l) = {} THEN p ELSE EarliestDeadline(l)]
           /\ waiting' = [b \in Bars |-> IF b \in Open(l) THEN waiting[b] \cup {w} ELSE waiting[b]]
           /\ park' = [park EXCEPT ![w] = "mbar"]
  <2>1. \A b \in bs : /\ l[b] \in Lane /\ l[b].from = phase[b]
                      /\ l[b].res = "open" => ~PhaseDone(b, l[b].parity)
                      /\ l[b].res = "true" => PhaseDone(b, l[b].parity)
                      /\ l[b].res = "false" => l[b].dl = 0
    BY <1>1, <1>2, FirstTestFacts
  <2>2. l \in [bs -> Lane] /\ DOMAIN l = bs
    BY <2>1
  <2>3. p \in Nat
    BY LatencyAssumption
  <2> HIDE DEF l, p, answeredNow
  <2>4. /\ Open(l) # {} => /\ EarliestDeadline(l) \in Nat
                           /\ \A b \in Open(l) : EarliestDeadline(l) <= l[b].dl
        /\ Open(l) \subseteq bs
    BY <2>2, EarliestDeadlineFacts DEF Open
  <2>5. \A v \in Warps : /\ lane'[v] = IF v = w THEN l ELSE lane[v]
                         /\ park'[v] = IF v = w THEN "mbar" ELSE park[v]
    BY <1>1, <1>8 DEF TypeOK
  <2>6. \A v \in Warps : recheckIn'[v] = IF v = w THEN IF Open(l) = {} THEN p ELSE EarliestDeadline(l)
                                         ELSE recheckIn[v]
    BY <1>1, <1>8 DEF TypeOK
  <2>7. /\ \A v \in Warps : v # w => ready'[v] = ready[v]
        /\ ready'[w] = (Open(l) = {})
    BY <1>1, <1>8 DEF TypeOK
  <2>8. \A v \in Warps : v # w => Waits(v)' = Waits(v)
    BY <2>5 DEF Waits
  <2>9. \A b \in Bars : /\ waiting[b] \subseteq waiting'[b] /\ waiting'[b] \subseteq waiting[b] \cup {w}
                        /\ w \in waiting'[b] => w \in waiting[b] \/ b \in Open(l)
                        /\ b \in Open(l) => w \in waiting'[b]
    BY <1>8
  <2>10. \A v \in Warps : Undisturbed(v)' = Undisturbed(v)
    BY DEF Undisturbed, AllLocal, IsLocal
  <2>11. TypeOK'
    <3>1. waiting' \in [Bars -> SUBSET Warps] /\ park' \in [Warps -> {"none", "mbar", "other"}]
      BY <1>1, <1>8 DEF TypeOK
    <3>2. predIn' \in [Warps -> Nat] /\ recheckIn' \in [Warps -> Nat]
      BY <1>1, <1>8, <2>3, <2>4 DEF TypeOK
    <3>3. {notified', ready', remote', answered'} \subseteq [Warps -> BOOLEAN]
      <4>1. (Open(l) = {}) \in BOOLEAN
        OBVIOUS
      <4>2. ready' \in [Warps -> BOOLEAN]
        BY <1>1, <1>8, <4>1, Zenon DEF TypeOK
      <4>3. QED
        BY <1>1, <1>3, <1>5, <1>8, <4>2 DEF TypeOK
    <3>4. /\ lane' = [v \in Warps |-> lane'[v]]
          /\ \A v \in Warps : DOMAIN lane'[v] \subseteq LanesOf(v) /\ lane'[v] \in [DOMAIN lane'[v] -> Lane]
      BY <1>1, <1>8, <2>2, <2>5 DEF TypeOK
    <3>5. QED
      BY <1>1, <1>3, <3>1, <3>2, <3>3, <3>4 DEF TypeOK
  <2>12. Waits(w)'
    <3>1. DOMAIN <<>> = {}
      OBVIOUS
    <3>2. QED
      BY <2>2, <2>5, <3>1 DEF Waits
  <2>13. WaitersKnown' /\ NoTraffic' /\ ParkedHasReleaser'
    BY <1>1, <1>3, <2>5, <2>8, <2>12 DEF WaitersKnown, NoTraffic, ParkedHasReleaser, AllLocal, IsLocal
  <2>14. WaitsParked'
    BY <2>5, <2>8, <2>10 DEF IndInv, WaitsParked
  <2>15. \A b \in bs : phase[b] \in Nat /\ phase[b] <= phase[b]
    <3>1. \A b \in bs : phase[b] \in Nat
      BY <1>1, <1>2 DEF TypeOK
    <3>2. QED
      BY <3>1
  <2>16. LanesLive'
    BY <1>3, <2>1, <2>2, <2>5, <2>15 DEF IndInv, LanesLive
  <2>17. NeverOversleeps'
    <3>1. ASSUME NEW v \in Warps, Waits(v)', ~ready'[v]
          PROVE  Open(lane'[v]) # {} /\ \A b \in Open(lane'[v]) : recheckIn'[v] <= lane'[v][b].dl
      <4>1. CASE v = w
        BY <2>4, <2>5, <2>6, <2>7, <3>1, <4>1
      <4>2. CASE v # w
        BY <2>5, <2>6, <2>7, <2>8, <3>1, <4>2 DEF IndInv, NeverOversleeps
      <4>3. QED
        BY <4>1, <4>2
    <3>2. QED
      BY <3>1 DEF NeverOversleeps, Open
  <2>18. AnswersJustified'
    <3>1. ASSUME NEW v \in Warps, NEW b \in DOMAIN lane'[v]
          PROVE  /\ lane'[v][b].res = "true" =>
                       (phase[b] > lane'[v][b].from \/ lane'[v][b].parity # lane'[v][b].from % 2)
                 /\ lane'[v][b].res = "false" => lane'[v][b].dl = 0
      <4>1. CASE v = w
        BY <2>1, <2>2, <2>5, <4>1 DEF PhaseDone
      <4>2. CASE v # w
        BY <2>5, <4>2 DEF IndInv, AnswersJustified
      <4>3. QED
        BY <4>1, <4>2
    <3>2. QED
      BY <1>3, <3>1 DEF AnswersJustified
  <2>19. Registered'
    <3>1. ASSUME NEW b \in Bars, NEW v \in waiting'[b]
          PROVE  exists[b] /\ (Undisturbed(v) => b \in DOMAIN lane'[v])
      <4>1. CASE v = w
        BY <1>3, <1>4, <2>2, <2>4, <2>5, <2>9, <3>1, <4>1 DEF IndInv, Registered
      <4>2. CASE v # w
        <5>1. v \in waiting[b] /\ v \in Warps
          BY <1>1, <2>9, <3>1, <4>2 DEF TypeOK
        <5>2. QED
          BY <2>5, <4>2, <5>1 DEF IndInv, Registered
      <4>3. QED
        BY <4>1, <4>2
    <3>2. \A b \in Bars : \A v \in waiting'[b] : v \in Warps
      BY <2>11 DEF TypeOK
    <3>3. QED
      BY <1>3, <2>10, <3>1, <3>2 DEF Registered
  <2>20. AllLocal' => WaiterWillHear'
    <3>1. ASSUME AllLocal, NEW v \in Warps, Waits(v)', ~ready'[v], NEW b \in Open(lane'[v])
          PROVE  recheckIn'[v] = 0 \/ (v \in waiting'[b] /\ ~PhaseDone(b, lane'[v][b].parity))
      <4>1. CASE v = w
        BY <1>2, <2>1, <2>4, <2>5, <2>9, <3>1, <4>1 DEF Open
      <4>2. CASE v # w
        <5>1. recheckIn[v] = 0 \/ (v \in waiting[b] /\ ~PhaseDone(b, lane[v][b].parity))
          BY <2>5, <2>7, <2>8, <3>1, <4>2 DEF IndInv, WaiterWillHear
        <5>2. b \in Bars
          BY <1>1, <2>5, <3>1, <4>2 DEF Open, TypeOK, LanesOf
        <5>3. QED
          BY <2>5, <2>6, <2>9, <4>2, <5>1, <5>2
      <4>3. QED
        BY <4>1, <4>2
    <3>2. QED
      BY <1>3, <3>1 DEF WaiterWillHear, PhaseDone, Open, AllLocal, IsLocal
  <2>21. Unanswered'
    BY <1>5, <2>8, <2>12 DEF IndInv, Unanswered
  <2>22. QED
    BY <2>11, <2>13, <2>14, <2>16, <2>17, <2>18, <2>19, <2>20, <2>21 DEF IndInv
<1>9. QED
  BY <1>2, <1>7, <1>8 DEF TryWait

\* The larger of two numbers, as Max chooses it.
LEMMA MaxOfTwo ==
    ASSUME NEW i \in Nat, NEW j \in Nat
    PROVE  Max({i, j}) \in Nat
<1>1. \E x \in {i, j} : \A y \in {i, j} : x >= y
  OBVIOUS
<1>2. QED
  BY <1>1 DEF Max

\* What one cycle makes of the lanes of a wait.
LEMMA TestedFacts ==
    ASSUME TypeOK, NEW w \in Warps
    PROVE  /\ Tested(w) \in [DOMAIN lane[w] -> Lane] /\ DOMAIN Tested(w) = DOMAIN lane[w]
           /\ \A b \in DOMAIN lane[w] :
                 /\ Tested(w)[b].parity = lane[w][b].parity
                 /\ Tested(w)[b].from = lane[w][b].from
                 /\ Tested(w)[b].dl = Less(lane[w][b].dl)
                 /\ Tested(w)[b].res = IF Due(w) /\ ~ready[w] /\ lane[w][b].res = "open"
                                       THEN Classify(b, lane[w][b].parity, Tested(w)[b].dl)
                                       ELSE lane[w][b].res
<1> DEFINE D == DOMAIN lane[w]
           res(b) == IF Due(w) /\ ~ready[w] /\ lane[w][b].res = "open"
                     THEN Classify(b, lane[w][b].parity, Less(lane[w][b].dl)) ELSE lane[w][b].res
<1>1. \A b \in D : /\ lane[w][b].parity \in Parities /\ lane[w][b].from \in 0..MaxPhase
                   /\ Less(lane[w][b].dl) \in Nat /\ res(b) \in {"open", "true", "false"}
  <2>1. \A b \in D : lane[w][b] \in Lane
    BY DEF TypeOK
  <2>2. \A b \in D : /\ lane[w][b].parity \in Parities /\ lane[w][b].from \in 0..MaxPhase
                     /\ lane[w][b].dl \in Nat /\ lane[w][b].res \in {"open", "true", "false"}
    BY <2>1 DEF Lane
  <2>3. \A n \in Nat : Less(n) \in Nat
    BY DEF Less
  <2>4. QED
    BY <2>2, <2>3 DEF Classify
<1>2. Tested(w) = [b \in D |-> [parity |-> lane[w][b].parity, from |-> lane[w][b].from,
                                dl |-> Less(lane[w][b].dl), res |-> res(b)]]
  BY DEF Tested
<1>3. DOMAIN Tested(w) = D
  BY <1>2
<1>4. ASSUME NEW b \in D
      PROVE  /\ Tested(w)[b] \in Lane
             /\ Tested(w)[b].parity = lane[w][b].parity /\ Tested(w)[b].from = lane[w][b].from
             /\ Tested(w)[b].dl = Less(lane[w][b].dl) /\ Tested(w)[b].res = res(b)
  <2> DEFINE i == lane[w][b].parity
             j == lane[w][b].from
             d == Less(lane[w][b].dl)
             r == res(b)
  <2>1. Tested(w)[b] = [parity |-> i, from |-> j, dl |-> d, res |-> r]
    BY <1>2
  <2>2. i \in Parities /\ j \in 0..MaxPhase /\ d \in Nat /\ r \in {"open", "true", "false"}
    BY <1>1
  <2> HIDE DEF i, j, d, r
  <2>3. /\ Tested(w)[b] \in Lane /\ Tested(w)[b].parity = i /\ Tested(w)[b].from = j
        /\ Tested(w)[b].dl = d /\ Tested(w)[b].res = r
    BY <2>1, <2>2 DEF Lane
  <2>4. QED
    BY <2>3 DEF i, j, d, r
<1>5. Tested(w) \in [D -> Lane]
  BY <1>2, <1>4
<1>6. QED
  BY <1>3, <1>4, <1>5

\* The cases of a recheck: it finishes the wait, delays its result, lets it sleep on, or
\* is not due; and when it happens next.
LEMMA RecheckFacts ==
    ASSUME TypeOK, NEW w \in Warps
    PROVE  /\ ResultIn(w) \in Nat
           /\ Finishes(w) \/ Matures(w) \/ SleepsOn(w) \/ ~Due(w)
           /\ SleepsOn(w) => ~Finishes(w) /\ ~Matures(w)
           /\ Matures(w) => NextRecheck(w) = ResultIn(w)
           /\ SleepsOn(w) => NextRecheck(w) = EarliestDeadline(Tested(w))
           /\ ~Due(w) => NextRecheck(w) = Less(recheckIn[w])
           /\ NextRecheck(w) \in Nat
           /\ \A b \in Open(Tested(w)) : SleepsOn(w) => NextRecheck(w) <= Tested(w)[b].dl
<1>1. Less(predIn[w]) \in Nat /\ Less(recheckIn[w]) \in Nat
  BY DEF TypeOK, Less
<1>2. ResultIn(w) \in Nat
  <2>1. (IF notified[w] /\ AllTrue(Tested(w)) THEN WakeupLatency ELSE 0) \in Nat
    BY LatencyAssumption
  <2>2. QED
    BY <1>1, <2>1, MaxOfTwo DEF ResultIn
<1>3. Finishes(w) \/ Matures(w) \/ SleepsOn(w) \/ ~Due(w)
  BY <1>2 DEF Finishes, Matures, SleepsOn
<1>4. SleepsOn(w) => ~Finishes(w) /\ ~Matures(w)
  BY DEF Finishes, Matures, SleepsOn
<1>5. Matures(w) => NextRecheck(w) = ResultIn(w)
  BY <1>4 DEF NextRecheck
<1>6. SleepsOn(w) => NextRecheck(w) = EarliestDeadline(Tested(w))
  BY <1>4 DEF NextRecheck
<1>7. ~Matures(w) /\ ~SleepsOn(w) => NextRecheck(w) = Less(recheckIn[w])
  BY DEF NextRecheck
<1>8. ~Due(w) => ~Matures(w) /\ ~SleepsOn(w)
  BY DEF Matures, SleepsOn
<1>9. SleepsOn(w) => /\ EarliestDeadline(Tested(w)) \in Nat
                     /\ \A b \in Open(Tested(w)) : EarliestDeadline(Tested(w)) <= Tested(w)[b].dl
  BY TestedFacts, EarliestDeadlineFacts DEF SleepsOn
<1>10. NextRecheck(w) \in Nat
  BY <1>1, <1>2, <1>5, <1>6, <1>7, <1>9
<1>11. QED
  BY <1>2, <1>3, <1>4, <1>5, <1>6, <1>7, <1>8, <1>9, <1>10

\* One cycle of the barrier set.
LEMMA CycleInd ==
    ASSUME IndInv, Cycle
    PROVE  IndInv'
<1>1. TypeOK /\ WaitersKnown /\ NoTraffic /\ ParkedHasReleaser /\ LanesLive
  BY DEF IndInv
<1>2. UNCHANGED <<exists, expected, pending, tx, phase, rwaiters, remote, chan, doneMsgs>>
  BY DEF Cycle
<1>3. \A w \in Warps : /\ lane'[w] = IF Finishes(w) THEN <<>> ELSE Tested(w)
                       /\ recheckIn'[w] = IF Finishes(w) THEN 0 ELSE NextRecheck(w)
                       /\ rel'[w] = {r - 1 : r \in rel[w] \ {1}}
                       /\ park'[w] = IF ReleaseTakes(w) \/ (Finishes(w) /\ park[w] = "mbar")
                                     THEN "none" ELSE park[w]
  BY DEF Cycle
<1>4. \A w \in Warps : /\ ready'[w] = (Matures(w) \/ (ready[w] /\ ~Finishes(w)))
                       /\ answered'[w] = (answered[w] \/ Finishes(w))
  BY Zenon DEF Cycle
<1>5. \A b \in Bars : waiting'[b] = {w \in waiting[b] : b \notin Cancels(w)}
                                    \cup {w \in Warps : b \in Reregisters(w)}
  BY DEF Cycle
<1>6. /\ DOMAIN <<>> = {} /\ <<>> \in [{} -> Lane]
      /\ \A w \in Warps : DOMAIN Tested(w) = DOMAIN lane[w] /\ Tested(w) \in [DOMAIN lane[w] -> Lane]
  BY <1>1, TestedFacts
<1>7. \A w \in Warps : Waits(w)' <=> Waits(w) /\ ~Finishes(w)
  <2>1. ASSUME NEW w \in Warps PROVE lane'[w] # <<>> <=> Waits(w) /\ ~Finishes(w)
    <3>1. CASE Finishes(w)
      BY <1>3, <3>1
    <3>2. CASE ~Finishes(w) /\ Waits(w)
      BY <1>1, <1>3, <1>6, <3>2, WaitsHasLanes
    <3>3. CASE ~Finishes(w) /\ ~Waits(w)
      <4>1. lane'[w] = Tested(w) /\ DOMAIN lane[w] = {}
        BY <1>1, <1>3, <3>3, WaitsHasLanes
      <4>2. Tested(w) = <<>>
        <5>1. Tested(w) = [b \in DOMAIN lane[w] |-> Tested(w)[b]]
          BY <1>6
        <5>2. QED
          BY <4>1, <5>1
      <4>3. QED
        BY <3>3, <4>1, <4>2
    <3>4. QED
      BY <3>1, <3>2, <3>3
  <2>2. QED
    BY <2>1 DEF Waits
<1>8. \A w \in Warps : Undisturbed(w)' = Undisturbed(w)
  BY DEF Undisturbed, AllLocal, IsLocal
<1>9. \A w \in Warps : \A b \in DOMAIN lane'[w] :
          ~Finishes(w) /\ b \in DOMAIN lane[w] /\ b \in Bars /\ lane'[w] = Tested(w)
  <2>1. ASSUME NEW w \in Warps, NEW b \in DOMAIN lane'[w]
        PROVE  ~Finishes(w) /\ b \in DOMAIN lane[w] /\ lane'[w] = Tested(w)
    BY <1>3, <1>6
  <2>2. QED
    BY <1>1, <2>1 DEF TypeOK, LanesOf
<1>10. TypeOK'
  <2>1. /\ lane' = [w \in Warps |-> lane'[w]]
        /\ \A w \in Warps : DOMAIN lane'[w] \subseteq LanesOf(w) /\ lane'[w] \in [DOMAIN lane'[w] -> Lane]
    <3>1. lane' = [w \in Warps |-> lane'[w]]
      BY DEF Cycle
    <3>2. ASSUME NEW w \in Warps
          PROVE  DOMAIN lane'[w] \subseteq LanesOf(w) /\ lane'[w] \in [DOMAIN lane'[w] -> Lane]
      <4>1. CASE Finishes(w)
        BY <1>3, <1>6, <4>1
      <4>2. CASE ~Finishes(w)
        BY <1>1, <1>3, <1>6, <4>2 DEF TypeOK
      <4>3. QED
        BY <4>1, <4>2
    <3>3. QED
      BY <3>1, <3>2
  <2>2. recheckIn' \in [Warps -> Nat]
    <3>1. \A w \in Warps : NextRecheck(w) \in Nat
      BY <1>1, RecheckFacts
    <3>2. QED
      BY <3>1 DEF Cycle
  <2>3. predIn' \in [Warps -> Nat]
    <3>1. \A w \in Warps : Less(predIn[w]) \in Nat
      BY <1>1 DEF TypeOK, Less
    <3>2. QED
      BY <3>1 DEF Cycle
  <2>4. {notified', ready', remote', answered'} \subseteq [Warps -> BOOLEAN]
    <3>1. notified' \in [Warps -> BOOLEAN]
      BY Zenon DEF Cycle
    <3>2. ready' \in [Warps -> BOOLEAN]
      BY Zenon DEF Cycle
    <3>3. answered' \in [Warps -> BOOLEAN]
      BY Zenon DEF Cycle
    <3>4. QED
      BY <1>1, <1>2, <3>1, <3>2, <3>3 DEF TypeOK
  <2>5. rel' \in [Warps -> SUBSET (Nat \ {0})]
    <3>1. \A w \in Warps : {r - 1 : r \in rel[w] \ {1}} \in SUBSET (Nat \ {0})
      BY <1>1 DEF TypeOK
    <3>2. QED
      BY <3>1 DEF Cycle
  <2>6. park' \in [Warps -> {"none", "mbar", "other"}]
    BY <1>1 DEF Cycle, TypeOK
  <2>7. waiting' \in [Bars -> SUBSET Warps]
    BY <1>1 DEF Cycle, TypeOK
  <2>8. QED
    BY <1>1, <1>2, <2>1, <2>2, <2>3, <2>4, <2>5, <2>6, <2>7 DEF TypeOK
<1>11. WaitersKnown' /\ NoTraffic'
  BY <1>1, <1>2, <1>7 DEF WaitersKnown, NoTraffic, AllLocal, IsLocal
<1>12. WaitsParked'
  BY <1>3, <1>7, <1>8 DEF IndInv, WaitsParked, ReleaseTakes
<1>13. LanesLive'
  BY <1>1, <1>2, <1>9, TestedFacts DEF LanesLive
\* What a wait that goes on without an answer has seen this cycle.
<1>14. ASSUME NEW w \in Warps, Waits(w)', ~ready'[w]
       PROVE  /\ Waits(w) /\ ~ready[w] /\ ~Finishes(w) /\ (SleepsOn(w) \/ ~Due(w))
              /\ lane'[w] = Tested(w) /\ recheckIn'[w] = NextRecheck(w)
              /\ ~Due(w) => Open(Tested(w)) = Open(lane[w]) /\ recheckIn'[w] = Less(recheckIn[w])
  <2>1. Waits(w) /\ ~ready[w] /\ ~Finishes(w) /\ ~Matures(w)
    BY <1>4, <1>7, <1>14
  <2>2. ~Due(w) => Open(Tested(w)) = Open(lane[w])
    BY <1>1, TestedFacts DEF Open
  <2>3. QED
    BY <1>1, <1>3, <2>1, <2>2, RecheckFacts
<1>15. NeverOversleeps'
  <2>1. ASSUME NEW w \in Warps, Waits(w)', ~ready'[w]
        PROVE  Open(lane'[w]) # {} /\ \A b \in Open(lane'[w]) : recheckIn'[w] <= lane'[w][b].dl
    <3>1. CASE SleepsOn(w)
      <4>1. Open(Tested(w)) # {}
        BY <3>1 DEF SleepsOn
      <4>2. QED
        BY <1>1, <1>14, <2>1, <3>1, <4>1, RecheckFacts
    <3>2. CASE ~Due(w)
      <4>1. /\ Open(lane[w]) # {} /\ \A b \in Open(lane[w]) : recheckIn[w] <= lane[w][b].dl
            /\ Open(lane'[w]) = Open(lane[w]) /\ recheckIn'[w] = Less(recheckIn[w])
        BY <1>14, <2>1, <3>2 DEF IndInv, NeverOversleeps
      <4>2. \A b \in Open(lane[w]) : /\ b \in DOMAIN lane[w] /\ lane[w][b].dl \in Nat
                                     /\ lane'[w][b].dl = Less(lane[w][b].dl)
        BY <1>1, <1>14, <2>1, TestedFacts DEF Open, TypeOK, Lane
      <4>3. recheckIn[w] \in Nat
        BY <1>1 DEF TypeOK
      <4>4. QED
        BY <4>1, <4>2, <4>3 DEF Less
    <3>3. QED
      BY <1>14, <2>1, <3>1, <3>2
  <2>2. QED
    BY <2>1 DEF NeverOversleeps, Open
<1>16. AnswersJustified'
  <2>1. ASSUME NEW w \in Warps, NEW b \in DOMAIN lane'[w]
        PROVE  /\ lane'[w][b].res = "true" =>
                     (phase[b] > lane'[w][b].from \/ lane'[w][b].parity # lane'[w][b].from % 2)
               /\ lane'[w][b].res = "false" => lane'[w][b].dl = 0
    <3> DEFINE l == lane[w][b]
               k == lane'[w][b]
    <3>1. b \in DOMAIN lane[w] /\ b \in Bars /\ k = Tested(w)[b]
      BY <1>9
    <3>2. /\ k.parity = l.parity /\ k.from = l.from /\ k.dl = Less(l.dl)
          /\ k.res = IF Due(w) /\ ~ready[w] /\ l.res = "open"
                     THEN Classify(b, l.parity, k.dl) ELSE l.res
      BY <1>1, <3>1, TestedFacts
    <3>3. /\ l.res = "true" => (phase[b] > l.from \/ l.parity # l.from % 2)
          /\ l.res = "false" => l.dl = 0
      BY <3>1 DEF IndInv, AnswersJustified
    <3>4. l.from <= phase[b] /\ l.from \in Nat /\ phase[b] \in Nat
      BY <1>1, <3>1 DEF LanesLive, TypeOK, Lane
    <3> HIDE DEF l, k
    <3>5. CASE Due(w) /\ ~ready[w] /\ l.res = "open"
      BY <3>2, <3>4, <3>5 DEF Classify, PhaseDone, k
    <3>6. CASE ~(Due(w) /\ ~ready[w] /\ l.res = "open")
      BY <3>2, <3>3, <3>6 DEF Less, k
    <3>7. QED
      BY <3>5, <3>6
  <2>2. QED
    BY <1>2, <2>1 DEF AnswersJustified
<1>17. Registered'
  <2>1. ASSUME NEW b \in Bars, NEW w \in waiting'[b]
        PROVE  w \in Warps /\ exists[b] /\ (Undisturbed(w) => b \in DOMAIN lane'[w])
    <3>1. w \in Warps
      BY <1>10 DEF TypeOK
    <3>2. CASE w \in waiting[b] /\ b \notin Cancels(w)
      <4>1. exists[b] /\ (Undisturbed(w) => b \in DOMAIN lane[w])
        BY <3>2 DEF IndInv, Registered
      <4>2. Undisturbed(w) => ~Finishes(w)
        BY <3>2, <4>1 DEF Cancels
      <4>3. QED
        BY <1>3, <1>6, <3>1, <4>1, <4>2
    <3>3. CASE b \in Reregisters(w)
      <4>1. SleepsOn(w) /\ b \in DOMAIN lane[w]
        BY <1>6, <3>1, <3>3 DEF Reregisters, Open
      <4>2. ~Finishes(w)
        BY <1>1, <3>1, <4>1, RecheckFacts
      <4>3. QED
        BY <1>1, <1>3, <1>6, <3>1, <4>1, <4>2 DEF LanesLive
    <3>4. QED
      BY <1>5, <3>2, <3>3
  <2>2. QED
    BY <1>2, <1>8, <2>1 DEF Registered
<1>18. AllLocal' => WaiterWillHear'
  <2>1. ASSUME AllLocal, NEW w \in Warps, Waits(w)', ~ready'[w], NEW b \in Open(lane'[w])
        PROVE  recheckIn'[w] = 0 \/ (w \in waiting'[b] /\ ~PhaseDone(b, lane'[w][b].parity))
    <3>1. b \in DOMAIN lane'[w] /\ lane'[w][b].res = "open"
      BY DEF Open
    <3>2. b \in DOMAIN lane[w] /\ b \in Bars /\ lane'[w] = Tested(w)
      BY <1>9, <3>1
    <3>3. /\ lane'[w][b].parity = lane[w][b].parity
          /\ lane'[w][b].res = IF Due(w) /\ ~ready[w] /\ lane[w][b].res = "open"
                               THEN Classify(b, lane[w][b].parity, lane'[w][b].dl)
                               ELSE lane[w][b].res
      BY <1>1, <3>2, TestedFacts
    <3>4. CASE SleepsOn(w)
      <4>1. b \in Reregisters(w)
        BY <2>1, <3>2, <3>4 DEF Reregisters
      <4>2. ~PhaseDone(b, lane[w][b].parity)
        BY <3>1, <3>3, <3>4 DEF SleepsOn, Classify
      <4>3. QED
        BY <1>5, <3>2, <3>3, <4>1, <4>2
    <3>5. CASE ~Due(w)
      <4>1. Waits(w) /\ ~ready[w] /\ ~Finishes(w) /\ Open(Tested(w)) = Open(lane[w])
        BY <1>14, <2>1, <3>5
      <4>2. recheckIn[w] # 0
        BY <3>5, <4>1 DEF Due, Less
      <4>3. w \in waiting[b] /\ ~PhaseDone(b, lane[w][b].parity)
        BY <2>1, <3>2, <4>1, <4>2 DEF IndInv, WaiterWillHear
      <4>4. w \in waiting'[b]
        BY <1>5, <3>2, <4>1, <4>3 DEF Cancels
      <4>5. QED
        BY <3>3, <4>3, <4>4
    <3>6. QED
      BY <1>14, <2>1, <3>4, <3>5
  <2>2. QED
    BY <1>2, <2>1 DEF WaiterWillHear, PhaseDone, Open, AllLocal, IsLocal
<1>19. Unanswered'
  BY <1>4, <1>7 DEF IndInv, Unanswered
<1>20. ParkedHasReleaser'
  <2>1. ASSUME NEW w \in Warps, park'[w] = "mbar", ~Waits(w)', ~remote[w]
        PROVE  rel'[w] # {}
    <3>1. park[w] = "mbar" /\ ~ReleaseTakes(w) /\ ~Finishes(w)
      BY <1>3, <2>1
    <3>2. ~Waits(w) /\ rel[w] # {} /\ 1 \notin rel[w]
      BY <1>1, <1>7, <2>1, <3>1 DEF ParkedHasReleaser, ReleaseTakes
    <3>3. QED
      BY <1>3, <3>2
  <2>2. QED
    BY <1>2, <2>1 DEF ParkedHasReleaser
<1>21. QED
  BY <1>10, <1>11, <1>12, <1>13, <1>15, <1>16, <1>17, <1>18, <1>19, <1>20 DEF IndInv

\* Every step keeps the invariant.
LEMMA NextInd == IndInv /\ [Next]_vars => IndInv'
<1> SUFFICES ASSUME IndInv, [Next]_vars PROVE IndInv'
  OBVIOUS
<1>1. CASE UNCHANGED vars
  <2>1. UNCHANGED <<exists, expected, pending, tx, phase, waiting, rwaiters, lane, recheckIn, predIn,
                    notified, ready, park, rel, remote, chan, doneMsgs, answered>>
    BY <1>1 DEF vars, barVars, waitVars
  <2>2. TypeOK' /\ WaitersKnown' /\ NoTraffic' /\ ParkedHasReleaser'
    BY <2>1 DEF IndInv, TypeOK, WaitersKnown, NoTraffic, ParkedHasReleaser, Waits, AllLocal, IsLocal
  <2>3. QED
    BY <2>1, <2>2, IdleInd
<1>2. CASE \E w \in Warps, b \in Bars :
        \/ \E n \in 1..MaxCount : InitBar(w, b, n) \/ Arrive(w, b, n)
        \/ Inval(w, b)
        \/ \E e \in 0..MaxTx : ArriveExpectTx(w, b, e)
        \/ \E e \in 1..MaxTx : ExpectTx(w, b, e) \/ CompleteTxInst(w, b, e)
        \/ \E parity \in Parities : TryWaitRemote(w, b, parity)
  BY <1>2, InitBarInd, ArriveInd, InvalInd, ArriveExpectTxInd, ExpectTxInd, CompleteTxInd, TryWaitRemoteInd
<1>3. CASE \E w \in Warps : \E bs \in (SUBSET LanesOf(w)) \ {{}} :
            \E q \in [bs -> [parity : Parities, hint : Hints \cup {NoHint}]] : TryWait(w, q)
  <2>1. ASSUME NEW w \in Warps, NEW bs \in (SUBSET LanesOf(w)) \ {{}},
               NEW q \in [bs -> [parity : Parities, hint : Hints \cup {NoHint}]], TryWait(w, q)
        PROVE  IndInv'
    <3>1. bs \in SUBSET LanesOf(w) /\ bs # {}
      OBVIOUS
    <3>2. QED
      BY <2>1, <3>1, TryWaitInd
  <2>2. QED
    BY <1>3, <2>1
<1>4. CASE \E s \in Sms : ReleaseCta(s)
  BY <1>4, ReleaseCtaInd
<1>5. CASE \E b \in Bars : (\E n \in 1..MaxTx : TmaComplete(b, n)) \/ AsyncArrive(b) \/ PrepareAsync(b)
  <2>1. PICK b \in Bars : (\E n \in 1..MaxTx : TmaComplete(b, n)) \/ AsyncArrive(b) \/ PrepareAsync(b)
    BY <1>5
  <2>2. MissingAfter(b, 1) \in 0..(MaxCount + 1) /\ pending[b] \in 0..(MaxCount + 1)
    BY MissingAfterType DEF IndInv
  <2>3. QED
    BY <2>1, <2>2, AsyncOpInd, PrepareAsyncInd DEF TmaComplete, AsyncArrive
<1>6. CASE \E c \in Sms \X Sms : Deliver(c)
  BY <1>6, DeliverInd
<1>7. CASE \E w \in Warps : WaitDone(w) \/ ParkOther(w) \/ UnparkOther(w)
  BY <1>7, WaitDoneInd, ParkOtherInd
<1>8. CASE Cycle
  BY <1>8, CycleInd
<1>9. QED
  BY <1>1, <1>2, <1>3, <1>4, <1>5, <1>6, <1>7, <1>8 DEF Next

-----------------------------------------------------------------------------
(* Remote waits, when no warp's code waits both here and on other SMs. *)

\* A warp waits on barriers of its own SM or on other SMs' barriers, not on both.
WaitersSeparate == LocalWaiters \cap RemoteWaiters = {}

\* The places where the open remote wait of w can be, exactly one of them at a time.
Nowhere(w) == doneMsgs[w] = 0 /\ WaitersOf(w) = {} /\ RequestsOf(w) = {}
InRequest(w) == doneMsgs[w] = 0 /\ WaitersOf(w) = {} /\ \E x : RequestsOf(w) = {x}
AtOwner(w) == doneMsgs[w] = 0 /\ (\E x : WaitersOf(w) = {x}) /\ RequestsOf(w) = {}
InResponse(w) == doneMsgs[w] = 1 /\ WaitersOf(w) = {} /\ RequestsOf(w) = {}

PlaceOf(w) == IF remote[w] THEN InRequest(w) \/ AtOwner(w) \/ InResponse(w) ELSE Nowhere(w)

OnePlace == \A w \in Warps : PlaceOf(w)

\* A barrier registers only warps that wait on their own SM.
WaitingLocal == \A b \in Bars : waiting[b] \subseteq LocalWaiters

\* A warp that waits on other SMs is parked for its remote wait or for one scheduled
\* release, never for both, and it has no answer only while its wait is open.
OneReason ==
    \A w \in RemoteWaiters :
        /\ remote[w] => park[w] = "mbar" /\ rel[w] = {}
        /\ rel[w] # {} => park[w] = "mbar" /\ \E r \in Nat \ {0} : rel[w] = {r}
        /\ ~answered[w] => remote[w]

\* The inductive invariant of the remote waits, beside IndInv.
RemoteInv == WaitingLocal /\ OneReason /\ OnePlace

\* A release of the waiters of a barrier is not for a warp that waits on other SMs.
LEMMA ReleasedElsewhere ==
    ASSUME TypeOK, WaitersSeparate, WaitingLocal, NEW b \in Bars, NEW p, NEW x
    PROVE  \A v \in RemoteWaiters : ReleaseWarps(Released(b, p, x))[v] = rel[v]
<1>1. \A v \in RemoteWaiters : v \in Warps /\ v \notin Released(b, p, x)
  BY WaitersAssumption DEF WaitersSeparate, WaitingLocal, Released
<1>2. QED
  BY <1>1 DEF ReleaseWarps

\* hold_warp gives a warp that could issue a release of its own and no second one.
LEMMA HoldReason ==
    ASSUME TypeOK, OneReason, NEW w \in Warps, NEW h \in Nat, CanIssue(w),
           NEW r \in [Warps -> SUBSET (Nat \ {0})], \A v \in RemoteWaiters : r[v] = rel[v],
           Hold(w, h, r), remote' = remote, answered' = answered
    PROVE  OneReason'
<1>1. RemoteWaiters \subseteq Warps /\ rel \in [Warps -> SUBSET (Nat \ {0})] /\ park \in [Warps -> {"none", "mbar", "other"}]
  BY WaitersAssumption DEF TypeOK
<1>2. CASE h = 0
  BY <1>1, <1>2 DEF Hold, OneReason
<1>3. CASE h # 0
  <2>1. park' = [park EXCEPT ![w] = "mbar"] /\ rel' = [r EXCEPT ![w] = @ \cup {h}]
    BY <1>3 DEF Hold
  <2>2. \A v \in Warps : v # w => park'[v] = park[v] /\ rel'[v] = r[v]
    BY <1>1, <2>1
  <2>3. park'[w] = "mbar" /\ rel'[w] = r[w] \cup {h}
    BY <1>1, <2>1
  <2>4. w \in RemoteWaiters => ~remote[w] /\ rel[w] = {} /\ answered[w]
    BY DEF OneReason, CanIssue
  <2>5. w \in RemoteWaiters => rel'[w] = {h} /\ h \in Nat \ {0}
    BY <1>3, <2>3, <2>4
  <2>6. QED
    BY <1>1, <2>2, <2>3, <2>4, <2>5 DEF OneReason
<1>4. QED
  BY <1>2, <1>3

\* The step leaves the requests of w as many as they are, up to one.
RequestsKept(w) ==
    /\ RequestsOf(w) = {} => RequestsOf(w)' = {}
    /\ (\E x : RequestsOf(w) = {x}) => \E x : RequestsOf(w)' = {x}

\* The step leaves every remote wait where it is.
LEMMA PlacesKept ==
    ASSUME OnePlace, rwaiters' = rwaiters, doneMsgs' = doneMsgs, remote' = remote,
           \A w \in Warps : RequestsKept(w)
    PROVE  OnePlace'
<1>1. ASSUME NEW w \in Warps PROVE PlaceOf(w)'
  <2>1. WaitersOf(w)' = WaitersOf(w) /\ RequestsKept(w)
    BY DEF WaitersOf
  <2>2. PlaceOf(w)
    BY DEF OnePlace
  <2>3. QED
    BY <2>1, <2>2 DEF PlaceOf, Nowhere, InRequest, AtOwner, InResponse, RequestsKept
<1>2. QED
  BY <1>1 DEF OnePlace

\* What is in RequestsOf, and that its members say all about it.
LEMMA RequestMember ==
    ASSUME NEW w \in Warps, NEW c \in Sms \X Sms, NEW i
    PROVE  /\ <<c, i>> \in RequestsOf(w) <=> /\ i \in 1..MaxChan /\ i <= Len(chan[c])
                                             /\ chan[c][i].op = "WAIT_REG" /\ chan[c][i].warp = w
           /\ RequestsOf(w) \subseteq (Sms \X Sms) \X (1..MaxChan)
  BY DEF RequestsOf

LEMMA SameRequests ==
    ASSUME NEW S \in SUBSET ((Sms \X Sms) \X (1..MaxChan)),
           NEW T \in SUBSET ((Sms \X Sms) \X (1..MaxChan)),
           \A c \in Sms \X Sms, i \in 1..MaxChan : <<c, i>> \in S <=> <<c, i>> \in T
    PROVE  S = T
<1>1. \A x \in (Sms \X Sms) \X (1..MaxChan) : \E c \in Sms \X Sms, i \in 1..MaxChan : x = <<c, i>>
  OBVIOUS
<1>2. QED
  BY <1>1

\* Requests that are no registrations leave every RequestsOf as it is.
LEMMA SendPlaces ==
    ASSUME TypeOK, NEW w \in Warps, NEW b \in Bars, NEW msgs \in Seq(Msg),
           \A i \in 1..Len(msgs) : msgs[i].op # "WAIT_REG", Send(w, b, msgs)
    PROVE  \A v \in Warps : RequestsKept(v)
<1> DEFINE c == <<Home[w], Home[b]>>
           q == chan[c] \o msgs
<1>1. c \in Sms \X Sms /\ Len(chan[c]) + Len(msgs) <= MaxChan /\ chan' = [chan EXCEPT ![c] = q]
  BY HomeAssumption DEF Send
<1>2. chan[c] \in Seq(Msg) /\ chan \in [Sms \X Sms -> Seq(Msg)]
  BY <1>1 DEF TypeOK
<1>3. /\ Len(q) = Len(chan[c]) + Len(msgs) /\ Len(chan[c]) \in Nat /\ Len(msgs) \in Nat
      /\ \A i \in 1..Len(q) : q[i] = IF i <= Len(chan[c]) THEN chan[c][i] ELSE msgs[i - Len(chan[c])]
  BY <1>2
<1>4. \A i \in 1..Len(q) : ~(i <= Len(chan[c])) => q[i].op # "WAIT_REG"
  <2>1. ASSUME NEW i \in 1..Len(q), ~(i <= Len(chan[c]))
        PROVE  q[i].op # "WAIT_REG"
    <3>1. i - Len(chan[c]) \in 1..Len(msgs) /\ q[i] = msgs[i - Len(chan[c])]
      BY <1>3, <2>1
    <3>2. QED
      BY <3>1
  <2>2. QED
    BY <2>1
<1> HIDE DEF q, c
<1>5. \A d \in Sms \X Sms : chan'[d] = IF d = c THEN q ELSE chan[d]
  BY <1>1, <1>2
<1>6. ASSUME NEW v \in Warps, NEW d \in Sms \X Sms, NEW i \in 1..MaxChan
      PROVE  <<d, i>> \in RequestsOf(v)' <=> <<d, i>> \in RequestsOf(v)
  <2>1. /\ <<d, i>> \in RequestsOf(v) <=>
              i <= Len(chan[d]) /\ chan[d][i].op = "WAIT_REG" /\ chan[d][i].warp = v
        /\ <<d, i>> \in RequestsOf(v)' <=>
              i <= Len(chan'[d]) /\ chan'[d][i].op = "WAIT_REG" /\ chan'[d][i].warp = v
    BY DEF RequestsOf
  <2>2. CASE d = c
    <3>1. chan'[d] = q
      BY <1>5, <2>2
    <3>2. i <= Len(chan[c]) => i <= Len(q) /\ q[i] = chan[c][i]
      BY <1>3
    <3>3. i <= Len(q) /\ q[i].op = "WAIT_REG" => i <= Len(chan[c])
      BY <1>3, <1>4
    <3>4. QED
      BY <2>1, <2>2, <3>1, <3>2, <3>3
  <2>3. CASE d # c
    BY <1>5, <2>1, <2>3
  <2>4. QED
    BY <2>2, <2>3
<1>7. ASSUME NEW v \in Warps PROVE RequestsOf(v)' = RequestsOf(v)
  <2>1. /\ RequestsOf(v) \in SUBSET ((Sms \X Sms) \X (1..MaxChan))
        /\ RequestsOf(v)' \in SUBSET ((Sms \X Sms) \X (1..MaxChan))
    BY DEF RequestsOf
  <2>2. QED
    BY <1>6, <2>1, SameRequests
<1>8. QED
  BY <1>7 DEF RequestsKept

\* notify_remote_waiters moves each satisfied waiter into one response.
LEMMA NotifyPlaces ==
    ASSUME TypeOK, OnePlace, NEW b \in Bars, NotifyRemote(b), remote' = remote,
           \A w \in Warps : RequestsKept(w)
    PROVE  OnePlace'
<1> DEFINE sat == {r \in rwaiters[b] : r.parity # phase'[b] % 2}
           of(w) == {r \in sat : r.warp = w}
<1>1. /\ rwaiters' = [rwaiters EXCEPT ![b] = @ \ sat]
      /\ doneMsgs' = [w \in Warps |-> doneMsgs[w] + Cardinality(of(w))]
  BY DEF NotifyRemote
<1>2. /\ rwaiters \in [Bars -> SUBSET [warp : Warps, parity : Parities]]
      /\ sat \subseteq rwaiters[b] /\ doneMsgs \in [Warps -> Nat]
  BY DEF TypeOK
<1> HIDE DEF sat
<1>3. \A a \in Bars : rwaiters'[a] = IF a = b THEN rwaiters[b] \ sat ELSE rwaiters[a]
  BY <1>1, <1>2
<1>4. ASSUME NEW w \in Warps PROVE PlaceOf(w)'
  <2>1. PlaceOf(w) /\ RequestsKept(w) /\ remote'[w] = remote[w]
    BY DEF OnePlace
  <2>2. doneMsgs'[w] = doneMsgs[w] + Cardinality(of(w)) /\ doneMsgs[w] \in Nat
    BY <1>1, <1>2
  <2>3. \A a \in Bars, r \in [warp : {w}, parity : Parities] :
            /\ <<a, r>> \in WaitersOf(w) <=> r \in rwaiters[a]
            /\ <<a, r>> \in WaitersOf(w)' <=> r \in rwaiters'[a]
    BY DEF WaitersOf
  <2>4. \A r \in of(w) : r \in [warp : {w}, parity : Parities] /\ r \in rwaiters[b] /\ r \in sat
    BY <1>2
  <2>5. \A x \in WaitersOf(w)' : x \in WaitersOf(w)
    <3>1. ASSUME NEW x \in WaitersOf(w)' PROVE x \in WaitersOf(w)
      <4>1. PICK a \in Bars, r \in [warp : {w}, parity : Parities] : x = <<a, r>>
        BY DEF WaitersOf
      <4>2. r \in rwaiters'[a]
        BY <2>3, <4>1
      <4>3. QED
        BY <1>3, <2>3, <4>1, <4>2
    <3>2. QED
      BY <3>1
  <2>6. CASE WaitersOf(w) = {}
    <3>1. of(w) = {} /\ WaitersOf(w)' = {}
      BY <2>3, <2>4, <2>5, <2>6
    <3>2. Cardinality(of(w)) = 0
      BY <3>1, FS_EmptySet
    <3>3. doneMsgs'[w] = doneMsgs[w]
      BY <2>2, <3>2
    <3>4. QED
      BY <2>1, <2>6, <3>1, <3>3 DEF PlaceOf, Nowhere, InRequest, AtOwner, InResponse, RequestsKept
  <2>7. CASE WaitersOf(w) # {}
    <3>1. remote[w] /\ AtOwner(w)
      BY <2>1, <2>7 DEF PlaceOf, Nowhere, InRequest, AtOwner, InResponse
    <3>2. PICK x : WaitersOf(w) = {x}
      BY <3>1 DEF AtOwner
    <3>3. PICK a \in Bars, r \in [warp : {w}, parity : Parities] : x = <<a, r>> /\ r \in rwaiters[a]
      BY <3>2 DEF WaitersOf
    <3>4. \A e \in Bars, s \in [warp : {w}, parity : Parities] :
              s \in rwaiters[e] => e = a /\ s = r
      BY <2>3, <3>2, <3>3
    <3>5. CASE a = b /\ r \in sat
      <4>1. of(w) = {r}
        BY <2>4, <3>3, <3>4, <3>5
      <4>2. r \notin rwaiters'[a]
        BY <1>3, <3>5
      <4>3. WaitersOf(w)' = {}
        BY <2>3, <2>5, <3>2, <3>3, <4>2
      <4>4. Cardinality(of(w)) = 1
        BY <4>1, FS_Singleton
      <4>5. doneMsgs'[w] = 1
        BY <2>2, <3>1, <4>4 DEF AtOwner
      <4>6. QED
        BY <2>1, <3>1, <4>3, <4>5 DEF PlaceOf, AtOwner, InResponse, RequestsKept
    <3>6. CASE ~(a = b /\ r \in sat)
      <4>1. of(w) = {}
        BY <2>4, <3>4, <3>6
      <4>2. r \in rwaiters'[a]
        BY <1>3, <3>3, <3>6
      <4>3. WaitersOf(w)' = {x}
        BY <2>3, <2>5, <3>2, <3>3, <4>2
      <4>4. Cardinality(of(w)) = 0
        BY <4>1, FS_EmptySet
      <4>5. doneMsgs'[w] = doneMsgs[w]
        BY <2>2, <4>4
      <4>6. QED
        BY <2>1, <3>1, <4>3, <4>5 DEF PlaceOf, AtOwner, RequestsKept
    <3>7. QED
      BY <3>5, <3>6
  <2>8. QED
    BY <2>6, <2>7
<1>5. QED
  BY <1>4 DEF OnePlace

\* A served request moves the others of its channel up by one.
LEMMA TailPlaces ==
    ASSUME TypeOK, NEW c \in Sms \X Sms, chan[c] # <<>>,
           chan' = [chan EXCEPT ![c] = Tail(@)]
    PROVE  \A v \in Warps :
             /\ \A d \in Sms \X Sms, i \in 1..MaxChan :
                   d # c => (<<d, i>> \in RequestsOf(v)' <=> <<d, i>> \in RequestsOf(v))
             /\ \A i \in 1..MaxChan :
                   <<c, i>> \in RequestsOf(v)' <=> <<c, i + 1>> \in RequestsOf(v)
             /\ <<c, 1>> \in RequestsOf(v) <=>
                   Head(chan[c]).op = "WAIT_REG" /\ Head(chan[c]).warp = v
<1> DEFINE q == Tail(chan[c])
<1>1. /\ chan[c] \in Seq(Msg) /\ Len(chan[c]) <= MaxChan /\ MaxChan \in Nat /\ MaxChan >= 1
      /\ chan \in [Sms \X Sms -> Seq(Msg)]
  BY BoundAssumption DEF TypeOK
<1>2. /\ q \in Seq(Msg) /\ Len(q) = Len(chan[c]) - 1 /\ Len(q) \in Nat /\ Len(chan[c]) \in Nat
      /\ 1 <= Len(chan[c]) /\ Head(chan[c]) = chan[c][1]
  BY <1>1
<1>3. \A i \in 1..Len(q) : q[i] = chan[c][i + 1]
  BY <1>1, <1>2
<1> HIDE DEF q
<1>4. \A d \in Sms \X Sms : chan'[d] = IF d = c THEN q ELSE chan[d]
  BY <1>1 DEF q
<1>5. ASSUME NEW v \in Warps, NEW d \in Sms \X Sms, NEW i \in 1..(MaxChan + 1)
      PROVE  /\ <<d, i>> \in RequestsOf(v) <=> /\ i <= MaxChan /\ i <= Len(chan[d])
                                               /\ chan[d][i].op = "WAIT_REG" /\ chan[d][i].warp = v
             /\ <<d, i>> \in RequestsOf(v)' <=> /\ i <= MaxChan /\ i <= Len(chan'[d])
                                                /\ chan'[d][i].op = "WAIT_REG" /\ chan'[d][i].warp = v
  <2>1. i <= MaxChan <=> i \in 1..MaxChan
    BY <1>1
  <2>2. QED
    BY <2>1 DEF RequestsOf
<1>6. ASSUME NEW v \in Warps, NEW d \in Sms \X Sms, NEW i \in 1..MaxChan, d # c
      PROVE  <<d, i>> \in RequestsOf(v)' <=> <<d, i>> \in RequestsOf(v)
  <2>1. chan'[d] = chan[d]
    BY <1>4, <1>6
  <2>2. QED
    BY <2>1 DEF RequestsOf
<1>7. ASSUME NEW v \in Warps, NEW i \in 1..MaxChan
      PROVE  <<c, i>> \in RequestsOf(v)' <=> <<c, i + 1>> \in RequestsOf(v)
  <2>0. chan'[c] = q
    BY <1>4
  <2>1. /\ chan'[c] = q /\ i <= MaxChan /\ i \in Nat
        /\ i \in 1..(MaxChan + 1) /\ i + 1 \in 1..(MaxChan + 1)
    BY <1>1, <2>0
  <2>2. i <= Len(q) <=> i + 1 <= Len(chan[c])
    BY <1>2, <2>1
  <2>3. i <= Len(q) => q[i] = chan[c][i + 1] /\ i + 1 <= MaxChan
    BY <1>1, <1>2, <1>3, <2>1
  <2>4. QED
    BY <1>5, <2>1, <2>2, <2>3
<1>8. \A v \in Warps : <<c, 1>> \in RequestsOf(v) <=>
          Head(chan[c]).op = "WAIT_REG" /\ Head(chan[c]).warp = v
  BY <1>1, <1>2 DEF RequestsOf
<1>9. QED
  BY <1>6, <1>7, <1>8

\* A warp has no request left when its only one is served, and otherwise as many as
\* before.
LEMMA ServedPlaces ==
    ASSUME TypeOK, NEW c \in Sms \X Sms, chan[c] # <<>>,
           chan' = [chan EXCEPT ![c] = Tail(@)], NEW v \in Warps,
           RequestsOf(v) = {} \/ \E x : RequestsOf(v) = {x}
    PROVE  /\ Head(chan[c]).op = "WAIT_REG" /\ Head(chan[c]).warp = v => RequestsOf(v)' = {}
           /\ ~(Head(chan[c]).op = "WAIT_REG" /\ Head(chan[c]).warp = v) => RequestsKept(v)
<1> DEFINE R == RequestsOf(v)
           S == RequestsOf(v)'
           mine == Head(chan[c]).op = "WAIT_REG" /\ Head(chan[c]).warp = v
<1>1. /\ \A d \in Sms \X Sms, i \in 1..MaxChan : d # c => (<<d, i>> \in S <=> <<d, i>> \in R)
      /\ \A i \in 1..MaxChan : <<c, i>> \in S <=> <<c, i + 1>> \in R
      /\ <<c, 1>> \in R <=> mine
  BY TailPlaces
<1>2. /\ R \subseteq (Sms \X Sms) \X (1..MaxChan) /\ S \subseteq (Sms \X Sms) \X (1..MaxChan)
      /\ MaxChan \in Nat
  BY BoundAssumption DEF RequestsOf
<1>3. R = {} \/ \E x : R = {x}
  OBVIOUS
<1> HIDE DEF R, S, mine
<1>4. \A x \in (Sms \X Sms) \X (1..MaxChan) : \E d \in Sms \X Sms, i \in 1..MaxChan : x = <<d, i>>
  OBVIOUS
<1>5. CASE R = {}
  <2>1. S = {}
    BY <1>1, <1>2, <1>4, <1>5
  <2>2. QED
    BY <1>1, <1>5, <2>1 DEF R, S, mine, RequestsKept
<1>6. CASE R # {}
  <2>1. PICK d \in Sms \X Sms, i \in 1..MaxChan : R = {<<d, i>>}
    BY <1>2, <1>3, <1>4, <1>6
  <2>2. CASE d = c /\ i = 1
    <3>1. mine
      BY <1>1, <2>1, <2>2
    <3>2. \A j \in 1..MaxChan : <<c, j + 1>> \notin R
      BY <2>1, <2>2
    <3>3. S = {}
      BY <1>1, <1>2, <1>4, <2>1, <2>2, <3>2
    <3>4. QED
      BY <3>1, <3>3 DEF S, mine
  <2>3. CASE d = c /\ i # 1
    <3>1. ~mine
      BY <1>1, <2>1, <2>3
    <3>2. i - 1 \in 1..MaxChan /\ \A j \in 1..MaxChan : j + 1 = i <=> j = i - 1
      BY <1>2, <2>3
    <3>3. \A e \in Sms \X Sms, j \in 1..MaxChan : <<e, j>> \in S <=> <<e, j>> = <<c, i - 1>>
      BY <1>1, <2>1, <2>3, <3>2
    <3>4. S = {<<c, i - 1>>}
      BY <1>2, <1>4, <3>2, <3>3
    <3>5. QED
      BY <1>6, <3>1, <3>4 DEF R, S, mine, RequestsKept
  <2>4. CASE d # c
    <3>1. ~mine /\ \A j \in 1..MaxChan : <<c, j + 1>> \notin R
      BY <1>1, <2>1, <2>4
    <3>2. \A e \in Sms \X Sms, j \in 1..MaxChan : <<e, j>> \in S <=> <<e, j>> = <<d, i>>
      BY <1>1, <2>1, <2>4, <3>1
    <3>3. S = {<<d, i>>}
      BY <1>2, <1>4, <3>2
    <3>4. QED
      BY <1>6, <3>1, <3>3 DEF R, S, mine, RequestsKept
  <2>5. QED
    BY <2>2, <2>3, <2>4
<1>7. QED
  BY <1>5, <1>6

\* A served registration becomes a waiter of the owner or a response, never both; any
\* other request leaves the places of the remote waits to notify_remote_waiters.
LEMMA DeliverPlaces ==
    ASSUME TypeOK, WaitersKnown, OnePlace, NEW c \in Sms \X Sms, Deliver(c)
    PROVE  OnePlace'
<1>0. PICK m : m = Head(chan[c])
  OBVIOUS
<1>1. chan[c] # <<>> /\ chan' = [chan EXCEPT ![c] = Tail(@)] /\ remote' = remote
  BY DEF Deliver
<1>2. m \in Msg
  BY <1>0, <1>1, TailFacts
<1>3. /\ m.bar \in Bars
      /\ m.op = "WAIT_REG" => m.warp \in Warps /\ m.parity \in Parities
  BY <1>2 DEF Msg
<1>4. \A v \in Warps : PlaceOf(v) /\ (RequestsOf(v) = {} \/ \E x : RequestsOf(v) = {x})
  BY DEF OnePlace, PlaceOf, Nowhere, InRequest, AtOwner, InResponse
<1>5. \A v \in Warps :
          /\ m.op = "WAIT_REG" /\ m.warp = v => RequestsOf(v)' = {}
          /\ ~(m.op = "WAIT_REG" /\ m.warp = v) => RequestsKept(v)
  BY <1>0, <1>1, <1>4, ServedPlaces
<1>6. CASE m.op = "WAIT_REG"
  <2>0. PICK w, r : w = m.warp /\ r = [warp |-> m.warp, parity |-> m.parity]
    OBVIOUS
  <2>1. /\ w \in Warps /\ r \in [warp : {w}, parity : Parities]
        /\ m.op = "WAIT_REG" /\ m.warp = w
    BY <1>3, <1>6, <2>0
  <2>2. InRequest(w) /\ remote[w] /\ RequestsOf(w)' = {}
    <3>1. <<c, 1>> \in RequestsOf(w)
      BY <1>0, <1>1, <2>1, TailPlaces
    <3>2. QED
      BY <1>4, <1>5, <2>1, <3>1 DEF PlaceOf, Nowhere, InRequest, AtOwner, InResponse
  <2>3. RegisterRemoteWait(m)
    BY <1>0, <1>6 DEF Deliver
  <2>4. rwaiters \in [Bars -> SUBSET [warp : Warps, parity : Parities]] /\ doneMsgs \in [Warps -> Nat]
    BY DEF TypeOK
  <2>5. \A v \in Warps : \A a \in Bars, s \in [warp : {v}, parity : Parities] :
            /\ <<a, s>> \in WaitersOf(v) <=> s \in rwaiters[a]
            /\ <<a, s>> \in WaitersOf(v)' <=> s \in rwaiters'[a]
    BY DEF WaitersOf
  <2>6. \A v \in Warps : \A x \in WaitersOf(v) \cup WaitersOf(v)' :
            \E a \in Bars, s \in [warp : {v}, parity : Parities] : x = <<a, s>>
    BY DEF WaitersOf
  <2>7. CASE rwaiters' = [rwaiters EXCEPT ![m.bar] = @ \cup {r}] /\ doneMsgs' = doneMsgs
    <3>1. \A a \in Bars : rwaiters'[a] = IF a = m.bar THEN rwaiters[a] \cup {r} ELSE rwaiters[a]
      BY <1>3, <2>4, <2>7
    <3>2. WaitersOf(w)' = {<<m.bar, r>>}
      <4>1. WaitersOf(w) = {}
        BY <2>2 DEF InRequest
      <4>2. <<m.bar, r>> \in WaitersOf(w)'
        <5>1. m.bar \in Bars /\ r \in rwaiters'[m.bar]
          BY <1>3, <3>1
        <5>2. QED
          BY <2>1, <2>5, <5>1
      <4>3. ASSUME NEW x \in WaitersOf(w)' PROVE x = <<m.bar, r>>
        <5>1. PICK a \in Bars, s \in [warp : {w}, parity : Parities] : x = <<a, s>>
          BY <2>1, <2>6
        <5>2. s \in rwaiters'[a] /\ s \notin rwaiters[a]
          BY <2>1, <2>5, <4>1, <5>1
        <5>3. QED
          BY <3>1, <5>1, <5>2
      <4>4. QED
        BY <4>2, <4>3
    <3>3. ASSUME NEW v \in Warps, v # w PROVE WaitersOf(v)' = WaitersOf(v)
      <4>1. ASSUME NEW x \in WaitersOf(v) \cup WaitersOf(v)'
            PROVE  x \in WaitersOf(v)' <=> x \in WaitersOf(v)
        <5>1. PICK a \in Bars, s \in [warp : {v}, parity : Parities] : x = <<a, s>>
          BY <2>6
        <5>2. s # r
          BY <2>0, <3>3
        <5>3. s \in rwaiters'[a] <=> s \in rwaiters[a]
          BY <3>1, <5>2
        <5>4. QED
          BY <2>5, <5>1, <5>3
      <4>2. QED
        BY <4>1
    <3>4. ASSUME NEW v \in Warps PROVE PlaceOf(v)'
      <4>1. CASE v = w
        BY <1>1, <2>2, <2>7, <3>2, <4>1 DEF PlaceOf, InRequest, AtOwner
      <4>2. CASE v # w
        <5>1. WaitersOf(v)' = WaitersOf(v) /\ PlaceOf(v)
          BY <1>4, <3>3, <4>2
        <5>2. RequestsKept(v)
          BY <1>5, <2>1, <4>2
        <5>3. QED
          BY <1>1, <2>7, <5>1, <5>2 DEF PlaceOf, Nowhere, InRequest, AtOwner, InResponse, RequestsKept
      <4>3. QED
        BY <4>1, <4>2
    <3>5. QED
      BY <3>4 DEF OnePlace
  <2>8. CASE rwaiters' = rwaiters /\ doneMsgs' = [doneMsgs EXCEPT ![m.warp] = @ + 1]
    <3>1. \A v \in Warps : WaitersOf(v)' = WaitersOf(v)
      BY <2>8 DEF WaitersOf
    <3>2. doneMsgs'[w] = doneMsgs[w] + 1 /\ \A v \in Warps : v # w => doneMsgs'[v] = doneMsgs[v]
      BY <2>1, <2>4, <2>8
    <3>3. ASSUME NEW v \in Warps PROVE PlaceOf(v)'
      <4>1. CASE v = w
        <5>1. doneMsgs'[w] = 1 /\ WaitersOf(w) = {}
          BY <2>2, <3>2 DEF InRequest
        <5>2. QED
          BY <1>1, <2>2, <3>1, <4>1, <5>1 DEF PlaceOf, InResponse
      <4>2. CASE v # w
        <5>1. PlaceOf(v) /\ doneMsgs'[v] = doneMsgs[v]
          BY <1>4, <3>2, <4>2
        <5>2. RequestsKept(v)
          BY <1>5, <2>1, <4>2
        <5>3. QED
          BY <1>1, <3>1, <5>1, <5>2 DEF PlaceOf, Nowhere, InRequest, AtOwner, InResponse, RequestsKept
      <4>3. QED
        BY <4>1, <4>2
    <3>4. QED
      BY <3>3 DEF OnePlace
  <2>9. QED
    BY <2>0, <2>3, <2>7, <2>8 DEF RegisterRemoteWait
<1>7. CASE m.op # "WAIT_REG"
  <2>1. \A v \in Warps : RequestsKept(v)
    BY <1>5, <1>7
  <2>2. CASE \E p, x : PeerOp(m.bar, p, x)
    <3>1. NotifyRemote(m.bar)
      BY <2>2 DEF PeerOp
    <3>2. QED
      BY <1>1, <1>3, <2>1, <3>1, NotifyPlaces
  <2>3. CASE rwaiters' = rwaiters /\ doneMsgs' = doneMsgs
    BY <1>1, <2>1, <2>3, PlacesKept
  <2>4. QED
    BY <1>0, <1>7, <2>2, <2>3 DEF Deliver
<1>8. QED
  BY <1>6, <1>7

\* Nothing is waited for at first.
LEMMA InitRemote == Init => RemoteInv
<1> SUFFICES ASSUME Init PROVE RemoteInv
  OBVIOUS
<1>1. WaitingLocal /\ OneReason
  BY WaitersAssumption DEF Init, WaitingLocal, OneReason
<1>2. ASSUME NEW w \in Warps PROVE PlaceOf(w)
  <2>1. WaitersOf(w) = {}
    BY DEF Init, WaitersOf
  <2>2. \A c \in Sms \X Sms, i \in 1..MaxChan : ~(i <= Len(chan[c]))
    BY BoundAssumption DEF Init
  <2>3. RequestsOf(w) = {}
    BY <2>2 DEF RequestsOf
  <2>4. QED
    BY <2>1, <2>3 DEF Init, PlaceOf, Nowhere
<1>3. QED
  BY <1>1, <1>2 DEF RemoteInv, OnePlace

\* A step that leaves the remote side and the parked warps alone.
LEMMA RemoteStill ==
    ASSUME RemoteInv, WaitingLocal', rwaiters' = rwaiters, doneMsgs' = doneMsgs,
           remote' = remote, chan' = chan,
           \A v \in RemoteWaiters : park'[v] = park[v] /\ rel'[v] = rel[v] /\ (answered[v] => answered'[v])
    PROVE  RemoteInv'
<1>1. \A w \in Warps : RequestsKept(w)
  BY DEF RequestsKept, RequestsOf
<1>2. OnePlace'
  BY <1>1, PlacesKept DEF RemoteInv
<1>3. OneReason'
  BY DEF RemoteInv, OneReason
<1>4. QED
  BY <1>2, <1>3 DEF RemoteInv

\* An operation of a local warp.
LEMMA LocalOpRemote ==
    ASSUME WaitersSeparate, IndInv, RemoteInv, NEW w \in Warps, NEW b \in Bars,
           NEW p \in 0..(MaxCount + 1), NEW x, NEW h \in Nat, CanIssue(w), LocalOp(w, b, p, x, h)
    PROVE  RemoteInv'
<1>1. /\ Settle(b, p, x) /\ NotifyRemote(b) /\ Hold(w, h, ReleaseWarps(Released(b, p, x)))
      /\ remote' = remote /\ chan' = chan /\ answered' = answered
  BY DEF LocalOp
<1>2. TypeOK
  BY DEF IndInv
<1>3. WaitingLocal'
  <2>1. \A a \in Bars : waiting'[a] \subseteq waiting[a]
    BY <1>1, <1>2, SettleFacts
  <2>2. QED
    BY <2>1 DEF RemoteInv, WaitingLocal
<1>4. OneReason'
  <2>1. PICK r : r = ReleaseWarps(Released(b, p, x))
    OBVIOUS
  <2>2. r \in [Warps -> SUBSET (Nat \ {0})]
    BY <1>2, <2>1, ReleaseWarpsFacts
  <2>3. \A v \in RemoteWaiters : r[v] = rel[v]
    BY <1>2, <2>1, ReleasedElsewhere DEF RemoteInv
  <2>4. Hold(w, h, r)
    BY <1>1, <2>1
  <2>5. QED
    BY <1>1, <1>2, <2>2, <2>3, <2>4, HoldReason DEF RemoteInv
<1>5. OnePlace'
  <2>1. \A v \in Warps : RequestsKept(v)
    BY <1>1 DEF RequestsKept, RequestsOf
  <2>2. QED
    BY <1>1, <1>2, <2>1, NotifyPlaces DEF RemoteInv
<1>6. QED
  BY <1>3, <1>4, <1>5 DEF RemoteInv

\* An instruction that only sends requests to another SM and may hold its warp.
LEMMA SendRemote ==
    ASSUME WaitersSeparate, IndInv, RemoteInv, NEW w \in Warps, NEW b \in Bars, CanIssue(w),
           NEW msgs \in Seq(Msg), \A i \in 1..Len(msgs) : msgs[i].op # "WAIT_REG",
           Send(w, b, msgs), NEW h \in Nat, Hold(w, h, rel),
           UNCHANGED <<barVars, rwaiters, remote, doneMsgs, answered>>
    PROVE  RemoteInv'
<1>1. TypeOK /\ rel \in [Warps -> SUBSET (Nat \ {0})]
  BY DEF IndInv, TypeOK
<1>2. WaitingLocal'
  BY DEF RemoteInv, WaitingLocal, barVars
<1>3. OneReason'
  BY <1>1, HoldReason DEF RemoteInv
<1>4. OnePlace'
  <2>1. \A v \in Warps : RequestsKept(v)
    BY <1>1, SendPlaces
  <2>2. QED
    BY <2>1, PlacesKept DEF RemoteInv
<1>5. QED
  BY <1>2, <1>3, <1>4 DEF RemoteInv

\* mbarrier.arrive, here or by a request.
LEMMA ArriveRemote ==
    ASSUME WaitersSeparate, IndInv, RemoteInv, NEW w \in Warps, NEW b \in Bars,
           NEW n \in 1..MaxCount, Arrive(w, b, n)
    PROVE  RemoteInv'
<1> DEFINE msgs == <<[op |-> "ARRIVE", bar |-> b, n |-> n]>>
<1>1. TypeOK /\ n \in Nat /\ ArriveLatency \in Nat /\ CanIssue(w)
  BY LatencyAssumption DEF IndInv, Arrive
<1>2. CASE LocalOp(w, b, MissingAfter(b, n), tx[b], ArriveLatency)
  BY <1>1, <1>2, MissingAfterType, LocalOpRemote
<1>3. CASE /\ Send(w, b, msgs) /\ Hold(w, ArriveLatency, rel)
           /\ UNCHANGED <<barVars, rwaiters, waitVars, remote, doneMsgs, answered>>
  <2>1. msgs \in Seq(Msg) /\ \A i \in 1..Len(msgs) : msgs[i].op # "WAIT_REG"
    BY DEF Msg
  <2>2. QED
    BY <1>1, <1>3, <2>1, SendRemote
<1>4. QED
  BY <1>2, <1>3 DEF Arrive

\* arrive.expect_tx, here or by two requests.
LEMMA ArriveExpectTxRemote ==
    ASSUME WaitersSeparate, IndInv, RemoteInv, NEW w \in Warps, NEW b \in Bars,
           NEW e \in 0..MaxTx, ArriveExpectTx(w, b, e)
    PROVE  RemoteInv'
<1> DEFINE msgs == <<[op |-> "EXPECT_TX", bar |-> b, n |-> e], [op |-> "ARRIVE", bar |-> b, n |-> 1]>>
<1>1. TypeOK /\ 1 \in Nat /\ 1 \in 1..MaxCount /\ ExpectHold(e) \in Nat /\ CanIssue(w)
  BY LatencyAssumption, BoundAssumption DEF IndInv, ExpectHold, ArriveExpectTx
<1>2. CASE LocalOp(w, b, MissingAfter(b, 1), tx[b] + e, ExpectHold(e))
  BY <1>1, <1>2, MissingAfterType, LocalOpRemote
<1>3. CASE /\ Send(w, b, msgs) /\ Hold(w, ExpectHold(e), rel)
           /\ UNCHANGED <<barVars, rwaiters, waitVars, remote, doneMsgs, answered>>
  <2>1. msgs \in Seq(Msg) /\ \A i \in 1..Len(msgs) : msgs[i].op # "WAIT_REG"
    BY <1>1 DEF Msg
  <2>2. QED
    BY <1>1, <1>3, <2>1, SendRemote
<1>4. QED
  BY <1>2, <1>3 DEF ArriveExpectTx

\* complete_tx by an instruction, here or by a request.
LEMMA CompleteTxRemote ==
    ASSUME WaitersSeparate, IndInv, RemoteInv, NEW w \in Warps, NEW b \in Bars,
           NEW n \in 1..MaxTx, CompleteTxInst(w, b, n)
    PROVE  RemoteInv'
<1> DEFINE msgs == <<[op |-> "COMPLETE_TX", bar |-> b, n |-> n]>>
<1>1. TypeOK /\ n \in 0..MaxTx /\ 0 \in Nat /\ CanIssue(w) /\ 1 \in Nat
  BY BoundAssumption DEF IndInv, CompleteTxInst
<1>2. CASE LocalOp(w, b, pending[b], tx[b] - n, 0)
  BY <1>1, <1>2, MissingAfterType, LocalOpRemote
<1>3. CASE /\ Send(w, b, msgs)
           /\ UNCHANGED <<barVars, rwaiters, waitVars, park, rel, remote, doneMsgs, answered>>
  <2>1. msgs \in Seq(Msg) /\ \A i \in 1..Len(msgs) : msgs[i].op # "WAIT_REG"
    BY <1>1 DEF Msg
  <2>2. Hold(w, 0, rel)
    BY <1>3 DEF Hold
  <2>3. QED
    BY <1>1, <1>3, <2>1, <2>2, SendRemote
<1>4. QED
  BY <1>2, <1>3 DEF CompleteTxInst

\* expect_tx, here or by a request.
LEMMA ExpectTxRemote ==
    ASSUME WaitersSeparate, IndInv, RemoteInv, NEW w \in Warps, NEW b \in Bars,
           NEW e \in 1..MaxTx, ExpectTx(w, b, e)
    PROVE  RemoteInv'
<1> DEFINE msgs == <<[op |-> "EXPECT_TX", bar |-> b, n |-> e]>>
<1>1. TypeOK /\ e \in 0..MaxTx /\ 0 \in Nat /\ CanIssue(w)
  BY BoundAssumption DEF IndInv, ExpectTx
<1>2. UNCHANGED <<rwaiters, park, rel, remote, doneMsgs, answered>>
  BY DEF ExpectTx
<1>3. CASE Expect(b, e) /\ UNCHANGED chan
  <2>1. WaitingLocal'
    BY <1>3 DEF RemoteInv, WaitingLocal, Expect
  <2>2. QED
    BY <1>2, <1>3, <2>1, RemoteStill
<1>4. CASE Send(w, b, msgs) /\ UNCHANGED barVars
  <2>1. msgs \in Seq(Msg) /\ \A i \in 1..Len(msgs) : msgs[i].op # "WAIT_REG"
    BY <1>1 DEF Msg
  <2>2. Hold(w, 0, rel)
    BY <1>2 DEF Hold
  <2>3. QED
    BY <1>1, <1>2, <1>4, <2>1, <2>2, SendRemote
<1>5. QED
  BY <1>3, <1>4 DEF ExpectTx

\* A barrier is initialised or erased only when no remote wait is stored there.
LEMMA LifetimeRemote ==
    ASSUME IndInv, RemoteInv,
           \/ \E w \in Warps, b \in Bars : (\E n \in 1..MaxCount : InitBar(w, b, n)) \/ Inval(w, b)
           \/ \E s \in Sms : ReleaseCta(s)
    PROVE  RemoteInv'
<1>1. UNCHANGED <<park, rel, remote, chan, doneMsgs, answered>>
  BY DEF InitBar, Inval, ReleaseCta
<1>2. TypeOK
  BY DEF IndInv
<1>3. waiting' = waiting /\ rwaiters' = rwaiters
  <2>1. ASSUME NEW bs \in SUBSET Bars, \A b \in bs : Quiescent(b), Erase(bs)
        PROVE  waiting' = waiting /\ rwaiters' = rwaiters
    BY <1>2, <2>1 DEF Erase, TypeOK, Quiescent
  <2>2. ASSUME NEW b \in Bars, Quiescent(b), Erase({b})
        PROVE  waiting' = waiting /\ rwaiters' = rwaiters
    <3>1. {b} \in SUBSET Bars /\ \A a \in {b} : Quiescent(a)
      BY <2>2
    <3>2. QED
      BY <2>1, <2>2, <3>1
  <2>3. ASSUME NEW s \in Sms, ReleaseCta(s)
        PROVE  waiting' = waiting /\ rwaiters' = rwaiters
    <3>1. PICK bs : bs = {b \in Bars : Home[b] = s /\ exists[b]}
      OBVIOUS
    <3>2. bs \in SUBSET Bars /\ (\A b \in bs : Quiescent(b)) /\ Erase(bs)
      BY <2>3, <3>1 DEF ReleaseCta
    <3>3. QED
      BY <2>1, <3>2
  <2>4. QED
    BY <2>2, <2>3 DEF InitBar, Inval
<1>4. WaitingLocal'
  BY <1>3 DEF RemoteInv, WaitingLocal
<1>5. QED
  BY <1>1, <1>3, <1>4, RemoteStill

\* The TMA unit and asynchronous arrivals wake local waiters only.
LEMMA AsyncRemote ==
    ASSUME IndInv, RemoteInv, NEW b \in Bars,
           (\E n \in 1..MaxTx : TmaComplete(b, n)) \/ AsyncArrive(b) \/ PrepareAsync(b)
    PROVE  RemoteInv'
<1>1. TypeOK /\ MissingAfter(b, 1) \in 0..(MaxCount + 1) /\ pending[b] \in 0..(MaxCount + 1)
  BY MissingAfterType DEF IndInv
<1>2. UNCHANGED <<rwaiters, park, rel, remote, chan, doneMsgs, answered>>
  BY DEF TmaComplete, AsyncArrive, PrepareAsync, AsyncOp
<1>3. \A a \in Bars : waiting'[a] \subseteq waiting[a]
  <2>1. CASE \E n \in 1..MaxTx : TmaComplete(b, n)
    BY <1>1, <2>1, SettleFacts DEF TmaComplete, AsyncOp
  <2>2. CASE AsyncArrive(b)
    BY <1>1, <2>2, SettleFacts DEF AsyncArrive, AsyncOp
  <2>3. CASE PrepareAsync(b)
    BY <2>3 DEF PrepareAsync
  <2>4. QED
    BY <2>1, <2>2, <2>3
<1>4. WaitingLocal'
  BY <1>3 DEF RemoteInv, WaitingLocal
<1>5. QED
  BY <1>2, <1>4, RemoteStill

\* What a request of another SM does to the remote waits.
LEMMA DeliverRemote ==
    ASSUME WaitersSeparate, IndInv, RemoteInv, NEW c \in Sms \X Sms, Deliver(c)
    PROVE  RemoteInv'
<1>0. PICK m : m = Head(chan[c])
  OBVIOUS
<1>1. TypeOK /\ WaitersKnown
  BY DEF IndInv
<1>2. /\ chan[c] # <<>> /\ chan' = [chan EXCEPT ![c] = Tail(@)]
      /\ UNCHANGED <<park, remote, answered>>
  BY DEF Deliver
<1>3. m \in Msg
  BY <1>0, <1>1, <1>2, TailFacts
<1>4. /\ m.bar \in Bars
      /\ m.op = "ARRIVE" => m.n \in Nat
  BY <1>3 DEF Msg
<1>5. /\ \A a \in Bars : waiting'[a] \subseteq waiting[a]
      /\ \A v \in RemoteWaiters : rel'[v] = rel[v]
  <2>1. ASSUME NEW p \in 0..(MaxCount + 1), NEW x, PeerOp(m.bar, p, x)
        PROVE  /\ \A a \in Bars : waiting'[a] \subseteq waiting[a]
               /\ \A v \in RemoteWaiters : rel'[v] = rel[v]
    <3>1. Settle(m.bar, p, x) /\ rel' = ReleaseWarps(Released(m.bar, p, x))
      BY <2>1 DEF PeerOp
    <3>2. \A a \in Bars : waiting'[a] \subseteq waiting[a]
      BY <1>1, <1>4, <3>1, SettleFacts
    <3>3. QED
      BY <1>1, <1>4, <3>1, <3>2, ReleasedElsewhere DEF RemoteInv
  <2>2. CASE m.op = "ARRIVE" /\ PeerOp(m.bar, MissingAfter(m.bar, m.n), tx[m.bar])
    BY <1>1, <1>4, <2>1, <2>2, MissingAfterType
  <2>3. CASE m.op = "COMPLETE_TX" /\ PeerOp(m.bar, pending[m.bar], tx[m.bar] - m.n)
    <3>1. pending[m.bar] \in 0..(MaxCount + 1)
      BY <1>1, <1>4 DEF TypeOK
    <3>2. QED
      BY <2>1, <2>3, <3>1
  <2>4. CASE waiting' = waiting /\ rel' = rel
    BY <2>4
  <2>5. QED
    BY <1>0, <2>2, <2>3, <2>4 DEF Deliver, Expect, RegisterRemoteWait, barVars
<1>6. WaitingLocal'
  BY <1>5 DEF RemoteInv, WaitingLocal
<1>7. OneReason'
  BY <1>2, <1>5 DEF RemoteInv, OneReason
<1>8. OnePlace'
  BY <1>1, DeliverPlaces DEF RemoteInv
<1>9. QED
  BY <1>6, <1>7, <1>8 DEF RemoteInv

\* A local try_wait parks a warp that does not wait on other SMs.
LEMMA TryWaitRemoteInv ==
    ASSUME WaitersSeparate, IndInv, RemoteInv, NEW w \in Warps, NEW bs \in SUBSET LanesOf(w),
           NEW q \in [bs -> [parity : Parities, hint : Hints \cup {NoHint}]], TryWait(w, q)
    PROVE  RemoteInv'
<1>1. w \in LocalWaiters /\ UNCHANGED <<rwaiters, rel, remote, chan, doneMsgs>>
  BY DEF TryWait
<1>2. TypeOK /\ RemoteWaiters \subseteq Warps
  BY WaitersAssumption DEF IndInv
<1>3. \A b \in Bars : waiting'[b] \subseteq waiting[b] \cup {w}
  <2>1. CASE UNCHANGED <<waiting, waitVars, park>>
    BY <2>1
  <2>2. CASE ~UNCHANGED <<waiting, waitVars, park>>
    <3>1. PICK S : waiting' = [b \in Bars |-> IF b \in S THEN waiting[b] \cup {w} ELSE waiting[b]]
      BY <2>2 DEF TryWait
    <3>2. QED
      BY <3>1
  <2>3. QED
    BY <2>1, <2>2
<1>4. \A v \in RemoteWaiters : v # w /\ park'[v] = park[v] /\ answered'[v] = answered[v]
  <2>1. \A v \in RemoteWaiters : v # w
    BY <1>1 DEF WaitersSeparate
  <2>2. park' = park \/ park' = [park EXCEPT ![w] = "mbar"]
    BY DEF TryWait
  <2>3. \E a : answered' = [answered EXCEPT ![w] = a]
    BY DEF TryWait
  <2>4. park \in [Warps -> {"none", "mbar", "other"}] /\ answered \in [Warps -> BOOLEAN]
    BY <1>2 DEF TypeOK
  <2>5. QED
    BY <1>2, <2>1, <2>2, <2>3, <2>4
<1>5. WaitingLocal'
  BY <1>1, <1>3 DEF RemoteInv, WaitingLocal
<1>6. QED
  BY <1>1, <1>4, <1>5, RemoteStill

\* A registration that is sent is the only request of its warp.
LEMMA RegisterPlaces ==
    ASSUME TypeOK, NEW w \in Warps, NEW b \in Bars, NEW parity \in Parities,
           Send(w, b, <<[op |-> "WAIT_REG", bar |-> b, warp |-> w, parity |-> parity]>>)
    PROVE  /\ \A v \in Warps \ {w} : RequestsKept(v)
           /\ RequestsOf(w) = {} => \E x : RequestsOf(w)' = {x}
<1>0. PICK c, m, q : /\ c = <<Home[w], Home[b]>>
                     /\ m = [op |-> "WAIT_REG", bar |-> b, warp |-> w, parity |-> parity]
                     /\ q = chan[c] \o <<m>>
  OBVIOUS
<1>1. c \in Sms \X Sms /\ Len(chan[c]) + 1 <= MaxChan /\ chan' = [chan EXCEPT ![c] = q]
  BY <1>0, HomeAssumption DEF Send
<1>2. /\ chan \in [Sms \X Sms -> Seq(Msg)] /\ chan[c] \in Seq(Msg) /\ m \in Msg
      /\ MaxChan \in Nat
  BY <1>0, <1>1, BoundAssumption DEF TypeOK, Msg
<1>3. PICK n \in Nat : n = Len(chan[c])
  BY <1>2
<1>4. /\ Len(q) = n + 1 /\ q[n + 1] = m /\ \A i \in 1..n : q[i] = chan[c][i]
      /\ n + 1 \in 1..MaxChan
  BY <1>0, <1>1, <1>2, <1>3
<1>5. \A d \in Sms \X Sms : chan'[d] = IF d = c THEN q ELSE chan[d]
  BY <1>1, <1>2
<1>6. m.op = "WAIT_REG" /\ m.warp = w
  BY <1>0
<1>7. ASSUME NEW v \in Warps, NEW d \in Sms \X Sms, NEW i \in 1..MaxChan
      PROVE  <<d, i>> \in RequestsOf(v)' <=>
                <<d, i>> \in RequestsOf(v) \/ (v = w /\ <<d, i>> = <<c, n + 1>>)
  <2>1. /\ <<d, i>> \in RequestsOf(v) <=>
              i <= Len(chan[d]) /\ chan[d][i].op = "WAIT_REG" /\ chan[d][i].warp = v
        /\ <<d, i>> \in RequestsOf(v)' <=>
              i <= Len(chan'[d]) /\ chan'[d][i].op = "WAIT_REG" /\ chan'[d][i].warp = v
    BY DEF RequestsOf
  <2>2. CASE d = c /\ i = n + 1
    BY <1>3, <1>4, <1>5, <1>6, <2>1, <2>2
  <2>3. CASE d = c /\ i # n + 1
    <3>1. chan'[d] = q /\ Len(chan[d]) = n
      BY <1>3, <1>5, <2>3
    <3>2. i <= Len(q) <=> i <= n
      BY <1>4, <2>3
    <3>3. i <= n => q[i] = chan[d][i]
      BY <1>4, <2>3
    <3>4. QED
      BY <2>1, <2>3, <3>1, <3>2, <3>3
  <2>4. CASE d # c
    BY <1>5, <2>1, <2>4
  <2>5. QED
    BY <2>2, <2>3, <2>4
<1>8. \A v \in Warps : /\ RequestsOf(v) \in SUBSET ((Sms \X Sms) \X (1..MaxChan))
                       /\ RequestsOf(v)' \in SUBSET ((Sms \X Sms) \X (1..MaxChan))
  BY DEF RequestsOf
<1>9. ASSUME NEW v \in Warps \ {w} PROVE RequestsKept(v)
  <2>1. \A d \in Sms \X Sms, i \in 1..MaxChan : <<d, i>> \in RequestsOf(v)' <=> <<d, i>> \in RequestsOf(v)
    BY <1>7
  <2>2. RequestsOf(v)' = RequestsOf(v)
    BY <1>8, <2>1, SameRequests
  <2>3. QED
    BY <2>2 DEF RequestsKept
<1>10. ASSUME RequestsOf(w) = {} PROVE RequestsOf(w)' = {<<c, n + 1>>}
  <2>1. {<<c, n + 1>>} \in SUBSET ((Sms \X Sms) \X (1..MaxChan))
    BY <1>1, <1>4
  <2>2. \A d \in Sms \X Sms, i \in 1..MaxChan :
            <<d, i>> \in RequestsOf(w)' <=> <<d, i>> \in {<<c, n + 1>>}
    BY <1>7, <1>10
  <2>3. RequestsOf(w)' \in SUBSET ((Sms \X Sms) \X (1..MaxChan))
    BY <1>8
  <2>4. QED
    BY <2>1, <2>2, <2>3, SameRequests
<1>11. QED
  BY <1>9, <1>10

\* A remote try_wait: the warp could issue, so it had no remote wait open.
LEMMA TryWaitOtherRemote ==
    ASSUME IndInv, RemoteInv, NEW w \in Warps, NEW b \in Bars, NEW parity \in Parities,
           TryWaitRemote(w, b, parity)
    PROVE  RemoteInv'
<1>1. /\ CanIssue(w) /\ w \in RemoteWaiters
      /\ remote' = [remote EXCEPT ![w] = TRUE]
      /\ park' = [park EXCEPT ![w] = "mbar"]
      /\ answered' = [answered EXCEPT ![w] = FALSE]
      /\ UNCHANGED <<barVars, rwaiters, rel, doneMsgs>>
  BY DEF TryWaitRemote
<1>2. TypeOK
  BY DEF IndInv
<1>3. ~remote[w] /\ rel[w] = {}
  BY <1>1 DEF RemoteInv, OneReason, CanIssue
<1>4. /\ remote'[w] /\ park'[w] = "mbar"
      /\ \A v \in Warps \ {w} : remote'[v] = remote[v] /\ park'[v] = park[v] /\ answered'[v] = answered[v]
  BY <1>1, <1>2 DEF TypeOK
<1>5. WaitingLocal'
  BY <1>1 DEF RemoteInv, WaitingLocal, barVars
<1>6. OneReason'
  BY <1>1, <1>3, <1>4, WaitersAssumption DEF RemoteInv, OneReason
<1>7. ASSUME NEW v \in Warps PROVE PlaceOf(v)'
  <2>1. PlaceOf(v) /\ WaitersOf(v)' = WaitersOf(v) /\ doneMsgs'[v] = doneMsgs[v]
    BY <1>1 DEF RemoteInv, OnePlace, WaitersOf
  <2>2. /\ v # w => RequestsKept(v)
        /\ v = w /\ RequestsOf(v) = {} => \E x : RequestsOf(v)' = {x}
    BY <1>2, RegisterPlaces DEF TryWaitRemote
  <2>3. CASE v = w
    BY <1>3, <1>4, <2>1, <2>2, <2>3 DEF PlaceOf, Nowhere, InRequest
  <2>4. CASE v # w
    BY <1>4, <2>1, <2>2, <2>4 DEF PlaceOf, Nowhere, InRequest, AtOwner, InResponse, RequestsKept
  <2>5. QED
    BY <2>3, <2>4
<1>8. QED
  BY <1>5, <1>6, <1>7 DEF RemoteInv, OnePlace

\* WAIT_DONE closes the remote wait and leaves at most the release of its warp.
LEMMA WaitDoneRemote ==
    ASSUME IndInv, RemoteInv, NEW w \in Warps, WaitDone(w)
    PROVE  RemoteInv'
<1>1. /\ doneMsgs[w] > 0
      /\ doneMsgs' = [doneMsgs EXCEPT ![w] = doneMsgs[w] - 1]
      /\ remote' = [remote EXCEPT ![w] = FALSE]
      /\ answered' = [answered EXCEPT ![w] = answered[w] \/ remote[w]]
      /\ UNCHANGED <<barVars, rwaiters, chan>>
  BY DEF WaitDone
<1>2. TypeOK /\ TryWaitLatency \in Nat
  BY LatencyAssumption DEF IndInv
<1>3. remote[w] /\ InResponse(w)
  <2>1. PlaceOf(w)
    BY DEF RemoteInv, OnePlace
  <2>2. QED
    BY <1>1, <2>1 DEF PlaceOf, Nowhere, InRequest, AtOwner
<1>4. w \in RemoteWaiters /\ RemoteWaiters \subseteq Warps
  BY <1>3, WaitersAssumption DEF IndInv, WaitersKnown
<1>5. park[w] = "mbar" /\ rel[w] = {}
  BY <1>3, <1>4 DEF RemoteInv, OneReason
<1>6. /\ ~remote'[w] /\ doneMsgs'[w] = 0
      /\ \A v \in Warps \ {w} : remote'[v] = remote[v] /\ doneMsgs'[v] = doneMsgs[v]
  BY <1>1, <1>2, <1>3 DEF TypeOK, InResponse
<1>7. answered'[w] /\ \A v \in Warps \ {w} : answered'[v] = answered[v]
  <2>1. answered \in [Warps -> BOOLEAN]
    BY <1>2 DEF TypeOK
  <2>2. answered'[w] = (answered[w] \/ remote[w])
    BY <1>1, <2>1, Zenon
  <2>3. \A v \in Warps \ {w} : answered'[v] = answered[v]
    BY <1>1, <2>1, Zenon
  <2>4. QED
    BY <1>3, <2>2, <2>3
<1>8. /\ \A v \in Warps \ {w} : park'[v] = park[v] /\ rel'[v] = rel[v]
      /\ rel'[w] # {} => park'[w] = "mbar" /\ \E r \in Nat \ {0} : rel'[w] = {r}
  <2>1. CASE TryWaitLatency = 0
    BY <1>2, <1>5, <2>1 DEF WaitDone, TypeOK
  <2>2. CASE TryWaitLatency # 0
    <3>1. rel' = ReleaseWarps({w}) /\ park' = park /\ TryWaitLatency \in Nat \ {0} /\ TryWaitLatency > 0
      BY <1>2, <1>5, <2>2 DEF WaitDone
    <3>2. rel'[w] = {TryWaitLatency}
      BY <1>5, <3>1 DEF ReleaseWarps
    <3>3. \A v \in Warps \ {w} : rel'[v] = rel[v]
      BY <3>1 DEF ReleaseWarps
    <3>4. QED
      BY <1>5, <3>1, <3>2, <3>3
  <2>3. QED
    BY <2>1, <2>2
<1>9. WaitingLocal'
  BY <1>1 DEF RemoteInv, WaitingLocal, barVars
<1>10. OneReason'
  BY <1>4, <1>6, <1>7, <1>8 DEF RemoteInv, OneReason
<1>11. ASSUME NEW v \in Warps PROVE PlaceOf(v)'
  <2>1. PlaceOf(v) /\ WaitersOf(v)' = WaitersOf(v) /\ RequestsOf(v)' = RequestsOf(v)
    BY <1>1 DEF RemoteInv, OnePlace, WaitersOf, RequestsOf
  <2>2. CASE v = w
    BY <1>3, <1>6, <2>1, <2>2 DEF PlaceOf, Nowhere, InResponse
  <2>3. CASE v # w
    BY <1>6, <2>1, <2>3 DEF PlaceOf, Nowhere, InRequest, AtOwner, InResponse
  <2>4. QED
    BY <2>2, <2>3
<1>12. QED
  BY <1>9, <1>10, <1>11 DEF RemoteInv, OnePlace

\* Parking for another reason is possible only without a remote wait or a release.
LEMMA ParkOtherRemote ==
    ASSUME IndInv, RemoteInv, NEW w \in Warps, ParkOther(w) \/ UnparkOther(w)
    PROVE  RemoteInv'
<1>1. /\ park[w] \in {"none", "other"}
      /\ UNCHANGED <<barVars, rwaiters, rel, remote, chan, doneMsgs, answered>>
  BY DEF ParkOther, UnparkOther, CanIssue
<1>2. \A v \in Warps \ {w} : park'[v] = park[v]
  BY DEF ParkOther, UnparkOther, IndInv, TypeOK
<1>3. WaitingLocal'
  BY <1>1 DEF RemoteInv, WaitingLocal, barVars
<1>4. OneReason'
  BY <1>1, <1>2, WaitersAssumption DEF RemoteInv, OneReason
<1>5. OnePlace'
  <2>1. \A v \in Warps : RequestsKept(v)
    BY <1>1 DEF RequestsKept, RequestsOf
  <2>2. QED
    BY <1>1, <2>1, PlacesKept DEF RemoteInv
<1>6. QED
  BY <1>3, <1>4, <1>5 DEF RemoteInv

\* In a cycle the release of a warp that waits on other SMs comes nearer or ends its hold.
LEMMA CycleRemote ==
    ASSUME WaitersSeparate, IndInv, RemoteInv, Cycle
    PROVE  RemoteInv'
<1>1. TypeOK /\ \A v \in Warps : Waits(v) => v \in LocalWaiters
  BY DEF IndInv, WaitersKnown
<1>2. UNCHANGED <<rwaiters, remote, chan, doneMsgs>>
  BY DEF Cycle
<1>3. WaitingLocal'
  <2>1. \A v \in Warps, b \in Bars : b \in Reregisters(v) => v \in LocalWaiters
    BY <1>1 DEF Reregisters, SleepsOn, Due
  <2>2. waiting' = [b \in Bars |-> {w \in waiting[b] : b \notin Cancels(w)}
                                   \cup {w \in Warps : b \in Reregisters(w)}]
    BY DEF Cycle
  <2>3. QED
    BY <2>1, <2>2 DEF RemoteInv, WaitingLocal
<1>4. ASSUME NEW v \in RemoteWaiters
      PROVE  /\ remote'[v] => park'[v] = "mbar" /\ rel'[v] = {}
             /\ rel'[v] # {} => park'[v] = "mbar" /\ \E r \in Nat \ {0} : rel'[v] = {r}
             /\ ~answered'[v] => remote'[v]
  <2>1. v \in Warps /\ ~Waits(v)
    BY <1>1, WaitersAssumption DEF WaitersSeparate
  <2>2. ~Finishes(v) /\ (ReleaseTakes(v) <=> 1 \in rel[v] /\ park[v] = "mbar")
    BY <2>1 DEF Finishes, Due, ReleaseTakes
  <2>3. /\ park'[v] = IF 1 \in rel[v] /\ park[v] = "mbar" THEN "none" ELSE park[v]
        /\ rel'[v] = {r - 1 : r \in rel[v] \ {1}}
        /\ answered[v] => answered'[v]
    BY <2>1, <2>2 DEF Cycle
  <2>4. /\ remote[v] => park[v] = "mbar" /\ rel[v] = {}
        /\ rel[v] # {} => park[v] = "mbar" /\ \E r \in Nat \ {0} : rel[v] = {r}
        /\ ~answered[v] => remote[v]
    BY DEF RemoteInv, OneReason
  <2>5. CASE rel[v] = {}
    BY <1>2, <2>3, <2>4, <2>5
  <2>6. CASE rel[v] # {}
    <3>1. PICK r \in Nat \ {0} : rel[v] = {r}
      BY <2>4, <2>6
    <3>2. CASE r = 1
      BY <1>2, <2>3, <2>4, <3>1, <3>2
    <3>3. CASE r # 1
      <4>1. rel'[v] = {r - 1} /\ r - 1 \in Nat \ {0} /\ park'[v] = park[v]
        BY <2>3, <3>1, <3>3
      <4>2. QED
        BY <1>2, <2>3, <2>4, <2>6, <4>1
    <3>4. QED
      BY <3>2, <3>3
  <2>7. QED
    BY <2>5, <2>6
<1>5. OneReason'
  BY <1>4 DEF OneReason
<1>6. OnePlace'
  <2>1. \A v \in Warps : RequestsKept(v)
    BY <1>2 DEF RequestsKept, RequestsOf
  <2>2. QED
    BY <1>2, <2>1, PlacesKept DEF RemoteInv
<1>7. QED
  BY <1>3, <1>5, <1>6 DEF RemoteInv

\* Every step keeps the account of the remote waits.
LEMMA NextRemote == ASSUME WaitersSeparate PROVE IndInv /\ RemoteInv /\ [Next]_vars => RemoteInv'
<1> SUFFICES ASSUME IndInv, RemoteInv, [Next]_vars PROVE RemoteInv'
  OBVIOUS
<1>0. WaitersSeparate
  OBVIOUS
<1>1. CASE UNCHANGED vars
  <2>1. WaitingLocal'
    BY <1>1 DEF RemoteInv, WaitingLocal, vars, barVars
  <2>2. QED
    BY <1>1, <2>1, RemoteStill DEF vars
<1>2. CASE \E w \in Warps, b \in Bars :
        \/ \E n \in 1..MaxCount : InitBar(w, b, n) \/ Arrive(w, b, n)
        \/ Inval(w, b)
        \/ \E e \in 0..MaxTx : ArriveExpectTx(w, b, e)
        \/ \E e \in 1..MaxTx : ExpectTx(w, b, e) \/ CompleteTxInst(w, b, e)
        \/ \E parity \in Parities : TryWaitRemote(w, b, parity)
  BY <1>0, <1>2, LifetimeRemote, ArriveRemote, ArriveExpectTxRemote, ExpectTxRemote,
     CompleteTxRemote, TryWaitOtherRemote
<1>3. CASE \E w \in Warps : \E bs \in (SUBSET LanesOf(w)) \ {{}} :
            \E q \in [bs -> [parity : Parities, hint : Hints \cup {NoHint}]] : TryWait(w, q)
  <2>1. ASSUME NEW w \in Warps, NEW bs \in (SUBSET LanesOf(w)) \ {{}},
               NEW q \in [bs -> [parity : Parities, hint : Hints \cup {NoHint}]], TryWait(w, q)
        PROVE  RemoteInv'
    <3>1. bs \in SUBSET LanesOf(w)
      OBVIOUS
    <3>2. QED
      BY <1>0, <2>1, <3>1, TryWaitRemoteInv
  <2>2. QED
    BY <1>3, <2>1
<1>4. CASE \E s \in Sms : ReleaseCta(s)
  BY <1>4, LifetimeRemote
<1>5. CASE \E b \in Bars : (\E n \in 1..MaxTx : TmaComplete(b, n)) \/ AsyncArrive(b) \/ PrepareAsync(b)
  BY <1>5, AsyncRemote
<1>6. CASE \E c \in Sms \X Sms : Deliver(c)
  BY <1>0, <1>6, DeliverRemote
<1>7. CASE \E w \in Warps : WaitDone(w) \/ ParkOther(w) \/ UnparkOther(w)
  BY <1>7, WaitDoneRemote, ParkOtherRemote
<1>8. CASE Cycle
  BY <1>0, <1>8, CycleRemote
<1>9. QED
  BY <1>1, <1>2, <1>3, <1>4, <1>5, <1>6, <1>7, <1>8 DEF Next

-----------------------------------------------------------------------------
(* The theorems. *)

\* The inductive invariant holds in every run, whatever the placement of warps and
\* barriers and whatever the latencies.
THEOREM Invariance == Spec => []IndInv
  BY InitInd, NextInd, PTL DEF Spec

\* No oversleeping: notifications, partial answers and re-registrations never let a
\* pending try_wait miss the earliest deadline of its lanes.
THEOREM NobodyOversleeps == Spec => []NeverOversleeps
<1>1. IndInv => NeverOversleeps
  BY DEF IndInv
<1>2. QED
  BY <1>1, Invariance, PTL

\* try_wait answers true only for a phase that has completed since the wait began, or
\* had before it, and false only when its deadline has passed.
THEOREM AnswersAreJustified == Spec => []AnswersJustified
<1>1. IndInv => AnswersJustified
  BY DEF IndInv
<1>2. QED
  BY <1>1, Invariance, PTL

\* No lost notification on one SM: a suspended lane is registered at a barrier whose
\* phase is not over or is about to be rechecked, and who is registered still waits.
THEOREM RegistrationsAreExact == ASSUME AllLocal PROVE Spec => []RegistrationsExact
<1>1. IndInv => RegistrationsExact
  <2>1. IndInv => WaiterWillHear
    BY AllLocal DEF IndInv
  <2>2. IndInv => RegisteredIsLive
    BY AllLocal DEF IndInv, TypeOK, Registered, Undisturbed, RegisteredIsLive
  <2>3. QED
    BY <2>1, <2>2 DEF RegistrationsExact
<1>2. QED
  BY <1>1, Invariance, PTL

\* Across SMs the registrations never dangle: as long as releases take time, who is
\* registered at a barrier has a live wait on it.
THEOREM RegistrationsAreLive == ASSUME TryWaitLatency > 0 PROVE Spec => []RegisteredIsLive
<1>1. IndInv => RegisteredIsLive
  BY DEF IndInv, TypeOK, Registered, Undisturbed, RegisteredIsLive
<1>2. QED
  BY <1>1, Invariance, PTL

\* Nobody is parked for good, remote waiters included: a parked warp has a pending wait,
\* an open remote wait or a scheduled release.
THEOREM ParkedWillBeReleased == Spec => []ParkedHasReleaser
<1>1. IndInv => ParkedHasReleaser
  BY DEF IndInv
<1>2. QED
  BY <1>1, Invariance, PTL

\* The account of the remote waits holds in every run, when each warp's code waits on
\* barriers of its own SM or on other SMs' barriers and not on both.
THEOREM RemoteInvariance == ASSUME WaitersSeparate PROVE Spec => []RemoteInv
<1>1. IndInv /\ RemoteInv /\ [Next]_vars => RemoteInv'
  BY WaitersSeparate, NextRemote
<1>2. QED
  BY <1>1, InitRemote, Invariance, PTL DEF Spec

\* A remote wait is kept once and answered once: from try_wait to WAIT_DONE it is in its
\* request, among the owner's remote waiters or in the response, in one of them only,
\* and without a wait there is nothing under way.
THEOREM RemoteWaitsOnce == ASSUME WaitersSeparate PROVE Spec => []RemoteWaitOnce
<1>1. RemoteInv => RemoteWaitOnce
  <2>1. ASSUME RemoteInv, NEW w \in Warps
        PROVE  doneMsgs[w] + Cardinality(WaitersOf(w)) + Cardinality(RequestsOf(w))
                  = IF remote[w] THEN 1 ELSE 0
    <3>1. PlaceOf(w)
      BY <2>1 DEF RemoteInv, OnePlace
    <3>2. /\ \A S : S = {} => Cardinality(S) = 0
          /\ \A S : (\E x : S = {x}) => Cardinality(S) = 1
      BY FS_EmptySet, FS_Singleton
    <3>3. PICK d, m, n : /\ d = doneMsgs[w] /\ m = Cardinality(WaitersOf(w))
                         /\ n = Cardinality(RequestsOf(w))
      OBVIOUS
    <3>4. \/ remote[w] /\ <<d, m, n>> \in {<<0, 0, 1>>, <<0, 1, 0>>, <<1, 0, 0>>}
          \/ ~remote[w] /\ <<d, m, n>> = <<0, 0, 0>>
      BY <3>1, <3>2, <3>3 DEF PlaceOf, Nowhere, InRequest, AtOwner, InResponse
    <3>5. d + m + n = IF remote[w] THEN 1 ELSE 0
      BY <3>4
    <3>6. QED
      BY <3>3, <3>5
  <2>2. QED
    BY <2>1 DEF RemoteWaitOnce
<1>2. QED
  BY <1>1, RemoteInvariance, PTL

\* A warp is parked exactly as long as it is owed something, across SMs too, when its code
\* does not wait both on its own SM and on others: no release scheduled for an earlier
\* wait or a hold ends a try_wait that has no answer yet.
THEOREM ParkingIsExact == ASSUME WaitersSeparate PROVE Spec => []ParkingExact
<1>1. IndInv /\ RemoteInv => ParkingExact
  <2>1. ASSUME IndInv, RemoteInv, NEW w \in Warps, ~answered[w] PROVE park[w] = "mbar"
    <3>1. CASE w \in RemoteWaiters
      BY <2>1, <3>1 DEF RemoteInv, OneReason
    <3>2. CASE w \notin RemoteWaiters
      BY <2>1, <3>2 DEF IndInv, Unanswered, WaitsParked, Undisturbed
    <3>3. QED
      BY <3>1, <3>2
  <2>2. QED
    BY <2>1 DEF IndInv, ParkingExact, ResumesWithAnswer
<1>2. QED
  BY <1>1, Invariance, RemoteInvariance, PTL

=============================================================================
