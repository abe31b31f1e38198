----------------------------- MODULE DsmFabric -----------------------------
(***************************************************************************)
(* The network over which the SMs of one GPC reach each other's shared     *)
(* memory (dsm_fabric_t with the queues and credit counters of             *)
(* transport.h).  Every SM has, per virtual channel, one bounded queue for *)
(* each destination; lane grants move packets flit by flit to the          *)
(* destination's ejection buffer, whose space is reserved with credits, one *)
(* per flit, as the flits leave.                                           *)
(*                                                                         *)
(* Grant(s) is one pass of the lane loop of cycle().  Which of the         *)
(* eligible SMs wins a lane depends on addresses, the shaper and the        *)
(* rotating arbiters, and is left open; what the winner sends is not.      *)
(* Likewise a packet in an ejection buffer becomes visible after a latency *)
(* that is left open, and is taken in order.                               *)
(***************************************************************************)
EXTENDS Integers, Sequences, FiniteSets, FiniteSetsExt

CONSTANTS
    N,              \* SMs of the GPC, numbered from 0
    Kinds,          \* kinds of packets
    Class,          \* the virtual channel, the flits and the packing of a kind
    Sends,          \* what is sent: source, destination, kind, multicast group
    VcFlits,        \* request_vc_flits and response_vc_flits
    EjectFlits,     \* ejection_vc_flits
    PriorityBound,  \* response_priority_bound
    MaxPackets      \* bound: packets injected

Sm == 0..(N - 1)
Vc == {0, 1}        \* dsm_vc_t: request, response

ASSUME SizeAssumption == {N, EjectFlits, PriorityBound, MaxPackets} \subseteq Nat \ {0}
ASSUME VcFlitsAssumption == VcFlits \in [Vc -> Nat \ {0}]
ASSUME ClassAssumption ==
    Class \in [Kinds -> [vc : Vc, flits : Nat \ {0}, cap : Nat \ {0}, read : BOOLEAN]]
ASSUME SendsAssumption ==
    Sends \subseteq [src : Sm, dst : Sm, kind : Kinds, group : Nat]

VARIABLES
    voq,      \* m_in: queued packets, by channel, source and destination
    occ,      \* m_occ: flits accounted to each of these queues
    credit,   \* m_credit: free flits of the ejection buffers
    eject,    \* m_ej: packets that have arrived
    dstNext,  \* m_dst_next: where the search for a destination starts
    consec,   \* m_consec_rsp, counted up to its bound only
    nextId    \* m_next_pkt_id

vars == <<voq, occ, credit, eject, dstNext, consec, nextId>>

Queues == Vc \X Sm \X Sm
Ports == Vc \X Sm
Packet == [id : 1..MaxPackets, src : Sm, kind : Kinds, group : Nat,
           rem : Nat, resv : 0..EjectFlits]

TypeOK ==
    /\ \A q \in Queues : voq[q] \in Seq(Packet)
    /\ occ \in [Queues -> Nat]
    /\ credit \in [Ports -> 0..EjectFlits]
    /\ \A p \in Ports : eject[p] \in Seq(Packet)
    /\ dstNext \in [Ports -> Sm]
    /\ consec \in [Sm -> 0..PriorityBound]
    /\ nextId \in 1..(MaxPackets + 1)

Init ==
    /\ voq = [q \in Queues |-> <<>>]
    /\ occ = [q \in Queues |-> 0]
    /\ credit = [p \in Ports |-> EjectFlits]
    /\ eject = [p \in Ports |-> <<>>]
    /\ dstNext = [p \in Ports |-> 0]
    /\ consec = [s \in Sm |-> 0]
    /\ nextId = 1

Least(a, b) == IF a <= b THEN a ELSE b
IsRead(p) == Class[p.kind].read
Flits(p) == Class[p.kind].flits

-----------------------------------------------------------------------------
(* Injection. *)

\* can_push: room for the packet; one that exceeds the queue needs it empty.
CanPush(q, flits) ==
    IF flits > VcFlits[q[1]] THEN voq[q] = <<>> /\ occ[q] = 0
    ELSE occ[q] + flits <= VcFlits[q[1]]

\* Mutant: everything goes in front of the queued data.
OvertakesAlways(q, p) == \E i \in DOMAIN voq[q] : ~IsRead(voq[q][i])

\* A read command goes in front of a queue that holds anything else.
Overtakes(q, p) == IsRead(p) /\ \E i \in DOMAIN voq[q] : ~IsRead(voq[q][i])

\* inject.
Inject(m) ==
    LET q == <<Class[m.kind].vc, m.src, m.dst>>
        p == [id |-> nextId, src |-> m.src, kind |-> m.kind, group |-> m.group,
              rem |-> Class[m.kind].flits, resv |-> 0]
    IN  /\ nextId <= MaxPackets
        /\ CanPush(q, Flits(p))
        /\ voq' = [voq EXCEPT ![q] = IF Overtakes(q, p) THEN <<p>> \o @ ELSE Append(@, p)]
        /\ occ' = [occ EXCEPT ![q] = @ + Least(Flits(p), VcFlits[q[1]])]
        /\ nextId' = nextId + 1
        /\ UNCHANGED <<credit, eject, dstNext, consec>>

-----------------------------------------------------------------------------
(* Lane grants. *)

Destinations(v, s) == {d \in Sm : voq[<<v, s, d>>] # <<>>}

\* peek_dst: the first destination with a packet, in rotating order.
PeekDst(v, s) ==
    LET after(d) == (d - dstNext[<<v, s>>] + N) % N
    IN  CHOOSE d \in Destinations(v, s) :
            \A e \in Destinations(v, s) : after(d) <= after(e)

\* pick_head: responses first, but after PriorityBound of them in a row a
\* waiting request has its turn.
PickVc(s) ==
    IF \/ Destinations(0, s) = {}
       \/ Destinations(1, s) # {} /\ consec[s] < PriorityBound
    THEN 1 ELSE 0

\* The destinations one grant serves: the packets of a multicast group that
\* are at the head of their queues move together.
Branches(v, s, d) ==
    LET g == voq[<<v, s, d>>][1].group
    IN  {d} \cup {e \in Destinations(v, s) : g # 0 /\ voq[<<v, s, e>>][1].group = g}

\* A flit needs a credit until the packet holds as many as the buffer has.
NeedsCredit(p) == p.resv < Least(Flits(p), EjectFlits)

\* Mutant: the whole rest of the packet must fit.
HasSpaceForAll(v, s, ds) ==
    \A d \in ds : LET p == voq[<<v, s, d>>][1] IN credit[<<v, d>>] >= Flits(p) - p.resv

\* has_ejection_space: every branch that needs a credit has one.
HasSpace(v, s, ds) ==
    \A d \in ds : NeedsCredit(voq[<<v, s, d>>][1]) => credit[<<v, d>>] >= 1

\* The packets one grant sends: small packets of one kind share a flit as far
\* as the packing, the queue and the credits go.
Burst(v, s, d, ds) ==
    LET q    == voq[<<v, s, d>>]
        same == {n \in 1..Len(q) : \A i \in 1..n : q[i].kind = q[1].kind}
    IN  IF Cardinality(ds) = 1 /\ Flits(q[1]) = 1
        THEN Min({Class[q[1].kind].cap, Max(same), credit[<<v, d>>]})
        ELSE 1

\* A packet after one of its flits has left.
Advance(p) == [p EXCEPT !.rem = @ - 1, !.resv = IF NeedsCredit(p) THEN @ + 1 ELSE @]

\* Grant_flit on n packets at the head of a queue, and the ejection buffer.
Remaining(q, n) ==
    IF Advance(q[1]).rem = 0 THEN SubSeq(q, n + 1, Len(q))
    ELSE <<Advance(q[1])>> \o Tail(q)

Arriving(q, n) ==
    IF Advance(q[1]).rem = 0 THEN [i \in 1..n |-> Advance(q[i])] ELSE <<>>

\* Flits beyond the queue's limit were never accounted.
OccLess(q, n) == IF voq[q][1].rem <= VcFlits[q[1]] THEN occ[q] - n ELSE occ[q]

\* What a lane grant to SM s does.
Grant(s) ==
    /\ \E v \in Vc : Destinations(v, s) # {}
    /\ LET v  == PickVc(s)
           d  == PeekDst(v, s)
           ds == Branches(v, s, d)
           n  == Burst(v, s, d, ds)
           at(e) == <<v, s, e>>
           hit(q) == q[1] = v /\ q[2] = s /\ q[3] \in ds
       IN  /\ HasSpace(v, s, ds)
           /\ voq' = [q \in Queues |-> IF hit(q) THEN Remaining(voq[q], n) ELSE voq[q]]
           /\ occ' = [q \in Queues |-> IF hit(q) THEN OccLess(q, n) ELSE occ[q]]
           /\ credit' = [p \in Ports |->
                IF p[1] = v /\ p[2] \in ds /\ NeedsCredit(voq[at(p[2])][1])
                THEN credit[p] - n ELSE credit[p]]
           /\ eject' = [p \in Ports |->
                IF p[1] = v /\ p[2] \in ds THEN eject[p] \o Arriving(voq[at(p[2])], n)
                ELSE eject[p]]
           /\ dstNext' = [dstNext EXCEPT ![<<v, s>>] = (d + 1) % N]
           /\ consec' = [consec EXCEPT ![s] = IF v = 1 THEN Least(@ + 1, PriorityBound) ELSE 0]
    /\ UNCHANGED nextId

-----------------------------------------------------------------------------
(* Ejection. *)

\* Mutant: the credits given back are those of the whole packet.
GivesWhole(p) == Flits(p)

\* The credits a packet gives back.
Gives(p) == p.resv

\* pop.
Pop(v, d) ==
    LET p == <<v, d>>
    IN  /\ eject[p] # <<>>
        /\ credit' = [credit EXCEPT ![p] = @ + Gives(Head(eject[p]))]
        /\ eject' = [eject EXCEPT ![p] = Tail(@)]
        /\ UNCHANGED <<voq, occ, dstNext, consec, nextId>>

Next ==
    \/ \E m \in Sends : Inject(m)
    \/ \E s \in Sm : Grant(s)
    \/ \E v \in Vc, d \in Sm : Pop(v, d)

Spec == Init /\ [][Next]_vars

-----------------------------------------------------------------------------
(* Properties. *)

\* Credits are neither lost nor made: the free ones and those the packets on
\* their way to a buffer and in it hold make up its depth (give asserts half
\* of this), although grants may stop, be overtaken or branch at any flit.
CreditsConserved ==
    \A v \in Vc, d \in Sm :
        credit[<<v, d>>]
        + MapThenSumSet(LAMBDA i : eject[<<v, d>>][i].resv, DOMAIN eject[<<v, d>>])
        + MapThenSumSet(LAMBDA s : MapThenSumSet(LAMBDA i : voq[<<v, s, d>>][i].resv,
                                                 DOMAIN voq[<<v, s, d>>]), Sm)
        = EjectFlits

\* A queue's account is exact: what can_push promises is there, and grant_flit
\* never takes from an empty account, also for a packet that exceeds the
\* queue.
OccupancyExact ==
    \A q \in Queues :
        /\ \A i \in DOMAIN voq[q] : voq[q][i].rem > 0
        /\ occ[q] = MapThenSumSet(LAMBDA i : Least(voq[q][i].rem, VcFlits[q[1]]),
                                  DOMAIN voq[q])
        /\ occ[q] <= VcFlits[q[1]]

\* Both accounts of the network are exact: one missed or double return would
\* shrink a buffer for ever or fail an assertion of give or grant_flit.
AccountsExact == CreditsConserved /\ OccupancyExact

\* Everything but read commands arrives in the order in which it was injected
\* for that destination, so that an mbarrier request does not overtake the
\* stores before it.
DataInOrder ==
    \A v \in Vc, s \in Sm, d \in Sm :
        LET path  == SelectSeq(eject[<<v, d>>], LAMBDA p : p.src = s) \o voq[<<v, s, d>>]
            ids   == SelectSeq(path, LAMBDA p : ~IsRead(p))
        IN  \A i, j \in DOMAIN ids : i < j => ids[i].id < ids[j].id

\* The packet that s would send next has the ejection credits it needs.
CanGrant(s) ==
    /\ \E v \in Vc : Destinations(v, s) # {}
    /\ LET v == PickVc(s)
           d == PeekDst(v, s)
       IN  HasSpace(v, s, Branches(v, s, d))

\* Somebody can always move: while packets are queued, some SM can use a lane
\* or some arrived packet can be taken.
NeverStuck ==
    (\E q \in Queues : voq[q] # <<>>) =>
        \/ \E s \in Sm : CanGrant(s)
        \/ \E p \in Ports : eject[p] # <<>>

=============================================================================
