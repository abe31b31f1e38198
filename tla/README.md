# FlashGPU-Sim in TLA+

FlashGPU-Sim is a cycle-level GPU simulator built on GPGPU-Sim. What it adds for
Hopper and Blackwell GPUs is concurrent in nature: warps start copies and matrix
operations that other units finish later, wait for them on ledgers and barriers
with deadlines, and reach the shared memory of other SMs over a network with
credits, windows and acknowledgements. These parts are single-threaded C++, but
what they simulate is an interleaving of warps, the TMA and tensor units, the
barrier unit, the caches, the network and the lifecycle of CTAs. The streams are
concurrent in earnest: host threads push operations that a simulation thread
executes. This directory models them, checks the models on small instances with
TLC, and proves with TLAPS, for every value of the constants, the safety properties of
bulk groups, cp.async, tcgen05, mbarriers, the DSM endpoint, caches, CTA synchronisation
and streams (some under hypotheses that section 4 states, a few not at all: its last list). Every definition is translated from the source lines that `PROJECT.json` names for it;
paths below are relative to `src/src/gpgpu-sim/`.

## 1. The system: inventory

| Component | State | Operations | Hard because | Correct when |
|---|---|---|---|---|
| Bulk groups (`flash/bulk_group.*`) | per warp: open stores, numbered groups, completed frontier, wait target | add, commit, wait, complete, CTA cleanup | stores complete in any order, empty groups, slot reuse | frontier exact, no lost wake-up, waits end exactly when due |
| Mbarriers (`flash/mbarrier.*`) | per barrier: expected and missing arrivals, signed transaction count, phase, local and remote waiters; per warp: lanes of a pending try_wait, recheck time, scheduled releases | init, inval, arrive, expect_tx, complete_tx, try_wait (local, remote), notify, release, `cycle` | deadlines race with completions, several lanes per wait, scheduled releases outlive what they were for, remote waits are stored elsewhere | answers justified, nobody sleeps past a deadline, nobody parked for ever |
| TMA unit (`flash/tma.*`) | transactions, deferred arrivals, cp.async groups | issue, per-response progress, completion, cleanup | completes into both ledgers, after its warp has moved on | each transaction completes once, before its CTA is released |
| CTA lifecycle (`shader.cc`) | thread counts, pending releases, slots | thread exit, delayed release, cleanup of all components | release races with TMA and DSM traffic | nothing of an old CTA reaches the next one |
| DSM endpoint (`dsm_endpoint.*`) | outstanding transactions, store queues, ingress, pending answers, acknowledgement debt, generations | issue, harvest, process_ingress, send, flush | acknowledgement by count, scarce SRAM bytes, full channels, stale generations | completed stores are the applied ones, nothing lost or doubled |
| DSM fabric (`dsm_fabric.*`, `transport.h`) | queues per channel, source and destination; occupancy; credits; ejection buffers; arbiters | inject, lane grants in `cycle`, pop | credits taken flit by flit, oversize packets, reads overtake, multicast branches | credits conserved, accounts exact, data in order, no deadlock |
| Shared-memory service (`smem_service.h`) | demand and grants per client | expose, take, cycle | partial grants are forgotten each cycle | every demand is eventually met |
| cp.async groups (`flash/tma.cc`) | transactions, issue queue, requests in flight, per warp: open copies, pending groups, wait; arrivals owed | copy, commit, wait, mbarrier arrive, response, cleanup | requests split and answered in any order, groups counted, not ordered | ledger exact, arrivals once and in time, waits end |
| Named barriers, cluster barrier (`shader.cc`) | arrived and active warps, counts, delayed arrivals and releases; phases and waiters of a cluster | arrive, wait, exit, release | exits count as arrivals, arrivals and releases are delayed, the release depends on DSM traffic and on CTAs not issued yet | nobody passes early, nobody waits for ever |
| tcgen05, tensor memory (`flash/tcgen05/`) | pending operations, commits, waits, events, issue times, MMA backlog; allocations of each CTA | mma, cp, ld, st, commit, wait, alloc, dealloc, cycle, cleanup | operations complete out of order, commits overlap, CTA slots are reused | commits and waits cover what they are about, nothing stale, ranges handed out once |
| Caches, MSHR table (`gpu-cache.*`, `mshr-table.cc`) | tags and sector states, number of modified lines, MSHR entries, miss queue, responses | access, fill, drain, invalidate | retries, merged misses, lazy write allocation, fills by a stored index | tags, MSHRs and fetches agree, no modified data lost, every request served |
| Streams and kernels (`../stream_manager.*`, `../gpgpusim_entrypoint.cc`, `../kernel_info.cc`, `../cuda-sim/cuda_device_runtime.cc`, the stream calls of `libcuda/cuda_runtime_api.cc`) | operations of each stream, round-robin position, kernels running and finished, events, device launches | create, destroy, push, synchronise, record, wait; operation, launch, cycle, retire | two kinds of threads, spinning under a lock, blocking pushes, kernels that launch kernels | order of the streams kept, every call returns with its work done |
| WGMMA tracking | counters per warp group | issue, commit, wait | as for bulk groups | as for bulk groups |
| Memory transport budget | byte budgets | take | limits | limits kept |
| Scoreboard, crossbar, DRAM, pipeline | inherited from GPGPU-Sim | | | |
| Functional simulator, power model | inherited or vendored | | | |

Interactions. The TMA unit calls `complete_bulk_tx` and `complete_tx` of the
barrier set. `shader_core_ctx` parks and releases warps for the bulk-group
ledger, the mbarriers and the named barriers through one bit and one type per
warp, which is why a release meant for one can meet another. Remote mbarrier
operations travel as DSM requests: the endpoint issues them, the fabric carries
them, `dsm_on_mbar_req` applies them on the owner's SM, and WAIT_DONE travels
back on the response channel. A CTA is released when its threads are gone, the
TMA unit and its own DSM loads, stores and atomics are idle, and no peer of its
cluster has live threads; the release cleans the ledgers and raises the
generation of the slot. Per core cycle of a GPC, `dsm_cycle` runs the endpoint
(fabric, harvest, ingress, send, flush) and the retries, and the cores run
before or after it, never during it. A core cycle runs the tensor unit and
delivers its events, then the TMA unit, the pending CTA releases and
`barrier_set_t::cycle`. The simulation thread takes operations off the streams
between two GPU cycles; kernels that finish are retired there too.

`PROJECT.json` lists all components with what is and is not modelled, and under
"hazards" what in them is hard to test, each at its line, with the properties
that would catch it.

## 2. Modules

| Module | Models | Notes |
|---|---|---|
| `BulkGroup` | the bulk-group ledger and its warps, stores, CTA slots | |
| `BulkGroupSpec` | what the ledger promises: sets of outstanding stores, no counters | abstract specification |
| `BulkGroupProofs` | inductive invariant, eight theorems | TLAPS |
| `Mbarrier` | barriers, waits, notifications and releases on one or more SMs, with in-order channels between SMs | |
| `DsmFabric` | queues, credits, lane grants and ejection of one GPC | |
| `DsmEndpoint` | transactions over bounded channels, ingress and SRAM grants, acknowledgements, generations | |
| `CpAsync` | copies, requests, groups, waits and mbarrier arrivals of cp.async | |
| `Tcgen05` | the tcgen05 timing unit and the allocation of tensor memory | |
| `NamedBarrier`, `ClusterBarrier` | the two barriers as data and operators | no variables |
| `CtaSync` | composition: both barriers, shared stores, DSM operations, exits, the issue and release of CTAs and clusters | extends `ClusterBarrier`, which extends `NamedBarrier` |
| `Cache` | a sectored data cache with its MSHR table and miss queue | |
| `StreamManager` | streams, host threads and the simulation thread | |
| `CpAsyncProofs` | inductive invariant, four theorems | TLAPS |
| `Tcgen05Proofs` | inductive invariant, four theorems | TLAPS |
| `MbarrierProofs` | two inductive invariants, nine theorems | TLAPS |
| `DsmEndpointProofs` | inductive invariant, four theorems | TLAPS |
| `CacheProofs` | inductive invariant, three theorems | TLAPS |
| `CtaSyncProofs` | three inductive invariants, five theorems | TLAPS |
| `StreamManagerProofs` | inductive invariant, six theorems | TLAPS |
| `MC...` | an instance of each specification | one `.cfg` per run |

Operators whose comment starts with "Mutant" or "Mistaken variant" are deliberately wrong versions of
the operator that follows them; `PROJECT.json` says which property each of them
breaks. They show that the properties depend on the code being as it is and are
used by no specification.

### BulkGroup

Variables are the fields of `warp_bulk_info_t` per warp, plus the parked bit, the
stores in flight and the exit of the warp. One action per operation: `AddTx`,
`Commit`, `Wait`, `Exit` (the warp), `CompleteTx` (the TMA unit, any store in
flight), `ReleaseCta` (slot reuse). A group is in `pending_groups` exactly while
it contains a store, so the absent entry is the empty set. `SkipCompleted` states
the loop that moves the frontier as the first group that is still pending.

`BulkGroupSpec` has, per warp, the open stores, the number of committed groups,
the outstanding stores of each group and the group that is waited for; a wait
ends when everything up to that group is done. The refinement maps the counters
to these sets.

### Mbarrier

All times are relative: `dl`, `recheckIn`, `predIn` and the members of `rel`
count the cycles that are left, and `Cycle` takes one from each of them before it
does what `barrier_set_t::cycle` does, in the same order: due releases, due
rechecks, predicates. The lanes of a warp that name the same barrier behave alike
and are one lane. `chan` is the in-order request path between two SMs: requests of
a pair keep their order through the retry queue too, because space frees only
inside `cycle()`, after which the retries run before the cores.
`DsmFabric`'s `DataInOrder` is the property this rests on. Initialisation and
invalidation are enabled only when nobody waits on the barrier and no expect_tx
is on its way (`Quiescent`): PTX requires this of the program and the code
asserts it. Scheduled releases survive the CTA, as `m_pending_warp_releases`
does. Another reason for parking (named barriers) is `ParkOther`/`UnparkOther`.

### DsmFabric

`Inject` puts a packet at the end of its queue, a read command before queued
data. `Grant(s)` is one pass of the lane loop for the SM that won a lane: it
picks the channel (responses first, bounded) and the destination (rotating, from
the last one served), collects the multicast branches at the heads of their
queues, needs a credit for every branch, moves a flit of each, packs small
packets of the same kind into the flit, and puts finished packets in the
ejection buffer. Which SM wins (shaper, route hash, per-route and per-CPC
arbiters) and when an arrived packet becomes visible is left open, so the checks
hold for every shaper and latency. Only the default channel arbiter
(`bounded_response_priority`) is modelled. `consec` is counted up to its bound
only: the code compares it with the bound and nothing else.

### DsmEndpoint

`cycle()` is the sequence of stages harvest, ingress, send, flush, with `cursor`
walking through the deque that the code rebuilds; the cores act in stage "core".
An ingress entry is "fresh" in the cycle it arrived, then waits for its bytes
("sram"), is held for one cycle after it was served ("hold") and then leaves
("ready"). The grant of the shared-memory service is any amount up to
`MaxGrant`. The fabric is a bounded queue per pair and channel in which a load may
take any place, which covers `DsmFabric`'s read priority. An SM has one CTA slot;
`gen` is its generation, and requests carry the generation they were sent to.
`applied` and `staleHits` are history variables. An idle flush depends on the
fabric's occupancy and on three quiet cycles; the model lets it happen whenever
no store of the pair waits in the ingress.

### CpAsync

A copy is split into transactions, one read request each (`Coalesced`: one for all
lanes or one for each). Requests wait in `queue`, are sent while fewer than
`MaxInflight` are out, and are answered in any order, in `setup.parts` parts.
`info` is the ledger of a warp; an absent entry of the code's map reads as an
empty one. A wait parks the warp in any case, and its release is scheduled at
once when few enough groups are pending, as in the code with a release latency.
`before` and `delivered` are histories: what a lane had issued before an arrive,
and how often the arrive reached its mbarrier. With idealized memory a copy is
complete when it issues.

### Tcgen05

Times are distances from now; the busy period of the MMA backend is the work it
has left. `Cycle` is a core cycle from the writeback of instructions to
`execute`: operations complete, `resolve_controls` turns commits and waits into
events, `shader_core_ctx::execute` delivers them (together with the events that a
commit with nothing pending left behind), and CTAs that waited for a copy are
released. A CTA ends when the fetch stage finds its warps `hardware_done`; that
instructions in the pipeline hold a warp back is what keeps the events, which
`cleanup_cta` does not purge, from meeting the next CTA. `gen` and `reached` are
histories. The operand of an access needs an allocation, live or retired; the
allocator is a bump allocator and never gives columns out again. Lane-0-only
operations whose leader is not active are dropped by the code and are no steps.

### NamedBarrier, ClusterBarrier, CtaSync

The first two hold the state of `barrier_set_t` and of the cluster's barrier as a
record and each method as an operator from state to state. `CtaSync` gives them
warps that run the instructions of a kernel, taken from a small set of kernels;
a step issues one instruction, or completes something an instruction left behind
(a store, its visibility, a delayed arrive, a delayed release, a DSM operation),
or issues or releases a CTA. `pc` is 0 once a warp has exited and `reclaimed` says
that the fetch stage has counted its threads. The arrive latency of a warp, the
hang watchdog, the broadcast of bar.red and bulk copies that hold a CTA are left
out.

### Cache

One action per outcome of `data_cache::access`; a request for which none is enabled
fails its reservation and is retried, as the code does. A line has a tag and per
sector the state and the three flags that decide what a fill does. Byte masks are
abstracted: whether the bytes written so far cover a sector is left open. Which
replaceable line is the oldest is left open, except that invalid lines come
first. The index stored with a fetch is kept (`way`), because the code fills by it:
the model showed that a lazy write to a sector whose fetch is under way makes its
line replaceable, and that a memory barrier can invalidate the L1 with misses
outstanding; in both cases the fetch is separated from its line. The history
variable `strayed` records it, and the properties about lines are claimed for
behaviours, and parts of them, before it happens.

### StreamManager

A section under `m_lock` is one step, guarded by the lock being free; only
`destroy_stream` keeps the lock over several steps (`mlock`). A host thread in a call
is at the `pc` of `call`: `block`, `push`, `drain` are the three parts of
`stream_manager::push`. The simulation thread walks through `simPc`: `check` (retire
a finished kernel), `reap` (its destructor), `front` (take an operation), `cycle`,
`tail` (the loop's condition), `stop`. Kernels run until a `SimCycle` finishes them.
A kernel may launch children into the default stream of its CTA, which
`launch_one_device_kernel` pushes one per cycle; nesting is one level deep. The kinds
of program in the instance: events on two streams, children (simulated for
performance or functionally), two host threads, `CUDA_LAUNCH_BLOCKING`, destruction.
`cudaStreamSynchronize` of a stream other than NULL returns at once (the call of
`stream->synchronize()` follows a return) and is no step.

## 3. Runs

| Run | Instance | Shows |
|---|---|---|
| `bulk_group` | 2 warps in 2 slots, 3 stores, 3 groups | the invariants, `WaitEndsComplete`, the refinement of `BulkGroupSpec` and that every wait ends |
| `mbarrier_local` | 1 SM, 2 barriers, 2 warps, with and without a hint | `RegistrationsExact`: a suspended lane is registered or notified and no registration outlives its wait; `NeverOversleeps`; `AnswersJustified`; `ParkingExact`: a parked warp has a releaser and resumes with its answer |
| `mbarrier_remote` | 2 SMs, 1 barrier, a local and a remote waiter | remote waits are kept once and answered once; every local try_wait returns |
| `mbarrier_done` | 2 SMs, a warp that waits locally and remotely | violation: a stale release ends a remote wait before WAIT_DONE |
| `dsm_fabric` | 3 SMs, 4 packets of 5 kinds | `AccountsExact` (credits conserved, occupancy exact), data in order, no deadlock |
| `dsm_fabric_long` | 3 SMs, long packets from two of them to the third | violation: hold and wait for ejection credits |
| `dsm_endpoint` | 2 SMs, 3 transactions of 6 kinds, window 2, 2 CTAs per slot | acknowledgements by count complete exactly the applied stores; no transaction lost or doubled, no data applied to the next CTA |
| `cp_async` | 1 slot, 1 or 2 warps, 2 lanes, 3 transactions, 3 groups, 2 arrivals, 2 CTAs | `LedgerExact`, `ArrivalsExact`, `WaitEnds`, `EveryWaitReturns` |
| `tcgen05` | 2 slots, 2 warps, four mixes of operations, 2 CTAs per slot | `CompletionsCover`, `NothingStale`, `RangesDisjoint`, `EveryControlEnds` |
| `cta_sync` | 2 slots of 3 warps, 2 barriers, 5 kernels of up to 3 CTAs | `BarrierSeparates`, `ReleasesJustified`, `ClusterSeparates`, `EveryCtaFinishes` |
| `cache` | 1 set of 2 ways, 3 blocks, 2 sectors, 2 MSHRs of 2 readers, miss queue of 2, 4 requests, 3 policies | `MissesTracked`, `DirtyWrittenBack`, `EveryRequestServed` |
| `streams` | 6 kinds of program, 2 threads, 2 streams, an event, up to 4 operations | `FinishedIsFront`, `ZeroIsBarrier`, `NoDangling`, `ReturnsComplete`, `WaitFollowsRecord`, `EveryCallReturns` |

The two violations are described under "findings" in `PROJECT.json`, each with the
line of the repository that says otherwise. The passing instances leave out
exactly the input a finding is about: warps that wait both ways, two senders of
oversize packets to one SM.

Further disagreements the models met, for which there is no run of their own:

- `flash/bulk_group.h:29` says that wait_group(N) waits until at most N groups
  remain incomplete. The code follows the order of commits (as PTX does): when a
  newer group completes first, a warp stays parked although at most N groups are
  incomplete. cp.async groups (`flash/tma.cc:914-942`) are counted instead, so that
  wait_group(N), N > 0, may return while an older group is incomplete; `WaitEnds`
  states what the count guarantees.
- A phase that a peer's arrive completes (`flash/mbarrier.cc:1283`) takes the local
  waiters off the barrier but does not notify their pending waits; they wake at
  their deadline. A phase that the TMA unit or an asynchronous arrival completes
  (`flash/mbarrier.cc:1183`) leaves stored remote waiters unnotified until a later
  arrive on that barrier. `RegistrationsExact` is checked without peers for this
  reason. Re-initialising a barrier drops its remote waiters (`mbarrier.cc:85`).
- An mbarrier request reaches the CTA that took the slot of its addressee, because
  `process_ingress` does not look at its generation (`dsm_endpoint.cc:465-472`), while
  stores and TMA completions are dropped. `TxHandledOnce` is about data.
- A store of no bytes asks for no grant (`dsm_endpoint.cc:441`), so it would be served
  while an older store of its pair still waits for bytes, and the acknowledgement by count
  would complete the older one. The proofs of `DsmEndpoint` assume that a store moves at
  least one byte (`StoresNeedBytes`); nothing in the endpoint enforces it.
- A parent kernel that finishes in the same GPU cycle as its last child is retired
  with it and then found a second time in the list of finished kernels, where
  `register_finished_kernel` asserts. Device launches under `CUDA_LAUNCH_BLOCKING`
  spin in the simulation thread for ever, and so does the destruction of a CTA
  stream on which a host has pushed an event wait; the programs of the instance
  combine neither.
- A lazy write to a reserved sector, and an invalidation with misses outstanding,
  leave lines reserved with no fetch to come (see Cache).

Bounds, and why they are enough to be interesting.

- Three stores and three groups let a newer group finish first, an empty group
  lie in the middle and a wait target have finished and unfinished groups on
  both sides; two slots let one be released while the other is busy.
- Two phases per barrier include a parity that comes round again; hints 0 and 3
  and latencies 1 and 2 put the deadline before, at and after a completion; a
  warp with two lanes has two different deadlines.
- Queues of 3 flits, an ejection buffer of 3, packets of 1, 2 and 4 flits: a
  packet exceeds both, two packets do not fit together, and a small pair shares a
  flit; a priority bound of 1 reaches both sides of the bounded priority.
- A grant of 0 to 2 bytes against needs of 1 and 2 makes every partial grant
  happen; a response channel of 1 and a window of 2 are both full in many states;
  a threshold and a timeout of 2 make all three kinds of flush happen.
- Three transactions against a limit of 2 in flight fill the queue of cp.async; a
  copy of two lanes as one request or two gives arrivals one or several copies to
  wait for.
- The latencies of tcgen05 (1 and 3, and a backlog) let each kind overtake another; a
  commit is made before, between and after; a slot used twice meets what the first
  CTA left.
- The kernels of `cta_sync` have producer and consumer on two counted barriers with a
  bystander that exits, whole-CTA barriers with an exit in between, and two phases
  of the cluster barrier with remote operations and a second cluster in the slots.
- Three blocks in two ways force replacement of modified and reserved lines; the
  policies are those of the shipped L1 and L2 and the older L1, with the share of
  modified lines exactly at its limit.
- Three operations are enough for a record, its wait and a kernel between them, or
  for a parent with two children; the launch latency of 1 makes a kernel go back
  once.

Deadlock is checked where the system never stops by itself: `BulkGroup`, `Mbarrier`,
whose clock runs for ever, and `StreamManager`. The others may be idle with all bounded
inputs used; there the configuration turns TLC's own check off, and `NeverStuck`,
`EveryCtaFinishes`, `EveryWaitReturns`, `EveryRequestServed` and `EveryControlEnds` say
that they stop only when they are done.

Fairness.

- `BulkGroup`: weak fairness of the completion of each store: the memory system
  answers every access and the TMA unit retires what is complete in each cycle.
- `Mbarrier`, `Tcgen05`: weak fairness of the cycle: the core clock runs.
- `CpAsync`: the unit sends requests, memory answers, delayed releases come due.
- `CtaSync`: weak fairness of `Next` only; a kernel takes finitely many steps, so
  that `EveryCtaFinishes` is the absence of deadlock before its end.
- `Cache`: the head of the queue is tried in every cycle, the miss queue advances,
  memory answers the oldest fetch, and a reader is drained per cycle. A steady
  stream of late readers of one response could keep others waiting; the bound on
  requests excludes it.
- `StreamManager`: weak fairness of the simulation thread and of each host thread in
  a call, and strong fairness of a running kernel finishing.

Nothing is assumed of programs: a warp or a host may stop issuing. `DsmFabric` and
`DsmEndpoint` have safety properties only and no fairness.

## 4. Proofs

The theorems hold for every value of the constants that the assumptions of the
modules allow (any sets of warps, slots, barriers, streams, finite where the code counts
them, any latencies, bounds and queue sizes). Each component has an inductive invariant `IndInv`, a theorem
`Invariance == Spec => []IndInv`, one lemma per action (`...Ind`, or the action's name
and what it keeps), and the theorems about the properties of the runs, which follow
from it. `IndInv` was checked by TLC on the instances of section 3 before it was proved.
Hardly any property is inductive by itself; what is added below, and why, is what a
reader of the code should know.

**`BulkGroupProofs`**, from `CtaOfAssumption` and `MaxGroupAssumption` alone.
`TypeCorrect`, `LedgerAgrees`, `EntriesOutliveStores`, `FrontierIsExact`,
`WakeupNeverLost` prove `TypeOK`, `LedgerConsistent`, `CompletionFindsEntry`,
`FrontierExact`, `NoLostWakeup`; `WaitsEndComplete` proves the action property
`WaitEndsComplete`; `Refinement` is `Spec => ImplementsSpec`, the refinement of
`BulkGroupSpec`. `IndInv` joins the four state invariants with `WaitTargetAhead`, the
group a waiting warp waits for is committed and lies beyond the frontier, the parked
bit agrees with the ledger and an exited warp is not parked; and `InflightIssued`, a
store in flight has been issued, so that a new uid is fresh. `NoLostWakeup` then
follows: the frontier is exact, so the group right after it has a store, and it is at
or before the target. The heart of the argument is the completion of the last store of
the oldest group, where the frontier jumps over groups that finished earlier:
`SkipStopsAtPending` says that it stops right before the first group that still has
stores. The `Map...` lemmas show that each action is a step of the abstract
specification or leaves it alone.

**`CpAsyncProofs`**, for a finite set of lanes. `LedgerIsExact` (`LedgerExact`),
`ArrivalsAreExact` (`ArrivalsExact`) and the action property `WaitsEndInTime`
(`WaitEnds`). `IndInv` adds that a transaction is queued once (`QueueOnce`), so that
issuing takes it off the queue for good; that a delayed release belongs to a parked
warp with few enough groups (`ReleasesDue`), which nothing can undo before the release
comes because a parked warp commits nothing; and that the record of an arrive is
exactly what is left of the copies before it (`ArrivalsRecorded`).

**`Tcgen05Proofs`.** `CompletionsDoCover` (`CompletionsCover`), `NothingIsStale`
(`NothingStale`), `RangesAreDisjoint` (`RangesDisjoint`). `IndInv` adds the sequence
numbers (`SequenceInv`: cutoffs lie below the next number and a free slot starts from
zero), that a commit or wait that is kept is held up by an operation (`ControlsHeld`),
that an event under way covers nothing pending (`EventsCover`), and `RangesBelow`, the
bump allocator. `cleanup_cta` leaves events alone; that none meets the next CTA is
`PipelineInv`: an event belongs to an instruction in the pipeline, and a warp in the
pipeline is not counted as done.

**`MbarrierProofs`.** `NobodyOversleeps` (`NeverOversleeps`), `AnswersAreJustified`
(`AnswersJustified`) and `ParkedWillBeReleased` (`ParkedHasReleaser`) hold for any
placement of warps and barriers. `RegistrationsAreExact` (`RegistrationsExact`) is for
barriers and warps of one SM (`AllLocal`): across SMs the code does lose registrations,
see section 3. What remains of it across SMs when try_wait has a latency is
`RegistrationsAreLive` (`RegisteredIsLive`): no registration outlives its wait.
`IndInv` adds who
may wait how (`WaitersKnown`) and that one SM alone has no traffic (`NoTraffic`); that a
pending wait keeps its warp parked (`WaitsParked`) unless a release meant for something
else may reach it (`Undisturbed`); that lanes wait on barriers and phases that were there
(`LanesLive`), so that no phase change is missed; and where registrations and answers
stand (`Registered`, `Unanswered`). A second invariant, `RemoteInv`, gives every remote
wait one place, with the warp's `remote` bit: its WAIT_REG request, the list of the
owner's barrier, or WAIT_DONE on its way back (`OnePlace`), and each parked warp one
reason to be parked (`OneReason`). From both follow `RemoteWaitsOnce` (`RemoteWaitOnce`), for
any number of SMs, and `ParkingIsExact` (`ParkingExact`). They assume that no warp waits
both on barriers of its SM and on those of others (`WaitersSeparate`): a warp that does
can meet a stale release, and both properties are false of it, which is what run
`mbarrier_done` finds. The step that needs it is the due release, which must not be that
of a warp that waits for WAIT_DONE.

**`DsmEndpointProofs`**, for any SMs, classes, window, thresholds, sizes of channels and
grants. `AckDebtCorrect` (`AckDebtExact`), `TxHandled` (`TxHandledOnce`) and, from the same
invariant, `StoresComplete` (`StoresCompleteApplied`: what an acknowledgement by count
completes has been applied). An acknowledgement names no store; that it means the right
ones rests on order, so `IndInv` says that the queue of outstanding stores is in the order
of issue (`StoresQueued`), that the stores of a pair stay in this order in the request
channel and in the ingress (`StoresInOrder`), and that within a pass of `process_ingress`
an entry that was passed over for lack of bytes left none for those behind it
(`ServedInOrder`). The rest is that a transaction has one place at a time (`EachOnce`,
`NoneLost`), and what each place holds (`TxKnown`, `RequestsKnown`, `AnswersKnown`,
`EntriesKnown`). The sums over channels of `AckDebtExact` are its own witness function,
which a step changes at one packet, so that no fold is needed. The theorems assume that a
store moves at least one byte (`StoresNeedBytes`), see section 3.

**`CacheProofs`.** `MissesAreTracked` (`MissesTracked`: `m_dirty` is the number of modified
lines, each pending MSHR entry has one fetch, and while no fetch has been separated from
its line each reserved sector has one to come) for caches that
do not allocate on writes when they are write-evict, as in every configuration the
repository ships (`Sane`: with `write-evict` and lazy allocation a write hit would give up
a sector that its own fetch will fill); and the action property `DirtyIsWrittenBack`
(`DirtyWrittenBack`: modified data leaves a line only into the miss queue). `IndInv` adds
that no address is fetched twice at a time (`FetchesUnique`), that fetches and pending
entries, responses and ready entries correspond (`FetchesPending`, `ResponsesReady`),
where reserved sectors await them while nothing has been separated (`LinesAwait`), and
when a fetch can be separated from its line at all (`StraysKnown`), and that only
write-back caches perform atomics (`PolicyKept`).

**`CtaSyncProofs`.** `ReleasesAreJustified` (`ReleasesJustified`): a delayed release of
bar.sync finds its warp parked and is its only one, and a CTA without threads has left
nothing in the barrier set. `IndInv` adds `Justified`, that a scheduled release has
consumed the arrival that scheduled it, so a second completion of the barrier cannot
schedule it again; and that exits are counted only for warps with nothing on their way
(`SlotsCounted`, `CountedGone`, `ParticipantsLive`, `ParkedRuns`). It holds for every
kernel, also for those that use the barriers wrongly. `ClusterBarrierSeparates`
(`ClusterSeparates`) does too: no warp passes its k-th barrier.cluster.wait before all CTAs
of the group are issued and every live warp of it has arrived k times, its stores before
that arrive complete and visible. The invariant, `ClusterInv`, ties the two counters of the
barrier to what the warps have executed (`PhaseInv`): a warp that arrived in the current
phase has arrived once more than there were completed phases, and one that did not, as
often; a CTA that is not issued holds the phase back (`IssuedKnown`); and the stores of a
warp that are under way or not visible were issued after its last arrive (`StoresLater`),
because an arrive is not issued before.

The named barriers (`BarrierSeparates`) separate only when the kernel uses them as PTX
asks, because the code counts arrivals and does not look whose they are.
`KernelsWellFormed` says so of the instructions: in a CTA a barrier is used either by
bar.sync of the whole CTA, or always with the number of warps that use it as its count.
`TakesTurns` says of a state that no warp comes to a barrier at which its last bar.arrive
has not been consumed yet; a warp that does is counted twice for one warp that is
missing. `NamedBarrierSeparates` proves `BarrierSeparates` for well-formed kernels in
every execution that keeps `TakesTurns`, and `SyncSeparates` for every execution of
well-formed kernels in which a warp's bar.arrive at a barrier is its last use of it
(`ArrivesLast`; all kernels without bar.arrive are such). TLC evaluates the conditions on
the kernels of the instance as an assumption of `MCCtaSync`: all are well-formed, and all
but the pipelines are `ArrivesLast`; a pipeline keeps `TakesTurns` because the consumer's
bar.arrive comes after its bar.sync (TLC agrees when `TakesTurns` is added to the run's
invariants). The invariant,
`BarrierInv`, gives every barrier of a slot a number R of completed rounds (`Round`): a
warp whose arrival is counted has reached R + 1 uses and is parked there if that use is a
bar.sync; of the others, those that still take part have reached R, and one that takes
part no longer has passed no bar.sync beyond R. The number of arrivals is the count the
code keeps (`BarrierKept`), a bar.arrive that is delivered late is the last use its warp
has executed and not counted yet (`EntriesKnown`), and the stores of a warp that are under
way or not visible were issued after its last use of a barrier (`StoresBehind`). A warp
that exits may complete a barrier of the whole CTA, a bar.arrive may be delivered after
its warp's last instruction, and both may happen in one step (`ProcessBarrier`,
`ExitBarrier`): there R grows although no warp reaches the barrier.

**`StreamManagerProofs`**, for any threads, streams, events and number of operations.
`TypeCorrect`, `FinishedKernelIsFront` (`FinishedIsFront`), `NoStreamDangles`
(`NoDangling`), `NullStreamIsBarrier` (`ZeroIsBarrier`) and the action property
`SynchronizeWaits` (`ReturnsComplete`), under `OrderlyPrograms`: parents do not launch
children while several kernels finish in one GPU cycle, and waits on every stream for
recorded events go with neither device launches nor destroyed streams. The first
excludes the double retirement of section 3. The second excludes a thread that walks
over the streams while another removes them: `stream_manager::push` of a wait on all
streams keeps no lock between two of them. All programs of the instance are orderly.
The properties are about different places that must agree, which is what `IndInv` says:
an operation has one place, a call that has not pushed it, a pending device launch, one
queue or the set of applied ones (`QueuesSound`, `CallsWait`, `LaunchesWait`); a
launched kernel is at the front of its stream, and that stream is busy (`GridFront`);
the lists of the GPU and of children refer to such kernels (`GpuSound`, `KidsSound`); a
CTA's stream is its own and lives while its kernel does (`CtaStreamsSound`); a queue
that is not empty and a call in progress refer to streams that exist (`StreamsSound`);
every operation of a thread is complete, queued or being pushed by it (`OwnersSound`,
`MineAccounted`); and the NULL stream holds only operations whose thread waits for them
and had everything complete before (`ZeroHeld`), which makes a blocking push a barrier.

What stays with TLC, and why.

- Liveness (`EveryWaitEnds`, `EveryTryWaitReturns`, `EveryWaitReturns`,
  `EveryControlEnds`, `EveryCtaFinishes`, `EveryRequestServed`, `EveryCallReturns`): the
  prover does not treat fairness.
- `DsmFabric` (`AccountsExact`, `DataInOrder`): its accounts are sums over the packets in
  queues and reservations, whose value can only be followed by induction over data; a
  proof needs a reservation per packet, which relates each step to one packet.
  `NeverStuck` is false for long packets (`dsm_fabric_long`) and rests on the sizes of
  the instance otherwise.
- That a kernel takes turns at its barriers (`TakesTurns`) when its warps arrive more than
  once without bar.sync, like the pipelines of `MCCtaSync`: it depends on what the other
  warps of the kernel do in between, so it is a hypothesis of `NamedBarrierSeparates`.
- `WaitFollowsRecord`: it holds when an event is recorded on one stream at a time, as in
  the instance.

## 5. Not modelled

Data (payloads, addresses, descriptors, tensor-memory words, arithmetic),
statistics, logging and diagnostics, the hang watchdog; the exact timing of lanes,
latencies and issue intervals outside tcgen05; the inherited pipeline, scoreboard,
crossbar and DRAM; the functional PTX semantics; the runtime API apart from streams
and events; the power model and vendored code. Of the modelled components:

- the idealized TMA path, which completes at a precomputed cycle, enters `BulkGroup`
  as a completion in any order only;
- the grants of the shared-memory service are left open, and an operation on the
  SM's own memory, for which `dsm_try_issue` has a branch, is left out: lane
  operations are created for addresses of another SM only;
- caches: write allocate with fetch on write, allocation on fill, read-only and
  texture caches, forced tag access, the multi-issue L2 with deferred write-backs,
  ports;
- streams: `stop_all_running_kernels` (limits on cycles, instructions, CTAs), the
  sequential simulation thread, SST, more than one level of device launches;
- WGMMA tracking, which counts like the ledgers that are modelled.

Most of the repository's lines are of these kinds (instruction semantics, API
tables, vendored headers, power model), which is why the map covers a small share
of them.

## 6. Plan

Theorems to prove next, in this order; the modules are written without RECURSIVE
operators.

1. `DsmFabric`: `AccountsExact` with a reservation per packet.
2. `DsmEndpoint`: an abstract specification, a set of outstanding operations each applied
   once and reported after it was applied; the invariant of `DsmEndpointProofs` has what
   the refinement needs.

Models that would add most: the rotating grants of the shared-memory service, WGMMA
tracking against the specification of bulk groups, and the composition of
`DsmEndpoint` with `Mbarrier` (the order of an arrive and the stores before it).
