--------------------------- MODULE StreamManager ---------------------------
(***************************************************************************)
(* CUDA streams: stream_manager and CUstream_st, the host threads that     *)
(* push operations and wait for them, and the simulation thread that takes *)
(* operations off the streams, launches kernels and retires them.          *)
(*                                                                         *)
(* A section under m_lock is one step, guarded by the lock being free;     *)
(* only destroy_stream keeps m_lock over several steps.  A host thread     *)
(* that spins is a step whose guard is the condition it spins on.  Copies  *)
(* of every direction are one type of operation, and a kernel is named by  *)
(* the identifier of its launch.  No limit on cycles, instructions or CTAs *)
(* is configured, and the SST mode is off.                                 *)
(***************************************************************************)
EXTENDS Naturals, Sequences, FiniteSets, SequencesExt

CONSTANTS
    Hosts,         \* host threads
    Streams,       \* streams that hosts create
    DevStreams,    \* default streams of CTAs that launch child kernels
    Events,
    Programs,      \* the kinds of host program, see ProgramsAssumption
    Zero,          \* m_stream_zero, the NULL stream
    Sim,           \* the simulation thread
    None,
    MaxRunning,    \* size of m_running_kernels
    LaunchLatency, \* g_kernel_launch_latency
    ChildBurst,    \* bound: children a kernel creates in one step
    MaxOps         \* bound: operations and kernels of one behaviour

Ids == 1..MaxOps
AllStreams == Streams \cup DevStreams \cup {Zero}

\* What a host program uses.  hosts: its threads; streams:
\* the streams it creates; owner: the thread that uses a
\* stream or an event; recordOn: the streams an event is recorded on;
\* launchBlocking: CUDA_LAUNCH_BLOCKING; functional: kernels are simulated
\* functionally; children: kernels launch kernels; waitAll: an event is awaited
\* on every stream; together: several kernels may finish in one GPU cycle;
\* destroys: the threads that destroy streams;
\* enqueues: copies, kernels or both are pushed; exits: cudaThreadExit is called;
\* ops: bound on its operations.
ASSUME ProgramsAssumption ==
    Programs \subseteq [hosts : SUBSET Hosts, streams : SUBSET Streams,
                        owner : [Streams \cup Events -> Hosts],
                        recordOn : [Events -> SUBSET (Streams \cup {Zero})],
                        launchBlocking : BOOLEAN, functional : BOOLEAN,
                        children : BOOLEAN, waitAll : BOOLEAN, together : BOOLEAN,
                        destroys : SUBSET Hosts,
                        enqueues : SUBSET {"copy", "kernel"}, exits : BOOLEAN, ops : 0..MaxOps]
ASSUME NamesAssumption ==
    /\ Streams \cap DevStreams = {} /\ Zero \notin Streams \cup DevStreams
    /\ None \notin AllStreams \cup Ids \cup Hosts
    /\ Sim \notin Hosts
ASSUME BoundAssumption == /\ {MaxRunning, MaxOps} \subseteq Nat \ {0}
                          /\ {LaunchLatency, ChildBurst} \subseteq Nat

VARIABLES
    prog,          \* the kind of program, fixed
    ops, pending,  \* m_operations and m_pending of each stream
    m_streams,     \* the list of concurrent streams
    m_last_stream, \* the stream served last; None is m_streams.end()
    created,       \* streams created so far
    mlock,         \* the thread that holds m_lock over several steps, or None
    gridStream,    \* m_grid_id_to_stream, a partial function
    latency,       \* m_launch_latency of each kernel
    running,       \* m_running_kernels
    finished,      \* m_finished_kernel
    functional,    \* m_functional_sim_kernel
    children,      \* m_child_kernels
    ctaStream,     \* m_cta_streams
    devLaunch,     \* g_cuda_device_launch_op
    updates,       \* m_updates of each event
    recorded,      \* the records of each event so far; m_issued is their number
    simPc, check, toReap,    \* the simulation thread: where it is, what
                             \* check_finished_kernel returned, streams to destroy
    g_sim_active, g_sim_done,
    call,          \* the call each host thread is in
    nextId,        \* identifiers given out
    parent, mine,  \* history: parents of kernels, operations of each host
    applied        \* operations that took effect; kernels whose CTAs are all done

streamVars == <<ops, pending, m_streams, m_last_stream, created, mlock>>
gpuVars == <<latency, running, finished, functional, children, ctaStream, devLaunch, parent>>
simVars == <<simPc, check, toReap, g_sim_active>>
hostVars == <<call, recorded, mine>>
vars == <<prog, streamVars, gridStream, gpuVars, updates, simVars, g_sim_done, hostVars,
          nextId, applied>>

Operations == [id : Ids, type : {"copy", "kernel", "event", "wait"}, e : Events \cup {None},
               cnt : Nat, host : Hosts \cup {Sim}]
Idle == [pc |-> "idle"]
CallTypes ==
    [pc : {"idle", "sync", "exit", "gone"}]
        \cup [pc : {"streamSync", "destroyLock", "destroyErase"}, s : Streams]
        \cup [pc : {"eventSync"}, e : Events]
        \cup [pc : {"block", "push", "drain", "next"}, s : AllStreams,
              op : Operations, all : BOOLEAN]

Init ==
    /\ prog \in Programs
    /\ ops = [s \in AllStreams |-> <<>>]
    /\ pending = [s \in AllStreams |-> FALSE]
    /\ m_streams = <<>> /\ m_last_stream = None /\ created = {} /\ mlock = None
    /\ gridStream = [k \in {} |-> Zero]
    /\ latency = [k \in Ids |-> LaunchLatency]
    /\ running = {} /\ finished = <<>> /\ functional = None
    /\ children = [k \in Ids |-> {}]
    /\ ctaStream = [k \in Ids |-> None]
    /\ devLaunch = <<>>
    /\ parent = [k \in Ids |-> None]
    /\ updates = [e \in Events |-> 0]
    /\ recorded = [e \in Events |-> <<>>]
    /\ simPc = "spin" /\ check = FALSE /\ toReap = {}
    /\ g_sim_active = FALSE /\ g_sim_done = FALSE
    /\ call = [h \in Hosts |-> Idle]
    /\ nextId = 1
    /\ mine = [h \in Hosts |-> {}]
    /\ applied = {}

num_issued(e) == Len(recorded[e])

\* Mutant: only the first stream is looked at.
first_stream_empty == ops[IF m_streams = <<>> THEN Zero ELSE Head(m_streams)] = <<>>

concurrent_streams_empty == \A s \in ToSet(m_streams) : ops[s] = <<>>
empty == concurrent_streams_empty /\ ops[Zero] = <<>>
Begin(list) == IF list = <<>> THEN None ELSE Head(list)

(***************************************************************************)
(* Host threads.                                                           *)
(***************************************************************************)
Starts(h) == h \in prog.hosts /\ call[h] = Idle /\ ~g_sim_done
Goto(h, c) == call' = [call EXCEPT ![h] = c]

\* cudaStreamCreate
StreamCreate(h, s) ==
    /\ Starts(h) /\ s \in prog.streams \ created /\ prog.owner[s] = h
    /\ mlock = None
    /\ created' = created \cup {s}
    /\ m_streams' = Append(m_streams, s)
    /\ UNCHANGED <<prog, ops, pending, m_last_stream, mlock, gridStream, gpuVars, updates,
                   simVars, g_sim_done, hostVars, nextId, applied>>

\* The streams a host thread passes to the runtime.
Usable(h) == {s \in ToSet(m_streams) \cap Streams : prog.owner[s] = h}

\* Mutant: an operation of the NULL stream is not held back.
PushCallAtOnce(h, s, type, e, cnt, all) ==
    [pc |-> "push", s |-> s, all |-> all,
     op |-> [id |-> nextId, type |-> type, e |-> e, cnt |-> cnt, host |-> h]]

\* The call of stream_manager::push with a new operation.
PushCall(h, s, type, e, cnt, all) ==
    [pc |-> IF s = Zero \/ prog.launchBlocking THEN "block" ELSE "push", s |-> s, all |-> all,
     op |-> [id |-> nextId, type |-> type, e |-> e, cnt |-> cnt, host |-> h]]

NewOperation(h, s, type, e, cnt, all) ==
    /\ nextId <= prog.ops
    /\ nextId' = nextId + 1
    /\ mine' = [mine EXCEPT ![h] = @ \cup {nextId}]
    /\ Goto(h, PushCall(h, s, type, e, cnt, all))
    /\ UNCHANGED <<prog, streamVars, gridStream, gpuVars, updates, simVars, g_sim_done, applied>>

\* A memory copy or a kernel launch.
Enqueue(h, s, type) ==
    /\ Starts(h) /\ s \in Usable(h) \cup {Zero}
    /\ NewOperation(h, s, type, None, 0, FALSE)
    /\ UNCHANGED recorded

\* cudaEventRecord counts the record before it is pushed.
EventRecord(h, e, s) ==
    /\ Starts(h) /\ prog.owner[e] = h /\ s \in prog.recordOn[e] \cap (Usable(h) \cup {Zero})
    /\ NewOperation(h, s, "event", e, 0, FALSE)
    /\ recorded' = [recorded EXCEPT ![e] = Append(@, nextId)]

\* cudaStreamWaitEvent on one stream.
StreamWaitEvent(h, e, s) ==
    /\ Starts(h) /\ prog.owner[e] = h /\ s \in Usable(h)
    /\ num_issued(e) > 0
    /\ NewOperation(h, s, "wait", e, num_issued(e), FALSE)
    /\ UNCHANGED recorded

\* pushCudaStreamWaitEventToAllStreams: the first stream, then in
\* WaitEventOnNext the following ones; the list is read without m_lock.
WaitEventOnAll(h, e) ==
    /\ prog.waitAll
    /\ Starts(h) /\ prog.owner[e] = h /\ m_streams # <<>>
    /\ num_issued(e) > 0
    /\ NewOperation(h, Head(m_streams), "wait", e, num_issued(e), TRUE)
    /\ UNCHANGED recorded

Position(s) == SelectInSeq(m_streams, LAMBDA x : x = s)

WaitEventOnNext(h) ==
    /\ call[h].pc = "next"
    /\ IF Position(call[h].s) < Len(m_streams) /\ nextId <= prog.ops
       THEN LET e == call[h].op.e
            IN  NewOperation(h, m_streams[Position(call[h].s) + 1], "wait", e, num_issued(e), TRUE)
       ELSE /\ Goto(h, Idle)
            /\ UNCHANGED <<prog, streamVars, gridStream, gpuVars, updates, simVars, g_sim_done,
                           mine, nextId, applied>>
    /\ UNCHANGED recorded

\* Where a host thread goes when push returns.
AfterPush(c) == IF c.all THEN [c EXCEPT !.pc = "next"] ELSE Idle

\* push: spin until no concurrent stream has an operation.
PushBlock(h) ==
    /\ call[h].pc = "block"
    /\ mlock = None /\ concurrent_streams_empty
    /\ Goto(h, [call[h] EXCEPT !.pc = "push"])
    /\ UNCHANGED <<prog, streamVars, gridStream, gpuVars, updates, simVars, g_sim_done, recorded,
                   mine, nextId, applied>>

\* push: append the operation to its stream, or to stream zero.
Push(h) ==
    LET c == call[h]
        blocks == c.s = Zero \/ prog.launchBlocking
        s == IF blocks THEN Zero ELSE c.s
    IN  /\ c.pc = "push"
        /\ mlock = None
        /\ ops' = [ops EXCEPT ![s] = Append(@, c.op)]
        /\ Goto(h, IF blocks THEN [c EXCEPT !.pc = "drain"] ELSE AfterPush(c))
        /\ UNCHANGED <<prog, pending, m_streams, m_last_stream, created, mlock, gridStream,
                       gpuVars, updates, simVars, g_sim_done, recorded, mine, nextId, applied>>

\* push: a blocking operation spins until every stream is empty.
PushDrain(h) ==
    /\ call[h].pc = "drain"
    /\ empty
    /\ Goto(h, AfterPush(call[h]))
    /\ UNCHANGED <<prog, streamVars, gridStream, gpuVars, updates, simVars, g_sim_done, recorded,
                   mine, nextId, applied>>

\* cudaDeviceSynchronize, cudaThreadSynchronize, cudaStreamSynchronize(NULL),
\* cudaEventSynchronize, cudaStreamDestroy and cudaThreadExit are entered here.
\* cudaStreamSynchronize of another stream returns without waiting and is no
\* step.  A program ends the simulation when no other host thread is in a call.
StartWait(h) ==
    /\ Starts(h)
    /\ \/ /\ Goto(h, [pc |-> "sync"])
          /\ UNCHANGED g_sim_done
       \/ \E e \in {x \in Events : prog.owner[x] = h /\ num_issued(x) > 0} :
             /\ Goto(h, [pc |-> "eventSync", e |-> e])
             /\ UNCHANGED g_sim_done
       \/ \E s \in Usable(h) :
             /\ h \in prog.destroys
             /\ Goto(h, [pc |-> "streamSync", s |-> s])
             /\ UNCHANGED g_sim_done
       \/ /\ prog.exits /\ \A g \in Hosts : call[g] = Idle
          /\ Goto(h, [pc |-> "exit"])
          /\ g_sim_done' = TRUE
    /\ UNCHANGED <<prog, streamVars, gridStream, gpuVars, updates, simVars, recorded, mine,
                   nextId, applied>>

\* What ends each wait: gpgpu_context::synchronize, CUevent_st::done,
\* CUstream_st::synchronize, the semaphore of exit_simulation.
EndWait(h) ==
    /\ \/ /\ call[h].pc = "sync"
          /\ (empty /\ ~g_sim_active) \/ g_sim_done
          /\ Goto(h, Idle)
       \/ /\ call[h].pc = "eventSync"
          /\ updates[call[h].e] = num_issued(call[h].e)
          /\ Goto(h, Idle)
       \/ /\ call[h].pc = "streamSync"
          /\ ops[call[h].s] = <<>>
          /\ Goto(h, [call[h] EXCEPT !.pc = "destroyLock"])
       \/ /\ call[h].pc = "exit"
          /\ simPc = "exited"
          /\ Goto(h, [pc |-> "gone"])
    /\ UNCHANGED <<prog, streamVars, gridStream, gpuVars, updates, simVars, g_sim_done, recorded,
                   mine, nextId, applied>>

\* Mutant: the round-robin position is left on the destroyed stream.
EraseKeepsLast(s) ==
    /\ ops[s] = <<>>
    /\ m_streams' = RemoveFirst(m_streams, s)
    /\ mlock' = None
    /\ UNCHANGED m_last_stream

\* destroy_stream holds m_lock while it spins on the stream.
EraseStream(s) ==
    /\ ops[s] = <<>>
    /\ m_streams' = RemoveFirst(m_streams, s)
    /\ m_last_stream' = Begin(RemoveFirst(m_streams, s))
    /\ mlock' = None

DestroyLock(h) ==
    /\ call[h].pc = "destroyLock" /\ mlock = None
    /\ mlock' = h
    /\ Goto(h, [call[h] EXCEPT !.pc = "destroyErase"])
    /\ UNCHANGED <<prog, ops, pending, m_streams, m_last_stream, created, gridStream, gpuVars,
                   updates, simVars, g_sim_done, recorded, mine, nextId, applied>>

DestroyErase(h) ==
    /\ call[h].pc = "destroyErase"
    /\ EraseStream(call[h].s)
    /\ Goto(h, Idle)
    /\ UNCHANGED <<prog, ops, pending, created, gridStream, gpuVars, updates, simVars,
                   g_sim_done, recorded, mine, nextId, applied>>

(***************************************************************************)
(* The simulation thread, gpgpu_sim_thread_concurrent.                     *)
(***************************************************************************)
simHostUnchanged == UNCHANGED <<prog, hostVars, g_sim_done>>

SimDetect ==
    /\ simPc = "spin" /\ mlock = None
    /\ ~empty \/ g_sim_done
    /\ simPc' = "start"
    /\ simHostUnchanged
    /\ UNCHANGED <<streamVars, gridStream, gpuVars, updates, check, toReap, g_sim_active,
                   nextId, applied>>

SimStart ==
    /\ simPc = "start"
    /\ g_sim_active' = TRUE
    /\ simPc' = "check"
    /\ simHostUnchanged
    /\ UNCHANGED <<streamVars, gridStream, gpuVars, updates, check, toReap, nextId, applied>>

\* The kernels that register_finished_kernel(k) retires: k when it is done and
\* has no child left, and then its parent likewise (notify_parent_finished).
Retires(k, kids, done) ==
    LET p == parent[k]
    IN  IF k \notin done \/ kids[k] # {} THEN {}
        ELSE IF p # None /\ p \in done /\ kids[p] = {k} THEN {k, p} ELSE {k}

\* record_next_done of the retired kernels' streams and their deletion.
Retire(R, queues, kids) ==
    LET freed == {gridStream[k] : k \in R}
    IN  /\ ops' = [s \in AllStreams |-> IF s \in freed THEN Tail(queues[s]) ELSE queues[s]]
        /\ pending' = [s \in AllStreams |-> pending[s] /\ s \notin freed]
        /\ gridStream' = [k \in DOMAIN gridStream \ R |-> gridStream[k]]
        /\ children' = [k \in Ids |-> kids[k] \ R]
        /\ toReap' = {ctaStream[k] : k \in R} \ {None}

\* operation(): check_finished_kernel, outside m_lock.
SimCheck ==
    /\ simPc = "check"
    /\ LET R == IF finished = <<>> THEN {} ELSE Retires(Head(finished), children, applied)
       IN  /\ Retire(R, ops, children)
           /\ check' = (R # {})
    /\ finished' = IF finished = <<>> THEN <<>> ELSE Tail(finished)
    /\ simPc' = IF toReap' = {} THEN "front" ELSE "reap"
    /\ simHostUnchanged
    /\ UNCHANGED <<m_streams, m_last_stream, created, mlock, latency, running, functional,
                   ctaStream, devLaunch, parent, updates, g_sim_active, nextId, applied>>

\* The destructor of a retired kernel destroys the streams of its CTAs.
SimReap ==
    /\ simPc = "reap" /\ mlock = None
    /\ \E s \in toReap :
          /\ EraseStream(s)
          /\ toReap' = toReap \ {s}
          /\ IF toReap # {s} THEN UNCHANGED <<simPc, functional>>
             ELSE /\ simPc' = IF functional = None THEN "front" ELSE "tail"
                  /\ functional' = None
    /\ simHostUnchanged
    /\ UNCHANGED <<ops, pending, created, gridStream, latency, running, finished, children,
                   ctaStream, devLaunch, parent, updates, check, g_sim_active, nextId, applied>>

\* Mutant: a stream whose front operation is under way is served again.
ReadyThoughPending(s) == ops[s] # <<>>

\* front(): stream zero, else the streams in turn after m_last_stream.
Ready(s) == ops[s] # <<>> /\ ~pending[s]
Turns == LET i == Position(m_last_stream)
         IN  SubSeq(m_streams, i + 1, Len(m_streams)) \o SubSeq(m_streams, 1, i)
Chosen == IF Ready(Zero) THEN Zero
          ELSE LET i == SelectInSeq(Turns, Ready) IN IF i = 0 THEN None ELSE Turns[i]

\* Mutant: the round robin always starts at the same stream.
LastServedFixed == m_last_stream

LastServed ==
    IF Ready(Zero) \/ m_streams = <<>> THEN m_last_stream
    ELSE IF Chosen # None THEN Chosen ELSE Last(Turns)

\* Mutant: any earlier record of the event satisfies a wait.
PerformOnAnyUpdate(s, op) ==
    /\ op.type # "kernel"
    /\ op.type = "wait" => updates[op.e] > 0
    /\ updates' = IF op.type = "event" THEN [updates EXCEPT ![op.e] = @ + 1] ELSE updates
    /\ applied' = applied \cup {op.id}
    /\ ops' = [ops EXCEPT ![s] = Tail(@)]
    /\ UNCHANGED <<pending, gridStream, latency, running, functional>>

\* do_operation: an operation that takes effect at once leaves its stream.
Perform(s, op) ==
    /\ op.type # "kernel"
    /\ op.type = "wait" => updates[op.e] >= op.cnt
    /\ updates' = IF op.type = "event" THEN [updates EXCEPT ![op.e] = @ + 1] ELSE updates
    /\ applied' = applied \cup {op.id}
    /\ ops' = [ops EXCEPT ![s] = Tail(@)]
    /\ UNCHANGED <<pending, gridStream, latency, running, functional>>

\* do_operation: a kernel is launched and stays at the front of its stream.
can_start_kernel == Cardinality(running) < MaxRunning

Launch(s, op) ==
    /\ op.type = "kernel"
    /\ IF prog.functional
       THEN functional' = op.id /\ UNCHANGED running
       ELSE /\ can_start_kernel /\ latency[op.id] = 0
            /\ running' = running \cup {op.id}
            /\ UNCHANGED functional
    /\ pending' = [pending EXCEPT ![s] = TRUE]
    /\ gridStream' = [k \in DOMAIN gridStream \cup {op.id} |-> IF k = op.id THEN s ELSE gridStream[k]]
    /\ UNCHANGED <<ops, updates, applied, latency>>

\* do_operation returned false: the operation stays, cancel_front.
Cancel(s, op) ==
    /\ \/ /\ op.type = "wait" /\ updates[op.e] < op.cnt
          /\ UNCHANGED latency
       \/ /\ op.type = "kernel" /\ ~prog.functional
          /\ ~can_start_kernel \/ latency[op.id] > 0
          /\ latency' = [latency EXCEPT ![op.id] = IF @ = 0 THEN 0 ELSE @ - 1]
    /\ UNCHANGED <<ops, pending, gridStream, updates, applied, running, functional>>

\* operation() under m_lock; the loop ends when a kernel was retired and the GPU
\* is idle (memory traffic may keep an empty GPU active for some cycles).
SimOperation ==
    /\ simPc = "front" /\ mlock = None
    /\ m_last_stream' = LastServed
    /\ IF Chosen = None
       THEN UNCHANGED <<ops, pending, gridStream, updates, applied, latency, running, functional>>
       ELSE LET op == Head(ops[Chosen])
            IN  Perform(Chosen, op) \/ Launch(Chosen, op) \/ Cancel(Chosen, op)
    /\ simPc' \in IF check /\ running' = {} THEN {"stop", "cycle"} ELSE {"cycle"}
    /\ check' = FALSE
    /\ simHostUnchanged
    /\ UNCHANGED <<m_streams, created, mlock, finished, children, ctaStream, devLaunch, parent,
                   toReap, g_sim_active, nextId>>

\* Where the n children that kernel k creates in one step go; only kernels
\* launched by a host launch others, and not under CUDA_LAUNCH_BLOCKING.
ChildStreams(k, n) ==
    IF n = 0 THEN {None}
    ELSE IF \/ ~prog.children \/ prog.launchBlocking
            \/ parent[k] # None \/ nextId + n > prog.ops + 1 THEN {}
    ELSE IF ctaStream[k] # None THEN {ctaStream[k]} ELSE DevStreams \ created

NewChildren(n) == nextId .. nextId + n - 1
ChildOp(i) == [id |-> i, type |-> "kernel", e |-> None, cnt |-> 0, host |-> Sim]
Adopted(k, n) == [children EXCEPT ![k] = @ \cup NewChildren(n)]

\* Kernel k creates n children for stream d, which joins the list if it is new.
CreateChildren(k, n, d) ==
    /\ created' = created \cup ({d} \ {None})
    /\ m_streams' = IF d \in created \cup {None} THEN m_streams ELSE Append(m_streams, d)
    /\ ctaStream' = IF n = 0 THEN ctaStream ELSE [ctaStream EXCEPT ![k] = d]
    /\ parent' = [c \in Ids |-> IF c \in NewChildren(n) THEN k ELSE parent[c]]
    /\ nextId' = nextId + n

\* One GPU cycle: the kernels F finish their last CTA, kernel k launches n
\* children, and at the end launch_one_device_kernel pushes one child.  Memory
\* traffic may keep the GPU active for some cycles after its last kernel.
SimCycle(F, k, n) ==
    /\ simPc = "cycle" /\ functional = None
    /\ running # {} \/ devLaunch # <<>>
    /\ Cardinality(F) <= 1 \/ prog.together
    /\ \E d \in ChildStreams(k, n) :
          LET queue == devLaunch \o [i \in 1..n |-> [id |-> nextId + i - 1, s |-> d]]
          IN  /\ queue # <<>> => mlock = None
              /\ CreateChildren(k, n, d)
              /\ ops' = IF queue = <<>> THEN ops
                        ELSE [ops EXCEPT ![Head(queue).s] = Append(@, ChildOp(Head(queue).id))]
              /\ devLaunch' = IF queue = <<>> THEN queue ELSE Tail(queue)
    /\ children' = IF n = 0 THEN children ELSE Adopted(k, n)
    /\ running' = running \ F
    /\ \E order \in SetToSeqs(F) : finished' = finished \o order
    /\ applied' = applied \cup F
    /\ simPc' = "tail"
    /\ simHostUnchanged
    /\ UNCHANGED <<pending, m_last_stream, mlock, gridStream, latency, functional, updates,
                   check, toReap, g_sim_active>>

\* Functional simulation of a kernel: it runs to its end, its children are
\* pushed, and it is registered as finished.
SimFunctional(n) ==
    /\ simPc = "cycle" /\ functional # None
    /\ \E d \in ChildStreams(functional, n) :
          /\ n > 0 => mlock = None
          /\ CreateChildren(functional, n, d)
          /\ Retire(Retires(functional, Adopted(functional, n), applied \cup {functional}),
                    [s \in AllStreams |-> ops[s] \o [i \in 1..(IF s = d THEN n ELSE 0) |->
                                                        ChildOp(nextId + i - 1)]],
                    Adopted(functional, n))
    /\ applied' = applied \cup {functional}
    /\ simPc' = IF toReap' = {} THEN "tail" ELSE "reap"
    /\ functional' = IF toReap' = {} THEN None ELSE functional
    /\ simHostUnchanged
    /\ UNCHANGED <<m_last_stream, mlock, latency, running, finished, devLaunch, updates, check,
                   g_sim_active>>

\* The condition of the inner loop, after a cycle or without work for the GPU.
SimTail ==
    /\ simPc = "tail" \/ (simPc = "cycle" /\ functional = None /\ running = {})
    /\ running # {} \/ mlock = None
    /\ simPc' = IF (running # {} \/ ~empty) /\ ~g_sim_done THEN "check" ELSE "stop"
    /\ simHostUnchanged
    /\ UNCHANGED <<streamVars, gridStream, gpuVars, updates, check, toReap, g_sim_active,
                   nextId, applied>>

SimStop ==
    /\ simPc = "stop"
    /\ g_sim_active' = FALSE
    /\ simPc' = IF g_sim_done THEN "exited" ELSE "spin"
    /\ simHostUnchanged
    /\ UNCHANGED <<streamVars, gridStream, gpuVars, updates, check, toReap, nextId, applied>>

-----------------------------------------------------------------------------
SimRuns ==
    \/ SimDetect \/ SimStart \/ SimCheck \/ SimReap \/ SimOperation \/ SimTail \/ SimStop
    \/ \E F \in SUBSET running : SimCycle(F, None, 0)
    \/ \E F \in SUBSET running, k \in running, n \in 1..ChildBurst : SimCycle(F, k, n)
    \/ \E n \in 0..ChildBurst : SimFunctional(n)

\* A host thread that is inside a call goes on with it.
HostReturns(h) ==
    \/ PushBlock(h) \/ Push(h) \/ PushDrain(h) \/ WaitEventOnNext(h)
    \/ EndWait(h) \/ DestroyLock(h) \/ DestroyErase(h)

HostCalls(h) ==
    \/ \E s \in Streams : StreamCreate(h, s)
    \/ \E s \in Streams \cup {Zero}, type \in prog.enqueues : Enqueue(h, s, type)
    \/ \E e \in Events, s \in Streams \cup {Zero} : EventRecord(h, e, s)
    \/ \E e \in Events, s \in Streams : StreamWaitEvent(h, e, s)
    \/ \E e \in Events : WaitEventOnAll(h, e)
    \/ StartWait(h)

\* After cudaThreadExit nothing is left to do.
Exited == simPc = "exited" /\ (\A h \in Hosts : call[h].pc \in {"idle", "gone"}) /\ UNCHANGED vars

Next == SimRuns \/ (\E h \in Hosts : HostCalls(h) \/ HostReturns(h)) \/ Exited

\* The simulation thread and a host thread inside a call keep running, and a
\* running kernel finishes some day.
Fairness ==
    /\ WF_vars(SimRuns)
    /\ \A h \in Hosts : WF_vars(HostReturns(h))
    /\ SF_vars(\E F \in (SUBSET running) \ {{}} : SimCycle(F, None, 0))

Spec == Init /\ [][Next]_vars /\ Fairness

-----------------------------------------------------------------------------
\* Every variable has the type its declaration says.
TypeOK ==
    /\ prog \in Programs
    /\ ops \in [AllStreams -> Seq(Operations)]
    /\ pending \in [AllStreams -> BOOLEAN]
    /\ m_streams \in Seq(created) /\ created \subseteq Streams \cup DevStreams
    /\ m_last_stream \in Streams \cup DevStreams \cup {None}
    /\ mlock \in Hosts \cup {None}
    /\ \A k \in DOMAIN gridStream : k \in Ids /\ gridStream[k] \in AllStreams
    /\ latency \in [Ids -> 0..LaunchLatency]
    /\ running \subseteq Ids /\ finished \in Seq(Ids) /\ functional \in Ids \cup {None}
    /\ children \in [Ids -> SUBSET Ids] /\ parent \in [Ids -> Ids \cup {None}]
    /\ ctaStream \in [Ids -> DevStreams \cup {None}]
    /\ devLaunch \in Seq([id : Ids, s : DevStreams])
    /\ updates \in [Events -> Nat]
    /\ recorded \in [Events -> Seq(Ids)]
    /\ simPc \in {"spin", "start", "check", "reap", "front", "cycle", "tail", "stop", "exited"}
    /\ {check, g_sim_active, g_sim_done} \subseteq BOOLEAN
    /\ toReap \subseteq DevStreams
    /\ call \in [Hosts -> CallTypes]
    /\ nextId \in 1..MaxOps + 1
    /\ mine \in [Hosts -> SUBSET Ids] /\ applied \subseteq Ids

\* A kernel that runs, or that the GPU has reported finished, is the operation
\* at the front of the stream m_grid_id_to_stream names, so that
\* register_finished_kernel retires that kernel and no other.
FinishedIsFront ==
    \A k \in running \cup ToSet(finished) :
        /\ k \in DOMAIN gridStream
        /\ pending[gridStream[k]]
        /\ Head(ops[gridStream[k]]).id = k

\* An operation is complete when it has taken effect, and a kernel only when
\* the kernels it launched are too.
Complete(i) == i \in applied /\ \A c \in Ids : parent[c] = i => c \in applied

\* cudaDeviceSynchronize and a blocking push return only when every operation
\* this host thread pushed before is complete (unless the simulation ended).
ReturnsComplete ==
    [][\A h \in Hosts : /\ call[h].pc \in {"sync", "drain"} /\ call'[h] # call[h]
                       /\ ~g_sim_done
                       => \A i \in mine[h] : Complete(i)]_vars

\* An operation of the NULL stream finds every earlier operation of its host
\* thread complete, on whatever stream it was.
ZeroIsBarrier ==
    \A j \in DOMAIN ops[Zero] : LET op == ops[Zero][j] IN
        \A i \in (IF op.host = Sim THEN {} ELSE mine[op.host]) : i < op.id => Complete(i)

\* A wait for an event leaves its stream only when the record that was the
\* event's latest one at the call has been executed.
WaitFollowsRecord ==
    [][\A s \in AllStreams :
          /\ ops[s] # <<>> /\ Head(ops[s]).type = "wait" /\ ops'[s] # ops[s]
          /\ Head(ops[s]).id \in applied' \ applied
          => LET op == Head(ops[s]) IN recorded[op.e][op.cnt] \in applied]_vars

\* No stream that was destroyed is still referred to: by the round-robin
\* position, by a kernel, by a pending launch, or with operations in it.
NoDangling ==
    LET alive == ToSet(m_streams) \cup {Zero}
    IN  /\ m_last_stream \in alive \cup {None}
        /\ \A k \in DOMAIN gridStream : gridStream[k] \in alive
        /\ \A i \in DOMAIN devLaunch : devLaunch[i].s \in alive
        /\ \A s \in AllStreams \ alive : ops[s] = <<>>

\* Every call of a host thread returns.
EveryCallReturns == \A h \in Hosts : call[h].pc \notin {"idle", "gone"} ~> call[h].pc \in {"idle", "gone"}

=============================================================================
