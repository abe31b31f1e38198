------------------------------- MODULE Cache -------------------------------
(***************************************************************************)
(* A sectored data cache that allocates on a miss (gpu-cache.cc,            *)
(* gpu-cache.h) with its MSHR table (mshr-table.cc): the L1 data cache and  *)
(* the L2 slices are instances with different policies.  Requests come from *)
(* an in-order queue whose head is retried every cycle until the cache      *)
(* takes it; misses leave through the miss queue, memory answers them in    *)
(* any order, and the answers drain the merged readers one per cycle.       *)
(*                                                                         *)
(* The tags and their states are modelled, data and bytes are not: whether  *)
(* the bytes written so far cover a sector is left open, and so is which    *)
(* replaceable line is the least recently used one.                         *)
(***************************************************************************)
EXTENDS Integers, Sequences, FiniteSets, FiniteSetsExt

CONSTANTS
    NumLines,       \* lines of the tag array
    Blocks,         \* block addresses
    NoLine,         \* the tag of a line that was never allocated
    Sectors,        \* sectors of a line
    Home,           \* Home[b]: the ways of the set that b maps to
    Requests,       \* the requests of the programs: records [op, block, sector]
    Policies,       \* the policies checked: records [hit, alloc, wrPercent]
    MshrEntries,    \* m_mshr_entries
    MaxMerged,      \* m_mshr_max_merge
    MissQueueSize,  \* m_miss_queue_size
    MaxRequests     \* bound: requests of a behaviour

Ways == 0..(NumLines - 1)

ASSUME CacheAssumption ==
    /\ NumLines \in Nat \ {0}
    /\ NoLine \notin Blocks
    /\ Home \in [Blocks -> (SUBSET Ways) \ {{}}]
    /\ Requests \subseteq [op : {"read", "atomic", "write"}, block : Blocks, sector : Sectors]
    /\ Policies \subseteq [hit : {"wb", "wt", "we"}, alloc : {"lazy", "none"}, wrPercent : 0..100]
    /\ MshrEntries \in Nat \ {0}
    /\ MaxMerged \in Nat \ {0}
    /\ MissQueueSize \in Nat \ {0, 1}

VARIABLES
    policy,     \* the configuration of this cache
    lines,      \* lines[w]: tag and sectors of the tag array
    dirty,      \* m_dirty
    mshr,       \* mshr[a]: merged readers, ready and atomic flags; no readers, no entry
    response,   \* m_current_response: addresses whose readers are drained
    missQueue,  \* m_miss_queue: fetches, writes and write-backs
    memory,     \* fetches that memory has and has not answered
    port,       \* the request at the head of the queue in front of the cache
    issued,     \* requests so far
    strayed     \* history: what has separated a fetch from its line

vars == <<policy, lines, dirty, mshr, response, missQueue, memory, port, issued, strayed>>

-----------------------------------------------------------------------------
(* sector_cache_block. *)

NoRequest == [op |-> "none"]

Addrs == Blocks \X Sectors

\* A sector: its state, m_set_modified_on_fill, m_readable, m_set_readable_on_fill.
Sector(st, modifiedOnFill, readable, readableOnFill) ==
    [st |-> st, modifiedOnFill |-> modifiedOnFill,
     readable |-> readable, readableOnFill |-> readableOnFill]

BlankSector == Sector("INVALID", FALSE, TRUE, FALSE)

BlankLine == [block |-> NoLine, sec |-> [s \in Sectors |-> BlankSector]]

HasSector(l, st) == \E s \in Sectors : l.sec[s].st = st

is_invalid_line(l) == \A s \in Sectors : l.sec[s].st = "INVALID"

is_reserved_line(l) == HasSector(l, "RESERVED")

is_modified_line(l) == HasSector(l, "MODIFIED")

\* Sector s of line l becomes c.
WithSector(l, s, c) == [l EXCEPT !.sec[s] = c]

\* A sector that waits for its fetch.
ReservedSector(modified) == Sector("RESERVED", modified, TRUE, FALSE)

allocate_line(q) ==
    [block |-> q.block,
     sec |-> [s \in Sectors |-> IF s = q.sector THEN ReservedSector(FALSE) ELSE BlankSector]]

\* Mutant: the sector forgets that it was modified.
allocate_sector_clean(l, s) == WithSector(l, s, ReservedSector(FALSE))

allocate_sector(l, s) == WithSector(l, s, ReservedSector(l.sec[s].st = "MODIFIED"))

\* sector_cache_block::fill.
FilledLine(l, s) ==
    LET c == l.sec[s]
    IN  WithSector(l, s, Sector(IF c.modifiedOnFill THEN "MODIFIED" ELSE "VALID",
                                c.modifiedOnFill, c.readable \/ c.readableOnFill, FALSE))

-----------------------------------------------------------------------------
(* tag_array. *)

\* Lines of the set that hold the block of q, with some sector in use.
Matches(q) == {w \in Home[q.block] : lines[w].block = q.block /\ ~is_invalid_line(lines[w])}

\* Mutant: the percentage has to be exceeded.
replaceable_above(w) ==
    /\ ~is_reserved_line(lines[w])
    /\ \/ ~is_modified_line(lines[w])
       \/ dirty * 100 > policy.wrPercent * Cardinality(Ways)

\* A line with a fetch under way stays, and modified lines stay until their
\* share of the cache reaches m_wr_percent.
Replaceable(w) ==
    /\ ~is_reserved_line(lines[w])
    /\ \/ ~is_modified_line(lines[w])
       \/ dirty * 100 >= policy.wrPercent * Cardinality(Ways)

\* The candidates for replacement: the last invalid line before all others.
Victims(q) ==
    LET free == {w \in Home[q.block] : Replaceable(w)}
        invalid == {w \in free : is_invalid_line(lines[w])}
    IN  IF invalid # {} THEN {Max(invalid)} ELSE free

\* tag_array::probe: the first way that matches decides.
Probe(q) ==
    IF Matches(q) = {} THEN IF Victims(q) = {} THEN "RESERVATION_FAIL" ELSE "MISS"
    ELSE LET c == lines[Min(Matches(q))].sec[q.sector]
         IN  CASE c.st = "RESERVED" -> "HIT_RESERVED"
               [] c.st = "VALID" -> "HIT"
               [] c.st = "INVALID" -> "SECTOR_MISS"
               [] c.st = "MODIFIED" /\ (q.op = "write" \/ c.readable) -> "HIT"
               [] OTHER -> "SECTOR_MISS"

\* The lines the probe may name.
Indices(q) == IF Matches(q) = {} THEN Victims(q) ELSE {Min(Matches(q))}

\* The line after tag_array::access.
Accessed(q, w) ==
    CASE Probe(q) = "MISS" -> allocate_line(q)
      [] Probe(q) = "SECTOR_MISS" -> allocate_sector(lines[w], q.sector)
      [] OTHER -> lines[w]

\* m_dirty after tag_array::access.
DirtyAccessed(q, w) ==
    CASE Probe(q) = "MISS" -> IF is_modified_line(lines[w]) THEN dirty - 1 ELSE dirty
      [] Probe(q) = "SECTOR_MISS" ->
            IF is_modified_line(lines[w]) /\ ~is_modified_line(Accessed(q, w)) THEN dirty - 1
                                                                              ELSE dirty
      [] OTHER -> dirty

\* The access evicts a modified line.
Evicts(q, w) == Probe(q) = "MISS" /\ is_modified_line(lines[w])

\* set_status(MODIFIED) of a sector of line l; the bytes written so far may make
\* it readable (update_m_readable).
Modified(l, s, readable) ==
    WithSector(l, s, Sector("MODIFIED", l.sec[s].modifiedOnFill, readable, l.sec[s].readableOnFill))

\* inc_dirty, called before the status is set.
DirtyModified(l, d) == IF is_modified_line(l) THEN d ELSE d + 1

-----------------------------------------------------------------------------
(* mshr_table. *)

NoEntry == [n |-> 0, ready |-> FALSE, atomic |-> FALSE]

Entries == {a \in Addrs : mshr[a].n > 0}

probe(a) == mshr[a].n > 0 /\ ~mshr[a].ready

ready_for_forward(a) == mshr[a].n > 0 /\ mshr[a].ready /\ mshr[a].n < MaxMerged

\* Mutant: an entry that is being drained counts as free.
full_unless_pending(a) ==
    IF probe(a) THEN mshr[a].n >= MaxMerged ELSE Cardinality(Entries) > MshrEntries

full(a) ==
    \/ mshr[a].ready
    \/ IF mshr[a].n > 0 THEN mshr[a].n >= MaxMerged ELSE Cardinality(Entries) >= MshrEntries

Added(a, atomic) ==
    [mshr EXCEPT ![a] = [n |-> @.n + 1, ready |-> @.ready, atomic |-> @.atomic \/ atomic]]

-----------------------------------------------------------------------------
(* data_cache: one action per outcome of access.  A request that none of them *)
(* takes fails its reservation and is tried again.                           *)

Init ==
    /\ policy \in Policies
    /\ lines = [w \in Ways |-> BlankLine]
    /\ dirty = 0
    /\ mshr = [a \in Addrs |-> NoEntry]
    /\ response = <<>>
    /\ missQueue = <<>>
    /\ memory = <<>>
    /\ port = NoRequest
    /\ issued = 0
    /\ strayed = {}

\* The next request reaches the head of the queue; atomics are performed at
\* the L2 only.
Request(q) ==
    /\ port = NoRequest
    /\ issued < MaxRequests
    /\ q.op = "atomic" => policy.hit = "wb"
    /\ port' = q
    /\ issued' = issued + 1
    /\ UNCHANGED <<policy, lines, dirty, mshr, response, missQueue, memory, strayed>>

miss_queue_full(n) == Len(missQueue) + n >= MissQueueSize

Fetch(a, w) == [op |-> "fetch", addr |-> a, way |-> w]

WriteOf(q) == [op |-> "write", block |-> q.block]

WriteBack(b) == [op |-> "writeback", block |-> b]

Outstanding ==
    {missQueue[i] : i \in DOMAIN missQueue} \cup {memory[i] : i \in DOMAIN memory}

\* Taking line w over for q separates the fetches on their way to w from it.
Strays(q, w) ==
    IF Probe(q) = "MISS" /\ \E f \in Outstanding : f.op = "fetch" /\ f.way = w
    THEN strayed \cup {"replaced"} ELSE strayed

Taken == port' = NoRequest /\ UNCHANGED <<policy, response, memory, issued>>

\* rd_hit_base; an atomic modifies the line.
ReadHit ==
    /\ port.op \in {"read", "atomic"}
    /\ Probe(port) = "HIT"
    /\ LET w == Min(Matches(port))
           l == lines[w]
       IN  IF port.op = "atomic"
           THEN /\ lines' = [lines EXCEPT ![w] = Modified(l, port.sector, l.sec[port.sector].readable)]
                /\ dirty' = DirtyModified(l, dirty)
           ELSE UNCHANGED <<lines, dirty>>
    /\ Taken
    /\ UNCHANGED <<mshr, missQueue, strayed>>

\* What rd_miss_base asks before it looks at the MSHRs: room for a fetch and a
\* write-back.
ReadMisses ==
    /\ port.op \in {"read", "atomic"}
    /\ Probe(port) \notin {"HIT", "RESERVATION_FAIL"}
    /\ ~miss_queue_full(1)

\* send_read_request: a late read joins the response that is being drained and
\* allocates nothing.
ReadForward ==
    LET a == <<port.block, port.sector>>
    IN  /\ ReadMisses
        /\ port.op = "read"
        /\ ready_for_forward(a)
        /\ mshr' = Added(a, FALSE)
        /\ Taken
        /\ UNCHANGED <<lines, dirty, missQueue, strayed>>

\* send_read_request: the tags are accessed, the reader joins or makes the MSHR
\* entry of its sector, and a new entry sends a fetch; rd_miss_base then sends
\* the write-back of an evicted line unless the cache writes through.
ReadMiss ==
    LET a == <<port.block, port.sector>>
    IN  /\ ReadMisses
        /\ ~(port.op = "read" /\ ready_for_forward(a))
        /\ ~full(a)
        /\ \E w \in Indices(port) :
            /\ lines' = [lines EXCEPT ![w] = Accessed(port, w)]
            /\ dirty' = DirtyAccessed(port, w)
            /\ missQueue' = missQueue
                  \o (IF probe(a) THEN <<>> ELSE <<Fetch(a, w)>>)
                  \o (IF Evicts(port, w) /\ policy.hit # "wt" THEN <<WriteBack(lines[w].block)>>
                                                              ELSE <<>>)
            /\ strayed' = Strays(port, w)
        /\ mshr' = Added(a, port.op = "atomic")
        /\ Taken

\* wr_hit_wb and wr_hit_wt.
WriteHit ==
    /\ port.op = "write"
    /\ policy.hit # "we"
    /\ Probe(port) = "HIT"
    /\ policy.hit = "wt" => ~miss_queue_full(0)
    /\ LET w == Min(Matches(port))
           l == lines[w]
       IN  /\ \E readable \in {l.sec[port.sector].readable, TRUE} :
                lines' = [lines EXCEPT ![w] = Modified(l, port.sector, readable)]
           /\ dirty' = DirtyModified(l, dirty)
    /\ missQueue' = IF policy.hit = "wt" THEN Append(missQueue, WriteOf(port)) ELSE missQueue
    /\ Taken
    /\ UNCHANGED <<mshr, strayed>>

\* wr_hit_we: the sector is given up.
WriteHitEvict ==
    /\ port.op = "write"
    /\ policy.hit = "we"
    /\ Probe(port) = "HIT"
    /\ ~miss_queue_full(0)
    /\ LET w == Min(Matches(port))
           c == [lines[w].sec[port.sector] EXCEPT !.st = "INVALID"]
       IN  lines' = [lines EXCEPT ![w] = WithSector(lines[w], port.sector, c)]
    /\ missQueue' = Append(missQueue, WriteOf(port))
    /\ Taken
    /\ UNCHANGED <<dirty, mshr, strayed>>

\* wr_miss_no_wa, also when every line is reserved.
WriteMissNoAllocate ==
    /\ port.op = "write"
    /\ policy.alloc = "none"
    /\ Probe(port) # "HIT"
    /\ ~miss_queue_full(0)
    /\ missQueue' = Append(missQueue, WriteOf(port))
    /\ Taken
    /\ UNCHANGED <<lines, dirty, mshr, strayed>>

\* The sector wr_miss_wa_lazy_fetch_on_read leaves behind: readable if the write
\* or the bytes so far cover it; a fill still under way will keep it modified.
LazilyModified(l, s, whole, covered, reserved) ==
    IF ~reserved THEN Modified(l, s, whole \/ covered)
    ELSE WithSector(l, s, Sector("MODIFIED", TRUE, whole \/ covered,
                                 l.sec[s].readableOnFill \/ ~whole))

\* wr_miss_wa_lazy_fetch_on_read.
WriteMissLazy ==
    /\ port.op = "write"
    /\ policy.alloc = "lazy"
    /\ Probe(port) \notin {"HIT", "RESERVATION_FAIL"}
    /\ ~miss_queue_full(0)
    /\ \E w \in Indices(port), whole, covered \in BOOLEAN :
        LET l == Accessed(port, w)
        IN  /\ lines' = [lines EXCEPT ![w] =
                    LazilyModified(l, port.sector, whole, covered, Probe(port) = "HIT_RESERVED")]
            /\ dirty' = DirtyModified(l, DirtyAccessed(port, w))
            /\ missQueue' = missQueue
                  \o (IF policy.hit = "wt" THEN <<WriteOf(port)>> ELSE <<>>)
                  \o (IF Evicts(port, w) /\ policy.hit # "wt" THEN <<WriteBack(lines[w].block)>>
                                                              ELSE <<>>)
            /\ strayed' = Strays(port, w)
    /\ Taken
    /\ UNCHANGED mshr

Access ==
    \/ ReadHit
    \/ ReadForward
    \/ ReadMiss
    \/ WriteHit
    \/ WriteHitEvict
    \/ WriteMissNoAllocate
    \/ WriteMissLazy

-----------------------------------------------------------------------------
(* The memory side. *)

\* advance_miss_queue; the cache hears no more of what it has written.
AdvanceMissQueue ==
    /\ missQueue # <<>>
    /\ missQueue' = Tail(missQueue)
    /\ memory' = IF Head(missQueue).op = "fetch" THEN Append(memory, Head(missQueue)) ELSE memory
    /\ UNCHANGED <<policy, lines, dirty, mshr, response, port, issued, strayed>>

\* m_dirty after tag_array::fill.
DirtyFilled(before, after) ==
    CASE is_modified_line(after) /\ ~is_modified_line(before) -> dirty + 1
      [] is_modified_line(before) /\ ~is_modified_line(after) -> dirty - 1
      [] OTHER -> dirty

\* fill_cache_state: the line of the index that was stored with the fetch is
\* filled, the readers become ready, an atomic among them modifies the line.
Fill(i) ==
    LET a == memory[i].addr
        w == memory[i].way
        l == FilledLine(lines[w], a[2])
        d == DirtyFilled(lines[w], l)
    IN  /\ IF mshr[a].atomic
           THEN /\ lines' = [lines EXCEPT ![w] = Modified(l, a[2], l.sec[a[2]].readable)]
                /\ dirty' = DirtyModified(l, d)
           ELSE /\ lines' = [lines EXCEPT ![w] = l]
                /\ dirty' = d
        /\ mshr' = [mshr EXCEPT ![a].ready = TRUE]
        /\ response' = Append(response, a)
        /\ memory' = [j \in 1..(Len(memory) - 1) |-> IF j < i THEN memory[j] ELSE memory[j + 1]]
        /\ UNCHANGED <<policy, missQueue, port, issued, strayed>>

\* next_access: one reader of the oldest response; the last one frees the entry.
NextAccess ==
    /\ response # <<>>
    /\ LET a == Head(response)
           last == mshr[a].n = 1
       IN  /\ mshr' = [mshr EXCEPT ![a] = IF last THEN NoEntry ELSE [@ EXCEPT !.n = mshr[a].n - 1]]
           /\ response' = IF last THEN Tail(response) ELSE response
    /\ UNCHANGED <<policy, lines, dirty, missQueue, memory, port, issued, strayed>>

\* invalidate: a memory barrier of one warp empties the L1, while the misses of
\* other warps are under way.
Invalidate ==
    /\ policy.hit = "wt"
    /\ lines' = [w \in Ways |-> [lines[w] EXCEPT !.sec =
                    [s \in Sectors |-> [lines[w].sec[s] EXCEPT !.st = "INVALID"]]]]
    /\ dirty' = 0
    /\ strayed' = IF \E f \in Outstanding : f.op = "fetch"
                  THEN strayed \cup {"invalidated"} ELSE strayed
    /\ UNCHANGED <<policy, mshr, response, missQueue, memory, port, issued>>

Next ==
    \/ \E q \in Requests : Request(q)
    \/ Access
    \/ AdvanceMissQueue
    \/ \E i \in DOMAIN memory : Fill(i)
    \/ NextAccess
    \/ Invalidate

\* The head of the queue is tried in every cycle, the cache cycles, memory
\* answers every fetch and the readers of a response are taken.
Fairness ==
    /\ WF_vars(Access)
    /\ WF_vars(AdvanceMissQueue)
    /\ WF_vars(memory # <<>> /\ Fill(1))
    /\ WF_vars(NextAccess)

Spec == Init /\ [][Next]_vars /\ Fairness

-----------------------------------------------------------------------------
(* Properties. *)

SectorStates == [st : {"INVALID", "RESERVED", "VALID", "MODIFIED"}, modifiedOnFill : BOOLEAN,
                 readable : BOOLEAN, readableOnFill : BOOLEAN]
LineStates == [block : Blocks \cup {NoLine}, sec : [Sectors -> SectorStates]]
FetchMsgs == [op : {"fetch"}, addr : Addrs, way : Ways]
WriteMsgs == [op : {"write", "writeback"}, block : Blocks \cup {NoLine}]

TypeOK ==
    /\ policy \in Policies
    /\ lines \in [Ways -> LineStates]
    /\ dirty \in Int
    /\ mshr \in [Addrs -> [n : Nat, ready : BOOLEAN, atomic : BOOLEAN]]
    /\ response \in Seq(Addrs)
    /\ missQueue \in Seq(FetchMsgs \cup WriteMsgs) /\ memory \in Seq(FetchMsgs)
    /\ port \in Requests \cup {NoRequest}
    /\ issued \in Nat
    /\ strayed \subseteq {"replaced", "invalidated"}

\* The fetches of an address that are under way.
FetchesOf(a) ==
    Cardinality({i \in DOMAIN missQueue : missQueue[i].op = "fetch" /\ missQueue[i].addr = a})
    + Cardinality({i \in DOMAIN memory : memory[i].addr = a})

\* m_dirty is the number of modified lines.
DirtyExact == dirty = Cardinality({w \in Ways : is_modified_line(lines[w])})

\* Every MSHR entry has one fetch under way or one place among the responses,
\* and nothing else has.
OneFetchPerEntry ==
    \A a \in Addrs :
        /\ FetchesOf(a) = IF probe(a) THEN 1 ELSE 0
        /\ Cardinality({i \in DOMAIN response : response[i] = a}) = IF mshr[a].ready THEN 1 ELSE 0
        /\ mshr[a].ready => mshr[a].n > 0

\* Every reserved sector is the goal of a fetch under way, and every fetch finds
\* the block it was sent for.
ReservedIsAwaited ==
    /\ \A w \in Ways, s \in Sectors : lines[w].sec[s].st = "RESERVED" =>
            \E f \in Outstanding : f = Fetch(<<lines[w].block, s>>, w)
    /\ \A f \in Outstanding : f.op = "fetch" => lines[f.way].block = f.addr[1]

\* Tags, MSHRs and memory agree, so that no fill meets a wrong entry and no
\* line stays reserved for nothing: always what concerns the MSHRs and the
\* count of modified lines; what concerns the lines until a lazy write to a
\* reserved sector let its line be replaced, or an invalidation came between.
MissesTracked ==
    /\ DirtyExact
    /\ OneFetchPerEntry
    /\ strayed = {} => ReservedIsAwaited
    /\ "replaced" \in strayed => policy.alloc = "lazy" \/ "invalidated" \in strayed

Holds(c) == c.st = "MODIFIED" \/ (c.st = "RESERVED" /\ c.modifiedOnFill)

\* A write-back cache loses no write: a sector with newer data than memory keeps
\* them, through sector misses and fills, until its line is written back.
DirtyWrittenBack ==
    [][(policy.hit = "wb" /\ strayed' = {}) =>
        \A w \in Ways, s \in Sectors : Holds(lines[w].sec[s]) =>
            \/ lines'[w].block = lines[w].block /\ Holds(lines'[w].sec[s])
            \/ Len(missQueue') > Len(missQueue)
               /\ missQueue'[Len(missQueue')] = WriteBack(lines[w].block)]_vars

\* Every request is taken, or a line was lost to a stray fetch, and every
\* reader that was taken is answered.
EveryRequestServed ==
    (port # NoRequest \/ Entries # {}) ~> ((port = NoRequest \/ strayed # {}) /\ Entries = {})

=============================================================================
