----------------------------- MODULE CacheProofs -----------------------------
(***************************************************************************)
(* Proofs about Cache for any number of lines, blocks and sectors, any     *)
(* mapping of blocks to sets, any sizes of the MSHR table and the miss     *)
(* queue, and any mix of requests.                                         *)
(***************************************************************************)
EXTENDS Cache, TLAPS, FiniteSetTheorems, WellFoundedInduction

\* The fetches under way.
Fetches == {f \in Outstanding : f.op = "fetch"}

\* A cache that gives sectors up on write hits never allocates on a write, as in every
\* shipped configuration.
Sane == policy.hit = "we" => policy.alloc = "none"

\* Only a write-back cache performs atomics, and a cache that gives sectors up has none
\* that are modified.
PolicyKept ==
    /\ port.op = "atomic" => policy.hit = "wb"
    /\ policy.hit # "wb" => \A a \in Addrs : ~mshr[a].atomic
    /\ policy.hit = "we" => \A w \in Ways, s \in Sectors :
            lines[w].sec[s].st # "MODIFIED" /\ ~lines[w].sec[s].modifiedOnFill

\* No address is fetched twice at a time.
FetchesUnique ==
    /\ \A i, j \in DOMAIN missQueue :
          (missQueue[i].op = "fetch" /\ missQueue[j].op = "fetch" /\ missQueue[i].addr = missQueue[j].addr)
            => i = j
    /\ \A i, j \in DOMAIN memory : memory[i].addr = memory[j].addr => i = j
    /\ \A i \in DOMAIN missQueue, j \in DOMAIN memory :
          missQueue[i].op = "fetch" => missQueue[i].addr # memory[j].addr

\* What is fetched is what the pending MSHR entries wait for.
FetchesPending == \A a \in Addrs : probe(a) <=> \E f \in Fetches : f.addr = a

\* What is drained is what the ready MSHR entries hold.
ResponsesReady ==
    /\ \A i, j \in DOMAIN response : response[i] = response[j] => i = j
    /\ \A a \in Addrs : mshr[a].ready <=> \E i \in DOMAIN response : response[i] = a
    /\ \A a \in Addrs : mshr[a].ready => mshr[a].n > 0

\* A sector that a fetch may find: reserved, or modified meanwhile and going to stay so.
Awaits(c) == \/ c.st = "RESERVED"
             \/ policy.alloc = "lazy" /\ c.st = "MODIFIED" /\ c.modifiedOnFill

\* The lines while no fetch has been separated from its line: a fetch finds its sector, a
\* reserved sector has its fetch, and a block is in one line at most, of its set.
LinesAwait ==
    /\ \A f \in Fetches : /\ lines[f.way].block = f.addr[1]
                          /\ Awaits(lines[f.way].sec[f.addr[2]])
    /\ \A w \in Ways, s \in Sectors :
          lines[w].sec[s].st = "RESERVED" => Fetch(<<lines[w].block, s>>, w) \in Fetches
    /\ \A w \in Ways : ~is_invalid_line(lines[w]) =>
          /\ lines[w].block \in Blocks /\ w \in Home[lines[w].block]
          /\ \A v \in Ways : ~is_invalid_line(lines[v]) /\ lines[v].block = lines[w].block => v = w

\* Without allocation on writes only an invalidation separates a fetch from its line.
StraysKnown == policy.alloc = "none" /\ "invalidated" \notin strayed => strayed = {}

\* The inductive invariant.
IndInv ==
    /\ TypeOK
    /\ Sane
    /\ PolicyKept
    /\ DirtyExact
    /\ FetchesUnique
    /\ FetchesPending
    /\ ResponsesReady
    /\ strayed = {} => LinesAwait
    /\ StraysKnown

-----------------------------------------------------------------------------
(* Facts about lines and sectors. *)

\* A sector built from its fields has them.
LEMMA SectorFacts ==
    ASSUME NEW st \in {"INVALID", "RESERVED", "VALID", "MODIFIED"}, NEW m \in BOOLEAN,
           NEW r \in BOOLEAN, NEW f \in BOOLEAN
    PROVE  /\ Sector(st, m, r, f) \in SectorStates
           /\ Sector(st, m, r, f).st = st /\ Sector(st, m, r, f).modifiedOnFill = m
  BY DEF Sector, SectorStates

\* Replacing a sector of a line changes that sector only.
LEMMA WithSectorFacts ==
    ASSUME NEW l \in LineStates, NEW s \in Sectors, NEW c \in SectorStates
    PROVE  /\ WithSector(l, s, c) \in LineStates
           /\ WithSector(l, s, c).block = l.block
           /\ WithSector(l, s, c).sec[s] = c
           /\ \A t \in Sectors : t # s => WithSector(l, s, c).sec[t] = l.sec[t]
  BY DEF WithSector, LineStates

\* The least element of a set of ways, as Min chooses it.
LEMMA MinOfWays ==
    ASSUME NEW S \in SUBSET Ways, S # {}
    PROVE  Min(S) \in S
<1>1. S \in SUBSET Nat
  BY CacheAssumption DEF Ways
<1>2. PICK m \in S : \A x \in S : ~(<<x, m>> \in OpToRel(<, Nat))
  BY <1>1, NatLessThanWellFounded, WFMin
<1>3. \A x \in S : ~(x < m)
  BY <1>1, <1>2 DEF OpToRel
<1>4. \A x \in S : m <= x
  BY <1>1, <1>3
<1>5. QED
  BY <1>4 DEF Min

\* The greatest element of a set of ways, as Max chooses it: the least distance from
\* the last line.
LEMMA MaxOfWays ==
    ASSUME NEW S \in SUBSET Ways, S # {}
    PROVE  Max(S) \in S
<1> DEFINE T == {NumLines - x : x \in S}
<1>1. NumLines \in Nat /\ \A x \in S : x \in Nat /\ x < NumLines
  BY CacheAssumption DEF Ways
<1>2. T \in SUBSET Nat /\ T # {}
  BY <1>1
<1>3. PICK d \in T : \A y \in T : ~(<<y, d>> \in OpToRel(<, Nat))
  <2> HIDE DEF T
  <2>1. QED
    BY <1>2, NatLessThanWellFounded, WFMin
<1>4. \A y \in T : ~(y < d)
  BY <1>2, <1>3 DEF OpToRel
<1>5. PICK m \in S : d = NumLines - m
  OBVIOUS
<1>6. \A x \in S : m >= x
  BY <1>1, <1>4, <1>5
<1>7. QED
  BY <1>6 DEF Max

\* There are finitely many ways.
LEMMA WaysFinite == IsFiniteSet(Ways)
  BY CacheAssumption, FS_Interval DEF Ways

\* m_dirty stays exact when it follows the change of one line.
LEMMA DirtyStep ==
    ASSUME TypeOK, DirtyExact, NEW w \in Ways, NEW l \in LineStates,
           lines' = [lines EXCEPT ![w] = l],
           dirty' = (IF is_modified_line(lines[w]) THEN dirty - 1 ELSE dirty)
                    + (IF is_modified_line(l) THEN 1 ELSE 0)
    PROVE  DirtyExact'
<1> DEFINE M == {v \in Ways : is_modified_line(lines[v])}
           rest == {v \in Ways \ {w} : is_modified_line(lines[v])}
           N == {v \in Ways : is_modified_line(lines'[v])}
<1>1. IsFiniteSet(rest) /\ IsFiniteSet(M) /\ w \notin rest
  BY WaysFinite, FS_Subset
<1>2. Cardinality(rest) \in Nat /\ Cardinality(rest \cup {w}) = Cardinality(rest) + 1
  BY <1>1, FS_CardinalityType, FS_AddElement
<1>3. \A v \in Ways : lines'[v] = IF v = w THEN l ELSE lines[v]
  BY DEF TypeOK
<1>4. M = IF is_modified_line(lines[w]) THEN rest \cup {w} ELSE rest
  OBVIOUS
<1>5. N = IF is_modified_line(l) THEN rest \cup {w} ELSE rest
  BY <1>3
<1>6. dirty = Cardinality(M)
  BY DEF DirtyExact
<1> HIDE DEF M, rest, N
<1>7. dirty' = Cardinality(N)
  BY <1>2, <1>4, <1>5, <1>6
<1>8. QED
  BY <1>7 DEF DirtyExact, N, is_modified_line, HasSector

\* What the victims of a replacement are.
LEMMA VictimFacts ==
    ASSUME TypeOK, NEW q \in Requests, NEW w \in Victims(q)
    PROVE  w \in Ways /\ w \in Home[q.block] /\ Replaceable(w) /\ q.block \in Blocks
<1> DEFINE free == {v \in Home[q.block] : Replaceable(v)}
           invalid == {v \in free : is_invalid_line(lines[v])}
<1>1. q.block \in Blocks /\ Home[q.block] \in SUBSET Ways
  BY CacheAssumption
<1>2. invalid \in SUBSET Ways /\ invalid \subseteq free
  BY <1>1
<1>3. Victims(q) = IF invalid # {} THEN {Max(invalid)} ELSE free
  BY DEF Victims
<1>4. w \in free
  <2> HIDE DEF invalid, free
  <2>1. CASE invalid # {}
    BY <1>2, <1>3, <2>1, MaxOfWays
  <2>2. CASE invalid = {}
    BY <1>3, <2>2
  <2>3. QED
    BY <2>1, <2>2
<1>5. QED
  BY <1>1, <1>4

\* What the outcomes of a probe say about the line it names.
LEMMA ProbeFacts ==
    ASSUME TypeOK, NEW q \in Requests
    PROVE  /\ Probe(q) \in {"HIT", "HIT_RESERVED", "SECTOR_MISS", "MISS", "RESERVATION_FAIL"}
           /\ Probe(q) = "MISS" => Matches(q) = {} /\ Indices(q) = Victims(q)
           /\ Probe(q) \in {"HIT", "HIT_RESERVED", "SECTOR_MISS"} =>
                 LET w == Min(Matches(q))
                     c == lines[w].sec[q.sector]
                 IN  /\ Indices(q) = {w} /\ w \in Ways
                     /\ lines[w].block = q.block /\ ~is_invalid_line(lines[w])
                     /\ w \in Home[q.block]
                     /\ c \in SectorStates
                     /\ Probe(q) = "HIT_RESERVED" <=> c.st = "RESERVED"
                     /\ Probe(q) = "HIT" => c.st \in {"VALID", "MODIFIED"}
                     /\ Probe(q) = "SECTOR_MISS" => c.st \in {"INVALID", "MODIFIED"}
                     /\ Probe(q) = "SECTOR_MISS" /\ q.op = "write" => c.st = "INVALID"
<1>1. q.block \in Blocks /\ q.sector \in Sectors /\ Home[q.block] \in SUBSET Ways
  BY CacheAssumption
<1>2. Matches(q) \in SUBSET Ways
  BY <1>1 DEF Matches
<1>3. CASE Matches(q) = {}
  BY <1>3 DEF Probe, Indices
<1>4. CASE Matches(q) # {}
  <2> DEFINE w == Min(Matches(q))
             c == lines[w].sec[q.sector]
  <2>1. w \in Matches(q)
    BY <1>2, <1>4, MinOfWays
  <2>2. w \in Ways /\ w \in Home[q.block] /\ lines[w].block = q.block /\ ~is_invalid_line(lines[w])
    BY <1>2, <2>1 DEF Matches
  <2>3. c \in SectorStates
    BY <1>1, <2>2 DEF TypeOK, LineStates
  <2>4. c.st \in {"INVALID", "RESERVED", "VALID", "MODIFIED"}
    BY <2>3 DEF SectorStates
  <2>5. Indices(q) = {w}
    BY <1>4 DEF Indices
  <2>6. Probe(q) = CASE c.st = "RESERVED" -> "HIT_RESERVED"
                     [] c.st = "VALID" -> "HIT"
                     [] c.st = "INVALID" -> "SECTOR_MISS"
                     [] c.st = "MODIFIED" /\ (q.op = "write" \/ c.readable) -> "HIT"
                     [] OTHER -> "SECTOR_MISS"
    BY <1>4 DEF Probe
  <2> HIDE DEF c, w
  <2>7. CASE c.st = "RESERVED"
    BY <2>2, <2>3, <2>5, <2>6, <2>7 DEF c, w
  <2>8. CASE c.st = "VALID"
    BY <2>2, <2>3, <2>5, <2>6, <2>8 DEF c, w
  <2>9. CASE c.st = "INVALID"
    BY <2>2, <2>3, <2>5, <2>6, <2>9 DEF c, w
  <2>10. CASE c.st = "MODIFIED" /\ (q.op = "write" \/ c.readable)
    BY <2>2, <2>3, <2>5, <2>6, <2>10 DEF c, w
  <2>11. CASE c.st = "MODIFIED" /\ ~(q.op = "write" \/ c.readable)
    BY <2>2, <2>3, <2>5, <2>6, <2>11 DEF c, w
  <2>12. QED
    BY <2>4, <2>7, <2>8, <2>9, <2>10, <2>11
<1>5. QED
  BY <1>3, <1>4

-----------------------------------------------------------------------------
(* Facts about the fetches under way. *)

\* Fetches and writes are told apart by op.
LEMMA MsgFacts ==
    /\ \A f \in FetchMsgs : f.op = "fetch" /\ f.addr \in Addrs /\ f.way \in Ways
    /\ \A f \in FetchMsgs : f = Fetch(f.addr, f.way)
    /\ \A m \in WriteMsgs : m.op # "fetch"
    /\ \A m \in FetchMsgs \cup WriteMsgs : m.op = "fetch" => m \in FetchMsgs
    /\ \A a \in Addrs, w \in Ways : /\ Fetch(a, w) \in FetchMsgs
                                    /\ Fetch(a, w).addr = a /\ Fetch(a, w).way = w
    /\ \A a \in Addrs : a[1] \in Blocks /\ a[2] \in Sectors /\ a = <<a[1], a[2]>>
<1>1. /\ \A f \in FetchMsgs : f.op = "fetch" /\ f.addr \in Addrs /\ f.way \in Ways
      /\ \A f \in FetchMsgs : f = Fetch(f.addr, f.way)
  BY DEF FetchMsgs, Fetch
<1>2. \A m \in WriteMsgs : m.op # "fetch"
  BY DEF WriteMsgs
<1>3. \A a \in Addrs, w \in Ways : /\ Fetch(a, w) \in FetchMsgs
                                   /\ Fetch(a, w).addr = a /\ Fetch(a, w).way = w
  BY DEF FetchMsgs, Fetch
<1>4. \A a \in Addrs : a[1] \in Blocks /\ a[2] \in Sectors /\ a = <<a[1], a[2]>>
  BY DEF Addrs
<1>5. QED
  BY <1>1, <1>2, <1>3, <1>4

\* Where the fetches are.
LEMMA FetchesAre ==
    ASSUME TypeOK
    PROVE  /\ Fetches \subseteq FetchMsgs
           /\ \A f : f \in Fetches <=>
                 \/ \E i \in 1..Len(missQueue) : missQueue[i] = f /\ f.op = "fetch"
                 \/ \E j \in 1..Len(memory) : memory[j] = f
<1>1. /\ DOMAIN missQueue = 1..Len(missQueue) /\ DOMAIN memory = 1..Len(memory)
      /\ \A i \in 1..Len(missQueue) : missQueue[i] \in FetchMsgs \cup WriteMsgs
      /\ \A j \in 1..Len(memory) : memory[j] \in FetchMsgs
  BY DEF TypeOK
<1>2. QED
  BY <1>1, MsgFacts DEF Fetches, Outstanding

\* What is appended to the miss queue: at most one fetch, of an address that is not
\* fetched yet, before other messages.
LEMMA EnqueueFacts ==
    ASSUME TypeOK, FetchesUnique, memory' = memory,
           NEW x \in Seq(FetchMsgs \cup WriteMsgs), Len(x) <= 1,
           NEW y \in Seq(WriteMsgs), missQueue' = (missQueue \o x) \o y,
           \A i \in 1..Len(x) : x[i].op = "fetch" => \A f \in Fetches : f.addr # x[i].addr
    PROVE  /\ missQueue' \in Seq(FetchMsgs \cup WriteMsgs)
           /\ FetchesUnique'
           /\ \A f : f \in Fetches' <=> f \in Fetches \/ \E i \in 1..Len(x) : x[i] = f /\ f.op = "fetch"
<1> DEFINE S == FetchMsgs \cup WriteMsgs
           n == Len(missQueue)
           k == Len(x)
<1>1. missQueue \in Seq(S) /\ memory \in Seq(FetchMsgs) /\ n \in Nat /\ k \in Nat /\ Len(memory) \in Nat
  BY DEF TypeOK
<1>2. y \in Seq(S) /\ Len(y) \in Nat
  <2>1. \A i \in 1..Len(y) : y[i] \in S
    OBVIOUS
  <2>2. y \in [1..Len(y) -> S] /\ Len(y) \in Nat
    BY <2>1
  <2> HIDE DEF S
  <2>3. QED
    BY <2>2
<1>3. \A i \in 1..Len(y) : y[i].op # "fetch"
  BY MsgFacts
<1> HIDE DEF S
<1>4. /\ missQueue \o x \in Seq(S) /\ Len(missQueue \o x) = n + k
      /\ \A i \in 1..(n + k) : (missQueue \o x)[i] = IF i <= n THEN missQueue[i] ELSE x[i - n]
  BY <1>1 DEF S
<1> DEFINE p == missQueue \o x
<1> HIDE DEF p
<1>5. /\ p \o y \in Seq(S) /\ Len(p \o y) = n + k + Len(y)
      /\ \A i \in 1..(n + k + Len(y)) : (p \o y)[i] = IF i <= n + k THEN p[i] ELSE y[i - (n + k)]
  BY <1>1, <1>2, <1>4 DEF p
<1>6. /\ missQueue' \in Seq(S) /\ Len(missQueue') = n + k + Len(y)
      /\ \A i \in 1..n : missQueue'[i] = missQueue[i]
      /\ \A i \in (n + 1)..(n + k) : missQueue'[i] = x[i - n]
      /\ \A i \in (n + k + 1)..(n + k + Len(y)) : missQueue'[i].op # "fetch"
  <2>1. missQueue' = p \o y
    BY DEF p
  <2>2. missQueue' \in Seq(S) /\ Len(missQueue') = n + k + Len(y)
    BY <1>5, <2>1
  <2>3. ASSUME NEW i \in 1..n PROVE missQueue'[i] = missQueue[i]
    BY <1>1, <1>2, <1>4, <1>5, <2>1 DEF p
  <2>4. ASSUME NEW i \in (n + 1)..(n + k) PROVE missQueue'[i] = x[i - n]
    BY <1>1, <1>2, <1>4, <1>5, <2>1 DEF p
  <2>5. ASSUME NEW i \in (n + k + 1)..(n + k + Len(y)) PROVE missQueue'[i].op # "fetch"
    <3>1. missQueue'[i] = y[i - (n + k)] /\ i - (n + k) \in 1..Len(y)
      BY <1>1, <1>2, <1>5, <2>1
    <3>2. QED
      BY <1>3, <3>1
  <2>6. QED
    BY <2>2, <2>3, <2>4, <2>5
<1>7. /\ DOMAIN missQueue = 1..n /\ DOMAIN missQueue' = 1..(n + k + Len(y))
      /\ DOMAIN memory = 1..Len(memory) /\ DOMAIN memory' = 1..Len(memory)
  BY <1>1, <1>6
\* A fetch in the new queue is an old one in its old place, or the new one.
<1>8. ASSUME NEW i \in 1..(n + k + Len(y)), missQueue'[i].op = "fetch"
      PROVE  \/ i \in 1..n /\ missQueue'[i] = missQueue[i]
             \/ /\ k = 1 /\ i = n + 1 /\ missQueue'[i] = x[1] /\ x[1].op = "fetch"
                /\ 1 \in 1..k
  <2>1. CASE i \in 1..n
    BY <1>6, <2>1
  <2>2. CASE i \in (n + 1)..(n + k)
    <3>1. k = 1 /\ i = n + 1 /\ i - n = 1 /\ 1 \in 1..k
      <4>1. n \in Nat /\ k \in Nat /\ k <= 1
        BY <1>1
      <4> HIDE DEF n, k
      <4>2. QED
        BY <2>2, <4>1
    <3>2. missQueue'[i] = x[1]
      BY <1>6, <2>2, <3>1
    <3>3. QED
      BY <1>8, <3>1, <3>2
  <2>3. CASE i \in (n + k + 1)..(n + k + Len(y))
    BY <1>6, <1>8, <2>3
  <2>4. QED
    BY <1>1, <1>2, <2>1, <2>2, <2>3
<1>9. /\ \A f : f \in Fetches <=>
             \/ \E i \in 1..n : missQueue[i] = f /\ f.op = "fetch"
             \/ \E j \in 1..Len(memory) : memory[j] = f
      /\ \A j \in 1..Len(memory) : memory[j].op = "fetch"
  BY <1>1, FetchesAre, MsgFacts
<1>10. \A f : f \in Fetches' <=>
             \/ \E i \in 1..(n + k + Len(y)) : missQueue'[i] = f /\ f.op = "fetch"
             \/ \E j \in 1..Len(memory) : memory[j] = f
  <2>1. Outstanding' = {missQueue'[i] : i \in 1..(n + k + Len(y))} \cup {memory[j] : j \in 1..Len(memory)}
    BY <1>7 DEF Outstanding
  <2>2. \A f : f \in Fetches' <=> f \in Outstanding' /\ f.op = "fetch"
    BY DEF Fetches
  <2>3. ASSUME NEW f
        PROVE  f \in Outstanding' <=> \/ \E i \in 1..(n + k + Len(y)) : missQueue'[i] = f
                                      \/ \E j \in 1..Len(memory) : memory[j] = f
    BY <2>1, Zenon
  <2>4. QED
    BY <1>9, <2>2, <2>3, Zenon
<1>11. FetchesUnique'
  <2>1. ASSUME NEW i \in 1..(n + k + Len(y)), NEW j \in 1..(n + k + Len(y)),
               missQueue'[i].op = "fetch", missQueue'[j].op = "fetch",
               missQueue'[i].addr = missQueue'[j].addr
        PROVE  i = j
    <3>1. CASE i \in 1..n /\ j \in 1..n
      BY <1>6, <1>7, <2>1, <3>1, ZenonT(40) DEF FetchesUnique
    <3>2. ASSUME NEW h \in 1..n, missQueue[h].op = "fetch", k = 1, x[1].op = "fetch"
          PROVE  missQueue[h].addr # x[1].addr
      <4>1. missQueue[h] \in Fetches
        BY <1>9, <3>2
      <4>2. QED
        BY <3>2, <4>1
    <3>3. QED
      BY <1>6, <1>8, <2>1, <3>1, <3>2
  <2>2. ASSUME NEW i \in 1..(n + k + Len(y)), NEW j \in 1..Len(memory), missQueue'[i].op = "fetch"
        PROVE  missQueue'[i].addr # memory[j].addr
    <3>1. memory[j] \in Fetches
      BY <1>9
    <3>2. CASE i \in 1..n /\ missQueue'[i] = missQueue[i]
      BY <1>7, <2>2, <3>2 DEF FetchesUnique
    <3>3. CASE k = 1 /\ missQueue'[i] = x[1] /\ x[1].op = "fetch" /\ 1 \in 1..k
      BY <3>1, <3>3
    <3>4. QED
      BY <1>8, <2>2, <3>2, <3>3
  <2>3. QED
    BY <1>7, <2>1, <2>2 DEF FetchesUnique
<1>12. ASSUME NEW f PROVE f \in Fetches' <=> f \in Fetches \/ \E i \in 1..Len(x) : x[i] = f /\ f.op = "fetch"
  <2>1. ASSUME f \in Fetches' PROVE f \in Fetches \/ \E i \in 1..Len(x) : x[i] = f /\ f.op = "fetch"
    <3>1. CASE \E j \in 1..Len(memory) : memory[j] = f
      BY <1>9, <3>1
    <3>2. ASSUME NEW i \in 1..(n + k + Len(y)), missQueue'[i] = f, f.op = "fetch"
          PROVE  f \in Fetches \/ \E h \in 1..Len(x) : x[h] = f /\ f.op = "fetch"
      <4>1. CASE i \in 1..n /\ missQueue'[i] = missQueue[i]
        BY <1>9, <3>2, <4>1
      <4>2. CASE missQueue'[i] = x[1] /\ 1 \in 1..k
        BY <3>2, <4>2
      <4>3. QED
        BY <1>8, <3>2, <4>1, <4>2
    <3>3. QED
      BY <1>10, <2>1, <3>1, <3>2
  <2>2. ASSUME f \in Fetches PROVE f \in Fetches'
    <3>1. \A i \in 1..n : i \in 1..(n + k + Len(y))
      BY <1>1, <1>2
    <3>2. QED
      BY <1>6, <1>9, <1>10, <2>2, <3>1
  <2>3. ASSUME NEW i \in 1..Len(x), x[i] = f, f.op = "fetch" PROVE f \in Fetches'
    <3>1. i + n \in (n + 1)..(n + k) /\ i + n \in 1..(n + k + Len(y)) /\ (i + n) - n = i
      BY <1>1, <1>2
    <3>2. missQueue'[i + n] = f
      BY <1>6, <2>3, <3>1
    <3>3. QED
      BY <1>10, <2>3, <3>1, <3>2
  <2>4. QED
    BY <2>1, <2>2, <2>3
<1>13. QED
  BY <1>6, <1>11, <1>12 DEF S

\* The fetches after a step.
LEMMA FetchesAfter ==
    \A f : f \in Fetches' <=> /\ f.op = "fetch"
                              /\ \/ \E i \in DOMAIN missQueue' : missQueue'[i] = f
                                 \/ \E j \in DOMAIN memory' : memory'[j] = f
<1>1. \A f : f \in Outstanding' <=> \/ \E i \in DOMAIN missQueue' : missQueue'[i] = f
                                    \/ \E j \in DOMAIN memory' : memory'[j] = f
  BY Zenon DEF Outstanding
<1>2. \A f : f \in Fetches' <=> f \in Outstanding' /\ f.op = "fetch"
  BY Zenon DEF Fetches
<1>3. QED
  BY <1>1, <1>2, Zenon

\* advance_miss_queue moves a fetch from the miss queue to memory.
LEMMA AdvanceFacts ==
    ASSUME TypeOK, FetchesUnique, AdvanceMissQueue
    PROVE  /\ missQueue' \in Seq(FetchMsgs \cup WriteMsgs) /\ memory' \in Seq(FetchMsgs)
           /\ FetchesUnique'
           /\ Fetches' = Fetches
<1> DEFINE S == FetchMsgs \cup WriteMsgs
           n == Len(missQueue)
           k == Len(memory)
           h == missQueue[1]
<1>1. missQueue \in Seq(S) /\ memory \in Seq(FetchMsgs) /\ missQueue # <<>>
  BY DEF TypeOK, AdvanceMissQueue
<1>2. \A m \in S : m.op = "fetch" => m \in FetchMsgs
  BY MsgFacts
<1> HIDE DEF S
<1>3. /\ n \in Nat /\ n >= 1 /\ k \in Nat /\ Head(missQueue) = h /\ h \in S
      /\ Tail(missQueue) \in Seq(S) /\ Len(Tail(missQueue)) = n - 1
      /\ \A i \in 1..(n - 1) : Tail(missQueue)[i] = missQueue[i + 1]
  BY <1>1
<1>4. /\ missQueue' \in Seq(S) /\ DOMAIN missQueue' = 1..(n - 1)
      /\ \A i \in 1..(n - 1) : missQueue'[i] = missQueue[i + 1] /\ i + 1 \in 1..n
  BY <1>3 DEF AdvanceMissQueue
<1>5. DOMAIN missQueue = 1..n /\ DOMAIN memory = 1..k /\ 1 \in 1..n
  BY <1>1, <1>3
<1>6. /\ \A i, j \in 1..n : (missQueue[i].op = "fetch" /\ missQueue[j].op = "fetch"
                              /\ missQueue[i].addr = missQueue[j].addr) => i = j
      /\ \A i, j \in 1..k : memory[i].addr = memory[j].addr => i = j
      /\ \A i \in 1..n, j \in 1..k : missQueue[i].op = "fetch" => missQueue[i].addr # memory[j].addr
  BY <1>5 DEF FetchesUnique
<1>7. \A f : f \in Fetches <=> \/ \E i \in 1..n : missQueue[i] = f /\ f.op = "fetch"
                               \/ \E j \in 1..k : memory[j] = f
  BY FetchesAre
<1>8. \A j \in 1..k : memory[j].op = "fetch"
  BY <1>1, MsgFacts
<1> HIDE DEF n, k, h
<1>9. CASE h.op = "fetch"
  <2>1. memory' = Append(memory, h) /\ h \in FetchMsgs
    BY <1>2, <1>3, <1>9 DEF AdvanceMissQueue
  <2>2. /\ memory' \in Seq(FetchMsgs) /\ DOMAIN memory' = 1..(k + 1)
        /\ \A j \in 1..k : memory'[j] = memory[j]
        /\ memory'[k + 1] = h
    BY <1>1, <1>3, <2>1 DEF k
  <2>3. FetchesUnique'
    <3>1. ASSUME NEW i \in 1..(n - 1), NEW j \in 1..(n - 1), missQueue'[i].op = "fetch",
                 missQueue'[j].op = "fetch", missQueue'[i].addr = missQueue'[j].addr
          PROVE  i = j
      <4>1. i + 1 = j + 1
        BY <1>4, <1>6, <3>1
      <4>2. QED
        BY <1>3, <4>1
    <3>2. ASSUME NEW i \in 1..(k + 1), NEW j \in 1..(k + 1), memory'[i].addr = memory'[j].addr
          PROVE  i = j
      <4>1. \A v \in 1..k : memory[v].addr # h.addr
        BY <1>5, <1>6, <1>9 DEF h
      <4>2. \A v \in 1..(k + 1) : v \in 1..k \/ v = k + 1
        BY <1>3
      <4>3. QED
        BY <1>6, <2>2, <3>2, <4>1, <4>2
    <3>3. ASSUME NEW i \in 1..(n - 1), NEW j \in 1..(k + 1), missQueue'[i].op = "fetch"
          PROVE  missQueue'[i].addr # memory'[j].addr
      <4>1. CASE j \in 1..k
        BY <1>4, <1>6, <2>2, <3>3, <4>1
      <4>2. CASE j = k + 1
        <5>1. i + 1 # 1
          BY <1>3
        <5>2. QED
          BY <1>4, <1>5, <1>6, <1>9, <2>2, <3>3, <4>2, <5>1 DEF h
      <4>3. QED
        BY <1>3, <4>1, <4>2
    <3>4. QED
      BY <1>4, <2>2, <3>1, <3>2, <3>3 DEF FetchesUnique
  <2>4. ASSUME NEW f PROVE f \in Fetches' <=> f \in Fetches
    <3>1. ASSUME f \in Fetches' PROVE f \in Fetches
      <4>1. \A v \in 1..(k + 1) : v \in 1..k \/ v = k + 1
        BY <1>3
      <4>2. QED
        BY <1>4, <1>5, <1>7, <1>9, <2>2, <3>1, <4>1, FetchesAfter DEF h
    <3>2. ASSUME f \in Fetches PROVE f \in Fetches'
      <4>1. CASE \E j \in 1..k : memory[j] = f
        <5>1. \A v \in 1..k : v \in 1..(k + 1)
          BY <1>3
        <5>2. QED
          BY <1>8, <2>2, <4>1, <5>1, FetchesAfter
      <4>2. ASSUME NEW i \in 1..n, missQueue[i] = f, f.op = "fetch" PROVE f \in Fetches'
        <5>1. CASE i = 1
          <6>1. k + 1 \in 1..(k + 1)
            BY <1>3
          <6>2. QED
            BY <2>2, <4>2, <5>1, <6>1, FetchesAfter DEF h
        <5>2. CASE i # 1
          <6>1. i - 1 \in 1..(n - 1) /\ (i - 1) + 1 = i
            BY <1>3, <5>2
          <6>2. missQueue'[i - 1] = f
            BY <1>4, <4>2, <6>1
          <6>3. QED
            BY <1>4, <4>2, <6>1, <6>2, FetchesAfter
        <5>3. QED
          BY <5>1, <5>2
      <4>3. QED
        BY <1>7, <3>2, <4>1, <4>2
    <3>3. QED
      BY <3>1, <3>2
  <2>5. QED
    BY <1>4, <2>2, <2>3, <2>4 DEF S
<1>10. CASE h.op # "fetch"
  <2>1. memory' = memory
    BY <1>3, <1>10 DEF AdvanceMissQueue
  <2>2. FetchesUnique'
    <3>1. ASSUME NEW i \in 1..(n - 1), NEW j \in 1..(n - 1), missQueue'[i].op = "fetch",
                 missQueue'[j].op = "fetch", missQueue'[i].addr = missQueue'[j].addr
          PROVE  i = j
      <4>1. i + 1 = j + 1
        BY <1>4, <1>6, <3>1
      <4>2. QED
        BY <1>3, <4>1
    <3>2. ASSUME NEW i \in 1..(n - 1), NEW j \in 1..k, missQueue'[i].op = "fetch"
          PROVE  missQueue'[i].addr # memory'[j].addr
      BY <1>4, <1>6, <2>1, <3>2
    <3>3. QED
      BY <1>4, <1>5, <1>6, <2>1, <3>1, <3>2 DEF FetchesUnique
  <2>3. ASSUME NEW f PROVE f \in Fetches' <=> f \in Fetches
    <3>1. ASSUME f \in Fetches' PROVE f \in Fetches
      BY <1>4, <1>5, <1>7, <2>1, <3>1, FetchesAfter
    <3>2. ASSUME f \in Fetches PROVE f \in Fetches'
      <4>1. CASE \E j \in 1..k : memory[j] = f
        BY <1>5, <1>8, <2>1, <4>1, FetchesAfter
      <4>2. ASSUME NEW i \in 1..n, missQueue[i] = f, f.op = "fetch" PROVE f \in Fetches'
        <5>1. i # 1
          BY <1>10, <4>2 DEF h
        <5>2. i - 1 \in 1..(n - 1) /\ (i - 1) + 1 = i
          BY <1>3, <5>1
        <5>3. missQueue'[i - 1] = f
          BY <1>4, <4>2, <5>2
        <5>4. QED
          BY <1>4, <4>2, <5>2, <5>3, FetchesAfter
      <4>3. QED
        BY <1>7, <3>2, <4>1, <4>2
    <3>3. QED
      BY <3>1, <3>2
  <2>4. QED
    BY <1>1, <1>4, <2>1, <2>2, <2>3 DEF S
<1>11. QED
  BY <1>9, <1>10

\* Memory answers a fetch.
LEMMA AnswerFacts ==
    ASSUME TypeOK, FetchesUnique, NEW i \in DOMAIN memory, missQueue' = missQueue,
           memory' = [j \in 1..(Len(memory) - 1) |-> IF j < i THEN memory[j] ELSE memory[j + 1]]
    PROVE  /\ memory' \in Seq(FetchMsgs) /\ memory[i] \in Fetches
           /\ FetchesUnique'
           /\ \A f : f \in Fetches' <=> f \in Fetches /\ f.addr # memory[i].addr
<1> DEFINE n == Len(missQueue)
           k == Len(memory)
<1>1. memory \in Seq(FetchMsgs) /\ k \in Nat /\ DOMAIN memory = 1..k /\ DOMAIN missQueue = 1..n
  BY DEF TypeOK
<1>2. /\ \A a, b \in 1..n : (missQueue[a].op = "fetch" /\ missQueue[b].op = "fetch"
                              /\ missQueue[a].addr = missQueue[b].addr) => a = b
      /\ \A a, b \in 1..k : memory[a].addr = memory[b].addr => a = b
      /\ \A a \in 1..n, b \in 1..k : missQueue[a].op = "fetch" => missQueue[a].addr # memory[b].addr
  BY <1>1 DEF FetchesUnique
<1>3. \A f : f \in Fetches <=> \/ \E a \in 1..n : missQueue[a] = f /\ f.op = "fetch"
                               \/ \E j \in 1..k : memory[j] = f
  BY FetchesAre
<1>4. \A j \in 1..k : memory[j].op = "fetch" /\ memory[j] \in FetchMsgs
  BY <1>1, MsgFacts
<1> HIDE DEF n, k
<1>5. i \in 1..k /\ k \in Nat /\ k - 1 \in Nat
  BY <1>1
<1>6. /\ memory' \in [1..(k - 1) -> FetchMsgs] /\ DOMAIN memory' = 1..(k - 1)
      /\ \A j \in 1..(k - 1) : memory'[j] = IF j < i THEN memory[j] ELSE memory[j + 1]
      /\ \A j \in 1..(k - 1) : j \in 1..k /\ j + 1 \in 1..k
  BY <1>1, <1>4, <1>5 DEF k
<1>7. memory' \in Seq(FetchMsgs)
  BY <1>5, <1>6
\* Where the others have gone.
<1>8. /\ \A j \in 1..(k - 1) : \E b \in 1..k : b # i /\ memory'[j] = memory[b] /\ b = (IF j < i THEN j ELSE j + 1)
      /\ \A b \in 1..k : b # i => \E j \in 1..(k - 1) : memory'[j] = memory[b]
  <2>1. ASSUME NEW j \in 1..(k - 1)
        PROVE  \E b \in 1..k : b # i /\ memory'[j] = memory[b] /\ b = (IF j < i THEN j ELSE j + 1)
    <3>1. CASE j < i
      BY <1>5, <1>6, <3>1
    <3>2. CASE ~(j < i)
      <4>1. j + 1 # i /\ j + 1 \in 1..k
        BY <1>5, <1>6, <3>2
      <4>2. QED
        BY <1>6, <3>2, <4>1
    <3>3. QED
      BY <3>1, <3>2
  <2>2. ASSUME NEW b \in 1..k, b # i PROVE \E j \in 1..(k - 1) : memory'[j] = memory[b]
    <3>1. CASE b < i
      <4>1. b \in 1..(k - 1)
        BY <1>5, <3>1
      <4>2. QED
        BY <1>6, <3>1, <4>1
    <3>2. CASE ~(b < i)
      <4>1. b - 1 \in 1..(k - 1) /\ ~(b - 1 < i) /\ (b - 1) + 1 = b
        BY <1>5, <2>2, <3>2
      <4>2. memory'[b - 1] = memory[b]
        BY <1>6, <4>1
      <4>3. QED
        BY <4>1, <4>2
    <3>3. QED
      BY <3>1, <3>2
  <2>3. QED
    BY <2>1, <2>2
<1>9. FetchesUnique'
  <2>1. ASSUME NEW a \in 1..(k - 1), NEW b \in 1..(k - 1), memory'[a].addr = memory'[b].addr
        PROVE  a = b
    <3>1. (IF a < i THEN a ELSE a + 1) = (IF b < i THEN b ELSE b + 1)
      BY <1>2, <1>6, <2>1
    <3>2. QED
      BY <1>5, <3>1
  <2>2. ASSUME NEW a \in 1..n, NEW b \in 1..(k - 1), missQueue[a].op = "fetch"
        PROVE  missQueue[a].addr # memory'[b].addr
    <3>1. PICK j \in 1..k : memory'[b] = memory[j]
      BY <1>8
    <3>2. QED
      BY <1>2, <2>2, <3>1
  <2>3. QED
    BY <1>1, <1>2, <1>6, <2>1, <2>2 DEF FetchesUnique
<1>10. ASSUME NEW f PROVE f \in Fetches' <=> f \in Fetches /\ f.addr # memory[i].addr
  <2>1. ASSUME f \in Fetches' PROVE f \in Fetches /\ f.addr # memory[i].addr
    <3>1. f.op = "fetch"
      BY <2>1, FetchesAfter
    <3>2. CASE \E a \in 1..n : missQueue[a] = f
      BY <1>2, <1>3, <1>5, <3>1, <3>2
    <3>3. ASSUME NEW j \in 1..(k - 1), memory'[j] = f PROVE f \in Fetches /\ f.addr # memory[i].addr
      <4>1. PICK b \in 1..k : b # i /\ f = memory[b]
        BY <1>8, <3>3
      <4>2. QED
        BY <1>2, <1>3, <1>5, <4>1
    <3>4. QED
      BY <1>1, <1>6, <2>1, <3>2, <3>3, FetchesAfter
  <2>2. ASSUME f \in Fetches, f.addr # memory[i].addr PROVE f \in Fetches'
    <3>1. CASE \E a \in 1..n : missQueue[a] = f /\ f.op = "fetch"
      BY <1>1, <3>1, FetchesAfter
    <3>2. ASSUME NEW b \in 1..k, memory[b] = f PROVE f \in Fetches'
      <4>1. b # i
        BY <2>2, <3>2
      <4>2. \E j \in 1..(k - 1) : memory'[j] = f
        BY <1>8, <3>2, <4>1
      <4>3. QED
        BY <1>4, <1>6, <3>2, <4>2, FetchesAfter
    <3>3. QED
      BY <1>3, <2>2, <3>1, <3>2
  <2>3. QED
    BY <2>1, <2>2
<1>11. memory[i] \in Fetches
  BY <1>3, <1>5
<1>12. QED
  BY <1>7, <1>9, <1>10, <1>11

-----------------------------------------------------------------------------
(* Facts about the lines while no fetch has been separated from its line. *)

\* A line with a sector in use is not invalid.
LEMMA InUse ==
    ASSUME NEW l, NEW s \in Sectors, l.sec[s].st # "INVALID"
    PROVE  ~is_invalid_line(l)
  BY DEF is_invalid_line

\* A fetch under way is for the line that the probe of its block names.
LEMMA FetchMatches ==
    ASSUME TypeOK, LinesAwait, NEW q \in Requests, NEW f \in Fetches, f.addr[1] = q.block
    PROVE  Matches(q) # {} /\ Min(Matches(q)) = f.way
<1>1. f \in FetchMsgs /\ f.way \in Ways /\ f.addr[2] \in Sectors /\ f.addr[1] \in Blocks
  BY FetchesAre, MsgFacts
<1>2. lines[f.way].block = q.block /\ Awaits(lines[f.way].sec[f.addr[2]])
  BY DEF LinesAwait
<1>3. ~is_invalid_line(lines[f.way])
  BY <1>1, <1>2, InUse DEF Awaits
<1>4. f.way \in Matches(q)
  BY <1>1, <1>2, <1>3 DEF LinesAwait, Matches
<1>5. Matches(q) \in SUBSET Ways
  BY <1>1, CacheAssumption DEF Matches
<1>6. \A v \in Matches(q) : v = f.way
  BY <1>1, <1>2, <1>3, <1>5 DEF LinesAwait, Matches
<1>7. QED
  BY <1>4, <1>5, <1>6, MinOfWays

\* One sector of a line in use changes, and at most the fetch of that sector.
LEMMA SectorStep ==
    ASSUME TypeOK, LinesAwait, policy' = policy,
           NEW w \in Ways, NEW s \in Sectors, NEW c \in SectorStates,
           lines' = [lines EXCEPT ![w] = WithSector(lines[w], s, c)],
           ~is_invalid_line(lines[w]),
           \A f \in Fetches' : f \in Fetches \/ f = Fetch(<<lines[w].block, s>>, w),
           \A f \in Fetches : f \in Fetches' \/ f = Fetch(<<lines[w].block, s>>, w),
           c.st = "RESERVED" => Fetch(<<lines[w].block, s>>, w) \in Fetches',
           Fetch(<<lines[w].block, s>>, w) \in Fetches' => Awaits(c)
    PROVE  LinesAwait'
<1> DEFINE F == Fetch(<<lines[w].block, s>>, w)
<1>1. lines[w].block \in Blocks /\ w \in Home[lines[w].block]
  BY DEF LinesAwait
<1>2. <<lines[w].block, s>> \in Addrs
  BY <1>1 DEF Addrs
<1>3. F \in FetchMsgs /\ F.addr = <<lines[w].block, s>> /\ F.way = w
  BY <1>2, MsgFacts
<1>4. lines[w] \in LineStates
  BY DEF TypeOK
<1>5. \A v \in Ways : v # w => lines'[v] = lines[v]
  BY DEF TypeOK
<1>6. lines'[w] = WithSector(lines[w], s, c)
  BY DEF TypeOK
<1>7. /\ lines'[w].block = lines[w].block /\ lines'[w].sec[s] = c
      /\ \A t \in Sectors : t # s => lines'[w].sec[t] = lines[w].sec[t]
  BY <1>4, <1>6, WithSectorFacts
<1>8. Fetches \subseteq FetchMsgs
  BY FetchesAre
<1>9. ASSUME NEW f \in FetchMsgs, f.way = w, f.addr[2] = s, lines[w].block = f.addr[1] PROVE f = F
  <2>1. f.addr = <<lines[w].block, s>> /\ f = Fetch(f.addr, f.way)
    BY <1>9, MsgFacts
  <2>2. QED
    BY <1>9, <2>1
<1> HIDE DEF F
<1>10. ASSUME NEW f \in Fetches'
       PROVE  lines'[f.way].block = f.addr[1] /\ Awaits(lines'[f.way].sec[f.addr[2]])
  <2>1. CASE f = F
    BY <1>3, <1>7, <1>10, <2>1 DEF F
  <2>2. CASE f # F
    <3>1. f \in Fetches /\ f \in FetchMsgs
      BY <1>8, <1>10, <2>2 DEF F
    <3>2. f.way \in Ways /\ f.addr[2] \in Sectors
      BY <3>1, MsgFacts
    <3>3. lines[f.way].block = f.addr[1] /\ Awaits(lines[f.way].sec[f.addr[2]])
      BY <3>1 DEF LinesAwait
    <3>4. f.way = w => f.addr[2] # s
      BY <1>9, <2>2, <3>1, <3>3
    <3>5. QED
      BY <1>5, <1>7, <3>2, <3>3, <3>4
  <2>3. QED
    BY <2>1, <2>2
<1>11. ASSUME NEW v \in Ways, NEW t \in Sectors, lines'[v].sec[t].st = "RESERVED"
       PROVE  Fetch(<<lines'[v].block, t>>, v) \in Fetches'
  <2>1. CASE v = w /\ t = s
    BY <1>7, <1>11, <2>1
  <2>2. CASE ~(v = w /\ t = s)
    <3>1. lines'[v].block = lines[v].block /\ lines[v].sec[t].st = "RESERVED"
      BY <1>5, <1>7, <1>11, <2>2
    <3>2. ~is_invalid_line(lines[v])
      BY <3>1, InUse
    <3>3. lines[v].block \in Blocks
      BY <3>2 DEF LinesAwait
    <3>4. <<lines[v].block, t>> \in Addrs
      BY <3>3 DEF Addrs
    <3>5. Fetch(<<lines[v].block, t>>, v) \in Fetches
      BY <3>1 DEF LinesAwait
    <3>6. Fetch(<<lines[v].block, t>>, v) # F
      <4>1. Fetch(<<lines[v].block, t>>, v).way = v /\ Fetch(<<lines[v].block, t>>, v).addr = <<lines[v].block, t>>
        BY <3>4, MsgFacts
      <4>2. QED
        BY <1>3, <2>2, <4>1
    <3>7. QED
      BY <3>1, <3>5, <3>6 DEF F
  <2>3. QED
    BY <2>1, <2>2
<1>12. \A v \in Ways : /\ ~is_invalid_line(lines'[v]) => ~is_invalid_line(lines[v])
                       /\ lines'[v].block = lines[v].block
  BY <1>5, <1>7
<1>13. ASSUME NEW v \in Ways, ~is_invalid_line(lines'[v])
       PROVE  /\ lines'[v].block \in Blocks /\ v \in Home[lines'[v].block]
              /\ \A u \in Ways : ~is_invalid_line(lines'[u]) /\ lines'[u].block = lines'[v].block => u = v
  BY <1>12, <1>13 DEF LinesAwait
<1>14. QED
  BY <1>10, <1>11, <1>13 DEF LinesAwait, Awaits, is_invalid_line

\* A line that no fetch is under way to is given to a block that no line holds.
LEMMA ReplaceStep ==
    ASSUME TypeOK, LinesAwait, policy' = policy, NEW q \in Requests,
           NEW w \in Ways, w \in Home[q.block], NEW l \in LineStates,
           lines' = [lines EXCEPT ![w] = l],
           l.block = q.block, \A t \in Sectors : t # q.sector => l.sec[t].st = "INVALID",
           Matches(q) = {}, \A f \in Fetches : f.way # w,
           \A f \in Fetches' : f \in Fetches \/ f = Fetch(<<q.block, q.sector>>, w),
           \A f \in Fetches : f \in Fetches',
           l.sec[q.sector].st = "RESERVED" => Fetch(<<q.block, q.sector>>, w) \in Fetches',
           Fetch(<<q.block, q.sector>>, w) \in Fetches' => Awaits(l.sec[q.sector])
    PROVE  LinesAwait'
<1> DEFINE F == Fetch(<<q.block, q.sector>>, w)
<1>1. q.block \in Blocks /\ q.sector \in Sectors /\ <<q.block, q.sector>> \in Addrs
  BY CacheAssumption DEF Addrs
<1>2. F \in FetchMsgs /\ F.addr = <<q.block, q.sector>> /\ F.way = w
  BY <1>1, MsgFacts
<1>3. lines'[w] = l /\ \A v \in Ways : v # w => lines'[v] = lines[v]
  BY DEF TypeOK
<1>4. Fetches \subseteq FetchMsgs
  BY FetchesAre
<1> HIDE DEF F
<1>5. ASSUME NEW f \in Fetches'
      PROVE  lines'[f.way].block = f.addr[1] /\ Awaits(lines'[f.way].sec[f.addr[2]])
  <2>1. CASE f = F
    BY <1>2, <1>3, <1>5, <2>1 DEF F
  <2>2. CASE f # F
    <3>1. f \in Fetches /\ f.way # w /\ f.way \in Ways
      BY <1>4, <1>5, <2>2, MsgFacts DEF F
    <3>2. QED
      BY <1>3, <3>1 DEF LinesAwait
  <2>3. QED
    BY <2>1, <2>2
<1>6. ASSUME NEW v \in Ways, NEW t \in Sectors, lines'[v].sec[t].st = "RESERVED"
      PROVE  Fetch(<<lines'[v].block, t>>, v) \in Fetches'
  <2>1. CASE v = w
    BY <1>3, <1>6, <2>1
  <2>2. CASE v # w
    BY <1>3, <1>6, <2>2 DEF LinesAwait
  <2>3. QED
    BY <2>1, <2>2
<1>7. \A v \in Ways : ~is_invalid_line(lines[v]) => lines[v].block # q.block
  BY DEF LinesAwait, Matches
<1>8. ASSUME NEW v \in Ways, ~is_invalid_line(lines'[v])
      PROVE  /\ lines'[v].block \in Blocks /\ v \in Home[lines'[v].block]
             /\ \A u \in Ways : ~is_invalid_line(lines'[u]) /\ lines'[u].block = lines'[v].block => u = v
  <2>1. CASE v = w
    BY <1>1, <1>3, <1>7, <2>1
  <2>2. CASE v # w
    BY <1>3, <1>7, <1>8, <2>2 DEF LinesAwait
  <2>3. QED
    BY <2>1, <2>2
<1>9. QED
  BY <1>5, <1>6, <1>8 DEF LinesAwait, Awaits, is_invalid_line

-----------------------------------------------------------------------------
(* Facts that several actions share. *)

\* A write or a write-back at the end of the miss queue changes no fetch.
LEMMA EnqueueWrite ==
    ASSUME TypeOK, FetchesUnique, memory' = memory, NEW m \in WriteMsgs,
           missQueue' = Append(missQueue, m)
    PROVE  missQueue' \in Seq(FetchMsgs \cup WriteMsgs) /\ FetchesUnique' /\ Fetches' = Fetches
<1> DEFINE S == FetchMsgs \cup WriteMsgs
           x == <<m>>
           y == <<>>
<1>1. m.op # "fetch"
  BY MsgFacts
<1>2. missQueue \in Seq(S) /\ m \in S
  BY DEF TypeOK
<1>3. x \in Seq(FetchMsgs \cup WriteMsgs) /\ Len(x) <= 1 /\ \A i \in 1..Len(x) : x[i] = m
  OBVIOUS
<1>4. y \in Seq(WriteMsgs)
  OBVIOUS
<1>5. missQueue' = (missQueue \o x) \o y
  <2> HIDE DEF S
  <2>1. QED
    BY <1>2
<1> HIDE DEF x, y
<1>6. /\ missQueue' \in Seq(FetchMsgs \cup WriteMsgs) /\ FetchesUnique'
      /\ \A f : f \in Fetches' <=> f \in Fetches \/ \E i \in 1..Len(x) : x[i] = f /\ f.op = "fetch"
  BY <1>1, <1>3, <1>4, <1>5, EnqueueFacts
<1>7. QED
  BY <1>1, <1>3, <1>6

\* The table after mshr_table::add.
LEMMA AddedFacts ==
    ASSUME TypeOK, NEW a \in Addrs, NEW atomic \in BOOLEAN, mshr' = Added(a, atomic)
    PROVE  /\ mshr' \in [Addrs -> [n : Nat, ready : BOOLEAN, atomic : BOOLEAN]]
           /\ \A b \in Addrs : b # a => mshr'[b] = mshr[b]
           /\ mshr'[a].n = mshr[a].n + 1 /\ mshr'[a].n > 0
           /\ mshr'[a].ready = mshr[a].ready
           /\ mshr'[a].atomic = (mshr[a].atomic \/ atomic)
  BY DEF TypeOK, Added

\* The request at the port, when there is one.
LEMMA PortFacts ==
    ASSUME TypeOK, port.op \in {"read", "atomic", "write"}
    PROVE  /\ port \in Requests /\ port.block \in Blocks /\ port.sector \in Sectors
           /\ <<port.block, port.sector>> \in Addrs
  BY CacheAssumption DEF TypeOK, NoRequest, Addrs

\* No fetch changes while the queues are as they were.
LEMMA SameFetches ==
    ASSUME missQueue' = missQueue, memory' = memory
    PROVE  Fetches' = Fetches /\ (FetchesUnique => FetchesUnique')
  BY DEF Fetches, Outstanding, FetchesUnique

\* LinesAwait looks at the lines and the fetches only.
LEMMA LinesQuiet ==
    ASSUME LinesAwait, lines' = lines, policy' = policy, Fetches' = Fetches
    PROVE  LinesAwait'
  BY DEF LinesAwait, Awaits, is_invalid_line

-----------------------------------------------------------------------------
(* The invariant holds initially, and every action preserves it. *)

\* The cache starts with blank lines and no misses.
LEMMA InitInd ==
    ASSUME Init, Sane
    PROVE  IndInv
<1>1. /\ policy \in Policies /\ lines = [w \in Ways |-> BlankLine] /\ dirty = 0
      /\ mshr = [a \in Addrs |-> NoEntry] /\ response = <<>> /\ missQueue = <<>> /\ memory = <<>>
      /\ port = NoRequest /\ issued = 0 /\ strayed = {}
  BY DEF Init
<1>2. BlankSector \in SectorStates /\ BlankSector.st = "INVALID" /\ ~BlankSector.modifiedOnFill
  BY SectorFacts DEF BlankSector
<1>3. BlankLine \in LineStates /\ \A s \in Sectors : BlankLine.sec[s] = BlankSector
  BY <1>2 DEF BlankLine, LineStates
<1>4. \A w \in Ways : lines[w] = BlankLine /\ is_invalid_line(lines[w]) /\ ~is_modified_line(lines[w])
  BY <1>1, <1>2, <1>3 DEF is_invalid_line, is_modified_line, HasSector
<1>5. lines \in [Ways -> LineStates]
  BY <1>1, <1>3
<1>6. \A a \in Addrs : mshr[a].n = 0 /\ ~mshr[a].ready /\ ~mshr[a].atomic
  BY <1>1 DEF NoEntry
<1>7. mshr \in [Addrs -> [n : Nat, ready : BOOLEAN, atomic : BOOLEAN]]
  BY <1>1 DEF NoEntry
<1>8. TypeOK
  BY <1>1, <1>5, <1>7 DEF TypeOK
<1>9. Fetches = {}
  BY <1>1 DEF Fetches, Outstanding
<1>10. DirtyExact
  <2>1. {w \in Ways : is_modified_line(lines[w])} = {}
    BY <1>4
  <2>2. QED
    BY <1>1, <2>1, FS_EmptySet DEF DirtyExact
<1>11. PolicyKept
  BY <1>1, <1>2, <1>3, <1>4, <1>6 DEF PolicyKept, NoRequest
<1>12. FetchesUnique /\ FetchesPending /\ ResponsesReady
  BY <1>1, <1>6, <1>9 DEF FetchesUnique, FetchesPending, ResponsesReady, probe
<1>13. LinesAwait /\ StraysKnown
  BY <1>1, <1>2, <1>3, <1>4, <1>9 DEF LinesAwait, StraysKnown
<1>14. QED
  BY <1>8, <1>10, <1>11, <1>12, <1>13 DEF IndInv

\* A request reaches the port.
LEMMA RequestInd ==
    ASSUME IndInv, NEW q \in Requests, Request(q)
    PROVE  IndInv'
<1>1. /\ UNCHANGED <<policy, lines, dirty, mshr, response, missQueue, memory, strayed>>
      /\ port' = q /\ issued' = issued + 1 /\ (q.op = "atomic" => policy.hit = "wb")
  BY DEF Request
<1>2. TypeOK'
  BY <1>1 DEF IndInv, TypeOK
<1>3. PolicyKept' /\ DirtyExact' /\ Sane' /\ StraysKnown'
  BY <1>1 DEF IndInv, PolicyKept, DirtyExact, is_modified_line, HasSector, Sane, StraysKnown
<1>4. Fetches' = Fetches /\ FetchesUnique'
  BY <1>1, SameFetches DEF IndInv
<1>5. FetchesPending' /\ ResponsesReady'
  BY <1>1, <1>4 DEF IndInv, FetchesPending, ResponsesReady, probe
<1>6. strayed' = {} => LinesAwait'
  BY <1>1, <1>4, LinesQuiet DEF IndInv
<1>7. QED
  BY <1>2, <1>3, <1>4, <1>5, <1>6 DEF IndInv

\* A late reader joins a response.
LEMMA ReadForwardInd ==
    ASSUME IndInv, ReadForward
    PROVE  IndInv'
<1> DEFINE a == <<port.block, port.sector>>
<1>1. /\ UNCHANGED <<policy, lines, dirty, response, missQueue, memory, issued, strayed>>
      /\ port' = NoRequest /\ mshr' = Added(a, FALSE) /\ port.op = "read"
      /\ mshr[a].n > 0 /\ mshr[a].ready
  BY DEF ReadForward, Taken, ready_for_forward
<1>2. a \in Addrs
  BY <1>1, PortFacts DEF IndInv
<1> HIDE DEF a
<1>3. /\ mshr' \in [Addrs -> [n : Nat, ready : BOOLEAN, atomic : BOOLEAN]]
      /\ \A b \in Addrs : b # a => mshr'[b] = mshr[b]
      /\ mshr'[a].n > 0 /\ mshr'[a].ready = mshr[a].ready /\ mshr'[a].atomic = (mshr[a].atomic \/ FALSE)
  BY <1>1, <1>2, AddedFacts DEF IndInv
<1>4. TypeOK'
  BY <1>1, <1>3 DEF IndInv, TypeOK
<1>5. \A b \in Addrs : /\ mshr'[b].ready = mshr[b].ready
                       /\ mshr'[b].n > 0 <=> mshr[b].n > 0
                       /\ mshr'[b].atomic => mshr[b].atomic
  BY <1>1, <1>3
<1>6. PolicyKept' /\ DirtyExact' /\ Sane' /\ StraysKnown'
  BY <1>1, <1>5 DEF IndInv, PolicyKept, DirtyExact, is_modified_line, HasSector, Sane, StraysKnown,
                    NoRequest
<1>7. Fetches' = Fetches /\ FetchesUnique'
  BY <1>1, SameFetches DEF IndInv
<1>8. FetchesPending' /\ ResponsesReady'
  BY <1>1, <1>5, <1>7 DEF IndInv, FetchesPending, ResponsesReady, probe
<1>9. strayed' = {} => LinesAwait'
  BY <1>1, <1>7, LinesQuiet DEF IndInv
<1>10. QED
  BY <1>4, <1>6, <1>7, <1>8, <1>9 DEF IndInv

\* A write that misses passes the cache.
LEMMA WriteMissNoAllocateInd ==
    ASSUME IndInv, WriteMissNoAllocate
    PROVE  IndInv'
<1>1. /\ UNCHANGED <<policy, lines, dirty, mshr, response, memory, issued, strayed>>
      /\ port' = NoRequest /\ port.op = "write" /\ missQueue' = Append(missQueue, WriteOf(port))
  BY DEF WriteMissNoAllocate, Taken
<1>2. WriteOf(port) \in WriteMsgs
  BY <1>1, PortFacts DEF IndInv, WriteOf, WriteMsgs
<1>3. missQueue' \in Seq(FetchMsgs \cup WriteMsgs) /\ Fetches' = Fetches /\ FetchesUnique'
  BY <1>1, <1>2, EnqueueWrite DEF IndInv
<1>4. TypeOK'
  BY <1>1, <1>3 DEF IndInv, TypeOK
<1>5. PolicyKept' /\ DirtyExact' /\ Sane' /\ StraysKnown'
  BY <1>1 DEF IndInv, PolicyKept, DirtyExact, is_modified_line, HasSector, Sane, StraysKnown, NoRequest
<1>6. FetchesPending' /\ ResponsesReady'
  BY <1>1, <1>3 DEF IndInv, FetchesPending, ResponsesReady, probe
<1>7. strayed' = {} => LinesAwait'
  BY <1>1, <1>3, LinesQuiet DEF IndInv
<1>8. QED
  BY <1>3, <1>4, <1>5, <1>6, <1>7 DEF IndInv

\* The head of the miss queue leaves.
LEMMA AdvanceInd ==
    ASSUME IndInv, AdvanceMissQueue
    PROVE  IndInv'
<1>1. UNCHANGED <<policy, lines, dirty, mshr, response, port, issued, strayed>>
  BY DEF AdvanceMissQueue
<1>2. /\ missQueue' \in Seq(FetchMsgs \cup WriteMsgs) /\ memory' \in Seq(FetchMsgs)
      /\ FetchesUnique' /\ Fetches' = Fetches
  BY AdvanceFacts DEF IndInv
<1>3. TypeOK'
  BY <1>1, <1>2 DEF IndInv, TypeOK
<1>4. PolicyKept' /\ DirtyExact' /\ Sane' /\ StraysKnown'
  BY <1>1 DEF IndInv, PolicyKept, DirtyExact, is_modified_line, HasSector, Sane, StraysKnown
<1>5. FetchesPending' /\ ResponsesReady'
  BY <1>1, <1>2 DEF IndInv, FetchesPending, ResponsesReady, probe
<1>6. strayed' = {} => LinesAwait'
  BY <1>1, <1>2, LinesQuiet DEF IndInv
<1>7. QED
  BY <1>2, <1>3, <1>4, <1>5, <1>6 DEF IndInv

\* A reader takes its answer.
LEMMA NextAccessInd ==
    ASSUME IndInv, NextAccess
    PROVE  IndInv'
<1> DEFINE a == response[1]
           n == Len(response)
           E == [n : Nat, ready : BOOLEAN, atomic : BOOLEAN]
           e == IF mshr[a].n = 1 THEN NoEntry ELSE [mshr[a] EXCEPT !.n = mshr[a].n - 1]
<1>1. /\ UNCHANGED <<policy, lines, dirty, missQueue, memory, port, issued, strayed>>
      /\ response # <<>> /\ response \in Seq(Addrs) /\ mshr \in [Addrs -> E]
  BY DEF NextAccess, IndInv, TypeOK
<1>2. /\ n \in Nat /\ n >= 1 /\ Head(response) = a /\ a \in Addrs /\ DOMAIN response = 1..n /\ 1 \in 1..n
      /\ Tail(response) \in Seq(Addrs) /\ DOMAIN Tail(response) = 1..(n - 1)
      /\ \A i \in 1..(n - 1) : Tail(response)[i] = response[i + 1] /\ i + 1 \in 1..n
  BY <1>1
<1>3. mshr[a].ready /\ mshr[a].n > 0
  BY <1>2 DEF IndInv, ResponsesReady
<1>4. /\ mshr' = [mshr EXCEPT ![a] = e]
      /\ response' = IF mshr[a].n = 1 THEN Tail(response) ELSE response
  BY <1>1, <1>2 DEF NextAccess
<1>5. /\ e \in E /\ (mshr[a].n # 1 => e.ready /\ e.n > 0) /\ (mshr[a].n = 1 => ~e.ready /\ e.n = 0)
      /\ e.atomic => mshr[a].atomic
  BY <1>1, <1>2, <1>3, SMTT(40) DEF NoEntry
<1> HIDE DEF e
<1>6. mshr' \in [Addrs -> E] /\ mshr'[a] = e /\ \A b \in Addrs : b # a => mshr'[b] = mshr[b]
  BY <1>1, <1>2, <1>4, <1>5
<1>7. TypeOK'
  BY <1>1, <1>2, <1>4, <1>6 DEF IndInv, TypeOK
<1>8. PolicyKept' /\ DirtyExact' /\ Sane' /\ StraysKnown'
  <2>1. \A b \in Addrs : mshr'[b].atomic => mshr[b].atomic
    BY <1>5, <1>6
  <2>2. QED
    BY <1>1, <2>1 DEF IndInv, PolicyKept, DirtyExact, is_modified_line, HasSector, Sane, StraysKnown
<1>9. Fetches' = Fetches /\ FetchesUnique'
  BY <1>1, SameFetches DEF IndInv
<1>10. FetchesPending'
  <2>1. ASSUME NEW b \in Addrs PROVE probe(b)' <=> probe(b)
    <3>1. CASE b = a
      BY <1>3, <1>5, <1>6, <3>1 DEF probe
    <3>2. CASE b # a
      BY <1>6, <3>2 DEF probe
    <3>3. QED
      BY <3>1, <3>2
  <2>2. QED
    BY <1>9, <2>1 DEF IndInv, FetchesPending
<1>11. ResponsesReady'
  <2>1. CASE mshr[a].n # 1
    <3>1. \A b \in Addrs : mshr'[b].ready = mshr[b].ready /\ (mshr'[b].n > 0 <=> mshr[b].n > 0)
      BY <1>1, <1>3, <1>5, <1>6, <2>1
    <3>2. response' = response
      BY <1>4, <2>1
    <3>3. QED
      BY <3>1, <3>2 DEF IndInv, ResponsesReady
  <2>2. CASE mshr[a].n = 1
    <3>1. /\ DOMAIN response' = 1..(n - 1)
          /\ \A i \in 1..(n - 1) : response'[i] = response[i + 1] /\ i + 1 \in 1..n
      BY <1>2, <1>4, <2>2
    <3>2. \A i, j \in 1..n : response[i] = response[j] => i = j
      BY <1>2 DEF IndInv, ResponsesReady
    <3>3. \A b \in Addrs : mshr[b].ready <=> \E i \in 1..n : response[i] = b
      BY <1>2 DEF IndInv, ResponsesReady
    <3> HIDE DEF n
    <3>4. ASSUME NEW i \in 1..(n - 1), NEW j \in 1..(n - 1), response'[i] = response'[j] PROVE i = j
      <4>1. i + 1 = j + 1
        BY <3>1, <3>2, <3>4
      <4>2. QED
        BY <1>2, <4>1
    <3>5. ASSUME NEW b \in Addrs PROVE mshr'[b].ready <=> \E i \in 1..(n - 1) : response'[i] = b
      <4>1. CASE b = a
        <5>1. ASSUME NEW i \in 1..(n - 1) PROVE response'[i] # a
          <6>1. i + 1 # 1
            BY <1>2
          <6>2. QED
            BY <1>2, <3>1, <3>2, <6>1
        <5>2. QED
          BY <1>5, <1>6, <2>2, <4>1, <5>1
      <4>2. CASE b # a
        <5>1. ASSUME NEW i \in 1..n, response[i] = b PROVE \E j \in 1..(n - 1) : response'[j] = b
          <6>1. i # 1
            BY <4>2, <5>1
          <6>2. i - 1 \in 1..(n - 1) /\ (i - 1) + 1 = i
            BY <1>2, <6>1
          <6>3. QED
            BY <3>1, <5>1, <6>2
        <5>2. QED
          BY <1>6, <3>1, <3>3, <4>2, <5>1
      <4>3. QED
        BY <4>1, <4>2
    <3>6. \A b \in Addrs : mshr'[b].ready => mshr'[b].n > 0
      <4>1. \A b \in Addrs : mshr[b].ready => mshr[b].n > 0
        BY DEF IndInv, ResponsesReady
      <4>2. QED
        BY <1>5, <1>6, <2>2, <4>1
    <3>7. QED
      BY <3>1, <3>4, <3>5, <3>6 DEF ResponsesReady
  <2>3. QED
    BY <2>1, <2>2
<1>12. strayed' = {} => LinesAwait'
  BY <1>1, <1>9, LinesQuiet DEF IndInv
<1>13. QED
  BY <1>7, <1>8, <1>9, <1>10, <1>11, <1>12 DEF IndInv

\* invalidate empties the cache.
LEMMA InvalidateInd ==
    ASSUME IndInv, Invalidate
    PROVE  IndInv'
<1> DEFINE blank(l) == [l EXCEPT !.sec = [s \in Sectors |-> [l.sec[s] EXCEPT !.st = "INVALID"]]]
<1>1. /\ UNCHANGED <<policy, mshr, response, missQueue, memory, port, issued>>
      /\ policy.hit = "wt" /\ lines' = [w \in Ways |-> blank(lines[w])] /\ dirty' = 0
      /\ strayed' = IF Fetches # {} THEN strayed \cup {"invalidated"} ELSE strayed
  BY DEF Invalidate, Fetches
<1>2. ASSUME NEW l \in LineStates
      PROVE  /\ blank(l) \in LineStates
             /\ \A s \in Sectors : blank(l).sec[s].st = "INVALID"
  BY DEF LineStates, SectorStates
<1> HIDE DEF blank
<1>3. \A w \in Ways : lines[w] \in LineStates /\ lines'[w] = blank(lines[w])
  BY <1>1 DEF IndInv, TypeOK
<1>4. lines' \in [Ways -> LineStates] /\ \A w \in Ways, s \in Sectors : lines'[w].sec[s].st = "INVALID"
  BY <1>1, <1>2, <1>3
<1>5. TypeOK'
  BY <1>1, <1>4 DEF IndInv, TypeOK
<1>6. DirtyExact'
  <2>1. {w \in Ways : is_modified_line(lines'[w])} = {}
    BY <1>4 DEF is_modified_line, HasSector
  <2>2. QED
    BY <1>1, <2>1, FS_EmptySet DEF DirtyExact, is_modified_line, HasSector
<1>7. PolicyKept' /\ Sane' /\ StraysKnown'
  BY <1>1 DEF IndInv, PolicyKept, Sane, StraysKnown
<1>8. Fetches' = Fetches /\ FetchesUnique'
  BY <1>1, SameFetches DEF IndInv
<1>9. FetchesPending' /\ ResponsesReady'
  BY <1>1, <1>8 DEF IndInv, FetchesPending, ResponsesReady, probe
<1>10. ASSUME strayed' = {} PROVE LinesAwait'
  <2>1. Fetches' = {}
    BY <1>1, <1>8, <1>10
  <2>2. QED
    BY <1>4, <2>1 DEF LinesAwait, is_invalid_line
<1>11. QED
  BY <1>5, <1>6, <1>7, <1>8, <1>9, <1>10 DEF IndInv

\* A sector that is set MODIFIED keeps its other flags.
LEMMA ModifiedFacts ==
    ASSUME NEW l \in LineStates, NEW s \in Sectors, NEW r \in BOOLEAN
    PROVE  LET c == Sector("MODIFIED", l.sec[s].modifiedOnFill, r, l.sec[s].readableOnFill)
           IN  /\ Modified(l, s, r) = WithSector(l, s, c)
               /\ c \in SectorStates /\ c.st = "MODIFIED" /\ c.modifiedOnFill = l.sec[s].modifiedOnFill
               /\ Modified(l, s, r) \in LineStates
               /\ is_modified_line(Modified(l, s, r))
<1> DEFINE c == Sector("MODIFIED", l.sec[s].modifiedOnFill, r, l.sec[s].readableOnFill)
<1>1. l.sec[s] \in SectorStates
  BY DEF LineStates
<1>2. l.sec[s].modifiedOnFill \in BOOLEAN /\ l.sec[s].readableOnFill \in BOOLEAN
  BY <1>1 DEF SectorStates
<1>3. c \in SectorStates /\ c.st = "MODIFIED" /\ c.modifiedOnFill = l.sec[s].modifiedOnFill
  BY <1>2, SectorFacts
<1>4. Modified(l, s, r) = WithSector(l, s, c)
  BY DEF Modified
<1> HIDE DEF c
<1>5. Modified(l, s, r) \in LineStates /\ Modified(l, s, r).sec[s] = c
  BY <1>3, <1>4, WithSectorFacts
<1>6. is_modified_line(Modified(l, s, r))
  BY <1>3, <1>5 DEF is_modified_line, HasSector
<1>7. QED
  BY <1>3, <1>4, <1>5, <1>6 DEF c

\* A hit modifies its sector.
LEMMA HitInd ==
    ASSUME IndInv, Taken, UNCHANGED <<mshr, strayed>>, port.op \in {"read", "atomic", "write"},
           Probe(port) = "HIT", policy.hit # "we", NEW r \in BOOLEAN,
           lines' = [lines EXCEPT ![Min(Matches(port))] =
                        Modified(lines[Min(Matches(port))], port.sector, r)],
           dirty' = DirtyModified(lines[Min(Matches(port))], dirty),
           missQueue' \in Seq(FetchMsgs \cup WriteMsgs), Fetches' = Fetches, FetchesUnique'
    PROVE  IndInv'
<1> DEFINE w == Min(Matches(port))
           s == port.sector
           l == Modified(lines[w], s, r)
           c == Sector("MODIFIED", lines[w].sec[s].modifiedOnFill, r, lines[w].sec[s].readableOnFill)
<1>1. UNCHANGED <<policy, response, memory, issued, mshr, strayed>> /\ port' = NoRequest
  BY DEF Taken
<1>2. TypeOK /\ port \in Requests /\ s \in Sectors
  BY PortFacts DEF IndInv
<1>3. /\ w \in Ways /\ ~is_invalid_line(lines[w]) /\ lines[w].sec[s].st \in {"VALID", "MODIFIED"}
  BY <1>2, ProbeFacts
<1>4. lines[w] \in LineStates /\ dirty \in Int
  BY <1>2, <1>3 DEF TypeOK
<1>5. /\ l = WithSector(lines[w], s, c) /\ c \in SectorStates /\ c.st = "MODIFIED"
      /\ c.modifiedOnFill = lines[w].sec[s].modifiedOnFill /\ l \in LineStates /\ is_modified_line(l)
  BY <1>2, <1>4, ModifiedFacts
<1>6. lines' = [lines EXCEPT ![w] = l] /\ dirty' = DirtyModified(lines[w], dirty)
  OBVIOUS
<1> HIDE DEF l, c, w, s
<1>7. DirtyExact'
  <2>1. dirty' = (IF is_modified_line(lines[w]) THEN dirty - 1 ELSE dirty)
                 + (IF is_modified_line(l) THEN 1 ELSE 0)
    BY <1>4, <1>5, <1>6 DEF DirtyModified
  <2>2. QED
    BY <1>2, <1>3, <1>5, <1>6, <2>1, DirtyStep DEF IndInv
<1>8. TypeOK'
  <2>1. dirty' \in Int
    BY <1>4, <1>6 DEF DirtyModified
  <2>2. lines' \in [Ways -> LineStates]
    BY <1>2, <1>5, <1>6 DEF TypeOK
  <2>3. QED
    BY <1>1, <1>2, <2>1, <2>2 DEF TypeOK
<1>9. PolicyKept' /\ Sane' /\ StraysKnown'
  BY <1>1 DEF IndInv, PolicyKept, Sane, StraysKnown, NoRequest
<1>10. FetchesPending' /\ ResponsesReady'
  BY <1>1 DEF IndInv, FetchesPending, ResponsesReady, probe
<1>11. ASSUME strayed' = {} PROVE LinesAwait'
  <2>1. LinesAwait
    BY <1>1, <1>11 DEF IndInv
  <2>2. lines[w].block \in Blocks
    BY <1>3, <2>1 DEF LinesAwait
  <2>3. <<lines[w].block, s>> \in Addrs
    BY <1>2, <2>2 DEF Addrs
  <2> DEFINE F == Fetch(<<lines[w].block, s>>, w)
  <2>4. F.way = w /\ F.addr[2] = s
    BY <1>3, <2>3, MsgFacts
  <2> HIDE DEF F
  <2>5. F \in Fetches => Awaits(c)
    BY <1>3, <1>5, <2>1, <2>4 DEF LinesAwait, Awaits
  <2>6. lines' = [lines EXCEPT ![w] = WithSector(lines[w], s, c)]
    BY <1>5, <1>6
  <2>7. QED
    BY <1>1, <1>2, <1>3, <1>5, <2>1, <2>5, <2>6, SectorStep DEF F
<1>12. QED
  BY <1>7, <1>8, <1>9, <1>10, <1>11 DEF IndInv

\* A read hit changes nothing, an atomic modifies the sector.
LEMMA ReadHitInd ==
    ASSUME IndInv, ReadHit
    PROVE  IndInv'
<1>1. /\ port.op \in {"read", "atomic"} /\ Probe(port) = "HIT" /\ Taken
      /\ UNCHANGED <<mshr, missQueue, strayed>>
  BY DEF ReadHit
<1>2. UNCHANGED <<policy, response, memory, issued>> /\ port' = NoRequest
  BY <1>1 DEF Taken
<1>3. Fetches' = Fetches /\ FetchesUnique'
  BY <1>1, <1>2, SameFetches DEF IndInv
<1>4. missQueue' \in Seq(FetchMsgs \cup WriteMsgs)
  BY <1>1 DEF IndInv, TypeOK
<1>5. CASE port.op = "atomic"
  <2> DEFINE w == Min(Matches(port))
             r == lines[w].sec[port.sector].readable
  <2>1. /\ lines' = [lines EXCEPT ![w] = Modified(lines[w], port.sector, r)]
        /\ dirty' = DirtyModified(lines[w], dirty)
    BY <1>5 DEF ReadHit
  <2>2. policy.hit # "we"
    BY <1>5 DEF IndInv, PolicyKept
  <2>3. r \in BOOLEAN
    <3>1. TypeOK /\ port \in Requests
      BY <1>1, PortFacts DEF IndInv
    <3>2. lines[w].sec[port.sector] \in SectorStates
      BY <1>1, <3>1, ProbeFacts
    <3>3. QED
      BY <3>2 DEF SectorStates
  <2>4. QED
    BY <1>1, <1>3, <1>4, <2>1, <2>2, <2>3, HitInd
<1>6. CASE port.op # "atomic"
  <2>1. UNCHANGED <<lines, dirty>>
    BY <1>6 DEF ReadHit
  <2>2. TypeOK'
    BY <1>1, <1>2, <2>1 DEF IndInv, TypeOK
  <2>3. PolicyKept' /\ DirtyExact' /\ Sane' /\ StraysKnown'
    BY <1>1, <1>2, <2>1 DEF IndInv, PolicyKept, DirtyExact, is_modified_line, HasSector, Sane,
                            StraysKnown, NoRequest
  <2>4. FetchesPending' /\ ResponsesReady'
    BY <1>1, <1>2, <1>3 DEF IndInv, FetchesPending, ResponsesReady, probe
  <2>5. strayed' = {} => LinesAwait'
    BY <1>1, <1>2, <1>3, <2>1, LinesQuiet DEF IndInv
  <2>6. QED
    BY <1>3, <2>2, <2>3, <2>4, <2>5 DEF IndInv
<1>7. QED
  BY <1>5, <1>6

\* A write hit modifies the sector; write-through caches send the write on.
LEMMA WriteHitInd ==
    ASSUME IndInv, WriteHit
    PROVE  IndInv'
<1> DEFINE w == Min(Matches(port))
<1>1. /\ port.op = "write" /\ Probe(port) = "HIT" /\ policy.hit # "we" /\ Taken
      /\ UNCHANGED <<mshr, strayed>> /\ memory' = memory
  BY DEF WriteHit, Taken
<1>2. PICK r \in {lines[w].sec[port.sector].readable, TRUE} :
          lines' = [lines EXCEPT ![w] = Modified(lines[w], port.sector, r)]
  BY DEF WriteHit
<1>3. dirty' = DirtyModified(lines[w], dirty)
  BY DEF WriteHit
<1>4. TypeOK /\ FetchesUnique /\ port \in Requests /\ WriteOf(port) \in WriteMsgs
  BY <1>1, PortFacts DEF IndInv, WriteOf, WriteMsgs
<1>5. r \in BOOLEAN
  <2>1. lines[w].sec[port.sector] \in SectorStates
    BY <1>1, <1>4, ProbeFacts
  <2>2. QED
    BY <1>2, <2>1 DEF SectorStates
<1>6. missQueue' \in Seq(FetchMsgs \cup WriteMsgs) /\ Fetches' = Fetches /\ FetchesUnique'
  <2>1. CASE policy.hit = "wt"
    <3>1. missQueue' = Append(missQueue, WriteOf(port))
      BY <2>1 DEF WriteHit
    <3>2. QED
      BY <1>1, <1>4, <3>1, EnqueueWrite
  <2>2. CASE policy.hit # "wt"
    <3>1. missQueue' = missQueue
      BY <2>2 DEF WriteHit
    <3>2. QED
      BY <1>1, <1>4, <3>1, SameFetches DEF TypeOK
  <2>3. QED
    BY <2>1, <2>2
<1>7. QED
  BY <1>1, <1>2, <1>3, <1>5, <1>6, HitInd

\* A write hit of a write-evict cache gives the sector up, which was not modified.
LEMMA WriteHitEvictInd ==
    ASSUME IndInv, WriteHitEvict
    PROVE  IndInv'
<1> DEFINE w == Min(Matches(port))
           s == port.sector
           c == [lines[w].sec[s] EXCEPT !.st = "INVALID"]
           l == WithSector(lines[w], s, c)
<1>1. /\ port.op = "write" /\ Probe(port) = "HIT" /\ policy.hit = "we"
      /\ UNCHANGED <<policy, response, memory, issued, mshr, dirty, strayed>> /\ port' = NoRequest
      /\ missQueue' = Append(missQueue, WriteOf(port))
      /\ lines' = [lines EXCEPT ![w] = l]
  BY DEF WriteHitEvict, Taken
<1>2. TypeOK /\ FetchesUnique /\ port \in Requests /\ s \in Sectors /\ WriteOf(port) \in WriteMsgs
  BY <1>1, PortFacts DEF IndInv, WriteOf, WriteMsgs
<1>3. missQueue' \in Seq(FetchMsgs \cup WriteMsgs) /\ Fetches' = Fetches /\ FetchesUnique'
  BY <1>1, <1>2, EnqueueWrite
<1>4. /\ w \in Ways /\ ~is_invalid_line(lines[w]) /\ lines[w].sec[s].st \in {"VALID", "MODIFIED"}
      /\ lines[w].sec[s] \in SectorStates
  BY <1>1, <1>2, ProbeFacts
<1>5. lines[w] \in LineStates /\ dirty \in Int
  BY <1>2, <1>4 DEF TypeOK
<1>6. \A v \in Ways, t \in Sectors : lines[v].sec[t].st # "MODIFIED" /\ ~lines[v].sec[t].modifiedOnFill
  BY <1>1 DEF IndInv, PolicyKept
<1>7. c \in SectorStates /\ c.st = "INVALID" /\ ~c.modifiedOnFill
  BY <1>2, <1>4, <1>6 DEF SectorStates
<1> HIDE DEF c
<1>8. /\ l \in LineStates /\ l.block = lines[w].block /\ l.sec[s] = c
      /\ \A t \in Sectors : t # s => l.sec[t] = lines[w].sec[t]
  BY <1>2, <1>5, <1>7, WithSectorFacts
<1> HIDE DEF l, w, s
<1>9. ~is_modified_line(lines[w]) /\ ~is_modified_line(l)
  BY <1>4, <1>6, <1>7, <1>8 DEF is_modified_line, HasSector
<1>10. DirtyExact'
  <2>1. dirty' = (IF is_modified_line(lines[w]) THEN dirty - 1 ELSE dirty)
                 + (IF is_modified_line(l) THEN 1 ELSE 0)
    BY <1>1, <1>5, <1>9
  <2>2. QED
    BY <1>1, <1>2, <1>4, <1>8, <2>1, DirtyStep DEF IndInv
<1>11. \A v \in Ways : lines'[v] = IF v = w THEN l ELSE lines[v]
  BY <1>1, <1>2, <1>4 DEF TypeOK
<1>12. TypeOK'
  <2>1. lines' \in [Ways -> LineStates]
    BY <1>1, <1>2, <1>8 DEF TypeOK
  <2>2. QED
    BY <1>1, <1>2, <1>3, <2>1 DEF TypeOK
<1>13. PolicyKept' /\ Sane' /\ StraysKnown'
  <2>1. \A v \in Ways, t \in Sectors : lines'[v].sec[t].st # "MODIFIED" /\ ~lines'[v].sec[t].modifiedOnFill
    BY <1>2, <1>6, <1>7, <1>8, <1>11
  <2>2. QED
    BY <1>1, <2>1 DEF IndInv, PolicyKept, Sane, StraysKnown, NoRequest
<1>14. FetchesPending' /\ ResponsesReady'
  BY <1>1, <1>3 DEF IndInv, FetchesPending, ResponsesReady, probe
<1>15. ASSUME strayed' = {} PROVE LinesAwait'
  <2>1. LinesAwait
    BY <1>1, <1>15 DEF IndInv
  <2>2. lines[w].block \in Blocks
    BY <1>4, <2>1 DEF LinesAwait
  <2>3. <<lines[w].block, s>> \in Addrs
    BY <1>2, <2>2 DEF Addrs
  <2> DEFINE F == Fetch(<<lines[w].block, s>>, w)
  <2>4. F.way = w /\ F.addr[2] = s
    BY <1>4, <2>3, MsgFacts
  <2> HIDE DEF F
  <2>5. F \notin Fetches
    BY <1>2, <1>4, <1>6, <2>1, <2>4 DEF LinesAwait, Awaits
  <2>6. lines' = [lines EXCEPT ![w] = WithSector(lines[w], s, c)]
    BY <1>1 DEF l
  <2>7. QED
    BY <1>1, <1>2, <1>3, <1>4, <1>7, <2>1, <2>5, <2>6, SectorStep DEF F
<1>16. QED
  BY <1>3, <1>10, <1>12, <1>13, <1>14, <1>15 DEF IndInv

\* What tag_array::fill and a following atomic leave in the sector.
LEMMA FilledFacts ==
    ASSUME NEW l \in LineStates, NEW s \in Sectors
    PROVE  \E c \in SectorStates :
              /\ FilledLine(l, s) = WithSector(l, s, c)
              /\ c.st = (IF l.sec[s].modifiedOnFill THEN "MODIFIED" ELSE "VALID")
              /\ c.modifiedOnFill = l.sec[s].modifiedOnFill
<1> DEFINE m == l.sec[s].modifiedOnFill
           r == l.sec[s].readable \/ l.sec[s].readableOnFill
           st == IF m THEN "MODIFIED" ELSE "VALID"
           c == Sector(st, m, r, FALSE)
<1>1. l.sec[s] \in SectorStates
  BY DEF LineStates
<1>2. m \in BOOLEAN /\ r \in BOOLEAN /\ st \in {"INVALID", "RESERVED", "VALID", "MODIFIED"}
  BY <1>1 DEF SectorStates
<1>3. FilledLine(l, s) = WithSector(l, s, c)
  BY DEF FilledLine
<1> HIDE DEF m, r, st
<1>4. \A f \in BOOLEAN : /\ Sector(st, m, r, f) \in SectorStates /\ Sector(st, m, r, f).st = st
                         /\ Sector(st, m, r, f).modifiedOnFill = m
  BY <1>2, SectorFacts
<1>5. c \in SectorStates /\ c.st = st /\ c.modifiedOnFill = m
  BY <1>4
<1>6. QED
  BY <1>3, <1>5 DEF m, st

\* The later of two replacements of a sector stays.
LEMMA WithSectorTwice ==
    ASSUME NEW l \in LineStates, NEW s \in Sectors, NEW c \in SectorStates, NEW d \in SectorStates
    PROVE  WithSector(WithSector(l, s, c), s, d) = WithSector(l, s, d)
<1>1. WithSector(l, s, c) = [block |-> l.block, sec |-> [l.sec EXCEPT ![s] = c]]
  BY DEF WithSector, LineStates
<1>2. WithSector(l, s, d) = [block |-> l.block, sec |-> [l.sec EXCEPT ![s] = d]]
  BY DEF WithSector, LineStates
<1>3. l.sec \in [Sectors -> SectorStates]
  BY DEF LineStates
<1> DEFINE k == [l.sec EXCEPT ![s] = c]
<1>4. k \in [Sectors -> SectorStates] /\ [k EXCEPT ![s] = d] = [l.sec EXCEPT ![s] = d]
  BY <1>3
<1> HIDE DEF k
<1>5. WithSector([block |-> l.block, sec |-> k], s, d) = [block |-> l.block, sec |-> [k EXCEPT ![s] = d]]
  BY <1>4 DEF WithSector
<1>6. QED
  BY <1>1, <1>2, <1>4, <1>5 DEF k

\* The sector and m_dirty after an answer.
LEMMA FillLines ==
    ASSUME TypeOK, NEW i \in DOMAIN memory, Fill(i)
    PROVE  \E c \in SectorStates :
              LET w == memory[i].way
                  s == memory[i].addr[2]
                  l == WithSector(lines[w], s, c)
              IN  /\ lines' = [lines EXCEPT ![w] = l]
                  /\ dirty' = (IF is_modified_line(lines[w]) THEN dirty - 1 ELSE dirty)
                              + (IF is_modified_line(l) THEN 1 ELSE 0)
                  /\ c.st = (IF lines[w].sec[s].modifiedOnFill \/ mshr[memory[i].addr].atomic
                             THEN "MODIFIED" ELSE "VALID")
                  /\ c.modifiedOnFill = lines[w].sec[s].modifiedOnFill
<1> DEFINE a == memory[i].addr
           w == memory[i].way
           s == a[2]
           b == lines[w]
           l == FilledLine(b, s)
           d == DirtyFilled(b, l)
<1>1. a \in Addrs /\ w \in Ways /\ s \in Sectors /\ dirty \in Int
  BY MsgFacts DEF TypeOK
<1>2. b \in LineStates /\ mshr[a].atomic \in BOOLEAN
  BY <1>1 DEF TypeOK
<1>3. PICK c \in SectorStates : /\ l = WithSector(b, s, c)
                                /\ c.st = (IF b.sec[s].modifiedOnFill THEN "MODIFIED" ELSE "VALID")
                                /\ c.modifiedOnFill = b.sec[s].modifiedOnFill
  <2> HIDE DEF s, b
  <2>1. QED
    BY <1>1, <1>2, FilledFacts
<1>4. IF mshr[a].atomic
      THEN lines' = [lines EXCEPT ![w] = Modified(l, s, l.sec[s].readable)] /\ dirty' = DirtyModified(l, d)
      ELSE lines' = [lines EXCEPT ![w] = l] /\ dirty' = d
  BY DEF Fill
<1> HIDE DEF a, w, s, b, l
<1>5. /\ d \in Int
      /\ d = (IF is_modified_line(b) THEN dirty - 1 ELSE dirty) + (IF is_modified_line(l) THEN 1 ELSE 0)
  BY <1>1 DEF DirtyFilled
<1>6. l \in LineStates /\ l.sec[s] = c
  BY <1>1, <1>2, <1>3, WithSectorFacts
<1>7. CASE ~mshr[a].atomic
  BY <1>3, <1>4, <1>5, <1>7 DEF a, w, s, b
<1>8. CASE mshr[a].atomic
  <2> DEFINE r == l.sec[s].readable
             e == Sector("MODIFIED", l.sec[s].modifiedOnFill, r, l.sec[s].readableOnFill)
             m == Modified(l, s, r)
  <2>1. r \in BOOLEAN
    BY <1>6 DEF SectorStates
  <2> HIDE DEF r
  <2>2. /\ m = WithSector(l, s, e) /\ e \in SectorStates /\ e.st = "MODIFIED"
        /\ e.modifiedOnFill = l.sec[s].modifiedOnFill /\ is_modified_line(m)
    BY <1>1, <1>6, <2>1, ModifiedFacts
  <2> HIDE DEF e
  <2>3. m = WithSector(b, s, e)
    BY <1>1, <1>2, <1>3, <2>2, WithSectorTwice
  <2>4. lines' = [lines EXCEPT ![w] = m] /\ dirty' = DirtyModified(l, d)
    BY <1>4, <1>8 DEF r
  <2> HIDE DEF d, m
  <2>5. dirty' = (IF is_modified_line(b) THEN dirty - 1 ELSE dirty) + (IF is_modified_line(m) THEN 1 ELSE 0)
    BY <1>1, <1>5, <2>2, <2>4 DEF DirtyModified
  <2>6. QED
    BY <1>3, <1>6, <1>8, <2>2, <2>3, <2>4, <2>5 DEF a, w, s, b
<1>9. QED
  BY <1>2, <1>7, <1>8 DEF a

\* The address of an answer joins the responses.
LEMMA RespondFacts ==
    ASSUME TypeOK, ResponsesReady, NEW a \in Addrs, mshr[a].n > 0, ~mshr[a].ready,
           mshr' = [mshr EXCEPT ![a].ready = TRUE], response' = Append(response, a)
    PROVE  /\ mshr' \in [Addrs -> [n : Nat, ready : BOOLEAN, atomic : BOOLEAN]]
           /\ response' \in Seq(Addrs)
           /\ mshr'[a].ready /\ \A b \in Addrs : b # a => mshr'[b] = mshr[b]
           /\ \A b \in Addrs : mshr'[b].atomic = mshr[b].atomic
           /\ ResponsesReady'
<1> DEFINE n == Len(response)
           E == [n : Nat, ready : BOOLEAN, atomic : BOOLEAN]
<1>1. response \in Seq(Addrs) /\ mshr \in [Addrs -> E]
  BY DEF TypeOK
<1>2. /\ mshr' \in [Addrs -> E] /\ mshr'[a].ready /\ mshr'[a].n = mshr[a].n
      /\ mshr'[a].atomic = mshr[a].atomic /\ \A b \in Addrs : b # a => mshr'[b] = mshr[b]
  BY <1>1
<1>3. /\ n \in Nat /\ DOMAIN response = 1..n /\ response' \in Seq(Addrs) /\ DOMAIN response' = 1..(n + 1)
      /\ response'[n + 1] = a /\ \A i \in 1..n : response'[i] = response[i]
  BY <1>1
<1>4. /\ \A i, j \in 1..n : response[i] = response[j] => i = j
      /\ \A b \in Addrs : mshr[b].ready <=> \E i \in 1..n : response[i] = b
      /\ \A b \in Addrs : mshr[b].ready => mshr[b].n > 0
  BY <1>3 DEF ResponsesReady
<1> HIDE DEF n
<1>5. /\ \A i \in 1..(n + 1) : i \in 1..n \/ i = n + 1
      /\ \A i \in 1..n : i \in 1..(n + 1) /\ i # n + 1
      /\ n + 1 \in 1..(n + 1)
  BY <1>3
<1>6. \A i \in 1..n : response[i] # a
  BY <1>4
<1>7. \A i, j \in 1..(n + 1) : response'[i] = response'[j] => i = j
  BY <1>3, <1>4, <1>5, <1>6
<1>8. ASSUME NEW b \in Addrs PROVE mshr'[b].ready <=> \E i \in 1..(n + 1) : response'[i] = b
  <2>1. CASE b = a
    BY <1>2, <1>3, <1>5, <2>1
  <2>2. CASE b # a
    BY <1>2, <1>3, <1>4, <1>5, <2>2
  <2>3. QED
    BY <2>1, <2>2
<1>9. \A b \in Addrs : mshr'[b].ready => mshr'[b].n > 0
  BY <1>2, <1>4
<1>10. ResponsesReady'
  BY <1>3, <1>7, <1>8, <1>9 DEF ResponsesReady
<1>11. QED
  BY <1>2, <1>3, <1>10

\* Memory answers, the sector is filled and its readers become ready.
LEMMA FillInd ==
    ASSUME IndInv, NEW i \in DOMAIN memory, Fill(i)
    PROVE  IndInv'
<1> DEFINE a == memory[i].addr
           w == memory[i].way
           s == a[2]
<1>1. /\ UNCHANGED <<policy, missQueue, port, issued, strayed>>
      /\ mshr' = [mshr EXCEPT ![a].ready = TRUE] /\ response' = Append(response, a)
      /\ memory' = [j \in 1..(Len(memory) - 1) |-> IF j < i THEN memory[j] ELSE memory[j + 1]]
  BY DEF Fill
<1>2. TypeOK /\ FetchesUnique /\ FetchesPending /\ ResponsesReady
  BY DEF IndInv
<1>3. memory[i] \in FetchMsgs
  BY <1>2 DEF TypeOK
<1>4. a \in Addrs /\ w \in Ways /\ s \in Sectors /\ memory[i] = Fetch(a, w) /\ a = <<a[1], s>>
  BY <1>3, MsgFacts
<1>5. /\ memory' \in Seq(FetchMsgs) /\ memory[i] \in Fetches /\ FetchesUnique'
      /\ \A f : f \in Fetches' <=> f \in Fetches /\ f.addr # a
  BY <1>1, <1>2, AnswerFacts
<1>6. mshr[a].n > 0 /\ ~mshr[a].ready
  BY <1>2, <1>4, <1>5 DEF FetchesPending, probe
<1>7. /\ mshr' \in [Addrs -> [n : Nat, ready : BOOLEAN, atomic : BOOLEAN]] /\ response' \in Seq(Addrs)
      /\ mshr'[a].ready /\ \A b \in Addrs : b # a => mshr'[b] = mshr[b]
      /\ \A b \in Addrs : mshr'[b].atomic = mshr[b].atomic
      /\ ResponsesReady'
  <2> HIDE DEF a
  <2>1. QED
    BY <1>1, <1>2, <1>4, <1>6, RespondFacts
<1>8. PICK c \in SectorStates :
          /\ lines' = [lines EXCEPT ![w] = WithSector(lines[w], s, c)]
          /\ dirty' = (IF is_modified_line(lines[w]) THEN dirty - 1 ELSE dirty)
                      + (IF is_modified_line(WithSector(lines[w], s, c)) THEN 1 ELSE 0)
          /\ c.st = (IF lines[w].sec[s].modifiedOnFill \/ mshr[a].atomic THEN "MODIFIED" ELSE "VALID")
          /\ c.modifiedOnFill = lines[w].sec[s].modifiedOnFill
  BY <1>2, FillLines
<1> HIDE DEF a, w, s
<1> DEFINE l == WithSector(lines[w], s, c)
<1>9. lines[w] \in LineStates /\ dirty \in Int
  BY <1>2, <1>4 DEF TypeOK
<1>10. /\ l \in LineStates /\ l.sec[s] = c
       /\ \A t \in Sectors : t # s => l.sec[t] = lines[w].sec[t]
  BY <1>4, <1>9, WithSectorFacts
<1>11. lines' = [lines EXCEPT ![w] = l]
  BY <1>8
<1> HIDE DEF l
<1>12. DirtyExact'
  <2>1. dirty' = (IF is_modified_line(lines[w]) THEN dirty - 1 ELSE dirty)
                 + (IF is_modified_line(l) THEN 1 ELSE 0)
    BY <1>8 DEF l
  <2>2. QED
    BY <1>2, <1>4, <1>10, <1>11, <2>1, DirtyStep DEF IndInv
<1>13. \A v \in Ways : lines'[v] = IF v = w THEN l ELSE lines[v]
  BY <1>2, <1>4, <1>11 DEF TypeOK
<1>14. TypeOK'
  <2>1. lines' \in [Ways -> LineStates]
    BY <1>2, <1>10, <1>11 DEF TypeOK
  <2>2. dirty' \in Int
    BY <1>8, <1>9
  <2>3. QED
    BY <1>1, <1>2, <1>5, <1>7, <2>1, <2>2 DEF TypeOK
<1>15. PolicyKept' /\ Sane' /\ StraysKnown'
  <2>1. ASSUME policy.hit = "we", NEW v \in Ways, NEW t \in Sectors
        PROVE  lines'[v].sec[t].st # "MODIFIED" /\ ~lines'[v].sec[t].modifiedOnFill
    <3>1. /\ lines[v].sec[t].st # "MODIFIED" /\ ~lines[v].sec[t].modifiedOnFill
          /\ ~lines[w].sec[s].modifiedOnFill /\ ~mshr[a].atomic
      BY <1>4, <2>1 DEF IndInv, PolicyKept
    <3>2. c.st = "VALID" /\ ~c.modifiedOnFill
      BY <1>8, <3>1
    <3>3. CASE v = w /\ t = s
      BY <1>10, <1>13, <3>2, <3>3
    <3>4. CASE ~(v = w /\ t = s)
      BY <1>10, <1>13, <3>1, <3>4
    <3>5. QED
      BY <3>3, <3>4
  <2>2. QED
    BY <1>1, <1>7, <2>1 DEF IndInv, PolicyKept, Sane, StraysKnown
<1>16. FetchesPending'
  <2>1. ASSUME NEW b \in Addrs PROVE probe(b)' <=> \E f \in Fetches' : f.addr = b
    <3>1. CASE b = a
      BY <1>5, <1>7, <3>1 DEF probe
    <3>2. CASE b # a
      <4>1. probe(b)' <=> probe(b)
        BY <1>7, <3>2 DEF probe
      <4>2. QED
        BY <1>2, <1>5, <3>2, <4>1 DEF FetchesPending
    <3>3. QED
      BY <3>1, <3>2
  <2>2. QED
    BY <2>1 DEF FetchesPending
<1>17. ASSUME strayed' = {} PROVE LinesAwait'
  <2>1. LinesAwait
    BY <1>1, <1>17 DEF IndInv
  <2>2. memory[i].way = w /\ memory[i].addr = a /\ memory[i].addr[2] = s
    BY DEF a, w, s
  <2>3. lines[w].block = a[1] /\ Awaits(lines[w].sec[s])
    BY <1>5, <2>1, <2>2 DEF LinesAwait
  <2>4. ~is_invalid_line(lines[w])
    BY <1>4, <2>3, InUse DEF Awaits
  <2>5. Fetch(<<lines[w].block, s>>, w) = memory[i]
    BY <1>4, <2>3
  <2>6. memory[i] \notin Fetches'
    BY <1>5, <2>2
  <2>7. ASSUME NEW f \in Fetches PROVE f \in Fetches' \/ f = Fetch(<<lines[w].block, s>>, w)
    <3>1. CASE f.addr # a
      BY <1>5, <2>7, <3>1
    <3>2. CASE f.addr = a
      <4>1. f \in FetchMsgs
        BY <1>2, FetchesAre
      <4>2. f.way \in Ways /\ f = Fetch(a, f.way)
        BY <3>2, <4>1, MsgFacts
      <4>3. lines[f.way].block = a[1] /\ Awaits(lines[f.way].sec[s])
        BY <2>1, <3>2 DEF LinesAwait, s
      <4>4. ~is_invalid_line(lines[f.way])
        BY <1>4, <4>3, InUse DEF Awaits
      <4>5. f.way = w
        BY <1>4, <2>1, <2>3, <2>4, <4>2, <4>3, <4>4 DEF LinesAwait
      <4>6. QED
        BY <1>4, <2>5, <4>2, <4>5
    <3>3. QED
      BY <3>1, <3>2
  <2>8. c.st # "RESERVED"
    BY <1>8
  <2>9. lines' = [lines EXCEPT ![w] = WithSector(lines[w], s, c)]
    BY <1>11 DEF l
  <2>10. \A f \in Fetches' : f \in Fetches
    BY <1>5
  <2>11. Fetch(<<lines[w].block, s>>, w) \notin Fetches'
    BY <2>5, <2>6
  <2>12. QED
    BY <1>1, <1>2, <1>4, <2>1, <2>4, <2>7, <2>8, <2>9, <2>10, <2>11, SectorStep
<1>18. QED
  BY <1>5, <1>7, <1>12, <1>14, <1>15, <1>16, <1>17 DEF IndInv

-----------------------------------------------------------------------------
(* Misses. *)

\* A reserved sector.
LEMMA ReservedFacts ==
    ASSUME NEW m \in BOOLEAN
    PROVE  /\ ReservedSector(m) \in SectorStates
           /\ ReservedSector(m).st = "RESERVED" /\ ReservedSector(m).modifiedOnFill = m
  BY DEF ReservedSector, Sector, SectorStates

\* A line that is taken over for q has one reserved sector and no other in use.
LEMMA AllocatedFacts ==
    ASSUME NEW q \in Requests
    PROVE  /\ allocate_line(q) \in LineStates /\ allocate_line(q).block = q.block
           /\ allocate_line(q).sec[q.sector] = ReservedSector(FALSE)
           /\ \A t \in Sectors : t # q.sector => /\ allocate_line(q).sec[t].st = "INVALID"
                                                 /\ ~allocate_line(q).sec[t].modifiedOnFill
           /\ ~is_modified_line(allocate_line(q))
<1>1. q.block \in Blocks /\ q.sector \in Sectors
  BY CacheAssumption
<1>2. BlankSector \in SectorStates /\ BlankSector.st = "INVALID" /\ ~BlankSector.modifiedOnFill
  BY SectorFacts DEF BlankSector
<1>3. ReservedSector(FALSE) \in SectorStates /\ ReservedSector(FALSE).st = "RESERVED"
  BY DEF ReservedSector, Sector, SectorStates
<1>4. /\ allocate_line(q) \in LineStates /\ allocate_line(q).block = q.block
      /\ \A t \in Sectors : allocate_line(q).sec[t] = IF t = q.sector THEN ReservedSector(FALSE)
                                                                     ELSE BlankSector
  BY <1>1, <1>2, <1>3 DEF allocate_line, LineStates
<1>5. ~is_modified_line(allocate_line(q))
  BY <1>2, <1>3, <1>4 DEF is_modified_line, HasSector
<1>6. QED
  BY <1>1, <1>2, <1>4, <1>5

\* tag_array::access on a miss: the sector is reserved, and m_dirty follows the line.
LEMMA AccessFacts ==
    ASSUME TypeOK, NEW q \in Requests, Probe(q) \notin {"HIT", "RESERVATION_FAIL"}, NEW w \in Indices(q)
    PROVE  /\ w \in Ways /\ w \in Home[q.block] /\ q.block \in Blocks /\ q.sector \in Sectors
           /\ Accessed(q, w) \in LineStates /\ Accessed(q, w).block = q.block
           /\ DirtyAccessed(q, w) = (IF is_modified_line(lines[w]) THEN dirty - 1 ELSE dirty)
                                    + (IF is_modified_line(Accessed(q, w)) THEN 1 ELSE 0)
           /\ Probe(q) \in {"MISS", "SECTOR_MISS", "HIT_RESERVED"}
           /\ Probe(q) = "MISS" => /\ Matches(q) = {} /\ ~is_reserved_line(lines[w])
                                   /\ Accessed(q, w) = allocate_line(q)
           /\ Probe(q) # "MISS" => /\ w = Min(Matches(q)) /\ ~is_invalid_line(lines[w])
                                   /\ lines[w].block = q.block
           /\ Probe(q) = "SECTOR_MISS" =>
                 /\ Accessed(q, w) = WithSector(lines[w], q.sector,
                                                ReservedSector(lines[w].sec[q.sector].st = "MODIFIED"))
                 /\ q.op = "write" => lines[w].sec[q.sector].st = "INVALID"
           /\ Probe(q) = "HIT_RESERVED" => /\ Accessed(q, w) = lines[w]
                                           /\ lines[w].sec[q.sector].st = "RESERVED"
<1>1. q.block \in Blocks /\ q.sector \in Sectors /\ dirty \in Int
  BY CacheAssumption DEF TypeOK
<1>2. Probe(q) \in {"MISS", "SECTOR_MISS", "HIT_RESERVED"}
  BY ProbeFacts
<1>3. CASE Probe(q) = "MISS"
  <2>1. Matches(q) = {} /\ w \in Victims(q)
    BY <1>3, ProbeFacts
  <2>2. w \in Ways /\ w \in Home[q.block] /\ ~is_reserved_line(lines[w])
    BY <2>1, VictimFacts DEF Replaceable
  <2>3. Accessed(q, w) = allocate_line(q)
    BY <1>3 DEF Accessed
  <2>4. /\ Accessed(q, w) \in LineStates /\ Accessed(q, w).block = q.block
        /\ ~is_modified_line(Accessed(q, w))
    BY <2>3, AllocatedFacts
  <2>5. DirtyAccessed(q, w) = IF is_modified_line(lines[w]) THEN dirty - 1 ELSE dirty
    BY <1>3 DEF DirtyAccessed
  <2>6. DirtyAccessed(q, w) = (IF is_modified_line(lines[w]) THEN dirty - 1 ELSE dirty)
                              + (IF is_modified_line(Accessed(q, w)) THEN 1 ELSE 0)
    BY <1>1, <2>4, <2>5
  <2>7. QED
    BY <1>1, <1>3, <2>1, <2>2, <2>3, <2>4, <2>6
<1>4. ASSUME Probe(q) # "MISS"
      PROVE  /\ w = Min(Matches(q)) /\ w \in Ways /\ w \in Home[q.block] /\ lines[w] \in LineStates
             /\ ~is_invalid_line(lines[w]) /\ lines[w].block = q.block
  <2>1. w = Min(Matches(q)) /\ w \in Ways
    BY <1>2, <1>4, ProbeFacts
  <2>2. QED
    BY <1>2, <1>4, <2>1, ProbeFacts DEF TypeOK
<1>5. CASE Probe(q) = "SECTOR_MISS"
  <2> DEFINE m == lines[w].sec[q.sector].st = "MODIFIED"
             c == ReservedSector(m)
             l == WithSector(lines[w], q.sector, c)
  <2>1. /\ w = Min(Matches(q)) /\ w \in Ways /\ w \in Home[q.block] /\ lines[w] \in LineStates
        /\ ~is_invalid_line(lines[w]) /\ lines[w].block = q.block
    BY <1>4, <1>5
  <2>2. q.op = "write" => lines[w].sec[q.sector].st = "INVALID"
    BY <1>5, <2>1, ProbeFacts
  <2>3. Accessed(q, w) = l
    BY <1>5 DEF Accessed, allocate_sector
  <2>4. c \in SectorStates /\ c.st = "RESERVED"
    <3>1. m \in BOOLEAN
      OBVIOUS
    <3> HIDE DEF m
    <3>2. QED
      BY <3>1, ReservedFacts
  <2> HIDE DEF c, m
  <2>5. /\ l \in LineStates /\ l.block = q.block /\ l.sec[q.sector] = c
        /\ \A t \in Sectors : t # q.sector => l.sec[t] = lines[w].sec[t]
    BY <1>1, <2>1, <2>4, WithSectorFacts
  <2> HIDE DEF l
  <2>6. is_modified_line(l) => is_modified_line(lines[w])
    BY <2>4, <2>5 DEF is_modified_line, HasSector
  <2>7. DirtyAccessed(q, w) = IF is_modified_line(lines[w]) /\ ~is_modified_line(l) THEN dirty - 1 ELSE dirty
    BY <1>5, <2>3 DEF DirtyAccessed
  <2>8. DirtyAccessed(q, w) = (IF is_modified_line(lines[w]) THEN dirty - 1 ELSE dirty)
                              + (IF is_modified_line(l) THEN 1 ELSE 0)
    BY <1>1, <2>6, <2>7
  <2>9. QED
    BY <1>1, <1>5, <2>1, <2>2, <2>3, <2>5, <2>8 DEF l, c, m
<1>6. CASE Probe(q) = "HIT_RESERVED"
  <2>1. /\ w = Min(Matches(q)) /\ w \in Ways /\ w \in Home[q.block] /\ lines[w] \in LineStates
        /\ ~is_invalid_line(lines[w]) /\ lines[w].block = q.block
    BY <1>4, <1>6
  <2>2. lines[w].sec[q.sector].st = "RESERVED"
    BY <1>6, <2>1, ProbeFacts
  <2>3. Accessed(q, w) = lines[w]
    BY <1>6 DEF Accessed
  <2>4. DirtyAccessed(q, w) = dirty
    BY <1>6 DEF DirtyAccessed
  <2>5. DirtyAccessed(q, w) = (IF is_modified_line(lines[w]) THEN dirty - 1 ELSE dirty)
                              + (IF is_modified_line(lines[w]) THEN 1 ELSE 0)
    BY <1>1, <2>4
  <2>6. QED
    BY <1>1, <1>6, <2>1, <2>2, <2>3, <2>5
<1>7. QED
  BY <1>2, <1>3, <1>5, <1>6

\* What Strays means for the fetches, and why nothing strays without allocation on writes.
LEMMA StrayFacts ==
    ASSUME IndInv, policy' = policy, NEW q \in Requests, Probe(q) \notin {"HIT", "RESERVATION_FAIL"},
           NEW w \in Indices(q), strayed' = Strays(q, w)
    PROVE  /\ strayed' \subseteq {"replaced", "invalidated"}
           /\ strayed' = {} => strayed = {}
           /\ strayed' = {} /\ Probe(q) = "MISS" => \A f \in Fetches : f.way # w
           /\ StraysKnown'
<1>1. TypeOK
  BY DEF IndInv
<1>2. strayed' = IF Probe(q) = "MISS" /\ \E f \in Fetches : f.way = w THEN strayed \cup {"replaced"}
                                                                       ELSE strayed
  BY DEF Strays, Fetches
<1>3. strayed \subseteq {"replaced", "invalidated"}
  BY <1>1 DEF TypeOK
<1>4. ASSUME policy.alloc = "none", "invalidated" \notin strayed PROVE strayed' = {}
  <2>1. strayed = {} /\ LinesAwait
    BY <1>4 DEF IndInv, StraysKnown
  <2>2. ASSUME Probe(q) = "MISS", NEW f \in Fetches, f.way = w PROVE FALSE
    <3>1. f \in FetchMsgs
      BY <1>1, FetchesAre
    <3>2. f.addr[2] \in Sectors
      BY <3>1, MsgFacts
    <3>3. lines[w].sec[f.addr[2]].st = "RESERVED"
      BY <1>4, <2>1, <2>2 DEF LinesAwait, Awaits
    <3>4. ~is_reserved_line(lines[w])
      BY <1>1, <2>2, AccessFacts
    <3>5. QED
      BY <3>2, <3>3, <3>4 DEF is_reserved_line, HasSector
  <2>3. QED
    BY <1>2, <2>1, <2>2
<1>5. StraysKnown'
  BY <1>2, <1>4 DEF StraysKnown
<1>6. QED
  BY <1>2, <1>3, <1>5

\* A miss reserves a sector, joins or makes its MSHR entry and fetches it for a new entry.
LEMMA ReadMissInd ==
    ASSUME IndInv, ReadMiss
    PROVE  IndInv'
<1> DEFINE s == port.sector
           a == <<port.block, s>>
           at == port.op = "atomic"
<1>1. /\ UNCHANGED <<policy, response, memory, issued>> /\ port' = NoRequest
      /\ port.op \in {"read", "atomic"} /\ Probe(port) \notin {"HIT", "RESERVATION_FAIL"}
      /\ ~full(a) /\ mshr' = Added(a, at)
  BY DEF ReadMiss, ReadMisses, Taken
<1> DEFINE x(w) == IF probe(a) THEN <<>> ELSE <<Fetch(a, w)>>
           y(w) == IF Evicts(port, w) /\ policy.hit # "wt" THEN <<WriteBack(lines[w].block)>> ELSE <<>>
<1>2. PICK w \in Indices(port) : /\ lines' = [lines EXCEPT ![w] = Accessed(port, w)]
                                 /\ dirty' = DirtyAccessed(port, w)
                                 /\ missQueue' = (missQueue \o x(w)) \o y(w)
                                 /\ strayed' = Strays(port, w)
  BY DEF ReadMiss
<1>3. TypeOK /\ FetchesUnique /\ FetchesPending /\ ResponsesReady /\ dirty \in Int
  BY DEF IndInv, TypeOK
<1>4. port \in Requests /\ a \in Addrs /\ s \in Sectors
  BY <1>1, <1>3, PortFacts
<1> DEFINE l == Accessed(port, w)
<1>5. /\ w \in Ways /\ w \in Home[port.block] /\ l \in LineStates /\ l.block = port.block
      /\ DirtyAccessed(port, w) = (IF is_modified_line(lines[w]) THEN dirty - 1 ELSE dirty)
                                    + (IF is_modified_line(l) THEN 1 ELSE 0)
      /\ Probe(port) \in {"MISS", "SECTOR_MISS", "HIT_RESERVED"}
      /\ Probe(port) = "MISS" => Matches(port) = {} /\ l = allocate_line(port)
      /\ Probe(port) # "MISS" => /\ w = Min(Matches(port)) /\ ~is_invalid_line(lines[w])
                                 /\ lines[w].block = port.block
      /\ Probe(port) = "SECTOR_MISS" =>
            l = WithSector(lines[w], s, ReservedSector(lines[w].sec[s].st = "MODIFIED"))
      /\ Probe(port) = "HIT_RESERVED" => l = lines[w] /\ lines[w].sec[s].st = "RESERVED"
  BY <1>1, <1>2, <1>3, <1>4, AccessFacts
<1>6. /\ strayed' \subseteq {"replaced", "invalidated"} /\ (strayed' = {} => strayed = {})
      /\ strayed' = {} /\ Probe(port) = "MISS" => \A f \in Fetches : f.way # w
      /\ StraysKnown'
  BY <1>1, <1>2, <1>4, StrayFacts
<1>7. /\ mshr' \in [Addrs -> [n : Nat, ready : BOOLEAN, atomic : BOOLEAN]]
      /\ \A b \in Addrs : b # a => mshr'[b] = mshr[b]
      /\ mshr'[a].n > 0 /\ mshr'[a].ready = mshr[a].ready
      /\ mshr'[a].atomic = (mshr[a].atomic \/ at)
  <2>1. at \in BOOLEAN
    OBVIOUS
  <2> HIDE DEF at, a
  <2>2. QED
    BY <1>1, <1>3, <1>4, <2>1, AddedFacts
<1>8. ~mshr[a].ready
  BY <1>1, Zenon DEF full
<1>9. lines[w].block \in Blocks \cup {NoLine}
  BY <1>3, <1>5 DEF TypeOK, LineStates
<1>10. Fetch(a, w) \in FetchMsgs /\ Fetch(a, w).op = "fetch" /\ Fetch(a, w).addr = a /\ Fetch(a, w).way = w
  BY <1>4, <1>5, MsgFacts
<1> HIDE DEF l, a, s, at
<1>11. /\ x(w) \in Seq(FetchMsgs \cup WriteMsgs) /\ Len(x(w)) <= 1
       /\ \A i \in 1..Len(x(w)) : ~probe(a) /\ x(w)[i] = Fetch(a, w)
       /\ ~probe(a) => 1 \in 1..Len(x(w))
  <2> DEFINE F == Fetch(a, w)
  <2>1. F \in FetchMsgs \cup WriteMsgs
    BY <1>10
  <2> HIDE DEF F
  <2>2. CASE probe(a)
    <3>1. x(w) = <<>>
      BY <2>2
    <3>2. QED
      BY <2>2, <3>1
  <2>3. CASE ~probe(a)
    <3>1. x(w) = <<F>>
      BY <2>3 DEF F
    <3>2. F = Fetch(a, w)
      BY DEF F
    <3> HIDE DEF x
    <3>3. QED
      BY <2>1, <2>3, <3>1, <3>2
  <2>4. QED
    BY <2>2, <2>3
<1>12. y(w) \in Seq(WriteMsgs)
  <2>1. WriteBack(lines[w].block) \in WriteMsgs
    BY <1>9 DEF WriteBack, WriteMsgs
  <2>2. QED
    BY <2>1
<1> DEFINE X == x(w)
           Y == y(w)
<1>13. missQueue' = (missQueue \o X) \o Y
  BY <1>2
<1>14. \A i \in 1..Len(X) : X[i].op = "fetch" => \A f \in Fetches : f.addr # X[i].addr
  <2>1. ~probe(a) => \A f \in Fetches : f.addr # a
    BY <1>3, <1>4 DEF FetchesPending
  <2>2. QED
    BY <1>10, <1>11, <2>1
<1>15. X \in Seq(FetchMsgs \cup WriteMsgs) /\ Len(X) <= 1 /\ Y \in Seq(WriteMsgs) /\ memory' = memory
  BY <1>1, <1>11, <1>12
<1>16. \A i \in 1..Len(X) : ~probe(a) /\ X[i] = Fetch(a, w)
  BY <1>11
<1>17. ~probe(a) => 1 \in 1..Len(X)
  BY <1>11
<1> HIDE DEF X, Y
<1>18. /\ missQueue' \in Seq(FetchMsgs \cup WriteMsgs) /\ FetchesUnique'
       /\ \A f : f \in Fetches' <=> f \in Fetches \/ \E i \in 1..Len(X) : X[i] = f /\ f.op = "fetch"
  BY <1>3, <1>13, <1>14, <1>15, EnqueueFacts
<1>19. \A f : f \in Fetches' <=> f \in Fetches \/ (~probe(a) /\ f = Fetch(a, w))
  BY <1>10, <1>16, <1>17, <1>18
<1>20. lines' = [lines EXCEPT ![w] = l]
  BY <1>2 DEF l
<1>21. DirtyExact'
  <2>1. dirty' = (IF is_modified_line(lines[w]) THEN dirty - 1 ELSE dirty)
                 + (IF is_modified_line(l) THEN 1 ELSE 0)
    BY <1>2, <1>5
  <2>2. QED
    BY <1>3, <1>5, <1>20, <2>1, DirtyStep DEF IndInv
<1>22. TypeOK'
  <2>1. lines' \in [Ways -> LineStates]
    BY <1>3, <1>5, <1>20 DEF TypeOK
  <2>2. dirty' \in Int
    BY <1>2, <1>3, <1>5
  <2>3. QED
    BY <1>1, <1>3, <1>6, <1>7, <1>18, <2>1, <2>2 DEF TypeOK
<1>23. PolicyKept' /\ Sane'
  <2>1. ASSUME policy.hit = "we", NEW v \in Ways, NEW t \in Sectors
        PROVE  lines'[v].sec[t].st # "MODIFIED" /\ ~lines'[v].sec[t].modifiedOnFill
    <3>1. lines[v].sec[t].st # "MODIFIED" /\ ~lines[v].sec[t].modifiedOnFill
      BY <2>1 DEF IndInv, PolicyKept
    <3>2. lines'[v] = IF v = w THEN l ELSE lines[v]
      BY <1>3, <1>5, <1>20 DEF TypeOK
    <3>3. CASE v # w
      BY <3>1, <3>2, <3>3
    <3>4. CASE v = w
      <4>1. CASE Probe(port) = "MISS"
        <5>1. ReservedSector(FALSE).st = "RESERVED" /\ ~ReservedSector(FALSE).modifiedOnFill
          BY DEF ReservedSector, Sector
        <5>2. /\ l.sec[s] = ReservedSector(FALSE)
              /\ \A u \in Sectors : u # s => l.sec[u].st = "INVALID" /\ ~l.sec[u].modifiedOnFill
          BY <1>4, <1>5, <4>1, AllocatedFacts DEF s
        <5>3. QED
          BY <3>2, <3>4, <5>1, <5>2
      <4>2. CASE Probe(port) = "SECTOR_MISS"
        <5>1. lines[w].sec[s].st # "MODIFIED"
          BY <1>4, <1>5, <2>1 DEF IndInv, PolicyKept
        <5>2. l = WithSector(lines[w], s, ReservedSector(FALSE))
          BY <1>5, <4>2, <5>1
        <5>3. ReservedSector(FALSE) \in SectorStates /\ ReservedSector(FALSE).st = "RESERVED"
              /\ ~ReservedSector(FALSE).modifiedOnFill
          BY DEF ReservedSector, Sector, SectorStates
        <5>4. lines[w] \in LineStates
          BY <1>3, <1>5 DEF TypeOK
        <5>5. l.sec[s] = ReservedSector(FALSE) /\ \A u \in Sectors : u # s => l.sec[u] = lines[w].sec[u]
          <6> DEFINE c == ReservedSector(FALSE)
          <6>1. c \in SectorStates /\ l = WithSector(lines[w], s, c)
            BY <5>2, <5>3
          <6> HIDE DEF c
          <6>2. l.sec[s] = c /\ \A u \in Sectors : u # s => l.sec[u] = lines[w].sec[u]
            BY <1>4, <5>4, <6>1, WithSectorFacts
          <6>3. QED
            BY <6>2 DEF c
        <5>6. QED
          BY <3>1, <3>2, <3>4, <5>3, <5>5
      <4>3. CASE Probe(port) = "HIT_RESERVED"
        BY <1>5, <3>1, <3>2, <3>4, <4>3
      <4>4. QED
        BY <1>5, <4>1, <4>2, <4>3
    <3>5. QED
      BY <3>3, <3>4
  <2>2. ASSUME policy.hit # "wb", NEW b \in Addrs PROVE ~mshr'[b].atomic
    <3>1. ~at /\ ~mshr[b].atomic
      BY <2>2 DEF IndInv, PolicyKept, at
    <3>2. QED
      BY <1>7, <3>1
  <2>3. QED
    BY <1>1, <2>1, <2>2 DEF IndInv, PolicyKept, Sane, NoRequest
<1>24. FetchesPending'
  <2>1. ASSUME NEW b \in Addrs PROVE probe(b)' <=> \E f \in Fetches' : f.addr = b
    <3>1. CASE b = a
      <4>1. probe(b)'
        BY <1>7, <1>8, <3>1 DEF probe
      <4>2. \E f \in Fetches' : f.addr = b
        BY <1>3, <1>4, <1>10, <1>19, <3>1 DEF FetchesPending
      <4>3. QED
        BY <4>1, <4>2
    <3>2. CASE b # a
      <4>1. probe(b)' <=> probe(b)
        BY <1>7, <3>2 DEF probe
      <4>2. QED
        BY <1>3, <1>10, <1>19, <3>2, <4>1 DEF FetchesPending
    <3>3. QED
      BY <3>1, <3>2
  <2>2. QED
    BY <2>1 DEF FetchesPending
<1>25. ResponsesReady'
  <2>1. \A b \in Addrs : mshr'[b].ready = mshr[b].ready /\ (mshr[b].ready => mshr'[b].n > 0)
    BY <1>3, <1>7 DEF ResponsesReady
  <2>2. QED
    BY <1>1, <1>3, <2>1 DEF ResponsesReady
<1>26. ASSUME strayed' = {} PROVE LinesAwait'
  <2>1. LinesAwait
    BY <1>6, <1>26 DEF IndInv
  <2>2. a[1] = port.block /\ a = <<port.block, s>>
    BY DEF a
  <2>3. \A f \in Fetches : f.addr = a => Matches(port) # {} /\ f.way = Min(Matches(port))
    BY <1>3, <1>4, <2>1, <2>2, FetchMatches
  <2>4. probe(a) => \E f \in Fetches : f.addr = a
    BY <1>3, <1>4 DEF FetchesPending
  <2>5. Fetches \subseteq FetchMsgs
    BY <1>3, FetchesAre
  <2>6. CASE Probe(port) = "MISS"
    <3>1. ~probe(a)
      BY <1>5, <2>3, <2>4, <2>6
    <3>2. Fetch(a, w) \in Fetches'
      BY <1>19, <3>1
    <3>3. /\ l.sec[s] = ReservedSector(FALSE) /\ \A t \in Sectors : t # s => l.sec[t].st = "INVALID"
      BY <1>4, <1>5, <2>6, AllocatedFacts DEF s
    <3>4. ReservedSector(FALSE).st = "RESERVED"
      BY DEF ReservedSector, Sector
    <3>5. Awaits(l.sec[s])
      BY <3>3, <3>4 DEF Awaits
    <3>6. \A f \in Fetches : f.way # w
      BY <1>6, <1>26, <2>6
    <3>7. QED
      BY <1>1, <1>3, <1>4, <1>5, <1>19, <1>20, <2>1, <2>2, <2>6, <3>2, <3>3, <3>5, <3>6, ReplaceStep DEF s
  <2>7. CASE Probe(port) = "SECTOR_MISS"
    <3> DEFINE m == lines[w].sec[s].st = "MODIFIED"
               c == ReservedSector(m)
    <3>1. c \in SectorStates /\ c.st = "RESERVED"
      <4>1. m \in BOOLEAN
        OBVIOUS
      <4> HIDE DEF m
      <4>2. QED
        BY <4>1, ReservedFacts
    <3>2. l = WithSector(lines[w], s, c)
      BY <1>5, <2>7
    <3> HIDE DEF c
    <3>3. Fetch(a, w) \in Fetches'
      <4>1. CASE ~probe(a)
        BY <1>19, <4>1
      <4>2. CASE probe(a)
        <5>1. PICK f \in Fetches : f.addr = a
          BY <2>4, <4>2
        <5>2. f.way = w /\ f = Fetch(f.addr, f.way)
          BY <1>5, <2>3, <2>5, <2>7, <5>1, MsgFacts
        <5>3. QED
          BY <1>19, <5>1, <5>2
      <4>3. QED
        BY <4>1, <4>2
    <3>4. Awaits(c)
      BY <3>1 DEF Awaits
    <3>5. a = <<lines[w].block, s>> /\ ~is_invalid_line(lines[w])
      BY <1>5, <2>2, <2>7
    <3>6. lines' = [lines EXCEPT ![w] = WithSector(lines[w], s, c)]
      BY <1>20, <3>2
    <3>7. /\ \A f \in Fetches' : f \in Fetches \/ f = Fetch(<<lines[w].block, s>>, w)
          /\ \A f \in Fetches : f \in Fetches' \/ f = Fetch(<<lines[w].block, s>>, w)
          /\ Fetch(<<lines[w].block, s>>, w) \in Fetches'
      BY <1>19, <3>3, <3>5
    <3>8. QED
      BY <1>1, <1>3, <1>4, <1>5, <2>1, <3>1, <3>4, <3>5, <3>6, <3>7, SectorStep
  <2>8. CASE Probe(port) = "HIT_RESERVED"
    <3>1. Fetch(<<lines[w].block, s>>, w) \in Fetches /\ <<lines[w].block, s>> = a
      BY <1>4, <1>5, <2>1, <2>2, <2>8 DEF LinesAwait
    <3>2. probe(a)
      BY <1>3, <1>4, <1>10, <3>1 DEF FetchesPending
    <3>3. Fetches' = Fetches
      BY <1>19, <3>2
    <3>4. lines' = lines
      BY <1>3, <1>5, <1>20, <2>8 DEF TypeOK
    <3>5. QED
      BY <1>1, <2>1, <3>3, <3>4, LinesQuiet
  <2>9. QED
    BY <1>5, <2>6, <2>7, <2>8
<1>27. QED
  BY <1>6, <1>18, <1>21, <1>22, <1>23, <1>24, <1>25, <1>26 DEF IndInv

\* The line a lazy write leaves.
LEMMA LazilyModifiedFacts ==
    ASSUME NEW l \in LineStates, NEW s \in Sectors, NEW whole \in BOOLEAN, NEW covered \in BOOLEAN,
           NEW reserved \in BOOLEAN
    PROVE  \E c \in SectorStates :
              /\ LazilyModified(l, s, whole, covered, reserved) = WithSector(l, s, c)
              /\ c.st = "MODIFIED" /\ c.modifiedOnFill = (reserved \/ l.sec[s].modifiedOnFill)
<1>1. l.sec[s] \in SectorStates
  BY DEF LineStates
<1>2. l.sec[s].modifiedOnFill \in BOOLEAN /\ l.sec[s].readableOnFill \in BOOLEAN
  BY <1>1 DEF SectorStates
<1> DEFINE r == whole \/ covered
<1>3. r \in BOOLEAN
  OBVIOUS
<1>4. CASE ~reserved
  <2>1. LazilyModified(l, s, whole, covered, reserved) = Modified(l, s, r)
    BY <1>4 DEF LazilyModified
  <2> HIDE DEF r
  <2> DEFINE c == Sector("MODIFIED", l.sec[s].modifiedOnFill, r, l.sec[s].readableOnFill)
  <2>2. /\ Modified(l, s, r) = WithSector(l, s, c) /\ c \in SectorStates
        /\ c.st = "MODIFIED" /\ c.modifiedOnFill = l.sec[s].modifiedOnFill
    BY <1>3, ModifiedFacts
  <2> HIDE DEF c
  <2>3. QED
    BY <1>2, <1>4, <2>1, <2>2
<1>5. CASE reserved
  <2> DEFINE f == l.sec[s].readableOnFill \/ ~whole
             c == Sector("MODIFIED", TRUE, r, f)
  <2>1. LazilyModified(l, s, whole, covered, reserved) = WithSector(l, s, c)
    BY <1>5 DEF LazilyModified
  <2>2. f \in BOOLEAN
    BY <1>2
  <2> HIDE DEF r, f
  <2>3. c \in SectorStates /\ c.st = "MODIFIED" /\ c.modifiedOnFill = TRUE
    BY <1>3, <2>2, SectorFacts, ZenonT(40)
  <2> HIDE DEF c
  <2>4. QED
    BY <1>5, <2>1, <2>3
<1>6. QED
  BY <1>4, <1>5

\* A lazy write allocates a sector and modifies it without a fetch.
LEMMA WriteMissLazyInd ==
    ASSUME IndInv, WriteMissLazy
    PROVE  IndInv'
<1> DEFINE s == port.sector
           reserved == Probe(port) = "HIT_RESERVED"
           x == IF policy.hit = "wt" THEN <<WriteOf(port)>> ELSE <<>>
           y(w) == IF Evicts(port, w) /\ policy.hit # "wt" THEN <<WriteBack(lines[w].block)>> ELSE <<>>
<1>1. /\ UNCHANGED <<policy, response, memory, issued, mshr>> /\ port' = NoRequest
      /\ port.op = "write" /\ policy.alloc = "lazy" /\ Probe(port) \notin {"HIT", "RESERVATION_FAIL"}
  BY DEF WriteMissLazy, Taken
<1>2. PICK w \in Indices(port), whole \in BOOLEAN, covered \in BOOLEAN :
          /\ lines' = [lines EXCEPT ![w] = LazilyModified(Accessed(port, w), s, whole, covered, reserved)]
          /\ dirty' = DirtyModified(Accessed(port, w), DirtyAccessed(port, w))
          /\ missQueue' = (missQueue \o x) \o y(w)
          /\ strayed' = Strays(port, w)
  BY DEF WriteMissLazy
<1>3. TypeOK /\ FetchesUnique /\ FetchesPending /\ ResponsesReady /\ dirty \in Int
  BY DEF IndInv, TypeOK
<1>4. port \in Requests /\ s \in Sectors /\ port.block \in Blocks
  BY <1>1, <1>3, PortFacts
<1> DEFINE l == Accessed(port, w)
<1>5. /\ w \in Ways /\ w \in Home[port.block] /\ l \in LineStates /\ l.block = port.block
      /\ DirtyAccessed(port, w) = (IF is_modified_line(lines[w]) THEN dirty - 1 ELSE dirty)
                                    + (IF is_modified_line(l) THEN 1 ELSE 0)
      /\ Probe(port) \in {"MISS", "SECTOR_MISS", "HIT_RESERVED"}
      /\ Probe(port) = "MISS" => Matches(port) = {} /\ l = allocate_line(port)
      /\ Probe(port) # "MISS" => ~is_invalid_line(lines[w])
      /\ Probe(port) = "SECTOR_MISS" =>
            /\ l = WithSector(lines[w], s, ReservedSector(lines[w].sec[s].st = "MODIFIED"))
            /\ lines[w].sec[s].st = "INVALID"
      /\ Probe(port) = "HIT_RESERVED" => l = lines[w]
  BY <1>1, <1>2, <1>3, <1>4, AccessFacts
<1>6. /\ strayed' \subseteq {"replaced", "invalidated"} /\ (strayed' = {} => strayed = {})
      /\ strayed' = {} /\ Probe(port) = "MISS" => \A f \in Fetches : f.way # w
      /\ StraysKnown'
  BY <1>1, <1>2, <1>4, StrayFacts
<1>7. lines[w] \in LineStates /\ lines[w].block \in Blocks \cup {NoLine}
  BY <1>3, <1>5 DEF TypeOK, LineStates
<1>8. PICK c \in SectorStates :
          /\ LazilyModified(l, s, whole, covered, reserved) = WithSector(l, s, c)
          /\ c.st = "MODIFIED" /\ c.modifiedOnFill = (reserved \/ l.sec[s].modifiedOnFill)
  <2>1. reserved \in BOOLEAN
    OBVIOUS
  <2> HIDE DEF l, s, reserved
  <2>2. QED
    BY <1>4, <1>5, <2>1, LazilyModifiedFacts
<1> DEFINE k == WithSector(l, s, c)
<1>9. lines' = [lines EXCEPT ![w] = k]
  BY <1>2, <1>8
<1> HIDE DEF l, s
<1>10. /\ k \in LineStates /\ k.block = port.block /\ k.sec[s] = c
       /\ \A t \in Sectors : t # s => k.sec[t] = l.sec[t]
  BY <1>4, <1>5, WithSectorFacts
<1>11. is_modified_line(k)
  BY <1>4, <1>8, <1>10 DEF is_modified_line, HasSector
<1>12. WriteOf(port) \in WriteMsgs /\ WriteBack(lines[w].block) \in WriteMsgs
  BY <1>4, <1>7 DEF WriteOf, WriteBack, WriteMsgs
<1>13. /\ x \in Seq(FetchMsgs \cup WriteMsgs) /\ Len(x) <= 1
       /\ \A i \in 1..Len(x) : x[i].op # "fetch"
  <2> DEFINE m == WriteOf(port)
  <2>1. m \in FetchMsgs \cup WriteMsgs /\ m.op # "fetch"
    BY <1>12, MsgFacts
  <2>2. x = <<>> \/ x = <<m>>
    OBVIOUS
  <2> DEFINE S == FetchMsgs \cup WriteMsgs
  <2> HIDE DEF x, m, S
  <2>3. m \in S
    BY <2>1 DEF S
  <2>4. x \in Seq(S) /\ Len(x) <= 1
    <3>1. <<>> \in Seq(S) /\ Len(<<>>) <= 1 /\ <<m>> \in Seq(S) /\ Len(<<m>>) <= 1
      BY <2>3
    <3>2. QED
      BY <2>2, <3>1
  <2>5. ASSUME NEW i \in 1..Len(x) PROVE x[i].op # "fetch"
    <3>1. x[i] = m
      BY <2>2
    <3>2. QED
      BY <2>1, <3>1
  <2>6. QED
    BY <2>4, <2>5 DEF S
<1> DEFINE Y == y(w)
<1>14. Y \in Seq(WriteMsgs)
  <2> DEFINE m == WriteBack(lines[w].block)
  <2>1. m \in WriteMsgs
    BY <1>12
  <2>2. Y = <<>> \/ Y = <<m>>
    OBVIOUS
  <2> HIDE DEF Y, m
  <2>3. <<>> \in Seq(WriteMsgs) /\ <<m>> \in Seq(WriteMsgs)
    BY <2>1
  <2>4. QED
    BY <2>2, <2>3
<1>15. missQueue' = (missQueue \o x) \o Y
  BY <1>2
<1> HIDE DEF x, Y, k
<1>16. /\ missQueue' \in Seq(FetchMsgs \cup WriteMsgs) /\ FetchesUnique' /\ Fetches' = Fetches
  <2>1. /\ missQueue' \in Seq(FetchMsgs \cup WriteMsgs) /\ FetchesUnique'
        /\ \A f : f \in Fetches' <=> f \in Fetches \/ \E i \in 1..Len(x) : x[i] = f /\ f.op = "fetch"
    BY <1>1, <1>3, <1>13, <1>14, <1>15, EnqueueFacts
  <2>2. QED
    BY <1>13, <2>1
<1>17. DirtyExact' /\ dirty' \in Int
  <2>1. dirty' = DirtyModified(l, DirtyAccessed(port, w))
    BY <1>2 DEF l
  <2>2. /\ dirty' = (IF is_modified_line(lines[w]) THEN dirty - 1 ELSE dirty)
                     + (IF is_modified_line(k) THEN 1 ELSE 0)
        /\ dirty' \in Int
    BY <1>3, <1>5, <1>11, <2>1 DEF DirtyModified
  <2>3. QED
    BY <1>3, <1>5, <1>9, <1>10, <2>2, DirtyStep DEF IndInv
<1>18. TypeOK'
  <2>1. lines' \in [Ways -> LineStates]
    BY <1>3, <1>9, <1>10 DEF TypeOK
  <2>2. QED
    BY <1>1, <1>3, <1>6, <1>16, <1>17, <2>1 DEF TypeOK
<1>19. PolicyKept' /\ Sane'
  BY <1>1 DEF IndInv, PolicyKept, Sane, NoRequest
<1>20. FetchesPending' /\ ResponsesReady'
  BY <1>1, <1>3, <1>16 DEF FetchesPending, ResponsesReady, probe
<1>21. ASSUME strayed' = {} PROVE LinesAwait'
  <2>1. LinesAwait
    BY <1>6, <1>21 DEF IndInv
  <2>2. CASE Probe(port) = "MISS"
    <3>1. \A f \in Fetches : f.way # w
      BY <1>6, <1>21, <2>2
    <3>2. \A t \in Sectors : t # s => k.sec[t].st = "INVALID"
      <4>1. \A t \in Sectors : t # s => l.sec[t].st = "INVALID"
        BY <1>4, <1>5, <2>2, AllocatedFacts DEF s
      <4>2. QED
        BY <1>10, <4>1
    <3>3. <<port.block, s>> \in Addrs
      BY <1>4 DEF Addrs
    <3>4. Fetch(<<port.block, s>>, w) \notin Fetches
      BY <1>5, <3>1, <3>3, MsgFacts
    <3>5. k.sec[s].st # "RESERVED"
      BY <1>8, <1>10
    <3>6. QED
      BY <1>1, <1>3, <1>4, <1>5, <1>9, <1>10, <1>16, <2>1, <2>2, <3>1, <3>2, <3>4, <3>5, ReplaceStep DEF s
  <2>3. CASE Probe(port) # "MISS"
    <3>1. ~is_invalid_line(lines[w])
      BY <1>5, <2>3
    <3>2. lines[w].block \in Blocks
      BY <1>5, <2>1, <3>1 DEF LinesAwait
    <3> DEFINE F == Fetch(<<lines[w].block, s>>, w)
    <3>3. F.way = w /\ F.addr[2] = s
      <4>1. <<lines[w].block, s>> \in Addrs
        BY <1>4, <3>2 DEF Addrs
      <4>2. QED
        BY <1>5, <4>1, MsgFacts
    <3> HIDE DEF F
    <3>4. F \in Fetches => Awaits(lines[w].sec[s])
      BY <2>1, <3>3 DEF LinesAwait
    <3>5. k = WithSector(lines[w], s, c)
      <4>1. CASE Probe(port) = "SECTOR_MISS"
        <5> DEFINE m == lines[w].sec[s].st = "MODIFIED"
                   d == ReservedSector(m)
        <5>1. d \in SectorStates
          <6>1. m \in BOOLEAN
            OBVIOUS
          <6> HIDE DEF m
          <6>2. QED
            BY <6>1, ReservedFacts
        <5>2. l = WithSector(lines[w], s, d)
          BY <1>5, <4>1
        <5> HIDE DEF d
        <5>3. QED
          BY <1>4, <1>7, <5>1, <5>2, WithSectorTwice DEF k
      <4>2. CASE Probe(port) = "HIT_RESERVED"
        BY <1>5, <4>2 DEF k
      <4>3. QED
        BY <1>5, <2>3, <4>1, <4>2
    <3>6. F \in Fetches => Awaits(c)
      <4>1. CASE Probe(port) = "SECTOR_MISS"
        BY <1>5, <3>4, <4>1 DEF Awaits
      <4>2. CASE Probe(port) = "HIT_RESERVED"
        BY <1>1, <1>8, <4>2 DEF Awaits
      <4>3. QED
        BY <1>5, <2>3, <4>1, <4>2
    <3>7. c.st # "RESERVED"
      BY <1>8
    <3>8. lines' = [lines EXCEPT ![w] = WithSector(lines[w], s, c)]
      BY <1>9, <3>5
    <3>9. QED
      BY <1>1, <1>3, <1>4, <1>5, <1>16, <2>1, <3>1, <3>6, <3>7, <3>8, SectorStep DEF F
  <2>4. QED
    BY <2>2, <2>3
<1>22. QED
  BY <1>6, <1>16, <1>17, <1>18, <1>19, <1>20, <1>21 DEF IndInv

\* Every step preserves the invariant.
LEMMA NextInd ==
    ASSUME IndInv, [Next]_vars
    PROVE  IndInv'
<1>1. CASE \E q \in Requests : Request(q)
  BY <1>1, RequestInd
<1>2. CASE Access
  BY <1>2, ReadHitInd, ReadForwardInd, ReadMissInd, WriteHitInd, WriteHitEvictInd,
     WriteMissNoAllocateInd, WriteMissLazyInd DEF Access
<1>3. CASE AdvanceMissQueue
  BY <1>3, AdvanceInd
<1>4. CASE \E i \in DOMAIN memory : Fill(i)
  BY <1>4, FillInd
<1>5. CASE NextAccess
  BY <1>5, NextAccessInd
<1>6. CASE Invalidate
  BY <1>6, InvalidateInd
<1>7. CASE UNCHANGED vars
  <2>1. UNCHANGED <<policy, lines, dirty, mshr, response, missQueue, memory, port, issued, strayed>>
    BY <1>7 DEF vars
  <2>2. TypeOK' /\ Sane' /\ PolicyKept' /\ DirtyExact' /\ StraysKnown'
    BY <2>1 DEF IndInv, TypeOK, Sane, PolicyKept, DirtyExact, is_modified_line, HasSector, StraysKnown
  <2>3. Fetches' = Fetches /\ FetchesUnique'
    BY <2>1, SameFetches DEF IndInv
  <2>4. FetchesPending' /\ ResponsesReady'
    BY <2>1, <2>3 DEF IndInv, FetchesPending, ResponsesReady, probe
  <2>5. strayed' = {} => LinesAwait'
    BY <2>1, <2>3, LinesQuiet DEF IndInv
  <2>6. QED
    BY <2>2, <2>3, <2>4, <2>5 DEF IndInv
<1>8. QED
  BY <1>1, <1>2, <1>3, <1>4, <1>5, <1>6, <1>7 DEF Next

\* The configuration of a cache does not change.
LEMMA PolicyFixed ==
    ASSUME [Next]_vars
    PROVE  policy' = policy
<1>1. ASSUME Access PROVE policy' = policy
  BY <1>1 DEF Access, ReadHit, ReadForward, ReadMiss, WriteHit, WriteHitEvict, WriteMissNoAllocate,
              WriteMissLazy, Taken
<1>2. QED
  BY <1>1 DEF Next, vars, Request, AdvanceMissQueue, Fill, NextAccess, Invalidate

\* A cache that gives sectors up on write hits and does not allocate on writes, and every other
\* cache, keeps the inductive invariant: m_dirty, tags, MSHR table, miss queue and memory agree.
THEOREM Invariance == Spec => [](Sane => IndInv)
<1>1. Init => (Sane => IndInv)
  BY InitInd
<1>2. (Sane => IndInv) /\ [Next]_vars => (Sane => IndInv)'
  <2> SUFFICES ASSUME Sane => IndInv, [Next]_vars, Sane' PROVE IndInv'
    OBVIOUS
  <2>1. Sane
    BY PolicyFixed DEF Sane
  <2>2. QED
    BY <2>1, NextInd
<1>3. QED
  BY <1>1, <1>2, PTL DEF Spec

-----------------------------------------------------------------------------
(* What the invariant means for the misses. *)

\* The indices at which a property holds once are one.
LEMMA CountOne ==
    ASSUME NEW D, NEW S \in SUBSET D, NEW p, \A i, j \in S : i = j, p \in BOOLEAN, p <=> S # {}
    PROVE  Cardinality(S) = IF p THEN 1 ELSE 0
<1>1. CASE p
  <2>1. PICK i \in S : TRUE
    BY <1>1
  <2>2. S = {i}
    BY <2>1
  <2>3. QED
    BY <1>1, <2>2, FS_Singleton
<1>2. CASE ~p
  <2>1. S = {}
    BY <1>2
  <2>2. QED
    BY <1>2, <2>1, FS_EmptySet
<1>3. QED
  BY <1>1, <1>2

\* The entries of the MSHR table, the fetches and the responses match one to one.
LEMMA EntriesMatch ==
    ASSUME IndInv
    PROVE  OneFetchPerEntry
<1> SUFFICES ASSUME NEW a \in Addrs
             PROVE  /\ FetchesOf(a) = IF probe(a) THEN 1 ELSE 0
                    /\ Cardinality({i \in DOMAIN response : response[i] = a})
                          = IF mshr[a].ready THEN 1 ELSE 0
                    /\ mshr[a].ready => mshr[a].n > 0
  BY DEF OneFetchPerEntry
<1>1. TypeOK /\ FetchesUnique /\ FetchesPending /\ ResponsesReady
  BY DEF IndInv
<1>2. /\ DOMAIN missQueue = 1..Len(missQueue) /\ DOMAIN memory = 1..Len(memory)
      /\ mshr[a].ready \in BOOLEAN
  BY <1>1 DEF TypeOK
<1> DEFINE A == {i \in DOMAIN missQueue : missQueue[i].op = "fetch" /\ missQueue[i].addr = a}
           B == {i \in DOMAIN memory : memory[i].addr = a}
           C == {i \in DOMAIN response : response[i] = a}
<1>3. /\ \A i, j \in A : i = j
      /\ \A i, j \in B : i = j
      /\ A = {} \/ B = {}
  BY <1>1 DEF FetchesUnique
<1>4. probe(a) <=> A # {} \/ B # {}
  BY <1>1, <1>2, FetchesAre DEF FetchesPending
<1>5. Cardinality(A) = (IF A # {} THEN 1 ELSE 0) /\ Cardinality(B) = (IF B # {} THEN 1 ELSE 0)
  <2>1. A \in SUBSET DOMAIN missQueue /\ B \in SUBSET DOMAIN memory
    OBVIOUS
  <2> HIDE DEF A, B
  <2>2. QED
    BY <1>3, <2>1, CountOne
<1>6. FetchesOf(a) = IF probe(a) THEN 1 ELSE 0
  <2>1. FetchesOf(a) = Cardinality(A) + Cardinality(B)
    BY DEF FetchesOf
  <2> HIDE DEF A, B
  <2>2. QED
    BY <1>3, <1>4, <1>5, <2>1
<1>7. Cardinality(C) = IF mshr[a].ready THEN 1 ELSE 0
  <2>1. C \in SUBSET DOMAIN response /\ \A i, j \in C : i = j
    BY <1>1 DEF ResponsesReady
  <2>2. mshr[a].ready <=> C # {}
    BY <1>1 DEF ResponsesReady
  <2> HIDE DEF C
  <2>3. QED
    BY <1>2, <2>1, <2>2, CountOne
<1>8. mshr[a].ready => mshr[a].n > 0
  BY <1>1 DEF ResponsesReady
<1>9. QED
  BY <1>6, <1>7, <1>8

\* The invariant implies MissesTracked.
LEMMA IndInvTracks ==
    ASSUME IndInv
    PROVE  MissesTracked
<1>1. TypeOK /\ DirtyExact /\ StraysKnown
  BY DEF IndInv
<1>2. ASSUME strayed = {} PROVE ReservedIsAwaited
  <2>1. LinesAwait
    BY <1>2 DEF IndInv
  <2>2. Fetches \subseteq Outstanding /\ \A f \in Outstanding : f.op = "fetch" => f \in Fetches
    BY DEF Fetches
  <2>3. ASSUME NEW w \in Ways, NEW s \in Sectors, lines[w].sec[s].st = "RESERVED"
        PROVE  \E f \in Outstanding : f = Fetch(<<lines[w].block, s>>, w)
    BY <2>1, <2>2, <2>3 DEF LinesAwait
  <2>4. ASSUME NEW f \in Outstanding, f.op = "fetch" PROVE lines[f.way].block = f.addr[1]
    BY <2>1, <2>2, <2>4 DEF LinesAwait
  <2>5. QED
    BY <2>3, <2>4 DEF ReservedIsAwaited
<1>3. ASSUME "replaced" \in strayed PROVE policy.alloc = "lazy" \/ "invalidated" \in strayed
  <2>1. policy.alloc \in {"lazy", "none"}
    BY <1>1, CacheAssumption DEF TypeOK
  <2>2. QED
    BY <1>1, <1>3, <2>1 DEF StraysKnown
<1>4. QED
  BY <1>1, <1>2, <1>3, EntriesMatch DEF MissesTracked

\* MissesTracked holds of every cache whose policies allocate on no write when they give
\* sectors up on write hits.
THEOREM MissesAreTracked ==
    ASSUME \A p \in Policies : p.hit = "we" => p.alloc = "none"
    PROVE  Spec => []MissesTracked
<1>1. Init => Sane /\ policy \in Policies
  BY DEF Init, Sane
<1>2. policy \in Policies /\ [Next]_vars => (policy \in Policies)'
  BY PolicyFixed
<1>3. policy \in Policies => Sane
  BY DEF Sane
<1>4. IndInv => MissesTracked
  BY IndInvTracks
<1>5. QED
  BY <1>1, <1>2, <1>3, <1>4, Invariance, PTL DEF Spec

-----------------------------------------------------------------------------
(* A write-back cache loses no write. *)

\* Replacing one sector keeps what the lines hold when the new sector holds what the old
\* one held.
LEMMA SectorKeeps ==
    ASSUME TypeOK, NEW v \in Ways, NEW t \in Sectors, NEW c \in SectorStates,
           lines' = [lines EXCEPT ![v] = WithSector(lines[v], t, c)],
           Holds(lines[v].sec[t]) => Holds(c),
           NEW w \in Ways, NEW s \in Sectors, Holds(lines[w].sec[s])
    PROVE  lines'[w].block = lines[w].block /\ Holds(lines'[w].sec[s])
<1>1. lines[v] \in LineStates
  BY DEF TypeOK
<1> DEFINE l == WithSector(lines[v], t, c)
<1>2. l.block = lines[v].block /\ l.sec[t] = c /\ \A u \in Sectors : u # t => l.sec[u] = lines[v].sec[u]
  BY <1>1, WithSectorFacts
<1>3. lines'[w] = IF w = v THEN l ELSE lines[w]
  BY DEF TypeOK
<1> HIDE DEF l
<1>4. CASE w = v /\ s = t
  BY <1>2, <1>3, <1>4
<1>5. CASE ~(w = v /\ s = t)
  BY <1>2, <1>3, <1>5
<1>6. QED
  BY <1>4, <1>5

\* The last element after one is added.
LEMMA LastOfConcat ==
    ASSUME NEW S, NEW p \in Seq(S), NEW m \in S
    PROVE  Len(p \o <<m>>) = Len(p) + 1 /\ (p \o <<m>>)[Len(p) + 1] = m
<1>1. p \o <<m>> = Append(p, m)
  OBVIOUS
<1>2. Len(Append(p, m)) = Len(p) + 1 /\ Append(p, m)[Len(p) + 1] = m
  OBVIOUS
<1>3. QED
  BY <1>1, <1>2

\* A write-back sent last is the last message of the miss queue.
LEMMA SentLast ==
    ASSUME TypeOK, NEW x \in Seq(FetchMsgs \cup WriteMsgs), NEW m \in WriteMsgs,
           missQueue' = (missQueue \o x) \o <<m>>
    PROVE  Len(missQueue') > Len(missQueue) /\ missQueue'[Len(missQueue')] = m
<1> DEFINE S == FetchMsgs \cup WriteMsgs
<1>1. missQueue \in Seq(S) /\ x \in Seq(S) /\ m \in S
  BY DEF TypeOK
<1> HIDE DEF S
<1> DEFINE p == missQueue \o x
<1>2. p \in Seq(S) /\ Len(p) = Len(missQueue) + Len(x) /\ Len(x) \in Nat /\ Len(missQueue) \in Nat
  BY <1>1
<1> HIDE DEF p
<1>3. Len(p \o <<m>>) = Len(p) + 1 /\ (p \o <<m>>)[Len(p) + 1] = m
  BY <1>1, <1>2, LastOfConcat
<1>4. missQueue' = p \o <<m>>
  BY DEF p
<1>5. QED
  BY <1>2, <1>3, <1>4

\* A modified line that a write-back cache replaces is written back.
LEMMA EvictedIsWritten ==
    ASSUME TypeOK, policy.hit = "wb", NEW q \in Requests, Probe(q) = "MISS", NEW w \in Indices(q),
           NEW s \in Sectors, Holds(lines[w].sec[s])
    PROVE  Evicts(q, w) /\ policy.hit # "wt" /\ WriteBack(lines[w].block) \in WriteMsgs
<1>1. ~is_reserved_line(lines[w]) /\ w \in Ways
  BY AccessFacts
<1>2. lines[w].sec[s].st = "MODIFIED"
  BY <1>1 DEF Holds, is_reserved_line, HasSector
<1>3. lines[w].block \in Blocks \cup {NoLine}
  BY <1>1 DEF TypeOK, LineStates
<1>4. QED
  BY <1>2, <1>3 DEF Evicts, is_modified_line, HasSector, WriteBack, WriteMsgs

\* Every step keeps the writes of a write-back cache whose fetches are with their lines.
LEMMA WritesKept ==
    ASSUME IndInv, Next, policy.hit = "wb", strayed' = {},
           NEW w \in Ways, NEW s \in Sectors, Holds(lines[w].sec[s])
    PROVE  \/ lines'[w].block = lines[w].block /\ Holds(lines'[w].sec[s])
           \/ Len(missQueue') > Len(missQueue) /\ missQueue'[Len(missQueue')] = WriteBack(lines[w].block)
<1>1. TypeOK
  BY DEF IndInv
<1>2. ASSUME lines' = lines PROVE lines'[w].block = lines[w].block /\ Holds(lines'[w].sec[s])
  BY <1>2
<1>3. CASE \E q \in Requests : Request(q)
  BY <1>2, <1>3 DEF Request
<1>4. ASSUME Probe(port) = "HIT", NEW r \in BOOLEAN, port \in Requests,
             lines' = [lines EXCEPT ![Min(Matches(port))] =
                          Modified(lines[Min(Matches(port))], port.sector, r)]
      PROVE  lines'[w].block = lines[w].block /\ Holds(lines'[w].sec[s])
  <2> DEFINE v == Min(Matches(port))
             t == port.sector
             c == Sector("MODIFIED", lines[v].sec[t].modifiedOnFill, r, lines[v].sec[t].readableOnFill)
  <2>1. v \in Ways /\ t \in Sectors
    BY <1>1, <1>4, ProbeFacts, CacheAssumption
  <2>2. lines[v] \in LineStates
    BY <1>1, <2>1 DEF TypeOK
  <2>3. Modified(lines[v], t, r) = WithSector(lines[v], t, c) /\ c \in SectorStates /\ c.st = "MODIFIED"
    BY <1>4, <2>1, <2>2, ModifiedFacts
  <2>4. lines' = [lines EXCEPT ![v] = WithSector(lines[v], t, c)]
    BY <1>4, <2>3
  <2> HIDE DEF v, t, c
  <2>5. Holds(c)
    BY <2>3 DEF Holds
  <2>6. QED
    BY <1>1, <2>1, <2>3, <2>4, <2>5, SectorKeeps
<1>5. CASE ReadHit
  <2>1. port.op \in {"read", "atomic"} /\ Probe(port) = "HIT"
    BY <1>5 DEF ReadHit
  <2>2. port \in Requests
    BY <1>1, <2>1, PortFacts
  <2>3. CASE port.op # "atomic"
    BY <1>2, <1>5, <2>3 DEF ReadHit
  <2>4. CASE port.op = "atomic"
    <3> DEFINE v == Min(Matches(port))
               r == lines[v].sec[port.sector].readable
    <3>1. lines' = [lines EXCEPT ![v] = Modified(lines[v], port.sector, r)]
      BY <1>5, <2>4 DEF ReadHit
    <3>2. r \in BOOLEAN
      <4>1. lines[v].sec[port.sector] \in SectorStates
        BY <1>1, <2>1, <2>2, ProbeFacts
      <4>2. QED
        BY <4>1 DEF SectorStates
    <3>3. QED
      BY <1>4, <2>1, <2>2, <3>1, <3>2
  <2>5. QED
    BY <2>3, <2>4
<1>6. CASE ReadForward
  BY <1>2, <1>6 DEF ReadForward
<1>7. CASE ReadMiss
  <2> DEFINE a == <<port.block, port.sector>>
             t == port.sector
             x(v) == IF probe(a) THEN <<>> ELSE <<Fetch(a, v)>>
             y(v) == IF Evicts(port, v) /\ policy.hit # "wt" THEN <<WriteBack(lines[v].block)>> ELSE <<>>
  <2>1. port.op \in {"read", "atomic"} /\ Probe(port) \notin {"HIT", "RESERVATION_FAIL"}
    BY <1>7 DEF ReadMiss, ReadMisses
  <2>2. PICK v \in Indices(port) : /\ lines' = [lines EXCEPT ![v] = Accessed(port, v)]
                                   /\ missQueue' = (missQueue \o x(v)) \o y(v)
    BY <1>7 DEF ReadMiss
  <2>3. port \in Requests /\ a \in Addrs /\ t \in Sectors
    BY <1>1, <2>1, PortFacts
  <2>4. /\ v \in Ways
        /\ Probe(port) \in {"MISS", "SECTOR_MISS", "HIT_RESERVED"}
        /\ Probe(port) # "MISS" => v = Min(Matches(port))
        /\ Probe(port) = "SECTOR_MISS" =>
              Accessed(port, v) = WithSector(lines[v], t, ReservedSector(lines[v].sec[t].st = "MODIFIED"))
        /\ Probe(port) = "HIT_RESERVED" => Accessed(port, v) = lines[v]
    BY <1>1, <2>1, <2>2, <2>3, AccessFacts
  <2>5. CASE Probe(port) = "MISS"
    <3>1. CASE w # v
      <4>1. lines'[w] = lines[w]
        BY <1>1, <2>2, <2>4, <3>1 DEF TypeOK
      <4>2. QED
        BY <4>1
    <3>2. CASE w = v
      <4>1. Evicts(port, v) /\ policy.hit # "wt" /\ WriteBack(lines[v].block) \in WriteMsgs
        BY <1>1, <2>2, <2>3, <2>5, <3>2, EvictedIsWritten
      <4>2. y(v) = <<WriteBack(lines[v].block)>>
        BY <4>1
      <4> DEFINE X == x(v)
      <4>3. X \in Seq(FetchMsgs \cup WriteMsgs)
        <5> DEFINE F == Fetch(a, v)
        <5>1. F \in FetchMsgs \cup WriteMsgs
          BY <2>3, <2>4, MsgFacts
        <5>2. X = <<>> \/ X = <<F>>
          OBVIOUS
        <5> HIDE DEF F, X
        <5>3. <<>> \in Seq(FetchMsgs \cup WriteMsgs) /\ <<F>> \in Seq(FetchMsgs \cup WriteMsgs)
          BY <5>1
        <5>4. QED
          BY <5>2, <5>3
      <4>4. missQueue' = (missQueue \o X) \o <<WriteBack(lines[v].block)>>
        BY <2>2, <4>2
      <4> HIDE DEF X
      <4>5. QED
        BY <1>1, <3>2, <4>1, <4>3, <4>4, SentLast
    <3>3. QED
      BY <3>1, <3>2
  <2>6. CASE Probe(port) = "SECTOR_MISS"
    <3> DEFINE m == lines[v].sec[t].st = "MODIFIED"
               c == ReservedSector(m)
    <3>1. c \in SectorStates /\ c.st = "RESERVED" /\ c.modifiedOnFill = m
      <4>1. m \in BOOLEAN
        OBVIOUS
      <4> HIDE DEF m
      <4>2. QED
        BY <4>1, ReservedFacts
    <3>2. lines[v].sec[t].st \in {"INVALID", "MODIFIED"}
      BY <1>1, <2>3, <2>4, <2>6, ProbeFacts
    <3>3. Holds(lines[v].sec[t]) => Holds(c)
      BY <3>1, <3>2 DEF Holds
    <3>4. lines' = [lines EXCEPT ![v] = WithSector(lines[v], t, c)]
      BY <2>2, <2>4, <2>6
    <3> HIDE DEF c, t
    <3>5. QED
      BY <1>1, <2>3, <2>4, <3>1, <3>3, <3>4, SectorKeeps
  <2>7. CASE Probe(port) = "HIT_RESERVED"
    <3>1. lines' = lines
      BY <1>1, <2>2, <2>4, <2>7 DEF TypeOK
    <3>2. QED
      BY <1>2, <3>1
  <2>8. QED
    BY <2>4, <2>5, <2>6, <2>7
<1>8. CASE WriteHit
  <2>1. port.op = "write" /\ Probe(port) = "HIT"
    BY <1>8 DEF WriteHit
  <2>2. port \in Requests
    BY <1>1, <2>1, PortFacts
  <2> DEFINE v == Min(Matches(port))
  <2>3. PICK r \in {lines[v].sec[port.sector].readable, TRUE} :
            lines' = [lines EXCEPT ![v] = Modified(lines[v], port.sector, r)]
    BY <1>8 DEF WriteHit
  <2>4. r \in BOOLEAN
    <3>1. lines[v].sec[port.sector] \in SectorStates
      BY <1>1, <2>1, <2>2, ProbeFacts
    <3>2. QED
      BY <2>3, <3>1 DEF SectorStates
  <2>5. QED
    BY <1>4, <2>1, <2>2, <2>3, <2>4
<1>9. CASE WriteHitEvict
  BY <1>9 DEF WriteHitEvict
<1>10. CASE WriteMissNoAllocate
  BY <1>2, <1>10 DEF WriteMissNoAllocate
<1>11. CASE WriteMissLazy
  <2> DEFINE t == port.sector
             reserved == Probe(port) = "HIT_RESERVED"
             x == IF policy.hit = "wt" THEN <<WriteOf(port)>> ELSE <<>>
             y(v) == IF Evicts(port, v) /\ policy.hit # "wt" THEN <<WriteBack(lines[v].block)>> ELSE <<>>
  <2>1. port.op = "write" /\ Probe(port) \notin {"HIT", "RESERVATION_FAIL"}
    BY <1>11 DEF WriteMissLazy
  <2>2. PICK v \in Indices(port), whole \in BOOLEAN, covered \in BOOLEAN :
            /\ lines' = [lines EXCEPT ![v] = LazilyModified(Accessed(port, v), t, whole, covered, reserved)]
            /\ missQueue' = (missQueue \o x) \o y(v)
    BY <1>11 DEF WriteMissLazy
  <2>3. port \in Requests /\ t \in Sectors
    BY <1>1, <2>1, PortFacts
  <2> DEFINE l == Accessed(port, v)
  <2>4. /\ v \in Ways /\ l \in LineStates
        /\ Probe(port) \in {"MISS", "SECTOR_MISS", "HIT_RESERVED"}
        /\ Probe(port) = "SECTOR_MISS" =>
              l = WithSector(lines[v], t, ReservedSector(lines[v].sec[t].st = "MODIFIED"))
        /\ Probe(port) = "HIT_RESERVED" => l = lines[v]
    BY <1>1, <2>1, <2>2, <2>3, AccessFacts
  <2>5. lines[v] \in LineStates
    BY <1>1, <2>4 DEF TypeOK
  <2>6. PICK c \in SectorStates : /\ LazilyModified(l, t, whole, covered, reserved) = WithSector(l, t, c)
                                  /\ c.st = "MODIFIED"
    <3>1. reserved \in BOOLEAN
      OBVIOUS
    <3> HIDE DEF l, t, reserved
    <3>2. QED
      BY <2>3, <2>4, <3>1, LazilyModifiedFacts
  <2>7. CASE Probe(port) = "MISS"
    <3>1. CASE w # v
      <4>1. lines'[w] = lines[w]
        BY <1>1, <2>2, <2>4, <3>1 DEF TypeOK
      <4>2. QED
        BY <4>1
    <3>2. CASE w = v
      <4>1. Evicts(port, v) /\ policy.hit # "wt" /\ WriteBack(lines[v].block) \in WriteMsgs
        BY <1>1, <2>2, <2>3, <2>7, <3>2, EvictedIsWritten
      <4>2. y(v) = <<WriteBack(lines[v].block)>> /\ x = <<>>
        BY <4>1
      <4>3. missQueue' = (missQueue \o <<>>) \o <<WriteBack(lines[v].block)>>
        BY <2>2, <4>2
      <4>4. <<>> \in Seq(FetchMsgs \cup WriteMsgs)
        OBVIOUS
      <4>5. QED
        BY <1>1, <3>2, <4>1, <4>3, <4>4, SentLast
    <3>3. QED
      BY <3>1, <3>2
  <2>8. CASE Probe(port) # "MISS"
    <3>1. WithSector(l, t, c) = WithSector(lines[v], t, c)
      <4>1. CASE Probe(port) = "SECTOR_MISS"
        <5> DEFINE m == lines[v].sec[t].st = "MODIFIED"
                   d == ReservedSector(m)
        <5>1. d \in SectorStates
          <6>1. m \in BOOLEAN
            OBVIOUS
          <6> HIDE DEF m
          <6>2. QED
            BY <6>1, ReservedFacts
        <5>2. l = WithSector(lines[v], t, d)
          BY <2>4, <4>1
        <5> HIDE DEF d, l, t
        <5>3. QED
          BY <2>3, <2>5, <5>1, <5>2, WithSectorTwice
      <4>2. CASE Probe(port) = "HIT_RESERVED"
        BY <2>4, <4>2
      <4>3. QED
        BY <2>4, <2>8, <4>1, <4>2
    <3>2. lines' = [lines EXCEPT ![v] = WithSector(lines[v], t, c)]
      BY <2>2, <2>6, <3>1
    <3>3. Holds(c)
      BY <2>6 DEF Holds
    <3> HIDE DEF t
    <3>4. QED
      BY <1>1, <2>3, <2>4, <3>2, <3>3, SectorKeeps
  <2>9. QED
    BY <2>7, <2>8
<1>12. CASE AdvanceMissQueue
  BY <1>2, <1>12 DEF AdvanceMissQueue
<1>13. ASSUME NEW i \in DOMAIN memory, Fill(i)
       PROVE  lines'[w].block = lines[w].block /\ Holds(lines'[w].sec[s])
  <2> DEFINE v == memory[i].way
             t == memory[i].addr[2]
  <2>1. memory[i] \in FetchMsgs /\ memory[i] \in Fetches
    <3>1. DOMAIN memory = 1..Len(memory) /\ memory[i] \in FetchMsgs
      BY <1>1 DEF TypeOK
    <3>2. QED
      BY <1>1, <3>1, FetchesAre
  <2>2. v \in Ways /\ t \in Sectors
    BY <2>1, MsgFacts
  <2>3. Awaits(lines[v].sec[t])
    <3>1. strayed = {}
      BY <1>13 DEF Fill
    <3>2. QED
      BY <2>1, <3>1 DEF IndInv, LinesAwait
  <2>4. PICK c \in SectorStates :
            /\ lines' = [lines EXCEPT ![v] = WithSector(lines[v], t, c)]
            /\ c.st = (IF lines[v].sec[t].modifiedOnFill \/ mshr[memory[i].addr].atomic
                       THEN "MODIFIED" ELSE "VALID")
    BY <1>1, <1>13, FillLines
  <2> HIDE DEF v, t
  <2>5. Holds(lines[v].sec[t]) => Holds(c)
    BY <2>3, <2>4 DEF Holds, Awaits
  <2>6. QED
    BY <1>1, <2>2, <2>4, <2>5, SectorKeeps
<1>14. CASE NextAccess
  BY <1>2, <1>14 DEF NextAccess
<1>15. CASE Invalidate
  BY <1>15 DEF Invalidate
<1>16. QED
  BY <1>3, <1>5, <1>6, <1>7, <1>8, <1>9, <1>10, <1>11, <1>12, <1>13, <1>14, <1>15 DEF Next, Access

\* A write-back cache loses no write: a sector with newer data than memory keeps them through
\* sector misses and fills until its line is written back.
THEOREM DirtyIsWrittenBack == Spec => DirtyWrittenBack
<1> DEFINE Kept == (policy.hit = "wb" /\ strayed' = {}) =>
               \A w \in Ways, s \in Sectors : Holds(lines[w].sec[s]) =>
                  \/ lines'[w].block = lines[w].block /\ Holds(lines'[w].sec[s])
                  \/ Len(missQueue') > Len(missQueue)
                     /\ missQueue'[Len(missQueue')] = WriteBack(lines[w].block)
<1>1. (Sane => IndInv) /\ [Next]_vars => [Kept]_vars
  <2> SUFFICES ASSUME Sane => IndInv, Next, policy.hit = "wb", strayed' = {} PROVE Kept
    OBVIOUS
  <2>1. IndInv
    BY DEF Sane
  <2>2. QED
    BY <2>1, WritesKept
<1> HIDE DEF Kept
<1>2. Spec => [][Kept]_vars
  BY <1>1, Invariance, PTL DEF Spec
<1>3. QED
  BY <1>2 DEF DirtyWrittenBack, Kept

=============================================================================
