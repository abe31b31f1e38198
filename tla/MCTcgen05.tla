----------------------------- MODULE MCTcgen05 -----------------------------
(* Small instances of Tcgen05. *)
EXTENDS Tcgen05

CONSTANTS c1, c2, w1, w2

OwnSlot == [w \in {w1, w2} |-> IF w = w1 THEN c1 ELSE c2]
Latencies == [k \in Kinds \ {"mma"} |-> IF k = "ld" THEN 3 ELSE 1]
Intervals == [k \in Kinds \ {"mma"} |-> IF k = "cp" THEN 2 ELSE 1]

Issues(ks1, ks2) == [w \in {w1, w2} |-> IF w = w1 THEN ks1 ELSE ks2]

\* MMAs overtaken by copies, in a slot that is used twice.
Thread == [kinds |-> Issues({"mma", "cp"}, {}), columns |-> 1, frees |-> FALSE, ops |-> 3, gens |-> 2]
\* Loads and stores beside an MMA.
Memory == [kinds |-> Issues({"mma", "ld", "st"}, {}), columns |-> 1, frees |-> FALSE, ops |-> 1, gens |-> 2]
\* Two CTAs share the backend and the queue.
Shared == [kinds |-> Issues({"mma"}, {"mma"}), columns |-> 1, frees |-> FALSE, ops |-> 1, gens |-> 1]
\* Allocations.
Allocate == [kinds |-> Issues({"st"}, {}), columns |-> 4, frees |-> TRUE, ops |-> 1, gens |-> 2]

AllSetups == {Thread, Memory, Shared, Allocate}
=============================================================================
