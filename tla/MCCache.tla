------------------------------ MODULE MCCache ------------------------------
(* One set of two ways that three blocks compete for. *)
EXTENDS Cache, TLC

CONSTANTS blk_a, blk_b, blk_c

ThreeBlocks == {blk_a, blk_b, blk_c}
OneSet == [x \in ThreeBlocks |-> Ways]

\* The L2 slices of the shipped configurations, their L1 data caches with the
\* share of modified lines at its limit, and the older L1 without allocation.
Shipped == {[hit |-> "wb", alloc |-> "lazy", wrPercent |-> 0],
            [hit |-> "wt", alloc |-> "lazy", wrPercent |-> 100],
            [hit |-> "we", alloc |-> "none", wrPercent |-> 0]}

Mix == [op : {"read", "write", "atomic"}, block : {blk_a}, sector : {1}]
       \cup [op : {"read"}, block : {blk_a}, sector : {2}]
       \cup [op : {"read", "write"}, block : {blk_b}, sector : {1}]
       \cup [op : {"read"}, block : {blk_c}, sector : {1}]

=============================================================================
