--------------------------- MODULE BulkGroupSpec ---------------------------
(***************************************************************************)
(* What the bulk-group ledger promises a warp, with no completed-group     *)
(* counter: committed groups are sets of outstanding stores, and a wait    *)
(* lasts exactly until the oldest groups it names are all empty.           *)
(***************************************************************************)
EXTENDS Integers

CONSTANTS Warps, Tx, MaxGroup

VARIABLES
    open,         \* stores issued and not yet committed to a group
    committed,    \* number of groups the warp has committed
    outstanding,  \* the unfinished stores of each group
    waitFor       \* the warp waits for groups 1..waitFor; 0: not waiting

specVars == <<open, committed, outstanding, waitFor>>

Groups == 1..MaxGroup

Done(out, n) == \A g \in Groups : g <= n => out[g] = {}

Init ==
    /\ open = [w \in Warps |-> {}]
    /\ committed = [w \in Warps |-> 0]
    /\ outstanding = [w \in Warps |-> [g \in Groups |-> {}]]
    /\ waitFor = [w \in Warps |-> 0]

Add(w, t) ==
    /\ waitFor[w] = 0
    /\ open' = [open EXCEPT ![w] = @ \cup {t}]
    /\ UNCHANGED <<committed, outstanding, waitFor>>

Commit(w) ==
    /\ waitFor[w] = 0
    /\ committed[w] < MaxGroup
    /\ committed' = [committed EXCEPT ![w] = @ + 1]
    /\ outstanding' = [outstanding EXCEPT ![w][committed[w] + 1] = open[w]]
    /\ open' = [open EXCEPT ![w] = {}]
    /\ UNCHANGED waitFor

\* Allow the n newest groups to stay incomplete; wait for all older ones.
Wait(w, n) ==
    /\ waitFor[w] = 0
    /\ n < committed[w]
    /\ ~Done(outstanding[w], committed[w] - n)
    /\ waitFor' = [waitFor EXCEPT ![w] = committed[w] - n]
    /\ UNCHANGED <<open, committed, outstanding>>

Finish(w, t) ==
    /\ open' = [open EXCEPT ![w] = @ \ {t}]
    /\ outstanding' = [outstanding EXCEPT ![w] = [g \in Groups |-> @[g] \ {t}]]
    /\ waitFor' = [waitFor EXCEPT ![w] =
                      IF Done(outstanding'[w], @) THEN 0 ELSE @]
    /\ UNCHANGED committed

\* The warps in ws end; they have nothing outstanding and start afresh.
Restart(ws) ==
    /\ \A w \in ws : /\ waitFor[w] = 0 /\ open[w] = {}
                     /\ Done(outstanding[w], MaxGroup)
    /\ open' = open
    /\ committed' = [w \in Warps |-> IF w \in ws THEN 0 ELSE committed[w]]
    /\ UNCHANGED <<outstanding, waitFor>>

Next ==
    \/ \E w \in Warps, t \in Tx : Add(w, t) \/ Finish(w, t)
    \/ \E w \in Warps : Commit(w) \/ \E n \in 0..MaxGroup : Wait(w, n)
    \/ \E ws \in SUBSET Warps : Restart(ws)

Spec == Init /\ [][Next]_specVars

=============================================================================
