----------------------------- MODULE MCCpAsync -----------------------------
(* Small instances of CpAsync. *)
EXTENDS CpAsync

CONSTANTS c1, l1, l2

\* One warp, requests answered in two parts, and a second CTA in the slot.
OneWarp == [idealized |-> FALSE, parts |-> 2, warps |-> 1, txs |-> 3, groups |-> 3, marks |-> 2,
            ctas |-> 2]
\* Two warps that share the queue and the limit on requests.
TwoWarps == [idealized |-> FALSE, parts |-> 1, warps |-> 2, txs |-> 3, groups |-> 2, marks |-> 0,
             ctas |-> 1]
\* Memory that answers at once.
AtOnce == [OneWarp EXCEPT !.idealized = TRUE]

AllSetups == {OneWarp, TwoWarps, AtOnce}
=============================================================================
