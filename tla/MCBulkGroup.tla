---------------------------- MODULE MCBulkGroup ----------------------------
(* Small instances of BulkGroup. *)
EXTENDS BulkGroup, TLC

CONSTANTS w1, w2, c1, c2, t1, t2, t3

MCWarps == {w1, w2}
MCCtas == {c1, c2}
MCCtaOf == w1 :> c1 @@ w2 :> c2
MCTx == {t1, t2, t3}

\* One warp of one CTA.
MCOneWarp == {w1}
MCOneCta == {c1}
MCOneCtaOf == w1 :> c1

=============================================================================
