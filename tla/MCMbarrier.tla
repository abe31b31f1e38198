---------------------------- MODULE MCMbarrier ----------------------------
(* Small instances of Mbarrier. *)
EXTENDS Mbarrier, TLC

CONSTANTS s1, s2, w1, w2, b1, b2

\* One SM with two barriers.
OneSm == {s1}
TwoBars == {b1, b2}
HomeOne == w1 :> s1 @@ w2 :> s1 @@ b1 :> s1 @@ b2 :> s1

\* Two SMs; the barrier is on the first one.
TwoSms == {s1, s2}
OneBar == {b1}
HomeTwo == w1 :> s1 @@ w2 :> s2 @@ b1 :> s1

TwoWarps == {w1, w2}
FirstWarp == {w1}
SecondWarp == {w2}

\* Two SMs with a barrier each; the second warp waits on both.
HomeBoth == w1 :> s1 @@ w2 :> s2 @@ b1 :> s1 @@ b2 :> s2

=============================================================================
