----------------------------- MODULE MCCtaSync -----------------------------
(* Small instances of CtaSync. *)
EXTENDS CtaSync

CONSTANTS c1, c2, b1, b2

I(op) == [op |-> op]
B(op, bar, n) == [op |-> op, bar |-> bar, count |-> n]
All(bar) == B("sync", bar, WholeCta)

\* Producer and consumer take turns on two counted barriers; the third warp
\* uses none and exits at any time.
Pipeline ==
    [clustered |-> FALSE, releaseLatency |-> TRUE, arriveLatency |-> TRUE,
     groups |-> << << << <<I("store"), B("arrive", b1, 2), B("sync", b2, 2), I("store"),
                           B("arrive", b1, 2)>>,
                         <<B("sync", b1, 2), B("arrive", b2, 2), B("sync", b1, 2)>>,
                         <<I("store")>> >> >> >>]
PipelineAtOnce == [Pipeline EXCEPT !.arriveLatency = FALSE]

\* Barriers of the whole CTA, from which one warp exits; a second CTA takes its place.
Whole ==
    [clustered |-> FALSE, releaseLatency |-> TRUE, arriveLatency |-> FALSE,
     groups |-> << << << <<I("store"), All(b1), All(b1)>>, <<All(b1), I("store"), All(b1)>>,
                         <<All(b1)>> >> >>,
                   << << <<I("carrive"), I("cwait")>>, <<I("carrive"), I("carrive")>>,
                         <<I("carrive"), All(b1)>> >> >>,
                   << << <<All(b1)>>, <<I("store"), All(b1)>>, <<>> >> >> >>]
WholeAtOnce == [Whole EXCEPT !.releaseLatency = FALSE]

\* Clusters of two CTAs: two phases of the cluster barrier with remote stores and loads,
\* warps that leave early, and a second cluster in the same slots.
Clustered ==
    [clustered |-> TRUE, releaseLatency |-> FALSE, arriveLatency |-> TRUE,
     groups |-> << << << <<I("rstore"), I("carrive"), I("cwait"), I("carrive"), I("cwait")>>,
                         <<I("carrive"), I("cwait")>>, <<>> >>,
                      << <<I("carrive"), I("rload"), I("cwait"), I("carrive"), I("cwait")>>,
                         <<I("carrive")>>, <<>> >> >>,
                   << << <<I("store"), I("carrive"), I("cwait")>>, <<>>, <<>> >>,
                      << <<I("carrive"), I("cwait")>>, <<>>, <<>> >> >> >>]

AllKernels == {Pipeline, PipelineAtOnce, Whole, WholeAtOnce, Clustered}

\* The kernels meet what the theorems about the named barriers assume of them.
ASSUME KernelsUseBarriersWell ==
    KernelsWellFormed /\ \A k \in {Whole, WholeAtOnce, Clustered} : LastArrives(k)
=============================================================================
