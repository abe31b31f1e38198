-------------------------- MODULE MCStreamManager --------------------------
(* Small instances of StreamManager. *)
EXTENDS StreamManager

CONSTANTS h1, h2, s1, s2, d1, e1

\* One host thread, two streams, an event recorded on the first.
NoRecord == [e \in {e1} |-> {}]
WithEvents ==
    [hosts |-> {h1}, streams |-> {s1, s2}, owner |-> [x \in {s1, s2, e1} |-> h1],
     recordOn |-> [e \in {e1} |-> {s1}], launchBlocking |-> FALSE, functional |-> FALSE,
     children |-> FALSE, waitAll |-> TRUE, together |-> TRUE, destroys |-> {},
     enqueues |-> {"kernel"}, exits |-> FALSE, ops |-> 3]

\* Kernels that launch kernels, simulated for performance or functionally.
WithChildren == [WithEvents EXCEPT !.recordOn = NoRecord, !.children = TRUE, !.together = FALSE]
Functional == [WithChildren EXCEPT !.functional = TRUE, !.streams = {s1}, !.destroys = {h1},
                                   !.exits = TRUE, !.ops = 4]

\* Two host threads: both use the NULL stream, the first one a stream as well.
TwoThreads == [WithEvents EXCEPT !.hosts = {h1, h2}, !.streams = {s1}, !.recordOn = NoRecord,
                                 !.enqueues = {"copy", "kernel"}]
Blocking == [TwoThreads EXCEPT !.launchBlocking = TRUE, !.destroys = {h1}, !.ops = 2]
Destroying == [TwoThreads EXCEPT !.destroys = {h1}, !.ops = 2]

Sound == {WithEvents, WithChildren, Functional, TwoThreads, Blocking, Destroying}
=============================================================================
