---------------------------- MODULE MCDsmFabric ----------------------------
(* Small instances of DsmFabric: three SMs. *)
EXTENDS DsmFabric, TLC

CONSTANTS data, small, read, long, ack

MCKinds == {data, small, read, long, ack}

\* Data of two flits, stores and reads that share a flit, data that exceeds
\* every buffer, acknowledgements.
MCClass ==
    data  :> [vc |-> 0, flits |-> 2, cap |-> 1, read |-> FALSE] @@
    small :> [vc |-> 0, flits |-> 1, cap |-> 2, read |-> FALSE] @@
    read  :> [vc |-> 0, flits |-> 1, cap |-> 2, read |-> TRUE] @@
    long  :> [vc |-> 0, flits |-> 4, cap |-> 1, read |-> FALSE] @@
    ack   :> [vc |-> 1, flits |-> 1, cap |-> 1, read |-> FALSE]

Msg(s, d, k, g) == [src |-> s, dst |-> d, kind |-> k, group |-> g]

\* SMs 0 and 1 send to SM 2; SM 0 also multicasts to SMs 1 and 2, and is the
\* only one that sends long packets to SM 1.
MCSends == {Msg(0, 2, data, 1), Msg(0, 1, data, 1), Msg(0, 2, read, 0),
            Msg(0, 2, ack, 0), Msg(0, 1, long, 0),
            Msg(1, 2, data, 0), Msg(1, 2, small, 0)}

MCVcFlits == 0 :> 3 @@ 1 :> 1

\* Two SMs send packets to SM 2 that exceed its ejection buffer.
LongSends == {Msg(0, 2, long, 0), Msg(1, 2, long, 0)}

=============================================================================
