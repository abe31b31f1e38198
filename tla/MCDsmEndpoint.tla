--------------------------- MODULE MCDsmEndpoint ---------------------------
(* Small instances of DsmEndpoint. *)
EXTENDS DsmEndpoint, TLC

CONSTANTS s1, s2

\* A store needs one byte of the service, a TMA copy two.
MCBytes == "store" :> 1 @@ "tma" :> 2 @@ "load" :> 1 @@ "atom" :> 1
           @@ "arrive" :> 0 @@ "waitreg" :> 0

TwoSms == {s1, s2}
OneWay == {<<s1, s2>>}

=============================================================================
