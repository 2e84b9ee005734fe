------------------------- MODULE MCRouteAdministration -------------------------
(* Instances of RouteAdministration for TLC.                                    *)
EXTENDS RouteAdministration, TLC

CONSTANTS i1, i2, codex, claude, s1, s2

\* Two initializers with the same settings file or the same spool.
Competing ==
    {i1 :> [kind |-> codex, spool |-> s1] @@ i2 :> r :
        r \in {[kind |-> codex, spool |-> s2], [kind |-> claude, spool |-> s1]}}

===============================================================================
