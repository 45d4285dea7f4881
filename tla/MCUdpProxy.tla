----------------------------- MODULE MCUdpProxy -----------------------------
(***************************************************************************)
(* UdpProxy on small instances.  For safety: two addresses of one host and *)
(* one of another, so that the limit of a host and that of the table are   *)
(* reached separately.  For liveness: two addresses and one place.         *)
(***************************************************************************)
EXTENDS UdpProxy, TLC

CONSTANTS c1, c2, c3, h1, h2

MCClients == {c1, c2, c3}
MCHosts   == {h1, h2}
MCHostOf  == (c1 :> h1) @@ (c2 :> h1) @@ (c3 :> h2)

\* Only in the runs without temporal properties.
MCSymmetry == Permutations(Sessions) \cup Permutations({c1, c2})

\* One host is served, the other refused by both lists.
TwoClients == {c1, c3}
TwoHostOf  == (c1 :> h1) @@ (c3 :> h2)
OnlyH1     == {h1}
=============================================================================
