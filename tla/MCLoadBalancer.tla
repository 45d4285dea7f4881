--------------------------- MODULE MCLoadBalancer ---------------------------
(* LoadBalancer with targets on distinct upstreams and interchangeable requests. *)
EXTENDS LoadBalancer, Sequences, TLC

CONSTANTS k1, k2, k3

MCKeyOf    == [i \in Indices |-> <<k1, k2, k3>>[i + 1]]
MCSymmetry == Permutations(Requests)
=============================================================================
