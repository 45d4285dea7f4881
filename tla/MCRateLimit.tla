---------------------------- MODULE MCRateLimit ----------------------------
(***************************************************************************)
(* RateLimit on small instances: per client network a limit of two tokens, *)
(* refilled by half a token a tick; of the route of three, refilled by one *)
(* and a half; and of the server of two, refilled by one.                  *)
(***************************************************************************)
EXTENDS RateLimit, TLC

CONSTANTS a, b, ipa, ipb, route, global

ThreeLimits == << [rate |-> 1, burst |-> 2], [rate |-> 3, burst |-> 3], [rate |-> 2, burst |-> 2] >>
ThreeKeys   == (a :> <<ipa, route, global>>) @@ (b :> <<ipb, route, global>>)

TwoLimits == SubSeq(ThreeLimits, 1, 2)
TwoKeys   == (a :> <<ipa, route>>) @@ (b :> <<ipb, route>>)

MCSymmetry == Permutations(Requests)
=============================================================================
