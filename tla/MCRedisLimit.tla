---------------------------- MODULE MCRedisLimit ----------------------------
(***************************************************************************)
(* RedisLimit on a small instance: two requests and a pool of one, so that *)
(* a connection comes back to a pool that is full; a bucket of one token,  *)
(* refilled by two thirds of it a tick.                                    *)
(***************************************************************************)
EXTENDS RedisLimit

MCSetup == <<"AUTH">>
=============================================================================
