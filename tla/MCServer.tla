------------------------------ MODULE MCServer ------------------------------
(***************************************************************************)
(* Server on a small instance: two requests, two stream proxies, and logs  *)
(* that are full with two entries, some of an earlier process.             *)
(***************************************************************************)
EXTENDS Server
=============================================================================
