----------------------------- MODULE MCTcpProxy -----------------------------
(***************************************************************************)
(* TcpProxy with one connection of a host and one in all, so that another  *)
(* is refused by the policy if it comes from the same host, by the         *)
(* semaphore if it comes from another, and outright if it comes from a     *)
(* host that is denied.                                                    *)
(***************************************************************************)
EXTENDS TcpProxy
=============================================================================
