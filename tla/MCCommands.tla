----------------------------- MODULE MCCommands -----------------------------
(***************************************************************************)
(* Commands with two commands at a time, an identifier for a server of     *)
(* each and one for the server they find, and one process that is no       *)
(* server.                                                                 *)
(***************************************************************************)
EXTENDS Commands, TLC

MCSymmetry == Permutations(Cmds) \cup Permutations(Pids)
=============================================================================
