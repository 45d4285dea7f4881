----------------------------- MODULE MCWatcher -----------------------------
(***************************************************************************)
(* Watcher with two files of a kind to keep, and room for two more that a  *)
(* crash or a failure leaves.                                              *)
(***************************************************************************)
EXTENDS Watcher
=============================================================================
