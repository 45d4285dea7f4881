---------------------------- MODULE MCReadiness ----------------------------
(***************************************************************************)
(* Readiness with an upstream of two targets and one of a single target,   *)
(* and two requests.                                                       *)
(***************************************************************************)
EXTENDS Readiness

CONSTANTS t1, t2, t3

MCGroups == << {t1, t2}, {t3} >>
=============================================================================
