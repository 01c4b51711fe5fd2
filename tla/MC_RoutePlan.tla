---------------------------- MODULE MC_RoutePlan ----------------------------
(***************************************************************************)
(* A plan whose job-backed first step must succeed before its synchronous  *)
(* second step.  A step reads no field of a job but its status.            *)
(***************************************************************************)
EXTENDS RoutePlan

MCOps == <<"job", "sync">>
MCFields == <<>>
=============================================================================
