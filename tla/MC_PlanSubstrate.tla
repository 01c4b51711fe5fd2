-------------------------- MODULE MC_PlanSubstrate --------------------------
(***************************************************************************)
(* Two uploads that report the same finding and a native source: a finding *)
(* can have provisional provenance under two formats, one signed.  Three   *)
(* jobs reach propose, run and mark in one life of the server.             *)
(***************************************************************************)
EXTENDS PlanSubstrate

MCFindings == {"f1"}
MCFindingsOf == [s \in Sources |-> IF s = Native THEN {} ELSE MCFindings]
=============================================================================
