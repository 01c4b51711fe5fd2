-------------------------- MODULE MC_SourceLoading --------------------------
(***************************************************************************)
(* Two of three identities share a finding_id; one asset is loaded, one    *)
(* excluded, or both at once.  A finding has a severity and an evidence,   *)
(* and, as in the contract of mdvm-gen, the content targets name neither   *)
(* the evidence nor the asset.                                             *)
(***************************************************************************)
EXTENDS SourceLoading

MCContents == [severity : {"low", "high"}, evidence : {"e1", "e2"}]
ContentTargets(row) == row.content.severity

Cut(identity) == IF identity \in {"ab1", "ab2"} THEN "ab" ELSE identity

=============================================================================
