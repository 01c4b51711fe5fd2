------------------------- MODULE MC_ContractReview -------------------------
(***************************************************************************)
(* Two recipes, both a content address, and two regions, both with union   *)
(* fields, so that a claim about one is no claim about the other; one of   *)
(* the regions is enriched and a proposal may doubt a mapping or not, so   *)
(* that an attestation is required at some time and not at another.        *)
(***************************************************************************)
EXTENDS ContractReview, TLC

ReviewSymmetry == {p @@ q : p \in Permutations(Signers), q \in Permutations(Recipes)}

=============================================================================
