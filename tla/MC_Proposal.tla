---------------------------- MODULE MC_Proposal ----------------------------
(***************************************************************************)
(* Three slots: role (a placeholder of its own), criticality (not          *)
(* collected) and asset_id (no placeholder), each with its column, and an  *)
(* order_by column that the grouping reads.                                *)
(***************************************************************************)
EXTENDS Proposal

MCColumnOf == [s \in Slots |-> CASE s = "role" -> "c_role"
                                 [] s = "criticality" -> "c_crit"
                                 [] OTHER -> "c_id"]

MCMappable == [s \in Slots |->
  CASE s = "role" -> {"unresolved", "gap_blank"}
    [] s = "criticality" -> {"unresolved", "misfit"}
    [] OTHER -> {"full"}]

MCEditable == [s \in Slots |->
  CASE s = "role" -> {"full", "gap_blank"}
    [] s = "criticality" -> {"partial", "invented"}
    [] OTHER -> {}]

MCDispositions == {{"c_role"}, {"c_crit", "c_order"}}
=============================================================================
