--------------------------- MODULE MC_Coordinator ---------------------------
(***************************************************************************)
(* Two findings on two assets, and two constraints on the first one's: a   *)
(* plan may be re-planned twice, and an answer of the second re-plan may   *)
(* rest on a call of the run or of the first.  The first finding is        *)
(* contested without a constraint and with both; the second always is.     *)
(***************************************************************************)
EXTENDS Coordinator

MCFindings == {"f1", "f2"}
MCConstraints == {"c1", "c2"}
MCScope == [c \in MCConstraints |-> {"f1"}]
MCContestedUnder == [f \in MCFindings |->
                       IF f = "f1" THEN {{}, MCConstraints} ELSE {{}}]
=============================================================================
