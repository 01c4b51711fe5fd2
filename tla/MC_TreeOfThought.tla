-------------------------- MODULE MC_TreeOfThought --------------------------
(***************************************************************************)
(* The three strategies, the beam of two and the three rounds of tot.py;   *)
(* scores on both sides of the margin; two findings, so that the second    *)
(* search starts with models that have already spent.                      *)
(***************************************************************************)
EXTENDS TreeOfThought

ThreeStrategies == <<"emergency_change", "establish_window", "build_control">>

=============================================================================
