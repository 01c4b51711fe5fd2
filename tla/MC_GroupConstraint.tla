------------------------- MODULE MC_GroupConstraint -------------------------
(***************************************************************************)
(* Two assets and three findings, so that a run comes back to an asset it  *)
(* has looked up, and one group constraint may apply to two assets.        *)
(***************************************************************************)
EXTENDS GroupConstraint

CONSTANTS a1, a2

MCAssetOf == <<a1, a2, a1>>
=============================================================================
