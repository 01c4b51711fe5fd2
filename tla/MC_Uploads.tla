----------------------------- MODULE MC_Uploads -----------------------------
(***************************************************************************)
(* Uploads are interchangeable, and so are the ids of sets, the names of   *)
(* files and the two labels.                                               *)
(***************************************************************************)
EXTENDS Uploads, TLC

UploadSymmetry ==
  Permutations(Sets) \cup Permutations(Labels) \cup Permutations(Names) \cup Permutations(Requests)
=============================================================================
