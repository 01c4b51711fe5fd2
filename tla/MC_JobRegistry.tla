--------------------------- MODULE MC_JobRegistry ---------------------------
(***************************************************************************)
(* Three jobs in a history of two, and the fields of an outcome told apart *)
(* in the order in which finish assigns and to_dict reads them; but for    *)
(* finished_at, which every finish sets, whatever the outcome.             *)
(***************************************************************************)
EXTENDS JobRegistry

MCFields == <<"result", "error", "export_written", "export_warning">>
=============================================================================
