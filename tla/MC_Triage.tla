------------------------------ MODULE MC_Triage ------------------------------
(***************************************************************************)
(* Two assets and three findings.  a1 is a native server with two controls *)
(* or a record of a source that has no role, environment or sensitivity;   *)
(* a2 comes from a source that lacks only sensitivity.  The feeds may list *)
(* findings 1 and 2 as exploited; finding 3 was enriched by its source.    *)
(***************************************************************************)
EXTENDS Triage

CONSTANTS a1, a2, h1, h2

MCAssetOf == <<a1, a2, a1>>
MCHostsOf == [a \in {a1, a2} |-> IF a = a1 THEN {h1, h2} ELSE {h2}]

Server ==
  [criticality |-> 4, environment |-> "prod", data_sensitivity |-> "confidential",
   role |-> "sql", internet_exposed |-> TRUE, patch_window |-> "", patch_restrictions |-> "",
   compensating_controls |-> 2, not_collected |-> {}]
Imported ==
  [Server EXCEPT !.data_sensitivity = "internal", !.role = "file", !.internet_exposed = FALSE,
                 !.compensating_controls = 0,
                 !.not_collected = {"environment", "data_sensitivity", "role", "internet_exposed"}
                                     \cup OverlayFields]
Portal ==
  [criticality |-> 5, environment |-> "prod", data_sensitivity |-> "regulated",
   role |-> "sql", internet_exposed |-> TRUE, patch_window |-> "", patch_restrictions |-> "",
   compensating_controls |-> 0, not_collected |-> {"data_sensitivity"}]

MCInventories ==
  {[a \in {a1, a2} |-> IF a = a1 THEN first ELSE Portal] : first \in {Server, Imported}}

Looked(nvd, epss, kev) ==
  [source |-> None, nvd |-> nvd, scanner |-> "high", epss |-> epss, kev |-> kev,
   prevalence |-> None]
Enriched ==
  [source |-> 90, nvd |-> None, scanner |-> "high", epss |-> None, kev |-> FALSE,
   prevalence |-> None]

MCSignalsOf ==
  <<{Looked(98, 950, FALSE), Looked(98, 950, TRUE)},
    {Looked(None, 10, FALSE), Looked(None, 10, TRUE), Looked(98, 950, FALSE)},
    {Enriched}>>

Effect(kind, value) == [kind |-> kind, value |-> value]
MCOwnEffects ==
  {Effect("patch_window", "saturday"), Effect("patch_window", ""),
   Effect("patch_restriction", "frozen"), Effect("compensating_control", 1), Effect("none", "")}
MCGroupEffects ==
  {Effect("patch_window", "sunday"), Effect("compensating_control", 1)}
=============================================================================
