---------------------------- MODULE ScoringRules ----------------------------
(***************************************************************************)
(* The deterministic pipeline as functions: a finding's risk and bucket    *)
(* from its asset and its threat signals, the overlay of constraints on an *)
(* asset, and the allocation of a fleet-wide patch limit (scoring.py,      *)
(* constraint_apply.py).                                                   *)
(*                                                                         *)
(* Weights and probabilities are thousandths, CVSS scores tenths; each     *)
(* product of the code's floating-point formula is rounded down to a       *)
(* thousandth of its maximum.  A finding is a number, which stands for the *)
(* order of finding_id.  An asset is a record of the fields of the schema  *)
(* that are scored or overlaid; of the list of compensating controls it    *)
(* keeps the length.                                                       *)
(***************************************************************************)
EXTENDS Integers, FiniteSets, FiniteSetsExt

CONSTANT None   \* Python's None: a signal or a host name that is not there

RoleBlastRadius ==
  [dc |-> 1000, exchange |-> 900, sql |-> 850, iis_web |-> 600, file |-> 550,
   workstation |-> 300, dev |-> 200, identity_gateway |-> 900, firewall |-> 850,
   container_orchestrator |-> 850, email_gateway |-> 750, network_appliance |-> 650,
   web_app |-> 600, container_host |-> 600, printer |-> 150]
EnvironmentWeight == [prod |-> 1000, staging |-> 600, dev |-> 300]
DataSensitivityWeight == [regulated |-> 1000, confidential |-> 800, internal |-> 500, none |-> 200]
SeverityBaseScore == [critical |-> 95, high |-> 75, medium |-> 50, low |-> 25, informational |-> 5]

\* IMPACT_AXIS_TARGETS and THREAT_AXIS_TARGETS.
ImpactAxes == {"criticality", "environment", "data_sensitivity", "role"}
ThreatAxes == {"internet_exposed"}
Axes == ImpactAxes \cup ThreatAxes
\* The members of Bucket that bucket_for assigns; a capacity limit adds
\* "deferred_capacity".
Buckets == {"patch_now", "next_window", "mitigate_monitor", "accept", "contested"}

Smaller(x, y) == IF x <= y THEN x ELSE y

-----------------------------------------------------------------------------
(* Threat.  A threat record holds the signals of one finding: the source's *)
(* own score, NVD's, the scanner's tier, epss, kev and attack prevalence.  *)

Severity(t) ==
  IF t.source # None THEN t.source
  ELSE IF t.nvd # None THEN t.nvd
  ELSE SeverityBaseScore[t.scanner]

\* Mutant of Likelihood: KEV sets the multiplier instead of a floor under it.
LikelihoodReplaced(t) ==
  IF t.kev THEN 1500 ELSE IF t.epss = None THEN 1000 ELSE 600 + t.epss

\* EPSS sets the multiplier, KEV a floor under it.
Likelihood(t) ==
  LET modelled == IF t.epss = None THEN 1000 ELSE 600 + t.epss
  IN IF t.kev /\ modelled < 1500 THEN 1500 ELSE modelled

AttackMultiplier(t) ==
  IF t.prevalence = None THEN 1000 ELSE 800 + (4 * t.prevalence) \div 10

\* In hundredths; an exposure nobody determined takes neither multiplier.
Exposure(asset) ==
  IF "internet_exposed" \in asset.not_collected THEN 100
  ELSE IF asset.internet_exposed THEN 135 ELSE 70

\* score_threat as a share of _MAX_THREAT (10.0 x 1.35 x 1.6 x 1.2).
ThreatShare(asset, t) ==
  (((Severity(t) * Exposure(asset) * Likelihood(t)) \div 1000) * AttackMultiplier(t)) \div 25920

-----------------------------------------------------------------------------
(* Impact.                                                                 *)

AxisValue(asset, axis) ==
  CASE axis = "criticality" -> 200 * asset.criticality
    [] axis = "environment" -> EnvironmentWeight[asset.environment]
    [] axis = "data_sensitivity" -> DataSensitivityWeight[asset.data_sensitivity]
    [] axis = "role" -> RoleBlastRadius[asset.role]

\* What an axis adds: an axis the source never determined drops out of the sum.
Contribution(asset, axis) ==
  IF axis \in asset.not_collected THEN 0 ELSE AxisValue(asset, axis)

AxisSum(asset) ==
  Contribution(asset, "criticality") + Contribution(asset, "environment")
    + Contribution(asset, "data_sensitivity") + Contribution(asset, "role")

\* Mutant of Composite: the sum takes the placeholders in.
CompositeOfPlaceholders(asset) ==
  LET active == ImpactAxes \ asset.not_collected IN
    IF active = {} THEN 0
    ELSE (AxisValue(asset, "criticality") + AxisValue(asset, "environment")
            + AxisValue(asset, "data_sensitivity") + AxisValue(asset, "role"))
           \div Cardinality(ImpactAxes)

\* impact_composite: the four weights are equal, so renormalising over the axes
\* that are left is their average; 0 when none is.
Composite(asset) ==
  LET active == ImpactAxes \ asset.not_collected IN
    IF active = {} THEN 0 ELSE AxisSum(asset) \div Cardinality(active)

\* 0.85 per control, at most MAX_CONTROLS_COUNTED of them.
Decay(controls) ==
  CASE controls = 0 -> 1000
    [] controls = 1 -> 850
    [] controls = 2 -> 722
    [] OTHER -> 614

\* score_impact as a share of _MAX_IMPACT.
ImpactShare(asset, t) ==
  (Severity(t) * Composite(asset) * Decay(asset.compensating_controls)) \div 100000

-----------------------------------------------------------------------------
(* score_finding and bucket_for.                                           *)

Risk(asset, t) == Smaller(1000, (ThreatShare(asset, t) * ImpactShare(asset, t)) \div 1000)

PatchNowThreshold == 700
ActionableThreshold == 180

\* A blank window reads the same whether none was declared or nobody asked.
HasPatchWindow(asset) == asset.patch_window # ""

BucketFor(asset, t) ==
  LET risk == Risk(asset, t) IN
    IF risk >= PatchNowThreshold THEN "patch_now"
    ELSE IF risk < ActionableThreshold /\ ~ t.kev THEN "accept"
    ELSE IF HasPatchWindow(asset) THEN "next_window"
    ELSE IF asset.compensating_controls > 0 THEN "mitigate_monitor"
    ELSE IF t.kev THEN "contested"
    ELSE "next_window"

-----------------------------------------------------------------------------
(* The overlay.  `effects` maps the ids of the constraints that apply to   *)
(* an asset to what they supply; a later id was recorded later.            *)

OfKind(effects, kind) == {i \in DOMAIN effects : effects[i].kind = kind}

\* The constraint of a replace kind that wins its pass.
Winner(effects, kind) == Max(OfKind(effects, kind))

\* Mutant of Replaced: the group pass comes last.
ReplacedByGroup(old, own, group, kind) ==
  IF OfKind(group, kind) # {} THEN group[Winner(group, kind)].value
  ELSE IF OfKind(own, kind) # {} THEN own[Winner(own, kind)].value
  ELSE old

\* A replaced field: the asset's own constraints win over its group's.
Replaced(old, own, group, kind) ==
  IF OfKind(own, kind) # {} THEN own[Winner(own, kind)].value
  ELSE IF OfKind(group, kind) # {} THEN group[Winner(group, kind)].value
  ELSE old

\* What constraint i adds to the comma-separated list of controls.
Entries(effects, i) == {i} \X (1..effects[i].value)

\* How many entries the constraints add to it.
Added(effects) == Cardinality(UNION {Entries(effects, i) : i \in OfKind(effects, "compensating_control")})

\* Mutant of Controls: the list is replaced instead of joined.
ControlsReplaced(asset, own, group) ==
  IF Added(own) + Added(group) > 0 THEN Added(own) + Added(group) ELSE asset.compensating_controls

Controls(asset, own, group) == asset.compensating_controls + Added(own) + Added(group)

FieldOf == [patch_window |-> "patch_window", patch_restriction |-> "patch_restrictions",
            compensating_control |-> "compensating_controls"]
OverlayFields == {FieldOf[kind] : kind \in DOMAIN FieldOf}
ReplaceKinds == {"patch_window", "patch_restriction"}

\* fold_constraints: the asset a finding is scored with.
Fold(asset, own, group) ==
  LET supplied == {FieldOf[kind] : kind \in {k \in DOMAIN FieldOf :
                     OfKind(own, k) \cup OfKind(group, k) # {}}}
  IN [asset EXCEPT
        !.patch_window = Replaced(asset.patch_window, own, group, "patch_window"),
        !.patch_restrictions = Replaced(asset.patch_restrictions, own, group, "patch_restriction"),
        !.compensating_controls = Controls(asset, own, group),
        !.not_collected = asset.not_collected \ supplied]

\* overridden_group_effects: which group constraint each asset constraint beat.
Overridden(own, group) ==
  {<<kind, Winner(own, kind), Winner(group, kind)>> :
     kind \in {k \in ReplaceKinds : OfKind(own, k) # {} /\ OfKind(group, k) # {}}}

-----------------------------------------------------------------------------
(* rank and apply_capacity_limit, over scored : [findings -> risk, bucket].*)

Outranks(scored, f, g) ==
  \/ scored[f].risk > scored[g].risk
  \/ scored[f].risk = scored[g].risk /\ f < g

Candidates(scored) == {f \in DOMAIN scored : scored[f].bucket = "next_window"}

\* Mutant of RankOf: sorted by ascending risk.
RankOfAscending(scored, f) ==
  1 + Cardinality({g \in Candidates(scored) : Outranks(scored, f, g)})

RankOf(scored, f) == 1 + Cardinality({g \in Candidates(scored) : Outranks(scored, g, f)})

Fits(rank, limit) == rank <= limit

EffectiveBucket(scored, limit, f) ==
  IF f \in Candidates(scored) /\ ~ Fits(RankOf(scored, f), limit)
    THEN "deferred_capacity" ELSE scored[f].bucket
=============================================================================
