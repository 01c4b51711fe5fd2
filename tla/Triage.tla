------------------------------- MODULE Triage -------------------------------
(***************************************************************************)
(* The plan as a function of what is on file.  `rhino run` and a capacity  *)
(* submission each read the inventory, the threat signals and the active   *)
(* constraints, match the constraints to each asset, fold them in and      *)
(* score.  People add and retract constraints, a machine is renamed, feeds *)
(* change (memory.py, constraint_apply.py, scoring.py, cli.py,             *)
(* agents/coordinator.py).                                                 *)
(*                                                                         *)
(* A plan is read off one state.  What a constraint that comes or goes     *)
(* while a plan is computed does to it is modelled in Coordinator and in   *)
(* GroupConstraint.                                                        *)
(***************************************************************************)
EXTENDS ScoringRules, Sequences

CONSTANTS
  Assets,
  AssetOf,        \* the asset of each finding, in the order of finding_id
  HostsOf,        \* the host names that each asset may come under
  Inventories,    \* what a source may say of the assets
  SignalsOf,      \* what a source and the feeds may say of each finding
  OwnEffects,     \* the effects an asset constraint may be interpreted as
  GroupEffects,   \* the effects a group constraint may be interpreted as
  MaxRows         \* bound on the constraints ever added

Findings == DOMAIN AssetOf

Asset == [criticality : 1..5, environment : DOMAIN EnvironmentWeight,
          data_sensitivity : DOMAIN DataSensitivityWeight, role : DOMAIN RoleBlastRadius,
          internet_exposed : BOOLEAN, patch_window : STRING, patch_restrictions : STRING,
          compensating_controls : Nat,
          not_collected : SUBSET (Axes \cup OverlayFields)]
Signal == [source : 0..100 \cup {None}, nvd : 0..100 \cup {None},
           scanner : DOMAIN SeverityBaseScore, epss : 0..1000 \cup {None}, kev : BOOLEAN,
           prevalence : 0..1000 \cup {None}]

ASSUME AssetOfAssumption == AssetOf \in Seq(Assets)
ASSUME InventoryAssumption == Inventories \subseteq [Assets -> Asset]
ASSUME SignalAssumption == SignalsOf \in [DOMAIN AssetOf -> SUBSET Signal]
\* A constraint that adds controls has the number of entries it adds.
ASSUME EffectAssumption ==
  \A effect \in OwnEffects \cup GroupEffects :
    effect.kind = "compensating_control" => effect.value \in Nat

Hosts == UNION {HostsOf[a] : a \in Assets}

ASSUME HostAssumption == DOMAIN HostsOf = Assets /\ None \notin Hosts

VARIABLES
  facts,    \* the inventory, without host names
  host,     \* the host name of each asset
  threat,   \* the signals of each finding
  own,      \* the table `constraints`, oldest first
  group     \* the table `group_constraints`, oldest first

vars == <<facts, host, threat, own, group>>

OwnRow == [asset : Assets, host : Hosts \cup {None}, effect : OwnEffects, active : BOOLEAN]
GroupRow == [role : DOMAIN RoleBlastRadius, effect : GroupEffects, active : BOOLEAN]

\* A row from before the column `hostname` existed has none.
Legacy(a, effect) == [asset |-> a, host |-> None, effect |-> effect, active |-> TRUE]

Init ==
  /\ facts \in Inventories
  /\ host \in [Assets -> Hosts] /\ \A a \in Assets : host[a] \in HostsOf[a]
  /\ threat \in [Findings -> UNION {SignalsOf[f] : f \in Findings}]
  /\ \A f \in Findings : threat[f] \in SignalsOf[f]
  /\ \/ own = << >>
     \/ \E a \in Assets, effect \in OwnEffects : own = <<Legacy(a, effect)>>
  /\ group = << >>

-----------------------------------------------------------------------------
(* The plan.                                                               *)

\* match_constraints and has_usable_effect.
AppliesOwn(row, a) ==
  /\ row.active
  /\ row.asset = a
  /\ row.host = host[a]
  /\ row.effect.kind # "none"

\* match_group_constraints and has_usable_effect: a role that was never determined
\* matches nothing.
AppliesGroup(row, asset) ==
  /\ row.active
  /\ row.effect.kind # "none"
  /\ "role" \notin asset.not_collected
  /\ row.role = asset.role

OwnOf(a) == [i \in {i \in DOMAIN own : AppliesOwn(own[i], a)} |-> own[i].effect]
GroupOf(asset) == [i \in {i \in DOMAIN group : AppliesGroup(group[i], asset)} |-> group[i].effect]

Folded(a, asset) == Fold(asset, OwnOf(a), GroupOf(asset))

ScoreWith(f, asset, t) ==
  LET folded == Folded(AssetOf[f], asset)
  IN [risk |-> Risk(folded, t), bucket |-> BucketFor(folded, t)]

\* What finding f scores in a run when the source says `asset` of its asset.
ScoreAs(f, asset) == ScoreWith(f, asset, threat[f])

Scored == [f \in Findings |-> ScoreAs(f, facts[AssetOf[f]])]

\* A capacity submission asks the feeds about every finding.  A source that
\* enriches its findings names them by identifiers that no feed knows.
Fetched(t) ==
  IF t.source = None THEN t
  ELSE [source |-> None, nvd |-> None, scanner |-> t.scanner, epss |-> None, kev |-> FALSE,
        prevalence |-> None]

Pooled == [f \in Findings |-> ScoreWith(f, facts[AssetOf[f]], Fetched(threat[f]))]

-----------------------------------------------------------------------------
(* What changes it.                                                        *)

HasRoom == Len(own) + Len(group) < MaxRows

\* add_constraint, with the host name of the asset as the caller resolved it; an
\* uninterpreted constraint has no effect.
SubmitAsset(a, effect) ==
  /\ HasRoom
  /\ own' = Append(own, [asset |-> a, host |-> host[a], effect |-> effect, active |-> TRUE])
  /\ UNCHANGED <<facts, host, threat, group>>

\* add_group_constraint, at a confirmation.
ConfirmGroup(role, effect) ==
  /\ HasRoom
  /\ group' = Append(group, [role |-> role, effect |-> effect, active |-> TRUE])
  /\ UNCHANGED <<facts, host, threat, own>>

RetractOwn(i) ==
  /\ own[i].active
  /\ own' = [own EXCEPT ![i].active = FALSE]
  /\ UNCHANGED <<facts, host, threat, group>>

RetractGroup(i) ==
  /\ group[i].active
  /\ group' = [group EXCEPT ![i].active = FALSE]
  /\ UNCHANGED <<facts, host, threat, own>>

\* Another machine takes over an asset's id, or the machine is renamed.
Rename(a, h) ==
  /\ h # host[a]
  /\ host' = [host EXCEPT ![a] = h]
  /\ UNCHANGED <<facts, threat, own, group>>

\* attach_threat_signals over a newer snapshot of the feeds; a finding that its
\* source enriched is not looked up.
Refresh(f, signal) ==
  /\ threat[f].source = None
  /\ signal.source = None
  /\ signal.scanner = threat[f].scanner
  /\ signal # threat[f]
  /\ threat' = [threat EXCEPT ![f] = signal]
  /\ UNCHANGED <<facts, host, own, group>>

Next ==
  \/ \E a \in Assets, effect \in OwnEffects : SubmitAsset(a, effect)
  \/ \E role \in {facts[a].role : a \in Assets}, effect \in GroupEffects : ConfirmGroup(role, effect)
  \/ \E i \in DOMAIN own : RetractOwn(i)
  \/ \E i \in DOMAIN group : RetractGroup(i)
  \/ \E a \in Assets : \E h \in HostsOf[a] : Rename(a, h)
  \/ \E f \in Findings : \E signal \in SignalsOf[f] : Refresh(f, signal)

Spec == Init /\ [][Next]_vars

-----------------------------------------------------------------------------
(* Properties.                                                             *)

TablesOK ==
  /\ facts \in Inventories
  /\ host \in [Assets -> Hosts]
  /\ DOMAIN threat = Findings /\ \A f \in Findings : threat[f] \in SignalsOf[f]
  /\ own \in Seq(OwnRow)
  /\ group \in Seq(GroupRow)

\* The type of the tables, and the scale of what is computed from them: every
\* composite is a share of its maximum, every risk a share of 100, and every
\* finding gets a bucket.
TypeOK ==
  /\ TablesOK
  /\ \A a \in Assets : Composite(facts[a]) \in 0..1000
  /\ \A f \in Findings : Scored[f].risk \in 0..1000 /\ Scored[f].bucket \in Buckets

\* What a placeholder might have been instead.
Legal == [criticality |-> 1..5, environment |-> DOMAIN EnvironmentWeight,
          data_sensitivity |-> DOMAIN DataSensitivityWeight, role |-> DOMAIN RoleBlastRadius,
          internet_exposed |-> BOOLEAN]

\* A value that the source never determined moves nothing: with any other
\* placeholder in its place every finding has the same risk and bucket, after the
\* same group constraints (impact_composite, score_threat, match_group_constraints).
\* This is what scoring.py says of a neutralized axis (346-366) and does.  Two other
\* texts say the opposite of the code and of this property: that scoring reads a default
\* "exactly as it would a native record" (schema.py 57-62), and that a default "shifts
\* every finding's Impact by the same constant" (adapters/base.py 87-100).
PlaceholdersMoveNothing ==
  \A f \in Findings :
    LET asset == facts[AssetOf[f]] IN
      \A axis \in Axes \cap asset.not_collected : \A value \in Legal[axis] :
        ScoreAs(f, [asset EXCEPT ![axis] = value]) = ScoreAs(f, asset)

Kept(limit) == {f \in Candidates(Pooled) : EffectiveBucket(Pooled, limit, f) = "next_window"}
Deferred(limit) == {f \in Findings : EffectiveBucket(Pooled, limit, f) = "deferred_capacity"}

\* Whatever a capacity limit keeps outranks whatever it defers, a finding that
\* competes is kept or deferred, and no other bucket changes (apply_capacity_limit).
CapacityKeepsTheTop ==
  \A limit \in 0..Len(AssetOf) :
    /\ Kept(limit) \cup Deferred(limit) = Candidates(Pooled)
    /\ \A f \in Kept(limit), g \in Deferred(limit) : Outranks(Pooled, f, g)
    /\ \A f \in Findings \ Candidates(Pooled) :
          EffectiveBucket(Pooled, limit, f) = Pooled[f].bucket

\* No slot of the limit is left over while a finding is deferred, and none is given
\* twice, ties in risk included (apply_capacity_limit).
CapacityIsUsedUp ==
  \A limit \in 0..Len(AssetOf) :
    Cardinality(Kept(limit)) = Smaller(limit, Cardinality(Candidates(Pooled)))

\* Both at once: a limit is spent on the findings that rank highest, to the last
\* slot (apply_capacity_limit).
CapacityIsSpentFromTheTop == CapacityKeepsTheTop /\ CapacityIsUsedUp

\* A constraint of nothing but blanks is usable, and sets a window that counts as none.
BlankWindow(effects) == \E i \in OfKind(effects, "patch_window") : effects[i].value = ""
HasBlankWindow(a) == BlankWindow(OwnOf(a)) \/ BlankWindow(GroupOf(facts[a]))

\* A new constraint, on an asset or a group, never raises the risk of a finding, and
\* only one that sets a blank window takes a finding that had a bucket out to a search
\* (fold_constraints: controls add up, a window is never taken away).
ConstraintsOnlyHelp ==
  [][Len(own') + Len(group') > Len(own) + Len(group) =>
       \A f \in Findings :
         /\ Scored'[f].risk <= Scored[f].risk
         /\ Scored'[f].bucket = "contested" =>
              Scored[f].bucket = "contested" \/ HasBlankWindow(AssetOf[f])']_vars

\* When a CVE enters the catalog of known exploited vulnerabilities, whatever the
\* other signals say, its findings do not fall in the ranking and are no longer
\* accepted (_likelihood_multiplier, bucket_for).
KevListingEscalates ==
  [][\A f \in Findings :
       /\ ~ threat[f].kev
       /\ threat'[f] = [threat[f] EXCEPT !.kev = TRUE]
       => /\ Scored'[f].risk >= Scored[f].risk
          /\ Scored'[f].bucket # "accept"]_vars

FoldedAsset(a) == Folded(a, facts[a])
OverriddenOn(a) == Overridden(OwnOf(a), GroupOf(facts[a]))

\* Where an asset has a rule of its own, no group constraint that is confirmed or
\* retracted changes that field, however much later it was recorded, and each one
\* that would have is reported as overridden (fold_constraints' two passes).
AssetRuleShields ==
  [][group' # group =>
       \A a \in Assets, kind \in ReplaceKinds :
         OfKind(OwnOf(a), kind) # {} =>
           /\ FoldedAsset(a)'[FieldOf[kind]] = FoldedAsset(a)[FieldOf[kind]]
           /\ OfKind(GroupOf(facts[a]), kind)' # {} =>
                \E rule \in OverriddenOn(a)' :
                  rule[1] = kind /\ rule[3] = Winner(GroupOf(facts[a]), kind)']_vars
=============================================================================
