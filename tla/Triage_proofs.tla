---------------------------- MODULE Triage_proofs ----------------------------
(***************************************************************************)
(* Theorems about Triage, for every inventory, every set of signals, every *)
(* effect a constraint may have and any number of constraints.             *)
(***************************************************************************)
EXTENDS Triage, TLAPS, FiniteSetTheorems

-----------------------------------------------------------------------------
(* The tables.                                                             *)

\* Every operation keeps the tables' type, and none changes the inventory.
LEMMA TablesKept == ASSUME TablesOK, [Next]_vars PROVE TablesOK' /\ facts' = facts
<1> USE DEF TablesOK
<1>1. CASE UNCHANGED vars
  BY <1>1 DEF vars, OwnRow, GroupRow
<1>2. ASSUME NEW a \in Assets, NEW effect \in OwnEffects, SubmitAsset(a, effect)
      PROVE  TablesOK' /\ facts' = facts
  <2>1. [asset |-> a, host |-> host[a], effect |-> effect, active |-> TRUE] \in OwnRow
    BY DEF OwnRow
  <2> QED BY <1>2, <2>1 DEF SubmitAsset
<1>3. ASSUME NEW role \in {facts[a].role : a \in Assets}, NEW effect \in GroupEffects,
             ConfirmGroup(role, effect)
      PROVE  TablesOK' /\ facts' = facts
  <2>1. PICK a \in Assets : role = facts[a].role
    OBVIOUS
  <2>2. facts[a] \in Asset
    BY InventoryAssumption
  <2>3. [role |-> role, effect |-> effect, active |-> TRUE] \in GroupRow
    BY <2>1, <2>2 DEF Asset, GroupRow
  <2> QED BY <1>3, <2>3 DEF ConfirmGroup
<1>4. ASSUME NEW i \in DOMAIN own, RetractOwn(i) PROVE TablesOK' /\ facts' = facts
  <2>1. own \in Seq(OwnRow) /\ own[i] \in OwnRow
    OBVIOUS
  <2>2. [own[i] EXCEPT !.active = FALSE] \in OwnRow
    BY <2>1 DEF OwnRow
  <2>3. own' = [own EXCEPT ![i] = [own[i] EXCEPT !.active = FALSE]]
    BY <1>4 DEF RetractOwn
  <2>4. own' \in Seq(OwnRow)
    BY <2>1, <2>2, <2>3
  <2> QED BY <1>4, <2>4 DEF RetractOwn
<1>5. ASSUME NEW i \in DOMAIN group, RetractGroup(i) PROVE TablesOK' /\ facts' = facts
  <2>1. group \in Seq(GroupRow) /\ group[i] \in GroupRow
    OBVIOUS
  <2>2. [group[i] EXCEPT !.active = FALSE] \in GroupRow
    BY <2>1 DEF GroupRow
  <2>3. group' = [group EXCEPT ![i] = [group[i] EXCEPT !.active = FALSE]]
    BY <1>5 DEF RetractGroup
  <2>4. group' \in Seq(GroupRow)
    BY <2>1, <2>2, <2>3
  <2> QED BY <1>5, <2>4 DEF RetractGroup
<1>6. ASSUME NEW a \in Assets, NEW h \in HostsOf[a], Rename(a, h)
      PROVE  TablesOK' /\ facts' = facts
  BY <1>6 DEF Rename, Hosts
<1>7. ASSUME NEW f \in Findings, NEW signal \in SignalsOf[f], Refresh(f, signal)
      PROVE  TablesOK' /\ facts' = facts
  BY <1>7 DEF Refresh
<1> QED BY <1>1, <1>2, <1>3, <1>4, <1>5, <1>6, <1>7 DEF Next

THEOREM TablesTyped == Spec => []TablesOK
<1>1. Init => TablesOK
  <2> SUFFICES ASSUME Init PROVE TablesOK
    OBVIOUS
  <2>1. own \in Seq(OwnRow)
    <3>1. ASSUME NEW a \in Assets, NEW effect \in OwnEffects
          PROVE  <<Legacy(a, effect)>> \in Seq(OwnRow)
      <4>1. Legacy(a, effect) \in OwnRow
        BY DEF Legacy, OwnRow
      <4> QED BY <4>1
    <3>2. << >> \in Seq(OwnRow)
      OBVIOUS
    <3>3. CASE own = << >>
      BY <3>2, <3>3
    <3>4. CASE \E a \in Assets, effect \in OwnEffects : own = <<Legacy(a, effect)>>
      BY <3>1, <3>4
    <3> QED BY <3>3, <3>4 DEF Init
  <2>2. group \in Seq(GroupRow)
    BY DEF Init
  <2> QED BY <2>1, <2>2 DEF Init, TablesOK
<1> QED BY <1>1, TablesKept, PTL DEF Spec

-----------------------------------------------------------------------------
(* The scale of what is computed.                                          *)

\* One more axis in a count of the axes that are determined.
LEMMA CountAxis ==
  ASSUME NEW S, IsFiniteSet(S), NEW x, x \notin S, NEW missing
  PROVE  /\ IsFiniteSet(S \cup ({x} \ missing))
         /\ Cardinality(S \cup ({x} \ missing))
              = Cardinality(S) + (IF x \in missing THEN 0 ELSE 1)
<1>1. CASE x \in missing
  <2> DEFINE T == S \cup ({x} \ missing)
  <2>1. T = S
    BY <1>1
  <2>2. Cardinality(S) \in Nat
    BY FS_CardinalityType
  <2> HIDE DEF T
  <2>3. IsFiniteSet(T) /\ Cardinality(T) = Cardinality(S) + 0
    BY <2>1, <2>2
  <2> QED BY <1>1, <2>3 DEF T
<1>2. CASE x \notin missing
  <2>1. S \cup ({x} \ missing) = S \cup {x}
    BY <1>2
  <2> QED BY <1>2, <2>1, FS_AddElement
<1> QED BY <1>1, <1>2

LEMMA ActiveAxes ==
  ASSUME NEW missing
  PROVE  Cardinality(ImpactAxes \ missing)
           = (IF "criticality" \in missing THEN 0 ELSE 1)
             + (IF "environment" \in missing THEN 0 ELSE 1)
             + (IF "data_sensitivity" \in missing THEN 0 ELSE 1)
             + (IF "role" \in missing THEN 0 ELSE 1)
<1> DEFINE one == {"criticality"} \ missing
           two == one \cup ({"environment"} \ missing)
           three == two \cup ({"data_sensitivity"} \ missing)
           four == three \cup ({"role"} \ missing)
           count(axis) == IF axis \in missing THEN 0 ELSE 1
<1>1. IsFiniteSet(one) /\ Cardinality(one) = count("criticality")
  <2>1. one = {} \cup ({"criticality"} \ missing)
    OBVIOUS
  <2> QED BY <2>1, CountAxis, FS_EmptySet
<1>2. IsFiniteSet(two) /\ Cardinality(two) = Cardinality(one) + count("environment")
  BY <1>1, CountAxis
<1>3. IsFiniteSet(three) /\ Cardinality(three) = Cardinality(two) + count("data_sensitivity")
  <2>1. "data_sensitivity" \notin two
    OBVIOUS
  <2> HIDE DEF two
  <2> QED BY <1>2, <2>1, CountAxis
<1>4. Cardinality(four) = Cardinality(three) + count("role")
  <2>1. "role" \notin three
    OBVIOUS
  <2> HIDE DEF three
  <2> QED BY <1>3, <2>1, CountAxis
<1>5. ImpactAxes \ missing = four
  BY DEF ImpactAxes
<1> QED BY <1>1, <1>2, <1>3, <1>4, <1>5

LEMMA ContributionScale ==
  ASSUME NEW asset \in Asset, NEW axis \in ImpactAxes
  PROVE  Contribution(asset, axis) \in 0..(IF axis \in asset.not_collected THEN 0 ELSE 1000)
<1>1. AxisValue(asset, axis) \in 0..1000
  <2>1. CASE axis = "criticality"
    BY <2>1 DEF AxisValue, Asset
  <2>2. CASE axis = "environment"
    BY <2>2 DEF AxisValue, Asset, EnvironmentWeight
  <2>3. CASE axis = "data_sensitivity"
    BY <2>3 DEF AxisValue, Asset, DataSensitivityWeight
  <2>4. CASE axis = "role"
    BY <2>4 DEF AxisValue, Asset, RoleBlastRadius
  <2> QED BY <2>1, <2>2, <2>3, <2>4 DEF ImpactAxes
<1> QED BY <1>1 DEF Contribution

\* The average of at most four shares of 1000 is one.
LEMMA AverageScale ==
  ASSUME NEW n \in 1..4, NEW s \in 0..(1000 * n) PROVE s \div n \in 0..1000
<1>1. CASE n = 1
  <2>1. \A k \in 0..1000 : k \div 1 \in 0..1000
    OBVIOUS
  <2> QED BY <1>1, <2>1
<1>2. CASE n = 2
  <2>1. \A k \in 0..2000 : k \div 2 \in 0..1000
    OBVIOUS
  <2> QED BY <1>2, <2>1
<1>3. CASE n = 3
  <2>1. \A k \in 0..3000 : k \div 3 \in 0..1000
    OBVIOUS
  <2> QED BY <1>3, <2>1
<1>4. CASE n = 4
  <2>1. \A k \in 0..4000 : k \div 4 \in 0..1000
    OBVIOUS
  <2> QED BY <1>4, <2>1
<1> QED BY <1>1, <1>2, <1>3, <1>4

\* Renormalising over the determined axes keeps the composite a share of its maximum.
LEMMA CompositeScale == ASSUME NEW asset \in Asset PROVE Composite(asset) \in 0..1000
<1> DEFINE active == ImpactAxes \ asset.not_collected
           n == Cardinality(active)
           count(axis) == IF axis \in asset.not_collected THEN 0 ELSE 1
<1>1. n = count("criticality") + count("environment") + count("data_sensitivity") + count("role")
  BY ActiveAxes
<1>2. \A axis \in ImpactAxes : Contribution(asset, axis) \in 0..(1000 * count(axis))
  BY ContributionScale
<1>3. AxisSum(asset) \in 0..(1000 * n)
  BY <1>1, <1>2 DEF AxisSum, ImpactAxes
<1>4. CASE active = {}
  BY <1>4 DEF Composite
<1>5. CASE active # {}
  <2>1. n \in 1..4
    BY <1>1, <1>5 DEF ImpactAxes
  <2>2. Composite(asset) = AxisSum(asset) \div n
    BY <1>5 DEF Composite
  <2> HIDE DEF n
  <2>3. AxisSum(asset) \div n \in 0..1000
    BY <1>3, <2>1, AverageScale
  <2> QED BY <2>2, <2>3
<1> QED BY <1>4, <1>5

\* The overlay touches no scoring axis.
LEMMA FoldKeepsAxes ==
  ASSUME NEW asset \in Asset, NEW own1, NEW group1
  PROVE  LET folded == Fold(asset, own1, group1) IN
           /\ Composite(folded) = Composite(asset)
           /\ Exposure(folded) = Exposure(asset)
<1> DEFINE folded == Fold(asset, own1, group1)
<1>1. \A axis \in Axes : /\ folded[axis] = asset[axis]
                         /\ axis \in folded.not_collected <=> axis \in asset.not_collected
  <2> SUFFICES ASSUME NEW axis \in Axes
               PROVE  /\ folded[axis] = asset[axis]
                      /\ axis \in folded.not_collected <=> axis \in asset.not_collected
    OBVIOUS
  <2> DEFINE supplied == {FieldOf[kind] : kind \in {k \in DOMAIN FieldOf :
                            OfKind(own1, k) \cup OfKind(group1, k) # {}}}
  <2>1. axis \notin {"patch_window", "patch_restrictions", "compensating_controls", "not_collected"}
    BY DEF Axes, ImpactAxes, ThreatAxes
  <2>2. axis \notin supplied
    BY <2>1 DEF FieldOf
  <2> HIDE DEF supplied
  <2>3. folded.not_collected = asset.not_collected \ supplied
    BY DEF Fold, Asset, supplied
  <2>4. folded[axis] = asset[axis]
    BY <2>1 DEF Fold, Asset, Axes, ImpactAxes, ThreatAxes
  <2> QED BY <2>2, <2>3, <2>4
<1> HIDE DEF folded
<1>2. \A axis \in ImpactAxes : Contribution(folded, axis) = Contribution(asset, axis)
  <2> SUFFICES ASSUME NEW axis \in ImpactAxes
               PROVE  Contribution(folded, axis) = Contribution(asset, axis)
    OBVIOUS
  <2>1. /\ folded[axis] = asset[axis]
        /\ axis \in folded.not_collected <=> axis \in asset.not_collected
    BY <1>1 DEF Axes
  <2> QED BY <2>1 DEF Contribution, AxisValue, ImpactAxes
<1>3. AxisSum(folded) = AxisSum(asset)
  BY <1>2 DEF AxisSum, ImpactAxes
<1>4. ImpactAxes \ folded.not_collected = ImpactAxes \ asset.not_collected
  BY <1>1 DEF Axes
<1>5. Composite(folded) = Composite(asset)
  BY <1>3, <1>4 DEF Composite
<1>6. Exposure(folded) = Exposure(asset)
  BY <1>1 DEF Exposure, Axes, ThreatAxes
<1> QED BY <1>5, <1>6 DEF folded

LEMMA ProductNat == \A m, n \in Nat : m * n \in Nat
OBVIOUS

LEMMA SignalScale ==
  ASSUME NEW t \in Signal
  PROVE  /\ Severity(t) \in Nat
         /\ Likelihood(t) \in Nat
         /\ AttackMultiplier(t) \in Nat
<1>1. Severity(t) \in Nat
  BY DEF Severity, SeverityBaseScore, Signal
<1>2. Likelihood(t) \in Nat
  BY DEF Likelihood, Signal
<1>3. AttackMultiplier(t) \in Nat
  BY DEF AttackMultiplier, Signal
<1> QED BY <1>1, <1>2, <1>3

LEMMA ThreatScale ==
  ASSUME NEW x, NEW t \in Signal
  PROVE  Exposure(x) \in Nat /\ ThreatShare(x, t) \in Nat
<1>1. Exposure(x) \in Nat
  BY DEF Exposure
<1>2. (Severity(t) * Exposure(x)) * Likelihood(t) \in Nat
  BY <1>1, SignalScale, ProductNat
<1>3. ((Severity(t) * Exposure(x)) * Likelihood(t)) \div 1000 \in Nat
  BY <1>2
<1>4. (((Severity(t) * Exposure(x)) * Likelihood(t)) \div 1000) * AttackMultiplier(t) \in Nat
  BY <1>3, SignalScale, ProductNat
<1>5. ThreatShare(x, t) \in Nat
  BY <1>4 DEF ThreatShare
<1> QED BY <1>1, <1>5

LEMMA ImpactScale ==
  ASSUME NEW x, Composite(x) \in Nat, NEW t \in Signal PROVE ImpactShare(x, t) \in Nat
<1>1. Decay(x.compensating_controls) \in Nat
  BY DEF Decay
<1>2. (Severity(t) * Composite(x)) * Decay(x.compensating_controls) \in Nat
  BY <1>1, SignalScale, ProductNat
<1> QED BY <1>2 DEF ImpactShare

LEMMA RiskScale ==
  ASSUME NEW x, Composite(x) \in Nat, NEW t \in Signal PROVE Risk(x, t) \in 0..1000
<1>1. ThreatShare(x, t) * ImpactShare(x, t) \in Nat
  BY ThreatScale, ImpactScale, ProductNat
<1> QED BY <1>1 DEF Risk, Smaller

LEMMA BucketScale == ASSUME NEW x, NEW t PROVE BucketFor(x, t) \in Buckets
BY DEF BucketFor, Buckets

LEMMA ScoreIsScaled ==
  ASSUME TablesOK, NEW f \in Findings, NEW t \in Signal
  PROVE  LET score == ScoreWith(f, facts[AssetOf[f]], t)
         IN  score.risk \in 0..1000 /\ score.bucket \in Buckets
<1> DEFINE a == AssetOf[f]
           folded == Folded(a, facts[a])
           score == ScoreWith(f, facts[a], t)
<1>1. a \in Assets
  BY AssetOfAssumption DEF Findings
<1>2. facts[a] \in Asset
  BY <1>1, InventoryAssumption DEF TablesOK
<1>3. Composite(folded) \in Nat
  BY <1>2, FoldKeepsAxes, CompositeScale DEF Folded
<1>4. score = [risk |-> Risk(folded, t), bucket |-> BucketFor(folded, t)]
  BY DEF ScoreWith
<1> HIDE DEF folded, score
<1>5. score.risk \in 0..1000 /\ score.bucket \in Buckets
  BY <1>3, <1>4, RiskScale, BucketScale
<1> QED BY <1>5 DEF score

LEMMA SignalsAreTyped ==
  ASSUME TablesOK, NEW f \in Findings PROVE threat[f] \in Signal
BY SignalAssumption DEF TablesOK, Findings

LEMMA ScoresAreScaled ==
  ASSUME TablesOK, NEW f \in Findings
  PROVE  Scored[f].risk \in 0..1000 /\ Scored[f].bucket \in Buckets
BY ScoreIsScaled, SignalsAreTyped DEF Scored, ScoreAs

\* What the feeds say of a finding is a signal too.
LEMMA FetchedIsSignal == ASSUME NEW t \in Signal PROVE Fetched(t) \in Signal
BY DEF Fetched, Signal

LEMMA PoolIsScaled ==
  ASSUME TablesOK, NEW f \in Findings
  PROVE  Pooled[f].risk \in 0..1000 /\ Pooled[f].bucket \in Buckets
BY ScoreIsScaled, SignalsAreTyped, FetchedIsSignal DEF Pooled

\* Types, and that every composite and every risk is on its scale.
THEOREM TypeCorrect == Spec => []TypeOK
<1>1. TablesOK => TypeOK
  <2> SUFFICES ASSUME TablesOK PROVE TypeOK
    OBVIOUS
  <2>1. \A a \in Assets : facts[a] \in Asset
    BY InventoryAssumption DEF TablesOK
  <2>2. \A a \in Assets : Composite(facts[a]) \in 0..1000
    BY <2>1, CompositeScale
  <2>3. \A f \in Findings : Scored[f].risk \in 0..1000 /\ Scored[f].bucket \in Buckets
    BY ScoresAreScaled
  <2> QED BY <2>2, <2>3 DEF TypeOK
<1> QED BY <1>1, TablesTyped, PTL

-----------------------------------------------------------------------------
(* Asset rules and group rules.                                            *)

\* Only the two group operations change the table of group constraints, and they
\* change nothing else.
LEMMA GroupStep ==
  ASSUME [Next]_vars, group' # group
  PROVE  UNCHANGED <<facts, host, threat, own>>
BY DEF Next, vars, SubmitAsset, ConfirmGroup, RetractOwn, RetractGroup, Rename, Refresh

\* A field with a constraint of the asset's own has the value of its latest one,
\* whatever the group constraints are.
LEMMA OwnWins ==
  ASSUME NEW asset \in Asset, NEW own1, NEW group1, NEW kind \in ReplaceKinds,
         OfKind(own1, kind) # {}
  PROVE  Fold(asset, own1, group1)[FieldOf[kind]] = own1[Winner(own1, kind)].value
<1>1. CASE kind = "patch_window"
  BY <1>1 DEF Fold, FieldOf, Replaced, Asset
<1>2. CASE kind = "patch_restriction"
  BY <1>2 DEF Fold, FieldOf, Replaced, Asset
<1> QED BY <1>1, <1>2 DEF ReplaceKinds

LEMMA OverrideReported ==
  ASSUME NEW own1, NEW group1, NEW kind \in ReplaceKinds,
         OfKind(own1, kind) # {}, OfKind(group1, kind) # {}
  PROVE  <<kind, Winner(own1, kind), Winner(group1, kind)>> \in Overridden(own1, group1)
BY DEF Overridden

\* The asset's own rule shields the field from every group constraint.
THEOREM AssetRulesShield == Spec => AssetRuleShields
<1>1. ASSUME TablesOK, [Next]_vars, group' # group,
             NEW a \in Assets, NEW kind \in ReplaceKinds, OfKind(OwnOf(a), kind) # {}
      PROVE  /\ FoldedAsset(a)'[FieldOf[kind]] = FoldedAsset(a)[FieldOf[kind]]
             /\ OfKind(GroupOf(facts[a]), kind)' # {} =>
                  \E rule \in OverriddenOn(a)' :
                    rule[1] = kind /\ rule[3] = Winner(GroupOf(facts[a]), kind)'
  <2>1. UNCHANGED <<facts, host, own>>
    BY <1>1, GroupStep
  <2>2. OwnOf(a)' = OwnOf(a)
    BY <2>1 DEF OwnOf, AppliesOwn
  <2>3. facts[a] \in Asset
    BY <1>1, InventoryAssumption DEF TablesOK
  <2> DEFINE after == GroupOf(facts[a])'
  <2>4. FoldedAsset(a)' = Fold(facts[a], OwnOf(a), after)
    BY <2>1, <2>2 DEF FoldedAsset, Folded
  <2>5. OverriddenOn(a)' = Overridden(OwnOf(a), after)
    BY <2>2 DEF OverriddenOn
  <2>6. FoldedAsset(a) = Fold(facts[a], OwnOf(a), GroupOf(facts[a]))
    BY DEF FoldedAsset, Folded
  <2>7. FoldedAsset(a)'[FieldOf[kind]] = FoldedAsset(a)[FieldOf[kind]]
    <3> HIDE DEF after
    <3> QED BY <1>1, <2>3, <2>4, <2>6, OwnWins
  <2>8. ASSUME OfKind(GroupOf(facts[a]), kind)' # {}
        PROVE  \E rule \in OverriddenOn(a)' :
                 rule[1] = kind /\ rule[3] = Winner(GroupOf(facts[a]), kind)'
    <3>1. OfKind(GroupOf(facts[a]), kind)' = OfKind(after, kind)
      BY DEF OfKind
    <3>2. Winner(GroupOf(facts[a]), kind)' = Winner(after, kind)
      BY <3>1 DEF Winner
    <3> HIDE DEF after
    <3>3. <<kind, Winner(OwnOf(a), kind), Winner(after, kind)>> \in OverriddenOn(a)'
      BY <1>1, <2>5, <2>8, <3>1, OverrideReported
    <3> QED BY <3>2, <3>3
  <2> QED BY <2>7, <2>8
<1>2. TablesOK /\ [Next]_vars =>
        [group' # group =>
           \A a \in Assets, kind \in ReplaceKinds :
             OfKind(OwnOf(a), kind) # {} =>
               /\ FoldedAsset(a)'[FieldOf[kind]] = FoldedAsset(a)[FieldOf[kind]]
               /\ OfKind(GroupOf(facts[a]), kind)' # {} =>
                    \E rule \in OverriddenOn(a)' :
                      rule[1] = kind /\ rule[3] = Winner(GroupOf(facts[a]), kind)']_vars
  BY <1>1
<1> QED BY <1>2, TablesTyped, PTL DEF Spec, AssetRuleShields

-----------------------------------------------------------------------------
(* Placeholders.                                                           *)

Fields == Axes \cup {"patch_window", "patch_restrictions", "compensating_controls"}

\* Two records of an asset that differ at most in one axis, which their source
\* never determined.
DifferInPlaceholder(x, y, axis) ==
  /\ axis \in Axes
  /\ axis \in x.not_collected
  /\ x.not_collected = y.not_collected
  /\ \A field \in Fields \ {axis} : x[field] = y[field]

LEMMA PlaceholderInComposite ==
  ASSUME NEW x, NEW y, NEW axis, DifferInPlaceholder(x, y, axis)
  PROVE  Composite(x) = Composite(y)
<1>1. \A a \in ImpactAxes : Contribution(x, a) = Contribution(y, a)
  <2> SUFFICES ASSUME NEW a \in ImpactAxes PROVE Contribution(x, a) = Contribution(y, a)
    OBVIOUS
  <2>1. CASE a \in x.not_collected
    BY <2>1 DEF Contribution, DifferInPlaceholder
  <2>2. CASE a \notin x.not_collected
    <3>1. x[a] = y[a] /\ a \notin y.not_collected
      BY <2>2 DEF DifferInPlaceholder, Fields, Axes
    <3> QED BY <3>1, <2>2 DEF Contribution, AxisValue, ImpactAxes
  <2> QED BY <2>1, <2>2
<1>2. AxisSum(x) = AxisSum(y)
  BY <1>1 DEF AxisSum, ImpactAxes
<1>3. x.not_collected = y.not_collected
  BY DEF DifferInPlaceholder
<1> QED BY <1>2, <1>3 DEF Composite

LEMMA PlaceholderInScore ==
  ASSUME NEW x, NEW y, NEW axis, NEW t, DifferInPlaceholder(x, y, axis)
  PROVE  Risk(x, t) = Risk(y, t) /\ BucketFor(x, t) = BucketFor(y, t)
<1>1. Exposure(x) = Exposure(y)
  <2>1. CASE axis = "internet_exposed"
    BY <2>1 DEF DifferInPlaceholder, Exposure
  <2>2. CASE axis # "internet_exposed"
    BY <2>2 DEF DifferInPlaceholder, Exposure, Fields, Axes, ThreatAxes
  <2> QED BY <2>1, <2>2
<1>2. x.patch_window = y.patch_window /\ x.compensating_controls = y.compensating_controls
  BY DEF DifferInPlaceholder, Fields, Axes, ImpactAxes, ThreatAxes
<1>3. ThreatShare(x, t) = ThreatShare(y, t)
  BY <1>1 DEF ThreatShare
<1>4. ImpactShare(x, t) = ImpactShare(y, t)
  BY <1>2, PlaceholderInComposite DEF ImpactShare
<1>5. Risk(x, t) = Risk(y, t)
  BY <1>3, <1>4 DEF Risk
<1> QED BY <1>2, <1>5 DEF BucketFor, HasPatchWindow

\* The overlay keeps the difference and does not touch the axes.
LEMMA PlaceholderInFold ==
  ASSUME NEW asset \in Asset, NEW axis \in Axes \cap asset.not_collected, NEW value,
         NEW own1, NEW group1
  PROVE  DifferInPlaceholder(Fold([asset EXCEPT ![axis] = value], own1, group1),
                             Fold(asset, own1, group1), axis)
<1> DEFINE other == [asset EXCEPT ![axis] = value]
           x == Fold(other, own1, group1)
           y == Fold(asset, own1, group1)
<1>1. axis \notin {"patch_window", "patch_restrictions", "compensating_controls", "not_collected"}
  BY DEF Axes, ImpactAxes, ThreatAxes
<1>2. /\ other.not_collected = asset.not_collected
      /\ other.patch_window = asset.patch_window
      /\ other.patch_restrictions = asset.patch_restrictions
      /\ other.compensating_controls = asset.compensating_controls
      /\ DOMAIN other = DOMAIN asset
      /\ \A field \in DOMAIN asset \ {axis} : other[field] = asset[field]
  BY <1>1 DEF Asset
<1>3. /\ x.not_collected = y.not_collected
      /\ axis \in x.not_collected
  BY <1>1, <1>2 DEF Fold, FieldOf, Asset
<1>4. \A field \in Fields \ {axis} : x[field] = y[field]
  BY <1>1, <1>2 DEF Fold, Fields, Axes, ImpactAxes, ThreatAxes, Asset, Controls
<1> QED BY <1>3, <1>4 DEF DifferInPlaceholder

\* A role that was never determined matches no group, under any placeholder.
LEMMA PlaceholderInMatch ==
  ASSUME NEW asset \in Asset, NEW axis \in Axes \cap asset.not_collected, NEW value
  PROVE  GroupOf([asset EXCEPT ![axis] = value]) = GroupOf(asset)
<1> DEFINE other == [asset EXCEPT ![axis] = value]
<1>1. other.not_collected = asset.not_collected /\ (axis # "role" => other.role = asset.role)
  BY DEF Asset, Axes, ImpactAxes, ThreatAxes
<1>2. ASSUME NEW row PROVE AppliesGroup(row, other) <=> AppliesGroup(row, asset)
  <2>1. CASE axis = "role"
    BY <1>1, <2>1 DEF AppliesGroup
  <2>2. CASE axis # "role"
    BY <1>1, <2>2 DEF AppliesGroup
  <2> QED BY <2>1, <2>2
<1> HIDE DEF other
<1>3. {i \in DOMAIN group : AppliesGroup(group[i], other)}
        = {i \in DOMAIN group : AppliesGroup(group[i], asset)}
  BY <1>2
<1>4. GroupOf(other) = GroupOf(asset)
  BY <1>3 DEF GroupOf
<1> QED BY <1>4 DEF other

\* What a source never determined moves no score and no bucket.
THEOREM PlaceholdersAreInert == Spec => []PlaceholdersMoveNothing
<1>1. TablesOK => PlaceholdersMoveNothing
  <2> SUFFICES ASSUME TablesOK, NEW f \in Findings,
                      NEW axis \in Axes \cap facts[AssetOf[f]].not_collected,
                      NEW value \in Legal[axis]
               PROVE  ScoreAs(f, [facts[AssetOf[f]] EXCEPT ![axis] = value])
                        = ScoreAs(f, facts[AssetOf[f]])
    BY DEF PlaceholdersMoveNothing
  <2> DEFINE a == AssetOf[f]
             asset == facts[a]
             other == [asset EXCEPT ![axis] = value]
  <2>1. a \in Assets
    BY AssetOfAssumption DEF Findings
  <2>2. asset \in Asset
    BY <2>1, InventoryAssumption DEF TablesOK
  <2>3. GroupOf(other) = GroupOf(asset)
    BY <2>2, PlaceholderInMatch
  <2>4. DifferInPlaceholder(Folded(a, other), Folded(a, asset), axis)
    BY <2>2, <2>3, PlaceholderInFold DEF Folded
  <2>5. /\ Risk(Folded(a, other), threat[f]) = Risk(Folded(a, asset), threat[f])
        /\ BucketFor(Folded(a, other), threat[f]) = BucketFor(Folded(a, asset), threat[f])
    BY <2>4, PlaceholderInScore
  <2> QED BY <2>5 DEF ScoreAs, ScoreWith
<1> QED BY <1>1, TablesTyped, PTL

-----------------------------------------------------------------------------
(* A listing as known exploited.                                           *)

LEMMA Monotone ==
  ASSUME NEW k \in Nat, NEW m \in Nat, NEW n \in Nat, m <= n
  PROVE  k * m <= k * n /\ m * k <= n * k
<1>1. PICK d \in Nat : n = m + d
  <2>1. n - m \in Nat /\ n = m + (n - m)
    OBVIOUS
  <2> QED BY <2>1
<1>2. k * n = k * m + k * d /\ n * k = m * k + d * k
  BY <1>1
<1>3. k * d \in Nat /\ d * k \in Nat /\ k * m \in Nat /\ m * k \in Nat
  BY ProductNat
<1> QED BY <1>2, <1>3

\* A listing changes the flag and nothing else.
LEMMA ListedSignal ==
  ASSUME NEW t \in Signal
  PROVE  LET listed == [t EXCEPT !.kev = TRUE] IN
           /\ listed \in Signal
           /\ listed.kev = TRUE
           /\ listed.source = t.source /\ listed.nvd = t.nvd /\ listed.scanner = t.scanner
           /\ listed.epss = t.epss /\ listed.prevalence = t.prevalence
<1> DEFINE listed == [t EXCEPT !.kev = TRUE]
<1>1. listed \in Signal
  <2> DEFINE Score == 0..100 \cup {None}
             Tier == DOMAIN SeverityBaseScore
             Share == 0..1000 \cup {None}
             Flag == BOOLEAN
  <2>1. Signal = [source : Score, nvd : Score, scanner : Tier, epss : Share,
                  kev : Flag, prevalence : Share]
    BY DEF Signal
  <2>2. TRUE \in Flag
    OBVIOUS
  <2> HIDE DEF Score, Tier, Share, Flag
  <2> QED BY <2>1, <2>2
<1>2. listed.kev = TRUE
  BY DEF Signal
<1>3. /\ listed.source = t.source /\ listed.nvd = t.nvd /\ listed.scanner = t.scanner
      /\ listed.epss = t.epss /\ listed.prevalence = t.prevalence
  BY DEF Signal
<1> QED BY <1>1, <1>2, <1>3, Zenon

\* The floor under the likelihood never lowers a score, and rules acceptance out.
LEMMA ListingRaises ==
  ASSUME NEW x, Composite(x) \in Nat, NEW t \in Signal, ~ t.kev
  PROVE  LET listed == [t EXCEPT !.kev = TRUE] IN
           Risk(x, listed) >= Risk(x, t) /\ BucketFor(x, listed) # "accept"
<1> DEFINE listed == [t EXCEPT !.kev = TRUE]
<1>1. /\ listed \in Signal /\ listed.kev
      /\ Severity(listed) = Severity(t)
      /\ AttackMultiplier(listed) = AttackMultiplier(t)
      /\ Likelihood(t) <= Likelihood(listed)
  <2>1. listed \in Signal /\ listed.kev
    <3>1. listed \in Signal /\ listed.kev = TRUE
      BY ListedSignal, Zenon
    <3> QED BY <3>1, Zenon
  <2>2. /\ listed.source = t.source /\ listed.nvd = t.nvd /\ listed.scanner = t.scanner
        /\ listed.epss = t.epss /\ listed.prevalence = t.prevalence
    BY ListedSignal, Zenon
  <2> HIDE DEF listed
  <2>3. Severity(listed) = Severity(t) /\ AttackMultiplier(listed) = AttackMultiplier(t)
    BY <2>2 DEF Severity, AttackMultiplier
  <2>4. Likelihood(t) <= Likelihood(listed)
    <3>1. t.epss # None => t.epss \in 0..1000
      BY DEF Signal
    <3> QED BY <2>1, <2>2, <3>1 DEF Likelihood
  <2> QED BY <2>1, <2>3, <2>4
<1> HIDE DEF listed
<1> DEFINE base == Severity(t) * Exposure(x)
           rest == AttackMultiplier(t)
<1>2. base \in Nat /\ rest \in Nat /\ Likelihood(t) \in Nat /\ Likelihood(listed) \in Nat
  BY <1>1, SignalScale, ThreatScale, ProductNat
<1>3. ThreatShare(x, t) <= ThreatShare(x, listed)
  <2> DEFINE low == base * Likelihood(t)
             high == base * Likelihood(listed)
  <2>1. low \in Nat /\ high \in Nat /\ low <= high
    BY <1>1, <1>2, ProductNat, Monotone
  <2>2. ThreatShare(x, t) = ((low \div 1000) * rest) \div 25920
    BY DEF ThreatShare
  <2>3. ThreatShare(x, listed) = ((high \div 1000) * rest) \div 25920
    BY <1>1 DEF ThreatShare
  <2> HIDE DEF low, high, base, rest
  <2>4. low \div 1000 \in Nat /\ high \div 1000 \in Nat /\ low \div 1000 <= high \div 1000
    BY <2>1
  <2>5. (low \div 1000) * rest <= (high \div 1000) * rest
    BY <1>2, <2>4, Monotone
  <2>6. (low \div 1000) * rest \in Nat /\ (high \div 1000) * rest \in Nat
    BY <1>2, <2>4, ProductNat
  <2>7. ((low \div 1000) * rest) \div 25920 <= ((high \div 1000) * rest) \div 25920
    BY <2>5, <2>6
  <2> QED BY <2>2, <2>3, <2>7
<1>4. ImpactShare(x, listed) = ImpactShare(x, t)
  BY <1>1 DEF ImpactShare
<1>5. Risk(x, listed) >= Risk(x, t)
  <2> DEFINE low == ThreatShare(x, t) * ImpactShare(x, t)
             high == ThreatShare(x, listed) * ImpactShare(x, t)
  <2>1. low \in Nat /\ high \in Nat /\ low <= high
    BY <1>1, <1>3, ThreatScale, ImpactScale, ProductNat, Monotone
  <2>2. /\ Risk(x, t) = Smaller(1000, low \div 1000)
        /\ Risk(x, listed) = Smaller(1000, high \div 1000)
    BY <1>4 DEF Risk
  <2> HIDE DEF low, high
  <2> QED BY <2>1, <2>2 DEF Smaller
<1>6. BucketFor(x, listed) # "accept"
  BY <1>1 DEF BucketFor
<1> QED BY <1>5, <1>6 DEF listed

LEMMA ThreatStep ==
  ASSUME [Next]_vars, threat' # threat PROVE UNCHANGED <<facts, host, own, group>>
BY DEF Next, vars, SubmitAsset, ConfirmGroup, RetractOwn, RetractGroup, Rename, Refresh

\* A finding whose CVE is listed as exploited does not fall and is not accepted.
THEOREM KevListingRaises == Spec => KevListingEscalates
<1>1. ASSUME TablesOK, [Next]_vars, NEW f \in Findings, ~ threat[f].kev,
             threat'[f] = [threat[f] EXCEPT !.kev = TRUE]
      PROVE  Scored'[f].risk >= Scored[f].risk /\ Scored'[f].bucket # "accept"
  <2> DEFINE a == AssetOf[f]
             folded == Folded(a, facts[a])
  <2>1. a \in Assets /\ threat[f] \in Signal
    BY <1>1, AssetOfAssumption, SignalAssumption DEF TablesOK, Findings
  <2>2. Composite(folded) \in Nat
    <3>1. facts[a] \in Asset
      BY <1>1, <2>1, InventoryAssumption DEF TablesOK
    <3>2. Composite(facts[a]) \in 0..1000 /\ Composite(folded) = Composite(facts[a])
      BY <3>1, FoldKeepsAxes, CompositeScale DEF Folded
    <3> QED BY <3>2
  <2>3. threat' # threat
    BY <1>1, <2>1 DEF Signal
  <2>4. UNCHANGED <<facts, host, own, group>>
    BY <1>1, <2>3, ThreatStep
  <2>5. Scored[f] = [risk |-> Risk(folded, threat[f]), bucket |-> BucketFor(folded, threat[f])]
    BY DEF Scored, ScoreAs, ScoreWith
  <2>6. Scored'[f] = [risk |-> Risk(folded, threat'[f]), bucket |-> BucketFor(folded, threat'[f])]
    BY <2>4 DEF Scored, ScoreAs, ScoreWith, Folded, OwnOf, AppliesOwn, GroupOf, Findings
  <2> HIDE DEF folded
  <2> QED BY <1>1, <2>1, <2>2, <2>5, <2>6, ListingRaises
<1>2. TablesOK /\ [Next]_vars =>
        [\A f \in Findings :
           /\ ~ threat[f].kev
           /\ threat'[f] = [threat[f] EXCEPT !.kev = TRUE]
           => /\ Scored'[f].risk >= Scored[f].risk
              /\ Scored'[f].bucket # "accept"]_vars
  BY <1>1
<1> QED BY <1>2, TablesTyped, PTL DEF Spec, KevListingEscalates

-----------------------------------------------------------------------------
(* Counting.                                                               *)

\* A function that tells n things apart by numbers in 1..n takes each of the numbers.
LEMMA EveryRankIsTaken ==
  ASSUME NEW C, IsFiniteSet(C), NEW r \in [C -> 1..Cardinality(C)],
         \A f, g \in C : r[f] = r[g] => f = g
  PROVE  \A k \in 1..Cardinality(C) : \E f \in C : r[f] = k
<1> SUFFICES ASSUME NEW k \in 1..Cardinality(C), \A f \in C : r[f] # k
             PROVE  FALSE
  OBVIOUS
<1> DEFINE I == 1..Cardinality(C)
<1>1. Cardinality(C) \in Nat
  BY FS_CardinalityType
<1>2. IsFiniteSet(I) /\ Cardinality(I) = Cardinality(C)
  BY <1>1, FS_Interval
<1>3. IsFiniteSet(I \ {k}) /\ Cardinality(I \ {k}) = Cardinality(C) - 1
  BY <1>2, FS_RemoveElement
<1>4. r \in [C -> I \ {k}]
  OBVIOUS
<1> HIDE DEF I
<1>5. Cardinality(I \ {k}) < Cardinality(C)
  BY <1>1, <1>3
<1>6. \E f, g \in C : f # g /\ r[f] = r[g]
  BY <1>3, <1>4, <1>5, FS_PigeonHole
<1> QED BY <1>6

\* A set of positions that is not empty has a last one.
LEMMA LatestExists ==
  ASSUME NEW N \in Nat, NEW S \in SUBSET (1..N), S # {} PROVE Max(S) \in S
<1>1. IsFiniteSet(S) /\ Cardinality(S) \in Nat /\ Cardinality(S) # 0
  <2>1. IsFiniteSet(1..N)
    BY FS_Interval
  <2> QED BY <2>1, FS_Subset, FS_CardinalityType, FS_EmptySet
<1> DEFINE UpTo(i) == {j \in S : j <= i}
           r == [i \in S |-> Cardinality(UpTo(i))]
<1>2. ASSUME NEW i \in S
      PROVE  /\ IsFiniteSet(UpTo(i)) /\ Cardinality(UpTo(i)) \in 1..Cardinality(S)
             /\ Cardinality(UpTo(i)) = Cardinality(S) => UpTo(i) = S
  <2>1. UpTo(i) \in SUBSET S /\ i \in UpTo(i)
    OBVIOUS
  <2> HIDE DEF UpTo
  <2>2. /\ IsFiniteSet(UpTo(i)) /\ Cardinality(UpTo(i)) <= Cardinality(S)
        /\ Cardinality(UpTo(i)) = Cardinality(S) => UpTo(i) = S
    BY <1>1, <2>1, FS_Subset
  <2>3. Cardinality(UpTo(i)) \in Nat /\ Cardinality(UpTo(i)) # 0
    BY <2>1, <2>2, FS_EmptySet, FS_CardinalityType
  <2> QED BY <1>1, <2>2, <2>3
<1>3. ASSUME NEW i \in S, NEW j \in S, i < j, Cardinality(UpTo(i)) = Cardinality(UpTo(j))
      PROVE  FALSE
  <2>1. ~(j <= i) /\ j <= j /\ \A k \in S : k <= i => k <= j
    BY <1>3
  <2>2. UpTo(i) \in SUBSET UpTo(j) /\ j \in UpTo(j) /\ j \notin UpTo(i)
    BY <1>3, <2>1
  <2> HIDE DEF UpTo
  <2>3. UpTo(j) = UpTo(i)
    BY <1>2, <1>3, <2>2, FS_Subset
  <2> QED BY <2>2, <2>3
<1>4. r \in [S -> 1..Cardinality(S)] /\ \A i, j \in S : r[i] = r[j] => i = j
  <2>1. \A i \in S : Cardinality(UpTo(i)) \in 1..Cardinality(S)
    BY <1>2
  <2>2. \A i, j \in S : i # j => i < j \/ j < i
    OBVIOUS
  <2> HIDE DEF UpTo
  <2> QED BY <1>3, <2>1, <2>2
<1>5. PICK i \in S : r[i] = Cardinality(S)
  <2> HIDE DEF r
  <2>1. Cardinality(S) \in 1..Cardinality(S)
    BY <1>1
  <2> QED BY <1>1, <1>4, <2>1, EveryRankIsTaken
<1>6. UpTo(i) = S
  BY <1>2, <1>5
<1>7. \A j \in S : i >= j
  BY <1>6
<1> QED BY <1>7 DEF Max

-----------------------------------------------------------------------------
(* A new constraint.                                                       *)

\* Effects by the ids of finitely many constraints.
Effects(e) ==
  /\ \E N \in Nat : DOMAIN e \subseteq 1..N
  /\ \A i \in OfKind(e, "compensating_control") : e[i].value \in Nat

\* More of them apply, and what applied still does.
Extended(e, more) ==
  /\ DOMAIN e \subseteq DOMAIN more
  /\ \A i \in DOMAIN e : more[i] = e[i]

LEMMA ExtendedKinds ==
  ASSUME NEW e, NEW more, Extended(e, more), NEW kind
  PROVE  /\ OfKind(e, kind) \subseteq OfKind(more, kind)
         /\ \A i \in OfKind(e, kind) : more[i] = e[i]
BY DEF Extended, OfKind

\* The constraint that wins is one of its kind.
LEMMA WinnerIsOne ==
  ASSUME NEW e, Effects(e), NEW kind, OfKind(e, kind) # {}
  PROVE  Winner(e, kind) \in OfKind(e, kind)
<1>1. PICK N \in Nat : DOMAIN e \subseteq 1..N
  BY DEF Effects
<1>2. OfKind(e, kind) \in SUBSET (1..N)
  BY <1>1 DEF OfKind
<1> QED BY <1>2, LatestExists DEF Winner

LEMMA AddedIsFinite ==
  ASSUME NEW e, Effects(e)
  PROVE  IsFiniteSet(UNION {Entries(e, i) : i \in OfKind(e, "compensating_control")})
<1> DEFINE K == OfKind(e, "compensating_control")
           F == {Entries(e, i) : i \in K}
           g == [i \in K |-> Entries(e, i)]
<1>1. IsFiniteSet(K)
  <2>1. PICK N \in Nat : DOMAIN e \subseteq 1..N
    BY DEF Effects
  <2>2. IsFiniteSet(1..N) /\ K \subseteq 1..N
    BY <2>1, FS_Interval DEF OfKind
  <2> QED BY <2>2, FS_Subset
<1>2. g \in Surjection(K, F)
  BY DEF Surjection
<1>3. IsFiniteSet(F)
  <2> HIDE DEF K, F, g
  <2> QED BY <1>1, <1>2, FS_Surjection
<1>4. ASSUME NEW i \in K PROVE IsFiniteSet(Entries(e, i))
  <2>1. e[i].value \in Nat
    BY DEF Effects
  <2>2. IsFiniteSet({i})
    BY FS_Singleton, Zenon
  <2>3. \A n \in Nat : IsFiniteSet(1..n)
    BY FS_Interval
  <2> QED BY <2>1, <2>2, <2>3, FS_Product DEF Entries
<1> QED BY <1>3, <1>4, FS_UNION

\* Controls add up.
LEMMA AddedGrows ==
  ASSUME NEW e, NEW more, Effects(e), Effects(more), Extended(e, more)
  PROVE  Added(e) \in Nat /\ Added(more) \in Nat /\ Added(e) <= Added(more)
<1> DEFINE K == OfKind(e, "compensating_control")
           L == OfKind(more, "compensating_control")
           E == UNION {Entries(e, i) : i \in K}
           M == UNION {Entries(more, i) : i \in L}
<1>1. IsFiniteSet(E) /\ IsFiniteSet(M)
  BY AddedIsFinite
<1>2. E \subseteq M
  <2>1. K \subseteq L /\ \A i \in K : Entries(more, i) = Entries(e, i)
    BY ExtendedKinds DEF Entries
  <2> HIDE DEF K, L
  <2> QED BY <2>1
<1>3. Added(e) = Cardinality(E) /\ Added(more) = Cardinality(M)
  BY DEF Added
<1> HIDE DEF E, M
<1> QED BY <1>1, <1>2, <1>3, FS_Subset, FS_CardinalityType

\* The overlay with more constraints: at least as many controls, the axes as they were,
\* and no window lost, unless it is replaced by a blank one.
LEMMA FoldGrows ==
  ASSUME NEW asset \in Asset, NEW o1, NEW g1, NEW o2, NEW g2,
         Effects(o1), Effects(g1), Effects(o2), Effects(g2),
         Extended(o1, o2), Extended(g1, g2)
  PROVE  LET before == Fold(asset, o1, g1)
             after == Fold(asset, o2, g2)
         IN  /\ before.compensating_controls \in Nat /\ after.compensating_controls \in Nat
             /\ before.compensating_controls <= after.compensating_controls
             /\ Composite(after) = Composite(before) /\ Exposure(after) = Exposure(before)
             /\ HasPatchWindow(before) =>
                  HasPatchWindow(after) \/ BlankWindow(o2) \/ BlankWindow(g2)
<1> DEFINE before == Fold(asset, o1, g1)
           after == Fold(asset, o2, g2)
<1>1. /\ before.compensating_controls = Controls(asset, o1, g1)
      /\ after.compensating_controls = Controls(asset, o2, g2)
      /\ before.patch_window = Replaced(asset.patch_window, o1, g1, "patch_window")
      /\ after.patch_window = Replaced(asset.patch_window, o2, g2, "patch_window")
  BY DEF Fold, Asset
<1>2. Composite(after) = Composite(before) /\ Exposure(after) = Exposure(before)
  BY FoldKeepsAxes
<1> HIDE DEF before, after
<1>3. /\ before.compensating_controls \in Nat /\ after.compensating_controls \in Nat
      /\ before.compensating_controls <= after.compensating_controls
  <2>1. asset.compensating_controls \in Nat
    BY DEF Asset
  <2>2. Added(o1) \in Nat /\ Added(o2) \in Nat /\ Added(o1) <= Added(o2)
    BY AddedGrows
  <2>3. Added(g1) \in Nat /\ Added(g2) \in Nat /\ Added(g1) <= Added(g2)
    BY AddedGrows
  <2> QED BY <1>1, <2>1, <2>2, <2>3 DEF Controls
<1>4. ASSUME HasPatchWindow(before), ~ BlankWindow(o2), ~ BlankWindow(g2)
      PROVE  HasPatchWindow(after)
  <2> DEFINE kind == "patch_window"
  <2>1. CASE OfKind(o2, kind) # {}
    <3>1. after.patch_window = o2[Winner(o2, kind)].value
      BY <1>1, <2>1 DEF Replaced
    <3>2. Winner(o2, kind) \in OfKind(o2, kind)
      BY <2>1, WinnerIsOne
    <3> QED BY <1>4, <3>1, <3>2 DEF BlankWindow, HasPatchWindow
  <2>2. CASE OfKind(o2, kind) = {} /\ OfKind(g2, kind) # {}
    <3>1. after.patch_window = g2[Winner(g2, kind)].value
      BY <1>1, <2>2 DEF Replaced
    <3>2. Winner(g2, kind) \in OfKind(g2, kind)
      BY <2>2, WinnerIsOne
    <3> QED BY <1>4, <3>1, <3>2 DEF BlankWindow, HasPatchWindow
  <2>3. CASE OfKind(o2, kind) = {} /\ OfKind(g2, kind) = {}
    <3>1. OfKind(o1, kind) = {} /\ OfKind(g1, kind) = {}
      BY <2>3, ExtendedKinds
    <3>2. after.patch_window = before.patch_window
      BY <1>1, <2>3, <3>1 DEF Replaced
    <3> QED BY <1>4, <3>2 DEF HasPatchWindow
  <2> QED BY <2>1, <2>2, <2>3
<1> QED BY <1>2, <1>3, <1>4 DEF before, after

\* More controls never raise a risk; without a control before and after it is the same.
LEMMA ControlsLowerRisk ==
  ASSUME NEW x, NEW y, Composite(x) \in Nat,
         Composite(y) = Composite(x), Exposure(y) = Exposure(x),
         x.compensating_controls \in Nat, y.compensating_controls \in Nat,
         x.compensating_controls <= y.compensating_controls,
         NEW t \in Signal
  PROVE  /\ Risk(y, t) <= Risk(x, t)
         /\ y.compensating_controls = 0 => Risk(y, t) = Risk(x, t)
<1> DEFINE fewer == x.compensating_controls
           more == y.compensating_controls
<1>1. /\ Decay(fewer) \in Nat /\ Decay(more) \in Nat /\ Decay(more) <= Decay(fewer)
      /\ more = 0 => Decay(more) = Decay(fewer)
  <2>1. more = 0 => fewer = 0
    OBVIOUS
  <2>2. Decay(fewer) \in Nat /\ Decay(more) \in Nat
    BY DEF Decay
  <2>3. Decay(more) <= Decay(fewer)
    <3> HIDE DEF fewer, more
    <3>1. fewer \in Nat /\ more \in Nat /\ fewer <= more
      BY DEF fewer, more
    <3> QED BY <3>1 DEF Decay
  <2> QED BY <2>1, <2>2, <2>3
<1>2. ThreatShare(y, t) = ThreatShare(x, t)
  BY DEF ThreatShare
<1> DEFINE base == Severity(t) * Composite(x)
<1>3. base \in Nat
  BY SignalScale, ProductNat
<1>4. /\ ImpactShare(x, t) = (base * Decay(fewer)) \div 100000
      /\ ImpactShare(y, t) = (base * Decay(more)) \div 100000
  BY DEF ImpactShare
<1>5. ImpactShare(x, t) \in Nat /\ ImpactShare(y, t) \in Nat
  BY ImpactScale
<1>6. ImpactShare(y, t) <= ImpactShare(x, t)
  <2> DEFINE low == base * Decay(more)
             high == base * Decay(fewer)
  <2> HIDE DEF base, fewer, more
  <2>1. low \in Nat /\ high \in Nat /\ low <= high
    BY <1>1, <1>3, ProductNat, Monotone
  <2>2. ImpactShare(x, t) = high \div 100000 /\ ImpactShare(y, t) = low \div 100000
    BY <1>4
  <2> HIDE DEF low, high
  <2> QED BY <2>1, <2>2
<1>7. Risk(y, t) <= Risk(x, t)
  <2> DEFINE low == ThreatShare(x, t) * ImpactShare(y, t)
             high == ThreatShare(x, t) * ImpactShare(x, t)
  <2>1. low \in Nat /\ high \in Nat /\ low <= high
    BY <1>5, <1>6, ThreatScale, ProductNat, Monotone
  <2>2. /\ Risk(x, t) = Smaller(1000, high \div 1000)
        /\ Risk(y, t) = Smaller(1000, low \div 1000)
    BY <1>2 DEF Risk
  <2> HIDE DEF low, high
  <2> QED BY <2>1, <2>2 DEF Smaller
<1>8. more = 0 => Risk(y, t) = Risk(x, t)
  BY <1>1, <1>2, <1>4 DEF Risk
<1> QED BY <1>7, <1>8

\* So a finding gets no worse.
LEMMA MoreConstraintsHelp ==
  ASSUME NEW asset \in Asset, NEW o1, NEW g1, NEW o2, NEW g2,
         Effects(o1), Effects(g1), Effects(o2), Effects(g2),
         Extended(o1, o2), Extended(g1, g2), NEW t \in Signal
  PROVE  LET before == Fold(asset, o1, g1)
             after == Fold(asset, o2, g2)
         IN  /\ Risk(after, t) <= Risk(before, t)
             /\ BucketFor(after, t) = "contested" =>
                  BucketFor(before, t) = "contested" \/ BlankWindow(o2) \/ BlankWindow(g2)
<1> DEFINE before == Fold(asset, o1, g1)
           after == Fold(asset, o2, g2)
<1>1. /\ before.compensating_controls \in Nat /\ after.compensating_controls \in Nat
      /\ before.compensating_controls <= after.compensating_controls
      /\ Composite(after) = Composite(before) /\ Exposure(after) = Exposure(before)
      /\ HasPatchWindow(before) => HasPatchWindow(after) \/ BlankWindow(o2) \/ BlankWindow(g2)
  BY FoldGrows
<1>2. Composite(before) \in Nat
  <2>1. Composite(asset) \in 0..1000 /\ Composite(before) = Composite(asset)
    BY CompositeScale, FoldKeepsAxes
  <2> QED BY <2>1
<1> HIDE DEF before, after
<1>3. /\ Risk(after, t) <= Risk(before, t)
      /\ after.compensating_controls = 0 => Risk(after, t) = Risk(before, t)
  BY <1>1, <1>2, ControlsLowerRisk
<1>4. ASSUME BucketFor(after, t) = "contested", ~ BlankWindow(o2), ~ BlankWindow(g2)
      PROVE  BucketFor(before, t) = "contested"
  <2>1. /\ ~ (Risk(after, t) >= PatchNowThreshold)
        /\ ~ (Risk(after, t) < ActionableThreshold /\ ~ t.kev)
        /\ ~ HasPatchWindow(after)
        /\ ~ (after.compensating_controls > 0)
        /\ t.kev
    BY <1>4 DEF BucketFor
  <2>2. after.compensating_controls = 0 /\ before.compensating_controls = 0
    BY <1>1, <2>1
  <2>3. ~ HasPatchWindow(before)
    BY <1>1, <1>4, <2>1
  <2> QED BY <1>3, <2>1, <2>2, <2>3 DEF BucketFor
<1> QED BY <1>3, <1>4 DEF before, after

\* The tables grow at their end, and nothing else changes when they do.
LEMMA GrowingStep ==
  ASSUME TablesOK, [Next]_vars, Len(own') + Len(group') > Len(own) + Len(group)
  PROVE  /\ UNCHANGED <<facts, host, threat>>
         /\ DOMAIN own \subseteq DOMAIN own' /\ \A i \in DOMAIN own : own'[i] = own[i]
         /\ DOMAIN group \subseteq DOMAIN group' /\ \A i \in DOMAIN group : group'[i] = group[i]
<1>1. own \in Seq(OwnRow) /\ group \in Seq(GroupRow)
  BY DEF TablesOK
<1>2. ASSUME Len(own') = Len(own), Len(group') = Len(group) PROVE FALSE
  BY <1>1, <1>2
<1>3. CASE UNCHANGED vars
  BY <1>2, <1>3 DEF vars
<1>4. CASE \E a \in Assets, effect \in OwnEffects : SubmitAsset(a, effect)
  <2>1. PICK a \in Assets, effect \in OwnEffects : SubmitAsset(a, effect)
    BY <1>4
  <2> DEFINE row == [asset |-> a, host |-> host[a], effect |-> effect, active |-> TRUE]
  <2>2. own' = Append(own, row) /\ UNCHANGED <<facts, host, threat, group>>
    BY <2>1 DEF SubmitAsset
  <2> HIDE DEF row
  <2>3. DOMAIN own \subseteq DOMAIN own' /\ \A i \in DOMAIN own : own'[i] = own[i]
    BY <1>1, <2>2
  <2> QED BY <2>2, <2>3
<1>5. CASE \E role \in {facts[a].role : a \in Assets}, effect \in GroupEffects :
             ConfirmGroup(role, effect)
  <2>1. PICK role \in {facts[a].role : a \in Assets}, effect \in GroupEffects :
               ConfirmGroup(role, effect)
    BY <1>5
  <2> DEFINE row == [role |-> role, effect |-> effect, active |-> TRUE]
  <2>2. group' = Append(group, row) /\ UNCHANGED <<facts, host, threat, own>>
    BY <2>1 DEF ConfirmGroup
  <2> HIDE DEF row
  <2>3. DOMAIN group \subseteq DOMAIN group' /\ \A i \in DOMAIN group : group'[i] = group[i]
    BY <1>1, <2>2
  <2> QED BY <2>2, <2>3
<1>6. ASSUME NEW i \in DOMAIN own, RetractOwn(i) PROVE FALSE
  <2>1. own' = [own EXCEPT ![i].active = FALSE] /\ group' = group
    BY <1>6 DEF RetractOwn
  <2>2. Len(own') = Len(own)
    BY <1>1, <2>1
  <2> QED BY <1>2, <2>1, <2>2
<1>7. ASSUME NEW i \in DOMAIN group, RetractGroup(i) PROVE FALSE
  <2>1. group' = [group EXCEPT ![i].active = FALSE] /\ own' = own
    BY <1>7 DEF RetractGroup
  <2>2. Len(group') = Len(group)
    BY <1>1, <2>1
  <2> QED BY <1>2, <2>1, <2>2
<1>8. ASSUME NEW a \in Assets, NEW h \in HostsOf[a], Rename(a, h) PROVE FALSE
  BY <1>2, <1>8 DEF Rename
<1>9. ASSUME NEW f \in Findings, NEW signal \in SignalsOf[f], Refresh(f, signal) PROVE FALSE
  BY <1>2, <1>9 DEF Refresh
<1> QED BY <1>3, <1>4, <1>5, <1>6, <1>7, <1>8, <1>9 DEF Next

\* What applies to an asset is finitely many effects.
LEMMA MatchedEffects ==
  ASSUME TablesOK, NEW a \in Assets
  PROVE  Effects(OwnOf(a)) /\ Effects(GroupOf(facts[a]))
<1>1. Len(own) \in Nat /\ DOMAIN own = 1..Len(own) /\ \A i \in DOMAIN own : own[i] \in OwnRow
  BY DEF TablesOK
<1>2. Len(group) \in Nat /\ DOMAIN group = 1..Len(group) /\ \A i \in DOMAIN group : group[i] \in GroupRow
  BY DEF TablesOK
<1>3. DOMAIN OwnOf(a) \subseteq 1..Len(own) /\ \A i \in DOMAIN OwnOf(a) : OwnOf(a)[i] \in OwnEffects
  BY <1>1 DEF OwnOf, OwnRow
<1>4. /\ DOMAIN GroupOf(facts[a]) \subseteq 1..Len(group)
      /\ \A i \in DOMAIN GroupOf(facts[a]) : GroupOf(facts[a])[i] \in GroupEffects
  BY <1>2 DEF GroupOf, GroupRow
<1>5. Effects(OwnOf(a))
  <2> DEFINE e == OwnOf(a)
  <2> HIDE DEF e
  <2>1. DOMAIN e \subseteq 1..Len(own) /\ \A i \in DOMAIN e : e[i] \in OwnEffects
    BY <1>3 DEF e
  <2>2. Effects(e)
    BY <1>1, <2>1, EffectAssumption DEF Effects, OfKind
  <2> QED BY <2>2 DEF e
<1>6. Effects(GroupOf(facts[a]))
  <2> DEFINE e == GroupOf(facts[a])
  <2> HIDE DEF e
  <2>1. DOMAIN e \subseteq 1..Len(group) /\ \A i \in DOMAIN e : e[i] \in GroupEffects
    BY <1>4 DEF e
  <2>2. Effects(e)
    BY <1>2, <2>1, EffectAssumption DEF Effects, OfKind
  <2> QED BY <2>2 DEF e
<1> QED BY <1>5, <1>6

\* A new constraint never makes a finding worse, except that one which sets a blank
\* window hides the window it replaces.
THEOREM NewConstraintsOnlyHelp == Spec => ConstraintsOnlyHelp
<1> DEFINE Matched == \A a \in Assets : Effects(OwnOf(a)) /\ Effects(GroupOf(facts[a]))
<1>1. TablesOK => Matched
  BY MatchedEffects
<1>2. TablesOK' => Matched'
  BY <1>1, PTL
<1>3. ASSUME TablesOK, [Next]_vars, Len(own') + Len(group') > Len(own) + Len(group),
             NEW f \in Findings
      PROVE  /\ Scored'[f].risk <= Scored[f].risk
             /\ Scored'[f].bucket = "contested" =>
                  Scored[f].bucket = "contested" \/ HasBlankWindow(AssetOf[f])'
  <2> DEFINE a == AssetOf[f]
             t == threat[f]
             o1 == OwnOf(a)
             g1 == GroupOf(facts[a])
             o2 == OwnOf(a)'
             g2 == GroupOf(facts[a])'
  <2>1. a \in Assets /\ t \in Signal
    BY <1>3, AssetOfAssumption, SignalAssumption DEF TablesOK, Findings
  <2>2. facts[a] \in Asset
    BY <1>3, <2>1, InventoryAssumption DEF TablesOK
  <2>3. /\ UNCHANGED <<facts, host, threat>>
        /\ DOMAIN own \subseteq DOMAIN own' /\ \A i \in DOMAIN own : own'[i] = own[i]
        /\ DOMAIN group \subseteq DOMAIN group' /\ \A i \in DOMAIN group : group'[i] = group[i]
    BY <1>3, GrowingStep
  <2>4. Effects(o1) /\ Effects(g1)
    BY <1>3, <2>1, MatchedEffects
  <2>5. Effects(o2) /\ Effects(g2)
    <3>1. Matched'
      BY <1>3, <1>2, TablesKept
    <3> QED BY <2>1, <3>1 DEF Effects, OfKind
  <2>6. Extended(o1, o2)
    BY <2>3 DEF Extended, OwnOf, AppliesOwn
  <2>7. Extended(g1, g2)
    BY <2>3 DEF Extended, GroupOf, AppliesGroup
  <2>8. /\ Scored[f].risk = Risk(Fold(facts[a], o1, g1), t)
        /\ Scored[f].bucket = BucketFor(Fold(facts[a], o1, g1), t)
    BY DEF Scored, ScoreAs, ScoreWith, Folded
  <2>9. /\ Scored'[f].risk = Risk(Fold(facts[a], o2, g2), t)
        /\ Scored'[f].bucket = BucketFor(Fold(facts[a], o2, g2), t)
    BY <2>3 DEF Scored, ScoreAs, ScoreWith, Folded, Findings
  <2>10. HasBlankWindow(AssetOf[f])' <=> BlankWindow(o2) \/ BlankWindow(g2)
    BY DEF HasBlankWindow, BlankWindow, OfKind
  <2> HIDE DEF o1, g1, o2, g2, a, t
  <2> QED BY <2>1, <2>2, <2>4, <2>5, <2>6, <2>7, <2>8, <2>9, <2>10, MoreConstraintsHelp
<1>4. TablesOK /\ [Next]_vars =>
        [Len(own') + Len(group') > Len(own) + Len(group) =>
           \A f \in Findings :
             /\ Scored'[f].risk <= Scored[f].risk
             /\ Scored'[f].bucket = "contested" =>
                  Scored[f].bucket = "contested" \/ HasBlankWindow(AssetOf[f])']_vars
  BY <1>3
<1> QED BY <1>4, TablesTyped, PTL DEF Spec, ConstraintsOnlyHelp

-----------------------------------------------------------------------------
(* The capacity limit.                                                     *)

\* Risks are natural numbers, so that findings are totally ordered.
LEMMA OutranksIsTotal ==
  ASSUME NEW scored, NEW f \in Nat, NEW g \in Nat, f # g,
         scored[f].risk \in Nat, scored[g].risk \in Nat, ~ Outranks(scored, f, g)
  PROVE  Outranks(scored, g, f)
BY DEF Outranks

\* Who outranks another has the smaller rank.
LEMMA RankFollowsOrder ==
  ASSUME NEW scored, IsFiniteSet(DOMAIN scored), DOMAIN scored \subseteq Nat,
         \A f \in DOMAIN scored : scored[f].risk \in Nat,
         NEW f \in Candidates(scored), NEW g \in Candidates(scored), Outranks(scored, g, f)
  PROVE  RankOf(scored, g) < RankOf(scored, f)
<1> DEFINE above(h) == {k \in Candidates(scored) : Outranks(scored, k, h)}
<1>1. IsFiniteSet(Candidates(scored))
  BY FS_Subset DEF Candidates
<1>2. IsFiniteSet(above(f)) /\ IsFiniteSet(above(g))
  BY <1>1, FS_Subset
<1>3. above(g) \subseteq above(f) /\ g \in above(f) /\ g \notin above(g)
  BY DEF Outranks, Candidates
<1>4. Cardinality(above(g)) \in Nat /\ Cardinality(above(f)) \in Nat
  BY <1>2, FS_CardinalityType
<1>5. Cardinality(above(g)) < Cardinality(above(f))
  <2> HIDE DEF above
  <2>1. above(g) # above(f) /\ above(g) \in SUBSET above(f)
    BY <1>3
  <2>2. /\ Cardinality(above(g)) <= Cardinality(above(f))
        /\ Cardinality(above(f)) = Cardinality(above(g)) => above(f) = above(g)
    BY <1>2, <2>1, FS_Subset
  <2> QED BY <1>4, <2>1, <2>2
<1> QED BY <1>4, <1>5 DEF RankOf

LEMMA RankIsNat ==
  ASSUME NEW scored, IsFiniteSet(DOMAIN scored), NEW f PROVE RankOf(scored, f) \in Nat
<1> DEFINE above == {k \in Candidates(scored) : Outranks(scored, k, f)}
<1>1. IsFiniteSet(above)
  BY FS_Subset DEF Candidates
<1> QED BY <1>1, FS_CardinalityType DEF RankOf

\* What is ranked: finitely many findings, each with a risk and a bucket.
LEMMA PoolIsRanked ==
  ASSUME TablesOK
  PROVE  /\ DOMAIN Pooled = Findings /\ Findings \subseteq Nat /\ IsFiniteSet(Findings)
         /\ \A f \in Findings : Pooled[f].risk \in Nat /\ Pooled[f].bucket \in Buckets
<1>1. DOMAIN Pooled = Findings
  BY DEF Pooled
<1>2. Findings = 1..Len(AssetOf) /\ Len(AssetOf) \in Nat
  BY AssetOfAssumption DEF Findings
<1>3. IsFiniteSet(1..Len(AssetOf))
  BY <1>2, FS_Interval
<1>4. 1..Len(AssetOf) \subseteq Nat
  BY <1>2
<1>5. ASSUME NEW f \in Findings PROVE Pooled[f].risk \in Nat /\ Pooled[f].bucket \in Buckets
  <2>1. Pooled[f].risk \in 0..1000
    BY PoolIsScaled
  <2>2. Pooled[f].bucket \in Buckets
    BY PoolIsScaled
  <2>3. \A n \in 0..1000 : n \in Nat
    OBVIOUS
  <2> QED BY <2>1, <2>2, <2>3, Zenon
<1> QED BY <1>1, <1>2, <1>3, <1>4, <1>5

\* A limit keeps the findings at the top of the ranking and touches no others.
THEOREM CapacityKeepsTheTopRanked == Spec => []CapacityKeepsTheTop
<1>1. TablesOK => CapacityKeepsTheTop
  <2> SUFFICES ASSUME TablesOK, NEW limit \in 0..Len(AssetOf)
               PROVE  /\ Kept(limit) \cup Deferred(limit) = Candidates(Pooled)
                      /\ \A f \in Kept(limit), g \in Deferred(limit) : Outranks(Pooled, f, g)
                      /\ \A f \in Findings \ Candidates(Pooled) :
                            EffectiveBucket(Pooled, limit, f) = Pooled[f].bucket
    BY DEF CapacityKeepsTheTop
  <2>1. /\ DOMAIN Pooled = Findings
        /\ Findings \subseteq Nat
        /\ IsFiniteSet(Findings)
    BY PoolIsRanked
  <2>2. \A f \in Findings : Pooled[f].risk \in Nat /\ Pooled[f].bucket \in Buckets
    BY PoolIsRanked
  <2>3. \A f \in Findings \ Candidates(Pooled) :
          /\ EffectiveBucket(Pooled, limit, f) = Pooled[f].bucket
          /\ EffectiveBucket(Pooled, limit, f) # "deferred_capacity"
    BY <2>2 DEF EffectiveBucket, Buckets
  <2>4. \A f \in Candidates(Pooled) :
          /\ f \in Findings
          /\ f \in Kept(limit) <=> Fits(RankOf(Pooled, f), limit)
          /\ f \in Deferred(limit) <=> ~ Fits(RankOf(Pooled, f), limit)
    BY <2>1 DEF Kept, Deferred, EffectiveBucket, Candidates
  <2>5. Kept(limit) \subseteq Candidates(Pooled) /\ Deferred(limit) \subseteq Candidates(Pooled)
    BY <2>3 DEF Kept, Deferred
  <2>6. ASSUME NEW f \in Kept(limit), NEW g \in Deferred(limit) PROVE Outranks(Pooled, f, g)
    <3>1. f \in Candidates(Pooled) /\ g \in Candidates(Pooled) /\ f # g
      BY <2>4, <2>5
    <3>2. RankOf(Pooled, f) <= limit /\ ~ (RankOf(Pooled, g) <= limit)
      BY <2>4, <3>1 DEF Fits
    <3>3. SUFFICES ASSUME Outranks(Pooled, g, f) PROVE FALSE
      BY <2>1, <2>2, <2>4, <3>1, OutranksIsTotal
    <3>4. RankOf(Pooled, g) < RankOf(Pooled, f)
      BY <2>1, <2>2, <3>1, <3>3, RankFollowsOrder
    <3>5. RankOf(Pooled, f) \in Nat /\ RankOf(Pooled, g) \in Nat
      BY <2>1, RankIsNat
    <3> QED BY <3>2, <3>4, <3>5
  <2> QED BY <2>3, <2>4, <2>5, <2>6
<1> QED BY <1>1, TablesTyped, PTL

\* The first `limit` ranks are held by `limit` things, or by all there are.
LEMMA TopIsCounted ==
  ASSUME NEW C, IsFiniteSet(C), NEW r \in [C -> 1..Cardinality(C)],
         \A f, g \in C : r[f] = r[g] => f = g,
         NEW limit \in Nat
  PROVE  Cardinality({f \in C : r[f] <= limit}) = Smaller(limit, Cardinality(C))
<1> DEFINE n == Cardinality(C)
           Top == {f \in C : r[f] <= limit}
<1>1. n \in Nat
  BY FS_CardinalityType
<1>2. CASE n <= limit
  <2>1. Top = C
    BY <1>1, <1>2
  <2> QED BY <1>1, <1>2, <2>1 DEF Smaller
<1>3. CASE ~ (n <= limit)
  <2>1. IsFiniteSet(Top) /\ Cardinality(Top) \in Nat
    BY FS_Subset, FS_CardinalityType
  <2>2. IsFiniteSet(1..limit) /\ Cardinality(1..limit) = limit
    BY FS_Interval
  <2>3. ASSUME Cardinality(Top) < limit PROVE FALSE
    <3> DEFINE at == [k \in 1..limit |-> CHOOSE f \in C : r[f] = k]
    <3>1. ASSUME NEW k \in 1..limit PROVE at[k] \in C /\ r[at[k]] = k
      <4>1. \E f \in C : r[f] = k
        BY <1>1, <1>3, EveryRankIsTaken
      <4> QED BY <4>1
    <3>2. at \in [1..limit -> Top]
      BY <3>1
    <3> HIDE DEF at, Top
    <3>3. \E k, l \in 1..limit : k # l /\ at[k] = at[l]
      BY <2>1, <2>2, <2>3, <3>2, FS_PigeonHole
    <3> QED BY <3>1, <3>3
  <2>4. ASSUME limit < Cardinality(Top) PROVE FALSE
    <3> DEFINE of == [f \in Top |-> r[f]]
    <3>1. of \in [Top -> 1..limit] /\ \A f, g \in Top : of[f] = of[g] => f = g
      OBVIOUS
    <3> HIDE DEF of, Top
    <3>2. \E f, g \in Top : f # g /\ of[f] = of[g]
      BY <2>1, <2>2, <2>4, <3>1, FS_PigeonHole
    <3> QED BY <3>1, <3>2
  <2>5. Cardinality(Top) = limit
    <3> HIDE DEF Top
    <3> QED BY <2>1, <2>3, <2>4
  <2> QED BY <1>1, <1>3, <2>5 DEF Smaller
<1> QED BY <1>2, <1>3

\* The ranks of n findings that compete are numbers in 1..n, no two of them equal.
LEMMA RanksAreDistinct ==
  ASSUME NEW scored, IsFiniteSet(DOMAIN scored), DOMAIN scored \subseteq Nat,
         \A f \in DOMAIN scored : scored[f].risk \in Nat
  PROVE  /\ IsFiniteSet(Candidates(scored))
         /\ \A f \in Candidates(scored) : RankOf(scored, f) \in 1..Cardinality(Candidates(scored))
         /\ \A f, g \in Candidates(scored) : RankOf(scored, f) = RankOf(scored, g) => f = g
<1> DEFINE C == Candidates(scored)
<1>1. IsFiniteSet(C) /\ Cardinality(C) \in Nat
  BY FS_Subset, FS_CardinalityType DEF Candidates
<1>2. ASSUME NEW f \in C PROVE RankOf(scored, f) \in 1..Cardinality(C)
  <2> DEFINE above == {k \in C : Outranks(scored, k, f)}
  <2>1. scored[f].risk \in Nat /\ f \in Nat
    BY DEF Candidates
  <2>2. f \notin above
    BY <2>1 DEF Outranks
  <2>3. above \in SUBSET C /\ above # C
    BY <2>2
  <2>4. RankOf(scored, f) = 1 + Cardinality(above)
    BY DEF RankOf
  <2> HIDE DEF above, C
  <2>5. /\ IsFiniteSet(above) /\ Cardinality(above) <= Cardinality(C)
        /\ Cardinality(above) # Cardinality(C)
    BY <1>1, <2>3, FS_Subset
  <2>6. Cardinality(above) \in Nat
    BY <2>5, FS_CardinalityType
  <2> QED BY <1>1, <2>4, <2>5, <2>6
<1>3. ASSUME NEW f \in C, NEW g \in C, RankOf(scored, f) = RankOf(scored, g), f # g
      PROVE  FALSE
  <2>1. f \in Nat /\ g \in Nat /\ scored[f].risk \in Nat /\ scored[g].risk \in Nat
    BY DEF Candidates
  <2>2. Outranks(scored, f, g) \/ Outranks(scored, g, f)
    BY <1>3, <2>1, OutranksIsTotal
  <2>3. RankOf(scored, f) < RankOf(scored, g) \/ RankOf(scored, g) < RankOf(scored, f)
    BY <2>2, RankFollowsOrder
  <2>4. RankOf(scored, f) \in Nat
    BY RankIsNat
  <2> QED BY <1>3, <2>3, <2>4
<1> QED BY <1>1, <1>2, <1>3

\* A limit is spent on the findings that rank highest, to the last slot: what it
\* keeps outranks what it defers, and it keeps as many as it has slots for.
THEOREM CapacitySpentFromTheTop == Spec => []CapacityIsSpentFromTheTop
<1>1. TablesOK => CapacityIsUsedUp
  <2> SUFFICES ASSUME TablesOK, NEW limit \in 0..Len(AssetOf)
               PROVE  Cardinality(Kept(limit)) = Smaller(limit, Cardinality(Candidates(Pooled)))
    BY DEF CapacityIsUsedUp
  <2> DEFINE C == Candidates(Pooled)
             r == [f \in C |-> RankOf(Pooled, f)]
  <2>1. /\ IsFiniteSet(C)
        /\ \A f \in C : RankOf(Pooled, f) \in 1..Cardinality(C)
        /\ \A f, g \in C : RankOf(Pooled, f) = RankOf(Pooled, g) => f = g
    BY PoolIsRanked, RanksAreDistinct
  <2>2. Kept(limit) = {f \in C : r[f] <= limit}
    <3>1. ASSUME NEW f \in C PROVE EffectiveBucket(Pooled, limit, f) = "next_window" <=> r[f] <= limit
      BY DEF EffectiveBucket, Fits, Candidates
    <3> QED BY <3>1 DEF Kept
  <2>3. r \in [C -> 1..Cardinality(C)] /\ \A f, g \in C : r[f] = r[g] => f = g
    BY <2>1
  <2>4. limit \in Nat
    BY AssetOfAssumption
  <2> HIDE DEF C, r
  <2>5. Cardinality({f \in C : r[f] <= limit}) = Smaller(limit, Cardinality(C))
    BY <2>1, <2>3, <2>4, TopIsCounted
  <2> QED BY <2>2, <2>5 DEF C
<1>2. Spec => []CapacityIsUsedUp
  BY <1>1, TablesTyped, PTL
<1> QED BY <1>2, CapacityKeepsTheTopRanked, PTL DEF CapacityIsSpentFromTheTop
=============================================================================
