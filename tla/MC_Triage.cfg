CONSTANTS
  a1 = a1
  a2 = a2
  Assets = {a1, a2}
  AssetOf <- MCAssetOf
  h1 = h1
  h2 = h2
  HostsOf <- MCHostsOf
  Inventories <- MCInventories
  SignalsOf <- MCSignalsOf
  OwnEffects <- MCOwnEffects
  GroupEffects <- MCGroupEffects
  MaxRows = 2
  None = None
SPECIFICATION Spec
INVARIANTS
  PlaceholdersMoveNothing
  CapacityIsSpentFromTheTop
PROPERTIES
  ConstraintsOnlyHelp
  KevListingEscalates
  AssetRuleShields
CHECK_DEADLOCK FALSE
