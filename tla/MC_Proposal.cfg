CONSTANTS
  Slots = {"role", "criticality", "asset_id"}
  Role = "role"
  HardStop = {"asset_id"}
  GapLegal = {"criticality"}
  AbsentLegal = {}
  Axes = {"role", "criticality"}
  RegistryBacked = {"role", "criticality"}
  Covered = {"role"}
  Columns = {"c_role", "c_crit", "c_id", "c_order"}
  ColumnOf <- MCColumnOf
  Structural = {"c_id", "c_order"}
  Mappable <- MCMappable
  Editable <- MCEditable
  Dispositions <- MCDispositions
  MaxAttempts = 2
  MaxJobs = 3
SPECIFICATION ProposalSpec
INVARIANTS
  HumanMappingIsKept
  FabricatedValueIsNeutralized
  WrittenContractIsWhole
  ProvisionalExtendsStrict
CHECK_DEADLOCK FALSE
