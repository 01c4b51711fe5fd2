CONSTANTS
  Jobs = {j1, j2, j3}
  NoJob = NoJob
  MaxHistory = 1
  Uploads = {u1, u2}
  Native = native
  Findings <- MCFindings
  FindingsOf <- MCFindingsOf
  NoPlan = NoPlan
  Processes = {p1}
  MaxRevisions = 2
SPECIFICATION Spec
INVARIANTS
  UnsignedIsNeverPassedOff
  ProvenancePrecedesExport
PROPERTIES
  ShownFindingIsGated
CHECK_DEADLOCK FALSE
