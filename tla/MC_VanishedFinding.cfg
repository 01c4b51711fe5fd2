CONSTANTS
  Findings <- MCFindings
  Constraints <- MCConstraints
  Scope <- MCScope
  ContestedUnder <- MCContestedUnder
  NoState = NoState
  MaxJobs = 2
SPECIFICATION Spec
INVARIANT NoFindingVanishes
CHECK_DEADLOCK FALSE
