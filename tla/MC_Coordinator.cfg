CONSTANTS
  Findings <- MCFindings
  Constraints <- MCConstraints
  Scope <- MCScope
  ContestedUnder <- MCContestedUnder
  NoState = NoState
  MaxJobs = 2
SPECIFICATION Spec
INVARIANTS
  EveryTargetIsAccounted
  EvidenceIsThere
  ReplanIsFresh
PROPERTIES
  PlanIsReplacedWhole
  EveryJobEnds
CHECK_DEADLOCK FALSE
