CONSTANTS
  Jobs = {j1, j2}
  NoJob = NoJob
  MaxHistory = 1
  Stages = {}
  Fields <- MCFields
  Ops <- MCOps
  Requests = {r1, r2}
  Editors = {r1}
  Pollers = {p1, p2}
  MaxEdits = 1
SPECIFICATION PlanSpec
INVARIANTS
  StepsRunInOrder
  OneExecutionPerStep
  SuccessIsTheJobs
PROPERTY StepSettles
CHECK_DEADLOCK FALSE
