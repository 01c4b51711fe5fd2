CONSTANTS
  Jobs = {j1, j2, j3}
  Readers = {r1}
  Stages = {"s"}
  MaxHistory = 2
  Fields <- MCFields
  NoJob = NoJob
SPECIFICATION Spec
INVARIANTS
  SlotIsLiveWorker
  RunningJobIsRetained
  ResponseOutcomeIsTheJobs
PROPERTIES
  SlotIsEventuallyFreed
  ImplementsSingleFlight
