CONSTANTS
  Strategies <- ThreeStrategies
  BeamWidth = 2
  MaxDepth = 3
  MaxAttempts = 2
  Scores = {0, 1, 2}
  ClearWinnerMargin = 2
  Contested = 2
SPECIFICATION SearchSpec
INVARIANTS
  SpendIsRecorded
  CritiqueIsItsOwn
  VerdictIsEarned
CHECK_DEADLOCK FALSE
