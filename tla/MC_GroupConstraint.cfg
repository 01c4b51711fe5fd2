CONSTANTS
  a1 = a1
  a2 = a2
  Assets = {a1, a2}
  AssetOf <- MCAssetOf
  Roles = {workstation, server}
  NotCollected = NotCollected
  Tokens = {t1}
  Processes = {p1}
SPECIFICATION Spec
INVARIANTS
  ConfirmedIsReviewed
  OpenTokenHasNoRow
  RunReportsWhatItFolded
