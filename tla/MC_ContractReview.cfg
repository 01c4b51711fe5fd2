CONSTANTS
  Recipes = {address, address2}
  Synthesized = {address, address2}
  Regions = {united, enriched}
  Unioned = {united, enriched}
  Enriched = {enriched}
  Doubts = {role}
  None = None
  Broken = Broken
  Signers = {s1, s2}
  Proposers = {p1}
  MaxVersion = 2
  MaxEdits = 1
  MaxSigned = 1
SYMMETRY ReviewSymmetry
SPECIFICATION Spec
INVARIANTS
  IngestedIsSigned
  ClaimsAreAboutWhatIsSigned
  RekeyingIsDeclared
CHECK_DEADLOCK FALSE
