CONSTANTS
  AssetKeys = {"host", "other"}
  Fields = {"low", "high"}
  MaxOrder = 3
  Controls = {"waf"}
  NoControl = ""
  Identities = {"ab1", "ab2", "cd"}
  ShortId <- Cut
  Contents <- MCContents
  Compared <- ContentTargets
  Unreadable = Unreadable
  OutOfScope = OutOfScope
  MaxAssetRows = 3
  MaxFindingRows = 2
SPECIFICATION Spec
INVARIANTS
  NeverTorn
  NothingIsLost
  GroupingKeepsWhatRowsSay
CHECK_DEADLOCK FALSE
