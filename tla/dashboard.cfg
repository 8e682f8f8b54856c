SPECIFICATION FairSpec
CONSTANTS
  b1 = b1
  a1 = a1
  None = None
  Browser = {b1}
  Asset = {a1}
  AssetOf <- OneAsset
  MaxChanges = 2
  MaxDrops = 1
INVARIANTS
  TypeOK
  ViewAgrees
PROPERTIES
  ComesToAgree
CHECK_DEADLOCK FALSE
