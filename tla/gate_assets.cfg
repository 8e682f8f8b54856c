SPECIFICATION Spec
CONSTANTS
  a1 = a1
  a2 = a2
  s1 = s1
  s2 = s2
  k1 = k1
  k2 = k2
  f1 = f1
  f2 = f2
  d1 = d1
  d2 = d2
  c1 = c1
  None = None
  Asset = {a1, a2}
  Scenario = {s1, s2}
  Step = {k1, k2}
  Target <- SeparateTargets
  StepsOf <- DisjointSteps
  FaultId = {f1, f2}
  Decision = {d1}
  Caller = {}
  PatchStatus = {"awaiting_approval"}
SYMMETRY Symmetry
INVARIANTS
  OnlyApprovedAssetsCleared
  LinkNamesOpenFault
