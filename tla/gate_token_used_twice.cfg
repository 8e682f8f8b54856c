SPECIFICATION Spec
CONSTANTS
  a1 = a1
  a2 = a2
  s1 = s1
  s2 = s2
  k1 = k1
  k2 = k2
  f1 = f1
  f2 = f2
  d1 = d1
  d2 = d2
  c1 = c1
  None = None
  Asset = {a1}
  Scenario = {s1}
  Step = {k1}
  Target <- OneScenario
  StepsOf <- OneRemedy
  FaultId = {f1}
  Decision = {d1}
  Caller = {c1}
  PatchStatus = {"awaiting_approval"}
SYMMETRY Symmetry
INVARIANTS
  TokenUsedOnce
