SPECIFICATION Spec
CONSTANTS
  a1 = a1
  a2 = a2
  s1 = s1
  s2 = s2
  s3 = s3
  k1 = k1
  k2 = k2
  p = p
  q = q
  e1 = e1
  e2 = e2
  e3 = e3
  e4 = e4
  b1 = b1
  None = None
  Asset = {a1, a2}
  Scenario = {s1, s2, s3}
  Target <- Targets
  Request = {1}
  Signature = {e1, e2, e3, e4}
  Directory <- Directories
  Semantic = TRUE
CONSTRAINT SearchingInCalm
INVARIANTS
  SeenWasTrue
  LogsFitFault
  ArticleFitsLogs
  KnownSignaturesFound
CHECK_DEADLOCK FALSE
