SPECIFICATION FairSpec
CONSTANTS
  a1 = a1
  a2 = a2
  s1 = s1
  s2 = s2
  s3 = s3
  r1 = r1
  r2 = r2
  None = None
  Asset = {a1, a2}
  Scenario = {s1, s2, s3}
  Target <- Targets
  Request = {r1, r2}
INVARIANTS
  TypeOK
  OneFaultAtATime
  BeliefWasHeld
PROPERTIES
  ImplementsIncidents
  RequestsAnswered
