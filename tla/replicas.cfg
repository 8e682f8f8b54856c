SPECIFICATION Spec
CONSTANTS
  r1 = r1
  r2 = r2
  q1 = q1
  q2 = q2
  f1 = f1
  x1 = x1
  None = None
  Replica = {r1, r2}
  Slot = {q1, q2}
  Fault = {f1}
  Status = {"detected", "awaiting", "resolved"}
  Field = {x1}
  MaxRequests = 3
  MaxFailures = 2
SYMMETRY Symmetry
INVARIANTS
  TypeOK
  UpdatesKept
  StreamsAgree
  AssetsFollow
PROPERTIES
  ImplementsAtomicFaults
CHECK_DEADLOCK FALSE
