SPECIFICATION Spec
CONSTANTS
  f1 = f1
  f2 = f2
  f3 = f3
  t1 = t1
  t2 = t2
  None = None
  FaultId = {f1, f2}
  Turn = {t1, t2}
SYMMETRY Symmetry
CONSTRAINT NoOverlapYet
INVARIANTS
  TypeOK
  OneInvestigation
  NoCallBreaks
  MarkedWasProposed
  DiagnosisComplete
  RepeatsNothing
