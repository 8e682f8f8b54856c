SPECIFICATION Spec
CONSTANTS
  None = None
  Preset = "text"
  Sessions = 1
  Targets = 2
  Skill = {2}
  Jobs = 2
  MaxOps = 3
INVARIANTS
  TypeOK
  ResetBlanks
  SkillsInstallable
  CheckIsTrue
CHECK_DEADLOCK FALSE
