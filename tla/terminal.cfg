SPECIFICATION FairSpec
CONSTANTS
  None = None
  Preset = "text"
  Sessions = 3
  Targets = 1
  Skill = {1}
  Jobs = 0
  MaxOps = 0
INVARIANTS
  EndedByItself
  OneLiveSocket

  
CHECK_DEADLOCK FALSE
