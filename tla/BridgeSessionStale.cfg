SPECIFICATION Spec
CONSTANTS
  Loops = {l1, l2}
  None = None
  MaxGen = 2
PROPERTY OnlyCurrentUpdates
CHECK_DEADLOCK FALSE
