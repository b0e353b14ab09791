SPECIFICATION Spec
CONSTANTS
  Conns = {c1, c2}
  Sizes <- MCSizes
  DefaultSize <- MCDefaultSize
  None = None
  MaxDisturb = 0
INVARIANT KeyFrameFirst
CHECK_DEADLOCK FALSE
