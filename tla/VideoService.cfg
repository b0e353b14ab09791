SPECIFICATION FairSpec
CONSTANTS
  Conns = {c1, c2}
  Sizes <- MCSizes
  DefaultSize <- MCDefaultSize
  None = None
  MaxDisturb = 2
INVARIANTS TypeOK StreamAgreement
PROPERTIES ImplementsViewerSet ViewerServed JoinReturns
CHECK_DEADLOCK FALSE
