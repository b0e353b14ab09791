SPECIFICATION FairSpec
CONSTANTS
  NumFiles = 2
  Size <- MCSize
  FirstFile = 0
  NoFile = NoFile
  MaxJobs = 2
  MaxFaults = 1
INVARIANTS TypeOK PartsArePrefixes DoneDelivers
PROPERTIES RenamesWholeFiles OverwriteNeedsConsent JobEndsOrAsks PeerJobEnds
CHECK_DEADLOCK FALSE
