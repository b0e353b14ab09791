SPECIFICATION Spec
CONSTANTS
  NumFiles = 1
  Size <- MCSize
  FirstFile = 1
  NoFile = NoFile
  MaxJobs = 1
  MaxFaults = 0
INVARIANT SendFilesDelivers
CHECK_DEADLOCK FALSE
