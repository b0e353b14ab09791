SPECIFICATION Spec
CONSTANTS
  NumFiles = 2
  Size <- MCSize
  FirstFile = 0
  NoFile = NoFile
  MaxJobs = 3
  MaxFaults = 0
INVARIANT ResumeDelivers
CHECK_DEADLOCK FALSE
