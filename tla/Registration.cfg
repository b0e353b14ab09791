SPECIFICATION FairSpec
CONSTANTS
  h1 = h1
  h2 = h2
  Hosts = {h1, h2}
  None = None
  Taken <- MCTaken
  MaxId = 4
  MaxFaults = 2
INVARIANTS TypeOK NewIdUnconfirmed
PROPERTIES StaysRegistered ConfirmationsSettle
