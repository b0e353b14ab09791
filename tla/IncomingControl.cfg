SPECIFICATION FairSpec
CONSTANTS
  Servers = {s1, s2}
  Hosts = {h1}
INVARIANT TypeOK
PROPERTIES
  OneLateRound
  StopSilences
  ListenerCloses
  KeepsRegistering
