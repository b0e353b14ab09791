SPECIFICATION FairSpec
CONSTANTS
  Servers = {s1, s2}
  Hosts = {h1}
PROPERTY StopIsFinal
