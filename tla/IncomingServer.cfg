SPECIFICATION FairSpec
CONSTANTS
  Conns = {c1, c2}
  Peers = {p1}
  None = None
  MaxLogins = 2
INVARIANTS TypeOK NoLeak NewestLoginOwnsPeer UnlistedHasRival
PROPERTIES ConnectionsAreViewers DeadPeerIsCleanedUp ReplacedConnectionEnds
CHECK_DEADLOCK FALSE
