SPECIFICATION FairSpec
CONSTANTS
  Conns = {c1}
  NoConn = NoConn
  SubIds = {s1}
  ClientChannels = {k1, k2}
  Ops = {"subscribe", "unsubscribe", "advertise", "unadvertise"}
  Topics = {t1, t2, t3}
  Whitelisted = {t1, t2}
  Undescribed = {t2}
  Unsubscribable = {}
  MaxChannelId = 3
  MaxBatch = 2
  MaxGraphChanges = 1
INVARIANTS
  ClosedConnectionsOwnNothing
  PublishersHaveOwners
PROPERTIES
  ClientsSeeGraph
  LostConnectionsAreClosed
CHECK_DEADLOCK FALSE
