SPECIFICATION FairSpec
CONSTANTS
  Conns = {c1}
  NoConn = NoConn
  SubIds = {s1}
  ClientChannels = {k1}
  Ops = {"subscribe", "unsubscribe", "advertise", "unadvertise"}
  Topics = {t1, t2}
  Whitelisted = {t1, t2}
  Undescribed = {t2}
  Unsubscribable = {}
  MaxChannelId = 2
  MaxBatch = 1
  MaxGraphChanges = 1
INVARIANTS
  PublishersHaveOwners
PROPERTIES
  OnlyCyclesBlock
  ClientsSeeGraph
CHECK_DEADLOCK FALSE
