SPECIFICATION FairSpec
CONSTANTS
  Conns = {c1}
  NoConn = NoConn
  SubIds = {s1}
  ClientChannels = {}
  Ops = {"subscribe", "unsubscribe"}
  Topics = {t1}
  Whitelisted = {t1}
  Undescribed = {}
  Unsubscribable = {}
  MaxChannelId = 2
  MaxBatch = 1
  MaxGraphChanges = 1
PROPERTIES
  EventsComplete
CHECK_DEADLOCK FALSE
