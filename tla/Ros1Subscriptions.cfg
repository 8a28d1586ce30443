SPECIFICATION Spec
CONSTANTS
  Conns = {c1, c2}
  NoConn = NoConn
  SubIds = {s1}
  ClientChannels = {}
  Ops = {"subscribe", "unsubscribe"}
  Topics = {t1, t2}
  Whitelisted = {t1, t2}
  Undescribed = {}
  Unsubscribable = {t2}
  MaxChannelId = 3
  MaxBatch = 1
  MaxGraphChanges = 2
SYMMETRY Symmetry
INVARIANTS
  NoLateDelivery
PROPERTIES
  ImplementsDirectory
CHECK_DEADLOCK FALSE
