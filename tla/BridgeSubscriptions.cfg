SPECIFICATION Spec
CONSTANTS
  Conns = {c1, c2}
  NoConn = NoConn
  SubIds = {s1, s2}
  ClientChannels = {}
  Ops = {"subscribe", "unsubscribe"}
  Topics = {t1, t2}
  Whitelisted = {t1, t2}
  Undescribed = {}
  Unsubscribable = {t2}
  MaxChannelId = 4
  MaxBatch = 1
  MaxGraphChanges = 2
SYMMETRY Symmetry
INVARIANTS
  TypeOK
  HandlerReferencesValid
  SubscriptionsOneToOne
  SubscriptionsHaveChannels
  ToldChannelsExist
  PollingLocalsValid
  NoOrphanSubscription
  SubscriptionsServed
  ChannelTablesAgree
  ClientsUpToDate
PROPERTIES
  ImplementsDirectory
CHECK_DEADLOCK FALSE
