---------------------------- MODULE BridgeProofs ----------------------------
(***************************************************************************)
(* The ROS 2 bridge uses its server as the server's own specification      *)
(* allows, so what is proved of the server holds in the bridge, and the    *)
(* bridge's maps follow those of the server.                               *)
(***************************************************************************)
EXTENDS Ros2Bridge, ServerProofs

\* The inductive form of ClientsUpToDate: topics to add are there only in an
\* update that will broadcast, and a client that does not know all channels will
\* be told by it.
BroadcastDue ==
  /\ newTopics # {} => someNew /\ ppc \in {"lock", "update"}
  /\ \/ \A c \in Reachable : told[c] = channels
     \/ someNew /\ ppc \in {"update", "broadcast"}

\* Every step of the bridge is a step of the server or leaves it alone.
LEMMA StepSimulates == [Next]_vars => [ServerNext]_serverVars
<1> SUFFICES ASSUME [Next]_vars PROVE [ServerNext]_serverVars
  OBVIOUS
<1>1. CASE Environment
  BY <1>1 DEF Environment, GraphChange, ServerNext
<1>2. CASE RunLoopBegins \/ RunLoopContinues
  BY <1>2 DEF ServerNext
<1>3. CASE Handlers
  BY <1>3 DEF Handlers, SubscribeHandler, SubscribeHandlerThrows,
     UnsubscribeHandler, ClientAdvertiseHandler, ClientAdvertiseThrows,
     ClientUnadvertiseHandler,
     ClientMessageHandler, CloseUnadvertiseHandler, CloseUnsubscribeHandler,
     RunLoopCallbacks, ServerNext
<1>4. CASE PollThread
  BY <1>4 DEF PollThread, GraphEventTriggers, QueryGraph, LockSubscriptions,
     RemoveTopic, AddTopic, SkipTopic, UnlockSubscriptions, BroadcastTopics,
     EmbedderCalls, ServerNext
<1>5. CASE UNCHANGED vars
  BY <1>5 DEF vars
<1> QED
  BY <1>1, <1>2, <1>3, <1>4, <1>5 DEF Next

\* The bridge implements the specification of the server: it calls the server
\* only in ways for which the server was verified on its own.
THEOREM BridgeImplementsServer == Spec => ServerSpec
<1>1. Init => ServerInit
  BY DEF Init
<1> QED
  BY <1>1, StepSimulates, PTL DEF Spec, ServerSpec

\* So the invariant of the server is one of the bridge.
THEOREM BridgeServerInvariance == Spec => []ServerInvariant
  BY BridgeImplementsServer, ServerInvariance, PTL

-----------------------------------------------------------------------------
(* The invariant of the bridge. *)

\* Type correctness of the bridge's own variables.
LEMMA BridgeTypeStep ==
  ASSUME BridgeInvariant, ServerInvariant', Next
  PROVE  TypeOK'
<1> USE BridgeAssumption DEF BridgeInvariant, ServerInvariant, TypeOK
<1>0. ServerTypeOK'
  OBVIOUS
<1>1. CASE UNCHANGED bridgeVars
  BY <1>0, <1>1 DEF bridgeVars
<1> USE DEF graphVars, pollVars, topicVars, subVars, pubVars
<1>2. ASSUME NEW t \in Topics, GraphChange(t) PROVE TypeOK'
  <2>1. graphEvent' \in BOOLEAN
    BY <1>2, Zenon DEF GraphChange
  <2> QED
    BY <1>0, <1>2, <2>1 DEF GraphChange
<1>3. CASE GraphEventTriggers
  <2>1. graphEvent' \in BOOLEAN
    BY <1>3, Zenon DEF GraphEventTriggers
  <2> QED
    BY <1>0, <1>3, <2>1 DEF GraphEventTriggers
<1>4. CASE QueryGraph
  <2>1. someNew' \in BOOLEAN
    BY <1>4, Zenon DEF QueryGraph
  <2> QED
    BY <1>0, <1>4, <2>1 DEF QueryGraph
<1>5. CASE LockSubscriptions \/ UnlockSubscriptions
  BY <1>0, <1>5 DEF LockSubscriptions, UnlockSubscriptions
<1>6. ASSUME NEW t \in Topics, NEW ch \in ChannelIds, RemoveTopic(t, ch)
      PROVE  TypeOK'
  BY <1>0, <1>6 DEF RemoveTopic
<1>7. ASSUME NEW t \in Topics, AddTopic(t) PROVE TypeOK'
  <2>1. nextChannelId + 1 \in ChannelIds
    BY <1>7, ServerAssumption DEF AddTopic, AddChannel, ServerTypeOK
  <2> QED
    BY <1>0, <1>7, <2>1 DEF AddTopic
<1>8. ASSUME NEW t \in Topics, SkipTopic(t) PROVE TypeOK'
  BY <1>0, <1>8 DEF SkipTopic
<1>9. CASE BroadcastTopics
  <2>1. someNew' \in BOOLEAN
    BY <1>9, Zenon DEF BroadcastTopics
  <2> QED
    BY <1>0, <1>9, <2>1 DEF BroadcastTopics
<1>10. CASE SubscribeHandler \/ SubscribeHandlerThrows
  <2>1. arg \in ChannelIds /\ hdl \in Conns
    BY <1>10 DEF SubscribeHandler, SubscribeHandlerThrows, HandlerReferencesValid
  <2> QED
    BY <1>0, <1>10, <2>1 DEF SubscribeHandler, SubscribeHandlerThrows
<1>11. CASE UnsubscribeHandler
  BY <1>0, <1>11 DEF UnsubscribeHandler, DropSubscription
<1>12. CASE ClientAdvertiseHandler \/ ClientAdvertiseThrows
  <2>1. arg \in ClientChannels /\ hdl \in Conns
    BY <1>12 DEF ClientAdvertiseHandler, ClientAdvertiseThrows,
                 HandlerReferencesValid
  <2> QED
    BY <1>0, <1>12, <2>1 DEF ClientAdvertiseHandler, ClientAdvertiseThrows
<1>13. CASE ClientUnadvertiseHandler
  BY <1>0, <1>13 DEF ClientUnadvertiseHandler, DropPublication
<1>14. ASSUME NEW k \in ClientChannels, CloseUnadvertiseHandler(k) PROVE TypeOK'
  BY <1>0, <1>14 DEF CloseUnadvertiseHandler, DropPublication
<1>15. ASSUME NEW ch \in ChannelIds, CloseUnsubscribeHandler(ch) PROVE TypeOK'
  BY <1>0, <1>15 DEF CloseUnsubscribeHandler, DropSubscription
<1> QED
  BY <1>1, <1>2, <1>3, <1>4, <1>5, <1>6, <1>7, <1>8, <1>9, <1>10, <1>11,
     <1>12, <1>13, <1>14, <1>15
     DEF Next, Environment, Handlers, PollThread, ClientMessageHandler

\* What the run loop and its callbacks leave alone, the polling thread relies
\* on; its own steps keep its locals and the tables in line.
LEMMA HandlersKeepTables ==
  ASSUME \/ Environment
         \/ RunLoopBegins /\ UNCHANGED bridgeVars
         \/ RunLoopContinues /\ UNCHANGED bridgeVars
         \/ Handlers
  PROVE  /\ UNCHANGED <<channels, nextChannelId>>
         /\ UNCHANGED <<ppc, removedTopics, newTopics, someNew>>
         /\ UNCHANGED <<advertisedTopics, channelToTopic>>
<1> USE DEF bridgeVars, pollVars, topicVars
<1>1. CASE Environment
  BY <1>1, RunLoopKeepsChannels DEF Environment, GraphChange, serverVars
<1>2. CASE Handlers
  BY <1>2, RunLoopKeepsChannels
     DEF Handlers, SubscribeHandler, SubscribeHandlerThrows,
         UnsubscribeHandler, ClientAdvertiseHandler, ClientAdvertiseThrows,
         ClientUnadvertiseHandler, ClientMessageHandler,
         CloseUnadvertiseHandler, CloseUnsubscribeHandler, RunLoopCallbacks
<1> QED
  BY <1>1, <1>2, RunLoopKeepsChannels

\* The polling thread's locals stay right while it waits and works.
LEMMA PollingStep ==
  ASSUME BridgeInvariant, Next
  PROVE  PollingLocalsValid'
<1> USE ServerAssumption
    DEF BridgeInvariant, TypeOK, ServerTypeOK, PollingLocalsValid
<1>1. CASE \/ Environment
           \/ RunLoopBegins /\ UNCHANGED bridgeVars
           \/ RunLoopContinues /\ UNCHANGED bridgeVars
           \/ Handlers
  BY <1>1, HandlersKeepTables
<1>2. CASE GraphEventTriggers \/ LockSubscriptions \/ UnlockSubscriptions
  BY <1>2 DEF GraphEventTriggers, LockSubscriptions, UnlockSubscriptions,
              serverVars, topicVars
<1>3. CASE QueryGraph
  <2>1. UNCHANGED <<channels, nextChannelId, advertisedTopics>>
    BY <1>3 DEF QueryGraph, serverVars, topicVars
  <2>2. \A a \in advertisedTopics : a[1] \notin newTopics'
    BY <1>3 DEF QueryGraph
  <2>3. ASSUME NEW t \in removedTopics'
        PROVE  \E ch \in channels : <<t, ch>> \in advertisedTopics
    <3>1. PICK a \in advertisedTopics : a[1] = t
      BY <1>3, <2>3 DEF QueryGraph
    <3>2. t \in Topics /\ a[2] \in ChannelIds /\ <<t, a[2]>> \in advertisedTopics
      BY <3>1
    <3>3. <<a[2], t>> \in channelToTopic
      BY <3>2 DEF ChannelTablesAgree, TablesMatch
    <3>4. a[2] \in channels
      BY <3>2, <3>3 DEF ChannelTablesAgree, TablesMatch
    <3> QED
      BY <3>2, <3>4
  <2> QED
    BY <2>1, <2>2, <2>3
<1>4. ASSUME NEW t \in Topics, NEW ch \in ChannelIds, RemoveTopic(t, ch)
      PROVE  PollingLocalsValid'
  <2>1. /\ removedTopics' = removedTopics \ {t}
        /\ newTopics' = newTopics
        /\ advertisedTopics' = {a \in advertisedTopics : a[1] # t}
        /\ channels' = channels \ {ch}
        /\ nextChannelId' = nextChannelId
        /\ <<t, ch>> \in advertisedTopics
    BY <1>4 DEF RemoveTopic, RemoveChannel
  <2>2. ASSUME NEW u \in removedTopics'
        PROVE  \E dh \in channels' : <<u, dh>> \in advertisedTopics'
    <3>1. PICK dh \in channels : <<u, dh>> \in advertisedTopics
      BY <2>1, <2>2
    <3>2. u # t
      BY <2>1, <2>2
    <3>3. <<dh, u>> \in channelToTopic /\ <<ch, t>> \in channelToTopic
      BY <2>1, <3>1 DEF ChannelTablesAgree, TablesMatch
    <3>4. dh # ch
      BY <3>1, <3>2, <3>3 DEF ChannelTablesAgree, TablesMatch
    <3> QED
      BY <2>1, <3>1, <3>2, <3>4
  <2> QED
    BY <2>1, <2>2
<1>5. ASSUME NEW t \in Topics, AddTopic(t) PROVE PollingLocalsValid'
  BY <1>5 DEF AddTopic, AddChannel
<1>6. ASSUME NEW t \in Topics, SkipTopic(t) PROVE PollingLocalsValid'
  BY <1>6 DEF SkipTopic, serverVars, topicVars
<1>7. CASE BroadcastTopics
  BY <1>7 DEF BroadcastTopics, BroadcastChannels, mapVars, topicVars
<1> QED
  BY <1>1, <1>2, <1>3, <1>4, <1>5, <1>6, <1>7 DEF Next, PollThread

\* Where the tables match, the subscribe callback finds its topic.
LEMMA CallbackFindsTopic ==
  ServerInvariant /\ TablesMatch => (pc = "subscribe" => TopicsOf(arg) # {})
<1> SUFFICES ASSUME ServerInvariant, TablesMatch, pc = "subscribe"
             PROVE  TopicsOf(arg) # {}
  OBVIOUS
<1>1. arg \in channels /\ arg \in ChannelIds
  BY DEF ServerInvariant, SubscriptionsHaveChannels, HandlerReferencesValid
<1>2. PICK t \in Topics : <<arg, t>> \in channelToTopic
  BY <1>1 DEF TablesMatch
<1>3. <<t, arg>> \in advertisedTopics
  BY <1>1, <1>2 DEF TablesMatch
<1>4. <<t, arg>>[1] = t
  OBVIOUS
<1> QED
  BY <1>2, <1>3, <1>4 DEF TopicsOf

\* The polling thread changes the three tables together, and the id of a new
\* channel is not in use.
LEMMA MatchStep ==
  ASSUME BridgeInvariant, Next
  PROVE  TablesMatch'
<1>0. /\ TablesMatch /\ PollingLocalsValid
      /\ channels \subseteq ChannelIds
      /\ nextChannelId \in 0..MaxChannelId
  BY DEF BridgeInvariant, TypeOK, ServerTypeOK, ChannelTablesAgree
<1>1. CASE UNCHANGED <<channels, advertisedTopics, channelToTopic>>
  <2>1. /\ channels' = channels
        /\ advertisedTopics' = advertisedTopics
        /\ channelToTopic' = channelToTopic
    BY <1>1
  <2> QED
    BY <1>0, <2>1, Zenon DEF TablesMatch
<1>2. ASSUME NEW t \in Topics, NEW ch \in ChannelIds, RemoveTopic(t, ch)
      PROVE  TablesMatch'
  <2>1. /\ advertisedTopics' = {a \in advertisedTopics : a[1] # t}
        /\ channelToTopic' = {p \in channelToTopic : p[1] # ch}
        /\ channels' = channels \ {ch}
        /\ <<ch, t>> \in channelToTopic
    BY <1>0, <1>2 DEF RemoveTopic, RemoveChannel, TablesMatch
  <2>2. \A u \in Topics, dh \in ChannelIds :
          /\ <<u, dh>> \in advertisedTopics'
               <=> <<u, dh>> \in advertisedTopics /\ u # t
          /\ <<dh, u>> \in channelToTopic'
               <=> <<dh, u>> \in channelToTopic /\ dh # ch
    BY <2>1
  <2>3. \A u \in Topics, dh \in ChannelIds :
          <<dh, u>> \in channelToTopic => (dh = ch <=> u = t)
    BY <1>0, <2>1 DEF TablesMatch
  <2>4. \A u \in Topics, dh \in ChannelIds :
          <<u, dh>> \in advertisedTopics' <=> <<dh, u>> \in channelToTopic'
    BY <1>0, <2>2, <2>3 DEF TablesMatch
  <2>5. ASSUME NEW dh \in ChannelIds
        PROVE  dh \in channels' <=> \E u \in Topics : <<dh, u>> \in channelToTopic'
    BY <1>0, <2>1, <2>2 DEF TablesMatch
  <2>6. ASSUME NEW u \in Topics, NEW v \in Topics,
               NEW dh \in ChannelIds, NEW eh \in ChannelIds,
               <<dh, u>> \in channelToTopic', <<eh, v>> \in channelToTopic'
        PROVE  dh = eh <=> u = v
    <3>1. <<dh, u>> \in channelToTopic /\ <<eh, v>> \in channelToTopic
      BY <2>2, <2>6
    <3> QED
      BY <1>0, <3>1 DEF TablesMatch
  <2> QED
    BY <2>4, <2>5, <2>6 DEF TablesMatch
<1>3. ASSUME NEW t \in Topics, AddTopic(t) PROVE TablesMatch'
  <2> DEFINE id == nextChannelId + 1
  <2>1. /\ advertisedTopics' = advertisedTopics \union {<<t, id>>}
        /\ channelToTopic' = channelToTopic \union {<<id, t>>}
        /\ channels' = channels \union {id}
        /\ t \in newTopics
    BY <1>3 DEF AddTopic, AddChannel
  <2>2. id \in ChannelIds /\ id \notin channels
    BY <1>0, <1>3, ServerAssumption
       DEF AddTopic, AddChannel, PollingLocalsValid, ChannelIds
  <2>3. \A u \in Topics : <<id, u>> \notin channelToTopic
    BY <1>0, <2>2 DEF TablesMatch
  <2>4. ASSUME NEW dh \in ChannelIds PROVE <<dh, t>> \notin channelToTopic
    <3>1. <<t, dh>> \notin advertisedTopics
      <4>1. <<t, dh>>[1] = t
        OBVIOUS
      <4> QED
        BY <1>0, <2>1, <4>1, Zenon DEF PollingLocalsValid
    <3> QED
      BY <1>0, <3>1 DEF TablesMatch
  <2> HIDE DEF id
  <2>5. \A u \in Topics, dh \in ChannelIds :
          /\ <<u, dh>> \in advertisedTopics'
               <=> <<u, dh>> \in advertisedTopics \/ (u = t /\ dh = id)
          /\ <<dh, u>> \in channelToTopic'
               <=> <<dh, u>> \in channelToTopic \/ (u = t /\ dh = id)
    BY <2>1
  <2>6. \A u \in Topics, dh \in ChannelIds :
          <<u, dh>> \in advertisedTopics' <=> <<dh, u>> \in channelToTopic'
    BY <1>0, <2>5 DEF TablesMatch
  <2>7. ASSUME NEW dh \in ChannelIds
        PROVE  dh \in channels' <=> \E u \in Topics : <<dh, u>> \in channelToTopic'
    BY <1>0, <2>1, <2>5 DEF TablesMatch
  <2>8. ASSUME NEW u \in Topics, NEW v \in Topics,
               NEW dh \in ChannelIds, NEW eh \in ChannelIds,
               <<dh, u>> \in channelToTopic', <<eh, v>> \in channelToTopic'
        PROVE  dh = eh <=> u = v
    <3>1. /\ <<dh, u>> \in channelToTopic \/ (u = t /\ dh = id)
          /\ <<eh, v>> \in channelToTopic \/ (v = t /\ eh = id)
      BY <2>5, <2>8
    <3>2. CASE <<dh, u>> \in channelToTopic /\ <<eh, v>> \in channelToTopic
      BY <1>0, <3>2 DEF TablesMatch
    <3> QED
      BY <2>2, <2>3, <2>4, <3>1, <3>2
  <2> QED
    BY <2>6, <2>7, <2>8 DEF TablesMatch
<1>4. CASE \/ GraphEventTriggers \/ QueryGraph \/ LockSubscriptions
           \/ UnlockSubscriptions \/ (\E t \in Topics : SkipTopic(t))
           \/ BroadcastTopics
  BY <1>1, <1>4 DEF GraphEventTriggers, QueryGraph, LockSubscriptions,
     UnlockSubscriptions, SkipTopic, BroadcastTopics, BroadcastChannels,
     serverVars, mapVars, topicVars
<1> QED
  BY <1>1, <1>2, <1>3, <1>4, HandlersKeepTables DEF Next, PollThread

\* _subscriptions gets entries only of channels that the server has, and loses
\* them with the channel.
LEMMA SubscribedStep ==
  ASSUME BridgeInvariant, Next
  PROVE  subscribedChannels' \subseteq channels'
<1>0. subscribedChannels \subseteq channels
  BY DEF BridgeInvariant, ChannelTablesAgree
<1>1. CASE /\ UNCHANGED <<channels, nextChannelId>>
           /\ subscribedChannels' \subseteq subscribedChannels
  BY <1>0, <1>1
<1>2. CASE SubscribeHandler \/ SubscribeHandlerThrows
  <2>1. arg \in channels
    BY <1>2 DEF SubscribeHandler, SubscribeHandlerThrows, BridgeInvariant,
                ServerInvariant, SubscriptionsHaveChannels
  <2>2. channels' = channels
    BY <1>2 DEF SubscribeHandler, SubscribeHandlerThrows, CallbackReturns,
                CallbackThrows, mapVars
  <2> QED
    BY <1>0, <1>2, <2>1, <2>2 DEF SubscribeHandler, SubscribeHandlerThrows, subVars
<1>3. CASE Environment \/ ((RunLoopBegins \/ RunLoopContinues) /\ UNCHANGED bridgeVars)
  BY <1>1, <1>3, HandlersKeepTables DEF Environment, GraphChange, subVars, bridgeVars
<1>4. CASE Handlers
  BY <1>1, <1>2, <1>4, HandlersKeepTables
     DEF Handlers, UnsubscribeHandler, ClientAdvertiseHandler,
         ClientAdvertiseThrows, ClientUnadvertiseHandler, ClientMessageHandler,
         CloseUnadvertiseHandler, CloseUnsubscribeHandler, DropSubscription,
         subVars, bridgeVars
<1>5. CASE PollThread
  BY <1>0, <1>5 DEF PollThread, GraphEventTriggers, QueryGraph,
     LockSubscriptions, RemoveTopic, RemoveChannel, AddTopic, AddChannel,
     SkipTopic, UnlockSubscriptions, BroadcastTopics, BroadcastChannels,
     serverVars, mapVars, subVars
<1> QED
  BY <1>3, <1>4, <1>5 DEF Next

\* So the tables agree after every step.
LEMMA TablesStep ==
  ASSUME BridgeInvariant, ServerInvariant', Next
  PROVE  ChannelTablesAgree'
<1>1. TablesMatch'
  BY MatchStep
<1>2. (ServerInvariant /\ TablesMatch
         => (pc = "subscribe" => TopicsOf(arg) # {}))'
  BY CallbackFindsTopic, PTL
<1>3. (pc = "subscribe" => TopicsOf(arg) # {})'
  BY <1>1, <1>2
<1> QED
  BY <1>1, <1>3, SubscribedStep DEF ChannelTablesAgree

\* A subscription of the bridge is dropped with the server's, or the callback
\* that drops it is under way.
LEMMA OrphanStep ==
  ASSUME BridgeInvariant, Next
  PROVE  NoOrphanSubscription'
<1> USE DEF NoOrphanSubscription, UnsubscribePending, Closing
<1>0. /\ NoOrphanSubscription
      /\ subscriptions \subseteq ChannelIds \X Conns
      /\ subscriptionsByChannel \in [Conns -> SUBSET (ChannelIds \X SubIds)]
      /\ HandlerReferencesValid
  BY DEF BridgeInvariant, TypeOK, ServerTypeOK, ServerInvariant
<1>1. CASE UNCHANGED <<subscriptions, subscriptionsByChannel, pc, hdl, arg, oldSubs>>
  BY <1>0, <1>1
<1>2. ASSUME NEW c \in Conns, HandleConnectionClosed(c), UNCHANGED bridgeVars
      PROVE  NoOrphanSubscription'
  BY <1>0, <1>2 DEF HandleConnectionClosed, bridgeVars
<1>3. ASSUME NEW c \in Conns, NEW o \in Ops, NEW n \in 0..MaxBatch,
             HandleTextMessage(c, o, n), UNCHANGED bridgeVars
      PROVE  NoOrphanSubscription'
  BY <1>0, <1>3 DEF HandleTextMessage, bridgeVars
<1>4. ASSUME NEW c \in Conns, NEW k \in ClientChannels,
             HandleBinaryMessage(c, k), UNCHANGED bridgeVars
      PROVE  NoOrphanSubscription'
  BY <1>0, <1>4 DEF HandleBinaryMessage, mapVars, bridgeVars
<1>5. ASSUME NEW s \in SubIds, NEW ch \in ChannelIds, SubscribeEntry(s, ch),
             UNCHANGED bridgeVars
      PROVE  NoOrphanSubscription'
  <2>1. \A c \in Conns : subscriptionsByChannel[c] \subseteq subscriptionsByChannel'[c]
    BY <1>0, <1>5 DEF SubscribeEntry, NextEntry, SkipEntry
  <2>2. pc = "entries"
    BY <1>5 DEF SubscribeEntry, NextEntry
  <2>3. subscriptions' = subscriptions
    BY <1>5 DEF bridgeVars
  <2> QED
    BY <1>0, <2>1, <2>2, <2>3
<1>6. ASSUME NEW s \in SubIds, UnsubscribeEntry(s), UNCHANGED bridgeVars
      PROVE  NoOrphanSubscription'
  BY <1>0, <1>6 DEF UnsubscribeEntry, NextEntry, SkipEntry, CallBack, bridgeVars,
     HandlerReferencesValid
<1>7. ASSUME NEW k \in ClientChannels, AdvertiseEntry(k) \/ UnadvertiseEntry(k),
             UNCHANGED bridgeVars
      PROVE  NoOrphanSubscription'
  BY <1>0, <1>7 DEF AdvertiseEntry, UnadvertiseEntry, NextEntry, SkipEntry,
     CallBack, bridgeVars
<1>8. ASSUME MalformedEntry \/ TextMessageDone \/ CloseReturns, UNCHANGED bridgeVars
      PROVE  NoOrphanSubscription'
  BY <1>0, <1>8 DEF MalformedEntry, TextMessageDone, CloseReturns, Idle, mapVars,
     bridgeVars
<1>9. ASSUME EraseClientChannels, UNCHANGED bridgeVars
      PROVE  NoOrphanSubscription'
  BY <1>0, <1>9 DEF EraseClientChannels, bridgeVars
<1>10. CASE SubscribeHandler \/ SubscribeHandlerThrows
  BY <1>0, <1>10 DEF SubscribeHandler, SubscribeHandlerThrows, CallbackReturns,
     CallbackThrows, Idle, mapVars, subVars, BridgeInvariant, ServerInvariant,
     SubscriptionsHaveChannels
<1>11. CASE UnsubscribeHandler
  BY <1>0, <1>11 DEF UnsubscribeHandler, DropSubscription, CallbackReturns, mapVars
<1>12. CASE \/ ClientAdvertiseHandler \/ ClientAdvertiseThrows
            \/ ClientUnadvertiseHandler \/ ClientMessageHandler
  BY <1>0, <1>12 DEF ClientAdvertiseHandler, ClientAdvertiseThrows,
     ClientUnadvertiseHandler, ClientMessageHandler, CallbackReturns,
     CallbackThrows, MessageCallbackReturns, Idle, mapVars, subVars, bridgeVars
<1>13. ASSUME NEW k \in ClientChannels, CloseUnadvertiseHandler(k)
       PROVE  NoOrphanSubscription'
  BY <1>1, <1>13 DEF CloseUnadvertiseHandler, CloseUnadvertise, mapVars, subVars
<1>14. ASSUME NEW ch \in ChannelIds, CloseUnsubscribeHandler(ch)
       PROVE  NoOrphanSubscription'
  BY <1>0, <1>14 DEF CloseUnsubscribeHandler, CloseUnsubscribe, DropSubscription,
     mapVars
<1>15. ASSUME NEW t \in Topics, NEW ch \in ChannelIds, RemoveTopic(t, ch)
       PROVE  NoOrphanSubscription'
  BY <1>0, <1>15 DEF RemoveTopic, RemoveChannel, loopVars
<1>16. CASE \/ \E c \in Conns : PeerLost(c) /\ UNCHANGED bridgeVars
            \/ \E t \in Topics : GraphChange(t) \/ AddTopic(t) \/ SkipTopic(t)
            \/ \E c \in Conns : /\ RejectConnection(c) \/ HandleConnectionOpened(c)
                                /\ UNCHANGED bridgeVars
            \/ GraphEventTriggers \/ QueryGraph \/ LockSubscriptions
            \/ UnlockSubscriptions \/ BroadcastTopics
  BY <1>1, <1>16 DEF PeerLost, GraphChange, AddTopic, AddChannel, SkipTopic,
     RejectConnection, HandleConnectionOpened, GraphEventTriggers, QueryGraph,
     LockSubscriptions, UnlockSubscriptions, BroadcastTopics, BroadcastChannels,
     serverVars, bridgeVars, mapVars, loopVars, subVars
<1> QED
  BY <1>2, <1>3, <1>4, <1>5, <1>6, <1>7, <1>8, <1>9, <1>10, <1>11, <1>12, <1>13,
     <1>14, <1>15, <1>16
     DEF Next, Environment, RunLoopBegins, RunLoopContinues, Handlers, PollThread

\* What the server adds the callback adds, and what the callback drops the
\* server has dropped.
LEMMA ServedStep ==
  ASSUME BridgeInvariant, Next
  PROVE  SubscriptionsServed'
<1> USE DEF SubscriptionsServed
<1>0. /\ SubscriptionsServed
      /\ clients \subseteq Conns
      /\ subscriptions \subseteq ChannelIds \X Conns
      /\ subscriptionsByChannel \in [Conns -> SUBSET (ChannelIds \X SubIds)]
      /\ HandlerReferencesValid
  BY DEF BridgeInvariant, TypeOK, ServerTypeOK, ServerInvariant
<1>1. CASE UNCHANGED <<clients, subscriptions, subscriptionsByChannel,
                       channelToTopic, pc, hdl, arg>>
  BY <1>0, <1>1
<1>2. ASSUME NEW c \in Conns, HandleConnectionOpened(c), UNCHANGED bridgeVars
      PROVE  SubscriptionsServed'
  <2>1. c \notin clients
    BY <1>2 DEF HandleConnectionOpened, BridgeInvariant, ServerInvariant,
       ClosedConnectionsOwnNothing
  <2>2. subscriptionsByChannel[c] = {}
    BY <2>1 DEF BridgeInvariant, ServerInvariant, ClosedConnectionsOwnNothing
  <2> QED
    BY <1>0, <1>2, <2>2 DEF HandleConnectionOpened, bridgeVars, loopVars
<1>3. ASSUME NEW c \in Conns, HandleConnectionClosed(c), UNCHANGED bridgeVars
      PROVE  SubscriptionsServed'
  BY <1>0, <1>3 DEF HandleConnectionClosed, bridgeVars
<1>4. ASSUME NEW c \in Conns, NEW o \in Ops, NEW n \in 0..MaxBatch,
             HandleTextMessage(c, o, n), UNCHANGED bridgeVars
      PROVE  SubscriptionsServed'
  BY <1>0, <1>4 DEF HandleTextMessage, bridgeVars
<1>5. ASSUME NEW c \in Conns, NEW k \in ClientChannels,
             HandleBinaryMessage(c, k), UNCHANGED bridgeVars
      PROVE  SubscriptionsServed'
  BY <1>0, <1>5 DEF HandleBinaryMessage, mapVars, bridgeVars
<1>6. ASSUME NEW s \in SubIds, NEW ch \in ChannelIds, SubscribeEntry(s, ch),
             UNCHANGED bridgeVars
      PROVE  SubscriptionsServed'
  <2>1. CASE UNCHANGED <<pc, arg, subscriptionsByChannel>>
    BY <1>0, <1>6, <2>1 DEF SubscribeEntry, NextEntry, bridgeVars
  <2>2. CASE /\ CallBack(ch)
             /\ subscriptionsByChannel' =
                  IF \E m \in subscriptionsByChannel[hdl] : m[1] = ch
                  THEN subscriptionsByChannel
                  ELSE [subscriptionsByChannel EXCEPT
                          ![hdl] = subscriptionsByChannel[hdl] \union {<<ch, s>>}]
    <3>1. /\ pc = "entries" /\ pc' = "subscribe" /\ arg' = ch
          /\ hdl' = hdl /\ hdl \in Conns /\ clients' = clients
          /\ subscriptions' = subscriptions /\ channelToTopic' = channelToTopic
      BY <1>0, <1>6, <2>2 DEF SubscribeEntry, NextEntry, CallBack, bridgeVars,
         HandlerReferencesValid
    <3>2. \A c \in Conns : \A m \in subscriptionsByChannel'[c] :
            m \in subscriptionsByChannel[c] \/ (c = hdl /\ m = <<ch, s>>)
      BY <1>0, <2>2, <3>1
    <3> QED
      BY <1>0, <3>1, <3>2
  <2> QED
    BY <1>6, <2>1, <2>2 DEF SubscribeEntry, SkipEntry
<1>7. ASSUME NEW s \in SubIds, UnsubscribeEntry(s), UNCHANGED bridgeVars
      PROVE  SubscriptionsServed'
  <2>1. CASE UNCHANGED <<pc, arg, subscriptionsByChannel>>
    BY <1>0, <1>7, <2>1 DEF UnsubscribeEntry, NextEntry, bridgeVars
  <2>2. ASSUME NEW m \in subscriptionsByChannel[hdl], CallBack(m[1]),
               subscriptionsByChannel' =
                 [subscriptionsByChannel EXCEPT
                    ![hdl] = subscriptionsByChannel[hdl] \ {m}]
        PROVE  SubscriptionsServed'
    <3>1. /\ pc = "entries" /\ pc' = "unsubscribe" /\ arg' = m[1]
          /\ hdl' = hdl /\ hdl \in Conns /\ clients' = clients
          /\ subscriptions' = subscriptions /\ channelToTopic' = channelToTopic
      BY <1>0, <1>7, <2>2 DEF UnsubscribeEntry, NextEntry, CallBack, bridgeVars,
         HandlerReferencesValid
    <3>2. \A n \in subscriptionsByChannel'[hdl] :
            n \in subscriptionsByChannel[hdl] /\ n[1] # m[1]
      BY <1>0, <2>2, <3>1 DEF BridgeInvariant, ServerInvariant,
         SubscriptionsOneToOne
    <3>3. \A c \in Conns : subscriptionsByChannel'[c] \subseteq subscriptionsByChannel[c]
      BY <1>0, <2>2, <3>1
    <3> QED
      BY <1>0, <3>1, <3>2, <3>3
  <2> QED
    BY <1>7, <2>1, <2>2 DEF UnsubscribeEntry, SkipEntry
<1>8. ASSUME NEW k \in ClientChannels, AdvertiseEntry(k) \/ UnadvertiseEntry(k),
             UNCHANGED bridgeVars
      PROVE  SubscriptionsServed'
  BY <1>0, <1>8 DEF AdvertiseEntry, UnadvertiseEntry, NextEntry, SkipEntry,
     CallBack, bridgeVars
<1>9. ASSUME \/ MalformedEntry \/ TextMessageDone \/ CloseReturns
             \/ EraseClientChannels,
             UNCHANGED bridgeVars
      PROVE  SubscriptionsServed'
  BY <1>0, <1>9 DEF MalformedEntry, TextMessageDone, CloseReturns,
     EraseClientChannels, Idle, mapVars, bridgeVars
<1>10. CASE SubscribeHandler \/ SubscribeHandlerThrows
  <2>1. /\ clients' = clients /\ channelToTopic' = channelToTopic
        /\ subscriptionsByChannel' = subscriptionsByChannel
        /\ pc = "subscribe" /\ pc' \in {"entries", "idle"}
    BY <1>10 DEF SubscribeHandler, SubscribeHandlerThrows, CallbackReturns,
       CallbackThrows, Idle, mapVars, topicVars
  <2>2. subscriptions \subseteq subscriptions'
    BY <1>10 DEF SubscribeHandler, SubscribeHandlerThrows, subVars
  <2>3. \/ <<arg, hdl>> \in subscriptions'
        \/ \E t \in Unsubscribable : <<arg, t>> \in channelToTopic
    BY <1>10 DEF SubscribeHandler, SubscribeHandlerThrows, BridgeInvariant,
       ChannelTablesAgree, TopicsOf
  <2> QED
    BY <1>0, <2>1, <2>2, <2>3
<1>11. CASE UnsubscribeHandler
  BY <1>0, <1>11 DEF UnsubscribeHandler, DropSubscription, CallbackReturns,
     mapVars, topicVars
<1>12. CASE \/ ClientAdvertiseHandler \/ ClientAdvertiseThrows
            \/ ClientUnadvertiseHandler \/ ClientMessageHandler
  BY <1>0, <1>12 DEF ClientAdvertiseHandler, ClientAdvertiseThrows,
     ClientUnadvertiseHandler, ClientMessageHandler, CallbackReturns,
     CallbackThrows, MessageCallbackReturns, Idle, mapVars, subVars, topicVars,
     bridgeVars
<1>13. ASSUME NEW k \in ClientChannels, CloseUnadvertiseHandler(k)
       PROVE  SubscriptionsServed'
  BY <1>1, <1>13 DEF CloseUnadvertiseHandler, CloseUnadvertise, mapVars, subVars,
     topicVars
<1>14. ASSUME NEW ch \in ChannelIds, CloseUnsubscribeHandler(ch)
       PROVE  SubscriptionsServed'
  <2>1. hdl \notin clients
    BY <1>0, <1>14 DEF CloseUnsubscribeHandler, CloseUnsubscribe, Closing,
       HandlerReferencesValid
  <2> QED
    BY <1>0, <1>14, <2>1 DEF CloseUnsubscribeHandler, CloseUnsubscribe,
       DropSubscription, mapVars, topicVars
<1>15. ASSUME NEW t \in Topics, NEW ch \in ChannelIds, RemoveTopic(t, ch)
       PROVE  SubscriptionsServed'
  <2>1. /\ pc' = pc /\ hdl' = hdl /\ arg' = arg /\ clients' = clients
        /\ subscriptionsByChannel' =
             [c \in Conns |-> {m \in subscriptionsByChannel[c] : m[1] # ch}]
        /\ subscriptions' = {s \in subscriptions : s[1] # ch}
        /\ channelToTopic' = {p \in channelToTopic : p[1] # ch}
    BY <1>15 DEF RemoveTopic, RemoveChannel, loopVars
  <2>2. pc # "unsubscribe"
    BY <1>15 DEF RemoveTopic, RemoveChannel, Locked, Callbacks, AllOps
  <2>3. ASSUME NEW c \in clients, NEW m \in subscriptionsByChannel'[c]
        PROVE  \/ <<m[1], c>> \in subscriptions'
               \/ pc = "subscribe" /\ hdl = c /\ arg = m[1]
               \/ \E u \in Unsubscribable : <<m[1], u>> \in channelToTopic'
    <3>1. m \in subscriptionsByChannel[c] /\ m[1] # ch
      BY <1>0, <2>1, <2>3
    <3>2. CASE <<m[1], c>> \in subscriptions
      BY <2>1, <3>1, <3>2
    <3>3. ASSUME NEW u \in Unsubscribable, <<m[1], u>> \in channelToTopic
          PROVE  <<m[1], u>> \in channelToTopic'
      BY <2>1, <3>1, <3>3
    <3> QED
      BY <1>0, <3>1, <3>2, <3>3
  <2> QED
    BY <2>1, <2>2, <2>3
<1>16. ASSUME NEW t \in Topics, AddTopic(t) PROVE SubscriptionsServed'
  BY <1>0, <1>16 DEF AddTopic, AddChannel, loopVars, subVars
<1>17. CASE \/ \E c \in Conns : PeerLost(c) /\ UNCHANGED bridgeVars
            \/ \E t \in Topics : GraphChange(t) \/ SkipTopic(t)
            \/ \E c \in Conns : RejectConnection(c) /\ UNCHANGED bridgeVars
            \/ GraphEventTriggers \/ QueryGraph \/ LockSubscriptions
            \/ UnlockSubscriptions \/ BroadcastTopics
  BY <1>1, <1>17 DEF PeerLost, GraphChange, SkipTopic, RejectConnection,
     GraphEventTriggers, QueryGraph, LockSubscriptions, UnlockSubscriptions,
     BroadcastTopics, BroadcastChannels, serverVars, bridgeVars, mapVars,
     loopVars, subVars, topicVars
<1> QED
  BY <1>2, <1>3, <1>4, <1>5, <1>6, <1>7, <1>8, <1>9, <1>10, <1>11, <1>12, <1>13,
     <1>14, <1>15, <1>16, <1>17
     DEF Next, Environment, RunLoopBegins, RunLoopContinues, Handlers, PollThread

\* The invariant of the bridge is inductive.
LEMMA BridgeInvariantStep ==
  BridgeInvariant /\ [Next]_vars => BridgeInvariant'
<1> SUFFICES ASSUME BridgeInvariant, [Next]_vars PROVE BridgeInvariant'
  OBVIOUS
<1>1. ServerInvariant'
  BY StepSimulates, InvariantStep DEF BridgeInvariant
<1>2. CASE Next
  BY <1>1, <1>2, BridgeTypeStep, PollingStep, TablesStep, OrphanStep, ServedStep
     DEF BridgeInvariant
<1>3. CASE UNCHANGED vars
  <2>1. TypeOK' /\ PollingLocalsValid'
    BY <1>3 DEF vars, serverVars, bridgeVars, BridgeInvariant, TypeOK,
       ServerTypeOK, PollingLocalsValid
  <2>2. ChannelTablesAgree'
    <3>1. /\ channels' = channels /\ pc' = pc /\ arg' = arg
          /\ advertisedTopics' = advertisedTopics
          /\ channelToTopic' = channelToTopic
          /\ subscribedChannels' = subscribedChannels
      BY <1>3 DEF vars, serverVars, bridgeVars
    <3>2. TablesMatch'
      <4>1. TablesMatch
        BY DEF BridgeInvariant, ChannelTablesAgree
      <4> QED
        BY <3>1, <4>1, Zenon DEF TablesMatch
    <3>3. TopicsOf(arg)' = TopicsOf(arg)
      BY <3>1 DEF TopicsOf
    <3> QED
      BY <3>1, <3>2, <3>3 DEF BridgeInvariant, ChannelTablesAgree
  <2>3. NoOrphanSubscription' /\ SubscriptionsServed'
    BY <1>3 DEF vars, serverVars, bridgeVars, BridgeInvariant,
       NoOrphanSubscription, UnsubscribePending, SubscriptionsServed
  <2> QED
    BY <1>1, <2>1, <2>2, <2>3 DEF BridgeInvariant
<1> QED
  BY <1>2, <1>3

\* It holds in the initial state.
LEMMA BridgeInvariantInit == Init => BridgeInvariant
<1> SUFFICES ASSUME Init PROVE BridgeInvariant
  OBVIOUS
<1>1. ServerInvariant
  BY InvariantInit DEF Init
<1>2. graphEvent \in BOOLEAN /\ someNew \in BOOLEAN
  BY Zenon DEF Init
<1>3. TypeOK
  BY <1>1, <1>2, BridgeAssumption DEF Init, TypeOK, ServerInvariant
<1>4. PollingLocalsValid /\ ChannelTablesAgree
  BY DEF Init, ServerInit, PollingLocalsValid, ChannelTablesAgree, TablesMatch
<1>5. NoOrphanSubscription /\ SubscriptionsServed
  BY DEF Init, ServerInit, NoOrphanSubscription, SubscriptionsServed
<1> QED
  BY <1>1, <1>3, <1>4, <1>5 DEF BridgeInvariant

\* For any number of clients, topics and graph changes, in every interleaving of
\* the run loop and the polling thread, the bridge keeps its invariant.
THEOREM BridgeInvariance == Spec => []BridgeInvariant
  BY BridgeInvariantInit, BridgeInvariantStep, PTL DEF Spec

\* No ROS subscription outlives the client it was made for.
THEOREM BridgeNoOrphans == Spec => []NoOrphanSubscription
<1>1. BridgeInvariant => NoOrphanSubscription
  BY DEF BridgeInvariant
<1> QED
  BY <1>1, BridgeInvariance, PTL

\* Every subscription of a client is backed by a ROS subscription, unless its
\* callback is still to run or ROS refused it.
THEOREM BridgeServesSubscriptions == Spec => []SubscriptionsServed
<1>1. BridgeInvariant => SubscriptionsServed
  BY DEF BridgeInvariant
<1> QED
  BY <1>1, BridgeInvariance, PTL

\* The channel tables of server and bridge agree.
THEOREM BridgeTablesAgree == Spec => []ChannelTablesAgree
<1>1. BridgeInvariant => ChannelTablesAgree
  BY DEF BridgeInvariant
<1> QED
  BY <1>1, BridgeInvariance, PTL

\* What updateAdvertisedTopics computed without the mutex is still right when it
\* is used under it.
THEOREM BridgePollingLocals == Spec => []PollingLocalsValid
<1>1. BridgeInvariant => PollingLocalsValid
  BY DEF BridgeInvariant
<1> QED
  BY <1>1, BridgeInvariance, PTL

\* Each variable of the bridge and of its server keeps its type.
THEOREM BridgeTypeCorrect == Spec => []TypeOK
<1>1. BridgeInvariant => TypeOK
  BY DEF BridgeInvariant
<1> QED
  BY <1>1, BridgeInvariance, PTL

-----------------------------------------------------------------------------
(* What the clients are told. *)

\* The run loop may lose a client, or give a new one all channels there are.
LEMMA RunLoopTells ==
  ASSUME ServerInvariant,
         \/ \E c \in Conns : PeerLost(c)
         \/ RunLoopBegins
         \/ RunLoopContinues
         \/ RunLoopCallbacks
  PROVE  \A c \in Reachable' :
           told'[c] = channels \/ (c \in Reachable /\ told'[c] = told[c])
<1> USE DEF Reachable, netVars, mapVars
<1>0. /\ link \in [Conns -> {"none", "open", "lost", "closed"}]
      /\ told \in [Conns -> SUBSET ChannelIds]
      /\ clients \subseteq Conns
  BY DEF ServerInvariant, ServerTypeOK
<1>1. CASE UNCHANGED <<link, told, clients>>
  BY <1>1
<1>2. ASSUME NEW c \in Conns,
             \/ PeerLost(c) \/ RejectConnection(c) \/ HandleConnectionOpened(c)
             \/ HandleConnectionClosed(c)
      PROVE  \A d \in Reachable' :
               told'[d] = channels \/ (d \in Reachable /\ told'[d] = told[d])
  BY <1>0, <1>2 DEF PeerLost, RejectConnection, HandleConnectionOpened,
     HandleConnectionClosed
<1>3. CASE CloseReturns
  BY <1>0, <1>3 DEF CloseReturns
<1>4. CASE \/ \E c \in Conns, o \in Ops, n \in 0..MaxBatch :
                HandleTextMessage(c, o, n)
           \/ \E c \in Conns, k \in ClientChannels : HandleBinaryMessage(c, k)
           \/ \E s \in SubIds, ch \in ChannelIds : SubscribeEntry(s, ch)
           \/ \E s \in SubIds : UnsubscribeEntry(s)
           \/ \E k \in ClientChannels : AdvertiseEntry(k) \/ UnadvertiseEntry(k)
           \/ MalformedEntry \/ TextMessageDone \/ EraseClientChannels
           \/ RunLoopCallbacks
  BY <1>1, <1>4 DEF HandleTextMessage, HandleBinaryMessage, SubscribeEntry,
     UnsubscribeEntry, AdvertiseEntry, UnadvertiseEntry, MalformedEntry,
     TextMessageDone, EraseClientChannels, RunLoopCallbacks, CallbackReturns,
     CallbackThrows, MessageCallbackReturns, CloseUnadvertise, CloseUnsubscribe
<1> QED
  BY <1>2, <1>3, <1>4 DEF RunLoopBegins, RunLoopContinues

\* A client that does not know all channels is due to be told.
LEMMA BroadcastStep ==
  ASSUME BridgeInvariant, BroadcastDue, Next
  PROVE  BroadcastDue'
<1> USE DEF BroadcastDue
<1>0. /\ ServerInvariant
      /\ told \in [Conns -> SUBSET ChannelIds]
      /\ Reachable \subseteq Conns
  BY DEF BridgeInvariant, ServerInvariant, ServerTypeOK, Reachable
<1>1. CASE \/ \E t \in Topics : GraphChange(t)
           \/ UNCHANGED serverVars /\ UNCHANGED <<newTopics, someNew, ppc>>
  BY <1>1 DEF GraphChange, serverVars, pollVars, Reachable
<1>2. CASE \/ \E c \in Conns : PeerLost(c) /\ UNCHANGED bridgeVars
           \/ RunLoopBegins /\ UNCHANGED bridgeVars
           \/ RunLoopContinues /\ UNCHANGED bridgeVars
           \/ Handlers
  <2>1. /\ UNCHANGED channels
        /\ UNCHANGED <<ppc, newTopics, someNew>>
    BY <1>2, HandlersKeepTables DEF Environment
  <2>2. \/ \E c \in Conns : PeerLost(c)
        \/ RunLoopBegins
        \/ RunLoopContinues
        \/ RunLoopCallbacks
    BY <1>2 DEF Handlers, SubscribeHandler, SubscribeHandlerThrows,
       UnsubscribeHandler, ClientAdvertiseHandler, ClientAdvertiseThrows,
       ClientUnadvertiseHandler,
       ClientMessageHandler, CloseUnadvertiseHandler, CloseUnsubscribeHandler,
       RunLoopCallbacks
  <2> QED
    BY <1>0, <2>1, <2>2, RunLoopTells
<1>3. CASE \/ GraphEventTriggers \/ QueryGraph \/ LockSubscriptions
           \/ UnlockSubscriptions \/ (\E t \in Topics : SkipTopic(t))
  <2>1. UNCHANGED <<channels, told, Reachable>>
    BY <1>3 DEF GraphEventTriggers, QueryGraph, LockSubscriptions,
       UnlockSubscriptions, SkipTopic, serverVars, Reachable
  <2> QED
    BY <1>3, <2>1 DEF GraphEventTriggers, QueryGraph, LockSubscriptions,
       UnlockSubscriptions, SkipTopic
<1>4. ASSUME NEW t \in Topics, NEW ch \in ChannelIds, RemoveTopic(t, ch)
      PROVE  BroadcastDue'
  <2>1. Reachable' = Reachable
    BY <1>4 DEF RemoveTopic, RemoveChannel, Reachable
  <2>2. \A c \in Reachable : told'[c] = told[c] \ {ch}
    BY <1>0, <1>4 DEF RemoveTopic, RemoveChannel
  <2> QED
    BY <1>4, <2>1, <2>2 DEF RemoveTopic, RemoveChannel
<1>5. ASSUME NEW t \in Topics, AddTopic(t) PROVE BroadcastDue'
  BY <1>5 DEF AddTopic
<1>6. CASE BroadcastTopics
  <2>1. Reachable' = Reachable /\ channels' = channels /\ newTopics' = newTopics
    BY <1>6 DEF BroadcastTopics, BroadcastChannels, mapVars, Reachable
  <2>2. \A c \in Reachable : told'[c] = channels
    BY <1>0, <1>6 DEF BroadcastTopics, BroadcastChannels, ServerInvariant,
       ToldChannelsExist
  <2>3. newTopics = {}
    BY <1>6 DEF BroadcastTopics
  <2> QED
    BY <2>1, <2>2, <2>3
<1> QED
  BY <1>1, <1>2, <1>3, <1>4, <1>5, <1>6 DEF Next, Environment, PollThread

\* Outside of an update every connected client knows exactly the channels there
\* are, for any number of clients and topics, also if it connected in between.
THEOREM BridgeClientsUpToDate == Spec => []ClientsUpToDate
<1>1. Init => BroadcastDue
  BY DEF Init, ServerInit, BroadcastDue, Reachable
<1>2. BridgeInvariant /\ BroadcastDue /\ [Next]_vars => BroadcastDue'
  <2>1. BroadcastDue /\ UNCHANGED vars => BroadcastDue'
    BY DEF BroadcastDue, vars, serverVars, bridgeVars, Reachable
  <2> QED
    BY <2>1, BroadcastStep
<1>3. BroadcastDue => ClientsUpToDate
  BY DEF BroadcastDue, ClientsUpToDate
<1> QED
  BY <1>1, <1>2, <1>3, BridgeInvariance, PTL DEF Spec

-----------------------------------------------------------------------------
(* What the clients publish. *)

\* A handler for a client publication drops one publisher at most, and the
\* client's entry only with its last.
LEMMA DropKeepsEntries ==
  ASSUME publications \subseteq Conns \X ClientChannels,
         \A p \in publications : p[1] \in publicationClients,
         NEW c \in Conns, NEW k \in ClientChannels, DropPublication(c, k)
  PROVE  /\ publications' \subseteq publications
         /\ \A p \in publications' : p # <<c, k>> /\ p[1] \in publicationClients'
<1>1. publications' = publications \ {<<c, k>>}
  BY DEF DropPublication
<1>2. ASSUME NEW p \in publications' PROVE p[1] \in publicationClients'
  <2>1. p \in publications /\ p # <<c, k>> /\ p = <<p[1], p[2]>>
    BY <1>1
  <2>2. p[1] = c => p[2] # k
    BY <2>1
  <2> QED
    BY <2>1, <2>2 DEF DropPublication
<1> QED
  BY <1>1, <1>2

\* A publisher is made for a channel in _clientChannels, leaves that map only on
\* the way to its handler, and is on the list of the disconnect handler.
LEMMA PublishersStep ==
  ASSUME BridgeInvariant, CallbackArgumentsValid, PublishersHaveOwners, Next
  PROVE  PublishersHaveOwners'
<1> USE DEF PublishersHaveOwners, netVars, mapVars, pubVars
<1>0. /\ HandlerReferencesValid /\ ClosedConnectionsOwnNothing
      /\ clients \subseteq Conns
      /\ publications \subseteq Conns \X ClientChannels
      /\ clientChannels \in [Conns -> SUBSET ClientChannels]
      /\ advertisedChannels \in [Conns -> SUBSET ClientChannels]
      /\ pc # "idle" => hdl \in Conns
  BY DEF BridgeInvariant, TypeOK, ServerTypeOK, ServerInvariant,
     HandlerReferencesValid
<1>1. CASE UNCHANGED <<clients, clientChannels, pc, hdl, arg, oldAdvertised,
                       publicationClients, publications>>
  BY <1>1
<1>2. ASSUME NEW c \in Conns, HandleConnectionOpened(c), UNCHANGED bridgeVars
      PROVE  PublishersHaveOwners'
  BY <1>0, <1>2 DEF HandleConnectionOpened, loopVars, bridgeVars
<1>3. ASSUME NEW c \in Conns, HandleConnectionClosed(c), UNCHANGED bridgeVars
      PROVE  PublishersHaveOwners'
  <2>1. /\ pc = "idle" /\ pc' = "closeUnadvertise" /\ hdl' = c
        /\ clients' = clients \ {c} /\ oldAdvertised' = advertisedChannels[c]
        /\ UNCHANGED <<clientChannels, publications, publicationClients>>
    BY <1>3 DEF HandleConnectionClosed, bridgeVars
  <2>2. ASSUME NEW p \in publications
        PROVE  /\ p[1] \in clients /\ p[2] \in clientChannels[p[1]]
               /\ p[2] \in advertisedChannels[p[1]]
    BY <1>0, <2>1, <2>2 DEF ClosedConnectionsOwnNothing
  <2> QED
    BY <2>1, <2>2
<1>4. ASSUME NEW c \in Conns, UNCHANGED bridgeVars,
             \/ \E o \in Ops, n \in 0..MaxBatch : HandleTextMessage(c, o, n)
             \/ \E k \in ClientChannels : HandleBinaryMessage(c, k)
      PROVE  PublishersHaveOwners'
  BY <1>0, <1>4 DEF HandleTextMessage, HandleBinaryMessage, bridgeVars
<1>5. ASSUME UNCHANGED bridgeVars,
             \/ \E s \in SubIds, ch \in ChannelIds : SubscribeEntry(s, ch)
             \/ \E s \in SubIds : UnsubscribeEntry(s)
      PROVE  PublishersHaveOwners'
  <2>1. pc = "entries" /\ UNCHANGED <<clients, clientChannels, publications,
                                     publicationClients>>
    BY <1>5 DEF SubscribeEntry, UnsubscribeEntry, NextEntry, SkipEntry, bridgeVars
  <2> QED
    BY <2>1
<1>6. ASSUME NEW k \in ClientChannels, AdvertiseEntry(k) \/ UnadvertiseEntry(k),
             UNCHANGED bridgeVars
      PROVE  PublishersHaveOwners'
  BY <1>0, <1>6 DEF AdvertiseEntry, UnadvertiseEntry, NextEntry, SkipEntry,
     CallBack, bridgeVars
<1>7. ASSUME MalformedEntry \/ TextMessageDone \/ CloseReturns, UNCHANGED bridgeVars
      PROVE  PublishersHaveOwners'
  BY <1>7 DEF MalformedEntry, TextMessageDone, CloseReturns, Idle, bridgeVars
<1>8. ASSUME EraseClientChannels, UNCHANGED bridgeVars PROVE PublishersHaveOwners'
  <2>1. /\ pc = "closeUnadvertise" /\ oldAdvertised = {}
        /\ hdl \in Conns /\ hdl \notin clients
    BY <1>0, <1>8 DEF EraseClientChannels, Closing, HandlerReferencesValid
  <2>2. \A p \in publications : p[1] \in clients /\ p[1] # hdl
    BY <2>1
  <2> QED
    BY <1>0, <1>8, <2>1, <2>2 DEF EraseClientChannels, bridgeVars
<1>9. CASE \/ SubscribeHandler \/ SubscribeHandlerThrows \/ UnsubscribeHandler
           \/ ClientMessageHandler
           \/ \E ch \in ChannelIds : CloseUnsubscribeHandler(ch)
  BY <1>9 DEF SubscribeHandler, SubscribeHandlerThrows, UnsubscribeHandler,
     ClientMessageHandler, CloseUnsubscribeHandler, CallbackReturns,
     CallbackThrows, MessageCallbackReturns,
     CloseUnsubscribe, Idle, bridgeVars
<1>10. CASE ClientAdvertiseHandler
  <2>1. hdl \in clients /\ arg \in clientChannels[hdl]
    BY <1>0, <1>10 DEF ClientAdvertiseHandler, CallbackArgumentsValid, Callbacks,
       AllOps, HandlerReferencesValid
  <2> QED
    BY <1>10, <2>1 DEF ClientAdvertiseHandler, CallbackReturns
<1>11. CASE ClientAdvertiseThrows
  BY <1>11 DEF ClientAdvertiseThrows, CallbackThrows, Idle
<1>12. CASE ClientUnadvertiseHandler
  <2>1. hdl \in Conns /\ arg \in ClientChannels /\ pc = "unadvertise"
    BY <1>0, <1>12 DEF ClientUnadvertiseHandler, HandlerReferencesValid
  <2>2. /\ publications' \subseteq publications
        /\ \A p \in publications' :
             p # <<hdl, arg>> /\ p[1] \in publicationClients'
    BY <1>0, <1>12, <2>1, DropKeepsEntries DEF ClientUnadvertiseHandler
  <2>3. \A p \in publications' : p[1] = hdl => p[2] # arg
    <3>1. \A p \in publications' : p = <<p[1], p[2]>>
      BY <1>0, <2>2
    <3> QED
      BY <2>2, <3>1
  <2> QED
    BY <1>12, <2>1, <2>2, <2>3 DEF ClientUnadvertiseHandler, CallbackReturns
<1>13. ASSUME NEW k \in ClientChannels, CloseUnadvertiseHandler(k)
       PROVE  PublishersHaveOwners'
  <2>1. hdl \in Conns /\ pc = "closeUnadvertise"
    BY <1>0, <1>13 DEF CloseUnadvertiseHandler, CloseUnadvertise
  <2>2. /\ publications' \subseteq publications
        /\ \A p \in publications' :
             p # <<hdl, k>> /\ p[1] \in publicationClients'
    BY <1>0, <1>13, <2>1, DropKeepsEntries DEF CloseUnadvertiseHandler
  <2>3. \A p \in publications' : p[1] = hdl => p[2] # k
    <3>1. \A p \in publications' : p = <<p[1], p[2]>>
      BY <1>0, <2>2
    <3> QED
      BY <2>2, <3>1
  <2> QED
    BY <1>13, <2>1, <2>2, <2>3 DEF CloseUnadvertiseHandler, CloseUnadvertise
<1>14. CASE \/ \E c \in Conns : PeerLost(c) /\ UNCHANGED bridgeVars
            \/ \E c \in Conns : RejectConnection(c) /\ UNCHANGED bridgeVars
            \/ \E t \in Topics : GraphChange(t) \/ AddTopic(t) \/ SkipTopic(t)
            \/ \E t \in Topics, ch \in ChannelIds : RemoveTopic(t, ch)
            \/ GraphEventTriggers \/ QueryGraph \/ LockSubscriptions
            \/ UnlockSubscriptions \/ BroadcastTopics
  BY <1>1, <1>14 DEF PeerLost, RejectConnection, GraphChange, AddTopic, AddChannel,
     SkipTopic, RemoveTopic, RemoveChannel, GraphEventTriggers, QueryGraph,
     LockSubscriptions, UnlockSubscriptions, BroadcastTopics, BroadcastChannels,
     serverVars, loopVars, bridgeVars
<1> QED
  BY <1>2, <1>3, <1>4, <1>5, <1>6, <1>7, <1>8, <1>9, <1>10, <1>11, <1>12, <1>13,
     <1>14
     DEF Next, Environment, RunLoopBegins, RunLoopContinues, Handlers, PollThread

\* What the callbacks may rely on holds in the bridge.
THEOREM BridgeArgumentsValid == Spec => []CallbackArgumentsValid
  BY BridgeImplementsServer, ServerArgumentsValid, PTL

\* For any number of clients and of channels they advertise, no publisher is
\* without a client that advertises it, and none outlives its client.
THEOREM BridgePublishersHaveOwners == Spec => []PublishersHaveOwners
<1>1. Init => PublishersHaveOwners
  BY DEF Init, PublishersHaveOwners
<1>2. BridgeInvariant /\ CallbackArgumentsValid /\ PublishersHaveOwners
        /\ [Next]_vars => PublishersHaveOwners'
  <2>1. PublishersHaveOwners /\ UNCHANGED vars => PublishersHaveOwners'
    BY DEF PublishersHaveOwners, vars, serverVars, bridgeVars
  <2> QED
    BY <2>1, PublishersStep
<1> QED
  BY <1>1, <1>2, BridgeInvariance, BridgeArgumentsValid, PTL DEF Spec

-----------------------------------------------------------------------------
(* The mutual wait. *)

\* While the two threads wait for each other no step ends it: the handler needs
\* _subscriptionsMutex, the polling thread _clientsChannelMutex, and topics that
\* are skipped are not those it waits for.
LEMMA MutualWaitStep == MutualWait /\ [Next]_vars => MutualWait'
<1> SUFFICES ASSUME MutualWait, [Next]_vars PROVE MutualWait'
  OBVIOUS
<1> USE DEF MutualWait
<1>1. CASE UNCHANGED <<pc, ppc, removedTopics, newTopics>>
  BY <1>1
<1>2. CASE Environment
  BY <1>1, <1>2 DEF Environment, PeerLost, GraphChange, loopVars, serverVars,
     pollVars, bridgeVars
<1>3. CASE RunLoopBegins
  BY <1>3 DEF RunLoopBegins, RejectConnection, HandleConnectionOpened,
     HandleConnectionClosed, HandleTextMessage, HandleBinaryMessage
<1>4. CASE RunLoopContinues
  BY <1>4 DEF RunLoopContinues, SubscribeEntry, UnsubscribeEntry, AdvertiseEntry,
     UnadvertiseEntry, NextEntry, MalformedEntry, TextMessageDone,
     EraseClientChannels, CloseReturns
<1>5. CASE Handlers
  BY <1>5 DEF Handlers, SubscriptionsLocked, SubscribeHandler,
     SubscribeHandlerThrows, UnsubscribeHandler, ClientAdvertiseHandler,
     ClientAdvertiseThrows, ClientUnadvertiseHandler,
     ClientMessageHandler, MessageCallbackReturns, CloseUnadvertiseHandler,
     CloseUnadvertise, CloseUnsubscribeHandler
<1>6. CASE PollThread
  <2>1. ASSUME NEW t \in Topics, SkipTopic(t) PROVE MutualWait'
    BY <2>1 DEF SkipTopic, serverVars
  <2>2. Locked
    BY DEF Locked, Callbacks, AllOps
  <2> QED
    BY <1>6, <2>1, <2>2 DEF PollThread, GraphEventTriggers, QueryGraph,
       LockSubscriptions, RemoveTopic, RemoveChannel, AddTopic, AddChannel,
       UnlockSubscriptions, BroadcastTopics
<1>7. CASE UNCHANGED vars
  BY <1>1, <1>7 DEF vars, serverVars, bridgeVars
<1> QED
  BY <1>2, <1>3, <1>4, <1>5, <1>6, <1>7 DEF Next

\* A bridge whose two threads once wait for each other does so for ever, whatever
\* its clients, the graph and the scheduler do: the exception that the liveness
\* properties name is a deadlock and not a delay.
THEOREM MutualWaitIsForEver == Spec => [](MutualWait => []MutualWait)
  BY MutualWaitStep, PTL DEF Spec

-----------------------------------------------------------------------------
(* The bridge, composed with the server, implements the directory of       *)
(* channels: what its clients may rely on, whatever its threads and maps   *)
(* do.                                                                     *)

\* A step that changes nothing of the directory.
LEMMA Stutters ==
  ASSUME UNCHANGED <<nextChannelId, channelToTopic, link, subscriptions>>,
         View' = View, Wanted' = Wanted
  PROVE  UNCHANGED Directory!dirVars
  BY DEF Directory!dirVars, View, Wanted

\* Initially the directory is empty.
LEMMA DirectoryInit == Init => Directory!DirInit
<1> SUFFICES ASSUME Init PROVE Directory!DirInit
  OBVIOUS
<1>1. View = [c \in Conns |-> {}]
  BY DEF Init, ServerInit, View, Reachable
<1>2. Wanted = [c \in Conns |-> {}]
  BY DEF Init, ServerInit, Wanted
<1> QED
  BY <1>1, <1>2 DEF Init, ServerInit, Directory!DirInit, View, Wanted

\* The ids of the directory are the channels of the server.
LEMMA IdsAreChannels ==
  ASSUME TypeOK, TablesMatch
  PROVE  Directory!Ids = channels
<1>1. ASSUME NEW o \in channelToTopic PROVE o[1] \in channels
  <2>1. o \in ChannelIds \X Topics
    BY <1>1 DEF TypeOK
  <2>2. o = <<o[1], o[2]>> /\ o[1] \in ChannelIds /\ o[2] \in Topics
    BY <2>1
  <2> QED
    BY <1>1, <2>2 DEF TablesMatch
<1>2. ASSUME NEW ch \in channels PROVE \E o \in channelToTopic : o[1] = ch
  <2>1. ch \in ChannelIds
    BY <1>2 DEF TypeOK, ServerTypeOK
  <2>2. PICK t \in Topics : <<ch, t>> \in channelToTopic
    BY <1>2, <2>1 DEF TablesMatch
  <2> QED
    BY <2>2
<1> QED
  BY <1>1, <1>2 DEF Directory!Ids

-----------------------------------------------------------------------------
(* The polling thread. *)

\* A topic gets a channel, ...
LEMMA AddTopicOffers ==
  ASSUME BridgeInvariant, NEW t \in Topics, AddTopic(t)
  PROVE  Directory!Offer(t)
<1>1. View' = View /\ Wanted' = Wanted
  BY ViewKept, WantedKept DEF AddTopic, AddChannel, netVars
<1>2. ASSUME NEW o \in channelToTopic PROVE o[2] # t
  <2>1. o \in ChannelIds \X Topics
    BY <1>2 DEF BridgeInvariant, TypeOK
  <2>2. o = <<o[1], o[2]>> /\ o[1] \in ChannelIds /\ o[2] \in Topics
    BY <2>1
  <2>3. <<o[2], o[1]>> \in advertisedTopics
    BY <1>2, <2>2 DEF BridgeInvariant, ChannelTablesAgree, TablesMatch
  <2>4. o[2] \notin newTopics
    BY <2>3 DEF BridgeInvariant, PollingLocalsValid
  <2> QED
    BY <2>4 DEF AddTopic
<1> QED
  BY <1>1, <1>2 DEF AddTopic, AddChannel, netVars, subVars, Directory!Offer,
     View, Wanted

\* ... loses it, ...
LEMMA RemoveTopicWithdraws ==
  ASSUME BridgeInvariant, NEW t \in Topics, NEW ch \in ChannelIds,
         RemoveTopic(t, ch)
  PROVE  Directory!Withdraw(ch)
<1>1. ch \in Directory!Ids
  <2>1. <<ch, t>> \in channelToTopic
    BY DEF RemoveTopic, BridgeInvariant, ChannelTablesAgree, TablesMatch
  <2> QED
    BY <2>1 DEF Directory!Ids
<1>2. /\ View' = [c \in Conns |-> View[c] \ {ch}]
      /\ Wanted' = [c \in Conns |-> Wanted[c] \ {ch}]
  BY RemovedFromView DEF RemoveTopic
<1> QED
  BY <1>1, <1>2 DEF RemoveTopic, RemoveChannel, Directory!Withdraw, View, Wanted

\* ... and all clients are told of all channels.
LEMMA BroadcastAnnounces ==
  ASSUME BridgeInvariant, CallbackArgumentsValid, BroadcastTopics
  PROVE  Directory!Announce
<1>1. Directory!Ids = channels
  BY IdsAreChannels DEF BridgeInvariant, ChannelTablesAgree
<1>2. /\ View' = [c \in Conns |-> IF link[c] = "open" THEN channels ELSE {}]
      /\ Wanted' = Wanted
  BY BroadcastToView DEF BroadcastTopics, BridgeInvariant
<1> QED
  BY <1>1, <1>2 DEF BroadcastTopics, BroadcastChannels, mapVars, topicVars,
     subVars, Directory!Announce, View, Wanted

-----------------------------------------------------------------------------
(* Connections. *)

\* A connection is refused, made, lost or closed as in the directory.
LEMMA ConnectionSteps ==
  ASSUME BridgeInvariant, NEW c \in Conns, UNCHANGED bridgeVars
  PROVE  /\ RejectConnection(c) => Directory!Refuse(c)
         /\ HandleConnectionOpened(c) => Directory!Connect(c)
         /\ PeerLost(c) => Directory!Lose(c)
         /\ HandleConnectionClosed(c) => Directory!Forget(c)
<1>1. ServerInvariant /\ Directory!Ids = channels
  BY IdsAreChannels DEF BridgeInvariant, ChannelTablesAgree
<1>2. RejectConnection(c) => Directory!Refuse(c)
  BY <1>1, RejectedView DEF RejectConnection, mapVars, bridgeVars,
     Directory!Refuse, View, Wanted
<1>3. HandleConnectionOpened(c) => Directory!Connect(c)
  BY <1>1, OpenedView DEF HandleConnectionOpened, bridgeVars,
     Directory!Connect, View, Wanted
<1>4. PeerLost(c) => Directory!Lose(c)
  BY <1>1, LostView DEF PeerLost, mapVars, bridgeVars, Directory!Lose, View,
     Wanted
<1>5. HandleConnectionClosed(c) => Directory!Forget(c)
  BY <1>1, ClosedView DEF HandleConnectionClosed, netVars, bridgeVars,
     Directory!Forget, View, Wanted
<1> QED
  BY <1>2, <1>3, <1>4, <1>5

\* When handleConnectionClosed returns no stream of the connection is left.
LEMMA ReturnCloses ==
  ASSUME BridgeInvariant, CloseReturns, UNCHANGED bridgeVars
  PROVE  hdl \in Conns /\ Directory!Close(hdl)
<1>1. /\ hdl \in Conns /\ link[hdl] = "lost" /\ Wanted[hdl] = {}
      /\ View' = View /\ Wanted' = Wanted
  BY ReturnedView DEF BridgeInvariant
<1>2. subscriptionsByChannel[hdl] = {}
  BY <1>1 DEF Wanted
<1>3. ASSUME NEW s \in subscriptions PROVE s[2] # hdl
  BY <1>2, <1>3 DEF CloseReturns, BridgeInvariant, NoOrphanSubscription,
     UnsubscribePending
<1> QED
  BY <1>1, <1>3 DEF CloseReturns, mapVars, bridgeVars, Directory!Close, View,
     Wanted

-----------------------------------------------------------------------------
(* Subscriptions. *)

\* An entry of a subscribe message is refused, or the client wants a channel.
LEMMA SubscribeWants ==
  ASSUME BridgeInvariant, NEW s \in SubIds, NEW ch \in ChannelIds,
         SubscribeEntry(s, ch), UNCHANGED bridgeVars
  PROVE  \/ UNCHANGED Directory!dirVars
         \/ hdl \in Conns /\ Directory!Want(hdl, ch)
<1>1. UNCHANGED <<link, nextChannelId, channelToTopic, subscriptions>>
  BY DEF SubscribeEntry, netVars, bridgeVars
<1>2. ServerInvariant /\ Directory!Ids = channels
  BY IdsAreChannels DEF BridgeInvariant, ChannelTablesAgree
<1> QED
  BY <1>1, <1>2, SubscribedView, Stutters DEF Directory!Want, View, Wanted

\* An entry of an unsubscribe message is refused, or the client no longer wants
\* the channel.
LEMMA UnsubscribeUnwants ==
  ASSUME BridgeInvariant, NEW s \in SubIds, UnsubscribeEntry(s),
         UNCHANGED bridgeVars
  PROVE  \/ UNCHANGED Directory!dirVars
         \/ /\ hdl \in Conns
            /\ \E ch \in ChannelIds : Directory!Unwant(hdl, ch)
<1>1. UNCHANGED <<link, nextChannelId, channelToTopic, subscriptions>>
  BY DEF UnsubscribeEntry, netVars, bridgeVars
<1>2. ServerInvariant
  BY DEF BridgeInvariant
<1> QED
  BY <1>1, <1>2, UnsubscribedView, Stutters DEF Directory!Unwant, View, Wanted

\* subscribeHandler starts a stream that is wanted (or that ROS refuses), ...
LEMMA HandlerStarts ==
  ASSUME BridgeInvariant, CallbackArgumentsValid, SubscribeHandler
  PROVE  \/ UNCHANGED Directory!dirVars
         \/ /\ hdl \in Conns /\ arg \in ChannelIds
            /\ Directory!StartStream(hdl, arg)
<1>1. UNCHANGED <<link, told, clients, subscriptionsByChannel, nextChannelId,
                  channelToTopic>>
  BY DEF SubscribeHandler, CallbackReturns, netVars, mapVars, topicVars
<1>2. View' = View /\ Wanted' = Wanted
  BY <1>1, ViewKept, WantedKept
<1>3. hdl \in Conns /\ arg \in ChannelIds /\ arg \in Wanted[hdl]
  BY CallbackWanted DEF SubscribeHandler, BridgeInvariant
<1>4. \/ subscriptions' = subscriptions
      \/ subscriptions' = subscriptions \union {<<arg, hdl>>}
  BY DEF SubscribeHandler, subVars
<1> QED
  BY <1>1, <1>2, <1>3, <1>4, Stutters DEF Directory!StartStream, View, Wanted

\* ... and unsubscribeHandler ends one that is not, called for a message ...
LEMMA HandlerEnds ==
  ASSUME BridgeInvariant, CallbackArgumentsValid, UnsubscribeHandler
  PROVE  /\ hdl \in Conns /\ arg \in ChannelIds
         /\ Directory!EndStream(hdl, arg)
<1>1. /\ UNCHANGED <<link, told, clients, subscriptionsByChannel, nextChannelId,
                     channelToTopic>>
      /\ subscriptions' = subscriptions \ {<<arg, hdl>>}
  BY DEF UnsubscribeHandler, DropSubscription, CallbackReturns, netVars, mapVars,
     topicVars
<1>2. View' = View /\ Wanted' = Wanted
  BY <1>1, ViewKept, WantedKept
<1>3. hdl \in Conns /\ arg \in ChannelIds /\ arg \notin Wanted[hdl]
  BY CallbackWanted DEF UnsubscribeHandler, BridgeInvariant
<1> QED
  BY <1>1, <1>2, <1>3 DEF Directory!EndStream, View, Wanted

\* ... or for a connection that is gone.
LEMMA CloseEnds ==
  ASSUME BridgeInvariant, CallbackArgumentsValid, NEW ch \in ChannelIds,
         CloseUnsubscribeHandler(ch)
  PROVE  hdl \in Conns /\ Directory!EndStream(hdl, ch)
<1>1. /\ UNCHANGED <<link, told, clients, subscriptionsByChannel, nextChannelId,
                     channelToTopic>>
      /\ subscriptions' = subscriptions \ {<<ch, hdl>>}
  BY DEF CloseUnsubscribeHandler, CloseUnsubscribe, DropSubscription, netVars,
     mapVars, topicVars
<1>2. View' = View /\ Wanted' = Wanted
  BY <1>1, ViewKept, WantedKept
<1>3. hdl \in Conns /\ ch \notin Wanted[hdl]
  BY CallbackWanted DEF CloseUnsubscribeHandler, CloseUnsubscribe, Closing,
     BridgeInvariant
<1> QED
  BY <1>1, <1>2, <1>3 DEF Directory!EndStream, View, Wanted

-----------------------------------------------------------------------------
(* The refinement. *)

\* No other step changes the directory.
LEMMA OthersStutter ==
  ASSUME UNCHANGED <<link, told, clients, subscriptionsByChannel, nextChannelId,
                     channelToTopic, subscriptions>>
  PROVE  UNCHANGED Directory!dirVars
  BY ViewKept, WantedKept, Stutters

\* Every step of the bridge is one of the directory, or none.
LEMMA DirectoryStep ==
  ASSUME BridgeInvariant, CallbackArgumentsValid, [Next]_vars
  PROVE  [Directory!DirNext]_(Directory!dirVars)
<1> USE DEF Directory!DirNext, ChannelIds
<1>1. ASSUME NEW c \in Conns, UNCHANGED bridgeVars,
             \/ PeerLost(c) \/ RejectConnection(c) \/ HandleConnectionOpened(c)
             \/ HandleConnectionClosed(c)
      PROVE  Directory!DirNext
  BY <1>1, ConnectionSteps
<1>2. ASSUME CloseReturns, UNCHANGED bridgeVars PROVE Directory!DirNext
  BY <1>2, ReturnCloses
<1>3. ASSUME NEW s \in SubIds, NEW ch \in ChannelIds, SubscribeEntry(s, ch),
             UNCHANGED bridgeVars
      PROVE  [Directory!DirNext]_(Directory!dirVars)
  BY <1>3, SubscribeWants
<1>4. ASSUME NEW s \in SubIds, UnsubscribeEntry(s), UNCHANGED bridgeVars
      PROVE  [Directory!DirNext]_(Directory!dirVars)
  BY <1>4, UnsubscribeUnwants
<1>5. CASE SubscribeHandler \/ UnsubscribeHandler
  BY <1>5, HandlerStarts, HandlerEnds
<1>6. ASSUME NEW ch \in ChannelIds, CloseUnsubscribeHandler(ch)
      PROVE  Directory!DirNext
  BY <1>6, CloseEnds
<1>7. ASSUME NEW t \in Topics, AddTopic(t) PROVE Directory!DirNext
  BY <1>7, AddTopicOffers
<1>8. ASSUME NEW t \in Topics, NEW ch \in ChannelIds, RemoveTopic(t, ch)
      PROVE  Directory!DirNext
  BY <1>8, RemoveTopicWithdraws
<1>9. CASE BroadcastTopics
  BY <1>9, BroadcastAnnounces
<1>10. ASSUME UNCHANGED bridgeVars,
              \/ \E c \in Conns, o \in Ops, n \in 0..MaxBatch :
                   HandleTextMessage(c, o, n)
              \/ \E c \in Conns, k \in ClientChannels : HandleBinaryMessage(c, k)
              \/ \E k \in ClientChannels : AdvertiseEntry(k) \/ UnadvertiseEntry(k)
              \/ MalformedEntry \/ TextMessageDone \/ EraseClientChannels
       PROVE  UNCHANGED Directory!dirVars
  BY <1>10, OthersStutter DEF HandleTextMessage, HandleBinaryMessage,
     AdvertiseEntry, UnadvertiseEntry, SkipEntry, MalformedEntry,
     TextMessageDone, EraseClientChannels, netVars, mapVars, bridgeVars
<1>11. CASE \/ SubscribeHandlerThrows
            \/ ClientAdvertiseHandler \/ ClientAdvertiseThrows
            \/ ClientUnadvertiseHandler \/ ClientMessageHandler
            \/ \E k \in ClientChannels : CloseUnadvertiseHandler(k)
  BY <1>11, OthersStutter DEF SubscribeHandlerThrows, ClientAdvertiseHandler,
     ClientAdvertiseThrows,
     ClientUnadvertiseHandler, ClientMessageHandler, CloseUnadvertiseHandler,
     CallbackReturns, CallbackThrows, MessageCallbackReturns, CloseUnadvertise,
     netVars, mapVars, topicVars, subVars, bridgeVars
<1>12. CASE \/ \E t \in Topics : GraphChange(t) \/ SkipTopic(t)
            \/ GraphEventTriggers \/ QueryGraph \/ LockSubscriptions
            \/ UnlockSubscriptions
  BY <1>12, OthersStutter DEF GraphChange, SkipTopic, GraphEventTriggers,
     QueryGraph, LockSubscriptions, UnlockSubscriptions, serverVars, topicVars,
     subVars
<1>13. CASE UNCHANGED vars
  BY <1>13, OthersStutter DEF vars, serverVars, bridgeVars
<1> HIDE DEF Directory!DirNext, ChannelIds
<1> QED
  BY <1>1, <1>2, <1>3, <1>4, <1>5, <1>6, <1>7, <1>8, <1>9, <1>10, <1>11, <1>12,
     <1>13 DEF Next, Environment, RunLoopBegins, RunLoopContinues, Handlers,
     PollThread

\* The bridge implements the directory of channels: whatever its two threads
\* do between the maps of the server and its own, a client is told of channels
\* that exist, a ROS subscription is made only for a client that wants the
\* channel, is given up only when the client does not, goes with the channel in
\* one step, and none is left when handleConnectionClosed returns.
THEOREM BridgeImplementsDirectory == Spec => ImplementsDirectory
<1>1. BridgeInvariant /\ CallbackArgumentsValid /\ [Next]_vars
        => [Directory!DirNext]_(Directory!dirVars)
  BY DirectoryStep
<1> QED
  BY <1>1, BridgeInvariance, BridgeArgumentsValid, DirectoryInit, PTL
     DEF Spec, ImplementsDirectory, Directory!DirSpec
=============================================================================
