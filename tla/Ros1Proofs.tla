----------------------------- MODULE Ros1Proofs -----------------------------
(***************************************************************************)
(* The ROS 1 nodelet: its three kinds of threads, the run loop, the update *)
(* of the topics and the workers in their callbacks, keep the subscribers  *)
(* in line with the server, for any number of clients, topics and          *)
(* messages in flight.                                                     *)
(***************************************************************************)
EXTENDS Ros1Bridge, Ros1Polling, ServerProofs

USE DEF deliveryVars

\* unsubscribeHandler is being called for client c and channel ch, or still to
\* be called by the disconnect handler.
UnsubscribePending(c, ch) ==
  /\ hdl = c
  /\ \/ pc = "unsubscribe" /\ arg = ch
     \/ pc \in Closing /\ ch \in oldSubs

\* A subscriber is there only for a client that the server has subscribed, or is
\* about to unsubscribe, and only while the channel is advertised.
SubscribersWanted ==
  /\ subscribedChannels \subseteq channels
  /\ \A s \in subscriptions :
       /\ s[1] \in channels
       /\ \/ \E m \in subscriptionsByChannel[s[2]] : m[1] = s[1]
          \/ UnsubscribePending(s[2], s[1])

\* _subscriptionsMutex has one holder: updateAdvertisedTopics, or the run loop
\* in unsubscribeHandler for the subscriber that it destroys.
OneHolder ==
  /\ erasing # {} => upc = "update"
  /\ upc = "update" => destroying = {}
  /\ \A s \in destroying :
       /\ destroying = {s} /\ s \notin subscriptions
       /\ UnsubscribePending(s[2], s[1]) /\ pc # "closeUnadvertise"

\* The channels of the server and _channelToTopicAndDatatype are the same, one
\* per topic, and what updateAdvertisedTopics computed before it took the mutex
\* is still right when it uses it.
TopicsMatch ==
  /\ \A ch \in ChannelIds :
       ch \in channels <=> \E t \in Topics : <<ch, t>> \in topicOf
  /\ \A t, u \in Topics, ch, dh \in ChannelIds :
       <<ch, t>> \in topicOf /\ <<dh, u>> \in topicOf => (ch = dh <=> t = u)

UpdateLocalsValid ==
  /\ \A t \in removedTopics : \E ch \in channels : <<ch, t>> \in topicOf
  /\ \A p \in topicOf : p[2] \notin newTopics
  /\ channels \subseteq 1..nextChannelId

\* The invariants that carry each other: their conjunction is inductive.
NodeletInvariant ==
  /\ TypeOK
  /\ ServerInvariant
  /\ TopicsMatch
  /\ UpdateLocalsValid
  /\ SubscribersWanted
  /\ OneHolder
  /\ NoLateDelivery

\* Every step of the nodelet is a step of the server or leaves it alone.
LEMMA StepSimulates == [Next]_vars => [ServerNext]_serverVars
<1> SUFFICES ASSUME [Next]_vars PROVE [ServerNext]_serverVars
  OBVIOUS
<1>1. CASE Environment \/ Workers
  BY <1>1 DEF Environment, Workers, GraphChange, MessageArrives,
     SendMessageReturns, SendMessageWaits, RosMessageHandler, ServerNext
<1>2. CASE RunLoopBegins \/ RunLoopContinues
  BY <1>2 DEF ServerNext
<1>3. CASE Handlers
  BY <1>3 DEF Handlers, SubscribeHandler, UnsubscribeBegins, UnsubscribeReturns,
     CloseUnsubscribeBegins, CloseUnsubscribeReturns, ClientAdvertiseHandler,
     ClientAdvertiseRefused, ClientAdvertiseThrows, ClientUnadvertiseHandler,
     CloseUnadvertiseHandler, ClientMessageHandler, RunLoopCallbacks, ServerNext
<1>4. CASE TimerFires \/ GetTopicsFails \/ UpdateSteps
  BY <1>4 DEF TimerFires, GetTopicsFails, UpdateSteps, GetTopics,
     LockSubscriptions, RemoveTopic, SubscribersErased, AddTopic, SkipTopic,
     UnlockSubscriptions, BroadcastTopics, ScheduleUpdate, EmbedderCalls,
     ServerNext
<1>5. CASE UNCHANGED vars
  BY <1>5 DEF vars
<1> QED
  BY <1>1, <1>2, <1>3, <1>4, <1>5 DEF Next

\* The nodelet implements the specification of the server.
THEOREM NodeletImplementsServer == Spec => ServerSpec
<1>1. Init => ServerInit
  BY DEF Init
<1> QED
  BY <1>1, StepSimulates, PTL DEF Spec, ServerSpec

\* So what the callbacks may rely on holds in the nodelet.
THEOREM NodeletArgumentsValid == Spec => []CallbackArgumentsValid
  BY NodeletImplementsServer, ServerArgumentsValid, PTL

-----------------------------------------------------------------------------
(* The invariant of the nodelet. *)

\* Type correctness of the nodelet's own variables.
LEMMA NodeletTypeStep ==
  ASSUME NodeletInvariant, ServerInvariant', Next
  PROVE  TypeOK'
<1> USE Ros1Assumption DEF NodeletInvariant, ServerInvariant, TypeOK
<1>0. ServerTypeOK'
  OBVIOUS
<1>1. CASE UNCHANGED bridgeVars
  BY <1>0, <1>1 DEF bridgeVars
<1> USE DEF graphVars, updateVars, subVars, pubVars
<1>2. ASSUME NEW t \in Topics, GraphChange(t) PROVE TypeOK'
  BY <1>0, <1>2 DEF GraphChange
<1>3. ASSUME NEW s \in ChannelIds \X Conns,
             \/ MessageArrives(s) \/ SendMessageReturns(s)
             \/ SendMessageWaits(s) \/ RosMessageHandler(s)
      PROVE  TypeOK'
  BY <1>0, <1>3 DEF MessageArrives, SendMessageReturns, SendMessageWaits,
     RosMessageHandler
<1>4. CASE \/ TimerFires \/ GetTopicsFails \/ LockSubscriptions
           \/ SubscribersErased \/ UnlockSubscriptions \/ ScheduleUpdate
  BY <1>0, <1>4 DEF TimerFires, GetTopicsFails, LockSubscriptions,
     SubscribersErased, UnlockSubscriptions, AfterUpdate, ScheduleUpdate
<1>5. CASE GetTopics
  <2>1. someNew' \in BOOLEAN
    BY <1>5, Zenon DEF GetTopics
  <2> QED
    BY <1>0, <1>5, <2>1 DEF GetTopics
<1>6. ASSUME NEW t \in Topics, NEW ch \in ChannelIds, RemoveTopic(ch, t)
      PROVE  TypeOK'
  BY <1>0, <1>6 DEF RemoveTopic, SubscriptionsWithout
<1>7. ASSUME NEW t \in Topics, AddTopic(t) PROVE TypeOK'
  <2>1. nextChannelId + 1 \in ChannelIds
    BY <1>7, ServerAssumption DEF AddTopic, AddChannel, ServerTypeOK, ChannelIds
  <2> QED
    BY <1>0, <1>7, <2>1 DEF AddTopic
<1>8. ASSUME NEW t \in Topics, SkipTopic(t) PROVE TypeOK'
  BY <1>0, <1>8 DEF SkipTopic
<1>9. CASE BroadcastTopics
  <2>1. someNew' \in BOOLEAN
    BY <1>9, Zenon DEF BroadcastTopics
  <2> QED
    BY <1>0, <1>9, <2>1 DEF BroadcastTopics
<1>10. CASE SubscribeHandler
  <2>1. arg \in ChannelIds /\ hdl \in Conns
    BY <1>10 DEF SubscribeHandler, HandlerReferencesValid
  <2> QED
    BY <1>0, <1>10, <2>1 DEF SubscribeHandler, Subscriber
<1>11. CASE UnsubscribeBegins
  <2>1. arg \in ChannelIds /\ hdl \in Conns
    BY <1>11 DEF UnsubscribeBegins, HandlerReferencesValid
  <2> QED
    BY <1>0, <1>11, <2>1 DEF UnsubscribeBegins, EraseSubscriber
<1>12. ASSUME NEW ch \in ChannelIds, CloseUnsubscribeBegins(ch) PROVE TypeOK'
  <2>1. hdl \in Conns
    BY <1>12 DEF CloseUnsubscribeBegins, HandlerReferencesValid
  <2> QED
    BY <1>0, <1>12, <2>1 DEF CloseUnsubscribeBegins, EraseSubscriber
<1>13. CASE \/ UnsubscribeReturns
            \/ \E ch \in ChannelIds : CloseUnsubscribeReturns(ch)
  BY <1>0, <1>13 DEF UnsubscribeReturns, CloseUnsubscribeReturns,
     SubscriberErased
<1>14. CASE \/ ClientAdvertiseHandler \/ ClientAdvertiseRefused
            \/ ClientAdvertiseThrows
  <2>1. arg \in ClientChannels /\ hdl \in Conns
    BY <1>14 DEF ClientAdvertiseHandler, ClientAdvertiseRefused,
       ClientAdvertiseThrows, HandlerReferencesValid
  <2> QED
    BY <1>0, <1>14, <2>1 DEF ClientAdvertiseHandler, ClientAdvertiseRefused,
       ClientAdvertiseThrows
<1>15. CASE \/ ClientUnadvertiseHandler
            \/ \E k \in ClientChannels : CloseUnadvertiseHandler(k)
  BY <1>0, <1>15 DEF ClientUnadvertiseHandler, CloseUnadvertiseHandler,
     DropPublication
<1> QED
  BY <1>1, <1>2, <1>3, <1>4, <1>5, <1>6, <1>7, <1>8, <1>9, <1>10, <1>11, <1>12,
     <1>13, <1>14, <1>15
     DEF Next, Environment, Workers, UpdateSteps, Handlers, ClientMessageHandler

\* The topics, the channels and the locals of updateAdvertisedTopics are its
\* own: no other thread changes them.
LEMMA OthersKeepTopics ==
  ASSUME \/ Environment \/ Workers
         \/ RunLoopBegins /\ UNCHANGED bridgeVars
         \/ RunLoopContinues /\ UNCHANGED bridgeVars
         \/ Handlers
  PROVE  /\ UNCHANGED <<channels, nextChannelId, topicOf>>
         /\ UNCHANGED <<upc, removedTopics, newTopics, someNew, erasing>>
<1> USE DEF bridgeVars, updateVars
<1>1. CASE Environment \/ Workers
  BY <1>1, RunLoopKeepsChannels DEF Environment, Workers, GraphChange,
     MessageArrives, SendMessageReturns, SendMessageWaits,
     RosMessageHandler, serverVars
<1>2. CASE Handlers
  BY <1>2, RunLoopKeepsChannels
     DEF Handlers, SubscribeHandler, UnsubscribeBegins, UnsubscribeReturns,
         CloseUnsubscribeBegins, CloseUnsubscribeReturns, EraseSubscriber,
         SubscriberErased, ClientAdvertiseHandler, ClientAdvertiseRefused,
         ClientAdvertiseThrows, ClientUnadvertiseHandler,
         CloseUnadvertiseHandler, DropPublication, ClientMessageHandler,
         RunLoopCallbacks, serverVars
<1> QED
  BY <1>1, <1>2, RunLoopKeepsChannels

\* The tables of the topics stay one-to-one, and the locals right.
LEMMA TopicsStep ==
  ASSUME NodeletInvariant, Next
  PROVE  TopicsMatch' /\ UpdateLocalsValid'
<1>0. /\ TopicsMatch /\ UpdateLocalsValid
      /\ channels \subseteq ChannelIds
      /\ topicOf \subseteq ChannelIds \X Topics
      /\ nextChannelId \in 0..MaxChannelId
      /\ removedTopics \subseteq Topics
  BY DEF NodeletInvariant, TypeOK, ServerTypeOK
<1>1. CASE UNCHANGED <<channels, nextChannelId, topicOf, removedTopics, newTopics>>
  <2>1. TopicsMatch'
    BY <1>0, <1>1, Zenon DEF TopicsMatch
  <2> QED
    BY <1>0, <1>1, <2>1 DEF UpdateLocalsValid
<1>2. CASE GetTopics
  <2>1. /\ UNCHANGED <<channels, nextChannelId, topicOf>>
        /\ removedTopics' \subseteq {p[2] : p \in topicOf}
        /\ \A p \in topicOf : p[2] \notin newTopics'
    BY <1>2 DEF GetTopics, serverVars
  <2>2. TopicsMatch'
    BY <1>0, <2>1, Zenon DEF TopicsMatch
  <2>3. ASSUME NEW t \in removedTopics'
        PROVE  \E ch \in channels : <<ch, t>> \in topicOf
    <3>1. PICK p \in topicOf : p[2] = t
      BY <2>1, <2>3
    <3>2. p = <<p[1], t>> /\ p[1] \in ChannelIds /\ t \in Topics
      BY <1>0, <3>1
    <3> QED
      BY <1>0, <3>1, <3>2 DEF TopicsMatch
  <2> QED
    BY <1>0, <2>1, <2>2, <2>3 DEF UpdateLocalsValid
<1>3. ASSUME NEW t \in Topics, NEW ch \in ChannelIds, RemoveTopic(ch, t)
      PROVE  TopicsMatch' /\ UpdateLocalsValid'
  <2>1. /\ topicOf' = topicOf \ {<<ch, t>>} /\ <<ch, t>> \in topicOf
        /\ channels' = channels \ {ch}
        /\ removedTopics' = removedTopics \ {t}
        /\ UNCHANGED <<nextChannelId, newTopics>>
    BY <1>3 DEF RemoveTopic, RemoveChannel
  <2>2. \A u \in Topics, dh \in ChannelIds :
          <<dh, u>> \in topicOf' <=> <<dh, u>> \in topicOf /\ dh # ch
    BY <1>0, <2>1 DEF TopicsMatch
  <2>3. ASSUME NEW dh \in ChannelIds
        PROVE  dh \in channels' <=> \E u \in Topics : <<dh, u>> \in topicOf'
    BY <1>0, <2>1, <2>2 DEF TopicsMatch
  <2>4. ASSUME NEW u \in Topics, NEW v \in Topics,
               NEW dh \in ChannelIds, NEW eh \in ChannelIds,
               <<dh, u>> \in topicOf', <<eh, v>> \in topicOf'
        PROVE  dh = eh <=> u = v
    BY <1>0, <2>2, <2>4 DEF TopicsMatch
  <2>5. TopicsMatch'
    BY <2>3, <2>4 DEF TopicsMatch
  <2>6. ASSUME NEW u \in removedTopics'
        PROVE  \E dh \in channels' : <<dh, u>> \in topicOf'
    <3>1. PICK dh \in channels : <<dh, u>> \in topicOf
      BY <1>0, <2>1, <2>6 DEF UpdateLocalsValid
    <3>2. u \in Topics /\ u # t /\ dh \in ChannelIds
      BY <1>0, <2>1, <2>6
    <3>3. dh # ch
      BY <1>0, <2>1, <3>1, <3>2 DEF TopicsMatch
    <3> QED
      BY <2>1, <2>2, <3>1, <3>2, <3>3
  <2> QED
    BY <1>0, <2>1, <2>5, <2>6 DEF UpdateLocalsValid
<1>4. ASSUME NEW t \in Topics, AddTopic(t)
      PROVE  TopicsMatch' /\ UpdateLocalsValid'
  <2> DEFINE id == nextChannelId + 1
  <2>1. /\ topicOf' = topicOf \union {<<id, t>>}
        /\ channels' = channels \union {id}
        /\ nextChannelId' = id
        /\ t \in newTopics /\ newTopics' = newTopics \ {t}
        /\ removedTopics' = removedTopics
    BY <1>4 DEF AddTopic, AddChannel
  <2>2. id \in ChannelIds /\ id \notin channels
    BY <1>0, <1>4, ServerAssumption
       DEF AddTopic, AddChannel, UpdateLocalsValid, ChannelIds
  <2>3. channels' \subseteq 1..id
    BY <1>0, <2>1 DEF UpdateLocalsValid
  <2>4. \A u \in Topics : <<id, u>> \notin topicOf
    BY <1>0, <2>2 DEF TopicsMatch
  <2>5. ASSUME NEW dh \in ChannelIds PROVE <<dh, t>> \notin topicOf
    <3>1. <<dh, t>>[2] = t
      OBVIOUS
    <3> QED
      BY <1>0, <2>1, <3>1, Zenon DEF UpdateLocalsValid
  <2> HIDE DEF id
  <2>6. \A u \in Topics, dh \in ChannelIds :
          <<dh, u>> \in topicOf'
            <=> <<dh, u>> \in topicOf \/ (u = t /\ dh = id)
    BY <2>1
  <2>7. ASSUME NEW dh \in ChannelIds
        PROVE  dh \in channels' <=> \E u \in Topics : <<dh, u>> \in topicOf'
    BY <1>0, <2>1, <2>6 DEF TopicsMatch
  <2>8. ASSUME NEW u \in Topics, NEW v \in Topics,
               NEW dh \in ChannelIds, NEW eh \in ChannelIds,
               <<dh, u>> \in topicOf', <<eh, v>> \in topicOf'
        PROVE  dh = eh <=> u = v
    <3>1. CASE <<dh, u>> \in topicOf /\ <<eh, v>> \in topicOf
      BY <1>0, <3>1 DEF TopicsMatch
    <3> QED
      BY <2>2, <2>4, <2>5, <2>6, <2>8, <3>1
  <2>9. TopicsMatch'
    BY <2>7, <2>8 DEF TopicsMatch
  <2>10. \A p \in topicOf' : p[2] \notin newTopics'
    <3>1. <<id, t>>[2] = t
      OBVIOUS
    <3> QED
      BY <1>0, <2>1, <3>1 DEF UpdateLocalsValid
  <2> QED
    BY <1>0, <2>1, <2>3, <2>9, <2>10 DEF UpdateLocalsValid
<1>5. ASSUME NEW t \in Topics, SkipTopic(t)
      PROVE  TopicsMatch' /\ UpdateLocalsValid'
  <2>1. /\ UNCHANGED <<channels, nextChannelId, topicOf, removedTopics>>
        /\ newTopics' = newTopics \ {t}
    BY <1>5 DEF SkipTopic, serverVars
  <2>2. TopicsMatch'
    BY <1>0, <2>1, Zenon DEF TopicsMatch
  <2> QED
    BY <1>0, <2>1, <2>2 DEF UpdateLocalsValid
<1>6. CASE \/ TimerFires \/ GetTopicsFails \/ LockSubscriptions
           \/ SubscribersErased \/ UnlockSubscriptions \/ ScheduleUpdate
           \/ BroadcastTopics
  BY <1>1, <1>6 DEF TimerFires, GetTopicsFails, LockSubscriptions,
     SubscribersErased, UnlockSubscriptions, ScheduleUpdate, BroadcastTopics,
     BroadcastChannels, serverVars, mapVars
<1> QED
  BY <1>1, <1>2, <1>3, <1>4, <1>5, <1>6, OthersKeepTopics
     DEF Next, UpdateSteps

\* A subscriber is made for a subscribed client, and goes with the channel or in
\* the handler that is called when the client no longer is.
LEMMA WantedStep ==
  ASSUME NodeletInvariant, Next
  PROVE  SubscribersWanted'
<1> USE DEF SubscribersWanted, UnsubscribePending, Closing
<1>0. /\ SubscribersWanted /\ HandlerReferencesValid
      /\ subscriptions \subseteq ChannelIds \X Conns
      /\ subscriptionsByChannel \in [Conns -> SUBSET (ChannelIds \X SubIds)]
  BY DEF NodeletInvariant, TypeOK, ServerTypeOK, ServerInvariant
<1>1. CASE UNCHANGED <<channels, subscribedChannels, subscriptions,
                       subscriptionsByChannel, pc, hdl, arg, oldSubs>>
  BY <1>0, <1>1
<1>2. ASSUME NEW c \in Conns, HandleConnectionClosed(c), UNCHANGED bridgeVars
      PROVE  SubscribersWanted'
  BY <1>0, <1>2 DEF HandleConnectionClosed, bridgeVars
<1>3. ASSUME NEW c \in Conns, NEW o \in Ops, NEW n \in 0..MaxBatch,
             HandleTextMessage(c, o, n), UNCHANGED bridgeVars
      PROVE  SubscribersWanted'
  BY <1>0, <1>3 DEF HandleTextMessage, bridgeVars
<1>4. ASSUME NEW c \in Conns, NEW k \in ClientChannels,
             HandleBinaryMessage(c, k), UNCHANGED bridgeVars
      PROVE  SubscribersWanted'
  BY <1>0, <1>4 DEF HandleBinaryMessage, mapVars, bridgeVars
<1>5. ASSUME NEW s \in SubIds, NEW ch \in ChannelIds, SubscribeEntry(s, ch),
             UNCHANGED bridgeVars
      PROVE  SubscribersWanted'
  <2>1. \A c \in Conns :
          subscriptionsByChannel[c] \subseteq subscriptionsByChannel'[c]
    BY <1>0, <1>5 DEF SubscribeEntry, NextEntry, SkipEntry
  <2>2. pc = "entries" /\ channels' = channels
    BY <1>5 DEF SubscribeEntry, NextEntry
  <2>3. UNCHANGED <<subscriptions, subscribedChannels>>
    BY <1>5 DEF bridgeVars
  <2> QED
    BY <1>0, <2>1, <2>2, <2>3
<1>6. ASSUME NEW s \in SubIds, UnsubscribeEntry(s), UNCHANGED bridgeVars
      PROVE  SubscribersWanted'
  BY <1>0, <1>6 DEF UnsubscribeEntry, NextEntry, SkipEntry, CallBack, bridgeVars,
     HandlerReferencesValid
<1>7. ASSUME NEW k \in ClientChannels, AdvertiseEntry(k) \/ UnadvertiseEntry(k),
             UNCHANGED bridgeVars
      PROVE  SubscribersWanted'
  BY <1>0, <1>7 DEF AdvertiseEntry, UnadvertiseEntry, NextEntry, SkipEntry,
     CallBack, bridgeVars
<1>8. ASSUME MalformedEntry \/ TextMessageDone \/ CloseReturns, UNCHANGED bridgeVars
      PROVE  SubscribersWanted'
  BY <1>0, <1>8 DEF MalformedEntry, TextMessageDone, CloseReturns, Idle, mapVars,
     bridgeVars
<1>9. ASSUME EraseClientChannels, UNCHANGED bridgeVars
      PROVE  SubscribersWanted'
  BY <1>0, <1>9 DEF EraseClientChannels, bridgeVars
<1>10. CASE SubscribeHandler
  <2>1. arg \in channels /\ \E m \in subscriptionsByChannel[hdl] : m[1] = arg
    BY <1>10 DEF SubscribeHandler, NodeletInvariant, ServerInvariant,
       SubscriptionsHaveChannels
  <2> QED
    BY <1>0, <1>10, <2>1 DEF SubscribeHandler, Subscriber, CallbackReturns, mapVars
<1>11. CASE UnsubscribeBegins \/ \E ch \in ChannelIds : CloseUnsubscribeBegins(ch)
  BY <1>0, <1>11 DEF UnsubscribeBegins, CloseUnsubscribeBegins, EraseSubscriber,
     serverVars
<1>12. CASE UnsubscribeReturns
  <2>1. arg \in ChannelIds /\ hdl \in Conns
    BY <1>0, <1>12 DEF UnsubscribeReturns, HandlerReferencesValid
  <2>2. <<arg, hdl>> \notin subscriptions
    BY <1>12 DEF UnsubscribeReturns, SubscriberErased, NodeletInvariant, OneHolder
  <2> QED
    BY <1>0, <1>12, <2>1, <2>2 DEF UnsubscribeReturns, SubscriberErased,
       CallbackReturns, mapVars, subVars
<1>13. ASSUME NEW ch \in ChannelIds, CloseUnsubscribeReturns(ch)
       PROVE  SubscribersWanted'
  <2>1. <<ch, hdl>> \notin subscriptions
    BY <1>13 DEF CloseUnsubscribeReturns, SubscriberErased, NodeletInvariant,
       OneHolder
  <2> QED
    BY <1>0, <1>13, <2>1 DEF CloseUnsubscribeReturns, CloseUnsubscribe,
       SubscriberErased, mapVars, subVars
<1>14. CASE \/ ClientAdvertiseHandler \/ ClientAdvertiseRefused
            \/ ClientAdvertiseThrows \/ ClientUnadvertiseHandler
            \/ ClientMessageHandler
  BY <1>0, <1>14 DEF ClientAdvertiseHandler, ClientAdvertiseRefused,
     ClientAdvertiseThrows, ClientUnadvertiseHandler, DropPublication,
     ClientMessageHandler, CallbackReturns, CallbackThrows,
     MessageCallbackReturns, Idle, mapVars, subVars, bridgeVars
<1>15. ASSUME NEW k \in ClientChannels, CloseUnadvertiseHandler(k)
       PROVE  SubscribersWanted'
  BY <1>1, <1>15 DEF CloseUnadvertiseHandler, DropPublication, CloseUnadvertise,
     mapVars, subVars
<1>16. ASSUME NEW t \in Topics, NEW ch \in ChannelIds, RemoveTopic(ch, t)
       PROVE  SubscribersWanted'
  BY <1>0, <1>16 DEF RemoveTopic, RemoveChannel, SubscriptionsWithout, loopVars
<1>17. ASSUME NEW t \in Topics, AddTopic(t) PROVE SubscribersWanted'
  BY <1>0, <1>17 DEF AddTopic, AddChannel, loopVars, subVars
<1>18. CASE \/ \E c \in Conns : /\ \/ PeerLost(c) \/ RejectConnection(c)
                                   \/ HandleConnectionOpened(c)
                                /\ UNCHANGED bridgeVars
            \/ \E t \in Topics : GraphChange(t) \/ SkipTopic(t)
            \/ \E s \in ChannelIds \X Conns :
                 \/ MessageArrives(s) \/ SendMessageReturns(s)
                 \/ SendMessageWaits(s) \/ RosMessageHandler(s)
  BY <1>1, <1>18 DEF PeerLost, RejectConnection, HandleConnectionOpened,
     GraphChange, SkipTopic, MessageArrives, SendMessageReturns, SendMessageWaits,
     RosMessageHandler, serverVars,
     bridgeVars, mapVars, loopVars, subVars
<1>19. CASE \/ TimerFires \/ GetTopicsFails \/ GetTopics \/ LockSubscriptions
            \/ SubscribersErased \/ UnlockSubscriptions \/ ScheduleUpdate
            \/ BroadcastTopics
  BY <1>1, <1>19 DEF TimerFires, GetTopicsFails, GetTopics, LockSubscriptions,
     SubscribersErased, UnlockSubscriptions, ScheduleUpdate, BroadcastTopics,
     BroadcastChannels, serverVars, mapVars, loopVars, subVars
<1> QED
  BY <1>2, <1>3, <1>4, <1>5, <1>6, <1>7, <1>8, <1>9, <1>10, <1>11, <1>12, <1>13,
     <1>14, <1>15, <1>16, <1>17, <1>18, <1>19
     DEF Next, Environment, Workers, RunLoopBegins, RunLoopContinues, Handlers,
         UpdateSteps

\* Who begins to erase has the mutex, and keeps it until the destructors return.
LEMMA HolderStep ==
  ASSUME NodeletInvariant, Next
  PROVE  OneHolder'
<1> USE DEF OneHolder, UnsubscribePending, Closing
<1>0. OneHolder /\ HandlerReferencesValid
  BY DEF NodeletInvariant, ServerInvariant
<1>1. CASE /\ UNCHANGED <<upc, erasing, destroying, pc, hdl, arg, oldSubs>>
           /\ subscriptions' \subseteq subscriptions
  BY <1>0, <1>1
<1>2. ASSUME RunLoopBegins, UNCHANGED bridgeVars PROVE OneHolder'
  <2>1. \/ pc = "idle"
        \/ UNCHANGED <<pc, hdl, arg, oldSubs>>
    BY <1>2 DEF RunLoopBegins, RejectConnection, HandleConnectionOpened,
       HandleConnectionClosed, HandleTextMessage, HandleBinaryMessage
  <2> QED
    BY <1>0, <1>1, <1>2, <2>1 DEF bridgeVars
<1>3. ASSUME RunLoopContinues, UNCHANGED bridgeVars PROVE OneHolder'
  <2>1. \/ pc \in {"entries", "closeUnadvertise"}
        \/ pc = "closeUnsubscribe" /\ oldSubs = {}
    BY <1>3 DEF RunLoopContinues, SubscribeEntry, UnsubscribeEntry,
       AdvertiseEntry, UnadvertiseEntry, NextEntry, MalformedEntry,
       TextMessageDone, EraseClientChannels, CloseReturns
  <2> QED
    BY <1>0, <1>3, <2>1 DEF bridgeVars
<1>4. CASE \/ SubscribeHandler \/ ClientAdvertiseHandler
           \/ ClientAdvertiseRefused \/ ClientAdvertiseThrows
           \/ ClientUnadvertiseHandler \/ ClientMessageHandler
           \/ \E k \in ClientChannels : CloseUnadvertiseHandler(k)
  <2>1. /\ pc \in {"subscribe", "advertise", "unadvertise", "message",
                   "closeUnadvertise"}
        /\ UNCHANGED <<upc, erasing, destroying>>
    BY <1>4 DEF SubscribeHandler, ClientAdvertiseHandler, ClientAdvertiseRefused,
       ClientAdvertiseThrows, ClientUnadvertiseHandler, ClientMessageHandler,
       MessageCallbackReturns, CloseUnadvertiseHandler, CloseUnadvertise,
       DropPublication, updateVars, bridgeVars
  <2> QED
    BY <1>0, <2>1
<1>5. CASE UnsubscribeBegins \/ \E ch \in ChannelIds : CloseUnsubscribeBegins(ch)
  <2>1. PICK ch : /\ \/ pc = "unsubscribe" /\ ch = arg
                     \/ pc = "closeUnsubscribe" /\ ch \in oldSubs
                  /\ EraseSubscriber(ch, hdl)
                  /\ UNCHANGED serverVars
    BY <1>5 DEF UnsubscribeBegins, CloseUnsubscribeBegins
  <2>2. /\ destroying' = {<<ch, hdl>>} /\ <<ch, hdl>> \notin subscriptions'
        /\ UNCHANGED <<upc, erasing, pc, hdl, arg, oldSubs>>
        /\ upc # "update"
    BY <2>1 DEF EraseSubscriber, SubscriptionsLocked, updateVars, serverVars
  <2>3. <<ch, hdl>>[1] = ch /\ <<ch, hdl>>[2] = hdl
    OBVIOUS
  <2> QED
    BY <1>0, <2>1, <2>2, <2>3
<1>6. CASE \/ UnsubscribeReturns
           \/ \E ch \in ChannelIds : CloseUnsubscribeReturns(ch)
  BY <1>0, <1>6 DEF UnsubscribeReturns, CloseUnsubscribeReturns,
     SubscriberErased, updateVars
<1>7. CASE \/ LockSubscriptions \/ SubscribersErased \/ UnlockSubscriptions
  BY <1>0, <1>7 DEF LockSubscriptions, SubscriptionsLocked, SubscribersErased,
     UnlockSubscriptions, AfterUpdate, serverVars, subVars
<1>8. CASE \/ \E t \in Topics, ch \in ChannelIds : RemoveTopic(ch, t)
           \/ \E t \in Topics : AddTopic(t) \/ SkipTopic(t)
  BY <1>0, <1>8 DEF RemoveTopic, RemoveChannel, AddTopic, AddChannel, SkipTopic,
     SubscriptionsWithout, loopVars, serverVars, subVars
<1>9. CASE TimerFires \/ GetTopicsFails \/ GetTopics \/ ScheduleUpdate
  BY <1>0, <1>9 DEF TimerFires, GetTopicsFails, GetTopics, ScheduleUpdate,
     serverVars, subVars
<1>10. CASE BroadcastTopics
  BY <1>0, <1>10 DEF BroadcastTopics, BroadcastChannels, loopVars, subVars
<1>11. CASE Environment \/ Workers
  BY <1>1, <1>11 DEF Environment, Workers, PeerLost, GraphChange, MessageArrives,
     SendMessageReturns, SendMessageWaits,
     RosMessageHandler, serverVars, loopVars, updateVars, subVars, bridgeVars
<1> QED
  BY <1>2, <1>3, <1>4, <1>5, <1>6, <1>7, <1>8, <1>9, <1>10, <1>11
     DEF Next, Handlers, UpdateSteps

\* A callback in progress is one of a subscriber, also of one that is being
\* destroyed: the thread that destroys it waits.
LEMMA DeliveringStep ==
  ASSUME NodeletInvariant, Next
  PROVE  delivering' \subseteq subscriptions' \union erasing' \union destroying'
<1>0. /\ delivering \subseteq subscriptions \union erasing \union destroying
      /\ OneHolder
  BY DEF NodeletInvariant, NoLateDelivery
<1>1. CASE /\ delivering' = delivering
           /\ subscriptions \subseteq subscriptions'
           /\ UNCHANGED <<erasing, destroying>>
  BY <1>0, <1>1
<1>2. ASSUME NEW s \in ChannelIds \X Conns,
             \/ MessageArrives(s) \/ SendMessageReturns(s)
             \/ SendMessageWaits(s) \/ RosMessageHandler(s)
      PROVE  delivering' \subseteq subscriptions' \union erasing' \union destroying'
  BY <1>0, <1>2 DEF MessageArrives, SendMessageReturns, SendMessageWaits,
     RosMessageHandler, subVars, updateVars
<1>3. ASSUME NEW t \in Topics, NEW ch \in ChannelIds, RemoveTopic(ch, t)
      PROVE  delivering' \subseteq subscriptions' \union erasing' \union destroying'
  BY <1>0, <1>3 DEF RemoveTopic, SubscriptionsWithout
<1>4. CASE SubscribersErased
  BY <1>0, <1>4 DEF SubscribersErased, Destroyed, subVars
<1>5. ASSUME NEW ch, EraseSubscriber(ch, hdl)
      PROVE  delivering' \subseteq subscriptions' \union erasing' \union destroying'
  BY <1>0, <1>5 DEF EraseSubscriber, SubscriptionsLocked, updateVars
<1>6. ASSUME NEW ch, SubscriberErased(ch, hdl)
      PROVE  delivering' \subseteq subscriptions' \union erasing' \union destroying'
  BY <1>0, <1>6 DEF SubscriberErased, Destroyed, updateVars, subVars
<1>7. CASE \/ UnsubscribeBegins \/ UnsubscribeReturns
           \/ \E ch \in ChannelIds : \/ CloseUnsubscribeBegins(ch)
                                     \/ CloseUnsubscribeReturns(ch)
  BY <1>5, <1>6, <1>7 DEF UnsubscribeBegins, UnsubscribeReturns,
     CloseUnsubscribeBegins, CloseUnsubscribeReturns
<1>8. CASE \/ SubscribeHandler \/ ClientAdvertiseHandler
           \/ ClientAdvertiseRefused \/ ClientAdvertiseThrows
           \/ ClientUnadvertiseHandler \/ ClientMessageHandler
           \/ \E k \in ClientChannels : CloseUnadvertiseHandler(k)
  BY <1>1, <1>8 DEF SubscribeHandler, ClientAdvertiseHandler,
     ClientAdvertiseRefused, ClientAdvertiseThrows, ClientUnadvertiseHandler,
     ClientMessageHandler, CloseUnadvertiseHandler, DropPublication, updateVars,
     subVars, bridgeVars
<1>9. CASE \/ UNCHANGED bridgeVars
           \/ \E t \in Topics : GraphChange(t) \/ AddTopic(t) \/ SkipTopic(t)
           \/ TimerFires \/ GetTopicsFails \/ GetTopics \/ LockSubscriptions
           \/ UnlockSubscriptions \/ BroadcastTopics \/ ScheduleUpdate
  BY <1>1, <1>9 DEF GraphChange, AddTopic, SkipTopic, TimerFires,
     GetTopicsFails, GetTopics, LockSubscriptions, UnlockSubscriptions,
     BroadcastTopics,
     ScheduleUpdate, updateVars, subVars, bridgeVars
<1> QED
  BY <1>2, <1>3, <1>4, <1>7, <1>8, <1>9
     DEF Next, Environment, Workers, Handlers, UpdateSteps

\* None of them belongs to a client that is closed or, unless it is being
\* destroyed, to a channel that is not advertised.
LEMMA NoneIsLate ==
  /\ TypeOK /\ ServerInvariant /\ SubscribersWanted /\ OneHolder
  /\ delivering \subseteq subscriptions \union erasing \union destroying
  => NoLateDelivery
<1> SUFFICES
      ASSUME TypeOK, ServerInvariant, SubscribersWanted, OneHolder,
             delivering \subseteq subscriptions \union erasing \union destroying
      PROVE  NoLateDelivery
  OBVIOUS
<1>1. ASSUME NEW c \in Conns, NEW ch, UnsubscribePending(c, ch)
      PROVE  link[c] # "closed"
  BY <1>1 DEF UnsubscribePending, Closing, Callbacks, AllOps, ServerInvariant,
     HandlerReferencesValid, ClosedConnectionsOwnNothing
<1>2. ASSUME NEW s \in subscriptions
      PROVE  link[s[2]] # "closed" /\ s[1] \in channels
  <2>1. s[2] \in Conns
    BY DEF TypeOK
  <2>2. CASE \E m \in subscriptionsByChannel[s[2]] : m[1] = s[1]
    BY <1>2, <2>1, <2>2 DEF SubscribersWanted, ServerInvariant,
       ClosedConnectionsOwnNothing
  <2> QED
    BY <1>1, <1>2, <2>1, <2>2 DEF SubscribersWanted
<1>3. ASSUME NEW s \in destroying PROVE link[s[2]] # "closed"
  <2>1. s[2] \in Conns
    BY DEF TypeOK
  <2> QED
    BY <1>1, <1>3, <2>1 DEF OneHolder
<1> QED
  BY <1>2, <1>3 DEF NoLateDelivery

\* The invariant of the nodelet is inductive.
LEMMA NodeletInvariantStep ==
  NodeletInvariant /\ [Next]_vars => NodeletInvariant'
<1> SUFFICES ASSUME NodeletInvariant, [Next]_vars PROVE NodeletInvariant'
  OBVIOUS
<1>1. ServerInvariant'
  BY StepSimulates, InvariantStep DEF NodeletInvariant
<1>2. CASE Next
  <2>1. TypeOK'
    BY <1>1, <1>2, NodeletTypeStep
  <2>2. TopicsMatch' /\ UpdateLocalsValid' /\ SubscribersWanted' /\ OneHolder'
    BY <1>2, TopicsStep, WantedStep, HolderStep
  <2>3. NoLateDelivery'
    <3>1. delivering' \subseteq subscriptions' \union erasing' \union destroying'
      BY <1>2, DeliveringStep
    <3>2. (/\ TypeOK /\ ServerInvariant /\ SubscribersWanted /\ OneHolder
           /\ delivering \subseteq subscriptions \union erasing \union destroying
           => NoLateDelivery)'
      BY NoneIsLate, PTL
    <3> QED
      BY <1>1, <2>1, <2>2, <3>1, <3>2
  <2> QED
    BY <1>1, <2>1, <2>2, <2>3 DEF NodeletInvariant
<1>3. CASE UNCHANGED vars
  <2> USE <1>3 DEF NodeletInvariant, vars, serverVars, bridgeVars
  <2>1. TypeOK'
    BY DEF TypeOK, ServerTypeOK
  <2>2. TopicsMatch'
    <3>1. channels' = channels /\ topicOf' = topicOf
      OBVIOUS
    <3>2. TopicsMatch
      OBVIOUS
    <3> QED
      BY <3>1, <3>2, Zenon DEF TopicsMatch
  <2>3. UpdateLocalsValid' /\ SubscribersWanted' /\ OneHolder'
    BY DEF UpdateLocalsValid, SubscribersWanted, OneHolder, UnsubscribePending
  <2>4. NoLateDelivery'
    BY DEF NoLateDelivery
  <2> QED
    BY <1>1, <2>1, <2>2, <2>3, <2>4
<1> QED
  BY <1>2, <1>3

\* It holds in the initial state.
LEMMA NodeletInvariantInit == Init => NodeletInvariant
<1> SUFFICES ASSUME Init PROVE NodeletInvariant
  OBVIOUS
<1>1. ServerInvariant
  BY InvariantInit DEF Init
<1>2. someNew \in BOOLEAN
  BY Zenon DEF Init
<1>3. TypeOK
  BY <1>1, <1>2, Ros1Assumption DEF Init, TypeOK, ServerInvariant
<1>4. TopicsMatch /\ UpdateLocalsValid /\ SubscribersWanted /\ OneHolder
  BY DEF Init, ServerInit, TopicsMatch, UpdateLocalsValid, SubscribersWanted,
     OneHolder
<1>5. NoLateDelivery
  BY DEF Init, NoLateDelivery
<1> QED
  BY <1>1, <1>3, <1>4, <1>5 DEF NodeletInvariant

\* The nodelet keeps its invariant in every interleaving of its threads.
THEOREM NodeletInvariance == Spec => []NodeletInvariant
  BY NodeletInvariantInit, NodeletInvariantStep, PTL DEF Spec

\* Each variable of the nodelet and of its server keeps its type.
THEOREM NodeletTypeCorrect == Spec => []TypeOK
<1>1. NodeletInvariant => TypeOK
  BY DEF NodeletInvariant
<1> QED
  BY <1>1, NodeletInvariance, PTL

\* However many messages are in flight, no callback sends on a channel that is
\* gone or for a client that is closed, once the handler that erased its
\* subscriber has returned.
THEOREM NodeletNoLateDelivery == Spec => []NoLateDelivery
<1>1. NodeletInvariant => NoLateDelivery
  BY DEF NodeletInvariant
<1> QED
  BY <1>1, NodeletInvariance, PTL

-----------------------------------------------------------------------------
(* What the clients publish. *)

\* A handler for a client publication drops one publisher at most, and the
\* client's entry only with its last.
LEMMA DropKeepsEntries ==
  ASSUME publications \subseteq Conns \X ClientChannels,
         \A p \in publications : p[1] \in publicationClients,
         NEW c \in Conns, NEW k \in ClientChannels, DropPublication(c, k)
  PROVE  /\ publications' \subseteq publications
         /\ \A p \in publications' : p # <<c, k>> /\ p[1] \in publicationClients'
<1>1. publications' = publications \ {<<c, k>>}
  BY DEF DropPublication
<1>2. ASSUME NEW p \in publications' PROVE p[1] \in publicationClients'
  <2>1. p \in publications /\ p # <<c, k>> /\ p = <<p[1], p[2]>>
    BY <1>1
  <2>2. p[1] = c => p[2] # k
    BY <2>1
  <2> QED
    BY <2>1, <2>2 DEF DropPublication
<1> QED
  BY <1>1, <1>2

\* A publisher is made for a channel in _clientChannels, leaves that map only on
\* the way to its handler, and is on the list of the disconnect handler.
LEMMA PublishersStep ==
  ASSUME NodeletInvariant, CallbackArgumentsValid, PublishersHaveOwners, Next
  PROVE  PublishersHaveOwners'
<1> USE DEF PublishersHaveOwners, netVars, mapVars, pubVars
<1>0. /\ HandlerReferencesValid /\ ClosedConnectionsOwnNothing
      /\ clients \subseteq Conns
      /\ publications \subseteq Conns \X ClientChannels
      /\ clientChannels \in [Conns -> SUBSET ClientChannels]
      /\ advertisedChannels \in [Conns -> SUBSET ClientChannels]
      /\ pc # "idle" => hdl \in Conns
  BY DEF NodeletInvariant, TypeOK, ServerTypeOK, ServerInvariant,
     HandlerReferencesValid
<1>1. CASE UNCHANGED <<clients, clientChannels, pc, hdl, arg, oldAdvertised,
                       publicationClients, publications>>
  BY <1>1
<1>2. ASSUME NEW c \in Conns, HandleConnectionOpened(c), UNCHANGED bridgeVars
      PROVE  PublishersHaveOwners'
  BY <1>0, <1>2 DEF HandleConnectionOpened, loopVars, bridgeVars
<1>3. ASSUME NEW c \in Conns, HandleConnectionClosed(c), UNCHANGED bridgeVars
      PROVE  PublishersHaveOwners'
  <2>1. /\ pc = "idle" /\ pc' = "closeUnadvertise" /\ hdl' = c
        /\ clients' = clients \ {c} /\ oldAdvertised' = advertisedChannels[c]
        /\ UNCHANGED <<clientChannels, publications, publicationClients>>
    BY <1>3 DEF HandleConnectionClosed, bridgeVars
  <2>2. ASSUME NEW p \in publications
        PROVE  /\ p[1] \in clients /\ p[2] \in clientChannels[p[1]]
               /\ p[2] \in advertisedChannels[p[1]]
    BY <1>0, <2>1, <2>2 DEF ClosedConnectionsOwnNothing
  <2> QED
    BY <2>1, <2>2
<1>4. ASSUME NEW c \in Conns, UNCHANGED bridgeVars,
             \/ \E o \in Ops, n \in 0..MaxBatch : HandleTextMessage(c, o, n)
             \/ \E k \in ClientChannels : HandleBinaryMessage(c, k)
      PROVE  PublishersHaveOwners'
  BY <1>0, <1>4 DEF HandleTextMessage, HandleBinaryMessage, bridgeVars
<1>5. ASSUME UNCHANGED bridgeVars,
             \/ \E s \in SubIds, ch \in ChannelIds : SubscribeEntry(s, ch)
             \/ \E s \in SubIds : UnsubscribeEntry(s)
      PROVE  PublishersHaveOwners'
  <2>1. pc = "entries" /\ UNCHANGED <<clients, clientChannels, publications,
                                     publicationClients>>
    BY <1>5 DEF SubscribeEntry, UnsubscribeEntry, NextEntry, SkipEntry, bridgeVars
  <2> QED
    BY <2>1
<1>6. ASSUME NEW k \in ClientChannels, AdvertiseEntry(k) \/ UnadvertiseEntry(k),
             UNCHANGED bridgeVars
      PROVE  PublishersHaveOwners'
  BY <1>0, <1>6 DEF AdvertiseEntry, UnadvertiseEntry, NextEntry, SkipEntry,
     CallBack, bridgeVars
<1>7. ASSUME MalformedEntry \/ TextMessageDone \/ CloseReturns, UNCHANGED bridgeVars
      PROVE  PublishersHaveOwners'
  BY <1>7 DEF MalformedEntry, TextMessageDone, CloseReturns, Idle, bridgeVars
<1>8. ASSUME EraseClientChannels, UNCHANGED bridgeVars PROVE PublishersHaveOwners'
  <2>1. /\ pc = "closeUnadvertise" /\ oldAdvertised = {}
        /\ hdl \in Conns /\ hdl \notin clients
    BY <1>0, <1>8 DEF EraseClientChannels, Closing, HandlerReferencesValid
  <2>2. \A p \in publications : p[1] \in clients /\ p[1] # hdl
    BY <2>1
  <2> QED
    BY <1>0, <1>8, <2>1, <2>2 DEF EraseClientChannels, bridgeVars
<1>9. CASE \/ SubscribeHandler \/ ClientMessageHandler
           \/ UnsubscribeBegins \/ UnsubscribeReturns
           \/ \E ch \in ChannelIds : \/ CloseUnsubscribeBegins(ch)
                                     \/ CloseUnsubscribeReturns(ch)
  BY <1>9 DEF SubscribeHandler, UnsubscribeBegins, UnsubscribeReturns,
     CloseUnsubscribeBegins, CloseUnsubscribeReturns, EraseSubscriber,
     SubscriberErased, ClientMessageHandler, CallbackReturns,
     MessageCallbackReturns, CloseUnsubscribe, Idle, bridgeVars, serverVars
<1>10. CASE ClientAdvertiseHandler
  <2>1. hdl \in clients /\ arg \in clientChannels[hdl]
    BY <1>0, <1>10 DEF ClientAdvertiseHandler, CallbackArgumentsValid, Callbacks,
       AllOps, HandlerReferencesValid
  <2> QED
    BY <1>10, <2>1 DEF ClientAdvertiseHandler, CallbackReturns
<1>11. CASE ClientAdvertiseRefused \/ ClientAdvertiseThrows
  BY <1>11 DEF ClientAdvertiseRefused, ClientAdvertiseThrows, CallbackReturns,
     CallbackThrows, Idle
<1>12. CASE ClientUnadvertiseHandler
  <2>1. hdl \in Conns /\ arg \in ClientChannels /\ pc = "unadvertise"
    BY <1>0, <1>12 DEF ClientUnadvertiseHandler, HandlerReferencesValid
  <2>2. /\ publications' \subseteq publications
        /\ \A p \in publications' :
             p # <<hdl, arg>> /\ p[1] \in publicationClients'
    BY <1>0, <1>12, <2>1, DropKeepsEntries DEF ClientUnadvertiseHandler
  <2>3. \A p \in publications' : p[1] = hdl => p[2] # arg
    <3>1. \A p \in publications' : p = <<p[1], p[2]>>
      BY <1>0, <2>2
    <3> QED
      BY <2>2, <3>1
  <2> QED
    BY <1>12, <2>1, <2>2, <2>3 DEF ClientUnadvertiseHandler, CallbackReturns
<1>13. ASSUME NEW k \in ClientChannels, CloseUnadvertiseHandler(k)
       PROVE  PublishersHaveOwners'
  <2>1. hdl \in Conns /\ pc = "closeUnadvertise"
    BY <1>0, <1>13 DEF CloseUnadvertiseHandler, CloseUnadvertise
  <2>2. /\ publications' \subseteq publications
        /\ \A p \in publications' :
             p # <<hdl, k>> /\ p[1] \in publicationClients'
    BY <1>0, <1>13, <2>1, DropKeepsEntries DEF CloseUnadvertiseHandler
  <2>3. \A p \in publications' : p[1] = hdl => p[2] # k
    <3>1. \A p \in publications' : p = <<p[1], p[2]>>
      BY <1>0, <2>2
    <3> QED
      BY <2>2, <3>1
  <2> QED
    BY <1>13, <2>1, <2>2, <2>3 DEF CloseUnadvertiseHandler, CloseUnadvertise
<1>14. CASE \/ \E c \in Conns : /\ PeerLost(c) \/ RejectConnection(c)
                                /\ UNCHANGED bridgeVars
            \/ \E t \in Topics : GraphChange(t) \/ AddTopic(t) \/ SkipTopic(t)
            \/ \E t \in Topics, ch \in ChannelIds : RemoveTopic(ch, t)
            \/ \E s \in ChannelIds \X Conns :
                 \/ MessageArrives(s) \/ SendMessageReturns(s)
                 \/ SendMessageWaits(s) \/ RosMessageHandler(s)
            \/ TimerFires \/ GetTopicsFails \/ GetTopics \/ LockSubscriptions
            \/ SubscribersErased \/ UnlockSubscriptions \/ BroadcastTopics
            \/ ScheduleUpdate
  BY <1>1, <1>14 DEF PeerLost, RejectConnection, GraphChange, AddTopic,
     AddChannel,
     SkipTopic, RemoveTopic, RemoveChannel, MessageArrives, SendMessageReturns,
     SendMessageWaits, RosMessageHandler,
     TimerFires, GetTopicsFails, GetTopics, LockSubscriptions, SubscribersErased,
     UnlockSubscriptions, BroadcastTopics, BroadcastChannels, ScheduleUpdate,
     serverVars, loopVars, bridgeVars
<1> QED
  BY <1>2, <1>3, <1>4, <1>5, <1>6, <1>7, <1>8, <1>9, <1>10, <1>11, <1>12, <1>13,
     <1>14
     DEF Next, Environment, Workers, RunLoopBegins, RunLoopContinues, Handlers,
         UpdateSteps

\* For any number of clients and of channels they advertise, no publisher is
\* without a client that advertises it, and none outlives its client.
THEOREM NodeletPublishersHaveOwners == Spec => []PublishersHaveOwners
<1>1. Init => PublishersHaveOwners
  BY DEF Init, PublishersHaveOwners
<1>2. NodeletInvariant /\ CallbackArgumentsValid /\ PublishersHaveOwners
        /\ [Next]_vars => PublishersHaveOwners'
  <2>1. PublishersHaveOwners /\ UNCHANGED vars => PublishersHaveOwners'
    BY DEF PublishersHaveOwners, vars, serverVars, bridgeVars
  <2> QED
    BY <2>1, PublishersStep
<1> QED
  BY <1>1, <1>2, NodeletInvariance, NodeletArgumentsValid, PTL DEF Spec

-----------------------------------------------------------------------------
(* The directory of channels. *)

\* A step that changes nothing of the directory.
LEMMA Stutters ==
  ASSUME UNCHANGED <<nextChannelId, topicOf, link, subscriptions>>,
         View' = View, Wanted' = Wanted
  PROVE  UNCHANGED Directory!dirVars
  BY DEF Directory!dirVars, View, Wanted

\* Initially the directory is empty.
LEMMA DirectoryInit == Init => Directory!DirInit
<1> SUFFICES ASSUME Init PROVE Directory!DirInit
  OBVIOUS
<1>1. View = [c \in Conns |-> {}]
  BY DEF Init, ServerInit, View, Reachable
<1>2. Wanted = [c \in Conns |-> {}]
  BY DEF Init, ServerInit, Wanted
<1> QED
  BY <1>1, <1>2 DEF Init, ServerInit, Directory!DirInit, View, Wanted

\* The ids of the directory are the channels of the server.
LEMMA IdsAreChannels ==
  ASSUME TypeOK, TopicsMatch
  PROVE  Directory!Ids = channels
<1>1. ASSUME NEW o \in topicOf PROVE o[1] \in channels
  <2>1. o \in ChannelIds \X Topics
    BY <1>1 DEF TypeOK
  <2>2. o = <<o[1], o[2]>> /\ o[1] \in ChannelIds /\ o[2] \in Topics
    BY <2>1
  <2> QED
    BY <1>1, <2>2 DEF TopicsMatch
<1>2. ASSUME NEW ch \in channels PROVE \E o \in topicOf : o[1] = ch
  <2>1. ch \in ChannelIds
    BY <1>2 DEF TypeOK, ServerTypeOK
  <2>2. PICK t \in Topics : <<ch, t>> \in topicOf
    BY <1>2, <2>1 DEF TopicsMatch
  <2> QED
    BY <2>2
<1> QED
  BY <1>1, <1>2 DEF Directory!Ids

-----------------------------------------------------------------------------
(* updateAdvertisedTopics. *)

\* A topic gets a channel, ...
LEMMA AddTopicOffers ==
  ASSUME NodeletInvariant, NEW t \in Topics, AddTopic(t)
  PROVE  Directory!Offer(t)
<1>1. View' = View /\ Wanted' = Wanted
  BY ViewKept, WantedKept DEF AddTopic, AddChannel, netVars
<1>2. \A o \in topicOf : o[2] # t
  BY DEF AddTopic, NodeletInvariant, UpdateLocalsValid
<1> QED
  BY <1>1, <1>2 DEF AddTopic, AddChannel, netVars, subVars, Directory!Offer,
     View, Wanted

\* ... loses it, with its subscribers, though their destructors may still
\* wait, ...
LEMMA RemoveTopicWithdraws ==
  ASSUME NodeletInvariant, NEW t \in Topics, NEW ch \in ChannelIds,
         RemoveTopic(ch, t)
  PROVE  Directory!Withdraw(ch)
<1>1. ch \in Directory!Ids
  BY DEF RemoveTopic, Directory!Ids
<1>2. topicOf' = {o \in topicOf : o[1] # ch}
  <2>1. /\ topicOf' = topicOf \ {<<ch, t>>} /\ <<ch, t>> \in topicOf
        /\ topicOf \subseteq ChannelIds \X Topics
    BY DEF RemoveTopic, NodeletInvariant, TypeOK
  <2>2. ASSUME NEW o \in topicOf PROVE o = <<ch, t>> <=> o[1] = ch
    <3>1. o = <<o[1], o[2]>> /\ o[1] \in ChannelIds /\ o[2] \in Topics
      BY <2>1
    <3>2. o[1] = ch => o[2] = t
      BY <2>1, <3>1 DEF NodeletInvariant, TopicsMatch
    <3> QED
      BY <3>1, <3>2
  <2> QED
    BY <2>1, <2>2
<1>3. /\ View' = [c \in Conns |-> View[c] \ {ch}]
      /\ Wanted' = [c \in Conns |-> Wanted[c] \ {ch}]
  BY RemovedFromView DEF RemoveTopic
<1> QED
  BY <1>1, <1>2, <1>3 DEF RemoveTopic, RemoveChannel, SubscriptionsWithout,
     Directory!Withdraw, View, Wanted

\* ... and all clients are told of all channels.
LEMMA BroadcastAnnounces ==
  ASSUME NodeletInvariant, CallbackArgumentsValid, BroadcastTopics
  PROVE  Directory!Announce
<1>1. Directory!Ids = channels
  BY IdsAreChannels DEF NodeletInvariant
<1>2. /\ View' = [c \in Conns |-> IF link[c] = "open" THEN channels ELSE {}]
      /\ Wanted' = Wanted
  BY BroadcastToView DEF BroadcastTopics, NodeletInvariant
<1> QED
  BY <1>1, <1>2 DEF BroadcastTopics, BroadcastChannels, mapVars,
     subVars, Directory!Announce, View, Wanted

-----------------------------------------------------------------------------
(* Connections. *)

\* A connection is refused, made, lost or closed as in the directory.
LEMMA ConnectionSteps ==
  ASSUME NodeletInvariant, NEW c \in Conns, UNCHANGED bridgeVars
  PROVE  /\ RejectConnection(c) => Directory!Refuse(c)
         /\ HandleConnectionOpened(c) => Directory!Connect(c)
         /\ PeerLost(c) => Directory!Lose(c)
         /\ HandleConnectionClosed(c) => Directory!Forget(c)
<1>1. ServerInvariant /\ Directory!Ids = channels
  BY IdsAreChannels DEF NodeletInvariant
<1>2. RejectConnection(c) => Directory!Refuse(c)
  BY <1>1, RejectedView DEF RejectConnection, mapVars, bridgeVars,
     Directory!Refuse, View, Wanted
<1>3. HandleConnectionOpened(c) => Directory!Connect(c)
  BY <1>1, OpenedView DEF HandleConnectionOpened, bridgeVars,
     Directory!Connect, View, Wanted
<1>4. PeerLost(c) => Directory!Lose(c)
  BY <1>1, LostView DEF PeerLost, mapVars, bridgeVars, Directory!Lose, View,
     Wanted
<1>5. HandleConnectionClosed(c) => Directory!Forget(c)
  BY <1>1, ClosedView DEF HandleConnectionClosed, netVars, bridgeVars,
     Directory!Forget, View, Wanted
<1> QED
  BY <1>2, <1>3, <1>4, <1>5

\* When handleConnectionClosed returns no stream of the connection is left.
LEMMA ReturnCloses ==
  ASSUME NodeletInvariant, CloseReturns, UNCHANGED bridgeVars
  PROVE  hdl \in Conns /\ Directory!Close(hdl)
<1>1. /\ hdl \in Conns /\ link[hdl] = "lost" /\ Wanted[hdl] = {}
      /\ View' = View /\ Wanted' = Wanted
  BY ReturnedView DEF NodeletInvariant
<1>2. subscriptionsByChannel[hdl] = {}
  BY <1>1 DEF Wanted
<1>3. ASSUME NEW s \in subscriptions PROVE s[2] # hdl
  BY <1>2, <1>3 DEF CloseReturns, NodeletInvariant, SubscribersWanted,
     UnsubscribePending
<1> QED
  BY <1>1, <1>3 DEF CloseReturns, mapVars, bridgeVars, Directory!Close, View,
     Wanted

-----------------------------------------------------------------------------
(* Subscriptions. *)

\* An entry of a subscribe message is refused, or the client wants a channel.
LEMMA SubscribeWants ==
  ASSUME NodeletInvariant, NEW s \in SubIds, NEW ch \in ChannelIds,
         SubscribeEntry(s, ch), UNCHANGED bridgeVars
  PROVE  \/ UNCHANGED Directory!dirVars
         \/ hdl \in Conns /\ Directory!Want(hdl, ch)
<1>1. UNCHANGED <<link, nextChannelId, topicOf, subscriptions>>
  BY DEF SubscribeEntry, netVars, bridgeVars
<1>2. ServerInvariant /\ Directory!Ids = channels
  BY IdsAreChannels DEF NodeletInvariant
<1> QED
  BY <1>1, <1>2, SubscribedView, Stutters DEF Directory!Want, View, Wanted

\* An entry of an unsubscribe message is refused, or the client no longer wants
\* the channel.
LEMMA UnsubscribeUnwants ==
  ASSUME NodeletInvariant, NEW s \in SubIds, UnsubscribeEntry(s),
         UNCHANGED bridgeVars
  PROVE  \/ UNCHANGED Directory!dirVars
         \/ /\ hdl \in Conns
            /\ \E ch \in ChannelIds : Directory!Unwant(hdl, ch)
<1>1. UNCHANGED <<link, nextChannelId, topicOf, subscriptions>>
  BY DEF UnsubscribeEntry, netVars, bridgeVars
<1>2. ServerInvariant
  BY DEF NodeletInvariant
<1> QED
  BY <1>1, <1>2, UnsubscribedView, Stutters DEF Directory!Unwant, View, Wanted

\* subscribeHandler starts a stream that is wanted (or that ROS refuses), ...
LEMMA HandlerStarts ==
  ASSUME NodeletInvariant, CallbackArgumentsValid, SubscribeHandler
  PROVE  \/ UNCHANGED Directory!dirVars
         \/ /\ hdl \in Conns /\ arg \in ChannelIds
            /\ Directory!StartStream(hdl, arg)
<1>1. UNCHANGED <<link, told, clients, subscriptionsByChannel, nextChannelId,
                  topicOf>>
  BY DEF SubscribeHandler, CallbackReturns, netVars, mapVars
<1>2. View' = View /\ Wanted' = Wanted
  BY <1>1, ViewKept, WantedKept
<1>3. hdl \in Conns /\ arg \in ChannelIds /\ arg \in Wanted[hdl]
  BY CallbackWanted DEF SubscribeHandler, NodeletInvariant
<1>4. \/ subscriptions' = subscriptions
      \/ subscriptions' = subscriptions \union {<<arg, hdl>>}
  BY DEF SubscribeHandler, Subscriber
<1> QED
  BY <1>1, <1>2, <1>3, <1>4, Stutters DEF Directory!StartStream, View, Wanted

\* ... and unsubscribeHandler ends one that is not, called for a message or for
\* a connection that is gone, when it takes the subscriber out of the maps; ...
LEMMA HandlerEnds ==
  ASSUME NodeletInvariant, CallbackArgumentsValid, NEW ch \in ChannelIds,
         \/ UnsubscribeBegins /\ ch = arg
         \/ CloseUnsubscribeBegins(ch)
  PROVE  hdl \in Conns /\ Directory!EndStream(hdl, ch)
<1>1. /\ UNCHANGED <<link, told, clients, subscriptionsByChannel, nextChannelId,
                     topicOf>>
      /\ subscriptions' = subscriptions \ {<<ch, hdl>>}
  BY DEF UnsubscribeBegins, CloseUnsubscribeBegins, EraseSubscriber, serverVars
<1>2. View' = View /\ Wanted' = Wanted
  BY <1>1, ViewKept, WantedKept
<1>3. hdl \in Conns /\ ch \notin Wanted[hdl]
  BY CallbackWanted DEF UnsubscribeBegins, CloseUnsubscribeBegins, Closing,
     NodeletInvariant
<1> QED
  BY <1>1, <1>2, <1>3 DEF Directory!EndStream, View, Wanted

-----------------------------------------------------------------------------
(* The refinement. *)

\* No other step changes the directory.
LEMMA OthersStutter ==
  ASSUME UNCHANGED <<link, told, clients, subscriptionsByChannel, nextChannelId,
                     topicOf, subscriptions>>
  PROVE  UNCHANGED Directory!dirVars
  BY ViewKept, WantedKept, Stutters

\* Every step of the nodelet is one of the directory, or none.
LEMMA DirectoryStep ==
  ASSUME NodeletInvariant, CallbackArgumentsValid, [Next]_vars
  PROVE  [Directory!DirNext]_(Directory!dirVars)
<1> USE DEF Directory!DirNext, ChannelIds
<1>1. ASSUME NEW c \in Conns, UNCHANGED bridgeVars,
             \/ PeerLost(c) \/ RejectConnection(c) \/ HandleConnectionOpened(c)
             \/ HandleConnectionClosed(c)
      PROVE  Directory!DirNext
  BY <1>1, ConnectionSteps
<1>2. ASSUME CloseReturns, UNCHANGED bridgeVars PROVE Directory!DirNext
  BY <1>2, ReturnCloses
<1>3. ASSUME NEW s \in SubIds, NEW ch \in ChannelIds, SubscribeEntry(s, ch),
             UNCHANGED bridgeVars
      PROVE  [Directory!DirNext]_(Directory!dirVars)
  BY <1>3, SubscribeWants
<1>4. ASSUME NEW s \in SubIds, UnsubscribeEntry(s), UNCHANGED bridgeVars
      PROVE  [Directory!DirNext]_(Directory!dirVars)
  BY <1>4, UnsubscribeUnwants
<1>5. CASE SubscribeHandler
  BY <1>5, HandlerStarts
<1>6. CASE UnsubscribeBegins \/ \E ch \in ChannelIds : CloseUnsubscribeBegins(ch)
  <2>1. PICK ch \in ChannelIds : \/ UnsubscribeBegins /\ ch = arg
                                 \/ CloseUnsubscribeBegins(ch)
    BY <1>6 DEF UnsubscribeBegins, NodeletInvariant, ServerInvariant,
       HandlerReferencesValid
  <2>2. hdl \in Conns /\ Directory!EndStream(hdl, ch)
    BY <2>1, HandlerEnds
  <2> QED
    BY <2>2
<1>7. ASSUME NEW t \in Topics, AddTopic(t) PROVE Directory!DirNext
  BY <1>7, AddTopicOffers
<1>8. ASSUME NEW t \in Topics, NEW ch \in ChannelIds, RemoveTopic(ch, t)
      PROVE  Directory!DirNext
  BY <1>8, RemoveTopicWithdraws
<1>9. CASE BroadcastTopics
  BY <1>9, BroadcastAnnounces
<1>10. ASSUME UNCHANGED bridgeVars,
              \/ \E c \in Conns, o \in Ops, n \in 0..MaxBatch :
                   HandleTextMessage(c, o, n)
              \/ \E c \in Conns, k \in ClientChannels : HandleBinaryMessage(c, k)
              \/ \E k \in ClientChannels : AdvertiseEntry(k) \/ UnadvertiseEntry(k)
              \/ MalformedEntry \/ TextMessageDone \/ EraseClientChannels
       PROVE  UNCHANGED Directory!dirVars
  BY <1>10, OthersStutter DEF HandleTextMessage, HandleBinaryMessage,
     AdvertiseEntry, UnadvertiseEntry, SkipEntry, MalformedEntry,
     TextMessageDone, EraseClientChannels, netVars, mapVars, bridgeVars
<1>11. CASE \/ ClientAdvertiseHandler \/ ClientAdvertiseRefused
            \/ ClientAdvertiseThrows \/ ClientUnadvertiseHandler
            \/ ClientMessageHandler \/ UnsubscribeReturns
            \/ \E k \in ClientChannels : CloseUnadvertiseHandler(k)
            \/ \E ch \in ChannelIds : CloseUnsubscribeReturns(ch)
  BY <1>11, OthersStutter DEF ClientAdvertiseHandler, ClientAdvertiseRefused,
     ClientAdvertiseThrows, ClientUnadvertiseHandler, DropPublication,
     ClientMessageHandler, UnsubscribeReturns, CloseUnsubscribeReturns,
     SubscriberErased, CloseUnadvertiseHandler, CallbackReturns, CallbackThrows,
     MessageCallbackReturns, CloseUnadvertise, CloseUnsubscribe, netVars,
     mapVars, subVars, bridgeVars
<1>12. CASE \/ \E t \in Topics : GraphChange(t) \/ SkipTopic(t)
            \/ \E s \in ChannelIds \X Conns :
                 \/ MessageArrives(s) \/ SendMessageReturns(s)
                 \/ SendMessageWaits(s) \/ RosMessageHandler(s)
            \/ TimerFires \/ GetTopicsFails \/ GetTopics \/ LockSubscriptions
            \/ SubscribersErased \/ UnlockSubscriptions \/ ScheduleUpdate
  BY <1>12, OthersStutter DEF GraphChange, SkipTopic, MessageArrives,
     SendMessageReturns, SendMessageWaits,
     RosMessageHandler, TimerFires, GetTopicsFails, GetTopics,
     LockSubscriptions, SubscribersErased, UnlockSubscriptions, ScheduleUpdate,
     serverVars, subVars
<1>13. CASE UNCHANGED vars
  BY <1>13, OthersStutter DEF vars, serverVars, bridgeVars
<1> HIDE DEF Directory!DirNext, ChannelIds
<1> QED
  BY <1>1, <1>2, <1>3, <1>4, <1>5, <1>6, <1>7, <1>8, <1>9, <1>10, <1>11, <1>12,
     <1>13 DEF Next, Environment, Workers, RunLoopBegins, RunLoopContinues,
     Handlers, UpdateSteps

\* The nodelet implements the directory of channels, as the ROS 2 bridge does,
\* with a third kind of threads and subscribers that are erased in two steps.
THEOREM NodeletImplementsDirectory == Spec => ImplementsDirectory
<1>1. NodeletInvariant /\ CallbackArgumentsValid /\ [Next]_vars
        => [Directory!DirNext]_(Directory!dirVars)
  BY DirectoryStep
<1> QED
  BY <1>1, NodeletInvariance, NodeletArgumentsValid, DirectoryInit, PTL
     DEF Spec, ImplementsDirectory, Directory!DirSpec

-----------------------------------------------------------------------------
(* The cycles of threads that wait for each other. *)

\* No step ends a cycle: a callback that is past the tests of sendMessage needs
\* _clientsChannelMutex, which the handler holds; the handler needs
\* _subscriptionsMutex or the return of a callback; and the update needs the one
\* or the other.
LEMMA CyclicWaitStep ==
  NodeletInvariant /\ CyclicWait /\ [Next]_vars => CyclicWait'
<1> SUFFICES ASSUME NodeletInvariant, CyclicWait, [Next]_vars PROVE CyclicWait'
  OBVIOUS
<1> USE DEF CyclicWait
<1>0. /\ Locked /\ SubscriptionsLocked /\ (upc = "update" => destroying = {})
      /\ sending \subseteq delivering
  BY DEF Locked, Callbacks, AllOps, SubscriptionsLocked, NodeletInvariant,
     OneHolder, TypeOK
<1>1. CASE /\ UNCHANGED <<pc, upc, removedTopics, newTopics, erasing, destroying>>
           /\ sending \subseteq sending'
  BY <1>1
<1>2. CASE Environment
  BY <1>1, <1>2 DEF Environment, PeerLost, GraphChange, MessageArrives, loopVars,
     serverVars, updateVars, bridgeVars
<1>3. CASE Workers
  BY <1>0, <1>1, <1>3 DEF Workers, SendMessageReturns, SendMessageWaits,
     RosMessageHandler, CanSend, serverVars, loopVars, updateVars
<1>4. CASE RunLoopBegins \/ RunLoopContinues
  BY <1>4 DEF RunLoopBegins, RejectConnection, HandleConnectionOpened,
     HandleConnectionClosed, HandleTextMessage, HandleBinaryMessage,
     RunLoopContinues, SubscribeEntry, UnsubscribeEntry, AdvertiseEntry,
     UnadvertiseEntry, NextEntry, MalformedEntry, TextMessageDone,
     EraseClientChannels, CloseReturns
<1>5. CASE Handlers
  BY <1>0, <1>5 DEF Handlers, SubscribeHandler, UnsubscribeBegins,
     UnsubscribeReturns, CloseUnsubscribeBegins, CloseUnsubscribeReturns,
     CloseUnsubscribe, EraseSubscriber, SubscriberErased, Destroyed,
     ClientAdvertiseHandler, ClientAdvertiseRefused, ClientAdvertiseThrows,
     ClientUnadvertiseHandler, ClientMessageHandler, MessageCallbackReturns,
     CloseUnadvertiseHandler, CloseUnadvertise
<1>6. CASE TimerFires \/ GetTopicsFails \/ UpdateSteps
  <2>1. ASSUME NEW t \in Topics, SkipTopic(t) PROVE CyclicWait'
    BY <2>1 DEF SkipTopic, serverVars
  <2>2. CASE SubscribersErased
    BY <1>0, <2>2 DEF SubscribersErased, Destroyed, serverVars
  <2>3. CASE UnlockSubscriptions
    BY <1>0, <2>3 DEF UnlockSubscriptions
  <2>4. CASE TimerFires \/ GetTopicsFails \/ GetTopics \/ ScheduleUpdate
    BY <2>4 DEF TimerFires, GetTopicsFails, GetTopics, ScheduleUpdate, serverVars
  <2> QED
    BY <1>0, <1>6, <2>1, <2>2, <2>3, <2>4 DEF UpdateSteps, LockSubscriptions,
       RemoveTopic, RemoveChannel, AddTopic, AddChannel, BroadcastTopics,
       BroadcastChannels
<1>7. CASE UNCHANGED vars
  BY <1>1, <1>7 DEF vars, serverVars, bridgeVars
<1> QED
  BY <1>2, <1>3, <1>4, <1>5, <1>6, <1>7 DEF Next

\* Threads of the nodelet that once wait for each other in one of these cycles do
\* so for ever: what the liveness properties except is a deadlock and no delay.
THEOREM CyclicWaitIsForEver == Spec => [](CyclicWait => []CyclicWait)
  BY CyclicWaitStep, NodeletInvariance, PTL DEF Spec

-----------------------------------------------------------------------------
(* Ros1Polling: the period of the timer that starts the updates. *)

\* The powers that the prover works out one by one.
LEMMA PowersOfTwo ==
  /\ 2^0 = 1         /\ 2^1 = 2         /\ 2^2 = 4          /\ 2^3 = 8
  /\ 2^4 = 16        /\ 2^5 = 32        /\ 2^6 = 64         /\ 2^7 = 128
  /\ 2^8 = 256       /\ 2^9 = 512       /\ 2^10 = 1024      /\ 2^11 = 2048
  /\ 2^12 = 4096     /\ 2^13 = 8192     /\ 2^14 = 16384     /\ 2^15 = 32768
  /\ 2^16 = 65536    /\ 2^17 = 131072   /\ 2^18 = 262144    /\ 2^19 = 524288
  /\ 2^20 = 1048576  /\ 2^21 = 2097152  /\ 2^22 = 4194304   /\ 2^23 = 8388608
  /\ 2^24 = 16777216 /\ 2^25 = 33554432 /\ 2^26 = 67108864  /\ 2^27 = 134217728
  /\ 2^28 = 268435456 /\ 2^29 = 536870912 /\ 2^30 = 1073741824
  OBVIOUS

\* A shift by one more is not smaller, also where it meets INT_MAX.
LEMMA PowerGrows ==
  ASSUME NEW k \in Nat
  PROVE  /\ PowerOfTwo(k) \in Nat
         /\ PowerOfTwo(k) <= PowerOfTwo(k + 1)
<1> DEFINE E(i) == 2^i
<1>1. /\ E(0) = 1 /\ E(1) = 2 /\ E(2) = 4 /\ E(3) = 8 /\ E(4) = 16 /\ E(5) = 32
      /\ E(6) = 64 /\ E(7) = 128 /\ E(8) = 256 /\ E(9) = 512 /\ E(10) = 1024
      /\ E(11) = 2048 /\ E(12) = 4096 /\ E(13) = 8192 /\ E(14) = 16384
      /\ E(15) = 32768 /\ E(16) = 65536 /\ E(17) = 131072 /\ E(18) = 262144
      /\ E(19) = 524288 /\ E(20) = 1048576 /\ E(21) = 2097152 /\ E(22) = 4194304
      /\ E(23) = 8388608 /\ E(24) = 16777216 /\ E(25) = 33554432 /\ E(26) = 67108864
      /\ E(27) = 134217728 /\ E(28) = 268435456 /\ E(29) = 536870912
      /\ E(30) = 1073741824
  BY PowersOfTwo
<1>2. /\ PowerOfTwo(k) = IF k < 31 THEN E(k) ELSE 2147483647
      /\ PowerOfTwo(k + 1) = IF k + 1 < 31 THEN E(k + 1) ELSE 2147483647
  BY SMT DEF PowerOfTwo, INT_MAX
<1> HIDE DEF E
<1>3. CASE k < 31
  <2>1. \/ k = 0 \/ k = 1 \/ k = 2 \/ k = 3 \/ k = 4 \/ k = 5 \/ k = 6 \/ k = 7
        \/ k = 8 \/ k = 9 \/ k = 10 \/ k = 11 \/ k = 12 \/ k = 13 \/ k = 14 \/ k = 15
        \/ k = 16 \/ k = 17 \/ k = 18 \/ k = 19 \/ k = 20 \/ k = 21 \/ k = 22
        \/ k = 23 \/ k = 24 \/ k = 25 \/ k = 26 \/ k = 27 \/ k = 28 \/ k = 29 \/ k = 30
    BY <1>3, SMT
  <2>2. E(k) \in Nat /\ E(k) <= 2147483647
    BY <1>1, <2>1, SMT
  <2>3. k < 30 => E(k) <= E(k + 1)
    BY <1>1, <2>1, SMT
  <2> QED
    BY <1>2, <1>3, <2>2, <2>3, SMT
<1>4. CASE ~(k < 31)
  BY <1>2, <1>4, SMT
<1> QED
  BY <1>3, <1>4

\* The period for a result of the shift.
Period(x) == AtLeast(MIN_UPDATE_PERIOD_MS, AtMost(x, maxUpdateMs))

\* Whatever the shift results in, the period is in range, and it grows with it.
LEMMA PeriodProperties ==
  ASSUME maxUpdateMs \in Nat
  PROVE  /\ \A x \in Nat : Period(x) \in MIN_UPDATE_PERIOD_MS ..
                                 AtLeast(MIN_UPDATE_PERIOD_MS, maxUpdateMs)
         /\ \A x, y \in Nat : x <= y => Period(x) <= Period(y)
  BY DEF Period, AtLeast, AtMost, MIN_UPDATE_PERIOD_MS

\* While the shift is defined the period is the one for the count.
PeriodInvariant ==
  /\ maxUpdateMs \in Nat
  /\ updateCount \in 0..Bits
  /\ updateCount = 0 => nextUpdateMs = 0
  /\ updateCount \in 1..(Bits - 1) =>
       nextUpdateMs = Period(PowerOfTwo(updateCount))
  /\ PeriodInRange

\* The next update computes a period in range, and not a shorter one while the
\* shift is defined.
LEMMA PeriodStep ==
  ASSUME PeriodInvariant, [PollingNext]_pollingVars
  PROVE  /\ PeriodInvariant'
         /\ updateCount' < Bits => nextUpdateMs' >= nextUpdateMs
<1>1. /\ Bits \in Nat \ {0} /\ updateCount \in 0..Bits
      /\ maxUpdateMs \in Nat /\ nextUpdateMs \in Nat
  <2>1. Bits \in Nat \ {0} /\ maxUpdateMs \in Nat /\ updateCount \in 0..Bits
    BY PollingAssumption DEF PeriodInvariant
  <2> QED
    BY <2>1 DEF PeriodInvariant, PeriodInRange, AtLeast, MIN_UPDATE_PERIOD_MS
<1>2. CASE UNCHANGED pollingVars
  BY <1>1, <1>2 DEF PeriodInvariant, PeriodInRange, Period, pollingVars
<1>3. CASE ScheduleNextUpdate
  <2>1. /\ updateCount' = IF updateCount + 1 < Bits THEN updateCount + 1 ELSE Bits
        /\ nextUpdateMs' \in NextPeriods(updateCount')
        /\ maxUpdateMs' = maxUpdateMs
    BY <1>3 DEF ScheduleNextUpdate, AtMost
  <2>2. updateCount' \in 1..Bits
    BY <1>1, <2>1
  <2>3. PICK x \in Shifted(updateCount') : nextUpdateMs' = Period(x)
    BY <2>1 DEF NextPeriods, Period
  <2>4. x \in Nat /\ (updateCount' < Bits => x = PowerOfTwo(updateCount'))
    BY <1>1, <2>2, PowerGrows DEF Shifted
  <2>5. PeriodInRange'
    BY <1>1, <2>1, <2>3, <2>4, PeriodProperties DEF PeriodInRange
  <2>6. PeriodInvariant'
    BY <1>1, <2>1, <2>2, <2>3, <2>4, <2>5 DEF PeriodInvariant, Period
  <2>7. ASSUME updateCount' < Bits PROVE nextUpdateMs' >= nextUpdateMs
    <3>1. updateCount' = updateCount + 1 /\ updateCount \in Nat
      BY <1>1, <2>1, <2>7
    <3>2. nextUpdateMs' = Period(PowerOfTwo(updateCount + 1))
      BY <2>3, <2>4, <2>7, <3>1
    <3>3. Period(PowerOfTwo(updateCount + 1)) \in Nat
      BY <1>1, <2>4, <2>7, <3>1, PeriodProperties
         DEF AtLeast, MIN_UPDATE_PERIOD_MS
    <3>4. CASE updateCount = 0
      BY <3>2, <3>3, <3>4 DEF PeriodInvariant
    <3>5. CASE updateCount # 0
      <4>1. nextUpdateMs = Period(PowerOfTwo(updateCount))
        BY <1>1, <2>7, <3>1, <3>5 DEF PeriodInvariant
      <4>2. /\ PowerOfTwo(updateCount) \in Nat
            /\ PowerOfTwo(updateCount + 1) \in Nat
            /\ PowerOfTwo(updateCount) <= PowerOfTwo(updateCount + 1)
        BY <3>1, PowerGrows
      <4>3. Period(PowerOfTwo(updateCount)) <=
              Period(PowerOfTwo(updateCount + 1))
        BY <1>1, <4>2, PeriodProperties
      <4> QED
        BY <1>1, <3>2, <3>3, <4>1, <4>3
    <3> QED
      BY <3>4, <3>5
  <2> QED
    BY <2>6, <2>7
<1> QED
  BY <1>2, <1>3 DEF PollingNext

\* No period has been computed at first, and the maximum is no negative number
\* whatever int the parameter is.
LEMMA PeriodInit == PollingInit => PeriodInvariant
<1> SUFFICES ASSUME PollingInit PROVE PeriodInvariant
  OBVIOUS
<1>1. PICK n \in MaxUpdateParams : maxUpdateMs = SizeT(n)
  BY DEF PollingInit
<1>2. n \in Int
  <2>1. INT_MAX \in Int
    BY SMT DEF INT_MAX
  <2> QED
    BY <2>1, PollingAssumption
<1>3. maxUpdateMs \in Nat
  BY <1>1, <1>2, SMT DEF SizeT, INT_MAX
<1> QED
  BY <1>3, PollingAssumption DEF PollingInit, PeriodInvariant, PeriodInRange

\* For every int parameter and every width of size_t the period of the timer is
\* between MIN_UPDATE_PERIOD_MS and _maxUpdateMs, also when the shift is undefined.
THEOREM PollingPeriodInRange == PollingSpec => []PeriodInRange
<1>1. PeriodInvariant => PeriodInRange
  BY DEF PeriodInvariant
<1>2. PeriodInvariant /\ [PollingNext]_pollingVars => PeriodInvariant'
  BY PeriodStep
<1> QED
  BY <1>1, <1>2, PeriodInit, PTL DEF PollingSpec

\* The backoff never gets shorter while the shift is defined.
THEOREM PollingBackoffGrows == PollingSpec => BackoffGrows
<1>1. PeriodInvariant /\ [PollingNext]_pollingVars => PeriodInvariant'
  BY PeriodStep
<1>2. PeriodInvariant /\ [PollingNext]_pollingVars =>
        [updateCount' < Bits => nextUpdateMs' >= nextUpdateMs]_pollingVars
  BY PeriodStep
<1> QED
  BY <1>1, <1>2, PeriodInit, PTL DEF PollingSpec, BackoffGrows
=============================================================================
