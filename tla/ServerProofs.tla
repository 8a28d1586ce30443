---------------------------- MODULE ServerProofs ----------------------------
(***************************************************************************)
(* The server keeps its invariant for any number of connections, channels, *)
(* ids and entries per message.                                            *)
(***************************************************************************)
EXTENDS WebSocketServer, TLAPS

USE DEF AllOps, ChannelIds, NoArg, Callbacks, Closing

\* What the callbacks may rely on: the client is not subscribed any more to the
\* channel that unsubscribeHandler is called for, the channel that
\* clientAdvertiseHandler is called for is in _clientChannels, and a connection
\* that is open has its ClientInfo.
CallbackArgumentsValid ==
  /\ pc = "unsubscribe" => \A m \in subscriptionsByChannel[hdl] : m[1] # arg
  /\ pc = "advertise" => arg \in clientChannels[hdl]
  /\ \A c \in Conns : link[c] = "open" => c \in clients

\* Between two events the variables of the run loop have their types.
LEMMA IdleTypes ==
  ASSUME Idle
  PROVE  /\ pc' \in {"idle", "entries", "message"} \union Callbacks \union Closing
         /\ hdl' \in Conns \union {NoConn}
         /\ op' \in Ops \union {"none"}
         /\ left' \in 0..MaxBatch
         /\ first' \in BOOLEAN
         /\ arg' \in ChannelIds \union ClientChannels \union {NoArg}
<1>1. first' \in BOOLEAN
  BY Zenon DEF Idle
<1>2. left' \in 0..MaxBatch
  BY ServerAssumption DEF Idle
<1> QED
  BY <1>1, <1>2, Zenon DEF Idle

\* Type correctness: the type of each variable is kept by each action, given
\* that a handler at work has a connection.
LEMMA TypeStep ==
  ASSUME ServerTypeOK, HandlerReferencesValid, ServerNext
  PROVE  ServerTypeOK'
<1> USE ServerAssumption DEF ServerTypeOK, HandlerReferencesValid, netVars,
        mapVars, loopVars
<1>1. ASSUME NEW c \in Conns, PeerLost(c) PROVE ServerTypeOK'
  BY <1>1 DEF PeerLost
<1>2. CASE AddChannel
  BY <1>2 DEF AddChannel
<1>3. ASSUME NEW ch \in ChannelIds, RemoveChannel(ch) PROVE ServerTypeOK'
  BY <1>3 DEF RemoveChannel
<1>4. CASE BroadcastChannels
  BY <1>4 DEF BroadcastChannels
<1>5. ASSUME NEW c \in Conns, RejectConnection(c) PROVE ServerTypeOK'
  BY <1>5 DEF RejectConnection
<1>6. ASSUME NEW c \in Conns, HandleConnectionOpened(c) PROVE ServerTypeOK'
  BY <1>6 DEF HandleConnectionOpened
<1>7. ASSUME NEW c \in Conns, HandleConnectionClosed(c) PROVE ServerTypeOK'
  BY <1>7 DEF HandleConnectionClosed
<1>8. ASSUME NEW c \in Conns, NEW o \in Ops, NEW n \in 0..MaxBatch,
             HandleTextMessage(c, o, n)
      PROVE  ServerTypeOK'
  BY <1>8 DEF HandleTextMessage
<1>9. ASSUME NEW c \in Conns, NEW k \in ClientChannels, HandleBinaryMessage(c, k)
      PROVE  ServerTypeOK'
  BY <1>9 DEF HandleBinaryMessage
<1>10. ASSUME NEW s \in SubIds, NEW ch \in ChannelIds, SubscribeEntry(s, ch)
       PROVE  ServerTypeOK'
  BY <1>10 DEF SubscribeEntry, NextEntry, CallBack, SkipEntry
<1>11. ASSUME NEW s \in SubIds, UnsubscribeEntry(s) PROVE ServerTypeOK'
  BY <1>11 DEF UnsubscribeEntry, NextEntry, CallBack, SkipEntry
<1>12. ASSUME NEW k \in ClientChannels, AdvertiseEntry(k) PROVE ServerTypeOK'
  BY <1>12 DEF AdvertiseEntry, NextEntry, CallBack, SkipEntry
<1>13. ASSUME NEW k \in ClientChannels, UnadvertiseEntry(k) PROVE ServerTypeOK'
  BY <1>13 DEF UnadvertiseEntry, NextEntry, CallBack, SkipEntry
<1>14. CASE MalformedEntry \/ TextMessageDone
  BY <1>14, IdleTypes DEF MalformedEntry, TextMessageDone
<1>15. CASE EraseClientChannels
  BY <1>15 DEF EraseClientChannels
<1>16. CASE CloseReturns
  BY <1>16, IdleTypes DEF CloseReturns
<1>17. CASE CallbackReturns
  BY <1>17 DEF CallbackReturns
<1>18. CASE CallbackThrows \/ MessageCallbackReturns
  BY <1>18, IdleTypes DEF CallbackThrows, MessageCallbackReturns
<1>19. ASSUME NEW k \in ClientChannels, CloseUnadvertise(k) PROVE ServerTypeOK'
  BY <1>19 DEF CloseUnadvertise
<1>20. ASSUME NEW ch \in ChannelIds, CloseUnsubscribe(ch) PROVE ServerTypeOK'
  BY <1>20 DEF CloseUnsubscribe
<1> QED
  BY <1>1, <1>2, <1>3, <1>4, <1>5, <1>6, <1>7, <1>8, <1>9, <1>10, <1>11, <1>12,
     <1>13, <1>14, <1>15, <1>16, <1>17, <1>18, <1>19, <1>20
     DEF ServerNext, EmbedderCalls, RunLoopBegins, RunLoopContinues,
         RunLoopCallbacks

\* A handler keeps its references across every step of every thread.
LEMMA ReferencesStep ==
  ASSUME ServerInvariant, ServerNext
  PROVE  HandlerReferencesValid'
<1> USE ServerAssumption DEF ServerInvariant, ServerTypeOK, HandlerReferencesValid,
        ClosedConnectionsOwnNothing, netVars,
        mapVars, loopVars
<1>1. ASSUME NEW c \in Conns, PeerLost(c) PROVE HandlerReferencesValid'
  BY <1>1 DEF PeerLost
<1>2. CASE AddChannel
  BY <1>2 DEF AddChannel
<1>3. ASSUME NEW ch \in ChannelIds, RemoveChannel(ch)
      PROVE  HandlerReferencesValid'
  BY <1>3 DEF RemoveChannel
<1>4. CASE BroadcastChannels
  BY <1>4 DEF BroadcastChannels
<1>5. ASSUME NEW c \in Conns, RejectConnection(c)
      PROVE  HandlerReferencesValid'
  BY <1>5 DEF RejectConnection
<1>6. ASSUME NEW c \in Conns, HandleConnectionOpened(c)
      PROVE  HandlerReferencesValid'
  BY <1>6 DEF HandleConnectionOpened
<1>7. ASSUME NEW c \in Conns, HandleConnectionClosed(c)
      PROVE  HandlerReferencesValid'
  BY <1>7 DEF HandleConnectionClosed
<1>8. ASSUME NEW c \in Conns, NEW o \in Ops, NEW n \in 0..MaxBatch,
             HandleTextMessage(c, o, n)
      PROVE  HandlerReferencesValid'
  BY <1>8 DEF HandleTextMessage
<1>9. ASSUME NEW c \in Conns, NEW k \in ClientChannels,
             HandleBinaryMessage(c, k)
      PROVE  HandlerReferencesValid'
  BY <1>9 DEF HandleBinaryMessage
<1>10. ASSUME NEW s \in SubIds, NEW ch \in ChannelIds, SubscribeEntry(s, ch)
       PROVE  HandlerReferencesValid'
  BY <1>10 DEF SubscribeEntry, NextEntry, CallBack, SkipEntry
<1>11. ASSUME NEW s \in SubIds, UnsubscribeEntry(s)
       PROVE  HandlerReferencesValid'
  BY <1>11 DEF UnsubscribeEntry, NextEntry, CallBack, SkipEntry
<1>12. ASSUME NEW k \in ClientChannels, AdvertiseEntry(k)
       PROVE  HandlerReferencesValid'
  BY <1>12 DEF AdvertiseEntry, NextEntry, CallBack, SkipEntry
<1>13. ASSUME NEW k \in ClientChannels, UnadvertiseEntry(k)
       PROVE  HandlerReferencesValid'
  BY <1>13 DEF UnadvertiseEntry, NextEntry, CallBack, SkipEntry
<1>14. CASE MalformedEntry \/ TextMessageDone
  BY <1>14 DEF MalformedEntry, TextMessageDone, Idle
<1>15. CASE EraseClientChannels
  BY <1>15 DEF EraseClientChannels
<1>16. CASE CloseReturns
  BY <1>16 DEF CloseReturns, Idle
<1>17. CASE CallbackReturns
  BY <1>17 DEF CallbackReturns
<1>18. CASE CallbackThrows \/ MessageCallbackReturns
  BY <1>18 DEF CallbackThrows, MessageCallbackReturns, Idle
<1>19. ASSUME NEW k \in ClientChannels, CloseUnadvertise(k)
       PROVE  HandlerReferencesValid'
  BY <1>19 DEF CloseUnadvertise
<1>20. ASSUME NEW ch \in ChannelIds, CloseUnsubscribe(ch)
       PROVE  HandlerReferencesValid'
  BY <1>20 DEF CloseUnsubscribe
<1> QED
  BY <1>1, <1>2, <1>3, <1>4, <1>5, <1>6, <1>7, <1>8, <1>9, <1>10, <1>11, <1>12,
     <1>13, <1>14, <1>15, <1>16, <1>17, <1>18, <1>19, <1>20
     DEF ServerNext, EmbedderCalls, RunLoopBegins, RunLoopContinues,
         RunLoopCallbacks

\* Only a subscribe entry adds a subscription, with a new id on a new channel.
LEMMA OneToOneStep ==
  ASSUME ServerInvariant, ServerNext
  PROVE  SubscriptionsOneToOne'
<1> USE ServerAssumption DEF ServerInvariant, ServerTypeOK, HandlerReferencesValid,
        SubscriptionsOneToOne, netVars,
        mapVars, loopVars
<1>1. ASSUME NEW c \in Conns, PeerLost(c) PROVE SubscriptionsOneToOne'
  BY <1>1 DEF PeerLost
<1>2. CASE AddChannel
  BY <1>2 DEF AddChannel
<1>3. ASSUME NEW ch \in ChannelIds, RemoveChannel(ch)
      PROVE  SubscriptionsOneToOne'
  BY <1>3 DEF RemoveChannel
<1>4. CASE BroadcastChannels
  BY <1>4 DEF BroadcastChannels
<1>5. ASSUME NEW c \in Conns, RejectConnection(c) PROVE SubscriptionsOneToOne'
  BY <1>5 DEF RejectConnection
<1>6. ASSUME NEW c \in Conns, HandleConnectionOpened(c)
      PROVE  SubscriptionsOneToOne'
  BY <1>6 DEF HandleConnectionOpened
<1>7. ASSUME NEW c \in Conns, HandleConnectionClosed(c)
      PROVE  SubscriptionsOneToOne'
  BY <1>7 DEF HandleConnectionClosed
<1>8. ASSUME NEW c \in Conns, NEW o \in Ops, NEW n \in 0..MaxBatch,
             HandleTextMessage(c, o, n)
      PROVE  SubscriptionsOneToOne'
  BY <1>8 DEF HandleTextMessage
<1>9. ASSUME NEW c \in Conns, NEW k \in ClientChannels,
             HandleBinaryMessage(c, k)
      PROVE  SubscriptionsOneToOne'
  BY <1>9 DEF HandleBinaryMessage
<1>10. ASSUME NEW s \in SubIds, NEW ch \in ChannelIds, SubscribeEntry(s, ch)
       PROVE  SubscriptionsOneToOne'
  BY <1>10 DEF SubscribeEntry, NextEntry, CallBack, SkipEntry
<1>11. ASSUME NEW s \in SubIds, UnsubscribeEntry(s)
       PROVE  SubscriptionsOneToOne'
  BY <1>11 DEF UnsubscribeEntry, NextEntry, CallBack, SkipEntry
<1>12. ASSUME NEW k \in ClientChannels, AdvertiseEntry(k)
       PROVE  SubscriptionsOneToOne'
  BY <1>12 DEF AdvertiseEntry, NextEntry, CallBack, SkipEntry
<1>13. ASSUME NEW k \in ClientChannels, UnadvertiseEntry(k)
       PROVE  SubscriptionsOneToOne'
  BY <1>13 DEF UnadvertiseEntry, NextEntry, CallBack, SkipEntry
<1>14. CASE MalformedEntry \/ TextMessageDone
  BY <1>14 DEF MalformedEntry, TextMessageDone, Idle
<1>15. CASE EraseClientChannels
  BY <1>15 DEF EraseClientChannels
<1>16. CASE CloseReturns
  BY <1>16 DEF CloseReturns, Idle
<1>17. CASE CallbackReturns
  BY <1>17 DEF CallbackReturns
<1>18. CASE CallbackThrows \/ MessageCallbackReturns
  BY <1>18 DEF CallbackThrows, MessageCallbackReturns, Idle
<1>19. ASSUME NEW k \in ClientChannels, CloseUnadvertise(k)
       PROVE  SubscriptionsOneToOne'
  BY <1>19 DEF CloseUnadvertise
<1>20. ASSUME NEW ch \in ChannelIds, CloseUnsubscribe(ch)
       PROVE  SubscriptionsOneToOne'
  BY <1>20 DEF CloseUnsubscribe
<1> QED
  BY <1>1, <1>2, <1>3, <1>4, <1>5, <1>6, <1>7, <1>8, <1>9, <1>10, <1>11, <1>12,
     <1>13, <1>14, <1>15, <1>16, <1>17, <1>18, <1>19, <1>20
     DEF ServerNext, EmbedderCalls, RunLoopBegins, RunLoopContinues,
         RunLoopCallbacks

\* A channel is removed with its subscriptions, and never under the mutex of a
\* callback.
LEMMA HaveChannelsStep ==
  ASSUME ServerInvariant, ServerNext
  PROVE  SubscriptionsHaveChannels'
<1> USE ServerAssumption DEF ServerInvariant, ServerTypeOK, HandlerReferencesValid,
        SubscriptionsHaveChannels, Locked, netVars,
        mapVars, loopVars
<1>1. ASSUME NEW c \in Conns, PeerLost(c) PROVE SubscriptionsHaveChannels'
  BY <1>1 DEF PeerLost
<1>2. CASE AddChannel
  BY <1>2 DEF AddChannel
<1>3. ASSUME NEW ch \in ChannelIds, RemoveChannel(ch)
      PROVE  SubscriptionsHaveChannels'
  BY <1>3 DEF RemoveChannel
<1>4. CASE BroadcastChannels
  BY <1>4 DEF BroadcastChannels
<1>5. ASSUME NEW c \in Conns, RejectConnection(c)
      PROVE  SubscriptionsHaveChannels'
  BY <1>5 DEF RejectConnection
<1>6. ASSUME NEW c \in Conns, HandleConnectionOpened(c)
      PROVE  SubscriptionsHaveChannels'
  BY <1>6 DEF HandleConnectionOpened
<1>7. ASSUME NEW c \in Conns, HandleConnectionClosed(c)
      PROVE  SubscriptionsHaveChannels'
  BY <1>7 DEF HandleConnectionClosed
<1>8. ASSUME NEW c \in Conns, NEW o \in Ops, NEW n \in 0..MaxBatch,
             HandleTextMessage(c, o, n)
      PROVE  SubscriptionsHaveChannels'
  BY <1>8 DEF HandleTextMessage
<1>9. ASSUME NEW c \in Conns, NEW k \in ClientChannels,
             HandleBinaryMessage(c, k)
      PROVE  SubscriptionsHaveChannels'
  BY <1>9 DEF HandleBinaryMessage
<1>10. ASSUME NEW s \in SubIds, NEW ch \in ChannelIds, SubscribeEntry(s, ch)
       PROVE  SubscriptionsHaveChannels'
  <2>1. CASE UNCHANGED <<subscriptionsByChannel, pc, arg>>
    BY <1>10, <2>1 DEF SubscribeEntry, NextEntry
  <2>2. CASE /\ ch \in channels
             /\ subscriptionsByChannel' =
                  IF \E m \in subscriptionsByChannel[hdl] : m[1] = ch
                  THEN subscriptionsByChannel
                  ELSE [subscriptionsByChannel EXCEPT
                          ![hdl] = subscriptionsByChannel[hdl] \union {<<ch, s>>}]
             /\ CallBack(ch)
    <3>1. hdl \in Conns /\ hdl' = hdl /\ channels' = channels /\ arg' = ch
      BY <1>10, <2>2 DEF SubscribeEntry, NextEntry, CallBack
    <3>2. CASE \E m \in subscriptionsByChannel[hdl] : m[1] = ch
      BY <2>2, <3>1, <3>2
    <3>3. CASE ~ \E m \in subscriptionsByChannel[hdl] : m[1] = ch
      <4>1. subscriptionsByChannel' =
              [subscriptionsByChannel EXCEPT
                 ![hdl] = subscriptionsByChannel[hdl] \union {<<ch, s>>}]
        BY <2>2, <3>3
      <4>2. \A c \in Conns : \A m \in subscriptionsByChannel'[c] :
              m \in subscriptionsByChannel[c] \/ m = <<ch, s>>
        BY <3>1, <4>1
      <4>3. <<ch, s>> \in subscriptionsByChannel'[hdl]
        BY <3>1, <4>1
      <4> QED
        BY <2>2, <3>1, <4>2, <4>3
    <3> QED
      BY <3>2, <3>3
  <2> QED
    BY <1>10, <2>1, <2>2 DEF SubscribeEntry, SkipEntry
<1>11. ASSUME NEW s \in SubIds, UnsubscribeEntry(s)
       PROVE  SubscriptionsHaveChannels'
  BY <1>11 DEF UnsubscribeEntry, NextEntry, CallBack, SkipEntry
<1>12. ASSUME NEW k \in ClientChannels, AdvertiseEntry(k)
       PROVE  SubscriptionsHaveChannels'
  BY <1>12 DEF AdvertiseEntry, NextEntry, CallBack, SkipEntry
<1>13. ASSUME NEW k \in ClientChannels, UnadvertiseEntry(k)
       PROVE  SubscriptionsHaveChannels'
  BY <1>13 DEF UnadvertiseEntry, NextEntry, CallBack, SkipEntry
<1>14. CASE MalformedEntry \/ TextMessageDone
  BY <1>14 DEF MalformedEntry, TextMessageDone, Idle
<1>15. CASE EraseClientChannels
  BY <1>15 DEF EraseClientChannels
<1>16. CASE CloseReturns
  BY <1>16 DEF CloseReturns, Idle
<1>17. CASE CallbackReturns
  BY <1>17 DEF CallbackReturns
<1>18. CASE CallbackThrows \/ MessageCallbackReturns
  BY <1>18 DEF CallbackThrows, MessageCallbackReturns, Idle
<1>19. ASSUME NEW k \in ClientChannels, CloseUnadvertise(k)
       PROVE  SubscriptionsHaveChannels'
  BY <1>19 DEF CloseUnadvertise
<1>20. ASSUME NEW ch \in ChannelIds, CloseUnsubscribe(ch)
       PROVE  SubscriptionsHaveChannels'
  BY <1>20 DEF CloseUnsubscribe
<1> QED
  BY <1>1, <1>2, <1>3, <1>4, <1>5, <1>6, <1>7, <1>8, <1>9, <1>10, <1>11, <1>12,
     <1>13, <1>14, <1>15, <1>16, <1>17, <1>18, <1>19, <1>20
     DEF ServerNext, EmbedderCalls, RunLoopBegins, RunLoopContinues,
         RunLoopCallbacks

\* Every removal is reported to everybody who may know of the channel.
LEMMA ToldStep ==
  ASSUME ServerInvariant, ServerNext
  PROVE  ToldChannelsExist'
<1> USE ServerAssumption DEF ServerInvariant, ServerTypeOK, HandlerReferencesValid,
        ToldChannelsExist, Reachable, netVars,
        mapVars, loopVars
<1>1. ASSUME NEW c \in Conns, PeerLost(c) PROVE ToldChannelsExist'
  BY <1>1 DEF PeerLost
<1>2. CASE AddChannel
  BY <1>2 DEF AddChannel
<1>3. ASSUME NEW ch \in ChannelIds, RemoveChannel(ch) PROVE ToldChannelsExist'
  BY <1>3 DEF RemoveChannel
<1>4. CASE BroadcastChannels
  BY <1>4 DEF BroadcastChannels
<1>5. ASSUME NEW c \in Conns, RejectConnection(c) PROVE ToldChannelsExist'
  BY <1>5 DEF RejectConnection
<1>6. ASSUME NEW c \in Conns, HandleConnectionOpened(c)
      PROVE  ToldChannelsExist'
  BY <1>6 DEF HandleConnectionOpened
<1>7. ASSUME NEW c \in Conns, HandleConnectionClosed(c)
      PROVE  ToldChannelsExist'
  BY <1>7 DEF HandleConnectionClosed
<1>8. ASSUME NEW c \in Conns, NEW o \in Ops, NEW n \in 0..MaxBatch,
             HandleTextMessage(c, o, n)
      PROVE  ToldChannelsExist'
  BY <1>8 DEF HandleTextMessage
<1>9. ASSUME NEW c \in Conns, NEW k \in ClientChannels,
             HandleBinaryMessage(c, k)
      PROVE  ToldChannelsExist'
  BY <1>9 DEF HandleBinaryMessage
<1>10. ASSUME NEW s \in SubIds, NEW ch \in ChannelIds, SubscribeEntry(s, ch)
       PROVE  ToldChannelsExist'
  BY <1>10 DEF SubscribeEntry, NextEntry, CallBack, SkipEntry
<1>11. ASSUME NEW s \in SubIds, UnsubscribeEntry(s) PROVE ToldChannelsExist'
  BY <1>11 DEF UnsubscribeEntry, NextEntry, CallBack, SkipEntry
<1>12. ASSUME NEW k \in ClientChannels, AdvertiseEntry(k)
       PROVE  ToldChannelsExist'
  BY <1>12 DEF AdvertiseEntry, NextEntry, CallBack, SkipEntry
<1>13. ASSUME NEW k \in ClientChannels, UnadvertiseEntry(k)
       PROVE  ToldChannelsExist'
  BY <1>13 DEF UnadvertiseEntry, NextEntry, CallBack, SkipEntry
<1>14. CASE MalformedEntry \/ TextMessageDone
  BY <1>14 DEF MalformedEntry, TextMessageDone, Idle
<1>15. CASE EraseClientChannels
  BY <1>15 DEF EraseClientChannels
<1>16. CASE CloseReturns
  BY <1>16 DEF CloseReturns, Idle
<1>17. CASE CallbackReturns
  BY <1>17 DEF CallbackReturns
<1>18. CASE CallbackThrows \/ MessageCallbackReturns
  BY <1>18 DEF CallbackThrows, MessageCallbackReturns, Idle
<1>19. ASSUME NEW k \in ClientChannels, CloseUnadvertise(k)
       PROVE  ToldChannelsExist'
  BY <1>19 DEF CloseUnadvertise
<1>20. ASSUME NEW ch \in ChannelIds, CloseUnsubscribe(ch)
       PROVE  ToldChannelsExist'
  BY <1>20 DEF CloseUnsubscribe
<1> QED
  BY <1>1, <1>2, <1>3, <1>4, <1>5, <1>6, <1>7, <1>8, <1>9, <1>10, <1>11, <1>12,
     <1>13, <1>14, <1>15, <1>16, <1>17, <1>18, <1>19, <1>20
     DEF ServerNext, EmbedderCalls, RunLoopBegins, RunLoopContinues,
         RunLoopCallbacks

\* The disconnect handler leaves nothing behind.
LEMMA OwnNothingStep ==
  ASSUME ServerInvariant, ServerNext
  PROVE  ClosedConnectionsOwnNothing'
<1> USE ServerAssumption DEF ServerInvariant, ServerTypeOK, HandlerReferencesValid,
        ClosedConnectionsOwnNothing, netVars,
        mapVars, loopVars
<1>1. ASSUME NEW c \in Conns, PeerLost(c) PROVE ClosedConnectionsOwnNothing'
  BY <1>1 DEF PeerLost
<1>2. CASE AddChannel
  BY <1>2 DEF AddChannel
<1>3. ASSUME NEW ch \in ChannelIds, RemoveChannel(ch)
      PROVE  ClosedConnectionsOwnNothing'
  BY <1>3 DEF RemoveChannel
<1>4. CASE BroadcastChannels
  BY <1>4 DEF BroadcastChannels
<1>5. ASSUME NEW c \in Conns, RejectConnection(c)
      PROVE  ClosedConnectionsOwnNothing'
  BY <1>5 DEF RejectConnection
<1>6. ASSUME NEW c \in Conns, HandleConnectionOpened(c)
      PROVE  ClosedConnectionsOwnNothing'
  BY <1>6 DEF HandleConnectionOpened
<1>7. ASSUME NEW c \in Conns, HandleConnectionClosed(c)
      PROVE  ClosedConnectionsOwnNothing'
  BY <1>7 DEF HandleConnectionClosed
<1>8. ASSUME NEW c \in Conns, NEW o \in Ops, NEW n \in 0..MaxBatch,
             HandleTextMessage(c, o, n)
      PROVE  ClosedConnectionsOwnNothing'
  BY <1>8 DEF HandleTextMessage
<1>9. ASSUME NEW c \in Conns, NEW k \in ClientChannels,
             HandleBinaryMessage(c, k)
      PROVE  ClosedConnectionsOwnNothing'
  BY <1>9 DEF HandleBinaryMessage
<1>10. ASSUME NEW s \in SubIds, NEW ch \in ChannelIds, SubscribeEntry(s, ch)
       PROVE  ClosedConnectionsOwnNothing'
  BY <1>10 DEF SubscribeEntry, NextEntry, CallBack, SkipEntry
<1>11. ASSUME NEW s \in SubIds, UnsubscribeEntry(s)
       PROVE  ClosedConnectionsOwnNothing'
  BY <1>11 DEF UnsubscribeEntry, NextEntry, CallBack, SkipEntry
<1>12. ASSUME NEW k \in ClientChannels, AdvertiseEntry(k)
       PROVE  ClosedConnectionsOwnNothing'
  BY <1>12 DEF AdvertiseEntry, NextEntry, CallBack, SkipEntry
<1>13. ASSUME NEW k \in ClientChannels, UnadvertiseEntry(k)
       PROVE  ClosedConnectionsOwnNothing'
  BY <1>13 DEF UnadvertiseEntry, NextEntry, CallBack, SkipEntry
<1>14. CASE MalformedEntry \/ TextMessageDone
  BY <1>14 DEF MalformedEntry, TextMessageDone, Idle
<1>15. CASE EraseClientChannels
  BY <1>15 DEF EraseClientChannels
<1>16. CASE CloseReturns
  BY <1>16 DEF CloseReturns, Idle
<1>17. CASE CallbackReturns
  BY <1>17 DEF CallbackReturns
<1>18. CASE CallbackThrows \/ MessageCallbackReturns
  BY <1>18 DEF CallbackThrows, MessageCallbackReturns, Idle
<1>19. ASSUME NEW k \in ClientChannels, CloseUnadvertise(k)
       PROVE  ClosedConnectionsOwnNothing'
  BY <1>19 DEF CloseUnadvertise
<1>20. ASSUME NEW ch \in ChannelIds, CloseUnsubscribe(ch)
       PROVE  ClosedConnectionsOwnNothing'
  BY <1>20 DEF CloseUnsubscribe
<1> QED
  BY <1>1, <1>2, <1>3, <1>4, <1>5, <1>6, <1>7, <1>8, <1>9, <1>10, <1>11, <1>12,
     <1>13, <1>14, <1>15, <1>16, <1>17, <1>18, <1>19, <1>20
     DEF ServerNext, EmbedderCalls, RunLoopBegins, RunLoopContinues,
         RunLoopCallbacks

\* The invariant is inductive.
LEMMA InvariantStep ==
  ServerInvariant /\ [ServerNext]_serverVars => ServerInvariant'
<1> SUFFICES ASSUME ServerInvariant, [ServerNext]_serverVars
             PROVE  ServerInvariant'
  OBVIOUS
<1>1. CASE ServerNext
  <2>1. ServerTypeOK'
    BY <1>1, TypeStep DEF ServerInvariant
  <2> QED
    BY <1>1, <2>1, ReferencesStep, OneToOneStep, HaveChannelsStep, ToldStep,
       OwnNothingStep DEF ServerInvariant
<1>2. CASE UNCHANGED serverVars
  BY <1>2 DEF serverVars, ServerInvariant, ServerTypeOK, HandlerReferencesValid,
              SubscriptionsOneToOne, SubscriptionsHaveChannels,
              ToldChannelsExist, Reachable, ClosedConnectionsOwnNothing
<1> QED
  BY <1>1, <1>2

\* It holds in the initial state.
LEMMA InvariantInit == ServerInit => ServerInvariant
<1> SUFFICES ASSUME ServerInit PROVE ServerInvariant
  OBVIOUS
<1>1. first \in BOOLEAN
  BY Zenon DEF ServerInit
<1>2. ServerTypeOK
  BY <1>1, ServerAssumption DEF ServerInit, ServerTypeOK
<1>3. HandlerReferencesValid
  BY DEF ServerInit, HandlerReferencesValid
<1>4. SubscriptionsOneToOne /\ SubscriptionsHaveChannels /\ ToldChannelsExist
  BY DEF ServerInit, SubscriptionsOneToOne, SubscriptionsHaveChannels,
         ToldChannelsExist, Reachable
<1>5. ClosedConnectionsOwnNothing
  BY DEF ServerInit, ClosedConnectionsOwnNothing
<1> QED
  BY <1>2, <1>3, <1>4, <1>5 DEF ServerInvariant

\* Whatever its clients send and whenever the embedding program calls it, the
\* server is never in a state that breaks the invariant.
THEOREM ServerInvariance == ServerSpec => []ServerInvariant
  BY InvariantInit, InvariantStep, PTL DEF ServerSpec

\* Each variable of the server keeps its type.
THEOREM ServerTypeCorrect == ServerSpec => []ServerTypeOK
<1>1. ServerInvariant => ServerTypeOK
  BY DEF ServerInvariant
<1> QED
  BY <1>1, ServerInvariance, PTL

\* The references that handleTextMessage and handleConnectionClosed keep across
\* their callbacks stay valid, for any number of clients and any interleaving
\* with the threads of the embedding program.
THEOREM ServerHandlersSafe == ServerSpec => []HandlerReferencesValid
<1>1. ServerInvariant => HandlerReferencesValid
  BY DEF ServerInvariant
<1> QED
  BY <1>1, ServerInvariance, PTL

\* A client has at most one subscription per channel and per subscription id.
THEOREM ServerOneToOne == ServerSpec => []SubscriptionsOneToOne
<1>1. ServerInvariant => SubscriptionsOneToOne
  BY DEF ServerInvariant
<1> QED
  BY <1>1, ServerInvariance, PTL

\* No subscription outlives its channel, and a channel outlives the callback
\* that subscribes to it.
THEOREM ServerHaveChannels == ServerSpec => []SubscriptionsHaveChannels
<1>1. ServerInvariant => SubscriptionsHaveChannels
  BY DEF ServerInvariant
<1> QED
  BY <1>1, ServerInvariance, PTL

\* No connected client is left believing in a channel that was removed.
THEOREM ServerToldExist == ServerSpec => []ToldChannelsExist
<1>1. ServerInvariant => ToldChannelsExist
  BY DEF ServerInvariant
<1> QED
  BY <1>1, ServerInvariance, PTL

\* A connection that is closed has left nothing in the maps of the server.
THEOREM ServerOwnNothing == ServerSpec => []ClosedConnectionsOwnNothing
<1>1. ServerInvariant => ClosedConnectionsOwnNothing
  BY DEF ServerInvariant
<1> QED
  BY <1>1, ServerInvariance, PTL

-----------------------------------------------------------------------------
(* What the callbacks of the embedding program may rely on. *)

\* No step of any thread takes it from a callback in progress.
LEMMA ArgumentsStep ==
  ASSUME ServerInvariant, CallbackArgumentsValid, [ServerNext]_serverVars
  PROVE  CallbackArgumentsValid'
<1> USE DEF CallbackArgumentsValid
<1>0. /\ link \in [Conns -> {"none", "open", "lost", "closed"}]
      /\ clients \subseteq Conns
      /\ subscriptionsByChannel \in [Conns -> SUBSET (ChannelIds \X SubIds)]
      /\ clientChannels \in [Conns -> SUBSET ClientChannels]
      /\ pc # "idle" => hdl \in Conns
      /\ SubscriptionsOneToOne
  BY DEF ServerInvariant, ServerTypeOK, HandlerReferencesValid
<1>1. CASE UNCHANGED <<link, clients, subscriptionsByChannel, clientChannels, pc,
                       hdl, arg>>
  BY <1>1
<1>2. ASSUME NEW c \in Conns,
             \/ PeerLost(c) \/ RejectConnection(c) \/ HandleConnectionOpened(c)
      PROVE  CallbackArgumentsValid'
  BY <1>0, <1>2 DEF PeerLost, RejectConnection, HandleConnectionOpened, netVars,
     mapVars, loopVars
<1>3. ASSUME NEW c \in Conns, HandleConnectionClosed(c)
      PROVE  CallbackArgumentsValid'
  BY <1>0, <1>3 DEF HandleConnectionClosed, netVars
<1>4. CASE \/ \E c \in Conns, o \in Ops, n \in 0..MaxBatch :
                HandleTextMessage(c, o, n)
           \/ \E c \in Conns, k \in ClientChannels : HandleBinaryMessage(c, k)
  BY <1>4 DEF HandleTextMessage, HandleBinaryMessage, netVars, mapVars
<1>5. ASSUME NEW s \in SubIds, NEW ch \in ChannelIds, SubscribeEntry(s, ch)
      PROVE  CallbackArgumentsValid'
  BY <1>0, <1>5 DEF SubscribeEntry, NextEntry, CallBack, SkipEntry, netVars
<1>6. ASSUME NEW s \in SubIds, UnsubscribeEntry(s)
      PROVE  CallbackArgumentsValid'
  <2>1. CASE SkipEntry
    BY <1>6, <2>1 DEF UnsubscribeEntry, NextEntry, SkipEntry, netVars
  <2>2. ASSUME NEW m \in subscriptionsByChannel[hdl], CallBack(m[1]),
               subscriptionsByChannel' =
                 [subscriptionsByChannel EXCEPT
                    ![hdl] = subscriptionsByChannel[hdl] \ {m}]
        PROVE  CallbackArgumentsValid'
    <3>1. /\ hdl \in Conns /\ hdl' = hdl /\ arg' = m[1] /\ pc' = "unsubscribe"
          /\ link' = link /\ clients' = clients
      BY <1>0, <1>6, <2>2 DEF UnsubscribeEntry, NextEntry, CallBack, netVars
    <3>2. \A n \in subscriptionsByChannel[hdl] \ {m} : n[1] # m[1]
      BY <1>0, <2>2, <3>1 DEF SubscriptionsOneToOne
    <3> QED
      BY <1>0, <2>2, <3>1, <3>2
  <2> QED
    BY <1>6, <2>1, <2>2 DEF UnsubscribeEntry
<1>7. ASSUME NEW k \in ClientChannels, AdvertiseEntry(k) \/ UnadvertiseEntry(k)
      PROVE  CallbackArgumentsValid'
  BY <1>0, <1>7 DEF AdvertiseEntry, UnadvertiseEntry, NextEntry, CallBack,
     SkipEntry, netVars
<1>8. CASE \/ MalformedEntry \/ TextMessageDone \/ CallbackReturns
           \/ CallbackThrows \/ MessageCallbackReturns
  BY <1>8 DEF MalformedEntry, TextMessageDone, CallbackReturns, CallbackThrows,
     MessageCallbackReturns, Idle, netVars, mapVars
<1>9. CASE EraseClientChannels \/ CloseReturns
  BY <1>0, <1>9 DEF EraseClientChannels, CloseReturns, Idle, netVars, mapVars
<1>10. CASE \/ \E k \in ClientChannels : CloseUnadvertise(k)
            \/ \E ch \in ChannelIds : CloseUnsubscribe(ch)
  BY <1>10 DEF CloseUnadvertise, CloseUnsubscribe, netVars, mapVars
<1>11. ASSUME NEW ch \in ChannelIds, RemoveChannel(ch)
       PROVE  CallbackArgumentsValid'
  BY <1>11 DEF RemoveChannel, Locked, loopVars
<1>12. CASE AddChannel \/ BroadcastChannels \/ UNCHANGED serverVars
  BY <1>1, <1>12 DEF AddChannel, BroadcastChannels, netVars, mapVars, loopVars,
     serverVars
<1> QED
  BY <1>2, <1>3, <1>4, <1>5, <1>6, <1>7, <1>8, <1>9, <1>10, <1>11, <1>12
     DEF ServerNext, EmbedderCalls, RunLoopBegins, RunLoopContinues,
         RunLoopCallbacks

\* A callback is called with what it is meant for, and still is when it comes to
\* use it.
THEOREM ServerArgumentsValid == ServerSpec => []CallbackArgumentsValid
<1>1. ServerInit => CallbackArgumentsValid
  BY DEF ServerInit, CallbackArgumentsValid
<1> QED
  BY <1>1, ArgumentsStep, ServerInvariance, PTL DEF ServerSpec

-----------------------------------------------------------------------------
(* What the clients see of a bridge, and what each step of the server does   *)
(* to it.  The refinements of ChannelDirectory rest on these lemmas.         *)
HIDE DEF ChannelIds

\* What the clients have been told of, and what they want.
View == [c \in Conns |-> IF c \in Reachable THEN told[c] ELSE {}]

Wanted == [c \in Conns |-> {m[1] : m \in subscriptionsByChannel[c]}]

\* The server's books of the clients are left alone, ...
LEMMA ViewKept ==
  ASSUME UNCHANGED <<told, clients, link>>
  PROVE  View' = View
  BY DEF View, Reachable

\* ... or the subscriptions.
LEMMA WantedKept ==
  ASSUME UNCHANGED subscriptionsByChannel
  PROVE  Wanted' = Wanted
  BY DEF Wanted

\* The embedding program removes a channel, ...
LEMMA RemovedFromView ==
  ASSUME NEW ch \in ChannelIds, RemoveChannel(ch)
  PROVE  /\ View' = [c \in Conns |-> View[c] \ {ch}]
         /\ Wanted' = [c \in Conns |-> Wanted[c] \ {ch}]
<1>1. View' = [c \in Conns |-> View[c] \ {ch}]
  BY DEF RemoveChannel, View, Reachable
<1>2. ASSUME NEW c \in Conns
      PROVE  {m[1] : m \in {n \in subscriptionsByChannel[c] : n[1] # ch}}
               = {m[1] : m \in subscriptionsByChannel[c]} \ {ch}
  OBVIOUS
<1> QED
  BY <1>1, <1>2 DEF RemoveChannel, Wanted

\* ... or tells the clients of all channels.
LEMMA BroadcastToView ==
  ASSUME ServerInvariant, CallbackArgumentsValid, BroadcastChannels
  PROVE  /\ View' = [c \in Conns |-> IF link[c] = "open" THEN channels ELSE {}]
         /\ Wanted' = Wanted
<1>1. ASSUME NEW c \in Reachable PROVE told[c] \union channels = channels
  BY <1>1 DEF ServerInvariant, ToldChannelsExist
<1>2. Reachable' = Reachable
  BY DEF BroadcastChannels, mapVars, Reachable
<1>3. \A c \in Conns : c \in Reachable <=> link[c] = "open"
  BY DEF CallbackArgumentsValid, Reachable
<1>4. told' = [c \in Conns |-> IF c \in Reachable THEN told[c] \union channels
                                                  ELSE told[c]]
  BY DEF BroadcastChannels
<1>5. View' = [c \in Conns |-> IF link[c] = "open" THEN channels ELSE {}]
  BY <1>1, <1>2, <1>3, <1>4 DEF View
<1> QED
  BY <1>5, WantedKept DEF BroadcastChannels, mapVars

\* A handshake is refused, ...
LEMMA RejectedView ==
  ASSUME ServerInvariant, NEW c \in Conns, RejectConnection(c)
  PROVE  View' = View /\ Wanted' = Wanted
<1>1. c \notin clients
  BY DEF RejectConnection, ServerInvariant, ClosedConnectionsOwnNothing
<1>2. clients' = clients /\ clients \subseteq Conns
  BY DEF RejectConnection, mapVars, ServerInvariant, ServerTypeOK
<1>3. link \in [Conns -> {"none", "open", "lost", "closed"}]
  BY DEF ServerInvariant, ServerTypeOK
<1>4. Reachable' = Reachable
  BY <1>1, <1>2, <1>3 DEF RejectConnection, Reachable
<1> QED
  BY <1>4, WantedKept DEF RejectConnection, mapVars, View

\* ... or succeeds, ...
LEMMA OpenedView ==
  ASSUME ServerInvariant, NEW c \in Conns, HandleConnectionOpened(c)
  PROVE  View' = [View EXCEPT ![c] = channels] /\ Wanted' = Wanted
<1>1. /\ link \in [Conns -> {"none", "open", "lost", "closed"}]
      /\ told \in [Conns -> SUBSET ChannelIds]
      /\ clients \subseteq Conns
  BY DEF ServerInvariant, ServerTypeOK
<1>2. View' = [View EXCEPT ![c] = channels]
  BY <1>1 DEF HandleConnectionOpened, View, Reachable
<1> QED
  BY <1>2, WantedKept DEF HandleConnectionOpened

\* ... the peer drops the connection, ...
LEMMA LostView ==
  ASSUME ServerInvariant, NEW c \in Conns, PeerLost(c)
  PROVE  View' = [View EXCEPT ![c] = {}] /\ Wanted' = Wanted
<1>1. /\ link \in [Conns -> {"none", "open", "lost", "closed"}]
      /\ clients \subseteq Conns
  BY DEF ServerInvariant, ServerTypeOK
<1>2. View' = [View EXCEPT ![c] = {}]
  BY <1>1 DEF PeerLost, mapVars, View, Reachable
<1> QED
  BY <1>2, WantedKept DEF PeerLost, mapVars

\* ... the run loop notices, ...
LEMMA ClosedView ==
  ASSUME ServerInvariant, NEW c \in Conns, HandleConnectionClosed(c)
  PROVE  View' = View /\ Wanted' = [Wanted EXCEPT ![c] = {}]
<1>1. Reachable' = Reachable
  BY DEF HandleConnectionClosed, netVars, Reachable
<1>2. View' = View
  BY <1>1 DEF HandleConnectionClosed, netVars, View
<1>3. subscriptionsByChannel \in [Conns -> SUBSET (ChannelIds \X SubIds)]
  BY DEF ServerInvariant, ServerTypeOK
<1>4. Wanted' = [Wanted EXCEPT ![c] = {}]
  BY <1>3 DEF HandleConnectionClosed, Wanted
<1> QED
  BY <1>2, <1>4

\* ... and has torn it down.
LEMMA ReturnedView ==
  ASSUME ServerInvariant, CloseReturns
  PROVE  /\ hdl \in Conns /\ link[hdl] = "lost" /\ Wanted[hdl] = {}
         /\ View' = View /\ Wanted' = Wanted
<1>1. hdl \in Conns /\ hdl \notin clients /\ link[hdl] = "lost"
  BY DEF CloseReturns, ServerInvariant, HandlerReferencesValid
<1>2. Wanted[hdl] = {}
  BY <1>1 DEF ServerInvariant, ClosedConnectionsOwnNothing, Wanted
<1>3. /\ link \in [Conns -> {"none", "open", "lost", "closed"}]
      /\ clients \subseteq Conns
  BY DEF ServerInvariant, ServerTypeOK
<1>4. Reachable' = Reachable
  BY <1>1, <1>3 DEF CloseReturns, mapVars, Reachable
<1>5. View' = View
  BY <1>4 DEF CloseReturns, View
<1> QED
  BY <1>1, <1>2, <1>5, WantedKept DEF CloseReturns, mapVars

\* An entry of a subscribe message is refused, or the client wants a channel
\* (perhaps one it wants already).
LEMMA SubscribedView ==
  ASSUME ServerInvariant, NEW s \in SubIds, NEW ch \in ChannelIds,
         SubscribeEntry(s, ch)
  PROVE  /\ View' = View
         /\ \/ Wanted' = Wanted
            \/ /\ hdl \in Conns /\ link[hdl] \in {"open", "lost"}
               /\ ch \in channels
               /\ Wanted' = [Wanted EXCEPT ![hdl] = @ \union {ch}]
<1>1. pc = "entries" /\ UNCHANGED <<link, told, clients>>
  BY DEF SubscribeEntry, NextEntry, netVars
<1>2. View' = View
  BY <1>1, ViewKept
<1>3. CASE \/ SkipEntry
           \/ \E m \in subscriptionsByChannel[hdl] : m[1] = ch
  BY <1>2, <1>3, WantedKept DEF SubscribeEntry, SkipEntry
<1>4. CASE /\ ch \in channels
           /\ subscriptionsByChannel' =
                [subscriptionsByChannel EXCEPT
                   ![hdl] = subscriptionsByChannel[hdl] \union {<<ch, s>>}]
  <2>1. hdl \in Conns /\ hdl \in clients
    BY <1>1 DEF ServerInvariant, HandlerReferencesValid
  <2>2. link[hdl] \in {"open", "lost"}
    BY <2>1 DEF ServerInvariant, ClosedConnectionsOwnNothing, ServerTypeOK
  <2>3. subscriptionsByChannel \in [Conns -> SUBSET (ChannelIds \X SubIds)]
    BY DEF ServerInvariant, ServerTypeOK
  <2> DEFINE p == <<ch, s>>
  <2>4. p[1] = ch
    OBVIOUS
  <2> HIDE DEF p
  <2>5. {m[1] : m \in subscriptionsByChannel[hdl] \union {p}}
          = {m[1] : m \in subscriptionsByChannel[hdl]} \union {ch}
    BY <2>4
  <2>6. subscriptionsByChannel' =
          [subscriptionsByChannel EXCEPT
             ![hdl] = subscriptionsByChannel[hdl] \union {p}]
    BY <1>4 DEF p
  <2>7. Wanted' = [Wanted EXCEPT ![hdl] = @ \union {ch}]
    BY <2>1, <2>3, <2>5, <2>6 DEF Wanted
  <2> QED
    BY <1>2, <1>4, <2>1, <2>2, <2>7
<1> QED
  BY <1>3, <1>4 DEF SubscribeEntry

\* An entry of an unsubscribe message is refused, or the client no longer wants
\* the channel: it has no second id for it.
LEMMA UnsubscribedView ==
  ASSUME ServerInvariant, NEW s \in SubIds, UnsubscribeEntry(s)
  PROVE  /\ View' = View
         /\ \/ Wanted' = Wanted
            \/ /\ hdl \in Conns
               /\ \E ch \in ChannelIds :
                    Wanted' = [Wanted EXCEPT ![hdl] = @ \ {ch}]
<1>1. pc = "entries" /\ UNCHANGED <<link, told, clients>>
  BY DEF UnsubscribeEntry, NextEntry, netVars
<1>2. View' = View
  BY <1>1, ViewKept
<1>3. CASE SkipEntry
  BY <1>2, <1>3, WantedKept DEF SkipEntry
<1>4. ASSUME NEW m \in subscriptionsByChannel[hdl],
             subscriptionsByChannel' =
               [subscriptionsByChannel EXCEPT
                  ![hdl] = subscriptionsByChannel[hdl] \ {m}]
      PROVE  /\ hdl \in Conns
             /\ \E ch \in ChannelIds :
                  Wanted' = [Wanted EXCEPT ![hdl] = @ \ {ch}]
  <2>1. hdl \in Conns
    BY <1>1 DEF ServerInvariant, HandlerReferencesValid
  <2>2. subscriptionsByChannel \in [Conns -> SUBSET (ChannelIds \X SubIds)]
    BY DEF ServerInvariant, ServerTypeOK
  <2>3. m \in ChannelIds \X SubIds
    BY <2>1, <2>2
  <2>4. m[1] \in ChannelIds
    BY <2>3
  <2>5. \A n \in subscriptionsByChannel[hdl] : n[1] = m[1] => n = m
    BY <2>1 DEF ServerInvariant, SubscriptionsOneToOne
  <2>6. {n[1] : n \in subscriptionsByChannel[hdl] \ {m}}
          = {n[1] : n \in subscriptionsByChannel[hdl]} \ {m[1]}
    BY <2>5
  <2>7. Wanted' = [Wanted EXCEPT ![hdl] = @ \ {m[1]}]
    BY <1>4, <2>1, <2>2, <2>6 DEF Wanted
  <2> QED
    BY <2>1, <2>4, <2>7
<1> QED
  BY <1>2, <1>3, <1>4 DEF UnsubscribeEntry

\* During the callback a client wants what it is subscribed to, and does not
\* want what it is unsubscribed from.
LEMMA CallbackWanted ==
  ASSUME ServerInvariant, CallbackArgumentsValid
  PROVE  /\ pc \in {"subscribe", "unsubscribe"}
              => hdl \in Conns /\ arg \in ChannelIds
         /\ pc = "subscribe" => arg \in Wanted[hdl]
         /\ pc = "unsubscribe" => arg \notin Wanted[hdl]
         /\ pc \in Closing => hdl \in Conns /\ Wanted[hdl] = {}
<1>1. /\ pc \in {"subscribe", "unsubscribe"}
           => hdl \in Conns /\ arg \in ChannelIds
      /\ pc \in Closing => hdl \in Conns /\ hdl \notin clients
  BY DEF ServerInvariant, HandlerReferencesValid
<1>2. pc = "subscribe" => arg \in Wanted[hdl]
  BY <1>1 DEF ServerInvariant, SubscriptionsHaveChannels, Wanted
<1>3. pc = "unsubscribe" => arg \notin Wanted[hdl]
  BY <1>1 DEF CallbackArgumentsValid, Wanted
<1>4. pc \in Closing => Wanted[hdl] = {}
  BY <1>1 DEF ServerInvariant, ClosedConnectionsOwnNothing, Wanted
<1> QED
  BY <1>1, <1>2, <1>3, <1>4

-----------------------------------------------------------------------------
(* What the threads of a bridge leave alone. *)

\* The run loop never touches the channel table.
LEMMA RunLoopKeepsChannels ==
  ASSUME \/ \E c \in Conns : PeerLost(c)
         \/ RunLoopBegins
         \/ RunLoopContinues
         \/ RunLoopCallbacks
  PROVE  UNCHANGED <<channels, nextChannelId>>
  BY DEF PeerLost, RunLoopBegins, RunLoopContinues, RunLoopCallbacks,
     RejectConnection, HandleConnectionOpened, HandleConnectionClosed,
     HandleTextMessage, HandleBinaryMessage, SubscribeEntry, UnsubscribeEntry,
     AdvertiseEntry, UnadvertiseEntry, MalformedEntry, TextMessageDone,
     EraseClientChannels, CloseReturns, CallbackReturns, CallbackThrows,
     MessageCallbackReturns, CloseUnadvertise, CloseUnsubscribe, mapVars
=============================================================================
