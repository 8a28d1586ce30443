----------------------------- MODULE Ros1Bridge -----------------------------
(***************************************************************************)
(* foxglove_bridge::FoxgloveBridge for ROS 1, the nodelet                  *)
(* (ros1_foxglove_bridge_nodelet.cpp), composed with the server it embeds. *)
(*                                                                         *)
(* updateAdvertisedTopics runs on onInit's thread the first time and then  *)
(* on the worker thread that the update timer fires on, never twice at     *)
(* once.  It takes _subscriptionsMutex and, holding it, calls the server.  *)
(* The run loop calls the handlers, which take _subscriptionsMutex, with   *)
(* _clientsChannelMutex held or, after a disconnect, without it.           *)
(*                                                                         *)
(* What is different from ROS 2 is the third party: worker threads are in  *)
(* rosMessageHandler, which calls sendMessage, which takes                 *)
(* _clientsChannelMutex; and destroying a ros::Subscriber (external:       *)
(* roscpp) waits until its callback in progress has returned.  So the two  *)
(* places that erase subscriptions wait with _subscriptionsMutex held.     *)
(* The publishers of the clients have a mutex that only the run loop takes.*)
(* The period of the timer is in Ros1Polling, the send buffer in SendPath. *)
(***************************************************************************)
EXTENDS WebSocketServer

CONSTANTS
  Topics,          \* pairs of topic name and datatype
  Whitelisted,     \* topics that match a pattern of topic_whitelist
  Undescribed,     \* topics for which getMessageDescription throws
  Unsubscribable,  \* topics for which subscribe throws
  MaxGraphChanges  \* bound: topics that appear or disappear

ASSUME Ros1Assumption ==
  /\ Whitelisted \union Undescribed \union Unsubscribable \subseteq Topics
  /\ MaxGraphChanges \in Nat

VARIABLES
  graph,           \* the topics the ROS master knows (external)
  graphChanges,    \* how often they changed
  timer,           \* _updateTimer: "armed" or "off"
  upc,             \* where updateAdvertisedTopics is, "idle" if it is not running
  removedTopics, newTopics,  \* its locals, what is still to do of them
  someNew,         \* newTopics.size() > 0
  erasing,         \* the subscribers <<channel id, client>> it is destroying
  destroying,      \* the one that unsubscribeHandler is destroying
  topicOf,         \* _channelToTopicAndDatatype, _advertisedTopics: <<id, topic>>
  subscribedChannels,        \* keys of _subscriptions
  subscriptions,             \* its contents: pairs <<channel id, client>>
  delivering,      \* the subscribers <<channel id, client>> in their callback
  sending,         \* those of them that sendMessage lets wait for its mutex
  publicationClients,        \* keys of _clientAdvertisedTopics
  publications               \* its contents: pairs <<client, client channel>>

graphVars  == <<graph, graphChanges>>
updateVars == <<timer, upc, removedTopics, newTopics, someNew, erasing>>
subVars    == <<subscribedChannels, subscriptions>>
pubVars    == <<publicationClients, publications>>
deliveryVars == <<delivering, sending>>
bridgeVars == <<graph, graphChanges, timer, upc, removedTopics, newTopics,
                someNew, erasing, destroying, topicOf, subscribedChannels,
                subscriptions, delivering, sending, publicationClients, publications>>
vars == <<serverVars, bridgeVars>>

TypeOK ==
  /\ ServerTypeOK
  /\ graph \subseteq Topics
  /\ graphChanges \in 0..MaxGraphChanges
  /\ timer \in {"armed", "off"}
  /\ upc \in {"idle", "query", "lock", "update", "broadcast", "schedule"}
  /\ removedTopics \subseteq Topics
  /\ newTopics \subseteq Topics
  /\ someNew \in BOOLEAN
  /\ erasing \subseteq ChannelIds \X Conns
  /\ destroying \subseteq ChannelIds \X Conns
  /\ topicOf \subseteq ChannelIds \X Topics
  /\ subscribedChannels \subseteq ChannelIds
  /\ subscriptions \subseteq ChannelIds \X Conns
  /\ delivering \subseteq ChannelIds \X Conns
  /\ sending \subseteq delivering
  /\ publicationClients \subseteq Conns
  /\ publications \subseteq Conns \X ClientChannels

\* onInit has started the server and calls updateAdvertisedTopics itself.
Init ==
  /\ ServerInit
  /\ graph \in SUBSET Topics
  /\ graphChanges = 0
  /\ timer = "off"
  /\ upc = "query"
  /\ removedTopics = {}
  /\ newTopics = {}
  /\ someNew = FALSE
  /\ erasing = {}
  /\ destroying = {}
  /\ topicOf = {}
  /\ subscribedChannels = {}
  /\ subscriptions = {}
  /\ delivering = {}
  /\ sending = {}
  /\ publicationClients = {}
  /\ publications = {}

\* _subscriptionsMutex is held across steps.
SubscriptionsLocked == upc = "update" \/ destroying # {}

-----------------------------------------------------------------------------
(* The ROS graph, and messages that arrive from it. *)

\* A topic appears or disappears.
GraphChange(t) ==
  /\ graphChanges < MaxGraphChanges
  /\ graph' = IF t \in graph THEN graph \ {t} ELSE graph \union {t}
  /\ graphChanges' = graphChanges + 1
  /\ UNCHANGED <<serverVars, updateVars, destroying, topicOf, subVars,
                 deliveryVars, pubVars>>

\* roscpp calls rosMessageHandler for a subscriber, one message at a time.
MessageArrives(s) ==
  /\ s \in subscriptions \ delivering
  /\ delivering' = delivering \union {s}
  /\ UNCHANGED <<serverVars, graphVars, updateVars, destroying, topicOf, subVars,
                 sending, pubVars>>

\* rosMessageHandler calls sendMessage, which returns at once if there is no
\* connection any more or its buffer is full, and the callback is over, ...
SendMessageReturns(s) ==
  /\ s \in delivering \ sending
  /\ delivering' = delivering \ {s}
  /\ UNCHANGED <<serverVars, graphVars, updateVars, destroying, topicOf, subVars,
                 sending, pubVars>>

\* ... or else wants _clientsChannelMutex.
SendMessageWaits(s) ==
  /\ s \in delivering \ sending
  /\ sending' = sending \union {s}
  /\ UNCHANGED <<serverVars, graphVars, updateVars, destroying, topicOf, subVars,
                 delivering, pubVars>>

\* Mutant: rosMessageHandler looks up its subscription first.
CanSendLooksUp == ~Locked /\ ~SubscriptionsLocked

\* sendMessage gets _clientsChannelMutex, shared.
CanSend == ~Locked

\* It has got the mutex and released it, and rosMessageHandler returns.
RosMessageHandler(s) ==
  /\ s \in sending
  /\ CanSend
  /\ delivering' = delivering \ {s}
  /\ sending' = sending \ {s}
  /\ UNCHANGED <<serverVars, graphVars, updateVars, destroying, topicOf, subVars,
                 pubVars>>

-----------------------------------------------------------------------------
(* updateAdvertisedTopics. *)

\* The timer fires and is stopped.
TimerFires ==
  /\ timer = "armed"
  /\ upc = "idle"
  /\ timer' = "off"
  /\ upc' = "query"
  /\ UNCHANGED <<serverVars, graphVars, removedTopics, newTopics, someNew,
                 erasing, destroying, topicOf, subVars, deliveryVars, pubVars>>

\* The master does not answer, or ROS is shutting down: no timer is armed.
GetTopicsFails ==
  /\ upc = "query"
  /\ upc' = "idle"
  /\ UNCHANGED <<serverVars, graphVars, timer, removedTopics, newTopics,
                 someNew, erasing, destroying, topicOf, subVars, deliveryVars, pubVars>>

\* The topics of the master are compared with the advertised ones, a map that
\* only this function writes.
GetTopics ==
  LET latest == graph \intersect Whitelisted
      known  == {p[2] : p \in topicOf}
  IN /\ upc = "query"
     /\ upc' = "lock"
     /\ newTopics' = latest \ known
     /\ removedTopics' = known \ latest
     /\ someNew' = (latest \ known # {})
     /\ UNCHANGED <<serverVars, graphVars, timer, erasing, destroying, topicOf,
                    subVars, deliveryVars, pubVars>>

LockSubscriptions ==
  /\ upc = "lock"
  /\ ~SubscriptionsLocked
  /\ upc' = "update"
  /\ UNCHANGED <<serverVars, graphVars, timer, removedTopics, newTopics,
                 someNew, erasing, destroying, topicOf, subVars, deliveryVars, pubVars>>

\* Mutant: the subscribers of the channel stay.
AllSubscriptions(ch) == subscriptions

SubscriptionsWithout(ch) == {s \in subscriptions : s[1] # ch}

\* Mutant: the subscribers are handed to a thread that destroys them later.
DestroyedLater(subscribers) == TRUE

\* The destructors of the subscribers return: none is in its callback.
Destroyed(subscribers) == subscribers \intersect delivering = {}

\* A topic that is gone: removeChannel, then the bridge's own three maps, which
\* nobody can see in between; erasing the subscriptions takes until ...
RemoveTopic(ch, t) ==
  /\ upc = "update"
  /\ erasing = {}
  /\ t \in removedTopics
  /\ <<ch, t>> \in topicOf
  /\ RemoveChannel(ch)
  /\ subscribedChannels' = subscribedChannels \ {ch}
  /\ subscriptions' = SubscriptionsWithout(ch)
  /\ erasing' = {s \in subscriptions : s[1] = ch}
  /\ topicOf' = topicOf \ {<<ch, t>>}
  /\ removedTopics' = removedTopics \ {t}
  /\ UNCHANGED <<graphVars, timer, upc, newTopics, someNew, destroying, deliveryVars,
                 pubVars>>

\* ... no callback of a subscriber of the channel is in progress.
SubscribersErased ==
  /\ erasing # {}
  /\ Destroyed(erasing)
  /\ erasing' = {}
  /\ UNCHANGED <<serverVars, graphVars, timer, upc, removedTopics, newTopics,
                 someNew, destroying, topicOf, subVars, deliveryVars, pubVars>>

\* A topic that is new; a missing description is an empty schema, ...
AddTopic(t) ==
  /\ upc = "update"
  /\ erasing = {}
  /\ removedTopics = {}
  /\ t \in newTopics \ Undescribed
  /\ AddChannel
  /\ topicOf' = topicOf \union {<<nextChannelId + 1, t>>}
  /\ newTopics' = newTopics \ {t}
  /\ UNCHANGED <<graphVars, timer, upc, removedTopics, someNew, erasing, destroying,
                 subVars, deliveryVars, pubVars>>

\* ... and an exception skips the topic until the next update.
SkipTopic(t) ==
  /\ upc = "update"
  /\ erasing = {}
  /\ removedTopics = {}
  /\ t \in newTopics \intersect Undescribed
  /\ newTopics' = newTopics \ {t}
  /\ UNCHANGED <<serverVars, graphVars, timer, upc, removedTopics, someNew,
                 erasing, destroying, topicOf, subVars, deliveryVars, pubVars>>

\* Mutant: the new channels are not broadcast.
AfterUpdateSilent == "schedule"

AfterUpdate == IF someNew THEN "broadcast" ELSE "schedule"

UnlockSubscriptions ==
  /\ upc = "update"
  /\ erasing = {}
  /\ removedTopics = {}
  /\ newTopics = {}
  /\ upc' = AfterUpdate
  /\ UNCHANGED <<serverVars, graphVars, timer, removedTopics, newTopics,
                 someNew, erasing, destroying, topicOf, subVars, deliveryVars, pubVars>>

BroadcastTopics ==
  /\ upc = "broadcast"
  /\ BroadcastChannels
  /\ upc' = "schedule"
  /\ someNew' = FALSE
  /\ UNCHANGED <<graphVars, timer, removedTopics, newTopics, erasing, destroying,
                 topicOf, subVars, deliveryVars, pubVars>>

\* The next update is scheduled.
ScheduleUpdate ==
  /\ upc = "schedule"
  /\ timer' = "armed"
  /\ upc' = "idle"
  /\ UNCHANGED <<serverVars, graphVars, removedTopics, newTopics, someNew,
                 erasing, destroying, topicOf, subVars, deliveryVars, pubVars>>

-----------------------------------------------------------------------------
(* The handlers of the run loop. *)

Subscriber == <<arg, hdl>>

\* The entry of the channel is made first and stays if subscribe throws.
SubscribeHandler ==
  LET topics == {t \in Topics : <<arg, t>> \in topicOf}
  IN /\ pc = "subscribe"
     /\ ~SubscriptionsLocked
     /\ subscribedChannels' = IF topics = {} THEN subscribedChannels
                              ELSE subscribedChannels \union {arg}
     /\ subscriptions' = IF topics = {} \/ topics \intersect Unsubscribable # {}
                         THEN subscriptions
                         ELSE subscriptions \union {Subscriber}
     /\ CallbackReturns
     /\ UNCHANGED <<graphVars, updateVars, destroying, topicOf, deliveryVars, pubVars>>

\* unsubscribeHandler for client c and channel ch: the subscriber is taken out
\* of the maps, an unknown one is only logged, ...
EraseSubscriber(ch, c) ==
  /\ ~SubscriptionsLocked
  /\ destroying' = {<<ch, c>>}
  /\ subscriptions' = subscriptions \ {<<ch, c>>}
  /\ subscribedChannels' =
       IF /\ <<ch, c>> \in subscriptions
          /\ \A s \in subscriptions : s[1] = ch => s[2] = c
       THEN subscribedChannels \ {ch}
       ELSE subscribedChannels
  /\ UNCHANGED <<graphVars, updateVars, topicOf, deliveryVars, pubVars>>

\* ... and the handler returns when its callback is not in progress.
SubscriberErased(ch, c) ==
  /\ destroying = {<<ch, c>>}
  /\ Destroyed(destroying)
  /\ destroying' = {}
  /\ UNCHANGED <<graphVars, updateVars, topicOf, subVars, deliveryVars, pubVars>>

UnsubscribeBegins ==
  /\ pc = "unsubscribe"
  /\ EraseSubscriber(arg, hdl)
  /\ UNCHANGED serverVars

UnsubscribeReturns ==
  /\ pc = "unsubscribe"
  /\ SubscriberErased(arg, hdl)
  /\ CallbackReturns

\* The same, called by handleConnectionClosed for one of its channels.
CloseUnsubscribeBegins(ch) ==
  /\ pc = "closeUnsubscribe"
  /\ ch \in oldSubs
  /\ EraseSubscriber(ch, hdl)
  /\ UNCHANGED serverVars

CloseUnsubscribeReturns(ch) ==
  /\ SubscriberErased(ch, hdl)
  /\ CloseUnsubscribe(ch)

ClientAdvertiseHandler ==
  /\ pc = "advertise"
  /\ publicationClients' = publicationClients \union {hdl}
  /\ publications' = publications \union {<<hdl, arg>>}
  /\ CallbackReturns
  /\ UNCHANGED <<graphVars, updateVars, destroying, topicOf, subVars, deliveryVars>>

\* There is no publisher: the encoding is not supported, the type is not known
\* or ROS refuses (all logged).  The client has its entry but in the first case.
ClientAdvertiseRefused ==
  /\ pc = "advertise"
  /\ publicationClients' \in {publicationClients,
                              publicationClients \union {hdl}}
  /\ CallbackReturns
  /\ UNCHANGED <<graphVars, updateVars, destroying, topicOf, subVars, deliveryVars,
                 publications>>

\* advertise throws for a topic name that is not one.
ClientAdvertiseThrows ==
  /\ pc = "advertise"
  /\ <<hdl, arg>> \notin publications
  /\ publicationClients' = publicationClients \union {hdl}
  /\ CallbackThrows
  /\ UNCHANGED <<graphVars, updateVars, destroying, topicOf, subVars, deliveryVars,
                 publications>>

\* Mutant: the entry is found, and the publisher is left in it.
DropPublicationEntry(c, k) ==
  /\ publicationClients' = IF <<c, k>> \in publications
                           THEN publicationClients \ {c} ELSE publicationClients
  /\ UNCHANGED <<publications, graphVars, updateVars, destroying, topicOf,
                 subVars, deliveryVars>>

\* clientUnadvertiseHandler: unknown clients and channels are only logged.
DropPublication(c, k) ==
  /\ publications' = publications \ {<<c, k>>}
  /\ publicationClients' =
       IF /\ <<c, k>> \in publications
          /\ \A p \in publications : p[1] = c => p[2] = k
       THEN publicationClients \ {c}
       ELSE publicationClients
  /\ UNCHANGED <<graphVars, updateVars, destroying, topicOf, subVars, deliveryVars>>

ClientUnadvertiseHandler ==
  /\ pc = "unadvertise"
  /\ DropPublication(hdl, arg)
  /\ CallbackReturns

CloseUnadvertiseHandler(k) ==
  /\ CloseUnadvertise(k)
  /\ DropPublication(hdl, k)

\* The message is published, or dropped if there is no publisher.
ClientMessageHandler ==
  /\ MessageCallbackReturns
  /\ UNCHANGED bridgeVars

-----------------------------------------------------------------------------
(* The specification. *)

Environment ==
  \/ \E c \in Conns : PeerLost(c) /\ UNCHANGED bridgeVars
  \/ \E t \in Topics : GraphChange(t)
  \/ \E s \in ChannelIds \X Conns : MessageArrives(s)

Workers ==
  \E s \in ChannelIds \X Conns :
    SendMessageReturns(s) \/ SendMessageWaits(s) \/ RosMessageHandler(s)

UpdateSteps ==
  \/ GetTopics
  \/ LockSubscriptions
  \/ \E t \in Topics, ch \in ChannelIds : RemoveTopic(ch, t)
  \/ SubscribersErased
  \/ \E t \in Topics : AddTopic(t) \/ SkipTopic(t)
  \/ UnlockSubscriptions
  \/ BroadcastTopics
  \/ ScheduleUpdate

Handlers ==
  \/ SubscribeHandler
  \/ UnsubscribeBegins
  \/ UnsubscribeReturns
  \/ \E ch \in ChannelIds : \/ CloseUnsubscribeBegins(ch)
                            \/ CloseUnsubscribeReturns(ch)
  \/ ClientAdvertiseHandler
  \/ ClientAdvertiseRefused
  \/ ClientAdvertiseThrows
  \/ ClientUnadvertiseHandler
  \/ \E k \in ClientChannels : CloseUnadvertiseHandler(k)
  \/ ClientMessageHandler

Next ==
  \/ Environment
  \/ Workers
  \/ TimerFires
  \/ GetTopicsFails
  \/ UpdateSteps
  \/ RunLoopBegins /\ UNCHANGED bridgeVars
  \/ RunLoopContinues /\ UNCHANGED bridgeVars
  \/ Handlers

Spec == Init /\ [][Next]_vars

\* Threads keep running and an armed timer fires.  Who waits for a mutex that is
\* free again and again gets it; a master that is asked again and again answers
\* (no timer is armed after it did not); the close event of a lost connection
\* is not overtaken for ever.
Fairness ==
  /\ WF_vars(RunLoopContinues /\ UNCHANGED bridgeVars)
  /\ SF_vars(Handlers)
  /\ SF_vars(UpdateSteps)
  /\ WF_vars(TimerFires)
  /\ \A s \in ChannelIds \X Conns :
       /\ WF_vars(SendMessageReturns(s) \/ SendMessageWaits(s))
       /\ SF_vars(RosMessageHandler(s))
  /\ \A c \in Conns :
       SF_vars(HandleConnectionClosed(c) /\ UNCHANGED bridgeVars)

FairSpec == Spec /\ Fairness

-----------------------------------------------------------------------------
(* Properties. *)

\* What the clients see of the nodelet is a directory of channels.
Directory == INSTANCE ChannelDirectory WITH
  Clients <- Conns,
  MaxId <- MaxChannelId,
  lastId <- nextChannelId,
  offered <- topicOf,
  status <- link,
  view <- [c \in Conns |-> IF c \in Reachable THEN told[c] ELSE {}],
  wanted <- [c \in Conns |-> {m[1] : m \in subscriptionsByChannel[c]}],
  streams <- subscriptions

\* The nodelet implements ChannelDirectory, as the ROS 2 bridge does: with the
\* subscriptions erased in two steps, the timer and callbacks in progress, a
\* subscriber still exists only for a client that wants the channel, is given up
\* only when it no longer does, and none is left when handleConnectionClosed
\* returns.
ImplementsDirectory == Directory!DirSpec

\* unsubscribeHandler and updateAdvertisedTopics return only when the
\* subscribers they erased have left rosMessageHandler: unless the topic is just
\* being removed, none of them sends on a channel that is no longer advertised
\* or for a client that is closed.
NoLateDelivery ==
  /\ delivering \subseteq subscriptions \union erasing \union destroying
  /\ \A s \in delivering \ erasing :
       link[s[2]] # "closed" /\ (s[1] \in channels \/ s \in destroying)

\* A publisher exists only for what the server lists as advertised by the
\* client, though clientAdvertiseHandler may refuse, with or without an entry
\* for the client, or throw; once the client is gone it has none.
PublishersHaveOwners ==
  \A p \in publications :
    /\ p[1] \in publicationClients
    /\ \/ p[2] \in clientChannels[p[1]]
       \/ hdl = p[1] /\ pc = "unadvertise" /\ arg = p[2]
    /\ \/ p[1] \in clients
       \/ hdl = p[1] /\ pc = "closeUnadvertise" /\ p[2] \in oldAdvertised

\* The cycles of threads that wait for each other.  The run loop is in a callback
\* with _clientsChannelMutex and destroys a subscriber whose callback waits in
\* sendMessage for that mutex; or it waits for updateAdvertisedTopics, which waits
\* for such a callback, or for the mutex itself to add or remove a channel.  A
\* callback that sendMessage returns from at once is in none of them.
CyclicWait ==
  /\ pc \in {"subscribe", "unsubscribe"}
  /\ \/ destroying \intersect sending # {}
     \/ /\ upc = "update"
        /\ \/ erasing \intersect sending # {}
           \/ erasing = {} /\ (removedTopics # {} \/ newTopics \ Undescribed # {})

\* Nothing but these cycles keeps an event of the run loop from coming to its
\* end: all other waiting for the two mutexes and for callbacks in progress ends.
OnlyCyclesBlock == pc # "idle" ~> (pc = "idle" \/ CyclicWait)

\* Once the topics stay as they are, every client ends up with exactly the
\* whitelisted ones that can be described, unless the threads are in a cycle or
\* the master once failed to answer.
ClientsSeeGraph ==
  \/ <>[]CyclicWait
  \/ <>[](timer = "off" /\ upc = "idle")
  \/ <>[](\A c \in Reachable :
            {p[2] : p \in {q \in topicOf : q[1] \in told[c]}}
              = (graph \intersect Whitelisted) \ Undescribed)
=============================================================================
