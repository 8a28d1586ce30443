----------------------------- MODULE Ros2Bridge -----------------------------
(***************************************************************************)
(* foxglove_bridge::FoxgloveBridge for ROS 2 (ros2_foxglove_bridge.cpp)    *)
(* composed with the server it embeds.                                     *)
(*                                                                         *)
(* The graph polling thread runs updateAdvertisedTopics whenever the ROS   *)
(* graph changed: it takes _subscriptionsMutex and, holding it, calls      *)
(* removeChannel and addChannel, which take _clientsChannelMutex.  The run *)
(* loop of the server calls subscribeHandler and unsubscribeHandler, which *)
(* take _subscriptionsMutex, while it holds _clientsChannelMutex (or, after*)
(* a disconnect, without it).  The handlers of client publications use a   *)
(* mutex that only the run loop takes.                                     *)
(*                                                                         *)
(* Handlers of the run loop are single steps: they hold one mutex from     *)
(* their first line to their last and call nothing that waits.  In the     *)
(* polling thread a step is one call of the server with the updates of     *)
(* the bridge's own maps that go with it; the maps are protected by        *)
(* _subscriptionsMutex throughout, so no thread can see them in between.   *)
(***************************************************************************)
EXTENDS WebSocketServer

CONSTANTS
  Topics,          \* pairs of topic name and datatype
  Whitelisted,     \* topics that match a pattern of topic_whitelist
  Undescribed,     \* topics whose definition lookup throws
  Unsubscribable,  \* topics ROS refuses: what subscribeHandler asks for throws
  MaxGraphChanges  \* bound: topics that appear or disappear

ASSUME BridgeAssumption ==
  /\ Whitelisted \subseteq Topics
  /\ Undescribed \subseteq Topics
  /\ Unsubscribable \subseteq Topics
  /\ MaxGraphChanges \in Nat

VARIABLES
  graph,           \* the ROS graph: the topics that exist
  graphChanges,    \* how often it changed
  graphEvent,      \* the graph event is set
  ppc,             \* where the polling thread is
  removedTopics,   \* its local removedTopics still to do
  newTopics,       \* its local newTopics still to do
  someNew,         \* newTopics.size() > 0
  advertisedTopics,        \* _advertisedTopics: pairs <<topic, channel id>>
  channelToTopic,          \* _channelToTopicAndDatatype: <<channel id, topic>>
  subscribedChannels,      \* keys of _subscriptions
  subscriptions,           \* its contents: pairs <<channel id, client>>
  publicationClients,      \* keys of _clientAdvertisedTopics
  publications             \* its contents: pairs <<client, client channel>>

graphVars == <<graph, graphChanges, graphEvent>>
pollVars  == <<ppc, removedTopics, newTopics, someNew>>
topicVars == <<advertisedTopics, channelToTopic>>
subVars   == <<subscribedChannels, subscriptions>>
pubVars   == <<publicationClients, publications>>
bridgeVars == <<graph, graphChanges, graphEvent, ppc, removedTopics, newTopics,
                someNew, advertisedTopics, channelToTopic, subscribedChannels,
                subscriptions, publicationClients, publications>>
vars == <<serverVars, bridgeVars>>

TypeOK ==
  /\ ServerTypeOK
  /\ graph \subseteq Topics
  /\ graphChanges \in 0..MaxGraphChanges
  /\ graphEvent \in BOOLEAN
  /\ ppc \in {"query", "lock", "update", "broadcast", "wait"}
  /\ removedTopics \subseteq Topics
  /\ newTopics \subseteq Topics
  /\ someNew \in BOOLEAN
  /\ advertisedTopics \subseteq Topics \X ChannelIds
  /\ channelToTopic \subseteq ChannelIds \X Topics
  /\ subscribedChannels \subseteq ChannelIds
  /\ subscriptions \subseteq ChannelIds \X Conns
  /\ publicationClients \subseteq Conns
  /\ publications \subseteq Conns \X ClientChannels

\* The server has been started and the polling thread begins with a first
\* updateAdvertisedTopics.
Init ==
  /\ ServerInit
  /\ graph \in SUBSET Topics
  /\ graphChanges = 0
  /\ graphEvent = FALSE
  /\ ppc = "query"
  /\ removedTopics = {}
  /\ newTopics = {}
  /\ someNew = FALSE
  /\ advertisedTopics = {}
  /\ channelToTopic = {}
  /\ subscribedChannels = {}
  /\ subscriptions = {}
  /\ publicationClients = {}
  /\ publications = {}

\* _subscriptionsMutex is held across steps.
SubscriptionsLocked == ppc = "update"

-----------------------------------------------------------------------------
(* The ROS graph. *)

\* A topic appears or disappears.  The event stays set until it is cleared,
\* also if it was set before the polling thread asked for it.
GraphChange(t) ==
  /\ graphChanges < MaxGraphChanges
  /\ graph' = IF t \in graph THEN graph \ {t} ELSE graph \union {t}
  /\ graphChanges' = graphChanges + 1
  /\ graphEvent' = TRUE
  /\ UNCHANGED <<serverVars, pollVars, topicVars, subVars, pubVars>>

-----------------------------------------------------------------------------
(* The polling thread. *)

\* rosgraphPollThread: the event is cleared before the graph is read.
GraphEventTriggers ==
  /\ ppc = "wait"
  /\ graphEvent
  /\ graphEvent' = FALSE
  /\ ppc' = "query"
  /\ UNCHANGED <<serverVars, graph, graphChanges, removedTopics, newTopics,
                 someNew, topicVars, subVars, pubVars>>

\* Mutant: new and removed topics are mixed up.
QueryGraphSwapped ==
  LET latest == graph \intersect Whitelisted
      known  == {a[1] : a \in advertisedTopics}
  IN /\ ppc = "query"
     /\ ppc' = "lock"
     /\ newTopics' = known \ latest
     /\ removedTopics' = latest \ known
     /\ someNew' = (latest \ known # {})
     /\ UNCHANGED <<serverVars, graphVars, topicVars, subVars, pubVars>>

\* updateAdvertisedTopics reads the graph and compares it with the topics
\* it advertises, a map only this thread writes.
QueryGraph ==
  LET latest == graph \intersect Whitelisted
      known  == {a[1] : a \in advertisedTopics}
  IN /\ ppc = "query"
     /\ ppc' = "lock"
     /\ newTopics' = latest \ known
     /\ removedTopics' = known \ latest
     /\ someNew' = (latest \ known # {})
     /\ UNCHANGED <<serverVars, graphVars, topicVars, subVars, pubVars>>

\* Mutant: the graph event is cleared after the graph was read.
LockSubscriptionsClearsEvent ==
  /\ ppc = "lock"
  /\ ppc' = "update"
  /\ graphEvent' = FALSE
  /\ UNCHANGED <<serverVars, graph, graphChanges, removedTopics, newTopics,
                 someNew, topicVars, subVars, pubVars>>

\* It takes _subscriptionsMutex.
LockSubscriptions ==
  /\ ppc = "lock"
  /\ ppc' = "update"
  /\ UNCHANGED <<serverVars, graphVars, removedTopics, newTopics, someNew,
                 topicVars, subVars, pubVars>>

\* Mutant: the subscriptions of the channel stay.
RemoveTopicKeepsSubscriptions(t, ch) ==
  /\ ppc = "update"
  /\ t \in removedTopics
  /\ <<t, ch>> \in advertisedTopics
  /\ RemoveChannel(ch)
  /\ channelToTopic' = {p \in channelToTopic : p[1] # ch}
  /\ advertisedTopics' = {a \in advertisedTopics : a[1] # t}
  /\ removedTopics' = removedTopics \ {t}
  /\ UNCHANGED <<graphVars, ppc, newTopics, someNew, subVars, pubVars>>

\* Mutant: the channel stays in _channelToTopicAndDatatype.
RemoveTopicKeepsChannel(t, ch) ==
  /\ ppc = "update"
  /\ t \in removedTopics
  /\ <<t, ch>> \in advertisedTopics
  /\ RemoveChannel(ch)
  /\ subscribedChannels' = subscribedChannels \ {ch}
  /\ subscriptions' = {s \in subscriptions : s[1] # ch}
  /\ advertisedTopics' = {a \in advertisedTopics : a[1] # t}
  /\ removedTopics' = removedTopics \ {t}
  /\ UNCHANGED <<graphVars, ppc, newTopics, someNew, channelToTopic, pubVars>>

\* A topic that is gone: removeChannel, then the bridge's own three maps.
RemoveTopic(t, ch) ==
  /\ ppc = "update"
  /\ t \in removedTopics
  /\ <<t, ch>> \in advertisedTopics
  /\ RemoveChannel(ch)
  /\ subscribedChannels' = subscribedChannels \ {ch}
  /\ subscriptions' = {s \in subscriptions : s[1] # ch}
  /\ channelToTopic' = {p \in channelToTopic : p[1] # ch}
  /\ advertisedTopics' = {a \in advertisedTopics : a[1] # t}
  /\ removedTopics' = removedTopics \ {t}
  /\ UNCHANGED <<graphVars, ppc, newTopics, someNew, pubVars>>

\* A topic that is new, once the removed ones are done: addChannel, then the
\* two maps.  The missing definition of a type is advertised as an empty
\* schema, ...
AddTopic(t) ==
  /\ ppc = "update"
  /\ removedTopics = {}
  /\ t \in newTopics \ Undescribed
  /\ AddChannel
  /\ advertisedTopics' = advertisedTopics \union {<<t, nextChannelId + 1>>}
  /\ channelToTopic' = channelToTopic \union {<<nextChannelId + 1, t>>}
  /\ newTopics' = newTopics \ {t}
  /\ UNCHANGED <<graphVars, ppc, removedTopics, someNew, subVars, pubVars>>

\* ... any other exception skips the topic: it is new again next time.
SkipTopic(t) ==
  /\ ppc = "update"
  /\ removedTopics = {}
  /\ t \in newTopics \intersect Undescribed
  /\ newTopics' = newTopics \ {t}
  /\ UNCHANGED <<serverVars, graphVars, ppc, removedTopics, someNew, topicVars,
                 subVars, pubVars>>

\* Mutant: the new channels are not broadcast.
UnlockSubscriptionsSilent ==
  /\ ppc = "update"
  /\ removedTopics = {}
  /\ newTopics = {}
  /\ ppc' = "wait"
  /\ UNCHANGED <<serverVars, graphVars, removedTopics, newTopics, someNew,
                 topicVars, subVars, pubVars>>

\* The mutex is released.
UnlockSubscriptions ==
  /\ ppc = "update"
  /\ removedTopics = {}
  /\ newTopics = {}
  /\ ppc' = IF someNew THEN "broadcast" ELSE "wait"
  /\ UNCHANGED <<serverVars, graphVars, removedTopics, newTopics, someNew,
                 topicVars, subVars, pubVars>>

BroadcastTopics ==
  /\ ppc = "broadcast"
  /\ BroadcastChannels
  /\ ppc' = "wait"
  /\ someNew' = FALSE
  /\ UNCHANGED <<graphVars, removedTopics, newTopics, topicVars, subVars,
                 pubVars>>

-----------------------------------------------------------------------------
(* The handlers of the run loop. *)

\* The subscription maps lose client c of channel ch, and the channel's entry
\* if it was the last.  An unknown channel or client is only logged.
DropSubscription(ch, c) ==
  /\ subscriptions' = subscriptions \ {<<ch, c>>}
  /\ subscribedChannels' =
       IF /\ <<ch, c>> \in subscriptions
          /\ \A s \in subscriptions : s[1] = ch => s[2] = c
       THEN subscribedChannels \ {ch}
       ELSE subscribedChannels

\* Likewise for the publisher of client c on its channel k.
DropPublication(c, k) ==
  /\ publications' = publications \ {<<c, k>>}
  /\ publicationClients' =
       IF /\ <<c, k>> \in publications
          /\ \A p \in publications : p[1] = c => p[2] = k
       THEN publicationClients \ {c}
       ELSE publicationClients

\* The topic that the handler finds for a channel, if it is also advertised.
TopicsOf(ch) ==
  {t \in Topics : <<ch, t>> \in channelToTopic
                  /\ \E a \in advertisedTopics : a[1] = t}

\* Mutant: the keys of the two maps are swapped.
SubscribeHandlerSwapped ==
  /\ pc = "subscribe"
  /\ ~SubscriptionsLocked
  /\ subscribedChannels' = subscribedChannels \union {arg}
  /\ subscriptions' = subscriptions \union {<<hdl, arg>>}
  /\ CallbackReturns
  /\ UNCHANGED <<graphVars, pollVars, topicVars, pubVars>>

\* Mutant: only the first client of a channel gets a subscription.
SubscribeHandlerFirstOnly ==
  /\ pc = "subscribe"
  /\ ~SubscriptionsLocked
  /\ subscribedChannels' = subscribedChannels \union {arg}
  /\ subscriptions' = IF arg \in subscribedChannels
                      THEN subscriptions
                      ELSE subscriptions \union {<<arg, hdl>>}
  /\ CallbackReturns
  /\ UNCHANGED <<graphVars, pollVars, topicVars, pubVars>>

\* The entry of the channel is made before the subscription is created, and
\* stays if the creation throws (which is caught).
SubscribeHandler ==
  /\ pc = "subscribe"
  /\ ~SubscriptionsLocked
  /\ IF TopicsOf(arg) = {}
     THEN UNCHANGED subVars
     ELSE /\ subscribedChannels' = subscribedChannels \union {arg}
          /\ subscriptions' = IF TopicsOf(arg) \intersect Unsubscribable = {}
                              THEN subscriptions \union {<<arg, hdl>>}
                              ELSE subscriptions
  /\ CallbackReturns
  /\ UNCHANGED <<graphVars, pollVars, topicVars, pubVars>>

\* The query of the publishers is not in the try block: if it throws, the entry
\* of the channel stays as well, and the rest of the message is dropped.
SubscribeHandlerThrows ==
  /\ pc = "subscribe"
  /\ ~SubscriptionsLocked
  /\ TopicsOf(arg) \intersect Unsubscribable # {}
  /\ <<arg, hdl>> \notin subscriptions
  /\ subscribedChannels' = subscribedChannels \union {arg}
  /\ CallbackThrows
  /\ UNCHANGED <<subscriptions, graphVars, pollVars, topicVars, pubVars>>

UnsubscribeHandler ==
  /\ pc = "unsubscribe"
  /\ ~SubscriptionsLocked
  /\ DropSubscription(arg, hdl)
  /\ CallbackReturns
  /\ UNCHANGED <<graphVars, pollVars, topicVars, pubVars>>

\* The entry of the client is made before the publisher is created.
ClientAdvertiseHandler ==
  /\ pc = "advertise"
  /\ publicationClients' = publicationClients \union {hdl}
  /\ publications' = publications \union {<<hdl, arg>>}
  /\ CallbackReturns
  /\ UNCHANGED <<graphVars, pollVars, topicVars, subVars>>

\* create_generic_publisher throws (a topic name or type that the client made
\* up), and nothing catches it below handleMessage.
ClientAdvertiseThrows ==
  /\ pc = "advertise"
  /\ <<hdl, arg>> \notin publications
  /\ publicationClients' = publicationClients \union {hdl}
  /\ CallbackThrows
  /\ UNCHANGED <<publications, graphVars, pollVars, topicVars, subVars>>

ClientUnadvertiseHandler ==
  /\ pc = "unadvertise"
  /\ DropPublication(hdl, arg)
  /\ CallbackReturns
  /\ UNCHANGED <<graphVars, pollVars, topicVars, subVars>>

\* The message is published, or dropped if there is no publisher.
ClientMessageHandler ==
  /\ MessageCallbackReturns
  /\ UNCHANGED bridgeVars

\* The same two handlers, called by handleConnectionClosed.
CloseUnadvertiseHandler(k) ==
  /\ CloseUnadvertise(k)
  /\ DropPublication(hdl, k)
  /\ UNCHANGED <<graphVars, pollVars, topicVars, subVars>>

\* Mutant: the handler gives up if the mutex is taken.
CloseUnsubscribeHandlerTries(ch) ==
  /\ CloseUnsubscribe(ch)
  /\ IF SubscriptionsLocked THEN UNCHANGED subVars ELSE DropSubscription(ch, hdl)
  /\ UNCHANGED <<graphVars, pollVars, topicVars, pubVars>>

CloseUnsubscribeHandler(ch) ==
  /\ ~SubscriptionsLocked
  /\ CloseUnsubscribe(ch)
  /\ DropSubscription(ch, hdl)
  /\ UNCHANGED <<graphVars, pollVars, topicVars, pubVars>>

-----------------------------------------------------------------------------
(* The specification. *)

Environment ==
  \/ \E c \in Conns : PeerLost(c) /\ UNCHANGED bridgeVars
  \/ \E t \in Topics : GraphChange(t)

PollThread ==
  \/ GraphEventTriggers
  \/ QueryGraph
  \/ LockSubscriptions
  \/ \E t \in Topics, ch \in ChannelIds : RemoveTopic(t, ch)
  \/ \E t \in Topics : AddTopic(t) \/ SkipTopic(t)
  \/ UnlockSubscriptions
  \/ BroadcastTopics

Handlers ==
  \/ SubscribeHandler
  \/ SubscribeHandlerThrows
  \/ UnsubscribeHandler
  \/ ClientAdvertiseHandler
  \/ ClientAdvertiseThrows
  \/ ClientUnadvertiseHandler
  \/ ClientMessageHandler
  \/ \E k \in ClientChannels : CloseUnadvertiseHandler(k)
  \/ \E ch \in ChannelIds : CloseUnsubscribeHandler(ch)

Next ==
  \/ Environment
  \/ RunLoopBegins /\ UNCHANGED bridgeVars
  \/ RunLoopContinues /\ UNCHANGED bridgeVars
  \/ Handlers
  \/ PollThread

Spec == Init /\ [][Next]_vars

\* Both threads keep running.  A step of the polling thread that waits for
\* _clientsChannelMutex gets it if it is free again and again, and the event of
\* a lost connection is not overtaken for ever by other events (asio runs the
\* handlers in the order in which they became ready).  The handlers wait for
\* _subscriptionsMutex without more than that: the polling thread takes it
\* finitely often.
Fairness ==
  /\ WF_vars(RunLoopContinues /\ UNCHANGED bridgeVars)
  /\ WF_vars(Handlers)
  /\ \A c \in Conns :
       SF_vars(HandleConnectionClosed(c) /\ UNCHANGED bridgeVars)
  /\ SF_vars(PollThread)

FairSpec == Spec /\ Fairness

-----------------------------------------------------------------------------
(* Properties. *)

\* unsubscribeHandler is being called for client c and channel ch, or still to
\* be called by the disconnect handler.
UnsubscribePending(c, ch) ==
  /\ hdl = c
  /\ \/ pc = "unsubscribe" /\ arg = ch
     \/ pc \in Closing /\ ch \in oldSubs

\* The bridge holds a ROS subscription for a client only as long as the server
\* has the client subscribed (or is about to call unsubscribeHandler), though
\* the server drops subscriptions on its own in removeChannel and
\* handleConnectionClosed: no ROS subscription outlives its client.
NoOrphanSubscription ==
  \A s \in subscriptions :
    \/ \E m \in subscriptionsByChannel[s[2]] : m[1] = s[1]
    \/ UnsubscribePending(s[2], s[1])

\* Conversely, every subscription the server has is backed by a ROS
\* subscription, unless the callback is still to run or ROS refused it: the
\* subscribe callback comes too often (a second id for the channel), never too
\* seldom, unsubscribeHandler is only called for what the server has dropped,
\* and removing a channel cannot slip in between.
SubscriptionsServed ==
  /\ \A c \in clients : \A m \in subscriptionsByChannel[c] :
       \/ <<m[1], c>> \in subscriptions
       \/ pc = "subscribe" /\ hdl = c /\ arg = m[1]
       \/ \E t \in Unsubscribable : <<m[1], t>> \in channelToTopic
  /\ pc = "unsubscribe" => \A m \in subscriptionsByChannel[hdl] : m[1] # arg

\* What updateAdvertisedTopics computed before it took the mutex is still right
\* when it uses it: _advertisedTopics.at() finds every topic to remove, no topic
\* is added twice, and the id that addChannel returns is new.
PollingLocalsValid ==
  /\ \A t \in removedTopics : \E ch \in channels : <<t, ch>> \in advertisedTopics
  /\ \A a \in advertisedTopics : a[1] \notin newTopics
  /\ channels \subseteq 1..nextChannelId

\* _channels, _advertisedTopics and _channelToTopicAndDatatype have the same
\* channels, one per topic.
TablesMatch ==
  /\ \A t \in Topics, ch \in ChannelIds :
       <<t, ch>> \in advertisedTopics <=> <<ch, t>> \in channelToTopic
  /\ \A ch \in ChannelIds :
       ch \in channels <=> \E t \in Topics : <<ch, t>> \in channelToTopic
  /\ \A t, u \in Topics, ch, dh \in ChannelIds :
       <<ch, t>> \in channelToTopic /\ <<dh, u>> \in channelToTopic
         => (ch = dh <=> t = u)

\* The three copies of the channel table agree whenever a thread can look: the
\* server's _channels, _advertisedTopics and _channelToTopicAndDatatype, one
\* channel per topic.  So the branches of subscribeHandler for an unknown or
\* unadvertised channel are dead, and _subscriptions has no entry of a channel
\* that is gone.
ChannelTablesAgree ==
  /\ TablesMatch
  /\ pc = "subscribe" => TopicsOf(arg) # {}
  /\ subscribedChannels \subseteq channels

\* A connected client knows exactly the channels there are, except while an
\* update is being made and broadcast, though a client may connect between
\* addChannel and broadcastChannels and channels are removed one by one.
ClientsUpToDate ==
  ppc \notin {"update", "broadcast"} => \A c \in Reachable : told[c] = channels

\* A publisher exists only for what the server lists as advertised by the
\* client, and once the client is gone it has none (the server's own list for
\* the disconnect, which is never pruned, must cover all of them).
PublishersHaveOwners ==
  \A p \in publications :
    /\ p[1] \in publicationClients
    /\ \/ p[2] \in clientChannels[p[1]]
       \/ hdl = p[1] /\ pc = "unadvertise" /\ arg = p[2]
    /\ \/ p[1] \in clients
       \/ hdl = p[1] /\ pc = "closeUnadvertise" /\ p[2] \in oldAdvertised

\* What the clients see of the bridge is a directory of channels.
Directory == INSTANCE ChannelDirectory WITH
  Clients <- Conns,
  MaxId <- MaxChannelId,
  lastId <- nextChannelId,
  offered <- channelToTopic,
  status <- link,
  view <- [c \in Conns |-> IF c \in Reachable THEN told[c] ELSE {}],
  wanted <- [c \in Conns |-> {m[1] : m \in subscriptionsByChannel[c]}],
  streams <- subscriptions

\* The bridge implements ChannelDirectory: though a subscription passes through
\* two maps, two mutexes and two threads, a ROS subscription is made only for a
\* client that wants the channel, is given up only when the client no longer
\* does, goes with its channel in one step, and none is left when
\* handleConnectionClosed returns.
ImplementsDirectory == Directory!DirSpec

\* The invariants that carry each other: their conjunction is inductive.
BridgeInvariant ==
  /\ TypeOK
  /\ ServerInvariant
  /\ PollingLocalsValid
  /\ ChannelTablesAgree
  /\ NoOrphanSubscription
  /\ SubscriptionsServed

\* The two threads wait for each other's mutex: the run loop holds
\* _clientsChannelMutex and is in a handler that wants _subscriptionsMutex, the
\* polling thread holds that one and has a channel to add or to remove.
MutualWait ==
  /\ pc \in {"subscribe", "unsubscribe"}
  /\ ppc = "update"
  /\ removedTopics # {} \/ newTopics \ Undescribed # {}

\* Once the graph stays as it is, every client ends up with exactly the
\* whitelisted topics of the graph whose definition can be looked up: the event
\* is cleared before the graph is read, so no change is lost.  Nothing but the
\* mutual wait prevents it.
ClientsSeeGraph ==
  \/ <>[]MutualWait
  \/ <>[](\A c \in Reachable :
            {p[2] : p \in {q \in channelToTopic : q[1] \in told[c]}}
              = (graph \intersect Whitelisted) \ Undescribed)

\* A connection that the peer dropped is torn down in the end, its callbacks
\* included, and again nothing but the mutual wait prevents it.
LostConnectionsAreClosed ==
  \A c \in Conns :
    <>[]MutualWait \/ (link[c] = "lost" ~> link[c] = "closed")

\* A client that subscribes is served: the run loop gets through every event
\* that it starts, as the smoke tests expect of their clients.
EventsComplete == pc # "idle" ~> pc = "idle"
=============================================================================
