--------------------------- MODULE BridgeLifecycle ---------------------------
(***************************************************************************)
(* Construction and destruction of the ROS 2 node                          *)
(* (ros2_foxglove_bridge.cpp) by main() (ros2_foxglove_bridge_node.cpp) or *)
(* by a component container.  The constructor starts the server, whose     *)
(* handlers run from then on, and the polling thread before all members    *)
(* they use have their values; the destructor waits for both.              *)
(*                                                                         *)
(* A handler, an update of the topics and a callback of the executor are   *)
(* kept as a time during which they run, with the two mutexes that they    *)
(* may wait for each other with: _clientsChannelMutex of the server and    *)
(* _subscriptionsMutex of the node.  What they do is in Ros2Bridge, and    *)
(* how stop() waits for the run loop in ServerShutdown.                    *)
(***************************************************************************)
CONSTANTS
  Requests,     \* subscriptions and publications clients may ask for
  Unloadable,   \* created by a container, else by main()
  UseSimTime    \* the parameter use_sim_time

ASSUME LifecycleAssumption ==
  /\ Unloadable \in BOOLEAN
  /\ UseSimTime \in BOOLEAN

VARIABLES
  pc,       \* the thread that creates and destroys the node
  poll,     \* the polling thread
  ok,       \* rclcpp::ok()
  serving,  \* the run loop of the server runs
  handler,  \* the handler of the node that it is in
  busy,     \* what a thread of the executor does in rosMessageHandler
  depth,    \* where _maxQosDepth comes from
  groups,   \* the callback groups that have been created
  offered,  \* channels have been offered to clients
  subs,     \* the subscriptions made for clients
  pubs      \* the publications made for them

members  == <<depth, groups>>
requests == <<offered, subs, pubs>>
nodeVars == <<pc, poll, ok, serving, handler, busy, members, requests>>

\* What a subscription is made with: the default group is used for a group
\* that does not exist yet.
Subscriptions == [request : Requests, group : {"default", "subscription"},
                  depth : {"default", "parameter"}]

Publications == [request : Requests, group : {"default", "publish"}]

\* A handler that subscribes or unsubscribes wants _subscriptionsMutex.  It is
\* called with _clientsChannelMutex held, but not when a connection was closed.
HandlerKinds == {"subscribe", "closed", "advertise", "other"}

NodeTypeOK ==
  /\ pc \in {"start", "depth", "thread", "subscription", "publish", "clock",
             "up", "join", "stop", "gone", "aborted"}
  /\ poll \in {"none", "update", "query", "apply", "broadcast", "ready", "exited"}
  /\ ok \in BOOLEAN
  /\ serving \in BOOLEAN
  /\ handler \in {"none"} \union HandlerKinds
  /\ busy \in {"no", "returns", "sends"}
  /\ depth \in {"default", "parameter"}
  /\ groups \subseteq {"subscription", "publish"}
  /\ offered \in BOOLEAN
  /\ subs \subseteq Subscriptions
  /\ pubs \subseteq Publications

\* The parameters are declared and the server is made: nothing runs yet.
NodeInit ==
  /\ pc = "start" /\ poll = "none" /\ ok = TRUE
  /\ serving = FALSE /\ handler = "none" /\ busy = "no"
  /\ depth = "default" /\ groups = {}
  /\ offered = FALSE /\ subs = {} /\ pubs = {}

\* The process runs.
Alive == pc # "aborted"

\* No handler holds _clientsChannelMutex.
ServerFree == handler \in {"none", "closed"}

\* The handler gets _subscriptionsMutex, if it wants it: the polling thread, which
\* keeps it while it has a channel to add or to remove, does not hold it.
HandlerFree == poll = "apply" => handler \in {"advertise", "other"}

-----------------------------------------------------------------------------
(* The constructor. *)

\* Mutant: the thread is started before its members are set.
AfterThreadFirst ==
  [start |-> "thread", thread |-> "depth", depth |-> "subscription",
   subscription |-> "publish", publish |-> "clock", clock |-> "up"]

\* The order of its statements.
After ==
  [start |-> "depth", depth |-> "thread", thread |-> "subscription",
   subscription |-> "publish", publish |-> "clock", clock |-> "up"]

Construct(step) == pc = step /\ pc' = After[step]

StartServer ==
  /\ Construct("start")
  /\ serving' = TRUE
  /\ UNCHANGED <<poll, ok, handler, busy, members, requests>>

SetMaxQosDepth ==
  /\ Construct("depth")
  /\ depth' = "parameter"
  /\ UNCHANGED <<poll, ok, serving, handler, busy, groups, requests>>

StartPollThread ==
  /\ Construct("thread")
  /\ poll' = "update"
  /\ UNCHANGED <<ok, serving, handler, busy, members, requests>>

CreateCallbackGroup(g) ==
  /\ Construct(g)
  /\ groups' = groups \union {g}
  /\ UNCHANGED <<poll, ok, serving, handler, busy, depth, requests>>

\* The subscription of /clock cannot be made once rclcpp is shut down.  The
\* exception destroys the members of the node, two of them running threads,
\* which ends the process.
SubscribeClock ==
  /\ IF UseSimTime /\ ~ok THEN pc = "clock" /\ pc' = "aborted"
                          ELSE Construct("clock")
  /\ UNCHANGED <<poll, ok, serving, handler, busy, members, requests>>

-----------------------------------------------------------------------------
(* The threads of the node. *)

Group(g) == IF g \in groups THEN g ELSE "default"

\* The run loop calls a handler of the node; a client can subscribe to what has
\* been offered to it.
HandlerBegins(kind) ==
  /\ serving /\ handler = "none" /\ Alive
  /\ kind = "subscribe" => offered
  /\ handler' = kind
  /\ UNCHANGED <<pc, poll, ok, serving, busy, members, requests>>

\* It makes a subscription or a publisher, which rclcpp refuses when it is shut
\* down, ...
SubscribeHandler(r) ==
  /\ handler = "subscribe" /\ HandlerFree /\ ok /\ Alive
  /\ \A s \in subs : s.request # r
  /\ subs' = subs \union
       {[request |-> r, group |-> Group("subscription"), depth |-> depth]}
  /\ handler' = "none"
  /\ UNCHANGED <<pc, poll, ok, serving, busy, members, offered, pubs>>

ClientAdvertiseHandler(r) ==
  /\ handler = "advertise" /\ ok /\ Alive
  /\ \A p \in pubs : p.request # r
  /\ pubs' = pubs \union {[request |-> r, group |-> Group("publish")]}
  /\ handler' = "none"
  /\ UNCHANGED <<pc, poll, ok, serving, busy, members, offered, subs>>

\* ... or it makes nothing, and returns or throws.
HandlerReturns ==
  /\ handler # "none" /\ HandlerFree /\ Alive
  /\ handler' = "none"
  /\ UNCHANGED <<pc, poll, ok, serving, busy, members, requests>>

\* sendMessage returns at once, or wants _clientsChannelMutex.
RosMessageHandler ==
  /\ pc = "up" /\ ok /\ busy = "no"
  /\ subs # {}
  /\ busy' \in {"returns", "sends"}
  /\ UNCHANGED <<pc, poll, ok, serving, handler, members, requests>>

RosMessageHandled ==
  /\ busy # "no" /\ Alive
  /\ busy = "sends" => ServerFree
  /\ busy' = "no"
  /\ UNCHANGED <<pc, poll, ok, serving, handler, members, requests>>

\* updateAdvertisedTopics() returns at once when rclcpp is shut down ...
UpdateTopics ==
  /\ poll = "update" /\ Alive
  /\ poll' = IF ok THEN "query" ELSE "ready"
  /\ UNCHANGED <<pc, ok, serving, handler, busy, members, requests>>

\* ... and if that happens only then, the query throws, and no one catches it.
\* The thread goes on with _subscriptionsMutex and a channel to add or to remove,
\* or has skipped all new topics, or finds nothing to do.
QueryGraph ==
  /\ poll = "query" /\ Alive
  /\ IF ok THEN poll' \in {"apply", "broadcast", "ready"} /\ UNCHANGED pc
           ELSE pc' = "aborted" /\ UNCHANGED poll
  /\ UNCHANGED <<ok, serving, handler, busy, members, requests>>

\* A channel is added or removed, and it is the last one of the update or, if it
\* is the first one ever, perhaps not: further ones would change nothing here.
ChangeChannel ==
  /\ poll = "apply" /\ ServerFree /\ Alive
  /\ poll' \in {"broadcast", IF offered THEN "ready" ELSE "apply"}
  /\ offered' = TRUE
  /\ UNCHANGED <<pc, ok, serving, handler, busy, members, subs, pubs>>

BroadcastTopics ==
  /\ poll = "broadcast" /\ ServerFree /\ Alive
  /\ poll' = "ready"
  /\ UNCHANGED <<pc, ok, serving, handler, busy, members, requests>>

\* Mutant: the loop ends by a flag the destructor sets after the join.
LoopEndsByFlag == pc = "stop"

\* The condition of the loop, looked at every 200 ms.
LoopEnds == ~ok

\* The graph changed: another update.
GraphChanged ==
  /\ poll = "ready" /\ Alive
  /\ ~LoopEnds
  /\ poll' = "update"
  /\ UNCHANGED <<pc, ok, serving, handler, busy, members, requests>>

PollThreadExits ==
  /\ poll = "ready" /\ Alive
  /\ LoopEnds
  /\ poll' = "exited"
  /\ UNCHANGED <<pc, ok, serving, handler, busy, members, requests>>

-----------------------------------------------------------------------------
(* The end. *)

\* The signal handler of rclcpp shuts it down.
Interrupt ==
  /\ ok /\ Alive
  /\ ok' = FALSE
  /\ UNCHANGED <<pc, poll, serving, handler, busy, members, requests>>

\* When rclcpp is shut down, spin() joins the threads of the executor and
\* main() destroys the node.  A container can also unload it at any time, and
\* goes on.
DestroyNode ==
  /\ pc = "up"
  /\ ~Unloadable => ~ok /\ busy = "no"
  /\ pc' = "join"
  /\ UNCHANGED <<poll, ok, serving, handler, busy, members, requests>>

\* Mutant: the polling thread is detached.
PollThreadDetached == TRUE

\* join() returns.
PollThreadJoined == poll = "exited"

JoinPollThread ==
  /\ pc = "join"
  /\ PollThreadJoined
  /\ pc' = "stop"
  /\ UNCHANGED <<poll, ok, serving, handler, busy, members, requests>>

StopServer ==
  /\ pc = "stop"
  /\ handler = "none"
  /\ serving' = FALSE
  /\ pc' = "gone"
  /\ UNCHANGED <<poll, ok, handler, busy, members, requests>>

Constructor ==
  \/ StartServer
  \/ SetMaxQosDepth
  \/ StartPollThread
  \/ CreateCallbackGroup("subscription") \/ CreateCallbackGroup("publish")
  \/ SubscribeClock

Destructor == JoinPollThread \/ StopServer

PollThread ==
  \/ UpdateTopics
  \/ QueryGraph
  \/ ChangeChannel
  \/ BroadcastTopics
  \/ PollThreadExits

HandlerEnds ==
  \/ \E r \in Requests : SubscribeHandler(r) \/ ClientAdvertiseHandler(r)
  \/ HandlerReturns

NodeNext ==
  \/ Constructor
  \/ \E kind \in HandlerKinds : HandlerBegins(kind)
  \/ HandlerEnds
  \/ RosMessageHandler \/ RosMessageHandled
  \/ PollThread
  \/ GraphChanged
  \/ Interrupt
  \/ DestroyNode
  \/ Destructor

NodeSpec == NodeInit /\ [][NodeNext]_nodeVars

\* Every thread runs, and who waits for a mutex that is free again and again
\* gets it.  The graph need not change, nobody need interrupt the process, and
\* stop() need not return (ServerShutdown says when it does).
NodeFairness ==
  /\ WF_nodeVars(Constructor)
  /\ SF_nodeVars(HandlerEnds)
  /\ SF_nodeVars(RosMessageHandled)
  /\ SF_nodeVars(PollThread)
  /\ WF_nodeVars(DestroyNode /\ ~ok)
  /\ WF_nodeVars(JoinPollThread)

FairNodeSpec == NodeSpec /\ NodeFairness

-----------------------------------------------------------------------------
(* Properties. *)

\* Although the server accepts clients before _maxQosDepth is set, no handler
\* reads it before: there is nothing to subscribe to until the polling thread
\* has run, which is started after.
DepthIsConfigured == \A s \in subs : s.depth = "parameter"

\* No thread is in a member function of a node that has been destroyed: the
\* polling thread, the run loop and the executor are all done.
NothingRunsInDestroyedNode ==
  pc = "gone" => poll = "exited" /\ ~serving /\ handler = "none" /\ busy = "no"

\* The run loop and the polling thread wait for each other's mutex, as in
\* Ros2Bridge.
MutualWait == handler = "subscribe" /\ poll = "apply"

\* Once rclcpp is shut down, in whatever phase the node is, the destructor gets
\* as far as stop(), spin() and the join of the polling thread being over; or an
\* exception that no one catches ends the process; or the two threads wait for
\* each other, and join() never returns.
DestructorReachesStop ==
  ~ok ~> (pc \in {"stop", "gone"} \/ ~Alive \/ MutualWait)
=============================================================================
