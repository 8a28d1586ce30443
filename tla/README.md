# Verification of foxglove_bridge

TLA+ models of foxglove_bridge, the WebSocket bridge between ROS 1 / ROS 2 and
Foxglove Studio, with TLC runs on small instances and TLAPS proofs for all
values of the constants. Paths below are relative to the repository; `server`
is `foxglove_bridge_base/include/foxglove_bridge/websocket_server.hpp`, `ros2`
is `ros2_foxglove_bridge/src/ros2_foxglove_bridge.cpp`, `ros1` is
`ros1_foxglove_bridge/src/ros1_foxglove_bridge_nodelet.cpp`.

## The system

| Part | State | Operations | Runs on |
|---|---|---|---|
| WebSocket server (`server`) | `_clients` (subscriptions and advertised channels of each), `_channels`, `_nextChannelId`, `_clientChannels`; `_clientsChannelMutex` | connection opened / closed, text message (subscribe, unsubscribe, advertise, unadvertise), binary message; `addChannel`, `removeChannel`, `broadcastChannels`, `sendMessage`, `broadcastTime`; `start`, `stop` | handlers on the one thread of the websocketpp run loop, calls on threads of the embedding program |
| ROS 2 bridge (`ros2`) | `_advertisedTopics`, `_channelToTopicAndDatatype`, `_subscriptions` (`_subscriptionsMutex`), `_clientAdvertisedTopics` (`_clientAdvertisementsMutex`) | `updateAdvertisedTopics`, subscribe / unsubscribe / client advertise / unadvertise / message handlers, `rosMessageHandler` | graph polling thread; run loop of the server; executor threads |
| its life (`ros2`, `ros2_foxglove_bridge_node.cpp`) | the members the handlers use, the polling thread | constructor, destructor, `main()` or a component container | the owner's thread |
| ROS 1 nodelet (`ros1`) | the same maps, `_updateTimer`, `_updateCount` | the same, polled by a timer with backoff | nodelet worker threads; run loop |
| Message definition cache (`message_definition_cache.cpp`) | the parsed files by package, type and format | `get_full_text`, `load_message_spec` | graph polling thread |
| WebSocket client, test client | one connection, two promises | connect, subscribe, wait for a message, close | tests only |
| Logging, serialization, TLS set-up | none | formatting, encoding, configuration | - |

The server calls back into the bridge (subscribe, unsubscribe, client advertise,
unadvertise, message), for text and binary messages *with its mutex held*, after
a disconnect without it. The bridge calls the server from the polling thread
(`removeChannel`, `addChannel`, `broadcastChannels`) and from the executor
threads (`sendMessage`, `broadcastTime`).

What is hard: two threads with two mutexes taken in opposite orders; a disconnect
handler that undoes its client step by step without a mutex while channels come
and go; three copies of the channel table; batches of entries interrupted by
exceptions; a buffer test that is separate from the send; subscription ids used
after the lock is released; a timer that is stopped before what may fail; `stop()`
running handlers on a second thread while it waits; handlers that run before the
constructor is done; ROS 1 subscribers whose destruction waits for their own
callback. The list `hazards` in `PROJECT.json` has each of them at its line.

What makes it correct: the maps of server and bridge agree whenever a thread can
look at them; nothing of a client survives the client; a client knows the
channels there are; every change of the ROS graph reaches the clients; a slow
client costs a bounded amount of memory; after `stop()` nothing runs; a schema is
complete; a subscription matches the publishers it was made for.

## Modules

* **`WebSocketServer`** - the server. The maps are functions from connections to
  sets (`subscriptionsByChannel[c]` holds pairs channel/subscription id). `pc`,
  `hdl`, `op`, `left`, `first`, `arg`, `oldSubs`, `oldAdvertised` are the frame of
  the handler the run loop is in. A text message is a sequence of steps: taking
  the mutex (`HandleTextMessage`), one step per entry, one step per callback, and
  the release; `Locked` says that `_clientsChannelMutex` is held across steps, and
  the calls of other threads need `~Locked`. `handleConnectionClosed` is its
  critical section, then one step per callback, the unlocked erase, and the
  return. A malformed entry, or a callback that throws, ends the message with the
  earlier entries applied. `told[c]` is what client `c` knows once it has read
  everything that was sent: advertise and unadvertise messages change it.
* **`Ros2Bridge`** - extends it with the ROS 2 bridge: every callback step becomes
  the handler of the bridge, and the calls of the embedding program become those
  of the polling thread. `ppc` is where that thread is (`query`, `lock`, `update`,
  `broadcast`, `wait`); `ppc = "update"` is `_subscriptionsMutex` held across
  steps, which the subscription handlers wait for. The ROS graph changes at any
  time and sets a sticky graph event (external: rclcpp's guard condition). Lookups
  of definitions that throw (`Undescribed`), topics ROS refuses to subscribe to
  (`Unsubscribable`), a query of the publishers that throws out of the handler
  (`SubscribeHandlerThrows`), and publishers ROS refuses to create (any) are covered.
* **`SendPath`** - `sendMessage` in its three steps (test the buffer, look up the
  subscription under the mutex, send) on any number of executor threads towards
  one client that subscribes, unsubscribes and disconnects; `broadcastTime`; the
  socket draining the buffer. The buffer is counted in bytes, data and time apart;
  `late` counts the data messages sent under a subscription since it ended.
* **`ChannelDirectory`** - the abstract specification, what a bridge of either ROS
  promises its clients: channels with ids that are never used twice, one per
  topic; clients that are told of them; and a stream per client and channel, which
  starts only if the client wants the channel, ends only if it does not, goes with
  the channel at once, and is over before the connection is. No mutex, callback,
  batch or polling is in it. `Ros2Bridge` and `Ros1Bridge` implement it through the
  mapping `Directory`: the subscriptions of the server are what is wanted, those of
  the bridge are the streams, `told` of the reachable clients is their view.
* **`Ros1Bridge`** - extends `WebSocketServer` with the ROS 1 nodelet: its handlers,
  the update of the topics that its timer starts (`upc`, with `timer` and a master
  that may not answer), and the worker threads in `rosMessageHandler`
  (`delivering`; `sending` are those for which `sendMessage` did not return at its
  tests of the connection and the buffer, and wants the mutex). Destroying a `ros::Subscriber` waits for its callback in progress
  (external: roscpp): `destroying` are the subscribers a handler is destroying,
  `erasing` those an update is, both with `_subscriptionsMutex` held.
* **`Ros1Polling`** - the period of that timer, for each value of `max_update_ms`. It
  is computed as in the code, with the shift of a 64-bit `size_t`, whose result is
  any outcome of the hardware once the count reaches the width. Values of `size_t`
  above `INT_MAX` are not told apart: a negative parameter becomes one of them.
* **`ServerShutdown`** - `Server::stop()`: `spc` is where it is (stop listening,
  list the clients, close each, poll, force, join); `at` and `on` say which handler
  the two threads that may run handlers are in, and for which connection. Of the
  handlers only their use of the mutex, `_clients` and `_clientChannels` is kept.
  The event loop of asio is external: it is over when it is stopped or when
  nothing listens, is connected or runs. `MaxPolls` stands for `MAX_SHUTDOWN_MS`.
* **`BridgeLifecycle`** - constructor (`After` is the order of its statements) and
  destructor of the ROS 2 node against the threads they start and wait for, with
  `main()` or a container (`Unloadable`) as the owner, and rclcpp shut down at any
  moment. Handlers, updates and callbacks of the executor are intervals, with the two
  mutexes they may wait for each other with; what they do is in the other modules.
* **`MessageDefinitionCache`** - `get_full_text` as a state machine with its
  recursion as a stack, the `.msg` walk and its `.idl` fallback, and the cache that
  later calls share. What a file contains is decided when it is first read, so one
  run covers every graph of dependencies, cycles, missing files and missing
  packages. The regular expressions are abstracted to the set of types they find.
* **`SubscriptionQos`** - the counting loop and the choice of reliability,
  durability and depth in `subscribeHandler`, between publishers that come and go;
  the rule by which ROS matches profiles is external.
* **`WebSocketClient`** - the client and `connectClientAndReceiveMsg` of the smoke
  tests: two threads, two promises on the stack of one of them, against a server
  that advertises and sends any number of times up to a bound.
* **`ServerProofs`, `BridgeProofs`, `Ros1Proofs`, `SendProofs`, `ShutdownProofs`,
  `DefinitionProofs`, `QosProofs`, `ClientProofs`** - theorems, and the inductive
  invariants only they need. **`MC...`** - symmetry sets for TLC.

Definitions whose comment begins with "Mutant" are not part of the model: each
is a plausible bug that replaces a definition to show that a property notices.

## Runs

| Run | Checks | Bounds |
|---|---|---|
| `bridge_subscriptions` | `TypeOK`; of the server `HandlerReferencesValid`, `SubscriptionsOneToOne`, `SubscriptionsHaveChannels`, `ToldChannelsExist`; of the bridge `PollingLocalsValid`, `NoOrphanSubscription`, `SubscriptionsServed`, `ChannelTablesAgree`, `ClientsUpToDate`; `ImplementsDirectory` (refinement) | 2 clients, 2 subscription ids, 2 topics (ROS refuses one), 2 graph changes: one client can be served while the other is closed, ids and channels can be used twice, a topic can vanish and return |
| `bridge_progress` | `ClosedConnectionsOwnNothing`, `PublishersHaveOwners`; `ClientsSeeGraph`, `LostConnectionsAreClosed` (liveness) | 1 client with all operations and 2 client channels, in batches of 2 (an exception can come between two entries), 3 topics (one not whitelisted, one without definition), 1 graph change, at any point of an update |
| `bridge_deadlock` | `EventsComplete` - **violated** | 1 client, 1 topic, 1 graph change |
| `send_path` | `OvershootBounded`, `LateDataBounded` | 2 threads, 2 channels, 2 subscription ids that are used again and again, messages up to 2 bytes, limit 3, 4 bytes of time messages |
| `ros1_subscriptions` | `NoLateDelivery`, `ImplementsDirectory` (refinement) | 2 clients, 1 subscription id, 2 topics (ROS refuses one), 2 changes of the topics |
| `ros1_progress` | `PublishersHaveOwners`; `OnlyCyclesBlock`, `ClientsSeeGraph` (liveness) | 1 client with all operations, 2 topics (one without definition), any of them there at first, 1 change |
| `ros1_polling` | `PeriodInRange`, `BackoffGrows` | 64-bit shift; `max_update_ms` negative, 0, below, at and above the minimum, 5000, `INT_MAX`; counts up to and beyond the width |
| `shutdown` | `RaceOnlyInStop`, `StopIsFinal`, `GracefulStopClosesAll`; `StopReturnsUnlessLate` (liveness) | 3 connections, 3 polls: one connection per thread and one that `stop()` does not know of |
| `lifecycle` | `DepthIsConfigured`, `NothingRunsInDestroyedNode`; `DestructorReachesStop` (liveness) | 2 requests, `main()`, simulated time |
| `definitions` | `SelfContained`; `CallsEnd` (liveness) | 3 types and every graph between them, 3 definitions read: enough for a cycle beside the root, a fallback half way and further calls on a filled cache |
| `qos` | `MissesOnlyLatePublishers`, `StrongestProfile`, `DepthOfAll` | 3 publishers with all profiles, depths 0 to 2, limit 3: sums below, at and above the limit |
| `client` | `DataFindsHandler`, `QuietServerIsSafe`; `CallEnds` (liveness) | 3 advertisements, 3 messages |

Channel ids are bounded by `MaxChannelId`: in the runs of the ROS 2 bridge it is at
least the number of topics that can get a channel plus the graph changes, so the
bound is never met; in those of ROS 1 it is smaller, and a run in which it is met
stops adding topics (`ros1_progress` does not meet it). Deadlock checking is off
except in `ros1_polling`: clients may all be gone and the graph at rest, and in
`bridge_subscriptions` the two threads really can wait for each other. The server
has no run of its own: the bridge is the program that embeds it, and for any other
its properties are proved.

### What they show

* **Mutual wait** (`bridge_deadlock`). `updateAdvertisedTopics` holds
  `_subscriptionsMutex` (ros2:270) and calls `removeChannel` / `addChannel`, which
  want `_clientsChannelMutex`. `handleTextMessage` holds that one (server:600) and
  calls `subscribeHandler` / `unsubscribeHandler`, which want the first. TLC's
  trace: a client subscribes after the polling thread took its mutex and before it
  makes its call. From then on no client is served and no topic updated.
  `bridge_progress` shows that this is the *only* way for either to stop.

Several other properties hold with an exception that they name. Each exception can
really happen (TLC finds a trace if its negation is made an invariant), and each is
a place where the code does less than one would like:

* **`CyclicWait`** (`Ros1Bridge`). The nodelet has the same order of locks, and a
  cycle of its own: `unsubscribeHandler` destroys the `ros::Subscriber` with both
  mutexes held (ros1:207); roscpp waits for the callback in progress, which waits
  in `sendMessage` for `_clientsChannelMutex`. No topic need come or go for it. A
  callback that `sendMessage` sends back before it asks for the mutex, because the
  connection is gone or its buffer is full (server:811-819), ends such a wait; only
  one that is past these tests makes it a cycle.
* **`MutualWait`** (`Ros2Bridge`, `BridgeLifecycle`). The wait of run `bridge_deadlock`,
  named by the liveness properties of the bridge and by `DestructorReachesStop`: if
  it comes before or while the node is destroyed, `join()` (ros2:197) never returns.
* **`LateClient`** (`ServerShutdown`). `stop()` closes, and in the end terminates,
  only the clients it found; if it found none it joins the run loop at once
  (server:481), and a handshake completed then keeps the loop alive for as long as
  that client stays. `StopReturnsUnlessLate` also takes the callbacks of the embedding
  program to return. In ROS 2 they do, since `stop()` is called after the polling
  thread has been joined; in ROS 1 a `CyclicWait` keeps `stop()` from returning.
* **`timer = "off"`** (`Ros1Bridge`). A single failure of `getTopics` leaves the timer
  stopped (ros1:335, 342), and the polling is over, whatever `max_update_ms` is.
* **`updateCount' < Bits`** (`Ros1Polling`). `size_t(1) << _updateCount` is undefined
  from the 64th update on; with the shift count masked the period restarts at
  100 ms.
* **`~Alive`** (`BridgeLifecycle`). If rclcpp is shut down between the test of
  `ok()` and the query of the graph, or before `/clock` is subscribed to, an
  exception ends the process.
* **`Unloadable = FALSE`** (`BridgeLifecycle`). A container that unloads the
  component while rclcpp is up waits in the destructor for a polling thread that
  only ends with rclcpp. And in either case a client that subscribes before the
  callback groups are created (ros2:179) gets the node's default group for good.
* **`ads <= 1`** (`WebSocketClient`). A second advertisement of the topic sets the
  promise of the test client again, which ends the process.

Two properties bound what they cannot rule out. `LateDataBounded`: `sendMessage` reads
the subscription id under the mutex and uses it after, so a client gets data of a
channel after it unsubscribed, and if it has given the id to another channel it takes
that data for the other's; but never more than one message per executor thread.
`OvershootBounded`: data beyond the limit, again one message per thread. Time messages
are outside it: `broadcastTime` does not look at the buffer (server:847).

### Fairness

Run loop and polling thread keep running (weak fairness of their steps). Two
assumptions are stronger. A polling thread that waits for `_clientsChannelMutex`
gets it if it is free again and again; `std::shared_mutex` does not promise that,
but the run loop lets go of it between any two messages. And the close event of a
lost connection is not overtaken for ever; asio runs handlers in the order they
became ready. In ROS 1 an armed timer fires, a master that is asked again and again
answers, and a callback or a handler that waits for a mutex that is free again and
again gets it. In `ServerShutdown` a handshake ends (websocketpp times it out) and
`stop()` gets the mutex. In `BridgeLifecycle` every thread runs, and a handler, an
update or a callback that waits for a mutex that is free again and again gets it;
nothing is assumed of one that is not, nor that `stop()` returns. The definition cache and the
client need weak fairness of their own thread only, the client also that its
connection and its waits end (both have a time-out). No fairness is assumed of clients,
peers or the graph.

## Proofs

`ServerProofs`: `ServerInvariant` is inductive and gives `ServerTypeOK` and the
five properties of the server that the bridges' runs check, for any embedding
program and any number of connections, ids, channels and entries per message.
None of them is inductive alone: that a subscription has a channel needs that the
callback holds the mutex, types of the function updates need that a handler at
work has a connection, and that a closed connection owns nothing needs to know
where in `handleConnectionClosed` the run loop is. One lemma per conjunct, one
step per action. `ServerArgumentsValid` adds what the callbacks may rely on. The
lemmas about `View` and `Wanted`, what the clients know and want, say of each
action of the server what it is in the directory; both bridges' proofs use them.

`SendProofs`: the buffer bound. `OvershootBounded` is not inductive: a state at
the bound with threads past the test would break it. `OvershootInvariant` gives
every thread a share of `MaxSize` and takes the shares of the threads in flight
out of the bound; a thread that passes the test takes its share (there is one
left for it, since it was not in flight), one that leaves returns it. Likewise
`LateInvariant` is the inductive form of `LateDataBounded`: what was sent late under a
subscription and the threads that have looked it up and are still to send are together
no more than the threads; a lookup finds only subscriptions that are there, so nobody
joins after the end.

`BridgeProofs`: every step of the ROS 2 bridge is a step of `ServerSpec` or leaves
the server alone, so `Spec => ServerSpec`, and the server's invariant holds in the
bridge. On top of it `BridgeInvariant` is inductive: `PollingLocalsValid`,
`ChannelTablesAgree`, `NoOrphanSubscription` and `SubscriptionsServed`, for any
number of clients, topics and graph changes. They need each other and the server:
that the tables match after `AddTopic` rests on the polling thread's locals and on
fresh channel ids; that `subscribeHandler` finds its topic, on the matching tables
and on the server keeping the channel during the callback; that
`unsubscribeHandler` drops nothing the server still has, on the server's
subscriptions being one-to-one.

`BridgeClientsUpToDate` and `BridgePublishersHaveOwners` are proved on top of it.
The first is not inductive: `BroadcastDue` says that a client that does not know
all channels will be told by the update in progress, and that topics are there to
be added only in one that will broadcast. The second rests on the argument of
`clientAdvertiseHandler` being in the client's list (`CallbackArgumentsValid`) and
on the list that `handleConnectionClosed` works off. `MutualWaitIsForEver`: no step
of anyone ends the mutual wait of the two threads, so the exception that the
liveness properties name is a deadlock and not a delay.

The bridge implements `ChannelDirectory` (`BridgeImplementsDirectory`), for any
number of clients, topics and channels. One lemma per step says which step of the
directory it is: `RemoveTopic` withdraws, `BroadcastTopics` announces,
`SubscribeEntry` wants, and so on; all others leave the directory alone. Where the
argument lies: `SubscribeHandler` starts only what is wanted because the server
keeps the subscription during the callback; `UnsubscribeHandler` ends only what is
not, because subscriptions are one-to-one; `CloseReturns` closes a connection
without streams, because of `NoOrphanSubscription` and the list being worked off.

`Ros1Proofs`: the same for the nodelet. It implements `ServerSpec` and
`ChannelDirectory`, and `NodeletInvariant` is inductive. Its parts: the channels of
the server and the nodelet match (`TopicsMatch`), also in the middle of an update
(`UpdateLocalsValid`); each subscriber is wanted by its client or its unsubscribe
callback is to come (`SubscribersWanted`); `_subscriptionsMutex` is held by the
update, or by the run loop for the one subscriber it destroys (`OneHolder`); and
`NoLateDelivery`, which needs all of them: a callback in
progress belongs to a subscriber that someone holds, and a connection is closed
only when none is left for it. `CyclicWaitIsForEver` is the counterpart of
`MutualWaitIsForEver`, for all three cycles, in which the callbacks are past the tests
of `sendMessage` and need the mutex to end.

The last section of `Ros1Proofs` is about `Ros1Polling`: `PollingPeriodInRange` and
`PollingBackoffGrows`, for every int that `max_update_ms` may be and every width of the
shift.
`BackoffGrows` compares two periods and says
nothing of where the first came from; `PeriodInvariant` adds that the period is the
one for the count, as long as the shift is defined. A power with a variable exponent
means nothing to the SMT solver, but only 31 powers are below `INT_MAX`: the growth of
the shift (`PowerGrows`) is shown case by case.

`DefinitionProofs`: `DefinitionSelfContained`, for any number of types and any
graph of dependencies. The walk is a state machine, so the argument is an
invariant over its steps and not an induction over the graph. `WalkInvariant` says
that the result is the root and, once each, the dependencies come across so far
(`ResultIsAsked`); that every dependency of a definition in the result has been
come across or is still to come in a call on the stack (`NothingForgotten`); that
whatever was come across is in every set closed under the dependencies
(`NothingElse`); and that what was seen in `.msg` cannot hide anything from the
`.idl` walk (`CallsApart`). When the first call returns nothing is to come, so what
was come across is closed, and it is the smallest closed set; that the result has
no more entries than that set is a bijection between the two.

`QosProofs`: `MissesOnlyLatePublishers` and `StrongestProfile`, for any number of
publishers. The invariant: each counter is the number of publishers the loop has
come to that offer the policy (`CountsMatch`), and a subscription matches all
publishers it was made for, also those that have gone. A count that equals the size
of a finite set is the count of all its members. `QosDepthOfAll`: the depth is the sum
of the depths of all publishers, cut off at the limit. A sum over a set would be an
induction over data; the reference is instead the number of `Places`, one for each
message that some publisher keeps. The loop adds the places of one more publisher to
those it has (`PlacesOfOneMore`), and a sum that is cut off at the limit in every
iteration is the whole sum cut off once (`CutOff`).

`ShutdownProofs`: `ShutdownInvariant` (where each thread can be and for which
connection, what holds at each step of `stop()`, what is over when the event loop
is) is inductive and gives `TypeOK` and the three invariants of run `shutdown`, for any
number of connections and polls. Its last section is about `BridgeLifecycle`, whose
destructor calls `stop()`: `DepthIsConfigured`, from the order of the constructor
(nothing is offered before the polling thread, which starts after the depth is set);
and, with `main()` as the owner (hypothesis `~Unloadable`), `NothingRunsInDestroyedNode`.
`LifecycleJoinBlocked`: after a `MutualWait` the destructor never gets past `join()`, so
the exception of `DestructorReachesStop` is as final as `MutualWaitIsForEver` makes it.

`ClientProofs`: `DataFindsHandler` and `QuietServerIsSafe`, for any number of
advertisements and messages. The first follows from the order of the caller's steps
(`HandlerSet`). The second is far from inductive: that a handler does not crash depends
on what is still in the inbox. `ChannelOnce` says that an advertisement under way is the
only one and finds `channelPromise` without a value, and that once the promise has one,
or is destroyed, none is under way and none can come unless the server is not quiet;
`MessageOnce` says the same of the data and `msgPromise`, which is made before the
client subscribes; `CallPlaced`, that the connection is open for as long as the caller
needs it and open or never made when the destructor closes it. All three hold as long
as the server has been quiet, and a step to a quiet state comes from one
(`QuietBefore`). TLC agrees with the invariant on the instance of run `client`.

Assumptions: the named `ASSUME`s of the modules (bounds are naturals, `NoConn` and
`NoId` are not members of the sets, sets of threads are finite, subsets are
subsets). Every invariant, action property and refinement that a run checks is also
proved. Only model-checked: the liveness properties `ClientsSeeGraph` (of both bridges),
`LostConnectionsAreClosed`, `OnlyCyclesBlock`,
`StopReturnsUnlessLate`, `DestructorReachesStop`, `CallsEnd` and `CallEnds`, which are
outside the prover. `EventsComplete` is violated; `MutualWaitIsForEver` proves that the
state in its trace is final.

## Not modelled, and the plan

Left out for good, as there is no state or order in it: JSON and binary encoding,
status replies, logging, TLS and socket options, the declaration of parameters. Of
the client, `unsubscribe`, `advertise`, `unadvertise` and `publish` only encode and
send, and nothing in the repository calls them. `start()` after `stop()` is left
out: nothing calls it, and the code does not reset the event loop for it.

The plan is done: what remains is to follow the code. When a handler takes another
mutex, or a callback moves to another thread, the action changes first, then its run,
and the lemma about that action in the proof module fails if the argument is gone.
